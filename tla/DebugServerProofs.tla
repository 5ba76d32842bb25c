------------------------- MODULE DebugServerProofs -------------------------
(***************************************************************************)
(* Proofs about DebugServer, for any connections, data types and number of *)
(* requests.                                                               *)
(***************************************************************************)
EXTENDS DebugServer, TLAPS

Registered == {"registered", "first", "reading", "pong", "leaving"}

\* Who holds which lock, and what the broadcast may write to.
LockInv ==
    /\ \A n \in Request : stateMu = n <=> rpc[n] \in {"applied", "broadcast"}
    /\ \A c \in Client : stateMu = c <=> cpc[c] = "first"
    /\ \A n \in Request : clientsMu = n <=> rpc[n] = "broadcast"
    /\ clientsMu = Nobody => todo = {}
    /\ target # Nobody => target \in todo
    /\ todo \subseteq clients
    /\ \A c \in Client : c \in clients <=> cpc[c] \in Registered

\* A reading client shows the dashboard, or a broadcast will still reach it.
SyncInv ==
    \A c \in Client :
        cpc[c] \in {"reading", "pong"} /\ net[c] # "broken" =>
            \/ view[c] = state
            \/ \E n \in Request : rpc[n] = "applied"
            \/ c \in todo

\* A request that is under way is the last one, or one the agent gave up.
PostInv ==
    /\ awaited \subseteq {posted}
    /\ \A p \in Part : state[p] <= posted
    /\ \A n \in Request : n > posted => rpc[n] = "none"
    /\ \A n \in Request :
          rpc[n] \in {"sent", "arrived", "applied", "broadcast"} => n \in awaited \cup late

IInv == TypeOK /\ LockInv /\ SyncInv /\ PostInv

\* The holders of a mutex can be told apart.
LEMMA Distinct ==
    /\ \A c \in Client : c # Nobody /\ \A n \in Request : c # n
    /\ \A n \in Request : n # Nobody
<1> SUFFICES ASSUME NEW c \in Client
             PROVE  c # Nobody /\ \A n \in Request : c # n
  BY DEF Nobody, Request
<1>1. c \notin 0 .. MaxPosts
  BY NamesAssumption
<1>2. Nobody \in 0 .. MaxPosts
  BY PostsAssumption DEF Nobody
<1>3. Request \subseteq 0 .. MaxPosts
  BY PostsAssumption DEF Request
<1> QED
  BY <1>1, <1>2, <1>3

LEMMA IInvInit == Init => IInv
<1> SUFFICES ASSUME Init PROVE IInv
  OBVIOUS
<1> USE PostsAssumption, NamesAssumption DEF Init, Empty, Request, Nobody, Part
<1>1. TypeOK
  <2>1. 0 \in 0 .. MaxPosts
    OBVIOUS
  <2> QED
    BY <2>1 DEF TypeOK, Dashboard
<1>2. LockInv
  BY DEF LockInv, Registered
<1>3. SyncInv
  BY DEF SyncInv
<1>4. PostInv
  BY DEF PostInv
<1> QED
  BY <1>1, <1>2, <1>3, <1>4 DEF IInv

LEMMA IngestInv == IInv /\ (Post \/ \E n \in Request : IngestStep(n)) => IInv'
<1> SUFFICES ASSUME IInv, Post \/ \E n \in Request : IngestStep(n) PROVE IInv'
  OBVIOUS
<1> USE PostsAssumption, NamesAssumption
        DEF IInv, TypeOK, LockInv, SyncInv, PostInv, Request, Nobody, Part, Dashboard,
            Registered
<1>1. ASSUME Post PROVE IInv'
  <2>1. TypeOK'
    BY <1>1 DEF Post, clientVars
  <2>2. LockInv'
    BY <1>1 DEF Post, clientVars
  <2>3. SyncInv'
    BY <1>1 DEF Post, clientVars
  <2>4. PostInv'
    BY <1>1 DEF Post, clientVars
  <2> QED
    BY <2>1, <2>2, <2>3, <2>4
<1>2. ASSUME NEW n \in Request, GiveUp(n) PROVE IInv'
  <2>1. TypeOK'
    BY <1>2 DEF GiveUp, clientVars
  <2>2. LockInv'
    BY <1>2 DEF GiveUp, clientVars
  <2>3. SyncInv'
    BY <1>2 DEF GiveUp, clientVars
  <2>4. PostInv'
    BY <1>2 DEF GiveUp, clientVars
  <2> QED
    BY <2>1, <2>2, <2>3, <2>4
<1>3. ASSUME NEW n \in Request, Arrive(n) PROVE IInv'
  <2>1. TypeOK'
    BY <1>3 DEF Arrive, clientVars
  <2>2. LockInv'
    BY <1>3 DEF Arrive, clientVars
  <2>3. SyncInv'
    BY <1>3 DEF Arrive, clientVars
  <2>4. PostInv'
    BY <1>3 DEF Arrive, clientVars
  <2> QED
    BY <2>1, <2>2, <2>3, <2>4
<1>4. ASSUME NEW n \in Request, Reject(n) PROVE IInv'
  <2>1. TypeOK'
    BY <1>4 DEF Reject, clientVars
  <2>2. LockInv'
    BY <1>4 DEF Reject, clientVars
  <2>3. SyncInv'
    BY <1>4 DEF Reject, clientVars
  <2>4. PostInv'
    BY <1>4 DEF Reject, clientVars
  <2> QED
    BY <2>1, <2>2, <2>3, <2>4
<1>5. ASSUME NEW n \in Request, Apply(n) PROVE IInv'
  <2>1. TypeOK'
    <3> PICK D \in SUBSET DataType :
           state' = [p \in Part |-> IF p \in D \cup {"raw_batch"} THEN n ELSE state[p]]
      BY <1>5 DEF Apply
    <3>1. state' \in Dashboard
      OBVIOUS
    <3>2. /\ rpc' = [rpc EXCEPT ![n] = "applied"] /\ stateMu' = n
          /\ UNCHANGED << clientsMu, clients, todo, target, posted, awaited, late, cpc,
                          net, view >>
      BY <1>5 DEF Apply, clientVars
    <3> QED
      BY <3>1, <3>2
  <2>2. LockInv'
    <3> HIDE DEF Request, Nobody
    <3> USE Distinct
    <3>1. /\ \A m \in Request : rpc[m] \notin {"applied", "broadcast"}
          /\ \A d \in Client : cpc[d] # "first"
      BY <1>5 DEF Apply
    <3>2. /\ rpc' = [rpc EXCEPT ![n] = "applied"] /\ stateMu' = n /\ rpc[n] = "arrived"
          /\ UNCHANGED << clientsMu, clients, todo, target, cpc >>
      BY <1>5 DEF Apply, clientVars
    <3>3. \A m \in Request : stateMu' = m <=> rpc'[m] \in {"applied", "broadcast"}
      BY <3>1, <3>2
    <3>4. \A d \in Client : stateMu' = d <=> cpc'[d] = "first"
      BY <3>1, <3>2
    <3>5. \A m \in Request : clientsMu' = m <=> rpc'[m] = "broadcast"
      BY <3>1, <3>2
    <3> QED
      BY <3>2, <3>3, <3>4, <3>5
  <2>3. SyncInv'
    BY <1>5 DEF Apply, clientVars
  <2>4. PostInv'
    BY <1>5 DEF Apply, clientVars
  <2> QED
    BY <2>1, <2>2, <2>3, <2>4
<1>6. ASSUME NEW n \in Request, Broadcast(n) PROVE IInv'
  <2>1. TypeOK'
    BY <1>6 DEF Broadcast, clientVars
  <2>2. LockInv'
    BY <1>6 DEF Broadcast, clientVars
  <2>3. SyncInv'
    BY <1>6 DEF Broadcast, clientVars
  <2>4. PostInv'
    BY <1>6 DEF Broadcast, clientVars
  <2> QED
    BY <2>1, <2>2, <2>3, <2>4
<1>7. ASSUME NEW n \in Request, Pick(n) PROVE IInv'
  <2>1. TypeOK'
    BY <1>7 DEF Pick, clientVars
  <2>2. LockInv'
    BY <1>7 DEF Pick, clientVars
  <2>3. SyncInv'
    BY <1>7 DEF Pick, clientVars
  <2>4. PostInv'
    BY <1>7 DEF Pick, clientVars
  <2> QED
    BY <2>1, <2>2, <2>3, <2>4
<1>8. ASSUME NEW n \in Request, Written(n) PROVE IInv'
  <2>1. TypeOK'
    BY <1>8 DEF Written, clientVars, Received
  <2>2. LockInv'
    BY <1>8 DEF Written, clientVars, Received
  <2>3. SyncInv'
    BY <1>8 DEF Written, clientVars, Received
  <2>4. PostInv'
    BY <1>8 DEF Written, clientVars, Received
  <2> QED
    BY <2>1, <2>2, <2>3, <2>4
<1>9. ASSUME NEW n \in Request, Answer(n) PROVE IInv'
  <2>1. TypeOK'
    BY <1>9 DEF Answer, clientVars
  <2>2. LockInv'
    <3> HIDE DEF Request, Nobody
    <3> USE Distinct
    <3>1. /\ rpc' = [rpc EXCEPT ![n] = "done"] /\ stateMu' = Nobody /\ clientsMu' = Nobody
          /\ stateMu = n /\ clientsMu = n /\ todo = {}
          /\ UNCHANGED << clients, todo, target, cpc >>
      BY <1>9 DEF Answer, clientVars
    <3>2. \A m \in Request : rpc'[m] \notin {"applied", "broadcast"}
      BY <3>1
    <3>3. \A d \in Client : cpc'[d] # "first" /\ stateMu' # d
      BY <3>1
    <3> QED
      BY <3>1, <3>2, <3>3
  <2>3. SyncInv'
    BY <1>9 DEF Answer, clientVars
  <2>4. PostInv'
    BY <1>9 DEF Answer, clientVars
  <2> QED
    BY <2>1, <2>2, <2>3, <2>4
<1> QED
  BY <1>1, <1>2, <1>3, <1>4, <1>5, <1>6, <1>7, <1>8, <1>9 DEF IngestStep, HandlerStep

LEMMA ClientInv == IInv /\ (\E c \in Client : ClientStep(c)) => IInv'
<1> SUFFICES ASSUME IInv, \E c \in Client : ClientStep(c) PROVE IInv'
  OBVIOUS
<1> USE PostsAssumption, NamesAssumption
        DEF IInv, TypeOK, LockInv, SyncInv, PostInv, Request, Nobody, Part, Dashboard,
            Registered
<1>1. ASSUME NEW c \in Client, Upgrade(c) PROVE IInv'
  <2>1. TypeOK'
    BY <1>1 DEF Upgrade, GoTo, ingestVars
  <2>2. LockInv'
    BY <1>1 DEF Upgrade, GoTo, ingestVars
  <2>3. SyncInv'
    BY <1>1 DEF Upgrade, GoTo, ingestVars
  <2>4. PostInv'
    BY <1>1 DEF Upgrade, GoTo, ingestVars
  <2> QED
    BY <2>1, <2>2, <2>3, <2>4
<1>2. ASSUME NEW c \in Client, Register(c) PROVE IInv'
  <2>1. TypeOK'
    BY <1>2 DEF Register, GoTo, ingestVars
  <2>2. LockInv'
    BY <1>2 DEF Register, GoTo, ingestVars
  <2>3. SyncInv'
    BY <1>2 DEF Register, GoTo, ingestVars
  <2>4. PostInv'
    BY <1>2 DEF Register, GoTo, ingestVars
  <2> QED
    BY <2>1, <2>2, <2>3, <2>4
<1>3. ASSUME NEW c \in Client, FirstSend(c) PROVE IInv'
  <2>1. TypeOK'
    BY <1>3 DEF FirstSend, GoTo, ingestVars
  <2>2. LockInv'
    <3> HIDE DEF Request, Nobody
    <3> USE Distinct
    <3>1. /\ \A m \in Request : rpc[m] \notin {"applied", "broadcast"}
          /\ \A d \in Client : cpc[d] # "first"
      BY <1>3 DEF FirstSend
    <3>2. /\ cpc' = [cpc EXCEPT ![c] = "first"] /\ stateMu' = c /\ cpc[c] = "registered"
          /\ UNCHANGED << rpc, clientsMu, clients, todo, target >>
      BY <1>3 DEF FirstSend, GoTo
    <3>3. \A m \in Request : stateMu' = m <=> rpc'[m] \in {"applied", "broadcast"}
      BY <3>1, <3>2
    <3>4. \A d \in Client : stateMu' = d <=> cpc'[d] = "first"
      BY <3>1, <3>2
    <3>5. \A d \in Client : d \in clients' <=> cpc'[d] \in Registered
      BY <3>2
    <3> QED
      BY <3>2, <3>3, <3>4, <3>5
  <2>3. SyncInv'
    BY <1>3 DEF FirstSend, GoTo, ingestVars
  <2>4. PostInv'
    BY <1>3 DEF FirstSend, GoTo, ingestVars
  <2> QED
    BY <2>1, <2>2, <2>3, <2>4
<1>4. ASSUME NEW c \in Client, FirstSent(c) PROVE IInv'
  <2>1. TypeOK'
    BY <1>4 DEF FirstSent, GoTo, ingestVars, Received
  <2>2. LockInv'
    <3> HIDE DEF Request, Nobody
    <3> USE Distinct
    <3>1. /\ cpc' = [cpc EXCEPT ![c] = "reading"] /\ stateMu' = Nobody /\ stateMu = c
          /\ UNCHANGED << rpc, clientsMu, clients, todo, target >>
      BY <1>4 DEF FirstSent, GoTo
    <3>2. \A m \in Request : rpc'[m] \notin {"applied", "broadcast"} /\ stateMu' # m
      BY <3>1
    <3>3. \A d \in Client : cpc'[d] # "first" /\ stateMu' # d
      BY <3>1
    <3>4. \A d \in Client : d \in clients' <=> cpc'[d] \in Registered
      BY <1>4, <3>1 DEF FirstSent
    <3> QED
      BY <3>1, <3>2, <3>3, <3>4
  <2>3. SyncInv'
    BY <1>4 DEF FirstSent, GoTo, ingestVars, Received
  <2>4. PostInv'
    BY <1>4 DEF FirstSent, GoTo, ingestVars, Received
  <2> QED
    BY <2>1, <2>2, <2>3, <2>4
<1>5. ASSUME NEW c \in Client, Pong(c) PROVE IInv'
  <2>1. TypeOK'
    BY <1>5 DEF Pong, GoTo, ingestVars
  <2>2. LockInv'
    BY <1>5 DEF Pong, GoTo, ingestVars
  <2>3. SyncInv'
    BY <1>5 DEF Pong, GoTo, ingestVars
  <2>4. PostInv'
    BY <1>5 DEF Pong, GoTo, ingestVars
  <2> QED
    BY <2>1, <2>2, <2>3, <2>4
<1>6. ASSUME NEW c \in Client, PongSent(c) PROVE IInv'
  <2>1. TypeOK'
    BY <1>6 DEF PongSent, GoTo, ingestVars
  <2>2. LockInv'
    BY <1>6 DEF PongSent, GoTo, ingestVars
  <2>3. SyncInv'
    BY <1>6 DEF PongSent, GoTo, ingestVars
  <2>4. PostInv'
    BY <1>6 DEF PongSent, GoTo, ingestVars
  <2> QED
    BY <2>1, <2>2, <2>3, <2>4
<1>7. ASSUME NEW c \in Client, ReadFails(c) PROVE IInv'
  <2>1. TypeOK'
    BY <1>7 DEF ReadFails, GoTo, ingestVars
  <2>2. LockInv'
    BY <1>7 DEF ReadFails, GoTo, ingestVars
  <2>3. SyncInv'
    BY <1>7 DEF ReadFails, GoTo, ingestVars
  <2>4. PostInv'
    BY <1>7 DEF ReadFails, GoTo, ingestVars
  <2> QED
    BY <2>1, <2>2, <2>3, <2>4
<1>8. ASSUME NEW c \in Client, Unregister(c) PROVE IInv'
  <2>1. TypeOK'
    BY <1>8 DEF Unregister, GoTo, ingestVars
  <2>2. LockInv'
    BY <1>8 DEF Unregister, GoTo, ingestVars
  <2>3. SyncInv'
    BY <1>8 DEF Unregister, GoTo, ingestVars
  <2>4. PostInv'
    BY <1>8 DEF Unregister, GoTo, ingestVars
  <2> QED
    BY <2>1, <2>2, <2>3, <2>4
<1>9. ASSUME NEW c \in Client, CloseConn(c) PROVE IInv'
  <2>1. TypeOK'
    BY <1>9 DEF CloseConn, GoTo, ingestVars
  <2>2. LockInv'
    BY <1>9 DEF CloseConn, GoTo, ingestVars
  <2>3. SyncInv'
    BY <1>9 DEF CloseConn, GoTo, ingestVars
  <2>4. PostInv'
    BY <1>9 DEF CloseConn, GoTo, ingestVars
  <2> QED
    BY <2>1, <2>2, <2>3, <2>4
<1>10. ASSUME NEW c \in Client, Stall(c) PROVE IInv'
  <2>1. TypeOK'
    BY <1>10 DEF Stall, GoTo, ingestVars
  <2>2. LockInv'
    BY <1>10 DEF Stall, GoTo, ingestVars
  <2>3. SyncInv'
    BY <1>10 DEF Stall, GoTo, ingestVars
  <2>4. PostInv'
    BY <1>10 DEF Stall, GoTo, ingestVars
  <2> QED
    BY <2>1, <2>2, <2>3, <2>4
<1>11. ASSUME NEW c \in Client, Settle(c) PROVE IInv'
  <2>1. TypeOK'
    <3> PICK to \in {"ok", "broken"} : net' = [net EXCEPT ![c] = to]
      BY <1>11 DEF Settle
    <3> QED
      BY <1>11 DEF Settle, ingestVars
  <2>2. LockInv'
    BY <1>11 DEF Settle, GoTo, ingestVars
  <2>3. SyncInv'
    BY <1>11 DEF Settle, GoTo, ingestVars
  <2>4. PostInv'
    BY <1>11 DEF Settle, GoTo, ingestVars
  <2> QED
    BY <2>1, <2>2, <2>3, <2>4
<1>12. ASSUME NEW c \in Client, Break(c) PROVE IInv'
  <2>1. TypeOK'
    BY <1>12 DEF Break, GoTo, ingestVars
  <2>2. LockInv'
    BY <1>12 DEF Break, GoTo, ingestVars
  <2>3. SyncInv'
    BY <1>12 DEF Break, GoTo, ingestVars
  <2>4. PostInv'
    BY <1>12 DEF Break, GoTo, ingestVars
  <2> QED
    BY <2>1, <2>2, <2>3, <2>4
<1> QED
  BY <1>1, <1>2, <1>3, <1>4, <1>5, <1>6, <1>7, <1>8, <1>9, <1>10, <1>11, <1>12
     DEF ClientStep, ReaderStep

LEMMA IInvHolds == Spec => []IInv
<1>1. IInv /\ UNCHANGED vars => IInv'
  BY DEF vars, ingestVars, clientVars, IInv, TypeOK, LockInv, SyncInv, PostInv
<1> QED
  BY <1>1, IInvInit, IngestInv, ClientInv, PTL DEF Spec, Next

\* Every variable keeps its type.
THEOREM TypeCorrect == Spec => []TypeOK
<1>1. IInv => TypeOK
  BY DEF IInv
<1> QED
  BY <1>1, IInvHolds, PTL

\* However connections, broadcasts and first sends interleave, a client that reads
\* shows the current dashboard whenever stateMu is free.
THEOREM ClientsInSync == Spec => []InSync
<1>1. IInv => InSync
  <2> SUFFICES ASSUME IInv, stateMu = Nobody, NEW c \in Client,
                      cpc[c] \in {"reading", "pong"}, net[c] # "broken"
               PROVE  view[c] = state
    BY DEF InSync
  <2>1. \A n \in Request : rpc[n] \notin {"applied", "broadcast"}
    BY PostsAssumption DEF IInv, LockInv, Request, Nobody
  <2>2. clientsMu = Nobody
    BY <2>1 DEF IInv, LockInv, TypeOK
  <2> QED
    BY <2>1, <2>2 DEF IInv, LockInv, SyncInv
<1> QED
  BY <1>1, IInvHolds, PTL

\* No broadcast ever writes to a connection that is closed.
THEOREM WritesAreSafe == Spec => []WriteOnlyOpen
<1>1. IInv => WriteOnlyOpen
  BY DEF IInv, TypeOK, LockInv, Registered, WriteOnlyOpen
<1> QED
  BY <1>1, IInvHolds, PTL

\* The dashboard goes back only for a request the agent gave up.
THEOREM DashboardGrows == Spec => ShownGrows
<1> DEFINE Grows == \A p \in Part : state'[p] >= state[p] \/ state'[p] \in late
<1>1. IInv /\ [Next]_vars => [Grows]_vars
  <2> SUFFICES ASSUME IInv, Next PROVE Grows
    OBVIOUS
  <2>1. CASE \E n \in Request : Apply(n)
    <3> PICK n \in Request : Apply(n)
      BY <2>1
    <3>1. n \in late \/ n = posted
      BY DEF Apply, IInv, PostInv
    <3> QED
      BY <3>1 DEF Apply, IInv, TypeOK, PostInv, Dashboard, Request
  <2>2. CASE UNCHANGED state
    BY <2>2, PostsAssumption DEF IInv, TypeOK, Dashboard
  <2> QED
    BY <2>1, <2>2
       DEF Next, Post, IngestStep, HandlerStep, ClientStep, ReaderStep, GiveUp, Arrive,
           Reject, Broadcast, Pick, Written, Answer, Upgrade, Register, FirstSend,
           FirstSent, Pong, PongSent, ReadFails, Unregister, CloseConn, Stall, Settle,
           Break, ingestVars
<1> QED
  BY <1>1, IInvHolds, PTL DEF Spec, ShownGrows
=============================================================================
