---------------------------- MODULE DebugServer ----------------------------
(***************************************************************************)
(* scripts/debug_server/main.go: POST /ingest updates the dashboard state  *)
(* and sends it to every WebSocket client while it holds stateMu and       *)
(* clientsMu; GET /ws registers a client, sends it the state once, and     *)
(* leaves a goroutine that reads until the connection fails.               *)
(*                                                                         *)
(* A write has no deadline: it blocks while the peer does not read, and    *)
(* holds the lock of its connection (rwMu), which the answer to a ping     *)
(* also takes.  The agent posts one batch at a time, and gives a request   *)
(* up when its own timeout strikes; the server does not notice.            *)
(***************************************************************************)
EXTENDS Naturals

CONSTANTS
    Client,      \* browser connections
    DataType,    \* the data types of the dashboard
    MaxPosts     \* bound: requests of the agent

ASSUME PostsAssumption == MaxPosts \in Nat
ASSUME NamesAssumption ==
    /\ Client \cap (0 .. MaxPosts) = {}
    /\ "raw_batch" \notin DataType

VARIABLES
    state,       \* what each part of the dashboard shows: the number of its request
    stateMu,     \* who holds stateMu: a request, a client's handler, or 0
    clientsMu,   \* the request that broadcasts, or 0
    clients,     \* the registered connections
    todo,        \* the connections the broadcast has still to write to
    target,      \* the connection it is writing to, or 0
    posted,      \* number of requests of the agent
    awaited,     \* requests whose answer the agent waits for
    late,        \* history: requests the agent has given up
    rpc,         \* the handlers of /ingest
    cpc,         \* the handlers of /ws and their readers
    net,         \* a connection is "ok", "stalled" or "broken"
    view         \* what a client has received last

vars == << state, stateMu, clientsMu, clients, todo, target, posted, awaited, late,
           rpc, cpc, net, view >>
ingestVars == << stateMu, clientsMu, todo, target, posted, awaited, late, rpc, state >>
clientVars == << clients, cpc, net, view >>

Request == 1 .. MaxPosts
Part == DataType \cup {"raw_batch"}
Nobody == 0
Dashboard == [Part -> 0 .. MaxPosts]
Empty == [p \in Part |-> 0]

TypeOK ==
    /\ state \in Dashboard
    /\ stateMu \in Request \cup Client \cup {Nobody}
    /\ clientsMu \in Request \cup {Nobody}
    /\ clients \subseteq Client /\ todo \subseteq Client
    /\ target \in Client \cup {Nobody}
    /\ posted \in 0 .. MaxPosts
    /\ awaited \subseteq Request /\ late \subseteq Request
    /\ rpc \in [Request -> {"none", "sent", "arrived", "applied", "broadcast", "done"}]
    /\ cpc \in [Client -> {"away", "upgraded", "registered", "first", "reading", "pong",
                           "leaving", "closing", "gone"}]
    /\ net \in [Client -> {"ok", "stalled", "broken"}]
    /\ view \in [Client -> Dashboard]

Init ==
    /\ state = Empty
    /\ stateMu = Nobody /\ clientsMu = Nobody
    /\ clients = {} /\ todo = {} /\ target = Nobody
    /\ posted = 0 /\ awaited = {} /\ late = {}
    /\ rpc = [n \in Request |-> "none"]
    /\ cpc = [c \in Client |-> "away"]
    /\ net = [c \in Client |-> "ok"]
    /\ view = [c \in Client |-> Empty]

------------------------------------------------------------------------------
(* The agent *)

Post ==
    /\ posted < MaxPosts /\ awaited = {}
    /\ posted' = posted + 1
    /\ awaited' = {posted + 1}
    /\ rpc' = [rpc EXCEPT ![posted + 1] = "sent"]
    /\ UNCHANGED << state, stateMu, clientsMu, todo, target, late, clientVars >>

\* The timeout of the agent's HTTP client.
GiveUp(n) ==
    /\ n \in awaited
    /\ awaited' = awaited \ {n}
    /\ late' = late \cup {n}
    /\ UNCHANGED << state, stateMu, clientsMu, todo, target, posted, rpc, clientVars >>

------------------------------------------------------------------------------
(* handleIngest *)

\* Variant: the batch is accepted before it is applied.
MutArrive(n) ==
    /\ rpc[n] = "sent"
    /\ rpc' = [rpc EXCEPT ![n] = "arrived"]
    /\ awaited' = awaited \ {n}
    /\ UNCHANGED << state, stateMu, clientsMu, todo, target, posted, late, clientVars >>

\* The body is read and bound; from here on the handler waits for stateMu.
Arrive(n) ==
    /\ rpc[n] = "sent"
    /\ rpc' = [rpc EXCEPT ![n] = "arrived"]
    /\ UNCHANGED << state, stateMu, clientsMu, todo, target, posted, awaited, late,
                    clientVars >>

\* A body that does not bind is answered 400.
Reject(n) ==
    /\ rpc[n] = "sent"
    /\ rpc' = [rpc EXCEPT ![n] = "done"]
    /\ awaited' = awaited \ {n}
    /\ UNCHANGED << state, stateMu, clientsMu, todo, target, posted, late, clientVars >>

\* Variant: an item of an unknown type becomes a part of the dashboard.
MutApply(n) ==
    /\ rpc[n] = "arrived" /\ stateMu = Nobody
    /\ stateMu' = n
    /\ state' = [p \in Part \cup {"unknown"} |-> n]
    /\ rpc' = [rpc EXCEPT ![n] = "applied"]
    /\ UNCHANGED << clientsMu, todo, target, posted, awaited, late, clientVars >>

\* Under stateMu the parts the batch has items for are replaced, the raw batch
\* always.
Apply(n) ==
    /\ rpc[n] = "arrived" /\ stateMu = Nobody
    /\ stateMu' = n
    /\ \E D \in SUBSET DataType :
          state' = [p \in Part |-> IF p \in D \cup {"raw_batch"} THEN n ELSE state[p]]
    /\ rpc' = [rpc EXCEPT ![n] = "applied"]
    /\ UNCHANGED << clientsMu, todo, target, posted, awaited, late, clientVars >>

\* broadcastStateLocked takes clientsMu and ranges over the clients.
Broadcast(n) ==
    /\ rpc[n] = "applied" /\ clientsMu = Nobody
    /\ clientsMu' = n
    /\ todo' = clients
    /\ rpc' = [rpc EXCEPT ![n] = "broadcast"]
    /\ UNCHANGED << state, stateMu, target, posted, awaited, late, clientVars >>

\* The next connection, in any order, when its rwMu is free.
Pick(n) ==
    /\ rpc[n] = "broadcast" /\ target = Nobody
    /\ \E c \in todo : cpc[c] # "pong" /\ target' = c
    /\ UNCHANGED << state, stateMu, clientsMu, todo, posted, awaited, late, rpc,
                    clientVars >>

\* What a write leaves with its peer: nothing when the connection is broken.
Received(c) == IF net[c] = "ok" THEN [view EXCEPT ![c] = state] ELSE view

\* The write ends, with an error that is only logged when the peer is gone.
Written(n) ==
    /\ rpc[n] = "broadcast" /\ target # Nobody /\ net[target] # "stalled"
    /\ view' = Received(target)
    /\ todo' = todo \ {target}
    /\ target' = Nobody
    /\ UNCHANGED << state, stateMu, clientsMu, posted, awaited, late, rpc, clients, cpc,
                    net >>

\* clientsMu is given back, then 200 is answered, then stateMu is given back.
Answer(n) ==
    /\ rpc[n] = "broadcast" /\ todo = {}
    /\ clientsMu' = Nobody /\ stateMu' = Nobody
    /\ rpc' = [rpc EXCEPT ![n] = "done"]
    /\ awaited' = awaited \ {n}
    /\ UNCHANGED << state, todo, target, posted, late, clientVars >>

------------------------------------------------------------------------------
(* handleWS and its reader *)

GoTo(c, pc) == cpc' = [cpc EXCEPT ![c] = pc]

Upgrade(c) ==
    /\ cpc[c] = "away"
    /\ GoTo(c, "upgraded")
    /\ UNCHANGED << ingestVars, clients, net, view >>

\* Variant: the client is not registered until it has got its first state.
MutRegister(c) ==
    /\ cpc[c] = "upgraded" /\ clientsMu = Nobody
    /\ GoTo(c, "registered")
    /\ UNCHANGED << ingestVars, clients, net, view >>

Register(c) ==
    /\ cpc[c] = "upgraded" /\ clientsMu = Nobody
    /\ clients' = clients \cup {c}
    /\ GoTo(c, "registered")
    /\ UNCHANGED << ingestVars, net, view >>

FirstSend(c) ==
    /\ cpc[c] = "registered" /\ stateMu = Nobody
    /\ stateMu' = c
    /\ GoTo(c, "first")
    /\ UNCHANGED << state, clientsMu, todo, target, posted, awaited, late, rpc, clients,
                    net, view >>

\* Variant: a first write that fails returns with the lock held.
MutFirstSent(c) ==
    /\ cpc[c] = "first" /\ net[c] # "stalled"
    /\ view' = Received(c)
    /\ stateMu' = IF net[c] = "ok" THEN Nobody ELSE c
    /\ GoTo(c, "reading")
    /\ UNCHANGED << state, clientsMu, todo, target, posted, awaited, late, rpc, clients,
                    net >>

FirstSent(c) ==
    /\ cpc[c] = "first" /\ net[c] # "stalled"
    /\ view' = Received(c)
    /\ stateMu' = Nobody
    /\ GoTo(c, "reading")
    /\ UNCHANGED << state, clientsMu, todo, target, posted, awaited, late, rpc, clients,
                    net >>

\* A ping is answered under rwMu, which a broadcast may hold.
Pong(c) ==
    /\ cpc[c] = "reading" /\ net[c] = "ok" /\ target # c
    /\ GoTo(c, "pong")
    /\ UNCHANGED << ingestVars, clients, net, view >>

PongSent(c) ==
    /\ cpc[c] = "pong" /\ net[c] # "stalled"
    /\ GoTo(c, "reading")
    /\ UNCHANGED << ingestVars, clients, net, view >>

\* ReadMessage returns an error.
ReadFails(c) ==
    /\ cpc[c] = "reading" /\ net[c] = "broken"
    /\ GoTo(c, "leaving")
    /\ UNCHANGED << ingestVars, clients, net, view >>

\* Variant: the client is removed without clientsMu.
MutUnregister(c) ==
    /\ cpc[c] = "leaving"
    /\ clients' = clients \ {c}
    /\ GoTo(c, "closing")
    /\ UNCHANGED << ingestVars, net, view >>

Unregister(c) ==
    /\ cpc[c] = "leaving" /\ clientsMu = Nobody
    /\ clients' = clients \ {c}
    /\ GoTo(c, "closing")
    /\ UNCHANGED << ingestVars, net, view >>

\* Close takes rwMu.
CloseConn(c) ==
    /\ cpc[c] = "closing" /\ target # c
    /\ GoTo(c, "gone")
    /\ UNCHANGED << ingestVars, clients, net, view >>

------------------------------------------------------------------------------
(* The peers *)

Stall(c) ==
    /\ net[c] = "ok" /\ cpc[c] # "away"
    /\ net' = [net EXCEPT ![c] = "stalled"]
    /\ UNCHANGED << ingestVars, clients, cpc, view >>

\* A peer that does not read takes it up again, or its connection fails.
Settle(c) ==
    /\ net[c] = "stalled"
    /\ \E to \in {"ok", "broken"} : net' = [net EXCEPT ![c] = to]
    /\ UNCHANGED << ingestVars, clients, cpc, view >>

Break(c) ==
    /\ net[c] = "ok" /\ cpc[c] # "away"
    /\ net' = [net EXCEPT ![c] = "broken"]
    /\ UNCHANGED << ingestVars, clients, cpc, view >>

------------------------------------------------------------------------------

HandlerStep(n) == Apply(n) \/ Broadcast(n) \/ Pick(n) \/ Written(n) \/ Answer(n)
IngestStep(n) == GiveUp(n) \/ Arrive(n) \/ Reject(n) \/ HandlerStep(n)
ReaderStep(c) ==
    \/ Register(c) \/ FirstSend(c) \/ FirstSent(c) \/ PongSent(c) \/ ReadFails(c)
    \/ Unregister(c) \/ CloseConn(c)
ClientStep(c) == Upgrade(c) \/ Pong(c) \/ ReaderStep(c) \/ Stall(c) \/ Settle(c) \/ Break(c)

Next ==
    \/ Post
    \/ \E n \in Request : IngestStep(n)
    \/ \E c \in Client : ClientStep(c)

Spec == Init /\ [][Next]_vars

\* Go's mutexes starve nobody, and a peer does not stay stalled for ever: the code
\* sets no deadline, so that much has to come from the peers and from TCP.
FairSpec ==
    /\ Spec
    /\ \A n \in Request : SF_vars(HandlerStep(n))
    /\ \A c \in Client : SF_vars(ReaderStep(c)) /\ WF_vars(Settle(c))

------------------------------------------------------------------------------
(* Properties *)

\* Between two ingests every client that has its first state, and whose connection
\* works, shows the current dashboard: no broadcast falls between the
\* registration and the first state.
InSync ==
    stateMu = Nobody =>
        \A c \in Client :
            cpc[c] \in {"reading", "pong"} /\ net[c] # "broken" => view[c] = state

\* A broadcast never writes to a connection its reader has closed or is closing.
WriteOnlyOpen ==
    \A c \in todo : cpc[c] \notin {"closing", "gone"}

\* A part of the dashboard is set back only by a request the agent gave up.
ShownGrows ==
    [][\A p \in Part : state'[p] >= state[p] \/ state'[p] \in late]_vars

\* Every batch that has reached the server is answered in the end, although clients
\* come, stall, ping and go: none of the locks is held or waited for in a cycle.
IngestAnswered ==
    \A n \in Request : rpc[n] = "arrived" ~> rpc[n] = "done"
=============================================================================
