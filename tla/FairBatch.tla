------------------------------ MODULE FairBatch ------------------------------
(***************************************************************************)
(* The batch selection of DataDispatcher.peekFairBatch: a window of the    *)
(* oldest records is grouped by type and a weighted round-robin over the   *)
(* types, in lexicographic order, fills a batch of at most BatchLimit.     *)
(*                                                                         *)
(* The loop is a state machine: one step takes a record, ends the turn of  *)
(* a type, or begins a round.  Around it is the backlog of the buffer:     *)
(* collectors keep saving while the loop runs, and a request answered 200  *)
(* deletes the batch.  A record of the backlog is its type, and its key is *)
(* its position, since only the order of keys counts.                      *)
(***************************************************************************)
EXTENDS FairShare, SequencesExt

CONSTANTS
    Type,        \* the data types that are being saved
    BatchLimit,  \* DataDispatcher.batchLimit
    Scan,        \* size of the window PeekBatch returns
    MaxBacklog   \* bound: records in the backlog

ASSUME TypeAssumption == Type \subseteq DataTypes
ASSUME LimitAssumption == {BatchLimit, Scan, MaxBacklog} \subseteq Nat \ {0}

VARIABLES
    backlog,     \* types of the buffered records, oldest first
    served,      \* types of the last batch that was sent
    pc,          \* where the dispatcher is: "waiting", "picking" or "sending"
    window,      \* the entries [key, dataType] that PeekBatch returned
    out,         \* the entries picked so far
    taken,       \* the field i of each type's group
    turn,        \* index in LexOrder of the type whose turn it is
    used,        \* the loop variable j: records taken in this turn
    progress     \* whether this round took a record

loop == << window, out, taken, turn, used, progress >>
vars == << backlog, served, pc, loop >>

Entry == [key : 1 .. MaxBacklog, dataType : Type]

TypeOK == /\ backlog \in BoundedSeq(Type, MaxBacklog)
          /\ served \subseteq Type
          /\ pc \in {"waiting", "picking", "sending"}
          /\ window \subseteq Entry
          /\ out \in BoundedSeq(window, BatchLimit)
          /\ taken \in [DataTypes -> 0 .. BatchLimit]
          /\ turn \in 1 .. 7
          /\ used \in 0 .. 3
          /\ progress \in BOOLEAN

------------------------------------------------------------------------------
Picked == ToSet(out)

Current == LexOrder[turn]

Group(type) == {b \in window : b.dataType = type}

\* Variant: a group is served from its end.
MutIsNext(b) == /\ b \in Group(Current)
                /\ Cardinality({c \in Group(Current) : b.key < c.key}) = taken[Current]

\* b is g.rs[g.i] of the type whose turn it is: g.i records of the group are older.
IsNext(b) == /\ b \in Group(Current)
             /\ Cardinality(SameTypeBefore(window, b)) = taken[Current]

\* Variant: the weight of the type is not looked at.
MutInTurn == taken[Current] < Cardinality(Group(Current))

\* The condition of the innermost loop, the limit apart.  A type that the window
\* does not have is passed over like one whose group is used up.
InTurn == /\ used < WeightOf(Current)
          /\ taken[Current] < Cardinality(Group(Current))

\* The i-th of a set of keys; the first is number 0.
Nth(keys, i) == CHOOSE k \in keys : Cardinality({c \in keys : c < k}) = i

\* The backlog without the keys in `sent`.
Without(sent) ==
    LET rest == DOMAIN backlog \ sent
    IN  [i \in 1 .. Cardinality(rest) |-> backlog[Nth(rest, i - 1)]]

\* Variant: the cursor walks from Last with Prev.
MutPeeked == LET skip == IF Len(backlog) > Scan THEN Len(backlog) - Scan ELSE 0
             IN  [i \in 1 .. Len(backlog) - skip |->
                    [key |-> skip + i, dataType |-> backlog[skip + i]]]

\* What PeekBatch(scan) returns.
Peeked == [i \in 1 .. (IF Len(backlog) > Scan THEN Scan ELSE Len(backlog)) |->
              [key |-> i, dataType |-> backlog[i]]]

------------------------------------------------------------------------------
\* The local variables before the loop.
Fresh == /\ taken' = [type \in DataTypes |-> 0]
         /\ turn' = 1 /\ used' = 0 /\ progress' = FALSE

Init == /\ backlog = << >> /\ served = {} /\ pc = "waiting"
        /\ window = {} /\ out = << >>
        /\ taken = [type \in DataTypes |-> 0]
        /\ turn = 1 /\ used = 0 /\ progress = FALSE

\* A collector saves a record.
Save(type) == /\ Len(backlog) < MaxBacklog
              /\ backlog' = Append(backlog, type)
              /\ UNCHANGED << served, pc, loop >>

\* The window is peeked.  One that is no longer than a batch is the batch.
Peek == /\ pc = "waiting" /\ backlog # << >>
        /\ window' = ToSet(Peeked)
        /\ IF Len(Peeked) <= BatchLimit
           THEN out' = Peeked /\ pc' = "sending"
           ELSE out' = << >> /\ pc' = "picking"
        /\ Fresh
        /\ UNCHANGED << backlog, served >>

TakeRecord == /\ pc = "picking" /\ Len(out) < BatchLimit /\ InTurn
              /\ \E b \in window : IsNext(b) /\ out' = Append(out, b)
              /\ taken' = [taken EXCEPT ![Current] = @ + 1]
              /\ used' = used + 1
              /\ progress' = TRUE
              /\ UNCHANGED << backlog, served, pc, window, turn >>

EndTurn == /\ pc = "picking" /\ Len(out) < BatchLimit /\ ~InTurn
           /\ turn < 7
           /\ turn' = turn + 1
           /\ used' = 0
           /\ UNCHANGED << backlog, served, pc, window, out, taken, progress >>

RoundIsOver == turn = 7 /\ ~InTurn

\* Variant: the index of a group is not kept from round to round.
MutEndRound == /\ pc = "picking" /\ Len(out) < BatchLimit
               /\ RoundIsOver /\ progress
               /\ Fresh
               /\ UNCHANGED << backlog, served, pc, window, out >>

EndRound == /\ pc = "picking" /\ Len(out) < BatchLimit
            /\ RoundIsOver /\ progress
            /\ turn' = 1 /\ used' = 0 /\ progress' = FALSE
            /\ UNCHANGED << backlog, served, pc, window, out, taken >>

\* The batch is full, or `if !progress { break }`.
GaveUp == RoundIsOver /\ ~progress

LeaveLoop == /\ pc = "picking" /\ (Len(out) = BatchLimit \/ GaveUp)
             /\ pc' = "sending"
             /\ UNCHANGED << backlog, served, loop >>

\* Variant: the batch is saved again instead of being deleted.
MutDispatchBatch == /\ pc = "sending"
                    /\ backlog' = backlog \o [i \in DOMAIN out |-> out[i].dataType]
                    /\ served' = {b.dataType : b \in Picked}
                    /\ pc' = "waiting" /\ window' = {} /\ out' = << >>
                    /\ Fresh

\* dispatchOnce with an answer of 200: the batch is deleted by its keys.
DispatchBatch == /\ pc = "sending"
                 /\ backlog' = Without({b.key : b \in Picked})
                 /\ served' = {b.dataType : b \in Picked}
                 /\ pc' = "waiting" /\ window' = {} /\ out' = << >>
                 /\ Fresh

Dispatch == Peek \/ TakeRecord \/ EndTurn \/ EndRound \/ LeaveLoop \/ DispatchBatch

Next == (\E type \in Type : Save(type)) \/ Dispatch

Spec == Init /\ [][Next]_vars /\ WF_vars(Dispatch)

------------------------------------------------------------------------------
(* The loop picks exactly the records the weighted round-robin promises,   *)
(* each once: data_dispatcher.go:239-258 against its comment at 179-182.   *)
LoopIsFairPick ==
    pc = "sending" => /\ Picked = FairPick(window, BatchLimit)
                      /\ Len(out) = Cardinality(Picked)

(* "Oldest-first as much as possible" (data_dispatcher.go:182): no record   *)
(* is picked while an older one of its own type is left behind, and a      *)
(* batch is never smaller than the window allows.                          *)
OldestFirstWithinType ==
    pc = "sending" =>
        /\ \A b \in Picked, c \in window :
              c.dataType = b.dataType /\ c.key < b.key => c \in Picked
        /\ \/ Cardinality(Picked) = BatchLimit
           \/ Cardinality(Picked) < BatchLimit /\ Picked = window

\* The places one round gives to the types of the window.
OneRound == {<< b.dataType, i >> : b \in window, i \in 0 .. 2}
PlacesOfRound == {p \in OneRound : p[2] < WeightOf(p[1])}

(* "ensuring each type gets airtime" (data_dispatcher.go:182): a batch that *)
(* holds one round has a record of every type of the window.               *)
EveryTypeGetsAirtime ==
    pc = "sending" /\ Cardinality(PlacesOfRound) <= BatchLimit =>
        \A c \in window : \E b \in Picked : b.dataType = c.dataType

\* The places that the types of an earlier turn may take in a round.
PlacesBefore(type) ==
    {p \in Type \X (0 .. 2) : TypeRank(p[1]) < TypeRank(type) /\ p[2] < WeightOf(p[1])}

(* "tries to avoid starving low-frequency types ... under sustained         *)
(* high-frequency metrics" (data_dispatcher.go:176-177): while savers keep *)
(* saving, a type that waits in the backlog is sent some time, provided    *)
(* the types of an earlier turn leave it a place in a batch: every round   *)
(* starts with the first type, so that a type behind BatchLimit places may *)
(* wait for ever.  With the default limit of 10 and all seven types, 3 + 1 *)
(* + 2 + 2 places are before security_snapshot, which is served, and 11    *)
(* before service_snapshot, which is not.                                  *)
NoTypeStarves ==
    \A type \in Type : Cardinality(PlacesBefore(type)) < BatchLimit =>
        (type \in ToSet(backlog) ~> type \in served)

==============================================================================
