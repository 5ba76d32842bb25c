------------------------------- MODULE Outbox -------------------------------
(***************************************************************************)
(* What the buffer and the dispatcher promise together, without clocks,    *)
(* locks, keys or transactions: an accepted record is held until the       *)
(* backend has received it, or until the size policy evicts it.            *)
(*                                                                         *)
(* The two comments it restates: "buffers outbound data to prevent data    *)
(* loss" (data_buffer.go:29) and, in README.md:8, a record is deleted      *)
(* after the backend has answered 200 OK.                                  *)
(***************************************************************************)
CONSTANT Record

VARIABLES
    held,       \* accepted, not yet settled or evicted
    settled,    \* deleted after delivery
    evicted,    \* given up by the size policy
    received    \* what the backend has ingested, once or more often

vars == << held, settled, evicted, received >>

Init == held = {} /\ settled = {} /\ evicted = {} /\ received = {}

Accept(r) == /\ r \notin held \cup settled \cup evicted
             /\ held' = held \cup {r}
             /\ UNCHANGED << settled, evicted, received >>

\* A request may carry records that were evicted after they had been picked,
\* but never one that is settled.
Receive(R) == /\ R \subseteq held \cup evicted
              /\ received' = received \cup R
              /\ UNCHANGED << held, settled, evicted >>

Settle(R) == /\ R \subseteq held \cap received
             /\ held' = held \ R
             /\ settled' = settled \cup R
             /\ UNCHANGED << evicted, received >>

Evict(R) == /\ R \subseteq held
            /\ held' = held \ R
            /\ evicted' = evicted \cup R
            /\ UNCHANGED << settled, received >>

Next == \/ \E r \in Record : Accept(r)
        \/ \E R \in SUBSET Record : Receive(R) \/ Settle(R) \/ Evict(R)

Spec == Init /\ [][Next]_vars
==============================================================================
