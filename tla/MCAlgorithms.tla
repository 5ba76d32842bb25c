---------------------------- MODULE MCAlgorithms ----------------------------
(* The algorithms on data, for TLC: the selection of a batch over every      *)
(* backlog that is reached, and each decoder on every input of a small set.  *)
(* Only the behaviours whose input is MCIdle, with which a decoder has       *)
(* nothing to do, select batches.                                            *)
EXTENDS MCDecoders, FairBatch

\* The case the comment of peekFairBatch names, rare and frequent records, and with the
\* last type more weight than a batch of 4 holds.
MCOneTypeTooMany == {"hardware_details", "host_metrics", "network_connections"}

MCIdle == [of |-> "size", kb |-> 0]

MCVars == << vars, decoderVars >>

MCInit == Init /\ DecoderInit

MCSelects == input = MCIdle /\ Next /\ UNCHANGED decoderVars
MCDecodes == DecoderNext /\ UNCHANGED vars

MCSpec == /\ MCInit /\ [][MCSelects \/ MCDecodes]_MCVars
          /\ WF_MCVars(input = MCIdle /\ Dispatch /\ UNCHANGED decoderVars)
=============================================================================
