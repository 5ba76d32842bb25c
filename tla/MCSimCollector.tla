--------------------------- MODULE MCSimCollector ---------------------------
(* Instances of SimCollector for TLC.                                       *)
EXTENDS SimCollector

MCTwoKinds == {Hardware, Process}
MCProcess == {Process}
MCNone == {}
MCContent == {"busy", "quiet"}
MCOneContent == {"busy"}
==============================================================================
