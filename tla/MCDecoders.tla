----------------------------- MODULE MCDecoders -----------------------------
(* The decoders, for TLC: every input of a small set.                        *)
EXTENDS Decoders

MCZeros(n) == [p \in 1 .. n |-> 0]

------------------------------------------------------------------------------
(* Firmware with one or two structures of each kind, cut after every byte.   *)

\* There are at most two.
MCJoin(list) == CASE Len(list) = 0 -> << >>
                  [] Len(list) = 1 -> list[1]
                  [] Len(list) = 2 -> list[1] \o list[2]

\* The bytes of a structure, and where its strings end, counted from its start.
MCStringBytes(list) ==
    IF list = << >> THEN << 0, 0 >> ELSE MCJoin([m \in DOMAIN list |-> Append(list[m], 0)]) \o << 0 >>
MCBytes(s) == s.data \o MCStringBytes(s.strs)
MCEnds(s) == [m \in DOMAIN s.strs |->
                Len(s.data) + Len(MCJoin(SubSeq(s.strs, 1, m))) + m - 1]

MCLayout(structs) ==
    LET bytes == [k \in DOMAIN structs |-> MCBytes(structs[k])]
        start(k) == Len(MCJoin(SubSeq(bytes, 1, k - 1)))
    IN  [structs |-> structs,
         bytes |-> MCJoin(bytes),
         starts |-> [k \in 1 .. Len(structs) + 1 |-> start(k)],
         ends |-> [k \in DOMAIN structs |->
                     [m \in DOMAIN structs[k].strs |-> start(k) + MCEnds(structs[k])[m]]]]

MCStrs == {<< >>, << << 65 >> >>, << << 65 >>, << 66, 66 >> >>}
MCOldSystem == << 1, 8, 0, 0, 1, 2, 0, 0 >>
MCSystem(u) == << 1, 27, 0, 0, 1, 2, 0, 0 >> \o u \o << 6, 0, 0 >>
MCProper == [p \in 1 .. 16 |-> p]
MCMemory == << 17, 27, 0, 0 >> \o MCZeros(8)
            \o << 0, 16, 0, 0, 1, 0, 26, 0, 0, 100, 0, 2, 0, 0, 0 >>
MCStructs == [data : {MCOldSystem, MCMemory, MCSystem(MCZeros(16)), MCSystem(MCProper)},
              strs : MCStrs]

\* A second one is one that a callback has to find.
MCSeconds == [data : {MCMemory, MCSystem(MCProper)}, strs : MCStrs \ {<< << 65 >> >>}]

MCFirmware ==
    UNION {{[of |-> "smbios", reader |-> r, structs |-> f.structs, bytes |-> f.bytes,
             starts |-> f.starts, ends |-> f.ends, size |-> n] :
               r \in {"uuid", "memory"}, n \in 0 .. Len(f.bytes)} :
           f \in {MCLayout(s) : s \in SeqOf(MCStructs, 1) \cup (MCStructs \X MCSeconds)}}

\* Answers without a header, and tables of any few bytes behind headers that say less,
\* as much or more than there is.
MCGarbage ==
    [of : {"garbage"}, reader : {"uuid", "memory"},
     raw : {<< >>, MCZeros(7)} \cup
           {MCZeros(4) \o << n, 0, 0, 0 >> \o t : n \in {0, 5, 200}, t \in SeqOf({0, 4, 17}, 6)}]

\* Around the largest size in KB, the largest in MB, and 1 TB.
MCMemorySizes ==
    [of : {"size"}, kb : {0, 1, 1024, 32766, 32768, 32766 * 1024, 32767 * 1024, 1073741824}]

------------------------------------------------------------------------------
(* Up to two TCP sockets and one of UDP, some of the same process; the end   *)
(* of the time before and behind any row.                                    *)
MCRows(states) == [state : states, pid : {1, 2},
                   port : {[hi |-> 0, lo |-> 80], [hi |-> 1, lo |-> 187]}]
MCQueries(protocol, states, n) ==
    {[grew |-> g, rows |-> r, room |-> 4 + Len(r) * RowSize(protocol) + slack] :
        g \in BOOLEAN, r \in SeqOf(MCRows(states), n), slack \in {0, 24}}
MCConnections ==
    [of : {"connections"}, tcp : MCQueries("TCP", {1, Listen}, 2),
     udp : MCQueries("UDP", {0}, 1), budget : {0, 1, 3}]

MCFrames ==
    [of : {"frame"}, opcode : {1, 9}, masked : BOOLEAN,
     length : {0, 125, 126, 127, 255, 256, 65534, 65535, 65536, Cap, Cap + 1}]

\* Every length at which a byte or the prefix overflows.
MCValues ==
    [of : {"value"}, payload : {0, 1, 300},
     type : {0, 1, 255, 256, Width - 3, Width - 2, Width - 1, Width}]

MCInput == MCFirmware \cup MCGarbage \cup MCMemorySizes \cup MCConnections
           \cup MCFrames \cup MCValues
=============================================================================
