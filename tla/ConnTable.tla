----------------------------- MODULE ConnTable -----------------------------
(***************************************************************************)
(* net_snap_windows.go: the TCP and UDP connections as two tables of the   *)
(* operating system, read with a query for the size and one for the rows.  *)
(*                                                                         *)
(* A query is [grew, rows, room]: whether the table outgrew the first      *)
(* answer before the second call, the rows, and the bytes of the buffer.   *)
(* A port lies in a row as the two bytes [hi, lo] of its network order.    *)
(* The addresses and the remote port of a row are its number in the table. *)
(***************************************************************************)
EXTENDS Naturals, Sequences, FiniteSets

Listen == 2
Established == 5

\* MIB_TCPROW_OWNER_PID and MIB_UDPROW_OWNER_PID
RowSize(protocol) == IF protocol = "TCP" THEN 24 ELSE 12

\* queryExtendedTable: a table that grew between the calls is an error, and the
\* callers' callers drop that error: no rows.
QueryTable(q) == IF q.grew \/ q.room < 4 THEN << >> ELSE q.rows

\* Variant: the last row is taken for one that the buffer cuts off.
MutFits(protocol, q, n) == 4 + n * RowSize(protocol) < q.room

\* Row n, counted from 1, is in the buffer; the loop ends at the first that is not.
Fits(protocol, q, n) == 4 + n * RowSize(protocol) <= q.room

BigEndian(port) == 256 * port.hi + port.lo
Ntohs(v) == ((256 * v) % 65536) + (v \div 256)

\* The port as it is reported: the bytes are put together in network order and
\* then swapped once more.
ReportedPort(port) == Ntohs(BigEndian(port))

Reported(protocol, row) == protocol = "TCP" => row.state \in {Listen, Established}

\* collectTCPTable and collectUDPTable: the rows seen before the context is done,
\* after `budget` of them; of TCP only what listens or is established.
Collected(protocol, q, budget) ==
    LET rows == QueryTable(q)
        Conn(n) == [protocol |-> protocol, row |-> n,
                    port |-> ReportedPort(rows[n].port), pid |-> rows[n].pid,
                    state |-> IF protocol = "TCP" THEN rows[n].state ELSE Listen]
    IN  {Conn(n) : n \in {m \in DOMAIN rows :
            m <= budget /\ Fits(protocol, q, m) /\ Reported(protocol, rows[m])}}

\* The order of sort.Slice.  It leaves equals in any order; here it is that of the rows.
SortsBefore(a, b) ==
    \/ a.protocol = "TCP" /\ b.protocol = "UDP"
    \/ /\ a.protocol = b.protocol
       /\ \/ a.port < b.port
          \/ a.port = b.port /\ a.pid < b.pid
          \/ a.port = b.port /\ a.pid = b.pid /\ a.row < b.row

Sorted(conns) ==
    [n \in 1 .. Cardinality(conns) |->
        CHOOSE c \in conns : Cardinality({d \in conns : SortsBefore(d, c)}) = n - 1]

\* collectNetworkConnections: both tables, each best effort, sorted.  The same
\* context runs out for the second table when it did for the first.
NetworkConnections(tcp, udp, budget) ==
    LET seen == Len(QueryTable(tcp))
    IN  Sorted(Collected("TCP", tcp, budget)
               \cup Collected("UDP", udp, IF budget > seen THEN budget - seen ELSE 0))
=============================================================================
