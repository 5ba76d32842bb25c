------------------------------ MODULE Decoders ------------------------------
(***************************************************************************)
(* What the decoders of binary data must give back, against reference      *)
(* definitions: the SMBIOS structures of a machine, the tables the         *)
(* operating system holds, the frames that were sent and the values that   *)
(* were saved.  Of these only the walk over an SMBIOS table takes steps.   *)
(***************************************************************************)
EXTENDS Smbios, ConnTable, Frames, Values

CONSTANT Input      \* what may be decoded

VARIABLE input      \* what is decoded: [of, ...]

decoderVars == << input, walk >>

------------------------------------------------------------------------------
Byte == 0 .. 255

\* A structure as the firmware has it: its length is its second byte, a string has
\* at least one byte, and none that is zero.
Structure == [data : {d \in Seq(Byte) : Len(d) >= 4 /\ d[2] = Len(d)},
              strs : Seq({s \in Seq(1 .. 255) : s # << >>})]

\* Where string m of structure k starts, and the first of the two zero bytes that
\* end the structure.
StringStart(f, k, m) ==
    IF m = 1 THEN f.starts[k] + Len(f.structs[k].data) ELSE f.ends[k][m - 1] + 1
LastZero(f, k) == LET n == Len(f.structs[k].strs)
                  IN  IF n = 0 THEN StringStart(f, k, 1) ELSE f.ends[k][n]

\* String m lies from its start to the zero byte at ends[k][m].
StringLies(f, k, m) ==
    LET end == f.ends[k][m]
    IN  /\ end = StringStart(f, k, m) + Len(f.structs[k].strs[m])
        /\ SubSeq(f.bytes, StringStart(f, k, m) + 1, end) = f.structs[k].strs[m]
        /\ end <= LastZero(f, k) /\ At(f.bytes, end) = 0

\* Structure k lies from starts[k] to starts[k + 1].
StructureLies(f, k) ==
    /\ SubSeq(f.bytes, f.starts[k] + 1, StringStart(f, k, 1)) = f.structs[k].data
    /\ Len(f.ends[k]) = Len(f.structs[k].strs)
    /\ \A m \in DOMAIN f.ends[k] : StringLies(f, k, m)
    /\ StringStart(f, k, 1) <= LastZero(f, k)
    /\ f.starts[k + 1] = LastZero(f, k) + 2 /\ f.starts[k + 1] <= Len(f.bytes)
    /\ At(f.bytes, LastZero(f, k)) = 0 /\ At(f.bytes, LastZero(f, k) + 1) = 0

\* The bytes hold the structures one behind the other and nothing else.
LaidOut(f) ==
    /\ Len(f.starts) = Len(f.structs) + 1 /\ Len(f.ends) = Len(f.structs)
    /\ f.starts[1] = 0 /\ f.starts[Len(f.structs) + 1] = Len(f.bytes)
    /\ \A k \in DOMAIN f.structs : StructureLies(f, k)

\* The structures of a machine with their bytes and where each lies, and how many
\* bytes of the table reach the reader.
Firmware ==
    {f \in [of : {"smbios"}, reader : {"uuid", "memory"}, structs : Seq(Structure),
            bytes : Seq(Byte), starts : Seq(Nat), ends : Seq(Seq(Nat)), size : Nat] :
        LaidOut(f) /\ f.size <= Len(f.bytes)}

\* The answer of GetSystemFirmwareTable, cut short after `size` bytes of table.
Answer(bytes, size) ==
    LET n == Len(bytes)
    IN  << 0, 0, 0, 0, n % 256, (n \div 256) % 256, (n \div 65536) % 256, n \div 16777216 >>
        \o SubSeq(bytes, 1, size)

\* An answer of any bytes, whatever its header says.
Garbage == [of : {"garbage"}, reader : {"uuid", "memory"}, raw : Seq(Byte)]

\* The structure of a memory device of `kb` KB: a size in KB, in MB, or extended.
DeviceField(kb) == LET mb == kb \div 1024
                   IN  IF kb % 1024 # 0 THEN 32768 + kb ELSE IF mb < 32767 THEN mb ELSE 32767
MemoryDevice(kb) ==
    LET mb == kb \div 1024
    IN  [[p \in 1 .. 34 |-> 0] EXCEPT
            ![1] = 17, ![2] = 34,
            ![13] = DeviceField(kb) % 256, ![14] = DeviceField(kb) \div 256,
            ![29] = mb % 256, ![30] = (mb \div 256) % 256,
            ![31] = (mb \div 65536) % 256, ![32] = mb \div 16777216]

\* Below 32767 KB a size may be any number of KB, from there on it is in MB; the
\* extended size has 31 bits.
MemorySize == [of : {"size"}, kb : {n \in Nat : /\ n % 1024 = 0 \/ n < 32767
                                               /\ n \div 1073741824 < 2048}]

\* A query of a table: the buffer holds the rows, unless they became more meanwhile.
Row == [port : [hi : Byte, lo : Byte], pid : Nat, state : Nat]
Query(protocol) ==
    {q \in [grew : BOOLEAN, rows : Seq(Row), room : Nat] :
        q.grew \/ 4 + Len(q.rows) * RowSize(protocol) <= q.room}
Connections == [of : {"connections"}, tcp : Query("TCP"), udp : Query("UDP"), budget : Nat]

FitsFourBytes(n) == n \div 65536 < 65536

\* Every length below 4 GiB, the four bytes that LengthField fills, and every opcode.
Frame == [of : {"frame"}, opcode : 0 .. 15, masked : BOOLEAN,
          length : {n \in Nat : FitsFourBytes(n)}]

\* Whatever is saved.
Value == [of : {"value"}, type : Nat, payload : Nat]

ASSUME InputAssumption ==
    \A x \in Input : \/ x \in Firmware \/ x \in Garbage \/ x \in MemorySize
                     \/ x \in Connections \/ x \in Frame \/ x \in Value

------------------------------------------------------------------------------
\* The table that is walked over, and the callback; of the other inputs none.
DecoderInit ==
    /\ input \in Input
    /\ CASE input.of = "smbios" ->
              StartWalk(RawTable(Answer(input.bytes, input.size)), input.reader)
         [] input.of = "garbage" -> StartWalk(RawTable(input.raw), input.reader)
         [] OTHER -> StartWalk(<< >>, "uuid")

DecoderNext == WalkStep /\ UNCHANGED input

DecoderSpec == DecoderInit /\ [][DecoderNext]_decoderVars

------------------------------------------------------------------------------
\* The UUID of the machine: that of the first structure that has one.
Systems == {k \in DOMAIN input.structs : IsSystem(input.structs[k].data)}
MachineUUID == IF Systems = {} THEN << >> ELSE RawUUID(input.structs[Min(Systems)].data)

Usable(u) == u # << >> /\ ToSet(u) \notin {{0}, {255}}

Whole == input.size = Len(input.bytes)

\* The walk hands out all strings of a structure but the last.
WithoutLast(n) == IF n = 0 THEN 0 ELSE n - 1

\* Where in the list the memory device of structure k is.
DevicePlace(k) == Cardinality({j \in 1 .. k : IsDevice(handed[j].data)})

\* However short the table is cut, what is decoded is the beginning of what the
\* firmware has.  The structures come in order with the data they have and their
\* first strings; the last string of each is lost (StringsAreKept), and no other
\* except where the table is cut.  The UUID is the machine's or none.  The memory
\* devices are listed in order, each once and with its own size.  When nothing is
\* cut, every structure is handed out and a usable UUID is found.  Whatever unit a
\* size is stored in, it is the same (smbios_windows.go:61-113,
\* fingerprint_windows.go:11-61, hw_detail_windows.go:486-568).
SmbiosIsReal ==
    /\ input.of = "size" => SizeKB(MemoryDevice(input.kb)) = input.kb
    /\ input.of = "smbios" =>
        /\ Len(handed) <= Len(input.structs)
        /\ \A k \in DOMAIN handed :
              /\ handed[k].data = input.structs[k].data
              /\ IsPrefix(handed[k].strs, input.structs[k].strs)
              /\ Whole \/ k < Len(handed) =>
                    Len(handed[k].strs) = WithoutLast(Len(input.structs[k].strs))
        /\ PlatformUUID # << >> => MachineUUID # << >> /\ PlatformUUID = Printed(MachineUUID)
        /\ reader = "memory" =>
              /\ Len(ram) = DevicePlace(Len(handed))
              /\ \A k \in DOMAIN handed : IsDevice(handed[k].data) =>
                    ram[DevicePlace(k)].sizeKB = SizeKB(input.structs[k].data)
        /\ stage = "done" /\ Whole =>
              /\ reader = "memory" => Len(handed) = Len(input.structs)
              /\ reader = "uuid" /\ Usable(MachineUUID) => PlatformUUID = Printed(MachineUUID)

\* hardware_collector.go:47-52 gives every memory module its slot and its
\* manufacturer: the strings the structure refers to.
StringsAreKept ==
    input.of = "smbios" /\ reader = "memory" /\ stage = "done" /\ Whole =>
        LET modules == SelectSeq(input.structs,
                                 LAMBDA s : IsDevice(s.data) /\ Len(s.data) >= 24)
        IN  \A k \in DOMAIN modules :
               ram[k].manufacturer = Trim(String(modules[k].strs, modules[k].data[24]))

\* Unless the table grew or the time ran out, every socket that listens or is
\* connected is reported, once, with its process and its state; never one that is
\* not there (net_snap_windows.go:31-120).
RowsAreKept ==
    input.of = "connections" =>
        LET shown == NetworkConnections(input.tcp, input.udp, input.budget)
            found == {<< shown[n].protocol, shown[n].row >> : n \in DOMAIN shown}
            real(protocol, q) ==
                {<< protocol, n >> : n \in {m \in DOMAIN q.rows : Reported(protocol, q.rows[m])}}
            rowOf(c) == IF c.protocol = "TCP" THEN input.tcp.rows[c.row]
                        ELSE input.udp.rows[c.row]
        IN  /\ Cardinality(found) = Len(shown)
            /\ found \subseteq real("TCP", input.tcp) \cup real("UDP", input.udp)
            /\ \A n \in DOMAIN shown :
                  /\ shown[n].pid = rowOf(shown[n]).pid
                  /\ shown[n].protocol = "TCP" => shown[n].state = rowOf(shown[n]).state
            /\ input.budget >= Len(input.tcp.rows) + Len(input.udp.rows) =>
                  /\ ~ input.tcp.grew => real("TCP", input.tcp) \subseteq found
                  /\ ~ input.udp.grew => real("UDP", input.udp) \subseteq found

\* The dashboard names the service of a port (index.html:880-885): a port has to be
\* the one of the socket.
PortsAreReal ==
    input.of = "connections" =>
        LET shown == NetworkConnections(input.tcp, input.udp, input.budget)
            sockets == ToSet(input.tcp.rows) \cup ToSet(input.udp.rows)
        IN  \A n \in DOMAIN shown : \E r \in sockets :
               r.pid = shown[n].pid /\ shown[n].port = BigEndian(r.port)

\* What is written behind its length is read back whole, at every boundary of a
\* length field.  Either reader of frames gets the opcode and the length that were
\* written and stops at the payload, masked or not; only the stub's refuses, and only
\* what is over its cap (websocket.go:167-240, ws_client.go:99-148).  A value of the
\* buffer gives back its data type and payload, but for the two lengths at which the
\* decoder's uint16 wraps (data_buffer.go:87-95, 263-274).
LengthsRoundTrip ==
    /\ input.of = "frame" =>
        LET written == WriteFrame(input.opcode, input.length)
            frame == IF input.masked THEN Masked(written) ELSE written
            read == [opcode |-> input.opcode, length |-> input.length, used |-> Len(frame)]
        IN  /\ ReadFrame(frame, FALSE) = read
            /\ IF input.length <= Cap THEN ReadFrame(frame, TRUE) = read
               ELSE "error" \in DOMAIN ReadFrame(frame, TRUE)
            /\ ReadFrame(WriteControl(10, input.length), TRUE).length = ControlLength(input.length)
    /\ input.of = "value" =>
        LET value == EncodeValue(input.type, input.payload)
        IN  value # Refused =>
                DecodeValue(value) = IF input.type \in {Width - 2, Width - 1} THEN Panic
                                     ELSE [type |-> input.type, payload |-> input.payload]
=============================================================================
