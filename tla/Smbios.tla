------------------------------- MODULE Smbios -------------------------------
(***************************************************************************)
(* The SMBIOS table as the Windows collectors read it: smbios_windows.go,  *)
(* the UUID of fingerprint_windows.go and the memory devices of            *)
(* hw_detail_windows.go.                                                   *)
(*                                                                         *)
(* A table is a sequence of bytes.  Each structure has a header (type,     *)
(* length, handle), a formatted part of that length, and its strings, each *)
(* ended by a zero byte, the last by two.  Positions count from 0.         *)
(*                                                                         *)
(* walkSMBIOSStructures is a state machine: a step begins a structure,     *)
(* reads a string, or ends the strings and calls the reader's callback.    *)
(***************************************************************************)
EXTENDS Integers, SequencesExt, FiniteSetsExt

VARIABLES
    table,      \* the parameter `table`
    reader,     \* whose callback is called: "uuid" or "memory"
    stage,      \* "structure", "strings" or "done"
    pos,        \* the loop variable i
    scan,       \* the loop variable j, where the code assigns `start`
    strs,       \* the strings of this structure so far
    handed,     \* history: the structures the callback has been given
    uuid,       \* `out` of findType1UUIDFromTable
    ram         \* `out` of parseSMBIOSMemoryDevices

walk == << table, reader, stage, pos, scan, strs, handed, uuid, ram >>

At(t, p) == t[p + 1]
Word(t, p) == At(t, p) + 256 * At(t, p + 1)

\* getRawSMBIOSTable: the answer of the system without its header of 8 bytes, cut
\* where the length in the header says or where the answer ends; no bytes stand
\* for an error.
RawTable(raw) ==
    IF Len(raw) < 8 THEN << >>
    ELSE LET tableLen == Word(raw, 4) + 65536 * Word(raw, 6)
         IN  SubSeq(raw, 9, IF 8 + tableLen > Len(raw) THEN Len(raw) ELSE 8 + tableLen)

------------------------------------------------------------------------------
(* What the two callbacks make of a structure [data, strs].                 *)

IsSystem(data) == At(data, 0) = 1 /\ Len(data) >= 24
IsDevice(data) == At(data, 0) = 17 /\ Len(data) >= 21

RawUUID(data) == SubSeq(data, 9, 24)

\* smbiosString, and strings.TrimSpace
String(list, idx) == IF idx \in DOMAIN list THEN list[idx] ELSE << >>
Trim(s) == LET ink == {p \in DOMAIN s : s[p] \notin 9 .. 13 \cup {32}}
           IN  IF ink = {} THEN << >> ELSE SubSeq(s, Min(ink), Max(ink))
FirstOf(a, b, default) == IF a # << >> THEN a ELSE IF b # << >> THEN b ELSE default

\* The size of a memory device, in KB: the top bit of the field says KB, else MB;
\* one value refers to the extended size, if the structure is that long.
SizeKB(d) ==
    LET field == Word(d, 12)
    IN  CASE field \in {0, 65535} -> 0
          [] field = 32767 -> IF Len(d) >= 32
                              THEN 1024 * (Word(d, 28) + 65536 * Word(d, 30)) ELSE 0
          [] field \notin {0, 32767, 65535} ->
                 IF field >= 32768 THEN field - 32768 ELSE 1024 * field

SpeedMHz(d) ==
    LET configured == IF Len(d) >= 34 THEN Word(d, 32) ELSE 0
    IN  IF configured = 0 /\ Len(d) >= 23 THEN Word(d, 21) ELSE configured

Dimm == << 68, 73, 77, 77 >>

\* The slot falls back to "DIMM", so that no entry is ever empty and the code's
\* "skip empty entries" skips nothing.
Ram(s) == [slot |-> FirstOf(Trim(String(s.strs, At(s.data, 16))),
                            Trim(String(s.strs, At(s.data, 17))), Dimm),
           sizeKB |-> SizeKB(s.data),
           memoryType |-> At(s.data, 18),
           speed |-> SpeedMHz(s.data),
           manufacturer |-> IF Len(s.data) >= 24
                            THEN Trim(String(s.strs, At(s.data, 23))) ELSE << >>]

\* The UUID as it is printed: its first three fields are little-endian; a UUID of
\* zeros or of ones only is none.
Printed(u) == << u[4], u[3], u[2], u[1], u[6], u[5], u[8], u[7] >> \o SubSeq(u, 9, 16)
PlatformUUID == IF uuid = << >> \/ ToSet(uuid) \in {{0}, {255}} THEN << >> ELSE Printed(uuid)

------------------------------------------------------------------------------
(* The walk.                                                                *)

\* What the callback returns stops the walk: the first UUID is enough.
FindUUID(s) ==
    /\ reader = "uuid"
    /\ IF IsSystem(s.data)
       THEN uuid' = RawUUID(s.data) /\ stage' = "done" /\ UNCHANGED pos
       ELSE stage' = "structure" /\ pos' = scan' /\ UNCHANGED uuid
    /\ UNCHANGED ram

ListMemory(s) ==
    /\ reader = "memory"
    /\ ram' = IF IsDevice(s.data) THEN Append(ram, Ram(s)) ELSE ram
    /\ stage' = "structure" /\ pos' = scan'
    /\ UNCHANGED uuid

Length == At(table, pos + 1)

\* The header and the formatted part are inside the table.
HasStructure == /\ pos + 4 <= Len(table)
                /\ Length >= 4 /\ pos + Length <= Len(table)

\* The zero bytes still ahead that have a byte behind them.
Zeros == {z \in scan .. Len(table) - 2 : At(table, z) = 0}

\* The string that begins at `scan` is ended by one zero byte, not by two.
AtString == Zeros # {} /\ At(table, Min(Zeros) + 1) # 0

\* Variant: the second zero byte of a string set is left to the next structure.
MutStringsEnd == IF Zeros # {} THEN Min(Zeros) + 1
                 ELSE IF scan < Len(table) - 1 THEN Len(table) - 1 ELSE scan

\* Where the inner loop stops: past two zero bytes, or without them at the last byte.
StringsEnd == IF Zeros # {} THEN Min(Zeros) + 2
              ELSE IF scan < Len(table) - 1 THEN Len(table) - 1 ELSE scan

StartWalk(t, r) ==
    /\ table = t /\ reader = r
    /\ stage = IF t = << >> THEN "done" ELSE "structure"
    /\ pos = 0 /\ scan = 0 /\ strs = << >>
    /\ handed = << >> /\ uuid = << >> /\ ram = << >>

BeginStructure == /\ stage = "structure" /\ HasStructure
                  /\ stage' = "strings"
                  /\ scan' = pos + Length
                  /\ strs' = << >>
                  /\ UNCHANGED << table, reader, pos, handed, uuid, ram >>

EndWalk == /\ stage = "structure" /\ ~HasStructure
           /\ stage' = "done"
           /\ UNCHANGED << table, reader, pos, scan, strs, handed, uuid, ram >>

ReadString == /\ stage = "strings" /\ AtString
              /\ strs' = Append(strs, SubSeq(table, scan + 1, Min(Zeros)))
              /\ scan' = Min(Zeros) + 1
              /\ UNCHANGED << table, reader, stage, pos, handed, uuid, ram >>

\* The string before the two zero bytes has reached the branch that appends nothing.
EndStrings ==
    /\ stage = "strings" /\ ~AtString
    /\ scan' = StringsEnd
    /\ IF StringsEnd <= pos + Length
       THEN stage' = "done" /\ UNCHANGED << pos, handed, uuid, ram >>
       ELSE LET s == [data |-> SubSeq(table, pos + 1, pos + Length), strs |-> strs]
            IN  handed' = Append(handed, s) /\ (FindUUID(s) \/ ListMemory(s))
    /\ UNCHANGED << table, reader, strs >>

WalkStep == BeginStructure \/ EndWalk \/ ReadString \/ EndStrings
=============================================================================
