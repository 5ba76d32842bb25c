--------------------------- MODULE DecoderProofs ---------------------------
(***************************************************************************)
(* What TLC checks of the decoders on a few inputs, for every input: the   *)
(* frames and the values, the tables of the operating system, and the walk *)
(* over an SMBIOS table.                                                   *)
(***************************************************************************)
EXTENDS Decoders, SequenceTheorems, FiniteSetTheorems, WellFoundedInduction, TLAPS

------------------------------------------------------------------------------
(* The three forms of a length, and the bytes a reader has to find for      *)
(* each: `mask` is 128 when the frame carries a mask.                       *)

IsShort(n) == n < 126
IsMedium(n) == 126 <= n /\ n <= 65535
IsLong(n) == n > 65535

LEMMA Forms == ASSUME NEW n \in Nat PROVE IsShort(n) \/ IsMedium(n) \/ IsLong(n)
BY SMT DEF IsShort, IsMedium, IsLong

ShortBytes(b, op, n, mask) == b[1] = 128 + op /\ b[2] = n + mask

MediumBytes(b, op, n, mask) ==
    /\ b[1] = 128 + op /\ b[2] = 126 + mask
    /\ b[3] = n \div 256 /\ b[4] = n % 256

LongBytes(b, op, n, mask) ==
    /\ b[1] = 128 + op /\ b[2] = 127 + mask
    /\ b[3] = 0 /\ b[4] = 0 /\ b[5] = 0 /\ b[6] = 0
    /\ b[7] = n \div 16777216 /\ b[8] = (n \div 65536) % 256
    /\ b[9] = (n \div 256) % 256 /\ b[10] = n % 256

Header(op, n, used) == [opcode |-> op, length |-> n, used |-> used]

MaskSize(mask) == IF mask = 128 THEN 4 ELSE 0

LEMMA ReadShort ==
    ASSUME NEW b, NEW op \in 0 .. 15, NEW n \in Nat, IsShort(n), NEW mask \in {0, 128},
           ShortBytes(b, op, n, mask), NEW capped \in BOOLEAN
    PROVE  ReadFrame(b, capped) = Header(op, n, 2 + MaskSize(mask))
<1>1. b[1] % 16 = op /\ b[2] % 128 = n /\ (b[2] >= 128 <=> mask = 128)
  BY SMT DEF ShortBytes, IsShort
<1>2. n # 126 /\ n # 127
  BY SMT DEF IsShort
<1>3. Extended(b) = 0
  BY <1>1, <1>2 DEF Extended
<1>4. PayloadLength(b) = n
  BY <1>1, <1>3 DEF PayloadLength
<1> QED
  BY <1>1, <1>3, <1>4 DEF ReadFrame, Header, MaskSize

LEMMA ReadMedium ==
    ASSUME NEW b, NEW op \in 0 .. 15, NEW n \in Nat, IsMedium(n), NEW mask \in {0, 128},
           MediumBytes(b, op, n, mask), NEW capped \in BOOLEAN
    PROVE  ReadFrame(b, capped) = Header(op, n, 4 + MaskSize(mask))
<1>1. b[1] % 16 = op /\ b[2] % 128 = 126 /\ (b[2] >= 128 <=> mask = 128)
  BY SMT DEF MediumBytes
<1>2. Uint16(b, 3) = n
  <2>1. 256 * (n \div 256) + (n % 256) = n
    BY SMT
  <2> QED
    BY <2>1, SMT DEF MediumBytes, Uint16
<1>3. Extended(b) = 2
  BY <1>1 DEF Extended
<1>4. PayloadLength(b) = n
  BY <1>2, <1>3 DEF PayloadLength
<1> QED
  BY <1>1, <1>3, <1>4 DEF ReadFrame, Header, MaskSize

LEMMA LongValue ==
    ASSUME NEW b, NEW op, NEW n \in Nat, NEW mask, LongBytes(b, op, n, mask)
    PROVE  Uint64(b, 3) = n
<1>1. Uint16(b, 3) = 0 /\ Uint16(b, 5) = 0
  BY SMT DEF LongBytes, Uint16
<1>2. Uint16(b, 7) = n \div 65536
  <2>1. 256 * (n \div 16777216) + ((n \div 65536) % 256) = n \div 65536
    BY SMT
  <2> QED
    BY <2>1, SMT DEF LongBytes, Uint16
<1>3. Uint16(b, 9) = n % 65536
  <2>1. 256 * ((n \div 256) % 256) + (n % 256) = n % 65536
    BY SMT
  <2> QED
    BY <2>1, SMT DEF LongBytes, Uint16
<1>4. (n \div 65536) * 65536 + (n % 65536) = n
  BY SMT
<1> QED
  BY <1>1, <1>2, <1>3, <1>4, SMT DEF Uint64

LEMMA ReadLong ==
    ASSUME NEW b, NEW op \in 0 .. 15, NEW n \in Nat, NEW mask \in {0, 128},
           LongBytes(b, op, n, mask), NEW capped \in BOOLEAN
    PROVE  ReadFrame(b, capped) = IF capped /\ n > Cap THEN [error |-> "oversized"]
                                  ELSE Header(op, n, 10 + MaskSize(mask))
<1>1. b[1] % 16 = op /\ b[2] % 128 = 127 /\ (b[2] >= 128 <=> mask = 128)
  BY SMT DEF LongBytes
<1>2. Uint64(b, 3) = n
  BY LongValue
<1>3. Extended(b) = 8
  BY <1>1 DEF Extended
<1>4. PayloadLength(b) = n
  BY <1>2, <1>3 DEF PayloadLength
<1>5. CASE capped /\ n > Cap
  BY <1>3, <1>4, <1>5 DEF ReadFrame
<1>6. CASE ~(capped /\ n > Cap)
  <2>1. (IF b[2] >= 128 THEN 4 ELSE 0) = MaskSize(mask)
    BY <1>1 DEF MaskSize
  <2>2. 2 + Extended(b) + MaskSize(mask) = 10 + MaskSize(mask)
    BY <1>3 DEF MaskSize
  <2>3. ~(capped /\ Extended(b) = 8 /\ PayloadLength(b) > Cap)
    BY <1>4, <1>6
  <2>4. ReadFrame(b, capped) = Header(op, n, 10 + MaskSize(mask))
    BY <1>1, <1>4, <2>1, <2>2, <2>3 DEF ReadFrame, Header
  <2> QED
    BY <1>6, <2>4
<1> QED
  BY <1>5, <1>6

------------------------------------------------------------------------------
(* The bytes that are written.                                              *)

\* A sequence behind a first byte.
LEMMA BehindOne ==
    ASSUME NEW x \in Nat, NEW f \in Seq(Nat)
    PROVE  /\ << x >> \o f \in Seq(Nat) /\ Len(<< x >> \o f) = Len(f) + 1
           /\ (<< x >> \o f)[1] = x
           /\ \A i \in 1 .. Len(f) : (<< x >> \o f)[i + 1] = f[i]
<1> DEFINE h == << x >>
<1>1. h \in Seq(Nat) /\ Len(h) = 1 /\ h[1] = x
  OBVIOUS
<1> HIDE DEF h
<1>2. Len(f) \in Nat
  BY LenProperties
<1>3. /\ h \o f \in Seq(Nat) /\ Len(h \o f) = Len(h) + Len(f)
      /\ \A i \in 1 .. Len(h) + Len(f) :
            (h \o f)[i] = IF i <= Len(h) THEN h[i] ELSE f[i - Len(h)]
  BY <1>1, ConcatProperties, Zenon
<1>4. (h \o f)[1] = x
  BY <1>1, <1>2, <1>3
<1>5. ASSUME NEW i \in 1 .. Len(f) PROVE (h \o f)[i + 1] = f[i]
  <2>1. i + 1 \in 1 .. Len(h) + Len(f) /\ ~(i + 1 <= Len(h)) /\ (i + 1) - Len(h) = i
    BY <1>1, <1>2
  <2> QED
    BY <1>3, <2>1, Zenon
<1>6. Len(h \o f) = Len(f) + 1
  BY <1>1, <1>2, <1>3
<1> QED
  BY <1>3, <1>4, <1>5, <1>6 DEF h

\* A mask leaves the first byte and the bytes of the length, and adds four bytes.
LEMMA MaskedBytes ==
    ASSUME NEW b \in Seq(Nat), Len(b) >= 2
    PROVE  /\ Masked(b)[1] = b[1] /\ Masked(b)[2] = b[2] + 128
           /\ \A i \in 3 .. Len(b) : Masked(b)[i] = b[i]
           /\ Len(Masked(b)) = Len(b) + 4
<1> DEFINE h == << b[1], b[2] + 128 >>
           s == SubSeq(b, 3, Len(b))
           m == << 1, 2, 3, 4 >>
<1>0. /\ Len(b) \in Nat /\ b[1] \in Nat /\ b[2] \in Nat
      /\ \A i \in 3 .. Len(b) : b[i] \in Nat
  BY LenProperties
<1>1. h \in Seq(Nat) /\ Len(h) = 2 /\ h[1] = b[1] /\ h[2] = b[2] + 128
  BY <1>0
<1>2. s \in Seq(Nat) /\ Len(s) = IF 3 <= Len(b) THEN (Len(b) - 3) + 1 ELSE 0
  BY <1>0, SubSeqProperties, SMT
<1>2a. \A i \in 1 .. (Len(b) - 3) + 1 : s[i] = b[(3 + i) - 1]
  BY <1>0, SubSeqProperties, SMT
<1>3. m \in Seq(Nat) /\ Len(m) = 4
  OBVIOUS
<1>4. Masked(b) = h \o s \o m
  BY DEF Masked
<1> HIDE DEF h, s, m
<1>5. Len(s) = Len(b) - 2 /\ \A i \in 1 .. Len(s) : s[i] = b[i + 2]
  <2>0. ASSUME NEW k \in Nat, k >= 2 PROVE (IF 3 <= k THEN (k - 3) + 1 ELSE 0) = k - 2
    BY <2>0
  <2>1. Len(s) = Len(b) - 2
    BY <1>0, <1>2, <2>0, Zenon
  <2>2. ASSUME NEW i \in 1 .. Len(s) PROVE s[i] = b[i + 2]
    <3>1. i \in 1 .. (Len(b) - 3) + 1 /\ (3 + i) - 1 = i + 2
      BY <1>0, <2>1
    <3>2. s[i] = b[(3 + i) - 1]
      BY <1>2a, <3>1, Zenon
    <3> QED
      BY <3>1, <3>2, Zenon
  <2> QED
    BY <2>1, <2>2
<1>6. /\ h \o s \in Seq(Nat) /\ Len(h \o s) = Len(h) + Len(s)
      /\ \A i \in 1 .. Len(h) + Len(s) :
            (h \o s)[i] = IF i <= Len(h) THEN h[i] ELSE s[i - Len(h)]
  <2>1. h \in Seq(Nat)
    BY <1>1
  <2>2. s \in Seq(Nat)
    BY <1>2
  <2> QED
    BY <2>1, <2>2, ConcatProperties, Zenon
<1>7. Len(h \o s) = Len(b)
  BY <1>0, <1>1, <1>5, <1>6
<1>8. (h \o s)[1] = b[1] /\ (h \o s)[2] = b[2] + 128
  BY <1>0, <1>1, <1>5, <1>6
<1>9. ASSUME NEW i \in 3 .. Len(b) PROVE (h \o s)[i] = b[i]
  <2>1. i \in 1 .. Len(h) + Len(s) /\ ~(i <= Len(h)) /\ i - Len(h) \in 1 .. Len(s)
        /\ (i - Len(h)) + 2 = i
    BY <1>0, <1>1, <1>5
  <2> QED
    BY <1>5, <1>6, <2>1, Zenon
<1> DEFINE t == h \o s
<1> HIDE DEF t
<1>10. /\ Len(t \o m) = Len(t) + Len(m)
       /\ \A i \in 1 .. Len(t) + Len(m) :
            (t \o m)[i] = IF i <= Len(t) THEN t[i] ELSE m[i - Len(t)]
  <2>1. t \in Seq(Nat)
    BY <1>6 DEF t
  <2>2. m \in Seq(Nat)
    BY <1>3
  <2> QED
    BY <2>1, <2>2, ConcatProperties, Zenon
<1>11. ASSUME NEW i \in 1 .. Len(b) PROVE (t \o m)[i] = t[i]
  <2>1. i \in 1 .. Len(t) + Len(m) /\ i <= Len(t)
    BY <1>0, <1>3, <1>7 DEF t
  <2> QED
    BY <1>10, <2>1, Zenon
<1>12. Len(t \o m) = Len(b) + 4
  BY <1>3, <1>7, <1>10, Zenon DEF t
<1>13. Masked(b) = t \o m
  BY <1>4 DEF t
<1>14. Masked(b)[1] = b[1] /\ Masked(b)[2] = b[2] + 128
  <2>1. 1 \in 1 .. Len(b) /\ 2 \in 1 .. Len(b)
    BY LenProperties
  <2>2. t[1] = b[1] /\ t[2] = b[2] + 128
    BY <1>8 DEF t
  <2>3. (t \o m)[1] = t[1]
    BY <1>11, <2>1
  <2>4. (t \o m)[2] = t[2]
    BY <1>11, <2>1
  <2> QED
    BY <1>13, <2>2, <2>3, <2>4, Zenon
<1>15. ASSUME NEW i \in 3 .. Len(b) PROVE Masked(b)[i] = b[i]
  <2>1. i \in 1 .. Len(b)
    BY <1>0
  <2> QED
    BY <1>9, <1>11, <1>13, <2>1 DEF t
<1> QED
  BY <1>12, <1>13, <1>14, <1>15

Behind(b, x, f) ==
    /\ b \in Seq(Nat) /\ Len(b) = Len(f) + 1 /\ b[1] = x
    /\ \A i \in 1 .. Len(f) : b[i + 1] = f[i]

\* A frame is its first byte before the bytes of its length.
LEMMA FrameBytes ==
    ASSUME NEW op \in 0 .. 15, NEW n, NEW f \in Seq(Nat), LengthField(n) = f,
           NEW b, b = WriteFrame(op, n)
    PROVE  Behind(b, 128 + op, f)
<1>1. 128 + op \in Nat
  OBVIOUS
<1>2. b = << 128 + op >> \o f
  BY DEF WriteFrame
<1> QED
  BY <1>1, <1>2, BehindOne DEF Behind

LEMMA WriteShort ==
    ASSUME NEW op \in 0 .. 15, NEW n \in Nat, IsShort(n), NEW b, b = WriteFrame(op, n)
    PROVE  b \in Seq(Nat) /\ Len(b) = 2 /\ ShortBytes(b, op, n, 0)
<1> DEFINE f == << n >>
<1>1. LengthField(n) = f
  BY DEF LengthField, IsShort
<1>2. f \in Seq(Nat) /\ Len(f) = 1 /\ f[1] = n
  OBVIOUS
<1> HIDE DEF f
<1>3. f \in Seq(Nat)
  BY <1>2
<1>4. Behind(b, 128 + op, f)
  BY <1>1, <1>3, FrameBytes
<1>5. b[1 + 1] = f[1]
  BY <1>2, <1>4 DEF Behind
<1> QED
  BY <1>2, <1>4, <1>5 DEF ShortBytes, Behind

MediumParts(b, op, high, low) ==
    /\ b \in Seq(Nat) /\ Len(b) = 4
    /\ b[1] = 128 + op /\ b[2] = 126 /\ b[3] = high /\ b[4] = low

LEMMA MediumFrame ==
    ASSUME NEW op \in 0 .. 15, NEW n, NEW high \in Nat, NEW low \in Nat,
           LengthField(n) = << 126, high, low >>, NEW b, b = WriteFrame(op, n)
    PROVE  MediumParts(b, op, high, low)
<1> DEFINE f == << 126, high, low >>
<1>1. LengthField(n) = f
  OBVIOUS
<1>2. Len(f) = 3 /\ f[1] = 126 /\ f[2] = high /\ f[3] = low
  OBVIOUS
<1>3. f \in Seq(Nat)
  OBVIOUS
<1> HIDE DEF f
<1>4. Behind(b, 128 + op, f)
  BY <1>1, <1>3, FrameBytes
<1>5. b[1 + 1] = f[1] /\ b[2 + 1] = f[2] /\ b[3 + 1] = f[3]
  BY <1>2, <1>4 DEF Behind
<1> QED
  BY <1>2, <1>4, <1>5, SMT DEF Behind, MediumParts

LEMMA WriteMedium ==
    ASSUME NEW op \in 0 .. 15, NEW n \in Nat, IsMedium(n), NEW b, b = WriteFrame(op, n)
    PROVE  b \in Seq(Nat) /\ Len(b) = 4 /\ MediumBytes(b, op, n, 0)
<1> DEFINE high == n \div 256
           low == n % 256
<1>1. LengthField(n) = << 126, high, low >>
  BY SMT DEF LengthField, IsMedium
<1>2. high \in Nat /\ low \in Nat
  BY SMT
<1> HIDE DEF high, low
<1>3. MediumParts(b, op, high, low)
  BY <1>1, <1>2, MediumFrame, Zenon
<1> QED
  BY <1>3, SMT DEF MediumParts, MediumBytes, high, low

LongParts(b, op, b7, b8, b9, b10) ==
    /\ b \in Seq(Nat) /\ Len(b) = 10
    /\ b[1] = 128 + op /\ b[2] = 127
    /\ b[3] = 0 /\ b[4] = 0 /\ b[5] = 0 /\ b[6] = 0
    /\ b[7] = b7 /\ b[8] = b8 /\ b[9] = b9 /\ b[10] = b10

LEMMA LongFrame ==
    ASSUME NEW op \in 0 .. 15, NEW n, NEW b7 \in Nat, NEW b8 \in Nat, NEW b9 \in Nat,
           NEW b10 \in Nat, LengthField(n) = << 127, 0, 0, 0, 0, b7, b8, b9, b10 >>,
           NEW b, b = WriteFrame(op, n)
    PROVE  LongParts(b, op, b7, b8, b9, b10)
<1> DEFINE f == << 127, 0, 0, 0, 0, b7, b8, b9, b10 >>
<1>1. LengthField(n) = f
  OBVIOUS
<1>2. /\ Len(f) = 9
      /\ f[1] = 127 /\ f[2] = 0 /\ f[3] = 0 /\ f[4] = 0 /\ f[5] = 0
      /\ f[6] = b7 /\ f[7] = b8 /\ f[8] = b9 /\ f[9] = b10
  OBVIOUS
<1>3. f \in Seq(Nat)
  OBVIOUS
<1> HIDE DEF f
<1>4. Behind(b, 128 + op, f)
  BY <1>1, <1>3, FrameBytes
<1>5. /\ b[1 + 1] = f[1] /\ b[2 + 1] = f[2] /\ b[3 + 1] = f[3] /\ b[4 + 1] = f[4]
      /\ b[5 + 1] = f[5] /\ b[6 + 1] = f[6] /\ b[7 + 1] = f[7] /\ b[8 + 1] = f[8]
      /\ b[9 + 1] = f[9]
  BY <1>2, <1>4 DEF Behind
<1> QED
  BY <1>2, <1>4, <1>5, SMT DEF Behind, LongParts

LEMMA WriteLong ==
    ASSUME NEW op \in 0 .. 15, NEW n \in Nat, IsLong(n), NEW b, b = WriteFrame(op, n)
    PROVE  b \in Seq(Nat) /\ Len(b) = 10 /\ LongBytes(b, op, n, 0)
<1> DEFINE b7 == n \div 16777216
           b8 == (n \div 65536) % 256
           b9 == (n \div 256) % 256
           b10 == n % 256
<1>1. LengthField(n) = << 127, 0, 0, 0, 0, b7, b8, b9, b10 >>
  BY SMT DEF LengthField, IsLong
<1>2. b7 \in Nat /\ b8 \in Nat /\ b9 \in Nat /\ b10 \in Nat
  BY SMT
<1> HIDE DEF b7, b8, b9, b10
<1>3. LongParts(b, op, b7, b8, b9, b10)
  BY <1>1, <1>2, LongFrame, Zenon
<1> QED
  BY <1>3, SMT DEF LongParts, LongBytes, b7, b8, b9, b10

------------------------------------------------------------------------------
(* The round trip.                                                          *)

\* The bytes of the form of `n`, and how many they are.
Wire(b, op, n, mask) ==
    /\ IsShort(n) => ShortBytes(b, op, n, mask)
    /\ IsMedium(n) => MediumBytes(b, op, n, mask)
    /\ IsLong(n) => LongBytes(b, op, n, mask)

Size(n) == IF IsShort(n) THEN 2 ELSE IF IsMedium(n) THEN 4 ELSE 10

LEMMA FormsExclude ==
    ASSUME NEW n \in Nat
    PROVE  /\ IsShort(n) => ~ IsMedium(n) /\ ~ IsLong(n) /\ ~(n > Cap) /\ Size(n) = 2
           /\ IsMedium(n) => ~ IsShort(n) /\ ~ IsLong(n) /\ ~(n > Cap) /\ Size(n) = 4
           /\ IsLong(n) => ~ IsShort(n) /\ ~ IsMedium(n) /\ Size(n) = 10
<1>1. IsShort(n) => ~ IsMedium(n) /\ ~ IsLong(n) /\ ~(n > Cap)
  BY SMT DEF IsShort, IsMedium, IsLong, Cap
<1>2. IsMedium(n) => ~ IsShort(n) /\ ~ IsLong(n) /\ ~(n > Cap)
  BY SMT DEF IsShort, IsMedium, IsLong, Cap
<1>3. IsLong(n) => ~ IsShort(n) /\ ~ IsMedium(n)
  BY SMT DEF IsShort, IsMedium, IsLong
<1> QED
  BY <1>1, <1>2, <1>3 DEF Size

LEMMA Written ==
    ASSUME NEW op \in 0 .. 15, NEW n \in Nat, NEW b, b = WriteFrame(op, n)
    PROVE  b \in Seq(Nat) /\ Len(b) = Size(n) /\ Wire(b, op, n, 0)
<1>1. CASE IsShort(n)
  BY <1>1, FormsExclude, WriteShort, Zenon DEF Wire
<1>2. CASE IsMedium(n)
  BY <1>2, FormsExclude, WriteMedium, Zenon DEF Wire
<1>3. CASE IsLong(n)
  BY <1>3, FormsExclude, WriteLong, Zenon DEF Wire
<1> QED
  BY <1>1, <1>2, <1>3, Forms, Zenon

LEMMA MaskedWire ==
    ASSUME NEW op \in 0 .. 15, NEW n \in Nat, NEW b \in Seq(Nat),
           Len(b) = Size(n), Wire(b, op, n, 0), NEW m, m = Masked(b)
    PROVE  Len(m) = Size(n) + 4 /\ Wire(m, op, n, 128)
<1>1. Size(n) \in Nat /\ Size(n) >= 2
  BY DEF Size
<1>2. /\ m[1] = b[1] /\ m[2] = b[2] + 128 /\ Len(m) = Size(n) + 4
      /\ \A i \in 3 .. Size(n) : m[i] = b[i]
  BY <1>1, MaskedBytes
<1>3. ASSUME IsShort(n) PROVE ShortBytes(m, op, n, 128)
  <2>1. ShortBytes(b, op, n, 0)
    BY <1>3, Zenon DEF Wire
  <2> QED
    BY <1>2, <2>1 DEF ShortBytes
<1>4. ASSUME IsMedium(n) PROVE MediumBytes(m, op, n, 128)
  <2>1. MediumBytes(b, op, n, 0) /\ Size(n) = 4
    BY <1>4, FormsExclude, Zenon DEF Wire
  <2>2. m[3] = b[3] /\ m[4] = b[4]
    BY <1>2, <2>1
  <2>3. m[2] = 126 + 128
    BY <1>2, <2>1, SMT DEF MediumBytes
  <2> QED
    BY <1>2, <2>1, <2>2, <2>3, Zenon DEF MediumBytes
<1>5. ASSUME IsLong(n) PROVE LongBytes(m, op, n, 128)
  <2>1. LongBytes(b, op, n, 0) /\ Size(n) = 10
    BY <1>5, FormsExclude, Zenon DEF Wire
  <2>2. /\ m[3] = b[3] /\ m[4] = b[4] /\ m[5] = b[5] /\ m[6] = b[6]
        /\ m[7] = b[7] /\ m[8] = b[8] /\ m[9] = b[9] /\ m[10] = b[10]
    BY <1>2, <2>1
  <2>3. m[2] = 127 + 128
    BY <1>2, <2>1, SMT DEF LongBytes
  <2> QED
    BY <1>2, <2>1, <2>2, <2>3, SMT DEF LongBytes
<1> QED
  BY <1>2, <1>3, <1>4, <1>5, Zenon DEF Wire

\* What LengthField writes are bytes, masked or not.
LEMMA BytesFit ==
    ASSUME NEW op \in 0 .. 15, NEW n \in Nat, FitsFourBytes(n), NEW b,
           NEW mask \in {0, 128}, Wire(b, op, n, mask)
    PROVE  \A i \in 1 .. Size(n) : b[i] \in 0 .. 255
<1>1. CASE IsShort(n)
  <2>1. ShortBytes(b, op, n, mask) /\ Size(n) = 2
    BY <1>1, FormsExclude, Zenon DEF Wire
  <2>2. b[1] \in 0 .. 255 /\ b[2] \in 0 .. 255
    BY <1>1, <2>1, SMT DEF ShortBytes, IsShort
  <2> QED
    BY <2>1, <2>2, SMT
<1>2. CASE IsMedium(n)
  <2>1. MediumBytes(b, op, n, mask) /\ Size(n) = 4
    BY <1>2, FormsExclude, Zenon DEF Wire
  <2>2. b[1] \in 0 .. 255 /\ b[2] \in 0 .. 255 /\ b[3] \in 0 .. 255 /\ b[4] \in 0 .. 255
    BY <1>2, <2>1, SMT DEF MediumBytes, IsMedium
  <2> QED
    BY <2>1, <2>2, SMT
<1>3. CASE IsLong(n)
  <2>1. LongBytes(b, op, n, mask) /\ Size(n) = 10
    BY <1>3, FormsExclude, Zenon DEF Wire
  <2>2. n \div 16777216 \in 0 .. 255
    BY SMT DEF FitsFourBytes
  <2>3. /\ b[1] \in 0 .. 255 /\ b[2] \in 0 .. 255 /\ b[3] \in 0 .. 255 /\ b[4] \in 0 .. 255
        /\ b[5] \in 0 .. 255 /\ b[6] \in 0 .. 255
    BY <2>1, SMT DEF LongBytes
  <2>4. b[7] \in 0 .. 255 /\ b[8] \in 0 .. 255 /\ b[9] \in 0 .. 255 /\ b[10] \in 0 .. 255
    BY <2>1, <2>2, SMT DEF LongBytes
  <2> QED
    BY <2>1, <2>3, <2>4, SMT
<1> QED
  BY <1>1, <1>2, <1>3, Forms, Zenon

\* Either reader understands the bytes; the capped one refuses a payload over its cap.
LEMMA Read ==
    ASSUME NEW op \in 0 .. 15, NEW n \in Nat, NEW b, NEW mask \in {0, 128},
           Wire(b, op, n, mask), NEW capped \in BOOLEAN
    PROVE  ReadFrame(b, capped) = IF capped /\ n > Cap THEN [error |-> "oversized"]
                                  ELSE Header(op, n, Size(n) + MaskSize(mask))
<1>1. CASE IsShort(n)
  <2>1. ReadFrame(b, capped) = Header(op, n, 2 + MaskSize(mask))
    BY <1>1, ReadShort, Zenon DEF Wire
  <2>2. Size(n) = 2 /\ ~(n > Cap)
    BY <1>1, FormsExclude, Zenon
  <2> QED
    BY <2>1, <2>2, Zenon
<1>2. CASE IsMedium(n)
  <2>1. ReadFrame(b, capped) = Header(op, n, 4 + MaskSize(mask))
    BY <1>2, ReadMedium, Zenon DEF Wire
  <2>2. Size(n) = 4 /\ ~(n > Cap)
    BY <1>2, FormsExclude, Zenon
  <2> QED
    BY <2>1, <2>2, Zenon
<1>3. CASE IsLong(n)
  <2>1. ReadFrame(b, capped) = IF capped /\ n > Cap THEN [error |-> "oversized"]
                               ELSE Header(op, n, 10 + MaskSize(mask))
    BY <1>3, ReadLong, Zenon DEF Wire
  <2>2. Size(n) = 10
    BY <1>3, FormsExclude, Zenon
  <2> QED
    BY <2>1, <2>2, Zenon
<1> QED
  BY <1>1, <1>2, <1>3, Forms, Zenon

\* Masked or not, a frame is read back.
LEMMA FrameRoundTrip ==
    ASSUME NEW op \in 0 .. 15, NEW n \in Nat, NEW masked \in BOOLEAN, NEW capped \in BOOLEAN,
           NEW frame,
           frame = IF masked THEN Masked(WriteFrame(op, n)) ELSE WriteFrame(op, n)
    PROVE  ReadFrame(frame, capped) = IF capped /\ n > Cap THEN [error |-> "oversized"]
                                      ELSE Header(op, n, Len(frame))
<1> DEFINE b == WriteFrame(op, n)
<1>1. b \in Seq(Nat) /\ Len(b) = Size(n) /\ Wire(b, op, n, 0)
  BY Written
<1>2. CASE masked
  <2>1. Len(frame) = Size(n) + MaskSize(128) /\ Wire(frame, op, n, 128)
    BY <1>1, <1>2, MaskedWire DEF MaskSize
  <2> QED
    BY <2>1, Read
<1>3. CASE ~ masked
  <2>1. Len(frame) = Size(n) + MaskSize(0) /\ Wire(frame, op, n, 0)
    BY <1>1, <1>3 DEF MaskSize, Size
  <2> QED
    BY <2>1, Read
<1> QED
  BY <1>2, <1>3

\* What is written before a payload is bytes, whatever the opcode and whether or not a
\* mask follows (websocket.go:166-192): of a length below 4 GiB the code's loop writes
\* the same four bytes behind four zeros.
THEOREM FramesAreBytes ==
    ASSUME NEW op \in 0 .. 15, NEW n \in Nat, FitsFourBytes(n), NEW masked \in BOOLEAN,
           NEW frame,
           frame = IF masked THEN Masked(WriteFrame(op, n)) ELSE WriteFrame(op, n)
    PROVE  \A i \in 1 .. Size(n) : frame[i] \in 0 .. 255
<1> DEFINE b == WriteFrame(op, n)
<1>1. b \in Seq(Nat) /\ Len(b) = Size(n) /\ Wire(b, op, n, 0)
  BY Written
<1>2. CASE masked
  <2>1. Wire(frame, op, n, 128)
    BY <1>1, <1>2, MaskedWire
  <2> QED
    BY <2>1, BytesFit
<1>3. CASE ~ masked
  <2>1. Wire(frame, op, n, 0)
    BY <1>1, <1>3
  <2> QED
    BY <2>1, BytesFit
<1> QED
  BY <1>2, <1>3

LEMMA ControlRoundTrip ==
    ASSUME NEW n \in Nat
    PROVE  ReadFrame(WriteControl(10, n), TRUE).length = ControlLength(n)
<1> DEFINE c == ControlLength(n)
           b == WriteControl(10, n)
<1>1. c \in Nat /\ IsShort(c)
  BY SMT DEF ControlLength, IsShort
<1>2. b[1] = 128 + 10 /\ b[2] = c
  BY DEF WriteControl
<1>3. ShortBytes(b, 10, c, 0)
  BY <1>1, <1>2 DEF ShortBytes
<1>4. ReadFrame(b, TRUE) = Header(10, c, 2 + MaskSize(0))
  <2>1. 10 \in 0 .. 15
    OBVIOUS
  <2> HIDE DEF b, c
  <2> QED
    BY <1>1, <1>3, <2>1, ReadShort
<1> HIDE DEF b, c
<1>5. Header(10, c, 2 + MaskSize(0)).length = c
  BY DEF Header
<1> QED
  BY <1>4, <1>5, Zenon DEF b, c

LEMMA ValueRoundTrip ==
    ASSUME NEW type \in Nat, NEW payload \in Nat, EncodeValue(type, payload) # Refused
    PROVE  DecodeValue(EncodeValue(type, payload))
              = IF type \in {Width - 2, Width - 1} THEN Panic
                ELSE [type |-> type, payload |-> payload]
<1> DEFINE v == EncodeValue(type, payload)
           end == (2 + type) % Width
<1>1. 0 < type /\ type < Width
  BY SMT DEF EncodeValue, Width
<1>2. v.prefix = type /\ v.size = 2 + type + payload
  <2>1. type % Width = type
    BY <1>1, SMT DEF Width
  <2> QED
    BY <1>1, <2>1, SMT DEF EncodeValue, Width
<1> HIDE DEF v
<1>3. CASE type \in {Width - 2, Width - 1}
  <2>1. end < 2 /\ ~(v.size < 2) /\ ~(end > v.size)
    BY <1>2, <1>3, SMT DEF Width
  <2> HIDE DEF Width
  <2> QED
    BY <1>2, <1>3, <2>1, Zenon DEF DecodeValue, v
<1>4. CASE type \notin {Width - 2, Width - 1}
  <2>1. end = 2 + type
    BY <1>1, <1>4, SMT DEF Width
  <2>2. ~(end < 2) /\ ~(v.size < 2) /\ ~(end > v.size)
    BY <1>1, <1>2, <2>1
  <2>3. end - 2 = type /\ v.size - end = payload
    BY <1>2, <2>1
  <2> QED
    BY <1>2, <1>4, <2>2, <2>3, Zenon DEF DecodeValue, v
<1> QED
  BY <1>3, <1>4

LEMMA LengthsKept == input \in Frame \cup Value => LengthsRoundTrip
<1>1. CASE input \in Frame
  <2> DEFINE op == input.opcode
             n == input.length
             frame == IF input.masked THEN Masked(WriteFrame(op, n)) ELSE WriteFrame(op, n)
  <2>1. /\ input.of = "frame" /\ op \in 0 .. 15 /\ n \in Nat /\ input.masked \in BOOLEAN
    BY <1>1, SMT DEF Frame
  <2> HIDE DEF op, n
  <2>2. ReadFrame(frame, FALSE) = Header(op, n, Len(frame))
    BY <2>1, FrameRoundTrip, Zenon
  <2>3. ReadFrame(frame, TRUE) = IF n > Cap THEN [error |-> "oversized"]
                                 ELSE Header(op, n, Len(frame))
    BY <2>1, FrameRoundTrip, Zenon
  <2>4. n <= Cap <=> ~(n > Cap)
    BY <2>1, SMT DEF Cap
  <2>5. "error" \in DOMAIN [error |-> "oversized"]
    OBVIOUS
  <2>6. ReadFrame(WriteControl(10, n), TRUE).length = ControlLength(n)
    BY <2>1, ControlRoundTrip, Zenon
  <2>7. IF n <= Cap THEN ReadFrame(frame, TRUE) = Header(op, n, Len(frame))
        ELSE "error" \in DOMAIN ReadFrame(frame, TRUE)
    BY <2>3, <2>4, <2>5, Zenon
  <2>8. input.of # "value"
    BY <2>1
  <2> QED
    BY <2>2, <2>6, <2>7, <2>8, Zenon DEF LengthsRoundTrip, Header, op, n
<1>2. CASE input \in Value
  <2>1. input.of = "value" /\ input.type \in Nat /\ input.payload \in Nat
    BY <1>2, Zenon DEF Value
  <2>2. input.of # "frame"
    BY <2>1
  <2> QED
    BY <2>1, <2>2, ValueRoundTrip, Zenon DEF LengthsRoundTrip
<1> QED
  BY <1>1, <1>2, Zenon

------------------------------------------------------------------------------
(* Sorted connections.                                                      *)

Connection == [protocol : {"TCP", "UDP"}, row : Nat, port : Nat, pid : Nat, state : Nat]

\* A set of connections of which no two have the same protocol and row.
ConnSet(C) ==
    /\ C \in SUBSET Connection /\ IsFiniteSet(C)
    /\ \A c, d \in C : c.protocol = d.protocol /\ c.row = d.row => c = d

Place(C, c) == Cardinality({d \in C : SortsBefore(d, c)})

LEMMA SortIsOrder ==
    ASSUME NEW a \in Connection, NEW b \in Connection, NEW c \in Connection
    PROVE  /\ ~ SortsBefore(a, a)
           /\ SortsBefore(a, b) /\ SortsBefore(b, c) => SortsBefore(a, c)
           /\ \/ SortsBefore(a, b) \/ SortsBefore(b, a)
              \/ a.protocol = b.protocol /\ a.row = b.row
BY DEF SortsBefore, Connection

LEMMA PlaceType ==
    ASSUME NEW C, ConnSet(C), NEW c \in C
    PROVE  Place(C, c) \in 0 .. Cardinality(C) - 1
<1> DEFINE B == {d \in C : SortsBefore(d, c)}
<1>1. B \in SUBSET (C \ {c})
  BY SortIsOrder DEF ConnSet
<1>2. /\ IsFiniteSet(C \ {c}) /\ Cardinality(C \ {c}) = Cardinality(C) - 1
      /\ Cardinality(C) \in Nat
  BY FS_RemoveElement, FS_CardinalityType DEF ConnSet
<1>3. IsFiniteSet(B) /\ Cardinality(B) <= Cardinality(C) - 1
  BY <1>1, <1>2, FS_Subset
<1>4. Cardinality(B) \in Nat
  BY <1>3, FS_CardinalityType
<1> QED
  BY <1>2, <1>3, <1>4 DEF Place

LEMMA PlaceGrows ==
    ASSUME NEW C, ConnSet(C), NEW b \in C, NEW c \in C, SortsBefore(b, c)
    PROVE  Place(C, b) # Place(C, c)
<1> DEFINE B == {d \in C : SortsBefore(d, b)}
           D == {d \in C : SortsBefore(d, c)}
<1>1. B \in SUBSET D /\ b \in D /\ b \notin B
  BY SortIsOrder DEF ConnSet
<1>2. IsFiniteSet(D)
  BY FS_Subset DEF ConnSet
<1> HIDE DEF B, D
<1>3. Cardinality(B) # Cardinality(D)
  BY <1>1, <1>2, FS_Subset
<1> QED
  BY <1>3 DEF Place, B, D

LEMMA PlaceInjective ==
    ASSUME NEW C, ConnSet(C), NEW b \in C, NEW c \in C, Place(C, b) = Place(C, c)
    PROVE  b = c
<1>1. ~ SortsBefore(b, c) /\ ~ SortsBefore(c, b)
  BY PlaceGrows
<1>2. b.protocol = c.protocol /\ b.row = c.row
  BY <1>1, SortIsOrder DEF ConnSet
<1> QED
  BY <1>2 DEF ConnSet

\* Every place is taken: that many different places are all there are.
LEMMA PlaceTaken ==
    ASSUME NEW C, ConnSet(C), NEW n \in 0 .. Cardinality(C) - 1
    PROVE  \E c \in C : Place(C, c) = n
<1> DEFINE f == [c \in C |-> Place(C, c)]
           P == 0 .. Cardinality(C) - 1
<1>1. f \in [C -> P]
  BY PlaceType
<1>2. \A b, c \in C : f[b] = f[c] => b = c
  BY PlaceInjective
<1>3. Cardinality(C) \in Nat
  BY FS_CardinalityType DEF ConnSet
<1>4. IsFiniteSet(P) /\ Cardinality(P) = Cardinality(C)
  <2>1. /\ IsFiniteSet(P)
        /\ Cardinality(P) = IF 0 > Cardinality(C) - 1 THEN 0 ELSE (Cardinality(C) - 1) - 0 + 1
    <3>1. 0 \in Int /\ Cardinality(C) - 1 \in Int
      BY <1>3
    <3> QED
      BY <3>1, FS_Interval, Zenon
  <2> QED
    BY <1>3, <2>1
<1>5. f \in Injection(C, P)
  BY <1>1, <1>2 DEF Injection, IsInjective
<1>6. f \in Surjection(C, P)
  BY <1>4, <1>5, FS_Injection
<1>7. \E c \in C : f[c] = n
  BY <1>6 DEF Surjection
<1> QED
  BY <1>7

\* So the sorted list has each connection once.
LEMMA SortedIs ==
    ASSUME NEW C, ConnSet(C)
    PROVE  LET s == Sorted(C)
           IN  /\ DOMAIN s = 1 .. Cardinality(C) /\ Len(s) = Cardinality(C)
               /\ \A n \in DOMAIN s : s[n] \in C
               /\ \A c \in C : \E n \in DOMAIN s : s[n] = c
<1> DEFINE s == Sorted(C)
<1>1. Cardinality(C) \in Nat
  BY FS_CardinalityType DEF ConnSet
<1>2. DOMAIN s = 1 .. Cardinality(C)
  BY DEF Sorted
<1>3. Len(s) = Cardinality(C)
  BY <1>1 DEF Sorted
<1>4. ASSUME NEW n \in 1 .. Cardinality(C) PROVE s[n] \in C /\ Place(C, s[n]) = n - 1
  <2>1. n - 1 \in 0 .. Cardinality(C) - 1
    BY <1>1
  <2>2. \E c \in C : Place(C, c) = n - 1
    BY <2>1, PlaceTaken
  <2>3. s[n] = CHOOSE c \in C : Place(C, c) = n - 1
    BY DEF Sorted, Place
  <2> QED
    BY <2>2, <2>3
<1>5. ASSUME NEW c \in C PROVE \E n \in DOMAIN s : s[n] = c
  <2>1. Place(C, c) \in 0 .. Cardinality(C) - 1
    BY PlaceType
  <2>2. Place(C, c) + 1 \in 1 .. Cardinality(C) /\ (Place(C, c) + 1) - 1 = Place(C, c)
    BY <1>1, <2>1
  <2>3. s[Place(C, c) + 1] \in C /\ Place(C, s[Place(C, c) + 1]) = Place(C, c)
    BY <1>4, <2>2
  <2>4. s[Place(C, c) + 1] = c
    BY <2>3, PlaceInjective
  <2> QED
    BY <1>2, <2>2, <2>4
<1> QED
  BY <1>2, <1>3, <1>4, <1>5

------------------------------------------------------------------------------
(* The rows of the two tables.                                              *)

\* The rows that collectTCPTable or collectUDPTable picks.
Rows(protocol, q, budget) ==
    {m \in DOMAIN QueryTable(q) :
        m <= budget /\ Fits(protocol, q, m) /\ Reported(protocol, QueryTable(q)[m])}

LEMMA TableIs ==
    ASSUME NEW protocol \in {"TCP", "UDP"}, NEW q \in Query(protocol)
    PROVE  /\ QueryTable(q) \in Seq(Row) /\ DOMAIN QueryTable(q) = 1 .. Len(QueryTable(q))
           /\ Len(QueryTable(q)) \in Nat /\ DOMAIN QueryTable(q) \subseteq DOMAIN q.rows
           /\ \A n \in DOMAIN QueryTable(q) : QueryTable(q)[n] = q.rows[n]
           /\ \A n \in DOMAIN q.rows : q.rows[n] \in Row
           /\ DOMAIN q.rows = 1 .. Len(q.rows) /\ Len(q.rows) \in Nat
           /\ ~ q.grew => QueryTable(q) = q.rows /\ \A n \in DOMAIN q.rows : Fits(protocol, q, n)
<1>1. q.rows \in Seq(Row) /\ q.room \in Nat /\ q.grew \in BOOLEAN
      /\ (q.grew \/ 4 + Len(q.rows) * RowSize(protocol) <= q.room)
  BY DEF Query
<1>2. /\ Len(q.rows) \in Nat /\ DOMAIN q.rows = 1 .. Len(q.rows)
      /\ \A n \in DOMAIN q.rows : q.rows[n] \in Row
  BY <1>1, LenProperties, ElementOfSeq
<1>3. QueryTable(q) \in {<< >>, q.rows}
  BY DEF QueryTable
<1>4. ASSUME ~ q.grew
      PROVE  QueryTable(q) = q.rows /\ \A n \in DOMAIN q.rows : Fits(protocol, q, n)
  <2>1. RowSize(protocol) \in {12, 24}
    BY DEF RowSize
  <2>2. Len(q.rows) * RowSize(protocol) \in Nat
    BY <1>2, <2>1
  <2>3. ~(q.room < 4)
    BY <1>1, <1>4, <2>2
  <2>4. ASSUME NEW n \in DOMAIN q.rows PROVE Fits(protocol, q, n)
    <3>1. CASE RowSize(protocol) = 12
      BY <1>1, <1>2, <1>4, <3>1 DEF Fits
    <3>2. CASE RowSize(protocol) = 24
      BY <1>1, <1>2, <1>4, <3>2 DEF Fits
    <3> QED
      BY <2>1, <3>1, <3>2
  <2> QED
    BY <1>4, <2>3, <2>4 DEF QueryTable
<1>5. QueryTable(q) \in Seq(Row) /\ Len(QueryTable(q)) \in Nat
      /\ DOMAIN QueryTable(q) = 1 .. Len(QueryTable(q))
      /\ DOMAIN QueryTable(q) \subseteq DOMAIN q.rows
      /\ \A n \in DOMAIN QueryTable(q) : QueryTable(q)[n] = q.rows[n]
  <2>1. CASE QueryTable(q) = << >>
    BY <2>1
  <2>2. CASE QueryTable(q) = q.rows
    BY <1>1, <1>2, <2>2
  <2> QED
    BY <1>3, <2>1, <2>2
<1> QED
  BY <1>2, <1>4, <1>5, Zenon

\* What becomes of row n.
ConnOf(protocol, q, n) ==
    [protocol |-> protocol, row |-> n,
     port |-> ReportedPort(QueryTable(q)[n].port), pid |-> QueryTable(q)[n].pid,
     state |-> IF protocol = "TCP" THEN QueryTable(q)[n].state ELSE Listen]

LEMMA PortType == ASSUME NEW port \in [hi : Byte, lo : Byte] PROVE ReportedPort(port) \in Nat
<1> DEFINE high == port.hi
           low == port.lo
<1>1. high \in Nat /\ low \in Nat
  BY DEF Byte
<1> HIDE DEF high, low
<1>2. BigEndian(port) \in Nat
  <2>1. 256 * high + low \in Nat
    BY <1>1
  <2> QED
    BY <2>1 DEF BigEndian, high, low
<1>3. \A v \in Nat : Ntohs(v) \in Nat
  BY SMT DEF Ntohs
<1> QED
  BY <1>2, <1>3 DEF ReportedPort

LEMMA CollectedIs ==
    ASSUME NEW protocol \in {"TCP", "UDP"}, NEW q \in Query(protocol), NEW budget \in Nat
    PROVE  LET C == Collected(protocol, q, budget)
               R == Rows(protocol, q, budget)
           IN  /\ C = {ConnOf(protocol, q, n) : n \in R}
               /\ C \in SUBSET Connection /\ IsFiniteSet(C)
<1> DEFINE C == Collected(protocol, q, budget)
           R == Rows(protocol, q, budget)
<1>1. C = {ConnOf(protocol, q, n) : n \in R}
  BY Zenon DEF Collected, ConnOf, Rows
<1>2. R \in SUBSET (1 .. Len(QueryTable(q))) /\ Len(QueryTable(q)) \in Nat
  BY TableIs DEF Rows
<1>3. IsFiniteSet(R)
  <2>1. 1 \in Int /\ Len(QueryTable(q)) \in Int
    BY <1>2
  <2>2. IsFiniteSet(1 .. Len(QueryTable(q)))
    BY <2>1, FS_Interval, Zenon
  <2> QED
    BY <1>2, <2>2, FS_Subset, Zenon
<1>4. IsFiniteSet(C)
  <2> DEFINE f == [n \in R |-> ConnOf(protocol, q, n)]
  <2>1. f \in [R -> C] /\ \A c \in C : \E n \in R : f[n] = c
    BY <1>1
  <2>2. f \in Surjection(R, C)
    BY <2>1 DEF Surjection
  <2> QED
    BY <1>3, <2>2, FS_Surjection
<1>5. ASSUME NEW n \in R PROVE ConnOf(protocol, q, n) \in Connection
  <2>1. QueryTable(q)[n] \in Row /\ n \in Nat
    BY <1>2, TableIs, ElementOfSeq
  <2>2. ReportedPort(QueryTable(q)[n].port) \in Nat
    BY <2>1, PortType DEF Row
  <2>3. QueryTable(q)[n].pid \in Nat /\ QueryTable(q)[n].state \in Nat
    BY <2>1 DEF Row
  <2> QED
    BY <2>1, <2>2, <2>3 DEF ConnOf, Connection, Listen
<1> QED
  BY <1>1, <1>4, <1>5

LEMMA ConnectionsAreKept == ASSUME input \in Connections PROVE RowsAreKept
<1> DEFINE tcp == input.tcp
           udp == input.udp
           budget == input.budget
           seen == Len(QueryTable(tcp))
           left == IF budget > seen THEN budget - seen ELSE 0
           T == Collected("TCP", tcp, budget)
           U == Collected("UDP", udp, left)
           C == T \cup U
           shown == NetworkConnections(tcp, udp, budget)
           found == {<< shown[n].protocol, shown[n].row >> : n \in DOMAIN shown}
           real(protocol, q) ==
             {<< protocol, n >> : n \in {m \in DOMAIN q.rows : Reported(protocol, q.rows[m])}}
           rowOf(c) == IF c.protocol = "TCP" THEN tcp.rows[c.row] ELSE udp.rows[c.row]
<1>1. tcp \in Query("TCP") /\ udp \in Query("UDP") /\ budget \in Nat
  BY DEF Connections
<1>2. seen \in Nat /\ left \in Nat
  BY <1>1, TableIs
<1>3. /\ T = {ConnOf("TCP", tcp, n) : n \in Rows("TCP", tcp, budget)}
      /\ T \in SUBSET Connection /\ IsFiniteSet(T)
  BY <1>1, CollectedIs
<1>4. /\ U = {ConnOf("UDP", udp, n) : n \in Rows("UDP", udp, left)}
      /\ U \in SUBSET Connection /\ IsFiniteSet(U)
  BY <1>1, <1>2, CollectedIs
<1>5. shown = Sorted(C)
  BY Zenon DEF NetworkConnections
<1> HIDE DEF tcp, udp, budget, seen, left, T, U, shown
<1>6. ConnSet(C)
  <2>1. C \in SUBSET Connection
    BY <1>3, <1>4
  <2>2. IsFiniteSet(C)
    BY <1>3, <1>4, FS_Union
  <2>3. ASSUME NEW c \in C, NEW d \in C, c.protocol = d.protocol, c.row = d.row PROVE c = d
    <3>1. c \in T => c.protocol = "TCP" /\ c = ConnOf("TCP", tcp, c.row)
      BY <1>3 DEF ConnOf
    <3>2. d \in T => d.protocol = "TCP" /\ d = ConnOf("TCP", tcp, d.row)
      BY <1>3 DEF ConnOf
    <3>3. c \in U => c.protocol = "UDP" /\ c = ConnOf("UDP", udp, c.row)
      BY <1>4 DEF ConnOf
    <3>4. d \in U => d.protocol = "UDP" /\ d = ConnOf("UDP", udp, d.row)
      BY <1>4 DEF ConnOf
    <3>5. "TCP" # "UDP"
      OBVIOUS
    <3> QED
      BY <2>3, <3>1, <3>2, <3>3, <3>4, <3>5, Zenon
  <2> QED
    BY <2>1, <2>2, <2>3 DEF ConnSet
<1>7. /\ DOMAIN shown = 1 .. Cardinality(C) /\ Len(shown) = Cardinality(C)
      /\ \A n \in DOMAIN shown : shown[n] \in C
      /\ \A c \in C : \E n \in DOMAIN shown : shown[n] = c
  BY <1>5, <1>6, SortedIs, Zenon
<1>8. found = {<< c.protocol, c.row >> : c \in C}
  BY <1>7
<1>9. Cardinality(found) = Len(shown)
  <2> DEFINE F == {<< c.protocol, c.row >> : c \in C}
             f == [c \in C |-> << c.protocol, c.row >>]
  <2>1. f \in [C -> F] /\ \A e \in F : \E c \in C : f[c] = e
    OBVIOUS
  <2>2. \A c, d \in C : f[c] = f[d] => c = d
    BY <1>6 DEF ConnSet
  <2>3. f \in Bijection(C, F)
    BY <2>1, <2>2 DEF Bijection, Injection, Surjection, IsInjective
  <2>4. ExistsBijection(C, F)
    BY <2>3 DEF ExistsBijection
  <2> HIDE DEF F, f
  <2>5. Cardinality(F) = Cardinality(C)
    BY <1>6, <2>4, FS_Bijection DEF ConnSet
  <2> QED
    BY <1>7, <1>8, <2>5 DEF F
\* A connection that is shown is one of a row.
<1>10. ASSUME NEW c \in T
       PROVE  /\ c.protocol = "TCP" /\ c.row \in DOMAIN tcp.rows
              /\ Reported("TCP", tcp.rows[c.row])
              /\ c.pid = tcp.rows[c.row].pid /\ c.state = tcp.rows[c.row].state
  <2>1. PICK n \in Rows("TCP", tcp, budget) : c = ConnOf("TCP", tcp, n)
    BY <1>3
  <2>2. c.row = n /\ c.protocol = "TCP" /\ c.pid = QueryTable(tcp)[n].pid
        /\ c.state = QueryTable(tcp)[n].state
    BY <2>1 DEF ConnOf
  <2> QED
    BY <1>1, <2>2, TableIs DEF Rows
<1>11. ASSUME NEW c \in U
       PROVE  /\ c.protocol = "UDP" /\ c.row \in DOMAIN udp.rows
              /\ Reported("UDP", udp.rows[c.row]) /\ c.pid = udp.rows[c.row].pid
  <2>1. PICK n \in Rows("UDP", udp, left) : c = ConnOf("UDP", udp, n)
    BY <1>4
  <2>2. c.row = n /\ c.protocol = "UDP" /\ c.pid = QueryTable(udp)[n].pid
    BY <2>1 DEF ConnOf
  <2> QED
    BY <1>1, <2>2, TableIs DEF Rows
<1>12. found \subseteq real("TCP", tcp) \cup real("UDP", udp)
  BY <1>8, <1>10, <1>11
<1>13. ASSUME NEW n \in DOMAIN shown
       PROVE  /\ shown[n].pid = rowOf(shown[n]).pid
              /\ shown[n].protocol = "TCP" => shown[n].state = rowOf(shown[n]).state
  <2>1. shown[n] \in T \/ shown[n] \in U
    BY <1>7
  <2>2. CASE shown[n] \in T
    BY <1>10, <2>2
  <2>3. CASE shown[n] \in U
    BY <1>11, <2>3
  <2> QED
    BY <2>1, <2>2, <2>3
<1>14. ASSUME budget >= Len(tcp.rows) + Len(udp.rows), ~ tcp.grew
       PROVE  real("TCP", tcp) \subseteq found
  <2> SUFFICES ASSUME NEW n \in DOMAIN tcp.rows, Reported("TCP", tcp.rows[n])
               PROVE  << "TCP", n >> \in found
    OBVIOUS
  <2>1. /\ QueryTable(tcp) = tcp.rows /\ Fits("TCP", tcp, n)
        /\ n \in 1 .. Len(tcp.rows) /\ Len(tcp.rows) \in Nat /\ Len(udp.rows) \in Nat
    BY <1>1, <1>14, TableIs
  <2>2. n <= budget
    <3>1. \A b, x, y, m \in Nat : b >= x + y /\ m <= x => m <= b
      OBVIOUS
    <3>2. n \in Nat /\ n <= Len(tcp.rows)
      BY <2>1
    <3> QED
      BY <1>1, <1>14, <2>1, <3>1, <3>2, Zenon
  <2>3. n \in Rows("TCP", tcp, budget)
    BY <2>1, <2>2 DEF Rows
  <2>4. ConnOf("TCP", tcp, n) \in T
    BY <1>3, <2>3
  <2>5. ConnOf("TCP", tcp, n).protocol = "TCP" /\ ConnOf("TCP", tcp, n).row = n
    BY DEF ConnOf
  <2> QED
    BY <1>8, <2>4, <2>5
<1>15. ASSUME budget >= Len(tcp.rows) + Len(udp.rows), ~ udp.grew
       PROVE  real("UDP", udp) \subseteq found
  <2> SUFFICES ASSUME NEW n \in DOMAIN udp.rows, Reported("UDP", udp.rows[n])
               PROVE  << "UDP", n >> \in found
    OBVIOUS
  <2>1. /\ QueryTable(udp) = udp.rows /\ Fits("UDP", udp, n)
        /\ n \in 1 .. Len(udp.rows) /\ Len(tcp.rows) \in Nat /\ Len(udp.rows) \in Nat
    BY <1>1, <1>15, TableIs
  <2>2. seen <= Len(tcp.rows)
    <3>1. DOMAIN QueryTable(tcp) = 1 .. seen /\ DOMAIN QueryTable(tcp) \subseteq DOMAIN tcp.rows
          /\ DOMAIN tcp.rows = 1 .. Len(tcp.rows)
      BY <1>1, TableIs DEF seen
    <3>2. 1 .. seen \subseteq 1 .. Len(tcp.rows)
      BY <3>1
    <3> QED
      BY <1>2, <2>1, <3>2
  <2>3. n <= left
    <3>1. \A b, x, y, z, m \in Nat : b >= x + y /\ z <= x /\ m <= y /\ 1 <= m =>
             m <= IF b > z THEN b - z ELSE 0
      OBVIOUS
    <3>2. n \in Nat /\ n <= Len(udp.rows) /\ 1 <= n
      BY <2>1
    <3> QED
      BY <1>1, <1>2, <1>15, <2>1, <2>2, <3>1, <3>2, Zenon DEF left
  <2>4. n \in Rows("UDP", udp, left)
    BY <2>1, <2>3 DEF Rows
  <2>5. ConnOf("UDP", udp, n) \in U
    BY <1>4, <2>4
  <2>6. ConnOf("UDP", udp, n).protocol = "UDP" /\ ConnOf("UDP", udp, n).row = n
    BY DEF ConnOf
  <2> QED
    BY <1>8, <2>5, <2>6
<1> QED
  BY <1>9, <1>12, <1>13, <1>14, <1>15 DEF RowsAreKept, tcp, udp, budget, shown

------------------------------------------------------------------------------
(* The size of a memory device.                                             *)

LEMMA SizeOf ==
    ASSUME NEW d, NEW field \in Nat, field < 65535, Word(d, 12) = field, Len(d) >= 32,
           NEW mb, Word(d, 28) + 65536 * Word(d, 30) = mb
    PROVE  SizeKB(d) = IF field = 0 THEN 0
                       ELSE IF field = 32767 THEN 1024 * mb
                       ELSE IF field >= 32768 THEN field - 32768 ELSE 1024 * field
<1>1. CASE field = 0
  BY <1>1 DEF SizeKB
<1>2. CASE field = 32767
  BY <1>2 DEF SizeKB
<1>3. CASE field \notin {0, 32767}
  <2>1. field \notin {0, 32767, 65535} /\ field \notin {0, 65535}
    BY <1>3
  <2> QED
    BY <1>3, <2>1 DEF SizeKB
<1> QED
  BY <1>1, <1>2, <1>3

LEMMA Endpoint == ASSUME NEW n \in Nat, 1 .. 34 = 1 .. n PROVE n = 34
<1>1. 34 \in 1 .. n
  OBVIOUS
<1>2. n >= 34
  BY <1>1
<1>3. n \in 1 .. 34
  BY <1>2
<1> QED
  BY <1>2, <1>3

LEMMA LengthIs == ASSUME NEW d, d \in [1 .. 34 -> Int] PROVE Len(d) = 34
<1>1. d \in Seq(Int)
  BY SeqDef
<1>2. Len(d) \in Nat /\ DOMAIN d = 1 .. Len(d) /\ DOMAIN d = 1 .. 34
  BY <1>1, LenProperties
<1> QED
  BY <1>2, Endpoint

LEMMA Bytes ==
    ASSUME NEW f \in Nat, f < 65535, NEW mb \in Nat
    PROVE  /\ (f % 256) + 256 * (f \div 256) = f
           /\ ((mb % 256) + 256 * ((mb \div 256) % 256))
                + 65536 * (((mb \div 65536) % 256) + 256 * (mb \div 16777216)) = mb
           /\ f % 256 \in Int /\ f \div 256 \in Int
           /\ mb % 256 \in Int /\ (mb \div 256) % 256 \in Int
           /\ (mb \div 65536) % 256 \in Int /\ mb \div 16777216 \in Int
<1>1. (f % 256) + 256 * (f \div 256) = f
  BY SMT
<1>2. ((mb % 256) + 256 * ((mb \div 256) % 256))
         + 65536 * (((mb \div 65536) % 256) + 256 * (mb \div 16777216)) = mb
  BY SMT
<1> QED
  BY <1>1, <1>2, SMT

\* The three units.
Units(kb, mb, field) ==
    \/ field = 32768 + kb /\ kb < 32767 /\ kb # 0
    \/ field = mb /\ mb < 32767 /\ kb = 1024 * mb
    \/ field = 32767 /\ kb = 1024 * mb

LEMMA SizeUnits ==
    ASSUME NEW kb \in Nat, NEW mb \in Nat, NEW field \in Int, Units(kb, mb, field)
    PROVE  /\ field \in Nat /\ field < 65535
           /\ kb = IF field = 0 THEN 0
                   ELSE IF field = 32767 THEN 1024 * mb
                   ELSE IF field >= 32768 THEN field - 32768 ELSE 1024 * field
<1>1. CASE field = 32768 + kb /\ kb < 32767 /\ kb # 0
  BY <1>1, SMT
<1>2. CASE field = mb /\ mb < 32767 /\ kb = 1024 * mb
  BY <1>2, SMT
<1>3. CASE field = 32767 /\ kb = 1024 * mb
  BY <1>3, SMT
<1> QED
  BY <1>1, <1>2, <1>3, SMT DEF Units

LEMMA FieldUnits ==
    ASSUME NEW kb \in Nat, kb % 1024 = 0 \/ kb < 32767,
           NEW mb, mb = kb \div 1024, NEW field, field = DeviceField(kb)
    PROVE  Units(kb, mb, field) /\ mb \in Nat /\ field \in Int
<1>1. mb \in Nat /\ (kb % 1024 = 0 => kb = 1024 * mb)
  BY SMT
<1>2. CASE kb % 1024 # 0
  <2>1. kb # 0 /\ kb < 32767
    BY <1>2, SMT
  <2>2. field = 32768 + kb
    BY <1>2, SMT DEF DeviceField
  <2> QED
    BY <1>1, <2>1, <2>2, SMT DEF Units
<1>3. CASE kb % 1024 = 0 /\ mb < 32767
  <2>1. field = mb
    BY <1>3, SMT DEF DeviceField
  <2> QED
    BY <1>1, <1>3, <2>1, SMT DEF Units
<1>4. CASE kb % 1024 = 0 /\ ~(mb < 32767)
  <2>1. field = 32767
    BY <1>4, SMT DEF DeviceField
  <2> QED
    BY <1>1, <1>4, <2>1, SMT DEF Units
<1> QED
  BY <1>2, <1>3, <1>4, SMT

\* What two bytes and two words are.
Two(low, high) == low + 256 * high
Four(low, high) == low + 65536 * high

\* The field, and the extended size, of a memory device are in these bytes.
DeviceBytes(d, b1, b2, b3, b4, b5, b6) ==
    d = [[p \in 1 .. 34 |-> 0] EXCEPT
            ![1] = 17, ![2] = 34, ![13] = b1, ![14] = b2,
            ![29] = b3, ![30] = b4, ![31] = b5, ![32] = b6]

LEMMA DeviceReads ==
    ASSUME NEW kb \in Nat, NEW mb \in Nat, NEW field \in Int, Units(kb, mb, field),
           NEW b1 \in Int, NEW b2 \in Int, NEW b3 \in Int,
           NEW b4 \in Int, NEW b5 \in Int, NEW b6 \in Int,
           Two(b1, b2) = field, Four(Two(b3, b4), Two(b5, b6)) = mb,
           NEW d, DeviceBytes(d, b1, b2, b3, b4, b5, b6)
    PROVE  SizeKB(d) = kb
<1>1. d \in [1 .. 34 -> Int]
  BY DEF DeviceBytes
<1>2. At(d, 12) = b1 /\ At(d, 12 + 1) = b2
  BY DEF DeviceBytes, At
<1>3. At(d, 28) = b3 /\ At(d, 28 + 1) = b4
  BY DEF DeviceBytes, At
<1>4. At(d, 30) = b5 /\ At(d, 30 + 1) = b6
  BY DEF DeviceBytes, At
<1>5. Len(d) >= 32
  <2>1. Len(d) = 34
    BY <1>1, LengthIs, Zenon
  <2> QED
    BY <2>1
<1>6. Word(d, 12) = field
  BY <1>2 DEF Word, Two
<1>7. Word(d, 28) + 65536 * Word(d, 30) = mb
  BY <1>3, <1>4 DEF Word, Two, Four
<1>8. /\ field \in Nat /\ field < 65535
      /\ kb = IF field = 0 THEN 0
              ELSE IF field = 32767 THEN 1024 * mb
              ELSE IF field >= 32768 THEN field - 32768 ELSE 1024 * field
  BY SizeUnits, SMT
<1>9. SizeKB(d) = IF field = 0 THEN 0
                  ELSE IF field = 32767 THEN 1024 * mb
                  ELSE IF field >= 32768 THEN field - 32768 ELSE 1024 * field
  BY <1>5, <1>6, <1>7, <1>8, SizeOf, SMT
<1> QED
  BY <1>8, <1>9, SMT

\* Whatever unit the size is stored in, it is read back.
LEMMA DeviceSize ==
    ASSUME NEW kb \in Nat, kb % 1024 = 0 \/ kb < 32767
    PROVE  SizeKB(MemoryDevice(kb)) = kb
<1> DEFINE mb == kb \div 1024
           field == DeviceField(kb)
           b1 == field % 256
           b2 == field \div 256
           b3 == mb % 256
           b4 == (mb \div 256) % 256
           b5 == (mb \div 65536) % 256
           b6 == mb \div 16777216
<1>1. Units(kb, mb, field) /\ mb \in Nat /\ field \in Int
  BY FieldUnits, SMT
<1>2. DeviceBytes(MemoryDevice(kb), b1, b2, b3, b4, b5, b6)
  BY SMT DEF MemoryDevice, DeviceBytes
<1>3. /\ b1 \in Int /\ b2 \in Int /\ b3 \in Int /\ b4 \in Int /\ b5 \in Int /\ b6 \in Int
      /\ Two(b1, b2) = field /\ Four(Two(b3, b4), Two(b5, b6)) = mb
  <2>1. field \in Nat /\ field < 65535
    BY <1>1, SizeUnits, SMT
  <2> HIDE DEF field, mb
  <2> QED
    BY <1>1, <2>1, Bytes, SMT DEF Two, Four
<1> HIDE DEF mb, field, b1, b2, b3, b4, b5, b6
<1> DEFINE d == MemoryDevice(kb)
<1>4. DeviceBytes(d, b1, b2, b3, b4, b5, b6)
  BY <1>2
<1> HIDE DEF d
<1>5. SizeKB(d) = kb
  BY <1>1, <1>3, <1>4, DeviceReads
<1> QED
  BY <1>5 DEF d

------------------------------------------------------------------------------
(* Parts of a sequence, with positions that count from 0.                   *)

LEMMA Slice ==
    ASSUME NEW S, NEW t \in Seq(S), NEW a \in Nat, NEW b \in Nat, a <= b, b <= Len(t),
           NEW s, s = SubSeq(t, a + 1, b)
    PROVE  /\ s \in Seq(S) /\ Len(s) = b - a /\ DOMAIN s = 1 .. b - a
           /\ \A n \in 1 .. b - a : s[n] = t[a + n]
<1>1. Len(t) \in Nat /\ \A n \in 1 .. Len(t) : t[n] \in S
  BY LenProperties, ElementOfSeq
<1>2. a + 1 \in Int /\ b \in Int /\ \A n \in a + 1 .. b : t[n] \in S
  BY <1>1
<1> DEFINE m == a + 1
<1>3. /\ SubSeq(t, m, b) \in Seq(S)
      /\ Len(SubSeq(t, m, b)) = IF m <= b THEN (b - m) + 1 ELSE 0
      /\ \A n \in 1 .. (b - m) + 1 : SubSeq(t, m, b)[n] = t[(m + n) - 1]
  <2> HIDE DEF m
  <2> QED
    BY <1>2, SubSeqProperties DEF m
<1>4. Len(s) = b - a /\ (b - (a + 1)) + 1 = b - a
  BY <1>3
<1>5. ASSUME NEW n \in 1 .. b - a PROVE s[n] = t[a + n]
  <2>1. ((a + 1) + n) - 1 = a + n
    OBVIOUS
  <2> QED
    BY <1>3, <1>4, <2>1
<1>6. DOMAIN s = 1 .. b - a
  <2>1. DOMAIN s = 1 .. Len(s)
    BY <1>3, LenProperties
  <2> QED
    BY <1>4, <2>1
<1> QED
  BY <1>3, <1>4, <1>5, <1>6

\* What lies before the cut is not changed by it.
Cut(b, t, size) == Len(t) = size /\ \A p \in 0 .. size - 1 : At(t, p) = At(b, p)

LEMMA CutSlice ==
    ASSUME NEW b \in Seq(Byte), NEW size \in Nat, size <= Len(b),
           NEW t, t = SubSeq(b, 1, size)
    PROVE  t \in Seq(Byte) /\ Cut(b, t, size)
<1>1. t = SubSeq(b, 0 + 1, size) /\ size - 0 = size
  OBVIOUS
<1>2. t \in Seq(Byte) /\ Len(t) = size - 0 /\ \A n \in 1 .. size - 0 : t[n] = b[0 + n]
  BY <1>1, Slice
<1>3. Len(t) = size /\ \A n \in 1 .. size : t[n] = b[n]
  BY <1>2
<1>4. \A p \in 0 .. size - 1 : At(t, p) = At(b, p)
  BY <1>3 DEF At
<1> QED
  BY <1>2, <1>3, <1>4 DEF Cut

LEMMA SliceOfCut ==
    ASSUME NEW b \in Seq(Byte), NEW size \in Nat, size <= Len(b),
           NEW t, t = SubSeq(b, 1, size), NEW x \in Nat, NEW y \in Nat, x <= y, y <= size
    PROVE  SubSeq(t, x + 1, y) = SubSeq(b, x + 1, y)
<1>1. PICK u, v : u = SubSeq(t, x + 1, y) /\ v = SubSeq(b, x + 1, y)
  OBVIOUS
<1>2. t \in Seq(Byte) /\ Len(t) = size /\ Len(b) \in Nat
  BY CutSlice, LenProperties DEF Cut
<1>3. u \in Seq(Byte) /\ Len(u) = y - x /\ \A n \in 1 .. y - x : u[n] = t[x + n]
  BY <1>1, <1>2, Slice
<1>4. v \in Seq(Byte) /\ Len(v) = y - x /\ \A n \in 1 .. y - x : v[n] = b[x + n]
  <2>1. y <= Len(b)
    BY <1>2
  <2> QED
    BY <1>1, <2>1, Slice
<1>5. \A n \in 1 .. y - x : t[x + n] = b[x + n]
  <2>1. t = SubSeq(b, 0 + 1, size) /\ size - 0 = size
    OBVIOUS
  <2>2. \A n \in 1 .. size - 0 : t[n] = b[0 + n]
    BY <2>1, Slice
  <2> QED
    BY <2>2
<1>6. u = v
  BY <1>3, <1>4, <1>5, SeqEqual
<1> QED
  BY <1>1, <1>6

\* One sequence begins with the other, element by element.
Begins(s, t) == Len(s) <= Len(t) /\ \A n \in 1 .. Len(s) : s[n] = t[n]

LEMMA BeginsIsPrefix ==
    ASSUME NEW S, NEW s \in Seq(S), NEW T, NEW t \in Seq(T), Begins(s, t)
    PROVE  IsPrefix(s, t)
<1>1. Len(s) \in Nat /\ Len(t) \in Nat
  BY LenProperties
<1> DEFINE u == SubSeq(s, 0 + 1, Len(s))
           v == SubSeq(t, 0 + 1, Len(s))
<1>2. u \in Seq(S) /\ Len(u) = Len(s) - 0 /\ \A n \in 1 .. Len(s) - 0 : u[n] = s[0 + n]
  BY <1>1, Slice
<1>3. v \in Seq(T) /\ Len(v) = Len(s) - 0 /\ \A n \in 1 .. Len(s) - 0 : v[n] = t[0 + n]
  BY <1>1, Slice DEF Begins
<1> HIDE DEF u, v
<1>4. u \in Seq(S \cup T) /\ v \in Seq(S \cup T)
  BY <1>2, <1>3, SeqMonotonic
<1>5. \A n \in 1 .. Len(u) : u[n] = v[n]
  BY <1>1, <1>2, <1>3 DEF Begins
<1>6. Len(u) = Len(v)
  BY <1>2, <1>3
<1>7. u = v
  BY <1>4, <1>5, <1>6, SeqEqual
<1> QED
  BY <1>7 DEF IsPrefix, u, v, Begins

LEMMA LeastOf == ASSUME NEW S \in SUBSET Nat, S # {}
                 PROVE  Min(S) \in S /\ \A n \in S : Min(S) <= n
<1>1. \E k \in S : \A n \in S : ~(<< n, k >> \in OpToRel(<, Nat))
  BY NatLessThanWellFounded, WFMin
<1>2. \E k \in S : \A n \in S : ~(n < k)
  BY <1>1 DEF OpToRel
<1>3. \E k \in S : \A n \in S : k <= n
  BY <1>2
<1> QED
  BY <1>3 DEF Min

------------------------------------------------------------------------------
(* Where the structures of a firmware lie.                                  *)

Text == {s \in Seq(1 .. 255) : s # << >>}

LEMMA FirmwareType ==
    ASSUME NEW f \in Firmware
    PROVE  /\ f.of = "smbios" /\ f.reader \in {"uuid", "memory"}
           /\ f.bytes \in Seq(Byte) /\ Len(f.bytes) \in Nat
           /\ f.size \in Nat /\ f.size <= Len(f.bytes)
           /\ f.structs \in Seq(Structure) /\ Len(f.structs) \in Nat
           /\ DOMAIN f.structs = 1 .. Len(f.structs)
           /\ \A k \in 1 .. Len(f.structs) : f.structs[k] \in Structure
           /\ \A k \in 1 .. Len(f.structs) + 1 : f.starts[k] \in Nat
           /\ f.starts[1] = 0 /\ f.starts[Len(f.structs) + 1] = Len(f.bytes)
           /\ \A k \in 1 .. Len(f.structs) :
                 StructureLies(f, k) /\ f.ends[k] \in Seq(Nat)
<1>1. /\ f.of = "smbios" /\ f.reader \in {"uuid", "memory"}
      /\ f.bytes \in Seq(Byte) /\ f.structs \in Seq(Structure)
      /\ f.starts \in Seq(Nat) /\ f.ends \in Seq(Seq(Nat))
      /\ f.size \in Nat /\ f.size <= Len(f.bytes) /\ LaidOut(f)
  BY DEF Firmware
<1>2. /\ Len(f.bytes) \in Nat /\ Len(f.structs) \in Nat
      /\ DOMAIN f.structs = 1 .. Len(f.structs)
  BY <1>1, LenProperties
<1>3. \A k \in 1 .. Len(f.structs) : f.structs[k] \in Structure
  BY <1>1, ElementOfSeq
<1>4. Len(f.starts) = Len(f.structs) + 1 /\ Len(f.ends) = Len(f.structs)
  BY <1>1 DEF LaidOut
<1>5. \A k \in 1 .. Len(f.structs) + 1 : f.starts[k] \in Nat
  BY <1>1, <1>4, ElementOfSeq
<1>6. \A k \in 1 .. Len(f.structs) : f.ends[k] \in Seq(Nat)
  BY <1>1, <1>4, ElementOfSeq
<1>7. /\ f.starts[1] = 0 /\ f.starts[Len(f.structs) + 1] = Len(f.bytes)
      /\ \A k \in 1 .. Len(f.structs) : StructureLies(f, k)
  BY <1>1, <1>2 DEF LaidOut
<1> QED
  BY <1>1, <1>2, <1>3, <1>5, <1>6, <1>7, Zenon

LEMMA StructureType ==
    ASSUME NEW s \in Structure
    PROVE  /\ s.data \in Seq(Byte) /\ Len(s.data) \in Nat /\ Len(s.data) >= 4
           /\ s.data[2] = Len(s.data)
           /\ s.strs \in Seq(Text) /\ Len(s.strs) \in Nat
           /\ \A m \in 1 .. Len(s.strs) :
                 s.strs[m] \in Seq(1 .. 255) /\ Len(s.strs[m]) \in Nat \ {0}
<1>1. /\ s.data \in Seq(Byte) /\ Len(s.data) >= 4 /\ s.data[2] = Len(s.data)
      /\ s.strs \in Seq(Text)
  BY DEF Structure, Text
<1>2. Len(s.data) \in Nat /\ Len(s.strs) \in Nat
  BY <1>1, LenProperties
<1>3. ASSUME NEW m \in 1 .. Len(s.strs)
      PROVE  s.strs[m] \in Seq(1 .. 255) /\ Len(s.strs[m]) \in Nat \ {0}
  <2>1. s.strs[m] \in Text
    BY <1>1, ElementOfSeq
  <2>2. s.strs[m] \in Seq(1 .. 255) /\ s.strs[m] # << >>
    BY <2>1 DEF Text
  <2>3. Len(s.strs[m]) \in Nat /\ Len(s.strs[m]) # 0
    BY <2>2, LenProperties, EmptySeq
  <2> QED
    BY <2>2, <2>3
<1> QED
  BY <1>1, <1>2, <1>3

LEMMA SecondByte ==
    ASSUME NEW bytes \in Seq(Byte), NEW from \in Nat, NEW end \in Nat, from + 2 <= end,
           end <= Len(bytes), NEW data, data = SubSeq(bytes, from + 1, end)
    PROVE  At(bytes, from + 1) = data[2]
<1>1. from <= end /\ 2 \in 1 .. end - from
  OBVIOUS
<1>2. \A i \in 1 .. end - from : data[i] = bytes[from + i]
  BY <1>1, Slice
<1>3. data[2] = bytes[from + 2]
  BY <1>1, <1>2
<1>4. (from + 1) + 1 = from + 2
  OBVIOUS
<1> QED
  BY <1>3, <1>4, Zenon DEF At

LEMMA InkIsNotZero == ASSUME NEW x \in 1 .. 255 PROVE x # 0
OBVIOUS

LEMMA InkOnly ==
    ASSUME NEW bytes \in Seq(Byte), NEW from \in Nat, NEW end \in Nat,
           NEW string \in Seq(1 .. 255), from < end, end <= Len(bytes), end - from = Len(string),
           SubSeq(bytes, from + 1, end) = string
    PROVE  \A p \in from .. end - 1 : At(bytes, p) # 0
<1>1. \A i \in 1 .. end - from : string[i] = bytes[from + i]
  <2>1. from <= end
    OBVIOUS
  <2> QED
    BY <2>1, Slice
<1>2. ASSUME NEW p \in from .. end - 1 PROVE bytes[p + 1] # 0
  <2>1. (p - from) + 1 \in 1 .. end - from /\ from + ((p - from) + 1) = p + 1
    OBVIOUS
  <2>2. string[(p - from) + 1] = bytes[p + 1]
    BY <1>1, <2>1, Zenon
  <2>3. string[(p - from) + 1] \in 1 .. 255
    BY <2>1, ElementOfSeq
  <2>4. string[(p - from) + 1] # 0
    BY <2>3, InkIsNotZero, Zenon
  <2> QED
    BY <2>2, <2>4, Zenon
<1> QED
  BY <1>2 DEF At

\* What is known of structure k before its strings are looked at.
DataLies(f, k) ==
    LET data == f.structs[k].data
    IN  /\ f.starts[k] \in Nat /\ LastZero(f, k) \in Nat
        /\ f.starts[k] + Len(data) <= LastZero(f, k)
        /\ f.starts[k + 1] = LastZero(f, k) + 2 /\ f.starts[k + 1] <= Len(f.bytes)
        /\ At(f.bytes, LastZero(f, k)) = 0 /\ At(f.bytes, LastZero(f, k) + 1) = 0
        /\ SubSeq(f.bytes, f.starts[k] + 1, f.starts[k] + Len(data)) = data
        /\ At(f.bytes, f.starts[k] + 1) = Len(data)

LEMMA DataIsLaid ==
    ASSUME NEW f \in Firmware, NEW k \in 1 .. Len(f.structs)
    PROVE  DataLies(f, k)
<1> DEFINE data == f.structs[k].data
           m == Len(f.structs[k].strs)
<1>1. /\ StructureLies(f, k) /\ f.ends[k] \in Seq(Nat) /\ f.starts[k] \in Nat
      /\ f.bytes \in Seq(Byte) /\ Len(f.bytes) \in Nat /\ f.structs[k] \in Structure
  BY FirmwareType
<1>2. /\ data \in Seq(Byte) /\ Len(data) \in Nat /\ Len(data) >= 4
      /\ data[2] = Len(data) /\ m \in Nat
  BY <1>1, StructureType
<1>3. StringStart(f, k, 1) = f.starts[k] + Len(data)
  BY DEF StringStart
<1>4. /\ SubSeq(f.bytes, f.starts[k] + 1, StringStart(f, k, 1)) = data
      /\ Len(f.ends[k]) = m
      /\ StringStart(f, k, 1) <= LastZero(f, k)
      /\ f.starts[k + 1] = LastZero(f, k) + 2 /\ f.starts[k + 1] <= Len(f.bytes)
      /\ At(f.bytes, LastZero(f, k)) = 0 /\ At(f.bytes, LastZero(f, k) + 1) = 0
  BY <1>1, Zenon DEF StructureLies
<1> HIDE DEF data, m
<1>5. LastZero(f, k) \in Nat
  <2>1. CASE m = 0
    BY <1>1, <1>2, <1>3, <2>1 DEF LastZero, m
  <2>2. CASE m # 0
    <3>1. m \in 1 .. m
      BY <1>2, <2>2
    <3>2. f.ends[k][m] \in Nat
      BY <1>1, <1>4, <3>1, ElementOfSeq, Zenon
    <3> QED
      BY <2>2, <3>2 DEF LastZero, m
  <2> QED
    BY <2>1, <2>2
<1>6. At(f.bytes, f.starts[k] + 1) = Len(data)
  <2>1. PICK start, end, bytes, d :
            /\ start = f.starts[k] /\ end = StringStart(f, k, 1)
            /\ bytes = f.bytes /\ d = data
    OBVIOUS
  <2>2. /\ bytes \in Seq(Byte) /\ Len(bytes) \in Nat /\ start \in Nat
        /\ d = SubSeq(bytes, start + 1, end) /\ d[2] = Len(d) /\ Len(d) \in Nat /\ Len(d) >= 4
        /\ end = start + Len(d)
    BY <1>1, <1>2, <1>3, <1>4, <2>1, Zenon
  <2>4. \E z \in Nat : end <= z /\ z + 2 <= Len(bytes)
    BY <1>4, <1>5, <2>1, Zenon
  <2>5. end \in Nat /\ start + 2 <= end /\ end <= Len(bytes)
    BY <2>2, <2>4
  <2>3. At(bytes, start + 1) = d[2]
    BY <2>2, <2>5, SecondByte
  <2> QED
    BY <2>1, <2>2, <2>3, Zenon
<1> QED
  BY <1>1, <1>3, <1>4, <1>5, <1>6 DEF DataLies, data

------------------------------------------------------------------------------
(* The zero byte that is next when r strings of structure k are read.       *)

Unread(f, k, r) == LET m == Len(f.structs[k].strs) IN r < m \/ (m = 0 /\ r = 0)

NextZero(f, k, r) ==
    IF Len(f.structs[k].strs) = 0 THEN LastZero(f, k) ELSE f.ends[k][r + 1]

StringNext(f, k, r) ==
    LET from == StringStart(f, k, r + 1)
        zero == NextZero(f, k, r)
    IN  /\ from \in Nat /\ zero \in Nat /\ from <= zero /\ zero <= LastZero(f, k)
        /\ \A p \in from .. zero - 1 : At(f.bytes, p) # 0
        /\ At(f.bytes, zero) = 0
        /\ zero = LastZero(f, k) => r = WithoutLast(Len(f.structs[k].strs))
        /\ zero # LastZero(f, k) =>
              /\ At(f.bytes, zero + 1) # 0
              /\ r + 1 < Len(f.structs[k].strs)
              /\ StringStart(f, k, r + 2) = zero + 1
              /\ SubSeq(f.bytes, from + 1, zero) = f.structs[k].strs[r + 1]

\* String m of structure k, with its bytes.
StringIn(f, k, m) ==
    LET from == StringStart(f, k, m)
        end == f.ends[k][m]
    IN  /\ from \in Nat /\ end \in Nat /\ from < end /\ end <= LastZero(f, k)
        /\ \A p \in from .. end - 1 : At(f.bytes, p) # 0
        /\ At(f.bytes, end) = 0
        /\ SubSeq(f.bytes, from + 1, end) = f.structs[k].strs[m]

LEMMA StartType ==
    ASSUME NEW f \in Firmware, NEW k \in 1 .. Len(f.structs),
           NEW m \in 1 .. Len(f.structs[k].strs)
    PROVE  StringStart(f, k, m) \in Nat /\ f.ends[k][m] \in Nat
<1>1. /\ StructureLies(f, k) /\ f.ends[k] \in Seq(Nat) /\ f.starts[k] \in Nat
      /\ f.structs[k] \in Structure
  BY FirmwareType
<1>2. Len(f.structs[k].data) \in Nat /\ Len(f.structs[k].strs) \in Nat
  BY <1>1, StructureType
<1>3. Len(f.ends[k]) = Len(f.structs[k].strs)
  BY <1>1, Zenon DEF StructureLies
<1>4. \A n \in 1 .. Len(f.structs[k].strs) : f.ends[k][n] \in Nat
  BY <1>1, <1>3, ElementOfSeq
<1>5. CASE m = 1
  BY <1>1, <1>2, <1>4, <1>5 DEF StringStart
<1>6. CASE m # 1
  <2>1. m - 1 \in 1 .. Len(f.structs[k].strs)
    BY <1>2, <1>6
  <2> QED
    BY <1>4, <1>6, <2>1 DEF StringStart
<1> QED
  BY <1>5, <1>6

LEMMA StringIsLaid ==
    ASSUME NEW f \in Firmware, NEW k \in 1 .. Len(f.structs),
           NEW m \in 1 .. Len(f.structs[k].strs)
    PROVE  StringIn(f, k, m)
<1> DEFINE string == f.structs[k].strs[m]
           from == StringStart(f, k, m)
           end == f.ends[k][m]
<1>1. /\ StructureLies(f, k) /\ f.ends[k] \in Seq(Nat)
      /\ f.bytes \in Seq(Byte) /\ Len(f.bytes) \in Nat /\ f.structs[k] \in Structure
  BY FirmwareType
<1>2. string \in Seq(1 .. 255) /\ Len(string) \in Nat \ {0} /\ Len(f.structs[k].strs) \in Nat
  BY <1>1, StructureType
<1>3. /\ Len(f.ends[k]) = Len(f.structs[k].strs)
      /\ \A n \in DOMAIN f.ends[k] : StringLies(f, k, n)
  BY <1>1, Zenon DEF StructureLies
<1>4. DOMAIN f.ends[k] = 1 .. Len(f.structs[k].strs)
  BY <1>1, <1>3, LenProperties
<1>5. /\ end = from + Len(string) /\ SubSeq(f.bytes, from + 1, end) = string
      /\ end <= LastZero(f, k) /\ At(f.bytes, end) = 0
  BY <1>3, <1>4 DEF StringLies
<1>6. from \in Nat /\ end \in Nat
  BY StartType
<1>7. LastZero(f, k) \in Nat /\ LastZero(f, k) + 2 <= Len(f.bytes)
  BY DataIsLaid DEF DataLies
<1> HIDE DEF string, from, end
<1>8. from < end /\ end <= Len(f.bytes) /\ end - from = Len(string)
  BY <1>1, <1>2, <1>5, <1>6, <1>7
<1>9. \A p \in from .. end - 1 : At(f.bytes, p) # 0
  <2>1. PICK a, b, bytes, s : a = from /\ b = end /\ bytes = f.bytes /\ s = string
    OBVIOUS
  <2>2. /\ bytes \in Seq(Byte) /\ a \in Nat /\ b \in Nat /\ s \in Seq(1 .. 255)
        /\ a < b /\ b <= Len(bytes) /\ b - a = Len(s) /\ SubSeq(bytes, a + 1, b) = s
    BY <1>1, <1>2, <1>5, <1>6, <1>8, <2>1, Zenon
  <2>3. \A p \in a .. b - 1 : At(bytes, p) # 0
    BY <2>2, InkOnly
  <2> QED
    BY <2>1, <2>3, Zenon
<1> QED
  BY <1>5, <1>6, <1>8, <1>9, Zenon DEF StringIn, string, from, end

LEMMA StringIsNext ==
    ASSUME NEW f \in Firmware, NEW k \in 1 .. Len(f.structs), NEW r \in Nat, Unread(f, k, r)
    PROVE  StringNext(f, k, r)
<1> DEFINE m == Len(f.structs[k].strs)
<1>1. m \in Nat /\ DataLies(f, k) /\ Len(f.structs[k].data) \in Nat
  BY FirmwareType, StructureType, DataIsLaid
<1>2. CASE m = 0
  <2>1. r = 0 /\ NextZero(f, k, r) = LastZero(f, k)
    BY <1>1, <1>2 DEF Unread, NextZero
  <2>2. StringStart(f, k, r + 1) = LastZero(f, k)
    BY <1>2, <2>1 DEF LastZero
  <2>3. LastZero(f, k) \in Nat /\ At(f.bytes, LastZero(f, k)) = 0
    BY <1>1 DEF DataLies
  <2>4. r = WithoutLast(Len(f.structs[k].strs))
    BY <1>2, <2>1 DEF WithoutLast
  <2> QED
    BY <2>1, <2>2, <2>3, <2>4 DEF StringNext
<1>3. CASE m # 0
  <2>1. r + 1 \in 1 .. m /\ NextZero(f, k, r) = f.ends[k][r + 1]
    BY <1>1, <1>3 DEF Unread, NextZero
  <2> DEFINE from == StringStart(f, k, r + 1)
             zero == f.ends[k][r + 1]
  <2>2. /\ from \in Nat /\ zero \in Nat /\ from < zero /\ zero <= LastZero(f, k)
        /\ \A p \in from .. zero - 1 : At(f.bytes, p) # 0
        /\ At(f.bytes, zero) = 0
        /\ SubSeq(f.bytes, from + 1, zero) = f.structs[k].strs[r + 1]
    BY <2>1, StringIsLaid, Zenon DEF StringIn
  <2>3. ASSUME zero # LastZero(f, k)
        PROVE  /\ At(f.bytes, zero + 1) # 0 /\ r + 1 < m
               /\ StringStart(f, k, r + 2) = zero + 1
    <3>1. r + 1 # m
      BY <1>3, <2>3 DEF LastZero
    <3>2. r + 1 < m /\ r + 2 \in 1 .. m
      BY <1>1, <2>1, <3>1
    <3>3. StringStart(f, k, r + 2) = zero + 1
      <4>1. r + 2 # 1 /\ (r + 2) - 1 = r + 1
        OBVIOUS
      <4> QED
        BY <4>1 DEF StringStart
    <3>4. /\ StringStart(f, k, r + 2) \in Nat /\ f.ends[k][r + 2] \in Nat
          /\ StringStart(f, k, r + 2) < f.ends[k][r + 2]
          /\ \A p \in StringStart(f, k, r + 2) .. f.ends[k][r + 2] - 1 : At(f.bytes, p) # 0
      BY <3>2, StringIsLaid, Zenon DEF StringIn
    <3>5. StringStart(f, k, r + 2) \in StringStart(f, k, r + 2) .. f.ends[k][r + 2] - 1
      BY <3>4
    <3>6. At(f.bytes, StringStart(f, k, r + 2)) # 0
      BY <3>4, <3>5, Zenon
    <3> QED
      BY <3>2, <3>3, <3>6, Zenon
  <2>4. from <= zero
    BY <2>2
  <2>5. ASSUME zero = LastZero(f, k) PROVE r = WithoutLast(m)
    <3>1. SUFFICES ASSUME r + 1 # m PROVE FALSE
      BY <1>1, <1>3, <2>1 DEF WithoutLast
    <3>2. r + 2 \in 1 .. m /\ (r + 2) # 1 /\ (r + 2) - 1 = r + 1
      BY <1>1, <2>1, <3>1
    <3>3. StringStart(f, k, r + 2) = zero + 1
      BY <3>2 DEF StringStart
    <3>4. PICK a, b : a = StringStart(f, k, r + 2) /\ b = f.ends[k][r + 2]
      OBVIOUS
    <3>5. a \in Nat /\ b \in Nat /\ a < b /\ b <= LastZero(f, k)
      BY <3>2, <3>4, StringIsLaid, Zenon DEF StringIn
    <3> QED
      BY <2>2, <2>5, <3>3, <3>4, <3>5
  <2> QED
    BY <2>1, <2>2, <2>3, <2>4, <2>5, Zenon DEF StringNext
<1> QED
  BY <1>2, <1>3

------------------------------------------------------------------------------
(* The walk over any table.                                                 *)

\* What the callback is given, and what it makes of a memory device.
Given == [data : Seq(Byte), strs : Seq(Seq(Byte))]
Module == {Ram(s) : s \in Given}

DevicesUpTo(h, n) == {k \in 1 .. n : IsDevice(h[k].data)}
DevicesOf(h) == DevicesUpTo(h, Len(h))

\* Where the device of structure k is among them.
PlaceOf(h, k) == Cardinality(DevicesUpTo(h, k))

WalkType ==
    /\ table \in Seq(Byte) /\ reader \in {"uuid", "memory"}
    /\ stage \in {"structure", "strings", "done"}
    /\ pos \in Nat /\ scan \in Nat /\ strs \in Seq(Seq(Byte))
    /\ handed \in Seq(Given) /\ uuid \in Seq(Byte) /\ ram \in Seq(Module)

InTable ==
    /\ pos <= Len(table)
    /\ stage = "strings" => HasStructure /\ pos + Length <= scan /\ scan <= Len(table)

WholeStructures ==
    \A k \in 1 .. Len(handed) : /\ Len(handed[k].data) >= 4
                                /\ handed[k].data[2] = Len(handed[k].data)

\* The walk for a UUID ends with the first structure that has one.
UUIDFound ==
    /\ uuid # << >> => /\ reader = "uuid" /\ stage = "done" /\ Len(handed) > 0
                       /\ IsSystem(handed[Len(handed)].data)
                       /\ uuid = RawUUID(handed[Len(handed)].data)
    /\ reader = "uuid" => \A k \in 1 .. Len(handed) :
                             IsSystem(handed[k].data) => k = Len(handed) /\ uuid # << >>

\* The memory devices are listed in order, each once.
MemoryListed ==
    /\ reader = "uuid" => ram = << >>
    /\ reader = "memory" =>
          /\ Len(ram) = Cardinality(DevicesOf(handed))
          /\ \A k \in DevicesOf(handed) :
                /\ PlaceOf(handed, k) \in 1 .. Len(ram)
                /\ ram[PlaceOf(handed, k)].sizeKB = SizeKB(handed[k].data)

WalkInv == WalkType /\ InTable /\ WholeStructures /\ UUIDFound /\ MemoryListed

LEMMA SliceOfTable ==
    ASSUME NEW t \in Seq(Byte), NEW a \in Nat, NEW b \in Nat, a <= b, b <= Len(t)
    PROVE  SubSeq(t, a + 1, b) \in Seq(Byte) /\ Len(SubSeq(t, a + 1, b)) = b - a
<1>1. PICK s : s = SubSeq(t, a + 1, b)
  OBVIOUS
<1>2. s \in Seq(Byte) /\ Len(s) = b - a
  BY <1>1, Slice
<1> QED
  BY <1>1, <1>2

\* What the inner loop finds is behind `scan`, with a byte behind it.
LEMMA ZeroAhead ==
    ASSUME WalkType, Zeros # {}
    PROVE  /\ Min(Zeros) \in Nat /\ scan <= Min(Zeros) /\ Min(Zeros) + 2 <= Len(table)
           /\ At(table, Min(Zeros)) = 0
           /\ \A z \in Zeros : Min(Zeros) <= z
<1>1. Len(table) \in Nat /\ scan \in Nat
  BY LenProperties DEF WalkType
<1>2. Zeros \in SUBSET Nat
  BY <1>1 DEF Zeros
<1>3. Min(Zeros) \in Zeros /\ \A z \in Zeros : Min(Zeros) <= z
  BY <1>2, LeastOf
<1>4. PICK m : m = Min(Zeros)
  OBVIOUS
<1>5. m \in Nat /\ scan <= m /\ m + 2 <= Len(table) /\ At(table, m) = 0
  BY <1>1, <1>3, <1>4 DEF Zeros
<1> QED
  BY <1>3, <1>4, <1>5, Zenon

LEMMA LengthType ==
    ASSUME WalkType, pos + 4 <= Len(table)
    PROVE  Length \in 0 .. 255 /\ Len(table) \in Nat
<1>1. Len(table) \in Nat /\ pos \in Nat /\ table \in Seq(Byte)
  BY LenProperties DEF WalkType
<1>2. (pos + 1) + 1 \in 1 .. Len(table)
  BY <1>1
<1>3. table[(pos + 1) + 1] \in Byte
  BY <1>1, <1>2, ElementOfSeq, Zenon
<1> QED
  BY <1>1, <1>3 DEF Length, At, Byte

\* The structure that is handed over has the bytes its length says.
LEMMA StructureRead ==
    ASSUME WalkType, InTable, stage = "strings",
           NEW data, data = SubSeq(table, pos + 1, pos + Length)
    PROVE  /\ data \in Seq(Byte) /\ Len(data) = Length
           /\ Len(data) >= 4 /\ data[2] = Len(data)
<1>1. /\ pos + 4 <= Len(table) /\ Length >= 4 /\ pos + Length <= Len(table)
      /\ table \in Seq(Byte) /\ pos \in Nat
  BY DEF InTable, HasStructure, WalkType
<1>2. Length \in 0 .. 255
  BY <1>1, LengthType
<1>3. PICK t, a, n, b : t = table /\ a = pos /\ n = Length /\ b = pos + Length
  OBVIOUS
<1>4. /\ t \in Seq(Byte) /\ a \in Nat /\ n \in 0 .. 255 /\ n >= 4
      /\ b = a + n /\ b <= Len(t) /\ data = SubSeq(t, a + 1, b)
  BY <1>1, <1>2, <1>3, Zenon
<1>5. b \in Nat /\ a <= b /\ a + 2 <= b /\ b - a = n
  BY <1>4
<1>6. data \in Seq(Byte) /\ Len(data) = n
  BY <1>4, <1>5, SliceOfTable
<1>7. At(t, a + 1) = data[2]
  <2>1. /\ t \in Seq(Byte) /\ a \in Nat /\ b \in Nat /\ a + 2 <= b
        /\ b <= Len(t) /\ data = SubSeq(t, a + 1, b)
    BY <1>4, <1>5
  <2>2. \A t1 \in Seq(Byte), a1, b1 \in Nat : \A d1 :
           a1 + 2 <= b1 /\ b1 <= Len(t1) /\ d1 = SubSeq(t1, a1 + 1, b1)
              => At(t1, a1 + 1) = d1[2]
    BY SecondByte
  <2> QED
    BY <2>1, <2>2, Zenon
<1> QED
  BY <1>3, <1>4, <1>6, <1>7, Zenon DEF Length

LEMMA EndOfStrings ==
    ASSUME WalkType, InTable, stage = "strings"
    PROVE  StringsEnd \in Nat /\ StringsEnd <= Len(table)
<1>1. Len(table) \in Nat /\ scan \in Nat /\ scan <= Len(table)
  BY LenProperties DEF WalkType, InTable
<1>2. CASE Zeros # {}
  <2>1. Min(Zeros) \in Nat /\ Min(Zeros) + 2 <= Len(table)
    BY <1>2, ZeroAhead
  <2> QED
    BY <1>2, <2>1 DEF StringsEnd
<1>3. CASE Zeros = {} /\ scan < Len(table) - 1
  <2>1. StringsEnd = Len(table) - 1
    BY <1>3, Zenon DEF StringsEnd
  <2> QED
    BY <1>1, <1>3, <2>1
<1>4. CASE Zeros = {} /\ ~(scan < Len(table) - 1)
  BY <1>1, <1>4, Zenon DEF StringsEnd
<1> QED
  BY <1>2, <1>3, <1>4

\* One structure more.
Grown(h, s, g, n) ==
    /\ g \in Seq(Given) /\ n \in Nat /\ Len(g) = n + 1
    /\ \A k \in 1 .. n : g[k] = h[k]
    /\ g[n + 1] = s
    /\ Cardinality(DevicesOf(h)) \in Nat
    /\ \A k \in DevicesOf(h) : PlaceOf(g, k) = PlaceOf(h, k)
    /\ IsDevice(s.data) =>
          /\ DevicesOf(g) = DevicesOf(h) \cup {n + 1}
          /\ Cardinality(DevicesOf(g)) = Cardinality(DevicesOf(h)) + 1
          /\ PlaceOf(g, n + 1) = Cardinality(DevicesOf(h)) + 1
    /\ ~ IsDevice(s.data) => DevicesOf(g) = DevicesOf(h)

LEMMA DevicesGrow ==
    ASSUME NEW h \in Seq(Given), NEW s \in Given, NEW g, g = Append(h, s)
    PROVE  Grown(h, s, g, Len(h))
<1>1. Len(h) \in Nat
  BY LenProperties
<1>2. /\ g \in Seq(Given) /\ Len(g) = Len(h) + 1
      /\ \A k \in 1 .. Len(h) : g[k] = h[k]
      /\ g[Len(h) + 1] = s
  BY <1>1, AppendProperties
<1>3. \A k \in 1 .. Len(h) : k \in DevicesOf(g) <=> k \in DevicesOf(h)
  BY <1>1, <1>2 DEF DevicesOf, DevicesUpTo
<1>4. Len(h) + 1 \in DevicesOf(g) <=> IsDevice(s.data)
  BY <1>1, <1>2 DEF DevicesOf, DevicesUpTo
<1>5. Len(h) + 1 \notin DevicesOf(h) /\ DevicesOf(h) \subseteq 1 .. Len(h)
  BY <1>1 DEF DevicesOf, DevicesUpTo
<1>6. DevicesOf(g) \subseteq (1 .. Len(h)) \cup {Len(h) + 1}
  BY <1>1, <1>2 DEF DevicesOf, DevicesUpTo
<1>7. IsFiniteSet(DevicesOf(h)) /\ Cardinality(DevicesOf(h)) \in Nat
  <2>1. 1 \in Int /\ Len(h) \in Int
    BY <1>1
  <2>2. IsFiniteSet(1 .. Len(h))
    BY <2>1, FS_Interval, Zenon
  <2> QED
    BY <1>5, <2>2, FS_Subset, FS_CardinalityType, Zenon
<1>8. ASSUME NEW k \in DevicesOf(h) PROVE PlaceOf(g, k) = PlaceOf(h, k)
  <2>1. k \in 1 .. Len(h)
    BY <1>5
  <2>2. DevicesUpTo(g, k) = DevicesUpTo(h, k)
    BY <1>1, <1>2, <2>1 DEF DevicesUpTo
  <2> QED
    BY <2>2 DEF PlaceOf
<1>9. PlaceOf(g, Len(h) + 1) = Cardinality(DevicesOf(g))
  BY <1>2 DEF PlaceOf, DevicesOf
<1>10. CASE IsDevice(s.data)
  <2>1. DevicesOf(g) = DevicesOf(h) \cup {Len(h) + 1}
    BY <1>3, <1>4, <1>5, <1>6, <1>10
  <2>2. Cardinality(DevicesOf(g)) = Cardinality(DevicesOf(h)) + 1
    BY <1>5, <1>7, <2>1, FS_AddElement
  <2> QED
    BY <1>1, <1>2, <1>7, <1>8, <1>9, <1>10, <2>1, <2>2 DEF Grown
<1>11. CASE ~ IsDevice(s.data)
  <2>1. DevicesOf(g) = DevicesOf(h)
    BY <1>3, <1>4, <1>5, <1>6, <1>11
  <2> QED
    BY <1>1, <1>2, <1>7, <1>8, <1>11, <2>1 DEF Grown
<1> QED
  BY <1>10, <1>11

\* The string that is read.
LEMMA StringType ==
    ASSUME WalkType, Zeros # {}
    PROVE  SubSeq(table, scan + 1, Min(Zeros)) \in Seq(Byte)
<1>1. /\ Min(Zeros) \in Nat /\ scan <= Min(Zeros) /\ Min(Zeros) + 2 <= Len(table)
      /\ table \in Seq(Byte) /\ scan \in Nat /\ Len(table) \in Nat
  BY ZeroAhead, LenProperties DEF WalkType
<1>2. PICK m : m = Min(Zeros)
  OBVIOUS
<1>3. m \in Nat /\ scan <= m /\ m <= Len(table)
  BY <1>1, <1>2
<1>4. SubSeq(table, scan + 1, m) \in Seq(Byte)
  BY <1>1, <1>3, SliceOfTable
<1> QED
  BY <1>2, <1>4

LEMMA BeginStructureInv == WalkInv /\ BeginStructure => WalkInv'
<1> SUFFICES ASSUME WalkInv, BeginStructure PROVE WalkInv'
  OBVIOUS
<1>1. /\ pos \in Nat /\ Len(table) \in Nat /\ Length \in 0 .. 255
      /\ HasStructure /\ pos + Length <= Len(table)
  BY LengthType DEF WalkInv, WalkType, BeginStructure, HasStructure
<1>2. HasStructure' /\ Length' = Length
  BY DEF BeginStructure, HasStructure, Length
<1>3. scan' = pos + Length /\ scan' \in Nat
  BY <1>1 DEF BeginStructure
<1>4. WalkType'
  BY <1>3, EmptySeq DEF WalkInv, WalkType, BeginStructure
<1>5. InTable'
  BY <1>1, <1>2, <1>3 DEF WalkInv, InTable, BeginStructure
<1>6. WholeStructures' /\ UUIDFound' /\ MemoryListed'
  BY DEF WalkInv, WholeStructures, UUIDFound, MemoryListed, BeginStructure
<1> QED
  BY <1>4, <1>5, <1>6 DEF WalkInv

LEMMA EndWalkInv == WalkInv /\ EndWalk => WalkInv'
<1> SUFFICES ASSUME WalkInv, EndWalk PROVE WalkInv'
  OBVIOUS
<1>1. WalkType' /\ InTable'
  BY DEF WalkInv, WalkType, InTable, EndWalk
<1>2. WholeStructures' /\ UUIDFound' /\ MemoryListed'
  BY DEF WalkInv, WholeStructures, UUIDFound, MemoryListed, EndWalk
<1> QED
  BY <1>1, <1>2 DEF WalkInv

LEMMA ReadStringInv == WalkInv /\ ReadString => WalkInv'
<1> SUFFICES ASSUME WalkInv, ReadString PROVE WalkInv'
  OBVIOUS
<1>1. /\ Min(Zeros) \in Nat /\ scan <= Min(Zeros) /\ Min(Zeros) + 2 <= Len(table)
      /\ SubSeq(table, scan + 1, Min(Zeros)) \in Seq(Byte)
  BY ZeroAhead, StringType DEF WalkInv, ReadString, AtString
<1>2. scan' = Min(Zeros) + 1 /\ strs' = Append(strs, SubSeq(table, scan + 1, Min(Zeros)))
  BY DEF ReadString
<1>3. /\ scan \in Nat /\ pos \in Nat /\ Len(table) \in Nat /\ strs \in Seq(Seq(Byte))
      /\ HasStructure /\ pos + Length <= scan
  BY LenProperties DEF WalkInv, WalkType, InTable, ReadString
<1>4. Length \in 0 .. 255
  BY <1>3, LengthType DEF WalkInv, HasStructure
<1>5. scan' \in Nat /\ scan' <= Len(table) /\ pos + Length <= scan'
  BY <1>1, <1>2, <1>3, <1>4
<1>6. strs' \in Seq(Seq(Byte))
  BY <1>1, <1>2, <1>3, AppendProperties
<1>7. WalkType'
  BY <1>5, <1>6 DEF WalkInv, WalkType, ReadString
<1>8. InTable'
  <2>1. HasStructure' /\ Length' = Length /\ table' = table /\ pos' = pos
    BY <1>3 DEF ReadString, HasStructure, Length
  <2> QED
    BY <1>5, <2>1 DEF WalkInv, InTable
<1>9. WholeStructures' /\ UUIDFound' /\ MemoryListed'
  BY DEF WalkInv, WholeStructures, UUIDFound, MemoryListed, ReadString
<1> QED
  BY <1>7, <1>8, <1>9 DEF WalkInv

\* The callback gets the structure, or the walk ends before it.
HandOver(s) ==
    /\ s = [data |-> SubSeq(table, pos + 1, pos + Length), strs |-> strs]
    /\ handed' = Append(handed, s)
    /\ FindUUID(s) \/ ListMemory(s)

LEMMA EndStringsCases ==
    ASSUME EndStrings
    PROVE  /\ stage = "strings" /\ scan' = StringsEnd /\ table' = table
           /\ reader' = reader /\ strs' = strs
           /\ \/ StringsEnd <= pos + Length /\ stage' = "done"
                 /\ UNCHANGED << pos, handed, uuid, ram >>
              \/ ~(StringsEnd <= pos + Length) /\ \E s : HandOver(s)
BY Zenon DEF EndStrings, HandOver

LEMMA GivenType ==
    ASSUME WalkInv, stage = "strings", NEW s,
           s = [data |-> SubSeq(table, pos + 1, pos + Length), strs |-> strs]
    PROVE  /\ s \in Given /\ Len(s.data) >= 4 /\ s.data[2] = Len(s.data)
<1>1. PICK d : d = SubSeq(table, pos + 1, pos + Length)
  OBVIOUS
<1>2. d \in Seq(Byte) /\ Len(d) >= 4 /\ d[2] = Len(d)
  BY <1>1, StructureRead DEF WalkInv
<1>3. strs \in Seq(Seq(Byte))
  BY DEF WalkInv, WalkType
<1>4. s = [data |-> d, strs |-> strs]
  BY <1>1
<1>5. \A x \in Seq(Byte), y \in Seq(Seq(Byte)) :
         /\ [data |-> x, strs |-> y] \in Given
         /\ [data |-> x, strs |-> y].data = x
  BY DEF Given
<1>6. s \in Given /\ s.data = d
  BY <1>2, <1>3, <1>4, <1>5, Zenon
<1> QED
  BY <1>2, <1>6, Zenon

LEMMA RawUUIDType ==
    ASSUME NEW data \in Seq(Byte), IsSystem(data)
    PROVE  RawUUID(data) \in Seq(Byte) /\ Len(RawUUID(data)) = 16 /\ RawUUID(data) # << >>
<1>1. Len(data) \in Nat /\ Len(data) >= 24
  BY LenProperties DEF IsSystem
<1>2. RawUUID(data) = SubSeq(data, 8 + 1, 24)
  BY DEF RawUUID
<1>3. SubSeq(data, 8 + 1, 24) \in Seq(Byte) /\ Len(SubSeq(data, 8 + 1, 24)) = 24 - 8
  BY <1>1, SliceOfTable
<1>4. RawUUID(data) \in Seq(Byte) /\ Len(RawUUID(data)) = 16
  BY <1>2, <1>3
<1>5. RawUUID(data) # << >>
  <2>1. Len(<< >>) = 0
    OBVIOUS
  <2>2. 16 # 0
    OBVIOUS
  <2> QED
    BY <1>4, <2>1, <2>2, Zenon
<1> QED
  BY <1>4, <1>5

LEMMA EndStringsInv == WalkInv /\ EndStrings => WalkInv'
<1> SUFFICES ASSUME WalkInv, EndStrings PROVE WalkInv'
  OBVIOUS
<1>1. /\ stage = "strings" /\ scan' = StringsEnd /\ table' = table
      /\ reader' = reader /\ strs' = strs
      /\ \/ StringsEnd <= pos + Length /\ stage' = "done" /\ UNCHANGED << pos, handed, uuid, ram >>
         \/ ~(StringsEnd <= pos + Length) /\ \E s : HandOver(s)
  BY EndStringsCases
<1>2. scan' \in Nat /\ scan' <= Len(table)
  BY <1>1, EndOfStrings DEF WalkInv
<1>3. CASE stage' = "done" /\ UNCHANGED << pos, handed, uuid, ram >>
  <2>1. WalkType' /\ InTable'
    BY <1>1, <1>2, <1>3 DEF WalkInv, WalkType, InTable
  <2>2. WholeStructures' /\ UUIDFound' /\ MemoryListed'
    BY <1>1, <1>3 DEF WalkInv, WholeStructures, UUIDFound, MemoryListed
  <2> QED
    BY <2>1, <2>2 DEF WalkInv
<1>4. ASSUME NEW s, HandOver(s) PROVE WalkInv'
  <2>1. s \in Given /\ Len(s.data) >= 4 /\ s.data[2] = Len(s.data)
    BY <1>1, <1>4, GivenType DEF HandOver
  <2>2. handed \in Seq(Given) /\ handed' = Append(handed, s)
    BY <1>4 DEF WalkInv, WalkType, HandOver
  <2>3. PICK h, g, n : h = handed /\ g = handed' /\ n = Len(handed)
    OBVIOUS
  <2>4. /\ g \in Seq(Given) /\ n \in Nat /\ Len(g) = n + 1
        /\ \A k \in 1 .. n : g[k] = h[k]
        /\ g[n + 1] = s
        /\ Grown(h, s, g, n)
    <3>1. h \in Seq(Given) /\ g = Append(h, s) /\ n = Len(h)
      BY <2>2, <2>3
    <3>2. Grown(h, s, g, n)
      BY <2>1, <3>1, DevicesGrow
    <3> QED
      BY <3>2, Zenon DEF Grown
  <2>5. WholeStructures'
    <3>1. ASSUME NEW k \in 1 .. n + 1 PROVE Len(g[k].data) >= 4 /\ g[k].data[2] = Len(g[k].data)
      <4>1. CASE k \in 1 .. n
        BY <2>3, <2>4, <4>1 DEF WalkInv, WholeStructures
      <4>2. CASE k = n + 1
        BY <2>1, <2>4, <4>2
      <4> QED
        BY <2>4, <4>1, <4>2
    <3> QED
      BY <2>3, <2>4, <3>1 DEF WholeStructures
  <2>6. CASE FindUUID(s)
    <3>1. /\ reader = "uuid" /\ ram' = ram /\ uuid = << >> /\ ram = << >>
          /\ \A k \in 1 .. n : ~ IsSystem(h[k].data)
      BY <1>1, <2>3, <2>6 DEF FindUUID, WalkInv, UUIDFound, MemoryListed
    <3>2. CASE IsSystem(s.data)
      <4>1. uuid' = RawUUID(s.data) /\ stage' = "done" /\ pos' = pos
        BY <2>6, <3>2 DEF FindUUID
      <4>2. uuid' \in Seq(Byte) /\ uuid' # << >>
        BY <2>1, <3>2, <4>1, RawUUIDType DEF Given
      <4>3. WalkType' /\ InTable'
        BY <1>1, <1>2, <2>3, <2>4, <3>1, <4>1, <4>2 DEF WalkInv, WalkType, InTable
      <4>4. UUIDFound'
        BY <1>1, <2>3, <2>4, <3>1, <3>2, <4>1, <4>2 DEF UUIDFound
      <4>5. MemoryListed'
        BY <1>1, <3>1, EmptySeq DEF MemoryListed
      <4> QED
        BY <2>5, <4>3, <4>4, <4>5 DEF WalkInv
    <3>3. CASE ~ IsSystem(s.data)
      <4>1. uuid' = uuid /\ stage' = "structure" /\ pos' = scan'
        BY <2>6, <3>3 DEF FindUUID
      <4>2. WalkType' /\ InTable'
        BY <1>1, <1>2, <2>3, <2>4, <3>1, <4>1 DEF WalkInv, WalkType, InTable
      <4>3. UUIDFound'
        BY <1>1, <2>3, <2>4, <3>1, <3>3, <4>1 DEF UUIDFound
      <4>4. MemoryListed'
        BY <1>1, <3>1, EmptySeq DEF MemoryListed
      <4> QED
        BY <2>5, <4>2, <4>3, <4>4 DEF WalkInv
    <3> QED
      BY <3>2, <3>3
  <2>7. CASE ListMemory(s)
    <3>1. /\ reader = "memory" /\ uuid' = uuid /\ stage' = "structure" /\ pos' = scan'
          /\ uuid = << >> /\ ram \in Seq(Module)
      BY <1>1, <2>7 DEF ListMemory, WalkInv, WalkType, UUIDFound
    <3>2. /\ Len(ram) = Cardinality(DevicesOf(h)) /\ Len(ram) \in Nat
          /\ \A k \in DevicesOf(h) : /\ PlaceOf(h, k) \in 1 .. Len(ram)
                                     /\ ram[PlaceOf(h, k)].sizeKB = SizeKB(h[k].data)
      BY <2>3, <3>1, LenProperties DEF WalkInv, MemoryListed
    <3>3. UUIDFound'
      BY <1>1, <3>1 DEF UUIDFound
    <3>4. \A k \in DevicesOf(h) : PlaceOf(g, k) = PlaceOf(h, k) /\ g[k] = h[k]
      <4>1. DevicesOf(h) \subseteq 1 .. n
        BY <2>3 DEF DevicesOf, DevicesUpTo
      <4> QED
        BY <2>4, <4>1 DEF Grown
    <3>5. CASE IsDevice(s.data)
      <4>1. ram' = Append(ram, Ram(s)) /\ Ram(s) \in Module
        BY <2>1, <2>7, <3>5, Zenon DEF ListMemory, Module
      <4>2. PICK r, q, m : r = ram /\ q = ram' /\ m = Len(ram)
        OBVIOUS
      <4>3. /\ q \in Seq(Module) /\ m \in Nat /\ Len(q) = m + 1
            /\ \A k \in 1 .. m : q[k] = r[k]
            /\ q[m + 1] = Ram(s)
        BY <3>1, <3>2, <4>1, <4>2, AppendProperties
      <4>4. Ram(s).sizeKB = SizeKB(s.data)
        BY DEF Ram
      <4>5. /\ Len(q) = Cardinality(DevicesOf(g))
            /\ DevicesOf(g) = DevicesOf(h) \cup {n + 1}
            /\ PlaceOf(g, n + 1) = m + 1
        BY <2>4, <3>2, <3>5, <4>2, <4>3 DEF Grown
      <4>6. ASSUME NEW k \in DevicesOf(g)
            PROVE  PlaceOf(g, k) \in 1 .. Len(q) /\ q[PlaceOf(g, k)].sizeKB = SizeKB(g[k].data)
        <5>1. CASE k \in DevicesOf(h)
          <6>1. PICK i : i = PlaceOf(h, k)
            OBVIOUS
          <6>2. i \in 1 .. m /\ r[i].sizeKB = SizeKB(h[k].data)
            BY <3>2, <4>2, <5>1, <6>1
          <6>3. PlaceOf(g, k) = i /\ g[k] = h[k] /\ q[i] = r[i]
            BY <3>4, <4>3, <5>1, <6>1, <6>2
          <6>4. i \in 1 .. Len(q)
            BY <4>3, <6>2
          <6> QED
            BY <6>2, <6>3, <6>4, Zenon
        <5>2. CASE k = n + 1
          <6>1. m + 1 \in 1 .. Len(q) /\ g[n + 1] = s
            BY <2>4, <4>3
          <6> QED
            BY <4>3, <4>4, <4>5, <5>2, <6>1, Zenon
        <5> QED
          BY <4>5, <5>1, <5>2
      <4>7. MemoryListed'
        BY <1>1, <2>3, <3>1, <4>2, <4>5, <4>6, Zenon DEF MemoryListed
      <4>8. WalkType' /\ InTable'
        BY <1>1, <1>2, <2>3, <2>4, <3>1, <4>2, <4>3 DEF WalkInv, WalkType, InTable
      <4> QED
        BY <2>5, <3>3, <4>7, <4>8 DEF WalkInv
    <3>6. CASE ~ IsDevice(s.data)
      <4>1. ram' = ram
        BY <2>7, <3>6 DEF ListMemory
      <4>2. DevicesOf(g) = DevicesOf(h)
        BY <2>4, <3>6 DEF Grown
      <4>3. \A k \in DevicesOf(g) : /\ PlaceOf(g, k) \in 1 .. Len(ram)
                                    /\ ram[PlaceOf(g, k)].sizeKB = SizeKB(g[k].data)
        BY <3>2, <3>4, <4>2, Zenon
      <4>4. MemoryListed'
        BY <1>1, <2>3, <3>1, <3>2, <4>1, <4>2, <4>3, Zenon DEF MemoryListed
      <4>5. WalkType' /\ InTable'
        BY <1>1, <1>2, <2>3, <2>4, <3>1, <4>1 DEF WalkInv, WalkType, InTable
      <4> QED
        BY <2>5, <3>3, <4>4, <4>5 DEF WalkInv
    <3> QED
      BY <3>5, <3>6
  <2> QED
    BY <1>4, <2>6, <2>7 DEF HandOver
<1> QED
  BY <1>1, <1>3, <1>4

------------------------------------------------------------------------------
(* The table that is walked over.                                           *)

\* Four bytes, low first, hold a length.
LEMMA LengthInBytes ==
    ASSUME NEW n \in Nat, NEW a,
           a[5] = n % 256, a[6] = (n \div 256) % 256,
           a[7] = (n \div 65536) % 256, a[8] = n \div 16777216
    PROVE  Word(a, 4) + 65536 * Word(a, 6) = n
<1> DEFINE b3 == n % 256
           b4 == (n \div 256) % 256
           b5 == (n \div 65536) % 256
           b6 == n \div 16777216
<1>1. /\ Four(Two(b3, b4), Two(b5, b6)) = n
      /\ b3 \in Int /\ b4 \in Int /\ b5 \in Int /\ b6 \in Int
  <2>1. 0 \in Nat /\ 0 < 65535
    OBVIOUS
  <2> QED
    BY <2>1, Bytes, SMT DEF Two, Four
<1>2. a[4 + 1] = b3 /\ a[4 + 1 + 1] = b4 /\ a[6 + 1] = b5 /\ a[6 + 1 + 1] = b6
  OBVIOUS
<1> HIDE DEF b3, b4, b5, b6
<1> QED
  BY <1>1, <1>2 DEF Word, At, Two, Four

LEMMA AnswerIs ==
    ASSUME NEW bytes \in Seq(Byte), NEW size \in Nat, size <= Len(bytes),
           NEW t, t = SubSeq(bytes, 1, size)
    PROVE  RawTable(Answer(bytes, size)) = t
<1>1. PICK n : n = Len(bytes)
  OBVIOUS
<1>2. n \in Nat /\ size <= n
  BY <1>1, LenProperties
<1>3. t \in Seq(Byte) /\ Len(t) = size
  BY CutSlice DEF Cut
<1> DEFINE b5 == n % 256
           b6 == (n \div 256) % 256
           b7 == (n \div 65536) % 256
           b8 == n \div 16777216
           h == << 0, 0, 0, 0, b5, b6, b7, b8 >>
           a == h \o t
<1>4. b5 \in Nat /\ b6 \in Nat /\ b7 \in Nat /\ b8 \in Nat
  BY <1>2, SMT
<1>5. Answer(bytes, size) = a
  BY <1>1, SMT DEF Answer
<1> HIDE DEF b5, b6, b7, b8
<1>6. h \in Seq(Nat) /\ Len(h) = 8
  BY <1>4
<1>7. h[5] = b5 /\ h[6] = b6 /\ h[7] = b7 /\ h[8] = b8
  OBVIOUS
<1> HIDE DEF h
<1>8. t \in Seq(Nat)
  <2>1. Byte \subseteq Nat
    BY DEF Byte
  <2> QED
    BY <1>3, <2>1, SeqMonotonic, Zenon
<1>9. /\ a \in Seq(Nat) /\ Len(a) = 8 + size
      /\ \A i \in 1 .. 8 + size : a[i] = IF i <= 8 THEN h[i] ELSE t[i - 8]
  <2>1. /\ h \o t \in Seq(Nat) /\ Len(h \o t) = Len(h) + Len(t)
        /\ \A i \in 1 .. Len(h) + Len(t) :
              (h \o t)[i] = IF i <= Len(h) THEN h[i] ELSE t[i - Len(h)]
    BY <1>6, <1>8, ConcatProperties, Zenon
  <2> QED
    BY <1>3, <1>6, <2>1
<1>10. a[5] = h[5] /\ a[6] = h[6] /\ a[7] = h[7] /\ a[8] = h[8]
  BY <1>9
<1> HIDE DEF a
<1>11. Word(a, 4) + 65536 * Word(a, 6) = n
  <2>1. /\ a[5] = n % 256 /\ a[6] = (n \div 256) % 256
        /\ a[7] = (n \div 65536) % 256 /\ a[8] = n \div 16777216
    BY <1>7, <1>10, SMT DEF b5, b6, b7, b8
  <2> QED
    BY <1>2, <2>1, LengthInBytes, SMT
<1>12. PICK b : b = SubSeq(a, 8 + 1, 8 + size)
  OBVIOUS
<1>13. RawTable(a) = b
  <2>1. ~(Len(a) < 8) /\ (IF 8 + n > Len(a) THEN Len(a) ELSE 8 + n) = 8 + size
    BY <1>2, <1>9
  <2>2. RawTable(a) = SubSeq(a, 9, 8 + size)
    BY <1>11, <2>1, SMT DEF RawTable
  <2> QED
    BY <1>12, <2>2
<1>14. /\ b \in Seq(Nat) /\ Len(b) = size
       /\ \A i \in 1 .. size : b[i] = a[8 + i]
  <2>1. PICK e : e = 8 + size
    OBVIOUS
  <2>2. e \in Nat /\ 8 <= e /\ e <= Len(a) /\ e - 8 = size
    BY <1>9, <2>1
  <2>3. /\ b \in Seq(Nat) /\ Len(b) = e - 8
        /\ \A i \in 1 .. e - 8 : b[i] = a[8 + i]
    BY <1>9, <1>12, <2>1, <2>2, Slice
  <2> QED
    BY <2>2, <2>3
<1>15. \A i \in 1 .. size : b[i] = t[i]
  BY <1>9, <1>14
<1>16. b = t
  BY <1>3, <1>8, <1>14, <1>15, SeqEqual
<1> QED
  BY <1>5, <1>13, <1>16

\* Whatever the answer is, what is cut out of it is bytes of it.
LEMMA RawTableType == ASSUME NEW raw \in Seq(Byte) PROVE RawTable(raw) \in Seq(Byte)
<1>1. Len(raw) \in Nat
  BY LenProperties
<1>2. CASE Len(raw) < 8
  BY <1>2, EmptySeq DEF RawTable
<1>3. CASE ~(Len(raw) < 8)
  <2>1. \A p \in 1 .. 8 : raw[p] \in Byte
    BY <1>1, <1>3, ElementOfSeq
  <2>2. Word(raw, 4) \in Nat /\ Word(raw, 6) \in Nat
    <3>1. ASSUME NEW p \in 0 .. 7 PROVE At(raw, p) \in Nat
      <4>1. raw[p + 1] \in Byte
        BY <2>1
      <4>2. Byte \subseteq Nat
        BY DEF Byte
      <4> QED
        BY <4>1, <4>2, Zenon DEF At
    <3>2. At(raw, 4) \in Nat /\ At(raw, 4 + 1) \in Nat /\ At(raw, 6) \in Nat /\ At(raw, 6 + 1) \in Nat
      BY <3>1
    <3> QED
      BY <3>2 DEF Word
  <2>3. PICK n : n = Word(raw, 4) + 65536 * Word(raw, 6)
    OBVIOUS
  <2>4. n \in Nat
    BY <2>2, <2>3, SMT
  <2>5. PICK e : e = IF 8 + n > Len(raw) THEN Len(raw) ELSE 8 + n
    OBVIOUS
  <2>6. e \in Nat /\ 8 <= e /\ e <= Len(raw)
    BY <1>1, <1>3, <2>4, <2>5
  <2>7. SubSeq(raw, 8 + 1, e) \in Seq(Byte)
    BY <2>6, SliceOfTable
  <2>8. RawTable(raw) = SubSeq(raw, 9, e)
    BY <1>3, <2>3, <2>5, SMT DEF RawTable
  <2> QED
    BY <2>7, <2>8
<1> QED
  BY <1>2, <1>3

LEMMA StartInv ==
    ASSUME NEW t \in Seq(Byte), NEW r \in {"uuid", "memory"}, StartWalk(t, r)
    PROVE  WalkInv
<1>1. /\ table = t /\ reader = r /\ pos = 0 /\ scan = 0
      /\ strs = << >> /\ handed = << >> /\ uuid = << >> /\ ram = << >>
      /\ stage \in {"structure", "done"}
  BY DEF StartWalk
<1>2. Len(table) \in Nat /\ Len(handed) = 0 /\ Len(ram) = 0
  BY <1>1, LenProperties
<1>3. WalkType /\ InTable
  BY <1>1, <1>2, EmptySeq DEF WalkType, InTable
<1>4. DevicesOf(handed) = {}
  BY <1>2 DEF DevicesOf, DevicesUpTo
<1>5. Cardinality(DevicesOf(handed)) = 0
  BY <1>4, FS_EmptySet
<1>6. WholeStructures /\ UUIDFound
  BY <1>1, <1>2 DEF WholeStructures, UUIDFound
<1>7. MemoryListed
  BY <1>1, <1>2, <1>4, <1>5 DEF MemoryListed
<1> QED
  BY <1>3, <1>6, <1>7 DEF WalkInv

LEMMA InputKinds ==
    ASSUME NEW x \in Input
    PROVE  /\ x.of = "smbios" => x \in Firmware
           /\ x.of = "garbage" => x \in Garbage
           /\ x.of = "size" => x \in MemorySize
           /\ x.of = "connections" => x \in Connections
           /\ x.of = "frame" => x \in Frame
           /\ x.of = "value" => x \in Value
<1>1. \/ x \in Firmware \/ x \in Garbage \/ x \in MemorySize
      \/ x \in Connections \/ x \in Frame \/ x \in Value
  BY InputAssumption
<1>2. /\ x \in Firmware => x.of = "smbios"
      /\ x \in Garbage => x.of = "garbage"
      /\ x \in MemorySize => x.of = "size"
      /\ x \in Connections => x.of = "connections"
      /\ x \in Frame => x.of = "frame"
      /\ x \in Value => x.of = "value"
  BY FirmwareType, SMT DEF Garbage, MemorySize, Connections, Frame, Value
<1> QED
  BY <1>1, <1>2

LEMMA InitInv == DecoderInit => WalkInv
<1> SUFFICES ASSUME DecoderInit PROVE WalkInv
  OBVIOUS
<1>1. input \in Input
  BY DEF DecoderInit
<1>2. CASE input.of = "smbios"
  <2>1. input \in Firmware
    BY <1>1, <1>2, InputKinds
  <2>2. PICK t : t = SubSeq(input.bytes, 1, input.size)
    OBVIOUS
  <2>3. t \in Seq(Byte) /\ RawTable(Answer(input.bytes, input.size)) = t
    <3>1. PICK b, n : b = input.bytes /\ n = input.size
      OBVIOUS
    <3>2. b \in Seq(Byte) /\ n \in Nat /\ n <= Len(b) /\ t = SubSeq(b, 1, n)
      BY <2>1, <2>2, <3>1, FirmwareType
    <3>3. t \in Seq(Byte)
      BY <3>2, CutSlice
    <3>4. RawTable(Answer(b, n)) = t
      BY <3>2, AnswerIs
    <3> QED
      BY <3>1, <3>3, <3>4, Zenon
  <2>4. StartWalk(t, input.reader) /\ input.reader \in {"uuid", "memory"}
    BY <1>2, <2>1, <2>3, FirmwareType DEF DecoderInit
  <2> QED
    BY <2>3, <2>4, StartInv
<1>3. CASE input.of = "garbage"
  <2>1. input.raw \in Seq(Byte) /\ input.reader \in {"uuid", "memory"}
    BY <1>1, <1>3, InputKinds DEF Garbage
  <2>2. StartWalk(RawTable(input.raw), input.reader)
    BY <1>3 DEF DecoderInit
  <2>3. RawTable(input.raw) \in Seq(Byte)
    BY <2>1, RawTableType
  <2> QED
    BY <2>1, <2>2, <2>3, StartInv
<1>4. CASE input.of \notin {"smbios", "garbage"}
  <2>1. StartWalk(<< >>, "uuid")
    BY <1>4 DEF DecoderInit
  <2>2. << >> \in Seq(Byte)
    BY EmptySeq
  <2> QED
    BY <2>1, <2>2, StartInv
<1> QED
  BY <1>2, <1>3, <1>4

LEMMA StepInv == WalkInv /\ [DecoderNext]_decoderVars => WalkInv'
<1> SUFFICES ASSUME WalkInv, [DecoderNext]_decoderVars PROVE WalkInv'
  OBVIOUS
<1>1. CASE BeginStructure
  BY <1>1, BeginStructureInv
<1>2. CASE EndWalk
  BY <1>2, EndWalkInv
<1>3. CASE ReadString
  BY <1>3, ReadStringInv
<1>4. CASE EndStrings
  BY <1>4, EndStringsInv
<1>5. CASE UNCHANGED decoderVars
  <2>1. UNCHANGED << table, reader, stage, pos, scan, strs, handed, uuid, ram >>
    BY <1>5 DEF decoderVars, walk
  <2>2. WalkType' /\ InTable'
    BY <2>1 DEF WalkInv, WalkType, InTable, HasStructure, Length
  <2>3. WholeStructures' /\ UUIDFound' /\ MemoryListed'
    BY <2>1 DEF WalkInv, WholeStructures, UUIDFound, MemoryListed
  <2> QED
    BY <2>2, <2>3 DEF WalkInv
<1> QED
  BY <1>1, <1>2, <1>3, <1>4, <1>5 DEF DecoderNext, WalkStep

\* Whatever the table is, the walk reads inside it and hands over whole structures, the
\* UUID is the sixteen bytes of the one that ends the walk, and each memory device
\* handed over is listed once, with its size (smbios_windows.go:61-113,
\* fingerprint_windows.go:11-26, hw_detail_windows.go:486-568).
THEOREM WalkStaysInside == DecoderSpec => []WalkInv
<1> QED
  BY InitInv, StepInv, PTL DEF DecoderSpec

------------------------------------------------------------------------------
(* The walk over what is left of the table of a firmware.                   *)

AtStrings(f, k, r) ==
    /\ k <= Len(f.structs) /\ pos = f.starts[k] /\ scan = StringStart(f, k, r + 1)
    /\ Unread(f, k, r) /\ Begins(strs, f.structs[k].strs)

\* All strings are read but the last.
Complete(s, all) == Len(s) = WithoutLast(Len(all))

AllComplete(f) == \A k \in 1 .. Len(handed) : Complete(handed[k].strs, f.structs[k].strs)

\* What is handed over are the first structures, and the walk is where the next one
\* starts, or in its strings, unless it came to the cut.
Walked(f) ==
    /\ table = SubSeq(f.bytes, 1, f.size) /\ reader = f.reader
    /\ Len(handed) <= Len(f.structs)
    /\ \A k \in 1 .. Len(handed) : /\ handed[k].data = f.structs[k].data
                                   /\ Begins(handed[k].strs, f.structs[k].strs)
    /\ \A k \in 1 .. Len(handed) : k < Len(handed) \/ f.size = Len(f.bytes) =>
          Complete(handed[k].strs, f.structs[k].strs)
    /\ stage = "structure" => \/ pos = f.starts[Len(handed) + 1] /\ AllComplete(f)
                              \/ pos + 4 > f.size /\ f.size < Len(f.bytes)
    /\ stage = "strings" => AtStrings(f, Len(handed) + 1, Len(strs)) /\ AllComplete(f)
    /\ stage = "done" /\ f.size = Len(f.bytes) =>
          Len(handed) = Len(f.structs) \/ uuid # << >>

LEMMA TableIsCut ==
    ASSUME NEW f \in Firmware, table = SubSeq(f.bytes, 1, f.size)
    PROVE  /\ Len(table) = f.size /\ f.size \in Nat /\ f.size <= Len(f.bytes)
           /\ Len(f.bytes) \in Nat
           /\ \A p \in 0 .. f.size - 1 : At(table, p) = At(f.bytes, p)
<1>1. PICK b, n, t : b = f.bytes /\ n = f.size /\ t = table
  OBVIOUS
<1>2. b \in Seq(Byte) /\ n \in Nat /\ n <= Len(b) /\ Len(b) \in Nat /\ t = SubSeq(b, 1, n)
  BY <1>1, FirmwareType
<1>3. Cut(b, t, n)
  BY <1>2, CutSlice
<1> QED
  BY <1>1, <1>2, <1>3, Zenon DEF Cut

LEMMA TableSlice ==
    ASSUME NEW f \in Firmware, table = SubSeq(f.bytes, 1, f.size),
           NEW x \in Nat, NEW y \in Nat, x <= y, y <= f.size
    PROVE  SubSeq(table, x + 1, y) = SubSeq(f.bytes, x + 1, y)
<1>1. PICK b, n, t : b = f.bytes /\ n = f.size /\ t = table
  OBVIOUS
<1>2. b \in Seq(Byte) /\ n \in Nat /\ n <= Len(b) /\ y <= n /\ t = SubSeq(b, 1, n)
  BY <1>1, FirmwareType
<1>3. SubSeq(t, x + 1, y) = SubSeq(b, x + 1, y)
  BY <1>2, SliceOfCut
<1> QED
  BY <1>1, <1>3, Zenon

\* The zero byte the inner loop finds is the one that ends the string, if the table is
\* not cut before the byte behind it.
LEMMA ZeroFound ==
    ASSUME NEW f \in Firmware, WalkType, table = SubSeq(f.bytes, 1, f.size),
           NEW k \in 1 .. Len(f.structs), NEW r \in Nat, Unread(f, k, r),
           scan = StringStart(f, k, r + 1)
    PROVE  /\ Zeros # {} => Min(Zeros) = NextZero(f, k, r)
           /\ Zeros = {} => f.size < NextZero(f, k, r) + 2
<1>1. PICK z, n, s : z = NextZero(f, k, r) /\ n = f.size /\ s = scan
  OBVIOUS
<1>2. /\ s \in Nat /\ z \in Nat /\ s <= z
      /\ \A p \in s .. z - 1 : At(f.bytes, p) # 0
      /\ At(f.bytes, z) = 0
  BY <1>1, StringIsNext, Zenon DEF StringNext
<1>3. /\ Len(table) = n /\ n \in Nat
      /\ \A p \in 0 .. n - 1 : At(table, p) = At(f.bytes, p)
  BY <1>1, TableIsCut
<1>4. z + 2 <= n => z \in Zeros
  BY <1>1, <1>2, <1>3 DEF Zeros
<1>5. ASSUME Zeros # {} PROVE Min(Zeros) = z
  <2>1. PICK m : m = Min(Zeros)
    OBVIOUS
  <2>2. /\ m \in Nat /\ s <= m /\ m + 2 <= n /\ At(table, m) = 0
        /\ \A y \in Zeros : m <= y
    BY <1>1, <1>3, <1>5, <2>1, ZeroAhead
  <2>3. m \in 0 .. n - 1
    BY <1>3, <2>2
  <2>4. At(f.bytes, m) = 0
    BY <1>3, <2>2, <2>3
  <2>5. m \notin s .. z - 1
    BY <1>2, <2>4
  <2>6. z <= m
    BY <1>2, <2>2, <2>5
  <2>7. z \in Zeros
    BY <1>2, <1>3, <1>4, <2>2, <2>6
  <2>8. m <= z
    BY <2>2, <2>7
  <2> QED
    BY <1>2, <2>1, <2>2, <2>6, <2>8
<1>6. ASSUME Zeros = {} PROVE n < z + 2
  BY <1>2, <1>3, <1>4, <1>6
<1> QED
  BY <1>1, <1>5, <1>6

LEMMA BeginStructureWalked ==
    ASSUME NEW f \in Firmware, WalkInv, Walked(f), BeginStructure
    PROVE  Walked(f)'
<1>1. PICK n, k, p : n = Len(f.structs) /\ k = Len(handed) + 1 /\ p = pos
  OBVIOUS
<1>2. /\ n \in Nat /\ k \in Nat /\ k >= 1 /\ k <= n + 1 /\ p \in Nat
      /\ f.starts[n + 1] = Len(f.bytes)
  BY <1>1, FirmwareType, LenProperties DEF WalkInv, WalkType, Walked
<1>3. /\ Len(table) = f.size /\ f.size \in Nat /\ f.size <= Len(f.bytes)
      /\ Len(f.bytes) \in Nat
      /\ \A q \in 0 .. f.size - 1 : At(table, q) = At(f.bytes, q)
  BY TableIsCut DEF Walked
<1>4. p + 4 <= f.size /\ p = f.starts[k]
  BY <1>1, <1>2, <1>3 DEF BeginStructure, HasStructure, Walked
<1>5. k \in 1 .. n
  BY <1>2, <1>3, <1>4
<1>6. Length = Len(f.structs[k].data)
  <2>1. DataLies(f, k)
    BY <1>1, <1>5, DataIsLaid
  <2>2. At(f.bytes, p + 1) = Len(f.structs[k].data)
    BY <1>4, <2>1, Zenon DEF DataLies
  <2>3. p + 1 \in 0 .. f.size - 1
    BY <1>2, <1>3, <1>4
  <2>4. At(table, p + 1) = At(f.bytes, p + 1)
    BY <1>3, <2>3
  <2> QED
    BY <1>1, <2>2, <2>4 DEF Length
<1>7. scan' = StringStart(f, k, 0 + 1)
  BY <1>1, <1>4, <1>6 DEF BeginStructure, StringStart
<1>8. Unread(f, k, 0) /\ Begins(strs', f.structs[k].strs)
  <2>1. Len(f.structs[k].strs) \in Nat
    BY <1>1, <1>5, FirmwareType, StructureType
  <2>2. strs' = << >> /\ Len(strs') = 0
    BY DEF BeginStructure
  <2> QED
    BY <2>1, <2>2 DEF Unread, Begins
<1>9. AtStrings(f, Len(handed) + 1, Len(strs))'
  <2>1. Len(strs') = 0 /\ pos' = pos /\ handed' = handed
    BY DEF BeginStructure
  <2>2. k <= Len(f.structs) /\ Len(handed') + 1 = k /\ pos' = f.starts[k]
    <3>1. k <= n
      BY <1>2, <1>5
    <3> QED
      BY <1>1, <1>4, <2>1, <3>1, Zenon
  <2> QED
    BY <1>7, <1>8, <2>1, <2>2 DEF AtStrings
<1>10. AllComplete(f)'
  <2>1. AllComplete(f)
    BY <1>1, <1>2, <1>3, <1>4 DEF BeginStructure, Walked
  <2> QED
    BY <2>1 DEF AllComplete, BeginStructure
<1> QED
  BY <1>9, <1>10 DEF Walked, BeginStructure

LEMMA EndWalkWalked ==
    ASSUME NEW f \in Firmware, WalkInv, Walked(f), EndWalk
    PROVE  Walked(f)'
<1>1. PICK n, k, p : n = Len(f.structs) /\ k = Len(handed) + 1 /\ p = pos
  OBVIOUS
<1>2. n \in Nat /\ k \in Nat /\ k >= 1 /\ k <= n + 1 /\ p \in Nat
  BY <1>1, FirmwareType, LenProperties DEF WalkInv, WalkType, Walked
<1>3. /\ Len(table) = f.size /\ f.size \in Nat
      /\ \A q \in 0 .. f.size - 1 : At(table, q) = At(f.bytes, q)
  BY TableIsCut DEF Walked
<1>4. ASSUME f.size = Len(f.bytes) PROVE Len(handed) = Len(f.structs)
  <2>1. p = f.starts[k]
    BY <1>1, <1>3, <1>4 DEF Walked, EndWalk
  <2>2. SUFFICES ASSUME k \in 1 .. n PROVE FALSE
    BY <1>1, <1>2
  <2>3. PICK l, z, d : /\ l = Len(f.structs[k].data) /\ z = LastZero(f, k)
                       /\ d = f.structs[k].data
    OBVIOUS
  <2>4. /\ p \in Nat /\ z \in Nat /\ p + l <= z /\ At(f.bytes, p + 1) = l
        /\ \E e : e = z + 2 /\ e <= Len(f.bytes)
    BY <1>1, <2>1, <2>2, <2>3, DataIsLaid, Zenon DEF DataLies
  <2>5. l \in Nat /\ l >= 4
    BY <1>1, <2>2, <2>3, FirmwareType, StructureType
  <2>6. p + 4 <= f.size /\ p + l <= f.size /\ p + 1 \in 0 .. f.size - 1
    BY <1>3, <1>4, <2>4, <2>5
  <2>7. At(table, p + 1) = l
    BY <1>3, <2>4, <2>6
  <2>8. HasStructure
    BY <1>1, <1>3, <2>5, <2>6, <2>7 DEF HasStructure, Length
  <2> QED
    BY <2>8 DEF EndWalk
<1> QED
  BY <1>4 DEF Walked, EndWalk

LEMMA ReadStringWalked ==
    ASSUME NEW f \in Firmware, WalkInv, Walked(f), ReadString
    PROVE  Walked(f)'
<1>1. PICK n, k, r, z, s : /\ n = Len(f.structs) /\ k = Len(handed) + 1 /\ r = Len(strs)
                           /\ z = NextZero(f, k, r) /\ s = scan
  OBVIOUS
<1>2. /\ n \in Nat /\ k \in 1 .. n /\ r \in Nat /\ s \in Nat
      /\ pos = f.starts[k] /\ s = StringStart(f, k, r + 1)
      /\ Unread(f, k, r) /\ Begins(strs, f.structs[k].strs)
  BY <1>1, FirmwareType, LenProperties
     DEF WalkInv, WalkType, Walked, ReadString, AtStrings
<1>3. /\ Len(table) = f.size /\ f.size \in Nat
      /\ \A q \in 0 .. f.size - 1 : At(table, q) = At(f.bytes, q)
  BY TableIsCut DEF Walked
<1>4. Min(Zeros) = z /\ z \in Nat /\ s <= z /\ z + 2 <= f.size /\ At(table, z + 1) # 0
  <2>1. Zeros # {} /\ At(table, Min(Zeros) + 1) # 0
    BY DEF ReadString, AtString
  <2>2. Min(Zeros) = z
    BY <1>1, <1>2, <2>1, ZeroFound DEF WalkInv, Walked
  <2> QED
    BY <1>1, <1>3, <2>1, <2>2, ZeroAhead DEF WalkInv
<1>5. At(f.bytes, z + 1) # 0
  <2>1. z + 1 \in 0 .. f.size - 1
    BY <1>3, <1>4
  <2> QED
    BY <1>3, <1>4, <2>1
<1>6. z # LastZero(f, k)
  BY <1>1, <1>2, <1>5, DataIsLaid, Zenon DEF DataLies
<1>7. /\ r + 1 < Len(f.structs[k].strs) /\ StringStart(f, k, r + 2) = z + 1
      /\ SubSeq(f.bytes, s + 1, z) = f.structs[k].strs[r + 1]
  <2>1. StringNext(f, k, r)
    BY <1>1, <1>2, StringIsNext
  <2>2. /\ r + 1 < Len(f.structs[k].strs)
        /\ StringStart(f, k, r + 2) = NextZero(f, k, r) + 1
        /\ SubSeq(f.bytes, StringStart(f, k, r + 1) + 1, NextZero(f, k, r))
              = f.structs[k].strs[r + 1]
    BY <1>1, <1>6, <2>1, Zenon DEF StringNext
  <2> QED
    BY <1>1, <1>2, <2>2, Zenon
<1>8. /\ scan' = z + 1 /\ strs' = Append(strs, f.structs[k].strs[r + 1])
  <2>1. SubSeq(table, s + 1, z) = SubSeq(f.bytes, s + 1, z)
    <3>1. z <= f.size
      BY <1>3, <1>4
    <3> QED
      BY <1>2, <1>4, <3>1, TableSlice DEF Walked
  <2> QED
    BY <1>1, <1>4, <1>7, <2>1 DEF ReadString
<1>9. Begins(strs', f.structs[k].strs) /\ Len(strs') = r + 1
  <2>1. strs \in Seq(Seq(Byte)) /\ f.structs[k].strs[r + 1] \in Seq(Byte)
    <3>1. SubSeq(table, scan + 1, Min(Zeros)) \in Seq(Byte)
      BY StringType DEF WalkInv, ReadString, AtString
    <3>2. SubSeq(table, scan + 1, Min(Zeros)) = SubSeq(f.bytes, s + 1, z)
      <4>1. z <= f.size
        BY <1>3, <1>4
      <4>2. SubSeq(table, s + 1, z) = SubSeq(f.bytes, s + 1, z)
        BY <1>2, <1>4, <4>1, TableSlice DEF Walked
      <4> QED
        BY <1>1, <1>4, <4>2, Zenon
    <3> QED
      BY <1>7, <3>1, <3>2 DEF WalkInv, WalkType
  <2>2. PICK t, u, v : t = strs /\ u = f.structs[k].strs /\ v = strs'
    OBVIOUS
  <2>3. /\ Len(v) = r + 1 /\ v[r + 1] = u[r + 1]
        /\ \A i \in 1 .. r : v[i] = t[i]
    BY <1>1, <1>8, <2>1, <2>2, AppendProperties
  <2>4. \A i \in 1 .. r : t[i] = u[i]
    BY <1>1, <1>2, <2>2 DEF Begins
  <2>5. Len(u) \in Nat
    BY <1>1, <1>2, <2>2, FirmwareType, StructureType
  <2>6. \A i \in 1 .. r + 1 : v[i] = u[i]
    BY <1>2, <2>3, <2>4
  <2> QED
    BY <1>2, <1>7, <2>2, <2>3, <2>5, <2>6 DEF Begins
<1>10. AtStrings(f, Len(handed) + 1, Len(strs))'
  <2>1. handed' = handed /\ pos' = pos
    BY DEF ReadString
  <2>2. Unread(f, k, r + 1) /\ (r + 1) + 1 = r + 2
    BY <1>2, <1>7 DEF Unread
  <2>3. k <= Len(f.structs)
    BY <1>1, <1>2
  <2> QED
    BY <1>1, <1>2, <1>7, <1>8, <1>9, <2>1, <2>2, <2>3 DEF AtStrings
<1>11. AllComplete(f)'
  BY DEF Walked, AllComplete, ReadString
<1> QED
  BY <1>10, <1>11 DEF Walked, ReadString

\* In the strings of structure k, whose data has the length that is read.
LEMMA InStrings ==
    ASSUME NEW f \in Firmware, WalkInv, Walked(f), stage = "strings",
           NEW k, k = Len(handed) + 1
    PROVE  /\ k \in 1 .. Len(f.structs) /\ Len(f.structs) \in Nat
           /\ pos = f.starts[k] /\ pos \in Nat
           /\ Length = Len(f.structs[k].data) /\ Length \in Nat
           /\ f.structs[k].data = SubSeq(table, pos + 1, pos + Length)
<1>1. PICK n, p, l : n = Len(f.structs) /\ p = pos /\ l = Length
  OBVIOUS
<1>2. n \in Nat /\ p \in Nat /\ Len(handed) \in Nat
  BY <1>1, FirmwareType, LenProperties DEF WalkInv, WalkType
<1>3. k \in 1 .. n /\ p = f.starts[k]
  BY <1>1, <1>2 DEF Walked, AtStrings
<1>4. /\ Len(table) = f.size /\ f.size \in Nat
      /\ \A q \in 0 .. f.size - 1 : At(table, q) = At(f.bytes, q)
  BY TableIsCut DEF Walked
<1>5. p + 4 <= f.size /\ p + l <= f.size /\ l \in Nat
  <2>1. p + 4 <= f.size /\ p + l <= f.size
    BY <1>1, <1>4 DEF WalkInv, InTable, HasStructure
  <2>2. Length \in 0 .. 255
    BY <1>1, <1>4, <2>1, LengthType DEF WalkInv
  <2> QED
    BY <1>1, <2>1, <2>2
<1>6. l = Len(f.structs[k].data)
  <2>1. DataLies(f, k)
    BY <1>1, <1>3, DataIsLaid
  <2>2. At(f.bytes, p + 1) = Len(f.structs[k].data)
    BY <1>3, <2>1, Zenon DEF DataLies
  <2>3. p + 1 \in 0 .. f.size - 1
    BY <1>2, <1>4, <1>5
  <2>4. At(table, p + 1) = At(f.bytes, p + 1)
    BY <1>4, <2>3
  <2> QED
    BY <1>1, <2>2, <2>4 DEF Length
<1>7. f.structs[k].data = SubSeq(table, p + 1, p + l)
  <2>1. PICK e : e = p + l
    OBVIOUS
  <2>2. e \in Nat /\ p <= e /\ e <= f.size
    BY <1>2, <1>5, <2>1
  <2>3. SubSeq(table, p + 1, e) = SubSeq(f.bytes, p + 1, e)
    BY <1>2, <2>2, TableSlice DEF Walked
  <2>4. DataLies(f, k)
    BY <1>1, <1>3, DataIsLaid
  <2>5. SubSeq(f.bytes, p + 1, p + l) = f.structs[k].data
    BY <1>3, <1>6, <2>4, Zenon DEF DataLies
  <2> QED
    BY <2>1, <2>3, <2>5, Zenon
<1> QED
  BY <1>1, <1>2, <1>3, <1>5, <1>6, <1>7

\* Where the inner loop stops, the next structure starts and all strings of this one
\* but the last are read, unless the cut is near.
LEMMA EndIsNext ==
    ASSUME NEW f \in Firmware, WalkInv, Walked(f), stage = "strings", ~AtString,
           NEW k, k = Len(handed) + 1
    PROVE  \/ /\ StringsEnd = f.starts[k + 1] /\ ~(StringsEnd <= pos + Length)
              /\ Complete(strs, f.structs[k].strs)
           \/ StringsEnd + 4 > f.size /\ f.size < Len(f.bytes)
<1>1. PICK r, z, n, y, s : /\ r = Len(strs) /\ z = NextZero(f, k, r) /\ n = f.size
                           /\ y = LastZero(f, k) /\ s = scan
  OBVIOUS
<1>2. /\ k \in 1 .. Len(f.structs) /\ r \in Nat /\ s \in Nat
      /\ s = StringStart(f, k, r + 1) /\ Unread(f, k, r)
  <2>1. k \in 1 .. Len(f.structs)
    BY InStrings
  <2> QED
    BY <1>1, <2>1, LenProperties DEF WalkInv, WalkType, Walked, AtStrings
<1>3. /\ Len(table) = n /\ n \in Nat /\ n <= Len(f.bytes) /\ Len(f.bytes) \in Nat
      /\ \A q \in 0 .. n - 1 : At(table, q) = At(f.bytes, q)
  BY <1>1, TableIsCut DEF Walked
<1>4. /\ z \in Nat /\ s <= z /\ z <= y
      /\ z # y => At(f.bytes, z + 1) # 0
      /\ z = y => r = WithoutLast(Len(f.structs[k].strs))
  <2>1. StringNext(f, k, r)
    BY <1>2, StringIsNext
  <2>2. /\ z \in Nat /\ StringStart(f, k, r + 1) <= z /\ z <= y
        /\ z # y => At(f.bytes, z + 1) # 0
    BY <1>1, <2>1, Zenon DEF StringNext
  <2>3. z = y => r = WithoutLast(Len(f.structs[k].strs))
    BY <1>1, <2>1, Zenon DEF StringNext
  <2> QED
    BY <1>2, <2>2, <2>3, Zenon
<1>5. /\ y \in Nat /\ f.starts[k + 1] = y + 2 /\ y + 2 <= Len(f.bytes)
      /\ pos + Length <= y
  <2>1. DataLies(f, k)
    BY <1>2, DataIsLaid
  <2>2. pos = f.starts[k] /\ Length = Len(f.structs[k].data)
    BY InStrings
  <2> QED
    BY <1>1, <2>1, <2>2, Zenon DEF DataLies
<1>6. pos \in Nat /\ Length \in Nat
  BY InStrings
<1>7. CASE Zeros # {}
  <2>1. Min(Zeros) = z
    BY <1>1, <1>2, <1>7, ZeroFound DEF WalkInv, Walked
  <2>2. z + 2 <= n /\ At(table, z + 1) = 0
    BY <1>3, <1>7, <2>1, ZeroAhead DEF WalkInv, AtString
  <2>3. z + 1 \in 0 .. n - 1
    BY <1>3, <1>4, <2>2
  <2>4. z = y
    BY <1>3, <1>4, <2>2, <2>3
  <2>5. StringsEnd = y + 2
    BY <1>7, <2>1, <2>4 DEF StringsEnd
  <2>6. Complete(strs, f.structs[k].strs)
    BY <1>1, <1>4, <2>4, Zenon DEF Complete
  <2>7. StringsEnd = f.starts[k + 1] /\ ~(StringsEnd <= pos + Length)
    BY <1>5, <1>6, <2>5
  <2> QED
    BY <2>6, <2>7
<1>8. CASE Zeros = {}
  <2>1. n < z + 2
    BY <1>1, <1>2, <1>8, ZeroFound DEF WalkInv, Walked
  <2>2. StringsEnd = IF s < n - 1 THEN n - 1 ELSE s
    BY <1>1, <1>3, <1>8 DEF StringsEnd
  <2>3. StringsEnd + 4 > n
    BY <1>2, <1>3, <2>2
  <2>4. n < Len(f.bytes)
    BY <1>3, <1>4, <1>5, <2>1
  <2> QED
    BY <1>1, <2>3, <2>4
<1> QED
  BY <1>7, <1>8

LEMMA EndStringsWalked ==
    ASSUME NEW f \in Firmware, WalkInv, Walked(f), EndStrings
    PROVE  Walked(f)'
<1>1. /\ stage = "strings" /\ scan' = StringsEnd /\ table' = table
      /\ reader' = reader /\ strs' = strs
      /\ \/ StringsEnd <= pos + Length /\ stage' = "done" /\ UNCHANGED << pos, handed, uuid, ram >>
         \/ ~(StringsEnd <= pos + Length) /\ \E s : HandOver(s)
  BY EndStringsCases
<1>2. PICK k, n : k = Len(handed) + 1 /\ n = Len(f.structs)
  OBVIOUS
<1>3. /\ k \in 1 .. n /\ n \in Nat
      /\ f.structs[k].data = SubSeq(table, pos + 1, pos + Length)
  BY <1>1, <1>2, InStrings
<1>4. \/ /\ StringsEnd = f.starts[k + 1] /\ ~(StringsEnd <= pos + Length)
         /\ Complete(strs, f.structs[k].strs)
      \/ StringsEnd + 4 > f.size /\ f.size < Len(f.bytes)
  <2>1. ~ AtString
    BY DEF EndStrings
  <2> QED
    BY <1>1, <1>2, <2>1, EndIsNext
<1>5. CASE StringsEnd <= pos + Length /\ stage' = "done" /\ UNCHANGED << pos, handed, uuid, ram >>
  <2>1. f.size # Len(f.bytes)
    <3>1. f.size \in Nat /\ Len(f.bytes) \in Nat
      BY FirmwareType
    <3> QED
      BY <1>4, <1>5, <3>1
  <2> QED
    BY <1>1, <1>5, <2>1 DEF Walked
<1>6. ASSUME NEW s, HandOver(s) PROVE Walked(f)'
  <2>1. /\ s.data = f.structs[k].data /\ Begins(s.strs, f.structs[k].strs) /\ s \in Given
        /\ s.strs = strs
    <3>1. s \in Given
      BY <1>1, <1>6, GivenType DEF HandOver
    <3>2. PICK d : d = SubSeq(table, pos + 1, pos + Length)
      OBVIOUS
    <3>3. s = [data |-> d, strs |-> strs]
      BY <1>6, <3>2, Zenon DEF HandOver
    <3>4. s.data = d /\ s.strs = strs
      BY <3>3
    <3>5. Begins(strs, f.structs[k].strs)
      BY <1>1, <1>2 DEF Walked, AtStrings
    <3> QED
      BY <1>3, <3>1, <3>2, <3>4, <3>5, Zenon
  <2>2. PICK h, g, m : h = handed /\ g = handed' /\ m = Len(handed)
    OBVIOUS
  <2>3. m \in Nat /\ Len(g) = m + 1 /\ g[m + 1] = s /\ \A i \in 1 .. m : g[i] = h[i]
    <3>1. h \in Seq(Given) /\ g = Append(h, s) /\ m = Len(h)
      BY <1>6, <2>2 DEF WalkInv, WalkType, HandOver
    <3>2. Grown(h, s, g, m)
      BY <2>1, <3>1, DevicesGrow
    <3> QED
      BY <3>2, Zenon DEF Grown
  <2>4. k = m + 1 /\ m + 1 <= n
    BY <1>2, <1>3, <2>2, <2>3
  <2>5. \A i \in 1 .. m + 1 : /\ g[i].data = f.structs[i].data
                              /\ Begins(g[i].strs, f.structs[i].strs)
    <3>1. \A i \in 1 .. m : /\ h[i].data = f.structs[i].data
                            /\ Begins(h[i].strs, f.structs[i].strs)
      BY <2>2 DEF Walked
    <3>2. /\ g[m + 1].data = f.structs[m + 1].data
          /\ Begins(g[m + 1].strs, f.structs[m + 1].strs)
      BY <2>1, <2>3, <2>4, Zenon
    <3>3. ASSUME NEW i \in 1 .. m + 1
          PROVE  g[i].data = f.structs[i].data /\ Begins(g[i].strs, f.structs[i].strs)
      <4>1. i \in 1 .. m \/ i = m + 1
        BY <2>3
      <4> QED
        BY <2>3, <3>1, <3>2, <4>1, Zenon
    <3> QED
      BY <3>3, Zenon
  <2>6. /\ table' = SubSeq(f.bytes, 1, f.size) /\ reader' = f.reader
        /\ Len(handed') <= Len(f.structs)
        /\ \A i \in 1 .. Len(handed') : /\ handed'[i].data = f.structs[i].data
                                        /\ Begins(handed'[i].strs, f.structs[i].strs)
    <3>1. table' = SubSeq(f.bytes, 1, f.size) /\ reader' = f.reader
      BY <1>1 DEF Walked
    <3> QED
      BY <1>2, <2>2, <2>3, <2>4, <2>5, <3>1, Zenon
  <2>7. \A i \in 1 .. m : Complete(g[i].strs, f.structs[i].strs)
    <3>1. \A i \in 1 .. m : Complete(h[i].strs, f.structs[i].strs)
      BY <1>1, <2>2 DEF Walked, AllComplete
    <3> QED
      BY <2>3, <3>1, Zenon
  <2>8. Complete(strs, f.structs[k].strs) => AllComplete(f)'
    <3>1. SUFFICES ASSUME Complete(strs, f.structs[k].strs), NEW i \in 1 .. m + 1
                   PROVE  Complete(g[i].strs, f.structs[i].strs)
      BY <2>2, <2>3, Zenon DEF AllComplete
    <3>2. i \in 1 .. m \/ i = m + 1
      BY <2>3
    <3>3. Complete(g[m + 1].strs, f.structs[m + 1].strs)
      BY <2>1, <2>3, <2>4, <3>1, Zenon
    <3> QED
      BY <2>7, <3>2, <3>3, Zenon
  <2>9. f.size # Len(f.bytes) \/ AllComplete(f)'
    <3>1. f.size \in Nat /\ Len(f.bytes) \in Nat
      BY FirmwareType
    <3>2. f.size < Len(f.bytes) => f.size # Len(f.bytes)
      BY <3>1
    <3> QED
      BY <1>4, <2>8, <3>2, Zenon
  <2>10. \A i \in 1 .. Len(handed') : i < Len(handed') \/ f.size = Len(f.bytes) =>
            Complete(handed'[i].strs, f.structs[i].strs)
    <3>1. SUFFICES ASSUME NEW i \in 1 .. m + 1, i < m + 1 \/ f.size = Len(f.bytes)
                   PROVE  Complete(g[i].strs, f.structs[i].strs)
      BY <2>2, <2>3, Zenon
    <3>2. CASE i < m + 1
      <4>1. i \in 1 .. m
        BY <2>3, <3>2
      <4> QED
        BY <2>7, <4>1, Zenon
    <3>3. CASE f.size = Len(f.bytes)
      BY <2>2, <2>3, <2>9, <3>3, Zenon DEF AllComplete
    <3> QED
      BY <3>1, <3>2, <3>3
  <2>11. CASE stage' = "structure" /\ pos' = scan'
    <3>1. \/ pos' = f.starts[Len(handed') + 1] /\ AllComplete(f)'
          \/ pos' + 4 > f.size /\ f.size < Len(f.bytes)
      BY <1>1, <1>4, <2>2, <2>3, <2>4, <2>11, <2>8, Zenon
    <3> QED
      BY <2>6, <2>11, <2>10, <3>1 DEF Walked
  <2>12. CASE stage' = "done" /\ uuid' # << >>
    BY <2>6, <2>12, <2>10 DEF Walked
  <2>13. (stage' = "structure" /\ pos' = scan') \/ (stage' = "done" /\ uuid' # << >>)
    <3>1. ASSUME IsSystem(s.data) PROVE RawUUID(s.data) # << >>
      BY <2>1, <3>1, RawUUIDType DEF Given
    <3> QED
      BY <1>6, <3>1 DEF HandOver, FindUUID, ListMemory
  <2> QED
    BY <2>11, <2>12, <2>13
<1> QED
  BY <1>1, <1>5, <1>6

LEMMA StartWalked ==
    ASSUME NEW f \in Firmware, StartWalk(SubSeq(f.bytes, 1, f.size), f.reader)
    PROVE  Walked(f)
<1>1. /\ table = SubSeq(f.bytes, 1, f.size) /\ reader = f.reader
      /\ stage = IF table = << >> THEN "done" ELSE "structure"
      /\ pos = 0 /\ handed = << >> /\ uuid = << >>
  BY DEF StartWalk
<1>2. PICK n : n = Len(f.structs)
  OBVIOUS
<1>3. /\ n \in Nat /\ f.starts[1] = 0 /\ f.starts[n + 1] = Len(f.bytes)
      /\ Len(handed) = 0
  BY <1>1, <1>2, FirmwareType
<1>4. Len(table) = f.size
  BY <1>1, TableIsCut
<1>5. ASSUME table = << >>, f.size = Len(f.bytes) PROVE n = 0
  <2>1. Len(f.bytes) = 0
    BY <1>4, <1>5
  <2>2. SUFFICES ASSUME n \in 1 .. n PROVE FALSE
    BY <1>3
  <2>3. DataLies(f, n)
    BY <1>2, <2>2, DataIsLaid
  <2>4. LastZero(f, n) \in Nat /\ f.starts[n + 1] = LastZero(f, n) + 2
    BY <2>3, Zenon DEF DataLies
  <2> QED
    BY <1>3, <2>1, <2>4
<1>6. /\ \A k \in 1 .. Len(handed) : FALSE
      /\ Len(handed) <= Len(f.structs) /\ stage # "strings"
      /\ stage = "structure" => pos = f.starts[Len(handed) + 1]
      /\ stage = "done" /\ f.size = Len(f.bytes) => Len(handed) = Len(f.structs)
  BY <1>1, <1>2, <1>3, <1>5
<1> QED
  BY <1>1, <1>6 DEF Walked, AllComplete

\* It holds of the firmware that is decoded.
InputWalked ==
    /\ input \in Input
    /\ input.of = "smbios" => \E f \in Firmware : f = input /\ Walked(f)

LEMMA InitWalked == DecoderInit => InputWalked
<1> SUFFICES ASSUME DecoderInit, input.of = "smbios"
             PROVE  \E f \in Firmware : f = input /\ Walked(f)
  BY DEF DecoderInit, InputWalked
<1>1. input \in Firmware
  BY InputKinds DEF DecoderInit
<1>2. PICK f \in Firmware : f = input
  BY <1>1
<1>3. StartWalk(RawTable(Answer(f.bytes, f.size)), f.reader)
  BY <1>2 DEF DecoderInit
<1>4. PICK b, n, t : b = f.bytes /\ n = f.size /\ t = SubSeq(f.bytes, 1, f.size)
  OBVIOUS
<1>5. b \in Seq(Byte) /\ n \in Nat /\ n <= Len(b) /\ t = SubSeq(b, 1, n)
  BY <1>4, FirmwareType
<1>6. RawTable(Answer(b, n)) = t
  BY <1>5, AnswerIs
<1>7. StartWalk(SubSeq(f.bytes, 1, f.size), f.reader)
  BY <1>3, <1>4, <1>6, Zenon
<1>8. Walked(f)
  BY <1>7, StartWalked
<1> QED
  BY <1>2, <1>8

LEMMA StepWalked == WalkInv /\ InputWalked /\ [DecoderNext]_decoderVars => InputWalked'
<1> SUFFICES ASSUME WalkInv, InputWalked, [DecoderNext]_decoderVars PROVE InputWalked'
  OBVIOUS
<1>1. input' = input
  BY DEF DecoderNext, decoderVars
<1>2. ASSUME NEW f \in Firmware, Walked(f) PROVE Walked(f)'
  <2>1. CASE BeginStructure
    BY <1>2, <2>1, BeginStructureWalked
  <2>2. CASE EndWalk
    BY <1>2, <2>2, EndWalkWalked
  <2>3. CASE ReadString
    BY <1>2, <2>3, ReadStringWalked
  <2>4. CASE EndStrings
    BY <1>2, <2>4, EndStringsWalked
  <2>5. CASE UNCHANGED decoderVars
    <3>1. UNCHANGED << table, reader, stage, pos, scan, strs, handed, uuid, ram >>
      BY <2>5 DEF decoderVars, walk
    <3> QED
      BY <1>2, <3>1 DEF Walked, AtStrings, AllComplete
  <2> QED
    BY <2>1, <2>2, <2>3, <2>4, <2>5 DEF DecoderNext, WalkStep
<1> QED
  BY <1>1, <1>2 DEF InputWalked

------------------------------------------------------------------------------
(* What the walk has decoded is what the firmware has.                      *)

\* The UUID that is found is that of the first structure that has one.
LEMMA FoundIsFirst ==
    ASSUME NEW f \in Firmware, f = input, WalkInv, Walked(f)
    PROVE  /\ uuid # << >> => MachineUUID = uuid
           /\ reader = "uuid" /\ uuid = << >> /\ Len(handed) = Len(f.structs) =>
                 MachineUUID = << >>
<1>1. PICK h, m, n : h = handed /\ m = Len(handed) /\ n = Len(f.structs)
  OBVIOUS
<1>2. /\ m \in Nat /\ n \in Nat /\ m <= n
      /\ \A k \in 1 .. m : h[k].data = f.structs[k].data
      /\ Systems = {k \in 1 .. n : IsSystem(f.structs[k].data)}
  BY <1>1, FirmwareType, LenProperties DEF WalkInv, WalkType, Walked, Systems
<1>3. ASSUME uuid # << >> PROVE MachineUUID = uuid
  <2>1. /\ m > 0 /\ reader = "uuid" /\ IsSystem(h[m].data) /\ uuid = RawUUID(h[m].data)
        /\ \A k \in 1 .. m : IsSystem(h[k].data) => k = m
    BY <1>1, <1>3 DEF WalkInv, UUIDFound
  <2>2. m \in 1 .. m /\ m \in 1 .. n
    BY <1>2, <2>1
  <2>3. m \in Systems /\ Systems \in SUBSET Nat /\ Systems # {}
    BY <1>2, <2>1, <2>2
  <2>4. Min(Systems) \in Systems /\ \A k \in Systems : Min(Systems) <= k
    BY <2>3, LeastOf
  <2>5. PICK k : k = Min(Systems)
    OBVIOUS
  <2>6. k \in 1 .. n /\ IsSystem(f.structs[k].data) /\ k <= m
    BY <1>2, <2>3, <2>4, <2>5
  <2>7. k \in 1 .. m
    BY <1>2, <2>6
  <2>8. k = m
    BY <1>2, <2>1, <2>6, <2>7
  <2> QED
    BY <1>2, <2>1, <2>2, <2>3, <2>5, <2>8 DEF MachineUUID
<1>4. ASSUME reader = "uuid", uuid = << >>, m = n PROVE MachineUUID = << >>
  <2>1. \A k \in 1 .. m : ~ IsSystem(h[k].data)
    BY <1>1, <1>4 DEF WalkInv, UUIDFound
  <2>2. Systems = {}
    BY <1>2, <1>4, <2>1
  <2> QED
    BY <2>2 DEF MachineUUID
<1> QED
  BY <1>1, <1>3, <1>4

LEMMA DecodedIsReal ==
    ASSUME NEW f \in Firmware, f = input, WalkInv, Walked(f)
    PROVE  SmbiosIsReal
<1>1. input.of = "smbios"
  BY FirmwareType
<1>2. PICK h, m, n : h = handed /\ m = Len(handed) /\ n = Len(f.structs)
  OBVIOUS
<1>3. /\ m \in Nat /\ n \in Nat /\ m <= n /\ DOMAIN handed = 1 .. m
      /\ DOMAIN ram = 1 .. Len(ram) /\ DOMAIN f.structs = 1 .. n
      /\ h \in Seq(Given)
  BY <1>2, FirmwareType, LenProperties DEF WalkInv, WalkType, Walked
<1>4. \A k \in 1 .. m : /\ h[k].data = f.structs[k].data
                        /\ Begins(h[k].strs, f.structs[k].strs)
  BY <1>2 DEF Walked
<1>5. ASSUME NEW k \in 1 .. m PROVE IsPrefix(h[k].strs, f.structs[k].strs)
  <2>1. h[k] \in Given /\ f.structs[k] \in Structure
    BY <1>2, <1>3, ElementOfSeq, FirmwareType
  <2>2. PICK s, t : s = h[k].strs /\ t = f.structs[k].strs
    OBVIOUS
  <2>3. s \in Seq(Seq(Byte)) /\ t \in Seq(Text) /\ Begins(s, t)
    BY <1>4, <2>1, <2>2, StructureType DEF Given
  <2>4. IsPrefix(s, t)
    BY <2>3, BeginsIsPrefix
  <2> QED
    BY <2>2, <2>4, Zenon
<1>6. uuid # << >> => MachineUUID = uuid
  BY FoundIsFirst
<1>7. PlatformUUID # << >> => MachineUUID # << >> /\ PlatformUUID = Printed(MachineUUID)
  BY <1>6 DEF PlatformUUID
<1>8. ASSUME reader = "memory"
      PROVE  /\ Len(ram) = DevicePlace(Len(handed))
             /\ \A k \in DOMAIN handed : IsDevice(handed[k].data) =>
                   ram[DevicePlace(k)].sizeKB = SizeKB(input.structs[k].data)
  <2>1. \A k : DevicePlace(k) = PlaceOf(handed, k)
    BY Zenon DEF DevicePlace, PlaceOf, DevicesUpTo
  <2>2. /\ Len(ram) = Cardinality(DevicesOf(handed))
        /\ \A k \in DevicesOf(handed) :
              ram[PlaceOf(handed, k)].sizeKB = SizeKB(handed[k].data)
    BY <1>8, Zenon DEF WalkInv, MemoryListed
  <2>3. Len(ram) = DevicePlace(Len(handed))
    BY <2>1, <2>2, Zenon DEF DevicesOf, PlaceOf
  <2>4. ASSUME NEW k \in DOMAIN handed, IsDevice(handed[k].data)
        PROVE  ram[DevicePlace(k)].sizeKB = SizeKB(input.structs[k].data)
    <3>1. k \in DevicesOf(handed)
      BY <1>2, <1>3, <2>4 DEF DevicesOf, DevicesUpTo
    <3>2. handed[k].data = input.structs[k].data
      BY <1>2, <1>3, <1>4, Zenon
    <3> QED
      BY <2>1, <2>2, <3>1, <3>2, Zenon
  <2> QED
    BY <2>3, <2>4
<1>9. ASSUME NEW k \in DOMAIN handed, Whole \/ k < Len(handed)
      PROVE  Len(handed[k].strs) = WithoutLast(Len(input.structs[k].strs))
  <2>1. k \in 1 .. Len(handed) /\ (k < Len(handed) \/ f.size = Len(f.bytes))
    BY <1>2, <1>3, <1>9 DEF Whole
  <2>2. Complete(handed[k].strs, f.structs[k].strs)
    BY <2>1, Zenon DEF Walked
  <2> QED
    BY <2>2 DEF Complete
<1>10. ASSUME stage = "done", Whole
       PROVE  /\ reader = "memory" => Len(handed) = Len(input.structs)
              /\ reader = "uuid" /\ Usable(MachineUUID) => PlatformUUID = Printed(MachineUUID)
  <2>1. Len(handed) = Len(f.structs) \/ uuid # << >>
    BY <1>10 DEF Whole, Walked
  <2>2. reader = "memory" => uuid = << >>
    BY DEF WalkInv, UUIDFound
  <2>3. ASSUME reader = "uuid", Usable(MachineUUID) PROVE PlatformUUID = Printed(MachineUUID)
    <3>1. uuid # << >>
      BY <2>1, <2>3, FoundIsFirst DEF Usable
    <3> QED
      BY <1>6, <2>3, <3>1 DEF PlatformUUID, Usable
  <2> QED
    BY <2>1, <2>2, <2>3
<1>11. \A k \in DOMAIN handed :
          /\ handed[k].data = input.structs[k].data
          /\ IsPrefix(handed[k].strs, input.structs[k].strs)
          /\ Whole \/ k < Len(handed) =>
                Len(handed[k].strs) = WithoutLast(Len(input.structs[k].strs))
  BY <1>2, <1>3, <1>4, <1>5, <1>9, Zenon
<1>12. Len(handed) <= Len(input.structs)
  BY <1>2, <1>3, Zenon
<1>13. input.of # "size"
  BY <1>1
<1> QED
  BY <1>7, <1>8, <1>9, <1>10, <1>11, <1>12, <1>13, Zenon DEF SmbiosIsReal

\* However short the table is cut, what is decoded is the beginning of what the firmware
\* has: the structures in order, each with its data and all its strings but the last, the
\* one at the cut excepted, which may have lost more; the UUID of the machine or none; the
\* memory devices in order, each once and with its own size.  If nothing is cut, no
\* structure and no usable UUID is missing.  A size is read back from whatever unit it is
\* stored in (smbios_windows.go:61-113, fingerprint_windows.go:11-61,
\* hw_detail_windows.go:486-568).
THEOREM DecodedIsFirmware == DecoderSpec => []SmbiosIsReal
<1>1. WalkInv /\ InputWalked => SmbiosIsReal
  <2> SUFFICES ASSUME WalkInv, InputWalked PROVE SmbiosIsReal
    OBVIOUS
  <2>1. CASE input.of = "smbios"
    <3>1. PICK f \in Firmware : f = input /\ Walked(f)
      BY <2>1 DEF InputWalked
    <3> QED
      BY <3>1, DecodedIsReal
  <2>2. CASE input.of # "smbios"
    <3>1. ASSUME input.of = "size" PROVE SizeKB(MemoryDevice(input.kb)) = input.kb
      <4>1. input.kb \in Nat /\ (input.kb % 1024 = 0 \/ input.kb < 32767)
        BY <3>1, InputKinds, SMT DEF InputWalked, MemorySize
      <4>2. PICK kb : kb = input.kb
        OBVIOUS
      <4>3. kb \in Nat /\ (kb % 1024 = 0 \/ kb < 32767)
        BY <4>1, <4>2, SMT
      <4>4. SizeKB(MemoryDevice(kb)) = kb
        BY <4>3, DeviceSize, SMT
      <4> QED
        BY <4>2, <4>4
    <3> QED
      BY <2>2, <3>1 DEF SmbiosIsReal
  <2> QED
    BY <2>1, <2>2
<1> QED
  BY <1>1, InitInv, StepInv, InitWalked, StepWalked, PTL DEF DecoderSpec

------------------------------------------------------------------------------
(* The walk ends.                                                           *)

\* What is left of the table: a structure counts once more before its strings.
Left == CASE stage = "structure" -> 2 * (Len(table) - pos) + 1
          [] stage = "strings" -> 2 * (Len(table) - scan) + 2
          [] stage = "done" -> 0

Consumes == Left \in Nat /\ Left' \in Nat /\ Left' < Left

LEMMA BehindScan ==
    ASSUME WalkType, InTable, stage = "strings"
    PROVE  scan <= StringsEnd
<1>1. Len(table) \in Nat /\ scan \in Nat
  BY LenProperties DEF WalkType
<1>2. CASE Zeros # {}
  <2>1. Min(Zeros) \in Nat /\ scan <= Min(Zeros)
    BY <1>2, ZeroAhead
  <2> QED
    BY <1>1, <1>2, <2>1 DEF StringsEnd
<1>3. CASE Zeros = {}
  <2>1. StringsEnd = IF scan < Len(table) - 1 THEN Len(table) - 1 ELSE scan
    BY <1>3 DEF StringsEnd
  <2> QED
    BY <1>1, <2>1
<1> QED
  BY <1>2, <1>3

LEMMA EveryStepConsumes ==
    ASSUME WalkInv, WalkStep
    PROVE  Consumes
<1>1. PICK n, p, s : n = Len(table) /\ p = pos /\ s = scan
  OBVIOUS
<1>2. n \in Nat /\ p \in Nat /\ s \in Nat /\ p <= n
  BY <1>1, LenProperties DEF WalkInv, WalkType, InTable
<1>3. CASE BeginStructure
  <2>1. PICK l : l = Length
    OBVIOUS
  <2>2. l >= 4 /\ p + l <= n /\ scan' = p + l /\ p + 4 <= n
    BY <1>1, <1>3, <2>1 DEF BeginStructure, HasStructure
  <2>3. l \in Nat
    <3>1. Length \in 0 .. 255
      BY <1>1, <2>2, LengthType DEF WalkInv
    <3> QED
      BY <2>1, <3>1
  <2>4. Left = 2 * (n - p) + 1 /\ Left' = 2 * (n - (p + l)) + 2
    BY <1>1, <1>3, <2>2 DEF Left, BeginStructure
  <2> QED
    BY <1>2, <2>2, <2>3, <2>4 DEF Consumes
<1>4. CASE EndWalk
  <2>1. Left = 2 * (n - p) + 1 /\ Left' = 0
    BY <1>1, <1>4 DEF Left, EndWalk
  <2> QED
    BY <1>2, <2>1 DEF Consumes
<1>5. CASE ReadString
  <2>1. PICK z : z = Min(Zeros)
    OBVIOUS
  <2>2. z \in Nat /\ s <= z /\ z + 2 <= n
    BY <1>1, <1>5, <2>1, ZeroAhead DEF WalkInv, ReadString, AtString
  <2>3. Left = 2 * (n - s) + 2 /\ Left' = 2 * (n - (z + 1)) + 2
    BY <1>1, <1>5, <2>1 DEF Left, ReadString
  <2> QED
    BY <1>2, <2>2, <2>3 DEF Consumes
<1>6. CASE EndStrings
  <2>1. PICK e : e = StringsEnd
    OBVIOUS
  <2>2. stage = "strings"
    BY <1>6 DEF EndStrings
  <2>3. e \in Nat /\ e <= n /\ s <= e /\ s <= n
    BY <1>1, <2>1, <2>2, BehindScan, EndOfStrings DEF WalkInv, InTable
  <2>4. Left = 2 * (n - s) + 2
    BY <1>1, <2>2 DEF Left
  <2>5. stage' = "done" \/ (stage' = "structure" /\ pos' = e /\ table' = table)
    BY <1>6, <2>1, EndStringsCases DEF HandOver, FindUUID, ListMemory
  <2>6. CASE stage' = "done"
    <3>1. Left' = 0
      BY <2>6 DEF Left
    <3> QED
      BY <1>2, <2>3, <2>4, <3>1 DEF Consumes
  <2>7. CASE stage' = "structure" /\ pos' = e /\ table' = table
    <3>1. Left' = 2 * (n - e) + 1
      BY <1>1, <2>7 DEF Left
    <3> QED
      BY <1>2, <2>3, <2>4, <3>1 DEF Consumes
  <2> QED
    BY <2>5, <2>6, <2>7
<1> QED
  BY <1>3, <1>4, <1>5, <1>6 DEF WalkStep

\* Whatever the bytes are, the two loops of the walk never stand still nor go back, so
\* that they end (smbios_windows.go:61-113).
THEOREM WalkEnds == DecoderSpec => [][Consumes]_decoderVars
<1>1. WalkInv /\ [DecoderNext]_decoderVars => [Consumes]_decoderVars
  BY EveryStepConsumes DEF DecoderNext
<1> QED
  BY <1>1, InitInv, StepInv, PTL DEF DecoderSpec

------------------------------------------------------------------------------
(* What is decoded without a walk.                                          *)

LEMMA InputStays == DecoderSpec => [](input \in Input)
<1>1. DecoderInit => input \in Input
  BY DEF DecoderInit
<1>2. input \in Input /\ [DecoderNext]_decoderVars => (input \in Input)'
  BY DEF DecoderNext, decoderVars
<1> QED
  BY <1>1, <1>2, PTL DEF DecoderSpec

\* Unless the table grew or the time ran out, every socket that listens or is connected
\* is reported, once, with its process and its state, and never one that is not there,
\* whatever the tables hold (net_snap_windows.go:31-120).
THEOREM RowsAreReported == DecoderSpec => []RowsAreKept
<1>1. input \in Input => RowsAreKept
  <2> SUFFICES ASSUME input \in Input PROVE RowsAreKept
    OBVIOUS
  <2>1. CASE input.of = "connections"
    BY <2>1, InputKinds, ConnectionsAreKept
  <2>2. CASE input.of # "connections"
    BY <2>2, Zenon DEF RowsAreKept
  <2> QED
    BY <2>1, <2>2
<1> QED
  BY <1>1, InputStays, PTL

\* Whatever length is written is read back whole, by either reader, and a value of the
\* buffer gives back its data type and payload but for the two lengths at which the
\* decoder's uint16 wraps (websocket.go:167-240, ws_client.go:99-148,
\* data_buffer.go:87-95, 263-274).
THEOREM LengthsAreKept == DecoderSpec => []LengthsRoundTrip
<1>1. input \in Input => LengthsRoundTrip
  <2> SUFFICES ASSUME input \in Input PROVE LengthsRoundTrip
    OBVIOUS
  <2>1. CASE input.of = "frame" \/ input.of = "value"
    <3>1. input \in Frame \/ input \in Value
      BY <2>1, InputKinds
    <3> QED
      BY <3>1, LengthsKept, Zenon
  <2>2. CASE input.of # "frame" /\ input.of # "value"
    BY <2>2, Zenon DEF LengthsRoundTrip
  <2> QED
    BY <2>1, <2>2
<1> QED
  BY <1>1, InputStays, PTL
============================================================================
