------------------------- MODULE MsgPackProofs -------------------------
(***************************************************************************)
(* What the writers of MessagePack and of its LZ4 envelopes write, the     *)
(* readers read, wherever in a file it stands; and a reader of any file    *)
(* stays inside of it and unpacks no more than the code allows.            *)
(***************************************************************************)
EXTENDS Lz4, Induction, SequenceTheorems, TLAPS

\* The bytes e are in the file f from p on.
Stands(f, p, e) ==
  /\ p \in Nat \ {0}
  /\ p + Len(e) - 1 <= Len(f)
  /\ \A i \in 1 .. Len(e) : f[p + i - 1] = e[i]

LEMMA EightBytes ==
  ASSUME NEW v \in Word64
  PROVE  v = <<v[1], v[2], v[3], v[4], v[5], v[6], v[7], v[8]>> /\ \A i \in 1 .. 8 : v[i] \in 0 .. 255
BY DEF Word64, Byte

\* A number of n bytes behind an unsigned and behind a signed marker.
LEMMA UnsignedForm ==
  ASSUME NEW f \in Seq(Byte), NEW p \in 1 .. Len(f), NEW n \in {1, 2, 4, 8}, NEW v \in Word64,
         Zeros(v, 8 - n), f[p] \in 204 .. 207, Width(f[p]) = n, p + n <= Len(f),
         \A i \in 9 - n .. 8 : f[p + i + n - 8] = v[i]
  PROVE  ReadInteger(f, p) = [ok |-> TRUE, sign |-> "+", v |-> v, p |-> p + 1 + n]
<1>1. Extended(f, p, n, 0) = v
  <2>1. \A i \in 1 .. 8 : Extended(f, p, n, 0)[i] = v[i]
    BY DEF Extended, Zeros
  <2>. QED
    BY <2>1 DEF Extended, Word64
<1>2. ~(p > Len(f)) /\ ~(f[p] <= 127) /\ ~(f[p] >= 224) /\ ~(n = 0 \/ p + n > Len(f)) /\ f[p] <= 207
  OBVIOUS
<1>. QED
  BY <1>1, <1>2 DEF ReadInteger

LEMMA SignedForm ==
  ASSUME NEW f \in Seq(Byte), NEW p \in 1 .. Len(f), NEW n \in {1, 2, 4, 8}, NEW v \in Word64,
         Ones(v, 8 - n), v[9 - n] >= 128, f[p] \in 208 .. 211, Width(f[p]) = n, p + n <= Len(f),
         \A i \in 9 - n .. 8 : f[p + i + n - 8] = v[i]
  PROVE  ReadInteger(f, p) = [ok |-> TRUE, sign |-> "-", v |-> v, p |-> p + 1 + n]
<1>0. f[p + 1] = v[9 - n]
  <2>1. 9 - n \in 9 - n .. 8 /\ p + (9 - n) + n - 8 = p + 1
    OBVIOUS
  <2>. QED
    BY <2>1
<1>1. Extended(f, p, n, SignOf(f[p + 1])) = v
  <2>1. SignOf(f[p + 1]) = 255
    BY <1>0 DEF SignOf
  <2>2. \A i \in 1 .. 8 : Extended(f, p, n, 255)[i] = v[i]
    BY DEF Extended, Ones
  <2>3. Extended(f, p, n, 255) = v
    BY <2>2 DEF Extended, Word64
  <2>. QED
    BY <2>1, <2>3
<1>2. ~(p > Len(f)) /\ ~(f[p] <= 127) /\ ~(f[p] >= 224) /\ ~(n = 0 \/ p + n > Len(f)) /\ ~(f[p] <= 207) /\ (f[p + 1] >= 128) = TRUE
  BY <1>0
<1>. QED
  BY <1>1, <1>2, ZenonT(60) DEF ReadInteger

\* A number that is its own marker.
LEMMA PositiveFixForm ==
  ASSUME NEW f \in Seq(Byte), NEW p \in 1 .. Len(f), NEW v \in Word64, f[p] = v[8], Zeros(v, 7), v[8] <= 127
  PROVE  ReadInteger(f, p) = [ok |-> TRUE, sign |-> "+", v |-> v, p |-> p + 1]
<1>1. v = <<0, 0, 0, 0, 0, 0, 0, f[p]>>
  BY EightBytes DEF Zeros
<1>. QED
  BY <1>1 DEF ReadInteger

LEMMA LargeBytes == \A x \in 0 .. 255 : x >= 224 => x >= 128 /\ ~(x <= 127)
OBVIOUS

LEMMA LastByte ==
  ASSUME NEW v \in Word64
  PROVE  v[8] >= 224 => v[8] >= 128
BY EightBytes, LargeBytes

LEMMA NegativeFixForm ==
  ASSUME NEW f \in Seq(Byte), NEW p \in 1 .. Len(f), NEW v \in Word64, f[p] = v[8], Ones(v, 7), v[8] >= 224
  PROVE  ReadInteger(f, p) = [ok |-> TRUE, sign |-> "-", v |-> v, p |-> p + 1]
<1>1. v = <<255, 255, 255, 255, 255, 255, 255, f[p]>>
  BY EightBytes DEF Ones
<1>0. v[8] \in 0 .. 255
  BY EightBytes
<1>2. ~(v[8] <= 127)
  BY <1>0, LargeBytes
<1>3. ~(p > Len(f))
  OBVIOUS
<1>. QED
  BY <1>1, <1>2, <1>3 DEF ReadInteger

\* Every unsigned number is read as it was written, whatever follows it.
LEMMA UnsignedRoundTrip ==
  ASSUME NEW f \in Seq(Byte), NEW p \in Nat, NEW v \in Word64, Stands(f, p, AppendUInt64(v))
  PROVE  ReadInteger(f, p) = [ok |-> TRUE, sign |-> "+", v |-> v, p |-> p + Len(AppendUInt64(v))]
<1>. DEFINE e == AppendUInt64(v)
<1>0. /\ p \in Nat \ {0} /\ p + Len(e) - 1 <= Len(f)
      /\ \A i \in 1 .. Len(e) : f[p + i - 1] = e[i]
      /\ \A i \in 1 .. 8 : v[i] \in 0 .. 255
  BY EightBytes DEF Stands
<1>1. CASE Zeros(v, 7) /\ v[8] <= 127
  <2>1. e = <<v[8]>> /\ Len(e) = 1
    BY <1>1 DEF AppendUInt64
  <2>2. p \in 1 .. Len(f) /\ f[p] = v[8]
    <3>1. f[p + 1 - 1] = e[1]
      BY <1>0, <2>1
    <3>. QED
      BY <1>0, <2>1, <3>1
  <2>. QED
    BY <1>1, <2>1, <2>2, PositiveFixForm
<1>2. CASE Zeros(v, 7) /\ ~(v[8] <= 127)
  <2>1. e = <<204, v[8]>> /\ Len(e) = 2
    BY <1>2 DEF AppendUInt64
  <2>2. f[p + 1 - 1] = 204 /\ f[p + 2 - 1] = v[8]
    BY <1>0, <2>1
  <2>3. p \in 1 .. Len(f) /\ p + 1 <= Len(f) /\ f[p] = 204 /\ \A i \in 9 - 1 .. 8 : f[p + i + 1 - 8] = v[i]
    BY <1>0, <2>1, <2>2
  <2>4. Width(204) = 1
    BY DEF Width
  <2>. QED
    BY <1>2, <2>1, <2>3, <2>4, UnsignedForm
<1>3. CASE ~Zeros(v, 7) /\ Zeros(v, 6)
  <2>1. e = <<205, v[7], v[8]>> /\ Len(e) = 3
    BY <1>3 DEF AppendUInt64
  <2>2. f[p + 1 - 1] = 205 /\ f[p + 2 - 1] = v[7] /\ f[p + 3 - 1] = v[8]
    BY <1>0, <2>1
  <2>3. p \in 1 .. Len(f) /\ p + 2 <= Len(f) /\ f[p] = 205 /\ \A i \in 9 - 2 .. 8 : f[p + i + 2 - 8] = v[i]
    BY <1>0, <2>1, <2>2
  <2>4. Width(205) = 2
    BY DEF Width
  <2>. QED
    BY <1>3, <2>1, <2>3, <2>4, UnsignedForm
<1>4. CASE ~Zeros(v, 6) /\ Zeros(v, 4)
  <2>1. e = <<206, v[5], v[6], v[7], v[8]>> /\ Len(e) = 5
    BY <1>4 DEF AppendUInt64, Zeros
  <2>2. f[p + 1 - 1] = 206 /\ f[p + 2 - 1] = v[5] /\ f[p + 3 - 1] = v[6] /\ f[p + 4 - 1] = v[7] /\ f[p + 5 - 1] = v[8]
    BY <1>0, <2>1, SMTT(60)
  <2>3. p \in 1 .. Len(f) /\ p + 4 <= Len(f) /\ f[p] = 206 /\ \A i \in 9 - 4 .. 8 : f[p + i + 4 - 8] = v[i]
    BY <1>0, <2>1, <2>2, SMTT(60)
  <2>4. Width(206) = 4
    BY DEF Width
  <2>. QED
    BY <1>4, <2>1, <2>3, <2>4, UnsignedForm
<1>5. CASE ~Zeros(v, 4)
  <2>1. e = <<207, v[1], v[2], v[3], v[4], v[5], v[6], v[7], v[8]>> /\ Len(e) = 9
    BY <1>5 DEF AppendUInt64, Zeros
  <2>2. \A i \in 1 .. 9 : f[p + i - 1] = e[i]
    BY <1>0, <2>1
  <2>3. f[p] = 207
    <3>1. f[p + 1 - 1] = e[1]
      BY <2>2
    <3>. QED
      BY <1>0, <2>1, <3>1
  <2>4. \A i \in 1 .. 8 : e[i + 1] = v[i]
    BY <2>1
  <2>5. \A i \in 9 - 8 .. 8 : f[p + i + 8 - 8] = v[i]
    <3>0. 9 - 8 = 1
      OBVIOUS
    <3>. SUFFICES ASSUME NEW i \in 1 .. 8 PROVE f[p + i + 8 - 8] = v[i]
      BY <3>0
    <3>1. i + 1 \in 1 .. 9 /\ p + (i + 1) - 1 = p + i + 8 - 8
      BY <1>0
    <3>2. f[p + (i + 1) - 1] = e[i + 1]
      BY <2>2, <3>1
    <3>. QED
      BY <2>4, <3>1, <3>2
  <2>6. p \in 1 .. Len(f) /\ p + 8 <= Len(f)
    BY <1>0, <2>1, SMTT(60)
  <2>7. Width(f[p]) = 8 /\ Zeros(v, 8 - 8) /\ f[p] \in 204 .. 207 /\ 8 \in {1, 2, 4, 8}
    BY <2>3 DEF Width, Zeros
  <2>8. ReadInteger(f, p) = [ok |-> TRUE, sign |-> "+", v |-> v, p |-> p + 1 + 8]
    BY <2>5, <2>6, <2>7, UnsignedForm
  <2>9. p + 1 + 8 = p + 9
    BY <2>6
  <2>. QED
    BY <2>1, <2>8, <2>9
<1>. QED
  BY <1>1, <1>2, <1>3, <1>4, <1>5
\* So is every negative number.
LEMMA NegativeRoundTrip ==
  ASSUME NEW f \in Seq(Byte), NEW p \in Nat, NEW v \in Word64, Negative(v), Stands(f, p, AppendNegative(v))
  PROVE  ReadInteger(f, p) = [ok |-> TRUE, sign |-> "-", v |-> v, p |-> p + Len(AppendNegative(v))]
<1>. DEFINE e == AppendNegative(v)
<1>0. /\ p \in Nat \ {0} /\ p + Len(e) - 1 <= Len(f)
      /\ \A i \in 1 .. Len(e) : f[p + i - 1] = e[i]
      /\ \A i \in 1 .. 8 : v[i] \in 0 .. 255
  BY EightBytes DEF Stands
<1>1. CASE Ones(v, 7) /\ v[8] >= 224
  <2>1. e = <<v[8]>> /\ Len(e) = 1
    BY <1>1 DEF AppendNegative
  <2>2. p \in 1 .. Len(f) /\ f[p] = v[8]
    <3>1. f[p + 1 - 1] = e[1]
      BY <1>0, <2>1
    <3>. QED
      BY <1>0, <2>1, <3>1
  <2>. QED
    BY <1>1, <2>1, <2>2, NegativeFixForm
<1>2. CASE Ones(v, 7) /\ ~(v[8] >= 224) /\ v[8] >= 128
  <2>1. e = <<208, v[8]>> /\ Len(e) = 2
    BY <1>2 DEF AppendNegative
  <2>2. f[p + 1 - 1] = 208 /\ f[p + 2 - 1] = v[8]
    BY <1>0, <2>1
  <2>3. p \in 1 .. Len(f) /\ p + 1 <= Len(f) /\ f[p] = 208 /\ \A i \in 9 - 1 .. 8 : f[p + i + 1 - 8] = v[i]
    BY <1>0, <2>1, <2>2
  <2>4. Width(208) = 1
    BY DEF Width
  <2>. QED
    BY <1>2, <2>1, <2>3, <2>4, SignedForm
<1>3. CASE ~(Ones(v, 7) /\ v[8] >= 128) /\ Ones(v, 6) /\ v[7] >= 128
  <2>1. e = <<209, v[7], v[8]>> /\ Len(e) = 3
    <3>0. v[8] >= 224 => v[8] >= 128
      BY LastByte
    <3>1. ~(Ones(v, 7) /\ v[8] >= 224)
      BY <1>3, <3>0
    <3>. QED
      BY <1>3, <3>1 DEF AppendNegative
  <2>2. f[p + 1 - 1] = 209 /\ f[p + 2 - 1] = v[7] /\ f[p + 3 - 1] = v[8]
    BY <1>0, <2>1
  <2>3. p \in 1 .. Len(f) /\ p + 2 <= Len(f) /\ f[p] = 209 /\ \A i \in 9 - 2 .. 8 : f[p + i + 2 - 8] = v[i]
    BY <1>0, <2>1, <2>2
  <2>4. Width(209) = 2
    BY DEF Width
  <2>. QED
    BY <1>3, <2>1, <2>3, <2>4, SignedForm
<1>4. CASE ~(Ones(v, 6) /\ v[7] >= 128) /\ Ones(v, 4) /\ v[5] >= 128
  <2>1. e = <<210, v[5], v[6], v[7], v[8]>> /\ Len(e) = 5
    BY <1>4 DEF AppendNegative, Ones
  <2>2. f[p + 1 - 1] = 210 /\ f[p + 2 - 1] = v[5] /\ f[p + 3 - 1] = v[6] /\ f[p + 4 - 1] = v[7] /\ f[p + 5 - 1] = v[8]
    BY <1>0, <2>1, SMTT(60)
  <2>3. p \in 1 .. Len(f) /\ p + 4 <= Len(f) /\ f[p] = 210 /\ \A i \in 9 - 4 .. 8 : f[p + i + 4 - 8] = v[i]
    BY <1>0, <2>1, <2>2, SMTT(60)
  <2>4. Width(210) = 4
    BY DEF Width
  <2>. QED
    BY <1>4, <2>1, <2>3, <2>4, SignedForm
<1>5. CASE ~(Ones(v, 4) /\ v[5] >= 128)
  <2>1. e = <<211, v[1], v[2], v[3], v[4], v[5], v[6], v[7], v[8]>> /\ Len(e) = 9
    BY <1>5 DEF AppendNegative, Ones
  <2>2. \A i \in 1 .. 9 : f[p + i - 1] = e[i]
    BY <1>0, <2>1
  <2>3. f[p] = 211
    <3>1. f[p + 1 - 1] = e[1]
      BY <2>2
    <3>. QED
      BY <1>0, <2>1, <3>1
  <2>4. \A i \in 1 .. 8 : e[i + 1] = v[i]
    BY <2>1
  <2>5. \A i \in 9 - 8 .. 8 : f[p + i + 8 - 8] = v[i]
    <3>0. 9 - 8 = 1
      OBVIOUS
    <3>. SUFFICES ASSUME NEW i \in 1 .. 8 PROVE f[p + i + 8 - 8] = v[i]
      BY <3>0
    <3>1. i + 1 \in 1 .. 9 /\ p + (i + 1) - 1 = p + i + 8 - 8
      BY <1>0
    <3>2. f[p + (i + 1) - 1] = e[i + 1]
      BY <2>2, <3>1
    <3>. QED
      BY <2>4, <3>1, <3>2
  <2>6. p \in 1 .. Len(f) /\ p + 8 <= Len(f)
    BY <1>0, <2>1, SMTT(60)
  <2>7. Width(f[p]) = 8 /\ Ones(v, 8 - 8) /\ f[p] \in 208 .. 211 /\ 8 \in {1, 2, 4, 8} /\ v[9 - 8] >= 128
    <3>1. 9 - 8 = 1
      OBVIOUS
    <3>. QED
      BY <2>3, <3>1 DEF Width, Ones, Negative
  <2>8. ReadInteger(f, p) = [ok |-> TRUE, sign |-> "-", v |-> v, p |-> p + 1 + 8]
    BY <2>5, <2>6, <2>7, SignedForm
  <2>9. p + 1 + 8 = p + 9
    BY <2>6
  <2>. QED
    BY <2>1, <2>8, <2>9
<1>. QED
  BY <1>1, <1>2, <1>3, <1>4, <1>5

\* Whatever UInt64 is written anywhere in a file is read back, and the reader
\* goes on right behind it.
THEOREM UInt64RoundTrip ==
  ASSUME NEW f \in Seq(Byte), NEW p \in Nat, NEW v \in Word64, Stands(f, p, AppendUInt64(v))
  PROVE  /\ ReadUInt64(f, p).ok
         /\ ReadUInt64(f, p).v = v
         /\ ReadUInt64(f, p).p = p + Len(AppendUInt64(v))
<1>1. ReadInteger(f, p) = [ok |-> TRUE, sign |-> "+", v |-> v, p |-> p + Len(AppendUInt64(v))]
  BY UnsignedRoundTrip
<1>. QED
  BY <1>1 DEF ReadUInt64

\* The same of every Int64.
THEOREM Int64RoundTrip ==
  ASSUME NEW f \in Seq(Byte), NEW p \in Nat, NEW v \in Word64, Stands(f, p, AppendInt64(v))
  PROVE  /\ ReadInt64(f, p).ok
         /\ ReadInt64(f, p).v = v
         /\ ReadInt64(f, p).p = p + Len(AppendInt64(v))
<1>1. CASE Negative(v)
  <2>1. AppendInt64(v) = AppendNegative(v)
    BY <1>1 DEF AppendInt64
  <2>2. ReadInteger(f, p) = [ok |-> TRUE, sign |-> "-", v |-> v, p |-> p + Len(AppendInt64(v))]
    BY <1>1, <2>1, NegativeRoundTrip
  <2>3. ReadInt64(f, p) = ReadInteger(f, p)
    BY <1>1, <2>2 DEF ReadInt64, Sign
  <2>. QED
    BY <2>2, <2>3
<1>2. CASE ~Negative(v)
  <2>1. AppendInt64(v) = AppendUInt64(v)
    BY <1>2 DEF AppendInt64
  <2>2. ReadInteger(f, p) = [ok |-> TRUE, sign |-> "+", v |-> v, p |-> p + Len(AppendInt64(v))]
    BY <2>1, UnsignedRoundTrip
  <2>3. ReadInt64(f, p) = ReadInteger(f, p)
    BY <1>2, <2>2 DEF ReadInt64, Sign
  <2>. QED
    BY <2>2, <2>3
<1>. QED
  BY <1>1, <1>2

\* The same of every Int32, which no wider number is taken for.
THEOREM Int32RoundTrip ==
  ASSUME NEW f \in Seq(Byte), NEW p \in Nat, NEW v \in Word64, InInt32(v), Stands(f, p, AppendInt32(v))
  PROVE  /\ ReadInt32(f, p).ok
         /\ ReadInt32(f, p).v = v
         /\ ReadInt32(f, p).p = p + Len(AppendInt32(v))
<1>1. AppendInt32(v) = AppendInt64(v)
  BY DEF AppendInt32
<1>2. ReadInt64(f, p).ok /\ ReadInt64(f, p).v = v /\ ReadInt64(f, p).p = p + Len(AppendInt32(v))
  BY <1>1, Int64RoundTrip
<1>3. ReadInt32(f, p) = ReadInt64(f, p)
  BY <1>2 DEF ReadInt32
<1>. QED
  BY <1>2, <1>3

\* What the 32 bit reader accepts fits into 32 bits.
THEOREM Int32Only ==
  ASSUME NEW f \in Seq(Byte), NEW p \in Nat, ReadInt32(f, p).ok
  PROVE  InInt32(ReadInt32(f, p).v)
BY DEF ReadInt32, Unread

\* What makes the markers of a header tell its lengths apart.
Distinct(form) ==
  /\ \A m \in {form.m8, form.m16, form.m32} : m \in Nat /\ (m # 0 => m > form.fix + form.most)
  /\ form.fix \in Nat /\ form.most \in {-1, 15, 31}
  /\ form.m16 # 0 /\ form.m32 # 0
  /\ form.m8 # form.m16 /\ form.m8 # form.m32 /\ form.m16 # form.m32

LEMMA FourBytes ==
  ASSUME NEW n \in Length
  PROVE  n = <<n[1], n[2], n[3], n[4]>> /\ \A i \in 1 .. 4 : n[i] \in 0 .. 255
BY DEF Length, Byte

LEMMA NaturalBytes ==
  ASSUME NEW n \in Length
  PROVE  n[1] \in Nat /\ n[2] \in Nat /\ n[3] \in Nat /\ n[4] \in Nat
BY DEF Length, Byte

LEMMA NumberIsNatural ==
  ASSUME NEW n \in Length
  PROVE  Number(n) \in Nat
<1>1. \A a, b, c, d \in Nat : a * 16777216 + b * 65536 + c * 256 + d \in Nat
  BY SMT
<1>2. n[1] \in Nat /\ n[2] \in Nat /\ n[3] \in Nat /\ n[4] \in Nat
  BY NaturalBytes
<1>. QED
  BY <1>1, <1>2, SMT DEF Number

LEMMA WideLength ==
  ASSUME NEW f \in Seq(Byte), NEW p \in 1 .. Len(f), NEW w \in {1, 2, 4}, NEW n \in Length,
         Zeros(n, 4 - w), p + w <= Len(f), \A i \in 5 - w .. 4 : f[p + i + w - 4] = n[i]
  PROVE  WideHeader(f, p, w) = [ok |-> TRUE, v |-> n, p |-> p + 1 + w]
<1>1. \A i \in 1 .. 4 : LengthAt(f, p, w)[i] = n[i]
  BY DEF Zeros, LengthAt
<1>2. LengthAt(f, p, w) = n
  BY <1>1 DEF Length, LengthAt
<1>3. ~(p + w > Len(f))
  OBVIOUS
<1>. QED
  BY <1>2, <1>3 DEF WideHeader

\* Every length is read as it was written, by every header.
LEMMA HeaderRoundTrip ==
  ASSUME NEW form, Distinct(form), NEW f \in Seq(Byte), NEW p \in Nat, NEW n \in Length, Stands(f, p, AppendHeader(form, n))
  PROVE  ReadHeader(form, f, p) = [ok |-> TRUE, v |-> n, p |-> p + Len(AppendHeader(form, n))]
<1>. DEFINE e == AppendHeader(form, n)
<1>0. /\ p \in Nat \ {0} /\ p + Len(e) - 1 <= Len(f)
      /\ \A i \in 1 .. Len(e) : f[p + i - 1] = e[i]
  BY DEF Stands
<1>n. \A i \in 1 .. 4 : n[i] \in 0 .. 255
  BY FourBytes
<1>d. /\ form.fix \in Nat /\ form.most \in Int /\ form.m8 \in Nat /\ form.m16 \in Nat /\ form.m32 \in Nat
      /\ form.m16 > form.fix + form.most /\ form.m32 > form.fix + form.most /\ (form.m8 # 0 => form.m8 > form.fix + form.most)
      /\ form.m8 # form.m16 /\ form.m8 # form.m32 /\ form.m16 # form.m32
  BY DEF Distinct
<1>1. CASE Zeros(n, 3) /\ n[4] <= form.most
  <2>1. e = <<form.fix + n[4]>> /\ Len(e) = 1
    BY <1>1 DEF AppendHeader
  <2>2. f[p + 1 - 1] = e[1]
    BY <1>0, <2>1
  <2>3. p \in 1 .. Len(f) /\ f[p] = form.fix + n[4]
    BY <1>0, <2>1, <2>2
  <2>4. n[4] \in Nat /\ n[4] <= form.most
    <3>1. n[4] \in Nat
      BY NaturalBytes, Zenon
    <3>2. n[4] <= form.most
      BY <1>1
    <3>. QED
      BY <3>1, <3>2
  <2>5. form.fix <= form.fix + n[4] /\ form.fix + n[4] <= form.fix + form.most /\ (form.fix + n[4]) - form.fix = n[4]
    BY <1>d, <2>4
  <2>6. <<0, 0, 0, n[4]>> = n
    BY <1>1, FourBytes DEF Zeros
  <2>7. ~(p > Len(f))
    BY <2>3
  <2>. QED
    BY <2>1, <2>3, <2>5, <2>6, <2>7 DEF ReadHeader
<1>2. CASE ~(Zeros(n, 3) /\ n[4] <= form.most) /\ Zeros(n, 3) /\ form.m8 # 0
  <2>1. e = <<form.m8, n[4]>> /\ Len(e) = 2
    BY <1>2 DEF AppendHeader
  <2>2. f[p + 1 - 1] = form.m8 /\ f[p + 2 - 1] = n[4]
    BY <1>0, <2>1
  <2>3. p \in 1 .. Len(f) /\ p + 1 <= Len(f) /\ f[p] = form.m8 /\ \A i \in 5 - 1 .. 4 : f[p + i + 1 - 4] = n[i]
    BY <1>0, <2>1, <2>2
  <2>4. WideHeader(f, p, 1) = [ok |-> TRUE, v |-> n, p |-> p + 1 + 1]
    BY <1>2, <2>3, WideLength
  <2>5. ~(form.m8 <= form.fix + form.most)
    BY <1>2, <1>d
  <2>6. ~(p > Len(f))
    BY <2>3
  <2>7. ReadHeader(form, f, p) = WideHeader(f, p, 1)
    BY <1>2, <2>3, <2>5, <2>6 DEF ReadHeader
  <2>. QED
    BY <2>1, <2>3, <2>4, <2>7 DEF e
<1>3. CASE ~(Zeros(n, 3) /\ n[4] <= form.most) /\ ~(Zeros(n, 3) /\ form.m8 # 0) /\ Zeros(n, 2)
  <2>1. e = <<form.m16, n[3], n[4]>> /\ Len(e) = 3
    BY <1>3 DEF AppendHeader
  <2>. HIDE DEF e
  <2>2. /\ f[p + 1 - 1] = e[1]
        /\ f[p + 2 - 1] = e[2]
        /\ f[p + 3 - 1] = e[3]
    <3>1. f[p + 1 - 1] = e[1]
      BY <1>0, <2>1, SMT
    <3>2. f[p + 2 - 1] = e[2]
      BY <1>0, <2>1, SMT
    <3>3. f[p + 3 - 1] = e[3]
      BY <1>0, <2>1, SMT
    <3>. QED
      BY <3>1, <3>2, <3>3
  <2>3. p \in 1 .. Len(f) /\ p + 2 <= Len(f) /\ f[p] = form.m16 /\ \A i \in 5 - 2 .. 4 : f[p + i + 2 - 4] = n[i]
    BY <1>0, <2>1, <2>2
  <2>4. WideHeader(f, p, 2) = [ok |-> TRUE, v |-> n, p |-> p + 1 + 2]
    BY <1>3, <2>3, WideLength
  <2>5. ~(form.m16 <= form.fix + form.most) /\ form.m16 # form.m8
    BY <1>d
  <2>6. ~(p > Len(f))
    BY <2>3
  <2>7. ReadHeader(form, f, p) = WideHeader(f, p, 2)
    BY <2>3, <2>5, <2>6 DEF ReadHeader
  <2>. QED
    BY <2>1, <2>3, <2>4, <2>7 DEF e
<1>4. CASE ~(Zeros(n, 3) /\ n[4] <= form.most) /\ ~(Zeros(n, 3) /\ form.m8 # 0) /\ ~Zeros(n, 2)
  <2>1. e = <<form.m32, n[1], n[2], n[3], n[4]>> /\ Len(e) = 5
    BY <1>4 DEF AppendHeader
  <2>. HIDE DEF e
  <2>2. /\ f[p + 1 - 1] = e[1]
        /\ f[p + 2 - 1] = e[2]
        /\ f[p + 3 - 1] = e[3]
        /\ f[p + 4 - 1] = e[4]
        /\ f[p + 5 - 1] = e[5]
    <3>1. f[p + 1 - 1] = e[1]
      BY <1>0, <2>1, SMT
    <3>2. f[p + 2 - 1] = e[2]
      BY <1>0, <2>1, SMT
    <3>3. f[p + 3 - 1] = e[3]
      BY <1>0, <2>1, SMT
    <3>4. f[p + 4 - 1] = e[4]
      BY <1>0, <2>1, SMT
    <3>5. f[p + 5 - 1] = e[5]
      BY <1>0, <2>1, SMT
    <3>. QED
      BY <3>1, <3>2, <3>3, <3>4, <3>5
  <2>3. p \in 1 .. Len(f) /\ p + 4 <= Len(f) /\ f[p] = form.m32 /\ \A i \in 5 - 4 .. 4 : f[p + i + 4 - 4] = n[i]
    BY <1>0, <2>1, <2>2
  <2>4. Zeros(n, 4 - 4)
    BY DEF Zeros
  <2>5. WideHeader(f, p, 4) = [ok |-> TRUE, v |-> n, p |-> p + 1 + 4]
    BY <2>3, <2>4, WideLength
  <2>6. ~(form.m32 <= form.fix + form.most) /\ form.m32 # form.m8 /\ form.m32 # form.m16
    BY <1>d
  <2>7. ~(p > Len(f))
    BY <2>3
  <2>8. ReadHeader(form, f, p) = WideHeader(f, p, 4)
    BY <2>3, <2>6, <2>7 DEF ReadHeader
  <2>. QED
    BY <2>1, <2>3, <2>5, <2>8 DEF e
<1>. QED
  BY <1>1, <1>2, <1>3, <1>4

LEMMA FormsDistinct == Distinct(ArrayForm) /\ Distinct(MapForm) /\ Distinct(StringForm)
BY DEF Distinct, ArrayForm, MapForm, StringForm

\* The number of elements of an array that C# can hold.
THEOREM ArrayHeaderRoundTrip ==
  ASSUME NEW f \in Seq(Byte), NEW p \in Nat, NEW n \in Length, n[1] < 128, Stands(f, p, WriteArrayHeader(n))
  PROVE  readArrayHeader(f, p) = [ok |-> TRUE, v |-> n, p |-> p + Len(WriteArrayHeader(n))]
<1>1. ReadHeader(ArrayForm, f, p) = [ok |-> TRUE, v |-> n, p |-> p + Len(WriteArrayHeader(n))]
  BY FormsDistinct, HeaderRoundTrip DEF WriteArrayHeader
<1>. QED
  BY <1>1 DEF readArrayHeader, Counted

LEMMA LengthAsNumber ==
  ASSUME NEW n \in Nat, n <= Int32Max
  PROVE  Bytes4(n) \in Length /\ Bytes4(n)[1] < 128 /\ Number(Bytes4(n)) = n
<1>. DEFINE a == n \div 16777216
            b == (n \div 65536) % 256
            c == (n \div 256) % 256
            d == n % 256
<1>0. n <= 2147483647
  BY SMT DEF Int32Max
<1>1. /\ a \in 0 .. 127
      /\ b \in 0 .. 255
      /\ c \in 0 .. 255
      /\ d \in 0 .. 255
  <2>1. a \in 0 .. 127
    BY <1>0, SMT
  <2>2. b \in 0 .. 255
    BY <1>0, SMT
  <2>3. c \in 0 .. 255
    BY <1>0, SMT
  <2>4. d \in 0 .. 255
    BY <1>0, SMT
  <2>. QED
    BY <2>1, <2>2, <2>3, <2>4
<1>2. n = (n \div 256) * 256 + d
  BY <1>0, SMT
<1>3. n \div 256 = (n \div 65536) * 256 + c
  BY <1>0, SMT
<1>4. n \div 65536 = a * 256 + b
  BY <1>0, SMT
<1>5. Bytes4(n) = <<a, b, c, d>>
  BY SMT DEF Bytes4
<1>6. n \div 256 \in Nat /\ n \div 65536 \in Nat
  BY <1>0, SMT
<1>. HIDE DEF a, b, c, d
<1>7. Bytes4(n) \in Length /\ Bytes4(n)[1] < 128
  BY <1>1, <1>5, SMT DEF Length, Byte
<1>8. Number(<<a, b, c, d>>) = a * 16777216 + b * 65536 + c * 256 + d
  BY SMT DEF Number
<1>9. n = a * 16777216 + b * 65536 + c * 256 + d
  BY <1>0, <1>1, <1>2, <1>3, <1>4, <1>6, SMT
<1>. QED
  BY <1>5, <1>7, <1>8, <1>9, SMT

\* The first part of what stands in a file stands there.
LEMMA FrontStands ==
  ASSUME NEW f \in Seq(Byte), NEW p \in Nat, NEW h \in Seq(Nat), NEW text \in Seq(Byte), Stands(f, p, h \o text)
  PROVE  /\ Stands(f, p, h)
         /\ p \in Nat \ {0}
         /\ Len(h \o text) = Len(h) + Len(text)
         /\ p + Len(h) + Len(text) - 1 <= Len(f)
         /\ \A i \in 1 .. Len(text) : f[p + Len(h) + i - 1] = text[i]
<1>. DEFINE e == h \o text
<1>1. /\ Len(e) = Len(h) + Len(text)
      /\ \A i \in 1 .. Len(h) : e[i] = h[i]
      /\ \A i \in 1 .. Len(text) : e[Len(h) + i] = text[i]
  OBVIOUS
<1>. HIDE DEF e
<1>2. /\ p \in Nat \ {0} /\ p + Len(e) - 1 <= Len(f)
      /\ \A i \in 1 .. Len(e) : f[p + i - 1] = e[i]
  BY DEF Stands, e
<1>3. Len(h) \in Nat /\ Len(text) \in Nat
  OBVIOUS
<1>4. p + Len(h) - 1 <= Len(f) /\ p + Len(h) + Len(text) - 1 <= Len(f)
  BY <1>1, <1>2, <1>3
<1>5. \A i \in 1 .. Len(h) : f[p + i - 1] = h[i]
  <2>1. \A i \in 1 .. Len(h) : i \in 1 .. Len(e)
    BY <1>1, <1>3
  <2>. QED
    BY <1>1, <1>2, <2>1
<1>6. \A i \in 1 .. Len(text) : f[p + Len(h) + i - 1] = text[i]
  <2>. SUFFICES ASSUME NEW i \in 1 .. Len(text) PROVE f[p + Len(h) + i - 1] = text[i]
    OBVIOUS
  <2>1. Len(h) + i \in 1 .. Len(e) /\ p + (Len(h) + i) - 1 = p + Len(h) + i - 1
    BY <1>1, <1>2, <1>3
  <2>2. f[p + (Len(h) + i) - 1] = e[Len(h) + i]
    BY <1>2, <2>1
  <2>. QED
    BY <1>1, <2>1, <2>2
<1>7. Stands(f, p, h)
  BY <1>2, <1>4, <1>5 DEF Stands
<1>. QED
  BY <1>1, <1>2, <1>4, <1>6, <1>7 DEF e

\* What stands behind a header that is read as its length is read back.
LEMMA PayloadRoundTrip ==
  ASSUME NEW form, NEW f \in Seq(Byte), NEW p \in Nat, NEW h \in Seq(Nat), NEW text \in Seq(Byte), Len(text) <= Int32Max,
         Stands(f, p, h \o text),
         ReadHeader(form, f, p) = [ok |-> TRUE, v |-> Bytes4(Len(text)), p |-> p + Len(h)]
  PROVE  ReadPayload(form, f, p) = [ok |-> TRUE, v |-> text, p |-> p + Len(h \o text)]
<1>. DEFINE n == Bytes4(Len(text))
            s == SubSeq(f, p + Len(h), p + Len(h) + Len(text) - 1)
            r == ReadLength(form, f, p, 1)
<1>1. Len(h) \in Nat /\ Len(text) \in Nat
  OBVIOUS
<1>2. n[1] < 128 /\ Number(n) = Len(text)
  BY <1>1, LengthAsNumber
<1>. HIDE DEF n
<1>3. /\ p \in Nat \ {0}
      /\ Len(h \o text) = Len(h) + Len(text)
      /\ p + Len(h) + Len(text) - 1 <= Len(f)
      /\ \A i \in 1 .. Len(text) : f[p + Len(h) + i - 1] = text[i]
  BY FrontStands
<1>4. r = [ok |-> TRUE, v |-> n, p |-> p + Len(h)]
  <2>1. Len(text) * 1 <= Len(f) + 1 - (p + Len(h))
    BY <1>1, <1>3
  <2>. QED
    BY <1>2, <2>1 DEF ReadLength, Room, n
<1>5. s = text
  <2>1. p + Len(h) \in Nat /\ p + Len(h) >= 1 /\ p + Len(h) + Len(text) - 1 <= Len(f)
    BY <1>1, <1>3
  <2>2. s \in Seq(Byte) /\ Len(s) = Len(text)
    BY <1>1, <2>1
  <2>3. \A i \in 1 .. Len(text) : s[i] = f[p + Len(h) + i - 1]
    BY <1>1, <2>1
  <2>. QED
    BY <1>3, <2>2, <2>3
<1>6. ReadPayload(form, f, p) = IF r.ok THEN [ok |-> TRUE, v |-> SubSeq(f, r.p, r.p + Number(r.v) - 1), p |-> r.p + Number(r.v)] ELSE Unread
  BY DEF ReadPayload
<1>. HIDE DEF r
<1>7. r.p + Number(r.v) = p + Len(h \o text) /\ r.p + Number(r.v) - 1 = p + Len(h) + Len(text) - 1
  <2>1. r.ok /\ r.v = n /\ r.p = p + Len(h)
    BY <1>4
  <2>2. p + Len(h \o text) = p + Len(h) + Len(text)
    BY <1>1, <1>3
  <2>. QED
    BY <1>1, <1>2, <2>1, <2>2
<1>8. SubSeq(f, r.p, r.p + Number(r.v) - 1) = text
  BY <1>4, <1>5, <1>7
<1>. QED
  BY <1>4, <1>6, <1>7, <1>8

\* A text of any length up to Int32Max is read as it was written.
THEOREM StringRoundTrip ==
  ASSUME NEW f \in Seq(Byte), NEW p \in Nat, NEW text \in Seq(Byte), Len(text) <= Int32Max, Stands(f, p, AppendString(text))
  PROVE  readString(f, p) = [ok |-> TRUE, v |-> text, p |-> p + Len(AppendString(text))]
<1>. DEFINE n == Bytes4(Len(text))
            h == AppendHeader(StringForm, n)
<1>1. n \in Length
  <2>1. Len(text) \in Nat
    OBVIOUS
  <2>. QED
    BY <2>1, LengthAsNumber
<1>2. h \in Seq(Nat)
  <2>. HIDE DEF n
  <2>1. n[1] \in Nat /\ n[2] \in Nat /\ n[3] \in Nat /\ n[4] \in Nat
    BY <1>1, NaturalBytes, Zenon
  <2>. QED
    BY <2>1 DEF AppendHeader, StringForm
<1>3. AppendString(text) = h \o text
  BY DEF AppendString
<1>. HIDE DEF n, h
<1>4. Stands(f, p, h)
  BY <1>2, <1>3, FrontStands
<1>5. ReadHeader(StringForm, f, p) = [ok |-> TRUE, v |-> n, p |-> p + Len(h)]
  BY <1>1, <1>4, FormsDistinct, HeaderRoundTrip DEF h
<1>. QED
  BY <1>2, <1>3, <1>5, PayloadRoundTrip DEF readString, n

\* Bytes of any number up to Int32Max are too, behind the widest header.
THEOREM BinRoundTrip ==
  ASSUME NEW f \in Seq(Byte), NEW p \in Nat, NEW payload \in Seq(Byte), Len(payload) <= Int32Max, Stands(f, p, writeBin32(payload))
  PROVE  ReadBin(f, p) = [ok |-> TRUE, v |-> payload, p |-> p + Len(writeBin32(payload))]
<1>. DEFINE n == Bytes4(Len(payload))
            h == <<198, n[1], n[2], n[3], n[4]>>
<1>1. n \in Length
  <2>1. Len(payload) \in Nat
    OBVIOUS
  <2>. QED
    BY <2>1, LengthAsNumber
<1>2. h \in Seq(Nat) /\ Len(h) = 5
  <2>. HIDE DEF n
  <2>1. n[1] \in Nat /\ n[2] \in Nat /\ n[3] \in Nat /\ n[4] \in Nat
    BY <1>1, NaturalBytes, Zenon
  <2>. QED
    BY <2>1
<1>3. writeBin32(payload) = h \o payload
  BY DEF writeBin32, BinForm
<1>. HIDE DEF n
<1>4. Stands(f, p, h)
  <2>. HIDE DEF h
  <2>. QED
    BY <1>2, <1>3, FrontStands
<1>5. /\ p \in Nat \ {0} /\ p + 4 <= Len(f)
      /\ \A i \in 1 .. 5 : f[p + i - 1] = h[i]
  <2>. HIDE DEF h
  <2>. QED
    BY <1>2, <1>4 DEF Stands
<1>6. f[p] = 198 /\ \A i \in 1 .. 4 : f[p + i] = n[i]
  <2>1. p + 1 - 1 = p
    BY <1>5
  <2>2. f[p] = 198
    BY <1>5, <2>1
  <2>3. \A i \in 1 .. 4 : h[i + 1] = n[i]
    OBVIOUS
  <2>. SUFFICES ASSUME NEW i \in 1 .. 4 PROVE f[p + i] = n[i]
    BY <2>2
  <2>4. i + 1 \in 1 .. 5 /\ p + (i + 1) - 1 = p + i
    BY <1>5
  <2>. HIDE DEF h
  <2>. QED
    BY <1>5, <2>3, <2>4
<1>. HIDE DEF h
<1>7. WideHeader(f, p, 4) = [ok |-> TRUE, v |-> n, p |-> p + 1 + 4]
  <2>1. \A i \in 5 - 4 .. 4 : f[p + i + 4 - 4] = n[i]
    BY <1>5, <1>6
  <2>2. Zeros(n, 4 - 4) /\ p \in 1 .. Len(f)
    BY <1>5 DEF Zeros
  <2>. QED
    BY <1>1, <1>5, <2>1, <2>2, WideLength
<1>8. ReadHeader(BinForm, f, p) = WideHeader(f, p, 4)
  <2>1. ~(p > Len(f))
    BY <1>5
  <2>. QED
    BY <1>6, <2>1 DEF ReadHeader, BinForm
<1>9. ReadHeader(BinForm, f, p) = [ok |-> TRUE, v |-> n, p |-> p + Len(h)]
  BY <1>2, <1>5, <1>7, <1>8
<1>10. /\ Stands(f, p, h \o payload)
       /\ ReadHeader(BinForm, f, p) = [ok |-> TRUE, v |-> Bytes4(Len(payload)), p |-> p + Len(h)]
  BY <1>3, <1>9 DEF n
<1>11. ReadPayload(BinForm, f, p) = [ok |-> TRUE, v |-> payload, p |-> p + Len(h \o payload)]
  <2>1. h \in Seq(Nat)
    BY <1>2
  <2>. QED
    BY <1>10, <2>1, PayloadRoundTrip
<1>. QED
  BY <1>3, <1>11 DEF ReadBin

\* The number of entries of a map, likewise.
THEOREM MapHeaderRoundTrip ==
  ASSUME NEW f \in Seq(Byte), NEW p \in Nat, NEW n \in Length, n[1] < 128, Stands(f, p, AppendMapHeader(n))
  PROVE  ReadMapHeader(f, p) = [ok |-> TRUE, v |-> n, p |-> p + Len(AppendMapHeader(n))]
<1>1. ReadHeader(MapForm, f, p) = [ok |-> TRUE, v |-> n, p |-> p + Len(AppendMapHeader(n))]
  BY FormsDistinct, HeaderRoundTrip DEF AppendMapHeader
<1>. QED
  BY <1>1 DEF ReadMapHeader, Counted

\* A Single is read by the bits it was written with, whatever they are: a NaN
\* keeps its payload.
THEOREM SingleRoundTrip ==
  ASSUME NEW f \in Seq(Byte), NEW p \in Nat, NEW bits \in Bits32, Stands(f, p, AppendSingle(bits))
  PROVE  ReadSingle(f, p) = [ok |-> TRUE, v |-> bits, p |-> p + Len(AppendSingle(bits))]
<1>. DEFINE e == AppendSingle(bits)
<1>1. e = <<202, bits[1], bits[2], bits[3], bits[4]>> /\ Len(e) = 5
  BY DEF AppendSingle
<1>2. /\ p \in Nat \ {0} /\ p + Len(e) - 1 <= Len(f)
      /\ \A i \in 1 .. Len(e) : f[p + i - 1] = e[i]
  BY DEF Stands
<1>. HIDE DEF e
<1>3. /\ f[p + 1 - 1] = e[1]
      /\ f[p + 2 - 1] = e[2]
      /\ f[p + 3 - 1] = e[3]
      /\ f[p + 4 - 1] = e[4]
      /\ f[p + 5 - 1] = e[5]
  BY <1>1, <1>2
<1>4. f[p] = 202 /\ f[p + 1] = bits[1] /\ f[p + 2] = bits[2] /\ f[p + 3] = bits[3] /\ f[p + 4] = bits[4]
  <2>1. p + 1 - 1 = p /\ p + 2 - 1 = p + 1 /\ p + 3 - 1 = p + 2 /\ p + 4 - 1 = p + 3 /\ p + 5 - 1 = p + 4
    BY <1>2
  <2>2. e[1] = 202 /\ e[2] = bits[1] /\ e[3] = bits[2] /\ e[4] = bits[3] /\ e[5] = bits[4]
    BY <1>1
  <2>. QED
    BY <1>3, <2>1, <2>2
<1>5. [i \in 1 .. 4 |-> f[p + i]] = bits
  <2>1. \A i \in 1 .. 4 : f[p + i] = bits[i]
    BY <1>4
  <2>. QED
    BY <2>1 DEF Bits32
<1>6. ~(p > Len(f)) /\ ~(p + 4 > Len(f)) /\ p + 5 = p + Len(e)
  BY <1>1, <1>2
<1>7. ReadSingle(f, p) = [ok |-> TRUE, v |-> [i \in 1 .. 4 |-> f[p + i]], p |-> p + 5]
  BY <1>4, <1>6 DEF ReadSingle
<1>. QED
  BY <1>5, <1>6, <1>7 DEF e

\* A preset writes its numbers in the forms of an Int32, the short ones too.
THEOREM GradInt32RoundTrip ==
  ASSUME NEW f \in Seq(Byte), NEW p \in Nat, NEW v \in Word64, InInt32(v), Stands(f, p, gradAppendInt32(v))
  PROVE  /\ gradReadInt32(f, p).ok
         /\ gradReadInt32(f, p).v = v
         /\ gradReadInt32(f, p).p = p + Len(gradAppendInt32(v))
<1>1. gradAppendInt32(v) = AppendInt32(v)
  BY DEF gradAppendInt32, AppendInt32, AppendInt64, AppendNegative
<1>. QED
  BY <1>1, Int32RoundTrip DEF gradReadInt32

\* A reader goes on behind what it read, and inside of the file or at its end.
Inside(f, p, r) == r.ok => r.p \in p + 1 .. Len(f) + 1

LEMMA IntegerInside ==
  ASSUME NEW f \in Seq(Byte), NEW p \in Nat \ {0}
  PROVE  Inside(f, p, ReadInteger(f, p))
<1>1. Width(f[p]) \in {0, 1, 2, 4, 8}
  BY DEF Width
<1>. DEFINE n == Width(f[p])
<1>2. Len(f) \in Nat
  OBVIOUS
<1>3. CASE p > Len(f)
  BY <1>3 DEF ReadInteger, Inside, Unread
<1>4. CASE ~(p > Len(f)) /\ (f[p] <= 127 \/ f[p] >= 224)
  <2>1. ReadInteger(f, p).p = p + 1
    BY <1>4 DEF ReadInteger
  <2>. QED
    BY <1>2, <1>4, <2>1 DEF Inside
<1>5. CASE ~(p > Len(f)) /\ ~(f[p] <= 127 \/ f[p] >= 224) /\ (n = 0 \/ p + n > Len(f))
  <2>1. ReadInteger(f, p) = Unread
    BY <1>5 DEF ReadInteger
  <2>. QED
    BY <2>1 DEF Inside, Unread
<1>6. CASE ~(p > Len(f)) /\ ~(f[p] <= 127 \/ f[p] >= 224) /\ ~(n = 0 \/ p + n > Len(f))
  <2>1. ReadInteger(f, p).p = p + 1 + n
    BY <1>6 DEF ReadInteger
  <2>. HIDE DEF n
  <2>2. n \in Nat /\ p + n <= Len(f)
    BY <1>1, <1>2, <1>6 DEF n
  <2>. QED
    BY <1>2, <2>1, <2>2 DEF Inside
<1>. QED
  BY <1>3, <1>4, <1>5, <1>6

LEMMA HeaderInside ==
  ASSUME NEW form, NEW f \in Seq(Byte), NEW p \in Nat \ {0}
  PROVE  Inside(f, p, ReadHeader(form, f, p))
<1>1. Len(f) \in Nat
  OBVIOUS
<1>2. \A n \in {1, 2, 4} : Inside(f, p, WideHeader(f, p, n))
  BY <1>1 DEF WideHeader, Inside, Unread
<1>3. CASE p > Len(f)
  BY <1>3 DEF ReadHeader, Inside, Unread
<1>4. CASE ~(p > Len(f))
  <2>1. CASE form.fix <= f[p] /\ f[p] <= form.fix + form.most
    <3>1. ReadHeader(form, f, p).p = p + 1
      BY <1>4, <2>1 DEF ReadHeader
    <3>. QED
      BY <1>1, <1>4, <3>1 DEF Inside
  <2>2. CASE ~(form.fix <= f[p] /\ f[p] <= form.fix + form.most)
    <3>1. ReadHeader(form, f, p) \in {WideHeader(f, p, 1), WideHeader(f, p, 2), WideHeader(f, p, 4), Unread}
      BY <1>4, <2>2 DEF ReadHeader
    <3>2. Inside(f, p, Unread)
      BY DEF Inside, Unread
    <3>. QED
      BY <1>2, <3>1, <3>2
  <2>. QED
    BY <2>1, <2>2
<1>. QED
  BY <1>3, <1>4

LEMMA FileBytes ==
  ASSUME NEW f \in Seq(Byte), NEW i \in 1 .. Len(f)
  PROVE  f[i] \in 0 .. 255
<1>1. f[i] \in Byte
  OBVIOUS
<1>. QED
  BY <1>1, Zenon DEF Byte

Forms == {ArrayForm, MapForm, StringForm, BinForm}

LEMMA HeaderIsLength ==
  ASSUME NEW form \in Forms, NEW f \in Seq(Byte), NEW p \in Nat \ {0}, ReadHeader(form, f, p).ok
  PROVE  ReadHeader(form, f, p).v \in Length
<1>0. form.fix \in Nat /\ form.most \in {-1, 15, 31}
  BY DEF Forms, ArrayForm, MapForm, StringForm, BinForm
<1>1. ~(p > Len(f))
  BY DEF ReadHeader, Unread
<1>2. f[p] \in 0 .. 255
  <2>1. p \in 1 .. Len(f)
    BY <1>1
  <2>. QED
    BY <2>1, FileBytes
<1>3. CASE form.fix <= f[p] /\ f[p] <= form.fix + form.most
  <2>1. ReadHeader(form, f, p).v = <<0, 0, 0, f[p] - form.fix>>
    BY <1>1, <1>3 DEF ReadHeader
  <2>2. f[p] - form.fix \in 0 .. 255
    <3>. DEFINE b == f[p]
                x == form.fix
    <3>1. b \in 0 .. 255 /\ x \in Nat /\ x <= b
      BY <1>0, <1>2, <1>3
    <3>. HIDE DEF b, x
    <3>2. b - x \in 0 .. 255
      BY <3>1
    <3>. QED
      BY <3>2 DEF b, x
  <2>. QED
    BY <2>1, <2>2 DEF Length, Byte
<1>4. CASE ~(form.fix <= f[p] /\ f[p] <= form.fix + form.most)
  <2>1. ReadHeader(form, f, p) \in {WideHeader(f, p, 1), WideHeader(f, p, 2), WideHeader(f, p, 4), Unread}
    BY <1>1, <1>4 DEF ReadHeader
  <2>2. PICK n \in {1, 2, 4} : ReadHeader(form, f, p) = WideHeader(f, p, n)
    BY <2>1 DEF Unread
  <2>3. ~(p + n > Len(f)) /\ ReadHeader(form, f, p).v = LengthAt(f, p, n)
    BY <2>2 DEF WideHeader, Unread
  <2>4. \A i \in 5 - n .. 4 : p + i + n - 4 \in 1 .. Len(f)
    BY <2>3
  <2>5. \A i \in 5 - n .. 4 : f[p + i + n - 4] \in 0 .. 255
    BY <2>4, FileBytes, ZenonT(60)
  <2>6. \A i \in 1 .. 4 : (IF i <= 4 - n THEN 0 ELSE f[p + i + n - 4]) \in 0 .. 255
    <3>. TAKE i \in 1 .. 4
    <3>1. CASE i <= 4 - n
      BY <3>1
    <3>2. CASE ~(i <= 4 - n)
      <4>1. i \in 5 - n .. 4
        BY <3>2
      <4>2. f[p + i + n - 4] \in 0 .. 255
        BY <2>5, <4>1
      <4>. QED
        BY <3>2, <4>2, Zenon
    <3>. QED
      BY <3>1, <3>2
  <2>7. LengthAt(f, p, n) \in Length
    BY <2>6, Zenon DEF LengthAt, Length, Byte
  <2>. QED
    BY <2>3, <2>7
<1>. QED
  BY <1>3, <1>4

\* Whatever stands in a file, a number that is read from it ends within it, and
\* the reader goes on behind it.
THEOREM NumbersInside ==
  ASSUME NEW f \in Seq(Byte), NEW p \in Nat \ {0}
  PROVE  /\ Inside(f, p, ReadUInt64(f, p))
         /\ Inside(f, p, ReadInt64(f, p))
         /\ Inside(f, p, ReadInt32(f, p))
<1>1. Inside(f, p, ReadInteger(f, p))
  BY IntegerInside
<1>2. Inside(f, p, Unread)
  BY DEF Inside, Unread
<1>3. ReadUInt64(f, p) \in {ReadInteger(f, p), Unread}
  BY DEF ReadUInt64
<1>4. ReadInt64(f, p) \in {ReadInteger(f, p), Unread}
  BY DEF ReadInt64
<1>5. ReadInt32(f, p) \in {ReadInt64(f, p), Unread}
  BY DEF ReadInt32
<1>. QED
  BY <1>1, <1>2, <1>3, <1>4, <1>5

\* So do a length and all of the elements it announces, at their least size:
\* no damaged file makes a reader allocate or cut more than the file holds.
THEOREM LengthsInside ==
  ASSUME NEW form \in Forms, NEW f \in Seq(Byte), NEW p \in Nat \ {0}, NEW least \in Nat \ {0},
         ReadLength(form, f, p, least).ok
  PROVE  LET r == ReadLength(form, f, p, least)
         IN  r.p \in p + 1 .. Len(f) + 1 /\ r.p + Number(r.v) * least <= Len(f) + 1
<1>. DEFINE r == ReadHeader(form, f, p)
<1>1. Room(f, r, least) /\ ReadLength(form, f, p, least) = r
  BY DEF ReadLength, Unread
<1>2. r.ok /\ Number(r.v) * least <= Len(f) + 1 - r.p
  BY <1>1 DEF Room
<1>3. r.p \in p + 1 .. Len(f) + 1
  BY <1>2, HeaderInside DEF Inside
<1>4. Number(r.v) \in Nat
  <2>1. r.v \in Length
    BY <1>2, HeaderIsLength
  <2>. QED
    BY <2>1, NumberIsNatural
<1>. HIDE DEF r
<1>5. Number(r.v) * least \in Nat /\ Len(f) \in Nat
  BY <1>4
<1>6. r.p + Number(r.v) * least <= Len(f) + 1
  BY <1>2, <1>3, <1>5
<1>. QED
  BY <1>1, <1>3, <1>6

\* A text or bytes that are read are the part of the file behind their header.
THEOREM PayloadsInside ==
  ASSUME NEW form \in Forms, NEW f \in Seq(Byte), NEW p \in Nat \ {0}, ReadPayload(form, f, p).ok
  PROVE  LET r == ReadPayload(form, f, p)
         IN  /\ Inside(f, p, r)
             /\ r.v = SubSeq(f, r.p - Len(r.v), r.p - 1)
<1>. DEFINE r == ReadLength(form, f, p, 1)
            n == Number(r.v)
<1>1. r.ok
  BY DEF ReadPayload, Unread
<1>2. ReadPayload(form, f, p) = [ok |-> TRUE, v |-> SubSeq(f, r.p, r.p + n - 1), p |-> r.p + n]
  BY <1>1 DEF ReadPayload
<1>3. r.p \in p + 1 .. Len(f) + 1 /\ r.p + n * 1 <= Len(f) + 1
  BY <1>1, LengthsInside
<1>4. n \in Nat
  <2>1. r = ReadHeader(form, f, p)
    BY <1>1 DEF ReadLength, Unread
  <2>2. r.v \in Length
    BY <1>1, <2>1, HeaderIsLength
  <2>. QED
    BY <2>2, NumberIsNatural
<1>. HIDE DEF r, n
<1>5. r.p + n \in p + 1 .. Len(f) + 1 /\ r.p \in Nat /\ r.p >= 1 /\ r.p + n - 1 <= Len(f) /\ Len(f) \in Nat
  BY <1>3, <1>4
<1>6. Len(SubSeq(f, r.p, r.p + n - 1)) = n
  BY <1>4, <1>5
<1>7. r.p + n - n = r.p
  BY <1>4, <1>5
<1>. DEFINE q == ReadPayload(form, f, p)
            s == SubSeq(f, r.p, r.p + n - 1)
<1>8. q.v = s /\ q.p = r.p + n
  <2>. HIDE DEF s
  <2>1. q = [ok |-> TRUE, v |-> s, p |-> r.p + n]
    BY <1>2 DEF s
  <2>. HIDE DEF q
  <2>. QED
    BY <2>1
<1>. HIDE DEF q
<1>9. q.p - Len(q.v) = r.p /\ q.p - 1 = r.p + n - 1
  <2>1. Len(q.v) = n
    BY <1>6, <1>8
  <2>. HIDE DEF s
  <2>. QED
    BY <1>4, <1>5, <1>8, <2>1
<1>10. q.p \in p + 1 .. Len(f) + 1
  BY <1>5, <1>8
<1>11. Inside(f, p, q) /\ q.v = SubSeq(f, q.p - Len(q.v), q.p - 1)
  BY <1>8, <1>9, <1>10 DEF Inside
<1>. QED
  BY <1>11 DEF q

LEMMA BytesAreNumbers ==
  ASSUME NEW h \in Seq(Byte)
  PROVE  h \in Seq(Nat)
<1>1. \A i \in 1 .. Len(h) : h[i] \in 0 .. 255
  BY FileBytes
<1>2. \A x \in 0 .. 255 : x \in Nat
  OBVIOUS
<1>3. \A i \in 1 .. Len(h) : h[i] \in Nat
  BY <1>1, <1>2, Zenon
<1>. QED
  BY <1>3

\* What stands in a file in one piece stands there part by part.
LEMMA PartsStand ==
  ASSUME NEW f \in Seq(Byte), NEW p \in Nat, NEW h \in Seq(Byte), NEW t \in Seq(Byte), Stands(f, p, h \o t)
  PROVE  Stands(f, p, h) /\ Stands(f, p + Len(h), t)
<1>1. h \in Seq(Nat)
  BY BytesAreNumbers
<1>2. /\ Stands(f, p, h)
      /\ p \in Nat \ {0}
      /\ p + Len(h) + Len(t) - 1 <= Len(f)
      /\ \A i \in 1 .. Len(t) : f[p + Len(h) + i - 1] = t[i]
  BY <1>1, FrontStands
<1>3. p + Len(h) \in Nat \ {0}
  BY <1>2
<1>. QED
  BY <1>2, <1>3 DEF Stands

LEMMA LeastIsMin ==
  ASSUME NEW S, S \subseteq Int, NEW m \in S, \A x \in S : m <= x
  PROVE  Min(S) = m
<1>1. \A x \in S : (\A y \in S : x <= y) => x = m
  <2>. SUFFICES ASSUME NEW x \in S, \A y \in S : x <= y PROVE x = m
    OBVIOUS
  <2>1. x <= m /\ m <= x /\ x \in Int /\ m \in Int
    OBVIOUS
  <2>. QED
    BY <2>1
<1>. QED
  BY <1>1 DEF Min

\* The half of a byte that begins a length.
Half(n) == Min({n, 15})
LEMMA HalfOf ==
  ASSUME NEW n \in Nat
  PROVE  Half(n) = IF n < 15 THEN n ELSE 15
<1>1. CASE n < 15
  <2>1. \A x \in {n, 15} : n <= x
    BY <1>1
  <2>2. Min({n, 15}) = n
    BY <2>1, LeastIsMin
  <2>. QED
    BY <1>1, <2>2 DEF Half
<1>2. CASE ~(n < 15)
  <2>1. \A x \in {n, 15} : 15 <= x
    BY <1>2
  <2>2. Min({n, 15}) = 15
    BY <2>1, LeastIsMin
  <2>. QED
    BY <1>2, <2>2 DEF Half
<1>. QED
  BY <1>1, <1>2

\* The bytes of a length beyond the half: so many of 255, and what is left.
Full(n) == (n - 15) \div 255
Left(n) == (n - 15) % 255

LEMMA LongLengthBytes ==
  ASSUME NEW n \in Nat, ~(n < 15)
  PROVE  /\ Full(n) \in Nat /\ Left(n) \in 0 .. 254 /\ n = (15 + Full(n) * 255) + Left(n)
         /\ LongLength(n) \in Seq(Byte)
         /\ Len(LongLength(n)) = Full(n) + 1
         /\ \A i \in 1 .. Full(n) : LongLength(n)[i] = 255
         /\ LongLength(n)[Full(n) + 1] = Left(n)
<1>. DEFINE k == Full(n)
            d == Left(n)
            s == [i \in 1 .. k |-> 255]
<1>1. k \in Nat /\ d \in 0 .. 254 /\ n = (15 + k * 255) + d
  BY SMT DEF Full, Left
<1>2. LongLength(n) = s \o <<d>>
  BY DEF LongLength, Full, Left
<1>. HIDE DEF k, d
<1>3. s \in Seq(Byte) /\ Len(s) = k /\ <<d>> \in Seq(Byte)
  BY <1>1 DEF Byte
<1>4. \A i \in 1 .. k : s[i] = 255
  OBVIOUS
<1>. HIDE DEF s
<1>5. /\ s \o <<d>> \in Seq(Byte)
      /\ Len(s \o <<d>>) = k + 1
      /\ \A i \in 1 .. k : (s \o <<d>>)[i] = s[i]
      /\ (s \o <<d>>)[k + 1] = d
  BY <1>1, <1>3
<1>. QED
  BY <1>1, <1>2, <1>4, <1>5 DEF k, d

LEMMA LongLengthType ==
  ASSUME NEW n \in Nat
  PROVE  LongLength(n) \in Seq(Byte)
<1>1. CASE n < 15
  BY <1>1 DEF LongLength
<1>. QED
  BY <1>1, LongLengthBytes

\* A length is read as it was written, whatever follows it.
LEMMA LengthRoundTrip ==
  ASSUME NEW b \in Seq(Byte), NEW p \in Nat \ {0}, NEW n \in Nat, Stands(b, p, LongLength(n))
  PROVE  LengthFrom(b, p, Half(n)) = [n |-> n, p |-> p + Len(LongLength(n))]
<1>1. CASE n < 15
  <2>1. Half(n) = n /\ LongLength(n) = <<>>
    BY <1>1, HalfOf DEF LongLength
  <2>. QED
    BY <1>1, <2>1 DEF LengthFrom
<1>2. CASE ~(n < 15)
  <2>. DEFINE k == Full(n)
              d == Left(n)
              e == LongLength(n)
              ends == {q \in p .. Len(b) : b[q] # 255}
  <2>1. /\ k \in Nat /\ d \in 0 .. 254 /\ n = (15 + k * 255) + d
        /\ Len(e) = k + 1
        /\ \A i \in 1 .. k : e[i] = 255
        /\ e[k + 1] = d
    BY <1>2, LongLengthBytes
  <2>2. Half(n) = 15
    BY <1>2, HalfOf
  <2>. HIDE DEF k, d, e
  <2>3. p + Len(e) - 1 <= Len(b) /\ \A i \in 1 .. Len(e) : b[p + i - 1] = e[i]
    BY DEF Stands, e
  <2>4. b[p + k] = d /\ p + k <= Len(b)
    <3>1. k + 1 \in 1 .. Len(e) /\ p + (k + 1) - 1 = p + k
      BY <2>1
    <3>2. b[p + (k + 1) - 1] = e[k + 1]
      BY <2>3, <3>1
    <3>3. p + k <= Len(b)
      BY <2>1, <2>3
    <3>. QED
      BY <2>1, <3>1, <3>2, <3>3
  <2>5. \A q \in p .. p + k - 1 : b[q] = 255
    <3>. TAKE q \in p .. p + k - 1
    <3>1. q - p + 1 \in 1 .. k /\ q - p + 1 \in 1 .. Len(e) /\ p + (q - p + 1) - 1 = q
      BY <2>1
    <3>2. b[p + (q - p + 1) - 1] = e[q - p + 1]
      BY <2>3, <3>1
    <3>. QED
      BY <2>1, <3>1, <3>2
  <2>6. p + k \in ends
    BY <2>1, <2>4
  <2>7. \A q \in ends : p + k <= q
    BY <2>1, <2>5
  <2>8. Min(ends) = p + k /\ ends # {}
    <3>1. ends \subseteq Int
      OBVIOUS
    <3>. HIDE DEF ends
    <3>. QED
      BY <2>6, <2>7, <3>1, LeastIsMin
  <2>9. LengthFrom(b, p, 15) = [n |-> (15 + ((p + k) - p) * 255) + b[p + k], p |-> p + k + 1]
    BY <2>8 DEF LengthFrom
  <2>10. (15 + ((p + k) - p) * 255) + b[p + k] = n /\ p + k + 1 = p + Len(e)
    BY <2>1, <2>4
  <2>. QED
    BY <2>2, <2>9, <2>10 DEF e
<1>. QED
  BY <1>1, <1>2

\* The states of a decompression, as long as one likes.
SequencesOf(b, n, g) == g = [k \in 0 .. n |-> IF k = 0 THEN [st |-> "more", p |-> 1, v |-> <<>>] ELSE NextSequence(b, g[k - 1])]
LEMMA SequencesExist ==
  ASSUME NEW b, NEW n \in Nat
  PROVE  \E g : SequencesOf(b, n, g)
<1>. DEFINE start == [st |-> "more", p |-> 1, v |-> <<>>]
            T == {m \in Nat : \E g : SequencesOf(b, m, g)}
<1>1. 0 \in T
  <2>1. SequencesOf(b, 0, [k \in 0 .. 0 |-> start])
    BY DEF SequencesOf
  <2>. QED
    BY <2>1
<1>2. ASSUME NEW m \in Nat, m \in T PROVE m + 1 \in T
  <2>1. PICK g : SequencesOf(b, m, g)
    BY <1>2
  <2>. DEFINE h == [k \in 0 .. m + 1 |-> IF k = m + 1 THEN NextSequence(b, g[m]) ELSE g[k]]
  <2>2. \A k \in 0 .. m + 1 : h[k] = IF k = 0 THEN start ELSE NextSequence(b, h[k - 1])
    <3>. TAKE k \in 0 .. m + 1
    <3>1. CASE k = m + 1
      <4>1. k # 0 /\ k - 1 \in 0 .. m + 1 /\ k - 1 # m + 1 /\ k - 1 = m
        BY <3>1
      <4>. QED
        BY <3>1, <4>1
    <3>2. CASE k # m + 1
      <4>1. k \in 0 .. m /\ h[k] = g[k]
        BY <3>2
      <4>2. g[k] = IF k = 0 THEN start ELSE NextSequence(b, g[k - 1])
        BY <2>1, <4>1 DEF SequencesOf
      <4>3. k # 0 => h[k - 1] = g[k - 1]
        BY <4>1
      <4>. QED
        BY <4>1, <4>2, <4>3
    <3>. QED
      BY <3>1, <3>2
  <2>3. SequencesOf(b, m + 1, h)
    BY <2>2 DEF SequencesOf
  <2>. QED
    BY <2>3
<1>3. n \in T
  <2>. HIDE DEF T
  <2>. QED
    BY <1>1, <1>2, SetInduction
<1>. QED
  BY <1>3

LEMMA Uncompressed ==
  ASSUME NEW b \in Seq(Byte)
  PROVE  \E g : SequencesOf(b, Len(b), g) /\ UncompressBlock(b) = IF g[Len(b)].st = "end" THEN [ok |-> TRUE, v |-> g[Len(b)].v] ELSE Unread
<1>. DEFINE g == CHOOSE f : SequencesOf(b, Len(b), f)
<1>1. SequencesOf(b, Len(b), g)
  <2>1. \E f : SequencesOf(b, Len(b), f)
    BY SequencesExist
  <2>. QED
    BY <2>1
<1>2. UncompressBlock(b) = IF g[Len(b)].st = "end" THEN [ok |-> TRUE, v |-> g[Len(b)].v] ELSE Unread
  BY DEF UncompressBlock, SequencesOf
<1>. QED
  BY <1>1, <1>2

\* The sequence that reaches the end of its block is the last.
LEMMA LastSequence ==
  ASSUME NEW b, NEW s, s.st = "more", ~(s.p > Len(b)),
         LengthFrom(b, s.p + 1, b[s.p] \div 16).p + LengthFrom(b, s.p + 1, b[s.p] \div 16).n = Len(b) + 1,
         ~(Len(b) + 1 > Len(b) + 1)
  PROVE  NextSequence(b, s) = [st |-> "end", v |-> s.v \o SubSeq(b, LengthFrom(b, s.p + 1, b[s.p] \div 16).p, (LengthFrom(b, s.p + 1, b[s.p] \div 16).p + LengthFrom(b, s.p + 1, b[s.p] \div 16).n) - 1)]
<1>. DEFINE literals == LengthFrom(b, s.p + 1, b[s.p] \div 16)
      behind   == literals.p + literals.n
      held     == s.v \o SubSeq(b, literals.p, behind - 1)
      offset   == b[behind] + b[behind + 1] * 256
      match    == LengthFrom(b, behind + 2, b[s.p] % 16)
<1>1. NextSequence(b, s) = IF s.st # "more" THEN s
     ELSE IF s.p > Len(b) \/ behind > Len(b) + 1 THEN [st |-> "bad"]
     ELSE IF behind = Len(b) + 1 THEN [st |-> "end", v |-> held]
     ELSE IF behind = Len(b) THEN [st |-> "bad"]
     ELSE IF offset = 0 \/ offset > Len(held) THEN [st |-> "bad"]
     ELSE [st |-> "more", p |-> match.p, v |-> Copied(held, offset, match.n + 4)]
  BY DEF NextSequence
<1>2. behind = Len(b) + 1
  OBVIOUS
<1>3. held = s.v \o SubSeq(b, LengthFrom(b, s.p + 1, b[s.p] \div 16).p, (LengthFrom(b, s.p + 1, b[s.p] \div 16).p + LengthFrom(b, s.p + 1, b[s.p] \div 16).n) - 1)
  OBVIOUS
<1>. HIDE DEF literals, behind, held, offset, match
<1>4. ~(s.p > Len(b) \/ behind > Len(b) + 1)
  BY <1>2
<1>5. NextSequence(b, s) = [st |-> "end", v |-> held]
  BY <1>1, <1>2, <1>4, Zenon
<1>. QED
  BY <1>3, <1>5, Zenon

\* A literal block is one sequence, the last.
LEMMA LiteralSequence ==
  ASSUME NEW block \in Seq(Byte)
  PROVE  LET e == EncodeLz4LiteralBlock(block)
         IN  /\ e \in Seq(Byte)
             /\ Len(e) \in Nat \ {0}
             /\ NextSequence(e, [st |-> "more", p |-> 1, v |-> <<>>]) = [st |-> "end", v |-> block]
<1>. DEFINE n == Len(block)
            a == <<Half(n) * 16>>
            l == LongLength(n)
            e == EncodeLz4LiteralBlock(block)
<1>0. n \in Nat
  OBVIOUS
<1>1. Half(n) \in 0 .. 15 /\ (Half(n) * 16) \div 16 = Half(n)
  <2>1. Half(n) \in 0 .. 15
    BY <1>0, HalfOf
  <2>2. \A x \in 0 .. 15 : (x * 16) \div 16 = x
    BY SMT
  <2>. QED
    BY <2>1, <2>2
<1>2. a \in Seq(Byte) /\ Len(a) = 1 /\ a[1] = Half(n) * 16
  <2>1. \A x \in 0 .. 15 : x * 16 \in 0 .. 255
    BY SMT
  <2>2. Half(n) * 16 \in Byte
    BY <1>1, <2>1 DEF Byte
  <2>3. \A x \in Byte : <<x>> \in Seq(Byte) /\ Len(<<x>>) = 1 /\ <<x>>[1] = x
    OBVIOUS
  <2>. QED
    BY <2>2, <2>3
<1>3. l \in Seq(Byte) /\ Len(l) \in Nat
  BY <1>0, LongLengthType
<1>4. e = (a \o l) \o block
  BY DEF EncodeLz4LiteralBlock, Half
<1>. HIDE DEF n, a, l, e
<1>5. /\ e \in Seq(Byte)
      /\ a \o l \in Seq(Byte)
      /\ Len(a \o l) = 1 + Len(l)
      /\ Len(e) = (1 + Len(l)) + n
  <2>1. \A x, y \in Seq(Byte) : x \o y \in Seq(Byte) /\ Len(x \o y) = Len(x) + Len(y)
    OBVIOUS
  <2>2. a \o l \in Seq(Byte) /\ Len(a \o l) = 1 + Len(l)
    BY <1>2, <1>3, <2>1
  <2>3. (a \o l) \o block \in Seq(Byte) /\ Len((a \o l) \o block) = Len(a \o l) + Len(block)
    BY <2>1, <2>2, Zenon
  <2>. QED
    BY <1>4, <2>2, <2>3 DEF n
<1>6. Stands(e, 1, (a \o l) \o block)
  BY <1>4, <1>5 DEF Stands
<1>7. Stands(e, 1, a \o l) /\ Stands(e, 1 + (1 + Len(l)), block)
  BY <1>5, <1>6, PartsStand
<1>8. Stands(e, 1, a) /\ Stands(e, 2, l)
  <2>1. 1 + Len(a) = 2
    BY <1>2
  <2>2. Stands(e, 1, a) /\ Stands(e, 1 + Len(a), l)
    BY <1>2, <1>3, <1>5, <1>7, PartsStand
  <2>. QED
    BY <2>1, <2>2
<1>9. e[1] \div 16 = Half(n)
  <2>1. e[1 + 1 - 1] = a[1]
    BY <1>2, <1>8 DEF Stands
  <2>. QED
    BY <1>1, <1>2, <2>1
<1>10. LengthFrom(e, 2, Half(n)) = [n |-> n, p |-> 2 + Len(l)]
  BY <1>0, <1>5, <1>8, LengthRoundTrip DEF l
<1>. DEFINE s == SubSeq(e, 2 + Len(l), ((2 + Len(l)) + n) - 1)
<1>11. s = block
  <2>1. 1 + (1 + Len(l)) = 2 + Len(l)
    BY <1>3
  <2>2. \A i \in 1 .. n : e[2 + Len(l) + i - 1] = block[i]
    BY <1>7, <2>1 DEF Stands, n
  <2>3. 2 + Len(l) >= 1 /\ 2 + Len(l) + n - 1 = Len(e)
    BY <1>0, <1>3, <1>5
  <2>4. Len(s) = n /\ s \in Seq(Byte)
    BY <1>0, <1>3, <1>5, <2>3
  <2>5. \A i \in 1 .. n : s[i] = e[2 + Len(l) + i - 1]
    BY <1>0, <1>3, <1>5, <2>3
  <2>. HIDE DEF s
  <2>. QED
    BY <2>2, <2>4, <2>5 DEF n
<1>. HIDE DEF s
<1>12. <<>> \o s = block
  BY <1>11
<1>13. NextSequence(e, [st |-> "more", p |-> 1, v |-> <<>>]) = [st |-> "end", v |-> <<>> \o s]
  <2>. DEFINE x == [st |-> "more", p |-> 1, v |-> <<>>]
  <2>1. x.st = "more" /\ x.p = 1 /\ x.v = <<>>
    OBVIOUS
  <2>2. x.p + 1 = 2 /\ LengthFrom(e, x.p + 1, e[x.p] \div 16) = [n |-> n, p |-> 2 + Len(l)]
    BY <1>9, <1>10
  <2>3. 2 + Len(l) + n = Len(e) + 1 /\ ~(1 > Len(e))
    BY <1>0, <1>3, <1>5
  <2>. HIDE DEF x
  <2>. DEFINE y == LengthFrom(e, x.p + 1, e[x.p] \div 16)
  <2>4. y.p = 2 + Len(l) /\ y.n = n
    BY <2>2
  <2>. HIDE DEF y
  <2>5. y.p + y.n = Len(e) + 1 /\ (y.p + y.n) - 1 = ((2 + Len(l)) + n) - 1
    BY <2>3, <2>4
  <2>6. Len(e) \in Nat /\ ~(x.p > Len(e) \/ y.p + y.n > Len(e) + 1)
    BY <1>5, <2>1, <2>3, <2>5
  <2>7. NextSequence(e, x) = [st |-> "end", v |-> x.v \o SubSeq(e, y.p, (y.p + y.n) - 1)]
    BY <2>1, <2>5, <2>6, LastSequence DEF y
  <2>8. SubSeq(e, y.p, (y.p + y.n) - 1) = s
    BY <2>4, <2>5 DEF s
  <2>. QED
    BY <2>1, <2>7, <2>8 DEF x
<1>14. Len(e) \in Nat \ {0}
  BY <1>0, <1>3, <1>5
<1>. QED
  BY <1>5, <1>12, <1>13, <1>14 DEF e

\* Whatever block the compressor cannot make smaller is read as it was, however
\* long: also where its length changes form, at 15 and 270 bytes and so on.
THEOREM LiteralBlockRoundTrip ==
  ASSUME NEW block \in Seq(Byte)
  PROVE  UncompressBlock(EncodeLz4LiteralBlock(block)) = [ok |-> TRUE, v |-> block]
<1>. DEFINE e == EncodeLz4LiteralBlock(block)
            start == [st |-> "more", p |-> 1, v |-> <<>>]
            end == [st |-> "end", v |-> block]
<1>1. e \in Seq(Byte) /\ Len(e) \in Nat \ {0} /\ NextSequence(e, start) = end
  BY LiteralSequence
<1>. HIDE DEF e
<1>2. PICK g : /\ SequencesOf(e, Len(e), g)
               /\ UncompressBlock(e) = IF g[Len(e)].st = "end" THEN [ok |-> TRUE, v |-> g[Len(e)].v] ELSE Unread
  BY <1>1, Uncompressed
<1>3. \A k \in 0 .. Len(e) : g[k] = IF k = 0 THEN start ELSE NextSequence(e, g[k - 1])
  BY <1>2, Zenon DEF SequencesOf
<1>4. NextSequence(e, end) = end
  BY DEF NextSequence
<1>. HIDE DEF start, end
<1>. DEFINE T == {k \in Nat : k + 1 <= Len(e) => g[k + 1] = end}
<1>5. 0 \in T
  <2>1. 0 \in 0 .. Len(e) /\ 1 \in 0 .. Len(e) /\ 1 - 1 = 0 /\ 0 + 1 = 1
    BY <1>1
  <2>2. g[0] = start /\ g[1] = NextSequence(e, g[0])
    BY <1>3, <2>1
  <2>. QED
    BY <1>1, <2>1, <2>2
<1>6. ASSUME NEW k \in Nat, k \in T PROVE k + 1 \in T
  <2>. SUFFICES ASSUME (k + 1) + 1 <= Len(e) PROVE g[(k + 1) + 1] = end
    OBVIOUS
  <2>1. g[k + 1] = end
    BY <1>1, <1>6
  <2>2. (k + 1) + 1 \in 0 .. Len(e) /\ (k + 1) + 1 # 0 /\ ((k + 1) + 1) - 1 = k + 1
    BY <1>1
  <2>3. g[(k + 1) + 1] = NextSequence(e, g[k + 1])
    BY <1>3, <2>2
  <2>. QED
    BY <1>4, <2>1, <2>3
<1>7. g[Len(e)] = end
  <2>. HIDE DEF T
  <2>1. Len(e) - 1 \in T
    BY <1>1, <1>5, <1>6, SetInduction
  <2>2. (Len(e) - 1) + 1 = Len(e)
    BY <1>1
  <2>. QED
    BY <1>1, <2>1, <2>2 DEF T
<1>. QED
  BY <1>2, <1>7 DEF e, end

\* What stands in a file is a part of it.
LEMMA PartOf ==
  ASSUME NEW f \in Seq(Byte), NEW p \in Nat \ {0}, NEW t \in Seq(Byte), p + Len(t) - 1 <= Len(f),
         \A i \in 1 .. Len(t) : f[p + i - 1] = t[i]
  PROVE  SubSeq(f, p, p + Len(t) - 1) = t
<1>. DEFINE s == SubSeq(f, p, p + Len(t) - 1)
<1>1. s \in Seq(Byte) /\ Len(s) = Len(t)
  OBVIOUS
<1>2. \A i \in 1 .. Len(t) : s[i] = f[p + i - 1]
  OBVIOUS
<1>. HIDE DEF s
<1>3. \A i \in 1 .. Len(t) : s[i] = t[i]
  BY <1>2
<1>. QED
  BY <1>1, <1>3 DEF s

\* What stands behind a header that is not empty.
Behind(f, p, h, t, q) ==
  /\ p \in Nat \ {0} /\ Len(h) \in Nat /\ Len(t) \in Nat /\ Len(f) \in Nat
  /\ Stands(f, p, h)
  /\ q + Len(t) = p + Len(h \o t)
  /\ q + Len(t) - 1 <= Len(f)
  /\ f[q - 1] = h[Len(h)]
  /\ SubSeq(f, q, q + Len(t) - 1) = t
LEMMA BehindHeader ==
  ASSUME NEW f \in Seq(Byte), NEW p \in Nat, NEW h \in Seq(Byte), NEW t \in Seq(Byte), Len(h) > 0,
         Stands(f, p, h \o t), NEW q \in Nat, q = p + Len(h)
  PROVE  Behind(f, p, h, t, q)
<1>1. h \in Seq(Nat)
  BY BytesAreNumbers
<1>2. /\ Stands(f, p, h)
      /\ p \in Nat \ {0}
      /\ Len(h \o t) = Len(h) + Len(t)
      /\ p + Len(h) + Len(t) - 1 <= Len(f)
      /\ \A i \in 1 .. Len(t) : f[p + Len(h) + i - 1] = t[i]
  BY <1>1, FrontStands
<1>3. Len(h) \in Nat \ {0} /\ Len(t) \in Nat /\ Len(f) \in Nat
  OBVIOUS
<1>4. q \in Nat \ {0} /\ q + Len(t) = p + Len(h \o t) /\ q + Len(t) - 1 <= Len(f)
  BY <1>2, <1>3
<1>5. f[q - 1] = h[Len(h)]
  <2>1. Len(h) \in 1 .. Len(h) /\ p + Len(h) - 1 = q - 1
    BY <1>2, <1>3
  <2>2. f[p + Len(h) - 1] = h[Len(h)]
    BY <1>2, <2>1, Zenon DEF Stands
  <2>. QED
    BY <2>1, <2>2
<1>6. SubSeq(f, q, q + Len(t) - 1) = t
  <2>1. \A i \in 1 .. Len(t) : f[q + i - 1] = t[i]
    <3>1. \A i \in 1 .. Len(t) : q + i - 1 = p + Len(h) + i - 1
      BY <1>2, <1>3
    <3>. QED
      BY <1>2, <3>1
  <2>. QED
    BY <1>4, <2>1, PartOf
<1>. QED
  BY <1>2, <1>3, <1>4, <1>5, <1>6 DEF Behind

\* The size of an extension, as four bytes.
ExtSize(f, p) == IF SizeBytes(f[p]) = 0 THEN Bytes4(CHOOSE n \in DOMAIN Fixed : Fixed[n] = f[p]) ELSE LengthAt(f, p, SizeBytes(f[p]))

\* What stands behind the marker, the size and the type of an extension.
LEMMA ExtPayload ==
  ASSUME NEW f \in Seq(Byte), NEW p \in Nat, NEW h \in Seq(Byte), NEW payload \in Seq(Byte), Len(payload) <= Int32Max,
         Stands(f, p, h \o payload), IsExtMarker(f[p]), Len(h) = SizeBytes(f[p]) + 2, SizeBytes(f[p]) \in {0, 1, 2, 4},
         ExtSize(f, p) = Bytes4(Len(payload))
  PROVE  ReadExtPayload(f, p) = [ok |-> TRUE, type |-> h[Len(h)], v |-> payload, p |-> p + Len(h \o payload)]
<1>. DEFINE wide  == SizeBytes(f[p])
            start == p + wide + 2
            size  == ExtSize(f, p)
            n == Bytes4(Len(payload))
<1>1. ReadExtPayload(f, p) =
        IF p > Len(f) THEN Unread
        ELSE IF ~IsExtMarker(f[p]) \/ start - 1 > Len(f) THEN Unread
        ELSE IF size[1] >= 128 \/ Number(size) > Len(f) + 1 - start THEN Unread
        ELSE [ok |-> TRUE, type |-> f[start - 1], v |-> SubSeq(f, start, start + Number(size) - 1), p |-> start + Number(size)]
  BY DEF ReadExtPayload, ExtSize
<1>2. size = n
  OBVIOUS
<1>3. Len(payload) \in Nat /\ ~(n[1] >= 128) /\ Number(n) = Len(payload)
  <2>1. Len(payload) \in Nat
    OBVIOUS
  <2>. QED
    BY <2>1, LengthAsNumber, NaturalBytes
<1>4. Len(h) > 0 /\ start = p + Len(h)
  <2>1. wide \in Nat /\ Len(h) = wide + 2
    OBVIOUS
  <2>. HIDE DEF wide
  <2>. QED
    BY <2>1
<1>. HIDE DEF size, n, wide, start
<1>5. /\ p \in Nat \ {0} /\ Len(h) \in Nat /\ Len(f) \in Nat
      /\ start + Len(payload) = p + Len(h \o payload)
      /\ start + Len(payload) - 1 <= Len(f)
      /\ f[start - 1] = h[Len(h)]
      /\ SubSeq(f, start, start + Len(payload) - 1) = payload
  <2>1. start \in Nat
    BY <1>4
  <2>2. Behind(f, p, h, payload, start)
    BY <1>4, <2>1, BehindHeader, Zenon
  <2>. QED
    BY <2>2, Zenon DEF Behind
<1>6. ~(p > Len(f)) /\ ~(start - 1 > Len(f)) /\ ~(Len(payload) > Len(f) + 1 - start)
  <2>. DEFINE lf == Len(f)  lh == Len(h)  lp == Len(payload)
  <2>1. lf \in Nat /\ lh \in Nat /\ lp \in Nat /\ p \in Nat /\ lh > 0 /\ start = p + lh /\ start + lp - 1 <= lf
    BY <1>3, <1>4, <1>5
  <2>. HIDE DEF lf, lh, lp
  <2>2. ~(p > lf) /\ ~(start - 1 > lf) /\ ~(lp > lf + 1 - start)
    BY <2>1
  <2>. QED
    BY <2>2 DEF lf, lp
<1>. QED
  BY <1>1, <1>2, <1>3, <1>5, <1>6, Zenon

\* The length n stands in w bytes behind the place p.
LengthStands(f, p, w, n) ==
  /\ p \in 1 .. Len(f) /\ w \in {1, 2, 4} /\ n \in Length
  /\ Zeros(n, 4 - w) /\ p + w <= Len(f)
  /\ \A i \in 5 - w .. 4 : f[p + i + w - 4] = n[i]
LEMMA LengthAtIs ==
  ASSUME NEW f \in Seq(Byte), NEW p, NEW w, NEW n, LengthStands(f, p, w, n)
  PROVE  LengthAt(f, p, w) = n
<1>0. /\ p \in 1 .. Len(f) /\ w \in {1, 2, 4} /\ n \in Length
      /\ Zeros(n, 4 - w) /\ p + w <= Len(f)
      /\ \A i \in 5 - w .. 4 : f[p + i + w - 4] = n[i]
  BY Zenon DEF LengthStands
<1>1. WideHeader(f, p, w) = [ok |-> TRUE, v |-> n, p |-> p + 1 + w]
  BY <1>0, WideLength
<1>2. WideHeader(f, p, w).v = LengthAt(f, p, w)
  <2>1. ~(p + w > Len(f))
    BY <1>0, LenProperties
  <2>. QED
    BY <2>1 DEF WideHeader
<1>. QED
  BY <1>1, <1>2

\* The leading bytes of a small length are zero.
LEMMA SmallLength ==
  ASSUME NEW n \in Nat, n <= Int32Max
  PROVE  /\ n <= 255 => Bytes4(n) = <<0, 0, 0, n>>
         /\ n <= 65535 => Bytes4(n)[1] = 0 /\ Bytes4(n)[2] = 0
<1>1. ASSUME n <= 255 PROVE n \div 16777216 = 0 /\ (n \div 65536) % 256 = 0 /\ (n \div 256) % 256 = 0 /\ n % 256 = n
  BY <1>1, SMT
<1>2. ASSUME n <= 65535 PROVE n \div 16777216 = 0 /\ (n \div 65536) % 256 = 0
  BY <1>2, SMT
<1>. QED
  BY <1>1, <1>2, SMT DEF Bytes4

LEMMA FixedIs ==
  /\ DOMAIN Fixed = {1, 2, 4, 8, 16}
  /\ Fixed[1] = 212 /\ Fixed[2] = 213 /\ Fixed[4] = 214 /\ Fixed[8] = 215 /\ Fixed[16] = 216
BY SMT DEF Fixed

\* The head of an extension of n bytes.
ExtHead(type, n) ==
  IF n \in DOMAIN Fixed THEN <<Fixed[n], type>>
  ELSE IF n <= 255 THEN <<199, n, type>>
  ELSE IF n <= 65535 THEN <<200, Bytes4(n)[3], Bytes4(n)[4], type>>
  ELSE <<201, Bytes4(n)[1], Bytes4(n)[2], Bytes4(n)[3], Bytes4(n)[4], type>>
\* What a reader makes of the head h: of which type the extension is, and how long.
HeadRead(f, p, h, type, n) ==
  /\ h \in Seq(Byte) /\ Len(h) > 0 /\ h[Len(h)] = type
  /\ IsExtMarker(f[p]) /\ SizeBytes(f[p]) \in {0, 1, 2, 4}
  /\ Len(h) = SizeBytes(f[p]) + 2
  /\ ExtSize(f, p) = Bytes4(n)

LEMMA FixedHead ==
  ASSUME NEW f \in Seq(Byte), NEW p \in Nat \ {0}, NEW type \in Byte, NEW n \in DOMAIN Fixed, Stands(f, p, <<Fixed[n], type>>)
  PROVE  HeadRead(f, p, <<Fixed[n], type>>, type, n)
<1>. DEFINE h == <<Fixed[n], type>>
<1>1. n \in {1, 2, 4, 8, 16} /\ Fixed[n] \in 212 .. 216
  BY FixedIs
<1>2. h \in Seq(Byte) /\ Len(h) = 2 /\ h[1] = Fixed[n] /\ h[2] = type
  <2>1. Fixed[n] \in Byte
    BY <1>1 DEF Byte
  <2>. QED
    BY <2>1
<1>. HIDE DEF h
<1>3. f[p] = Fixed[n]
  <2>1. 1 \in 1 .. Len(h) /\ p + 1 - 1 = p
    BY <1>2
  <2>2. f[p + 1 - 1] = h[1]
    BY <2>1, Zenon DEF Stands, h
  <2>. QED
    BY <1>2, <2>1, <2>2
<1>4. IsExtMarker(f[p])
  <2>1. Fixed[n] \in Range(Fixed)
    BY Zenon DEF Range
  <2>. QED
    BY <1>3, <2>1, Zenon DEF IsExtMarker
<1>5. SizeBytes(f[p]) = 0
  <2>1. f[p] # 199 /\ f[p] # 200 /\ f[p] # 201
    BY <1>1, <1>3
  <2>. QED
    BY <2>1 DEF SizeBytes
<1>6. (CHOOSE k \in DOMAIN Fixed : Fixed[k] = f[p]) = n
  <2>1. \A k \in DOMAIN Fixed : Fixed[k] = f[p] => k = n
    BY <1>1, <1>3, FixedIs
  <2>2. n \in DOMAIN Fixed /\ Fixed[n] = f[p]
    BY <1>3
  <2>. QED
    BY <2>1, <2>2, Zenon
<1>7. ExtSize(f, p) = Bytes4(n)
  BY <1>5, <1>6, Zenon DEF ExtSize
<1>8. Len(h) > 0 /\ Len(h) = 0 + 2
  BY <1>2
<1>. QED
  BY <1>2, <1>4, <1>5, <1>7, <1>8 DEF HeadRead, h

\* The head h holds a length in w bytes.
IsSizedHead(h, w, b, type) ==
  /\ w \in {1, 2, 4} /\ Zeros(b, 4 - w)
  /\ h \in Seq(Byte) /\ Len(h) = w + 2 /\ h[w + 2] = type
  /\ SizeBytes(h[1]) = w /\ h[1] \in {199, 200, 201}
  /\ \A i \in 5 - w .. 4 : h[i + w - 3] = b[i]
\* The size of w bytes behind a marker of its own.
LEMMA SizedHead ==
  ASSUME NEW f \in Seq(Byte), NEW p \in Nat \ {0}, NEW type \in Byte, NEW n \in Nat, n <= Int32Max, NEW w, NEW h,
         IsSizedHead(h, w, Bytes4(n), type), Stands(f, p, h)
  PROVE  HeadRead(f, p, h, type, n)
<1>. DEFINE m == Bytes4(n)
<1>1. m \in Length
  BY LengthAsNumber
<1>. HIDE DEF m
<1>2. /\ p + Len(h) - 1 <= Len(f)
      /\ \A i \in 1 .. Len(h) : f[p + i - 1] = h[i]
  BY Zenon DEF Stands
<1>3. /\ w \in {1, 2, 4} /\ Zeros(m, 4 - w)
      /\ h \in Seq(Byte) /\ Len(h) = w + 2 /\ h[w + 2] = type
      /\ SizeBytes(h[1]) = w /\ h[1] \in {199, 200, 201}
      /\ \A i \in 5 - w .. 4 : h[i + w - 3] = m[i]
  BY Zenon DEF IsSizedHead, m
<1>4. f[p] = h[1]
  <2>1. 1 \in 1 .. Len(h) /\ p + 1 - 1 = p
    BY <1>3
  <2>. QED
    BY <1>2, <2>1
<1>5. IsExtMarker(f[p])
  BY <1>3, <1>4, Zenon DEF IsExtMarker
<1>6. LengthAt(f, p, w) = m
  <2>1. p \in 1 .. Len(f) /\ p + w <= Len(f)
    BY <1>2, <1>3, LenProperties
  <2>2. \A i \in 5 - w .. 4 : i + w - 3 \in 1 .. Len(h) /\ p + (i + w - 3) - 1 = p + i + w - 4
    BY <1>3
  <2>3. \A i \in 5 - w .. 4 : f[p + i + w - 4] = m[i]
    BY <1>2, <1>3, <2>2
  <2>4. LengthStands(f, p, w, m)
    BY <1>1, <1>3, <2>1, <2>3, Zenon DEF LengthStands
  <2>. QED
    BY <2>4, LengthAtIs
<1>7. ExtSize(f, p) = m
  <2>1. w # 0
    BY <1>3
  <2>. QED
    BY <1>3, <1>4, <1>6, <2>1, Zenon DEF ExtSize
<1>8. SizeBytes(f[p]) = w /\ w \in {0, 1, 2, 4} /\ Len(h) > 0
  BY <1>3, <1>4
<1>. QED
  BY <1>3, <1>5, <1>7, <1>8, Zenon DEF HeadRead, m

\* The head of an extension is read in each of its forms.
LEMMA HeadIsRead ==
  ASSUME NEW f \in Seq(Byte), NEW p \in Nat \ {0}, NEW type \in Byte, NEW n \in Nat, n <= Int32Max, Stands(f, p, ExtHead(type, n))
  PROVE  HeadRead(f, p, ExtHead(type, n), type, n)
<1>. DEFINE h == ExtHead(type, n)
            b == Bytes4(n)
<1>1. b \in Length /\ \A i \in 1 .. 4 : b[i] \in Byte
  BY LengthAsNumber DEF Length
<1>2. /\ n <= 255 => b = <<0, 0, 0, n>>
      /\ n <= 65535 => b[1] = 0 /\ b[2] = 0
  BY SmallLength
<1>3. SizeBytes(199) = 1 /\ SizeBytes(200) = 2 /\ SizeBytes(201) = 4
  BY DEF SizeBytes
<1>4. 199 \in Byte /\ 200 \in Byte /\ 201 \in Byte
  BY DEF Byte
<1>9. h = IF n \in DOMAIN Fixed THEN <<Fixed[n], type>>
          ELSE IF n <= 255 THEN <<199, n, type>>
          ELSE IF n <= 65535 THEN <<200, b[3], b[4], type>>
          ELSE <<201, b[1], b[2], b[3], b[4], type>>
  BY DEF ExtHead
<1>10. Stands(f, p, h)
  OBVIOUS
<1>. HIDE DEF b, h
<1>5. CASE n \in DOMAIN Fixed
  <2>1. h = <<Fixed[n], type>>
    BY <1>5, <1>9
  <2>2. HeadRead(f, p, <<Fixed[n], type>>, type, n)
    BY <1>5, <1>10, <2>1, FixedHead
  <2>. QED
    BY <2>1, <2>2 DEF h
<1>6. CASE n \notin DOMAIN Fixed /\ n <= 255
  <2>. DEFINE e == <<199, n, type>>
  <2>1. h = e
    BY <1>6, <1>9
  <2>2. n \in Byte
    BY <1>6 DEF Byte
  <2>3. e \in Seq(Byte) /\ Len(e) = 3 /\ e[1] = 199 /\ e[2] = n /\ e[3] = type
    BY <1>4, <2>2
  <2>4. b[1] = 0 /\ b[2] = 0 /\ b[3] = 0 /\ b[4] = n
    BY <1>2, <1>6
  <2>5. Zeros(b, 3)
    BY <2>4 DEF Zeros
  <2>6. \A i \in 4 .. 4 : e[i + 1 - 3] = b[i]
    BY <2>3, <2>4
  <2>. HIDE DEF e
  <2>7. /\ 4 - 1 = 3 /\ 5 - 1 = 4 /\ 1 + 2 = 3 /\ 1 \in {1, 2, 4} /\ e[1] \in {199, 200, 201} /\ SizeBytes(e[1]) = 1
        /\ Stands(f, p, e)
    BY <1>3, <1>10, <2>1, <2>3
  <2>8. IsSizedHead(e, 1, b, type)
    BY <2>3, <2>5, <2>6, <2>7 DEF IsSizedHead
  <2>9. HeadRead(f, p, e, type, n)
    BY <2>7, <2>8, SizedHead DEF b
  <2>. QED
    BY <2>1, <2>9 DEF h
<1>7. CASE n \notin DOMAIN Fixed /\ ~(n <= 255) /\ n <= 65535
  <2>. DEFINE e == <<200, b[3], b[4], type>>
  <2>1. h = e
    BY <1>7, <1>9
  <2>3. e \in Seq(Byte) /\ Len(e) = 4 /\ e[1] = 200 /\ e[2] = b[3] /\ e[3] = b[4] /\ e[4] = type
    BY <1>1, <1>4
  <2>5. Zeros(b, 2)
    BY <1>2, <1>7 DEF Zeros
  <2>. HIDE DEF e
  <2>6. \A i \in 3 .. 4 : e[i + 2 - 3] = b[i]
    BY <2>3
  <2>7. /\ 4 - 2 = 2 /\ 5 - 2 = 3 /\ 2 + 2 = 4 /\ 2 \in {1, 2, 4} /\ e[1] \in {199, 200, 201} /\ SizeBytes(e[1]) = 2
        /\ Stands(f, p, e)
    BY <1>3, <1>10, <2>1, <2>3
  <2>8. IsSizedHead(e, 2, b, type)
    BY <2>3, <2>5, <2>6, <2>7 DEF IsSizedHead
  <2>9. HeadRead(f, p, e, type, n)
    BY <2>7, <2>8, SizedHead DEF b
  <2>. QED
    BY <2>1, <2>9 DEF h
<1>8. CASE n \notin DOMAIN Fixed /\ ~(n <= 255) /\ ~(n <= 65535)
  <2>. DEFINE e == <<201, b[1], b[2], b[3], b[4], type>>
  <2>1. h = e
    BY <1>8, <1>9
  <2>3. e \in Seq(Byte) /\ Len(e) = 6 /\ e[1] = 201 /\ e[2] = b[1] /\ e[3] = b[2] /\ e[4] = b[3] /\ e[5] = b[4] /\ e[6] = type
    BY <1>1, <1>4
  <2>5. Zeros(b, 4 - 4)
    BY DEF Zeros
  <2>. HIDE DEF e
  <2>6. \A i \in 5 - 4 .. 4 : e[i + 4 - 3] = b[i]
    BY <2>3
  <2>7. /\ Len(e) = 4 + 2 /\ e[4 + 2] = type /\ 4 \in {1, 2, 4} /\ e[1] \in {199, 200, 201} /\ SizeBytes(e[1]) = 4
        /\ Stands(f, p, e)
    BY <1>3, <1>10, <2>1, <2>3
  <2>8. IsSizedHead(e, 4, b, type)
    BY <2>3, <2>5, <2>6, <2>7 DEF IsSizedHead
  <2>9. HeadRead(f, p, e, type, n)
    BY <2>7, <2>8, SizedHead DEF b
  <2>. QED
    BY <2>1, <2>9 DEF h
<1>. QED
  BY <1>5, <1>6, <1>7, <1>8 DEF h

\* An extension is read as it was written, its type and its payload.
THEOREM ExtRoundTrip ==
  ASSUME NEW f \in Seq(Byte), NEW p \in Nat, NEW type \in Byte, NEW payload \in Seq(Byte), Len(payload) <= Int32Max,
         Stands(f, p, WriteExt(type, payload))
  PROVE  ReadExtPayload(f, p) = [ok |-> TRUE, type |-> type, v |-> payload, p |-> p + Len(WriteExt(type, payload))]
<1>. DEFINE h == ExtHead(type, Len(payload))
<1>1. WriteExt(type, payload) = h \o payload
  BY DEF WriteExt, ExtHead
<1>2. p \in Nat \ {0} /\ Len(payload) \in Nat
  BY DEF Stands
<1>3. Stands(f, p, h)
  <2>1. h \in Seq(Nat)
    <3>1. \A i \in 1 .. 4 : Bytes4(Len(payload))[i] \in Nat
      BY <1>2, LengthAsNumber, NaturalBytes
    <3>2. \A n \in DOMAIN Fixed : Fixed[n] \in Nat
      BY FixedIs
    <3>3. type \in Nat
      BY DEF Byte
    <3>. QED
      BY <1>2, <3>1, <3>2, <3>3 DEF ExtHead
  <2>. HIDE DEF h
  <2>. QED
    BY <1>1, <2>1, FrontStands
<1>4. HeadRead(f, p, h, type, Len(payload))
  BY <1>2, <1>3, HeadIsRead
<1>. HIDE DEF h
<1>5. /\ h \in Seq(Byte) /\ h[Len(h)] = type
      /\ Stands(f, p, h \o payload) /\ IsExtMarker(f[p]) /\ Len(h) = SizeBytes(f[p]) + 2 /\ SizeBytes(f[p]) \in {0, 1, 2, 4}
      /\ ExtSize(f, p) = Bytes4(Len(payload))
  BY <1>1, <1>4 DEF HeadRead
<1>6. ReadExtPayload(f, p) = [ok |-> TRUE, type |-> h[Len(h)], v |-> payload, p |-> p + Len(h \o payload)]
  BY <1>5, ExtPayload
<1>. QED
  BY <1>1, <1>5, <1>6

\* The eight bytes of the size of a block.
SizeWord(n) == <<0, 0, 0, 0>> \o Bytes4(n)
\* A size is a number of 64 bits without a sign, whose upper half is zero.
LEMMA SizeWordIs ==
  ASSUME NEW n \in Nat, n <= Int32Max
  PROVE  /\ SizeWord(n) \in Word64
         /\ Sign(SizeWord(n)) = "+" /\ ~Negative(SizeWord(n))
         /\ Zeros(SizeWord(n), 4) /\ SizeWord(n)[5] < 128
         /\ SizeOf(SizeWord(n)) = n
<1>. DEFINE b == Bytes4(n)
            v == SizeWord(n)
<1>1. b \in Length /\ b[1] < 128 /\ Number(b) = n
  BY LengthAsNumber
<1>. HIDE DEF b
<1>2. b \in Seq(Byte) /\ Len(b) = 4
  <2>1. b = <<b[1], b[2], b[3], b[4]>> /\ b[1] \in Byte /\ b[2] \in Byte /\ b[3] \in Byte /\ b[4] \in Byte
    BY <1>1, FourBytes DEF Length
  <2>2. <<b[1], b[2], b[3], b[4]>> \in Seq(Byte) /\ Len(<<b[1], b[2], b[3], b[4]>>) = 4
    BY <2>1
  <2>. QED
    BY <2>1, <2>2, Zenon
<1>. DEFINE z == <<0, 0, 0, 0>>
<1>3. z \in Seq(Byte) /\ Len(z) = 4 /\ \A i \in 1 .. 4 : z[i] = 0
  BY DEF Byte
<1>9. v = z \o b
  BY DEF SizeWord, b
<1>. HIDE DEF v, z
<1>4. /\ v \in Seq(Byte) /\ Len(v) = 8
      /\ \A i \in 1 .. 4 : v[i] = 0
      /\ \A i \in 1 .. 4 : v[4 + i] = b[i]
  <2>1. /\ z \o b \in Seq(Byte) /\ Len(z \o b) = Len(z) + Len(b)
        /\ \A i \in 1 .. Len(z) : (z \o b)[i] = z[i]
        /\ \A i \in 1 .. Len(b) : (z \o b)[Len(z) + i] = b[i]
    <3>1. /\ z \o b \in Seq(Byte) /\ Len(z \o b) = Len(z) + Len(b)
          /\ \A i \in 1 .. Len(z) + Len(b) : (z \o b)[i] = IF i <= Len(z) THEN z[i] ELSE b[i - Len(z)]
      BY <1>2, <1>3, ConcatProperties, Zenon
    <3>. DEFINE zb == z \o b
    <3>2. \A i \in 1 .. 8 : zb[i] = IF i <= 4 THEN z[i] ELSE b[i - 4]
      BY <1>2, <1>3, <3>1
    <3>. HIDE DEF zb
    <3>3. (\A i \in 1 .. 4 : zb[i] = z[i]) /\ \A i \in 1 .. 4 : zb[4 + i] = b[i]
      BY <3>2
    <3>. QED
      BY <1>2, <1>3, <3>1, <3>3 DEF zb
  <2>. QED
    BY <1>2, <1>3, <1>9, <2>1
<1>10. v \in Word64
  <2>1. v \in [1 .. Len(v) -> Byte]
    BY <1>4, LenProperties, Zenon
  <2>. QED
    BY <1>4, <2>1, Zenon DEF Word64
<1>5. Zeros(v, 4) /\ v[5] < 128 /\ ~Negative(v)
  <2>1. v[1] = 0 /\ v[4 + 1] = b[1]
    BY <1>4
  <2>2. b[1] \in 0 .. 255
    BY <1>1 DEF Length, Byte
  <2>. QED
    BY <1>1, <1>4, <2>1, <2>2 DEF Zeros, Negative
<1>6. Sign(v) = "+"
  BY <1>5 DEF Sign
<1>7. SubSeq(v, 5, 8) = b
  <2>1. \A i \in 1 .. Len(b) : v[5 + i - 1] = b[i]
    <3>1. \A i \in 1 .. 4 : 5 + i - 1 = 4 + i
      OBVIOUS
    <3>. QED
      BY <1>2, <1>4, <3>1
  <2>2. 5 \in Nat \ {0} /\ 5 + Len(b) - 1 = 8 /\ 8 <= Len(v)
    BY <1>2, <1>4
  <2>3. 5 + Len(b) - 1 <= Len(v)
    BY <2>2
  <2>4. SubSeq(v, 5, 5 + Len(b) - 1) = b
    BY <1>2, <1>4, <2>1, <2>2, <2>3, PartOf
  <2>. QED
    BY <2>2, <2>4
<1>8. SizeOf(v) = n
  BY <1>1, <1>7, Zenon DEF SizeOf
<1>. QED
  BY <1>5, <1>6, <1>8, <1>10 DEF v

\* The size of a block is read as it was written.
LEMMA SizeRoundTrip ==
  ASSUME NEW f \in Seq(Byte), NEW p \in Nat, NEW n \in Nat, n <= Int32Max, Stands(f, p, AppendMsgpackUint(n))
  PROVE  DecodeMsgpackInt(f, p) = [ok |-> TRUE, sign |-> "+", v |-> SizeWord(n), p |-> p + Len(AppendMsgpackUint(n))]
<1>1. AppendMsgpackUint(n) = AppendUInt64(SizeWord(n))
  BY DEF AppendMsgpackUint, SizeWord
<1>2. SizeWord(n) \in Word64 /\ Sign(SizeWord(n)) = "+"
  BY SizeWordIs
<1>3. ReadInteger(f, p) = [ok |-> TRUE, sign |-> "+", v |-> SizeWord(n), p |-> p + Len(AppendMsgpackUint(n))]
  BY <1>1, <1>2, UnsignedRoundTrip
<1>. QED
  BY <1>2, <1>3 DEF DecodeMsgpackInt, ReadInt64

\* A size takes one to nine bytes.
LEMMA SizeBytesType ==
  ASSUME NEW n \in Nat, n <= Int32Max
  PROVE  AppendMsgpackUint(n) \in Seq(Byte) /\ Len(AppendMsgpackUint(n)) \in 1 .. 9
<1>. DEFINE v == SizeWord(n)
<1>1. v \in Word64
  BY SizeWordIs
<1>2. AppendMsgpackUint(n) = AppendUInt64(v)
  BY DEF AppendMsgpackUint, SizeWord
<1>. HIDE DEF v
<1>3. \A i \in 1 .. 8 : v[i] \in Byte
  BY <1>1 DEF Word64
<1>4. 204 \in Byte /\ 205 \in Byte /\ 206 \in Byte /\ 207 \in Byte
  BY DEF Byte
<1>5. AppendUInt64(v) \in Seq(Byte) /\ Len(AppendUInt64(v)) \in 1 .. 9
  BY <1>3, <1>4 DEF AppendUInt64
<1>. QED
  BY <1>2, <1>5

\* The states of a concatenation.
JoinsOf(seqs, n, g) == g = [i \in 1 .. n |-> IF i = 1 THEN seqs[i] ELSE g[i - 1] \o seqs[i]]
LEMMA JoinsExist ==
  ASSUME NEW seqs, NEW n \in Nat
  PROVE  \E g : JoinsOf(seqs, n, g)
<1>. DEFINE T == {m \in Nat : \E g : JoinsOf(seqs, m, g)}
<1>1. 0 \in T
  <2>1. JoinsOf(seqs, 0, [i \in 1 .. 0 |-> seqs])
    BY DEF JoinsOf
  <2>. QED
    BY <2>1
<1>2. ASSUME NEW m \in Nat, m \in T PROVE m + 1 \in T
  <2>1. PICK g : JoinsOf(seqs, m, g)
    BY <1>2
  <2>. DEFINE h == [i \in 1 .. m + 1 |-> IF i = m + 1 THEN (IF i = 1 THEN seqs[i] ELSE g[m] \o seqs[i]) ELSE g[i]]
  <2>2. \A i \in 1 .. m + 1 : h[i] = IF i = 1 THEN seqs[i] ELSE h[i - 1] \o seqs[i]
    <3>. TAKE i \in 1 .. m + 1
    <3>1. CASE i = m + 1
      <4>1. i # 1 => i - 1 \in 1 .. m + 1 /\ i - 1 # m + 1 /\ i - 1 = m
        BY <3>1
      <4>. QED
        BY <3>1, <4>1
    <3>2. CASE i # m + 1
      <4>1. i \in 1 .. m /\ h[i] = g[i]
        BY <3>2
      <4>2. g[i] = IF i = 1 THEN seqs[i] ELSE g[i - 1] \o seqs[i]
        BY <2>1, <4>1 DEF JoinsOf
      <4>3. i # 1 => h[i - 1] = g[i - 1]
        BY <4>1
      <4>. QED
        BY <4>1, <4>2, <4>3
    <3>. QED
      BY <3>1, <3>2
  <2>3. JoinsOf(seqs, m + 1, h)
    BY <2>2 DEF JoinsOf
  <2>. QED
    BY <2>3
<1>3. n \in T
  <2>. HIDE DEF T
  <2>. QED
    BY <1>1, <1>2, SetInduction
<1>. QED
  BY <1>3

\* What has been joined of the first k parts, for each k.
Joined(seqs, m, h) ==
  /\ h \in [0 .. m -> Seq(Byte)]
  /\ h[0] = <<>>
  /\ \A k \in 1 .. m : h[k] = h[k - 1] \o seqs[k]
LEMMA Flattened ==
  ASSUME NEW m \in Nat \ {0}, NEW seqs \in [1 .. m -> Seq(Byte)]
  PROVE  \E h : Joined(seqs, m, h) /\ FlattenSeq(seqs) = h[m]
<1>. DEFINE g == CHOOSE j : JoinsOf(seqs, m, j)
            h == [k \in 0 .. m |-> IF k = 0 THEN <<>> ELSE g[k]]
<1>1. JoinsOf(seqs, m, g)
  BY JoinsExist
<1>2. Len(seqs) = m
  OBVIOUS
<1>3. FlattenSeq(seqs) = g[m]
  <2>1. m # 0
    OBVIOUS
  <2>. QED
    BY <1>2, <2>1, Zenon DEF FlattenSeq, JoinsOf
<1>. HIDE DEF g
<1>4. \A i \in 1 .. m : g[i] = IF i = 1 THEN seqs[i] ELSE g[i - 1] \o seqs[i]
  BY <1>1, Zenon DEF JoinsOf
<1>5. h[0] = <<>> /\ \A i \in 1 .. m : h[i] = g[i]
  OBVIOUS
<1>6. \A s \in Seq(Byte) : <<>> \o s = s
  BY ConcatEmptySeq
<1>7. \A k \in 1 .. m : h[k] = h[k - 1] \o seqs[k]
  <2>. TAKE k \in 1 .. m
  <2>. HIDE DEF h
  <2>1. CASE k = 1
    BY <1>4, <1>5, <1>6, <2>1
  <2>2. CASE k # 1
    <3>1. k - 1 \in 1 .. m
      BY <2>2
    <3>. QED
      BY <1>4, <1>5, <2>2, <3>1
  <2>. QED
    BY <2>1, <2>2
<1>8. \A k \in 0 .. m : h[k] \in Seq(Byte)
  <2>. DEFINE T == {k \in Nat : k <= m => h[k] \in Seq(Byte)}
  <2>. HIDE DEF h
  <2>1. 0 \in T
    BY <1>5, EmptySeq
  <2>2. ASSUME NEW k \in Nat, k \in T PROVE k + 1 \in T
    <3>. SUFFICES ASSUME k + 1 <= m PROVE h[k + 1] \in Seq(Byte)
      OBVIOUS
    <3>1. h[k] \in Seq(Byte) /\ k + 1 \in 1 .. m /\ (k + 1) - 1 = k
      BY <2>2
    <3>2. h[k + 1] = h[k] \o seqs[k + 1] /\ seqs[k + 1] \in Seq(Byte)
      BY <1>7, <3>1
    <3>. QED
      BY <3>1, <3>2, ConcatProperties
  <2>3. \A k \in Nat : k \in T
    <3>. HIDE DEF T
    <3>. QED
      BY <2>1, <2>2, SetInduction
  <2>. QED
    BY <2>3
<1>9. h \in [0 .. m -> Seq(Byte)]
  BY <1>8
<1>10. h[m] = g[m]
  BY <1>5
<1>. HIDE DEF h
<1>. QED
  BY <1>3, <1>5, <1>7, <1>9, <1>10 DEF Joined

\* The parts of what stands in a file stand there one behind another.
PiecesAt(f, p, m, seqs, h) ==
  \A k \in 1 .. m : Stands(f, p + Len(h[k - 1]), seqs[k]) /\ (p + Len(h[k - 1])) + Len(seqs[k]) = p + Len(h[k])
LEMMA PiecesStand ==
  ASSUME NEW f \in Seq(Byte), NEW p \in Nat, NEW m \in Nat, NEW seqs \in [1 .. m -> Seq(Byte)], NEW h, Joined(seqs, m, h),
         Stands(f, p, h[m])
  PROVE  PiecesAt(f, p, m, seqs, h)
<1>1. /\ \A k \in 0 .. m : h[k] \in Seq(Byte)
      /\ \A k \in 1 .. m : h[k] = h[k - 1] \o seqs[k]
  BY DEF Joined
<1>. DEFINE T == {n \in Nat : n <= m => Stands(f, p, h[m - n])}
<1>2. 0 \in T
  OBVIOUS
<1>3. ASSUME NEW n \in Nat, n \in T PROVE n + 1 \in T
  <2>. SUFFICES ASSUME n + 1 <= m PROVE Stands(f, p, h[m - (n + 1)])
    OBVIOUS
  <2>. DEFINE k == m - n
  <2>1. k \in 1 .. m /\ k - 1 \in 0 .. m /\ m - (n + 1) = k - 1
    OBVIOUS
  <2>2. Stands(f, p, h[k])
    BY <1>3
  <2>. HIDE DEF k
  <2>3. h[k] = h[k - 1] \o seqs[k] /\ h[k - 1] \in Seq(Byte) /\ seqs[k] \in Seq(Byte)
    BY <1>1, <2>1
  <2>4. Stands(f, p, h[k - 1])
    BY <2>2, <2>3, PartsStand
  <2>. QED
    BY <2>1, <2>4
<1>4. \A n \in Nat : n \in T
  <2>. HIDE DEF T
  <2>. QED
    BY <1>2, <1>3, SetInduction
<1>. SUFFICES ASSUME NEW k \in 1 .. m
             PROVE  Stands(f, p + Len(h[k - 1]), seqs[k]) /\ (p + Len(h[k - 1])) + Len(seqs[k]) = p + Len(h[k])
  BY DEF PiecesAt
<1>5. m - k \in Nat /\ m - k <= m /\ m - (m - k) = k /\ k - 1 \in 0 .. m
  OBVIOUS
<1>6. Stands(f, p, h[k])
  BY <1>4, <1>5
<1>7. h[k] = h[k - 1] \o seqs[k] /\ h[k - 1] \in Seq(Byte) /\ seqs[k] \in Seq(Byte)
  BY <1>1, <1>5
<1>8. Stands(f, p + Len(h[k - 1]), seqs[k])
  BY <1>6, <1>7, PartsStand
<1>9. Len(h[k]) = Len(h[k - 1]) + Len(seqs[k]) /\ Len(h[k - 1]) \in Nat /\ Len(seqs[k]) \in Nat
  BY <1>7, ConcatProperties, LenProperties
<1>. QED
  BY <1>8, <1>9

\* Parts that are not empty are at least as long as they are many.
LEMMA PiecesLong ==
  ASSUME NEW m \in Nat, NEW seqs \in [1 .. m -> Seq(Byte)], NEW h, Joined(seqs, m, h), \A k \in 1 .. m : Len(seqs[k]) > 0
  PROVE  \A k \in 0 .. m : Len(h[k]) \in Nat /\ Len(h[k]) >= k
<1>1. /\ \A k \in 0 .. m : h[k] \in Seq(Byte)
      /\ \A k \in 1 .. m : h[k] = h[k - 1] \o seqs[k]
      /\ h[0] = <<>>
  BY DEF Joined
<1>. DEFINE T == {k \in Nat : k <= m => Len(h[k]) \in Nat /\ Len(h[k]) >= k}
<1>2. 0 \in T
  BY <1>1
<1>3. ASSUME NEW k \in Nat, k \in T PROVE k + 1 \in T
  <2>. SUFFICES ASSUME k + 1 <= m PROVE Len(h[k + 1]) \in Nat /\ Len(h[k + 1]) >= k + 1
    OBVIOUS
  <2>1. Len(h[k]) \in Nat /\ Len(h[k]) >= k
    BY <1>3
  <2>2. k + 1 \in 1 .. m /\ (k + 1) - 1 = k /\ k \in 0 .. m
    OBVIOUS
  <2>3. h[k + 1] = h[k] \o seqs[k + 1] /\ h[k] \in Seq(Byte) /\ seqs[k + 1] \in Seq(Byte) /\ Len(seqs[k + 1]) > 0
    BY <1>1, <2>2
  <2>4. Len(h[k + 1]) = Len(h[k]) + Len(seqs[k + 1]) /\ Len(seqs[k + 1]) \in Nat
    BY <2>3, ConcatProperties, LenProperties
  <2>. DEFINE a == Len(h[k])  b == Len(seqs[k + 1])
  <2>5. a \in Nat /\ a >= k /\ b \in Nat /\ b > 0 /\ Len(h[k + 1]) = a + b
    BY <2>1, <2>3, <2>4
  <2>. HIDE DEF a, b
  <2>. QED
    BY <2>5
<1>4. \A k \in Nat : k \in T
  <2>. HIDE DEF T
  <2>. QED
    BY <1>2, <1>3, SetInduction
<1>. QED
  BY <1>4

\* Two loops that begin alike and step alike are alike.
StepAlike(n, g, c) == \A k \in 1 .. n : g[k - 1] = c[k - 1] => g[k] = c[k]
Alike(n, g, c) == \A k \in 0 .. n : g[k] = c[k]
\* Two runs of the same steps from the same state are in the same states.
LEMMA SameStates ==
  ASSUME NEW n \in Nat, NEW g, NEW c, g[0] = c[0], StepAlike(n, g, c)
  PROVE  Alike(n, g, c)
<1>. DEFINE T == {k \in Nat : k <= n => g[k] = c[k]}
<1>1. 0 \in T
  OBVIOUS
<1>2. ASSUME NEW k \in Nat, k \in T PROVE k + 1 \in T
  <2>. SUFFICES ASSUME k + 1 <= n PROVE g[k + 1] = c[k + 1]
    OBVIOUS
  <2>1. g[k] = c[k] /\ k + 1 \in 1 .. n /\ (k + 1) - 1 = k
    BY <1>2
  <2>. QED
    BY <2>1 DEF StepAlike
<1>3. \A k \in Nat : k \in T
  <2>. HIDE DEF T
  <2>. QED
    BY <1>1, <1>2, SetInduction
<1>. QED
  BY <1>3 DEF Alike

\* A sequence up to its next element.
LEMMA NextFront ==
  ASSUME NEW S, NEW s \in Seq(S), NEW k \in Nat, k < Len(s)
  PROVE  Append(SubSeq(s, 1, k), s[k + 1]) = SubSeq(s, 1, k + 1)
<1>1. Len(s) \in Nat
  BY LenProperties
<1>2. 1 \in 1 .. Len(s) /\ k + 1 \in 1 .. Len(s) /\ (k + 1) - 1 = k
  BY <1>1
<1>3. SubSeq(s, 1, k + 1) = SubSeq(s, 1, (k + 1) - 1) \o <<s[k + 1]>>
  BY <1>2, SubSeqRecursiveSecond, Zenon
<1>4. SubSeq(s, 1, k) \in Seq(S)
  <2>1. \A i \in 1 .. k : s[i] \in S
    BY <1>1, ElementOfSeq
  <2>. QED
    BY <2>1, SubSeqProperties
<1>5. s[k + 1] \in S
  BY <1>2, ElementOfSeq
<1>. QED
  BY <1>2, <1>3, <1>4, <1>5, AppendIsConcat

LEMMA FunctionIsSeq ==
  ASSUME NEW S, NEW m \in Nat, NEW s \in [1 .. m -> S]
  PROVE  s \in Seq(S) /\ Len(s) = m
OBVIOUS

LEMMA SmallNumbers == Int32Max \in Nat /\ \A x \in 0 .. Int32Max : x \in Nat /\ x <= Int32Max
<1>1. Int32Max \in Nat
  BY SMT DEF Int32Max
<1>. QED
  BY <1>1

\* The sizes of the blocks.
SizeParts(m, lens) == [i \in 1 .. m |-> AppendMsgpackUint(lens[i])]
LEMMA SizePartsType ==
  ASSUME NEW m \in Nat, NEW lens \in [1 .. m -> 0 .. Int32Max]
  PROVE  /\ SizeParts(m, lens) \in [1 .. m -> Seq(Byte)]
         /\ \A k \in 1 .. m : SizeParts(m, lens)[k] = AppendMsgpackUint(lens[k]) /\ Len(SizeParts(m, lens)[k]) > 0
<1>1. \A k \in 1 .. m : lens[k] \in Nat /\ lens[k] <= Int32Max
  <2>1. \A k \in 1 .. m : lens[k] \in 0 .. Int32Max
    OBVIOUS
  <2>. QED
    BY <2>1, SmallNumbers, Zenon
<1>2. \A k \in 1 .. m : AppendMsgpackUint(lens[k]) \in Seq(Byte) /\ Len(AppendMsgpackUint(lens[k])) > 0
  <2>1. \A x \in 1 .. 9 : x > 0
    OBVIOUS
  <2>. QED
    BY <1>1, <2>1, SizeBytesType
<1>. QED
  BY <1>2 DEF SizeParts

CountsOf(payload, n, g) == g = [k \in 0 .. n |-> IF k = 0 THEN [ok |-> TRUE, v |-> <<>>, p |-> 1] ELSE NextSize(payload, g[k - 1])]

\* What is known of the sizes behind the first k.
SizesAfter(h, lens, k) == [ok |-> TRUE, v |-> SubSeq(lens, 1, k), p |-> 1 + Len(h[k])]
LEMMA OneSize ==
  ASSUME NEW m \in Nat \ {0}, NEW lens \in [1 .. m -> 0 .. Int32Max], MaxLz4DecompressedSize \in Nat,
         \A k \in 1 .. m : lens[k] <= MaxLz4DecompressedSize,
         NEW h, Joined(SizeParts(m, lens), m, h), NEW k \in 0 .. m - 1
  PROVE  NextSize(h[m], SizesAfter(h, lens, k)) = SizesAfter(h, lens, k + 1)
<1>. DEFINE payload == h[m]
            s == SizesAfter(h, lens, k)
            e == AppendMsgpackUint(lens[k + 1])
            r == DecodeMsgpackInt(payload, s.p)
            v == SizeWord(lens[k + 1])
<1>1. k + 1 \in 1 .. m /\ (k + 1) - 1 = k /\ k \in 0 .. m /\ m \in 0 .. m /\ k + 1 \in 0 .. m
  OBVIOUS
<1>2. lens[k + 1] \in Nat /\ lens[k + 1] <= Int32Max /\ lens[k + 1] <= MaxLz4DecompressedSize
  <2>1. lens[k + 1] \in 0 .. Int32Max
    BY <1>1
  <2>. QED
    BY <1>1, <2>1, SmallNumbers, Zenon
<1>3. payload \in Seq(Byte) /\ h[k] \in Seq(Byte)
  BY <1>1 DEF Joined
<1>4. SizeParts(m, lens) \in [1 .. m -> Seq(Byte)] /\ SizeParts(m, lens)[k + 1] = e /\ Len(e) > 0 /\ e \in Seq(Byte)
  BY <1>1, SizePartsType
<1>5. Stands(payload, 1, payload)
  BY <1>3 DEF Stands
<1>6. Stands(payload, 1 + Len(h[k]), e) /\ (1 + Len(h[k])) + Len(e) = 1 + Len(h[k + 1])
  <2>. DEFINE seqs == SizeParts(m, lens)
  <2>1. seqs \in [1 .. m -> Seq(Byte)] /\ seqs[k + 1] = e /\ Joined(seqs, m, h) /\ Stands(payload, 1, h[m])
    BY <1>4, <1>5
  <2>. HIDE DEF payload, seqs, e
  <2>2. m \in Nat /\ 1 \in Nat
    OBVIOUS
  <2>3. PiecesAt(payload, 1, m, seqs, h)
    BY <1>3, <2>1, <2>2, PiecesStand, Zenon
  <2>. QED
    BY <1>1, <2>1, <2>3 DEF PiecesAt
<1>7. s.ok /\ s.p = 1 + Len(h[k]) /\ s.v = SubSeq(lens, 1, k)
  BY DEF SizesAfter
<1>. HIDE DEF payload, s, e
<1>8. ~(s.p > Len(payload)) /\ s.p \in Nat
  <2>1. s.p + Len(e) - 1 <= Len(payload) /\ s.p \in Nat \ {0}
    BY <1>6, <1>7, Zenon DEF Stands
  <2>2. Len(e) \in Nat /\ Len(payload) \in Nat
    BY <1>3, <1>4, LenProperties
  <2>. QED
    BY <1>4, <2>1, <2>2
<1>9. r = [ok |-> TRUE, sign |-> "+", v |-> v, p |-> s.p + Len(e)]
  <2>. DEFINE n == lens[k + 1]
  <2>1. n \in Nat /\ n <= Int32Max /\ s.p \in Nat /\ Stands(payload, s.p, AppendMsgpackUint(n))
    BY <1>2, <1>6, <1>7, <1>8 DEF e
  <2>. HIDE DEF n
  <2>2. DecodeMsgpackInt(payload, s.p) = [ok |-> TRUE, sign |-> "+", v |-> SizeWord(n), p |-> s.p + Len(AppendMsgpackUint(n))]
    BY <1>3, <2>1, SizeRoundTrip
  <2>. QED
    BY <2>2 DEF n, e
<1>10. ValidateLz4Size(v) /\ SizeOf(v) = lens[k + 1]
  BY <1>2, SizeWordIs DEF ValidateLz4Size
<1>. HIDE DEF v
<1>11. r.ok /\ r.v = v /\ r.p = 1 + Len(h[k + 1])
  BY <1>6, <1>7, <1>9
<1>12. NextSize(payload, s) = [ok |-> TRUE, v |-> Append(s.v, SizeOf(r.v)), p |-> r.p]
  <2>. HIDE DEF r
  <2>. QED
    BY <1>7, <1>8, <1>10, <1>11, Zenon DEF NextSize, r
<1>13. Append(SubSeq(lens, 1, k), lens[k + 1]) = SubSeq(lens, 1, k + 1)
  <2>1. lens \in Seq(0 .. Int32Max) /\ Len(lens) = m
    BY FunctionIsSeq
  <2>2. k \in Nat /\ k < Len(lens)
    BY <2>1
  <2>. QED
    BY <2>1, <2>2, NextFront
<1>. HIDE DEF r
<1>14. Append(s.v, SizeOf(r.v)) = SubSeq(lens, 1, k + 1)
  BY <1>7, <1>10, <1>11, <1>13
<1>. QED
  BY <1>11, <1>12, <1>14 DEF SizesAfter, payload, s

\* The sizes that were written are the sizes that are read.
LEMMA SizesRead ==
  ASSUME NEW m \in Nat \ {0}, NEW lens \in [1 .. m -> 0 .. Int32Max], MaxLz4DecompressedSize \in Nat,
         \A k \in 1 .. m : lens[k] <= MaxLz4DecompressedSize
  PROVE  /\ FlattenSeq(SizeParts(m, lens)) \in Seq(Byte)
         /\ DecodeMsgpackIntList(FlattenSeq(SizeParts(m, lens))).ok
         /\ DecodeMsgpackIntList(FlattenSeq(SizeParts(m, lens))).v = lens
<1>. DEFINE seqs == SizeParts(m, lens)
<1>1. seqs \in [1 .. m -> Seq(Byte)] /\ \A k \in 1 .. m : Len(seqs[k]) > 0
  BY SizePartsType
<1>. HIDE DEF seqs
<1>2. PICK h : Joined(seqs, m, h) /\ FlattenSeq(seqs) = h[m]
  BY <1>1, Flattened
<1>. DEFINE payload == h[m]
            n == Len(payload)
            at(k) == IF k <= m THEN k ELSE m
            c == [k \in 0 .. n |-> SizesAfter(h, lens, at(k))]
            g == CHOOSE j : CountsOf(payload, n, j)
            start == [ok |-> TRUE, v |-> <<>>, p |-> 1]
<1>3. payload \in Seq(Byte) /\ n \in Nat /\ n >= m /\ h[0] = <<>>
  <2>1. payload \in Seq(Byte) /\ h[0] = <<>>
    BY <1>2 DEF Joined
  <2>2. \A k \in 0 .. m : Len(h[k]) \in Nat /\ Len(h[k]) >= k
    <3>1. m \in Nat
      OBVIOUS
    <3>. QED
      BY <1>1, <1>2, <3>1, PiecesLong
  <2>3. Len(h[m]) \in Nat /\ Len(h[m]) >= m
    BY <2>2
  <2>. QED
    BY <2>1, <2>3
<1>4. DecodeMsgpackIntList(payload) = g[n]
  BY Zenon DEF DecodeMsgpackIntList, CountsOf
<1>5. \A k \in 0 .. n : c[k] = SizesAfter(h, lens, at(k))
  OBVIOUS
<1>. HIDE DEF n, c
<1>6. c[0] = start
  <2>1. at(0) = 0 /\ SubSeq(lens, 1, 0) = <<>> /\ 1 + Len(h[0]) = 1
    BY <1>3, EmptySeq, SubSeqEmpty
  <2>2. SizesAfter(h, lens, 0) = start
    BY <2>1, Zenon DEF SizesAfter
  <2>3. 0 \in 0 .. n
    BY <1>3
  <2>. HIDE DEF start
  <2>. QED
    BY <1>5, <2>1, <2>2, <2>3
<1>7. \A k \in 1 .. n : NextSize(payload, c[k - 1]) = c[k]
  <2>. TAKE k \in 1 .. n
  <2>0. k - 1 \in 0 .. n /\ k \in 0 .. n
    BY <1>3
  <2>1. CASE k <= m
    <3>1. at(k - 1) = k - 1 /\ at(k) = k /\ k - 1 \in 0 .. m - 1 /\ (k - 1) + 1 = k
      BY <2>1
    <3>2. NextSize(h[m], SizesAfter(h, lens, k - 1)) = SizesAfter(h, lens, (k - 1) + 1)
      BY <1>2, <3>1, OneSize DEF seqs
    <3>. QED
      BY <1>5, <2>0, <3>1, <3>2
  <2>2. CASE ~(k <= m)
    <3>1. at(k - 1) = m /\ at(k) = m
      BY <1>3, <2>2
    <3>. DEFINE s == SizesAfter(h, lens, m)
    <3>2. s.ok /\ s.p = 1 + Len(payload)
      BY DEF SizesAfter
    <3>. HIDE DEF s
    <3>3. s.p > Len(payload)
      BY <1>3, <3>2 DEF n
    <3>4. NextSize(payload, s) = s
      BY <3>2, <3>3, Zenon DEF NextSize
    <3>. QED
      BY <1>5, <2>0, <3>1, <3>4 DEF s
  <2>. QED
    BY <2>1, <2>2
<1>. HIDE DEF start
<1>8. CountsOf(payload, n, c)
  <2>1. c = [k \in 0 .. n |-> c[k]]
    BY DEF c
  <2>2. \A k \in 0 .. n : c[k] = IF k = 0 THEN start ELSE NextSize(payload, c[k - 1])
    BY <1>3, <1>6, <1>7
  <2>. HIDE DEF payload
  <2>. QED
    BY <2>1, <2>2, Zenon DEF CountsOf, start
<1>9. CountsOf(payload, n, g)
  BY <1>8, Zenon
<1>. HIDE DEF g
<1>10. \A k \in 0 .. n : g[k] = IF k = 0 THEN start ELSE NextSize(payload, g[k - 1])
  BY <1>9, Zenon DEF CountsOf, start
<1>11. g[n] = c[n]
  <2>. HIDE DEF payload
  <2>1. g[0] = c[0]
    BY <1>3, <1>6, <1>10
  <2>2. StepAlike(n, g, c)
    <3>. SUFFICES ASSUME NEW k \in 1 .. n, g[k - 1] = c[k - 1] PROVE g[k] = c[k]
      BY Zenon DEF StepAlike
    <3>1. k \in 0 .. n /\ k # 0
      BY <1>3
    <3>. QED
      BY <1>7, <1>10, <3>1
  <2>3. n \in Nat /\ n \in 0 .. n
    BY <1>3
  <2>4. Alike(n, g, c)
    BY <2>1, <2>2, <2>3, SameStates, Zenon
  <2>. QED
    BY <2>3, <2>4, Zenon DEF Alike
<1>12. c[n] = SizesAfter(h, lens, m)
  <2>1. at(n) = m /\ n \in 0 .. n
    BY <1>3
  <2>. QED
    BY <1>5, <2>1
<1>13. SubSeq(lens, 1, m) = lens
  <2>1. lens \in Seq(0 .. Int32Max) /\ Len(lens) = m
    BY FunctionIsSeq
  <2>. QED
    BY <2>1, SubSeqFull
<1>14. DecodeMsgpackIntList(payload).ok /\ DecodeMsgpackIntList(payload).v = lens
  BY <1>4, <1>11, <1>12, <1>13 DEF SizesAfter
<1>. QED
  BY <1>2, <1>3, <1>14 DEF seqs

\* The places behind the first k blocks.
Rising(m, lens, up) ==
  /\ lens \in [1 .. m -> Nat] /\ up \in [0 .. m -> Nat]
  /\ up[0] = 0
  /\ \A k \in 1 .. m : up[k] = up[k - 1] + lens[k]

\* No partial sum exceeds the sum.
LEMMA RisingBelow ==
  ASSUME NEW m \in Nat, NEW lens, NEW up, Rising(m, lens, up)
  PROVE  \A k \in 0 .. m : up[k] <= up[m]
<1>. DEFINE T == {n \in Nat : n <= m => up[m - n] <= up[m]}
<1>0. /\ \A k \in 0 .. m : up[k] \in Nat
      /\ \A k \in 1 .. m : lens[k] \in Nat /\ up[k] = up[k - 1] + lens[k]
  BY DEF Rising
<1>1. 0 \in T
  BY <1>0
<1>2. ASSUME NEW n \in Nat, n \in T PROVE n + 1 \in T
  <2>. SUFFICES ASSUME n + 1 <= m PROVE up[m - (n + 1)] <= up[m]
    OBVIOUS
  <2>. DEFINE k == m - n
  <2>1. k \in 1 .. m /\ k \in 0 .. m /\ k - 1 \in 0 .. m /\ m - (n + 1) = k - 1 /\ m \in 0 .. m
    OBVIOUS
  <2>2. up[k] <= up[m]
    BY <1>2
  <2>. HIDE DEF k
  <2>3. up[k] = up[k - 1] + lens[k] /\ up[k - 1] \in Nat /\ lens[k] \in Nat /\ up[m] \in Nat
    BY <1>0, <2>1
  <2>4. up[k - 1] <= up[m]
    BY <2>2, <2>3
  <2>. QED
    BY <2>1, <2>4
<1>3. \A n \in Nat : n \in T
  <2>. HIDE DEF T
  <2>. QED
    BY <1>1, <1>2, SetInduction
<1>. SUFFICES ASSUME NEW k \in 0 .. m PROVE up[k] <= up[m]
  OBVIOUS
<1>4. m - k \in Nat /\ m - k <= m /\ m - (m - k) = k
  OBVIOUS
<1>. QED
  BY <1>3, <1>4

TotalsOf(lens, n, g) == g = [k \in 0 .. n |-> IF k = 0 THEN 0 ELSE AddSize(g[k - 1], lens[k])]

\* The sum of sizes that fit.
LEMMA SumIs ==
  ASSUME NEW m \in Nat, NEW lens, NEW up, Rising(m, lens, up), MaxLz4DecompressedSize \in Nat, up[m] <= MaxLz4DecompressedSize
  PROVE  SumLz4Sizes(lens) = up[m]
<1>. DEFINE g == CHOOSE j : TotalsOf(lens, m, j)
<1>1. /\ lens \in [1 .. m -> Nat] /\ up \in [0 .. m -> Nat] /\ up[0] = 0
      /\ \A k \in 0 .. m : up[k] \in Nat
      /\ \A k \in 1 .. m : lens[k] \in Nat /\ up[k] = up[k - 1] + lens[k]
  BY DEF Rising
<1>2. Len(lens) = m
  BY <1>1, FunctionIsSeq
<1>3. SumLz4Sizes(lens) = g[m]
  BY <1>2, Zenon DEF SumLz4Sizes, TotalsOf
<1>4. \A k \in 0 .. m : up[k] <= MaxLz4DecompressedSize
  <2>1. \A k \in 0 .. m : up[k] <= up[m]
    BY RisingBelow
  <2>2. up[m] \in Nat
    BY <1>1
  <2>. QED
    BY <1>1, <2>1, <2>2
<1>5. \A k \in 1 .. m : AddSize(up[k - 1], lens[k]) = up[k]
  <2>. TAKE k \in 1 .. m
  <2>. DEFINE a == up[k - 1]  b == lens[k]  c == up[k]
  <2>1. k - 1 \in 0 .. m /\ k \in 0 .. m
    OBVIOUS
  <2>2. a \in Nat /\ b \in Nat /\ c \in Nat /\ c = a + b /\ c <= MaxLz4DecompressedSize
    BY <1>1, <1>4, <2>1
  <2>. HIDE DEF a, b, c
  <2>3. ~(a = -1 \/ b > MaxLz4DecompressedSize - a)
    BY <2>2
  <2>4. AddSize(a, b) = c
    BY <2>2, <2>3, Zenon DEF AddSize
  <2>. QED
    BY <2>4 DEF a, b, c
<1>6. TotalsOf(lens, m, up)
  <2>1. up = [k \in 0 .. m |-> up[k]]
    BY <1>1
  <2>2. \A k \in 0 .. m : up[k] = IF k = 0 THEN 0 ELSE AddSize(up[k - 1], lens[k])
    BY <1>1, <1>5
  <2>. QED
    BY <2>1, <2>2, Zenon DEF TotalsOf
<1>7. TotalsOf(lens, m, g)
  BY <1>6, Zenon
<1>. HIDE DEF g
<1>8. \A k \in 0 .. m : g[k] = IF k = 0 THEN 0 ELSE AddSize(g[k - 1], lens[k])
  BY <1>7, Zenon DEF TotalsOf
<1>9. 0 \in 0 .. m /\ m \in 0 .. m /\ m \in Nat
  OBVIOUS
<1>10. g[0] = up[0]
  BY <1>1, <1>8, <1>9
<1>11. StepAlike(m, g, up)
  <2>. SUFFICES ASSUME NEW k \in 1 .. m, g[k - 1] = up[k - 1] PROVE g[k] = up[k]
    BY Zenon DEF StepAlike
  <2>1. k \in 0 .. m /\ k # 0
    OBVIOUS
  <2>. QED
    BY <1>5, <1>8, <2>1
<1>12. Alike(m, g, up)
  BY <1>9, <1>10, <1>11, SameStates, Zenon
<1>. QED
  BY <1>3, <1>9, <1>12, Zenon DEF Alike

\* A block is written with a header of five bytes.
LEMMA BinType ==
  ASSUME NEW payload \in Seq(Byte), Len(payload) <= Int32Max
  PROVE  writeBin32(payload) \in Seq(Byte) /\ Len(writeBin32(payload)) > 0
<1>. DEFINE n == Bytes4(Len(payload))
            h == <<198, n[1], n[2], n[3], n[4]>>
<1>1. n \in Length
  <2>1. Len(payload) \in Nat
    BY LenProperties
  <2>. QED
    BY <2>1, LengthAsNumber
<1>. HIDE DEF n
<1>2. h \in Seq(Byte) /\ Len(h) = 5
  <2>1. n[1] \in Byte /\ n[2] \in Byte /\ n[3] \in Byte /\ n[4] \in Byte /\ 198 \in Byte
    BY <1>1 DEF Length, Byte
  <2>. QED
    BY <2>1
<1>3. writeBin32(payload) = h \o payload
  BY DEF writeBin32, BinForm, n
<1>. HIDE DEF h
<1>4. h \o payload \in Seq(Byte) /\ Len(h \o payload) = Len(h) + Len(payload) /\ Len(payload) \in Nat
  BY <1>2, ConcatProperties, LenProperties
<1>. QED
  BY <1>2, <1>3, <1>4

\* The blocks of an envelope: packed[k] is what the compressor made of block k.
BinParts(m, packed) == [i \in 1 .. m |-> writeBin32(packed[i])]
BlockAt(bytes, up, k) == SubSeq(bytes, up[k - 1] + 1, up[k])
Packed(bytes, m, lens, up, packed) ==
  /\ Rising(m, lens, up) /\ up[m] = Len(bytes)
  /\ packed \in [1 .. m -> Seq(Byte)]
  /\ \A k \in 1 .. m : /\ lens[k] > 0
                       /\ Len(packed[k]) <= Int32Max
                       /\ UncompressBlock(packed[k]) = [ok |-> TRUE, v |-> BlockAt(bytes, up, k)]
BlocksAfter(bytes, up, h, p, k) == [ok |-> TRUE, v |-> SubSeq(bytes, 1, up[k]), p |-> p + Len(h[k])]

LEMMA BinPartsType ==
  ASSUME NEW bytes, NEW m \in Nat, NEW lens, NEW up, NEW packed, Packed(bytes, m, lens, up, packed)
  PROVE  /\ BinParts(m, packed) \in [1 .. m -> Seq(Byte)]
         /\ \A k \in 1 .. m : BinParts(m, packed)[k] = writeBin32(packed[k]) /\ Len(BinParts(m, packed)[k]) > 0
<1>1. \A k \in 1 .. m : packed[k] \in Seq(Byte) /\ Len(packed[k]) <= Int32Max
  BY DEF Packed
<1>2. \A k \in 1 .. m : writeBin32(packed[k]) \in Seq(Byte) /\ Len(writeBin32(packed[k])) > 0
  BY <1>1, BinType
<1>. QED
  BY <1>2 DEF BinParts

\* Behind the first k - 1 blocks the reader finds block k.
LEMMA OneBlock ==
  ASSUME NEW bytes \in Seq(Byte), NEW m \in Nat, NEW lens, NEW up, NEW packed, Packed(bytes, m, lens, up, packed),
         NEW f \in Seq(Byte), NEW p \in Nat, NEW h, Joined(BinParts(m, packed), m, h), Stands(f, p, h[m]), NEW k \in 1 .. m
  PROVE  NextBlock(f, BlocksAfter(bytes, up, h, p, k - 1), lens[k]) = BlocksAfter(bytes, up, h, p, k)
<1>. DEFINE s == BlocksAfter(bytes, up, h, p, k - 1)
            e == writeBin32(packed[k])
            block == BlockAt(bytes, up, k)
            a == up[k - 1]
            b == up[k]
            n == lens[k]
            c == packed[k]
            seqs == BinParts(m, packed)
<1>1. /\ a \in Nat /\ n \in Nat /\ b = a + n /\ n > 0 /\ b <= Len(bytes)
      /\ c \in Seq(Byte) /\ Len(c) <= Int32Max
      /\ UncompressBlock(c) = [ok |-> TRUE, v |-> block]
  <2>1. k - 1 \in 0 .. m /\ k \in 0 .. m
    OBVIOUS
  <2>2. up[k] <= up[m] /\ up[m] = Len(bytes)
    BY <2>1, RisingBelow DEF Packed
  <2>. QED
    BY <2>1, <2>2 DEF Packed, Rising
<1>2. seqs \in [1 .. m -> Seq(Byte)] /\ seqs[k] = e /\ Joined(seqs, m, h)
  BY BinPartsType
<1>3. s.ok /\ s.p = p + Len(h[k - 1]) /\ s.v = SubSeq(bytes, 1, a)
  BY DEF BlocksAfter
<1>4. block = SubSeq(bytes, a + 1, b)
  BY DEF BlockAt
<1>. HIDE DEF s, e, block, a, b, n, c, seqs
<1>5. Len(bytes) \in Nat
  BY LenProperties
<1>6. Len(block) = n
  <2>1. a + 1 \in Int /\ b \in Int /\ \A i \in a + 1 .. b : bytes[i] \in Byte
    <3>1. \A i \in a + 1 .. b : i \in 1 .. Len(bytes)
      BY <1>1, <1>5
    <3>. QED
      BY <1>1, <3>1, ElementOfSeq
  <2>2. Len(SubSeq(bytes, a + 1, b)) = IF a + 1 <= b THEN b - (a + 1) + 1 ELSE 0
    BY <2>1, SubSeqProperties
  <2>. QED
    BY <1>1, <1>4, <2>2
<1>7. PiecesAt(f, p, m, seqs, h)
  BY <1>2, PiecesStand, Zenon
<1>8. Stands(f, s.p, e) /\ s.p + Len(e) = p + Len(h[k])
  BY <1>2, <1>3, <1>7, Zenon DEF PiecesAt
<1>9. ReadBin(f, s.p) = [ok |-> TRUE, v |-> c, p |-> s.p + Len(e)]
  <2>1. s.p \in Nat
    BY <1>8, Zenon DEF Stands
  <2>2. ReadBin(f, s.p) = [ok |-> TRUE, v |-> c, p |-> s.p + Len(writeBin32(c))]
    BY <1>1, <1>8, <2>1, BinRoundTrip DEF e, c
  <2>. QED
    BY <2>2 DEF e, c
<1>10. DecompressLz4Bytes(c, n) = [ok |-> TRUE, v |-> block]
  <2>1. ~(n = 0)
    BY <1>1
  <2>2. UncompressBlock(c).ok /\ UncompressBlock(c).v = block
    BY <1>1
  <2>. QED
    BY <1>1, <1>6, <2>1, <2>2, Zenon DEF DecompressLz4Bytes
<1>11. NextBlock(f, s, n) = [ok |-> TRUE, v |-> s.v \o block, p |-> s.p + Len(e)]
  <2>. DEFINE bin == ReadBin(f, s.p)
  <2>1. bin.ok /\ bin.v = c /\ bin.p = s.p + Len(e)
    BY <1>9
  <2>. HIDE DEF bin
  <2>. DEFINE d == DecompressLz4Bytes(bin.v, n)
  <2>2. d.ok /\ d.v = block
    BY <1>10, <2>1
  <2>. HIDE DEF d
  <2>3. NextBlock(f, s, n) = [ok |-> TRUE, v |-> s.v \o d.v, p |-> bin.p]
    BY <1>3, <2>1, <2>2, Zenon DEF NextBlock, bin, d
  <2>. QED
    BY <2>1, <2>2, <2>3
<1>12. s.v \o block = SubSeq(bytes, 1, b)
  <2>1. 1 \in 1 .. Len(bytes) + 1 /\ a \in 1 - 1 .. Len(bytes) /\ b \in a .. Len(bytes)
    BY <1>1, <1>5
  <2>2. SubSeq(bytes, 1, a) \o SubSeq(bytes, a + 1, b) = SubSeq(bytes, 1, b)
    BY <2>1, ConcatAdjacentSubSeq, Zenon
  <2>. QED
    BY <1>3, <1>4, <2>2
<1>. QED
  BY <1>8, <1>11, <1>12 DEF BlocksAfter, s, b, n

DataOf(f, p, sizes, n, g) == g = [k \in 0 .. n |-> IF k = 0 THEN [ok |-> TRUE, v |-> <<>>, p |-> p] ELSE NextBlock(f, g[k - 1], sizes[k])]

\* The blocks of an envelope, read one behind another, are the data.
LEMMA BlocksRead ==
  ASSUME NEW bytes \in Seq(Byte), NEW m \in Nat, NEW lens, NEW up, NEW packed, Packed(bytes, m, lens, up, packed),
         NEW f \in Seq(Byte), NEW p \in Nat, NEW h, Joined(BinParts(m, packed), m, h), Stands(f, p, h[m])
  PROVE  Blocks(f, p, lens) = [ok |-> TRUE, v |-> bytes, p |-> p + Len(h[m])]
<1>. DEFINE g == CHOOSE j : DataOf(f, p, lens, m, j)
            c == [k \in 0 .. m |-> BlocksAfter(bytes, up, h, p, k)]
            start == [ok |-> TRUE, v |-> <<>>, p |-> p]
<1>1. lens \in [1 .. m -> Nat] /\ up[0] = 0 /\ up[m] = Len(bytes)
  BY DEF Packed, Rising
<1>2. Len(lens) = m
  BY <1>1, FunctionIsSeq
<1>3. Blocks(f, p, lens) = g[m]
  BY <1>2, Zenon DEF Blocks, DataOf
<1>4. \A k \in 0 .. m : c[k] = BlocksAfter(bytes, up, h, p, k)
  OBVIOUS
<1>5. 0 \in 0 .. m /\ m \in 0 .. m /\ m \in Nat
  OBVIOUS
<1>6. BlocksAfter(bytes, up, h, p, 0) = start
  <2>1. SubSeq(bytes, 1, 0) = <<>>
    BY SubSeqEmpty
  <2>2. h[0] = <<>> /\ p + Len(<<>>) = p
    BY EmptySeq DEF Joined
  <2>3. p + Len(h[0]) = p
    BY <2>2
  <2>. QED
    BY <1>1, <2>1, <2>3, Zenon DEF BlocksAfter
<1>7. \A k \in 1 .. m : NextBlock(f, c[k - 1], lens[k]) = c[k]
  <2>. TAKE k \in 1 .. m
  <2>1. k - 1 \in 0 .. m /\ k \in 0 .. m
    OBVIOUS
  <2>2. NextBlock(f, BlocksAfter(bytes, up, h, p, k - 1), lens[k]) = BlocksAfter(bytes, up, h, p, k)
    BY OneBlock
  <2>. HIDE DEF c
  <2>. QED
    BY <1>4, <2>1, <2>2
<1>. HIDE DEF start
<1>8. DataOf(f, p, lens, m, c)
  <2>1. c = [k \in 0 .. m |-> c[k]]
    OBVIOUS
  <2>. HIDE DEF c
  <2>2. \A k \in 0 .. m : c[k] = IF k = 0 THEN start ELSE NextBlock(f, c[k - 1], lens[k])
    BY <1>4, <1>5, <1>6, <1>7
  <2>. QED
    BY <2>1, <2>2, Zenon DEF DataOf, start
<1>. HIDE DEF c
<1>9. DataOf(f, p, lens, m, g)
  BY <1>8, Zenon
<1>. HIDE DEF g
<1>10. \A k \in 0 .. m : g[k] = IF k = 0 THEN start ELSE NextBlock(f, g[k - 1], lens[k])
  BY <1>9, Zenon DEF DataOf, start
<1>11. g[0] = c[0]
  BY <1>4, <1>5, <1>6, <1>10
<1>12. StepAlike(m, g, c)
  <2>. SUFFICES ASSUME NEW k \in 1 .. m, g[k - 1] = c[k - 1] PROVE g[k] = c[k]
    BY Zenon DEF StepAlike
  <2>1. k \in 0 .. m /\ k # 0
    OBVIOUS
  <2>. QED
    BY <1>7, <1>10, <2>1
<1>13. g[m] = c[m]
  <2>1. Alike(m, g, c)
    BY <1>5, <1>11, <1>12, SameStates, Zenon
  <2>. QED
    BY <1>5, <2>1, Zenon DEF Alike
<1>14. SubSeq(bytes, 1, up[m]) = bytes
  BY <1>1, SubSeqFull
<1>. QED
  BY <1>3, <1>4, <1>5, <1>13, <1>14 DEF BlocksAfter

(***************************************************************************)
(* How the data are cut into blocks.                                       *)
(***************************************************************************)
LEMMA ProductsGrow ==
  ASSUME NEW a \in Nat, NEW b \in Nat, a <= b, NEW size \in Nat
  PROVE  a * size <= b * size
<1>1. b = a + (b - a) /\ b - a \in Nat
  OBVIOUS
<1>2. (b - a) * size \in Nat
  BY <1>1
<1>3. \A x \in Nat : (a + x) * size = a * size + x * size
  OBVIOUS
<1>4. b * size = a * size + (b - a) * size
  BY <1>1, <1>3
<1>. QED
  BY <1>2, <1>4

LEMMA Quotient ==
  ASSUME NEW n \in Nat, NEW size \in Nat \ {0}
  PROVE  n \div size \in Nat /\ (n \div size) * size <= n /\ n < (n \div size) * size + size
OBVIOUS

BlockCount(bytes) == (Len(bytes) - 1) \div BlockSize + 1
Cuts(bytes) == [k \in 0 .. BlockCount(bytes) |-> IF k * BlockSize < Len(bytes) THEN k * BlockSize ELSE Len(bytes)]
Lengths(bytes) == [k \in 1 .. BlockCount(bytes) |-> Cuts(bytes)[k] - Cuts(bytes)[k - 1]]

\* The blocks cover the data, and none of them is empty.
LEMMA CutsAre ==
  ASSUME NEW bytes \in Seq(Byte), bytes # <<>>, BlockSize \in Nat \ {0}
  PROVE  /\ BlockCount(bytes) \in Nat \ {0}
         /\ Rising(BlockCount(bytes), Lengths(bytes), Cuts(bytes))
         /\ Cuts(bytes)[BlockCount(bytes)] = Len(bytes)
         /\ \A k \in 1 .. BlockCount(bytes) : Lengths(bytes)[k] > 0
         /\ BlocksOf(bytes) = [k \in 1 .. BlockCount(bytes) |-> BlockAt(bytes, Cuts(bytes), k)]
<1>. DEFINE l == Len(bytes)
            q == (l - 1) \div BlockSize
            m == BlockCount(bytes)
            up == Cuts(bytes)
            lens == Lengths(bytes)
            B == BlockSize
<1>1. l \in Nat \ {0}
  BY EmptySeq
<1>. HIDE DEF l
<1>2. q \in Nat /\ q * B <= l - 1 /\ l - 1 < q * B + B
  <2>1. l - 1 \in Nat /\ B \in Nat \ {0}
    BY <1>1
  <2>. QED
    BY <2>1, Quotient
<1>3. m = q + 1
  BY DEF BlockCount, l
<1>4. \A k \in 0 .. m : up[k] = IF k * B < l THEN k * B ELSE l
  BY DEF Cuts, l
<1>5. \A k \in 1 .. m : lens[k] = up[k] - up[k - 1]
  BY DEF Lengths
<1>6. up = [k \in 0 .. m |-> up[k]] /\ lens = [k \in 1 .. m |-> lens[k]]
  BY DEF Cuts, Lengths
<1>. HIDE DEF q, m, up, lens
<1>7. B \in Nat \ {0}
  OBVIOUS
<1>. HIDE DEF B
<1>8. m \in Nat \ {0} /\ 0 \in 0 .. m /\ m \in 0 .. m
  BY <1>2, <1>3
<1>9. up[0] = 0
  <2>1. 0 * B = 0 /\ 0 < l
    BY <1>1, <1>7
  <2>. QED
    BY <1>4, <1>8, <2>1
<1>10. up[m] = l
  <2>1. m * B = q * B + B
    BY <1>2, <1>3, <1>7
  <2>2. q * B \in Nat
    BY <1>2, <1>7
  <2>3. ~(m * B < l)
    BY <1>1, <1>2, <1>7, <2>1, <2>2
  <2>. QED
    BY <1>4, <1>8, <2>3
<1>11. ASSUME NEW k \in 1 .. m
       PROVE  /\ k \in 0 .. m /\ k - 1 \in 0 .. m
              /\ up[k - 1] = (k - 1) * B /\ up[k - 1] \in Nat /\ up[k] \in Nat /\ up[k] - up[k - 1] \in Nat \ {0}
              /\ k * B \in Nat
  <2>1. k - 1 \in Nat /\ k - 1 <= q /\ k \in 0 .. m /\ k - 1 \in 0 .. m
    BY <1>2, <1>3
  <2>. DEFINE a == (k - 1) * B
  <2>2. a <= q * B /\ a \in Nat /\ q * B \in Nat
    BY <1>2, <1>7, <2>1, ProductsGrow
  <2>3. k * B = a + B
    <3>1. k \in Nat /\ k = (k - 1) + 1
      BY <2>1
    <3>2. \A x \in Nat : (x + 1) * B = x * B + B
      BY <1>7
    <3>. QED
      BY <2>1, <3>1, <3>2
  <2>. HIDE DEF a
  <2>4. a < l
    BY <1>1, <1>2, <2>2
  <2>5. up[k - 1] = a
    BY <1>4, <2>1, <2>4 DEF a
  <2>6. up[k] = IF a + B < l THEN a + B ELSE l
    BY <1>4, <2>1, <2>3
  <2>7. up[k] \in Nat /\ up[k] - a \in Nat \ {0}
    BY <1>1, <1>7, <2>2, <2>4, <2>6
  <2>. QED
    BY <1>7, <2>1, <2>2, <2>3, <2>5, <2>7 DEF a
<1>12. \A k \in 0 .. m : up[k] \in Nat
  <2>. TAKE k \in 0 .. m
  <2>1. CASE k = 0
    BY <1>9, <2>1
  <2>2. CASE k # 0
    <3>1. k \in 1 .. m
      BY <1>8, <2>2
    <3>. QED
      BY <1>11, <3>1
  <2>. QED
    BY <2>1, <2>2
<1>13. \A k \in 1 .. m : lens[k] \in Nat /\ lens[k] > 0 /\ up[k] = up[k - 1] + lens[k]
  <2>. TAKE k \in 1 .. m
  <2>. DEFINE a == up[k - 1]  b == up[k]
  <2>1. a \in Nat /\ b \in Nat /\ b - a \in Nat \ {0} /\ lens[k] = b - a
    BY <1>5, <1>11
  <2>. HIDE DEF a, b
  <2>2. lens[k] \in Nat /\ lens[k] > 0 /\ b = a + lens[k]
    BY <2>1
  <2>. QED
    BY <2>2 DEF a, b
<1>14. Rising(m, lens, up)
  <2>1. up \in [0 .. m -> Nat]
    BY <1>6, <1>12
  <2>2. lens \in [1 .. m -> Nat]
    BY <1>6, <1>13
  <2>. QED
    BY <1>9, <1>13, <2>1, <2>2 DEF Rising
<1>15. \A k \in 1 .. m : Min({k * B, l}) = up[k]
  <2>. TAKE k \in 1 .. m
  <2>. DEFINE x == k * B
  <2>1. x \in Nat /\ up[k] = IF x < l THEN x ELSE l
    BY <1>4, <1>11
  <2>. HIDE DEF x
  <2>2. up[k] \in {x, l} /\ {x, l} \subseteq Int /\ \A y \in {x, l} : up[k] <= y
    BY <1>1, <2>1
  <2>3. Min({x, l}) = up[k]
    BY <2>2, LeastIsMin
  <2>. QED
    BY <2>3 DEF x
<1>16. BlocksOf(bytes) = [k \in 1 .. m |-> BlockAt(bytes, up, k)]
  <2>1. BlocksOf(bytes) = [k \in 1 .. m |-> SubSeq(bytes, (k - 1) * B + 1, Min({k * B, l}))]
    BY Zenon DEF BlocksOf, B, l, m, BlockCount
  <2>2. \A k \in 1 .. m : SubSeq(bytes, (k - 1) * B + 1, Min({k * B, l})) = BlockAt(bytes, up, k)
    BY <1>11, <1>15 DEF BlockAt
  <2>. QED
    BY <2>1, <2>2
<1>. QED
  BY <1>8, <1>10, <1>13, <1>14, <1>16 DEF l, m, up, lens

\* A block is as long as its size says.
LEMMA BlockLength ==
  ASSUME NEW bytes \in Seq(Byte), NEW m \in Nat, NEW lens, NEW up, Rising(m, lens, up), up[m] = Len(bytes), NEW k \in 1 .. m
  PROVE  BlockAt(bytes, up, k) \in Seq(Byte) /\ Len(BlockAt(bytes, up, k)) = lens[k] /\ lens[k] \in Nat /\ lens[k] <= Len(bytes)
<1>. DEFINE a == up[k - 1]
            b == up[k]
            n == lens[k]
<1>1. a \in Nat /\ b \in Nat /\ n \in Nat /\ b = a + n /\ b <= Len(bytes)
  <2>1. k - 1 \in 0 .. m /\ k \in 0 .. m
    OBVIOUS
  <2>2. up[k] <= up[m]
    BY <2>1, RisingBelow
  <2>. QED
    BY <2>1, <2>2 DEF Rising
<1>2. BlockAt(bytes, up, k) = SubSeq(bytes, a + 1, b)
  BY DEF BlockAt
<1>. HIDE DEF a, b, n
<1>3. Len(bytes) \in Nat
  BY LenProperties
<1>4. a + 1 \in Int /\ b \in Int /\ \A i \in a + 1 .. b : bytes[i] \in Byte
  <2>1. \A i \in a + 1 .. b : i \in 1 .. Len(bytes)
    BY <1>1, <1>3
  <2>. QED
    BY <1>1, <2>1, ElementOfSeq
<1>5. SubSeq(bytes, a + 1, b) \in Seq(Byte) /\ Len(SubSeq(bytes, a + 1, b)) = IF a + 1 <= b THEN b - (a + 1) + 1 ELSE 0
  BY <1>4, SubSeqProperties
<1>6. Len(SubSeq(bytes, a + 1, b)) = n /\ n <= Len(bytes)
  BY <1>1, <1>3, <1>5
<1>. QED
  BY <1>1, <1>2, <1>5, <1>6 DEF n

\* Parts of at most nine bytes are at most so long together.
LEMMA PiecesShort ==
  ASSUME NEW m \in Nat, NEW seqs \in [1 .. m -> Seq(Byte)], NEW h, Joined(seqs, m, h), \A k \in 1 .. m : Len(seqs[k]) <= 9
  PROVE  \A k \in 0 .. m : Len(h[k]) \in Nat /\ Len(h[k]) <= 9 * k
<1>1. /\ \A k \in 0 .. m : h[k] \in Seq(Byte)
      /\ \A k \in 1 .. m : h[k] = h[k - 1] \o seqs[k]
      /\ h[0] = <<>>
  BY DEF Joined
<1>. DEFINE T == {k \in Nat : k <= m => Len(h[k]) \in Nat /\ Len(h[k]) <= 9 * k}
<1>2. 0 \in T
  BY <1>1
<1>3. ASSUME NEW k \in Nat, k \in T PROVE k + 1 \in T
  <2>. SUFFICES ASSUME k + 1 <= m PROVE Len(h[k + 1]) \in Nat /\ Len(h[k + 1]) <= 9 * (k + 1)
    OBVIOUS
  <2>1. Len(h[k]) <= 9 * k
    BY <1>3
  <2>2. k + 1 \in 1 .. m /\ (k + 1) - 1 = k /\ k \in 0 .. m
    OBVIOUS
  <2>3. h[k + 1] = h[k] \o seqs[k + 1] /\ h[k] \in Seq(Byte) /\ seqs[k + 1] \in Seq(Byte) /\ Len(seqs[k + 1]) <= 9
    BY <1>1, <2>2
  <2>4. Len(h[k + 1]) = Len(h[k]) + Len(seqs[k + 1]) /\ Len(h[k]) \in Nat /\ Len(seqs[k + 1]) \in Nat
    BY <2>3, ConcatProperties, LenProperties
  <2>5. \A x, y, z, u \in Nat : x = y + z /\ y <= 9 * u /\ z <= 9 => x \in Nat /\ x <= 9 * (u + 1)
    OBVIOUS
  <2>6. \A x, y \in Nat : x + y \in Nat
    OBVIOUS
  <2>7. Len(h[k + 1]) \in Nat
    BY <2>4, <2>6, Zenon
  <2>. QED
    BY <2>1, <2>3, <2>4, <2>5, <2>7, Zenon
<1>4. \A k \in Nat : k \in T
  <2>. HIDE DEF T
  <2>. QED
    BY <1>2, <1>3, SetInduction
<1>. QED
  BY <1>4

\* The sizes of the blocks take at most nine bytes each.
LEMMA SizesShort ==
  ASSUME NEW m \in Nat \ {0}, NEW lens \in [1 .. m -> 0 .. Int32Max]
  PROVE  Len(FlattenSeq(SizeParts(m, lens))) <= 9 * m
<1>. DEFINE seqs == SizeParts(m, lens)
<1>1. seqs \in [1 .. m -> Seq(Byte)] /\ \A k \in 1 .. m : seqs[k] = AppendMsgpackUint(lens[k])
  BY SizePartsType
<1>2. \A k \in 1 .. m : Len(seqs[k]) <= 9
  <2>. SUFFICES ASSUME NEW k \in 1 .. m PROVE Len(seqs[k]) <= 9
    OBVIOUS
  <2>1. lens[k] \in 0 .. Int32Max
    OBVIOUS
  <2>2. lens[k] \in Nat /\ lens[k] <= Int32Max
    BY <2>1, SmallNumbers, Zenon
  <2>3. Len(AppendMsgpackUint(lens[k])) \in 1 .. 9
    BY <2>2, SizeBytesType
  <2>4. \A x \in 1 .. 9 : x <= 9
    OBVIOUS
  <2>. QED
    BY <1>1, <2>3, <2>4, Zenon
<1>. HIDE DEF seqs
<1>3. PICK h : Joined(seqs, m, h) /\ FlattenSeq(seqs) = h[m]
  BY <1>1, Flattened
<1>4. Len(h[m]) <= 9 * m
  <2>1. m \in 0 .. m /\ m \in Nat
    OBVIOUS
  <2>. QED
    BY <1>1, <1>2, <1>3, <2>1, PiecesShort
<1>. QED
  BY <1>3, <1>4 DEF seqs

\* An extension is a sequence of bytes that is not empty.
LEMMA ExtType ==
  ASSUME NEW type \in Byte, NEW payload \in Seq(Byte), Len(payload) <= Int32Max
  PROVE  /\ WriteExt(type, payload) \in Seq(Byte) /\ Len(WriteExt(type, payload)) > 0
         /\ Stands(WriteExt(type, payload), 1, WriteExt(type, payload))
<1>. DEFINE n == Len(payload)
            b == Bytes4(n)
            h == ExtHead(type, n)
<1>1. n \in Nat
  BY LenProperties
<1>2. \A i \in 1 .. 4 : b[i] \in Byte
  BY <1>1, LengthAsNumber DEF Length
<1>3. \A k \in DOMAIN Fixed : Fixed[k] \in Byte
  <2>1. 212 \in Byte /\ 213 \in Byte /\ 214 \in Byte /\ 215 \in Byte /\ 216 \in Byte
    BY DEF Byte
  <2>. QED
    BY <2>1, FixedIs
<1>4. n <= 255 => n \in Byte
  <2>1. \A x \in Nat : x <= 255 => x \in 0 .. 255
    OBVIOUS
  <2>. QED
    BY <1>1, <2>1, Zenon DEF Byte
<1>5. 199 \in Byte /\ 200 \in Byte /\ 201 \in Byte
  BY DEF Byte
<1>6. WriteExt(type, payload) = h \o payload
  BY DEF WriteExt, ExtHead
<1>. HIDE DEF n, b
<1>7. h \in Seq(Byte) /\ Len(h) > 0
  BY <1>2, <1>3, <1>4, <1>5 DEF ExtHead, b
<1>. HIDE DEF h
<1>8. h \o payload \in Seq(Byte) /\ Len(h \o payload) = Len(h) + Len(payload) /\ Len(payload) \in Nat /\ Len(h) \in Nat
  BY <1>7, ConcatProperties, LenProperties
<1>9. Len(h \o payload) > 0
  BY <1>7, <1>8
<1>10. \A e \in Seq(Byte) : Stands(e, 1, e)
  BY DEF Stands
<1>. QED
  BY <1>6, <1>8, <1>9, <1>10

\* What stands first in an extension is its marker.
LEMMA ExtBegins ==
  ASSUME NEW f \in Seq(Byte), NEW p \in Nat, NEW type \in Byte, NEW payload \in Seq(Byte), Len(payload) <= Int32Max,
         Stands(f, p, WriteExt(type, payload))
  PROVE  p <= Len(f) /\ IsExtMarker(f[p])
<1>. DEFINE h == ExtHead(type, Len(payload))
<1>1. WriteExt(type, payload) = h \o payload
  BY DEF WriteExt, ExtHead
<1>2. p \in Nat \ {0} /\ Len(payload) \in Nat
  BY DEF Stands
<1>3. Stands(f, p, h)
  <2>1. h \in Seq(Nat)
    <3>1. \A i \in 1 .. 4 : Bytes4(Len(payload))[i] \in Nat
      BY <1>2, LengthAsNumber, NaturalBytes
    <3>2. \A n \in DOMAIN Fixed : Fixed[n] \in Nat
      BY FixedIs
    <3>3. type \in Nat
      BY DEF Byte
    <3>. QED
      BY <1>2, <3>1, <3>2, <3>3 DEF ExtHead
  <2>. HIDE DEF h
  <2>. QED
    BY <1>1, <2>1, FrontStands
<1>4. HeadRead(f, p, h, type, Len(payload))
  BY <1>2, <1>3, HeadIsRead
<1>. HIDE DEF h
<1>5. h \in Seq(Byte) /\ Len(h) > 0 /\ IsExtMarker(f[p]) /\ p + Len(h) - 1 <= Len(f)
  BY <1>3, <1>4 DEF HeadRead, Stands
<1>6. Len(h) \in Nat /\ Len(f) \in Nat
  BY <1>5, LenProperties
<1>. QED
  BY <1>2, <1>5, <1>6

\* The header of an array begins with the marker of an array.
LEMMA ArrayHeaderType ==
  ASSUME NEW n \in Length
  PROVE  /\ WriteArrayHeader(n) \in Seq(Byte) /\ Len(WriteArrayHeader(n)) > 0
         /\ IsArrayMarker(WriteArrayHeader(n)[1]) /\ ~IsExtMarker(WriteArrayHeader(n)[1])
<1>. DEFINE e == WriteArrayHeader(n)
<1>1. n[1] \in Byte /\ n[2] \in Byte /\ n[3] \in Byte /\ n[4] \in Byte
  BY DEF Length
<1>2. 220 \in Byte /\ 221 \in Byte
  BY DEF Byte
<1>3. n[4] <= 15 => 144 + n[4] \in 144 .. 159 /\ 144 + n[4] \in Byte
  BY <1>1 DEF Byte
<1>4. e = IF Zeros(n, 3) /\ n[4] <= 15 THEN <<144 + n[4]>>
          ELSE IF Zeros(n, 2) THEN <<220, n[3], n[4]>>
          ELSE <<221, n[1], n[2], n[3], n[4]>>
  BY DEF WriteArrayHeader, AppendHeader, ArrayForm
<1>. HIDE DEF e
<1>5. e \in Seq(Byte) /\ Len(e) > 0 /\ e[1] \in 144 .. 159 \cup {220, 221}
  <2>1. CASE Zeros(n, 3) /\ n[4] <= 15
    BY <1>3, <1>4, <2>1
  <2>2. CASE ~(Zeros(n, 3) /\ n[4] <= 15) /\ Zeros(n, 2)
    BY <1>1, <1>2, <1>4, <2>2
  <2>3. CASE ~(Zeros(n, 3) /\ n[4] <= 15) /\ ~Zeros(n, 2)
    BY <1>1, <1>2, <1>4, <2>3
  <2>. QED
    BY <2>1, <2>2, <2>3
<1>6. IsArrayMarker(e[1])
  BY <1>5 DEF IsArrayMarker
<1>7. ~IsExtMarker(e[1])
  <2>1. \A k \in DOMAIN Fixed : Fixed[k] \in {212, 213, 214, 215, 216}
    BY FixedIs
  <2>2. \A x \in Range(Fixed) : x \in {212, 213, 214, 215, 216}
    BY <2>1 DEF Range
  <2>3. \A x \in 144 .. 159 \cup {220, 221} : x \notin {199, 200, 201} /\ x \notin {212, 213, 214, 215, 216}
    OBVIOUS
  <2>. QED
    <3>. DEFINE x == e[1]
    <3>1. x \in 144 .. 159 \cup {220, 221}
      BY <1>5
    <3>. HIDE DEF x
    <3>2. x \notin {199, 200, 201} /\ x \notin Range(Fixed)
      BY <2>2, <3>1
    <3>. QED
      BY <3>2 DEF IsExtMarker, x
<1>. QED
  BY <1>5, <1>6, <1>7 DEF e

(***************************************************************************)
(* The envelope of many blocks.                                            *)
(***************************************************************************)
\* What the library's compressor is trusted with: what it makes of a block is
\* the block again once it is decompressed, and is no longer than a byte array
\* may be.
Compresses(block) ==
  /\ CompressBlock(block) \in Seq(Byte)
  /\ CompressBlock(block) # <<>> => UncompressBlock(CompressBlock(block)) = [ok |-> TRUE, v |-> block]
  /\ Len(CompressLz4Block(block)) <= Int32Max

\* A block that the library cannot make smaller is packed as literals.
LEMMA PackedBlock ==
  ASSUME NEW block \in Seq(Byte), Compresses(block)
  PROVE  /\ CompressLz4Block(block) \in Seq(Byte)
         /\ Len(CompressLz4Block(block)) <= Int32Max
         /\ UncompressBlock(CompressLz4Block(block)) = [ok |-> TRUE, v |-> block]
<1>1. EncodeLz4LiteralBlock(block) \in Seq(Byte)
  BY LiteralSequence
<1>2. UncompressBlock(EncodeLz4LiteralBlock(block)) = [ok |-> TRUE, v |-> block]
  BY LiteralBlockRoundTrip
<1>3. CASE CompressBlock(block) = <<>>
  <2>1. CompressLz4Block(block) = EncodeLz4LiteralBlock(block)
    BY <1>3, Zenon DEF CompressLz4Block
  <2>. QED
    BY <1>1, <1>2, <2>1, Zenon DEF Compresses
<1>4. CASE CompressBlock(block) # <<>>
  <2>1. CompressLz4Block(block) = CompressBlock(block)
    BY <1>4, Zenon DEF CompressLz4Block
  <2>. QED
    BY <1>4, <2>1, Zenon DEF Compresses
<1>. QED
  BY <1>3, <1>4

\* What the blocks of the data are packed into.
Packs(bytes) == [k \in 1 .. BlockCount(bytes) |-> CompressLz4Block(BlocksOf(bytes)[k])]
LEMMA PackedIs ==
  ASSUME NEW bytes \in Seq(Byte), bytes # <<>>, BlockSize \in Nat \ {0},
         \A k \in 1 .. BlockCount(bytes) : Compresses(BlocksOf(bytes)[k])
  PROVE  Packed(bytes, BlockCount(bytes), Lengths(bytes), Cuts(bytes), Packs(bytes))
<1>. DEFINE m == BlockCount(bytes)
            lens == Lengths(bytes)
            up == Cuts(bytes)
            packed == Packs(bytes)
<1>1. /\ m \in Nat \ {0}
      /\ Rising(m, lens, up)
      /\ up[m] = Len(bytes)
      /\ \A k \in 1 .. m : lens[k] > 0
      /\ \A k \in 1 .. m : BlocksOf(bytes)[k] = BlockAt(bytes, up, k)
  BY CutsAre
<1>2. packed = [k \in 1 .. m |-> CompressLz4Block(BlocksOf(bytes)[k])]
  BY DEF Packs
<1>. HIDE DEF m, lens, up, packed
<1>3. ASSUME NEW k \in 1 .. m
      PROVE  /\ packed[k] \in Seq(Byte) /\ Len(packed[k]) <= Int32Max
             /\ UncompressBlock(packed[k]) = [ok |-> TRUE, v |-> BlockAt(bytes, up, k)]
  <2>1. BlockAt(bytes, up, k) \in Seq(Byte)
    BY <1>1, BlockLength
  <2>2. Compresses(BlockAt(bytes, up, k))
    BY <1>1 DEF m
  <2>3. packed[k] = CompressLz4Block(BlockAt(bytes, up, k))
    BY <1>1, <1>2
  <2>. QED
    BY <2>1, <2>2, <2>3, PackedBlock
<1>4. packed \in [1 .. m -> Seq(Byte)]
  BY <1>2, <1>3
<1>5. Packed(bytes, m, lens, up, packed)
  BY <1>1, <1>3, <1>4 DEF Packed
<1>. QED
  BY <1>5 DEF m, lens, up, packed

EnvelopeHead(m) == WriteArrayHeader(Bytes4(1 + m))
EnvelopeSizes(m, lens) == FlattenSeq(SizeParts(m, lens))
EnvelopeData(m, packed) == FlattenSeq(BinParts(m, packed))
Envelope(m, lens, packed) == (EnvelopeHead(m) \o WriteExt(Lz4ArrayType, EnvelopeSizes(m, lens))) \o EnvelopeData(m, packed)

\* What the compressor writes.
LEMMA EnvelopeMade ==
  ASSUME NEW bytes \in Seq(Byte), bytes # <<>>, BlockSize \in Nat \ {0}, Len(bytes) <= MaxLz4DecompressedSize, MaxLz4DecompressedSize \in Nat
  PROVE  CompressLz4BlockArray(bytes) = [ok |-> TRUE, v |-> Envelope(BlockCount(bytes), Lengths(bytes), Packs(bytes))]
<1>. DEFINE m == BlockCount(bytes)
            lens == Lengths(bytes)
            up == Cuts(bytes)
            packed == Packs(bytes)
            blocks == BlocksOf(bytes)
            sizes == [i \in DOMAIN blocks |-> AppendMsgpackUint(Len(blocks[i]))]
            bins == [i \in DOMAIN blocks |-> writeBin32(CompressLz4Block(blocks[i]))]
<1>1. /\ m \in Nat \ {0}
      /\ Rising(m, lens, up)
      /\ up[m] = Len(bytes)
      /\ blocks = [k \in 1 .. m |-> BlockAt(bytes, up, k)]
  BY CutsAre
<1>2. packed = [k \in 1 .. m |-> CompressLz4Block(blocks[k])]
  BY DEF Packs
<1>3. CompressLz4BlockArray(bytes)
        = [ok |-> TRUE, v |-> WriteArrayHeader(Bytes4(1 + Len(blocks))) \o WriteExt(Lz4ArrayType, FlattenSeq(sizes)) \o FlattenSeq(bins)]
  <2>1. ~(Len(bytes) > MaxLz4DecompressedSize)
    BY LenProperties
  <2>. QED
    BY <2>1, Zenon DEF CompressLz4BlockArray
<1>. HIDE DEF m, lens, up, packed, blocks
<1>4. DOMAIN blocks = 1 .. m /\ Len(blocks) = m /\ \A k \in 1 .. m : blocks[k] = BlockAt(bytes, up, k)
  BY <1>1
<1>5. \A k \in 1 .. m : Len(blocks[k]) = lens[k]
  BY <1>1, <1>4, BlockLength
<1>6. sizes = SizeParts(m, lens)
  BY <1>4, <1>5 DEF SizeParts
<1>7. bins = BinParts(m, packed)
  BY <1>2, <1>4 DEF BinParts
<1>. HIDE DEF sizes, bins
<1>. QED
  BY <1>3, <1>4, <1>6, <1>7, Zenon DEF Envelope, EnvelopeHead, EnvelopeSizes, EnvelopeData, m, lens, packed

\* Where the parts of an envelope stand.
InEnvelope(f, m, lens, packed) ==
  LET a == EnvelopeHead(m)
      x == WriteExt(Lz4ArrayType, EnvelopeSizes(m, lens))
      d == EnvelopeData(m, packed)
  IN /\ f \in Seq(Byte) /\ f # <<>> /\ f[1] = a[1]
     /\ Stands(f, 1, a) /\ Stands(f, 1 + Len(a), x) /\ Stands(f, 1 + Len(a) + Len(x), d)
     /\ Len(a) \in Nat /\ Len(x) \in Nat /\ Len(d) \in Nat
     /\ Len(f) + 1 = 1 + Len(a) + Len(x) + Len(d)

\* The header, the sizes and the blocks stand in the envelope one behind another.
LEMMA EnvelopeStands ==
  ASSUME NEW m \in Nat \ {0}, 1 + m <= Int32Max, 9 * m <= Int32Max, NEW lens \in [1 .. m -> 0 .. Int32Max],
         MaxLz4DecompressedSize \in Nat, \A k \in 1 .. m : lens[k] <= MaxLz4DecompressedSize,
         NEW packed, EnvelopeData(m, packed) \in Seq(Byte)
  PROVE  InEnvelope(Envelope(m, lens, packed), m, lens, packed) /\ Len(EnvelopeSizes(m, lens)) <= Int32Max
<1>. DEFINE s == EnvelopeSizes(m, lens)
            a == EnvelopeHead(m)
            x == WriteExt(Lz4ArrayType, s)
            d == EnvelopeData(m, packed)
            f == (a \o x) \o d
<1>1. s \in Seq(Byte) /\ Len(s) <= Int32Max
  <2>1. s \in Seq(Byte)
    BY SizesRead DEF EnvelopeSizes
  <2>2. Len(s) <= 9 * m
    BY SizesShort DEF EnvelopeSizes
  <2>3. Len(s) \in Nat /\ Int32Max \in Nat
    BY <2>1, LenProperties, SmallNumbers
  <2>. QED
    BY <2>1, <2>2, <2>3
<1>2. a \in Seq(Byte) /\ Len(a) > 0
  <2>1. Bytes4(1 + m) \in Length
    BY LengthAsNumber
  <2>. QED
    BY <2>1, ArrayHeaderType DEF EnvelopeHead
<1>3. x \in Seq(Byte)
  <2>1. Lz4ArrayType \in Byte
    BY DEF Lz4ArrayType, Byte
  <2>. QED
    BY <1>1, <2>1, ExtType
<1>. HIDE DEF s, a, x, d
<1>4. d \in Seq(Byte)
  BY DEF d
<1>5. /\ a \o x \in Seq(Byte) /\ Len(a \o x) = Len(a) + Len(x)
      /\ Len(a) \in Nat /\ Len(x) \in Nat /\ Len(d) \in Nat
  BY <1>2, <1>3, <1>4, ConcatProperties, LenProperties
<1>6. f \in Seq(Byte) /\ Len(f) = Len(a \o x) + Len(d)
  BY <1>4, <1>5, ConcatProperties
<1>7. Stands(f, 1, f)
  BY <1>6 DEF Stands
<1>8. Stands(f, 1, a \o x) /\ Stands(f, 1 + Len(a \o x), d)
  BY <1>4, <1>5, <1>6, <1>7, PartsStand
<1>9. Stands(f, 1, a) /\ Stands(f, 1 + Len(a), x)
  BY <1>2, <1>3, <1>6, <1>8, PartsStand
<1>. HIDE DEF f
<1>10. 1 + Len(a \o x) = 1 + Len(a) + Len(x)
  BY <1>5
<1>11. f[1] = a[1]
  <2>1. 1 \in 1 .. Len(a) /\ 1 + 1 - 1 = 1
    BY <1>2, <1>5
  <2>. QED
    BY <1>9, <2>1 DEF Stands
<1>12. f # <<>>
  BY <1>2, <1>5, <1>6
<1>13. Len(f) + 1 = 1 + Len(a) + Len(x) + Len(d)
  BY <1>5, <1>6
<1>14. InEnvelope(f, m, lens, packed)
  BY <1>5, <1>6, <1>8, <1>9, <1>10, <1>11, <1>12, <1>13, Zenon DEF InEnvelope, a, x, d, s
<1>15. f = Envelope(m, lens, packed)
  BY DEF f, Envelope, a, x, d, s
<1>. QED
  BY <1>1, <1>14, <1>15 DEF s

\* The sizes of an envelope are read from its extension, and its data from
\* what stands behind it.
LEMMA EnvelopeRead ==
  ASSUME NEW bytes \in Seq(Byte), NEW m \in Nat \ {0}, NEW lens \in [1 .. m -> 0 .. Int32Max], NEW up, NEW packed,
         Packed(bytes, m, lens, up, packed), 1 + m <= Int32Max, 9 * m <= Int32Max,
         MaxLz4DecompressedSize \in Nat, Len(bytes) <= MaxLz4DecompressedSize
  PROVE  DecompressLz4BlockArray(Envelope(m, lens, packed)) = [ok |-> TRUE, v |-> bytes]
<1>. DEFINE f == Envelope(m, lens, packed)
            s == EnvelopeSizes(m, lens)
            a == EnvelopeHead(m)
            x == WriteExt(Lz4ArrayType, s)
            d == EnvelopeData(m, packed)
            b == Bytes4(1 + m)
            p == 1 + Len(a)
            q == p + Len(x)
            array == readArrayHeader(f, 1)
            ext == ReadExtPayload(f, p)
<1>1. /\ Rising(m, lens, up) /\ up[m] = Len(bytes) /\ Len(bytes) \in Nat
      /\ \A k \in 1 .. m : lens[k] \in Nat
  BY LenProperties DEF Packed, Rising
<1>2. \A k \in 1 .. m : lens[k] <= MaxLz4DecompressedSize
  <2>. SUFFICES ASSUME NEW k \in 1 .. m PROVE lens[k] <= MaxLz4DecompressedSize
    OBVIOUS
  <2>1. lens[k] <= Len(bytes)
    BY <1>1, BlockLength
  <2>. QED
    BY <1>1, <2>1
<1>3. BinParts(m, packed) \in [1 .. m -> Seq(Byte)]
  BY BinPartsType
<1>4. PICK h : Joined(BinParts(m, packed), m, h) /\ d = h[m]
  BY <1>3, Flattened DEF EnvelopeData
<1>5. d \in Seq(Byte)
  BY <1>4 DEF Joined
<1>6. s \in Seq(Byte) /\ DecodeMsgpackIntList(s).ok /\ DecodeMsgpackIntList(s).v = lens
  BY <1>2, SizesRead DEF EnvelopeSizes
<1>7. b \in Length /\ b[1] < 128 /\ Number(b) = 1 + m
  BY LengthAsNumber
<1>8. IsArrayMarker(a[1]) /\ ~IsExtMarker(a[1])
  BY <1>7, ArrayHeaderType DEF EnvelopeHead
<1>9. InEnvelope(f, m, lens, packed) /\ Len(s) <= Int32Max
  BY <1>2, <1>5, EnvelopeStands
<1>. HIDE DEF f, s, a, x, d, b
<1>10. /\ f \in Seq(Byte) /\ f # <<>> /\ f[1] = a[1]
       /\ Stands(f, 1, a) /\ Stands(f, p, x) /\ Stands(f, q, d)
       /\ Len(a) \in Nat /\ Len(x) \in Nat /\ Len(d) \in Nat
       /\ Len(f) + 1 = q + Len(d)
  BY <1>9, Zenon DEF InEnvelope, a, x, d, s
<1>11. array = [ok |-> TRUE, v |-> b, p |-> p]
  <2>1. a = WriteArrayHeader(b)
    BY DEF a, b, EnvelopeHead
  <2>2. 1 \in Nat
    OBVIOUS
  <2>. QED
    BY <1>7, <1>10, <2>1, <2>2, ArrayHeaderRoundTrip
<1>12. p \in Nat /\ q \in Nat
  BY <1>10
<1>13. Lz4ArrayType \in Byte
  BY DEF Lz4ArrayType, Byte
<1>14. ext = [ok |-> TRUE, type |-> Lz4ArrayType, v |-> s, p |-> q]
  <2>1. q = p + Len(x)
    OBVIOUS
  <2>. HIDE DEF p, q
  <2>2. Stands(f, p, WriteExt(Lz4ArrayType, s)) /\ p \in Nat
    BY <1>10, <1>12 DEF x
  <2>3. ext = [ok |-> TRUE, type |-> Lz4ArrayType, v |-> s, p |-> p + Len(WriteExt(Lz4ArrayType, s))]
    BY <1>6, <1>9, <1>10, <1>13, <2>2, ExtRoundTrip
  <2>. QED
    BY <2>1, <2>3 DEF x
<1>15. p <= Len(f) /\ IsExtMarker(f[p])
  BY <1>6, <1>9, <1>10, <1>12, <1>13, ExtBegins DEF x
<1>16. Blocks(f, q, lens) = [ok |-> TRUE, v |-> bytes, p |-> q + Len(d)]
  <2>. HIDE DEF p, q
  <2>1. Stands(f, q, h[m]) /\ q \in Nat /\ Len(d) = Len(h[m])
    BY <1>4, <1>10, <1>12
  <2>2. Blocks(f, q, lens) = [ok |-> TRUE, v |-> bytes, p |-> q + Len(h[m])]
    BY <1>4, <1>10, <2>1, BlocksRead
  <2>. QED
    BY <2>1, <2>2
<1>17. SumLz4Sizes(lens) = Len(bytes) /\ SumLz4Sizes(lens) # -1
  <2>1. SumLz4Sizes(lens) = up[m]
    BY <1>1, SumIs
  <2>. QED
    BY <1>1, <2>1
<1>18. Len(lens) = m
  BY FunctionIsSeq
<1>19. DecompressStandardLz4BlockArray(f, q, m, s) = [ok |-> TRUE, v |-> bytes]
  <2>. DEFINE data == Blocks(f, q, lens)
  <2>. HIDE DEF p, q
  <2>1. data.ok /\ data.v = bytes /\ data.p = Len(f) + 1
    BY <1>10, <1>16
  <2>. HIDE DEF data
  <2>. QED
    BY <1>6, <1>17, <1>18, <2>1, Zenon DEF DecompressStandardLz4BlockArray, data
<1>20. Number(array.v) - 1 = m /\ ~(Number(array.v) < 2) /\ ~(array.p > Len(f)) /\ array.ok /\ array.p = p /\ array.v = b
  <2>1. array.v = b /\ array.p = p /\ array.ok
    BY <1>11
  <2>2. (1 + m) - 1 = m /\ ~(1 + m < 2)
    OBVIOUS
  <2>3. ~(p > Len(f))
    BY <1>10, <1>12, <1>15, LenProperties
  <2>. QED
    BY <1>7, <2>1, <2>2, <2>3
<1>21. ext.ok /\ ext.type = Lz4ArrayType /\ ext.p = q /\ ext.v = s
  BY <1>14
<1>. HIDE DEF p, q
<1>22. DecompressLz4BlockArray(f) = DecompressStandardLz4BlockArray(f, ext.p, Number(array.v) - 1, ext.v)
  BY <1>8, <1>10, <1>15, <1>20, <1>21, Zenon DEF DecompressLz4BlockArray
<1>. QED
  BY <1>19, <1>20, <1>21, <1>22 DEF f

\* The envelope of the data of a file is the data again, whatever they are,
\* however they fall into blocks and whichever blocks the library makes smaller.
\* (Nine bytes for each size fit into one extension: with the code's blocks of
\* 65536 bytes that holds of all data the code accepts.)
THEOREM EnvelopeRoundTrip ==
  ASSUME BlockSize \in Nat \ {0}, MaxLz4DecompressedSize \in 0 .. Int32Max,
         NEW bytes \in Seq(Byte), Len(bytes) <= MaxLz4DecompressedSize, 9 * BlockCount(bytes) <= Int32Max,
         \A k \in DOMAIN BlocksOf(bytes) : Compresses(BlocksOf(bytes)[k])
  PROVE  /\ CompressLz4BlockArray(bytes).ok
         /\ DecompressLz4BlockArray(CompressLz4BlockArray(bytes).v) = [ok |-> TRUE, v |-> bytes]
<1>1. CASE bytes = <<>>
  BY <1>1 DEF CompressLz4BlockArray, DecompressLz4BlockArray
<1>2. CASE bytes # <<>>
  <2>. DEFINE m == BlockCount(bytes)
              lens == Lengths(bytes)
              up == Cuts(bytes)
              packed == Packs(bytes)
  <2>1. /\ m \in Nat \ {0}
        /\ Rising(m, lens, up)
        /\ up[m] = Len(bytes)
        /\ BlocksOf(bytes) = [k \in 1 .. m |-> BlockAt(bytes, up, k)]
    BY <1>2, CutsAre
  <2>2. \A k \in 1 .. m : Compresses(BlocksOf(bytes)[k])
    <3>1. DOMAIN BlocksOf(bytes) = 1 .. m
      BY <2>1
    <3>. QED
      BY <3>1
  <2>3. Packed(bytes, m, lens, up, packed)
    BY <1>2, <2>2, PackedIs
  <2>4. MaxLz4DecompressedSize \in Nat /\ MaxLz4DecompressedSize <= Int32Max
    BY SmallNumbers, Zenon
  <2>5. CompressLz4BlockArray(bytes) = [ok |-> TRUE, v |-> Envelope(m, lens, packed)]
    BY <1>2, <2>4, EnvelopeMade
  <2>6. 9 * m <= Int32Max
    OBVIOUS
  <2>. HIDE DEF m, lens, up, packed
  <2>7. 1 + m <= Int32Max
    <3>1. 1 + m <= 9 * m /\ m \in Nat
      BY <2>1
    <3>. QED
      BY <2>6, <3>1, SmallNumbers
  <2>8. lens \in [1 .. m -> 0 .. Int32Max]
    <3>1. \A k \in 1 .. m : lens[k] \in 0 .. Int32Max
      <4>. SUFFICES ASSUME NEW k \in 1 .. m PROVE lens[k] \in 0 .. Int32Max
        OBVIOUS
      <4>1. lens[k] \in Nat /\ lens[k] <= Len(bytes) /\ Len(bytes) \in Nat
        BY <2>1, BlockLength, LenProperties
      <4>. QED
        BY <2>4, <4>1, SmallNumbers
    <3>. QED
      BY <2>1, <3>1 DEF Rising
  <2>9. DecompressLz4BlockArray(Envelope(m, lens, packed)) = [ok |-> TRUE, v |-> bytes]
    BY <2>1, <2>3, <2>4, <2>6, <2>7, <2>8, EnvelopeRead
  <2>. QED
    BY <2>5, <2>9
<1>. QED
  BY <1>1, <1>2

\* So are the data of an envelope of one block.
THEOREM SingleEnvelopeRoundTrip ==
  ASSUME MaxLz4DecompressedSize \in 0 .. Int32Max, NEW bytes \in Seq(Byte), bytes # <<>>, Len(bytes) <= MaxLz4DecompressedSize,
         Compresses(bytes), Len(AppendMsgpackUint(Len(bytes))) + Len(CompressLz4Block(bytes)) <= Int32Max
  PROVE  DecompressLz4BlockArray(Lz4Block(bytes)) = [ok |-> TRUE, v |-> bytes]
<1>. DEFINE n == Len(bytes)
            w == AppendMsgpackUint(n)
            c == CompressLz4Block(bytes)
            payload == w \o c
            f == WriteExt(Lz4BlockType, payload)
            ext == ReadExtPayload(f, 1)
            size == DecodeMsgpackInt(payload, 1)
            q == 1 + Len(w)
<1>1. n \in Nat \ {0} /\ n <= Int32Max /\ n <= MaxLz4DecompressedSize
  <2>1. n \in Nat \ {0}
    BY EmptySeq
  <2>2. MaxLz4DecompressedSize \in Nat /\ MaxLz4DecompressedSize <= Int32Max /\ Int32Max \in Nat
    BY SmallNumbers, Zenon
  <2>. QED
    BY <2>1, <2>2
<1>2. c \in Seq(Byte) /\ Len(c) \in Nat /\ UncompressBlock(c) = [ok |-> TRUE, v |-> bytes]
  BY PackedBlock, LenProperties
<1>3. w \in Seq(Byte) /\ Len(w) \in Nat
  BY <1>1, SizeBytesType
<1>4. f = Lz4Block(bytes)
  BY DEF Lz4Block
<1>5. Len(w) + Len(c) <= Int32Max
  OBVIOUS
<1>. HIDE DEF n, w, c
<1>6. payload \in Seq(Byte) /\ Len(payload) = Len(w) + Len(c)
  BY <1>2, <1>3, ConcatProperties
<1>7. Stands(payload, 1, w)
  <2>1. Stands(payload, 1, payload)
    BY <1>6 DEF Stands
  <2>. QED
    BY <1>2, <1>3, <1>6, <2>1, PartsStand
<1>8. size = [ok |-> TRUE, sign |-> "+", v |-> SizeWord(n), p |-> q]
  BY <1>1, <1>6, <1>7, SizeRoundTrip DEF w
<1>9. ValidateLz4Size(SizeWord(n)) /\ SizeOf(SizeWord(n)) = n
  BY <1>1, SizeWordIs DEF ValidateLz4Size
<1>10. SubSeq(payload, q, Len(payload)) = c
  <2>1. \A i \in 1 .. Len(c) : payload[q + i - 1] = c[i]
    BY <1>2, <1>3, ConcatProperties
  <2>2. Len(payload) = q + Len(c) - 1 /\ q \in Nat \ {0}
    BY <1>2, <1>3, <1>6
  <2>. HIDE DEF payload, q
  <2>3. SubSeq(payload, q, q + Len(c) - 1) = c
    BY <1>2, <1>6, <2>1, <2>2, PartOf, SMTT(60)
  <2>. QED
    BY <2>2, <2>3
<1>11. DecompressLz4Bytes(c, n) = [ok |-> TRUE, v |-> bytes]
  <2>1. n # 0 /\ Len(bytes) = n
    BY <1>1 DEF n
  <2>. DEFINE r == UncompressBlock(c)
  <2>2. r.ok /\ Len(r.v) = n
    BY <1>2, <2>1
  <2>3. r = [ok |-> TRUE, v |-> bytes]
    BY <1>2
  <2>. HIDE DEF r
  <2>4. DecompressLz4Bytes(c, n) = r
    BY <2>1, <2>2, Zenon DEF DecompressLz4Bytes, r
  <2>. QED
    BY <2>3, <2>4
<1>12. DecompressSingleLz4Block(payload) = DecompressLz4Bytes(c, n)
  <2>1. size.ok /\ size.v = SizeWord(n) /\ size.p = q
    BY <1>8
  <2>. HIDE DEF payload, q
  <2>. QED
    BY <1>9, <1>10, <2>1, Zenon DEF DecompressSingleLz4Block
<1>. HIDE DEF payload
<1>13. Lz4BlockType \in Byte
  BY DEF Lz4BlockType, Byte
<1>14. f \in Seq(Byte) /\ Len(f) > 0 /\ Stands(f, 1, f) /\ Len(payload) <= Int32Max
  BY <1>5, <1>6, <1>13, ExtType
<1>15. ext = [ok |-> TRUE, type |-> Lz4BlockType, v |-> payload, p |-> 1 + Len(f)]
  <2>1. 1 \in Nat /\ Stands(f, 1, WriteExt(Lz4BlockType, payload))
    BY <1>14
  <2>2. f \in Seq(Byte)
    BY <1>14
  <2>. HIDE DEF f
  <2>3. ReadExtPayload(f, 1) = [ok |-> TRUE, type |-> Lz4BlockType, v |-> payload, p |-> 1 + Len(WriteExt(Lz4BlockType, payload))]
    BY <1>6, <1>13, <1>14, <2>1, <2>2, ExtRoundTrip
  <2>. QED
    BY <2>3 DEF f
<1>16. IsExtMarker(f[1])
  <2>1. 1 \in Nat
    OBVIOUS
  <2>. QED
    BY <1>6, <1>13, <1>14, <2>1, ExtBegins
<1>. HIDE DEF f
<1>17. ext.ok /\ ext.type = Lz4BlockType /\ ext.v = payload /\ ext.p = Len(f) + 1
  <2>1. ext.ok /\ ext.type = Lz4BlockType /\ ext.v = payload /\ ext.p = 1 + Len(f)
    BY <1>15
  <2>2. Len(f) \in Nat
    BY <1>14, LenProperties
  <2>. QED
    BY <2>1, <2>2
<1>18. f # <<>>
  BY <1>14
<1>19. DecompressLz4BlockArray(f) = DecompressSingleLz4Block(payload)
  BY <1>16, <1>17, <1>18, Zenon DEF DecompressLz4BlockArray
<1>. QED
  BY <1>4, <1>11, <1>12, <1>19

-----------------------------------------------------------------------------
(* What an envelope of anybody holds: never more than was allowed.          *)

\* A part of a file, from its place to before the next.
LEMMA CutIsBytes ==
  ASSUME NEW f \in Seq(Byte), NEW a \in Nat \ {0}, NEW b \in Int, b <= Len(f)
  PROVE  SubSeq(f, a, b) \in Seq(Byte)
<1>1. \A i \in a .. b : f[i] \in Byte
  <2>. SUFFICES ASSUME NEW i \in a .. b PROVE f[i] \in Byte
    OBVIOUS
  <2>1. i \in 1 .. Len(f)
    BY LenProperties
  <2>. QED
    BY <2>1, ElementOfSeq
<1>. QED
  BY <1>1, SubSeqProperties

\* What stays in S from step to step is in S.
StaysIn(n, S, g) == \A k \in 1 .. n : g[k - 1] \in S => g[k] \in S
LEMMA AllIn ==
  ASSUME NEW n \in Nat, NEW S, NEW g, g[0] \in S, StaysIn(n, S, g)
  PROVE  \A k \in 0 .. n : g[k] \in S
<1>. DEFINE T == {k \in Nat : k <= n => g[k] \in S}
<1>1. 0 \in T
  OBVIOUS
<1>2. ASSUME NEW k \in Nat, k \in T PROVE k + 1 \in T
  <2>. SUFFICES ASSUME k + 1 <= n PROVE g[k + 1] \in S
    OBVIOUS
  <2>1. g[k] \in S /\ k + 1 \in 1 .. n /\ (k + 1) - 1 = k
    BY <1>2
  <2>. QED
    BY <2>1 DEF StaysIn
<1>3. \A k \in Nat : k \in T
  <2>. HIDE DEF T
  <2>. QED
    BY <1>1, <1>2, SetInduction
<1>. QED
  BY <1>3

\* A loop whose steps lead from S to S has its states, as long as one likes.
Iterates(n, start, step, g) == g = [k \in 0 .. n |-> IF k = 0 THEN start ELSE step[k][g[k - 1]]]
LEMMA IterationExists ==
  ASSUME NEW n \in Nat, NEW start, NEW step
  PROVE  \E g : Iterates(n, start, step, g)
<1>. DEFINE T == {m \in Nat : \E g : Iterates(m, start, step, g)}
<1>1. 0 \in T
  <2>1. Iterates(0, start, step, [k \in 0 .. 0 |-> start])
    BY DEF Iterates
  <2>. QED
    BY <2>1
<1>2. ASSUME NEW m \in Nat, m \in T PROVE m + 1 \in T
  <2>1. PICK g : Iterates(m, start, step, g)
    BY <1>2
  <2>. DEFINE h == [k \in 0 .. m + 1 |-> IF k = m + 1 THEN step[m + 1][g[m]] ELSE g[k]]
  <2>2. \A k \in 0 .. m + 1 : h[k] = IF k = 0 THEN start ELSE step[k][h[k - 1]]
    <3>. TAKE k \in 0 .. m + 1
    <3>1. CASE k = m + 1
      <4>1. k # 0 /\ k - 1 \in 0 .. m + 1 /\ k - 1 # m + 1 /\ k - 1 = m
        BY <3>1
      <4>. QED
        BY <3>1, <4>1
    <3>2. CASE k # m + 1
      <4>1. k \in 0 .. m /\ h[k] = g[k]
        BY <3>2
      <4>2. g[k] = IF k = 0 THEN start ELSE step[k][g[k - 1]]
        BY <2>1, <4>1 DEF Iterates
      <4>3. k # 0 => h[k - 1] = g[k - 1]
        BY <4>1
      <4>. QED
        BY <4>1, <4>2, <4>3
    <3>. QED
      BY <3>1, <3>2
  <2>3. Iterates(m + 1, start, step, h)
    BY <2>2 DEF Iterates
  <2>. QED
    BY <2>3
<1>3. n \in T
  <2>. HIDE DEF T
  <2>. QED
    BY <1>1, <1>2, SetInduction
<1>. QED
  BY <1>3

\* A number that is read has eight bytes, whatever form it has in the file.
LEMMA ExtendedWord ==
  ASSUME NEW f \in Seq(Byte), NEW p \in Nat \ {0}, NEW n \in {1, 2, 4, 8}, p + n <= Len(f), NEW x \in Byte
  PROVE  Extended(f, p, n, x) \in Word64
<1>1. Len(f) \in Nat
  OBVIOUS
<1>2. \A i \in 1 .. 8 : (IF i <= 8 - n THEN x ELSE f[p + i + n - 8]) \in Byte
  <2>. TAKE i \in 1 .. 8
  <2>1. CASE i <= 8 - n
    BY <2>1
  <2>2. CASE ~(i <= 8 - n)
    <3>1. p + i + n - 8 \in 1 .. Len(f)
      BY <1>1, <2>2
    <3>2. f[p + i + n - 8] \in Byte
      BY <3>1, ElementOfSeq
    <3>. QED
      BY <2>2, <3>2, Zenon
  <2>. QED
    BY <2>1, <2>2
<1>. QED
  BY <1>2, Zenon DEF Extended, Word64

LEMMA LastByteWord ==
  ASSUME NEW b \in 0 .. 255
  PROVE  /\ <<0, 0, 0, 0, 0, 0, 0, b>> \in Word64
         /\ <<255, 255, 255, 255, 255, 255, 255, b>> \in Word64
<1>1. \A s \in Seq(Byte) : Len(s) = 8 => s \in Word64
  BY DEF Word64
<1>2. b \in Byte /\ 0 \in Byte /\ 255 \in Byte
  BY DEF Byte
<1>3. /\ <<0, 0, 0, 0, 0, 0, 0, b>> \in Seq(Byte)
      /\ Len(<<0, 0, 0, 0, 0, 0, 0, b>>) = 8
  BY <1>2
<1>4. /\ <<255, 255, 255, 255, 255, 255, 255, b>> \in Seq(Byte)
      /\ Len(<<255, 255, 255, 255, 255, 255, 255, b>>) = 8
  BY <1>2
<1>. QED
  BY <1>1, <1>3, <1>4

LEMMA IntegerIsWord ==
  ASSUME NEW f \in Seq(Byte), NEW p \in Nat \ {0}, ReadInt64(f, p).ok
  PROVE  ReadInt64(f, p).v \in Word64 /\ ReadInt64(f, p).p \in Nat \ {0} /\ ReadInt64(f, p).p <= Len(f) + 1
<1>. DEFINE n == Width(f[p])
            r == ReadInteger(f, p)
<1>1. ReadInt64(f, p) = r /\ r.ok
  BY DEF ReadInt64, Unread
<1>2. ~(p > Len(f)) /\ Len(f) \in Nat
  BY <1>1, LenProperties DEF ReadInteger, Unread
<1>3. f[p] \in 0 .. 255 /\ n \in {0, 1, 2, 4, 8}
  <2>1. p \in 1 .. Len(f)
    BY <1>2
  <2>2. f[p] \in 0 .. 255
    BY <2>1, FileBytes
  <2>. QED
    BY <2>2 DEF Width
<1>4. ASSUME f[p] <= 127 PROVE r.v \in Word64
  <2>1. r.v = <<0, 0, 0, 0, 0, 0, 0, f[p]>>
    BY <1>2, <1>4 DEF ReadInteger
  <2>2. <<0, 0, 0, 0, 0, 0, 0, f[p]>> \in Word64
    BY <1>3, LastByteWord
  <2>. QED
    BY <2>1, <2>2, Zenon
<1>5. ASSUME ~(f[p] <= 127) /\ f[p] >= 224 PROVE r.v \in Word64
  <2>1. r.v = <<255, 255, 255, 255, 255, 255, 255, f[p]>>
    BY <1>2, <1>5 DEF ReadInteger
  <2>2. <<255, 255, 255, 255, 255, 255, 255, f[p]>> \in Word64
    BY <1>3, LastByteWord
  <2>. QED
    BY <2>1, <2>2, Zenon
<1>6. ASSUME ~(f[p] <= 127) /\ ~(f[p] >= 224) PROVE r.v \in Word64
  <2>1. ~(n = 0 \/ p + n > Len(f))
    BY <1>1, <1>2, <1>6 DEF ReadInteger, Unread
  <2>2. n \in {1, 2, 4, 8} /\ p + n <= Len(f)
    <3>. HIDE DEF n
    <3>. QED
      BY <1>2, <1>3, <2>1
  <2>3. r.v \in {Extended(f, p, n, 0), Extended(f, p, n, SignOf(f[p + 1]))}
    BY <1>2, <1>6, <2>1 DEF ReadInteger
  <2>4. 0 \in Byte /\ SignOf(f[p + 1]) \in Byte
    BY DEF SignOf, Byte
  <2>5. Extended(f, p, n, 0) \in Word64 /\ Extended(f, p, n, SignOf(f[p + 1])) \in Word64
    <3>. HIDE DEF n
    <3>. QED
      BY <2>2, <2>4, ExtendedWord
  <2>. HIDE DEF r, n
  <2>. QED
    BY <2>3, <2>5
<1>7. r.v \in Word64
  <2>. HIDE DEF r
  <2>. QED
    BY <1>4, <1>5, <1>6
<1>8. r.p \in p + 1 .. Len(f) + 1
  BY <1>1, IntegerInside DEF Inside
<1>. HIDE DEF r
<1>. QED
  BY <1>1, <1>2, <1>7, <1>8

\* A length in some bytes of a file.
LEMMA LengthAtType ==
  ASSUME NEW f \in Seq(Byte), NEW p \in Nat \ {0}, NEW n \in {1, 2, 4}, p + n <= Len(f)
  PROVE  LengthAt(f, p, n) \in Length
<1>1. Len(f) \in Nat /\ 0 \in Byte
  BY LenProperties DEF Byte
<1>2. \A i \in 1 .. 4 : (IF i <= 4 - n THEN 0 ELSE f[p + i + n - 4]) \in Byte
  <2>. TAKE i \in 1 .. 4
  <2>1. CASE i <= 4 - n
    BY <1>1, <2>1
  <2>2. CASE ~(i <= 4 - n)
    <3>1. p + i + n - 4 \in 1 .. Len(f)
      BY <1>1, <2>2
    <3>2. f[p + i + n - 4] \in Byte
      BY <3>1, ElementOfSeq
    <3>. QED
      BY <2>2, <3>2, Zenon
  <2>. QED
    BY <2>1, <2>2
<1>. QED
  BY <1>2, Zenon DEF LengthAt, Length

\* The data of an extension, and of an array of bytes, are bytes of the file.
LEMMA ExtIsBytes ==
  ASSUME NEW f \in Seq(Byte), NEW p \in Nat \ {0}, ReadExtPayload(f, p).ok
  PROVE  ReadExtPayload(f, p).v \in Seq(Byte) /\ ReadExtPayload(f, p).p \in Nat \ {0}
<1>. DEFINE wide == SizeBytes(f[p])
            start == p + wide + 2
            size == IF wide = 0 THEN Bytes4(CHOOSE n \in DOMAIN Fixed : Fixed[n] = f[p]) ELSE LengthAt(f, p, wide)
            r == ReadExtPayload(f, p)
            v == SubSeq(f, start, start + Number(size) - 1)
<1>1. ~(p > Len(f)) /\ IsExtMarker(f[p]) /\ ~(start - 1 > Len(f)) /\ ~(Number(size) > Len(f) + 1 - start)
  BY DEF ReadExtPayload, Unread
<1>2. r = [ok |-> TRUE, type |-> f[start - 1], v |-> v, p |-> start + Number(size)]
  BY Zenon DEF ReadExtPayload, Unread
<1>3. wide \in {0, 1, 2, 4} /\ Len(f) \in Nat /\ start \in Nat \ {0} /\ start - 1 <= Len(f)
  <2>1. wide \in {0, 1, 2, 4} /\ Len(f) \in Nat
    BY LenProperties DEF SizeBytes
  <2>. HIDE DEF wide
  <2>. QED
    BY <1>1, <2>1
<1>4. Number(size) \in Nat
  <2>1. CASE wide = 0
    <3>1. f[p] \in Range(Fixed)
      BY <1>1, <2>1 DEF IsExtMarker, SizeBytes
    <3>2. \E n \in DOMAIN Fixed : Fixed[n] = f[p]
      BY <3>1 DEF Range
    <3>3. (CHOOSE n \in DOMAIN Fixed : Fixed[n] = f[p]) \in {1, 2, 4, 8, 16}
      <4>1. DOMAIN Fixed = {1, 2, 4, 8, 16}
        BY DEF Fixed
      <4>. QED
        BY <3>2, <4>1, Zenon
    <3>4. \A n \in {1, 2, 4, 8, 16} : Number(Bytes4(n)) = n
      <4>1. \A n \in {1, 2, 4, 8, 16} : n \in Nat /\ n <= Int32Max
        BY DEF Int32Max
      <4>. QED
        BY <4>1, LengthAsNumber
    <3>5. size = Bytes4(CHOOSE n \in DOMAIN Fixed : Fixed[n] = f[p])
      BY <2>1
    <3>. DEFINE k == CHOOSE n \in DOMAIN Fixed : Fixed[n] = f[p]
    <3>6. k \in {1, 2, 4, 8, 16} /\ size = Bytes4(k)
      BY <3>3, <3>5
    <3>. HIDE DEF size, k
    <3>7. Number(size) = k /\ k \in Nat
      BY <3>4, <3>6
    <3>. QED
      BY <3>7
  <2>2. CASE wide # 0
    <3>1. p + wide <= Len(f) /\ wide \in {1, 2, 4}
      <4>. HIDE DEF wide
      <4>. QED
        BY <1>1, <1>3, <2>2
    <3>2. LengthAt(f, p, wide) \in Length
      BY <3>1, LengthAtType
    <3>3. size = LengthAt(f, p, wide)
      BY <2>2, Zenon
    <3>4. Number(LengthAt(f, p, wide)) \in Nat
      <4>. HIDE DEF wide
      <4>. QED
        BY <3>2, NumberIsNatural
    <3>. HIDE DEF size, wide
    <3>. QED
      BY <3>3, <3>4
  <2>. QED
    BY <2>1, <2>2
<1>. HIDE DEF start, size
<1>5. start + Number(size) - 1 \in Int /\ start + Number(size) - 1 <= Len(f) /\ start + Number(size) \in Nat \ {0}
  BY <1>1, <1>3, <1>4
<1>6. v \in Seq(Byte)
  BY <1>3, <1>5, CutIsBytes
<1>. HIDE DEF v, r
<1>7. r.v = v /\ r.p = start + Number(size)
  BY <1>2
<1>. QED
  BY <1>5, <1>6, <1>7 DEF r

LEMMA PayloadIsBytes ==
  ASSUME NEW form \in Forms, NEW f \in Seq(Byte), NEW p \in Nat \ {0}, ReadPayload(form, f, p).ok
  PROVE  ReadPayload(form, f, p).v \in Seq(Byte) /\ ReadPayload(form, f, p).p \in Nat \ {0}
<1>. DEFINE r == ReadLength(form, f, p, 1)
            n == Number(r.v)
            q == ReadPayload(form, f, p)
            v == SubSeq(f, r.p, r.p + n - 1)
<1>1. r.ok /\ q = [ok |-> TRUE, v |-> v, p |-> r.p + n]
  BY DEF ReadPayload, Unread
<1>2. r.p \in p + 1 .. Len(f) + 1 /\ r.p + n * 1 <= Len(f) + 1
  BY <1>1, LengthsInside
<1>3. n \in Nat
  <2>1. r = ReadHeader(form, f, p)
    BY <1>1 DEF ReadLength, Unread
  <2>2. r.v \in Length
    BY <1>1, <2>1, HeaderIsLength
  <2>. QED
    BY <2>2, NumberIsNatural
<1>. HIDE DEF r, n
<1>4. r.p \in Nat \ {0} /\ r.p + n - 1 \in Int /\ r.p + n - 1 <= Len(f) /\ r.p + n \in Nat \ {0}
  BY <1>2, <1>3, LenProperties
<1>5. v \in Seq(Byte)
  BY <1>4, CutIsBytes
<1>. HIDE DEF v, q
<1>6. q.v = v /\ q.p = r.p + n
  BY <1>1
<1>. QED
  BY <1>4, <1>5, <1>6 DEF q

\* A length ends behind its half, and may end behind the block.
LEMMA LengthFromType ==
  ASSUME NEW b \in Seq(Byte), NEW p \in 1 .. Len(b) + 1, NEW half \in 0 .. 15
  PROVE  LengthFrom(b, p, half).n \in Nat /\ LengthFrom(b, p, half).p \in Nat \ {0}
<1>. DEFINE ends == {q \in p .. Len(b) : b[q] # 255}
            last == IF ends = {} THEN Len(b) + 1 ELSE Min(ends)
            n == 15 + (last - p) * 255 + (IF ends = {} THEN 0 ELSE b[last])
<1>1. Len(b) \in Nat /\ p \in Nat \ {0} /\ p <= Len(b) + 1
  BY LenProperties
<1>2. last \in p .. Len(b) + 1 /\ (ends # {} => last \in ends)
  <2>1. CASE ends = {}
    BY <1>1, <2>1
  <2>2. CASE ends # {}
    <3>1. ends \subseteq Nat /\ ends \subseteq Int
      BY <1>1
    <3>2. PICK m \in ends : \A x \in ends : m <= x
      BY <2>2, <3>1, LeastElement
    <3>3. Min(ends) = m
      <4>. HIDE DEF ends
      <4>. QED
        BY <3>1, <3>2, LeastIsMin
    <3>4. m \in p .. Len(b)
      OBVIOUS
    <3>5. last = m
      BY <2>2, <3>3
    <3>. HIDE DEF ends, last
    <3>. QED
      BY <1>1, <3>2, <3>4, <3>5
  <2>. QED
    BY <2>1, <2>2
<1>3. (IF ends = {} THEN 0 ELSE b[last]) \in Nat
  <2>1. CASE ends = {}
    BY <2>1
  <2>2. CASE ends # {}
    <3>1. last \in ends
      BY <1>2, <2>2
    <3>2. \A q \in ends : q \in 1 .. Len(b)
      BY <1>1
    <3>. HIDE DEF ends, last
    <3>3. b[last] \in 0 .. 255
      BY <3>1, <3>2, FileBytes
    <3>4. \A x \in 0 .. 255 : x \in Nat
      OBVIOUS
    <3>. QED
      BY <2>2, <3>3, <3>4, Zenon
  <2>. QED
    BY <2>1, <2>2
<1>4. LengthFrom(b, p, half) = IF half < 15 THEN [n |-> half, p |-> p] ELSE [n |-> n, p |-> last + 1]
  BY Zenon DEF LengthFrom
<1>. DEFINE rest == IF ends = {} THEN 0 ELSE b[last]
<1>5. n = 15 + (last - p) * 255 + rest /\ rest \in Nat
  BY <1>3
<1>. HIDE DEF ends, last, rest, n
<1>6. n \in Nat /\ last + 1 \in Nat \ {0}
  BY <1>1, <1>2, <1>5
<1>. QED
  BY <1>1, <1>4, <1>6

LEMMA RemainderBelow ==
  ASSUME NEW i \in Nat, NEW d \in Nat \ {0}
  PROVE  i % d \in 0 .. d - 1
OBVIOUS

LEMMA CopiedType ==
  ASSUME NEW out \in Seq(Byte), NEW offset \in 1 .. Len(out), NEW n \in Nat
  PROVE  Copied(out, offset, n) \in Seq(Byte)
<1>. DEFINE c == [i \in 1 .. n |-> out[Len(out) - offset + 1 + ((i - 1) % offset)]]
<1>1. \A i \in 1 .. n : out[Len(out) - offset + 1 + ((i - 1) % offset)] \in Byte
  <2>. TAKE i \in 1 .. n
  <2>. DEFINE m == (i - 1) % offset
  <2>1. m \in 0 .. offset - 1 /\ Len(out) \in Nat
    <3>1. i - 1 \in Nat /\ offset \in Nat \ {0} /\ Len(out) \in Nat
      BY LenProperties
    <3>. QED
      BY <3>1, RemainderBelow
  <2>. HIDE DEF m
  <2>2. Len(out) - offset + 1 + m \in 1 .. Len(out)
    BY <2>1
  <2>3. out[Len(out) - offset + 1 + m] \in Byte
    BY <2>2, ElementOfSeq
  <2>. QED
    BY <2>3 DEF m
<1>2. c \in [1 .. n -> Byte]
  BY <1>1
<1>3. c \in Seq(Byte)
  BY <1>2, FunctionIsSeq
<1>4. out \o c \in Seq(Byte)
  <2>. HIDE DEF c
  <2>. QED
    BY <1>3
<1>. QED
  BY <1>4, Zenon DEF Copied

\* The states of a decompression.
Decompressions ==
  {[st |-> "bad"]} \cup [st : {"end"}, v : Seq(Byte)] \cup [st : {"more"}, p : Nat \ {0}, v : Seq(Byte)]

LEMMA SequenceType ==
  ASSUME NEW b \in Seq(Byte), NEW s \in Decompressions
  PROVE  NextSequence(b, s) \in Decompressions
<1>. DEFINE literals == LengthFrom(b, s.p + 1, b[s.p] \div 16)
            behind == literals.p + literals.n
            held == s.v \o SubSeq(b, literals.p, behind - 1)
            offset == b[behind] + b[behind + 1] * 256
            match == LengthFrom(b, behind + 2, b[s.p] % 16)
            bad == [st |-> "bad"]
            end == [st |-> "end", v |-> held]
            more == [st |-> "more", p |-> match.p, v |-> Copied(held, offset, match.n + 4)]
<1>1. NextSequence(b, s) =
        IF s.st # "more" THEN s
        ELSE IF s.p > Len(b) \/ behind > Len(b) + 1 THEN bad
        ELSE IF behind = Len(b) + 1 THEN end
        ELSE IF behind = Len(b) THEN bad
        ELSE IF offset = 0 \/ offset > Len(held) THEN bad
        ELSE more
  BY Zenon DEF NextSequence
<1>2. bad \in Decompressions
  BY DEF Decompressions
<1>3. ASSUME s.st = "more", ~(s.p > Len(b) \/ behind > Len(b) + 1)
      PROVE  /\ s.p \in 1 .. Len(b) /\ Len(b) \in Nat
             /\ b[s.p] \in 0 .. 255
             /\ behind \in Nat \ {0} /\ behind <= Len(b) + 1
             /\ held \in Seq(Byte)
  <2>1. s.p \in Nat \ {0} /\ s.v \in Seq(Byte)
    BY <1>3 DEF Decompressions
  <2>2. s.p \in 1 .. Len(b) /\ Len(b) \in Nat /\ s.p + 1 \in 1 .. Len(b) + 1
    BY <1>3, <2>1, LenProperties
  <2>3. b[s.p] \in 0 .. 255
    BY <2>2, FileBytes
  <2>4. b[s.p] \div 16 \in 0 .. 15
    <3>1. \A x \in 0 .. 255 : x \div 16 \in 0 .. 15
      BY SMT
    <3>. QED
      BY <2>3, <3>1, Zenon
  <2>5. literals.n \in Nat /\ literals.p \in Nat \ {0}
    BY <2>2, <2>4, LengthFromType
  <2>. HIDE DEF literals
  <2>6. behind \in Nat \ {0} /\ behind <= Len(b) + 1 /\ behind - 1 \in Int /\ behind - 1 <= Len(b)
    BY <1>3, <2>2, <2>5
  <2>7. SubSeq(b, literals.p, behind - 1) \in Seq(Byte)
    <3>. HIDE DEF behind
    <3>. QED
      BY <2>5, <2>6, CutIsBytes
  <2>8. held \in Seq(Byte)
    BY <2>1, <2>7
  <2>. QED
    BY <2>2, <2>3, <2>6, <2>8
<1>4. ASSUME s.st = "more", ~(s.p > Len(b) \/ behind > Len(b) + 1) PROVE end \in Decompressions
  <2>1. held \in Seq(Byte)
    BY <1>3, <1>4
  <2>. HIDE DEF held
  <2>. QED
    BY <2>1 DEF Decompressions
<1>5. ASSUME s.st = "more", ~(s.p > Len(b) \/ behind > Len(b) + 1), behind # Len(b) + 1, behind # Len(b),
             ~(offset = 0 \/ offset > Len(held))
      PROVE  more \in Decompressions
  <2>1. /\ s.p \in 1 .. Len(b) /\ Len(b) \in Nat
        /\ b[s.p] \in 0 .. 255
        /\ behind \in Nat \ {0} /\ behind <= Len(b) + 1
        /\ held \in Seq(Byte)
    BY <1>3, <1>5
  <2>. HIDE DEF behind, held
  <2>2. behind \in 1 .. Len(b) /\ behind + 1 \in 1 .. Len(b) /\ behind + 2 \in 1 .. Len(b) + 1
    BY <1>5, <2>1
  <2>3. b[behind] \in 0 .. 255 /\ b[behind + 1] \in 0 .. 255
    BY <2>2, FileBytes
  <2>4. offset \in Nat
    <3>1. \A x, y \in 0 .. 255 : x + y * 256 \in Nat
      OBVIOUS
    <3>. QED
      BY <2>3, <3>1, Zenon
  <2>5. b[s.p] % 16 \in 0 .. 15
    <3>1. \A x \in 0 .. 255 : x % 16 \in 0 .. 15
      BY SMT
    <3>. QED
      BY <2>1, <3>1, Zenon
  <2>6. match.n \in Nat /\ match.p \in Nat \ {0}
    BY <2>2, <2>5, LengthFromType
  <2>. HIDE DEF match, offset
  <2>7. offset \in 1 .. Len(held) /\ match.n + 4 \in Nat
    BY <1>5, <2>1, <2>4, <2>6, LenProperties
  <2>8. Copied(held, offset, match.n + 4) \in Seq(Byte)
    BY <2>1, <2>7, CopiedType
  <2>. QED
    BY <2>6, <2>8 DEF Decompressions
<1>. HIDE DEF bad, end, more, behind, held, offset, match, literals
<1>. QED
  BY <1>1, <1>2, <1>4, <1>5, Zenon

LEMMA UncompressedIsBytes ==
  ASSUME NEW b \in Seq(Byte), UncompressBlock(b).ok
  PROVE  UncompressBlock(b).v \in Seq(Byte)
<1>. DEFINE start == [st |-> "more", p |-> 1, v |-> <<>>]
            n == Len(b)
<1>1. PICK g : /\ SequencesOf(b, n, g)
               /\ UncompressBlock(b) = IF g[n].st = "end" THEN [ok |-> TRUE, v |-> g[n].v] ELSE Unread
  BY Uncompressed
<1>2. n \in Nat /\ 0 \in 0 .. n /\ n \in 0 .. n
  BY LenProperties
<1>3. \A k \in 0 .. n : g[k] = IF k = 0 THEN start ELSE NextSequence(b, g[k - 1])
  BY <1>1, Zenon DEF SequencesOf
<1>4. start \in Decompressions
  BY DEF Decompressions
<1>. HIDE DEF start, n
<1>5. StaysIn(n, Decompressions, g)
  <2>. SUFFICES ASSUME NEW k \in 1 .. n, g[k - 1] \in Decompressions PROVE g[k] \in Decompressions
    BY Zenon DEF StaysIn
  <2>1. k \in 0 .. n /\ k # 0
    BY <1>2
  <2>. QED
    BY <1>3, <2>1, SequenceType
<1>6. g[n] \in Decompressions
  <2>1. g[0] \in Decompressions
    BY <1>2, <1>3, <1>4
  <2>. QED
    BY <1>2, <1>5, <2>1, AllIn
<1>7. g[n].st = "end" /\ UncompressBlock(b).v = g[n].v
  <2>1. g[n].st = "end"
    BY <1>1 DEF Unread
  <2>. QED
    BY <1>1, <2>1
<1>8. g[n].v \in Seq(Byte)
  BY <1>6, <1>7 DEF Decompressions
<1>. QED
  BY <1>7, <1>8

\* A block is as long as was announced.
LEMMA AsLongAsAnnounced ==
  ASSUME NEW c \in Seq(Byte), NEW size \in Nat, DecompressLz4Bytes(c, size).ok
  PROVE  DecompressLz4Bytes(c, size).v \in Seq(Byte) /\ Len(DecompressLz4Bytes(c, size).v) = size
<1>1. CASE size = 0
  <2>1. DecompressLz4Bytes(c, size) = [ok |-> TRUE, v |-> <<>>]
    BY <1>1 DEF DecompressLz4Bytes, Unread
  <2>2. <<>> \in Seq(Byte) /\ Len(<<>>) = 0
    OBVIOUS
  <2>3. DecompressLz4Bytes(c, size).v = <<>>
    BY <2>1
  <2>. QED
    BY <1>1, <2>2, <2>3, Zenon
<1>2. CASE size # 0
  <2>1. /\ UncompressBlock(c).ok /\ Len(UncompressBlock(c).v) = size
        /\ DecompressLz4Bytes(c, size) = UncompressBlock(c)
    BY <1>2 DEF DecompressLz4Bytes, Unread
  <2>. QED
    BY <2>1, UncompressedIsBytes
<1>. QED
  BY <1>1, <1>2

\* A size that is accepted is not above what is allowed.
LEMMA AcceptedSize ==
  ASSUME NEW v \in Word64, ValidateLz4Size(v), MaxLz4DecompressedSize \in Nat
  PROVE  SizeOf(v) \in 0 .. MaxLz4DecompressedSize
<1>1. SubSeq(v, 5, 8) \in Length
  <2>1. v \in Seq(Byte) /\ Len(v) = 8
    BY FunctionIsSeq DEF Word64
  <2>2. SubSeq(v, 5, 8) \in Seq(Byte) /\ Len(SubSeq(v, 5, 8)) = 4
    BY <2>1
  <2>3. \A s \in Seq(Byte) : Len(s) = 4 => s \in Length
    BY DEF Length
  <2>. QED
    BY <2>2, <2>3
<1>2. SizeOf(v) \in Nat
  BY <1>1, NumberIsNatural DEF SizeOf
<1>3. SizeOf(v) <= MaxLz4DecompressedSize
  BY DEF ValidateLz4Size
<1>. QED
  BY <1>2, <1>3

\* The states of a reader that appends to what it has.
Readings(S) == {Unread} \cup [ok : {TRUE}, v : Seq(S), p : Nat \ {0}]

LEMMA SizeType ==
  ASSUME NEW payload \in Seq(Byte), MaxLz4DecompressedSize \in Nat, NEW s \in Readings(0 .. MaxLz4DecompressedSize)
  PROVE  NextSize(payload, s) \in Readings(0 .. MaxLz4DecompressedSize)
<1>. DEFINE r == DecodeMsgpackInt(payload, s.p)
            S == 0 .. MaxLz4DecompressedSize
            next == [ok |-> TRUE, v |-> Append(s.v, SizeOf(r.v)), p |-> r.p]
<1>1. NextSize(payload, s) \in {s, Unread, next}
  BY Zenon DEF NextSize
<1>2. s \in Readings(S) /\ Unread \in Readings(S)
  BY DEF Readings
<1>3. CASE NextSize(payload, s) = next /\ ~(NextSize(payload, s) \in {s, Unread})
  <2>1. s.ok /\ r.ok /\ ValidateLz4Size(r.v)
    <3>. HIDE DEF next
    <3>. QED
      BY <1>3, Zenon DEF NextSize
  <2>2. s.v \in Seq(S) /\ s.p \in Nat \ {0}
    <3>. HIDE DEF S, r, next
    <3>1. s # Unread
      BY <2>1 DEF Unread
    <3>2. s \in [ok : {TRUE}, v : Seq(S), p : Nat \ {0}]
      BY <1>2, <3>1, Zenon DEF Readings
    <3>. QED
      BY <3>2
  <2>3. r.v \in Word64 /\ r.p \in Nat \ {0}
    BY <2>1, <2>2, IntegerIsWord DEF DecodeMsgpackInt
  <2>. HIDE DEF r
  <2>4. SizeOf(r.v) \in S
    BY <2>1, <2>3, AcceptedSize
  <2>. HIDE DEF S
  <2>5. Append(s.v, SizeOf(r.v)) \in Seq(S)
    BY <2>2, <2>4
  <2>6. next \in Readings(S)
    BY <2>3, <2>5 DEF Readings
  <2>. QED
    BY <1>3, <2>6 DEF S
<1>. HIDE DEF next
<1>. QED
  BY <1>1, <1>2, <1>3

\* A loop whose steps lead from S to S runs through states of S.
Runs(n, S, start, step, h) ==
  /\ h \in [0 .. n -> S]
  /\ \A k \in 0 .. n : h[k] = IF k = 0 THEN start ELSE step[k][h[k - 1]]
LEMMA LoopExists ==
  ASSUME NEW n \in Nat, NEW S, NEW start \in S, NEW step \in [1 .. n -> [S -> S]]
  PROVE  \E h : Runs(n, S, start, step, h)
<1>1. PICK h : Iterates(n, start, step, h)
  BY IterationExists
<1>2. \A k \in 0 .. n : h[k] = IF k = 0 THEN start ELSE step[k][h[k - 1]]
  BY <1>1, Zenon DEF Iterates
<1>3. StaysIn(n, S, h)
  <2>. SUFFICES ASSUME NEW k \in 1 .. n, h[k - 1] \in S PROVE h[k] \in S
    BY Zenon DEF StaysIn
  <2>1. k \in 0 .. n /\ k # 0
    OBVIOUS
  <2>2. h[k] = step[k][h[k - 1]]
    BY <1>2, <2>1
  <2>. QED
    BY <2>2
<1>4. \A k \in 0 .. n : h[k] \in S
  <2>1. h[0] = start /\ start \in S
    BY <1>2
  <2>. QED
    BY <1>3, <2>1, AllIn
<1>5. h \in [0 .. n -> S]
  <2>1. h = [k \in 0 .. n |-> h[k]]
    BY <1>1, Zenon DEF Iterates
  <2>. QED
    BY <1>4, <2>1
<1>6. Runs(n, S, start, step, h)
  BY <1>2, <1>5, Zenon DEF Runs
<1>. QED
  BY <1>6

SizesOf(payload, n, g) == g = [k \in 0 .. n |-> IF k = 0 THEN [ok |-> TRUE, v |-> <<>>, p |-> 1] ELSE NextSize(payload, g[k - 1])]

\* The sizes that are read are sizes that are allowed.
LEMMA SizesType ==
  ASSUME NEW payload \in Seq(Byte), MaxLz4DecompressedSize \in Nat, DecodeMsgpackIntList(payload).ok
  PROVE  DecodeMsgpackIntList(payload).v \in Seq(0 .. MaxLz4DecompressedSize)
<1>. DEFINE n == Len(payload)
            S == Readings(0 .. MaxLz4DecompressedSize)
            start == [ok |-> TRUE, v |-> <<>>, p |-> 1]
            step == [k \in 1 .. n |-> [s \in S |-> NextSize(payload, s)]]
            g == CHOOSE j : SizesOf(payload, n, j)
<1>1. n \in Nat /\ 0 \in 0 .. n /\ n \in 0 .. n
  BY LenProperties
<1>2. DecodeMsgpackIntList(payload) = g[n]
  BY Zenon DEF DecodeMsgpackIntList, SizesOf
<1>3. \A s \in S : NextSize(payload, s) \in S
  BY SizeType
<1>4. start \in S
  BY DEF Readings
<1>. HIDE DEF S, start, n
<1>5. step \in [1 .. n -> [S -> S]]
  BY <1>3
<1>6. \A k \in 1 .. n, s \in S : step[k][s] = NextSize(payload, s)
  OBVIOUS
<1>. HIDE DEF step
<1>7. PICK h : Runs(n, S, start, step, h)
  BY <1>1, <1>4, <1>5, LoopExists, Zenon
<1>8. h \in [0 .. n -> S] /\ \A k \in 0 .. n : h[k] = IF k = 0 THEN start ELSE step[k][h[k - 1]]
  BY <1>7, Zenon DEF Runs
<1>9. SizesOf(payload, n, h)
  <2>1. \A k \in 0 .. n : h[k] = IF k = 0 THEN start ELSE NextSize(payload, h[k - 1])
    <3>. TAKE k \in 0 .. n
    <3>1. CASE k = 0
      BY <1>8, <3>1
    <3>2. CASE k # 0
      <4>1. k \in 1 .. n /\ k - 1 \in 0 .. n
        BY <1>1, <3>2
      <4>2. h[k - 1] \in S
        BY <1>8, <4>1
      <4>. QED
        BY <1>6, <1>8, <3>2, <4>1, <4>2
    <3>. QED
      BY <3>1, <3>2
  <2>2. h = [k \in 0 .. n |-> h[k]]
    BY <1>8
  <2>. QED
    BY <2>1, <2>2, Zenon DEF SizesOf, start
<1>10. SizesOf(payload, n, g)
  BY <1>9, Zenon
<1>. HIDE DEF g
<1>11. \A k \in 0 .. n : g[k] = IF k = 0 THEN start ELSE NextSize(payload, g[k - 1])
  BY <1>10, Zenon DEF SizesOf, start
<1>12. StaysIn(n, S, g)
  <2>. SUFFICES ASSUME NEW k \in 1 .. n, g[k - 1] \in S PROVE g[k] \in S
    BY Zenon DEF StaysIn
  <2>1. k \in 0 .. n /\ k # 0
    BY <1>1
  <2>. QED
    BY <1>3, <1>11, <2>1
<1>13. g[n] \in S
  <2>1. g[0] \in S
    BY <1>1, <1>4, <1>11
  <2>. QED
    BY <1>1, <1>12, <2>1, AllIn
<1>14. g[n] # Unread
  BY <1>2 DEF Unread
<1>. DEFINE T == 0 .. MaxLz4DecompressedSize
<1>15. g[n] \in [ok : {TRUE}, v : Seq(T), p : Nat \ {0}]
  BY <1>13, <1>14, Zenon DEF S, Readings
<1>. HIDE DEF T
<1>16. g[n].v \in Seq(T)
  BY <1>15
<1>. QED
  BY <1>2, <1>16 DEF T

\* A block adds to the data what its size says.
LEMMA BlockType ==
  ASSUME NEW f \in Seq(Byte), NEW s \in Readings(Byte), NEW size \in Nat
  PROVE  /\ NextBlock(f, s, size) \in Readings(Byte)
         /\ NextBlock(f, s, size).ok => s.ok /\ Len(NextBlock(f, s, size).v) = Len(s.v) + size
<1>. DEFINE bin == ReadBin(f, s.p)
            block == DecompressLz4Bytes(bin.v, size)
            next == [ok |-> TRUE, v |-> s.v \o block.v, p |-> bin.p]
            r == NextBlock(f, s, size)
<1>1. r = IF ~s.ok THEN s ELSE IF ~bin.ok \/ ~block.ok THEN Unread ELSE next
  BY Zenon DEF NextBlock
<1>2. Unread \in Readings(Byte) /\ ~Unread.ok
  BY DEF Readings, Unread
<1>. HIDE DEF r
<1>3. ASSUME ~(s.ok /\ bin.ok /\ block.ok)
      PROVE  r \in Readings(Byte) /\ ~r.ok
  <2>. HIDE DEF next, bin, block
  <2>1. r \in {s, Unread} /\ (r = s => ~s.ok \/ s = Unread)
    BY <1>1, <1>3, Zenon
  <2>. QED
    BY <1>2, <2>1
<1>4. ASSUME s.ok, bin.ok, block.ok
      PROVE  r \in Readings(Byte) /\ Len(r.v) = Len(s.v) + size
  <2>1. s.v \in Seq(Byte) /\ s.p \in Nat \ {0}
    <3>1. s # Unread
      BY <1>4 DEF Unread
    <3>2. s \in [ok : {TRUE}, v : Seq(Byte), p : Nat \ {0}]
      BY <3>1, Zenon DEF Readings
    <3>. QED
      BY <3>2
  <2>2. bin.v \in Seq(Byte) /\ bin.p \in Nat \ {0}
    <3>1. BinForm \in Forms
      BY DEF Forms
    <3>. QED
      BY <1>4, <2>1, <3>1, PayloadIsBytes DEF ReadBin
  <2>. HIDE DEF bin
  <2>3. block.v \in Seq(Byte) /\ Len(block.v) = size
    BY <1>4, <2>2, AsLongAsAnnounced
  <2>. HIDE DEF block
  <2>4. s.v \o block.v \in Seq(Byte) /\ Len(s.v \o block.v) = Len(s.v) + size
    BY <2>1, <2>3, ConcatProperties, Zenon
  <2>. DEFINE both == s.v \o block.v
  <2>5. r = [ok |-> TRUE, v |-> both, p |-> bin.p]
    BY <1>1, <1>4, Zenon
  <2>6. both \in Seq(Byte) /\ Len(both) = Len(s.v) + size
    BY <2>4
  <2>. HIDE DEF both
  <2>7. r.v = both /\ r \in [ok : {TRUE}, v : Seq(Byte), p : Nat \ {0}]
    BY <2>2, <2>5, <2>6
  <2>. QED
    BY <2>6, <2>7, Zenon DEF Readings
<1>5. r \in Readings(Byte) /\ (r.ok => s.ok /\ Len(r.v) = Len(s.v) + size)
  <2>. HIDE DEF bin, block
  <2>. QED
    BY <1>3, <1>4, Zenon
<1>. QED
  BY <1>5 DEF r

\* What the reader of the blocks has after each of them.
LEMMA BlocksType ==
  ASSUME NEW f \in Seq(Byte), NEW p \in Nat \ {0}, NEW sizes \in Seq(Nat)
  PROVE  \E g : /\ DataOf(f, p, sizes, Len(sizes), g) /\ Blocks(f, p, sizes) = g[Len(sizes)]
                /\ \A k \in 0 .. Len(sizes) : g[k] \in Readings(Byte)
<1>. DEFINE n == Len(sizes)
            S == Readings(Byte)
            start == [ok |-> TRUE, v |-> <<>>, p |-> p]
            step == [k \in 1 .. n |-> [s \in S |-> NextBlock(f, s, sizes[k])]]
            g == CHOOSE j : DataOf(f, p, sizes, n, j)
<1>1. n \in Nat /\ 0 \in 0 .. n /\ n \in 0 .. n
  BY LenProperties
<1>2. Blocks(f, p, sizes) = g[n]
  BY Zenon DEF Blocks, DataOf
<1>3. \A k \in 1 .. n, s \in S : NextBlock(f, s, sizes[k]) \in S
  <2>. TAKE k \in 1 .. n, s \in S
  <2>1. sizes[k] \in Nat
    BY ElementOfSeq
  <2>. QED
    BY <2>1, BlockType
<1>4. start \in S
  BY DEF Readings
<1>. HIDE DEF S, start, n
<1>5. step \in [1 .. n -> [S -> S]]
  BY <1>3
<1>6. \A k \in 1 .. n, s \in S : step[k][s] = NextBlock(f, s, sizes[k])
  OBVIOUS
<1>. HIDE DEF step
<1>7. PICK h : Runs(n, S, start, step, h)
  BY <1>1, <1>4, <1>5, LoopExists, Zenon
<1>8. h \in [0 .. n -> S] /\ \A k \in 0 .. n : h[k] = IF k = 0 THEN start ELSE step[k][h[k - 1]]
  BY <1>7, Zenon DEF Runs
<1>9. DataOf(f, p, sizes, n, h)
  <2>1. \A k \in 0 .. n : h[k] = IF k = 0 THEN start ELSE NextBlock(f, h[k - 1], sizes[k])
    <3>. TAKE k \in 0 .. n
    <3>1. CASE k = 0
      BY <1>8, <3>1
    <3>2. CASE k # 0
      <4>1. k \in 1 .. n /\ k - 1 \in 0 .. n
        BY <1>1, <3>2
      <4>2. h[k - 1] \in S
        BY <1>8, <4>1
      <4>. QED
        BY <1>6, <1>8, <3>2, <4>1, <4>2
    <3>. QED
      BY <3>1, <3>2
  <2>2. h = [k \in 0 .. n |-> h[k]]
    BY <1>8
  <2>. QED
    BY <2>1, <2>2, Zenon DEF DataOf, start
<1>10. DataOf(f, p, sizes, n, g)
  BY <1>9, Zenon
<1>. HIDE DEF g
<1>11. \A k \in 0 .. n : g[k] = IF k = 0 THEN start ELSE NextBlock(f, g[k - 1], sizes[k])
  BY <1>10, Zenon DEF DataOf, start
<1>12. StaysIn(n, S, g)
  <2>. SUFFICES ASSUME NEW k \in 1 .. n, g[k - 1] \in S PROVE g[k] \in S
    BY Zenon DEF StaysIn
  <2>1. k \in 0 .. n /\ k # 0
    BY <1>1
  <2>. QED
    BY <1>3, <1>11, <2>1
<1>13. \A k \in 0 .. n : g[k] \in S
  <2>1. g[0] \in S
    BY <1>1, <1>4, <1>11
  <2>. QED
    BY <1>1, <1>12, <2>1, AllIn
<1>. QED
  BY <1>2, <1>10, <1>13, Zenon DEF n, S

\* The partial sums: what is left of the sum is not below zero.
Sums == {-1} \cup 0 .. MaxLz4DecompressedSize
LEMMA SumsType ==
  ASSUME NEW sizes \in Seq(Nat), MaxLz4DecompressedSize \in Nat
  PROVE  \E g : /\ TotalsOf(sizes, Len(sizes), g) /\ SumLz4Sizes(sizes) = g[Len(sizes)]
                /\ \A k \in 0 .. Len(sizes) : g[k] \in Sums
<1>. DEFINE n == Len(sizes)
            S == Sums
            start == 0
            step == [k \in 1 .. n |-> [s \in S |-> AddSize(s, sizes[k])]]
            g == CHOOSE j : TotalsOf(sizes, n, j)
<1>1. n \in Nat /\ 0 \in 0 .. n /\ n \in 0 .. n
  BY LenProperties
<1>2. SumLz4Sizes(sizes) = g[n]
  BY Zenon DEF SumLz4Sizes, TotalsOf
<1>3. \A k \in 1 .. n, s \in S : AddSize(s, sizes[k]) \in S
  <2>. TAKE k \in 1 .. n, s \in S
  <2>. DEFINE x == sizes[k]
  <2>1. x \in Nat
    BY ElementOfSeq
  <2>. HIDE DEF x
  <2>2. AddSize(s, x) \in S
    BY <2>1 DEF AddSize, Sums
  <2>. QED
    BY <2>2 DEF x
<1>4. start \in S
  BY DEF Sums
<1>. HIDE DEF S, start, n
<1>5. step \in [1 .. n -> [S -> S]]
  BY <1>3
<1>6. \A k \in 1 .. n, s \in S : step[k][s] = AddSize(s, sizes[k])
  OBVIOUS
<1>. HIDE DEF step
<1>7. PICK h : Runs(n, S, start, step, h)
  BY <1>1, <1>4, <1>5, LoopExists, Zenon
<1>8. h \in [0 .. n -> S] /\ \A k \in 0 .. n : h[k] = IF k = 0 THEN start ELSE step[k][h[k - 1]]
  BY <1>7, Zenon DEF Runs
<1>9. TotalsOf(sizes, n, h)
  <2>1. \A k \in 0 .. n : h[k] = IF k = 0 THEN start ELSE AddSize(h[k - 1], sizes[k])
    <3>. TAKE k \in 0 .. n
    <3>1. CASE k = 0
      BY <1>8, <3>1
    <3>2. CASE k # 0
      <4>1. k \in 1 .. n /\ k - 1 \in 0 .. n
        BY <1>1, <3>2
      <4>2. h[k - 1] \in S
        BY <1>8, <4>1
      <4>. QED
        BY <1>6, <1>8, <3>2, <4>1, <4>2
    <3>. QED
      BY <3>1, <3>2
  <2>2. h = [k \in 0 .. n |-> h[k]]
    BY <1>8
  <2>. QED
    BY <2>1, <2>2, Zenon DEF TotalsOf, start
<1>10. TotalsOf(sizes, n, g)
  BY <1>9, Zenon
<1>. HIDE DEF g
<1>11. \A k \in 0 .. n : g[k] = IF k = 0 THEN start ELSE AddSize(g[k - 1], sizes[k])
  BY <1>10, Zenon DEF TotalsOf, start
<1>12. StaysIn(n, S, g)
  <2>. SUFFICES ASSUME NEW k \in 1 .. n, g[k - 1] \in S PROVE g[k] \in S
    BY Zenon DEF StaysIn
  <2>1. k \in 0 .. n /\ k # 0
    BY <1>1
  <2>. QED
    BY <1>3, <1>11, <2>1
<1>13. \A k \in 0 .. n : g[k] \in S
  <2>1. g[0] \in S
    BY <1>1, <1>4, <1>11
  <2>. QED
    BY <1>1, <1>12, <2>1, AllIn
<1>. QED
  BY <1>2, <1>10, <1>13, Zenon DEF n, S

\* The blocks of an envelope are together as long as their sizes.
LEMMA BlocksAsLong ==
  ASSUME NEW f \in Seq(Byte), NEW p \in Nat \ {0}, NEW sizes \in Seq(Nat), MaxLz4DecompressedSize \in Nat,
         SumLz4Sizes(sizes) # -1, Blocks(f, p, sizes).ok
  PROVE  /\ SumLz4Sizes(sizes) \in 0 .. MaxLz4DecompressedSize
         /\ Len(Blocks(f, p, sizes).v) = SumLz4Sizes(sizes)
<1>. DEFINE n == Len(sizes)
            start == [ok |-> TRUE, v |-> <<>>, p |-> p]
<1>1. n \in Nat
  BY LenProperties
<1>2. PICK data : /\ DataOf(f, p, sizes, n, data) /\ Blocks(f, p, sizes) = data[n]
                  /\ \A k \in 0 .. n : data[k] \in Readings(Byte)
  BY BlocksType
<1>3. PICK total : /\ TotalsOf(sizes, n, total) /\ SumLz4Sizes(sizes) = total[n]
                   /\ \A k \in 0 .. n : total[k] \in Sums
  BY SumsType
<1>4. \A k \in 0 .. n : data[k] = IF k = 0 THEN start ELSE NextBlock(f, data[k - 1], sizes[k])
  BY <1>2, Zenon DEF DataOf
<1>5. \A k \in 0 .. n : total[k] = IF k = 0 THEN 0 ELSE AddSize(total[k - 1], sizes[k])
  BY <1>3, Zenon DEF TotalsOf
<1>6. ASSUME NEW k \in 1 .. n
      PROVE  /\ k \in 0 .. n /\ k - 1 \in 0 .. n /\ k # 0 /\ sizes[k] \in Nat
             /\ data[k] = NextBlock(f, data[k - 1], sizes[k])
             /\ total[k] = AddSize(total[k - 1], sizes[k])
  <2>1. k \in 0 .. n /\ k - 1 \in 0 .. n /\ k # 0
    BY <1>1
  <2>2. sizes[k] \in Nat
    BY ElementOfSeq
  <2>. QED
    BY <1>4, <1>5, <2>1, <2>2, Zenon
<1>. DEFINE T == {k \in Nat : k <= n /\ data[k].ok /\ total[k] # -1 => Len(data[k].v) = total[k]}
<1>7. 0 \in T
  <2>1. 0 \in 0 .. n
    BY <1>1
  <2>2. data[0] = start /\ total[0] = 0
    BY <1>4, <1>5, <2>1
  <2>3. data[0].v = <<>> /\ Len(<<>>) = 0
    BY <2>2
  <2>. QED
    BY <2>2, <2>3
<1>8. ASSUME NEW k \in Nat, k \in T PROVE k + 1 \in T
  <2>. SUFFICES ASSUME k + 1 <= n, data[k + 1].ok, total[k + 1] # -1 PROVE Len(data[k + 1].v) = total[k + 1]
    OBVIOUS
  <2>1. k + 1 \in 1 .. n /\ (k + 1) - 1 = k /\ k \in 0 .. n
    BY <1>1
  <2>. DEFINE s == data[k]  a == total[k]  x == sizes[k + 1]
  <2>2. /\ x \in Nat /\ data[k + 1] = NextBlock(f, s, x) /\ total[k + 1] = AddSize(a, x)
        /\ s \in Readings(Byte) /\ a \in Sums
    BY <1>2, <1>3, <1>6, <2>1
  <2>3. s.ok /\ Len(data[k + 1].v) = Len(s.v) + x
    <3>. HIDE DEF s, x
    <3>. QED
      BY <2>2, BlockType
  <2>4. a # -1 /\ total[k + 1] = a + x
    <3>. HIDE DEF a, x
    <3>. QED
      BY <2>2 DEF AddSize
  <2>5. Len(s.v) = a
    BY <1>8, <2>1, <2>3, <2>4
  <2>. QED
    BY <2>3, <2>4, <2>5
<1>9. n \in T
  <2>. HIDE DEF T, n
  <2>. QED
    BY <1>1, <1>7, <1>8, SetInduction
<1>10. Len(data[n].v) = total[n]
  BY <1>1, <1>2, <1>3, <1>9
<1>11. total[n] \in 0 .. MaxLz4DecompressedSize
  <2>1. total[n] \in Sums
    BY <1>1, <1>3
  <2>. QED
    BY <1>3, <2>1 DEF Sums
<1>. QED
  BY <1>2, <1>3, <1>10, <1>11

LEMMA BlocksAreBytes ==
  ASSUME NEW f \in Seq(Byte), NEW p \in Nat \ {0}, NEW sizes \in Seq(Nat), Blocks(f, p, sizes).ok
  PROVE  Blocks(f, p, sizes).v \in Seq(Byte)
<1>1. Blocks(f, p, sizes) \in Readings(Byte)
  <2>1. Len(sizes) \in 0 .. Len(sizes)
    BY LenProperties
  <2>. QED
    BY <2>1, BlocksType
<1>. DEFINE r == Blocks(f, p, sizes)
<1>. HIDE DEF r
<1>2. r \in Readings(Byte) /\ r # Unread
  BY <1>1 DEF r, Unread
<1>3. r \in [ok : {TRUE}, v : Seq(Byte), p : Nat \ {0}]
  BY <1>2, Zenon DEF Readings
<1>. QED
  BY <1>3 DEF r

\* No more than the code allows, and a sequence of bytes.
Bounded(r) == r.v \in Seq(Byte) /\ Len(r.v) <= MaxLz4DecompressedSize

LEMMA SingleBounded ==
  ASSUME NEW payload \in Seq(Byte), MaxLz4DecompressedSize \in Nat, DecompressSingleLz4Block(payload).ok
  PROVE  Bounded(DecompressSingleLz4Block(payload))
<1>. DEFINE size == DecodeMsgpackInt(payload, 1)
            rest == SubSeq(payload, size.p, Len(payload))
            r == DecompressLz4Bytes(rest, SizeOf(size.v))
<1>1. size.ok /\ ValidateLz4Size(size.v) /\ DecompressSingleLz4Block(payload) = r
  BY Zenon DEF DecompressSingleLz4Block, Unread
<1>2. size.v \in Word64 /\ size.p \in Nat \ {0}
  BY <1>1, IntegerIsWord DEF DecodeMsgpackInt
<1>. HIDE DEF size
<1>3. SizeOf(size.v) \in 0 .. MaxLz4DecompressedSize
  BY <1>1, <1>2, AcceptedSize
<1>4. rest \in Seq(Byte)
  BY <1>2, LenProperties, CutIsBytes
<1>. HIDE DEF rest
<1>5. r.v \in Seq(Byte) /\ Len(r.v) = SizeOf(size.v)
  <2>1. SizeOf(size.v) \in Nat /\ r.ok
    BY <1>1, <1>3
  <2>. QED
    BY <1>4, <2>1, AsLongAsAnnounced
<1>. QED
  BY <1>1, <1>3, <1>5 DEF Bounded

LEMMA ArrayBounded ==
  ASSUME NEW f \in Seq(Byte), NEW p \in Nat \ {0}, NEW blocks, NEW header \in Seq(Byte), MaxLz4DecompressedSize \in Nat,
         DecompressStandardLz4BlockArray(f, p, blocks, header).ok
  PROVE  Bounded(DecompressStandardLz4BlockArray(f, p, blocks, header))
<1>. DEFINE sizes == DecodeMsgpackIntList(header)
            data == Blocks(f, p, sizes.v)
            r == DecompressStandardLz4BlockArray(f, p, blocks, header)
<1>1. sizes.ok /\ SumLz4Sizes(sizes.v) # -1 /\ data.ok /\ r = [ok |-> TRUE, v |-> data.v]
  BY Zenon DEF DecompressStandardLz4BlockArray, Unread
<1>2. sizes.v \in Seq(Nat)
  <2>1. sizes.v \in Seq(0 .. MaxLz4DecompressedSize)
    BY <1>1, SizesType
  <2>. DEFINE s == sizes.v
  <2>2. \A i \in 1 .. Len(s) : s[i] \in 0 .. MaxLz4DecompressedSize
    BY <2>1, ElementOfSeq
  <2>. HIDE DEF s
  <2>3. \A i \in 1 .. Len(s) : s[i] \in Nat
    BY <2>2
  <2>4. s \in Seq(Nat)
    BY <2>1, <2>3 DEF s
  <2>. QED
    BY <2>4 DEF s
<1>. HIDE DEF sizes
<1>3. data.v \in Seq(Byte)
  BY <1>1, <1>2, BlocksAreBytes
<1>4. Len(data.v) <= MaxLz4DecompressedSize
  <2>1. SumLz4Sizes(sizes.v) \in 0 .. MaxLz4DecompressedSize /\ Len(data.v) = SumLz4Sizes(sizes.v)
    BY <1>1, <1>2, BlocksAsLong
  <2>. HIDE DEF data
  <2>. QED
    BY <2>1
<1>. HIDE DEF data, r
<1>5. r.v = data.v
  BY <1>1
<1>. QED
  BY <1>3, <1>4, <1>5 DEF Bounded, r

\* Whatever a file holds, the data that come out of its envelope are no more
\* than the code allows, however many blocks it announces and whatever is in
\* them; or the file has no envelope, and the data are the file.
THEOREM EnvelopeBounded ==
  ASSUME NEW f \in Seq(Byte), MaxLz4DecompressedSize \in Nat, DecompressLz4BlockArray(f).ok
  PROVE  LET r == DecompressLz4BlockArray(f)
         IN  r.v = f \/ (r.v \in Seq(Byte) /\ Len(r.v) <= MaxLz4DecompressedSize)
<1>. DEFINE raw == [ok |-> TRUE, v |-> f]
            array == readArrayHeader(f, 1)
            at == IF IsExtMarker(f[1]) THEN 1 ELSE array.p
            ext == ReadExtPayload(f, at)
            r == DecompressLz4BlockArray(f)
            single == DecompressSingleLz4Block(ext.v)
            many == DecompressStandardLz4BlockArray(f, ext.p, Number(array.v) - 1, ext.v)
<1>1. /\ r = raw \/ (ext.ok /\ r \in {single, many})
      /\ r = raw \/ IsExtMarker(f[1]) \/ array.ok
  BY Zenon DEF DecompressLz4BlockArray, Unread
<1>2. CASE r = raw
  BY <1>2
<1>3. CASE r # raw
  <2>1. at \in Nat \ {0}
    <3>1. CASE IsExtMarker(f[1])
      BY <3>1
    <3>2. CASE ~IsExtMarker(f[1])
      <4>1. array.ok
        BY <1>1, <1>3, <3>2
      <4>2. array = ReadHeader(ArrayForm, f, 1)
        BY <4>1 DEF readArrayHeader, Counted, Unread
      <4>3. array.p \in 1 + 1 .. Len(f) + 1
        BY <4>1, <4>2, HeaderInside DEF Inside
      <4>. HIDE DEF array
      <4>. QED
        BY <3>2, <4>3
    <3>. QED
      BY <3>1, <3>2
  <2>. HIDE DEF at
  <2>2. ext.ok /\ r \in {single, many}
    BY <1>1, <1>3
  <2>3. ext.v \in Seq(Byte) /\ ext.p \in Nat \ {0}
    BY <2>1, <2>2, ExtIsBytes
  <2>. HIDE DEF ext
  <2>4. Bounded(r)
    BY <2>2, <2>3, SingleBounded, ArrayBounded
  <2>. QED
    BY <2>4 DEF Bounded
<1>. QED
  BY <1>2, <1>3
=============================================================================
