---------------------------- MODULE MsgPack ----------------------------
(***************************************************************************)
(* The numbers and headers of MessagePack, byte by byte: each is written   *)
(* in the fewest bytes that hold it and read in any form that its type     *)
(* accepts.  A 64-bit integer is its eight bytes in two's complement, a    *)
(* length its four bytes, the most significant first, so that both the     *)
(* checker and the prover see every value there is.  Readers take the      *)
(* bytes f of a file and the place p of a marker in it.                    *)
(***************************************************************************)
EXTENDS Integers, Sequences

CONSTANT ToSingle(_, _)  \* the Single nearest to a number of the kind "int64", "uint64" or "double"

Byte   == 0 .. 255
Word64 == [1 .. 8 -> Byte]
Length == [1 .. 4 -> Byte]
Bits32 == [1 .. 4 -> Byte]

Zeros(v, n) == \A i \in 1 .. n : v[i] = 0
Ones(v, n)  == \A i \in 1 .. n : v[i] = 255
Negative(v) == v[1] >= 128
Sign(v) == IF Negative(v) THEN "-" ELSE "+"
InInt32(v)  == (Zeros(v, 4) /\ v[5] < 128) \/ (Ones(v, 4) /\ v[5] >= 128)

(***************************************************************************)
(* Integers.                                                               *)
(***************************************************************************)
AppendUInt64(v) ==
  IF Zeros(v, 7) /\ v[8] <= 127 THEN <<v[8]>>
  ELSE IF Zeros(v, 7) THEN <<204, v[8]>>
  ELSE IF Zeros(v, 6) THEN <<205, v[7], v[8]>>
  ELSE IF Zeros(v, 4) THEN <<206, v[5], v[6], v[7], v[8]>>
  ELSE <<207, v[1], v[2], v[3], v[4], v[5], v[6], v[7], v[8]>>
AppendNegative(v) ==
  IF Ones(v, 7) /\ v[8] >= 224 THEN <<v[8]>>
  ELSE IF Ones(v, 7) /\ v[8] >= 128 THEN <<208, v[8]>>
  ELSE IF Ones(v, 6) /\ v[7] >= 128 THEN <<209, v[7], v[8]>>
  ELSE IF Ones(v, 4) /\ v[5] >= 128 THEN <<210, v[5], v[6], v[7], v[8]>>
  ELSE <<211, v[1], v[2], v[3], v[4], v[5], v[6], v[7], v[8]>>
AppendInt64(v) == IF Negative(v) THEN AppendNegative(v) ELSE AppendUInt64(v)
\* (Of a value in InInt32.)
AppendInt32(v) == AppendInt64(v)

Unread == [ok |-> FALSE]
\* The last n bytes of a number are those behind the marker at p.
Extended(f, p, n, sign) == [i \in 1 .. 8 |-> IF i <= 8 - n THEN sign ELSE f[p + i + n - 8]]
SignOf(byte) == IF byte >= 128 THEN 255 ELSE 0
Width(marker) ==
  CASE marker \in {204, 208} -> 1 [] marker \in {205, 209} -> 2 [] marker \in {206, 210} -> 4 [] marker \in {207, 211} -> 8 [] OTHER -> 0
\* A number and its sign: eight bytes alone do not say.
ReadInteger(f, p) ==
  LET marker == f[p]
      n == Width(marker)
  IN IF p > Len(f) THEN Unread
     ELSE IF marker <= 127 THEN [ok |-> TRUE, sign |-> "+", v |-> <<0, 0, 0, 0, 0, 0, 0, marker>>, p |-> p + 1]
     ELSE IF marker >= 224 THEN [ok |-> TRUE, sign |-> "-", v |-> <<255, 255, 255, 255, 255, 255, 255, marker>>, p |-> p + 1]
     ELSE IF n = 0 \/ p + n > Len(f) THEN Unread
     ELSE IF marker <= 207 THEN [ok |-> TRUE, sign |-> "+", v |-> Extended(f, p, n, 0), p |-> p + 1 + n]
     ELSE [ok |-> TRUE, sign |-> IF f[p + 1] >= 128 THEN "-" ELSE "+", v |-> Extended(f, p, n, SignOf(f[p + 1])), p |-> p + 1 + n]
ReadUInt64(f, p) == LET r == ReadInteger(f, p) IN IF r.ok /\ r.sign = "+" THEN r ELSE Unread
ReadInt64(f, p)  == LET r == ReadInteger(f, p) IN IF r.ok /\ r.sign = Sign(r.v) THEN r ELSE Unread
ReadInt32(f, p)  == LET r == ReadInt64(f, p) IN IF r.ok /\ InInt32(r.v) THEN r ELSE Unread

(***************************************************************************)
(* Singles, which are written by their bits and read from any number.      *)
(***************************************************************************)
AppendSingle(bits) == <<202, bits[1], bits[2], bits[3], bits[4]>>
ReadSingle(f, p) ==
  LET number == ReadInteger(f, p)
  IN IF p > Len(f) THEN Unread
     ELSE IF f[p] = 202
     THEN IF p + 4 > Len(f) THEN Unread ELSE [ok |-> TRUE, v |-> [i \in 1 .. 4 |-> f[p + i]], p |-> p + 5]
     ELSE IF f[p] = 203
     THEN IF p + 8 > Len(f) THEN Unread ELSE [ok |-> TRUE, v |-> ToSingle("double", [i \in 1 .. 8 |-> f[p + i]]), p |-> p + 9]
     ELSE IF number.ok THEN [ok |-> TRUE, v |-> ToSingle(IF number.sign = "-" THEN "int64" ELSE "uint64", number.v), p |-> number.p]
     ELSE Unread

(***************************************************************************)
(* Headers.  A form is [fix, most, m8, m16, m32]: the first marker that    *)
(* holds a length itself, the longest that does (-1 if there is none), and *)
(* the markers of the wider lengths (0 if there is none).                  *)
(***************************************************************************)
ArrayForm  == [fix |-> 144, most |-> 15, m8 |-> 0, m16 |-> 220, m32 |-> 221]
MapForm    == [fix |-> 128, most |-> 15, m8 |-> 0, m16 |-> 222, m32 |-> 223]
StringForm == [fix |-> 160, most |-> 31, m8 |-> 217, m16 |-> 218, m32 |-> 219]
BinForm    == [fix |-> 0, most |-> -1, m8 |-> 196, m16 |-> 197, m32 |-> 198]

AppendHeader(form, n) ==
  IF Zeros(n, 3) /\ n[4] <= form.most THEN <<form.fix + n[4]>>
  ELSE IF Zeros(n, 3) /\ form.m8 # 0 THEN <<form.m8, n[4]>>
  ELSE IF Zeros(n, 2) THEN <<form.m16, n[3], n[4]>>
  ELSE <<form.m32, n[1], n[2], n[3], n[4]>>
LengthAt(f, p, n) == [i \in 1 .. 4 |-> IF i <= 4 - n THEN 0 ELSE f[p + i + n - 4]]
WideHeader(f, p, n) == IF p + n > Len(f) THEN Unread ELSE [ok |-> TRUE, v |-> LengthAt(f, p, n), p |-> p + 1 + n]
ReadHeader(form, f, p) ==
  LET marker == f[p]
  IN IF p > Len(f) THEN Unread
     ELSE IF form.fix <= marker /\ marker <= form.fix + form.most THEN [ok |-> TRUE, v |-> <<0, 0, 0, marker - form.fix>>, p |-> p + 1]
     ELSE IF marker = form.m8 /\ form.m8 # 0 THEN WideHeader(f, p, 1)
     ELSE IF marker = form.m16 THEN WideHeader(f, p, 2)
     ELSE IF marker = form.m32 THEN WideHeader(f, p, 4)
     ELSE Unread

\* A length as a number, and back, where it has one bit less than 32.
Int32Max == 2147483647
Number(n) == n[1] * 16777216 + n[2] * 65536 + n[3] * 256 + n[4]
Bytes4(n) == <<n \div 16777216, (n \div 65536) % 256, (n \div 256) % 256, n % 256>>
\* A length that the file has room for, at so many bytes an element at least.
\* (No file is longer than Int32Max bytes: a bound of the model.)
Room(f, r, least) == IF r.ok THEN r.v[1] < 128 /\ Number(r.v) * least <= Len(f) + 1 - r.p ELSE FALSE
ReadLength(form, f, p, least) == LET r == ReadHeader(form, f, p) IN IF Room(f, r, least) THEN r ELSE Unread
ReadPayload(form, f, p) ==
  LET r == ReadLength(form, f, p, 1)
  IN IF r.ok THEN [ok |-> TRUE, v |-> SubSeq(f, r.p, r.p + Number(r.v) - 1), p |-> r.p + Number(r.v)] ELSE Unread

\* The lengths that an array or a map of C# may have.
Counted(r) == IF r.ok THEN (IF r.v[1] < 128 THEN r ELSE Unread) ELSE r
WriteArrayHeader(n)    == AppendHeader(ArrayForm, n)
readArrayHeader(f, p)  == Counted(ReadHeader(ArrayForm, f, p))
AppendMapHeader(n)     == AppendHeader(MapForm, n)
ReadMapHeader(f, p)    == Counted(ReadHeader(MapForm, f, p))
AppendString(text)     == AppendHeader(StringForm, Bytes4(Len(text))) \o text
readString(f, p)       == ReadPayload(StringForm, f, p)
\* Byte arrays are always written with the widest length.
writeBin32(payload)    == LET n == Bytes4(Len(payload)) IN <<BinForm.m32, n[1], n[2], n[3], n[4]>> \o payload
ReadBin(f, p)          == ReadPayload(BinForm, f, p)

(***************************************************************************)
(* The readers that the formats have of their own.                         *)
(***************************************************************************)
readArrayLength(f, p)  == ReadLength(ArrayForm, f, p, 1)
readMapLength(f, p)    == ReadLength(MapForm, f, p, 2)
gradReadArrayLength(f, p) == ReadLength(ArrayForm, f, p, 1)
gradReadMapLength(f, p)   == ReadLength(MapForm, f, p, 2)
gradReadInt32(f, p)       == ReadInt32(f, p)
gradAppendInt32(v) ==
  IF Negative(v) /\ Ones(v, 7) /\ v[8] >= 224 THEN <<v[8]>>
  ELSE IF ~Negative(v) THEN AppendUInt64(v) ELSE AppendNegative(v)
gradReadSingle(f, p)      == ReadSingle(f, p)
moveableReadSingle(f, p)  == ReadSingle(f, p)
moveableReadString(f, p)  == ReadPayload(StringForm, f, p)
sessionReadUInt64(f, p)   == ReadUInt64(f, p)
sessionAppendUInt64(v)    == AppendUInt64(v)
=============================================================================
