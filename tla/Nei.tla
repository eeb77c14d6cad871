------------------------------ MODULE Nei ------------------------------
(***************************************************************************)
(* The NEI table: cells of text, encrypted.  A plain table is a signature, *)
(* its size, where each cell's text is, then the texts.  Text is in one of *)
(* two encodings that nothing in the file names: the reader tells them     *)
(* apart by the bytes.  A cell's text is a sequence of characters; the     *)
(* encodings are functions from characters to bytes.                       *)
(***************************************************************************)
EXTENDS Layouts

CONSTANTS
  ShiftJIS,  \* the bytes of each character that Shift-JIS has
  Utf8,      \* the bytes of each character
  Ascii      \* the bytes below 0x80

NulByte == "00"
Broken  == "broken"  \* U+FFFD, for a byte that begins no character
ControlByte == "01"
UInt32(v) == <<Tok("#u32", v)>> \o [i \in 1 .. 3 |-> Tok("rest", 0)]
TextBytes(bytes) == [i \in DOMAIN bytes |-> Tok("byte", bytes[i])]
\* A number that is taken for text: small numbers are control characters.
ByteAt(tok) == IF tok.k = "byte" THEN tok.v ELSE IF tok.v = 0 THEN NulByte ELSE ControlByte

\* The characters that bytes are the encoding of, greedily.
RECURSIVE Characters(_, _)
Characters(code, bytes) ==
  IF bytes = <<>> THEN <<>>
  ELSE LET begins == {c \in DOMAIN code : Len(code[c]) <= Len(bytes) /\ SubSeq(bytes, 1, Len(code[c])) = code[c]}
       IN IF begins = {} THEN <<Broken>> \o Characters(code, Tail(bytes))
          ELSE LET c == CHOOSE c \in begins : TRUE IN <<c>> \o Characters(code, SubSeq(bytes, Len(code[c]) + 1, Len(bytes)))
Utf8Valid(bytes) == Broken \notin Range(Characters(Utf8, bytes))

DetectTextEncoding(cells) ==
  IF \A cell \in Range(cells) : Range(cell) \subseteq Ascii THEN "Shift-JIS"
  ELSE IF \A cell \in Range(cells) : Utf8Valid(cell) THEN "UTF-8" ELSE "Shift-JIS"
Code(encoding) == IF encoding = "UTF-8" THEN Utf8 ELSE ShiftJIS
decodeCell(bytes, encoding) == Characters(Code(encoding), bytes)
Encodable(text, encoding) == encoding \in {"", "Shift-JIS", "UTF-8"} /\ Range(text) \subseteq DOMAIN Code(encoding)
encodeCell(text, encoding) == FlattenSeq([i \in DOMAIN text |-> Code(encoding)[text[i]]])
RECURSIVE TrimNul(_)
TrimNul(text) == IF text # <<>> /\ Last(text) = "nul" THEN TrimNul(Front(text)) ELSE text

validateShape(table) ==
  \/ table.Cols = 0 /\ table.Data = <<>>
  \/ Len(table.Data) = table.Rows /\ \A i \in DOMAIN table.Data : Len(table.Data[i]) = table.Cols
CellTexts(table) == FlattenSeq(table.Data)
\* What the cells are in the file: a text, then NUL.
Cells(table) ==
  LET texts == CellTexts(table)
  IN [i \in DOMAIN texts |-> IF texts[i] = <<>> THEN <<>> ELSE Append(encodeCell(texts[i], table.TextEncoding), NulByte)]

DumpTable(table) ==
  IF ~validateShape(table) \/ \E text \in Range(CellTexts(table)) : text # <<>> /\ ~Encodable(text, table.TextEncoding) THEN <<Refusal>>
  ELSE LET cells == Cells(table)
           Before(i) == FoldLeft(LAMBDA sum, cell : sum + Len(cell), 0, SubSeq(cells, 1, i - 1))
           Index(i)  == UInt32(IF cells[i] = <<>> THEN 0 ELSE Before(i)) \o UInt32(Len(cells[i]))
       IN TextBytes(<<"77", "73", "76", "FF">>) \o UInt32(table.Cols) \o UInt32(table.Rows) \o FlattenSeq([i \in DOMAIN cells |-> Index(i)])
            \o TextBytes(FlattenSeq(cells))

Unreadable == [st |-> "refused", p |-> 1, doc |-> <<>>]
HeadSize  == 12
IndexSize == 8
ReadTable(plain) ==
  LET rows   == plain[9].v
      cols   == plain[5].v
      total  == rows * cols
      texts  == [i \in 1 .. Len(plain) - HeadSize - IndexSize * total |-> ByteAt(plain[i + HeadSize + IndexSize * total])]
      offset == [i \in 1 .. total |-> plain[HeadSize + IndexSize * (i - 1) + 1].v]
      length == [i \in 1 .. total |-> plain[HeadSize + IndexSize * (i - 1) + 5].v]
      raw    == [i \in 1 .. total |-> SubSeq(texts, offset[i] + 1, offset[i] + length[i])]
      encoding == DetectTextEncoding(raw)
      Cell(row, col) == TrimNul(decodeCell(raw[(row - 1) * cols + col], encoding))
  IN IF Len(plain) < HeadSize THEN Unreadable
     ELSE IF total > (Len(plain) - HeadSize) \div IndexSize THEN Unreadable
     ELSE IF \E i \in 1 .. total : length[i] > 0 /\ offset[i] + length[i] > Len(texts) THEN Unreadable
     ELSE [st |-> "ok", p |-> Len(plain) + 1,
           doc |-> [Rows |-> rows, Cols |-> cols, TextEncoding |-> encoding,
                    Data |-> IF cols = 0 THEN <<>> ELSE [row \in 1 .. rows |-> [col \in 1 .. cols |-> Cell(row, col)]]]]

(***************************************************************************)
(* Encryption: the plain bytes up to a whole block, then how many were     *)
(* added, masked by the seed, and the seed.                                *)
(***************************************************************************)
CipherBlock == 16
TrailerSize == 5
encryptData(plain) ==
  LET extra == (CipherBlock - (Len(plain) % CipherBlock)) % CipherBlock
      full  == plain \o [i \in 1 .. extra |-> Tok("byte", NulByte)]
  IN [i \in DOMAIN full |-> Tok("cipher", full[i])] \o <<Tok("extra", extra)>> \o [i \in 1 .. 4 |-> Tok("seed", i)]
\* Once as <<plain>>.  A trailer made of encrypted bytes says anything: that
\* nothing was added is the answer that is refused least.
decryptData(file) ==
  LET size  == Len(file) - TrailerSize
      extra == IF file[size + 1].k = "extra" THEN file[size + 1].v ELSE 0
  IN IF size <= 0 \/ size % CipherBlock # 0 THEN <<>>
     ELSE IF extra >= CipherBlock THEN <<>> ELSE <<[i \in 1 .. size - extra |-> file[i].v]>>

DumpNei(table) == LET plain == DumpTable(table) IN IF Refuses(plain) THEN plain ELSE encryptData(plain)
ReadNei(file)  == LET plain == decryptData(file) IN IF plain = <<>> THEN Unreadable ELSE [ReadTable(plain[1]) EXCEPT !.p = Len(file) + 1]

\* A text loses the NULs at its end, and text that is ASCII alone the name of
\* its encoding.  Shift-JIS whose every cell is UTF-8 too is taken for UTF-8.
Ambiguous(table) == table.TextEncoding # "UTF-8" /\ DetectTextEncoding(Cells(table)) = "UTF-8"
SettledNei(table) ==
  LET Arrives(text) ==
        TrimNul(IF Ambiguous(table) THEN decodeCell(encodeCell(text, table.TextEncoding), "UTF-8") ELSE text)
  IN [Rows |-> table.Rows, Cols |-> table.Cols, TextEncoding |-> DetectTextEncoding(Cells(table)),
      Data |-> IF table.Cols = 0 THEN <<>>
               ELSE [row \in DOMAIN table.Data |-> [col \in DOMAIN table.Data[row] |-> Arrives(table.Data[row][col])]]]
=============================================================================
