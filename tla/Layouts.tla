---------------------------- MODULE Layouts ----------------------------
(***************************************************************************)
(* How the serialization packages read and write a file.                   *)
(*                                                                         *)
(* Every codec is two functions over a stream of primitives: a reader that *)
(* fills a struct and a writer that empties one.  A layout is the sequence *)
(* of the calls such a function makes, in their order, with the gates,     *)
(* loops and checks between them; Read and Write say what those calls do   *)
(* to a document and to a file.  The layouts of the formats are in the     *)
(* modules that extend this one, the reader's and the writer's apart.      *)
(*                                                                         *)
(* A file is a sequence of tokens [k, v].  The kind k stands for the       *)
(* primitive ("str", "i32", "f32x3" for three floats in a row, ...); a     *)
(* kind that begins with "#" carries a number the control depends on (a    *)
(* version, a count, a flag), every other kind carries a label.  Reading a *)
(* token as another kind gives "garbled": bytes taken for something they   *)
(* are not, about which the model says nothing more.                       *)
(*                                                                         *)
(* A document is a record: labels and numbers for the scalar fields,       *)
(* sequences for slices (and for maps, which the code keeps in the order   *)
(* of the file), and <<>> or <<x>> for a pointer.                          *)
(***************************************************************************)
EXTENDS Integers, Sequences, FiniteSets, TLC, SequencesExt

Top == 2147483647  \* of an int32

(***************************************************************************)
(* The items of a layout.                                                  *)
(***************************************************************************)
RECURSIVE Blank(_)  \* the struct of a layout, every field at zero: the b of an item
Get(k, n)        == [t |-> "get", k |-> k, n |-> n]
Num(k, n)        == [t |-> "num", k |-> k, n |-> n]
Tag(n)           == [t |-> "num", k |-> "str", n |-> n]
\* A number that must not be negative, or not below what is added to it.
SizePlus(k, n, more) == [t |-> "size", k |-> k, n |-> n, more |-> more]
Size(k, n)       == SizePlus(k, n, 0)
\* Bytes that are passed over.
Skip(k)          == [t |-> "skip", k |-> k]
\* A label that must not be empty.
Some(k, n)       == [t |-> "some", k |-> k, n |-> n]
\* A field whose one legal value is v, and a constant that is not kept.
Must(k, n, v)    == [t |-> "must", k |-> k, n |-> n, v |-> v]
Lit(k, v)        == [t |-> "lit", k |-> k, v |-> v]
\* A field that has the value v without a token for it, and a check that a
\* field lies in one of the intervals.
Implied(n, v)    == [t |-> "implied", n |-> n, v |-> v]
Check(f, in)     == [t |-> "check", f |-> f, in |-> in]
\* So many elements of at least min bytes can be in the rest of the file.
Fits(c, min)     == [t |-> "fits", c |-> c, min |-> min]
\* A string that may be nil: the flag and the text, in one token.
Maybe(n)         == [t |-> "maybe", k |-> "nstr", n |-> n]
Nil              == "nil"
\* L if the next token is one of the stops, else M; Former if L is what a
\* former program wrote, and tells no more than M does.
Peek(k, stops, L, M) == [t |-> "peek", k |-> k, stops |-> stops, l |-> L, m |-> M, both |-> TRUE]
Former(k, stops, L, M) == [Peek(k, stops, L, M) EXCEPT !.both = FALSE]
\* The one of L and M that can be read; it must not be both.
Either(L, M)     == [t |-> "either", l |-> L, m |-> M]
\* A counted slice (a negative count is refused, and so may be one above a
\* maximum or one whose elements, of at least min bytes each, cannot be in
\* the rest of the file), a counted map (where a repeated key is refused), and
\* the two halves of a slice whose count comes first, which may be a count
\* of more than the slice.
ArrUpTo(k, n, max, L) == [t |-> "arr", k |-> k, n |-> n, l |-> L, b |-> Blank(L), max |-> max, min |-> 0]
Arr(k, n, L)     == ArrUpTo(k, n, Top, L)
ArrMin(k, n, min, L) == [t |-> "arr", k |-> k, n |-> n, l |-> L, b |-> Blank(L), max |-> Top, min |-> min]
MapBy(k, n, key, L) == [t |-> "map", k |-> k, n |-> n, key |-> key, l |-> L, b |-> Blank(L), min |-> 0]
MapMin(k, n, min, L) == [t |-> "map", k |-> k, n |-> n, key |-> L[1].n, l |-> L, b |-> Blank(L), min |-> min]
Map(k, n, L)     == MapBy(k, n, L[1].n, L)
CntPlus(k, n, more) == [t |-> "cnt", k |-> k, n |-> n, more |-> more]
Cnt(k, n)        == CntPlus(k, n, 0)
Each(n, L)       == [t |-> "each", n |-> n, l |-> L, b |-> Blank(L)]
\* A pointer: a header of kind k with the value -1 is nil, else L follows and
\* reads the header.
Ref(k, n, L)     == [t |-> "ref", k |-> k, n |-> n, l |-> L, b |-> Blank(L)]
\* A flag that says whether the slice has elements, then the counted slice.
Flagged(k, c, n, L) == [t |-> "flagged", k |-> k, c |-> c, n |-> n, l |-> L, b |-> Blank(L)]
\* A slice as long as the number c says, and as long as the slice m.
Times(c, n, L)   == [t |-> "times", c |-> c, n |-> n, l |-> L, b |-> Blank(L)]
Par(m, n, L)     == [t |-> "par", c |-> m, n |-> n, l |-> L, b |-> Blank(L)]
\* A slice that goes on until the next token is one of the stops.
Until(k, n, stops, L) == [t |-> "until", k |-> k, n |-> n, stops |-> stops, l |-> L, b |-> Blank(L)]
Rec(n, L)        == [t |-> "rec", n |-> n, l |-> L, b |-> Blank(L)]
\* A length and as many bytes, here tokens, which hold what the pointer n
\* does and no more; a length of zero is a nil pointer.
Block(k, n, L)   == [t |-> "block", k |-> k, n |-> n, l |-> L, b |-> Blank(L)]
\* A length and as many bytes, here tokens, which hold L and no more.
Frame(k, L)      == [t |-> "frame", k |-> k, l |-> L]
\* A flag and, if it is set, what the pointer n holds.
Opt(k, n, L)     == [t |-> "opt", k |-> k, n |-> n, l |-> L, b |-> Blank(L)]
\* A slice that may be nil, which an empty one is not.
Nullable(n, min, L) == Opt("#bool", n, <<ArrMin("#i32", "Items", min, L)>>)
\* A pointer that must not be nil, and one the reader fills in by itself.
Ptr(n, L)        == [t |-> "ptr", n |-> n, l |-> L, b |-> Blank(L)]
Fresh(n, L)      == [t |-> "fresh", n |-> n, l |-> L, b |-> Blank(L)]
\* Calls made only when the field f lies in one of the intervals.
If(f, in, L)     == [t |-> "if", f |-> f, in |-> in, l |-> L]
\* A switch on the field f.  Kinds makes one of several structs and refuses
\* other values of f; Of fills one struct, and On does so too but makes no
\* call for the other values.
Kinds(f, cases)  == [t |-> "of", f |-> f, cases |-> cases, one |-> FALSE]
Of(f, cases)     == [t |-> "of", f |-> f, cases |-> cases, one |-> TRUE]
On(f, cases)     == [t |-> "on", f |-> f, cases |-> cases, one |-> TRUE]
\* Nothing may follow; and a tail that may be missing as a whole.
End              == [t |-> "end"]
Rest(L)          == [t |-> "tail", l |-> L]
\* A depth at which the code gives up.
Stop             == [t |-> "stop"]
\* Zeroes up to the next multiple of a number of tokens; Padded puts them in
\* when all that comes before is written.
Pad(to)          == [t |-> "pad", to |-> to]

AtLeast(v)  == {<<v, Top>>}
Below(v)    == {<<-Top, v - 1>>}
Between(a, b) == {<<a, b>>}
Is(v)       == {<<v, v>>}
Within(v, in) == \E r \in in : r[1] <= v /\ v <= r[2]

Headers == {"#array", "#map"}
Numeric == Headers \cup {"#i32", "#i64", "#u16", "#byte", "#bool", "#flag", "#u32", "#i16"}
Flags == {"#bool", "#flag"}  \* any value but 0 is true
Keys == {"key", "slot", "name"}  \* keys of maps, which may not repeat
Tok(k, v) == [k |-> k, v |-> v]
\* A number as its width lets it through.
Narrow(k, v) == CASE k = "#byte" -> v % 256 [] k = "#u16" -> v % 65536 [] OTHER -> v

\* The fewest bytes a token can stand for, and whether those from token p on
\* are at least so many.
Bytes(k) ==
  CASE k \in {"i32", "#i32", "u32", "#u32", "f32", "#flag"} -> 4 [] k \in {"u64", "i64", "#i64", "f32x2", "i32x2"} -> 8
    [] k \in {"#u16", "#i16"} -> 2 [] k \in {"hash", "guid"} -> 16 [] k = "node24" -> 24 [] k = "node" -> 32
    [] k = "f32x4" -> 16 [] k = "i32x9" -> 36 [] k = "f32x10" -> 40 [] k = "f32x3" -> 12 [] OTHER -> 1
RECURSIVE Holds(_, _, _)
Holds(f, p, bytes) == bytes <= 0 \/ (p <= Len(f) /\ Holds(f, p + 1, bytes - Bytes(f[p].k)))

\* The value of a field: the record's own, or that of the nearest record around
\* it that has one; env are the records around it, the nearest first.
Field(n, doc, env) ==
  IF n \in DOMAIN doc THEN doc[n]
  ELSE env[CHOOSE i \in DOMAIN env : n \in DOMAIN env[i] /\ \A j \in 1 .. i - 1 : n \notin DOMAIN env[j]][n]

\* The struct a reader starts from: every field at its zero value.
Blank(L) ==
  LET One(it) ==
        CASE it.t \in {"get", "some"} -> it.n :> ""
          [] it.t = "maybe" -> it.n :> Nil
          [] it.t = "implied" -> it.n :> it.v
          [] it.t \in {"peek", "either"} -> Blank(it.l) @@ Blank(it.m)
          [] it.t = "size" -> it.n :> 0
          [] it.t = "num"  -> it.n :> (IF it.k \in Numeric THEN 0 ELSE "")
          [] it.t = "must" -> it.n :> (IF it.k \in Numeric THEN 0 ELSE "")
          [] it.t \in {"arr", "map", "cnt", "each", "times", "par", "until", "flagged", "block", "opt", "ptr", "fresh", "ref"} -> it.n :> <<>>
          [] it.t = "rec"  -> it.n :> it.b
          [] it.t \in {"if", "tail", "frame"} -> Blank(it.l)
          [] it.t \in {"of", "on"} ->
               FoldSet(LAMBDA c, d : d @@ Blank(it.cases[c]), <<>>, DOMAIN it.cases)
          [] OTHER -> <<>>
  IN FoldLeft(LAMBDA d, it : d @@ One(it), <<>>, L)

(***************************************************************************)
(* Reading.  A reader's progress is [st, p, doc, env]: the outcome so far, *)
(* the next token of the file f, the struct and the structs around it.     *)
(***************************************************************************)
Fail(s, st) == [s EXCEPT !.st = st]
Keep(s, n, v) == [s EXCEPT !.doc[n] = v, !.p = @ + 1]
\* What stops a read of kind k: the end of the file, or a token of another kind.
Trouble(s, f, k) ==
  IF s.p > Len(f) THEN "eof" ELSE IF f[s.p].k # k THEN "garbled" ELSE "ok"

RECURSIVE ReadOn(_, _, _, _)
ReadFrom(L, f, s) == ReadOn(L, 1, f, s)
\* Reads elements i .. n of the slice it.n, onto those already there.
RECURSIVE ReadEach(_, _, _, _, _)
ReadEach(it, f, s, i, n) ==
  IF s.st # "ok" \/ i > n THEN s
  ELSE LET old  == s.doc[it.n]
           base == it.b
           e == ReadFrom(it.l, f,
                  [st |-> "ok", p |-> s.p, env |-> <<s.doc>> \o s.env,
                   doc |-> IF i <= Len(old) THEN old[i] @@ base ELSE base])
       IN ReadEach(it, f,
            [s EXCEPT !.st = e.st, !.p = e.p,
               !.doc[it.n] = IF i <= Len(old) THEN [old EXCEPT ![i] = e.doc]
                             ELSE Append(old, e.doc)], i + 1, n)

RepeatedKey(it, elements) == Cardinality({e[it.key] : e \in Range(elements)}) < Len(elements)

RECURSIVE ReadUntil(_, _, _)
ReadUntil(it, f, s) ==
  IF s.st # "ok" THEN s
  ELSE LET trouble == Trouble(s, f, it.k)
       IN IF trouble # "ok" THEN Fail(s, trouble)
          ELSE IF f[s.p].v \in it.stops THEN s
          ELSE ReadUntil(it, f, ReadEach(it, f, s, Len(s.doc[it.n]) + 1, Len(s.doc[it.n]) + 1))

ReadItem(it, f, s) ==
  LET trouble == Trouble(s, f, it.k)
      v       == f[s.p].v
      Count(st) == \* past the count, with n elements to read
        IF trouble # "ok" THEN Fail(s, trouble)
        ELSE IF v < 0 THEN Fail(s, "refused") ELSE st
      TooMany(n) == ~Holds(f, s.p + 1, n * it.min)
  IN CASE it.t \in {"get", "num"} ->
            IF trouble # "ok" THEN Fail(s, trouble)
            ELSE Keep(s, it.n, IF it.k \in Flags /\ v # 0 THEN 1 ELSE v)
       [] it.t = "maybe" -> IF trouble # "ok" THEN Fail(s, trouble) ELSE Keep(s, it.n, v)
       [] it.t = "peek" ->
            IF trouble # "ok" THEN Fail(s, trouble) ELSE ReadFrom(IF v \in it.stops THEN it.l ELSE it.m, f, s)
       [] it.t = "either" ->
            LET a == ReadFrom(it.l, f, s)
                b == ReadFrom(it.m, f, s)
            IN IF a.st = "ok" /\ b.st = "ok" THEN Fail(s, "refused") ELSE IF a.st = "ok" THEN a ELSE b
       [] it.t = "implied" -> [s EXCEPT !.doc[it.n] = it.v]
       [] it.t = "check" -> IF Within(Field(it.f, s.doc, s.env), it.in) THEN s ELSE Fail(s, "refused")
       [] it.t = "fits" -> IF Holds(f, s.p, Field(it.c, s.doc, s.env) * it.min) THEN s ELSE Fail(s, "refused")
       [] it.t = "must" ->
            IF trouble # "ok" THEN Fail(s, trouble)
            ELSE IF v # it.v THEN Fail(s, "refused") ELSE Keep(s, it.n, v)
       [] it.t = "some" ->
            IF trouble # "ok" THEN Fail(s, trouble)
            ELSE IF v = "" THEN Fail(s, "refused") ELSE Keep(s, it.n, v)
       [] it.t = "lit" ->
            IF trouble # "ok" THEN Fail(s, trouble)
            ELSE IF v # it.v THEN Fail(s, "refused") ELSE [s EXCEPT !.p = @ + 1]
       [] it.t = "skip" -> IF trouble # "ok" THEN Fail(s, trouble) ELSE [s EXCEPT !.p = @ + 1]
       [] it.t = "size" -> Count(IF v < it.more THEN Fail(s, "refused") ELSE Keep(s, it.n, v - it.more))
       [] it.t = "arr" ->
            Count(IF v > it.max \/ TooMany(v) THEN Fail(s, "refused") ELSE ReadEach(it, f, [s EXCEPT !.p = @ + 1], 1, v))
       [] it.t = "map" ->
            Count(LET r == IF TooMany(v) THEN Fail(s, "refused") ELSE ReadEach(it, f, [s EXCEPT !.p = @ + 1], 1, v)
                  IN IF r.st = "ok" /\ RepeatedKey(it, r.doc[it.n]) THEN Fail(r, "refused") ELSE r)
       [] it.t = "cnt" ->
            Count(IF v < it.more THEN Fail(s, "refused")
                  ELSE Keep(s, it.n, [i \in 1 .. v - it.more |-> <<>>]))
       [] it.t = "each" -> ReadEach(it, f, s, 1, Len(s.doc[it.n]))
       [] it.t = "times" -> ReadEach(it, f, s, 1, Field(it.c, s.doc, s.env))
       [] it.t = "par" -> ReadEach(it, f, s, 1, Len(Field(it.c, s.doc, s.env)))
       [] it.t = "until" -> ReadUntil(it, f, s)
       [] it.t = "rec" ->
            LET r == ReadFrom(it.l, f, [s EXCEPT !.env = <<s.doc>> \o s.env, !.doc = it.b])
            IN [s EXCEPT !.st = r.st, !.p = r.p, !.doc[it.n] = r.doc]
       [] it.t = "opt" ->
            IF trouble # "ok" THEN Fail(s, trouble)
            ELSE IF v = 0 THEN [s EXCEPT !.p = @ + 1]
            ELSE ReadEach(it, f, [s EXCEPT !.p = @ + 1], 1, 1)
       [] it.t = "ref" ->
            IF trouble # "ok" THEN Fail(s, trouble)
            ELSE IF v = -1 THEN [s EXCEPT !.p = @ + 1]
            ELSE ReadEach(it, f, s, 1, 1)
       [] it.t = "flagged" ->
            IF trouble # "ok" THEN Fail(s, trouble)
            ELSE IF v = 0 THEN [s EXCEPT !.p = @ + 1]
            ELSE ReadFrom(<<Arr(it.c, it.n, it.l)>>, f, [s EXCEPT !.p = @ + 1])
       [] it.t = "block" ->
            Count(IF v = 0 THEN [s EXCEPT !.p = @ + 1]
                  ELSE IF s.p + v > Len(f) THEN Fail(s, "eof")
                  ELSE LET r == ReadEach(it, SubSeq(f, 1, s.p + v), [s EXCEPT !.p = @ + 1], 1, 1)
                       IN IF r.st = "ok" /\ r.p <= s.p + v THEN Fail(r, "refused") ELSE r)
       [] it.t = "frame" ->
            Count(IF s.p + v > Len(f) THEN Fail(s, "eof")
                  ELSE LET r == ReadFrom(it.l, SubSeq(f, 1, s.p + v), [s EXCEPT !.p = @ + 1])
                       IN IF r.st = "ok" /\ r.p <= s.p + v THEN Fail(r, "refused") ELSE r)
       [] it.t = "ptr" -> ReadEach(it, f, s, 1, 1)
       [] it.t = "fresh" -> [s EXCEPT !.doc[it.n] = <<it.b>>]
       [] it.t = "if" ->
            IF Within(Field(it.f, s.doc, s.env), it.in) THEN ReadFrom(it.l, f, s) ELSE s
       [] it.t \in {"of", "on"} ->
            LET c == Field(it.f, s.doc, s.env)
            IN IF c \in DOMAIN it.cases THEN ReadFrom(it.cases[c], f, s)
               ELSE IF it.t = "of" THEN Fail(s, "refused") ELSE s
       [] it.t = "end" -> IF s.p <= Len(f) THEN Fail(s, "refused") ELSE s
       [] it.t = "tail" -> IF s.p > Len(f) THEN s ELSE ReadFrom(it.l, f, s)
       [] it.t = "stop" -> Fail(s, "refused")
       [] it.t = "pad" ->
            LET p == s.p + ((it.to - ((s.p - 1) % it.to)) % it.to) IN IF p > Len(f) + 1 THEN Fail(s, "eof") ELSE [s EXCEPT !.p = p]

ReadOn(L, i, f, s) ==
  IF s.st # "ok" \/ i > Len(L) THEN s ELSE ReadOn(L, i + 1, f, ReadItem(L[i], f, s))

\* Some of the fields of a document.
Fields(doc, names) == [n \in names |-> doc[n]]
\* What the reader L makes of the file f: the outcome and the document.
Read(L, f) == ReadFrom(L, f, [st |-> "ok", p |-> 1, doc |-> Blank(L), env |-> <<>>])

(***************************************************************************)
(* Writing.  A writer that gives up leaves the token Refusal.              *)
(***************************************************************************)
Refusal == Tok("refused", "")

GivesUp(out) == out # <<>> /\ out[Len(out)].k = Refusal.k
RECURSIVE WriteOn(_, _, _, _, _), ElementsOn(_, _, _, _, _)
WriteFrom(L, doc, env) == WriteOn(L, 1, <<>>, doc, env)
ElementsOn(it, i, out, doc, env) ==
  IF GivesUp(out) \/ i > Len(doc[it.n]) THEN out
  ELSE ElementsOn(it, i + 1, out \o WriteFrom(it.l, doc[it.n][i], <<doc>> \o env), doc, env)
Elements(it, doc, env) == ElementsOn(it, 1, <<>>, doc, env)

WriteItem(it, doc, env) ==
  CASE it.t \in {"get", "num", "some"} -> <<Tok(it.k, Narrow(it.k, doc[it.n]))>>
    [] it.t = "maybe" -> <<Tok(it.k, doc[it.n])>>
    [] it.t = "implied" -> IF doc[it.n] = it.v THEN <<>> ELSE <<Refusal>>
    [] it.t = "check" -> IF Within(Field(it.f, doc, env), it.in) THEN <<>> ELSE <<Refusal>>
    [] it.t = "must" -> IF doc[it.n] = it.v THEN <<Tok(it.k, it.v)>> ELSE <<Refusal>>
    [] it.t = "lit" -> <<Tok(it.k, it.v)>>
    [] it.t \in {"arr", "map"} -> <<Tok(it.k, Len(doc[it.n]))>> \o Elements(it, doc, env)
    [] it.t = "size" -> <<Tok(it.k, Narrow(it.k, doc[it.n] + it.more))>>
    [] it.t = "cnt" -> <<Tok(it.k, Narrow(it.k, Len(doc[it.n]) + it.more))>>
    [] it.t = "ptr" -> IF doc[it.n] = <<>> THEN <<Refusal>> ELSE Elements(it, doc, env)
    [] it.t \in {"each", "times", "par", "until"} -> Elements(it, doc, env)
    [] it.t = "rec" -> WriteFrom(it.l, doc[it.n], <<doc>> \o env)
    [] it.t = "block" -> LET held == Elements(it, doc, env) IN <<Tok(it.k, Len(held))>> \o held
    [] it.t = "frame" -> LET held == WriteFrom(it.l, doc, env) IN <<Tok(it.k, Len(held))>> \o held
    [] it.t = "ref" -> IF doc[it.n] = <<>> THEN <<Tok(it.k, -1)>> ELSE Elements(it, doc, env)
    [] it.t = "opt" -> <<Tok(it.k, Len(doc[it.n]))>> \o Elements(it, doc, env)
    [] it.t = "flagged" ->
         IF doc[it.n] = <<>> THEN <<Tok(it.k, 0)>>
         ELSE <<Tok(it.k, 1), Tok(it.c, Len(doc[it.n]))>> \o Elements(it, doc, env)
    [] it.t = "if" ->
         IF Within(Field(it.f, doc, env), it.in) THEN WriteFrom(it.l, doc, env) ELSE <<>>
    [] it.t \in {"of", "on"} ->
         LET c == Field(it.f, doc, env)
         IN IF c \in DOMAIN it.cases THEN WriteFrom(it.cases[c], doc, env)
            ELSE IF it.t = "of" THEN <<Refusal>> ELSE <<>>
    [] it.t = "tail" -> WriteFrom(it.l, doc, env)
    [] it.t = "stop" -> <<Refusal>>
    [] it.t = "pad" -> <<Tok("align", it.to)>>
    [] it.t \in {"end", "fresh", "fits"} -> <<>>

WriteOn(L, i, out, doc, env) ==
  IF GivesUp(out) \/ i > Len(L) THEN out ELSE WriteOn(L, i + 1, out \o WriteItem(L[i], doc, env), doc, env)

\* The file the writer L makes of doc, and whether it gets to the end.
Write(L, doc) == WriteFrom(L, doc, <<>>)
Refuses(file) == GivesUp(file)
RECURSIVE Padded(_)
Padded(out) ==
  LET marks == {i \in DOMAIN out : out[i].k = "align"}
      mark == Min(marks)
      zeroes == (out[mark].v - ((mark - 1) % out[mark].v)) % out[mark].v
  IN IF marks = {} THEN out
     ELSE Padded(SubSeq(out, 1, mark - 1) \o [i \in 1 .. zeroes |-> Tok("pad", 0)] \o SubSeq(out, mark + 1, Len(out)))

(***************************************************************************)
(* Documents.  Shapes(L, ctl) are documents a program can hold: what the   *)
(* reader's layout L can fill in, the numbers taken from ctl, every slice  *)
(* of the same size 0, 1 or 2, and at most one odd field: a field no call  *)
(* reads at this version but which is set all the same, a pointer that     *)
(* differs from the others, a slice longer than the one beside it, or a    *)
(* constant or a size that is not legal.                                   *)
(***************************************************************************)
RECURSIVE Odd(_)
Names(L) == DOMAIN Blank(L)
Odd(L) ==
  LET One(it) ==
        CASE it.t \in {"arr", "map", "each", "until", "flagged", "rec"} -> Odd(it.l)
          [] it.t \in {"times", "par", "opt", "block", "ptr", "ref"} -> {it.n} \cup Odd(it.l)
          [] it.t \in {"must", "size", "some", "fresh", "maybe", "implied"} -> {it.n}
          [] it.t = "peek" -> Odd(it.m) \cup (IF it.both THEN Odd(it.l) ELSE {})
          [] it.t = "either" -> Odd(it.l) \cup Odd(it.m)
          [] it.t = "if" -> Names(it.l) \cup Odd(it.l)
          [] it.t \in {"of", "on"} ->
               UNION {Odd(it.cases[c]) \cup (IF it.one THEN Names(it.cases[c]) ELSE {}) :
                        c \in DOMAIN it.cases}
          [] it.t \in {"tail", "frame"} -> Odd(it.l)
          [] OTHER -> {}
  IN UNION {One(L[i]) : i \in DOMAIN L}

\* How a family of documents is made: the numbers, the size, the odd field,
\* and the suffix that keeps the labels of two elements apart.
RECURSIVE FillOn(_, _, _, _, _), Odds(_, _, _), FillEach(_, _, _, _, _)
Fill(L, docs, env, how) == FillOn(L, 1, docs, env, how)
\* One choice for every number; the last element of a slice has them all.
Pinned(how) == [how EXCEPT !.ctl = [x \in DOMAIN @ |-> {CHOOSE v \in @[x] : TRUE}]]
\* The elements 1 .. n of the slice it.n, one after another.
FillEach(it, docs, env, how, n) ==
  LET Grown(i, d) ==
        {[d EXCEPT ![it.n] = IF i <= Len(@) THEN [@ EXCEPT ![i] = e] ELSE Append(@, e)] :
           e \in Fill(it.l, {IF i <= Len(d[it.n]) THEN d[it.n][i] @@ it.b ELSE it.b},
                      <<d>> \o env, [(IF i < n THEN Pinned(how) ELSE how) EXCEPT !.sfx = @ \o ToString(i)])}
      step[i \in 0 .. n] == IF i = 0 THEN docs ELSE UNION {Grown(i, d) : d \in step[i - 1]}
  IN IF n <= 0 THEN docs ELSE step[n]

\* A slice may have a size of its own.
SizeFor(it, how) == IF it.n \in DOMAIN how.ctl THEN CHOOSE v \in how.ctl[it.n] : TRUE ELSE how.size
Values(it, how) == IF it.n \in DOMAIN how.ctl THEN how.ctl[it.n] ELSE {1}

\* The documents docs, with the field or fields of the item filled in.
FillItem(it, docs, env, how) ==
  LET odd == "n" \in DOMAIN it /\ it.n = how.odd
      More(n) == IF odd THEN n + 1 ELSE n
  IN CASE it.t = "get" -> {[d EXCEPT ![it.n] = it.n \o how.sfx] : d \in docs}
       [] it.t = "maybe" -> {[d EXCEPT ![it.n] = IF odd \/ how.size = 0 THEN Nil ELSE it.n \o how.sfx] : d \in docs}
       [] it.t = "implied" ->
            {[d EXCEPT ![it.n] = v] : d \in docs, v \in IF odd /\ it.n \in DOMAIN how.ctl THEN how.ctl[it.n] ELSE {it.v}}
       [] it.t = "peek" -> Fill(it.m, docs, env, how) \cup (IF it.both THEN Fill(it.l, docs, env, how) ELSE {})
       [] it.t = "either" -> Fill(it.l, docs, env, how) \cup Fill(it.m, docs, env, how)
       [] it.t = "some" -> {[d EXCEPT ![it.n] = IF odd THEN "" ELSE it.n \o how.sfx] : d \in docs}
       [] it.t = "num" -> {[d EXCEPT ![it.n] = v] : d \in docs, v \in Values(it, how)}
       [] it.t = "size" -> {[d EXCEPT ![it.n] = v] : d \in docs,
                             v \in IF odd THEN {-1} ELSE IF it.n \in DOMAIN how.ctl THEN how.ctl[it.n] ELSE {how.size}}
       [] it.t = "must" ->
            {[d EXCEPT ![it.n] = IF odd THEN (IF it.k \in Numeric THEN it.v + 1 ELSE "other")
                                 ELSE it.v] : d \in docs}
       [] it.t \in {"arr", "map", "until", "flagged"} -> FillEach(it, docs, env, how, SizeFor(it, how))
       [] it.t = "cnt" -> {[d EXCEPT ![it.n] = [i \in 1 .. SizeFor(it, how) |-> <<>>]] : d \in docs}
       [] it.t = "each" -> FillEach(it, docs, env, how, SizeFor(it, how))
       [] it.t = "times" ->
            UNION {FillEach(it, {d}, env, how, More(Field(it.c, d, env))) : d \in docs}
       [] it.t = "par" ->
            UNION {FillEach(it, {d}, env, how, More(Len(Field(it.c, d, env)))) : d \in docs}
       [] it.t \in {"opt", "block", "ref"} ->
            IF (SizeFor(it, how) = 0 \/ it.l = <<Stop>>) # odd THEN docs ELSE FillEach(it, docs, env, how, 1)
       [] it.t = "ptr" -> IF odd THEN docs ELSE FillEach(it, docs, env, how, 1)
       [] it.t = "fresh" -> IF odd THEN FillEach(it, docs, env, how, 1) ELSE docs
       [] it.t = "rec" ->
            UNION {{[d EXCEPT ![it.n] = r] : r \in Fill(it.l, {it.b}, <<d>> \o env, how)} : d \in docs}
       [] it.t = "if" ->
            LET open == {d \in docs : Within(Field(it.f, d, env), it.in)}
            IN Fill(it.l, open, env, how) \cup Odds(it.l, docs \ open, how)
       [] it.t \in {"of", "on"} ->
            UNION {LET c == Field(it.f, d, env)
                       others == {x \in DOMAIN it.cases : x # c}
                       here == IF c \in DOMAIN it.cases THEN Fill(it.cases[c], {d}, env, how) ELSE {d}
                   IN IF ~it.one THEN here
                      ELSE FoldSet(LAMBDA x, ds : Odds(it.cases[x], ds, how), here, others) : d \in docs}
       [] it.t \in {"tail", "frame"} -> Fill(it.l, docs, env, how)
       [] OTHER -> docs

FillOn(L, i, docs, env, how) ==
  IF docs = {} \/ i > Len(L) THEN docs ELSE FillOn(L, i + 1, FillItem(L[i], docs, env, how), env, how)

\* The odd field is set though the calls of L are not made.
Odds(L, docs, how) ==
  IF how.odd \notin Names(L) THEN docs
  ELSE LET its == SelectSeq(L, LAMBDA it : "n" \in DOMAIN it /\ it.n = how.odd)
           it == its[1]
       IN IF its = <<>>
          THEN FoldLeft(LAMBDA ds, x : IF x.t \in {"if", "tail", "frame"} THEN Odds(x.l, ds, how) ELSE ds, docs, L)
          ELSE {[d EXCEPT ![how.odd] =
                   CASE it.t \in {"get", "some"} -> how.odd
                     [] it.t = "num" -> IF it.k \in Numeric THEN 1 ELSE how.odd
                     [] it.t = "size" -> 1
                     [] it.t \in {"rec", "implied"} -> @
                     [] it.t = "maybe" -> how.odd
                     [] it.t = "must" -> it.v
                     [] OTHER -> <<CHOOSE e \in Fill(it.l, {it.b}, <<d>>, [how EXCEPT !.size = 0]) : TRUE>>] :
                  d \in docs}

Shapes(L, ctl, sizes) ==
  UNION {Fill(L, {Blank(L)}, <<>>, [ctl |-> ctl, size |-> size, odd |-> odd, sfx |-> ""]) :
           size \in sizes, odd \in {""} \cup Odd(L)}

\* The numbers a single byte can be read as.
ByteNumbers == {Tok(k, v) : k \in {k \in Numeric : Bytes(k) = 1}, v \in 0 .. 2}

(***************************************************************************)
(* Damage.  A number takes a neighbouring, a negative or a zero value, a   *)
(* flag its opposite, a key the text of another key.                       *)
(***************************************************************************)
Altered(f, p) ==
  LET v == f[p].v
  IN CASE f[p].k \in Flags -> {1 - v, 2} \ {v}
       [] f[p].k \in {"#byte", "#u16", "#u32"} -> {Narrow(f[p].k, v + 1), 0} \ {v}
       [] f[p].k \in Numeric \ Headers -> {v - 1, v + 1, 0, -1} \ {v}
       [] f[p].k \in Headers -> {v - 1, v + 1, 0, -1} \ {v, -2}
       [] f[p].k \in Keys -> {f[q].v : q \in {q \in DOMAIN f : f[q].k = f[p].k}} \ {v}
       [] OTHER -> {}
\* The flags as a writer spells them.
Spelled(f) == [i \in DOMAIN f |-> IF f[i].k \in Flags /\ f[i].v # 0 THEN Tok(f[i].k, 1) ELSE f[i]]
=============================================================================
