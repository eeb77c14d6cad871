----------------------------- MODULE Indexed -----------------------------
(***************************************************************************)
(* The MessagePack objects of KCES: an array whose slots are the fields of *)
(* a class, in order.  A class that has grown is read at each of the       *)
(* widths it had; a pointer, a slice, a map, a string and a byte array may *)
(* be nil.  A header is one token, whose value is the count, -1 for nil.   *)
(***************************************************************************)
EXTENDS Layouts

Int32(n) == Get("int", n)
Bool(n) == Get("bool", n)
Single(n) == Get("f32", n)
Vector(n) == Get("vector", n)
Str(n)  == Maybe(n)
Bin(n)  == Maybe(n)
\* A slot without a field holds nil.
Sparse  == Lit("#array", -1)
Zero(it) == Blank(<<it>>)[it.n]

\* A class of one width, inside a slice and behind a pointer; the names of
\* slices and maps that may be nil stand for their elements.
Slots(L)      == <<Lit("#array", Len(L))>> \o L
Object(n, L)  == Ref("#array", n, Slots(L))
ListMin(n, min, L) == Ref("#array", n, <<ArrMin("#array", "Items", min, L)>>)
List(n, L)    == ListMin(n, 0, L)
DictMin(n, min, L) == Ref("#map", n, <<MapMin("#map", "Items", min, L)>>)
Dict(n, L)    == DictMin(n, 0, L)

\* A class of several widths, whose width the document keeps as w.
SlotsRead(w, widths, L) ==
  <<Num("#array", w), Check(w, {<<x, x>> : x \in widths})>>
    \o [i \in DOMAIN L |-> If(w, AtLeast(i), <<L[i]>>)]
\* (Mutant: a field the narrow class has no slot for is dropped.)
SlotsWrittenDropping(w, widths, L) == SlotsRead(w, widths, L)
\* What the narrower class has no slot for must be zero.
SlotsWritten(w, widths, L) ==
  <<Check(w, {<<x, x>> : x \in widths})>>
    \o FoldLeft(LAMBDA out, i : IF "n" \in DOMAIN L[i] THEN Append(out, If(w, Below(i), <<Implied(L[i].n, Zero(L[i]))>>)) ELSE out,
                <<>>, [i \in DOMAIN L |-> i])
    \o SlotsRead(w, widths, L)
=============================================================================
