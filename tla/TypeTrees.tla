--------------------------- MODULE TypeTrees ---------------------------
(***************************************************************************)
(* Objects of Unity, read and written by the type tree that describes      *)
(* them, and the native object files that hold one object and its tree.    *)
(*                                                                         *)
(* The data of an object is bytes: a number of w bytes is a token with its *)
(* value and w - 1 tokens "rest", because what follows it may be aligned.  *)
(* A node of a tree gives its type and its name by offsets into a buffer   *)
(* of names and "NUL"s, or, from BuiltIn on, into the table of the names   *)
(* Unity has in common.  A value is [TypeName, Name, Value, Children],     *)
(* whose Value says which of Go's types it is and holds numbers.           *)
(***************************************************************************)
EXTENDS Layouts

CONSTANTS
  Radix,        \* the values of a byte (256)
  CommonStrings \* commonStringTable, by offset

BuiltIn == 100  \* 0x80000000
AlignBit == 1   \* 0x4000 of the flags of a node
HasBit(flags, bit) == (flags \div bit) % 2 = 1

GetTypeTreeString(tree, off) ==
  IF off >= BuiltIn THEN (IF off - BuiltIn \in DOMAIN CommonStrings THEN CommonStrings[off - BuiltIn] ELSE "Unknown")
  ELSE LET names == [i \in DOMAIN tree.StringBuffer |-> tree.StringBuffer[i].C]
           end == CHOOSE i \in off + 1 .. Len(names) + 1 : (i > Len(names) \/ names[i] = "NUL") /\ \A j \in off + 1 .. i - 1 : names[j] # "NUL"
       IN IF off >= Len(names) THEN "" ELSE FoldLeft(LAMBDA s, x : s \o x, "", SubSeq(names, off + 1, end - 1))
TypeOf(tree, i) == GetTypeTreeString(tree, tree.Nodes[i].TypeStrOff)
NameIn(tree, i) == GetTypeTreeString(tree, tree.Nodes[i].NameStrOff)
\* Every name in the buffer has an end.
validateTypeTreeStringOffsets(tree) ==
  \A node \in Range(tree.Nodes) : \A off \in {node.TypeStrOff, node.NameStrOff} :
    off >= BuiltIn \/ \E i \in off + 1 .. Len(tree.StringBuffer) : tree.StringBuffer[i].C = "NUL"

\* The nodes are in preorder: the first one behind the subtree of i, and the
\* first from `from` on with the name, before any no deeper than i (or 0).
SkipSubtree(tree, i) ==
  CHOOSE j \in i + 1 .. Len(tree.Nodes) + 1 :
    /\ \A h \in i + 1 .. j - 1 : tree.Nodes[h].Level > tree.Nodes[i].Level
    /\ j <= Len(tree.Nodes) => tree.Nodes[j].Level <= tree.Nodes[i].Level
HasChildren(tree, i) == SkipSubtree(tree, i) > i + 1
FirstNamed(tree, i, from, name) ==
  LET hits == {j \in from .. Len(tree.Nodes) : NameIn(tree, j) = name /\ \A h \in from .. j : tree.Nodes[h].Level > tree.Nodes[i].Level}
  IN IF hits = {} THEN 0 ELSE Min(hits)

SignedTypes   == {"char", "SInt8", "short", "SInt16", "int", "SInt32", "long long", "SInt64"}
UnsignedTypes == {"UInt8", "unsigned char", "unsigned short", "UInt16", "unsigned int", "UInt32", "Type*", "unsigned long long", "UInt64", "FileSize"}
SpecialTypes  == {"string", "TypelessData"}
ByteTypes     == {"UInt8", "unsigned char", "SInt8", "char"}
\* The bytes of a number, and the fewest of a text.
Width(type) ==
  CASE type \in ByteTypes \cup {"bool"} -> 1
    [] type \in {"short", "SInt16", "unsigned short", "UInt16"} -> 2
    [] type \in {"int", "SInt32", "unsigned int", "UInt32", "Type*", "float"} \cup SpecialTypes -> 4
    [] type \in {"long long", "SInt64", "unsigned long long", "UInt64", "FileSize", "double"} -> 8
    [] OTHER -> 0
isArrayNode(tree, i) == HasBit(tree.Nodes[i].TypeFlags, 1) \/ TypeOf(tree, i) \in {"vector", "list", "Array", "staticvector"}
RECURSIVE minimumTypeTreeValueBytes(_, _)
minimumTypeTreeValueBytes(tree, i) ==
  IF Width(TypeOf(tree, i)) > 0 THEN Width(TypeOf(tree, i))
  ELSE IF ~HasChildren(tree, i) THEN 0 ELSE IF isArrayNode(tree, i) THEN 4
  ELSE LET children == {j \in i + 1 .. SkipSubtree(tree, i) - 1 : \A h \in i + 1 .. j - 1 : SkipSubtree(tree, h) <= j}
       IN FoldSet(LAMBDA j, total : total + minimumTypeTreeValueBytes(tree, j), 0, children)

\* The array at node i: the node whose flags align it, its length and its
\* elements; 0 for what is not there.
ArrayParts(tree, i) ==
  LET array == IF NameIn(tree, i + 1) = "Array" THEN i + 1 ELSE i
      next  == IF array = i THEN i + 1 ELSE i + 2
      size  == IF next > Len(tree.Nodes) THEN 0 ELSE IF NameIn(tree, next) = "size" THEN next ELSE FirstNamed(tree, i, next, "size")
  IN [array |-> array, size |-> size, data |-> IF size = 0 THEN 0 ELSE FirstNamed(tree, i, size + 1, "data")]
IsByteElement(tree, j) == TypeOf(tree, j) \in ByteTypes /\ ~HasChildren(tree, j)

Holding(is, v) == [is |-> is, v |-> v]
NoValue == Holding("nil", <<>>)
TreeValue(type, name, v, children) == [TypeName |-> type, Name |-> name, Value |-> v, Children |-> children]
FieldsNamed(children, name) == SelectSeq(children, LAMBDA c : c.Name = name)

(***************************************************************************)
(* Reading: [st, p, v], p the bytes before the next.                       *)
(***************************************************************************)
WordKind(w) == CASE w = 1 -> "b" [] w = 2 -> "w2" [] w = 4 -> "#i32" [] w = 8 -> "w8"
AsSigned(n, w) == LET full == Radix ^ w IN ((n + (full \div 2)) % full) - (full \div 2)
AsUnsigned(n, w) == n % Radix ^ w
At(st, p, v) == [st |-> st, p |-> p, v |-> v]
ReadWord(f, p, w) ==
  IF p + w > Len(f) THEN At("eof", p, 0) ELSE IF f[p + 1].k # WordKind(w) THEN At("garbled", p, 0) ELSE At("ok", p + w, f[p + 1].v)
ReadBytes(f, p, n, is) ==
  IF p + n > Len(f) THEN At("eof", p, NoValue)
  ELSE IF \E i \in p + 1 .. p + n : f[i].k # "b" THEN At("garbled", p, NoValue)
  ELSE At("ok", p + n, Holding(is, [i \in 1 .. n |-> f[p + i].v]))
AlignReader4(f, s) ==
  LET p == s.p + ((4 - (s.p % 4)) % 4) IN IF s.st # "ok" THEN s ELSE IF p > Len(f) THEN [s EXCEPT !.st = "eof"] ELSE [s EXCEPT !.p = p]
AlignIf(f, node, s) == IF HasBit(node.MetaFlags, AlignBit) THEN AlignReader4(f, s) ELSE s
\* A length and so many bytes.
ReadCounted(f, p, is) ==
  LET size == ReadWord(f, p, 4)
  IN IF size.st # "ok" THEN At(size.st, p, NoValue) ELSE IF size.v < 0 THEN At("refused", p, NoValue) ELSE ReadBytes(f, size.p, size.v, is)

ReadPrimitiveValue(type, f, p) ==
  CASE type = "string" -> AlignReader4(f, ReadCounted(f, p, "text"))
    [] type = "TypelessData" -> ReadCounted(f, p, "bytes")
    [] type = "" -> At("ok", p, NoValue)
    [] Width(type) = 0 -> At("refused", p, NoValue)
    [] OTHER ->
         LET w == Width(type)
             r == ReadWord(f, p, w)
         IN [r EXCEPT !.v =
               CASE type = "bool" -> Holding("bool", <<IF r.v = 0 THEN 0 ELSE 1>>)
                 [] type \in SignedTypes -> Holding("int", <<AsSigned(r.v, w)>>)
                 [] type \in UnsignedTypes -> Holding("int", <<AsUnsigned(r.v, w)>>)
                 [] OTHER -> Holding("float", <<r.v>>)]

RECURSIVE ReadTypeTreeValue(_, _, _, _), ReadChildren(_, _, _, _, _, _), ReadElements(_, _, _, _, _, _)
\* The values of the nodes from i to before end, one behind the other.
ReadChildren(tree, f, p, i, end, children) ==
  IF i >= end THEN At("ok", p, children)
  ELSE LET r == ReadTypeTreeValue(tree, f, p, i)
       IN IF r.st # "ok" THEN r ELSE ReadChildren(tree, f, r.p, SkipSubtree(tree, i), end, Append(children, r.v))
\* The elements of an array from the i-th to the n-th.
ReadElements(tree, f, p, data, n, elements) ==
  IF Len(elements) = n THEN At("ok", p, elements)
  ELSE LET r == ReadTypeTreeValue(tree, f, p, data)
       IN IF r.st # "ok" THEN r
          ELSE IF r.p = p THEN At("refused", p, 0)
          ELSE ReadElements(tree, f, r.p, data, n, Append(elements, [r.v EXCEPT !.Name = "data"]))
ReadArrayValue(tree, f, p, i, Made(_, _)) ==
  LET parts == ArrayParts(tree, i)
      size  == ReadWord(f, p, 4)
      least == minimumTypeTreeValueBytes(tree, parts.data)
      r == IF size.v > 0 /\ IsByteElement(tree, parts.data) THEN ReadBytes(f, size.p, size.v, "bytes")
           ELSE ReadElements(tree, f, size.p, parts.data, size.v, <<>>)
  IN IF parts.size = 0 THEN At("refused", p, 0)
     ELSE IF size.st # "ok" THEN size
     ELSE IF size.v < 0 \/ parts.data = 0 THEN At("refused", p, 0)
     ELSE IF least > 0 /\ size.v > (Len(f) - size.p) \div least THEN At("refused", p, 0)
     ELSE IF r.st # "ok" THEN r
     ELSE AlignIf(f, tree.Nodes[parts.array],
            [r EXCEPT !.v = IF size.v > 0 /\ IsByteElement(tree, parts.data) THEN Made(r.v, <<>>) ELSE Made(NoValue, r.v)])
ReadTypeTreeValue(tree, f, p, i) ==
  LET Made(v, children) == TreeValue(TypeOf(tree, i), NameIn(tree, i), v, children)
      Leaf(r) == IF r.st = "ok" THEN [r EXCEPT !.v = Made(r.v, <<>>)] ELSE r
      Inner(r) == IF r.st = "ok" THEN [r EXCEPT !.v = Made(NoValue, r.v)] ELSE r
      r == IF TypeOf(tree, i) \in SpecialTypes \/ ~HasChildren(tree, i) THEN Leaf(ReadPrimitiveValue(TypeOf(tree, i), f, p))
           ELSE IF isArrayNode(tree, i) THEN ReadArrayValue(tree, f, p, i, Made)
           ELSE Inner(ReadChildren(tree, f, p, i + 1, SkipSubtree(tree, i), <<>>))
  IN AlignIf(f, tree.Nodes[i], r)

\* The whole tree describes the whole object.
ReadAssetValue(tree, data) ==
  LET r == ReadTypeTreeValue(tree, data, 0, 1)
  IN IF r.st = "ok" /\ (r.p # Len(data) \/ SkipSubtree(tree, 1) <= Len(tree.Nodes)) THEN At("refused", r.p, 0) ELSE r

(***************************************************************************)
(* Writing, onto the bytes already there.                                  *)
(***************************************************************************)
WriteWord(n, w) == <<Tok(WordKind(w), n)>> \o [i \in 1 .. w - 1 |-> Tok("rest", w)]
Align4(out) == out \o [i \in 1 .. (4 - (Len(out) % 4)) % 4 |-> Tok("pad", 0)]
AlignOut(node, out) == IF ~GivesUp(out) /\ HasBit(node.MetaFlags, AlignBit) THEN Align4(out) ELSE out
ToBytes(v) == [i \in DOMAIN v |-> Tok("b", v[i])]
WriteCounted(v) == WriteWord(Len(v), 4) \o ToBytes(v)
InWidth(type, n) == IF type \in SignedTypes THEN n = AsSigned(n, Width(type)) ELSE n = AsUnsigned(n, Width(type))

WritePrimitiveTypeTreeValue(type, v, out) ==
  LET is == CASE type = "string" -> "text" [] type = "TypelessData" -> "bytes" [] type = "bool" -> "bool" [] type \in {"float", "double"} -> "float" [] OTHER -> "int"
      w == Width(type)
  IN IF type = "" THEN out
     ELSE IF w = 0 \/ v.is # is THEN <<Refusal>>
     ELSE IF is = "text" THEN Align4(out \o WriteCounted(v.v))
     ELSE IF is = "bytes" THEN out \o WriteCounted(v.v)
     ELSE IF is = "int" /\ ~InWidth(type, v.v[1]) THEN <<Refusal>>
     ELSE out \o WriteWord(IF w = 1 THEN AsUnsigned(v.v[1], 1) ELSE IF is = "int" THEN AsSigned(v.v[1], w) ELSE v.v[1], w)

RECURSIVE WriteTypeTreeValue(_, _, _, _), WriteChildren(_, _, _, _, _, _)
WriteChildren(tree, i, end, children, n, out) ==
  IF GivesUp(out) THEN out
  ELSE IF i >= end THEN (IF n > Len(children) THEN out ELSE <<Refusal>>)
  ELSE IF n > Len(children) THEN <<Refusal>>
  ELSE WriteChildren(tree, SkipSubtree(tree, i), end, children, n + 1, WriteTypeTreeValue(tree, i, children[n], out))
WriteTypeTreeArrayValue(tree, i, value, out) ==
  LET parts == ArrayParts(tree, i)
      Element(o, child) == IF GivesUp(o) THEN o ELSE WriteTypeTreeValue(tree, parts.data, child, o)
      written ==
        IF ~IsByteElement(tree, parts.data) THEN FoldLeft(Element, out \o WriteWord(Len(value.Children), 4), value.Children)
        ELSE IF value.Value.is = "bytes" THEN out \o WriteCounted(value.Value.v)
        ELSE IF value.Children = <<>> THEN out \o WriteWord(0, 4) ELSE <<Refusal>>
  IN IF parts.size = 0 \/ parts.data = 0 THEN <<Refusal>> ELSE AlignOut(tree.Nodes[parts.array], written)
WriteTypeTreeValue(tree, i, value, out) ==
  LET type == TypeOf(tree, i)
      written ==
        IF type \in SpecialTypes \/ ~HasChildren(tree, i) THEN WritePrimitiveTypeTreeValue(type, value.Value, out)
        ELSE IF isArrayNode(tree, i) THEN WriteTypeTreeArrayValue(tree, i, value, out)
        ELSE WriteChildren(tree, i + 1, SkipSubtree(tree, i), value.Children, 1, out)
  IN IF value.TypeName # "" /\ type # "" /\ value.TypeName # type THEN <<Refusal>> ELSE AlignOut(tree.Nodes[i], written)
EncodeAssetValue(tree, root) ==
  IF SkipSubtree(tree, 1) <= Len(tree.Nodes) THEN <<Refusal>> ELSE WriteTypeTreeValue(tree, 1, root, <<>>)

(***************************************************************************)
(* Native objects: the tree, the names and the data of one object.         *)
(***************************************************************************)
TreeNode ==
  <<Get("u16", "Version"), Num("#byte", "Level"), Num("#byte", "TypeFlags"), Num("#u32", "TypeStrOff"), Num("#u32", "NameStrOff"),
    Get("i32", "ByteSize"), Get("i32", "Index"), Num("#u32", "MetaFlags"), Get("u64", "RefTypeHash")>>
Char == <<Get("char", "C")>>
NativeHeader ==
  <<Lit("magic", "MSKCESO1"), Lit("#u32", 1), Num("#i32", "ClassID"), Num("#u32", "Flags"), Check("Flags", Between(0, 3)), \* stripped, big-endian
    Cnt("#u32", "Nodes"), Cnt("#u32", "StringBuffer"), Cnt("#u32", "TypeDependencies"), Num("#u32", "DataSize"),
    Get("hash", "ScriptIdHash"), Get("hash", "TypeHash"), Lit("#u32", 0),
    Each("Nodes", TreeNode), Each("StringBuffer", Char), Each("TypeDependencies", <<Get("i32", "D")>>)>>
validateNativeUnityObjectSchema(object) == object.ClassID # 0 /\ object.Nodes # <<>> /\ validateTypeTreeStringOffsets(object)

ReadNativeUnityObject(f) ==
  LET r == Read(NativeHeader, f)
      data == SubSeq(f, r.p, Len(f))
      value == ReadAssetValue(r.doc, data)
  IN IF r.st # "ok" THEN r
     ELSE IF Len(data) # r.doc.DataSize \/ ~validateNativeUnityObjectSchema(r.doc) THEN Fail(r, "refused")
     ELSE [r EXCEPT !.st = value.st, !.p = Len(f) + 1, !.doc = Fields(@, DOMAIN @ \ {"DataSize"}) @@ [Value |-> value.v]]
WriteNativeUnityObject(object) ==
  LET data == EncodeAssetValue(object, object.Value)
  IN IF ~validateNativeUnityObjectSchema(object) THEN <<Refusal>> ELSE IF GivesUp(data) THEN <<Refusal>> ELSE Write(NativeHeader, object @@ [DataSize |-> Len(data)]) \o data
=============================================================================
