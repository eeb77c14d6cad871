--------------------------- MODULE MCCom3d2Formats ---------------------------
(* The codecs of COM3D2, each with the numbers its control depends on.   *)
EXTENDS Com3d2Physics, Com3d2Model, Com3d2Animation, Com3d2Preset, Com3d2Archive, Nei

F(reader, writer, numbers) == [reader |-> reader, writer |-> writer, numbers |-> numbers]
Codecs ==
  [psk |-> F(ReadPsk, DumpPsk, [Version |-> {216, 217}]),
   phy |-> F(ReadPhy, DumpPhy, [EnablePartialDamping |-> {0, 1}, EnablePartialElasticity |-> {1, 2},
                                EnablePartialStiffness |-> {0}, EnablePartialRadius |-> {2}]),
   col |-> F(ReadCol, DumpCol, [TypeName |-> {"dbc", "dpc", "dbm", "missing"}]),
   mate |-> F(ReadMate, DumpMate, [TypeName |-> DOMAIN readProperty[2].cases, SubTag |-> {"tex2d", "cube", "texRT", "null"}]),
   pmat |-> F(ReadPMat, DumpPMat, <<>>), pmat_hashed |-> F(ReadPMat, DumpPMat, <<>>),
   tex |-> F(ReadTex, DumpTex, [Version |-> {1000, 1009, 1010, 1011}]),
   menu |-> F(ReadMenu, DumpMenu, <<>>),
   model |-> F(ReadModel, DumpModel,
               [Version |-> {2000, 2001, 2100, 2102, 2104, 2200}, hasUV2 |-> {1}, hasUV3 |-> {0},
                hasUV4 |-> {1}, hasUnknown1 |-> {0}, hasUnknown2 |-> {1}, hasUnknown3 |-> {0}, hasUnknown4 |-> {1},
                HasTangents |-> {0, 1}, Index |-> {65535, 65536}, TypeName |-> {"f"}]),
   model_head |-> F(ReadModelMetadata, DumpModel, <<>>), preset_head |-> F(ReadPresetMetadata, DumpPreset, <<>>),
   property |-> F(readPresetProperty, writePresetProperty, [PropVersion |-> {100, 101, 200, 211, 213, 2001, 2003, 20000, 30000}]),
   preset |-> F(ReadPreset, DumpPreset,
                [Version |-> {1, 2, 200, 2000, 10000}, ListVersion |-> {3, 4, 2001}, PropVersion |-> {213}, ColorVersion |-> {1200, 1201},
                 PartName |-> {"skin", "MAX"}, SubProps |-> {0}, SkinPositions |-> {0}, AttachPositions |-> {0}, MaterialProps |-> {0},
                 BoneLengths |-> {0}]),
   anm |-> F(ReadAnm, DumpAnm, [Version |-> {1000, 1001}, PropertyIndex |-> {0, 154, 155, 156}, BustKeyLeft |-> {0, 1}, BustKeyRight |-> {0, 1}]),
   dance |-> F(ReadDanceObjectData, DumpDanceObjectData, <<>>),
   timeline |-> F(ReadTimelineData, DumpTimelineData,
                  [Type |-> {"Translation", "Rotation", "Property", "Event"}, ValueType |-> 0 .. 14, TotalFrame |-> {1, -1}])]
MCToLower(n) == CASE n = "Readme" -> "readme" [] n = "README" -> "readme" [] n = "A" -> "a" [] OTHER -> n
MCCompressGlobs(n) == n = "menu"
Archives == {"arc", "arc_edited"}
\* Half-width katakana are one byte of Shift-JIS, and two of them are a character of UTF-8.
Common == ("a" :> <<"61">>) @@ ("nul" :> <<NulByte>>) @@ ("ctl" :> <<ControlByte>>)
MCShiftJIS == Common @@ ("te" :> <<"C3">>) @@ ("u" :> <<"A9">>) @@ ("ka" :> <<"82", "A9">>) @@ (Broken :> <<"FD">>)
MCUtf8 == Common @@ ("te" :> <<"EF", "BE", "83">>) @@ ("u" :> <<"EF", "BD", "A9">>) @@ ("ka" :> <<"E3", "81", "8B">>) @@ ("e'" :> <<"C3", "A9">>)
MCAscii == {"61", NulByte, ControlByte}
NeiTables ==
  LET Table(rows, cols, data, encoding) == [Rows |-> rows, Cols |-> cols, Data |-> data, TextEncoding |-> encoding]
      texts == {<<>>, <<"a", "nul">>, <<"ka">>, <<"te", "u">>, <<"e'">>}
  IN {Table(1, 1, <<<<text>>>>, encoding) : text \in texts, encoding \in {"", "Shift-JIS", "UTF-8", "EUC"}}
       \cup {Table(2, 1, <<<<one>>, <<other>>>>, encoding) : one \in {<<>>, <<"u">>, <<"te", "u">>}, other \in {<<"a">>, <<"te">>}, encoding \in {"Shift-JIS", "UTF-8"}}
       \cup {Table(1, 2, <<<<<<"ka">>, <<>>>>>>, "UTF-8"), Table(2, 2, <<<<<<"a">>, <<>>>>, <<<<>>, <<"te">>>>>>, "")}
       \cup {Table(rows, 0, data, "") : rows \in {0, 2}, data \in {<<>>, <<<<>>, <<>>>>}}
       \cup {Table(0, cols, <<>>, "") : cols \in {1, 2}} \cup {Table(1, 2, <<<<<<"a">>>>>>, ""), Table(2, 1, <<<<<<"a">>>>>>, "")}
Tables == {"nei", "nei_table"}
MCFormats == LET streams == DOMAIN Codecs IN streams \cup Archives \cup Tables
MCDecoded[f \in MCFormats, bytes \in Any] ==
  CASE f \in Archives -> ReadArc(bytes) [] f = "nei" -> ReadNei(bytes) [] f = "nei_table" -> ReadTable(bytes) [] OTHER -> Read(Codecs[f].reader, bytes)
MCEncoded[f \in MCFormats, d \in Any] ==
  CASE f \in Archives -> IF "Edit" \in DOMAIN d THEN DumpEdited(d, d.Edit) ELSE Dump(d)
    [] f = "nei" -> DumpNei(d) [] f = "nei_table" -> DumpTable(d) [] OTHER -> Write(Codecs[f].writer, d)
MCValid[f \in MCFormats, d \in Any] ==
  CASE f = "psk" -> validatePskForDump(d) [] f = "phy" -> validatePhyForDump(d) [] f = "col" -> validateColliderForDump(d)
    [] f = "mate" -> validateMateForDump(d) [] f = "model" -> validateModelForDump(d) [] f = "menu" -> CommandsLegal(d)
    [] f = "model_head" -> "MorphData" \in DOMAIN d /\ validateModelForDump(d)
    [] f = "preset_head" -> "MultiColor" \in DOMAIN d /\ validatePresetForDump(d)
    [] f = "property" -> validatePresetPropertyForDump(d)
    [] f = "preset" -> validatePresetForDump(d) [] f = "anm" -> validateAnmForDump(d) [] f = "timeline" -> validateTimelineDataForDump(d)
    [] OTHER -> TRUE
MCAccepts[f \in MCFormats, d \in Any] == TRUE
MCPrepared[f \in MCFormats, d \in Any] ==
  CASE f = "pmat_hashed" -> calculateHash(d) [] f = "menu" -> UpdateBodySize(d) [] f \in {"model", "model_head"} -> CountedModel(d) [] OTHER -> d
MCSettled[f \in MCFormats, d \in Any] ==
  CASE f \in Archives -> SettledArc(IF "Edit" \in DOMAIN d THEN Edited(SettledArc(Fields(d, {"Name", "Dirs", "Files"})), d.Edit)[1] ELSE d)
    [] f \in Tables -> SettledNei(d) [] f = "model" -> SettledModel(d) [] f = "model_head" -> SettledModelHead(d) [] f = "preset_head" -> SettledPresetHead(d) [] f = "mate" -> SettledMaterial(d) [] f = "tex" -> SettledTex(d) [] f = "timeline" -> SettledTimeline(d)
    [] OTHER -> MCPrepared[f, d]
MCReproduced[f \in MCFormats, h \in Any, whole \in Any, d \in Any] ==
  CASE f = "arc" -> h = "none" /\ SettledArc(whole) = whole [] f \in {"arc_edited"} \cup Tables -> FALSE
    [] f \in {"menu", "pmat_hashed", "model"} -> MCPrepared[f, d] = d
    [] f = "anm" -> d.Version >= 1001 \/ whole.Version < 1001  \* else its flags are left out
    [] OTHER -> TRUE
MCUnsavable[f \in MCFormats, h \in Any, d \in Any] ==
  CASE f \in {"model_head", "preset_head"} -> TRUE  \* a head alone is nothing to save
    [] f = "anm" -> d.Version < 1001 /\ (d.BustKeyLeft = 1 \/ d.BustKeyRight = 1)
    [] f = "timeline" -> ~FramesLegal(d)
    [] OTHER -> FALSE
MCMayLack[f \in MCFormats, whole \in Any, cut \in Any] ==
  CASE f \in {"pmat", "pmat_hashed"} -> Len(cut) = 5
    [] f = "model" -> \* up to the flag of the skin
         LET all == Write(DumpModel, CountedModel(whole))
         IN Len(cut) < Len(all) /\ all[Len(cut) + 1].k = "#flag"
    [] f \in {"model_head", "preset_head"} -> \* the end of the head
         Len(cut) >= Read(Codecs[f].reader, MCEncoded[f, MCPrepared[f, whole]]).p - 1
    [] f = "anm" -> Len(cut) > 2 /\ cut[2].v > 1000 /\ \E i \in DOMAIN cut : i >= Len(cut) - 1 /\ cut[i].k = "#byte" /\ cut[i].v = 0
    [] OTHER -> FALSE
\* (An animation that has no flags takes the byte for the first of them, whatever its version.)
MCTrailed[f \in MCFormats, d \in Any, more \in Any] ==
  CASE f \in {"mate", "preset"} -> {}
    [] f = "anm" /\ d.Version < 1001 -> {[d EXCEPT !.BustKeyLeft = IF more.v = 0 THEN 0 ELSE 1]}
    [] OTHER -> {MCSettled[f, d]}
SizesOf(f) == IF f \in {"model", "preset", "property"} THEN {0, 2} ELSE {0, 1, 2}
\* Archives with empty directories, a name in two spellings, files that are or get compressed.
Bytes2(x, y) == <<Tok("byte", x), Tok("byte", y)>>
Stored(data) == [Data |-> data, Compressed |-> FALSE]
Packed(data) == [Data |-> data, Compressed |-> TRUE]
FileSets ==
  {<<>>, (<<"f">> :> Stored(Bytes2("x", "y"))) @@ (<<"menu">> :> Stored(<<>>)),
   (<<"Readme">> :> Stored(<<>>)) @@ (<<"a", "README">> :> Packed(Bytes2("x", "y"))),
   (<<"c", "f">> :> Packed(<<>>)) @@ (<<"a", "f">> :> Stored(Bytes2("x", "y")))}
ArchiveDocs ==
  {[Name |-> name, Dirs |-> (dirs \cup {Front(path) : path \in DOMAIN files} \cup {<<"a">>}) \ {Root}, Files |-> files] :
     name \in {"data", "A"}, dirs \in {{}, {<<"a", "b">>, <<"c">>}, {<<"a", "b">>, <<"a", "b", "A">>}}, files \in FileSets}
Create(path) == [op |-> "create", path |-> path, data |-> Bytes2("n", "e")]
Copy(from, path) == [op |-> "copy", from |-> from, path |-> path]
Edits ==
  {Create(<<"f">>), Create(<<"d", ".", "..", "a", "menu">>), [op |-> "delete", path |-> <<"a", "f">>], [op |-> "delete", path |-> <<"d", "..", "f">>],
   Copy(<<"a", "README">>, <<"e", "f">>), Copy(<<"f">>, <<"f">>), Copy(<<"menu">>, <<"other">>)}
    \cup {[op |-> "merge", arc |-> other] : other \in {d \in ArchiveDocs : d.Name = "A" /\ {<<"a", "b">>, <<"c">>} \subseteq d.Dirs}}
EditedDocs == {d @@ [Edit |-> e] : d \in {d \in ArchiveDocs : d.Name = "data" /\ <<"c">> \notin d.Dirs}, e \in Edits}
\* Every table is where its offset, and those of its ancestors, say it is.
ASSUME TablesInPlace ==
  \A d \in ArchiveDocs :
    LET offsets == calculateDirOffsets(d)
        dirs    == AllDirs(d, Root)
        Sized(dir) == 32 + 16 * (Cardinality(Dirs(d, dir)) + Cardinality(Files(d, dir))) + 8 * Len(dir)
        Start(i) == FoldLeft(LAMBDA sum, dir : sum + Sized(dir), 0, SubSeq(dirs, 1, i - 1))
    IN \A i \in DOMAIN dirs : FoldSet(LAMBDA n, sum : sum + offsets[SubSeq(dirs[i], 1, n)], 0, 0 .. Len(dirs[i])) = Start(i)

\* The valid documents of one version, for the readers of a head alone.
Wholes(f, version) ==
  LET numbers == [n \in DOMAIN Codecs[f].numbers |->
                    IF n = "Version" THEN {version} ELSE {CHOOSE v \in Codecs[f].numbers[n] : TRUE}]
  IN {d \in Shapes(Codecs[f].reader, numbers, {2}) : MCValid[f, d]}
MCDocs ==
  [f \in STRING |->
     CASE f = "arc" -> ArchiveDocs [] f = "arc_edited" -> EditedDocs [] f \in Tables -> NeiTables
       [] f = "model_head" -> UNION {Wholes("model", v) : v \in {2000, 2001, 2104}}
       [] f = "preset_head" -> Wholes("preset", 200)
       [] OTHER -> Shapes(Codecs[f].reader, Codecs[f].numbers, SizesOf(f))]
MCCodec ==
  LET codes == [Decoded |-> MCDecoded, Encoded |-> MCEncoded, Valid |-> MCValid, Accepts |-> MCAccepts, Prepared |-> MCPrepared]
  IN codes @@ [Docs |-> MCDocs, Settled |-> MCSettled, Reproduced |-> MCReproduced, Unsavable |-> MCUnsavable, MayLack |-> MCMayLack, Trailed |-> MCTrailed]
=============================================================================
