------------------------- MODULE Com3d2Material ------------------------
(***************************************************************************)
(* The codecs of .mate and the materials of a .model, of .pmat (the render *)
(* order of a material), .tex and .menu.                                   *)
(***************************************************************************)
EXTENDS Layouts

(* .mate: properties follow each other, each after its type name, until    *)
(* the name "end"; nothing may come after that.                            *)

ReadTexProperty ==
  LET sub == Ptr("Tex2D", <<Get("str", "Name"), Get("str", "Path"), Get("f32x2", "Offset"), Get("f32x2", "Scale")>>)
  IN <<Get("str", "PropName"), Tag("SubTag"),
       Of("SubTag", "tex2d" :> <<sub>> @@ "cube" :> <<sub>>
            @@ "texRT" :> <<Ptr("TexRT", <<Get("str", "DiscardedStr1"), Get("str", "DiscardedStr2")>>)>>
            @@ "null" :> <<Fresh("Tex2D", sub.l)>>)>>
WriteTexProperty ==
  LET sub == Ptr("Tex2D", <<Get("str", "Name"), Get("str", "Path"), Get("f32x2", "Offset"), Get("f32x2", "Scale")>>)
  IN <<Get("str", "PropName"), Tag("SubTag"),
       Of("SubTag", "tex2d" :> <<sub>> @@ "cube" :> <<sub>>
            @@ "texRT" :> <<Ptr("TexRT", <<Get("str", "DiscardedStr1"), Get("str", "DiscardedStr2")>>)>>
            @@ "null" :> <<>>)>>

ReadColProperty       == <<Get("str", "PropName"), Get("f32x4", "Color")>>
WriteColProperty      == <<Get("str", "PropName"), Get("f32x4", "Color")>>
ReadVecProperty       == <<Get("str", "PropName"), Get("f32x4", "Vector")>>
WriteVecProperty      == <<Get("str", "PropName"), Get("f32x4", "Vector")>>
ReadFProperty         == <<Get("str", "PropName"), Get("f32", "Number")>>
WriteFProperty        == <<Get("str", "PropName"), Get("f32", "Number")>>
ReadRangeProperty     == <<Get("str", "PropName"), Get("f32", "Number")>>
WriteRangeProperty    == <<Get("str", "PropName"), Get("f32", "Number")>>
ReadTexOffsetProperty == <<Get("str", "PropName"), Get("f32", "OffsetX"), Get("f32", "OffsetY")>>
WriteTexOffsetProperty == <<Get("str", "PropName"), Get("f32", "OffsetX"), Get("f32", "OffsetY")>>
ReadTexScaleProperty  == <<Get("str", "PropName"), Get("f32", "ScaleX"), Get("f32", "ScaleY")>>
WriteTexScaleProperty == <<Get("str", "PropName"), Get("f32", "ScaleX"), Get("f32", "ScaleY")>>
ReadKeywordProperty ==
  <<Get("str", "PropName"), Arr("#i32", "Keywords", <<Get("str", "Key"), Get("bool", "Value")>>)>>
WriteKeywordProperty ==
  <<Get("str", "PropName"), Arr("#i32", "Keywords", <<Get("str", "Key"), Get("bool", "Value")>>)>>

\* The registry of property types, and the writers they dispatch to.
readProperty ==
  <<Tag("TypeName"),
    Kinds("TypeName",
      [tex |-> ReadTexProperty, col |-> ReadColProperty, vec |-> ReadVecProperty, f |-> ReadFProperty,
       range |-> ReadRangeProperty, tex_offset |-> ReadTexOffsetProperty,
       tex_scale |-> ReadTexScaleProperty, keyword |-> ReadKeywordProperty])>>
dumpProperty ==
  <<Tag("TypeName"),
    Kinds("TypeName",
      [tex |-> WriteTexProperty, col |-> WriteColProperty, vec |-> WriteVecProperty, f |-> WriteFProperty,
       range |-> WriteRangeProperty, tex_offset |-> WriteTexOffsetProperty,
       tex_scale |-> WriteTexScaleProperty, keyword |-> WriteKeywordProperty])>>

readMaterial ==
  <<Get("str", "MaterialName"), Get("str", "ShaderName"), Get("str", "ShaderFilename"),
    Until("str", "Properties", {"end"}, readProperty), Lit("str", "end")>>
DumpMaterial ==
  <<Get("str", "MaterialName"), Get("str", "ShaderName"), Get("str", "ShaderFilename"),
    Until("str", "Properties", {"end"}, dumpProperty), Lit("str", "end")>>

\* A texture property holds the struct its sub tag calls for.
validateMaterialForDump(material) ==
  \A i \in DOMAIN material.Properties :
    LET p == material.Properties[i]
    IN p.TypeName = "tex" =>
         CASE p.SubTag \in {"tex2d", "cube"} -> p.Tex2D # <<>>
           [] p.SubTag = "texRT" -> p.TexRT # <<>>
           [] p.SubTag = "null" -> TRUE
           [] OTHER -> FALSE

\* What a texture property is after a file: the struct its sub tag does not
\* call for is gone, and "null" gives an empty texture.
SettledMaterial(material) ==
  LET Settle(p) ==
        IF p.TypeName # "tex" THEN p
        ELSE CASE p.SubTag = "texRT" -> [p EXCEPT !.Tex2D = <<>>]
               [] p.SubTag = "null" -> [p EXCEPT !.TexRT = <<>>,
                                          !.Tex2D = <<[Name |-> "", Path |-> "", Offset |-> "", Scale |-> ""]>>]
               [] OTHER -> [p EXCEPT !.TexRT = <<>>]
  IN [material EXCEPT !.Properties = [i \in DOMAIN @ |-> Settle(@[i])]]

ReadMate ==
  <<Must("str", "Signature", "CM3D2_MATERIAL"), Get("i32", "Version"), Get("str", "Name")>> \o readMaterial \o <<End>>
DumpMate ==
  <<Get("str", "Signature"), Get("i32", "Version"), Get("str", "Name")>> \o DumpMaterial

validateMateForDump(mate) == mate.Signature = "CM3D2_MATERIAL" /\ validateMaterialForDump(mate)

----------------------------------------------------------------------------
(* .pmat: files without a shader are read too, and the hash is computed    *)
(* from the other fields when the caller asks for it.                      *)

ReadPMat ==
  <<Get("str", "Signature"), Get("i32", "Version"), Get("i32", "Hash"), Get("str", "MaterialName"),
    Get("f32", "RenderQueue"), Rest(<<Get("str", "Shader")>>)>>
DumpPMat ==
  <<Get("str", "Signature"), Get("i32", "Version"), Get("i32", "Hash"), Get("str", "MaterialName"),
    Get("f32", "RenderQueue"), Get("str", "Shader")>>
\* Two hashes are equal only if what they are made of is.
calculateHash(pmat) == [pmat EXCEPT !.Hash = pmat.MaterialName \o pmat.Shader \o pmat.RenderQueue]

----------------------------------------------------------------------------
(* .tex: the size of the image came with version 1010, the rectangles of   *)
(* an atlas with 1011.  Version 1000 takes its size from the image data,   *)
(* at byte 16, and is never written: the data here are too short for it.   *)

ReadTex ==
  <<Get("str", "Signature"), Num("#i32", "Version"), Get("str", "TextureName"),
    If("Version", AtLeast(1011), <<ArrUpTo("#i32", "Rects", 100000, <<Get("f32x4", "Rect")>>)>>),
    If("Version", AtLeast(1010), <<Get("i32", "Width"), Get("i32", "Height"), Get("i32", "TextureFormat")>>),
    Arr("#i32", "Data", <<Get("byte", "Byte")>>),
    If("Version", Is(1000), <<Stop>>)>>
DumpTex ==
  <<Get("str", "Signature"), Num("#i32", "Version"), Get("str", "TextureName"),
    If("Version", Is(1000), <<Stop>>),
    If("Version", AtLeast(1011), <<Arr("#i32", "Rects", <<Get("f32x4", "Rect")>>)>>),
    If("Version", AtLeast(1010), <<Get("i32", "Width"), Get("i32", "Height"), Get("i32", "TextureFormat")>>),
    Arr("#i32", "Data", <<Get("byte", "Byte")>>)>>
\* Dump leaves out what the version has no room for, without an error.
SettledTex(tex) ==
  LET flat == IF tex.Version >= 1011 THEN tex ELSE [tex EXCEPT !.Rects = <<>>]
  IN IF tex.Version >= 1010 THEN flat
     ELSE [flat EXCEPT !.Width = "", !.Height = "", !.TextureFormat = ""]

----------------------------------------------------------------------------
(* .menu: a command is a byte that counts its words, its name and its      *)
(* arguments; the byte 0 ends the list.                                    *)

ReadMenu ==
  <<Get("str", "Signature"), Get("i32", "Version"), Get("str", "SrcFileName"), Get("str", "ItemName"),
    Get("str", "Category"), Get("str", "InfoText"), Size("#i32", "BodySize"),
    Until("#byte", "Commands", {0},
          <<CntPlus("#byte", "Args", 1), Some("str", "Command"), Each("Args", <<Get("str", "Arg")>>)>>),
    Lit("#byte", 0)>>
DumpMenu ==
  <<Get("str", "Signature"), Get("i32", "Version"), Get("str", "SrcFileName"), Get("str", "ItemName"),
    Get("str", "Category"), Get("str", "InfoText"), Size("#i32", "BodySize"),
    Until("#byte", "Commands", {0},
          <<CntPlus("#byte", "Args", 1), Some("str", "Command"), Each("Args", <<Get("str", "Arg")>>)>>),
    Lit("#byte", 0)>>

\* A string takes WordBytes bytes, its length included.
WordBytes == 3
CalculateBodySize(menu) ==
  FoldLeft(LAMBDA sum, c : sum + 1 + WordBytes * (1 + Len(c.Args)), 1, menu.Commands)
UpdateBodySize(menu) == [menu EXCEPT !.BodySize = CalculateBodySize(menu)]
CommandsLegal(menu) == \A i \in DOMAIN menu.Commands : menu.Commands[i].Command # "" /\ Len(menu.Commands[i].Args) + 1 <= 255
=============================================================================
