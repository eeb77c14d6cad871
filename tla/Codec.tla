----------------------------- MODULE Codec -----------------------------
(***************************************************************************)
(* A document is saved, the file is damaged or not on its way, it is       *)
(* loaded, and what was loaded is saved again: the life of a mod file      *)
(* between the game, the tool and its user.  The formats are given by the  *)
(* modules that extend Layouts.                                            *)
(***************************************************************************)
EXTENDS Layouts

CONSTANTS
  Formats,  \* the names of the codecs
  Codec     \* what each does, by functions of its name and of the values named here:
            \*   Decoded     [file]: what its reader makes of a file, [st, doc, p]
            \*   Encoded     [document]: the file its writer makes of a document
            \*   Valid       [document]: what the writer checks before it writes
            \*   Accepts     [document]: what the reader checks after it has read
            \*   Prepared    [document]: after the writer has set its derived fields
            \* and what is to be expected of it:
            \*   Docs        the documents a program may want saved
            \*   Settled     [document]: as its file holds it
            \*   Reproduced  [harm, saved, loaded]: written as it was read
            \*   Unsavable   [harm, loaded]: the reader takes it, its writer does not
            \*   MayLack     [saved, file]: a file cut like this is still whole
            \*   Trailed     [document, byte]: what its file and one more byte are read as
CONSTANT MaxPlaces  \* at so many places of a file, from its end, it is harmed
ASSUME MaxPlacesAssumption == MaxPlaces \in Nat \ {0}

VARIABLES
  fmt,     \* the codec in use
  doc,     \* the document to save
  file,    \* the file: its tokens
  harm,    \* what has happened to it: "none", "cut", "grown" or "altered"
  step,    \* "edit", "saved", "refused", "loaded", "unread" or "resaved"
  loaded,  \* what the reader made of the file
  again    \* the file made of what was loaded

vars == <<fmt, doc, file, harm, step, loaded, again>>

Nothing == <<>>

Init ==
  /\ fmt \in Formats
  /\ doc \in Codec.Docs[fmt]
  /\ file = Nothing
  /\ harm = "none"
  /\ step = "edit"
  /\ loaded = Nothing
  /\ again = Nothing

\* The writer validates the document and writes it out.
Save ==
  /\ step = "edit"
  /\ LET out == Codec.Encoded[fmt, Codec.Prepared[fmt, doc]]
     IN IF Codec.Valid[fmt, doc] /\ ~Refuses(out)
        THEN step' = "saved" /\ file' = out
        ELSE step' = "refused" /\ file' = file
  /\ UNCHANGED <<fmt, doc, harm, loaded, again>>

Unharmed == step = "saved" /\ harm = "none"

\* The file loses its end, gains a byte, or has one number or key changed.  A
\* byte gained is whatever the reader that comes to it takes a byte for.
HarmPlaces(f) == LET apart == (Len(f) - 1) \div MaxPlaces + 1 IN {p \in DOMAIN f : (Len(f) - p) % apart = 0}

Cut ==
  /\ Unharmed
  /\ \E p \in HarmPlaces(file) : file' = SubSeq(file, 1, p - 1)
  /\ harm' = "cut"
  /\ UNCHANGED <<fmt, doc, step, loaded, again>>

Grow ==
  /\ Unharmed
  /\ \/ file' = Append(file, Tok("byte", "more"))
     \/ \E number \in ByteNumbers : file' = Append(file, number)
  /\ harm' = "grown"
  /\ UNCHANGED <<fmt, doc, step, loaded, again>>

Alter ==
  /\ Unharmed
  /\ \E p \in HarmPlaces(file) : \E v \in Altered(file, p) : file' = [file EXCEPT ![p].v = v]
  /\ harm' = "altered"
  /\ UNCHANGED <<fmt, doc, step, loaded, again>>

Load ==
  /\ step = "saved"
  /\ LET r == Codec.Decoded[fmt, file]
     IN loaded' = IF r.st = "ok" /\ ~Codec.Accepts[fmt, r.doc] THEN Fail(r, "refused") ELSE r
  /\ step' = IF loaded'.st = "ok" THEN "loaded" ELSE "unread"
  /\ UNCHANGED <<fmt, doc, file, harm, again>>

\* The loaded document goes back to a file unchanged.
Resave ==
  /\ step = "loaded"
  /\ again' = IF Codec.Valid[fmt, loaded.doc] THEN Codec.Encoded[fmt, Codec.Prepared[fmt, loaded.doc]] ELSE <<Refusal>>
  /\ step' = "resaved"
  /\ UNCHANGED <<fmt, doc, file, harm, loaded>>

Next == Save \/ Cut \/ Grow \/ Alter \/ Load \/ Resave
Spec == Init /\ [][Next]_vars

(***************************************************************************)
(* What the codecs promise.                                                *)
(***************************************************************************)
\* Field by field: what a reader of the head alone finds is in the document.
Same(found, expected) == \A n \in DOMAIN expected : found[n] = expected[n]
Arrived == step \in {"loaded", "resaved"}

\* A document the writer accepts comes back from the file as it was: no
\* field is dropped, misplaced or taken from another, at any version.
RoundTrip ==
  step \in {"loaded", "unread", "resaved"} /\ harm = "none" =>
    Arrived /\ Same(loaded.doc, Codec.Settled[fmt, doc])

\* Damage to the length of a file is noticed: one that lost its end is refused,
\* never loaded with the rest at zero, and one with a byte too many is refused
\* or read as what its reader is to make of it: as if the byte were not there, by
\* those that stop at what they know, with the byte, by those that keep what
\* follows, or, an animation without flags, with the byte as the first of them
\* (anm.go:195).
LengthMatters ==
  Arrived => /\ harm = "cut" => Codec.MayLack[fmt, doc, file]
             /\ harm = "grown" => \E d \in Codec.Trailed[fmt, doc, Last(file)] : Same(loaded.doc, d)

\* What a reader accepts, however the file came to be, the writer accepts
\* too, and it writes the tokens that were read again, or, where the reader
\* knows more spellings than the writer, a file that is read as the same
\* document: a loaded document is never one its own codec cannot save or
\* would save as something else.
ResavedSame ==
  /\ step = "resaved" /\ harm \in {"none", "altered"}
  /\ ~Codec.MayLack[fmt, doc, file] /\ ~Codec.Unsavable[fmt, harm, loaded.doc]
  =>
    IF Codec.Reproduced[fmt, harm, doc, loaded.doc] THEN again = Spelled(SubSeq(file, 1, loaded.p - 1))
    ELSE LET r == Codec.Decoded[fmt, again]
         IN ~Refuses(again) /\ r.st = "ok" /\ Same(r.doc, Codec.Settled[fmt, loaded.doc])
=============================================================================
