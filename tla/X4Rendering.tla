----------------------------- MODULE X4Rendering -----------------------------
(***************************************************************************)
(* What the X4 optimizer makes of an EPUB (represent/optimizer.py): which  *)
(* items of the package it drops, which members it converts, how it        *)
(* rewrites the package document, and the comparison of the spines by      *)
(* which it accepts the result.  RepresentationCache has the files and     *)
(* threads around it.                                                      *)
(*                                                                         *)
(* An edition is an archive with a package document: "members" are the     *)
(* archive's members and what is in them, "items" the entries of the       *)
(* manifest, "spine" the ids in reading order.  An id and a member may be  *)
(* named more than once, and an item may have no member.                   *)
(***************************************************************************)
EXTENDS Naturals, Sequences, SequencesExt, Selections

CONSTANTS
  ItemIds,      \* ids of manifest items
  ItemMembers,  \* archive members that items may name
  Editions      \* the sources

\* What the optimizer tells apart: fonts, sounds and films, pictures it may
\* convert, style sheets, and the rest, documents for the most part.
Types == {"document", "media", "image", "png", "css"}
Item == [id : ItemIds, member : ItemMembers, type : Types]

\* What is in a member: nothing if it is not there, the bytes of the source,
\* a picture converted, a style sheet without fonts.
Contents == {"absent", "source", "converted", "stripped"}

ASSUME EditionAssumption ==
  \A e \in Editions : /\ e.members \in [ItemMembers -> {"absent", "source"}]
                      /\ e.items \in Seq(Item)
                      /\ e.spine \in Seq(ItemIds)

VARIABLES
  source,       \* the edition at hand
  artifact,     \* what has been made of it
  rendering     \* how far the optimizer is

x4Vars == <<source, artifact, rendering>>

NoEdition == [members |-> [m \in ItemMembers |-> "absent"], items |-> <<>>, spine |-> <<>>]

X4TypeOK ==
  /\ source \in Editions \cup {NoEdition}
  /\ artifact.members \in [ItemMembers -> Contents]
  /\ artifact.items \in Seq(Item) /\ artifact.spine \in Seq(ItemIds)
  /\ rendering \in {"idle", "parsed", "written", "accepted", "refused"}

X4Init ==
  /\ source = NoEdition /\ artifact = NoEdition
  /\ rendering = "idle"

-----------------------------------------------------------------------------
(* The package document.                                                   *)

\* The item of an id: the last one that has it.
ItemOf(e, id) == SelectLastInSeq(e.items, LAMBDA item : item.id = id)

\* The members in reading order; an id without an item is passed over.
SpineMembers(e) ==
  LET known == Kept(e.spine, {id \in ItemIds : ItemOf(e, id) # 0}) IN
  [k \in DOMAIN known |-> e.items[ItemOf(e, known[k])].member]

\* _classify_item, of the item that the id stands for.
Classified(e, id, types) == ItemOf(e, id) # 0 /\ e.items[ItemOf(e, id)].type \in types

Dropped(e) == {id \in ItemIds : Classified(e, id, {"media"})}
DroppedMembers(e) == {item.member : item \in {i \in Range(e.items) : i.id \in Dropped(e)}}
StyleMembers(e) ==
  {item.member : item \in {i \in Range(e.items) : Classified(e, i.id, {"css"})}}

\* The item by which a member counts as a picture: again the last.
PictureOf(e, m) ==
  SelectLastInSeq(e.items, LAMBDA i : i.member = m /\ Classified(e, i.id, {"image", "png"}))

-----------------------------------------------------------------------------
(* The pipeline.                                                           *)

\* _locate_opf reads the container and the package document, or gives up.
Parse(e) ==
  /\ rendering = "idle"
  /\ source' = e
  /\ rendering' \in {"parsed", "refused"}
  /\ UNCHANGED artifact

\* What is written of a member; "decodable" are the pictures Pillow can
\* decode and that are not too large.
Converted(e, m, decodable) ==
  IF m \in DroppedMembers(e) \/ e.members[m] = "absent" THEN "absent"
  ELSE IF PictureOf(e, m) # 0 THEN IF m \in decodable THEN "converted" ELSE "source"
  ELSE IF m \in StyleMembers(e) THEN "stripped" ELSE "source"

\* The ids of the items whose pictures have been converted.
Reencoded(e, decodable) ==
  {e.items[PictureOf(e, m)].id : m \in {m \in ItemMembers :
     PictureOf(e, m) # 0 /\ Converted(e, m, decodable) = "converted"}}

\* _rewrite_opf: the tags of the dropped ids are cut, those of converted
\* pictures are given their new type.
Rewritten(e, reencoded) ==
  LET kept == Kept(e.items, {i \in Range(e.items) : i.id \notin Dropped(e)}) IN
  [k \in DOMAIN kept |-> IF kept[k].id \in reencoded THEN [kept[k] EXCEPT !.type = "png"] ELSE kept[k]]

\* The new archive is written.  A member too large to read, or a damaged
\* one, ends it.
WriteArchive(decodable) ==
  /\ rendering = "parsed"
  /\ \/ /\ artifact' = [members |-> [m \in ItemMembers |-> Converted(source, m, decodable)],
                        items |-> Rewritten(source, Reencoded(source, decodable)),
                        spine |-> source.spine]
        /\ rendering' = "written"
     \/ rendering' = "refused" /\ UNCHANGED artifact
  /\ UNCHANGED source

\* Mutant of SpineKept: as long is good enough.
SpineAsLong == Len(artifact.spine) = Len(source.spine)

SpineKept == SpineMembers(artifact) = SpineMembers(source)

\* _verify_spine opens the result as a reader would.
VerifySpine ==
  /\ rendering = "written"
  /\ rendering' = IF SpineKept THEN "accepted" ELSE "refused"
  /\ UNCHANGED <<source, artifact>>

\* generate keeps the artifact or removes it; another book is next.
NextEdition ==
  /\ rendering \in {"accepted", "refused"}
  /\ source' = NoEdition /\ artifact' = NoEdition /\ rendering' = "idle"

X4Next ==
  \/ \E e \in Editions : Parse(e)
  \/ \E decodable \in SUBSET ItemMembers : WriteArchive(decodable)
  \/ VerifySpine \/ NextEdition

X4Spec == X4Init /\ [][X4Next]_x4Vars

-----------------------------------------------------------------------------
(* Properties.                                                             *)

\* No other item has the id or the member of this one.
Distinct(item) ==
  \A k, l \in DOMAIN source.items : k # l /\ source.items[k].member = item.member =>
    source.items[l].id # source.items[k].id /\ source.items[l].member # item.member

\* Items of two ids name the member, and one of these ids an item has that is
\* a font, a sound or a film.
Contended(m) ==
  \E k, l, n \in DOMAIN source.items :
    /\ source.items[k].member = m /\ source.items[l].member = m
    /\ source.items[k].id # source.items[l].id
    /\ source.items[n].id = source.items[l].id /\ source.items[n].type = "media"

\* An artifact that is accepted has all that a locator can point at: the
\* spine leads to the members it led to, and each of them is there if it was,
\* unless an item of another id shares it that may be a font.  And what is
\* declared of a member that one item names, and no other of its id, is what is
\* in it: the bytes it had unless it is a picture or a style sheet.
LocatorsSurvive ==
  rendering = "accepted" =>
    /\ SpineMembers(artifact) = SpineMembers(source)
    /\ \A m \in Range(SpineMembers(source)) :
         (artifact.members[m] = "absent" <=> source.members[m] = "absent") \/ Contended(m)
    /\ \A item \in Range(artifact.items) : Distinct(item) =>
         LET now == artifact.members[item.member] IN
         /\ item.type = "document" => now \in {"source", "absent"}
         /\ now = "converted" => item.type = "png"
         /\ item \notin Range(source.items) => now = "converted"
=============================================================================
