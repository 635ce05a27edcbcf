-------------------------------- MODULE Tree --------------------------------
(***************************************************************************)
(* What a page of a listing says, read off the tree of its elements: the   *)
(* reference that the readers, which build no tree, are held against.  It  *)
(* is meant for a document that a reader accepted.                         *)
(***************************************************************************)
EXTENDS Integers, Sequences, FiniteSets, SequencesExt

CONSTANT Wants              \* the names of the wanted properties

None == <<"absent">>

\* How many elements are open after each token.
Balance(doc) ==
  LET Step(depths, token) ==
        Append(depths, (IF depths = <<>> THEN 0 ELSE depths[Len(depths)])
                       + CASE token[1] = "open" -> 1 [] token[1] = "close" -> -1 [] OTHER -> 0)
  IN FoldLeft(Step, <<>>, doc)

\* An element's close tag, its children and what it holds.
MatchOf(bal, i) == CHOOSE j \in DOMAIN bal :
  j > i /\ bal[j] = bal[i] - 1 /\ \A k \in i .. j - 1 : bal[k] >= bal[i]

Children(doc, bal, i) ==
  IF doc[i][1] = "empty" THEN {}
  ELSE {j \in i + 1 .. MatchOf(bal, i) - 1 :
          \/ doc[j][1] = "open" /\ bal[j] = bal[i] + 1
          \/ doc[j][1] = "empty" /\ bal[j] = bal[i]}

Named(doc, bal, parents, name) ==
  {j \in UNION {Children(doc, bal, i) : i \in parents} : doc[j][2] = name}

InOrder(indices) == SetToSortSeq(indices, <)
FirstOf(indices) == CHOOSE i \in indices : \A j \in indices : i <= j

Content(doc, bal, i) ==
  IF doc[i][1] = "empty" THEN <<>> ELSE SubSeq(doc, i + 1, MatchOf(bal, i) - 1)

\* The text of an element after its references, and its percent-encoding, were
\* undone.
Undone(text, percent) ==
  IF text # <<>> /\ (text[1][2] = "amp" \/ (percent /\ text[1][2] \in {"pct", "nul"}))
  THEN <<(<<"decoded", text[1][2], text[1][3]>>)>>
  ELSE text

ValueOf(doc, bal, found, percent) ==
  IF found = {} THEN None ELSE Undone(Content(doc, bal, FirstOf(found)), percent)

Trimmed(value) ==
  IF value = None \/ value = <<>> \/ value[1][3] = "" THEN None ELSE <<value[1][3]>>

-----------------------------------------------------------------------------
(* An entry, from the element that it stands in.                           *)

S3Kinds == {"Contents", "Version", "DeleteMarker", "CommonPrefixes"}

S3EntryOf(doc, bal, i) ==
  LET Of(name) == Named(doc, bal, {i}, name)
      group == doc[i][2] = "CommonPrefixes"
  IN [kind |-> doc[i][2],
      key  |-> ValueOf(doc, bal, Of(IF group THEN "Prefix" ELSE "Key"), TRUE),
      size |-> IF group THEN None ELSE ValueOf(doc, bal, Of("Size"), FALSE),
      etag |-> IF group THEN None ELSE ValueOf(doc, bal, Of("ETag"), FALSE),
      values |-> [name \in Wants |->
                    IF group \/ Of(name) = {} THEN None
                    ELSE Content(doc, bal, FirstOf(Of(name)))]]

AzureEntryOf(doc, bal, i) ==
  LET beside == Children(doc, bal, i)
      properties == Named(doc, bal, Named(doc, bal, {i}, "Properties"), "Size")
      Inside(name) == Named(doc, bal, Named(doc, bal, {i}, "Properties"), name)
      name == Named(doc, bal, {i}, "Name")
      encoded == name # {} /\ doc[FirstOf(name)][3] = "encoded"
      group == doc[i][2] = "BlobPrefix"
      directory == /\ ~ group /\ Inside("Resource") # {}
                   /\ Trimmed(ValueOf(doc, bal, Inside("Resource"), FALSE)) = <<"directory">>
      Either(p) == Inside(p) \cup {j \in beside : doc[j][2] = p}
  IN [kind |-> IF directory THEN "Directory" ELSE doc[i][2],
      key  |-> ValueOf(doc, bal, name, encoded),
      size |-> IF group \/ directory THEN None ELSE ValueOf(doc, bal, properties, FALSE),
      etag |-> IF group THEN None ELSE ValueOf(doc, bal, Inside("Etag"), FALSE),
      values |-> [p \in Wants |->
                    IF group THEN None
                    ELSE IF p = "Type" THEN ValueOf(doc, bal, Inside("Type"), FALSE)
                    ELSE IF Either(p) = {} THEN None
                    ELSE Content(doc, bal, FirstOf(Either(p)))]]

-----------------------------------------------------------------------------
(* A page.                                                                 *)

PageOf(service, doc) ==
  LET bal == Balance(doc)
      At(names) == {j \in Children(doc, bal, 1) : doc[j][2] \in names}
      kinds == CASE service = "s3" -> {"Contents", "CommonPrefixes"}
                 [] service = "versions" -> {"Version", "DeleteMarker", "CommonPrefixes"}
                 [] OTHER -> {}
      entries == IF service = "azure"
                 THEN UNION {Children(doc, bal, i) : i \in At({"Blobs"})}
                 ELSE At(kinds)
      Of(i) == IF service = "azure" THEN AzureEntryOf(doc, bal, i) ELSE S3EntryOf(doc, bal, i)
      order == InOrder(entries)
      Text(name) == Trimmed(ValueOf(doc, bal, At({name}), FALSE))
  IN [entries |-> [n \in DOMAIN order |-> Of(order[n])],
      marker  |-> Text(CASE service = "azure" -> "NextMarker"
                         [] service = "s3"    -> "NextContinuationToken"
                         [] OTHER             -> "NextKeyMarker"),
      version |-> IF service = "versions" THEN Text("NextVersionIdMarker") ELSE None,
      encoded |-> At({"EncodingType"}) # {}]
=============================================================================
