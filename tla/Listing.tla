------------------------------- MODULE Listing ------------------------------
(***************************************************************************)
(* A listing that is followed from page to page: a caller that asks for    *)
(* what the last page named (list of curl_host.cc, list_all_keys of        *)
(* object-tests/src/listing.rs), the readers of the pages, and a service   *)
(* whose keys change between two pages.                                    *)
(***************************************************************************)
EXTENDS Reader, FiniteSets, SequencesExt

CONSTANTS
  Rooms,          \* how many entries the caller's first array holds
  PageSize,       \* how many keys the service goes past for a page
  MaxChanges,     \* how often a key appears or goes away
  Damaged         \* whether pages arrive damaged

VARIABLES
  present,        \* the places of the keys that there are
  always, ever,   \* history: those there have been all along, and at any time
  asked,          \* the marker that the caller asks for
  room, listed,   \* the caller's array, and what it was told so far
  phase,          \* "ask", "read", "done" or "failed"
  changes,
  doc, honest     \* the page as it arrived, and whether the service wrote it so

vars == <<reader, service, present, always, ever, asked, room, listed, phase, changes, doc, honest>>
listing == <<service, present, always, ever, asked, room, listed, phase, changes, doc, honest>>

T == INSTANCE Tree WITH Wants <- Wanted
W == INSTANCE Walk

-----------------------------------------------------------------------------
(* The service (external): its keys in order, and the page from a place.   *)

Item(key, version, kind, form) ==
  [key |-> key, version |-> version, kind |-> kind, form |-> form]
Items ==
  CASE service = "s3" ->
         <<Item("a", "", "Contents", "amp"), Item("b", "", "Contents", "pct"),
           Item("c", "", "CommonPrefixes", "pct"), Item("d", "", "Contents", "plain")>>
    [] service = "versions" ->
         <<Item("a", "2", "DeleteMarker", "pct"), Item("a", "1", "Version", "pct"),
           Item("b", "1", "Version", "amp"), Item("c", "", "CommonPrefixes", "plain")>>
    [] OTHER ->
         <<Item("a", "", "Blob", "amp"), Item("b", "", "Blob", "pct"),
           Item("c", "", "BlobPrefix", "pct"), Item("d", "", "Directory", "plain")>>
Places == 1 .. 4

Elem(name, form, content) == <<Open(name), Text(form, content), Close(name)>>
In(name, tokens) == <<Open(name)>> \o tokens \o <<Close(name)>>

\* What the service writes in another spelling, and with whitespace, when it is
\* not the first of the two.
Loose(style, token) ==
  IF style = "front" THEN <<token>>
  ELSE <<Space, IF token[1] \in {"open", "empty"} /\ token[3] = "exact"
                THEN <<token[1], token[2], "loose">> ELSE token>>

S3Object(item, style) ==
  In(item.kind,
     Elem("Key", item.form, item.key)
     \o (IF item.kind = "DeleteMarker" THEN <<>> ELSE Elem("Size", "spaced", "1"))
     \o Elem("ETag", "amp", "tag")
     \o (IF item.version = "" THEN <<>> ELSE Elem("VersionId", "plain", item.version))
     \o Loose(style, Open("Owner")) \o Elem("ID", "plain", "me") \o <<Close("Owner")>>)
S3Rendered(item, style) ==
  IF item.kind = "CommonPrefixes"
  THEN In(item.kind, Elem("Prefix", item.form, item.key)) ELSE S3Object(item, style)

AzureName(item) ==
  <<(<<"open", "Name", IF item.form = "pct" THEN "encoded" ELSE "exact">>),
    Text(item.form, item.key), Close("Name")>>
AzureRendered(item, style) ==
  IF item.kind = "BlobPrefix"
  THEN In(item.kind, AzureName(item)
          \o In("Properties", Elem("Etag", "plain", "tag") \o Elem("Resource", "plain", "directory")))
  ELSE In("Blob", AzureName(item)
          \o In("Properties",
                Elem("Etag", "plain", "tag") \o Elem("Type", "amp", "type")
                \o (IF item.kind = "Directory" THEN Elem("Resource", "plain", "directory")
                    ELSE Elem("Size", "plain", "2")))
          \o (IF style = "front" THEN <<Empty("Metadata")>>
              ELSE In("Metadata", Elem("Name", "plain", "pair")))
          \o <<Empty("OrMetadata")>>)

Rendered(item, style) ==
  IF service = "azure" THEN AzureRendered(item, style) ELSE S3Rendered(item, style)
Joined(places, style) ==
  FoldLeft(LAMBDA tokens, i : tokens \o Rendered(Items[i], style), <<>>, SetToSortSeq(places, <))

\* The next page starts after the last key that the service went past; Azure
\* names the key that it starts at.
NextPlace(last) ==
  CASE service = "s3" ->
         Elem("NextContinuationToken", "amp", Items[last].key)
    [] service = "versions" ->
         Elem("NextKeyMarker", Items[last].form, Items[last].key)
         \o (IF Items[last].version = "" THEN <<>>
             ELSE Elem("NextVersionIdMarker", "plain", Items[last].version))
    [] OTHER -> Elem("NextMarker", "plain", Items[last + 1].key)

S3Page1(places, last, style) ==
  LET more == last < Len(Items)
      encoding == Elem("EncodingType", "spaced", "url")
      truncated == Elem("IsTruncated", "plain", IF more THEN "true" ELSE "false")
      next == IF more THEN NextPlace(last)
              ELSE IF style = "front" THEN <<>> ELSE <<Empty(TokenName)>>
  IN In(S3Root,
        IF style = "front" THEN encoding \o truncated \o Joined(places, style) \o next
        ELSE <<Space, Comment>> \o Loose(style, Open("KeyCount")) \o <<Close("KeyCount")>>
             \o next \o Joined(places, style) \o <<Space>> \o encoding)

AzurePage1(places, last, style) ==
  In(AzureRoot,
     Loose(style, Open("Blobs")) \o Joined(places, style) \o <<Close("Blobs")>>
     \o (IF last < Len(Items) THEN NextPlace(last) ELSE <<Empty("NextMarker")>>))

PageFrom(start, last, style) ==
  LET places == {i \in start + 1 .. last : i \in present}
  IN IF service = "azure" THEN AzurePage1(places, last, style) ELSE S3Page1(places, last, style)

\* The place that a marker names: everything up to it has been listed.
PlaceOf(marker) ==
  LET named == {i \in Places : Items[i].key = marker.key}
  IN IF marker.key = "" THEN 0
     ELSE CASE service = "azure" -> (CHOOSE i \in named : TRUE) - 1
            [] service = "s3" -> CHOOSE i \in named : TRUE
            [] OTHER -> IF marker.version = ""
                        THEN CHOOSE i \in named : \A j \in named : j <= i
                        ELSE CHOOSE i \in named : Items[i].version = marker.version

-----------------------------------------------------------------------------
(* Damage: a page that is cut, that lost a token, or that something else   *)
(* got into.                                                               *)

Strays ==
  {<<Comment>>, <<CData>>, <<Empty("Extra")>>,
   In("Extra", In("Extra", In("Extra", <<>>))), In("Owner", In("Extra", In("Extra", <<>>))),
   Elem("Key", "bad", "z"), Elem("Name", "nul", "z"), Elem("Prefix", "plain", "z"),
   Elem("Size", "plain", "many"), Elem("VersionId", "plain", "9"),
   Elem("NextContinuationToken", "plain", "b"), Elem("NextMarker", "plain", "b")}

Damages(page) ==
  {SubSeq(page, 1, i) : i \in DOMAIN page}
    \cup {RemoveAt(page, i) : i \in DOMAIN page}
    \cup {SubSeq(page, 1, i) \o stray \o SubSeq(page, i + 1, Len(page)) :
            i \in DOMAIN page, stray \in Strays}

-----------------------------------------------------------------------------
(* The caller.                                                             *)

Start == [key |-> "", version |-> ""]

Init ==
  /\ service \in {"s3", "versions", "azure"}
  /\ present \in SUBSET Places
  /\ always = present /\ ever = present
  /\ asked = Start
  /\ room \in Rooms
  /\ listed = <<>>
  /\ phase = "ask"
  /\ changes = 0
  /\ doc = <<>> /\ honest = TRUE
  /\ reader = [NewReader(<<>>, "", 0) EXCEPT !.status = "page"]

\* A key appears, or goes away, between two pages.
Change(place) ==
  /\ phase = "ask" /\ asked # Start /\ changes < MaxChanges
  /\ changes' = changes + 1
  /\ present' = IF place \in present THEN present \ {place} ELSE present \cup {place}
  /\ always' = always \ {place}
  /\ ever' = ever \cup {place}
  /\ UNCHANGED <<reader, service, asked, room, listed, phase, doc, honest>>

Arrive(page, intact) ==
  /\ doc' = page /\ honest' = intact
  /\ reader' = NewReader(page, Root, room)
  /\ phase' = "read"
  /\ UNCHANGED <<service, present, always, ever, asked, room, listed, changes>>

Answer(size, style) ==
  LET start == PlaceOf(asked)
      last == IF start + size > Len(Items) THEN Len(Items) ELSE start + size
  IN /\ phase = "ask"
     /\ Arrive(PageFrom(start, last, style), TRUE)

\* The page of one entry arrives damaged.
AnswerDamaged(start, style) ==
  /\ Damaged /\ phase = "ask" /\ asked = Start /\ present = Places /\ changes = 0
  /\ \E page \in Damages(PageFrom(start, start + 1, style)) : Arrive(page, FALSE)

Read1 == phase = "read" /\ Turn /\ UNCHANGED listing

IdOf(entry) ==
  [key |-> entry.key[1][3],
   version |-> IF entry.values["VersionId"] = Absent THEN "" ELSE entry.values["VersionId"][1][3]]
Ids(out) == [i \in DOMAIN out |-> IdOf(out[i])]

ToMarker(page) ==
  [key |-> page.marker[1], version |-> IF page.version = Absent THEN "" ELSE page.version[1]]

\* The next request overwrites the page, so the marker is copied.
Took ==
  /\ phase = "read" /\ reader.status = "page"
  /\ listed' = IF honest THEN listed \o Ids(reader.out) ELSE listed
  /\ IF reader.page.marker = Absent \/ ~ honest
     THEN phase' = "done" /\ asked' = asked
     ELSE phase' = "ask" /\ asked' = ToMarker(reader.page)
  /\ UNCHANGED <<reader, service, present, always, ever, room, changes, doc, honest>>

\* The page that was read is no document any more: it is asked for again, with
\* the room that the refusal named.
Again ==
  /\ phase = "read" /\ reader.status = "capacity"
  /\ room' = reader.required
  /\ phase' = IF honest THEN "ask" ELSE "failed"
  /\ UNCHANGED <<reader, service, present, always, ever, asked, listed, changes, doc, honest>>

Refuse ==
  /\ phase = "read" /\ reader.status = "fault"
  /\ phase' = "failed"
  /\ UNCHANGED <<reader, service, present, always, ever, asked, room, listed, changes, doc, honest>>

Next ==
  \/ \E place \in Places : Change(place)
  \/ \E size \in 1 .. PageSize, style \in {"front", "back"} : Answer(size, style)
  \/ \E start \in {0, 2}, style \in {"front", "back"} : AnswerDamaged(start, style)
  \/ Read1
  \/ Took
  \/ Again
  \/ Refuse

\* The service answers, and the caller goes on.
Proceed ==
  \/ \E size \in 1 .. PageSize, style \in {"front", "back"} : Answer(size, style)
  \/ Read1 \/ Took \/ Again \/ Refuse
Fairness == WF_vars(Proceed)

Spec == Init /\ [][Next]_vars /\ Fairness

-----------------------------------------------------------------------------
(* Properties.                                                             *)

\* The reader, the markers and the places are of their types; what was built
\* fits the caller's array.
TypeOK ==
  /\ service \in {"s3", "versions", "azure"}
  /\ phase \in {"ask", "read", "done", "failed"}
  /\ reader.status \in {"reading", "page", "capacity", "fault"}
  /\ reader.in \in {"root", "blobs", "object", "group", "properties", "groupProperties"}
  /\ Len(reader.out) \in 0 .. reader.room /\ reader.page.held \in Len(reader.out) .. Len(doc)
  /\ always \subseteq present \cap ever /\ present \subseteq ever /\ ever \subseteq Places
  /\ asked.key \in {"", "a", "b", "c", "d"} /\ asked.version \in {"", "1", "2"}

Judged == phase = "read" /\ reader.status # "reading"

Told(entry) ==
  [kind |-> entry.kind, key |-> entry.key, size |-> entry.size, etag |-> entry.etag,
   values |-> entry.values]

\* A page that is read to its end says what the tree of its elements says: its
\* entries in order, each with the key, the fields and the wanted properties
\* of its own, and the marker.  What arrives damaged is refused, or it still
\* says that.
PageAsWritten ==
  (Judged /\ reader.status = "page") =>
    LET said == T!PageOf(service, doc)
    IN /\ Len(reader.out) = Len(said.entries)
       /\ \A i \in DOMAIN reader.out : Told(reader.out[i]) = said.entries[i]
       /\ reader.page.marker = said.marker /\ reader.page.version = said.version

\* An array that is too small is refused with the number of entries of the
\* page, and no array that holds the page is.
RoomIsExact ==
  Judged =>
    LET entries == Len(T!PageOf(service, doc).entries)
    IN /\ reader.status = "capacity" => entries > reader.room /\ reader.required = entries
       /\ reader.status = "page" => entries <= reader.room

\* What a service writes is read, whatever its spelling and order.
HonestPageIsRead == Judged /\ honest => reader.status # "fault"

\* The walk over an entry's bytes, which were decoded where they stand, tells
\* what the reader captured, as long as no comment stands in the entry: the
\* walk ends there.
WalkAgrees ==
  Judged => \A i \in DOMAIN reader.out :
    LET entry == reader.out[i]
    IN (entry.values # NoValues
        /\ \A j \in DOMAIN entry.raw : ~ Misc(entry.raw[j])) =>
         \E walked \in {W!Walked(entry.raw)} :
            /\ \A name \in Wanted : W!Told(walked, name) = entry.values[name]
            /\ W!Told(walked, IF service = "azure" THEN "Name" ELSE "Key") = entry.key

\* A listing that ends has told of every key that was there all along, once,
\* in order, and of none that never was.
IdAt(place) == [key |-> Items[place].key, version |-> Items[place].version]
EachKeyOnce ==
  phase \in {"ask", "done"} /\ honest =>
    LET Place(n) == CHOOSE i \in Places : IdAt(i) = listed[n]
    IN /\ \A n \in DOMAIN listed : Place(n) \in ever
       /\ \A m, n \in DOMAIN listed : m < n => Place(m) < Place(n)
       /\ phase = "done" => \A i \in always : \E n \in DOMAIN listed : Place(n) = i

\* A listing ends.
Ended == <>(phase \in {"done", "failed"})
=============================================================================
