----------------------------- MODULE MCTemplate -----------------------------
(***************************************************************************)
(* Templates for TLC: one description for each shape that the operations   *)
(* of the two services give a request, and for each the requests that fill *)
(* it with plain and with escaped values, with and without the parameters  *)
(* that a request may leave out.                                           *)
(***************************************************************************)
EXTENDS Template

Plain ==
  [service |-> "s3", key |-> TRUE, object |-> FALSE, query |-> <<>>, asked |-> <<>>,
   fixed |-> <<"meta">>, filled |-> <<<<"IsoTime">>>>, sha |-> NoHole, length |-> NoHole,
   md5 |-> NoHole, body |-> "none"]

PlainAzure == [Plain EXCEPT !.service = "azure", !.filled = <<>>]

WithQuery(d, query, asked) == [d EXCEPT !.query = query, !.asked = asked]

UploadId == HoleParam("uploadId", "UploadId")
MaxParts == FixedParam("max-parts", <<"7">>)
PartsMarker == OptionalParam("part-number-marker", "Marker")
Encoding == FixedParam("encoding-type", <<"url">>)
ListType == FixedParam("list-type", <<"2">>)

\* S3: reads and writes of an object, and of the template's own.
Get == WithQuery([Plain EXCEPT !.filled = <<<<"Condition">>, <<"Range">>, <<"IsoTime">>>>],
                 <<HoleParam("versionId", "Revision")>>, <<HoleParam("versionId", "Revision")>>)
GetObject == [Plain EXCEPT !.object = TRUE, !.filled = <<<<"Range">>, <<"IsoTime">>>>]
PutObject == [Plain EXCEPT !.object = TRUE, !.length = "ContentLength", !.sha = "PayloadHash",
                           !.filled = <<<<"Checksum">>, <<"PayloadHash">>, <<"IsoTime">>>>]
Copy == [Plain EXCEPT !.filled = <<<<"SourceKey", "SourceRevision">>, <<"SourceCondition">>,
                                   <<"IsoTime">>>>]

\* S3: pages of a listing, of versions and of parts.
List ==
  LET query == <<OptionalParam("continuation-token", "Marker"), Encoding, ListType,
                 OptionalParam("prefix", "Prefix"), OptionalParam("start-after", "StartAfter")>>
  IN  WithQuery([Plain EXCEPT !.key = FALSE], query, query)
Versions ==
  LET query == <<Encoding, OptionalParam("key-marker", "Marker"), MaxParts,
                 OptionalParam("version-id-marker", "VersionMarker"),
                 FixedParam("versions", <<>>)>>
  IN  WithQuery([Plain EXCEPT !.key = FALSE], query, query)
ListParts == WithQuery(Plain, <<MaxParts, PartsMarker, UploadId>>, <<PartsMarker, UploadId>>)

\* S3: requests whose body this crate writes, or the template holds.
Bodied(d) == [d EXCEPT !.sha = "BodyHash", !.length = "BodyLength",
                       !.filled = <<<<"BodyChecksum">>, <<"BodyHash">>, <<"IsoTime">>>>]
Commit == [Bodied(WithQuery(Plain, <<UploadId>>, <<UploadId>>)) EXCEPT !.body = "each"]
DeleteMany ==
  LET query == <<FixedParam("delete", <<>>)>>
  IN  [Bodied(WithQuery(Plain, query, query))
         EXCEPT !.key = FALSE, !.body = "each", !.md5 = "BodyChecksum",
                !.filled = <<<<"BodyHash">>, <<"IsoTime">>>>]
Restore == [Bodied(WithQuery(Plain, <<FixedParam("restore", <<>>)>>,
                             <<FixedParam("restore", <<>>)>>))
              EXCEPT !.body = "fixed"]

\* Azure
AzureGet == [PlainAzure EXCEPT !.filled = <<<<"Range">>, <<"Condition">>>>]
AzureGetObject == [AzureGet EXCEPT !.object = TRUE]
AzureStage ==
  LET query == <<FixedParam("comp", <<"block">>), HoleParam("blockid", "BlockId")>>
  IN  [WithQuery(PlainAzure, query, query) EXCEPT !.length = "ContentLength"]
AzureCommit ==
  LET query == <<FixedParam("comp", <<"blocklist">>)>>
  IN  [WithQuery(PlainAzure, query, query)
         EXCEPT !.length = "BodyLength", !.body = "each", !.filled = <<<<"Condition">>>>]
AzureList ==
  LET kept == <<FixedParam("restype", <<"container">>), FixedParam("comp", <<"list">>)>>
      paged == <<OptionalParam("prefix", "Prefix"), OptionalParam("marker", "Marker")>>
  IN  WithQuery([PlainAzure EXCEPT !.key = FALSE],
                kept \o <<FixedParam("maxresults", <<"7">>)>> \o paged, kept \o paged)

MCDescriptions ==
  {Get, GetObject, PutObject, Copy, List, Versions, ListParts, Commit, DeleteMany, Restore,
   AzureGet, AzureGetObject, AzureStage, AzureCommit, AzureList}

-----------------------------------------------------------------------------

FieldHoles(d) == UNION {Range(d.filled[n]) : n \in DOMAIN d.filled}
QueryHoles(d, mode) == {p.hole : p \in {q \in Range(d.query) : q.mode = mode}}

\* The value of each hole, short, or long and mostly escaped.  S3 signs a condition in its own form.
TextFor(hole, long) ==
  IF hole \in Encoded /\ long THEN <<hole, " ", " ", " ", " ">> ELSE <<hole>>

ValueHoles(d) ==
  (FieldHoles(d) \cup {SignedHole(hole) : hole \in FieldHoles(d)} \cup QueryHoles(d, "hole")
     \cup {d.length, "Day", "HttpTime"}
     \cup (IF d.key /\ ~d.object THEN {"Key"} ELSE {}))
  \ {NoHole, "BodyLength", "BodyHash", "BodyChecksum"}

Fills(d) ==
  {[values |-> [hole \in ValueHoles(d) |-> TextFor(hole, long)],
    params |-> [hole \in QueryHoles(d, "optional") |->
                  IF hole \in present THEN <<hole, " ">> ELSE <<>>],
    body |-> IF d.body = "each" THEN <<"item", "item", "end">> ELSE <<>>,
    writes |-> d.body = "each", known |-> known, checksum |-> TRUE] :
     long \in BOOLEAN, present \in SUBSET QueryHoles(d, "optional"),
     known \in IF d.body = "each" THEN BOOLEAN ELSE {TRUE}}

\* A template of one object takes its own key or none; another key is refused.
Keys(d, f) ==
  CASE ~d.key   -> {<<>>}
    [] d.object -> {<<>>, ObjectKey, <<"other">>}
    [] OTHER    -> {f.values["Key"]}

MCRequests(d) == UNION {{[key |-> key, fill |-> f] : key \in Keys(d, f)} : f \in Fills(d)}

\* Text read as a step: no hole, a hole of this request's or of another's, and
\* a run past the text.
MCJunk ==
  {[len |-> 1, hole |-> "Query", name |-> 0, ends |-> {BodySection, OriginSection}],
   [len |-> 0, hole |-> NoHole, name |-> 9, ends |-> {PathSection}],
   [len |-> 90, hole |-> "Target", name |-> 0, ends |-> {}]}
=============================================================================
