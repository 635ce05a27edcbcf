------------------------------- MODULE Layout -------------------------------
(***************************************************************************)
(* What the operations of both services ask of the template engine: the    *)
(* layout of a request, as the sequence of Pass operations that s3::layout *)
(* and azure::layout perform for a description of the request.             *)
(*                                                                         *)
(* A text is a sequence of tokens.  A token stands for a run of bytes that *)
(* is never cut, such as a host or the name of a field.                    *)
(*                                                                         *)
(* A description d is a record:                                            *)
(*   service  "s3" or "azure"                                              *)
(*   key      the path ends in an object's key (else it names a bucket)    *)
(*   object   the template names its object, whose key is its own text     *)
(*   query    the query parameters, in order                               *)
(*   asked    the same as a request's pass runs with it, which may lack     *)
(*            fixed parameters that come before every optional one         *)
(*   fixed    the fields that every request sends alike                    *)
(*   filled   the fields that each request fills, in order, each by the    *)
(*            holes of its value                                           *)
(*   sha      the hole of x-amz-content-sha256, or NoHole (S3 only)        *)
(*   length   the hole of content-length, or NoHole                        *)
(*   md5      the hole of content-md5, or NoHole (S3 only)                 *)
(*   body     "none", "fixed" or "each"                                    *)
(*                                                                         *)
(* The values f of a request:                                              *)
(*   values    hole -> text, for the holes the request has a value for     *)
(*   params    optional hole -> raw text, empty for one that is left out   *)
(*   body      the text that Hole::Body writes                             *)
(*   writes    Fill::BODY: the fill writes a body                          *)
(*   known     Fill::body_len knows the length of that body                *)
(*   checksum  a checksum of the body was asked for                        *)
(***************************************************************************)
EXTENDS Naturals, Sequences, SequencesExt, TLC

NoHole == "none"

\* Section: the six sections of a table, in the order they are written.
OriginSection == 0
PathSection == 1
QuerySection == 2
HeadSection == 3
CanonicalSection == 4
BodySection == 5
Sections == 6

\* The operations of Pass.
Section(section) == [op |-> "section", section |-> section]
Text(text) == [op |-> "text", text |-> text]
Hole(hole) == [op |-> "hole", hole |-> hole]
Fields == [op |-> "fields"]
Param(param) == [op |-> "param", param |-> param]

\* ParamValue: a parameter that every request sends alike, one whose value
\* each request fills, and one that a request may leave out.
FixedParam(name, value) == [mode |-> "fixed", name |-> name, value |-> value, hole |-> NoHole]
HoleParam(name, hole) == [mode |-> "hole", name |-> name, value |-> <<>>, hole |-> hole]
OptionalParam(name, hole) == [mode |-> "optional", name |-> name, value |-> <<>>, hole |-> hole]

\* What a description and the values of a request may be.
Texts == Seq(STRING)
Params ==
  [mode : {"fixed", "hole", "optional"}, name : STRING, value : Texts, hole : STRING]
Describing ==
  [service : {"s3", "azure"}, key : BOOLEAN, object : BOOLEAN, query : Seq(Params),
   asked : Seq(Params), fixed : Texts, filled : Seq(Seq(STRING)), sha : STRING,
   length : STRING, md5 : STRING, body : {"none", "fixed", "each"}]
FillOf(f) ==
  /\ \A hole \in DOMAIN f.values : f.values[hole] \in Texts
  /\ \A hole \in DOMAIN f.params : f.params[hole] \in Texts
  /\ f.body \in Texts

\* One byte is percent-encoded as it is, or as three.
Percent(raw) ==
  FlattenSeq([n \in DOMAIN raw |-> IF raw[n] = " " THEN <<"%", "2", "0">> ELSE <<raw[n]>>])

UrlValues == {"Key", "Revision", "BlockId", "UploadId", "CopyId"}
Encoded == UrlValues \cup {"SourceKey", "SourceRevision"}
OptionalHoles == {"Prefix", "Marker", "StartAfter", "VersionMarker"}
HashPlaceholder == <<"0", "0">>
ChecksumPlaceholder == <<"=">>
SignaturePlaceholder == <<"0", "0">>
Decimal(n) == <<ToString(n)>>

\* HoleValues::param and HoleValues::write
LeftOut(hole, f) == hole \notin DOMAIN f.params \/ f.params[hole] = <<>>

ValueText(hole, f) ==
  CASE hole \in OptionalHoles -> Percent(f.params[hole])
    [] hole \in Encoded       -> Percent(f.values[hole])
    [] OTHER                  -> f.values[hole]

CRLF == <<"CR", "LF">>
HostText == <<"scheme", "host">>
ContainerText == <<"/", "container">>
ObjectKey == <<"object", " ">>
ScopeText == <<"scope">>
BodyText == <<"restore", "request">>

\* fixed_query
FixedQuery(query) == \A n \in DOMAIN query : query[n].mode = "fixed"

\* A URL that no request writes a value into is the template's text.
UrlFixed(d) == (d.object \/ ~d.key) /\ FixedQuery(d.query)

\* write_path: the path, with the template's own key if it names an object.
PathText(d) ==
  IF ~d.key THEN ContainerText
  ELSE IF d.object THEN ContainerText \o <<"/">> \o Percent(ObjectKey)
  ELSE ContainerText \o <<"/">>

\* write_fixed_query, with its `?` or without.
FixedQueryText(query, mark) ==
  FlattenSeq([n \in DOMAIN query |->
    (CASE n > 1 -> <<"&">> [] n = 1 /\ mark -> <<"?">> [] OTHER -> <<>>)
      \o <<query[n].name, "=">> \o query[n].value])

\* The value of a condition has one form as it is sent and one as S3 signs it.
SignedHole(hole) ==
  CASE hole = "Condition" -> "SignedCondition"
    [] hole = "SourceCondition" -> "SignedSourceCondition"
    [] OTHER -> hole

\* write_filled_fields, for the head and for the canonical request.  The source
\* of a copy is a key and its revision.
FieldValue(holes, signed) ==
  FlattenSeq([n \in DOMAIN holes |->
    (IF n > 1 THEN <<Text(<<"?revision=">>)>> ELSE <<>>)
      \o <<Hole(IF signed THEN SignedHole(holes[n]) ELSE holes[n])>>])

FilledFields(filled, signed) ==
  FlattenSeq([n \in DOMAIN filled |->
    <<Text(<<"name:">>)>> \o FieldValue(filled[n], signed)
      \o <<Text(IF signed THEN <<"LF">> ELSE CRLF)>>])

FieldOf(hole) ==
  IF hole = NoHole THEN <<>> ELSE <<Text(<<"name:">>), Hole(hole), Text(CRLF)>>

Target(d) ==
  IF UrlFixed(d)
    THEN Text(PathText(d) \o FixedQueryText(d.query, TRUE))
    ELSE Hole("Target")

\* The sections of the URL, which both services lay out alike.
UrlLayout(d) ==
  <<Text(HostText), Section(PathSection), Text(PathText(d))>>
    \o (IF d.key /\ ~d.object THEN <<Hole("Key")>> ELSE <<>>)
    \o <<Section(QuerySection)>>
    \o [n \in DOMAIN d.query |-> Param(d.query[n])]

\* Pass::body
BodyLayout(d) ==
  <<Section(BodySection)>>
    \o CASE d.body = "none" -> <<>>
         [] d.body = "fixed" -> <<Text(BodyText)>>
         [] d.body = "each" -> <<Hole("Body")>>

\* The head: the request line, the host, and the fields up to the empty line.
S3Head(d) ==
  <<Section(HeadSection), Text(<<"method">>), Target(d), Text(<<"host">>), Fields,
    Text(d.fixed \o <<"authorization">>), Hole("Day"),
    Text(ScopeText), Hole("Signature"), Text(CRLF)>>
    \o FilledFields(d.filled, FALSE) \o FieldOf(d.length) \o FieldOf(d.md5)
    \o <<Text(CRLF)>>

AzureHead(d) ==
  <<Section(HeadSection), Text(<<"method">>), Target(d), Text(<<"host">>), Fields,
    Text(<<"authorization">> \o d.fixed), Text(<<"name:">>), Hole("HttpTime"),
    Text(CRLF)>>
    \o FieldOf(d.length) \o FilledFields(d.filled, FALSE) \o <<Text(CRLF)>>

\* What S3 signs: the canonical request.
S3Canonical(d) ==
  <<Section(CanonicalSection), Text(<<"method">>)>>
    \o (IF UrlFixed(d)
          THEN <<Text(PathText(d) \o <<"LF">> \o FixedQueryText(d.query, FALSE))>>
          ELSE <<Hole("Path"), Text(<<"LF">>), Hole("Query")>>)
    \o <<Text(<<"LF">>)>> \o FilledFields(d.filled, TRUE)
    \o <<Text(d.fixed), Text(<<"names">>)>>
    \o (IF d.sha = NoHole THEN <<Text(<<"hash">>)>> ELSE <<Hole(d.sha)>>)

HeadLayout(d) == IF d.service = "s3" THEN S3Head(d) ELSE AzureHead(d)
SignedLayout(d) == IF d.service = "s3" THEN S3Canonical(d) ELSE <<>>

\* The layout from the head on.
AfterUrl(d) == HeadLayout(d) \o SignedLayout(d) \o BodyLayout(d)

LayoutOf(d) == UrlLayout(d) \o AfterUrl(d)

\* A request's pass leaves out parameters in a row that every request sends
\* alike, and no optional one comes before them.
AsksFor(query, asked) ==
  \E first, last \in 0..Len(query) :
    /\ first <= last
    /\ asked = SubSeq(query, 1, first) \o SubSeq(query, last + 1, Len(query))
    /\ \A n \in 1..first : query[n].mode # "optional"
    /\ \A n \in first + 1..last : query[n].mode = "fixed"

\* A parameter that a request may leave out has a hole of its own kind, which
\* no other operation has, and a separator is no operation's hole.
Proper(op) ==
  /\ op.op = "hole" => op.hole \notin OptionalHoles \cup {"Separator", NoHole}
  /\ op.op = "param" => /\ op.param.mode = "hole" => op.param.hole \in UrlValues
                        /\ op.param.mode = "optional" => op.param.hole \in OptionalHoles

=============================================================================
