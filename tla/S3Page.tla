------------------------------- MODULE S3Page -------------------------------
(***************************************************************************)
(* The reader of a ListBucketResult and of a ListVersionsResult            *)
(* (xml/s3/mod.rs).  Each action is one turn of a loop of the reader.      *)
(***************************************************************************)
EXTENDS Page

S3Root == IF service = "versions" THEN "ListVersionsResult" ELSE "ListBucketResult"
S3Entries == IF service = "versions" THEN {"Version", "DeleteMarker"} ELSE {"Contents"}
S3EntryTags == {"Contents", "CommonPrefixes", "Version", "DeleteMarker"}
S3Fields == [Key |-> "key", Size |-> "size", ETag |-> "etag"]
S3Properties == {"Owner", "VersionId"}

-----------------------------------------------------------------------------
(* The children of the root.                                               *)


\* A comment before a child is taken off on its own.
S3Misc(r) ==
  /\ Misc(Peek(r.bytes, 0))
  /\ reader' = MoveTo(r, 1)

S3Entry(r, child) ==
  /\ Starts(child, S3Entries \cup {"CommonPrefixes"})
  /\ reader' = IF child.tag[1] = "empty" THEN Failed(r)
               ELSE [r EXCEPT !.at = child.at, !.name = child.tag[2], !.fields = NoFields,
                              !.in = IF child.tag[2] = "CommonPrefixes" THEN "group"
                                     ELSE "object"]

\* A child of the page that says something of it: at most one of each.
Once(r, name, read, then) ==
  IF name \in r.page.seen \/ ~ read.ok THEN Failed(r)
  ELSE [then EXCEPT !.at = read.at, !.page.seen = @ \cup {name}]

Encoding(r, child) ==
  LET read == Value(r.bytes, child.at, child.tag)
  IN /\ Starts(child, {"EncodingType"})
     /\ reader' = IF read.ok /\ TrimmedContent(SpanText(r.bytes, read.span)) # "url"
                  THEN Failed(r)
                  ELSE Once(r, "EncodingType", read, [r EXCEPT !.page.encoded = TRUE])

Truncated(r, child) ==
  LET read == Value(r.bytes, child.at, child.tag)
      said == TrimmedContent(SpanText(r.bytes, read.span))
  IN /\ Starts(child, {"IsTruncated"})
     /\ reader' = IF read.ok /\ said \notin {"true", "false"} THEN Failed(r)
                  ELSE Once(r, "IsTruncated", read, [r EXCEPT !.page.truncated = <<said>>])

\* A key marker is a key, URL-encoded as keys are and kept with its spaces; the
\* other markers are only escaped.
KeyMarkerOf(text) == IF IsEmpty(text) THEN Absent ELSE <<text[1][3]>>

TokenName == IF service = "versions" THEN "NextKeyMarker" ELSE "NextContinuationToken"
Token(r, child) ==
  LET read == Value(r.bytes, child.at, child.tag)
      text == SpanText(r.bytes, read.span)
      form == Form(text)
  IN /\ Starts(child, {TokenName})
     /\ reader' =
          IF read.ok /\ form = "bad" THEN Failed(r)
          ELSE IF service = "versions"
          THEN Once(r, TokenName, read,
                    [r EXCEPT !.page.marker = KeyMarkerOf(text),
                              !.page.decoded = @ \/ form \in {"pct", "nul"}])
          ELSE Once(r, TokenName, read, [r EXCEPT !.page.marker = MarkerOf(text)])

VersionToken(r, child) ==
  LET read == Value(r.bytes, child.at, child.tag)
      text == SpanText(r.bytes, read.span)
  IN /\ service = "versions" /\ Starts(child, {"NextVersionIdMarker"})
     /\ reader' = IF read.ok /\ Form(text) = "bad" THEN Failed(r)
                  ELSE Once(r, "NextVersionIdMarker", read,
                            [r EXCEPT !.page.version = MarkerOf(text)])

PageElements ==
  {"EncodingType", "IsTruncated", TokenName}
    \cup (IF service = "versions" THEN {"NextVersionIdMarker"} ELSE {})

\* The echoed request values and the counts.  The entries of the other kind of
\* page are skipped too, unless they are empty.
S3Other(r, child) ==
  LET past == Skip(r.bytes, child.at, child.tag)
  IN /\ child.ok => StartsElement(child.tag)
     /\ ~ Starts(child, S3Entries \cup {"CommonPrefixes"} \cup PageElements)
     /\ reader' = IF child.ok /\ past.ok
                       /\ ~ (child.tag[1] = "empty" /\ child.tag[2] \in S3EntryTags)
                  THEN MoveTo(r, past.at) ELSE Failed(r)

\* finish_listing: the encoding, then the room, then the marker.
Contradicts(page) ==
  \/ page.truncated # Absent /\ (page.truncated = <<"true">>) # (page.marker # Absent)
  \/ page.version # Absent /\ page.marker = Absent
FinishListing(r) ==
  IF r.page.decoded /\ ~ r.page.encoded THEN Failed(r)
  ELSE IF r.page.held <= r.room /\ Contradicts(r.page) THEN Failed(r)
  ELSE RoomChecked(r, r.page.marker)

S3End(r, child) ==
  /\ Ends(child)
  /\ reader' = FinishListing(MoveTo(r, child.at))

-----------------------------------------------------------------------------
(* One entry.                                                              *)

\* The key is URL-decoded whether or not the page has said yet that it is
\* encoded.
S3Key(b, span) == Spelled(DecodedAt(b, span, TRUE), span)

\* An entry without a key, or with what is no number or cannot be decoded.
S3Bad(r) ==
  LET chunk == Chunk(r)
      f == r.fields
  IN \/ f.key[1] = f.key[2] \/ BadSize(chunk, f.size)
     \/ Undecodable(chunk, f.key, TRUE) \/ Undecodable(chunk, f.etag, FALSE)

S3EntryOf(r) ==
  LET chunk == Chunk(r)
      f == r.fields
      raw == DecodedAt(DecodedAt(chunk, f.key, TRUE), f.etag, FALSE)
  IN [kind   |-> r.name,
      key    |-> S3Key(chunk, f.key),
      size   |-> Spelled(chunk, f.size),
      etag   |-> Spelled(raw, f.etag),
      values |-> IF r.in = "group" THEN NoValues ELSE CapturedValues(raw, f.captured),
      raw    |-> raw]

\* Only what is built says that the page's keys are encoded.
KeyChanged(r) ==
  /\ Len(r.out) < r.room
  /\ Form(SpanText(Chunk(r), r.fields.key)) \in {"pct", "nul"}

S3Built(r) ==
  [BuiltEntry(r, S3Bad(r), S3EntryOf(r)) EXCEPT
     !.in = "root", !.name = S3Root, !.page.decoded = @ \/ KeyChanged(r)]

\* read_object, one child.
S3ObjectField(child) ==
  /\ Starts(child, DOMAIN S3Fields)
  /\ reader' = SetField(reader, S3Fields[child.tag[2]],
                        Value(reader.bytes, child.at, child.tag))

S3ObjectProperty(child) ==
  /\ ~ Ends(child) /\ ~ Starts(child, DOMAIN S3Fields)
  /\ reader' = IF ~ child.ok THEN Failed(reader)
               ELSE IF /\ child.tag[1] = "open" /\ child.tag[3] = "exact"
                       /\ child.tag[2] \in S3Properties
               THEN ReadMatched(reader, child.at, child.tag)
               ELSE ReadUnmatched(reader, child.at, child.tag, Wanted)

S3ObjectEnd(child) ==
  LET f == reader.fields
  IN /\ Ends(child)
     /\ reader' = IF f.key = NoSpan \/ (f.size = NoSpan) # (reader.name = "DeleteMarker")
                  THEN Failed(reader) ELSE S3Built(MoveTo(reader, child.at))

\* read_group, one child.
S3GroupChild(child) ==
  LET past == Skip(reader.bytes, child.at, child.tag)
  IN /\ ~ Ends(child)
     /\ reader' = IF ~ child.ok THEN Failed(reader)
                  ELSE IF child.tag[2] = "Prefix"
                  THEN SetField(reader, "key", Value(reader.bytes, child.at, child.tag))
                  ELSE IF past.ok THEN MoveTo(reader, past.at) ELSE Failed(reader)

S3GroupEnd(child) ==
  /\ Ends(child)
  /\ reader' = IF reader.fields.key = NoSpan THEN Failed(reader)
               ELSE S3Built(MoveTo(reader, child.at))

-----------------------------------------------------------------------------

S3OfRoot(r, child) ==
  \/ S3Entry(r, child) \/ Encoding(r, child) \/ Truncated(r, child) \/ Token(r, child)
  \/ VersionToken(r, child) \/ S3Other(r, child) \/ S3End(r, child)

S3Read ==
  /\ Reading /\ service # "azure"
  /\ \/ reader.in = "root" /\ \E r \in {AtChild(reader)} :
           \/ S3Misc(r)
           \/ ~ Misc(Peek(r.bytes, 0)) /\ \E child \in {Child(r.bytes, 0, S3Root)} : S3OfRoot(r, child)
     \/ reader.in = "object" /\ \E child \in {Next1(reader.name)} :
           S3ObjectField(child) \/ S3ObjectProperty(child) \/ S3ObjectEnd(child)
     \/ reader.in = "group" /\ \E child \in {Next1(reader.name)} :
           S3GroupChild(child) \/ S3GroupEnd(child)
=============================================================================
