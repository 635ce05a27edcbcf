----------------------------- MODULE AzurePage ------------------------------
(***************************************************************************)
(* The reader of an EnumerationResults document (xml/azure/mod.rs).  Each  *)
(* action is one turn of a loop of the reader.                             *)
(***************************************************************************)
EXTENDS Page

AzureRoot == "EnumerationResults"
AzureFields ==
  [Etag |-> "etag", Size |-> "size", Type |-> "type", Resource |-> "resource"]
AzureProperties == {"Metadata", "VersionId"}
WrittenEmpty == {"Metadata"}        \* those that the service also writes as <Name />

-----------------------------------------------------------------------------
(* The children of the root.                                               *)

Blobs(r, child) ==
  /\ Starts(child, {"Blobs"})
  /\ reader' = IF "Blobs" \in r.page.seen THEN Failed(r)
               ELSE [r EXCEPT !.at = child.at, !.page.seen = @ \cup {"Blobs"},
                              !.in = IF child.tag[1] = "empty" THEN "root" ELSE "blobs"]

Marker(r, child) ==
  LET read == Value(r.bytes, child.at, child.tag)
      text == SpanText(r.bytes, read.span)
  IN /\ Starts(child, {"NextMarker"})
     /\ reader' = IF ~ read.ok \/ "NextMarker" \in r.page.seen \/ Form(text) = "bad"
                  THEN Failed(r)
                  ELSE [r EXCEPT !.at = read.at, !.page.seen = @ \cup {"NextMarker"},
                                 !.page.marker = MarkerOf(text)]

AzureOther(r, child) ==
  LET past == Skip(r.bytes, child.at, child.tag)
  IN /\ ~ Ends(child) /\ ~ Starts(child, {"Blobs", "NextMarker"})
     /\ reader' = IF child.ok /\ past.ok THEN MoveTo(r, past.at) ELSE Failed(r)

AzureEnd(r, child) ==
  /\ Ends(child)
  /\ reader' = IF "Blobs" \notin r.page.seen THEN Failed(r)
               ELSE RoomChecked(MoveTo(r, child.at), r.page.marker)

-----------------------------------------------------------------------------
(* The children of Blobs: entries, and nothing else but whitespace.        *)

Blob(r) ==
  LET tag == Peek(r.bytes, 0)
  IN /\ StartsElement(tag)
     /\ reader' = IF tag[1] = "empty" \/ tag[2] \notin {"Blob", "BlobPrefix"} THEN Failed(r)
                  ELSE [r EXCEPT !.at = 1, !.name = tag[2], !.fields = NoFields,
                                 !.in = IF tag[2] = "Blob" THEN "object" ELSE "group"]

BlobsEnd(r) ==
  LET close == CloseTag(r.bytes, 0, "Blobs")
  IN /\ ~ StartsElement(Peek(r.bytes, 0))
     /\ reader' = IF close.ok THEN [r EXCEPT !.at = close.at, !.in = "root"] ELSE Failed(r)

-----------------------------------------------------------------------------
(* One entry.                                                              *)

IsDirectory(r) ==
  LET f == r.fields
  IN f.resource # NoSpan /\ TrimmedContent(SpanText(Chunk(r), f.resource)) = "directory"

AzureBad(r) ==
  LET chunk == Chunk(r)
      f == r.fields
  IN \/ f.key[1] = f.key[2] \/ BadSize(chunk, f.size)
     \/ f.size = NoSpan /\ r.in # "group" /\ ~ IsDirectory(r)
     \/ Undecodable(chunk, f.key, f.percent)
     \/ Undecodable(chunk, f.etag, FALSE) \/ Undecodable(chunk, f.type, FALSE)

AzureEntryOf(r) ==
  LET f == r.fields
      raw == DecodedAt(DecodedAt(DecodedAt(Chunk(r), f.key, f.percent), f.etag, FALSE),
                       f.type, FALSE)
      values == IF r.in = "group" THEN NoValues ELSE CapturedValues(raw, f.captured)
  IN [kind   |-> IF IsDirectory(r) THEN "Directory" ELSE r.name,
      key    |-> Spelled(raw, f.key),
      size   |-> IF IsDirectory(r) THEN Absent ELSE Spelled(Chunk(r), f.size),
      etag   |-> Spelled(raw, f.etag),
      values |-> IF "Type" \in Wanted THEN [values EXCEPT !["Type"] = Spelled(raw, f.type)]
                 ELSE values,
      raw    |-> raw]

AzureBuilt(r) ==
  [BuiltEntry(r, AzureBad(r), AzureEntryOf(r)) EXCEPT !.in = "blobs", !.name = "Blobs"]

\* read_name, for a group too.  A start tag as the service writes it for a name
\* that is not encoded has no attribute to read.
Name(child) ==
  LET named == SetField(reader, "key", Value(reader.bytes, child.at, child.tag))
  IN /\ Starts(child, {"Name"})
     /\ reader' = [named EXCEPT !.fields.percent = child.tag[3] = "encoded"]

\* read_properties of a blob, or of a group, which keeps none of them.
IsProperties(child) == Starts(child, {"Properties"}) /\ child.tag[1] = "open"
Properties(child) ==
  /\ IsProperties(child)
  /\ reader' = [MoveTo(reader, child.at) EXCEPT
                  !.in = IF @ = "object" THEN "properties" ELSE "groupProperties"]

\* read_known_element, or what a start tag of another spelling is read by.
KnownOrUnmatched(r, child) ==
  LET tag == child.tag
  IN IF tag[3] = "exact" /\ tag[2] \in AzureProperties
        /\ (tag[1] = "empty" => tag[2] \in WrittenEmpty)
     THEN IF tag[1] = "empty" THEN Kept(r, tag[2], Read(child.at, tag, <<0, 0>>))
          ELSE ReadMatched(r, child.at, tag)
     ELSE ReadUnmatched(r, child.at, tag,
                        IF r.in = "groupProperties" THEN {} ELSE Wanted)

AzureBeside(child) ==
  LET past == Skip(reader.bytes, child.at, child.tag)
  IN /\ child.ok /\ StartsElement(child.tag)
     /\ child.tag[2] # "Name" /\ ~ IsProperties(child)
     /\ reader' = IF reader.in = "object" THEN KnownOrUnmatched(reader, child)
                  ELSE IF past.ok THEN MoveTo(reader, past.at) ELSE Failed(reader)

AzureEntryEnd(child) ==
  /\ ~ (child.ok /\ StartsElement(child.tag))
  /\ reader' = IF ~ child.ok \/ reader.fields.key = NoSpan THEN Failed(reader)
               ELSE AzureBuilt(MoveTo(reader, child.at))

\* read_properties, one child.  The fields of a group's properties are read into
\* fields of their own, so a second of one of them is a fault there as well.
Property(child) ==
  LET name == child.tag[2]
  IN /\ child.ok /\ StartsElement(child.tag)
     /\ reader' = IF name \in DOMAIN AzureFields
                  THEN SetField(reader, AzureFields[name],
                                Value(reader.bytes, child.at, child.tag))
                  ELSE KnownOrUnmatched(reader, child)

NotOfAGroup(f) == [NoFields EXCEPT !.key = f.key, !.percent = f.percent]

PropertiesEnd(child) ==
  /\ ~ (child.ok /\ StartsElement(child.tag))
  /\ reader' = IF ~ child.ok THEN Failed(reader)
               ELSE IF reader.in = "properties" THEN [MoveTo(reader, child.at) EXCEPT !.in = "object"]
               ELSE [MoveTo(reader, child.at) EXCEPT !.in = "group", !.fields = NotOfAGroup(@)]

-----------------------------------------------------------------------------

AzureRead ==
  /\ Reading /\ service = "azure"
  /\ \/ /\ reader.in = "root"
        /\ \E r \in {AtChild(reader)} : \E child \in {Child(r.bytes, 0, AzureRoot)} :
             Blobs(r, child) \/ Marker(r, child) \/ AzureOther(r, child) \/ AzureEnd(r, child)
     \/ reader.in = "blobs" /\ \E r \in {AtChild(reader)} : Blob(r) \/ BlobsEnd(r)
     \/ /\ reader.in \in {"object", "group"}
        /\ \E child \in {Next1(reader.name)} :
             Name(child) \/ Properties(child) \/ AzureBeside(child) \/ AzureEntryEnd(child)
     \/ /\ reader.in \in {"properties", "groupProperties"}
        /\ \E child \in {Next1("Properties")} : Property(child) \/ PropertiesEnd(child)
=============================================================================
