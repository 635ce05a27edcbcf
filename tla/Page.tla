-------------------------------- MODULE Page --------------------------------
(***************************************************************************)
(* What the readers of both services' listing pages share (xml/page.rs):   *)
(* a page is read in one pass, an entry is decoded where it stands once    *)
(* its last byte was read, and what the page says of itself is judged at   *)
(* its end.                                                                *)
(***************************************************************************)
EXTENDS Scan

CONSTANT Wanted             \* the names of the properties that the caller asks for

VARIABLES
  service,                  \* whose page is read: "s3", "versions" or "azure"
  reader
(* reader.bytes   the tokens not yet handed out, and                        *)
(* reader.at      how many of them were read                                *)
(* reader.in      the element that is read: "root", "blobs", "object",      *)
(*                "group", "properties" or "groupProperties"               *)
(* reader.name    the name of the entry that is read                        *)
(* reader.fields  the spans of the entry's fields                           *)
(* reader.page    what the page said of itself                              *)
(* reader.out     the entries that were built, of at most reader.room       *)
(* reader.status  "reading", "page", "capacity" or "fault"                  *)

NoSpan == <<>>
Absent == <<"absent">>

NoFields ==
  [key |-> NoSpan, size |-> NoSpan, etag |-> NoSpan, type |-> NoSpan, resource |-> NoSpan,
   percent |-> FALSE, captured |-> [name \in Wanted |-> NoSpan]]

\* Nothing seen yet.
NoPage ==
  [held |-> 0, decoded |-> FALSE, seen |-> {}, encoded |-> FALSE, truncated |-> Absent,
   marker |-> Absent, version |-> Absent]

\* open_root_element, of a document without what may stand before its root.
NewReader(doc, root, room) ==
  LET opens == Peek(doc, 0)[1] = "open" /\ Peek(doc, 0)[2] = root
  IN [bytes |-> doc, at |-> IF opens THEN 1 ELSE 0, in |-> "root", name |-> root,
      fields |-> NoFields, page |-> NoPage, out |-> <<>>, room |-> room, required |-> 0,
      status |-> IF opens THEN "reading" ELSE "fault"]

Failed(r) == [r EXCEPT !.status = "fault"]
MoveTo(r, at) == [r EXCEPT !.at = at]

\* Scan::take, and the chunk that it returns.
Chunk(r) == SubSeq(r.bytes, 1, r.at)
\* Mutant: the cursor stays.
TakeStays(r) == [r EXCEPT !.bytes = SubSeq(@, r.at + 1, Len(@))]
Take(r) == [r EXCEPT !.bytes = SubSeq(@, r.at + 1, Len(@)), !.at = 0]

\* What both loops do before a child: the child then begins at offset zero.
AtChild(r) == Take(MoveTo(r, SkipSpace(r.bytes, r.at)))

-----------------------------------------------------------------------------
(* Fields and properties of an entry.                                      *)

\* set_once: a second one is a fault.
\* Mutant: a second one replaces the first.
SetFieldAgain(r, field, read) ==
  IF ~ read.ok THEN Failed(r) ELSE [r EXCEPT !.at = read.at, !.fields[field] = read.span]
SetField(r, field, read) ==
  IF ~ read.ok \/ r.fields[field] # NoSpan THEN Failed(r)
  ELSE [r EXCEPT !.at = read.at, !.fields[field] = read.span]

\* keep_value: the first one is kept.
Kept(r, name, read) ==
  IF ~ read.ok THEN Failed(r)
  ELSE IF name \in Wanted /\ r.fields.captured[name] = NoSpan
       THEN [r EXCEPT !.at = read.at, !.fields.captured[name] = read.span]
       ELSE MoveTo(r, read.at)

HoldsElements == {"Owner", "Metadata"}

\* read_matched: a start tag as the service writes it, wanted or not.
ReadMatched(r, at, tag) ==
  Kept(r, tag[2], IF tag[2] \in HoldsElements THEN Nested(r.bytes, at, tag[2])
                  ELSE Value(r.bytes, at, tag))

\* read_unmatched: any other start tag.
ReadUnmatched(r, at, tag, wanted) ==
  IF tag[2] \in wanted
  THEN Kept(r, tag[2], IF tag[2] \in HoldsElements /\ tag[1] # "empty"
                       THEN Nested(r.bytes, at, tag[2])
                       ELSE Value(r.bytes, at, tag))
  ELSE LET past == Skip(r.bytes, at, tag)
       IN IF past.ok THEN MoveTo(r, past.at) ELSE Failed(r)

-----------------------------------------------------------------------------
(* Decoding an entry in its own bytes.                                     *)

IsDecoded(form, percent) == form = "amp" \/ (percent /\ form \in {"pct", "nul"})

\* The bytes after what a span held was decoded in place.
DecodedAt(b, span, percent) ==
  IF span # NoSpan /\ span[1] < span[2] /\ IsDecoded(b[span[2]][2], percent)
  THEN [b EXCEPT ![span[2]] = Decoded(@)]
  ELSE b

\* Whether decoding is a fault: a reference that is none, or a zero byte in a
\* key.
Undecodable(b, span, percent) ==
  /\ span # NoSpan /\ span[1] < span[2]
  /\ \/ b[span[2]][2] = "bad"
     \/ percent /\ b[span[2]][2] = "nul"

Spelled(b, span) == IF span = NoSpan THEN Absent ELSE SpanText(b, span)

\* read_size: a decimal number, and nothing else.
Numbers == {"1", "2", "3"}
BadSize(b, span) == span # NoSpan /\ TrimmedContent(SpanText(b, span)) \notin Numbers

\* captured_values: the spans of the wanted properties, in the entry's bytes.
CapturedValues(b, captured) == [name \in Wanted |-> Spelled(b, captured[name])]
NoValues == [name \in Wanted |-> Absent]

\* An entry is taken off the body, and built while there is room.
\* Mutant: all are built.
BuiltEntryAll(r, bad, entry) ==
  IF bad THEN Failed(Take(r))
  ELSE [Take(r) EXCEPT !.page.held = @ + 1, !.fields = NoFields, !.out = Append(@, entry)]
BuiltEntry(r, bad, entry) ==
  LET taken == [Take(r) EXCEPT !.page.held = @ + 1, !.fields = NoFields]
  IN IF Len(r.out) >= r.room THEN taken
     ELSE IF bad THEN Failed(taken)
     ELSE [taken EXCEPT !.out = Append(@, entry)]

\* check_room, at the end of the page.
\* Mutant: what was built is held against the room.
RoomCheckedBuilt(r, marker) ==
  IF Len(r.out) > r.room THEN [r EXCEPT !.status = "capacity", !.required = r.page.held]
  ELSE [r EXCEPT !.status = "page", !.page.marker = marker]
RoomChecked(r, marker) ==
  IF r.page.held > r.room THEN [r EXCEPT !.status = "capacity", !.required = r.page.held]
  ELSE [r EXCEPT !.status = "page", !.page.marker = marker]

\* A marker is trimmed and undone its references; an empty one names no page.
\* Mutant: an empty marker names a page.
MarkerOfAny(text) == <<TrimmedContent(text)>>
MarkerOf(text) == IF TrimmedContent(text) = "" THEN Absent ELSE <<TrimmedContent(text)>>

Reading == reader.status = "reading"

\* What a child, as Child reads it, may be: one of the elements, or the end.
Starts(child, names) == child.ok /\ StartsElement(child.tag) /\ child.tag[2] \in names
Ends(child) == child.ok /\ ~ StartsElement(child.tag)

\* The next child of the element that is read, at its start.
Next1(parent) == Child(reader.bytes, reader.at, parent)
=============================================================================
