------------------------------- MODULE Reader -------------------------------
(***************************************************************************)
(* The readers of the listing pages on their own, over every document.     *)
(***************************************************************************)
EXTENDS S3Page, AzurePage

Tokens == STRING \X STRING \X STRING

Root == IF service = "azure" THEN AzureRoot ELSE S3Root
Turn == S3Read \/ AzureRead

ReaderInit ==
  /\ service \in {"s3", "versions", "azure"}
  /\ \E doc \in Seq(Tokens), room \in Nat : reader = NewReader(doc, Root, room)
ReaderNext == Turn /\ UNCHANGED service
ReaderSpec == ReaderInit /\ [][ReaderNext]_<<reader, service>>

\* The cursor stands in the document or at its end, and every span of the entry
\* that is read is of what the cursor went past: the scanner has no bounds
\* checks of its own, and takes chunks by these offsets (the invariant that
\* xml/scan.rs states, and says is not proven).
SpanWithin(span, at) == span = NoSpan \/ (span[1] \in 0 .. at /\ span[2] \in span[1] .. at)
CursorInRange ==
  /\ reader.at \in 0 .. Len(reader.bytes)
  /\ \A field \in {"key", "size", "etag", "type", "resource"} :
       SpanWithin(reader.fields[field], reader.at)
  /\ \A name \in Wanted : SpanWithin(reader.fields.captured[name], reader.at)
=============================================================================
