-------------------------------- MODULE Parts -------------------------------
(***************************************************************************)
(* Uploads in parts: what S3 (s3/parts.rs) and Azure (azure/blocks.rs) are *)
(* asked, what their answers are read as, and the pages and lists that     *)
(* name the parts of an upload (xml/s3/parts.rs, xml/azure/blocks.rs).  A  *)
(* part is known by its number: the ID of a block is the base64 of it,     *)
(* number 0 the empty ID, and a number past MaxParts an ID of more than 64 *)
(* bytes.  A document is a sequence of elements, each of text or of        *)
(* elements.                                                               *)
(***************************************************************************)
EXTENDS Naturals, Sequences, SequencesExt, Selection

CONSTANTS
  MaxParts,     \* the highest number of a part of AWS, 10000
  MaxBlocks,    \* how many blocks a commit of Azure may name, 50000
  MaxNumber,    \* the highest number that a u32 holds
  Digits        \* the text of each number of a part

None == "none"
TooLong == "tooLong"           \* content past MAX_PART_LEN and MAX_STAGE_LEN
Unreadable == MaxNumber + 1    \* text that is no number, or none of a u32

\* The texts of two numbers differ, and none is empty.
ASSUME DigitsAssumption ==
  /\ MaxParts \in Nat /\ MaxNumber \in Nat \ {0} /\ MaxParts <= MaxNumber
  /\ 1 .. MaxParts \subseteq DOMAIN Digits
  /\ \A n \in 1 .. MaxParts : Digits[n] \notin {"", None}
  /\ \A m, n \in 1 .. MaxParts : Digits[m] = Digits[n] => m = n

NumberOf(text) == CHOOSE n \in 1 .. MaxParts : Digits[n] = text

IsAws(service) == service \in {"aws", "directory"}

-----------------------------------------------------------------------------
(* Documents.                                                              *)

Elem(name, value) == <<name, value>>
Doc(root, children) == [root |-> root, children |-> children]
NoDoc == Doc("", <<>>)

ValuesOf(children, name) ==
  Selected([i \in DOMAIN children |-> children[i][2]],
           {i \in DOMAIN children : children[i][1] = name})

\* set_once
Once(children, names) == \A name \in names : Len(ValuesOf(children, name)) <= 1

-----------------------------------------------------------------------------
(* Requests.                                                               *)

Blank == [op |-> "idle", number |-> 0, content |-> None, list |-> <<>>, condition |-> "none",
          marker |-> None, size |-> 0]
Refusal(why) == [Blank EXCEPT !.op = "refused", !.content = why]

\* validate_part_number, validate_block_id
ValidNumber(service, number) ==
  IF service = "compatible" THEN number > 0 ELSE number \in 1 .. MaxParts

EncodeCreate == [Blank EXCEPT !.op = "create"]

\* Mutant: content of any length is sent.
EncodeStageAny(service, upload, number, content) ==
  CASE upload = ""                     -> Refusal("UploadId")
    [] ~ ValidNumber(service, number)  -> Refusal("PartId")
    [] OTHER -> [Blank EXCEPT !.op = "stage", !.number = number, !.content = content]

\* encode_stage_part
EncodeStagePart(service, upload, number, content) ==
  CASE upload = ""                     -> Refusal("UploadId")
    [] ~ ValidNumber(service, number)  -> Refusal("PartId")
    [] content = TooLong               -> Refusal("PayloadTooLarge")
    [] OTHER -> [Blank EXCEPT !.op = "stage", !.number = number, !.content = content]

\* encode_stage_block
EncodeStageBlock(number, content) ==
  CASE ~ ValidNumber("azure", number)  -> Refusal("PartId")
    [] content = TooLong               -> Refusal("PayloadTooLarge")
    [] OTHER -> [Blank EXCEPT !.op = "stage", !.number = number, !.content = content]

\* validate_parts: the first part that is at fault decides.
PartFault(service, list, i) ==
  CASE ~ ValidNumber(service, list[i].number) \/ list[i].tag = "" -> "PartId"
    [] IsAws(service) /\ i > 1 /\ list[i].number <= list[i - 1].number -> "Parts"
    [] OTHER -> None
PartsFault(service, list) ==
  LET faults == SelectSeq([i \in DOMAIN list |-> PartFault(service, list, i)],
                          LAMBDA fault : fault # None)
  IN CASE list = <<>>    -> "Parts"
       [] faults # <<>>  -> faults[1]
       [] OTHER          -> None

BlocksFault(list) ==
  CASE Len(list) > MaxBlocks -> "Parts"
    [] \E i \in DOMAIN list : ~ ValidNumber("azure", list[i].number) -> "PartId"
    [] OTHER -> None

\* Mutant: a part is named by its number alone.
WriteNumbers(list) ==
  [i \in DOMAIN list |-> Elem("Part", <<Elem("PartNumber", list[i].number)>>)]

\* write_part_list
WritePartList(list) ==
  [i \in DOMAIN list |->
     Elem("Part", <<Elem("PartNumber", list[i].number), Elem("ETag", list[i].tag)>>)]

\* write_block_list
WriteBlockList(list) == [i \in DOMAIN list |-> Elem(list[i].source, list[i].number)]

\* prepare_commit_parts, encode_commit_parts.  A size of 0 states none.
EncodeCommitParts(service, upload, list, condition, size) ==
  CASE IsAws(service) /\ condition = "date"  -> Refusal("Condition")
    [] upload = ""                           -> Refusal("UploadId")
    [] PartsFault(service, list) # None      -> Refusal(PartsFault(service, list))
    [] OTHER -> [Blank EXCEPT !.op = "commit", !.list = WritePartList(list),
                              !.condition = condition, !.size = size]

EncodeCommitBlocks(list, condition) ==
  IF BlocksFault(list) # None THEN Refusal(BlocksFault(list))
  ELSE [Blank EXCEPT !.op = "commit", !.list = WriteBlockList(list), !.condition = condition]

EncodeAbort(upload) ==
  IF upload = "" THEN Refusal("UploadId") ELSE [Blank EXCEPT !.op = "abort"]

\* encode_list_parts
EncodeListParts(upload, marker) ==
  CASE upload = "" -> Refusal("UploadId")
    [] marker = "" -> Refusal("Marker")
    [] OTHER       -> [Blank EXCEPT !.op = "list", !.marker = marker]

\* encode_list_blocks: a list of blocks has no pages.
EncodeListBlocks == [Blank EXCEPT !.op = "list"]

-----------------------------------------------------------------------------
(* Answers.  An error is named, in the head or in a body that arrives: what *)
(* becomes of it otherwise is the matter of Exchange.                       *)

Reply(status, tag, error, body) ==
  [status |-> status, tag |-> tag, error |-> error, body |-> body]

\* finish_with_body of an outcome that names an object or an upload.
Failure(status, error) ==
  IF status = 404 /\ error # "NoSuchContainer" THEN "NotFound" ELSE "ServiceFailure"

\* accept_create_upload_head, read_upload_id
AcceptCreate(reply) ==
  CASE reply.status = 200         -> IF Len(ValuesOf(reply.body.children, "UploadId")) # 1
                                          \/ ValuesOf(reply.body.children, "UploadId")[1] = ""
                                     THEN "Fault" ELSE "Created"
    [] reply.status \in 201 .. 299 -> "Fault"
    [] OTHER                       -> "ServiceFailure"

\* accept_stage_part_head
AcceptStagePart(reply) ==
  CASE reply.status = 200          -> IF reply.tag = "" THEN "Fault" ELSE "Staged"
    [] reply.status \in 201 .. 299 -> "Fault"
    [] OTHER                       -> Failure(reply.status, reply.error)

\* accept_stage_block_head
AcceptStageBlock(reply) ==
  CASE reply.status = 201                    -> "Staged"
    [] reply.status \in 200 .. 299 \ {201} -> "Fault"
    [] OTHER                                 -> Failure(reply.status, reply.error)

\* Mutant: the 200 is the result.
AcceptCommitEarly(condition, reply) == "Committed"

\* read_committed: a result names the tag of the object, once; it may be empty.
Completed(children) == IF Len(ValuesOf(children, "ETag")) = 1 THEN "Committed" ELSE "Fault"

\* accept_commit_parts_body, under the 200 that comes before the result.
AcceptCommitBody(condition, reply) ==
  CASE reply.body.root = "CompleteMultipartUploadResult" -> Completed(reply.body.children)
    [] reply.body.root = "Error" ->
         (CASE reply.error = "Precondition" /\ condition # "none" -> "PreconditionFailed"
            [] reply.error = "NoSuchUpload"                       -> "NotFound"
            [] OTHER                                              -> "ServiceFailure")
    [] OTHER -> "Fault"

\* accept_commit_parts_head, accept_commit_parts_error_body
AcceptCommitParts(condition, reply) ==
  CASE reply.status = 200          -> AcceptCommitBody(condition, reply)
    [] reply.status = 412          -> IF condition = "none" THEN "Fault" ELSE "PreconditionFailed"
    [] reply.status \in 201 .. 299 -> "Fault"
    [] OTHER                       -> Failure(reply.status, reply.error)

\* accept_commit_blocks_head, accept_commit_blocks_error_body
AcceptCommitBlocks(condition, reply) ==
  CASE reply.status = 201                    -> "Committed"
    [] reply.status \in 200 .. 299 \ {201} -> "Fault"
    [] reply.status = 412 /\ condition # "none" /\ reply.error = "Precondition" ->
         "PreconditionFailed"
    [] reply.status = 409 /\ condition = "IfNoneMatch" /\ reply.error = "AlreadyExists" ->
         "PreconditionFailed"
    [] OTHER -> Failure(reply.status, reply.error)

\* accept_abort_upload_head
AcceptAbort(service, reply) ==
  LET accepted == IF IsAws(service) THEN {204} ELSE {200, 204}
  IN CASE reply.status \in accepted                -> "Accepted"
       [] reply.status \in 200 .. 299 \ accepted -> "Fault"
       [] OTHER                                    -> Failure(reply.status, reply.error)

\* accept_list_parts_head, accept_list_blocks_head
AcceptList(reply) ==
  CASE reply.status = 200          -> "Parts"
    [] reply.status \in 201 .. 299 -> "Fault"
    [] OTHER                       -> Failure(reply.status, reply.error)

-----------------------------------------------------------------------------
(* Pages.                                                                  *)

Unfilled(why) == [filled |-> why, entries |-> <<>>, marker |-> None]

\* build_part: a part has a number, an entity tag and a length.
BuildsPart(fields) ==
  /\ \A name \in {"PartNumber", "ETag", "Size"} : ValuesOf(fields, name) # <<>>
  /\ \A name \in {"PartNumber", "Size"} : ValuesOf(fields, name)[1] # Unreadable
PartEntry(fields) ==
  [number |-> ValuesOf(fields, "PartNumber")[1], tag |-> ValuesOf(fields, "ETag")[1],
   state |-> "staged"]

NamedNext(markers) == IF markers \in {<<>>, <<"">>} THEN "fault" ELSE markers[1]

\* Mutant: a page that does not say is the last one.
NextOrLast(truncated, markers) ==
  CASE truncated # <<"true">>    -> None
    [] OTHER                     -> NamedNext(markers)

\* Only IsTruncated says whether another page follows.
NextMarker(truncated, markers) ==
  CASE truncated = <<>>          -> "fault"
    [] truncated = <<"false">>   -> None
    [] OTHER                     -> NamedNext(markers)

\* fill_parts, read_part: a part past the array is read but not built.
FillParts(body, room) ==
  LET parts == ValuesOf(body.children, "Part")
      truncated == ValuesOf(body.children, "IsTruncated")
      next == NextMarker(truncated, ValuesOf(body.children, "NextPartNumberMarker"))
      scanned ==
        /\ body.root = "ListPartsResult"
        /\ \A i \in DOMAIN parts :
             parts[i] # <<>> /\ Once(parts[i], {"PartNumber", "ETag", "Size"})
        /\ \A i \in DOMAIN parts : i <= room => BuildsPart(parts[i])
        /\ Once(body.children, {"IsTruncated", "NextPartNumberMarker"})
        /\ truncated \in {<<>>, <<"true">>, <<"false">>}
  IN CASE body.root = "Error" -> Unfilled("service")
       [] ~ scanned           -> Unfilled("body")
       [] Len(parts) > room   -> Unfilled("capacity")
       [] next = "fault"      -> Unfilled("body")
       [] OTHER -> [filled |-> "page", marker |-> next,
                    entries |-> [i \in DOMAIN parts |-> PartEntry(parts[i])]]

\* read_block_list: nothing but what a block list has, each of it once.
Sections == {"CommittedBlocks", "UncommittedBlocks"}
ReadsBlock(block) ==
  /\ block[1] = "Block"
  /\ Len(block[2]) = 2
  /\ \A name \in {"Name", "Size"} : Len(ValuesOf(block[2], name)) = 1
  /\ ValuesOf(block[2], "Size")[1] # Unreadable
  /\ ValuesOf(block[2], "Name")[1] # 0
BlockEntry(block, section) ==
  [number |-> ValuesOf(block[2], "Name")[1], tag |-> None,
   state |-> IF section = "CommittedBlocks" THEN "committed" ELSE "staged"]

FillBlocks(body, room) ==
  LET sections == body.children
      blocks == FlattenSeq([i \in DOMAIN sections |->
                  [j \in DOMAIN sections[i][2] |->
                     BlockEntry(sections[i][2][j], sections[i][1])]])
      scanned ==
        /\ body.root = "BlockList"
        /\ Once(sections, Sections)
        /\ \A i \in DOMAIN sections :
             /\ sections[i][1] \in Sections
             /\ \A j \in DOMAIN sections[i][2] : ReadsBlock(sections[i][2][j])
  IN CASE ~ scanned            -> Unfilled("body")
       [] Len(blocks) > room   -> Unfilled("capacity")
       [] OTHER -> [filled |-> "page", marker |-> None, entries |-> blocks]
=============================================================================
