------------------------------- MODULE Uploads ------------------------------
(***************************************************************************)
(* An uploader in parts and the service that it uploads to.  A call may be *)
(* given up before it is answered, and its request may still arrive, after *)
(* the ones that were sent since.  The uploader may stop at any time and   *)
(* start again with the ID of its upload and nothing else, and then asks   *)
(* the service for the parts that it holds: list_parts and list_blocks of  *)
(* the object tests.                                                       *)
(***************************************************************************)
EXTENDS Parts, FiniteSets

CONSTANTS
  Numbers,      \* the numbers that the uploader may ask for
  Contents(_, _),  \* the contents that it may stage as a part of a service; of
                   \* Azure one for each ID, which has no tag to tell two apart
  Conditions,   \* of its commits
  Lists(_),     \* the numbers that it may name in a commit to a service
  Room,         \* how many parts its array of a page holds, 1000
  PageSizes,    \* how many parts a page of a compatible service holds
  MayBeLate(_, _), \* the requests to a service that may arrive when it gave them up
  MaxLate,      \* and how many of them at once
  DamagedOf     \* the services whose pages may arrive damaged

\* The services that there are, and what may be asked of them.
Services == {"aws", "directory", "compatible", "azure"}
ASSUME UploadsAssumption ==
  /\ Numbers \subseteq Nat /\ IsFiniteSet(Numbers)
  /\ \A kind \in Services : Lists(kind) \subseteq Seq(Numbers)
  /\ \A kind \in Services, n \in Numbers : None \notin Contents(kind, n)
  /\ Room \in Nat \ {0} /\ PageSizes \subseteq Nat \ {0}

VARIABLES
  service,      \* [kind, ignores]: ignores says that it ignores the marker
  store,        \* what the service holds
  call,         \* the request of the uploader that is under way, or none
  late,         \* the requests that were given up, and still arrive
  up,           \* the uploader
  steady        \* history: the parts that have not changed since the listing
                \* began

vars == <<service, store, call, late, up, steady>>

Azure == service.kind = "azure"
Valid == Numbers \cap 1 .. MaxParts
Held(content, state) == [content |-> content, state |-> state]
Nothing == Held(None, "none")

Unpublished == [did |-> FALSE, blocks |-> <<>>]
Idle == call = Blank

-----------------------------------------------------------------------------
(* The service (external).                                                 *)

NamedBlock(element) ==
  LET number == element[2]
      staged == store.staged[number]
      committed == Selected(store.blocks,
                            {i \in DOMAIN store.blocks : store.blocks[i].number = number})
      Block(content) == [number |-> number, content |-> content]
  IN IF element[1] # "Committed" /\ staged # None THEN <<Block(staged)>>
     ELSE IF element[1] # "Uncommitted" /\ committed # <<>> THEN <<committed[1]>>
     ELSE <<>>

\* S3 compares the entity tag of a part where the commit names one.
NamedPart(element) ==
  LET number == ValuesOf(element[2], "PartNumber")[1]
      tags == ValuesOf(element[2], "ETag")
      staged == IF number \in Valid THEN store.staged[number] ELSE None
  IN IF staged # None /\ tags \in {<<>>, <<staged>>}
     THEN <<[number |-> number, content |-> staged]>> ELSE <<>>

Named(list) ==
  [i \in DOMAIN list |-> IF Azure THEN NamedBlock(list[i]) ELSE NamedPart(list[i])]
Ascending(list) == \A i \in 2 .. Len(list) : list[i - 1][1].number < list[i][1].number

\* Why the service refuses a commit.
CommitError(request) ==
  LET named == Named(request.list)
  IN CASE ~ Azure /\ store.upload # "open" -> {"NoSuchUpload"}
       [] request.condition # "none" /\ store.exists ->
            IF Azure /\ request.condition = "IfNoneMatch"
            THEN {"Precondition", "AlreadyExists"} ELSE {"Precondition"}
       [] \/ \E i \in DOMAIN named : named[i] = <<>>
          \/ ~ Azure /\ (~ Ascending(named) \/ (request.size \notin {0, Len(named)})) ->
            {"InvalidUpload"}
       [] OTHER -> {None}

StatusOf(error) ==
  CASE error \in {"NoSuchUpload"}  -> 404
    [] error = "Precondition"      -> 412
    [] error = "AlreadyExists"     -> 409
    [] error = "InvalidUpload"     -> 400
    [] error = "Service"           -> 503

\* S3 may say under 200 what it says under a status: a directory bucket does.
ErrorReplies(request, error) ==
  LET body == IF Azure THEN NoDoc ELSE Doc("Error", <<>>)
      early == Reply(200, "", error, Doc("Error", <<>>))
      plain == Reply(StatusOf(error), "", error, body)
  IN IF Azure \/ request.op # "commit" THEN {plain}
     ELSE IF service.kind = "directory" THEN {early} ELSE {plain, early}

Gone == [store EXCEPT !.upload = "gone", !.staged = [n \in Valid |-> None]]
Published(request) ==
  LET named == Named(request.list) IN [i \in DOMAIN named |-> named[i][1]]

Effect(request) ==
  CASE request.op = "create" ->
         [store EXCEPT !.upload = "open", !.staged = [n \in Valid |-> None]]
    [] request.op = "stage"  -> [store EXCEPT !.staged[request.number] = request.content]
    [] request.op = "abort"  -> Gone
    [] request.op = "commit" ->
         [Gone EXCEPT !.exists = TRUE, !.blocks = IF Azure THEN Published(request) ELSE <<>>]
    [] request.op = "list"   -> store

PartElem(number) ==
  Elem("Part", <<Elem("PartNumber", number), Elem("ETag", store.staged[number]), Elem("Size", 1)>>)
BlockElem(number) == Elem("Block", <<Elem("Name", number), Elem("Size", 1)>>)
Staged == {n \in Valid : store.staged[n] # None}

InOrder(numbers) == Selected([n \in 1 .. MaxParts |-> n], numbers)

PartsAfter(marker, size) ==
  LET after == IF marker = None \/ service.ignores THEN 0 ELSE NumberOf(marker)
      numbers == InOrder({n \in Staged : n > after})
      page == SubSeq(numbers, 1, IF size < Len(numbers) THEN size ELSE Len(numbers))
  IN Doc("ListPartsResult",
         <<Elem("NextPartNumberMarker", IF page = <<>> THEN "" ELSE Digits[Last(page)]),
           Elem("IsTruncated", IF Len(numbers) > size THEN "true" ELSE "false")>>
         \o [i \in DOMAIN page |-> PartElem(page[i])])

BlockList ==
  Doc("BlockList",
      <<Elem("CommittedBlocks",
             [i \in DOMAIN store.blocks |-> BlockElem(store.blocks[i].number)]),
        Elem("UncommittedBlocks",
             LET numbers == InOrder(Staged) IN [i \in DOMAIN numbers |-> BlockElem(numbers[i])])>>)

\* A compatible service that ignores the marker has pages of one size.
Pages(request) ==
  IF Azure THEN {BlockList}
  ELSE {PartsAfter(request.marker, size) :
          size \in IF service.kind = "compatible" /\ ~ service.ignores THEN PageSizes ELSE {Room}}

\* A page that lost an element that is no part, or a field of one, or has it
\* twice or unreadable.
Without(elements, i) == RemoveAt(elements, i)
Twice(elements, i) == Append(elements, elements[i])
FieldsDamaged(fields) ==
  {Without(fields, i) : i \in DOMAIN fields} \cup {Twice(fields, i) : i \in DOMAIN fields}
    \cup {[i \in DOMAIN fields |-> IF fields[i][1] = "Size" THEN Elem("Size", Unreadable)
                                   ELSE fields[i]]}
ChildDamages(children, i) ==
  IF children[i][1] = "Part"
  THEN {[children EXCEPT ![i][2] = fields] : fields \in FieldsDamaged(children[i][2])}
  ELSE {Without(children, i), Twice(children, i),
        [children EXCEPT ![i][2] = IF children[i][1] = "IsTruncated" THEN "junk" ELSE ""]}
BlockDamages(sections, i) ==
  {Twice(sections, i)} \cup
    UNION {{[sections EXCEPT ![i][2][j][2] = fields] :
              fields \in FieldsDamaged(sections[i][2][j][2])} : j \in DOMAIN sections[i][2]}
Damages(page) ==
  UNION {{Doc(page.root, children) :
            children \in IF Azure THEN BlockDamages(page.children, i)
                         ELSE ChildDamages(page.children, i)} : i \in DOMAIN page.children}

\* The result of a commit, and one that lost the tag or has it twice.
Tagged == {<<Elem("ETag", "o")>>, <<>>, <<Elem("ETag", "o"), Elem("ETag", "o")>>}

Successes(request) ==
  CASE request.op = "create" ->
         {Reply(200, "", None, Doc("InitiateMultipartUploadResult", <<Elem("UploadId", "u1")>>)),
          Reply(200, "", None, Doc("InitiateMultipartUploadResult", <<>>))}
    [] request.op = "stage"  ->
         IF Azure THEN {Reply(201, "", None, NoDoc)}
         ELSE {Reply(200, tag, None, NoDoc) :
                 tag \in IF service.kind = "compatible" THEN {request.content, ""}
                         ELSE {request.content}}
    [] request.op = "commit" ->
         IF Azure THEN {Reply(201, "", None, NoDoc)}
         ELSE {Reply(200, "", None, Doc("CompleteMultipartUploadResult", fields)) :
                 fields \in Tagged}
              \cup {Reply(200, "", None, NoDoc)}
    [] request.op = "abort"  ->
         {Reply(status, "", None, NoDoc) :
            status \in IF service.kind = "compatible" THEN {200, 204} ELSE {204}}
    [] request.op = "list"   ->
         {Reply(200, "", None, page) :
            page \in Pages(request) \cup
                     (IF service.kind \in DamagedOf THEN UNION {Damages(page) : page \in Pages(request)} ELSE {})}

Errors(request) ==
  IF request.op = "commit" THEN CommitError(request)
  ELSE IF request.op # "create" /\ ~ Azure /\ store.upload # "open" THEN {"NoSuchUpload"}
  ELSE IF request.op = "stage" /\ request.number \notin Valid THEN {"InvalidUpload"}
  ELSE {None}

-----------------------------------------------------------------------------
(* The uploader.                                                           *)

NoLast == [outcome |-> "none", meant |-> <<>>, published |-> Unpublished, size |-> 0]
HoldsNothing == [n \in Valid |-> Nothing]
Fresh(upload) ==
  [upload |-> upload, held |-> HoldsNothing, walk |-> "off", marker |-> None, listed |-> <<>>,
   meant |-> <<>>, last |-> NoLast]

Init ==
  /\ service \in {[kind |-> kind, ignores |-> FALSE] : kind \in Services}
                   \cup {[kind |-> "compatible", ignores |-> TRUE]}
  /\ \E exists \in BOOLEAN :
       store = [upload |-> "none", staged |-> [n \in Valid |-> None], exists |-> exists,
                blocks |-> <<>>]
  /\ call = Blank
  /\ late = {}
  /\ up = Fresh("")
  /\ steady = [n \in Valid |-> None]

\* A call sends its request, or is refused and sends nothing.
Calls(request, then) ==
  /\ call' = IF request.op = "refused" THEN Blank ELSE request
  /\ up' = IF request.op = "refused" THEN [up EXCEPT !.walk = "off", !.last = NoLast]
           ELSE [then EXCEPT !.last = NoLast]
  /\ UNCHANGED <<service, store, late>>

Free == Idle /\ up.walk \in {"off", "done"}
Unwatched == steady' = [n \in Valid |-> None]

\* create_upload
StartUpload ==
  /\ Free /\ ~ Azure /\ up.upload = ""
  /\ Calls(EncodeCreate, [up EXCEPT !.walk = "off"])
  /\ Unwatched

\* stage_part, stage_block.  What the part was before is not known any more.
Stage(number, content) ==
  LET request == IF Azure THEN EncodeStageBlock(number, content)
                 ELSE EncodeStagePart(service.kind, up.upload, number, content)
      goes == request.op = "stage" /\ number \in Valid
  IN /\ Free
     /\ Calls(request, [up EXCEPT !.walk = "off",
                                  !.held = IF goes THEN [@ EXCEPT ![number] = Nothing] ELSE @])
     /\ Unwatched

\* What the uploader names of a part: the block of the list that it believes
\* it in, or the latest of the two.
HeldOf(number) == IF number \in Valid THEN up.held[number] ELSE Nothing
Reference(number, latest) ==
  [number |-> number, tag |-> IF HeldOf(number) = Nothing THEN "" ELSE HeldOf(number).content,
   source |-> CASE latest                                          -> "Latest"
                [] ~ latest /\ HeldOf(number).state = "committed" -> "Committed"
                [] OTHER                                           -> "Uncommitted"]

\* commit_parts, commit_blocks
CommitThe(list, condition, size) ==
  LET request == IF Azure THEN EncodeCommitBlocks(list, condition)
                 ELSE EncodeCommitParts(service.kind, up.upload, list, condition, size)
  IN /\ Free
     /\ Calls(request, [up EXCEPT !.walk = "off",
                          !.meant = [i \in DOMAIN list |->
                             [number |-> list[i].number, content |-> list[i].tag]]])
     /\ Unwatched

HeldParts == {n \in Valid : up.held[n] # Nothing}

\* A size is stated without a condition: the two do not meet in the service.
Commit ==
  \E numbers \in Lists(service.kind), condition \in Conditions, sized \in BOOLEAN :
    /\ Azure => ~ sized /\ \A i \in DOMAIN numbers : numbers[i] \in Valid => numbers[i] \in HeldParts
    /\ sized => condition = "none"
    /\ \E latest \in BOOLEAN :
         /\ Azure \/ latest
         /\ CommitThe([i \in DOMAIN numbers |-> Reference(numbers[i], latest)], condition,
                      IF sized THEN Cardinality(HeldParts) ELSE 0)

\* abort_upload
Abort ==
  /\ Free /\ ~ Azure
  /\ Calls(EncodeAbort(up.upload), [up EXCEPT !.walk = "off"])
  /\ Unwatched

\* list_parts, list_blocks
ListFrom(marker) ==
  IF Azure THEN EncodeListBlocks ELSE EncodeListParts(up.upload, marker)
List ==
  /\ Free
  /\ Calls(ListFrom(None),
           [up EXCEPT !.walk = "wait", !.marker = None, !.listed = <<>>])
  /\ steady' = store.staged
NextPage ==
  /\ Idle /\ up.walk = "ask"
  /\ Calls(ListFrom(up.marker), [up EXCEPT !.walk = "wait"])
  /\ UNCHANGED steady

-----------------------------------------------------------------------------
(* Answers.                                                                *)

Stays(before, after) == [n \in Valid |-> IF after[n] = before[n] THEN before[n] ELSE None]

Does(request, error) ==
  /\ store' = IF error = None THEN Effect(request) ELSE store
  /\ steady' = Stays(steady, store'.staged)

\* What the service does and answers, and what the uploader makes of it.
Answers(op, Then(_, _)) ==
  /\ call.op = op
  /\ call' = Blank
  /\ \E error \in Errors(call) \cup {"Service"} :
       /\ Does(call, error)
       /\ \E reply \in IF error = None THEN Successes(call) ELSE ErrorReplies(call, error) :
            up' = Then(reply, IF op = "commit" /\ error = None
                              THEN [did |-> TRUE, blocks |-> Published(call)] ELSE Unpublished)
  /\ UNCHANGED <<service, late>>

\* create_upload
ReadCreate(reply, published) ==
  LET outcome == AcceptCreate(reply)
  IN [up EXCEPT !.upload = IF outcome = "Created" THEN "u1" ELSE @]
AnswerCreate == Answers("create", ReadCreate)

\* stage_part, stage_block
ReadStage(reply, published) ==
  LET outcome == IF Azure THEN AcceptStageBlock(reply) ELSE AcceptStagePart(reply)
      holds == outcome = "Staged" /\ call.number \in Valid
  IN [up EXCEPT !.held = IF ~ holds THEN @
                         ELSE [@ EXCEPT ![call.number] =
                                   Held(IF Azure THEN "any" ELSE reply.tag, "staged")]]
AnswerStage == Answers("stage", ReadStage)

\* The blocks that a commit does not name are gone after it.
AfterCommit ==
  [n \in Valid |-> IF Azure /\ \E i \in DOMAIN up.meant : up.meant[i].number = n
                   THEN [up.held[n] EXCEPT !.state = "committed"] ELSE Nothing]

\* commit_parts, commit_blocks
ReadCommit(reply, published) ==
  LET outcome == IF Azure THEN AcceptCommitBlocks(call.condition, reply)
                 ELSE AcceptCommitParts(call.condition, reply)
  IN [up EXCEPT !.last = [outcome |-> outcome, published |-> published, size |-> call.size,
                          meant |-> IF outcome = "Committed" THEN up.meant ELSE <<>>],
                !.meant = <<>>,
                !.held = IF outcome = "Committed" THEN AfterCommit ELSE @]
AnswerCommit == Answers("commit", ReadCommit)

\* abort_upload
ReadAbort(reply, published) ==
  LET outcome == AcceptAbort(service.kind, reply)
  IN [up EXCEPT !.held = IF outcome = "Accepted" THEN HoldsNothing ELSE @]
AnswerAbort == Answers("abort", ReadAbort)

\* max_blocks_in, of a list whose blocks are of the least length.
MaxBlocksIn(length) == length \div 43
LeastLength(list) ==
  23 + 43 * FoldLeft(LAMBDA count, section : count + Len(section[2]), 0, list.children)
Page(body) ==
  IF Azure THEN FillBlocks(body, MaxBlocksIn(LeastLength(body))) ELSE FillParts(body, Room)

\* What is listed of a part: of a block no content, and its last state.
ListedAs(listed) ==
  [n \in Valid |->
     LET named == Selected(listed, {i \in DOMAIN listed : listed[i].number = n})
     IN IF named = <<>> THEN Nothing
        ELSE Held(IF Azure THEN "any" ELSE Last(named).tag, Last(named).state)]

\* No listing that ends is of more than MaxListed parts: what an endless one
\* goes on to list is left out.
MaxListed == 2 * Cardinality(Numbers)
Extended(entries) ==
  IF Len(up.listed) > MaxListed THEN up.listed ELSE up.listed \o entries

\* Mutant: a page that names itself as the next one is followed.
NamedAnyPage(marker) == FALSE

\* "ListParts named the same page twice"
NamedTwice(marker) == marker # None /\ marker = up.marker

\* list_parts, list_blocks
ReadPage(reply, published) ==
  LET page == IF AcceptList(reply) = "Parts" THEN Page(reply.body) ELSE Unfilled("failure")
      listed == Extended(page.entries)
  IN IF page.filled # "page" \/ NamedTwice(page.marker)
     THEN [up EXCEPT !.walk = "off", !.listed = <<>>, !.marker = None]
     ELSE IF page.marker # None
     THEN [up EXCEPT !.walk = "ask", !.listed = listed, !.marker = page.marker]
     ELSE [up EXCEPT !.walk = "done", !.listed = listed, !.marker = None, !.held = ListedAs(listed)]
AnswerList == Answers("list", ReadPage)

Answer == AnswerCreate \/ AnswerStage \/ AnswerCommit \/ AnswerAbort \/ AnswerList

\* What was given up arrives all the same.
ArriveLate ==
  \E request \in late :
    /\ late' = late \ {request}
    /\ \E error \in Errors(request) : Does(request, error)
    /\ UNCHANGED <<service, call, up>>

-----------------------------------------------------------------------------
(* Faults.                                                                 *)

\* The call is given up: its request is lost, or still arrives; or the service
\* has done it, and the answer is lost.
GivesUp(then) ==
  /\ call' = Blank
  /\ up' = then
  /\ Unwatched
  /\ UNCHANGED service
  /\ \/ UNCHANGED <<store, late>>
     \/ /\ call.op \in {"stage", "commit", "abort"} /\ MayBeLate(service.kind, call)
        /\ Cardinality(late) < MaxLate
        /\ late' = late \cup {call}
        /\ UNCHANGED store
     \/ /\ ~ Idle /\ None \in Errors(call)
        /\ store' = Effect(call)
        /\ UNCHANGED late

Abandon ==
  /\ ~ Idle
  /\ GivesUp([up EXCEPT !.walk = "off", !.listed = <<>>, !.marker = None, !.meant = <<>>])

\* The uploader kept the ID of its upload.
Crash == GivesUp(Fresh(up.upload))

Next ==
  \/ StartUpload
  \/ \E number \in Numbers : \E content \in Contents(service.kind, number) : Stage(number, content)
  \/ Commit
  \/ Abort
  \/ List
  \/ NextPage
  \/ Answer
  \/ ArriveLate
  \/ Abandon
  \/ Crash

\* A call ends: it is answered and read, or given up.  A listing goes on.
Fairness == WF_vars(NextPage) /\ WF_vars(Abandon \/ Answer)

Spec == Init /\ [][Next]_vars /\ Fairness

-----------------------------------------------------------------------------
(* Properties.                                                             *)

Outcomes == {"none", "Committed", "PreconditionFailed", "NotFound", "ServiceFailure", "Fault"}

\* The uploader, its call and the store are of their types.  Nothing is staged
\* for an upload that is not open.
TypeOK ==
  /\ service.kind \in Services
  /\ store.upload \in {"none", "open", "gone"} /\ store.exists \in BOOLEAN
  /\ \A n \in Valid : store.staged[n] \in Contents(service.kind, n) \cup {None} /\ store.staged[n] # TooLong
  /\ ~ Azure /\ store.upload # "open" => Staged = {}
  /\ call.op \in {"idle", "create", "stage", "commit", "abort", "list"}
  /\ call.op = "stage" => call.content \in Contents(service.kind, call.number) \ {TooLong}
  /\ up.upload \in {"", "u1"} /\ up.last.outcome \in Outcomes
  /\ up.walk \in {"off", "ask", "wait", "done"} /\ up.marker # ""
  /\ \A n \in Valid : up.held[n].content \in Contents(service.kind, n) \cup {None, "any"}

\* What an uploader is told of its commit is so, whatever was given up before
\* and arrives late: a commit that is said to be done published an object, one
\* that is said to have failed did not, an upload that is not found is gone,
\* and a condition that failed had an object to fail on.
VerdictIsTrue ==
  /\ up.last.outcome = "Committed" => up.last.published.did
  /\ up.last.outcome \in {"PreconditionFailed", "NotFound", "ServiceFailure"} =>
       ~ up.last.published.did
  /\ up.last.outcome = "NotFound" => store.upload # "open"
  /\ up.last.outcome = "PreconditionFailed" => store.exists

\* A commit that is said to be done published what the uploader meant: the
\* parts of its list in its order, with the contents whose tags it holds, and
\* as many as it stated.  A block of Azure has no tag, only its ID.
PublishedAsMeant ==
  up.last.outcome = "Committed" =>
    LET blocks == up.last.published.blocks
        meant == up.last.meant
    IN /\ Len(blocks) = Len(meant)
       /\ up.last.size # 0 => Len(blocks) = up.last.size
       /\ \A i \in DOMAIN meant :
            /\ blocks[i].number = meant[i].number
            /\ ~ Azure => blocks[i].content = meant[i].content

\* A listing that ends names every part that was staged all along, with its
\* tag, and no part twice: a page that lost what says that another follows, or
\* a field of a part, ends no listing.
ResumedWhole ==
  up.walk = "done" =>
    /\ \A n \in Valid : steady[n] # None =>
         up.held[n] = Held(IF Azure THEN "any" ELSE steady[n], "staged")
    /\ ~ Azure => \A i, j \in DOMAIN up.listed :
                    i < j => up.listed[i].number < up.listed[j].number

\* A listing ends, also where the service names the same page over and over.
ListingEnds == (up.walk \in {"ask", "wait"}) ~> (up.walk \in {"off", "done"})
=============================================================================
