------------------------------- MODULE Objects ------------------------------
(***************************************************************************)
(* A caller that prepares a template, writes requests from it, and reads   *)
(* their answers, with a service that does what the requests say.  The     *)
(* requests are those of S3Calls and AzureCalls, or of AzureCalls through  *)
(* the C interface; the service reads their methods, parameters and        *)
(* fields, and knows nothing else.                                         *)
(***************************************************************************)
EXTENDS Routes

CONSTANTS Services,        \* the services
          Stores(_),       \* the objects that a service starts with
          Operations(_), OptionsOf(_, _), ItemsOf(_, _),   \* what callers ask of each
          TakenOptions(_, _, _), TakenItems(_, _, _),      \* what is not refused
          MaxCalls,        \* bound: requests of a template
          MaxWrites,       \* bound: writes of others
          Unsure           \* told of a call whose answer says nothing

VARIABLES service,         \* what the template is of
          objects,         \* what the service keeps
          prepared,        \* the operation and the options of the template
          template,        \* what was prepared of them
          calls            \* the requests written from it, and what became of each
vars == <<service, objects, prepared, template, calls>>

IsS3 == service \in S3Services

-----------------------------------------------------------------------------
(* The functions of an operation.                                          *)

PrepareKind(kind, op, options) ==
  IF kind \in CKinds
  THEN CASE op = "get"        -> CPrepareGet(kind, options)
         [] op = "put"        -> CPreparePut(kind, options)
         [] op = "list"       -> CPrepareList(kind, options)
  ELSE IF kind \in S3Services
  THEN CASE op = "get"        -> S3PrepareGet(kind, options)
         [] op = "put"        -> S3PreparePut(kind, options)
         [] op = "delete"     -> S3PrepareDelete(kind, options)
         [] op = "setTags"    -> S3PreparePutTagging(options)
         [] op = "getTags"    -> S3PrepareGetTagging(options)
         [] op = "restore"    -> S3PrepareRestore(kind, options)
         [] op = "list"       -> S3PrepareList(kind, options)
         [] op \in {"copy", "stage"} -> S3PrepareCopy(kind, op, options)
         [] op = "deleteMany" -> S3PrepareDeleteMany(kind, options)
  ELSE CASE op = "get"        -> AzurePrepareGet(options)
         [] op = "put"        -> AzurePreparePut(options)
         [] op = "delete"     -> AzurePrepareDelete(options)
         [] op = "snapshot"   -> AzurePrepareSnapshot(options)
         [] op = "setMetadata"   -> AzurePrepareSetMetadata(options)
         [] op = "setProperties" -> AzurePrepareSetProperties(options)
         [] op = "setTier"    -> AzurePrepareSetTier(options)
         [] op = "setTags"    -> AzurePrepareSetTags(options)
         [] op = "getTags"    -> AzurePrepareGetTags(options)
         [] op = "restore"    -> AzurePrepareRestore(options)
         [] op = "list"       -> AzurePrepareList(kind, options)
         [] op \in CopyKinds  -> AzurePrepareCopy(op, options)
         [] op = "abortCopy"  -> AzurePrepareAbortCopy(options)
         [] op = "deleteMany" -> AzurePrepareDeleteMany

\* prepare_template: a template of one object checks its key, and an operation
\* that names no object has none.
Prepare(kind, op, options) ==
  LET made == PrepareKind(kind, op, options)
      object == options.object
  IN IF made.op = "refused" \/ object = None THEN made
     ELSE IF op \in {"list", "deleteMany"} THEN NoTemplate("Option")
     ELSE Unless(IF kind \in S3Services THEN S3KeyFault(object)
                 ELSE AzureKeyFault(IF kind \in CKinds THEN Account(kind) ELSE kind, object), made)

Encode(kind, op, from, item) ==
  IF kind \in CKinds
  THEN CASE op = "get"        -> CEncodeGet(kind, from, item)
         [] op = "put"        -> CEncodePut(kind, from, item)
         [] op = "list"       -> CEncodeList(from, item)
  ELSE IF kind \in S3Services
  THEN CASE op = "get"        -> S3EncodeGet(from, item)
         [] op = "put"        -> S3EncodePut(kind, from, item)
         [] op = "list"       -> S3EncodeList(kind, from, item)
         [] op \in {"copy", "stage"} -> S3EncodeCopy(kind, op, from, item)
         [] op = "deleteMany" -> S3EncodeDeleteMany(from, item)
         [] OTHER             -> S3EncodeObject(op, from, item)
  ELSE CASE op = "get"        -> AzureEncodeGet(kind, from, item)
         [] op = "put"        -> AzureEncodePut(kind, from, item)
         [] op = "list"       -> AzureEncodeList(from, item)
         [] op \in CopyKinds  -> AzureEncodeCopy(kind, op, from, item)
         [] op = "abortCopy"  -> AzureEncodeAbortCopy(kind, from, item)
         [] op = "deleteMany" -> AzureEncodeDeleteMany(kind, from, item)
         [] OTHER             -> AzureEncodeObject(kind, op, from, item)

-----------------------------------------------------------------------------
(* Answers.  Statuses and errors are Exchange's; here an answer says what  *)
(* was done, and a batch what became of each removal.                      *)

Refused == <<"refused">>
Untold == <<"untold">>
Unanswered == <<"unanswered">>

\* The results of a batch, in any order; a part may be lost, or come twice.
Shown(results) ==
  LET order(p) == [i \in DOMAIN results |-> <<p[i], results[p[i]]>>]
  IN {order(p) : p \in [DOMAIN results -> DOMAIN results]}
     \cup {SubSeq(order([i \in DOMAIN results |-> i]), 1, n) : n \in 0..Len(results)}

\* fill_delete_results of s3: each result names its object.
S3Results(targets, shown) ==
  Done(<<"named", {<<targets[shown[i][1]].key, targets[shown[i][1]].id, shown[i][2]>> :
                     i \in DOMAIN shown}>>)

\* Mutant: results are taken in the order in which they come.
AzureResultsInOrder(targets, shown) ==
  IF Len(shown) # Len(targets) THEN Unsure
  ELSE Done(<<"each", [i \in DOMAIN shown |-> shown[i][2]]>>)

\* fill_delete_results of azure: each part names its place, once.
AzureResults(targets, shown) ==
  IF \/ Len(shown) # Len(targets)
     \/ \E i, j \in DOMAIN shown : i # j /\ shown[i][1] = shown[j][1] THEN Unsure
  ELSE Done(<<"each", [place \in DOMAIN targets |->
                         shown[CHOOSE i \in DOMAIN shown : shown[i][1] = place][2]]>>)

\* A condition that the request did not carry cannot have failed.  A stage has
\* no outcome for it, and its failure names it.
Carries(op, options) ==
  \/ options.condition # None
  \/ op \in CopyKinds /\ options.sourceCondition # None

\* What a caller in C is told: the host collects what arrives of an answer,
\* and the C interface reads it.
CauseOf(answer) ==
  CASE answer = Missing  -> "NotFound"
    [] answer = Unmet    -> "Precondition"
    [] answer = Rejected -> "Refused"
    [] OTHER             -> "done"
ToldInC(call, outcome, status) ==
  LET said == Says(outcome, status)
  IN CASE said = "missing" -> Missing
       [] said = "unmet"   -> Unmet
       [] said = "failed"  -> Rejected
       [] said = "unsure"  -> Unsure
       [] OTHER            -> IF call.answer[1] = "done" THEN call.answer ELSE Done(None)
AcceptedInC(call) ==
  LET op == prepared.op
      shape == CShape(op, prepared.options)
      asked == IF prepared.options.kind = "head" THEN "head" ELSE op
      sent == Azure(asked, AsTag(prepared.options.condition), None)!Answers(CauseOf(call.answer))
  IN UNION {{ToldInC(call, Received(op, shape, lines, body), answer[1].status) :
               lines \in LinesOf(answer[1]), body \in Arrived(answer[2])} : answer \in sent}

\* What the accept functions make of the results of a service.
Accepted(call) ==
  CASE service \in CKinds -> AcceptedInC(call)
    [] call.answer = Unmet /\ ~ Carries(prepared.op, prepared.options) -> {Rejected}
    [] prepared.op = "deleteMany" /\ call.answer \notin {Missing, Unmet, Rejected} ->
         {IF IsS3 THEN S3Results(call.item.targets, shown)
          ELSE AzureResults(call.item.targets, shown) : shown \in Shown(call.answer[2][2])}
    [] OTHER -> {call.answer}

-----------------------------------------------------------------------------
Init ==
  /\ service \in Services
  /\ objects \in Stores(service)
  /\ prepared = Template(None, NoOptions)
  /\ template = NoTemplate(None)
  /\ calls = <<>>

PrepareTemplate(op, options) ==
  /\ prepared.op = None
  /\ prepared' = Template(op, options)
  /\ template' = Prepare(service, op, options)
  /\ UNCHANGED <<service, objects, calls>>

\* A request is written from the template, by its function or another.
Write(op, item) ==
  LET request == Encode(service, op, template, item)
  IN /\ prepared.op # None /\ template.op # "refused" /\ Len(calls) < MaxCalls
     /\ calls' = Append(calls, [by |-> op, item |-> item, request |-> request,
                                 answer |-> Unanswered, told |-> Untold])
     /\ UNCHANGED <<service, objects, prepared, template>>

\* A refusal is told at once, and nothing is sent.
Refuse(i) ==
  /\ calls[i].told = Untold /\ calls[i].request.method = "refused"
  /\ calls' = [calls EXCEPT ![i].told = Refused]
  /\ UNCHANGED <<service, objects, prepared, template>>

\* A request arrives, at any time.
Serve(i) ==
  /\ calls[i].request.method # "refused" /\ calls[i].answer = Unanswered
  /\ \E end \in Effects(service, Reads(service, calls[i].request), objects) :
       /\ objects' = end.objects
       /\ calls' = [calls EXCEPT ![i].answer = end.result]
  /\ UNCHANGED <<service, prepared, template>>

Accept(i) ==
  /\ calls[i].told = Untold /\ calls[i].answer # Unanswered
  /\ \E told \in Accepted(calls[i]) : calls' = [calls EXCEPT ![i].told = told]
  /\ UNCHANGED <<service, objects, prepared, template>>

\* A caller gives up on an answer, which may have been lost or be on its way.
GiveUp(i) ==
  /\ calls[i].told = Untold /\ calls[i].request.method # "refused"
  /\ calls' = [calls EXCEPT ![i].told = Unsure]
  /\ UNCHANGED <<service, objects, prepared, template>>

OtherWrites ==
  /\ objects.writes < MaxWrites
  /\ objects' = Written(service, objects, "k", Stored(None, "theirs"))
  /\ UNCHANGED <<service, prepared, template, calls>>

CopyEnds ==
  /\ \E copy \in objects.pending : objects' = Finished(objects, copy)
  /\ UNCHANGED <<service, prepared, template, calls>>

\* Nothing is under way, and the caller asks for nothing more.
Stop ==
  /\ template.op = "refused" \/ Len(calls) = MaxCalls
  /\ prepared.op # None
  /\ \A i \in DOMAIN calls : calls[i].told # Untold
  /\ UNCHANGED vars

\* Another function of the same kind of item.
Others(op) == IF service \in CKinds \/ op \in {"get", "put", "list", "copy", "deleteMany"} THEN {} ELSE {"delete", "getTags"}

Next ==
  \/ \E op \in Operations(service) : \E options \in OptionsOf(service, op) : PrepareTemplate(op, options)
  \/ prepared.op # None /\ \E item \in ItemsOf(service, prepared.op) :
       \E op \in {prepared.op} \cup Others(prepared.op) : Write(op, item)
  \/ \E i \in DOMAIN calls : Refuse(i) \/ Serve(i) \/ Accept(i) \/ GiveUp(i)
  \/ OtherWrites \/ CopyEnds \/ Stop

Spec == Init /\ [][Next]_vars

-----------------------------------------------------------------------------
\* Every call does what its options and its item say, at most once and at one
\* moment, and its caller is told what it did, or that nothing will be done.
asked == INSTANCE Asked WITH
  chosen <- IF prepared.op # None /\ template.op = "refused" THEN NoTemplate(prepared) ELSE prepared,
  calls <- [i \in DOMAIN calls |->
              [by |-> calls[i].by, item |-> calls[i].item, told |-> calls[i].told,
               result |-> IF calls[i].answer = Unanswered THEN <<"undone">> ELSE calls[i].answer]]
DoneAsAsked == asked!Spec

\* A copy that is given no metadata stores that of its source, whatever else it
\* is given: "The metadata pairs of each copy, or None to keep the source's"
\* (CopyOptions::metadata, types.rs).
CopyKeepsMetadata ==
  [][\A i \in DOMAIN calls :
       LET options == prepared.options
           item == calls[i].item
           source == Found(objects, item.source, <<options.sourceRevision, item.sourceRevision>>)
       IN /\ calls[i].by \in CopyKinds \ {"stage"} /\ options.metadata = None
          /\ calls[i].answer = Unanswered /\ calls'[i].answer[1] = "done"
          => objects'.now[RequestKey(template, item)].metadata = source.metadata]_vars
=============================================================================
