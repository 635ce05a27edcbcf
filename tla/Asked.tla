-------------------------------- MODULE Asked -------------------------------
(***************************************************************************)
(* What the operations promise, for S3 and Azure alike.  A caller chooses  *)
(* an operation and its options, and calls it on one item or more.  A call *)
(* is done at most once, and what is done is what its options and its item *)
(* say, at the moment at which it is done.  Its caller is told the result, *)
(* or that it was refused, and then it is never done; or nothing, and then *)
(* it may be done, and may still be.  What a service is known to take is   *)
(* not refused.  A call by the function of another operation is.           *)
(***************************************************************************)
EXTENDS Effects

CONSTANTS Services,        \* the services
          Stores(_),       \* the objects that a service starts with
          Operations(_), OptionsOf(_, _), ItemsOf(_, _),   \* what callers ask of each
          TakenOptions(_, _, _), TakenItems(_, _, _),      \* what is not refused
          MaxCalls,        \* bound: calls
          MaxWrites,       \* bound: writes of others
          Unsure           \* told of a call whose answer says nothing

VARIABLES service, objects, chosen, calls
vars == <<service, objects, chosen, calls>>

Refused == <<"refused">>
Untold == <<"untold">>
Undone == <<"undone">>
Call(by, item) == [by |-> by, item |-> item, result |-> Undone, told |-> Untold]

-----------------------------------------------------------------------------
(* What a call asks for, of its options and its item.                      *)

KeyOf(options, item) == IF options.object = None THEN item.key ELSE options.object
Copies == {"copy", "copyFromUrl", "putFromUrl", "stage"}

\* A copy stores the metadata that it is given, which may be empty, or its
\* source's.  It stores the properties that it is given, or its source's; but to
\* S3 they are of one piece with the metadata, and go when that is replaced.
Replaced(value) == IF value \in {None, "empty"} THEN "replaced" ELSE value
MetadataOf(options) == IF options.metadata = None THEN None ELSE Replaced(options.metadata)
PropertyOf(kind, options) ==
  IF kind \in S3Services /\ options.metadata # None THEN Replaced(options.property)
  ELSE options.property

Meaning(kind, op, options, item) ==
  LET bare == [Deed EXCEPT
                 !.verb = IF op = "get" /\ options.kind = "head" THEN "head" ELSE op,
                 !.key = KeyOf(options, item),
                 !.when = <<options.condition, item.value>>]
      revised == [bare EXCEPT !.at = <<options.revision, item.revision>>]
      copied == [bare EXCEPT
                   !.from = [container |-> IF options.endpoint # None THEN "elsewhere"
                                           ELSE Or(options.container, "own"),
                             key |-> item.source,
                             at |-> <<options.sourceRevision, item.sourceRevision>>,
                             when |-> <<options.sourceCondition, item.sourceValue>>],
                   !.tags = options.tags, !.tier = options.tier]
  IN CASE op = "get"    -> [revised EXCEPT !.extent = item.range]
       [] op = "put"    -> [bare EXCEPT !.content = item.content, !.metadata = options.metadata,
                                        !.tags = options.storedTags, !.tier = options.tier,
                                        !.property = options.property]
       [] op = "delete" -> [revised EXCEPT !.extent = options.kind]
       [] op = "setTags"       -> [revised EXCEPT !.tags = options.tags]
       [] op = "getTags"       -> revised
       [] op = "restore"       -> [revised EXCEPT !.tier = options.tier,
                                                  !.extent = <<options.priority, options.days>>]
       [] op = "setTier"       -> [bare EXCEPT !.tier = options.tier]
       [] op \in {"setMetadata", "snapshot"} -> [bare EXCEPT !.metadata = options.metadata]
       [] op = "setProperties" -> [bare EXCEPT !.property = options.property]
       [] op = "list" -> [Deed EXCEPT !.verb = op,
                            !.extent = [include |-> options.include, delimiter |-> options.delimiter,
                                        prefix |-> item.prefix, after |-> item.startAfter,
                                        marker |-> item.marker]]
       [] op = "stage" -> [copied EXCEPT !.extent = <<item.part, item.sourceRange>>]
       [] op \in Copies -> [copied EXCEPT !.metadata = MetadataOf(options),
                                          !.property = PropertyOf(kind, options)]
       [] op = "abortCopy"  -> [bare EXCEPT !.extent = item.copyId]
       [] op = "deleteMany" -> [Deed EXCEPT !.verb = op, !.extent = item.targets]

\* S3 names what a batch removed, and Azure numbers it: one may leave some
\* out, the other answers all of them or none.
Tells(kind, call) ==
  IF chosen.op = "deleteMany" /\ kind \in S3Services
  THEN LET targets == call.item.targets
           each == {<<targets[i].key, targets[i].id, call.result[2][2][i]>> : i \in DOMAIN targets}
       IN {Done(<<"named", named>>) : named \in SUBSET each}
  ELSE {call.result}

-----------------------------------------------------------------------------
Init ==
  /\ service \in Services
  /\ objects \in Stores(service)
  /\ chosen = Template(None, NoOptions)
  /\ calls = <<>>

Choose == \E op \in Operations(service) : \E options \in OptionsOf(service, op) :
  /\ chosen.op = None
  /\ \/ chosen' = Template(op, options)
     \/ ~ TakenOptions(service, op, options) /\ chosen' = NoTemplate(Template(op, options))
  /\ UNCHANGED <<service, objects, calls>>

Ask(by) == \E item \in ItemsOf(service, chosen.op) :
  /\ Len(calls) < MaxCalls
  /\ calls' = Append(calls, Call(by, item))
  /\ UNCHANGED <<service, objects, chosen>>

\* A service does what it was asked for once, though its caller waits no more.
Do(i) ==
  /\ calls[i].result = Undone /\ calls[i].told # Refused /\ calls[i].by = chosen.op
  /\ \E end \in Effects(service, Meaning(service, chosen.op, chosen.options, calls[i].item), objects) :
       /\ objects' = end.objects
       /\ calls' = [calls EXCEPT ![i].result = end.result]
  /\ UNCHANGED <<service, chosen>>

MayRefuse(call) ==
  call.by # chosen.op \/ ~ TakenOptions(service, chosen.op, chosen.options)
    \/ call.item \notin TakenItems(service, chosen.op, chosen.options)

Tell(i) ==
  /\ calls[i].told = Untold
  /\ \E told \in {Unsure} \cup (CASE calls[i].result # Undone -> Tells(service, calls[i])
                                  [] MayRefuse(calls[i])      -> {Refused}
                                  [] OTHER                    -> {}) :
       calls' = [calls EXCEPT ![i].told = told]
  /\ UNCHANGED <<service, objects, chosen>>

OtherWrites ==
  /\ objects.writes < MaxWrites
  /\ objects' = Written(service, objects, "k", Stored(None, "theirs"))
  /\ UNCHANGED <<service, chosen, calls>>

CopyEnds ==
  /\ \E copy \in objects.pending : objects' = Finished(objects, copy)
  /\ UNCHANGED <<service, chosen, calls>>

Next ==
  \/ Choose \/ (chosen.op \notin {None, "refused"} /\ \E by \in Operations(service) : Ask(by))
  \/ OtherWrites \/ CopyEnds
  \/ \E i \in DOMAIN calls : Do(i) \/ Tell(i)

Spec == Init /\ [][Next]_vars
=============================================================================
