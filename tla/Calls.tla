-------------------------------- MODULE Calls -------------------------------
(***************************************************************************)
(* What the requests of S3 and Azure are made of, and the checks that they *)
(* share (validate.rs).  A call has options, which its template holds, and *)
(* an item, which a request adds to it.  One record of options, and one of *)
(* items, has the fields of every operation: those that an operation does  *)
(* not have are left as they are in NoOptions and NoItem.  A request has a *)
(* method, a key or none, parameters and fields, each a set of pairs of a  *)
(* name and a value.  A template of one object writes its key itself.      *)
(***************************************************************************)
EXTENDS Naturals, Sequences, FiniteSets

None == "none"
Unset == <<"unset", 0>>
Tag(name) == <<"tag", name>>
Time(seconds) == <<"time", seconds>>

NoOptions ==
  [condition |-> None, revision |-> "current", kind |-> None, ranged |-> FALSE,
   checksum |-> None, signed |-> FALSE, metadata |-> None, tags |-> None, storedTags |-> None,
   tier |-> None, property |-> None, endpoint |-> None, container |-> None,
   sourceRevision |-> "current", sourceCondition |-> None, sourceRanged |-> FALSE,
   session |-> FALSE, object |-> None, days |-> None, priority |-> "Standard", include |-> {}, delimiter |-> None]

NoItem ==
  [key |-> "k", value |-> Unset, revision |-> None, range |-> "whole", checksum |-> None,
   digest |-> FALSE, content |-> None, source |-> None, sourceValue |-> Unset,
   sourceRevision |-> None, sourceRange |-> "whole", part |-> None, copyId |-> None,
   prefix |-> "", marker |-> <<None, None>>, startAfter |-> None, targets |-> <<>>]

Template(op, options) == [op |-> op, options |-> options]
NoTemplate(why) == Template("refused", why)
Request(method, key, query, fields) ==
  [method |-> method, key |-> key, query |-> query, fields |-> fields]
NotSent(why) == Request("refused", None, {}, {<<"why", why>>})

Unless(fault, template) == IF fault # None THEN NoTemplate(fault) ELSE template
Sends(fault, request) == IF fault # None THEN NotSent(fault) ELSE request

\* The first refusal of a sequence of checks, each of a condition and a name.
Fault(checks) ==
  LET failed == {i \in DOMAIN checks : checks[i][1]}
  IN IF failed = {} THEN None
     ELSE checks[CHOOSE i \in failed : \A j \in failed : i <= j][2]

Pair(holds, name, value) == IF holds THEN {<<name, value>>} ELSE {}
Or(value, other) == IF value = None THEN other ELSE value
Given(name, value) == Pair(value \notin {None, Unset}, name, value)

-----------------------------------------------------------------------------
(* Checks.                                                                 *)

Dates == {"IfModifiedSince", "IfUnmodifiedSince"}
Tags == {"IfMatch", "IfNoneMatch"}

\* Mutant: a template without a condition takes an item that has one.
ConditionHeld(kind, value) ==
  CASE kind = None   -> TRUE
    [] kind \in Tags -> value[1] = "tag" /\ value[2] # "bad"
    [] OTHER         -> value[1] = "time"

\* validate_condition
ValidCondition(kind, value) ==
  CASE kind = None   -> value = Unset
    [] kind \in Tags -> value[1] = "tag" /\ value[2] # "bad"
    [] OTHER         -> value[1] = "time"

\* validate_revision_item
ValidRevisionItem(kind, revision) ==
  IF kind = "current" THEN revision = None ELSE revision \notin {None, ""}

\* validate_checksum_item
ValidChecksumItem(kind, checksum) == kind = checksum

\* validate_get_options
GetOptionsFault(options, keepsSnapshots) ==
  Fault(<<<<options.kind = "head" /\ options.ranged, "RangedHead">>,
          <<options.revision = "snapshot" /\ ~ keepsSnapshots, "Revision">>>>)

\* validate_get_item
GetItemFault(options, item) ==
  Fault(<<<<(item.range # "whole") # options.ranged \/ item.range = "empty", "Range">>,
          <<~ ValidRevisionItem(options.revision, item.revision), "Revision">>,
          <<~ ValidCondition(options.condition, item.value), "Condition">>>>)

\* validate_delimiter
ValidDelimiter(delimiter, slashOnly) ==
  delimiter # "" /\ (slashOnly => delimiter \in {None, "/"})

\* validate_source_range
SourceRangeFault(ranged, range) ==
  Fault(<<<<ranged /\ range = "suffix", "UnsupportedRange">>,
          <<(range # "whole") # ranged \/ range = "empty", "Range">>>>)

\* validate_source_container: a name that would change a URL.
ValidSourceContainer(container) == container \notin {"", "a/b"}

\* request_key, with the fault of a key that is given: a template of one
\* object takes its key, or an empty one.
RequestKey(template, item) ==
  IF template.options.object = None THEN item.key ELSE template.options.object
RequestKeyFault(template, item, fault) ==
  IF template.options.object = None THEN fault
  ELSE Fault(<<<<item.key \notin {"", template.options.object}, "Template">>>>)

\* validate_properties, validate_tags, and the rules for metadata: one text of
\* each stands for all that a service would not store as it is given.
Storable(text) == text # "bad"

\* validate_revision
ValidTarget(target, keepsSnapshots) ==
  CASE target.kind = "current"                      -> TRUE
    [] target.kind = "snapshot" /\ ~ keepsSnapshots -> FALSE
    [] OTHER                                        -> target.id # ""

\* A part stores nothing of its own.
StoresNothing(options) ==
  /\ options.condition = None /\ options.metadata = None /\ options.tags = None
  /\ options.storedTags = None /\ options.tier = None /\ options.property = None

\* condition_header_name
HeaderOf(condition) ==
  CASE condition = "IfMatch"           -> "if-match"
    [] condition = "IfNoneMatch"       -> "if-none-match"
    [] condition = "IfModifiedSince"   -> "if-modified-since"
    [] condition = "IfUnmodifiedSince" -> "if-unmodified-since"
    [] OTHER                           -> None
ConditionField(condition, value) == Pair(condition # None, HeaderOf(condition), value)

\* source_condition_header
SourceHeaderOf(condition) ==
  CASE condition = "IfMatch"           -> "source-if-match"
    [] condition = "IfNoneMatch"       -> "source-if-none-match"
    [] condition = "IfModifiedSince"   -> "source-if-modified-since"
    [] condition = "IfUnmodifiedSince" -> "source-if-unmodified-since"
    [] OTHER                           -> None
SourceField(condition, value) == Pair(condition # None, SourceHeaderOf(condition), value)
=============================================================================
