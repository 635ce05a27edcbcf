-------------------------------- MODULE CEntry ------------------------------
(***************************************************************************)
(* The C interface of reads, whole-object writes and listings.  Variants   *)
(* cross it as numbers, and texts as bytes, where an empty text is none.   *)
(* A caller writes the numbers of the header (types.rs, which the header   *)
(* is generated from), and the calls read them as the numbers of the core: *)
(* a number that names nothing is refused, and never read as another.  A   *)
(* mask is the set of its bits.                                            *)
(***************************************************************************)
EXTENDS AzureCalls

\* What the core reads of an answer: Exchange, with one request of Azure.
Azure(operation, carried, answer) ==
  INSTANCE Exchange WITH
    Statuses <- 100..599, service <- "azure", op <- operation, condition <- carried,
    head <- answer, phase <- None, cause <- None, body <- None, reading <- None, result <- None

CKinds == {"cUnknown", "cFlat", "cHierarchical", "cOther"}

Unnamed == 99              \* a number that the header does not have
Unknown == "Unknown"       \* InvalidRequest::Unknown
NotText == "notText"       \* bytes that are not UTF-8

-----------------------------------------------------------------------------
(* What a caller writes: the enums and the structures of types.rs.         *)

CNamespace == [cUnknown |-> 0, cFlat |-> 1, cHierarchical |-> 2]
CCondition == [none |-> 1, IfMatch |-> 2, IfNoneMatch |-> 3, IfModifiedSince |-> 4,
               IfUnmodifiedSince |-> 5]
CConditionForm == [unset |-> 0, tag |-> 1, time |-> 2]
CGetKind == [none |-> 1, head |-> 2]
CRevisionKind == [current |-> 1, snapshot |-> 2, version |-> 3]
CChecksumKind == [none |-> 0, md5 |-> 1, crc64 |-> 2]
CListInclude == [metadata |-> 1, snapshots |-> 4, versions |-> 8]
CServiceError == [none |-> 0, NotFound |-> 1, NoSuchContainer |-> 2, AlreadyExists |-> 3,
                  Unauthorized |-> 4, Precondition |-> 5, RangeNotSatisfiable |-> 6, Throttled |-> 7,
                  Timeout |-> 8, Service |-> 9, InvalidUpload |-> 10, NoSuchUpload |-> 11]
COutcomeKind == [Body |-> 1, Complete |-> 2, NotModified |-> 3, PreconditionFailed |-> 4,
                 NotFound |-> 5, RangeNotSatisfiable |-> 6, Created |-> 7, NeedErrorBody |-> 9,
                 ServiceFailure |-> 10, Invalid |-> 11, Page |-> 13]

Number(enum, name) == IF name \in DOMAIN enum THEN enum[name] ELSE Unnamed
Bytes(text) == IF text = None THEN "" ELSE text

\* A form, and the offsets that it takes.
CRange(range) ==
  CASE range = "whole"   -> <<1, 0, 0>>
    [] range = "bounded" -> <<2, 1, 3>>
    [] range = "empty"   -> <<2, 1, 1>>
    [] range = "offset"  -> <<3, 1, 0>>
    [] range = "suffix"  -> <<4, 2, 0>>
    [] OTHER             -> <<Unnamed, 0, 0>>

CConditionValue(value) ==
  [form |-> Number(CConditionForm, value[1]),
   e_tag |-> IF value[1] = "tag" THEN value[2] ELSE "",
   seconds |-> IF value[1] = "time" THEN value[2] ELSE 0]

CGetOptions(options) ==
  [kind |-> Number(CGetKind, options.kind), ranging |-> IF options.ranged THEN 2 ELSE 1,
   condition |-> Number(CCondition, options.condition),
   revision |-> Number(CRevisionKind, options.revision)]
CPutOptions(options) ==
  [condition |-> Number(CCondition, options.condition), property |-> Bytes(options.property),
   tier |-> Bytes(options.tier), checksum |-> Number(CChecksumKind, options.checksum)]
CListOptions(options) ==
  [delimiter |-> Bytes(options.delimiter),
   include |-> {Number(CListInclude, name) : name \in options.include}]

CGetItem(item) ==
  [key |-> item.key, range |-> CRange(item.range),
   condition_value |-> CConditionValue(item.value), revision |-> Bytes(item.revision)]
CPutItem(item) ==
  [key |-> item.key, content |-> item.content,
   condition_value |-> CConditionValue(item.value), checksum |-> Bytes(item.checksum)]
CListItem(item) == [prefix |-> item.prefix, marker |-> Bytes(item.marker[1])]

-----------------------------------------------------------------------------
(* What the calls read of it (inputs.rs, step.rs, and from_discriminant of *)
(* the core).                                                              *)

\* from_discriminant of an enum whose numbers count from 1.
Named(names, number) == IF number \in DOMAIN names THEN names[number] ELSE Unknown

ConditionKindOf(number) ==
  Named(<<None, "IfMatch", "IfNoneMatch", "IfModifiedSince", "IfUnmodifiedSince">>, number)
GetKindOf(number) == Named(<<None, "head">>, number)
RangingOf(number) == Named(<<"whole", "ranged">>, number)
RevisionKindOf(number) == Named(<<"current", "snapshot", "version">>, number)
RangeFormOf(number) == Named(<<"Whole", "Bounded", "Offset", "Suffix">>, number)

\* checksum_kind
ChecksumKindOf(number) ==
  IF number = 0 THEN None
  ELSE Named(<<"md5", "crc64", "crc32", "crc32c", "sha1", "sha256">>, number)

\* namespace
NamespaceOf(number) ==
  CASE number = 0 -> "unknown"
    [] number = 1 -> "flat"
    [] number = 2 -> "hierarchical"
    [] OTHER      -> Unknown

\* requested_range
RequestedRange(range) ==
  CASE RangeFormOf(range[1]) = "Whole"   -> "whole"
    [] RangeFormOf(range[1]) = "Bounded" -> IF range[2] < range[3] THEN "bounded" ELSE "empty"
    [] RangeFormOf(range[1]) = "Offset"  -> "offset"
    [] RangeFormOf(range[1]) = "Suffix"  -> IF range[2] > 0 THEN "suffix" ELSE "empty"
    [] OTHER                             -> Unknown

\* condition_value
ConditionValueOf(value) ==
  CASE value.form = 0 -> Unset
    [] value.form = 1 -> Tag(value.e_tag)
    [] value.form = 2 -> Time(value.seconds)
    [] OTHER          -> <<Unknown, 0>>

AbsentIfEmpty(bytes) == IF bytes = "" THEN None ELSE bytes
NotTextOf(bytes, fault) == <<bytes = NotText, fault>>       \* text_or
HasUnknown(names) == <<Unknown \in names, Unknown>>

\* list_options: each flag that the header has, and no other.
Includes == {<<1, "metadata">>, <<4, "snapshots">>, <<8, "versions">>}
IncludeOf(bits) == {flag[2] : flag \in {flag \in Includes : flag[1] \in bits}}
UnknownBits(bits) == bits \ {flag[1] : flag \in Includes} # {}

-----------------------------------------------------------------------------
(* The calls.                                                              *)

\* container_from_values, and the kind of account of a template.
ContainerFault(kind, options) ==
  Fault(<<NotTextOf(options.object, "KeyNotUtf8"),
          HasUnknown({NamespaceOf(Number(CNamespace, kind))})>>)
Account(kind) == NamespaceOf(Number(CNamespace, kind))

\* borink_prepare_get, inputs::get_options
CPrepareGet(kind, options) ==
  LET c == CGetOptions(options)
      read == [NoOptions EXCEPT !.kind = GetKindOf(c.kind), !.ranged = RangingOf(c.ranging) = "ranged",
                                !.condition = ConditionKindOf(c.condition),
                                !.revision = RevisionKindOf(c.revision),
                                !.object = AbsentIfEmpty(Bytes(options.object))]
  IN Unless(Fault(<<HasUnknown({read.kind, RangingOf(c.ranging), read.condition, read.revision}),
                    <<ContainerFault(kind, options) # None, ContainerFault(kind, options)>>>>),
            AzurePrepareGet(read))

\* borink_prepare_put, inputs::put_options
CPreparePut(kind, options) ==
  LET c == CPutOptions(options)
      read == [NoOptions EXCEPT !.condition = ConditionKindOf(c.condition),
                                !.property = AbsentIfEmpty(c.property), !.tier = AbsentIfEmpty(c.tier),
                                !.checksum = ChecksumKindOf(c.checksum),
                                !.object = AbsentIfEmpty(Bytes(options.object))]
  IN Unless(Fault(<<HasUnknown({read.condition, read.checksum}),
                    NotTextOf(c.property, "ContentProperty"), NotTextOf(c.tier, "ContentProperty"),
                    <<ContainerFault(kind, options) # None, ContainerFault(kind, options)>>>>),
            AzurePreparePut(read))

\* borink_prepare_list, inputs::list_options
CPrepareList(kind, options) ==
  LET c == CListOptions(options)
      read == [NoOptions EXCEPT !.delimiter = AbsentIfEmpty(c.delimiter),
                                !.include = IncludeOf(c.include),
                                !.object = AbsentIfEmpty(Bytes(options.object))]
  IN Unless(Fault(<<<<UnknownBits(c.include), Unknown>>, NotTextOf(c.delimiter, "Delimiter"),
                    <<ContainerFault(kind, options) # None, ContainerFault(kind, options)>>>>),
            AzurePrepareList(Account(kind), read))

\* borink_encode_get, inputs::get_item
CEncodeGet(kind, template, item) ==
  LET c == CGetItem(item)
      read == [NoItem EXCEPT !.key = c.key, !.range = RequestedRange(c.range),
                             !.value = ConditionValueOf(c.condition_value),
                             !.revision = AbsentIfEmpty(c.revision)]
      fault == Fault(<<NotTextOf(c.key, "KeyNotUtf8"),
                       HasUnknown({read.range, read.value[1]}), NotTextOf(c.revision, "Revision")>>)
  IN IF fault # None THEN NotSent(fault) ELSE AzureEncodeGet(Account(kind), template, read)

\* borink_encode_put, inputs::put_item
CEncodePut(kind, template, item) ==
  LET c == CPutItem(item)
      read == [NoItem EXCEPT !.key = c.key, !.content = c.content,
                             !.value = ConditionValueOf(c.condition_value),
                             !.checksum = AbsentIfEmpty(c.checksum)]
      fault == Fault(<<NotTextOf(c.key, "KeyNotUtf8"), HasUnknown({read.value[1]}),
                       NotTextOf(c.checksum, "Checksum")>>)
  IN IF fault # None THEN NotSent(fault) ELSE AzureEncodePut(Account(kind), template, read)

\* borink_encode_list, inputs::list_item
CEncodeList(template, item) ==
  LET c == CListItem(item)
      read == [NoItem EXCEPT !.prefix = c.prefix, !.marker = <<AbsentIfEmpty(c.marker), None>>]
      fault == Fault(<<NotTextOf(c.prefix, "Prefix"), NotTextOf(c.marker, "Marker")>>)
  IN IF fault # None THEN NotSent(fault) ELSE AzureEncodeList(template, read)

-----------------------------------------------------------------------------
(* The answers: a caller keeps the shape of a call, and reads the numbers  *)
(* of its outcome.                                                         *)

\* borink_get_item_shape, borink_put_item_shape
CShape(op, options) ==
  CASE op = "get" -> [kind |-> CGetOptions(options).kind, condition |-> CGetOptions(options).condition]
    [] op = "put" -> [kind |-> 0, condition |-> CPutOptions(options).condition]
    [] OTHER      -> [kind |-> 0, condition |-> CCondition[None]]

\* A condition as Exchange has it: a date fails as its tag does.
AsTag(condition) ==
  CASE condition \in {"IfMatch", "IfUnmodifiedSince"}     -> "IfMatch"
    [] condition \in {"IfNoneMatch", "IfModifiedSince"} -> "IfNoneMatch"
    [] OTHER                                            -> None
CarriedBy(shape) == AsTag(ConditionKindOf(shape.condition))
OperationOf(op, shape) == IF op = "get" /\ GetKindOf(shape.kind) = "head" THEN "head" ELSE op

\* get_outcome, put_outcome, list_outcome
Outcome(kind, failure) == [kind |-> COutcomeKind[kind], failure |-> CServiceError[failure]]
Success == [get |-> "Body", head |-> "Complete", put |-> "Created", list |-> "Page"]
OutcomeOf(op, told) ==
  CASE told.verdict = "done"                -> Outcome(Success[op], None)
    [] told.verdict = "not_modified"        -> Outcome("NotModified", None)
    [] told.verdict = "precondition_failed" -> Outcome("PreconditionFailed", None)
    [] told.verdict = "not_found"           -> Outcome("NotFound", told.kind)
    [] told.verdict = "not_satisfiable"     -> Outcome("RangeNotSatisfiable", None)
    [] told.verdict = "need_error_body"     -> Outcome("NeedErrorBody", None)
    [] told.verdict = "failure"             -> Outcome("ServiceFailure", told.kind)
    [] told.verdict = "fault"               -> Outcome("Invalid", None)

\* borink_accept_get_head, borink_accept_put_head, borink_accept_list_head
CAcceptHead(op, shape, head) ==
  LET asked == OperationOf(op, shape)
  IN IF ConditionKindOf(shape.condition) = Unknown THEN Outcome("Invalid", None)
     ELSE OutcomeOf(asked, Azure(asked, CarriedBy(shape), head)!AcceptAzureHead)

\* borink_accept_get_error_body, borink_accept_put_error_body,
\* borink_accept_list_error_body: the failure of the head keeps its status.
CAcceptErrorBody(op, shape, head, body) ==
  LET asked == OperationOf(op, shape)
  IN IF ConditionKindOf(shape.condition) = Unknown THEN Outcome("Invalid", None)
     ELSE OutcomeOf(asked, Azure(asked, CarriedBy(shape), head)!AcceptErrorBody(body))
=============================================================================
