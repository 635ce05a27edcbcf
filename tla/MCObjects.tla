------------------------------ MODULE MCObjects -----------------------------
EXTENDS Objects

MCServices == {"aws", "directory", "compatible", "flat", "hierarchical"} \cup CKinds

\* k is missing; there, with a version and a snapshot where those are kept;
\* or the target of a copy that has not ended.
Bare0(present) ==
  [now |-> [key \in {"k", "s", "", "a/..", "long", "control", NotText} |->
              CASE key = "s" -> [Stored("t3", "source") EXCEPT !.metadata = "sm", !.tags = "st",
                                                               !.property = "sp", !.tier = "Archive"]
                [] key = "k" /\ present -> [Stored("t2", "old") EXCEPT !.tags = "kt"]
                [] OTHER -> Absent],
   kept |-> {}, staged |-> {}, pending |-> {}, writes |-> 3]
Old(at) == [key |-> "k", at |-> at, object |-> Stored("t1", "older")]
MCStores(kind) ==
  {Bare0(FALSE),
   [Bare0(TRUE) EXCEPT
      !.kept = (IF Versioned(kind) THEN {Old(<<"version", "t1">>)} ELSE {})
                 \cup (IF kind \in S3Services THEN {} ELSE {Old(<<"snapshot", "n1">>)})]}
  \cup (IF kind \in S3Services THEN {}
        ELSE {[Bare0(TRUE) EXCEPT !.now["k"].content = "pending",
                                  !.pending = {[key |-> "k", id |-> "c1", content |-> "source"]}]})

MCOperations(kind) ==
  IF kind \in CKinds THEN {"get", "put", "list"}
  ELSE
  {"get", "put", "delete", "setTags", "getTags", "restore", "list", "copy", "stage", "deleteMany"}
  \cup (IF kind \in S3Services THEN {}
        ELSE {"snapshot", "setMetadata", "setProperties", "setTier", "copyFromUrl", "putFromUrl",
              "abortCopy"})

Conditions == Dates \cup Tags
With(base, field, values) == {[base EXCEPT ![field] = value] : value \in values}

OptionsBase(kind, op) ==
  CASE op = "delete"        -> [NoOptions EXCEPT !.kind = "object"]
    [] op = "setTags"       -> [NoOptions EXCEPT !.tags = "new"]
    [] op = "setMetadata"   -> [NoOptions EXCEPT !.metadata = "new"]
    [] op = "setProperties" -> [NoOptions EXCEPT !.property = "new"]
    [] op = "setTier"       -> [NoOptions EXCEPT !.tier = "Cool"]
    [] op = "restore" /\ kind \notin S3Services -> [NoOptions EXCEPT !.tier = "Hot"]
    [] op = "deleteMany" /\ kind \in S3Services -> [NoOptions EXCEPT !.checksum = "crc64"]
    [] OTHER                -> NoOptions

OptionsOfEach(kind, op) ==
  LET base == OptionsBase(kind, op)
      revised == With(base, "revision", {"version", "snapshot"})
      conditioned == With(base, "condition", Conditions)
      stored == With(base, "metadata", {"new", "bad", "empty"})
                  \cup With(base, "property", {"new", "bad"}) \cup With(base, "tier", {"Cool"})
      own == With(base, "object", {"k", "", "a/..", "long"})
      \* Through C: numbers that name nothing, and bytes that are no text.
      inC == CASE op = "get" -> own \cup revised \cup conditioned \cup With(base, "ranged", {TRUE})
                                  \cup With(base, "kind", {"head", "later"})
                                  \cup With(base, "condition", {"later"}) \cup With(base, "revision", {"later"})
               [] op = "put" -> own \cup conditioned \cup With(base, "property", {"new", "bad", NotText})
                                  \cup With(base, "tier", {"Cool", NotText})
                                  \cup With(base, "checksum", {"crc64", "later"})
               [] op = "list" -> With(base, "include", {{"versions"}, {"metadata"}, {"snapshots"}, {"later"},
                                                        {"versions", "later"}, {"versions", "snapshots"}})
                                   \cup With(base, "delimiter", {"/", "k", NotText})
  IN {base} \cup
     CASE kind \in CKinds -> {one \in inC : one.object # ""} \cup With(base, "object", {NotText})
       [] op = "get" -> revised \cup conditioned \cup own \cup With(base, "ranged", {TRUE})
                          \cup With(base, "kind", {"head"})
                          \cup {[base EXCEPT !.kind = "head", !.ranged = TRUE],
                                [base EXCEPT !.revision = "version", !.condition = "IfNoneMatch"]}
       [] op = "put" -> conditioned \cup stored \cup own \cup With(base, "storedTags", {"new", "bad"})
       [] op = "delete" -> revised \cup conditioned \cup own \cup With(base, "kind", {"all", "only"})
                             \cup {[base EXCEPT !.kind = "only", !.revision = "version"]}
       [] op \in {"getTags", "setTags"} -> revised \cup With(base, "tags", {"bad"})
       [] op = "restore" -> revised \cup With(base, "days", {"0", "7"}) \cup With(base, "tier", {None, "Cool"})
                              \cup With(base, "priority", {"Bulk", "High"})
       [] op \in {"snapshot", "setMetadata"} -> conditioned \cup With(base, "metadata", {"new", "bad"})
       [] op = "setProperties" -> conditioned \cup With(base, "property", {"bad"})
       [] op = "list" -> With(base, "include", {{"versions"}, {"owner"}, {"metadata"}, {"snapshots"},
                                                {"versions", "metadata"}}) \cup With(base, "object", {"k"})
                           \cup With(base, "delimiter", {"/", "k", ""})
       [] op = "stage" -> With(base, "sourceRanged", {TRUE}) \cup With(base, "sourceCondition", Tags)
                            \cup With(base, "sourceRevision", {"version", "snapshot"}) \cup stored
       [] op \in CopyKinds ->
            stored \cup With(base, "condition", Tags) \cup With(base, "sourceCondition", Conditions)
              \cup With(base, "sourceRevision", {"version", "snapshot"})
              \cup With(base, "container", {"other", "a/b"}) \cup With(base, "endpoint", {"other", "plain"})
              \cup With(base, "storedTags", {"new"}) \cup With(base, "sourceRanged", {TRUE})
              \cup With(base, "tags", IF kind \in S3Services THEN {"new", "empty"} ELSE {"new"})
              \cup {[base EXCEPT !.metadata = "new", !.property = "new"],
                    [base EXCEPT !.condition = "IfMatch", !.sourceCondition = "IfMatch"]}
       [] op = "deleteMany" -> With(base, "object", {"k"})
       [] OTHER -> {}

\* A copy of S3 that gives a property and no metadata is not done as asked:
\* MCObjectsKept.cfg has it, and the others leave it out.
GivesPropertyAlone(kind, op, options) ==
  kind \in S3Services /\ op = "copy" /\ options.property = "new" /\ options.metadata = None
MCOptionsOf(kind, op) ==
  {options \in OptionsOfEach(kind, op) : ~ GivesPropertyAlone(kind, op, options)}
MCCopies(kind) == (CopyKinds \cap MCOperations(kind)) \ {"stage"}

Values == {Unset, Tag("t2"), Tag("t3"), Tag("*"), Tag("bad"), Time(2)}
Removed(key, kind, id) == [key |-> key, kind |-> kind, id |-> id]
ItemBase(op) ==
  CASE op \in CopyKinds -> [NoItem EXCEPT !.source = "s", !.part = "p1"]
    [] op = "put"         -> [NoItem EXCEPT !.content = "new"]
    [] op = "abortCopy"   -> [NoItem EXCEPT !.copyId = "c1"]
    [] OTHER              -> NoItem
MCItemsOf(kind, op) ==
  LET base == ItemBase(op)
      keyed == With(base, "key", {"", "s", "a/..", "long"})
      valued == With(base, "value", Values)
      revised == With(base, "revision", {"", "t1", "n1"})
      inC == CASE op = "get" -> keyed \cup valued \cup revised
                                  \cup With(base, "range", {"bounded", "offset", "suffix", "empty", "later"})
               [] op = "put" -> keyed \cup valued \cup With(base, "content", {"tooLong"})
                                  \cup With(base, "checksum", {"crc64", NotText})
               [] op = "list" -> With(base, "prefix", {"k", "p/", NotText})
                                   \cup With(base, "marker", {<<"k", None>>, <<NotText, None>>})
  IN {base} \cup
     CASE kind \in CKinds -> {one \in inC : one.revision # ""} \cup With(base, "key", {NotText})
                               \cup With(base, "value", {<<"later", 0>>})
       [] op = "get" -> keyed \cup valued \cup revised \cup With(base, "range", {"bounded", "offset", "suffix", "empty"})
                          \cup {[base EXCEPT !.revision = "t1", !.value = Tag("t1")]}
       [] op = "put" -> keyed \cup valued \cup With(base, "content", {"tooLong"})
       [] op = "list" -> With(base, "prefix", {"k", "p/"}) \cup With(base, "startAfter", {"", "k"})
                           \cup With(base, "marker", {<<"k", None>>, <<"k", "">>, <<"k", "t1">>, <<"", None>>})
       [] op \in CopyKinds ->
            With(base, "value", {Tag("t2"), Tag("*")}) \cup With(base, "source", {"k", ""})
              \cup With(base, "sourceValue", {Tag("t3"), Tag("t2"), Time(2), Time(3)})
              \cup {[base EXCEPT !.source = "k", !.sourceRevision = revision] : revision \in {"t1", "n1", ""}}
              \cup With(base, "sourceRange", {"bounded", "suffix"}) \cup With(base, "part", {""})
              \cup {[base EXCEPT !.value = Tag("t2"), !.sourceValue = Tag("t3")]}
       [] op = "abortCopy"  -> keyed \cup With(base, "copyId", {"", "c2"})
       [] op = "deleteMany" ->
            With(base, "targets",
                 {<<Removed("k", "current", None)>>,
                  <<Removed("k", "current", None), Removed("s", "current", None)>>,
                  <<Removed("k", "version", "t1"), Removed("s", "current", None)>>,
                  <<Removed("k", "snapshot", "n1"), Removed("k", "current", None)>>,
                  <<Removed("k", "current", None), Removed("k", "current", None)>>,
                  <<Removed("control", "current", None)>>, <<Removed("k", "version", "")>>,
                  <<Removed("a/..", "current", None), Removed("k", "current", None)>>,
                  <<Removed("k", "current", None), Removed("s", "current", None),
                    Removed("k", "version", "t1")>>})
       [] OTHER -> keyed \cup valued \cup revised

\* What is not refused: an operation as it is, with a condition, a revision or
\* a range, or with one thing to store, where the service has it.
MCTakenOptions(kind, op, options) ==
  LET base == OptionsBase(kind, op)
      taken ==
        CASE op = "get" -> With(base, "condition", Conditions) \cup With(base, "ranged", {TRUE})
                             \cup With(base, "kind", {"head"}) \cup With(base, "revision", {"version"})
                             \cup With(base, "object", {"k"})
          [] op = "put" -> With(base, "property", {"new"}) \cup With(base, "tier", {"Cool"})
                             \cup With(base, "condition", Tags) \cup With(base, "object", {"k"})
          [] op = "list" -> With(base, "delimiter", {"/"}) \cup
               With(base, "include", IF kind \in S3Services THEN {{"owner"}} ELSE {{"metadata"}, {"snapshots"}})
          [] OTHER -> {}
  IN /\ kind # "cOther"
     /\ ~ (kind = "directory" /\ op = "restore")
     /\ options \in {base} \cup taken
MCTakenItems(kind, op, options) ==
  LET value == CASE options.condition = None  -> Unset
                 [] options.condition \in Tags -> Tag(IF op = "put" /\ options.condition = "IfNoneMatch" THEN "*" ELSE "t2")
                 [] OTHER                      -> Time(2)
  IN {[ItemBase(op) EXCEPT
         !.value = value,
         !.revision = IF options.revision = "current" THEN None ELSE "t1",
         !.range = IF options.ranged THEN "bounded" ELSE "whole",
         !.targets = IF op = "deleteMany" THEN <<Removed("k", "current", None)>> ELSE <<>>]}
=============================================================================
