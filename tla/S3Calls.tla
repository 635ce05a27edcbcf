------------------------------- MODULE S3Calls ------------------------------
(***************************************************************************)
(* The operations of S3 but uploads in parts: what each refuses, in its    *)
(* options and in its item, and the request that it writes (s3/mod.rs,     *)
(* s3/copy.rs, s3/tags.rs, s3/batch.rs, s3/restore.rs).                    *)
(***************************************************************************)
EXTENDS Calls

CONSTANT MaxDeleteKeys     \* MAX_DELETE_KEYS and MAX_BATCH_KEYS, 1000 and 256

S3Kinds == {"aws", "directory", "compatible"}
IsAwsKind(service) == service \in {"aws", "directory"}

\* validate_key: neither an empty key nor one that a host would change.
S3KeyFault(key) ==
  Fault(<<<<key = "", "EmptyKey">>, <<key = "a/..", "KeyWouldBeNormalized">>>>)

S3RequestFault(template, item) == RequestKeyFault(template, item, S3KeyFault(item.key))

\* version_param
VersionParam(kind, revision) == Pair(kind = "version", "versionId", revision)

\* validate_stored_properties
StoredFault(options) ==
  Fault(<<<<~ Storable(options.property) \/ ~ Storable(options.tier), "ContentProperty">>,
          <<~ Storable(options.storedTags), "Tag">>>>)

\* push_stored_fields
StoredFields(options) ==
  Given("property", options.property) \cup Given("x-amz-storage-class", options.tier)
    \cup Given("x-amz-tagging", options.storedTags)

\* validate_write_condition
ValidWriteCondition(service, kind, value) ==
  /\ ValidCondition(kind, value)
  /\ IsAwsKind(service) => kind \notin Dates /\ (kind = "IfNoneMatch" => value = Tag("*"))

-----------------------------------------------------------------------------
(* Objects.                                                                *)

\* prepare_get, describe_get
S3PrepareGet(service, options) == Unless(GetOptionsFault(options, FALSE), Template("get", options))

\* encode_get
S3EncodeGet(template, item) ==
  LET options == template.options
  IN Sends(Fault(<<<<template.op # "get", "Template">>,
                   <<S3RequestFault(template, item) # None, S3RequestFault(template, item)>>,
                   <<GetItemFault(options, item) # None, GetItemFault(options, item)>>>>),
           Request(IF options.kind = "head" THEN "HEAD" ELSE "GET", RequestKey(template, item),
                   VersionParam(options.revision, item.revision),
                   ConditionField(options.condition, item.value)
                     \cup Pair(options.ranged, "range", item.range)))

\* prepare_put, describe_put
S3PreparePut(service, options) ==
  Unless(Fault(<<<<~ Storable(options.metadata), "Metadata">>,
                 <<StoredFault(options) # None, StoredFault(options)>>,
                 <<IsAwsKind(service) /\ options.condition \in Dates, "Condition">>>>),
         Template("put", options))

\* encode_put
S3EncodePut(service, template, item) ==
  LET options == template.options
  IN Sends(Fault(<<<<template.op # "put", "Template">>,
                   <<S3RequestFault(template, item) # None, S3RequestFault(template, item)>>,
                   <<item.content = "tooLong", "PayloadTooLarge">>,
                   <<~ ValidWriteCondition(service, options.condition, item.value), "Condition">>,
                   <<~ ValidChecksumItem(options.checksum, item.checksum), "Checksum">>,
                   <<options.signed # item.digest, "Option">>>>),
           Request("PUT", RequestKey(template, item), {},
                   {<<"content", item.content>>} \cup StoredFields(options)
                     \cup Given("metadata", options.metadata)
                     \cup Given("checksum", item.checksum)
                     \cup ConditionField(options.condition, item.value)))

\* prepare_object: the operations that name an object and nothing else.
S3PrepareObject(op, options) ==
  Unless(Fault(<<<<options.revision = "snapshot", "Revision">>>>), Template(op, options))

\* describe_object
S3Method(op) ==
  CASE op = "delete" -> "DELETE" [] op = "getTags" -> "GET" [] op = "setTags" -> "PUT"
    [] op = "restore" -> "POST"
S3Param(op) ==
  CASE op = "delete" -> {} [] op = "restore" -> {<<"restore", "">>}
    [] OTHER -> {<<"tagging", "">>}
S3ObjectBody(op, options) ==
  CASE op = "setTags" -> {<<"tagset", options.tags>>}
    [] op = "restore" -> {<<"tier", options.priority>>} \cup Given("days", options.days)
    [] OTHER          -> {}

\* encode_object, describe_object
S3EncodeObject(op, template, item) ==
  LET options == template.options
  IN Sends(Fault(<<<<template.op # op, "Template">>,
                   <<S3RequestFault(template, item) # None, S3RequestFault(template, item)>>,
                   <<~ ValidRevisionItem(options.revision, item.revision), "Revision">>,
                   <<~ ValidCondition(options.condition, item.value), "Condition">>>>),
           Request(S3Method(op), RequestKey(template, item), S3Param(op) \cup VersionParam(options.revision, item.revision),
                   S3ObjectBody(op, options) \cup ConditionField(options.condition, item.value)
                     \cup Given("checksum", options.checksum)))

\* prepare_delete
S3PrepareDelete(service, options) ==
  IF options.kind # "object" THEN NoTemplate("Option")
  ELSE IF IsAwsKind(service) /\ options.condition \notin {None, "IfMatch"}
       THEN NoTemplate("Condition")
       ELSE S3PrepareObject("delete", options)

\* prepare_put_tagging, prepare_get_tagging: neither has a condition.
S3PreparePutTagging(options) ==
  IF ~ Storable(options.tags) THEN NoTemplate("Tag")
  ELSE S3PrepareObject("setTags", [options EXCEPT !.condition = None])
S3PrepareGetTagging(options) ==
  S3PrepareObject("getTags", [options EXCEPT !.condition = None, !.checksum = None])

\* prepare_restore, write_restore_request
S3PrepareRestore(service, options) ==
  IF service = "directory" \/ options.tier # None \/ options.days = "0" THEN NoTemplate("Option")
  ELSE S3PrepareObject("restore", [options EXCEPT !.condition = None])

-----------------------------------------------------------------------------
(* Listings.                                                               *)

\* prepare_list
S3PrepareList(service, options) ==
  Unless(Fault(<<<<~ ValidDelimiter(options.delimiter, service = "directory"), "Delimiter">>,
                 <<options.include \cap {"metadata", "snapshots"} # {}
                     \/ ("versions" \in options.include /\ service = "directory"), "Option">>>>),
         Template("list", options))

\* encode_list, describe_list.  A marker is text, or a key with a version.
S3EncodeList(service, template, item) ==
  LET options == template.options
      versions == "versions" \in options.include
      marked == item.marker # <<None, None>>
      text == item.marker[2] = None
      honest == IF versions THEN ~ text /\ item.marker[1] # "" ELSE text /\ item.marker[1] # ""
  IN Sends(Fault(<<<<template.op # "list", "Template">>,
                   <<marked /\ ~ honest, "Marker">>,
                   <<service = "directory" /\ item.prefix \notin {"", "p/"}, "Prefix">>,
                   <<versions /\ item.startAfter \notin {None, ""}, "Option">>>>),
           Request("GET", None,
                   (IF versions
                    THEN {<<"versions", "">>} \cup Pair(marked, "key-marker", item.marker[1])
                           \cup Pair(marked /\ item.marker[2] # "", "version-id-marker", item.marker[2])
                    ELSE {<<"list-type", "2">>} \cup Pair(marked, "continuation-token", item.marker[1])
                           \cup Given("start-after", item.startAfter)
                           \cup Pair("owner" \in options.include, "fetch-owner", "true"))
                   \cup Given("delimiter", options.delimiter)
                   \cup Pair(item.prefix # "", "prefix", item.prefix), {}))

-----------------------------------------------------------------------------
(* Copies.                                                                 *)

\* prepare_copy_kind
S3PrepareCopy(service, op, options) ==
  Unless(Fault(<<<<options.session, "Option">>,
                 <<options.endpoint # None, "CopySource">>,
                 <<~ ValidSourceContainer(options.container), "CopySource">>,
                 <<options.sourceRevision = "snapshot", "Revision">>,
                 <<op = "stage" /\ ~ StoresNothing(options), "Option">>,
                 <<op # "stage" /\ options.sourceRanged, "Range">>,
                 <<~ Storable(options.metadata), "Metadata">>,
                 <<options.storedTags # None, "Option">>,
                 <<~ Storable(options.tags), "Tag">>,
                 <<StoredFault(options) # None, StoredFault(options)>>,
                 <<IsAwsKind(service) /\ options.condition \in Dates, "Condition">>>>),
         Template(op, options))

\* encode_copy_kind, describe_copy.  Metadata and tags replace the source's
\* when they are given, also when there are none of them.
S3EncodeCopy(service, op, template, item) ==
  LET options == template.options
  IN Sends(Fault(<<<<template.op # op, "Template">>,
                   <<S3RequestFault(template, item) # None, S3RequestFault(template, item)>>,
                   <<S3KeyFault(item.source) # None, S3KeyFault(item.source)>>,
                   <<op = "stage" /\ item.part = "", "UploadId">>,
                   <<~ ValidRevisionItem(options.sourceRevision, item.sourceRevision), "Revision">>,
                   <<~ ValidWriteCondition(service, options.condition, item.value), "Condition">>,
                   <<~ ValidCondition(options.sourceCondition, item.sourceValue), "Condition">>,
                   <<SourceRangeFault(options.sourceRanged, item.sourceRange) # None, "Range">>>>),
           Request("PUT", RequestKey(template, item), Pair(op = "stage", "partNumber", item.part),
                   {<<"x-amz-copy-source",
                      <<Or(options.container, "own"), item.source,
                        VersionParam(options.sourceRevision, item.sourceRevision)>>>>}
                     \cup Pair(options.sourceRanged, "x-amz-copy-source-range", item.sourceRange)
                     \cup SourceField(options.sourceCondition, item.sourceValue)
                     \cup ConditionField(options.condition, item.value)
                     \cup Given("property", options.property)
                     \cup Given("x-amz-storage-class", options.tier)
                     \cup Pair(options.metadata # None \/ options.property # None,
                               "x-amz-metadata-directive", "REPLACE")
                     \cup Pair(options.tags # None, "x-amz-tagging-directive", "REPLACE")
                     \cup Given("x-amz-tagging", options.tags)
                     \cup Pair(options.metadata \notin {None, "empty"}, "metadata", options.metadata)))

-----------------------------------------------------------------------------
(* Batches.                                                                *)

\* prepare_delete_many
S3PrepareDeleteMany(service, options) ==
  IF IsAwsKind(service) /\ options.checksum = None THEN NoTemplate("Option")
  ELSE Template("deleteMany", options)

\* encode_delete_many, write_delete
S3EncodeDeleteMany(template, item) ==
  LET targets == item.targets
      faults == {S3KeyFault(targets[i].key) : i \in DOMAIN targets} \ {None}
  IN Sends(Fault(<<<<template.op # "deleteMany", "Template">>,
                   <<targets = <<>> \/ Len(targets) > MaxDeleteKeys, "Keys">>,
                   <<faults # {}, "Key">>,
                   <<\E i \in DOMAIN targets : targets[i].key = "control", "KeyControlCharacter">>,
                   <<\E i \in DOMAIN targets : ~ ValidTarget(targets[i], FALSE), "Revision">>>>),
           Request("POST", None, {<<"delete", "">>},
                   {<<"objects", [i \in DOMAIN targets |->
                                    <<targets[i].key, targets[i].kind, targets[i].id>>]>>}
                     \cup Given("checksum", template.options.checksum)))
=============================================================================
