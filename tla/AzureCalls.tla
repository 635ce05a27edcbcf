----------------------------- MODULE AzureCalls -----------------------------
(***************************************************************************)
(* The operations of Azure but uploads in blocks: what each refuses, in    *)
(* its options and in its item, and the request that it writes             *)
(* (azure/mod.rs, azure/copy.rs, azure/tags.rs, azure/batch.rs,            *)
(* azure/restore.rs).                                                      *)
(***************************************************************************)
EXTENDS Calls

CONSTANT MaxBatchKeys      \* MAX_BATCH_KEYS, 256

AzureKinds == {"flat", "hierarchical"}

\* validate_key
AzureKeyFault(namespace, key) ==
  Fault(<<<<key = "", "EmptyKey">>,
          <<namespace = "flat" /\ key = "long", "KeyTooLong">>,
          <<key = "a/..", "KeyWouldBeNormalized">>>>)

AzureRequestFault(namespace, template, item) ==
  RequestKeyFault(template, item, AzureKeyFault(namespace, item.key))

\* revision_param
RevisionParam(kind, revision) ==
  CASE kind = "snapshot" -> {<<"snapshot", revision>>}
    [] kind = "version"  -> {<<"versionid", revision>>}
    [] OTHER             -> {}

AzureStoredFault(options) ==
  Fault(<<<<~ Storable(options.property) \/ ~ Storable(options.tier), "ContentProperty">>,
          <<~ Storable(options.storedTags), "Tag">>>>)

\* push_stored_fields
AzureStoredFields(options) ==
  Given("property", options.property) \cup Given("x-ms-tags", options.storedTags)
    \cup Given("x-ms-access-tier", options.tier)

-----------------------------------------------------------------------------
(* Objects.                                                                *)

\* prepare_get, describe_get
AzurePrepareGet(options) == Unless(GetOptionsFault(options, TRUE), Template("get", options))

\* encode_get
AzureEncodeGet(namespace, template, item) ==
  LET options == template.options
  IN Sends(Fault(<<<<template.op # "get", "Template">>,
                   <<AzureRequestFault(namespace, template, item) # None,
                     AzureRequestFault(namespace, template, item)>>,
                   <<item.range = "suffix", "UnsupportedRange">>,
                   <<GetItemFault(options, item) # None, GetItemFault(options, item)>>>>),
           Request(IF options.kind = "head" THEN "HEAD" ELSE "GET", RequestKey(template, item),
                   RevisionParam(options.revision, item.revision),
                   ConditionField(options.condition, item.value)
                     \cup Pair(options.ranged, "range", item.range)))

\* prepare_put, describe_put
AzurePreparePut(options) ==
  Unless(Fault(<<<<~ Storable(options.metadata), "Metadata">>,
                 <<AzureStoredFault(options) # None, AzureStoredFault(options)>>,
                 <<options.checksum \notin {None, "crc64"}, "Option">>>>),
         Template("put", options))

\* encode_put
AzureEncodePut(namespace, template, item) ==
  LET options == template.options
  IN Sends(Fault(<<<<template.op # "put", "Template">>,
                   <<AzureRequestFault(namespace, template, item) # None,
                     AzureRequestFault(namespace, template, item)>>,
                   <<item.content = "tooLong", "PayloadTooLarge">>,
                   <<~ ValidCondition(options.condition, item.value), "Condition">>,
                   <<~ ValidChecksumItem(options.checksum, item.checksum), "Checksum">>>>),
           Request("PUT", RequestKey(template, item), {},
                   {<<"x-ms-blob-type", "BlockBlob">>, <<"content", item.content>>}
                     \cup AzureStoredFields(options)
                     \cup Given("metadata", options.metadata)
                     \cup Given("checksum", item.checksum)
                     \cup ConditionField(options.condition, item.value)))

\* prepare_delete, delete_snapshots
AzurePrepareDelete(options) ==
  IF options.revision # "current" /\ options.kind # "object" THEN NoTemplate("Revision")
  ELSE Template("delete", options)

\* prepare_snapshot, prepare_set_metadata
AzurePrepareSnapshot(options) ==
  IF ~ Storable(options.metadata) THEN NoTemplate("Metadata")
  ELSE Template("snapshot", [options EXCEPT !.revision = "current"])
AzurePrepareSetMetadata(options) ==
  IF ~ Storable(options.metadata) THEN NoTemplate("Metadata")
  ELSE Template("setMetadata", [options EXCEPT !.revision = "current"])

\* prepare_set_properties
AzurePrepareSetProperties(options) ==
  IF ~ Storable(options.property) THEN NoTemplate("ContentProperty")
  ELSE Template("setProperties", [options EXCEPT !.revision = "current"])

\* prepare_set_tier
AzurePrepareSetTier(options) ==
  IF ~ Storable(options.tier) THEN NoTemplate("ContentProperty")
  ELSE Template("setTier", [options EXCEPT !.revision = "current", !.condition = None])

\* prepare_set_tags, prepare_get_tags
AzurePrepareSetTags(options) ==
  IF ~ Storable(options.tags) THEN NoTemplate("Tag")
  ELSE Template("setTags", [options EXCEPT !.condition = None])
AzurePrepareGetTags(options) == Template("getTags", [options EXCEPT !.condition = None])

\* prepare_restore
AzurePrepareRestore(options) ==
  Unless(Fault(<<<<options.priority = "Bulk" \/ options.tier = None, "Option">>,
                 <<options.days # None \/ options.checksum # None, "Option">>,
                 <<~ Storable(options.tier), "ContentProperty">>>>),
         Template("restore", [options EXCEPT !.condition = None]))

\* describe_object, and what each prepare_ function writes in its template.
CompOf(op) ==
  CASE op = "getTags" \/ op = "setTags" -> {<<"comp", "tags">>}
    [] op = "setTier" \/ op = "restore" -> {<<"comp", "tier">>}
    [] op = "setMetadata"               -> {<<"comp", "metadata">>}
    [] op = "setProperties"             -> {<<"comp", "properties">>}
    [] op = "snapshot"                  -> {<<"comp", "snapshot">>}
    [] OTHER                            -> {}
AzureMethod(op) == CASE op = "delete" -> "DELETE" [] op = "getTags" -> "GET" [] OTHER -> "PUT"
AzureObjectFields(op, options) ==
  CASE op = "delete" -> Given("x-ms-delete-snapshots",
                              CASE options.kind = "all"  -> "include"
                                [] options.kind = "only" -> "only"
                                [] OTHER                 -> None)
    [] op \in {"snapshot", "setMetadata"} -> Given("metadata", options.metadata)
    [] op = "setProperties" -> Given("property", options.property)
    [] op = "setTier"       -> {<<"x-ms-access-tier", options.tier>>}
    [] op = "restore"       -> {<<"x-ms-access-tier", options.tier>>,
                                <<"x-ms-rehydrate-priority", options.priority>>}
    [] op = "setTags"       -> {<<"tagset", options.tags>>}
    [] OTHER                -> {}

\* encode_object
AzureEncodeObject(namespace, op, template, item) ==
  LET options == template.options
  IN Sends(Fault(<<<<template.op # op, "Template">>,
                   <<AzureRequestFault(namespace, template, item) # None,
                     AzureRequestFault(namespace, template, item)>>,
                   <<~ ValidRevisionItem(options.revision, item.revision), "Revision">>,
                   <<~ ValidCondition(options.condition, item.value), "Condition">>>>),
           Request(AzureMethod(op), RequestKey(template, item),
                   CompOf(op) \cup RevisionParam(options.revision, item.revision),
                   AzureObjectFields(op, options) \cup ConditionField(options.condition, item.value)))

-----------------------------------------------------------------------------
(* Listings.                                                               *)

\* prepare_list
AzurePrepareList(namespace, options) ==
  Unless(Fault(<<<<~ ValidDelimiter(options.delimiter, namespace = "hierarchical"), "Delimiter">>,
                 <<"owner" \in options.include, "Option">>>>),
         Template("list", options))

\* encode_list, describe_list
AzureEncodeList(template, item) ==
  LET options == template.options
      marked == item.marker # <<None, None>>
  IN Sends(Fault(<<<<template.op # "list", "Template">>,
                   <<marked /\ (item.marker[1] = "" \/ item.marker[2] # None), "Marker">>,
                   <<item.startAfter # None, "Option">>>>),
           Request("GET", None,
                   {<<"restype", "container">>, <<"comp", "list">>}
                     \cup Given("delimiter", options.delimiter)
                     \cup Pair(options.include # {}, "include", options.include)
                     \cup Pair(item.prefix # "", "prefix", item.prefix)
                     \cup Pair(marked, "marker", item.marker[1]), {}))

-----------------------------------------------------------------------------
(* Copies.                                                                 *)

CopyKinds == {"copy", "copyFromUrl", "putFromUrl", "stage"}

\* validate_copy_options, validate_source_location
CopyOptionsFault(kind, options) ==
  Fault(<<<<options.endpoint = "plain" \/ ~ ValidSourceContainer(options.container), "CopySource">>,
          <<kind = "stage" /\ ~ StoresNothing(options), "Option">>,
          <<kind # "stage" /\ options.sourceRanged, "Range">>,
          <<options.metadata = "empty", "Option">>,
          <<~ Storable(options.metadata), "Metadata">>,
          <<options.storedTags # None, "Option">>,
          <<kind \in {"copy", "copyFromUrl"} /\ options.property # None, "ContentProperty">>,
          <<AzureStoredFault(options) # None, AzureStoredFault(options)>>,
          <<~ Storable(options.tags), "Tag">>>>)

\* prepare_copy_kind
AzurePrepareCopy(kind, options) == Unless(CopyOptionsFault(kind, options), Template(kind, options))

\* encode_copy_kind, describe_copy
AzureEncodeCopy(namespace, kind, template, item) ==
  LET options == template.options
  IN Sends(Fault(<<<<template.op # kind, "Template">>,
                   <<AzureRequestFault(namespace, template, item) # None,
                     AzureRequestFault(namespace, template, item)>>,
                   <<AzureKeyFault(namespace, item.source) # None, AzureKeyFault(namespace, item.source)>>,
                   <<kind = "stage" /\ item.part = "", "PartId">>,
                   <<~ ValidRevisionItem(options.sourceRevision, item.sourceRevision), "Revision">>,
                   <<~ ValidCondition(options.condition, item.value), "Condition">>,
                   <<~ ValidCondition(options.sourceCondition, item.sourceValue), "Condition">>,
                   <<SourceRangeFault(options.sourceRanged, item.sourceRange) # None, "Range">>>>),
           Request("PUT", RequestKey(template, item),
                   IF kind = "stage" THEN {<<"comp", "block">>, <<"blockid", item.part>>} ELSE {},
                   {<<"x-ms-copy-source",
                      <<Or(options.endpoint, "own"), Or(options.container, "own"), item.source,
                        RevisionParam(options.sourceRevision, item.sourceRevision)>>>>}
                     \cup Pair(kind = "copyFromUrl", "x-ms-requires-sync", "true")
                     \cup Pair(kind = "putFromUrl", "x-ms-blob-type", "BlockBlob")
                     \cup Pair(kind # "copy", "x-ms-copy-source-authorization", "bearer")
                     \cup Pair(options.sourceRanged, "x-ms-source-range", item.sourceRange)
                     \cup AzureStoredFields(options)
                     \cup Pair(options.tags \notin {None, "empty"}, "x-ms-tags", options.tags)
                     \cup Given("metadata", options.metadata)
                     \cup SourceField(options.sourceCondition, item.sourceValue)
                     \cup ConditionField(options.condition, item.value)))

\* prepare_abort_copy, encode_abort_copy
AzurePrepareAbortCopy(options) == Template("abortCopy", [NoOptions EXCEPT !.object = options.object])
AzureEncodeAbortCopy(namespace, template, item) ==
  Sends(Fault(<<<<template.op # "abortCopy", "Template">>,
                <<AzureRequestFault(namespace, template, item) # None,
                     AzureRequestFault(namespace, template, item)>>,
                <<item.copyId = "", "Option">>>>),
        Request("PUT", RequestKey(template, item), {<<"comp", "copy">>, <<"copyid", item.copyId>>},
                {<<"x-ms-copy-action", "abort">>}))

-----------------------------------------------------------------------------
(* Batches.                                                                *)

\* prepare_delete_many, describe_batch
AzurePrepareDeleteMany == Template("deleteMany", NoOptions)

\* encode_delete_many, write_batch: a request for each object, known by its
\* place in the batch.
AzureEncodeDeleteMany(namespace, template, item) ==
  LET targets == item.targets
      faults == {AzureKeyFault(namespace, targets[i].key) : i \in DOMAIN targets} \ {None}
  IN Sends(Fault(<<<<template.op # "deleteMany", "Template">>,
                   <<targets = <<>> \/ Len(targets) > MaxBatchKeys, "Keys">>,
                   <<faults # {}, "Key">>,
                   <<\E i \in DOMAIN targets : ~ ValidTarget(targets[i], TRUE), "Revision">>>>),
           Request("POST", None, {<<"restype", "container">>, <<"comp", "batch">>},
                   {<<"parts", [i \in DOMAIN targets |->
                                  <<i - 1, targets[i].key,
                                    RevisionParam(targets[i].kind, targets[i].id)>>]>>}))
=============================================================================
