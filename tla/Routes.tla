-------------------------------- MODULE Routes ------------------------------
(***************************************************************************)
(* How the services read a request: what it asks for, of its method, its   *)
(* key, its parameters and its fields (external).                          *)
(***************************************************************************)
EXTENDS S3Calls, Client, Effects

Has(pairs, name) == \E pair \in pairs : pair[1] = name
Value(pairs, name) == IF Has(pairs, name) THEN (CHOOSE pair \in pairs : pair[1] = name)[2] ELSE None

When(fields, of) ==
  LET header(kind) == IF of = "source" THEN SourceHeaderOf(kind) ELSE HeaderOf(kind)
      sent == {kind \in Dates \cup Tags : Has(fields, header(kind))}
  IN IF sent = {} THEN Always
     ELSE LET kind == CHOOSE kind \in sent : TRUE IN <<kind, Value(fields, header(kind))>>

\* A revision, of the parameters that name one.
At(query) ==
  CASE Has(query, "versionId") -> <<"version", Value(query, "versionId")>>
    [] Has(query, "versionid") -> <<"version", Value(query, "versionid")>>
    [] Has(query, "snapshot")  -> <<"snapshot", Value(query, "snapshot")>>
    [] OTHER                   -> Now

Bare(request, verb) ==
  [Deed EXCEPT !.verb = verb, !.key = request.key, !.when = When(request.fields, "target")]
Revised(request, verb) == [Bare(request, verb) EXCEPT !.at = At(request.query)]
Reading(request) ==
  [Revised(request, IF request.method = "HEAD" THEN "head" ELSE "get") EXCEPT
     !.extent = IF Has(request.fields, "range") THEN Value(request.fields, "range") ELSE "whole"]

S3Listing(query) ==
  LET marker == IF Has(query, "versions")
                THEN <<Value(query, "key-marker"), Value(query, "version-id-marker")>>
                ELSE <<Value(query, "continuation-token"), None>>
  IN [include |-> {named \in {"versions", "owner"} :
                     Has(query, IF named = "owner" THEN "fetch-owner" ELSE named)},
      delimiter |-> Value(query, "delimiter"), marker |-> marker, after |-> Value(query, "start-after"),
      prefix |-> IF Has(query, "prefix") THEN Value(query, "prefix") ELSE ""]

S3Copying(request) ==
  LET source == Value(request.fields, "x-amz-copy-source")
      staged == Has(request.query, "partNumber")
      replaced(directive, value) ==
        IF Value(request.fields, directive) = "REPLACE" THEN Or(value, "replaced") ELSE None
  IN [Bare(request, IF staged THEN "stage" ELSE "copy") EXCEPT
        !.from = [container |-> source[1], key |-> source[2], at |-> At(source[3]),
                  when |-> When(request.fields, "source")],
        !.metadata = replaced("x-amz-metadata-directive", Value(request.fields, "metadata")),
        !.property = replaced("x-amz-metadata-directive", Value(request.fields, "property")),
        !.tags = replaced("x-amz-tagging-directive", Value(request.fields, "x-amz-tagging")),
        !.tier = Value(request.fields, "x-amz-storage-class"),
        !.extent = IF staged
                   THEN <<Value(request.query, "partNumber"),
                          Or(Value(request.fields, "x-amz-copy-source-range"), "whole")>> ELSE None]

S3Reads(request) ==
  LET fields == request.fields
      query == request.query
  IN CASE request.method = "POST" /\ Has(query, "delete") ->
            [Deed EXCEPT !.verb = "deleteMany",
               !.extent = [i \in DOMAIN Value(fields, "objects") |->
                             LET one == Value(fields, "objects")[i]
                             IN [key |-> one[1], kind |-> one[2], id |-> one[3]]]]
       [] request.method = "POST" /\ Has(query, "restore") ->
            [Revised(request, "restore") EXCEPT !.extent = <<Value(fields, "tier"), Value(fields, "days")>>]
       [] request.key = None -> [Deed EXCEPT !.verb = "list", !.extent = S3Listing(query)]
       [] Has(query, "tagging") ->
            IF request.method = "PUT" THEN [Revised(request, "setTags") EXCEPT !.tags = Value(fields, "tagset")]
            ELSE Revised(request, "getTags")
       [] Has(fields, "x-amz-copy-source") -> S3Copying(request)
       [] request.method = "DELETE" -> [Revised(request, "delete") EXCEPT !.extent = "object"]
       [] request.method = "PUT" ->
            [Bare(request, "put") EXCEPT
               !.content = Value(fields, "content"), !.metadata = Value(fields, "metadata"),
               !.tags = Value(fields, "x-amz-tagging"), !.tier = Value(fields, "x-amz-storage-class"),
               !.property = Value(fields, "property")]
       [] OTHER -> Reading(request)

AzureCopying(request) ==
  LET fields == request.fields
      source == Value(fields, "x-ms-copy-source")
      staged == Has(request.query, "blockid")
  IN [Bare(request, CASE staged -> "stage" [] Has(fields, "x-ms-requires-sync") -> "copyFromUrl"
                      [] Has(fields, "x-ms-blob-type") -> "putFromUrl" [] OTHER -> "copy") EXCEPT
        !.from = [container |-> IF source[1] # "own" THEN "elsewhere" ELSE source[2],
                  key |-> source[3], at |-> At(source[4]), when |-> When(fields, "source")],
        !.metadata = Value(fields, "metadata"), !.property = Value(fields, "property"),
        !.tags = Value(fields, "x-ms-tags"), !.tier = Value(fields, "x-ms-access-tier"),
        !.extent = IF staged
                   THEN <<Value(request.query, "blockid"), Or(Value(fields, "x-ms-source-range"), "whole")>>
                   ELSE None]

AzureReads(request) ==
  LET fields == request.fields
      query == request.query
      comp == Value(query, "comp")
  IN CASE comp = "batch" ->
            [Deed EXCEPT !.verb = "deleteMany",
               !.extent = [i \in DOMAIN Value(fields, "parts") |->
                             LET one == Value(fields, "parts")[i]
                             IN [key |-> one[2], kind |-> At(one[3])[1], id |-> At(one[3])[2]]]]
       [] comp = "list" ->
            [Deed EXCEPT !.verb = "list",
               !.extent = [include |-> IF Has(query, "include") THEN Value(query, "include") ELSE {},
                           delimiter |-> Value(query, "delimiter"),
                           marker |-> <<Value(query, "marker"), None>>, after |-> None,
                           prefix |-> IF Has(query, "prefix") THEN Value(query, "prefix") ELSE ""]]
       [] comp = "tags" ->
            IF request.method = "PUT" THEN [Revised(request, "setTags") EXCEPT !.tags = Value(fields, "tagset")]
            ELSE Revised(request, "getTags")
       [] comp = "tier" ->
            IF Has(fields, "x-ms-rehydrate-priority")
            THEN [Revised(request, "restore") EXCEPT !.tier = Value(fields, "x-ms-access-tier"),
                    !.extent = <<Value(fields, "x-ms-rehydrate-priority"), None>>]
            ELSE [Revised(request, "setTier") EXCEPT !.tier = Value(fields, "x-ms-access-tier")]
       [] comp \in {"metadata", "snapshot"} ->
            [Bare(request, IF comp = "metadata" THEN "setMetadata" ELSE "snapshot") EXCEPT
               !.metadata = Value(fields, "metadata")]
       [] comp = "properties" -> [Bare(request, "setProperties") EXCEPT !.property = Value(fields, "property")]
       [] comp = "copy" -> [Bare(request, "abortCopy") EXCEPT !.extent = Value(query, "copyid")]
       [] Has(fields, "x-ms-copy-source") -> AzureCopying(request)
       [] request.method = "DELETE" ->
            [Revised(request, "delete") EXCEPT
               !.extent = CASE Value(fields, "x-ms-delete-snapshots") = "include" -> "all"
                            [] Value(fields, "x-ms-delete-snapshots") = "only"    -> "only"
                            [] OTHER -> "object"]
       [] request.method = "PUT" ->
            [Bare(request, "put") EXCEPT
               !.content = Value(fields, "content"), !.metadata = Value(fields, "metadata"),
               !.tags = Value(fields, "x-ms-tags"), !.tier = Value(fields, "x-ms-access-tier"),
               !.property = Value(fields, "property")]
       [] OTHER -> Reading(request)

\* A host takes dot segments out of a path, and without a key the path is that
\* of the container: what is asked of an object is asked of the container then.
Path(key) == IF key \in {"", "a/.."} THEN None ELSE key
OfContainer(query) ==
  Has(query, "list-type") \/ Has(query, "versions") \/ Has(query, "delete") \/ Has(query, "restype")

Reads(service, request) ==
  IF Path(request.key) = None /\ ~ OfContainer(request.query) THEN [Deed EXCEPT !.verb = "container"]
  ELSE IF service \in S3Services THEN S3Reads(request) ELSE AzureReads(request)
=============================================================================
