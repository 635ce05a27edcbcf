# object-storage in TLA+

Modules, model-checking runs and machine-checked proofs beside the
`object-storage` crates: a sans-I/O client for the object protocols of S3 (AWS
and compatible services) and of Azure Blob Storage, with a C interface and two
hosts.  Paths below are relative to the root of the repository; `proto` is
`crates/object-storage-proto/src`.

## 1. The system

The core, `object-storage-proto`, does no I/O, allocates nothing and keeps no
state between calls.  A caller owns the buffers, the connections, the clock and
the retries.  One request goes through three calls:

1. `prepare_*` writes a *template* of requests of one shape into a caller's
   buffer: fixed bytes, and a table of steps that says where values go;
2. `encode_*` writes one request out of a template and the values of the
   request into another buffer, and signs it;
3. `accept_*_head`, then `accept_*_body` or `accept_*_error_body` where the head
   does not decide, read the answer as an outcome.

Nothing runs concurrently inside it.  What is hard is elsewhere: two code paths
that must agree byte for byte although nothing compares them at run time,
buffers that may be too small at any point, bytes and shapes that a caller
keeps and hands back with another call, answers that may be anything, and
services that name their errors in different places, sometimes after they said
that they were done.

| Component | State | Operations | What is hard | What makes it correct |
|---|---|---|---|---|
| **Writer and sizing** (`proto/request.rs`, `check_fit`; `hosts/cxx-curl/host.h` `prepare`, `encode`; `hosts/ureq` `required_by`) | a buffer and a count of bytes | `push`, `repeat`, `check_fit`; the caller allocates and calls again | counting goes on past the buffer and saturates; short copies overlap; repeats read what was written | what is returned as written is the whole text; what is refused states its exact length; one retry is enough |
| **Template engine** (`proto/template.rs`) | table, builder, pass | `Builder` and `EncodePass` as `Pass`; `walk_table`; `finish` | a layout runs twice and the second run trusts the lengths of the first; the walk writes the same request by other code; a table can meet other bytes | the request says what the description means; every placeholder is known; every span is within what was written, whatever the bytes |
| **Layouts** (`proto/s3/template.rs`, `proto/azure/template.rs`) | none | `layout`, `prepare_template`, `encode_template` | optional parameters, separators, the bound of Azure's URL, the key of an object template | as above, and the URL bound is exact |
| **Ranged reads** (`proto/head.rs`, `validate_get_item`, `write_range`, `parse_content_range`) | none | `encode_get`, `accept_get_head` | inclusive ends, unstated sizes, numbers past u64, answers to other requests | the window is what was asked for |
| **Outcomes** (`proto/outcome.rs`, every `accept_*` of `proto/s3` and `proto/azure`) | the shape that the caller gives back | `accept_*_head`, `accept_*_body`, `accept_*_error_body` | names of errors in the head, in a body, in a body under a 200, or lost; statuses that mean several things | one outcome, true of what the service did, and as exact as what arrived |
| **S3 signing** (`proto/sigv4.rs`, `proto/s3/template.rs` `finish_*`) | placeholders in the request, a day's key | set hash, checksum, token, signature | order; a key of another day; a session that ended; names merged from three lists | a request that was signed as documented is taken, and a changed content is not |
| **Operations** (`prepare_*`, `encode_*` of `proto/s3` and `proto/azure`, `proto/validate.rs`) | a template, which holds the options of an operation | prepare, encode, accept, for 10 operations of S3 and 17 of Azure | what a template holds and what an item brings must fit; the same option is another parameter, field or refusal at each service; batches are answered in pieces | a service does what the options and the item say, or nothing is sent |
| **Multipart** (`proto/s3/parts.rs`, `proto/azure/blocks.rs`, `proto/xml/*/parts.rs`, `blocks.rs`) | the upload, at the service | create, stage, commit, abort, list | a repeat of a part, an upload that is gone, requests that arrive late, restarts | what is published is what was meant, and what is told of a commit is true |
| **Listings** (`proto/xml/page.rs`, `proto/xml/s3`, `proto/xml/azure`) | a page that is decoded in place, a marker | `fill_listing`, next page | an array of entries that is too small, markers that are empty, keys that change | each key once, or an error |
| **XML scanner** (`proto/xml/scan.rs`, `decode.rs`) | a position | next event, decode in place | every step must stay in the document | it never leaves it, and it ends |
| **C interface** (`crates/object-storage-c`) | none | one function for each call of Azure | variants cross it as numbers that two crates count, an empty text stands for none, shapes come back from the caller | what a caller wrote with the header is what the core is asked for, or it is refused |
| **C++ host** (`hosts/cxx-curl`) | buffers and a head arena for one client | `prepare`, `encode`, answer callbacks | reuse of the buffers by the next request or head; heads before the answer; a head that does not fit | nothing of the last answer is read as one of this |
| **Rust host** (`hosts/ureq`) | none | calls the core, reads at most 8 KiB of an error body | a body that does not arrive | as the outcomes |
| **Object tests** (`hosts/object-tests`) | an upload's ID, a marker | the loops of an uploader and of a listing | as multipart and listings | as multipart and listings |
| **Crypto, encodings, checks, benchmarks** | none | pure functions and programs | | tested by vectors; not modelled |

Calls go one way: host, C interface, operations (`s3`, `azure`), template
engine, writer.  No component calls back except `Fill::body`, a caller's
writer of a body, which the engine calls once for each request.  The only
shared state is bytes: a template is written by one call and read by many, and
the answer's buffers are read in place.

## 2. Modules

| Module | Models | How |
|---|---|---|
| `Writer` | Writer and sizing | state: buffer, count, attempt, verdict. `WritePush`, `WriteRepeat`, `Finish` are `push`, `repeat`, `check_fit`; `Retry` and `GiveUp` are the hosts' second attempt and limit. `text` only observes what the pieces stand for |
| `Layout` | Layouts | the layout of a description as a sequence of `Pass` operations, for both services |
| `Engine` | Template engine | operators of the builder, the pass and the walk; the state of each is a record |
| `Meant` | (reference) | what a request should say, with no table, no cursor and no count |
| `Template` | Template engine with its callers | one action for each `Pass` operation of the two runs, and for the start and end of each call |
| `Get` | Ranged reads | `Encode`, then `Serve` (a service that keeps the protocol) or `Answer` (any head), then `Accept` |
| `Exchange` | Outcomes | `Serve` or `Answer`, then `ReadHead`, and `ReadErrorBody` or `ReadResultBody` where the head asks for one |
| `Promise` | (abstract) | what `Exchange` implements: decide, then tell once, and truthfully |
| `Canonical` | S3 signing | operators: the order of the signed names, the values as sent and as signed, the canonical request |
| `Signing` | S3 signing with its callers | one action for each call: `Prepare`, `Derive`, `Stamp`, `Encode`, the setters, the two ways to sign; a clock; a service that rebuilds what was signed |
| `Scan`, `Page` | XML scanner, pages | operators on documents of tokens; what both page readers share |
| `S3Page`, `AzurePage` | pages of the two services | one operator for each turn of a reader's loops |
| `Tree`, `Walk`, `Reader` | (reference), `Properties` of an entry, a reader on its own | what a document means; the walk over decoded bytes; the machine that the proofs are about |
| `Listing` | a caller that follows pages, a service whose keys change | `Ask`, one action for each turn of a reader, `Grow`, `Follow`, changes |
| `Selection` | (helper) | what is kept of a sequence: the children of one name, the parts that a list names |
| `Parts` | multipart requests and answers | operators: encode, accept, and the readers of part and block lists |
| `Uploads` | an uploader and its service | one action for each call, for what the service does, for a call that is given up, for what arrives late, for a restart |
| `Calls`, `S3Calls`, `AzureCalls` | operations and their requests | one operator for each `prepare_*` and `encode_*`: a refusal, or a template or a request |
| `CEntry` | C interface | what a caller writes with the numbers and structures of the header, what the calls read of it, and outcomes as numbers; an instance of `Exchange` reads the answer |
| `Client` | C++ host | operators: the arena of heads, what is read of it, and when |
| `Effects`, `Routes` | (the services) | what a service does with what it is asked, and how it reads that from a request |
| `Asked` | (abstract) | what `Objects` implements: calls are done as their options and items say, at most once |
| `Objects` | a caller in Rust or in C++, its template, its requests, a service | prepare, write, serve, accept, give up; other writers; copies that end late |
| `MC*` | | instances for TLC |
| `BytesProofs` (`Writer`, `PageReader`), `TemplateProofs`, `GetProofs`, `ExchangeProofs`, `SigningProofs`, `UploadsProofs` | | theorems |
| `EngineProofs` | | lemmas about `Layout`, `Meant` and `Engine`, that `TemplateProofs` cites |
| `SelectionProofs` | | lemmas about `Selection`, and about folds, that the others cite |

Abstractions that the modules share: bytes of text are tokens in `Template`
(a token is a run that the code never cuts), and real byte counts in `Writer`;
numbers of a head are integers with a small u64; error codes are the names of
`ServiceErrorKind`, `other` for a code that the crate does not know.  Values
that only pass through (ETags, dates, metadata) are left out.

### Writer

A *call* is any script of pushes and repeats.  `Copies` lists the overlapping
copies of `copy_short` by offset and length, and `CopyShort` writes the bytes
that one of them covers and no other: a class of lengths with a gap leaves a
stale byte, which `WrittenWhole` finds.  A buffer starts with any stale
content.  The count saturates at `MaxUsize`, and a buffer cannot be longer than
`MaxRoom` (`isize::MAX`).  `push_split` and the writers of numbers are pushes
of their bytes.

### Template

`LayoutOf(d)` is the order in which `layout` of each service calls a `Pass`.
`Build` and `Pass` interpret it as `Builder` and `EncodePass` do, and
`WalkRequest` walks the table as `walk_request` does.  The caller encodes with
the bytes of its template (`EncodeOwn`) or with those of another one
(`EncodeOther`), which is what the comments on `Table::steps`, `parts` and
`WriteState::written` defend against.  Bytes that are not a table are read as
steps of `Junk`: a run past the end, a hole of another request, ends out of
order.  Not modelled: `Table::check`, the fingerprint that a caller may ask
for; the order in which signed fields are sorted; tables that come close to
`MAX_STEPS` (no layout does, which `OwnBytesAccepted` checks).

### Get

The range is what the caller asked for, `Sent` what `write_range` writes, and
`Parsed` what `parse_content_range` accepts.  `AcceptGetHead` follows
`accept_get_head` of both services in the order of its checks.  An answer may
come to a shape that no encoder has checked, since `accept_get_head` takes the
shape from its caller: what holds of the window holds for those too.  The
errors of a read are in `Exchange`.

### Exchange

A request has a service, an operation and a condition.  `Conditions` lists what
each operation can carry, as `prepare_*` refuses the others.  A date stands with
the tag that fails alike: `If-Unmodified-Since` with `IfMatch`,
`If-Modified-Since` with `IfNoneMatch` (`fails_as_not_modified`).  A `head` has a
status, a code (Azure names errors in `x-ms-error-code`; S3 does not), and
whether it states what its operation reads of a success.  `AcceptS3Head` and
`AcceptAzureHead` are all the `accept_*_head` functions at once: they differ in
their successes (`S3Successes`, `AzureSuccesses`), in whether they match a
condition (`Conditional`), in whether a 404 can mean an object
(`NamesNoObject`, the two macros of `outcome.rs`), and in whether a 200 is the
end (`Late`).

`Serve` is a service that does what it says: a cause happens, and the head and
body call it by its status and code, as `src/` expects them of the services.
A proxy may drop Azure's header, S3's three long operations may fail under a
200, and a body arrives whole, cut after its root element, or not at all
(`hosts/ureq` `error_body` passes an empty body when the transfer fails).
`Answer` is any head with any body.  What a service does is external: it is
modelled from the comments and the tests of `src/`, not from code.

### Signing

A description says which fields a request sends, as a set of names: fixed ones
of the template, metadata, and those that each request fills.  `Merged`
is what `Sorted::of` and `signed_names` do with them: each name waits for the ones
that are less.  Hashes and MACs are terms,
so two are equal if and only if what they are of is equal; a service takes a
request whose signature is the MAC of the canonical request that it builds from
the head that arrived.  A caller may keep a template, a key and a stamp for as
long as it likes, and set hash, checksum and signature in every order that the
types allow; `SignedAsToldIsTaken` assumes of it only what the comments on
`sign` and `sign_batch` ask for.  The clock runs past a day, past a session and
past the skew that a service allows.  A key kept over midnight is one of those
that the comments rule out: what is checked is that a key serves its whole day.
The names and the lines of the canonical request are merged by the same operator,
but with a list of their own each (`FilledOrder`, `WrittenOrder`), as in the code:
a service builds the lines again in the order of the names.  The host is first in it, also before `cache-control` and `content-type`
(`s3/template.rs:499`); the comment at `s3/template.rs:476` speaks of the order of
the names, which `OrderedAfterHost` asks of the others alone.

### Listing

A document is a sequence of tokens: whitespace, text, tags of the service's
spelling or another, comments, other markup.  Each action is a turn of a loop
of a page reader, so that the cursor, the spans, the entry under construction
and what was decoded so far are visible between turns.  Details that the
translation keeps: `skip` counts its own element in the depth and `nested` does
not; only entries that were built are decoded, and the rest only counted; an
array that is too small is judged after the encoding is known and before the
markers are; Azure's `Blobs` refuses comments where the root of S3 passes over
them; the properties of a group are read with nothing wanted.  A comment inside
an entry ends the walk early, though the reader passed it.  A page may arrive
cut anywhere, without its token, or with a stray element (pages of one entry).

### Uploads

The uploader is the one of the object tests: it creates an upload, stages parts
under numbers or block IDs, names them in a list of its choice, out of order and
twice included, commits, aborts, and lists.  It may stop at any time and start
again with the upload's ID alone.  A call may be given up at any time: its
request is lost, or was done and its answer is lost, or is still on its way and
arrives after later ones (`MayBeLate`).  The service keeps uploads, parts,
blocks and one object, answers a commit of S3 at once or after its head, and may
drop an element of a page or ignore a marker.  Numbers are written in the texts
that `Digits` gives them.  Azure's answer to a block list has two sections, of
what is committed and of what is not, and the uploader reads both.  A service that ignores the marker has
pages of one size: it names its first page again, which is how the uploader
finds out.  Left out: the checksums of parts,
and the copy of a part (it is in `Objects`).

### Objects

Options and items are records with the fields of every operation.  `Calls`,
`S3Calls` and `AzureCalls` follow each `prepare_*` and `encode_*` in the order of
their checks; what a request holds is its method, its key, and sets of
parameters and fields.  `Routes` reads a deed from those, as the services'
documentation has them, and knows neither options nor items; `Meaning` of
`Asked` says what options and items mean, and knows no request.  That both
come to the same deed for every operation is what `DoneAsAsked` checks.  A host
takes dot segments out of a path (`..`), and a path without a key is that of the
container, so that a key that was not refused is a request for something else.
Texts that a service would not store as they are given (names of metadata, tags,
properties, tiers) are one text `bad`, refused as `validate_*` refuses them;
their lengths and characters are left out, as are the digests and checksums of a
put, which `Signing` has.  Azure's copy with an empty set of tags, which sends
none, is not among the inputs.  `AzureResults` and `S3Results` are what
`fill_delete_results` makes of a batch whose results come in any order, twice,
or in part.

A model in which everything is refused would do what it is asked.  `TakenOptions`
and `TakenItems` say what must not be: each operation as it is, and with each
condition, revision, range, tier, property or include that its service has.
`Asked` lets nothing of it be refused, and nothing asked by the function of
another operation be done.

Four of the services are accounts of Azure reached from C++: `Prepare` and
`Encode` go through `CEntry`, whose two halves are written from different files,
the numbers of the header (`crates/object-storage-c/src/types.rs`) and those of
the core (`from_discriminant`).  Their options have numbers that name nothing
and bytes that are no text.  `AcceptedInC` lets the service answer as `Exchange`
has it, with informational heads before it, fields that may not fit the arena,
and a body that may be cut or lost; `Received` collects the lines as
`CollectedHead` does, and hands them to `borink_accept_*`.  A C caller cannot
send what has no number: metadata, tags, and the other operations.

A copy that is given no metadata keeps those of its source: `Asked` says it as
`proto/types.rs:977` does (`MetadataOf`).  S3 has one directive for metadata and
content properties, and the code sends it when either is given
(`proto/s3/copy.rs:127`).  For metadata without a property nothing is promised of
the properties, and `PropertyOf` has S3 drop them; for a property without metadata
the code breaks the promise, so `MCOptionsOf` leaves that copy out and
`calls_metadata` has it.  `Effects` assumes of an Azure copy that is given no tags
that it keeps those of its source.  Nothing in the code tells or checks it: the
request says nothing of tags then.

## 3. Runs

Run TLC in this directory: `tlc -workers 2 -config MCWriter.cfg MCWriter`.

| Run | Question | Bounds, and why they are enough |
|---|---|---|
| `writer` (`MCWriter.cfg`) | Does every call, from any first buffer, end with its whole text or with the exact room it needs? | Scripts of up to three pieces; pushes of lengths on both sides of each class of `copy_short`; repeats that meet their own copy. `MaxUsize` 70 and `MaxRoom` 60 are within reach, so texts saturate; `Limit` 50 lets a caller give up |
| `template` (`MCTemplate.cfg`) | Do the two runs, the walk and the passes agree, and is a table safe with the bytes of any other? | One description for each shape of request (15), every subset of optional parameters, plain and escaped values, every template against the bytes of every other |
| `get` (`MCGet.cfg`) | Is the window of every ranged read the range that was asked for? | A u64 of 0..3, heads that state 0..4, so each comparison meets its boundary on both sides; all ranges |
| `get_end` (`MCGetEnd.cfg`) | violation, see Findings | as `get` |
| `exchange` (`MCExchange.cfg`) | Is every caller told what happened, once, wherever the answer names it, and never what did not happen? | No bound on operations, conditions or causes; 16 statuses, one or more of each that the code tells apart |
| `exchange_container`, `exchange_late` | violations, see Findings | as `exchange` |
| `signing` (`MCSigning.cfg`) | Is every request that was signed as told taken, in whatever order its calls were made, and a corrupt content refused? | Days of 2 seconds, a clock to 2: a key of the day before, a session of one second that ends, a request that is too old. Requests with each kind of field and of body, names that sort before the host, after it, and between each other |
| `listing` (`MCListing.cfg`) | Does every page say what its document says, and does a listing through changes end and tell each key once? | Pages of 2 keys of 3 places, so that a listing has several pages; arrays of 1 and 4 entries, so that a page meets one that is too small; one change of a key after the first page; nesting to the limit and past it (`MaxDepth` 2); damage anywhere |
| `uploads` (`MCUploads.cfg`) | Is an upload that is given up, repeated or resumed at any step published as it was meant, and is what is told of its commit true? | Two parts, numbers 0 to 3 so that 0 is refused and a part is missing; pages of 1 and 2 parts for an array of 1; one late request at a time; lists out of order, with a part twice and with one that was not staged |
| `calls` (`MCObjects.cfg`) | Does every operation, through the C interface and the C++ host too, make its service do what was asked, once, and tell its caller what was done? | One call of a template, with every operation, every option alone and the pairs that the code looks at together, and for each item every value alone; objects that are missing, there, with a version or a snapshot, or the target of a copy; another writer once. Batches of up to 2 and one of 3, over the limit. An arena of 3 fields, for heads of up to 4 |
| `calls_metadata` (`MCObjectsKept.cfg`) | violation, see Findings | the copies of `calls`, with a property alone too |

Properties:

* `WrittenWhole`, `RequiredExact`, `TwoAttempts`, `CallEnds` (writer).
* `TableOfTheLayout` (each step is a hole of the layout or an end of a section),
  `OwnBytesAccepted`, `RequestAsMeant` (bytes and spans of the request against
  `Meant`), `PlaceholdersMarked`, `WalkWritesAlike`, `UrlChecked`,
  `PartsInRange` (with any bytes).
* `WindowIsAskedFor`, `WindowRepresentable` (any head), `HonestAnswerIsRead`.
* `Promised` (`Exchange` implements `Promise`), `NamedIsExact` (who hears the
  name of what happened is told exactly that), `ClassIsOfTheCause` (the class
  that decides a retry), `UnaskedIsNoOutcome`.
* `SignedAsToldIsTaken`, `OrderedAfterHost`, `CorruptIsRefused` (signing).
* `CursorInRange` (no read outside of a document), `PageAsWritten` (what a page
  is read as is what `Tree` says of it), `RoomIsExact` (a refusal names the room
  of the whole page), `HonestPageIsRead`, `WalkAgrees` (the walk over an entry
  finds what the page said), `EachKeyOnce`, `Ended` (listing).
* `VerdictIsTrue`, `PublishedAsMeant`, `ResumedWhole`, `ListingEnds` (uploads).
* `DoneAsAsked` (calls): `Objects` implements `Asked`.
* Of the violations: `NothingPastTheEnd`, `ContainerIsNoObject`, `LateIsAlike`,
  `CopyKeepsMetadata`.

Two exceptions are part of `NamedIsExact`, and named there.  A missing object
under a late 200 keeps its name only for a copy.  `accept_update_error_body` of
Azure looks for no condition, so a failed condition of `set_metadata` or
`set_properties` that only the body names is a failure; its kind still tells.

### Fairness

`Writer` assumes weak fairness of its whole next-state relation: a call runs to
its end (it has no loop but over its pieces), and a caller follows up on a
refusal, as `Client::encode` and `required_by` do.  `Exchange` assumes it of
the caller's reading alone: an answer may never come, but a caller that has
one reads it to the end, and a body that does not arrive is read as none.
Nothing is assumed of the service or of the network.  `Template` and `Get` have
no liveness property: each is a finite sequence of steps.  `Listing` assumes it
of `Proceed`, the caller that reads its page and asks for the next: a loop of
`hosts/object-tests/src/listing.rs`.  `Uploads` assumes it of the uploader's next
page (the loop of `list_parts`), and that a call ends, answered or given up,
which is a host's timeout.  `Signing` and `Objects` assume none: a caller may
stop at any call.

### Findings

* `get_end`: for `Content-Range: bytes a-b/*` the end is not compared with what
  was asked (`proto/head.rs:303`), although the window "must be the range that
  was asked for" (`head.rs:246`).  A bounded read can be handed bytes past its
  end by a service that leaves the size out and serves too much.
* `exchange_container`: "a caller must never read a missing container as a
  missing object" (`outcome.rs:992`) does not hold when the error body of a 404
  is cut or lost: without a name it is `NotFound`.  The HEAD of S3 is documented
  as an exception (`outcome.rs:608`); this is not.
* `calls_metadata`: no metadata in the options of a copy is "to keep the
  source's" (`types.rs:977`), but a copy of S3 that gives a content property
  tells the service to replace both (`s3/copy.rs:127`), and the metadata are
  gone.  On Azure the same copy keeps them.
* `exchange_late`: the errors of a commit under status 200 should "become the
  same outcomes" as under 404 or 412 (`s3/parts.rs:724`), but the missing object
  of an `If-Match` is `NotFound` under 404 and a failure under 200.

## 4. Proofs

TLAPS proves the following for every value of the constants, under each
module's assumption (`WriterAssumption`: no buffer reaches `MaxUsize`;
`GetAssumption`: numbers are naturals and an object is shorter than u64;
`ExchangeAssumption`: statuses are three digits; `SigningAssumption`: times are
naturals and a day is not empty; `DescribesAssumption`: each description signs
what every request of the crate does, and fills a hash and a checksum where its
body calls for them; `NamesAssumption`: a name is a name once, the fields that
are filled are laid out in their order, and the host goes before each of them;
`FieldsAssumption`: a field comes from the operation, from the metadata, whose
names go after the host, or from each request, and only once; `MaxDepthAssumption`: elements may nest at all;
`EngineAssumption`: the limit of steps is a natural; `TemplateAssumption`:
descriptions and values are of their types, and bytes that are not a table are
still read as steps; `LayoutAssumption`: a parameter that a request may leave out
has a hole of its own kind, one that it must send a value of the URL, and no
operation a hole for separators; `AskedAssumption`: what the pass of a request
leaves out is fixed parameters in a row with no optional one before them;
`FillAssumption`: a request has the values of its own operation's holes, and its
body; `DigitsAssumption`: two numbers of
parts have different texts, and none is empty; `UploadsAssumption`: lists are of
numbers, no content is called `None`, a page and the array for it have room for
a part).  TLC checks each of them on the instances of the runs.
`tlapm BytesProofs.tla` and so on check the proofs.

| Theorem | Statement |
|---|---|
| `WriterTypeCorrect`, `WriterWrittenWhole`, `WriterRequiredExact`, `WriterTwoAttempts` | `Spec => []...` for every set of scripts, of any length, and every buffer |
| `GetTypeCorrect`, `GetWindowIsAskedFor`, `GetWindowRepresentable`, `GetHonestAnswerIsRead` | `Spec => []...` for a u64 of any width and any numbers in a head |
| `ExchangeTypeCorrect`, `ExchangeUnaskedIsNoOutcome`, `ExchangeNamedIsExact`, `ExchangeClassIsOfTheCause` | `Spec => []...` for any set of statuses |
| `ExchangeImplementsPromise` | `Spec => P!Safety`, the refinement without its liveness |
| `TemplatePartsInRange` | `Spec => []PartsInRange`, for any set of descriptions, any values, and any bytes given as a template |
| `TemplateTableOfTheLayout` | `Spec => []TableOfTheLayout`, for any layout and any limit of steps |
| `TemplateOwnBytesAccepted`, `TemplateWalkWritesAlike`, `TemplateRequestAsMeant` | `Spec => []...`, for any set of descriptions and any requests of them |
| `TypeSafe`, `SignedIsTaken`, `CorruptRefused`, `SignedInOrder` | `Spec => []...` of `Signing`, for any set of descriptions, any clock, and every order of calls |
| `ReaderCursorInRange` | `ReaderSpec => []CursorInRange`, for every document and depth, both page readers, and any damage |
| `UploadsTyped`, `VerdictsTrue`, `CommitsPublishAsMeant`, `ListingsWhole` | `Spec => []...` of `Uploads`, for any number of parts, lists of any length and order, pages of any size, and any requests that may be late |

**Writer.**  None of the properties is inductive: a call that has not finished
says nothing.  `Inductive` adds that the count is the length of the text, cut
off at `MaxUsize` (`position = Counted(Len(text))`); that while the text fits,
the buffer starts with it (`PrefixHeld`); that the second attempt counts at
each piece what the first did (`CountsAlike`), which is why it fits in the room
that the first asked for; and what a verdict says of the count
(`VerdictFair`).  `CopiesCover` proves the arithmetic of `copy_short` for every
length: its copies cover a value and stay in it.

**Template.**  The builder, the pass and the walk are folds over sequences of
any length.  The library's theorems about them have operators as parameters, so
a fold is met from first principles: a function that solves the fold's equation
exists (`FoldExists`), and what each step keeps, a run keeps (`FoldRuns`, both in
`SelectionProofs`); the
induction is over positions, by the least one that fails.  A layout is a
sequence of operations of `Pass` (`LayoutIn`).  `Builders` says that a table
counts each of its steps in one section, which every operation keeps
(`BuildKept`) and which `Finish` reads the ends of sections from (`FinishIs`).
`Passes` says that the ends of sections and the placeholders of a pass lie within
what it wrote, and in order.  The text only grows, and each of them is taken from
the position it has reached, so every operation keeps it with the steps of any
table (`PassKept`), and so does the walk (`WalkKept`); the parts follow
(`PartsWithin`).  `Inductive` adds that the table is the one that was finished,
that what was given is of the types that can be given, and that a pass whose
bytes are no table reads none.  What makes this worth proving is that the bytes
of a template decide how far a pass goes, and nothing checks them.

`TableOfTheLayout` is about the builder alone.  `Tidy` says that each step it
has is a hole or the end of a section and not both (`HolesOrEnds`), that each
section it has left ends in one step and no other does (`EndsBefore`), and that
the runs and names of the steps, up to the open one, add up to its text
(`Adds`, whose sum is a function that `SumOf` is shown to equal).  Every
operation keeps it, and `Tabled` is what `Finish` makes of it.  `History` keeps,
for each state, the run of the layout that its builder or its template came
from (`OfLayout`), as `Spec` forgets the builder when a request is asked for.

`OwnBytesAccepted` compares two runs of one layout: the builder's, which is
over, and the pass that reads what it wrote.  What the layout says by itself,
with no table, is a third (`SaidRun`), and both are compared with it.  `Closed`
is the number of steps that the builder has finished, `Pending` the bytes of the
run that it may still extend, and `Grows` says that nothing it has closed
changes afterwards, so that a fact about the builder at an operation is a fact
about the table.  A pass `Keeps` up if its cursor is at the steps that were
closed and it has written what the layout says, but for the pending run
(`Follows`); one lemma for each operation shows that it is kept, in the same
section (`Paced`), and `LayoutKeeps` runs them over a layout.  The pass of a
request need not run the whole layout: a parameter in the middle of a run of
text makes no step, so leaving it out changes nothing (`LeavesOut`, `AskedPass`).

`WalkWritesAlike` compares the table's own walk with the same run of the layout.
The walk has no operations, only steps, so it goes from the steps that are
closed before an operation to those after it (`Along`); that holds for each
operation (a text closes no step, a hole one, an optional parameter two, a
section one for each section it ends), so for the layout (`LayoutWalks`), and so
at the end (`WalkSays`).  The fields of the head start and end inside runs, and
`WalkMarks` places them there.

`RequestAsMeant` compares what is written with `Meant`, which has no pass: it
puts the URL together from the query's present parameters, and finds a part by
the first operation of its section.  A pass over its own template's bytes writes
what its layout says (`SaidRun`), so the comparison is of two readings of one
layout.  `Saying` holds of every such run: each operation adds one text to what
was said before it (`OpSays`), so an offset can only grow (`SayingGoes`), and
the end of a section and the fields are the offset at the operation that marks
them (`EndAt`, `MarkAt`).  Then it goes along the request.  The query is said as
the pieces of the parameters that are present, the first after `?` (`QuerySaid`,
over the positions of `Selected`); what the pass copies from the URL for a
service to sign is the target, the path and the query again, though it was said
by way of offsets (`UrlAgain`); every later operation says what it means
(`HoleMeant`), where the length of a body that the request writes itself is the
one that the walk of the table measured before (`BodyWalked`).  So the text is
the one that is meant (`MeantIs`), each operation starts where `Meant` says, and
the parts are at the same offsets (`PartsSaid`).

**Get.**  `Inductive` says that a result that was read is `AcceptGetHead` of the
head (`Resulting`), and that an honest head is one of `HonestHeads` of a size
(`Honest`).  The properties are then facts about one state, by the form of the
range; `BodyOf` says which heads are bodies at all.

**Exchange.**  The request and the answer do not change after the service acted,
so `Inductive` says how the result follows from them (`Followed`: from the
head, or from some body that can arrive) and what an honest answer calls its
cause (`Answered`).  The refinement needs one fact about a state, `Truthful`:
what a caller was told is something that may be told of the cause.  It is
proved apart for successes, for errors that have a status of their own
(`TruthfulHead`, `TruthfulBody`) and for errors under a 200, from
`OnlyCalledFor`: a status or a code that decides an outcome is called for one
cause only.  Then each action is `Decide`, `Tell` or a stutter.  `NamedIsExact`
goes by the place of the name (`ExactHead`, `ExactBody`, `ExactLate`), with a
failed condition apart from every other error (`ExactCondition`,
`ExactFinish`); its two exceptions are the cases where these lemmas would fail.
`ClassIsOfTheCause` needs that a failure keeps the status of its head and the
name that was heard (`FailureShape`), and that a code and a status that pass
are called for nothing else (`PassingCalledFor`).

**Signing.**  `SignedAsToldIsTaken` is about the last step of many, so the
invariant follows the request from its encoding.  What the canonical request in
the caller's buffer says is what a service rebuilds from the head, whatever was
written in so far (`EncodedWhole`, `HashedWhole`, `SummedWhole`); after the hash
and the checksum, no call changes it (`SignedStays`); and a signature that was
made after both, written in at once or kept for later, is of what the buffer
still holds.  Then the two MACs are of the same term under the same key, unless
the key, the stamp or the session is one that the comments tell a caller not to
use.  That order is what the documentation asks for and the types do not.
`CorruptIsRefused` is the other half: the head never says the hash or the
checksum of a content that the caller did not mean (`Covers`), whatever was
written in and in which order.  `OrderedAfterHost` is about two merges.  A list
rises if each name of it has a greater place than the one before (`Rising`);
the fixed fields rise since each is inserted in front of the first that is not
less (`InsertRising`), the metadata and the filled fields since a selection of a
list that rises does.  Merging two such lists that share no name is a fold whose
every step keeps what is out in order and before what is left (`PlaceKeeps`,
`MergedIs`).  The order meant here puts the host before every name
(`PlaceOf`); the merges compare bytes, and agree with it because what they place
goes after the host.

**Reader.**  The scanner has no bounds checks: it takes chunks of the document by
the offsets it kept.  `Good` says that the cursor lies in the document and every
span of the entry under construction below the cursor; that alone is not
inductive, as building an entry takes its bytes off, so `Settled` adds that
between two entries there are no spans.  Each operator of the scanner is one
lemma (`ChildInDocument`, `ValueInDocument`, `SkipInDocument`: from a place in
the document they go to a later one, or fail), and each turn of a reader is one
more.  The document is any sequence of tokens, cut and damaged pages included.

**Uploads.**  `IInv` is the three properties with what each of them rests on.  A
verdict is kept until the next call and nothing else reaches the service between
its answer and the reading of it: `LastOK` keeps it until a call is made, and a
request that arrives late does so before or after.  A commit that is under way names the parts that the uploader
means, position by position (`MeantOK`, `MeantOf`), so that what the service
selects by that list is what was meant.  For a listing, a part that was there all
along is still as it was (`SteadyOK`), and what was listed so far rises and holds
every such part up to the marker (`WalkOK`, `ListedUpTo`).  A service that
ignores the marker and has more parts than a page names its first page again,
which ends the walk without a result.  A page that lost a field, has one twice,
or has one that cannot be read is refused or read as it was written.

**Selection.**  `Selected` is a recursive function.  Its positions are met in
order: there is a numbering of the ones that are kept (`SelectionProofs`), and
the element at each is the one that the numbering says.  The induction is again
over numbers, by the least one that fails.  So an induction over data is possible
here where the recursion is a first-order function or a fold; it is not where the
definition is a recursive operator.

**Only model-checked.**

* The rest of `Template`.  `PlaceholdersMarked` and `TypeOK` rest on counts,
  of slots and of `MaxSteps`, which hold of the descriptions of the crate and not
  of every description.  `UrlChecked` compares a URL's length with a bound that
  counts fixed bytes and tripled values apart.
* What pages are read as (`PageAsWritten`, `RoomIsExact`, `HonestPageIsRead`,
  `WalkAgrees`, `EachKeyOnce`, and the types of `Listing`): they compare with a
  recursive reading of the document.
* The refinement of `Asked` by `Objects`, whose proof would be one case for each
  operation of each service, which TLC enumerates.
* All liveness, which is outside what TLAPS proves here.

## 5. Plan

All seven components that hold the core's logic are modelled, in this order:
`Writer`; `Layout`, `Engine`, `Meant`, `Template`; `Get`; `Exchange`, `Promise`;
`Canonical`, `Signing`; the page readers and `Listing`; `Parts`, `Uploads`;
`Calls` to `Objects`; `CEntry`, `Client`.  What is left, by what it would add:

1. Several calls of one template in `Objects` (`MaxCalls` is a constant; the
   model has no step that depends on it being 1, and two calls of every pair of
   items are more states than a run should take).
2. The blocks of the C interface, in `Uploads`, and the walk over an entry.
3. Proofs: `UrlChecked`, from the URL that `RequestAsMeant` is proved with, and
   `PageAsWritten` once `Tree` is written with folds.

### Not modelled

* The rest of the C interface: null pointers, sentences, and the layout of
  structures, which static assertions and `layout.rs` check at compile time.
* Cryptography: digests and MACs are terms in `Signing`; what they compute is
  tested by vectors.
* Encodings (percent, base64, dates, headers): pure functions of short inputs.
  The models have them where a property tells them apart: the URL bound, the
  words of a metadata value, a key that is decoded in place.
* `Table::check`, the fingerprint that a caller may ask for: it is a hash, and
  what a table does without it is in `Template`.
* libcurl and ureq: their transfers are the environment of `Client` and
  `Exchange`.
* The checks, the benchmarks, and the object tests but for their loops.
