------------------------------ MODULE Signing -------------------------------
(***************************************************************************)
(* The signing of S3 requests: credentials and the sessions of a directory *)
(* bucket, templates that keep the credentials they were written with, the *)
(* key of a day, the stamp of a second, and the calls that fill a request  *)
(* before it is signed (s3/template.rs, and sigv4.rs of both crates).      *)
(*                                                                         *)
(* The crate keeps nothing: a caller holds the template, the key and the   *)
(* stamp for as long as it likes, and may make the calls in any order that *)
(* their types allow.  Hashes and MACs are terms, equal if and only if     *)
(* what they are of is equal.                                              *)
(***************************************************************************)
EXTENDS Canonical

CONSTANTS
  Describes,      \* the requests, as descriptions
  Starts,         \* the kinds of the credentials that the caller may start with
  DayLen,         \* seconds in a day
  MaxClock,       \* the last second
  Skew,           \* how old a request may be when it arrives
  SessionLen      \* how long a session lives

ASSUME SigningAssumption ==
  /\ Starts \subseteq {"long", "temporary"}
  /\ DayLen \in Nat \ {0}
  /\ MaxClock \in Nat
  /\ Skew \in Nat
  /\ SessionLen \in Nat

\* What every description of the crate has: the hash and the date are signed,
\* and the token; a hash is filled for a body that is signed; and a checksum is
\* sent of a body only, by filling it.
ASSUME DescribesAssumption ==
  \A d \in Describes, kind \in {"long", "temporary", "session"} :
    LET order == ToSet(SignedOrder(d, kind))
    IN /\ {ShaField, DateField} \cup TokenField(kind) \subseteq order
       /\ SumField \in order <=> SumField \in d.filled
       /\ DateField \in d.filled
       /\ d.filled \cap TokenField(kind) = {}
       /\ ShaField \in d.filled <=> d.body \in {"signed", "own"}
       /\ SumField \in d.filled => d.body # "none"
       /\ d.body \in {"none", "signed", "unsigned", "own"}

\* A field has one source: the operation, the metadata, whose names go after the
\* host, or each request.
ASSUME FieldsAssumption ==
  \A d \in Describes, kind \in {"long", "temporary", "session"} :
    LET fixed == d.fields \o Extra(d, kind)
    IN /\ d.fields \in Seq(ToSet(Names) \ {"host"})
       /\ \A i, j \in DOMAIN fixed : fixed[i] = fixed[j] => i = j
       /\ d.metadata \subseteq {name \in ToSet(Names) : Less("host", name)}
       /\ d.filled \subseteq ToSet(FilledOrder)
       /\ ToSet(fixed) \cap (d.metadata \cup d.filled) = {} /\ d.metadata \cap d.filled = {}

Time == 0 .. MaxClock
Day(time) == time \div DayLen

\* Credentials: long-lived, temporary, or of the session that was opened at
\* a time.  A set of credentials has one secret.
Own(kind) == [kind |-> kind, opened |-> 0]
Session(time) == [kind |-> "session", opened |-> time]
Credentials == {Own("long"), Own("temporary")} \cup {Session(t) : t \in Time}

\* A bucket, and its scope of a signature: the service that it is signed for.
Buckets == {"objects", "directory"}
None == [none |-> TRUE]
Nothing == <<"none">>

VARIABLES
  clock,
  held,       \* the credentials that the caller holds now
  template,   \* the caller's template, or None
  key,        \* the signing key that the caller keeps, or None
  stamp,      \* the stamp that the caller keeps, or None
  request,    \* the request in the buffer, or None
  mac,        \* a signature computed apart from writing it, or None
  answer      \* what the service made of the request: "none", "taken", "refused"

caller == <<held, template, key, stamp>>
vars == <<clock, held, template, key, stamp, request, mac, answer>>

-----------------------------------------------------------------------------
(* Hashes and MACs.                                                        *)

\* Mutant: a key of the second, not of its day.
DayKeyOfTheSecond(credentials, time, bucket) ==
  [credentials |-> credentials, day |-> time, bucket |-> bucket]
DayKey(credentials, time, bucket) ==
  [credentials |-> credentials, day |-> Day(time), bucket |-> bucket]
Stamp(aKey, time, bucket) == [key |-> aKey, time |-> time, bucket |-> bucket]
Mac(aStamp, canonical) == <<"mac", aStamp, canonical>>

-----------------------------------------------------------------------------
(* The caller's templates, keys and stamps.                                *)

Init ==
  /\ clock = 0
  /\ held \in {Own(kind) : kind \in Starts}
  /\ template = None
  /\ key = None
  /\ stamp = None
  /\ request = None
  /\ mac = None
  /\ answer = "none"

Tick ==
  /\ clock < MaxClock
  /\ clock' = clock + 1
  /\ UNCHANGED <<held, template, key, stamp, request, mac, answer>>

\* prepare_*: a copy refuses the credentials of a session, and a session is
\* asked of a directory bucket only.
Prepares(d, credentials, bucket) ==
  /\ d.op = "copy" => credentials.kind # "session"
  /\ d.op = "create_session" => bucket = "directory"

Prepare(d, credentials, bucket) ==
  /\ request = None
  /\ Prepares(d, credentials, bucket)
  /\ template' = [d |-> d, credentials |-> credentials, bucket |-> bucket]
  /\ UNCHANGED <<clock, held, key, stamp, request, mac, answer>>

\* signing_key: of the day of now, and of the scope that the template holds.
DeriveKey(credentials) ==
  /\ request = None
  /\ template # None
  /\ key' = DayKey(credentials, clock, template.bucket)
  /\ UNCHANGED <<clock, held, template, stamp, request, mac, answer>>

\* stamp: the start of the string to sign at now, under a key.
MakeStamp ==
  /\ request = None
  /\ template # None /\ key # None
  /\ stamp' = Stamp(key, clock, template.bucket)
  /\ UNCHANGED <<clock, held, template, key, request, mac, answer>>

-----------------------------------------------------------------------------
(* One request.                                                            *)

Token(t) == <<"token", t.credentials>>

\* What a request at a time is given for the fields that it fills.
\* Mutant: no content is signed.
FilledValueUnsigned(d, etag, time, name) ==
  CASE name = DateField -> <<"date", time>>
    [] name = ShaField  -> UnsignedPayload
    [] OTHER            -> Plain

FilledValue(d, etag, time, name) ==
  CASE name \in {"if-match", "x-amz-copy-source-if-match"} -> etag
    [] name = DateField -> <<"date", time>>
    [] name = ShaField  -> IF d.body = "own" THEN Unfilled ELSE Hash("body")
    [] name = SumField  -> IF d.body = "own" THEN Unfilled ELSE Digest("body")
    [] OTHER       -> Plain

ValueOf(t, etag, time, name) ==
  IF name \in t.d.filled THEN FilledValue(t.d, etag, time, name)
  ELSE FixedValue(t.d, Token(t), name)

\* The payload ends the canonical request: a hole, or what every request of
\* the template sends alike.
Payload(t, time) ==
  IF ShaField \in t.d.filled THEN FilledValue(t.d, Plain, time, ShaField) ELSE FixedValue(t.d, Token(t), ShaField)

Encoded(t, etag, time) ==
  LET kind == t.credentials.kind
      order == SignedOrder(t.d, kind)
  IN [sent      |-> [name \in ToSet(order) |-> Sent(ValueOf(t, etag, time, name))],
      listed    |-> SignedNames(t.d, kind),
      credential |-> [credentials |-> t.credentials, day |-> Day(time), bucket |-> t.bucket],
      canonical |-> [order   |-> order,
                     value   |-> [name \in ToSet(order) |->
                                    CanonicalValue(ValueOf(t, etag, time, name))],
                     payload |-> Payload(t, time)],
      signature |-> Nothing,
      calls       |-> {},          \* history: what was written in since
      signedAfter |-> {}]

Encode(etag) ==
  /\ request = None
  /\ template # None
  /\ request' = Encoded(template, etag, clock)
  /\ answer' = "none"
  /\ UNCHANGED <<clock, held, template, key, stamp, mac>>

\* A value is written over its placeholders: in the head, in the canonical
\* request, and, for the hash, at the end of that.
\* Mutant: the value is written in the head alone.
OverwrittenInTheHead(r, name, value) == [r EXCEPT !.sent[name] = value]
Overwritten(r, name, value) ==
  [r EXCEPT !.sent[name] = value, !.canonical.value[name] = value]

WithHash(r) ==
  IF template.d.body = "own"
  THEN [Overwritten(r, ShaField, Hash("body")) EXCEPT !.canonical.payload = Hash("body")]
  ELSE r
Hashed(r) == [WithHash(r) EXCEPT !.calls = @ \cup {"hash"}]

WithSum(r) ==
  IF template.d.body = "own" /\ SumField \in template.d.filled
  THEN Overwritten(r, SumField, Digest("body"))
  ELSE r
Summed(r) == [WithSum(r) EXCEPT !.calls = @ \cup {"checksum"}]

InHand == request # None /\ answer = "none"

SetBodyChecksum ==
  /\ InHand
  /\ request' = Summed(request)
  /\ UNCHANGED <<clock, held, template, key, stamp, mac, answer>>

HashBody ==
  /\ InHand
  /\ request' = Hashed(request)
  /\ UNCHANGED <<clock, held, template, key, stamp, mac, answer>>

\* sign: the hash of the body, then the signature of what there is.
Sign ==
  /\ InHand /\ stamp # None
  /\ LET hashed == Hashed(request)
     IN request' = [hashed EXCEPT !.signature = Mac(stamp, hashed.canonical),
                                  !.signedAfter = hashed.calls]
  /\ UNCHANGED <<clock, held, template, key, stamp, mac, answer>>

\* sign_batch, which only reads the canonical request, and set_signature.
SignBatch ==
  /\ InHand /\ stamp # None
  /\ mac' = [of |-> Mac(stamp, request.canonical), after |-> request.calls]
  /\ UNCHANGED <<clock, held, template, key, stamp, request, answer>>

SetSignature ==
  /\ InHand /\ mac # None
  /\ request' = [request EXCEPT !.signature = mac.of, !.signedAfter = mac.after]
  /\ mac' = None
  /\ UNCHANGED <<clock, held, template, key, stamp, answer>>

-----------------------------------------------------------------------------
(* The service (external).  It builds the canonical request from what it   *)
(* received, with the names in the order that they are listed.             *)

Trimmed(value) == IF value = Spaced THEN Folded ELSE value

Rebuilt(r) ==
  [order   |-> r.listed,
   value   |-> [name \in ToSet(r.listed) |-> Trimmed(r.sent[name])],
   payload |-> r.sent[ShaField]]

TokenArrived(r) ==
  \A name \in TokenField(r.credential.credentials.kind) :
    name \in DOMAIN r.sent /\ r.sent[name] = <<"token", r.credential.credentials>>

Alive(credentials) ==
  credentials.kind = "session" => clock <= credentials.opened + SessionLen

\* Objects of a directory bucket are for sessions; a copy into one, and the
\* creation of a session, are for the caller's own credentials.
Authorized(d, credentials, bucket) ==
  (credentials.kind = "session") <=> (bucket = "directory" /\ ~ d.own)

ContentAgrees(r, body) ==
  /\ r.sent[ShaField] \in {Hash(body), UnsignedPayload}
  /\ SumField \in DOMAIN r.sent => r.sent[SumField] = Digest(body)

Takes(r, t, body) ==
  LET time == r.sent[DateField][2]
      scope == r.credential
  IN /\ clock - time <= Skew
     /\ scope.day = Day(time) /\ scope.bucket = t.bucket
     /\ Authorized(t.d, scope.credentials, t.bucket)
     /\ Alive(scope.credentials) /\ TokenArrived(r)
     /\ r.signature = Mac(Stamp(DayKey(scope.credentials, time, t.bucket), time, t.bucket),
                          Rebuilt(r))
     /\ ContentAgrees(r, body)

BodyOf(d) == IF d.body = "none" THEN "empty" ELSE "body"

\* The body that arrives is the one that was signed, or a corrupted one.  A
\* CreateSession that is taken opens a session.
Arrives(corrupt) == IF corrupt THEN "corrupt" ELSE BodyOf(template.d)

Send(corrupt) ==
  /\ InHand
  /\ IF Takes(request, template, Arrives(corrupt))
     THEN /\ answer' = "taken"
          /\ held' = IF template.d.op = "create_session" THEN Session(clock) ELSE held
     ELSE answer' = "refused" /\ held' = held
  /\ UNCHANGED <<clock, template, key, stamp, request, mac>>

Done ==
  /\ request # None /\ answer # "none"
  /\ request' = None
  /\ answer' = "none"
  /\ mac' = None
  /\ UNCHANGED <<clock, held, template, key, stamp>>

Next ==
  \/ Tick
  \/ \E d \in Describes, bucket \in Buckets : Prepare(d, held, bucket)
  \/ DeriveKey(held)
  \/ MakeStamp
  \/ \E etag \in {Plain, Spaced} : Encode(etag)
  \/ SetBodyChecksum
  \/ HashBody
  \/ Sign
  \/ SignBatch
  \/ SetSignature
  \/ \E corrupt \in BOOLEAN : Send(corrupt)
  \/ Done

Spec == Init /\ [][Next]_vars

-----------------------------------------------------------------------------
(* Properties.                                                             *)

Keys == [credentials : Credentials, day : {Day(t) : t \in Time}, bucket : Buckets]
Stamps == [key : Keys, time : Time, bucket : Buckets]

\* The caller keeps keys and stamps of times that have been, and a request is
\* of its template.
TypeOK ==
  /\ clock \in Time
  /\ held \in Credentials
  /\ key \in Keys \cup {None}
  /\ stamp \in Stamps \cup {None}
  /\ template \in [d : Describes, credentials : Credentials, bucket : Buckets] \cup {None}
  /\ answer \in {"none", "taken", "refused"}
  /\ request # None => template # None

\* The stamp that the contract asks for: of the second that the request was
\* encoded at, under the key of its day, for the credentials and the bucket of
\* its template.
RightStamp(r) ==
  Stamp(DayKey(template.credentials, r.sent[DateField][2], template.bucket),
        r.sent[DateField][2], template.bucket)

SignedAsTold(r) ==
  /\ r.signature # Nothing
  /\ r.signature[2] = RightStamp(r)
  /\ {"hash", "checksum"} \subseteq r.signedAfter

\* A request that was signed as the documentation of sign and of sign_batch
\* says (the right stamp, the checksum and the hash of its own body written in
\* before) is taken, as long as its time and its session are: what was signed
\* is what the service builds again from the head, whatever the request sends
\* and in whatever order the caller made the calls.
SignedAsToldIsTaken ==
  ( /\ InHand /\ SignedAsTold(request)
    /\ clock - request.sent[DateField][2] <= Skew
    /\ Authorized(template.d, template.credentials, template.bucket)
    /\ Alive(template.credentials) )
  => Takes(request, template, BodyOf(template.d))

\* A content that arrives changed is refused, unless the caller left it
\* unsigned and without a checksum.
CorruptIsRefused ==
  [][ \A d \in Describes :
        (Send(TRUE) /\ template.d = d /\ answer' = "taken") =>
          d.body = "unsigned" /\ SumField \notin d.filled ]_vars

\* The names are listed once each and, but for the host, which stands first,
\* in the order of their bytes.
Ordered(names) == \A i, j \in DOMAIN names : i < j => Less(names[i], names[j])
OrderedAfterHost ==
  request # None =>
    /\ request.listed[1] = "host"
    /\ "host" \notin ToSet(Tail(request.listed))
    /\ Ordered(Tail(request.listed))
=============================================================================
