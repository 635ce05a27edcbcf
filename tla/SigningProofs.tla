--------------------------- MODULE SigningProofs ----------------------------
(***************************************************************************)
(* Proofs about Signing: the type invariant, and that a request which was  *)
(* signed as the documentation says is taken.                              *)
(*                                                                         *)
(* The second needs three facts that hold between any two calls, in        *)
(* whatever order the caller makes them.  What the canonical request holds *)
(* is what the service builds again from the head; once the checksum and   *)
(* the hash are written in, no later call changes it; and a signature that *)
(* was made after both, kept apart or written in, is of what the buffer    *)
(* still holds.                                                            *)
(*                                                                         *)
(* The order of the signed names is a fact about three lists and what is   *)
(* merged of them, each a fold that is run position by position.           *)
(***************************************************************************)
EXTENDS Signing, SelectionProofs

Kinds == {"long", "temporary", "session"}
Templates == [d : Describes, credentials : Credentials, bucket : Buckets]
Both == {"hash", "checksum"}

-----------------------------------------------------------------------------
(* Types.                                                                  *)

LEMMA CredentialKinds ==
  ASSUME NEW c \in Credentials
  PROVE  c.kind \in Kinds
BY DEF Credentials, Own, Session, Kinds

LEMMA NoneIsNot ==
  /\ None \notin Templates
  /\ None \notin Keys
  /\ None \notin Stamps
BY DEF None, Templates, Keys, Stamps

\* The type invariant is inductive: keys and stamps are of times that have
\* been, whatever the caller holds.
LEMMA TypeInductive ==
  ASSUME TypeOK, [Next]_vars
  PROVE  TypeOK'
<1> USE SigningAssumption DEF TypeOK
<1>1. CASE Tick
  BY <1>1 DEF Tick, Time
<1>2. ASSUME NEW d \in Describes, NEW bucket \in Buckets, Prepare(d, held, bucket)
      PROVE  TypeOK'
  BY <1>2 DEF Prepare
<1>3. CASE DeriveKey(held)
  <2>1. template # None /\ template.bucket \in Buckets
    BY <1>3 DEF DeriveKey
  <2>2. DayKey(held, clock, template.bucket) \in Keys
    BY <2>1 DEF DayKey, Keys
  <2> QED BY <1>3, <2>2 DEF DeriveKey
<1>4. CASE MakeStamp
  <2>1. template.bucket \in Buckets /\ key \in Keys
    BY <1>4 DEF MakeStamp
  <2>2. Stamp(key, clock, template.bucket) \in Stamps
    BY <2>1 DEF Stamp, Stamps
  <2> QED BY <1>4, <2>2 DEF MakeStamp
<1>5. ASSUME NEW etag \in {Plain, Spaced}, Encode(etag)
      PROVE  TypeOK'
  BY <1>5 DEF Encode
<1>6. CASE SetBodyChecksum
  BY <1>6 DEF SetBodyChecksum, InHand
<1>7. CASE HashBody
  BY <1>7 DEF HashBody, InHand
<1>8. CASE Sign
  BY <1>8 DEF Sign, InHand
<1>9. CASE SignBatch
  BY <1>9 DEF SignBatch
<1>10. CASE SetSignature
  BY <1>10 DEF SetSignature, InHand
<1>11. ASSUME NEW corrupt \in BOOLEAN, Send(corrupt)
       PROVE  TypeOK'
  BY <1>11 DEF Send, InHand, Credentials
<1>12. CASE Done
  BY <1>12 DEF Done
<1>13. CASE UNCHANGED vars
  BY <1>13 DEF vars
<1> QED
  BY <1>1, <1>2, <1>3, <1>4, <1>5, <1>6, <1>7, <1>8, <1>9, <1>10, <1>11, <1>12, <1>13 DEF Next

LEMMA TypeInit == Init => TypeOK
BY SigningAssumption DEF Init, TypeOK, Time, Credentials, None, Own

\* The caller's keys and stamps, its templates and its requests have their
\* types, for every set of requests and every length of a day and a session.
THEOREM TypeSafe == Spec => []TypeOK
BY TypeInit, TypeInductive, PTL DEF Spec

-----------------------------------------------------------------------------
(* What a request in the buffer is.                                        *)

Order(t) == SignedOrder(t.d, t.credentials.kind)

\* The names are listed in the order in which their lines are written, though
\* each comes from a list of its own (Holes::names, write_filled_fields).
LEMMA NamedAsWritten ==
  ASSUME NEW d, NEW kind
  PROVE  SignedNames(d, kind) = SignedOrder(d, kind)
<1>1. WrittenOrder = FilledOrder
  BY DEF WrittenOrder, FilledOrder
<1>2. WrittenFilled(d) = Filled(d)
  BY <1>1 DEF WrittenFilled, Filled
<1> QED BY <1>2 DEF SignedNames, SignedOrder

\* The canonical request is what the service builds again; the date, the
\* scope and the token are of the template and of one second.
Whole(r, t) ==
  /\ r = [sent |-> r.sent, listed |-> r.listed, credential |-> r.credential,
          canonical |-> r.canonical, signature |-> r.signature, calls |-> r.calls,
          signedAfter |-> r.signedAfter]
  /\ r.listed = Order(t)
  /\ r.sent = [name \in ToSet(Order(t)) |-> r.sent[name]]
  /\ r.canonical = Rebuilt(r)
  /\ \E time \in Time :
       /\ r.sent[DateField] = <<"date", time>>
       /\ r.credential = [credentials |-> t.credentials, day |-> Day(time), bucket |-> t.bucket]
  /\ \A name \in TokenField(t.credentials.kind) : r.sent[name] = Token(t)

\* What the body's hash and checksum are, once they were written in.
BodyWritten(r, t) ==
  /\ t.d.body # "own" \/ "hash" \in r.calls => r.sent[ShaField] \in {Hash(BodyOf(t.d)), UnsignedPayload}
  /\ t.d.body = "own" /\ "hash" \in r.calls => r.sent[ShaField] = Hash("body")
  /\ (t.d.body # "own" \/ "checksum" \in r.calls) /\ SumField \in t.d.filled =>
       r.sent[SumField] = Digest("body")

\* A signature that was made after both is of what the buffer holds.
SignedNow(r, signature, after) ==
  /\ after \subseteq r.calls
  /\ Both \subseteq after =>
       signature = <<"mac", signature[2], r.canonical>>

RequestOK ==
  request # None =>
    /\ Whole(request, template)
    /\ BodyWritten(request, template)
    /\ request.signature # Nothing =>
         SignedNow(request, request.signature, request.signedAfter)
    /\ mac # None => SignedNow(request, mac.of, mac.after)

IInv == TypeOK /\ RequestOK /\ (request = None => mac = None)

-----------------------------------------------------------------------------
(* Lemmas about values and descriptions.                                   *)

\* The service folds what the head sends into what the crate has signed.
LEMMA TrimmedSent ==
  ASSUME NEW value
  PROVE  Trimmed(Sent(value)) = CanonicalValue(value)
BY DEF Trimmed, Sent, CanonicalValue, Spaced, Folded, Wide, Word

LEMMA TrimmedDigests ==
  \A body : Trimmed(Hash(body)) = Hash(body) /\ Trimmed(Digest(body)) = Digest(body)
BY DEF Trimmed, Hash, Digest, Spaced, Folded

LEMMA Described ==
  ASSUME NEW t \in Templates
  PROVE  /\ ShaField \in ToSet(Order(t)) /\ DateField \in ToSet(Order(t))
         /\ TokenField(t.credentials.kind) \subseteq ToSet(Order(t))
         /\ SumField \in ToSet(Order(t)) <=> SumField \in t.d.filled
         /\ DateField \in t.d.filled
         /\ t.d.filled \cap TokenField(t.credentials.kind) = {}
         /\ ShaField \in t.d.filled <=> t.d.body \in {"signed", "own"}
         /\ SumField \in t.d.filled => t.d.body # "none"
      /\ t.d.body \in {"none", "signed", "unsigned", "own"}
<1>1. t.d \in Describes /\ t.credentials \in Credentials
  BY DEF Templates
<1>2. t.credentials.kind \in {"long", "temporary", "session"}
  BY <1>1, CredentialKinds DEF Kinds
<1> QED BY <1>1, <1>2, DescribesAssumption DEF Order

LEMMA NamesDiffer ==
  /\ ShaField # DateField /\ SumField # DateField /\ ShaField # SumField
  /\ \A kind \in Kinds : {ShaField, DateField, SumField} \cap TokenField(kind) = {}
BY DEF ShaField, DateField, SumField, Kinds, TokenField

-----------------------------------------------------------------------------
(* The calls that write into the buffer.                                   *)

\* A request with a value written over a name, and over the payload if the
\* name is that of the hash.
Rewritten(r, name, value) ==
  [r EXCEPT !.sent = [r.sent EXCEPT ![name] = value],
            !.canonical = [order   |-> r.canonical.order,
                           value   |-> [r.canonical.value EXCEPT ![name] = value],
                           payload |-> IF name = ShaField THEN value ELSE r.canonical.payload]]

\* What a value that folding leaves alone does to a whole request.
LEMMA WholeWritten ==
  ASSUME NEW t \in Templates, NEW r, Whole(r, t),
         NEW name \in {ShaField, SumField}, name \in ToSet(Order(t)),
         NEW value, Trimmed(value) = value
  PROVE  LET w == Rewritten(r, name, value)
         IN /\ Whole(w, t)
            /\ w.sent = [r.sent EXCEPT ![name] = value]
            /\ w.signature = r.signature /\ w.calls = r.calls /\ w.signedAfter = r.signedAfter
            /\ r.sent[name] = value => w.canonical = r.canonical
<1> DEFINE order == ToSet(Order(t))
           w == Rewritten(r, name, value)
           sent == [r.sent EXCEPT ![name] = value]
           canonical == [order   |-> r.canonical.order,
                         value   |-> [r.canonical.value EXCEPT ![name] = value],
                         payload |-> IF name = ShaField THEN value ELSE r.canonical.payload]
<1>0. /\ r = [sent |-> r.sent, listed |-> r.listed, credential |-> r.credential,
              canonical |-> r.canonical, signature |-> r.signature, calls |-> r.calls,
              signedAfter |-> r.signedAfter]
      /\ w = [r EXCEPT !.sent = sent, !.canonical = canonical]
  BY DEF Whole, Rewritten
<1> HIDE DEF sent, canonical, w
<1>1. /\ w.sent = [r.sent EXCEPT ![name] = value]
      /\ w.listed = r.listed /\ w.credential = r.credential
      /\ w.signature = r.signature /\ w.calls = r.calls /\ w.signedAfter = r.signedAfter
      /\ w.canonical = [order   |-> r.canonical.order,
                        value   |-> [r.canonical.value EXCEPT ![name] = value],
                        payload |-> IF name = ShaField THEN value ELSE r.canonical.payload]
      /\ w = [sent |-> w.sent, listed |-> w.listed, credential |-> w.credential,
              canonical |-> w.canonical, signature |-> w.signature, calls |-> w.calls,
              signedAfter |-> w.signedAfter]
  BY <1>0 DEF sent, canonical
<1>2. /\ r.canonical.order = r.listed
      /\ r.canonical.value = [n \in order |-> Trimmed(r.sent[n])]
      /\ r.canonical.payload = r.sent[ShaField]
      /\ r.listed = Order(t)
  BY DEF Whole, Rebuilt
<1>3. r.sent = [n \in order |-> r.sent[n]]
  BY DEF Whole
<1>4. /\ w.sent = [n \in order |-> IF n = name THEN value ELSE r.sent[n]]
      /\ w.sent = [n \in order |-> w.sent[n]]
  BY <1>1, <1>3
<1>5. ShaField \in order /\ DateField \in order /\ TokenField(t.credentials.kind) \subseteq order
  BY Described
<1>6. w.canonical = Rebuilt(w)
  <2>1. w.canonical.value = [n \in order |-> IF n = name THEN value ELSE Trimmed(r.sent[n])]
    BY <1>1, <1>2
  <2>2. w.canonical.value = [n \in order |-> Trimmed(w.sent[n])]
    BY <2>1, <1>4
  <2>3. w.canonical.payload = w.sent[ShaField]
    BY <1>1, <1>2, <1>4, <1>5
  <2>4. w.canonical = [order |-> w.listed, value |-> w.canonical.value,
                       payload |-> w.canonical.payload]
    BY <1>1, <1>2
  <2> QED BY <2>2, <2>3, <2>4, <1>1, <1>2 DEF Rebuilt
<1>7. w.sent[DateField] = r.sent[DateField]
  BY <1>4, <1>5, NamesDiffer
<1>8. \A n \in TokenField(t.credentials.kind) : w.sent[n] = r.sent[n]
  <2>1. t.credentials.kind \in Kinds
    BY CredentialKinds DEF Templates
  <2> QED BY <2>1, <1>4, <1>5, NamesDiffer
<1>9. Whole(w, t)
  <2>1. PICK time \in Time :
          /\ r.sent[DateField] = <<"date", time>>
          /\ r.credential = [credentials |-> t.credentials, day |-> Day(time),
                             bucket |-> t.bucket]
    BY DEF Whole
  <2>2. /\ w.sent[DateField] = <<"date", time>>
        /\ w.credential = [credentials |-> t.credentials, day |-> Day(time),
                           bucket |-> t.bucket]
    BY <2>1, <1>1, <1>7
  <2>3. \A n \in TokenField(t.credentials.kind) : w.sent[n] = Token(t)
    BY <1>8 DEF Whole
  <2> HIDE DEF order
  <2>4. w.sent = [n \in ToSet(Order(t)) |-> w.sent[n]]
    BY <1>4 DEF order
  <2>5. w.listed = Order(t)
    BY <1>1, <1>2
  <2> QED BY <1>1, <1>6, <2>2, <2>3, <2>4, <2>5 DEF Whole
<1>10. ASSUME r.sent[name] = value
       PROVE  w.canonical = r.canonical
  <2>1. w.sent = r.sent
    BY <1>3, <1>4, <1>10
  <2> QED BY <2>1, <1>1, <1>6 DEF Whole, Rebuilt
<1> QED BY <1>1, <1>9, <1>10 DEF w

LEMMA Tokens ==
  /\ TokenField("long") = {}
  /\ TokenField("temporary") = {"x-amz-security-token"}
  /\ TokenField("session") = {"x-amz-s3session-token"}
BY DEF TokenField

LEMMA PayloadOfTheBody ==
  ASSUME NEW t \in Templates, NEW etag, NEW time
  PROVE  /\ ValueOf(t, etag, time, ShaField) = Payload(t, time)
         /\ Payload(t, time) = CASE t.d.body = "own" -> Unfilled
                                 [] t.d.body = "signed" -> Hash("body")
                                 [] t.d.body = "unsigned" -> UnsignedPayload
                                 [] t.d.body = "none" -> Hash("empty")
<1>1. \A e : FilledValue(t.d, e, time, ShaField) =
              IF t.d.body = "own" THEN Unfilled ELSE Hash("body")
  BY DEF FilledValue, ShaField, DateField, SumField
<1>2. FixedValue(t.d, Token(t), ShaField) =
        IF t.d.body = "unsigned" THEN UnsignedPayload ELSE Hash("empty")
  BY Tokens DEF FixedValue, ShaField
<1>3. /\ ShaField \in t.d.filled <=> t.d.body \in {"signed", "own"}
      /\ t.d.body \in {"none", "signed", "unsigned", "own"}
  BY Described
<1> QED BY <1>1, <1>2, <1>3 DEF ValueOf, Payload

\* An encoded request is whole, with the hash and the checksum of a body that
\* the caller has.
LEMMA EncodedWhole ==
  ASSUME NEW t \in Templates, NEW etag \in {Plain, Spaced}, NEW time \in Time
  PROVE  LET r == Encoded(t, etag, time)
         IN Whole(r, t) /\ BodyWritten(r, t) /\ r.signature = Nothing
<1> DEFINE r == Encoded(t, etag, time)
           order == ToSet(Order(t))
<1>1. /\ r.sent = [name \in order |-> Sent(ValueOf(t, etag, time, name))]
      /\ r.listed = Order(t)
      /\ r.credential = [credentials |-> t.credentials, day |-> Day(time), bucket |-> t.bucket]
      /\ r.canonical = [order   |-> Order(t),
                        value   |-> [name \in order |-> CanonicalValue(ValueOf(t, etag, time, name))],
                        payload |-> Payload(t, time)]
      /\ r.signature = Nothing /\ r.calls = {} /\ r.signedAfter = {}
      /\ r = [sent |-> r.sent, listed |-> r.listed, credential |-> r.credential,
              canonical |-> r.canonical, signature |-> r.signature, calls |-> r.calls,
              signedAfter |-> r.signedAfter]
  BY NamedAsWritten DEF Encoded, Order
<1>2. /\ ShaField \in order /\ DateField \in order
      /\ TokenField(t.credentials.kind) \subseteq order
      /\ SumField \in order <=> SumField \in t.d.filled
      /\ DateField \in t.d.filled
      /\ t.d.filled \cap TokenField(t.credentials.kind) = {}
      /\ ShaField \in t.d.filled <=> t.d.body \in {"signed", "own"}
      /\ SumField \in t.d.filled => t.d.body # "none"
      /\ t.d.body \in {"none", "signed", "unsigned", "own"}
  BY Described
<1>3. t.credentials.kind \in Kinds
  BY CredentialKinds DEF Templates
<1>4. r.sent[ShaField] = Payload(t, time)
  <2>1. ValueOf(t, etag, time, ShaField) = Payload(t, time)
    BY PayloadOfTheBody
  <2>2. Payload(t, time) \in {Unfilled, Hash("body"), UnsignedPayload, Hash("empty")}
    BY PayloadOfTheBody, <1>2
  <2>3. \A v \in {Unfilled, Hash("body"), UnsignedPayload, Hash("empty")} : Sent(v) = v
    BY DEF Sent, Unfilled, Hash, UnsignedPayload, Wide
  <2> QED BY <1>1, <1>2, <2>1, <2>2, <2>3
<1>5. t.d.body # "own" => r.sent[ShaField] \in {Hash(BodyOf(t.d)), UnsignedPayload}
  BY <1>2, <1>4, PayloadOfTheBody DEF BodyOf
<1>6. t.d.body # "own" /\ SumField \in t.d.filled /\ SumField \in order =>
        r.sent[SumField] = Digest("body")
  <2>1. ASSUME t.d.body # "own", SumField \in t.d.filled
        PROVE  ValueOf(t, etag, time, SumField) = Digest("body")
    BY <2>1 DEF ValueOf, FilledValue, SumField, ShaField, DateField
  <2>2. Sent(Digest("body")) = Digest("body")
    BY DEF Sent, Digest, Wide
  <2> QED BY <1>1, <2>1, <2>2
<1>7. r.sent[DateField] = <<"date", time>>
  <2>1. ValueOf(t, etag, time, DateField) = <<"date", time>>
    BY <1>2 DEF ValueOf, FilledValue, ShaField, DateField, SumField
  <2>2. Sent(<<"date", time>>) = <<"date", time>>
    BY DEF Sent, Wide
  <2> QED BY <1>1, <1>2, <2>1, <2>2
<1>8. ASSUME NEW name \in TokenField(t.credentials.kind)
      PROVE  r.sent[name] = Token(t)
  <2>1. name \notin t.d.filled /\ name \in order
    BY <1>2
  <2>2. name \in TokenField("temporary") \cup TokenField("session")
    BY <1>3, Tokens DEF Kinds
  <2>3. name # "host" /\ name # ShaField
    BY <2>2, Tokens DEF ShaField
  <2>4. ValueOf(t, etag, time, name) = Token(t)
    BY <2>1, <2>2, <2>3 DEF ValueOf, FixedValue
  <2>5. Sent(Token(t)) = Token(t)
    BY DEF Sent, Token, Wide
  <2> QED BY <1>1, <2>1, <2>4, <2>5
<1>9. r.canonical = Rebuilt(r)
  <2>1. r.canonical.value = [name \in order |-> Trimmed(r.sent[name])]
    BY <1>1, TrimmedSent
  <2> QED BY <2>1, <1>1, <1>4 DEF Rebuilt
<1> HIDE DEF r
<1>10. Whole(r, t)
  <2> HIDE DEF order
  <2>1. r.sent = [name \in ToSet(Order(t)) |-> r.sent[name]]
    BY <1>1 DEF order
  <2> QED BY <1>1, <1>7, <1>8, <1>9, <2>1 DEF Whole
<1>11. BodyWritten(r, t)
  BY <1>1, <1>5, <1>6, <1>2 DEF BodyWritten
<1> QED BY <1>1, <1>10, <1>11 DEF r

\* Noting a call in the history of a request changes nothing else of it.
LEMMA Noted ==
  ASSUME NEW t \in Templates, NEW r, Whole(r, t), NEW call,
         NEW n, n = [r EXCEPT !.calls = r.calls \cup {call}]
  PROVE  /\ Whole(n, t) /\ n.calls = r.calls \cup {call}
         /\ n.sent = r.sent /\ n.canonical = r.canonical
         /\ n.signature = r.signature /\ n.signedAfter = r.signedAfter
<1>1. /\ n.sent = r.sent /\ n.listed = r.listed /\ n.credential = r.credential
      /\ n.canonical = r.canonical /\ n.signature = r.signature
      /\ n.signedAfter = r.signedAfter /\ n.calls = r.calls \cup {call}
      /\ n = [sent |-> n.sent, listed |-> n.listed, credential |-> n.credential,
              canonical |-> n.canonical, signature |-> n.signature, calls |-> n.calls,
              signedAfter |-> n.signedAfter]
  BY DEF Whole
<1>2. Rebuilt(n) = Rebuilt(r)
  BY <1>1 DEF Rebuilt
<1>3. Whole(n, t)
  BY <1>1, <1>2 DEF Whole
<1> QED BY <1>1, <1>3

\* Writing the hash keeps a request whole, and a second time changes nothing.
LEMMA HashedWhole ==
  ASSUME template \in Templates, NEW r, Whole(r, template), BodyWritten(r, template)
  PROVE  LET h == Hashed(r)
         IN /\ Whole(h, template) /\ BodyWritten(h, template)
            /\ h.calls = r.calls \cup {"hash"}
            /\ h.signature = r.signature /\ h.signedAfter = r.signedAfter
            /\ "hash" \in r.calls => h.canonical = r.canonical
<1> DEFINE w == WithHash(r)
           h == Hashed(r)
<1>1. /\ Whole(w, template)
      /\ w.signature = r.signature /\ w.calls = r.calls /\ w.signedAfter = r.signedAfter
      /\ "hash" \in r.calls => w.canonical = r.canonical
      /\ SumField \in ToSet(Order(template)) => w.sent[SumField] = r.sent[SumField]
      /\ template.d.body = "own" => w.sent[ShaField] = Hash("body")
      /\ template.d.body # "own" => w.sent[ShaField] = r.sent[ShaField]
  <2>1. CASE template.d.body = "own"
    <3>1. w = [r EXCEPT !.sent = [r.sent EXCEPT ![ShaField] = Hash("body")],
                        !.canonical = [order   |-> r.canonical.order,
                                       value   |-> [r.canonical.value EXCEPT ![ShaField] = Hash("body")],
                                       payload |-> Hash("body")]]
      <4> DEFINE sent == [r.sent EXCEPT ![ShaField] = Hash("body")]
                 value == [r.canonical.value EXCEPT ![ShaField] = Hash("body")]
                 o == Overwritten(r, ShaField, Hash("body"))
      <4>1. r.canonical = [order |-> r.canonical.order, value |-> r.canonical.value,
                           payload |-> r.canonical.payload]
        BY DEF Whole, Rebuilt
      <4>2. o = [r EXCEPT !.sent = sent, !.canonical = [r.canonical EXCEPT !.value = value]]
        BY DEF Overwritten, Whole
      <4>3. [r.canonical EXCEPT !.value = value] =
              [order |-> r.canonical.order, value |-> value, payload |-> r.canonical.payload]
        BY <4>1
      <4>4. o = [r EXCEPT !.sent = sent,
                          !.canonical = [order |-> r.canonical.order, value |-> value,
                                         payload |-> r.canonical.payload]]
        BY <4>2, <4>3
      <4>5. w = [o EXCEPT !.canonical.payload = Hash("body")]
        BY <2>1 DEF WithHash
      <4> HIDE DEF sent, value, o, w
      <4>6. /\ o.canonical = [order |-> r.canonical.order, value |-> value,
                              payload |-> r.canonical.payload]
            /\ o = [r EXCEPT !.sent = sent, !.canonical = o.canonical]
        BY <4>4 DEF Whole
      <4>7. w = [r EXCEPT !.sent = sent,
                          !.canonical = [o.canonical EXCEPT !.payload = Hash("body")]]
        BY <4>5, <4>6 DEF Whole
      <4>8. [o.canonical EXCEPT !.payload = Hash("body")] =
              [order |-> r.canonical.order, value |-> value, payload |-> Hash("body")]
        BY <4>6
      <4> QED BY <4>7, <4>8 DEF sent, value
    <3>2. ShaField \in ToSet(Order(template)) /\ Trimmed(Hash("body")) = Hash("body")
      BY Described, TrimmedDigests
    <3> HIDE DEF w
    <3>3. /\ Whole(w, template)
          /\ w.sent = [r.sent EXCEPT ![ShaField] = Hash("body")]
          /\ w.signature = r.signature /\ w.calls = r.calls /\ w.signedAfter = r.signedAfter
          /\ r.sent[ShaField] = Hash("body") => w.canonical = r.canonical
      <4>1. w = Rewritten(r, ShaField, Hash("body"))
        BY <3>1 DEF Rewritten
      <4> QED BY <4>1, <3>2, WholeWritten
    <3>4. r.sent = [name \in ToSet(Order(template)) |-> r.sent[name]]
      BY DEF Whole
    <3>5. /\ w.sent[ShaField] = Hash("body")
          /\ SumField \in ToSet(Order(template)) => w.sent[SumField] = r.sent[SumField]
      BY <3>2, <3>3, <3>4, NamesDiffer
    <3>6. "hash" \in r.calls => r.sent[ShaField] = Hash("body")
      BY <2>1 DEF BodyWritten
    <3> QED BY <2>1, <3>3, <3>5, <3>6
  <2>2. CASE template.d.body # "own"
    BY <2>2 DEF WithHash
  <2> QED BY <2>1, <2>2
<1>2. h = [w EXCEPT !.calls = w.calls \cup {"hash"}]
  BY DEF Hashed
<1> HIDE DEF w, h
<1>3. /\ Whole(h, template) /\ h.calls = w.calls \cup {"hash"}
      /\ h.sent = w.sent /\ h.canonical = w.canonical
      /\ h.signature = w.signature /\ h.signedAfter = w.signedAfter
  BY <1>1, <1>2, Noted
<1>4. BodyWritten(h, template)
  <2>1. SumField \in template.d.filled => SumField \in ToSet(Order(template))
    BY Described
  <2>2. template.d.body = "own" => Hash("body") = Hash(BodyOf(template.d))
    BY DEF BodyOf
  <2> QED BY <1>1, <1>3, <2>1, <2>2 DEF BodyWritten
<1> QED BY <1>1, <1>3, <1>4 DEF h

\* Writing the checksum does so too.
LEMMA SummedWhole ==
  ASSUME template \in Templates, NEW r, Whole(r, template), BodyWritten(r, template)
  PROVE  LET h == Summed(r)
         IN /\ Whole(h, template) /\ BodyWritten(h, template)
            /\ h.calls = r.calls \cup {"checksum"}
            /\ h.signature = r.signature /\ h.signedAfter = r.signedAfter
            /\ "checksum" \in r.calls => h.canonical = r.canonical
<1> DEFINE w == WithSum(r)
           h == Summed(r)
           writes == template.d.body = "own" /\ SumField \in template.d.filled
<1>1. /\ Whole(w, template)
      /\ w.signature = r.signature /\ w.calls = r.calls /\ w.signedAfter = r.signedAfter
      /\ "checksum" \in r.calls => w.canonical = r.canonical
      /\ w.sent[ShaField] = r.sent[ShaField]
      /\ writes => w.sent[SumField] = Digest("body")
      /\ ~ writes => w.sent = r.sent
  <2>1. CASE writes
    <3>1. w = [r EXCEPT !.sent = [r.sent EXCEPT ![SumField] = Digest("body")],
                        !.canonical = [order   |-> r.canonical.order,
                                       value   |-> [r.canonical.value EXCEPT ![SumField] = Digest("body")],
                                       payload |-> r.canonical.payload]]
      <4> DEFINE sent == [r.sent EXCEPT ![SumField] = Digest("body")]
                 value == [r.canonical.value EXCEPT ![SumField] = Digest("body")]
                 o == Overwritten(r, SumField, Digest("body"))
      <4>1. r.canonical = [order |-> r.canonical.order, value |-> r.canonical.value,
                           payload |-> r.canonical.payload]
        BY DEF Whole, Rebuilt
      <4>2. o = [r EXCEPT !.sent = sent, !.canonical = [r.canonical EXCEPT !.value = value]]
        BY DEF Overwritten, Whole
      <4>3. [r.canonical EXCEPT !.value = value] =
              [order |-> r.canonical.order, value |-> value, payload |-> r.canonical.payload]
        BY <4>1
      <4>4. o = [r EXCEPT !.sent = sent,
                          !.canonical = [order |-> r.canonical.order, value |-> value,
                                         payload |-> r.canonical.payload]]
        BY <4>2, <4>3
      <4> QED BY <2>1, <4>4 DEF WithSum
    <3>2. /\ ShaField \in ToSet(Order(template)) /\ SumField \in ToSet(Order(template))
          /\ Trimmed(Digest("body")) = Digest("body")
      BY <2>1, Described, TrimmedDigests
    <3> HIDE DEF w
    <3>3. /\ Whole(w, template)
          /\ w.sent = [r.sent EXCEPT ![SumField] = Digest("body")]
          /\ w.signature = r.signature /\ w.calls = r.calls /\ w.signedAfter = r.signedAfter
          /\ r.sent[SumField] = Digest("body") => w.canonical = r.canonical
      <4>1. w = Rewritten(r, SumField, Digest("body"))
        BY <3>1, NamesDiffer DEF Rewritten
      <4> QED BY <4>1, <3>2, WholeWritten
    <3>4. r.sent = [name \in ToSet(Order(template)) |-> r.sent[name]]
      BY DEF Whole
    <3>5. w.sent[SumField] = Digest("body") /\ w.sent[ShaField] = r.sent[ShaField]
      BY <3>2, <3>3, <3>4, NamesDiffer
    <3>6. "checksum" \in r.calls => r.sent[SumField] = Digest("body")
      BY <2>1 DEF BodyWritten
    <3> QED BY <2>1, <3>3, <3>5, <3>6
  <2>2. CASE ~ writes
    BY <2>2 DEF WithSum
  <2> QED BY <2>1, <2>2
<1>2. h = [w EXCEPT !.calls = w.calls \cup {"checksum"}]
  BY DEF Summed
<1> HIDE DEF w, h
<1>3. /\ Whole(h, template) /\ h.calls = w.calls \cup {"checksum"}
      /\ h.sent = w.sent /\ h.canonical = w.canonical
      /\ h.signature = w.signature /\ h.signedAfter = w.signedAfter
  BY <1>1, <1>2, Noted
<1>4. BodyWritten(h, template)
  BY <1>1, <1>3 DEF BodyWritten
<1> QED BY <1>1, <1>3, <1>4 DEF h

-----------------------------------------------------------------------------
(* The invariant, and what it is for.                                      *)

\* A signature stays of what the buffer holds over a call that changes the
\* canonical request only if that call was not yet made.
LEMMA SignedStays ==
  ASSUME NEW r, NEW h, NEW call \in Both,
         h.calls = r.calls \cup {call},
         call \in r.calls => h.canonical = r.canonical,
         NEW signature, NEW after, SignedNow(r, signature, after)
  PROVE  SignedNow(h, signature, after)
<1>1. after \subseteq h.calls
  BY DEF SignedNow
<1>2. Both \subseteq after => h.canonical = r.canonical
  BY DEF SignedNow
<1> QED BY <1>1, <1>2 DEF SignedNow

LEMMA TemplateOf == IInv /\ request # None => template \in Templates
BY DEF IInv, TypeOK, Templates

LEMMA Inductive ==
  ASSUME IInv, [Next]_vars
  PROVE  IInv'
<1>1. TypeOK'
  BY TypeInductive DEF IInv
<1>2. RequestOK' /\ (request = None => mac = None)'
  <2>1. CASE Tick
    BY <2>1 DEF Tick, IInv, RequestOK, Whole, BodyWritten, SignedNow
  <2>2. ASSUME NEW d \in Describes, NEW bucket \in Buckets, Prepare(d, held, bucket)
        PROVE  RequestOK' /\ (request = None => mac = None)'
    BY <2>2 DEF Prepare, IInv, RequestOK
  <2>3. CASE DeriveKey(held)
    BY <2>3 DEF DeriveKey, IInv, RequestOK
  <2>4. CASE MakeStamp
    BY <2>4 DEF MakeStamp, IInv, RequestOK
  <2>5. ASSUME NEW etag \in {Plain, Spaced}, Encode(etag)
        PROVE  RequestOK' /\ (request = None => mac = None)'
    <3>1. /\ template \in Templates /\ clock \in Time
          /\ mac = None /\ mac' = mac /\ template' = template
          /\ request' = Encoded(template, etag, clock)
      BY <2>5 DEF Encode, IInv, TypeOK, Templates
    <3>2. Whole(request', template) /\ BodyWritten(request', template)
          /\ request'.signature = Nothing
      BY <3>1, EncodedWhole
    <3>3. request' # None
      BY <3>1 DEF Encoded, None
    <3>4. Whole(request', template') /\ BodyWritten(request', template')
      BY <3>1, <3>2
    <3> QED BY <3>1, <3>2, <3>3, <3>4 DEF RequestOK, Whole, BodyWritten
  <2>6. CASE SetBodyChecksum
    <3>1. /\ request # None /\ template \in Templates
          /\ request' = Summed(request) /\ template' = template /\ mac' = mac
          /\ Whole(request, template) /\ BodyWritten(request, template)
      BY <2>6, TemplateOf DEF SetBodyChecksum, InHand, IInv, RequestOK
    <3>2. /\ Whole(request', template) /\ BodyWritten(request', template)
          /\ request'.calls = request.calls \cup {"checksum"}
          /\ request'.signature = request.signature
          /\ request'.signedAfter = request.signedAfter
          /\ "checksum" \in request.calls => request'.canonical = request.canonical
      BY <3>1, SummedWhole
    <3>3. \A signature, after :
            SignedNow(request, signature, after) => SignedNow(request', signature, after)
      BY <3>2, SignedStays DEF Both
    <3>4. request' # None
      BY <3>1 DEF Summed, WithSum, Overwritten, Whole, None
    <3>5. /\ request.signature # Nothing =>
               SignedNow(request, request.signature, request.signedAfter)
          /\ mac # None => SignedNow(request, mac.of, mac.after)
      BY <3>1 DEF IInv, RequestOK
    <3>6. /\ Whole(request', template') /\ BodyWritten(request', template')
          /\ request'.signature # Nothing =>
               SignedNow(request', request'.signature, request'.signedAfter)
          /\ mac' # None => SignedNow(request', mac'.of, mac'.after)
      BY <3>1, <3>2, <3>3, <3>5
    <3> QED BY <3>4, <3>6 DEF RequestOK, Whole, BodyWritten, SignedNow
  <2>7. CASE HashBody
    <3>1. /\ request # None /\ template \in Templates
          /\ request' = Hashed(request) /\ template' = template /\ mac' = mac
          /\ Whole(request, template) /\ BodyWritten(request, template)
      BY <2>7, TemplateOf DEF HashBody, InHand, IInv, RequestOK
    <3>2. /\ Whole(request', template) /\ BodyWritten(request', template)
          /\ request'.calls = request.calls \cup {"hash"}
          /\ request'.signature = request.signature
          /\ request'.signedAfter = request.signedAfter
          /\ "hash" \in request.calls => request'.canonical = request.canonical
      BY <3>1, HashedWhole
    <3>3. \A signature, after :
            SignedNow(request, signature, after) => SignedNow(request', signature, after)
      BY <3>2, SignedStays DEF Both
    <3>4. request' # None
      BY <3>1 DEF Hashed, WithHash, Overwritten, Whole, None
    <3>5. /\ request.signature # Nothing =>
               SignedNow(request, request.signature, request.signedAfter)
          /\ mac # None => SignedNow(request, mac.of, mac.after)
      BY <3>1 DEF IInv, RequestOK
    <3>6. /\ Whole(request', template') /\ BodyWritten(request', template')
          /\ request'.signature # Nothing =>
               SignedNow(request', request'.signature, request'.signedAfter)
          /\ mac' # None => SignedNow(request', mac'.of, mac'.after)
      BY <3>1, <3>2, <3>3, <3>5
    <3> QED BY <3>4, <3>6 DEF RequestOK, Whole, BodyWritten, SignedNow
  <2>8. CASE Sign
    <3> DEFINE h == Hashed(request)
    <3>1. /\ request # None /\ template \in Templates
          /\ request' = [h EXCEPT !.signature = Mac(stamp, h.canonical), !.signedAfter = h.calls]
          /\ template' = template /\ mac' = mac
          /\ Whole(request, template) /\ BodyWritten(request, template)
      BY <2>8, TemplateOf DEF Sign, InHand, IInv, RequestOK
    <3>2. /\ Whole(h, template) /\ BodyWritten(h, template)
          /\ h.calls = request.calls \cup {"hash"}
          /\ "hash" \in request.calls => h.canonical = request.canonical
      BY <3>1, HashedWhole
    <3> HIDE DEF h
    <3>3. /\ request'.sent = h.sent /\ request'.listed = h.listed
          /\ request'.credential = h.credential /\ request'.canonical = h.canonical
          /\ request'.calls = h.calls /\ request'.signedAfter = h.calls
          /\ request'.signature = Mac(stamp, h.canonical)
          /\ request' = [sent |-> request'.sent, listed |-> request'.listed,
                         credential |-> request'.credential, canonical |-> request'.canonical,
                         signature |-> request'.signature, calls |-> request'.calls,
                         signedAfter |-> request'.signedAfter]
      BY <3>1, <3>2 DEF Whole
    <3>4. Whole(request', template)
      <4>1. Rebuilt(request') = Rebuilt(h)
        BY <3>3 DEF Rebuilt
      <4> QED BY <4>1, <3>2, <3>3 DEF Whole
    <3>5. BodyWritten(request', template)
      BY <3>2, <3>3 DEF BodyWritten
    <3>6. SignedNow(request', request'.signature, request'.signedAfter)
      BY <3>3 DEF SignedNow, Mac
    <3>7. mac # None => SignedNow(request', mac.of, mac.after)
      <4>1. mac # None => SignedNow(request, mac.of, mac.after)
        BY <3>1 DEF IInv, RequestOK
      <4>2. mac # None => SignedNow(h, mac.of, mac.after)
        BY <4>1, <3>2, SignedStays DEF Both
      <4> QED BY <4>2, <3>3 DEF SignedNow
    <3>8. request' # None
      BY <3>3 DEF None
    <3> QED BY <3>1, <3>4, <3>5, <3>6, <3>7, <3>8 DEF RequestOK, Whole, BodyWritten, SignedNow
  <2>9. CASE SignBatch
    <3>1. /\ request # None /\ request' = request /\ template' = template
          /\ mac' = [of |-> Mac(stamp, request.canonical), after |-> request.calls]
      BY <2>9 DEF SignBatch, InHand
    <3>2. SignedNow(request, mac'.of, mac'.after)
      BY <3>1 DEF SignedNow, Mac
    <3>3. /\ Whole(request, template) /\ BodyWritten(request, template)
          /\ request.signature # Nothing =>
               SignedNow(request, request.signature, request.signedAfter)
      BY <3>1 DEF IInv, RequestOK
    <3>4. /\ Whole(request', template') /\ BodyWritten(request', template')
          /\ request'.signature # Nothing =>
               SignedNow(request', request'.signature, request'.signedAfter)
          /\ SignedNow(request', mac'.of, mac'.after)
      BY <3>1, <3>2, <3>3
    <3> QED BY <3>1, <3>4 DEF RequestOK, Whole, BodyWritten, SignedNow
  <2>10. CASE SetSignature
    <3>1. /\ request # None /\ mac # None /\ mac' = None /\ template' = template
          /\ request' = [request EXCEPT !.signature = mac.of, !.signedAfter = mac.after]
          /\ Whole(request, template) /\ BodyWritten(request, template)
          /\ SignedNow(request, mac.of, mac.after)
      BY <2>10 DEF SetSignature, InHand, IInv, RequestOK
    <3>2. /\ request'.sent = request.sent /\ request'.listed = request.listed
          /\ request'.credential = request.credential
          /\ request'.canonical = request.canonical
          /\ request'.calls = request.calls /\ request'.signedAfter = mac.after
          /\ request'.signature = mac.of
          /\ request' = [sent |-> request'.sent, listed |-> request'.listed,
                         credential |-> request'.credential, canonical |-> request'.canonical,
                         signature |-> request'.signature, calls |-> request'.calls,
                         signedAfter |-> request'.signedAfter]
      BY <3>1 DEF Whole
    <3>3. Whole(request', template)
      <4>1. Rebuilt(request') = Rebuilt(request)
        BY <3>2 DEF Rebuilt
      <4> QED BY <4>1, <3>1, <3>2 DEF Whole
    <3>4. BodyWritten(request', template)
      BY <3>1, <3>2 DEF BodyWritten
    <3>5. SignedNow(request', request'.signature, request'.signedAfter)
      BY <3>1, <3>2 DEF SignedNow
    <3>6. request' # None
      BY <3>2 DEF None
    <3> QED BY <3>1, <3>3, <3>4, <3>5, <3>6 DEF RequestOK, Whole, BodyWritten, SignedNow
  <2>11. ASSUME NEW corrupt \in BOOLEAN, Send(corrupt)
         PROVE  RequestOK' /\ (request = None => mac = None)'
    BY <2>11 DEF Send, IInv, RequestOK, Whole, BodyWritten, SignedNow
  <2>12. CASE Done
    BY <2>12 DEF Done, RequestOK
  <2>13. CASE UNCHANGED vars
    BY <2>13 DEF vars, IInv, RequestOK, Whole, BodyWritten, SignedNow
  <2> QED
    BY <2>1, <2>2, <2>3, <2>4, <2>5, <2>6, <2>7, <2>8, <2>9, <2>10, <2>11, <2>12, <2>13 DEF Next
<1> QED BY <1>1, <1>2 DEF IInv

LEMMA Initial == Init => IInv
BY TypeInit DEF Init, IInv, RequestOK

\* A request that is whole, whose body was written in, and whose signature is
\* of what the buffer holds under the right stamp, is taken.
LEMMA Taken == IInv => SignedAsToldIsTaken
<1> SUFFICES ASSUME IInv, InHand, SignedAsTold(request),
                    clock - request.sent[DateField][2] <= Skew,
                    Authorized(template.d, template.credentials, template.bucket),
                    Alive(template.credentials)
             PROVE  Takes(request, template, BodyOf(template.d))
  BY DEF SignedAsToldIsTaken
<1>1. /\ request # None /\ template \in Templates
      /\ Whole(request, template) /\ BodyWritten(request, template)
      /\ SignedNow(request, request.signature, request.signedAfter)
  BY TemplateOf DEF IInv, RequestOK, InHand, SignedAsTold
<1>2. PICK time \in Time :
        /\ request.sent[DateField] = <<"date", time>>
        /\ request.credential = [credentials |-> template.credentials, day |-> Day(time),
                                 bucket |-> template.bucket]
  BY <1>1 DEF Whole
<1>3. request.sent[DateField][2] = time
  BY <1>2
<1>4. request.signature =
        Mac(Stamp(DayKey(template.credentials, time, template.bucket), time, template.bucket),
            Rebuilt(request))
  BY <1>1, <1>3 DEF SignedAsTold, SignedNow, RightStamp, Mac, Whole, Both
<1>5. Both \subseteq request.calls
  BY <1>1 DEF SignedAsTold, SignedNow, Both
<1>6. ContentAgrees(request, BodyOf(template.d))
  <2>1. request.sent[ShaField] \in {Hash(BodyOf(template.d)), UnsignedPayload}
    BY <1>1, <1>5 DEF BodyWritten, Both
  <2>2. SumField \in DOMAIN request.sent => SumField \in template.d.filled
    <3>1. DOMAIN request.sent = ToSet(Order(template))
      BY <1>1 DEF Whole
    <3> QED BY <1>1, <3>1, Described
  <2>3. SumField \in template.d.filled => request.sent[SumField] = Digest("body")
    BY <1>1, <1>5 DEF BodyWritten, Both
  <2>4. SumField \in template.d.filled => BodyOf(template.d) = "body"
    BY <1>1, Described DEF BodyOf
  <2> QED BY <2>1, <2>2, <2>3, <2>4 DEF ContentAgrees
<1>7. TokenArrived(request)
  <2>1. DOMAIN request.sent = ToSet(Order(template))
    BY <1>1 DEF Whole
  <2>2. request.credential.credentials = template.credentials
    BY <1>2
  <2> QED BY <1>1, <2>1, <2>2, Described DEF TokenArrived, Whole, Token
<1>8. /\ request.credential.credentials = template.credentials
      /\ request.credential.day = Day(time) /\ request.credential.bucket = template.bucket
  BY <1>2
<1> QED BY <1>3, <1>4, <1>6, <1>7, <1>8 DEF Takes

\* Whatever the order of the calls, and for every set of descriptions, a
\* request that was signed as the documentation says is taken.
THEOREM SignedIsTaken == Spec => []SignedAsToldIsTaken
<1>1. Spec => []IInv
  BY Initial, Inductive, PTL DEF Spec
<1> QED BY <1>1, Taken, PTL

-----------------------------------------------------------------------------
(* A content that arrives changed.                                         *)

\* What the head says of the content: never what another content hashes to.
Covers(r, t) ==
  /\ r.sent[ShaField] \in {Unfilled, Hash("body"), Hash("empty"), UnsignedPayload}
  /\ r.sent[ShaField] = UnsignedPayload => t.d.body = "unsigned"
  /\ SumField \in t.d.filled => r.sent[SumField] \in {Unfilled, Digest("body")}
Covered == request # None => Covers(request, template)

\* What the calls write into the head.
LEMMA SentBy ==
  ASSUME template \in Templates, NEW r, Whole(r, template)
  PROVE  /\ \/ Hashed(r).sent = r.sent
            \/ Hashed(r).sent = [r.sent EXCEPT ![ShaField] = Hash("body")]
         /\ \/ Summed(r).sent = r.sent
            \/ Summed(r).sent = [r.sent EXCEPT ![SumField] = Digest("body")]
<1>1. r = [sent |-> r.sent, listed |-> r.listed, credential |-> r.credential,
           canonical |-> r.canonical, signature |-> r.signature, calls |-> r.calls,
           signedAfter |-> r.signedAfter]
  BY DEF Whole
<1>2. \A name, value : Overwritten(r, name, value).sent = [r.sent EXCEPT ![name] = value]
  BY <1>1 DEF Overwritten
<1>3. \/ WithHash(r).sent = r.sent
      \/ WithHash(r).sent = [r.sent EXCEPT ![ShaField] = Hash("body")]
  <2> DEFINE o == Overwritten(r, ShaField, Hash("body"))
  <2>1. WithHash(r) = r \/ WithHash(r) = [o EXCEPT !.canonical.payload = Hash("body")]
    BY DEF WithHash
  <2>2. [o EXCEPT !.canonical.payload = Hash("body")].sent = o.sent
    BY <1>1 DEF Overwritten
  <2> QED BY <1>2, <2>1, <2>2
<1>4. \/ WithSum(r).sent = r.sent
      \/ WithSum(r).sent = [r.sent EXCEPT ![SumField] = Digest("body")]
  BY <1>2 DEF WithSum
<1>5. Hashed(r).sent = WithHash(r).sent
  BY <1>1 DEF Hashed, WithHash, Overwritten
<1>6. Summed(r).sent = WithSum(r).sent
  BY <1>1 DEF Summed, WithSum, Overwritten
<1> QED BY <1>3, <1>4, <1>5, <1>6

LEMMA CoversStays ==
  ASSUME NEW t \in Templates, NEW r, Whole(r, t), Covers(r, t), NEW h,
         \/ h.sent = r.sent
         \/ h.sent = [r.sent EXCEPT ![ShaField] = Hash("body")]
         \/ h.sent = [r.sent EXCEPT ![SumField] = Digest("body")]
  PROVE  Covers(h, t)
<1>1. /\ r.sent = [name \in ToSet(Order(t)) |-> r.sent[name]]
      /\ ShaField \in ToSet(Order(t))
      /\ SumField \in t.d.filled => SumField \in ToSet(Order(t))
  BY Described DEF Whole
<1>2. /\ h.sent[ShaField] \in {r.sent[ShaField], Hash("body")}
      /\ SumField \in t.d.filled => h.sent[SumField] \in {r.sent[SumField], Digest("body")}
  BY <1>1, NamesDiffer
<1>3. Hash("body") # UnsignedPayload
  BY DEF Hash, UnsignedPayload
<1> QED BY <1>2, <1>3 DEF Covers

LEMMA EncodedCovers ==
  ASSUME NEW t \in Templates, NEW etag \in {Plain, Spaced}, NEW time \in Time
  PROVE  Covers(Encoded(t, etag, time), t)
<1> DEFINE r == Encoded(t, etag, time)
           order == ToSet(Order(t))
<1>1. r.sent = [name \in order |-> Sent(ValueOf(t, etag, time, name))]
  BY DEF Encoded, Order
<1>2. /\ ShaField \in order
      /\ SumField \in t.d.filled => SumField \in order
      /\ t.d.body \in {"none", "signed", "unsigned", "own"}
  BY Described
<1> HIDE DEF r, order
<1>3. \A v \in {Unfilled, Hash("body"), UnsignedPayload, Hash("empty"), Digest("body")} :
        Sent(v) = v
  BY DEF Sent, Unfilled, Hash, UnsignedPayload, Digest, Wide
<1>4. /\ r.sent[ShaField] \in {Unfilled, Hash("body"), Hash("empty"), UnsignedPayload}
      /\ r.sent[ShaField] = UnsignedPayload => t.d.body = "unsigned"
  <2>1. r.sent[ShaField] = Sent(Payload(t, time))
    BY <1>1, <1>2, PayloadOfTheBody
  <2>2. Payload(t, time) = CASE t.d.body = "own" -> Unfilled
                             [] t.d.body = "signed" -> Hash("body")
                             [] t.d.body = "unsigned" -> UnsignedPayload
                             [] t.d.body = "none" -> Hash("empty")
    BY PayloadOfTheBody
  <2>3. /\ Payload(t, time) \in {Unfilled, Hash("body"), UnsignedPayload, Hash("empty")}
        /\ t.d.body # "unsigned" => Payload(t, time) \in {Unfilled, Hash("body"), Hash("empty")}
    BY <1>2, <2>2
  <2>4. UnsignedPayload \notin {Unfilled, Hash("body"), Hash("empty")}
    BY DEF UnsignedPayload, Unfilled, Hash
  <2> QED BY <1>3, <2>1, <2>3, <2>4
<1>5. SumField \in t.d.filled => r.sent[SumField] \in {Unfilled, Digest("body")}
  <2>1. SumField \in t.d.filled =>
          ValueOf(t, etag, time, SumField) \in {Unfilled, Digest("body")}
    BY DEF ValueOf, FilledValue, SumField, ShaField, DateField
  <2> QED BY <1>1, <1>2, <1>3, <2>1
<1> QED BY <1>4, <1>5 DEF Covers, r

LEMMA CoveredStays ==
  ASSUME IInv, Covered, [Next]_vars
  PROVE  Covered'
<1>1. ASSUME request # None
      PROVE  template \in Templates /\ Whole(request, template) /\ Covers(request, template)
  BY <1>1, TemplateOf DEF IInv, RequestOK, Covered
<1>2. ASSUME NEW etag \in {Plain, Spaced}, Encode(etag)
      PROVE  Covered'
  <2>1. /\ template \in Templates /\ clock \in Time /\ template' = template
        /\ request' = Encoded(template, etag, clock)
    BY <1>2 DEF Encode, IInv, TypeOK, Templates
  <2>2. Covers(request', template')
    BY <2>1, EncodedCovers
  <2> QED BY <2>2 DEF Covered, Covers
<1>3. ASSUME request # None, template' = template,
             \/ request'.sent = request.sent
             \/ request'.sent = [request.sent EXCEPT ![ShaField] = Hash("body")]
             \/ request'.sent = [request.sent EXCEPT ![SumField] = Digest("body")]
      PROVE  Covered'
  <2>1. Covers(request', template')
    BY <1>1, <1>3, CoversStays
  <2> QED BY <2>1 DEF Covered, Covers
<1>4. CASE SetBodyChecksum
  BY <1>1, <1>3, <1>4, SentBy DEF SetBodyChecksum, InHand
<1>5. CASE HashBody
  BY <1>1, <1>3, <1>5, SentBy DEF HashBody, InHand
<1>6. CASE Sign
  <2>1. /\ request # None /\ template' = template
        /\ request' = [Hashed(request) EXCEPT !.signature = Mac(stamp, Hashed(request).canonical),
                                              !.signedAfter = Hashed(request).calls]
    BY <1>6 DEF Sign, InHand
  <2>2. Whole(Hashed(request), template)
    BY <1>1, <2>1, HashedWhole DEF IInv, RequestOK
  <2> DEFINE h == Hashed(request)
  <2>3. request'.sent = h.sent
    <3>1. h = [sent |-> h.sent, listed |-> h.listed, credential |-> h.credential,
               canonical |-> h.canonical, signature |-> h.signature, calls |-> h.calls,
               signedAfter |-> h.signedAfter]
      BY <2>2 DEF Whole
    <3> HIDE DEF h
    <3>2. request' = [h EXCEPT !.signature = Mac(stamp, h.canonical), !.signedAfter = h.calls]
      BY <2>1 DEF h
    <3> QED BY <3>1, <3>2
  <2> QED BY <1>1, <1>3, <2>1, <2>3, SentBy
<1>7. CASE SetSignature
  <2>1. /\ request # None /\ template' = template
        /\ request' = [request EXCEPT !.signature = mac.of, !.signedAfter = mac.after]
    BY <1>7 DEF SetSignature, InHand
  <2>2. request'.sent = request.sent
    BY <1>1, <2>1 DEF Whole
  <2> QED BY <1>3, <2>1, <2>2
<1>8. CASE Done
  BY <1>8 DEF Done, Covered
<1>9. CASE request' = None
  BY <1>9 DEF Covered
<1>10. CASE request' = request /\ template' = template
  BY <1>10 DEF Covered, Covers
<1>11. ASSUME NEW d \in Describes, NEW bucket \in Buckets, Prepare(d, held, bucket)
       PROVE  Covered'
  BY <1>11, <1>9 DEF Prepare
<1>12. ASSUME NEW corrupt \in BOOLEAN, Send(corrupt)
       PROVE  Covered'
  BY <1>10, <1>12 DEF Send
<1>13. CASE Tick \/ DeriveKey(held) \/ MakeStamp \/ SignBatch \/ UNCHANGED vars
  BY <1>10, <1>13 DEF Tick, DeriveKey, MakeStamp, SignBatch, vars
<1> QED
  BY <1>2, <1>4, <1>5, <1>6, <1>7, <1>8, <1>11, <1>12, <1>13 DEF Next

\* A content that is taken although it is not what was signed is one that the
\* caller asked the service not to check.
LEMMA CorruptTaken ==
  ASSUME IInv, Covered, NEW d \in Describes, Send(TRUE), template.d = d, answer' = "taken"
  PROVE  d.body = "unsigned" /\ SumField \notin d.filled
<1>1. request # None /\ ContentAgrees(request, "corrupt")
  BY DEF Send, Takes, InHand, Arrives
<1>2. template \in Templates /\ Whole(request, template) /\ Covers(request, template)
  BY <1>1, TemplateOf DEF IInv, RequestOK, Covered
<1>3. request.sent[ShaField] = UnsignedPayload
  <2>1. Hash("corrupt") \notin {Unfilled, Hash("body"), Hash("empty")}
    BY DEF Hash, Unfilled
  <2> QED BY <1>1, <1>2, <2>1 DEF ContentAgrees, Covers
<1>4. d.body = "unsigned"
  BY <1>2, <1>3 DEF Covers
<1>5. ASSUME SumField \in d.filled
      PROVE  FALSE
  <2>1. SumField \in DOMAIN request.sent
    BY <1>2, <1>5, Described DEF Whole
  <2>2. Digest("corrupt") \notin {Unfilled, Digest("body")}
    BY DEF Digest, Unfilled
  <2> QED BY <1>1, <1>2, <1>5, <2>1, <2>2 DEF ContentAgrees, Covers
<1> QED BY <1>4, <1>5

\* For every description and every order of the calls, a content that arrives
\* changed is refused, but for one that was left unsigned without a checksum.
THEOREM CorruptRefused == Spec => CorruptIsRefused
<1>1. Spec => []IInv
  BY Initial, Inductive, PTL DEF Spec
<1>2. Init => Covered
  BY DEF Init, Covered
<1>3. Spec => []Covered
  BY <1>1, <1>2, CoveredStays, PTL DEF Spec
<1>4. IInv /\ Covered /\ [Next]_vars =>
        [ \A d \in Describes :
            (Send(TRUE) /\ template.d = d /\ answer' = "taken") =>
              d.body = "unsigned" /\ SumField \notin d.filled ]_vars
  BY CorruptTaken
<1> QED BY <1>1, <1>3, <1>4, PTL DEF Spec, CorruptIsRefused

-----------------------------------------------------------------------------
(* The order of the names.                                                 *)

\* The place of a name among those that are signed: the host goes first.
Named == ToSet(Names)
PlaceOf(name) == IF name = "host" THEN 0 ELSE Rank(name)
Rising(names) == \A i, j \in 1 .. Len(names) : i < j => PlaceOf(names[i]) < PlaceOf(names[j])
AfterHost == {name \in Named : Less("host", name)}

LEMMA RankIs ==
  ASSUME NEW name \in Named
  PROVE  Rank(name) \in 1 .. Len(Names) /\ Rank(name) \in Nat \ {0} /\ Names[Rank(name)] = name
<1>1. Len(Names) \in Nat /\ DOMAIN Names = 1 .. Len(Names)
  BY NamesAssumption
<1>2. \E i \in DOMAIN Names : Names[i] = name
  BY DEF Named, ToSet
<1> QED BY <1>1, <1>2 DEF Rank

LEMMA HostNamed == "host" \in Named
BY NamesAssumption DEF Named

LEMMA PlaceOfIs ==
  ASSUME NEW a \in Named, NEW b \in Named
  PROVE  /\ PlaceOf(a) \in Nat /\ (a # "host" => PlaceOf(a) > 0)
         /\ PlaceOf(a) = PlaceOf(b) => a = b
         /\ a # "host" /\ b # "host" => (Less(a, b) <=> PlaceOf(a) < PlaceOf(b))
BY RankIs DEF PlaceOf, Less

LEMMA AfterHostIs ==
  ASSUME NEW a \in AfterHost, NEW b \in Named
  PROVE  a # "host" /\ (Less(b, a) <=> PlaceOf(b) < PlaceOf(a))
<1>1. Less("host", a) /\ a \in Named
  BY DEF AfterHost
<1>2. a # "host"
  BY <1>1, RankIs, HostNamed DEF Less
<1>3. CASE b = "host"
  BY <1>1, <1>2, <1>3, PlaceOfIs DEF PlaceOf
<1>4. CASE b # "host"
  BY <1>1, <1>2, <1>4, PlaceOfIs
<1> QED BY <1>2, <1>3, <1>4

-----------------------------------------------------------------------------
(* Fixed fields.                                                           *)

\* A field is put before those that are greater.
LEMMA InsertIs ==
  ASSUME NEW fields \in Seq(Named), fields # <<>>, NEW name \in Named
  PROVE  /\ Insert(fields, name) \in Seq(Named) /\ Len(Insert(fields, name)) = Len(fields) + 1
         /\ \E at \in 2 .. Len(fields) + 1 :
              /\ \A i \in 1 .. Len(fields) + 1 :
                   Insert(fields, name)[i] = IF i < at THEN fields[i]
                                             ELSE IF i = at THEN name ELSE fields[i - 1]
              /\ \A i \in at .. Len(fields) : Less(name, fields[i])
              /\ at > 2 => ~ Less(name, fields[at - 1])
<1> DEFINE len == Len(fields)
           Before(q) == \A i \in q .. Len(fields) : Less(name, fields[i])
           Ok(q) == Before(q) /\ (q > 2 => ~ Less(name, fields[q - 1]))
           S == {q \in 2 .. len + 1 : Before(q)}
           at == CHOOSE q \in 2 .. Len(fields) + 1 : Ok(q)
<1>1. len \in Nat /\ len > 0
  OBVIOUS
<1>2. S \in SUBSET Nat /\ len + 1 \in S
  BY <1>1
<1>3. PICK q \in S : \A m \in S : q <= m
  BY <1>2, LeastNatural
<1>4. q \in 2 .. len + 1 /\ Ok(q)
  <2>1. SUFFICES ASSUME q > 2, Less(name, fields[q - 1]) PROVE FALSE
    BY <1>3
  <2>2. Before(q - 1)
    BY <1>1, <1>3, <2>1
  <2> QED BY <1>1, <1>3, <2>1, <2>2
<1> HIDE DEF Ok
<1>5. at \in 2 .. len + 1 /\ Ok(at)
  BY <1>4
<1>6. Insert(fields, name) = SubSeq(fields, 1, at - 1) \o <<name>> \o SubSeq(fields, at, Len(fields))
  BY DEF Insert, InsertAt, Ok
<1> HIDE DEF at
<1>7. \A i \in 1 .. len : fields[i] \in Named
  OBVIOUS
<1>8. SubSeq(fields, 1, at - 1) \in Seq(Named) /\ Len(SubSeq(fields, 1, at - 1)) = at - 1
      /\ \A i \in 1 .. at - 1 : SubSeq(fields, 1, at - 1)[i] = fields[i]
  BY <1>1, <1>5
<1>9. SubSeq(fields, at, len) \in Seq(Named) /\ Len(SubSeq(fields, at, len)) = (len + 1) - at
      /\ \A i \in 1 .. (len + 1) - at : SubSeq(fields, at, len)[i] = fields[(at + i) - 1]
  BY <1>1, <1>5
<1> DEFINE a == SubSeq(fields, 1, at - 1)
           b == SubSeq(fields, at, len)
           ins == a \o <<name>> \o b
<1> HIDE DEF a, b, len
<1>10. ins \in Seq(Named) /\ Len(ins) = len + 1
  BY <1>1, <1>5, <1>8, <1>9 DEF a, b, len
<1>11. \A i \in 1 .. len + 1 : ins[i] = IF i < at THEN fields[i] ELSE IF i = at THEN name ELSE fields[i - 1]
  <2> SUFFICES ASSUME NEW i \in 1 .. len + 1
               PROVE  ins[i] = IF i < at THEN fields[i] ELSE IF i = at THEN name ELSE fields[i - 1]
    OBVIOUS
  <2>1. a \in Seq(Named) /\ b \in Seq(Named) /\ Len(a) = at - 1 /\ Len(b) = (len + 1) - at
    BY <1>8, <1>9 DEF a, b, len
  <2>2. CASE i < at
    BY <2>1, <2>2, <1>1, <1>5, <1>8 DEF a
  <2>3. CASE i = at
    BY <2>1, <2>3, <1>1, <1>5
  <2>4. CASE i > at
    <3>1. i - at \in 1 .. (len + 1) - at /\ (at + (i - at)) - 1 = i - 1
      BY <2>4, <1>1, <1>5
    <3>2. b[i - at] = fields[i - 1]
      BY <3>1, <1>9 DEF b, len
    <3>3. ins[i] = b[i - at]
      BY <2>1, <2>4, <1>1, <1>5
    <3> HIDE DEF ins
    <3> QED BY <2>4, <3>2, <3>3, <1>5, <1>1
  <2> HIDE DEF ins
  <2> QED BY <2>2, <2>3, <2>4, <1>5, <1>1
<1>12. Insert(fields, name) = ins
  BY <1>6 DEF a, b, len
<1> HIDE DEF ins
<1> QED BY <1>5, <1>10, <1>11, <1>12 DEF Ok, len

\* What the fixed fields are kept as: after the host, in the order of their names.
LEMMA InsertRising ==
  ASSUME NEW fields \in Seq(Named), fields # <<>>, fields[1] = "host", Rising(fields),
         NEW name \in Named \ {"host"}, name \notin ToSet(fields)
  PROVE  /\ Insert(fields, name)[1] = "host" /\ Rising(Insert(fields, name))
         /\ ToSet(Insert(fields, name)) = ToSet(fields) \cup {name}
<1> DEFINE len == Len(fields)
           ins == Insert(fields, name)
<1>1. PICK at \in 2 .. len + 1 :
              /\ \A i \in 1 .. len + 1 :
                   ins[i] = IF i < at THEN fields[i] ELSE IF i = at THEN name ELSE fields[i - 1]
              /\ \A i \in at .. len : Less(name, fields[i])
              /\ at > 2 => ~ Less(name, fields[at - 1])
  BY InsertIs
<1>2. ins \in Seq(Named) /\ Len(ins) = len + 1
  BY InsertIs
<1>3. len \in Nat /\ len > 0 /\ \A i \in 1 .. len : fields[i] \in Named /\ fields[i] # name
  BY DEF ToSet
<1> HIDE DEF ins
<1>4. ins[1] = "host"
  BY <1>1, <1>3
<1>5. \A i \in 2 .. len : PlaceOf(fields[i]) > 0 /\ fields[i] # "host"
  <2> TAKE i \in 2 .. len
  <2>1. PlaceOf(fields[1]) < PlaceOf(fields[i])
    BY <1>3 DEF Rising
  <2> QED BY <2>1, <1>3 DEF PlaceOf
<1>6. \A i \in at .. len : PlaceOf(name) < PlaceOf(fields[i])
  BY <1>1, <1>3, <1>5, PlaceOfIs
<1>7. \A i \in 1 .. at - 1 : PlaceOf(fields[i]) < PlaceOf(name)
  <2> TAKE i \in 1 .. at - 1
  <2>1. PlaceOf(fields[at - 1]) < PlaceOf(name)
    <3>1. CASE at = 2
      BY <3>1, PlaceOfIs, <1>3 DEF PlaceOf
    <3>2. CASE at > 2
      <4>1. fields[at - 1] \in Named /\ fields[at - 1] # "host" /\ fields[at - 1] # name
        BY <1>3, <1>5, <3>2
      <4> QED BY <4>1, <1>1, <3>2, PlaceOfIs
    <3> QED BY <3>1, <3>2
  <2>2. i < at - 1 => PlaceOf(fields[i]) < PlaceOf(fields[at - 1])
    BY <1>3 DEF Rising
  <2>3. PlaceOf(fields[i]) \in Nat /\ PlaceOf(fields[at - 1]) \in Nat /\ PlaceOf(name) \in Nat
    BY <1>3, PlaceOfIs
  <2> QED BY <2>1, <2>2, <2>3
<1>8. Rising(ins)
  <2> SUFFICES ASSUME NEW i \in 1 .. len + 1, NEW j \in 1 .. len + 1, i < j
               PROVE  PlaceOf(ins[i]) < PlaceOf(ins[j])
    BY <1>2 DEF Rising
  <2>1. CASE j < at
    BY <2>1, <1>1, <1>3 DEF Rising
  <2>2. CASE j = at
    BY <2>2, <1>1, <1>3, <1>7
  <2>3. CASE i < at /\ j > at
    BY <2>3, <1>1, <1>3 DEF Rising
  <2>4. CASE i = at
    BY <2>4, <1>1, <1>3, <1>6
  <2>5. CASE i > at
    <3>1. i - 1 \in 1 .. len /\ j - 1 \in 1 .. len /\ i - 1 < j - 1
      BY <2>5, <1>3
    <3>2. ins[i] = fields[i - 1] /\ ins[j] = fields[j - 1]
      BY <2>5, <1>1
    <3> QED BY <3>1, <3>2 DEF Rising
  <2> QED BY <2>1, <2>2, <2>3, <2>4, <2>5
<1>9. ToSet(ins) = ToSet(fields) \cup {name}
  <2>1. DOMAIN ins = 1 .. len + 1 /\ DOMAIN fields = 1 .. len
    BY <1>2
  <2>2. \A i \in 1 .. len + 1 : ins[i] \in ToSet(fields) \cup {name}
    <3> TAKE i \in 1 .. len + 1
    <3>1. i < at => i \in 1 .. len
      BY <1>3
    <3>2. i > at => i - 1 \in 1 .. len
      BY <1>3
    <3>3. i < at => fields[i] \in ToSet(fields)
      BY <2>1, <3>1 DEF ToSet
    <3>4. i > at => fields[i - 1] \in ToSet(fields)
      BY <2>1, <3>2 DEF ToSet
    <3>5. i < at \/ i = at \/ i > at
      BY <1>3
    <3> QED BY <1>1, <3>3, <3>4, <3>5
  <2>3. \A i \in 1 .. len : fields[i] \in ToSet(ins)
    <3> TAKE i \in 1 .. len
    <3>1. CASE i < at
      BY <3>1, <1>1, <1>3, <2>1 DEF ToSet
    <3>2. CASE i >= at
      <4>1. i + 1 \in 1 .. len + 1 /\ i + 1 > at /\ (i + 1) - 1 = i
        BY <3>2, <1>3
      <4>2. ins[i + 1] = fields[i]
        BY <4>1, <1>1
      <4> QED BY <4>1, <4>2, <2>1 DEF ToSet
    <3> QED BY <3>1, <3>2, <1>3
  <2>4. ins[at] = name /\ at \in 1 .. len + 1
    BY <1>1, <1>3
  <2> QED BY <2>1, <2>2, <2>3, <2>4 DEF ToSet
<1> QED BY <1>4, <1>8, <1>9 DEF ins

\* The fields that an operation and its template have, each named once.
LEMMA FixedFieldsIs ==
  ASSUME NEW names \in Seq(Named \ {"host"}),
         \A i, j \in 1 .. Len(names) : names[i] = names[j] => i = j
  PROVE  LET fields == FoldLeft(Insert, <<"host">>, names)
         IN /\ fields \in Seq(Named) /\ fields # <<>> /\ fields[1] = "host" /\ Rising(fields)
            /\ ToSet(fields) = {"host"} \cup ToSet(names)
<1> DEFINE k == Len(names)
           X == Seq(Named) \ {<<>>}
           base == <<"host">>
           Eq(f) == f = [s \in SUBSET DOMAIN names |->
                           IF s = {} THEN base ELSE Insert(f[s \ {Max(s)}], names[Max(s)])]
           f == CHOOSE f : Eq(f)
           step == [n \in 1 .. k |-> [x \in X |-> Insert(x, names[n])]]
<1>0. k \in Nat /\ DOMAIN names = 1 .. k /\ \A n \in 1 .. k : names[n] \in Named \ {"host"}
  OBVIOUS
<1>1. FoldLeft(Insert, <<"host">>, names) = f[1 .. k]
  BY <1>0 DEF FoldLeft, MapThenFoldSet
<1> HIDE DEF k
<1>2. step \in StepsOver(k, X)
  <2>1. \A n \in 1 .. k, x \in X : Insert(x, names[n]) \in X
    <3> TAKE n \in 1 .. k, x \in X
    <3>1. Insert(x, names[n]) \in Seq(Named) /\ Len(Insert(x, names[n])) = Len(x) + 1
      BY <1>0, InsertIs
    <3> QED BY <3>1
  <2> HIDE DEF X
  <2> QED BY <2>1 DEF StepsOver
<1>2a. base \in X
  BY HostNamed
<1> HIDE DEF X, base
<1>3. PICK g : Solves(g, k, X, base, step)
  <2> HIDE DEF step
  <2> QED BY <1>0, <1>2, <1>2a, FoldExists
<1>4. Eq(g)
  <2>1. \A s \in SUBSET (1 .. k) : s # {} => g[s] = Insert(g[s \ {Max(s)}], names[Max(s)])
    <3> SUFFICES ASSUME NEW s \in SUBSET (1 .. k), s # {}
                 PROVE  g[s] = Insert(g[s \ {Max(s)}], names[Max(s)])
      OBVIOUS
    <3>1. Max(s) \in 1 .. k /\ g[s \ {Max(s)}] \in X
      BY <1>3 DEF Solves
    <3> QED BY <3>1, <1>3 DEF Solves
  <2> QED BY <1>0, <1>3, <2>1 DEF Solves
<1>5. Eq(f)
  <2> HIDE DEF Eq
  <2> QED BY <1>4, Zenon
<1> HIDE DEF f
<1>6. Folds(f, k, X, base, step)
  BY <1>0, <1>5 DEF Folds
<1>7. PICK r : Runs(r, k, X, base, step) /\ f[1 .. k] = r[k]
  <2> HIDE DEF step
  <2> QED BY <1>0, <1>2, <1>2a, <1>6, FoldRuns
<1> DEFINE UpTo(n) == {names[i] : i \in 1 .. n}
           T == {n \in 0 .. k : /\ r[n][1] = "host" /\ Rising(r[n])
                                /\ ToSet(r[n]) = {"host"} \cup UpTo(n)}
<1>8. 0 \in T
  BY <1>7, <1>0 DEF Runs, base, Rising, ToSet
<1>9. \A n \in 1 .. k : n - 1 \in T => n \in T
  <2> SUFFICES ASSUME NEW n \in 1 .. k, n - 1 \in T PROVE n \in T
    OBVIOUS
  <2>1. r[n - 1] \in X /\ r[n] = Insert(r[n - 1], names[n])
    BY <1>7, <1>0 DEF Runs
  <2>2. r[n - 1] \in Seq(Named) /\ r[n - 1] # <<>>
    BY <2>1 DEF X
  <2>3. names[n] \notin ToSet(r[n - 1])
    BY <1>0 DEF k
  <2>4. /\ r[n][1] = "host" /\ Rising(r[n]) /\ ToSet(r[n]) = ToSet(r[n - 1]) \cup {names[n]}
    BY <1>0, <2>1, <2>2, <2>3, InsertRising
  <2>5. UpTo(n - 1) \cup {names[n]} = UpTo(n)
    BY <1>0
  <2> HIDE DEF UpTo
  <2> QED BY <2>4, <2>5
<1>10. k \in T
  <2> HIDE DEF T
  <2>1. \A n \in 0 .. k : n \in T
    BY <1>0, <1>8, <1>9, Induction
  <2> QED BY <1>0, <2>1
<1>11. r[k] \in X
  BY <1>0, <1>7 DEF Runs
<1>12. ToSet(names) = UpTo(k)
  BY <1>0 DEF ToSet
<1> QED BY <1>1, <1>7, <1>10, <1>11, <1>12 DEF X

-----------------------------------------------------------------------------
(* Merges.                                                                 *)

LEMMA LeadingIs ==
  ASSUME NEW names \in Seq(Named), NEW name
  PROVE  /\ Leading(names, name) \in 0 .. Len(names)
         /\ \A i \in 1 .. Leading(names, name) : Less(names[i], name)
         /\ Leading(names, name) < Len(names) => ~ Less(names[Leading(names, name) + 1], name)
<1> DEFINE len == Len(names)
           Ok(n) == /\ \A i \in 1 .. n : Less(names[i], name)
                    /\ n < Len(names) => ~ Less(names[n + 1], name)
           S == {n \in 0 .. len : n < len => ~ Less(names[n + 1], name)}
<1>1. len \in Nat
  OBVIOUS
<1>2. S \in SUBSET Nat /\ len \in S
  BY <1>1
<1>3. PICK n \in S : \A m \in S : n <= m
  BY <1>2, LeastNatural
<1>4. \A i \in 1 .. n : Less(names[i], name)
  <2> SUFFICES ASSUME NEW i \in 1 .. n, ~ Less(names[i], name) PROVE FALSE
    OBVIOUS
  <2>1. i - 1 \in S /\ i - 1 < n /\ i - 1 \in Int /\ n \in Int
    BY <1>1, <1>3
  <2>2. n <= i - 1
    BY <1>3, <2>1
  <2> QED BY <2>1, <2>2
<1>5. n \in 0 .. len /\ Ok(n)
  BY <1>3, <1>4
<1> HIDE DEF Ok
<1>6. \E m \in 0 .. Len(names) : Ok(m)
  BY <1>5
<1>7. Leading(names, name) = CHOOSE m \in 0 .. Len(names) : Ok(m)
  BY DEF Leading, Ok
<1>8. Leading(names, name) \in 0 .. Len(names) /\ Ok(Leading(names, name))
  BY <1>6, <1>7
<1> QED BY <1>8 DEF Ok

LEMMA ToSetOf ==
  ASSUME NEW S, NEW seq \in Seq(S)
  PROVE  /\ \A i \in 1 .. Len(seq) : seq[i] \in ToSet(seq)
         /\ \A x \in ToSet(seq) : \E i \in 1 .. Len(seq) : seq[i] = x
BY DEF ToSet

\* Names that go before others, and those others after them.
Before(a, b) == \A i \in 1 .. Len(a), j \in 1 .. Len(b) : PlaceOf(a[i]) < PlaceOf(b[j])

LEMMA JoinedRising ==
  ASSUME NEW a \in Seq(Named), NEW b \in Seq(Named), Rising(a), Rising(b), Before(a, b)
  PROVE  a \o b \in Seq(Named) /\ Rising(a \o b) /\ ToSet(a \o b) = ToSet(a) \cup ToSet(b)
<1> DEFINE ab == a \o b
           la == Len(a)
           lb == Len(b)
<1>1. /\ ab \in Seq(Named) /\ Len(ab) = la + lb /\ la \in Nat /\ lb \in Nat
      /\ DOMAIN a = 1 .. la /\ DOMAIN b = 1 .. lb /\ DOMAIN ab = 1 .. la + lb
  OBVIOUS
<1>2. \A i \in 1 .. la : ab[i] = a[i]
  OBVIOUS
<1>3. \A i \in 1 .. lb : ab[la + i] = b[i]
  OBVIOUS
<1>4. \A i \in la + 1 .. la + lb : i - la \in 1 .. lb /\ ab[i] = b[i - la]
  <2> TAKE i \in la + 1 .. la + lb
  <2> DEFINE j == i - la
  <2>1. j \in 1 .. lb /\ la + j = i
    BY <1>1
  <2> HIDE DEF j, ab
  <2>2. ab[la + j] = b[j]
    BY <1>3, <2>1
  <2> QED BY <2>1, <2>2 DEF j
<1> HIDE DEF ab, la, lb
<1>5. Rising(ab)
  <2> SUFFICES ASSUME NEW i \in 1 .. la + lb, NEW j \in 1 .. la + lb, i < j
               PROVE  PlaceOf(ab[i]) < PlaceOf(ab[j])
    BY <1>1 DEF Rising
  <2>1. CASE j <= la
    <3>1. i \in 1 .. la /\ j \in 1 .. la
      BY <2>1, <1>1
    <3> QED BY <3>1, <1>2 DEF Rising, la
  <2>2. CASE i > la
    <3>1. i \in la + 1 .. la + lb /\ j \in la + 1 .. la + lb /\ i - la < j - la
      BY <2>2, <1>1
    <3>2. i - la \in 1 .. lb /\ ab[i] = b[i - la] /\ j - la \in 1 .. lb /\ ab[j] = b[j - la]
      BY <3>1, <1>4
    <3> QED BY <3>1, <3>2 DEF Rising, lb
  <2>3. CASE i <= la /\ j > la
    <3>1. i \in 1 .. la /\ j \in la + 1 .. la + lb
      BY <2>3, <1>1
    <3>2. ab[i] = a[i] /\ j - la \in 1 .. lb /\ ab[j] = b[j - la]
      BY <3>1, <1>2, <1>4
    <3> QED BY <3>1, <3>2 DEF Before, la, lb
  <2> QED BY <2>1, <2>2, <2>3, <1>1
<1>6. ToSet(ab) = ToSet(a) \cup ToSet(b)
  <2>1. \A i \in 1 .. la + lb : i \in 1 .. la \/ i \in la + 1 .. la + lb
    BY <1>1
  <2>2. \A i \in 1 .. la + lb : ab[i] \in ToSet(a) \cup ToSet(b)
    BY <2>1, <1>2, <1>4, ToSetOf DEF la, lb
  <2>3. \A i \in 1 .. la : i \in 1 .. la + lb
    BY <1>1
  <2>4. \A i \in 1 .. lb : la + i \in 1 .. la + lb
    BY <1>1
  <2>5. \A i \in 1 .. la : a[i] \in ToSet(ab)
    <3> TAKE i \in 1 .. la
    <3> QED BY <1>1, <1>2, <2>3, ToSetOf
  <2>6. \A i \in 1 .. lb : b[i] \in ToSet(ab)
    <3> TAKE i \in 1 .. lb
    <3>1. ab[la + i] = b[i] /\ la + i \in 1 .. Len(ab)
      BY <1>1, <1>3, <2>4
    <3> QED BY <3>1, <1>1, ToSetOf
  <2>7. ToSet(ab) \subseteq ToSet(a) \cup ToSet(b)
    BY <1>1, <2>2, ToSetOf
  <2>8. ToSet(a) \subseteq ToSet(ab)
    BY <2>5, ToSetOf DEF la
  <2>9. ToSet(b) \subseteq ToSet(ab)
    BY <2>6, ToSetOf DEF lb
  <2> QED BY <2>7, <2>8, <2>9
<1> QED BY <1>1, <1>5, <1>6 DEF ab

LEMMA PartRising ==
  ASSUME NEW names \in Seq(Named), Rising(names), NEW n \in 0 .. Len(names)
  PROVE  LET a == SubSeq(names, 1, n)
             b == SubSeq(names, n + 1, Len(names))
         IN /\ a \in Seq(Named) /\ b \in Seq(Named) /\ Rising(a) /\ Rising(b) /\ Before(a, b)
            /\ Len(a) = n /\ \A i \in 1 .. n : a[i] = names[i]
            /\ Len(b) = Len(names) - n /\ \A i \in 1 .. Len(b) : b[i] = names[n + i]
            /\ ToSet(names) = ToSet(a) \cup ToSet(b)
<1> DEFINE a == SubSeq(names, 1, n)
           b == SubSeq(names, n + 1, Len(names))
           len == Len(names)
<1>1. len \in Nat /\ n \in Nat /\ n <= len /\ DOMAIN names = 1 .. len
  OBVIOUS
<1>2. a \in Seq(Named) /\ Len(a) = n /\ DOMAIN a = 1 .. n /\ \A i \in 1 .. n : a[i] = names[i]
  OBVIOUS
<1>3. b \in Seq(Named) /\ Len(b) = len - n /\ DOMAIN b = 1 .. len - n
      /\ \A i \in 1 .. len - n : b[i] = names[n + i]
  OBVIOUS
<1> HIDE DEF a, b, len
<1>4. Rising(a)
  BY <1>1, <1>2 DEF Rising, len
<1>5. \A i \in 1 .. len - n : n + i \in 1 .. len
  BY <1>1
<1>6. Rising(b)
  <2> SUFFICES ASSUME NEW i \in 1 .. len - n, NEW j \in 1 .. len - n, i < j
               PROVE  PlaceOf(b[i]) < PlaceOf(b[j])
    BY <1>3 DEF Rising
  <2>1. n + i < n + j
    BY <1>1
  <2> QED BY <2>1, <1>3, <1>5 DEF Rising, len
<1>7. Before(a, b)
  <2> SUFFICES ASSUME NEW i \in 1 .. n, NEW j \in 1 .. len - n
               PROVE  PlaceOf(a[i]) < PlaceOf(b[j])
    BY <1>2, <1>3 DEF Before
  <2>1. i < n + j /\ i \in 1 .. len
    BY <1>1
  <2> QED BY <2>1, <1>2, <1>3, <1>5 DEF Rising, len
<1>8. ToSet(names) = ToSet(a) \cup ToSet(b)
  <2>1. \A i \in 1 .. n : i \in 1 .. len
    BY <1>1
  <2>2. \A i \in 1 .. len : i \in 1 .. n \/ (i - n \in 1 .. len - n /\ n + (i - n) = i)
    BY <1>1
  <2>3. \A i \in 1 .. len : names[i] \in ToSet(a) \cup ToSet(b)
    <3> TAKE i \in 1 .. len
    <3>1. CASE i \in 1 .. n
      BY <3>1, <1>2, ToSetOf
    <3>2. CASE i - n \in 1 .. len - n /\ n + (i - n) = i
      <4>1. b[i - n] = names[i]
        BY <3>2, <1>3
      <4> QED BY <3>2, <4>1, <1>3, ToSetOf
    <3> QED BY <2>2, <3>1, <3>2
  <2>4. ToSet(names) \subseteq ToSet(a) \cup ToSet(b)
    BY <2>3, ToSetOf DEF len
  <2>5. ToSet(a) \subseteq ToSet(names)
    BY <2>1, <1>2, ToSetOf DEF len
  <2>6. ToSet(b) \subseteq ToSet(names)
    BY <1>3, <1>5, ToSetOf DEF len
  <2> QED BY <2>4, <2>5, <2>6
<1> QED BY <1>1, <1>2, <1>3, <1>4, <1>6, <1>7, <1>8 DEF a, b, len

\* What a name is placed among is kept in order.
LEMMA PlaceKeeps ==
  ASSUME NEW out \in Seq(Named), NEW rest \in Seq(Named), NEW name \in AfterHost,
         name \notin ToSet(rest), Rising(out), Rising(rest), Before(out, rest),
         Before(out, <<name>>)
  PROVE  LET s == Place([out |-> out, rest |-> rest], name)
         IN /\ s = [out |-> s.out, rest |-> s.rest]
            /\ s.out \in Seq(Named) /\ s.rest \in Seq(Named)
            /\ Rising(s.out) /\ Rising(s.rest) /\ Before(s.out, s.rest)
            /\ \A i \in 1 .. Len(s.out) : PlaceOf(s.out[i]) <= PlaceOf(name)
            /\ ToSet(s.rest) \subseteq ToSet(rest)
            /\ ToSet(s.out) \cup ToSet(s.rest) = ToSet(out) \cup ToSet(rest) \cup {name}
<1> DEFINE n == Leading(rest, name)
           a == SubSeq(rest, 1, n)
           b == SubSeq(rest, n + 1, Len(rest))
           s == Place([out |-> out, rest |-> rest], name)
           one == <<name>>
<1>0. s = [out |-> Append(out \o a, name), rest |-> b]
  BY DEF Place
<1>1. /\ n \in 0 .. Len(rest) /\ \A i \in 1 .. n : Less(rest[i], name)
      /\ n < Len(rest) => ~ Less(rest[n + 1], name)
  BY LeadingIs
<1> HIDE DEF n
<1>2. /\ a \in Seq(Named) /\ b \in Seq(Named) /\ Rising(a) /\ Rising(b) /\ Before(a, b)
      /\ Len(a) = n /\ \A i \in 1 .. n : a[i] = rest[i]
      /\ Len(b) = Len(rest) - n /\ \A i \in 1 .. Len(b) : b[i] = rest[n + i]
      /\ ToSet(rest) = ToSet(a) \cup ToSet(b)
  BY <1>1, PartRising
<1> HIDE DEF a, b, s
<1>3. name \in Named /\ one \in Seq(Named) /\ Rising(one) /\ Len(one) = 1 /\ one[1] = name
      /\ ToSet(one) = {name}
  BY DEF AfterHost, Rising, ToSet
<1> HIDE DEF one
<1>4. Before(a, one)
  <2>1. \A i \in 1 .. n : rest[i] \in Named
    BY <1>1
  <2> QED BY <2>1, <1>1, <1>2, <1>3, AfterHostIs DEF Before
<1>5. Before(one, b)
  <2> SUFFICES ASSUME NEW j \in 1 .. Len(b) PROVE PlaceOf(name) < PlaceOf(b[j])
    BY <1>3 DEF Before
  <2>1. Len(b) > 0 /\ Len(b) \in Nat /\ n < Len(rest) /\ 1 \in 1 .. Len(b)
    BY <1>1, <1>2
  <2>2. b[1] = rest[n + 1] /\ b[1] \in Named /\ b[j] \in Named /\ b[1] \in ToSet(b)
    BY <1>2, <2>1 DEF ToSet
  <2>3. ~ Less(b[1], name) /\ b[1] # name
    BY <1>1, <1>2, <2>1, <2>2
  <2>4. PlaceOf(b[1]) > PlaceOf(name)
    BY <2>2, <2>3, <1>3, AfterHostIs, PlaceOfIs
  <2>5. j > 1 => PlaceOf(b[1]) < PlaceOf(b[j])
    BY <1>2, <2>1 DEF Rising
  <2> QED BY <2>2, <2>4, <2>5, <1>3, PlaceOfIs
<1>6. Before(out, a) /\ Before(out, b)
  <2>1. \A i \in 1 .. n : i \in 1 .. Len(rest)
    BY <1>1
  <2>2. \A i \in 1 .. Len(b) : n + i \in 1 .. Len(rest)
    BY <1>1, <1>2
  <2> QED BY <2>1, <2>2, <1>2 DEF Before
<1> DEFINE oa == out \o a
           oan == oa \o one
<1>7. oa \in Seq(Named) /\ Rising(oa) /\ ToSet(oa) = ToSet(out) \cup ToSet(a)
  BY <1>2, <1>6, JoinedRising
<1> HIDE DEF oa
<1>8. \A x \in ToSet(oa) : PlaceOf(x) < PlaceOf(name)
  <2>1. \A i \in 1 .. Len(out) : PlaceOf(out[i]) < PlaceOf(name)
    BY <1>3 DEF Before, one
  <2>2. \A i \in 1 .. Len(a) : PlaceOf(a[i]) < PlaceOf(name)
    BY <1>3, <1>4 DEF Before
  <2>3. \A x \in ToSet(out) : PlaceOf(x) < PlaceOf(name)
    BY <2>1, ToSetOf
  <2>4. \A x \in ToSet(a) : PlaceOf(x) < PlaceOf(name)
    BY <2>2, <1>2, ToSetOf
  <2> QED BY <1>7, <2>3, <2>4
<1>9. \A i \in 1 .. Len(oa) : oa[i] \in ToSet(oa)
  BY <1>7 DEF ToSet
<1>10. Before(oa, one)
  BY <1>3, <1>8, <1>9 DEF Before
<1>11. oan \in Seq(Named) /\ Rising(oan) /\ ToSet(oan) = ToSet(oa) \cup {name}
  BY <1>3, <1>7, <1>10, JoinedRising
<1>12. oan = Append(oa, name)
  BY <1>7 DEF one
<1> HIDE DEF oan
<1>13. s.out = oan /\ s.rest = b
  BY <1>0, <1>12 DEF oa
<1>14. \A i \in 1 .. Len(oan) : oan[i] \in ToSet(oa) \cup {name}
  <2>1. \A i \in 1 .. Len(oan) : oan[i] \in ToSet(oan)
    BY <1>11, ToSetOf
  <2> QED BY <2>1, <1>11
<1>15. \A i \in 1 .. Len(oan) : PlaceOf(oan[i]) <= PlaceOf(name)
  <2>1. PlaceOf(name) \in Nat
    BY <1>3, PlaceOfIs
  <2>2. \A i \in 1 .. Len(oan) : oan[i] \in Named
    BY <1>11
  <2> TAKE i \in 1 .. Len(oan)
  <2>3. PlaceOf(oan[i]) \in Nat
    BY <2>2, PlaceOfIs
  <2>4. oan[i] \in ToSet(oa) => PlaceOf(oan[i]) < PlaceOf(name)
    BY <1>8
  <2>5. oan[i] = name => PlaceOf(oan[i]) = PlaceOf(name)
    OBVIOUS
  <2> QED BY <1>14, <2>1, <2>3, <2>4, <2>5
<1>16. Before(oan, b)
  <2> SUFFICES ASSUME NEW i \in 1 .. Len(oan), NEW j \in 1 .. Len(b)
               PROVE  PlaceOf(oan[i]) < PlaceOf(b[j])
    BY DEF Before
  <2>1. PlaceOf(oan[i]) <= PlaceOf(name) /\ PlaceOf(name) < PlaceOf(b[j])
    BY <1>3, <1>5, <1>15 DEF Before
  <2>2. oan[i] \in Named /\ b[j] \in Named
    BY <1>11, <1>2
  <2> QED BY <2>1, <2>2, <1>3, PlaceOfIs
<1> QED BY <1>0, <1>2, <1>7, <1>11, <1>13, <1>15, <1>16 DEF s

\* Two lists that are in order, of other names each, are one in order.
LEMMA MergedIs ==
  ASSUME NEW sorted \in Seq(Named), NEW names \in Seq(AfterHost), Rising(sorted), Rising(names),
         ToSet(sorted) \cap ToSet(names) = {}
  PROVE  /\ Merged(sorted, names) \in Seq(Named) /\ Rising(Merged(sorted, names))
         /\ ToSet(Merged(sorted, names)) = ToSet(sorted) \cup ToSet(names)
<1> DEFINE k == Len(names)
           X == [out : Seq(Named), rest : Seq(Named)]
           base == [out |-> <<>>, rest |-> sorted]
           Eq(f) == f = [s \in SUBSET DOMAIN names |->
                           IF s = {} THEN base ELSE Place(f[s \ {Max(s)}], names[Max(s)])]
           f == CHOOSE f : Eq(f)
           step == [n \in 1 .. k |-> [x \in X |-> Place(x, names[n])]]
           end == FoldLeft(Place, [out |-> <<>>, rest |-> sorted], names)
<1>0. k \in Nat /\ DOMAIN names = 1 .. k /\ \A n \in 1 .. k : names[n] \in AfterHost
  OBVIOUS
<1>1. end = f[1 .. k]
  BY <1>0 DEF FoldLeft, MapThenFoldSet
<1> HIDE DEF k, end
<1>2. step \in StepsOver(k, X)
  <2>1. \A n \in 1 .. k, x \in X : Place(x, names[n]) \in X
    <3> TAKE n \in 1 .. k, x \in X
    <3> DEFINE m == Leading(x.rest, names[n])
    <3>1. x.out \in Seq(Named) /\ x.rest \in Seq(Named) /\ names[n] \in Named
      BY <1>0 DEF AfterHost
    <3>2. m \in 0 .. Len(x.rest)
      BY <3>1, LeadingIs
    <3> HIDE DEF m
    <3>3. SubSeq(x.rest, 1, m) \in Seq(Named) /\ SubSeq(x.rest, m + 1, Len(x.rest)) \in Seq(Named)
      BY <3>1, <3>2
    <3>4. Append(x.out \o SubSeq(x.rest, 1, m), names[n]) \in Seq(Named)
      BY <3>1, <3>3
    <3> QED BY <3>3, <3>4 DEF Place, m
  <2> HIDE DEF X
  <2> QED BY <2>1 DEF StepsOver
<1>2a. base \in X
  OBVIOUS
<1> HIDE DEF X, base
<1>3. PICK g : Solves(g, k, X, base, step)
  <2> HIDE DEF step
  <2> QED BY <1>0, <1>2, <1>2a, FoldExists
<1>4. Eq(g)
  <2>1. \A s \in SUBSET (1 .. k) : s # {} => g[s] = Place(g[s \ {Max(s)}], names[Max(s)])
    <3> SUFFICES ASSUME NEW s \in SUBSET (1 .. k), s # {}
                 PROVE  g[s] = Place(g[s \ {Max(s)}], names[Max(s)])
      OBVIOUS
    <3>1. Max(s) \in 1 .. k /\ g[s \ {Max(s)}] \in X
      BY <1>3 DEF Solves
    <3> QED BY <3>1, <1>3 DEF Solves
  <2> QED BY <1>0, <1>3, <2>1 DEF Solves
<1>5. Eq(f)
  <2> HIDE DEF Eq
  <2> QED BY <1>4, Zenon
<1> HIDE DEF f
<1>6. Folds(f, k, X, base, step)
  BY <1>0, <1>5 DEF Folds
<1>7. PICK r : Runs(r, k, X, base, step) /\ f[1 .. k] = r[k]
  <2> HIDE DEF step
  <2> QED BY <1>0, <1>2, <1>2a, <1>6, FoldRuns
<1> DEFINE UpTo(n) == {names[i] : i \in 1 .. n}
           Good(s, n) ==
             /\ Rising(s.out) /\ Rising(s.rest) /\ Before(s.out, s.rest)
             /\ \A i \in 1 .. Len(s.out), j \in n + 1 .. k : PlaceOf(s.out[i]) < PlaceOf(names[j])
             /\ ToSet(s.rest) \subseteq ToSet(sorted)
             /\ ToSet(s.out) \cup ToSet(s.rest) = ToSet(sorted) \cup UpTo(n)
           T == {n \in 0 .. k : Good(r[n], n)}
<1>8. 0 \in T
  <2>1. r[0] = base
    BY <1>7 DEF Runs
  <2>2. base.out = <<>> /\ base.rest = sorted
    BY DEF base
  <2>3. Len(base.out) = 0 /\ ToSet(base.out) = {} /\ UpTo(0) = {}
    BY <2>2 DEF ToSet
  <2>4. Good(base, 0)
    BY <2>2, <2>3 DEF Rising, Before
  <2> HIDE DEF Good
  <2> QED BY <2>1, <2>4, <1>0
<1>9. \A n \in 1 .. k : n - 1 \in T => n \in T
  <2> SUFFICES ASSUME NEW n \in 1 .. k, n - 1 \in T PROVE n \in T
    OBVIOUS
  <2> DEFINE s == r[n - 1]
             t == r[n]
             name == names[n]
  <2>0. n - 1 \in 0 .. k /\ n \in 0 .. k
    BY <1>0
  <2>1. s \in X /\ t = Place(s, name) /\ t \in X
    <3>1. r[n - 1] \in X /\ r[n] \in X /\ r[n] = step[n][r[n - 1]]
      BY <1>7, <2>0 DEF Runs
    <3> QED BY <3>1
  <2>2. s.out \in Seq(Named) /\ s.rest \in Seq(Named) /\ s = [out |-> s.out, rest |-> s.rest]
    BY <2>1 DEF X
  <2>3. Good(s, n - 1) /\ n \in n - 1 + 1 .. k
    BY <1>0
  <2> HIDE DEF T, s, t
  <2>4. name \in AfterHost /\ name \in Named /\ name \in ToSet(names)
    BY <1>0 DEF AfterHost, ToSet
  <2>5. name \notin ToSet(s.rest)
    BY <2>3, <2>4
  <2>6. Before(s.out, <<name>>)
    BY <2>3, <1>0 DEF Before
  <2>7. /\ t.out \in Seq(Named) /\ t.rest \in Seq(Named)
        /\ Rising(t.out) /\ Rising(t.rest) /\ Before(t.out, t.rest)
        /\ \A i \in 1 .. Len(t.out) : PlaceOf(t.out[i]) <= PlaceOf(name)
        /\ ToSet(t.rest) \subseteq ToSet(s.rest)
        /\ ToSet(t.out) \cup ToSet(t.rest) = ToSet(s.out) \cup ToSet(s.rest) \cup {name}
    <3> HIDE DEF Good, name
    <3>1. Rising(s.out) /\ Rising(s.rest) /\ Before(s.out, s.rest)
      BY <2>3 DEF Good
    <3>2. t = Place([out |-> s.out, rest |-> s.rest], name)
      BY <2>1, <2>2
    <3> QED BY <2>2, <2>4, <2>5, <2>6, <3>1, <3>2, PlaceKeeps
  <2>8. \A i \in 1 .. Len(t.out), j \in n + 1 .. k : PlaceOf(t.out[i]) < PlaceOf(names[j])
    <3> TAKE i \in 1 .. Len(t.out), j \in n + 1 .. k
    <3>1. PlaceOf(name) < PlaceOf(names[j])
      BY <1>0 DEF Rising, k
    <3>2. t.out[i] \in Named /\ names[j] \in Named
      BY <2>7, <1>0 DEF AfterHost
    <3>3. PlaceOf(t.out[i]) <= PlaceOf(name)
      BY <2>7
    <3>4. PlaceOf(t.out[i]) \in Nat /\ PlaceOf(names[j]) \in Nat /\ PlaceOf(name) \in Nat
      BY <2>4, <3>2, PlaceOfIs
    <3> HIDE DEF name
    <3> QED BY <3>1, <3>3, <3>4
  <2>9. UpTo(n - 1) \cup {name} = UpTo(n)
    BY <1>0
  <2> HIDE DEF UpTo, name
  <2>10. Good(t, n)
    BY <2>3, <2>7, <2>8, <2>9
  <2> QED BY <2>10, <1>0 DEF T, t
<1>10. k \in T
  <2> HIDE DEF T
  <2>1. \A n \in 0 .. k : n \in T
    BY <1>0, <1>8, <1>9, Induction
  <2> QED BY <1>0, <2>1
<1>11. end = r[k] /\ end \in X
  BY <1>0, <1>1, <1>7 DEF Runs
<1>12. ToSet(names) = UpTo(k)
  BY <1>0 DEF ToSet
<1>13. Good(end, k)
  BY <1>10, <1>11
<1>14. Merged(sorted, names) = end.out \o end.rest
  BY DEF Merged, end
<1>15. end.out \in Seq(Named) /\ end.rest \in Seq(Named)
  BY <1>11 DEF X
<1> HIDE DEF UpTo
<1> QED BY <1>12, <1>13, <1>14, <1>15, JoinedRising

-----------------------------------------------------------------------------
(* What a request signs.                                                   *)

\* The names that are kept of a list in order are in order.
LEMMA KeptRising ==
  ASSUME NEW seq \in Seq(Named), Rising(seq),
         NEW set, \A x \in set : x \in ToSet(seq),
         NEW at, \A i \in 1 .. Len(seq) : i \in at <=> seq[i] \in set
  PROVE  /\ Selected(seq, at) \in Seq(Named) /\ Rising(Selected(seq, at))
         /\ ToSet(Selected(seq, at)) = set
<1> DEFINE kept == Selected(seq, at)
           len == Len(seq)
<1>1. len \in Nat /\ DOMAIN seq = 1 .. len
  OBVIOUS
<1>2. PICK idx : /\ Enumerates(idx, at \cap 1 .. len) /\ Len(idx) \in Nat
                 /\ kept = At(seq, idx) /\ kept \in Seq(Named) /\ Len(kept) = Len(idx)
  <2>1. \E idx : /\ Enumerates(idx, at \cap 1 .. Len(seq)) /\ Len(idx) \in Nat
                  /\ Selected(seq, at) = At(seq, idx) /\ Selected(seq, at) \in Seq(Named)
                  /\ Len(Selected(seq, at)) = Len(idx)
    BY SelectedExists
  <2> QED BY <2>1
<1>3. kept = [j \in 1 .. Len(idx) |-> seq[idx[j]]]
  BY <1>2 DEF At
<1>4. \A j \in 1 .. Len(idx) : idx[j] \in 1 .. len /\ seq[idx[j]] \in set
  BY <1>1, <1>2 DEF Enumerates
<1>5. \A i, j \in 1 .. Len(idx) : i < j => idx[i] < idx[j]
  BY <1>2 DEF Enumerates
<1>6. \A n \in 1 .. len : seq[n] \in set => \E j \in 1 .. Len(idx) : idx[j] = n
  BY <1>1, <1>2 DEF Enumerates
<1> HIDE DEF kept, len
<1>7. Rising(kept)
  <2> SUFFICES ASSUME NEW i \in 1 .. Len(idx), NEW j \in 1 .. Len(idx), i < j
               PROVE  PlaceOf(kept[i]) < PlaceOf(kept[j])
    BY <1>2 DEF Rising
  <2> QED BY <1>3, <1>4, <1>5 DEF Rising, len
<1>8. \A j \in 1 .. Len(idx) : kept[j] \in set
  BY <1>3, <1>4
<1>11. ToSet(kept) \subseteq set
  BY <1>2, <1>8, ToSetOf
<1>12. ASSUME NEW x \in set PROVE x \in ToSet(kept)
  <2>1. PICK n \in 1 .. len : seq[n] = x
    BY <1>12, ToSetOf DEF len
  <2>2. PICK j \in 1 .. Len(idx) : idx[j] = n
    BY <1>6, <2>1
  <2>3. kept[j] = x
    BY <1>3, <2>1, <2>2
  <2> QED BY <1>2, <2>3, ToSetOf
<1> QED BY <1>2, <1>7, <1>11, <1>12 DEF kept

LEMMA NamesInTheirPlaces ==
  ASSUME NEW i \in 1 .. Len(Names)
  PROVE  Names[i] \in Named /\ Rank(Names[i]) = i
<1>1. DOMAIN Names = 1 .. Len(Names)
  BY NamesAssumption
<1>2. Names[i] \in Named
  BY <1>1 DEF Named, ToSet
<1>3. Rank(Names[i]) \in 1 .. Len(Names) /\ Names[Rank(Names[i])] = Names[i]
  BY <1>2, RankIs
<1> QED BY <1>1, <1>2, <1>3, NamesAssumption

\* Names is in the order of Less, and the place of each name but the host's.
LEMMA SelectedOfNames ==
  ASSUME NEW set, set \subseteq AfterHost
  PROVE  LET kept == Selected(Names, {i \in DOMAIN Names : Names[i] \in set})
         IN kept \in Seq(AfterHost) /\ Rising(kept) /\ ToSet(kept) = set
<1> DEFINE at == {i \in DOMAIN Names : Names[i] \in set}
           kept == Selected(Names, at)
           len == Len(Names)
<1>1. len \in Nat /\ DOMAIN Names = 1 .. len /\ Names \in Seq(STRING)
  BY NamesAssumption
<1>2. PICK idx : /\ Enumerates(idx, at \cap 1 .. len) /\ Len(idx) \in Nat
                 /\ kept = At(Names, idx) /\ Len(kept) = Len(idx)
  <2> HIDE DEF at
  <2> QED BY <1>1, SelectedExists
<1>3. kept = [j \in 1 .. Len(idx) |-> Names[idx[j]]]
  BY <1>2 DEF At
<1>4. \A j \in 1 .. Len(idx) : idx[j] \in 1 .. len /\ Names[idx[j]] \in set
  BY <1>1, <1>2 DEF Enumerates
<1>5. \A i, j \in 1 .. Len(idx) : i < j => idx[i] < idx[j]
  BY <1>2 DEF Enumerates
<1>6. \A n \in 1 .. len : Names[n] \in set => \E j \in 1 .. Len(idx) : idx[j] = n
  BY <1>1, <1>2 DEF Enumerates
<1> HIDE DEF kept, at
<1>7. \A j \in 1 .. Len(idx) : kept[j] \in set /\ PlaceOf(kept[j]) = idx[j]
  <2> TAKE j \in 1 .. Len(idx)
  <2>1. kept[j] = Names[idx[j]] /\ kept[j] \in AfterHost /\ Rank(Names[idx[j]]) = idx[j]
    BY <1>3, <1>4, NamesInTheirPlaces
  <2>2. kept[j] # "host"
    BY <2>1, HostNamed, AfterHostIs
  <2> QED BY <1>4, <2>1, <2>2 DEF PlaceOf
<1>8. Rising(kept)
  BY <1>2, <1>5, <1>7 DEF Rising
<1>9. kept \in [1 .. Len(idx) -> AfterHost]
  <2>1. \A j \in 1 .. Len(idx) : Names[idx[j]] \in AfterHost
    BY <1>4
  <2> QED BY <1>3, <2>1
<1>10. kept \in Seq(AfterHost)
  BY <1>2, <1>9, FunctionIsSeq
<1>11. ToSet(kept) \subseteq set
  BY <1>2, <1>7, <1>10, ToSetOf
<1>12. ASSUME NEW x \in set PROVE x \in ToSet(kept)
  <2>1. x \in ToSet(Names)
    BY <1>12 DEF AfterHost, Named
  <2>2. PICK n \in 1 .. len : Names[n] = x
    BY <1>1, <2>1, ToSetOf
  <2>3. PICK j \in 1 .. Len(idx) : idx[j] = n
    BY <1>6, <1>12, <2>2
  <2>4. kept[j] = x
    BY <1>3, <2>2, <2>3
  <2> QED BY <1>2, <1>10, <2>4, ToSetOf
<1> QED BY <1>8, <1>10, <1>11, <1>12 DEF kept, at

LEMMA FilledOrderIs ==
  FilledOrder \in Seq(Named) /\ Rising(FilledOrder) /\ ToSet(FilledOrder) \subseteq AfterHost
<1>1. Len(FilledOrder) = 9 /\ DOMAIN FilledOrder = 1 .. 9
  BY DEF FilledOrder
<1>2. ToSet(FilledOrder) \subseteq Named
  BY NamesAssumption DEF Named
<1>3. \A i \in 1 .. 9 : FilledOrder[i] \in Named
  BY <1>1, <1>2 DEF ToSet
<1>4. FilledOrder \in [1 .. 9 -> Named]
  <2>1. FilledOrder = [i \in 1 .. 9 |-> FilledOrder[i]]
    BY DEF FilledOrder
  <2> HIDE DEF FilledOrder
  <2> QED BY <1>3, <2>1
<1> HIDE DEF FilledOrder
<1>5. FilledOrder \in Seq(Named)
  BY <1>4, FunctionIsSeq
<1>6. \A i, j \in 1 .. 9 : i < j => Less(FilledOrder[i], FilledOrder[j])
  BY <1>1, NamesAssumption
<1>7. Less("host", FilledOrder[1])
  BY NamesAssumption
<1>8. \A i \in 1 .. 9 : Less("host", FilledOrder[i])
  <2> TAKE i \in 1 .. 9
  <2>1. CASE i = 1
    BY <2>1, <1>7
  <2>2. CASE i > 1
    <3>1. Less(FilledOrder[1], FilledOrder[i])
      BY <2>2, <1>6
    <3>2. Rank("host") \in Nat /\ Rank(FilledOrder[1]) \in Nat /\ Rank(FilledOrder[i]) \in Nat
      <4>1. \A name \in Named : Rank(name) \in Nat
        BY RankIs
      <4>2. FilledOrder[1] \in Named /\ FilledOrder[i] \in Named
        BY <1>3
      <4> QED BY <4>1, <4>2, HostNamed
    <3> QED BY <1>7, <3>1, <3>2 DEF Less
  <2> QED BY <2>1, <2>2
<1>9. \A i \in 1 .. 9 : FilledOrder[i] \in AfterHost
  BY <1>3, <1>8 DEF AfterHost
<1>10. Rising(FilledOrder)
  <2> SUFFICES ASSUME NEW i \in 1 .. 9, NEW j \in 1 .. 9, i < j
               PROVE  PlaceOf(FilledOrder[i]) < PlaceOf(FilledOrder[j])
    BY <1>1 DEF Rising
  <2> QED BY <1>3, <1>6, <1>9, AfterHostIs
<1>11. ToSet(FilledOrder) \subseteq AfterHost
  BY <1>1, <1>9 DEF ToSet
<1> QED BY <1>5, <1>10, <1>11

LEMMA FilledIs ==
  ASSUME NEW d, d.filled \subseteq ToSet(FilledOrder)
  PROVE  Filled(d) \in Seq(AfterHost) /\ Rising(Filled(d)) /\ ToSet(Filled(d)) = d.filled
<1>1. d.filled \subseteq AfterHost /\ AfterHost \subseteq Named
  BY FilledOrderIs DEF AfterHost
<1> DEFINE seq == FilledOrder
           set == d.filled
           at == {i \in DOMAIN seq : seq[i] \in set}
           kept == Selected(seq, at)
<1>2. seq \in Seq(Named) /\ Rising(seq) /\ \A x \in set : x \in ToSet(seq)
  BY <1>1, FilledOrderIs
<1>3. \A i \in 1 .. Len(seq) : i \in at <=> seq[i] \in set
  BY <1>2
<1> HIDE DEF seq, set, at
<1>4. kept \in Seq(Named) /\ Rising(kept) /\ ToSet(kept) = set
  BY <1>2, <1>3, KeptRising
<1>5. \A i \in 1 .. Len(kept) : kept[i] \in AfterHost
  BY <1>1, <1>4, ToSetOf DEF set
<1> HIDE DEF kept
<1>6. kept \in Seq(AfterHost)
  <2>1. Len(kept) \in Nat /\ kept = [i \in 1 .. Len(kept) |-> kept[i]]
    BY <1>4
  <2>2. kept \in [1 .. Len(kept) -> AfterHost]
    BY <1>5, <2>1
  <2> QED BY <2>1, <2>2, FunctionIsSeq
<1> QED BY <1>4, <1>6 DEF Filled, seq, set, at, kept

\* The fields that a template adds.
LEMMA ExtraIs ==
  ASSUME NEW d, NEW kind \in Kinds
  PROVE  Extra(d, kind) \in Seq(Named \ {"host"})
<1> DEFINE N == Named \ {"host"}
           sha == IF ShaField \in d.filled THEN <<>> ELSE <<ShaField>>
           token == IF kind = "long" THEN <<>> ELSE <<CHOOSE name \in TokenField(kind) : TRUE>>
<1>1. ShaField \in N
  BY NamesAssumption DEF Named, ShaField
<1>2. CASE kind # "long"
  <2>1. TokenField(kind) # {} /\ TokenField(kind) \subseteq N
    BY <1>2, NamesAssumption DEF Kinds, TokenField, Named
  <2>2. (CHOOSE name \in TokenField(kind) : TRUE) \in N
    BY <2>1
  <2> HIDE DEF N
  <2>3. sha \in Seq(N) /\ token \in Seq(N)
    BY <1>1, <2>2
  <2> QED BY <2>3 DEF Extra, N
<1>3. CASE kind = "long"
  <2> HIDE DEF N
  <2>1. sha \in Seq(N) /\ token \in Seq(N)
    BY <1>1, <1>3
  <2> QED BY <2>1 DEF Extra, N
<1> QED BY <1>2, <1>3

LEMMA SignedNamesIs ==
  ASSUME NEW d \in Describes, NEW kind \in Kinds
  PROVE  LET names == SignedNames(d, kind)
         IN names \in Seq(Named) /\ Rising(names) /\ "host" \in ToSet(names)
<1> DEFINE N == Named \ {"host"}
           fixed == d.fields \o Extra(d, kind)
           fields == FixedFields(d, kind)
           metadata == SortedMetadata(d)
           filled == Filled(d)
           sorted == Sorted(d, kind)
<1>1. /\ d.fields \in Seq(N)
      /\ \A i, j \in DOMAIN fixed : fixed[i] = fixed[j] => i = j
      /\ d.metadata \subseteq AfterHost
      /\ d.filled \subseteq ToSet(FilledOrder)
      /\ ToSet(fixed) \cap (d.metadata \cup d.filled) = {} /\ d.metadata \cap d.filled = {}
  BY FieldsAssumption DEF Kinds, Named, AfterHost
<1>2. fixed \in Seq(N)
  BY <1>1, ExtraIs
<1> HIDE DEF fixed
<1>3. \A i, j \in 1 .. Len(fixed) : fixed[i] = fixed[j] => i = j
  BY <1>1, <1>2
<1>4. fields = FoldLeft(Insert, <<"host">>, fixed)
  BY DEF FixedFields, fixed
<1> HIDE DEF fields
<1>5. fields \in Seq(Named) /\ Rising(fields) /\ ToSet(fields) = {"host"} \cup ToSet(fixed)
  BY <1>2, <1>3, <1>4, FixedFieldsIs
<1>6. metadata \in Seq(AfterHost) /\ Rising(metadata) /\ ToSet(metadata) = d.metadata
  BY <1>1, SelectedOfNames DEF SortedMetadata
<1>7. filled \in Seq(AfterHost) /\ Rising(filled) /\ ToSet(filled) = d.filled
  BY <1>1, FilledIs
<1>8. "host" \notin AfterHost
  BY HostNamed, AfterHostIs
<1>9. d.filled \subseteq AfterHost
  BY <1>1, FilledOrderIs
<1>10. sorted = Merged(fields, metadata) /\ SignedNames(d, kind) = Merged(sorted, filled)
  BY DEF Sorted, SignedNames, fields
<1> HIDE DEF metadata, filled, sorted
<1>11. ToSet(fields) \cap ToSet(metadata) = {}
  BY <1>1, <1>5, <1>6, <1>8
<1>12. sorted \in Seq(Named) /\ Rising(sorted) /\ ToSet(sorted) = ToSet(fields) \cup ToSet(metadata)
  BY <1>5, <1>6, <1>10, <1>11, MergedIs
<1>13. ToSet(sorted) \cap ToSet(filled) = {}
  BY <1>1, <1>5, <1>6, <1>7, <1>8, <1>9, <1>12
<1> QED BY <1>5, <1>7, <1>10, <1>12, <1>13, MergedIs

\* The names are in order after the host, which is there once.
LEMMA InOrderAfterHost ==
  ASSUME NEW names \in Seq(Named), Rising(names), "host" \in ToSet(names)
  PROVE  names[1] = "host" /\ "host" \notin ToSet(Tail(names)) /\ Ordered(Tail(names))
<1> DEFINE tail == Tail(names)
<1>1. PICK i \in 1 .. Len(names) : names[i] = "host"
  BY ToSetOf
<1>2. names[1] \in Named /\ 1 \in 1 .. Len(names)
  BY <1>1
<1>3. i = 1
  <2>1. PlaceOf(names[1]) \in Nat /\ PlaceOf(names[i]) = 0
    BY <1>1, <1>2, PlaceOfIs DEF PlaceOf
  <2>2. i > 1 => PlaceOf(names[1]) < PlaceOf(names[i])
    BY <1>2 DEF Rising
  <2> QED BY <2>1, <2>2
<1>4. tail \in Seq(Named) /\ Len(tail) = Len(names) - 1 /\ DOMAIN tail = 1 .. Len(names) - 1
      /\ \A j \in 1 .. Len(names) - 1 : tail[j] = names[j + 1] /\ j + 1 \in 2 .. Len(names)
  BY <1>1
<1> HIDE DEF tail
<1>5. \A j \in 2 .. Len(names) : names[j] \in Named /\ names[j] # "host"
  <2> TAKE j \in 2 .. Len(names)
  <2>1. PlaceOf(names[1]) < PlaceOf(names[j])
    BY <1>2 DEF Rising
  <2>2. PlaceOf(names[1]) = 0
    BY <1>1, <1>3 DEF PlaceOf
  <2> QED BY <2>1, <2>2 DEF PlaceOf
<1>6. "host" \notin ToSet(tail)
  BY <1>4, <1>5, ToSetOf
<1>7. Ordered(tail)
  <2> SUFFICES ASSUME NEW j \in 1 .. Len(names) - 1, NEW m \in 1 .. Len(names) - 1, j < m
               PROVE  Less(tail[j], tail[m])
    BY <1>4 DEF Ordered
  <2>1. tail[j] = names[j + 1] /\ tail[m] = names[m + 1] /\ j + 1 \in 2 .. Len(names)
        /\ m + 1 \in 2 .. Len(names)
    BY <1>4
  <2>2. PlaceOf(names[j + 1]) < PlaceOf(names[m + 1])
    <3>1. j + 1 < m + 1 /\ j + 1 \in 1 .. Len(names) /\ m + 1 \in 1 .. Len(names)
      BY <2>1
    <3> QED BY <3>1 DEF Rising
  <2> QED BY <1>5, <2>1, <2>2, PlaceOfIs
<1> QED BY <1>1, <1>3, <1>6, <1>7 DEF tail

\* For every set of names and every description, the names that a request says
\* it signs are listed once each, the host first and the others in the order of
\* their bytes, whatever list each came from (Sorted::of, write_signed_names).
THEOREM SignedInOrder == Spec => []OrderedAfterHost
<1>1. Spec => []IInv
  BY Initial, Inductive, PTL DEF Spec
<1>2. IInv => OrderedAfterHost
  <2> SUFFICES ASSUME IInv, request # None
               PROVE  /\ request.listed[1] = "host"
                      /\ "host" \notin ToSet(Tail(request.listed))
                      /\ Ordered(Tail(request.listed))
    BY DEF OrderedAfterHost
  <2>1. template \in Templates /\ request.listed = Order(template)
    BY TemplateOf DEF IInv, RequestOK, Whole
  <2>2. template.d \in Describes /\ template.credentials.kind \in Kinds
    BY <2>1, CredentialKinds DEF Templates
  <2>3. request.listed = SignedNames(template.d, template.credentials.kind)
    BY <2>1, NamedAsWritten DEF Order
  <2> QED BY <2>2, <2>3, SignedNamesIs, InOrderAfterHost
<1> QED BY <1>1, <1>2, PTL
=============================================================================
