----------------------------- MODULE Canonical ------------------------------
(***************************************************************************)
(* The fields of an S3 request, as its head sends them and as its          *)
(* canonical request signs them (Sorted, write_signed_names and            *)
(* write_filled_fields of s3/template.rs).                                 *)
(*                                                                         *)
(* Three lists are merged by name: the fixed fields, which are sorted as   *)
(* they are inserted; the metadata, which is sorted as it is read; and the *)
(* fields that each request fills, which are laid out in the order of      *)
(* their names.  SignedNames merges them for the list of names, and        *)
(* SignedOrder for the lines of the canonical request, by different code.  *)
(*                                                                         *)
(* A description `d` of a request has                                      *)
(*   fields    the names of its fixed fields, in the order of the code     *)
(*   metadata  the names of its metadata                                   *)
(*   value     what the caller gave for each of those                      *)
(*   filled    the names of the fields that each request fills             *)
(*   body      the payload: "none", "signed" (the caller hashes it),       *)
(*             "unsigned" or "own" (this crate writes it)                  *)
(*   own       whether only the caller's own credentials sign it           *)
(***************************************************************************)
EXTENDS Integers, Sequences, SequencesExt, Selection

CONSTANT Names              \* every name of a field, in the order of their bytes

Rank(name) == CHOOSE i \in DOMAIN Names : Names[i] = name
Less(a, b) == Rank(a) < Rank(b)

ShaField == "x-amz-content-sha256"
DateField == "x-amz-date"
SumField == "x-amz-checksum"
TokenField(kind) ==
  CASE kind = "long"      -> {}
    [] kind = "temporary" -> {"x-amz-security-token"}
    [] kind = "session"   -> {"x-amz-s3session-token"}

-----------------------------------------------------------------------------
(* The fixed fields and the metadata.                                      *)

\* The fields that prepare_template adds to those of the operation.
Extra(d, kind) ==
  (IF ShaField \in d.filled THEN <<>> ELSE <<ShaField>>)
    \o (IF kind = "long" THEN <<>> ELSE <<CHOOSE name \in TokenField(kind) : TRUE>>)

\* A field is moved before those that are greater, up to the host.
\* Mutant: a field stays where it was added.
InsertLast(fields, name) == Append(fields, name)
Insert(fields, name) ==
  LET at == CHOOSE q \in 2 .. Len(fields) + 1 :
              /\ \A i \in q .. Len(fields) : Less(name, fields[i])
              /\ q > 2 => ~ Less(name, fields[q - 1])
  IN InsertAt(fields, at, name)

FixedFields(d, kind) == FoldLeft(Insert, <<"host">>, d.fields \o Extra(d, kind))

SortedMetadata(d) == Selected(Names, {i \in DOMAIN Names : Names[i] \in d.metadata})

-----------------------------------------------------------------------------
(* Merges.                                                                 *)

\* How many of the names go before this one: those that are less, up to the
\* first that is not.
Leading(names, name) ==
  CHOOSE n \in 0 .. Len(names) :
    /\ \A i \in 1 .. n : Less(names[i], name)
    /\ n < Len(names) => ~ Less(names[n + 1], name)

\* Each name waits for those that are less.
Place(s, name) ==
  LET n == Leading(s.rest, name)
  IN [out  |-> Append(s.out \o SubSeq(s.rest, 1, n), name),
      rest |-> SubSeq(s.rest, n + 1, Len(s.rest))]
Merged(sorted, names) ==
  LET end == FoldLeft(Place, [out |-> <<>>, rest |-> sorted], names)
  IN end.out \o end.rest

\* The fixed fields and the metadata as one list.
Sorted(d, kind) == Merged(FixedFields(d, kind), SortedMetadata(d))

-----------------------------------------------------------------------------
(* The fields that each request fills, merged with the others.             *)

\* In which order they are named, and laid out: two lists of the code.
FilledOrder ==
  <<"if-match", "range", SumField, ShaField, "x-amz-copy-source", "x-amz-copy-source-if-match",
    "x-amz-copy-source-range", DateField, "x-amz-mp-object-size">>
WrittenOrder ==
  <<"if-match", "range", SumField, ShaField, "x-amz-copy-source", "x-amz-copy-source-if-match",
    "x-amz-copy-source-range", DateField, "x-amz-mp-object-size">>

\* Names are names once, the filled fields are laid out in their order, and the
\* host goes before each of those.
ASSUME NamesAssumption ==
  /\ Names \in Seq(STRING) /\ \A i, j \in DOMAIN Names : Names[i] = Names[j] => i = j
  /\ {"host", ShaField} \cup TokenField("temporary") \cup TokenField("session")
       \cup ToSet(FilledOrder) \subseteq ToSet(Names)
  /\ \A i, j \in DOMAIN FilledOrder : i < j => Less(FilledOrder[i], FilledOrder[j])
  /\ Less("host", FilledOrder[1])

Filled(d) == Selected(FilledOrder, {i \in DOMAIN FilledOrder : FilledOrder[i] \in d.filled})
WrittenFilled(d) ==
  Selected(WrittenOrder, {i \in DOMAIN WrittenOrder : WrittenOrder[i] \in d.filled})

SignedNames(d, kind) == Merged(Sorted(d, kind), Filled(d))
SignedOrder(d, kind) == Merged(Sorted(d, kind), WrittenFilled(d))

-----------------------------------------------------------------------------
(* Values.  A value is a tuple: what it is, and of what.                   *)

Plain == <<"plain">>
Spaced == <<"spaced">>        \* with runs of spaces
Folded == <<"folded">>        \* those runs as one space each
Wide == <<"wide">>            \* text that a header cannot hold
Word == <<"word">>            \* that text as an encoded word
Unfilled == <<"unfilled">>    \* a placeholder
Hash(body) == <<"hash", body>>
Digest(body) == <<"digest", body>>
UnsignedPayload == <<"unsigned">>

Sent(value) == IF value = Wide THEN Word ELSE value
CanonicalValue(value) == IF value = Spaced THEN Folded ELSE Sent(value)

\* What this crate formats holds no space to fold, a placeholder included.
FixedValue(d, token, name) ==
  CASE name = "host"                  -> Plain
    [] name = ShaField                -> IF d.body = "unsigned" THEN UnsignedPayload
                                         ELSE Hash("empty")
    [] name \in TokenField("temporary") \cup TokenField("session") -> token
    [] OTHER                          -> d.value[name]
=============================================================================
