-------------------------------- MODULE Walk --------------------------------
(***************************************************************************)
(* The walk over the bytes of one entry, after the page was read and the   *)
(* entry was decoded where it stands (next_property of xml/mod.rs).  It    *)
(* does not know which values were decoded, and finds out by the zeros     *)
(* that decoding left after them.                                          *)
(***************************************************************************)
EXTENDS Integers, Sequences, SequencesExt

Names == {"Name", "Key", "Prefix"}

\* The elements whose text an entry's reader decodes.
\* Mutant: the keys of S3 are left out.
DecodedNamesLessKey == {"Name", "Etag", "Type", "ETag", "Prefix"}
DecodedNames == {"Name", "Etag", "Type", "Key", "ETag", "Prefix"}

Tok(raw, i) == IF i <= Len(raw) THEN raw[i] ELSE <<"end", "", "">>
LeastOf(indices) == CHOOSE i \in indices : \A j \in indices : i <= j
Failing == [ok |-> FALSE, to |-> 0, next |-> 0]
Split(to, next) == [ok |-> TRUE, to |-> to, next |-> next]

\* split_at_decoded_value: up to the first zero, if the close tag stands there.
SplitDecoded(raw, from, name) ==
  LET zeros == {i \in from .. Len(raw) : raw[i][1] = "decoded"}
  IN IF name \in DecodedNames /\ zeros # {}
        /\ Tok(raw, LeastOf(zeros) + 1) = <<"close", name, "">>
     THEN Split(LeastOf(zeros), LeastOf(zeros) + 2) ELSE Failing

\* split_at_close_tag: to the close tag that ends as many elements of the name
\* as begin.  A text whose references were undone may hold one.
Closes(token, name) ==
  token = <<"close", name, "">> \/ (token[1] = "decoded" /\ token[2] = "amp" /\ name \in Names)
SplitClose(raw, from, name) ==
  LET depth(i) == Len(SelectSeq(SubSeq(raw, from, i), LAMBDA t : t[1] = "open" /\ t[2] = name))
                  - Len(SelectSeq(SubSeq(raw, from, i), LAMBDA t : Closes(t, name)))
      ends == {i \in from .. Len(raw) : Closes(raw[i], name) /\ depth(i) = -1}
  IN IF ends = {} THEN Failing
     ELSE Split(LeastOf(ends) - 1, LeastOf(ends) + 1)

\* next_property, over and over: the names and the values that the walk tells.
WalkStart == [at |-> 2, within |-> FALSE, done |-> FALSE, out |-> <<>>]
NextProperty(raw, w) ==
  LET at == IF Tok(raw, w.at) = <<"text", "space", "">> THEN w.at + 1 ELSE w.at
      tag == Tok(raw, at)
      name == tag[2]
      decoded == SplitDecoded(raw, at + 1, name)
      split == IF decoded.ok THEN decoded ELSE SplitClose(raw, at + 1, name)
  IN CASE tag[1] = "close" ->
            IF w.within /\ name = "Properties" THEN [w EXCEPT !.at = at + 1, !.within = FALSE]
            ELSE [w EXCEPT !.done = TRUE]
       [] tag[1] \in {"open", "empty"} /\ ~ w.within /\ name = "Properties" ->
            [w EXCEPT !.at = at + 1, !.within = tag[1] = "open"]
       [] tag[1] = "empty" -> [w EXCEPT !.at = at + 1, !.out = Append(@, <<name, <<>>>>)]
       [] tag[1] = "open" /\ (tag[2] # "Properties" \/ w.within) ->
            IF split.ok
            THEN [w EXCEPT !.at = split.next,
                           !.out = Append(@, <<name, SubSeq(raw, at + 1, split.to)>>)]
            ELSE [w EXCEPT !.done = TRUE]
       [] OTHER -> [w EXCEPT !.done = TRUE]

Walked(raw) ==
  FoldLeft(LAMBDA w, token : IF w.done THEN w ELSE NextProperty(raw, w), WalkStart, raw).out

\* What the walk tells of a name: the first of it, as ListEntry::property does.
Told(walked, name) ==
  LET found == {i \in DOMAIN walked : walked[i][1] = name}
  IN IF found = {} THEN <<"absent">> ELSE walked[LeastOf(found)][2]
=============================================================================
