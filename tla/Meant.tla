------------------------------- MODULE Meant --------------------------------
(***************************************************************************)
(* What a request is meant to say: the text of its layout with every hole  *)
(* replaced by its value, written here with no table, no cursor and no     *)
(* count.  What an encoder writes is compared with it.                     *)
(***************************************************************************)
EXTENDS Layout, Selection

MeantPath(d, f) ==
  PathText(d) \o (IF d.key /\ ~d.object THEN ValueText("Key", f) ELSE <<>>)

MeantParam(param, f) ==
  <<param.name, "=">>
    \o (IF param.mode = "fixed" THEN param.value ELSE ValueText(param.hole, f))

\* Whether the request has a parameter, and those that it has, without a `?`.
Sent(param, f) == param.mode = "optional" => ~LeftOut(param.hole, f)

MeantQuery(d, f) ==
  LET present == Selected(d.query, {n \in DOMAIN d.query : Sent(d.query[n], f)})
  IN  FlattenSeq([n \in DOMAIN present |->
        (IF n = 1 THEN <<>> ELSE <<"&">>) \o MeantParam(present[n], f)])

MeantTarget(d, f) ==
  MeantPath(d, f) \o (IF MeantQuery(d, f) = <<>> THEN <<>> ELSE <<"?">> \o MeantQuery(d, f))

MeantUrl(d, f) == HostText \o MeantTarget(d, f)

MeantBody(d, f) ==
  CASE d.body = "none" -> <<>> [] d.body = "fixed" -> BodyText [] d.body = "each" -> f.body

MeantHole(hole, d, f) ==
  CASE hole = "Target"       -> MeantTarget(d, f)
    [] hole = "Path"         -> MeantPath(d, f)
    [] hole = "Query"        -> MeantQuery(d, f)
    [] hole = "Signature"    -> SignaturePlaceholder
    [] hole = "BodyLength"   -> Decimal(Len(MeantBody(d, f)))
    [] hole = "BodyHash"     -> HashPlaceholder
    [] hole = "BodyChecksum" -> ChecksumPlaceholder
    [] hole = "Body"         -> f.body
    [] OTHER                 -> ValueText(hole, f)

\* What the request says: its whole text, the operations of the layout from
\* the head on, and where the text of each starts.
Meant(d, f) ==
  LET Piece(op) == CASE op.op = "text" -> op.text
                     [] op.op = "hole" -> MeantHole(op.hole, d, f)
                     [] OTHER          -> <<>>
      url == MeantUrl(d, f)
      after == AfterUrl(d)
      pieces == [n \in DOMAIN after |-> Piece(after[n])]
  IN  [text   |-> url \o FlattenSeq(pieces),
       url    |-> Len(url),
       ops    |-> after,
       starts |-> [n \in 1..Len(after) + 1 |->
                     Len(url) + Len(FlattenSeq(SubSeq(pieces, 1, n - 1)))]]

\* Where the first operation that is one of `ops` starts.  Azure has no
\* canonical request, and its body follows its head.
StartOf(ops, meant) ==
  meant.starts[CHOOSE n \in DOMAIN meant.ops :
                 meant.ops[n] \in ops /\ \A earlier \in 1..n - 1 : meant.ops[earlier] \notin ops]

From(section) == {Section(later) : later \in section..Sections - 1}

MeantSpan(section, meant) ==
  LET start == StartOf(From(section), meant)
      end == IF section = BodySection THEN Len(meant.text) ELSE StartOf(From(section + 1), meant)
  IN  [start |-> start, len |-> end - start]

\* The spans of every placeholder of a kind, in order.
MeantMarks(hole, meant) ==
  LET places == SetToSortSeq({n \in DOMAIN meant.ops : meant.ops[n] = Hole(hole)}, <)
  IN  [m \in DOMAIN places |->
         [start |-> meant.starts[places[m]],
          len |-> meant.starts[places[m] + 1] - meant.starts[places[m]]]]
=============================================================================
