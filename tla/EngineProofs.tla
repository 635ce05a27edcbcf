---------------------------- MODULE EngineProofs ----------------------------
EXTENDS Engine, Meant, SelectionProofs

(***************************************************************************)
(* What the builder, the pass and the walk keep, for every layout.         *)
(*                                                                         *)
(* Each of them is a fold over a layout or over the steps of a table, of   *)
(* any length.  A fold is met here by showing that a function solves its   *)
(* equation and by running that function position by position (FoldExists, *)
(* FoldRuns), so that what one step keeps, a run keeps.  In this order:    *)
(*   - a layout is made of operations of Pass, and goes from section to    *)
(*     section (LayoutIn, LayoutGoes);                                     *)
(*   - a table counts each of its steps in one section;                    *)
(*   - a pass and a walk only ever append, and the end of a section and a  *)
(*     placeholder are taken from the position they have reached;          *)
(*   - the steps of a builder are the holes of its layout and the ends of  *)
(*     its sections, and their runs and names are its text (Tidy, Tabled); *)
(*   - a pass over the layout that its table was built from reads what the *)
(*     builder wrote, operation by operation (Paced, LayoutKeeps);         *)
(*   - a query, and the parameters that a request gives a value, are       *)
(*     written one piece after the other;                                  *)
(*   - a walk over those steps writes what the layout says (Along,         *)
(*     LayoutWalks).                                                       *)
(***************************************************************************)

-----------------------------------------------------------------------------
(* Layouts.                                                                *)

\* The words that a text is made of.  Each literal is a string, which is said
\* here because no prover knows it.
Words ==
  STRING \cup
  {"none", "scheme", "host", "/", "container", "object", " ", "scope", "restore", "request",
   "CR", "LF", "%", "2", "0", "=", "&", "?", "?revision=", "name:", "method", "authorization",
   "names", "hash", "junk"}
  \cup
  {"Target", "Path", "Query", "Signature", "BodyLength", "BodyHash", "BodyChecksum", "Separator",
   "Body", "Key", "Day", "HttpTime", "SignedCondition", "SignedSourceCondition"}
Wording == Seq(Words)

\* The operations of a layout.
Parameters == 
  [mode : {"fixed", "hole", "optional"}, name : Words, value : Wording, hole : Words]
Ops ==
  {Section(section) : section \in 0 .. Sections - 1} \cup {Text(text) : text \in Wording}
    \cup {Hole(hole) : hole \in Words} \cup {Fields} \cup {Param(param) : param \in Parameters}

\* Those that only write: they begin no section and mark no field.
Still == {Text(text) : text \in Wording} \cup {Hole(hole) : hole \in Words}

LEMMA SeqOfMore ==
  ASSUME NEW X, NEW Y, X \subseteq Y, NEW seq \in Seq(X)
  PROVE  seq \in Seq(Y)
<1>1. Len(seq) \in Nat /\ seq \in [1 .. Len(seq) -> X]
  OBVIOUS
<1>2. seq \in [1 .. Len(seq) -> Y]
  BY <1>1
<1> QED BY <1>1, <1>2, FunctionIsSeq

LEMMA Worded == Texts \subseteq Wording
<1>1. STRING \subseteq Words
  BY DEF Words
<1> HIDE DEF Words
<1> QED BY <1>1, SeqOfMore DEF Texts, Wording

\* What sequences are put together to is a sequence of the same.
LEMMA FlattenIn ==
  ASSUME NEW X, NEW seqs \in Seq(Seq(X))
  PROVE  FlattenSeq(seqs) \in Seq(X)
<1> DEFINE k == Len(seqs)
           Eq(f) == f = [i \in 1 .. k |-> IF i = 1 THEN seqs[i] ELSE f[i - 1] \o seqs[i]]
           f == CHOOSE f : Eq(f)
           Flat(g, m) == /\ g \in [1 .. m -> Seq(X)]
                         /\ \A i \in 1 .. m : g[i] = IF i = 1 THEN seqs[i] ELSE g[i - 1] \o seqs[i]
           T == {m \in 0 .. k : \E g : Flat(g, m)}
<1>0. k \in Nat /\ \A i \in 1 .. k : seqs[i] \in Seq(X)
  OBVIOUS
<1>1. 0 \in T
  <2>1. Flat(<<>>, 0)
    OBVIOUS
  <2> HIDE DEF Flat
  <2> QED BY <1>0, <2>1
<1>2. ASSUME NEW n \in 1 .. k, NEW g, Flat(g, n - 1)
      PROVE  \E h : Flat(h, n)
  <2> DEFINE last == IF n = 1 THEN seqs[n] ELSE g[n - 1] \o seqs[n]
             h == [i \in 1 .. n |-> IF i = n THEN last ELSE g[i]]
  <2>1. last \in Seq(X)
    <3>1. CASE n = 1
      BY <1>0, <3>1
    <3>2. CASE n # 1
      <4>1. n - 1 \in 1 .. n - 1
        BY <1>0, <3>2
      <4>2. g[n - 1] \in Seq(X)
        BY <1>2, <4>1
      <4> QED BY <1>0, <3>2, <4>2
    <3> QED BY <3>1, <3>2
  <2>2. h \in [1 .. n -> Seq(X)]
    <3>1. \A i \in 1 .. n : i # n => i \in 1 .. n - 1
      BY <1>0
    <3> HIDE DEF last
    <3> QED BY <1>2, <2>1, <3>1
  <2>3. \A i \in 1 .. n : h[i] = IF i = 1 THEN seqs[i] ELSE h[i - 1] \o seqs[i]
    <3> TAKE i \in 1 .. n
    <3>1. CASE i = n
      <4>1. n # 1 => n - 1 \in 1 .. n /\ h[n - 1] = g[n - 1]
        BY <1>0
      <4> QED BY <3>1, <4>1
    <3>2. CASE i # n
      <4>1. i \in 1 .. n - 1 /\ h[i] = g[i]
        BY <1>0, <3>2
      <4>2. i # 1 => i - 1 \in 1 .. n /\ h[i - 1] = g[i - 1]
        BY <1>0, <3>2
      <4> QED BY <1>2, <4>1, <4>2
    <3> QED BY <3>1, <3>2
  <2> HIDE DEF h
  <2> QED BY <2>2, <2>3
<1>3. k \in T
  <2> HIDE DEF Flat
  <2>1. \A n \in 1 .. k : n - 1 \in T => n \in T
    BY <1>2
  <2> HIDE DEF T
  <2>2. \A n \in 0 .. k : n \in T
    BY <1>0, <1>1, <2>1, Induction
  <2> QED BY <1>0, <2>2
<1>4. PICK g : Flat(g, k)
  BY <1>3
<1>5. Eq(g)
  BY <1>4
<1>6. Eq(f)
  <2> HIDE DEF Eq
  <2> QED BY <1>5, Zenon
<1>7. FlattenSeq(seqs) = IF k = 0 THEN seqs ELSE f[k]
  BY DEF FlattenSeq
<1> HIDE DEF f
<1>8. \A i \in 1 .. k : f[i] = IF i = 1 THEN seqs[i] ELSE f[i - 1] \o seqs[i]
  BY <1>6
<1> DEFINE S == {i \in 0 .. k : i # 0 => f[i] \in Seq(X)}
<1>9. 0 \in S /\ \A i \in 1 .. k : i - 1 \in S => i \in S
  <2>1. 0 \in S
    BY <1>0
  <2>2. ASSUME NEW i \in 1 .. k, i - 1 \in S
        PROVE  f[i] \in Seq(X)
    <3>1. CASE i = 1
      BY <1>0, <1>8, <3>1
    <3>2. CASE i # 1
      <4>1. f[i - 1] \in Seq(X)
        BY <1>0, <2>2, <3>2
      <4>2. f[i] = f[i - 1] \o seqs[i]
        BY <1>8, <3>2
      <4> QED BY <1>0, <4>1, <4>2
    <3> QED BY <3>1, <3>2
  <2> QED BY <1>0, <2>1, <2>2
<1>10. \A i \in 0 .. k : i \in S
  <2> HIDE DEF S
  <2> QED BY <1>0, <1>9, Induction
<1>11. CASE k = 0
  BY <1>7, <1>11
<1>12. CASE k # 0
  <2>1. k \in S
    BY <1>0, <1>10
  <2> QED BY <1>7, <1>12, <2>1
<1> QED BY <1>11, <1>12

\* A few tokens are a text.
LEMMA Few ==
  ASSUME NEW X, NEW a \in X, NEW b \in X, NEW c \in X
  PROVE  /\ <<>> \in Seq(X) /\ <<a>> \in Seq(X) /\ <<a, b>> \in Seq(X)
         /\ <<a, b, c>> \in Seq(X)
OBVIOUS

LEMMA PercentIn ==
  ASSUME NEW raw \in Wording
  PROVE  Percent(raw) \in Wording
<1> DEFINE seqs == [n \in DOMAIN raw |-> IF raw[n] = " " THEN <<"%", "2", "0">> ELSE <<raw[n]>>]
<1>1. DOMAIN raw = 1 .. Len(raw) /\ Len(raw) \in Nat /\ \A n \in 1 .. Len(raw) : raw[n] \in Words
  BY DEF Wording
<1>2. seqs \in [1 .. Len(raw) -> Wording]
  <2>1. <<"%", "2", "0">> \in Wording /\ \A word \in Words : <<word>> \in Wording
    <3>1. "%" \in Words /\ "2" \in Words /\ "0" \in Words
      BY DEF Words
    <3> QED BY <3>1, Few DEF Wording
  <2>2. \A n \in 1 .. Len(raw) : (IF raw[n] = " " THEN <<"%", "2", "0">> ELSE <<raw[n]>>) \in Wording
    BY <1>1, <2>1
  <2> QED BY <1>1, <2>2
<1>3. seqs \in Seq(Wording)
  BY <1>1, <1>2, FunctionIsSeq
<1> HIDE DEF seqs
<1>4. FlattenSeq(seqs) \in Wording
  BY <1>3, FlattenIn DEF Wording
<1> QED BY <1>4 DEF Percent, seqs

\* What a layout is made from.
Described(d) ==
  /\ d.query \in Seq(Parameters) /\ d.fixed \in Wording /\ d.filled \in Seq(Seq(Words))
  /\ {d.sha, d.length, d.md5} \subseteq Words /\ d.body \in {"none", "fixed", "each"}

LEMMA DescribedIs ==
  ASSUME NEW d \in Describing
  PROVE  Described(d) /\ Described([d EXCEPT !.query = d.asked])
<1>1. STRING \subseteq Words
  BY DEF Words
<1>2. Params \subseteq Parameters
  BY <1>1, Worded DEF Params, Parameters
<1>3. d.query \in Seq(Parameters) /\ d.asked \in Seq(Parameters)
  BY <1>2, SeqOfMore DEF Describing
<1>4. d.fixed \in Wording
  BY Worded DEF Describing
<1>5. Seq(STRING) \subseteq Seq(Words)
  BY <1>1, SeqOfMore
<1>6. d.filled \in Seq(Seq(Words))
  <2>1. d.filled \in Seq(Seq(STRING))
    BY DEF Describing
  <2> QED BY <1>5, <2>1, SeqOfMore
<1>7. /\ d.sha \in Words /\ d.length \in Words /\ d.md5 \in Words
      /\ d.body \in {"none", "fixed", "each"}
  BY <1>1 DEF Describing
<1>8. LET e == [d EXCEPT !.query = d.asked]
      IN  /\ e.query = d.asked /\ e.fixed = d.fixed /\ e.filled = d.filled
          /\ e.sha = d.sha /\ e.length = d.length /\ e.md5 = d.md5
          /\ e.body = d.body
  BY DEF Describing
<1> QED BY <1>3, <1>4, <1>6, <1>7, <1>8 DEF Described

LEMMA WordingIs ==
  /\ {HostText, ContainerText, ObjectKey, ScopeText, BodyText, CRLF} \subseteq Wording
  /\ {HashPlaceholder, ChecksumPlaceholder, SignaturePlaceholder} \subseteq Wording
  /\ \A word \in Words : <<word>> \in Wording
  /\ <<>> \in Wording
  /\ \A one, two \in Wording : one \o two \in Wording
<1>1. {"scheme", "host", "/", "container", "object", " ", "scope", "restore", "request", "CR",
       "LF", "0", "="} \subseteq Words
  BY DEF Words
<1> HIDE DEF Words
<1>2. \A one, two \in Words : <<one>> \in Wording /\ <<one, two>> \in Wording
  BY Few DEF Wording
<1>3. {HostText, ContainerText, ObjectKey, ScopeText, BodyText, CRLF} \subseteq Wording
  BY <1>1, <1>2 DEF HostText, ContainerText, ObjectKey, ScopeText, BodyText, CRLF
<1>4. {HashPlaceholder, ChecksumPlaceholder, SignaturePlaceholder} \subseteq Wording
  BY <1>1, <1>2 DEF HashPlaceholder, ChecksumPlaceholder, SignaturePlaceholder
<1>5. <<>> \in Wording /\ \A one, two \in Wording : one \o two \in Wording
  BY DEF Wording
<1> QED BY <1>2, <1>3, <1>4, <1>5

LEMMA OpIs ==
  /\ \A section \in 0 .. Sections - 1 : Section(section) \in Ops
  /\ Fields \in Ops
  /\ \A param \in Parameters : Param(param) \in Ops
  /\ Still \subseteq Ops
BY DEF Ops, Still

LEMMA StillIs ==
  /\ \A text \in Wording : Text(text) \in Still
  /\ \A hole \in Words : Hole(hole) \in Still
BY DEF Still

LEMMA FixedQueryTextIn ==
  ASSUME NEW query \in Seq(Parameters), NEW mark \in BOOLEAN
  PROVE  FixedQueryText(query, mark) \in Wording
<1> DEFINE Before(n) == CASE n > 1 -> <<"&">> [] n = 1 /\ mark -> <<"?">> [] OTHER -> <<>>
           seqs == [n \in DOMAIN query |-> Before(n) \o <<query[n].name, "=">> \o query[n].value]
<1>1. /\ DOMAIN query = 1 .. Len(query) /\ Len(query) \in Nat
      /\ \A n \in 1 .. Len(query) : query[n].name \in Words /\ query[n].value \in Wording
  <2>1. DOMAIN query = 1 .. Len(query) /\ Len(query) \in Nat
    OBVIOUS
  <2>2. \A n \in 1 .. Len(query) : query[n] \in Parameters
    OBVIOUS
  <2> QED BY <2>1, <2>2 DEF Parameters
<1>2. {"&", "?", "="} \subseteq Words
  BY DEF Words
<1>3. \A n \in 1 .. Len(query) : Before(n) \in Wording
  BY <1>2, WordingIs
<1>4. \A n \in 1 .. Len(query) : <<query[n].name, "=">> \in Wording
  BY <1>1, <1>2, Few DEF Wording
<1> HIDE DEF Before
<1>5. \A n \in 1 .. Len(query) : Before(n) \o <<query[n].name, "=">> \o query[n].value \in Wording
  BY <1>1, <1>3, <1>4, WordingIs
<1>6. seqs \in [1 .. Len(query) -> Wording]
  BY <1>1, <1>5
<1>7. seqs \in Seq(Wording)
  BY <1>1, <1>6, FunctionIsSeq
<1>8. FlattenSeq(seqs) \in Wording
  <2> HIDE DEF seqs
  <2> QED BY <1>7, FlattenIn DEF Wording
<1> QED BY <1>8 DEF FixedQueryText, Before

LEMMA PathTextIn ==
  ASSUME NEW d
  PROVE  PathText(d) \in Wording
<1>1. <<"/">> \in Wording
  <2>1. "/" \in Words
    BY DEF Words
  <2> QED BY <2>1, WordingIs
<1>2. Percent(ObjectKey) \in Wording
  BY WordingIs, PercentIn
<1>3. ContainerText \in Wording
  BY WordingIs
<1> QED BY <1>1, <1>2, <1>3, WordingIs DEF PathText

LEMMA FieldValueIn ==
  ASSUME NEW holes \in Seq(Words), NEW signed \in BOOLEAN
  PROVE  FieldValue(holes, signed) \in Seq(Still)
<1> DEFINE Before(n) == IF n > 1 THEN <<Text(<<"?revision=">>)>> ELSE <<>>
           Filled(n) == IF signed THEN SignedHole(holes[n]) ELSE holes[n]
           seqs == [n \in DOMAIN holes |-> Before(n) \o <<Hole(Filled(n))>>]
<1>1. DOMAIN holes = 1 .. Len(holes) /\ Len(holes) \in Nat /\ \A n \in 1 .. Len(holes) : holes[n] \in Words
  OBVIOUS
<1>2. {"?revision=", "SignedCondition", "SignedSourceCondition"} \subseteq Words
  BY DEF Words
<1>3. \A n : Before(n) \in Seq(Still)
  <2>1. Text(<<"?revision=">>) \in Still
    BY <1>2, WordingIs, StillIs
  <2> QED BY <2>1, Few
<1>4. \A n \in 1 .. Len(holes) : Filled(n) \in Words
  BY <1>1, <1>2 DEF SignedHole
<1> HIDE DEF Before, Filled
<1>5. \A n \in 1 .. Len(holes) : Before(n) \o <<Hole(Filled(n))>> \in Seq(Still)
  <2> SUFFICES ASSUME NEW n \in 1 .. Len(holes)
               PROVE  Before(n) \o <<Hole(Filled(n))>> \in Seq(Still)
    OBVIOUS
  <2>1. <<Hole(Filled(n))>> \in Seq(Still)
    BY <1>4, StillIs, Few
  <2> QED BY <1>3, <2>1
<1>6. seqs \in [1 .. Len(holes) -> Seq(Still)]
  BY <1>1, <1>5
<1>7. seqs \in Seq(Seq(Still))
  BY <1>1, <1>6, FunctionIsSeq
<1>8. FlattenSeq(seqs) \in Seq(Still)
  <2> HIDE DEF seqs
  <2> QED BY <1>7, FlattenIn
<1> QED BY <1>8 DEF FieldValue, Before, Filled

LEMMA FilledFieldsIn ==
  ASSUME NEW filled \in Seq(Seq(Words)), NEW signed \in BOOLEAN
  PROVE  FilledFields(filled, signed) \in Seq(Still)
<1> DEFINE Line(n) == <<Text(<<"name:">>)>> \o FieldValue(filled[n], signed)
                        \o <<Text(IF signed THEN <<"LF">> ELSE CRLF)>>
           seqs == [n \in DOMAIN filled |-> Line(n)]
<1>1. /\ DOMAIN filled = 1 .. Len(filled) /\ Len(filled) \in Nat
      /\ \A n \in 1 .. Len(filled) : filled[n] \in Seq(Words)
  OBVIOUS
<1>2. {"name:", "LF"} \subseteq Words
  BY DEF Words
<1>3. <<Text(<<"name:">>)>> \in Seq(Still) /\ <<Text(IF signed THEN <<"LF">> ELSE CRLF)>> \in Seq(Still)
  <2>1. Text(<<"name:">>) \in Still /\ Text(IF signed THEN <<"LF">> ELSE CRLF) \in Still
    BY <1>2, WordingIs, StillIs
  <2> QED BY <2>1, Few
<1>4. \A n \in 1 .. Len(filled) : Line(n) \in Seq(Still)
  BY <1>1, <1>3, FieldValueIn
<1> HIDE DEF Line
<1>5. seqs \in [1 .. Len(filled) -> Seq(Still)]
  BY <1>1, <1>4
<1>6. seqs \in Seq(Seq(Still))
  BY <1>1, <1>5, FunctionIsSeq
<1>7. FlattenSeq(seqs) \in Seq(Still)
  <2> HIDE DEF seqs
  <2> QED BY <1>6, FlattenIn
<1> QED BY <1>7 DEF FilledFields, Line

LEMMA FieldOfIn ==
  ASSUME NEW hole \in Words
  PROVE  FieldOf(hole) \in Seq(Still)
<1>1. "name:" \in Words
  BY DEF Words
<1>2. Text(<<"name:">>) \in Still /\ Hole(hole) \in Still /\ Text(CRLF) \in Still
  BY <1>1, WordingIs, StillIs
<1>3. <<>> \in Seq(Still) /\ <<Text(<<"name:">>), Hole(hole), Text(CRLF)>> \in Seq(Still)
  BY <1>2, Few
<1> QED BY <1>3 DEF FieldOf

LEMMA TargetIn ==
  ASSUME NEW d, Described(d)
  PROVE  Target(d) \in Still
<1>1. "Target" \in Words
  BY DEF Words
<1>2. FixedQueryText(d.query, TRUE) \in Wording
  BY FixedQueryTextIn DEF Described
<1>3. PathText(d) \in Wording
  BY PathTextIn
<1>4. PathText(d) \o FixedQueryText(d.query, TRUE) \in Wording
  BY <1>2, <1>3, WordingIs
<1> QED BY <1>1, <1>4, StillIs DEF Target

\* Operations one after the other.
LEMMA StillIn ==
  /\ \A op \in Still : <<op>> \in Seq(Still)
  /\ \A one, two \in Still : <<one, two>> \in Seq(Still)
  /\ \A one, two, three \in Still : <<one, two, three>> \in Seq(Still)
  /\ \A one, two \in Seq(Still) : one \o two \in Seq(Still)
  /\ <<>> \in Seq(Still)
<1>1. \A op \in Still : <<op>> \in Seq(Still)
  BY Few
<1>2. \A one, two \in Still : <<one, two>> \in Seq(Still)
  BY Few
<1>3. \A one, two, three \in Still : <<one, two, three>> \in Seq(Still)
  BY Few
<1> QED BY <1>1, <1>2, <1>3

LEMMA UrlLayoutIs ==
  ASSUME NEW d, Described(d)
  PROVE  LET start == <<Text(HostText)>>
             path == <<Section(PathSection)>>
             key == <<Text(PathText(d))>> \o (IF d.key /\ ~d.object THEN <<Hole("Key")>> ELSE <<>>)
             query == <<Section(QuerySection)>>
             params == [n \in DOMAIN d.query |-> Param(d.query[n])]
         IN  /\ UrlLayout(d) = start \o path \o key \o query \o params
             /\ start \in Seq(Still) /\ path \in Seq(Ops) /\ key \in Seq(Still)
             /\ query \in Seq(Ops) /\ params \in Seq(Ops) /\ Len(params) = Len(d.query)
             /\ \A n \in 1 .. Len(params) : params[n].op = "param"
<1> DEFINE start == <<Text(HostText)>>
           path == <<Section(PathSection)>>
           text == <<Text(PathText(d))>>
           hole == IF d.key /\ ~d.object THEN <<Hole("Key")>> ELSE <<>>
           query == <<Section(QuerySection)>>
           params == [n \in DOMAIN d.query |-> Param(d.query[n])]
<1>1. start \in Seq(Still) /\ text \in Seq(Still)
  BY WordingIs, PathTextIn, StillIs, StillIn
<1>2. hole \in Seq(Still)
  <2>1. "Key" \in Words
    BY DEF Words
  <2>2. Hole("Key") \in Still
    BY <2>1, StillIs
  <2> QED BY <2>2, StillIn
<1>3. path \in Seq(Ops) /\ query \in Seq(Ops)
  <2>1. Section(PathSection) \in Ops /\ Section(QuerySection) \in Ops
    BY OpIs DEF PathSection, QuerySection, Sections
  <2> QED BY <2>1, Few
<1>4. params \in Seq(Ops) /\ Len(params) = Len(d.query) /\ \A n \in 1 .. Len(params) : params[n].op = "param"
  <2>1. /\ DOMAIN d.query = 1 .. Len(d.query) /\ Len(d.query) \in Nat
        /\ \A n \in 1 .. Len(d.query) : d.query[n] \in Parameters
    BY DEF Described
  <2>2. params \in [1 .. Len(d.query) -> Ops]
    BY <2>1, OpIs
  <2>3. params \in Seq(Ops) /\ Len(params) = Len(d.query)
    <3> HIDE DEF params
    <3> QED BY <2>1, <2>2, FunctionIsSeq
  <2>4. \A n \in 1 .. Len(d.query) : params[n].op = "param"
    BY <2>1 DEF Param
  <2> QED BY <2>3, <2>4
<1>5. text \o hole \in Seq(Still)
  BY <1>1, <1>2, StillIn
<1>6. UrlLayout(d) = start \o path \o (text \o hole) \o query \o params
  <2>1. <<Text(HostText), Section(PathSection), Text(PathText(d))>> = start \o path \o text
    OBVIOUS
  <2>2. UrlLayout(d) = (start \o path \o text) \o hole \o query \o params
    BY <2>1 DEF UrlLayout
  <2>3. start \o path \in Seq(Ops) /\ text \in Seq(Ops) /\ hole \in Seq(Ops)
    <3>1. start \in Seq(Ops) /\ text \in Seq(Ops) /\ hole \in Seq(Ops)
      BY <1>1, <1>2, OpIs, SeqOfMore
    <3> HIDE DEF start, path, text, hole
    <3> QED BY <1>3, <3>1
  <2> HIDE DEF start, path, text, hole, query, params
  <2>4. (start \o path \o text) \o hole = (start \o path) \o (text \o hole)
    <3> DEFINE first == start \o path
    <3>1. first \in Seq(Ops)
      BY <2>3
    <3> HIDE DEF first
    <3>2. (first \o text) \o hole = first \o (text \o hole)
      BY SMTT(20), <2>3, <3>1, ConcatAssociative
    <3> QED BY <3>2 DEF first
  <2> QED BY <2>2, <2>4
<1> QED BY <1>1, <1>3, <1>4, <1>5, <1>6

-----------------------------------------------------------------------------
(* Where a layout is: the section that it writes, and whether it has marked *)
(* the fields.  A parameter is one of the query.                           *)

Stages == (0 .. Sections - 1) \X {0, 1}

Moves(op, p, q) ==
  /\ op.op = "section" => op.section = q[1] /\ q[1] \in {p[1] + 1, p[1] + 2} /\ q[2] = p[2]
  /\ op.op = "fields" => q[1] = p[1] /\ p[2] = 0 /\ q[2] = 1
  /\ op.op \notin {"section", "fields"} => q = p
  /\ op.op = "param" => p[1] = QuerySection

GoesBy(seq, at) == \A n \in 1 .. Len(seq) : Moves(seq[n], at[n - 1], at[n])
Goes(seq, p, q) ==
  /\ seq \in Seq(Ops)
  /\ \E at \in [0 .. Len(seq) -> Stages] : at[0] = p /\ at[Len(seq)] = q /\ GoesBy(seq, at)

LEMMA GoesStill ==
  ASSUME NEW seq \in Seq(Still), NEW p \in Stages
  PROVE  Goes(seq, p, p)
<1> DEFINE at == [n \in 0 .. Len(seq) |-> p]
<1>1. seq \in Seq(Ops) /\ Len(seq) \in Nat
  BY OpIs, SeqOfMore
<1>2. \A n \in 1 .. Len(seq) : Moves(seq[n], p, p)
  <2>1. \A n \in 1 .. Len(seq) : seq[n] \in Still
    OBVIOUS
  <2>2. \A op \in Still : op.op \in {"text", "hole"}
    BY DEF Still, Text, Hole
  <2> QED BY <2>1, <2>2 DEF Moves
<1>3. GoesBy(seq, at)
  BY <1>1, <1>2 DEF GoesBy
<1>4. at \in [0 .. Len(seq) -> Stages] /\ at[0] = p /\ at[Len(seq)] = p
  BY <1>1
<1> QED BY <1>1, <1>3, <1>4 DEF Goes

LEMMA GoesParams ==
  ASSUME NEW seq \in Seq(Ops), \A n \in 1 .. Len(seq) : seq[n].op = "param"
  PROVE  Goes(seq, <<2, 0>>, <<2, 0>>)
<1> DEFINE p == <<2, 0>>
           at == [n \in 0 .. Len(seq) |-> p]
<1>1. Len(seq) \in Nat /\ p \in Stages /\ p[1] = QuerySection
  BY DEF Stages, Sections, QuerySection
<1> HIDE DEF p
<1>2. \A n \in 1 .. Len(seq) : Moves(seq[n], p, p)
  BY <1>1 DEF Moves
<1>3. GoesBy(seq, at)
  BY <1>1, <1>2 DEF GoesBy
<1>4. at \in [0 .. Len(seq) -> Stages] /\ at[0] = p /\ at[Len(seq)] = p
  BY <1>1
<1>5. Goes(seq, p, p)
  BY <1>1, <1>3, <1>4 DEF Goes
<1> QED BY <1>5 DEF p

LEMMA GoesOne ==
  ASSUME NEW op \in Ops, NEW p \in Stages, NEW q \in Stages, Moves(op, p, q)
  PROVE  Goes(<<op>>, p, q)
<1> DEFINE at == [n \in 0 .. 1 |-> IF n = 0 THEN p ELSE q]
           seq == <<op>>
<1>1. seq \in Seq(Ops) /\ Len(seq) = 1 /\ seq[1] = op
  OBVIOUS
<1>2. at \in [0 .. 1 -> Stages] /\ at[0] = p /\ at[1] = q
  OBVIOUS
<1> HIDE DEF at, seq
<1>3. GoesBy(seq, at)
  BY <1>1, <1>2 DEF GoesBy
<1> QED BY <1>1, <1>2, <1>3 DEF Goes, seq

LEMMA GoesOn ==
  ASSUME NEW one, NEW two, NEW p, NEW q, NEW r, Goes(one, p, q), Goes(two, q, r)
  PROVE  Goes(one \o two, p, r)
<1> DEFINE m == Len(one)
           n == Len(two)
           seq == one \o two
<1>1. PICK a \in [0 .. m -> Stages] : a[0] = p /\ a[m] = q /\ GoesBy(one, a)
  BY DEF Goes
<1>2. PICK b \in [0 .. n -> Stages] : b[0] = q /\ b[n] = r /\ GoesBy(two, b)
  BY DEF Goes
<1>3. one \in Seq(Ops) /\ two \in Seq(Ops) /\ m \in Nat /\ n \in Nat
  BY DEF Goes
<1>4. /\ seq \in Seq(Ops) /\ Len(seq) = m + n
      /\ \A i \in 1 .. m : seq[i] = one[i]
      /\ \A i \in 1 .. n : seq[m + i] = two[i]
  BY <1>3, ConcatProperties
<1> DEFINE at == [i \in 0 .. m + n |-> IF i <= m THEN a[i] ELSE b[i - m]]
<1> HIDE DEF m, n, seq
<1>5. at \in [0 .. m + n -> Stages]
  BY <1>1, <1>2, <1>3
<1>7. \A i \in 0 .. m : at[i] = a[i]
  BY <1>3
<1>8. \A i \in 0 .. n : at[m + i] = b[i]
  <2> SUFFICES ASSUME NEW i \in 0 .. n PROVE at[m + i] = b[i]
    OBVIOUS
  <2>1. m + i \in 0 .. m + n /\ (m + i) - m = i /\ (m + i <= m <=> i = 0)
    BY <1>3
  <2> QED BY <1>1, <1>2, <1>3, <2>1
<1>6. at[0] = p /\ at[m + n] = r
  BY <1>1, <1>2, <1>3, <1>7, <1>8
<1> HIDE DEF at
<1>9. \A i \in 1 .. m + n : Moves(seq[i], at[i - 1], at[i])
  <2> SUFFICES ASSUME NEW i \in 1 .. m + n PROVE Moves(seq[i], at[i - 1], at[i])
    OBVIOUS
  <2>1. CASE i <= m
    <3>1. i \in 1 .. m /\ i - 1 \in 0 .. m /\ i \in 0 .. m
      BY <1>3, <2>1
    <3> QED BY <1>1, <1>4, <1>7, <3>1 DEF GoesBy, m
  <2>2. CASE i > m
    <3>1. PICK k \in 1 .. n : i = m + k
      <4>1. i - m \in 1 .. n /\ i = m + (i - m)
        BY <1>3, <2>2
      <4> QED BY <4>1
    <3>2. Moves(two[k], b[k - 1], b[k])
      BY <1>2 DEF GoesBy, n
    <3>3. i - 1 = m + (k - 1) /\ k - 1 \in 0 .. n /\ k \in 0 .. n
      BY <1>3, <3>1
    <3>4. at[i - 1] = b[k - 1] /\ at[i] = b[k]
      BY <1>8, <3>1, <3>3
    <3>5. seq[i] = two[k]
      BY <1>4, <3>1
    <3> QED BY <3>2, <3>4, <3>5
  <2> QED BY <1>3, <2>1, <2>2
<1>10. GoesBy(seq, at)
  BY <1>4, <1>9 DEF GoesBy
<1> QED BY <1>4, <1>5, <1>6, <1>10 DEF Goes, seq

LEMMA StagesAre ==
  /\ <<0, 0>> \in Stages /\ <<1, 0>> \in Stages /\ <<2, 0>> \in Stages /\ <<3, 0>> \in Stages
  /\ <<3, 1>> \in Stages /\ <<4, 1>> \in Stages /\ <<5, 1>> \in Stages
BY DEF Stages, Sections

\* The sections of a layout, one after the other.
LEMMA SectionsGo ==
  /\ Goes(<<Section(PathSection)>>, <<0, 0>>, <<1, 0>>)
  /\ Goes(<<Section(QuerySection)>>, <<1, 0>>, <<2, 0>>)
  /\ Goes(<<Section(HeadSection)>>, <<2, 0>>, <<3, 0>>)
  /\ Goes(<<Fields>>, <<3, 0>>, <<3, 1>>)
  /\ Goes(<<Section(CanonicalSection)>>, <<3, 1>>, <<4, 1>>)
  /\ Goes(<<Section(BodySection)>>, <<3, 1>>, <<5, 1>>)
  /\ Goes(<<Section(BodySection)>>, <<4, 1>>, <<5, 1>>)
<1>1. /\ Moves(Section(PathSection), <<0, 0>>, <<1, 0>>)
      /\ Moves(Section(QuerySection), <<1, 0>>, <<2, 0>>)
      /\ Moves(Section(HeadSection), <<2, 0>>, <<3, 0>>)
      /\ Moves(Fields, <<3, 0>>, <<3, 1>>)
      /\ Moves(Section(CanonicalSection), <<3, 1>>, <<4, 1>>)
      /\ Moves(Section(BodySection), <<3, 1>>, <<5, 1>>)
      /\ Moves(Section(BodySection), <<4, 1>>, <<5, 1>>)
  BY DEF Moves, Section, Fields, PathSection, QuerySection, HeadSection, CanonicalSection, BodySection
<1>2. /\ Section(PathSection) \in Ops /\ Section(QuerySection) \in Ops /\ Section(HeadSection) \in Ops
      /\ Section(CanonicalSection) \in Ops /\ Section(BodySection) \in Ops /\ Fields \in Ops
  BY OpIs DEF PathSection, QuerySection, HeadSection, CanonicalSection, BodySection, Sections
<1> QED BY <1>1, <1>2, StagesAre, GoesOne

-----------------------------------------------------------------------------
(* The parts of a layout.                                                  *)

\* A head begins with its section and the line of the request, and then marks
\* the fields; the empty line ends it.
BeginsHead(seq) ==
  /\ Goes(seq, <<2, 0>>, <<3, 1>>) /\ Len(seq) >= 5
  /\ seq[1] = Section(HeadSection) /\ seq[5] = Fields
Heads(seq) == BeginsHead(seq) /\ Len(seq) > 5 /\ seq[Len(seq)] = Text(CRLF)

LEMMA BeginsOn ==
  ASSUME NEW seq, BeginsHead(seq), NEW more \in Seq(Still)
  PROVE  BeginsHead(seq \o more)
<1>1. Goes(seq \o more, <<2, 0>>, <<3, 1>>)
  BY StagesAre, GoesStill, GoesOn DEF BeginsHead
<1>2. seq \in Seq(Ops) /\ more \in Seq(Ops) /\ Len(seq) >= 5 /\ seq[1] = Section(HeadSection) /\ seq[5] = Fields
  BY OpIs, SeqOfMore DEF BeginsHead, Goes
<1>3. Len(seq \o more) = Len(seq) + Len(more) /\ \A i \in 1 .. Len(seq) : (seq \o more)[i] = seq[i]
  BY <1>2, ConcatProperties
<1> QED BY <1>1, <1>2, <1>3 DEF BeginsHead

LEMMA HeadEnds ==
  ASSUME NEW seq, BeginsHead(seq)
  PROVE  Heads(seq \o <<Text(CRLF)>>)
<1> DEFINE end == <<Text(CRLF)>>
<1>1. end \in Seq(Still) /\ Len(end) = 1 /\ end[1] = Text(CRLF)
  BY WordingIs, StillIs, StillIn
<1> HIDE DEF end
<1>2. BeginsHead(seq \o end)
  BY <1>1, BeginsOn
<1>3. seq \in Seq(Ops) /\ end \in Seq(Ops) /\ Len(seq) >= 5
  BY <1>1, OpIs, SeqOfMore DEF BeginsHead, Goes
<1>4. Len(seq \o end) = Len(seq) + 1 /\ (seq \o end)[Len(seq) + 1] = Text(CRLF)
  <2>1. /\ Len(seq \o end) = Len(seq) + Len(end)
        /\ \A i \in 1 .. Len(end) : (seq \o end)[Len(seq) + i] = end[i]
    BY <1>3, ConcatProperties
  <2> QED BY <1>1, <2>1
<1>5. Heads(seq \o end)
  BY <1>2, <1>3, <1>4 DEF Heads
<1> QED BY <1>5 DEF end

LEMMA LineBegins ==
  ASSUME NEW a \in Still, NEW b \in Still, NEW c \in Still
  PROVE  BeginsHead(<<Section(HeadSection), a, b, c, Fields>>)
<1> DEFINE section == <<Section(HeadSection)>>
           line == <<a, b, c>>
           fields == <<Fields>>
           seq == <<Section(HeadSection), a, b, c, Fields>>
<1>1. seq = section \o line \o fields
  OBVIOUS
<1>2. line \in Seq(Still)
  BY StillIn
<1>3. Goes(section, <<2, 0>>, <<3, 0>>) /\ Goes(fields, <<3, 0>>, <<3, 1>>)
  BY SectionsGo
<1>4. Len(seq) = 5 /\ seq[1] = Section(HeadSection) /\ seq[5] = Fields
  OBVIOUS
<1> HIDE DEF section, line, fields, seq
<1>5. Goes(line, <<3, 0>>, <<3, 0>>)
  BY <1>2, StagesAre, GoesStill
<1>6. Goes(section \o line, <<2, 0>>, <<3, 0>>)
  BY <1>3, <1>5, GoesOn
<1>7. Goes(seq, <<2, 0>>, <<3, 1>>)
  BY <1>1, <1>3, <1>6, GoesOn
<1> QED BY <1>4, <1>7 DEF BeginsHead, seq

LEMMA Many ==
  ASSUME NEW X, NEW a \in X, NEW b \in X, NEW c \in X, NEW d \in X, NEW e \in X
  PROVE  <<a, b, c, d>> \in Seq(X) /\ <<a, b, c, d, e>> \in Seq(X)
OBVIOUS

LEMMA AzureHeadIs ==
  ASSUME NEW d, Described(d)
  PROVE  Heads(AzureHead(d))
<1> DEFINE line == <<Section(HeadSection), Text(<<"method">>), Target(d), Text(<<"host">>), Fields>>
           first == <<Text(<<"authorization">> \o d.fixed), Text(<<"name:">>), Hole("HttpTime"), Text(CRLF)>>
           whole == <<Section(HeadSection), Text(<<"method">>), Target(d), Text(<<"host">>), Fields,
                      Text(<<"authorization">> \o d.fixed), Text(<<"name:">>), Hole("HttpTime"), Text(CRLF)>>
           length == FieldOf(d.length)
           filled == FilledFields(d.filled, FALSE)
           end == <<Text(CRLF)>>
<1>1. {"method", "host", "authorization", "name:", "HttpTime"} \subseteq Words
  BY DEF Words
<1>2. BeginsHead(line)
  <2>1. Text(<<"method">>) \in Still /\ Text(<<"host">>) \in Still /\ Target(d) \in Still
    BY <1>1, WordingIs, StillIs, TargetIn
  <2> QED BY <2>1, LineBegins
<1>3. first \in Seq(Still)
  <2>1. <<"authorization">> \o d.fixed \in Wording
    BY <1>1, WordingIs DEF Described
  <2>2. /\ Text(<<"authorization">> \o d.fixed) \in Still /\ Text(<<"name:">>) \in Still
        /\ Hole("HttpTime") \in Still /\ Text(CRLF) \in Still
    BY <1>1, <2>1, WordingIs, StillIs
  <2> QED BY <2>2, Many
<1>4. length \in Seq(Still) /\ filled \in Seq(Still)
  BY FieldOfIn, FilledFieldsIn DEF Described
<1>5. whole = line \o first
  OBVIOUS
<1>6. AzureHead(d) = whole \o length \o filled \o end
  BY DEF AzureHead
<1> HIDE DEF line, first, whole, length, filled, end
<1>7. BeginsHead(whole)
  BY <1>2, <1>3, <1>5, BeginsOn
<1>8. BeginsHead(whole \o length)
  BY <1>4, <1>7, BeginsOn
<1>9. BeginsHead(whole \o length \o filled)
  BY <1>4, <1>8, BeginsOn
<1>10. Heads(whole \o length \o filled \o end)
  BY <1>9, HeadEnds DEF end
<1> QED BY <1>6, <1>10

LEMMA S3HeadIs ==
  ASSUME NEW d, Described(d)
  PROVE  Heads(S3Head(d))
<1> DEFINE line == <<Section(HeadSection), Text(<<"method">>), Target(d), Text(<<"host">>), Fields>>
           first == <<Text(d.fixed \o <<"authorization">>), Hole("Day"), Text(ScopeText),
                      Hole("Signature"), Text(CRLF)>>
           whole == <<Section(HeadSection), Text(<<"method">>), Target(d), Text(<<"host">>), Fields,
                      Text(d.fixed \o <<"authorization">>), Hole("Day"), Text(ScopeText),
                      Hole("Signature"), Text(CRLF)>>
           filled == FilledFields(d.filled, FALSE)
           length == FieldOf(d.length)
           md5 == FieldOf(d.md5)
           end == <<Text(CRLF)>>
<1>1. {"method", "host", "authorization", "Day", "Signature"} \subseteq Words
  BY DEF Words
<1>2. BeginsHead(line)
  <2>1. Text(<<"method">>) \in Still /\ Text(<<"host">>) \in Still /\ Target(d) \in Still
    BY <1>1, WordingIs, StillIs, TargetIn
  <2> QED BY <2>1, LineBegins
<1>3. first \in Seq(Still)
  <2>1. d.fixed \o <<"authorization">> \in Wording
    BY <1>1, WordingIs DEF Described
  <2>2. /\ Text(d.fixed \o <<"authorization">>) \in Still /\ Hole("Day") \in Still
        /\ Text(ScopeText) \in Still /\ Hole("Signature") \in Still /\ Text(CRLF) \in Still
    BY <1>1, <2>1, WordingIs, StillIs
  <2> QED BY <2>2, Many
<1>4. length \in Seq(Still) /\ filled \in Seq(Still) /\ md5 \in Seq(Still)
  BY FieldOfIn, FilledFieldsIn DEF Described
<1>5. whole = line \o first
  OBVIOUS
<1>6. S3Head(d) = whole \o filled \o length \o md5 \o end
  BY DEF S3Head
<1> HIDE DEF line, first, whole, length, filled, md5, end
<1>7. BeginsHead(whole)
  BY <1>2, <1>3, <1>5, BeginsOn
<1>8. BeginsHead(whole \o filled)
  BY <1>4, <1>7, BeginsOn
<1>9. BeginsHead(whole \o filled \o length)
  BY <1>4, <1>8, BeginsOn
<1>10. BeginsHead(whole \o filled \o length \o md5)
  BY <1>4, <1>9, BeginsOn
<1>11. Heads(whole \o filled \o length \o md5 \o end)
  BY <1>10, HeadEnds DEF end
<1> QED BY <1>6, <1>11

\* What S3 signs begins with its section.
Signs(seq) == Goes(seq, <<3, 1>>, <<4, 1>>) /\ Len(seq) >= 1 /\ seq[1] = Section(CanonicalSection)

LEMMA SignsOn ==
  ASSUME NEW seq, Signs(seq), NEW more \in Seq(Still)
  PROVE  Signs(seq \o more)
<1>1. Goes(seq \o more, <<3, 1>>, <<4, 1>>)
  BY StagesAre, GoesStill, GoesOn DEF Signs
<1>2. seq \in Seq(Ops) /\ more \in Seq(Ops) /\ Len(seq) >= 1 /\ seq[1] = Section(CanonicalSection)
  BY OpIs, SeqOfMore DEF Signs, Goes
<1>3. Len(seq \o more) = Len(seq) + Len(more) /\ \A i \in 1 .. Len(seq) : (seq \o more)[i] = seq[i]
  BY <1>2, ConcatProperties
<1> QED BY <1>1, <1>2, <1>3 DEF Signs

LEMMA S3CanonicalIs ==
  ASSUME NEW d, Described(d)
  PROVE  Signs(S3Canonical(d))
<1> DEFINE section == <<Section(CanonicalSection)>>
           method == <<Text(<<"method">>)>>
           whole == <<Section(CanonicalSection), Text(<<"method">>)>>
           url == IF UrlFixed(d)
                    THEN <<Text(PathText(d) \o <<"LF">> \o FixedQueryText(d.query, FALSE))>>
                    ELSE <<Hole("Path"), Text(<<"LF">>), Hole("Query")>>
           line == <<Text(<<"LF">>)>>
           signed == FilledFields(d.filled, TRUE)
           names == <<Text(d.fixed), Text(<<"names">>)>>
           hash == IF d.sha = NoHole THEN <<Text(<<"hash">>)>> ELSE <<Hole(d.sha)>>
<1>0. {"method", "LF", "Path", "Query", "names", "hash"} \subseteq Words
  BY DEF Words
<1>1. Signs(section)
  <2>1. Goes(section, <<3, 1>>, <<4, 1>>)
    BY SectionsGo
  <2>2. Len(section) = 1 /\ section[1] = Section(CanonicalSection)
    OBVIOUS
  <2> QED BY <2>1, <2>2 DEF Signs
<1>2. method \in Seq(Still) /\ line \in Seq(Still)
  BY <1>0, WordingIs, StillIs, StillIn
<1>3. signed \in Seq(Still)
  BY FilledFieldsIn DEF Described
<1>4. url \in Seq(Still)
  <2>1. FixedQueryText(d.query, FALSE) \in Wording /\ PathText(d) \in Wording
    BY FixedQueryTextIn, PathTextIn DEF Described
  <2>2. PathText(d) \o <<"LF">> \in Wording
    BY <1>0, <2>1, WordingIs
  <2>3. PathText(d) \o <<"LF">> \o FixedQueryText(d.query, FALSE) \in Wording
    BY <2>1, <2>2, WordingIs
  <2>4. Text(PathText(d) \o <<"LF">> \o FixedQueryText(d.query, FALSE)) \in Still
    BY <2>3, StillIs
  <2>5. Hole("Path") \in Still /\ Text(<<"LF">>) \in Still /\ Hole("Query") \in Still
    BY <1>0, WordingIs, StillIs
  <2> QED BY <2>4, <2>5, StillIn
<1>5. names \in Seq(Still)
  <2>1. Text(d.fixed) \in Still /\ Text(<<"names">>) \in Still
    BY <1>0, WordingIs, StillIs DEF Described
  <2> QED BY <2>1, StillIn
<1>6. hash \in Seq(Still)
  <2>1. Text(<<"hash">>) \in Still /\ Hole(d.sha) \in Still
    BY <1>0, WordingIs, StillIs DEF Described
  <2> QED BY <2>1, StillIn
<1>7. whole = section \o method
  OBVIOUS
<1>8. S3Canonical(d) = whole \o url \o line \o signed \o names \o hash
  BY DEF S3Canonical
<1> HIDE DEF section, method, whole, url, line, signed, names, hash
<1>9. Signs(whole)
  BY <1>1, <1>2, <1>7, SignsOn
<1>10. Signs(whole \o url)
  BY <1>4, <1>9, SignsOn
<1>11. Signs(whole \o url \o line)
  BY <1>2, <1>10, SignsOn
<1>12. Signs(whole \o url \o line \o signed)
  BY <1>3, <1>11, SignsOn
<1>13. Signs(whole \o url \o line \o signed \o names)
  BY <1>5, <1>12, SignsOn
<1>14. Signs(whole \o url \o line \o signed \o names \o hash)
  BY <1>6, <1>13, SignsOn
<1> QED BY <1>8, <1>14

\* The parts: how each goes, and where its section begins.
LEMMA PartsGo ==
  ASSUME NEW d, Described(d)
  PROVE  /\ Goes(UrlLayout(d), <<0, 0>>, <<2, 0>>)
         /\ Heads(HeadLayout(d))
         /\ d.service = "s3" => Signs(SignedLayout(d))
         /\ d.service # "s3" => SignedLayout(d) = <<>>
         /\ \A s \in {3, 4} : Goes(BodyLayout(d), <<s, 1>>, <<5, 1>>)
         /\ BodyLayout(d) = <<Section(BodySection)>> \o Tail(BodyLayout(d))
         /\ Tail(BodyLayout(d)) \in Seq(Still)
<1>1. Goes(UrlLayout(d), <<0, 0>>, <<2, 0>>)
  <2> DEFINE start == <<Text(HostText)>>
             path == <<Section(PathSection)>>
             key == <<Text(PathText(d))>> \o (IF d.key /\ ~d.object THEN <<Hole("Key")>> ELSE <<>>)
             query == <<Section(QuerySection)>>
             params == [n \in DOMAIN d.query |-> Param(d.query[n])]
  <2>1. /\ UrlLayout(d) = start \o path \o key \o query \o params
        /\ start \in Seq(Still) /\ key \in Seq(Still) /\ params \in Seq(Ops)
        /\ \A n \in 1 .. Len(params) : params[n].op = "param"
    BY UrlLayoutIs
  <2>2. Goes(path, <<0, 0>>, <<1, 0>>) /\ Goes(query, <<1, 0>>, <<2, 0>>)
    BY SectionsGo
  <2> HIDE DEF start, path, key, query, params
  <2>3. Goes(start, <<0, 0>>, <<0, 0>>) /\ Goes(key, <<1, 0>>, <<1, 0>>) /\ Goes(params, <<2, 0>>, <<2, 0>>)
    BY <2>1, StagesAre, GoesStill, GoesParams
  <2>4. Goes(start \o path, <<0, 0>>, <<1, 0>>)
    BY <2>2, <2>3, GoesOn
  <2>5. Goes(start \o path \o key, <<0, 0>>, <<1, 0>>)
    BY <2>3, <2>4, GoesOn
  <2>6. Goes(start \o path \o key \o query, <<0, 0>>, <<2, 0>>)
    BY <2>2, <2>5, GoesOn
  <2>7. Goes(start \o path \o key \o query \o params, <<0, 0>>, <<2, 0>>)
    BY <2>3, <2>6, GoesOn
  <2> QED BY <2>1, <2>7
<1>2. Heads(HeadLayout(d))
  BY S3HeadIs, AzureHeadIs DEF HeadLayout
<1>3. (d.service = "s3" => Signs(SignedLayout(d))) /\ (d.service # "s3" => SignedLayout(d) = <<>>)
  BY S3CanonicalIs DEF SignedLayout
<1> DEFINE section == <<Section(BodySection)>>
           body == CASE d.body = "none" -> <<>>
                     [] d.body = "fixed" -> <<Text(BodyText)>>
                     [] d.body = "each" -> <<Hole("Body")>>
<1>4. body \in Seq(Still)
  <2>1. "Body" \in Words
    BY DEF Words
  <2>2. <<Text(BodyText)>> \in Seq(Still) /\ <<Hole("Body")>> \in Seq(Still) /\ <<>> \in Seq(Still)
    BY <2>1, WordingIs, StillIs, StillIn
  <2> QED BY <2>2 DEF Described
<1>5. BodyLayout(d) = section \o body
  BY DEF BodyLayout
<1>6. Tail(section \o body) = body
  <2>0. Section(BodySection) \in Ops /\ Still \subseteq Ops
    BY OpIs DEF BodySection, Sections
  <2>1. body \in Seq(Ops) /\ Section(BodySection) \in Ops
    <3> HIDE DEF body
    <3> QED BY <1>4, <2>0, SeqOfMore
  <2> HIDE DEF body
  <2>2. section \in Seq(Ops) /\ Len(section) = 1 /\ section \o body # <<>>
    BY <2>1
  <2>3. /\ section \o body \in Seq(Ops) /\ Len(section \o body) = 1 + Len(body)
        /\ \A i \in 1 .. Len(body) : (section \o body)[1 + i] = body[i]
    BY <2>1, <2>2, ConcatProperties
  <2> HIDE DEF section
  <2>4. Tail(section \o body) \in Seq(Ops) /\ Len(Tail(section \o body)) = Len(body)
        /\ \A i \in 1 .. Len(body) : Tail(section \o body)[i] = body[i]
    <3> DEFINE whole == section \o body
    <3>1. whole \in Seq(Ops) /\ whole # <<>> /\ Len(whole) = 1 + Len(body) /\ Len(body) \in Nat
      BY <2>1, <2>2, <2>3
    <3>2. \A i \in 1 .. Len(body) : whole[1 + i] = body[i]
      BY <2>3
    <3> HIDE DEF whole
    <3>3. Tail(whole) \in Seq(Ops) /\ Len(Tail(whole)) = Len(body)
          /\ \A i \in 1 .. Len(body) : Tail(whole)[i] = whole[i + 1]
      BY <3>1
    <3>4. \A i \in 1 .. Len(body) : i + 1 = 1 + i
      BY <3>1
    <3> QED BY <3>2, <3>3, <3>4 DEF whole
  <2> QED BY <2>1, <2>4, SeqEqual
<1> HIDE DEF section, body
<1>7. \A s \in {3, 4} : Goes(BodyLayout(d), <<s, 1>>, <<5, 1>>)
  <2>1. Goes(section, <<3, 1>>, <<5, 1>>) /\ Goes(section, <<4, 1>>, <<5, 1>>)
    BY SectionsGo DEF section
  <2>2. Goes(body, <<5, 1>>, <<5, 1>>)
    BY <1>4, StagesAre, GoesStill
  <2>3. Goes(section \o body, <<3, 1>>, <<5, 1>>) /\ Goes(section \o body, <<4, 1>>, <<5, 1>>)
    BY <2>1, <2>2, GoesOn
  <2> QED BY <1>5, <2>3
<1> QED BY <1>1, <1>2, <1>3, <1>4, <1>5, <1>6, <1>7 DEF section

\* A whole layout goes from the start to the body.
LEMMA LayoutGoes ==
  ASSUME NEW d, Described(d)
  PROVE  Goes(LayoutOf(d), <<0, 0>>, <<5, 1>>)
<1>1. Goes(HeadLayout(d), <<2, 0>>, <<3, 1>>) /\ Goes(UrlLayout(d), <<0, 0>>, <<2, 0>>)
      /\ Goes(BodyLayout(d), <<3, 1>>, <<5, 1>>) /\ Goes(BodyLayout(d), <<4, 1>>, <<5, 1>>)
  BY PartsGo DEF Heads, BeginsHead
<1>2. Goes(AfterUrl(d), <<2, 0>>, <<5, 1>>)
  <2>1. CASE d.service = "s3"
    <3>1. Goes(SignedLayout(d), <<3, 1>>, <<4, 1>>)
      BY <2>1, PartsGo DEF Signs
    <3>2. Goes(HeadLayout(d) \o SignedLayout(d), <<2, 0>>, <<4, 1>>)
      BY <1>1, <3>1, GoesOn
    <3> QED BY <1>1, <3>2, GoesOn DEF AfterUrl
  <2>2. CASE d.service # "s3"
    <3>1. Goes(SignedLayout(d), <<3, 1>>, <<3, 1>>)
      BY <2>2, PartsGo, StagesAre, StillIn, GoesStill
    <3>2. Goes(HeadLayout(d) \o SignedLayout(d), <<2, 0>>, <<3, 1>>)
      BY <1>1, <3>1, GoesOn
    <3> QED BY <1>1, <3>2, GoesOn DEF AfterUrl
  <2> QED BY <2>1, <2>2
<1> QED BY <1>1, <1>2, GoesOn DEF LayoutOf

\* Every layout is a sequence of operations.
LEMMA LayoutIn ==
  ASSUME NEW d, Described(d)
  PROVE  LayoutOf(d) \in Seq(Ops)
BY LayoutGoes DEF Goes

-----------------------------------------------------------------------------
(* The Builder.                                                            *)

StepsKept == [len : Nat, hole : Words, name : Nat, ends : SUBSET Nat]

\* A step of each count.
CountOf(counts) == counts[0] + counts[1] + counts[2] + counts[3] + counts[4] + counts[5]

\* A builder: an open step is there, and each step is counted in a section.
BuilderRecords ==
  [text : Wording, steps : Seq(StepsKept), counts : [0 .. Sections - 1 -> Nat],
   section : 0 .. Sections - 1, open : BOOLEAN, fields : Nat \X Nat, params : Nat,
   optional : BOOLEAN]
Builders ==
  {b \in BuilderRecords : (b.open => b.steps # <<>>) /\ CountOf(b.counts) = Len(b.steps)}

LEMMA EmptyStepKept == EmptyStep \in StepsKept /\ \A n \in Nat : [EmptyStep EXCEPT !.len = n] \in StepsKept
<1>1. "none" \in Words
  BY DEF Words
<1> HIDE DEF Words
<1> QED BY <1>1 DEF EmptyStep, StepsKept, NoHole

LEMMA HoledStepKept ==
  ASSUME NEW hole \in Words
  PROVE  [EmptyStep EXCEPT !.hole = hole] \in StepsKept
BY DEF EmptyStep, StepsKept, NoHole

\* One more step in a section.
LEMMA CountMore ==
  ASSUME NEW counts \in [0 .. Sections - 1 -> Nat], NEW section \in 0 .. Sections - 1
  PROVE  /\ [counts EXCEPT ![section] = @ + 1] \in [0 .. Sections - 1 -> Nat]
         /\ CountOf([counts EXCEPT ![section] = @ + 1]) = CountOf(counts) + 1
         /\ CountOf(counts) \in Nat
<1> USE DEF Sections
<1> DEFINE more == [counts EXCEPT ![section] = @ + 1]
<1>1. more \in [0 .. Sections - 1 -> Nat]
  BY DEF Sections
<1>2. \A s \in 0 .. 5 : counts[s] \in Nat /\ more[s] = IF s = section THEN counts[s] + 1 ELSE counts[s]
  BY DEF Sections
<1>3. section \in {0, 1, 2, 3, 4, 5}
  BY DEF Sections
<1>4. /\ counts[0] \in Nat /\ counts[1] \in Nat /\ counts[2] \in Nat /\ counts[3] \in Nat
      /\ counts[4] \in Nat /\ counts[5] \in Nat
  BY <1>2
<1>5. /\ more[0] = IF section = 0 THEN counts[0] + 1 ELSE counts[0]
      /\ more[1] = IF section = 1 THEN counts[1] + 1 ELSE counts[1]
      /\ more[2] = IF section = 2 THEN counts[2] + 1 ELSE counts[2]
      /\ more[3] = IF section = 3 THEN counts[3] + 1 ELSE counts[3]
      /\ more[4] = IF section = 4 THEN counts[4] + 1 ELSE counts[4]
      /\ more[5] = IF section = 5 THEN counts[5] + 1 ELSE counts[5]
  BY <1>2
<1>6. /\ more[0] \in Nat /\ more[1] \in Nat /\ more[2] \in Nat /\ more[3] \in Nat
      /\ more[4] \in Nat /\ more[5] \in Nat
  BY <1>4, <1>5
<1> HIDE DEF more
<1>7. CountOf(more) = CountOf(counts) + 1
  <2>1. more[0] + more[1] + more[2] + more[3] + more[4] + more[5]
          = counts[0] + counts[1] + counts[2] + counts[3] + counts[4] + counts[5] + 1
    BY <1>3, <1>4, <1>5, <1>6
  <2> QED BY <2>1 DEF CountOf
<1>8. CountOf(counts) \in Nat
  BY <1>4 DEF CountOf
<1> QED BY <1>1, <1>7, <1>8 DEF more

LEMMA PushInKept ==
  ASSUME NEW b \in Builders, NEW section \in 0 .. Sections - 1, NEW step \in StepsKept
  PROVE  /\ PushIn(b, section, step) \in Builders
         /\ Len(PushIn(b, section, step).steps) > 0
         /\ PushIn(b, section, step).section = b.section
         /\ PushIn(b, section, step).open = b.open
<1> DEFINE p == PushIn(b, section, step)
           more == [b.counts EXCEPT ![section] = @ + 1]
<1>1. b \in BuilderRecords /\ CountOf(b.counts) = Len(b.steps)
  BY DEF Builders
<1>2. more \in [0 .. Sections - 1 -> Nat] /\ CountOf(more) = CountOf(b.counts) + 1
  BY <1>1, CountMore DEF BuilderRecords
<1>3. Append(b.steps, step) \in Seq(StepsKept) /\ Len(Append(b.steps, step)) = Len(b.steps) + 1
      /\ Len(b.steps) \in Nat
  BY <1>1 DEF BuilderRecords
<1>4. p = [b EXCEPT !.steps = Append(b.steps, step), !.counts = more]
  BY <1>1 DEF PushIn, BuilderRecords
<1> HIDE DEF more, p
<1>5. p \in BuilderRecords /\ p.steps = Append(b.steps, step) /\ p.counts = more /\ p.section = b.section
      /\ p.open = b.open
  BY <1>1, <1>2, <1>3, <1>4 DEF BuilderRecords
<1>6. p.steps # <<>>
  BY <1>3, <1>5
<1> QED BY <1>1, <1>2, <1>3, <1>5, <1>6 DEF Builders, p

\* A step changed in place.
Changed(b, n, step) == [b EXCEPT !.steps = [b.steps EXCEPT ![n] = step]]

LEMMA ChangedKept ==
  ASSUME NEW b \in Builders, NEW n \in 1 .. Len(b.steps), NEW step \in StepsKept
  PROVE  /\ Changed(b, n, step) \in Builders /\ Len(Changed(b, n, step).steps) = Len(b.steps)
         /\ Changed(b, n, step).section = b.section /\ Changed(b, n, step).open = b.open
<1> DEFINE steps == [b.steps EXCEPT ![n] = step]
<1>1. b \in BuilderRecords /\ CountOf(b.counts) = Len(b.steps)
  BY DEF Builders
<1>2. steps \in Seq(StepsKept) /\ Len(steps) = Len(b.steps) /\ (b.steps # <<>> => steps # <<>>)
  <2>1. b.steps \in Seq(StepsKept) /\ Len(b.steps) \in Nat
    BY <1>1 DEF BuilderRecords
  <2>2. steps \in [1 .. Len(b.steps) -> StepsKept]
    BY <2>1
  <2>3. steps \in Seq(StepsKept) /\ Len(steps) = Len(b.steps)
    BY <2>1, <2>2, FunctionIsSeq
  <2> QED BY <2>1, <2>3
<1> HIDE DEF steps
<1>3. Changed(b, n, step) = [b EXCEPT !.steps = steps]
  BY DEF Changed, steps
<1> QED BY <1>1, <1>2, <1>3 DEF Builders, BuilderRecords

LEMMA EndSectionKept ==
  ASSUME NEW b \in Builders, NEW section \in 0 .. Sections - 1
  PROVE  EndSection(b, section) \in Builders
<1> DEFINE closed == IF b.open /\ section = b.section THEN b ELSE PushIn(b, section, EmptyStep)
           n == Len(closed.steps)
           step == [closed.steps[n] EXCEPT !.ends = closed.steps[n].ends \cup {section}]
<1>1. closed \in Builders /\ n \in 1 .. n
  <2>1. CASE b.open /\ section = b.section
    BY <2>1 DEF Builders, BuilderRecords
  <2>2. CASE ~ (b.open /\ section = b.section)
    <3>1. PushIn(b, section, EmptyStep) \in Builders /\ Len(PushIn(b, section, EmptyStep).steps) > 0
      BY EmptyStepKept, PushInKept
    <3> QED BY SMTT(20), <2>2, <3>1 DEF Builders, BuilderRecords
  <2> QED BY <2>1, <2>2
<1>2. EndSection(b, section) = [closed EXCEPT !.steps[n].ends = @ \cup {section}]
  BY DEF EndSection, LastStep
<1> HIDE DEF closed
<1>3. closed.steps \in Seq(StepsKept) /\ closed \in BuilderRecords
  BY <1>1 DEF Builders, BuilderRecords
<1>4. closed.steps[n] \in StepsKept
  BY <1>1, <1>3
<1>5. step \in StepsKept
  BY <1>4 DEF StepsKept, Sections
<1>6. [closed EXCEPT !.steps[n].ends = @ \cup {section}] = Changed(closed, n, step)
  BY <1>1, <1>3, <1>4 DEF Changed, BuilderRecords
<1> QED BY <1>1, <1>2, <1>5, <1>6, ChangedKept

\* The sections that are ended, one after the other.
EndSteps(from, k) == [n \in 1 .. k |-> [x \in Builders |-> EndSection(x, from + n - 1)]]

LEMMA EndSectionsRun ==
  ASSUME NEW b \in Builders, NEW until \in 0 .. Sections
  PROVE  LET k == Difference(until, b.section)
         IN  \E r : Runs(r, k, Builders, b, EndSteps(b.section, k)) /\ EndSections(b, until) = r[k]
<1> DEFINE k == Difference(until, b.section)
           seq == [n \in 1 .. k |-> b.section + n - 1]
           Eq(f) == f = [s \in SUBSET DOMAIN seq |->
                           IF s = {} THEN b ELSE EndSection(f[s \ {Max(s)}], seq[Max(s)])]
           f == CHOOSE f : Eq(f)
           step == EndSteps(b.section, k)
<1>0. k \in Nat /\ DOMAIN seq = 1 .. k /\ \A n \in 1 .. k : seq[n] \in 0 .. Sections - 1
  <2>1. b.section \in 0 .. 5
    BY DEF Builders, BuilderRecords, Sections
  <2>2. k = IF until > b.section THEN until - b.section ELSE 0
    BY DEF Difference
  <2> HIDE DEF k
  <2> QED BY SMTT(20), <2>1, <2>2 DEF Sections
<1>1. EndSections(b, until) = f[1 .. k]
  BY <1>0 DEF EndSections, FoldLeft, MapThenFoldSet
<1>1a. \A n \in 1 .. k : seq[n] = b.section + n - 1
  OBVIOUS
<1> HIDE DEF k, seq
<1>1b. \A n \in 1 .. k : \A x \in Builders : step[n][x] = EndSection(x, seq[n])
  BY <1>1a DEF EndSteps
<1>2. step \in StepsOver(k, Builders)
  <2>1. \A n \in 1 .. k : \A x \in Builders : EndSection(x, b.section + n - 1) \in Builders
    BY <1>0, <1>1a, EndSectionKept
  <2> QED BY <2>1 DEF StepsOver, EndSteps
<1> HIDE DEF step
<1>3. PICK g : Solves(g, k, Builders, b, step)
  <2> HIDE DEF step
  <2> QED BY <1>0, <1>2, FoldExists
<1>4. Eq(g)
  <2>1. \A s \in SUBSET (1 .. k) : s # {} => g[s] = EndSection(g[s \ {Max(s)}], seq[Max(s)])
    <3> SUFFICES ASSUME NEW s \in SUBSET (1 .. k), s # {}
                 PROVE  g[s] = EndSection(g[s \ {Max(s)}], seq[Max(s)])
      OBVIOUS
    <3>1. Max(s) \in 1 .. k /\ g[s \ {Max(s)}] \in Builders
      BY <1>3 DEF Solves
    <3> QED BY <3>1, <1>3, <1>1b DEF Solves
  <2> QED BY <1>0, <1>3, <2>1 DEF Solves
<1>5. Eq(f)
  <2> HIDE DEF Eq
  <2> QED BY <1>4, Zenon
<1> HIDE DEF f
<1>6. Folds(f, k, Builders, b, step)
  BY <1>0, <1>1b, <1>5 DEF Folds
<1>7. PICK r : Runs(r, k, Builders, b, step) /\ f[1 .. k] = r[k]
  <2> HIDE DEF step
  <2> QED BY <1>0, <1>2, <1>6, FoldRuns
<1> QED BY <1>1, <1>7 DEF k, step

LEMMA EndSectionsKept ==
  ASSUME NEW b \in Builders, NEW until \in 0 .. Sections
  PROVE  EndSections(b, until) \in Builders
<1> DEFINE k == Difference(until, b.section)
<1>1. k \in Nat
  <2>1. b.section \in Nat /\ until \in Nat
    BY SMTT(20) DEF Builders, BuilderRecords, Sections
  <2> QED BY <2>1 DEF Difference
<1>2. PICK r : Runs(r, k, Builders, b, EndSteps(b.section, k)) /\ EndSections(b, until) = r[k]
  BY EndSectionsRun
<1> HIDE DEF k
<1> QED BY <1>1, <1>2 DEF Runs

LEMMA BuildSectionKept ==
  ASSUME NEW b \in Builders, NEW section \in 0 .. Sections - 1
  PROVE  BuildSection(b, section) \in Builders
<1>1. EndSections(b, section) \in Builders
  BY EndSectionsKept DEF Sections
<1> QED BY <1>1 DEF BuildSection, Builders, BuilderRecords

LEMMA StashKept ==
  ASSUME NEW b \in Builders, NEW text \in Wording
  PROVE  Stash(b, text) \in Builders
<1>1. b.text \o text \in Wording
  BY WordingIs DEF Builders, BuilderRecords
<1> QED BY <1>1 DEF Stash, Builders, BuilderRecords

LEMMA BuildTextKept ==
  ASSUME NEW b \in Builders, NEW text \in Wording
  PROVE  BuildText(b, text) \in Builders
<1> DEFINE written == [b EXCEPT !.text = @ \o text]
           n == Len(b.steps)
           longer == [b.steps[n] EXCEPT !.len = b.steps[n].len + Len(text)]
           pushed == PushIn(written, b.section, [EmptyStep EXCEPT !.len = Len(text)])
<1>1. written \in Builders /\ written.open = b.open /\ written.steps = b.steps
  <2>1. b.text \o text \in Wording
    BY WordingIs DEF Builders, BuilderRecords
  <2> QED BY <2>1 DEF Builders, BuilderRecords
<1>2. Len(text) \in Nat
  BY DEF Wording
<1>3. CASE text = <<>>
  BY <1>3 DEF BuildText
<1>4. CASE text # <<>> /\ b.open
  <2>1. n \in 1 .. n /\ b.steps \in Seq(StepsKept)
    BY <1>4 DEF Builders, BuilderRecords
  <2>2. b.steps[n] \in StepsKept
    BY <2>1
  <2>3. longer \in StepsKept
    BY <1>2, <2>2 DEF StepsKept
  <2>4. BuildText(b, text) = [written EXCEPT !.steps[n].len = @ + Len(text)]
    BY <1>4 DEF BuildText, LastStep
  <2> HIDE DEF written
  <2>5. [written EXCEPT !.steps[n].len = @ + Len(text)] = Changed(written, n, longer)
    BY <1>1, <2>1, <2>2 DEF Changed, Builders, BuilderRecords
  <2> QED BY <1>1, <2>1, <2>3, <2>4, <2>5, ChangedKept
<1>5. CASE text # <<>> /\ ~ b.open
  <2>1. b.section \in 0 .. Sections - 1
    BY DEF Builders, BuilderRecords
  <2>2. pushed \in Builders /\ Len(pushed.steps) > 0
    BY <1>1, <1>2, <2>1, EmptyStepKept, PushInKept
  <2>3. BuildText(b, text) = [pushed EXCEPT !.open = TRUE]
    BY <1>5 DEF BuildText
  <2> HIDE DEF pushed
  <2>4. pushed.steps # <<>>
    BY <2>2 DEF Builders, BuilderRecords
  <2> QED BY <2>2, <2>3, <2>4 DEF Builders, BuilderRecords
<1> QED BY <1>3, <1>4, <1>5 DEF Builders, BuilderRecords

LEMMA BuildHoleKept ==
  ASSUME NEW b \in Builders, NEW hole \in Words
  PROVE  BuildHole(b, hole) \in Builders /\ Len(BuildHole(b, hole).steps) > 0
<1> DEFINE n == Len(b.steps)
           step == [b.steps[n] EXCEPT !.hole = hole]
           pushed == PushIn(b, b.section, [EmptyStep EXCEPT !.hole = hole])
<1>1. CASE b.open
  <2>1. n \in 1 .. n /\ b.steps \in Seq(StepsKept)
    BY <1>1 DEF Builders, BuilderRecords
  <2>2. b.steps[n] \in StepsKept
    BY <2>1
  <2>3. step \in StepsKept
    BY <2>2 DEF StepsKept
  <2>4. BuildHole(b, hole) = [Changed(b, n, step) EXCEPT !.open = FALSE]
    BY <1>1, <2>1, <2>2 DEF BuildHole, LastStep, Changed, Builders, BuilderRecords
  <2>5. Changed(b, n, step) \in Builders /\ Len(Changed(b, n, step).steps) > 0
    BY <2>1, <2>3, ChangedKept
  <2> HIDE DEF step
  <2> QED BY <2>4, <2>5 DEF Builders, BuilderRecords
<1>2. CASE ~ b.open
  <2>1. b.section \in 0 .. Sections - 1
    BY DEF Builders, BuilderRecords
  <2>2. pushed \in Builders /\ Len(pushed.steps) > 0
    BY <2>1, HoledStepKept, PushInKept
  <2>3. BuildHole(b, hole) = [pushed EXCEPT !.open = FALSE]
    BY <1>2 DEF BuildHole
  <2> HIDE DEF pushed
  <2> QED BY <2>2, <2>3 DEF Builders, BuilderRecords
<1> QED BY <1>1, <1>2 DEF Builders, BuilderRecords

LEMMA BuildFieldsKept ==
  ASSUME NEW b \in Builders
  PROVE  BuildFields(b) \in Builders
<1> DEFINE n == Len(b.steps)
           fields == IF b.open THEN <<n - 1, b.steps[n].len>> ELSE <<n, 0>>
<1>1. b.steps \in Seq(StepsKept) /\ n \in Nat /\ (b.open => n \in 1 .. n)
  BY DEF Builders, BuilderRecords
<1>2. b.open => b.steps[n].len \in Nat
  <2>1. b.open => b.steps[n] \in StepsKept
    BY <1>1
  <2> QED BY <2>1 DEF StepsKept
<1>3. fields \in Nat \X Nat
  BY <1>1, <1>2
<1>4. BuildFields(b) = [b EXCEPT !.fields = fields]
  BY DEF BuildFields, LastStep
<1> HIDE DEF fields
<1> QED BY <1>3, <1>4 DEF Builders, BuilderRecords

LEMMA ParamMore ==
  ASSUME NEW b \in Builders
  PROVE  [b EXCEPT !.params = @ + 1] \in Builders
<1> DEFINE m == [b EXCEPT !.params = @ + 1]
<1>1. b \in BuilderRecords /\ CountOf(b.counts) = Len(b.steps) /\ (b.open => b.steps # <<>>)
  BY DEF Builders
<1>2. m \in BuilderRecords
  BY SMTT(20), <1>1 DEF BuilderRecords
<1>3. m.open = b.open /\ m.steps = b.steps /\ m.counts = b.counts
  BY <1>1 DEF BuilderRecords
<1> HIDE DEF m
<1>4. m \in Builders
  BY <1>1, <1>2, <1>3 DEF Builders
<1> QED BY <1>4 DEF m

LEMMA BuildSeparatorKept ==
  ASSUME NEW b \in Builders
  PROVE  BuildSeparator(b) \in Builders
<1> DEFINE mark == IF b.params = 0 THEN <<"?">> ELSE <<"&">>
<1>1. {"Separator", "?", "&"} \subseteq Words
  BY DEF Words
<1>2. mark \in Wording
  BY <1>1, WordingIs
<1>3. BuildHole(b, "Separator") \in Builders
  BY <1>1, BuildHoleKept
<1>4. BuildText(b, mark) \in Builders
  BY <1>2, BuildTextKept
<1>5. BuildSeparator(b) = IF b.optional THEN BuildHole(b, "Separator")
                          ELSE [BuildText(b, mark) EXCEPT !.params = @ + 1]
  BY DEF BuildSeparator
<1> DEFINE t == BuildText(b, mark)
<1> HIDE DEF mark
<1>6. t \in Builders
  BY <1>4
<1>7. CASE b.optional
  BY <1>3, <1>5, <1>7
<1>8. CASE ~ b.optional
  <2>1. BuildSeparator(b) = [t EXCEPT !.params = @ + 1]
    BY <1>5, <1>8
  <2> HIDE DEF t
  <2> QED BY <1>6, <2>1, ParamMore
<1> QED BY <1>7, <1>8

LEMMA BuildParamKept ==
  ASSUME NEW b \in Builders, NEW param \in Parameters
  PROVE  BuildParam(b, param) \in Builders
<1>1. /\ param.mode \in {"fixed", "hole", "optional"} /\ param.name \in Words
      /\ param.value \in Wording /\ param.hole \in Words /\ "=" \in Words
  BY DEF Parameters, Words
<1>2. <<param.name, "=">> \in Wording /\ <<param.name>> \in Wording
  BY <1>1, Few DEF Wording
<1>3. <<param.name, "=">> \o param.value \in Wording
  BY <1>1, <1>2, WordingIs
<1>4. BuildText(BuildSeparator(b), <<param.name, "=">> \o param.value) \in Builders
  BY <1>3, BuildSeparatorKept, BuildTextKept
<1>5. BuildHole(BuildText(BuildSeparator(b), <<param.name, "=">>), param.hole) \in Builders
  BY <1>1, <1>2, BuildSeparatorKept, BuildTextKept, BuildHoleKept
<1>6. ASSUME param.mode = "optional"
      PROVE  BuildParam(b, param) \in Builders
  <2> DEFINE filled == BuildHole([b EXCEPT !.optional = TRUE], param.hole)
             n == Len(filled.steps)
             written == [filled EXCEPT !.text = filled.text \o <<param.name>>]
             step == [filled.steps[n] EXCEPT !.name = 1]
  <2>1. [b EXCEPT !.optional = TRUE] \in Builders
    BY DEF Builders, BuilderRecords
  <2>2. filled \in Builders /\ n > 0
    BY <1>1, <2>1, BuildHoleKept
  <2>3. BuildParam(b, param) =
          [filled EXCEPT !.text = @ \o <<param.name>>, !.steps[n].name = 1]
    BY <1>6 DEF BuildParam, LastStep
  <2> HIDE DEF filled
  <2>4. written \in Builders /\ written.steps = filled.steps
    <3>1. filled.text \o <<param.name>> \in Wording
      BY <1>2, <2>2, WordingIs DEF Builders, BuilderRecords
    <3> QED BY <2>2, <3>1 DEF Builders, BuilderRecords
  <2>5. n \in 1 .. n /\ filled.steps \in Seq(StepsKept)
    BY <2>2 DEF Builders, BuilderRecords
  <2>6. filled.steps[n] \in StepsKept
    BY <2>5
  <2>7. step \in StepsKept
    BY <2>6 DEF StepsKept
  <2>8. BuildParam(b, param) = Changed(written, n, step)
    BY <2>2, <2>3, <2>5, <2>6 DEF Changed, Builders, BuilderRecords
  <2> HIDE DEF step, written
  <2> QED BY <2>4, <2>5, <2>7, <2>8, ChangedKept
<1>7. CASE param.mode = "fixed"
  BY <1>4, <1>7 DEF BuildParam
<1>8. CASE param.mode = "hole"
  BY <1>5, <1>8 DEF BuildParam
<1> QED BY <1>1, <1>6, <1>7, <1>8

\* Every operation of a layout keeps a builder what it is.
LEMMA OpIsOneOf ==
  ASSUME NEW op \in Ops
  PROVE  \/ op.op = "section" /\ op.section \in 0 .. Sections - 1
         \/ op.op = "text" /\ op.text \in Wording
         \/ op.op = "hole" /\ op.hole \in Words
         \/ op.op = "fields"
         \/ op.op = "param" /\ op.param \in Parameters
<1>1. CASE \E section \in 0 .. Sections - 1 : op = Section(section)
  BY <1>1 DEF Section
<1>2. CASE \E text \in Wording : op = Text(text)
  BY <1>2 DEF Text
<1>3. CASE \E hole \in Words : op = Hole(hole)
  BY <1>3 DEF Hole
<1>4. CASE op = Fields
  BY <1>4 DEF Fields
<1>5. CASE \E param \in Parameters : op = Param(param)
  BY <1>5 DEF Param
<1> QED BY <1>1, <1>2, <1>3, <1>4, <1>5 DEF Ops

LEMMA BuildKept ==
  ASSUME NEW b \in Builders, NEW op \in Ops
  PROVE  Build(b, op) \in Builders
<1>1. CASE op.op = "section" /\ op.section \in 0 .. Sections - 1
  BY <1>1, BuildSectionKept DEF Build
<1>2. CASE op.op = "text" /\ op.text \in Wording
  BY <1>2, BuildTextKept DEF Build
<1>3. CASE op.op = "hole" /\ op.hole \in Words
  BY <1>3, BuildHoleKept DEF Build
<1>4. CASE op.op = "fields"
  BY <1>4, BuildFieldsKept DEF Build
<1>5. CASE op.op = "param" /\ op.param \in Parameters
  BY <1>5, BuildParamKept DEF Build
<1> QED BY <1>1, <1>2, <1>3, <1>4, <1>5, OpIsOneOf

\* A whole layout, prepared.
LEMMA NewBuilderKept == NewBuilder \in Builders
<1> DEFINE counts == [s \in 0 .. Sections - 1 |-> 0]
<1>1. counts \in [0 .. Sections - 1 -> Nat] /\ CountOf(counts) = 0
  BY DEF CountOf, Sections
<1>2. <<>> \in Wording /\ <<>> \in Seq(StepsKept)
  BY DEF Wording
<1>3. <<MaxSteps + 1, 0>> \in Nat \X Nat
  BY EngineAssumption
<1>4. NewBuilder = [text |-> <<>>, steps |-> <<>>, counts |-> counts,
                    section |-> OriginSection, open |-> FALSE, fields |-> <<MaxSteps + 1, 0>>,
                    params |-> 0, optional |-> FALSE]
  BY DEF NewBuilder
<1>5. OriginSection \in 0 .. Sections - 1
  BY DEF OriginSection, Sections
<1> DEFINE fields == <<MaxSteps + 1, 0>>
<1>6. fields \in Nat \X Nat
  BY <1>3
<1> HIDE DEF counts, fields
<1>7. NewBuilder \in BuilderRecords /\ CountOf(NewBuilder.counts) = Len(NewBuilder.steps)
      /\ ~ NewBuilder.open
  <2>1. NewBuilder = [text |-> <<>>, steps |-> <<>>, counts |-> counts,
                      section |-> OriginSection, open |-> FALSE, fields |-> fields,
                      params |-> 0, optional |-> FALSE]
    BY <1>4 DEF fields
  <2> QED BY <2>1, <1>1, <1>2, <1>5, <1>6 DEF BuilderRecords
<1> QED BY <1>7 DEF Builders

LEMMA BuildAllKept ==
  ASSUME NEW layout \in Seq(Ops)
  PROVE  FoldLeft(Build, NewBuilder, layout) \in Builders
<1> DEFINE k == Len(layout)
           Eq(f) == f = [s \in SUBSET DOMAIN layout |->
                           IF s = {} THEN NewBuilder ELSE Build(f[s \ {Max(s)}], layout[Max(s)])]
           f == CHOOSE f : Eq(f)
           step == [n \in 1 .. k |-> [x \in Builders |-> Build(x, layout[n])]]
<1>0. k \in Nat /\ DOMAIN layout = 1 .. k /\ \A n \in 1 .. k : layout[n] \in Ops
  OBVIOUS
<1>1. FoldLeft(Build, NewBuilder, layout) = f[1 .. k]
  BY <1>0 DEF FoldLeft, MapThenFoldSet
<1> HIDE DEF k
<1>2. step \in StepsOver(k, Builders)
  BY <1>0, BuildKept DEF StepsOver
<1>3. PICK g : Solves(g, k, Builders, NewBuilder, step)
  <2> HIDE DEF step
  <2> QED BY <1>0, <1>2, FoldExists, NewBuilderKept
<1>4. Eq(g)
  <2>1. \A s \in SUBSET (1 .. k) : s # {} => g[s] = Build(g[s \ {Max(s)}], layout[Max(s)])
    <3> SUFFICES ASSUME NEW s \in SUBSET (1 .. k), s # {}
                 PROVE  g[s] = Build(g[s \ {Max(s)}], layout[Max(s)])
      OBVIOUS
    <3>1. Max(s) \in 1 .. k /\ g[s \ {Max(s)}] \in Builders
      BY <1>3 DEF Solves
    <3> QED BY <3>1, <1>3 DEF Solves
  <2> QED BY <1>0, <1>3, <2>1 DEF Solves
<1>5. Eq(f)
  <2> HIDE DEF Eq
  <2> QED BY <1>4, Zenon
<1> HIDE DEF f
<1>6. Folds(f, k, Builders, NewBuilder, step)
  BY <1>0, <1>5 DEF Folds
<1>7. PICK r : Runs(r, k, Builders, NewBuilder, step) /\ f[1 .. k] = r[k]
  <2> HIDE DEF step
  <2> QED BY <1>0, <1>2, <1>6, FoldRuns, NewBuilderKept
<1> QED BY <1>0, <1>1, <1>7 DEF Runs

\* What a template is: where its table starts, how many steps it has, and that
\* each is counted.
Bytes == [text : Wording, steps : Seq(StepsKept)]
IsTable(table) ==
  /\ table.start \in Nat /\ table.total \in Nat /\ table.params \in Nat
  /\ table.counts \in [0 .. Sections - 1 -> Nat]
  /\ CountOf(table.counts) = table.total
  /\ table.fields[1] \in Nat /\ table.fields[2] \in Nat

LEMMA FinishIs ==
  ASSUME NEW b \in Builders
  PROVE  Finish(b).bytes \in Bytes /\ IsTable(Finish(b).table)
<1> DEFINE ended == EndSections(b, Sections)
<1>1. ended \in Builders
  BY EndSectionsKept DEF Sections
<1>2. /\ Finish(b).bytes = [text |-> ended.text, steps |-> ended.steps]
      /\ Finish(b).table.start = Len(ended.text)
      /\ Finish(b).table.total = Len(ended.steps)
      /\ Finish(b).table.counts = ended.counts
      /\ Finish(b).table.params = ended.params
      /\ Finish(b).table.fields = ended.fields
  BY DEF Finish
<1> HIDE DEF ended
<1>3. /\ ended.text \in Wording /\ ended.steps \in Seq(StepsKept)
      /\ ended.counts \in [0 .. Sections - 1 -> Nat] /\ ended.params \in Nat
      /\ ended.fields \in Nat \X Nat /\ CountOf(ended.counts) = Len(ended.steps)
  BY <1>1 DEF Builders, BuilderRecords
<1>4. Len(ended.text) \in Nat /\ Len(ended.steps) \in Nat
  BY <1>3 DEF Wording
<1>5. ended.fields[1] \in Nat /\ ended.fields[2] \in Nat
  BY <1>3
<1> QED BY <1>2, <1>3, <1>4, <1>5 DEF Bytes, IsTable

-----------------------------------------------------------------------------
(* A pass.                                                                 *)

\* What a request of a body of len may say: its length is a word of its own.
Told(len) == Words \cup {Decimal(len)[1]}
Said(len) == Seq(Told(len))

\* The placeholders of a request, each known or not there, and those within n.
Places == [start : Nat, len : Nat] \cup {None}
Inside(n, place) == place = None \/ place.start + place.len <= n
AllInside(n, places) == \A i \in 1 .. Len(places) : Inside(n, places[i])

Flags == BOOLEAN

\* A request that is being written: what it holds of offsets lies in its text.
PassRecords(len, unread) ==
  [out : Said(len), ends : [0 .. Sections - 1 -> Nat], fields : Nat, params : Nat,
   bodyLen : {len}, signature : Places, bodyHash : Seq(Places), bodyChecksum : Seq(Places),
   at : Nat, cursor : Nat, section : 0 .. Sections, optional : Flags, failed : Flags,
   unread : {unread}]
Offsets(w) ==
  /\ \A s \in 0 .. Sections - 1 : w.ends[s] <= Len(w.out)
  /\ Inside(Len(w.out), w.signature)
  /\ AllInside(Len(w.out), w.bodyHash)
  /\ AllInside(Len(w.out), w.bodyChecksum)
Passes(len, unread) == {w \in PassRecords(len, unread) : Offsets(w)}

LEMMA SubSeqIn ==
  ASSUME NEW X, NEW seq \in Seq(X), NEW m \in Nat, m > 0, NEW n \in Nat, n <= Len(seq)
  PROVE  SubSeq(seq, m, n) \in Seq(X)
<1>1. CASE m <= n
  <2> DEFINE k == n - m + 1
  <2>1. k \in Nat /\ \A i \in 1 .. k : seq[i + m - 1] \in X
    BY <1>1
  <2>2. SubSeq(seq, m, n) = [i \in 1 .. k |-> seq[i + m - 1]]
    BY <1>1
  <2> QED BY <2>1, <2>2, FunctionIsSeq
<1>2. CASE m > n
  BY <1>2
<1> QED BY <1>1, <1>2

LEMMA SaidIs ==
  ASSUME NEW len
  PROVE  /\ Wording \subseteq Said(len) /\ Decimal(len) \in Said(len)
         /\ \A one, two \in Said(len) : one \o two \in Said(len)
<1>1. Wording \subseteq Said(len)
  BY SeqOfMore DEF Wording, Said, Told
<1>2. PICK x : Decimal(len) = <<x>>
  BY Zenon DEF Decimal
<1>3. Decimal(len) = <<Decimal(len)[1]>>
  BY <1>2
<1>4. Decimal(len) \in Said(len)
  <2> DEFINE first == Decimal(len)[1]
  <2>1. first \in Told(len)
    BY DEF Told
  <2> HIDE DEF first
  <2>2. <<first>> \in Seq(Told(len))
    BY <2>1
  <2> QED BY <1>3, <2>2 DEF Said, first
<1>5. \A one, two \in Said(len) : one \o two \in Said(len)
  BY DEF Said
<1> QED BY <1>1, <1>4, <1>5

\* What a pass repeats of its own text is text.
LEMMA AgainIn ==
  ASSUME NEW len, NEW unread, NEW w \in Passes(len, unread),
         NEW from \in Nat, NEW s \in 0 .. Sections - 1
  PROVE  Again(w, from, w.ends[s]) \in Said(len)
<1>1. w.out \in Seq(Told(len)) /\ w.ends[s] \in Nat /\ w.ends[s] <= Len(w.out)
  BY DEF Passes, PassRecords, Offsets, Said, Sections
<1> QED BY <1>1, SubSeqIn DEF Again, Said

\* A fill whose texts are texts.
LEMMA ValueTextIn ==
  ASSUME NEW f, FillOf(f), NEW hole,
         IF hole \in OptionalHoles THEN hole \in DOMAIN f.params ELSE hole \in DOMAIN f.values
  PROVE  ValueText(hole, f) \in Wording
<1>1. CASE hole \in OptionalHoles
  <2>1. f.params[hole] \in Wording
    BY <1>1, Worded DEF FillOf
  <2>2. hole \notin Encoded
    BY <1>1 DEF OptionalHoles, Encoded, UrlValues
  <2> HIDE DEF Encoded, OptionalHoles
  <2>3. ValueText(hole, f) = Percent(f.params[hole])
    BY <1>1, <2>2 DEF ValueText
  <2> QED BY <2>1, <2>3, PercentIn
<1>2. CASE hole \notin OptionalHoles
  <2>1. f.values[hole] \in Wording
    BY <1>2, Worded DEF FillOf
  <2>2. ValueText(hole, f) \in {Percent(f.values[hole]), f.values[hole]}
    BY <1>2 DEF ValueText
  <2> QED BY <2>1, <2>2, PercentIn
<1> QED BY <1>1, <1>2

LEMMA HoleTextIn ==
  ASSUME NEW len, NEW unread, NEW w \in Passes(len, unread), NEW hole,
         NEW name \in Said(len), NEW f, FillOf(f), CanFill(hole, f)
  PROVE  HoleText(w, hole, name, f) \in Said(len)
<1> DEFINE target == Again(w, w.ends[OriginSection], w.ends[QuerySection])
           path == Again(w, w.ends[OriginSection], w.ends[PathSection])
           query == Again(w, w.ends[PathSection] + 1, w.ends[QuerySection])
           optional == IF LeftOut(hole, f) THEN <<>>
                       ELSE Separator(w) \o name \o <<"=">> \o ValueText(hole, f)
           value == ValueText(hole, f)
           separator == Separator(w)
<1>1. {target, path, query} \subseteq Said(len)
  <2>0. w.ends \in [0 .. Sections - 1 -> Nat]
    BY DEF Passes, PassRecords
  <2>1. \A s \in 0 .. 5 : w.ends[s] \in Nat
    BY <2>0 DEF Sections
  <2>2. /\ w.ends[OriginSection] \in Nat /\ w.ends[PathSection] + 1 \in Nat
        /\ QuerySection \in 0 .. Sections - 1 /\ PathSection \in 0 .. Sections - 1
    BY <2>1 DEF OriginSection, PathSection, QuerySection, Sections
  <2> QED BY <2>2, AgainIn
<1>2. separator \in Said(len) /\ <<"=">> \in Said(len) /\ <<>> \in Said(len)
  <2>1. {"?", "&", "="} \subseteq Words
    BY DEF Words
  <2>2. <<"?">> \in Wording /\ <<"&">> \in Wording /\ <<"=">> \in Wording /\ <<>> \in Wording
    BY <2>1, WordingIs
  <2> QED BY <2>2, SaidIs DEF Separator
<1>3. hole \in OptionalHoles => optional \in Said(len)
  <2> SUFFICES ASSUME hole \in OptionalHoles PROVE optional \in Said(len)
    OBVIOUS
  <2>1. CASE LeftOut(hole, f)
    BY <1>2, <2>1
  <2>2. CASE ~ LeftOut(hole, f)
    <3>1. hole \in DOMAIN f.params
      BY <2>2 DEF LeftOut
    <3>2. value \in Said(len)
      BY <3>1, ValueTextIn, SaidIs
    <3>3. separator \o name \in Said(len)
      BY <1>2, SaidIs
    <3>4. (separator \o name) \o <<"=">> \in Said(len)
      BY <1>2, <3>3, SaidIs
    <3>5. ((separator \o name) \o <<"=">>) \o value \in Said(len)
      BY <3>2, <3>4, SaidIs
    <3> HIDE DEF separator, value
    <3>6. optional = ((separator \o name) \o <<"=">>) \o value
      BY <2>2 DEF separator, value
    <3> QED BY <3>5, <3>6
  <2> QED BY <2>1, <2>2
<1>4. hole \notin OptionalHoles /\ hole \in DOMAIN f.values => value \in Said(len)
  BY ValueTextIn, SaidIs
<1>5. {SignaturePlaceholder, HashPlaceholder, ChecksumPlaceholder, Decimal(len)} \subseteq Said(len)
  BY WordingIs, SaidIs
<1>6. w.bodyLen = len
  BY DEF Passes, PassRecords
<1>7. f.body \in Said(len)
  BY Worded, SaidIs DEF FillOf
<1>8. \/ hole \in {"Target", "Path", "Query", "Signature", "BodyLength", "BodyHash", "Separator",
                   "BodyChecksum", "Body"}
      \/ hole \in OptionalHoles
      \/ hole \in DOMAIN f.values
  BY DEF CanFill
<1> HIDE DEF target, path, query, optional, value, separator
<1>9. HoleText(w, hole, name, f) =
        CASE hole = "Target"       -> target
          [] hole = "Path"         -> path
          [] hole = "Query"        -> query
          [] hole = "Signature"    -> SignaturePlaceholder
          [] hole = "BodyLength"   -> Decimal(len)
          [] hole = "BodyHash"     -> HashPlaceholder
          [] hole = "BodyChecksum" -> ChecksumPlaceholder
          [] hole = "Separator"    -> separator
          [] hole \in OptionalHoles -> optional
          [] hole = "Body"         -> f.body
          [] OTHER -> value
  BY <1>6 DEF HoleText, target, path, query, optional, value, separator
<1> QED BY <1>1, <1>2, <1>3, <1>4, <1>5, <1>7, <1>8, <1>9

\* What lies in a text lies in a longer one.
LEMMA StaysInside ==
  ASSUME NEW n \in Nat, NEW m \in Nat, n <= m
  PROVE  /\ \A place \in Places : Inside(n, place) => Inside(m, place)
         /\ \A places \in Seq(Places) : AllInside(n, places) => AllInside(m, places)
<1>1. \A place \in Places : Inside(n, place) => Inside(m, place)
  BY DEF Inside, Places
<1>2. \A places \in Seq(Places) : AllInside(n, places) => AllInside(m, places)
  <2> SUFFICES ASSUME NEW places \in Seq(Places), AllInside(n, places), NEW i \in 1 .. Len(places)
               PROVE  Inside(m, places[i])
    BY DEF AllInside
  <2>1. places[i] \in Places /\ Inside(n, places[i])
    BY DEF AllInside
  <2> QED BY <1>1, <2>1
<1> QED BY <1>1, <1>2

LEMMA RecordedInside ==
  ASSUME NEW n \in Nat, NEW places \in Seq(Places), AllInside(n, places),
         NEW place \in Places, Inside(n, place), NEW room
  PROVE  /\ Recorded(places, room, place) \in Seq(Places)
         /\ AllInside(n, Recorded(places, room, place))
<1> DEFINE more == Append(places, place)
<1>1. more \in Seq(Places) /\ AllInside(n, more)
  <2>1. more \in Seq(Places) /\ Len(more) = Len(places) + 1
    OBVIOUS
  <2>2. \A i \in 1 .. Len(more) : more[i] = IF i = Len(places) + 1 THEN place ELSE places[i]
    BY <2>1
  <2> HIDE DEF more
  <2>3. \A i \in 1 .. Len(more) : Inside(n, more[i])
    BY <2>1, <2>2 DEF AllInside
  <2> QED BY <2>1, <2>3 DEF AllInside
<1> HIDE DEF more
<1>2. Recorded(places, room, place) \in {more, places}
  BY DEF Recorded, more
<1> QED BY <1>1, <1>2

\* A pass that writes, and marks what it wrote.
Marked(w, out, params, signature, hash, checksum) ==
  [w EXCEPT !.out = out, !.params = params, !.signature = signature, !.bodyHash = hash,
            !.bodyChecksum = checksum]

LEMMA PassMarked ==
  ASSUME NEW len, NEW unread, NEW w \in Passes(len, unread),
         NEW out \in Said(len), Len(w.out) <= Len(out), NEW params \in Nat,
         NEW signature \in Places, Inside(Len(out), signature),
         NEW hash \in Seq(Places), AllInside(Len(out), hash),
         NEW checksum \in Seq(Places), AllInside(Len(out), checksum)
  PROVE  Marked(w, out, params, signature, hash, checksum) \in Passes(len, unread)
<1> DEFINE v == Marked(w, out, params, signature, hash, checksum)
<1> USE DEF Marked
<1>1. w \in PassRecords(len, unread) /\ Offsets(w)
  BY DEF Passes
<1>2. v \in PassRecords(len, unread)
  BY <1>1 DEF PassRecords
<1>3. v.out = out /\ v.ends = w.ends /\ v.signature = signature /\ v.bodyHash = hash
      /\ v.bodyChecksum = checksum
  BY <1>1 DEF PassRecords
<1>4. w.ends \in [0 .. Sections - 1 -> Nat] /\ w.out \in Said(len)
  BY <1>1 DEF PassRecords
<1>5. \A s \in 0 .. Sections - 1 : w.ends[s] <= Len(out)
  <2>1. Len(w.out) \in Nat /\ Len(out) \in Nat
    BY <1>4 DEF Said
  <2>2. \A s \in 0 .. Sections - 1 : w.ends[s] <= Len(w.out)
    BY <1>1 DEF Offsets
  <2>3. \A s \in 0 .. Sections - 1 : w.ends[s] \in Nat
    BY <1>4 DEF Sections
  <2> QED BY <2>1, <2>2, <2>3
<1> HIDE DEF v
<1>6. Offsets(v)
  BY <1>3, <1>5 DEF Offsets
<1>7. v \in Passes(len, unread)
  BY <1>2, <1>6 DEF Passes
<1> QED BY <1>7 DEF v

\* The ends of the sections, within a text.
EndsWithin(n) ==
  {ends \in [0 .. Sections - 1 -> Nat] : \A s \in 0 .. Sections - 1 : ends[s] <= n}

LEMMA EndsStay ==
  ASSUME NEW n \in Nat, NEW m \in Nat, n <= m
  PROVE  \A ends \in EndsWithin(n) : ends \in EndsWithin(m)
<1> SUFFICES ASSUME NEW ends \in EndsWithin(n) PROVE ends \in EndsWithin(m)
  OBVIOUS
<1>1. ends \in [0 .. Sections - 1 -> Nat] /\ \A s \in 0 .. Sections - 1 : ends[s] <= n
  BY DEF EndsWithin
<1>2. \A s \in 0 .. Sections - 1 : ends[s] \in Nat
  BY <1>1 DEF Sections
<1>3. \A s \in 0 .. Sections - 1 : ends[s] <= m
  BY <1>1, <1>2
<1> QED BY <1>1, <1>3 DEF EndsWithin

\* A pass that goes on.
Moved(w, out, ends, fields, at, cursor, section, optional, failed) ==
  [w EXCEPT !.out = out, !.ends = ends, !.fields = fields, !.at = at, !.cursor = cursor,
            !.section = section, !.optional = optional, !.failed = failed]

LEMMA PassMoved ==
  ASSUME NEW len, NEW unread, NEW w \in Passes(len, unread),
         NEW out \in Said(len), Len(w.out) <= Len(out),
         NEW ends \in EndsWithin(Len(out)),
         NEW fields \in Nat, NEW at \in Nat, NEW cursor \in Nat, NEW section \in 0 .. Sections,
         NEW optional \in Flags, NEW failed \in Flags
  PROVE  Moved(w, out, ends, fields, at, cursor, section, optional, failed)
           \in Passes(len, unread)
<1> DEFINE v == Moved(w, out, ends, fields, at, cursor, section, optional, failed)
<1> USE DEF Moved
<1>1. w \in PassRecords(len, unread) /\ Offsets(w)
  BY DEF Passes
<1>2. v \in PassRecords(len, unread)
  <2>1. ends \in [0 .. Sections - 1 -> Nat]
    BY DEF EndsWithin
  <2> QED BY <1>1, <2>1 DEF PassRecords
<1>3. v.out = out /\ v.ends = ends /\ v.signature = w.signature /\ v.bodyHash = w.bodyHash
      /\ v.bodyChecksum = w.bodyChecksum
  BY <1>1 DEF PassRecords
<1>4. /\ w.signature \in Places /\ w.bodyHash \in Seq(Places) /\ w.bodyChecksum \in Seq(Places)
      /\ w.out \in Said(len)
  BY <1>1 DEF PassRecords
<1>5. Inside(Len(out), w.signature) /\ AllInside(Len(out), w.bodyHash)
      /\ AllInside(Len(out), w.bodyChecksum)
  <2>1. Len(w.out) \in Nat /\ Len(out) \in Nat
    BY <1>4 DEF Said
  <2> QED BY <1>1, <1>4, <2>1, StaysInside DEF Offsets
<1> HIDE DEF v
<1>6. Offsets(v)
  <2>1. \A s \in 0 .. Sections - 1 : ends[s] <= Len(out)
    BY DEF EndsWithin
  <2> QED BY <1>3, <1>5, <2>1 DEF Offsets
<1>7. v \in Passes(len, unread)
  BY <1>2, <1>6 DEF Passes
<1> QED BY <1>7 DEF v

\* The fields of a pass.
LEMMA PassIs ==
  ASSUME NEW len, NEW unread, NEW w \in Passes(len, unread)
  PROVE  /\ w.out \in Said(len) /\ Len(w.out) \in Nat
         /\ w.ends \in EndsWithin(Len(w.out))
         /\ w.fields \in Nat /\ w.params \in Nat /\ w.bodyLen = len /\ w.unread = unread
         /\ w.at \in Nat /\ w.cursor \in Nat /\ w.section \in 0 .. Sections
         /\ w.optional \in Flags /\ w.failed \in Flags
         /\ w.signature \in Places /\ Inside(Len(w.out), w.signature)
         /\ w.bodyHash \in Seq(Places) /\ AllInside(Len(w.out), w.bodyHash)
         /\ w.bodyChecksum \in Seq(Places) /\ AllInside(Len(w.out), w.bodyChecksum)
<1>1. w \in PassRecords(len, unread) /\ Offsets(w)
  BY DEF Passes
<1>2. w.out \in Said(len)
  BY <1>1 DEF PassRecords
<1>3. Len(w.out) \in Nat
  BY <1>2 DEF Said
<1>4. w.ends \in EndsWithin(Len(w.out))
  BY <1>1 DEF PassRecords, Offsets, EndsWithin
<1> QED BY <1>1, <1>3, <1>4 DEF PassRecords, Offsets

\* Nothing else of a pass is told from its failure.
LEMMA PassFailed ==
  ASSUME NEW len, NEW unread, NEW w \in Passes(len, unread), NEW failed \in Flags
  PROVE  [w EXCEPT !.failed = failed] \in Passes(len, unread)
<1>1. w \in PassRecords(len, unread) /\ Offsets(w)
  BY DEF Passes
<1> DEFINE v == [w EXCEPT !.failed = failed]
<1>2. v \in PassRecords(len, unread)
  BY <1>1 DEF PassRecords
<1>3. v.out = w.out /\ v.ends = w.ends /\ v.signature = w.signature
      /\ v.bodyHash = w.bodyHash /\ v.bodyChecksum = w.bodyChecksum
  BY <1>1 DEF PassRecords
<1> HIDE DEF v
<1>4. v \in Passes(len, unread)
  BY <1>1, <1>2, <1>3 DEF Passes, Offsets
<1> QED BY <1>4 DEF v

LEMMA WriteHoleKept ==
  ASSUME NEW len, NEW unread, NEW w \in Passes(len, unread), NEW hole,
         NEW name \in Said(len), NEW f, FillOf(f)
  PROVE  WriteHole(w, hole, name, f) \in Passes(len, unread)
<1> DEFINE text == HoleText(w, hole, name, f)
           span == SpanOf(Position(w), Len(text))
           out == w.out \o text
           params == IF CountsParam(hole, f) THEN w.params + 1 ELSE w.params
           signature == IF hole = "Signature" THEN span ELSE w.signature
           hash == IF hole = "BodyHash" THEN Recorded(w.bodyHash, 3, span) ELSE w.bodyHash
           checksum == IF hole = "BodyChecksum" THEN Recorded(w.bodyChecksum, 2, span)
                       ELSE w.bodyChecksum
<1>1. CASE ~ CanFill(hole, f)
  <2>1. TRUE \in Flags
    BY DEF Flags
  <2> QED BY <1>1, <2>1, PassFailed DEF WriteHole
<1>2. CASE CanFill(hole, f)
  <2>1. text \in Said(len)
    BY <1>2, HoleTextIn
  <2>2. WriteHole(w, hole, name, f) =
          Marked(w, out, params, signature, hash, checksum)
    BY <1>2, Zenon DEF WriteHole, Marked
  <2> HIDE DEF text
  <2>3. out \in Said(len) /\ Len(out) = Len(w.out) + Len(text) /\ Len(text) \in Nat
    BY <2>1, PassIs DEF Said
  <2>4. span \in Places /\ Inside(Len(out), span)
    BY <2>3, PassIs DEF SpanOf, Position, Places, Inside
  <2>5. params \in Nat
    BY PassIs
  <2> HIDE DEF span, out, params
  <2>6. Len(w.out) <= Len(out) /\ Len(out) \in Nat /\ Len(w.out) \in Nat
    BY <2>3, PassIs
  <2>7. /\ w.signature \in Places /\ Inside(Len(out), w.signature)
        /\ w.bodyHash \in Seq(Places) /\ AllInside(Len(out), w.bodyHash)
        /\ w.bodyChecksum \in Seq(Places) /\ AllInside(Len(out), w.bodyChecksum)
    BY <2>6, PassIs, StaysInside
  <2>8. signature \in Places /\ Inside(Len(out), signature)
    BY <2>4, <2>7
  <2>9. hash \in Seq(Places) /\ AllInside(Len(out), hash)
    BY <2>4, <2>6, <2>7, RecordedInside
  <2>10. checksum \in Seq(Places) /\ AllInside(Len(out), checksum)
    BY <2>4, <2>6, <2>7, RecordedInside
  <2> HIDE DEF signature, hash, checksum
  <2> QED BY <2>2, <2>3, <2>5, <2>6, <2>8, <2>9, <2>10, PassMarked
<1> QED BY <1>1, <1>2

\* The next run of a template's text, and the hole after it.
LEMMA RunIn ==
  ASSUME NEW len, NEW text \in Wording, NEW cursor \in Nat, NEW more \in Nat,
         cursor + more <= Len(text)
  PROVE  Run(text, cursor, more) \in Said(len)
<1>1. text \in Seq(Words) /\ cursor + 1 \in Nat /\ cursor + 1 > 0 /\ cursor + more \in Nat
  BY DEF Wording
<1>2. SubSeq(text, cursor + 1, cursor + more) \in Seq(Words)
  BY <1>1, SubSeqIn
<1> QED BY <1>2, SaidIs DEF Run, Wording

LEMMA TakeKept ==
  ASSUME NEW len, NEW unread, NEW w \in Passes(len, unread),
         NEW steps \in Seq(StepsKept), NEW text \in Wording
  PROVE  Take(w, steps, text) \in Passes(len, unread)
<1> DEFINE step == steps[w.at + 1]
           run == Run(text, w.cursor, step.len)
           fits == w.cursor + step.len <= Len(text)
           out == IF fits THEN w.out \o run ELSE w.out
           failed == w.failed \/ ~ fits
           at == w.at + 1
           cursor == w.cursor + step.len
           late == Moved(w, w.out, w.ends, w.fields, at, w.cursor, w.section, w.optional, TRUE)
           next == Moved(w, out, w.ends, w.fields, at, cursor, w.section, w.optional, failed)
<1>0. w \in PassRecords(len, unread) /\ at \in Nat
      /\ w.out \in Said(len) /\ Len(w.out) <= Len(w.out)
  BY PassIs DEF Passes
<1>1. CASE w.at >= Len(steps)
  <2>1. Take(w, steps, text) = [w EXCEPT !.at = @ + 1, !.failed = TRUE]
    BY <1>1 DEF Take
  <2>2. [w EXCEPT !.at = @ + 1, !.failed = TRUE] = late
    BY <1>0 DEF Moved, PassRecords
  <2>3. TRUE \in Flags
    BY DEF Flags
  <2> HIDE DEF at
  <2>4. late \in Passes(len, unread)
    BY <1>0, <2>3, PassIs, PassMoved
  <2> QED BY <2>1, <2>2, <2>4
<1>2. CASE ~ (w.at >= Len(steps))
  <2>1. step \in StepsKept
    BY <1>2, PassIs
  <2>2. step.len \in Nat
    BY <2>1 DEF StepsKept
  <2>3. Take(w, steps, text) =
          [w EXCEPT !.at = @ + 1, !.out = IF fits THEN w.out \o run ELSE w.out,
                    !.failed = w.failed \/ ~ fits, !.cursor = @ + step.len]
    BY <1>2, Zenon DEF Take
  <2> HIDE DEF step
  <2>4. out \in Said(len) /\ Len(w.out) <= Len(out) /\ Len(out) \in Nat
    <3>1. CASE fits
      <4>1. run \in Said(len)
        BY <2>2, <3>1, PassIs, RunIn
      <4> HIDE DEF run
      <4>2. w.out \o run \in Said(len) /\ Len(w.out \o run) = Len(w.out) + Len(run)
            /\ Len(run) \in Nat
        BY <4>1, PassIs DEF Said
      <4> HIDE DEF fits
      <4> QED BY <3>1, <4>2, PassIs
    <3>2. CASE ~ fits
      BY <3>2, PassIs
    <3> QED BY <3>1, <3>2
  <2> HIDE DEF run, fits
  <2>5. Take(w, steps, text) = next
    BY <1>0, <2>3 DEF Moved, PassRecords
  <2>6. failed \in Flags
    BY PassIs DEF Flags
  <2>7. cursor \in Nat
    BY <2>2, PassIs
  <2>8. w.ends \in EndsWithin(Len(out))
    <3>1. w.ends \in EndsWithin(Len(w.out)) /\ Len(w.out) \in Nat
      BY PassIs
    <3> HIDE DEF out
    <3> QED BY <2>4, <3>1, EndsStay
  <2> HIDE DEF out, failed, at, cursor
  <2>9. next \in Passes(len, unread)
    BY <1>0, <2>4, <2>6, <2>7, <2>8, PassIs, PassMoved
  <2> HIDE DEF next
  <2> QED BY <2>5, <2>9
<1> QED BY <1>1, <1>2

\* The end of a section.
EndOne(w, s, steps, text) ==
  LET taken == Take(w, steps, text)
  IN  [taken EXCEPT !.ends[s] = Position(taken), !.section = s + 1]

LEMMA EndOneKept ==
  ASSUME NEW len, NEW unread, NEW w \in Passes(len, unread), NEW s \in 0 .. Sections - 1,
         NEW steps \in Seq(StepsKept), NEW text \in Wording
  PROVE  EndOne(w, s, steps, text) \in Passes(len, unread)
<1> DEFINE taken == Take(w, steps, text)
           ends == [taken.ends EXCEPT ![s] = Len(taken.out)]
           next == Moved(taken, taken.out, ends, taken.fields, taken.at, taken.cursor, s + 1,
                         taken.optional, taken.failed)
<1>1. taken \in Passes(len, unread)
  BY TakeKept
<1>2. EndOne(w, s, steps, text) = [taken EXCEPT !.ends[s] = Len(taken.out), !.section = s + 1]
  BY DEF EndOne, Position
<1> HIDE DEF taken
<1>3. taken \in PassRecords(len, unread)
  BY <1>1 DEF Passes
<1>4. EndOne(w, s, steps, text) = next
  BY <1>2, <1>3 DEF Moved, PassRecords
<1>5. s + 1 \in 0 .. Sections
  BY DEF Sections
<1>6. Len(taken.out) \in Nat /\ taken.ends \in EndsWithin(Len(taken.out))
  BY <1>1, PassIs
<1>7. ends \in EndsWithin(Len(taken.out))
  <2>1. /\ taken.ends \in [0 .. Sections - 1 -> Nat]
        /\ \A t \in 0 .. Sections - 1 : taken.ends[t] <= Len(taken.out)
    BY <1>6 DEF EndsWithin
  <2>2. ends \in [0 .. Sections - 1 -> Nat]
    BY <1>6, <2>1
  <2>3. \A t \in 0 .. Sections - 1 : ends[t] = IF t = s THEN Len(taken.out) ELSE taken.ends[t]
    BY <2>1
  <2> HIDE DEF ends
  <2>4. \A t \in 0 .. Sections - 1 : ends[t] <= Len(taken.out)
    BY <1>6, <2>1, <2>3
  <2> QED BY <2>2, <2>4 DEF EndsWithin
<1> HIDE DEF ends
<1>8. taken.out \in Said(len) /\ Len(taken.out) <= Len(taken.out)
  BY <1>1, <1>6, PassIs
<1>9. next \in Passes(len, unread)
  BY <1>1, <1>5, <1>7, <1>8, PassIs, PassMoved
<1> HIDE DEF next
<1> QED BY <1>4, <1>9

\* The pass ends one section after the other.
EndRun(r, k, X, w, steps, text) ==
  /\ r \in [0 .. k -> X] /\ r[0] = w
  /\ \A n \in 1 .. k : r[n] = EndOne(r[n - 1], w.section + n - 1, steps, text)

LEMMA EndUntilRun ==
  ASSUME NEW len, NEW unread, NEW w \in Passes(len, unread), NEW until \in 0 .. Sections,
         NEW steps \in Seq(StepsKept), NEW text \in Wording
  PROVE  LET k == Difference(until, w.section)
         IN  \E r : EndRun(r, k, Passes(len, unread), w, steps, text) /\ EndUntil(w, until, steps, text) = r[k]
<1> DEFINE k == Difference(until, w.section)
           seq == [n \in 1 .. k |-> w.section + n - 1]
           X == Passes(len, unread)
           Eq(f) == f = [s \in SUBSET DOMAIN seq |->
                           IF s = {} THEN w ELSE EndOne(f[s \ {Max(s)}], seq[Max(s)], steps, text)]
           f == CHOOSE f : Eq(f)
           step == [n \in 1 .. k |-> [x \in X |-> EndOne(x, seq[n], steps, text)]]
<1>0. k \in Nat /\ DOMAIN seq = 1 .. k /\ \A n \in 1 .. k : seq[n] \in 0 .. Sections - 1
  <2> HIDE DEF X, Eq, f, step
  <2>1. w.section \in 0 .. 6
    BY PassIs DEF Sections
  <2>2. k = IF until > w.section THEN until - w.section ELSE 0
    BY DEF Difference
  <2> DEFINE from == w.section
  <2>3. from \in 0 .. 6 /\ until \in 0 .. 6 /\ k = IF until > from THEN until - from ELSE 0
    BY <2>1, <2>2 DEF Sections
  <2>4. seq = [n \in 1 .. k |-> from + n - 1]
    OBVIOUS
  <2> HIDE DEF k, seq, from
  <2>5. k \in Nat /\ (k > 0 => k = until - from)
    BY <2>3
  <2>6. \A n \in 1 .. k : from + n - 1 \in 0 .. Sections - 1
    BY <2>3, <2>5 DEF Sections
  <2> QED BY <2>4, <2>5, <2>6
<1>1. EndUntil(w, until, steps, text) = f[1 .. k]
  BY <1>0, Zenon DEF EndUntil, FoldLeft, MapThenFoldSet, EndOne
<1> HIDE DEF k, seq
<1>2. step \in StepsOver(k, X)
  <2>1. \A n \in 1 .. k : \A x \in X : EndOne(x, seq[n], steps, text) \in X
    BY <1>0, EndOneKept
  <2> HIDE DEF X
  <2> QED BY <2>1 DEF StepsOver
<1>2a. w \in X
  OBVIOUS
<1> HIDE DEF X
<1>3. PICK g : Solves(g, k, X, w, step)
  <2> HIDE DEF step
  <2> QED BY <1>0, <1>2, <1>2a, FoldExists
<1>4. Eq(g)
  <2>1. \A s \in SUBSET (1 .. k) :
          s # {} => g[s] = EndOne(g[s \ {Max(s)}], seq[Max(s)], steps, text)
    <3> SUFFICES ASSUME NEW s \in SUBSET (1 .. k), s # {}
                 PROVE  g[s] = EndOne(g[s \ {Max(s)}], seq[Max(s)], steps, text)
      OBVIOUS
    <3>1. Max(s) \in 1 .. k /\ g[s \ {Max(s)}] \in X
      BY <1>3 DEF Solves
    <3> QED BY <3>1, <1>3 DEF Solves
  <2> QED BY <1>0, <1>3, <2>1 DEF Solves
<1>5. Eq(f)
  <2> HIDE DEF Eq
  <2> QED BY <1>4, Zenon
<1> HIDE DEF f
<1>6. Folds(f, k, X, w, step)
  BY <1>0, <1>5 DEF Folds
<1>7. PICK r : Runs(r, k, X, w, step) /\ f[1 .. k] = r[k]
  <2> HIDE DEF step
  <2> QED BY <1>0, <1>2, <1>2a, <1>6, FoldRuns
<1>8. r \in [0 .. k -> X] /\ r[0] = w /\ \A n \in 1 .. k : r[n] = step[n][r[n - 1]]
  BY <1>7 DEF Runs
<1>9. \A n \in 1 .. k : r[n] = EndOne(r[n - 1], w.section + n - 1, steps, text)
  <2>1. ASSUME NEW n \in 1 .. k
        PROVE  r[n - 1] \in X /\ seq[n] = w.section + n - 1
    BY <1>0, <1>8 DEF seq
  <2> QED BY <1>8, <2>1
<1>10. EndRun(r, k, X, w, steps, text)
  BY <1>8, <1>9 DEF EndRun
<1> QED BY <1>1, <1>7, <1>10 DEF X, k

LEMMA EndUntilKept ==
  ASSUME NEW len, NEW unread, NEW w \in Passes(len, unread), NEW until \in 0 .. Sections,
         NEW steps \in Seq(StepsKept), NEW text \in Wording
  PROVE  EndUntil(w, until, steps, text) \in Passes(len, unread)
<1> DEFINE k == Difference(until, w.section)
<1>1. k \in Nat
  <2>1. w.section \in Nat /\ until \in Nat
    BY PassIs DEF Sections
  <2> QED BY <2>1 DEF Difference
<1>2. PICK r : EndRun(r, k, Passes(len, unread), w, steps, text) /\ EndUntil(w, until, steps, text) = r[k]
  BY EndUntilRun
<1> HIDE DEF k
<1> QED BY <1>1, <1>2 DEF EndRun

LEMMA PassHoleKept ==
  ASSUME NEW len, NEW unread, NEW w \in Passes(len, unread), NEW hole,
         NEW name \in Said(len), NEW f, FillOf(f),
         NEW steps \in Seq(StepsKept), NEW text \in Wording
  PROVE  PassHole(w, hole, name, f, steps, text) \in Passes(len, unread)
BY TakeKept, WriteHoleKept DEF PassHole

LEMMA PassFieldsKept ==
  ASSUME NEW len, NEW unread, NEW w \in Passes(len, unread), NEW table, IsTable(table),
         NEW steps \in Seq(StepsKept)
  PROVE  PassFields(w, table, steps) \in Passes(len, unread)
<1> DEFINE run == IF w.at < Len(steps) THEN steps[w.at + 1].len ELSE 0
           fields == Position(w) + (IF run < table.fields[2] THEN run ELSE table.fields[2])
           failed == w.failed \/ table.fields[1] # w.at
           next == Moved(w, w.out, w.ends, fields, w.at, w.cursor, w.section, w.optional, failed)
<1>1. w \in PassRecords(len, unread) /\ w.out \in Said(len) /\ Len(w.out) <= Len(w.out)
  BY PassIs DEF Passes
<1>2. PassFields(w, table, steps) = [w EXCEPT !.failed = failed, !.fields = fields]
  BY Zenon DEF PassFields
<1>3. run \in Nat
  <2>1. CASE w.at < Len(steps)
    <3>1. steps[w.at + 1] \in StepsKept
      BY <2>1, PassIs
    <3>2. steps[w.at + 1].len \in Nat
      BY <3>1 DEF StepsKept
    <3> QED BY <2>1, <3>2
  <2>2. CASE ~ (w.at < Len(steps))
    BY <2>2
  <2> QED BY <2>1, <2>2
<1> HIDE DEF run
<1>4. fields \in Nat
  <2>1. Position(w) \in Nat /\ table.fields[2] \in Nat
    BY PassIs DEF Position, IsTable
  <2> QED BY <1>3, <2>1
<1>5. failed \in Flags
  BY DEF Flags
<1> HIDE DEF fields, failed
<1>6. [w EXCEPT !.failed = failed, !.fields = fields] = next
  BY <1>1 DEF Moved, PassRecords
<1>7. next \in Passes(len, unread)
  BY <1>1, <1>4, <1>5, PassIs, PassMoved
<1> QED BY <1>2, <1>6, <1>7

\* One flag or the cursor of a pass.
LEMMA PassTurned ==
  ASSUME NEW len, NEW unread, NEW w \in Passes(len, unread), NEW more \in Nat
  PROVE  /\ [w EXCEPT !.optional = TRUE] \in Passes(len, unread)
         /\ [w EXCEPT !.cursor = @ + more] \in Passes(len, unread)
<1> DEFINE turned == Moved(w, w.out, w.ends, w.fields, w.at, w.cursor, w.section, TRUE, w.failed)
           cursor == w.cursor + more
           further == Moved(w, w.out, w.ends, w.fields, w.at, cursor, w.section, w.optional, w.failed)
<1>1. w \in PassRecords(len, unread) /\ w.out \in Said(len) /\ Len(w.out) <= Len(w.out)
  BY PassIs DEF Passes
<1>2. [w EXCEPT !.optional = TRUE] = turned /\ [w EXCEPT !.cursor = @ + more] = further
  BY <1>1 DEF Moved, PassRecords
<1>3. TRUE \in Flags /\ cursor \in Nat
  BY PassIs DEF Flags
<1> HIDE DEF cursor
<1>4. turned \in Passes(len, unread)
  BY <1>1, <1>3, PassIs, PassMoved
<1>5. further \in Passes(len, unread)
  BY <1>1, <1>3, PassIs, PassMoved
<1> HIDE DEF turned, further
<1> QED BY <1>2, <1>4, <1>5

LEMMA PassParamKept ==
  ASSUME NEW len, NEW unread, NEW w \in Passes(len, unread), NEW param \in Parameters,
         NEW f, FillOf(f), NEW steps \in Seq(StepsKept), NEW text \in Wording
  PROVE  PassParam(w, param, f, steps, text) \in Passes(len, unread)
<1> DEFINE separated == IF w.optional THEN PassHole(w, "Separator", <<>>, f, steps, text) ELSE w
           filled == PassHole(separated, param.hole, <<>>, f, steps, text)
           turned == [w EXCEPT !.optional = TRUE]
           named == PassHole(turned, param.hole, <<param.name>>, f, steps, text)
           more == NameLen(w, steps)
<1>1. param.mode \in {"fixed", "hole", "optional"} /\ param.name \in Words
  BY DEF Parameters
<1>2. <<>> \in Said(len) /\ <<param.name>> \in Said(len)
  BY <1>1, WordingIs, SaidIs
<1>3. separated \in Passes(len, unread)
  BY <1>2, PassHoleKept
<1>4. filled \in Passes(len, unread)
  <2> HIDE DEF separated
  <2> QED BY <1>2, <1>3, PassHoleKept
<1>5. more \in Nat
  <2>1. CASE w.at >= Len(steps)
    BY <2>1 DEF NameLen
  <2>2. CASE ~ (w.at >= Len(steps))
    <3>1. steps[w.at + 1] \in StepsKept
      BY <2>2, PassIs
    <3>2. steps[w.at + 1].name \in Nat
      BY <3>1 DEF StepsKept
    <3> QED BY <2>2, <3>2 DEF NameLen
  <2> QED BY <2>1, <2>2
<1>6. named \in Passes(len, unread)
  <2>1. turned \in Passes(len, unread)
    BY <1>5, PassTurned
  <2> HIDE DEF turned
  <2> QED BY <1>2, <2>1, PassHoleKept
<1>7. /\ param.mode = "fixed" => PassParam(w, param, f, steps, text) = separated
      /\ param.mode = "hole" => PassParam(w, param, f, steps, text) = filled
      /\ param.mode = "optional" =>
           PassParam(w, param, f, steps, text) = [named EXCEPT !.cursor = @ + more]
  BY DEF PassParam
<1> HIDE DEF separated, filled, named, more
<1>8. [named EXCEPT !.cursor = @ + more] \in Passes(len, unread)
  BY <1>5, <1>6, PassTurned
<1> QED BY <1>1, <1>3, <1>4, <1>7, <1>8

\* Every operation of a layout keeps a pass what it is, and so does its end.
LEMMA PassKept ==
  ASSUME NEW len, NEW unread, NEW w \in Passes(len, unread), NEW op \in Ops,
         NEW table, IsTable(table), NEW f, FillOf(f),
         NEW steps \in Seq(StepsKept), NEW text \in Wording
  PROVE  Pass(w, op, table, f, steps, text) \in Passes(len, unread)
<1>1. CASE op.op = "section" /\ op.section \in 0 .. Sections - 1
  <2>1. op.section \in 0 .. Sections
    BY <1>1 DEF Sections
  <2> QED BY <1>1, <2>1, EndUntilKept DEF Pass
<1>2. CASE op.op = "text"
  BY <1>2 DEF Pass
<1>3. CASE op.op = "hole"
  <2>1. <<>> \in Said(len)
    BY WordingIs, SaidIs
  <2>2. PassHole(w, op.hole, <<>>, f, steps, text) \in Passes(len, unread)
    BY <2>1, PassHoleKept
  <2> QED BY <1>3, <2>2 DEF Pass
<1>4. CASE op.op = "fields"
  <2>1. PassFields(w, table, steps) \in Passes(len, unread)
    BY PassFieldsKept
  <2> QED BY <1>4, <2>1 DEF Pass
<1>5. CASE op.op = "param" /\ op.param \in Parameters
  <2>1. PassParam(w, op.param, f, steps, text) \in Passes(len, unread)
    BY <1>5, PassParamKept
  <2> QED BY <1>5, <2>1 DEF Pass
<1> QED BY <1>1, <1>2, <1>3, <1>4, <1>5, OpIsOneOf

LEMMA FinishPassKept ==
  ASSUME NEW len, NEW unread, NEW w \in Passes(len, unread),
         NEW steps \in Seq(StepsKept), NEW text \in Wording
  PROVE  FinishPass(w, steps, text) \in Passes(len, unread)
<1> DEFINE ended == EndUntil(w, Sections, steps, text)
           failed == ended.failed \/ ended.at # Len(steps)
<1>1. ended \in Passes(len, unread)
  BY EndUntilKept DEF Sections
<1>2. FinishPass(w, steps, text) = [ended EXCEPT !.failed = failed]
  BY Zenon DEF FinishPass
<1>3. failed \in Flags
  BY DEF Flags
<1> HIDE DEF ended, failed
<1> QED BY <1>1, <1>2, <1>3, PassFailed

\* A pass over nothing.
LEMMA PassUnread ==
  ASSUME NEW len, NEW unread, NEW w \in Passes(len, unread), NEW failed \in Flags, NEW other
  PROVE  [w EXCEPT !.failed = failed, !.unread = other] \in Passes(len, other)
<1>1. w \in PassRecords(len, unread) /\ Offsets(w)
  BY DEF Passes
<1> DEFINE v == [w EXCEPT !.failed = failed, !.unread = other]
<1>2. v \in PassRecords(len, other)
  BY <1>1 DEF PassRecords
<1>3. v.out = w.out /\ v.ends = w.ends /\ v.signature = w.signature
      /\ v.bodyHash = w.bodyHash /\ v.bodyChecksum = w.bodyChecksum
  BY <1>1 DEF PassRecords
<1> HIDE DEF v
<1>4. v \in Passes(len, other)
  BY <1>1, <1>2, <1>3 DEF Passes, Offsets
<1> QED BY <1>4 DEF v

\* A pass starts with nothing.
LEMMA NewStateKept ==
  ASSUME NEW len, NEW table, IsTable(table)
  PROVE  /\ NewState(table, len) \in Passes(len, FALSE)
         /\ UnreadPass(table) \in Passes(0, TRUE)
<1> DEFINE ends == [s \in 0 .. Sections - 1 |-> 0]
<1>1. /\ ends \in [0 .. Sections - 1 -> Nat] /\ \A s \in 0 .. Sections - 1 : ends[s] <= 0
      /\ table.params \in Nat
  BY DEF IsTable
<1>2. <<>> \in Seq(Places) /\ None \in Places /\ AllInside(0, <<>>) /\ Inside(0, None)
  BY DEF Places, AllInside, Inside
<1>3. OriginSection \in 0 .. Sections /\ FALSE \in Flags /\ TRUE \in Flags
  BY DEF OriginSection, Sections, Flags
<1>4. ASSUME NEW n
      PROVE  NewState(table, n) \in Passes(n, FALSE)
  <2> DEFINE v == [out |-> <<>>, ends |-> ends, fields |-> 0, params |-> table.params,
                   bodyLen |-> n, signature |-> None, bodyHash |-> <<>>, bodyChecksum |-> <<>>,
                   at |-> 0, cursor |-> 0, section |-> OriginSection, optional |-> FALSE,
                   failed |-> FALSE, unread |-> FALSE]
  <2>1. NewState(table, n) = v
    BY Zenon DEF NewState
  <2>2. <<>> \in Said(n)
    BY DEF Said
  <2> HIDE DEF ends
  <2>3. v \in PassRecords(n, FALSE)
    BY <1>1, <1>2, <1>3, <2>2 DEF PassRecords
  <2>4. v.out = <<>> /\ v.ends = ends /\ v.signature = None /\ v.bodyHash = <<>>
        /\ v.bodyChecksum = <<>>
    OBVIOUS
  <2> HIDE DEF v
  <2>5. Offsets(v)
    BY <1>1, <1>2, <2>4 DEF Offsets
  <2> QED BY <2>1, <2>3, <2>5 DEF Passes
<1>5. UnreadPass(table) \in Passes(0, TRUE)
  BY <1>3, <1>4, PassUnread DEF UnreadPass
<1> QED BY <1>4, <1>5

-----------------------------------------------------------------------------
(* The walk of a table.                                                    *)

LEMMA WalkStepKept ==
  ASSUME NEW len, NEW unread, NEW w \in Passes(len, unread), NEW table, IsTable(table),
         NEW f, FillOf(f), NEW steps \in Seq(StepsKept), NEW text \in Wording,
         NEW at \in Nat, at < Len(steps)
  PROVE  WalkStep(w, at, table, steps, text, f) \in Passes(len, unread)
<1> DEFINE step == steps[at + 1]
           before == Position(w) + (IF step.len < table.fields[2] THEN step.len ELSE table.fields[2])
           marked == IF at = table.fields[1] THEN [w EXCEPT !.fields = before] ELSE w
           run == Run(text, w.cursor, step.len)
           copied == [marked EXCEPT !.out = @ \o run]
           name == Run(text, w.cursor + step.len, step.name)
           filled == IF step.hole = NoHole THEN copied ELSE WriteHole(copied, step.hole, name, f)
           read == IF step.hole = NoHole THEN step.len ELSE StepText(step)
           more == StepLen(step)
           walked == [filled EXCEPT !.cursor = @ + more,
                        !.ends = [s \in DOMAIN @ |-> IF s \in step.ends THEN Position(filled)
                                                     ELSE @[s]]]
<1>1. WalkStep(w, at, table, steps, text, f) =
        IF w.failed THEN w
        ELSE IF w.cursor + read > Len(text) THEN [w EXCEPT !.failed = TRUE]
        ELSE walked
  BY Zenon DEF WalkStep
<1>2. step.len \in Nat /\ step.name \in Nat /\ step.hole \in Words
  <2>1. at + 1 \in 1 .. Len(steps)
    OBVIOUS
  <2>2. step \in StepsKept
    BY <2>1
  <2> QED BY <2>2 DEF StepsKept
<1>3. [w EXCEPT !.failed = TRUE] \in Passes(len, unread)
  <2>1. TRUE \in Flags
    BY DEF Flags
  <2> QED BY <2>1, PassFailed
<1> HIDE DEF step
<1>4. ASSUME w.cursor + read <= Len(text)
      PROVE  walked \in Passes(len, unread)
  <2>1. w.cursor \in Nat /\ Len(text) \in Nat /\ w.out \in Said(len) /\ Len(w.out) \in Nat
    BY PassIs DEF Wording
  <2>2. w.cursor + step.len <= Len(text) /\ more \in Nat
        /\ (step.hole # NoHole => w.cursor + step.len + step.name <= Len(text))
    BY <1>2, <1>4, <2>1 DEF StepText, StepLen
  <2>3. run \in Said(len)
    BY <1>2, <2>1, <2>2, RunIn
  <2>4. step.hole # NoHole => name \in Said(len)
    BY <1>2, <2>1, <2>2, RunIn
  <2> HIDE DEF run, name, more, read
  <2>5. marked \in Passes(len, unread)
    <3>0. table.fields[2] \in Nat
      BY DEF IsTable
    <3>1. before \in Nat
      BY <1>2, <2>1, <3>0 DEF Position
    <3> HIDE DEF before
    <3> DEFINE next == Moved(w, w.out, w.ends, before, w.at, w.cursor, w.section, w.optional,
                             w.failed)
    <3>2. [w EXCEPT !.fields = before] = next
      BY DEF Moved, Passes, PassRecords
    <3>3. Len(w.out) <= Len(w.out)
      BY <2>1
    <3>4. next \in Passes(len, unread)
      BY <2>1, <3>1, <3>3, PassIs, PassMoved
    <3> QED BY <3>2, <3>4
  <2> HIDE DEF marked
  <2>6. copied \in Passes(len, unread)
    <3> DEFINE out == marked.out \o run
               next == Moved(marked, out, marked.ends, marked.fields, marked.at, marked.cursor,
                             marked.section, marked.optional, marked.failed)
    <3>1. marked \in PassRecords(len, unread)
      BY <2>5 DEF Passes
    <3>2. copied = next
      BY <3>1 DEF Moved, PassRecords
    <3>3. marked.out \in Said(len) /\ Len(marked.out) \in Nat
      BY <2>5, PassIs
    <3>4. out \in Said(len) /\ Len(out) = Len(marked.out) + Len(run) /\ Len(run) \in Nat
      BY <2>3, <3>3 DEF Said
    <3> HIDE DEF out
    <3>5. Len(marked.out) <= Len(out) /\ Len(out) \in Nat
      BY <3>3, <3>4
    <3>6. marked.ends \in EndsWithin(Len(out))
      BY <2>5, <3>3, <3>5, PassIs, EndsStay
    <3>7. next \in Passes(len, unread)
      BY <2>5, <3>4, <3>5, <3>6, PassIs, PassMoved
    <3> QED BY <3>2, <3>7
  <2> HIDE DEF copied
  <2>7. filled \in Passes(len, unread)
    BY <2>4, <2>6, WriteHoleKept
  <2> HIDE DEF filled
  <2> DEFINE cursor == filled.cursor + more
             ends == [s \in DOMAIN filled.ends |-> IF s \in step.ends THEN Position(filled)
                                                   ELSE filled.ends[s]]
             next == Moved(filled, filled.out, ends, filled.fields, filled.at, cursor,
                           filled.section, filled.optional, filled.failed)
  <2>8. filled \in PassRecords(len, unread) /\ filled.out \in Said(len) /\ Len(filled.out) \in Nat
        /\ Len(filled.out) <= Len(filled.out) /\ cursor \in Nat
    BY <2>2, <2>7, PassIs DEF Passes
  <2>9. ends \in EndsWithin(Len(filled.out))
    <3>1. filled.ends \in EndsWithin(Len(filled.out))
      BY <2>7, PassIs
    <3>2. /\ filled.ends \in [0 .. Sections - 1 -> Nat]
          /\ \A s \in 0 .. Sections - 1 : filled.ends[s] <= Len(filled.out)
      BY <3>1 DEF EndsWithin
    <3>3. /\ ends \in [0 .. Sections - 1 -> Nat]
          /\ \A s \in 0 .. Sections - 1 :
               ends[s] = IF s \in step.ends THEN Len(filled.out) ELSE filled.ends[s]
      BY <2>8, <3>2 DEF Position
    <3> HIDE DEF ends
    <3>4. \A s \in 0 .. Sections - 1 : ends[s] <= Len(filled.out)
      BY <2>8, <3>2, <3>3
    <3> QED BY <3>3, <3>4 DEF EndsWithin
  <2>10. walked = [filled EXCEPT !.cursor = cursor, !.ends = ends]
    OBVIOUS
  <2> HIDE DEF ends, cursor, walked
  <2>11. [filled EXCEPT !.cursor = cursor, !.ends = ends] = next
    BY <2>8 DEF Moved, PassRecords
  <2>12. next \in Passes(len, unread)
    BY <2>7, <2>8, <2>9, PassIs, PassMoved
  <2> QED BY <2>10, <2>11, <2>12
<1>5. w.cursor + read > Len(text) \/ w.cursor + read <= Len(text)
  BY <1>2, PassIs DEF Wording, StepText
<1> HIDE DEF walked, read
<1> QED BY <1>1, <1>3, <1>4, <1>5

\* Numbers, added one after the other.
Adding(r, numbers) ==
  /\ r \in [0 .. Len(numbers) -> Nat] /\ r[0] = 0
  /\ \A n \in 1 .. Len(numbers) : r[n] = r[n - 1] + numbers[n]

LEMMA AddedIs ==
  ASSUME NEW numbers \in Seq(Nat)
  PROVE  \E r : Adding(r, numbers) /\ Added(numbers) = r[Len(numbers)]
<1> DEFINE k == Len(numbers)
           Eq(f) == f = [s \in SUBSET DOMAIN numbers |->
                           IF s = {} THEN 0 ELSE f[s \ {Max(s)}] + numbers[Max(s)]]
           f == CHOOSE f : Eq(f)
           step == [n \in 1 .. k |-> [x \in Nat |-> x + numbers[n]]]
<1>0. k \in Nat /\ DOMAIN numbers = 1 .. k /\ \A n \in 1 .. k : numbers[n] \in Nat
  OBVIOUS
<1>1. Added(numbers) = f[1 .. k]
  BY <1>0, Zenon DEF Added, FoldLeft, MapThenFoldSet
<1> HIDE DEF k
<1>2. step \in StepsOver(k, Nat)
  BY <1>0 DEF StepsOver
<1>3. PICK g : Solves(g, k, Nat, 0, step)
  <2> HIDE DEF step
  <2> QED BY <1>0, <1>2, FoldExists
<1>4. Eq(g)
  <2>1. \A s \in SUBSET (1 .. k) : s # {} => g[s] = g[s \ {Max(s)}] + numbers[Max(s)]
    <3> SUFFICES ASSUME NEW s \in SUBSET (1 .. k), s # {}
                 PROVE  g[s] = g[s \ {Max(s)}] + numbers[Max(s)]
      OBVIOUS
    <3>1. Max(s) \in 1 .. k /\ g[s \ {Max(s)}] \in Nat
      BY <1>3 DEF Solves
    <3> QED BY <3>1, <1>3 DEF Solves
  <2> QED BY <1>0, <1>3, <2>1 DEF Solves
<1>5. Eq(f)
  <2> HIDE DEF Eq
  <2> QED BY <1>4, Zenon
<1> HIDE DEF f
<1>6. Folds(f, k, Nat, 0, step)
  BY <1>0, <1>5 DEF Folds
<1>7. PICK r : Runs(r, k, Nat, 0, step) /\ f[1 .. k] = r[k]
  <2> DEFINE X == Nat
             base == 0
  <2>1. base \in X /\ step \in StepsOver(k, X) /\ Folds(f, k, X, base, step)
    BY <1>2, <1>6
  <2> HIDE DEF step, Eq, X, base
  <2>2. \E r : Runs(r, k, X, base, step) /\ f[1 .. k] = r[k]
    BY <1>0, <2>1, FoldRuns
  <2> QED BY <2>2 DEF X, base
<1>8. r \in [0 .. k -> Nat] /\ r[0] = 0 /\ \A n \in 1 .. k : r[n] = step[n][r[n - 1]]
  BY <1>7 DEF Runs
<1>9. \A n \in 1 .. k : r[n] = r[n - 1] + numbers[n]
  <2> SUFFICES ASSUME NEW n \in 1 .. k PROVE r[n] = r[n - 1] + numbers[n]
    OBVIOUS
  <2>1. r[n - 1] \in Nat
    BY <1>0, <1>8
  <2> QED BY <1>0, <1>8, <2>1
<1>10. Adding(r, numbers)
  BY <1>8, <1>9 DEF Adding, k
<1> QED BY <1>1, <1>7, <1>10 DEF k

\* The length of no steps.
LEMMA NoSteps ==
  ASSUME NEW steps
  PROVE  SumOf(SubSeq(steps, 1, 0), StepText) = 0
<1> DEFINE none == SubSeq(steps, 1, 0)
           numbers == [n \in DOMAIN none |-> StepText(none[n])]
<1>1. none = <<>> /\ DOMAIN none = {}
  OBVIOUS
<1>2. numbers \in Seq(Nat) /\ Len(numbers) = 0
  <2>1. numbers = <<>>
    BY <1>1
  <2> QED BY <2>1
<1> HIDE DEF none
<1>3. SumOf(none, StepText) = Added(numbers)
  BY Zenon DEF SumOf
<1> HIDE DEF numbers
<1>4. PICK r : Adding(r, numbers) /\ Added(numbers) = r[Len(numbers)]
  BY <1>2, AddedIs
<1> QED BY <1>2, <1>3, <1>4 DEF Adding, none

\* The steps before a section are those of the sections before it.
Counting == [0 .. Sections - 1 -> Nat]
Totals(r, k, counts) ==
  r[0] = 0 /\ \A n \in 1 .. k : r[n] = r[n - 1] + counts[n - 1]

LEMMA StepsBeforeIs ==
  ASSUME NEW counts \in Counting, NEW k \in Nat, k <= Sections
  PROVE  \E r : Totals(r, k, counts) /\ StepsBefore(counts, k) = r[k]
<1> DEFINE seq == [n \in 1 .. k |-> n]
           Eq(f) == f = [s \in SUBSET DOMAIN seq |->
                           IF s = {} THEN 0 ELSE f[s \ {Max(s)}] + counts[seq[Max(s)] - 1]]
           f == CHOOSE f : Eq(f)
           step == [n \in 1 .. k |-> [x \in Nat |-> x + counts[seq[n] - 1]]]
<1>0. k \in Nat /\ DOMAIN seq = 1 .. k /\ \A n \in 1 .. k : seq[n] = n /\ counts[seq[n] - 1] \in Nat
  BY DEF Sections, Counting
<1>1. StepsBefore(counts, k) = f[1 .. k]
  BY <1>0, Zenon DEF StepsBefore, FoldLeft, MapThenFoldSet
<1> HIDE DEF seq
<1>2. step \in StepsOver(k, Nat)
  BY <1>0 DEF StepsOver
<1>3. PICK g : Solves(g, k, Nat, 0, step)
  <2> HIDE DEF step
  <2> QED BY <1>0, <1>2, FoldExists
<1>4. Eq(g)
  <2>1. \A s \in SUBSET (1 .. k) : s # {} => g[s] = g[s \ {Max(s)}] + counts[seq[Max(s)] - 1]
    <3> SUFFICES ASSUME NEW s \in SUBSET (1 .. k), s # {}
                 PROVE  g[s] = g[s \ {Max(s)}] + counts[seq[Max(s)] - 1]
      OBVIOUS
    <3>1. Max(s) \in 1 .. k /\ g[s \ {Max(s)}] \in Nat
      BY <1>3 DEF Solves
    <3> QED BY <3>1, <1>3 DEF Solves
  <2> QED BY <1>0, <1>3, <2>1 DEF Solves
<1>5. Eq(f)
  <2> HIDE DEF Eq
  <2> QED BY <1>4, Zenon
<1> HIDE DEF f
<1>6. Folds(f, k, Nat, 0, step)
  BY <1>0, <1>5 DEF Folds
<1>7. PICK r : Runs(r, k, Nat, 0, step) /\ f[1 .. k] = r[k]
  <2> DEFINE X == Nat
             base == 0
  <2>1. base \in X /\ step \in StepsOver(k, X) /\ Folds(f, k, X, base, step)
    BY <1>2, <1>6
  <2> HIDE DEF step, Eq, X, base
  <2>2. \E r : Runs(r, k, X, base, step) /\ f[1 .. k] = r[k]
    BY <2>1, FoldRuns
  <2> QED BY <2>2 DEF X, base
<1>8. r \in [0 .. k -> Nat] /\ r[0] = 0 /\ \A n \in 1 .. k : r[n] = step[n][r[n - 1]]
  BY <1>7 DEF Runs
<1>9. \A n \in 1 .. k : r[n] = r[n - 1] + counts[n - 1]
  <2> SUFFICES ASSUME NEW n \in 1 .. k PROVE r[n] = r[n - 1] + counts[n - 1]
    OBVIOUS
  <2>1. r[n - 1] \in Nat
    BY <1>0, <1>8
  <2> QED BY <1>0, <1>8, <2>1
<1>10. Totals(r, k, counts)
  BY <1>8, <1>9 DEF Totals
<1> QED BY <1>1, <1>7, <1>10

LEMMA AllSteps ==
  ASSUME NEW counts \in Counting
  PROVE  StepsBefore(counts, OriginSection) = 0 /\ StepsBefore(counts, Sections) = CountOf(counts)
<1>1. StepsBefore(counts, OriginSection) = 0
  <2>1. 0 <= Sections
    BY DEF Sections
  <2>2. PICK r : Totals(r, 0, counts) /\ StepsBefore(counts, 0) = r[0]
    BY <2>1, StepsBeforeIs
  <2> QED BY <2>2 DEF OriginSection, Totals
<1>2. StepsBefore(counts, Sections) = CountOf(counts)
  <2>1. Sections \in Nat /\ Sections <= Sections
    BY DEF Sections
  <2>2. PICK r : Totals(r, Sections, counts) /\ StepsBefore(counts, Sections) = r[Sections]
    BY <2>1, StepsBeforeIs
  <2>3. /\ r[0] = 0
        /\ r[1] = r[0] + counts[0] /\ r[2] = r[1] + counts[1] /\ r[3] = r[2] + counts[2]
        /\ r[4] = r[3] + counts[3] /\ r[5] = r[4] + counts[4] /\ r[6] = r[5] + counts[5]
    BY <2>2 DEF Sections, Totals
  <2>4. /\ counts[0] \in Nat /\ counts[1] \in Nat /\ counts[2] \in Nat /\ counts[3] \in Nat
        /\ counts[4] \in Nat /\ counts[5] \in Nat
    BY DEF Sections, Counting
  <2> QED BY <2>2, <2>3, <2>4 DEF CountOf, Sections
<1> QED BY <1>1, <1>2

\* A pass elsewhere in its template, and one whose sections have ended.
LEMMA PassPlaced ==
  ASSUME NEW len, NEW unread, NEW w \in Passes(len, unread), NEW cursor \in Nat,
         NEW ends \in EndsWithin(Len(w.out))
  PROVE  /\ [w EXCEPT !.cursor = cursor] \in Passes(len, unread)
         /\ [w EXCEPT !.ends = ends] \in Passes(len, unread)
<1> DEFINE placed == Moved(w, w.out, w.ends, w.fields, w.at, cursor, w.section, w.optional, w.failed)
           ended == Moved(w, w.out, ends, w.fields, w.at, w.cursor, w.section, w.optional, w.failed)
<1>1. w \in PassRecords(len, unread) /\ w.out \in Said(len) /\ Len(w.out) <= Len(w.out)
  BY PassIs DEF Passes
<1>2. [w EXCEPT !.cursor = cursor] = placed /\ [w EXCEPT !.ends = ends] = ended
  BY <1>1 DEF Moved, PassRecords
<1>3. placed \in Passes(len, unread)
  BY <1>1, PassIs, PassMoved
<1>4. ended \in Passes(len, unread)
  BY <1>1, PassIs, PassMoved
<1> HIDE DEF placed, ended
<1> QED BY <1>2, <1>3, <1>4

\* The walk over all of a table, and the request that it writes.
LEMMA WalkKept ==
  ASSUME NEW len, NEW table, IsTable(table), NEW f, FillOf(f),
         NEW steps \in Seq(StepsKept), Len(steps) = table.total, NEW text \in Wording
  PROVE  Walk(table, steps, text, f, OriginSection, Sections, len) \in Passes(len, FALSE)
<1> DEFINE first == StepsBefore(table.counts, OriginSection)
           last == StepsBefore(table.counts, Sections)
           start == [NewState(table, len) EXCEPT !.cursor = SumOf(SubSeq(steps, 1, first), StepText)]
           seq == [n \in 1 .. last - first |-> first + n - 1]
           k == Len(steps)
           X == Passes(len, FALSE)
           Eq(f1) == f1 = [s \in SUBSET DOMAIN seq |->
                       IF s = {} THEN start
                       ELSE WalkStep(f1[s \ {Max(s)}], seq[Max(s)], table, steps, text, f)]
           fold == CHOOSE f1 : Eq(f1)
           step == [n \in 1 .. k |-> [x \in X |-> WalkStep(x, seq[n], table, steps, text, f)]]
           walked == FoldLeft(LAMBDA w, at : WalkStep(w, at, table, steps, text, f), start, seq)
           ends == [s \in DOMAIN walked.ends |-> IF s >= Sections THEN Position(walked)
                                                 ELSE walked.ends[s]]
<1>1. first = 0 /\ last = k /\ k \in Nat
  <2>1. table.counts \in Counting /\ CountOf(table.counts) = table.total
    BY DEF IsTable, Counting
  <2> QED BY <2>1, AllSteps
<1>2. Walk(table, steps, text, f, OriginSection, Sections, len) = [walked EXCEPT !.ends = ends]
  BY Zenon DEF Walk
<1>3. start \in X
  <2>1. SumOf(SubSeq(steps, 1, first), StepText) = 0
    BY <1>1, NoSteps
  <2>2. NewState(table, len) \in X
    BY NewStateKept
  <2>3. NewState(table, len).ends \in EndsWithin(Len(NewState(table, len).out))
    BY <2>2, PassIs
  <2>4. [NewState(table, len) EXCEPT !.cursor = 0] \in X
    BY <2>2, <2>3, PassPlaced
  <2> QED BY <2>1, <2>4
<1>4. DOMAIN seq = 1 .. k /\ \A n \in 1 .. k : seq[n] \in Nat /\ seq[n] < Len(steps)
  <2> HIDE DEF first, last
  <2> QED BY <1>1
<1>5. walked = fold[1 .. k]
  <2> HIDE DEF seq, start
  <2> QED BY <1>4, Zenon DEF FoldLeft, MapThenFoldSet
<1> HIDE DEF first, last, start, seq, k, walked
<1>6. step \in StepsOver(k, X)
  <2>1. \A n \in 1 .. k : \A x \in X : WalkStep(x, seq[n], table, steps, text, f) \in X
    BY <1>4, WalkStepKept
  <2> HIDE DEF X
  <2> QED BY <2>1 DEF StepsOver
<1> HIDE DEF X
<1>7. PICK g : Solves(g, k, X, start, step)
  <2> HIDE DEF step
  <2> QED BY <1>1, <1>3, <1>6, FoldExists
<1>8. Eq(g)
  <2>1. \A s \in SUBSET (1 .. k) :
          s # {} => g[s] = WalkStep(g[s \ {Max(s)}], seq[Max(s)], table, steps, text, f)
    <3> SUFFICES ASSUME NEW s \in SUBSET (1 .. k), s # {}
                 PROVE  g[s] = WalkStep(g[s \ {Max(s)}], seq[Max(s)], table, steps, text, f)
      OBVIOUS
    <3>1. Max(s) \in 1 .. k /\ g[s \ {Max(s)}] \in X
      BY <1>7 DEF Solves
    <3> QED BY <3>1, <1>7 DEF Solves
  <2> QED BY <1>4, <1>7, <2>1 DEF Solves
<1>9. Eq(fold)
  <2> HIDE DEF Eq
  <2> QED BY <1>8, Zenon
<1> HIDE DEF fold
<1>10. Folds(fold, k, X, start, step)
  BY <1>4, <1>9 DEF Folds
<1>11. PICK r : Runs(r, k, X, start, step) /\ fold[1 .. k] = r[k]
  <2> HIDE DEF step, Eq
  <2> QED BY <1>1, <1>3, <1>6, <1>10, FoldRuns
<1>12. walked \in X
  BY <1>1, <1>5, <1>11 DEF Runs
<1>13. ends \in EndsWithin(Len(walked.out))
  <2>1. walked.ends \in EndsWithin(Len(walked.out)) /\ Len(walked.out) \in Nat
    BY <1>12, PassIs DEF X
  <2>2. /\ walked.ends \in [0 .. Sections - 1 -> Nat]
        /\ \A s \in 0 .. Sections - 1 : walked.ends[s] <= Len(walked.out)
    BY <2>1 DEF EndsWithin
  <2>3. /\ ends \in [0 .. Sections - 1 -> Nat]
        /\ \A s \in 0 .. Sections - 1 :
             ends[s] = IF s >= Sections THEN Len(walked.out) ELSE walked.ends[s]
    BY <2>1, <2>2 DEF Position
  <2> HIDE DEF ends
  <2>4. \A s \in 0 .. Sections - 1 : ends[s] <= Len(walked.out)
    BY <2>1, <2>2, <2>3
  <2> QED BY <2>3, <2>4 DEF EndsWithin
<1> HIDE DEF ends
<1>14. [walked EXCEPT !.ends = ends] \in Passes(len, FALSE)
  <2>1. 0 \in Nat
    OBVIOUS
  <2> QED BY <1>12, <1>13, <2>1, PassPlaced DEF X
<1> QED BY <1>2, <1>14

LEMMA WalkRequestKept ==
  ASSUME NEW table, IsTable(table), NEW f, FillOf(f),
         NEW steps \in Seq(StepsKept), Len(steps) = table.total, NEW text \in Wording
  PROVE  \E len : WalkRequest(table, steps, text, f) \in Passes(len, FALSE)
<1> DEFINE len == BodyLen(table, steps, text, f)
           walked == Walk(table, steps, text, f, OriginSection, Sections, len)
           failed == walked.failed \/ len < 0
<1>1. walked \in Passes(len, FALSE)
  BY WalkKept
<1>2. WalkRequest(table, steps, text, f) = [walked EXCEPT !.failed = failed]
  BY Zenon DEF WalkRequest
<1>3. failed \in Flags
  BY DEF Flags
<1> HIDE DEF walked, failed, len
<1>4. [walked EXCEPT !.failed = failed] \in Passes(len, FALSE)
  BY <1>1, <1>3, PassFailed
<1> QED BY <1>2, <1>4

-----------------------------------------------------------------------------
(* Where the parts of a request are.                                       *)

\* PartsInRange, of one request.
Within(parts) ==
  LET spans == {parts.url, parts.head, parts.fields, parts.canonical, parts.body,
                parts.signature} \cup Range(parts.bodyHash) \cup Range(parts.bodyChecksum)
  IN  \A span \in spans \ {None} : span.start >= 0 /\ span.len >= 0
                                     /\ span.start + span.len <= parts.end

\* A span of what was written.
SpanIn(n, span) == span = None \/ (span.start >= 0 /\ span.len >= 0 /\ span.start + span.len <= n)

LEMMA PartsWithin ==
  ASSUME NEW len, NEW unread, NEW w \in Passes(len, unread), NEW table
  PROVE  Within(Parts(w, table))
<1> DEFINE n == Len(w.out)
           Begins(section) == IF section = OriginSection THEN 0 ELSE w.ends[section - 1]
           Of(section) == SpanOf(Begins(section), Difference(w.ends[section], Begins(section)))
           headEnd == Of(HeadSection).start + Of(HeadSection).len
           fields == CASE w.fields < Of(HeadSection).start -> Of(HeadSection).start
                       [] w.fields > headEnd        -> headEnd
                       [] OTHER                     -> w.fields
           written == SpanOf(fields, Difference(Difference(headEnd, 2), fields))
           url == SpanOf(0, w.ends[QuerySection])
           body == IF table.body THEN Of(BodySection) ELSE None
           parts == [url |-> url, head |-> Of(HeadSection), fields |-> written,
                     canonical |-> Of(CanonicalSection), body |-> body,
                     signature |-> w.signature, bodyHash |-> w.bodyHash,
                     bodyChecksum |-> w.bodyChecksum, end |-> n]
<1>1. n \in Nat /\ w.fields \in Nat
  BY PassIs
<1>2. \A s \in 0 .. 5 : w.ends[s] \in Nat /\ w.ends[s] <= n
  BY PassIs DEF EndsWithin, Sections
<1>3. ASSUME NEW s \in {HeadSection, CanonicalSection, BodySection}
      PROVE  /\ Of(s).start \in Nat /\ Of(s).len \in Nat /\ Of(s).start + Of(s).len <= n
  <2>1. w.ends[s] \in Nat /\ w.ends[s] <= n /\ w.ends[s - 1] \in Nat /\ w.ends[s - 1] <= n
        /\ s # OriginSection
    BY <1>2 DEF HeadSection, CanonicalSection, BodySection, OriginSection
  <2>2. Begins(s) = w.ends[s - 1]
    BY <2>1
  <2>3. Of(s).start = Begins(s) /\ Of(s).len = Difference(w.ends[s], Begins(s))
    BY DEF SpanOf
  <2> HIDE DEF n, Begins, Of
  <2> QED BY <1>1, <2>1, <2>2, <2>3 DEF Difference
<1>4. SpanIn(n, url)
  <2>1. w.ends[QuerySection] \in Nat /\ w.ends[QuerySection] <= n
    BY <1>2 DEF QuerySection
  <2> QED BY <1>1, <2>1 DEF SpanIn, SpanOf
<1>5. SpanIn(n, Of(HeadSection)) /\ SpanIn(n, Of(CanonicalSection)) /\ SpanIn(n, body)
  <2> HIDE DEF n, Of
  <2> QED BY <1>3 DEF SpanIn
<1>6. SpanIn(n, written)
  <2>1. Of(HeadSection).start \in Nat /\ headEnd \in Nat /\ headEnd <= n
        /\ Of(HeadSection).start <= headEnd
    BY <1>3
  <2> HIDE DEF Of, headEnd, n
  <2>2. fields \in Nat /\ fields <= headEnd
    BY <1>1, <2>1
  <2> HIDE DEF fields
  <2>3. written.start = fields /\ written.len = Difference(Difference(headEnd, 2), fields)
    BY DEF SpanOf
  <2> HIDE DEF written
  <2>4. Difference(headEnd, 2) \in Nat /\ Difference(headEnd, 2) <= headEnd
    BY <2>1 DEF Difference
  <2>5. written.len \in Nat /\ fields + written.len <= headEnd
    BY <2>2, <2>3, <2>4, <2>1 DEF Difference
  <2> QED BY <1>1, <2>1, <2>2, <2>3, <2>5 DEF SpanIn
<1>7. \A place \in Places : Inside(n, place) => SpanIn(n, place)
  <2> HIDE DEF n
  <2> QED BY DEF Inside, Places, SpanIn
<1>8. SpanIn(n, w.signature)
  BY <1>7, PassIs
<1>9. \A span \in Range(w.bodyHash) \cup Range(w.bodyChecksum) : SpanIn(n, span)
  <2>1. /\ w.bodyHash \in Seq(Places) /\ AllInside(n, w.bodyHash)
        /\ w.bodyChecksum \in Seq(Places) /\ AllInside(n, w.bodyChecksum)
    BY PassIs
  <2> HIDE DEF n
  <2>2. \A i \in 1 .. Len(w.bodyHash) : SpanIn(n, w.bodyHash[i])
    BY <1>7, <2>1 DEF AllInside
  <2>3. \A i \in 1 .. Len(w.bodyChecksum) : SpanIn(n, w.bodyChecksum[i])
    BY <1>7, <2>1 DEF AllInside
  <2> QED BY <2>1, <2>2, <2>3 DEF Range
<1>10. Parts(w, table) = parts
  BY Zenon DEF Parts, Position
<1> HIDE DEF n, Of, written, url, body
<1>11. /\ parts.url = url /\ parts.head = Of(HeadSection) /\ parts.fields = written
       /\ parts.canonical = Of(CanonicalSection) /\ parts.body = body
       /\ parts.signature = w.signature /\ parts.bodyHash = w.bodyHash
       /\ parts.bodyChecksum = w.bodyChecksum /\ parts.end = n
  OBVIOUS
<1> HIDE DEF parts
<1>12. Within(parts)
  <2> DEFINE spans == {parts.url, parts.head, parts.fields, parts.canonical, parts.body,
                       parts.signature} \cup Range(parts.bodyHash) \cup Range(parts.bodyChecksum)
  <2>1. \A span \in spans : SpanIn(n, span)
    BY <1>4, <1>5, <1>6, <1>8, <1>9, <1>11
  <2> HIDE DEF spans
  <2>2. \A span \in spans \ {None} : span.start >= 0 /\ span.len >= 0
                                       /\ span.start + span.len <= parts.end
    BY <1>11, <2>1 DEF SpanIn
  <2> QED BY <2>2 DEF Within, spans
<1> QED BY <1>10, <1>12

-----------------------------------------------------------------------------
(* What the Builder has closed of its table, and what it still writes to.   *)

Closed(b) == IF b.open THEN Len(b.steps) - 1 ELSE Len(b.steps)
Pending(b) == IF b.open THEN b.steps[Len(b.steps)].len ELSE 0

\* An open step has a run alone, which is the last of the text, and no step is
\* counted in a section that has not begun.
Neat(b) ==
  /\ b \in Builders
  /\ b.open => b.steps[Len(b.steps)] = [EmptyStep EXCEPT !.len = Pending(b)]
  /\ Pending(b) <= Len(b.text)
  /\ \A s \in 0 .. Sections - 1 : s > b.section => b.counts[s] = 0

\* What a builder becomes: what it has closed stays, and its text goes on.
StepsStay(b, c) == Closed(b) <= Closed(c) /\ \A n \in 1 .. Closed(b) : c.steps[n] = b.steps[n]
TextStays(b, c) == Len(b.text) <= Len(c.text) /\ \A n \in 1 .. Len(b.text) : c.text[n] = b.text[n]
RunStays(b, c) == b.open => Len(c.steps) > Closed(b) /\ c.steps[Closed(b) + 1].len >= Pending(b)
CountsStay(b, c) ==
  /\ b.section <= c.section
  /\ \A s \in 0 .. Sections - 1 : s < b.section => c.counts[s] = b.counts[s]
ParamsStay(b, c) == b.optional => c.optional /\ c.params = b.params
Grows(b, c) ==
  StepsStay(b, c) /\ TextStays(b, c) /\ RunStays(b, c) /\ CountsStay(b, c) /\ ParamsStay(b, c)

LEMMA BuilderIs ==
  ASSUME NEW b \in Builders
  PROVE  /\ b \in BuilderRecords /\ CountOf(b.counts) = Len(b.steps)
         /\ b.text \in Wording /\ Len(b.text) \in Nat
         /\ b.steps \in Seq(StepsKept) /\ Len(b.steps) \in Nat
         /\ b.counts \in [0 .. Sections - 1 -> Nat] /\ b.section \in 0 .. Sections - 1
         /\ b.open \in BOOLEAN /\ b.fields \in Nat \X Nat /\ b.params \in Nat /\ b.optional \in BOOLEAN
         /\ Closed(b) \in Nat /\ Pending(b) \in Nat
         /\ b.open => Len(b.steps) >= 1 /\ Closed(b) + 1 = Len(b.steps)
                      /\ Pending(b) = b.steps[Closed(b) + 1].len
         /\ ~ b.open => Closed(b) = Len(b.steps) /\ Pending(b) = 0
<1>1. b \in BuilderRecords /\ CountOf(b.counts) = Len(b.steps) /\ (b.open => b.steps # <<>>)
  BY DEF Builders
<1>2. /\ b.text \in Wording /\ Len(b.text) \in Nat
      /\ b.steps \in Seq(StepsKept) /\ Len(b.steps) \in Nat
      /\ b.counts \in [0 .. Sections - 1 -> Nat] /\ b.section \in 0 .. Sections - 1
      /\ b.open \in BOOLEAN /\ b.fields \in Nat \X Nat /\ b.params \in Nat /\ b.optional \in BOOLEAN
  BY <1>1 DEF BuilderRecords, Wording
<1>3. b.open => Len(b.steps) >= 1 /\ b.steps[Len(b.steps)] \in StepsKept
  BY <1>1, <1>2
<1>4. /\ Closed(b) \in Nat /\ Pending(b) \in Nat
      /\ b.open => Len(b.steps) >= 1 /\ Closed(b) + 1 = Len(b.steps)
                      /\ Pending(b) = b.steps[Closed(b) + 1].len
      /\ ~ b.open => Closed(b) = Len(b.steps) /\ Pending(b) = 0
  BY <1>2, <1>3 DEF Closed, Pending, StepsKept
<1> QED BY <1>1, <1>2, <1>4

LEMMA GrowsSelf ==
  ASSUME NEW b \in Builders
  PROVE  Grows(b, b)
BY BuilderIs DEF Grows, StepsStay, TextStays, RunStays, CountsStay, ParamsStay

LEMMA GrowsOn ==
  ASSUME NEW b \in Builders, NEW c \in Builders, NEW d \in Builders, Grows(b, c), Grows(c, d)
  PROVE  Grows(b, d)
<1>1. /\ Closed(b) \in Nat /\ Closed(c) \in Nat /\ Closed(d) \in Nat
      /\ Pending(b) \in Nat /\ Pending(c) \in Nat
      /\ Len(b.text) \in Nat /\ Len(c.text) \in Nat /\ Len(d.text) \in Nat
      /\ Len(c.steps) \in Nat /\ Len(d.steps) \in Nat
      /\ b.section \in 0 .. Sections - 1 /\ c.section \in 0 .. Sections - 1 /\ d.section \in 0 .. Sections - 1
      /\ d.steps \in Seq(StepsKept)
  BY BuilderIs
<1>2. /\ StepsStay(b, c) /\ TextStays(b, c) /\ RunStays(b, c) /\ CountsStay(b, c) /\ ParamsStay(b, c)
      /\ StepsStay(c, d) /\ TextStays(c, d) /\ RunStays(c, d) /\ CountsStay(c, d) /\ ParamsStay(c, d)
  BY DEF Grows
<1>3. StepsStay(b, d)
  <2> DEFINE k == Closed(b)
             l == Closed(c)
  <2>1. k <= l /\ l <= Closed(d) /\ k \in Nat /\ l \in Nat
        /\ (\A n \in 1 .. k : c.steps[n] = b.steps[n]) /\ \A n \in 1 .. l : d.steps[n] = c.steps[n]
    BY <1>1, <1>2 DEF StepsStay
  <2> HIDE DEF k, l
  <2>2. \A n \in 1 .. k : n \in 1 .. l
    BY <2>1
  <2>3. \A n \in 1 .. k : d.steps[n] = b.steps[n]
    BY <2>1, <2>2
  <2>4. Closed(b) <= Closed(d)
    BY <1>1, <2>1 DEF k
  <2> QED BY <2>3, <2>4 DEF StepsStay, k
<1>4. TextStays(b, d)
  <2> DEFINE k == Len(b.text)
             l == Len(c.text)
  <2>1. k <= l /\ l <= Len(d.text) /\ k \in Nat /\ l \in Nat
        /\ (\A n \in 1 .. k : c.text[n] = b.text[n]) /\ \A n \in 1 .. l : d.text[n] = c.text[n]
    BY <1>1, <1>2 DEF TextStays
  <2> HIDE DEF k, l
  <2>2. \A n \in 1 .. k : n \in 1 .. l
    BY <2>1
  <2>3. \A n \in 1 .. k : d.text[n] = b.text[n]
    BY <2>1, <2>2
  <2>4. Len(b.text) <= Len(d.text)
    BY <1>1, <2>1 DEF k
  <2> QED BY <2>3, <2>4 DEF TextStays, k
<1>5. RunStays(b, d)
  <2> SUFFICES ASSUME b.open
               PROVE  Len(d.steps) > Closed(b) /\ d.steps[Closed(b) + 1].len >= Pending(b)
    BY DEF RunStays
  <2>1. Len(c.steps) > Closed(b) /\ c.steps[Closed(b) + 1].len >= Pending(b)
    BY <1>2 DEF RunStays
  <2>2. Closed(d) <= Len(d.steps)
    BY SMTT(20), <1>1, BuilderIs
  <2>3. CASE Closed(b) < Closed(c)
    <3>0. Closed(b) + 1 \in 1 .. Closed(c)
      BY SMTT(20), <1>1, <2>3
    <3>1. d.steps[Closed(b) + 1] = c.steps[Closed(b) + 1] /\ Closed(c) <= Closed(d)
      BY <1>2, <3>0 DEF StepsStay
    <3> QED BY <1>1, <2>1, <2>2, <2>3, <3>1
  <2>4. CASE Closed(b) = Closed(c)
    <3>1. c.open /\ Pending(c) = c.steps[Closed(b) + 1].len
      BY <1>1, <2>1, <2>4, BuilderIs
    <3>2. Len(d.steps) > Closed(b) /\ d.steps[Closed(b) + 1].len >= Pending(c)
      BY <1>2, <2>4, <3>1 DEF RunStays
    <3>3. d.steps[Closed(b) + 1] \in StepsKept
      BY <1>1, <3>2
    <3>4. d.steps[Closed(b) + 1].len \in Nat
      BY <3>3 DEF StepsKept
    <3> QED BY SMTT(20), <1>1, <2>1, <3>1, <3>2, <3>4
  <2> QED BY <1>1, <1>2, <2>3, <2>4 DEF StepsStay
<1>6. CountsStay(b, d)
  <2>1. b.section \in Int /\ c.section \in Int /\ d.section \in Int
    BY SMTT(20), <1>1 DEF Sections
  <2>2. \A s \in 0 .. Sections - 1 : s \in Int
    BY DEF Sections
  <2> QED BY <1>2, <2>1, <2>2 DEF CountsStay
<1>7. ParamsStay(b, d)
  BY <1>2 DEF ParamsStay
<1> QED BY <1>3, <1>4, <1>5, <1>6, <1>7 DEF Grows

\* What does not change with its table.
Else(b, c) == c.section = b.section /\ c.params = b.params /\ c.optional = b.optional /\ c.fields = b.fields

\* One more step is closed: what it holds.
Closes(b, c, hole, name, ends) ==
  /\ Neat(c) /\ Grows(b, c)
  /\ ~ c.open /\ Closed(c) = Closed(b) + 1
  /\ c.steps[Closed(b) + 1] = [len |-> Pending(b), hole |-> hole, name |-> name, ends |-> ends]

\* The run of the open step is longer.
LEMMA TextGrows ==
  ASSUME NEW b, Neat(b), NEW text \in Wording
  PROVE  /\ Neat(BuildText(b, text)) /\ Grows(b, BuildText(b, text))
         /\ Closed(BuildText(b, text)) = Closed(b)
         /\ Pending(BuildText(b, text)) = Pending(b) + Len(text)
         /\ BuildText(b, text).text = b.text \o text
         /\ Else(b, BuildText(b, text))
<1> DEFINE c == BuildText(b, text)
           n == Len(b.steps)
           step == [EmptyStep EXCEPT !.len = Pending(b) + Len(text)]
<1>0. b \in Builders /\ c \in Builders /\ Len(text) \in Nat
  BY BuildTextKept DEF Neat, Wording
<1>1. CASE text = <<>>
  <2>1. c = b /\ b.text \o text = b.text /\ Len(text) = 0
    BY <1>0, <1>1, BuilderIs DEF BuildText, Wording
  <2> QED BY <1>0, <2>1, GrowsSelf, BuilderIs DEF Else
<1>2. CASE text # <<>>
  <2>1. /\ b.text \o text \in Wording /\ Len(b.text \o text) = Len(b.text) + Len(text)
        /\ \A i \in 1 .. Len(b.text) : (b.text \o text)[i] = b.text[i]
    BY <1>0, BuilderIs DEF Wording
  <2>2. /\ c.text = b.text \o text /\ Else(b, c) /\ c.open
        /\ \A s \in 0 .. Sections - 1 : s # b.section => c.counts[s] = b.counts[s]
        /\ Len(c.steps) = Closed(b) + 1 /\ c.steps[Closed(b) + 1] = step
        /\ \A i \in 1 .. Closed(b) : c.steps[i] = b.steps[i]
    <3>1. CASE b.open
      <4>1. c = [b EXCEPT !.text = b.text \o text, !.steps[n].len = @ + Len(text)]
        BY <1>2, <3>1, <1>0, BuilderIs DEF BuildText, LastStep, BuilderRecords
      <4>2. /\ c.text = b.text \o text /\ c.open = b.open /\ Else(b, c) /\ c.counts = b.counts
            /\ c.steps = [b.steps EXCEPT ![n].len = @ + Len(text)]
        BY <1>0, <4>1, BuilderIs DEF BuilderRecords, Else
      <4>3. b.steps[n] = [EmptyStep EXCEPT !.len = Pending(b)] /\ n = Closed(b) + 1 /\ n \in 1 .. n
        BY <1>0, <3>1, BuilderIs DEF Neat
      <4>4. Len(c.steps) = n /\ c.steps[n] = [b.steps[n] EXCEPT !.len = @ + Len(text)]
            /\ \A i \in 1 .. n : i # n => c.steps[i] = b.steps[i]
        BY <1>0, <4>2, <4>3, BuilderIs
      <4>5. c.steps[n] = step
        BY <1>0, <4>3, <4>4, BuilderIs DEF EmptyStep
      <4> QED BY <1>0, <3>1, <4>2, <4>3, <4>4, <4>5, BuilderIs
    <3>2. CASE ~ b.open
      <4>1. c = [PushIn([b EXCEPT !.text = b.text \o text], b.section, [EmptyStep EXCEPT !.len = Len(text)])
                   EXCEPT !.open = TRUE]
        BY <1>2, <3>2 DEF BuildText
      <4>2. /\ c.text = b.text \o text /\ c.open /\ Else(b, c)
            /\ c.counts = [b.counts EXCEPT ![b.section] = @ + 1]
            /\ c.steps = Append(b.steps, [EmptyStep EXCEPT !.len = Len(text)])
        BY <1>0, <4>1, BuilderIs DEF BuilderRecords, Else, PushIn
      <4>3. Closed(b) = n /\ Pending(b) = 0 /\ b.steps \in Seq(StepsKept) /\ n \in Nat
            /\ b.counts \in [0 .. Sections - 1 -> Nat]
        BY <1>0, <3>2, BuilderIs
      <4>4. Len(c.steps) = n + 1 /\ c.steps[n + 1] = [EmptyStep EXCEPT !.len = Len(text)]
            /\ \A i \in 1 .. n : c.steps[i] = b.steps[i]
        BY <4>2, <4>3
      <4>5. [EmptyStep EXCEPT !.len = Len(text)] = step
        BY <1>0, <4>3
      <4>6. \A s \in 0 .. Sections - 1 : s # b.section => c.counts[s] = b.counts[s]
        BY <4>2, <4>3
      <4> HIDE DEF step
      <4> QED BY <4>2, <4>3, <4>4, <4>5, <4>6
    <3> QED BY <1>0, <3>1, <3>2, BuilderIs
  <2>3. step.len = Pending(b) + Len(text)
    BY DEF EmptyStep
  <2> HIDE DEF c, step
  <2>4. Closed(c) = Closed(b) /\ Pending(c) = Pending(b) + Len(text)
    BY SMTT(20), <1>0, <2>2, <2>3, BuilderIs
  <2>5. Neat(c)
    <3>1. Pending(c) <= Len(c.text)
      BY <1>0, <2>1, <2>2, <2>4, BuilderIs DEF Neat
    <3>2. c.steps[Len(c.steps)] = [EmptyStep EXCEPT !.len = Pending(c)]
      BY <2>2, <2>4 DEF step
    <3>3. \A s \in 0 .. Sections - 1 : s > c.section => c.counts[s] = 0
      <4>1. \A s \in 0 .. Sections - 1 : s > b.section => b.counts[s] = 0 /\ s # b.section
        <5>1. b.section \in Int /\ \A s \in 0 .. Sections - 1 : s \in Int
          BY <1>0, BuilderIs DEF Sections
        <5> QED BY <5>1 DEF Neat
      <4> QED BY <2>2, <4>1 DEF Else
    <3> QED BY <1>0, <3>1, <3>2, <3>3 DEF Neat
  <2>6. Grows(b, c)
    <3>1. RunStays(b, c)
      BY <1>0, <2>2, <2>3, BuilderIs DEF RunStays
    <3>2. CountsStay(b, c)
      <4>1. b.section \in Int /\ \A s \in 0 .. Sections - 1 : s \in Int
        BY <1>0, BuilderIs DEF Sections
      <4> QED BY <2>2, <4>1 DEF CountsStay, Else
    <3>3. StepsStay(b, c)
      BY <1>0, <2>2, <2>4, BuilderIs DEF StepsStay
    <3>4. TextStays(b, c)
      BY <1>0, <2>1, <2>2, BuilderIs DEF TextStays
    <3>5. ParamsStay(b, c)
      BY <2>2 DEF ParamsStay, Else
    <3> QED BY <3>1, <3>2, <3>3, <3>4, <3>5 DEF Grows
  <2> QED BY <2>2, <2>4, <2>5, <2>6 DEF c
<1> QED BY <1>1, <1>2

LEMMA SectionIs == Sections = 6 /\ \A s \in 0 .. Sections - 1 : s \in Int
BY DEF Sections

\* Steps, field by field.
LEMMA StepIs ==
  ASSUME NEW len, NEW hole, NEW ends
  PROVE  /\ [EmptyStep EXCEPT !.hole = hole] = [len |-> 0, hole |-> hole, name |-> 0, ends |-> {}]
         /\ [EmptyStep EXCEPT !.len = len] = [len |-> len, hole |-> NoHole, name |-> 0, ends |-> {}]
         /\ [[len |-> len, hole |-> NoHole, name |-> 0, ends |-> {}] EXCEPT !.hole = hole]
              = [len |-> len, hole |-> hole, name |-> 0, ends |-> {}]
         /\ [[len |-> len, hole |-> hole, name |-> 0, ends |-> {}] EXCEPT !.name = 1]
              = [len |-> len, hole |-> hole, name |-> 1, ends |-> {}]
         /\ [[len |-> len, hole |-> hole, name |-> 0, ends |-> {}] EXCEPT !.ends = ends]
              = [len |-> len, hole |-> hole, name |-> 0, ends |-> ends]
BY DEF EmptyStep

\* A step that is closed is the open one, or a new one.
LEMMA ClosesIs ==
  ASSUME NEW b, Neat(b), NEW c \in Builders, ~ c.open, NEW hole, NEW name \in Nat, NEW ends,
         Len(c.steps) = Closed(b) + 1,
         \A i \in 1 .. Closed(b) : c.steps[i] = b.steps[i],
         c.steps[Closed(b) + 1] = [len |-> Pending(b), hole |-> hole, name |-> name, ends |-> ends],
         TextStays(b, c), CountsStay(b, c), ParamsStay(b, c),
         \A s \in 0 .. Sections - 1 : s > c.section => c.counts[s] = 0
  PROVE  Closes(b, c, hole, name, ends)
<1>0. b \in Builders
  BY DEF Neat
<1>1. Closed(c) = Closed(b) + 1 /\ Pending(c) = 0 /\ Pending(c) <= Len(c.text) /\ Closed(b) \in Nat
      /\ Pending(b) \in Nat
  BY <1>0, BuilderIs
<1>2. Neat(c)
  BY <1>1 DEF Neat
<1>3. StepsStay(b, c)
  BY <1>1 DEF StepsStay
<1>4. RunStays(b, c)
  BY <1>1 DEF RunStays
<1> QED BY <1>1, <1>2, <1>3, <1>4 DEF Closes, Grows

\* A step more in the section that is written, or in a later one.
LEMMA CountsOn ==
  ASSUME NEW b, Neat(b), NEW c \in Builders, NEW s \in 0 .. Sections - 1, s >= b.section, s <= c.section,
         c.counts = b.counts \/ c.counts = [b.counts EXCEPT ![s] = @ + 1]
  PROVE  CountsStay(b, c) /\ \A t \in 0 .. Sections - 1 : t > c.section => c.counts[t] = 0
<1>0. b \in Builders
  BY DEF Neat
<1>1. b.section \in Int /\ c.section \in Int /\ s \in Int /\ \A t \in 0 .. Sections - 1 : t \in Int
  <2>1. b.section \in 0 .. Sections - 1 /\ c.section \in 0 .. Sections - 1
    BY <1>0, BuilderIs
  <2> QED BY <2>1, SectionIs
<1>2. \A t \in 0 .. Sections - 1 : t # s => c.counts[t] = b.counts[t]
  BY <1>0, BuilderIs
<1>3. CountsStay(b, c)
  BY <1>1, <1>2 DEF CountsStay
<1>4. \A t \in 0 .. Sections - 1 : t > c.section => t > b.section /\ t # s
  BY <1>1
<1> QED BY <1>2, <1>3, <1>4 DEF Neat

LEMMA HoleCloses ==
  ASSUME NEW b, Neat(b), NEW hole \in Words
  PROVE  /\ Closes(b, BuildHole(b, hole), hole, 0, {})
         /\ BuildHole(b, hole).text = b.text
         /\ Else(b, BuildHole(b, hole))
<1> DEFINE c == BuildHole(b, hole)
           n == Len(b.steps)
           step == [len |-> Pending(b), hole |-> hole, name |-> 0, ends |-> {}]
<1>0. b \in Builders /\ c \in Builders
  BY BuildHoleKept DEF Neat
<1>1. /\ c.text = b.text /\ Else(b, c) /\ ~ c.open
      /\ c.counts = b.counts \/ c.counts = [b.counts EXCEPT ![b.section] = @ + 1]
      /\ Len(c.steps) = Closed(b) + 1 /\ c.steps[Closed(b) + 1] = step
      /\ \A i \in 1 .. Closed(b) : c.steps[i] = b.steps[i]
  <2>1. CASE b.open
    <3>1. c = [b EXCEPT !.steps = [b.steps EXCEPT ![n].hole = hole], !.open = FALSE]
      BY <2>1, <1>0, BuilderIs DEF BuildHole, LastStep, BuilderRecords
    <3>2. /\ c.text = b.text /\ ~ c.open /\ Else(b, c) /\ c.counts = b.counts
          /\ c.steps = [b.steps EXCEPT ![n].hole = hole]
      BY <1>0, <3>1, BuilderIs DEF BuilderRecords, Else
    <3>3. b.steps[n] = [EmptyStep EXCEPT !.len = Pending(b)] /\ n = Closed(b) + 1 /\ n \in 1 .. n
          /\ b.steps \in Seq(StepsKept) /\ n \in Nat
      BY <1>0, <2>1, BuilderIs DEF Neat
    <3>4. Len(c.steps) = n /\ c.steps[n] = [b.steps[n] EXCEPT !.hole = hole]
          /\ \A i \in 1 .. n : i # n => c.steps[i] = b.steps[i]
      BY <3>2, <3>3
    <3>5. c.steps[n] = step
      BY <3>3, <3>4 DEF EmptyStep
    <3> HIDE DEF c, step
    <3>6. \A i \in 1 .. Closed(b) : i \in 1 .. n /\ i # n
      BY <1>0, <3>3, BuilderIs
    <3> QED BY <3>2, <3>3, <3>4, <3>5, <3>6
  <2>2. CASE ~ b.open
    <3>1. c = [PushIn(b, b.section, [EmptyStep EXCEPT !.hole = hole]) EXCEPT !.open = FALSE]
      BY <2>2 DEF BuildHole
    <3>2. /\ c.text = b.text /\ ~ c.open /\ Else(b, c)
          /\ c.counts = [b.counts EXCEPT ![b.section] = @ + 1]
          /\ c.steps = Append(b.steps, [EmptyStep EXCEPT !.hole = hole])
      BY <1>0, <3>1, BuilderIs DEF BuilderRecords, Else, PushIn
    <3>3. Closed(b) = n /\ Pending(b) = 0 /\ b.steps \in Seq(StepsKept) /\ n \in Nat
      BY <1>0, <2>2, BuilderIs
    <3>4. Len(c.steps) = n + 1 /\ c.steps[n + 1] = [EmptyStep EXCEPT !.hole = hole]
          /\ \A i \in 1 .. n : c.steps[i] = b.steps[i]
      BY <3>2, <3>3
    <3>5. [EmptyStep EXCEPT !.hole = hole] = step
      BY <3>3, StepIs
    <3> HIDE DEF step
    <3> QED BY <3>2, <3>3, <3>4, <3>5
  <2> QED BY <1>0, <2>1, <2>2, BuilderIs
<1> HIDE DEF c
<1>2. TextStays(b, c) /\ ParamsStay(b, c)
  BY <1>0, <1>1, BuilderIs DEF TextStays, ParamsStay, Else
<1>3. CountsStay(b, c) /\ \A s \in 0 .. Sections - 1 : s > c.section => c.counts[s] = 0
  <2>1. b.section \in 0 .. Sections - 1 /\ c.section = b.section
    BY <1>0, <1>1, BuilderIs DEF Else
  <2>2. b.section >= b.section /\ b.section <= c.section
    BY <2>1, SectionIs
  <2> QED BY <1>0, <1>1, <2>1, <2>2, CountsOn
<1>4. Closes(b, c, hole, 0, {})
  <2>1. 0 \in Nat
    OBVIOUS
  <2> QED BY <1>0, <1>1, <1>2, <1>3, <2>1, ClosesIs
<1> QED BY <1>1, <1>4 DEF c

\* The name of an optional parameter, which follows the run of its step.
Named(b, name) == [b EXCEPT !.text = @ \o <<name>>, !.steps[LastStep(b)].name = 1]

LEMMA NameCloses ==
  ASSUME NEW b, Neat(b), NEW hole \in Words, NEW name \in Words
  PROVE  LET c == Named(BuildHole(b, hole), name)
         IN  /\ Closes(b, c, hole, 1, {})
             /\ c.text = b.text \o <<name>>
             /\ Else(b, c)
<1> DEFINE h == BuildHole(b, hole)
           c == Named(h, name)
           n == Closed(b) + 1
           step == [len |-> Pending(b), hole |-> hole, name |-> 1, ends |-> {}]
<1>0. b \in Builders /\ h \in Builders /\ Len(h.steps) > 0
  BY BuildHoleKept DEF Neat
<1>1. Closes(b, h, hole, 0, {}) /\ h.text = b.text /\ Else(b, h)
  BY HoleCloses
<1> HIDE DEF h
<1>2. /\ Neat(h) /\ Grows(b, h) /\ ~ h.open /\ Closed(h) = n /\ Len(h.steps) = n
      /\ h.steps[n] = [len |-> Pending(b), hole |-> hole, name |-> 0, ends |-> {}]
      /\ n \in 1 .. n /\ h.steps \in Seq(StepsKept) /\ Pending(b) \in Nat /\ Closed(b) \in Nat
  BY <1>0, <1>1, BuilderIs DEF Closes
<1>3. c = [h EXCEPT !.text = h.text \o <<name>>, !.steps = [h.steps EXCEPT ![n].name = 1]]
  BY <1>0, <1>2, BuilderIs DEF Named, LastStep, BuilderRecords
<1>4. /\ c.text = b.text \o <<name>> /\ ~ c.open /\ Else(b, c) /\ c.counts = h.counts
      /\ c.steps = [h.steps EXCEPT ![n].name = 1]
  BY <1>0, <1>1, <1>2, <1>3, BuilderIs DEF BuilderRecords, Else
<1>5. Len(c.steps) = n /\ c.steps[n] = step /\ \A i \in 1 .. Closed(b) : c.steps[i] = b.steps[i]
  <2>1. Len(c.steps) = n /\ c.steps[n] = [h.steps[n] EXCEPT !.name = 1]
        /\ \A i \in 1 .. n : i # n => c.steps[i] = h.steps[i]
    BY <1>2, <1>4
  <2>2. \A i \in 1 .. Closed(b) : h.steps[i] = b.steps[i] /\ i \in 1 .. n /\ i # n
    BY <1>2 DEF Grows, StepsStay
  <2>3. c.steps[n] = step
    <3>1. h.steps[n] = [len |-> Pending(b), hole |-> hole, name |-> 0, ends |-> {}]
      BY <1>2
    <3>2. [h.steps[n] EXCEPT !.name = 1] = step
      BY <3>1, StepIs
    <3> HIDE DEF step, c, n
    <3> QED BY <2>1, <3>2
  <2> HIDE DEF c, step, n
  <2> QED BY <2>1, <2>2, <2>3
<1>6. c \in Builders
  <2>1. step \in StepsKept
    BY <1>2 DEF StepsKept
  <2>2. Changed(h, n, [h.steps[n] EXCEPT !.name = 1]) \in Builders
        /\ [h.steps[n] EXCEPT !.name = 1] = step
    <3>1. h.steps[n] = [len |-> Pending(b), hole |-> hole, name |-> 0, ends |-> {}]
      BY <1>2
    <3>2. [h.steps[n] EXCEPT !.name = 1] = step
      BY <3>1, StepIs
    <3> HIDE DEF step, n
    <3> QED BY <1>0, <1>2, <2>1, <3>2, ChangedKept
  <2>3. c = [Changed(h, n, step) EXCEPT !.text = h.text \o <<name>>]
    <3>1. h.steps = [i \in 1 .. n |-> h.steps[i]] /\ h \in BuilderRecords
      BY <1>0, <1>2, BuilderIs
    <3>2. [h.steps EXCEPT ![n].name = 1] = [h.steps EXCEPT ![n] = step]
      BY <1>2, <2>2, <3>1
    <3> HIDE DEF step, n, c
    <3> QED BY <1>3, <3>1, <3>2 DEF Changed, BuilderRecords
  <2>4. h.text \o <<name>> \in Wording
    BY <1>0, BuilderIs, WordingIs
  <2> HIDE DEF c, step
  <2> QED BY <2>2, <2>3, <2>4 DEF Builders, BuilderRecords
<1> HIDE DEF c
<1>7. TextStays(b, c) /\ ParamsStay(b, c)
  <2>1. b.text \in Seq(Words) /\ <<name>> \in Seq(Words) /\ Len(b.text) \in Nat
    BY <1>0, BuilderIs, WordingIs DEF Wording
  <2> QED BY <1>4, <2>1 DEF TextStays, ParamsStay, Else
<1>8. CountsStay(b, c) /\ \A s \in 0 .. Sections - 1 : s > c.section => c.counts[s] = 0
  BY <1>1, <1>2, <1>4 DEF Grows, CountsStay, Else, Neat
<1>9. Closes(b, c, hole, 1, {})
  <2>1. 1 \in Nat
    OBVIOUS
  <2> QED BY <1>4, <1>5, <1>6, <1>7, <1>8, <2>1, ClosesIs
<1> QED BY <1>4, <1>9 DEF c, h

\* The end of a section: a step of text alone.
Later(s) == IF s < Sections - 1 THEN s + 1 ELSE s
EndOf(b) == [EndSection(b, b.section) EXCEPT !.section = Later(b.section), !.open = FALSE]

LEMMA EndCloses ==
  ASSUME NEW b, Neat(b)
  PROVE  /\ Closes(b, EndOf(b), NoHole, 0, {b.section})
         /\ EndOf(b).text = b.text /\ EndOf(b).section = Later(b.section)
         /\ EndOf(b).params = b.params /\ EndOf(b).optional = b.optional /\ EndOf(b).fields = b.fields
         /\ \A s \in 0 .. Sections - 1 : s > b.section => EndOf(b).counts[s] = 0
<1> DEFINE c == EndOf(b)
           section == b.section
           n == Closed(b) + 1
           step == [len |-> Pending(b), hole |-> NoHole, name |-> 0, ends |-> {section}]
           closed == IF b.open THEN b ELSE PushIn(b, section, EmptyStep)
           ended == EndSection(b, section)
<1>0. b \in Builders /\ section \in 0 .. Sections - 1 /\ ended \in Builders
  BY EndSectionKept, BuilderIs DEF Neat
<1>1. Closed(b) \in Nat /\ Pending(b) \in Nat /\ b.steps \in Seq(StepsKept)
      /\ b.counts \in [0 .. Sections - 1 -> Nat]
  BY <1>0, BuilderIs
<1>2. /\ closed.text = b.text /\ Else(b, closed)
      /\ closed.counts = b.counts \/ closed.counts = [b.counts EXCEPT ![section] = @ + 1]
      /\ closed.steps \in Seq(StepsKept) /\ Len(closed.steps) = n
      /\ closed.steps[n] = [EmptyStep EXCEPT !.len = Pending(b)]
      /\ \A i \in 1 .. Closed(b) : closed.steps[i] = b.steps[i]
      /\ closed \in BuilderRecords
  <2>1. CASE b.open
    <3>1. closed = b
      BY <2>1
    <3> HIDE DEF closed
    <3> QED BY <1>0, <1>1, <2>1, <3>1, BuilderIs DEF Else, Neat
  <2>2. CASE ~ b.open
    <3>1. closed = PushIn(b, section, EmptyStep) /\ closed \in Builders
      BY <1>0, <2>2, EmptyStepKept, PushInKept
    <3>2. closed \in BuilderRecords
      BY <3>1, BuilderIs
    <3> HIDE DEF closed
    <3>3. /\ closed.text = b.text /\ Else(b, closed) /\ closed.counts = [b.counts EXCEPT ![section] = @ + 1]
          /\ closed.steps = Append(b.steps, EmptyStep)
      BY <1>0, <3>1, BuilderIs DEF BuilderRecords, Else, PushIn
    <3>4. Closed(b) = Len(b.steps) /\ Pending(b) = 0
      BY <1>0, <2>2, BuilderIs
    <3>5. closed.steps \in Seq(StepsKept) /\ Len(closed.steps) = n /\ closed.steps[n] = EmptyStep
          /\ \A i \in 1 .. Closed(b) : closed.steps[i] = b.steps[i]
      BY <1>1, <3>3, <3>4, EmptyStepKept
    <3>6. EmptyStep = [EmptyStep EXCEPT !.len = 0]
      BY DEF EmptyStep
    <3> QED BY <3>2, <3>3, <3>4, <3>5, <3>6
  <2> QED BY <2>1, <2>2
<1>3. ended = [closed EXCEPT !.steps[n].ends = @ \cup {section}]
  BY <1>2 DEF EndSection, LastStep
<1> HIDE DEF closed, ended
<1>4. c = [ended EXCEPT !.section = Later(section), !.open = FALSE]
  BY DEF EndOf, ended
<1>5. n \in 1 .. n /\ closed.steps[n] = [len |-> Pending(b), hole |-> NoHole, name |-> 0, ends |-> {}]
  <2>1. n \in 1 .. n
    BY <1>1
  <2> HIDE DEF n
  <2> QED BY <1>2, <2>1, StepIs
<1>6. /\ ended.text = b.text /\ ended.params = b.params /\ ended.optional = b.optional
      /\ ended.fields = b.fields /\ ended.counts = closed.counts
      /\ ended.steps = [closed.steps EXCEPT ![n].ends = @ \cup {section}]
  BY <1>2, <1>3 DEF BuilderRecords, Else
<1>7. /\ Len(ended.steps) = n /\ ended.steps[n] = step
      /\ \A i \in 1 .. Closed(b) : ended.steps[i] = b.steps[i]
  <2>1. /\ Len(ended.steps) = n
        /\ ended.steps[n] = [closed.steps[n] EXCEPT !.ends = closed.steps[n].ends \cup {section}]
        /\ \A i \in 1 .. n : i # n => ended.steps[i] = closed.steps[i]
    <3> HIDE DEF n
    <3>1. DOMAIN closed.steps = 1 .. n /\ n \in Nat /\ closed.steps \in Seq(StepsKept)
      BY <1>2
    <3>2. closed.steps[n].ends = {}
      BY <1>5
    <3> DEFINE one == [closed.steps[n] EXCEPT !.ends = closed.steps[n].ends \cup {section}]
    <3>3. ended.steps = [closed.steps EXCEPT ![n] = one]
      BY <1>6
    <3> HIDE DEF one
    <3>4. Len(ended.steps) = n /\ ended.steps[n] = one
          /\ \A i \in 1 .. n : i # n => ended.steps[i] = closed.steps[i]
      BY <1>2, <1>5, <3>1, <3>3
    <3> QED BY <3>4 DEF one
  <2>2. closed.steps[n].ends \cup {section} = {section}
    BY <1>5
  <2>3. [closed.steps[n] EXCEPT !.ends = {section}] = step
    <3> DEFINE ends == {section}
    <3>1. [[len |-> Pending(b), hole |-> NoHole, name |-> 0, ends |-> {}] EXCEPT !.ends = ends]
            = [len |-> Pending(b), hole |-> NoHole, name |-> 0, ends |-> ends]
      BY StepIs
    <3> HIDE DEF n
    <3> QED BY <1>5, <3>1
  <2>4. \A i \in 1 .. Closed(b) : i \in 1 .. n /\ i # n
    BY <1>1
  <2> HIDE DEF step, n
  <2> QED BY <1>2, <2>1, <2>2, <2>3, <2>4
<1> HIDE DEF c, step
<1>8. /\ c.text = b.text /\ c.params = b.params /\ c.optional = b.optional /\ c.fields = b.fields
      /\ c.counts = closed.counts /\ c.steps = ended.steps /\ ~ c.open /\ c.section = Later(section)
      /\ c \in Builders
  <2>1. Later(section) \in 0 .. Sections - 1
    BY <1>0, SectionIs DEF Later
  <2>2. ended \in BuilderRecords
    BY <1>0, BuilderIs
  <2> QED BY <1>0, <1>4, <1>6, <2>1, <2>2 DEF Builders, BuilderRecords
<1>9. Later(section) >= section /\ section >= b.section /\ section \in Int
      /\ \A s \in 0 .. Sections - 1 : s \in Int
  BY <1>0, SectionIs DEF Later
<1>10. CountsStay(b, c) /\ (\A s \in 0 .. Sections - 1 : s > c.section => c.counts[s] = 0)
  <2>1. section <= c.section /\ c \in Builders
    BY <1>8, <1>9
  <2>2. c.counts = b.counts \/ c.counts = [b.counts EXCEPT ![section] = @ + 1]
    BY <1>2, <1>8
  <2>3. section >= b.section /\ section \in 0 .. Sections - 1
    BY <1>0, <1>9
  <2> HIDE DEF section
  <2> QED BY <2>1, <2>2, <2>3, CountsOn
<1>11. \A s \in 0 .. Sections - 1 : s > section => c.counts[s] = 0
  <2>1. \A s \in 0 .. Sections - 1 : s > section => s # section
    BY <1>9
  <2>2. \A s \in 0 .. Sections - 1 : s > section => closed.counts[s] = b.counts[s]
    BY <1>1, <1>2, <2>1
  <2> QED BY <1>8, <2>2 DEF Neat
<1>12. Closes(b, c, NoHole, 0, {section})
  <2>1. TextStays(b, c) /\ ParamsStay(b, c)
    BY <1>0, <1>8, BuilderIs DEF TextStays, ParamsStay
  <2>2. 0 \in Nat /\ Len(c.steps) = Closed(b) + 1 /\ (\A i \in 1 .. Closed(b) : c.steps[i] = b.steps[i])
        /\ c.steps[Closed(b) + 1] = [len |-> Pending(b), hole |-> NoHole, name |-> 0, ends |-> {section}]
    BY <1>7, <1>8 DEF step
  <2> QED BY <1>0, <1>8, <1>10, <2>1, <2>2, ClosesIs
<1> QED BY <1>8, <1>11, <1>12 DEF c

\* Nothing of a table changes with one of these.
LEMMA TurnedStays ==
  ASSUME NEW b, Neat(b)
  PROVE  /\ LET c == [b EXCEPT !.params = @ + 1]
            IN  ~ b.optional => Neat(c) /\ Grows(b, c)
         /\ LET c == [b EXCEPT !.optional = TRUE] IN Neat(c) /\ Grows(b, c)
         /\ LET c == BuildFields(b)
            IN  Neat(c) /\ Grows(b, c) /\ c.fields = <<Closed(b), Pending(b)>>
<1>0. b \in Builders /\ b \in BuilderRecords
  BY BuilderIs DEF Neat
<1>1. ASSUME NEW c \in Builders, c.text = b.text, c.steps = b.steps, c.counts = b.counts,
             c.section = b.section, c.open = b.open, b.optional => c.optional /\ c.params = b.params
      PROVE  Neat(c) /\ Grows(b, c)
  <2>1. Closed(c) = Closed(b) /\ Pending(c) = Pending(b)
    BY <1>1 DEF Closed, Pending
  <2>2. Neat(c)
    BY <1>1, <2>1 DEF Neat
  <2>3. StepsStay(b, c) /\ RunStays(b, c)
    BY <1>0, <1>1, <2>1, BuilderIs DEF StepsStay, RunStays
  <2>4. TextStays(b, c) /\ ParamsStay(b, c)
    BY <1>0, <1>1, BuilderIs DEF TextStays, ParamsStay
  <2>5. CountsStay(b, c)
    <3>1. b.section \in Int
      BY <1>0, BuilderIs, SectionIs
    <3> QED BY <1>1, <3>1 DEF CountsStay
  <2> QED BY <2>2, <2>3, <2>4, <2>5 DEF Grows
<1>2. ASSUME ~ b.optional
      PROVE  LET c == [b EXCEPT !.params = @ + 1] IN Neat(c) /\ Grows(b, c)
  <2> DEFINE c == [b EXCEPT !.params = @ + 1]
  <2>1. c \in Builders
    BY <1>0, ParamMore
  <2>2. c.text = b.text /\ c.steps = b.steps /\ c.counts = b.counts /\ c.section = b.section
        /\ c.open = b.open
    BY <1>0 DEF BuilderRecords
  <2> HIDE DEF c
  <2>3. Neat(c) /\ Grows(b, c)
    BY <1>1, <1>2, <2>1, <2>2
  <2> QED BY <2>3 DEF c
<1>3. LET c == [b EXCEPT !.optional = TRUE] IN Neat(c) /\ Grows(b, c)
  <2> DEFINE c == [b EXCEPT !.optional = TRUE]
  <2>1. c \in Builders
    BY <1>0 DEF Builders, BuilderRecords
  <2>2. c.text = b.text /\ c.steps = b.steps /\ c.counts = b.counts /\ c.section = b.section
        /\ c.open = b.open /\ c.optional /\ c.params = b.params
    BY <1>0 DEF BuilderRecords
  <2> HIDE DEF c
  <2>3. Neat(c) /\ Grows(b, c)
    BY <1>1, <2>1, <2>2
  <2> QED BY <2>3 DEF c
<1>4. LET c == BuildFields(b)
      IN  Neat(c) /\ Grows(b, c) /\ c.fields = <<Closed(b), Pending(b)>>
  <2> DEFINE c == BuildFields(b)
  <2>1. c \in Builders
    BY <1>0, BuildFieldsKept
  <2>2. c.text = b.text /\ c.steps = b.steps /\ c.counts = b.counts /\ c.section = b.section
        /\ c.open = b.open /\ c.optional = b.optional /\ c.params = b.params
        /\ c.fields = <<Closed(b), Pending(b)>>
    BY <1>0 DEF BuilderRecords, BuildFields, Closed, Pending, LastStep
  <2> HIDE DEF c
  <2>3. Neat(c) /\ Grows(b, c)
    BY <1>1, <2>1, <2>2
  <2> QED BY <2>2, <2>3 DEF c
<1> QED BY <1>2, <1>3, <1>4

-----------------------------------------------------------------------------
(* A request as its layout says it: every text and every value one after    *)
(* the other, with no table.  It is a pass whose at counts its fields and    *)
(* whose cursor stays.                                                       *)

SaidText(m, text) == [m EXCEPT !.out = @ \o text]
SaidEnd(m) == [m EXCEPT !.ends[m.section] = Position(m), !.section = Later(m.section)]
SaidFields(m) == [m EXCEPT !.fields = Position(m), !.at = 1]
SaidSeparator(m) == [m EXCEPT !.out = @ \o Separator(m), !.params = @ + 1]

\* A builder that has ended every section, and what is finished of it.
Finished(e, table, steps, text) ==
  /\ e \in Builders /\ ~ e.open /\ steps = e.steps /\ text \in Wording
  /\ Len(e.text) <= Len(text) /\ \A n \in 1 .. Len(e.text) : text[n] = e.text[n]
  /\ IsTable(table) /\ table.total = Len(steps) /\ table.counts = e.counts
  /\ table.params = e.params /\ table.fields = e.fields

\* Two requests that have written the same, and marked the same.
Same(x, m) ==
  /\ x.ends = m.ends /\ x.signature = m.signature
  /\ x.bodyHash = m.bodyHash /\ x.bodyChecksum = m.bodyChecksum

\* One that has written what the builder has closed, while the layout's has
\* gone on with the open run.
Follows(b, x, m, table, text) ==
  /\ x.cursor + Pending(b) = Len(b.text)
  /\ m.out = x.out \o Run(text, x.cursor, Pending(b))
  /\ Same(x, m) /\ ~ x.failed /\ ~ m.failed
  /\ m.optional = b.optional /\ m.section = b.section
  /\ b.optional => x.params = m.params
  /\ ~ b.optional => m.params = b.params /\ x.params = table.params

LEMMA FinishedIs ==
  ASSUME NEW e, NEW table, NEW steps, NEW text, Finished(e, table, steps, text)
  PROVE  /\ steps \in Seq(StepsKept) /\ Len(steps) \in Nat /\ Len(steps) = Closed(e)
         /\ text \in Seq(Words) /\ Len(text) \in Nat
         /\ table.params \in Nat /\ table.fields[1] \in Nat /\ table.fields[2] \in Nat
<1>1. e \in Builders /\ ~ e.open /\ steps = e.steps /\ text \in Wording /\ IsTable(table)
  BY DEF Finished
<1> QED BY <1>1, BuilderIs DEF IsTable, Wording

\* A text of the template, as the builder has it so far.
LEMMA TextSoFar ==
  ASSUME NEW e, NEW table, NEW steps, NEW text, Finished(e, table, steps, text),
         NEW b \in Builders, Grows(b, e)
  PROVE  Len(b.text) <= Len(text) /\ \A n \in 1 .. Len(b.text) : text[n] = b.text[n]
<1>1. Len(b.text) <= Len(e.text) /\ \A n \in 1 .. Len(b.text) : e.text[n] = b.text[n]
  BY DEF Grows, TextStays
<1>2. Len(e.text) <= Len(text) /\ \A n \in 1 .. Len(e.text) : text[n] = e.text[n]
  BY DEF Finished
<1>3. Len(b.text) \in Nat /\ Len(e.text) \in Nat /\ Len(text) \in Nat
  BY BuilderIs, FinishedIs DEF Finished
<1> QED BY <1>1, <1>2, <1>3

\* A step of the table, as the builder closed it.
LEMMA StepSoFar ==
  ASSUME NEW e, NEW table, NEW steps, NEW text, Finished(e, table, steps, text),
         NEW b \in Builders, NEW c, NEW hole, NEW name, NEW ends, Closes(b, c, hole, name, ends), Grows(c, e)
  PROVE  /\ Closed(b) \in Nat /\ Closed(b) < Len(steps)
         /\ steps[Closed(b) + 1] = [len |-> Pending(b), hole |-> hole, name |-> name, ends |-> ends]
         /\ Pending(b) \in Nat
<1>1. c \in Builders /\ Closed(c) = Closed(b) + 1
      /\ c.steps[Closed(b) + 1] = [len |-> Pending(b), hole |-> hole, name |-> name, ends |-> ends]
  BY DEF Closes, Neat
<1>2. Closed(b) \in Nat /\ Closed(c) \in Nat /\ Pending(b) \in Nat
  BY <1>1, BuilderIs
<1>3. Closed(c) <= Closed(e) /\ \A n \in 1 .. Closed(c) : e.steps[n] = c.steps[n]
  BY DEF Grows, StepsStay
<1>4. Len(steps) = Closed(e) /\ Len(steps) \in Nat /\ steps = e.steps
  BY FinishedIs DEF Finished
<1>5. Closed(b) + 1 \in 1 .. Closed(c)
  BY <1>1, <1>2
<1> QED BY <1>1, <1>2, <1>3, <1>4, <1>5

\* What a text holds from a place on.
Reads(text, at, more) == at + Len(more) <= Len(text) /\ \A n \in 1 .. Len(more) : text[at + n] = more[n]

\* Runs of a text, one after the other.
LEMMA RunOn ==
  ASSUME NEW text \in Seq(Words), NEW more \in Seq(Words), NEW cursor \in Nat, NEW len \in Nat,
         Reads(text, cursor + len, more)
  PROVE  /\ Run(text, cursor, len + Len(more)) = Run(text, cursor, len) \o more
         /\ Run(text, cursor + len, Len(more)) = more
         /\ Run(text, cursor, len) \in Seq(Words) /\ Len(Run(text, cursor, len)) = len
<1> DEFINE whole == Run(text, cursor, len + Len(more))
           first == Run(text, cursor, len)
           rest == Run(text, cursor + len, Len(more))
<1>0. /\ Len(text) \in Nat /\ Len(more) \in Nat /\ cursor + len + Len(more) <= Len(text)
      /\ \A n \in 1 .. Len(more) : text[cursor + len + n] = more[n]
  BY DEF Reads
<1>1. /\ whole \in Seq(Words) /\ Len(whole) = len + Len(more)
      /\ \A i \in 1 .. len + Len(more) : whole[i] = text[cursor + i]
  <2>1. cursor + 1 \in 1 .. Len(text) + 1 /\ cursor + (len + Len(more)) \in (cursor + 1) - 1 .. Len(text)
    BY <1>0
  <2> QED BY <1>0, <2>1, SubSeqIs DEF Run
<1>2. /\ first \in Seq(Words) /\ Len(first) = len
      /\ \A i \in 1 .. len : first[i] = text[cursor + i]
  <2>1. cursor + 1 \in 1 .. Len(text) + 1 /\ cursor + len \in (cursor + 1) - 1 .. Len(text)
    BY <1>0
  <2> QED BY <1>0, <2>1, SubSeqIs DEF Run
<1>3. /\ rest \in Seq(Words) /\ Len(rest) = Len(more)
      /\ \A i \in 1 .. Len(more) : rest[i] = text[cursor + len + i]
  <2>1. cursor + len + 1 \in 1 .. Len(text) + 1
        /\ cursor + len + Len(more) \in (cursor + len + 1) - 1 .. Len(text)
    BY <1>0
  <2> QED BY <1>0, <2>1, SubSeqIs DEF Run
<1> HIDE DEF whole, first, rest
<1>4. first \o more \in Seq(Words) /\ Len(first \o more) = len + Len(more)
      /\ \A i \in 1 .. len + Len(more) :
           (first \o more)[i] = IF i <= len THEN first[i] ELSE more[i - len]
  <2>1. first \o more \in Seq(Words) /\ Len(first \o more) = Len(first) + Len(more)
        /\ \A i \in 1 .. Len(first) + Len(more) :
             (first \o more)[i] = IF i <= Len(first) THEN first[i] ELSE more[i - Len(first)]
    BY <1>2, ConcatProperties
  <2> QED BY <1>2, <2>1
<1>5. \A i \in 1 .. len + Len(more) : whole[i] = (first \o more)[i]
  <2> TAKE i \in 1 .. len + Len(more)
  <2>1. CASE i <= len
    <3>1. i \in 1 .. len
      BY <2>1
    <3> QED BY <1>1, <1>2, <1>4, <2>1, <3>1
  <2>2. CASE i > len
    <3>1. i - len \in 1 .. Len(more) /\ cursor + len + (i - len) = cursor + i /\ ~ i <= len
      BY <1>0, <2>2
    <3>2. text[cursor + i] = more[i - len]
      BY <1>0, <3>1
    <3> QED BY <1>1, <1>4, <3>1, <3>2
  <2>3. i <= len \/ i > len
    BY <1>0
  <2> QED BY <2>1, <2>2, <2>3
<1>6. whole = first \o more
  BY <1>0, <1>1, <1>4, <1>5, SeqEqual
<1>7. rest = more
  <2>1. \A i \in 1 .. Len(rest) : rest[i] = more[i]
    BY <1>0, <1>3
  <2> QED BY <1>3, <2>1, SeqEqual
<1> QED BY <1>2, <1>6, <1>7 DEF whole, first, rest

\* The text goes on, and nothing is copied yet.
LEMMA FollowsText ==
  ASSUME NEW e, NEW table, NEW steps, NEW text, Finished(e, table, steps, text),
         NEW len, NEW unread, NEW other, NEW x \in Passes(len, unread), NEW m \in Passes(len, other),
         NEW b, Neat(b), NEW more \in Wording, Grows(BuildText(b, more), e),
         Follows(b, x, m, table, text)
  PROVE  Follows(BuildText(b, more), x, SaidText(m, more), table, text)
<1> DEFINE c == BuildText(b, more)
           n == SaidText(m, more)
<1>0. b \in Builders /\ c \in Builders /\ more \in Seq(Words) /\ Len(more) \in Nat /\ text \in Seq(Words)
  BY BuildTextKept, FinishedIs DEF Neat, Wording
<1>1. /\ Neat(c) /\ Closed(c) = Closed(b) /\ Pending(c) = Pending(b) + Len(more)
      /\ c.text = b.text \o more /\ Else(b, c)
  BY TextGrows
<1> HIDE DEF c
<1>2. Len(c.text) <= Len(text) /\ \A i \in 1 .. Len(c.text) : text[i] = c.text[i]
  BY <1>0, TextSoFar DEF c
<1>4. /\ n.out = m.out \o more /\ n.ends = m.ends /\ n.signature = m.signature
      /\ n.bodyHash = m.bodyHash /\ n.bodyChecksum = m.bodyChecksum /\ n.failed = m.failed
      /\ n.optional = m.optional /\ n.section = m.section /\ n.params = m.params
  BY DEF SaidText, Passes, PassRecords
<1> HIDE DEF n
<1>5. x.cursor \in Nat /\ Pending(b) \in Nat /\ x.cursor + Pending(b) = Len(b.text)
      /\ b.text \in Seq(Words) /\ x.out \in Said(len)
  BY <1>0, BuilderIs, PassIs DEF Follows, Wording
<1>6. x.cursor + Pending(c) = Len(c.text)
  <2>1. Len(c.text) = Len(b.text) + Len(more)
    BY <1>0, <1>1, <1>5, ConcatProperties
  <2>2. Len(b.text) \in Nat
    BY <1>5
  <2>3. Pending(c) = Pending(b) + Len(more)
    BY <1>1
  <2>4. x.cursor + (Pending(b) + Len(more)) = (x.cursor + Pending(b)) + Len(more)
    BY <1>0, <1>5
  <2>5. x.cursor + (Pending(b) + Len(more)) = Len(c.text)
    BY <1>5, <2>1, <2>4
  <2> QED BY <2>3, <2>5
<1>7. Run(text, x.cursor, Pending(c)) = Run(text, x.cursor, Pending(b)) \o more
      /\ Run(text, x.cursor, Pending(b)) \in Seq(Words)
  <2>1. Len(c.text) = Len(b.text) + Len(more) /\ Len(text) \in Nat
        /\ \A i \in 1 .. Len(more) : c.text[Len(b.text) + i] = more[i] /\ Len(b.text) + i \in 1 .. Len(c.text)
    BY <1>0, <1>1, <1>5
  <2>2. x.cursor + Pending(b) + Len(more) <= Len(text)
        /\ \A i \in 1 .. Len(more) : text[x.cursor + Pending(b) + i] = more[i]
    BY <1>2, <1>5, <2>1
  <2>3. Pending(c) = Pending(b) + Len(more)
    BY <1>1
  <2>4. /\ Run(text, x.cursor, Pending(b) + Len(more)) = Run(text, x.cursor, Pending(b)) \o more
        /\ Run(text, x.cursor, Pending(b)) \in Seq(Words)
    <3> DEFINE cursor == x.cursor
               open == Pending(b)
    <3>1. text \in Seq(Words) /\ more \in Seq(Words) /\ cursor \in Nat /\ open \in Nat
      BY <1>0, <1>5
    <3>2. Reads(text, cursor + open, more)
      BY <2>2 DEF Reads
    <3> HIDE DEF cursor, open
    <3>3. /\ Run(text, cursor, open + Len(more)) = Run(text, cursor, open) \o more
          /\ Run(text, cursor, open) \in Seq(Words)
      BY <3>1, <3>2, RunOn
    <3> QED BY <3>3 DEF cursor, open
  <2> QED BY <2>3, <2>4
<1>8. n.out = x.out \o Run(text, x.cursor, Pending(c))
  <2>1. m.out = x.out \o Run(text, x.cursor, Pending(b))
    BY DEF Follows
  <2>2. x.out \in Seq(Told(len)) /\ more \in Seq(Told(len))
        /\ Run(text, x.cursor, Pending(b)) \in Seq(Told(len))
    <3>1. Words \subseteq Told(len)
      BY DEF Told
    <3> QED BY <1>0, <1>5, <1>7, <3>1, SeqOfMore DEF Said
  <2>3. n.out = (x.out \o Run(text, x.cursor, Pending(b))) \o more
    BY <1>4, <2>1
  <2>4. (x.out \o Run(text, x.cursor, Pending(b))) \o more
          = x.out \o (Run(text, x.cursor, Pending(b)) \o more)
    <3> DEFINE X == Told(len)
               run == Run(text, x.cursor, Pending(b))
               out == x.out
    <3>1. out \in Seq(X) /\ more \in Seq(X) /\ run \in Seq(X)
      BY <2>2
    <3> HIDE DEF X, run, out
    <3>2. (out \o run) \o more = out \o (run \o more)
      BY <3>1, ConcatAssociative
    <3> QED BY <3>2 DEF run, out
  <2> QED BY <1>7, <2>3, <2>4
<1>9. Follows(c, x, n, table, text)
  BY <1>1, <1>4, <1>6, <1>8 DEF Follows, Same, Else
<1> QED BY <1>9 DEF c, n

\* What writing a hole changes of a request, and what it leaves.
StaysPut(v, w) ==
  /\ v.at = w.at /\ v.cursor = w.cursor /\ v.section = w.section /\ v.optional = w.optional
  /\ v.failed = w.failed /\ v.fields = w.fields

Writes(w, v, text, hole, f) ==
  LET span == SpanOf(Position(w), Len(text))
  IN  /\ v.out = w.out \o text /\ v.ends = w.ends /\ StaysPut(v, w)
      /\ v.params = IF CountsParam(hole, f) THEN w.params + 1 ELSE w.params
      /\ v.signature = IF hole = "Signature" THEN span ELSE w.signature
      /\ v.bodyHash = IF hole = "BodyHash" THEN Recorded(w.bodyHash, 3, span) ELSE w.bodyHash
      /\ v.bodyChecksum = IF hole = "BodyChecksum" THEN Recorded(w.bodyChecksum, 2, span)
                          ELSE w.bodyChecksum

LEMMA Wrote ==
  ASSUME NEW len, NEW unread, NEW w \in Passes(len, unread), NEW hole,
         NEW name \in Said(len), NEW f, FillOf(f), CanFill(hole, f)
  PROVE  /\ WriteHole(w, hole, name, f) \in Passes(len, unread)
         /\ HoleText(w, hole, name, f) \in Said(len)
         /\ Writes(w, WriteHole(w, hole, name, f), HoleText(w, hole, name, f), hole, f)
<1> DEFINE text == HoleText(w, hole, name, f)
           span == SpanOf(Position(w), Len(text))
           out == w.out \o text
           params == IF CountsParam(hole, f) THEN w.params + 1 ELSE w.params
           signature == IF hole = "Signature" THEN span ELSE w.signature
           hash == IF hole = "BodyHash" THEN Recorded(w.bodyHash, 3, span) ELSE w.bodyHash
           checksum == IF hole = "BodyChecksum" THEN Recorded(w.bodyChecksum, 2, span)
                       ELSE w.bodyChecksum
           v == WriteHole(w, hole, name, f)
<1>1. v \in Passes(len, unread) /\ text \in Said(len)
  BY WriteHoleKept, HoleTextIn
<1>2. v = Marked(w, out, params, signature, hash, checksum)
  BY Zenon DEF WriteHole, Marked
<1> HIDE DEF v, text, span, out, params, signature, hash, checksum
<1>3. /\ v.out = out /\ v.ends = w.ends /\ StaysPut(v, w) /\ v.params = params
      /\ v.signature = signature /\ v.bodyHash = hash /\ v.bodyChecksum = checksum
  BY <1>2 DEF Marked, StaysPut, Passes, PassRecords
<1> QED BY <1>1, <1>3, Zenon DEF Writes, v, text, span, out, params, signature, hash, checksum

\* Two requests that have written the same write the same of a hole.
Counted(hole) == hole = "Separator" \/ hole \in OptionalHoles
BothWrite(x, m, y, n, hole) ==
  /\ y.out = n.out /\ Same(y, n) /\ StaysPut(y, x) /\ StaysPut(n, m)
  /\ x.params = m.params => y.params = n.params
  /\ ~ Counted(hole) => y.params = x.params /\ n.params = m.params

LEMMA WroteAlike ==
  ASSUME NEW len, NEW one, NEW two, NEW x \in Passes(len, one), NEW m \in Passes(len, two), NEW hole,
         NEW name \in Said(len), NEW f, FillOf(f), CanFill(hole, f), x.out = m.out, Same(x, m),
         x.params = m.params \/ ~ Counted(hole)
  PROVE  /\ WriteHole(x, hole, name, f) \in Passes(len, one)
         /\ WriteHole(m, hole, name, f) \in Passes(len, two)
         /\ BothWrite(x, m, WriteHole(x, hole, name, f), WriteHole(m, hole, name, f), hole)
<1> DEFINE y == WriteHole(x, hole, name, f)
           n == WriteHole(m, hole, name, f)
           said == HoleText(x, hole, name, f)
           meant == HoleText(m, hole, name, f)
<1>1. said = meant
  <2>1. x.bodyLen = m.bodyLen /\ x.ends = m.ends
    BY PassIs DEF Same
  <2>2. Again(x, x.ends[OriginSection], x.ends[QuerySection]) = Again(m, m.ends[OriginSection], m.ends[QuerySection])
        /\ Again(x, x.ends[OriginSection], x.ends[PathSection]) = Again(m, m.ends[OriginSection], m.ends[PathSection])
        /\ Again(x, x.ends[PathSection] + 1, x.ends[QuerySection])
             = Again(m, m.ends[PathSection] + 1, m.ends[QuerySection])
    BY <2>1, Zenon DEF Again
  <2>3. CASE x.params = m.params
    <3>1. Separator(x) = Separator(m)
      BY <2>3 DEF Separator
    <3> QED BY <2>1, <2>2, <3>1, Zenon DEF HoleText
  <2>4. CASE ~ Counted(hole)
    <3> DEFINE Rest(w) == CASE hole = "Target"       -> Again(w, w.ends[OriginSection], w.ends[QuerySection])
                            [] hole = "Path"         -> Again(w, w.ends[OriginSection], w.ends[PathSection])
                            [] hole = "Query"        -> Again(w, w.ends[PathSection] + 1, w.ends[QuerySection])
                            [] hole = "Signature"    -> SignaturePlaceholder
                            [] hole = "BodyLength"   -> Decimal(w.bodyLen)
                            [] hole = "BodyHash"     -> HashPlaceholder
                            [] hole = "BodyChecksum" -> ChecksumPlaceholder
                            [] hole = "Body"         -> f.body
                            [] OTHER -> ValueText(hole, f)
    <3>1. HoleText(x, hole, name, f) = Rest(x) /\ HoleText(m, hole, name, f) = Rest(m)
      BY <2>4 DEF HoleText, Counted
    <3>2. Rest(x) = Rest(m)
      BY <2>1, <2>2
    <3> QED BY <3>1, <3>2
  <2> QED BY <2>3, <2>4
<1>2. Position(x) = Position(m)
  BY DEF Position
<1>3. y \in Passes(len, one) /\ Writes(x, y, said, hole, f)
  BY Wrote
<1>4. n \in Passes(len, two) /\ Writes(m, n, meant, hole, f)
  BY Wrote
<1> HIDE DEF y, n, said, meant
<1>5. Same(y, n) /\ y.out = n.out
  BY <1>1, <1>2, <1>3, <1>4, Zenon DEF Same, Writes
<1>6. ~ Counted(hole) => ~ CountsParam(hole, f)
  BY Zenon DEF CountsParam, Counted
<1>7. /\ x.params = m.params => y.params = n.params
      /\ ~ Counted(hole) => y.params = x.params /\ n.params = m.params
  BY <1>3, <1>4, <1>6, Zenon DEF Writes
<1>8. StaysPut(y, x) /\ StaysPut(n, m)
  BY <1>3, <1>4, Zenon DEF Writes
<1> QED BY <1>3, <1>4, <1>5, <1>7, <1>8, Zenon DEF BothWrite, y, n

\* What is copied of the open run, before what closes it.
Copies(x, out, text, more, len) ==
  /\ x.cursor \in Nat /\ more \in Nat /\ x.cursor + more <= Len(text)
  /\ x.out \o Run(text, x.cursor, more) = out
  /\ Run(text, x.cursor, more) \in Said(len)

LEMMA FollowsCopy ==
  ASSUME NEW e, NEW table, NEW steps, NEW text, Finished(e, table, steps, text),
         NEW len, NEW unread, NEW x \in Passes(len, unread), NEW m,
         NEW b \in Builders, Grows(b, e), Follows(b, x, m, table, text)
  PROVE  Copies(x, m.out, text, Pending(b), len)
<1>1. x.cursor \in Nat /\ Pending(b) \in Nat /\ Len(b.text) <= Len(text) /\ text \in Wording
  BY BuilderIs, PassIs, TextSoFar DEF Finished
<1>2. x.cursor + Pending(b) = Len(b.text) /\ x.out \o Run(text, x.cursor, Pending(b)) = m.out
  BY DEF Follows
<1>3. x.cursor + Pending(b) <= Len(text)
  BY <1>1, <1>2
<1> DEFINE cursor == x.cursor
           open == Pending(b)
<1>4. cursor \in Nat /\ open \in Nat /\ cursor + open <= Len(text)
  BY <1>1, <1>3
<1> HIDE DEF cursor, open
<1>5. Run(text, cursor, open) \in Said(len)
  BY <1>1, <1>4, RunIn
<1> QED BY <1>1, <1>2, <1>3, <1>5 DEF Copies, cursor, open

\* Both have written what closes the run, alike.
LEMMA FollowsClose ==
  ASSUME NEW e, NEW table, NEW steps, NEW text, Finished(e, table, steps, text),
         NEW b \in Builders, NEW c, NEW hole, NEW name \in Nat, NEW ends, Closes(b, c, hole, name, ends),
         Grows(c, e), NEW x, NEW m, Follows(b, x, m, table, text), x.cursor \in Nat,
         NEW len, NEW one, NEW two, NEW y \in Passes(len, one), NEW n \in Passes(len, two),
         y.out = n.out, Same(y, n), ~ y.failed, ~ n.failed,
         y.cursor = x.cursor + Pending(b) + name, Len(c.text) = Len(b.text) + name,
         n.optional = c.optional, n.section = c.section,
         c.optional => y.params = n.params,
         ~ c.optional => n.params = c.params /\ y.params = table.params
  PROVE  Follows(c, y, n, table, text)
<1>1. c \in Builders /\ ~ c.open
  BY DEF Closes, Neat
<1>2. Pending(c) = 0 /\ Pending(b) \in Nat /\ x.cursor + Pending(b) = Len(b.text) /\ text \in Seq(Words)
  BY <1>1, BuilderIs, FinishedIs DEF Follows
<1>3. y.cursor + Pending(c) = Len(c.text)
  BY <1>2
<1>4. y.out \in Seq(Told(len)) /\ y.cursor \in Nat
  BY PassIs DEF Said
<1>5. n.out = y.out \o Run(text, y.cursor, Pending(c))
  <2> DEFINE cursor == y.cursor
             out == y.out
             X == Told(len)
  <2>1. out \in Seq(X) /\ cursor \in Nat
    BY <1>4
  <2> HIDE DEF cursor, out, X
  <2>2. Run(text, cursor, 0) = <<>>
    BY <1>2, <2>1 DEF Run
  <2>3. out \o <<>> = out
    BY <2>1
  <2> QED BY <1>2, <2>2, <2>3 DEF cursor, out
<1> QED BY <1>3, <1>5 DEF Follows

-----------------------------------------------------------------------------
(* A pass that keeps up with the builder.                                   *)

Keeps(b, w, m, table, text, len) ==
  /\ w \in Passes(len, FALSE) /\ m \in Passes(len, FALSE)
  /\ Follows(b, w, m, table, text)
  /\ w.at = Closed(b) /\ w.optional = b.optional
  /\ m.at = 1 => w.fields = m.fields

\* What taking a step changes of a pass, and what it leaves.
Takes(w, t, out, more) ==
  /\ t.out = out /\ t.at = w.at + 1 /\ t.cursor = w.cursor + more
  /\ t.ends = w.ends /\ t.params = w.params /\ t.signature = w.signature
  /\ t.bodyHash = w.bodyHash /\ t.bodyChecksum = w.bodyChecksum
  /\ t.section = w.section /\ t.optional = w.optional /\ t.failed = w.failed /\ t.fields = w.fields

\* The step that a pass takes next has a name of this length.
NamesNext(w, steps, name) == w.at < Len(steps) /\ steps[w.at + 1].name = name

\* One that runs the same layout takes the step that the builder closed.
LEMMA Taken ==
  ASSUME NEW e, NEW table, NEW steps, NEW text, Finished(e, table, steps, text),
         NEW b, Neat(b), NEW c, NEW hole, NEW name, NEW ends, Closes(b, c, hole, name, ends), Grows(c, e),
         NEW len, NEW w, NEW m, Keeps(b, w, m, table, text, len)
  PROVE  /\ Take(w, steps, text) \in Passes(len, FALSE)
         /\ Takes(w, Take(w, steps, text), m.out, Pending(b))
         /\ NamesNext(w, steps, name)
<1> DEFINE t == Take(w, steps, text)
           run == Run(text, w.cursor, Pending(b))
<1>0. b \in Builders /\ c \in Builders /\ w \in Passes(len, FALSE) /\ Follows(b, w, m, table, text)
      /\ w.at = Closed(b) /\ Grows(b, c) /\ ~ w.failed /\ e \in Builders
  BY DEF Neat, Closes, Keeps, Finished, Follows
<1>1. Grows(b, e)
  BY <1>0, GrowsOn
<1>2. /\ Closed(b) \in Nat /\ Closed(b) < Len(steps)
      /\ steps[Closed(b) + 1] = [len |-> Pending(b), hole |-> hole, name |-> name, ends |-> ends]
  BY <1>0, StepSoFar
<1>3. w.cursor + Pending(b) <= Len(text) /\ w.out \o run = m.out
  <2>1. Copies(w, m.out, text, Pending(b), len)
    BY <1>0, <1>1, FollowsCopy
  <2> QED BY <2>1 DEF Copies
<1>4. ~ (w.at >= Len(steps)) /\ steps[w.at + 1].len = Pending(b) /\ steps[w.at + 1].name = name
      /\ w.at < Len(steps)
  <2>1. Len(steps) \in Nat
    BY FinishedIs
  <2> QED BY <1>0, <1>2, <2>1
<1>5. t = [w EXCEPT !.at = @ + 1, !.out = m.out, !.failed = w.failed, !.cursor = @ + Pending(b)]
  <2>1. t = [w EXCEPT !.at = @ + 1,
                      !.out = IF w.cursor + Pending(b) <= Len(text) THEN w.out \o run ELSE w.out,
                      !.failed = w.failed \/ ~ (w.cursor + Pending(b) <= Len(text)),
                      !.cursor = @ + Pending(b)]
    BY <1>4, Zenon DEF Take
  <2>2. (IF w.cursor + Pending(b) <= Len(text) THEN w.out \o run ELSE w.out) = m.out
    BY <1>3
  <2>3. (w.failed \/ ~ (w.cursor + Pending(b) <= Len(text))) = w.failed
    <3>1. w.failed \in BOOLEAN
      BY <1>0, PassIs DEF Flags
    <3> QED BY <1>3, <3>1
  <2> QED BY <2>1, <2>2, <2>3, Zenon
<1> HIDE DEF t
<1>6. t \in Passes(len, FALSE)
  <2>1. text \in Wording /\ steps \in Seq(StepsKept)
    BY FinishedIs DEF Finished
  <2> QED BY <1>0, <2>1, TakeKept DEF t
<1>7. Takes(w, t, m.out, Pending(b))
  <2>1. w \in PassRecords(len, FALSE)
    BY <1>0 DEF Passes
  <2> QED BY <1>5, <2>1 DEF PassRecords, Takes
<1> QED BY <1>4, <1>6, <1>7 DEF t, NamesNext

Further(w, more) == [w EXCEPT !.cursor = @ + more]

\* A hole that the builder closes, and that a request fills.
ClosesHole(e, b, c, hole, name) ==
  /\ Neat(b) /\ Grows(c, e) /\ Else(b, c) /\ name \in Nat /\ Len(c.text) = Len(b.text) + name
  /\ \E ends : Closes(b, c, hole, name, ends)
Fills(f, b, hole) == FillOf(f) /\ CanFill(hole, f) /\ (b.optional \/ ~ Counted(hole))

LEMMA KeepsHole ==
  ASSUME NEW e, NEW table, NEW steps, NEW text, Finished(e, table, steps, text),
         NEW b, NEW c, NEW hole, NEW name, ClosesHole(e, b, c, hole, name),
         NEW len, NEW w, NEW m, Keeps(b, w, m, table, text, len),
         NEW said, said \in Said(len), NEW f, Fills(f, b, hole)
  PROVE  /\ Keeps(c, Further(PassHole(w, hole, said, f, steps, text), name), WriteHole(m, hole, said, f),
                  table, text, len)
         /\ Further(PassHole(w, hole, said, f, steps, text), name).section = w.section
<1>a. /\ Neat(b) /\ Grows(c, e) /\ Else(b, c) /\ name \in Nat /\ Len(c.text) = Len(b.text) + name
      /\ FillOf(f) /\ CanFill(hole, f) /\ (b.optional \/ ~ Counted(hole))
  BY DEF ClosesHole, Fills
<1>b. PICK ends : Closes(b, c, hole, name, ends)
  BY DEF ClosesHole
<1> USE <1>a, <1>b
<1> DEFINE t == Take(w, steps, text)
           p == WriteHole(t, hole, said, f)
           y == Further(p, name)
           n == WriteHole(m, hole, said, f)
<1>0. b \in Builders /\ c \in Builders /\ w \in Passes(len, FALSE) /\ m \in Passes(len, FALSE)
      /\ Follows(b, w, m, table, text) /\ ~ c.open /\ Closed(c) = Closed(b) + 1
  BY DEF Neat, Closes, Keeps
<1>1. t \in Passes(len, FALSE) /\ Takes(w, t, m.out, Pending(b))
  BY Taken
<1> HIDE DEF t
<1>2. Same(t, m) /\ t.out = m.out /\ (t.params = m.params \/ ~ Counted(hole))
  BY <1>0, <1>1 DEF Follows, Same, Takes
<1>3. p \in Passes(len, FALSE) /\ n \in Passes(len, FALSE) /\ BothWrite(t, m, p, n, hole)
  BY <1>0, <1>1, <1>2, WroteAlike
<1> HIDE DEF p, n
<1>5. y \in Passes(len, FALSE)
  BY <1>3, PassTurned DEF Further
<1>6. /\ y.out = p.out /\ y.ends = p.ends /\ y.params = p.params /\ y.signature = p.signature
      /\ y.bodyHash = p.bodyHash /\ y.bodyChecksum = p.bodyChecksum
      /\ y.at = p.at /\ y.cursor = p.cursor + name /\ y.section = p.section
      /\ y.optional = p.optional /\ y.failed = p.failed /\ y.fields = p.fields
  BY <1>3 DEF Passes, PassRecords, Further
<1> HIDE DEF y
<1>7. /\ y.at = w.at + 1 /\ y.cursor = (w.cursor + Pending(b)) + name /\ y.section = w.section
      /\ y.optional = w.optional /\ y.failed = w.failed /\ y.fields = w.fields
      /\ n.at = m.at /\ n.optional = m.optional /\ n.failed = m.failed /\ n.fields = m.fields
      /\ n.section = m.section
  BY <1>1, <1>3, <1>6 DEF Takes, BothWrite, StaysPut
<1>8. /\ y.out = n.out /\ Same(y, n)
  BY <1>3, <1>6 DEF BothWrite, Same
<1>9. /\ c.optional => y.params = n.params
      /\ ~ c.optional => n.params = c.params /\ y.params = table.params
  BY <1>0, <1>1, <1>3, <1>6 DEF Follows, Else, Takes, BothWrite
<1>10. Follows(c, y, n, table, text)
  <2>1. w.cursor \in Nat /\ ~ y.failed /\ ~ n.failed /\ n.optional = c.optional /\ n.section = c.section
    BY <1>0, <1>7, PassIs DEF Follows, Else
  <2>2. y.cursor = w.cursor + Pending(b) + name
    BY <1>7
  <2> QED BY <1>0, <1>3, <1>5, <1>8, <1>9, <2>1, <2>2, FollowsClose
<1>11. Keeps(c, y, n, table, text, len)
  BY <1>0, <1>3, <1>5, <1>7, <1>10 DEF Keeps, Else
<1> QED BY <1>7, <1>11 DEF y, n, p, t, PassHole

-----------------------------------------------------------------------------
(* The builder, one operation of a layout after the other.                  *)

\* A section may end under any name that is written after it.
LEMMA EndRenamed ==
  ASSUME NEW b \in Builders, NEW s \in 0 .. Sections - 1, NEW t \in 0 .. Sections - 1, s # b.section
  PROVE  EndSection([b EXCEPT !.section = s, !.open = FALSE], s)
           = [EndSection(b, s) EXCEPT !.section = s, !.open = FALSE]
<1> DEFINE c == [b EXCEPT !.section = s, !.open = FALSE]
           more == Append(b.steps, EmptyStep)
           counts == [b.counts EXCEPT ![s] = @ + 1]
           n == Len(more)
<1>1. b \in BuilderRecords /\ c \in BuilderRecords
  BY BuilderIs DEF BuilderRecords
<1>2. /\ c.steps = b.steps /\ c.counts = b.counts /\ c.section = s /\ ~ c.open /\ c.text = b.text
      /\ c.fields = b.fields /\ c.params = b.params /\ c.optional = b.optional
  BY <1>1 DEF BuilderRecords
<1>3. PushIn(b, s, EmptyStep) = [b EXCEPT !.steps = more, !.counts = counts]
      /\ PushIn(c, s, EmptyStep) = [c EXCEPT !.steps = more, !.counts = counts]
  BY <1>1, <1>2 DEF PushIn, BuilderRecords
<1> HIDE DEF c, more, counts
<1>4. EndSection(b, s) = [[b EXCEPT !.steps = more, !.counts = counts] EXCEPT !.steps[n].ends = @ \cup {s}]
  <2>1. LastStep([b EXCEPT !.steps = more, !.counts = counts]) = n
    BY <1>1 DEF LastStep, BuilderRecords
  <2> QED BY <1>3, <2>1 DEF EndSection
<1>5. EndSection(c, s) = [[c EXCEPT !.steps = more, !.counts = counts] EXCEPT !.steps[n].ends = @ \cup {s}]
  <2>1. LastStep([c EXCEPT !.steps = more, !.counts = counts]) = n
    BY <1>1 DEF LastStep, BuilderRecords
  <2> QED BY <1>2, <1>3, <2>1 DEF EndSection
<1> DEFINE ended == [more EXCEPT ![n].ends = @ \cup {s}]
<1>6. EndSection(b, s) = [b EXCEPT !.steps = ended, !.counts = counts]
  BY <1>1, <1>4 DEF BuilderRecords
<1>7. EndSection(c, s) = [c EXCEPT !.steps = ended, !.counts = counts]
  BY <1>1, <1>5 DEF BuilderRecords
<1> HIDE DEF ended
<1> QED BY <1>1, <1>6, <1>7 DEF BuilderRecords, c

LEMMA SectionsEnd ==
  ASSUME NEW b \in Builders
  PROVE  /\ b.section < 5 => BuildSection(b, b.section + 1) = EndOf(b)
         /\ b.section < 4 => BuildSection(b, b.section + 2) = EndOf(EndOf(b))
<1> DEFINE s == b.section
           one == EndSection(b, s)
<1>0. s \in 0 .. 5 /\ Sections = 6 /\ s \in Int
  BY BuilderIs DEF Sections
<1>1. ASSUME NEW k \in {1, 2}, s + k <= 5
      PROVE  Difference(s + k, s) = k /\ s + k \in 0 .. Sections
  BY <1>0, <1>1 DEF Difference
<1>2. one \in Builders /\ EndSteps(s, 1)[1][b] = one /\ EndSteps(s, 2)[1][b] = one
  <2>1. one \in Builders
    BY <1>0, EndSectionKept DEF Sections
  <2>2. s + 1 - 1 = s
    BY <1>0
  <2> QED BY <2>1, <2>2 DEF EndSteps
<1>3. ASSUME s < 5
      PROVE  BuildSection(b, s + 1) = [one EXCEPT !.section = s + 1, !.open = FALSE]
  <2>1. s + 1 <= 5
    BY <1>0, <1>3
  <2>2. Difference(s + 1, s) = 1 /\ s + 1 \in 0 .. Sections
    BY <1>1, <2>1
  <2>3. PICK r : Runs(r, 1, Builders, b, EndSteps(s, 1)) /\ EndSections(b, s + 1) = r[1]
    BY <2>2, EndSectionsRun
  <2>4. r[1] = one
    BY <1>2, <2>3 DEF Runs
  <2> QED BY <2>3, <2>4 DEF BuildSection
<1>4. s < 5 => Later(s) = s + 1
  BY <1>0 DEF Later
<1>5. s < 5 => BuildSection(b, s + 1) = EndOf(b)
  BY <1>3, <1>4 DEF EndOf
<1>6. ASSUME s < 4 PROVE BuildSection(b, s + 2) = EndOf(EndOf(b))
  <2>1. s + 2 <= 5 /\ s < 5 /\ s + 1 < 5 /\ s + 1 # s /\ s + 1 \in 0 .. Sections - 1 /\ (s + 1) + 1 = s + 2
        /\ s + 2 - 1 = s + 1
    BY <1>0, <1>6
  <2>2. Difference(s + 2, s) = 2 /\ s + 2 \in 0 .. Sections
    BY <1>1, <2>1
  <2>3. PICK r : Runs(r, 2, Builders, b, EndSteps(s, 2)) /\ EndSections(b, s + 2) = r[2]
    BY <2>2, EndSectionsRun
  <2>4. EndSteps(s, 2)[2][one] = EndSection(one, s + 1)
    BY <1>2, <2>1 DEF EndSteps
  <2>5. r[1] = one /\ r[2] = EndSection(one, s + 1)
    <3>1. r[1] = one
      BY <1>2, <2>3 DEF Runs
    <3>2. r[2] = EndSteps(s, 2)[2][r[1]]
      BY <2>3 DEF Runs
    <3> QED BY <2>4, <3>1, <3>2
  <2>6. BuildSection(b, s + 2) = [EndSection(one, s + 1) EXCEPT !.section = s + 2, !.open = FALSE]
    BY <2>3, <2>5 DEF BuildSection
  <2>7. EndOf(b) = [one EXCEPT !.section = s + 1, !.open = FALSE] /\ EndOf(b).section = s + 1
    <3>1. EndOf(b) = [one EXCEPT !.section = s + 1, !.open = FALSE]
      BY <1>4, <2>1 DEF EndOf
    <3> QED BY <1>2, <3>1, BuilderIs DEF BuilderRecords
  <2>8. Later(s + 1) = s + 2
    BY <1>0, <2>1 DEF Later
  <2>9. one.section = s
    <3> DEFINE closed == IF b.open /\ s = b.section THEN b ELSE PushIn(b, s, EmptyStep)
    <3>1. closed \in Builders /\ closed.section = s
      <4>0. s \in 0 .. Sections - 1
        BY BuilderIs
      <4>1. PushIn(b, s, EmptyStep) \in Builders
        BY <4>0, EmptyStepKept, PushInKept
      <4>2. PushIn(b, s, EmptyStep).section = s
        BY BuilderIs DEF PushIn, BuilderRecords
      <4> QED BY <4>1, <4>2
    <3>2. one = [closed EXCEPT !.steps[LastStep(closed)].ends = @ \cup {s}]
      BY DEF EndSection
    <3> HIDE DEF closed
    <3>3. closed \in BuilderRecords
      BY <3>1, BuilderIs
    <3> QED BY <3>1, <3>2, <3>3 DEF BuilderRecords
  <2>10. EndOf(EndOf(b)) = [EndSection(EndOf(b), s + 1) EXCEPT !.section = s + 2, !.open = FALSE]
    BY <2>7, <2>8 DEF EndOf
  <2>11. EndSection(EndOf(b), s + 1) = [EndSection(one, s + 1) EXCEPT !.section = s + 1, !.open = FALSE]
    <3> HIDE DEF one, s
    <3>1. EndSection([one EXCEPT !.section = s + 1, !.open = FALSE], s + 1)
            = [EndSection(one, s + 1) EXCEPT !.section = s + 1, !.open = FALSE]
      BY <1>2, <2>1, <2>9, EndRenamed
    <3> QED BY <2>7, <3>1
  <2>12. EndSection(one, s + 1) \in BuilderRecords
    BY <1>2, <2>1, EndSectionKept, BuilderIs
  <2> DEFINE two == EndSection(one, s + 1)
  <2> HIDE DEF one, s, two
  <2>13. [[two EXCEPT !.section = s + 1, !.open = FALSE] EXCEPT !.section = s + 2, !.open = FALSE]
           = [two EXCEPT !.section = s + 2, !.open = FALSE]
    BY <2>12 DEF two, BuilderRecords
  <2> QED BY <2>6, <2>10, <2>11, <2>13 DEF two
<1> QED BY <1>5, <1>6

\* What a table says of its steps: whether a request has a body, and how much
\* of a URL every request writes.
HasBody(steps, counts) ==
  LET body == SubSeq(steps, StepsBefore(counts, BodySection) + 1, Len(steps))
  IN  \E n \in DOMAIN body : body[n].len > 0 \/ body[n].hole # NoHole
UrlText(steps, counts) == SumOf(SubSeq(steps, 1, StepsBefore(counts, HeadSection)), StepText)

\* What finish seals is the builder that has ended its last section.
Seals(b, e) ==
  LET table == Finish(b).table
  IN  /\ Finish(b).bytes = [text |-> e.text, steps |-> e.steps]
      /\ table.start = Len(e.text) /\ table.total = Len(e.steps) /\ table.counts = e.counts
      /\ table.params = e.params /\ table.fields = e.fields
      /\ table.body = HasBody(e.steps, e.counts) /\ table.urlFixed = UrlText(e.steps, e.counts)

LEMMA FinishSeals ==
  ASSUME NEW b \in Builders, b.section = BodySection
  PROVE  Seals(b, EndOf(b))
<1> DEFINE ended == EndSections(b, Sections)
           one == EndSection(b, 5)
           e == EndOf(b)
<1>1. b.section = 5 /\ Difference(6, 5) = 1 /\ Sections = 6 /\ 6 \in 0 .. Sections /\ 5 \in 0 .. Sections - 1
  BY DEF BodySection, Difference, Sections
<1>2. PICK r : Runs(r, 1, Builders, b, EndSteps(5, 1)) /\ ended = r[1]
  BY <1>1, EndSectionsRun
<1>3. ended = one /\ one \in Builders
  <2>1. EndSteps(5, 1)[1][b] = EndSection(b, 5)
    BY DEF EndSteps
  <2> QED BY <1>1, <1>2, <2>1, EndSectionKept DEF Runs
<1>4. e = [one EXCEPT !.section = Later(5), !.open = FALSE]
  BY <1>1 DEF EndOf
<1> HIDE DEF one, e
<1>5. /\ e.text = one.text /\ e.steps = one.steps /\ e.counts = one.counts
      /\ e.params = one.params /\ e.fields = one.fields
  BY <1>3, <1>4, BuilderIs DEF BuilderRecords
<1>6. Finish(b) =
        [bytes |-> [text |-> ended.text, steps |-> ended.steps],
         table |-> [start |-> Len(ended.text), total |-> Len(ended.steps), counts |-> ended.counts,
                    params |-> ended.params, fields |-> ended.fields,
                    urlFixed |-> UrlText(ended.steps, ended.counts),
                    body |-> HasBody(ended.steps, ended.counts)]]
  BY Zenon DEF Finish, HasBody, UrlText
<1> HIDE DEF ended
<1>7. Seals(b, ended)
  BY <1>6 DEF Seals
<1> QED BY <1>3, <1>5, <1>7 DEF e, Seals

-----------------------------------------------------------------------------
(* The table that the builder writes: what each step is, where each section *)
(* ends, and how much of the text the steps take.                          *)

\* The steps before a section depend on the sections before it alone.
LEMMA BeforeSame ==
  ASSUME NEW one \in Counting, NEW two \in Counting, NEW k \in 0 .. Sections,
         \A s \in 0 .. Sections - 1 : s < k => one[s] = two[s]
  PROVE  StepsBefore(one, k) = StepsBefore(two, k)
<1>1. k \in Nat /\ k <= Sections
  BY DEF Sections
<1>2. PICK r : Totals(r, k, one) /\ StepsBefore(one, k) = r[k]
  BY <1>1, StepsBeforeIs
<1>3. PICK q : Totals(q, k, two) /\ StepsBefore(two, k) = q[k]
  BY <1>1, StepsBeforeIs
<1> DEFINE S == {n \in 0 .. k : r[n] = q[n]}
<1>4. 0 \in S
  BY <1>1, <1>2, <1>3 DEF Totals
<1>5. \A n \in 1 .. k : n - 1 \in S => n \in S
  <2> TAKE n \in 1 .. k
  <2> HAVE n - 1 \in S
  <2>0. r[n - 1] = q[n - 1]
    OBVIOUS
  <2>1. n - 1 \in 0 .. Sections - 1 /\ n - 1 < k /\ n \in 0 .. k
    BY <1>1 DEF Sections
  <2>2. one[n - 1] = two[n - 1]
    BY <2>1
  <2>3. r[n] = r[n - 1] + one[n - 1] /\ q[n] = q[n - 1] + two[n - 1]
    BY <1>2, <1>3 DEF Totals
  <2>4. r[n] = q[n]
    BY <2>0, <2>2, <2>3
  <2> QED BY <2>1, <2>4
<1>6. k \in S
  <2> HIDE DEF S
  <2>1. \A n \in 0 .. k : n \in S
    BY <1>1, <1>4, <1>5, Induction
  <2> QED BY <1>1, <2>1
<1> QED BY <1>2, <1>3, <1>6

\* Those before a section, when no later one has steps, are all.
LEMMA BeforeAll ==
  ASSUME NEW counts \in Counting, NEW k \in 0 .. Sections,
         \A s \in 0 .. Sections - 1 : s >= k => counts[s] = 0
  PROVE  StepsBefore(counts, k) = CountOf(counts) /\ CountOf(counts) \in Nat
<1>1. k \in Nat /\ k <= Sections /\ Sections \in Nat
  BY DEF Sections
<1>2. PICK r : Totals(r, k, counts) /\ StepsBefore(counts, k) = r[k]
  BY <1>1, StepsBeforeIs
<1>3. /\ counts[0] \in Nat /\ counts[1] \in Nat /\ counts[2] \in Nat
      /\ counts[3] \in Nat /\ counts[4] \in Nat /\ counts[5] \in Nat
  BY DEF Counting, Sections
<1>4. k \in {0, 1, 2, 3, 4, 5, 6} /\ \A s \in {0, 1, 2, 3, 4, 5} : s >= k => counts[s] = 0
  BY DEF Sections
<1>5. r[0] = 0 /\ \A n \in 1 .. k : r[n] = r[n - 1] + counts[n - 1]
  BY <1>2 DEF Totals
<1>6. /\ k >= 1 => r[1] = counts[0]
      /\ k >= 2 => r[2] = counts[0] + counts[1]
      /\ k >= 3 => r[3] = counts[0] + counts[1] + counts[2]
  <2>1. k >= 1 => r[1] = r[0] + counts[0]
    BY <1>1, <1>5
  <2>2. k >= 2 => r[2] = r[1] + counts[1]
    BY <1>1, <1>5
  <2>3. k >= 3 => r[3] = r[2] + counts[2]
    BY <1>1, <1>5
  <2> QED BY <1>1, <1>3, <1>5, <2>1, <2>2, <2>3
<1>7. /\ k >= 4 => r[4] = counts[0] + counts[1] + counts[2] + counts[3]
      /\ k >= 5 => r[5] = counts[0] + counts[1] + counts[2] + counts[3] + counts[4]
      /\ k >= 6 => r[6] = counts[0] + counts[1] + counts[2] + counts[3] + counts[4] + counts[5]
  <2>1. k >= 4 => r[4] = r[3] + counts[3]
    BY <1>1, <1>5
  <2>2. k >= 5 => r[5] = r[4] + counts[4]
    BY <1>1, <1>5
  <2>3. k >= 6 => r[6] = r[5] + counts[5]
    BY <1>1, <1>5
  <2> QED BY <1>1, <1>3, <1>6, <2>1, <2>2, <2>3
<1>8. CountOf(counts) \in Nat
  BY <1>3 DEF CountOf
<1>9. CountOf(counts) = counts[0] + counts[1] + counts[2] + counts[3] + counts[4] + counts[5]
  BY DEF CountOf
<1> HIDE DEF CountOf
<1>10. \A s \in {0, 1, 2, 3, 4, 5} : s >= k => counts[s] = 0
  BY <1>4
<1>11. (k = 0 \/ k = 1 \/ k = 2 \/ k = 3 => r[k] = CountOf(counts))
  <2>1. CASE k = 0
    BY <1>5, <1>9, <1>10, <2>1
  <2>2. CASE k = 1
    BY <1>3, <1>6, <1>9, <1>10, <2>2
  <2>3. CASE k = 2
    BY <1>3, <1>6, <1>9, <1>10, <2>3
  <2>4. CASE k = 3
    BY <1>3, <1>6, <1>9, <1>10, <2>4
  <2> QED BY <2>1, <2>2, <2>3, <2>4
<1>12. (k = 4 \/ k = 5 \/ k = 6 => r[k] = CountOf(counts))
  <2>1. CASE k = 4
    BY <1>3, <1>7, <1>9, <1>10, <2>1
  <2>2. CASE k = 5
    BY <1>3, <1>7, <1>9, <1>10, <2>2
  <2>3. CASE k = 6
    BY <1>3, <1>7, <1>9, <1>10, <2>3
  <2> QED BY <2>1, <2>2, <2>3
<1>13. r[k] = CountOf(counts)
  BY <1>4, <1>11, <1>12
<1> QED BY <1>2, <1>8, <1>13

\* Each step that is closed is one hole, or the end of one section.
HolesOrEnds(b) ==
  \A n \in 1 .. Closed(b) :
    IF b.steps[n].hole = NoHole THEN \E s \in 0 .. Sections - 1 : b.steps[n].ends = {s}
                                ELSE b.steps[n].ends = {}

\* The first k sections have ended, each with its last step.
EndsOf(b, s) == {n \in 1 .. Closed(b) : s \in b.steps[n].ends}
EndsBefore(b, k) ==
  \A s \in 0 .. Sections - 1 : EndsOf(b, s) = IF s < k THEN {StepsBefore(b.counts, s + 1)} ELSE {}

\* The steps take the text, up to the run of the open step.
Sums(r, steps, n) ==
  /\ r \in [0 .. n -> Nat] /\ r[0] = 0
  /\ \A i \in 1 .. n : r[i] = r[i - 1] + StepText(steps[i])
Adds(b) == \E r : Sums(r, b.steps, Closed(b)) /\ r[Closed(b)] + Pending(b) = Len(b.text)

Tidy(b, k) == Neat(b) /\ HolesOrEnds(b) /\ EndsBefore(b, k) /\ Adds(b)

\* The same steps, with a longer run or none.
LEMMA TidyStays ==
  ASSUME NEW b, NEW c, Tidy(b, b.section), Neat(c), Grows(b, c), Closed(c) = Closed(b),
         c.section = b.section, Pending(c) + Len(b.text) = Pending(b) + Len(c.text)
  PROVE  Tidy(c, c.section)
<1>0. b \in Builders /\ c \in Builders /\ Closed(b) \in Nat /\ Pending(b) \in Nat /\ Pending(c) \in Nat
      /\ Len(b.text) \in Nat /\ Len(c.text) \in Nat
  <2>1. b \in Builders /\ c \in Builders
    BY DEF Tidy, Neat
  <2> QED BY <2>1, BuilderIs
<1>1. \A n \in 1 .. Closed(b) : c.steps[n] = b.steps[n]
  BY DEF Grows, StepsStay
<1>2. HolesOrEnds(c)
  BY <1>1 DEF Tidy, HolesOrEnds
<1>3. \A s \in 0 .. Sections - 1 : EndsOf(c, s) = EndsOf(b, s)
  BY <1>1 DEF EndsOf
<1>4. \A s \in 0 .. Sections - 1 : s < b.section => StepsBefore(c.counts, s + 1) = StepsBefore(b.counts, s + 1)
  <2> SUFFICES ASSUME NEW s \in 0 .. Sections - 1, s < b.section
               PROVE  StepsBefore(c.counts, s + 1) = StepsBefore(b.counts, s + 1)
    OBVIOUS
  <2>1. s + 1 \in 0 .. Sections /\ \A t \in 0 .. Sections - 1 : t < s + 1 => t < b.section
    <3>1. b.section \in 0 .. Sections - 1
      BY <1>0, BuilderIs
    <3> QED BY <3>1 DEF Sections
  <2>2. c.counts \in Counting /\ b.counts \in Counting
    BY <1>0, BuilderIs DEF Counting
  <2>3. \A t \in 0 .. Sections - 1 : t < s + 1 => c.counts[t] = b.counts[t]
    BY <2>1 DEF Grows, CountsStay
  <2> QED BY <2>1, <2>2, <2>3, BeforeSame
<1>5. EndsBefore(c, c.section)
  BY <1>3, <1>4 DEF Tidy, EndsBefore
<1>6. Adds(c)
  <2>1. PICK r : Sums(r, b.steps, Closed(b)) /\ r[Closed(b)] + Pending(b) = Len(b.text)
    BY DEF Tidy, Adds
  <2>2. Sums(r, c.steps, Closed(c))
    BY <1>1, <2>1 DEF Sums
  <2>3. r[Closed(c)] \in Nat
    BY <1>0, <2>1 DEF Sums
  <2>4. r[Closed(c)] + Pending(c) = Len(c.text)
    BY SMTT(20), <1>0, <2>1, <2>3
  <2> QED BY <2>2, <2>4 DEF Adds
<1> QED BY <1>2, <1>5, <1>6 DEF Tidy

\* One more step.
LEMMA TidyCloses ==
  ASSUME NEW b, NEW c, Tidy(b, b.section), NEW hole, NEW name \in Nat, NEW ends,
         Closes(b, c, hole, name, ends), Len(c.text) = Len(b.text) + name,
         NEW k \in 0 .. Sections,
         \/ hole # NoHole /\ ends = {} /\ k = b.section
         \/ hole = NoHole /\ ends = {b.section} /\ k = b.section + 1
            /\ StepsBefore(c.counts, k) = Closed(c)
  PROVE  Tidy(c, k)
<1> DEFINE m == Closed(b)
<1>0. b \in Builders /\ c \in Builders /\ m \in Nat /\ Pending(b) \in Nat /\ Pending(c) = 0
      /\ Len(b.text) \in Nat /\ Len(c.text) \in Nat /\ Neat(c) /\ Closed(c) = m + 1
      /\ b.section \in 0 .. Sections - 1 /\ c.counts \in Counting /\ b.counts \in Counting
  <2>1. b \in Builders /\ c \in Builders /\ Neat(c) /\ ~ c.open /\ Closed(c) = m + 1
    BY DEF Tidy, Neat, Closes
  <2> QED BY <2>1, BuilderIs DEF Counting
<1>1. /\ \A n \in 1 .. m : c.steps[n] = b.steps[n]
      /\ c.steps[m + 1] = [len |-> Pending(b), hole |-> hole, name |-> name, ends |-> ends]
  BY DEF Closes, Grows, StepsStay
<1> HIDE DEF m
<1>1a. \A n \in 1 .. m + 1 : n \in 1 .. m \/ n = m + 1
  BY <1>0
<1>2. HolesOrEnds(c)
  <2>1. IF c.steps[m + 1].hole = NoHole THEN \E s \in 0 .. Sections - 1 : c.steps[m + 1].ends = {s}
                                        ELSE c.steps[m + 1].ends = {}
    BY <1>0, <1>1
  <2>2. \A n \in 1 .. m : IF c.steps[n].hole = NoHole THEN \E s \in 0 .. Sections - 1 : c.steps[n].ends = {s}
                                                      ELSE c.steps[n].ends = {}
    BY <1>1 DEF Tidy, HolesOrEnds, m
  <2> QED BY <1>0, <1>1a, <2>1, <2>2 DEF HolesOrEnds
<1>3. \A s \in 0 .. Sections - 1 : EndsOf(c, s) = EndsOf(b, s) \cup (IF s \in ends THEN {m + 1} ELSE {})
  <2> SUFFICES ASSUME NEW s \in 0 .. Sections - 1
               PROVE  EndsOf(c, s) = EndsOf(b, s) \cup (IF s \in ends THEN {m + 1} ELSE {})
    OBVIOUS
  <2>1. EndsOf(c, s) = {n \in 1 .. m + 1 : s \in c.steps[n].ends}
    BY <1>0 DEF EndsOf
  <2>2. EndsOf(b, s) = {n \in 1 .. m : s \in b.steps[n].ends}
    BY DEF EndsOf, m
  <2>3. c.steps[m + 1].ends = ends
    BY <1>1
  <2>4. m + 1 \in 1 .. m + 1 /\ \A n \in 1 .. m : n \in 1 .. m + 1
    BY <1>0
  <2> QED BY <1>1, <1>1a, <2>1, <2>2, <2>3, <2>4
<1>4. \A s \in 0 .. Sections - 1 : s < b.section => StepsBefore(c.counts, s + 1) = StepsBefore(b.counts, s + 1)
  <2> SUFFICES ASSUME NEW s \in 0 .. Sections - 1, s < b.section
               PROVE  StepsBefore(c.counts, s + 1) = StepsBefore(b.counts, s + 1)
    OBVIOUS
  <2>1. s + 1 \in 0 .. Sections /\ \A t \in 0 .. Sections - 1 : t < s + 1 => t < b.section
    BY <1>0 DEF Sections
  <2>3. \A t \in 0 .. Sections - 1 : t < s + 1 => c.counts[t] = b.counts[t]
    BY <2>1 DEF Closes, Grows, CountsStay
  <2> QED BY <1>0, <2>1, <2>3, BeforeSame
<1>5. EndsBefore(c, k)
  <2> SUFFICES ASSUME NEW s \in 0 .. Sections - 1
               PROVE  EndsOf(c, s) = IF s < k THEN {StepsBefore(c.counts, s + 1)} ELSE {}
    BY DEF EndsBefore
  <2>1. EndsOf(b, s) = IF s < b.section THEN {StepsBefore(b.counts, s + 1)} ELSE {}
    BY DEF Tidy, EndsBefore
  <2>2. CASE hole # NoHole /\ ends = {} /\ k = b.section
    BY <1>3, <1>4, <2>1, <2>2
  <2>3. CASE hole = NoHole /\ ends = {b.section} /\ k = b.section + 1 /\ StepsBefore(c.counts, k) = Closed(c)
    <3>1. (s < k <=> s < b.section \/ s = b.section) /\ ~ (s < b.section /\ s = b.section)
      BY <1>0, <2>3, SectionIs
    <3>2. CASE s = b.section
      <4>1. EndsOf(c, s) = {m + 1} /\ StepsBefore(c.counts, s + 1) = m + 1
        BY <1>0, <1>3, <2>1, <2>3, <3>1, <3>2
      <4> QED BY <3>1, <3>2, <4>1
    <3>3. CASE s # b.section
      BY <1>3, <1>4, <2>1, <2>3, <3>1, <3>3
    <3> QED BY <3>2, <3>3
  <2> QED BY <2>2, <2>3
<1>6. Adds(c)
  <2>1. PICK r : Sums(r, b.steps, m) /\ r[m] + Pending(b) = Len(b.text)
    BY DEF Tidy, Adds, m
  <2> DEFINE q == [i \in 0 .. m + 1 |-> IF i = m + 1 THEN Len(c.text) ELSE r[i]]
  <2>2. r \in [0 .. m -> Nat] /\ r[0] = 0 /\ (\A i \in 1 .. m : r[i] = r[i - 1] + StepText(b.steps[i]))
        /\ r[m] \in Nat
    <3>1. m \in 0 .. m
      BY <1>0
    <3> QED BY <2>1, <3>1 DEF Sums
  <2>3. q \in [0 .. m + 1 -> Nat] /\ (\A i \in 0 .. m : q[i] = r[i]) /\ q[m + 1] = Len(c.text)
    BY <1>0, <2>2
  <2> HIDE DEF q
  <2>4. StepText(c.steps[m + 1]) = Pending(b) + name
    BY <1>1 DEF StepText
  <2>5. \A i \in 1 .. m + 1 : q[i] = q[i - 1] + StepText(c.steps[i])
    <3> SUFFICES ASSUME NEW i \in 1 .. m + 1 PROVE q[i] = q[i - 1] + StepText(c.steps[i])
      OBVIOUS
    <3>1. CASE i = m + 1
      <4>1. i - 1 = m /\ m \in 0 .. m
        BY <1>0, <3>1
      <4>2. q[i] = Len(b.text) + name /\ q[i - 1] = r[m] /\ c.steps[i] = c.steps[m + 1]
        BY <1>0, <2>3, <3>1, <4>1
      <4>3. r[m] + (Pending(b) + name) = Len(b.text) + name
        <5> DEFINE x == r[m]
                   y == Pending(b)
                   z == Len(b.text)
        <5>1. x + y = z /\ x \in Nat /\ y \in Nat /\ z \in Nat
          BY <1>0, <2>1, <2>2
        <5> HIDE DEF x, y, z
        <5>2. x + (y + name) = z + name
          BY <5>1
        <5> QED BY <5>2 DEF x, y, z
      <4> QED BY <2>4, <4>2, <4>3
    <3>2. CASE i # m + 1
      <4>1. i \in 1 .. m /\ i \in 0 .. m /\ i - 1 \in 0 .. m
        BY <1>0, <3>2
      <4> QED BY <1>1, <2>2, <2>3, <4>1
    <3> QED BY <3>1, <3>2
  <2>6. q[0] = 0
    BY <1>0, <2>2, <2>3
  <2>7. Sums(q, c.steps, Closed(c))
    BY <1>0, <2>3, <2>5, <2>6 DEF Sums
  <2>8. q[Closed(c)] + Pending(c) = Len(c.text)
    BY <1>0, <2>3
  <2> QED BY <2>7, <2>8 DEF Adds
<1> QED BY <1>0, <1>2, <1>5, <1>6 DEF Tidy

\* The end of a section is the last of its steps.
LEMMA TidyEnds ==
  ASSUME NEW b, Tidy(b, b.section)
  PROVE  Tidy(EndOf(b), b.section + 1)
<1> DEFINE c == EndOf(b)
           k == b.section + 1
<1>0. b \in Builders /\ Neat(b) /\ b.section \in 0 .. Sections - 1
  BY BuilderIs DEF Tidy, Neat
<1>1. /\ Closes(b, c, NoHole, 0, {b.section}) /\ c.text = b.text
      /\ \A s \in 0 .. Sections - 1 : s > b.section => c.counts[s] = 0
  BY <1>0, EndCloses
<1> HIDE DEF c
<1>2. c \in Builders /\ ~ c.open /\ Len(b.text) \in Nat
  BY <1>0, <1>1, BuilderIs DEF Closes, Neat
<1>3. c.counts \in Counting /\ CountOf(c.counts) = Len(c.steps) /\ Closed(c) = Len(c.steps)
  BY <1>2, BuilderIs DEF Counting
<1>4. k \in 0 .. Sections /\ \A s \in 0 .. Sections - 1 : s >= k => s > b.section
  BY <1>0 DEF Sections
<1>5. StepsBefore(c.counts, k) = Closed(c)
  <2>1. \A s \in 0 .. Sections - 1 : s >= k => c.counts[s] = 0
    BY <1>1, <1>4
  <2> HIDE DEF k
  <2> QED BY <1>3, <1>4, <2>1, BeforeAll
<1>6. Len(c.text) = Len(b.text) + 0 /\ 0 \in Nat
  BY <1>1, <1>2
<1>7. Tidy(c, k)
  BY <1>1, <1>4, <1>5, <1>6, TidyCloses
<1> QED BY <1>7 DEF c

-----------------------------------------------------------------------------
(* One operation of a layout, as the builder performs it.                   *)

LEMMA HolesAre ==
  /\ NoHole \notin UrlValues \cup OptionalHoles \cup {"Separator"}
  /\ UrlValues \cap (OptionalHoles \cup {"Separator"}) = {}
BY DEF NoHole, UrlValues, OptionalHoles

Onward(b, c) ==
  /\ Tidy(c, c.section) /\ Grows(b, c) /\ c.section = b.section /\ c.fields = b.fields

LEMMA OnwardOn ==
  ASSUME NEW b, NEW c, NEW d, Tidy(b, b.section), Onward(b, c), Onward(c, d)
  PROVE  Onward(b, d)
<1>1. b \in Builders /\ c \in Builders /\ d \in Builders
  BY DEF Onward, Tidy, Neat
<1>2. Grows(b, d)
  BY <1>1, GrowsOn DEF Onward
<1> QED BY <1>2 DEF Onward

LEMMA OnwardText ==
  ASSUME NEW b, Tidy(b, b.section), NEW text \in Wording
  PROVE  Onward(b, BuildText(b, text)) /\ Else(b, BuildText(b, text))
<1> DEFINE c == BuildText(b, text)
<1>1. /\ Neat(c) /\ Grows(b, c) /\ Closed(c) = Closed(b) /\ Pending(c) = Pending(b) + Len(text)
      /\ c.text = b.text \o text /\ Else(b, c)
  BY TextGrows DEF Tidy
<1> HIDE DEF c
<1>2. b \in Builders /\ b.text \in Wording /\ Pending(b) \in Nat
  BY BuilderIs DEF Tidy, Neat
<1>3. Len(c.text) = Len(b.text) + Len(text) /\ Len(b.text) \in Nat /\ Len(text) \in Nat
  BY <1>1, <1>2 DEF Wording
<1>4. Pending(c) + Len(b.text) = Pending(b) + Len(c.text)
  BY <1>1, <1>2, <1>3
<1>5. Tidy(c, c.section)
  BY <1>1, <1>4, TidyStays DEF Else
<1>6. Onward(b, c)
  BY <1>1, <1>5 DEF Onward, Else
<1> QED BY <1>1, <1>6 DEF c

LEMMA OnwardHole ==
  ASSUME NEW b, Tidy(b, b.section), NEW hole \in Words, hole # NoHole
  PROVE  Onward(b, BuildHole(b, hole)) /\ Else(b, BuildHole(b, hole))
<1> DEFINE c == BuildHole(b, hole)
<1>1. Closes(b, c, hole, 0, {}) /\ c.text = b.text /\ Else(b, c)
  BY HoleCloses DEF Tidy
<1> HIDE DEF c
<1>2. b \in Builders /\ b.section \in 0 .. Sections - 1 /\ Len(b.text) \in Nat
  BY BuilderIs DEF Tidy, Neat
<1>3. b.section \in 0 .. Sections /\ Len(c.text) = Len(b.text) + 0 /\ 0 \in Nat
  BY <1>1, <1>2 DEF Sections
<1>4. Tidy(c, b.section)
  BY <1>1, <1>3, TidyCloses
<1>5. Onward(b, c)
  BY <1>1, <1>4 DEF Onward, Else, Closes
<1> QED BY <1>1, <1>5 DEF c

LEMMA OnwardName ==
  ASSUME NEW b, Tidy(b, b.section), NEW hole \in Words, hole # NoHole, NEW name \in Words
  PROVE  Onward(b, Named(BuildHole(b, hole), name)) /\ Else(b, Named(BuildHole(b, hole), name))
<1> DEFINE c == Named(BuildHole(b, hole), name)
<1>1. Closes(b, c, hole, 1, {}) /\ c.text = b.text \o <<name>> /\ Else(b, c)
  BY NameCloses DEF Tidy
<1> HIDE DEF c
<1>2. b \in Builders /\ b.section \in 0 .. Sections - 1 /\ b.text \in Wording
  BY BuilderIs DEF Tidy, Neat
<1>3. b.section \in 0 .. Sections /\ 1 \in Nat
  BY <1>2 DEF Sections
<1>4. Len(c.text) = Len(b.text) + 1
  BY <1>1, <1>2 DEF Wording
<1>5. Tidy(c, b.section)
  BY <1>1, <1>3, <1>4, TidyCloses
<1>6. Onward(b, c)
  BY <1>1, <1>5 DEF Onward, Else, Closes
<1> QED BY <1>1, <1>6 DEF c

\* A turn that leaves the table as it is.
LEMMA OnwardTurn ==
  ASSUME NEW b, Tidy(b, b.section), NEW c, Neat(c), Grows(b, c), c.text = b.text, c.steps = b.steps,
         c.open = b.open, c.section = b.section
  PROVE  Tidy(c, c.section)
<1>1. Closed(c) = Closed(b) /\ Pending(c) = Pending(b)
  BY DEF Closed, Pending
<1>2. b \in Builders
  BY DEF Tidy, Neat
<1>3. Pending(c) + Len(b.text) = Pending(b) + Len(c.text)
  BY <1>1
<1> QED BY <1>1, <1>3, TidyStays

LEMMA OnwardSeparator ==
  ASSUME NEW b, Tidy(b, b.section)
  PROVE  Onward(b, BuildSeparator(b)) /\ BuildSeparator(b).optional = b.optional
<1> DEFINE c == BuildSeparator(b)
           mark == IF b.params = 0 THEN <<"?">> ELSE <<"&">>
           t == BuildText(b, mark)
           h == BuildHole(b, "Separator")
<1>0. "Separator" \in Words /\ "Separator" # NoHole /\ mark \in Wording
  <2>1. {"Separator", "?", "&"} \subseteq Words
    BY DEF Words
  <2> QED BY <2>1, WordingIs DEF NoHole
<1>1. c = IF b.optional THEN h ELSE [t EXCEPT !.params = @ + 1]
  BY DEF BuildSeparator
<1>2. Onward(b, t) /\ Else(b, t)
  BY <1>0, OnwardText
<1>3. Onward(b, h) /\ Else(b, h)
  BY <1>0, OnwardHole
<1> HIDE DEF c, t, h
<1>4. CASE b.optional
  BY <1>1, <1>3, <1>4 DEF Else, c
<1>5. CASE ~ b.optional
  <2> DEFINE m == [t EXCEPT !.params = @ + 1]
  <2>1. Neat(t) /\ t \in BuilderRecords /\ ~ t.optional /\ Tidy(t, t.section)
    BY <1>2, <1>5, BuilderIs DEF Onward, Tidy, Neat, Else
  <2>2. Neat(m) /\ Grows(t, m)
    BY <2>1, TurnedStays
  <2>3. m.text = t.text /\ m.steps = t.steps /\ m.open = t.open /\ m.section = t.section
        /\ m.fields = t.fields /\ m.optional = t.optional
    BY <2>1 DEF BuilderRecords
  <2> HIDE DEF m
  <2>4. Tidy(m, m.section)
    BY <2>1, <2>2, <2>3, OnwardTurn
  <2>5. Onward(t, m)
    BY <2>2, <2>3, <2>4 DEF Onward
  <2>6. Onward(b, m)
    BY <1>2, <2>5, OnwardOn
  <2>7. c = m
    BY <1>1, <1>5 DEF m
  <2> QED BY <1>2, <2>3, <2>6, <2>7 DEF Else, c
<1> QED BY <1>4, <1>5

LEMMA OnwardParam ==
  ASSUME NEW b, Tidy(b, b.section), NEW param \in Parameters, Proper(Param(param))
  PROVE  Onward(b, BuildParam(b, param))
<1>0. /\ param.mode \in {"fixed", "hole", "optional"} /\ param.name \in Words
      /\ param.value \in Wording /\ param.hole \in Words /\ "=" \in Words
  BY DEF Parameters, Words
<1>1. /\ param.mode = "hole" => param.hole # NoHole
      /\ param.mode = "optional" => param.hole # NoHole
  BY HolesAre DEF Proper, Param
<1>2. <<param.name, "=">> \in Wording
  BY <1>0, Few DEF Wording
<1>3. <<param.name, "=">> \o param.value \in Wording
  BY <1>0, <1>2, WordingIs
<1> DEFINE s == BuildSeparator(b)
<1>4. Onward(b, s) /\ Tidy(s, s.section)
  BY OnwardSeparator DEF Onward
<1> HIDE DEF s
<1>5. CASE param.mode = "fixed"
  <2>1. BuildParam(b, param) = BuildText(s, <<param.name, "=">> \o param.value)
    BY <1>5 DEF BuildParam, s
  <2>2. Onward(s, BuildText(s, <<param.name, "=">> \o param.value))
    BY <1>3, <1>4, OnwardText
  <2> QED BY <1>4, <2>1, <2>2, OnwardOn
<1>6. CASE param.mode = "hole"
  <2> DEFINE t == BuildText(s, <<param.name, "=">>)
  <2>1. BuildParam(b, param) = BuildHole(t, param.hole)
    BY <1>6 DEF BuildParam, s
  <2>2. Onward(s, t)
    BY <1>2, <1>4, OnwardText
  <2> HIDE DEF t
  <2>3. Tidy(t, t.section)
    BY <2>2 DEF Onward
  <2>4. Onward(t, BuildHole(t, param.hole))
    BY <1>0, <1>1, <1>6, <2>3, OnwardHole
  <2>5. Onward(b, t)
    BY <1>4, <2>2, OnwardOn
  <2> QED BY <2>1, <2>4, <2>5, OnwardOn
<1>7. CASE param.mode = "optional"
  <2> DEFINE t == [b EXCEPT !.optional = TRUE]
  <2>1. BuildParam(b, param) = Named(BuildHole(t, param.hole), param.name)
    BY <1>7 DEF BuildParam, Named
  <2>2. Neat(t) /\ Grows(b, t)
    BY TurnedStays DEF Tidy
  <2>3. t.text = b.text /\ t.steps = b.steps /\ t.open = b.open /\ t.section = b.section /\ t.fields = b.fields
    <3>1. b \in BuilderRecords
      BY BuilderIs DEF Tidy, Neat
    <3> QED BY <3>1 DEF BuilderRecords
  <2> HIDE DEF t
  <2>4. Tidy(t, t.section)
    BY <2>2, <2>3, OnwardTurn
  <2>5. Onward(b, t)
    BY <2>2, <2>3, <2>4 DEF Onward
  <2>6. Onward(t, Named(BuildHole(t, param.hole), param.name))
    BY <1>0, <1>1, <1>7, <2>4, OnwardName
  <2> QED BY <2>1, <2>5, <2>6, OnwardOn
<1> QED BY <1>0, <1>5, <1>6, <1>7

\* A section more, or two.
LEMMA EndsOn ==
  ASSUME NEW b, Tidy(b, b.section), b.section < 5
  PROVE  Tidy(EndOf(b), EndOf(b).section) /\ Grows(b, EndOf(b)) /\ EndOf(b).fields = b.fields
         /\ EndOf(b).section = b.section + 1
<1>1. b \in Builders /\ Neat(b) /\ b.section \in 0 .. 5
  BY BuilderIs DEF Tidy, Neat, Sections
<1>2. Closes(b, EndOf(b), NoHole, 0, {b.section}) /\ EndOf(b).section = Later(b.section)
      /\ EndOf(b).fields = b.fields
  BY <1>1, EndCloses
<1>3. Later(b.section) = b.section + 1
  BY <1>1 DEF Later, Sections
<1> QED BY <1>2, <1>3, TidyEnds DEF Closes

\* Where a layout is, and what its builder has of it.
Builds(b, c, op, q) ==
  /\ Tidy(c, c.section) /\ Grows(b, c) /\ c.section = q[1]
  /\ c.fields = IF op.op = "fields" THEN <<Closed(b), Pending(b)>> ELSE b.fields

LEMMA BuildsOn ==
  ASSUME NEW b, Tidy(b, b.section), NEW op \in Ops, Proper(op), NEW p, NEW q \in Stages, Moves(op, p, q),
         b.section = p[1]
  PROVE  Builds(b, Build(b, op), op, q)
<1>0. b \in Builders /\ Neat(b) /\ q[1] \in 0 .. 5 /\ b.section \in 0 .. 5
  BY BuilderIs DEF Tidy, Neat, Stages, Sections
<1>1. CASE op.op = "section"
  <2>1. op.section = q[1] /\ q[1] \in {b.section + 1, b.section + 2} /\ Build(b, op) = BuildSection(b, q[1])
    BY <1>1 DEF Moves, Build
  <2>2. op.op # "fields" /\ b.section < 5
    BY <1>0, <1>1, <2>1
  <2> DEFINE one == EndOf(b)
  <2>3. Tidy(one, one.section) /\ Grows(b, one) /\ one.fields = b.fields /\ one.section = b.section + 1
    BY <2>2, EndsOn
  <2>4. CASE q[1] = b.section + 1
    <3>1. Build(b, op) = one
      BY <1>0, <2>1, <2>2, <2>4, SectionsEnd
    <3> QED BY <2>2, <2>3, <2>4, <3>1 DEF Builds
  <2>5. CASE q[1] = b.section + 2
    <3> DEFINE two == EndOf(one)
    <3>1. b.section < 4 /\ one.section < 5 /\ one.section + 1 = q[1]
      BY <1>0, <2>3, <2>5
    <3>2. Build(b, op) = two
      BY <1>0, <2>1, <2>5, <3>1, SectionsEnd
    <3> HIDE DEF one
    <3>3. Tidy(two, two.section) /\ Grows(one, two) /\ two.fields = one.fields /\ two.section = q[1]
      BY <2>3, <3>1, EndsOn
    <3> HIDE DEF two
    <3>4. one \in Builders /\ two \in Builders
      BY <2>3, <3>3 DEF Tidy, Neat
    <3>5. Grows(b, two)
      BY <1>0, <2>3, <3>3, <3>4, GrowsOn
    <3> QED BY <2>2, <2>3, <3>2, <3>3, <3>5 DEF Builds
  <2> QED BY <2>1, <2>4, <2>5
<1>2. ASSUME op.op \in {"text", "hole", "param"}, Onward(b, Build(b, op))
      PROVE  Builds(b, Build(b, op), op, q)
  <2>1. q = p /\ op.op # "fields"
    BY <1>2 DEF Moves
  <2> QED BY <1>2, <2>1 DEF Builds, Onward
<1>3. CASE op.op = "text" /\ op.text \in Wording
  <2>1. Build(b, op) = BuildText(b, op.text)
    BY <1>3 DEF Build
  <2> QED BY <1>2, <1>3, <2>1, OnwardText
<1>4. CASE op.op = "hole" /\ op.hole \in Words
  <2>1. Build(b, op) = BuildHole(b, op.hole) /\ op.hole # NoHole
    BY <1>4 DEF Build, Proper
  <2> QED BY <1>2, <1>4, <2>1, OnwardHole
<1>5. CASE op.op = "param" /\ op.param \in Parameters
  <2>1. Build(b, op) = BuildParam(b, op.param)
    BY <1>5 DEF Build
  <2>2. Proper(Param(op.param))
    BY <1>5 DEF Proper, Param
  <2> QED BY <1>2, <1>5, <2>1, <2>2, OnwardParam
<1>6. CASE op.op = "fields"
  <2> DEFINE c == BuildFields(b)
  <2>1. Build(b, op) = c /\ q[1] = p[1]
    BY <1>6 DEF Build, Moves
  <2>2. Neat(c) /\ Grows(b, c) /\ c.fields = <<Closed(b), Pending(b)>>
    BY <1>0, TurnedStays
  <2>3. c.text = b.text /\ c.steps = b.steps /\ c.open = b.open /\ c.section = b.section
    <3>1. b \in BuilderRecords
      BY <1>0, BuilderIs
    <3> QED BY <3>1 DEF BuilderRecords, BuildFields
  <2> HIDE DEF c
  <2>4. Tidy(c, c.section)
    BY <2>2, <2>3, OnwardTurn
  <2> QED BY <1>6, <2>1, <2>2, <2>3, <2>4 DEF Builds
<1> QED BY <1>1, <1>3, <1>4, <1>5, <1>6, OpIsOneOf

-----------------------------------------------------------------------------
(* A whole layout, and the template that is finished of it.                *)

\* The builders of the first n operations of a layout.
Built(r, layout, n) ==
  /\ r \in [0 .. n -> Builders] /\ r[0] = NewBuilder
  /\ \A i \in 1 .. n : r[i] = Build(r[i - 1], layout[i])

\* A layout whose operations go from the first section to the last.
Runs6(layout, at) ==
  /\ layout \in Seq(Ops) /\ at \in [0 .. Len(layout) -> Stages] /\ GoesBy(layout, at)
  /\ at[0] = <<0, 0>> /\ at[Len(layout)] = <<5, 1>>
  /\ \A n \in 1 .. Len(layout) : Proper(layout[n])

LEMMA NewBuilderTidy == Tidy(NewBuilder, 0) /\ NewBuilder.section = 0
<1> DEFINE b == NewBuilder
<1>1. b \in Builders
  BY NewBuilderKept
<1>2. /\ b.text = <<>> /\ b.steps = <<>> /\ b.section = 0 /\ b.open = FALSE
      /\ \A s \in 0 .. Sections - 1 : b.counts[s] = 0
  BY DEF NewBuilder, OriginSection
<1> HIDE DEF b
<1>3. Closed(b) = 0 /\ Pending(b) = 0 /\ Len(b.text) = 0
  BY <1>2 DEF Closed, Pending
<1>4. Neat(b)
  BY <1>1, <1>2, <1>3 DEF Neat
<1>5. HolesOrEnds(b)
  BY <1>3 DEF HolesOrEnds
<1>6. EndsBefore(b, 0)
  <2>1. \A s \in 0 .. Sections - 1 : EndsOf(b, s) = {} /\ ~ s < 0
    BY <1>3 DEF EndsOf, Sections
  <2> QED BY <2>1 DEF EndsBefore
<1>7. Adds(b)
  <2> DEFINE r == [i \in 0 .. 0 |-> 0]
  <2>1. r \in [0 .. 0 -> Nat] /\ r[0] = 0
    OBVIOUS
  <2> HIDE DEF r
  <2>2. Sums(r, b.steps, Closed(b)) /\ r[Closed(b)] + Pending(b) = Len(b.text)
    BY <1>3, <2>1 DEF Sums
  <2> QED BY <2>2 DEF Adds
<1> QED BY <1>2, <1>4, <1>5, <1>6, <1>7 DEF Tidy, b

LEMMA BuiltTidy ==
  ASSUME NEW layout, NEW at, Runs6(layout, at), NEW n \in 0 .. Len(layout), NEW r, Built(r, layout, n)
  PROVE  /\ \A i \in 0 .. n : Tidy(r[i], r[i].section) /\ r[i].section = at[i][1]
         /\ \A i \in 1 .. n : Builds(r[i - 1], r[i], layout[i], at[i])
<1> DEFINE S == {i \in 0 .. n : Tidy(r[i], r[i].section) /\ r[i].section = at[i][1]}
<1>0. n \in Nat /\ Len(layout) \in Nat /\ \A i \in 1 .. n : i \in 1 .. Len(layout) /\ i - 1 \in 0 .. Len(layout)
  BY DEF Runs6
<1>1. 0 \in S
  BY <1>0, NewBuilderTidy DEF Built, Runs6
<1>2. ASSUME NEW i \in 1 .. n, i - 1 \in S
      PROVE  Builds(r[i - 1], r[i], layout[i], at[i])
  <2>0. i \in 1 .. Len(layout) /\ i \in 0 .. Len(layout)
    BY <1>0
  <2>5. layout[i] \in Ops
    <3>1. layout \in Seq(Ops)
      BY DEF Runs6
    <3> QED BY <2>0, <3>1
  <2>6. Proper(layout[i]) /\ at[i] \in Stages
    BY <2>0 DEF Runs6
  <2>7. Moves(layout[i], at[i - 1], at[i])
    BY <2>0 DEF Runs6, GoesBy
  <2>1. layout[i] \in Ops /\ Proper(layout[i]) /\ at[i] \in Stages /\ Moves(layout[i], at[i - 1], at[i])
    BY <2>5, <2>6, <2>7
  <2>2. Tidy(r[i - 1], r[i - 1].section) /\ r[i - 1].section = at[i - 1][1]
    BY <1>2
  <2>3. r[i] = Build(r[i - 1], layout[i])
    BY DEF Built
  <2> DEFINE b == r[i - 1]
             op == layout[i]
             p == at[i - 1]
             q == at[i]
  <2>4. Tidy(b, b.section) /\ op \in Ops /\ Proper(op) /\ q \in Stages /\ Moves(op, p, q) /\ b.section = p[1]
    BY <2>1, <2>2
  <2> HIDE DEF b, op, p, q
  <2>8. Builds(b, Build(b, op), op, q)
    BY <2>4, BuildsOn
  <2> QED BY <2>3, <2>8 DEF b, op, q
<1>3. \A i \in 1 .. n : i - 1 \in S => i \in S
  <2> SUFFICES ASSUME NEW i \in 1 .. n, i - 1 \in S PROVE i \in S
    OBVIOUS
  <2>1. Tidy(r[i], r[i].section) /\ r[i].section = at[i][1]
    BY <1>2 DEF Builds
  <2>2. i \in 0 .. n
    BY <1>0
  <2> QED BY <2>1, <2>2
<1>4. \A i \in 0 .. n : i \in S
  <2> HIDE DEF S
  <2> QED BY <1>0, <1>1, <1>3, Induction
<1>5. \A i \in 1 .. n : i - 1 \in 0 .. n
  BY <1>0
<1> QED BY <1>2, <1>4, <1>5

\* What a builder has of an operation, every later one has.
LEMMA BuiltGrows ==
  ASSUME NEW layout, NEW at, Runs6(layout, at), NEW n \in 0 .. Len(layout), NEW r, Built(r, layout, n),
         NEW m \in 0 .. n
  PROVE  \A i \in m .. n : Grows(r[m], r[i])
<1>0. n \in Nat /\ m \in Nat /\ m <= n /\ \A i \in 0 .. n : r[i] \in Builders
  BY DEF Runs6, Built
<1> DEFINE S == {i \in 0 .. n - m : Grows(r[m], r[m + i])}
<1>1. 0 \in S
  <2>1. m + 0 = m /\ 0 \in 0 .. n - m
    BY <1>0
  <2> QED BY <1>0, <2>1, GrowsSelf
<1>2. \A i \in 1 .. n - m : i - 1 \in S => i \in S
  <2> SUFFICES ASSUME NEW i \in 1 .. n - m, i - 1 \in S PROVE i \in S
    OBVIOUS
  <2>1. m + i \in 1 .. n /\ (m + i) - 1 = m + (i - 1) /\ i \in 0 .. n - m
        /\ m + i \in 0 .. n /\ m + (i - 1) \in 0 .. n
    BY <1>0
  <2>2. Grows(r[m + (i - 1)], r[m + i])
    BY <2>1, BuiltTidy DEF Builds
  <2>3. r[m] \in Builders /\ r[m + (i - 1)] \in Builders /\ r[m + i] \in Builders
    BY <1>0, <2>1
  <2>4. Grows(r[m], r[m + i])
    <3> DEFINE b == r[m]
               c == r[m + (i - 1)]
               d == r[m + i]
    <3>1. b \in Builders /\ c \in Builders /\ d \in Builders /\ Grows(b, c) /\ Grows(c, d)
      BY <2>2, <2>3
    <3> HIDE DEF b, c, d
    <3>2. Grows(b, d)
      BY <3>1, GrowsOn
    <3> QED BY <3>2 DEF b, d
  <2> QED BY <2>1, <2>4
<1>3. n - m \in Nat
  BY <1>0
<1>4. \A i \in 0 .. n - m : i \in S
  <2> HIDE DEF S
  <2> QED BY <1>1, <1>2, <1>3, Induction
<1> SUFFICES ASSUME NEW i \in m .. n PROVE Grows(r[m], r[i])
  OBVIOUS
<1>5. i - m \in 0 .. n - m /\ m + (i - m) = i
  BY <1>0
<1>6. i - m \in S
  BY <1>4, <1>5
<1> QED BY <1>5, <1>6

\* The text that no section holds comes after that of the sections.
LEMMA StashEnds ==
  ASSUME NEW b, Neat(b), NEW text \in Wording
  PROVE  /\ EndOf(Stash(b, text)) = Stash(EndOf(b), text)
         /\ Stash(b, text).section = b.section
<1> DEFINE s == b.section
           c == Stash(b, text)
           closed == IF b.open THEN b ELSE PushIn(b, s, EmptyStep)
           other == IF c.open THEN c ELSE PushIn(c, s, EmptyStep)
           n == Len(closed.steps)
           m == Len(other.steps)
<1>0. b \in Builders /\ EndOf(b) \in Builders /\ EndOf(b).text = b.text
  BY EndCloses DEF Closes, Neat
<1>1. b \in BuilderRecords /\ s \in 0 .. Sections - 1
  BY <1>0, BuilderIs
<1>2. /\ c.text = b.text \o text /\ c.steps = b.steps /\ c.counts = b.counts /\ c.section = s
      /\ c.open = b.open /\ c.fields = b.fields /\ c.params = b.params /\ c.optional = b.optional
      /\ c = [b EXCEPT !.text = b.text \o text]
  BY <1>1 DEF Stash, BuilderRecords
<1>3. closed \in BuilderRecords /\ other = [closed EXCEPT !.text = b.text \o text] /\ closed.text = b.text
  <2>1. CASE b.open
    BY <1>1, <1>2, <2>1 DEF BuilderRecords
  <2>2. CASE ~ b.open
    <3>1. PushIn(b, s, EmptyStep) \in BuilderRecords
      BY <1>0, <1>1, EmptyStepKept, PushInKept, BuilderIs
    <3>2. PushIn(c, s, EmptyStep) = [PushIn(b, s, EmptyStep) EXCEPT !.text = b.text \o text]
          /\ PushIn(b, s, EmptyStep).text = b.text
      <4> DEFINE counts == [b.counts EXCEPT ![s] = @ + 1]
                 pushed == Append(b.steps, EmptyStep)
      <4>1. PushIn(b, s, EmptyStep) = [b EXCEPT !.steps = pushed, !.counts = counts]
        <5> HIDE DEF s
        <5> QED BY <1>1 DEF PushIn, BuilderRecords
      <4>2. PushIn(c, s, EmptyStep) = [c EXCEPT !.steps = pushed, !.counts = counts]
        <5>1. c \in BuilderRecords
          BY <1>0, StashKept, BuilderIs
        <5>2. Append(c.steps, EmptyStep) = pushed /\ [c.counts EXCEPT ![s] = @ + 1] = counts
          BY <1>2
        <5> HIDE DEF c, s
        <5>3. PushIn(c, s, EmptyStep)
                = [c EXCEPT !.steps = Append(c.steps, EmptyStep), !.counts = [c.counts EXCEPT ![s] = @ + 1]]
          BY <5>1 DEF PushIn, BuilderRecords
        <5> QED BY <5>2, <5>3
      <4> HIDE DEF c, counts, pushed
      <4> QED BY <1>1, <1>2, <4>1, <4>2 DEF BuilderRecords
    <3> QED BY <1>2, <2>2, <3>1, <3>2
  <2> QED BY <2>1, <2>2
<1>4. EndSection(b, s) = [closed EXCEPT !.steps[n].ends = @ \cup {s}]
  BY DEF EndSection, LastStep
<1>5. EndSection(c, s) = [other EXCEPT !.steps[m].ends = @ \cup {s}]
  BY <1>2 DEF EndSection, LastStep
<1>6. EndOf(b) = [EndSection(b, s) EXCEPT !.section = Later(s), !.open = FALSE]
  BY DEF EndOf
<1>7. EndOf(c) = [EndSection(c, s) EXCEPT !.section = Later(s), !.open = FALSE]
  BY <1>2 DEF EndOf
<1> DEFINE steps == [closed.steps EXCEPT ![n].ends = @ \cup {s}]
<1>8. EndSection(b, s) = [closed EXCEPT !.steps = steps]
  <2> HIDE DEF closed, s, n
  <2> QED BY <1>3, <1>4 DEF BuilderRecords
<1>9. EndSection(c, s) = [closed EXCEPT !.text = b.text \o text, !.steps = steps]
  <2> HIDE DEF closed, other, s, c
  <2>1. other.steps = closed.steps /\ m = n
    BY <1>3 DEF BuilderRecords
  <2> HIDE DEF m, n
  <2> QED BY <1>3, <1>5, <2>1 DEF BuilderRecords
<1> HIDE DEF closed, other, steps, s, c
<1>10. EndOf(b) = [closed EXCEPT !.steps = steps, !.section = Later(s), !.open = FALSE]
  BY <1>3, <1>6, <1>8 DEF BuilderRecords
<1>11. EndOf(c) = [closed EXCEPT !.text = b.text \o text, !.steps = steps, !.section = Later(s), !.open = FALSE]
  BY <1>3, <1>7, <1>9 DEF BuilderRecords
<1>12. EndOf(b) \in BuilderRecords /\ EndOf(b).text = b.text
  BY <1>0, BuilderIs
<1> DEFINE words == b.text \o text
<1>13. EndOf(c) = [EndOf(b) EXCEPT !.text = words]
  <2> HIDE DEF words
  <2>1. EndOf(c) = [closed EXCEPT !.text = words, !.steps = steps, !.section = Later(s), !.open = FALSE]
    BY <1>11 DEF words
  <2> QED BY <1>3, <1>10, <2>1 DEF BuilderRecords
<1>14. Stash(EndOf(b), text) = [EndOf(b) EXCEPT !.text = words]
  BY <1>12 DEF Stash, BuilderRecords
<1> QED BY <1>2, <1>13, <1>14 DEF c, s

\* The sum of the steps.
LEMMA SumIs ==
  ASSUME NEW steps \in Seq(StepsKept)
  PROVE  \E r : Sums(r, steps, Len(steps)) /\ SumOf(steps, StepText) = r[Len(steps)]
<1> DEFINE k == Len(steps)
           numbers == [n \in DOMAIN steps |-> StepText(steps[n])]
<1>1. k \in Nat /\ DOMAIN steps = 1 .. k /\ \A n \in 1 .. k : StepText(steps[n]) \in Nat
  <2>1. k \in Nat /\ DOMAIN steps = 1 .. k /\ \A n \in 1 .. k : steps[n] \in StepsKept
    OBVIOUS
  <2> QED BY SMTT(20), <2>1 DEF StepText, StepsKept
<1> HIDE DEF k
<1>2. numbers \in Seq(Nat) /\ Len(numbers) = k /\ \A n \in 1 .. k : numbers[n] = StepText(steps[n])
  <2>1. numbers \in [1 .. k -> Nat]
    BY <1>1
  <2> QED BY <1>1, <2>1, FunctionIsSeq
<1>3. SumOf(steps, StepText) = Added(numbers)
  BY Zenon DEF SumOf
<1> HIDE DEF numbers
<1>4. PICK r : Adding(r, numbers) /\ Added(numbers) = r[Len(numbers)]
  BY <1>2, AddedIs
<1>5. Sums(r, steps, k)
  BY <1>2, <1>4 DEF Adding, Sums
<1> QED BY <1>2, <1>3, <1>4, <1>5 DEF k

\* There is one such sum.
LEMMA SumsSame ==
  ASSUME NEW r, NEW q, NEW steps, NEW n \in Nat, Sums(r, steps, n), Sums(q, steps, n)
  PROVE  \A i \in 0 .. n : r[i] = q[i]
<1> DEFINE S == {i \in 0 .. n : r[i] = q[i]}
<1>1. 0 \in S
  BY DEF Sums
<1>2. \A i \in 1 .. n : i - 1 \in S => i \in S
  BY DEF Sums
<1>3. \A i \in 0 .. n : i \in S
  <2> HIDE DEF S
  <2> QED BY <1>1, <1>2, Induction
<1> QED BY <1>3

\* A template that is finished of a layout: the builder e has ended every section.
Prepares(e, bytes, table, stash) ==
  /\ Tidy(e, Sections) /\ ~ e.open
  /\ bytes.text = e.text \o stash /\ bytes.steps = e.steps
  /\ table.start = Len(bytes.text) /\ table.total = Len(e.steps) /\ table.counts = e.counts
  /\ table.params = e.params /\ table.fields = e.fields
  /\ table.body = HasBody(e.steps, e.counts) /\ table.urlFixed = UrlText(e.steps, e.counts)

LEMMA FinishPrepares ==
  ASSUME NEW b, Tidy(b, b.section), b.section = 5, NEW stash \in Wording
  PROVE  LET f == Finish(Stash(b, stash)) IN Prepares(EndOf(b), f.bytes, f.table, stash)
<1> DEFINE c == Stash(b, stash)
           e == EndOf(b)
           f == Finish(c)
<1>1. b \in Builders /\ Neat(b)
  BY DEF Tidy, Neat
<1>2. c \in Builders /\ c.section = BodySection /\ EndOf(c) = Stash(e, stash)
  BY <1>1, StashKept, StashEnds DEF BodySection
<1>3. Seals(c, EndOf(c))
  BY <1>2, FinishSeals
<1>4. Tidy(e, Sections) /\ ~ e.open
  <2>1. b.section + 1 = Sections
    BY DEF Sections
  <2>2. Closes(b, e, NoHole, 0, {b.section})
    BY <1>1, EndCloses
  <2> QED BY <2>1, <2>2, TidyEnds DEF Closes
<1> HIDE DEF c, e
<1>5. e \in BuilderRecords
  BY <1>4, BuilderIs DEF Tidy, Neat
<1> DEFINE d == Stash(e, stash)
<1>6. /\ d.text = e.text \o stash /\ d.steps = e.steps /\ d.counts = e.counts
      /\ d.params = e.params /\ d.fields = e.fields
  BY <1>5 DEF Stash, BuilderRecords
<1> HIDE DEF d, f
<1>7. Seals(c, d)
  BY <1>2, <1>3 DEF d
<1>8. Prepares(e, f.bytes, f.table, stash)
  BY <1>4, <1>6, <1>7 DEF Prepares, Seals, f
<1> QED BY <1>8 DEF c, e, f

-----------------------------------------------------------------------------
(* The table of a layout.                                                   *)

\* A table says of its sections and of its text what its steps are.
Tabled(bytes, table, stash) ==
  /\ SumOf(bytes.steps, StepText) + Len(stash) = table.start
  /\ \A section \in 0 .. Sections - 1 :
       {n \in DOMAIN bytes.steps : section \in bytes.steps[n].ends}
         = {StepsBefore(table.counts, section + 1)}
  /\ \A n \in DOMAIN bytes.steps :
       bytes.steps[n].hole = NoHole <=> \E section \in 0 .. Sections - 1 : bytes.steps[n].ends = {section}

LEMMA PreparedIsTabled ==
  ASSUME NEW e, NEW bytes, NEW table, NEW stash \in Wording, Prepares(e, bytes, table, stash)
  PROVE  Tabled(bytes, table, stash)
<1> DEFINE steps == e.steps
           k == Len(e.steps)
<1>1. /\ Tidy(e, Sections) /\ ~ e.open /\ bytes.steps = steps
      /\ bytes.text = e.text \o stash /\ table.start = Len(bytes.text) /\ table.counts = e.counts
  BY DEF Prepares
<1>2. e \in Builders /\ steps \in Seq(StepsKept) /\ e.text \in Wording
  BY <1>1, BuilderIs DEF Tidy, Neat
<1>3. Closed(e) = k /\ Pending(e) = 0 /\ k \in Nat /\ DOMAIN steps = 1 .. k
  BY <1>1, <1>2 DEF Closed, Pending
<1> HIDE DEF steps, k
<1>4. SumOf(steps, StepText) = Len(e.text)
  <2>1. PICK r : Sums(r, steps, k) /\ r[k] + 0 = Len(e.text)
    BY <1>1, <1>3 DEF Tidy, Adds, steps
  <2>2. PICK q : Sums(q, steps, k) /\ SumOf(steps, StepText) = q[k]
    BY <1>2, SumIs DEF k, steps
  <2>3. k \in 0 .. k
    BY <1>3
  <2>4. r[k] = q[k]
    BY <1>3, <2>1, <2>2, <2>3, SumsSame
  <2>5. r[k] \in Nat
    BY <2>1, <2>3 DEF Sums
  <2> QED BY <2>1, <2>2, <2>4, <2>5
<1>5. Len(bytes.text) = Len(e.text) + Len(stash)
  BY <1>1, <1>2 DEF Wording
<1>6. ASSUME NEW s \in 0 .. Sections - 1
      PROVE  {n \in 1 .. k : s \in steps[n].ends} = {StepsBefore(e.counts, s + 1)}
  <2>1. s < Sections
    BY DEF Sections
  <2>2. EndsOf(e, s) = {StepsBefore(e.counts, s + 1)}
    BY <1>1, <2>1 DEF Tidy, EndsBefore
  <2> QED BY <1>3, <2>2 DEF EndsOf, steps
<1>7. ASSUME NEW n \in 1 .. k
      PROVE  steps[n].hole = NoHole <=> \E s \in 0 .. Sections - 1 : steps[n].ends = {s}
  <2>1. IF steps[n].hole = NoHole THEN \E s \in 0 .. Sections - 1 : steps[n].ends = {s}
                                  ELSE steps[n].ends = {}
    BY <1>1, <1>3 DEF Tidy, HolesOrEnds, steps
  <2> QED BY <2>1
<1>8. bytes.steps = steps /\ DOMAIN bytes.steps = 1 .. k /\ table.counts = e.counts
  BY <1>1, <1>3
<1> HIDE DEF steps, k
<1> DEFINE all == bytes.steps
<1>9. SumOf(all, StepText) + Len(stash) = table.start
  <2>1. table.start = Len(bytes.text)
    BY <1>1
  <2>2. SumOf(all, StepText) = Len(e.text)
    BY <1>4, <1>8
  <2> QED BY <1>5, <2>1, <2>2
<1>10. \A s \in 0 .. Sections - 1 : {n \in DOMAIN all : s \in all[n].ends} = {StepsBefore(table.counts, s + 1)}
  BY <1>6, <1>8
<1>11. \A n \in DOMAIN all : all[n].hole = NoHole <=> \E s \in 0 .. Sections - 1 : all[n].ends = {s}
  BY <1>7, <1>8
<1> QED BY ONLY <1>9, <1>10, <1>11 DEF Tabled

-----------------------------------------------------------------------------
(* A request as its layout says it, one operation after the other.          *)

SaidSection(m, section) == IF section = m.section + 1 THEN SaidEnd(m) ELSE SaidEnd(SaidEnd(m))

SaidParam(m, param, f) ==
  CASE param.mode = "fixed" -> SaidText(SaidSeparator(m), <<param.name, "=">> \o param.value)
    [] param.mode = "hole" ->
         WriteHole(SaidText(SaidSeparator(m), <<param.name, "=">>), param.hole, <<>>, f)
    [] param.mode = "optional" ->
         WriteHole([m EXCEPT !.optional = TRUE], param.hole, <<param.name>>, f)

SaidOp(m, op, f) ==
  CASE op.op = "section" -> SaidSection(m, op.section)
    [] op.op = "text"    -> SaidText(m, op.text)
    [] op.op = "hole"    -> WriteHole(m, op.hole, <<>>, f)
    [] op.op = "fields"  -> SaidFields(m)
    [] op.op = "param"   -> SaidParam(m, op.param, f)

LEMMA MoreIs ==
  ASSUME NEW len, NEW out \in Said(len), NEW more \in Said(len)
  PROVE  out \o more \in Said(len) /\ Len(out \o more) = Len(out) + Len(more)
         /\ Len(out) \in Nat /\ Len(more) \in Nat /\ Len(out) <= Len(out \o more)
<1> DEFINE X == Told(len)
<1>1. out \in Seq(X) /\ more \in Seq(X)
  BY DEF Said
<1> HIDE DEF X
<1>2. out \o more \in Seq(X) /\ Len(out \o more) = Len(out) + Len(more)
      /\ Len(out) \in Nat /\ Len(more) \in Nat
  BY <1>1
<1> QED BY <1>2 DEF X, Said

LEMMA SaidTextIs ==
  ASSUME NEW len, NEW unread, NEW m \in Passes(len, unread), NEW more \in Wording
  PROVE  /\ SaidText(m, more) \in Passes(len, unread)
         /\ SaidText(m, more).out = m.out \o more /\ SaidText(m, more).ends = m.ends
         /\ SaidText(m, more).params = m.params /\ Same(SaidText(m, more), m)
         /\ StaysPut(SaidText(m, more), m)
<1> DEFINE out == m.out \o more
           n == SaidText(m, more)
           next == Moved(m, out, m.ends, m.fields, m.at, m.cursor, m.section, m.optional, m.failed)
<1>1. m \in PassRecords(len, unread) /\ m.out \in Said(len) /\ more \in Said(len)
  BY PassIs, SaidIs DEF Passes
<1>2. out \in Said(len) /\ Len(m.out) <= Len(out) /\ Len(out) \in Nat /\ Len(m.out) \in Nat
  <2> DEFINE was == m.out
  <2>1. was \in Said(len)
    BY <1>1
  <2> HIDE DEF was
  <2>2. was \o more \in Said(len) /\ Len(was) <= Len(was \o more) /\ Len(was) \in Nat
        /\ Len(was \o more) = Len(was) + Len(more) /\ Len(more) \in Nat
    BY <1>1, <2>1, MoreIs
  <2> QED BY <2>2 DEF was
<1>3. m.ends \in EndsWithin(Len(out))
  BY <1>2, PassIs, EndsStay
<1> HIDE DEF out
<1>4. n = next
  BY <1>1 DEF SaidText, Moved, PassRecords, out
<1>5. next \in Passes(len, unread)
  BY <1>2, <1>3, PassIs, PassMoved
<1> HIDE DEF n
<1>6. /\ n.out = out /\ n.ends = m.ends /\ n.params = m.params /\ Same(n, m) /\ StaysPut(n, m)
  BY <1>1, <1>4 DEF Moved, PassRecords, Same, StaysPut
<1> QED BY <1>4, <1>5, <1>6 DEF n, out

LEMMA KeepsText ==
  ASSUME NEW e, NEW table, NEW steps, NEW text, Finished(e, table, steps, text),
         NEW b, Neat(b), NEW more \in Wording, Grows(BuildText(b, more), e),
         NEW len, NEW w, NEW m, Keeps(b, w, m, table, text, len)
  PROVE  Keeps(BuildText(b, more), w, SaidText(m, more), table, text, len)
<1> DEFINE c == BuildText(b, more)
           n == SaidText(m, more)
<1>0. w \in Passes(len, FALSE) /\ m \in Passes(len, FALSE) /\ Follows(b, w, m, table, text)
      /\ w.at = Closed(b) /\ w.optional = b.optional /\ (m.at = 1 => w.fields = m.fields)
  BY DEF Keeps
<1>1. Follows(c, w, n, table, text)
  BY <1>0, FollowsText
<1>2. n \in Passes(len, FALSE) /\ n.at = m.at /\ n.fields = m.fields
  <2>1. n \in Passes(len, FALSE) /\ StaysPut(n, m)
    BY <1>0, SaidTextIs
  <2> HIDE DEF n
  <2> QED BY <2>1 DEF StaysPut
<1>3. Closed(c) = Closed(b) /\ c.optional = b.optional
  BY TextGrows DEF Else
<1> HIDE DEF c, n
<1>4. Keeps(c, w, n, table, text, len)
  BY <1>0, <1>1, <1>2, <1>3 DEF Keeps
<1> QED BY <1>4 DEF c, n

\* The text of a hole, by the kind of it.
LEMMA ValueIs ==
  ASSUME NEW w, NEW hole, NEW name, NEW f
  PROVE  /\ hole = "Separator" => HoleText(w, hole, name, f) = Separator(w)
         /\ hole = "Target" => HoleText(w, hole, name, f) = Again(w, w.ends[OriginSection], w.ends[QuerySection])
         /\ hole = "Path" => HoleText(w, hole, name, f) = Again(w, w.ends[OriginSection], w.ends[PathSection])
         /\ hole = "Query"
              => HoleText(w, hole, name, f) = Again(w, w.ends[PathSection] + 1, w.ends[QuerySection])
         /\ hole = "Signature" => HoleText(w, hole, name, f) = SignaturePlaceholder
         /\ hole = "BodyLength" => HoleText(w, hole, name, f) = Decimal(w.bodyLen)
         /\ hole = "BodyHash" => HoleText(w, hole, name, f) = HashPlaceholder
         /\ hole = "BodyChecksum" => HoleText(w, hole, name, f) = ChecksumPlaceholder
         /\ hole = "Body" => HoleText(w, hole, name, f) = f.body
         /\ hole \in OptionalHoles /\ LeftOut(hole, f) => HoleText(w, hole, name, f) = <<>>
         /\ hole \in OptionalHoles /\ ~ LeftOut(hole, f)
              => HoleText(w, hole, name, f) = Separator(w) \o name \o <<"=">> \o ValueText(hole, f)
         /\ hole \notin {"Separator", "Target", "Path", "Query", "Signature", "BodyLength", "BodyHash",
                         "BodyChecksum", "Body"} \cup OptionalHoles
              => HoleText(w, hole, name, f) = ValueText(hole, f)
<1> DEFINE target == Again(w, w.ends[OriginSection], w.ends[QuerySection])
           path == Again(w, w.ends[OriginSection], w.ends[PathSection])
           query == Again(w, w.ends[PathSection] + 1, w.ends[QuerySection])
           told == Separator(w) \o name \o <<"=">> \o ValueText(hole, f)
           value == ValueText(hole, f)
           separator == Separator(w)
           len == Decimal(w.bodyLen)
           left == LeftOut(hole, f)
<1>1. HoleText(w, hole, name, f) =
        CASE hole = "Target"       -> target
          [] hole = "Path"         -> path
          [] hole = "Query"        -> query
          [] hole = "Signature"    -> SignaturePlaceholder
          [] hole = "BodyLength"   -> len
          [] hole = "BodyHash"     -> HashPlaceholder
          [] hole = "BodyChecksum" -> ChecksumPlaceholder
          [] hole = "Separator"    -> separator
          [] hole \in OptionalHoles -> IF left THEN <<>> ELSE told
          [] hole = "Body"         -> f.body
          [] OTHER -> value
  BY Zenon DEF HoleText
<1>2. OptionalHoles \cap {"Separator", "Target", "Path", "Query", "Signature", "BodyLength", "BodyHash",
                         "BodyChecksum", "Body"} = {}
  BY DEF OptionalHoles
<1> HIDE DEF target, path, query, told, value, separator, len, left
<1> DEFINE said == HoleText(w, hole, name, f)
<1>3. /\ hole = "Separator" => said = separator
      /\ hole = "Target" => said = target
      /\ hole = "Path" => said = path
      /\ hole = "Query" => said = query
      /\ hole = "Signature" => said = SignaturePlaceholder
      /\ hole = "BodyLength" => said = len
      /\ hole = "BodyHash" => said = HashPlaceholder
      /\ hole = "BodyChecksum" => said = ChecksumPlaceholder
      /\ hole = "Body" => said = f.body
      /\ hole \in OptionalHoles /\ left => said = <<>>
      /\ hole \in OptionalHoles /\ ~ left => said = told
      /\ hole \notin {"Separator", "Target", "Path", "Query", "Signature", "BodyLength", "BodyHash",
                      "BodyChecksum", "Body"} \cup OptionalHoles => said = value
  BY <1>1, <1>2
<1> QED BY <1>3 DEF target, path, query, told, value, separator, len, left

\* A parameter with a separator of its own, whose text is known from the first.
LEMMA SeparatorIs ==
  ASSUME NEW len, NEW unread, NEW m \in Passes(len, unread), NEW f, FillOf(f)
  PROVE  /\ WriteHole(m, "Separator", <<>>, f) = SaidSeparator(m)
         /\ SaidSeparator(m) \in Passes(len, unread)
         /\ Separator(m) \in Wording /\ Len(Separator(m)) = 1
<1>1. m \in PassRecords(len, unread)
  BY DEF Passes
<1>2. CanFill("Separator", f) /\ CountsParam("Separator", f)
      /\ HoleText(m, "Separator", <<>>, f) = Separator(m)
  <2>1. CanFill("Separator", f) /\ CountsParam("Separator", f)
    BY DEF CanFill, CountsParam
  <2>2. HoleText(m, "Separator", <<>>, f) = Separator(m)
    BY ValueIs
  <2> QED BY <2>1, <2>2
<1> DEFINE sep == Separator(m)
           out == m.out \o sep
           params == m.params + 1
<1>3. WriteHole(m, "Separator", <<>>, f)
        = [m EXCEPT !.out = out, !.params = params, !.signature = m.signature,
                    !.bodyHash = m.bodyHash, !.bodyChecksum = m.bodyChecksum]
  <2> HIDE DEF out
  <2>1. "Separator" # "Signature" /\ "Separator" # "BodyHash" /\ "Separator" # "BodyChecksum"
    OBVIOUS
  <2> QED BY <1>2, <2>1, Zenon DEF WriteHole, out
<1>4. SaidSeparator(m) = [m EXCEPT !.out = out, !.params = params]
  BY <1>1 DEF SaidSeparator, PassRecords
<1>5. WriteHole(m, "Separator", <<>>, f) = SaidSeparator(m)
  <2> HIDE DEF out, params
  <2> QED BY <1>1, <1>3, <1>4 DEF PassRecords
<1>6. <<>> \in Said(len)
  BY WordingIs, SaidIs
<1>7. "?" \in Words /\ "&" \in Words
  BY DEF Words
<1>8. <<"?">> \in Wording /\ <<"&">> \in Wording /\ Len(<<"?">>) = 1 /\ Len(<<"&">>) = 1
  BY <1>7, WordingIs
<1> QED BY <1>5, <1>6, <1>8, WriteHoleKept DEF Separator

\* The end of a section.
EndedAs(m, n) ==
  /\ n.out = m.out /\ n.params = m.params /\ n.ends = [m.ends EXCEPT ![m.section] = Len(m.out)]
  /\ n.signature = m.signature /\ n.bodyHash = m.bodyHash /\ n.bodyChecksum = m.bodyChecksum
  /\ n.at = m.at /\ n.cursor = m.cursor /\ n.section = Later(m.section)
  /\ n.optional = m.optional /\ n.failed = m.failed /\ n.fields = m.fields

LEMMA SaidEndIs ==
  ASSUME NEW len, NEW unread, NEW m \in Passes(len, unread), m.section \in 0 .. Sections - 1
  PROVE  SaidEnd(m) \in Passes(len, unread) /\ EndedAs(m, SaidEnd(m))
<1> DEFINE s == m.section
           ends == [m.ends EXCEPT ![s] = Len(m.out)]
           later == Later(s)
           n == SaidEnd(m)
           next == Moved(m, m.out, ends, m.fields, m.at, m.cursor, later, m.optional, m.failed)
<1>1. m \in PassRecords(len, unread) /\ m.out \in Said(len) /\ Len(m.out) \in Nat
      /\ m.ends \in EndsWithin(Len(m.out)) /\ Len(m.out) <= Len(m.out)
  BY PassIs DEF Passes
<1>2. later \in 0 .. Sections
  BY SectionIs DEF Later, Sections
<1>3. ends \in EndsWithin(Len(m.out))
  <2> DEFINE top == Len(m.out)
             was == m.ends
  <2>1. top \in Nat /\ was \in [0 .. Sections - 1 -> Nat] /\ (\A t \in 0 .. Sections - 1 : was[t] <= top)
        /\ s \in 0 .. Sections - 1
    BY <1>1 DEF EndsWithin
  <2> HIDE DEF top, was, s
  <2>2. [was EXCEPT ![s] = top] \in [0 .. Sections - 1 -> Nat]
        /\ \A t \in 0 .. Sections - 1 : [was EXCEPT ![s] = top][t] <= top
    BY <2>1
  <2> QED BY <2>2 DEF EndsWithin, top, was, s
<1> HIDE DEF ends, later
<1>4. n = next
  <2>1. n = [m EXCEPT !.ends = ends, !.section = later]
    BY <1>1 DEF SaidEnd, Position, PassRecords, ends, later
  <2> QED BY <1>1, <2>1 DEF Moved, PassRecords
<1>5. next \in Passes(len, unread)
  BY <1>1, <1>2, <1>3, PassIs, PassMoved
<1> HIDE DEF n
<1>6. /\ n.out = m.out /\ n.params = m.params /\ n.ends = ends
      /\ n.signature = m.signature /\ n.bodyHash = m.bodyHash
      /\ n.bodyChecksum = m.bodyChecksum
      /\ n.at = m.at /\ n.cursor = m.cursor /\ n.section = later
      /\ n.optional = m.optional /\ n.failed = m.failed /\ n.fields = m.fields
  BY <1>1, <1>4 DEF Moved, PassRecords
<1> QED BY <1>4, <1>5, <1>6 DEF n, ends, later, EndedAs

-----------------------------------------------------------------------------
(* What one operation does to a pass that keeps up.                         *)

LEMMA KeepsIs ==
  ASSUME NEW b, NEW w, NEW m, NEW table, NEW text, NEW len, Keeps(b, w, m, table, text, len)
  PROVE  /\ w \in Passes(len, FALSE) /\ m \in Passes(len, FALSE) /\ Follows(b, w, m, table, text)
         /\ w.at = Closed(b) /\ w.optional = b.optional /\ (m.at = 1 => w.fields = m.fields)
         /\ w.cursor \in Nat /\ ~ w.failed /\ ~ m.failed /\ w.ends = m.ends
         /\ m.optional = b.optional /\ m.section = b.section
BY PassIs DEF Keeps, Follows, Same

LEMMA KeepsEnd ==
  ASSUME NEW e, NEW table, NEW steps, NEW text, Finished(e, table, steps, text),
         NEW b, Neat(b), Grows(EndOf(b), e),
         NEW len, NEW w, NEW m, Keeps(b, w, m, table, text, len)
  PROVE  /\ Keeps(EndOf(b), EndOne(w, b.section, steps, text), SaidEnd(m), table, text, len)
         /\ EndOne(w, b.section, steps, text).section = b.section + 1
<1> DEFINE c == EndOf(b)
           s == b.section
           t == Take(w, steps, text)
           y == EndOne(w, s, steps, text)
           n == SaidEnd(m)
<1>0. /\ w \in Passes(len, FALSE) /\ m \in Passes(len, FALSE) /\ Follows(b, w, m, table, text)
      /\ w.at = Closed(b) /\ w.optional = b.optional /\ (m.at = 1 => w.fields = m.fields)
      /\ w.cursor \in Nat /\ ~ w.failed /\ ~ m.failed /\ w.ends = m.ends
      /\ m.optional = b.optional /\ m.section = s
  BY KeepsIs
<1>1. /\ Closes(b, c, NoHole, 0, {s}) /\ c.text = b.text /\ c.section = Later(s)
      /\ c.params = b.params /\ c.optional = b.optional
  BY EndCloses
<1>2. b \in Builders /\ s \in 0 .. Sections - 1 /\ c \in Builders /\ Closed(c) = Closed(b) + 1
      /\ Len(b.text) \in Nat /\ Pending(b) \in Nat
  BY <1>1, BuilderIs DEF Neat, Closes
<1> HIDE DEF c
<1>3. t \in Passes(len, FALSE) /\ Takes(w, t, m.out, Pending(b))
  BY <1>1, Taken DEF c
<1>4. steps \in Seq(StepsKept) /\ text \in Wording
  BY FinishedIs DEF Finished
<1>5. y \in Passes(len, FALSE)
  BY <1>0, <1>2, <1>4, EndOneKept
<1>6. n \in Passes(len, FALSE) /\ n.out = m.out /\ n.params = m.params
      /\ n.ends = [m.ends EXCEPT ![s] = Len(m.out)]
      /\ n.signature = m.signature /\ n.bodyHash = m.bodyHash
      /\ n.bodyChecksum = m.bodyChecksum
      /\ n.at = m.at /\ n.section = Later(s)
      /\ n.optional = m.optional /\ n.failed = m.failed /\ n.fields = m.fields
  <2>1. m.section \in 0 .. Sections - 1 /\ m \in Passes(len, FALSE)
    BY <1>0, <1>2
  <2>2. n \in Passes(len, FALSE) /\ EndedAs(m, n)
    BY <2>1, SaidEndIs
  <2> HIDE DEF n, s
  <2> QED BY <1>0, <2>2 DEF EndedAs
<1>7. y = [t EXCEPT !.ends[s] = Position(t), !.section = s + 1]
  BY Zenon DEF EndOne
<1> HIDE DEF t, y, n, s
<1>8. /\ y.out = t.out /\ y.ends = [t.ends EXCEPT ![s] = Len(t.out)] /\ y.params = t.params
      /\ y.signature = t.signature /\ y.bodyHash = t.bodyHash /\ y.bodyChecksum = t.bodyChecksum
      /\ y.at = t.at /\ y.cursor = t.cursor /\ y.section = s + 1
      /\ y.optional = t.optional /\ y.failed = t.failed /\ y.fields = t.fields
  BY <1>3, <1>7 DEF Passes, PassRecords, Position
<1>9. /\ y.out = n.out /\ Same(y, n) /\ y.at = Closed(c) /\ y.optional = c.optional
      /\ y.cursor = w.cursor + Pending(b) /\ ~ y.failed /\ ~ n.failed
      /\ y.params = w.params /\ (n.at = 1 => y.fields = n.fields)
      /\ n.optional = c.optional /\ n.section = c.section
  BY <1>0, <1>1, <1>2, <1>3, <1>6, <1>8 DEF Takes, Same, Follows
<1>10. /\ c.optional => y.params = n.params
       /\ ~ c.optional => n.params = c.params /\ y.params = table.params
  BY <1>0, <1>1, <1>6, <1>9 DEF Follows
<1>11. Follows(c, y, n, table, text)
  <2>1. 0 \in Nat /\ Len(c.text) = Len(b.text) + 0 /\ y.cursor = w.cursor + Pending(b) + 0
    BY <1>0, <1>1, <1>2, <1>9
  <2>2. Grows(c, e)
    BY DEF c
  <2>3. /\ y.out = n.out /\ Same(y, n) /\ ~ y.failed /\ ~ n.failed
        /\ n.optional = c.optional /\ n.section = c.section
    BY <1>9
  <2>4. /\ b \in Builders /\ Closes(b, c, NoHole, 0, {s}) /\ Follows(b, w, m, table, text) /\ w.cursor \in Nat
        /\ y \in Passes(len, FALSE) /\ n \in Passes(len, FALSE)
    BY <1>0, <1>1, <1>2, <1>5, <1>6
  <2> QED BY <1>10, <2>1, <2>2, <2>3, <2>4, FollowsClose
<1>12. Keeps(c, y, n, table, text, len)
  BY <1>5, <1>6, <1>9, <1>11 DEF Keeps
<1> QED BY <1>8, <1>12 DEF c, y, n, s

LEMMA KeepsHoleOp ==
  ASSUME NEW e, NEW table, NEW steps, NEW text, Finished(e, table, steps, text),
         NEW b, Neat(b), NEW hole \in Words, Grows(BuildHole(b, hole), e),
         NEW len, NEW w, NEW m, Keeps(b, w, m, table, text, len),
         NEW f, Fills(f, b, hole)
  PROVE  /\ Keeps(BuildHole(b, hole), PassHole(w, hole, <<>>, f, steps, text), WriteHole(m, hole, <<>>, f),
                  table, text, len)
         /\ PassHole(w, hole, <<>>, f, steps, text).section = w.section
<1> DEFINE c == BuildHole(b, hole)
           p == PassHole(w, hole, <<>>, f, steps, text)
           n == WriteHole(m, hole, <<>>, f)
           y == Further(p, 0)
<1>0. w \in Passes(len, FALSE)
  BY KeepsIs
<1>1. Closes(b, c, hole, 0, {}) /\ c.text = b.text /\ Else(b, c) /\ Len(b.text) \in Nat
  BY HoleCloses, BuilderIs DEF Neat
<1>2. <<>> \in Said(len)
  BY WordingIs, SaidIs
<1> HIDE DEF c
<1>3. Keeps(c, y, n, table, text, len) /\ y.section = w.section
  <2>1. Grows(c, e)
    BY DEF c
  <2>2. ClosesHole(e, b, c, hole, 0)
    BY <1>1, <2>1 DEF ClosesHole
  <2> DEFINE said == <<>>
  <2>3. said \in Said(len)
    BY <1>2
  <2> HIDE DEF said
  <2>4. /\ Keeps(c, Further(PassHole(w, hole, said, f, steps, text), 0), WriteHole(m, hole, said, f),
                 table, text, len)
        /\ Further(PassHole(w, hole, said, f, steps, text), 0).section = w.section
    BY <2>2, <2>3, KeepsHole
  <2> QED BY <2>4 DEF said
<1>4. p \in Passes(len, FALSE)
  BY <1>0, <1>2, PassHoleKept, FinishedIs DEF Finished, Fills
<1> HIDE DEF p, n
<1>5. y = p
  <2>1. p \in PassRecords(len, FALSE) /\ p.cursor \in Nat
    BY <1>4, PassIs DEF Passes
  <2>2. p.cursor + 0 = p.cursor
    BY <2>1
  <2>3. y = [p EXCEPT !.cursor = p.cursor]
    BY <2>1, <2>2 DEF PassRecords, Further
  <2> QED BY <2>1, <2>3 DEF PassRecords
<1> QED BY <1>3, <1>5 DEF c, p, n

\* The place of the fields, which the table gives by a step and its run.
LEMMA KeepsFields ==
  ASSUME NEW e, NEW table, NEW steps, NEW text, Finished(e, table, steps, text),
         NEW b, Neat(b), Grows(b, e), table.fields = <<Closed(b), Pending(b)>>,
         NEW len, NEW w, NEW m, Keeps(b, w, m, table, text, len)
  PROVE  /\ Keeps(BuildFields(b), PassFields(w, table, steps), SaidFields(m), table, text, len)
         /\ PassFields(w, table, steps).section = w.section
<1> DEFINE c == BuildFields(b)
           run == IF w.at < Len(steps) THEN steps[w.at + 1].len ELSE 0
           y == PassFields(w, table, steps)
           n == SaidFields(m)
<1>0. /\ w \in Passes(len, FALSE) /\ m \in Passes(len, FALSE) /\ Follows(b, w, m, table, text)
      /\ w.at = Closed(b) /\ w.optional = b.optional
      /\ w.cursor \in Nat /\ ~ w.failed /\ ~ m.failed /\ b \in Builders
  BY KeepsIs DEF Neat
<1>1. /\ c.text = b.text /\ c.steps = b.steps /\ c.open = b.open /\ c.section = b.section
      /\ c.params = b.params /\ c.optional = b.optional
  BY <1>0 DEF BuildFields, Builders, BuilderRecords
<1>2. Closed(c) = Closed(b) /\ Pending(c) = Pending(b)
  BY <1>1, Zenon DEF Closed, Pending
<1>3. w \in PassRecords(len, FALSE) /\ m \in PassRecords(len, FALSE)
  BY <1>0 DEF Passes
<1>4. run \in Nat /\ run >= Pending(b) /\ Pending(b) \in Nat
  <2>1. steps \in Seq(StepsKept) /\ Len(steps) \in Nat /\ steps = e.steps /\ Closed(b) \in Nat /\ Pending(b) \in Nat
    BY <1>0, FinishedIs, BuilderIs DEF Finished
  <2>2. CASE b.open
    <3>1. Len(steps) > Closed(b) /\ steps[Closed(b) + 1].len >= Pending(b)
      BY <2>1, <2>2 DEF Grows, RunStays
    <3>2. steps[Closed(b) + 1] \in StepsKept
      BY <2>1, <3>1
    <3>3. steps[Closed(b) + 1].len \in Nat
      BY <3>2 DEF StepsKept
    <3> QED BY <1>0, <2>1, <3>1, <3>3
  <2>3. CASE ~ b.open
    <3>1. Pending(b) = 0
      BY <2>3 DEF Pending
    <3>2. CASE w.at < Len(steps)
      <4>1. steps[w.at + 1] \in StepsKept
        BY <1>0, <2>1, <3>2
      <4>2. steps[w.at + 1].len \in Nat
        BY <4>1 DEF StepsKept
      <4> QED BY <3>1, <3>2, <4>2
    <3>3. CASE ~ (w.at < Len(steps))
      BY <3>1, <3>3
    <3> QED BY <3>2, <3>3
  <2> QED BY <2>2, <2>3
<1> HIDE DEF run
<1>5. table.fields[1] = w.at /\ table.fields[2] = Pending(b)
      /\ (IF run < table.fields[2] THEN run ELSE table.fields[2]) = Pending(b)
  BY <1>0, <1>4
<1> DEFINE fields == Position(w) + Pending(b)
<1>6. y = [w EXCEPT !.failed = w.failed, !.fields = fields]
  <2>1. y = [w EXCEPT !.failed = w.failed \/ table.fields[1] # w.at,
                      !.fields = Position(w) + (IF run < table.fields[2] THEN run ELSE table.fields[2])]
    BY Zenon DEF PassFields, run
  <2>2. (w.failed \/ table.fields[1] # w.at) = w.failed
    <3>1. w.failed \in BOOLEAN
      BY <1>3 DEF PassRecords, Flags
    <3> QED BY <1>5, <3>1
  <2> QED BY <1>5, <2>1, <2>2, Zenon
<1>7. fields = Position(m) /\ fields \in Nat
  <2>1. Copies(w, m.out, text, Pending(b), len)
    BY <1>0, FollowsCopy
  <2> DEFINE out == w.out
             copied == Run(text, w.cursor, Pending(b))
             whole == m.out
  <2>2. out \in Said(len) /\ copied \in Said(len) /\ out \o copied = whole
    BY <1>0, <2>1, PassIs DEF Copies
  <2>3. Len(copied) = Pending(b)
    <3> DEFINE cursor == w.cursor
               more == Pending(b)
    <3>1. cursor \in Nat /\ more \in Nat /\ cursor + more <= Len(text) /\ text \in Seq(Words)
      BY <2>1, FinishedIs DEF Copies
    <3> HIDE DEF cursor, more
    <3>2. cursor + 1 \in 1 .. Len(text) + 1 /\ cursor + more \in (cursor + 1) - 1 .. Len(text)
      BY <3>1
    <3>3. Len(Run(text, cursor, more)) = more
      BY <3>1, <3>2, SubSeqIs DEF Run
    <3> QED BY <3>3 DEF cursor, more
  <2> HIDE DEF out, copied, whole
  <2>4. Len(whole) = Len(out) + Len(copied) /\ Len(out) \in Nat
    BY <2>2, MoreIs
  <2>5. Position(w) = Len(out) /\ Position(m) = Len(whole)
    BY DEF Position, out, whole
  <2> QED BY <1>4, <2>3, <2>4, <2>5
<1> HIDE DEF fields
<1>8. y \in Passes(len, FALSE) /\ n \in Passes(len, FALSE)
  <2>1. y \in Passes(len, FALSE)
    BY <1>0, PassFieldsKept, FinishedIs DEF Finished
  <2> DEFINE next == Moved(m, m.out, m.ends, fields, 1, m.cursor, m.section, m.optional, m.failed)
  <2>2. n = next
    BY <1>3, <1>7 DEF SaidFields, Moved, PassRecords
  <2>3. m.out \in Said(len) /\ Len(m.out) \in Nat
    BY <1>0, PassIs
  <2>5. Len(m.out) <= Len(m.out) /\ 1 \in Nat
    BY <2>3
  <2>4. next \in Passes(len, FALSE)
    BY <1>0, <1>7, <2>3, <2>5, PassIs, PassMoved
  <2> QED BY <2>1, <2>2, <2>4
<1> HIDE DEF y
<1>9. /\ y.out = w.out /\ y.ends = w.ends /\ y.params = w.params /\ y.signature = w.signature
      /\ y.bodyHash = w.bodyHash /\ y.bodyChecksum = w.bodyChecksum
      /\ y.at = w.at /\ y.cursor = w.cursor /\ y.section = w.section
      /\ y.optional = w.optional /\ y.failed = w.failed /\ y.fields = fields
  BY <1>3, <1>6 DEF PassRecords
<1>10. /\ n.out = m.out /\ n.ends = m.ends /\ n.params = m.params /\ n.signature = m.signature
       /\ n.bodyHash = m.bodyHash /\ n.bodyChecksum = m.bodyChecksum
       /\ n.section = m.section
       /\ n.optional = m.optional /\ n.failed = m.failed /\ n.fields = fields
  BY <1>3, <1>7 DEF PassRecords, SaidFields
<1> HIDE DEF n, c
<1>11. Follows(c, y, n, table, text)
  BY <1>0, <1>1, <1>2, <1>9, <1>10 DEF Follows, Same
<1>12. Keeps(c, y, n, table, text, len)
  BY <1>0, <1>1, <1>2, <1>8, <1>9, <1>10, <1>11 DEF Keeps
<1> QED BY <1>9, <1>12 DEF c, y, n

-----------------------------------------------------------------------------
(* The parameters of a query.                                               *)

\* One parameter more is counted, by the builder and by the layout.
LEMMA KeepsCount ==
  ASSUME NEW b \in Builders, ~ b.optional,
         NEW w, NEW m, NEW table, NEW text, NEW len, Keeps(b, w, m, table, text, len)
  PROVE  Keeps([b EXCEPT !.params = @ + 1], w, [m EXCEPT !.params = @ + 1], table, text, len)
<1> DEFINE c == [b EXCEPT !.params = @ + 1]
           n == [m EXCEPT !.params = @ + 1]
<1>0. /\ w \in Passes(len, FALSE) /\ m \in Passes(len, FALSE) /\ Follows(b, w, m, table, text)
      /\ w.at = Closed(b) /\ w.optional = b.optional /\ (m.at = 1 => w.fields = m.fields)
  BY KeepsIs
<1>1. b \in BuilderRecords /\ m \in PassRecords(len, FALSE) /\ Offsets(m)
  BY <1>0, BuilderIs DEF Passes
<1>2. /\ c.text = b.text /\ c.steps = b.steps /\ c.open = b.open /\ c.section = b.section
      /\ c.params = b.params + 1 /\ c.optional = b.optional
  BY <1>1 DEF BuilderRecords
<1>3. /\ n.out = m.out /\ n.ends = m.ends /\ n.params = m.params + 1 /\ n.signature = m.signature
      /\ n.bodyHash = m.bodyHash /\ n.bodyChecksum = m.bodyChecksum
      /\ n.at = m.at /\ n.section = m.section
      /\ n.optional = m.optional /\ n.failed = m.failed /\ n.fields = m.fields
  BY <1>1 DEF PassRecords
<1>4. n \in Passes(len, FALSE)
  <2> DEFINE params == m.params + 1
  <2>3. params \in Nat /\ n = [m EXCEPT !.params = params]
    BY <1>1 DEF PassRecords
  <2> HIDE DEF params, n
  <2>1. n \in PassRecords(len, FALSE)
    BY <1>1, <2>3 DEF PassRecords
  <2> HIDE DEF n
  <2>2. Offsets(n)
    BY <1>1, <1>3 DEF Offsets
  <2> QED BY <2>1, <2>2 DEF Passes
<1> HIDE DEF c, n
<1>5. Closed(c) = Closed(b) /\ Pending(c) = Pending(b)
  BY <1>2, Zenon DEF Closed, Pending
<1>6. Follows(c, w, n, table, text)
  BY <1>0, <1>2, <1>3, <1>5 DEF Follows, Same
<1>7. Keeps(c, w, n, table, text, len)
  BY <1>0, <1>2, <1>3, <1>4, <1>5, <1>6 DEF Keeps
<1> QED BY <1>7 DEF c, n

\* The first parameter that a request may leave out: from here on, the count is
\* the request's own.
LEMMA KeepsTurn ==
  ASSUME NEW e, NEW table, NEW steps, NEW text, Finished(e, table, steps, text),
         NEW b \in Builders, Grows([b EXCEPT !.optional = TRUE], e),
         NEW w, NEW m, NEW len, Keeps(b, w, m, table, text, len)
  PROVE  Keeps([b EXCEPT !.optional = TRUE], [w EXCEPT !.optional = TRUE], [m EXCEPT !.optional = TRUE],
               table, text, len)
<1> DEFINE c == [b EXCEPT !.optional = TRUE]
           y == [w EXCEPT !.optional = TRUE]
           n == [m EXCEPT !.optional = TRUE]
<1>0. /\ w \in Passes(len, FALSE) /\ m \in Passes(len, FALSE) /\ Follows(b, w, m, table, text)
      /\ w.at = Closed(b) /\ w.optional = b.optional /\ (m.at = 1 => w.fields = m.fields)
  BY KeepsIs
<1>1. b \in BuilderRecords /\ w \in PassRecords(len, FALSE) /\ m \in PassRecords(len, FALSE)
  BY <1>0, BuilderIs DEF Passes
<1>2. /\ c.text = b.text /\ c.steps = b.steps /\ c.open = b.open /\ c.section = b.section
      /\ c.params = b.params /\ c.optional = TRUE
  BY <1>1 DEF BuilderRecords
<1>3. /\ n.out = m.out /\ n.ends = m.ends /\ n.params = m.params /\ n.signature = m.signature
      /\ n.bodyHash = m.bodyHash /\ n.bodyChecksum = m.bodyChecksum
      /\ n.at = m.at /\ n.section = m.section
      /\ n.optional = TRUE /\ n.failed = m.failed /\ n.fields = m.fields
  BY <1>1 DEF PassRecords
<1>4. /\ y.out = w.out /\ y.ends = w.ends /\ y.params = w.params /\ y.signature = w.signature
      /\ y.bodyHash = w.bodyHash /\ y.bodyChecksum = w.bodyChecksum
      /\ y.at = w.at /\ y.section = w.section /\ y.cursor = w.cursor
      /\ y.optional = TRUE /\ y.failed = w.failed /\ y.fields = w.fields
  BY <1>1 DEF PassRecords
<1>5. n \in Passes(len, FALSE) /\ y \in Passes(len, FALSE)
  <2>1. 0 \in Nat
    OBVIOUS
  <2> QED BY <1>0, <2>1, PassTurned
<1> HIDE DEF c, n, y
<1>6. Closed(c) = Closed(b) /\ Pending(c) = Pending(b)
  BY <1>2, Zenon DEF Closed, Pending
<1>7. y.params = n.params
  <2>1. CASE b.optional
    BY <1>0, <1>3, <1>4, <2>1 DEF Follows
  <2>2. CASE ~ b.optional
    <3>1. m.params = b.params /\ w.params = table.params
      BY <1>0, <2>2 DEF Follows
    <3>2. e.params = c.params
      BY <1>2 DEF Grows, ParamsStay, c
    <3>3. table.params = e.params
      BY DEF Finished
    <3> QED BY <1>2, <1>3, <1>4, <3>1, <3>2, <3>3
  <2> QED BY <2>1, <2>2
<1>8. Follows(c, y, n, table, text)
  BY <1>0, <1>2, <1>3, <1>4, <1>6, <1>7 DEF Follows, Same
<1>9. Keeps(c, y, n, table, text, len)
  BY <1>0, <1>2, <1>3, <1>4, <1>5, <1>6, <1>8 DEF Keeps
<1> QED BY <1>9 DEF c, n, y

\* The separator before a parameter that every request sends.
Separated(w, f, steps, text) ==
  IF w.optional THEN PassHole(w, "Separator", <<>>, f, steps, text) ELSE w

LEMMA KeepsSeparator ==
  ASSUME NEW e, NEW table, NEW steps, NEW text, Finished(e, table, steps, text),
         NEW b, Neat(b), Grows(BuildSeparator(b), e), e \in Builders,
         NEW w, NEW m, NEW len, Keeps(b, w, m, table, text, len), NEW f, FillOf(f)
  PROVE  /\ Keeps(BuildSeparator(b), Separated(w, f, steps, text), SaidSeparator(m), table, text, len)
         /\ Separated(w, f, steps, text).section = w.section
<1>0. /\ w \in Passes(len, FALSE) /\ m \in Passes(len, FALSE) /\ Follows(b, w, m, table, text)
      /\ w.optional = b.optional /\ b \in Builders
  BY KeepsIs DEF Neat
<1>1. CASE b.optional
  <2>1. BuildSeparator(b) = BuildHole(b, "Separator")
    BY <1>1 DEF BuildSeparator
  <2>2. "Separator" \in Words /\ Fills(f, b, "Separator")
    BY <1>1 DEF Words, Fills, CanFill
  <2>3. WriteHole(m, "Separator", <<>>, f) = SaidSeparator(m)
    BY <1>0, SeparatorIs
  <2>4. Separated(w, f, steps, text) = PassHole(w, "Separator", <<>>, f, steps, text)
    BY <1>0, <1>1 DEF Separated
  <2> DEFINE hole == "Separator"
  <2>5. hole \in Words /\ Fills(f, b, hole) /\ Grows(BuildHole(b, hole), e)
    BY <2>1, <2>2
  <2> HIDE DEF hole
  <2>6. /\ Keeps(BuildHole(b, hole), PassHole(w, hole, <<>>, f, steps, text), WriteHole(m, hole, <<>>, f),
                 table, text, len)
        /\ PassHole(w, hole, <<>>, f, steps, text).section = w.section
    BY <2>5, KeepsHoleOp
  <2> QED BY <2>1, <2>3, <2>4, <2>6 DEF hole
<1>2. CASE ~ b.optional
  <2> DEFINE sep == IF b.params = 0 THEN <<"?">> ELSE <<"&">>
             d == BuildText(b, sep)
             n == SaidText(m, sep)
  <2>1. BuildSeparator(b) = [d EXCEPT !.params = @ + 1]
    BY <1>2 DEF BuildSeparator
  <2>2. Separator(m) = sep /\ sep \in Wording
    <3>1. m.params = b.params
      BY <1>0, <1>2 DEF Follows
    <3>2. "?" \in Words /\ "&" \in Words
      BY DEF Words
    <3>3. <<"?">> \in Wording /\ <<"&">> \in Wording
      BY <3>2, WordingIs
    <3> QED BY <3>1, <3>3 DEF Separator
  <2> HIDE DEF sep
  <2>3. SaidSeparator(m) = [n EXCEPT !.params = @ + 1]
    <3>1. m \in PassRecords(len, FALSE)
      BY <1>0 DEF Passes
    <3> QED BY <2>2, <3>1 DEF SaidSeparator, SaidText, PassRecords
  <2>4. Neat(d) /\ d.optional = b.optional
    BY <2>2, TextGrows DEF Else
  <2>5. Grows(d, e)
    <3> HIDE DEF d
    <3> DEFINE c == [d EXCEPT !.params = @ + 1]
    <3>1. Neat(c) /\ Grows(d, c)
      BY <1>2, <2>4, TurnedStays
    <3>2. Grows(c, e)
      BY <2>1
    <3> HIDE DEF c
    <3>3. d \in Builders /\ c \in Builders
      BY <2>4, <3>1 DEF Neat
    <3> QED BY <3>1, <3>2, <3>3, GrowsOn
  <2>6. Keeps(d, w, n, table, text, len)
    BY <2>2, <2>5, KeepsText
  <2> HIDE DEF d, n
  <2>7. Keeps([d EXCEPT !.params = @ + 1], w, [n EXCEPT !.params = @ + 1], table, text, len)
    BY <1>2, <2>4, <2>6, KeepsCount DEF Neat
  <2>8. Separated(w, f, steps, text) = w
    BY <1>0, <1>2 DEF Separated
  <2> QED BY <2>1, <2>3, <2>7, <2>8
<1> QED BY <1>1, <1>2

\* A pass finds the name that follows a hole in the step that it takes next.
LEMMA TakenName ==
  ASSUME NEW e, NEW table, NEW steps, NEW text, Finished(e, table, steps, text),
         NEW b, NEW c, NEW hole, NEW name, ClosesHole(e, b, c, hole, name),
         NEW len, NEW w, NEW m, Keeps(b, w, m, table, text, len)
  PROVE  NamesNext(w, steps, name)
<1>1. PICK ends : Closes(b, c, hole, name, ends)
  BY DEF ClosesHole
<1>2. Neat(b) /\ Grows(c, e)
  BY DEF ClosesHole
<1> QED BY <1>1, <1>2, Taken

LEMMA KeepsParam ==
  ASSUME NEW e, NEW table, NEW steps, NEW text, Finished(e, table, steps, text),
         NEW b, Tidy(b, b.section), NEW param \in Parameters, Proper(Param(param)),
         Grows(BuildParam(b, param), e), e \in Builders,
         NEW w, NEW m, NEW len, Keeps(b, w, m, table, text, len),
         NEW f, FillOf(f), Fillable(Param(param), f)
  PROVE  /\ Keeps(BuildParam(b, param), PassParam(w, param, f, steps, text), SaidParam(m, param, f),
                  table, text, len)
         /\ PassParam(w, param, f, steps, text).section = w.section
<1> DEFINE d == BuildSeparator(b)
           v == Separated(w, f, steps, text)
           k == SaidSeparator(m)
           words == <<param.name, "=">>
           c == BuildParam(b, param)
<1>0. /\ w \in Passes(len, FALSE) /\ m \in Passes(len, FALSE) /\ Follows(b, w, m, table, text)
      /\ w.optional = b.optional /\ b \in Builders /\ Neat(b)
  BY KeepsIs DEF Tidy, Neat
<1>1. /\ param.mode \in {"fixed", "hole", "optional"} /\ param.name \in Words /\ param.hole \in Words
      /\ param.value \in Wording
  BY DEF Parameters
<1>2. words \in Wording /\ words \o param.value \in Wording
  <2>1. "=" \in Words
    BY DEF Words
  <2>2. words \in Wording
    BY <1>1, <2>1, Few DEF Wording
  <2> HIDE DEF words
  <2> QED BY <1>1, <2>2, WordingIs
<1> HIDE DEF words
<1>3. Tidy(d, d.section) /\ Neat(d) /\ d \in Builders
  BY OnwardSeparator DEF Onward, Tidy, Neat
<1>4. Grows(d, e) => Keeps(d, v, k, table, text, len) /\ v.section = w.section
  BY <1>0, KeepsSeparator
<1>5. c \in Builders
  BY OnwardParam DEF Onward, Tidy, Neat
<1>6. ASSUME param.mode = "fixed"
      PROVE  /\ Keeps(c, PassParam(w, param, f, steps, text), SaidParam(m, param, f), table, text, len)
             /\ PassParam(w, param, f, steps, text).section = w.section
  <2> DEFINE more == words \o param.value
  <2>1. c = BuildText(d, more) /\ SaidParam(m, param, f) = SaidText(k, more)
        /\ PassParam(w, param, f, steps, text) = v
    BY <1>6, Zenon DEF BuildParam, SaidParam, PassParam, Separated, words
  <2> HIDE DEF more, d, v, k, c
  <2>2. more \in Wording
    BY <1>2 DEF more
  <2>3. Grows(d, c)
    BY <1>3, <2>1, <2>2, OnwardText DEF Onward
  <2>4. Grows(d, e)
    BY <1>3, <1>5, <2>3, GrowsOn DEF c
  <2>5. Keeps(BuildText(d, more), v, SaidText(k, more), table, text, len)
    <3>1. Grows(BuildText(d, more), e)
      BY <2>1 DEF c
    <3> QED BY <1>3, <1>4, <2>2, <2>4, <3>1, KeepsText
  <2> QED BY <1>4, <2>1, <2>4, <2>5
<1>7. ASSUME param.mode = "hole"
      PROVE  /\ Keeps(c, PassParam(w, param, f, steps, text), SaidParam(m, param, f), table, text, len)
             /\ PassParam(w, param, f, steps, text).section = w.section
  <2> DEFINE hole == param.hole
             g == BuildText(d, words)
             n == SaidText(k, words)
  <2>1. c = BuildHole(g, hole) /\ SaidParam(m, param, f) = WriteHole(n, hole, <<>>, f)
        /\ PassParam(w, param, f, steps, text) = PassHole(v, hole, <<>>, f, steps, text)
    BY <1>7, Zenon DEF BuildParam, SaidParam, PassParam, Separated, words
  <2> HIDE DEF d, v, k, c
  <2>2. hole \in Words /\ CanFill(hole, f) /\ ~ Counted(hole) /\ hole # NoHole
    <3>1. hole \in UrlValues /\ CanFill(hole, f)
      BY <1>7 DEF Proper, Param, Fillable
    <3> QED BY <1>1, <3>1, HolesAre DEF Counted
  <2>3. Tidy(g, g.section) /\ Neat(g) /\ g \in Builders /\ Grows(d, g)
    BY <1>2, <1>3, OnwardText DEF Onward, Tidy, Neat
  <2> HIDE DEF g, n, hole
  <2>4. Grows(g, c)
    BY <2>1, <2>2, <2>3, OnwardHole DEF Onward
  <2>5. Grows(c, e)
    BY DEF c
  <2>6. Grows(g, e)
    BY <1>5, <2>3, <2>4, <2>5, GrowsOn
  <2>7. Grows(d, e)
    BY <1>3, <2>3, <2>6, GrowsOn
  <2>8. Keeps(g, v, n, table, text, len)
    <3>1. Grows(BuildText(d, words), e)
      BY <2>6 DEF g
    <3>2. Keeps(BuildText(d, words), v, SaidText(k, words), table, text, len)
      BY <1>2, <1>3, <1>4, <2>7, <3>1, KeepsText
    <3> QED BY <3>2 DEF g, n
  <2>9. /\ Keeps(BuildHole(g, hole), PassHole(v, hole, <<>>, f, steps, text), WriteHole(n, hole, <<>>, f),
                 table, text, len)
        /\ PassHole(v, hole, <<>>, f, steps, text).section = v.section
    <3>1. Fills(f, g, hole) /\ Grows(BuildHole(g, hole), e)
      BY <2>1, <2>2, <2>5 DEF Fills
    <3> QED BY <2>2, <2>3, <2>8, <3>1, KeepsHoleOp
  <2> QED BY <1>4, <2>1, <2>7, <2>9
<1>8. ASSUME param.mode = "optional"
      PROVE  /\ Keeps(c, PassParam(w, param, f, steps, text), SaidParam(m, param, f), table, text, len)
             /\ PassParam(w, param, f, steps, text).section = w.section
  <2> DEFINE hole == param.hole
             g == [b EXCEPT !.optional = TRUE]
             u == [w EXCEPT !.optional = TRUE]
             n == [m EXCEPT !.optional = TRUE]
             said == <<param.name>>
             name == NameLen(w, steps)
  <2>1. /\ c = Named(BuildHole(g, hole), param.name)
        /\ SaidParam(m, param, f) = WriteHole(n, hole, said, f)
        /\ PassParam(w, param, f, steps, text) = Further(PassHole(u, hole, said, f, steps, text), name)
    BY <1>8, Zenon DEF BuildParam, SaidParam, PassParam, Named, Further
  <2>2. hole \in Words /\ CanFill(hole, f) /\ hole # NoHole
    <3>1. hole \in OptionalHoles /\ CanFill(hole, f)
      BY <1>8 DEF Proper, Param, Fillable
    <3> QED BY <1>1, <3>1, HolesAre
  <2>3. Neat(g) /\ Grows(b, g) /\ g.optional = TRUE
    BY <1>0, TurnedStays, BuilderIs DEF BuilderRecords
  <2>4. said \in Said(len)
    BY <1>1, WordingIs, SaidIs
  <2> HIDE DEF c, g, u, n, hole, said, name
  <2>5. Closes(g, c, hole, 1, {}) /\ c.text = g.text \o said /\ Else(g, c)
    BY <1>1, <2>1, <2>2, <2>3, NameCloses DEF said
  <2>6. Grows(c, e) /\ Grows(g, c)
    BY <2>5 DEF c, Closes
  <2>7. Grows(g, e)
    BY <1>5, <2>3, <2>6, GrowsOn DEF Neat
  <2>8. Keeps(g, u, n, table, text, len)
    BY <1>0, <2>7, KeepsTurn DEF g, u, n
  <2>9. ClosesHole(e, g, c, hole, 1)
    <3>1. Len(c.text) = Len(g.text) + 1
      <4>1. g \in Builders
        BY <2>3 DEF Neat
      <4>2. g.text \in Wording
        BY <4>1, BuilderIs
      <4>3. said \in Wording
        BY <1>1, WordingIs DEF said
      <4>4. Len(said) = 1
        BY DEF said
      <4>5. c.text = g.text \o said
        BY <2>5
      <4> DEFINE was == g.text
      <4>6. was \in Seq(Words) /\ said \in Seq(Words)
        BY <4>2, <4>3 DEF Wording
      <4> HIDE DEF was
      <4>7. Len(was \o said) = Len(was) + Len(said)
        BY <4>6
      <4> QED BY <4>4, <4>5, <4>7 DEF was
    <3> QED BY <2>3, <2>5, <2>6, <3>1 DEF ClosesHole
  <2>10. name = 1
    <3> DEFINE one == 1
    <3>1. one = 1
      OBVIOUS
    <3>2. ClosesHole(e, g, c, hole, one)
      BY <2>9 DEF one
    <3> HIDE DEF one
    <3>6. NamesNext(u, steps, one)
      BY <2>8, <3>2, TakenName
    <3>3. u.at = w.at
      <4>1. w \in PassRecords(len, FALSE)
        BY <1>0 DEF Passes
      <4> QED BY <4>1 DEF u, PassRecords
    <3>4. w.at \in Nat /\ Len(steps) \in Nat
      BY <1>0, PassIs, FinishedIs
    <3>5. ~ (w.at >= Len(steps)) /\ steps[w.at + 1].name = one
      BY <3>3, <3>4, <3>6 DEF NamesNext
    <3> QED BY <3>1, <3>5 DEF NameLen, name
  <2>11. /\ Keeps(c, Further(PassHole(u, hole, said, f, steps, text), 1), WriteHole(n, hole, said, f),
                  table, text, len)
         /\ Further(PassHole(u, hole, said, f, steps, text), 1).section = u.section
    <3>1. Fills(f, g, hole)
      BY <2>2, <2>3 DEF Fills
    <3> QED BY <2>4, <2>8, <2>9, <3>1, KeepsHole
  <2>12. u.section = w.section
    <3>1. w \in PassRecords(len, FALSE)
      BY <1>0 DEF Passes
    <3> QED BY <3>1 DEF u, PassRecords
  <2> QED BY <2>1, <2>10, <2>11, <2>12
<1> QED BY <1>1, <1>6, <1>7, <1>8

-----------------------------------------------------------------------------
(* Any operation of a layout.                                               *)

\* A pass that ends one section, or two.
EndsOneOrTwo(w, s, steps, text) ==
  /\ EndUntil(w, s + 1, steps, text) = EndOne(w, s, steps, text)
  /\ s < 5 => EndUntil(w, s + 2, steps, text) = EndOne(EndOne(w, s, steps, text), s + 1, steps, text)

LEMMA EndUntilIs ==
  ASSUME NEW len, NEW unread, NEW w \in Passes(len, unread),
         NEW steps \in Seq(StepsKept), NEW text \in Wording, NEW s, s \in 0 .. 5, w.section = s
  PROVE  EndsOneOrTwo(w, s, steps, text)
<1> DEFINE X == Passes(len, unread)
<1>1. ASSUME NEW k \in {1, 2}, s + k <= 6
      PROVE  /\ Difference(s + k, s) = k /\ s + k \in 0 .. Sections
             /\ \E r : EndRun(r, k, X, w, steps, text) /\ EndUntil(w, s + k, steps, text) = r[k]
  <2>1. Difference(s + k, s) = k /\ s + k \in 0 .. Sections
    BY <1>1 DEF Difference, Sections
  <2> DEFINE until == s + k
  <2>2. until \in 0 .. Sections /\ Difference(until, w.section) = k
    BY <2>1
  <2> HIDE DEF until
  <2>3. \E r : EndRun(r, k, X, w, steps, text) /\ EndUntil(w, until, steps, text) = r[k]
    BY <2>2, EndUntilRun
  <2> QED BY <2>1, <2>3 DEF until
<1> HIDE DEF X
<1>2. EndUntil(w, s + 1, steps, text) = EndOne(w, s, steps, text)
  <2> DEFINE one == 1
  <2>1. one \in {1, 2} /\ s + one <= 6
    OBVIOUS
  <2>2. PICK r : EndRun(r, one, X, w, steps, text) /\ EndUntil(w, s + one, steps, text) = r[one]
    BY <1>1, <2>1
  <2>3. r[1] = EndOne(r[0], w.section + 1 - 1, steps, text) /\ r[0] = w
    BY <2>2 DEF EndRun
  <2>4. w.section + 1 - 1 = s
    OBVIOUS
  <2> QED BY <2>2, <2>3, <2>4
<1>3. ASSUME s < 5
      PROVE  EndUntil(w, s + 2, steps, text) = EndOne(EndOne(w, s, steps, text), s + 1, steps, text)
  <2> DEFINE two == 2
  <2>1. two \in {1, 2} /\ s + two <= 6
    BY <1>3
  <2>2. PICK r : EndRun(r, two, X, w, steps, text) /\ EndUntil(w, s + two, steps, text) = r[two]
    BY <1>1, <2>1
  <2>3. /\ r[1] = EndOne(r[0], w.section + 1 - 1, steps, text) /\ r[0] = w
        /\ r[2] = EndOne(r[2 - 1], w.section + 2 - 1, steps, text)
    BY <2>2 DEF EndRun
  <2>4. w.section + 1 - 1 = s /\ w.section + 2 - 1 = s + 1 /\ 2 - 1 = 1
    OBVIOUS
  <2> QED BY <2>2, <2>3, <2>4
<1> QED BY <1>2, <1>3 DEF EndsOneOrTwo

\* A pass that keeps up, in the section of the builder.
Paced(b, w, m, table, text, len) == Keeps(b, w, m, table, text, len) /\ w.section = b.section

LEMMA KeepsSection ==
  ASSUME NEW e, NEW table, NEW steps, NEW text, Finished(e, table, steps, text),
         NEW b, Tidy(b, b.section), NEW until, until \in {b.section + 1, b.section + 2}, until <= 5,
         Grows(BuildSection(b, until), e),
         NEW len, NEW w, NEW m, Paced(b, w, m, table, text, len)
  PROVE  /\ Keeps(BuildSection(b, until), EndUntil(w, until, steps, text), SaidSection(m, until),
                  table, text, len)
         /\ EndUntil(w, until, steps, text).section = until
<1> DEFINE s == b.section
           one == EndOf(b)
           y == EndOne(w, s, steps, text)
           k == SaidEnd(m)
<1>0. /\ b \in Builders /\ Neat(b) /\ s \in 0 .. 5 /\ s < 5 /\ w.section = s /\ m.section = s
      /\ Keeps(b, w, m, table, text, len) /\ w \in Passes(len, FALSE) /\ e \in Builders
      /\ steps \in Seq(StepsKept) /\ text \in Wording
  <2>1. b \in Builders /\ Neat(b) /\ s \in 0 .. 5 /\ s < 5
    <3>1. b \in Builders /\ Neat(b)
      BY DEF Tidy, Neat
    <3>2. b.section \in 0 .. Sections - 1
      BY <3>1, BuilderIs
    <3>3. s \in 0 .. 5
      BY <3>2 DEF Sections
    <3> HIDE DEF s
    <3> QED BY <3>1, <3>3 DEF s
  <2>2. w.section = s /\ Keeps(b, w, m, table, text, len)
    BY DEF Paced
  <2>3. m.section = s /\ w \in Passes(len, FALSE)
    BY <2>2, KeepsIs
  <2>4. e \in Builders /\ steps \in Seq(StepsKept) /\ text \in Wording
    BY FinishedIs DEF Finished
  <2> QED BY <2>1, <2>2, <2>3, <2>4
<1>1. Tidy(one, one.section) /\ Grows(b, one) /\ one.section = s + 1 /\ Neat(one) /\ one \in Builders
  BY <1>0, EndsOn DEF Tidy, Neat
<1>2. /\ EndUntil(w, s + 1, steps, text) = y
      /\ s < 5 => EndUntil(w, s + 2, steps, text) = EndOne(y, s + 1, steps, text)
  <2> HIDE DEF s
  <2>1. w \in Passes(len, FALSE) /\ steps \in Seq(StepsKept) /\ text \in Wording /\ s \in 0 .. 5 /\ w.section = s
    BY <1>0
  <2>2. EndsOneOrTwo(w, s, steps, text)
    BY <2>1, EndUntilIs
  <2> QED BY <2>2 DEF EndsOneOrTwo
<1>3. ASSUME Grows(one, e)
      PROVE  Keeps(one, y, k, table, text, len) /\ y.section = s + 1
  BY <1>0, <1>3, KeepsEnd
<1>4. CASE until = s + 1
  <2>1. BuildSection(b, until) = one /\ SaidSection(m, until) = k
    BY <1>0, <1>4, SectionsEnd DEF SaidSection
  <2> QED BY <1>2, <1>3, <1>4, <2>1
<1>5. CASE until = s + 2
  <2> DEFINE two == EndOf(one)
             z == EndOne(y, s + 1, steps, text)
  <2>0. s < 4 /\ until # s + 1
    BY <1>0, <1>5
  <2>1. BuildSection(b, until) = two /\ SaidSection(m, until) = SaidEnd(k)
    BY <1>0, <1>5, <2>0, SectionsEnd DEF SaidSection
  <2> HIDE DEF one, y, k
  <2>2. Tidy(two, two.section) /\ Grows(one, two)
    <3>1. one.section < 5
      BY <1>0, <1>1, <2>0
    <3> QED BY <1>1, <3>1, EndsOn
  <2>3. Grows(two, e)
    BY <2>1
  <2>4. Grows(one, e)
    <3>1. two \in Builders
      BY <2>2 DEF Tidy, Neat
    <3> HIDE DEF two
    <3> QED BY <1>0, <1>1, <2>2, <2>3, <3>1, GrowsOn
  <2>5. Keeps(one, y, k, table, text, len) /\ y.section = s + 1
    BY <1>3, <2>4
  <2>6. /\ Keeps(EndOf(one), EndOne(y, one.section, steps, text), SaidEnd(k), table, text, len)
        /\ EndOne(y, one.section, steps, text).section = one.section + 1
    BY <1>1, <2>3, <2>5, KeepsEnd
  <2>7. one.section = s + 1 /\ one.section + 1 = until
    BY <1>0, <1>1, <1>5
  <2>8. EndUntil(w, until, steps, text) = z
    BY <1>0, <1>2, <1>5
  <2> QED BY <2>1, <2>6, <2>7, <2>8
<1> QED BY <1>4, <1>5

\* What an operation of the layout takes, from the builder b to the end e.
Comes(e, table, b, op, p, q, f) ==
  /\ Tidy(b, b.section) /\ op \in Ops /\ Proper(op) /\ q \in Stages /\ Moves(op, p, q) /\ b.section = p[1]
  /\ Grows(Build(b, op), e) /\ (op.op = "fields" => table.fields = <<Closed(b), Pending(b)>>)
  /\ FillOf(f) /\ Fillable(op, f)

LEMMA KeepsOp ==
  ASSUME NEW e, NEW table, NEW steps, NEW text, Finished(e, table, steps, text),
         NEW b, NEW op, NEW p, NEW q, NEW f, Comes(e, table, b, op, p, q, f),
         NEW len, NEW w, NEW m, Paced(b, w, m, table, text, len)
  PROVE  Paced(Build(b, op), Pass(w, op, table, f, steps, text), SaidOp(m, op, f), table, text, len)
<1> DEFINE c == Build(b, op)
           y == Pass(w, op, table, f, steps, text)
           n == SaidOp(m, op, f)
<1>0. /\ Tidy(b, b.section) /\ op \in Ops /\ Proper(op) /\ q \in Stages /\ Moves(op, p, q)
      /\ b.section = p[1] /\ Grows(c, e) /\ FillOf(f) /\ Fillable(op, f)
      /\ (op.op = "fields" => table.fields = <<Closed(b), Pending(b)>>)
  BY DEF Comes
<1>1. Builds(b, c, op, q)
  BY <1>0, BuildsOn
<1>2. c.section = q[1] /\ Grows(b, c) /\ Neat(b) /\ b \in Builders /\ c \in Builders /\ e \in Builders
  BY <1>0, <1>1 DEF Builds, Tidy, Neat, Finished
<1>3. Grows(b, e)
  <2> HIDE DEF c
  <2> QED BY <1>0, <1>2, GrowsOn
<1>4. Keeps(b, w, m, table, text, len) /\ w.section = b.section
  BY DEF Paced
<1>5. CASE op.op = "section"
  <2>1. op.section \in {b.section + 1, b.section + 2} /\ q[1] = op.section /\ q[1] <= 5
    BY <1>0, <1>5 DEF Moves, Stages, Sections
  <2> DEFINE until == op.section
  <2>2. c = BuildSection(b, until) /\ y = EndUntil(w, until, steps, text) /\ n = SaidSection(m, until)
    BY <1>5 DEF Build, Pass, SaidOp
  <2>3. until \in {b.section + 1, b.section + 2} /\ until <= 5 /\ Grows(BuildSection(b, until), e)
    BY <1>0, <2>1, <2>2
  <2> HIDE DEF until, c, y, n
  <2>4. /\ Keeps(BuildSection(b, until), EndUntil(w, until, steps, text), SaidSection(m, until), table, text, len)
        /\ EndUntil(w, until, steps, text).section = until
    BY <1>0, <2>3, KeepsSection
  <2>5. until = q[1]
    BY <2>1 DEF until
  <2>6. Keeps(c, y, n, table, text, len) /\ y.section = c.section
    BY <1>2, <2>2, <2>4, <2>5
  <2> QED BY <2>6 DEF Paced, c, y, n
<1>6. ASSUME op.op # "section", Keeps(c, y, n, table, text, len), y.section = w.section
      PROVE  Paced(c, y, n, table, text, len)
  <2>1. q[1] = p[1]
    <3>1. op.op = "fields" => q[1] = p[1]
      BY <1>0 DEF Moves
    <3>2. op.op # "fields" => q = p
      BY <1>0, <1>6 DEF Moves
    <3> QED BY <3>1, <3>2
  <2> HIDE DEF c, y, n
  <2> QED BY <1>0, <1>2, <1>4, <1>6, <2>1 DEF Paced
<1>7. CASE op.op = "text" /\ op.text \in Wording
  <2> DEFINE more == op.text
  <2>1. c = BuildText(b, more) /\ y = w /\ n = SaidText(m, more)
    BY <1>7 DEF Build, Pass, SaidOp
  <2>2. Keeps(BuildText(b, more), w, SaidText(m, more), table, text, len)
    <3>1. more \in Wording /\ Grows(BuildText(b, more), e)
      BY <1>0, <1>7, <2>1
    <3> HIDE DEF more
    <3> QED BY <1>2, <1>3, <1>4, <3>1, KeepsText
  <2> QED BY <1>6, <1>7, <2>1, <2>2
<1>8. CASE op.op = "hole" /\ op.hole \in Words
  <2> DEFINE hole == op.hole
  <2>1. c = BuildHole(b, hole) /\ y = PassHole(w, hole, <<>>, f, steps, text) /\ n = WriteHole(m, hole, <<>>, f)
    BY <1>8 DEF Build, Pass, SaidOp
  <2>2. /\ Keeps(BuildHole(b, hole), PassHole(w, hole, <<>>, f, steps, text), WriteHole(m, hole, <<>>, f),
                 table, text, len)
        /\ PassHole(w, hole, <<>>, f, steps, text).section = w.section
    <3>1. hole \in Words /\ Grows(BuildHole(b, hole), e) /\ Fills(f, b, hole)
      BY <1>0, <1>8, <2>1 DEF Fills, Fillable, Proper, Counted
    <3> HIDE DEF hole
    <3> QED BY <1>2, <1>4, <3>1, KeepsHoleOp
  <2> QED BY <1>6, <1>8, <2>1, <2>2
<1>9. CASE op.op = "param" /\ op.param \in Parameters
  <2> DEFINE param == op.param
  <2>1. c = BuildParam(b, param) /\ y = PassParam(w, param, f, steps, text) /\ n = SaidParam(m, param, f)
    BY <1>9 DEF Build, Pass, SaidOp
  <2>2. Proper(Param(param)) /\ Fillable(Param(param), f)
    BY <1>0, <1>9 DEF Proper, Fillable, Param
  <2>3. /\ Keeps(BuildParam(b, param), PassParam(w, param, f, steps, text), SaidParam(m, param, f), table, text, len)
        /\ PassParam(w, param, f, steps, text).section = w.section
    <3>1. param \in Parameters /\ Grows(BuildParam(b, param), e)
      BY <1>0, <1>9, <2>1
    <3> HIDE DEF param
    <3> QED BY <1>0, <1>2, <1>4, <2>2, <3>1, KeepsParam
  <2> QED BY <1>6, <1>9, <2>1, <2>3
<1>10. CASE op.op = "fields"
  <2>1. c = BuildFields(b) /\ y = PassFields(w, table, steps) /\ n = SaidFields(m)
    BY <1>10 DEF Build, Pass, SaidOp
  <2>2. table.fields = <<Closed(b), Pending(b)>>
    BY <1>0, <1>10
  <2>3. Keeps(BuildFields(b), PassFields(w, table, steps), SaidFields(m), table, text, len)
        /\ PassFields(w, table, steps).section = w.section
    BY <1>2, <1>3, <1>4, <2>2, KeepsFields
  <2> QED BY <1>6, <1>10, <2>1, <2>3
<1> HIDE DEF c, y, n
<1>11. op.op = "section" \/ (op.op = "text" /\ op.text \in Wording) \/ (op.op = "hole" /\ op.hole \in Words)
       \/ (op.op = "param" /\ op.param \in Parameters) \/ op.op = "fields"
  BY <1>0, OpIsOneOf
<1> QED BY <1>5, <1>7, <1>8, <1>9, <1>10, <1>11 DEF c, y, n

-----------------------------------------------------------------------------
(* A pass that runs a whole layout.                                         *)

\* A run of steps exists, whatever it runs over.
LEMMA RunExists ==
  ASSUME NEW k \in Nat, NEW X, NEW base \in X, NEW step \in StepsOver(k, X)
  PROVE  \E r : Runs(r, k, X, base, step)
<1>1. PICK g : Solves(g, k, X, base, step)
  BY FoldExists
<1>2. Folds(g, k, X, base, step)
  <2>1. {} \in SUBSET (1 .. k)
    OBVIOUS
  <2> QED BY <1>1, <2>1, Zenon DEF Solves, Folds
<1> QED BY <1>2, FoldRuns

\* A layout, what the builder made of it, and what it finished.
Layed(layout, at, r, e, table, steps, text) ==
  /\ Runs6(layout, at) /\ Built(r, layout, Len(layout)) /\ e = EndOf(r[Len(layout)])
  /\ Finished(e, table, steps, text)

LEMMA LayedIs ==
  ASSUME NEW layout, NEW at, NEW r, NEW e, NEW table, NEW steps, NEW text,
         Layed(layout, at, r, e, table, steps, text)
  PROVE  /\ Len(layout) \in Nat /\ layout \in Seq(Ops)
         /\ \A i \in 0 .. Len(layout) : /\ Tidy(r[i], r[i].section) /\ r[i] \in Builders
                                        /\ r[i].section = at[i][1] /\ at[i] \in Stages
                                        /\ Grows(r[i], e)
         /\ \A i \in 1 .. Len(layout) : /\ i - 1 \in 0 .. Len(layout) /\ i \in 0 .. Len(layout)
                                        /\ layout[i] \in Ops /\ Proper(layout[i])
                                        /\ r[i] = Build(r[i - 1], layout[i])
                                        /\ Moves(layout[i], at[i - 1], at[i])
                                        /\ Builds(r[i - 1], r[i], layout[i], at[i])
<1> DEFINE k == Len(layout)
<1>1. Runs6(layout, at) /\ Built(r, layout, k) /\ e = EndOf(r[k])
  BY DEF Layed
<1>2. k \in Nat /\ layout \in Seq(Ops) /\ k \in 0 .. k
      /\ \A i \in 1 .. k : i - 1 \in 0 .. k /\ i \in 0 .. k /\ layout[i] \in Ops
  BY <1>1 DEF Runs6
<1>3. /\ \A i \in 0 .. k : Tidy(r[i], r[i].section) /\ r[i].section = at[i][1]
      /\ \A i \in 1 .. k : Builds(r[i - 1], r[i], layout[i], at[i])
  BY <1>1, <1>2, BuiltTidy
<1>4. Closes(r[k], e, NoHole, 0, {r[k].section})
  <2> DEFINE b == r[k]
  <2>1. b \in Builders /\ Neat(b) /\ e = EndOf(b)
    BY <1>1, <1>2, <1>3 DEF Tidy, Neat
  <2> HIDE DEF b
  <2>2. Closes(b, EndOf(b), NoHole, 0, {b.section})
    BY <2>1, EndCloses
  <2> QED BY <2>1, <2>2 DEF b
<1>5. ASSUME NEW i \in 0 .. k
      PROVE  r[i] \in Builders /\ at[i] \in Stages /\ Grows(r[i], e)
  <2>1. r[i] \in Builders /\ at[i] \in Stages /\ r[k] \in Builders
    BY <1>1, <1>2 DEF Built, Runs6
  <2>2. Grows(r[i], r[k])
    <3>1. \A j \in i .. k : Grows(r[i], r[j])
      BY <1>1, <1>2, BuiltGrows
    <3>2. k \in i .. k
      BY <1>2
    <3> QED BY <3>1, <3>2
  <2>3. Grows(r[k], e) /\ e \in Builders
    BY <1>4 DEF Closes, Neat
  <2> DEFINE b == r[i]
             c == r[k]
  <2>4. b \in Builders /\ c \in Builders /\ Grows(b, c) /\ Grows(c, e)
    BY <2>1, <2>2, <2>3
  <2> HIDE DEF b, c
  <2>5. Grows(b, e)
    BY <2>3, <2>4, GrowsOn
  <2> QED BY <2>1, <2>5 DEF b
<1>6. ASSUME NEW i \in 1 .. k
      PROVE  Proper(layout[i]) /\ r[i] = Build(r[i - 1], layout[i]) /\ Moves(layout[i], at[i - 1], at[i])
  BY <1>1 DEF Runs6, Built, GoesBy
<1> QED BY <1>2, <1>3, <1>5, <1>6

\* A layout marks its fields once, and the table says where.
LEMMA FieldsAre ==
  ASSUME NEW layout, NEW at, NEW r, NEW e, NEW table, NEW steps, NEW text,
         Layed(layout, at, r, e, table, steps, text), NEW i \in 1 .. Len(layout), layout[i].op = "fields"
  PROVE  table.fields = <<Closed(r[i - 1]), Pending(r[i - 1])>>
<1> DEFINE k == Len(layout)
           place == <<Closed(r[i - 1]), Pending(r[i - 1])>>
           S == {j \in 0 .. k - i : at[i + j][2] = 1 /\ r[i + j].fields = place}
<1>0. k \in Nat /\ i \in Nat /\ k - i \in Nat /\ i + (k - i) = k /\ i + 0 = i /\ 0 \in 0 .. k - i
      /\ k - i \in 0 .. k - i /\ k \in 0 .. k
  BY LayedIs
<1>1. 0 \in S
  <2>1. at[i][2] = 1
    BY LayedIs DEF Moves
  <2>2. Builds(r[i - 1], r[i], layout[i], at[i])
    BY LayedIs
  <2>3. r[i].fields = place
    BY <2>2 DEF Builds
  <2> QED BY <1>0, <2>1, <2>3
<1>2. ASSUME NEW j \in 1 .. k - i, j - 1 \in S
      PROVE  j \in S
  <2> DEFINE n == i + j
  <2>1. n \in 1 .. k /\ i + (j - 1) = n - 1 /\ j \in 0 .. k - i
    BY <1>0
  <2>2. at[n - 1][2] = 1 /\ r[n - 1].fields = place
    BY <1>2, <2>1
  <2> HIDE DEF n, place
  <2>3. Moves(layout[n], at[n - 1], at[n]) /\ Builds(r[n - 1], r[n], layout[n], at[n])
    BY <2>1, LayedIs
  <2>4. layout[n].op # "fields"
    BY <2>2, <2>3 DEF Moves
  <2>5. at[n][2] = 1
    BY <2>2, <2>3, <2>4 DEF Moves
  <2>6. r[n].fields = place
    BY <2>2, <2>3, <2>4 DEF Builds
  <2> QED BY <2>1, <2>5, <2>6 DEF n
<1>3. \A j \in 0 .. k - i : j \in S
  <2> HIDE DEF S
  <2> QED BY <1>0, <1>1, <1>2, Induction
<1>4. r[k].fields = place
  BY <1>0, <1>3
<1> HIDE DEF place
<1> DEFINE b == r[k]
<1>5. b \in Builders /\ Neat(b) /\ e = EndOf(b) /\ table.fields = e.fields
  <2>1. e = EndOf(b) /\ table.fields = e.fields
    BY DEF Layed, Finished
  <2>2. Tidy(b, b.section)
    BY <1>0, LayedIs
  <2> HIDE DEF b
  <2> QED BY <2>1, <2>2 DEF Tidy, Neat
<1> HIDE DEF b
<1>6. EndOf(b).fields = b.fields
  BY <1>5, EndCloses
<1> QED BY <1>4, <1>5, <1>6 DEF b, place

\* What a pass writes of a layout, one operation after the other, and what the
\* layout says.
PassRun(v, layout, start, table, f, steps, text, len) ==
  /\ v \in [0 .. Len(layout) -> Passes(len, FALSE)] /\ v[0] = start
  /\ \A i \in 1 .. Len(layout) : v[i] = Pass(v[i - 1], layout[i], table, f, steps, text)
SaidRun(m, layout, start, f, len) ==
  /\ m \in [0 .. Len(layout) -> Passes(len, FALSE)] /\ m[0] = start
  /\ \A i \in 1 .. Len(layout) : m[i] = SaidOp(m[i - 1], layout[i], f)

Filled(layout, f) == FillOf(f) /\ \A i \in 1 .. Len(layout) : Fillable(layout[i], f)

\* What a request says first.
Silence(table, len) == [NewState(table, len) EXCEPT !.params = 0]

LEMMA PacedFirst ==
  ASSUME NEW table, IsTable(table), NEW text, text \in Wording, NEW len
  PROVE  Paced(NewBuilder, NewState(table, len), Silence(table, len), table, text, len)
<1> DEFINE b == NewBuilder
           w == NewState(table, len)
           m == Silence(table, len)
<1>1. w \in Passes(len, FALSE)
  BY NewStateKept
<1>2. /\ w.out = <<>> /\ w.cursor = 0 /\ w.params = table.params /\ w.at = 0 /\ w.optional = FALSE
      /\ w.failed = FALSE /\ w.section = 0 /\ w.fields = 0
  BY DEF NewState, OriginSection
<1>3. /\ m.out = w.out /\ m.params = 0 /\ m.at = 0 /\ m.optional = FALSE /\ m.failed = FALSE
      /\ m.section = 0 /\ Same(w, m)
  BY <1>2 DEF Silence, NewState, Same
<1>4. m \in Passes(len, FALSE)
  <2>1. m = [w EXCEPT !.params = 0]
    BY DEF Silence
  <2> HIDE DEF w, m
  <2>2. w \in PassRecords(len, FALSE) /\ Offsets(w)
    BY <1>1 DEF Passes
  <2>3. m \in PassRecords(len, FALSE)
    BY <2>1, <2>2 DEF PassRecords
  <2>4. Offsets(m)
    <3>1. m.out = w.out /\ m.ends = w.ends /\ m.signature = w.signature /\ m.bodyHash = w.bodyHash
          /\ m.bodyChecksum = w.bodyChecksum
      BY <2>1, <2>2 DEF PassRecords
    <3> QED BY <2>2, <3>1 DEF Offsets
  <2> QED BY <2>3, <2>4 DEF Passes
<1>5. /\ b.text = <<>> /\ b.section = 0 /\ b.optional = FALSE /\ b.params = 0 /\ b.open = FALSE
      /\ b.steps = <<>>
  BY DEF NewBuilder, OriginSection
<1> HIDE DEF b, w, m
<1>6. Closed(b) = 0 /\ Pending(b) = 0
  BY <1>5 DEF Closed, Pending
<1>7. Run(text, 0, 0) = <<>>
  <2>1. text \in Seq(Words)
    BY DEF Wording
  <2> QED BY <2>1 DEF Run
<1>8. m.out = w.out \o Run(text, w.cursor, Pending(b)) /\ w.cursor + Pending(b) = Len(b.text)
  <2>1. Run(text, w.cursor, Pending(b)) = <<>>
    BY <1>2, <1>6, <1>7
  <2>2. <<>> \o <<>> = <<>> /\ Len(<<>>) = 0
    OBVIOUS
  <2>3. w.out \o Run(text, w.cursor, Pending(b)) = <<>>
    BY <1>2, <2>1, <2>2
  <2> QED BY <1>2, <1>3, <1>5, <1>6, <2>2, <2>3
<1>9. Follows(b, w, m, table, text)
  BY <1>2, <1>3, <1>5, <1>8 DEF Follows
<1>10. Keeps(b, w, m, table, text, len)
  <2>1. w.optional = b.optional
    BY <1>2, <1>5, Zenon
  <2>2. w.at = Closed(b)
    BY <1>2, <1>6, Zenon
  <2>3. m.at # 1
    BY <1>3
  <2> QED BY <1>1, <1>4, <1>9, <2>1, <2>2, <2>3 DEF Keeps
<1> QED BY <1>2, <1>5, <1>10 DEF Paced, b, w, m

\* A pass over a template's own bytes keeps up with the whole layout, and
\* writes what the layout says.
LayoutKept(layout, r, v, m, table, text, len) ==
  \A i \in 0 .. Len(layout) : Paced(r[i], v[i], m[i], table, text, len)

LEMMA PassRunExists ==
  ASSUME NEW layout \in Seq(Ops), NEW table, IsTable(table), NEW f, FillOf(f),
         NEW steps \in Seq(StepsKept), NEW text \in Wording, NEW len, NEW start \in Passes(len, FALSE)
  PROVE  \E v : PassRun(v, layout, start, table, f, steps, text, len)
<1> DEFINE k == Len(layout)
           X == Passes(len, FALSE)
           step == [i \in 1 .. k |-> [x \in X |-> Pass(x, layout[i], table, f, steps, text)]]
<1>1. k \in Nat /\ \A i \in 1 .. k : layout[i] \in Ops
  OBVIOUS
<1>2. \A i \in 1 .. k : \A x \in X : Pass(x, layout[i], table, f, steps, text) \in X
  BY <1>1, PassKept
<1> HIDE DEF X, k
<1>3. step \in StepsOver(k, X)
  BY <1>2 DEF StepsOver
<1> HIDE DEF step
<1>4. start \in X
  BY DEF X
<1>5. PICK v : Runs(v, k, X, start, step)
  BY <1>1, <1>3, <1>4, RunExists
<1>6. v \in [0 .. k -> X] /\ v[0] = start /\ \A i \in 1 .. k : v[i] = step[i][v[i - 1]]
  BY <1>5 DEF Runs
<1>7. \A i \in 1 .. k : v[i] = Pass(v[i - 1], layout[i], table, f, steps, text)
  <2> SUFFICES ASSUME NEW i \in 1 .. k PROVE v[i] = Pass(v[i - 1], layout[i], table, f, steps, text)
    OBVIOUS
  <2>1. v[i - 1] \in X
    BY <1>1, <1>6
  <2> QED BY <1>6, <2>1 DEF step
<1> QED BY <1>6, <1>7 DEF PassRun, X, k

LEMMA LayoutKeeps ==
  ASSUME NEW layout, NEW at, NEW r, NEW e, NEW table, NEW steps, NEW text,
         Layed(layout, at, r, e, table, steps, text), NEW f, Filled(layout, f), NEW len,
         NEW v, PassRun(v, layout, NewState(table, len), table, f, steps, text, len)
  PROVE  \E m : /\ SaidRun(m, layout, Silence(table, len), f, len)
                /\ LayoutKept(layout, r, v, m, table, text, len)
<1> DEFINE k == Len(layout)
           X == Passes(len, FALSE)
           More(x, i) == SaidOp(x, layout[i], f)
           step == [i \in 1 .. k |-> [x \in X |-> IF More(x, i) \in X THEN More(x, i) ELSE x]]
           start == Silence(table, len)
<1>0. Finished(e, table, steps, text) /\ IsTable(table) /\ text \in Wording /\ k \in Nat /\ FillOf(f)
  BY LayedIs DEF Layed, Finished, Filled
<1>1. Paced(NewBuilder, NewState(table, len), start, table, text, len) /\ start \in X
  <2>1. Paced(NewBuilder, NewState(table, len), start, table, text, len)
    BY <1>0, PacedFirst
  <2> QED BY <2>1 DEF Paced, Keeps
<1> HIDE DEF X, k, start
<1>2. step \in StepsOver(k, X)
  <2> HIDE DEF More
  <2> QED BY DEF StepsOver
<1> HIDE DEF step
<1>3. PICK m : Runs(m, k, X, start, step)
  BY <1>0, <1>1, <1>2, RunExists
<1>4. m \in [0 .. k -> X] /\ m[0] = start /\ \A i \in 1 .. k : m[i] = step[i][m[i - 1]]
  BY <1>3 DEF Runs
<1> DEFINE S == {i \in 0 .. k : Paced(r[i], v[i], m[i], table, text, len)}
<1>5. 0 \in S
  <2>1. r[0] = NewBuilder /\ v[0] = NewState(table, len) /\ 0 \in 0 .. k
    BY <1>0 DEF Layed, Built, PassRun
  <2> QED BY <1>1, <1>4, <2>1
<1>6. ASSUME NEW i \in 1 .. k, i - 1 \in S
      PROVE  i \in S /\ m[i] = SaidOp(m[i - 1], layout[i], f)
  <2> DEFINE b == r[i - 1]
             w == v[i - 1]
             n == m[i - 1]
             op == layout[i]
             p == at[i - 1]
             q == at[i]
  <2>1. i \in 1 .. Len(layout) /\ i - 1 \in 0 .. Len(layout) /\ i \in 0 .. k /\ i - 1 \in 0 .. k
    BY <1>0 DEF k
  <2>2. Paced(b, w, n, table, text, len)
    BY <1>6
  <2>3. v[i] = Pass(w, op, table, f, steps, text)
    BY <2>1 DEF PassRun
  <2>4. r[i] = Build(b, op)
    BY <2>1, LayedIs
  <2>5. Comes(e, table, b, op, p, q, f)
    <3>1. op.op = "fields" => table.fields = <<Closed(b), Pending(b)>>
      BY <2>1, FieldsAre
    <3>2. Tidy(b, b.section) /\ b.section = p[1]
      BY <2>1, LayedIs
    <3>3. op \in Ops /\ Proper(op) /\ q \in Stages /\ Moves(op, p, q) /\ Grows(Build(b, op), e)
      BY <2>1, <2>4, LayedIs
    <3>4. FillOf(f) /\ Fillable(op, f)
      BY <2>1 DEF Filled
    <3> QED BY <3>1, <3>2, <3>3, <3>4 DEF Comes
  <2>6. n \in X
    BY <1>4, <2>1
  <2>7. m[i] = IF SaidOp(n, op, f) \in X THEN SaidOp(n, op, f) ELSE n
    BY <1>4, <2>6 DEF step
  <2> HIDE DEF b, w, n, op, p, q
  <2>8. Paced(Build(b, op), Pass(w, op, table, f, steps, text), SaidOp(n, op, f), table, text, len)
    BY <1>0, <2>2, <2>5, KeepsOp
  <2>9. SaidOp(n, op, f) \in X
    BY <2>8 DEF Paced, Keeps, X
  <2>10. m[i] = SaidOp(n, op, f)
    BY <2>7, <2>9
  <2>11. Paced(r[i], v[i], m[i], table, text, len)
    BY <2>3, <2>4, <2>8, <2>10
  <2> QED BY <2>1, <2>10, <2>11 DEF n, op
<1>7. \A i \in 0 .. k : i \in S
  <2>1. \A i \in 1 .. k : i - 1 \in S => i \in S
    BY <1>6
  <2> HIDE DEF S
  <2> QED BY <1>0, <1>5, <2>1, Induction
<1>8. LayoutKept(layout, r, v, m, table, text, len)
  BY <1>7 DEF LayoutKept, k
<1>9. \A i \in 1 .. k : m[i] = SaidOp(m[i - 1], layout[i], f)
  <2>1. \A i \in 1 .. k : i - 1 \in 0 .. k
    BY <1>0
  <2> HIDE DEF S
  <2> QED BY <1>6, <1>7, <2>1
<1>10. SaidRun(m, layout, start, f, len)
  BY <1>4, <1>9 DEF SaidRun, X, k
<1> QED BY <1>8, <1>10 DEF start

-----------------------------------------------------------------------------
(* The end of a pass over a template's own bytes.                           *)

\* It has met every step, and has written and marked what its layout says.
AsSaid(w, m) ==
  /\ ~ w.failed /\ w.out = m.out /\ Same(w, m) /\ (m.at = 1 => w.fields = m.fields)

LEMMA LastKeeps ==
  ASSUME NEW layout, NEW at, NEW r, NEW e, NEW table, NEW steps, NEW text,
         Layed(layout, at, r, e, table, steps, text), NEW len, NEW w, NEW m,
         Paced(r[Len(layout)], w, m, table, text, len)
  PROVE  /\ Keeps(e, FinishPass(w, steps, text), SaidEnd(m), table, text, len)
         /\ AsSaid(FinishPass(w, steps, text), SaidEnd(m))
<1> DEFINE k == Len(layout)
           b == r[k]
           ended == EndUntil(w, Sections, steps, text)
           y == FinishPass(w, steps, text)
           n == SaidEnd(m)
<1>1. /\ Finished(e, table, steps, text) /\ Tidy(b, b.section) /\ e = EndOf(b) /\ Paced(b, w, m, table, text, len)
      /\ b.section = 5
  <2>1. Finished(e, table, steps, text) /\ e = EndOf(b) /\ Runs6(layout, at) /\ Paced(b, w, m, table, text, len)
    BY DEF Layed
  <2>2. k \in 0 .. k
    BY LayedIs
  <2>3. Tidy(b, b.section) /\ b.section = at[k][1]
    BY <2>2, LayedIs
  <2>4. at[k] = <<5, 1>>
    BY <2>1 DEF Runs6
  <2> QED BY <2>1, <2>3, <2>4
<1> HIDE DEF b
<1>2. Neat(b) /\ b \in Builders /\ e \in Builders /\ Keeps(b, w, m, table, text, len) /\ w.section = 5
      /\ w \in Passes(len, FALSE) /\ steps \in Seq(StepsKept) /\ text \in Wording
      /\ ~ e.open /\ steps = e.steps
  BY <1>1, KeepsIs, FinishedIs DEF Tidy, Neat, Paced, Finished
<1>3. ended = EndOne(w, 5, steps, text)
  <2> DEFINE s == 5
  <2>1. s \in 0 .. 5 /\ w.section = s
    BY <1>2
  <2> HIDE DEF s
  <2>2. EndsOneOrTwo(w, s, steps, text)
    BY <1>2, <2>1, EndUntilIs
  <2>3. EndUntil(w, s + 1, steps, text) = EndOne(w, s, steps, text)
    BY <2>2 DEF EndsOneOrTwo
  <2>4. s + 1 = Sections
    BY DEF s, Sections
  <2> QED BY <2>3, <2>4 DEF s
<1>4. Keeps(e, ended, n, table, text, len)
  <2>1. Grows(EndOf(b), e)
    BY <1>1, <1>2, GrowsSelf
  <2>2. Keeps(EndOf(b), EndOne(w, b.section, steps, text), SaidEnd(m), table, text, len)
    BY <1>1, <1>2, <2>1, KeepsEnd
  <2> QED BY <1>1, <1>3, <2>2
<1> HIDE DEF ended, n
<1>5. ended \in Passes(len, FALSE) /\ ended.at = Len(steps) /\ ~ ended.failed /\ Follows(e, ended, n, table, text)
      /\ (n.at = 1 => ended.fields = n.fields)
  <2>1. ended.at = Closed(e)
    BY <1>4, KeepsIs
  <2>2. Closed(e) = Len(steps)
    BY <1>1, FinishedIs
  <2> QED BY <1>4, <2>1, <2>2, KeepsIs
<1>6. y = ended
  <2>1. y = [ended EXCEPT !.failed = ended.failed \/ ended.at # Len(steps)]
    BY Zenon DEF FinishPass, ended
  <2>2. ended \in PassRecords(len, FALSE) /\ ended.failed \in BOOLEAN
    BY <1>5 DEF Passes, PassRecords, Flags
  <2>3. (ended.failed \/ ended.at # Len(steps)) = ended.failed
    BY <1>5, <2>2
  <2>4. y = [ended EXCEPT !.failed = ended.failed]
    BY <2>1, <2>3
  <2> QED BY <2>2, <2>4 DEF PassRecords
<1>7. AsSaid(ended, n)
  <2>1. Pending(e) = 0
    BY <1>2, BuilderIs
  <2>2. n.out = ended.out \o Run(text, ended.cursor, 0) /\ Same(ended, n)
    BY <1>5, <2>1 DEF Follows
  <2>3. ended.cursor \in Nat /\ ended.out \in Said(len)
    BY <1>5, PassIs
  <2>4. Run(text, ended.cursor, 0) = <<>>
    <3> DEFINE c == ended.cursor
    <3>1. c \in Nat /\ text \in Seq(Words)
      BY <1>2, <2>3 DEF Wording
    <3> HIDE DEF c
    <3>2. c + 1 > c + 0
      BY <3>1
    <3>3. SubSeq(text, c + 1, c + 0) = <<>>
      BY <3>1, <3>2
    <3> QED BY <3>3 DEF Run, c
  <2>5. n.out = ended.out
    <3> DEFINE out == ended.out
               X == Told(len)
    <3>1. out \in Seq(X)
      BY <2>3 DEF Said
    <3> HIDE DEF out, X
    <3>2. out \o <<>> = out
      BY <3>1
    <3> QED BY <2>2, <2>4, <3>2 DEF out
  <2> QED BY <1>5, <2>2, <2>5 DEF AsSaid
<1> QED BY <1>4, <1>6, <1>7 DEF n

-----------------------------------------------------------------------------
(* Sequences put together one after the other.                             *)

Joins(g, seqs, X) ==
  /\ g \in [0 .. Len(seqs) -> Seq(X)] /\ g[0] = <<>>
  /\ \A i \in 1 .. Len(seqs) : g[i] = g[i - 1] \o seqs[i]

LEMMA JoinExists ==
  ASSUME NEW X, NEW seqs \in Seq(Seq(X))
  PROVE  \E g : Joins(g, seqs, X)
<1> DEFINE k == Len(seqs)
           Y == Seq(X)
           step == [i \in 1 .. k |-> [x \in Y |-> x \o seqs[i]]]
<1>1. k \in Nat /\ <<>> \in Y /\ \A i \in 1 .. k : seqs[i] \in Y
  OBVIOUS
<1>2. \A i \in 1 .. k : \A x \in Y : x \o seqs[i] \in Y
  BY <1>1
<1>3. step \in StepsOver(k, Y)
  <2> HIDE DEF Y, k
  <2> QED BY <1>2 DEF StepsOver
<1> HIDE DEF step
<1>4. PICK g : Runs(g, k, Y, <<>>, step)
  <2> HIDE DEF Y, k
  <2> QED BY <1>1, <1>3, RunExists
<1>5. g \in [0 .. k -> Y] /\ g[0] = <<>> /\ \A i \in 1 .. k : g[i] = step[i][g[i - 1]]
  BY <1>4 DEF Runs
<1>6. \A i \in 1 .. k : g[i] = g[i - 1] \o seqs[i]
  <2> TAKE i \in 1 .. k
  <2>0. i - 1 \in 0 .. k
    BY <1>1
  <2>1. g[i - 1] \in Y
    <3> HIDE DEF Y, k
    <3> QED BY <1>5, <2>0
  <2> QED BY <1>5, <2>1 DEF step
<1> QED BY <1>5, <1>6 DEF Joins

LEMMA JoinIs ==
  ASSUME NEW X, NEW seqs \in Seq(Seq(X)), NEW g, Joins(g, seqs, X)
  PROVE  FlattenSeq(seqs) = g[Len(seqs)]
<1> DEFINE k == Len(seqs)
           Eq(f) == f = [i \in 1 .. k |-> IF i = 1 THEN seqs[i] ELSE f[i - 1] \o seqs[i]]
           f == CHOOSE f : Eq(f)
           h == [i \in 1 .. k |-> g[i]]
<1>0. k \in Nat /\ \A i \in 1 .. k : seqs[i] \in Seq(X)
  OBVIOUS
<1>1. g[0] = <<>> /\ \A i \in 1 .. k : g[i] = g[i - 1] \o seqs[i]
  BY DEF Joins
<1>2. \A i \in 1 .. k : g[i] = IF i = 1 THEN seqs[i] ELSE g[i - 1] \o seqs[i]
  <2> TAKE i \in 1 .. k
  <2>1. i = 1 => g[i] = seqs[i]
    <3> HAVE i = 1
    <3>0. 1 \in 1 .. k /\ 1 - 1 = 0
      BY <1>0
    <3>1. g[1] = g[0] \o seqs[1] /\ seqs[1] \in Seq(X)
      <4> HIDE DEF k
      <4>1. g[1] = g[1 - 1] \o seqs[1]
        BY <1>1, <3>0
      <4> QED BY <1>0, <3>0, <4>1
    <3>2. <<>> \o seqs[1] = seqs[1]
      BY <3>1, ConcatEmptySeq
    <3> QED BY <1>1, <3>1, <3>2
  <2> QED BY <1>1, <2>1
<1>3. Eq(h)
  <2>1. \A i \in 1 .. k : i # 1 => i - 1 \in 1 .. k
    BY <1>0
  <2>2. \A i \in 1 .. k : h[i] = IF i = 1 THEN seqs[i] ELSE h[i - 1] \o seqs[i]
    BY <1>2, <2>1
  <2> QED BY <2>2
<1>4. Eq(f)
  <2> HIDE DEF Eq, h
  <2> QED BY <1>3, Zenon
<1>5. FlattenSeq(seqs) = IF k = 0 THEN seqs ELSE f[k]
  BY DEF FlattenSeq
<1> HIDE DEF f
<1>6. \A i \in 1 .. k : f[i] = IF i = 1 THEN seqs[i] ELSE f[i - 1] \o seqs[i]
  BY <1>4
<1> DEFINE S == {i \in 0 .. k : i # 0 => f[i] = g[i]}
<1>7. 0 \in S /\ \A i \in 1 .. k : i - 1 \in S => i \in S
  <2>1. 0 \in S
    BY <1>0
  <2>2. ASSUME NEW i \in 1 .. k, i - 1 \in S
        PROVE  f[i] = g[i]
    <3>1. i # 1 => f[i - 1] = g[i - 1]
      BY <1>0, <2>2
    <3> QED BY <1>2, <1>6, <3>1
  <2> QED BY <1>0, <2>1, <2>2
<1>8. \A i \in 0 .. k : i \in S
  <2> HIDE DEF S
  <2> QED BY <1>0, <1>7, Induction
<1>9. k # 0 => f[k] = g[k]
  BY <1>0, <1>8
<1>10. k = 0 => seqs = <<>>
  OBVIOUS
<1> QED BY <1>1, <1>5, <1>9, <1>10

\* What comes first is put together first.
LEMMA JoinPart ==
  ASSUME NEW X, NEW seqs \in Seq(Seq(X)), NEW g, Joins(g, seqs, X), NEW n \in 0 .. Len(seqs)
  PROVE  FlattenSeq(SubSeq(seqs, 1, n)) = g[n]
<1> DEFINE part == SubSeq(seqs, 1, n)
           h == [i \in 0 .. n |-> g[i]]
<1>0. Len(seqs) \in Nat /\ n \in Nat /\ n <= Len(seqs)
  OBVIOUS
<1>1. part \in Seq(Seq(X)) /\ Len(part) = n /\ \A i \in 1 .. n : part[i] = seqs[i]
  <2>1. 1 \in 1 .. Len(seqs) + 1 /\ n \in 1 - 1 .. Len(seqs) /\ n - 1 + 1 = n /\ \A i \in 1 .. n : 1 + i - 1 = i
    BY <1>0
  <2> QED BY <2>1, SubSeqIs
<1> HIDE DEF part
<1>2. /\ g \in [0 .. Len(seqs) -> Seq(X)] /\ g[0] = <<>>
      /\ \A i \in 1 .. Len(seqs) : g[i] = g[i - 1] \o seqs[i]
  BY DEF Joins
<1>3. Joins(h, part, X)
  <2>1. \A i \in 0 .. n : i \in 0 .. Len(seqs)
    BY <1>0
  <2>2. h \in [0 .. n -> Seq(X)] /\ h[0] = <<>>
    <3>1. \A i \in 0 .. n : g[i] \in Seq(X)
      BY <1>2, <2>1
    <3>2. 0 \in 0 .. n
      BY <1>0
    <3> QED BY <1>2, <3>1, <3>2
  <2>3. \A i \in 1 .. n : h[i] = h[i - 1] \o part[i]
    <3> TAKE i \in 1 .. n
    <3>1. i \in 0 .. n /\ i - 1 \in 0 .. n /\ i \in 1 .. Len(seqs)
      BY <1>0
    <3> QED BY <1>1, <1>2, <3>1
  <2> HIDE DEF h
  <2> QED BY <1>1, <2>2, <2>3 DEF Joins
<1>4. h[n] = g[n]
  BY <1>0
<1> HIDE DEF h
<1>5. FlattenSeq(part) = h[Len(part)]
  BY <1>1, <1>3, JoinIs
<1> QED BY <1>1, <1>4, <1>5 DEF part

-----------------------------------------------------------------------------
(* What one operation adds to a request as its layout says it.              *)

SaysOn(m, n, text) ==
  /\ n.out = m.out \o text /\ n.ends = m.ends /\ n.section = m.section /\ n.fields = m.fields

LEMMA SaysOnText ==
  ASSUME NEW len, NEW m \in Passes(len, FALSE), NEW text \in Wording
  PROVE  /\ SaidText(m, text) \in Passes(len, FALSE) /\ SaysOn(m, SaidText(m, text), text)
         /\ SaidText(m, text).params = m.params
<1> DEFINE n == SaidText(m, text)
<1>1. /\ n \in Passes(len, FALSE) /\ n.out = m.out \o text /\ n.ends = m.ends
      /\ n.params = m.params /\ StaysPut(n, m)
  BY SaidTextIs
<1> HIDE DEF n
<1>2. n \in Passes(len, FALSE) /\ SaysOn(m, n, text) /\ n.params = m.params
  BY <1>1 DEF StaysPut, SaysOn
<1> QED BY <1>2 DEF n

LEMMA SaysOnTwice ==
  ASSUME NEW len, NEW k \in Passes(len, FALSE), NEW m \in Passes(len, FALSE), NEW n \in Passes(len, FALSE),
         NEW one \in Said(len), NEW two \in Said(len),
         SaysOn(k, m, one), SaysOn(m, n, two)
  PROVE  SaysOn(k, n, one \o two)
<1> DEFINE out == k.out
           more == m.out
           all == n.out
<1>1. out \in Seq(Told(len)) /\ one \in Seq(Told(len)) /\ two \in Seq(Told(len))
  BY PassIs DEF Said
<1>2. more = out \o one /\ all = more \o two
  BY DEF SaysOn
<1> HIDE DEF out, more, all
<1>3. all = out \o (one \o two)
  BY <1>1, <1>2, ConcatAssociative
<1> QED BY <1>3 DEF SaysOn, out, all

LEMMA SaysOnSeparator ==
  ASSUME NEW len, NEW m \in Passes(len, FALSE)
  PROVE  /\ SaidSeparator(m) \in Passes(len, FALSE) /\ SaysOn(m, SaidSeparator(m), Separator(m))
         /\ SaidSeparator(m).params = m.params + 1 /\ Separator(m) \in Wording
<1> DEFINE sep == Separator(m)
           n == SaidText(m, sep)
           k == [n EXCEPT !.params = @ + 1]
<1>1. sep \in Wording
  <2>1. "?" \in Words /\ "&" \in Words
    BY DEF Words
  <2>2. <<"?">> \in Wording /\ <<"&">> \in Wording
    BY <2>1, WordingIs
  <2> QED BY <2>2 DEF Separator
<1>2. SaidSeparator(m) = k
  <2>1. m \in PassRecords(len, FALSE)
    BY DEF Passes
  <2> HIDE DEF sep
  <2>2. SaidSeparator(m) = [m EXCEPT !.out = @ \o sep, !.params = @ + 1]
    BY DEF SaidSeparator, sep
  <2> QED BY <2>1, <2>2 DEF SaidText, PassRecords
<1> HIDE DEF sep
<1>3. n \in Passes(len, FALSE) /\ SaysOn(m, n, sep) /\ n.params = m.params
  BY <1>1, SaysOnText
<1> HIDE DEF n
<1>4. n \in PassRecords(len, FALSE) /\ Offsets(n) /\ n.params \in Nat
  BY <1>3, PassIs DEF Passes
<1>5. /\ k.params = n.params + 1 /\ k.out = n.out /\ k.ends = n.ends
      /\ k.section = n.section /\ k.fields = n.fields /\ k.signature = n.signature
      /\ k.bodyHash = n.bodyHash /\ k.bodyChecksum = n.bodyChecksum
  BY <1>4 DEF PassRecords
<1>8. k \in PassRecords(len, FALSE)
  <2> DEFINE params == n.params + 1
  <2>1. params \in Nat /\ k = [n EXCEPT !.params = params]
    BY <1>4 DEF PassRecords
  <2> HIDE DEF params, k
  <2> QED BY <1>4, <2>1 DEF PassRecords
<1> HIDE DEF k
<1>6. k \in Passes(len, FALSE)
  BY <1>4, <1>5, <1>8 DEF Passes, Offsets
<1>7. SaysOn(m, k, sep)
  BY <1>3, <1>5 DEF SaysOn
<1> QED BY <1>1, <1>2, <1>3, <1>5, <1>6, <1>7 DEF sep

\* A hole that the request fills.
AddsParam(m, n, hole, f) ==
  /\ CountsParam(hole, f) => n.params = m.params + 1
  /\ ~ CountsParam(hole, f) => n.params = m.params
LEMMA SaysOnHole ==
  ASSUME NEW len, NEW m \in Passes(len, FALSE), NEW hole, NEW name \in Wording, NEW f, FillOf(f), CanFill(hole, f)
  PROVE  /\ WriteHole(m, hole, name, f) \in Passes(len, FALSE)
         /\ HoleText(m, hole, name, f) \in Said(len)
         /\ SaysOn(m, WriteHole(m, hole, name, f), HoleText(m, hole, name, f))
         /\ AddsParam(m, WriteHole(m, hole, name, f), hole, f)
<1>1. name \in Said(len)
  BY SaidIs
<1>2. /\ WriteHole(m, hole, name, f) \in Passes(len, FALSE)
      /\ HoleText(m, hole, name, f) \in Said(len)
      /\ Writes(m, WriteHole(m, hole, name, f), HoleText(m, hole, name, f), hole, f)
  BY <1>1, Wrote
<1> DEFINE n == WriteHole(m, hole, name, f)
<1>3. SaysOn(m, n, HoleText(m, hole, name, f))
  BY <1>2, Zenon DEF Writes, StaysPut, SaysOn
<1>4. n.params = IF CountsParam(hole, f) THEN m.params + 1 ELSE m.params
  BY <1>2, Zenon DEF Writes
<1> HIDE DEF n
<1>5. AddsParam(m, n, hole, f)
  BY <1>4 DEF AddsParam
<1> QED BY <1>2, <1>3, <1>5 DEF n

\* A parameter that a request can send.
Sendable(param, f) ==
  /\ param \in Parameters /\ Proper(Param(param)) /\ Fillable(Param(param), f) /\ FillOf(f)

LEMMA SendableIs ==
  ASSUME NEW param, NEW f, Sendable(param, f)
  PROVE  /\ param \in Parameters /\ FillOf(f) /\ param.name \in Words /\ param.value \in Wording
         /\ param.mode \in {"fixed", "hole", "optional"}
         /\ param.mode # "fixed" => CanFill(param.hole, f)
         /\ param.mode = "hole" => param.hole \in UrlValues
         /\ param.mode = "optional" => param.hole \in OptionalHoles
         /\ <<param.name, "=">> \in Wording /\ <<param.name>> \in Wording /\ <<"=">> \in Wording
<1>1. param \in Parameters /\ FillOf(f) /\ param.name \in Words /\ param.value \in Wording
      /\ param.mode \in {"fixed", "hole", "optional"}
  BY DEF Sendable, Parameters
<1>2. /\ param.mode # "fixed" => CanFill(param.hole, f)
      /\ param.mode = "hole" => param.hole \in UrlValues
      /\ param.mode = "optional" => param.hole \in OptionalHoles
  BY DEF Sendable, Proper, Fillable, Param
<1>3. "=" \in Words
  BY DEF Words
<1>4. <<param.name, "=">> \in Wording /\ <<param.name>> \in Wording /\ <<"=">> \in Wording
  <2> DEFINE name == param.name
  <2>1. name \in Words
    BY <1>1
  <2> HIDE DEF name
  <2>2. <<name, "=">> \in Wording /\ <<name>> \in Wording /\ <<"=">> \in Wording
    BY <1>3, <2>1, Few DEF Wording
  <2> QED BY <2>2 DEF name
<1> QED BY <1>1, <1>2, <1>4

LEMMA MeantParamIn ==
  ASSUME NEW param, NEW f, Sendable(param, f), Sent(param, f)
  PROVE  /\ MeantParam(param, f) \in Wording
         /\ param.mode # "fixed" => ValueText(param.hole, f) \in Wording
         /\ Len(MeantParam(param, f)) \in Nat /\ Len(MeantParam(param, f)) > 0
<1> DEFINE words == <<param.name, "=">>
           value == IF param.mode = "fixed" THEN param.value ELSE ValueText(param.hole, f)
<1>0. param.mode # "fixed" => ValueText(param.hole, f) \in Wording
  <2> SUFFICES ASSUME param.mode # "fixed" PROVE ValueText(param.hole, f) \in Wording
    OBVIOUS
  <2> DEFINE hole == param.hole
  <2>1. CanFill(hole, f) /\ FillOf(f) /\ hole \in UrlValues \cup OptionalHoles
        /\ (hole \in OptionalHoles => param.mode = "optional" \/ hole \in UrlValues)
    BY SendableIs
  <2>2. IF hole \in OptionalHoles THEN hole \in DOMAIN f.params ELSE hole \in DOMAIN f.values
    <3>1. hole \in UrlValues => hole \notin OptionalHoles
      BY DEF UrlValues, OptionalHoles
    <3>2. CASE hole \in OptionalHoles
      <4>1. param.mode = "optional"
        BY <2>1, <3>1, <3>2
      <4>2. ~ LeftOut(hole, f)
        BY <4>1 DEF Sent
      <4> QED BY <3>2, <4>2 DEF LeftOut
    <3>3. CASE hole \notin OptionalHoles
      <4>1. hole \in UrlValues
        BY <2>1, <3>3
      <4>2. hole \notin {"Target", "Path", "Query", "Signature", "BodyLength", "BodyHash", "Separator",
                         "BodyChecksum", "Body"}
        BY <4>1 DEF UrlValues
      <4> QED BY <2>1, <3>3, <4>2 DEF CanFill
    <3> QED BY <3>2, <3>3
  <2> HIDE DEF hole
  <2>3. ValueText(hole, f) \in Wording
    BY <2>1, <2>2, ValueTextIn
  <2> QED BY <2>3 DEF hole
<1>1. words \in Wording /\ value \in Wording /\ Len(words) = 2
  BY <1>0, SendableIs
<1>2. MeantParam(param, f) = words \o value
  BY DEF MeantParam
<1> HIDE DEF words, value
<1>3. words \o value \in Wording /\ Len(words \o value) \in Nat /\ Len(words \o value) > 0
  <2>1. words \in Seq(Words) /\ value \in Seq(Words)
    BY <1>1 DEF Wording
  <2>2. words \o value \in Seq(Words) /\ Len(words \o value) = Len(words) + Len(value) /\ Len(value) \in Nat
    BY <2>1
  <2> QED BY <1>1, <2>2 DEF Wording
<1> QED BY <1>0, <1>2, <1>3

\* A parameter is sent with its separator, or is not sent at all.
SendsParam(m, n, param, f) ==
  /\ Sent(param, f) => SaysOn(m, n, Separator(m) \o MeantParam(param, f)) /\ n.params = m.params + 1
  /\ ~ Sent(param, f) => SaysOn(m, n, <<>>) /\ n.params = m.params

LEMMA SaysOnFixed ==
  ASSUME NEW len, NEW m \in Passes(len, FALSE), NEW param, NEW f, Sendable(param, f),
         param.mode = "fixed"
  PROVE  SendsParam(m, SaidParam(m, param, f), param, f)
<1> DEFINE k == SaidSeparator(m)
           sep == Separator(m)
           more == <<param.name, "=">> \o param.value
           n == SaidText(k, more)
<1>1. SaidParam(m, param, f) = n /\ MeantParam(param, f) = more /\ Sent(param, f)
  BY Zenon DEF SaidParam, MeantParam, Sent
<1>2. more \in Wording
  <2> DEFINE words == <<param.name, "=">>
             value == param.value
  <2>1. words \in Wording /\ value \in Wording
    BY SendableIs
  <2> HIDE DEF words, value
  <2>2. words \o value \in Wording
    BY <2>1, WordingIs
  <2> QED BY <2>2 DEF words, value
<1>3. k \in Passes(len, FALSE) /\ SaysOn(m, k, sep) /\ k.params = m.params + 1 /\ sep \in Wording
  BY SaysOnSeparator
<1> HIDE DEF k, sep, more
<1>4. n \in Passes(len, FALSE) /\ SaysOn(k, n, more) /\ n.params = k.params
  BY <1>2, <1>3, SaysOnText
<1> HIDE DEF n
<1>5. SaysOn(m, n, sep \o more)
  BY <1>2, <1>3, <1>4, SaidIs, SaysOnTwice
<1> QED BY <1>1, <1>3, <1>4, <1>5 DEF SendsParam, sep

LEMMA SaysOnFilled ==
  ASSUME NEW len, NEW m \in Passes(len, FALSE), NEW param, NEW f, Sendable(param, f),
         param.mode = "hole"
  PROVE  SendsParam(m, SaidParam(m, param, f), param, f)
<1> DEFINE k == SaidSeparator(m)
           sep == Separator(m)
           words == <<param.name, "=">>
           hole == param.hole
           value == ValueText(hole, f)
           g == SaidText(k, words)
           n == WriteHole(g, hole, <<>>, f)
<1>1. SaidParam(m, param, f) = n /\ MeantParam(param, f) = words \o value /\ Sent(param, f)
  BY Zenon DEF SaidParam, MeantParam, Sent
<1>2. words \in Wording /\ value \in Wording /\ hole \in UrlValues /\ CanFill(hole, f) /\ FillOf(f)
  BY <1>1, SendableIs, MeantParamIn
<1>3. k \in Passes(len, FALSE) /\ SaysOn(m, k, sep) /\ k.params = m.params + 1 /\ sep \in Wording
  BY SaysOnSeparator
<1> HIDE DEF k, sep, words
<1>4. g \in Passes(len, FALSE) /\ SaysOn(k, g, words) /\ g.params = k.params
  BY <1>2, <1>3, SaysOnText
<1> HIDE DEF g
<1>5. HoleText(g, hole, <<>>, f) = value /\ ~ CountsParam(hole, f)
  <2>1. hole \notin {"Separator", "Target", "Path", "Query", "Signature", "BodyLength", "BodyHash",
                     "BodyChecksum", "Body"} \cup OptionalHoles
    BY <1>2 DEF UrlValues, OptionalHoles
  <2> HIDE DEF hole
  <2>2. HoleText(g, hole, <<>>, f) = ValueText(hole, f)
    BY <2>1, ValueIs
  <2>3. ~ CountsParam(hole, f)
    BY <2>1 DEF CountsParam
  <2> QED BY <2>2, <2>3
<1>6. n \in Passes(len, FALSE) /\ SaysOn(g, n, value) /\ n.params = g.params
  <2> DEFINE none == <<>>
  <2>1. none \in Wording
    BY WordingIs
  <2> HIDE DEF hole, value, none
  <2>2. /\ WriteHole(g, hole, none, f) \in Passes(len, FALSE)
        /\ SaysOn(g, WriteHole(g, hole, none, f), HoleText(g, hole, none, f))
        /\ AddsParam(g, WriteHole(g, hole, none, f), hole, f)
    BY <1>2, <1>4, <2>1, SaysOnHole
  <2> QED BY <1>5, <2>2 DEF none, AddsParam
<1> HIDE DEF n, value
<1>7. SaysOn(m, n, sep \o (words \o value))
  <2>1. sep \in Said(len) /\ words \in Said(len) /\ value \in Said(len) /\ words \o value \in Said(len)
    BY <1>2, <1>3, SaidIs
  <2>2. SaysOn(k, n, words \o value)
    BY <1>3, <1>4, <1>6, <2>1, SaysOnTwice
  <2> DEFINE more == words \o value
  <2> HIDE DEF more
  <2>3. SaysOn(m, n, sep \o more)
    BY <1>3, <1>6, <2>1, <2>2, SaysOnTwice DEF more
  <2> QED BY <2>3 DEF more
<1> QED BY <1>1, <1>3, <1>4, <1>6, <1>7 DEF SendsParam, sep

LEMMA SaysOnOptional ==
  ASSUME NEW len, NEW m \in Passes(len, FALSE), NEW param, NEW f, Sendable(param, f),
         param.mode = "optional"
  PROVE  SendsParam(m, SaidParam(m, param, f), param, f)
<1> DEFINE k == [m EXCEPT !.optional = TRUE]
           sep == Separator(m)
           name == <<param.name>>
           hole == param.hole
           value == ValueText(hole, f)
           n == WriteHole(k, hole, name, f)
           text == HoleText(k, hole, name, f)
<1>1. SaidParam(m, param, f) = n /\ (Sent(param, f) <=> ~ LeftOut(hole, f))
  BY Zenon DEF SaidParam, Sent
<1>2. name \in Wording /\ hole \in OptionalHoles /\ CanFill(hole, f) /\ FillOf(f)
  BY SendableIs
<1>3. k \in Passes(len, FALSE) /\ SaysOn(m, k, <<>>) /\ k.params = m.params /\ Separator(k) = sep /\ k.out = m.out
  <2>1. k \in Passes(len, FALSE)
    BY PassTurned
  <2>2. m \in PassRecords(len, FALSE) /\ m.out \in Seq(Told(len))
    BY PassIs DEF Passes, Said
  <2>3. k.out = m.out /\ k.ends = m.ends /\ k.section = m.section /\ k.fields = m.fields /\ k.params = m.params
    BY <2>2 DEF PassRecords
  <2>4. m.out \o <<>> = m.out
    <3> DEFINE out == m.out
    <3>1. out \in Seq(Told(len))
      BY <2>2
    <3> HIDE DEF out
    <3>2. out \o <<>> = out
      BY <3>1, ConcatEmptySeq
    <3> QED BY <3>2 DEF out
  <2> HIDE DEF k
  <2> QED BY <2>1, <2>3, <2>4 DEF SaysOn, Separator
<1> HIDE DEF k, name, hole
<1>4. /\ n \in Passes(len, FALSE) /\ text \in Said(len) /\ SaysOn(k, n, text)
      /\ (CountsParam(hole, f) => n.params = k.params + 1) /\ (~ CountsParam(hole, f) => n.params = k.params)
  <2>1. /\ WriteHole(k, hole, name, f) \in Passes(len, FALSE)
        /\ HoleText(k, hole, name, f) \in Said(len)
        /\ SaysOn(k, WriteHole(k, hole, name, f), HoleText(k, hole, name, f))
        /\ AddsParam(k, WriteHole(k, hole, name, f), hole, f)
    BY <1>2, <1>3, SaysOnHole
  <2> QED BY <2>1 DEF AddsParam
<1>5. /\ LeftOut(hole, f) => text = <<>>
      /\ ~ LeftOut(hole, f) => text = sep \o name \o <<"=">> \o value
  BY <1>2, <1>3, ValueIs
<1>6. CountsParam(hole, f) <=> ~ LeftOut(hole, f)
  <2>1. hole # "Separator"
    BY <1>2 DEF OptionalHoles
  <2> QED BY <1>2, <2>1 DEF CountsParam
<1> HIDE DEF n, text
<1>7. ASSUME ~ LeftOut(hole, f)
      PROVE  text = sep \o MeantParam(param, f)
  <2> DEFINE mark == <<"=">>
  <2>1. value \in Seq(Words) /\ sep \in Seq(Words) /\ name \in Seq(Words) /\ mark \in Seq(Words)
    BY <1>1, <1>7, MeantParamIn, SendableIs, SaysOnSeparator DEF Wording, name, hole
  <2>2. MeantParam(param, f) = (name \o mark) \o value
    <3>1. <<param.name, "=">> = <<param.name>> \o <<"=">>
      OBVIOUS
    <3> QED BY <3>1 DEF MeantParam, name, hole
  <2> HIDE DEF mark, value, sep
  <2>3. text = ((sep \o name) \o mark) \o value
    BY <1>5, <1>7 DEF mark
  <2>4. (sep \o name) \o mark = sep \o (name \o mark) /\ name \o mark \in Seq(Words)
    BY <2>1, ConcatAssociative, ConcatProperties
  <2> DEFINE words == name \o mark
  <2> HIDE DEF words
  <2>5. (sep \o words) \o value = sep \o (words \o value)
    <3>1. words \in Seq(Words)
      BY <2>4 DEF words
    <3> QED BY <2>1, <3>1, ConcatAssociative
  <2> QED BY <2>2, <2>3, <2>4, <2>5 DEF words
<1>8. SaysOn(m, n, text)
  BY <1>3, <1>4, Zenon DEF SaysOn
<1> QED BY <1>1, <1>3, <1>4, <1>5, <1>6, <1>7, <1>8 DEF SendsParam, sep

LEMMA SaysOnParam ==
  ASSUME NEW len, NEW m \in Passes(len, FALSE), NEW param, NEW f, Sendable(param, f)
  PROVE  SendsParam(m, SaidParam(m, param, f), param, f)
BY SendableIs, SaysOnFixed, SaysOnFilled, SaysOnOptional

-----------------------------------------------------------------------------
(* The query of a request.                                                  *)

\* A request over its parameters, one after the other.
QueryRun(r, m, query, f, len) ==
  /\ r \in [0 .. Len(query) -> Passes(len, FALSE)] /\ r[0] = m
  /\ \A n \in 1 .. Len(query) : r[n] = SaidParam(r[n - 1], query[n], f)

Sending(query, f) == {n \in DOMAIN query : Sent(query[n], f)}

\* What a parameter is sent as, the first of a query or a later one.
Piece(param, first, f) == (IF first THEN <<>> ELSE <<"&">>) \o MeantParam(param, f)
Pieces(present, f) == [n \in DOMAIN present |-> Piece(present[n], n = 1, f)]
Queried(text) == IF text = <<>> THEN <<>> ELSE <<"?">> \o text

LEMMA PieceIs ==
  ASSUME NEW param, NEW f, Sendable(param, f), Sent(param, f), NEW first \in BOOLEAN
  PROVE  /\ Piece(param, first, f) \in Seq(Words) /\ MeantParam(param, f) \in Seq(Words)
         /\ Len(Piece(param, first, f)) \in Nat /\ Len(Piece(param, first, f)) > 0
         /\ first => Piece(param, first, f) = MeantParam(param, f)
         /\ ~ first => Piece(param, first, f) = <<"&">> \o MeantParam(param, f)
<1> DEFINE text == MeantParam(param, f)
           mark == <<"&">>
<1>1. text \in Seq(Words) /\ Len(text) \in Nat /\ Len(text) > 0
  BY MeantParamIn DEF Wording
<1>2. mark \in Seq(Words)
  <2>1. "&" \in Words
    BY DEF Words
  <2> QED BY <2>1, Few
<1>3. /\ first => Piece(param, first, f) = <<>> \o text
      /\ ~ first => Piece(param, first, f) = mark \o text
  BY DEF Piece
<1> HIDE DEF text, mark
<1>4. <<>> \o text = text /\ mark \o text \in Seq(Words) /\ Len(mark \o text) = Len(mark) + Len(text)
      /\ Len(mark) \in Nat
  BY <1>1, <1>2, ConcatEmptySeq
<1>5. /\ Piece(param, first, f) \in Seq(Words)
      /\ Len(Piece(param, first, f)) \in Nat /\ Len(Piece(param, first, f)) > 0
  <2> DEFINE both == mark \o text
  <2>1. both \in Seq(Words) /\ Len(both) \in Nat /\ Len(both) > 0
    BY <1>1, <1>4
  <2>2. Piece(param, first, f) = text \/ Piece(param, first, f) = both
    BY <1>3, <1>4
  <2> HIDE DEF both
  <2> QED BY <1>1, <2>1, <2>2
<1> QED BY <1>1, <1>3, <1>4, <1>5 DEF text, mark

\* Those that are present, by their positions.
LEMMA PresentIs ==
  ASSUME NEW query \in Seq(Parameters), NEW f, \A n \in 1 .. Len(query) : Sendable(query[n], f)
  PROVE  \E idx : LET present == Selected(query, Sending(query, f))
                  IN  /\ Enumerates(idx, Sending(query, f)) /\ Len(idx) \in Nat
                      /\ present = At(query, idx) /\ present \in Seq(Parameters)
                      /\ Len(present) = Len(idx)
                      /\ \A i \in 1 .. Len(idx) : /\ idx[i] \in 1 .. Len(query)
                                                  /\ present[i] = query[idx[i]]
                                                  /\ Sent(present[i], f)
                      /\ Pieces(present, f) \in Seq(Seq(Words))
                      /\ Len(Pieces(present, f)) = Len(idx)
<1> DEFINE at == Sending(query, f)
           present == Selected(query, at)
<1>0. DOMAIN query = 1 .. Len(query) /\ Len(query) \in Nat
  OBVIOUS
<1>1. at \cap 1 .. Len(query) = at /\ at \subseteq 1 .. Len(query) /\ \A n \in at : Sent(query[n], f)
  BY <1>0 DEF Sending
<1> HIDE DEF at
<1>2. PICK idx : /\ Enumerates(idx, at \cap 1 .. Len(query)) /\ Len(idx) \in Nat
                 /\ present = At(query, idx) /\ present \in Seq(Parameters) /\ Len(present) = Len(idx)
  BY SelectedExists
<1> HIDE DEF present
<1>3. Enumerates(idx, at)
  BY <1>1, <1>2
<1>4. \A i \in 1 .. Len(idx) : idx[i] \in at /\ present[i] = query[idx[i]]
  BY <1>2, <1>3 DEF Enumerates, At
<1>5. \A i \in 1 .. Len(idx) : idx[i] \in 1 .. Len(query) /\ Sent(present[i], f) /\ Sendable(present[i], f)
  BY <1>1, <1>4
<1>6. DOMAIN present = 1 .. Len(idx)
  BY <1>2
<1>7. \A i \in 1 .. Len(idx) : Piece(present[i], i = 1, f) \in Seq(Words)
  <2> TAKE i \in 1 .. Len(idx)
  <2> DEFINE param == present[i]
             first == i = 1
  <2>1. Sendable(param, f) /\ Sent(param, f) /\ first \in BOOLEAN
    BY <1>5
  <2> HIDE DEF param, first
  <2>2. Piece(param, first, f) \in Seq(Words)
    BY <2>1, PieceIs
  <2> QED BY <2>2 DEF param, first
<1>8. Pieces(present, f) \in [1 .. Len(idx) -> Seq(Words)]
  BY <1>6, <1>7 DEF Pieces
<1>9. Pieces(present, f) \in Seq(Seq(Words)) /\ Len(Pieces(present, f)) = Len(idx)
  <2> DEFINE pieces == Pieces(present, f)
  <2>1. pieces \in [1 .. Len(idx) -> Seq(Words)]
    BY <1>8
  <2> HIDE DEF pieces
  <2>2. pieces \in Seq(Seq(Words)) /\ Len(pieces) = Len(idx)
    BY <1>2, <2>1, FunctionIsSeq
  <2> QED BY <2>2 DEF pieces
<1> QED BY <1>2, <1>3, <1>4, <1>5, <1>9 DEF at, present

\* The place of a position among those in order.
LEMMA PlaceIn ==
  ASSUME NEW at, NEW idx, Enumerates(idx, at), Len(idx) \in Nat, NEW n \in Nat, n > 0, NEW j \in 0 .. Len(idx),
         \A i \in 1 .. Len(idx) : i <= j <=> idx[i] <= n - 1
  PROVE  /\ n \in at => /\ j + 1 \in 1 .. Len(idx) /\ idx[j + 1] = n
                        /\ \A i \in 1 .. Len(idx) : i <= j + 1 <=> idx[i] <= n
         /\ n \notin at => \A i \in 1 .. Len(idx) : i <= j <=> idx[i] <= n
<1>1. /\ idx \in Seq(Nat) /\ \A i \in 1 .. Len(idx) : idx[i] \in at /\ idx[i] \in Nat
      /\ \A i, k \in 1 .. Len(idx) : i < k => idx[i] < idx[k]
      /\ \A k \in at : \E i \in 1 .. Len(idx) : idx[i] = k
  BY DEF Enumerates
<1>2. ASSUME n \in at
      PROVE  /\ j + 1 \in 1 .. Len(idx) /\ idx[j + 1] = n
             /\ \A i \in 1 .. Len(idx) : i <= j + 1 <=> idx[i] <= n
  <2>1. PICK k \in 1 .. Len(idx) : idx[k] = n
    BY <1>1, <1>2
  <2>2. k > j
    BY <2>1
  <2>3. k <= j + 1
    <3>1. CASE k = 1
      BY <3>1
    <3>2. CASE k # 1
      <4>1. k - 1 \in 1 .. Len(idx) /\ k - 1 < k
        BY <3>2
      <4>2. idx[k - 1] < idx[k] /\ idx[k - 1] \in Nat
        BY <1>1, <4>1
      <4>3. idx[k - 1] <= n - 1
        BY <2>1, <4>2
      <4> QED BY <4>1, <4>3
    <3> QED BY <3>1, <3>2
  <2>4. k = j + 1
    BY <2>2, <2>3
  <2>5. ASSUME NEW i \in 1 .. Len(idx) PROVE i <= j + 1 <=> idx[i] <= n
    <3>1. i < k => idx[i] < idx[k]
      BY <1>1
    <3>2. k < i => idx[k] < idx[i]
      BY <1>1
    <3> QED BY <1>1, <2>1, <2>4, <3>1, <3>2
  <2> QED BY <2>1, <2>4, <2>5
<1>3. ASSUME n \notin at, NEW i \in 1 .. Len(idx)
      PROVE  i <= j <=> idx[i] <= n
  <2>1. idx[i] # n /\ idx[i] \in Nat
    BY <1>1, <1>3
  <2> QED BY <2>1
<1> QED BY <1>2, <1>3

\* What a request has written of its query, with j of the parameters present.
QueryUpto(m, n, g, j) == n.params = j /\ SaysOn(m, n, IF j = 0 THEN <<>> ELSE <<"?">> \o g[j])
QueryAt(r, m, g, idx, n) ==
  \E j \in 0 .. Len(idx) :
    /\ \A i \in 1 .. Len(idx) : i <= j <=> idx[i] <= n
    /\ QueryUpto(m, r[n], g, j)

LEMMA QueryOneMore ==
  ASSUME NEW len, NEW m \in Passes(len, FALSE), NEW one \in Passes(len, FALSE), NEW two \in Passes(len, FALSE),
         NEW param, NEW f, Sendable(param, f), Sent(param, f), SendsParam(one, two, param, f),
         NEW g, NEW j \in Nat, QueryUpto(m, one, g, j), g[0] = <<>>, g[j] \in Seq(Words),
         g[j + 1] = g[j] \o Piece(param, j + 1 = 1, f)
  PROVE  QueryUpto(m, two, g, j + 1)
<1> DEFINE text == MeantParam(param, f)
           sep == Separator(one)
           before == IF j = 0 THEN <<>> ELSE <<"?">> \o g[j]
           first == j + 1 = 1
           had == g[j]
           mark == <<"?">>
           more == <<"&">>
           next == g[j + 1]
<1>1. /\ SaysOn(m, one, before) /\ one.params = j /\ SaysOn(one, two, sep \o text) /\ two.params = j + 1
  BY DEF QueryUpto, SendsParam
<1>2. text \in Seq(Words) /\ had \in Seq(Words) /\ mark \in Seq(Words) /\ more \in Seq(Words)
  <2>1. "?" \in Words /\ "&" \in Words
    BY DEF Words
  <2> QED BY <2>1, PieceIs, Few, MeantParamIn DEF Wording
<1>3. sep = IF j = 0 THEN mark ELSE more
  BY <1>1 DEF Separator
<1>4. next = had \o (IF j = 0 THEN text ELSE more \o text)
  <2>1. first \in BOOLEAN /\ (first <=> j = 0)
    OBVIOUS
  <2> HIDE DEF first
  <2>2. Piece(param, first, f) = IF j = 0 THEN text ELSE more \o text
    BY <2>1, PieceIs
  <2> QED BY <2>2 DEF first
<1>5. before \in Seq(Words) /\ sep \o text \in Seq(Words)
  <2>1. <<>> \in Seq(Words) /\ mark \o had \in Seq(Words) /\ sep \in Seq(Words)
    BY <1>2, <1>3
  <2>2. before = <<>> \/ before = mark \o had
    OBVIOUS
  <2> HIDE DEF sep, mark, had, text, before
  <2>3. before \in Seq(Words)
    BY <2>1, <2>2
  <2>4. sep \o text \in Seq(Words)
    BY <1>2, <2>1
  <2> QED BY <2>3, <2>4
<1>6. before \o (sep \o text) = mark \o next
  <2>1. CASE j = 0
    <3>1. had = <<>> /\ before = <<>> /\ sep = mark
      BY <1>3, <2>1
    <3>2. next = <<>> \o text
      BY <1>4, <2>1, <3>1
    <3> HIDE DEF sep, mark, had, text, next, before
    <3>3. <<>> \o text = text
      BY <1>2, ConcatEmptySeq
    <3> DEFINE all == sep \o text
    <3>4. all \in Seq(Words)
      BY <1>5
    <3> HIDE DEF all
    <3>5. <<>> \o all = all
      BY <3>4, ConcatEmptySeq
    <3> QED BY <3>1, <3>2, <3>3, <3>5 DEF all
  <2>2. CASE j # 0
    <3>1. before = mark \o had /\ sep = more
      BY <1>3, <2>2
    <3>2. next = had \o (more \o text)
      BY <1>4, <2>2
    <3> HIDE DEF sep, mark, had, text, next, before, more
    <3> DEFINE all == more \o text
    <3>3. all \in Seq(Words)
      BY <1>2
    <3> HIDE DEF all
    <3>4. (mark \o had) \o all = mark \o (had \o all)
      <4>1. mark \in Seq(Words) /\ had \in Seq(Words)
        BY <1>2
      <4> QED BY <3>3, <4>1, ConcatAssociative
    <3> QED BY <3>1, <3>2, <3>4 DEF all
  <2> QED BY <2>1, <2>2
<1>7. SaysOn(m, two, before \o (sep \o text))
  <2> HIDE DEF before, sep, text
  <2>1. before \in Said(len) /\ sep \o text \in Said(len)
    BY <1>5, SaidIs DEF Wording
  <2> DEFINE all == sep \o text
  <2> HIDE DEF all
  <2>2. SaysOn(m, two, before \o all)
    BY <1>1, <2>1, SaysOnTwice DEF all
  <2> QED BY <2>2 DEF all
<1>8. SaysOn(m, two, mark \o next)
  BY <1>6, <1>7
<1>9. j + 1 # 0
  OBVIOUS
<1> QED BY <1>1, <1>8, <1>9 DEF QueryUpto

LEMMA QuerySays ==
  ASSUME NEW len, NEW m \in Passes(len, FALSE), m.params = 0,
         NEW query \in Seq(Parameters), NEW f, \A n \in 1 .. Len(query) : Sendable(query[n], f),
         NEW r, QueryRun(r, m, query, f, len)
  PROVE  LET text == FlattenSeq(Pieces(Selected(query, Sending(query, f)), f))
         IN  text \in Wording /\ SaysOn(m, r[Len(query)], Queried(text))
<1> DEFINE q == Len(query)
           at == Sending(query, f)
           present == Selected(query, at)
           pieces == Pieces(present, f)
           text == FlattenSeq(pieces)
<1>0. q \in Nat
  OBVIOUS
<1>1. PICK idx : /\ Enumerates(idx, at) /\ Len(idx) \in Nat
                 /\ Len(present) = Len(idx)
                 /\ \A i \in 1 .. Len(idx) : /\ idx[i] \in 1 .. q
                                             /\ present[i] = query[idx[i]]
                                             /\ Sent(present[i], f)
                 /\ pieces \in Seq(Seq(Words)) /\ Len(pieces) = Len(idx)
  BY PresentIs
<1>2. \A i \in 1 .. Len(idx) : pieces[i] = Piece(present[i], i = 1, f)
  <2>1. DOMAIN present = 1 .. Len(idx)
    <3>1. DOMAIN pieces = 1 .. Len(idx) /\ DOMAIN pieces = DOMAIN present
      <4>1. DOMAIN pieces = DOMAIN present
        BY DEF Pieces
      <4> HIDE DEF pieces, present
      <4> QED BY <1>1, <4>1
    <3> QED BY <3>1
  <2> HIDE DEF present
  <2> QED BY <2>1 DEF Pieces
<1>3. PICK g : Joins(g, pieces, Words)
  <2> HIDE DEF pieces
  <2> QED BY <1>1, JoinExists
<1> HIDE DEF pieces, present
<1>4. text = g[Len(idx)]
  BY <1>1, <1>3, JoinIs
<1>5. /\ g \in [0 .. Len(idx) -> Seq(Words)] /\ g[0] = <<>>
      /\ \A i \in 1 .. Len(idx) : g[i] = g[i - 1] \o pieces[i]
  BY <1>1, <1>3 DEF Joins
<1>6. /\ r \in [0 .. q -> Passes(len, FALSE)] /\ r[0] = m
      /\ \A n \in 1 .. q : r[n] = SaidParam(r[n - 1], query[n], f)
  BY DEF QueryRun
<1>7. at \subseteq 1 .. q /\ \A n \in 1 .. q : n \in at <=> Sent(query[n], f)
  BY DEF Sending
<1> HIDE DEF text, at, q
<1> DEFINE S == {n \in 0 .. q : QueryAt(r, m, g, idx, n)}
<1>8. 0 \in S
  <2>1. 0 \in 0 .. Len(idx) /\ \A i \in 1 .. Len(idx) : i <= 0 <=> idx[i] <= 0
    BY <1>1
  <2>2. QueryUpto(m, r[0], g, 0)
    <3> DEFINE out == m.out
    <3>1. out \in Seq(Told(len))
      BY PassIs DEF Said
    <3> HIDE DEF out
    <3>2. out \o <<>> = out
      BY <3>1, ConcatEmptySeq
    <3> QED BY <1>6, <3>2 DEF QueryUpto, SaysOn, out
  <2>3. QueryAt(r, m, g, idx, 0)
    BY <2>1, <2>2 DEF QueryAt
  <2> QED BY <1>0, <2>3 DEF q
<1>9. ASSUME NEW n \in 1 .. q, n - 1 \in S
      PROVE  n \in S
  <2>1. QueryAt(r, m, g, idx, n - 1)
    BY <1>9
  <2>2. PICK j \in 0 .. Len(idx) :
          (\A i \in 1 .. Len(idx) : i <= j <=> idx[i] <= n - 1) /\ QueryUpto(m, r[n - 1], g, j)
    BY <2>1 DEF QueryAt
  <2> DEFINE one == r[n - 1]
             two == r[n]
             param == query[n]
  <2>3. n \in Nat /\ n > 0 /\ n \in 0 .. q /\ n - 1 \in 0 .. q
    BY <1>0 DEF q
  <2>4. one \in Passes(len, FALSE) /\ two \in Passes(len, FALSE) /\ two = SaidParam(one, param, f)
    BY <1>6, <2>3
  <2>5. Sendable(param, f)
    BY DEF q
  <2> HIDE DEF one, two, param
  <2>6. SendsParam(one, two, param, f)
    BY <2>4, <2>5, SaysOnParam
  <2>7. /\ n \in at => /\ j + 1 \in 1 .. Len(idx) /\ idx[j + 1] = n
                       /\ \A i \in 1 .. Len(idx) : i <= j + 1 <=> idx[i] <= n
        /\ n \notin at => \A i \in 1 .. Len(idx) : i <= j <=> idx[i] <= n
    BY <1>1, <2>2, <2>3, PlaceIn
  <2>8. CASE n \in at
    <3>1. Sent(param, f) /\ j + 1 \in 1 .. Len(idx) /\ present[j + 1] = param
      BY <1>1, <1>7, <2>7, <2>8 DEF param
    <3>2. g[j + 1] = g[j] \o Piece(param, j + 1 = 1, f) /\ g[j] \in Seq(Words) /\ j \in Nat
      <4>1. j + 1 - 1 = j /\ j \in 0 .. Len(idx) /\ j \in Nat
        BY <1>1
      <4>2. g[j + 1] = g[j] \o pieces[j + 1]
        <5> DEFINE k == j + 1
        <5>1. k \in 1 .. Len(idx) /\ k - 1 = j /\ k = j + 1
          BY <3>1
        <5> HIDE DEF k
        <5>2. g[k] = g[k - 1] \o pieces[k]
          BY <1>5, <5>1
        <5> QED BY <5>1, <5>2
      <4>3. pieces[j + 1] = Piece(param, j + 1 = 1, f)
        BY <1>2, <3>1
      <4> QED BY <1>5, <4>1, <4>2, <4>3
    <3>3. QueryUpto(m, one, g, j)
      BY <2>2 DEF one
    <3>4. QueryUpto(m, two, g, j + 1)
      BY <1>5, <2>4, <2>5, <2>6, <3>1, <3>2, <3>3, QueryOneMore
    <3>5. j + 1 \in 0 .. Len(idx)
      BY <3>1, <1>1
    <3>6. QueryAt(r, m, g, idx, n)
      BY <2>7, <2>8, <3>4, <3>5 DEF QueryAt, two
    <3> QED BY <2>3, <3>6
  <2>9. CASE n \notin at
    <3>1. ~ Sent(param, f)
      BY <1>7, <2>9 DEF param
    <3>2. two.params = one.params /\ two.out = one.out \o <<>> /\ two.ends = one.ends
          /\ two.section = one.section /\ two.fields = one.fields
      BY <2>6, <3>1 DEF SendsParam, SaysOn
    <3>3. one.out \o <<>> = one.out
      <4> DEFINE out == one.out
      <4>1. out \in Seq(Told(len))
        BY <2>4, PassIs DEF Said
      <4> HIDE DEF out
      <4>2. out \o <<>> = out
        BY <4>1, ConcatEmptySeq
      <4> QED BY <4>2 DEF out
    <3>4. QueryUpto(m, one, g, j)
      BY <2>2 DEF one
    <3>5. QueryUpto(m, two, g, j)
      BY <3>2, <3>3, <3>4 DEF QueryUpto, SaysOn
    <3>6. QueryAt(r, m, g, idx, n)
      BY <2>7, <2>9, <3>5 DEF QueryAt, two
    <3> QED BY <2>3, <3>6
  <2> QED BY <2>8, <2>9
<1>10. QueryAt(r, m, g, idx, q)
  <2> HIDE DEF S
  <2>1. \A n \in 0 .. q : n \in S
    BY <1>0, <1>8, <1>9, Induction DEF q
  <2>2. q \in S
    BY <1>0, <2>1 DEF q
  <2> QED BY <2>2 DEF S
<1>11. PICK j \in 0 .. Len(idx) :
         (\A i \in 1 .. Len(idx) : i <= j <=> idx[i] <= q) /\ QueryUpto(m, r[q], g, j)
  BY <1>10 DEF QueryAt
<1>12. j = Len(idx)
  <2>1. \A i \in 1 .. Len(idx) : idx[i] <= q
    BY <1>1
  <2>2. Len(idx) # 0 => Len(idx) \in 1 .. Len(idx) /\ Len(idx) <= j
    BY <1>1, <1>11, <2>1
  <2> QED BY <1>1, <2>2
<1>13. text \in Seq(Words) /\ (text = <<>> <=> j = 0)
  <2>1. text \in Seq(Words)
    BY <1>1, <1>4, <1>5
  <2>2. j = 0 => text = <<>>
    BY <1>4, <1>5, <1>12
  <2>3. ASSUME j # 0 PROVE text # <<>>
    <3>1. j \in 1 .. Len(idx) /\ j - 1 \in 0 .. Len(idx)
      BY <1>1, <2>3
    <3> DEFINE piece == pieces[j]
               had == g[j - 1]
               param == present[j]
               first == j = 1
    <3>2. text = had \o piece /\ had \in Seq(Words) /\ piece = Piece(param, first, f)
      BY <1>2, <1>4, <1>5, <1>12, <3>1
    <3>3. Sendable(param, f) /\ Sent(param, f) /\ first \in BOOLEAN
      BY <1>1, <3>1 DEF q
    <3> HIDE DEF piece, had, param, first
    <3>4. piece \in Seq(Words) /\ Len(piece) \in Nat /\ Len(piece) > 0
      BY <3>2, <3>3, PieceIs
    <3>5. Len(text) = Len(had) + Len(piece) /\ Len(had) \in Nat
      BY <3>2, <3>4
    <3>6. Len(text) # 0
      BY <3>4, <3>5
    <3> QED BY <3>6
  <2> QED BY <2>1, <2>2, <2>3
<1>14. SaysOn(m, r[q], Queried(text))
  <2>1. Queried(text) = IF j = 0 THEN <<>> ELSE <<"?">> \o g[j]
    BY <1>4, <1>12, <1>13 DEF Queried
  <2> QED BY <1>11, <2>1 DEF QueryUpto
<1> QED BY <1>13, <1>14 DEF Wording, text, pieces, present, at, q

-----------------------------------------------------------------------------
(* A walk over a template's own steps writes what its layout says.          *)

\* A walk, step by step, from one state of a request on.
WalkRun(r, first, k, table, steps, text, f, start, len) ==
  /\ r \in [0 .. k -> Passes(len, FALSE)] /\ r[0] = start
  /\ \A n \in 1 .. k : r[n] = WalkStep(r[n - 1], first + n - 1, table, steps, text, f)

\* A step of a walk that reads what there is: what it marks and copies, what it
\* fills, and where it goes on.
MarkOf(w, at, table, step) ==
  IF at = table.fields[1]
    THEN Len(w.out) + (IF step.len < table.fields[2] THEN step.len ELSE table.fields[2])
    ELSE w.fields
Copied(w, fields, out) == [w EXCEPT !.fields = fields, !.out = out]
FilledOf(t, step, name, f) == IF step.hole = NoHole THEN t ELSE WriteHole(t, step.hole, name, f)
GoesPast(p, step) ==
  [p EXCEPT !.cursor = @ + StepText(step),
            !.ends = [s \in DOMAIN @ |-> IF s \in step.ends THEN Len(p.out) ELSE @[s]]]

LEMMA CopiedIs ==
  ASSUME NEW len, NEW unread, NEW w \in Passes(len, unread), NEW fields \in Nat,
         NEW out \in Said(len), Len(w.out) <= Len(out)
  PROVE  /\ Copied(w, fields, out) \in Passes(len, unread)
         /\ Takes(w, [Copied(w, fields, out) EXCEPT !.at = @ + 1, !.fields = w.fields], out, 0)
         /\ Copied(w, fields, out).fields = fields
<1> DEFINE t == Copied(w, fields, out)
           next == Moved(w, out, w.ends, fields, w.at, w.cursor, w.section, w.optional, w.failed)
<1>0. w \in PassRecords(len, unread)
  BY DEF Passes
<1>1. t = next
  BY <1>0 DEF Copied, Moved, PassRecords
<1>2. w.ends \in EndsWithin(Len(out)) /\ w.at \in Nat /\ w.cursor \in Nat /\ w.section \in 0 .. Sections
      /\ w.optional \in Flags /\ w.failed \in Flags
  <2>1. Len(out) \in Nat
    BY DEF Said
  <2> QED BY <2>1, PassIs, EndsStay
<1>3. t \in Passes(len, unread)
  <2>1. next \in Passes(len, unread)
    BY <1>2, PassMoved
  <2> HIDE DEF t, next
  <2> QED BY <1>1, <2>1
<1>4. w.cursor + 0 = w.cursor
  BY <1>2
<1> QED BY <1>0, <1>3, <1>4 DEF Copied, PassRecords, Takes

\* What it reads, and what it then is.
ReadsStep(w, step, text, out) ==
  /\ {"out", "fields"} \subseteq DOMAIN w /\ ~ w.failed
  /\ step.len \in Nat /\ step.name \in Nat /\ w.cursor \in Nat /\ Len(text) \in Nat
  /\ w.cursor + StepText(step) <= Len(text)
  /\ w.out \o Run(text, w.cursor, step.len) = out
StepRead(w, at, table, step, text, out, f) ==
  GoesPast(FilledOf(Copied(w, MarkOf(w, at, table, step), out), step,
                    Run(text, w.cursor + step.len, step.name), f), step)

LEMMA WalkStepIs ==
  ASSUME NEW w, NEW table, NEW f, NEW steps, NEW text, NEW at, NEW out, ReadsStep(w, steps[at + 1], text, out)
  PROVE  WalkStep(w, at, table, steps, text, f) = StepRead(w, at, table, steps[at + 1], text, out, f)
<1> USE DEF ReadsStep
<1> DEFINE step == steps[at + 1]
           before == Position(w) + (IF step.len < table.fields[2] THEN step.len ELSE table.fields[2])
           marked == IF at = table.fields[1] THEN [w EXCEPT !.fields = before] ELSE w
           run == Run(text, w.cursor, step.len)
           copied == [marked EXCEPT !.out = @ \o run]
           name == Run(text, w.cursor + step.len, step.name)
           filled == IF step.hole = NoHole THEN copied ELSE WriteHole(copied, step.hole, name, f)
           read == IF step.hole = NoHole THEN step.len ELSE StepText(step)
           more == StepLen(step)
           walked == [filled EXCEPT !.cursor = @ + more,
                        !.ends = [s \in DOMAIN @ |-> IF s \in step.ends THEN Position(filled) ELSE @[s]]]
           t == Copied(w, MarkOf(w, at, table, step), out)
<1>1. WalkStep(w, at, table, steps, text, f) =
        IF w.failed THEN w
        ELSE IF w.cursor + read > Len(text) THEN [w EXCEPT !.failed = TRUE]
        ELSE walked
  BY Zenon DEF WalkStep
<1>2. ~ (w.cursor + read > Len(text))
  <2>1. read <= StepText(step) /\ read \in Nat /\ StepText(step) \in Nat
    BY DEF StepText
  <2> HIDE DEF read
  <2> QED BY <2>1
<1>3. copied = t
  <2>1. CASE at = table.fields[1]
    <3>1. before = MarkOf(w, at, table, step)
      BY <2>1, Zenon DEF MarkOf, Position
    <3>2. marked = [w EXCEPT !.fields = before]
      BY <2>1
    <3> HIDE DEF before, run
    <3>3. [w EXCEPT !.fields = before].out = w.out
      OBVIOUS
    <3>4. copied = [[w EXCEPT !.fields = before] EXCEPT !.out = w.out \o run]
      BY <3>2, <3>3
    <3>5. [[w EXCEPT !.fields = before] EXCEPT !.out = w.out \o run]
            = [w EXCEPT !.fields = before, !.out = w.out \o run]
      OBVIOUS
    <3>6. w.out \o run = out
      BY DEF run
    <3> HIDE DEF copied
    <3> QED BY <3>1, <3>4, <3>5, <3>6 DEF Copied
  <2>2. CASE at # table.fields[1]
    <3>1. MarkOf(w, at, table, step) = w.fields
      BY <2>2, Zenon DEF MarkOf
    <3>2. copied = [w EXCEPT !.out = w.out \o run]
      BY <2>2
    <3>3. w.out \o run = out
      OBVIOUS
    <3>4. copied = [w EXCEPT !.out = out]
      BY <3>2, <3>3
    <3> HIDE DEF copied
    <3>5. [w EXCEPT !.out = out] = [w EXCEPT !.fields = w.fields, !.out = out]
      OBVIOUS
    <3> QED BY <3>1, <3>4, <3>5 DEF Copied
  <2> QED BY <2>1, <2>2
<1>4. filled = FilledOf(copied, step, name, f)
  BY Zenon DEF FilledOf
<1>5. walked = GoesPast(filled, step)
  BY Zenon DEF GoesPast, StepLen, Position
<1> HIDE DEF copied, t, filled, walked, name, read
<1> QED BY <1>1, <1>2, <1>3, <1>4, <1>5 DEF t, name, StepRead

\* What a walk has written where the builder has closed a step is what the
\* layout says there, and the fields are marked where the layout has them.
MarkedIn(u, table) == Len(u[table.fields[1]].out) + table.fields[2]
Along(b, u, m, table, text, len) ==
  /\ u[Closed(b)] \in Passes(len, FALSE) /\ m \in Passes(len, FALSE)
  /\ Follows(b, u[Closed(b)], m, table, text)
  /\ m.at = 1 => m.fields = MarkedIn(u, table)
Walking(u, e, table, steps, text, f, len) ==
  /\ Finished(e, table, steps, text) /\ FillOf(f)
  /\ WalkRun(u, 0, Len(steps), table, steps, text, f, NewState(table, len), len)

\* The walk's next step, which the builder has closed: it copies the run.
CopiesAs(t, x, m) ==
  /\ t.out = m.out /\ Same(t, x) /\ t.params = x.params /\ t.failed = x.failed /\ t.cursor = x.cursor
WalksTo(x, y, m, step, name, f, len) ==
  /\ y \in Passes(len, FALSE)
  /\ \E t \in Passes(len, FALSE) : CopiesAs(t, x, m) /\ y = GoesPast(FilledOf(t, step, name, f), step)

LEMMA AlongStep ==
  ASSUME NEW u, NEW e, NEW table, NEW steps, NEW text, NEW f, NEW len,
         Walking(u, e, table, steps, text, f, len),
         NEW b, Neat(b), NEW c, NEW hole, NEW name \in Nat, NEW ends, Closes(b, c, hole, name, ends), Grows(c, e),
         Len(c.text) = Len(b.text) + name, NEW m, Along(b, u, m, table, text, len)
  PROVE  WalksTo(u[Closed(b)], u[Closed(c)], m,
                 [len |-> Pending(b), hole |-> hole, name |-> name, ends |-> ends],
                 Run(text, Len(b.text), name), f, len)
<1> DEFINE k == Closed(b)
           x == u[k]
           y == u[k + 1]
           step == [len |-> Pending(b), hole |-> hole, name |-> name, ends |-> ends]
           run == Run(text, x.cursor, Pending(b))
           fields == MarkOf(x, k, table, step)
           t == Copied(x, fields, m.out)
<1>0. /\ b \in Builders /\ c \in Builders /\ e \in Builders /\ Grows(b, c) /\ Closed(c) = k + 1
      /\ Finished(e, table, steps, text) /\ FillOf(f)
  BY DEF Neat, Closes, Finished, Walking
<1>1. x \in Passes(len, FALSE) /\ m \in Passes(len, FALSE) /\ Follows(b, x, m, table, text)
  BY DEF Along
<1>2. k \in Nat /\ k < Len(steps) /\ steps[k + 1] = step /\ Pending(b) \in Nat /\ Grows(b, e)
      /\ steps \in Seq(StepsKept) /\ Len(steps) \in Nat
  <2>1. k \in Nat /\ k < Len(steps) /\ steps[k + 1] = step /\ Pending(b) \in Nat
    BY <1>0, StepSoFar
  <2> HIDE DEF k, step
  <2> QED BY <1>0, <2>1, GrowsOn, FinishedIs
<1>3. y = WalkStep(x, k, table, steps, text, f) /\ y \in Passes(len, FALSE)
  <2>1. WalkRun(u, 0, Len(steps), table, steps, text, f, NewState(table, len), len)
    BY DEF Walking
  <2> HIDE DEF k
  <2>2. k + 1 \in 1 .. Len(steps) /\ (k + 1) - 1 = k /\ 0 + (k + 1) - 1 = k /\ k + 1 \in 0 .. Len(steps)
    BY <1>2
  <2>3. u[k + 1] = WalkStep(u[(k + 1) - 1], 0 + (k + 1) - 1, table, steps, text, f)
    BY <2>1, <2>2 DEF WalkRun
  <2>4. u[k + 1] \in Passes(len, FALSE)
    BY <2>1, <2>2 DEF WalkRun
  <2> QED BY <2>2, <2>3, <2>4
<1>4. Copies(x, m.out, text, Pending(b), len)
  <2> HIDE DEF x
  <2> QED BY <1>0, <1>1, <1>2, FollowsCopy
<1>5. x.out \o run = m.out /\ run \in Said(len) /\ x.cursor \in Nat
  BY <1>4 DEF Copies
<1>6. x.cursor + Pending(b) = Len(b.text) /\ ~ x.failed
  BY <1>1 DEF Follows
<1>7. Len(c.text) <= Len(text) /\ Len(text) \in Nat
  BY <1>0, TextSoFar, FinishedIs
<1>8. x.cursor + StepText(step) <= Len(text)
  <2>1. StepText(step) = Pending(b) + name
    BY DEF StepText
  <2> HIDE DEF x, step
  <2> QED BY <1>2, <1>5, <1>6, <1>7, <2>1
<1>9. m.out \in Said(len) /\ Len(x.out) <= Len(m.out) /\ Len(x.out) \in Nat
  <2>1. x.out \in Said(len)
    BY <1>1, PassIs
  <2> DEFINE out == x.out
  <2> HIDE DEF out, run
  <2> QED BY <1>5, <2>1, MoreIs DEF out
<1>10. fields \in Nat
  <2>1. x.fields \in Nat
    BY <1>1, PassIs
  <2>2. table.fields[2] \in Nat
    BY <1>0, FinishedIs
  <2>3. step.len \in Nat
    BY <1>2
  <2> HIDE DEF x, step
  <2> QED BY <1>9, <2>1, <2>2, <2>3 DEF MarkOf
<1>11. t \in Passes(len, FALSE) /\ CopiesAs(t, x, m)
  <2> DEFINE out == m.out
  <2>1. out \in Said(len) /\ Len(x.out) <= Len(out)
    BY <1>9
  <2> HIDE DEF x, fields, out
  <2>2. t = Copied(x, fields, out)
    BY DEF out
  <2> HIDE DEF t
  <2>3. t \in Passes(len, FALSE)
    BY <1>1, <1>10, <2>1, <2>2, CopiedIs
  <2>4. x \in PassRecords(len, FALSE)
    BY <1>1 DEF Passes
  <2>5. CopiesAs(t, x, m)
    BY <2>2, <2>4 DEF Copied, PassRecords, CopiesAs, Same, out
  <2> QED BY <2>3, <2>5
<1>12. y = GoesPast(FilledOf(t, step, Run(text, Len(b.text), name), f), step)
  <2>1. {"out", "fields"} \subseteq DOMAIN x
    BY <1>1 DEF Passes, PassRecords
  <2>2. steps[k + 1].len = Pending(b) /\ steps[k + 1].name = name
    BY <1>2
  <2> DEFINE out == m.out
  <2>3. x.out \o Run(text, x.cursor, steps[k + 1].len) = out
    BY <1>5, <2>2
  <2>4. x.cursor + StepText(steps[k + 1]) <= Len(text)
    BY <1>2, <1>8
  <2>5. steps[k + 1].len \in Nat /\ steps[k + 1].name \in Nat
    BY <1>2, <2>2
  <2>6. ReadsStep(x, steps[k + 1], text, out)
    BY <1>5, <1>6, <1>7, <2>1, <2>3, <2>4, <2>5 DEF ReadsStep
  <2> HIDE DEF k, x, out, step
  <2>7. WalkStep(x, k, table, steps, text, f) = StepRead(x, k, table, steps[k + 1], text, out, f)
    BY <2>6, WalkStepIs
  <2> QED BY <1>2, <1>3, <1>6, <2>2, <2>7 DEF out, StepRead
<1> HIDE DEF t, x, y, step
<1>13. WalksTo(x, y, m, step, Run(text, Len(b.text), name), f, len)
  BY <1>3, <1>11, <1>12 DEF WalksTo
<1> QED BY <1>0, <1>13 DEF x, y, step

LEMMA AlongIs ==
  ASSUME NEW b, NEW u, NEW m, NEW table, NEW text, NEW len, Along(b, u, m, table, text, len)
  PROVE  /\ u[Closed(b)] \in Passes(len, FALSE) /\ m \in Passes(len, FALSE)
         /\ Follows(b, u[Closed(b)], m, table, text)
         /\ (m.at = 1 => m.fields = MarkedIn(u, table))
         /\ ~ m.failed /\ ~ u[Closed(b)].failed /\ m.section = b.section /\ m.optional = b.optional
         /\ u[Closed(b)].cursor \in Nat
<1> DEFINE x == u[Closed(b)]
<1>1. x \in Passes(len, FALSE) /\ Follows(b, x, m, table, text)
  BY DEF Along
<1> HIDE DEF x
<1>2. x.cursor \in Nat
  BY <1>1, PassIs
<1> QED BY <1>1, <1>2 DEF Along, Follows, x

\* Where the builder closes nothing, the walk is where it was.
LEMMA AlongStays ==
  ASSUME NEW b, NEW c, NEW u, NEW m, NEW n, NEW table, NEW text, NEW len,
         Along(b, u, m, table, text, len), Closed(c) = Closed(b), n \in Passes(len, FALSE),
         n.at = m.at, n.fields = m.fields, Follows(c, u[Closed(b)], n, table, text)
  PROVE  Along(c, u, n, table, text, len)
BY DEF Along

LEMMA AlongText ==
  ASSUME NEW u, NEW e, NEW table, NEW steps, NEW text, NEW f, NEW len,
         Walking(u, e, table, steps, text, f, len),
         NEW b, Neat(b), NEW more \in Wording, Grows(BuildText(b, more), e),
         NEW m, Along(b, u, m, table, text, len)
  PROVE  Along(BuildText(b, more), u, SaidText(m, more), table, text, len)
<1> DEFINE c == BuildText(b, more)
           n == SaidText(m, more)
           x == u[Closed(b)]
<1>1. x \in Passes(len, FALSE) /\ m \in Passes(len, FALSE) /\ Follows(b, x, m, table, text)
  BY AlongIs
<1>2. Finished(e, table, steps, text)
  BY DEF Walking
<1> HIDE DEF x
<1>3. Follows(c, x, n, table, text)
  BY <1>1, <1>2, FollowsText
<1>4. n \in Passes(len, FALSE) /\ n.at = m.at /\ n.fields = m.fields
  <2>1. n \in Passes(len, FALSE) /\ StaysPut(n, m)
    BY <1>1, SaidTextIs
  <2> HIDE DEF n
  <2> QED BY <2>1 DEF StaysPut
<1>5. Closed(c) = Closed(b)
  BY TextGrows
<1> HIDE DEF c, n
<1> QED BY <1>3, <1>4, <1>5, AlongStays DEF x, c, n

LEMMA AlongCount ==
  ASSUME NEW b \in Builders, ~ b.optional,
         NEW u, NEW m, NEW table, NEW text, NEW len, Along(b, u, m, table, text, len)
  PROVE  Along([b EXCEPT !.params = @ + 1], u, [m EXCEPT !.params = @ + 1], table, text, len)
<1> DEFINE c == [b EXCEPT !.params = @ + 1]
           n == [m EXCEPT !.params = @ + 1]
           x == u[Closed(b)]
<1>0. x \in Passes(len, FALSE) /\ m \in Passes(len, FALSE) /\ Follows(b, x, m, table, text)
  BY AlongIs
<1> HIDE DEF x
<1>1. b \in BuilderRecords /\ m \in PassRecords(len, FALSE) /\ Offsets(m)
  BY <1>0, BuilderIs DEF Passes
<1>2. /\ c.text = b.text /\ c.steps = b.steps /\ c.open = b.open /\ c.section = b.section
      /\ c.params = b.params + 1 /\ c.optional = b.optional
  BY <1>1 DEF BuilderRecords
<1>3. /\ n.out = m.out /\ n.ends = m.ends /\ n.params = m.params + 1 /\ n.signature = m.signature
      /\ n.bodyHash = m.bodyHash /\ n.bodyChecksum = m.bodyChecksum
      /\ n.at = m.at /\ n.section = m.section
      /\ n.optional = m.optional /\ n.failed = m.failed /\ n.fields = m.fields
  BY <1>1 DEF PassRecords
<1>4. n \in Passes(len, FALSE)
  <2> DEFINE params == m.params + 1
  <2>3. params \in Nat /\ n = [m EXCEPT !.params = params]
    BY <1>1 DEF PassRecords
  <2> HIDE DEF params, n
  <2>1. n \in PassRecords(len, FALSE)
    BY <1>1, <2>3 DEF PassRecords
  <2> HIDE DEF n
  <2>2. Offsets(n)
    BY <1>1, <1>3 DEF Offsets
  <2> QED BY <2>1, <2>2 DEF Passes
<1> HIDE DEF c, n
<1>5. Closed(c) = Closed(b) /\ Pending(c) = Pending(b)
  BY <1>2, Zenon DEF Closed, Pending
<1>6. Follows(c, x, n, table, text)
  BY <1>0, <1>2, <1>3, <1>5 DEF Follows, Same
<1>7. Along(c, u, n, table, text, len)
  BY <1>3, <1>4, <1>5, <1>6, AlongStays DEF x
<1> QED BY <1>7 DEF c, n

LEMMA AlongTurn ==
  ASSUME NEW u, NEW e, NEW table, NEW steps, NEW text, NEW f, NEW len,
         Walking(u, e, table, steps, text, f, len),
         NEW b \in Builders, Grows([b EXCEPT !.optional = TRUE], e),
         NEW m, Along(b, u, m, table, text, len)
  PROVE  Along([b EXCEPT !.optional = TRUE], u, [m EXCEPT !.optional = TRUE], table, text, len)
<1> DEFINE c == [b EXCEPT !.optional = TRUE]
           n == [m EXCEPT !.optional = TRUE]
           x == u[Closed(b)]
<1>0. x \in Passes(len, FALSE) /\ m \in Passes(len, FALSE) /\ Follows(b, x, m, table, text)
  BY AlongIs
<1> HIDE DEF x
<1>1. b \in BuilderRecords /\ m \in PassRecords(len, FALSE)
  BY <1>0, BuilderIs DEF Passes
<1>2. /\ c.text = b.text /\ c.steps = b.steps /\ c.open = b.open /\ c.section = b.section
      /\ c.params = b.params /\ c.optional = TRUE
  BY <1>1 DEF BuilderRecords
<1>3. /\ n.out = m.out /\ n.ends = m.ends /\ n.params = m.params /\ n.signature = m.signature
      /\ n.bodyHash = m.bodyHash /\ n.bodyChecksum = m.bodyChecksum
      /\ n.at = m.at /\ n.section = m.section
      /\ n.optional = TRUE /\ n.failed = m.failed /\ n.fields = m.fields
  BY <1>1 DEF PassRecords
<1>5. n \in Passes(len, FALSE)
  <2>1. 0 \in Nat
    OBVIOUS
  <2> QED BY <1>0, <2>1, PassTurned
<1> HIDE DEF c, n
<1>6. Closed(c) = Closed(b) /\ Pending(c) = Pending(b)
  BY <1>2, Zenon DEF Closed, Pending
<1>7. x.params = n.params
  <2>1. CASE b.optional
    BY <1>0, <1>3, <2>1 DEF Follows
  <2>2. CASE ~ b.optional
    <3>1. m.params = b.params /\ x.params = table.params
      BY <1>0, <2>2 DEF Follows
    <3>2. e.params = c.params
      BY <1>2 DEF Grows, ParamsStay, c
    <3>3. table.params = e.params
      BY DEF Walking, Finished
    <3> QED BY <1>2, <1>3, <3>1, <3>2, <3>3
  <2> QED BY <2>1, <2>2
<1>8. Follows(c, x, n, table, text)
  BY <1>0, <1>2, <1>3, <1>6, <1>7 DEF Follows, Same
<1>9. Along(c, u, n, table, text, len)
  BY <1>3, <1>5, <1>6, <1>8, AlongStays DEF x
<1> QED BY <1>9 DEF c, n

\* A step that the walk goes past, field by field.
WentPast(p, y, step) ==
  /\ y.out = p.out /\ y.params = p.params /\ y.signature = p.signature
  /\ y.bodyHash = p.bodyHash /\ y.bodyChecksum = p.bodyChecksum
  /\ y.cursor = p.cursor + StepText(step) /\ y.failed = p.failed /\ y.fields = p.fields
  /\ y.ends = [s \in DOMAIN p.ends |-> IF s \in step.ends THEN Len(p.out) ELSE p.ends[s]]

LEMMA PastIs ==
  ASSUME NEW len, NEW unread, NEW p \in Passes(len, unread), NEW step
  PROVE  WentPast(p, GoesPast(p, step), step)
<1>1. p \in PassRecords(len, unread)
  BY DEF Passes
<1> QED BY <1>1 DEF PassRecords, GoesPast, WentPast

\* A hole that the walk fills as its layout does.
Bare(e, b, c, hole, name) ==
  /\ Neat(b) /\ Grows(c, e) /\ Else(b, c) /\ name \in Nat /\ Len(c.text) = Len(b.text) + name
  /\ Closes(b, c, hole, name, {}) /\ hole # NoHole

LEMMA AlongHole ==
  ASSUME NEW u, NEW e, NEW table, NEW steps, NEW text, NEW f, NEW len,
         Walking(u, e, table, steps, text, f, len),
         NEW b, NEW c, NEW hole, NEW name, Bare(e, b, c, hole, name),
         NEW m, Along(b, u, m, table, text, len),
         NEW said, said = Run(text, Len(b.text), name), said \in Said(len), Fills(f, b, hole)
  PROVE  Along(c, u, WriteHole(m, hole, said, f), table, text, len)
<1>a. /\ Neat(b) /\ Grows(c, e) /\ Else(b, c) /\ name \in Nat /\ Len(c.text) = Len(b.text) + name
      /\ FillOf(f) /\ CanFill(hole, f) /\ (b.optional \/ ~ Counted(hole))
      /\ Finished(e, table, steps, text) /\ hole # NoHole /\ Closes(b, c, hole, name, {})
  BY DEF Bare, Fills, Walking
<1> DEFINE ends == {}
           step == [len |-> Pending(b), hole |-> hole, name |-> name, ends |-> ends]
           x == u[Closed(b)]
           y == u[Closed(c)]
           n == WriteHole(m, hole, said, f)
<1>0. b \in Builders /\ c \in Builders /\ x \in Passes(len, FALSE) /\ m \in Passes(len, FALSE)
      /\ Follows(b, x, m, table, text) /\ x.cursor \in Nat
      /\ (m.at = 1 => m.fields = MarkedIn(u, table)) /\ Pending(b) \in Nat
  <2>1. b \in Builders /\ c \in Builders
    BY <1>a DEF Neat, Closes
  <2>2. Pending(b) \in Nat
    BY <2>1, BuilderIs
  <2> HIDE DEF x
  <2>3. x \in Passes(len, FALSE) /\ m \in Passes(len, FALSE) /\ Follows(b, x, m, table, text)
        /\ (m.at = 1 => m.fields = MarkedIn(u, table))
    BY DEF Along, x
  <2> QED BY <2>1, <2>2, <2>3, PassIs
<1>1. WalksTo(x, y, m, step, said, f, len)
  <2>1. Closes(b, c, hole, name, ends)
    BY <1>a
  <2> HIDE DEF ends
  <2>2. WalksTo(u[Closed(b)], u[Closed(c)], m,
                [len |-> Pending(b), hole |-> hole, name |-> name, ends |-> ends],
                Run(text, Len(b.text), name), f, len)
    BY <1>a, <2>1, AlongStep
  <2> QED BY <2>2
<1>2. step.hole = hole /\ step.ends = {} /\ StepText(step) = Pending(b) + name
  BY DEF StepText
<1> HIDE DEF ends, step, x, y
<1>3. PICK t \in Passes(len, FALSE) : CopiesAs(t, x, m) /\ y = GoesPast(FilledOf(t, step, said, f), step)
  BY <1>1 DEF WalksTo
<1> DEFINE p == WriteHole(t, hole, said, f)
<1>4. y = GoesPast(p, step) /\ y \in Passes(len, FALSE)
  BY <1>1, <1>2, <1>3, <1>a DEF WalksTo, FilledOf
<1>5. /\ t.out = m.out /\ Same(t, m) /\ (t.params = m.params \/ ~ Counted(hole))
      /\ t.params = x.params /\ t.failed = x.failed /\ t.cursor = x.cursor
  BY <1>0, <1>3, <1>a DEF Follows, Same, CopiesAs
<1>6. p \in Passes(len, FALSE) /\ n \in Passes(len, FALSE) /\ BothWrite(t, m, p, n, hole)
  BY <1>0, <1>5, <1>a, WroteAlike
<1> HIDE DEF p, n
<1>7. /\ y.out = p.out /\ y.params = p.params /\ y.signature = p.signature
      /\ y.bodyHash = p.bodyHash /\ y.bodyChecksum = p.bodyChecksum
      /\ y.cursor = p.cursor + StepText(step) /\ y.failed = p.failed
      /\ y.ends = [s \in DOMAIN p.ends |-> IF s \in step.ends THEN Len(p.out) ELSE p.ends[s]]
  <2>1. WentPast(p, y, step)
    BY <1>4, <1>6, PastIs
  <2> QED BY <2>1, Zenon DEF WentPast
<1>8. y.ends = p.ends
  <2>1. p.ends \in EndsWithin(Len(p.out))
    BY <1>6, PassIs
  <2>2. p.ends = [s \in DOMAIN p.ends |-> p.ends[s]]
    BY <2>1 DEF EndsWithin
  <2>3. [s \in DOMAIN p.ends |-> IF s \in step.ends THEN Len(p.out) ELSE p.ends[s]]
          = [s \in DOMAIN p.ends |-> p.ends[s]]
    BY <1>2
  <2> QED BY <1>7, <2>2, <2>3
<1>9. /\ y.out = n.out /\ Same(y, n) /\ ~ y.failed /\ ~ n.failed
      /\ n.at = m.at /\ n.fields = m.fields
      /\ n.optional = c.optional /\ n.section = c.section
  BY <1>0, <1>5, <1>6, <1>7, <1>8, <1>a DEF BothWrite, Same, StaysPut, Follows, Else
<1>10. y.cursor = x.cursor + Pending(b) + name
  BY <1>0, <1>2, <1>5, <1>6, <1>7, <1>a DEF BothWrite, StaysPut
<1>11. /\ c.optional => y.params = n.params
       /\ ~ c.optional => n.params = c.params /\ y.params = table.params
  BY <1>0, <1>5, <1>6, <1>7, <1>a DEF Follows, Else, BothWrite
<1>12. Follows(c, y, n, table, text)
  <2> DEFINE none == {}
  <2>1. Closes(b, c, hole, name, none)
    BY <1>a
  <2> HIDE DEF none
  <2> QED BY <1>0, <1>4, <1>6, <1>9, <1>10, <1>11, <1>a, <2>1, FollowsClose
<1>13. Along(c, u, n, table, text, len)
  <2>1. n.at = 1 => n.fields = MarkedIn(u, table)
    BY <1>0, <1>9
  <2> QED BY <1>4, <1>6, <1>12, <2>1 DEF Along, y
<1> QED BY <1>13 DEF n

LEMMA AlongEnd ==
  ASSUME NEW u, NEW e, NEW table, NEW steps, NEW text, NEW f, NEW len,
         Walking(u, e, table, steps, text, f, len),
         NEW b, Neat(b), Grows(EndOf(b), e), NEW m, Along(b, u, m, table, text, len)
  PROVE  Along(EndOf(b), u, SaidEnd(m), table, text, len)
<1> DEFINE c == EndOf(b)
           s == b.section
           ends == {s}
           step == [len |-> Pending(b), hole |-> NoHole, name |-> 0, ends |-> ends]
           x == u[Closed(b)]
           y == u[Closed(c)]
           n == SaidEnd(m)
           said == Run(text, Len(b.text), 0)
<1>0. b \in Builders /\ x \in Passes(len, FALSE) /\ m \in Passes(len, FALSE)
      /\ Follows(b, x, m, table, text) /\ x.cursor \in Nat
      /\ (m.at = 1 => m.fields = MarkedIn(u, table)) /\ Pending(b) \in Nat /\ Len(b.text) \in Nat
      /\ s \in 0 .. Sections - 1 /\ Finished(e, table, steps, text)
  <2>1. b \in Builders /\ Finished(e, table, steps, text)
    BY DEF Neat, Walking
  <2>2. Pending(b) \in Nat /\ Len(b.text) \in Nat /\ s \in 0 .. Sections - 1
    BY <2>1, BuilderIs
  <2> HIDE DEF x
  <2>3. x \in Passes(len, FALSE) /\ m \in Passes(len, FALSE) /\ Follows(b, x, m, table, text)
        /\ (m.at = 1 => m.fields = MarkedIn(u, table))
    BY DEF Along, x
  <2> QED BY <2>1, <2>2, <2>3, PassIs
<1>1. /\ Closes(b, c, NoHole, 0, {s}) /\ c.text = b.text /\ c.section = Later(s)
      /\ c.params = b.params /\ c.optional = b.optional /\ Grows(c, e)
  BY EndCloses
<1> HIDE DEF c
<1>2. WalksTo(x, y, m, step, said, f, len)
  <2> DEFINE hole == NoHole
             name == 0
  <2>1. Closes(b, c, hole, name, ends) /\ name \in Nat /\ Len(c.text) = Len(b.text) + name
    BY <1>0, <1>1
  <2>2. step = [len |-> Pending(b), hole |-> hole, name |-> name, ends |-> ends]
        /\ said = Run(text, Len(b.text), name)
    OBVIOUS
  <2> HIDE DEF ends, hole, name, x, y, step, said
  <2>3. WalksTo(u[Closed(b)], u[Closed(c)], m,
                [len |-> Pending(b), hole |-> hole, name |-> name, ends |-> ends],
                Run(text, Len(b.text), name), f, len)
    BY <1>1, <2>1, AlongStep
  <2> QED BY <2>2, <2>3 DEF x, y
<1>3. step.hole = NoHole /\ step.ends = {s} /\ StepText(step) = Pending(b)
  BY <1>0 DEF StepText
<1> HIDE DEF ends, step, x, y, said
<1>4. PICK t \in Passes(len, FALSE) : CopiesAs(t, x, m) /\ y = GoesPast(FilledOf(t, step, said, f), step)
  BY <1>2 DEF WalksTo
<1>5. y = GoesPast(t, step) /\ y \in Passes(len, FALSE)
  BY <1>2, <1>3, <1>4 DEF WalksTo, FilledOf
<1>6. /\ y.out = t.out /\ y.params = t.params /\ y.signature = t.signature
      /\ y.bodyHash = t.bodyHash /\ y.bodyChecksum = t.bodyChecksum
      /\ y.cursor = t.cursor + StepText(step) /\ y.failed = t.failed
      /\ y.ends = [i \in DOMAIN t.ends |-> IF i \in step.ends THEN Len(t.out) ELSE t.ends[i]]
  <2>1. WentPast(t, y, step)
    BY <1>5, PastIs
  <2> QED BY <2>1, Zenon DEF WentPast
<1>7. n \in Passes(len, FALSE) /\ EndedAs(m, n) /\ m.section = s
  <2>1. m.section = s
    BY <1>0, AlongIs
  <2>2. m.section \in 0 .. Sections - 1
    BY <1>0, <2>1
  <2> QED BY <1>0, <2>1, <2>2, SaidEndIs
<1> HIDE DEF n
<1>8. /\ t.out = m.out /\ t.ends = m.ends /\ t.signature = m.signature
      /\ t.bodyHash = m.bodyHash /\ t.bodyChecksum = m.bodyChecksum
      /\ t.params = x.params /\ t.failed = x.failed /\ t.cursor = x.cursor
  BY <1>0, <1>4 DEF Follows, Same, CopiesAs
<1>9. y.ends = n.ends
  <2> DEFINE was == m.ends
             out == Len(m.out)
  <2>1. was \in EndsWithin(out)
    BY <1>0, PassIs
  <2>2. y.ends = [i \in DOMAIN was |-> IF i \in {s} THEN out ELSE was[i]]
    BY <1>3, <1>6, <1>8
  <2>3. n.ends = [was EXCEPT ![s] = out]
    BY <1>7 DEF EndedAs
  <2> HIDE DEF was, out
  <2>4. [was EXCEPT ![s] = out] = [i \in DOMAIN was |-> IF i \in {s} THEN out ELSE was[i]]
    BY <2>1 DEF EndsWithin
  <2> QED BY <2>2, <2>3, <2>4
<1>10. /\ y.out = n.out /\ Same(y, n) /\ ~ y.failed /\ ~ n.failed
       /\ n.at = m.at /\ n.fields = m.fields
       /\ n.optional = c.optional /\ n.section = c.section
  BY <1>0, <1>1, <1>6, <1>7, <1>8, <1>9 DEF EndedAs, Same, Follows
<1>11. y.cursor = x.cursor + Pending(b)
  BY <1>3, <1>6, <1>8
<1>12. /\ c.optional => y.params = n.params
       /\ ~ c.optional => n.params = c.params /\ y.params = table.params
  BY <1>0, <1>1, <1>6, <1>7, <1>8 DEF Follows, EndedAs
<1>13. Follows(c, y, n, table, text)
  <2> DEFINE hole == NoHole
             name == 0
             none == {s}
  <2>1. Closes(b, c, hole, name, none) /\ name \in Nat /\ Len(c.text) = Len(b.text) + name
        /\ y.cursor = x.cursor + Pending(b) + name
    BY <1>0, <1>1, <1>11
  <2> HIDE DEF none, hole, name
  <2> QED BY <1>0, <1>1, <1>5, <1>7, <1>10, <1>12, <2>1, FollowsClose
<1>14. Along(c, u, n, table, text, len)
  <2>1. n.at = 1 => n.fields = MarkedIn(u, table)
    BY <1>0, <1>10
  <2> QED BY <1>5, <1>7, <1>13, <2>1 DEF Along, y
<1> QED BY <1>14 DEF n, c

LEMMA AlongHoleOp ==
  ASSUME NEW u, NEW e, NEW table, NEW steps, NEW text, NEW f, NEW len,
         Walking(u, e, table, steps, text, f, len),
         NEW b, Neat(b), NEW hole \in Words, hole # NoHole, Grows(BuildHole(b, hole), e),
         NEW m, Along(b, u, m, table, text, len), Fills(f, b, hole)
  PROVE  Along(BuildHole(b, hole), u, WriteHole(m, hole, <<>>, f), table, text, len)
<1> DEFINE c == BuildHole(b, hole)
           name == 0
           said == <<>>
<1>1. Closes(b, c, hole, 0, {}) /\ c.text = b.text /\ Else(b, c) /\ Len(b.text) \in Nat
  BY HoleCloses, BuilderIs DEF Neat
<1>2. said \in Said(len)
  BY WordingIs, SaidIs
<1>3. said = Run(text, Len(b.text), name)
  <2> DEFINE k == Len(b.text)
  <2>1. text \in Seq(Words) /\ k \in Nat
    BY <1>1, FinishedIs DEF Walking
  <2> HIDE DEF k
  <2>2. k + 1 > k + 0
    BY <2>1
  <2>3. SubSeq(text, k + 1, k + 0) = <<>>
    BY <2>1, <2>2
  <2> QED BY <2>3 DEF Run, k
<1> HIDE DEF c
<1>4. Bare(e, b, c, hole, name)
  BY <1>1 DEF Bare, c
<1> HIDE DEF name, said
<1>5. Along(c, u, WriteHole(m, hole, said, f), table, text, len)
  BY <1>2, <1>3, <1>4, AlongHole
<1> QED BY <1>5 DEF c, said

\* The place of the fields, which the table gives by a step and its run.
LEMMA AlongFields ==
  ASSUME NEW u, NEW e, NEW table, NEW steps, NEW text, NEW f, NEW len,
         Walking(u, e, table, steps, text, f, len),
         NEW b, Neat(b), Grows(b, e), table.fields = <<Closed(b), Pending(b)>>,
         NEW m, Along(b, u, m, table, text, len)
  PROVE  Along(BuildFields(b), u, SaidFields(m), table, text, len)
<1> DEFINE c == BuildFields(b)
           n == SaidFields(m)
           x == u[Closed(b)]
           fields == MarkedIn(u, table)
<1>0. /\ x \in Passes(len, FALSE) /\ m \in Passes(len, FALSE) /\ Follows(b, x, m, table, text)
      /\ b \in Builders /\ Pending(b) \in Nat /\ Finished(e, table, steps, text)
  BY BuilderIs DEF Along, Neat, Walking
<1>1. /\ c.text = b.text /\ c.steps = b.steps /\ c.open = b.open /\ c.section = b.section
      /\ c.params = b.params /\ c.optional = b.optional
  BY <1>0 DEF BuildFields, Builders, BuilderRecords
<1>2. Closed(c) = Closed(b) /\ Pending(c) = Pending(b)
  BY <1>1, Zenon DEF Closed, Pending
<1>3. x \in PassRecords(len, FALSE) /\ m \in PassRecords(len, FALSE)
  BY <1>0 DEF Passes
<1>4. fields = Len(x.out) + Pending(b)
  BY DEF MarkedIn
<1> HIDE DEF x, fields
<1>5. fields = Position(m) /\ fields \in Nat
  <2>1. Copies(x, m.out, text, Pending(b), len)
    BY <1>0, FollowsCopy
  <2> DEFINE out == x.out
             copied == Run(text, x.cursor, Pending(b))
             whole == m.out
  <2>2. out \in Said(len) /\ copied \in Said(len) /\ out \o copied = whole
    BY <1>0, <2>1, PassIs DEF Copies
  <2>3. Len(copied) = Pending(b)
    <3> DEFINE cursor == x.cursor
               more == Pending(b)
    <3>1. cursor \in Nat /\ more \in Nat /\ cursor + more <= Len(text) /\ text \in Seq(Words)
      BY <1>0, <2>1, FinishedIs DEF Copies
    <3> HIDE DEF cursor, more
    <3>2. cursor + 1 \in 1 .. Len(text) + 1 /\ cursor + more \in (cursor + 1) - 1 .. Len(text)
      BY <3>1
    <3>3. Len(Run(text, cursor, more)) = more
      BY <3>1, <3>2, SubSeqIs DEF Run
    <3> QED BY <3>3 DEF cursor, more
  <2> HIDE DEF out, copied, whole
  <2>4. Len(whole) = Len(out) + Len(copied) /\ Len(out) \in Nat
    BY <2>2, MoreIs
  <2>5. fields = Len(out) + Pending(b) /\ Position(m) = Len(whole)
    BY <1>4 DEF Position, out, whole
  <2> QED BY <1>0, <2>3, <2>4, <2>5
<1>6. n \in Passes(len, FALSE)
  <2> DEFINE next == Moved(m, m.out, m.ends, fields, 1, m.cursor, m.section, m.optional, m.failed)
  <2>2. n = next
    BY <1>3, <1>5 DEF SaidFields, Moved, PassRecords
  <2>3. m.out \in Said(len) /\ Len(m.out) \in Nat
    BY <1>0, PassIs
  <2>5. Len(m.out) <= Len(m.out) /\ 1 \in Nat
    BY <2>3
  <2>4. next \in Passes(len, FALSE)
    BY <1>0, <1>5, <2>3, <2>5, PassIs, PassMoved
  <2> QED BY <2>2, <2>4
<1>7. /\ n.out = m.out /\ n.ends = m.ends /\ n.params = m.params /\ n.signature = m.signature
      /\ n.bodyHash = m.bodyHash /\ n.bodyChecksum = m.bodyChecksum
      /\ n.section = m.section
      /\ n.optional = m.optional /\ n.failed = m.failed /\ n.fields = fields
  BY <1>3, <1>5 DEF PassRecords, SaidFields
<1> HIDE DEF n, c
<1>8. Follows(c, x, n, table, text)
  BY <1>0, <1>1, <1>2, <1>7 DEF Follows, Same
<1>9. Along(c, u, n, table, text, len)
  BY <1>0, <1>2, <1>6, <1>7, <1>8 DEF Along, x, fields
<1> QED BY <1>9 DEF c, n

LEMMA AlongSeparator ==
  ASSUME NEW u, NEW e, NEW table, NEW steps, NEW text, NEW f, NEW len,
         Walking(u, e, table, steps, text, f, len),
         NEW b, Neat(b), Grows(BuildSeparator(b), e),
         NEW m, Along(b, u, m, table, text, len)
  PROVE  Along(BuildSeparator(b), u, SaidSeparator(m), table, text, len)
<1>0. /\ m \in Passes(len, FALSE) /\ Follows(b, u[Closed(b)], m, table, text)
      /\ b \in Builders /\ e \in Builders /\ FillOf(f)
  BY DEF Along, Neat, Walking, Finished
<1>1. CASE b.optional
  <2>1. BuildSeparator(b) = BuildHole(b, "Separator")
    BY <1>1 DEF BuildSeparator
  <2>2. "Separator" \in Words /\ Fills(f, b, "Separator") /\ "Separator" # NoHole
    BY <1>0, <1>1 DEF Words, Fills, CanFill, NoHole
  <2>3. WriteHole(m, "Separator", <<>>, f) = SaidSeparator(m)
    BY <1>0, SeparatorIs
  <2> DEFINE hole == "Separator"
  <2>5. hole \in Words /\ Fills(f, b, hole) /\ Grows(BuildHole(b, hole), e) /\ hole # NoHole
    BY <2>1, <2>2
  <2> HIDE DEF hole
  <2>6. Along(BuildHole(b, hole), u, WriteHole(m, hole, <<>>, f), table, text, len)
    BY <2>5, AlongHoleOp
  <2> QED BY <2>1, <2>3, <2>6 DEF hole
<1>2. CASE ~ b.optional
  <2> DEFINE sep == IF b.params = 0 THEN <<"?">> ELSE <<"&">>
             d == BuildText(b, sep)
             n == SaidText(m, sep)
  <2>1. BuildSeparator(b) = [d EXCEPT !.params = @ + 1]
    BY <1>2 DEF BuildSeparator
  <2>2. Separator(m) = sep /\ sep \in Wording
    <3>1. m.params = b.params
      BY <1>0, <1>2 DEF Follows
    <3>2. "?" \in Words /\ "&" \in Words
      BY DEF Words
    <3>3. <<"?">> \in Wording /\ <<"&">> \in Wording
      BY <3>2, WordingIs
    <3> QED BY <3>1, <3>3 DEF Separator
  <2> HIDE DEF sep
  <2>3. SaidSeparator(m) = [n EXCEPT !.params = @ + 1]
    <3>1. m \in PassRecords(len, FALSE)
      BY <1>0 DEF Passes
    <3> QED BY <2>2, <3>1 DEF SaidSeparator, SaidText, PassRecords
  <2>4. Neat(d) /\ d.optional = b.optional
    BY <2>2, TextGrows DEF Else
  <2>5. Grows(d, e)
    <3> HIDE DEF d
    <3> DEFINE c == [d EXCEPT !.params = @ + 1]
    <3>1. Neat(c) /\ Grows(d, c)
      BY <1>2, <2>4, TurnedStays
    <3>2. Grows(c, e)
      BY <2>1
    <3> HIDE DEF c
    <3>3. d \in Builders /\ c \in Builders
      BY <2>4, <3>1 DEF Neat
    <3> QED BY <1>0, <3>1, <3>2, <3>3, GrowsOn
  <2>6. Along(d, u, n, table, text, len)
    BY <2>2, <2>5, AlongText
  <2> HIDE DEF d, n
  <2>7. Along([d EXCEPT !.params = @ + 1], u, [n EXCEPT !.params = @ + 1], table, text, len)
    BY <1>2, <2>4, <2>6, AlongCount DEF Neat
  <2> QED BY <2>1, <2>3, <2>7
<1> QED BY <1>1, <1>2

LEMMA OneOf ==
  ASSUME NEW X, NEW seq \in Seq(X), NEW n \in Nat, n + 1 <= Len(seq)
  PROVE  /\ SubSeq(seq, n + 1, n + 1) \in Seq(X) /\ Len(SubSeq(seq, n + 1, n + 1)) = 1
         /\ SubSeq(seq, n + 1, n + 1)[1] = seq[n + 1]
<1>1. n + 1 \in Nat /\ n + 1 > 0 /\ (n + 1) - (n + 1) + 1 = 1 /\ n + 1 - 1 + 1 = n + 1
  OBVIOUS
<1> DEFINE m == n + 1
<1>2. m \in Nat /\ m > 0 /\ m <= Len(seq)
  OBVIOUS
<1> HIDE DEF m
<1>3. SubSeq(seq, m, m) \in Seq(X)
  BY <1>2, SubSeqIn
<1>4. Len(SubSeq(seq, m, m)) = 1
  BY <1>2
<1>5. SubSeq(seq, m, m)[1] = seq[m]
  BY <1>2
<1> QED BY <1>3, <1>4, <1>5 DEF m

LEMMA AlongParam ==
  ASSUME NEW u, NEW e, NEW table, NEW steps, NEW text, NEW f, NEW len,
         Walking(u, e, table, steps, text, f, len),
         NEW b, Tidy(b, b.section), NEW param \in Parameters, Proper(Param(param)),
         Grows(BuildParam(b, param), e), NEW m, Along(b, u, m, table, text, len),
         Fillable(Param(param), f)
  PROVE  Along(BuildParam(b, param), u, SaidParam(m, param, f), table, text, len)
<1> DEFINE d == BuildSeparator(b)
           k == SaidSeparator(m)
           words == <<param.name, "=">>
           c == BuildParam(b, param)
<1>0. /\ m \in Passes(len, FALSE) /\ b \in Builders /\ Neat(b) /\ e \in Builders /\ FillOf(f)
      /\ Finished(e, table, steps, text)
  BY DEF Along, Tidy, Neat, Walking, Finished
<1>1. /\ param.mode \in {"fixed", "hole", "optional"} /\ param.name \in Words /\ param.hole \in Words
      /\ param.value \in Wording
  BY DEF Parameters
<1>2. words \in Wording /\ words \o param.value \in Wording
  <2>1. "=" \in Words
    BY DEF Words
  <2>2. words \in Wording
    BY <1>1, <2>1, Few DEF Wording
  <2> HIDE DEF words
  <2> QED BY <1>1, <2>2, WordingIs
<1> HIDE DEF words
<1>3. Tidy(d, d.section) /\ Neat(d) /\ d \in Builders
  BY OnwardSeparator DEF Onward, Tidy, Neat
<1>4. Grows(d, e) => Along(d, u, k, table, text, len)
  BY <1>0, AlongSeparator
<1>5. c \in Builders
  BY OnwardParam DEF Onward, Tidy, Neat
<1>6. ASSUME param.mode = "fixed"
      PROVE  Along(c, u, SaidParam(m, param, f), table, text, len)
  <2> DEFINE more == words \o param.value
  <2>1. c = BuildText(d, more) /\ SaidParam(m, param, f) = SaidText(k, more)
    BY <1>6, Zenon DEF BuildParam, SaidParam, words
  <2> HIDE DEF more, d, k, c
  <2>2. more \in Wording
    BY <1>2 DEF more
  <2>3. Grows(d, c)
    BY <1>3, <2>1, <2>2, OnwardText DEF Onward
  <2>4. Grows(d, e) /\ Grows(BuildText(d, more), e)
    BY <1>0, <1>3, <1>5, <2>1, <2>3, GrowsOn DEF c
  <2>5. Along(BuildText(d, more), u, SaidText(k, more), table, text, len)
    BY <1>3, <1>4, <2>2, <2>4, AlongText
  <2> QED BY <2>1, <2>5
<1>7. ASSUME param.mode = "hole"
      PROVE  Along(c, u, SaidParam(m, param, f), table, text, len)
  <2> DEFINE hole == param.hole
             g == BuildText(d, words)
             n == SaidText(k, words)
  <2>1. c = BuildHole(g, hole) /\ SaidParam(m, param, f) = WriteHole(n, hole, <<>>, f)
    BY <1>7, Zenon DEF BuildParam, SaidParam, words
  <2> HIDE DEF d, k, c
  <2>2. hole \in Words /\ CanFill(hole, f) /\ ~ Counted(hole) /\ hole # NoHole
    <3>1. hole \in UrlValues /\ CanFill(hole, f)
      BY <1>7 DEF Proper, Param, Fillable
    <3> QED BY <1>1, <3>1, HolesAre DEF Counted
  <2>3. Tidy(g, g.section) /\ Neat(g) /\ g \in Builders /\ Grows(d, g)
    BY <1>2, <1>3, OnwardText DEF Onward, Tidy, Neat
  <2> HIDE DEF g, n, hole
  <2>4. Grows(g, c)
    BY <2>1, <2>2, <2>3, OnwardHole DEF Onward
  <2>5. Grows(c, e)
    BY DEF c
  <2>6. Grows(g, e)
    BY <1>0, <1>5, <2>3, <2>4, <2>5, GrowsOn
  <2>7. Grows(d, e)
    BY <1>0, <1>3, <2>3, <2>6, GrowsOn
  <2>8. Along(g, u, n, table, text, len)
    <3>1. Grows(BuildText(d, words), e)
      BY <2>6 DEF g
    <3>2. Along(BuildText(d, words), u, SaidText(k, words), table, text, len)
      BY <1>2, <1>3, <1>4, <2>7, <3>1, AlongText
    <3> QED BY <3>2 DEF g, n
  <2>9. Along(BuildHole(g, hole), u, WriteHole(n, hole, <<>>, f), table, text, len)
    <3>1. Fills(f, g, hole) /\ Grows(BuildHole(g, hole), e)
      BY <1>0, <2>1, <2>2, <2>5 DEF Fills
    <3> QED BY <2>2, <2>3, <2>8, <3>1, AlongHoleOp
  <2> QED BY <2>1, <2>9
<1>8. ASSUME param.mode = "optional"
      PROVE  Along(c, u, SaidParam(m, param, f), table, text, len)
  <2> DEFINE hole == param.hole
             g == [b EXCEPT !.optional = TRUE]
             n == [m EXCEPT !.optional = TRUE]
             said == <<param.name>>
             at == Len(g.text)
             one == 1
  <2>1. /\ c = Named(BuildHole(g, hole), param.name)
        /\ SaidParam(m, param, f) = WriteHole(n, hole, said, f)
    BY <1>8, Zenon DEF BuildParam, SaidParam, Named
  <2>2. hole \in Words /\ CanFill(hole, f) /\ hole # NoHole
    <3>1. hole \in OptionalHoles /\ CanFill(hole, f)
      BY <1>8 DEF Proper, Param, Fillable
    <3> QED BY <1>1, <3>1, HolesAre
  <2>3. Neat(g) /\ Grows(b, g) /\ g.optional = TRUE
    BY <1>0, TurnedStays, BuilderIs DEF BuilderRecords
  <2>4. said \in Said(len) /\ said \in Wording /\ Len(said) = 1 /\ said[1] = param.name
    BY <1>1, WordingIs, SaidIs
  <2> HIDE DEF c, g, n, hole, said
  <2>5. Closes(g, c, hole, 1, {}) /\ c.text = g.text \o said /\ Else(g, c)
    BY <1>1, <2>1, <2>2, <2>3, NameCloses DEF said
  <2>6. Grows(c, e) /\ Grows(g, c) /\ g \in Builders
    BY <2>3, <2>5 DEF c, Closes, Neat
  <2>7. Grows(g, e)
    BY <1>0, <1>5, <2>6, GrowsOn
  <2>8. Along(g, u, n, table, text, len)
    BY <1>0, <2>7, AlongTurn DEF g, n
  <2>9. Len(c.text) = at + 1 /\ c.text[at + 1] = param.name /\ at \in Nat
    <3> DEFINE was == g.text
               X == Words
               now == c.text
    <3>1. was \in Seq(X) /\ said \in Seq(X) /\ now = was \o said
      BY <2>4, <2>5, <2>6, BuilderIs DEF Wording
    <3> HIDE DEF was, X, now
    <3>2. /\ Len(was \o said) = Len(was) + Len(said) /\ Len(was) \in Nat
          /\ \A i \in 1 .. Len(said) : (was \o said)[Len(was) + i] = said[i]
      BY ONLY <3>1
    <3>3. Len(now) = Len(was) + 1 /\ now[Len(was) + 1] = said[1] /\ Len(was) \in Nat
      BY <2>4, <3>1, <3>2
    <3> QED BY <2>4, <3>3 DEF was, now
  <2>10. said = Run(text, at, one)
    <3>1. Len(c.text) <= Len(text) /\ \A i \in 1 .. Len(c.text) : text[i] = c.text[i]
      BY <1>0, <1>5, <2>6, TextSoFar
    <3>2. text \in Seq(Words) /\ Len(text) \in Nat
      BY <1>0, FinishedIs
    <3>3. at + 1 <= Len(text) /\ text[at + 1] = param.name
      BY <2>9, <3>1, <3>2
    <3> HIDE DEF at
    <3> DEFINE X == Words
               run == SubSeq(text, at + 1, at + 1)
    <3>4. text \in Seq(X) /\ at \in Nat /\ at + 1 <= Len(text)
      BY <2>9, <3>2, <3>3
    <3> HIDE DEF X
    <3>5. run \in Seq(X) /\ Len(run) = 1 /\ run[1] = text[at + 1]
      BY <3>4, OneOf
    <3>6. run \in Seq(X) /\ Len(run) = 1 /\ run[1] = param.name
      BY <3>3, <3>5
    <3> HIDE DEF run
    <3>7. said \in Seq(X)
      BY <2>4 DEF Wording, X
    <3>8. said = run
      BY <2>4, <3>6, <3>7, SeqEqual
    <3> QED BY <3>8 DEF Run, run
  <2>11. Bare(e, g, c, hole, one)
    <3>1. Len(c.text) = Len(g.text) + 1
      BY <2>9
    <3> QED BY <2>2, <2>3, <2>5, <2>6, <3>1 DEF Bare
  <2> HIDE DEF one
  <2>12. Along(c, u, WriteHole(n, hole, said, f), table, text, len)
    <3>1. Fills(f, g, hole)
      BY <1>0, <2>2, <2>3 DEF Fills
    <3>2. said = Run(text, Len(g.text), one)
      BY <2>10
    <3> QED BY <2>4, <2>8, <2>11, <3>1, <3>2, AlongHole
  <2> QED BY <2>1, <2>12
<1> QED BY <1>1, <1>6, <1>7, <1>8

LEMMA AlongSection ==
  ASSUME NEW u, NEW e, NEW table, NEW steps, NEW text, NEW f, NEW len,
         Walking(u, e, table, steps, text, f, len),
         NEW b, Tidy(b, b.section), NEW until, until \in {b.section + 1, b.section + 2}, until <= 5,
         Grows(BuildSection(b, until), e), NEW m, Along(b, u, m, table, text, len)
  PROVE  Along(BuildSection(b, until), u, SaidSection(m, until), table, text, len)
<1> DEFINE s == b.section
           one == EndOf(b)
           k == SaidEnd(m)
<1>0. b \in Builders /\ Neat(b) /\ s \in 0 .. 5 /\ s < 5 /\ m.section = s /\ e \in Builders
  <2>1. b \in Builders /\ Neat(b) /\ e \in Builders
    BY DEF Tidy, Neat, Walking, Finished
  <2>2. b.section \in 0 .. Sections - 1
    BY <2>1, BuilderIs
  <2>3. s \in 0 .. 5
    BY <2>2 DEF Sections
  <2>4. m.section = s
    BY DEF Along, Follows
  <2> HIDE DEF s
  <2> QED BY <2>1, <2>3, <2>4 DEF s
<1>1. Tidy(one, one.section) /\ Grows(b, one) /\ one.section = s + 1 /\ Neat(one) /\ one \in Builders
  BY <1>0, EndsOn DEF Tidy, Neat
<1>3. ASSUME Grows(one, e)
      PROVE  Along(one, u, k, table, text, len)
  BY <1>0, <1>3, AlongEnd
<1>4. CASE until = s + 1
  <2>1. BuildSection(b, until) = one /\ SaidSection(m, until) = k
    BY <1>0, <1>4, SectionsEnd DEF SaidSection
  <2> QED BY <1>3, <2>1
<1>5. CASE until = s + 2
  <2> DEFINE two == EndOf(one)
  <2>0. s < 4 /\ until # s + 1
    BY <1>0, <1>5
  <2>1. BuildSection(b, until) = two /\ SaidSection(m, until) = SaidEnd(k)
    BY <1>0, <1>5, <2>0, SectionsEnd DEF SaidSection
  <2> HIDE DEF one, k
  <2>2. Tidy(two, two.section) /\ Grows(one, two)
    <3>1. one.section < 5
      BY <1>0, <1>1, <2>0
    <3> QED BY <1>1, <3>1, EndsOn
  <2>3. Grows(two, e)
    BY <2>1
  <2>4. Grows(one, e)
    <3>1. two \in Builders
      BY <2>2 DEF Tidy, Neat
    <3> HIDE DEF two
    <3> QED BY <1>0, <1>1, <2>2, <2>3, <3>1, GrowsOn
  <2>5. Along(EndOf(one), u, SaidEnd(k), table, text, len)
    BY <1>1, <1>3, <2>3, <2>4, AlongEnd
  <2> QED BY <2>1, <2>5
<1> QED BY <1>4, <1>5

LEMMA AlongOp ==
  ASSUME NEW u, NEW e, NEW table, NEW steps, NEW text, NEW f, NEW len,
         Walking(u, e, table, steps, text, f, len),
         NEW b, NEW op, NEW p, NEW q, Comes(e, table, b, op, p, q, f),
         NEW m, Along(b, u, m, table, text, len)
  PROVE  Along(Build(b, op), u, SaidOp(m, op, f), table, text, len)
<1> DEFINE c == Build(b, op)
           n == SaidOp(m, op, f)
<1>0. /\ Tidy(b, b.section) /\ op \in Ops /\ Proper(op) /\ q \in Stages /\ Moves(op, p, q)
      /\ b.section = p[1] /\ Grows(c, e) /\ FillOf(f) /\ Fillable(op, f)
      /\ (op.op = "fields" => table.fields = <<Closed(b), Pending(b)>>)
  BY DEF Comes
<1>1. Neat(b) /\ b \in Builders /\ Finished(e, table, steps, text) /\ e \in Builders
  BY <1>0 DEF Tidy, Neat, Walking, Finished
<1>5. CASE op.op = "section"
  <2> DEFINE until == op.section
  <2>1. c = BuildSection(b, until) /\ n = SaidSection(m, until)
    BY <1>5 DEF Build, SaidOp
  <2>2. op.section \in {b.section + 1, b.section + 2} /\ op.section <= 5
    BY <1>0, <1>5 DEF Moves, Stages, Sections
  <2>3. until \in {b.section + 1, b.section + 2} /\ until <= 5 /\ Grows(BuildSection(b, until), e)
    BY <1>0, <2>1, <2>2
  <2> HIDE DEF until, c, n
  <2>4. Along(BuildSection(b, until), u, SaidSection(m, until), table, text, len)
    BY <1>0, <2>3, AlongSection
  <2> QED BY <2>1, <2>4 DEF c, n
<1>7. CASE op.op = "text" /\ op.text \in Wording
  <2> DEFINE more == op.text
  <2>1. c = BuildText(b, more) /\ n = SaidText(m, more)
    BY <1>7 DEF Build, SaidOp
  <2>2. more \in Wording /\ Grows(BuildText(b, more), e)
    BY <1>0, <1>7, <2>1
  <2> HIDE DEF more
  <2>3. Along(BuildText(b, more), u, SaidText(m, more), table, text, len)
    BY <1>1, <2>2, AlongText
  <2> QED BY <2>1, <2>3
<1>8. CASE op.op = "hole" /\ op.hole \in Words
  <2> DEFINE hole == op.hole
  <2>1. c = BuildHole(b, hole) /\ n = WriteHole(m, hole, <<>>, f)
    BY <1>8 DEF Build, SaidOp
  <2>2. hole \in Words /\ Grows(BuildHole(b, hole), e) /\ Fills(f, b, hole) /\ hole # NoHole
    BY <1>0, <1>8, <2>1 DEF Fills, Fillable, Proper, Counted
  <2> HIDE DEF hole
  <2>3. Along(BuildHole(b, hole), u, WriteHole(m, hole, <<>>, f), table, text, len)
    BY <1>1, <2>2, AlongHoleOp
  <2> QED BY <2>1, <2>3
<1>9. CASE op.op = "param" /\ op.param \in Parameters
  <2> DEFINE param == op.param
  <2>1. c = BuildParam(b, param) /\ n = SaidParam(m, param, f)
    BY <1>9 DEF Build, SaidOp
  <2>2. Proper(Param(param)) /\ Fillable(Param(param), f)
    BY <1>0, <1>9 DEF Proper, Fillable, Param
  <2>3. param \in Parameters /\ Grows(BuildParam(b, param), e)
    BY <1>0, <1>9, <2>1
  <2> HIDE DEF param
  <2>4. Along(BuildParam(b, param), u, SaidParam(m, param, f), table, text, len)
    BY <1>0, <2>2, <2>3, AlongParam
  <2> QED BY <2>1, <2>4
<1>10. CASE op.op = "fields"
  <2>1. c = BuildFields(b) /\ n = SaidFields(m)
    BY <1>10 DEF Build, SaidOp
  <2>2. Grows(b, e)
    <3>1. Neat(BuildFields(b)) /\ Grows(b, BuildFields(b))
      BY <1>1, TurnedStays
    <3> DEFINE d == BuildFields(b)
    <3>2. d \in Builders /\ Grows(b, d) /\ Grows(d, e)
      BY <1>0, <2>1, <3>1 DEF Neat
    <3> HIDE DEF d
    <3> QED BY <1>1, <3>2, GrowsOn
  <2>3. Along(BuildFields(b), u, SaidFields(m), table, text, len)
    BY <1>0, <1>1, <1>10, <2>2, AlongFields
  <2> QED BY <2>1, <2>3
<1> HIDE DEF c, n
<1>11. op.op = "section" \/ (op.op = "text" /\ op.text \in Wording) \/ (op.op = "hole" /\ op.hole \in Words)
       \/ (op.op = "param" /\ op.param \in Parameters) \/ op.op = "fields"
  BY <1>0, OpIsOneOf
<1> QED BY <1>5, <1>7, <1>8, <1>9, <1>10, <1>11 DEF c, n

\* What marks no fields leaves their place alone, and the count of them.
Unmarked(x, y) ==
  DOMAIN y = DOMAIN x /\ ("at" \in DOMAIN x => y.at = x.at) /\ ("fields" \in DOMAIN x => y.fields = x.fields)

LEMMA UnmarkedOn ==
  ASSUME NEW x, NEW y, NEW z, Unmarked(x, y), Unmarked(y, z)
  PROVE  Unmarked(x, z)
BY DEF Unmarked

LEMMA UnmarkedSaid ==
  ASSUME NEW x, NEW text, NEW hole, NEW name, NEW f
  PROVE  /\ Unmarked(x, SaidText(x, text)) /\ Unmarked(x, SaidEnd(x)) /\ Unmarked(x, SaidSeparator(x))
         /\ Unmarked(x, WriteHole(x, hole, name, f)) /\ Unmarked(x, [x EXCEPT !.optional = TRUE])
<1>1. Unmarked(x, SaidText(x, text)) /\ Unmarked(x, [x EXCEPT !.optional = TRUE])
  BY DEF Unmarked, SaidText
<1>2. Unmarked(x, SaidEnd(x))
  <2> DEFINE ends == [x.ends EXCEPT ![x.section] = Position(x)]
             section == Later(x.section)
  <2>1. SaidEnd(x) = [x EXCEPT !.ends = ends, !.section = section]
    BY Zenon DEF SaidEnd
  <2> HIDE DEF ends, section
  <2> QED BY <2>1 DEF Unmarked
<1>3. Unmarked(x, SaidSeparator(x))
  <2> DEFINE out == x.out \o Separator(x)
             params == x.params + 1
  <2>1. SaidSeparator(x) = [x EXCEPT !.out = out, !.params = params]
    BY Zenon DEF SaidSeparator
  <2> HIDE DEF out, params
  <2> QED BY <2>1 DEF Unmarked
<1>4. Unmarked(x, WriteHole(x, hole, name, f))
  <2>1. CASE ~ CanFill(hole, f)
    BY <2>1 DEF WriteHole, Unmarked
  <2>2. CASE CanFill(hole, f)
    <3> DEFINE text2 == HoleText(x, hole, name, f)
               span == SpanOf(Position(x), Len(text2))
               out == x.out \o text2
               params == IF CountsParam(hole, f) THEN x.params + 1 ELSE x.params
               signature == IF hole = "Signature" THEN span ELSE x.signature
               bodyHash == IF hole = "BodyHash" THEN Recorded(x.bodyHash, 3, span) ELSE x.bodyHash
               bodyChecksum == IF hole = "BodyChecksum" THEN Recorded(x.bodyChecksum, 2, span) ELSE x.bodyChecksum
    <3>1. WriteHole(x, hole, name, f)
            = [x EXCEPT !.out = out, !.params = params, !.signature = signature,
                        !.bodyHash = bodyHash, !.bodyChecksum = bodyChecksum]
      BY <2>2, Zenon DEF WriteHole
    <3> HIDE DEF out, params, signature, bodyHash, bodyChecksum
    <3> QED BY <3>1 DEF Unmarked
  <2> QED BY <2>1, <2>2
<1> QED BY <1>1, <1>2, <1>3, <1>4

LEMMA SaidAt ==
  ASSUME NEW len, NEW unread, NEW m \in Passes(len, unread), NEW op \in Ops, NEW f
  PROVE  SaidOp(m, op, f).at = IF op.op = "fields" THEN 1 ELSE m.at
<1>1. "at" \in DOMAIN m
  BY DEF Passes, PassRecords
<1>2. CASE op.op = "fields"
  <2>1. SaidOp(m, op, f) = SaidFields(m)
    BY <1>2 DEF SaidOp
  <2>2. SaidFields(m).at = 1
    <3> DEFINE fields == Position(m)
    <3>1. SaidFields(m) = [m EXCEPT !.fields = fields, !.at = 1]
      BY Zenon DEF SaidFields
    <3> HIDE DEF fields
    <3> QED BY <1>1, <3>1
  <2> QED BY <1>2, <2>1, <2>2
<1>3. CASE op.op # "fields"
  <2>1. Unmarked(m, SaidOp(m, op, f))
    <3>1. CASE op.op = "text"
      BY <3>1, UnmarkedSaid DEF SaidOp
    <3>2. CASE op.op = "hole"
      BY <3>2, UnmarkedSaid DEF SaidOp
    <3>3. CASE op.op = "section"
      <4> DEFINE k == SaidEnd(m)
      <4>1. Unmarked(m, k) /\ Unmarked(k, SaidEnd(k))
        <5>1. Unmarked(m, SaidEnd(m))
          BY UnmarkedSaid
        <5> HIDE DEF k
        <5>2. Unmarked(k, SaidEnd(k))
          BY UnmarkedSaid
        <5> QED BY <5>1, <5>2 DEF k
      <4>2. SaidOp(m, op, f) \in {k, SaidEnd(k)}
        BY <3>3 DEF SaidOp, SaidSection
      <4> HIDE DEF k
      <4> QED BY <4>1, <4>2, UnmarkedOn
    <3>4. CASE op.op = "param" /\ op.param \in Parameters
      <4> DEFINE param == op.param
                 k == SaidSeparator(m)
                 words == <<param.name, "=">>
                 g == SaidText(k, words)
                 n == [m EXCEPT !.optional = TRUE]
      <4>1. /\ param.mode = "fixed" => SaidOp(m, op, f) = SaidText(k, words \o param.value)
            /\ param.mode = "hole" => SaidOp(m, op, f) = WriteHole(g, param.hole, <<>>, f)
            /\ param.mode = "optional" => SaidOp(m, op, f) = WriteHole(n, param.hole, <<param.name>>, f)
        BY <3>4, Zenon DEF SaidOp, SaidParam
      <4>2. param.mode \in {"fixed", "hole", "optional"}
        BY <3>4 DEF Parameters
      <4>3. Unmarked(m, k) /\ Unmarked(m, n)
        BY UnmarkedSaid
      <4> HIDE DEF k, n
      <4>4. Unmarked(k, g) /\ Unmarked(k, SaidText(k, words \o param.value))
        BY UnmarkedSaid
      <4> HIDE DEF g
      <4>5. Unmarked(g, WriteHole(g, param.hole, <<>>, f)) /\ Unmarked(n, WriteHole(n, param.hole, <<param.name>>, f))
        BY UnmarkedSaid
      <4> DEFINE one == SaidText(k, words \o param.value)
                 two == WriteHole(g, param.hole, <<>>, f)
                 three == WriteHole(n, param.hole, <<param.name>>, f)
                 y == SaidOp(m, op, f)
      <4>6. Unmarked(k, one) /\ Unmarked(g, two) /\ Unmarked(n, three) /\ y \in {one, two, three}
        BY <4>1, <4>2, <4>4, <4>5
      <4> HIDE DEF one, two, three, y, param
      <4>7. Unmarked(m, one) /\ Unmarked(m, g) /\ Unmarked(m, three)
        BY <4>3, <4>4, <4>6, UnmarkedOn
      <4>8. Unmarked(m, two)
        BY <4>6, <4>7, UnmarkedOn
      <4> QED BY <4>6, <4>7, <4>8 DEF y
    <3>5. op.op \in {"section", "text", "hole"} \/ (op.op = "param" /\ op.param \in Parameters)
      BY <1>3, OpIsOneOf
    <3> QED BY <3>1, <3>2, <3>3, <3>4, <3>5
  <2> QED BY <1>1, <1>3, <2>1 DEF Unmarked
<1> QED BY <1>2, <1>3

LEMMA AlongFirst ==
  ASSUME NEW u, NEW e, NEW table, NEW steps, NEW text, NEW f, NEW len,
         Walking(u, e, table, steps, text, f, len)
  PROVE  Along(NewBuilder, u, Silence(table, len), table, text, len) /\ Silence(table, len).at = 0
<1> DEFINE b == NewBuilder
           m == Silence(table, len)
           w == NewState(table, len)
<1>1. IsTable(table) /\ text \in Wording /\ u[0] = w
  BY DEF Walking, Finished, WalkRun
<1>2. Keeps(b, w, m, table, text, len)
  BY <1>1, PacedFirst DEF Paced
<1>3. m.at = 0 /\ Closed(b) = 0
  BY DEF Silence, NewState, NewBuilder, Closed
<1> HIDE DEF b, m, w
<1>4. u[Closed(b)] = w
  BY <1>1, <1>3
<1>5. Along(b, u, m, table, text, len)
  <2> DEFINE x == u[Closed(b)]
  <2>1. x = w
    BY <1>4
  <2> HIDE DEF x
  <2>2. x \in Passes(len, FALSE) /\ m \in Passes(len, FALSE) /\ Follows(b, x, m, table, text)
    BY <1>2, <2>1 DEF Keeps
  <2>3. m.at # 1
    BY <1>3
  <2> QED BY <2>2, <2>3, Zenon DEF Along, x
<1> QED BY <1>3, <1>5 DEF b, m

\* A walk of a template's own table is along its whole layout.
LayoutAlong(layout, at, r, u, m, table, text, len) ==
  \A i \in 0 .. Len(layout) : Along(r[i], u, m[i], table, text, len) /\ m[i].at = at[i][2]
LEMMA LayoutWalks ==
  ASSUME NEW layout, NEW at, NEW r, NEW e, NEW table, NEW steps, NEW text,
         Layed(layout, at, r, e, table, steps, text), NEW f, Filled(layout, f), NEW len,
         NEW u, Walking(u, e, table, steps, text, f, len),
         NEW m, SaidRun(m, layout, Silence(table, len), f, len)
  PROVE  LayoutAlong(layout, at, r, u, m, table, text, len)
<1> DEFINE k == Len(layout)
           S == {i \in 0 .. k : Along(r[i], u, m[i], table, text, len) /\ m[i].at = at[i][2]}
<1>0. k \in Nat
  BY LayedIs
<1>1. 0 \in S
  <2>1. r[0] = NewBuilder /\ m[0] = Silence(table, len) /\ 0 \in 0 .. k /\ at[0] = <<0, 0>>
    BY <1>0 DEF Layed, Built, Runs6, SaidRun
  <2> QED BY <2>1, AlongFirst
<1>2. ASSUME NEW i \in 1 .. k, i - 1 \in S
      PROVE  i \in S
  <2> DEFINE b == r[i - 1]
             n == m[i - 1]
             op == layout[i]
             p == at[i - 1]
             q == at[i]
  <2>1. i \in 1 .. Len(layout) /\ i - 1 \in 0 .. Len(layout) /\ i \in 0 .. k /\ i - 1 \in 0 .. k
    BY <1>0
  <2>2. Along(b, u, n, table, text, len) /\ n.at = p[2]
    BY <1>2
  <2>3. m[i] = SaidOp(n, op, f)
    BY <2>1 DEF SaidRun
  <2>4. r[i] = Build(b, op)
    BY <2>1, LayedIs
  <2>5. Comes(e, table, b, op, p, q, f)
    <3>1. op.op = "fields" => table.fields = <<Closed(b), Pending(b)>>
      BY <2>1, FieldsAre
    <3>2. Tidy(b, b.section) /\ b.section = p[1]
      BY <2>1, LayedIs
    <3>3. op \in Ops /\ Proper(op) /\ q \in Stages /\ Moves(op, p, q) /\ Grows(Build(b, op), e)
      BY <2>1, <2>4, LayedIs
    <3>4. FillOf(f) /\ Fillable(op, f)
      BY <2>1 DEF Filled
    <3> QED BY <3>1, <3>2, <3>3, <3>4 DEF Comes
  <2> HIDE DEF b, n, op, p, q
  <2>6. Along(Build(b, op), u, SaidOp(n, op, f), table, text, len)
    BY <2>2, <2>5, AlongOp
  <2>7. n \in Passes(len, FALSE) /\ op \in Ops /\ Moves(op, p, q)
    BY <2>2, <2>5 DEF Along, Comes
  <2>8. SaidOp(n, op, f).at = q[2]
    <3>1. SaidOp(n, op, f).at = IF op.op = "fields" THEN 1 ELSE n.at
      BY <2>7, SaidAt
    <3>2. op.op = "fields" => q[2] = 1
      BY <2>7 DEF Moves
    <3>3. op.op # "fields" => q[2] = p[2]
      BY <2>7 DEF Moves
    <3> QED BY <2>2, <3>1, <3>2, <3>3
  <2> QED BY <2>1, <2>3, <2>4, <2>6, <2>8 DEF q
<1>3. \A i \in 0 .. k : i \in S
  <2> HIDE DEF S
  <2> QED BY <1>0, <1>1, <1>2, Induction
<1> QED BY <1>3 DEF LayoutAlong
=============================================================================
