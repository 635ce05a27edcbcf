--------------------------- MODULE SelectionProofs ---------------------------
(***************************************************************************)
(* What Selected keeps, for every sequence and every set of positions: one *)
(* element for each of the positions, in their order.  The recursion is    *)
(* met with the positions themselves in order, whose existence and         *)
(* uniqueness are shown by the least position that is an exception.        *)
(* A fold over a sequence is met in the same way: a function that solves   *)
(* its equation exists, and runs position by position.                     *)
(***************************************************************************)
EXTENDS Selection, Integers, FiniteSetsExt, FiniteSetTheorems, FunctionTheorems, SequenceTheorems,
        WellFoundedInduction, TLAPS

\* The positions of `at`, one after the other.
Enumerates(idx, at) ==
  /\ idx \in Seq(Nat)
  /\ \A i \in 1 .. Len(idx) : idx[i] \in at
  /\ \A i, j \in 1 .. Len(idx) : i < j => idx[i] < idx[j]
  /\ \A n \in at : \E i \in 1 .. Len(idx) : idx[i] = n
Enumeration(at) == CHOOSE idx : Enumerates(idx, at)

At(seq, idx) == [j \in 1 .. Len(idx) |-> seq[idx[j]]]
Kept(seq, at, n) == At(seq, Enumeration(at \cap 1 .. n))

Below == {pair \in Nat \X Nat : pair[1] < pair[2]}

-----------------------------------------------------------------------------
(* The least of a set of numbers, which stands for induction.              *)

\* A set of numbers that is not empty has a least one.
LEMMA LeastNatural ==
  ASSUME NEW S \in SUBSET Nat, S # {}
  PROVE  \E n \in S : \A m \in S : n <= m
<1>1. IsWellFoundedOn(Below, Nat)
  BY NatLessThanWellFounded DEF OpToRel, Below
<1>2. \E n \in S : \A m \in S : ~ (<<m, n>> \in Below)
  BY <1>1, WFMin
<1>3. \A m, n \in Nat : <<m, n>> \in Below <=> m < n
  BY DEF Below
<1>4. PICK n \in S : \A m \in S : ~ (<<m, n>> \in Below)
  BY <1>2
<1>5. \A m \in S : ~ (m < n)
  BY <1>3, <1>4
<1> QED BY <1>5

\* What holds of 0, and of a number whenever of the one before it, holds of
\* every number up to a bound.
LEMMA Induction ==
  ASSUME NEW m \in Nat, NEW T,
         0 \in T, \A n \in 1 .. m : n - 1 \in T => n \in T
  PROVE  \A n \in 0 .. m : n \in T
<1> SUFFICES ASSUME \E n \in 0 .. m : n \notin T PROVE FALSE
  OBVIOUS
<1> DEFINE S == {n \in 0 .. m : n \notin T}
<1>1. S \in SUBSET Nat /\ S # {}
  OBVIOUS
<1>2. PICK n \in S : \A k \in S : n <= k
  BY <1>1, LeastNatural
<1>3. n \in 1 .. m /\ n - 1 \in 0 .. m
  OBVIOUS
<1>4. n - 1 \in T
  BY <1>2, <1>3
<1> QED BY <1>3, <1>4

-----------------------------------------------------------------------------
(* The positions in order.                                                 *)

\* One more position comes last.
LEMMA EnumeratesOneMore ==
  ASSUME NEW at, NEW n \in Nat, n > 0, NEW idx, Enumerates(idx, at \cap 1 .. n - 1)
  PROVE  /\ n \in at => Enumerates(Append(idx, n), at \cap 1 .. n)
         /\ n \notin at => Enumerates(idx, at \cap 1 .. n)
<1>1. CASE n \in at
  <2> DEFINE more == Append(idx, n)
  <2>1. /\ more \in Seq(Nat) /\ Len(more) = Len(idx) + 1 /\ Len(idx) \in Nat
        /\ more[Len(idx) + 1] = n /\ \A i \in 1 .. Len(idx) : more[i] = idx[i]
    BY DEF Enumerates
  <2>2. \A i \in 1 .. Len(idx) : idx[i] \in at \cap 1 .. n - 1
    BY DEF Enumerates
  <2>3. \A i \in 1 .. Len(more) : more[i] \in at \cap 1 .. n
    BY <1>1, <2>1, <2>2
  <2>4. \A i, j \in 1 .. Len(more) : i < j => more[i] < more[j]
    <3> TAKE i, j \in 1 .. Len(more)
    <3> HAVE i < j
    <3>1. CASE j = Len(idx) + 1
      BY <2>1, <2>2, <3>1
    <3>2. CASE j # Len(idx) + 1
      <4>1. i \in 1 .. Len(idx) /\ j \in 1 .. Len(idx)
        BY <2>1, <3>2
      <4>2. idx[i] < idx[j]
        BY <4>1 DEF Enumerates
      <4> QED BY <2>1, <4>1, <4>2
    <3> QED BY <3>1, <3>2
  <2>5. \A k \in at \cap 1 .. n : \E i \in 1 .. Len(more) : more[i] = k
    <3> TAKE k \in at \cap 1 .. n
    <3>1. CASE k = n
      BY <2>1, <3>1
    <3>2. CASE k # n
      <4>1. PICK i \in 1 .. Len(idx) : idx[i] = k
        BY <3>2 DEF Enumerates
      <4> QED BY <2>1, <4>1
    <3> QED BY <3>1, <3>2
  <2> QED BY <1>1, <2>1, <2>3, <2>4, <2>5 DEF Enumerates
<1>2. CASE n \notin at
  <2>1. at \cap 1 .. n = at \cap 1 .. n - 1
    BY <1>2
  <2> QED BY <1>2, <2>1
<1> QED BY <1>1, <1>2

\* The positions up to a bound can be put in order.
LEMMA EnumerationExists ==
  ASSUME NEW m \in Nat, NEW at
  PROVE  \E idx : Enumerates(idx, at \cap 1 .. m)
<1> DEFINE T == {n \in Nat : \E idx : Enumerates(idx, at \cap 1 .. n)}
<1>1. 0 \in T
  <2>1. Enumerates(<<>>, {})
    BY DEF Enumerates
  <2>2. at \cap 1 .. 0 = {}
    OBVIOUS
  <2> QED BY <2>1, <2>2
<1>2. \A n \in 1 .. m : n - 1 \in T => n \in T
  <2> TAKE n \in 1 .. m
  <2> HAVE n - 1 \in T
  <2>1. PICK idx : Enumerates(idx, at \cap 1 .. n - 1)
    OBVIOUS
  <2>2. n \in Nat /\ n > 0
    OBVIOUS
  <2>3. \E other : Enumerates(other, at \cap 1 .. n)
    BY <2>1, <2>2, EnumeratesOneMore
  <2> QED BY <2>2, <2>3
<1> HIDE DEF T
<1>3. m \in T
  BY <1>1, <1>2, Induction
<1> QED BY <1>3 DEF T

\* One of two enumerations is no longer than what the other agrees with.
LEMMA EnumerationsAgree ==
  ASSUME NEW at, NEW idx, NEW other, Enumerates(idx, at), Enumerates(other, at)
  PROVE  \A j \in 1 .. Len(idx) : j <= Len(other) /\ other[j] = idx[j]
<1> SUFFICES ASSUME \E j \in 1 .. Len(idx) : ~ (j <= Len(other) /\ other[j] = idx[j])
             PROVE  FALSE
  OBVIOUS
<1>0. /\ Len(idx) \in Nat /\ Len(other) \in Nat
      /\ \A i \in 1 .. Len(idx) : idx[i] \in Nat /\ idx[i] \in at
      /\ \A i \in 1 .. Len(other) : other[i] \in Nat /\ other[i] \in at
  <2>1. idx \in Seq(Nat) /\ other \in Seq(Nat)
    BY DEF Enumerates
  <2>2. \A i \in 1 .. Len(idx) : idx[i] \in Nat
    BY <2>1, ElementOfSeq
  <2>3. \A i \in 1 .. Len(other) : other[i] \in Nat
    BY <2>1, ElementOfSeq
  <2> QED BY <2>1, <2>2, <2>3 DEF Enumerates
<1> DEFINE S == {j \in 1 .. Len(idx) : ~ (j <= Len(other) /\ other[j] = idx[j])}
<1>1. S \in SUBSET Nat /\ S # {}
  BY <1>0
<1>2. PICK j \in S : \A k \in S : j <= k
  BY <1>1, LeastNatural
<1>3. j \in 1 .. Len(idx)
  OBVIOUS
<1>4. \A k \in 1 .. Len(idx) : k < j => k <= Len(other) /\ other[k] = idx[k]
  BY <1>0, <1>2
<1>5. PICK k \in 1 .. Len(other) : other[k] = idx[j]
  BY <1>0, <1>3 DEF Enumerates
<1>6. k >= j
  <2> SUFFICES ASSUME k < j PROVE FALSE
    BY <1>0
  <2>1. other[k] = idx[k] /\ k \in 1 .. Len(idx)
    BY <1>0, <1>3, <1>4
  <2>2. idx[k] < idx[j]
    BY <1>3, <2>1 DEF Enumerates
  <2> QED BY <1>0, <1>3, <1>5, <2>1, <2>2
<1>7. j \in 1 .. Len(other) /\ other[j] # idx[j]
  BY <1>0, <1>3, <1>6
<1>8. k # j
  BY <1>5, <1>7
<1>9. other[j] < idx[j]
  <2>1. other[j] < other[k]
    BY <1>0, <1>6, <1>7, <1>8 DEF Enumerates
  <2> QED BY <1>5, <2>1
<1>10. PICK i \in 1 .. Len(idx) : idx[i] = other[j]
  BY <1>0, <1>7 DEF Enumerates
<1>11. CASE i < j
  <2>1. i \in 1 .. Len(other) /\ other[i] = idx[i]
    BY <1>4, <1>11
  <2>2. other[i] < other[j]
    BY <1>7, <1>11, <2>1 DEF Enumerates
  <2> QED BY <1>0, <1>7, <1>10, <2>1, <2>2
<1>12. CASE i = j
  BY <1>7, <1>10, <1>12
<1>13. CASE i > j
  <2>1. idx[j] < idx[i]
    BY <1>3, <1>13 DEF Enumerates
  <2> QED BY <1>0, <1>3, <1>7, <1>9, <1>10, <2>1
<1> QED BY <1>3, <1>11, <1>12, <1>13

\* The positions are in order in one way only.
LEMMA EnumerationUnique ==
  ASSUME NEW at, NEW idx, NEW other, Enumerates(idx, at), Enumerates(other, at)
  PROVE  idx = other
<1>1. Len(idx) \in Nat /\ Len(other) \in Nat /\ idx \in Seq(Nat) /\ other \in Seq(Nat)
  BY DEF Enumerates
<1>2. \A j \in 1 .. Len(idx) : j <= Len(other) /\ other[j] = idx[j]
  BY EnumerationsAgree
<1>3. \A j \in 1 .. Len(other) : j <= Len(idx)
  BY EnumerationsAgree
<1>4. Len(idx) = Len(other)
  <2>1. Len(idx) <= Len(other)
    BY <1>1, <1>2
  <2>2. Len(other) <= Len(idx)
    BY <1>1, <1>3
  <2> QED BY <1>1, <2>1, <2>2
<1> QED BY <1>1, <1>2, <1>4, SeqEqual

LEMMA EnumerationIs ==
  ASSUME NEW at, NEW idx, Enumerates(idx, at)
  PROVE  Enumeration(at) = idx
<1>1. Enumerates(Enumeration(at), at)
  BY DEF Enumeration
<1> QED BY <1>1, EnumerationUnique

-----------------------------------------------------------------------------
(* The recursion.                                                          *)

LEMMA FunctionIsSeq ==
  ASSUME NEW S, NEW n \in Nat, NEW g \in [1 .. n -> S]
  PROVE  g \in Seq(S) /\ Len(g) = n
OBVIOUS

\* A sequence at one position more.
LEMMA AtOneMore ==
  ASSUME NEW S, NEW seq \in Seq(S), NEW idx \in Seq(1 .. Len(seq)), NEW n \in 1 .. Len(seq)
  PROVE  At(seq, Append(idx, n)) = Append(At(seq, idx), seq[n])
<1>1. /\ Append(idx, n) \in Seq(1 .. Len(seq)) /\ Len(Append(idx, n)) = Len(idx) + 1
      /\ Len(idx) \in Nat /\ \A i \in 1 .. Len(idx) : Append(idx, n)[i] = idx[i]
      /\ Append(idx, n)[Len(idx) + 1] = n
  OBVIOUS
<1>2. \A i \in 1 .. Len(idx) : idx[i] \in 1 .. Len(seq)
  BY ElementOfSeq
<1>3. At(seq, idx) \in [1 .. Len(idx) -> S]
  BY <1>2, ElementOfSeq DEF At
<1>4. At(seq, idx) \in Seq(S) /\ Len(At(seq, idx)) = Len(idx)
  BY <1>1, <1>3, FunctionIsSeq
<1>5. seq[n] \in S
  BY ElementOfSeq
<1> DEFINE left == At(seq, Append(idx, n))
           right == Append(At(seq, idx), seq[n])
<1>6. right \in Seq(S) /\ Len(right) = Len(idx) + 1
  BY <1>4, <1>5
<1>7. \A i \in 1 .. Len(idx) + 1 : left[i] = right[i]
  <2> TAKE i \in 1 .. Len(idx) + 1
  <2>1. CASE i = Len(idx) + 1
    BY <1>1, <1>4, <1>5, <2>1 DEF At
  <2>2. CASE i # Len(idx) + 1
    <3>1. i \in 1 .. Len(idx)
      BY <1>1, <2>2
    <3>2. right[i] = At(seq, idx)[i]
      BY <1>4, <1>5, <3>1
    <3> QED BY <1>1, <3>1, <3>2 DEF At
  <2> QED BY <2>1, <2>2
<1>8. left = [i \in 1 .. Len(idx) + 1 |-> left[i]]
  BY <1>1 DEF At
<1>9. right = [i \in 1 .. Len(idx) + 1 |-> right[i]]
  BY <1>6
<1> HIDE DEF left, right
<1>10. left = right
  BY <1>7, <1>8, <1>9
<1> QED BY <1>10 DEF left, right

\* What the recursion keeps of the first positions.
LEMMA KeptOneMore ==
  ASSUME NEW S, NEW seq \in Seq(S), NEW at, NEW n \in 1 .. Len(seq)
  PROVE  Kept(seq, at, n) = IF n \in at THEN Append(Kept(seq, at, n - 1), seq[n])
                            ELSE Kept(seq, at, n - 1)
<1>0. n \in Nat /\ n > 0 /\ n - 1 \in Nat /\ Len(seq) \in Nat
  OBVIOUS
<1>1. PICK idx : Enumerates(idx, at \cap 1 .. n - 1)
  BY <1>0, EnumerationExists
<1>2. Enumeration(at \cap 1 .. n - 1) = idx
  BY <1>1, EnumerationIs
<1>3. CASE n \in at
  <2>1. Enumeration(at \cap 1 .. n) = Append(idx, n)
    BY <1>0, <1>1, <1>3, EnumeratesOneMore, EnumerationIs
  <2>2. idx \in Seq(1 .. Len(seq))
    <3>1. idx \in Seq(Nat) /\ \A i \in 1 .. Len(idx) : idx[i] \in 1 .. n - 1
      BY <1>1 DEF Enumerates
    <3>2. Len(idx) \in Nat /\ idx = [i \in 1 .. Len(idx) |-> idx[i]]
      BY <3>1
    <3>3. \A i \in 1 .. Len(idx) : idx[i] \in 1 .. Len(seq)
      BY <1>0, <3>1
    <3>4. idx \in [1 .. Len(idx) -> 1 .. Len(seq)]
      BY <3>2, <3>3
    <3> QED BY <3>2, <3>4
  <2> QED BY <1>2, <1>3, <2>1, <2>2, AtOneMore DEF Kept
<1>4. CASE n \notin at
  <2>1. Enumeration(at \cap 1 .. n) = idx
    BY <1>0, <1>1, <1>4, EnumeratesOneMore, EnumerationIs
  <2> QED BY <1>2, <1>4, <2>1 DEF Kept
<1> QED BY <1>3, <1>4

LEMMA KeptOfNone ==
  ASSUME NEW seq, NEW at
  PROVE  Kept(seq, at, 0) = <<>>
<1>1. Enumerates(<<>>, at \cap 1 .. 0)
  BY DEF Enumerates
<1>2. Enumeration(at \cap 1 .. 0) = <<>>
  BY <1>1, EnumerationIs
<1> QED BY <1>2 DEF At, Kept

\* What is kept of a sequence is its elements at the positions in order.
LEMMA SelectedIs ==
  ASSUME NEW S, NEW seq \in Seq(S), NEW at
  PROVE  Selected(seq, at) = At(seq, Enumeration(at \cap 1 .. Len(seq)))
<1> DEFINE Eq(G) == G = [n \in 0 .. Len(seq) |->
                           IF n = 0 THEN <<>>
                           ELSE IF n \in at THEN Append(G[n - 1], seq[n])
                           ELSE G[n - 1]]
           upTo == CHOOSE G : Eq(G)
           kept == [n \in 0 .. Len(seq) |-> Kept(seq, at, n)]
<1>0. Len(seq) \in Nat
  OBVIOUS
<1>1. \A n \in 1 .. Len(seq) :
        Kept(seq, at, n) = IF n \in at THEN Append(Kept(seq, at, n - 1), seq[n]) ELSE Kept(seq, at, n - 1)
  BY KeptOneMore
<1>2. Kept(seq, at, 0) = <<>>
  BY KeptOfNone
<1>3. Eq(kept)
  BY <1>0, <1>1, <1>2
<1>4. Eq(upTo)
  <2> HIDE DEF Eq
  <2> QED BY <1>3, Zenon
<1> HIDE DEF upTo
<1> DEFINE T == {n \in 0 .. Len(seq) : upTo[n] = Kept(seq, at, n)}
<1>5. 0 \in T
  BY <1>0, <1>2, <1>4
<1>6. \A n \in 1 .. Len(seq) : n - 1 \in T => n \in T
  <2> TAKE n \in 1 .. Len(seq)
  <2> HAVE n - 1 \in T
  <2>1. upTo[n - 1] = Kept(seq, at, n - 1) /\ n \in 0 .. Len(seq) /\ n # 0
    BY <1>0
  <2>2. upTo[n] = IF n \in at THEN Append(upTo[n - 1], seq[n]) ELSE upTo[n - 1]
    BY <1>4, <2>1
  <2> QED BY <1>1, <2>1, <2>2
<1> HIDE DEF T
<1>7. Len(seq) \in T
  <2>1. \A n \in 0 .. Len(seq) : n \in T
    BY <1>0, <1>5, <1>6, Induction
  <2> QED BY <1>0, <2>1
<1>8. upTo[Len(seq)] = Kept(seq, at, Len(seq))
  BY <1>7 DEF T
<1>9. Selected(seq, at) = upTo[Len(seq)]
  BY DEF Selected, upTo
<1> QED BY <1>8, <1>9 DEF Kept

-----------------------------------------------------------------------------
(* What it says of some positions.                                         *)

\* What is kept is the elements at the positions, put in order in any way.
LEMMA SelectedAt ==
  ASSUME NEW S, NEW seq \in Seq(S), NEW at, NEW idx, Enumerates(idx, at \cap 1 .. Len(seq))
  PROVE  Selected(seq, at) = At(seq, idx)
BY SelectedIs, EnumerationIs DEF Kept

\* The positions of a sequence can be put in order.
LEMMA SelectedExists ==
  ASSUME NEW S, NEW seq \in Seq(S), NEW at
  PROVE  \E idx : /\ Enumerates(idx, at \cap 1 .. Len(seq))
                  /\ Len(idx) \in Nat
                  /\ Selected(seq, at) = At(seq, idx)
                  /\ Selected(seq, at) \in Seq(S)
                  /\ Len(Selected(seq, at)) = Len(idx)
<1>1. Len(seq) \in Nat
  OBVIOUS
<1>2. PICK idx : Enumerates(idx, at \cap 1 .. Len(seq))
  BY <1>1, EnumerationExists
<1>3. Selected(seq, at) = At(seq, idx)
  BY <1>2, SelectedAt
<1>4. Len(idx) \in Nat
  BY <1>2 DEF Enumerates
<1>5. \A i \in 1 .. Len(idx) : idx[i] \in 1 .. Len(seq)
  BY <1>2 DEF Enumerates
<1>6. At(seq, idx) \in [1 .. Len(idx) -> S]
  BY <1>5, ElementOfSeq DEF At
<1>7. At(seq, idx) \in Seq(S) /\ Len(At(seq, idx)) = Len(idx)
  BY <1>4, <1>6, FunctionIsSeq
<1> QED BY <1>2, <1>3, <1>4, <1>7

\* Nothing is kept where there is no position.
LEMMA SelectedNone ==
  ASSUME NEW S, NEW seq \in Seq(S), NEW at, at \cap 1 .. Len(seq) = {}
  PROVE  Selected(seq, at) = <<>>
<1>1. Enumerates(<<>>, at \cap 1 .. Len(seq))
  BY DEF Enumerates
<1>2. Selected(seq, at) = At(seq, <<>>)
  BY <1>1, SelectedAt
<1> QED BY <1>2 DEF At

\* One position keeps one element.
LEMMA SelectedOne ==
  ASSUME NEW S, NEW seq \in Seq(S), NEW at, NEW i \in Nat, at \cap 1 .. Len(seq) = {i}
  PROVE  Selected(seq, at) = <<seq[i]>>
<1>1. Enumerates(<<i>>, at \cap 1 .. Len(seq))
  BY DEF Enumerates
<1>2. Selected(seq, at) = At(seq, <<i>>)
  BY <1>1, SelectedAt
<1>3. Len(<<i>>) = 1 /\ <<i>>[1] = i
  OBVIOUS
<1>4. At(seq, <<i>>) = [j \in 1 .. 1 |-> seq[i]]
  <2>1. \A j \in 1 .. 1 : <<i>>[j] = i
    OBVIOUS
  <2> QED BY <1>3, <2>1 DEF At
<1>5. [j \in 1 .. 1 |-> seq[i]] = <<seq[i]>>
  OBVIOUS
<1> QED BY <1>2, <1>4, <1>5

\* Every position keeps its element.
LEMMA SelectedSome ==
  ASSUME NEW S, NEW seq \in Seq(S), NEW at, NEW i \in 1 .. Len(seq), i \in at
  PROVE  /\ Selected(seq, at) # <<>>
         /\ Len(Selected(seq, at)) \in Nat \ {0}
         /\ \E j \in 1 .. Len(Selected(seq, at)) : Selected(seq, at)[j] = seq[i]
<1>1. PICK idx : /\ Enumerates(idx, at \cap 1 .. Len(seq))
                 /\ Len(idx) \in Nat
                 /\ Selected(seq, at) = At(seq, idx)
                 /\ Len(Selected(seq, at)) = Len(idx)
  BY SelectedExists
<1>2. PICK j \in 1 .. Len(idx) : idx[j] = i
  BY <1>1 DEF Enumerates
<1>3. Selected(seq, at)[j] = seq[i]
  BY <1>1, <1>2 DEF At
<1>4. Len(idx) # 0 /\ Len(<<>>) = 0
  BY <1>1
<1> QED BY <1>1, <1>2, <1>3, <1>4

\* Two positions keep two elements.
LEMMA SelectedTwo ==
  ASSUME NEW S, NEW seq \in Seq(S), NEW at, NEW i \in 1 .. Len(seq), NEW j \in 1 .. Len(seq),
         i \in at, j \in at, i # j
  PROVE  Len(Selected(seq, at)) \in Nat /\ Len(Selected(seq, at)) > 1
<1>1. PICK idx : /\ Enumerates(idx, at \cap 1 .. Len(seq))
                 /\ Len(idx) \in Nat
                 /\ Len(Selected(seq, at)) = Len(idx)
  BY SelectedExists
<1>2. PICK m \in 1 .. Len(idx) : idx[m] = i
  BY <1>1 DEF Enumerates
<1>3. PICK n \in 1 .. Len(idx) : idx[n] = j
  BY <1>1 DEF Enumerates
<1> QED BY <1>1, <1>2, <1>3

\* What is kept was at one of the positions.
LEMMA SelectedFrom ==
  ASSUME NEW S, NEW seq \in Seq(S), NEW at, NEW j \in 1 .. Len(Selected(seq, at))
  PROVE  \E i \in at \cap 1 .. Len(seq) : Selected(seq, at)[j] = seq[i]
<1>1. PICK idx : /\ Enumerates(idx, at \cap 1 .. Len(seq))
                 /\ Selected(seq, at) = At(seq, idx)
                 /\ Len(Selected(seq, at)) = Len(idx)
  BY SelectedExists
<1>2. idx[j] \in at \cap 1 .. Len(seq) /\ Selected(seq, at)[j] = seq[idx[j]]
  BY <1>1 DEF Enumerates, At
<1> QED BY <1>2

\* The last that is kept is at the last of the positions.
LEMMA SelectedLast ==
  ASSUME NEW S, NEW seq \in Seq(S), NEW at, NEW i \in 1 .. Len(seq), i \in at,
         \A j \in at \cap 1 .. Len(seq) : j <= i
  PROVE  Selected(seq, at)[Len(Selected(seq, at))] = seq[i]
<1>1. PICK idx : /\ Enumerates(idx, at \cap 1 .. Len(seq))
                 /\ Len(idx) \in Nat
                 /\ Selected(seq, at) = At(seq, idx)
                 /\ Len(Selected(seq, at)) = Len(idx)
  BY SelectedExists
<1>2. PICK j \in 1 .. Len(idx) : idx[j] = i
  BY <1>1 DEF Enumerates
<1>3. j = Len(idx)
  <2> SUFFICES ASSUME j # Len(idx) PROVE FALSE
    OBVIOUS
  <2>1. Len(idx) \in 1 .. Len(idx) /\ j < Len(idx)
    BY <1>1, <1>2
  <2>2. idx[j] < idx[Len(idx)] /\ idx[Len(idx)] \in at \cap 1 .. Len(seq)
    BY <1>1, <2>1 DEF Enumerates
  <2> QED BY <1>2, <2>2
<1> QED BY <1>1, <1>2, <1>3 DEF At

\* All the positions after the first ones keep what follows these.
LEMMA SelectedRest ==
  ASSUME NEW S, NEW seq \in Seq(S), NEW at, NEW m \in 0 .. Len(seq),
         at \cap 1 .. Len(seq) = m + 1 .. Len(seq)
  PROVE  Selected(seq, at) = [j \in 1 .. Len(seq) - m |-> seq[m + j]]
<1> DEFINE idx == [j \in 1 .. Len(seq) - m |-> m + j]
<1>1. Len(seq) \in Nat /\ m \in Nat /\ Len(seq) - m \in Nat
  OBVIOUS
<1>2. idx \in [1 .. Len(seq) - m -> Nat]
  BY <1>1
<1>3. idx \in Seq(Nat) /\ Len(idx) = Len(seq) - m
  BY <1>1, <1>2, FunctionIsSeq
<1>4. \A j \in 1 .. Len(seq) - m : idx[j] = m + j
  OBVIOUS
<1> HIDE DEF idx
<1>5. \A n \in m + 1 .. Len(seq) : n - m \in 1 .. Len(idx) /\ idx[n - m] = n
  BY <1>1, <1>3, <1>4
<1>6. Enumerates(idx, m + 1 .. Len(seq))
  BY <1>1, <1>3, <1>4, <1>5 DEF Enumerates
<1>7. Selected(seq, at) = At(seq, idx)
  BY <1>6, SelectedAt
<1> QED BY <1>1, <1>3, <1>4, <1>7 DEF At

\* Numbers are kept in their order.
LEMMA SelectedNumbers ==
  ASSUME NEW m \in Nat, NEW numbers
  PROVE  Enumerates(Selected([n \in 1 .. m |-> n], numbers), numbers \cap 1 .. m)
<1> DEFINE seq == [n \in 1 .. m |-> n]
<1>1. seq \in [1 .. m -> Nat] /\ \A n \in 1 .. m : seq[n] = n
  OBVIOUS
<1> HIDE DEF seq
<1>2. seq \in Seq(Nat) /\ Len(seq) = m
  BY <1>1, FunctionIsSeq
<1>3. PICK idx : /\ Enumerates(idx, numbers \cap 1 .. m)
                 /\ Len(idx) \in Nat
                 /\ Selected(seq, numbers) = At(seq, idx)
  BY <1>2, SelectedExists
<1>4. \A j \in 1 .. Len(idx) : seq[idx[j]] = idx[j]
  BY <1>1, <1>3 DEF Enumerates
<1>5. At(seq, idx) = [j \in 1 .. Len(idx) |-> idx[j]]
  BY <1>4 DEF At
<1>6. idx = [j \in 1 .. Len(idx) |-> idx[j]]
  BY <1>3 DEF Enumerates
<1> QED BY <1>3, <1>5, <1>6 DEF seq

\* There are no more positions in order than there are positions.
LEMMA EnumerationFits ==
  ASSUME NEW idx, NEW at, IsFiniteSet(at),
         idx \in Seq(Nat),
         \A i \in 1 .. Len(idx) : idx[i] \in at,
         \A i, j \in 1 .. Len(idx) : i < j => idx[i] < idx[j]
  PROVE  Len(idx) \in Nat /\ Len(idx) <= Cardinality(at)
<1>1. Len(idx) \in Nat /\ idx = [i \in 1 .. Len(idx) |-> idx[i]]
  OBVIOUS
<1>2. idx \in [1 .. Len(idx) -> at]
  BY <1>1
<1>3. \A i, j \in 1 .. Len(idx) : idx[i] = idx[j] => i = j
  <2> TAKE i, j \in 1 .. Len(idx)
  <2> HAVE idx[i] = idx[j]
  <2>1. idx[i] \in Nat /\ idx[j] \in Nat
    BY ElementOfSeq
  <2>2. ~ (i < j) /\ ~ (j < i)
    BY <2>1
  <2> QED BY <1>1, <2>2
<1>4. idx \in Injection(1 .. Len(idx), at)
  BY <1>2, <1>3 DEF Injection, IsInjective
<1>5. Cardinality(1 .. Len(idx)) <= Cardinality(at)
  BY <1>4, FS_Injection
<1>6. Cardinality(1 .. Len(idx)) = Len(idx)
  <2>1. 1 \in Int /\ Len(idx) \in Int
    BY <1>1
  <2>2. Cardinality(1 .. Len(idx)) = IF 1 > Len(idx) THEN 0 ELSE Len(idx) - 1 + 1
    BY <2>1, FS_Interval, Zenon
  <2> QED BY <1>1, <2>2
<1> QED BY <1>1, <1>5, <1>6

\* And no fewer.
LEMMA EnumerationCounts ==
  ASSUME NEW idx, NEW at, Enumerates(idx, at)
  PROVE  IsFiniteSet(at) /\ Len(idx) \in Nat /\ Cardinality(at) = Len(idx)
<1>1. Len(idx) \in Nat /\ idx = [i \in 1 .. Len(idx) |-> idx[i]]
  BY DEF Enumerates
<1>2. idx \in [1 .. Len(idx) -> at] /\ \A n \in at : \E i \in 1 .. Len(idx) : idx[i] = n
  BY <1>1 DEF Enumerates
<1>3. idx \in Surjection(1 .. Len(idx), at)
  BY <1>2, Fun_IsSurj
<1>4. IsFiniteSet(1 .. Len(idx)) /\ Cardinality(1 .. Len(idx)) = Len(idx)
  <2>1. 1 \in Int /\ Len(idx) \in Int
    BY <1>1
  <2>2. /\ IsFiniteSet(1 .. Len(idx))
        /\ Cardinality(1 .. Len(idx)) = IF 1 > Len(idx) THEN 0 ELSE Len(idx) - 1 + 1
    BY <2>1, FS_Interval, Zenon
  <2> QED BY <1>1, <2>2
<1>5. IsFiniteSet(at) /\ Cardinality(at) <= Len(idx)
  BY <1>3, <1>4, FS_Surjection
<1>6. Len(idx) <= Cardinality(at)
  BY <1>5, EnumerationFits DEF Enumerates
<1>7. Cardinality(at) \in Nat
  BY <1>5, FS_CardinalityType
<1> QED BY <1>1, <1>5, <1>6, <1>7

-----------------------------------------------------------------------------
(* A part of a sequence.                                                   *)

LEMMA SubSeqIs ==
  ASSUME NEW S, NEW seq \in Seq(S), NEW m \in 1 .. Len(seq) + 1, NEW n \in m - 1 .. Len(seq)
  PROVE  /\ SubSeq(seq, m, n) \in Seq(S)
         /\ Len(SubSeq(seq, m, n)) = n - m + 1
         /\ \A i \in 1 .. n - m + 1 : SubSeq(seq, m, n)[i] = seq[m + i - 1]
<1>1. m \in Int /\ n \in Int /\ \A i \in m .. n : seq[i] \in S
  BY ElementOfSeq
<1>2. /\ SubSeq(seq, m, n) \in Seq(S)
      /\ Len(SubSeq(seq, m, n)) = IF m <= n THEN n - m + 1 ELSE 0
      /\ \A i \in 1 .. n - m + 1 : SubSeq(seq, m, n)[i] = seq[m + i - 1]
  BY <1>1, SubSeqProperties
<1> QED BY <1>1, <1>2

-----------------------------------------------------------------------------
(* Folds.                                                                  *)

\* The greatest of the numbers up to n, and the rest of them.
LEMMA GreatestUpTo ==
  ASSUME NEW n \in Nat, n > 0
  PROVE  Max(1 .. n) = n /\ (1 .. n) \ {Max(1 .. n)} = 1 .. n - 1
<1>1. n \in 1 .. n /\ \A y \in 1 .. n : n >= y
  OBVIOUS
<1>2. \A x \in 1 .. n : (\A y \in 1 .. n : x >= y) => x = n
  BY <1>1
<1>3. Max(1 .. n) = n
  BY <1>1, <1>2 DEF Max
<1> QED BY <1>3

LEMMA GreatestOf ==
  ASSUME NEW n \in Nat, n > 0, NEW s \in SUBSET (1 .. n), n \in s
  PROVE  Max(s) = n /\ s \ {n} \in SUBSET (1 .. n - 1)
<1>1. \A y \in s : n >= y
  OBVIOUS
<1>2. \A x \in s : (\A y \in s : x >= y) => x = n
  BY <1>1
<1>3. Max(s) = n
  BY <1>1, <1>2 DEF Max
<1> QED BY <1>3

\* What to do with each of k elements, and what FoldLeft looks for.
StepsOver(k, X) == [1 .. k -> [X -> X]]
Folds(f, k, X, base, step) ==
  /\ f[{}] = base
  /\ \A s \in SUBSET (1 .. k) : s # {} /\ Max(s) \in 1 .. k /\ f[s \ {Max(s)}] \in X =>
       f[s] = step[Max(s)][f[s \ {Max(s)}]]
Solves(g, k, X, base, step) ==
  /\ g \in [SUBSET (1 .. k) -> X]
  /\ \A s \in SUBSET (1 .. k) :
       /\ s = {} => g[s] = base
       /\ s # {} => Max(s) \in 1 .. k /\ g[s] = step[Max(s)][g[s \ {Max(s)}]]
Runs(r, k, X, base, step) ==
  /\ r \in [0 .. k -> X] /\ r[0] = base
  /\ \A n \in 1 .. k : r[n] = step[n][r[n - 1]]

\* What FoldLeft looks for, of positions up to k, exists.
LEMMA FoldExists ==
  ASSUME NEW k \in Nat, NEW X, NEW base \in X, NEW step \in StepsOver(k, X)
  PROVE  \E g : Solves(g, k, X, base, step)
<1> USE DEF StepsOver
<1> DEFINE SolvesTo(g, m) ==
             /\ g \in [SUBSET (1 .. m) -> X]
             /\ \A s \in SUBSET (1 .. m) :
                  /\ s = {} => g[s] = base
                  /\ s # {} => Max(s) \in 1 .. m /\ g[s] = step[Max(s)][g[s \ {Max(s)}]]
           T == {m \in 0 .. k : \E g : SolvesTo(g, m)}
<1>1. 0 \in T
  <2>1. SolvesTo([s \in SUBSET (1 .. 0) |-> base], 0)
    <3>1. SUBSET (1 .. 0) = {{}}
      OBVIOUS
    <3> QED BY <3>1
  <2> QED BY <2>1
<1>2. ASSUME NEW n \in 1 .. k, NEW g, SolvesTo(g, n - 1)
      PROVE  \E h : SolvesTo(h, n)
  <2> DEFINE h == [s \in SUBSET (1 .. n) |-> IF n \in s THEN step[n][g[s \ {n}]] ELSE g[s]]
  <2>2. n \in Nat /\ n > 0
    OBVIOUS
  <2>3. \A s \in SUBSET (1 .. n) :
          /\ n \in s => Max(s) = n /\ s \ {n} \in SUBSET (1 .. n - 1)
          /\ n \notin s => s \in SUBSET (1 .. n - 1)
    BY <2>2, GreatestOf
  <2>4. h \in [SUBSET (1 .. n) -> X]
    <3>1. \A s \in SUBSET (1 .. n) : (IF n \in s THEN step[n][g[s \ {n}]] ELSE g[s]) \in X
      <4> TAKE s \in SUBSET (1 .. n)
      <4>1. CASE n \in s
        <5>1. g[s \ {n}] \in X
          BY <1>2, <2>3, <4>1
        <5> QED BY <5>1, <4>1
      <4>2. CASE n \notin s
        BY <1>2, <2>3, <4>2
      <4> QED BY <4>1, <4>2
    <3> QED BY <3>1
  <2>5. ASSUME NEW s \in SUBSET (1 .. n)
        PROVE  /\ s = {} => h[s] = base
               /\ s # {} => Max(s) \in 1 .. n /\ h[s] = step[Max(s)][h[s \ {Max(s)}]]
    <3>1. CASE n \in s
      <4>1. Max(s) = n /\ s \ {n} \in SUBSET (1 .. n - 1) /\ n \notin s \ {n}
        BY <2>3, <3>1
      <4>2. h[s \ {n}] = g[s \ {n}]
        BY <4>1
      <4>3. h[s] = step[n][g[s \ {n}]]
        BY <3>1
      <4> QED BY <3>1, <4>1, <4>2, <4>3
    <3>2. CASE n \notin s
      <4>1. s \in SUBSET (1 .. n - 1) /\ h[s] = g[s]
        BY <2>3, <3>2
      <4>2. CASE s = {}
        BY <1>2, <4>1, <4>2
      <4>3. CASE s # {}
        <5>1. Max(s) \in 1 .. n - 1 /\ g[s] = step[Max(s)][g[s \ {Max(s)}]]
          BY <1>2, <4>1, <4>3
        <5>2. s \ {Max(s)} \in SUBSET (1 .. n) /\ n \notin s \ {Max(s)}
          BY <3>2
        <5>3. h[s \ {Max(s)}] = g[s \ {Max(s)}]
          BY <5>2
        <5>4. Max(s) \in 1 .. n
          BY <5>1
        <5> HIDE DEF h
        <5> QED BY <4>1, <4>3, <5>1, <5>3, <5>4
      <4> QED BY <4>2, <4>3
    <3> QED BY <3>1, <3>2
  <2> HIDE DEF h
  <2>6. SolvesTo(h, n)
    BY <2>4, <2>5
  <2> QED BY <2>6
<1>3. k \in T
  <2> HIDE DEF SolvesTo
  <2>1. \A n \in 1 .. k : n - 1 \in T => n \in T
    BY <1>2
  <2> HIDE DEF T
  <2>2. \A n \in 0 .. k : n \in T
    BY <1>1, <2>1, Induction
  <2> QED BY <2>2
<1> QED BY <1>3 DEF T, Solves

\* And it is the last of the results that the fold goes through.
LEMMA FoldRuns ==
  ASSUME NEW k \in Nat, NEW X, NEW base \in X, NEW step \in StepsOver(k, X), NEW f,
         Folds(f, k, X, base, step)
  PROVE  \E r : Runs(r, k, X, base, step) /\ f[1 .. k] = r[k]
<1> USE DEF StepsOver, Folds
<1> DEFINE r == [n \in 0 .. k |-> f[1 .. n]]
           T == {n \in 0 .. k : f[1 .. n] \in X}
<1>1. 0 \in T /\ r[0] = base
  <2>1. 1 .. 0 = {}
    OBVIOUS
  <2> QED BY <2>1
<1>2. \A n \in 1 .. k : n - 1 \in T => f[1 .. n] = step[n][f[1 .. n - 1]]
  <2> SUFFICES ASSUME NEW n \in 1 .. k, n - 1 \in T
               PROVE  f[1 .. n] = step[n][f[1 .. n - 1]]
    OBVIOUS
  <2>1. Max(1 .. n) = n /\ (1 .. n) \ {Max(1 .. n)} = 1 .. n - 1
    BY GreatestUpTo
  <2>2. 1 .. n \in SUBSET (1 .. k) /\ n \in 1 .. n /\ f[1 .. n - 1] \in X
    OBVIOUS
  <2> QED BY <2>1, <2>2
<1>3. \A n \in 1 .. k : n - 1 \in T => n \in T
  BY <1>2
<1>4. \A n \in 0 .. k : n \in T
  <2> HIDE DEF T
  <2> QED BY <1>1, <1>3, Induction
<1>5. r \in [0 .. k -> X]
  BY <1>4
<1>6. \A n \in 1 .. k : r[n] = step[n][r[n - 1]]
  <2> SUFFICES ASSUME NEW n \in 1 .. k PROVE r[n] = step[n][r[n - 1]]
    OBVIOUS
  <2>1. n - 1 \in T /\ n \in 0 .. k /\ n - 1 \in 0 .. k
    BY <1>4
  <2>2. f[1 .. n] = step[n][f[1 .. n - 1]]
    BY <1>2, <2>1
  <2> QED BY <2>1, <2>2
<1>7. f[1 .. k] = r[k]
  OBVIOUS
<1> HIDE DEF r
<1> QED BY <1>1, <1>5, <1>6, <1>7 DEF Runs
=============================================================================
