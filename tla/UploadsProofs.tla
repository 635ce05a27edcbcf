---------------------------- MODULE UploadsProofs ----------------------------
(***************************************************************************)
(* What an uploader in parts is told, has published and resumes, for every *)
(* number of parts, content, list, page size and number of requests that   *)
(* arrive late.                                                            *)
(***************************************************************************)
EXTENDS Uploads, SelectionProofs

-----------------------------------------------------------------------------
(* Documents.                                                              *)

\* The children of an element.
Elements(children) ==
  /\ Len(children) \in Nat
  /\ children = [i \in 1 .. Len(children) |-> Elem(children[i][1], children[i][2])]

PlacesOf(children, name) == {i \in 1 .. Len(children) : children[i][1] = name}

LEMMA ElementsOfSeq ==
  ASSUME NEW children, Elements(children)
  PROVE  /\ children \in Seq({children[i] : i \in 1 .. Len(children)})
         /\ DOMAIN children = 1 .. Len(children)
         /\ \A i \in 1 .. Len(children) : children[i] = <<children[i][1], children[i][2]>>
<1>1. DOMAIN children = 1 .. Len(children) /\ Len(children) \in Nat
  BY DEF Elements
<1>2. \A i \in 1 .. Len(children) : children[i] = <<children[i][1], children[i][2]>>
  BY DEF Elements, Elem
<1>3. children \in [1 .. Len(children) -> {children[i] : i \in 1 .. Len(children)}]
  BY DEF Elements
<1> QED BY <1>1, <1>2, <1>3

\* The values of a sequence of elements are a sequence.
LEMMA ValuesAre ==
  ASSUME NEW children, Elements(children), NEW name
  PROVE  \E S, seq :
           /\ seq \in Seq(S) /\ Len(seq) = Len(children) /\ Len(seq) \in Nat
           /\ \A i \in 1 .. Len(children) : seq[i] = children[i][2]
           /\ ValuesOf(children, name) = Selected(seq, PlacesOf(children, name))
<1> DEFINE seq == [i \in DOMAIN children |-> children[i][2]]
           S == {children[i][2] : i \in 1 .. Len(children)}
<1>1. DOMAIN children = 1 .. Len(children) /\ Len(children) \in Nat
  BY ElementsOfSeq DEF Elements
<1>2. seq \in [1 .. Len(children) -> S]
  BY <1>1
<1>3. seq \in Seq(S) /\ Len(seq) = Len(children)
  BY <1>1, <1>2, FunctionIsSeq
<1>4. ValuesOf(children, name) = Selected(seq, PlacesOf(children, name))
  BY <1>1 DEF ValuesOf, PlacesOf
<1>5. \A i \in 1 .. Len(children) : seq[i] = children[i][2]
  BY <1>1
<1> HIDE DEF seq, S
<1> QED BY <1>1, <1>3, <1>4, <1>5

LEMMA ValuesNone ==
  ASSUME NEW children, Elements(children), NEW name,
         \A i \in 1 .. Len(children) : children[i][1] # name
  PROVE  ValuesOf(children, name) = <<>>
<1>1. PICK S, seq : /\ seq \in Seq(S)
                    /\ ValuesOf(children, name) = Selected(seq, PlacesOf(children, name))
  BY ValuesAre
<1>2. PlacesOf(children, name) \cap 1 .. Len(seq) = {}
  BY DEF PlacesOf
<1> QED BY <1>1, <1>2, SelectedNone

LEMMA ValuesOne ==
  ASSUME NEW children, Elements(children), NEW name, NEW i \in 1 .. Len(children),
         children[i][1] = name,
         \A j \in 1 .. Len(children) : children[j][1] = name => j = i
  PROVE  ValuesOf(children, name) = <<children[i][2]>>
<1>1. PICK S, seq : /\ seq \in Seq(S) /\ Len(seq) = Len(children)
                    /\ \A j \in 1 .. Len(children) : seq[j] = children[j][2]
                    /\ ValuesOf(children, name) = Selected(seq, PlacesOf(children, name))
  BY ValuesAre
<1>2. PlacesOf(children, name) \cap 1 .. Len(seq) = {i} /\ i \in Nat
  BY <1>1 DEF PlacesOf
<1>3. Selected(seq, PlacesOf(children, name)) = <<seq[i]>>
  BY <1>1, <1>2, SelectedOne
<1> QED BY <1>1, <1>3

LEMMA ValuesTwo ==
  ASSUME NEW children, Elements(children), NEW name,
         NEW i \in 1 .. Len(children), NEW j \in 1 .. Len(children), i # j,
         children[i][1] = name, children[j][1] = name
  PROVE  Len(ValuesOf(children, name)) \in Nat /\ Len(ValuesOf(children, name)) > 1
<1>1. PICK S, seq : /\ seq \in Seq(S) /\ Len(seq) = Len(children)
                    /\ ValuesOf(children, name) = Selected(seq, PlacesOf(children, name))
  BY ValuesAre
<1>2. i \in PlacesOf(children, name) /\ j \in PlacesOf(children, name)
  BY DEF PlacesOf
<1> QED BY <1>1, <1>2, SelectedTwo

\* A child of a name is among the values of the name.
LEMMA ValuesSome ==
  ASSUME NEW children, Elements(children), NEW name, NEW i \in 1 .. Len(children),
         children[i][1] = name
  PROVE  /\ ValuesOf(children, name) # <<>>
         /\ Len(ValuesOf(children, name)) \in Nat \ {0}
         /\ \E j \in 1 .. Len(ValuesOf(children, name)) :
              ValuesOf(children, name)[j] = children[i][2]
<1>1. PICK S, seq : /\ seq \in Seq(S) /\ Len(seq) = Len(children)
                    /\ \A j \in 1 .. Len(children) : seq[j] = children[j][2]
                    /\ ValuesOf(children, name) = Selected(seq, PlacesOf(children, name))
  BY ValuesAre
<1>2. i \in PlacesOf(children, name)
  BY DEF PlacesOf
<1> QED BY <1>1, <1>2, SelectedSome

\* The children of a name come after m others, and are k.
RestOf(children, name, m, k, values) ==
  /\ Len(children) = m + k
  /\ \A i \in 1 .. Len(children) : children[i][1] = name <=> i > m
  /\ values = [j \in 1 .. k |-> values[j]]
  /\ \A j \in 1 .. k : children[m + j][2] = values[j]

LEMMA ValuesRest ==
  ASSUME NEW children, Elements(children), NEW name, NEW m \in Nat, NEW k \in Nat, NEW values,
         RestOf(children, name, m, k, values)
  PROVE  ValuesOf(children, name) = values
<1>0. /\ Len(children) = m + k
      /\ \A i \in 1 .. Len(children) : children[i][1] = name <=> i > m
      /\ values = [j \in 1 .. k |-> values[j]]
      /\ \A j \in 1 .. k : children[m + j][2] = values[j]
  BY DEF RestOf
<1>1. PICK S, seq : /\ seq \in Seq(S) /\ Len(seq) = Len(children)
                    /\ \A j \in 1 .. Len(children) : seq[j] = children[j][2]
                    /\ ValuesOf(children, name) = Selected(seq, PlacesOf(children, name))
  BY ValuesAre
<1>2. Len(children) \in Nat
  BY DEF Elements
<1>3. PlacesOf(children, name) \cap 1 .. Len(seq) = m + 1 .. Len(seq)
  BY <1>0, <1>1, <1>2 DEF PlacesOf
<1>4. m \in 0 .. Len(seq) /\ Len(seq) - m = k
  BY <1>0, <1>1
<1>5. ValuesOf(children, name) = [j \in 1 .. Len(seq) - m |-> seq[m + j]]
  BY <1>1, <1>3, <1>4, SelectedRest
<1>6. \A j \in 1 .. k : seq[m + j] = values[j]
  BY <1>0, <1>1
<1> QED BY <1>0, <1>4, <1>5, <1>6

-----------------------------------------------------------------------------
(* Damage.                                                                 *)

LEMMA WithoutIs ==
  ASSUME NEW children, Elements(children), NEW i \in 1 .. Len(children)
  PROVE  /\ Elements(Without(children, i))
         /\ Len(Without(children, i)) = Len(children) - 1
         /\ \A j \in 1 .. Len(children) - 1 :
              Without(children, i)[j] = IF j < i THEN children[j] ELSE children[j + 1]
<1> DEFINE S == {children[j] : j \in 1 .. Len(children)}
           front == SubSeq(children, 1, i - 1)
           back == SubSeq(children, i + 1, Len(children))
<1>1. Len(children) \in Nat /\ \A j \in 1 .. Len(children) : children[j] \in S
  BY DEF Elements
<1>2. /\ front \in Seq(S) /\ Len(front) = i - 1
      /\ \A j \in 1 .. i - 1 : front[j] = children[j]
  <2>1. /\ children \in Seq(S) /\ 1 \in 1 .. Len(children) + 1
        /\ i - 1 \in 1 - 1 .. Len(children)
    BY <1>1, ElementsOfSeq
  <2>2. /\ front \in Seq(S)
        /\ Len(front) = i - 1 - 1 + 1
        /\ \A j \in 1 .. i - 1 - 1 + 1 : front[j] = children[1 + j - 1]
    <3> HIDE DEF S
    <3> QED BY <2>1, SubSeqIs
  <2> QED BY <2>2
<1>3. /\ back \in Seq(S) /\ Len(back) = Len(children) - i
      /\ \A j \in 1 .. Len(children) - i : back[j] = children[i + j]
  <2>1. /\ children \in Seq(S) /\ i + 1 \in 1 .. Len(children) + 1
        /\ Len(children) \in i + 1 - 1 .. Len(children)
    BY <1>1, ElementsOfSeq
  <2>2. /\ back \in Seq(S)
        /\ Len(back) = Len(children) - (i + 1) + 1
        /\ \A j \in 1 .. Len(children) - (i + 1) + 1 : back[j] = children[i + 1 + j - 1]
    <3> HIDE DEF S
    <3> QED BY <2>1, SubSeqIs
  <2> QED BY <1>1, <2>2
<1> HIDE DEF S, front, back
<1> DEFINE short == front \o back
<1>4. /\ short \in Seq(S) /\ Len(short) = Len(children) - 1
      /\ \A j \in 1 .. Len(children) - 1 :
           short[j] = IF j < i THEN front[j] ELSE back[j - (i - 1)]
  <2>1. /\ short \in Seq(S) /\ Len(short) = Len(front) + Len(back)
        /\ \A j \in 1 .. Len(front) + Len(back) :
             short[j] = IF j <= Len(front) THEN front[j] ELSE back[j - Len(front)]
    BY <1>2, <1>3, ConcatProperties
  <2> HIDE DEF short
  <2> QED BY <1>1, <1>2, <1>3, <2>1
<1>5. Without(children, i) = short
  BY DEF Without, RemoveAt, front, back
<1> HIDE DEF short
<1>6. \A j \in 1 .. Len(children) - 1 : short[j] = IF j < i THEN children[j] ELSE children[j + 1]
  <2> TAKE j \in 1 .. Len(children) - 1
  <2>1. CASE j < i
    BY <1>1, <1>2, <1>4, <2>1
  <2>2. CASE ~ (j < i)
    <3>1. j - (i - 1) \in 1 .. Len(children) - i /\ i + (j - (i - 1)) = j + 1
      BY <1>1, <2>2
    <3> QED BY <1>3, <1>4, <2>2, <3>1
  <2> QED BY <2>1, <2>2
<1>7. Elements(short)
  <2>1. \A j \in 1 .. Len(children) - 1 : short[j] = Elem(short[j][1], short[j][2])
    <3> TAKE j \in 1 .. Len(children) - 1
    <3>1. j \in 1 .. Len(children) /\ j + 1 \in 1 .. Len(children)
      BY <1>1
    <3>2. children[j] = Elem(children[j][1], children[j][2])
      BY <3>1, ElementsOfSeq DEF Elem
    <3>3. children[j + 1] = Elem(children[j + 1][1], children[j + 1][2])
      BY <3>1, ElementsOfSeq DEF Elem
    <3> QED BY <1>6, <3>2, <3>3
  <2>2. Len(short) \in Nat /\ short = [j \in 1 .. Len(short) |-> short[j]]
    BY <1>1, <1>4
  <2> QED BY <1>4, <2>1, <2>2 DEF Elements
<1> QED BY <1>4, <1>5, <1>6, <1>7

LEMMA TwiceIs ==
  ASSUME NEW children, Elements(children), NEW i \in 1 .. Len(children)
  PROVE  /\ Elements(Twice(children, i))
         /\ Len(Twice(children, i)) = Len(children) + 1
         /\ \A j \in 1 .. Len(children) : Twice(children, i)[j] = children[j]
         /\ Twice(children, i)[Len(children) + 1] = children[i]
<1> DEFINE S == {children[j] : j \in 1 .. Len(children)}
           more == Append(children, children[i])
<1>1. /\ Len(children) \in Nat /\ children \in Seq(S) /\ children[i] \in S
      /\ \A j \in 1 .. Len(children) : children[j] = Elem(children[j][1], children[j][2])
  BY ElementsOfSeq DEF Elements, Elem
<1> HIDE DEF S
<1>2. /\ more \in Seq(S) /\ Len(more) = Len(children) + 1
      /\ \A j \in 1 .. Len(children) : more[j] = children[j]
      /\ more[Len(children) + 1] = children[i]
  BY <1>1
<1> HIDE DEF more
<1>3. \A j \in 1 .. Len(more) : more[j] = Elem(more[j][1], more[j][2])
  <2> TAKE j \in 1 .. Len(more)
  <2>1. CASE j = Len(children) + 1
    BY <1>1, <1>2, <2>1
  <2>2. CASE j # Len(children) + 1
    <3>1. j \in 1 .. Len(children)
      BY <1>1, <1>2, <2>2
    <3> QED BY <1>1, <1>2, <3>1
  <2> QED BY <2>1, <2>2
<1>4. Len(more) \in Nat /\ more = [j \in 1 .. Len(more) |-> more[j]]
  BY <1>1, <1>2
<1>5. Elements(more)
  BY <1>3, <1>4 DEF Elements
<1> QED BY <1>2, <1>5 DEF Twice, more

Changed(children, i, value) == [children EXCEPT ![i][2] = value]

LEMMA ChangedIs ==
  ASSUME NEW children, Elements(children), NEW i \in 1 .. Len(children), NEW value
  PROVE  /\ Elements(Changed(children, i, value))
         /\ Len(Changed(children, i, value)) = Len(children)
         /\ Changed(children, i, value)[i][1] = children[i][1]
         /\ Changed(children, i, value)[i][2] = value
         /\ \A j \in 1 .. Len(children) :
              j # i => Changed(children, i, value)[j] = children[j]
<1> DEFINE changed == [children EXCEPT ![i][2] = value]
           S == {children[j] : j \in 1 .. Len(children)} \cup {<<children[i][1], value>>}
<1>1. /\ Len(children) \in Nat /\ DOMAIN children = 1 .. Len(children)
      /\ \A j \in 1 .. Len(children) : children[j] = <<children[j][1], children[j][2]>>
  BY ElementsOfSeq DEF Elements
<1>2. [children[i] EXCEPT ![2] = value] = <<children[i][1], value>>
  <2>1. children[i] = <<children[i][1], children[i][2]>>
    BY <1>1
  <2>2. \A a, b : [<<a, b>> EXCEPT ![2] = value] = <<a, value>>
    OBVIOUS
  <2> QED BY <2>1, <2>2
<1>3. \A j \in 1 .. Len(children) :
        changed[j] = IF j = i THEN <<children[i][1], value>> ELSE children[j]
  BY <1>1, <1>2
<1>4. changed \in [1 .. Len(children) -> S]
  BY <1>1, <1>3
<1> HIDE DEF S, changed
<1>5. changed \in Seq(S) /\ Len(changed) = Len(children)
  BY <1>1, <1>4, FunctionIsSeq
<1>6. \A j \in 1 .. Len(children) : changed[j] = Elem(changed[j][1], changed[j][2])
  BY <1>1, <1>3 DEF Elem
<1>7. Elements(changed)
  BY <1>1, <1>4, <1>5, <1>6 DEF Elements
<1> QED BY <1>3, <1>5, <1>7 DEF changed, Changed

\* The fields of a part or of a block: each of another name, one its size.
Fields(fields) ==
  /\ Elements(fields)
  /\ \A i, j \in 1 .. Len(fields) : fields[i][1] = fields[j][1] => i = j
  /\ \E i \in 1 .. Len(fields) : fields[i][1] = "Size"

\* Damaged fields lack one, have one twice, or have a size that is no number.
LEMMA DamagedFields ==
  ASSUME NEW fields, Fields(fields), NEW damaged \in FieldsDamaged(fields)
  PROVE  /\ Elements(damaged)
         /\ \/ /\ Len(damaged) = Len(fields) - 1
               /\ \E i \in 1 .. Len(fields) : ValuesOf(damaged, fields[i][1]) = <<>>
            \/ /\ Len(damaged) = Len(fields) + 1
               /\ \E i \in 1 .. Len(fields) : /\ Len(ValuesOf(damaged, fields[i][1])) \in Nat
                                              /\ Len(ValuesOf(damaged, fields[i][1])) > 1
            \/ ValuesOf(damaged, "Size") = <<Unreadable>>
<1>1. Elements(fields) /\ Len(fields) \in Nat /\ DOMAIN fields = 1 .. Len(fields)
  BY ElementsOfSeq DEF Fields, Elements
<1>2. CASE \E i \in 1 .. Len(fields) : damaged = Without(fields, i)
  <2>1. PICK i \in 1 .. Len(fields) : damaged = Without(fields, i)
    BY <1>2
  <2>2. /\ Elements(damaged) /\ Len(damaged) = Len(fields) - 1
        /\ \A j \in 1 .. Len(fields) - 1 :
             damaged[j] = IF j < i THEN fields[j] ELSE fields[j + 1]
    BY <1>1, <2>1, WithoutIs
  <2>3. \A j \in 1 .. Len(damaged) : damaged[j][1] # fields[i][1]
    <3> TAKE j \in 1 .. Len(damaged)
    <3>1. CASE j < i
      <4>1. j \in 1 .. Len(fields) /\ damaged[j] = fields[j] /\ j # i
        BY <1>1, <2>2, <3>1
      <4> QED BY <4>1 DEF Fields
    <3>2. CASE ~ (j < i)
      <4>1. j + 1 \in 1 .. Len(fields) /\ damaged[j] = fields[j + 1] /\ j + 1 # i
        BY <1>1, <2>2, <3>2
      <4> QED BY <4>1 DEF Fields
    <3> QED BY <3>1, <3>2
  <2>4. ValuesOf(damaged, fields[i][1]) = <<>>
    BY <2>2, <2>3, ValuesNone
  <2> QED BY <2>2, <2>4
<1>3. CASE \E i \in 1 .. Len(fields) : damaged = Twice(fields, i)
  <2>1. PICK i \in 1 .. Len(fields) : damaged = Twice(fields, i)
    BY <1>3
  <2>2. /\ Elements(damaged) /\ Len(damaged) = Len(fields) + 1
        /\ damaged[i] = fields[i] /\ damaged[Len(fields) + 1] = fields[i]
    BY <1>1, <2>1, TwiceIs
  <2>3. i \in 1 .. Len(damaged) /\ Len(fields) + 1 \in 1 .. Len(damaged) /\ i # Len(fields) + 1
    BY <1>1, <2>2
  <2>4. /\ Len(ValuesOf(damaged, fields[i][1])) \in Nat
        /\ Len(ValuesOf(damaged, fields[i][1])) > 1
    BY <2>2, <2>3, ValuesTwo
  <2> QED BY <2>2, <2>4
<1>4. CASE damaged = [i \in DOMAIN fields |-> IF fields[i][1] = "Size" THEN Elem("Size", Unreadable)
                                              ELSE fields[i]]
  <2>1. PICK i \in 1 .. Len(fields) : fields[i][1] = "Size"
    BY DEF Fields
  <2> DEFINE S == {fields[j] : j \in 1 .. Len(fields)} \cup {Elem("Size", Unreadable)}
  <2>2. damaged \in [1 .. Len(fields) -> S]
    BY <1>1, <1>4
  <2> HIDE DEF S
  <2>3. damaged \in Seq(S) /\ Len(damaged) = Len(fields)
    BY <1>1, <2>2, FunctionIsSeq
  <2>4. \A j \in 1 .. Len(fields) : fields[j] = Elem(fields[j][1], fields[j][2])
    BY <1>1, ElementsOfSeq DEF Elem
  <2>5. \A j \in 1 .. Len(fields) : damaged[j] = Elem(damaged[j][1], damaged[j][2])
    <3>1. Elem("Size", Unreadable) =
            Elem(Elem("Size", Unreadable)[1], Elem("Size", Unreadable)[2])
      BY DEF Elem
    <3> QED BY <1>1, <1>4, <2>4, <3>1
  <2>6. Elements(damaged)
    BY <1>1, <2>2, <2>3, <2>5 DEF Elements
  <2>7. damaged[i] = Elem("Size", Unreadable)
    BY <1>1, <1>4, <2>1
  <2>8. damaged[i][1] = "Size" /\ damaged[i][2] = Unreadable
    BY <2>7 DEF Elem
  <2>9. \A j \in 1 .. Len(damaged) : damaged[j][1] = "Size" => j = i
    <3> TAKE j \in 1 .. Len(damaged)
    <3> HAVE damaged[j][1] = "Size"
    <3>1. fields[j][1] = "Size"
      BY <1>1, <1>4, <2>3
    <3> QED BY <2>1, <2>3, <3>1 DEF Fields
  <2>10. ValuesOf(damaged, "Size") = <<damaged[i][2]>>
    BY <2>3, <2>6, <2>8, <2>9, ValuesOne
  <2> QED BY <2>6, <2>8, <2>10
<1> QED BY <1>1, <1>2, <1>3, <1>4 DEF FieldsDamaged

-----------------------------------------------------------------------------
(* A page of parts.                                                        *)

PartFields(number, tag) == <<Elem("PartNumber", number), Elem("ETag", tag), Elem("Size", 1)>>

\* The children of a page: two that say what follows it, and then its parts.
PageOf(children, numbers, tags, next, more) ==
  /\ Elements(children)
  /\ Len(numbers) \in Nat
  /\ Len(children) = Len(numbers) + 2
  /\ children[1][1] = "NextPartNumberMarker" /\ children[1][2] = next
  /\ children[2][1] = "IsTruncated" /\ children[2][2] = more
  /\ \A j \in 1 .. Len(numbers) : /\ children[j + 2][1] = "Part"
                                 /\ children[j + 2][2] = PartFields(numbers[j], tags[j])

\* What such a page is read as.
ReadOf(numbers, tags, next, more) ==
  [filled |-> "page", marker |-> IF more = "true" THEN next ELSE None,
   entries |-> [j \in 1 .. Len(numbers) |->
                  [number |-> numbers[j], tag |-> tags[j], state |-> "staged"]]]

LEMMA PartFieldsAre ==
  ASSUME NEW number, NEW tag
  PROVE  /\ Fields(PartFields(number, tag))
         /\ \A i \in 1 .. Len(PartFields(number, tag)) :
              PartFields(number, tag)[i][1] \in {"PartNumber", "ETag", "Size"}
         /\ PartEntry(PartFields(number, tag)) =
              [number |-> number, tag |-> tag, state |-> "staged"]
<1> DEFINE fields == PartFields(number, tag)
<1>1. /\ Len(fields) = 3 /\ fields[1] = <<"PartNumber", number>> /\ fields[2] = <<"ETag", tag>>
      /\ fields[3] = <<"Size", 1>>
  BY DEF PartFields, Elem
<1>2. fields = [i \in 1 .. 3 |-> fields[i]]
  BY DEF PartFields
<1> HIDE DEF fields
<1>3. Elements(fields)
  <2>1. \A i \in 1 .. 3 : fields[i] = Elem(fields[i][1], fields[i][2])
    BY <1>1 DEF Elem
  <2> QED BY <1>1, <1>2, <2>1 DEF Elements
<1>4. Fields(fields)
  BY <1>1, <1>3 DEF Fields
<1>5. ValuesOf(fields, "PartNumber") = <<number>>
  <2>1. 1 \in 1 .. Len(fields) /\ fields[1][1] = "PartNumber" /\ fields[1][2] = number
        /\ \A j \in 1 .. Len(fields) : fields[j][1] = "PartNumber" => j = 1
    BY <1>1
  <2> QED BY <1>3, <2>1, ValuesOne
<1>6. ValuesOf(fields, "ETag") = <<tag>>
  <2>1. 2 \in 1 .. Len(fields) /\ fields[2][1] = "ETag" /\ fields[2][2] = tag
        /\ \A j \in 1 .. Len(fields) : fields[j][1] = "ETag" => j = 2
    BY <1>1
  <2> QED BY <1>3, <2>1, ValuesOne
<1>7. \A i \in 1 .. Len(fields) : fields[i][1] \in {"PartNumber", "ETag", "Size"}
  BY <1>1
<1>8. PartEntry(fields) = [number |-> number, tag |-> tag, state |-> "staged"]
  BY <1>5, <1>6 DEF PartEntry
<1> QED BY <1>4, <1>7, <1>8 DEF fields

Unsaid == ""

\* What is said of the next page.
LEMMA NextMarkerIs ==
  /\ \A markers : NextMarker(<<>>, markers) = "fault"
  /\ \A markers : NextMarker(<<"false">>, markers) = None
  /\ \A markers : markers \in {<<>>, <<Unsaid>>} => NextMarker(<<"true">>, markers) = "fault"
  /\ \A next : NextMarker(<<"true">>, <<next>>) \in {"fault", next}
<1>1. <<"false">> # <<>> /\ <<"true">> # <<>> /\ <<"true">> # <<"false">>
  <2>1. Len(<<"false">>) = 1 /\ Len(<<>>) = 0 /\ Len(<<"true">>) = 1
    OBVIOUS
  <2>2. <<"true">>[1] = "true" /\ <<"false">>[1] = "false"
    OBVIOUS
  <2>3. <<"true">>[1] # <<"false">>[1]
    BY <2>2
  <2> QED BY <2>1, <2>3
<1>2. \A markers : NextMarker(<<>>, markers) = "fault"
  BY DEF NextMarker, NamedNext
<1>3. \A markers : NextMarker(<<"false">>, markers) = None
  BY <1>1 DEF NextMarker, NamedNext
<1>4. \A markers : markers \in {<<>>, <<Unsaid>>} => NextMarker(<<"true">>, markers) = "fault"
  BY <1>1 DEF NextMarker, NamedNext, Unsaid
<1>5. \A next : NextMarker(<<"true">>, <<next>>) \in {"fault", next}
  <2> TAKE next
  <2>1. <<next>>[1] = next
    OBVIOUS
  <2> QED BY <1>1, <2>1 DEF NextMarker, NamedNext
<1> QED BY <1>2, <1>3, <1>4, <1>5

\* A page that is read is whole: its parts have each of their fields once, and
\* it says once whether another follows.
LEMMA FilledParts ==
  ASSUME NEW children, Elements(children), NEW room \in Nat,
         FillParts(Doc("ListPartsResult", children), room).filled = "page"
  PROVE  LET parts == ValuesOf(children, "Part")
             truncated == ValuesOf(children, "IsTruncated")
             next == NextMarker(truncated, ValuesOf(children, "NextPartNumberMarker"))
         IN /\ \A i \in DOMAIN parts : /\ BuildsPart(parts[i])
                                       /\ Once(parts[i], {"PartNumber", "ETag", "Size"})
            /\ Once(children, {"IsTruncated", "NextPartNumberMarker"})
            /\ truncated \in {<<"true">>, <<"false">>}
            /\ next # "fault"
            /\ FillParts(Doc("ListPartsResult", children), room) =
                 [filled |-> "page", marker |-> next,
                  entries |-> [i \in DOMAIN parts |-> PartEntry(parts[i])]]
<1> DEFINE body == Doc("ListPartsResult", children)
           parts == ValuesOf(children, "Part")
           truncated == ValuesOf(children, "IsTruncated")
           next == NextMarker(truncated, ValuesOf(children, "NextPartNumberMarker"))
           scanned ==
             /\ body.root = "ListPartsResult"
             /\ \A i \in DOMAIN parts :
                  parts[i] # <<>> /\ Once(parts[i], {"PartNumber", "ETag", "Size"})
             /\ \A i \in DOMAIN parts : i <= room => BuildsPart(parts[i])
             /\ Once(children, {"IsTruncated", "NextPartNumberMarker"})
             /\ truncated \in {<<>>, <<"true">>, <<"false">>}
           page == [filled |-> "page", marker |-> next,
                    entries |-> [i \in DOMAIN parts |-> PartEntry(parts[i])]]
<1>1. body.root = "ListPartsResult" /\ body.children = children
  BY DEF Doc
<1>2. Len(parts) \in Nat /\ DOMAIN parts = 1 .. Len(parts)
  <2>1. PICK S, seq : /\ seq \in Seq(S)
                      /\ parts = Selected(seq, PlacesOf(children, "Part"))
    BY ValuesAre
  <2>2. parts \in Seq(S)
    BY <2>1, SelectedExists
  <2> QED BY <2>2
<1> HIDE DEF body, parts, truncated, next, page
<1>3. FillParts(body, room) =
        CASE body.root = "Error" -> Unfilled("service")
          [] ~ scanned           -> Unfilled("body")
          [] Len(parts) > room   -> Unfilled("capacity")
          [] next = "fault"      -> Unfilled("body")
          [] OTHER -> page
  BY <1>1, Zenon DEF FillParts, parts, truncated, next, page
<1>4. \A why : why # "page" => Unfilled(why).filled # "page"
  BY DEF Unfilled
<1>5. /\ scanned /\ ~ (Len(parts) > room) /\ next # "fault"
      /\ FillParts(body, room) = page
  <2> HIDE DEF scanned
  <2>1. body.root # "Error" /\ FillParts(body, room).filled = "page"
    BY <1>1 DEF body
  <2> QED BY <1>3, <1>4, <2>1
<1>6. \A i \in DOMAIN parts : BuildsPart(parts[i]) /\ Once(parts[i], {"PartNumber", "ETag", "Size"})
  <2> TAKE i \in DOMAIN parts
  <2>1. i <= room
    BY <1>2, <1>5
  <2> QED BY <1>5, <2>1
<1>7. truncated # <<>>
  BY <1>5, NextMarkerIs DEF next
<1> QED BY <1>5, <1>6, <1>7 DEF body, parts, truncated, next, page

\* What children say of a page, whatever their places: its parts, and whether
\* another page follows, and that one, or nothing of it.
Says(children, numbers, tags, next, more) ==
  /\ Len(numbers) \in Nat
  /\ ValuesOf(children, "Part") = [j \in 1 .. Len(numbers) |-> PartFields(numbers[j], tags[j])]
  /\ ValuesOf(children, "IsTruncated") = <<more>>
  /\ \/ ValuesOf(children, "NextPartNumberMarker") = <<>>
     \/ ValuesOf(children, "NextPartNumberMarker") = <<Unsaid>>
     \/ ValuesOf(children, "NextPartNumberMarker") = <<next>>

\* What a page is read as depends on its parts, and on what it says follows.
LEMMA ReadAsOf ==
  ASSUME NEW children, Elements(children), NEW room \in Nat,
         FillParts(Doc("ListPartsResult", children), room).filled = "page",
         NEW numbers, NEW tags, NEW next, NEW more \in {"true", "false"},
         Says(children, numbers, tags, next, more)
  PROVE  FillParts(Doc("ListPartsResult", children), room) = ReadOf(numbers, tags, next, more)
<1> DEFINE parts == ValuesOf(children, "Part")
           markers == ValuesOf(children, "NextPartNumberMarker")
           marker == NextMarker(<<more>>, markers)
<1>1. /\ marker # "fault"
      /\ FillParts(Doc("ListPartsResult", children), room) =
           [filled |-> "page", marker |-> marker,
            entries |-> [i \in DOMAIN parts |-> PartEntry(parts[i])]]
  <2>1. ValuesOf(children, "IsTruncated") = <<more>>
    BY DEF Says
  <2>2. LET next1 == NextMarker(ValuesOf(children, "IsTruncated"), markers)
        IN /\ next1 # "fault"
           /\ FillParts(Doc("ListPartsResult", children), room) =
                [filled |-> "page", marker |-> next1,
                 entries |-> [i \in DOMAIN parts |-> PartEntry(parts[i])]]
    BY FilledParts
  <2> QED BY <2>1, <2>2
<1>2. marker = IF more = "true" THEN next ELSE None
  <2> HIDE DEF markers
  <2>1. CASE more = "false"
    BY <2>1, NextMarkerIs
  <2>2. CASE more = "true"
    <3>1. markers = <<>> \/ markers = <<Unsaid>> \/ markers = <<next>>
      BY DEF markers, Says
    <3>2. markers # <<>> /\ markers # <<Unsaid>>
      BY <1>1, <2>2, NextMarkerIs
    <3>3. markers = <<next>>
      BY <3>1, <3>2
    <3>4. marker \in {"fault", next}
      BY <2>2, <3>3, NextMarkerIs
    <3> QED BY <1>1, <2>2, <3>4
  <2> QED BY <2>1, <2>2
<1>3. [i \in DOMAIN parts |-> PartEntry(parts[i])] =
        [j \in 1 .. Len(numbers) |-> [number |-> numbers[j], tag |-> tags[j], state |-> "staged"]]
  <2>1. parts = [j \in 1 .. Len(numbers) |-> PartFields(numbers[j], tags[j])]
    BY DEF Says
  <2>2. \A j \in 1 .. Len(numbers) :
          PartEntry(parts[j]) = [number |-> numbers[j], tag |-> tags[j], state |-> "staged"]
    BY <2>1, PartFieldsAre
  <2> QED BY <2>1, <2>2
<1> QED BY <1>1, <1>2, <1>3 DEF ReadOf

LEMMA PageValues ==
  ASSUME NEW children, NEW numbers, NEW tags, NEW next, NEW more,
         PageOf(children, numbers, tags, next, more)
  PROVE  /\ ValuesOf(children, "Part") =
              [j \in 1 .. Len(numbers) |-> PartFields(numbers[j], tags[j])]
         /\ ValuesOf(children, "IsTruncated") = <<more>>
         /\ ValuesOf(children, "NextPartNumberMarker") = <<next>>
<1>1. /\ Elements(children) /\ Len(numbers) \in Nat /\ Len(children) = Len(numbers) + 2
      /\ children[1][1] = "NextPartNumberMarker" /\ children[1][2] = next
      /\ children[2][1] = "IsTruncated" /\ children[2][2] = more
      /\ \A j \in 1 .. Len(numbers) : /\ children[j + 2][1] = "Part"
                                      /\ children[j + 2][2] = PartFields(numbers[j], tags[j])
  BY DEF PageOf
<1>2. \A i \in 3 .. Len(children) : children[i][1] = "Part"
  <2> TAKE i \in 3 .. Len(children)
  <2>1. i - 2 \in 1 .. Len(numbers) /\ (i - 2) + 2 = i
    BY <1>1
  <2>2. children[(i - 2) + 2][1] = "Part"
    BY <1>1, <2>1
  <2> QED BY <2>1, <2>2
<1>3. ValuesOf(children, "Part") = [j \in 1 .. Len(numbers) |-> PartFields(numbers[j], tags[j])]
  <2> DEFINE values == [j \in 1 .. Len(numbers) |-> PartFields(numbers[j], tags[j])]
  <2>1. 2 \in Nat /\ Len(children) = 2 + Len(numbers)
    BY <1>1
  <2>2. \A i \in 1 .. Len(children) : children[i][1] = "Part" <=> i > 2
    <3> TAKE i \in 1 .. Len(children)
    <3>1. i = 1 \/ i = 2 \/ i \in 3 .. Len(children)
      BY <1>1
    <3> QED BY <1>1, <1>2, <3>1
  <2>3. \A j \in 1 .. Len(numbers) : children[2 + j][2] = values[j]
    <3> TAKE j \in 1 .. Len(numbers)
    <3>1. 2 + j = j + 2
      BY <1>1
    <3> QED BY <1>1, <3>1
  <2>4. DOMAIN values = 1 .. Len(numbers) /\ values = [j \in 1 .. Len(numbers) |-> values[j]]
    OBVIOUS
  <2> HIDE DEF values
  <2>5. ValuesOf(children, "Part") = values
    <3>1. RestOf(children, "Part", 2, Len(numbers), values)
      BY <2>1, <2>2, <2>3, <2>4 DEF RestOf
    <3> QED BY <1>1, <3>1, ValuesRest
  <2> QED BY <2>5 DEF values
<1>4. ValuesOf(children, "IsTruncated") = <<more>>
  <2>1. 2 \in 1 .. Len(children)
    BY <1>1
  <2>2. \A j \in 1 .. Len(children) : children[j][1] = "IsTruncated" => j = 2
    <3> TAKE j \in 1 .. Len(children)
    <3>1. j = 1 \/ j = 2 \/ j \in 3 .. Len(children)
      BY <1>1
    <3> QED BY <1>1, <1>2, <3>1
  <2>3. ValuesOf(children, "IsTruncated") = <<children[2][2]>>
    BY <1>1, <2>1, <2>2, ValuesOne
  <2> QED BY <1>1, <2>3
<1>5. ValuesOf(children, "NextPartNumberMarker") = <<next>>
  <2>1. 1 \in 1 .. Len(children)
    BY <1>1
  <2>2. \A j \in 1 .. Len(children) : children[j][1] = "NextPartNumberMarker" => j = 1
    <3> TAKE j \in 1 .. Len(children)
    <3>1. j = 1 \/ j = 2 \/ j \in 3 .. Len(children)
      BY <1>1
    <3> QED BY <1>1, <1>2, <3>1
  <2>3. ValuesOf(children, "NextPartNumberMarker") = <<children[1][2]>>
    BY <1>1, <2>1, <2>2, ValuesOne
  <2> QED BY <1>1, <2>3
<1> QED BY <1>3, <1>4, <1>5

\* A page that arrives whole is read as it was written.
LEMMA WholePageRead ==
  ASSUME NEW children, NEW numbers, NEW tags, NEW next, NEW more \in {"true", "false"},
         PageOf(children, numbers, tags, next, more), NEW room \in Nat,
         FillParts(Doc("ListPartsResult", children), room).filled = "page"
  PROVE  FillParts(Doc("ListPartsResult", children), room) = ReadOf(numbers, tags, next, more)
<1>1. Elements(children) /\ Len(numbers) \in Nat
  BY DEF PageOf
<1>2. Says(children, numbers, tags, next, more)
  BY <1>1, PageValues DEF Says
<1> QED BY <1>1, <1>2, ReadAsOf

\* A page that lost an element that is no part is read as it was written, or
\* refused.
LEMMA ShortPageRead ==
  ASSUME NEW children, NEW numbers, NEW tags, NEW next, NEW more \in {"true", "false"},
         PageOf(children, numbers, tags, next, more), NEW room \in Nat, NEW i \in 1 .. 2,
         NEW short, short = Without(children, i),
         FillParts(Doc("ListPartsResult", short), room).filled = "page"
  PROVE  FillParts(Doc("ListPartsResult", short), room) = ReadOf(numbers, tags, next, more)
<1>1. /\ Elements(children) /\ Len(numbers) \in Nat /\ Len(children) = Len(numbers) + 2
      /\ i \in 1 .. Len(children)
      /\ children[1][1] = "NextPartNumberMarker" /\ children[1][2] = next
      /\ children[2][1] = "IsTruncated" /\ children[2][2] = more
  BY DEF PageOf
<1>2. \A j \in 1 .. Len(numbers) : /\ children[j + 2][1] = "Part"
                                  /\ children[j + 2][2] = PartFields(numbers[j], tags[j])
  BY DEF PageOf
<1>3. /\ Elements(short) /\ Len(short) = Len(numbers) + 1
      /\ \A j \in 1 .. Len(numbers) + 1 :
           short[j] = IF j < i THEN children[j] ELSE children[j + 1]
  <2>1. /\ Elements(short) /\ Len(short) = Len(children) - 1
        /\ \A j \in 1 .. Len(children) - 1 :
             short[j] = IF j < i THEN children[j] ELSE children[j + 1]
    BY <1>1, WithoutIs
  <2>2. Len(children) - 1 = Len(numbers) + 1
    BY <1>1
  <2> QED BY <2>1, <2>2
<1>4. \A j \in 1 .. Len(numbers) : short[1 + j] = children[j + 2]
  <2> TAKE j \in 1 .. Len(numbers)
  <2>1. 1 + j \in 1 .. Len(numbers) + 1 /\ ~ (1 + j < i) /\ (1 + j) + 1 = j + 2
    BY <1>1
  <2>2. short[1 + j] = children[(1 + j) + 1]
    BY <1>3, <2>1
  <2> QED BY <2>1, <2>2
<1>5. \A j \in 2 .. Len(short) : short[j][1] = "Part"
  <2> TAKE j \in 2 .. Len(short)
  <2>1. j - 1 \in 1 .. Len(numbers) /\ 1 + (j - 1) = j
    BY <1>1, <1>3
  <2>2. short[1 + (j - 1)][1] = "Part"
    BY <1>2, <1>4, <2>1
  <2> QED BY <2>1, <2>2
<1>6. CASE i = 1
  <2>1. 1 \in 1 .. Len(numbers) + 1 /\ ~ (1 < i) /\ 1 + 1 = 2
    BY <1>1, <1>6
  <2>2. short[1] = children[2]
    BY <1>3, <2>1
  <2>3. ValuesOf(short, "Part") = [j \in 1 .. Len(numbers) |-> PartFields(numbers[j], tags[j])]
    <3> DEFINE values == [j \in 1 .. Len(numbers) |-> PartFields(numbers[j], tags[j])]
    <3>1. 1 \in Nat /\ Len(short) = 1 + Len(numbers)
      BY <1>1, <1>3
    <3>2. \A j \in 1 .. Len(short) : short[j][1] = "Part" <=> j > 1
      <4> TAKE j \in 1 .. Len(short)
      <4>1. j = 1 \/ j \in 2 .. Len(short)
        BY <1>1, <1>3
      <4>2. short[1][1] # "Part"
        BY <1>1, <2>2
      <4> QED BY <1>5, <4>1, <4>2
    <3>3. \A j \in 1 .. Len(numbers) : short[1 + j][2] = values[j]
      BY <1>2, <1>4
    <3>4. DOMAIN values = 1 .. Len(numbers) /\ values = [j \in 1 .. Len(numbers) |-> values[j]]
      OBVIOUS
    <3> HIDE DEF values
    <3>5. ValuesOf(short, "Part") = values
      <4>1. RestOf(short, "Part", 1, Len(numbers), values)
        BY <3>1, <3>2, <3>3, <3>4 DEF RestOf
      <4> QED BY <1>1, <1>3, <4>1, ValuesRest
    <3> QED BY <3>5 DEF values
  <2>4. ValuesOf(short, "IsTruncated") = <<more>>
    <3>1. 1 \in 1 .. Len(short) /\ short[1][1] = "IsTruncated" /\ short[1][2] = more
      BY <1>1, <1>3, <2>2
    <3>2. \A j \in 1 .. Len(short) : short[j][1] = "IsTruncated" => j = 1
      <4> TAKE j \in 1 .. Len(short)
      <4>1. j = 1 \/ j \in 2 .. Len(short)
        BY <1>1, <1>3
      <4> QED BY <1>5, <4>1
    <3>3. ValuesOf(short, "IsTruncated") = <<short[1][2]>>
      BY <1>3, <3>1, <3>2, ValuesOne
    <3> QED BY <3>1, <3>3
  <2>5. ValuesOf(short, "NextPartNumberMarker") = <<>>
    <3>1. \A j \in 1 .. Len(short) : short[j][1] # "NextPartNumberMarker"
      <4> TAKE j \in 1 .. Len(short)
      <4>1. j = 1 \/ j \in 2 .. Len(short)
        BY <1>1, <1>3
      <4>2. short[1][1] = "IsTruncated"
        BY <1>1, <2>2
      <4> QED BY <1>5, <4>1, <4>2
    <3> QED BY <1>3, <3>1, ValuesNone
  <2>6. Says(short, numbers, tags, next, more)
    BY <1>1, <2>3, <2>4, <2>5 DEF Says
  <2> QED BY <1>3, <2>6, ReadAsOf
<1>7. CASE i = 2
  <2>1. 1 \in 1 .. Len(numbers) + 1 /\ 1 < i
    BY <1>1, <1>7
  <2>2. short[1] = children[1]
    BY <1>3, <2>1
  <2>3. \A j \in 1 .. Len(short) : short[j][1] # "IsTruncated"
    <3> TAKE j \in 1 .. Len(short)
    <3>1. j = 1 \/ j \in 2 .. Len(short)
      BY <1>1, <1>3
    <3>2. short[1][1] = "NextPartNumberMarker"
      BY <1>1, <2>2
    <3> QED BY <1>5, <3>1, <3>2
  <2>4. ValuesOf(short, "IsTruncated") = <<>>
    BY <1>3, <2>3, ValuesNone
  <2>5. NextMarker(ValuesOf(short, "IsTruncated"), ValuesOf(short, "NextPartNumberMarker")) # "fault"
    BY <1>3, FilledParts
  <2> QED BY <2>4, <2>5, NextMarkerIs
<1> QED BY <1>6, <1>7

\* One that has an element that is no part twice is refused.
LEMMA DoublePageRefused ==
  ASSUME NEW children, NEW numbers, NEW tags, NEW next, NEW more,
         PageOf(children, numbers, tags, next, more), NEW room \in Nat, NEW i \in 1 .. 2,
         NEW double, double = Twice(children, i),
         FillParts(Doc("ListPartsResult", double), room).filled = "page"
  PROVE  FALSE
<1>1. /\ Elements(children) /\ Len(children) \in Nat /\ i \in 1 .. Len(children)
      /\ children[i][1] \in {"IsTruncated", "NextPartNumberMarker"}
  BY DEF PageOf
<1>2. /\ Elements(double) /\ Len(double) = Len(children) + 1
      /\ double[i] = children[i] /\ double[Len(children) + 1] = children[i]
  BY <1>1, TwiceIs
<1>3. i \in 1 .. Len(double) /\ Len(children) + 1 \in 1 .. Len(double) /\ i # Len(children) + 1
  BY <1>1, <1>2
<1>4. /\ Len(ValuesOf(double, children[i][1])) \in Nat
      /\ Len(ValuesOf(double, children[i][1])) > 1
  BY <1>2, <1>3, ValuesTwo
<1>5. Once(double, {"IsTruncated", "NextPartNumberMarker"})
  BY <1>2, FilledParts
<1>6. Len(ValuesOf(double, children[i][1])) <= 1
  BY <1>1, <1>5 DEF Once
<1> QED BY <1>4, <1>6

\* One whose marker is not said is read as it was written, or refused.
LEMMA NoMarkerPageRead ==
  ASSUME NEW children, NEW numbers, NEW tags, NEW next, NEW more \in {"true", "false"},
         PageOf(children, numbers, tags, next, more), NEW room \in Nat,
         NEW changed, changed = Changed(children, 1, Unsaid),
         FillParts(Doc("ListPartsResult", changed), room).filled = "page"
  PROVE  FillParts(Doc("ListPartsResult", changed), room) = ReadOf(numbers, tags, next, more)
<1>1. /\ Elements(children) /\ Len(numbers) \in Nat /\ Len(children) = Len(numbers) + 2
      /\ 1 \in 1 .. Len(children)
      /\ children[1][1] = "NextPartNumberMarker" /\ children[1][2] = next
      /\ children[2][1] = "IsTruncated" /\ children[2][2] = more
  BY DEF PageOf
<1>2. \A j \in 1 .. Len(numbers) : /\ children[j + 2][1] = "Part"
                                  /\ children[j + 2][2] = PartFields(numbers[j], tags[j])
  BY DEF PageOf
<1>3. /\ Elements(changed) /\ Len(changed) = Len(children)
      /\ changed[1][1] = children[1][1] /\ changed[1][2] = Unsaid
      /\ \A j \in 1 .. Len(children) : j # 1 => changed[j] = children[j]
  BY <1>1, ChangedIs
<1>4. \A j \in 1 .. Len(numbers) : /\ changed[j + 2][1] = "Part"
                                  /\ changed[j + 2][2] = PartFields(numbers[j], tags[j])
  <2> TAKE j \in 1 .. Len(numbers)
  <2>1. j + 2 \in 1 .. Len(children) /\ j + 2 # 1
    BY <1>1
  <2>2. changed[j + 2] = children[j + 2]
    BY <1>3, <2>1
  <2> QED BY <1>2, <2>2
<1>5. 2 \in 1 .. Len(children) /\ changed[2] = children[2]
  BY <1>1, <1>3
<1>6. PageOf(changed, numbers, tags, Unsaid, more)
  BY <1>1, <1>3, <1>4, <1>5 DEF PageOf
<1>7. Says(changed, numbers, tags, next, more)
  BY <1>1, <1>6, PageValues DEF Says
<1> QED BY <1>3, <1>7, ReadAsOf

\* One that does not say in its words whether another follows is refused.
LEMMA JunkPageRefused ==
  ASSUME NEW children, NEW numbers, NEW tags, NEW next, NEW more \in {"true", "false"},
         PageOf(children, numbers, tags, next, more), NEW room \in Nat,
         NEW changed, changed = Changed(children, 2, "junk"),
         FillParts(Doc("ListPartsResult", changed), room).filled = "page"
  PROVE  FALSE
<1>1. /\ Elements(children) /\ Len(numbers) \in Nat /\ Len(children) = Len(numbers) + 2
      /\ 2 \in 1 .. Len(children)
      /\ children[1][1] = "NextPartNumberMarker" /\ children[1][2] = next
      /\ children[2][1] = "IsTruncated" /\ children[2][2] = more
  BY DEF PageOf
<1>2. \A j \in 1 .. Len(numbers) : /\ children[j + 2][1] = "Part"
                                  /\ children[j + 2][2] = PartFields(numbers[j], tags[j])
  BY DEF PageOf
<1>3. /\ Elements(changed) /\ Len(changed) = Len(children)
      /\ changed[2][1] = children[2][1] /\ changed[2][2] = "junk"
      /\ \A j \in 1 .. Len(children) : j # 2 => changed[j] = children[j]
  BY <1>1, ChangedIs
<1>4. \A j \in 1 .. Len(numbers) : /\ changed[j + 2][1] = "Part"
                                  /\ changed[j + 2][2] = PartFields(numbers[j], tags[j])
  <2> TAKE j \in 1 .. Len(numbers)
  <2>1. j + 2 \in 1 .. Len(children) /\ j + 2 # 2
    BY <1>1
  <2>2. changed[j + 2] = children[j + 2]
    BY <1>3, <2>1
  <2> QED BY <1>2, <2>2
<1>5. 1 \in 1 .. Len(children) /\ changed[1] = children[1]
  BY <1>1, <1>3
<1>6. PageOf(changed, numbers, tags, next, "junk")
  BY <1>1, <1>3, <1>4, <1>5 DEF PageOf
<1>7. ValuesOf(changed, "IsTruncated") = <<"junk">>
  BY <1>6, PageValues
<1>8. ValuesOf(changed, "IsTruncated") \in {<<"true">>, <<"false">>}
  BY <1>3, FilledParts
<1>9. <<"junk">>[1] = "junk" /\ <<"true">>[1] = "true" /\ <<"false">>[1] = "false"
  OBVIOUS
<1> QED BY <1>7, <1>8, <1>9

\* One with a part whose fields are damaged is refused.
LEMMA DamagedPartRefused ==
  ASSUME NEW children, NEW numbers, NEW tags, NEW next, NEW more,
         PageOf(children, numbers, tags, next, more), NEW room \in Nat,
         NEW i \in 3 .. Len(children), NEW fields \in FieldsDamaged(children[i][2]),
         NEW changed, changed = Changed(children, i, fields),
         FillParts(Doc("ListPartsResult", changed), room).filled = "page"
  PROVE  FALSE
<1> DEFINE names == {"PartNumber", "ETag", "Size"}
           whole == PartFields(numbers[i - 2], tags[i - 2])
<1>1. /\ Elements(children) /\ Len(numbers) \in Nat /\ Len(children) = Len(numbers) + 2
      /\ i \in 1 .. Len(children) /\ i - 2 \in 1 .. Len(numbers) /\ (i - 2) + 2 = i
  BY DEF PageOf
<1>2. children[i][1] = "Part" /\ children[i][2] = whole
  <2>1. /\ children[(i - 2) + 2][1] = "Part"
        /\ children[(i - 2) + 2][2] = PartFields(numbers[i - 2], tags[i - 2])
    BY <1>1 DEF PageOf
  <2> QED BY <1>1, <2>1
<1>3. /\ Elements(changed) /\ Len(changed) = Len(children)
      /\ changed[i][1] = "Part" /\ changed[i][2] = fields
  BY <1>1, <1>2, ChangedIs
<1> DEFINE parts == ValuesOf(changed, "Part")
<1>4. DOMAIN parts = 1 .. Len(parts)
  <2>1. PICK S, seq : seq \in Seq(S) /\ parts = Selected(seq, PlacesOf(changed, "Part"))
    BY <1>3, ValuesAre
  <2>2. parts \in Seq(S)
    BY <2>1, SelectedExists
  <2> QED BY <2>2
<1>5. PICK j \in 1 .. Len(parts) : parts[j] = fields
  <2>1. i \in 1 .. Len(changed)
    BY <1>1, <1>3
  <2> QED BY <1>3, <2>1, ValuesSome
<1>6. BuildsPart(fields) /\ Once(fields, names)
  <2>1. \A k \in DOMAIN parts : BuildsPart(parts[k]) /\ Once(parts[k], names)
    BY <1>3, FilledParts
  <2> QED BY <1>4, <1>5, <2>1
<1>7. Fields(whole) /\ \A k \in 1 .. Len(whole) : whole[k][1] \in names
  BY PartFieldsAre
<1>8. fields \in FieldsDamaged(whole)
  BY <1>2
<1> HIDE DEF whole, parts
<1>9. CASE \E k \in 1 .. Len(whole) : ValuesOf(fields, whole[k][1]) = <<>>
  BY <1>6, <1>7, <1>9 DEF BuildsPart
<1>10. CASE \E k \in 1 .. Len(whole) : /\ Len(ValuesOf(fields, whole[k][1])) \in Nat
                                       /\ Len(ValuesOf(fields, whole[k][1])) > 1
  <2>1. PICK k \in 1 .. Len(whole) : /\ Len(ValuesOf(fields, whole[k][1])) \in Nat
                                     /\ Len(ValuesOf(fields, whole[k][1])) > 1
    BY <1>10
  <2>2. Len(ValuesOf(fields, whole[k][1])) <= 1
    BY <1>6, <1>7 DEF Once
  <2> QED BY <2>1, <2>2
<1>11. CASE ValuesOf(fields, "Size") = <<Unreadable>>
  <2>1. ValuesOf(fields, "Size")[1] # Unreadable
    BY <1>6 DEF BuildsPart
  <2>2. \A x : <<x>>[1] = x
    OBVIOUS
  <2> QED BY <1>11, <2>1, <2>2
<1> QED BY <1>7, <1>8, <1>9, <1>10, <1>11, DamagedFields

\* A page that arrives damaged is read as it was written, or refused.
LEMMA DamagedPageRead ==
  ASSUME NEW children, NEW numbers, NEW tags, NEW next, NEW more \in {"true", "false"},
         PageOf(children, numbers, tags, next, more), NEW room \in Nat,
         NEW i \in DOMAIN children, NEW damaged \in ChildDamages(children, i),
         FillParts(Doc("ListPartsResult", damaged), room).filled = "page"
  PROVE  FillParts(Doc("ListPartsResult", damaged), room) = ReadOf(numbers, tags, next, more)
<1>1. /\ Elements(children) /\ Len(numbers) \in Nat /\ Len(children) = Len(numbers) + 2
      /\ children[1][1] = "NextPartNumberMarker" /\ children[2][1] = "IsTruncated"
  BY DEF PageOf
<1>2. DOMAIN children = 1 .. Len(children)
  BY <1>1, ElementsOfSeq
<1>3. CASE i \in 1 .. 2
  <2>1. children[i][1] # "Part"
    BY <1>1, <1>3
  <2>2. \/ damaged = Without(children, i)
        \/ damaged = Twice(children, i)
        \/ i = 1 /\ damaged = Changed(children, 1, Unsaid)
        \/ i = 2 /\ damaged = Changed(children, 2, "junk")
    <3>1. CASE i = 1
      BY <1>1, <2>1, <3>1 DEF ChildDamages, Changed, Unsaid
    <3>2. CASE i = 2
      BY <1>1, <2>1, <3>2 DEF ChildDamages, Changed
    <3> QED BY <1>3, <3>1, <3>2
  <2>3. CASE damaged = Without(children, i)
    BY <1>3, <2>3, ShortPageRead
  <2>4. CASE damaged = Twice(children, i)
    BY <1>3, <2>4, DoublePageRefused
  <2>5. CASE damaged = Changed(children, 1, Unsaid)
    BY <2>5, NoMarkerPageRead
  <2>6. CASE damaged = Changed(children, 2, "junk")
    BY <2>6, JunkPageRefused
  <2> QED BY <2>2, <2>3, <2>4, <2>5, <2>6
<1>4. CASE i \in 3 .. Len(children)
  <2>1. children[i][1] = "Part"
    <3>1. i - 2 \in 1 .. Len(numbers) /\ (i - 2) + 2 = i
      BY <1>1, <1>4
    <3>2. children[(i - 2) + 2][1] = "Part"
      BY <3>1 DEF PageOf
    <3> QED BY <3>1, <3>2
  <2>2. PICK fields \in FieldsDamaged(children[i][2]) :
          damaged = Changed(children, i, fields)
    BY <2>1, Zenon DEF ChildDamages, Changed
  <2> QED BY <1>4, <2>2, DamagedPartRefused
<1>5. i \in 1 .. 2 \/ i \in 3 .. Len(children)
  BY <1>1, <1>2
<1> QED BY <1>3, <1>4, <1>5

-----------------------------------------------------------------------------
(* The invariant, in parts.  A sequence is a function on its positions.    *)

IsSeq(list) == Len(list) \in Nat /\ list = [i \in 1 .. Len(list) |-> list[i]]

ServiceOK ==
  /\ service.kind \in Services
  /\ service.ignores \in BOOLEAN
  /\ service.ignores => service.kind = "compatible"

OfParts(held) == held = [n \in Valid |-> held[n]]
IsStore(s) ==
  s = [upload |-> s.upload, staged |-> s.staged, exists |-> s.exists,
       blocks |-> s.blocks]
StoreOK(kind, s) ==
  /\ IsStore(s) /\ IsSeq(s.blocks) /\ OfParts(s.staged)
  /\ s.upload \in {"none", "open", "gone"} /\ s.exists \in BOOLEAN
  /\ \A n \in Valid : s.staged[n] \in (Contents(kind, n) \ {TooLong}) \cup {None}
  /\ kind # "azure" /\ s.upload # "open" => \A n \in Valid : s.staged[n] = None

\* A request that was sent, with the numbers and contents there are.
IsCall(c) ==
  c = [op |-> c.op, number |-> c.number, content |-> c.content, list |-> c.list,
       condition |-> c.condition, marker |-> c.marker, size |-> c.size]
Sent(kind, c) ==
  /\ IsCall(c)
  /\ c.op \in {"create", "stage", "commit", "abort", "list"}
  /\ c.op = "stage" => c.number \in Numbers /\ c.content \in Contents(kind, c.number) \ {TooLong}
  /\ c.op = "commit" => IsSeq(c.list)
SentOrBlank(kind, c) == c = Blank \/ Sent(kind, c)
LateOK(kind, requests) ==
  \A c \in requests : Sent(kind, c) /\ c.op \in {"stage", "commit", "abort"}

IsUp(u) ==
  u = [upload |-> u.upload, held |-> u.held, walk |-> u.walk,
       marker |-> u.marker, listed |-> u.listed, meant |-> u.meant, last |-> u.last]
HeldOK(kind, held) ==
  /\ OfParts(held)
  /\ \A n \in Valid : /\ held[n] = Held(held[n].content, held[n].state)
                      /\ held[n].content \in Contents(kind, n) \cup {None, "any"}
ListedOK(kind, listed) ==
  /\ IsSeq(listed)
  /\ kind # "azure" => \A i \in 1 .. Len(listed) :
       /\ listed[i] = [number |-> listed[i].number, tag |-> listed[i].tag, state |-> "staged"]
       /\ listed[i].number \in Valid
       /\ listed[i].tag \in Contents(kind, listed[i].number)
MarkerOK(marker) == marker = None \/ \E m \in Valid : marker = Digits[m]
UpOK(kind, u) ==
  /\ IsUp(u)
  /\ u.upload \in {"", "u1"} /\ u.last.outcome \in Outcomes
  /\ u.walk \in {"off", "ask", "wait", "done"}
  /\ MarkerOK(u.marker) /\ HeldOK(kind, u.held) /\ ListedOK(kind, u.listed)

Types ==
  /\ ServiceOK /\ StoreOK(service.kind, store) /\ SentOrBlank(service.kind, call)
  /\ LateOK(service.kind, late) /\ UpOK(service.kind, up)

\* The verdict of a commit is kept until the next call.
LastOK == up.last.outcome # "none" => Idle

\* A commit that is under way names what the uploader means.
MeantOf(kind, list, meant) ==
  /\ IsSeq(meant) /\ Len(meant) = Len(list)
  /\ \A i \in 1 .. Len(list) :
       IF kind = "azure" THEN list[i][2] = meant[i].number
       ELSE list[i] = Elem("Part", <<Elem("PartNumber", meant[i].number),
                                    Elem("ETag", meant[i].content)>>)
MeantOK ==
  call.op = "commit" =>
    MeantOf(service.kind, call.list, up.meant) /\ (Azure => call.size = 0)

SteadyOK == \A n \in Valid : steady[n] # None => steady[n] = store.staged[n]

\* What a walk has listed: every part up to the marker that has not changed.
Rising(listed) ==
  \A i, j \in 1 .. Len(listed) : i < j => listed[i].number < listed[j].number
ListedUpTo(listed, unchanged, m) ==
  /\ Rising(listed)
  /\ \A i \in 1 .. Len(listed) : listed[i].number <= m
  /\ \A n \in Valid : n <= m /\ unchanged[n] # None =>
       \E i \in 1 .. Len(listed) : listed[i].number = n /\ listed[i].tag = unchanged[n]

\* A service that ignores the marker names its first page again, which another
\* one follows as long as the upload is open.
StagedIn(s) == {n \in Valid : s.staged[n] # None}
ListedSoFar(ofService, s, unchanged, u) ==
  IF u.marker = None THEN u.listed = <<>>
  ELSE /\ ofService.kind # "azure"
       /\ ~ ofService.ignores => ListedUpTo(u.listed, unchanged, NumberOf(u.marker))
       /\ ofService.ignores /\ s.upload = "open" => Cardinality(StagedIn(s)) > Room
WalkOK ==
  /\ up.walk = "wait" <=> call.op = "list"
  /\ up.walk = "wait" => call.marker = up.marker
  /\ up.walk \in {"ask", "done"} => Idle
  /\ up.walk = "ask" => up.marker # None
  /\ up.walk \in {"ask", "wait"} => ListedSoFar(service, store, steady, up)

IInv ==
  /\ Types /\ LastOK /\ MeantOK /\ SteadyOK /\ WalkOK
  /\ VerdictIsTrue /\ PublishedAsMeant /\ ResumedWhole

-----------------------------------------------------------------------------
(* Requests.                                                               *)

\* What is sent is a request of its operation, with the fields it was given.
LEMMA BlankIs ==
  /\ IsCall(Blank) /\ Blank.op = "idle" /\ Blank.list = <<>> /\ Blank.size = 0
  /\ Blank.marker = None
BY DEF Blank, IsCall

LEMMA RefusalIs ==
  ASSUME NEW why
  PROVE  Refusal(why).op = "refused"
BY DEF Refusal, Blank

LEMMA CreateSent == Sent(service.kind, EncodeCreate) /\ EncodeCreate.op = "create"
BY DEF Sent, IsCall, EncodeCreate, Blank

LEMMA StagedSent ==
  ASSUME NEW number \in Numbers, NEW content \in Contents(service.kind, number),
         content # TooLong, NEW c,
         c = [Blank EXCEPT !.op = "stage", !.number = number, !.content = content]
  PROVE  Sent(service.kind, c) /\ c.op = "stage" /\ c.number = number
<1>1. /\ IsCall(c) /\ c.op = "stage" /\ c.number = number /\ c.content = content
  BY DEF IsCall, Blank
<1> QED BY <1>1 DEF Sent

LEMMA StageSent ==
  ASSUME NEW number \in Numbers, NEW content \in Contents(service.kind, number),
         NEW c, c = IF Azure THEN EncodeStageBlock(number, content)
                    ELSE EncodeStagePart(service.kind, up.upload, number, content)
  PROVE  c.op = "refused" \/ (Sent(service.kind, c) /\ c.op = "stage" /\ c.number = number)
<1> DEFINE sent == [Blank EXCEPT !.op = "stage", !.number = number, !.content = content]
<1>1. \/ \E why : c = Refusal(why)
      \/ content # TooLong /\ c = sent
  <2> HIDE DEF sent
  <2>1. CASE Azure
    <3>1. c = EncodeStageBlock(number, content)
      BY <2>1
    <3> QED BY <3>1 DEF EncodeStageBlock, sent
  <2>2. CASE ~ Azure
    <3>1. c = EncodeStagePart(service.kind, up.upload, number, content)
      BY <2>2
    <3> QED BY <3>1 DEF EncodeStagePart, sent
  <2> QED BY <2>1, <2>2
<1> HIDE DEF sent
<1>2. CASE \E why : c = Refusal(why)
  BY <1>2, RefusalIs
<1>3. CASE content # TooLong /\ c = sent
  BY <1>3, StagedSent DEF sent
<1> QED BY <1>1, <1>2, <1>3

\* A sequence of what is said of each number.
LEMMA IsSeqBy ==
  ASSUME NEW list, NEW k \in Nat, DOMAIN list = 1 .. k, list = [i \in 1 .. k |-> list[i]]
  PROVE  IsSeq(list) /\ Len(list) = k
<1> DEFINE S == {list[i] : i \in 1 .. k}
<1>1. list \in [1 .. k -> S]
  OBVIOUS
<1> HIDE DEF S
<1>2. Len(list) = k
  BY <1>1, FunctionIsSeq
<1> QED BY <1>2 DEF IsSeq

LEMMA IsSeqDomain ==
  ASSUME NEW list, IsSeq(list)
  PROVE  DOMAIN list = 1 .. Len(list) /\ Len(list) \in Nat
<1>1. Len(list) \in Nat /\ list = [i \in 1 .. Len(list) |-> list[i]]
  BY DEF IsSeq
<1> QED BY <1>1

LEMMA EmptyIsSeq == IsSeq(<<>>) /\ Len(<<>>) = 0
<1>1. Len(<<>>) = 0 /\ DOMAIN <<>> = 1 .. 0 /\ <<>> = [i \in 1 .. 0 |-> <<>>[i]]
  OBVIOUS
<1> QED BY <1>1, IsSeqBy

\* The parts or blocks that a list names.
MeantBy(list) == [i \in DOMAIN list |-> [number |-> list[i].number, content |-> list[i].tag]]

LEMMA ReferencesAre ==
  ASSUME UploadsAssumption, ServiceOK, NEW numbers \in Lists(service.kind), NEW latest,
         NEW list, list = [i \in DOMAIN numbers |-> Reference(numbers[i], latest)]
  PROVE  IsSeq(list)
<1>1. numbers \in Seq(Numbers)
  BY DEF UploadsAssumption, ServiceOK
<1>2. DOMAIN numbers = 1 .. Len(numbers) /\ Len(numbers) \in Nat
  BY <1>1
<1>3. DOMAIN list = 1 .. Len(numbers) /\ list = [i \in 1 .. Len(numbers) |-> list[i]]
  BY <1>2
<1> QED BY <1>2, <1>3, IsSeqBy

\* What is sent of a list has a part or a block for each that it names.
LEMMA WrittenIs ==
  ASSUME NEW list, IsSeq(list), NEW written,
         written = IF Azure THEN WriteBlockList(list) ELSE WritePartList(list)
  PROVE  IsSeq(written) /\ MeantOf(service.kind, written, MeantBy(list))
<1>1. DOMAIN list = 1 .. Len(list) /\ Len(list) \in Nat
  BY IsSeqDomain
<1> DEFINE k == Len(list)
           meant == MeantBy(list)
<1>2. /\ DOMAIN written = 1 .. k /\ written = [i \in 1 .. k |-> written[i]]
      /\ \A i \in 1 .. k :
           IF Azure THEN written[i][2] = list[i].number
           ELSE written[i] = Elem("Part", <<Elem("PartNumber", list[i].number),
                                          Elem("ETag", list[i].tag)>>)
  <2>1. CASE Azure
    <3>1. written = [i \in 1 .. k |-> Elem(list[i].source, list[i].number)]
      BY <1>1, <2>1 DEF WriteBlockList
    <3>2. \A i \in 1 .. k : Elem(list[i].source, list[i].number)[2] = list[i].number
      BY DEF Elem
    <3> QED BY <2>1, <3>1, <3>2
  <2>2. CASE ~ Azure
    <3> DEFINE part(i) == Elem("Part", <<Elem("PartNumber", list[i].number),
                                         Elem("ETag", list[i].tag)>>)
    <3>1. written = [i \in 1 .. k |-> part(i)]
      BY <1>1, <2>2 DEF WritePartList
    <3> HIDE DEF part
    <3>2. /\ DOMAIN written = 1 .. k /\ written = [i \in 1 .. k |-> written[i]]
          /\ \A i \in 1 .. k : written[i] = part(i)
      BY <3>1
    <3> QED BY <2>2, <3>2 DEF part
  <2> QED BY <2>1, <2>2
<1>3. /\ DOMAIN meant = 1 .. k /\ meant = [i \in 1 .. k |-> meant[i]]
      /\ \A i \in 1 .. k : meant[i].number = list[i].number /\ meant[i].content = list[i].tag
  BY <1>1 DEF MeantBy
<1> HIDE DEF k, meant
<1>4. k \in Nat
  BY <1>1 DEF k
<1>5. IsSeq(written) /\ Len(written) = k /\ IsSeq(meant) /\ Len(meant) = k
  BY <1>2, <1>3, <1>4, IsSeqBy
<1>6. MeantOf(service.kind, written, meant)
  BY <1>2, <1>3, <1>5 DEF MeantOf, Azure
<1> QED BY <1>5, <1>6 DEF meant

LEMMA CommitSent ==
  ASSUME NEW list, IsSeq(list), NEW condition, NEW size, Azure => size = 0,
         NEW c, c = IF Azure THEN EncodeCommitBlocks(list, condition)
                    ELSE EncodeCommitParts(service.kind, up.upload, list, condition, size)
  PROVE  \/ c.op = "refused"
         \/ /\ Sent(service.kind, c) /\ c.op = "commit" /\ MeantOf(service.kind, c.list, MeantBy(list))
            /\ Azure => c.size = 0
<1> DEFINE written == IF Azure THEN WriteBlockList(list) ELSE WritePartList(list)
           blocks == [Blank EXCEPT !.op = "commit", !.list = written, !.condition = condition]
           parts == [Blank EXCEPT !.op = "commit", !.list = written, !.condition = condition,
                                  !.size = size]
<1>1. \/ \E why : c = Refusal(why)
      \/ Azure /\ c = blocks
      \/ ~ Azure /\ c = parts
  <2>1. CASE Azure
    <3>1. c = EncodeCommitBlocks(list, condition) /\ written = WriteBlockList(list)
      BY <2>1
    <3> HIDE DEF written
    <3> QED BY <2>1, <3>1 DEF EncodeCommitBlocks
  <2>2. CASE ~ Azure
    <3>1. /\ c = EncodeCommitParts(service.kind, up.upload, list, condition, size)
          /\ written = WritePartList(list)
      BY <2>2
    <3> HIDE DEF written
    <3> QED BY <2>2, <3>1 DEF EncodeCommitParts
  <2> QED BY <2>1, <2>2
<1>2. IsSeq(written) /\ MeantOf(service.kind, written, MeantBy(list))
  BY WrittenIs
<1> HIDE DEF written
<1>3. CASE \E why : c = Refusal(why)
  BY <1>3, RefusalIs
<1>4. CASE Azure /\ c = blocks
  <2>1. IsCall(c) /\ c.op = "commit" /\ c.list = written /\ c.size = 0
    BY <1>4 DEF IsCall, Blank
  <2> QED BY <1>2, <2>1 DEF Sent
<1>5. CASE ~ Azure /\ c = parts
  <2>1. IsCall(c) /\ c.op = "commit" /\ c.list = written
    BY <1>5 DEF IsCall, Blank
  <2> QED BY <1>2, <1>5, <2>1 DEF Sent
<1> HIDE DEF blocks, parts
<1> QED BY <1>1, <1>3, <1>4, <1>5

LEMMA AbortSent ==
  ASSUME NEW upload
  PROVE  \/ EncodeAbort(upload).op = "refused"
         \/ Sent(service.kind, EncodeAbort(upload)) /\ EncodeAbort(upload).op = "abort"
<1> DEFINE c == [Blank EXCEPT !.op = "abort"]
<1>1. EncodeAbort(upload) = Refusal("UploadId") \/ EncodeAbort(upload) = c
  BY DEF EncodeAbort
<1>2. Sent(service.kind, c) /\ c.op = "abort"
  BY DEF Sent, IsCall, Blank
<1> HIDE DEF c
<1> QED BY <1>1, <1>2, RefusalIs

LEMMA ListedSent ==
  ASSUME NEW marker, NEW c, c = [Blank EXCEPT !.op = "list", !.marker = marker]
  PROVE  Sent(service.kind, c) /\ c.op = "list" /\ c.marker = marker
<1> DEFINE blank == [op |-> "idle", number |-> 0, content |-> None, list |-> <<>>,
                     condition |-> "none", marker |-> None, size |-> 0]
<1>1. Blank = blank
  BY DEF Blank
<1>2. IsCall(c) /\ c.op = "list" /\ c.marker = marker
  BY <1>1 DEF IsCall
<1> QED BY <1>2 DEF Sent

LEMMA ListSent ==
  ASSUME NEW marker, Azure => marker = None
  PROVE  \/ ListFrom(marker).op = "refused"
         \/ /\ Sent(service.kind, ListFrom(marker)) /\ ListFrom(marker).op = "list"
            /\ ListFrom(marker).marker = marker
<1>1. CASE Azure
  <2>1. ListFrom(marker) = EncodeListBlocks /\ marker = None
    BY <1>1 DEF ListFrom
  <2>2. IsCall(EncodeListBlocks) /\ EncodeListBlocks.op = "list" /\ EncodeListBlocks.marker = None
    BY DEF IsCall, EncodeListBlocks, Blank
  <2>3. Sent(service.kind, EncodeListBlocks)
    BY <2>2 DEF Sent
  <2> QED BY <2>1, <2>2, <2>3
<1>2. CASE ~ Azure
  <2> DEFINE c == [Blank EXCEPT !.op = "list", !.marker = marker]
  <2>1. (\E why : ListFrom(marker) = Refusal(why)) \/ ListFrom(marker) = c
    <3>1. ListFrom(marker) = EncodeListParts(up.upload, marker)
      BY <1>2 DEF ListFrom
    <3> QED BY <3>1 DEF EncodeListParts
  <2> HIDE DEF c
  <2>2. Sent(service.kind, c) /\ c.op = "list" /\ c.marker = marker
    BY ListedSent DEF c
  <2> QED BY <2>1, <2>2, RefusalIs
<1> QED BY <1>1, <1>2

-----------------------------------------------------------------------------
(* Calls.                                                                  *)

LEMMA NoLastIs == NoLast.outcome = "none" /\ "none" \in Outcomes
BY DEF NoLast, Outcomes

Called(u) == [u EXCEPT !.last = NoLast]
LEMMA UpCalled ==
  ASSUME NEW kind, NEW u, UpOK(kind, u), NEW v, v = Called(u)
  PROVE  /\ UpOK(kind, v) /\ v.last.outcome = "none"
         /\ v.walk = u.walk /\ v.marker = u.marker /\ v.listed = u.listed /\ v.meant = u.meant
<1>1. /\ IsUp(v) /\ v.upload = u.upload /\ v.held = u.held /\ v.walk = u.walk
      /\ v.marker = u.marker /\ v.listed = u.listed /\ v.meant = u.meant /\ v.last = NoLast
  BY DEF UpOK, IsUp, Called
<1> QED BY <1>1, NoLastIs DEF UpOK

Uncalled(u) == [u EXCEPT !.walk = "off", !.last = NoLast]
LEMMA UpRefused ==
  ASSUME NEW kind, NEW u, UpOK(kind, u), NEW v, v = Uncalled(u)
  PROVE  UpOK(kind, v) /\ v.last.outcome = "none" /\ v.walk = "off"
<1>1. /\ IsUp(v) /\ v.upload = u.upload /\ v.held = u.held /\ v.walk = "off"
      /\ v.marker = u.marker /\ v.listed = u.listed /\ v.last = NoLast
  BY DEF UpOK, IsUp, Uncalled
<1> QED BY <1>1, NoLastIs DEF UpOK

\* A call is under way, or was refused and left nothing behind.
LEMMA AfterCall ==
  ASSUME Types, NEW request, NEW then, Calls(request, then), UpOK(service.kind, then),
         request.op = "refused" \/ Sent(service.kind, request)
  PROVE  /\ Types' /\ up'.last.outcome = "none"
         /\ UNCHANGED <<service, store>>
         /\ \/ call' = Blank /\ up'.walk = "off"
            \/ /\ call' = request /\ request.op # "refused"
               /\ up'.walk = then.walk /\ up'.marker = then.marker
               /\ up'.listed = then.listed /\ up'.meant = then.meant
<1>1. /\ service' = service /\ store' = store /\ late' = late
      /\ call' = IF request.op = "refused" THEN Blank ELSE request
      /\ up' = IF request.op = "refused" THEN Uncalled(up) ELSE Called(then)
  BY DEF Calls, Called, Uncalled
<1>2. /\ ServiceOK /\ StoreOK(service.kind, store) /\ LateOK(service.kind, late)
      /\ UpOK(service.kind, up)
  BY DEF Types
<1>3. ServiceOK'
  BY <1>1, <1>2 DEF ServiceOK
<1>4. SentOrBlank(service.kind, call') /\ UpOK(service.kind, up') =>
        Types'
  BY <1>1, <1>2, <1>3 DEF Types
<1>5. CASE request.op = "refused"
  <2>1. call' = Blank /\ up' = Uncalled(up)
    BY <1>1, <1>5
  <2>2. UpOK(service.kind, up') /\ up'.last.outcome = "none" /\ up'.walk = "off"
    BY <1>2, <2>1, UpRefused
  <2> QED BY <1>1, <1>4, <2>1, <2>2 DEF SentOrBlank
<1>6. CASE request.op # "refused"
  <2>1. call' = request /\ up' = Called(then) /\ Sent(service.kind, request)
    BY <1>1, <1>6
  <2>2. /\ UpOK(service.kind, up') /\ up'.last.outcome = "none" /\ up'.walk = then.walk
        /\ up'.marker = then.marker /\ up'.listed = then.listed /\ up'.meant = then.meant
    BY <2>1, UpCalled
  <2> QED BY <1>1, <1>4, <1>6, <2>1, <2>2 DEF SentOrBlank
<1> QED BY <1>5, <1>6

\* While nothing is said of a commit, and no listing has ended.
LEMMA Unsaying ==
  ASSUME up.last.outcome = "none"
  PROVE  LastOK /\ VerdictIsTrue /\ PublishedAsMeant
BY DEF LastOK, VerdictIsTrue, PublishedAsMeant

LEMMA UnsayingNext ==
  ASSUME up'.last.outcome = "none"
  PROVE  LastOK' /\ VerdictIsTrue' /\ PublishedAsMeant'
BY DEF LastOK, VerdictIsTrue, PublishedAsMeant

\* A call that is not a listing ends the walk.
LEMMA AfterOtherCall ==
  ASSUME Types, NEW request, NEW then, Calls(request, then), UpOK(service.kind, then),
         request.op = "refused" \/ (Sent(service.kind, request) /\ request.op # "list"),
         then.walk = "off", Unwatched,
         request.op = "commit" =>
           MeantOf(service.kind, request.list, then.meant) /\ (Azure => request.size = 0)
  PROVE  IInv'
<1>1. /\ Types' /\ up'.last.outcome = "none"
      /\ service' = service /\ up'.walk = "off"
      /\ \/ call' = Blank
         \/ call' = request /\ request.op # "refused" /\ up'.meant = then.meant
  BY AfterCall
<1>2. Blank.op = "idle"
  BY BlankIs
<1>3. WalkOK'
  BY <1>1, <1>2 DEF WalkOK
<1>4. MeantOK'
  BY <1>1, <1>2 DEF MeantOK, Azure
<1>5. SteadyOK'
  BY DEF SteadyOK, Unwatched
<1>6. ResumedWhole'
  BY <1>1 DEF ResumedWhole
<1> QED BY <1>1, <1>3, <1>4, <1>5, <1>6, UnsayingNext DEF IInv

\* The uploader with some of its fields changed.
HasUp(u, upload, held, walk, marker, listed, meant, last) ==
  /\ IsUp(u) /\ u.upload = upload /\ u.held = held /\ u.walk = walk /\ u.marker = marker
  /\ u.listed = listed /\ u.meant = meant /\ u.last = last

Walks(u, walk) == [u EXCEPT !.walk = walk]
LEMMA WalksIs ==
  ASSUME NEW u, IsUp(u), NEW walk, NEW v, v = Walks(u, walk)
  PROVE  HasUp(v, u.upload, u.held, walk, u.marker, u.listed, u.meant, u.last)
BY DEF HasUp, IsUp, Walks

OffHolding(u, held) == [u EXCEPT !.walk = "off", !.held = held]
LEMMA OffHoldingIs ==
  ASSUME NEW u, IsUp(u), NEW held, NEW v, v = OffHolding(u, held)
  PROVE  HasUp(v, u.upload, held, "off", u.marker, u.listed, u.meant, u.last)
BY DEF HasUp, IsUp, OffHolding

OffMeaning(u, meant) == [u EXCEPT !.walk = "off", !.meant = meant]
LEMMA OffMeaningIs ==
  ASSUME NEW u, IsUp(u), NEW meant, NEW v, v = OffMeaning(u, meant)
  PROVE  HasUp(v, u.upload, u.held, "off", u.marker, u.listed, meant, u.last)
BY DEF HasUp, IsUp, OffMeaning

Listing(u, walk, marker, listed) ==
  [u EXCEPT !.walk = walk, !.marker = marker, !.listed = listed]
LEMMA ListingIs ==
  ASSUME NEW u, IsUp(u), NEW walk, NEW marker, NEW listed, NEW v,
         v = Listing(u, walk, marker, listed)
  PROVE  HasUp(v, u.upload, u.held, walk, marker, listed, u.meant, u.last)
BY DEF HasUp, IsUp, Listing

LEMMA StartUploadKeeps ==
  ASSUME IInv, StartUpload
  PROVE  IInv'
<1> DEFINE then == Walks(up, "off")
<1>1. Types /\ UpOK(service.kind, up) /\ Calls(EncodeCreate, then) /\ Unwatched
  BY DEF IInv, Types, StartUpload, Walks
<1>2. UpOK(service.kind, then) /\ then.walk = "off"
  <2> HIDE DEF then
  <2>1. HasUp(then, up.upload, up.held, "off", up.marker, up.listed, up.meant, up.last)
    BY <1>1, WalksIs DEF UpOK, then
  <2> QED BY <1>1, <2>1 DEF UpOK, HasUp
<1>3. Sent(service.kind, EncodeCreate) /\ EncodeCreate.op = "create"
  BY CreateSent
<1> HIDE DEF then
<1> QED BY <1>1, <1>2, <1>3, AfterOtherCall

LEMMA AbortKeeps ==
  ASSUME IInv, Abort
  PROVE  IInv'
<1> DEFINE then == Walks(up, "off")
           request == EncodeAbort(up.upload)
<1>1. Types /\ UpOK(service.kind, up) /\ Calls(request, then) /\ Unwatched
  BY DEF IInv, Types, Abort, Walks
<1>2. UpOK(service.kind, then) /\ then.walk = "off"
  <2> HIDE DEF then
  <2>1. HasUp(then, up.upload, up.held, "off", up.marker, up.listed, up.meant, up.last)
    BY <1>1, WalksIs DEF UpOK, then
  <2> QED BY <1>1, <2>1 DEF UpOK, HasUp
<1>3. request.op = "refused" \/ (Sent(service.kind, request) /\ request.op = "abort")
  BY AbortSent
<1> HIDE DEF then, request
<1> QED BY <1>1, <1>2, <1>3, AfterOtherCall

LEMMA NothingIs == Nothing = Held(Nothing.content, Nothing.state) /\ Nothing.content = None
BY DEF Nothing, Held

LEMMA StageKeeps ==
  ASSUME IInv, NEW number \in Numbers, NEW content \in Contents(service.kind, number),
         Stage(number, content)
  PROVE  IInv'
<1> DEFINE request == IF Azure THEN EncodeStageBlock(number, content)
                      ELSE EncodeStagePart(service.kind, up.upload, number, content)
           goes == request.op = "stage" /\ number \in Valid
           held == IF goes THEN [up.held EXCEPT ![number] = Nothing] ELSE up.held
           then == OffHolding(up, held)
<1>1. Types /\ UpOK(service.kind, up) /\ Calls(request, then) /\ Unwatched
  BY DEF IInv, Types, Stage, OffHolding
<1>2. HeldOK(service.kind, held)
  <2>1. HeldOK(service.kind, up.held)
    BY <1>1 DEF UpOK
  <2>2. CASE goes
    <3>1. held = [up.held EXCEPT ![number] = Nothing] /\ number \in Valid
      BY <2>2
    <3> HIDE DEF held, goes
    <3>2. /\ OfParts(held)
          /\ \A n \in Valid : held[n] = IF n = number THEN Nothing ELSE up.held[n]
      BY <2>1, <3>1 DEF HeldOK, OfParts
    <3> QED BY <2>1, <3>2, NothingIs DEF HeldOK
  <2>3. CASE ~ goes
    BY <2>1, <2>3
  <2> QED BY <2>2, <2>3
<1> HIDE DEF held
<1>3. UpOK(service.kind, then) /\ then.walk = "off"
  <2> HIDE DEF then
  <2>1. HasUp(then, up.upload, held, "off", up.marker, up.listed, up.meant, up.last)
    BY <1>1, OffHoldingIs DEF UpOK, then
  <2> QED BY <1>1, <1>2, <2>1 DEF UpOK, HasUp
<1>4. request.op = "refused" \/ (Sent(service.kind, request) /\ request.op = "stage")
  BY StageSent
<1> HIDE DEF then, request
<1> QED BY <1>1, <1>3, <1>4, AfterOtherCall

LEMMA CommitTheKeeps ==
  ASSUME IInv, NEW list, IsSeq(list), NEW condition, NEW size, Azure => size = 0,
         CommitThe(list, condition, size)
  PROVE  IInv'
<1> DEFINE request == IF Azure THEN EncodeCommitBlocks(list, condition)
                      ELSE EncodeCommitParts(service.kind, up.upload, list, condition, size)
           meant == MeantBy(list)
           then == OffMeaning(up, meant)
<1>1. Types /\ UpOK(service.kind, up) /\ Calls(request, then) /\ Unwatched
  BY DEF IInv, Types, CommitThe, MeantBy, OffMeaning
<1> HIDE DEF meant
<1>2. UpOK(service.kind, then) /\ then.walk = "off" /\ then.meant = meant
  <2> HIDE DEF then
  <2>1. HasUp(then, up.upload, up.held, "off", up.marker, up.listed, meant, up.last)
    BY <1>1, OffMeaningIs DEF UpOK, then
  <2> QED BY <1>1, <2>1 DEF UpOK, HasUp
<1>3. \/ request.op = "refused"
      \/ /\ Sent(service.kind, request) /\ request.op = "commit"
         /\ MeantOf(service.kind, request.list, meant) /\ (Azure => request.size = 0)
  BY CommitSent DEF meant
<1> HIDE DEF then, request
<1> QED BY <1>1, <1>2, <1>3, AfterOtherCall

LEMMA CommitKeeps ==
  ASSUME UploadsAssumption, IInv, Commit
  PROVE  IInv'
<1>1. PICK numbers \in Lists(service.kind), condition \in Conditions, sized \in BOOLEAN,
           latest \in BOOLEAN :
        /\ Azure => ~ sized
        /\ CommitThe([i \in DOMAIN numbers |-> Reference(numbers[i], latest)], condition,
                     IF sized THEN Cardinality(HeldParts) ELSE 0)
  BY DEF Commit
<1> DEFINE list == [i \in DOMAIN numbers |-> Reference(numbers[i], latest)]
           size == IF sized THEN Cardinality(HeldParts) ELSE 0
<1>2. ServiceOK
  BY DEF IInv, Types
<1>3. IsSeq(list)
  BY <1>2, ReferencesAre
<1>4. Azure => size = 0
  BY <1>1
<1>5. CommitThe(list, condition, size)
  BY <1>1
<1> HIDE DEF list, size
<1> QED BY <1>3, <1>4, <1>5, CommitTheKeeps

\* A listing that begins holds the parts against what they are now.
LEMMA ListKeeps ==
  ASSUME IInv, List
  PROVE  IInv'
<1> DEFINE request == ListFrom(None)
           then == Listing(up, "wait", None, <<>>)
<1>1. /\ Types /\ UpOK(service.kind, up) /\ Calls(request, then) /\ steady' = store.staged
      /\ StoreOK(service.kind, store)
  BY DEF IInv, Types, List, Listing
<1>2. /\ UpOK(service.kind, then) /\ then.walk = "wait" /\ then.marker = None
      /\ then.listed = <<>>
  <2> HIDE DEF then
  <2>1. HasUp(then, up.upload, up.held, "wait", None, <<>>, up.meant, up.last)
    BY <1>1, ListingIs DEF UpOK, then
  <2>2. ListedOK(service.kind, <<>>)
    BY EmptyIsSeq DEF ListedOK
  <2> QED BY <1>1, <2>1, <2>2 DEF UpOK, MarkerOK, HasUp
<1>3. \/ request.op = "refused"
      \/ Sent(service.kind, request) /\ request.op = "list" /\ request.marker = None
  BY ListSent
<1> HIDE DEF then, request
<1>4. /\ Types' /\ up'.last.outcome = "none"
      /\ service' = service /\ store' = store
      /\ \/ call' = Blank /\ up'.walk = "off"
         \/ /\ call' = request /\ request.op # "refused" /\ up'.walk = "wait"
            /\ up'.marker = None /\ up'.listed = <<>>
  BY <1>1, <1>2, <1>3, AfterCall
<1>5. WalkOK'
  BY <1>3, <1>4, BlankIs DEF WalkOK, ListedSoFar
<1>6. MeantOK'
  BY <1>3, <1>4, BlankIs DEF MeantOK
<1>7. SteadyOK'
  BY <1>1, <1>4 DEF SteadyOK
<1>8. ResumedWhole'
  BY <1>4 DEF ResumedWhole
<1> QED BY <1>4, <1>5, <1>6, <1>7, <1>8, UnsayingNext DEF IInv

LEMMA NextPageKeeps ==
  ASSUME IInv, NextPage
  PROVE  IInv'
<1> DEFINE request == ListFrom(up.marker)
           then == Walks(up, "wait")
<1>1. /\ Types /\ UpOK(service.kind, up) /\ Calls(request, then) /\ steady' = steady
      /\ StoreOK(service.kind, store) /\ SteadyOK
      /\ up.marker # None /\ ListedSoFar(service, store, steady, up)
  BY DEF IInv, Types, NextPage, WalkOK, Walks
<1>2. /\ UpOK(service.kind, then) /\ then.walk = "wait" /\ then.marker = up.marker
      /\ then.listed = up.listed
  <2> HIDE DEF then
  <2>1. HasUp(then, up.upload, up.held, "wait", up.marker, up.listed, up.meant, up.last)
    BY <1>1, WalksIs DEF UpOK, then
  <2> QED BY <1>1, <2>1 DEF UpOK, HasUp
<1>3. ~ Azure
  BY <1>1 DEF ListedSoFar, Azure
<1>4. \/ request.op = "refused"
      \/ Sent(service.kind, request) /\ request.op = "list" /\ request.marker = up.marker
  BY <1>3, ListSent
<1> HIDE DEF then, request
<1>5. /\ Types' /\ up'.last.outcome = "none"
      /\ service' = service /\ store' = store
      /\ \/ call' = Blank /\ up'.walk = "off"
         \/ /\ call' = request /\ request.op # "refused" /\ up'.walk = "wait"
            /\ up'.marker = up.marker /\ up'.listed = up.listed
  BY <1>1, <1>2, <1>4, AfterCall
<1>6. WalkOK'
  <2>1. up'.walk = "wait" => ListedSoFar(service', store', steady', up')
    BY <1>1, <1>5 DEF ListedSoFar
  <2> QED BY <1>4, <1>5, <2>1, BlankIs DEF WalkOK
<1>7. MeantOK'
  BY <1>4, <1>5, BlankIs DEF MeantOK
<1>8. SteadyOK'
  BY <1>1, <1>5 DEF SteadyOK
<1>9. ResumedWhole'
  BY <1>5 DEF ResumedWhole
<1> QED BY <1>5, <1>6, <1>7, <1>8, <1>9, UnsayingNext DEF IInv

-----------------------------------------------------------------------------
(* What the service does.                                                  *)

LEMMA ValidIs == Valid \subseteq 1 .. MaxParts /\ Valid \subseteq Numbers /\ Valid \subseteq Nat
BY DEF Valid

LEMMA ValidFinite ==
  ASSUME UploadsAssumption
  PROVE  IsFiniteSet(Valid)
<1>1. IsFiniteSet(Numbers) /\ Valid \subseteq Numbers
  BY ValidIs DEF UploadsAssumption
<1> QED BY <1>1, FS_Subset

\* A service that does a request was asked of an upload that is open, for a
\* number it takes, or for parts it holds.
LEMMA DoneOnly ==
  ASSUME NEW c, None \in Errors(c),
         c.op \in {"create", "stage", "commit", "abort", "list"}
  PROVE  /\ c.op # "create" /\ ~ Azure => store.upload = "open"
         /\ c.op = "stage" => c.number \in Valid
         /\ c.op = "commit" =>
              /\ \A i \in DOMAIN Named(c.list) : Named(c.list)[i] # <<>>
              /\ ~ Azure => c.size \in {0, Len(Named(c.list))}
<1> DEFINE named == Named(c.list)
<1>1. CASE c.op = "commit"
  <2>1. None \in CommitError(c)
    BY <1>1 DEF Errors
  <2> HIDE DEF named
  <2>2. /\ ~ (~ Azure /\ store.upload # "open")
        /\ ~ \/ \E i \in DOMAIN named : named[i] = <<>>
             \/ ~ Azure /\ (~ Ascending(named) \/ (c.size \notin {0, Len(named)}))
    BY <2>1 DEF CommitError, None, named
  <2> QED BY <1>1, <2>2 DEF named
<1>2. CASE c.op # "commit"
  BY <1>2 DEF Errors, None
<1> QED BY <1>1, <1>2

\* What the service does keeps the store of its types.  An object stays, an
\* upload that is not open is not opened again but by its creation, and what
\* is staged stays so while it is open.
StoreGoesOn(s, t) ==
  /\ s.exists => t.exists
  /\ t.upload = "open" => s.upload = "open" /\ StagedIn(s) \subseteq StagedIn(t)

LEMMA OpenedIs ==
  ASSUME UploadsAssumption, StoreOK(service.kind, store), NEW s,
         s = [store EXCEPT !.upload = "open", !.staged = [n \in Valid |-> None]]
  PROVE  StoreOK(service.kind, s)
<1> DEFINE nothing == [n \in Valid |-> None]
<1>1. OfParts(nothing) /\ \A n \in Valid : nothing[n] = None
  BY DEF OfParts
<1> HIDE DEF nothing
<1>2. s = [store EXCEPT !.upload = "open", !.staged = nothing]
  BY DEF nothing
<1>3. /\ IsStore(s) /\ s.upload = "open" /\ s.staged = nothing /\ s.exists = store.exists
      /\ s.blocks = store.blocks
  BY <1>2 DEF StoreOK, IsStore
<1> QED BY <1>1, <1>3 DEF StoreOK

LEMMA GoneIs ==
  ASSUME UploadsAssumption, StoreOK(service.kind, store)
  PROVE  /\ StoreOK(service.kind, Gone) /\ Gone.upload = "gone" /\ Gone.exists = store.exists
<1> DEFINE nothing == [n \in Valid |-> None]
           s == Gone
<1>1. OfParts(nothing) /\ \A n \in Valid : nothing[n] = None
  BY DEF OfParts
<1> HIDE DEF nothing
<1>2. s = [store EXCEPT !.upload = "gone", !.staged = nothing]
  BY DEF nothing, Gone
<1> HIDE DEF s
<1>3. /\ IsStore(s) /\ s.upload = "gone" /\ s.staged = nothing /\ s.exists = store.exists
      /\ s.blocks = store.blocks
  BY <1>2 DEF StoreOK, IsStore
<1>4. StoreOK(service.kind, s)
  BY <1>1, <1>3 DEF StoreOK
<1> QED BY <1>3, <1>4 DEF s

LEMMA PublishedIs ==
  ASSUME NEW list, IsSeq(list), NEW c, c.list = list
  PROVE  IsSeq(Published(c)) /\ Len(Published(c)) = Len(list) /\ Len(Named(list)) = Len(list)
         /\ \A i \in 1 .. Len(list) : Published(c)[i] = Named(list)[i][1]
<1> DEFINE k == Len(list)
           named == Named(list)
           published == Published(c)
<1>1. DOMAIN list = 1 .. k /\ k \in Nat
  BY IsSeqDomain
<1>2. DOMAIN named = 1 .. k /\ named = [i \in 1 .. k |-> named[i]]
  BY <1>1 DEF Named
<1>3. published = [i \in 1 .. k |-> named[i][1]]
  BY <1>2 DEF Published
<1> HIDE DEF k, named, published
<1>4. DOMAIN published = 1 .. k /\ published = [i \in 1 .. k |-> published[i]]
      /\ \A i \in 1 .. k : published[i] = named[i][1]
  BY <1>3
<1>5. IsSeq(published) /\ Len(published) = k /\ Len(named) = k
  BY <1>1, <1>2, <1>4, IsSeqBy
<1> QED BY <1>4, <1>5 DEF k, named, published

LEMMA CommittedIs ==
  ASSUME UploadsAssumption, StoreOK(service.kind, store), NEW c, IsSeq(c.list), NEW s,
         s = [Gone EXCEPT !.exists = TRUE, !.blocks = IF Azure THEN Published(c) ELSE <<>>]
  PROVE  StoreOK(service.kind, s) /\ s.upload = "gone" /\ s.exists
<1> DEFINE blocks == IF Azure THEN Published(c) ELSE <<>>
           gone == Gone
<1>1. IsSeq(blocks)
  BY PublishedIs, EmptyIsSeq
<1>2. StoreOK(service.kind, gone) /\ gone.upload = "gone"
  BY GoneIs
<1> HIDE DEF blocks, gone
<1>3. s = [gone EXCEPT !.exists = TRUE, !.blocks = blocks]
  BY DEF blocks, gone
<1>4. /\ IsStore(s) /\ s.upload = gone.upload /\ s.staged = gone.staged /\ s.exists = TRUE
      /\ s.blocks = blocks
  BY <1>2, <1>3 DEF StoreOK, IsStore
<1> QED BY <1>1, <1>2, <1>4 DEF StoreOK

LEMMA StagedIs ==
  ASSUME UploadsAssumption, ServiceOK, StoreOK(service.kind, store),
         NEW number \in Valid, NEW content \in Contents(service.kind, number), content # TooLong,
         ~ Azure => store.upload = "open", NEW s,
         s = [store EXCEPT !.staged[number] = content]
  PROVE  StoreOK(service.kind, s) /\ StoreGoesOn(store, s)
<1> DEFINE staged == [store.staged EXCEPT ![number] = content]
<1>1. /\ OfParts(staged)
      /\ \A n \in Valid : staged[n] = IF n = number THEN content ELSE store.staged[n]
  BY DEF StoreOK, OfParts
<1> HIDE DEF staged
<1>2. s = [store EXCEPT !.staged = staged]
  BY DEF staged
<1>3. /\ IsStore(s) /\ s.upload = store.upload /\ s.staged = staged /\ s.exists = store.exists
      /\ s.blocks = store.blocks
  BY <1>2 DEF StoreOK, IsStore
<1>4. StoreOK(service.kind, s)
  BY <1>1, <1>3 DEF StoreOK, Azure
<1>5. content # None
  BY ValidIs DEF UploadsAssumption, ServiceOK
<1>6. StagedIn(store) \subseteq StagedIn(s)
  BY <1>1, <1>3, <1>5 DEF StagedIn
<1> QED BY <1>3, <1>4, <1>6 DEF StoreGoesOn

LEMMA EffectKeeps ==
  ASSUME UploadsAssumption, ServiceOK, StoreOK(service.kind, store),
         NEW c, Sent(service.kind, c), None \in Errors(c)
  PROVE  /\ StoreOK(service.kind, Effect(c))
         /\ c.op # "create" => StoreGoesOn(store, Effect(c))
<1>1. /\ c.op \in {"create", "stage", "commit", "abort", "list"}
      /\ c.op # "create" /\ ~ Azure => store.upload = "open"
      /\ c.op = "stage" => c.number \in Valid
  BY DoneOnly DEF Sent
<1>2. CASE c.op = "create"
  <2>1. Effect(c) = [store EXCEPT !.upload = "open", !.staged = [n \in Valid |-> None]]
    BY <1>2 DEF Effect
  <2> QED BY <1>2, <2>1, OpenedIs
<1>3. CASE c.op = "stage"
  <2> DEFINE s == Effect(c)
  <2>1. s = [store EXCEPT !.staged[c.number] = c.content]
    BY <1>3 DEF Effect
  <2>2. /\ c.number \in Valid /\ c.content \in Contents(service.kind, c.number)
        /\ c.content # TooLong /\ (~ Azure => store.upload = "open")
    BY <1>1, <1>3 DEF Sent
  <2> HIDE DEF s
  <2>3. StoreOK(service.kind, s) /\ StoreGoesOn(store, s)
    BY <2>1, <2>2, StagedIs
  <2> QED BY <2>3 DEF s
<1>4. CASE c.op = "abort"
  <2>1. Effect(c) = Gone
    BY <1>4 DEF Effect
  <2> QED BY <2>1, GoneIs DEF StoreGoesOn
<1>5. CASE c.op = "commit"
  <2> DEFINE s == Effect(c)
  <2>1. s = [Gone EXCEPT !.exists = TRUE, !.blocks = IF Azure THEN Published(c) ELSE <<>>]
    BY <1>5 DEF Effect
  <2>2. IsSeq(c.list)
    BY <1>5 DEF Sent
  <2> HIDE DEF s
  <2>3. StoreOK(service.kind, s) /\ s.upload = "gone" /\ s.exists
    BY <2>1, <2>2, CommittedIs
  <2>4. StoreOK(service.kind, s) /\ StoreGoesOn(store, s)
    BY <2>3 DEF StoreGoesOn
  <2> QED BY <2>4 DEF s
<1>6. CASE c.op = "list"
  <2>1. Effect(c) = store
    BY <1>6 DEF Effect
  <2> QED BY <2>1 DEF StoreGoesOn
<1> QED BY <1>1, <1>2, <1>3, <1>4, <1>5, <1>6

\* What is known of a listing holds of what is left of what did not change.
LessSteady(before, after) == \A n \in Valid : after[n] # None => after[n] = before[n]

LEMMA StillListed ==
  ASSUME UploadsAssumption, NEW sv, NEW s, NEW t, StoreGoesOn(s, t),
         NEW before, NEW after, LessSteady(before, after), NEW u, ListedSoFar(sv, s, before, u)
  PROVE  ListedSoFar(sv, t, after, u)
<1>1. ASSUME NEW listed, NEW m, ListedUpTo(listed, before, m)
      PROVE  ListedUpTo(listed, after, m)
  BY <1>1 DEF ListedUpTo, LessSteady
<1>2. ASSUME t.upload = "open", Cardinality(StagedIn(s)) > Room
      PROVE  Cardinality(StagedIn(t)) > Room
  <2>1. StagedIn(s) \subseteq StagedIn(t) /\ StagedIn(t) \subseteq Valid
    BY <1>2 DEF StoreGoesOn, StagedIn
  <2>2. IsFiniteSet(StagedIn(t))
    BY <2>1, ValidFinite, FS_Subset
  <2>3. /\ Cardinality(StagedIn(s)) <= Cardinality(StagedIn(t))
        /\ Cardinality(StagedIn(s)) \in Nat /\ Cardinality(StagedIn(t)) \in Nat
    <3>1. IsFiniteSet(StagedIn(s))
      BY <2>1, <2>2, FS_Subset
    <3> QED BY <2>1, <2>2, <3>1, FS_Subset, FS_CardinalityType
  <2> QED BY <1>2, <2>3 DEF UploadsAssumption
<1>3. t.upload = "open" => s.upload = "open"
  BY DEF StoreGoesOn
<1> QED BY <1>1, <1>2, <1>3 DEF ListedSoFar

\* A request that the service gets, done or refused.
LEMMA DoesKeeps ==
  ASSUME UploadsAssumption, Types, SteadyOK, NEW c, Sent(service.kind, c),
         NEW error \in Errors(c) \cup {"Service"}, Does(c, error)
  PROVE  /\ StoreOK(service.kind, store')
         /\ c.op # "create" => StoreGoesOn(store, store')
         /\ LessSteady(steady, steady')
         /\ \A n \in Valid : steady'[n] # None => steady'[n] = store'.staged[n]
<1>1. /\ store' = IF error = None THEN Effect(c) ELSE store
      /\ steady' = Stays(steady, store'.staged)
  BY DEF Does
<1>2. ServiceOK /\ StoreOK(service.kind, store)
  BY DEF Types
<1>3. CASE error = None
  <2>1. None \in Errors(c) /\ store' = Effect(c)
    BY <1>1, <1>3 DEF None
  <2>2. StoreOK(service.kind, store') /\ (c.op # "create" => StoreGoesOn(store, store'))
    BY <1>2, <2>1, EffectKeeps
  <2>3. \A n \in Valid : steady'[n] = IF store'.staged[n] = steady[n] THEN steady[n] ELSE None
    BY <1>1 DEF Stays
  <2> QED BY <2>2, <2>3 DEF LessSteady
<1>4. CASE error # None
  <2>1. StoreOK(service.kind, store') /\ StoreGoesOn(store, store')
    BY <1>1, <1>2, <1>4 DEF StoreGoesOn
  <2>2. \A n \in Valid : steady'[n] = IF store'.staged[n] = steady[n] THEN steady[n] ELSE None
    BY <1>1 DEF Stays
  <2> QED BY <2>1, <2>2 DEF LessSteady
<1> QED BY <1>3, <1>4

LEMMA ArriveLateKeeps ==
  ASSUME UploadsAssumption, IInv, ArriveLate
  PROVE  IInv'
<1>1. PICK request \in late :
        /\ late' = late \ {request}
        /\ \E error \in Errors(request) : Does(request, error)
        /\ service' = service /\ call' = call /\ up' = up
  BY DEF ArriveLate
<1>2. /\ Types /\ LastOK /\ MeantOK /\ SteadyOK /\ WalkOK
      /\ VerdictIsTrue /\ PublishedAsMeant /\ ResumedWhole
  BY DEF IInv
<1>3. Sent(service.kind, request) /\ request.op # "create"
  BY <1>1, <1>2 DEF Types, LateOK
<1>4. /\ StoreOK(service.kind, store') /\ StoreGoesOn(store, store')
      /\ LessSteady(steady, steady')
      /\ \A n \in Valid : steady'[n] # None => steady'[n] = store'.staged[n]
  BY <1>1, <1>2, <1>3, DoesKeeps
<1>5. Types'
  <2>1. ServiceOK'
    BY <1>1, <1>2 DEF Types, ServiceOK
  <2>2. LateOK(service.kind, late')
    BY <1>1, <1>2 DEF Types, LateOK
  <2> QED BY <1>1, <1>2, <1>4, <2>1, <2>2 DEF Types
<1>6. LastOK' /\ MeantOK' /\ PublishedAsMeant'
  <2>1. LastOK' /\ MeantOK'
    BY <1>1, <1>2 DEF LastOK, MeantOK, Azure, Idle
  <2>2. PublishedAsMeant'
    BY <1>1, <1>2 DEF PublishedAsMeant, Azure
  <2> QED BY <2>1, <2>2
<1>7. VerdictIsTrue'
  BY <1>1, <1>2, <1>4 DEF VerdictIsTrue, StoreGoesOn
<1>8. SteadyOK'
  BY <1>4 DEF SteadyOK
<1>9. WalkOK'
  <2>1. ListedSoFar(service, store, steady, up) => ListedSoFar(service, store', steady', up)
    BY <1>4, StillListed
  <2> QED BY <1>1, <1>2, <2>1 DEF WalkOK, Idle
<1>10. ResumedWhole'
  <2>1. up.walk = "done" =>
          /\ \A n \in Valid : steady[n] # None =>
               up.held[n] = Held(IF Azure THEN "any" ELSE steady[n], "staged")
          /\ ~ Azure => \A i, j \in DOMAIN up.listed :
                          i < j => up.listed[i].number < up.listed[j].number
    BY <1>2 DEF ResumedWhole
  <2>2. \A n \in Valid : steady'[n] # None => steady[n] # None /\ steady'[n] = steady[n]
    BY <1>4 DEF LessSteady
  <2> QED BY <1>1, <2>1, <2>2 DEF ResumedWhole, Azure
<1> QED BY <1>5, <1>6, <1>7, <1>8, <1>9, <1>10 DEF IInv

-----------------------------------------------------------------------------
(* Faults.                                                                 *)

LEMMA SentNotIdle ==
  ASSUME NEW kind, SentOrBlank(kind, call), call # Blank \/ call.op # "idle"
  PROVE  Sent(kind, call)
BY BlankIs DEF SentOrBlank

LEMMA GivesUpKeeps ==
  ASSUME UploadsAssumption, IInv, NEW then, GivesUp(then), UpOK(service.kind, then),
         then.walk = "off", then.last.outcome = "none"
  PROVE  IInv'
<1>1. /\ call' = Blank /\ up' = then /\ Unwatched /\ service' = service
      /\ \/ store' = store /\ late' = late
         \/ /\ call.op \in {"stage", "commit", "abort"}
            /\ late' = late \cup {call} /\ store' = store
         \/ /\ call # Blank /\ None \in Errors(call)
            /\ store' = Effect(call) /\ late' = late
  BY DEF GivesUp, Idle
<1>2. /\ ServiceOK /\ StoreOK(service.kind, store) /\ SentOrBlank(service.kind, call)
      /\ LateOK(service.kind, late)
  BY DEF IInv, Types
<1>3. ServiceOK'
  BY <1>1, <1>2 DEF ServiceOK
<1>4. StoreOK(service.kind, store') /\ LateOK(service.kind, late')
  <2>1. CASE store' = store /\ late' = late
    BY <1>2, <2>1
  <2>2. CASE /\ call.op \in {"stage", "commit", "abort"}
             /\ late' = late \cup {call} /\ store' = store
    <3>1. Sent(service.kind, call)
      BY <1>2, <2>2, SentNotIdle
    <3> QED BY <1>2, <2>2, <3>1 DEF LateOK
  <2>3. CASE /\ call # Blank /\ None \in Errors(call)
             /\ store' = Effect(call) /\ late' = late
    <3>1. Sent(service.kind, call)
      BY <1>2, <2>3, SentNotIdle
    <3> QED BY <1>2, <2>3, <3>1, EffectKeeps
  <2> QED BY <1>1, <2>1, <2>2, <2>3
<1>5. Types'
  BY <1>1, <1>3, <1>4 DEF Types, SentOrBlank
<1>6. WalkOK' /\ MeantOK' /\ ResumedWhole'
  BY <1>1, BlankIs DEF WalkOK, MeantOK, ResumedWhole
<1>7. SteadyOK'
  BY <1>1 DEF Unwatched, SteadyOK
<1> QED BY <1>1, <1>5, <1>6, <1>7, UnsayingNext DEF IInv

LEMMA NothingListed ==
  ASSUME NEW kind
  PROVE  ListedOK(kind, <<>>)
BY EmptyIsSeq DEF ListedOK

LEMMA HoldsNothingOK ==
  ASSUME NEW kind
  PROVE  HeldOK(kind, HoldsNothing)
<1>1. OfParts(HoldsNothing) /\ \A n \in Valid : HoldsNothing[n] = Nothing
  BY DEF OfParts, HoldsNothing
<1> QED BY <1>1, NothingIs DEF HeldOK

LEMMA FreshIs ==
  ASSUME NEW kind, NEW upload \in {"", "u1"}
  PROVE  /\ UpOK(kind, Fresh(upload)) /\ Fresh(upload).walk = "off"
         /\ Fresh(upload).last.outcome = "none"
<1> DEFINE u == Fresh(upload)
<1>1. /\ IsUp(u) /\ u.upload = upload /\ u.held = HoldsNothing /\ u.walk = "off"
      /\ u.marker = None /\ u.listed = <<>> /\ u.last = NoLast
  BY DEF Fresh, IsUp
<1> HIDE DEF u
<1>2. ListedOK(kind, <<>>)
  BY NothingListed
<1>3. UpOK(kind, u)
  BY <1>1, <1>2, HoldsNothingOK, NoLastIs DEF UpOK, MarkerOK
<1> QED BY <1>1, <1>3, NoLastIs DEF u

LEMMA CrashKeeps ==
  ASSUME UploadsAssumption, IInv, Crash
  PROVE  IInv'
<1>1. GivesUp(Fresh(up.upload)) /\ up.upload \in {"", "u1"}
  BY DEF IInv, Types, UpOK, Crash
<1> QED BY <1>1, FreshIs, GivesUpKeeps

GivenUp(u) == [u EXCEPT !.walk = "off", !.listed = <<>>, !.marker = None, !.meant = <<>>]
LEMMA GivenUpIs ==
  ASSUME NEW u, IsUp(u), NEW v, v = GivenUp(u)
  PROVE  HasUp(v, u.upload, u.held, "off", None, <<>>, <<>>, u.last)
BY DEF HasUp, IsUp, GivenUp

LEMMA AbandonKeeps ==
  ASSUME UploadsAssumption, IInv, Abandon
  PROVE  IInv'
<1> DEFINE then == GivenUp(up)
<1>1. /\ GivesUp(then) /\ ~ Idle /\ UpOK(service.kind, up) /\ LastOK
  BY DEF IInv, Types, Abandon, GivenUp
<1>2. HasUp(then, up.upload, up.held, "off", None, <<>>, <<>>, up.last)
  BY <1>1, GivenUpIs DEF UpOK
<1> HIDE DEF then
<1>3. ListedOK(service.kind, <<>>)
  BY NothingListed
<1>4. UpOK(service.kind, then) /\ then.walk = "off" /\ then.last.outcome = "none"
  BY <1>1, <1>2, <1>3 DEF UpOK, HasUp, MarkerOK, LastOK
<1> QED BY <1>1, <1>4, GivesUpKeeps

-----------------------------------------------------------------------------
(* Answers.                                                                *)

LEMMA Answered ==
  ASSUME UploadsAssumption, IInv, call.op \in {"create", "stage", "commit", "abort", "list"},
         NEW error \in Errors(call) \cup {"Service"}, Does(call, error),
         call' = Blank, service' = service, late' = late, UpOK(service.kind, up')
  PROVE  /\ Types' /\ SteadyOK' /\ MeantOK' /\ LastOK' /\ LessSteady(steady, steady')
         /\ Sent(service.kind, call)
         /\ call.op # "create" => StoreGoesOn(store, store')
         /\ up.last.outcome = "none"
         /\ call.op # "list" => up.walk = "off"
         /\ up'.walk = "off" => WalkOK' /\ ResumedWhole'
<1>1. /\ Types /\ SteadyOK /\ LastOK /\ WalkOK /\ ServiceOK
      /\ SentOrBlank(service.kind, call) /\ LateOK(service.kind, late)
      /\ UpOK(service.kind, up)
  BY DEF IInv, Types
<1>2. call # Blank /\ ~ Idle
  BY BlankIs DEF Idle
<1>3. Sent(service.kind, call)
  BY <1>1, <1>2, SentNotIdle
<1>4. /\ StoreOK(service.kind, store')
      /\ call.op # "create" => StoreGoesOn(store, store')
      /\ LessSteady(steady, steady')
      /\ \A n \in Valid : steady'[n] # None => steady'[n] = store'.staged[n]
  BY <1>1, <1>3, DoesKeeps
<1>5. Types'
  <2>1. ServiceOK'
    BY <1>1 DEF ServiceOK
  <2> QED BY <1>1, <1>4, <2>1 DEF Types, SentOrBlank
<1>6. SteadyOK'
  BY <1>4 DEF SteadyOK
<1>7. MeantOK' /\ LastOK'
  BY BlankIs DEF MeantOK, LastOK, Idle
<1>8. up'.walk = "off" => WalkOK' /\ ResumedWhole'
  BY BlankIs DEF WalkOK, ResumedWhole
<1>9. up.last.outcome = "none"
  BY <1>1, <1>2 DEF LastOK
<1>10. call.op # "list" => up.walk = "off"
  BY <1>1, <1>2 DEF WalkOK, UpOK
<1> QED BY <1>3, <1>4, <1>5, <1>6, <1>7, <1>8, <1>9, <1>10

\* An answer that is of no commit and no listing.
LEMMA AnsweredOther ==
  ASSUME UploadsAssumption, IInv, call.op \in {"create", "stage", "abort"},
         NEW error \in Errors(call) \cup {"Service"}, Does(call, error),
         call' = Blank, service' = service, late' = late, UpOK(service.kind, up'),
         up'.walk = up.walk, up'.last = up.last
  PROVE  IInv'
<1>1. /\ Types' /\ SteadyOK' /\ MeantOK' /\ LastOK'
      /\ up'.last.outcome = "none" /\ up'.walk = "off" /\ WalkOK' /\ ResumedWhole'
  BY Answered
<1> QED BY <1>1, UnsayingNext DEF IInv

Uploading(u, upload) == [u EXCEPT !.upload = upload]
LEMMA UploadingIs ==
  ASSUME NEW u, IsUp(u), NEW upload, NEW v, v = Uploading(u, upload)
  PROVE  HasUp(v, upload, u.held, u.walk, u.marker, u.listed, u.meant, u.last)
BY DEF HasUp, IsUp, Uploading

LEMMA AnswerCreateKeeps ==
  ASSUME UploadsAssumption, IInv, AnswerCreate
  PROVE  IInv'
<1>1. PICK error \in Errors(call) \cup {"Service"} :
        /\ call.op = "create" /\ call' = Blank /\ service' = service /\ late' = late
        /\ Does(call, error)
        /\ \E reply, published : up' = ReadCreate(reply, published)
  BY DEF AnswerCreate, Answers
<1>2. \E upload \in {"u1", up.upload} : up' = Uploading(up, upload)
  BY <1>1 DEF ReadCreate, Uploading
<1>3. PICK upload \in {"u1", up.upload} : up' = Uploading(up, upload)
  BY <1>2
<1>4. UpOK(service.kind, up)
  BY DEF IInv, Types
<1>5. HasUp(up', upload, up.held, up.walk, up.marker, up.listed, up.meant, up.last)
  BY <1>3, <1>4, UploadingIs DEF UpOK
<1>6. UpOK(service.kind, up') /\ up'.walk = up.walk /\ up'.last = up.last
  BY <1>4, <1>5 DEF UpOK, HasUp
<1> QED BY <1>1, <1>6, AnsweredOther

Holding(u, held) == [u EXCEPT !.held = held]
LEMMA HoldingIs ==
  ASSUME NEW u, IsUp(u), NEW held, NEW v, v = Holding(u, held)
  PROVE  HasUp(v, u.upload, held, u.walk, u.marker, u.listed, u.meant, u.last)
BY DEF HasUp, IsUp, Holding

LEMMA AnswerAbortKeeps ==
  ASSUME UploadsAssumption, IInv, AnswerAbort
  PROVE  IInv'
<1>1. PICK error \in Errors(call) \cup {"Service"} :
        /\ call.op = "abort" /\ call' = Blank /\ service' = service /\ late' = late
        /\ Does(call, error)
        /\ \E reply, published : up' = ReadAbort(reply, published)
  BY DEF AnswerAbort, Answers
<1>2. \E held \in {HoldsNothing, up.held} : up' = Holding(up, held)
  BY <1>1 DEF ReadAbort, Holding
<1>3. PICK held \in {HoldsNothing, up.held} : up' = Holding(up, held)
  BY <1>2
<1>4. UpOK(service.kind, up)
  BY DEF IInv, Types
<1>5. HasUp(up', up.upload, held, up.walk, up.marker, up.listed, up.meant, up.last)
  BY <1>3, <1>4, HoldingIs DEF UpOK
<1>6. HeldOK(service.kind, held)
  BY <1>3, <1>4, HoldsNothingOK DEF UpOK
<1>7. UpOK(service.kind, up') /\ up'.walk = up.walk /\ up'.last = up.last
  BY <1>4, <1>5, <1>6 DEF UpOK, HasUp
<1> QED BY <1>1, <1>7, AnsweredOther

\* The tag of a part that is said to be staged is of what was sent.
LEMMA StagedReply ==
  ASSUME ~ Azure, call.op = "stage", NEW error,
         NEW reply \in IF error = None THEN Successes(call) ELSE ErrorReplies(call, error),
         AcceptStagePart(reply) = "Staged"
  PROVE  reply.tag = call.content
<1>1. reply.tag # Unsaid
  BY DEF AcceptStagePart, Failure, Unsaid
<1>2. CASE error = None
  <2>1. \/ reply = Reply(200, call.content, None, NoDoc)
        \/ reply = Reply(200, Unsaid, None, NoDoc)
    BY <1>2 DEF Successes, Unsaid
  <2>2. \A tag : Reply(200, tag, None, NoDoc).tag = tag
    BY DEF Reply
  <2> QED BY <1>1, <2>1, <2>2
<1>3. CASE error # None
  <2>1. reply = Reply(StatusOf(error), Unsaid, error, Doc("Error", <<>>))
    BY <1>3 DEF ErrorReplies, Unsaid
  <2>2. reply.tag = Unsaid
    BY <2>1 DEF Reply
  <2> QED BY <1>1, <2>2
<1> QED BY <1>2, <1>3

LEMMA HeldIs ==
  ASSUME NEW content, NEW state
  PROVE  /\ Held(content, state).content = content /\ Held(content, state).state = state
         /\ Held(content, state) =
              Held(Held(content, state).content, Held(content, state).state)
BY DEF Held

LEMMA AnswerStageKeeps ==
  ASSUME UploadsAssumption, IInv, AnswerStage
  PROVE  IInv'
<1>1. PICK error \in Errors(call) \cup {"Service"} :
        /\ call.op = "stage" /\ call' = Blank /\ service' = service /\ late' = late
        /\ Does(call, error)
        /\ \E reply \in IF error = None THEN Successes(call) ELSE ErrorReplies(call, error) :
             \E published : up' = ReadStage(reply, published)
  BY DEF AnswerStage, Answers
<1>2. PICK reply, published :
         /\ reply \in IF error = None THEN Successes(call) ELSE ErrorReplies(call, error)
         /\ up' = ReadStage(reply, published)
  BY <1>1
<1>3. UpOK(service.kind, up) /\ HeldOK(service.kind, up.held)
  BY DEF IInv, Types, UpOK
<1>4. call.content \in Contents(service.kind, call.number)
  <2>1. Sent(service.kind, call)
    BY <1>1, SentNotIdle DEF IInv, Types
  <2> QED BY <1>1, <2>1 DEF Sent
<1> DEFINE outcome == IF Azure THEN AcceptStageBlock(reply) ELSE AcceptStagePart(reply)
           holds == outcome = "Staged" /\ call.number \in Valid
           part == Held(IF Azure THEN "any" ELSE reply.tag, "staged")
           held == IF ~ holds THEN up.held ELSE [up.held EXCEPT ![call.number] = part]
<1>5. up' = Holding(up, held)
  BY <1>2 DEF ReadStage, Holding
<1>6. HeldOK(service.kind, held)
  <2>1. CASE ~ holds
    BY <1>3, <2>1
  <2>2. CASE holds
    <3>1. part.content \in Contents(service.kind, call.number) \cup {"any"}
      <4>1. CASE Azure
        BY <4>1, HeldIs
      <4>2. CASE ~ Azure
        <5>1. AcceptStagePart(reply) = "Staged"
          BY <2>2, <4>2
        <5>2. reply.tag = call.content
          BY <1>1, <1>2, <4>2, <5>1, StagedReply
        <5> QED BY <1>4, <4>2, <5>2, HeldIs
      <4> QED BY <4>1, <4>2
    <3>2. part = Held(part.content, part.state)
      BY HeldIs
    <3>3. held = [up.held EXCEPT ![call.number] = part] /\ call.number \in Valid
      BY <2>2
    <3> HIDE DEF held, part
    <3>4. /\ OfParts(held)
          /\ \A n \in Valid : held[n] = IF n = call.number THEN part ELSE up.held[n]
      BY <1>3, <3>3 DEF HeldOK, OfParts
    <3> QED BY <1>3, <3>1, <3>2, <3>4 DEF HeldOK
  <2> QED BY <2>1, <2>2
<1> HIDE DEF held
<1>7. HasUp(up', up.upload, held, up.walk, up.marker, up.listed, up.meant, up.last)
  BY <1>3, <1>5, HoldingIs DEF UpOK
<1>8. UpOK(service.kind, up') /\ up'.walk = up.walk /\ up'.last = up.last
  BY <1>3, <1>6, <1>7 DEF UpOK, HasUp
<1> QED BY <1>1, <1>8, AnsweredOther

-----------------------------------------------------------------------------
(* The verdict of a commit.                                                *)

LEMMA ReplyIs ==
  ASSUME NEW status, NEW tag, NEW error, NEW body
  PROVE  /\ Reply(status, tag, error, body).status = status
         /\ Reply(status, tag, error, body).error = error
         /\ Reply(status, tag, error, body).body = body
BY DEF Reply

LEMMA DocIs ==
  /\ NoDoc.root = Unsaid /\ Unsaid # "Error" /\ Unsaid # "CompleteMultipartUploadResult"
  /\ \A root, children : Doc(root, children).root = root
BY DEF NoDoc, Doc, Unsaid

LEMMA CommitErrors ==
  ASSUME NEW c, c.op = "commit", NEW error \in Errors(c) \cup {"Service"}, error # None
  PROVE  /\ error \in {"NoSuchUpload", "Precondition", "AlreadyExists", "InvalidUpload", "Service"}
         /\ error = "NoSuchUpload" => store.upload # "open"
         /\ error \in {"Precondition", "AlreadyExists"} => store.exists
<1>1. error = "Service" \/ error \in CommitError(c)
  BY DEF Errors
<1>2. CASE error \in CommitError(c)
  BY <1>2 DEF CommitError
<1> QED BY <1>1, <1>2

LEMMA FailureIs ==
  ASSUME NEW status, NEW error
  PROVE  /\ Failure(status, error) \in {"NotFound", "ServiceFailure"}
         /\ Failure(status, error) = "NotFound" => status = 404
BY DEF Failure

Refusing == {404, 412, 409, 400, 503}
LEMMA StatusIs ==
  ASSUME NEW error \in {"NoSuchUpload", "Precondition", "AlreadyExists", "InvalidUpload", "Service"}
  PROVE  /\ StatusOf(error) \in Refusing
         /\ StatusOf(error) = 404 <=> error = "NoSuchUpload"
         /\ StatusOf(error) = 412 <=> error = "Precondition"
BY DEF StatusOf, Refusing

\* The verdict of a commit that was done is that it was, or that the answer is
\* no answer.
LEMMA DoneVerdict ==
  ASSUME NEW condition, NEW reply, NEW outcome,
         outcome = IF Azure THEN AcceptCommitBlocks(condition, reply)
                   ELSE AcceptCommitParts(condition, reply),
         \/ Azure /\ reply = Reply(201, Unsaid, None, NoDoc)
         \/ ~ Azure /\ \E fields : reply = Reply(200, Unsaid, None,
                                                  Doc("CompleteMultipartUploadResult", fields))
         \/ ~ Azure /\ reply = Reply(200, Unsaid, None, NoDoc)
  PROVE  outcome \in {"Committed", "Fault"}
<1>1. CASE Azure
  <2>1. reply.status = 201 /\ outcome = AcceptCommitBlocks(condition, reply)
    BY <1>1, ReplyIs
  <2>2. AcceptCommitBlocks(condition, reply) = "Committed"
    BY <2>1 DEF AcceptCommitBlocks
  <2> QED BY <2>1, <2>2
<1>2. CASE ~ Azure
  <2>1. reply.status = 200 /\ outcome = AcceptCommitParts(condition, reply)
    BY <1>2, ReplyIs
  <2>2. reply.body.root = "CompleteMultipartUploadResult" \/ reply.body.root = Unsaid
    BY <1>2, ReplyIs, DocIs
  <2>3. AcceptCommitParts(condition, reply) = AcceptCommitBody(condition, reply)
    BY <2>1 DEF AcceptCommitParts
  <2>4. AcceptCommitBody(condition, reply) \in {"Committed", "Fault"}
    BY <2>2, DocIs DEF AcceptCommitBody, Completed
  <2> QED BY <2>1, <2>3, <2>4
<1> QED BY <1>1, <1>2

\* What an answer that is no success is read as.
LEMMA BlocksRefused ==
  ASSUME NEW condition, NEW reply, reply.status \in Refusing
  PROVE  \/ AcceptCommitBlocks(condition, reply) = Failure(reply.status, reply.error)
         \/ /\ AcceptCommitBlocks(condition, reply) = "PreconditionFailed"
            /\ reply.error \in {"Precondition", "AlreadyExists"}
BY DEF AcceptCommitBlocks, Refusing

LEMMA PartsRefused ==
  ASSUME NEW condition, NEW reply, reply.status \in Refusing
  PROVE  \/ AcceptCommitParts(condition, reply) = Failure(reply.status, reply.error)
         \/ AcceptCommitParts(condition, reply) = "Fault"
         \/ AcceptCommitParts(condition, reply) = "PreconditionFailed" /\ reply.status = 412
BY DEF AcceptCommitParts, Refusing

LEMMA PartsEarly ==
  ASSUME NEW condition, NEW reply, reply.status = 200, reply.body.root = "Error"
  PROVE  /\ AcceptCommitParts(condition, reply) \in {"PreconditionFailed", "NotFound", "ServiceFailure"}
         /\ AcceptCommitParts(condition, reply) = "NotFound" => reply.error = "NoSuchUpload"
         /\ AcceptCommitParts(condition, reply) = "PreconditionFailed" =>
              reply.error = "Precondition"
<1>1. AcceptCommitParts(condition, reply) = AcceptCommitBody(condition, reply)
  BY DEF AcceptCommitParts
<1>2. /\ AcceptCommitBody(condition, reply) \in {"PreconditionFailed", "NotFound", "ServiceFailure"}
      /\ AcceptCommitBody(condition, reply) = "NotFound" => reply.error = "NoSuchUpload"
      /\ AcceptCommitBody(condition, reply) = "PreconditionFailed" => reply.error = "Precondition"
  BY DEF AcceptCommitBody
<1> QED BY <1>1, <1>2

\* That of one that was refused is why, or that the answer is no answer.
LEMMA RefusedVerdict ==
  ASSUME NEW condition, NEW reply, NEW outcome,
         outcome = IF Azure THEN AcceptCommitBlocks(condition, reply)
                   ELSE AcceptCommitParts(condition, reply),
         NEW error \in {"NoSuchUpload", "Precondition", "AlreadyExists", "InvalidUpload", "Service"},
         \/ \E body : reply = Reply(StatusOf(error), Unsaid, error, body)
         \/ ~ Azure /\ reply = Reply(200, Unsaid, error, Doc("Error", <<>>))
  PROVE  /\ outcome \in {"PreconditionFailed", "NotFound", "ServiceFailure", "Fault"}
         /\ outcome = "NotFound" => error = "NoSuchUpload"
         /\ outcome = "PreconditionFailed" => error \in {"Precondition", "AlreadyExists"}
<1>1. CASE \E body : reply = Reply(StatusOf(error), Unsaid, error, body)
  <2>1. reply.status = StatusOf(error) /\ reply.error = error
    BY <1>1, ReplyIs
  <2>2. /\ reply.status \in Refusing
        /\ reply.status = 404 => error = "NoSuchUpload"
        /\ reply.status = 412 => error = "Precondition"
    BY <2>1, StatusIs
  <2>3. CASE Azure
    <3>1. outcome = AcceptCommitBlocks(condition, reply)
      BY <2>3
    <3>2. \/ outcome = Failure(reply.status, reply.error)
          \/ outcome = "PreconditionFailed" /\ error \in {"Precondition", "AlreadyExists"}
      BY <2>1, <2>2, <3>1, BlocksRefused
    <3> QED BY <2>2, <3>2, FailureIs
  <2>4. CASE ~ Azure
    <3>1. outcome = AcceptCommitParts(condition, reply)
      BY <2>4
    <3>2. \/ outcome = Failure(reply.status, reply.error)
          \/ outcome = "Fault"
          \/ outcome = "PreconditionFailed" /\ reply.status = 412
      BY <2>2, <3>1, PartsRefused
    <3> QED BY <2>2, <3>2, FailureIs
  <2> QED BY <2>3, <2>4
<1>2. CASE ~ Azure /\ reply = Reply(200, Unsaid, error, Doc("Error", <<>>))
  <2>1. reply.status = 200 /\ reply.error = error /\ reply.body.root = "Error"
    BY <1>2, ReplyIs, DocIs
  <2>2. outcome = AcceptCommitParts(condition, reply)
    BY <1>2
  <2>3. /\ outcome \in {"PreconditionFailed", "NotFound", "ServiceFailure"}
        /\ outcome = "NotFound" => error = "NoSuchUpload"
        /\ outcome = "PreconditionFailed" => error = "Precondition"
    BY <2>1, <2>2, PartsEarly
  <2> QED BY <2>3
<1> QED BY <1>1, <1>2

LEMMA CommitVerdict ==
  ASSUME NEW c, c.op = "commit", NEW error \in Errors(c) \cup {"Service"},
         NEW reply \in IF error = None THEN Successes(c) ELSE ErrorReplies(c, error),
         NEW outcome, outcome = IF Azure THEN AcceptCommitBlocks(c.condition, reply)
                                ELSE AcceptCommitParts(c.condition, reply)
  PROVE  /\ outcome \in Outcomes
         /\ outcome = "Committed" => error = None
         /\ outcome \in {"PreconditionFailed", "NotFound", "ServiceFailure"} => error # None
         /\ outcome = "NotFound" => store.upload # "open"
         /\ outcome = "PreconditionFailed" => store.exists
<1>1. CASE error = None
  <2>1. \/ Azure /\ reply = Reply(201, Unsaid, None, NoDoc)
        \/ ~ Azure /\ \E fields : reply = Reply(200, Unsaid, None,
                                                 Doc("CompleteMultipartUploadResult", fields))
        \/ ~ Azure /\ reply = Reply(200, Unsaid, None, NoDoc)
    BY <1>1 DEF Successes, Unsaid
  <2>2. outcome \in {"Committed", "Fault"}
    BY <2>1, DoneVerdict
  <2> QED BY <1>1, <2>2 DEF Outcomes
<1>2. CASE error # None
  <2>1. /\ error \in {"NoSuchUpload", "Precondition", "AlreadyExists", "InvalidUpload", "Service"}
        /\ error = "NoSuchUpload" => store.upload # "open"
        /\ error \in {"Precondition", "AlreadyExists"} => store.exists
    BY <1>2, CommitErrors
  <2>2. reply \in ErrorReplies(c, error)
    BY <1>2
  <2>3. \/ \E body : reply = Reply(StatusOf(error), Unsaid, error, body)
        \/ ~ Azure /\ reply = Reply(200, Unsaid, error, Doc("Error", <<>>))
    BY <2>2 DEF ErrorReplies, Unsaid
  <2>4. /\ outcome \in {"PreconditionFailed", "NotFound", "ServiceFailure", "Fault"}
        /\ outcome = "NotFound" => error = "NoSuchUpload"
        /\ outcome = "PreconditionFailed" => error \in {"Precondition", "AlreadyExists"}
    BY <2>1, <2>3, RefusedVerdict
  <2> QED BY <1>2, <2>1, <2>4 DEF Outcomes
<1> QED BY <1>1, <1>2

\* What is said of a part in a commit is the number and the tag of it.
LEMMA PartValues ==
  ASSUME NEW number, NEW tag, NEW fields,
         fields = <<Elem("PartNumber", number), Elem("ETag", tag)>>
  PROVE  ValuesOf(fields, "PartNumber") = <<number>> /\ ValuesOf(fields, "ETag") = <<tag>>
<1>1. Len(fields) = 2 /\ fields[1] = <<"PartNumber", number>> /\ fields[2] = <<"ETag", tag>>
  BY DEF Elem
<1>2. fields = [i \in 1 .. 2 |-> fields[i]]
  OBVIOUS
<1>3. Elements(fields)
  <2>1. \A i \in 1 .. 2 : fields[i] = Elem(fields[i][1], fields[i][2])
    BY <1>1 DEF Elem
  <2> QED BY <1>1, <1>2, <2>1 DEF Elements
<1>4. ValuesOf(fields, "PartNumber") = <<number>>
  <2>1. 1 \in 1 .. Len(fields) /\ fields[1][1] = "PartNumber" /\ fields[1][2] = number
        /\ \A j \in 1 .. Len(fields) : fields[j][1] = "PartNumber" => j = 1
    BY <1>1
  <2> QED BY <1>3, <2>1, ValuesOne
<1>5. ValuesOf(fields, "ETag") = <<tag>>
  <2>1. 2 \in 1 .. Len(fields) /\ fields[2][1] = "ETag" /\ fields[2][2] = tag
        /\ \A j \in 1 .. Len(fields) : fields[j][1] = "ETag" => j = 2
    BY <1>1
  <2> QED BY <1>3, <2>1, ValuesOne
<1> QED BY <1>4, <1>5

LEMMA OneIs ==
  ASSUME NEW x
  PROVE  <<x>> # <<>> /\ <<x>>[1] = x /\ \A y : <<x>> = <<y>> => x = y
OBVIOUS

\* A part that a commit finds has the number and the tag that it was named by.
LEMMA FoundPart ==
  ASSUME NEW number, NEW tag, NEW element,
         element = Elem("Part", <<Elem("PartNumber", number), Elem("ETag", tag)>>),
         NamedPart(element) # <<>>
  PROVE  NamedPart(element)[1].number = number /\ NamedPart(element)[1].content = tag
<1> DEFINE fields == <<Elem("PartNumber", number), Elem("ETag", tag)>>
           staged == IF number \in Valid THEN store.staged[number] ELSE None
           part == [number |-> number, content |-> staged]
<1>1. element[2] = fields
  BY DEF Elem
<1>2. ValuesOf(fields, "PartNumber") = <<number>> /\ ValuesOf(fields, "ETag") = <<tag>>
  <2> HIDE DEF fields
  <2> QED BY PartValues DEF fields
<1> HIDE DEF fields
<1>3. ValuesOf(element[2], "PartNumber")[1] = number /\ ValuesOf(element[2], "ETag") = <<tag>>
  BY <1>1, <1>2, OneIs
<1>4. NamedPart(element) = IF staged # None /\ <<tag>> \in {<<>>, <<staged>>}
                           THEN <<part>> ELSE <<>>
  BY <1>3 DEF NamedPart
<1> HIDE DEF staged, part
<1>5. <<tag>> \in {<<>>, <<staged>>} /\ NamedPart(element) = <<part>>
  BY <1>4
<1>6. tag = staged
  BY <1>5, OneIs
<1>7. NamedPart(element)[1] = part
  BY <1>5, OneIs
<1> QED BY <1>6, <1>7 DEF part

LEMMA FirstSelected ==
  ASSUME NEW S, NEW seq \in Seq(S), NEW at, Selected(seq, at) # <<>>
  PROVE  \E i \in at \cap 1 .. Len(seq) : Selected(seq, at)[1] = seq[i]
<1>1. Selected(seq, at) \in Seq(S)
  BY SelectedExists
<1>2. 1 \in 1 .. Len(Selected(seq, at))
  BY <1>1
<1> QED BY <1>2, SelectedFrom

\* A block has the ID that it was named by.
LEMMA FoundBlock ==
  ASSUME IsSeq(store.blocks), NEW element, NamedBlock(element) # <<>>
  PROVE  NamedBlock(element)[1].number = element[2]
<1> DEFINE number == element[2]
           staged == store.staged[number]
           at == {i \in DOMAIN store.blocks : store.blocks[i].number = number}
           committed == Selected(store.blocks, at)
           block == [number |-> number, content |-> staged]
           S == {store.blocks[i] : i \in 1 .. Len(store.blocks)}
<1>1. NamedBlock(element) = <<block>> \/
      (committed # <<>> /\ NamedBlock(element) = <<committed[1]>>)
  BY DEF NamedBlock
<1>2. /\ DOMAIN store.blocks = 1 .. Len(store.blocks) /\ Len(store.blocks) \in Nat
      /\ store.blocks = [i \in 1 .. Len(store.blocks) |-> store.blocks[i]]
  BY IsSeqDomain DEF IsSeq
<1>3. store.blocks \in Seq(S)
  <2>1. store.blocks \in [1 .. Len(store.blocks) -> S]
    BY <1>2
  <2> HIDE DEF S
  <2> QED BY <1>2, <2>1, FunctionIsSeq
<1> HIDE DEF S, committed
<1>4. CASE NamedBlock(element) = <<block>>
  <2>1. NamedBlock(element)[1] = block
    BY <1>4, OneIs
  <2> QED BY <2>1
<1>5. CASE committed # <<>> /\ NamedBlock(element) = <<committed[1]>>
  <2>1. \E i \in at \cap 1 .. Len(store.blocks) : committed[1] = store.blocks[i]
    <3> HIDE DEF at
    <3> QED BY <1>3, <1>5, FirstSelected DEF committed
  <2>2. committed[1].number = number
    BY <2>1
  <2>3. NamedBlock(element)[1] = committed[1]
    BY <1>5, OneIs
  <2> QED BY <2>2, <2>3
<1> QED BY <1>1, <1>4, <1>5

\* What a commit that is done publishes is what was meant.
LEMMA PublishedMeant ==
  ASSUME Types, MeantOK, call.op = "commit", Sent(service.kind, call), None \in Errors(call),
         NEW published, published = Published(call)
  PROVE  /\ Len(published) = Len(up.meant)
         /\ call.size # 0 => Len(published) = call.size
         /\ DOMAIN up.meant = 1 .. Len(up.meant)
         /\ \A i \in 1 .. Len(up.meant) :
              /\ published[i].number = up.meant[i].number
              /\ ~ Azure => published[i].content = up.meant[i].content
<1> DEFINE list == call.list
           named == Named(list)
<1>1. IsSeq(list) /\ IsSeq(store.blocks) /\ DOMAIN list = 1 .. Len(list) /\ Len(list) \in Nat
  BY IsSeqDomain DEF Types, StoreOK, Sent
<1>2. /\ IsSeq(up.meant) /\ Len(up.meant) = Len(list)
      /\ \A i \in 1 .. Len(list) :
           IF Azure THEN list[i][2] = up.meant[i].number
           ELSE list[i] = Elem("Part", <<Elem("PartNumber", up.meant[i].number),
                                        Elem("ETag", up.meant[i].content)>>)
      /\ Azure => call.size = 0
  BY DEF MeantOK, MeantOf, Azure
<1>3. /\ Len(published) = Len(list) /\ Len(named) = Len(list)
      /\ \A i \in 1 .. Len(list) : published[i] = named[i][1]
  BY <1>1, PublishedIs
<1>4. /\ \A i \in DOMAIN named : named[i] # <<>>
      /\ ~ Azure => call.size \in {0, Len(named)}
  BY DoneOnly DEF Sent
<1>5. \A i \in 1 .. Len(list) :
        /\ named[i] # <<>>
        /\ named[i] = IF Azure THEN NamedBlock(list[i]) ELSE NamedPart(list[i])
  BY <1>1, <1>4 DEF Named
<1> HIDE DEF named
<1>6. \A i \in 1 .. Len(list) :
        /\ published[i].number = up.meant[i].number
        /\ ~ Azure => published[i].content = up.meant[i].content
  <2> TAKE i \in 1 .. Len(list)
  <2>1. CASE Azure
    <3>1. named[i] = NamedBlock(list[i]) /\ NamedBlock(list[i]) # <<>>
      BY <1>5, <2>1
    <3>2. NamedBlock(list[i])[1].number = list[i][2]
      BY <1>1, <3>1, FoundBlock
    <3>3. list[i][2] = up.meant[i].number
      BY <1>2, <2>1
    <3> QED BY <1>3, <2>1, <3>1, <3>2, <3>3
  <2>2. CASE ~ Azure
    <3>1. named[i] = NamedPart(list[i]) /\ NamedPart(list[i]) # <<>>
      BY <1>5, <2>2
    <3>2. list[i] = Elem("Part", <<Elem("PartNumber", up.meant[i].number),
                                  Elem("ETag", up.meant[i].content)>>)
      BY <1>2, <2>2
    <3>3. /\ NamedPart(list[i])[1].number = up.meant[i].number
          /\ NamedPart(list[i])[1].content = up.meant[i].content
      BY <3>1, <3>2, FoundPart
    <3> QED BY <1>3, <3>1, <3>3
  <2> QED BY <2>1, <2>2
<1>7. DOMAIN up.meant = 1 .. Len(up.meant)
  BY <1>2, IsSeqDomain
<1> QED BY <1>2, <1>3, <1>4, <1>6, <1>7

Ending(u, last, held) == [u EXCEPT !.last = last, !.meant = <<>>, !.held = held]
LEMMA EndingIs ==
  ASSUME NEW u, IsUp(u), NEW last, NEW held, NEW v, v = Ending(u, last, held)
  PROVE  HasUp(v, u.upload, held, u.walk, u.marker, u.listed, <<>>, last)
BY DEF HasUp, IsUp, Ending

LEMMA AfterCommitOK ==
  ASSUME NEW kind, HeldOK(kind, up.held)
  PROVE  HeldOK(kind, AfterCommit)
<1>1. \A content, state : [Held(content, state) EXCEPT !.state = "committed"] =
                            Held(content, "committed")
  BY DEF Held
<1>2. \A n \in Valid : \/ AfterCommit[n] = Nothing
                       \/ AfterCommit[n] = Held(up.held[n].content, "committed")
  <2> TAKE n \in Valid
  <2>1. up.held[n] = Held(up.held[n].content, up.held[n].state)
    BY DEF HeldOK
  <2>2. [up.held[n] EXCEPT !.state = "committed"] = Held(up.held[n].content, "committed")
    BY <1>1, <2>1
  <2>3. AfterCommit[n] = Nothing \/ AfterCommit[n] = [up.held[n] EXCEPT !.state = "committed"]
    BY DEF AfterCommit
  <2> QED BY <2>2, <2>3
<1>3. OfParts(AfterCommit)
  BY DEF OfParts, AfterCommit
<1>4. \A n \in Valid : /\ AfterCommit[n] = Held(AfterCommit[n].content, AfterCommit[n].state)
                       /\ AfterCommit[n].content \in Contents(kind, n) \cup {None, "any"}
  <2> TAKE n \in Valid
  <2>1. up.held[n].content \in Contents(kind, n) \cup {None, "any"}
    BY DEF HeldOK
  <2>2. CASE AfterCommit[n] = Nothing
    BY <2>2, NothingIs
  <2>3. CASE AfterCommit[n] = Held(up.held[n].content, "committed")
    BY <2>1, <2>3, HeldIs
  <2> QED BY <1>2, <2>2, <2>3
<1> QED BY <1>3, <1>4 DEF HeldOK

\* What is kept of a commit that was answered.
LastIs(last, outcome, published, size, meant) ==
  /\ last.outcome = outcome /\ last.published = published /\ last.size = size
  /\ last.meant = meant

LEMMA AnswerCommitKeeps ==
  ASSUME UploadsAssumption, IInv, AnswerCommit
  PROVE  IInv'
<1>1. PICK error \in Errors(call) \cup {"Service"} :
        /\ call.op = "commit" /\ call' = Blank /\ service' = service /\ late' = late
        /\ Does(call, error)
        /\ \E reply \in IF error = None THEN Successes(call) ELSE ErrorReplies(call, error) :
             up' = ReadCommit(reply, IF error = None
                                     THEN [did |-> TRUE, blocks |-> Published(call)]
                                     ELSE Unpublished)
  BY DEF AnswerCommit, Answers
<1> DEFINE published == IF error = None THEN [did |-> TRUE, blocks |-> Published(call)]
                        ELSE Unpublished
<1>2. PICK reply \in IF error = None THEN Successes(call) ELSE ErrorReplies(call, error) :
        up' = ReadCommit(reply, published)
  BY <1>1
<1> DEFINE outcome == IF Azure THEN AcceptCommitBlocks(call.condition, reply)
                      ELSE AcceptCommitParts(call.condition, reply)
           meant == IF outcome = "Committed" THEN up.meant ELSE <<>>
           last == [outcome |-> outcome, published |-> published, size |-> call.size,
                    meant |-> meant]
           held == IF outcome = "Committed" THEN AfterCommit ELSE up.held
<1>3. up' = Ending(up, last, held)
  BY <1>2 DEF ReadCommit, Ending
<1>4. LastIs(last, outcome, published, call.size, meant)
  BY DEF LastIs
<1>5. /\ outcome \in Outcomes
      /\ outcome = "Committed" => error = None
      /\ outcome \in {"PreconditionFailed", "NotFound", "ServiceFailure"} => error # None
      /\ outcome = "NotFound" => store.upload # "open"
      /\ outcome = "PreconditionFailed" => store.exists
  BY <1>1, CommitVerdict
<1>6. published.did <=> error = None
  BY DEF Unpublished
<1>7. error = None => published.blocks = Published(call)
  OBVIOUS
<1>8. outcome = "Committed" => meant = up.meant
  OBVIOUS
<1>9. held \in {AfterCommit, up.held}
  OBVIOUS
<1> HIDE DEF last, held, outcome, published, meant
<1>10. UpOK(service.kind, up) /\ HeldOK(service.kind, up.held) /\ Types /\ MeantOK
  BY DEF IInv, Types, UpOK
<1>11. HasUp(up', up.upload, held, up.walk, up.marker, up.listed, <<>>, last)
  BY <1>3, <1>10, EndingIs DEF UpOK
<1>12. HeldOK(service.kind, held)
  BY <1>9, <1>10, AfterCommitOK
<1>13. UpOK(service.kind, up')
  BY <1>4, <1>5, <1>10, <1>11, <1>12 DEF UpOK, HasUp, LastIs
<1>14. /\ Types' /\ SteadyOK' /\ MeantOK' /\ LastOK' /\ Sent(service.kind, call)
       /\ StoreGoesOn(store, store') /\ up'.walk = "off" /\ WalkOK' /\ ResumedWhole'
  <2>1. /\ Types' /\ SteadyOK' /\ MeantOK' /\ LastOK' /\ Sent(service.kind, call)
        /\ StoreGoesOn(store, store') /\ up.walk = "off"
        /\ up'.walk = "off" => WalkOK' /\ ResumedWhole'
    BY <1>1, <1>13, Answered
  <2>2. up'.walk = up.walk
    BY <1>11 DEF HasUp
  <2> QED BY <2>1, <2>2
<1>15. up'.last = last
  BY <1>11 DEF HasUp
<1>16. VerdictIsTrue'
  BY <1>4, <1>5, <1>6, <1>14, <1>15 DEF VerdictIsTrue, LastIs, StoreGoesOn
<1>17. PublishedAsMeant'
  <2>1. CASE outcome = "Committed"
    <3>1. error = None /\ None \in Errors(call)
      BY <1>1, <1>5, <2>1 DEF None
    <3> DEFINE blocks == Published(call)
    <3>2. /\ Len(blocks) = Len(up.meant)
          /\ call.size # 0 => Len(blocks) = call.size
          /\ DOMAIN up.meant = 1 .. Len(up.meant)
          /\ \A i \in 1 .. Len(up.meant) :
               /\ blocks[i].number = up.meant[i].number
               /\ ~ Azure => blocks[i].content = up.meant[i].content
      BY <1>1, <1>10, <1>14, <3>1, PublishedMeant
    <3>3. /\ up'.last.published.blocks = blocks /\ up'.last.meant = up.meant
          /\ up'.last.size = call.size
      BY <1>4, <1>7, <1>8, <1>15, <2>1, <3>1 DEF LastIs
    <3>4. service' = service
      BY <1>1
    <3> HIDE DEF blocks
    <3> QED BY <3>2, <3>3, <3>4 DEF PublishedAsMeant, Azure
  <2>2. CASE outcome # "Committed"
    <3>1. up'.last.outcome # "Committed"
      BY <1>4, <1>15, <2>2 DEF LastIs
    <3> QED BY <3>1 DEF PublishedAsMeant
  <2> QED BY <2>1, <2>2
<1> QED BY <1>14, <1>16, <1>17 DEF IInv

-----------------------------------------------------------------------------
(* A page of the parts that the service holds.                             *)

LEMMA NumberIs ==
  ASSUME NEW m \in Valid
  PROVE  NumberOf(Digits[m]) = m /\ Digits[m] # None /\ Digits[m] # Unsaid /\ m \in Nat \ {0}
<1>1. m \in 1 .. MaxParts /\ MaxParts \in Nat
  BY DigitsAssumption DEF Valid
<1>2. \A n \in 1 .. MaxParts : Digits[n] = Digits[m] => n = m
  BY <1>1, DigitsAssumption
<1>3. NumberOf(Digits[m]) = m
  BY <1>1, <1>2 DEF NumberOf
<1>4. Digits[m] # None /\ Digits[m] # Unsaid
  BY <1>1, DigitsAssumption DEF Unsaid
<1> QED BY <1>1, <1>3, <1>4

\* Two sequences after each other.
Joined(front, back) == front \o back

LEMMA JoinedIs ==
  ASSUME NEW front, NEW back, IsSeq(front), IsSeq(back), NEW both, both = Joined(front, back)
  PROVE  /\ IsSeq(both) /\ Len(both) = Len(front) + Len(back)
         /\ \A i \in 1 .. Len(front) : both[i] = front[i]
         /\ \A i \in 1 .. Len(back) : both[Len(front) + i] = back[i]
<1> DEFINE S == {front[i] : i \in 1 .. Len(front)} \cup {back[i] : i \in 1 .. Len(back)}
<1>1. /\ Len(front) \in Nat /\ front = [i \in 1 .. Len(front) |-> front[i]]
      /\ Len(back) \in Nat /\ back = [i \in 1 .. Len(back) |-> back[i]]
  BY DEF IsSeq
<1>2. front \in Seq(S) /\ back \in Seq(S)
  <2>1. front \in [1 .. Len(front) -> S] /\ back \in [1 .. Len(back) -> S]
    BY <1>1
  <2> HIDE DEF S
  <2> QED BY <1>1, <2>1, FunctionIsSeq
<1> HIDE DEF S
<1>3. /\ both \in Seq(S) /\ Len(both) = Len(front) + Len(back)
      /\ \A i \in 1 .. Len(front) + Len(back) :
           both[i] = IF i <= Len(front) THEN front[i] ELSE back[i - Len(front)]
  BY <1>2, ConcatProperties DEF Joined
<1>4. IsSeq(both)
  BY <1>3 DEF IsSeq
<1>5. \A i \in 1 .. Len(front) : both[i] = front[i]
  BY <1>1, <1>3
<1>6. \A i \in 1 .. Len(back) : both[Len(front) + i] = back[i]
  <2> TAKE i \in 1 .. Len(back)
  <2>1. /\ Len(front) + i \in 1 .. Len(front) + Len(back) /\ ~ (Len(front) + i <= Len(front))
        /\ (Len(front) + i) - Len(front) = i
    BY <1>1
  <2> QED BY <1>3, <2>1
<1> QED BY <1>3, <1>4, <1>5, <1>6

LEMMA InOrderIs ==
  ASSUME NEW numbers \in SUBSET Valid
  PROVE  /\ Enumerates(InOrder(numbers), numbers)
         /\ InOrder(numbers) \in Seq(Nat) /\ Len(InOrder(numbers)) \in Nat
         /\ Cardinality(numbers) = Len(InOrder(numbers))
<1>1. MaxParts \in Nat /\ numbers \cap 1 .. MaxParts = numbers
  BY DigitsAssumption, ValidIs
<1>2. Enumerates(InOrder(numbers), numbers)
  BY <1>1, SelectedNumbers DEF InOrder
<1> QED BY <1>2, EnumerationCounts DEF Enumerates

\* The numbers of a page are of parts that the service holds, in order, from a
\* number on and as far as the page goes; the last page goes to the end.
IsPage(s, after, size, numbers, tags, next, more) ==
  /\ numbers \in Seq(Nat)
  /\ \A i \in 1 .. Len(numbers) :
       /\ numbers[i] \in StagedIn(s) /\ numbers[i] > after
       /\ tags[i] = s.staged[numbers[i]]
  /\ \A i, j \in 1 .. Len(numbers) : i < j => numbers[i] < numbers[j]
  /\ more \in {"true", "false"}
  /\ more = "true" => Len(numbers) > 0 /\ next = Digits[numbers[Len(numbers)]]
  /\ \A n \in StagedIn(s) :
       n > after /\ (more = "true" => n <= numbers[Len(numbers)]) =>
         \E i \in 1 .. Len(numbers) : numbers[i] = n
  /\ after = 0 => (more = "true" <=> Cardinality(StagedIn(s)) > size)

\* A page holds the first of some numbers in order, all of them if there is room.
FirstOf(page, all, at, size) ==
  /\ page \in Seq(Nat) /\ Len(page) \in Nat
  /\ \A i \in 1 .. Len(page) : page[i] \in at
  /\ \A i, j \in 1 .. Len(page) : i < j => page[i] < page[j]
  /\ Len(all) > size => Len(page) > 0
  /\ \A n \in at : (Len(all) > size => n <= page[Len(page)]) =>
       \E i \in 1 .. Len(page) : page[i] = n

LEMMA FirstNumbers ==
  ASSUME NEW all, NEW at, Enumerates(all, at), NEW size \in Nat \ {0}, NEW page,
         page = SubSeq(all, 1, IF size < Len(all) THEN size ELSE Len(all))
  PROVE  FirstOf(page, all, at, size)
<1> DEFINE k == IF size < Len(all) THEN size ELSE Len(all)
<1>1. all \in Seq(Nat) /\ Len(all) \in Nat
  BY DEF Enumerates
<1>2. k \in Nat /\ k <= Len(all) /\ (Len(all) > size => k = size) /\ (~ Len(all) > size => k = Len(all))
  BY <1>1
<1>3. page = SubSeq(all, 1, k)
  OBVIOUS
<1> HIDE DEF k
<1>4. /\ page \in Seq(Nat) /\ Len(page) = k /\ \A i \in 1 .. k : page[i] = all[i]
  <2>1. 1 \in 1 .. Len(all) + 1 /\ k \in 1 - 1 .. Len(all) /\ k - 1 + 1 = k
    BY <1>1, <1>2
  <2>2. /\ page \in Seq(Nat) /\ Len(page) = k - 1 + 1
        /\ \A i \in 1 .. k - 1 + 1 : page[i] = all[1 + i - 1]
    BY <1>1, <1>3, <2>1, SubSeqIs
  <2>3. \A i \in 1 .. k : 1 + i - 1 = i
    BY <1>2
  <2> QED BY <1>2, <2>1, <2>2, <2>3
<1>5. \A i \in 1 .. k : i \in 1 .. Len(all)
  BY <1>1, <1>2
<1>6. \A i \in 1 .. Len(page) : page[i] \in at
  BY <1>4, <1>5 DEF Enumerates
<1>7. \A i, j \in 1 .. Len(page) : i < j => page[i] < page[j]
  BY <1>4, <1>5 DEF Enumerates
<1>8. ASSUME NEW n \in at, Len(all) > size => n <= page[Len(page)]
      PROVE  \E i \in 1 .. Len(page) : page[i] = n
  <2>1. PICK i \in 1 .. Len(all) : all[i] = n
    BY DEF Enumerates
  <2>2. CASE i <= k
    <3>1. i \in 1 .. k
      BY <1>1, <1>2, <2>2
    <3> QED BY <1>4, <2>1, <3>1
  <2>3. CASE ~ (i <= k)
    <3>1. Len(all) > size /\ k = size /\ k \in 1 .. Len(all) /\ k < i
      BY <1>1, <1>2, <2>3
    <3>2. page[Len(page)] = all[k]
      BY <1>4, <3>1
    <3>3. all[k] < all[i] /\ all[k] \in Nat /\ all[i] \in Nat
      <4>1. all[k] < all[i]
        BY <3>1 DEF Enumerates
      <4> QED BY <1>1, <3>1, <4>1, ElementOfSeq
    <3> QED BY <1>8, <2>1, <3>1, <3>2, <3>3
  <2> QED BY <2>2, <2>3
<1>9. Len(all) > size => Len(page) > 0
  BY <1>1, <1>2, <1>4
<1> QED BY <1>2, <1>4, <1>6, <1>7, <1>8, <1>9 DEF FirstOf

\* The children of a page are what is said of it, and its parts.
LEMMA PageChildren ==
  ASSUME NEW next, NEW more, NEW numbers, NEW tags, IsSeq(numbers), NEW parts,
         IsSeq(parts), Len(parts) = Len(numbers),
         \A i \in 1 .. Len(numbers) : parts[i] = Elem("Part", PartFields(numbers[i], tags[i]))
  PROVE  PageOf(<<Elem("NextPartNumberMarker", next), Elem("IsTruncated", more)>> \o parts,
                numbers, tags, next, more)
<1> DEFINE head == <<Elem("NextPartNumberMarker", next), Elem("IsTruncated", more)>>
           children == head \o parts
           k == Len(numbers)
<1>1. k \in Nat
  BY DEF IsSeq
<1>2. IsSeq(parts) /\ Len(parts) = k
  OBVIOUS
<1>3. /\ IsSeq(head) /\ Len(head) = 2
      /\ head[1] = Elem("NextPartNumberMarker", next) /\ head[2] = Elem("IsTruncated", more)
  <2>1. DOMAIN head = 1 .. 2 /\ head = [i \in 1 .. 2 |-> head[i]]
    OBVIOUS
  <2>2. head[1] = Elem("NextPartNumberMarker", next) /\ head[2] = Elem("IsTruncated", more)
    OBVIOUS
  <2> HIDE DEF head
  <2> QED BY <2>1, <2>2, IsSeqBy
<1> HIDE DEF head, k
<1>4. /\ IsSeq(children) /\ Len(children) = 2 + k
      /\ \A i \in 1 .. 2 : children[i] = head[i]
      /\ \A i \in 1 .. k : children[2 + i] = parts[i]
  <2>1. /\ IsSeq(children) /\ Len(children) = Len(head) + Len(parts)
        /\ \A i \in 1 .. Len(head) : children[i] = head[i]
        /\ \A i \in 1 .. Len(parts) : children[Len(head) + i] = parts[i]
    <3>1. children = Joined(head, parts) /\ IsSeq(head) /\ IsSeq(parts)
      BY <1>2, <1>3 DEF Joined
    <3> HIDE DEF children
    <3> QED BY <3>1, JoinedIs
  <2> HIDE DEF children
  <2> QED BY <1>2, <1>3, <2>1
<1> HIDE DEF children
<1>5. \A name, value : Elem(name, value)[1] = name /\ Elem(name, value)[2] = value
  BY DEF Elem
<1>6. children[1] = head[1] /\ children[2] = head[2]
  BY <1>4
<1>7. \A i \in 1 .. k : children[i + 2] = Elem("Part", PartFields(numbers[i], tags[i]))
  <2> TAKE i \in 1 .. k
  <2>1. i + 2 = 2 + i
    BY <1>1
  <2> QED BY <1>4, <2>1 DEF k
<1>8. \A i \in 1 .. 2 + k : children[i] = Elem(children[i][1], children[i][2])
  <2> TAKE i \in 1 .. 2 + k
  <2>1. CASE i \in 1 .. 2
    <3>1. i = 1 \/ i = 2
      BY <2>1
    <3> QED BY <1>3, <1>5, <1>6, <3>1
  <2>2. CASE i \notin 1 .. 2
    <3>1. i - 2 \in 1 .. k /\ (i - 2) + 2 = i
      BY <1>1, <2>2
    <3>2. children[(i - 2) + 2] = Elem("Part", PartFields(numbers[i - 2], tags[i - 2]))
      BY <1>7, <3>1
    <3> QED BY <1>5, <3>1, <3>2
  <2> QED BY <2>1, <2>2
<1>9. Elements(children)
  <2>1. children = [i \in 1 .. Len(children) |-> children[i]] /\ Len(children) \in Nat
    BY <1>4 DEF IsSeq
  <2> QED BY <1>4, <1>8, <2>1 DEF Elements
<1>10. PageOf(children, numbers, tags, next, more)
  <2>1. Len(children) = k + 2
    BY <1>1, <1>4
  <2>2. /\ children[1][1] = "NextPartNumberMarker" /\ children[1][2] = next
        /\ children[2][1] = "IsTruncated" /\ children[2][2] = more
    BY <1>3, <1>5, <1>6
  <2>3. \A i \in 1 .. k : children[i + 2][1] = "Part" /\ children[i + 2][2] = PartFields(numbers[i], tags[i])
    BY <1>5, <1>7
  <2> QED BY <1>1, <1>9, <2>1, <2>2, <2>3 DEF PageOf, k
<1> QED BY <1>10 DEF children, head

AfterOf(marker) == IF marker = None \/ service.ignores THEN 0 ELSE NumberOf(marker)

LEMMA AfterIs ==
  ASSUME NEW marker, MarkerOK(marker)
  PROVE  AfterOf(marker) \in Nat
<1>1. marker = None \/ NumberOf(marker) \in Nat
  BY NumberIs DEF MarkerOK
<1> QED BY <1>1 DEF AfterOf

LEMMA PartsAfterIs ==
  ASSUME UploadsAssumption, NEW marker, MarkerOK(marker), NEW size \in Nat \ {0}
  PROVE  \E children, numbers, tags, next, more :
           /\ PartsAfter(marker, size) = Doc("ListPartsResult", children)
           /\ PageOf(children, numbers, tags, next, more)
           /\ IsPage(store, AfterOf(marker), size, numbers, tags, next, more)
<1> DEFINE after == IF marker = None \/ service.ignores THEN 0 ELSE NumberOf(marker)
           at == {n \in Staged : n > after}
           all == InOrder(at)
           page == SubSeq(all, 1, IF size < Len(all) THEN size ELSE Len(all))
           next == IF page = <<>> THEN "" ELSE Digits[Last(page)]
           more == IF Len(all) > size THEN "true" ELSE "false"
           parts == [i \in DOMAIN page |-> PartElem(page[i])]
           tags == [i \in 1 .. Len(page) |-> store.staged[page[i]]]
           children == <<Elem("NextPartNumberMarker", next), Elem("IsTruncated", more)>> \o parts
<1>1. PartsAfter(marker, size) = Doc("ListPartsResult", children)
  BY DEF PartsAfter
<1>2. after = AfterOf(marker) /\ after \in Nat
  BY AfterIs DEF AfterOf
<1>3. at \in SUBSET Valid /\ Staged = StagedIn(store) /\ at \subseteq StagedIn(store)
  BY DEF Staged, StagedIn
<1>4. \A n \in at : n > after
  OBVIOUS
<1>5. \A n \in StagedIn(store) : n > after => n \in at
  BY <1>3
<1>6. after = 0 => at = StagedIn(store)
  <2>1. \A n \in Staged : n \in Nat /\ n > 0
    BY NumberIs DEF Staged
  <2> HIDE DEF after
  <2> QED BY <1>3, <2>1
<1> HIDE DEF after, at
<1>7. /\ Enumerates(all, at) /\ all \in Seq(Nat) /\ Len(all) \in Nat
      /\ Cardinality(at) = Len(all)
  BY <1>3, InOrderIs
<1>8. more \in {"true", "false"} /\ (more = "true" <=> Len(all) > size)
  OBVIOUS
<1> HIDE DEF all, more
<1>9. /\ page \in Seq(Nat) /\ Len(page) \in Nat
      /\ \A i \in 1 .. Len(page) : page[i] \in at
      /\ \A i, j \in 1 .. Len(page) : i < j => page[i] < page[j]
      /\ Len(all) > size => Len(page) > 0
      /\ \A n \in at : (Len(all) > size => n <= page[Len(page)]) =>
           \E i \in 1 .. Len(page) : page[i] = n
  <2>1. page = SubSeq(all, 1, IF size < Len(all) THEN size ELSE Len(all))
    OBVIOUS
  <2> HIDE DEF page
  <2>2. Enumerates(all, at)
    BY <1>7
  <2>3. FirstOf(page, all, at, size)
    BY <2>1, <2>2, FirstNumbers
  <2> QED BY <2>3 DEF FirstOf
<1>10. Len(page) > 0 => next = Digits[page[Len(page)]]
  <2> HIDE DEF page
  <2>1. Len(page) > 0 => page # <<>>
    OBVIOUS
  <2> QED BY <2>1 DEF Last
<1> HIDE DEF page, next
<1>11. DOMAIN page = 1 .. Len(page) /\ IsSeq(page)
  BY <1>9 DEF IsSeq
<1>12. \A i \in 1 .. Len(page) : tags[i] = store.staged[page[i]]
  OBVIOUS
<1> HIDE DEF tags
<1>13. /\ IsSeq(parts) /\ Len(parts) = Len(page)
       /\ \A i \in 1 .. Len(page) : parts[i] = Elem("Part", PartFields(page[i], tags[i]))
  <2>1. /\ DOMAIN parts = 1 .. Len(page) /\ parts = [i \in 1 .. Len(page) |-> parts[i]]
        /\ \A i \in 1 .. Len(page) : parts[i] = Elem("Part", PartFields(page[i], tags[i]))
    BY <1>11, <1>12 DEF PartElem, PartFields
  <2> HIDE DEF parts
  <2> QED BY <1>9, <2>1, IsSeqBy
<1> HIDE DEF parts
<1>14. PageOf(children, page, tags, next, more)
  BY <1>11, <1>13, PageChildren
<1>15. IsPage(store, AfterOf(marker), size, page, tags, next, more)
  <2>1. \A i \in 1 .. Len(page) :
          /\ page[i] \in StagedIn(store) /\ page[i] > after
          /\ tags[i] = store.staged[page[i]]
    BY <1>3, <1>4, <1>9, <1>12
  <2>2. \A n \in StagedIn(store) :
          n > after /\ (more = "true" => n <= page[Len(page)]) =>
            \E i \in 1 .. Len(page) : page[i] = n
    BY <1>5, <1>8, <1>9
  <2>3. after = 0 => (more = "true" <=> Cardinality(StagedIn(store)) > size)
    BY <1>6, <1>7, <1>8
  <2> QED BY <1>2, <1>8, <1>9, <1>10, <2>1, <2>2, <2>3 DEF IsPage
<1> HIDE DEF children
<1> QED BY <1>1, <1>14, <1>15

-----------------------------------------------------------------------------
(* What the uploader reads of a page.                                      *)

LEMMA UnfilledIs ==
  ASSUME NEW why, why # "page"
  PROVE  Unfilled(why).filled # "page"
BY DEF Unfilled

\* No page is read of an error.
LEMMA ErrorUnread ==
  ASSUME NEW room
  PROVE  /\ FillParts(Doc("Error", <<>>), room).filled # "page"
         /\ FillBlocks(NoDoc, room).filled # "page"
<1>1. FillParts(Doc("Error", <<>>), room).filled # "page"
  <2> DEFINE body == Doc("Error", <<>>)
  <2>1. body.root = "Error"
    BY DEF Doc
  <2> HIDE DEF body
  <2>2. \E why \in {"service", "body", "capacity"} : FillParts(body, room) = Unfilled(why)
    BY <2>1 DEF FillParts
  <2> QED BY <2>2, UnfilledIs DEF body
<1>2. FillBlocks(NoDoc, room).filled # "page"
  <2> DEFINE body == NoDoc
  <2>1. body.root # "BlockList"
    BY DEF Doc, NoDoc
  <2> HIDE DEF body
  <2>2. \E why \in {"body", "capacity"} : FillBlocks(body, room) = Unfilled(why)
    BY <2>1 DEF FillBlocks
  <2> QED BY <2>2, UnfilledIs DEF body
<1> QED BY <1>1, <1>2

PageRead(reply) == IF AcceptList(reply) = "Parts" THEN Page(reply.body) ELSE Unfilled("failure")

LEMMA PageOfError ==
  ASSUME call.op = "list", NEW error, NEW reply \in ErrorReplies(call, error)
  PROVE  PageRead(reply).filled # "page"
<1>1. reply.body = IF Azure THEN NoDoc ELSE Doc("Error", <<>>)
  <2> DEFINE body == IF Azure THEN NoDoc ELSE Doc("Error", <<>>)
             status == StatusOf(error)
  <2>1. reply = Reply(status, "", error, body)
    BY DEF ErrorReplies
  <2> HIDE DEF body, status
  <2>2. reply.body = body
    BY <2>1 DEF Reply
  <2> QED BY <2>2 DEF body
<1>2. Page(reply.body).filled # "page"
  <2>1. CASE Azure
    <3>1. \E room : Page(reply.body) = FillBlocks(NoDoc, room)
      BY <1>1, <2>1 DEF Page
    <3> QED BY <3>1, ErrorUnread
  <2>2. CASE ~ Azure
    <3>1. Page(reply.body) = FillParts(Doc("Error", <<>>), Room)
      BY <1>1, <2>2 DEF Page
    <3> QED BY <3>1, ErrorUnread
  <2> QED BY <2>1, <2>2
<1> QED BY <1>2, UnfilledIs DEF PageRead

\* A list of the service is a page, or a page that arrived damaged.
LEMMA ListReply ==
  ASSUME call.op = "list", NEW reply \in Successes(call)
  PROVE  \E page \in Pages(call) : reply.body = page \/ reply.body \in Damages(page)
<1> DEFINE pages == Pages(call)
           read == pages \cup (IF service.kind \in DamagedOf
                               THEN UNION {Damages(page) : page \in pages} ELSE {})
<1>1. Successes(call) = {Reply(200, "", None, page) : page \in read}
  BY DEF Successes
<1>2. PICK body \in read : reply = Reply(200, "", None, body)
  BY <1>1
<1>3. reply.body = body
  BY <1>2 DEF Reply
<1> QED BY <1>2, <1>3

LEMMA RootOf ==
  ASSUME NEW name, NEW elements
  PROVE  Doc(name, elements).root = name
BY DEF Doc

LEMMA ChildrenOf ==
  ASSUME NEW name, NEW elements
  PROVE  Doc(name, elements).children = elements
BY DEF Doc

LEMMA DamagesAre ==
  ASSUME ~ Azure, NEW page, NEW body \in Damages(page)
  PROVE  \E i \in DOMAIN page.children :
           \E damaged \in ChildDamages(page.children, i) : body = Doc(page.root, damaged)
<1> DEFINE of(i) == {Doc(page.root, children) :
                       children \in IF Azure THEN BlockDamages(page.children, i)
                                    ELSE ChildDamages(page.children, i)}
<1>1. PICK i \in DOMAIN page.children : body \in of(i)
  BY DEF Damages
<1>2. of(i) = {Doc(page.root, children) : children \in ChildDamages(page.children, i)}
  OBVIOUS
<1> QED BY <1>1, <1>2

\* A page of parts is read as it was written, or not at all.
LEMMA PartsRead ==
  ASSUME UploadsAssumption, ~ Azure, call.op = "list", MarkerOK(call.marker),
         NEW reply \in Successes(call), PageRead(reply).filled = "page"
  PROVE  \E size, numbers, tags, next, more :
           /\ size \in Nat \ {0}
           /\ IsPage(store, AfterOf(call.marker), size, numbers, tags, next, more)
           /\ PageRead(reply) = ReadOf(numbers, tags, next, more)
           /\ service.ignores => size = Room
<1>1. PICK page \in Pages(call) : reply.body = page \/ reply.body \in Damages(page)
  BY ListReply
<1>2. PICK size \in Nat \ {0} :
        page = PartsAfter(call.marker, size) /\ (service.ignores => size = Room)
  BY <1>1 DEF Pages, UploadsAssumption
<1>3. PICK children, numbers, tags, next, more :
        /\ page = Doc("ListPartsResult", children)
        /\ PageOf(children, numbers, tags, next, more)
        /\ IsPage(store, AfterOf(call.marker), size, numbers, tags, next, more)
  BY <1>2, PartsAfterIs
<1>4. more \in {"true", "false"}
  BY <1>3 DEF IsPage
<1>5. PageRead(reply) = FillParts(reply.body, Room) /\ Room \in Nat
  <2>1. PageRead(reply) = Page(reply.body)
    BY UnfilledIs DEF PageRead
  <2> QED BY <2>1 DEF Page, UploadsAssumption
<1>6. PageRead(reply) = ReadOf(numbers, tags, next, more)
  <2>1. CASE reply.body = page
    <3>1. PageRead(reply) = FillParts(Doc("ListPartsResult", children), Room)
      BY <1>3, <1>5, <2>1
    <3> QED BY <1>3, <1>4, <1>5, <3>1, WholePageRead
  <2>2. CASE reply.body \in Damages(page)
    <3>1. page.root = "ListPartsResult" /\ page.children = children
      <4>1. page = Doc("ListPartsResult", children)
        BY <1>3
      <4> QED BY <4>1, RootOf, ChildrenOf
    <3>2. PICK i \in DOMAIN children :
            \E damaged \in ChildDamages(children, i) :
              reply.body = Doc("ListPartsResult", damaged)
      BY <2>2, <3>1, DamagesAre
    <3>3. PICK damaged \in ChildDamages(children, i) :
            reply.body = Doc("ListPartsResult", damaged)
      BY <3>2
    <3>4. PageRead(reply) = FillParts(Doc("ListPartsResult", damaged), Room)
      BY <1>5, <3>3
    <3> QED BY <1>3, <1>4, <1>5, <3>4, DamagedPageRead
  <2> QED BY <1>1, <2>1, <2>2
<1> QED BY <1>2, <1>3, <1>6

\* What is read of a page: an entry for each of its numbers.
EntryOf(number, tag) == [number |-> number, tag |-> tag, state |-> "staged"]
LEMMA EntryIs ==
  ASSUME NEW number, NEW tag, NEW entry, entry = EntryOf(number, tag)
  PROVE  /\ entry = [number |-> entry.number, tag |-> entry.tag, state |-> "staged"]
         /\ entry.number = number /\ entry.tag = tag /\ entry.state = "staged"
BY DEF EntryOf

EntriesOf(entries, numbers, tags) ==
  /\ IsSeq(entries) /\ Len(entries) = Len(numbers)
  /\ \A i \in 1 .. Len(numbers) : entries[i] = EntryOf(numbers[i], tags[i])

LEMMA ReadIs ==
  ASSUME NEW numbers \in Seq(Nat), NEW tags, NEW next, NEW more
  PROVE  /\ ReadOf(numbers, tags, next, more).filled = "page"
         /\ ReadOf(numbers, tags, next, more).marker = IF more = "true" THEN next ELSE None
         /\ EntriesOf(ReadOf(numbers, tags, next, more).entries, numbers, tags)
<1> DEFINE entries == [i \in 1 .. Len(numbers) |-> EntryOf(numbers[i], tags[i])]
           marker == IF more = "true" THEN next ELSE None
           read == ReadOf(numbers, tags, next, more)
<1>1. read = [filled |-> "page", marker |-> marker, entries |-> entries]
  BY DEF ReadOf, EntryOf
<1>2. Len(numbers) \in Nat
  OBVIOUS
<1>3. /\ DOMAIN entries = 1 .. Len(numbers) /\ entries = [i \in 1 .. Len(numbers) |-> entries[i]]
      /\ \A i \in 1 .. Len(numbers) : entries[i] = EntryOf(numbers[i], tags[i])
  OBVIOUS
<1> HIDE DEF entries, marker, read
<1>4. EntriesOf(entries, numbers, tags)
  BY <1>2, <1>3, IsSeqBy DEF EntriesOf
<1>5. read.filled = "page" /\ read.marker = marker /\ read.entries = entries
  BY <1>1
<1> QED BY <1>4, <1>5 DEF read, marker

LEMMA EntriesOK ==
  ASSUME NEW kind, kind # "azure", NEW s, StoreOK(kind, s), NEW after, NEW size, NEW numbers,
         NEW tags, NEW next, NEW more, IsPage(s, after, size, numbers, tags, next, more),
         NEW entries, EntriesOf(entries, numbers, tags)
  PROVE  ListedOK(kind, entries)
<1>1. \A i \in 1 .. Len(numbers) :
        numbers[i] \in Valid /\ tags[i] \in Contents(kind, numbers[i])
  BY DEF IsPage, StagedIn, StoreOK
<1>2. IsSeq(entries) /\ Len(entries) = Len(numbers)
  BY DEF EntriesOf
<1>3. \A i \in 1 .. Len(entries) :
        /\ entries[i] = [number |-> entries[i].number, tag |-> entries[i].tag, state |-> "staged"]
        /\ entries[i].number \in Valid
        /\ entries[i].tag \in Contents(kind, entries[i].number)
  <2> TAKE i \in 1 .. Len(entries)
  <2>1. entries[i] = EntryOf(numbers[i], tags[i])
    BY <1>2 DEF EntriesOf
  <2>2. numbers[i] \in Valid /\ tags[i] \in Contents(kind, numbers[i])
    BY <1>1, <1>2
  <2>3. /\ entries[i] = [number |-> entries[i].number, tag |-> entries[i].tag, state |-> "staged"]
        /\ entries[i].number = numbers[i] /\ entries[i].tag = tags[i]
    BY <2>1, EntryIs
  <2> QED BY <2>2, <2>3
<1> QED BY <1>2, <1>3 DEF ListedOK

LEMMA JoinedOK ==
  ASSUME NEW kind, NEW front, NEW back, ListedOK(kind, front), ListedOK(kind, back),
         NEW both, both = Joined(front, back)
  PROVE  ListedOK(kind, both)
<1>1. /\ IsSeq(both) /\ Len(both) = Len(front) + Len(back)
      /\ \A i \in 1 .. Len(front) : both[i] = front[i]
      /\ \A i \in 1 .. Len(back) : both[Len(front) + i] = back[i]
      /\ Len(front) \in Nat /\ Len(back) \in Nat
  BY JoinedIs DEF ListedOK, IsSeq
<1>2. \A i \in 1 .. Len(both) :
        \/ \E j \in 1 .. Len(front) : both[i] = front[j]
        \/ \E j \in 1 .. Len(back) : both[i] = back[j]
  <2> TAKE i \in 1 .. Len(both)
  <2>1. CASE i <= Len(front)
    BY <1>1, <2>1
  <2>2. CASE ~ (i <= Len(front))
    <3>1. i - Len(front) \in 1 .. Len(back) /\ Len(front) + (i - Len(front)) = i
      BY <1>1, <2>2
    <3> QED BY <1>1, <3>1
  <2> QED BY <2>1, <2>2
<1>3. CASE kind = "azure"
  BY <1>1, <1>3 DEF ListedOK
<1>4. CASE kind # "azure"
  <2> DEFINE IsEntry(e) == /\ e = [number |-> e.number, tag |-> e.tag, state |-> "staged"]
                           /\ e.number \in Valid /\ e.tag \in Contents(kind, e.number)
  <2>1. /\ \A i \in 1 .. Len(front) : IsEntry(front[i])
        /\ \A i \in 1 .. Len(back) : IsEntry(back[i])
    BY <1>4 DEF ListedOK
  <2>2. \A i \in 1 .. Len(both) : IsEntry(both[i])
    <3> HIDE DEF IsEntry
    <3> QED BY <1>2, <2>1
  <2> QED BY <1>1, <2>2 DEF ListedOK
<1> QED BY <1>3, <1>4

\* The numbers of a page go on to m.
GoesTo(s, after, numbers, m) ==
  /\ \A i \in 1 .. Len(numbers) : numbers[i] <= m
  /\ after <= m
  /\ \A n \in StagedIn(s) : n > after /\ n <= m => \E i \in 1 .. Len(numbers) : numbers[i] = n

\* What has not changed is as it is staged.
AsStaged(s, unchanged) == \A n \in Valid : unchanged[n] # None => unchanged[n] = s.staged[n]

\* A page takes what is listed as far as it goes.
LEMMA ListedOn ==
  ASSUME NEW kind, kind # "azure", NEW s, StoreOK(kind, s),
         NEW unchanged, AsStaged(s, unchanged),
         NEW listed, ListedOK(kind, listed), NEW after \in Nat,
         ListedUpTo(listed, unchanged, after),
         NEW size, NEW numbers, NEW tags, NEW next, NEW more,
         IsPage(s, after, size, numbers, tags, next, more),
         NEW entries, EntriesOf(entries, numbers, tags),
         NEW both, both = Joined(listed, entries), NEW m \in Nat,
         GoesTo(s, after, numbers, m)
  PROVE  ListedUpTo(both, unchanged, m)
<1>1. /\ IsSeq(both) /\ Len(both) = Len(listed) + Len(entries)
      /\ \A i \in 1 .. Len(listed) : both[i] = listed[i]
      /\ \A i \in 1 .. Len(entries) : both[Len(listed) + i] = entries[i]
      /\ Len(listed) \in Nat /\ Len(entries) \in Nat
  BY JoinedIs DEF ListedOK, IsSeq, EntriesOf
<1>2. \A i \in 1 .. Len(entries) :
        entries[i].number = numbers[i] /\ entries[i].tag = s.staged[numbers[i]]
  <2> TAKE i \in 1 .. Len(entries)
  <2>1. i \in 1 .. Len(numbers) /\ entries[i] = EntryOf(numbers[i], tags[i])
    BY DEF EntriesOf
  <2>2. entries[i].number = numbers[i] /\ entries[i].tag = tags[i]
    BY <2>1, EntryIs
  <2>3. tags[i] = s.staged[numbers[i]]
    BY <2>1 DEF IsPage
  <2> QED BY <2>2, <2>3
<1>0. after <= m
  BY DEF GoesTo
<1>3. \A i \in 1 .. Len(listed) : both[i].number \in Nat /\ both[i].number <= after
  BY <1>1, ValidIs DEF ListedOK, ListedUpTo
<1>4. \A i \in 1 .. Len(entries) :
        LET n == both[Len(listed) + i].number
        IN n = numbers[i] /\ n \in Nat /\ n > after /\ n <= m
  <2> TAKE i \in 1 .. Len(entries)
  <2>1. both[Len(listed) + i].number = numbers[i]
    BY <1>1, <1>2
  <2>2. i \in 1 .. Len(numbers)
    BY DEF EntriesOf
  <2>3. numbers[i] \in Nat /\ numbers[i] > after /\ numbers[i] <= m
    BY <2>2, ValidIs DEF IsPage, StagedIn, GoesTo
  <2> QED BY <2>1, <2>3
<1>5. \A i \in 1 .. Len(both) :
        \/ i \in 1 .. Len(listed)
        \/ \E k \in 1 .. Len(entries) : i = Len(listed) + k
  <2> TAKE i \in 1 .. Len(both)
  <2>1. CASE ~ (i <= Len(listed))
    <3>1. i - Len(listed) \in 1 .. Len(entries) /\ i = Len(listed) + (i - Len(listed))
      BY <1>1, <2>1
    <3> QED BY <3>1
  <2> QED BY <1>1, <2>1
<1>6. Rising(both)
  <2> SUFFICES ASSUME NEW i \in 1 .. Len(both), NEW j \in 1 .. Len(both), i < j
               PROVE  both[i].number < both[j].number
    BY DEF Rising
  <2>1. CASE j \in 1 .. Len(listed)
    <3>1. i \in 1 .. Len(listed)
      BY <1>1, <2>1
    <3> QED BY <1>1, <2>1, <3>1 DEF ListedUpTo, Rising
  <2>2. CASE j \notin 1 .. Len(listed)
    <3>1. PICK k \in 1 .. Len(entries) : j = Len(listed) + k
      BY <1>5, <2>2
    <3>2. CASE i \in 1 .. Len(listed)
      BY <1>3, <1>4, <3>1, <3>2
    <3>3. CASE i \notin 1 .. Len(listed)
      <4>1. PICK l \in 1 .. Len(entries) : i = Len(listed) + l
        BY <1>5, <3>3
      <4>2. l < k /\ l \in 1 .. Len(numbers) /\ k \in 1 .. Len(numbers)
        BY <1>1, <3>1, <4>1 DEF EntriesOf
      <4>3. numbers[l] < numbers[k]
        BY <4>2 DEF IsPage
      <4> QED BY <1>4, <3>1, <4>1, <4>3
    <3> QED BY <3>2, <3>3
  <2> QED BY <2>1, <2>2
<1>7. \A i \in 1 .. Len(both) : both[i].number <= m
  <2> TAKE i \in 1 .. Len(both)
  <2>1. CASE i \in 1 .. Len(listed)
    BY <1>0, <1>3, <2>1
  <2>2. CASE \E k \in 1 .. Len(entries) : i = Len(listed) + k
    BY <1>4, <2>2
  <2> QED BY <1>5, <2>1, <2>2
<1>8. ASSUME NEW n \in Valid, n <= m, unchanged[n] # None
      PROVE  \E i \in 1 .. Len(both) : both[i].number = n /\ both[i].tag = unchanged[n]
  <2>1. unchanged[n] = s.staged[n] /\ n \in StagedIn(s) /\ n \in Nat
    BY <1>8, ValidIs DEF StagedIn, AsStaged
  <2>2. CASE n <= after
    <3>1. PICK i \in 1 .. Len(listed) : listed[i].number = n /\ listed[i].tag = unchanged[n]
      BY <1>8, <2>2 DEF ListedUpTo
    <3> QED BY <1>1, <3>1
  <2>3. CASE ~ (n <= after)
    <3>1. PICK i \in 1 .. Len(numbers) : numbers[i] = n
      BY <1>8, <2>1, <2>3 DEF GoesTo
    <3>2. i \in 1 .. Len(entries)
      BY DEF EntriesOf
    <3>3. Len(listed) + i \in 1 .. Len(both) /\ both[Len(listed) + i] = entries[i]
      BY <1>1, <3>2
    <3> QED BY <1>2, <2>1, <3>1, <3>2, <3>3
  <2> QED BY <2>2, <2>3
<1> QED BY <1>6, <1>7, <1>8 DEF ListedUpTo

\* A listing of no part twice is no longer than the numbers that there are.
LEMMA ListedFits ==
  ASSUME UploadsAssumption, NEW kind, kind # "azure", NEW listed, ListedOK(kind, listed),
         Rising(listed)
  PROVE  ~ (Len(listed) > MaxListed)
<1> DEFINE idx == [i \in 1 .. Len(listed) |-> listed[i].number]
<1>1. Len(listed) \in Nat /\ \A i \in 1 .. Len(listed) : listed[i].number \in Valid
  BY DEF ListedOK, IsSeq
<1>2. idx \in [1 .. Len(listed) -> Nat] /\ \A i \in 1 .. Len(listed) : idx[i] = listed[i].number
  BY <1>1, ValidIs
<1> HIDE DEF idx
<1>3. idx \in Seq(Nat) /\ Len(idx) = Len(listed)
  BY <1>1, <1>2, FunctionIsSeq
<1>4. \A i \in 1 .. Len(idx) : idx[i] \in Valid
  BY <1>1, <1>2, <1>3
<1>5. \A i, j \in 1 .. Len(idx) : i < j => idx[i] < idx[j]
  BY <1>2, <1>3 DEF Rising
<1>6. Len(idx) <= Cardinality(Valid) /\ IsFiniteSet(Valid)
  BY <1>3, <1>4, <1>5, ValidFinite, EnumerationFits
<1>7. /\ Cardinality(Valid) <= Cardinality(Numbers)
      /\ Cardinality(Valid) \in Nat /\ Cardinality(Numbers) \in Nat
  <2>1. Valid \subseteq Numbers /\ IsFiniteSet(Numbers)
    BY ValidIs DEF UploadsAssumption
  <2> QED BY <1>6, <2>1, FS_Subset, FS_CardinalityType
<1> QED BY <1>1, <1>3, <1>6, <1>7 DEF MaxListed

\* What is held of a listing.
PlacesIn(listed, n) == {i \in 1 .. Len(listed) : listed[i].number = n}
LEMMA ListedAsIs ==
  ASSUME NEW listed, IsSeq(listed), NEW n \in Valid
  PROVE  \E S, named :
           /\ listed \in Seq(S) /\ named = Selected(listed, PlacesIn(listed, n))
           /\ named \in Seq(S)
           /\ named = <<>> => ListedAs(listed)[n] = Nothing
           /\ named # <<>> => ListedAs(listed)[n] =
                Held(IF Azure THEN "any" ELSE named[Len(named)].tag, named[Len(named)].state)
<1> DEFINE S == {listed[i] : i \in 1 .. Len(listed)}
           named == Selected(listed, PlacesIn(listed, n))
<1>1. Len(listed) \in Nat /\ listed \in [1 .. Len(listed) -> S] /\ DOMAIN listed = 1 .. Len(listed)
  BY DEF IsSeq
<1> HIDE DEF S
<1>2. listed \in Seq(S)
  BY <1>1, FunctionIsSeq
<1>3. named \in Seq(S)
  BY <1>2, SelectedExists
<1>4. {i \in DOMAIN listed : listed[i].number = n} = PlacesIn(listed, n)
  BY <1>1 DEF PlacesIn
<1>5. ListedAs(listed)[n] =
        IF named = <<>> THEN Nothing
        ELSE Held(IF Azure THEN "any" ELSE Last(named).tag, Last(named).state)
  BY <1>4 DEF ListedAs
<1>6. Last(named) = named[Len(named)]
  BY DEF Last
<1> HIDE DEF named
<1>7. /\ named = <<>> => ListedAs(listed)[n] = Nothing
      /\ named # <<>> => ListedAs(listed)[n] =
           Held(IF Azure THEN "any" ELSE named[Len(named)].tag, named[Len(named)].state)
  BY <1>5, <1>6
<1> QED BY <1>2, <1>3, <1>7 DEF named

LEMMA ListedAsOK ==
  ASSUME NEW listed, ListedOK(service.kind, listed)
  PROVE  HeldOK(service.kind, ListedAs(listed))
<1>1. OfParts(ListedAs(listed))
  BY DEF OfParts, ListedAs
<1>2. ASSUME NEW n \in Valid
      PROVE  /\ ListedAs(listed)[n] = Held(ListedAs(listed)[n].content, ListedAs(listed)[n].state)
             /\ ListedAs(listed)[n].content \in Contents(service.kind, n) \cup {None, "any"}
  <2>1. PICK S, named :
           /\ listed \in Seq(S) /\ named = Selected(listed, PlacesIn(listed, n))
           /\ named \in Seq(S)
           /\ named = <<>> => ListedAs(listed)[n] = Nothing
           /\ named # <<>> => ListedAs(listed)[n] =
                Held(IF Azure THEN "any" ELSE named[Len(named)].tag, named[Len(named)].state)
    BY ListedAsIs DEF ListedOK
  <2>2. CASE named = <<>>
    BY <2>1, <2>2, NothingIs
  <2>3. CASE named # <<>>
    <3>1. Len(named) \in 1 .. Len(named)
      BY <2>1, <2>3
    <3>2. PICK i \in PlacesIn(listed, n) \cap 1 .. Len(listed) : named[Len(named)] = listed[i]
      BY <2>1, <3>1, SelectedFrom
    <3>3. ~ Azure => named[Len(named)].tag \in Contents(service.kind, n)
      BY <3>2 DEF PlacesIn, ListedOK, Azure
    <3> DEFINE content == IF Azure THEN "any" ELSE named[Len(named)].tag
               state == named[Len(named)].state
    <3>4. ListedAs(listed)[n] = Held(content, state)
      BY <2>1, <2>3
    <3>5. content \in Contents(service.kind, n) \cup {"any"}
      BY <3>3
    <3> HIDE DEF content, state
    <3> QED BY <3>4, <3>5, HeldIs
  <2> QED BY <2>2, <2>3
<1> QED BY <1>1, <1>2 DEF HeldOK

\* It is the last that was listed of a number.
LEMMA ListedAsLast ==
  ASSUME NEW listed, IsSeq(listed), NEW n \in Valid, NEW i \in 1 .. Len(listed),
         listed[i].number = n, \A j \in 1 .. Len(listed) : listed[j].number = n => j <= i
  PROVE  ListedAs(listed)[n] = Held(IF Azure THEN "any" ELSE listed[i].tag, listed[i].state)
<1>1. PICK S, named :
         /\ listed \in Seq(S) /\ named = Selected(listed, PlacesIn(listed, n))
         /\ named \in Seq(S)
         /\ named # <<>> => ListedAs(listed)[n] =
              Held(IF Azure THEN "any" ELSE named[Len(named)].tag, named[Len(named)].state)
  BY ListedAsIs
<1>2. i \in PlacesIn(listed, n) /\ \A j \in PlacesIn(listed, n) \cap 1 .. Len(listed) : j <= i
  BY DEF PlacesIn
<1>3. named # <<>>
  BY <1>1, <1>2, SelectedSome
<1>4. named[Len(named)] = listed[i]
  BY <1>1, <1>2, SelectedLast
<1> QED BY <1>1, <1>3, <1>4

-----------------------------------------------------------------------------
(* The answer to a listing.                                                *)

Turning(u, walk, listed, marker) ==
  [u EXCEPT !.walk = walk, !.listed = listed, !.marker = marker]
LEMMA TurningIs ==
  ASSUME NEW u, IsUp(u), NEW walk, NEW marker, NEW listed, NEW v,
         v = Turning(u, walk, listed, marker)
  PROVE  HasUp(v, u.upload, u.held, walk, marker, listed, u.meant, u.last)
BY DEF HasUp, IsUp, Turning

Finishing(u, listed, held) ==
  [u EXCEPT !.walk = "done", !.listed = listed, !.marker = None, !.held = held]
LEMMA FinishingIs ==
  ASSUME NEW u, IsUp(u), NEW held, NEW listed, NEW v, v = Finishing(u, listed, held)
  PROVE  HasUp(v, u.upload, held, "done", None, listed, u.meant, u.last)
BY DEF HasUp, IsUp, Finishing

LEMMA ReadPageIs ==
  ASSUME NEW reply, NEW published, NEW page, page = PageRead(reply), NEW listed,
         listed = Extended(page.entries), NEW v, v = ReadPage(reply, published)
  PROVE  \/ v = Turning(up, "off", <<>>, None)
         \/ /\ page.filled = "page" /\ page.marker # None
            /\ v = Turning(up, "ask", listed, page.marker)
         \/ /\ page.filled = "page" /\ page.marker = None
            /\ v = Finishing(up, listed, ListedAs(listed))
<1> DEFINE off == [up EXCEPT !.walk = "off", !.listed = <<>>, !.marker = None]
           ask == [up EXCEPT !.walk = "ask", !.listed = listed, !.marker = page.marker]
           done == [up EXCEPT !.walk = "done", !.listed = listed, !.marker = None,
                              !.held = ListedAs(listed)]
<1>1. v = IF page.filled # "page" \/ NamedTwice(page.marker) THEN off
          ELSE IF page.marker # None THEN ask ELSE done
  BY DEF ReadPage, PageRead
<1>2. /\ off = Turning(up, "off", <<>>, None) /\ ask = Turning(up, "ask", listed, page.marker)
      /\ done = Finishing(up, listed, ListedAs(listed))
  BY DEF Turning, Finishing
<1> HIDE DEF off, ask, done
<1> QED BY <1>1, <1>2

\* What a walk has listed before its next page.
LEMMA ListedBefore ==
  ASSUME ListedSoFar(service, store, steady, up), ~ service.ignores \/ up.marker = None
  PROVE  ListedUpTo(up.listed, steady, AfterOf(up.marker))
<1>1. CASE up.marker = None
  <2>1. up.listed = <<>> /\ AfterOf(up.marker) = 0
    BY <1>1 DEF ListedSoFar, AfterOf
  <2>2. ListedUpTo(<<>>, steady, 0)
    <3>1. \A n \in Valid : ~ (n <= 0)
      BY NumberIs
    <3>2. \A i \in 1 .. Len(<<>>) : FALSE
      BY EmptyIsSeq
    <3> QED BY <3>1, <3>2 DEF ListedUpTo, Rising
  <2> QED BY <2>1, <2>2
<1>2. CASE up.marker # None
  BY <1>2 DEF ListedSoFar, AfterOf
<1> QED BY <1>1, <1>2

LEMMA ExtendedIs ==
  ASSUME NEW entries, NEW listed, listed = Extended(entries)
  PROVE  /\ listed = up.listed \/ listed = Joined(up.listed, entries)
         /\ ~ (Len(up.listed) > MaxListed) => listed = Joined(up.listed, entries)
BY DEF Extended, Joined

LEMMA PartsListed ==
  ASSUME UploadsAssumption, ~ Azure, StoreOK(service.kind, store), UpOK(service.kind, up),
         SteadyOK, ListedSoFar(service, store, steady, up), NEW size \in Nat \ {0},
         NEW numbers, NEW tags, NEW next, NEW more,
         IsPage(store, AfterOf(up.marker), size, numbers, tags, next, more),
         NEW entries, EntriesOf(entries, numbers, tags), NEW listed, listed = Extended(entries)
  PROVE  /\ ListedOK(service.kind, listed)
         /\ more = "true" => \E m \in Valid :
              /\ next = Digits[m]
              /\ ~ service.ignores => ListedUpTo(listed, steady, m)
         /\ more = "false" /\ (~ service.ignores \/ up.marker = None) =>
              ListedUpTo(listed, steady, MaxParts)
<1>1. /\ service.kind # "azure" /\ MarkerOK(up.marker) /\ ListedOK(service.kind, up.listed)
      /\ AsStaged(store, steady)
  BY DEF Azure, UpOK, SteadyOK, AsStaged
<1>2. ListedOK(service.kind, entries)
  BY <1>1, EntriesOK
<1>3. \A both : both = Joined(up.listed, entries) => ListedOK(service.kind, both)
  BY <1>1, <1>2, JoinedOK
<1>4. ListedOK(service.kind, listed)
  BY <1>1, <1>3, ExtendedIs
<1>5. AfterOf(up.marker) \in Nat
  BY <1>1, AfterIs
<1>6. ASSUME ~ service.ignores \/ up.marker = None, NEW m \in Nat,
             GoesTo(store, AfterOf(up.marker), numbers, m)
      PROVE  ListedUpTo(listed, steady, m)
  <2>1. ListedUpTo(up.listed, steady, AfterOf(up.marker))
    BY <1>6, ListedBefore
  <2>2. ~ (Len(up.listed) > MaxListed)
    <3>1. Rising(up.listed)
      BY <2>1 DEF ListedUpTo
    <3> QED BY <1>1, <3>1, ListedFits
  <2>3. listed = Joined(up.listed, entries)
    BY <2>2, ExtendedIs
  <2> QED BY <1>1, <1>5, <1>6, <2>1, <2>3, ListedOn
<1>7. /\ numbers \in Seq(Nat) /\ \A i \in 1 .. Len(numbers) : numbers[i] \in Valid
      /\ \A i \in 1 .. Len(numbers) : numbers[i] > AfterOf(up.marker)
  BY DEF IsPage, StagedIn
<1>8. ASSUME more = "true"
      PROVE  \E m \in Valid :
           /\ next = Digits[m]
           /\ ~ service.ignores => ListedUpTo(listed, steady, m)
  <2> DEFINE m == numbers[Len(numbers)]
  <2>1. Len(numbers) \in 1 .. Len(numbers) /\ next = Digits[m]
    BY <1>7, <1>8 DEF IsPage
  <2>2. m \in Valid /\ m \in Nat /\ AfterOf(up.marker) <= m
    BY <1>5, <1>7, <2>1, ValidIs
  <2>3. \A i \in 1 .. Len(numbers) : numbers[i] <= m
    <3> TAKE i \in 1 .. Len(numbers)
    <3>1. CASE i = Len(numbers)
      BY <2>2, <3>1
    <3>2. CASE i # Len(numbers)
      <4>1. i < Len(numbers)
        BY <1>7, <3>2
      <4>2. numbers[i] < m
        BY <2>1, <4>1 DEF IsPage
      <4>3. numbers[i] \in Nat
        BY <1>7, ValidIs
      <4> QED BY <2>2, <4>2, <4>3
    <3> QED BY <3>1, <3>2
  <2>4. \A n \in StagedIn(store) : n > AfterOf(up.marker) /\ n <= m =>
          \E i \in 1 .. Len(numbers) : numbers[i] = n
    BY DEF IsPage
  <2> HIDE DEF m
  <2>5. ~ service.ignores => ListedUpTo(listed, steady, m)
    BY <1>6, <2>2, <2>3, <2>4 DEF GoesTo
  <2> QED BY <2>1, <2>2, <2>5
<1>9. ASSUME more = "false", ~ service.ignores \/ up.marker = None
      PROVE  ListedUpTo(listed, steady, MaxParts)
  <2>1. MaxParts \in Nat
    BY DigitsAssumption
  <2>2. \A i \in 1 .. Len(numbers) : numbers[i] <= MaxParts
    BY <1>7, <2>1, ValidIs
  <2>3. AfterOf(up.marker) <= MaxParts
    <3>1. CASE up.marker = None \/ service.ignores
      BY <2>1, <3>1 DEF AfterOf
    <3>2. CASE ~ (up.marker = None \/ service.ignores)
      <4>1. PICK m \in Valid : up.marker = Digits[m]
        BY <1>1, <3>2 DEF MarkerOK
      <4>2. AfterOf(up.marker) = m
        BY <3>2, <4>1, NumberIs DEF AfterOf
      <4> QED BY <2>1, <4>2, ValidIs
    <3> QED BY <3>1, <3>2
  <2>4. \A n \in StagedIn(store) : n > AfterOf(up.marker) /\ n <= MaxParts =>
          \E i \in 1 .. Len(numbers) : numbers[i] = n
    BY <1>9 DEF IsPage
  <2> QED BY <1>6, <1>9, <2>1, <2>2, <2>3, <2>4 DEF GoesTo
<1> QED BY <1>4, <1>8, <1>9

\* A listing under way, and what the service does of it.
Listed(error) ==
  /\ call.op = "list" /\ call' = Blank /\ service' = service /\ late' = late
  /\ Does(call, error) /\ error \in Errors(call) \cup {"Service"}

LEMMA ListingUnderWay ==
  ASSUME IInv, NEW error, Listed(error)
  PROVE  /\ UpOK(service.kind, up) /\ StoreOK(service.kind, store) /\ ServiceOK /\ SteadyOK
         /\ up.walk = "wait" /\ call.marker = up.marker
         /\ ListedSoFar(service, store, steady, up)
         /\ error = None => /\ store' = store /\ None \in Errors(call)
                            /\ ~ Azure => store.upload = "open"
<1>1. /\ Types /\ SteadyOK /\ WalkOK /\ call.op = "list"
  BY DEF IInv, Listed
<1>2. error = None => None \in Errors(call)
  BY DEF Listed, None
<1>3. error = None => store' = store
  <2>1. Effect(call) = store
    BY <1>1 DEF Effect
  <2> QED BY <2>1 DEF Listed, Does
<1>4. error = None /\ ~ Azure => store.upload = "open"
  BY <1>1, <1>2, DoneOnly
<1> QED BY <1>1, <1>2, <1>3, <1>4 DEF Types, WalkOK

LEMMA ListingAnswered ==
  ASSUME UploadsAssumption, IInv, NEW error, Listed(error), UpOK(service.kind, up'),
         up'.last = up.last
  PROVE  /\ Types' /\ LastOK' /\ MeantOK' /\ SteadyOK' /\ LessSteady(steady, steady')
         /\ StoreGoesOn(store, store')
         /\ VerdictIsTrue' /\ PublishedAsMeant'
         /\ up'.walk = "off" => WalkOK' /\ ResumedWhole'
<1>1. /\ call.op \in {"create", "stage", "commit", "abort", "list"} /\ call.op # "create"
      /\ error \in Errors(call) \cup {"Service"} /\ Does(call, error)
      /\ call' = Blank /\ service' = service /\ late' = late
  BY DEF Listed
<1>2. /\ Types' /\ SteadyOK' /\ MeantOK' /\ LastOK' /\ LessSteady(steady, steady')
      /\ StoreGoesOn(store, store')
      /\ up.last.outcome = "none"
      /\ up'.walk = "off" => WalkOK' /\ ResumedWhole'
  BY <1>1, Answered
<1> QED BY <1>2, UnsayingNext

\* A page that was not read ends the walk.
LEMMA WalkEnds ==
  ASSUME UploadsAssumption, IInv, NEW error, Listed(error), up' = Turning(up, "off", <<>>, None)
  PROVE  IInv'
<1>1. UpOK(service.kind, up)
  BY ListingUnderWay
<1>2. HasUp(up', up.upload, up.held, "off", None, <<>>, up.meant, up.last)
  BY <1>1, TurningIs DEF UpOK
<1>3. ListedOK(service.kind, <<>>) /\ MarkerOK(None)
  BY EmptyIsSeq DEF ListedOK, MarkerOK
<1>4. UpOK(service.kind, up') /\ up'.last = up.last /\ up'.walk = "off"
  BY <1>1, <1>2, <1>3 DEF UpOK, HasUp
<1> QED BY <1>4, ListingAnswered DEF IInv

\* A page that another one follows goes on with the walk.
LEMMA WalkGoesOn ==
  ASSUME UploadsAssumption, IInv, NEW error, Listed(error), ~ Azure,
         NEW listed, ListedOK(service.kind, listed), NEW m \in Valid,
         up' = Turning(up, "ask", listed, Digits[m]),
         ~ service.ignores => ListedUpTo(listed, steady, m),
         service.ignores /\ store.upload = "open" => Cardinality(StagedIn(store)) > Room
  PROVE  IInv'
<1>1. UpOK(service.kind, up)
  BY ListingUnderWay
<1>2. HasUp(up', up.upload, up.held, "ask", Digits[m], listed, up.meant, up.last)
  BY <1>1, TurningIs DEF UpOK
<1>3. MarkerOK(Digits[m]) /\ Digits[m] # None /\ NumberOf(Digits[m]) = m
  BY NumberIs DEF MarkerOK
<1>4. /\ UpOK(service.kind, up') /\ up'.last = up.last /\ up'.walk = "ask"
      /\ up'.marker = Digits[m] /\ up'.listed = listed
  BY <1>1, <1>2, <1>3 DEF UpOK, HasUp
<1>5. /\ Types' /\ LastOK' /\ MeantOK' /\ SteadyOK' /\ LessSteady(steady, steady')
      /\ StoreGoesOn(store, store') /\ VerdictIsTrue' /\ PublishedAsMeant'
  BY <1>4, ListingAnswered
<1>6. ListedSoFar(service, store, steady, up')
  BY <1>3, <1>4 DEF ListedSoFar, Azure
<1>7. ListedSoFar(service, store', steady', up')
  BY <1>5, <1>6, StillListed
<1>8. call' = Blank /\ service' = service
  BY DEF Listed
<1>9. WalkOK'
  BY <1>3, <1>4, <1>7, <1>8, BlankIs DEF WalkOK, Idle
<1>10. ResumedWhole'
  BY <1>4 DEF ResumedWhole
<1> QED BY <1>5, <1>9, <1>10 DEF IInv

\* What is listed at the end: every part that has not changed, last as it is.
ListsAll(listed) ==
  /\ ListedOK(service.kind, listed)
  /\ ~ Azure => Rising(listed)
  /\ \A n \in Valid : steady[n] # None =>
       \E i \in 1 .. Len(listed) :
         /\ listed[i].number = n /\ listed[i].state = "staged"
         /\ ~ Azure => listed[i].tag = steady[n]
         /\ \A j \in 1 .. Len(listed) : listed[j].number = n => j <= i

LEMMA WalkIsDone ==
  ASSUME UploadsAssumption, IInv, NEW error, Listed(error), NEW listed, ListsAll(listed),
         up' = Finishing(up, listed, ListedAs(listed))
  PROVE  IInv'
<1>1. UpOK(service.kind, up)
  BY ListingUnderWay
<1>2. ListedOK(service.kind, listed) /\ HeldOK(service.kind, ListedAs(listed)) /\ MarkerOK(None)
  BY ListedAsOK DEF ListsAll, MarkerOK
<1>3. HasUp(up', up.upload, ListedAs(listed), "done", None, listed, up.meant, up.last)
  BY <1>1, FinishingIs DEF UpOK
<1>4. /\ UpOK(service.kind, up') /\ up'.last = up.last /\ up'.walk = "done"
      /\ up'.held = ListedAs(listed) /\ up'.listed = listed
  BY <1>1, <1>2, <1>3 DEF UpOK, HasUp
<1>5. /\ Types' /\ LastOK' /\ MeantOK' /\ SteadyOK' /\ LessSteady(steady, steady')
      /\ VerdictIsTrue' /\ PublishedAsMeant'
  BY <1>4, ListingAnswered
<1>6. call' = Blank /\ service' = service
  BY DEF Listed
<1>7. WalkOK'
  BY <1>4, <1>6, BlankIs DEF WalkOK, Idle
<1>8. \A n \in Valid : steady'[n] # None =>
        ListedAs(listed)[n] = Held(IF Azure THEN "any" ELSE steady'[n], "staged")
  <2> TAKE n \in Valid
  <2> HAVE steady'[n] # None
  <2>1. steady[n] # None /\ steady'[n] = steady[n]
    BY <1>5 DEF LessSteady
  <2>2. PICK i \in 1 .. Len(listed) :
          /\ listed[i].number = n /\ listed[i].state = "staged"
          /\ ~ Azure => listed[i].tag = steady[n]
          /\ \A j \in 1 .. Len(listed) : listed[j].number = n => j <= i
    BY <2>1 DEF ListsAll
  <2>3. ListedAs(listed)[n] = Held(IF Azure THEN "any" ELSE listed[i].tag, listed[i].state)
    BY <1>2, <2>2, ListedAsLast DEF ListedOK
  <2> QED BY <2>1, <2>2, <2>3
<1>9. ~ Azure => \A i, j \in DOMAIN listed : i < j => listed[i].number < listed[j].number
  <2>1. DOMAIN listed = 1 .. Len(listed)
    BY <1>2, IsSeqDomain DEF ListedOK
  <2> QED BY <2>1 DEF ListsAll, Rising
<1>10. ResumedWhole'
  BY <1>4, <1>6, <1>8, <1>9 DEF ResumedWhole, Azure
<1> QED BY <1>5, <1>7, <1>10 DEF IInv

\* A listing in order to the end lists each part once.
LEMMA ListedToEnd ==
  ASSUME NEW listed, ListedOK(service.kind, listed), ~ Azure,
         ListedUpTo(listed, steady, MaxParts)
  PROVE  ListsAll(listed)
<1>1. Rising(listed) /\ Len(listed) \in Nat
  BY DEF ListedUpTo, ListedOK, IsSeq
<1>2. ASSUME NEW n \in Valid, steady[n] # None
      PROVE  \E i \in 1 .. Len(listed) :
               /\ listed[i].number = n /\ listed[i].state = "staged"
               /\ ~ Azure => listed[i].tag = steady[n]
               /\ \A j \in 1 .. Len(listed) : listed[j].number = n => j <= i
  <2>1. n <= MaxParts /\ n \in Nat
    <3>1. MaxParts \in Nat
      BY DigitsAssumption
    <3> QED BY <3>1, ValidIs
  <2>2. PICK i \in 1 .. Len(listed) : listed[i].number = n /\ listed[i].tag = steady[n]
    BY <1>2, <2>1 DEF ListedUpTo
  <2>3. listed[i].state = "staged"
    <3>1. listed[i] = [number |-> listed[i].number, tag |-> listed[i].tag, state |-> "staged"]
      BY DEF ListedOK, Azure
    <3>2. \A a, b : [number |-> a, tag |-> b, state |-> "staged"].state = "staged"
      OBVIOUS
    <3> QED BY <3>1, <3>2
  <2>4. \A j \in 1 .. Len(listed) : listed[j].number = n => j <= i
    <3> TAKE j \in 1 .. Len(listed)
    <3> HAVE listed[j].number = n
    <3>1. ~ (i < j)
      BY <1>1, <2>1, <2>2 DEF Rising
    <3> QED BY <1>1, <3>1
  <2> QED BY <2>2, <2>3, <2>4
<1> QED BY <1>1, <1>2 DEF ListsAll

\* The uploader takes a page that it has read.
Takes(page, listed) ==
  \/ page.marker # None /\ up' = Turning(up, "ask", listed, page.marker)
  \/ page.marker = None /\ up' = Finishing(up, listed, ListedAs(listed))

LEMMA AnswerPartsKeeps ==
  ASSUME UploadsAssumption, IInv, NEW error, Listed(error), ~ Azure, error = None,
         NEW reply \in Successes(call), NEW page, page = PageRead(reply),
         page.filled = "page", NEW listed, listed = Extended(page.entries),
         Takes(page, listed)
  PROVE  IInv'
<1>1. /\ UpOK(service.kind, up) /\ StoreOK(service.kind, store) /\ SteadyOK
      /\ call.marker = up.marker /\ MarkerOK(up.marker)
      /\ ListedSoFar(service, store, steady, up) /\ store.upload = "open"
  BY ListingUnderWay DEF UpOK
<1>2. PICK size, numbers, tags, next, more :
         /\ size \in Nat \ {0}
         /\ IsPage(store, AfterOf(up.marker), size, numbers, tags, next, more)
         /\ page = ReadOf(numbers, tags, next, more)
         /\ service.ignores => size = Room
  <2>1. call.op = "list"
    BY DEF Listed
  <2> QED BY <1>1, <2>1, PartsRead
<1>3. numbers \in Seq(Nat) /\ more \in {"true", "false"}
  BY <1>2 DEF IsPage
<1>4. /\ page.marker = IF more = "true" THEN next ELSE None
      /\ EntriesOf(page.entries, numbers, tags)
  BY <1>2, <1>3, ReadIs
<1>5. /\ ListedOK(service.kind, listed)
      /\ more = "true" => \E m \in Valid :
           /\ next = Digits[m]
           /\ ~ service.ignores => ListedUpTo(listed, steady, m)
      /\ more = "false" /\ (~ service.ignores \/ up.marker = None) =>
           ListedUpTo(listed, steady, MaxParts)
  <2> DEFINE entries == page.entries
  <2>1. listed = Extended(entries) /\ EntriesOf(entries, numbers, tags)
    BY <1>4
  <2> HIDE DEF entries
  <2> QED BY <1>1, <1>2, <2>1, PartsListed
<1>6. service.ignores => (more = "true" <=> Cardinality(StagedIn(store)) > Room)
  BY <1>2 DEF IsPage, AfterOf
<1>7. CASE more = "true"
  <2>1. PICK m \in Valid :
       /\ next = Digits[m]
       /\ ~ service.ignores => ListedUpTo(listed, steady, m)
    BY <1>5, <1>7
  <2>2. page.marker = Digits[m] /\ page.marker # None
    BY <1>4, <1>7, <2>1, NumberIs
  <2>3. up' = Turning(up, "ask", listed, Digits[m])
    BY <2>2 DEF Takes
  <2> QED BY <1>5, <1>6, <1>7, <2>1, <2>3, WalkGoesOn
<1>8. CASE more = "false"
  <2>1. up' = Finishing(up, listed, ListedAs(listed))
    BY <1>4, <1>8 DEF Takes
  <2>2. ~ service.ignores \/ up.marker = None
    BY <1>1, <1>6, <1>8 DEF ListedSoFar
  <2>3. ListsAll(listed)
    BY <1>5, <1>8, <2>2, ListedToEnd
  <2> QED BY <2>1, <2>3, WalkIsDone
<1> QED BY <1>3, <1>7, <1>8

-----------------------------------------------------------------------------
(* A list of blocks.                                                       *)

\* A list of two sequences, one after the other.
LEMMA FlattenTwo ==
  ASSUME NEW seqs, Len(seqs) = 2
  PROVE  FlattenSeq(seqs) = seqs[1] \o seqs[2]
<1> DEFINE Eq(G) == G = [i \in 1 .. Len(seqs) |->
                           IF i = 1 THEN seqs[i] ELSE G[i - 1] \o seqs[i]]
           flatten == CHOOSE G : Eq(G)
           both == [i \in 1 .. Len(seqs) |-> IF i = 1 THEN seqs[i] ELSE seqs[1] \o seqs[i]]
<1>1. Eq(both)
  <2>1. \A i \in 1 .. Len(seqs) : both[i] = IF i = 1 THEN seqs[i] ELSE both[i - 1] \o seqs[i]
    <3> TAKE i \in 1 .. Len(seqs)
    <3>1. CASE i = 1
      BY <3>1
    <3>2. CASE i # 1
      <4>1. i = 2 /\ i - 1 = 1 /\ 1 \in 1 .. Len(seqs)
        BY <3>2
      <4>2. both[i - 1] = seqs[1]
        BY <4>1
      <4>3. both[i] = seqs[1] \o seqs[i]
        BY <3>2
      <4> QED BY <3>2, <4>2, <4>3, Zenon
    <3> QED BY <3>1, <3>2
  <2> HIDE DEF both
  <2>2. both = [i \in 1 .. Len(seqs) |-> both[i]]
    BY DEF both
  <2> QED BY <2>1, <2>2
<1>2. Eq(flatten)
  <2> HIDE DEF Eq
  <2> QED BY <1>1, Zenon
<1> HIDE DEF flatten, both
<1>3. flatten[1] = seqs[1]
  <2>1. 1 \in 1 .. Len(seqs)
    OBVIOUS
  <2> QED BY <1>2, <2>1
<1>4. flatten[2] = flatten[1] \o seqs[2]
  <2>1. 2 \in 1 .. Len(seqs) /\ 2 # 1 /\ 2 - 1 = 1
    OBVIOUS
  <2>2. flatten[2] = flatten[2 - 1] \o seqs[2]
    <3>1. flatten = [i \in 1 .. Len(seqs) |-> IF i = 1 THEN seqs[i] ELSE flatten[i - 1] \o seqs[i]]
      BY <1>2
    <3> HIDE DEF Eq
    <3> QED BY <2>1, <3>1, Zenon
  <2> QED BY <2>1, <2>2
<1>5. FlattenSeq(seqs) = flatten[Len(seqs)]
  BY DEF FlattenSeq, flatten
<1> QED BY <1>3, <1>4, <1>5

\* A list that is read has each of its sections once, of blocks that are whole.
EntriesIn(section) == [j \in DOMAIN section[2] |-> BlockEntry(section[2][j], section[1])]
LEMMA FilledBlocks ==
  ASSUME NEW sections, NEW room,
         FillBlocks(Doc("BlockList", sections), room).filled = "page"
  PROVE  /\ Once(sections, Sections)
         /\ \A i \in DOMAIN sections : \A j \in DOMAIN sections[i][2] : ReadsBlock(sections[i][2][j])
         /\ FillBlocks(Doc("BlockList", sections), room) =
              [filled |-> "page", marker |-> None,
               entries |-> FlattenSeq([i \in DOMAIN sections |-> EntriesIn(sections[i])])]
<1> DEFINE body == Doc("BlockList", sections)
           blocks == FlattenSeq([i \in DOMAIN sections |-> EntriesIn(sections[i])])
           scanned == /\ body.root = "BlockList"
                      /\ Once(sections, Sections)
                      /\ \A i \in DOMAIN sections :
                           /\ sections[i][1] \in Sections
                           /\ \A j \in DOMAIN sections[i][2] : ReadsBlock(sections[i][2][j])
           page == [filled |-> "page", marker |-> None, entries |-> blocks]
<1>1. body.children = sections
  BY ChildrenOf
<1> HIDE DEF body
<1>2. FillBlocks(body, room) =
        CASE ~ scanned           -> Unfilled("body")
          [] Len(blocks) > room  -> Unfilled("capacity")
          [] OTHER -> page
  BY <1>1, Zenon DEF FillBlocks, EntriesIn
<1> HIDE DEF scanned, page
<1>3. scanned /\ FillBlocks(body, room) = page
  <2>1. Unfilled("body").filled # "page" /\ Unfilled("capacity").filled # "page"
    BY UnfilledIs
  <2>2. FillBlocks(body, room).filled = "page"
    BY DEF body
  <2> QED BY <1>2, <2>1, <2>2
<1> QED BY <1>3 DEF body, page, scanned

BlockFields(number) == <<Elem("Name", number), Elem("Size", 1)>>
BlockSays(block, number) == block[2] = BlockFields(number)

LEMMA BlockFieldsAre ==
  ASSUME NEW number
  PROVE  /\ Fields(BlockFields(number)) /\ Len(BlockFields(number)) = 2
         /\ \A i \in 1 .. 2 : BlockFields(number)[i][1] \in {"Name", "Size"}
         /\ ValuesOf(BlockFields(number), "Name") = <<number>>
<1> DEFINE fields == BlockFields(number)
<1>1. Len(fields) = 2 /\ fields[1] = <<"Name", number>> /\ fields[2] = <<"Size", 1>>
  BY DEF BlockFields, Elem
<1>2. fields = [i \in 1 .. 2 |-> fields[i]]
  BY DEF BlockFields
<1> HIDE DEF fields
<1>3. Elements(fields)
  <2>1. \A i \in 1 .. 2 : fields[i] = Elem(fields[i][1], fields[i][2])
    BY <1>1 DEF Elem
  <2> QED BY <1>1, <1>2, <2>1 DEF Elements
<1>4. Fields(fields)
  BY <1>1, <1>3 DEF Fields
<1>5. ValuesOf(fields, "Name") = <<number>>
  <2>1. 1 \in 1 .. Len(fields) /\ fields[1][1] = "Name" /\ fields[1][2] = number
        /\ \A j \in 1 .. Len(fields) : fields[j][1] = "Name" => j = 1
    BY <1>1
  <2> QED BY <1>3, <2>1, ValuesOne
<1> QED BY <1>1, <1>4, <1>5 DEF fields

LEMMA BlockEntryIs ==
  ASSUME NEW number, NEW block, BlockSays(block, number)
  PROVE  /\ BlockEntry(block, "UncommittedBlocks").number = number
         /\ BlockEntry(block, "UncommittedBlocks").state = "staged"
<1>1. ValuesOf(block[2], "Name") = <<number>>
  BY BlockFieldsAre DEF BlockSays
<1>2. ValuesOf(block[2], "Name")[1] = number
  BY <1>1, OneIs
<1> QED BY <1>2 DEF BlockEntry

\* A block whose fields are damaged is not read.
LEMMA DamagedBlockRefused ==
  ASSUME NEW number, NEW fields \in FieldsDamaged(BlockFields(number)), NEW block,
         block[2] = fields, ReadsBlock(block)
  PROVE  FALSE
<1>1. /\ Len(fields) = 2
      /\ \A name \in {"Name", "Size"} : Len(ValuesOf(fields, name)) = 1
      /\ ValuesOf(fields, "Size")[1] # Unreadable
  BY DEF ReadsBlock
<1>2. Fields(BlockFields(number)) /\ Len(BlockFields(number)) = 2
  BY BlockFieldsAre
<1>3. ValuesOf(fields, "Size") = <<Unreadable>>
  BY <1>1, <1>2, DamagedFields
<1> QED BY <1>1, <1>3, OneIs

\* The sections of a list: the blocks that are committed, and those that are
\* staged, in the order of their numbers.
IsSection(section, name, numbers) ==
  /\ section = Elem(name, section[2]) /\ IsSeq(section[2]) /\ Len(section[2]) = Len(numbers)
  /\ \A j \in 1 .. Len(numbers) : section[2][j] = Elem("Block", BlockFields(numbers[j]))
ListOf(sections, committed, staged) ==
  /\ IsSeq(sections) /\ Len(sections) = 2
  /\ IsSection(sections[1], "CommittedBlocks", committed)
  /\ IsSection(sections[2], "UncommittedBlocks", staged)

LEMMA SectionIs ==
  ASSUME NEW name, NEW numbers, IsSeq(numbers), NEW blocks,
         blocks = [i \in DOMAIN numbers |-> BlockElem(numbers[i])],
         NEW section, section = Elem(name, blocks)
  PROVE  IsSection(section, name, numbers)
<1>1. DOMAIN numbers = 1 .. Len(numbers) /\ Len(numbers) \in Nat
  BY IsSeqDomain
<1>2. /\ DOMAIN blocks = 1 .. Len(numbers) /\ blocks = [i \in 1 .. Len(numbers) |-> blocks[i]]
      /\ \A j \in 1 .. Len(numbers) : blocks[j] = Elem("Block", BlockFields(numbers[j]))
  BY <1>1 DEF BlockElem, BlockFields
<1>3. IsSeq(blocks) /\ Len(blocks) = Len(numbers)
  BY <1>1, <1>2, IsSeqBy
<1>4. section[2] = blocks /\ section = Elem(name, section[2])
  BY DEF Elem
<1> QED BY <1>2, <1>3, <1>4 DEF IsSection

NumbersOf(blocks) == [i \in DOMAIN blocks |-> blocks[i].number]
LEMMA BlockListIs ==
  ASSUME StoreOK(service.kind, store)
  PROVE  \E sections, committed, staged :
           /\ BlockList = Doc("BlockList", sections)
           /\ ListOf(sections, committed, staged)
           /\ Enumerates(staged, StagedIn(store))
<1> DEFINE committed == NumbersOf(store.blocks)
           staged == InOrder(Staged)
           first == Elem("CommittedBlocks",
                         [i \in DOMAIN store.blocks |-> BlockElem(store.blocks[i].number)])
           second == Elem("UncommittedBlocks", [i \in DOMAIN staged |-> BlockElem(staged[i])])
           sections == <<first, second>>
<1>1. BlockList = Doc("BlockList", sections)
  BY DEF BlockList
<1>2. Staged = StagedIn(store) /\ Staged \in SUBSET Valid
  BY DEF Staged, StagedIn
<1>3. Enumerates(staged, StagedIn(store)) /\ IsSeq(staged)
  <2>1. Enumerates(staged, StagedIn(store)) /\ staged \in Seq(Nat)
    BY <1>2, InOrderIs
  <2> HIDE DEF staged
  <2> QED BY <2>1 DEF IsSeq
<1>4. IsSeq(committed) /\ DOMAIN committed = DOMAIN store.blocks
      /\ \A i \in DOMAIN committed : committed[i] = store.blocks[i].number
  <2>1. DOMAIN store.blocks = 1 .. Len(store.blocks) /\ Len(store.blocks) \in Nat
    BY IsSeqDomain DEF StoreOK
  <2>2. /\ DOMAIN committed = 1 .. Len(store.blocks)
        /\ committed = [i \in 1 .. Len(store.blocks) |-> committed[i]]
        /\ \A i \in DOMAIN committed : committed[i] = store.blocks[i].number
    BY <2>1 DEF NumbersOf
  <2> HIDE DEF committed
  <2> QED BY <2>1, <2>2, IsSeqBy
<1>5. IsSection(first, "CommittedBlocks", committed)
  <2> DEFINE blocks == [i \in DOMAIN committed |-> BlockElem(committed[i])]
  <2>1. first = Elem("CommittedBlocks", blocks)
    <3> HIDE DEF committed
    <3>1. blocks = [i \in DOMAIN store.blocks |-> BlockElem(store.blocks[i].number)]
      BY <1>4
    <3> QED BY <3>1
  <2> HIDE DEF committed, first
  <2> QED BY <1>4, <2>1, SectionIs
<1>6. IsSection(second, "UncommittedBlocks", staged)
  <2> HIDE DEF staged
  <2> QED BY <1>3, SectionIs
<1>7. IsSeq(sections) /\ Len(sections) = 2 /\ sections[1] = first /\ sections[2] = second
  <2> HIDE DEF first, second
  <2>1. DOMAIN sections = 1 .. 2 /\ sections = [i \in 1 .. 2 |-> sections[i]]
        /\ sections[1] = first /\ sections[2] = second
    OBVIOUS
  <2> HIDE DEF sections
  <2> QED BY <2>1, IsSeqBy
<1> HIDE DEF sections, first, second, committed, staged
<1>8. ListOf(sections, committed, staged)
  BY <1>5, <1>6, <1>7 DEF ListOf
<1> QED BY <1>1, <1>3, <1>8

LEMMA ListElements ==
  ASSUME NEW sections, NEW committed, NEW staged, ListOf(sections, committed, staged)
  PROVE  /\ Elements(sections) /\ DOMAIN sections = 1 .. 2
         /\ sections[1][1] = "CommittedBlocks" /\ sections[2][1] = "UncommittedBlocks"
<1>1. /\ sections = [i \in 1 .. 2 |-> sections[i]] /\ Len(sections) = 2
      /\ DOMAIN sections = 1 .. 2
  BY IsSeqDomain DEF ListOf, IsSeq
<1>2. \A name, value : Elem(name, value)[1] = name /\ Elem(name, value)[2] = value
  BY DEF Elem
<1>3. sections[1][1] = "CommittedBlocks" /\ sections[2][1] = "UncommittedBlocks"
  BY <1>2 DEF ListOf, IsSection
<1>4. sections[1] = Elem(sections[1][1], sections[1][2]) /\ sections[2] = Elem(sections[2][1], sections[2][2])
  BY <1>3 DEF ListOf, IsSection
<1>5. \A i \in 1 .. 2 : sections[i] = Elem(sections[i][1], sections[i][2])
  <2> TAKE i \in 1 .. 2
  <2>1. i = 1 \/ i = 2
    OBVIOUS
  <2> QED BY <1>4, <2>1
<1> QED BY <1>1, <1>3, <1>5 DEF Elements

\* A list that has a section twice is not read.
LEMMA DoubleListRefused ==
  ASSUME NEW sections, NEW committed, NEW staged, ListOf(sections, committed, staged),
         NEW i \in 1 .. 2, NEW double, double = Twice(sections, i), Once(double, Sections)
  PROVE  FALSE
<1>1. /\ Elements(sections) /\ Len(sections) = 2 /\ sections[i][1] \in Sections
  <2>1. i = 1 \/ i = 2
    OBVIOUS
  <2> QED BY <2>1, ListElements DEF ListOf, Sections
<1>2. /\ Elements(double) /\ Len(double) = 3 /\ double[i] = sections[i] /\ double[3] = sections[i]
  <2>1. i \in 1 .. Len(sections)
    BY <1>1
  <2>2. /\ Elements(double) /\ Len(double) = Len(sections) + 1
        /\ \A j \in 1 .. Len(sections) : double[j] = sections[j]
        /\ double[Len(sections) + 1] = sections[i]
    BY <1>1, <2>1, TwiceIs
  <2> QED BY <1>1, <2>1, <2>2
<1>3. i \in 1 .. Len(double) /\ 3 \in 1 .. Len(double) /\ i # 3
  BY <1>2
<1>4. Len(ValuesOf(double, sections[i][1])) \in Nat /\ Len(ValuesOf(double, sections[i][1])) > 1
  <2> DEFINE name == sections[i][1]
  <2>1. double[i][1] = name /\ double[3][1] = name
    BY <1>2
  <2> HIDE DEF name
  <2>2. Len(ValuesOf(double, name)) \in Nat /\ Len(ValuesOf(double, name)) > 1
    BY <1>2, <1>3, <2>1, ValuesTwo
  <2> QED BY <2>2 DEF name
<1>5. Len(ValuesOf(double, sections[i][1])) <= 1
  BY <1>1 DEF Once
<1> QED BY <1>4, <1>5

\* A list whose block has damaged fields is not read.
LEMMA DamagedListRefused ==
  ASSUME NEW sections, NEW committed, NEW staged, ListOf(sections, committed, staged),
         NEW i \in 1 .. 2, NEW j \in DOMAIN sections[i][2],
         NEW fields \in FieldsDamaged(sections[i][2][j][2]),
         NEW changed, changed = Changed(sections, i, Changed(sections[i][2], j, fields)),
         \A k \in DOMAIN changed : \A l \in DOMAIN changed[k][2] : ReadsBlock(changed[k][2][l])
  PROVE  FALSE
<1> DEFINE blocks == sections[i][2]
           damaged == Changed(blocks, j, fields)
<1>1. PICK numbers : /\ IsSeq(blocks) /\ Len(blocks) = Len(numbers)
                     /\ \A k \in 1 .. Len(numbers) : blocks[k] = Elem("Block", BlockFields(numbers[k]))
  <2>1. i = 1 \/ i = 2
    OBVIOUS
  <2> QED BY <2>1 DEF ListOf, IsSection
<1>2. /\ blocks = [k \in 1 .. Len(blocks) |-> blocks[k]] /\ Len(blocks) \in Nat
      /\ DOMAIN blocks = 1 .. Len(blocks)
  BY <1>1, IsSeqDomain DEF IsSeq
<1>3. Elements(blocks)
  <2>1. \A name, value : Elem(name, value) = Elem(Elem(name, value)[1], Elem(name, value)[2])
    BY DEF Elem
  <2>2. \A k \in 1 .. Len(blocks) : blocks[k] = Elem(blocks[k][1], blocks[k][2])
    BY <1>1, <2>1
  <2> HIDE DEF blocks
  <2> QED BY <1>2, <2>2 DEF Elements
<1>4. j \in 1 .. Len(blocks) /\ j \in 1 .. Len(numbers) /\ fields \in FieldsDamaged(blocks[j][2])
  BY <1>1, <1>2
<1> HIDE DEF blocks
<1>5. Elements(damaged) /\ Len(damaged) = Len(blocks) /\ damaged[j][2] = fields
  BY <1>3, <1>4, ChangedIs
<1>6. j \in DOMAIN damaged
  BY <1>4, <1>5, ElementsOfSeq
<1> HIDE DEF damaged
<1>7. i \in DOMAIN changed /\ changed[i][2] = damaged
  <2>1. Elements(sections) /\ i \in 1 .. Len(sections) /\ Len(sections) = 2
    BY ListElements DEF ListOf
  <2>2. changed = Changed(sections, i, damaged)
    BY DEF damaged, blocks
  <2>3. Elements(changed) /\ Len(changed) = Len(sections) /\ changed[i][2] = damaged
    BY <2>1, <2>2, ChangedIs
  <2>4. DOMAIN changed = 1 .. Len(changed)
    BY <2>3, ElementsOfSeq
  <2> QED BY <2>1, <2>3, <2>4
<1>8. ReadsBlock(damaged[j])
  BY <1>6, <1>7
<1>9. blocks[j][2] = BlockFields(numbers[j])
  BY <1>1, <1>4 DEF blocks, Elem
<1> QED BY <1>4, <1>5, <1>8, <1>9, DamagedBlockRefused

LEMMA BlockDamagesAre ==
  ASSUME Azure, NEW page, NEW body \in Damages(page)
  PROVE  \E i \in DOMAIN page.children :
           \E damaged \in BlockDamages(page.children, i) : body = Doc(page.root, damaged)
<1> DEFINE of(i) == {Doc(page.root, children) :
                       children \in IF Azure THEN BlockDamages(page.children, i)
                                    ELSE ChildDamages(page.children, i)}
<1>1. PICK i \in DOMAIN page.children : body \in of(i)
  BY DEF Damages
<1>2. of(i) = {Doc(page.root, children) : children \in BlockDamages(page.children, i)}
  OBVIOUS
<1> QED BY <1>1, <1>2

LEMMA BlockDamageIs ==
  ASSUME NEW sections, NEW i, NEW damaged \in BlockDamages(sections, i)
  PROVE  \/ damaged = Twice(sections, i)
         \/ \E j \in DOMAIN sections[i][2] : \E fields \in FieldsDamaged(sections[i][2][j][2]) :
              damaged = Changed(sections, i, Changed(sections[i][2], j, fields))
<1>1. CASE damaged = Twice(sections, i)
  BY <1>1
<1>2. CASE damaged # Twice(sections, i)
  <2> DEFINE of(j) == {[sections EXCEPT ![i][2][j][2] = fields] :
                         fields \in FieldsDamaged(sections[i][2][j][2])}
  <2>1. PICK j \in DOMAIN sections[i][2] : damaged \in of(j)
    BY <1>2 DEF BlockDamages
  <2>2. PICK fields \in FieldsDamaged(sections[i][2][j][2]) :
          damaged = [sections EXCEPT ![i][2][j][2] = fields]
    BY <2>1
  <2>3. [sections EXCEPT ![i][2][j][2] = fields] =
          Changed(sections, i, Changed(sections[i][2], j, fields))
    BY DEF Changed
  <2> QED BY <2>1, <2>2, <2>3
<1> QED BY <1>1, <1>2

\* A list of blocks is read as it was written, or not at all.
LEMMA BlocksRead ==
  ASSUME Azure, StoreOK(service.kind, store), call.op = "list",
         NEW reply \in Successes(call), PageRead(reply).filled = "page"
  PROVE  \E sections, committed, staged, room :
           /\ ListOf(sections, committed, staged)
           /\ Enumerates(staged, StagedIn(store))
           /\ PageRead(reply) = FillBlocks(Doc("BlockList", sections), room)
<1>1. PICK page \in Pages(call) : reply.body = page \/ reply.body \in Damages(page)
  BY ListReply
<1>2. PICK sections, committed, staged :
        /\ page = Doc("BlockList", sections)
        /\ ListOf(sections, committed, staged) /\ Enumerates(staged, StagedIn(store))
  <2>1. page = BlockList
    BY <1>1 DEF Pages
  <2> QED BY <2>1, BlockListIs
<1>3. PICK room : PageRead(reply) = FillBlocks(reply.body, room)
  <2>1. PageRead(reply) = Page(reply.body)
    BY UnfilledIs DEF PageRead
  <2> QED BY <2>1 DEF Page
<1>4. ASSUME reply.body \in Damages(page)
      PROVE  FALSE
  <2>1. page.root = "BlockList" /\ page.children = sections /\ DOMAIN sections = 1 .. 2
    <3>1. page = Doc("BlockList", sections)
      BY <1>2
    <3> QED BY <1>2, <3>1, RootOf, ChildrenOf, ListElements
  <2>2. PICK i \in 1 .. 2 :
          \E damaged \in BlockDamages(sections, i) : reply.body = Doc("BlockList", damaged)
    BY <1>4, <2>1, BlockDamagesAre
  <2>3. PICK damaged \in BlockDamages(sections, i) : reply.body = Doc("BlockList", damaged)
    BY <2>2
  <2>4. /\ Once(damaged, Sections)
        /\ \A k \in DOMAIN damaged : \A l \in DOMAIN damaged[k][2] : ReadsBlock(damaged[k][2][l])
    <3>1. FillBlocks(Doc("BlockList", damaged), room).filled = "page"
      BY <1>3, <2>3
    <3> QED BY <3>1, FilledBlocks
  <2>5. CASE damaged = Twice(sections, i)
    BY <1>2, <2>4, <2>5, DoubleListRefused
  <2>6. ASSUME NEW j \in DOMAIN sections[i][2], NEW fields \in FieldsDamaged(sections[i][2][j][2]),
               damaged = Changed(sections, i, Changed(sections[i][2], j, fields))
        PROVE  FALSE
    BY <1>2, <2>4, <2>6, DamagedListRefused
  <2> QED BY <2>5, <2>6, BlockDamageIs
<1>5. PageRead(reply) = FillBlocks(Doc("BlockList", sections), room)
  BY <1>1, <1>2, <1>3, <1>4
<1> QED BY <1>2, <1>5

\* What is read of a list: the blocks that are staged come last, each once.
LastStaged(listed, n) ==
  \E i \in 1 .. Len(listed) :
    /\ listed[i].number = n /\ listed[i].state = "staged"
    /\ \A j \in 1 .. Len(listed) : listed[j].number = n => j <= i

LEMMA EntriesInIs ==
  ASSUME NEW section, NEW name, NEW numbers, IsSection(section, name, numbers)
  PROVE  /\ IsSeq(EntriesIn(section)) /\ Len(EntriesIn(section)) = Len(numbers)
         /\ \A j \in 1 .. Len(numbers) :
              \E block : /\ BlockSays(block, numbers[j])
                         /\ EntriesIn(section)[j] = BlockEntry(block, name)
<1> DEFINE entries == EntriesIn(section)
<1>1. DOMAIN section[2] = 1 .. Len(numbers) /\ Len(numbers) \in Nat
  BY IsSeqDomain DEF IsSection
<1>2. section[1] = name
  <2>1. section = Elem(name, section[2])
    BY DEF IsSection
  <2>2. \A value : Elem(name, value)[1] = name
    BY DEF Elem
  <2> QED BY <2>1, <2>2
<1>3. /\ DOMAIN entries = 1 .. Len(numbers) /\ entries = [j \in 1 .. Len(numbers) |-> entries[j]]
      /\ \A j \in 1 .. Len(numbers) : entries[j] = BlockEntry(section[2][j], name)
  BY <1>1, <1>2 DEF EntriesIn
<1> HIDE DEF entries
<1>4. \A j \in 1 .. Len(numbers) : BlockSays(section[2][j], numbers[j])
  <2> TAKE j \in 1 .. Len(numbers)
  <2>1. section[2][j] = Elem("Block", BlockFields(numbers[j]))
    BY DEF IsSection
  <2> QED BY <2>1 DEF BlockSays, Elem
<1>5. IsSeq(entries) /\ Len(entries) = Len(numbers)
  BY <1>1, <1>3, IsSeqBy
<1> QED BY <1>3, <1>4, <1>5 DEF entries

LEMMA BlocksListed ==
  ASSUME NEW sections, NEW committed, NEW staged, ListOf(sections, committed, staged),
         NEW at, Enumerates(staged, at), NEW entries,
         entries = FlattenSeq([i \in DOMAIN sections |-> EntriesIn(sections[i])])
  PROVE  IsSeq(entries) /\ \A n \in at : LastStaged(entries, n)
<1> DEFINE seqs == [i \in DOMAIN sections |-> EntriesIn(sections[i])]
           front == EntriesIn(sections[1])
           back == EntriesIn(sections[2])
<1>1. /\ IsSeq(front) /\ IsSeq(back) /\ Len(back) = Len(staged)
      /\ \A j \in 1 .. Len(staged) :
           back[j].number = staged[j] /\ back[j].state = "staged"
  <2>1. /\ IsSection(sections[1], "CommittedBlocks", committed)
        /\ IsSection(sections[2], "UncommittedBlocks", staged)
    BY DEF ListOf
  <2>2. IsSeq(front) /\ IsSeq(back) /\ Len(back) = Len(staged)
    BY <2>1, EntriesInIs
  <2>3. \A j \in 1 .. Len(staged) :
          \E block : /\ BlockSays(block, staged[j])
                     /\ back[j] = BlockEntry(block, "UncommittedBlocks")
    BY <2>1, EntriesInIs
  <2> HIDE DEF front, back
  <2> QED BY <2>2, <2>3, BlockEntryIs
<1>2. Len(seqs) = 2 /\ seqs[1] = front /\ seqs[2] = back
  <2>1. DOMAIN sections = 1 .. 2
    BY ListElements
  <2>2. DOMAIN seqs = 1 .. 2 /\ seqs = [i \in 1 .. 2 |-> seqs[i]]
        /\ seqs[1] = front /\ seqs[2] = back
    BY <2>1
  <2> HIDE DEF seqs, front, back
  <2> QED BY <2>2, IsSeqBy
<1>3. entries = Joined(front, back)
  <2>1. entries = FlattenSeq(seqs)
    OBVIOUS
  <2> HIDE DEF seqs
  <2>2. FlattenSeq(seqs) = seqs[1] \o seqs[2]
    BY <1>2, FlattenTwo
  <2> HIDE DEF front, back
  <2> QED BY <1>2, <2>1, <2>2 DEF Joined
<1> HIDE DEF front, back
<1>4. /\ IsSeq(entries) /\ Len(entries) = Len(front) + Len(back)
      /\ \A i \in 1 .. Len(back) : entries[Len(front) + i] = back[i]
      /\ Len(front) \in Nat /\ Len(back) \in Nat
  <2>1. /\ IsSeq(Joined(front, back)) /\ Len(Joined(front, back)) = Len(front) + Len(back)
        /\ \A i \in 1 .. Len(back) : Joined(front, back)[Len(front) + i] = back[i]
    BY <1>1, JoinedIs
  <2>2. Len(front) \in Nat /\ Len(back) \in Nat
    BY <1>1 DEF IsSeq
  <2> QED BY <1>3, <2>1, <2>2
<1>5. ASSUME NEW n \in at
      PROVE  LastStaged(entries, n)
  <2>1. PICK k \in 1 .. Len(staged) : staged[k] = n
    BY DEF Enumerates
  <2>2. /\ k \in 1 .. Len(back) /\ Len(front) + k \in 1 .. Len(entries)
        /\ entries[Len(front) + k] = back[k]
    BY <1>1, <1>4
  <2>3. entries[Len(front) + k].number = n /\ entries[Len(front) + k].state = "staged"
    BY <1>1, <2>1, <2>2
  <2>4. ASSUME NEW j \in 1 .. Len(entries), entries[j].number = n, ~ (j <= Len(front) + k)
        PROVE  FALSE
    <3>1. j - Len(front) \in 1 .. Len(back) /\ Len(front) + (j - Len(front)) = j
          /\ k < j - Len(front)
      BY <1>4, <2>2, <2>4
    <3>2. entries[j] = back[j - Len(front)]
      BY <1>4, <3>1
    <3>3. staged[j - Len(front)] = n
      BY <1>1, <2>4, <3>1, <3>2
    <3>4. staged[k] < staged[j - Len(front)] /\ staged[k] \in Nat
      <4>1. j - Len(front) \in 1 .. Len(staged)
        BY <1>1, <3>1
      <4>2. staged[k] < staged[j - Len(front)]
        BY <3>1, <4>1 DEF Enumerates
      <4>3. staged[k] \in Nat
        <5>1. staged \in Seq(Nat)
          BY DEF Enumerates
        <5> QED BY <5>1
      <4> QED BY <4>2, <4>3
    <3> QED BY <2>1, <3>3, <3>4
  <2> QED BY <2>2, <2>3, <2>4 DEF LastStaged
<1> QED BY <1>4, <1>5

LEMMA AnswerBlocksKeeps ==
  ASSUME UploadsAssumption, IInv, NEW error, Listed(error), Azure, error = None,
         NEW reply \in Successes(call), NEW page, page = PageRead(reply),
         page.filled = "page", NEW listed, listed = Extended(page.entries),
         Takes(page, listed)
  PROVE  IInv'
<1>1. /\ UpOK(service.kind, up) /\ StoreOK(service.kind, store) /\ SteadyOK
      /\ ListedSoFar(service, store, steady, up) /\ call.op = "list"
  BY ListingUnderWay DEF Listed
<1>2. up.listed = <<>>
  BY <1>1 DEF ListedSoFar, Azure
<1>3. PICK sections, committed, staged, room :
         /\ ListOf(sections, committed, staged)
         /\ Enumerates(staged, StagedIn(store))
         /\ page = FillBlocks(Doc("BlockList", sections), room)
  BY <1>1, BlocksRead
<1> DEFINE entries == FlattenSeq([i \in DOMAIN sections |-> EntriesIn(sections[i])])
<1>4. page.marker = None /\ page.entries = entries
  <2>1. page = [filled |-> "page", marker |-> None, entries |-> entries]
    BY <1>3, FilledBlocks
  <2> HIDE DEF entries
  <2> QED BY <2>1
<1>5. IsSeq(entries) /\ \A n \in StagedIn(store) : LastStaged(entries, n)
  BY <1>3, BlocksListed
<1> HIDE DEF entries
<1>6. listed = Joined(<<>>, entries)
  <2>1. ~ (Len(up.listed) > MaxListed)
    <3>1. Cardinality(Numbers) \in Nat
      BY FS_CardinalityType DEF UploadsAssumption
    <3> QED BY <1>2, <3>1, EmptyIsSeq DEF MaxListed
  <2> QED BY <1>2, <1>4, <2>1, ExtendedIs
<1>7. /\ IsSeq(listed) /\ Len(listed) = Len(entries)
      /\ \A i \in 1 .. Len(entries) : listed[i] = entries[i]
  <2>1. /\ IsSeq(listed) /\ Len(listed) = Len(<<>>) + Len(entries)
        /\ \A i \in 1 .. Len(entries) : listed[Len(<<>>) + i] = entries[i]
    BY <1>5, <1>6, EmptyIsSeq, JoinedIs
  <2>2. Len(<<>>) = 0 /\ Len(entries) \in Nat
    BY <1>5, EmptyIsSeq DEF IsSeq
  <2>3. Len(<<>>) + Len(entries) = Len(entries) /\ \A i \in 1 .. Len(entries) : Len(<<>>) + i = i
    BY <2>2
  <2> QED BY <2>1, <2>3
<1>8. ListsAll(listed)
  <2>1. ListedOK(service.kind, listed)
    BY <1>7 DEF ListedOK, Azure
  <2>2. ASSUME NEW n \in Valid, steady[n] # None
        PROVE  LastStaged(listed, n)
    <3>1. n \in StagedIn(store)
      BY <1>1, <2>2 DEF SteadyOK, StagedIn
    <3>2. LastStaged(entries, n)
      BY <1>5, <3>1
    <3> QED BY <1>7, <3>2 DEF LastStaged
  <2> QED BY <2>1, <2>2 DEF ListsAll, LastStaged
<1>9. up' = Finishing(up, listed, ListedAs(listed))
  BY <1>4 DEF Takes
<1> QED BY <1>8, <1>9, WalkIsDone

LEMMA AnswerListKeeps ==
  ASSUME UploadsAssumption, IInv, AnswerList
  PROVE  IInv'
<1>1. PICK error \in Errors(call) \cup {"Service"} :
        /\ call.op = "list" /\ call' = Blank /\ service' = service /\ late' = late
        /\ Does(call, error)
        /\ \E reply \in IF error = None THEN Successes(call) ELSE ErrorReplies(call, error) :
             \E published : up' = ReadPage(reply, published)
  BY DEF AnswerList, Answers
<1>2. PICK reply, published :
         /\ reply \in IF error = None THEN Successes(call) ELSE ErrorReplies(call, error)
         /\ up' = ReadPage(reply, published)
  BY <1>1
<1>3. Listed(error)
  BY <1>1 DEF Listed
<1> DEFINE page == PageRead(reply)
           listed == Extended(page.entries)
<1>4. \/ up' = Turning(up, "off", <<>>, None)
      \/ page.filled = "page" /\ Takes(page, listed)
  BY <1>2, ReadPageIs DEF Takes
<1>5. CASE up' = Turning(up, "off", <<>>, None)
  BY <1>3, <1>5, WalkEnds
<1>6. CASE page.filled = "page" /\ Takes(page, listed)
  <2>1. error = None /\ reply \in Successes(call)
    BY <1>1, <1>2, <1>6, PageOfError
  <2>2. CASE Azure
    BY <1>3, <1>6, <2>1, <2>2, AnswerBlocksKeeps
  <2>3. CASE ~ Azure
    BY <1>3, <1>6, <2>1, <2>3, AnswerPartsKeeps
  <2> QED BY <2>2, <2>3
<1> QED BY <1>4, <1>5, <1>6

-----------------------------------------------------------------------------
(* The theorems.                                                           *)

LEMMA StartsSo ==
  ASSUME UploadsAssumption, Init
  PROVE  IInv
<1>1. /\ service.kind \in Services /\ service.ignores \in BOOLEAN
      /\ service.ignores => service.kind = "compatible"
  <2>1. \/ service \in {[kind |-> kind, ignores |-> FALSE] : kind \in Services}
        \/ service = [kind |-> "compatible", ignores |-> TRUE]
    BY DEF Init
  <2>2. CASE service \in {[kind |-> kind, ignores |-> FALSE] : kind \in Services}
    <3>1. PICK kind \in Services : service = [kind |-> kind, ignores |-> FALSE]
      BY <2>2
    <3> QED BY <3>1
  <2>3. CASE service = [kind |-> "compatible", ignores |-> TRUE]
    <3>1. service.kind = "compatible" /\ service.ignores = TRUE
      BY <2>3
    <3> QED BY <3>1 DEF Services
  <2> QED BY <2>1, <2>2, <2>3
<1>2. /\ call = Blank /\ late = {} /\ up = Fresh("")
      /\ steady = [n \in Valid |-> None]
  BY DEF Init
<1>3. StoreOK(service.kind, store)
  <2>1. PICK exists \in BOOLEAN :
          store = [upload |-> "none", staged |-> [n \in Valid |-> None], exists |-> exists,
                   blocks |-> <<>>]
    BY DEF Init
  <2>2. /\ store.upload = "none" /\ store.staged = [n \in Valid |-> None]
        /\ store.exists \in BOOLEAN /\ store.blocks = <<>> /\ IsStore(store)
    BY <2>1 DEF IsStore
  <2>3. OfParts(store.staged) /\ \A n \in Valid : store.staged[n] = None
    BY <2>2 DEF OfParts
  <2> QED BY <2>2, <2>3, EmptyIsSeq DEF StoreOK
<1>4. /\ UpOK(service.kind, up) /\ up.walk = "off" /\ up.last.outcome = "none"
  BY <1>2, FreshIs
<1>5. Types
  BY <1>1, <1>2, <1>3, <1>4 DEF Types, ServiceOK, SentOrBlank, LateOK
<1>6. LastOK /\ MeantOK /\ SteadyOK /\ WalkOK
  BY <1>2, <1>4, BlankIs DEF LastOK, MeantOK, SteadyOK, WalkOK, Idle
<1>7. VerdictIsTrue /\ PublishedAsMeant /\ ResumedWhole
  BY <1>4 DEF VerdictIsTrue, PublishedAsMeant, ResumedWhole
<1> QED BY <1>5, <1>6, <1>7 DEF IInv

LEMMA AnswerKeeps ==
  ASSUME UploadsAssumption, IInv, Answer
  PROVE  IInv'
BY AnswerCreateKeeps, AnswerStageKeeps, AnswerCommitKeeps, AnswerAbortKeeps, AnswerListKeeps
   DEF Answer

LEMMA StaysSo ==
  ASSUME UploadsAssumption, IInv, [Next]_vars
  PROVE  IInv'
<1>1. CASE StartUpload
  BY <1>1, StartUploadKeeps
<1>2. ASSUME NEW number \in Numbers, NEW content \in Contents(service.kind, number),
             Stage(number, content)
      PROVE  IInv'
  BY <1>2, StageKeeps
<1>3. CASE Commit
  BY <1>3, CommitKeeps
<1>4. CASE Abort
  BY <1>4, AbortKeeps
<1>5. CASE List
  BY <1>5, ListKeeps
<1>6. CASE NextPage
  BY <1>6, NextPageKeeps
<1>7. CASE Answer
  BY <1>7, AnswerKeeps
<1>8. CASE ArriveLate
  BY <1>8, ArriveLateKeeps
<1>9. CASE Abandon
  BY <1>9, AbandonKeeps
<1>10. CASE Crash
  BY <1>10, CrashKeeps
<1>11. CASE UNCHANGED vars
  BY <1>11 DEF vars, IInv, Types, ServiceOK, LastOK, MeantOK, SteadyOK, WalkOK, Idle, Azure,
               VerdictIsTrue, PublishedAsMeant, ResumedWhole
<1> QED
  BY <1>1, <1>2, <1>3, <1>4, <1>5, <1>6, <1>7, <1>8, <1>9, <1>10, <1>11 DEF Next

LEMMA InvTyped ==
  ASSUME IInv
  PROVE  TypeOK
<1>1. /\ ServiceOK /\ StoreOK(service.kind, store) /\ SentOrBlank(service.kind, call)
      /\ UpOK(service.kind, up)
  BY DEF IInv, Types
<1>2. /\ store.upload \in {"none", "open", "gone"} /\ store.exists \in BOOLEAN
      /\ \A n \in Valid : /\ store.staged[n] \in Contents(service.kind, n) \cup {None}
                          /\ store.staged[n] # TooLong
      /\ ~ Azure /\ store.upload # "open" => Staged = {}
  BY <1>1 DEF StoreOK, Azure, Staged, None, TooLong
<1>3. /\ call.op \in {"idle", "create", "stage", "commit", "abort", "list"}
      /\ call.op = "stage" => call.content \in Contents(service.kind, call.number) \ {TooLong}
  BY <1>1, BlankIs DEF SentOrBlank, Sent
<1>4. /\ up.upload \in {"", "u1"} /\ up.last.outcome \in Outcomes
      /\ up.walk \in {"off", "ask", "wait", "done"} /\ MarkerOK(up.marker)
      /\ \A n \in Valid : up.held[n].content \in Contents(service.kind, n) \cup {None, "any"}
  BY <1>1 DEF UpOK, HeldOK
<1>5. up.marker # ""
  <2>1. CASE up.marker = None
    BY <2>1 DEF None
  <2>2. CASE \E m \in Valid : up.marker = Digits[m]
    BY <2>2, ValidIs, DigitsAssumption
  <2> QED BY <1>4, <2>1, <2>2 DEF MarkerOK
<1> QED BY <1>1, <1>2, <1>3, <1>4, <1>5 DEF TypeOK, ServiceOK

\* What the uploader, its call and the service hold and what is to be known
\* of them, in every state.
THEOREM Invariance == Spec => []IInv
<1>1. Init => IInv
  BY StartsSo, UploadsAssumption
<1>2. IInv /\ [Next]_vars => IInv'
  BY StaysSo, UploadsAssumption
<1> QED BY <1>1, <1>2, PTL DEF Spec

\* The uploader, its call and the store are of their types, nothing is staged
\* for an upload that is not open, and a listing never goes on from a marker
\* that says nothing: for every number of parts, pages and late requests.
THEOREM UploadsTyped == Spec => []TypeOK
<1>1. IInv => TypeOK
  BY InvTyped
<1> QED BY <1>1, Invariance, PTL

\* What AcceptCommitParts and AcceptCommitBlocks tell an uploader of its
\* commit is so, whatever the service did before of what was given up: nothing
\* reaches the service between its answer and what is made of it.
THEOREM VerdictsTrue == Spec => []VerdictIsTrue
<1>1. IInv => VerdictIsTrue
  BY DEF IInv
<1> QED BY <1>1, Invariance, PTL

\* What commit_parts and commit_blocks are told is committed is the list that
\* they were given, part by part.
THEOREM CommitsPublishAsMeant == Spec => []PublishedAsMeant
<1>1. IInv => PublishedAsMeant
  BY DEF IInv
<1> QED BY <1>1, Invariance, PTL

\* list_parts and list_blocks end with every part that was staged all along,
\* whatever pages the service makes and whatever of them arrives damaged.
THEOREM ListingsWhole == Spec => []ResumedWhole
<1>1. IInv => ResumedWhole
  BY DEF IInv
<1> QED BY <1>1, Invariance, PTL
=============================================================================
