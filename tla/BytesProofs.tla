----------------------------- MODULE BytesProofs ----------------------------
(***************************************************************************)
(* The two ends of the bytes: the buffer that a call is written to, and    *)
(* the document that an answer is read from.                               *)
(*                                                                         *)
(* What Writer promises, for every script of pieces, every buffer and      *)
(* every bound: the text of a call and the length that each of its         *)
(* attempts counts are tied together by Inductive.                         *)
(*                                                                         *)
(* The cursor of the scanner stays in range, for every document, depth and *)
(* set of wanted properties.                                               *)
(***************************************************************************)
EXTENDS Writer, Reader, SequenceTheorems, WellFoundedInduction, TLAPS

-----------------------------------------------------------------------------
(* The writer.                                                             *)

\* A length as the writer counts it.
Counted(n) == IF n <= MaxUsize THEN n ELSE MaxUsize

\* What fits is in the buffer, byte for byte.
PrefixHeld == Fits => \A i \in 0..Len(text) - 1 : buf[i] = text[i + 1]

\* The first attempt recorded the count after each piece, and every attempt
\* counts alike.
CountsAlike ==
  /\ reached[0] = 0
  /\ \A n \in DOMAIN reached :
       n > 0 => reached[n] = EndAfter(reached[n - 1], script[n].len)
  /\ position = reached[wrote]

\* What each verdict was reached with.
VerdictFair ==
  /\ verdict = "written" => Fits
  /\ verdict \in {"capacity", "disallowed", "impossible"} => ~Fits /\ wrote = Len(script)
  /\ verdict \in {"capacity", "disallowed"} => position <= MaxRoom
  /\ verdict = "impossible" => position > MaxRoom
  /\ verdict = "disallowed" => attempt = 1
  /\ attempt = 2 => room = reached[Len(script)] /\ room <= MaxRoom

Inductive ==
  /\ TypeOK
  /\ position = Counted(Len(text))
  /\ PrefixHeld
  /\ CountsAlike
  /\ VerdictFair

-----------------------------------------------------------------------------

(***************************************************************************)
(* The overlapping copies of copy_short write every byte of a value of any *)
(* length, and none outside it.                                            *)
(***************************************************************************)
LEMMA CopiesCover ==
  ASSUME NEW n \in Nat, NEW i \in Int
  PROVE  Copied(n, i) <=> 0 <= i /\ i < n
<1>1. CASE n = 0
  <2>1. Copies(n) = {}
    BY <1>1 DEF Copies
  <2>2. QED
    BY <1>1, <2>1 DEF Copied
<1>2. CASE n \in 1..3
  <2>1. Copies(n) = {<<0, 1>>, <<n \div 2, 1>>, <<n - 1, 1>>}
    BY <1>2 DEF Copies
  <2>2. Copied(n, i) <=> i = 0 \/ i = n \div 2 \/ i = n - 1
    BY <1>2, <2>1 DEF Copied
  <2>3. n = 1 \/ n = 2 \/ n = 3
    BY <1>2
  <2>4. QED
    BY <2>2, <2>3
<1>3. CASE n \in 4..7
  <2>1. Copies(n) = {<<0, 4>>, <<n - 4, 4>>}
    BY <1>3 DEF Copies
  <2>2. QED
    BY <1>3, <2>1 DEF Copied
<1>4. CASE n \in 8..16
  <2>1. Copies(n) = {<<0, 8>>, <<n - 8, 8>>}
    BY <1>4 DEF Copies
  <2>2. QED
    BY <1>4, <2>1 DEF Copied
<1>5. CASE n \in 17..32
  <2>1. Copies(n) = {<<0, 16>>, <<n - 16, 16>>}
    BY <1>5 DEF Copies
  <2>2. QED
    BY <1>5, <2>1 DEF Copied
<1>6. CASE n > 32
  <2>1. Copies(n) = {<<0, n>>}
    BY <1>6 DEF Copies
  <2>2. QED
    BY <1>6, <2>1 DEF Copied
<1>7. QED
  BY <1>1, <1>2, <1>3, <1>4, <1>5, <1>6

(***************************************************************************)
(* A piece of a script is a push of its own bytes or a repeat of a span,   *)
(* and its length is a natural number.                                     *)
(***************************************************************************)
LEMMA PieceTypes ==
  ASSUME TypeOK, wrote < Len(script)
  PROVE  /\ wrote + 1 \in DOMAIN script
         /\ script[wrote + 1] \in Piece
         /\ script[wrote + 1].len \in Nat
         /\ script[wrote + 1].from \in Nat
         /\ script[wrote + 1].kind = "push" =>
              /\ script[wrote + 1].bytes \in Seq(Byte)
              /\ script[wrote + 1].len = Len(script[wrote + 1].bytes)
<1>1. script \in Seq(Piece) /\ wrote \in Nat
  BY WriterAssumption DEF TypeOK
<1>2. wrote + 1 \in DOMAIN script
  BY <1>1
<1>3. script[wrote + 1] \in Piece
  BY <1>1, <1>2
<1>4. script[wrote + 1].kind = "push" => script[wrote + 1].len = Len(script[wrote + 1].bytes)
  BY <1>2, WriterAssumption DEF TypeOK
<1>5. QED
  BY <1>2, <1>3, <1>4 DEF Piece

(***************************************************************************)
(* One piece of a script, whichever it is, keeps the counts of the         *)
(* attempts alike.                                                         *)
(***************************************************************************)
LEMMA StepCounts ==
  ASSUME Inductive, verdict = "writing", wrote < Len(script), Step(script[wrote + 1])
  PROVE  /\ wrote' \in 0..Len(script')
         /\ position' \in 0..MaxUsize
         /\ DOMAIN reached' = (IF attempt' = 1 THEN 0..wrote' ELSE 0..Len(script'))
         /\ \A n \in DOMAIN reached' : reached'[n] \in 0..MaxUsize
         /\ CountsAlike'
         /\ VerdictFair'
<1>. DEFINE len == script[wrote + 1].len
<1>1. /\ len \in Nat /\ wrote \in Nat /\ Len(script) \in Nat /\ wrote < Len(script)
      /\ position \in 0..MaxUsize /\ MaxUsize \in Nat
  BY PieceTypes, WriterAssumption DEF Inductive, TypeOK
<1>2. position' = EndAfter(position, len) /\ position' \in 0..MaxUsize
  BY <1>1 DEF Step, EndAfter
<1>3. wrote' = wrote + 1 /\ script' = script /\ attempt' = attempt /\ verdict' = verdict /\ room' = room
  BY DEF Step
<1>4. wrote' \in 0..Len(script')
  BY <1>1, <1>3
<1>5. /\ DOMAIN reached' = (IF attempt' = 1 THEN 0..wrote' ELSE 0..Len(script'))
      /\ \A n \in DOMAIN reached' : reached'[n] \in 0..MaxUsize
      /\ CountsAlike'
  <2>1. CASE attempt = 1
    <3>1. DOMAIN reached = 0..wrote
      BY <2>1 DEF Inductive, TypeOK
    <3>2. reached' = [n \in 0..wrote + 1 |-> IF n <= wrote THEN reached[n] ELSE position']
      BY <2>1 DEF Step
    <3>3. \A n \in 0..wrote : reached'[n] = reached[n]
      BY <1>1, <3>2
    <3>4. reached'[wrote + 1] = position'
      BY <1>1, <3>2
    <3>5. \A n \in DOMAIN reached' : reached'[n] \in 0..MaxUsize
      BY <1>1, <1>2, <3>1, <3>2, <3>3, <3>4 DEF Inductive, TypeOK
    <3>6. ASSUME NEW n \in 0..wrote + 1, n > 0
          PROVE  reached'[n] = EndAfter(reached'[n - 1], script[n].len)
      <4>1. CASE n <= wrote
        BY <1>1, <3>1, <3>3, <3>6, <4>1 DEF Inductive, CountsAlike
      <4>2. CASE n = wrote + 1
        BY <1>1, <1>2, <3>3, <3>4, <4>2 DEF Inductive, CountsAlike
      <4>3. QED
        BY <1>1, <4>1, <4>2
    <3>7. CountsAlike'
      BY <1>1, <1>3, <3>1, <3>2, <3>3, <3>4, <3>6 DEF Inductive, CountsAlike
    <3>8. QED
      BY <1>3, <2>1, <3>2, <3>5, <3>7
  <2>2. CASE attempt # 1
    <3>1. reached' = reached /\ DOMAIN reached = 0..Len(script)
      BY <2>2 DEF Step, Inductive, TypeOK
    <3>2. reached[wrote + 1] = EndAfter(reached[wrote], len)
      BY <1>1, <3>1 DEF Inductive, CountsAlike
    <3>3. CountsAlike'
      BY <1>1, <1>2, <1>3, <3>1, <3>2 DEF Inductive, CountsAlike, EndAfter
    <3>4. QED
      BY <1>3, <2>2, <3>1, <3>3 DEF Inductive, TypeOK
  <2>3. QED
    BY <2>1, <2>2
<1>6. VerdictFair'
  <2>1. attempt = 2 => reached' = reached
    BY DEF Step
  <2>2. QED
    BY <1>3, <2>1 DEF Inductive, VerdictFair
<1>7. QED
  BY <1>2, <1>4, <1>5, <1>6

-----------------------------------------------------------------------------

(***************************************************************************)
(* A fresh call, at its first piece, satisfies the inductive invariant.    *)
(***************************************************************************)
LEMMA InitInductive == Init => Inductive
<1>. SUFFICES ASSUME Init PROVE Inductive
  OBVIOUS
<1>1. /\ script \in Seq(Piece) /\ room \in 0..MaxRoom /\ Len(text) = 0
      /\ MaxUsize \in Nat /\ MaxRoom \in Nat
  BY WriterAssumption DEF Init
<1>2. PICK stale \in Byte : buf = [i \in 0..room - 1 |-> stale]
  BY DEF Init
<1>3. TypeOK
  BY <1>1, <1>2 DEF Init, TypeOK
<1>4. position = Counted(Len(text)) /\ PrefixHeld
  BY <1>1 DEF Init, Counted, PrefixHeld
<1>5. CountsAlike
  BY DEF Init, CountsAlike
<1>6. VerdictFair
  BY DEF Init, VerdictFair
<1>7. QED
  BY <1>3, <1>4, <1>5, <1>6 DEF Inductive

\* A piece appends to the text, and what fits afterwards is counted exactly.
LEMMA Growth ==
  ASSUME Inductive, NEW len \in Nat, NEW more \in Seq(Byte), Len(more) = len,
         text' = text \o more, position' = EndAfter(position, len), room' = room
  PROVE  /\ text' \in Seq(Byte)
         /\ Len(text') = Len(text) + len
         /\ position' = Counted(Len(text'))
         /\ Fits' => Fits /\ position = Len(text) /\ EndAfter(position, len) = position + len
         /\ Fits' => position + len <= room
         /\ \A i \in 0..Len(text) - 1 : text'[i + 1] = text[i + 1]
         /\ \A i \in 0..len - 1 : text'[Len(text) + i + 1] = more[i + 1]
<1>1. /\ text \in Seq(Byte) /\ Len(text) \in Nat /\ MaxUsize \in Nat
      /\ room \in 0..MaxRoom /\ MaxRoom < MaxUsize /\ MaxRoom \in Nat
      /\ position = Counted(Len(text))
  BY WriterAssumption DEF Inductive, TypeOK
<1>2. text' \in Seq(Byte) /\ Len(text') = Len(text) + len
  BY <1>1, ConcatProperties
<1>3. position' = Counted(Len(text'))
  BY <1>1, <1>2 DEF Counted, EndAfter
<1>4. Fits' => Fits /\ position = Len(text) /\ EndAfter(position, len) = position + len
  BY <1>1, <1>2, <1>3 DEF Counted, EndAfter, Fits
<1>5. Fits' => position + len <= room
  BY <1>1, <1>4 DEF Fits
<1>6. \A i \in 0..Len(text) - 1 : text'[i + 1] = text[i + 1]
  BY <1>1
<1>7. \A i \in 0..len - 1 : text'[Len(text) + i + 1] = more[i + 1]
  BY <1>1
<1>8. QED
  BY <1>2, <1>3, <1>4, <1>5, <1>6, <1>7

(***************************************************************************)
(* Writer::push keeps the invariant: what fits is copied whole, what does  *)
(* not is counted and leaves the buffer alone.                             *)
(***************************************************************************)
LEMMA PushKeeps == Inductive /\ WritePush => Inductive'
<1>. SUFFICES ASSUME Inductive, WritePush PROVE Inductive'
  OBVIOUS
<1>. DEFINE piece == script[wrote + 1]
            len == piece.len
            bytes == piece.bytes
<1>1. /\ verdict = "writing" /\ wrote < Len(script) /\ piece.kind = "push"
      /\ Step(piece) /\ text' = text \o bytes
      /\ position' = EndAfter(position, len) /\ room' = room /\ script' = script
      /\ verdict' = verdict /\ attempt' = attempt
      /\ buf' = IF EndAfter(position, len) <= room THEN CopyShort(buf, position, bytes) ELSE buf
  BY DEF WritePush, Step
<1>2. bytes \in Seq(Byte) /\ len = Len(bytes) /\ len \in Nat
  BY <1>1, PieceTypes DEF Inductive
<1>3. /\ text' \in Seq(Byte)
      /\ Len(text') = Len(text) + len
      /\ position' = Counted(Len(text'))
      /\ Fits' => Fits /\ position = Len(text) /\ EndAfter(position, len) = position + len
      /\ Fits' => position + len <= room
      /\ \A i \in 0..Len(text) - 1 : text'[i + 1] = text[i + 1]
      /\ \A i \in 0..len - 1 : text'[Len(text) + i + 1] = bytes[i + 1]
  BY <1>1, <1>2, Growth
<1>4. /\ buf \in [0..room - 1 -> Byte] /\ room \in Nat /\ position \in Nat /\ Len(text) \in Nat
  BY WriterAssumption DEF Inductive, TypeOK
<1>5. buf' \in [0..room' - 1 -> Byte]
  <2>1. ASSUME NEW i \in 0..room - 1, Copied(Len(bytes), i - position)
        PROVE  bytes[i - position + 1] \in Byte
    BY <1>2, <1>4, <2>1, CopiesCover
  <2>2. CopyShort(buf, position, bytes) \in [0..room - 1 -> Byte]
    BY <1>4, <2>1 DEF CopyShort
  <2>3. QED
    BY <1>1, <1>4, <2>2
<1>6. PrefixHeld'
  <2>. SUFFICES ASSUME Fits', NEW i \in 0..Len(text') - 1
                PROVE  buf'[i] = text'[i + 1]
    BY DEF PrefixHeld
  <2>1. i \in DOMAIN buf /\ position = Len(text)
    BY <1>3, <1>4
  <2>2. buf'[i] = IF Copied(len, i - position) THEN bytes[i - position + 1] ELSE buf[i]
    BY <1>1, <1>2, <1>3, <2>1 DEF CopyShort, Fits
  <2>3. Copied(len, i - position) <=> i >= position
    BY <1>2, <1>3, <1>4, <2>1, CopiesCover
  <2>4. CASE i < position
    BY <1>3, <1>4, <2>1, <2>2, <2>3, <2>4 DEF Inductive, PrefixHeld
  <2>5. CASE i >= position
    <3>1. i - position \in 0..len - 1 /\ Len(text) + (i - position) + 1 = i + 1
      BY <1>2, <1>3, <1>4, <2>1, <2>5
    <3>2. text'[i + 1] = bytes[i - position + 1]
      <4>1. text'[Len(text) + (i - position) + 1] = bytes[i - position + 1]
        BY <1>3, <3>1
      <4>2. QED
        BY <3>1, <4>1
    <3>3. QED
      BY <2>2, <2>3, <2>5, <3>2
  <2>6. QED
    BY <1>4, <2>4, <2>5
<1>7. QED
  BY <1>1, <1>3, <1>5, <1>6, StepCounts DEF Inductive, TypeOK

(***************************************************************************)
(* Writer::repeat keeps the invariant: the span it copies lies within      *)
(* what was written before, so it copies the bytes of the text.            *)
(***************************************************************************)
LEMMA RepeatKeeps == Inductive /\ WriteRepeat => Inductive'
<1>. SUFFICES ASSUME Inductive, WriteRepeat PROVE Inductive'
  OBVIOUS
<1>. DEFINE piece == script[wrote + 1]
            len == piece.len
            from == piece.from
            again == [i \in 1..len |-> text[from + i]]
<1>1. /\ verdict = "writing" /\ wrote < Len(script)
      /\ from + len <= Len(text) /\ Step(piece) /\ text' = text \o again
      /\ position' = EndAfter(position, len) /\ room' = room /\ script' = script
      /\ verdict' = verdict /\ attempt' = attempt
      /\ buf' = IF EndAfter(position, len) <= room THEN CopyWithin(buf, from, len, position) ELSE buf
  BY DEF WriteRepeat, Step
<1>2. len \in Nat /\ from \in Nat
  BY <1>1, PieceTypes DEF Inductive
<1>3. /\ buf \in [0..room - 1 -> Byte] /\ room \in Nat /\ position \in Nat
      /\ Len(text) \in Nat /\ text \in Seq(Byte)
  BY WriterAssumption DEF Inductive, TypeOK
<1>4. again \in Seq(Byte) /\ Len(again) = len
  <2>1. \A i \in 1..len : text[from + i] \in Byte
    BY <1>1, <1>2, <1>3
  <2>2. QED
    BY <1>2, <2>1
<1>5. /\ text' \in Seq(Byte)
      /\ Len(text') = Len(text) + len
      /\ position' = Counted(Len(text'))
      /\ Fits' => Fits /\ position = Len(text) /\ EndAfter(position, len) = position + len
      /\ Fits' => position + len <= room
      /\ \A i \in 0..Len(text) - 1 : text'[i + 1] = text[i + 1]
      /\ \A i \in 0..len - 1 : text'[Len(text) + i + 1] = again[i + 1]
  BY <1>1, <1>2, <1>4, Growth
\* A copy that takes place fits, so the bytes that it copies were written.
<1>6. EndAfter(position, len) <= room => Fits'
  BY <1>1 DEF Fits
<1>7. buf' \in [0..room' - 1 -> Byte]
  <2>1. CASE EndAfter(position, len) <= room
    <3>1. position = Len(text) /\ position + len <= room
      BY <1>5, <1>6, <2>1
    <3>2. \A i \in 0..room - 1 : position <= i /\ i < position + len =>
             from + (i - position) \in 0..room - 1
      BY <1>1, <1>2, <1>3, <3>1
    <3>3. CopyWithin(buf, from, len, position) \in [0..room - 1 -> Byte]
      BY <1>3, <3>2 DEF CopyWithin
    <3>4. QED
      BY <1>1, <2>1, <3>3
  <2>2. CASE ~(EndAfter(position, len) <= room)
    BY <1>1, <1>3, <2>2
  <2>3. QED
    BY <2>1, <2>2
<1>8. PrefixHeld'
  <2>. SUFFICES ASSUME Fits', NEW i \in 0..Len(text') - 1
                PROVE  buf'[i] = text'[i + 1]
    BY DEF PrefixHeld
  <2>1. i \in DOMAIN buf /\ position = Len(text)
    BY <1>3, <1>5
  <2>2. buf'[i] = IF position <= i /\ i < position + len THEN buf[from + (i - position)] ELSE buf[i]
    BY <1>1, <1>5, <2>1 DEF CopyWithin, Fits
  <2>3. CASE i < position
    BY <1>3, <1>5, <2>1, <2>2, <2>3 DEF Inductive, PrefixHeld
  <2>4. CASE i >= position
    <3>1. i - position \in 0..len - 1 /\ Len(text) + (i - position) + 1 = i + 1
      BY <1>2, <1>3, <1>5, <2>1, <2>4
    <3>2. text'[i + 1] = text[from + (i - position) + 1]
      <4>1. text'[Len(text) + (i - position) + 1] = again[i - position + 1]
        BY <1>5, <3>1
      <4>2. i - position + 1 \in 1..len
        BY <1>2, <3>1
      <4>3. again[i - position + 1] = text[from + (i - position + 1)]
        BY <4>2
      <4>4. from + (i - position + 1) = from + (i - position) + 1
        BY <1>2, <1>3, <2>1
      <4>5. QED
        BY <3>1, <4>1, <4>3, <4>4
    <3>3. from + (i - position) \in 0..Len(text) - 1
      <4>. HIDE DEF from, len, again
      <4>1. from + len <= Len(text) /\ i - position >= 0 /\ i - position < len
        BY <1>1, <1>2, <1>3, <3>1
      <4>2. QED
        BY <1>2, <1>3, <2>1, <4>1
    <3>4. buf[from + (i - position)] = text[from + (i - position) + 1]
      BY <1>5, <3>3 DEF Inductive, PrefixHeld
    <3>5. buf'[i] = buf[from + (i - position)]
      BY <1>2, <1>3, <1>5, <2>1, <2>2, <2>4
    <3>6. QED
      BY <3>2, <3>4, <3>5
  <2>5. QED
    BY <1>3, <2>3, <2>4
<1>9. QED
  BY <1>1, <1>5, <1>7, <1>8, StepCounts DEF Inductive, TypeOK

(***************************************************************************)
(* check_fit changes the verdict alone, to the one the count calls for.    *)
(***************************************************************************)
LEMMA FinishKeeps == Inductive /\ Finish => Inductive'
<1>. SUFFICES ASSUME Inductive, Finish PROVE Inductive'
  OBVIOUS
<1>1. TypeOK' /\ position' = Counted(Len(text')) /\ PrefixHeld' /\ CountsAlike'
  BY DEF Inductive, Finish, TypeOK, PrefixHeld, CountsAlike, Fits, Counted
<1>2. position \in Nat /\ room \in Nat /\ MaxRoom \in Nat /\ attempt \in {1, 2}
  BY WriterAssumption DEF Inductive, TypeOK
<1>3. room <= MaxRoom
  BY WriterAssumption DEF Inductive, TypeOK
<1>4. VerdictFair'
  BY <1>2, <1>3 DEF Inductive, Finish, VerdictFair, Fits
<1>5. QED
  BY <1>1, <1>4 DEF Inductive

(***************************************************************************)
(* The second attempt starts over, with the room the first one counted.    *)
(***************************************************************************)
LEMMA RetryKeeps == Inductive /\ Retry => Inductive'
<1>. SUFFICES ASSUME Inductive, Retry PROVE Inductive'
  OBVIOUS
<1>1. /\ MaxUsize \in Nat /\ MaxRoom \in Nat /\ position \in Nat /\ position <= MaxRoom
      /\ script \in Seq(Piece) /\ wrote = Len(script) /\ Len(script) \in Nat /\ room \in Nat
  BY WriterAssumption DEF Inductive, TypeOK, Retry, VerdictFair
<1>2. attempt = 1
  BY DEF Retry
<1>3. attempt' = 2
  BY DEF Retry
<1>4. DOMAIN reached = 0..Len(script)
  BY <1>1, <1>2 DEF Inductive, TypeOK
<1>5. PICK stale \in Byte : buf' = [i \in 0..position - 1 |-> stale]
  BY DEF Retry
<1>6. TypeOK'
  BY <1>1, <1>3, <1>4, <1>5 DEF Inductive, TypeOK, Retry
<1>7. position' = Counted(Len(text'))
  BY <1>1 DEF Retry, Counted
<1>8. PrefixHeld'
  BY DEF Retry, PrefixHeld
<1>9. CountsAlike'
  BY <1>1, <1>4, <1>3 DEF Inductive, CountsAlike, Retry
<1>10. VerdictFair'
  BY <1>1, <1>3 DEF Inductive, VerdictFair, CountsAlike, Retry
<1>11. QED
  BY <1>6, <1>7, <1>8, <1>9, <1>10 DEF Inductive

(***************************************************************************)
(* Giving up changes the verdict alone.                                    *)
(***************************************************************************)
LEMMA GiveUpKeeps == Inductive /\ GiveUp => Inductive'
BY DEF Inductive, GiveUp, TypeOK, PrefixHeld, CountsAlike, VerdictFair, Fits, Counted

(***************************************************************************)
(* Every step of the specification keeps the invariant.                    *)
(***************************************************************************)
LEMMA NextKeeps == Inductive /\ [Next]_vars => Inductive'
<1>1. Inductive /\ UNCHANGED vars => Inductive'
  BY DEF vars, Inductive, TypeOK, PrefixHeld, CountsAlike, VerdictFair, Fits, Counted
<1>2. QED
  BY <1>1, PushKeeps, RepeatKeeps, FinishKeeps, RetryKeeps, GiveUpKeeps DEF Next

(***************************************************************************)
(* The invariant holds in every reachable state: the theorems below are    *)
(* its consequences.                                                       *)
(***************************************************************************)
LEMMA AlwaysInductive == Spec => []Inductive
BY InitInductive, NextKeeps, PTL DEF Spec

-----------------------------------------------------------------------------

(***************************************************************************)
(* The writer's state is always of its type, and no count leaves usize.    *)
(***************************************************************************)
THEOREM WriterTypeCorrect == Spec => []TypeOK
<1>1. Inductive => TypeOK
  BY DEF Inductive
<1>2. QED
  BY <1>1, AlwaysInductive, PTL

(***************************************************************************)
(* Whatever a call writes and whatever the buffer held before, a call that *)
(* returns its text returns all of it.                                     *)
(***************************************************************************)
THEOREM WriterWrittenWhole == Spec => []WrittenWhole
<1>1. ASSUME Inductive PROVE WrittenWhole
  <2>1. /\ Len(text) \in Nat /\ room \in Nat /\ MaxUsize \in Nat /\ MaxRoom \in Nat
        /\ room <= MaxRoom /\ MaxRoom < MaxUsize /\ position = Counted(Len(text))
    BY <1>1, WriterAssumption DEF Inductive, TypeOK
  <2>2. Fits => position = Len(text)
    BY <2>1 DEF Fits, Counted
  <2>3. QED
    BY <1>1, <2>2 DEF Inductive, WrittenWhole, VerdictFair, PrefixHeld
<1>2. QED
  BY <1>1, AlwaysInductive, PTL

(***************************************************************************)
(* The room that a refused call asks for is exact, or beyond any buffer.   *)
(***************************************************************************)
THEOREM WriterRequiredExact == Spec => []RequiredExact
<1>1. ASSUME Inductive PROVE RequiredExact
  <2>1. /\ Len(text) \in Nat /\ MaxUsize \in Nat /\ MaxRoom \in Nat
        /\ MaxRoom < MaxUsize /\ position = Counted(Len(text))
    BY <1>1, WriterAssumption DEF Inductive, TypeOK
  <2>2. /\ verdict \in {"capacity", "disallowed"} => position <= MaxRoom
        /\ verdict = "impossible" => position > MaxRoom
    BY <1>1 DEF Inductive, VerdictFair
  <2>3. QED
    BY <2>1, <2>2 DEF RequiredExact, Counted
<1>2. QED
  BY <1>1, AlwaysInductive, PTL

(***************************************************************************)
(* No call is refused twice for want of room.                              *)
(***************************************************************************)
THEOREM WriterTwoAttempts == Spec => []TwoAttempts
<1>1. Inductive => TwoAttempts
  BY DEF Inductive, TwoAttempts, VerdictFair, CountsAlike, Fits, TypeOK
<1>2. QED
  BY <1>1, AlwaysInductive, PTL

-----------------------------------------------------------------------------
(* The readers of pages.                                                   *)

Spans == {"key", "size", "etag", "type", "resource"}

\* A reader has the fields of its record, and so have the fields of its entry.
Shaped(r) ==
  /\ DOMAIN r = {"bytes", "at", "in", "name", "fields", "page", "out", "room", "required", "status"}
  /\ DOMAIN r.fields = Spans \cup {"percent", "captured"}
  /\ DOMAIN r.fields.captured = Wanted

Within(fields, at) ==
  /\ \A field \in Spans : SpanWithin(fields[field], at)
  /\ \A name \in Wanted : SpanWithin(fields.captured[name], at)

\* What holds between two turns: between two entries there are no spans, since
\* the bytes that they would name are taken off there.
Good(r) ==
  /\ Shaped(r)
  /\ r.bytes \in Seq(Tokens)
  /\ r.at \in 0 .. Len(r.bytes)
  /\ Within(r.fields, r.at)
Settled(r) == r.in \in {"root", "blobs"} => r.fields = NoFields

\* A read from `at` that is no fault ends in the document, and so does its span.
InDocument(b, at, read) ==
  read.ok => read.at \in at .. Len(b) /\ SpanWithin(read.span, read.at)

-----------------------------------------------------------------------------
(* The scanner.                                                            *)

\* Only what stands in the document is a token of another kind than the end.
LEMMA PastTheEnd ==
  ASSUME NEW b \in Seq(Tokens), NEW at \in 0 .. Len(b), Peek(b, at)[1] # "end"
  PROVE  at < Len(b)
BY DEF Peek, End

\* Whitespace is skipped to a place in the document.
LEMMA SkipSpaceInDocument ==
  ASSUME NEW b \in Seq(Tokens), NEW at \in 0 .. Len(b)
  PROVE  SkipSpace(b, at) \in at .. Len(b)
<1>1. Space[1] = "text"
  BY DEF Space, Text
<1> QED BY <1>1, PastTheEnd DEF SkipSpace

\* A close tag that was read stands in the document.
LEMMA CloseTagInDocument ==
  ASSUME NEW b \in Seq(Tokens), NEW at \in 0 .. Len(b), NEW name
  PROVE  InDocument(b, at, CloseTag(b, at, name))
<1>1. CASE Peek(b, at) = Close(name)
  <2>0. Close(name)[1] = "close"
    BY DEF Close
  <2>1. at < Len(b)
    BY <1>1, <2>0, PastTheEnd
  <2> QED BY <1>1, <2>1 DEF CloseTag, Read, InDocument, SpanWithin
<1>2. CASE Peek(b, at) # Close(name)
  BY <1>2 DEF CloseTag, Fault, InDocument
<1> QED BY <1>1, <1>2

\* There is a first token that is nothing beside an element: the end is one.
LEMMA FirstExists ==
  ASSUME NEW S \in SUBSET Nat, S # {}
  PROVE  \E i \in S : \A j \in S : i <= j
<1>1. \E i \in S : \A j \in S : ~ (<<j, i>> \in OpToRel(<, Nat))
  BY NatLessThanWellFounded, WFMin
<1>2. \A i, j \in Nat : <<j, i>> \in OpToRel(<, Nat) <=> j < i
  BY DEF OpToRel
<1>3. PICK i \in S : \A j \in S : ~ (<<j, i>> \in OpToRel(<, Nat))
  BY <1>1
<1>4. \A j \in S : ~ (j < i)
  BY <1>2, <1>3
<1> QED BY <1>4

\* A child that was read stands in the document.
LEMMA ChildInDocument ==
  ASSUME NEW b \in Seq(Tokens), NEW at \in 0 .. Len(b), NEW parent
  PROVE  InDocument(b, at, Child(b, at, parent))
<1> DEFINE Beside(i) == Peek(b, i) = Space \/ Misc(Peek(b, i))
           Found == {i \in at .. Len(b) : ~ Beside(i)}
           here == CHOOSE i \in at .. Len(b) : ~ Beside(i) /\ \A j \in at .. i - 1 : Beside(j)
<1>1. Len(b) \in Found
  <2>1. Peek(b, Len(b)) = End
    BY DEF Peek
  <2>2. End[1] = "end" /\ Space[1] = "text"
    BY DEF End, Space, Text
  <2>3. ~ Beside(Len(b))
    BY <2>1, <2>2 DEF Misc
  <2> QED BY <2>3
<1>2. PICK i \in Found : \A j \in Found : i <= j
  <2> HIDE DEF Found
  <2>1. Found \in SUBSET Nat
    BY DEF Found
  <2> QED BY <1>1, <2>1, FirstExists
<1>3. here \in at .. Len(b) /\ ~ Beside(here)
  <2>1. \A j \in at .. i - 1 : Beside(j)
    BY <1>2
  <2>2. i \in at .. Len(b) /\ ~ Beside(i)
    BY <1>2
  <2> HIDE DEF Beside
  <2> QED BY <2>1, <2>2
<1>4. CASE StartsElement(Peek(b, here))
  <2>1. here < Len(b)
    BY <1>3, <1>4 DEF Peek, End, StartsElement
  <2> HIDE DEF here
  <2>2. InDocument(b, at, Read(here + 1, Peek(b, here), <<0, 0>>))
    BY <1>3, <2>1 DEF InDocument, Read, SpanWithin
  <2> QED BY <1>4, <2>2 DEF Child, here
<1>5. CASE ~ StartsElement(Peek(b, here))
  <2> HIDE DEF here
  <2>1. InDocument(b, here, CloseTag(b, here, parent))
    BY <1>3, CloseTagInDocument
  <2>2. InDocument(b, at, CloseTag(b, here, parent))
    BY <1>3, <2>1 DEF InDocument
  <2> QED BY <1>5, <2>2 DEF Child, here
<1> QED BY <1>4, <1>5

\* A value ends in the document.
LEMMA ValueInDocument ==
  ASSUME NEW b \in Seq(Tokens), NEW at \in 0 .. Len(b), NEW tag
  PROVE  InDocument(b, at, Value(b, at, tag))
<1> DEFINE to == IF Peek(b, at)[1] = "text" THEN at + 1 ELSE at
           close == CloseTag(b, to, tag[2])
<1>1. to \in at .. Len(b)
  BY DEF Peek, End
<1>2. InDocument(b, to, close)
  <2> HIDE DEF to
  <2> QED BY <1>1, CloseTagInDocument
<1>3. CASE tag[1] = "empty"
  BY <1>3 DEF Value, Read, InDocument, SpanWithin
<1>4. CASE tag[1] # "empty" /\ close.ok
  <2>1. Value(b, at, tag) = Read(close.at, tag, <<at, to>>)
    BY <1>4 DEF Value
  <2> HIDE DEF to, close
  <2>2. close.at \in to .. Len(b)
    BY <1>2, <1>4 DEF InDocument
  <2> QED BY <1>1, <2>1, <2>2 DEF InDocument, Read, SpanWithin
<1>5. CASE tag[1] # "empty" /\ ~ close.ok
  <2>1. Value(b, at, tag) = Fault
    BY <1>5 DEF Value
  <2> QED BY <2>1 DEF Fault, InDocument
<1> QED BY <1>3, <1>4, <1>5

\* An element that was passed ends in the document.
LEMMA ThroughInDocument ==
  ASSUME NEW b \in Seq(Tokens), NEW at \in 0 .. Len(b), NEW name, NEW depth
  PROVE  InDocument(b, at, Through(b, at, name, depth))
<1> DEFINE Ends1(to) == IF to \in at + 1 .. Len(b) THEN Read(to, End, <<at, to - 1>>) ELSE Fault
<1>1. \A to : InDocument(b, at, Ends1(to))
  BY DEF InDocument, Read, Fault, SpanWithin
<1>2. Through(b, at, name, depth) = Ends1(EndOf(b, at, name, depth))
  BY DEF Through
<1> QED BY <1>1, <1>2

\* So do those that are skipped, and those whose content is kept.
LEMMA SkipInDocument ==
  ASSUME NEW b \in Seq(Tokens), NEW at \in 0 .. Len(b), NEW tag, NEW name
  PROVE  /\ InDocument(b, at, Skip(b, at, tag))
         /\ InDocument(b, at, Nested(b, at, name))
<1>1. InDocument(b, at, Read(at, tag, <<at, at>>))
  BY DEF InDocument, Read, SpanWithin
<1> QED BY <1>1, ThroughInDocument DEF Skip, Nested

-----------------------------------------------------------------------------
(* The reader.                                                             *)

\* A span within what was read is within what is read later.
LEMMA WithinLater ==
  ASSUME NEW fields, NEW at \in Nat, NEW later \in Nat, at <= later, Within(fields, at)
  PROVE  Within(fields, later)
BY DEF Within, SpanWithin

\* An entry that begins has no spans.
LEMMA NoFieldsWithin ==
  ASSUME NEW at \in Nat
  PROVE  /\ Within(NoFields, at)
         /\ DOMAIN NoFields = Spans \cup {"percent", "captured"}
         /\ DOMAIN NoFields.captured = Wanted
BY DEF NoFields, Within, SpanWithin, Spans

\* A reader that fails, or that goes on, is as good as it was.
LEMMA FailedGood ==
  ASSUME NEW r, Good(r)
  PROVE  Good(Failed(r)) /\ Failed(r).in = r.in /\ Failed(r).fields = r.fields
BY DEF Good, Shaped, Failed

LEMMA MovedGood ==
  ASSUME NEW r, Good(r), NEW at \in r.at .. Len(r.bytes)
  PROVE  /\ Good(MoveTo(r, at))
         /\ MoveTo(r, at).in = r.in /\ MoveTo(r, at).fields = r.fields
         /\ MoveTo(r, at).bytes = r.bytes /\ MoveTo(r, at).at = at
<1>1. Within(r.fields, at)
  BY WithinLater DEF Good
<1> QED BY <1>1 DEF Good, Shaped, MoveTo

\* What was read is taken off where no span names it.
LEMMA TakenGood ==
  ASSUME NEW r, Good(r), r.fields = NoFields
  PROVE  /\ Good(Take(r)) /\ Take(r).in = r.in /\ Take(r).fields = NoFields /\ Take(r).at = 0
<1> DEFINE rest == SubSeq(r.bytes, r.at + 1, Len(r.bytes))
<1>1. rest \in Seq(Tokens) /\ Len(rest) \in Nat
  BY DEF Good
<1>2. /\ Take(r).bytes = rest /\ Take(r).at = 0 /\ Take(r).fields = NoFields
      /\ Take(r).in = r.in /\ DOMAIN Take(r) = DOMAIN r
  BY DEF Take, Good, Shaped
<1>3. Within(NoFields, 0)
  BY NoFieldsWithin
<1> HIDE DEF rest
<1> QED BY <1>1, <1>2, <1>3 DEF Good, Shaped

\* So a child begins with a good reader.
LEMMA AtChildGood ==
  ASSUME NEW r, Good(r), r.fields = NoFields
  PROVE  /\ Good(AtChild(r)) /\ AtChild(r).in = r.in /\ AtChild(r).fields = NoFields
         /\ AtChild(r).at = 0
<1> DEFINE at == SkipSpace(r.bytes, r.at)
<1>1. at \in r.at .. Len(r.bytes)
  BY SkipSpaceInDocument DEF Good
<1> HIDE DEF at
<1>2. Good(MoveTo(r, at)) /\ MoveTo(r, at).fields = NoFields /\ MoveTo(r, at).in = r.in
  BY <1>1, MovedGood
<1>3. AtChild(r) = Take(MoveTo(r, at))
  BY DEF AtChild, at
<1> QED BY <1>2, <1>3, TakenGood

\* A field that is set, and a property that is kept, is of what was read.
LEMMA SetGood ==
  ASSUME NEW r, Good(r), NEW field \in Spans, NEW read, InDocument(r.bytes, r.at, read)
  PROVE  Good(SetField(r, field, read)) /\ SetField(r, field, read).in = r.in
<1>1. CASE ~ read.ok \/ r.fields[field] # NoSpan
  BY <1>1, FailedGood DEF SetField
<1>2. CASE read.ok /\ r.fields[field] = NoSpan
  <2> DEFINE fields == [r.fields EXCEPT ![field] = read.span]
             set == [r EXCEPT !.at = read.at, !.fields = fields]
  <2>1. SetField(r, field, read) = set
    BY <1>2 DEF SetField, Good, Shaped
  <2>2. read.at \in r.at .. Len(r.bytes) /\ SpanWithin(read.span, read.at)
    BY <1>2 DEF InDocument
  <2>3. Within(r.fields, read.at)
    BY <2>2, WithinLater DEF Good
  <2>4. /\ DOMAIN fields = DOMAIN r.fields /\ fields.captured = r.fields.captured
        /\ \A other \in Spans : fields[other] = IF other = field THEN read.span ELSE r.fields[other]
    BY DEF Good, Shaped, Spans
  <2> HIDE DEF fields
  <2>5. Within(fields, read.at)
    BY <2>2, <2>3, <2>4 DEF Within
  <2>6. /\ DOMAIN set = DOMAIN r /\ set.at = read.at /\ set.fields = fields
        /\ set.bytes = r.bytes /\ set.in = r.in
    BY DEF Good, Shaped
  <2> HIDE DEF set
  <2> QED BY <2>1, <2>2, <2>4, <2>5, <2>6 DEF Good, Shaped
<1> QED BY <1>1, <1>2

LEMMA KeptGood ==
  ASSUME NEW r, Good(r), NEW name, NEW read, InDocument(r.bytes, r.at, read)
  PROVE  Good(Kept(r, name, read)) /\ Kept(r, name, read).in = r.in
<1>0. read.ok => read.at \in r.at .. Len(r.bytes) /\ SpanWithin(read.span, read.at)
  BY DEF InDocument
<1>1. CASE ~ read.ok
  BY <1>1, FailedGood DEF Kept
<1>2. CASE read.ok /\ ~ (name \in Wanted /\ r.fields.captured[name] = NoSpan)
  <2>1. Kept(r, name, read) = MoveTo(r, read.at)
    BY <1>2 DEF Kept
  <2> QED BY <1>0, <1>2, <2>1, MovedGood
<1>3. CASE read.ok /\ name \in Wanted /\ r.fields.captured[name] = NoSpan
  <2> DEFINE captured == [r.fields.captured EXCEPT ![name] = read.span]
             fields == [r.fields EXCEPT !.captured = captured]
             kept == [r EXCEPT !.at = read.at, !.fields = fields]
  <2>1. Kept(r, name, read) = kept
    BY <1>3 DEF Kept, Good, Shaped
  <2>2. Within(r.fields, read.at)
    BY <1>0, <1>3, WithinLater DEF Good
  <2>3. /\ DOMAIN captured = Wanted
        /\ \A other \in Wanted : captured[other] = IF other = name THEN read.span
                                                    ELSE r.fields.captured[other]
    BY <1>3 DEF Good, Shaped
  <2> HIDE DEF captured
  <2>4. /\ DOMAIN fields = DOMAIN r.fields /\ fields.captured = captured
        /\ \A field \in Spans : fields[field] = r.fields[field]
    BY DEF Good, Shaped, Spans
  <2> HIDE DEF fields
  <2>5. Within(fields, read.at)
    BY <1>0, <1>3, <2>2, <2>3, <2>4 DEF Within
  <2>6. /\ DOMAIN kept = DOMAIN r /\ kept.at = read.at /\ kept.fields = fields
        /\ kept.bytes = r.bytes /\ kept.in = r.in
    BY DEF Good, Shaped
  <2> HIDE DEF kept
  <2> QED BY <1>0, <1>3, <2>1, <2>3, <2>4, <2>5, <2>6 DEF Good, Shaped
<1> QED BY <1>1, <1>2, <1>3

\* A read that began later was read from here too.
LEMMA ReadLater ==
  ASSUME NEW b \in Seq(Tokens), NEW at \in Nat, NEW later \in Nat, at <= later,
         NEW read, InDocument(b, later, read)
  PROVE  InDocument(b, at, read)
BY DEF InDocument

\* The properties of an entry are kept, or passed.
LEMMA MatchedGood ==
  ASSUME NEW r, Good(r), NEW at \in r.at .. Len(r.bytes), NEW tag
  PROVE  Good(ReadMatched(r, at, tag)) /\ ReadMatched(r, at, tag).in = r.in
<1> DEFINE read == IF tag[2] \in HoldsElements THEN Nested(r.bytes, at, tag[2])
                   ELSE Value(r.bytes, at, tag)
<1>1. at \in 0 .. Len(r.bytes) /\ r.at \in Nat /\ r.bytes \in Seq(Tokens)
  BY DEF Good
<1>2. InDocument(r.bytes, at, read)
  BY <1>1, SkipInDocument, ValueInDocument
<1> HIDE DEF read
<1>3. InDocument(r.bytes, r.at, read)
  BY <1>1, <1>2, ReadLater
<1>4. ReadMatched(r, at, tag) = Kept(r, tag[2], read)
  BY DEF ReadMatched, read
<1> QED BY <1>3, <1>4, KeptGood

LEMMA UnmatchedGood ==
  ASSUME NEW r, Good(r), NEW at \in r.at .. Len(r.bytes), NEW tag, NEW wanted
  PROVE  Good(ReadUnmatched(r, at, tag, wanted)) /\ ReadUnmatched(r, at, tag, wanted).in = r.in
<1> DEFINE read == IF tag[2] \in HoldsElements /\ tag[1] # "empty"
                   THEN Nested(r.bytes, at, tag[2]) ELSE Value(r.bytes, at, tag)
           past == Skip(r.bytes, at, tag)
<1>1. at \in 0 .. Len(r.bytes) /\ r.at \in Nat /\ r.bytes \in Seq(Tokens)
  BY DEF Good
<1>2. InDocument(r.bytes, at, read) /\ InDocument(r.bytes, at, past)
  BY <1>1, SkipInDocument, ValueInDocument
<1>3. ReadUnmatched(r, at, tag, wanted) =
        IF tag[2] \in wanted THEN Kept(r, tag[2], read)
        ELSE IF past.ok THEN MoveTo(r, past.at) ELSE Failed(r)
  BY DEF ReadUnmatched
<1> HIDE DEF read, past
<1>4. InDocument(r.bytes, r.at, read) /\ InDocument(r.bytes, r.at, past)
  BY <1>1, <1>2, ReadLater
<1>5. past.ok => past.at \in r.at .. Len(r.bytes)
  BY <1>4 DEF InDocument
<1> QED BY <1>3, <1>4, <1>5, KeptGood, MovedGood, FailedGood

\* An entry that was read leaves no spans.
LEMMA BuiltGood ==
  ASSUME NEW r, Good(r), NEW bad, NEW entry
  PROVE  Good(BuiltEntry(r, bad, entry)) /\ BuiltEntry(r, bad, entry).fields = NoFields
<1> DEFINE rest == SubSeq(r.bytes, r.at + 1, Len(r.bytes))
           taken == [Take(r) EXCEPT !.page.held = @ + 1, !.fields = NoFields]
           built == [taken EXCEPT !.out = Append(@, entry)]
<1>1. rest \in Seq(Tokens) /\ Len(rest) \in Nat
  BY DEF Good
<1>2. Take(r).bytes = rest /\ Take(r).at = 0 /\ DOMAIN Take(r) = DOMAIN r
  BY DEF Take, Good, Shaped
<1> HIDE DEF rest
<1>3. /\ taken.bytes = rest /\ taken.at = 0 /\ taken.fields = NoFields
      /\ DOMAIN taken = DOMAIN r
  BY <1>2 DEF Good, Shaped
<1>4. /\ Within(NoFields, 0) /\ DOMAIN NoFields = Spans \cup {"percent", "captured"}
      /\ DOMAIN NoFields.captured = Wanted
  BY NoFieldsWithin
<1>5. Good(taken)
  <2> HIDE DEF taken
  <2> QED BY <1>1, <1>3, <1>4 DEF Good, Shaped
<1>6. Good(built) /\ built.fields = NoFields
  <2>1. /\ built.bytes = taken.bytes /\ built.at = taken.at /\ built.fields = taken.fields
        /\ DOMAIN built = DOMAIN taken
    <3> HIDE DEF taken
    <3> QED BY <1>5 DEF Good, Shaped
  <2> HIDE DEF taken, built
  <2> QED BY <1>3, <1>5, <2>1 DEF Good, Shaped
<1>7. BuiltEntry(r, bad, entry) =
        IF Len(r.out) >= r.room THEN taken ELSE IF bad THEN Failed(taken) ELSE built
  BY DEF BuiltEntry
<1> HIDE DEF taken, built
<1> QED BY <1>3, <1>5, <1>6, <1>7, FailedGood

-----------------------------------------------------------------------------
(* The turns at the root.                                                  *)

Sound(r) == Good(r) /\ Settled(r)

\* Where a turn at the root begins.
AtRoot(r) == Good(r) /\ r.fields = NoFields /\ r.at = 0

LEMMA FailedSound ==
  ASSUME NEW r, Sound(r)
  PROVE  Sound(Failed(r))
BY FailedGood DEF Sound, Settled

LEMMA AtRootSound ==
  ASSUME NEW r, AtRoot(r)
  PROVE  Sound(r)
BY DEF AtRoot, Sound, Settled

\* What changes a reader elsewhere, and moves it to where it has read, keeps it.
LEMMA SameGood ==
  ASSUME NEW r, Good(r), NEW then, DOMAIN then = DOMAIN r, then.bytes = r.bytes,
         then.fields = r.fields, then.at \in r.at .. Len(r.bytes)
  PROVE  Good(then)
<1>1. Within(r.fields, then.at)
  BY WithinLater DEF Good
<1> QED BY <1>1 DEF Good, Shaped

\* So what is said of a page is read once.
LEMMA OnceSound ==
  ASSUME NEW r, AtRoot(r), NEW name, NEW then, NEW read, InDocument(r.bytes, 0, read),
         DOMAIN then = DOMAIN r, then.bytes = r.bytes, then.fields = r.fields
  PROVE  Sound(Once(r, name, read, then))
<1> DEFINE once == [then EXCEPT !.at = read.at, !.page.seen = @ \cup {name}]
<1>1. CASE name \in r.page.seen \/ ~ read.ok
  BY <1>1, AtRootSound, FailedSound DEF Once
<1>2. CASE ~ (name \in r.page.seen \/ ~ read.ok)
  <2>1. /\ DOMAIN once = DOMAIN r /\ once.bytes = r.bytes /\ once.fields = r.fields
        /\ once.at = read.at
    BY DEF AtRoot, Good, Shaped
  <2>2. read.at \in r.at .. Len(r.bytes)
    BY <1>2 DEF InDocument, AtRoot
  <2>3. Once(r, name, read, then) = once
    BY <1>2 DEF Once
  <2> HIDE DEF once
  <2>4. Good(once)
    BY <2>1, <2>2, SameGood DEF AtRoot
  <2> QED BY <2>1, <2>3, <2>4 DEF Sound, Settled, AtRoot
<1> QED BY <1>1, <1>2

\* An element that is passed, or a reader that moves to what was read.
LEMMA PastSound ==
  ASSUME NEW r, AtRoot(r), NEW past, InDocument(r.bytes, 0, past), past.ok
  PROVE  Sound(MoveTo(r, past.at))
<1>1. past.at \in r.at .. Len(r.bytes)
  BY DEF InDocument, AtRoot
<1> QED BY <1>1, MovedGood DEF AtRoot, Sound, Settled

\* A page that is judged is as sound as it was.
LEMMA RoomSound ==
  ASSUME NEW r, Sound(r), NEW marker
  PROVE  Sound(RoomChecked(r, marker))
<1> DEFINE refused == [r EXCEPT !.status = "capacity", !.required = r.page.held]
           judged == [r EXCEPT !.status = "page", !.page.marker = marker]
<1>1. /\ DOMAIN refused = DOMAIN r /\ refused.bytes = r.bytes /\ refused.fields = r.fields
      /\ refused.at = r.at /\ refused.in = r.in
  BY DEF Sound, Good, Shaped
<1>2. /\ DOMAIN judged = DOMAIN r /\ judged.bytes = r.bytes /\ judged.fields = r.fields
      /\ judged.at = r.at /\ judged.in = r.in
  BY DEF Sound, Good, Shaped
<1>3. RoomChecked(r, marker) = IF r.page.held > r.room THEN refused ELSE judged
  BY DEF RoomChecked
<1> HIDE DEF refused, judged
<1> QED BY <1>1, <1>2, <1>3, SameGood DEF Sound, Settled, Good, Shaped

\* An entry is entered with no spans.
LEMMA EnteredSound ==
  ASSUME NEW r, AtRoot(r), NEW at \in 0 .. Len(r.bytes), NEW name, NEW in
  PROVE  Sound([r EXCEPT !.at = at, !.name = name, !.fields = NoFields, !.in = in])
<1> DEFINE entered == [r EXCEPT !.at = at, !.name = name, !.fields = NoFields, !.in = in]
<1>1. /\ DOMAIN entered = DOMAIN r /\ entered.bytes = r.bytes /\ entered.fields = r.fields
      /\ entered.at = at
  BY DEF AtRoot, Good, Shaped
<1> HIDE DEF entered
<1>2. Good(entered)
  BY <1>1, SameGood DEF AtRoot
<1>3. entered.fields = NoFields
  BY <1>1 DEF AtRoot
<1> QED BY <1>2, <1>3 DEF Sound, Settled, entered

\* Each turn at the root of a page of S3.
LEMMA S3RootSound ==
  ASSUME NEW r, AtRoot(r), NEW child, InDocument(r.bytes, 0, child), S3OfRoot(r, child)
  PROVE  Sound(reader')
<1> DEFINE read == Value(r.bytes, child.at, child.tag)
           past == Skip(r.bytes, child.at, child.tag)
<1>0. r.bytes \in Seq(Tokens) /\ Sound(r)
  BY AtRootSound DEF AtRoot, Good
<1>1. child.ok => child.at \in 0 .. Len(r.bytes)
  BY DEF InDocument
<1>2. child.ok => InDocument(r.bytes, child.at, read) /\ InDocument(r.bytes, child.at, past)
  BY <1>0, <1>1, ValueInDocument, SkipInDocument
<1>3. child.ok => InDocument(r.bytes, 0, read) /\ InDocument(r.bytes, 0, past)
  <2> HIDE DEF read, past
  <2> QED BY <1>0, <1>1, <1>2, ReadLater
<1>4. CASE S3Entry(r, child)
  <2>1. child.ok
    BY <1>4 DEF S3Entry, Starts
  <2> QED BY <1>0, <1>1, <1>4, <2>1, FailedSound, EnteredSound DEF S3Entry
<1>5. CASE Encoding(r, child)
  <2> DEFINE then == [r EXCEPT !.page.encoded = TRUE]
  <2>1. child.ok
    BY <1>5 DEF Encoding, Starts
  <2>2. DOMAIN then = DOMAIN r /\ then.bytes = r.bytes /\ then.fields = r.fields
    BY DEF AtRoot, Good, Shaped
  <2>3. reader' = Failed(r) \/ reader' = Once(r, "EncodingType", read, then)
    BY <1>5 DEF Encoding
  <2> HIDE DEF read, then
  <2> QED BY <1>0, <1>3, <2>1, <2>2, <2>3, FailedSound, OnceSound
<1>6. CASE Truncated(r, child)
  <2> DEFINE then(said) == [r EXCEPT !.page.truncated = <<said>>]
  <2>1. child.ok
    BY <1>6 DEF Truncated, Starts
  <2>2. \A said : DOMAIN then(said) = DOMAIN r /\ then(said).bytes = r.bytes
                  /\ then(said).fields = r.fields
    BY DEF AtRoot, Good, Shaped
  <2>3. reader' = Failed(r) \/ \E said : reader' = Once(r, "IsTruncated", read, then(said))
    BY <1>6 DEF Truncated
  <2> HIDE DEF read, then
  <2> QED BY <1>0, <1>3, <2>1, <2>2, <2>3, FailedSound, OnceSound
<1>7. CASE Token(r, child)
  <2> DEFINE keyed(marker, decoded) == [r EXCEPT !.page.marker = marker, !.page.decoded = decoded]
             told(marker) == [r EXCEPT !.page.marker = marker]
             words == SpanText(r.bytes, read.span)
  <2>1. child.ok
    BY <1>7 DEF Token, Starts
  <2>2. \A marker, decoded :
           /\ DOMAIN keyed(marker, decoded) = DOMAIN r
           /\ keyed(marker, decoded).bytes = r.bytes /\ keyed(marker, decoded).fields = r.fields
    BY DEF AtRoot, Good, Shaped
  <2>3. \A marker : /\ DOMAIN told(marker) = DOMAIN r /\ told(marker).bytes = r.bytes
                    /\ told(marker).fields = r.fields
    BY DEF AtRoot, Good, Shaped
  <2>4. \/ reader' = Failed(r)
        \/ reader' = Once(r, TokenName, read,
                          keyed(KeyMarkerOf(words), r.page.decoded \/ Form(words) \in {"pct", "nul"}))
        \/ reader' = Once(r, TokenName, read, told(MarkerOf(words)))
    BY <1>7 DEF Token
  <2> HIDE DEF read, keyed, told, words
  <2> QED BY <1>0, <1>3, <2>1, <2>2, <2>3, <2>4, FailedSound, OnceSound
<1>8. CASE VersionToken(r, child)
  <2> DEFINE then(marker) == [r EXCEPT !.page.version = marker]
  <2>1. child.ok
    BY <1>8 DEF VersionToken, Starts
  <2>2. \A marker : DOMAIN then(marker) = DOMAIN r /\ then(marker).bytes = r.bytes
                    /\ then(marker).fields = r.fields
    BY DEF AtRoot, Good, Shaped
  <2>3. reader' = Failed(r)
        \/ \E marker : reader' = Once(r, "NextVersionIdMarker", read, then(marker))
    BY <1>8 DEF VersionToken
  <2> HIDE DEF read, then
  <2> QED BY <1>0, <1>3, <2>1, <2>2, <2>3, FailedSound, OnceSound
<1>9. CASE S3Other(r, child)
  <2>1. reader' = Failed(r) \/ (child.ok /\ past.ok /\ reader' = MoveTo(r, past.at))
    BY <1>9 DEF S3Other
  <2> HIDE DEF past
  <2> QED BY <1>0, <1>3, <2>1, FailedSound, PastSound
<1>10. CASE S3End(r, child)
  <2> DEFINE moved == MoveTo(r, child.at)
  <2>1. child.ok
    BY <1>10 DEF S3End, Ends
  <2>2. Sound(moved)
    BY <2>1, PastSound
  <2>3. reader' = Failed(moved) \/ \E marker : reader' = RoomChecked(moved, marker)
    BY <1>10 DEF S3End, FinishListing
  <2> HIDE DEF moved
  <2> QED BY <2>2, <2>3, FailedSound, RoomSound
<1> QED
  <2> HIDE DEF read, past
  <2> QED BY <1>4, <1>5, <1>6, <1>7, <1>8, <1>9, <1>10 DEF S3OfRoot

-----------------------------------------------------------------------------
(* The turns within an entry.                                              *)

\* An entry that is built leaves the reader between two entries.
LEMMA LeftSound ==
  ASSUME NEW built, Good(built), built.fields = NoFields, NEW then, DOMAIN then = DOMAIN built,
         then.bytes = built.bytes, then.fields = built.fields, then.at = built.at
  PROVE  Sound(then)
BY DEF Good, Shaped, Sound, Settled

LEMMA S3BuiltSound ==
  ASSUME NEW r, Good(r)
  PROVE  Sound(S3Built(r))
<1> DEFINE built == BuiltEntry(r, S3Bad(r), S3EntryOf(r))
           then == [built EXCEPT !.in = "root", !.name = S3Root,
                                 !.page.decoded = @ \/ KeyChanged(r)]
<1>2. Good(built) /\ built.fields = NoFields
  BY BuiltGood
<1> HIDE DEF built
<1>3. /\ DOMAIN then = DOMAIN built /\ then.bytes = built.bytes /\ then.fields = built.fields
      /\ then.at = built.at
  BY <1>2 DEF Good, Shaped
<1>4. S3Built(r) = then
  BY DEF S3Built, built
<1> HIDE DEF then
<1> QED BY <1>2, <1>3, <1>4, LeftSound

\* A reader within an entry is sound when it is good.
LEMMA WithinEntry ==
  ASSUME NEW r, Good(r), r.in \notin {"root", "blobs"}
  PROVE  Sound(r)
BY DEF Sound, Settled

\* A field of an entry, wherever its start tag was read.
LEMMA FieldGood ==
  ASSUME NEW r, Good(r), NEW child, InDocument(r.bytes, r.at, child), child.ok,
         NEW field \in Spans
  PROVE  /\ Good(SetField(r, field, Value(r.bytes, child.at, child.tag)))
         /\ SetField(r, field, Value(r.bytes, child.at, child.tag)).in = r.in
<1> DEFINE read == Value(r.bytes, child.at, child.tag)
<1>1. r.bytes \in Seq(Tokens) /\ r.at \in Nat /\ child.at \in r.at .. Len(r.bytes)
  BY DEF Good, InDocument
<1>2. InDocument(r.bytes, child.at, read)
  BY <1>1, ValueInDocument
<1> HIDE DEF read
<1>3. InDocument(r.bytes, r.at, read)
  BY <1>1, <1>2, ReadLater
<1>4. Good(SetField(r, field, read)) /\ SetField(r, field, read).in = r.in
  BY <1>3, SetGood
<1> QED BY <1>4 DEF read

\* An element within an entry that is passed.
LEMMA PassedGood ==
  ASSUME NEW r, Good(r), NEW child, InDocument(r.bytes, r.at, child), child.ok,
         NEW past, past = Skip(r.bytes, child.at, child.tag), past.ok
  PROVE  Good(MoveTo(r, past.at)) /\ MoveTo(r, past.at).in = r.in
<1>1. /\ r.bytes \in Seq(Tokens) /\ r.at \in Nat /\ child.at \in r.at .. Len(r.bytes)
      /\ child.at \in 0 .. Len(r.bytes)
  BY DEF Good, InDocument
<1>2. InDocument(r.bytes, child.at, past)
  BY <1>1, SkipInDocument
<1>3. past.at \in r.at .. Len(r.bytes)
  BY <1>1, <1>2 DEF InDocument
<1> QED BY <1>3, MovedGood

LEMMA S3ObjectSound ==
  ASSUME Good(reader), reader.in = "object", NEW child,
         InDocument(reader.bytes, reader.at, child),
         S3ObjectField(child) \/ S3ObjectProperty(child) \/ S3ObjectEnd(child)
  PROVE  Sound(reader')
<1>1. child.ok => child.at \in reader.at .. Len(reader.bytes)
  BY DEF InDocument
<1>2. CASE S3ObjectField(child)
  <2>1. child.ok /\ S3Fields[child.tag[2]] \in Spans
    BY <1>2 DEF S3ObjectField, Starts, S3Fields, Spans
  <2>2. Good(reader') /\ reader'.in = reader.in
    BY <1>2, <2>1, FieldGood DEF S3ObjectField
  <2> QED BY <2>2, WithinEntry
<1>3. CASE S3ObjectProperty(child)
  <2>1. \/ reader' = Failed(reader)
        \/ child.ok /\ reader' = ReadMatched(reader, child.at, child.tag)
        \/ child.ok /\ reader' = ReadUnmatched(reader, child.at, child.tag, Wanted)
    BY <1>3 DEF S3ObjectProperty
  <2>2. Good(reader') /\ reader'.in = reader.in
    BY <1>1, <2>1, FailedGood, MatchedGood, UnmatchedGood
  <2> QED BY <2>2, WithinEntry
<1>4. CASE S3ObjectEnd(child)
  <2>1. child.ok /\ (reader' = Failed(reader) \/ reader' = S3Built(MoveTo(reader, child.at)))
    BY <1>4 DEF S3ObjectEnd, Ends
  <2> QED BY <1>1, <2>1, FailedGood, WithinEntry, MovedGood, S3BuiltSound
<1> QED BY <1>2, <1>3, <1>4

LEMMA S3GroupSound ==
  ASSUME Good(reader), reader.in = "group", NEW child,
         InDocument(reader.bytes, reader.at, child), S3GroupChild(child) \/ S3GroupEnd(child)
  PROVE  Sound(reader')
<1>1. child.ok => child.at \in reader.at .. Len(reader.bytes)
  BY DEF InDocument
<1>2. CASE S3GroupChild(child)
  <2> DEFINE past == Skip(reader.bytes, child.at, child.tag)
  <2>1. \/ reader' = Failed(reader)
        \/ /\ child.ok
           /\ reader' = SetField(reader, "key", Value(reader.bytes, child.at, child.tag))
        \/ child.ok /\ past.ok /\ reader' = MoveTo(reader, past.at)
    BY <1>2 DEF S3GroupChild
  <2>2. "key" \in Spans
    BY DEF Spans
  <2> HIDE DEF past
  <2>3. Good(reader') /\ reader'.in = reader.in
    BY <2>1, <2>2, FailedGood, FieldGood, PassedGood DEF past
  <2> QED BY <2>3, WithinEntry
<1>3. CASE S3GroupEnd(child)
  <2>1. child.ok /\ (reader' = Failed(reader) \/ reader' = S3Built(MoveTo(reader, child.at)))
    BY <1>3 DEF S3GroupEnd, Ends
  <2> QED BY <1>1, <2>1, FailedGood, WithinEntry, MovedGood, S3BuiltSound
<1> QED BY <1>2, <1>3

-----------------------------------------------------------------------------
(* A turn of the readers.                                                  *)

\* A child of the element that is read.
LEMMA Next1InDocument ==
  ASSUME Good(reader), NEW parent
  PROVE  InDocument(reader.bytes, reader.at, Next1(parent))
BY ChildInDocument DEF Good, Next1

\* A turn at the root begins with nothing read.
LEMMA AtRootBegins ==
  ASSUME NEW r, Sound(r), r.in \in {"root", "blobs"}, NEW parent
  PROVE  /\ AtRoot(AtChild(r)) /\ AtChild(r).in = r.in
         /\ InDocument(AtChild(r).bytes, 0, Child(AtChild(r).bytes, 0, parent))
<1>1. AtRoot(AtChild(r)) /\ AtChild(r).in = r.in
  BY AtChildGood DEF Sound, Settled, AtRoot
<1>2. AtChild(r).bytes \in Seq(Tokens) /\ 0 \in 0 .. Len(AtChild(r).bytes)
  BY <1>1 DEF AtRoot, Good
<1> QED BY <1>1, <1>2, ChildInDocument

LEMMA S3ReadSound ==
  ASSUME Sound(reader), S3Read
  PROVE  Sound(reader')
<1>1. ASSUME reader.in = "root", NEW r, r = AtChild(reader),
             \/ S3Misc(r)
             \/ ~ Misc(Peek(r.bytes, 0))
                /\ \E child \in {Child(r.bytes, 0, S3Root)} : S3OfRoot(r, child)
      PROVE  Sound(reader')
  <2>1. AtRoot(r) /\ InDocument(r.bytes, 0, Child(r.bytes, 0, S3Root))
    BY <1>1, AtRootBegins
  <2>2. CASE S3Misc(r)
    <3>1. Peek(r.bytes, 0)[1] # "end"
      BY <2>2 DEF S3Misc, Misc
    <3>2. 1 \in r.at .. Len(r.bytes)
      <4>1. r.bytes \in Seq(Tokens) /\ 0 \in 0 .. Len(r.bytes) /\ r.at = 0
        BY <2>1 DEF AtRoot, Good
      <4> QED BY <3>1, <4>1, PastTheEnd
    <3> QED BY <2>1, <2>2, <3>2, MovedGood DEF S3Misc, AtRoot, Sound, Settled
  <2> QED BY <1>1, <2>1, <2>2, S3RootSound
<1>2. ASSUME reader.in = "object", NEW child, child = Next1(reader.name),
             S3ObjectField(child) \/ S3ObjectProperty(child) \/ S3ObjectEnd(child)
      PROVE  Sound(reader')
  BY <1>2, Next1InDocument, S3ObjectSound DEF Sound
<1>3. ASSUME reader.in = "group", NEW child, child = Next1(reader.name),
             S3GroupChild(child) \/ S3GroupEnd(child)
      PROVE  Sound(reader')
  BY <1>3, Next1InDocument, S3GroupSound DEF Sound
<1> QED BY <1>1, <1>2, <1>3 DEF S3Read

-----------------------------------------------------------------------------
(* The pages of Azure.                                                     *)

LEMMA AzureBuiltSound ==
  ASSUME NEW r, Good(r)
  PROVE  Sound(AzureBuilt(r))
<1> DEFINE built == BuiltEntry(r, AzureBad(r), AzureEntryOf(r))
           then == [built EXCEPT !.in = "blobs", !.name = "Blobs"]
<1>1. Good(built) /\ built.fields = NoFields
  BY BuiltGood
<1> HIDE DEF built
<1>2. /\ DOMAIN then = DOMAIN built /\ then.bytes = built.bytes /\ then.fields = built.fields
      /\ then.at = built.at
  BY <1>1 DEF Good, Shaped
<1>3. AzureBuilt(r) = then
  BY DEF AzureBuilt, built
<1> HIDE DEF then
<1> QED BY <1>1, <1>2, <1>3, LeftSound

\* Each turn at the root, and among the entries.
LEMMA AzureRootSound ==
  ASSUME NEW r, AtRoot(r), NEW child, InDocument(r.bytes, 0, child),
         Blobs(r, child) \/ Marker(r, child) \/ AzureOther(r, child) \/ AzureEnd(r, child)
  PROVE  Sound(reader')
<1> DEFINE read == Value(r.bytes, child.at, child.tag)
           past == Skip(r.bytes, child.at, child.tag)
<1>0. r.bytes \in Seq(Tokens) /\ Sound(r)
  BY AtRootSound DEF AtRoot, Good
<1>1. child.ok => child.at \in 0 .. Len(r.bytes)
  BY DEF InDocument
<1>2. child.ok => InDocument(r.bytes, child.at, read) /\ InDocument(r.bytes, child.at, past)
  BY <1>0, <1>1, ValueInDocument, SkipInDocument
<1>3. child.ok => InDocument(r.bytes, 0, read) /\ InDocument(r.bytes, 0, past)
  <2> HIDE DEF read, past
  <2> QED BY <1>0, <1>1, <1>2, ReadLater
<1>4. CASE Blobs(r, child)
  <2> DEFINE entered(in) == [r EXCEPT !.at = child.at, !.page.seen = @ \cup {"Blobs"}, !.in = in]
  <2>1. child.ok
    BY <1>4 DEF Blobs, Starts
  <2>2. \A in : /\ DOMAIN entered(in) = DOMAIN r /\ entered(in).bytes = r.bytes
                /\ entered(in).fields = r.fields /\ entered(in).at = child.at
    BY DEF AtRoot, Good, Shaped
  <2>3. \/ reader' = Failed(r) \/ reader' = entered("root") \/ reader' = entered("blobs")
    BY <1>4 DEF Blobs
  <2>4. child.at \in r.at .. Len(r.bytes)
    BY <1>1, <2>1 DEF AtRoot
  <2> HIDE DEF entered
  <2>5. \A in : Good(entered(in))
    BY <2>2, <2>4, SameGood DEF AtRoot
  <2> QED BY <1>0, <2>2, <2>3, <2>5, FailedSound DEF Sound, Settled, AtRoot
<1>5. CASE Marker(r, child)
  <2> DEFINE then(marker) == [r EXCEPT !.at = read.at, !.page.seen = @ \cup {"NextMarker"},
                                       !.page.marker = marker]
  <2>1. child.ok
    BY <1>5 DEF Marker, Starts
  <2>2. \A marker : /\ DOMAIN then(marker) = DOMAIN r /\ then(marker).bytes = r.bytes
                    /\ then(marker).fields = r.fields /\ then(marker).at = read.at
    BY DEF AtRoot, Good, Shaped
  <2>3. \/ reader' = Failed(r)
        \/ read.ok /\ reader' = then(MarkerOf(SpanText(r.bytes, read.span)))
    BY <1>5 DEF Marker
  <2> HIDE DEF read, then
  <2>4. read.ok => read.at \in r.at .. Len(r.bytes)
    BY <1>3, <2>1 DEF InDocument, AtRoot
  <2>5. read.ok => \A marker : Good(then(marker))
    BY <2>2, <2>4, SameGood DEF AtRoot
  <2> QED BY <1>0, <2>2, <2>3, <2>5, FailedSound DEF Sound, Settled, AtRoot
<1>6. CASE AzureOther(r, child)
  <2>1. reader' = Failed(r) \/ (child.ok /\ past.ok /\ reader' = MoveTo(r, past.at))
    BY <1>6 DEF AzureOther
  <2> HIDE DEF past
  <2> QED BY <1>0, <1>3, <2>1, FailedSound, PastSound
<1>7. CASE AzureEnd(r, child)
  <2> DEFINE moved == MoveTo(r, child.at)
  <2>1. child.ok
    BY <1>7 DEF AzureEnd, Ends
  <2>2. Sound(moved)
    BY <2>1, PastSound
  <2>3. reader' = Failed(r) \/ \E marker : reader' = RoomChecked(moved, marker)
    BY <1>7 DEF AzureEnd
  <2> HIDE DEF moved
  <2> QED BY <1>0, <2>2, <2>3, FailedSound, RoomSound
<1> QED
  <2> HIDE DEF read, past
  <2> QED BY <1>4, <1>5, <1>6, <1>7

LEMMA AzureBlobsSound ==
  ASSUME NEW r, AtRoot(r), Blob(r) \/ BlobsEnd(r)
  PROVE  Sound(reader')
<1>0. r.bytes \in Seq(Tokens) /\ 0 \in 0 .. Len(r.bytes) /\ r.at = 0 /\ Sound(r)
  BY AtRootSound DEF AtRoot, Good
<1>1. CASE Blob(r)
  <2>1. Peek(r.bytes, 0)[1] # "end"
    BY <1>1 DEF Blob, StartsElement
  <2>2. 1 \in 0 .. Len(r.bytes)
    BY <1>0, <2>1, PastTheEnd
  <2> DEFINE entered(name, in) ==
               [r EXCEPT !.at = 1, !.name = name, !.fields = NoFields, !.in = in]
  <2>3. reader' = Failed(r) \/ \E name, in : reader' = entered(name, in)
    BY <1>1 DEF Blob
  <2>4. \A name, in : Sound(entered(name, in))
    BY <2>2, EnteredSound
  <2> HIDE DEF entered
  <2> QED BY <1>0, <2>3, <2>4, FailedSound
<1>2. CASE BlobsEnd(r)
  <2> DEFINE close == CloseTag(r.bytes, 0, "Blobs")
             left == [r EXCEPT !.at = close.at, !.in = "root"]
  <2>1. InDocument(r.bytes, 0, close)
    BY <1>0, CloseTagInDocument
  <2>2. reader' = Failed(r) \/ (close.ok /\ reader' = left)
    BY <1>2 DEF BlobsEnd
  <2>3. /\ DOMAIN left = DOMAIN r /\ left.bytes = r.bytes /\ left.fields = r.fields
        /\ left.at = close.at
    BY DEF AtRoot, Good, Shaped
  <2> HIDE DEF close, left
  <2>4. close.ok => Good(left)
    BY <1>0, <2>1, <2>3, SameGood DEF AtRoot, InDocument
  <2> QED BY <1>0, <2>2, <2>3, <2>4, FailedSound DEF Sound, Settled, AtRoot
<1> QED BY <1>1, <1>2

\* Each turn within an entry, and within its properties.
LEMMA KnownGood ==
  ASSUME NEW r, Good(r), NEW child, InDocument(r.bytes, r.at, child), child.ok
  PROVE  Good(KnownOrUnmatched(r, child)) /\ KnownOrUnmatched(r, child).in = r.in
<1>1. child.at \in r.at .. Len(r.bytes)
  BY DEF InDocument
<1> DEFINE none == Read(child.at, child.tag, <<0, 0>>)
<1>2. InDocument(r.bytes, r.at, none)
  BY <1>1 DEF InDocument, Read, SpanWithin, Good
<1>3. \/ KnownOrUnmatched(r, child) = Kept(r, child.tag[2], none)
      \/ KnownOrUnmatched(r, child) = ReadMatched(r, child.at, child.tag)
      \/ \E wanted : KnownOrUnmatched(r, child) = ReadUnmatched(r, child.at, child.tag, wanted)
  BY DEF KnownOrUnmatched
<1> HIDE DEF none
<1> QED BY <1>1, <1>2, <1>3, KeptGood, MatchedGood, UnmatchedGood

LEMMA AzureEntrySound ==
  ASSUME Good(reader), reader.in \in {"object", "group"}, NEW child,
         InDocument(reader.bytes, reader.at, child),
         Name(child) \/ Properties(child) \/ AzureBeside(child) \/ AzureEntryEnd(child)
  PROVE  Sound(reader')
<1>1. child.ok => child.at \in reader.at .. Len(reader.bytes)
  BY DEF InDocument
<1>2. CASE Name(child)
  <2> DEFINE named == SetField(reader, "key", Value(reader.bytes, child.at, child.tag))
             then == [named EXCEPT !.fields.percent = child.tag[3] = "encoded"]
  <2>1. child.ok /\ "key" \in Spans
    BY <1>2 DEF Name, Starts, Spans
  <2>2. Good(named) /\ named.in = reader.in
    BY <2>1, FieldGood
  <2>3. reader' = then
    BY <1>2 DEF Name
  <2> HIDE DEF named
  <2> DEFINE fields == [named.fields EXCEPT !.percent = child.tag[3] = "encoded"]
  <2>4. /\ DOMAIN then = DOMAIN named /\ then.bytes = named.bytes /\ then.fields = fields
        /\ then.at = named.at /\ then.in = named.in
    BY <2>2 DEF Good, Shaped
  <2>5. /\ DOMAIN fields = DOMAIN named.fields /\ fields.captured = named.fields.captured
        /\ \A field \in Spans : fields[field] = named.fields[field]
    BY <2>2 DEF Good, Shaped, Spans
  <2> HIDE DEF then, fields
  <2>6. Good(then)
    BY <2>2, <2>4, <2>5 DEF Good, Shaped, Within
  <2> QED BY <2>2, <2>3, <2>4, <2>6, WithinEntry
<1>3. CASE Properties(child)
  <2> DEFINE moved == MoveTo(reader, child.at)
             then(in) == [moved EXCEPT !.in = in]
  <2>1. child.ok
    BY <1>3 DEF Properties, IsProperties, Starts
  <2>2. Good(moved)
    BY <1>1, <2>1, MovedGood
  <2>3. reader' = then("properties") \/ reader' = then("groupProperties")
    BY <1>3 DEF Properties
  <2> HIDE DEF moved
  <2>4. \A in : /\ DOMAIN then(in) = DOMAIN moved /\ then(in).bytes = moved.bytes
                /\ then(in).fields = moved.fields /\ then(in).at = moved.at /\ then(in).in = in
    BY <2>2 DEF Good, Shaped
  <2> HIDE DEF then
  <2>5. \A in : Good(then(in))
    BY <2>2, <2>4 DEF Good, Shaped
  <2> QED BY <2>3, <2>4, <2>5, WithinEntry
<1>4. CASE AzureBeside(child)
  <2> DEFINE past == Skip(reader.bytes, child.at, child.tag)
  <2>1. /\ child.ok
        /\ \/ reader' = Failed(reader)
           \/ reader' = KnownOrUnmatched(reader, child)
           \/ past.ok /\ reader' = MoveTo(reader, past.at)
    BY <1>4 DEF AzureBeside
  <2> HIDE DEF past
  <2>2. Good(reader') /\ reader'.in = reader.in
    BY <2>1, FailedGood, KnownGood, PassedGood DEF past
  <2> QED BY <2>2, WithinEntry
<1>5. CASE AzureEntryEnd(child)
  <2>1. reader' = Failed(reader) \/ (child.ok /\ reader' = AzureBuilt(MoveTo(reader, child.at)))
    BY <1>5 DEF AzureEntryEnd
  <2> QED BY <1>1, <2>1, FailedGood, WithinEntry, MovedGood, AzureBuiltSound
<1> QED BY <1>2, <1>3, <1>4, <1>5

LEMMA AzurePropertiesSound ==
  ASSUME Good(reader), reader.in \in {"properties", "groupProperties"}, NEW child,
         InDocument(reader.bytes, reader.at, child), Property(child) \/ PropertiesEnd(child)
  PROVE  Sound(reader')
<1>1. child.ok => child.at \in reader.at .. Len(reader.bytes)
  BY DEF InDocument
<1>0. reader.bytes \in Seq(Tokens) /\ reader.at \in 0 .. Len(reader.bytes)
  BY DEF Good
<1>4. child.ok => Good(MoveTo(reader, child.at)) /\ MoveTo(reader, child.at).at \in Nat
  <2>1. reader.at \in Nat /\ Len(reader.bytes) \in Nat
    BY <1>0
  <2>2. child.ok => child.at \in Nat
    BY <1>1, <2>1
  <2>3. child.ok => /\ Good(MoveTo(reader, child.at))
                    /\ MoveTo(reader, child.at).at = child.at
    BY <1>1, MovedGood
  <2> QED BY <2>2, <2>3
<1>2. CASE Property(child)
  <2>1. child.ok
    BY <1>2 DEF Property
  <2> DEFINE set(field) == SetField(reader, field, Value(reader.bytes, child.at, child.tag))
  <2>2. CASE child.tag[2] \in DOMAIN AzureFields
    <3>1. AzureFields[child.tag[2]] \in Spans
      <4>1. child.tag[2] \in {"Etag", "Size", "Type", "Resource"}
        BY <2>2 DEF AzureFields
      <4>2. /\ AzureFields["Etag"] = "etag" /\ AzureFields["Size"] = "size"
            /\ AzureFields["Type"] = "type" /\ AzureFields["Resource"] = "resource"
        BY DEF AzureFields
      <4> QED BY <4>1, <4>2 DEF Spans
    <3>2. reader' = set(AzureFields[child.tag[2]])
      BY <1>2, <2>2 DEF Property
    <3>3. \A field \in Spans : Good(set(field)) /\ set(field).in = reader.in
      BY <2>1, FieldGood
    <3> HIDE DEF set
    <3> QED BY <3>1, <3>2, <3>3, WithinEntry
  <2>3. CASE child.tag[2] \notin DOMAIN AzureFields
    <3>1. reader' = KnownOrUnmatched(reader, child)
      BY <1>2, <2>3 DEF Property
    <3> QED BY <2>1, <3>1, KnownGood, WithinEntry
  <2> QED BY <2>2, <2>3
<1>3. CASE PropertiesEnd(child)
  <2> DEFINE moved == MoveTo(reader, child.at)
             back == [moved EXCEPT !.in = "object"]
             group == [moved EXCEPT !.in = "group", !.fields = NotOfAGroup(@)]
  <2>1. reader' = Failed(reader) \/ (child.ok /\ (reader' = back \/ reader' = group))
    BY <1>3 DEF PropertiesEnd
  <2>2. child.ok => Good(moved) /\ moved.at \in Nat
    BY <1>4
  <2> HIDE DEF moved
  <2>3. child.ok => Sound(back)
    <3>1. child.ok => /\ DOMAIN back = DOMAIN moved /\ back.bytes = moved.bytes
                      /\ back.fields = moved.fields /\ back.at = moved.at /\ back.in = "object"
      BY <2>2 DEF Good, Shaped
    <3> HIDE DEF back
    <3> QED BY <2>2, <3>1 DEF Sound, Settled, Good, Shaped
  <2>4. child.ok => Sound(group)
    <3> DEFINE fields == NotOfAGroup(moved.fields)
    <3>1. child.ok => /\ DOMAIN group = DOMAIN moved /\ group.bytes = moved.bytes
                      /\ group.fields = fields /\ group.at = moved.at /\ group.in = "group"
      BY <2>2 DEF Good, Shaped
    <3>2. /\ DOMAIN fields = DOMAIN NoFields /\ fields.captured = NoFields.captured
          /\ \A field \in Spans : fields[field] = IF field = "key" THEN moved.fields.key
                                                  ELSE NoFields[field]
      <4>1. DOMAIN NoFields = Spans \cup {"percent", "captured"}
        BY NoFieldsWithin, 0 \in Nat
      <4> QED BY <4>1 DEF NotOfAGroup, Spans
    <3> HIDE DEF group, fields
    <3>3. child.ok => Within(NoFields, moved.at) /\ moved.at \in Nat
      BY <2>2, NoFieldsWithin
    <3>4. child.ok => SpanWithin(moved.fields.key, moved.at)
      BY <2>2 DEF Good, Within, Spans
    <3>5. child.ok => Within(fields, moved.at)
      BY <3>2, <3>3, <3>4 DEF Within
    <3>6. DOMAIN fields = Spans \cup {"percent", "captured"} /\ DOMAIN fields.captured = Wanted
      BY <3>2, NoFieldsWithin, 0 \in Nat
    <3> QED BY <2>2, <3>1, <3>5, <3>6 DEF Sound, Settled, Good, Shaped
  <2> HIDE DEF back, group
  <2> QED BY <2>1, <2>3, <2>4, FailedGood, WithinEntry
<1> QED BY <1>2, <1>3

LEMMA AzureReadSound ==
  ASSUME Sound(reader), AzureRead
  PROVE  Sound(reader')
<1>1. ASSUME reader.in = "root", NEW r, r = AtChild(reader),
             NEW child, child = Child(r.bytes, 0, AzureRoot),
             Blobs(r, child) \/ Marker(r, child) \/ AzureOther(r, child) \/ AzureEnd(r, child)
      PROVE  Sound(reader')
  BY <1>1, AtRootBegins, AzureRootSound
<1>2. ASSUME reader.in = "blobs", NEW r, r = AtChild(reader), Blob(r) \/ BlobsEnd(r)
      PROVE  Sound(reader')
  BY <1>2, AtRootBegins, AzureBlobsSound
<1>3. ASSUME reader.in \in {"object", "group"}, NEW child, child = Next1(reader.name),
             Name(child) \/ Properties(child) \/ AzureBeside(child) \/ AzureEntryEnd(child)
      PROVE  Sound(reader')
  BY <1>3, Next1InDocument, AzureEntrySound DEF Sound
<1>4. ASSUME reader.in \in {"properties", "groupProperties"}, NEW child,
             child = Next1("Properties"), Property(child) \/ PropertiesEnd(child)
      PROVE  Sound(reader')
  BY <1>4, Next1InDocument, AzurePropertiesSound DEF Sound
<1> QED BY <1>1, <1>2, <1>3, <1>4 DEF AzureRead

-----------------------------------------------------------------------------

\* A reader begins soundly.
LEMMA NewReaderSound ==
  ASSUME NEW doc \in Seq(Tokens), NEW root, NEW many
  PROVE  Sound(NewReader(doc, root, many))
<1> DEFINE r == NewReader(doc, root, many)
<1>1. /\ r.bytes = doc /\ r.fields = NoFields
      /\ DOMAIN r = {"bytes", "at", "in", "name", "fields", "page", "out", "room", "required",
                     "status"}
  BY DEF NewReader
<1>2. r.at \in 0 .. Len(doc)
  <2>1. CASE Peek(doc, 0)[1] = "open" /\ Peek(doc, 0)[2] = root
    <3>1. r.at = 1
      BY <2>1 DEF NewReader
    <3>2. 0 < Len(doc)
      <4>1. 0 \in 0 .. Len(doc) /\ Len(doc) \in Nat
        OBVIOUS
      <4> QED BY <2>1, <4>1, PastTheEnd
    <3> QED BY <3>1, <3>2
  <2>2. CASE ~ (Peek(doc, 0)[1] = "open" /\ Peek(doc, 0)[2] = root)
    <3>1. r.at = 0
      BY <2>2 DEF NewReader
    <3> QED BY <3>1
  <2> QED BY <2>1, <2>2
<1> HIDE DEF r
<1>3. Within(NoFields, r.at)
  BY <1>2, NoFieldsWithin
<1> QED BY <1>1, <1>2, <1>3, NoFieldsWithin, 0 \in Nat DEF Sound, Settled, Good, Shaped, r

\* For every document, every set of wanted properties and every depth, the
\* cursor of the scanner and the spans that it hands out stay in the document:
\* the invariant that takes the place of bounds checks in xml/scan.rs.
THEOREM ReaderCursorInRange == ReaderSpec => []CursorInRange
<1>1. ReaderInit => Sound(reader)
  BY NewReaderSound DEF ReaderInit
<1>2. Sound(reader) /\ [ReaderNext]_<<reader, service>> => Sound(reader)'
  <2> SUFFICES ASSUME Sound(reader), [ReaderNext]_<<reader, service>>
               PROVE  Sound(reader')
    OBVIOUS
  <2>1. CASE ReaderNext
    BY <2>1, S3ReadSound, AzureReadSound DEF ReaderNext, Turn
  <2>2. CASE UNCHANGED <<reader, service>>
    BY <2>2
  <2> QED BY <2>1, <2>2
<1>3. Sound(reader) => CursorInRange
  BY DEF Sound, Good, Within, Spans, CursorInRange
<1> QED BY <1>1, <1>2, <1>3, PTL DEF ReaderSpec
=============================================================================
