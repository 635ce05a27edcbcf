------------------------------- MODULE Writer -------------------------------
(***************************************************************************)
(* The buffer that every template and every request is written into        *)
(* (crates/object-storage-proto/src/request.rs), and the sizing protocol   *)
(* that its callers follow.                                                *)
(*                                                                         *)
(* A Writer keeps counting once its buffer is full, so one pass writes     *)
(* either the whole text or its exact length.  The caller of a call that   *)
(* is refused with Capacity { required } allocates `required` bytes and    *)
(* makes the same call again.                                              *)
(*                                                                         *)
(* A call is a script of pieces.  A piece either pushes bytes, or repeats  *)
(* a span that this writer wrote before (the target in a request line, the *)
(* path in a canonical request).                                           *)
(***************************************************************************)
EXTENDS Integers, Sequences

CONSTANTS
  Byte,       \* what a cell of a buffer can hold
  Script,     \* the calls: each a sequence of pieces
  Room,       \* the sizes of a caller's first buffer
  MaxUsize,   \* the largest usize, at which the count saturates
  MaxRoom,    \* the largest buffer there can be, isize::MAX bytes
  Limit       \* the largest buffer that the caller allows

Push(bytes) == [kind |-> "push", bytes |-> bytes, from |-> 0, len |-> Len(bytes)]
Again(from, len) == [kind |-> "repeat", bytes |-> <<>>, from |-> from, len |-> len]

Piece ==
  [kind: {"push"}, bytes: Seq(Byte), from: {0}, len: Nat]
    \cup [kind: {"repeat"}, bytes: {<<>>}, from: Nat, len: Nat]

\* A slice holds at most isize::MAX bytes, so no buffer reaches MaxUsize.
ASSUME WriterAssumption ==
  /\ MaxUsize \in Nat
  /\ MaxRoom \in Nat
  /\ MaxRoom < MaxUsize
  /\ Limit \in 0..MaxRoom
  /\ Room \subseteq 0..MaxRoom
  /\ Script \subseteq Seq(Piece)
  /\ \A script \in Script : \A n \in DOMAIN script :
       script[n].kind = "push" => script[n].len = Len(script[n].bytes)
  /\ Byte # {}

VARIABLES
  script,     \* the call that is made
  attempt,    \* how often it was started
  wrote,      \* how many of its pieces it has written
  buf,        \* the caller's buffer: offset -> byte
  room,       \* the length of that buffer
  position,   \* the count of bytes pushed
  verdict,    \* what the call returned
  text,       \* every byte that the pieces so far stand for (observed only)
  reached     \* the count after each piece of the first attempt (observed only)

vars == <<script, attempt, wrote, buf, room, position, verdict, text, reached>>

\* Mutant: the copies of a value of three bytes leave its middle out.
CopiesOfEnds(n) ==
  IF n \in 1..3 THEN {<<0, 1>>, <<n - 1, 1>>} ELSE {<<0, n>>}

(***************************************************************************)
(* copy_short: a copy of up to 32 bytes is two or three overlapping copies *)
(* of a fixed length.  Each is an offset and a length.                     *)
(***************************************************************************)
Copies(n) ==
  CASE n = 0        -> {}
    [] n \in 1..3   -> {<<0, 1>>, <<n \div 2, 1>>, <<n - 1, 1>>}
    [] n \in 4..7   -> {<<0, 4>>, <<n - 4, 4>>}
    [] n \in 8..16  -> {<<0, 8>>, <<n - 8, 8>>}
    [] n \in 17..32 -> {<<0, 16>>, <<n - 16, 16>>}
    [] OTHER        -> {<<0, n>>}

Copied(n, i) == \E copy \in Copies(n) : copy[1] <= i /\ i < copy[1] + copy[2]

CopyShort(to, start, from) ==
  [i \in DOMAIN to |->
     IF Copied(Len(from), i - start) THEN from[i - start + 1] ELSE to[i]]

CopyWithin(to, from, len, start) ==
  [i \in DOMAIN to |->
     IF start <= i /\ i < start + len THEN to[from + (i - start)] ELSE to[i]]

\* Mutants: the count overflows, by wrapping or by growing past a usize.
EndWraps(from, len) == (from + len) % (MaxUsize + 1)
EndGrows(from, len) == from + len

\* Counting continues past the buffer, and saturates.
EndAfter(from, len) == IF from + len <= MaxUsize THEN from + len ELSE MaxUsize

\* Mutant: a text that fills its buffer is refused.
FitsBelow == position < room

Fits == position <= room

-----------------------------------------------------------------------------

Init ==
  /\ script \in Script
  /\ attempt = 1
  /\ wrote = 0
  /\ room \in Room
  /\ \E stale \in Byte : buf = [i \in 0..room - 1 |-> stale]
  /\ position = 0
  /\ verdict = "writing"
  /\ text = <<>>
  /\ reached = [n \in {0} |-> 0]

Step(piece) ==
  /\ wrote' = wrote + 1
  /\ position' = EndAfter(position, piece.len)
  /\ reached' = IF attempt = 1
                  THEN [n \in 0..wrote + 1 |-> IF n <= wrote THEN reached[n] ELSE position']
                  ELSE reached
  /\ UNCHANGED <<script, attempt, room, verdict>>

\* Writer::push
WritePush ==
  /\ verdict = "writing"
  /\ wrote < Len(script)
  /\ LET piece == script[wrote + 1]
     IN  /\ piece.kind = "push"
         /\ buf' = IF EndAfter(position, piece.len) <= room
                     THEN CopyShort(buf, position, piece.bytes)
                     ELSE buf
         /\ text' = text \o piece.bytes
         /\ Step(piece)

\* Writer::repeat, whose span this writer wrote before.
WriteRepeat ==
  /\ verdict = "writing"
  /\ wrote < Len(script)
  /\ LET piece == script[wrote + 1]
     IN  /\ piece.kind = "repeat"
         /\ piece.from + piece.len <= Len(text)
         /\ buf' = IF EndAfter(position, piece.len) <= room
                     THEN CopyWithin(buf, piece.from, piece.len, position)
                     ELSE buf
         /\ text' = text \o [i \in 1..piece.len |-> text[piece.from + i]]
         /\ Step(piece)

\* check_fit and capacity_error: the call returns what it wrote, or the room
\* it needs, or that no buffer can hold it.
Finish ==
  /\ verdict = "writing"
  /\ wrote = Len(script)
  /\ verdict' = IF Fits THEN "written"
                ELSE IF position <= MaxRoom THEN "capacity" ELSE "impossible"
  /\ UNCHANGED <<script, attempt, wrote, buf, room, position, text, reached>>

\* The caller allocates what a refusal asks for, if its own limit allows it,
\* and makes the same call once more.  A second refusal is an error.
Retry ==
  /\ verdict = "capacity" /\ attempt = 1
  /\ position <= Limit
  /\ attempt' = 2
  /\ room' = position
  /\ \E stale \in Byte : buf' = [i \in 0..position - 1 |-> stale]
  /\ wrote' = 0
  /\ position' = 0
  /\ text' = <<>>
  /\ verdict' = "writing"
  /\ UNCHANGED <<script, reached>>

GiveUp ==
  /\ verdict = "capacity" /\ attempt = 1
  /\ position > Limit
  /\ verdict' = "disallowed"
  /\ UNCHANGED <<script, attempt, wrote, buf, room, position, text, reached>>

Next == WritePush \/ WriteRepeat \/ Finish \/ Retry \/ GiveUp

\* A call runs to its end, and the caller follows up on a refusal.
Spec == Init /\ [][Next]_vars /\ WF_vars(Next)

-----------------------------------------------------------------------------

TypeOK ==
  /\ script \in Script
  /\ attempt \in 1..2
  /\ wrote \in 0..Len(script)
  /\ room \in 0..MaxRoom
  /\ buf \in [0..room - 1 -> Byte]
  /\ position \in 0..MaxUsize
  /\ verdict \in {"writing", "written", "capacity", "disallowed", "impossible"}
  /\ text \in Seq(Byte)
  /\ DOMAIN reached = (IF attempt = 1 THEN 0..wrote ELSE 0..Len(script))
  /\ \A n \in DOMAIN reached : reached[n] \in 0..MaxUsize

(***************************************************************************)
(* What a call returns as written is the whole text: neither the           *)
(* overlapping copies of copy_short, nor a repeat of an earlier span, nor  *)
(* the contents of the caller's buffer leave a byte of it wrong.           *)
(***************************************************************************)
WrittenWhole ==
  verdict = "written" =>
    /\ position = Len(text)
    /\ \A i \in 0..Len(text) - 1 : buf[i] = text[i + 1]

(***************************************************************************)
(* The room that a refusal asks for is the length of the text, and a text  *)
(* is refused for good only if no buffer can hold it: the count is not     *)
(* bent by saturation on the way.                                          *)
(***************************************************************************)
RequiredExact ==
  /\ verdict \in {"capacity", "disallowed"} => position = Len(text)
  /\ verdict = "impossible" => Len(text) > MaxRoom

(***************************************************************************)
(* A caller that allocates what a refusal asked for is not refused again,  *)
(* which it treats as an error (host.h, encode): two attempts are enough.  *)
(***************************************************************************)
TwoAttempts == attempt = 2 => verdict \in {"writing", "written"}

(***************************************************************************)
(* Every call ends: with its text written, or with the news that it is     *)
(* more than the caller allows, or than any buffer can hold.               *)
(***************************************************************************)
CallEnds == <>(verdict \in {"written", "disallowed", "impossible"})

=============================================================================
