-------------------------------- MODULE Scan --------------------------------
(***************************************************************************)
(* The scanner of XML documents (xml/scan.rs), on documents of tokens: a   *)
(* tag, a run of text between two tags, a comment, a processing            *)
(* instruction, or other markup, is one token.                             *)
(*                                                                         *)
(* As in the code, an operator reads one thing of `b`, the bytes that are  *)
(* not yet handed out, from the offset `at`, and says where it ended.  A   *)
(* span <<from, to>> is of offsets: it names the tokens from + 1 .. to.    *)
(***************************************************************************)
EXTENDS Integers, Sequences

CONSTANT MaxDepth           \* how deep elements nest (16 in the code)

ASSUME MaxDepthAssumption == MaxDepth \in Nat \ {0}

\* A token is <<kind, name, note>>.  The note of a start tag says how it is
\* spelled: "exact" as the service writes it, "loose" in another way, or with
\* the attribute that says that a name is percent-encoded.
Open(name)    == <<"open", name, "exact">>
Empty(name)   == <<"empty", name, "exact">>
Close(name)   == <<"close", name, "">>
Text(form, content) == <<"text", form, content>>
Space         == Text("space", "")
Comment       == <<"comment", "", "">>
CData         == <<"cdata", "", "">>
End           == <<"end", "", "">>      \* what stands past the end

Peek(b, at) == IF at < Len(b) THEN b[at + 1] ELSE End

StartsElement(token) == token[1] \in {"open", "empty"}
Misc(token) == token[1] \in {"comment", "pi"}

Fault == [ok |-> FALSE, at |-> 0, tag |-> End, span |-> <<0, 0>>]
Read(at, tag, span) == [ok |-> TRUE, at |-> at, tag |-> tag, span |-> span]

SkipSpace(b, at) == IF Peek(b, at) = Space THEN at + 1 ELSE at

\* close: the close tag of `name`.
CloseTag(b, at, name) ==
  IF Peek(b, at) = Close(name) THEN Read(at + 1, Peek(b, at), <<0, 0>>) ELSE Fault

\* child: the next start tag, or the close tag of the parent, past whitespace,
\* comments and processing instructions.
Child(b, at, parent) ==
  LET Beside(i) == Peek(b, i) = Space \/ Misc(Peek(b, i))
      here == CHOOSE i \in at .. Len(b) : ~ Beside(i) /\ \A j \in at .. i - 1 : Beside(j)
      tag  == Peek(b, here)
  IN IF StartsElement(tag) THEN Read(here + 1, tag, <<0, 0>>) ELSE CloseTag(b, here, parent)

\* value, value_of: the text of an element whose start tag was consumed.  Any
\* tag but its close tag splits the value, and is a fault.
Value(b, at, tag) ==
  LET to == IF Peek(b, at)[1] = "text" THEN at + 1 ELSE at
  IN IF tag[1] = "empty" THEN Read(at, tag, <<at, at>>)
     ELSE LET close == CloseTag(b, to, tag[2])
          IN IF close.ok THEN Read(close.at, tag, <<at, to>>) ELSE Fault

\* Where the element `name` ends, whose start tag was consumed, or 0 if it does
\* not, or has more than `room` elements open at once: in a place i, with the
\* elements open there, the innermost last.
EndOf(b, at, name, room) ==
  LET past[i \in Nat, open \in Seq(STRING)] ==
        LET token == Peek(b, i)
        IN CASE token[1] \in {"cdata", "end"} -> 0
             [] token[1] = "open" ->
                  IF Len(open) < room THEN past[i + 1, Append(open, token[2])] ELSE 0
             [] token[1] = "close" ->
                  IF token[2] # open[Len(open)] THEN 0
                  ELSE IF Len(open) = 1 THEN i + 1
                  ELSE past[i + 1, SubSeq(open, 1, Len(open) - 1)]
             [] OTHER -> past[i + 1, open]
  IN past[at, <<name>>]

Through(b, at, name, room) ==
  LET to == EndOf(b, at, name, room)
  IN IF to \in at + 1 .. Len(b) THEN Read(to, End, <<at, to - 1>>) ELSE Fault

\* Mutant: as if what stood around the element was open too.
NestedRoomInside(depth) == depth - 1
NestedRoom(depth) == depth + 1
SkipRoom(depth) == depth
Skip(b, at, tag) ==
  IF tag[1] = "empty" THEN Read(at, tag, <<at, at>>) ELSE Through(b, at, tag[2], SkipRoom(MaxDepth))
Nested(b, at, name) == Through(b, at, name, NestedRoom(MaxDepth))

-----------------------------------------------------------------------------
(* Text.                                                                   *)

\* The forms of a text: "plain"; "space", nothing but whitespace; "spaced",
\* plain between whitespace; "amp", with references; "pct", percent-encoded;
\* "nul", with an encoded zero byte; "bad", with a reference that is none.
Forms == {"plain", "space", "spaced", "amp", "pct", "nul", "bad"}

\* A value that was decoded where it stood, with zeros after it.
Decoded(token) == <<"decoded", token[2], token[3]>>

SpanText(b, span) == SubSeq(b, span[1] + 1, span[2])

\* trim_span, of a value that is text or nothing: its content, or nothing.
TrimmedContent(text) ==
  IF text = <<>> \/ text = <<Space>> THEN "" ELSE text[1][3]

IsEmpty(text) == text = <<>>
Form(text) == IF text = <<>> THEN "plain" ELSE text[1][2]
=============================================================================
