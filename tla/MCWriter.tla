------------------------------ MODULE MCWriter ------------------------------
(***************************************************************************)
(* Writer over every call of up to three pieces.  The lengths of a push    *)
(* stand on both sides of each boundary of copy_short.  A repeat takes a   *)
(* span from the first bytes of the text, or one that its own copy meets.  *)
(***************************************************************************)
EXTENDS Writer, FiniteSets

CONSTANTS Lengths, MaxPieces

\* The byte of a push tells its place, so a byte at a wrong offset shows.
Pushes == {Push([i \in 1..n |-> 1 + ((i - 1) % 3)]) : n \in Lengths}
Repeats == {Again(0, 1), Again(0, 4), Again(1, 3), Again(2, 0)}

Total(s, n) == s[n].len + (IF n > 1 THEN s[n - 1].len ELSE 0)
                        + (IF n > 2 THEN s[n - 2].len ELSE 0)

\* A repeat only names bytes that are written by then.
InOrder(s) == \A n \in DOMAIN s :
  s[n].kind = "repeat" => n > 1 /\ s[n].from + s[n].len <= Total(s, n - 1)

MCScript == {s \in UNION {[1..n -> Pushes \cup Repeats] : n \in 1..MaxPieces} : InOrder(s)}
MCByte == 0..3
MCRoom == {0, 5, 20, 40}

=============================================================================
