------------------------------ MODULE Selection ------------------------------
(***************************************************************************)
(* What is kept of a sequence: the elements at a set of its positions, in  *)
(* their order.  Readers keep the children of a name, and the services the *)
(* parts that a request names.                                             *)
(***************************************************************************)
EXTENDS Naturals, Sequences

Selected(seq, at) ==
  LET upTo[n \in 0 .. Len(seq)] ==
        IF n = 0 THEN <<>>
        ELSE IF n \in at THEN Append(upTo[n - 1], seq[n])
        ELSE upTo[n - 1]
  IN upTo[Len(seq)]
=============================================================================
