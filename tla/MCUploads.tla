----------------------------- MODULE MCUploads ------------------------------
(***************************************************************************)
(* Two parts, one of them of two contents, a number below and one above    *)
(* the ones that AWS takes; lists in order, out of order, with a part left *)
(* out and twice; and one request that arrives late: a stage, an abort, or *)
(* an unconditional commit of at most one part.                            *)
(***************************************************************************)
EXTENDS Uploads

MCDigits == <<"1", "2", "3", "4">>

MCContents(kind, number) ==
  CASE number = 1 /\ kind # "azure" -> {"a", "b", TooLong}
    [] OTHER                        -> {"a"}

MCLists(kind) ==
  {<<>>, <<1>>, <<1, 2>>, <<2, 1>>, <<0>>, <<1, 3>>}
    \cup (IF kind = "azure" THEN {<<1, 2, 1>>} ELSE {<<2>>, <<1, 1>>})

MCMayBeLate(kind, request) ==
  /\ request.condition = "none" /\ request.size = 0 /\ Len(request.list) <= 1
  /\ kind = "azure" => \A i \in DOMAIN request.list : request.list[i][1] = "Latest"
=============================================================================
