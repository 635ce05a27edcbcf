------------------------------ MODULE Promise ------------------------------
(***************************************************************************)
(* What reading an answer promises its caller, whatever the operation and  *)
(* the service, and however the answer names an error: one final verdict,  *)
(* which is true of what the service did.  A verdict may say less than     *)
(* what happened (a failure, an answer that cannot be read), but never     *)
(* something else.                                                         *)
(*                                                                         *)
(* Exchange implements it.                                                 *)
(***************************************************************************)

VARIABLES
  cause,      \* what the service did, or found in its way
  heard,      \* whether the name of it reached the caller
  verdict     \* what the caller is told

vars == <<cause, heard, verdict>>

Verdicts ==
  {"done", "started", "not_modified", "precondition_failed", "not_found", "not_satisfiable",
   "failure", "fault"}
Causes ==
  {"done", "started", "Precondition", "NotFound", "NoSuchContainer", "NoSuchUpload",
   "Unauthorized", "Throttled", "Timeout", "Service", "InvalidUpload", "Refused", "anything"}

\* A missing container is a missing object only to a caller that cannot know.
May(what, known) ==
  CASE what \in {"done", "started"}           -> {what, "fault"}
    [] what = "Precondition"                  -> {"not_modified", "precondition_failed", "failure", "fault"}
    [] what \in {"NotFound", "NoSuchUpload"}  -> {"not_found", "failure", "fault"}
    [] what = "NoSuchContainer" /\ ~known     -> {"not_found", "failure", "fault"}
    [] what = "anything"                      -> Verdicts
    [] OTHER                                  -> {"failure", "fault"}

Init ==
  /\ cause = "undecided"
  /\ heard = FALSE
  /\ verdict = "none"

Decide ==
  /\ cause = "undecided"
  /\ cause' \in Causes
  /\ UNCHANGED <<heard, verdict>>

Tell ==
  /\ cause # "undecided"
  /\ verdict = "none"
  /\ heard' \in BOOLEAN
  /\ verdict' \in May(cause, heard')
  /\ UNCHANGED cause

Next == Decide \/ Tell

Safety == Init /\ [][Next]_vars
Spec == Safety /\ WF_vars(Tell)
=============================================================================
