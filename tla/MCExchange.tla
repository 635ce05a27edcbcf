----------------------------- MODULE MCExchange -----------------------------
(* Statuses of every class, and all that the code tells apart. *)
EXTENDS Exchange
MCStatuses ==
  {100, 200, 201, 202, 204, 206, 301, 304, 400, 401, 404, 409, 412, 416, 429, 503}
=============================================================================
