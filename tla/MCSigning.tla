----------------------------- MODULE MCSigning ------------------------------
(***************************************************************************)
(* Five requests, one for each way that a payload is sent and one with     *)
(* names that sort before the host, over three seconds of which the last   *)
(* is of another day.                                                      *)
(***************************************************************************)
EXTENDS Signing

MCNames ==
  <<"cache-control", "content-type", "host", "if-match", "range", "x-amz-acl", SumField, ShaField,
    "x-amz-copy-source", "x-amz-copy-source-if-match", "x-amz-copy-source-range",
    "x-amz-create-session-mode", DateField, "x-amz-meta-a", "x-amz-meta-b",
    "x-amz-mp-object-size", "x-amz-s3session-token", "x-amz-security-token",
    "x-amz-tagging", "x-amz-website-redirect-location">>

Describe(op, fields, metadata, filled, body, own) ==
  [op |-> op, fields |-> fields, metadata |-> metadata,
   value |-> [name \in ToSet(fields) \cup metadata |->
                CASE name = "x-amz-meta-a" -> Spaced
                  [] name = "x-amz-meta-b" -> Wide
                  [] OTHER -> Plain],
   filled |-> filled \cup {DateField}, body |-> body, own |-> own]

PutSigned ==
  Describe("put", <<"x-amz-website-redirect-location", "x-amz-acl">>,
           {"x-amz-meta-a", "x-amz-meta-b"}, {"if-match", ShaField}, "signed", FALSE)
PutUnsigned == Describe("put", <<>>, {"x-amz-meta-b"}, {}, "unsigned", FALSE)
OwnBody == Describe("delete_many", <<>>, {}, {ShaField, SumField}, "own", FALSE)
CreateSession == Describe("create_session", <<"x-amz-create-session-mode">>, {}, {}, "none", TRUE)
PutContent == Describe("put", <<"content-type", "cache-control">>, {}, {ShaField}, "signed", FALSE)

MCDescribes == {PutSigned, PutUnsigned, PutContent, OwnBody, CreateSession}
=============================================================================
