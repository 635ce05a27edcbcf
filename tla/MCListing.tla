----------------------------- MODULE MCListing ------------------------------
(***************************************************************************)
(* Four keys of each service, among them a group, a delete marker, two     *)
(* versions of one key and a directory.                                    *)
(***************************************************************************)
EXTENDS Listing

MCWanted == {"Owner", "VersionId", "Metadata", "Type"}
=============================================================================
