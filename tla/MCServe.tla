------------------------------- MODULE MCServe -------------------------------
(***************************************************************************)
(* A small instance of Serve for TLC.                                       *)
(***************************************************************************)
EXTENDS Serve

\* Requests of users with a tenant; each session holds an earlier groups claim.
UserArrivals == [tenant : {TRUE}, account : {"user"}, claim : {Groups}]
=============================================================================
