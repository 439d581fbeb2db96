---------------------------- MODULE MCTokenHook ----------------------------
(***************************************************************************)
(* Small instances of TokenHook for TLC.                                    *)
(***************************************************************************)
EXTENDS TokenHook

\* Requests of users with a tenant, and of service accounts that are not
\* checked and have none.
MCArrivals ==
  [tenant : {TRUE}, account : {"user"}, claim : {{}}]
  \cup [tenant : {FALSE}, account : {"serviceNoAudience"}, claim : {{}}]
=============================================================================
