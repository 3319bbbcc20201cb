--------------------------- MODULE MCFetchCorpora ---------------------------
(***************************************************************************)
(* Two processes provisioning the two frozen corpora with the code's three *)
(* attempts.  Three faults reach CORPUS-UNAVAILABLE and any combination of *)
(* a crash with other failures.                                            *)
(***************************************************************************)
EXTENDS FetchCorpora
=============================================================================
