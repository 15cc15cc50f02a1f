---------------------------- MODULE MCHttpServer ----------------------------
(* Two tasks, two usernames and one address; tokens of one second.  Local   *)
(* time is behind UTC, UTC, or ahead.                                       *)
EXTENDS HttpServer, TLC

ZonesOfServers == {-1, 0, 1}

TaskSymmetry == Permutations(Tasks)
=============================================================================
