------------------------------ MODULE MCSession -----------------------------
(* The programs of the examples; the largest is owed seven frames.         *)
EXTENDS Session

MCProtocols == {0, 2, 3, 4}
MCLens == {0, 1}
MCPrograms == {Ping, Serve, Fetch, Sync, Follow, Submit}
=============================================================================
