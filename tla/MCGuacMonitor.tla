--------------------------- MODULE MCGuacMonitor ---------------------------
(***************************************************************************)
(* An instance of GuacMonitor for TLC: a session in each table.            *)
(***************************************************************************)
EXTENDS GuacMonitor

OneEach == {<<"conn", 1>>, <<"login", 1>>}
NoRow == {}
=============================================================================
