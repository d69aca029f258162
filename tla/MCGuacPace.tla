------------------------------ MODULE MCGuacPace ------------------------------
(***************************************************************************)
(* An instance of GuacPace for TLC: with a window of two, three sessions   *)
(* may keep pace or not. Ids are consecutive per table, as a serial column *)
(* hands them out.                                                         *)
(***************************************************************************)
EXTENDS GuacPace

ThreeSessions == {<<"conn", 1>>, <<"conn", 2>>, <<"conn", 3>>}
SecondSession == {<<"conn", 2>>}
=============================================================================
