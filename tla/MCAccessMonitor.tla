--------------------------- MODULE MCAccessMonitor ---------------------------
(***************************************************************************)
(* An instance of AccessMonitor for TLC: two logons, of which pollRDP may  *)
(* pass one, and one item of each other source.                            *)
(***************************************************************************)
EXTENDS AccessMonitor

TwoLogons == [s \in Sources |-> IF s = "rdp" THEN 2 ELSE 1]
=============================================================================
