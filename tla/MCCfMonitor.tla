----------------------------- MODULE MCCfMonitor -----------------------------
(***************************************************************************)
(* An instance of CfMonitor for TLC: two lines. "docker logs" puts a time  *)
(* in nanoseconds before each, so that their keys differ; in the other     *)
(* form they are clipped to the same key, inside a character.              *)
(***************************************************************************)
EXTENDS CfMonitor, TLC

CONSTANTS
    a, b,  \* lines
    ab     \* what both are clipped to

SharedKey(f, l) == <<f, IF f = "compose" THEN ab ELSE l>>
SharedIsCut == {<<"compose", ab>>}

\* a and b are alike to every definition.
Alike == Permutations({a, b})
=============================================================================
