------------------------------ MODULE AuditTrail ------------------------------
(***************************************************************************)
(* What the connection monitor promises of a source of sessions, with no   *)
(* queries, cursor file or poll: an append-only trail of session starts    *)
(* and ends, kept by an agent that forgets only by stopping.               *)
(*                                                                         *)
(* The agent knows which sessions it has passed (it will not report their  *)
(* start again) and which it watches (it awaits their end). A line may be  *)
(* missing from the trail, because appending is allowed to fail; a line    *)
(* that is there is true, and no line is ever taken back.                  *)
(***************************************************************************)
EXTENDS Sequences

CONSTANT Session

VARIABLES
    status,   \* each session: "absent", "open" or "ended"
    up,       \* the agent is running
    passed,   \* sessions whose start will not be reported again
    watched,  \* sessions whose end is awaited
    trail     \* the lines written

vars == <<status, up, passed, watched, trail>>

Started(s) == [kind |-> "start", row |-> s]
Ended(s) == [kind |-> "end", row |-> s]
AgentStarted == [kind |-> "agent"]

Init ==
    /\ status = [s \in Session |-> "absent"]
    /\ up = FALSE
    /\ passed = {}
    /\ watched = {}
    /\ trail = <<>>

Write(e) == trail' \in {trail, Append(trail, e)}

Open(s) ==
    /\ status[s] = "absent"
    /\ status' = [status EXCEPT ![s] = "open"]
    /\ UNCHANGED <<up, passed, watched, trail>>

End(s) ==
    /\ status[s] = "open"
    /\ status' = [status EXCEPT ![s] = "ended"]
    /\ UNCHANGED <<up, passed, watched, trail>>

\* Reporting a session may pass over others, which are then never reported.
ReportStart(s) ==
    /\ up
    /\ status[s] # "absent"
    /\ s \notin passed
    /\ Write(Started(s))
    /\ passed' \in SUBSET Session
    /\ passed \cup {s} \subseteq passed'
    /\ watched' \in {watched, watched \cup {s}}
    /\ UNCHANGED <<status, up>>

ReportEnd(s) ==
    /\ up
    /\ status[s] = "ended"
    /\ s \in watched
    /\ Write(Ended(s))
    /\ watched' = watched \ {s}
    /\ UNCHANGED <<status, up, passed>>

\* A session the agent has passed may turn out to be open after all.
Rewatch(s) ==
    /\ up
    /\ status[s] # "absent"
    /\ s \in passed
    /\ watched' = watched \cup {s}
    /\ UNCHANGED <<status, up, passed, trail>>

\* Stopping, the agent forgets: it may report sessions again that it had
\* passed, and it watches none that it has not passed.
Stop ==
    /\ up
    /\ up' = FALSE
    /\ passed' \in SUBSET passed
    /\ watched' \in SUBSET passed'
    /\ UNCHANGED <<status, trail>>

Start ==
    /\ ~up
    /\ up' = TRUE
    /\ Write(AgentStarted)
    /\ UNCHANGED <<status, passed, watched>>

Next ==
    \/ \E s \in Session :
           Open(s) \/ End(s) \/ ReportStart(s) \/ ReportEnd(s) \/ Rewatch(s)
    \/ Stop
    \/ Start

Spec == Init /\ [][Next]_vars
=============================================================================
