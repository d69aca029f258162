------------------------------- MODULE GuacPace -------------------------------
(***************************************************************************)
(* GuacMonitor with a history of its polls, to say how fast sessions may   *)
(* come before LIMIT 80 hides one: the queries of accesslog.go return the  *)
(* newest rows only, and a row that newer ones push out of the window      *)
(* before a poll has come to its end is never reported.                    *)
(*                                                                         *)
(* A poll counts for a table once its result has been applied to the end.  *)
(* One that fails, or that a stop cuts off, counts for nothing.            *)
(***************************************************************************)
EXTENDS GuacMonitor

VARIABLES
    asked,    \* rows that there were when the poll under way asked for them
    polled,   \* rows that there were when a poll that counts asked
    overrun   \* rows that were asked for together with too many new ones

history == <<asked, polled, overrun>>

There(t) == {r \in Row : r[1] = t /\ Visible(r)}
New(t) == There(t) \ polled

Asks(t) ==
    /\ asked' = asked \cup There(t)
    /\ overrun' = IF Cardinality(New(t)) > Limit THEN overrun \cup New(t)
                                                 ELSE overrun
    /\ UNCHANGED polled

Counts(t) ==
    LET done == {r \in asked : r[1] = t}
    IN  /\ asked' = asked \ done
        /\ polled' = polled \cup done
        /\ UNCHANGED overrun

PaceInit == Init /\ asked = {} /\ polled = {} /\ overrun = {}

PaceNext ==
    \/ QueryConnections /\ Asks("conn")
    \/ QueryLogins /\ Asks("login")
    \/ TableDone /\ Counts(pc)
    \/ (QueryFails \/ Crash) /\ asked' = {} /\ UNCHANGED <<polled, overrun>>
    \/ /\ \/ Environment
          \/ Boot \/ Tick
          \/ \E r \in Row : ReportStart(r) \/ SettleRow(r)
          \/ SaveTruncate \/ SaveWrite \/ SaveFails
       /\ UNCHANGED history

PaceSpec == PaceInit /\ [][PaceNext]_<<vars, history>>

(***************************************************************************)
(* Property                                                                *)
(***************************************************************************)
\* No session is lost to the window as long as no more than Limit rows turn up
\* in a table between a poll and the next that is carried through, whatever
\* fails or stops in between: a row that there was when such a poll asked has
\* had its start appended, unless it was committed out of order.
NoneMissedInPace ==
    \A r \in polled \ (late \cup overrun) : Recorded(Started(r))
=============================================================================
