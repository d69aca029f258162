---------------------------- MODULE AccessMonitor ----------------------------
(***************************************************************************)
(* The poll loop of the connection monitor (Run, poll, saveCursor and      *)
(* Status in agent/accesslog.go): one goroutine asks three sources in      *)
(* turn, each by a child process that may fail or never return, applies    *)
(* what it found, publishes the failures of the poll and saves one cursor  *)
(* for all of them. HTTP handlers read the published error under the       *)
(* mutex that also guards the cursor.                                      *)
(*                                                                         *)
(* What a source returns is cut down to items 1, 2, ...: GuacMonitor,      *)
(* CfMonitor and RdpMonitor say what an item is. Here it matters when each *)
(* source takes the mutex, and when it moves its cursor: Guacamole after   *)
(* each append and holding the mutex in between, cloudflared before each   *)
(* append, RDP once at the end.                                            *)
(***************************************************************************)
EXTENDS Naturals, Sequences, FiniteSets, FiniteSetsExt

CONSTANTS
    Handler,   \* concurrent requests for the status
    Reliable,  \* the sources whose calls keep succeeding (CallsReturn)
    MaxItems   \* bound: items of each source, [Sources -> Nat]

Turns == <<"guacamole", "cloudflared", "rdp">>
Sources == {"guacamole", "cloudflared", "rdp"}

ASSUME ReliableAssumption == Reliable \subseteq Sources
ASSUME ItemsAssumption == MaxItems \in [Sources -> Nat]

VARIABLES
    available,  \* how many items each source has
    pc,         \* where the monitor goroutine is
    turn,       \* the source it is at
    todo,       \* items found and not yet handled
    mark,       \* the last item of this source handed to append
    errs,       \* poll's local errors: sources that failed in this poll
    mu,         \* the mutex: "free", or held by the "monitor" over several steps
    err,        \* m.err: the sources Status reports as failing
    cursor,     \* m.cursor
    disk,       \* the cursor that loadCursor would return
    handed,     \* items handed to append, by any run of the agent
    failed,     \* auxiliary: sources whose latest call in this run failed
    hpc         \* where each status request is

vars == <<available, pc, turn, todo, mark, errs, mu, err, cursor, disk, handed,
          failed, hpc>>
results == <<err, failed, errs>>
batch == <<todo, mark>>

Zero == [s \in Sources |-> 0]
NotAsked == [h \in Handler |-> "idle"]
Source == Turns[turn]

Init ==
    /\ available = Zero
    /\ pc = "down"
    /\ turn = 1
    /\ todo = {}
    /\ mark = 0
    /\ errs = {}
    /\ mu = "free"
    /\ err = {}
    /\ cursor = Zero
    /\ disk = Zero
    /\ handed = {}
    /\ failed = {}
    /\ hpc = NotAsked

Happen(s) ==
    /\ available[s] < MaxItems[s]
    /\ available' = [available EXCEPT ![s] = @ + 1]
    /\ UNCHANGED <<pc, turn, batch, mu, results, cursor, disk, handed, hpc>>

(***************************************************************************)
(* poll                                                                    *)
(***************************************************************************)
\* Variant: the errors of earlier polls are kept.
NeverCleared == errs

Cleared == {}

\* m.last is set under the mutex; its value is not modelled.
Begin ==
    /\ pc = "begin"
    /\ mu = "free"
    /\ turn' = 1
    /\ errs' = Cleared
    /\ pc' = "call"
    /\ UNCHANGED <<available, batch, mu, err, failed, cursor, disk, handed, hpc>>

NextSource ==
    \/ turn < Len(Turns) /\ turn' = turn + 1 /\ pc' = "call"
    \/ turn = Len(Turns) /\ pc' = "report" /\ UNCHANGED turn

\* Variant: the first error ends the poll.
GiveUp == pc' = "report" /\ UNCHANGED turn

AfterFailure == NextSource

\* pollRDP appends the newest of what it finds and passes the others.
Found(s) ==
    IF s = "rdp" /\ available[s] > cursor[s] THEN {available[s]}
    ELSE (cursor[s] + 1)..available[s]

CallSucceeds ==
    /\ pc = "call"
    /\ todo' = Found(Source)
    /\ mark' = cursor[Source]
    /\ failed' = failed \ {Source}
    /\ pc' = "enter"
    /\ UNCHANGED <<available, turn, mu, err, errs, cursor, disk, handed, hpc>>

\* No tunnel container, or no access to the Security log: no error, no items.
CallEmpty ==
    /\ pc = "call"
    /\ Source \in {"cloudflared", "rdp"}
    /\ failed' = failed \ {Source}
    /\ NextSource
    /\ UNCHANGED <<available, batch, mu, err, errs, cursor, disk, handed, hpc>>

CallFails ==
    /\ pc = "call"
    /\ failed' = failed \cup {Source}
    /\ errs' = errs \cup {Source}
    /\ AfterFailure
    /\ UNCHANGED <<available, batch, mu, err, cursor, disk, handed, hpc>>

\* applyGuacConnections locks until it returns; pollCloudflared only prunes,
\* and pollRDP only reads its mark, under the mutex.
Enter ==
    /\ pc = "enter"
    /\ mu = "free"
    /\ mu' = IF Source = "guacamole" THEN "monitor" ELSE "free"
    /\ pc' = "apply"
    /\ UNCHANGED <<available, turn, batch, results, cursor, disk, handed, hpc>>

Item == Min(todo)

\* On the way to append: appendLocked releases the mutex, pollCloudflared
\* marks the line as seen, pollRDP does nothing.
TakeItem ==
    /\ pc = "apply"
    /\ todo # {}
    /\ Source = "cloudflared" => mu = "free"
    /\ mu' = IF Source = "guacamole" THEN "free" ELSE mu
    /\ cursor' = IF Source = "cloudflared" THEN [cursor EXCEPT ![Source] = Item]
                                           ELSE cursor
    /\ pc' = "append"
    /\ UNCHANGED <<available, turn, batch, results, disk, handed, hpc>>

AppendItem ==
    /\ pc = "append"
    /\ handed' = handed \cup {<<Source, Item>>}
    /\ pc' = "appended"
    /\ UNCHANGED <<available, turn, batch, mu, results, cursor, disk, hpc>>

ItemDone ==
    /\ pc = "appended"
    /\ Source = "guacamole" => mu = "free"
    /\ mu' = IF Source = "guacamole" THEN "monitor" ELSE mu
    /\ cursor' = IF Source = "guacamole" THEN [cursor EXCEPT ![Source] = Item]
                                         ELSE cursor
    /\ mark' = Item
    /\ todo' = todo \ {Item}
    /\ pc' = "apply"
    /\ UNCHANGED <<available, turn, results, disk, handed, hpc>>

\* Variant: the mark of what exists by now.
MarkOfNewest == available["rdp"]

RDPMark == mark

\* Variant: a path without the unlock.
StillLocked == "monitor"

Unlocked == "free"

Leave ==
    /\ pc = "apply"
    /\ todo = {}
    /\ Source = "rdp" => mu = "free"
    /\ mu' = IF Source = "guacamole" THEN Unlocked ELSE mu
    /\ cursor' = IF Source = "rdp" THEN [cursor EXCEPT !["rdp"] = RDPMark] ELSE cursor
    /\ mark' = 0
    /\ NextSource
    /\ UNCHANGED <<available, todo, results, disk, handed, hpc>>

Report ==
    /\ pc = "report"
    /\ mu = "free"
    /\ err' = errs
    /\ pc' = "save"
    /\ UNCHANGED <<available, turn, batch, mu, errs, failed, cursor, disk,
                   handed, hpc>>

SaveTruncate ==
    /\ pc = "save"
    /\ mu = "free"
    /\ disk' = Zero
    /\ pc' = "write"
    /\ UNCHANGED <<available, turn, batch, mu, results, cursor, handed, hpc>>

SaveWrite ==
    /\ pc = "write"
    /\ disk' = cursor
    /\ pc' = "idle"
    /\ UNCHANGED <<available, turn, batch, mu, results, cursor, handed, hpc>>

SaveFails ==
    /\ pc \in {"save", "write"}
    /\ pc = "save" => mu = "free"
    /\ pc' = "idle"
    /\ UNCHANGED <<available, turn, batch, mu, results, cursor, disk, handed, hpc>>

Tick ==
    /\ pc = "idle"
    /\ pc' = "begin"
    /\ UNCHANGED <<available, turn, batch, mu, results, cursor, disk, handed, hpc>>

(***************************************************************************)
(* Status                                                                  *)
(***************************************************************************)
AskStatus(h) ==
    /\ pc # "down"
    /\ hpc[h] = "idle"
    /\ hpc' = [hpc EXCEPT ![h] = "wait"]
    /\ UNCHANGED <<available, pc, turn, batch, mu, results, cursor, disk, handed>>

\* Status holds the mutex for reading what is in memory.
AnswerStatus(h) ==
    /\ hpc[h] = "wait"
    /\ mu = "free"
    /\ hpc' = [hpc EXCEPT ![h] = "idle"]
    /\ UNCHANGED <<available, pc, turn, batch, mu, results, cursor, disk, handed>>

(***************************************************************************)
(* Stopping and starting                                                   *)
(***************************************************************************)
Crash ==
    /\ pc # "down"
    /\ pc' = "down"
    /\ turn' = 1
    /\ todo' = {}
    /\ mark' = 0
    /\ errs' = {}
    /\ mu' = "free"
    /\ err' = {}
    /\ failed' = {}
    /\ cursor' = Zero
    /\ hpc' = NotAsked
    /\ UNCHANGED <<available, disk, handed>>

\* Variant: the cursor file is not read.
LoadedZero == Zero

Loaded == disk

\* newAccessMonitor, and Run up to its first poll.
Boot ==
    /\ pc = "down"
    /\ cursor' = Loaded
    /\ pc' = "begin"
    /\ UNCHANGED <<available, turn, batch, mu, results, disk, handed, hpc>>

Own ==
    \/ Begin
    \/ Enter \/ TakeItem \/ AppendItem \/ ItemDone \/ Leave
    \/ Report \/ SaveTruncate \/ SaveWrite \/ SaveFails
    \/ Tick \/ Boot

Return == CallSucceeds \/ CallEmpty \/ CallFails

Next ==
    \/ \E s \in Sources : Happen(s)
    \/ Own
    \/ Return
    \/ \E h \in Handler : AskStatus(h) \/ AnswerStatus(h)
    \/ Crash

Spec == Init /\ [][Next]_vars

\* Goroutines run on, and the mutex is handed to whoever waits long enough
\* (sync.Mutex is fair to a waiter after a millisecond): so a request that waits
\* for it gets it if it is free again and again. Nothing is assumed of child
\* processes: any call may be the last.
HangSpec ==
    /\ Spec
    /\ WF_vars(Own)
    /\ \A h \in Handler : SF_vars(AnswerStatus(h))

\* Every call returns, and those of the reliable sources succeed again and
\* again; the others may fail every time.
CallsReturn ==
    /\ WF_vars(Return)
    /\ \A s \in Reliable : SF_vars(CallSucceeds /\ Source = s)

(***************************************************************************)
(* Properties                                                              *)
(***************************************************************************)
\* Every variable keeps its type; no cursor is ahead of its source.
TypeOK ==
    /\ available \in [Sources -> Nat]
    /\ \A s \in Sources : available[s] <= MaxItems[s]
    /\ pc \in {"down", "begin", "call", "enter", "apply", "append", "appended",
               "report", "save", "write", "idle"}
    /\ turn \in 1..Len(Turns)
    /\ todo \subseteq 1..available[Source]
    /\ mark \in 0..available[Source]
    /\ {errs, err, failed} \subseteq SUBSET Sources
    /\ mu \in {"free", "monitor"}
    /\ \A c \in {cursor, disk} :
           DOMAIN c = Sources /\ \A s \in Sources : c[s] \in 0..available[s]
    /\ \A i \in handed : i[1] \in Sources /\ i[2] \in 1..available[i[1]]
    /\ hpc \in [Handler -> {"idle", "wait"}]

\* Status tells of each source how its latest call went, except of those that
\* have been called again in a poll that is still under way; an error does not
\* outlive the poll that succeeds, nor hide behind another source's success.
CalledAgain ==
    IF pc \in {"call", "enter", "apply", "append", "appended", "report"}
    THEN {Turns[i] : i \in 1..turn} ELSE {}
ErrorIsLastOutcome ==
    \A s \in Sources \ CalledAgain : s \in err <=> s \in failed

\* A run of the agent appends nothing that the cursor file it could be
\* restarted from already counts as reported.
SavedNotRepeated == pc = "append" => Item > disk[Source]

\* What a saved cursor points at was handed to append, by this run or by an
\* earlier one, although the three sources move their cursors before, after
\* and apart from the append, and the agent may stop anywhere in between.
SavedWasHanded ==
    \A s \in Sources : disk[s] # 0 => <<s, disk[s]>> \in handed

\* Status is answered even if the child process that the monitor waits for
\* never returns: the mutex is not held over a call or a write. (/api/status
\* waits for a compose command of its own besides: see ControlPlane.)
StatusAnswered ==
    \A h \in Handler : hpc[h] = "wait" ~> hpc[h] # "wait"

\* If calls return, a source whose calls keep succeeding has its items reported,
\* or passed in favour of newer ones by pollRDP, although the others fail at
\* every poll, unless the agent is stopped first.
ReliableReports ==
    CallsReturn => \A s \in Reliable : \A k \in 1..MaxItems[s] :
        available[s] >= k
            ~> \/ pc = "down"
               \/ <<s, k>> \in handed
               \/ s = "rdp" /\ available[s] > k
=============================================================================
