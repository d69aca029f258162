------------------------------- MODULE ConnLog -------------------------------
(***************************************************************************)
(* The log file of the connection monitor: append and Recent in            *)
(* agent/accesslog.go. Before it appends a line, append renames a file     *)
(* that has grown too large to connections.jsonl.1, over the one already   *)
(* there. HTTP handlers read the last lines for the console, with no lock  *)
(* between the two. Nor is there one between two agents that append: the   *)
(* service and one in the foreground (see RdpMonitor).                     *)
(*                                                                         *)
(* A file is a sequence of lines. A write that is cut short leaves a line  *)
(* without a newline, and the next append continues that line. Sizes are   *)
(* counted in lines. Renaming a file that is open fails on Windows, where  *)
(* the agent runs, be it a Recent or the other agent that has it open;     *)
(* append ignores that. Events are numbered in the order in which their    *)
(* writes end.                                                             *)
(***************************************************************************)
EXTENDS Naturals, Sequences, FiniteSets, SequencesExt

CONSTANTS
    Writer,        \* the agents that append
    MaxLines,      \* maxConnLogBytes, in lines
    Asked,         \* the arguments Recent is called with
    DefaultLimit,  \* 80
    MaxLimit,      \* 500
    MaxEvents,     \* bound: events handed to append
    MaxFaults      \* bound: events whose write is cut short or fails

ASSUME WriterAssumption == IsFiniteSet(Writer)
ASSUME SizeAssumption == MaxLines \in Nat \ {0}
ASSUME LimitAssumption == DefaultLimit \in 1..MaxLimit /\ MaxLimit \in Nat
ASSUME AskedAssumption == Asked \subseteq Nat
ASSUME BoundAssumption == {MaxEvents, MaxFaults} \subseteq Nat

VARIABLES
    cur,      \* connections.jsonl; empty when missing
    old,      \* connections.jsonl.1
    event,    \* the events that append is through with: 1, 2, ...
    wpc,      \* where each agent's append is
    limit,    \* Recent's limit, and 0 while no Recent is running
    next,     \* the next line Recent will read
    lines,    \* the lines Recent holds
    result,   \* what the last Recent returned
    lost,     \* auxiliary: events that append could not write at all
    torn,     \* auxiliary: events whose write was cut short
    refused,  \* auxiliary: renames refused since the last that succeeded
    wiped     \* auxiliary: the newest event lost to a rename made too soon

vars == <<cur, old, event, wpc, limit, next, lines, result, lost, torn,
          refused, wiped>>
files == <<cur, old>>
reader == <<limit, next, lines, result>>
outcome == <<lost, torn>>
renames == <<refused, wiped>>

\* "good" is a line with the event in it, "bad" one that is no JSON, and
\* "torn" one that is no JSON and has no newline yet.
Lines == [text : {"good", "bad", "torn"}, event : 1..MaxEvents]

Init ==
    /\ cur = <<>>
    /\ old = <<>>
    /\ event = 0
    /\ wpc = [w \in Writer |-> "ready"]
    /\ limit = 0
    /\ next = 1
    /\ lines = <<>>
    /\ result = <<>>
    /\ lost = {}
    /\ torn = {}
    /\ refused = 0
    /\ wiped = 0

(***************************************************************************)
(* append                                                                  *)
(***************************************************************************)
Held == limit # 0
Goes(w, place) == wpc' = [wpc EXCEPT ![w] = place]
AtWork == {w \in Writer : wpc[w] # "ready"}

\* Variants: every append rotates, and the bound is off by one.
TooLargeAlways == Len(cur) > 0
TooLargeLate == Len(cur) > MaxLines + 1

TooLarge == Len(cur) > MaxLines

\* append looks at the size of the file.
Check(w) ==
    /\ wpc[w] = "ready"
    /\ event + Cardinality(AtWork) < MaxEvents
    /\ Goes(w, IF TooLarge THEN "rename" ELSE "write")
    /\ UNCHANGED <<files, event, reader, outcome, renames>>

\* When the other agent has renamed the file since, this one renames the file
\* that has been started anew.
Rotate(w) ==
    /\ wpc[w] = "rename"
    /\ cur # <<>>
    /\ ~Held
    /\ old' = cur
    /\ cur' = <<>>
    /\ refused' = 0
    /\ wiped' = IF ~TooLarge /\ old # <<>> THEN Last(old).event ELSE wiped
    /\ Goes(w, "write")
    /\ UNCHANGED <<event, reader, outcome>>

\* Recent reads the file, or the other agent has it open just now.
RotateRefused(w) ==
    /\ wpc[w] = "rename"
    /\ cur # <<>>
    /\ Held \/ \E v \in Writer \ {w} : wpc[v] = "write"
    /\ refused' = refused + 1
    /\ Goes(w, "write")
    /\ UNCHANGED <<files, event, reader, outcome, wiped>>

RotateMissing(w) ==
    /\ wpc[w] = "rename"
    /\ cur = <<>>
    /\ Goes(w, "write")
    /\ UNCHANGED <<files, event, reader, outcome, renames>>

\* The file with text written at its end. A line without a newline takes up
\* what is written next, and neither can be read any more.
Unfinished(f) == f # <<>> /\ Last(f).text = "torn"
WithLine(f, e) ==
    IF Unfinished(f) THEN Front(f) \o <<[text |-> "bad", event |-> e]>>
                     ELSE Append(f, [text |-> "good", event |-> e])
WithPart(f, e) ==
    IF Unfinished(f) THEN Front(f) \o <<[text |-> "torn", event |-> e]>>
                     ELSE Append(f, [text |-> "torn", event |-> e])

WriteLine(w) ==
    /\ wpc[w] = "write"
    /\ event' = event + 1
    /\ cur' = WithLine(cur, event')
    /\ Goes(w, "ready")
    /\ UNCHANGED <<old, reader, outcome, renames>>

\* The disk is full, or the agent is stopped during the write.
WritePart(w) ==
    /\ wpc[w] = "write"
    /\ Cardinality(torn \cup lost) < MaxFaults
    /\ event' = event + 1
    /\ torn' = torn \cup {event'}
    /\ cur' = WithPart(cur, event')
    /\ Goes(w, "ready")
    /\ UNCHANGED <<old, reader, lost, renames>>

\* The file cannot be opened, or the agent is stopped before the write.
WriteNothing(w) ==
    /\ wpc[w] \in {"rename", "write"}
    /\ Cardinality(torn \cup lost) < MaxFaults
    /\ event' = event + 1
    /\ lost' = lost \cup {event'}
    /\ Goes(w, "ready")
    /\ UNCHANGED <<files, reader, torn, renames>>

(***************************************************************************)
(* Recent                                                                  *)
(***************************************************************************)
Clamp(n) == IF n <= 0 \/ n > MaxLimit THEN DefaultLimit ELSE n

LastLines(s, n) == IF Len(s) > n THEN SubSeq(s, Len(s) - n + 1, Len(s)) ELSE s

\* Variant: trimming to one line too few.
OneShort(s) == IF Len(s) > limit * 4 THEN LastLines(s, limit - 1) ELSE s

\* While it reads, Recent holds at most four times what it was asked for.
Trimmed(s) == IF Len(s) > limit * 4 THEN LastLines(s, limit) ELSE s

\* The lines from the newest back, without those that are no JSON.
Newest(s, i) == s[Len(s) + 1 - i]
Taken(out, x) == IF x.text = "good" THEN Append(out, x) ELSE out
NewestLines(s) ==
    LET out[i \in 0..Len(s)] ==
            IF i = 0 THEN <<>> ELSE Taken(out[i - 1], Newest(s, i))
    IN out[Len(s)]

Returned(s) == NewestLines(LastLines(s, limit))

RecentMissing ==
    /\ ~Held
    /\ cur = <<>>
    /\ result' = <<>>
    /\ UNCHANGED <<files, event, wpc, limit, next, lines, outcome, renames>>

RecentOpen(n) ==
    /\ ~Held
    /\ cur # <<>>
    /\ limit' = Clamp(n)
    /\ next' = 1
    /\ lines' = <<>>
    /\ UNCHANGED <<files, event, wpc, result, outcome, renames>>

RecentScan ==
    /\ Held
    /\ next <= Len(cur)
    /\ lines' = Trimmed(Append(lines, cur[next]))
    /\ next' = next + 1
    /\ UNCHANGED <<files, event, wpc, limit, result, outcome, renames>>

RecentDone ==
    /\ Held
    /\ next > Len(cur)
    /\ result' = Returned(lines)
    /\ limit' = 0
    /\ next' = 1
    /\ lines' = <<>>
    /\ UNCHANGED <<files, event, wpc, outcome, renames>>

\* A line beyond 1 MiB, or a file that cannot be read: the error is returned
\* and not a line. A file that cannot even be opened changes nothing.
RecentFails ==
    /\ Held
    /\ next <= Len(cur)
    /\ limit' = 0
    /\ next' = 1
    /\ lines' = <<>>
    /\ UNCHANGED <<files, event, wpc, result, outcome, renames>>

AppendStep(w) ==
    \/ Check(w)
    \/ Rotate(w) \/ RotateRefused(w) \/ RotateMissing(w)
    \/ WriteLine(w) \/ WritePart(w) \/ WriteNothing(w)

Reader ==
    \/ RecentMissing
    \/ \E n \in Asked : RecentOpen(n)
    \/ RecentScan
    \/ RecentDone
    \/ RecentFails

Next == Reader \/ \E w \in Writer : AppendStep(w)

Spec == Init /\ [][Next]_vars

(***************************************************************************)
(* Properties                                                              *)
(***************************************************************************)
\* Every variable keeps its type; Recent never holds a limit beyond MaxLimit.
TypeOK ==
    /\ cur \in Seq(Lines)
    /\ old \in Seq(Lines)
    /\ event \in 0..MaxEvents
    /\ wpc \in [Writer -> {"ready", "rename", "write"}]
    /\ limit \in 0..MaxLimit
    /\ next \in 1..(Len(cur) + 1)
    /\ lines \in Seq(Lines)
    /\ result \in Seq(Lines)
    /\ lost \subseteq 1..event
    /\ torn \subseteq 1..event
    /\ refused \in 0..MaxEvents
    /\ wiped \in 0..event

Readable(e) ==
    \E i \in 1..Len(old \o cur) :
        (old \o cur)[i] = [text |-> "good", event |-> e]

\* A write cut short spoils its own event and the next one written.
Spoiled(e) ==
    \/ e \in torn
    \/ \E d \in torn : d < e /\ (d + 1)..(e - 1) \subseteq lost

\* Rotation never discards a line before more than MaxLines newer events have
\* been appended, although it overwrites the previous file at once, and a
\* write cut short costs no more than its event and the next: whatever else
\* was written can be read from one of the two files. With two agents there is
\* one exception: the file that one has just set aside is lost when the other
\* had found the file too large as well and renames it after that.
RecentEventsKept ==
    \A e \in (1..event) \ lost :
        \/ Spoiled(e)
        \/ Readable(e)
        \/ Cardinality(((e + 1)..event) \ lost) > MaxLines
        \/ e <= wiped

\* The file grows past its limit by one line per agent, but for the appends
\* whose rotation was refused because the file was open elsewhere.
SizeBounded == Len(cur) <= MaxLines + Cardinality(Writer) + refused

NewestFirst(s) == \A i, j \in DOMAIN s : i < j => s[i].event > s[j].event

\* What Recent returns, unless it fails, is what it would find in the whole
\* file at the moment it reaches the end, although it held only a few lines at
\* a time while the file grew under it; so the console never shows an event
\* twice, or an older one above a newer one.
RecentIsTail ==
    [][Held /\ ~Held' =>
          RecentFails \/ (result' = Returned(cur) /\ NewestFirst(result'))]_vars
=============================================================================
