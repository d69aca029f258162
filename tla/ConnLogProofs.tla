---------------------------- MODULE ConnLogProofs ----------------------------
(***************************************************************************)
(* Theorems about ConnLog, for any number of agents that append, every     *)
(* size at which the log rotates and every number of faults.               *)
(***************************************************************************)
EXTENDS ConnLog, FiniteSetTheorems, WellFoundedInduction, TLAPS

(***************************************************************************)
(* The invariants                                                          *)
(***************************************************************************)
Writing == {w \in Writer : wpc[w] = "write"}

\* The part of TypeOK that append touches.
Typed ==
    /\ cur \in Seq(Lines)
    /\ old \in Seq(Lines)
    /\ event \in 0..MaxEvents
    /\ wpc \in [Writer -> {"ready", "rename", "write"}]
    /\ refused \in Nat

\* Every agent that is past its look at the size has one line at most to add.
SizeInv ==
    /\ Typed
    /\ event + Cardinality(AtWork) <= MaxEvents
    /\ Len(cur) + Cardinality(Writing) <= MaxLines + Cardinality(Writer) + refused

\* The events of a file's lines, in order.
Ascending(f) ==
    \A i, j \in 1..Len(f) : i < j => f[i].event < f[j].event

\* The lines of both files, one after the other, are in the order in which they
\* were written. None is of an event that could not be written or that is older
\* than what a rename made too soon has cost. A line without a newline is the
\* newest.
OrderInv ==
    /\ Ascending(old) /\ Ascending(cur)
    /\ \A i \in 1..Len(old), j \in 1..Len(cur) : old[i].event < cur[j].event
    /\ \A f \in {old, cur} : \A i \in 1..Len(f) :
          f[i].event \in ((wiped + 1)..event) \ lost
    /\ Unfinished(cur) => /\ Last(cur).event \in torn
                          /\ (Last(cur).event + 1)..event \subseteq lost
    /\ lost \subseteq 1..event /\ torn \subseteq 1..event
    /\ wiped \in 0..event

(***************************************************************************)
(* Files as sequences                                                      *)
(***************************************************************************)
\* A file after a write: the line is put at its end, or takes the place of one
\* that has no newline.
Put(f, x) == IF Unfinished(f) THEN Front(f) \o <<x>> ELSE Append(f, x)

\* Where an event is written, WithLine and WithPart put one line.
LEMMA WithIsPut ==
    ASSUME NEW f, NEW e
    PROVE  /\ WithLine(f, e) =
                Put(f, [text |-> IF Unfinished(f) THEN "bad" ELSE "good",
                        event |-> e])
           /\ WithPart(f, e) = Put(f, [text |-> "torn", event |-> e])
BY DEF WithLine, WithPart, Put

\* The file g is f with x at its end, at most one line longer, and every line
\* before x is left alone.
Added(f, x, g) ==
    /\ g \in Seq(Lines)
    /\ Len(g) = IF Unfinished(f) THEN Len(f) ELSE Len(f) + 1
    /\ Len(g) \in Nat \ {0} /\ Len(g) - 1 <= Len(f)
    /\ g[Len(g)] = x
    /\ \A i \in 1..(Len(g) - 1) : g[i] = f[i]

\* Putting a line adds it at the end.
LEMMA PutFacts ==
    ASSUME NEW f \in Seq(Lines), NEW x \in Lines
    PROVE  Added(f, x, Put(f, x))
<1> SUFFICES ASSUME NEW g, g = Put(f, x) PROVE Added(f, x, g)
  OBVIOUS
<1>1. CASE Unfinished(f)
  <2>1. Len(f) \in Nat \ {0}
    BY <1>1 DEF Unfinished
  <2>2. /\ Front(f) \in Seq(Lines) /\ Len(Front(f)) = Len(f) - 1
        /\ \A i \in 1..(Len(f) - 1) : Front(f)[i] = f[i]
    <3> DEFINE n == Len(f) - 1
    <3>1. n \in Nat /\ n <= Len(f)
      BY <2>1
    <3>2. SubSeq(f, 1, n) \in Seq(Lines) /\ Len(SubSeq(f, 1, n)) = n
      <4> HIDE DEF n
      <4> QED
        BY <3>1
    <3>3. \A i \in 1..n : SubSeq(f, 1, n)[i] = f[i]
      <4> HIDE DEF n
      <4> QED
        BY <3>1
    <3> QED
      BY <3>2, <3>3 DEF Front
  <2>3. g = Append(Front(f), x)
    BY <1>1, <2>2 DEF Put
  <2> DEFINE h == Front(f)
  <2> HIDE DEF h
  <2>4. Len(g) = Len(f)
    BY <2>1, <2>2, <2>3 DEF h
  <2>5. \A i \in 1..(Len(g) - 1) : g[i] = f[i]
    <3>1. h \in Seq(Lines) /\ Len(h) = Len(f) - 1 /\ g = Append(h, x)
      BY <2>2, <2>3 DEF h
    <3>2. \A i \in 1..Len(h) : g[i] = h[i]
      BY <3>1
    <3> QED
      BY <2>1, <2>2, <2>4, <3>1, <3>2 DEF h
  <2>6. g \in Seq(Lines) /\ g[Len(g)] = x
    BY <2>1, <2>2, <2>3, <2>4 DEF h
  <2> QED
    BY <1>1, <2>1, <2>4, <2>5, <2>6 DEF Added
<1>2. CASE ~Unfinished(f)
  <2>1. g = Append(f, x)
    BY <1>2 DEF Put
  <2> QED
    BY <1>2, <2>1 DEF Added
<1> QED
  BY <1>1, <1>2

\* The last line of a file.
LEMMA LastFacts ==
    ASSUME NEW f \in Seq(Lines), f # <<>>
    PROVE  Last(f) = f[Len(f)] /\ Len(f) \in 1..Len(f)
BY DEF Last

(***************************************************************************)
(* The size of the file                                                    *)
(***************************************************************************)
\* Sets of agents are finite, and one step of one agent changes them by one.
LEMMA WriterSets ==
    /\ IsFiniteSet(AtWork) /\ IsFiniteSet(Writing)
    /\ Cardinality(AtWork) \in Nat /\ Cardinality(Writing) \in Nat
    /\ Cardinality(Writer) \in Nat /\ Cardinality(Writing) <= Cardinality(Writer)
BY WriterAssumption, FS_Subset, FS_CardinalityType DEF AtWork, Writing

\* An agent that starts, decides or ends its append enters or leaves the sets.
LEMMA WriterStep ==
    ASSUME Typed, NEW w \in Writer, NEW place \in {"ready", "rename", "write"},
           Goes(w, place)
    PROVE  /\ wpc' \in [Writer -> {"ready", "rename", "write"}]
           /\ Cardinality(AtWork') =
                CASE place # "ready" /\ wpc[w] = "ready" -> Cardinality(AtWork) + 1
                  [] place = "ready" /\ wpc[w] # "ready" -> Cardinality(AtWork) - 1
                  [] OTHER -> Cardinality(AtWork)
           /\ Cardinality(Writing') =
                CASE place = "write" /\ wpc[w] # "write" -> Cardinality(Writing) + 1
                  [] place # "write" /\ wpc[w] = "write" -> Cardinality(Writing) - 1
                  [] OTHER -> Cardinality(Writing)
           /\ Cardinality(Writing') <= Cardinality(Writer)
<1>1. wpc' = [wpc EXCEPT ![w] = place] /\ w \in DOMAIN wpc
  BY DEF Goes, Typed
<1>2. /\ AtWork' = IF place = "ready" THEN AtWork \ {w} ELSE AtWork \cup {w}
      /\ Writing' = IF place = "write" THEN Writing \cup {w} ELSE Writing \ {w}
  BY <1>1 DEF AtWork, Writing, Typed
<1>3. /\ w \in AtWork <=> wpc[w] # "ready"
      /\ w \in Writing <=> wpc[w] = "write"
  BY DEF AtWork, Writing
<1>4. Writing' \subseteq Writer
  BY DEF Writing
<1>5. Cardinality(Writing') <= Cardinality(Writer)
  BY <1>4, WriterAssumption, FS_Subset
<1>6. ASSUME NEW S, IsFiniteSet(S)
      PROVE  /\ Cardinality(S \cup {w}) =
                   IF w \in S THEN Cardinality(S) ELSE Cardinality(S) + 1
             /\ Cardinality(S \ {w}) =
                   IF w \in S THEN Cardinality(S) - 1 ELSE Cardinality(S)
  <2>1. Cardinality(S \cup {w}) =
          IF w \in S THEN Cardinality(S) ELSE Cardinality(S) + 1
    BY <1>6, FS_AddElement
  <2>2. Cardinality(S \ {w}) =
          IF w \in S THEN Cardinality(S) - 1 ELSE Cardinality(S)
    BY <1>6, FS_RemoveElement
  <2> QED
    BY <2>1, <2>2
<1>7. Cardinality(AtWork) \in Nat /\ Cardinality(Writing) \in Nat
  BY WriterSets
<1> QED
  <2>1. Cardinality(AtWork') =
          IF place = "ready"
            THEN IF w \in AtWork THEN Cardinality(AtWork) - 1 ELSE Cardinality(AtWork)
            ELSE IF w \in AtWork THEN Cardinality(AtWork) ELSE Cardinality(AtWork) + 1
    BY <1>2, <1>6, WriterSets
  <2>2. Cardinality(Writing') =
          IF place = "write"
            THEN IF w \in Writing THEN Cardinality(Writing) ELSE Cardinality(Writing) + 1
            ELSE IF w \in Writing THEN Cardinality(Writing) - 1 ELSE Cardinality(Writing)
    BY <1>2, <1>6, WriterSets
  <2>3. wpc' \in [Writer -> {"ready", "rename", "write"}]
    BY <1>1 DEF Typed
  <2> QED
    BY <1>3, <1>5, <1>7, <2>1, <2>2, <2>3

\* The reader changes neither the files nor where an append is.
LEMMA ReaderKeeps ==
    ASSUME Reader PROVE UNCHANGED <<cur, old, event, wpc, lost, torn, refused, wiped>>
BY DEF Reader, RecentMissing, RecentOpen, RecentScan, RecentDone, RecentFails,
       files, outcome, renames

\* Each write puts one line, and the event it is of is the next.
LEMMA WriteType ==
    ASSUME SizeInv, NEW w \in Writer, wpc[w] # "ready"
    PROVE  /\ event + 1 \in 1..MaxEvents
           /\ \A text \in {"good", "bad", "torn"} :
                 [text |-> text, event |-> event + 1] \in Lines
<1>1. w \in AtWork
  BY DEF AtWork
<1>2. Cardinality(AtWork) # 0
  BY <1>1, WriterSets, FS_EmptySet
<1>3. event + 1 \in 1..MaxEvents
  BY <1>2, WriterSets, BoundAssumption DEF SizeInv, Typed
<1> QED
  BY <1>3 DEF Lines

\* A write that adds to the file puts one line, of the next event.
LEMMA WriteIsPut ==
    ASSUME SizeInv, NEW w \in Writer, WriteLine(w) \/ WritePart(w)
    PROVE  \E x \in Lines :
             /\ x.event = event + 1 /\ cur' = Put(cur, x)
             /\ x.text = "torn" => WritePart(w)
             /\ x.text = "bad" => Unfinished(cur)
             /\ Unfinished(cur) => x.text # "good"
             /\ WriteLine(w) => x.text # "torn"
<1>1. wpc[w] # "ready" /\ event' = event + 1
  BY DEF WriteLine, WritePart
<1>2. CASE WriteLine(w)
  <2> DEFINE x == [text |-> IF Unfinished(cur) THEN "bad" ELSE "good",
                   event |-> event + 1]
  <2>1. x \in Lines
    BY <1>1, WriteType
  <2>2. cur' = Put(cur, x)
    BY <1>1, <1>2, WithIsPut DEF WriteLine
  <2>3. x.event = event + 1 /\ x.text # "torn"
        /\ (x.text = "bad" => Unfinished(cur))
        /\ (Unfinished(cur) => x.text # "good")
    OBVIOUS
  <2> HIDE DEF x
  <2> QED
    BY <2>1, <2>2, <2>3
<1>3. CASE WritePart(w) /\ ~WriteLine(w)
  <2> DEFINE x == [text |-> "torn", event |-> event + 1]
  <2>1. x \in Lines
    BY <1>1, WriteType
  <2>2. cur' = Put(cur, x)
    BY <1>1, <1>3, WithIsPut DEF WritePart
  <2>3. x.event = event + 1 /\ x.text = "torn"
    OBVIOUS
  <2> HIDE DEF x
  <2> QED
    BY <1>3, <2>1, <2>2, <2>3
<1> QED
  BY <1>2, <1>3

\* The bound on the size holds with every look, rename, refusal and write.
LEMMA SizeStep == SizeInv /\ [Next]_vars => SizeInv'
<1> SUFFICES ASSUME SizeInv, [Next]_vars PROVE SizeInv'
  OBVIOUS
<1>1. CASE Reader
  BY <1>1, ReaderKeeps DEF SizeInv, Typed, AtWork, Writing
<1> DEFINE working == Cardinality(AtWork)
<1> DEFINE writing == Cardinality(Writing)
<1> DEFINE writers == Cardinality(Writer)
<1> DEFINE NewTyped == /\ cur' \in Seq(Lines) /\ old' \in Seq(Lines)
                       /\ event' \in 0..MaxEvents /\ refused' \in Nat
                       /\ wpc' \in [Writer -> {"ready", "rename", "write"}]
<1>a. /\ working \in Nat /\ writing \in Nat /\ writers \in Nat
      /\ MaxLines \in Nat /\ MaxEvents \in Nat /\ Len(cur) \in Nat
      /\ cur \in Seq(Lines) /\ old \in Seq(Lines)
      /\ event \in 0..MaxEvents /\ refused \in Nat
      /\ event + working <= MaxEvents
      /\ Len(cur) + writing <= MaxLines + writers + refused
  BY SizeAssumption, BoundAssumption, WriterSets DEF SizeInv, Typed
<1>b. ASSUME NewTyped, event' + working' <= MaxEvents,
             Len(cur') + writing' <= MaxLines + writers + refused'
      PROVE  SizeInv'
  BY <1>b DEF SizeInv, Typed
<1>c. Typed
  BY DEF SizeInv
<1> HIDE DEF working, writing, writers
<1>2. ASSUME NEW w \in Writer, Check(w) PROVE SizeInv'
  <2>1. PICK place \in {"rename", "write"} :
          /\ Goes(w, place) /\ wpc[w] = "ready" /\ event + working < MaxEvents
          /\ place = "write" => Len(cur) <= MaxLines
          /\ UNCHANGED <<cur, old, event, refused>>
    BY <1>2, <1>a DEF Check, TooLarge, files, renames, working
  <2>2. /\ wpc' \in [Writer -> {"ready", "rename", "write"}]
        /\ working' = working + 1 /\ writing' <= writers
        /\ writing' = IF place = "write" THEN writing + 1 ELSE writing
    BY <1>c, <2>1, WriterStep DEF working, writing, writers
  <2> QED
    BY <1>a, <1>b, <2>1, <2>2
<1>3. ASSUME NEW w \in Writer, Rotate(w) PROVE SizeInv'
  <2>1. /\ Goes(w, "write") /\ wpc[w] = "rename" /\ refused' = 0
        /\ cur' = <<>> /\ old' = cur /\ event' = event
    BY <1>3 DEF Rotate
  <2>2. /\ wpc' \in [Writer -> {"ready", "rename", "write"}]
        /\ working' = working /\ writing' = writing + 1
        /\ writing' <= writers
    BY <1>c, <2>1, WriterStep DEF working, writing, writers
  <2> QED
    BY <1>a, <1>b, <2>1, <2>2
<1>4. ASSUME NEW w \in Writer, RotateRefused(w) \/ RotateMissing(w)
      PROVE  SizeInv'
  <2>1. /\ Goes(w, "write") /\ wpc[w] = "rename"
        /\ (refused' = refused + 1) \/ (refused' = refused /\ cur = <<>>)
        /\ UNCHANGED <<cur, old, event>>
    BY <1>4 DEF RotateRefused, RotateMissing, files, renames
  <2>2. /\ wpc' \in [Writer -> {"ready", "rename", "write"}]
        /\ working' = working /\ writing' = writing + 1
        /\ writing' <= writers
    BY <1>c, <2>1, WriterStep DEF working, writing, writers
  <2> QED
    BY <1>a, <1>b, <2>1, <2>2
<1>5. ASSUME NEW w \in Writer, WriteLine(w) \/ WritePart(w) PROVE SizeInv'
  <2>1. cur' \in Seq(Lines) /\ Len(cur') <= Len(cur) + 1
    <3>1. PICK x \in Lines : cur' = Put(cur, x)
      BY <1>5, WriteIsPut
    <3>2. Added(cur, x, cur')
      BY <1>a, <3>1, PutFacts
    <3> QED
      BY <1>a, <3>2 DEF Added
  <2>2. /\ wpc[w] = "write" /\ Goes(w, "ready")
        /\ UNCHANGED <<old, refused>> /\ event' = event + 1
    BY <1>5 DEF WriteLine, WritePart, renames
  <2>3. event + 1 \in 1..MaxEvents
    BY <2>2, WriteType
  <2>4. /\ wpc' \in [Writer -> {"ready", "rename", "write"}]
        /\ working' = working - 1 /\ writing' = writing - 1
    BY <1>c, <2>2, WriterStep DEF working, writing, writers
  <2> QED
    BY <1>a, <1>b, <2>1, <2>2, <2>3, <2>4
<1>6. ASSUME NEW w \in Writer, WriteNothing(w) PROVE SizeInv'
  <2>1. /\ wpc[w] \in {"rename", "write"} /\ Goes(w, "ready")
        /\ UNCHANGED <<cur, old, refused>> /\ event' = event + 1
    BY <1>6 DEF WriteNothing, files, renames
  <2>2. event + 1 \in 1..MaxEvents
    BY <2>1, WriteType
  <2>3. /\ wpc' \in [Writer -> {"ready", "rename", "write"}]
        /\ working' = working - 1 /\ writing' \in {writing, writing - 1}
    BY <1>c, <2>1, WriterStep DEF working, writing, writers
  <2> QED
    BY <1>a, <1>b, <2>1, <2>2, <2>3
<1>7. CASE UNCHANGED vars
  BY <1>7 DEF SizeInv, Typed, vars, AtWork, Writing
<1> QED
  BY <1>1, <1>2, <1>3, <1>4, <1>5, <1>6, <1>7 DEF Next, AppendStep

\* The invariant holds of every behaviour.
LEMMA SizeCorrect == Spec => []SizeInv
<1>1. Init => SizeInv
  <2> SUFFICES ASSUME Init PROVE SizeInv
    OBVIOUS
  <2>1. AtWork = {} /\ Writing = {} /\ Cardinality({}) = 0
    BY FS_EmptySet DEF Init, AtWork, Writing
  <2> QED
    BY <2>1, SizeAssumption, BoundAssumption, WriterSets
       DEF Init, SizeInv, Typed
<1> QED
  BY <1>1, SizeStep, PTL DEF Spec

\* The file passes its limit by one line per agent at most, and by one more for
\* each rotation that was refused since the last that succeeded.
THEOREM SizeStaysBounded == Spec => []SizeBounded
<1>1. SizeInv => SizeBounded
  BY WriterSets, SizeAssumption DEF SizeInv, Typed, SizeBounded
<1> QED
  BY <1>1, SizeCorrect, PTL

(***************************************************************************)
(* The lines of the files                                                  *)
(***************************************************************************)
\* The event can be read in the file.
Good(f, e) == \E i \in 1..Len(f) : f[i] = [text |-> "good", event |-> e]

\* An event can be read if it can be read in one of the two files.
LEMMA ReadableMeans ==
    ASSUME old \in Seq(Lines), cur \in Seq(Lines), NEW e
    PROVE  Readable(e) <=> Good(old, e) \/ Good(cur, e)
<1>1. /\ old \o cur \in Seq(Lines)
      /\ Len(old \o cur) = Len(old) + Len(cur)
      /\ Len(old) \in Nat /\ Len(cur) \in Nat
      /\ \A i \in 1..Len(old) : (old \o cur)[i] = old[i]
      /\ \A i \in 1..Len(cur) : (old \o cur)[Len(old) + i] = cur[i]
  OBVIOUS
<1>2. ASSUME Readable(e) PROVE Good(old, e) \/ Good(cur, e)
  <2>1. PICK i \in 1..Len(old \o cur) :
          (old \o cur)[i] = [text |-> "good", event |-> e]
    BY <1>2 DEF Readable
  <2>2. CASE i <= Len(old)
    BY <1>1, <2>1, <2>2 DEF Good
  <2>3. CASE i > Len(old)
    <3>1. i - Len(old) \in 1..Len(cur) /\ Len(old) + (i - Len(old)) = i
      BY <1>1, <2>1, <2>3
    <3>2. cur[i - Len(old)] = [text |-> "good", event |-> e]
      BY <1>1, <2>1, <3>1
    <3> QED
      BY <3>1, <3>2 DEF Good
  <2> QED
    BY <1>1, <2>1, <2>2, <2>3
<1>3. ASSUME Good(old, e) PROVE Readable(e)
  BY <1>1, <1>3 DEF Good, Readable
<1>4. ASSUME Good(cur, e) PROVE Readable(e)
  <2>1. PICK i \in 1..Len(cur) : cur[i] = [text |-> "good", event |-> e]
    BY <1>4 DEF Good
  <2>2. Len(old) + i \in 1..Len(old \o cur)
    BY <1>1
  <2> QED
    BY <1>1, <2>1, <2>2 DEF Readable
<1> QED
  BY <1>2, <1>3, <1>4

\* No write makes an earlier line unreadable: what takes up another line takes up
\* one that could not be read.
LEMMA AddingKeepsGood ==
    ASSUME NEW f \in Seq(Lines), NEW x, NEW g, Added(f, x, g), NEW e, Good(f, e)
    PROVE  Good(g, e)
<1>0. Len(f) \in Nat
  OBVIOUS
<1>1. /\ Len(g) = IF Unfinished(f) THEN Len(f) ELSE Len(f) + 1
      /\ \A i \in 1..(Len(g) - 1) : g[i] = f[i]
  BY DEF Added
<1>2. PICK i \in 1..Len(f) : f[i] = [text |-> "good", event |-> e]
  BY DEF Good
<1>3. Unfinished(f) => i # Len(f)
  BY <1>2 DEF Unfinished, Last
<1>4. i \in 1..(Len(g) - 1) /\ i \in 1..Len(g)
  BY <1>0, <1>1, <1>2, <1>3
<1> QED
  BY <1>1, <1>2, <1>4 DEF Good

\* A file has as many events as lines, so a full one accounts for as many that
\* were written after any event older than all of its lines.
LEMMA EventsOfFile ==
    ASSUME NEW f \in Seq(Lines), Ascending(f), NEW S, IsFiniteSet(S),
           \A i \in 1..Len(f) : f[i].event \in S /\ f[i].event \in Nat
    PROVE  Len(f) <= Cardinality(S)
<1> DEFINE g == [i \in 1..Len(f) |-> f[i].event]
<1>1. Len(f) \in Nat
  OBVIOUS
<1>2. ASSUME NEW i \in 1..Len(f), NEW j \in 1..Len(f), g[i] = g[j]
      PROVE  i = j
  <2>1. f[i].event = f[j].event /\ f[i].event \in Nat
    BY <1>2
  <2>2. ~(f[i].event < f[j].event) /\ ~(f[j].event < f[i].event)
    BY <2>1
  <2> QED
    BY <1>1, <2>2 DEF Ascending
<1>3. g \in Injection(1..Len(f), S)
  BY <1>2 DEF Injection, IsInjective
<1>4. Cardinality(1..Len(f)) <= Cardinality(S)
  <2> HIDE DEF g
  <2> QED
    BY <1>3, FS_Injection
<1>5. Cardinality(1..Len(f)) = Len(f)
  BY <1>1, FS_Interval
<1> QED
  BY <1>4, <1>5

\* The newer events that were written make a finite set, which only grows.
LEMMA NewerEvents ==
    ASSUME NEW a \in Nat, NEW b \in Nat, NEW c \in Nat, b <= c, NEW S, NEW T,
           T \cap (1..b) \subseteq S
    PROVE  /\ IsFiniteSet(((a + 1)..b) \ S)
           /\ Cardinality(((a + 1)..b) \ S) \in Nat
           /\ Cardinality(((a + 1)..c) \ T) \in Nat
           /\ Cardinality(((a + 1)..b) \ S) <= Cardinality(((a + 1)..c) \ T)
<1>1. IsFiniteSet((a + 1)..c)
  BY FS_Interval
<1>2. IsFiniteSet(((a + 1)..c) \ T)
  BY <1>1, FS_Subset
<1>3. ((a + 1)..b) \ S \subseteq ((a + 1)..c) \ T
  OBVIOUS
<1> QED
  BY <1>2, <1>3, FS_Subset, FS_CardinalityType

(***************************************************************************)
(* The order of the lines                                                  *)
(***************************************************************************)
\* What a write that adds to the file does to everything the invariants speak of.
LEMMA WriteFacts ==
    ASSUME SizeInv, NEW w \in Writer, WriteLine(w) \/ WritePart(w)
    PROVE  \E x \in Lines :
             /\ x.event = event + 1 /\ Added(cur, x, cur') /\ event' = event + 1
             /\ x.text = "torn" => event + 1 \in torn'
             /\ x.text = "bad" => Unfinished(cur)
             /\ torn \subseteq torn' /\ torn' \subseteq torn \cup {event + 1}
             /\ UNCHANGED <<old, lost, wiped>>
<1>1. PICK x \in Lines :
        /\ x.event = event + 1 /\ cur' = Put(cur, x)
        /\ x.text = "torn" => WritePart(w)
        /\ x.text = "bad" => Unfinished(cur)
        /\ WriteLine(w) => x.text # "torn"
  BY WriteIsPut
<1>2. /\ event' = event + 1 /\ UNCHANGED <<old, lost, wiped>>
      /\ torn \subseteq torn' /\ torn' \subseteq torn \cup {event + 1}
      /\ WritePart(w) => event + 1 \in torn'
  BY DEF WriteLine, WritePart, outcome, renames
<1>3. Added(cur, x, cur')
  BY <1>1, PutFacts DEF SizeInv, Typed
<1> QED
  BY <1>1, <1>2, <1>3

\* Order is kept by every step: a write adds the newest event at the end, and a
\* rename sets the whole file aside.
LEMMA OrderStep == SizeInv /\ OrderInv /\ [Next]_vars => OrderInv'
<1> SUFFICES ASSUME SizeInv, OrderInv, [Next]_vars PROVE OrderInv'
  OBVIOUS
<1>0. /\ cur \in Seq(Lines) /\ old \in Seq(Lines)
      /\ event \in Nat /\ wiped \in 0..event
      /\ Len(cur) \in Nat /\ Len(old) \in Nat
  BY DEF SizeInv, Typed, OrderInv
<1>1. ASSUME UNCHANGED <<cur, old, event, lost, torn, wiped>> PROVE OrderInv'
  BY <1>1 DEF OrderInv, Ascending, Unfinished
<1>2. ASSUME NEW w \in Writer, Rotate(w) PROVE OrderInv'
  <2>1. /\ cur' = <<>> /\ old' = cur /\ UNCHANGED <<event, lost, torn>>
        /\ Len(cur') = 0 /\ ~Unfinished(cur')
    BY <1>2 DEF Rotate, outcome, Unfinished
  <2>2. \/ wiped' = wiped
        \/ old # <<>> /\ wiped' = old[Len(old)].event
    BY <1>2, <1>0, LastFacts DEF Rotate
  <2>3. /\ wiped' \in 0..event
        /\ \A i \in 1..Len(cur) : cur[i].event \in ((wiped' + 1)..event) \ lost
    <3>1. CASE wiped' = wiped
      BY <1>0, <3>1 DEF OrderInv
    <3>2. CASE old # <<>> /\ wiped' = old[Len(old)].event
      <4>1. Len(old) \in 1..Len(old)
        BY <1>0, <3>2
      <4>2. \A j \in 1..Len(cur) : /\ old[Len(old)].event < cur[j].event
                                   /\ cur[j].event \in ((wiped + 1)..event) \ lost
        BY <4>1 DEF OrderInv
      <4>3. old[Len(old)].event \in (wiped + 1)..event
        BY <4>1 DEF OrderInv
      <4> QED
        BY <1>0, <3>2, <4>2, <4>3
    <3> QED
      BY <2>2, <3>1, <3>2
  <2> QED
    BY <2>1, <2>3 DEF OrderInv, Ascending
<1>3. ASSUME NEW w \in Writer, WriteLine(w) \/ WritePart(w) PROVE OrderInv'
  <2>1. PICK x \in Lines :
          /\ x.event = event + 1 /\ Added(cur, x, cur') /\ event' = event + 1
          /\ x.text = "torn" => event + 1 \in torn'
          /\ torn \subseteq torn' /\ torn' \subseteq torn \cup {event + 1}
          /\ UNCHANGED <<old, lost, wiped>>
    BY <1>3, WriteFacts
  <2>2. /\ cur' \in Seq(Lines)
        /\ Len(cur') \in Nat \ {0} /\ Len(cur') - 1 <= Len(cur)
        /\ cur'[Len(cur')] = x
        /\ \A i \in 1..(Len(cur') - 1) : cur'[i] = cur[i]
    BY <2>1 DEF Added
  <2>3. /\ \A i \in 1..Len(cur) : cur[i].event \in ((wiped + 1)..event) \ lost
        /\ \A i \in 1..Len(old) : old[i].event \in ((wiped + 1)..event) \ lost
        /\ event + 1 \notin lost
        /\ lost \subseteq 1..event /\ torn \subseteq 1..event
    BY <1>0 DEF OrderInv
  <2>4. \A i \in 1..Len(cur') :
          \/ i \in 1..Len(cur) /\ i # Len(cur') /\ cur'[i] = cur[i]
          \/ i = Len(cur') /\ cur'[i].event = event + 1
    <3> SUFFICES ASSUME NEW i \in 1..Len(cur'), i # Len(cur')
                 PROVE  i \in 1..Len(cur) /\ cur'[i] = cur[i]
      BY <2>1, <2>2
    <3>1. Len(cur) \in Nat
      BY <1>0
    <3>2. i \in 1..(Len(cur') - 1)
      BY <2>2
    <3>3. i \in 1..Len(cur)
      BY <2>2, <3>1, <3>2
    <3> QED
      BY <2>2, <3>2, <3>3
  <2>5. Ascending(cur')
    <3> SUFFICES ASSUME NEW i \in 1..Len(cur'), NEW j \in 1..Len(cur'), i < j
                 PROVE  cur'[i].event < cur'[j].event
      BY DEF Ascending
    <3>1. i \in 1..Len(cur) /\ cur'[i] = cur[i] /\ cur[i].event \in 1..event
      BY <1>0, <2>2, <2>3, <2>4
    <3>2. CASE j \in 1..Len(cur) /\ cur'[j] = cur[j]
      BY <3>1, <3>2 DEF OrderInv, Ascending
    <3>3. CASE cur'[j].event = event + 1
      BY <1>0, <3>1, <3>3
    <3> QED
      BY <2>4, <3>2, <3>3
  <2>6. \A i \in 1..Len(old'), j \in 1..Len(cur') : old'[i].event < cur'[j].event
    <3> SUFFICES ASSUME NEW i \in 1..Len(old), NEW j \in 1..Len(cur')
                 PROVE  old[i].event < cur'[j].event
      BY <2>1
    <3>1. old[i].event \in 1..event
      BY <1>0, <2>3
    <3>2. CASE j \in 1..Len(cur) /\ cur'[j] = cur[j]
      BY <3>2 DEF OrderInv
    <3>3. CASE cur'[j].event = event + 1
      BY <1>0, <3>1, <3>3
    <3> QED
      BY <2>4, <3>2, <3>3
  <2>7. \A f \in {old', cur'} : \A i \in 1..Len(f) :
          f[i].event \in ((wiped' + 1)..event') \ lost'
    <3>1. \A i \in 1..Len(old) : old[i].event \in ((wiped + 1)..(event + 1)) \ lost
      BY <1>0, <2>3
    <3>2. \A i \in 1..Len(cur') :
            cur'[i].event \in ((wiped + 1)..(event + 1)) \ lost
      BY <1>0, <2>3, <2>4
    <3> QED
      BY <2>1, <3>1, <3>2
  <2>8. Unfinished(cur') => /\ Last(cur').event \in torn'
                            /\ (Last(cur').event + 1)..event' \subseteq lost'
    <3>1. Last(cur') = x
      BY <2>2 DEF Last
    <3> QED
      BY <1>0, <2>1, <3>1 DEF Unfinished
  <2>9. lost' \subseteq 1..event' /\ torn' \subseteq 1..event' /\ wiped' \in 0..event'
    BY <1>0, <2>1, <2>3
  <2>10. Ascending(old')
    BY <2>1 DEF OrderInv, Ascending
  <2> QED
    BY <2>5, <2>6, <2>7, <2>8, <2>9, <2>10 DEF OrderInv, Unfinished
<1>4. ASSUME NEW w \in Writer, WriteNothing(w) PROVE OrderInv'
  <2>1. /\ UNCHANGED <<cur, old, torn, wiped>> /\ event' = event + 1
        /\ lost' = lost \cup {event + 1}
    BY <1>4 DEF WriteNothing, files, renames
  <2>2. \A f \in {old, cur} : \A i \in 1..Len(f) :
          f[i].event \in ((wiped + 1)..event') \ lost'
    BY <1>0, <2>1 DEF OrderInv
  <2>3. Unfinished(cur) => /\ Last(cur).event \in torn
                           /\ (Last(cur).event + 1)..event' \subseteq lost'
    <3> SUFFICES ASSUME Unfinished(cur)
                 PROVE  /\ Last(cur).event \in torn
                        /\ (Last(cur).event + 1)..event' \subseteq lost'
      OBVIOUS
    <3>1. /\ Last(cur).event \in torn /\ torn \subseteq 1..event
          /\ (Last(cur).event + 1)..event \subseteq lost
      BY DEF OrderInv
    <3> QED
      BY <1>0, <2>1, <3>1
  <2> QED
    BY <1>0, <2>1, <2>2, <2>3 DEF OrderInv, Ascending, Unfinished
<1>5. CASE Reader
  BY <1>1, <1>5, ReaderKeeps
<1>6. ASSUME NEW w \in Writer, Check(w) \/ RotateRefused(w) \/ RotateMissing(w)
      PROVE  OrderInv'
  BY <1>1, <1>6 DEF Check, RotateRefused, RotateMissing, files, outcome, renames
<1>7. CASE UNCHANGED vars
  BY <1>1, <1>7 DEF vars
<1> QED
  BY <1>2, <1>3, <1>4, <1>5, <1>6, <1>7 DEF Next, AppendStep

\* The order holds of every behaviour.
LEMMA OrderCorrect == Spec => []OrderInv
<1>1. Init => OrderInv
  BY DEF Init, OrderInv, Ascending, Unfinished
<1> QED
  BY <1>1, OrderStep, SizeCorrect, PTL DEF Spec

(***************************************************************************)
(* What is kept                                                            *)
(***************************************************************************)
\* RecentEventsKept, of one event and file by file.
Kept(e) ==
    \/ Spoiled(e)
    \/ Good(old, e) \/ Good(cur, e)
    \/ Cardinality(((e + 1)..event) \ lost) > MaxLines
    \/ e <= wiped

KeptInv == \A e \in (1..event) \ lost : Kept(e)

\* The two say the same.
LEMMA KeptMeans == Typed => (RecentEventsKept <=> KeptInv)
<1> SUFFICES ASSUME Typed PROVE RecentEventsKept <=> KeptInv
  OBVIOUS
<1>1. \A e : Readable(e) <=> Good(old, e) \/ Good(cur, e)
  BY ReadableMeans DEF Typed
<1> QED
  BY <1>1 DEF RecentEventsKept, KeptInv, Kept

\* A write or a failed one takes nothing away from an earlier event.
LEMMA EarlierKept ==
    ASSUME SizeInv, NEW e \in 1..event, Kept(e),
           event' = event + 1, wiped' = wiped, old' = old,
           torn \subseteq torn', lost \subseteq lost', lost' \cap (1..event) \subseteq lost,
           Good(cur, e) => Good(cur', e)
    PROVE  Kept(e)'
<1>1. event \in Nat /\ e \in Nat
  BY DEF SizeInv, Typed
<1>2. CASE Spoiled(e)
  BY <1>2 DEF Kept, Spoiled
<1>3. CASE Good(old, e) \/ Good(cur, e)
  <2>1. Good(old', e) \/ Good(cur', e)
    BY <1>3
  <2> QED
    BY <2>1 DEF Kept, Good
<1>4. CASE Cardinality(((e + 1)..event) \ lost) > MaxLines
  <2> DEFINE before == Cardinality(((e + 1)..event) \ lost)
  <2> DEFINE after == Cardinality(((e + 1)..event') \ lost')
  <2>1. before \in Nat /\ after \in Nat /\ before <= after
    <3>1. event + 1 \in Nat /\ event <= event + 1
      BY <1>1
    <3> QED
      BY <1>1, <3>1, NewerEvents
  <2>2. before > MaxLines
    BY <1>4
  <2>3. after > MaxLines
    <3> HIDE DEF before, after
    <3> QED
      BY <2>1, <2>2, SizeAssumption
  <2> QED
    BY <2>3 DEF Kept
<1>5. CASE e <= wiped
  BY <1>5 DEF Kept
<1> QED
  BY <1>2, <1>3, <1>4, <1>5 DEF Kept

\* A rename discards the old file. When the file was too large, it holds more than
\* MaxLines events newer than any of the old one's; when it was not, the loss is
\* what wiped records.
LEMMA RotateKeeps ==
    ASSUME SizeInv, OrderInv, KeptInv, NEW w \in Writer, Rotate(w)
    PROVE  KeptInv'
<1>1. /\ cur \in Seq(Lines) /\ old \in Seq(Lines) /\ event \in Nat
      /\ wiped \in 0..event /\ Len(cur) \in Nat /\ Len(old) \in Nat
  BY DEF SizeInv, Typed, OrderInv
<1>2. /\ old' = cur /\ UNCHANGED <<event, lost, torn>>
      /\ wiped' = IF ~TooLarge /\ old # <<>> THEN Last(old).event ELSE wiped
  BY DEF Rotate, outcome
<1>3. old # <<>> => /\ Last(old) = old[Len(old)] /\ Len(old) \in 1..Len(old)
                    /\ old[Len(old)].event \in (wiped + 1)..event
  BY <1>1, LastFacts DEF OrderInv
<1>4. wiped' \in Nat /\ wiped <= wiped'
  BY <1>1, <1>2, <1>3
<1> SUFFICES ASSUME NEW e \in (1..event) \ lost PROVE Kept(e)'
  BY <1>2 DEF KeptInv
<1>5. Kept(e)
  BY DEF KeptInv
<1>6. CASE Spoiled(e) \/ Cardinality(((e + 1)..event) \ lost) > MaxLines
  BY <1>2, <1>6 DEF Kept, Spoiled
<1>7. CASE Good(cur, e)
  BY <1>2, <1>7 DEF Kept, Good
<1>8. CASE e <= wiped
  BY <1>1, <1>2, <1>4, <1>8 DEF Kept
<1>9. CASE Good(old, e)
  <2>1. PICK i \in 1..Len(old) : old[i].event = e
    BY <1>9 DEF Good
  <2>2. CASE TooLarge
    <3> DEFINE S == ((e + 1)..event) \ lost
    <3>1. \A j \in 1..Len(cur) : cur[j].event \in S /\ cur[j].event \in Nat
      <4>1. \A j \in 1..Len(cur) : /\ old[i].event < cur[j].event
                                   /\ cur[j].event \in ((wiped + 1)..event) \ lost
        BY <2>1 DEF OrderInv
      <4> QED
        BY <1>1, <2>1, <4>1
    <3>2. IsFiniteSet(S) /\ Cardinality(S) \in Nat
      <4>1. e \in Nat /\ event <= event
        BY <1>1
      <4> QED
        BY <1>1, <4>1, NewerEvents
    <3>3. Len(cur) <= Cardinality(S)
      <4>1. Ascending(cur)
        BY DEF OrderInv
      <4> HIDE DEF S
      <4> QED
        BY <1>1, <3>1, <3>2, <4>1, EventsOfFile
    <3>4. Cardinality(S) > MaxLines
      <4> HIDE DEF S
      <4> QED
        BY <1>1, <2>2, <3>2, <3>3, SizeAssumption DEF TooLarge
    <3> QED
      BY <1>2, <3>4 DEF Kept
  <2>3. CASE ~TooLarge
    <3>1. old # <<>>
      BY <1>1, <2>1
    <3>2. wiped' = old[Len(old)].event
      BY <1>2, <1>3, <2>3, <3>1
    <3>3. e <= wiped'
      <4>1. i = Len(old) \/ old[i].event < old[Len(old)].event
        BY <1>1, <1>3, <2>1, <3>1 DEF OrderInv, Ascending
      <4>2. old[Len(old)].event \in Nat /\ e \in Nat
        BY <1>1, <1>3, <3>1
      <4> QED
        BY <2>1, <3>2, <4>1, <4>2
    <3> QED
      BY <3>3 DEF Kept
  <2> QED
    BY <2>2, <2>3
<1> QED
  BY <1>5, <1>6, <1>7, <1>8, <1>9 DEF Kept

\* A line that is written whole can be read; one that is not, and the one after
\* it, are spoiled.
LEMMA WriteKeeps ==
    ASSUME SizeInv, OrderInv, KeptInv, NEW w \in Writer, WriteLine(w) \/ WritePart(w)
    PROVE  KeptInv'
<1>1. /\ cur \in Seq(Lines) /\ event \in Nat /\ lost \subseteq 1..event
      /\ torn \subseteq 1..event
  BY DEF SizeInv, Typed, OrderInv
<1>2. PICK x \in Lines :
        /\ x.event = event + 1 /\ Added(cur, x, cur') /\ event' = event + 1
        /\ x.text = "torn" => event + 1 \in torn'
        /\ x.text = "bad" => Unfinished(cur)
        /\ torn \subseteq torn' /\ torn' \subseteq torn \cup {event + 1}
        /\ UNCHANGED <<old, lost, wiped>>
  BY WriteFacts
<1> SUFFICES ASSUME NEW e \in (1..(event + 1)) \ lost PROVE Kept(e)'
  BY <1>2 DEF KeptInv
<1>3. CASE e = event + 1
  <2>1. CASE x.text = "good"
    <3>1. x = [text |-> "good", event |-> e]
      BY <1>2, <1>3, <2>1 DEF Lines
    <3>2. Len(cur') \in 1..Len(cur') /\ cur'[Len(cur')] = x
      BY <1>2 DEF Added
    <3> QED
      BY <3>1, <3>2 DEF Kept, Good
  <2>2. CASE x.text = "torn"
    BY <1>2, <1>3, <2>2 DEF Kept, Spoiled
  <2>3. CASE x.text = "bad"
    <3> DEFINE d == Last(cur).event
    <3>1. d \in torn /\ (d + 1)..event \subseteq lost
      BY <1>2, <2>3 DEF OrderInv
    <3>2. d \in torn' /\ d < e /\ (d + 1)..(e - 1) \subseteq lost'
      <4>1. d \in 1..event
        BY <1>1, <3>1
      <4>2. e - 1 = event /\ d < e
        BY <1>1, <1>3, <4>1
      <4> QED
        BY <1>2, <3>1, <4>2
    <3> HIDE DEF d
    <3> QED
      BY <3>2 DEF Kept, Spoiled
  <2> QED
    BY <2>1, <2>2, <2>3 DEF Lines
<1>4. CASE e # event + 1
  <2>1. e \in 1..event /\ Kept(e)
    BY <1>1, <1>4 DEF KeptInv
  <2>2. Good(cur, e) => Good(cur', e)
    BY <1>1, <1>2, AddingKeepsGood
  <2> QED
    BY <1>2, <2>1, <2>2, EarlierKept
<1> QED
  BY <1>3, <1>4

\* Every step keeps what has been written.
LEMMA KeptStep == SizeInv /\ OrderInv /\ KeptInv /\ [Next]_vars => KeptInv'
<1> SUFFICES ASSUME SizeInv, OrderInv, KeptInv, [Next]_vars PROVE KeptInv'
  OBVIOUS
<1>1. ASSUME UNCHANGED <<cur, old, event, lost, torn, wiped>> PROVE KeptInv'
  BY <1>1 DEF KeptInv, Kept, Spoiled, Good
<1>2. ASSUME NEW w \in Writer, Rotate(w) PROVE KeptInv'
  BY <1>2, RotateKeeps
<1>3. ASSUME NEW w \in Writer, WriteLine(w) \/ WritePart(w) PROVE KeptInv'
  BY <1>3, WriteKeeps
<1>4. ASSUME NEW w \in Writer, WriteNothing(w) PROVE KeptInv'
  <2>1. /\ UNCHANGED <<cur, old, torn, wiped>> /\ event' = event + 1
        /\ lost' = lost \cup {event + 1}
    BY <1>4 DEF WriteNothing, files, renames
  <2>2. event \in Nat
    BY DEF SizeInv, Typed
  <2> SUFFICES ASSUME NEW e \in (1..event') \ lost' PROVE Kept(e)'
    BY DEF KeptInv
  <2>3. e \in 1..event /\ Kept(e)
    BY <2>1, <2>2 DEF KeptInv
  <2>4. lost' \cap (1..event) \subseteq lost
    BY <2>1, <2>2
  <2>5. Good(cur, e) => Good(cur', e)
    BY <2>1
  <2> QED
    BY <2>1, <2>3, <2>4, <2>5, EarlierKept
<1>5. CASE Reader
  BY <1>1, <1>5, ReaderKeeps
<1>6. ASSUME NEW w \in Writer, Check(w) \/ RotateRefused(w) \/ RotateMissing(w)
      PROVE  KeptInv'
  BY <1>1, <1>6 DEF Check, RotateRefused, RotateMissing, files, outcome, renames
<1>7. CASE UNCHANGED vars
  BY <1>1, <1>7 DEF vars
<1> QED
  BY <1>2, <1>3, <1>4, <1>5, <1>6, <1>7 DEF Next, AppendStep

\* Rotation discards no event before more than MaxLines newer ones have been
\* written, and a write cut short costs no more than its event and the next, but
\* for what an agent's rename made after another's has cost.
THEOREM RecentStaysKept == Spec => []RecentEventsKept
<1>1. Init => KeptInv
  BY DEF Init, KeptInv
<1>2. Spec => []KeptInv
  BY <1>1, KeptStep, SizeCorrect, OrderCorrect, PTL DEF Spec
<1>3. SizeInv /\ KeptInv => RecentEventsKept
  BY KeptMeans DEF SizeInv
<1> QED
  BY <1>2, <1>3, SizeCorrect, PTL

(***************************************************************************)
(* What Recent returns                                                     *)
(***************************************************************************)
\* A set of numbers that holds 0 and goes on to n holds every number between.
LEMMA Reaches ==
    ASSUME NEW n \in Nat, NEW S, 0 \in S,
           \A i \in 1..n : i - 1 \in S => i \in S
    PROVE  0..n \subseteq S
<1> DEFINE Left == {i \in 0..n : i \notin S}
           Below == {ss \in Nat \X Nat : ss[1] < ss[2]}
<1> SUFFICES ASSUME Left # {} PROVE FALSE
  OBVIOUS
<1>1. IsWellFoundedOn(Below, Nat)
  BY NatLessThanWellFounded, Zenon DEF OpToRel
<1>2. Left \subseteq Nat
  OBVIOUS
<1> HIDE DEF Left, Below
<1>3. PICK i \in Left : \A j \in Left : <<j, i>> \notin Below
  BY <1>1, <1>2, WFMin, Zenon
<1>4. i \in 0..n /\ i \notin S
  BY DEF Left
<1>5. i \in 1..n /\ i - 1 \in 0..n /\ i - 1 \notin S
  BY <1>4
<1>6. i - 1 \in Left
  BY <1>5 DEF Left
<1>7. <<i - 1, i>> \in Below
  BY <1>4, <1>5 DEF Below
<1> QED
  BY <1>3, <1>6, <1>7

\* The events Recent has taken from the last lines of s, up to the nth.
IsOutput(out, s, n) ==
    out = [i \in 0..n |->
              IF i = 0 THEN <<>> ELSE Taken(out[i - 1], Newest(s, i))]

\* There is such an output for every number of lines.
LEMMA OutputExists ==
    ASSUME NEW s, NEW n \in Nat
    PROVE  \E out : IsOutput(out, s, n)
<1> DEFINE S == {m \in 0..n : \E out : IsOutput(out, s, m)}
<1>1. 0 \in S
  <2> DEFINE out == [i \in 0..0 |-> <<>>]
  <2>1. IsOutput(out, s, 0)
    BY DEF IsOutput
  <2> QED
    BY <2>1
<1>2. ASSUME NEW m \in 1..n, m - 1 \in S PROVE m \in S
  <2>1. PICK f : IsOutput(f, s, m - 1)
    BY <1>2
  <2> DEFINE g == [i \in 0..m |->
                      IF i < m THEN f[i] ELSE Taken(f[m - 1], Newest(s, m))]
  <2>2. \A i \in 0..(m - 1) :
           f[i] = IF i = 0 THEN <<>> ELSE Taken(f[i - 1], Newest(s, i))
    BY <2>1 DEF IsOutput
  <2>3. \A i \in 0..m :
           g[i] = IF i = 0 THEN <<>> ELSE Taken(g[i - 1], Newest(s, i))
    <3> TAKE i \in 0..m
    <3>1. CASE i = 0
      <4>1. i \in 0..(m - 1) /\ i < m
        BY <3>1
      <4> QED
        BY <2>2, <3>1, <4>1
    <3>2. CASE i # 0 /\ i < m
      <4>1. i \in 0..(m - 1) /\ i - 1 \in 0..m /\ i - 1 < m
        BY <3>2
      <4> QED
        BY <2>2, <3>2, <4>1
    <3>3. CASE i # 0 /\ ~(i < m)
      <4>1. i = m /\ m - 1 \in 0..m /\ m - 1 < m
        BY <3>3
      <4> QED
        BY <3>3, <4>1
    <3> QED
      BY <3>1, <3>2, <3>3
  <2>4. g = [i \in 0..m |->
                IF i = 0 THEN <<>> ELSE Taken(g[i - 1], Newest(s, i))]
    <3>1. g = [i \in 0..m |-> g[i]]
      OBVIOUS
    <3> HIDE DEF g
    <3> QED
      BY <2>3, <3>1
  <2>5. IsOutput(g, s, m)
    BY <2>4, Zenon DEF IsOutput
  <2> HIDE DEF g
  <2> QED
    BY <2>5
<1> HIDE DEF S
<1>3. 0..n \subseteq S
  BY <1>1, <1>2, Reaches
<1>4. n \in S
  BY <1>3
<1> QED
  BY <1>4 DEF S

\* What is returned of a file: its output, line by line.
LEMMA NewestLinesMeans ==
    ASSUME NEW s, Len(s) \in Nat
    PROVE  \E out : /\ NewestLines(s) = out[Len(s)]
                    /\ out[0] = <<>>
                    /\ \A i \in 1..Len(s) :
                           out[i] = Taken(out[i - 1], Newest(s, i))
<1> DEFINE n == Len(s)
           out == CHOOSE out : IsOutput(out, s, n)
<1>1. IsOutput(out, s, n)
  BY OutputExists
<1>2. NewestLines(s) = out[n]
  BY Zenon DEF NewestLines, IsOutput
<1> HIDE DEF out
<1>3. \A i \in 0..n :
         out[i] = IF i = 0 THEN <<>> ELSE Taken(out[i - 1], Newest(s, i))
  BY <1>1 DEF IsOutput
<1>4. out[0] = <<>>
  BY <1>3
<1>5. \A i \in 1..n : out[i] = Taken(out[i - 1], Newest(s, i))
  BY <1>3
<1> QED
  BY <1>2, <1>4, <1>5

\* Two lines of which Recent makes the same: one event, or nothing.
Same(x, y) == x = y \/ (x.text # "good" /\ y.text # "good")

\* Files whose lines are the same, from the last back, read the same.
LEMMA SameReadSame ==
    ASSUME NEW s, NEW t, Len(s) \in Nat, Len(t) = Len(s),
           \A i \in 1..Len(s) : Same(Newest(s, i), Newest(t, i))
    PROVE  NewestLines(s) = NewestLines(t)
<1> DEFINE n == Len(s)
<1>1. PICK f : /\ NewestLines(s) = f[n] /\ f[0] = <<>>
               /\ \A i \in 1..n : f[i] = Taken(f[i - 1], Newest(s, i))
  BY NewestLinesMeans
<1>2. PICK g : /\ NewestLines(t) = g[n] /\ g[0] = <<>>
               /\ \A i \in 1..n : g[i] = Taken(g[i - 1], Newest(t, i))
  BY NewestLinesMeans
<1> DEFINE S == {i \in 0..n : f[i] = g[i]}
<1>3. 0 \in S
  BY <1>1, <1>2
<1>4. ASSUME NEW i \in 1..n, i - 1 \in S PROVE i \in S
  <2>1. f[i - 1] = g[i - 1] /\ i \in 0..n
    BY <1>4
  <2>2. Same(Newest(s, i), Newest(t, i))
    OBVIOUS
  <2>3. Taken(f[i - 1], Newest(s, i)) = Taken(g[i - 1], Newest(t, i))
    BY <2>1, <2>2 DEF Same, Taken
  <2> QED
    BY <1>1, <1>2, <2>1, <2>3
<1> HIDE DEF S
<1>5. n \in S
  BY <1>3, <1>4, Reaches
<1> QED
  BY <1>1, <1>2, <1>5 DEF S

\* An output of lines from among the last i of s, the newest first.
FromNewest(q, s, i) ==
    /\ q \in Seq(Lines)
    /\ NewestFirst(q)
    /\ \A k \in 1..Len(q) : \E j \in 1..i : q[k] = Newest(s, j)

\* Of lines in the order of their events, the newest comes out first.
LEMMA OrderedReadNewestFirst ==
    ASSUME NEW s \in Seq(Lines),
           \A i, j \in 1..Len(s) : i < j => Newest(s, j).event < Newest(s, i).event
    PROVE  NewestFirst(NewestLines(s))
<1> DEFINE n == Len(s)
<1>1. PICK out : /\ NewestLines(s) = out[n] /\ out[0] = <<>>
                 /\ \A i \in 1..n : out[i] = Taken(out[i - 1], Newest(s, i))
  BY NewestLinesMeans
<1>2. ASSUME NEW i \in 1..n PROVE Newest(s, i) \in Lines
  <2>1. Len(s) + 1 - i \in 1..Len(s)
    OBVIOUS
  <2> QED
    BY <2>1 DEF Newest
<1> DEFINE S == {i \in 0..n : FromNewest(out[i], s, i)}
<1>3. n \in Nat
  OBVIOUS
<1>4. 0 \in S
  <2>1. FromNewest(<<>>, s, 0)
    BY DEF FromNewest, NewestFirst
  <2> QED
    BY <1>1, <1>3, <2>1
<1>5. ASSUME NEW i \in 1..n, i - 1 \in S PROVE i \in S
  <2> DEFINE x == Newest(s, i)
             p == out[i - 1]
  <2>1. /\ FromNewest(p, s, i - 1)
        /\ out[i] = Taken(p, x) /\ x \in Lines
        /\ i \in 0..n
    BY <1>1, <1>2, <1>5
  <2>2. \A k \in 1..Len(p) : p[k].event > x.event
    <3> TAKE k \in 1..Len(p)
    <3>1. PICK j \in 1..(i - 1) : p[k] = Newest(s, j)
      BY <2>1 DEF FromNewest
    <3>2. j \in 1..n /\ j < i
      OBVIOUS
    <3>3. x.event < Newest(s, j).event
      BY <3>2
    <3>4. x.event \in Nat /\ Newest(s, j).event \in Nat
      BY <1>2, <2>1, <3>2 DEF Lines
    <3> QED
      BY <3>1, <3>3, <3>4
  <2>3. CASE x.text = "good"
    <3>1. out[i] = Append(p, x)
      BY <2>1, <2>3 DEF Taken
    <3> HIDE DEF p, x
    <3>2. p \in Seq(Lines) /\ NewestFirst(p)
      BY <2>1 DEF FromNewest
    <3>3. NewestFirst(Append(p, x))
      BY <2>1, <2>2, <3>2 DEF NewestFirst
    <3>4. \A k \in 1..Len(Append(p, x)) :
             \E j \in 1..i : Append(p, x)[k] = Newest(s, j)
      <4> TAKE k \in 1..Len(Append(p, x))
      <4>1. CASE k \in 1..Len(p)
        BY <2>1, <3>2, <4>1 DEF FromNewest
      <4>2. CASE k \notin 1..Len(p)
        <5>1. Append(p, x)[k] = x
          BY <3>2, <4>2
        <5> QED
          BY <5>1 DEF x
      <4> QED
        BY <4>1, <4>2
    <3>5. FromNewest(out[i], s, i)
      BY <2>1, <3>1, <3>2, <3>3, <3>4 DEF FromNewest
    <3> QED
      BY <2>1, <3>5
  <2>4. CASE x.text # "good"
    <3>1. out[i] = p
      BY <2>1, <2>4 DEF Taken
    <3>2. FromNewest(out[i], s, i)
      BY <2>1, <3>1 DEF FromNewest
    <3> QED
      BY <2>1, <3>2
  <2> QED
    BY <2>3, <2>4
<1> HIDE DEF S, n
<1>6. 0..n \subseteq S
  BY <1>3, <1>4, <1>5, Reaches
<1>7. n \in S
  BY <1>3, <1>6
<1> QED
  BY <1>1, <1>7 DEF S, FromNewest

\* The last n lines of a file are its newest lines.
LastOf(s, n, q) ==
    /\ q \in Seq(Lines)
    /\ Len(q) = IF Len(s) > n THEN n ELSE Len(s)
    /\ \A i \in 1..Len(q) : Newest(q, i) = Newest(s, i)

LEMMA LastLinesAre ==
    ASSUME NEW s \in Seq(Lines), NEW n \in Nat
    PROVE  LastOf(s, n, LastLines(s, n))
<1>1. CASE Len(s) > n
  <2> DEFINE m == Len(s)
             a == m - n + 1
             q == SubSeq(s, a, m)
  <2>1. m \in Nat /\ a \in 1..(m + 1) /\ m - a + 1 = n
    BY <1>1
  <2>2. q \in Seq(Lines) /\ Len(q) = m - a + 1
        /\ \A i \in 1..(m - a + 1) : q[i] = s[a + i - 1]
    <3> HIDE DEF a
    <3> QED
      BY <2>1
  <2>3. ASSUME NEW i \in 1..n PROVE Newest(q, i) = Newest(s, i)
    <3> DEFINE k == n + 1 - i
    <3>1. k \in 1..n /\ a + k - 1 = m + 1 - i
      BY <2>1
    <3>2. q[k] = s[a + k - 1]
      BY <2>1, <2>2, <3>1
    <3> HIDE DEF q, a
    <3> QED
      BY <2>1, <2>2, <3>1, <3>2 DEF Newest
  <2> QED
    BY <1>1, <2>1, <2>2, <2>3 DEF LastLines, LastOf
<1>2. CASE ~(Len(s) > n)
  BY <1>2 DEF LastLines, LastOf
<1> QED
  BY <1>1, <1>2

\* While Recent reads, what it holds are the newest of the lines it has read,
\* though one of them may have been continued since and is no JSON either way;
\* and it holds all of them, or as many as it was asked for.
ReadInv ==
    /\ limit \in Nat
    /\ lines \in Seq(Lines)
    /\ next \in Nat \ {0}
    /\ Held =>
         /\ next - 1 <= Len(cur)
         /\ Len(lines) <= next - 1
         /\ Len(lines) = next - 1 \/ limit <= Len(lines)
         /\ \A i \in 1..Len(lines) : Same(Newest(lines, i), cur[next - i])

\* A line more is read, and what is too old is let go.
LEMMA ScanStep == SizeInv /\ ReadInv /\ RecentScan => ReadInv'
<1> SUFFICES ASSUME SizeInv, ReadInv, RecentScan PROVE ReadInv'
  OBVIOUS
<1> DEFINE x == cur[next]
           a == Append(lines, x)
           n == next
<1>1. /\ Held /\ next \in 1..Len(cur) /\ next' = n + 1 /\ limit' = limit
      /\ lines' = Trimmed(a) /\ cur' = cur /\ limit \in Nat \ {0}
      /\ Held' /\ n \in Nat \ {0}
  BY DEF RecentScan, ReadInv, files, Held
<1>2. x \in Lines /\ Len(cur) \in Nat
  BY <1>1 DEF SizeInv, Typed
<1>3. /\ lines \in Seq(Lines) /\ Len(lines) \in Nat
      /\ Len(lines) <= n - 1
      /\ Len(lines) = n - 1 \/ limit <= Len(lines)
      /\ \A i \in 1..Len(lines) : Same(Newest(lines, i), cur[n - i])
  BY <1>1 DEF ReadInv
<1>4. a \in Seq(Lines) /\ Len(a) = Len(lines) + 1
  BY <1>2, <1>3
<1>5. ASSUME NEW i \in 1..Len(a) PROVE Same(Newest(a, i), cur[n + 1 - i])
  <2>1. CASE i = 1
    <3>1. Newest(a, i) = x /\ n + 1 - i = n
      BY <1>1, <1>2, <1>3, <2>1 DEF Newest
    <3> QED
      BY <3>1 DEF Same
  <2>2. CASE i # 1
    <3> DEFINE j == i - 1
    <3>1. j \in 1..Len(lines) /\ n + 1 - i = n - j
          /\ Len(a) + 1 - i = Len(lines) + 1 - j
          /\ Len(lines) + 1 - j \in 1..Len(lines)
      BY <1>1, <1>3, <1>4, <2>2
    <3>2. Newest(a, i) = Newest(lines, j)
      BY <1>3, <3>1 DEF Newest
    <3> HIDE DEF j
    <3> QED
      BY <1>3, <3>1, <3>2
  <2> QED
    BY <2>1, <2>2
<1> HIDE DEF a, n
<1>6. CASE Len(a) > limit * 4
  <2>1. lines' = LastLines(a, limit)
    BY <1>1, <1>6 DEF Trimmed
  <2>2. LastOf(a, limit, lines')
    BY <1>1, <1>4, <2>1, LastLinesAre
  <2>3. Len(lines') = limit /\ limit <= Len(a)
    BY <1>1, <1>3, <1>4, <1>6, <2>2 DEF LastOf
  <2>4. \A i \in 1..limit : Same(Newest(lines', i), cur[n + 1 - i])
    BY <1>1, <1>3, <1>4, <1>5, <2>2, <2>3 DEF LastOf
  <2>5. limit <= n
    BY <1>1, <1>3, <1>4, <2>3
  <2>6. lines' \in Seq(Lines) /\ n + 1 \in Nat \ {0} /\ n <= Len(cur)
    BY <1>1, <2>2 DEF LastOf, n
  <2> QED
    BY <1>1, <1>2, <2>3, <2>4, <2>5, <2>6 DEF ReadInv, Newest, Held
<1>7. CASE ~(Len(a) > limit * 4)
  <2>1. lines' = a
    BY <1>1, <1>7 DEF Trimmed
  <2>2. Len(a) <= n /\ (Len(a) = n \/ limit <= Len(a))
    BY <1>1, <1>3, <1>4
  <2>3. n + 1 \in Nat \ {0} /\ n <= Len(cur)
    BY <1>1 DEF n
  <2>4. \A i \in 1..Len(lines') : Same(Newest(lines', i), cur[n + 1 - i])
    BY <1>5, <2>1
  <2>5. /\ lines' \in Seq(Lines) /\ Len(lines') <= n
        /\ Len(lines') = n \/ limit <= Len(lines')
    BY <1>4, <2>1, <2>2
  <2> QED
    BY <1>1, <1>2, <2>3, <2>4, <2>5 DEF ReadInv, Newest, Held
<1> QED
  BY <1>6, <1>7

\* A write leaves the lines read before it as they were, but for one without a
\* newline, which it continues.
LEMMA WriteUnderReader ==
    ASSUME SizeInv, ReadInv, NEW w \in Writer, WriteLine(w) \/ WritePart(w)
    PROVE  ReadInv'
<1>1. UNCHANGED <<limit, next, lines>>
  BY DEF WriteLine, WritePart, reader
<1>2. PICK x \in Lines : /\ cur' = Put(cur, x)
                         /\ Unfinished(cur) => x.text # "good"
  BY WriteIsPut
<1>3. cur \in Seq(Lines) /\ Len(cur) \in Nat
  BY DEF SizeInv, Typed
<1>4. Added(cur, x, cur')
  BY <1>2, <1>3, PutFacts
<1>5. ASSUME NEW k \in 1..Len(cur), NEW y, Same(y, cur[k])
      PROVE  Same(y, cur'[k])
  <2>1. CASE k \in 1..(Len(cur') - 1)
    BY <1>4, <1>5, <2>1 DEF Added
  <2>2. CASE k \notin 1..(Len(cur') - 1)
    <3>1. Unfinished(cur) /\ k = Len(cur) /\ Len(cur') = Len(cur)
      BY <1>3, <1>4, <2>2 DEF Added
    <3>2. cur[k].text = "torn"
      BY <1>3, <3>1, LastFacts DEF Unfinished
    <3>3. cur'[k] = x /\ x.text # "good"
      BY <1>2, <1>4, <3>1 DEF Added
    <3> QED
      BY <1>5, <3>2, <3>3 DEF Same
  <2> QED
    BY <2>1, <2>2
<1>6. Len(cur) <= Len(cur') /\ Len(cur') \in Nat
  BY <1>3, <1>4 DEF Added
<1>7. CASE Held
  <2>1. \A i \in 1..Len(lines) : next - i \in 1..Len(cur)
    BY <1>3, <1>7 DEF ReadInv
  <2>2. \A i \in 1..Len(lines) : Same(Newest(lines, i), cur'[next - i])
    BY <1>5, <1>7, <2>1 DEF ReadInv
  <2> QED
    BY <1>1, <1>3, <1>6, <1>7, <2>2 DEF ReadInv, Held, Newest
<1>8. CASE ~Held
  BY <1>1, <1>8 DEF ReadInv, Held
<1> QED
  BY <1>7, <1>8

\* What Recent holds stays the end of what it has read, while it reads, while
\* the agents append, and while the rename is refused.
LEMMA ReadStep == SizeInv /\ ReadInv /\ [Next]_vars => ReadInv'
<1> SUFFICES ASSUME SizeInv, ReadInv, [Next]_vars PROVE ReadInv'
  OBVIOUS
<1>1. CASE UNCHANGED <<cur, limit, next, lines>>
  BY <1>1 DEF ReadInv, Held, Newest
<1>2. ASSUME NEW n \in Asked, RecentOpen(n) PROVE ReadInv'
  <2>1. limit' = Clamp(n) /\ next' = 1 /\ lines' = <<>> /\ cur' = cur
    BY <1>2 DEF RecentOpen, files
  <2>2. Clamp(n) \in Nat
    BY LimitAssumption, AskedAssumption DEF Clamp
  <2>3. Len(cur) \in Nat
    BY DEF SizeInv, Typed
  <2> QED
    BY <2>1, <2>2, <2>3 DEF ReadInv
<1>3. CASE RecentDone \/ RecentFails
  <2>1. limit' = 0 /\ next' = 1 /\ lines' = <<>>
    BY <1>3 DEF RecentDone, RecentFails
  <2> QED
    BY <2>1 DEF ReadInv, Held
<1>4. ASSUME NEW w \in Writer, Rotate(w) PROVE ReadInv'
  <2>1. ~Held /\ UNCHANGED <<limit, next, lines>>
    BY <1>4 DEF Rotate, reader
  <2> QED
    BY <2>1 DEF ReadInv, Held
<1> QED
  BY <1>1, <1>2, <1>3, <1>4, ScanStep, WriteUnderReader
  DEF Next, Reader, AppendStep, Check, RotateRefused, RotateMissing,
      WriteNothing, RecentMissing, files, reader, vars

\* What Recent holds is the end of what it has read, in every reachable state.
LEMMA ReadCorrect == Spec => []ReadInv
<1>1. Init => ReadInv
  BY DEF Init, ReadInv, Held
<1> QED
  BY <1>1, ReadStep, SizeCorrect, PTL DEF Spec

\* Having read a file to its end, Recent returns what it would have found in
\* the whole of it, newest first, although it held a few lines at a time and
\* the agents went on appending; or it fails and returns no line.
THEOREM RecentReadsTail == Spec => RecentIsTail
<1> DEFINE Returns ==
        Held /\ ~Held' =>
            RecentFails \/ (result' = Returned(cur) /\ NewestFirst(result'))
<1>1. SizeInv /\ OrderInv /\ ReadInv /\ [Next]_vars => [Returns]_vars
  <2> SUFFICES ASSUME SizeInv, OrderInv, ReadInv, [Next]_vars, Held, ~Held',
                      ~RecentFails
               PROVE  result' = Returned(cur) /\ NewestFirst(result')
    OBVIOUS
  <2>1. RecentDone
    BY DEF Next, Reader, AppendStep, Check, Rotate, RotateRefused,
           RotateMissing, WriteLine, WritePart, WriteNothing, RecentMissing,
           RecentOpen, RecentScan, reader, vars, Held
  <2> DEFINE held == LastLines(lines, limit)
             whole == LastLines(cur, limit)
             n == IF Len(cur) > limit THEN limit ELSE Len(cur)
  <2>2. cur \in Seq(Lines) /\ Len(cur) \in Nat
    BY DEF SizeInv, Typed
  <2>3. /\ next = Len(cur) + 1 /\ limit \in Nat \ {0}
        /\ lines \in Seq(Lines) /\ Len(lines) \in Nat
        /\ Len(lines) = Len(cur) \/ limit <= Len(lines)
        /\ Len(lines) <= Len(cur)
        /\ \A i \in 1..Len(lines) : Same(Newest(lines, i), cur[next - i])
    BY <2>1, <2>2 DEF ReadInv, RecentDone, Held
  <2>4. LastOf(lines, limit, held) /\ LastOf(cur, limit, whole)
    BY <2>2, <2>3, LastLinesAre
  <2> HIDE DEF held, whole
  <2>5. Len(held) = n /\ Len(whole) = n /\ n \in Nat
    BY <2>2, <2>3, <2>4 DEF LastOf
  <2>6. \A i \in 1..n : i \in 1..Len(lines) /\ i \in 1..Len(cur)
    BY <2>2, <2>3
  <2>7. ASSUME NEW i \in 1..n PROVE Same(Newest(held, i), Newest(whole, i))
    <3>1. Newest(held, i) = Newest(lines, i) /\ Newest(whole, i) = Newest(cur, i)
      BY <2>4, <2>5, <2>7 DEF LastOf
    <3>2. Newest(cur, i) = cur[next - i]
      BY <2>2, <2>3, <2>6 DEF Newest
    <3> QED
      BY <2>3, <2>6, <3>1, <3>2
  <2>8. NewestLines(held) = NewestLines(whole)
    <3> HIDE DEF n
    <3> QED
      BY <2>5, <2>7, SameReadSame
  <2>9. result' = NewestLines(held)
    BY <2>1 DEF RecentDone, Returned, held
  <2>10. \A i, j \in 1..Len(whole) :
            i < j => Newest(whole, j).event < Newest(whole, i).event
    <3> TAKE i, j \in 1..Len(whole)
    <3> HAVE i < j
    <3> DEFINE k == Len(cur) + 1 - j
               l == Len(cur) + 1 - i
    <3>1. i \in 1..n /\ j \in 1..n /\ i \in 1..Len(cur) /\ j \in 1..Len(cur)
      BY <2>5, <2>6
    <3>2. k \in 1..Len(cur) /\ l \in 1..Len(cur) /\ k < l
      BY <2>2, <3>1
    <3>3. Newest(whole, i) = cur[l] /\ Newest(whole, j) = cur[k]
      BY <2>4 DEF LastOf, Newest
    <3> HIDE DEF k, l
    <3> QED
      BY <3>2, <3>3 DEF OrderInv, Ascending
  <2>11. whole \in Seq(Lines)
    BY <2>4 DEF LastOf
  <2>12. NewestFirst(NewestLines(whole))
    BY <2>10, <2>11, OrderedReadNewestFirst
  <2> QED
    BY <2>8, <2>9, <2>12 DEF Returned, whole
<1> QED
  BY <1>1, SizeCorrect, OrderCorrect, ReadCorrect, PTL DEF Spec, RecentIsTail

=============================================================================
