------------------------- MODULE AccessMonitorProofs -------------------------
(***************************************************************************)
(* Theorems about AccessMonitor, for any number of status requests and of  *)
(* items in each source.                                                   *)
(***************************************************************************)
EXTENDS AccessMonitor, WellFoundedInduction, TLAPS

(***************************************************************************)
(* The invariants                                                          *)
(***************************************************************************)
Busy == {"enter", "apply", "append", "appended"}

\* Between two answers nothing is in hand, and an item is being appended only if
\* there is one.
TypeInv ==
    /\ TypeOK
    /\ pc \notin Busy => todo = {} /\ mark = 0
    /\ pc \in {"append", "appended"} => todo # {}

\* What the goroutine has in hand is above every cursor the file may hold, and
\* so is what it has in memory, except before the file has been read.
AheadOfFile ==
    /\ pc \in Busy => /\ \A i \in todo : i > disk[Source]
                      /\ mark >= disk[Source]
    /\ pc # "down" => \A s \in Sources : cursor[s] >= disk[s]

\* What a source's cursor or pollRDP's mark points at was handed to append. The
\* cursor of cloudflared runs ahead by the one line about to be appended.
WasHanded(s, k) == k # 0 => <<s, k>> \in handed
CursorWasHanded ==
    /\ \A s \in Sources :
          IF pc = "append" /\ s = Source /\ s = "cloudflared"
            THEN cursor[s] = Item
            ELSE WasHanded(s, cursor[s])
    /\ pc \in Busy => WasHanded(Source, mark)
    /\ pc = "appended" => <<Source, Item>> \in handed
    /\ SavedWasHanded

\* The sources whose call in the poll under way has returned.
InPoll == pc \in Busy \cup {"call", "report"}
Called == {Turns[i] : i \in 1..(IF pc = "call" THEN turn - 1 ELSE turn)}
ErrorInv ==
    /\ InPoll => /\ errs \subseteq Called
                 /\ \A s \in Called : s \in errs <=> s \in failed
    /\ pc = "report" => turn = Len(Turns)
    /\ ErrorIsLastOutcome

(***************************************************************************)
(* The turns of a poll and the item at hand                                *)
(***************************************************************************)
\* The three sources in the order in which poll asks them.
LEMMA TurnsList ==
    /\ Len(Turns) = 3
    /\ Turns[1] = "guacamole" /\ Turns[2] = "cloudflared" /\ Turns[3] = "rdp"
    /\ \A i \in 1..Len(Turns) : Turns[i] \in Sources
BY DEF Turns, Sources

\* A set of items has a least one.
LEMMA MinType ==
    ASSUME NEW S, S \subseteq Nat, S # {}
    PROVE  Min(S) \in S
<1> DEFINE Below == {ss \in Nat \X Nat : ss[1] < ss[2]}
<1>1. IsWellFoundedOn(Below, Nat)
  BY NatLessThanWellFounded, Zenon DEF OpToRel
<1>2. PICK x \in S : \A y \in S : <<y, x>> \notin Below
  BY <1>1, WFMin, Zenon
<1>3. ASSUME NEW y \in S PROVE x <= y
  <2>1. x \in Nat /\ y \in Nat
    OBVIOUS
  <2>2. <<y, x>> \in Nat \X Nat => ~(y < x)
    BY <1>2
  <2> QED
    BY <2>1, <2>2
<1> QED
  BY <1>2, <1>3, Zenon DEF Min

\* While there is something in hand, the next item is one of them.
LEMMA ItemType ==
    ASSUME TypeOK, todo # {}
    PROVE  Item \in todo /\ Item \in 1..available[Source]
<1>1. todo \subseteq 1..available[Source] /\ available[Source] \in Nat
  BY TurnsList DEF TypeOK, Source
<1>2. todo \subseteq Nat
  BY <1>1
<1>3. Min(todo) \in todo
  BY <1>2, MinType
<1> QED
  BY <1>1, <1>3 DEF Item

\* A poll goes on to the next source or to its report.
LEMMA NextSourceType ==
    ASSUME turn \in 1..Len(Turns), NextSource
    PROVE  turn' \in 1..Len(Turns) /\ pc' \in {"call", "report"}
BY TurnsList DEF NextSource

(***************************************************************************)
(* Type correctness                                                        *)
(***************************************************************************)
\* A cursor for each source, none ahead of its source.
CursorOK(c) ==
    DOMAIN c = Sources /\ \A s \in Sources : c[s] \in 0..available[s]

\* What a source returns are items of it that the cursor has not reached.
LEMMA FoundType ==
    ASSUME NEW s \in Sources, available[s] \in Nat, cursor[s] \in 0..available[s]
    PROVE  /\ Found(s) \subseteq 1..available[s]
           /\ \A i \in Found(s) : i > cursor[s]
BY DEF Found

\* Moving one source's cursor to an item of it keeps the cursor a cursor.
LEMMA MovedType ==
    ASSUME NEW c, CursorOK(c), NEW s \in Sources, NEW k \in 0..available[s]
    PROVE  CursorOK([c EXCEPT ![s] = k])
BY DEF CursorOK

\* Types are kept by every step, and what a source returned is gone by the time
\* the next one is asked.
LEMMA TypeStep == TypeInv /\ [Next]_vars => TypeInv'
<1> SUFFICES ASSUME TypeInv, [Next]_vars PROVE TypeInv'
  OBVIOUS
<1> USE DEF TypeInv, TypeOK, Busy
<1>1. /\ Source \in Sources /\ turn \in 1..Len(Turns)
      /\ available[Source] \in Nat
      /\ Zero = [s \in Sources |-> 0]
      /\ cursor[Source] \in 0..available[Source]
  BY TurnsList DEF Source, Zero
<1>2. CursorOK(cursor) /\ CursorOK(disk) /\ CursorOK(Zero)
  BY <1>1 DEF CursorOK
<1>3. ASSUME NEW s \in Sources, Happen(s) PROVE TypeInv'
  <2>1. /\ available' = [available EXCEPT ![s] = @ + 1]
        /\ available[s] < MaxItems[s] /\ available[s] \in Nat
        /\ UNCHANGED <<pc, turn, todo, mark, mu, errs, err, failed, cursor,
                       disk, handed, hpc>>
    BY <1>3 DEF Happen, batch, results
  <2>2. available' \in [Sources -> Nat]
    BY <2>1
  <2>3. \A r \in Sources : /\ available[r] \in Nat /\ available[r] <= available'[r]
                           /\ available'[r] <= MaxItems[r]
    <3> SUFFICES ASSUME NEW r \in Sources
                 PROVE  /\ available[r] \in Nat /\ available[r] <= available'[r]
                        /\ available'[r] <= MaxItems[r]
      OBVIOUS
    <3>1. /\ MaxItems[r] \in Nat /\ available[r] \in Nat
          /\ available[r] <= MaxItems[r]
      BY ItemsAssumption
    <3>2. available'[r] = IF r = s THEN available[r] + 1 ELSE available[r]
      BY <2>1
    <3> QED
      BY <2>1, <3>1, <3>2
  <2>4. todo' \subseteq 1..available'[Source'] /\ mark' \in 0..available'[Source']
    BY <1>1, <2>1, <2>2, <2>3 DEF Source
  <2>5. \A c \in {cursor', disk'} :
          DOMAIN c = Sources /\ \A r \in Sources : c[r] \in 0..available'[r]
    BY <2>1, <2>2, <2>3
  <2>6. \A i \in handed' : i[1] \in Sources /\ i[2] \in 1..available'[i[1]]
    BY <2>1, <2>2, <2>3
  <2> QED
    BY <2>1, <2>2, <2>3, <2>4, <2>5, <2>6
\* The other steps leave the sources as they are.
<1> DEFINE Kept ==
             /\ pc' \in {"down", "begin", "call", "enter", "apply", "append",
                         "appended", "report", "save", "write", "idle"}
             /\ turn' \in 1..Len(Turns)
             /\ todo' \subseteq 1..available[Turns[turn']]
             /\ mark' \in 0..available[Turns[turn']]
             /\ pc' \notin Busy => todo' = {} /\ mark' = 0
             /\ pc' \in {"append", "appended"} => todo' # {}
             /\ {errs', err', failed'} \subseteq SUBSET Sources
             /\ mu' \in {"free", "monitor"}
             /\ CursorOK(cursor') /\ CursorOK(disk')
             /\ \A i \in handed' : /\ i[1] \in Sources
                                   /\ i[2] \in 1..available[i[1]]
             /\ hpc' \in [Handler -> {"idle", "wait"}]
<1>4. ASSUME available' = available, Kept PROVE TypeInv'
  BY <1>4 DEF CursorOK, Source
<1>5. todo # {} => Item \in todo /\ Item \in 1..available[Source]
  BY ItemType
<1>6. \A i \in 1..Len(Turns) : available[Turns[i]] \in Nat
  BY TurnsList
<1> USE DEF CursorOK
<1>7. CASE Begin
  BY <1>2, <1>4, <1>6, <1>7, TurnsList DEF Begin, Cleared, batch
<1>8. CASE CallSucceeds
  <2>1. Found(Source) \subseteq 1..available[Source]
    BY <1>1, FoundType
  <2> QED
    BY <1>1, <1>2, <1>4, <1>8, <2>1 DEF CallSucceeds, Source
<1>9. CASE CallEmpty \/ CallFails
  <2>1. NextSource /\ pc = "call"
    BY <1>9 DEF CallEmpty, CallFails, AfterFailure
  <2>2. /\ UNCHANGED <<available, batch, mu, err, cursor, disk, handed, hpc>>
        /\ {errs', failed'} \subseteq SUBSET Sources
    BY <1>1, <1>9 DEF CallEmpty, CallFails
  <2> QED
    BY <1>2, <1>4, <1>6, <2>1, <2>2, NextSourceType DEF batch
<1>10. CASE Enter
  BY <1>1, <1>2, <1>4, <1>10 DEF Enter, batch, results, Source
<1>11. CASE TakeItem
  <2>1. CursorOK(cursor')
    BY <1>1, <1>2, <1>5, <1>11, MovedType DEF TakeItem
  <2> QED
    BY <1>1, <1>2, <1>4, <1>11, <2>1 DEF TakeItem, batch, results, Source
<1>12. CASE AppendItem
  <2>1. Item \in 1..available[Source]
    BY <1>5, <1>12 DEF AppendItem
  <2> QED
    BY <1>1, <1>2, <1>4, <1>12, <2>1 DEF AppendItem, batch, results, Source
<1>13. CASE ItemDone
  <2>1. Item \in 1..available[Source]
    BY <1>5, <1>13 DEF ItemDone
  <2>2. CursorOK(cursor')
    BY <1>1, <1>2, <1>13, <2>1, MovedType DEF ItemDone
  <2> QED
    BY <1>1, <1>2, <1>4, <1>13, <2>1, <2>2 DEF ItemDone, results, Source
<1>14. CASE Leave
  <2>1. CursorOK(cursor')
    BY <1>1, <1>2, <1>14, MovedType DEF Leave, RDPMark
  <2>2. turn' \in 1..Len(Turns) /\ pc' \in {"call", "report"}
    BY <1>14, NextSourceType DEF Leave
  <2> QED
    BY <1>2, <1>4, <1>6, <1>14, <2>1, <2>2 DEF Leave, Unlocked, results
<1>15. CASE Report
  BY <1>1, <1>2, <1>4, <1>15 DEF Report, batch, Source
<1>16. CASE SaveTruncate \/ SaveWrite \/ SaveFails \/ Tick
  BY <1>1, <1>2, <1>4, <1>16
     DEF SaveTruncate, SaveWrite, SaveFails, Tick, batch, results, Source
<1>17. CASE Boot
  BY <1>1, <1>2, <1>4, <1>17 DEF Boot, Loaded, batch, results, Source
<1>18. ASSUME NEW h \in Handler, AskStatus(h) \/ AnswerStatus(h) PROVE TypeInv'
  BY <1>1, <1>2, <1>4, <1>18
     DEF AskStatus, AnswerStatus, batch, results, Source
<1>19. CASE Crash
  BY <1>1, <1>2, <1>4, <1>6, <1>19, TurnsList DEF Crash, NotAsked
<1>20. CASE UNCHANGED vars
  BY <1>1, <1>2, <1>4, <1>20 DEF vars, batch, results, Source
<1> QED
  BY <1>3, <1>7, <1>8, <1>9, <1>10, <1>11, <1>12, <1>13, <1>14, <1>15, <1>16,
     <1>17, <1>18, <1>19, <1>20 DEF Next, Own, Return

\* The type invariant, in its stronger form, holds of every behaviour.
LEMMA TypeInvCorrect == Spec => []TypeInv
<1>1. Init => TypeInv
  BY TurnsList, ItemsAssumption
     DEF Init, TypeInv, TypeOK, Zero, NotAsked, Source, Busy
<1> QED
  BY <1>1, TypeStep, PTL DEF Spec

\* Every variable keeps its type, in every poll, save, stop and start, and no
\* cursor gets ahead of its source.
THEOREM TypeCorrect == Spec => []TypeOK
<1>1. TypeInv => TypeOK
  BY DEF TypeInv
<1> QED
  BY <1>1, TypeInvCorrect, PTL

(***************************************************************************)
(* What a restart repeats                                                  *)
(***************************************************************************)
\* The facts of TypeInv that the following steps use.
LEMMA TypeFacts ==
    ASSUME TypeInv
    PROVE  /\ Source \in Sources /\ turn \in 1..3
           /\ todo \subseteq Nat /\ mark \in Nat
           /\ \A s \in Sources : cursor[s] \in Nat /\ disk[s] \in Nat
           /\ DOMAIN cursor = Sources /\ DOMAIN disk = Sources
           /\ cursor[Source] \in 0..available[Source]
           /\ available[Source] \in Nat
           /\ pc \in {"append", "appended"} => Item \in todo
<1> USE DEF TypeInv, TypeOK
<1>1. Source \in Sources /\ turn \in 1..3
  BY TurnsList DEF Source
<1>2. \A s \in Sources : /\ available[s] \in Nat
                         /\ cursor[s] \in 0..available[s]
                         /\ disk[s] \in 0..available[s]
  OBVIOUS
<1>3. pc \in {"append", "appended"} => Item \in todo
  BY ItemType
<1> QED
  BY <1>1, <1>2, <1>3

\* What is in hand and what the cursor and the mark say stay above what the
\* file says: in a poll the file does not change, and between polls it takes
\* the value of the cursor or the zero of a truncated file.
LEMMA AheadStep == TypeInv /\ AheadOfFile /\ [Next]_vars => AheadOfFile'
<1> SUFFICES ASSUME TypeInv, AheadOfFile, [Next]_vars PROVE AheadOfFile'
  OBVIOUS
<1> USE TypeFacts DEF AheadOfFile, Busy
<1>1. ASSUME UNCHANGED <<pc, turn, todo, mark, cursor, disk>> PROVE AheadOfFile'
  BY <1>1 DEF Source
<1>2. ASSUME pc' \notin Busy, pc' # "down" => pc # "down",
             pc' # "down" => \A s \in Sources : cursor'[s] >= disk'[s]
      PROVE  AheadOfFile'
  BY <1>2
<1>3. CASE CallSucceeds
  <2>1. \A i \in Found(Source) : i > cursor[Source]
    BY FoundType
  <2>2. Found(Source) \subseteq Nat
    BY FoundType
  <2> QED
    BY <1>3, <2>1, <2>2 DEF CallSucceeds, Source
<1>4. CASE TakeItem
  <2>1. Item \in todo
    BY <1>4, ItemType DEF TakeItem, TypeInv
  <2>2. disk' = disk /\ \A s \in Sources : cursor'[s] >= disk[s]
    BY <1>4, <2>1 DEF TakeItem
  <2> QED
    BY <1>4, <2>2 DEF TakeItem, batch, Source
<1>5. CASE ItemDone
  <2>1. Item \in todo
    BY <1>5 DEF ItemDone
  <2>2. disk' = disk /\ \A s \in Sources : cursor'[s] >= disk[s]
    BY <1>5, <2>1 DEF ItemDone
  <2>3. mark' >= disk[Source] /\ todo' \subseteq todo
    BY <1>5, <2>1 DEF ItemDone
  <2> QED
    BY <1>5, <2>2, <2>3 DEF ItemDone, Source
<1>6. CASE Leave
  <2>1. disk' = disk /\ pc' \in {"call", "report"}
    BY <1>6 DEF Leave, NextSource
  <2>2. \A s \in Sources : cursor'[s] >= disk[s]
    BY <1>6 DEF Leave, RDPMark, Source
  <2> QED
    BY <1>2, <1>6, <2>1, <2>2 DEF Leave
<1>7. CASE Enter \/ AppendItem
  BY <1>7 DEF Enter, AppendItem, batch, Source
<1>8. CASE Begin \/ CallEmpty \/ CallFails \/ Report \/ SaveFails \/ Tick
  BY <1>2, <1>8
     DEF Begin, CallEmpty, CallFails, AfterFailure, NextSource, Report,
         SaveFails, Tick
<1>9. CASE SaveTruncate
  BY <1>9 DEF SaveTruncate, Zero
<1>10. CASE SaveWrite
  BY <1>10 DEF SaveWrite
<1>11. CASE Crash
  BY <1>11 DEF Crash
<1>12. CASE Boot
  BY <1>12 DEF Boot, Loaded
<1>13. ASSUME NEW s \in Sources, Happen(s) PROVE AheadOfFile'
  BY <1>1, <1>13 DEF Happen, batch
<1>14. ASSUME NEW h \in Handler, AskStatus(h) \/ AnswerStatus(h)
       PROVE  AheadOfFile'
  BY <1>1, <1>14 DEF AskStatus, AnswerStatus, batch
<1>15. CASE UNCHANGED vars
  BY <1>1, <1>15 DEF vars, batch
<1> QED
  BY <1>3, <1>4, <1>5, <1>6, <1>7, <1>8, <1>9, <1>10, <1>11, <1>12, <1>13,
     <1>14, <1>15 DEF Next, Own, Return

\* A run of the agent appends nothing that the file it could be restarted from
\* counts as reported, whichever source it comes from and wherever an earlier
\* run was stopped.
THEOREM SavedStaysBelow == Spec => []SavedNotRepeated
<1>1. Init => AheadOfFile
  BY DEF Init, AheadOfFile, Busy
<1>2. Spec => []AheadOfFile
  BY <1>1, AheadStep, TypeInvCorrect, PTL DEF Spec
<1>3. TypeInv /\ AheadOfFile => SavedNotRepeated
  BY TypeFacts DEF AheadOfFile, SavedNotRepeated, Busy
<1> QED
  BY <1>2, <1>3, TypeInvCorrect, PTL

(***************************************************************************)
(* What a saved cursor counts as reported                                  *)
(***************************************************************************)
\* Every cursor, in memory and in the file, points at what was handed to append,
\* but for the line of cloudflared that is marked as seen and appended next; and
\* that line is appended before the cursor is saved.
LEMMA HandedStep ==
    TypeInv /\ CursorWasHanded /\ [Next]_vars => CursorWasHanded'
<1> SUFFICES ASSUME TypeInv, CursorWasHanded, [Next]_vars
             PROVE  CursorWasHanded'
  OBVIOUS
<1> USE TypeFacts DEF CursorWasHanded, SavedWasHanded, WasHanded, Busy
<1>1. ASSUME UNCHANGED <<pc, turn, todo, mark, cursor, disk, handed>>
      PROVE  CursorWasHanded'
  BY <1>1 DEF Source, Item
\* Outside the append of a line, all cursors point at what was handed over.
<1> DEFINE AllHanded(c) == \A s \in Sources : c[s] # 0 => <<s, c[s]>> \in handed
<1>2. AllHanded(disk) /\ (pc # "append" => AllHanded(cursor))
  OBVIOUS
<1>3. ASSUME AllHanded(cursor'), AllHanded(disk'), handed' = handed,
             pc' \notin Busy
      PROVE  CursorWasHanded'
  BY <1>3
<1>4. CASE CallSucceeds
  <2>1. AllHanded(cursor) /\ turn' = turn /\ mark' = cursor[Source]
        /\ UNCHANGED <<cursor, disk, handed>> /\ pc' = "enter"
    BY <1>2, <1>4 DEF CallSucceeds
  <2> QED
    BY <1>2, <2>1 DEF Source
<1>5. CASE Enter
  BY <1>2, <1>5 DEF Enter, batch, Source
<1>6. CASE TakeItem
  <2>1. /\ UNCHANGED <<turn, todo, mark, disk, handed>>
        /\ pc = "apply" /\ pc' = "append"
        /\ cursor' = IF Source = "cloudflared"
                       THEN [cursor EXCEPT ![Source] = Item] ELSE cursor
    BY <1>6 DEF TakeItem, batch
  <2>2. Source' = Source /\ Item' = Item
    BY <2>1 DEF Source, Item
  <2>3. ASSUME NEW s \in Sources
        PROVE  IF s = Source /\ s = "cloudflared"
                 THEN cursor'[s] = Item
                 ELSE cursor'[s] # 0 => <<s, cursor'[s]>> \in handed
    BY <1>2, <2>1
  <2> QED
    BY <1>2, <2>1, <2>2, <2>3
<1>7. CASE AppendItem
  <2>1. /\ UNCHANGED <<turn, todo, mark, cursor, disk>>
        /\ pc = "append" /\ pc' = "appended"
        /\ handed' = handed \cup {<<Source, Item>>}
    BY <1>7 DEF AppendItem, batch
  <2>2. Source' = Source /\ Item' = Item
    BY <2>1 DEF Source, Item
  <2>3. ASSUME NEW s \in Sources, cursor[s] # 0
        PROVE  <<s, cursor[s]>> \in handed'
    BY <2>1, <2>3
  <2> QED
    BY <1>2, <2>1, <2>2, <2>3
<1>8. CASE ItemDone
  <2>1. /\ UNCHANGED <<turn, disk, handed>>
        /\ pc = "appended" /\ pc' = "apply" /\ mark' = Item
        /\ cursor' = IF Source = "guacamole"
                       THEN [cursor EXCEPT ![Source] = Item] ELSE cursor
    BY <1>8 DEF ItemDone
  <2>2. Source' = Source
    BY <2>1 DEF Source
  <2>3. AllHanded(cursor')
    BY <1>2, <2>1
  <2> QED
    BY <1>2, <2>1, <2>2, <2>3
<1>9. CASE Leave
  <2>1. /\ handed' = handed /\ disk' = disk /\ pc = "apply"
        /\ pc' \in {"call", "report"}
        /\ cursor' = IF Source = "rdp" THEN [cursor EXCEPT !["rdp"] = mark]
                                       ELSE cursor
    BY <1>9 DEF Leave, NextSource, RDPMark
  <2>2. AllHanded(cursor')
    BY <1>2, <2>1
  <2> QED
    BY <1>2, <1>3, <2>1, <2>2
<1>10. CASE \/ Begin \/ CallEmpty \/ CallFails \/ Report
            \/ SaveTruncate \/ SaveWrite \/ SaveFails
            \/ Tick \/ Crash \/ Boot
  <2>1. pc' \notin Busy /\ handed' = handed
    BY <1>10
       DEF Begin, CallEmpty, CallFails, AfterFailure, NextSource, Report,
           SaveTruncate, SaveWrite, SaveFails, Tick, Crash, Boot
  <2>2. AllHanded(Zero)
    BY DEF Zero
  <2>3. AllHanded(cursor') /\ AllHanded(disk')
    BY <1>2, <1>10, <2>2
       DEF Begin, CallEmpty, CallFails, Report, SaveTruncate, SaveWrite,
           SaveFails, Tick, Crash, Boot, Loaded
  <2> QED
    BY <1>3, <2>1, <2>3
<1>11. ASSUME NEW s \in Sources, Happen(s) PROVE CursorWasHanded'
  BY <1>1, <1>11 DEF Happen, batch
<1>12. ASSUME NEW h \in Handler, AskStatus(h) \/ AnswerStatus(h)
       PROVE  CursorWasHanded'
  BY <1>1, <1>12 DEF AskStatus, AnswerStatus, batch
<1>13. CASE UNCHANGED vars
  BY <1>1, <1>13 DEF vars, batch
<1> QED
  BY <1>4, <1>5, <1>6, <1>7, <1>8, <1>9, <1>10, <1>11, <1>12, <1>13
     DEF Next, Own, Return

\* What the cursor file counts as reported was handed to append, by this run or
\* by an earlier one, wherever in between the agent was stopped.
THEOREM SavedStaysHanded == Spec => []SavedWasHanded
<1>1. Init => CursorWasHanded
  BY DEF Init, CursorWasHanded, SavedWasHanded, WasHanded, Zero, Busy
<1>2. CursorWasHanded => SavedWasHanded
  BY DEF CursorWasHanded
<1> QED
  BY <1>1, <1>2, HandedStep, TypeInvCorrect, PTL DEF Spec

(***************************************************************************)
(* What Status tells                                                       *)
(***************************************************************************)
\* A poll's local errors agree with the outcomes of the calls it has made.
LEMMA ErrorStep == TypeInv /\ ErrorInv /\ [Next]_vars => ErrorInv'
<1> SUFFICES ASSUME TypeInv, ErrorInv, [Next]_vars PROVE ErrorInv'
  OBVIOUS
<1> DEFINE Before(n) == {Turns[i] : i \in 1..n}
<1>1. /\ Before(0) = {} /\ Before(3) = Sources
      /\ \A n \in 1..3 : /\ Before(n) = Before(n - 1) \cup {Turns[n]}
                         /\ Turns[n] \notin Before(n - 1)
  <2>1. /\ Before(1) = {Turns[1]} /\ Before(2) = {Turns[1], Turns[2]}
        /\ Before(3) = {Turns[1], Turns[2], Turns[3]} /\ Before(0) = {}
    OBVIOUS
  <2> QED
    BY <2>1, TurnsList DEF Sources
<1>2. turn \in 1..3
  BY TypeFacts
<1>3. /\ InPoll => errs \subseteq Called
                   /\ \A s \in Called : s \in errs <=> s \in failed
      /\ pc = "report" => turn = 3
      /\ \A s \in Sources \ CalledAgain : s \in err <=> s \in failed
  BY TurnsList DEF ErrorInv, ErrorIsLastOutcome
<1>4. /\ Called = IF pc = "call" THEN Before(turn - 1) ELSE Before(turn)
      /\ CalledAgain = IF InPoll THEN Before(turn) ELSE {}
  BY DEF Called, CalledAgain, InPoll, Busy
<1>5. /\ Called' = IF pc' = "call" THEN Before(turn' - 1) ELSE Before(turn')
      /\ CalledAgain' = IF InPoll' THEN Before(turn') ELSE {}
  BY DEF Called, CalledAgain, InPoll, Busy
<1> SUFFICES /\ InPoll' => /\ errs' \subseteq Called'
                           /\ \A s \in Called' : s \in errs' <=> s \in failed'
             /\ pc' = "report" => turn' = 3
             /\ \A s \in Sources \ CalledAgain' : s \in err' <=> s \in failed'
  BY TurnsList DEF ErrorInv, ErrorIsLastOutcome
<1> HIDE DEF Before
<1> USE DEF InPoll, Busy
<1>6. ASSUME NextSource, pc \in {"call", "apply"}, turn \in 1..3
      PROVE  \/ pc' = "call" /\ turn' = turn + 1 /\ turn < 3
             \/ pc' = "report" /\ turn' = turn /\ turn = 3
  BY <1>6, TurnsList DEF NextSource
<1>7. CASE Begin
  BY <1>1, <1>3, <1>4, <1>5, <1>7 DEF Begin, Cleared
<1>8. CASE CallSucceeds
  BY <1>1, <1>2, <1>3, <1>4, <1>5, <1>8 DEF CallSucceeds, Source
<1>9. CASE CallEmpty
  BY <1>1, <1>2, <1>3, <1>4, <1>5, <1>6, <1>9 DEF CallEmpty, Source
<1>10. CASE CallFails
  BY <1>1, <1>2, <1>3, <1>4, <1>5, <1>6, <1>10
     DEF CallFails, AfterFailure, Source
<1>11. CASE Leave
  BY <1>1, <1>2, <1>3, <1>4, <1>5, <1>6, <1>11 DEF Leave, results
<1>12. CASE Enter \/ TakeItem \/ AppendItem \/ ItemDone
  BY <1>3, <1>4, <1>5, <1>12 DEF Enter, TakeItem, AppendItem, ItemDone, results
<1>13. CASE Report
  BY <1>1, <1>3, <1>4, <1>5, <1>13 DEF Report
<1>14. CASE SaveTruncate \/ SaveWrite \/ SaveFails \/ Tick \/ Boot
  BY <1>3, <1>4, <1>5, <1>14
     DEF SaveTruncate, SaveWrite, SaveFails, Tick, Boot, results
<1>15. CASE Crash
  BY <1>15 DEF Crash
<1>16. ASSUME NEW s \in Sources, Happen(s) PROVE ErrorInv'
  BY <1>3, <1>4, <1>5, <1>16, TurnsList
     DEF Happen, results, ErrorInv, ErrorIsLastOutcome
<1>17. ASSUME NEW h \in Handler, AskStatus(h) \/ AnswerStatus(h)
       PROVE  ErrorInv'
  BY <1>3, <1>4, <1>5, <1>17, TurnsList
     DEF AskStatus, AnswerStatus, results, ErrorInv, ErrorIsLastOutcome
<1>18. CASE UNCHANGED vars
  BY <1>3, <1>4, <1>5, <1>18 DEF vars, results
<1> QED
  BY <1>7, <1>8, <1>9, <1>10, <1>11, <1>12, <1>13, <1>14, <1>15, <1>16, <1>17,
     <1>18, TurnsList DEF Next, Own, Return, ErrorInv, ErrorIsLastOutcome

\* Status tells of each source how its latest call in this run went, unless the
\* source has been called again in the poll under way.
THEOREM ErrorsAreLastOutcomes == Spec => []ErrorIsLastOutcome
<1>1. Init => ErrorInv
  BY DEF Init, ErrorInv, ErrorIsLastOutcome, InPoll, Busy
<1>2. ErrorInv => ErrorIsLastOutcome
  BY DEF ErrorInv
<1> QED
  BY <1>1, <1>2, ErrorStep, TypeInvCorrect, PTL DEF Spec
=============================================================================
