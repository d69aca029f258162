------------------------- MODULE ControlPlaneProofs -------------------------
(***************************************************************************)
(* Theorems about ControlPlane, for any number of clients, any list of     *)
(* services and every number of edits and faults.                          *)
(***************************************************************************)
EXTENDS ControlPlane, SequenceTheorems, TLAPS

(***************************************************************************)
(* The invariants                                                          *)
(***************************************************************************)
Process == Client \cup {LogonTask}
Step == Service \cup {"parse", "parse with token"}
Requests == {Idle} \cup [op : Ops, at : {"handler", "child", "answer"}]
Commands == {NoCommand} \cup [op : StackOps, todo : Seq(Step) \ {<<>>}]

\* What TypeOK says, and what a command has left to do.
TypeInv ==
    /\ agent \in BOOLEAN /\ token \in BOOLEAN /\ engine \in BOOLEAN
    /\ logged \in BOOLEAN /\ pending \in BOOLEAN
    /\ req \in [Client -> Requests]
    /\ cmd \in [Process -> Commands]
    /\ up \subseteq Service /\ before \subseteq up
    /\ calm \subseteq Client
    /\ edits \in 0..MaxEdits /\ faults \in 0..MaxFaults
    /\ (engine => logged)

\* A handler waits for the command that it has started; a client whose command
\* goes on without one waits for nothing. A request that nothing has worked
\* against is one to start or to stop the stack that has started its command.
Places ==
    \A c \in Client :
        /\ req[c].at = "child" => cmd[c] # NoCommand /\ cmd[c].op = req[c].op
        /\ cmd[c] # NoCommand => req[c] = Idle \/ req[c].at = "child"
        /\ c \in calm => /\ req[c].at \in {"child", "answer"}
                         /\ req[c].op \in {"up", "down"}

\* The services that a client's command has yet to deal with.
Remaining(c) == IF req[c].at = "child" THEN Range(cmd[c].todo) ELSE {}

\* With nothing against it, what "up" was to start runs, or is yet to be
\* started; and Docker Desktop runs when it has all been.
UpInv ==
    \A c \in calm : req[c].op = "up" =>
        /\ Range(Files(Overlay)) \subseteq up \cup Remaining(c)
        /\ req[c].at = "answer" => engine

\* With nothing against it, what "down" was to stop does not run, or is yet to
\* be stopped.
DownInv ==
    \A c \in calm : req[c].op = "down" =>
        up \cap Range(Files(Overlay)) \subseteq Remaining(c)

(***************************************************************************)
(* Requests and commands                                                   *)
(***************************************************************************)
\* What a handler does to its request, as one assignment.
LEMMA RequestFacts ==
    ASSUME TypeInv, NEW c \in Client, req[c] # Idle
    PROVE  /\ req[c] \in [op : Ops, at : {"handler", "child", "answer"}]
           /\ \A place \in {"child", "answer"} :
                 [req EXCEPT ![c].at = place] =
                    [req EXCEPT ![c] = [op |-> req[c].op, at |-> place]]
<1>1. req[c] \in [op : Ops, at : {"handler", "child", "answer"}]
  BY DEF TypeInv, Requests
<1>2. \A place \in {"child", "answer"} :
        [req[c] EXCEPT !.at = place] = [op |-> req[c].op, at |-> place]
  BY <1>1
<1> QED
  BY <1>1, <1>2

\* A request that is replaced leaves the others as they are.
LEMMA RequestSet ==
    ASSUME TypeInv, NEW c \in Client, NEW r \in Requests, req' = [req EXCEPT ![c] = r]
    PROVE  /\ req' \in [Client -> Requests] /\ req'[c] = r
           /\ \A d \in Client \ {c} : req'[d] = req[d]
BY DEF TypeInv

\* So does a command.
LEMMA CommandSet ==
    ASSUME TypeInv, NEW p \in Process, NEW x \in Commands, cmd' = [cmd EXCEPT ![p] = x]
    PROVE  /\ cmd' \in [Process -> Commands] /\ cmd'[p] = x
           /\ \A q \in Process \ {p} : cmd'[q] = cmd[q]
BY DEF TypeInv

\* The members of a sequence.
LEMMA RangeFacts ==
    ASSUME NEW T, NEW s \in Seq(T)
    PROVE  \A x : x \in Range(s) <=> \E i \in 1..Len(s) : s[i] = x
<1>1. DOMAIN s = 1..Len(s)
  OBVIOUS
<1> QED
  BY <1>1 DEF Range

\* What is left to do is what comes next and what is left after it.
LEMMA TailFacts ==
    ASSUME NEW s \in Seq(Step), s # <<>>
    PROVE  /\ Head(s) \in Step /\ Tail(s) \in Seq(Step)
           /\ Range(s) = {Head(s)} \cup Range(Tail(s))
           /\ Len(s) > 1 => Tail(s) # <<>>
           /\ ~(Len(s) > 1) => Range(Tail(s)) = {}
<1>1. /\ Head(s) = s[1] /\ 1 \in 1..Len(s) /\ Tail(s) \in Seq(Step)
      /\ Len(s) \in Nat /\ Len(Tail(s)) = Len(s) - 1
      /\ \A i \in 1..Len(Tail(s)) : Tail(s)[i] = s[i + 1]
  OBVIOUS
<1>2. /\ \A x : x \in Range(s) <=> \E i \in 1..Len(s) : s[i] = x
      /\ \A x : x \in Range(Tail(s)) <=> \E i \in 1..Len(Tail(s)) : Tail(s)[i] = x
  BY <1>1, RangeFacts
<1>3. ASSUME NEW x, x \in Range(s) PROVE x \in {Head(s)} \cup Range(Tail(s))
  <2>1. PICK i \in 1..Len(s) : s[i] = x
    BY <1>2, <1>3
  <2>2. i # 1 => i - 1 \in 1..Len(Tail(s)) /\ Tail(s)[i - 1] = x
    BY <1>1, <2>1
  <2> QED
    BY <1>1, <1>2, <2>1, <2>2
<1>4. ASSUME NEW x, x \in Range(Tail(s)) PROVE x \in Range(s)
  <2>1. PICK i \in 1..Len(Tail(s)) : Tail(s)[i] = x
    BY <1>2, <1>4
  <2>2. i + 1 \in 1..Len(s) /\ s[i + 1] = x
    BY <1>1, <2>1
  <2> QED
    BY <1>2, <2>2
<1>5. Head(s) \in Range(s) /\ Head(s) \in Step
  BY <1>1, <1>2
<1>6. ASSUME Len(s) > 1, Tail(s) = <<>> PROVE FALSE
  <2> DEFINE t == Tail(s)
  <2> DEFINE n == Len(s)
  <2>1. t = <<>> /\ n \in Nat /\ n > 1 /\ Len(t) = n - 1
    BY <1>1, <1>6
  <2> HIDE DEF t, n
  <2> QED
    BY <2>1
<1>7. ~(Len(s) > 1) => \A x : x \notin Range(Tail(s))
  BY <1>1, <1>2
<1> QED
  BY <1>1, <1>3, <1>4, <1>5, <1>6, <1>7

\* A command that has dealt with one service goes on with the next, or ends; then
\* the handler that waits for it answers.
LEMMA OnwardFacts ==
    ASSUME TypeInv, Places, NEW p \in Process, Working(p), Onward(p)
    PROVE  /\ cmd' \in [Process -> Commands] /\ req' \in [Client -> Requests]
           /\ \A q \in Process \ {p} : cmd'[q] = cmd[q]
           /\ \A c \in Client \ {p} : req'[c] = req[c]
           /\ \/ /\ UNCHANGED req
                 /\ cmd'[p] = [op |-> cmd[p].op, todo |-> Tail(cmd[p].todo)]
                 /\ cmd'[p] # NoCommand
              \/ /\ cmd'[p] = NoCommand /\ Range(cmd[p].todo) = {Upcoming(p)}
                 /\ p \in Client =>
                      \/ req[p].at # "child" /\ req'[p] = req[p]
                      \/ /\ req[p].at = "child"
                         /\ \/ req[p].op = "status" /\ req'[p] = Idle
                            \/ req'[p] = [op |-> req[p].op, at |-> "answer"]
<1>1. /\ cmd[p] \in [op : StackOps, todo : Seq(Step) \ {<<>>}]
      /\ req \in [Client -> Requests] /\ p \in DOMAIN cmd
  BY DEF TypeInv, Commands, Working
<1>2. /\ Tail(cmd[p].todo) \in Seq(Step)
      /\ Range(cmd[p].todo) = {Upcoming(p)} \cup Range(Tail(cmd[p].todo))
      /\ Len(cmd[p].todo) > 1 => Tail(cmd[p].todo) # <<>>
      /\ ~(Len(cmd[p].todo) > 1) => Range(Tail(cmd[p].todo)) = {}
  BY <1>1, TailFacts DEF Upcoming
<1>3. CASE Len(cmd[p].todo) > 1
  <2> DEFINE x == [op |-> cmd[p].op, todo |-> Tail(cmd[p].todo)]
  <2>1. x \in Commands /\ x # NoCommand
    BY <1>1, <1>2, <1>3 DEF Commands, NoCommand, StackOps
  <2>2. cmd' = [cmd EXCEPT ![p] = x] /\ UNCHANGED req
    BY <1>1, <1>3 DEF Onward
  <2>3. cmd' \in [Process -> Commands] /\ cmd'[p] = x
        /\ \A q \in Process \ {p} : cmd'[q] = cmd[q]
    <3> HIDE DEF x
    <3> QED
      BY <2>1, <2>2, CommandSet
  <2> QED
    BY <1>1, <2>1, <2>2, <2>3
<1>4. CASE ~(Len(cmd[p].todo) > 1)
  <2>1. cmd' = [cmd EXCEPT ![p] = NoCommand] /\ Wakes(p, TRUE)
    BY <1>4 DEF Onward
  <2>2. /\ cmd' \in [Process -> Commands] /\ cmd'[p] = NoCommand
        /\ \A q \in Process \ {p} : cmd'[q] = cmd[q]
    BY <2>1, CommandSet DEF Commands
  <2>3. Range(cmd[p].todo) = {Upcoming(p)}
    BY <1>2, <1>4
  <2>4. CASE p \in Client /\ req[p].at = "child"
    <3>1. req[p] # Idle
      BY <2>4 DEF Idle
    <3> DEFINE r == IF req[p].op # "status" THEN [op |-> req[p].op, at |-> "answer"]
                                            ELSE Idle
    <3>2. r \in Requests
      BY <2>4, <3>1, RequestFacts DEF Requests
    <3>3. req' = [req EXCEPT ![p] = r]
      BY <2>1, <2>4, <3>1, RequestFacts DEF Wakes, Answering, Through
    <3>4. req' \in [Client -> Requests] /\ req'[p] = r
          /\ \A c \in Client \ {p} : req'[c] = req[c]
      <4> HIDE DEF r
      <4> QED
        BY <2>4, <3>2, <3>3, RequestSet
    <3> QED
      BY <2>2, <2>3, <2>4, <3>4
  <2>5. CASE ~(p \in Client /\ req[p].at = "child")
    <3>1. UNCHANGED req
      BY <2>1, <2>5 DEF Wakes
    <3> QED
      BY <1>1, <2>2, <2>3, <2>5, <3>1
  <2> QED
    BY <2>4, <2>5
<1> QED
  BY <1>3, <1>4

\* A command that fails ends, and the handler that waits for it answers an error.
LEMMA FailFacts ==
    ASSUME TypeInv, NEW p \in Process, CommandFails(p)
    PROVE  /\ cmd' \in [Process -> Commands] /\ req' \in [Client -> Requests]
           /\ \A q \in Process \ {p} : cmd'[q] = cmd[q]
           /\ \A c \in Client \ {p} : req'[c] = req[c]
           /\ cmd'[p] = NoCommand
           /\ p \in Client => req'[p] = IF req[p].at = "child" THEN Idle ELSE req[p]
<1>1. cmd' = [cmd EXCEPT ![p] = NoCommand] /\ Wakes(p, FALSE)
  BY DEF CommandFails
<1>2. /\ cmd' \in [Process -> Commands] /\ cmd'[p] = NoCommand
      /\ \A q \in Process \ {p} : cmd'[q] = cmd[q]
  BY <1>1, CommandSet DEF Commands
<1>3. CASE p \in Client /\ req[p].at = "child"
  <2>1. req' = [req EXCEPT ![p] = Idle] /\ Idle \in Requests
    BY <1>1, <1>3 DEF Wakes, Through, Requests
  <2>2. req' \in [Client -> Requests] /\ req'[p] = Idle
        /\ \A c \in Client \ {p} : req'[c] = req[c]
    BY <1>3, <2>1, RequestSet
  <2> QED
    BY <1>2, <1>3, <2>2
<1>4. CASE ~(p \in Client /\ req[p].at = "child")
  <2>1. UNCHANGED req
    BY <1>1, <1>4 DEF Wakes
  <2> QED
    BY <1>2, <1>4, <2>1 DEF TypeInv
<1> QED
  BY <1>3, <1>4

\* The commands that a handler starts.
LEMMA TodoFacts ==
    ASSUME NEW op \in StackOps, NEW overlay \in BOOLEAN
    PROVE  /\ Files(overlay) \in Seq(Service)
           /\ Range(Files(overlay)) = Range(Base) \cup (IF overlay THEN {Tunnel} ELSE {})
           /\ Todo(op, overlay) \in Seq(Step) \ {<<>>}
           /\ op \in {"up", "down"} =>
                Range(Files(overlay)) \subseteq Range(Todo(op, overlay))
<1>1. Base \in Seq(Service) /\ Tunnel \in Service /\ Service \subseteq Step
  BY BaseAssumption, SeqMonotonic DEF Service, Step
<1>2. \A x : x \in Range(Base) <=> \E i \in 1..Len(Base) : Base[i] = x
  BY BaseAssumption, RangeFacts
<1> DEFINE f == Files(overlay)
<1> DEFINE first == IF overlay THEN "parse with token" ELSE "parse"
<1>3. f \in Seq(Service)
  BY <1>1 DEF Files
<1>4. Range(f) = Range(Base) \cup (IF overlay THEN {Tunnel} ELSE {})
  <2>1. CASE overlay
    <3>1. /\ f = Append(Base, Tunnel) /\ Len(f) = Len(Base) + 1 /\ Len(Base) \in Nat
          /\ f[Len(Base) + 1] = Tunnel
          /\ \A i \in 1..Len(Base) : f[i] = Base[i]
      BY <1>1, <2>1 DEF Files
    <3>2. \A x : x \in Range(f) <=> \E i \in 1..Len(f) : f[i] = x
      BY <1>3, RangeFacts
    <3> HIDE DEF f
    <3>3. \A i \in 1..Len(f) : i \in 1..Len(Base) \/ i = Len(Base) + 1
      BY <3>1
    <3>4. ASSUME NEW x PROVE x \in Range(f) <=> x \in Range(Base) \/ x = Tunnel
      BY <1>2, <3>1, <3>2, <3>3
    <3> QED
      BY <2>1, <3>4
  <2>2. CASE ~overlay
    BY <2>2 DEF Files
  <2> QED
    BY <2>1, <2>2
<1> HIDE DEF f
<1>5. first \in Step
  BY DEF Step
<1>6. ASSUME NEW s \in Seq(Service)
      PROVE  /\ <<first>> \o s \in Seq(Step) \ {<<>>}
             /\ Range(s) \subseteq Range(<<first>> \o s)
  <2> DEFINE t == <<first>> \o s
  <2> HIDE DEF first
  <2>1. s \in Seq(Step) /\ <<first>> \in Seq(Step) /\ Len(<<first>>) = 1
    <3>1. s \in Seq(Step)
      BY <1>1, SeqMonotonic
    <3>2. <<first>> \in Seq(Step) /\ Len(<<first>>) = 1
      BY <1>5
    <3> QED
      BY <3>1, <3>2
  <2>2. /\ t \in Seq(Step) /\ Len(t) = 1 + Len(s) /\ Len(s) \in Nat
        /\ \A i \in 1..Len(s) : t[1 + i] = s[i]
    BY <2>1
  <2> HIDE DEF t
  <2>3. /\ \A x : x \in Range(s) <=> \E i \in 1..Len(s) : s[i] = x
        /\ \A x : x \in Range(t) <=> \E i \in 1..Len(t) : t[i] = x
    BY <2>1, <2>2, RangeFacts
  <2>4. ASSUME NEW x \in Range(s) PROVE x \in Range(t)
    <3>1. PICK i \in 1..Len(s) : s[i] = x
      BY <2>3
    <3>2. 1 + i \in 1..Len(t)
      BY <2>2
    <3> QED
      BY <2>2, <2>3, <3>1, <3>2
  <2>5. t # <<>>
    BY <2>2
  <2> QED
    BY <2>2, <2>4, <2>5 DEF t
<1>7. Reverse(f) \in Seq(Service) /\ Range(Reverse(f)) = Range(f)
  <2> DEFINE r == Reverse(f)
  <2>1. Len(f) \in Nat /\ f \in Seq(Service)
    BY <1>3
  <2>2. r = [i \in 1..Len(f) |-> f[(Len(f) - i) + 1]]
    BY DEF Reverse
  <2>3. \A i \in 1..Len(f) : (Len(f) - i) + 1 \in 1..Len(f)
    BY <2>1
  <2>4. r \in Seq(Service) /\ Len(r) = Len(f)
    BY <2>1, <2>2, <2>3
  <2> HIDE DEF r
  <2>5. /\ \A x : x \in Range(f) <=> \E i \in 1..Len(f) : f[i] = x
        /\ \A x : x \in Range(r) <=> \E i \in 1..Len(r) : r[i] = x
    BY <2>1, <2>4, RangeFacts
  <2>6. \A i \in 1..Len(f) : r[i] = f[(Len(f) - i) + 1] /\ r[(Len(f) - i) + 1] = f[i]
    <3> SUFFICES ASSUME NEW i \in 1..Len(f)
                 PROVE  r[i] = f[(Len(f) - i) + 1] /\ r[(Len(f) - i) + 1] = f[i]
      OBVIOUS
    <3>1. (Len(f) - ((Len(f) - i) + 1)) + 1 = i
      BY <2>1
    <3> QED
      BY <2>2, <2>3, <3>1
  <2>7. Range(r) = Range(f)
    BY <2>3, <2>4, <2>5, <2>6
  <2> QED
    BY <2>4, <2>7 DEF r
<1>8. Todo(op, overlay) = <<first>> \o CASE op = "up" -> f
                                          [] op = "down" -> Reverse(f)
                                          [] op = "status" -> <<>>
  BY DEF Todo, f
<1> HIDE DEF first
<1>9. CASE op = "up"
  <2>1. Todo(op, overlay) = <<first>> \o f
    BY <1>8, <1>9
  <2> QED
    BY <1>3, <1>4, <1>6, <2>1 DEF f
<1>10. CASE op = "down"
  <2>1. Todo(op, overlay) = <<first>> \o Reverse(f)
    BY <1>8, <1>10
  <2>2. /\ Todo(op, overlay) \in Seq(Step) \ {<<>>}
        /\ Range(f) \subseteq Range(Todo(op, overlay))
    BY <1>6, <1>7, <2>1
  <2> QED
    BY <1>3, <1>4, <2>2 DEF f
<1>11. CASE op = "status"
  <2>1. Todo(op, overlay) = <<first>> \o <<>>
    BY <1>8, <1>11
  <2>2. <<>> \in Seq(Service)
    OBVIOUS
  <2> QED
    BY <1>3, <1>4, <1>6, <1>11, <2>1, <2>2 DEF f
<1> QED
  BY <1>9, <1>10, <1>11 DEF StackOps

\* Whether the second file is in use is a question of yes or no, and no other
\* files are ever passed than those of the services.
LEMMA OverlayFacts ==
    ASSUME TypeInv
    PROVE  /\ Overlay \in BOOLEAN
           /\ Range(Files(Overlay)) =
                 Range(Base) \cup (IF Overlay THEN {Tunnel} ELSE {})
           /\ Range(Files(Overlay)) \subseteq Service
<1>1. Overlay \in BOOLEAN
  BY DEF Overlay
<1> QED
  BY <1>1, TodoFacts DEF StackOps, Service

\* No file comes in use unless a token is put in.
LEMMA FilesLeft ==
    ASSUME TypeInv, TypeInv', Overlay' => Overlay
    PROVE  Range(Files(Overlay')) \subseteq Range(Files(Overlay))
<1>1. Overlay \in BOOLEAN /\ Overlay' \in BOOLEAN
  BY OverlayAssumption DEF Overlay, HasToken, TypeInv
<1>2. \A b \in BOOLEAN :
        Range(Files(b)) = Range(Base) \cup (IF b THEN {Tunnel} ELSE {})
  BY TodoFacts DEF StackOps
<1>3. CASE Overlay
  BY <1>1, <1>2, <1>3
<1>4. CASE ~Overlay
  BY <1>1, <1>2, <1>4
<1> QED
  BY <1>3, <1>4

(***************************************************************************)
(* Types and places                                                        *)
(***************************************************************************)
\* Where a step has left a client's request and command, and whether it counts as
\* calm.
PlaceOf(c) ==
    /\ req[c].at = "child" => cmd[c] # NoCommand /\ cmd[c].op = req[c].op
    /\ cmd[c] # NoCommand => req[c] = Idle \/ req[c].at = "child"
    /\ c \in calm => /\ req[c].at \in {"child", "answer"}
                     /\ req[c].op \in {"up", "down"}

\* What changes neither a client's request nor its command, and makes it calm no
\* more than it was, leaves it in its place.
LEMMA StaysInPlace ==
    ASSUME Places, NEW c \in Client, req'[c] = req[c], cmd'[c] = cmd[c],
           c \in calm' => c \in calm
    PROVE  PlaceOf(c)'
BY DEF Places, PlaceOf

\* A handler runs one command after another, or none, and answers.
LEMMA HandlerKeepsCore ==
    ASSUME TypeInv, Places, NEW c \in Client, Handler(c)
    PROVE  TypeInv' /\ Places'
<1> USE DEF Process
<1>0. c \in Process /\ \A d \in Client : d \in Process
  OBVIOUS
<1> SUFFICES /\ req' \in [Client -> Requests] /\ cmd' \in [Process -> Commands]
             /\ calm' \subseteq Client /\ pending' \in BOOLEAN
             /\ UNCHANGED <<agent, token, docker, bounds>>
             /\ \A d \in Client : PlaceOf(d)'
  BY DEF TypeInv, Places, PlaceOf, docker, bounds
<1>1. CASE Refuse(c)
  <2>1. req' = [req EXCEPT ![c] = Idle] /\ Idle \in Requests /\ req[c].at = "handler"
        /\ UNCHANGED <<agent, cmd, token, docker, pending, calm, bounds>>
    BY <1>1 DEF Refuse, Handling, Through, Requests
  <2>2. req' \in [Client -> Requests] /\ req'[c] = Idle
        /\ \A d \in Client \ {c} : req'[d] = req[d]
    BY <2>1, RequestSet
  <2>3. PlaceOf(c)'
    BY <2>1, <2>2 DEF PlaceOf, Places, Idle
  <2>4. \A d \in Client \ {c} : PlaceOf(d)'
    BY <2>1, <2>2, StaysInPlace
  <2> QED
    BY <2>1, <2>2, <2>3, <2>4 DEF TypeInv
<1>2. ASSUME NEW op \in StackOps, RunsCompose(c, op), calm' \subseteq calm \cup {c},
             op = "status" => calm' = calm
      PROVE  /\ req' \in [Client -> Requests] /\ cmd' \in [Process -> Commands]
             /\ calm' \subseteq Client /\ pending' \in BOOLEAN
             /\ UNCHANGED <<agent, token, docker, bounds>>
             /\ \A d \in Client : PlaceOf(d)'
  <2> DEFINE r == [op |-> op, at |-> "child"]
  <2> DEFINE x == [op |-> op, todo |-> Todo(op, Overlay)]
  <2>1. req[c] = [op |-> op, at |-> "handler"] /\ req[c] # Idle /\ r \in Requests
    BY <1>2 DEF RunsCompose, Handling, Idle, Requests, Ops
  <2>2. /\ req' = [req EXCEPT ![c] = r] /\ cmd' = [cmd EXCEPT ![c] = x]
        /\ UNCHANGED <<agent, token, docker, pending, bounds>>
    <3>1. /\ req' = [req EXCEPT ![c].at = "child"] /\ cmd' = [cmd EXCEPT ![c] = x]
          /\ UNCHANGED <<agent, token, docker, pending, bounds>>
      BY <1>2 DEF RunsCompose
    <3>2. req[c].op = op
      BY <2>1
    <3>3. [req EXCEPT ![c].at = "child"] =
             [req EXCEPT ![c] = [op |-> req[c].op, at |-> "child"]]
      BY <2>1, RequestFacts
    <3> QED
      BY <3>1, <3>2, <3>3
  <2>3. x \in Commands /\ x # NoCommand
    BY TodoFacts, OverlayFacts DEF Commands, NoCommand, StackOps
  <2>4. x.op = op /\ r.op = op /\ r.at = "child"
    OBVIOUS
  <2> HIDE DEF r, x
  <2>5. /\ req' \in [Client -> Requests] /\ req'[c] = r
        /\ \A d \in Client \ {c} : req'[d] = req[d]
    BY <2>1, <2>2, RequestSet
  <2>6. /\ cmd' \in [Process -> Commands] /\ cmd'[c] = x
        /\ \A q \in Process \ {c} : cmd'[q] = cmd[q]
    BY <1>0, <2>2, <2>3, CommandSet
  <2>7. PlaceOf(c)'
    <3>1. c \in calm' => op \in {"up", "down"}
      BY <1>2, <2>1 DEF Places, StackOps
    <3> QED
      BY <2>3, <2>4, <2>5, <2>6, <3>1 DEF PlaceOf
  <2>8. \A d \in Client \ {c} : PlaceOf(d)'
    BY <1>2, <2>5, <2>6, StaysInPlace
  <2> QED
    BY <1>2, <2>2, <2>5, <2>6, <2>7, <2>8 DEF TypeInv
<1>3. CASE StackUp(c)
  BY <1>2, <1>3 DEF StackUp, StackOps
<1>4. CASE StackDown(c)
  BY <1>2, <1>4 DEF StackDown, StackOps
<1>5. CASE StackStatus(c)
  BY <1>2, <1>5 DEF StackStatus, StackOps
<1>6. CASE ScheduleReboot(c) \/ CancelReboot(c) \/ EnableWakeOnLAN(c)
  <2>1. /\ req' = [req EXCEPT ![c] = Idle] /\ Idle \in Requests
        /\ req[c].at = "handler"
        /\ UNCHANGED <<agent, cmd, token, docker, calm, bounds>>
    BY <1>6 DEF ScheduleReboot, CancelReboot, EnableWakeOnLAN, Handling, Through,
       Requests
  <2>2. pending' \in BOOLEAN
    <3>1. pending' = TRUE \/ pending' = FALSE \/ pending' = pending
      BY <1>6, Zenon
      DEF ScheduleReboot, Schedule, CancelReboot, Abort, EnableWakeOnLAN
    <3> QED
      BY <3>1, Zenon DEF TypeInv
  <2>3. req' \in [Client -> Requests] /\ req'[c] = Idle
        /\ \A d \in Client \ {c} : req'[d] = req[d]
    BY <2>1, RequestSet
  <2>4. PlaceOf(c)'
    BY <2>1, <2>3 DEF PlaceOf, Places, Idle
  <2>5. \A d \in Client \ {c} : PlaceOf(d)'
    BY <2>1, <2>3, StaysInPlace
  <2> QED
    BY <2>1, <2>2, <2>3, <2>4, <2>5 DEF TypeInv
<1>7. CASE Answer(c)
  <2>1. /\ req' = [req EXCEPT ![c] = Idle] /\ Idle \in Requests
        /\ req[c].at = "answer" /\ calm' = calm \ {c}
        /\ UNCHANGED <<agent, cmd, token, docker, pending, bounds>>
    BY <1>7 DEF Answer, Requests
  <2>2. req' \in [Client -> Requests] /\ req'[c] = Idle
        /\ \A d \in Client \ {c} : req'[d] = req[d]
    BY <2>1, RequestSet
  <2>3. PlaceOf(c)'
    BY <2>1, <2>2 DEF PlaceOf, Places, Idle
  <2>4. \A d \in Client \ {c} : PlaceOf(d)'
    BY <2>1, <2>2, StaysInPlace
  <2> QED
    BY <2>1, <2>2, <2>3, <2>4 DEF TypeInv
<1> QED
  BY <1>1, <1>3, <1>4, <1>5, <1>6, <1>7 DEF Handler

\* So does a command that goes on, ends or fails.
LEMMA CommandKeepsCore ==
    ASSUME TypeInv, Places, NEW p \in Process, Command(p)
    PROVE  TypeInv' /\ Places'
<1>1. /\ Working(p)
      /\ cmd[p] \in [op : StackOps, todo : Seq(Step) \ {<<>>}]
  BY DEF Command, Parse, StartService, StopService, CommandFails, Working, TypeInv,
         Commands
<1>2. /\ up' \subseteq Service /\ before' \subseteq up' /\ calm' \subseteq calm
      /\ UNCHANGED <<agent, token, engine, logged, pending, bounds>>
  BY DEF Command, Parse, StartService, StopService, CommandFails, TypeInv, docker
<1>3. /\ req' \in [Client -> Requests] /\ cmd' \in [Process -> Commands]
      /\ \A q \in Process \ {p} : cmd'[q] = cmd[q]
      /\ \A c \in Client \ {p} : req'[c] = req[c]
      /\ p \in Client => PlaceOf(p)'
  <2>1. ASSUME Parse(p) \/ StartService(p) \/ StopService(p)
        PROVE  /\ req' \in [Client -> Requests] /\ cmd' \in [Process -> Commands]
               /\ \A q \in Process \ {p} : cmd'[q] = cmd[q]
               /\ \A c \in Client \ {p} : req'[c] = req[c]
               /\ p \in Client => PlaceOf(p)'
    <3>1. Onward(p)
      BY <2>1 DEF Parse, StartService, StopService
    <3>2. /\ cmd' \in [Process -> Commands] /\ req' \in [Client -> Requests]
          /\ \A q \in Process \ {p} : cmd'[q] = cmd[q]
          /\ \A c \in Client \ {p} : req'[c] = req[c]
      BY <1>1, <3>1, OnwardFacts
    <3>3. ASSUME p \in Client PROVE PlaceOf(p)'
      <4>1. CASE /\ UNCHANGED req
                 /\ cmd'[p] = [op |-> cmd[p].op, todo |-> Tail(cmd[p].todo)]
                 /\ cmd'[p] # NoCommand
        <5>1. /\ req[p].at = "child" => cmd[p].op = req[p].op
              /\ req[p] = Idle \/ req[p].at = "child"
              /\ p \in calm => /\ req[p].at \in {"child", "answer"}
                               /\ req[p].op \in {"up", "down"}
          BY <1>1, <3>3 DEF Places, Working
        <5>2. cmd'[p].op = cmd[p].op /\ req'[p] = req[p]
          BY <4>1
        <5> QED
          BY <1>2, <4>1, <5>1, <5>2 DEF PlaceOf
      <4>2. CASE cmd'[p] = NoCommand /\ req[p].at # "child" /\ req'[p] = req[p]
        BY <1>2, <3>3, <4>2 DEF PlaceOf, Places
      <4>3. CASE cmd'[p] = NoCommand /\ req[p].at = "child" /\ req[p].op = "status"
                 /\ req'[p] = Idle
        <5>1. p \notin calm
          BY <3>3, <4>3 DEF Places
        <5> QED
          BY <1>2, <4>3, <5>1 DEF PlaceOf, Idle
      <4>4. CASE cmd'[p] = NoCommand /\ req[p].at = "child"
                 /\ req'[p] = [op |-> req[p].op, at |-> "answer"]
        <5>1. p \in calm => req[p].op \in {"up", "down"}
          BY <3>3 DEF Places
        <5>2. req'[p].at = "answer" /\ req'[p].op = req[p].op
          BY <4>4
        <5> QED
          BY <1>2, <4>4, <5>1, <5>2 DEF PlaceOf
      <4> QED
        BY <1>1, <3>1, <3>3, <4>1, <4>2, <4>3, <4>4, OnwardFacts
    <3> QED
      BY <3>2, <3>3
  <2>2. CASE CommandFails(p)
    <3>1. /\ cmd' \in [Process -> Commands] /\ req' \in [Client -> Requests]
          /\ \A q \in Process \ {p} : cmd'[q] = cmd[q]
          /\ \A c \in Client \ {p} : req'[c] = req[c]
          /\ cmd'[p] = NoCommand
          /\ p \in Client => req'[p] = IF req[p].at = "child" THEN Idle ELSE req[p]
      BY <2>2, FailFacts
    <3>2. p \notin calm'
      BY <2>2 DEF CommandFails
    <3>3. p \in Client => PlaceOf(p)'
      BY <3>1, <3>2 DEF PlaceOf, Idle
    <3> QED
      BY <3>1, <3>3
  <2> QED
    BY <2>1, <2>2 DEF Command
<1>4. \A c \in Client \ {p} : PlaceOf(c)'
  BY <1>2, <1>3, StaysInPlace DEF Process
<1>5. \A c \in Client : PlaceOf(c)'
  BY <1>3, <1>4
<1> QED
  BY <1>2, <1>3, <1>5 DEF TypeInv, Places, PlaceOf, bounds

\* And everything else that happens to the PC.
LEMMA CoreStep == TypeInv /\ Places /\ [Next]_vars => TypeInv' /\ Places'
<1> SUFFICES ASSUME TypeInv, Places, [Next]_vars PROVE TypeInv' /\ Places'
  OBVIOUS
<1>1. ASSUME NEW c \in Client, Handler(c) PROVE TypeInv' /\ Places'
  BY <1>1, HandlerKeepsCore
<1>2. ASSUME NEW p \in Process, Command(p) PROVE TypeInv' /\ Places'
  BY <1>2, CommandKeepsCore
<1>3. ASSUME NEW c \in Client, NEW op \in Ops, Request(c, op)
      PROVE  TypeInv' /\ Places'
  <2> DEFINE r == [op |-> op, at |-> "handler"]
  <2>1. /\ req[c] = Idle /\ cmd[c] = NoCommand /\ r \in Requests
        /\ req' = [req EXCEPT ![c] = r]
        /\ UNCHANGED <<agent, cmd, token, docker, pending, calm, bounds>>
    BY <1>3 DEF Request, Requests
  <2>2. /\ req' \in [Client -> Requests] /\ req'[c] = r
        /\ \A d \in Client \ {c} : req'[d] = req[d]
    <3> HIDE DEF r
    <3> QED
      BY <2>1, RequestSet
  <2>3. PlaceOf(c)'
    BY <2>1, <2>2 DEF PlaceOf, Places, Idle
  <2>4. \A d \in Client \ {c} : PlaceOf(d)'
    BY <2>1, <2>2, StaysInPlace
  <2> QED
    BY <2>1, <2>2, <2>3, <2>4
       DEF TypeInv, Places, PlaceOf, docker, bounds
<1>4. ASSUME UNCHANGED <<req, cmd>>, calm' \subseteq calm PROVE Places'
  BY <1>4 DEF Places
<1>5. CASE EditToken
  BY <1>4, <1>5, BoundAssumption DEF EditToken, TypeInv, docker
<1>6. CASE AgentDies \/ Restart
  <2>1. /\ \A c \in Client : req'[c] = Idle
        /\ req' \in [Client -> Requests] /\ calm' = {}
    BY <1>6 DEF AgentDies, Restart, Requests
  <2>2. edits' \in 0..MaxEdits /\ faults' \in 0..MaxFaults
    BY <1>6, BoundAssumption DEF AgentDies, Restart, Fault, TypeInv
  <2>3. CASE AgentDies
    <3>1. agent' = FALSE /\ UNCHANGED <<cmd, token, docker, pending>>
      BY <2>3 DEF AgentDies
    <3>2. Places'
      BY <2>1 DEF Places, Idle
    <3> QED
      BY <2>1, <2>2, <3>1, <3>2 DEF TypeInv, docker
  <2>4. CASE Restart
    <3>1. /\ agent' = FALSE /\ engine' = FALSE /\ logged' = FALSE
          /\ pending' = FALSE /\ token' = token
          /\ up' = up /\ before' \subseteq up
      BY <2>4 DEF Restart, Survivors, Running
    <3>2. cmd' \in [Process -> Commands]
      BY <2>4 DEF Restart, TypeInv, Commands
    <3>3. Places'
      BY <2>1 DEF Places, Idle
    <3> QED
      BY <2>1, <2>2, <3>1, <3>2, <3>3 DEF TypeInv
  <2> QED
    BY <1>6, <2>3, <2>4
<1>7. CASE AgentStarts
  <2>1. /\ agent' = TRUE
        /\ UNCHANGED <<req, cmd, token, engine, logged, up, before, pending, calm,
                       bounds>>
    BY <1>7 DEF AgentStarts, docker
  <2> QED
    BY <1>4, <2>1 DEF TypeInv, bounds
<1>12. CASE EngineStarts
  <2>1. /\ logged /\ engine' = TRUE
        /\ UNCHANGED <<agent, req, cmd, token, logged, up, before, pending, calm,
                       bounds>>
    BY <1>12 DEF EngineStarts
  <2> QED
    BY <1>4, <2>1 DEF TypeInv, bounds
<1>8. CASE EngineStops
  <2>1. /\ engine' = FALSE /\ calm' \subseteq calm
        /\ UNCHANGED <<agent, req, cmd, token, logged, up, before, pending, edits>>
    BY <1>8 DEF EngineStops
  <2>2. faults' \in 0..MaxFaults
    BY <1>8, BoundAssumption DEF EngineStops, Fault, TypeInv
  <2> QED
    BY <1>4, <2>1, <2>2 DEF TypeInv
<1>9. CASE LogOn
  <2> DEFINE x == [op |-> "up", todo |-> <<"parse">> \o Base]
  <2>1. /\ cmd' = [cmd EXCEPT ![LogonTask] = x] /\ logged' = TRUE
        /\ UNCHANGED <<agent, req, token, engine, up, before, pending, calm, bounds>>
    BY <1>9 DEF LogOn
  <2>2. x \in Commands
    BY TodoFacts DEF Todo, Files, Commands, StackOps
  <2>3. /\ cmd' \in [Process -> Commands]
        /\ \A q \in Process \ {LogonTask} : cmd'[q] = cmd[q]
    <3> HIDE DEF x
    <3> QED
      BY <2>1, <2>2, CommandSet DEF Process
  <2>4. \A c \in Client : cmd'[c] = cmd[c]
    BY <2>3, TaskAssumption DEF Process
  <2>5. Places'
    BY <2>1, <2>4 DEF Places
  <2> QED
    BY <2>1, <2>3, <2>5 DEF TypeInv, bounds
<1>10. CASE UNCHANGED vars
  BY <1>4, <1>10 DEF vars, TypeInv, docker, bounds
<1>11. DOMAIN cmd = Process
  BY DEF TypeInv
<1> QED
  BY <1>1, <1>2, <1>3, <1>5, <1>6, <1>7, <1>8, <1>9, <1>10, <1>11,
     <1>12 DEF Next

(***************************************************************************)
(* Requests that nothing works against                                     *)
(***************************************************************************)
\* A step leaves the request of a calm client and its command alone.
Unmoved(c) == c \in calm /\ req'[c] = req[c] /\ cmd'[c] = cmd[c]

\* Either a handler leaves a calm client alone, or it has just started its command.
LEMMA CalmHandler ==
    ASSUME TypeInv, Places, Places', NEW d \in Client, Handler(d),
           NEW c \in Client, c \in calm'
    PROVE  /\ UNCHANGED <<token, engine, up>>
           /\ \/ Unmoved(c)
              \/ /\ req'[c].at = "child" /\ req'[c].op \in {"up", "down"}
                 /\ Range(Files(Overlay)) \subseteq Range(cmd'[c].todo)
<1>1. UNCHANGED <<token, engine, up>>
  BY DEF Handler, Refuse, StackUp, StackDown, StackStatus, RunsCompose, ScheduleReboot,
         CancelReboot, EnableWakeOnLAN, Answer, docker
<1>2. req'[c].at \in {"child", "answer"} /\ req'[c].op \in {"up", "down"}
  BY DEF Places
<1>3. CASE d # c
  <2>1. req'[c] = req[c]
    BY <1>3 DEF Handler, Refuse, StackUp, StackDown, StackStatus, RunsCompose,
       ScheduleReboot, CancelReboot, EnableWakeOnLAN, Answer, Through, TypeInv
  <2>2. cmd'[c] = cmd[c]
    BY <1>3 DEF Handler, Refuse, StackUp, StackDown, StackStatus, RunsCompose,
       ScheduleReboot, CancelReboot, EnableWakeOnLAN, Answer, TypeInv, Process
  <2>3. c \in calm
    BY <1>3 DEF Handler, Refuse, StackUp, StackDown, StackStatus, RunsCompose,
       ScheduleReboot, CancelReboot, EnableWakeOnLAN, Answer
  <2> QED
    BY <1>1, <2>1, <2>2, <2>3 DEF Unmoved
<1>4. CASE d = c
  <2>1. CASE \/ Refuse(c) \/ Answer(c)
             \/ ScheduleReboot(c) \/ CancelReboot(c) \/ EnableWakeOnLAN(c)
    <3>1. req'[c] = Idle
      BY <2>1 DEF Refuse, ScheduleReboot, CancelReboot, EnableWakeOnLAN, Answer,
         Through, TypeInv
    <3> QED
      BY <1>2, <3>1 DEF Idle
  <2>2. ASSUME NEW op \in StackOps, RunsCompose(c, op)
        PROVE  /\ req'[c].at = "child" /\ req'[c].op = op
               /\ cmd'[c].todo = Todo(op, Overlay)
    <3>1. /\ req[c] = [op |-> op, at |-> "handler"] /\ c \in DOMAIN req
          /\ c \in DOMAIN cmd /\ req' = [req EXCEPT ![c].at = "child"]
          /\ cmd' = [cmd EXCEPT ![c] = [op |-> op, todo |-> Todo(op, Overlay)]]
      BY <2>2 DEF RunsCompose, Handling, TypeInv, Process
    <3> QED
      BY <3>1
  <2>3. ASSUME NEW op \in {"up", "down"}, RunsCompose(c, op)
        PROVE  /\ req'[c].at = "child" /\ req'[c].op \in {"up", "down"}
               /\ Range(Files(Overlay)) \subseteq Range(cmd'[c].todo)
    <3>1. /\ req'[c].at = "child" /\ req'[c].op = op
          /\ cmd'[c].todo = Todo(op, Overlay)
      BY <2>2, <2>3 DEF StackOps
    <3>2. Range(Files(Overlay)) \subseteq Range(Todo(op, Overlay))
      BY TodoFacts, OverlayFacts DEF StackOps
    <3> QED
      BY <3>1, <3>2
  <2>4. CASE StackUp(c) \/ StackDown(c)
    BY <1>1, <2>3, <2>4 DEF StackUp, StackDown
  <2>5. CASE StackStatus(c)
    <3>1. req'[c].op = "status"
      BY <2>2, <2>5 DEF StackStatus, StackOps
    <3> QED
      BY <1>2, <3>1
  <2> QED
    BY <1>4, <2>1, <2>4, <2>5 DEF Handler
<1> QED
  BY <1>3, <1>4

\* What a client's own command deals with is what comes next in it; another one
\* starts or stops only what is to the liking of a client that stays calm.
LEMMA CalmCommand ==
    ASSUME TypeInv, Places, Places', NEW p \in Process, Command(p),
           NEW c \in Client, c \in calm'
    PROVE  /\ c \in calm /\ req'[c].op = req[c].op /\ UNCHANGED <<token, engine>>
           /\ \/ /\ Unmoved(c)
                 /\ req[c].op = "up" => up \subseteq up'
                 /\ req[c].op = "down" => up' \subseteq up
              \/ /\ req[c].op \in StackOps /\ engine
                 /\ Remaining(c) \subseteq {Upcoming(c)} \cup Remaining(c)'
                 /\ \/ Upcoming(c) \notin Service /\ UNCHANGED up
                    \/ req[c].op = "up" /\ up' = up \cup {Upcoming(c)}
                    \/ req[c].op = "down" /\ up' = up \ {Upcoming(c)}
<1>1. c \in calm /\ UNCHANGED <<token, engine>> /\ Working(p)
  BY DEF Command, Parse, StartService, StopService, CommandFails, docker
<1>2. CASE CommandFails(p)
  <2>1. c # p /\ UNCHANGED up
    BY <1>2 DEF CommandFails, docker
  <2>2. req'[c] = req[c] /\ cmd'[c] = cmd[c]
    BY <1>2, <2>1, FailFacts DEF Process
  <2> QED
    BY <1>1, <2>1, <2>2 DEF Unmoved
<1>3. CASE Parse(p) \/ StartService(p) \/ StopService(p)
  <2>1. Onward(p) /\ engine
    BY <1>3 DEF Parse, StartService, StopService
  <2>2. CASE c # p
    <3>1. req'[c] = req[c] /\ cmd'[c] = cmd[c]
      BY <1>1, <2>1, <2>2, OnwardFacts DEF Process
    <3>2. /\ req[c].op = "up" => up \subseteq up'
          /\ req[c].op = "down" => up' \subseteq up
      BY <1>3, <2>2 DEF Parse, StartService, StopService, docker
    <3> QED
      BY <1>1, <3>1, <3>2 DEF Unmoved
  <2>3. CASE c = p
    <3>1. /\ req[c].at = "child" /\ cmd[c].op = req[c].op
          /\ cmd[c] \in [op : StackOps, todo : Seq(Step) \ {<<>>}]
      BY <1>1, <2>3 DEF Places, Working, TypeInv, Process, Commands, Idle
    <3>2. /\ req'[c].op = req[c].op
          /\ Remaining(c) \subseteq {Upcoming(c)} \cup Remaining(c)'
      <4>1. CASE /\ UNCHANGED req
                 /\ cmd'[c] = [op |-> cmd[c].op, todo |-> Tail(cmd[c].todo)]
        <5>1. Range(cmd[c].todo) = {Upcoming(c)} \cup Range(Tail(cmd[c].todo))
          BY <3>1, TailFacts DEF Upcoming
        <5>2. req'[c] = req[c] /\ cmd'[c].todo = Tail(cmd[c].todo)
          BY <4>1
        <5> QED
          BY <3>1, <5>1, <5>2 DEF Remaining
      <4>2. CASE /\ cmd'[c] = NoCommand /\ Range(cmd[c].todo) = {Upcoming(c)}
                 /\ req'[c] = [op |-> req[c].op, at |-> "answer"]
        BY <3>1, <4>2 DEF Remaining
      <4>3. CASE req'[c] = Idle
        BY <4>3 DEF Places, Idle
      <4> QED
        BY <1>1, <2>1, <2>3, <3>1, <4>1, <4>2, <4>3, OnwardFacts
    <3>3. \/ Upcoming(c) \notin Service /\ UNCHANGED up
          \/ req[c].op = "up" /\ up' = up \cup {Upcoming(c)}
          \/ req[c].op = "down" /\ up' = up \ {Upcoming(c)}
      BY <1>3, <2>3, <3>1, ServiceAssumption
         DEF Parse, StartService, StopService, docker
    <3> QED
      BY <1>1, <2>1, <3>1, <3>2, <3>3
  <2> QED
    BY <2>2, <2>3
<1> QED
  BY <1>2, <1>3 DEF Command

\* Everything else leaves a calm client alone, and the containers; a token that is
\* put in leaves nobody calm, and a death of Docker Desktop those that stop.
LEMMA CalmOtherwise ==
    ASSUME TypeInv, Places, Places', [Next]_vars,
           \A d \in Client : ~Handler(d), \A p \in Process : ~Command(p),
           NEW c \in Client, c \in calm'
    PROVE  /\ Unmoved(c) /\ UNCHANGED up /\ (Overlay' => Overlay)
           /\ engine' = engine \/ engine' = TRUE \/ req[c].op = "down"
<1>0. UNCHANGED token => (Overlay' => Overlay)
  BY DEF Overlay, HasToken
<1>1. CASE \E d \in Client, op \in Ops : Request(d, op)
  <2>1. PICK d \in Client, op \in Ops : Request(d, op)
    BY <1>1
  <2>2. /\ req' = [req EXCEPT ![d] = [op |-> op, at |-> "handler"]]
        /\ UNCHANGED <<cmd, token, docker, pending, calm>>
    BY <2>1 DEF Request
  <2>3. CASE d # c
    BY <1>0, <2>2, <2>3 DEF Unmoved, docker, TypeInv
  <2>4. CASE d = c
    <3>1. req'[c].at = "handler"
      BY <2>2, <2>4 DEF TypeInv
    <3> QED
      BY <3>1 DEF Places
  <2> QED
    BY <2>3, <2>4
<1>2. CASE EditToken
  BY <1>2 DEF EditToken, Unmoved, docker
<1>3. CASE AgentDies \/ Restart
  BY <1>3 DEF AgentDies, Restart
<1>4. CASE AgentStarts
  BY <1>4, <1>0 DEF AgentStarts, Unmoved, docker
<1>5. CASE EngineStops
  BY <1>5, <1>0 DEF EngineStops, Unmoved
<1>6. CASE EngineStarts
  BY <1>6, <1>0 DEF EngineStarts, Unmoved
<1>7. CASE LogOn
  <2>1. cmd'[c] = cmd[c]
    BY <1>7, TaskAssumption DEF LogOn, TypeInv, Process
  <2> QED
    BY <1>7, <1>0, <2>1 DEF LogOn, Unmoved
<1>8. CASE UNCHANGED vars
  BY <1>8, <1>0 DEF vars, Unmoved
<1>9. DOMAIN cmd = Process
  BY DEF TypeInv
<1> QED
  BY <1>1, <1>2, <1>3, <1>4, <1>5, <1>6, <1>7, <1>8, <1>9 DEF Next

\* What "up" has left to do shrinks only as services start.
LEMMA UpStep ==
    TypeInv /\ Places /\ Places' /\ UpInv /\ [Next]_vars => UpInv'
<1> DEFINE Kept(c) == /\ Range(Files(Overlay')) \subseteq up' \cup Remaining(c)'
                      /\ req'[c].at = "answer" => engine'
<1> SUFFICES ASSUME TypeInv, Places, Places', UpInv, [Next]_vars,
                    NEW c \in Client, c \in calm', req'[c].op = "up"
             PROVE  Kept(c)
  BY CoreStep DEF UpInv, TypeInv
<1>1. ASSUME Unmoved(c), up \subseteq up', Overlay' => Overlay,
             engine' = engine \/ engine' = TRUE
      PROVE  Kept(c)
  <2>1. /\ c \in calm /\ req[c].op = "up" /\ Remaining(c)' = Remaining(c)
        /\ req'[c] = req[c]
    BY <1>1 DEF Unmoved, Remaining
  <2>2. /\ Range(Files(Overlay)) \subseteq up \cup Remaining(c)
        /\ req[c].at = "answer" => engine
    BY <2>1 DEF UpInv
  <2>3. Range(Files(Overlay')) \subseteq Range(Files(Overlay))
    BY <1>1, CoreStep, FilesLeft
  <2>4. Range(Files(Overlay')) \subseteq up' \cup Remaining(c)'
    BY <1>1, <2>1, <2>2, <2>3
  <2>5. CASE engine' = engine
    BY <2>1, <2>2, <2>4, <2>5
  <2>6. CASE engine' = TRUE
    BY <2>4, <2>6
  <2> QED
    BY <1>1, <2>5, <2>6
<1>2. UNCHANGED token => Overlay' = Overlay
  BY DEF Overlay, HasToken
<1>3. ASSUME NEW d \in Client, Handler(d) PROVE Kept(c)
  <2>1. UNCHANGED <<token, engine, up>>
    BY <1>3, CalmHandler
  <2>2. CASE Unmoved(c)
    BY <1>1, <1>2, <2>1, <2>2
  <2>3. CASE /\ req'[c].at = "child"
             /\ Range(Files(Overlay)) \subseteq Range(cmd'[c].todo)
    BY <1>2, <2>1, <2>3 DEF Remaining
  <2> QED
    BY <1>3, <2>2, <2>3, CalmHandler
<1>4. ASSUME NEW p \in Process, Command(p) PROVE Kept(c)
  <2>1. c \in calm /\ req[c].op = "up" /\ UNCHANGED <<token, engine>>
    BY <1>4, CalmCommand
  <2>2. CASE Unmoved(c) /\ up \subseteq up'
    BY <1>1, <1>2, <2>1, <2>2
  <2>3. CASE /\ engine /\ Remaining(c) \subseteq {Upcoming(c)} \cup Remaining(c)'
             /\ \/ Upcoming(c) \notin Service /\ UNCHANGED up
                \/ up' = up \cup {Upcoming(c)}
    <3>1. /\ Range(Files(Overlay)) \subseteq up \cup Remaining(c)
          /\ Range(Files(Overlay)) \subseteq Service
      BY <2>1, OverlayFacts DEF UpInv
    <3>2. Range(Files(Overlay)) \subseteq up' \cup Remaining(c)'
      BY <2>3, <3>1
    <3> QED
      BY <1>2, <2>1, <2>3, <3>2
  <2> QED
    BY <1>4, <2>1, <2>2, <2>3, CalmCommand
<1>5. CASE (\A d \in Client : ~Handler(d)) /\ (\A p \in Process : ~Command(p))
  <2>1. /\ Unmoved(c) /\ UNCHANGED up /\ (Overlay' => Overlay)
        /\ engine' = engine \/ engine' = TRUE \/ req[c].op = "down"
    BY <1>5, CalmOtherwise
  <2>2. req[c].op = "up"
    BY <2>1 DEF Unmoved
  <2> QED
    BY <1>1, <2>1, <2>2
<1> QED
  BY <1>3, <1>4, <1>5

\* What "down" has left to do covers all that it was to stop and that runs.
LEMMA DownStep ==
    TypeInv /\ Places /\ Places' /\ DownInv /\ [Next]_vars => DownInv'
<1> DEFINE Kept(c) == up' \cap Range(Files(Overlay')) \subseteq Remaining(c)'
<1> SUFFICES ASSUME TypeInv, Places, Places', DownInv, [Next]_vars,
                    NEW c \in Client, c \in calm', req'[c].op = "down"
             PROVE  Kept(c)
  BY CoreStep DEF DownInv, TypeInv
<1>1. ASSUME Unmoved(c), up' \subseteq up, Overlay' => Overlay
      PROVE  Kept(c)
  <2>1. c \in calm /\ req[c].op = "down" /\ Remaining(c)' = Remaining(c)
    BY <1>1 DEF Unmoved, Remaining
  <2>2. up \cap Range(Files(Overlay)) \subseteq Remaining(c)
    BY <2>1 DEF DownInv
  <2>3. Range(Files(Overlay')) \subseteq Range(Files(Overlay))
    BY <1>1, CoreStep, FilesLeft
  <2> QED
    BY <1>1, <2>1, <2>2, <2>3
<1>2. UNCHANGED token => Overlay' = Overlay
  BY DEF Overlay, HasToken
<1>3. ASSUME NEW d \in Client, Handler(d) PROVE Kept(c)
  <2>1. UNCHANGED <<token, up>>
    BY <1>3, CalmHandler
  <2>2. CASE Unmoved(c)
    BY <1>1, <1>2, <2>1, <2>2
  <2>3. CASE /\ req'[c].at = "child"
             /\ Range(Files(Overlay)) \subseteq Range(cmd'[c].todo)
    BY <1>2, <2>1, <2>3 DEF Remaining
  <2> QED
    BY <1>3, <2>2, <2>3, CalmHandler
<1>4. ASSUME NEW p \in Process, Command(p) PROVE Kept(c)
  <2>1. c \in calm /\ req[c].op = "down" /\ UNCHANGED <<token, engine>>
    BY <1>4, CalmCommand
  <2>2. CASE Unmoved(c) /\ up' \subseteq up
    BY <1>1, <1>2, <2>1, <2>2
  <2>3. CASE /\ Remaining(c) \subseteq {Upcoming(c)} \cup Remaining(c)'
             /\ \/ Upcoming(c) \notin Service /\ UNCHANGED up
                \/ up' = up \ {Upcoming(c)}
    <3>1. up \cap Range(Files(Overlay)) \subseteq Remaining(c) /\ up \subseteq Service
      BY <2>1 DEF DownInv, TypeInv
    <3>2. up' \cap Range(Files(Overlay)) \subseteq Remaining(c)'
      BY <2>3, <3>1
    <3> QED
      BY <1>2, <2>1, <3>2
  <2> QED
    BY <1>4, <2>1, <2>2, <2>3, CalmCommand
<1>5. CASE (\A d \in Client : ~Handler(d)) /\ (\A p \in Process : ~Command(p))
  <2>1. Unmoved(c) /\ UNCHANGED up /\ (Overlay' => Overlay)
    BY <1>5, CalmOtherwise
  <2> QED
    BY <1>1, <2>1
<1> QED
  BY <1>3, <1>4, <1>5

(***************************************************************************)
(* The theorems                                                            *)
(***************************************************************************)
\* They hold together of every behaviour.
LEMMA Correct ==
    FairSpec => [](TypeInv /\ Places /\ UpInv /\ DownInv)
<1> DEFINE Inv == TypeInv /\ Places /\ UpInv /\ DownInv
<1>1. Init => Inv
  <2> SUFFICES ASSUME Init PROVE Inv
    OBVIOUS
  <2>1. /\ agent = TRUE /\ token \in BOOLEAN /\ engine = TRUE /\ logged = TRUE
        /\ pending = FALSE /\ up = {} /\ before = {}
        /\ edits \in 0..MaxEdits /\ faults \in 0..MaxFaults
    BY BoundAssumption DEF Init
  <2>2. req \in [Client -> Requests] /\ cmd \in [Process -> Commands]
    BY DEF Init, Requests, Commands, Process
  <2>3. calm = {} /\ \A c \in Client : req[c] = Idle /\ cmd[c] = NoCommand
    BY DEF Init
  <2>4. TypeInv
    BY <2>1, <2>2, <2>3 DEF TypeInv
  <2>5. Places /\ UpInv /\ DownInv
    BY <2>3 DEF Places, UpInv, DownInv, Idle
  <2> QED
    BY <2>4, <2>5
<1>2. Inv /\ [Next]_vars => Inv'
  BY CoreStep, UpStep, DownStep
<1> QED
  BY <1>1, <1>2, PTL DEF FairSpec

\* Every variable keeps its type; a handler that waits for a command waits for one
\* that runs; what ran before a restart, and was not stopped since, is among what
\* Docker Desktop runs again.
THEOREM TypeCorrect == FairSpec => []TypeOK
<1>1. TypeInv /\ Places => TypeOK
  <2> SUFFICES ASSUME TypeInv, Places PROVE TypeOK
    OBVIOUS
  <2>1. \A p \in DOMAIN cmd : cmd[p].op \in {"none"} \cup StackOps
    BY DEF TypeInv, Commands, NoCommand
  <2>2. req \in [Client -> {Idle} \cup [op : Ops, at : {"handler", "child", "answer"}]]
    BY DEF TypeInv, Requests
  <2> QED
    BY <2>1, <2>2 DEF TypeInv, Places, TypeOK
<1> QED
  BY <1>1, Correct, PTL

\* "Start stack" answered with 200 means that everything runs, the tunnel too when
\* the overlay is in use, although others may start the stack at the same time.
THEOREM UpMeansUp == FairSpec => []OkMeansUp
<1>1. TypeInv /\ UpInv => OkMeansUp
  <2> SUFFICES ASSUME TypeInv, UpInv, NEW c \in Client, Told(c, "up")
               PROVE  /\ Range(Base) \subseteq Running
                      /\ Overlay => Tunnel \in Running
    BY DEF OkMeansUp
  <2>1. req[c].op = "up" /\ req[c].at = "answer" /\ c \in calm
    BY DEF Told
  <2>2. Range(Files(Overlay)) \subseteq up /\ engine
    BY <2>1 DEF UpInv, Remaining
  <2> QED
    BY <2>2, OverlayFacts DEF Running
<1> QED
  BY <1>1, Correct, PTL

\* "Stop stack" answered with 200 means that nothing runs but a tunnel whose token
\* has gone, although others may stop it at the same time or Docker Desktop die.
THEOREM DownMeansStopped == FairSpec => []OkMeansStopped
<1>1. TypeInv /\ DownInv => OkMeansStopped
  <2> SUFFICES ASSUME TypeInv, DownInv, NEW c \in Client, Told(c, "down")
               PROVE  Running = {} \/ (~Overlay /\ Running = {Tunnel})
    BY DEF OkMeansStopped
  <2>1. req[c].op = "down" /\ req[c].at = "answer" /\ c \in calm
    BY DEF Told
  <2>2. up \cap Range(Files(Overlay)) = {}
    BY <2>1 DEF DownInv, Remaining
  <2>3. Range(Files(Overlay)) = Range(Base) \cup (IF Overlay THEN {Tunnel} ELSE {})
    BY OverlayFacts
  <2>4. Running \subseteq up /\ up \subseteq Range(Base) \cup {Tunnel}
    BY DEF Running, TypeInv, Service
  <2>5. CASE Overlay
    BY <2>2, <2>3, <2>4, <2>5
  <2>6. CASE ~Overlay
    BY <2>2, <2>3, <2>4, <2>6
  <2> QED
    BY <2>5, <2>6
<1> QED
  BY <1>1, Correct, PTL
=============================================================================
