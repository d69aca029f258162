--------------------------- MODULE WakeOnLanProofs ---------------------------
(***************************************************************************)
(* Theorems about WakeOnLan, for all addresses, in every notation, and all *)
(* lists of adapters.                                                      *)
(***************************************************************************)
EXTENDS WakeOnLan, SequenceTheorems, TLAPS

(***************************************************************************)
(* The invariants                                                          *)
(***************************************************************************)
\* The call goes through the targets one by one, and through the two ports of
\* each whose address fills a packet.
TypeInv ==
    /\ pc \in {"called", "next", "send", "sum", "done"}
    /\ targets \in Seq(MacText)
    /\ call.mac # Blank => call.mac \in Texts
    /\ k \in 1..(Len(targets) + 1)
    /\ port \in {9, 7}
    /\ left \in 0..2
    /\ pc = "called" => targets = <<>>
    /\ pc \in {"send", "sum"} => k <= Len(targets) /\ Packable(targets[k])
    /\ pc = "send" => left + (IF port = 9 THEN 2 ELSE 1) <= 2

\* Every target before the one whose turn it is counts as sent or as failed.
CountInv ==
    /\ sent \cup errs = 1..(k - 1)
    /\ sent \cap errs = {}
    /\ pc = "done" => k = Len(targets) + 1

\* The target whose turn it is, when a packet of its own has left.
UnderWay == IF pc \in {"send", "sum"} /\ left > 0 THEN {k} ELSE {}

\* Every packet is one for its target, and those that count as sent are the ones
\* that a packet has left for.
WireInv ==
    /\ \A p \in wire :
          /\ p.target \in sent \cup UnderWay
          /\ p.target \in 1..Len(targets) /\ Packable(targets[p.target])
          /\ p.data = Packet(targets[p.target].octets)
    /\ \A i \in sent \cup UnderWay : \E p \in wire :
          p.target = i /\ p.to = Destination(call.to)

(***************************************************************************)
(* Packets                                                                 *)
(***************************************************************************)
\* The length of a packet, and what is where in it.
IsPacket(data, mac) ==
    /\ Len(data) = 102
    /\ \A i \in 1..6 : data[i] = 255
    /\ \A r \in 0..15, i \in 1..6 : data[6 + 6 * r + i] = mac[i]

\* Packet fills it so.
LEMMA PacketFacts ==
    ASSUME NEW mac \in Seq(0..255), Len(mac) = 6
    PROVE  IsPacket(Packet(mac), mac)
<1>1. 6 + 16 * 6 = 102
  OBVIOUS
<1>2. PICK data : data = Packet(mac)
  OBVIOUS
<1>3. data = [i \in 1..102 |-> IF i <= 6 THEN 255 ELSE mac[((i - 7) % 6) + 1]]
  BY <1>1, <1>2 DEF Packet
<1>4. /\ DOMAIN data = 1..102
      /\ \A i \in 1..102 : i <= 6 => data[i] = 255
      /\ \A i \in 1..102 : ~(i <= 6) => data[i] = mac[((i - 7) % 6) + 1]
  BY <1>3
<1>5. \A i \in 1..102 : ~(i <= 6) => ((i - 7) % 6) + 1 \in 1..6
  OBVIOUS
<1>6. \A i \in 1..6 : mac[i] \in 0..255
  BY ElementOfSeq
<1>7. ASSUME NEW i \in 1..102 PROVE data[i] \in 0..255
  <2>1. CASE i <= 6
    <3>1. data[i] = 255
      BY <1>4, <2>1, Zenon
    <3> QED
      BY <3>1
  <2>2. CASE ~(i <= 6)
    <3> DEFINE j == ((i - 7) % 6) + 1
    <3>1. j \in 1..6 /\ data[i] = mac[j]
      BY <1>4, <1>5, <2>2
    <3> HIDE DEF j
    <3> QED
      BY <1>6, <3>1
  <2> QED
    BY <2>1, <2>2
<1>8. Len(data) = 102
  <2>1. PICK n \in Nat : n = 102
    OBVIOUS
  <2>2. data \in [1..n -> 0..255]
    BY <1>3, <1>7, <2>1
  <2>3. data \in Seq(0..255) /\ Len(data) = n
    BY <2>2
  <2> QED
    BY <2>1, <2>3
<1>9. \A r \in 0..15, i \in 1..6 :
        /\ 6 + 6 * r + i \in 1..102 /\ ~(6 + 6 * r + i <= 6)
        /\ (((6 + 6 * r + i) - 7) % 6) + 1 = i
  OBVIOUS
<1>10. \A r \in 0..15, i \in 1..6 : data[6 + 6 * r + i] = mac[i]
  <2> SUFFICES ASSUME NEW r \in 0..15, NEW i \in 1..6
               PROVE  data[6 + 6 * r + i] = mac[i]
    OBVIOUS
  <2> DEFINE n == 6 + 6 * r + i
  <2>1. n \in 1..102 /\ ~(n <= 6) /\ ((n - 7) % 6) + 1 = i
    BY <1>9
  <2> HIDE DEF n
  <2>2. data[n] = mac[((n - 7) % 6) + 1]
    BY <1>4, <2>1
  <2> QED
    BY <2>1, <2>2 DEF n
<1>11. ASSUME NEW i \in 1..6 PROVE data[i] = 255
  <2>1. i \in 1..102 /\ i <= 6
    OBVIOUS
  <2> QED
    BY <1>4, <2>1
<1> QED
  BY <1>2, <1>8, <1>10, <1>11 DEF IsPacket

\* A packet has room for one address only, and so wakes the card it is for.
LEMMA PacketWakes ==
    ASSUME NEW mac \in Seq(0..255), Len(mac) = 6, NEW own \in Seq(0..255), Len(own) = 6
    PROVE  Wakes(Packet(mac), own) <=> own = mac
<1> DEFINE data == Packet(mac)
<1>1. /\ Len(data) = 102
      /\ \A i \in 1..6 : data[i] = 255
      /\ \A r \in 0..15, i \in 1..6 : data[6 + 6 * r + i] = mac[i]
  <2>1. IsPacket(data, mac)
    BY PacketFacts
  <2> HIDE DEF data
  <2> QED
    BY <2>1 DEF IsPacket
<1> HIDE DEF data
<1>2. ASSUME Wakes(data, own) PROVE own = mac
  <2>1. PICK start \in 0..(102 - 102) :
          \A r \in 0..15, i \in 1..6 : data[start + 6 + 6 * r + i] = own[i]
    BY <1>1, <1>2 DEF Wakes
  <2>2. start = 0
    OBVIOUS
  <2>3. \A i \in 1..6 : own[i] = data[6 + i]
    <3> SUFFICES ASSUME NEW i \in 1..6 PROVE own[i] = data[6 + i]
      OBVIOUS
    <3>1. 0 \in 0..15 /\ start + 6 + 6 * 0 + i = 6 + i
      BY <2>2
    <3> QED
      BY <2>1, <3>1
  <2>4. \A r \in 0..15 : \A i \in 1..6 : data[6 + 6 * r + i] = mac[i]
    BY <1>1, Zenon
  <2>5. \A i \in 1..6 : mac[i] = data[6 + i]
    <3> SUFFICES ASSUME NEW i \in 1..6 PROVE mac[i] = data[6 + i]
      OBVIOUS
    <3>1. PICK r \in 0..15 : r = 0
      OBVIOUS
    <3>2. data[6 + 6 * r + i] = mac[i]
      BY <2>4, Zenon
    <3>3. 6 + 6 * r + i = 6 + i
      BY <3>1
    <3> QED
      BY <3>2, <3>3
  <2>6. \A i \in 1..Len(own) : own[i] = mac[i]
    BY <2>3, <2>5
  <2> QED
    BY <2>6, SeqEqual
<1>3. ASSUME own = mac PROVE Wakes(data, own)
  <2>1. 0 \in 0..(Len(data) - 102)
    BY <1>1
  <2>2. /\ \A i \in 1..6 : data[0 + i] = 255
        /\ \A r \in 0..15, i \in 1..6 : data[0 + 6 + 6 * r + i] = own[i]
    BY <1>1, <1>3
  <2> QED
    BY <2>1, <2>2 DEF Wakes
<1> QED
  BY <1>2, <1>3 DEF data

(***************************************************************************)
(* The steps                                                               *)
(***************************************************************************)
\* The texts that handleWake takes are addresses of adapters.
LEMMA UpTextsFacts ==
    ASSUME NEW ifs \in Interfaces, NEW n \in Nat, NEW at \in [1..n -> UpOnes(ifs)]
    PROVE  UpTexts(ifs, at) \in Seq(MacText)
<1>1. ifs \in Seq(Adapter)
  BY InterfacesAssumption
<1>2. \A i \in 1..n : at[i] \in 1..Len(ifs) /\ ifs[at[i]].octets \in Seq(0..255)
  <2>1. \A j \in DOMAIN ifs : ifs[j] \in Adapter
    BY <1>1
  <2>2. \A j \in DOMAIN ifs : ifs[j].octets \in Seq(0..255)
    BY <2>1 DEF Adapter
  <2>3. \A i \in 1..n : at[i] \in DOMAIN ifs
    BY DEF UpOnes
  <2> QED
    BY <1>1, <2>2, <2>3
<1>3. UpTexts(ifs, at) =
        [i \in 1..n |-> [sep |-> ":", octets |-> ifs[at[i]].octets, hex |-> TRUE]]
  BY DEF UpTexts
<1>4. \A i \in 1..n :
        [sep |-> ":", octets |-> ifs[at[i]].octets, hex |-> TRUE] \in MacText
  BY <1>2 DEF MacText
<1> QED
  BY <1>3, <1>4

\* Each step leaves the call at its target and its port.
LEMMA TypeStep == TypeInv /\ [Next]_vars => TypeInv'
<1> SUFFICES ASSUME TypeInv, [Next]_vars PROVE TypeInv'
  OBVIOUS
<1>0. Len(targets) \in Nat /\ k \in Nat
  BY DEF TypeInv
<1>1. CASE WakeOne
  <2>1. call.mac \in MacText
    BY <1>1, TextsAssumption DEF WakeOne, TypeInv
  <2>2. targets' = <<call.mac>> /\ targets' \in Seq(MacText) /\ k' = 1
    BY <1>1, <2>1 DEF WakeOne, TypeInv
  <2>3. Len(targets') \in Nat
    BY <2>2
  <2> QED
    BY <1>1, <2>2, <2>3 DEF WakeOne, TypeInv
<1>2. ASSUME NEW ifs \in Interfaces, WakeAdapters(ifs) PROVE TypeInv'
  <2>1. PICK n \in 1..Len(ifs) : \E at \in [1..n -> UpOnes(ifs)] :
          targets' = UpTexts(ifs, at)
    BY <1>2 DEF WakeAdapters
  <2>2. n \in Nat
    BY <2>1, InterfacesAssumption
  <2>3. targets' \in Seq(MacText)
    BY <2>1, <2>2, UpTextsFacts
  <2>4. Len(targets') \in Nat /\ k' = 1
    BY <1>2, <2>3 DEF WakeAdapters, TypeInv
  <2> QED
    BY <1>2, <2>3, <2>4 DEF WakeAdapters, TypeInv
<1>3. CASE WakeNone
  BY <1>3 DEF WakeNone, Answers, TypeInv
<1>4. CASE BadTarget
  BY <1>0, <1>4 DEF BadTarget, AfterError, TypeInv
<1>5. CASE GoodTarget
  BY <1>0, <1>5 DEF GoodTarget, TypeInv
<1>6. CASE SendPacket \/ SendFails
  BY <1>0, <1>6 DEF SendPacket, SendFails, AfterPort, TypeInv
<1>7. CASE SumUp
  BY <1>0, <1>7 DEF SumUp, AfterError, TypeInv
<1>8. CASE Finish
  BY <1>8 DEF Finish, Answers, TypeInv
<1>9. CASE UNCHANGED vars
  BY <1>9 DEF vars, TypeInv
<1> QED
  BY <1>1, <1>2, <1>3, <1>4, <1>5, <1>6, <1>7, <1>8, <1>9 DEF Next

\* No target is left out, and none counts twice.
LEMMA CountStep == TypeInv /\ CountInv /\ [Next]_vars => CountInv'
<1> SUFFICES ASSUME TypeInv, CountInv, [Next]_vars PROVE CountInv'
  OBVIOUS
<1>0. Len(targets) \in Nat /\ k \in 1..(Len(targets) + 1)
  BY DEF TypeInv
<1>1. CASE BadTarget \/ SumUp
  <2>1. /\ k' = k + 1 /\ pc' = "next"
        /\ \/ sent' = sent \cup {k} /\ errs' = errs
           \/ sent' = sent /\ errs' = errs \cup {k}
    BY <1>1 DEF BadTarget, SumUp, AfterError, outcome
  <2>2. 1..(k' - 1) = 1..(k - 1) \cup {k} /\ k \notin 1..(k - 1)
    BY <1>0, <2>1
  <2>3. /\ sent \cup errs = 1..(k - 1) /\ sent \cap errs = {}
    BY DEF CountInv
  <2> QED
    BY <2>1, <2>2, <2>3 DEF CountInv
<1>2. CASE WakeNone
  <2>1. Len(targets) = 0 /\ targets' = targets /\ k' = k /\ UNCHANGED outcome
    BY <1>2 DEF WakeNone, TypeInv
  <2> QED
    BY <1>0, <2>1 DEF CountInv, outcome
<1>3. CASE Finish
  <2>1. k > Len(targets) /\ UNCHANGED <<targets, k, sent, errs>>
    BY <1>3 DEF Finish, outcome
  <2>2. k = Len(targets) + 1
    BY <1>0, <2>1
  <2> QED
    BY <2>1, <2>2 DEF CountInv
<1>4. ASSUME UNCHANGED <<k, outcome>>, pc' # "done" PROVE CountInv'
  BY <1>4 DEF CountInv, outcome
<1>5. CASE WakeOne \/ \E ifs \in Interfaces : WakeAdapters(ifs)
  BY <1>4, <1>5 DEF WakeOne, WakeAdapters
<1>6. CASE GoodTarget \/ SendPacket \/ SendFails
  BY <1>4, <1>6 DEF GoodTarget, SendPacket, SendFails, AfterPort
<1>7. CASE UNCHANGED vars
  BY <1>7 DEF vars, CountInv
<1> QED
  BY <1>1, <1>2, <1>3, <1>5, <1>6, <1>7 DEF Next

\* A step that sends nothing and counts nothing leaves the packets as they are.
LEMMA WireKept ==
    ASSUME WireInv, UNCHANGED <<call, targets, sent, wire>>, UnderWay' = UnderWay
    PROVE  WireInv'
BY DEF WireInv

\* A packet leaves only for the target whose turn it is, which counts as sent when
\* one has.
LEMMA WireStep == TypeInv /\ CountInv /\ WireInv /\ [Next]_vars => WireInv'
<1> SUFFICES ASSUME TypeInv, CountInv, WireInv, [Next]_vars PROVE WireInv'
  OBVIOUS
<1>0. Len(targets) \in Nat /\ k \in 1..(Len(targets) + 1) /\ left \in 0..2
  BY DEF TypeInv
<1>1. ASSUME pc = "called", UNCHANGED <<sent, wire, call>>, pc' \in {"next", "done"}
      PROVE  WireInv'
  <2>1. k = 1 /\ UnderWay = {} /\ UnderWay' = {}
    <3>1. Len(targets) = 0
      BY <1>1 DEF TypeInv
    <3> QED
      BY <1>0, <1>1, <3>1 DEF UnderWay
  <2>2. sent = {}
    BY <2>1 DEF CountInv
  <2>3. wire = {}
    BY <2>1, <2>2 DEF WireInv
  <2> QED
    BY <1>1, <2>1, <2>2, <2>3 DEF WireInv
<1>2. CASE WakeOne \/ WakeNone \/ \E ifs \in Interfaces : WakeAdapters(ifs)
  BY <1>1, <1>2 DEF WakeOne, WakeNone, WakeAdapters, Answers, outcome
<1>3. CASE BadTarget \/ GoodTarget \/ Finish
  <2>1. UnderWay' = UnderWay
    <3>1. pc = "next" /\ (pc' \in {"next", "done"} \/ left' = 0)
      BY <1>3 DEF BadTarget, GoodTarget, Finish, Answers
    <3>2. UnderWay = {}
      BY <3>1 DEF UnderWay
    <3>3. left' = 0 => ~(left' > 0)
      OBVIOUS
    <3>4. UnderWay' = {}
      BY <3>1, <3>3 DEF UnderWay
    <3> QED
      BY <3>2, <3>4
  <2>2. UNCHANGED <<call, targets, sent, wire>>
    BY <1>3 DEF BadTarget, GoodTarget, Finish, outcome
  <2> QED
    BY <2>1, <2>2, WireKept
<1>4. CASE SendFails
  <2>1. UnderWay' = UnderWay
    BY <1>4 DEF SendFails, AfterPort, UnderWay
  <2>2. UNCHANGED <<call, targets, sent, wire>>
    BY <1>4 DEF SendFails, outcome
  <2> QED
    BY <2>1, <2>2, WireKept
<1>5. CASE SendPacket
  <2> DEFINE p == [target |-> k, port |-> port, to |-> Destination(call.to),
                   data |-> Packet(targets[k].octets)]
  <2>1. /\ wire' = wire \cup {p} /\ UNCHANGED <<call, targets, k, sent>>
        /\ left' = left + 1 /\ pc = "send" /\ pc' \in {"send", "sum"}
    BY <1>5 DEF SendPacket, AfterPort, outcome
  <2>2. UnderWay' = {k} /\ UnderWay \subseteq {k}
    BY <1>0, <2>1 DEF UnderWay
  <2>3. /\ p.target = k /\ p.to = Destination(call.to)
        /\ p.data = Packet(targets[k].octets)
    OBVIOUS
  <2>4. k \in 1..Len(targets) /\ Packable(targets[k])
    BY <1>0, <2>1 DEF TypeInv
  <2> HIDE DEF p
  <2>5. ASSUME NEW q \in wire'
        PROVE  /\ q.target \in sent' \cup UnderWay'
               /\ q.target \in 1..Len(targets') /\ Packable(targets'[q.target])
               /\ q.data = Packet(targets'[q.target].octets)
    <3>1. CASE q = p
      BY <2>1, <2>2, <2>3, <2>4, <3>1
    <3>2. CASE q \in wire
      BY <2>1, <2>2, <3>2 DEF WireInv
    <3> QED
      BY <2>1, <3>1, <3>2
  <2>6. ASSUME NEW i \in sent' \cup UnderWay'
        PROVE  \E q \in wire' : q.target = i /\ q.to = Destination(call'.to)
    <3>1. CASE i = k
      BY <2>1, <2>3, <3>1
    <3>2. CASE i \in sent
      <4>1. PICK q \in wire : q.target = i /\ q.to = Destination(call.to)
        BY <3>2 DEF WireInv
      <4> QED
        BY <2>1, <4>1
    <3> QED
      BY <2>1, <2>2, <3>1, <3>2
  <2> QED
    BY <2>5, <2>6 DEF WireInv
<1>6. CASE SumUp
  <2>1. /\ UNCHANGED <<call, targets, wire>> /\ UnderWay' = {}
        /\ sent' = sent \cup UnderWay
    BY <1>0, <1>6 DEF SumUp, Sent, UnderWay
  <2> QED
    BY <2>1 DEF WireInv
<1>7. CASE UNCHANGED vars
  BY <1>7, WireKept DEF vars, outcome, UnderWay
<1> QED
  BY <1>2, <1>3, <1>4, <1>5, <1>6, <1>7 DEF Next

(***************************************************************************)
(* The theorems                                                            *)
(***************************************************************************)
\* The three hold together of every behaviour.
LEMMA Correct == Spec => [](TypeInv /\ CountInv /\ WireInv)
<1> DEFINE Inv == TypeInv /\ CountInv /\ WireInv
<1>1. Init => Inv
  <2> SUFFICES ASSUME Init PROVE Inv
    OBVIOUS
  <2>1. TypeInv
    BY DEF Init, TypeInv
  <2>2. CountInv /\ WireInv
    BY DEF Init, CountInv, WireInv, UnderWay
  <2> QED
    BY <2>1, <2>2
<1>2. Inv /\ [Next]_vars => Inv'
  BY TypeStep, CountStep, WireStep
<1> QED
  BY <1>1, <1>2, PTL DEF Spec

\* Every variable keeps its type; no target is both sent and failed.
THEOREM TypeCorrect == Spec => []TypeOK
<1>1. TypeInv /\ CountInv => TypeOK
  BY DEF TypeInv, CountInv, TypeOK
<1> QED
  BY <1>1, Correct, PTL

\* A packet wakes the card of its target and no other.
THEOREM PacketsWakeTargets == Spec => []WakesTargetOnly
<1>1. TypeInv /\ WireInv => WakesTargetOnly
  <2> SUFFICES ASSUME TypeInv, WireInv, NEW p \in wire, NEW t \in Texts, Packable(t)
               PROVE  Wakes(p.data, t.octets) <=>
                         t.octets = targets[p.target].octets
    BY DEF WakesTargetOnly
  <2>1. /\ p.target \in 1..Len(targets) /\ Packable(targets[p.target])
        /\ p.data = Packet(targets[p.target].octets)
    BY DEF WireInv
  <2>2. targets[p.target] \in MacText /\ t \in MacText
    BY <2>1, TextsAssumption, ElementOfSeq DEF TypeInv
  <2>3. /\ targets[p.target].octets \in Seq(0..255)
        /\ Len(targets[p.target].octets) = 6
        /\ t.octets \in Seq(0..255) /\ Len(t.octets) = 6
    BY <2>1, <2>2 DEF MacText, Packable
  <2> QED
    BY <2>1, <2>3, PacketWakes
<1> QED
  BY <1>1, Correct, PTL

\* The answer accounts for every target, and truly.
THEOREM AnswerStaysTrue == Spec => []AnswerIsTrue
<1>1. TypeInv /\ CountInv /\ WireInv => AnswerIsTrue
  <2> SUFFICES ASSUME TypeInv, CountInv, WireInv, pc = "done"
               PROVE  /\ sent \cup errs = DOMAIN targets
                      /\ sent \cap errs = {}
                      /\ \A i \in sent : \E p \in wire :
                             /\ p.target = i
                             /\ \/ p.to = call.to
                                \/ p.to = Everyone /\ call.to = NotGiven
                                \/ p.to = Unmapped /\ call.to = Mapped
                                \/ /\ p.to = LocalHost
                                   /\ call.to \in Unspecified \cup {Unreadable}
                      /\ \A i \in errs : \A p \in wire : p.target # i
    BY DEF AnswerIsTrue
  <2>1. sent \cup errs = DOMAIN targets /\ sent \cap errs = {}
    <3>1. DOMAIN targets = 1..Len(targets) /\ Len(targets) \in Nat
      BY DEF TypeInv
    <3>2. k = Len(targets) + 1 /\ sent \cup errs = 1..(k - 1) /\ sent \cap errs = {}
      BY DEF CountInv
    <3>3. k - 1 = Len(targets)
      BY <3>1, <3>2
    <3> QED
      BY <3>1, <3>2, <3>3
  <2>2. UnderWay = {}
    BY DEF UnderWay
  <2>3. \A i \in sent : \E p \in wire : p.target = i /\ p.to = Destination(call.to)
    BY DEF WireInv
  <2>4. \/ Destination(call.to) = call.to
        \/ Destination(call.to) = Everyone /\ call.to = NotGiven
        \/ Destination(call.to) = Unmapped /\ call.to = Mapped
        \/ /\ Destination(call.to) = LocalHost
           /\ call.to \in Unspecified \cup {Unreadable}
    BY DEF Destination
  <2>5. \A i \in errs : \A p \in wire : p.target # i
    BY <2>1, <2>2 DEF WireInv
  <2> QED
    BY <2>1, <2>3, <2>4, <2>5
<1> QED
  BY <1>1, Correct, PTL
=============================================================================
