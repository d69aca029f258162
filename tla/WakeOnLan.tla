------------------------------ MODULE WakeOnLan ------------------------------
(***************************************************************************)
(* Waking another PC: handleWake in agent/http.go, the wake command of     *)
(* agent/main.go, and agent/wol.go. One call takes one or more MAC         *)
(* addresses, as text, and sends to each of them a magic packet, once to   *)
(* UDP port 9 and once to port 7. Calls share nothing, so there is one.    *)
(*                                                                         *)
(* A MAC text is its octets, the separator between them, and whether all   *)
(* of them are two hexadecimal digits. A broadcast text is the address     *)
(* that it reads as. The network is external: a packet may fail to leave.  *)
(***************************************************************************)
EXTENDS Naturals, Sequences, FiniteSets, SequencesExt

CONSTANTS
    Texts,       \* the MAC texts that a call may hold
    Broadcasts,  \* the broadcast texts that a call may hold
    Interfaces   \* the network interfaces that this PC may have, in order

MacText == [sep : {":", "-", ".", ""}, octets : Seq(0..255), hex : BOOLEAN]
Adapter == [octets : Seq(0..255), up : BOOLEAN, loopback : BOOLEAN]

ASSUME TextsAssumption == \A t \in Texts : t \in MacText
ASSUME InterfacesAssumption == \A ifs \in Interfaces : ifs \in Seq(Adapter)

VARIABLES
    call,     \* what was asked: by whom, and with what
    pc,       \* where the call is
    targets,  \* the MAC texts to wake
    k,        \* the target whose turn it is
    port,     \* the port whose turn it is
    left,     \* how many packets of this target have left
    sent,     \* the targets counted as sent
    errs,     \* the targets reported as failed
    wire,     \* the packets that have left
    answer    \* the status of the answer, and whether it says ok

vars == <<call, pc, targets, k, port, left, sent, errs, wire, answer>>
outcome == <<sent, errs>>

Blank == [sep |-> "", octets |-> <<>>, hex |-> TRUE]

\* Broadcast texts of interest: none, one that net.ParseIP does not read, the
\* unspecified addresses, one of IPv6, and one of IPv4 written as one of
\* IPv6. All others are addresses of IPv4.
NotGiven == ""
Unreadable == "unreadable"
Unspecified == {"0.0.0.0", "::"}
IPv6 == "ff02::1"
Mapped == "::ffff:192.168.1.255"
Unmapped == "192.168.1.255"
Everyone == "255.255.255.255"
LocalHost == "127.0.0.1"

(***************************************************************************)
(* parseMAC, MagicPacket, listAdapters                                     *)
(***************************************************************************)
\* Dashes become colons and dots are dropped. What then has no separator must
\* be 12 digits; the rest goes to net.ParseMAC, which reads 6, 8 or 20 octets.
Parses(t) ==
    /\ t.hex
    /\ \/ t.sep \in {"", "."} /\ Len(t.octets) = 6
       \/ t.sep \in {":", "-"} /\ Len(t.octets) \in {6, 8, 20}

\* Variant: the address is copied once too few.
PacketShort(mac) ==
    [i \in 1..(6 + 16 * 6) |-> IF i <= 6 THEN 255
                               ELSE IF i <= 96 THEN mac[((i - 7) % 6) + 1] ELSE 0]

Packet(mac) ==
    [i \in 1..(6 + 16 * 6) |-> IF i <= 6 THEN 255 ELSE mac[((i - 7) % 6) + 1]]

Packable(t) == Parses(t) /\ Len(t.octets) = 6

\* The places of the adapters that are listed and up.
UpOnes(ifs) ==
    {i \in DOMAIN ifs : Len(ifs[i].octets) = 6 /\ ~ifs[i].loopback /\ ifs[i].up}

\* handleWake goes through them in order, and takes their addresses as texts.
InOrder(at, places) ==
    Range(at) = places /\ \A i, j \in DOMAIN at : i < j => at[i] < at[j]

UpTexts(ifs, at) ==
    [i \in DOMAIN at |-> [sep |-> ":", octets |-> ifs[at[i]].octets, hex |-> TRUE]]

(***************************************************************************)
(* handleWake and the wake command                                         *)
(***************************************************************************)
Init ==
    /\ call \in [by : {"http", "cli"}, mac : Texts \cup {Blank}, to : Broadcasts]
    /\ pc = "called"
    /\ targets = <<>>
    /\ k = 1
    /\ port = 9
    /\ left = 0
    /\ sent = {}
    /\ errs = {}
    /\ wire = {}
    /\ answer = [status |-> "none", ok |-> FALSE]

Answers(status, ok) ==
    /\ pc' = "done"
    /\ answer' = [status |-> status, ok |-> ok]

WakeOne ==
    /\ pc = "called"
    /\ call.mac # Blank
    /\ targets' = <<call.mac>>
    /\ pc' = "next"
    /\ UNCHANGED <<call, k, port, left, outcome, wire, answer>>

WakeAdapters(ifs) ==
    /\ pc = "called"
    /\ call.mac = Blank /\ call.by = "http"
    /\ \E n \in 1..Len(ifs) : \E at \in [1..n -> UpOnes(ifs)] :
          InOrder(at, UpOnes(ifs)) /\ targets' = UpTexts(ifs, at)
    /\ pc' = "next"
    /\ UNCHANGED <<call, k, port, left, outcome, wire, answer>>

\* The command requires an address; the handler fails when Windows does not
\* list the interfaces, or none is up.
WakeNone ==
    /\ pc = "called"
    /\ call.mac = Blank
    /\ \/ call.by = "cli" /\ Answers("exit 1", FALSE)
       \/ call.by = "http" /\ Answers("500", FALSE)
       \/ /\ call.by = "http"
          /\ \E ifs \in Interfaces : UpOnes(ifs) = {}
          /\ Answers("400", FALSE)
    /\ UNCHANGED <<call, targets, k, port, left, outcome, wire>>

AfterError == k + 1

BadTarget ==
    /\ pc = "next"
    /\ k <= Len(targets)
    /\ ~Packable(targets[k])
    /\ errs' = errs \cup {k}
    /\ k' = AfterError
    /\ UNCHANGED <<call, pc, targets, port, left, sent, wire, answer>>

GoodTarget ==
    /\ pc = "next"
    /\ k <= Len(targets)
    /\ Packable(targets[k])
    /\ port' = 9
    /\ left' = 0
    /\ pc' = "send"
    /\ UNCHANGED <<call, targets, k, outcome, wire, answer>>

(***************************************************************************)
(* SendMagicPacket                                                         *)
(***************************************************************************)
\* For a text that it cannot read net.ParseIP answers nil. That, and an
\* unspecified address, net.DialUDP takes for the local host.
Destination(to) ==
    CASE to = NotGiven                       -> Everyone
      [] to \in Unspecified \cup {Unreadable} -> LocalHost
      [] to = Mapped                         -> Unmapped
      [] OTHER                               -> to

\* The loop over the ports goes on after an error.
AfterPort ==
    IF port = 9 THEN port' = 7 /\ UNCHANGED pc
                ELSE pc' = "sum" /\ UNCHANGED port

\* "udp4" takes no IPv6 address.
SendPacket ==
    /\ pc = "send"
    /\ call.to # IPv6
    /\ wire' = wire \cup {[target |-> k, port |-> port, to |-> Destination(call.to),
                           data |-> Packet(targets[k].octets)]}
    /\ left' = left + 1
    /\ AfterPort
    /\ UNCHANGED <<call, targets, k, outcome, answer>>

SendFails ==
    /\ pc = "send"
    /\ AfterPort
    /\ UNCHANGED <<call, targets, k, left, outcome, wire, answer>>

\* Variant: a target counts as failed when one of its packets did not leave.
SentBoth == left = 2

Sent == left > 0

SumUp ==
    /\ pc = "sum"
    /\ IF Sent THEN /\ sent' = sent \cup {k}
                    /\ k' = k + 1
                    /\ UNCHANGED errs
               ELSE /\ errs' = errs \cup {k}
                    /\ k' = AfterError
                    /\ UNCHANGED sent
    /\ pc' = "next"
    /\ UNCHANGED <<call, targets, port, left, wire, answer>>

\* The handler answers 200 even if nothing was sent, the command fails.
Finish ==
    /\ pc = "next"
    /\ k > Len(targets)
    /\ Answers(IF call.by = "http" THEN "200"
               ELSE IF sent = {} THEN "exit 1" ELSE "exit 0", sent # {})
    /\ UNCHANGED <<call, targets, k, port, left, outcome, wire>>

Next ==
    \/ WakeOne \/ WakeNone \/ \E ifs \in Interfaces : WakeAdapters(ifs)
    \/ BadTarget \/ GoodTarget
    \/ SendPacket \/ SendFails \/ SumUp
    \/ Finish

Spec == Init /\ [][Next]_vars

(***************************************************************************)
(* Properties                                                              *)
(***************************************************************************)
\* What a network card listens for: anywhere in a packet, six bytes 255 and
\* then its own address sixteen times.
Wakes(data, mac) ==
    \E start \in 0..(Len(data) - 102) :
        /\ \A i \in 1..6 : data[start + i] = 255
        /\ \A r \in 0..15, i \in 1..6 : data[start + 6 + 6 * r + i] = mac[i]

\* Every variable keeps its type; no target is both sent and failed.
TypeOK ==
    /\ pc \in {"called", "next", "send", "sum", "done"}
    /\ k \in 1..(Len(targets) + 1)
    /\ port \in {9, 7}
    /\ left \in 0..2
    /\ sent \cup errs \subseteq 1..(k - 1)
    /\ sent \cap errs = {}

\* A packet wakes the card of its target and no other, whatever the address,
\* one full of 255s included.
WakesTargetOnly ==
    \A p \in wire, t \in Texts : Packable(t) =>
        (Wakes(p.data, t.octets) <=> t.octets = targets[p.target].octets)

\* The answer accounts for every target, and truly: one that cannot be read or
\* reached does not keep the next from being woken; one that counts as sent was
\* sent a packet, to the address asked for, unless that text is no address or the
\* unspecified one, for then the packet went to this very PC; one reported as
\* failed was sent nothing, since one port of the two is enough.
AnswerIsTrue ==
    pc = "done" =>
        /\ sent \cup errs = DOMAIN targets
        /\ sent \cap errs = {}
        /\ \A i \in sent : \E p \in wire :
               /\ p.target = i
               /\ \/ p.to = call.to
                  \/ p.to = Everyone /\ call.to = NotGiven
                  \/ p.to = Unmapped /\ call.to = Mapped
                  \/ p.to = LocalHost /\ call.to \in Unspecified \cup {Unreadable}
        /\ \A i \in errs : \A p \in wire : p.target # i
=============================================================================
