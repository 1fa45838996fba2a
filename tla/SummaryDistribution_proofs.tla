---------------------- MODULE SummaryDistribution_proofs ----------------------
(***************************************************************************)
(* The safety properties of the distribution, for any devices, commands    *)
(* and bounds: the type invariant, the exclusion by updateLock, the        *)
(* registration of devices before their summaries, that no device goes     *)
(* back to an older summary, and that every difference between a device    *)
(* and the server is explained.                                            *)
(*                                                                         *)
(* The inductive invariant IInv says what the loop of updates has done     *)
(* with each device: not yet come to it, busy with it, or done with it.    *)
(***************************************************************************)
EXTENDS SummaryDistribution, TLAPS

-----------------------------------------------------------------------------
(***************************************************************************)
(* The inductive invariant.                                                *)
(***************************************************************************)
ServerTypes ==
  /\ alive \in BOOLEAN /\ running \in BOOLEAN
  /\ runs \in Nat
  /\ lock \in {"free", "ca", "conn"}
  /\ ca \in CommandThread /\ conn \in ConnectionThread
  /\ twice \in [by : {"none", "ca", "conn"}, reused : BOOLEAN]
  /\ backlog \in Seq(Connection)
  /\ connected \in Seq(Device)
  /\ control \in Versions /\ snapshot \in Versions
  /\ request \in Commands \cup {"none"}
  /\ sent \in 0 .. MaxCommands

DeviceTypes ==
  /\ dev \in [Device -> DeviceProcess]
  /\ inbox \in [Device -> Messages]
  /\ excuse \in [Device -> SUBSET Causes]
  /\ torn \subseteq Device

\* Who is past the lock holds it.
Locks ==
  /\ ca.pc \in {"recv", "connect", "sending", "await", "closing", "reply", "unlock"} =>
       lock = "ca"
  /\ conn.pc \in {"send", "await", "closing", "unlock"} => lock = "conn"

\* Whether a command of the authority has not yet become an operation.
Pending ==
  IF request # "none" /\ ca.pc \in {"accept", "lock", "recv", "unlock"} THEN 1 ELSE 0

\* Versions are bounded by the commands sent and the starts of the server.
Counted ==
  /\ runs >= 1 /\ runs <= MaxRuns + 1
  /\ control.n + Pending <= sent
  /\ control.epoch + control.n + Pending + 1 <= sent + runs

InLoop == ca.pc \in {"connect", "sending", "await", "closing"}

\* The update under way leads to the server's version and goes to registered
\* devices; a rebuild goes out as a delta for a revocation only.
Round ==
  InLoop =>
    /\ ca.todo # << >>
    /\ ca.msg # None /\ ca.msg.to = control
    /\ ca.msg.kind = "delta" /\ ca.msg.rebuilt => ca.msg.act = "rev"
    /\ \A i \in 1 .. Len(ca.todo) : Among(ca.todo[i], connected)

\* The connection that is served is one, and of a registered device.
Busy == {"lock", "send", "await", "closing", "unlock"}

Serving ==
  /\ conn.pc \in Busy => conn.cur \in Connection
  /\ conn.pc \in Busy \ {"lock"} => Among(conn.cur.d, connected)

\* What a device holds at each point of its program.
Stages ==
  \A d \in Device :
    /\ inbox[d] # None => dev[d].pc \in {"reading", "decoding", "applying"}
    /\ inbox[d] # None /\ dev[d].pc # "applying" => inbox[d].kind = "full"
    /\ dev[d].pc = "decoding" => inbox[d] # None
    /\ dev[d].pc \in {"down", "connecting", "reading", "decoding"} => dev[d].view = NoView
    /\ dev[d].pc \in {"binding", "listening", "applying"} => dev[d].view # NoView

\* The order of versions.
Leq(v, w) == v.epoch < w.epoch \/ (v.epoch = w.epoch /\ v.n <= w.n)

\* Nobody is ahead of the server, and no message leads back.
NotAhead ==
  /\ Leq(snapshot, control)
  /\ InLoop /\ ca.msg.kind = "delta" => Leq(ca.msg.from, ca.msg.to)
  /\ \A d \in Device :
       /\ dev[d].view \in Versions => Leq(dev[d].view, control)
       /\ inbox[d] # None => Leq(inbox[d].to, control)
       /\ inbox[d] # None /\ inbox[d].kind = "delta" => Leq(inbox[d].from, inbox[d].to)
       /\ inbox[d] # None /\ inbox[d].kind = "full" /\ dev[d].pc = "applying" =>
            \/ dev[d].view \notin Versions
            \/ Leq(dev[d].view, inbox[d].to)

\* The loop has yet to come to d, or to be done with it.
Waiting(d) == InLoop /\ Among(d, ca.todo)

Excused(d) == excuse[d] # {}

\* A device that has its summary has the server's.
Good(d) ==
  dev[d].pc \in {"binding", "listening"} => dev[d].view = control \/ Excused(d)

\* The device that the command thread is busy with.
Served(d) == d = Head(ca.todo) /\ dev[d].boot = ca.boot

\* What is so of a device d while updates go round, in the order of the lines
\* below: it is good unless the loop has still to come to it; a delta on its
\* way leads from its version or to it; only the device the thread is busy with
\* applies an update of this server; and that device is good when the thread
\* is done with it, finds it started anew, or has its answer.
ExplainedFor(d) ==
  /\ ~Waiting(d) => Good(d)
  /\ Waiting(d) /\ ca.msg.kind = "delta" =>
       \/ dev[d].pc \notin {"binding", "listening", "applying"}
       \/ dev[d].view \in {ca.msg.from, ca.msg.to}
       \/ Excused(d)
  /\ dev[d].pc = "applying" =>
       \/ "server restarted" \in excuse[d]
       \/ ca.pc = "sending" /\ Served(d) /\ inbox[d] = None
       \/ ca.pc = "await" /\ Served(d) /\ inbox[d] = ca.msg
  /\ ca.pc = "closing" /\ d = Head(ca.todo) => Good(d)
  /\ ca.pc \in {"sending", "await"} /\ d = Head(ca.todo) /\ dev[d].boot # ca.boot => Good(d)
  /\ ca.pc = "await" /\ Served(d) => Good(d)

Explained == alive => \A d \in Device : ExplainedFor(d)

IInv ==
  /\ TypeOK
  /\ Locks
  /\ Counted
  /\ Round
  /\ Serving
  /\ Stages
  /\ RegisteredFirst
  /\ NotAhead
  /\ Explained

-----------------------------------------------------------------------------
(***************************************************************************)
(* Data.                                                                   *)
(***************************************************************************)
LEMMA AmongAppend ==
  ASSUME NEW S, NEW s \in Seq(S), NEW e \in S, NEW d
  PROVE  Among(d, Append(s, e)) <=> Among(d, s) \/ d = e
BY DEF Among

LEMMA AmongTail ==
  ASSUME NEW S, NEW s \in Seq(S), s # << >>, NEW d
  PROVE  /\ Among(d, s) <=> d = Head(s) \/ Among(d, Tail(s))
         /\ Head(s) \in S /\ Tail(s) \in Seq(S)
         /\ Len(s) = 1 <=> Tail(s) = << >>
<1>1. Len(s) \in Nat /\ Len(s) >= 1 /\ Len(Tail(s)) = Len(s) - 1
  OBVIOUS
<1>2. \A i \in 1 .. Len(s) : i = 1 \/ (i - 1 \in 1 .. Len(Tail(s)) /\ Tail(s)[i - 1] = s[i])
  BY <1>1
<1>3. \A i \in 1 .. Len(Tail(s)) : i + 1 \in 1 .. Len(s) /\ s[i + 1] = Tail(s)[i]
  BY <1>1
<1>4. s[1] = Head(s) /\ 1 \in 1 .. Len(s)
  BY <1>1
<1>5. ASSUME Among(d, s), d # Head(s)
      PROVE  Among(d, Tail(s))
  <2>1. PICK i \in 1 .. Len(s) : s[i] = d
    BY <1>5, Zenon DEF Among
  <2>2. i # 1
    BY <1>4, <1>5, <2>1, Zenon
  <2>3. i - 1 \in 1 .. Len(Tail(s)) /\ Tail(s)[i - 1] = d
    BY <1>2, <2>1, <2>2, Zenon
  <2> QED
    BY <2>3, Zenon DEF Among
<1>6. ASSUME Among(d, Tail(s))
      PROVE  Among(d, s)
  <2>1. PICK i \in 1 .. Len(Tail(s)) : Tail(s)[i] = d
    BY <1>6, Zenon DEF Among
  <2>2. i + 1 \in 1 .. Len(s) /\ s[i + 1] = d
    BY <1>3, <2>1, Zenon
  <2> QED
    BY <2>2, Zenon DEF Among
<1>7. d = Head(s) => Among(d, s)
  BY <1>4, Zenon DEF Among
<1>8. Head(s) \in S /\ Tail(s) \in Seq(S)
  OBVIOUS
<1>9. Len(s) = 1 <=> Tail(s) = << >>
  <2>1. PICK t \in Seq(S) : t = Tail(s)
    BY <1>8, Zenon
  <2>2. Len(t) = 0 <=> t = << >>
    OBVIOUS
  <2>3. Len(t) = Len(s) - 1
    BY <1>1, <2>1, Zenon
  <2>4. Len(t) = 0 <=> Len(s) = 1
    BY <1>1, <2>3
  <2> QED
    BY <2>1, <2>2, <2>4, Zenon
<1> QED
  BY <1>5, <1>6, <1>7, <1>8, <1>9, Zenon

LEMMA AmongNone == \A d : ~Among(d, << >>)
BY DEF Among

LEMMA AmongOne == \A d, e : Among(d, <<e>>) <=> d = e
BY DEF Among

LEMMA AmongType ==
  ASSUME NEW S, NEW s \in Seq(S), NEW d, Among(d, s)
  PROVE  d \in S
BY DEF Among

LEMMA VersionTypes ==
  ASSUME NEW v \in Versions
  PROVE  /\ v.epoch \in Nat /\ v.n \in Nat
         /\ v = Version(v.epoch, v.n)
         /\ v # NoView /\ v # Diverged
BY DistributionAssumption DEF Versions, Version, NoView, Diverged

LEMMA ViewsDiffer == NoView # Diverged
BY DEF NoView, Diverged

LEMMA MessageTypes ==
  ASSUME NEW m \in Messages, m # None
  PROVE  /\ m.kind \in {"full", "delta"} /\ m.to \in Versions
         /\ m.kind = "delta" => /\ m.act \in Updates /\ m.rebuilt \in BOOLEAN
                                /\ m.from \in Versions
BY DEF Messages

LEMMA FullType ==
  ASSUME NEW v \in Versions
  PROVE  /\ Full(v) \in Messages /\ Full(v) # None
         /\ Full(v).kind = "full" /\ Full(v).to = v
BY DEF Full, Messages, None

LEMMA LeqOrder ==
  /\ \A v \in Versions : Leq(v, v)
  /\ \A u, v, w \in Versions : Leq(u, v) /\ Leq(v, w) => Leq(u, w)
BY VersionTypes DEF Leq

LEMMA Types ==
  /\ TypeOK <=> ServerTypes /\ DeviceTypes
  /\ TypeOK' <=> ServerTypes' /\ DeviceTypes'
BY DEF TypeOK, ServerTypes, DeviceTypes

-----------------------------------------------------------------------------
(***************************************************************************)
(* What the threads' steps do to their records.                            *)
(***************************************************************************)
LEMMA CommandFields ==
  ASSUME NEW c \in CommandThread
  PROVE  /\ c.pc \in CommandStages /\ c.closed \in BOOLEAN /\ c.msg \in Messages
         /\ c.boot \in 0 .. MaxBoots /\ c.todo \in Seq(Device)
         /\ \A b \in BOOLEAN : [c EXCEPT !.closed = b] \in CommandThread
         /\ \A p \in CommandStages :
              /\ [c EXCEPT !.pc = p] \in CommandThread
              /\ \A b \in BOOLEAN : [c EXCEPT !.pc = p, !.closed = b] \in CommandThread
              /\ \A b \in 0 .. MaxBoots : [c EXCEPT !.pc = p, !.boot = b] \in CommandThread
              /\ \A t \in Seq(Device) :
                   /\ [c EXCEPT !.pc = p, !.todo = t] \in CommandThread
                   /\ \A m \in Messages :
                        [c EXCEPT !.pc = p, !.todo = t, !.msg = m] \in CommandThread
BY DEF CommandThread

LEMMA ConnectionFields ==
  ASSUME NEW c \in ConnectionThread
  PROVE  /\ c.pc \in ConnectionStages /\ c.closed \in BOOLEAN
         /\ c.cur \in Connection \cup {None}
         /\ \A b \in BOOLEAN : [c EXCEPT !.closed = b] \in ConnectionThread
         /\ \A p \in ConnectionStages :
              /\ [c EXCEPT !.pc = p] \in ConnectionThread
              /\ \A b \in BOOLEAN : [c EXCEPT !.pc = p, !.closed = b] \in ConnectionThread
              /\ \A x \in Connection : [c EXCEPT !.pc = p, !.cur = x] \in ConnectionThread
BY DEF ConnectionThread

LEMMA DeviceFields ==
  ASSUME NEW e \in [Device -> DeviceProcess], NEW d \in Device
  PROVE  /\ e[d].pc \in DeviceStages /\ e[d].boot \in 0 .. MaxBoots
         /\ e[d].view \in Versions \cup {NoView, Diverged} /\ e[d].locked \in BOOLEAN
BY DEF DeviceProcess

\* A device's record changes, and no other device's.
LEMMA DeviceChange ==
  ASSUME NEW e \in [Device -> DeviceProcess], NEW d \in Device, NEW p \in DeviceStages
  PROVE  /\ [e EXCEPT ![d].pc = p] \in [Device -> DeviceProcess]
         /\ \A b \in 0 .. MaxBoots :
              [e EXCEPT ![d].pc = p, ![d].boot = b] \in [Device -> DeviceProcess]
         /\ \A l \in BOOLEAN :
              [e EXCEPT ![d].pc = p, ![d].locked = l] \in [Device -> DeviceProcess]
         /\ \A v \in Versions \cup {NoView, Diverged}, l \in BOOLEAN :
              [e EXCEPT ![d].pc = p, ![d].view = v, ![d].locked = l]
                \in [Device -> DeviceProcess]
<1>1. [e EXCEPT ![d].pc = p] \in [Device -> DeviceProcess]
  BY DEF DeviceProcess
<1>2. ASSUME NEW b \in 0 .. MaxBoots
      PROVE  [e EXCEPT ![d].pc = p, ![d].boot = b] \in [Device -> DeviceProcess]
  BY DEF DeviceProcess
<1>3. ASSUME NEW l \in BOOLEAN
      PROVE  [e EXCEPT ![d].pc = p, ![d].locked = l] \in [Device -> DeviceProcess]
  BY DEF DeviceProcess
<1>4. ASSUME NEW v \in Versions \cup {NoView, Diverged}, NEW l \in BOOLEAN
      PROVE  [e EXCEPT ![d].pc = p, ![d].view = v, ![d].locked = l]
               \in [Device -> DeviceProcess]
  BY ZenonT(40) DEF DeviceProcess
<1> QED
  BY <1>1, <1>2, <1>3, <1>4, Zenon

LEMMA HangUpEffect ==
  ASSUME DeviceTypes, NEW D
  PROVE  /\ HangUp(D) \in [Device -> DeviceProcess]
         /\ \A d \in Device :
              /\ HangUp(D)[d].view = dev[d].view /\ HangUp(D)[d].boot = dev[d].boot
              /\ \/ HangUp(D)[d].pc = dev[d].pc
                 \/ /\ dev[d].pc \in {"reading", "applying"} /\ inbox[d] = None
                    /\ HangUp(D)[d].pc = "spinning"
BY DEF HangUp, DeviceTypes, DeviceProcess, DeviceStages

LEMMA DieEffect ==
  ASSUME Die
  PROVE  /\ alive' = FALSE /\ dev' = HangUp(Device)
         /\ UNCHANGED <<runs, running, lock, ca, conn, twice, backlog, connected>>
         /\ UNCHANGED <<control, snapshot, request, sent, inbox, excuse, torn>>
BY DEF Die, data, cert

LEMMA RestartEffect ==
  ASSUME Restart
  PROVE  /\ alive' = TRUE /\ runs' = runs + 1 /\ running' = TRUE /\ lock' = "free"
         /\ runs < MaxRuns
         /\ ca' = [pc |-> "accept", closed |-> FALSE, msg |-> None, boot |-> 0,
                   todo |-> << >>]
         /\ conn' = [pc |-> "accept", closed |-> FALSE, cur |-> None]
         /\ twice' = NotTwice
         /\ backlog' = << >> /\ connected' = << >>
         /\ control' = Version(control.epoch + 1, 0) /\ snapshot' = control'
         /\ request' = "none"
         /\ UNCHANGED <<sent, dev, inbox, torn>>
BY DEF Restart

TwiceType == twice \in [by : {"none", "ca", "conn"}, reused : BOOLEAN]

LEMMA TwiceTypes ==
  /\ ClosedOnce("ca") \/ ClosedOnce("conn") \/ twice' = NotTwice => TwiceType'
  /\ twice' = twice /\ ServerTypes => TwiceType'
<1>1. ASSUME ClosedOnce("ca") \/ ClosedOnce("conn") \/ twice' = NotTwice
      PROVE  TwiceType'
  <2>1. \A me \in {"none", "ca", "conn"} :
          [by |-> me, reused |-> FALSE] \in [by : {"none", "ca", "conn"}, reused : BOOLEAN]
    OBVIOUS
  <2>2. CASE ClosedOnce("ca")
    BY <2>1, <2>2 DEF ClosedOnce, TwiceType
  <2>3. CASE ClosedOnce("conn")
    BY <2>1, <2>3 DEF ClosedOnce, TwiceType
  <2>4. CASE twice' = NotTwice
    BY <2>1, <2>4 DEF NotTwice, TwiceType
  <2> QED
    BY <1>1, <2>2, <2>3, <2>4
<1>2. ASSUME twice' = twice, ServerTypes
      PROVE  TwiceType'
  <2>1. TwiceType
    BY <1>2 DEF ServerTypes, TwiceType
  <2> QED
    BY <1>2, <2>1 DEF TwiceType
<1> QED
  BY <1>1, <1>2

LEMMA NextDeviceType ==
  ASSUME ServerTypes, ca.todo # << >>
  PROVE  /\ NextDevice \in CommandThread
         /\ NextDevice.pc \in {"reply", "connect"}
         /\ NextDevice.pc = "connect" <=> NextDevice.todo # << >>
         /\ NextDevice.todo = Tail(ca.todo) /\ NextDevice.msg = ca.msg
<1>1. ca \in CommandThread /\ ca.todo \in Seq(Device)
  BY CommandFields DEF ServerTypes
<1>2. Tail(ca.todo) \in Seq(Device) /\ (Len(ca.todo) = 1 <=> Tail(ca.todo) = << >>)
  BY <1>1, AmongTail
<1>3. NextDevice \in CommandThread
  BY <1>1, <1>2 DEF NextDevice, CommandThread, CommandStages
<1> QED
  BY <1>1, <1>2, <1>3 DEF NextDevice, CommandThread

LEMMA HeadOfRound ==
  ASSUME ServerTypes, DeviceTypes, Round, InLoop
  PROVE  /\ ca.todo # << >> /\ Head(ca.todo) \in Device
         /\ dev[Head(ca.todo)].boot \in 0 .. MaxBoots
<1>1. ca.todo \in Seq(Device) /\ ca.todo # << >>
  BY CommandFields DEF ServerTypes, Round
<1>2. Head(ca.todo) \in Device
  BY <1>1
<1> QED
  BY <1>1, <1>2, DeviceFields DEF DeviceTypes

\* The version that a command leads to, and the message about it.
LEMMA UpdateFacts ==
  ASSUME ServerTypes, DeviceTypes, Locks, Counted,
         NEW c \in Updates, NEW r \in BOOLEAN, CAUpdate(c, r)
  PROVE  /\ control' = Delta(c, r).to /\ control' \in Versions
         /\ Leq(control, control') /\ control # control'
         /\ control'.n <= sent /\ control'.epoch + control'.n + 1 <= sent + runs
         /\ Delta(c, r) \in Messages /\ Delta(c, r) # None
         /\ Delta(c, r).kind = "delta" /\ Delta(c, r).act = c /\ Delta(c, r).rebuilt = r
         /\ Delta(c, r).from = control
         /\ snapshot' \in Versions /\ (snapshot' = control' \/ snapshot' = snapshot)
         /\ r => snapshot' = control'
<1>1. request # "none" /\ ca.pc = "recv"
  BY DEF CAUpdate, Receives, Updates
<1>2. Pending = 1
  BY <1>1 DEF Pending
<1>3. control.epoch \in Nat /\ control.n \in Nat /\ control \in Versions
  BY VersionTypes DEF ServerTypes
<1>4. sent \in Nat /\ runs \in Nat /\ sent <= MaxCommands /\ MaxCommands \in Nat
      /\ MaxRuns \in Nat
  BY DistributionAssumption DEF ServerTypes
<1>5. control' = Delta(c, r).to
  BY DEF CAUpdate
<1>6. control'.n + 1 + control'.epoch <= sent + runs /\ control'.n <= sent
      /\ control'.n \in Nat /\ control'.epoch \in Nat
  BY <1>2, <1>3, <1>4, <1>5 DEF Counted, Delta, Version
<1>7. control' \in Versions
  BY <1>4, <1>5, <1>6 DEF Counted, Delta, Version, Versions
<1>8. Leq(control, control') /\ control # control'
  BY <1>3, <1>5 DEF Leq, Delta, Version
<1>9. Delta(c, r) \in Messages /\ Delta(c, r) # None
      /\ Delta(c, r).kind = "delta" /\ Delta(c, r).act = c /\ Delta(c, r).rebuilt = r
      /\ Delta(c, r).from = control
  BY <1>3, <1>5, <1>7 DEF Delta, Messages, None
<1>10. snapshot' \in Versions /\ (snapshot' = control' \/ snapshot' = snapshot)
       /\ (r => snapshot' = control')
  BY <1>7 DEF CAUpdate, ServerTypes
<1> QED
  BY <1>5, <1>6, <1>7, <1>8, <1>9, <1>10, <1>3, <1>4

LEMMA LocksStep ==
  ASSUME Locks, TypeOK, Next
  PROVE  Locks'
<1>1. CASE \E c \in Commands : SendCommand(c)
  BY <1>1 DEF SendCommand, Locks, TypeOK, server, data, devices, process
<1>2. CASE CAAccept
  BY <1>2 DEF CAAccept, Goto, Accepted, Locks, TypeOK, process, data, cert, devices
<1>3. CASE CALock
  BY <1>3 DEF CALock, Goto, Locks, TypeOK, process, data, cert, devices
<1>4. CASE CARecvFails
  BY <1>4 DEF CARecvFails, Locks, TypeOK, process, data, cert, devices
<1>5. CASE CARecvBad
  BY <1>5 DEF CARecvBad, Receives, Goto, Locks, TypeOK, process, data, devices
<1>6. CASE CARecvHuge
  BY <1>6 DEF CARecvHuge, Die, HangUp, Receives, Locks, TypeOK
<1>7. CASE CARecvShow
  BY <1>7 DEF CARecvShow, Receives, Goto, Locks, TypeOK, process, data, cert, devices
<1>8. CASE CARecvExit
  BY <1>8 DEF CARecvExit, Receives, Goto, Locks, TypeOK, data, cert, devices
<1>9. CASE \E c \in Updates, r \in BOOLEAN : CAUpdate(c, r)
  BY <1>9 DEF CAUpdate, Receives, Locks, TypeOK, process, cert, devices
<1>10. CASE CAConnect
  BY <1>10 DEF CAConnect, Locks, TypeOK, process, data, cert
<1>11. CASE CASend
  BY <1>11 DEF CASend, Goto, Locks, TypeOK, process, data, cert
<1>12. CASE CARefused
  BY <1>12 DEF CARefused, Die, HangUp, MissedFull, Locks, TypeOK, process, data, cert
<1>13. CASE CAAnswered
  BY <1>13 DEF CAAnswered, NextDevice, ClosedOnce, Goto, Locks, TypeOK, process, data,
     cert, devices
<1>14. CASE CALost
  BY <1>14 DEF CALost, Die, HangUp, NextDevice, ClosedOnce, MissedFull, Goto, Locks,
     TypeOK, process, data, cert, devices
<1>15. CASE CAClose
  BY <1>15 DEF CAClose, NextDevice, NotTwice, HangUp, Reading, Locks, TypeOK, process,
     data, cert
<1>16. CASE CAReply
  BY <1>16 DEF CAReply, Goto, Locks, TypeOK, process, data, devices
<1>17. CASE CAUnlock
  BY <1>17 DEF CAUnlock, Goto, Locks, TypeOK, process, data, cert, devices
<1>18. CASE CAExit
  BY <1>18 DEF CAExit, Die, HangUp, Locks, TypeOK
<1>19. CASE ConnAccept
  BY <1>19 DEF ConnAccept, Accepted, Locks, TypeOK, process, data, cert, devices
<1>20. CASE ConnLock
  BY <1>20 DEF ConnLock, ConnGoto, Locks, TypeOK, process, data, cert, devices
<1>21. CASE ConnSend
  BY <1>21 DEF ConnSend, ConnGoto, Reading, Locks, TypeOK, process, data, cert
<1>22. CASE ConnLost
  BY <1>22 DEF ConnLost, Die, HangUp, Reading, ClosedOnce, Locks, TypeOK, process,
     data, cert, devices
<1>23. CASE ConnAnswered
  BY <1>23 DEF ConnAnswered, ConnGoto, ClosedOnce, Locks, TypeOK, process, data, cert,
     devices
<1>24. CASE ConnClose
  BY <1>24 DEF ConnClose, ConnGoto, NotTwice, Locks, TypeOK, process, data, devices
<1>25. CASE ConnUnlock
  BY <1>25 DEF ConnUnlock, ConnGoto, Locks, TypeOK, process, data, cert, devices
<1>26. CASE \E d \in Device : Boot(d)
  BY <1>26 DEF Boot, Locks, TypeOK, server, data, cert, process
<1>27. CASE \E d \in Device : DevConnect(d)
  BY <1>27 DEF DevConnect, DevGoto, Locks, TypeOK, process, data, cert
<1>28. CASE \E d \in Device : DevReceive(d)
  BY <1>28 DEF DevReceive, DevGoto, Locks, TypeOK, server, data, cert, process
<1>29. CASE \E d \in Device : DevDecode(d)
  BY <1>29 DEF DevDecode, InstallFull, Locks, TypeOK, server, data, cert, process
<1>30. CASE \E d \in Device : DevListen(d)
  BY <1>30 DEF DevListen, DevGoto, Locks, TypeOK, server, data, cert, process
<1>31. CASE \E d \in Device : DevApply(d)
  BY <1>31 DEF DevApply, InstallFull, Locks, TypeOK, server, data, cert, process
<1>32. CASE \E d \in Device : Crash(d)
  BY <1>32 DEF Crash, Stopped, Locks, TypeOK, server, data, cert, process
<1>33. CASE \E d \in Device : Query(d)
  BY <1>33 DEF Query, Stopped, Locks, TypeOK, server, data, cert, process
<1>34. CASE Kill
  BY <1>34 DEF Kill, Die, HangUp, Locks, TypeOK
<1>35. CASE Restart
  BY <1>35 DEF Restart, NotTwice, Locks, TypeOK
<1> QED
  BY <1>1, <1>2, <1>3, <1>4, <1>5, <1>6, <1>7, <1>8, <1>9, <1>10, <1>11, <1>12,
     <1>13, <1>14, <1>15, <1>16, <1>17, <1>18, <1>19, <1>20, <1>21, <1>22, <1>23,
     <1>24, <1>25, <1>26, <1>27, <1>28, <1>29, <1>30, <1>31, <1>32, <1>33, <1>34,
     <1>35 DEF Next, CAStep, ConnStep, DevStep

LEMMA ServerTypesStep ==
  ASSUME ServerTypes, DeviceTypes, Locks, Counted, Round, Serving, Stages, Next
  PROVE  ServerTypes'
<1>1. CASE \E c \in Commands : SendCommand(c)
  BY <1>1, DistributionAssumption DEF SendCommand, ServerTypes, server, data, devices,
     process
<1>2. CASE CAAccept
  BY <1>2, CommandFields DEF CAAccept, Goto, Accepted, ServerTypes, CommandStages,
     process, data, cert, devices
<1>3. CASE CALock
  BY <1>3, CommandFields DEF CALock, Goto, ServerTypes, CommandStages, process, data,
     cert, devices
<1>4. CASE CARecvFails
  BY <1>4, CommandFields DEF CARecvFails, ServerTypes, CommandStages, process, data,
     cert, devices
<1>5. CASE CARecvBad
  BY <1>5, CommandFields DEF CARecvBad, Receives, Goto, ServerTypes, CommandStages,
     process, data, devices
<1>6. CASE CARecvHuge
  BY <1>6, DieEffect DEF CARecvHuge, ServerTypes
<1>7. CASE CARecvShow
  BY <1>7, CommandFields DEF CARecvShow, Receives, Goto, ServerTypes, CommandStages,
     process, data, cert, devices
<1>8. CASE CARecvExit
  BY <1>8, CommandFields DEF CARecvExit, Receives, Goto, ServerTypes, CommandStages,
     data, cert, devices
<1>9. CASE \E c \in Updates, r \in BOOLEAN : CAUpdate(c, r)
  <2>1. PICK c \in Updates, r \in BOOLEAN : CAUpdate(c, r)
    BY <1>9
  <2>2. control' \in Versions /\ snapshot' \in Versions /\ Delta(c, r) \in Messages
    BY <2>1, UpdateFacts
  <2>3. Full(snapshot') \in Messages
    BY <2>2, FullType
  <2>4. ca \in CommandThread /\ connected \in Seq(Device)
    BY DEF ServerTypes
  <2>5. ca' \in CommandThread
    BY <2>1, <2>2, <2>3, <2>4, CommandFields DEF CAUpdate, CommandStages
  <2> QED
    BY <2>1, <2>2, <2>5 DEF CAUpdate, ServerTypes, process, cert, devices
<1>10. CASE CAConnect
  <2>1. Head(ca.todo) \in Device /\ dev[Head(ca.todo)].boot \in 0 .. MaxBoots
    BY <1>10, HeadOfRound DEF CAConnect, InLoop
  <2>2. ca \in CommandThread
    BY DEF ServerTypes
  <2>3. ca' \in CommandThread
    BY <1>10, <2>1, <2>2, CommandFields, ZenonT(40) DEF CAConnect, CommandStages
  <2> QED
    BY <1>10, <2>3 DEF CAConnect, ServerTypes, process, data, cert
<1>11. CASE CASend
  BY <1>11, CommandFields DEF CASend, Goto, ServerTypes, CommandStages, process, data,
     cert
<1>12. CASE CARefused
  <2>1. << >> \in Seq(Device) /\ ca \in CommandThread
    BY DEF ServerTypes
  <2>2. CASE Die
    BY <2>2, DieEffect DEF ServerTypes
  <2>3. CASE ~Die
    <3>1. ca' = [ca EXCEPT !.pc = "reply", !.todo = << >>]
      BY <1>12, <2>3 DEF CARefused
    <3>2. ca' \in CommandThread
      BY <3>1, <2>1, CommandFields DEF CommandStages
    <3> QED
      BY <1>12, <2>3, <3>2 DEF CARefused, ServerTypes, process, data, cert
  <2> QED
    BY <2>2, <2>3
<1>13. CASE CAAnswered
  <2>1. NextDevice \in CommandThread
    BY <1>13, HeadOfRound, NextDeviceType DEF CAAnswered, InLoop
  <2>2. ca \in CommandThread
    BY DEF ServerTypes
  <2>3. ca' \in CommandThread
    BY <1>13, <2>1, <2>2, CommandFields, ZenonT(40) DEF CAAnswered, Goto, CommandStages
  <2>4. TwiceType'
    BY <1>13, TwiceTypes DEF CAAnswered
  <2> QED
    BY <1>13, <2>3, <2>4 DEF CAAnswered, ServerTypes, TwiceType, process, data, cert,
       devices
<1>14. CASE CALost
  <2>1. NextDevice \in CommandThread
    BY <1>14, HeadOfRound, NextDeviceType DEF CALost, InLoop
  <2>2. ca \in CommandThread /\ <<Head(ca.todo)>> \in Seq(Device)
    BY <1>14, HeadOfRound DEF CALost, InLoop, ServerTypes
  <2>3. CASE Die
    BY <2>3, DieEffect DEF ServerTypes
  <2>4. CASE ~Die
    <3>1. \/ ca' = NextDevice
          \/ ca' = [ca EXCEPT !.pc = "closing"]
          \/ ca' = [ca EXCEPT !.pc = "closing", !.todo = <<Head(ca.todo)>>]
      BY <1>14, <2>4 DEF CALost, Goto
    <3>2. "closing" \in CommandStages
      BY DEF CommandStages
    <3>3. [ca EXCEPT !.pc = "closing"] \in CommandThread
      BY <2>2, <3>2, CommandFields
    <3>4. [ca EXCEPT !.pc = "closing", !.todo = <<Head(ca.todo)>>] \in CommandThread
      BY <2>2, <3>2, CommandFields
    <3>5. ca' \in CommandThread
      BY <3>1, <3>3, <3>4, <2>1
    <3>6. TwiceType'
      BY <1>14, <2>4, TwiceTypes DEF CALost
    <3> QED
      BY <1>14, <2>4, <3>5, <3>6 DEF CALost, ServerTypes, TwiceType, process, data,
         cert, devices
  <2> QED
    BY <2>3, <2>4
<1>15. CASE CAClose
  <2>1. NextDevice \in CommandThread
    BY <1>15, HeadOfRound, NextDeviceType DEF CAClose, InLoop
  <2>2. conn \in ConnectionThread /\ conn.closed \in BOOLEAN /\ twice.reused \in BOOLEAN
    BY ConnectionFields DEF ServerTypes
  <2>3. conn' \in ConnectionThread
    BY <1>15, <2>2, ConnectionFields DEF CAClose
  <2>4. TwiceType'
    BY <1>15, TwiceTypes DEF CAClose
  <2> QED
    BY <1>15, <2>1, <2>3, <2>4 DEF CAClose, ServerTypes, TwiceType, process, data,
       cert
<1>16. CASE CAReply
  BY <1>16, CommandFields DEF CAReply, Goto, ServerTypes, CommandStages, process,
     data, devices
<1>17. CASE CAUnlock
  BY <1>17, CommandFields DEF CAUnlock, Goto, ServerTypes, CommandStages, process,
     data, cert, devices
<1>18. CASE CAExit
  BY <1>18, DieEffect DEF CAExit, ServerTypes
<1>19. CASE ConnAccept
  <2>1. Head(backlog) \in Connection /\ Tail(backlog) \in Seq(Connection)
    BY <1>19 DEF ConnAccept, ServerTypes
  <2>2. conn \in ConnectionThread
    BY DEF ServerTypes
  <2>3. conn' \in ConnectionThread
    BY <1>19, <2>1, <2>2, ConnectionFields DEF ConnAccept, ConnectionStages
  <2>4. twice' \in [by : {"none", "ca", "conn"}, reused : BOOLEAN]
    BY <1>19 DEF ConnAccept, Accepted, ServerTypes
  <2> QED
    BY <1>19, <2>1, <2>3, <2>4 DEF ConnAccept, ServerTypes, process, data, cert,
       devices
<1>20. CASE ConnLock
  <2>1. conn \in ConnectionThread /\ conn.cur.d \in Device
    BY <1>20 DEF ConnLock, ServerTypes, Serving, Busy, Connection
  <2>2. conn' \in ConnectionThread
    BY <1>20, <2>1, ConnectionFields DEF ConnLock, ConnGoto, ConnectionStages
  <2>3. connected' \in Seq(Device)
    BY <1>20, <2>1 DEF ConnLock, ServerTypes
  <2> QED
    BY <1>20, <2>2, <2>3 DEF ConnLock, ServerTypes, process, data, cert, devices
<1>21. CASE ConnSend
  BY <1>21, ConnectionFields DEF ConnSend, ConnGoto, Reading, ServerTypes,
     ConnectionStages, process, data, cert
<1>22. CASE ConnLost
  <2>1. conn \in ConnectionThread
    BY DEF ServerTypes
  <2>2. CASE Die
    BY <2>2, DieEffect DEF ServerTypes
  <2>3. CASE ~Die
    <3>1. conn' \in ConnectionThread
      BY <1>22, <2>1, <2>3, ConnectionFields DEF ConnLost, ConnectionStages
    <3>2. TwiceType'
      BY <1>22, <2>3, TwiceTypes DEF ConnLost
    <3> QED
      BY <1>22, <2>3, <3>1, <3>2 DEF ConnLost, ServerTypes, TwiceType, process, data,
         cert, devices
  <2> QED
    BY <2>2, <2>3
<1>23. CASE ConnAnswered
  BY <1>23, ConnectionFields DEF ConnAnswered, ConnGoto, ClosedOnce, ServerTypes,
     ConnectionStages, process, data, cert, devices
<1>24. CASE ConnClose
  BY <1>24, CommandFields, ConnectionFields DEF ConnClose, ConnGoto, NotTwice,
     ServerTypes, CommandStages, ConnectionStages, process, data, devices
<1>25. CASE ConnUnlock
  BY <1>25, ConnectionFields DEF ConnUnlock, ConnGoto, ServerTypes, ConnectionStages,
     process, data, cert, devices
<1>26. CASE \E d \in Device : Boot(d)
  BY <1>26 DEF Boot, ServerTypes, server, data, cert, process
<1>27. CASE \E d \in Device : DevConnect(d)
  <2>1. PICK d \in Device : DevConnect(d)
    BY <1>27
  <2>2. [d |-> d, boot |-> dev[d].boot] \in Connection
    BY DeviceFields DEF DeviceTypes, Connection
  <2>3. backlog' \in Seq(Connection)
    BY <2>1, <2>2 DEF DevConnect, ServerTypes
  <2> QED
    BY <2>1, <2>3 DEF DevConnect, ServerTypes, process, data, cert
<1>28. CASE \E d \in Device : DevReceive(d)
  BY <1>28 DEF DevReceive, DevGoto, ServerTypes, server, data, cert, process
<1>29. CASE \E d \in Device : DevDecode(d)
  BY <1>29 DEF DevDecode, InstallFull, ServerTypes, server, data, cert, process
<1>30. CASE \E d \in Device : DevListen(d)
  BY <1>30 DEF DevListen, DevGoto, ServerTypes, server, data, cert, process
<1>31. CASE \E d \in Device : DevApply(d)
  BY <1>31, ZenonT(40) DEF DevApply, InstallFull, ServerTypes, server, data, cert, process
<1>32. CASE \E d \in Device : Crash(d)
  BY <1>32 DEF Crash, Stopped, ServerTypes, server, data, cert, process
<1>33. CASE \E d \in Device : Query(d)
  BY <1>33 DEF Query, Stopped, ServerTypes, server, data, cert, process
<1>34. CASE Kill
  BY <1>34, DieEffect DEF Kill, ServerTypes
<1>35. CASE Restart
  <2>1. None \in Messages /\ 0 \in 0 .. MaxBoots /\ << >> \in Seq(Device)
    BY DistributionAssumption DEF Messages
  <2>2. ca' \in CommandThread
    <3>1. ca' = [pc |-> "accept", closed |-> FALSE, msg |-> None, boot |-> 0,
                 todo |-> << >>]
      BY <1>35, RestartEffect
    <3> QED
      BY <3>1, <2>1 DEF CommandThread, CommandStages
  <2>3. conn' \in ConnectionThread
    <3>1. conn' = [pc |-> "accept", closed |-> FALSE, cur |-> None]
      BY <1>35, RestartEffect
    <3> QED
      BY <3>1 DEF ConnectionThread, ConnectionStages
  <2>4. control.epoch \in Nat /\ control.n \in Nat
    BY VersionTypes DEF ServerTypes
  <2>5. sent \in Nat /\ runs \in Nat /\ sent <= MaxCommands /\ MaxCommands \in Nat
        /\ MaxRuns \in Nat /\ Pending \in {0, 1}
    BY DistributionAssumption DEF ServerTypes, Pending
  <2>6. control.epoch + 1 \in 0 .. MaxCommands + MaxRuns
    BY <1>35, <2>4, <2>5, RestartEffect, SMTT(30) DEF Counted
  <2>7. control' \in Versions /\ snapshot' \in Versions
    BY <1>35, <2>5, <2>6, RestartEffect DEF Version, Versions
  <2>8. TwiceType'
    BY <1>35, RestartEffect, TwiceTypes
  <2> QED
    BY <1>35, <2>1, <2>2, <2>3, <2>7, <2>8, RestartEffect DEF ServerTypes, TwiceType
<1> QED
  BY <1>1, <1>2, <1>3, <1>4, <1>5, <1>6, <1>7, <1>8, <1>9, <1>10, <1>11, <1>12,
     <1>13, <1>14, <1>15, <1>16, <1>17, <1>18, <1>19, <1>20, <1>21, <1>22, <1>23,
     <1>24, <1>25, <1>26, <1>27, <1>28, <1>29, <1>30, <1>31, <1>32, <1>33, <1>34,
     <1>35 DEF Next, CAStep, ConnStep, DevStep

LEMMA MissedFullType ==
  ASSUME DeviceTypes, MissedFull
  PROVE  excuse' \in [Device -> SUBSET Causes]
BY DEF DeviceTypes, MissedFull, Causes

LEMMA InstallTypes ==
  ASSUME DeviceTypes, NEW d \in Device, NEW p \in DeviceStages, inbox[d] # None,
         InstallFull(d, p)
  PROVE  /\ dev' \in [Device -> DeviceProcess]
         /\ inbox' \in [Device -> Messages]
         /\ excuse' \in [Device -> SUBSET Causes]
<1>1. inbox[d].to \in Versions
  BY MessageTypes DEF DeviceTypes
<1>2. dev' \in [Device -> DeviceProcess]
  BY <1>1, DeviceChange DEF InstallFull, DeviceTypes
<1>3. None \in Messages
  BY DEF Messages
<1>4. inbox' \in [Device -> Messages]
  BY <1>3 DEF InstallFull, DeviceTypes
<1>5. excuse' \in [Device -> SUBSET Causes]
  BY DEF InstallFull, DeviceTypes, Causes
<1> QED
  BY <1>2, <1>4, <1>5

LEMMA StoppedTypes ==
  ASSUME DeviceTypes, NEW d \in Device, Stopped(d)
  PROVE  DeviceTypes'
<1>1. dev' \in [Device -> DeviceProcess]
  <2>1. /\ dev \in [Device -> DeviceProcess] /\ "down" \in DeviceStages
        /\ NoView \in Versions \cup {NoView, Diverged} /\ FALSE \in BOOLEAN
    BY DEF DeviceTypes, DeviceStages
  <2>2. dev' = [dev EXCEPT ![d].pc = "down", ![d].view = NoView, ![d].locked = FALSE]
    BY Zenon DEF Stopped
  <2> QED
    BY <2>1, <2>2, DeviceChange, Zenon
<1>2. None \in Messages
  BY DEF Messages
<1>3. inbox' \in [Device -> Messages]
  BY <1>2 DEF Stopped, DeviceTypes
<1> QED
  BY <1>1, <1>3 DEF Stopped, DeviceTypes

LEMMA DeviceTypesStep ==
  ASSUME ServerTypes, DeviceTypes, Round, Stages, Next
  PROVE  DeviceTypes'
<1>1. CASE \E c \in Commands : SendCommand(c)
  BY <1>1 DEF SendCommand, DeviceTypes, server, data, devices, process
<1>2. CASE CAAccept
  BY <1>2 DEF CAAccept, Goto, Accepted, DeviceTypes, process, data, cert, devices
<1>3. CASE CALock
  BY <1>3 DEF CALock, Goto, DeviceTypes, process, data, cert, devices
<1>4. CASE CARecvFails
  BY <1>4 DEF CARecvFails, DeviceTypes, process, data, cert, devices
<1>5. CASE CARecvBad
  BY <1>5 DEF CARecvBad, Receives, Goto, DeviceTypes, process, data, devices
<1>6. CASE CARecvHuge
  BY <1>6, DieEffect, HangUpEffect DEF CARecvHuge, DeviceTypes
<1>7. CASE CARecvShow
  BY <1>7 DEF CARecvShow, Receives, Goto, DeviceTypes, process, data, cert, devices
<1>8. CASE CARecvExit
  BY <1>8 DEF CARecvExit, Receives, Goto, DeviceTypes, data, cert, devices
<1>9. CASE \E c \in Updates, r \in BOOLEAN : CAUpdate(c, r)
  BY <1>9 DEF CAUpdate, Receives, DeviceTypes, process, cert, devices
<1>10. CASE CAConnect
  <2>1. Head(ca.todo) \in Device
    BY <1>10, HeadOfRound DEF CAConnect, InLoop
  <2>2. dev \in [Device -> DeviceProcess] /\ "applying" \in DeviceStages
        /\ TRUE \in BOOLEAN
    BY DEF DeviceTypes, DeviceStages
  <2>3. dev' = [dev EXCEPT ![Head(ca.todo)].pc = "applying",
                          ![Head(ca.todo)].locked = TRUE]
    BY <1>10, Zenon DEF CAConnect
  <2>4. dev' \in [Device -> DeviceProcess]
    BY <2>1, <2>2, <2>3, DeviceChange, Zenon
  <2> QED
    BY <1>10, <2>4 DEF CAConnect, DeviceTypes
<1>11. CASE CASend
  <2>1. ca.msg \in Messages
    BY CommandFields DEF ServerTypes
  <2> QED
    BY <1>11, <2>1 DEF CASend, DeviceTypes
<1>12. CASE CARefused
  <2>1. CASE Die
    BY <2>1, DieEffect, HangUpEffect DEF DeviceTypes
  <2>2. CASE ~Die
    <3>1. excuse' \in [Device -> SUBSET Causes]
      BY <1>12, <2>2, MissedFullType DEF CARefused
    <3> QED
      BY <1>12, <2>2, <3>1 DEF CARefused, DeviceTypes
  <2> QED
    BY <2>1, <2>2
<1>13. CASE CAAnswered
  BY <1>13 DEF CAAnswered, NextDevice, ClosedOnce, Goto, DeviceTypes, process, data,
     cert, devices
<1>14. CASE CALost
  <2>1. CASE Die
    BY <2>1, DieEffect, HangUpEffect DEF DeviceTypes
  <2>2. CASE ~Die
    <3>1. excuse' \in [Device -> SUBSET Causes]
      BY <1>14, <2>2, MissedFullType DEF CALost, DeviceTypes, process, data, cert,
         devices
    <3> QED
      BY <1>14, <2>2, <3>1 DEF CALost, DeviceTypes, process, data, cert, devices
  <2> QED
    BY <2>1, <2>2
<1>15. CASE CAClose
  BY <1>15, HangUpEffect DEF CAClose, DeviceTypes
<1>16. CASE CAReply
  BY <1>16 DEF CAReply, Goto, DeviceTypes, process, data, devices
<1>17. CASE CAUnlock
  BY <1>17 DEF CAUnlock, Goto, DeviceTypes, process, data, cert, devices
<1>18. CASE CAExit
  BY <1>18, DieEffect, HangUpEffect DEF CAExit, DeviceTypes
<1>19. CASE ConnAccept
  BY <1>19 DEF ConnAccept, Accepted, DeviceTypes, process, data, cert, devices
<1>20. CASE ConnLock
  BY <1>20 DEF ConnLock, ConnGoto, DeviceTypes, process, data, cert, devices
<1>21. CASE ConnSend
  <2>1. Full(snapshot) \in Messages
    BY FullType DEF ServerTypes
  <2> QED
    BY <1>21, <2>1 DEF ConnSend, DeviceTypes
<1>22. CASE ConnLost
  <2>1. CASE Die
    BY <2>1, DieEffect, HangUpEffect DEF DeviceTypes
  <2>2. CASE ~Die
    BY <1>22, <2>2 DEF ConnLost, DeviceTypes, process, data, cert, devices
  <2> QED
    BY <2>1, <2>2
<1>23. CASE ConnAnswered
  BY <1>23 DEF ConnAnswered, ConnGoto, ClosedOnce, DeviceTypes, process, data, cert,
     devices
<1>24. CASE ConnClose
  BY <1>24 DEF ConnClose, ConnGoto, NotTwice, DeviceTypes, process, data, devices
<1>25. CASE ConnUnlock
  BY <1>25 DEF ConnUnlock, ConnGoto, DeviceTypes, process, data, cert, devices
<1>26. CASE \E d \in Device : Boot(d)
  <2>1. PICK d \in Device : Boot(d)
    BY <1>26
  <2>2. dev[d].boot + 1 \in 0 .. MaxBoots /\ "connecting" \in DeviceStages
    BY <2>1, DeviceFields, DistributionAssumption DEF Boot, DeviceTypes, DeviceStages
  <2>3. dev' = [dev EXCEPT ![d].pc = "connecting", ![d].boot = dev[d].boot + 1]
    BY <2>1 DEF Boot, DeviceTypes
  <2>4. dev \in [Device -> DeviceProcess]
    BY DEF DeviceTypes
  <2>5. dev' \in [Device -> DeviceProcess]
    BY <2>2, <2>3, <2>4, DeviceChange, Zenon
  <2> QED
    BY <2>1, <2>5 DEF Boot, DeviceTypes
<1>27. CASE \E d \in Device : DevConnect(d)
  <2>1. PICK d \in Device : DevConnect(d)
    BY <1>27
  <2>2. dev \in [Device -> DeviceProcess] /\ "reading" \in DeviceStages
    BY DEF DeviceTypes, DeviceStages
  <2>3. dev' = [dev EXCEPT ![d].pc = "reading"]
    BY <2>1, Zenon DEF DevConnect, DevGoto
  <2>4. dev' \in [Device -> DeviceProcess]
    BY <2>2, <2>3, DeviceChange, Zenon
  <2> QED
    BY <2>1, <2>4 DEF DevConnect, DeviceTypes
<1>28. CASE \E d \in Device : DevReceive(d)
  <2>1. PICK d \in Device : DevReceive(d)
    BY <1>28
  <2>2. dev \in [Device -> DeviceProcess] /\ "decoding" \in DeviceStages
    BY DEF DeviceTypes, DeviceStages
  <2>3. dev' = [dev EXCEPT ![d].pc = "decoding"]
    BY <2>1, Zenon DEF DevReceive, DevGoto
  <2>4. dev' \in [Device -> DeviceProcess]
    BY <2>2, <2>3, DeviceChange, Zenon
  <2> QED
    BY <2>1, <2>4 DEF DevReceive, DeviceTypes
<1>29. CASE \E d \in Device : DevDecode(d)
  <2>1. PICK d \in Device : DevDecode(d)
    BY <1>29
  <2>2. inbox[d].kind = "full" /\ inbox[d] # None
    BY <2>1 DEF DevDecode, Stages
  <2>3. InstallFull(d, "binding")
    BY <2>1 DEF DevDecode
  <2> QED
    BY <2>1, <2>2, <2>3, InstallTypes DEF DevDecode, DeviceTypes, DeviceStages
<1>30. CASE \E d \in Device : DevListen(d)
  <2>1. PICK d \in Device : DevListen(d)
    BY <1>30
  <2>2. dev \in [Device -> DeviceProcess] /\ "listening" \in DeviceStages
    BY DEF DeviceTypes, DeviceStages
  <2>3. dev' = [dev EXCEPT ![d].pc = "listening"]
    BY <2>1, Zenon DEF DevListen, DevGoto
  <2>4. dev' \in [Device -> DeviceProcess]
    BY <2>2, <2>3, DeviceChange, Zenon
  <2> QED
    BY <2>1, <2>4 DEF DevListen, DeviceTypes
<1>31. CASE \E d \in Device : DevApply(d)
  <2>1. PICK d \in Device : DevApply(d)
    BY <1>31
  <2>2. inbox[d] \in Messages /\ inbox[d] # None
    BY <2>1 DEF DevApply, DeviceTypes
  <2>3. CASE InstallFull(d, "listening")
    BY <2>1, <2>2, <2>3, InstallTypes DEF DevApply, DeviceTypes, DeviceStages
  <2>4. CASE ~InstallFull(d, "listening")
    <3>1. PICK v \in Outcomes(dev[d].view, inbox[d]) :
            dev' = [dev EXCEPT ![d].pc = "listening", ![d].view = v, ![d].locked = FALSE]
      BY <2>1, <2>4 DEF DevApply
    <3>2. inbox[d].kind = "delta"
      BY <2>1, <2>4 DEF DevApply
    <3>3. v \in Versions \cup {NoView, Diverged}
      BY <2>2, <3>2, DeviceFields, MessageTypes DEF Outcomes, DeviceTypes
    <3>a. /\ dev \in [Device -> DeviceProcess] /\ "listening" \in DeviceStages
          /\ FALSE \in BOOLEAN
      BY DEF DeviceTypes, DeviceStages
    <3>4. dev' \in [Device -> DeviceProcess]
      BY <3>1, <3>3, <3>a, DeviceChange, ZenonT(40)
    <3>5. NewExcuses(dev[d].view, inbox[d]) \subseteq Causes
      BY DEF NewExcuses, Causes
    <3>6. /\ excuse' = [excuse EXCEPT ![d] = @ \cup NewExcuses(dev[d].view, inbox[d])]
          /\ inbox' = [inbox EXCEPT ![d] = None] /\ torn' = torn
      BY <2>1, <2>4 DEF DevApply
    <3>7. None \in Messages
      BY DEF Messages
    <3> QED
      BY <3>4, <3>5, <3>6, <3>7 DEF DeviceTypes
  <2> QED
    BY <2>3, <2>4
<1>32. CASE \E d \in Device : Crash(d)
  <2>1. PICK d \in Device : Crash(d)
    BY <1>32
  <2> QED
    BY <2>1, StoppedTypes DEF Crash
<1>33. CASE \E d \in Device : Query(d)
  <2>1. PICK d \in Device : Query(d)
    BY <1>33
  <2>2. CASE Stopped(d)
    BY <2>2, StoppedTypes
  <2>3. CASE ~Stopped(d)
    BY <2>1, <2>3 DEF Query, DeviceTypes
  <2> QED
    BY <2>2, <2>3
<1>34. CASE Kill
  BY <1>34, DieEffect, HangUpEffect DEF Kill, DeviceTypes
<1>35. CASE Restart
  <2>1. "server restarted" \in Causes
    BY DEF Causes
  <2>2. excuse' \in [Device -> SUBSET Causes]
    BY <1>35, <2>1 DEF Restart, DeviceTypes
  <2> QED
    BY <1>35, <2>2, RestartEffect DEF DeviceTypes
<1> QED
  BY <1>1, <1>2, <1>3, <1>4, <1>5, <1>6, <1>7, <1>8, <1>9, <1>10, <1>11, <1>12,
     <1>13, <1>14, <1>15, <1>16, <1>17, <1>18, <1>19, <1>20, <1>21, <1>22, <1>23,
     <1>24, <1>25, <1>26, <1>27, <1>28, <1>29, <1>30, <1>31, <1>32, <1>33, <1>34,
     <1>35 DEF Next, CAStep, ConnStep, DevStep

\* Nothing that is counted changes, and no command starts to wait.
LEMMA CountedKept ==
  ASSUME Counted, UNCHANGED <<runs, control, sent>>, Pending' <= Pending,
         runs \in Nat, sent \in Nat, control.epoch \in Nat, control.n \in Nat
  PROVE  Counted'
<1>1. PICK p \in 0 .. 1, q \in 0 .. 1 : p = Pending /\ q = Pending' /\ q <= p
  BY DEF Pending
<1> QED
  BY <1>1 DEF Counted

LEMMA CountedStep ==
  ASSUME ServerTypes, DeviceTypes, Locks, Counted, Round, Next
  PROVE  Counted'
<1>0. /\ runs \in Nat /\ sent \in Nat /\ control.epoch \in Nat /\ control.n \in Nat
      /\ Pending \in {0, 1} /\ MaxRuns \in Nat /\ MaxCommands \in Nat /\ sent <= MaxCommands
  BY VersionTypes, DistributionAssumption DEF ServerTypes, Pending
<1>1. CASE \E c \in Commands : SendCommand(c)
  BY <1>1, <1>0, SMTT(30) DEF SendCommand, Counted, Pending, ServerTypes, CommandThread, server,
     data, devices, process
<1>2. CASE CAAccept
  BY <1>2, <1>0 DEF CAAccept, Goto, Accepted, Counted, Pending, ServerTypes,
     CommandThread, process, data, cert, devices
<1>3. CASE CALock
  BY <1>3, <1>0 DEF CALock, Goto, Counted, Pending, ServerTypes, CommandThread,
     process, data, cert, devices
<1>4. CASE CARecvFails
  BY <1>4, <1>0 DEF CARecvFails, Counted, Pending, ServerTypes, CommandThread,
     process, data, cert, devices
<1>5. CASE CARecvBad
  <2>1. Pending' = 0 /\ UNCHANGED <<runs, control, sent>>
    BY <1>5 DEF CARecvBad, Pending, process, data
  <2>2. Pending' <= Pending
    BY <1>0, <2>1
  <2> QED
    BY <1>0, <2>1, <2>2, CountedKept
<1>6. CASE CARecvHuge
  BY <1>6, <1>0, DieEffect DEF CARecvHuge, Counted, Pending
<1>7. CASE CARecvShow
  <2>1. ca'.pc = "reply" /\ UNCHANGED <<runs, control, sent>>
    BY <1>7 DEF CARecvShow, Goto, ServerTypes, CommandThread, process, data, cert
  <2>2. Pending' = 0
    BY <2>1 DEF Pending
  <2>3. Pending' <= Pending
    BY <1>0, <2>2
  <2> QED
    BY <1>0, <2>1, <2>3, CountedKept
<1>8. CASE CARecvExit
  <2>1. ca'.pc = "reply" /\ UNCHANGED <<runs, control, sent>>
    BY <1>8 DEF CARecvExit, Goto, ServerTypes, CommandThread, data, cert
  <2>2. Pending' = 0
    BY <2>1 DEF Pending
  <2>3. Pending' <= Pending
    BY <1>0, <2>2
  <2> QED
    BY <1>0, <2>1, <2>3, CountedKept
<1>9. CASE \E c \in Updates, r \in BOOLEAN : CAUpdate(c, r)
  <2>1. PICK c \in Updates, r \in BOOLEAN : CAUpdate(c, r)
    BY <1>9
  <2>2. ca'.pc \in {"reply", "connect"}
    BY <2>1 DEF CAUpdate, ServerTypes, CommandThread
  <2>3. UNCHANGED <<runs, sent>>
    BY <2>1 DEF CAUpdate, process, cert, devices
  <2>4. Pending' = 0
    BY <2>2 DEF Pending
  <2> QED
    BY <1>0, <2>1, <2>3, <2>4, UpdateFacts, VersionTypes DEF Counted
<1>10. CASE CAConnect
  BY <1>10, <1>0 DEF CAConnect, Counted, Pending, ServerTypes, CommandThread, process,
     data, cert
<1>11. CASE CASend
  BY <1>11, <1>0 DEF CASend, Goto, Counted, Pending, ServerTypes, CommandThread,
     process, data, cert
<1>12. CASE CARefused
  <2>1. CASE Die
    BY <1>0, <2>1, DieEffect DEF Counted, Pending
  <2>2. CASE ~Die
    BY <1>12, <1>0, <2>2, NextDeviceType, HeadOfRound DEF CARefused, Counted, Pending,
       Goto, InLoop, ServerTypes, CommandThread, process, data, cert
  <2> QED
    BY <2>1, <2>2
<1>13. CASE CAAnswered
  BY <1>13, <1>0, NextDeviceType, HeadOfRound DEF CAAnswered, Counted, Pending, Goto,
     InLoop, ServerTypes, CommandThread, process, data, cert, devices
<1>14. CASE CALost
  <2>1. CASE Die
    BY <1>0, <2>1, DieEffect DEF Counted, Pending
  <2>2. CASE ~Die
    BY <1>14, <1>0, <2>2, NextDeviceType, HeadOfRound DEF CALost, Counted, Pending,
       Goto, InLoop, ServerTypes, CommandThread, process, data, cert, devices
  <2> QED
    BY <2>1, <2>2
<1>15. CASE CAClose
  <2>1. ca'.pc \in {"reply", "connect"}
    BY <1>15, NextDeviceType, HeadOfRound DEF CAClose, InLoop
  <2>2. Pending' = 0
    BY <2>1 DEF Pending
  <2>3. UNCHANGED <<runs, control, sent>>
    BY <1>15 DEF CAClose, process, data, cert
  <2>4. Pending' <= Pending
    BY <1>0, <2>2
  <2> QED
    BY <1>0, <2>3, <2>4, CountedKept
<1>16. CASE CAReply
  BY <1>16, <1>0 DEF CAReply, Goto, Counted, Pending, ServerTypes, CommandThread,
     process, data, devices
<1>17. CASE CAUnlock
  <2>1. ca.pc = "unlock" /\ UNCHANGED <<runs, control, sent, request>>
    BY <1>17 DEF CAUnlock, process, data, cert
  <2>2. Pending' <= Pending
    BY <1>0, <2>1 DEF Pending
  <2> QED
    BY <1>0, <2>1, <2>2, CountedKept
<1>18. CASE CAExit
  BY <1>18, <1>0, DieEffect DEF CAExit, Counted, Pending
<1>19. CASE ConnAccept
  BY <1>19, <1>0 DEF ConnAccept, Accepted, Counted, Pending, ServerTypes,
     CommandThread, process, data, cert, devices
<1>20. CASE ConnLock
  BY <1>20, <1>0 DEF ConnLock, ConnGoto, Counted, Pending, ServerTypes, CommandThread,
     process, data, cert, devices
<1>21. CASE ConnSend
  BY <1>21, <1>0 DEF ConnSend, ConnGoto, Reading, Counted, Pending, ServerTypes,
     CommandThread, process, data, cert
<1>22. CASE ConnLost
  BY <1>22, <1>0, DieEffect DEF ConnLost, Counted, Pending, process, data, cert,
     devices
<1>23. CASE ConnAnswered
  BY <1>23, <1>0 DEF ConnAnswered, ConnGoto, ClosedOnce, Counted, Pending,
     ServerTypes, CommandThread, process, data, cert, devices
<1>24. CASE ConnClose
  BY <1>24, <1>0, SMTT(30) DEF ConnClose, ConnGoto, NotTwice, Counted, Pending, ServerTypes,
     CommandThread, process, data, devices
<1>25. CASE ConnUnlock
  BY <1>25, <1>0 DEF ConnUnlock, ConnGoto, Counted, Pending, ServerTypes,
     CommandThread, process, data, cert, devices
<1>26. CASE \E d \in Device : Boot(d)
  BY <1>26, <1>0 DEF Boot, Counted, Pending, ServerTypes, CommandThread, server, data,
     cert, process
<1>27. CASE \E d \in Device : DevConnect(d)
  BY <1>27, <1>0 DEF DevConnect, DevGoto, Counted, Pending, ServerTypes,
     CommandThread, process, data, cert
<1>28. CASE \E d \in Device : DevReceive(d)
  BY <1>28, <1>0 DEF DevReceive, DevGoto, Counted, Pending, ServerTypes,
     CommandThread, server, data, cert, process
<1>29. CASE \E d \in Device : DevDecode(d)
  BY <1>29, <1>0 DEF DevDecode, InstallFull, Counted, Pending, ServerTypes,
     CommandThread, server, data, cert, process
<1>30. CASE \E d \in Device : DevListen(d)
  BY <1>30, <1>0 DEF DevListen, DevGoto, Counted, Pending, ServerTypes, CommandThread,
     server, data, cert, process
<1>31. CASE \E d \in Device : DevApply(d)
  BY <1>31, <1>0 DEF DevApply, InstallFull, Counted, Pending, ServerTypes,
     CommandThread, server, data, cert, process
<1>32. CASE \E d \in Device : Crash(d)
  BY <1>32, <1>0 DEF Crash, Stopped, Counted, Pending, ServerTypes, CommandThread,
     server, data, cert, process
<1>33. CASE \E d \in Device : Query(d)
  BY <1>33, <1>0 DEF Query, Stopped, Counted, Pending, ServerTypes, CommandThread,
     server, data, cert, process
<1>34. CASE Kill
  BY <1>34, <1>0, DieEffect DEF Kill, Counted, Pending
<1>35. CASE Restart
  <2>1. Pending' = 0 /\ runs' = runs + 1 /\ runs < MaxRuns /\ sent' = sent
    BY <1>35, RestartEffect DEF Pending, Restart
  <2>2. control'.epoch = control.epoch + 1 /\ control'.n = 0
    BY <1>35 DEF Restart, Version
  <2>3. PICK p \in 0 .. 1 : p = Pending
    BY <1>0
  <2>4. /\ runs >= 1 /\ control.n + p <= sent
        /\ control.epoch + control.n + p + 1 <= sent + runs
    BY <2>3 DEF Counted
  <2> QED
    BY <1>0, <2>1, <2>2, <2>4 DEF Counted
<1> QED
  BY <1>1, <1>2, <1>3, <1>4, <1>5, <1>6, <1>7, <1>8, <1>9, <1>10, <1>11, <1>12,
     <1>13, <1>14, <1>15, <1>16, <1>17, <1>18, <1>19, <1>20, <1>21, <1>22, <1>23,
     <1>24, <1>25, <1>26, <1>27, <1>28, <1>29, <1>30, <1>31, <1>32, <1>33, <1>34,
     <1>35 DEF Next, CAStep, ConnStep, DevStep

-----------------------------------------------------------------------------
(***************************************************************************)
(* The other parts of the invariant.                                       *)
(***************************************************************************)
LEMMA RoundKept ==
  Round /\ UNCHANGED <<ca, control, connected>> => Round'
BY DEF Round, InLoop

LEMMA RoundAdvanced ==
  ASSUME ServerTypes, Round, InLoop, ca' = NextDevice, UNCHANGED <<control, connected>>
  PROVE  Round'
<1>1. ca.todo \in Seq(Device) /\ ca.todo # << >>
  BY DEF Round, ServerTypes, CommandThread
<1>2. ca'.todo = Tail(ca.todo) /\ ca'.msg = ca.msg
      /\ (ca'.pc \in {"reply", "connect"}) /\ (ca'.pc = "connect" <=> ca'.todo # << >>)
  BY <1>1, NextDeviceType
<1>3. \A i \in 1 .. Len(Tail(ca.todo)) : i + 1 \in 1 .. Len(ca.todo)
                                         /\ Tail(ca.todo)[i] = ca.todo[i + 1]
  BY <1>1
<1>4. \A i \in 1 .. Len(ca'.todo) : Among(ca'.todo[i], connected')
  BY <1>2, <1>3 DEF Round
<1> QED
  BY <1>2, <1>4 DEF Round, InLoop

LEMMA RoundStep ==
  ASSUME ServerTypes, DeviceTypes, Locks, Counted, Round, Serving, Next
  PROVE  Round'
<1>1. CASE \E c \in Commands : SendCommand(c)
  BY <1>1, RoundKept DEF SendCommand, server, data, devices, process
<1>2. CASE CAAccept
  BY <1>2 DEF CAAccept, Goto, Round, InLoop, ServerTypes, CommandThread
<1>3. CASE CALock
  BY <1>3 DEF CALock, Goto, Round, InLoop, ServerTypes, CommandThread
<1>4. CASE CARecvFails
  BY <1>4 DEF CARecvFails, Goto, Round, InLoop, ServerTypes, CommandThread
<1>5. CASE CARecvBad
  BY <1>5 DEF CARecvBad, Goto, Round, InLoop, ServerTypes, CommandThread
<1>6. CASE CARecvHuge
  BY <1>6, RoundKept, DieEffect DEF CARecvHuge
<1>7. CASE CARecvShow
  BY <1>7 DEF CARecvShow, Goto, Round, InLoop, ServerTypes, CommandThread
<1>8. CASE CARecvExit
  BY <1>8 DEF CARecvExit, Goto, Round, InLoop, ServerTypes, CommandThread
<1>9. CASE \E c \in Updates, r \in BOOLEAN : CAUpdate(c, r)
  <2>1. PICK c \in Updates, r \in BOOLEAN : CAUpdate(c, r)
    BY <1>9
  <2>2. /\ control' = Delta(c, r).to /\ control' \in Versions
        /\ Delta(c, r) # None /\ Delta(c, r).kind = "delta" /\ Delta(c, r).act = c
        /\ Delta(c, r).rebuilt = r
        /\ snapshot' \in Versions /\ (r => snapshot' = control')
    BY <2>1, UpdateFacts
  <2>3. CASE connected = << >>
    BY <2>1, <2>3 DEF CAUpdate, Round, InLoop, ServerTypes, CommandThread
  <2>4. CASE connected # << >>
    <3>1. /\ ca'.pc = "connect" /\ ca'.todo = connected /\ connected' = connected
          /\ ca'.msg = IF r /\ c \in {"add", "unr"} THEN Full(snapshot') ELSE Delta(c, r)
      BY <2>1, <2>4 DEF CAUpdate, ServerTypes, CommandThread
    <3>2. r => c \in {"add", "unr", "rev"}
      BY <2>1, DistributionAssumption DEF CAUpdate
    <3>3. ca'.msg # None /\ ca'.msg.to = control'
      BY <2>2, <3>1, FullType
    <3>4. ca'.msg.kind = "delta" /\ ca'.msg.rebuilt => ca'.msg.act = "rev"
      BY <2>2, <3>1, <3>2, FullType
    <3>5. \A i \in 1 .. Len(ca'.todo) : Among(ca'.todo[i], connected')
      BY <3>1 DEF Among
    <3> QED
      BY <2>4, <3>1, <3>3, <3>4, <3>5 DEF Round
  <2> QED
    BY <2>3, <2>4
<1>10. CASE CAConnect
  BY <1>10 DEF CAConnect, Round, InLoop, ServerTypes, CommandThread, process, data,
     cert
<1>11. CASE CASend
  BY <1>11 DEF CASend, Goto, Round, InLoop, ServerTypes, CommandThread, process, data,
     cert
<1>12. CASE CARefused
  <2>1. CASE Die
    BY <2>1, RoundKept, DieEffect
  <2>2. CASE ~Die
    BY <1>12, <2>2 DEF CARefused, Round, InLoop, ServerTypes, CommandThread
  <2> QED
    BY <2>1, <2>2
<1>13. CASE CAAnswered
  <2>1. UNCHANGED <<control, connected>>
    BY <1>13 DEF CAAnswered, process, data, cert, devices
  <2>2. CASE ca' = NextDevice
    BY <1>13, <2>1, <2>2, RoundAdvanced DEF CAAnswered, InLoop
  <2>3. CASE ca' # NextDevice
    BY <1>13, <2>1, <2>3 DEF CAAnswered, Goto, Round, InLoop, ServerTypes,
       CommandThread
  <2> QED
    BY <2>2, <2>3
<1>14. CASE CALost
  <2>1. CASE Die
    BY <2>1, RoundKept, DieEffect
  <2>2. CASE ~Die
    <3>1. UNCHANGED <<control, connected>>
      BY <1>14, <2>2 DEF CALost, process, data, cert, devices
    <3>2. CASE ca' = NextDevice
      BY <1>14, <3>1, <3>2, RoundAdvanced DEF CALost, InLoop
    <3>3. CASE ca' = [ca EXCEPT !.pc = "closing"]
      BY <1>14, <3>1, <3>3 DEF CALost, Round, InLoop, ServerTypes, CommandThread
    <3>4. CASE ca' = [ca EXCEPT !.pc = "closing", !.todo = <<Head(ca.todo)>>]
      <4>1. /\ ca'.pc = "closing" /\ ca'.todo = <<Head(ca.todo)>> /\ ca'.msg = ca.msg
        BY <3>4 DEF ServerTypes, CommandThread
      <4>2. ca.todo \in Seq(Device) /\ ca.todo # << >> /\ InLoop
        BY <1>14 DEF CALost, Round, InLoop, ServerTypes, CommandThread
      <4>3. Among(Head(ca.todo), connected)
        BY <4>2, Head(ca.todo) = ca.todo[1], 1 \in 1 .. Len(ca.todo) DEF Round
      <4>4. \A i \in 1 .. Len(ca'.todo) : Among(ca'.todo[i], connected')
        BY <3>1, <4>1, <4>3
      <4> QED
        BY <3>1, <4>1, <4>2, <4>4 DEF Round
    <3> QED
      BY <1>14, <2>2, <3>2, <3>3, <3>4 DEF CALost, Goto
  <2> QED
    BY <2>1, <2>2
<1>15. CASE CAClose
  BY <1>15, RoundAdvanced DEF CAClose, InLoop, process, data, cert
<1>16. CASE CAReply
  BY <1>16 DEF CAReply, Goto, Round, InLoop, ServerTypes, CommandThread
<1>17. CASE CAUnlock
  BY <1>17 DEF CAUnlock, Goto, Round, InLoop, ServerTypes, CommandThread
<1>18. CASE CAExit
  BY <1>18, RoundKept, DieEffect DEF CAExit
<1>19. CASE ConnAccept
  BY <1>19, RoundKept DEF ConnAccept, process, data, cert, devices
<1>20. CASE ConnLock
  <2>1. connected \in Seq(Device) /\ conn.cur.d \in Device
    BY <1>20 DEF ConnLock, ServerTypes, Serving, Busy, Connection
  <2>2. \A d : Among(d, connected) => Among(d, connected')
    BY <1>20, <2>1, AmongAppend DEF ConnLock
  <2> QED
    BY <1>20, <2>2 DEF ConnLock, Round, InLoop, process, data, cert, devices
<1>21. CASE ConnSend
  BY <1>21, RoundKept DEF ConnSend, process, data, cert
<1>22. CASE ConnLost
  BY <1>22, RoundKept, DieEffect DEF ConnLost, process, data, cert, devices
<1>23. CASE ConnAnswered
  BY <1>23, RoundKept DEF ConnAnswered, process, data, cert, devices
<1>24. CASE ConnClose
  BY <1>24 DEF ConnClose, Round, InLoop, ServerTypes, CommandThread, process, data,
     devices
<1>25. CASE ConnUnlock
  BY <1>25, RoundKept DEF ConnUnlock, process, data, cert, devices
<1>26. CASE \E d \in Device : Boot(d)
  BY <1>26, RoundKept DEF Boot, server, data, cert, process
<1>27. CASE \E d \in Device : DevConnect(d)
  BY <1>27, RoundKept DEF DevConnect, process, data, cert
<1>28. CASE \E d \in Device : DevReceive(d)
  BY <1>28, RoundKept DEF DevReceive, server, data, cert, process
<1>29. CASE \E d \in Device : DevDecode(d)
  BY <1>29, RoundKept DEF DevDecode, server, data, cert, process
<1>30. CASE \E d \in Device : DevListen(d)
  BY <1>30, RoundKept DEF DevListen, server, data, cert, process
<1>31. CASE \E d \in Device : DevApply(d)
  BY <1>31, RoundKept DEF DevApply, server, data, cert, process
<1>32. CASE \E d \in Device : Crash(d)
  BY <1>32, RoundKept DEF Crash, server, data, cert, process
<1>33. CASE \E d \in Device : Query(d)
  BY <1>33, RoundKept DEF Query, server, data, cert, process
<1>34. CASE Kill
  BY <1>34, RoundKept, DieEffect DEF Kill
<1>35. CASE Restart
  BY <1>35, RestartEffect DEF Round, InLoop
<1> QED
  BY <1>1, <1>2, <1>3, <1>4, <1>5, <1>6, <1>7, <1>8, <1>9, <1>10, <1>11, <1>12,
     <1>13, <1>14, <1>15, <1>16, <1>17, <1>18, <1>19, <1>20, <1>21, <1>22, <1>23,
     <1>24, <1>25, <1>26, <1>27, <1>28, <1>29, <1>30, <1>31, <1>32, <1>33, <1>34,
     <1>35 DEF Next, CAStep, ConnStep, DevStep

LEMMA ServingKept ==
  Serving /\ UNCHANGED <<conn, connected>> => Serving'
BY DEF Serving

LEMMA ServingStep ==
  ASSUME ServerTypes, Serving, Next
  PROVE  Serving'
<1>1. CASE \E c \in Commands : SendCommand(c)
  BY <1>1, ServingKept DEF SendCommand, server, data, devices, process
<1>2. CASE CAAccept
  BY <1>2, ServingKept DEF CAAccept, process, data, cert, devices
<1>3. CASE CALock
  BY <1>3, ServingKept DEF CALock, process, data, cert, devices
<1>4. CASE CARecvFails
  BY <1>4, ServingKept DEF CARecvFails, process, data, cert, devices
<1>5. CASE CARecvBad
  BY <1>5, ServingKept DEF CARecvBad, process, data, devices
<1>6. CASE CARecvHuge
  BY <1>6, ServingKept, DieEffect DEF CARecvHuge
<1>7. CASE CARecvShow
  BY <1>7, ServingKept DEF CARecvShow, process, data, cert, devices
<1>8. CASE CARecvExit
  BY <1>8, ServingKept DEF CARecvExit, data, cert, devices
<1>9. CASE \E c \in Updates, r \in BOOLEAN : CAUpdate(c, r)
  BY <1>9, ServingKept DEF CAUpdate, process, cert, devices
<1>10. CASE CAConnect
  BY <1>10, ServingKept DEF CAConnect, process, data, cert
<1>11. CASE CASend
  BY <1>11, ServingKept DEF CASend, process, data, cert
<1>12. CASE CARefused
  BY <1>12, ServingKept, DieEffect DEF CARefused
<1>13. CASE CAAnswered
  BY <1>13, ServingKept DEF CAAnswered, process, data, cert, devices
<1>14. CASE CALost
  BY <1>14, ServingKept, DieEffect DEF CALost
<1>15. CASE CAClose
  BY <1>15 DEF CAClose, Serving, ServerTypes, ConnectionThread
<1>16. CASE CAReply
  BY <1>16, ServingKept DEF CAReply, process, data, devices
<1>17. CASE CAUnlock
  BY <1>17, ServingKept DEF CAUnlock, process, data, cert, devices
<1>18. CASE CAExit
  BY <1>18, ServingKept, DieEffect DEF CAExit
<1>19. CASE ConnAccept
  <2>1. Head(backlog) \in Connection
    BY <1>19 DEF ConnAccept, ServerTypes
  <2>2. conn'.pc = "lock" /\ conn'.cur = Head(backlog)
    BY <1>19 DEF ConnAccept, ServerTypes, ConnectionThread
  <2> QED
    BY <2>1, <2>2 DEF Serving
<1>20. CASE ConnLock
  <2>1. connected \in Seq(Device) /\ conn.cur.d \in Device /\ conn.cur \in Connection
    BY <1>20 DEF ConnLock, ServerTypes, Serving, Busy, Connection
  <2>2. Among(conn.cur.d, connected')
    BY <1>20, <2>1, AmongAppend DEF ConnLock
  <2>3. conn'.pc = "send" /\ conn'.cur = conn.cur
    BY <1>20 DEF ConnLock, ConnGoto, ServerTypes, ConnectionThread
  <2> QED
    BY <2>1, <2>2, <2>3 DEF Serving
<1>21. CASE ConnSend
  BY <1>21 DEF ConnSend, ConnGoto, Serving, Busy, ServerTypes, ConnectionThread
<1>22. CASE ConnLost
  <2>1. CASE Die
    BY <2>1, ServingKept, DieEffect
  <2>2. CASE ~Die
    BY <1>22, <2>2 DEF ConnLost, Serving, Busy, ServerTypes, ConnectionThread
  <2> QED
    BY <2>1, <2>2
<1>23. CASE ConnAnswered
  BY <1>23 DEF ConnAnswered, ConnGoto, Serving, Busy, ServerTypes, ConnectionThread
<1>24. CASE ConnClose
  BY <1>24 DEF ConnClose, ConnGoto, Serving, Busy, ServerTypes, ConnectionThread
<1>25. CASE ConnUnlock
  BY <1>25 DEF ConnUnlock, ConnGoto, Serving, Busy, ServerTypes, ConnectionThread
<1>26. CASE \E d \in Device : Boot(d)
  BY <1>26, ServingKept DEF Boot, server, data, cert, process
<1>27. CASE \E d \in Device : DevConnect(d)
  BY <1>27, ServingKept DEF DevConnect, process, data, cert
<1>28. CASE \E d \in Device : DevReceive(d)
  BY <1>28, ServingKept DEF DevReceive, server, data, cert, process
<1>29. CASE \E d \in Device : DevDecode(d)
  BY <1>29, ServingKept DEF DevDecode, server, data, cert, process
<1>30. CASE \E d \in Device : DevListen(d)
  BY <1>30, ServingKept DEF DevListen, server, data, cert, process
<1>31. CASE \E d \in Device : DevApply(d)
  BY <1>31, ServingKept DEF DevApply, server, data, cert, process
<1>32. CASE \E d \in Device : Crash(d)
  BY <1>32, ServingKept DEF Crash, server, data, cert, process
<1>33. CASE \E d \in Device : Query(d)
  BY <1>33, ServingKept DEF Query, server, data, cert, process
<1>34. CASE Kill
  BY <1>34, ServingKept, DieEffect DEF Kill
<1>35. CASE Restart
  BY <1>35, RestartEffect DEF Serving, Busy
<1> QED
  BY <1>1, <1>2, <1>3, <1>4, <1>5, <1>6, <1>7, <1>8, <1>9, <1>10, <1>11, <1>12,
     <1>13, <1>14, <1>15, <1>16, <1>17, <1>18, <1>19, <1>20, <1>21, <1>22, <1>23,
     <1>24, <1>25, <1>26, <1>27, <1>28, <1>29, <1>30, <1>31, <1>32, <1>33, <1>34,
     <1>35 DEF Next, CAStep, ConnStep, DevStep

LEMMA StagesKept ==
  Stages /\ UNCHANGED <<dev, inbox>> => Stages'
BY DEF Stages

LEMMA StagesHungUp ==
  ASSUME DeviceTypes, Stages, NEW D, dev' = HangUp(D), inbox' = inbox
  PROVE  Stages'
BY HangUpEffect DEF Stages

LEMMA StagesInstalled ==
  ASSUME DeviceTypes, Stages, NEW d \in Device, inbox[d] # None,
         NEW p \in {"binding", "listening"}, InstallFull(d, p)
  PROVE  Stages'
<1>1. inbox[d].to # NoView
  BY MessageTypes, VersionTypes DEF DeviceTypes
<1> QED
  BY <1>1, ZenonT(40) DEF InstallFull, Stages, DeviceTypes, DeviceProcess

LEMMA StagesStopped ==
  ASSUME DeviceTypes, Stages, NEW d \in Device, Stopped(d)
  PROVE  Stages'
BY DEF Stopped, Stages, DeviceTypes, DeviceProcess

LEMMA StagesStep ==
  ASSUME ServerTypes, DeviceTypes, Round, Serving, Stages, Next
  PROVE  Stages'
<1>1. CASE \E c \in Commands : SendCommand(c)
  BY <1>1, StagesKept DEF SendCommand, server, data, devices, process
<1>2. CASE CAAccept
  BY <1>2, StagesKept DEF CAAccept, process, data, cert, devices
<1>3. CASE CALock
  BY <1>3, StagesKept DEF CALock, process, data, cert, devices
<1>4. CASE CARecvFails
  BY <1>4, StagesKept DEF CARecvFails, process, data, cert, devices
<1>5. CASE CARecvBad
  BY <1>5, StagesKept DEF CARecvBad, process, data, devices
<1>6. CASE CARecvHuge
  BY <1>6, StagesHungUp, DieEffect DEF CARecvHuge
<1>7. CASE CARecvShow
  BY <1>7, StagesKept DEF CARecvShow, process, data, cert, devices
<1>8. CASE CARecvExit
  BY <1>8, StagesKept DEF CARecvExit, data, cert, devices
<1>9. CASE \E c \in Updates, r \in BOOLEAN : CAUpdate(c, r)
  BY <1>9, StagesKept DEF CAUpdate, process, cert, devices
<1>10. CASE CAConnect
  <2>1. Head(ca.todo) \in Device
    BY <1>10, HeadOfRound DEF CAConnect, InLoop
  <2> QED
    BY <1>10, <2>1 DEF CAConnect, Stages, DeviceTypes, DeviceProcess
<1>11. CASE CASend
  <2>1. Head(ca.todo) \in Device /\ ca.msg # None
    BY <1>11, HeadOfRound DEF CASend, InLoop, Round
  <2> QED
    BY <1>11, <2>1 DEF CASend, Stages, DeviceTypes
<1>12. CASE CARefused
  BY <1>12, StagesKept, StagesHungUp, DieEffect DEF CARefused
<1>13. CASE CAAnswered
  BY <1>13, StagesKept DEF CAAnswered, process, data, cert, devices
<1>14. CASE CALost
  BY <1>14, StagesKept, StagesHungUp, DieEffect DEF CALost, process, data, cert,
     devices
<1>15. CASE CAClose
  BY <1>15, StagesKept, StagesHungUp DEF CAClose
<1>16. CASE CAReply
  BY <1>16, StagesKept DEF CAReply, process, data, devices
<1>17. CASE CAUnlock
  BY <1>17, StagesKept DEF CAUnlock, process, data, cert, devices
<1>18. CASE CAExit
  BY <1>18, StagesHungUp, DieEffect DEF CAExit
<1>19. CASE ConnAccept
  BY <1>19, StagesKept DEF ConnAccept, process, data, cert, devices
<1>20. CASE ConnLock
  BY <1>20, StagesKept DEF ConnLock, process, data, cert, devices
<1>21. CASE ConnSend
  <2>1. conn.cur.d \in Device /\ Full(snapshot) # None /\ Full(snapshot).kind = "full"
    BY <1>21, FullType DEF ConnSend, Serving, Busy, Connection, ServerTypes
  <2> QED
    BY <1>21, <2>1 DEF ConnSend, Reading, Stages, DeviceTypes
<1>22. CASE ConnLost
  BY <1>22, StagesKept, StagesHungUp, DieEffect DEF ConnLost, process, data, cert,
     devices
<1>23. CASE ConnAnswered
  BY <1>23, StagesKept DEF ConnAnswered, process, data, cert, devices
<1>24. CASE ConnClose
  BY <1>24, StagesKept DEF ConnClose, process, data, devices
<1>25. CASE ConnUnlock
  BY <1>25, StagesKept DEF ConnUnlock, process, data, cert, devices
<1>26. CASE \E d \in Device : Boot(d)
  <2>1. PICK d \in Device : Boot(d)
    BY <1>26
  <2> QED
    BY <2>1 DEF Boot, DevGoto, Stages, DeviceTypes, DeviceProcess
<1>27. CASE \E d \in Device : DevConnect(d)
  <2>1. PICK d \in Device : DevConnect(d)
    BY <1>27
  <2> QED
    BY <2>1 DEF DevConnect, DevGoto, Stages, DeviceTypes, DeviceProcess
<1>28. CASE \E d \in Device : DevReceive(d)
  <2>1. PICK d \in Device : DevReceive(d)
    BY <1>28
  <2> QED
    BY <2>1 DEF DevReceive, DevGoto, Stages, DeviceTypes, DeviceProcess
<1>29. CASE \E d \in Device : DevDecode(d)
  <2>1. PICK d \in Device : DevDecode(d)
    BY <1>29
  <2>2. inbox[d].kind = "full" /\ inbox[d] # None /\ InstallFull(d, "binding")
    BY <2>1 DEF DevDecode, Stages
  <2> QED
    BY <2>2, StagesInstalled
<1>30. CASE \E d \in Device : DevListen(d)
  <2>1. PICK d \in Device : DevListen(d)
    BY <1>30
  <2> QED
    BY <2>1 DEF DevListen, DevGoto, Stages, DeviceTypes, DeviceProcess
<1>31. CASE \E d \in Device : DevApply(d)
  <2>1. PICK d \in Device : DevApply(d)
    BY <1>31
  <2>2. inbox[d] \in Messages /\ inbox[d] # None
    BY <2>1 DEF DevApply, DeviceTypes
  <2>3. CASE InstallFull(d, "listening")
    BY <2>2, <2>3, StagesInstalled
  <2>4. CASE ~InstallFull(d, "listening")
    <3>1. PICK v \in Outcomes(dev[d].view, inbox[d]) :
            dev' = [dev EXCEPT ![d].pc = "listening", ![d].view = v, ![d].locked = FALSE]
      BY <2>1, <2>4 DEF DevApply
    <3>2. inbox[d].kind = "delta" /\ inbox' = [inbox EXCEPT ![d] = None]
      BY <2>1, <2>4 DEF DevApply
    <3>3. v # NoView
      BY <2>1, <2>2, <3>2, MessageTypes, VersionTypes, ViewsDiffer DEF Outcomes,
         DevApply, Stages
    <3> QED
      BY <3>1, <3>2, <3>3 DEF Stages, DeviceTypes, DeviceProcess
  <2> QED
    BY <2>3, <2>4
<1>32. CASE \E d \in Device : Crash(d)
  <2>1. PICK d \in Device : Crash(d)
    BY <1>32
  <2> QED
    BY <2>1, StagesStopped DEF Crash
<1>33. CASE \E d \in Device : Query(d)
  <2>1. PICK d \in Device : Query(d)
    BY <1>33
  <2> QED
    BY <2>1, StagesStopped, StagesKept DEF Query
<1>34. CASE Kill
  BY <1>34, StagesHungUp, DieEffect DEF Kill
<1>35. CASE Restart
  BY <1>35, RestartEffect, StagesKept
<1> QED
  BY <1>1, <1>2, <1>3, <1>4, <1>5, <1>6, <1>7, <1>8, <1>9, <1>10, <1>11, <1>12,
     <1>13, <1>14, <1>15, <1>16, <1>17, <1>18, <1>19, <1>20, <1>21, <1>22, <1>23,
     <1>24, <1>25, <1>26, <1>27, <1>28, <1>29, <1>30, <1>31, <1>32, <1>33, <1>34,
     <1>35 DEF Next, CAStep, ConnStep, DevStep

LEMMA RegisteredKept ==
  ASSUME RegisteredFirst, UNCHANGED <<alive, connected, inbox, excuse>>,
         \A d \in Device : dev'[d].view = dev[d].view
  PROVE  RegisteredFirst'
BY DEF RegisteredFirst

LEMMA RegisteredInstalled ==
  ASSUME DeviceTypes, RegisteredFirst, UNCHANGED <<alive, connected>>,
         NEW d \in Device, inbox[d] # None, NEW p, InstallFull(d, p)
  PROVE  RegisteredFirst'
BY DEF RegisteredFirst, InstallFull, DeviceTypes, DeviceProcess

LEMMA RegisteredStopped ==
  ASSUME DeviceTypes, RegisteredFirst, UNCHANGED <<alive, connected>>,
         NEW d \in Device, Stopped(d)
  PROVE  RegisteredFirst'
BY DEF RegisteredFirst, Stopped, DeviceTypes, DeviceProcess

LEMMA RegisteredStep ==
  ASSUME ServerTypes, DeviceTypes, Round, Serving, Stages, RegisteredFirst, Next
  PROVE  RegisteredFirst'
<1>1. CASE \E c \in Commands : SendCommand(c)
  BY <1>1, RegisteredKept DEF SendCommand, server, data, devices, process
<1>2. CASE CAAccept
  BY <1>2, RegisteredKept DEF CAAccept, process, data, cert, devices
<1>3. CASE CALock
  BY <1>3, RegisteredKept DEF CALock, process, data, cert, devices
<1>4. CASE CARecvFails
  BY <1>4, RegisteredKept DEF CARecvFails, process, data, cert, devices
<1>5. CASE CARecvBad
  BY <1>5, RegisteredKept DEF CARecvBad, process, data, devices
<1>6. CASE CARecvHuge
  BY <1>6, DieEffect DEF CARecvHuge, RegisteredFirst
<1>7. CASE CARecvShow
  BY <1>7, RegisteredKept DEF CARecvShow, process, data, cert, devices
<1>8. CASE CARecvExit
  BY <1>8, RegisteredKept DEF CARecvExit, data, cert, devices
<1>9. CASE \E c \in Updates, r \in BOOLEAN : CAUpdate(c, r)
  BY <1>9, RegisteredKept DEF CAUpdate, process, cert, devices
<1>10. CASE CAConnect
  BY <1>10, HeadOfRound, RegisteredKept DEF CAConnect, InLoop, DeviceTypes,
     DeviceProcess, process, data, cert
<1>11. CASE CASend
  <2>1. ca.todo \in Seq(Device) /\ ca.todo # << >> /\ InLoop
    BY <1>11, HeadOfRound DEF CASend, InLoop, ServerTypes, CommandThread
  <2>2. Head(ca.todo) \in Device /\ Among(Head(ca.todo), connected)
    BY <2>1, Head(ca.todo) = ca.todo[1], 1 \in 1 .. Len(ca.todo) DEF Round
  <2> QED
    BY <1>11, <2>2 DEF CASend, RegisteredFirst, DeviceTypes, process, data, cert
<1>12. CASE CARefused
  <2>1. CASE Die
    BY <2>1, DieEffect DEF RegisteredFirst
  <2>2. CASE ~Die
    BY <1>12, <2>2 DEF CARefused, MissedFull, RegisteredFirst, process, data, cert,
       DeviceTypes
  <2> QED
    BY <2>1, <2>2
<1>13. CASE CAAnswered
  BY <1>13, RegisteredKept DEF CAAnswered, process, data, cert, devices
<1>14. CASE CALost
  <2>1. CASE Die
    BY <2>1, DieEffect DEF RegisteredFirst
  <2>2. CASE ~Die
    BY <1>14, <2>2 DEF CALost, MissedFull, RegisteredFirst, process, data, cert,
       devices, DeviceTypes
  <2> QED
    BY <2>1, <2>2
<1>15. CASE CAClose
  BY <1>15, RegisteredKept, HangUpEffect DEF CAClose, process, data, cert
<1>16. CASE CAReply
  BY <1>16, RegisteredKept DEF CAReply, process, data, devices
<1>17. CASE CAUnlock
  BY <1>17, RegisteredKept DEF CAUnlock, process, data, cert, devices
<1>18. CASE CAExit
  BY <1>18, DieEffect DEF CAExit, RegisteredFirst
<1>19. CASE ConnAccept
  BY <1>19, RegisteredKept DEF ConnAccept, process, data, cert, devices
<1>20. CASE ConnLock
  <2>1. connected \in Seq(Device) /\ conn.cur.d \in Device
    BY <1>20 DEF ConnLock, ServerTypes, Serving, Busy, Connection
  <2>2. \A d : Among(d, connected) => Among(d, connected')
    BY <1>20, <2>1, AmongAppend DEF ConnLock
  <2> QED
    BY <1>20, <2>2 DEF ConnLock, RegisteredFirst, process, data, cert, devices
<1>21. CASE ConnSend
  <2>1. conn.cur.d \in Device /\ Among(conn.cur.d, connected)
    BY <1>21 DEF ConnSend, Serving, Busy, Connection
  <2> QED
    BY <1>21, <2>1 DEF ConnSend, RegisteredFirst, DeviceTypes, process, data, cert
<1>22. CASE ConnLost
  <2>1. CASE Die
    BY <2>1, DieEffect DEF RegisteredFirst
  <2>2. CASE ~Die
    BY <1>22, <2>2, RegisteredKept DEF ConnLost, process, data, cert, devices
  <2> QED
    BY <2>1, <2>2
<1>23. CASE ConnAnswered
  BY <1>23, RegisteredKept DEF ConnAnswered, process, data, cert, devices
<1>24. CASE ConnClose
  BY <1>24, RegisteredKept DEF ConnClose, process, data, devices
<1>25. CASE ConnUnlock
  BY <1>25, RegisteredKept DEF ConnUnlock, process, data, cert, devices
<1>26. CASE \E d \in Device : Boot(d)
  <2>1. PICK d \in Device : Boot(d)
    BY <1>26
  <2> QED
    BY <2>1, RegisteredKept DEF Boot, DevGoto, DeviceTypes, DeviceProcess, server,
       data, cert, process
<1>27. CASE \E d \in Device : DevConnect(d)
  <2>1. PICK d \in Device : DevConnect(d)
    BY <1>27
  <2> QED
    BY <2>1, RegisteredKept DEF DevConnect, DevGoto, DeviceTypes, DeviceProcess,
       process, data, cert
<1>28. CASE \E d \in Device : DevReceive(d)
  <2>1. PICK d \in Device : DevReceive(d)
    BY <1>28
  <2> QED
    BY <2>1, RegisteredKept DEF DevReceive, DevGoto, DeviceTypes, DeviceProcess,
       server, data, cert, process
<1>29. CASE \E d \in Device : DevDecode(d)
  <2>1. PICK d \in Device : DevDecode(d)
    BY <1>29
  <2>2. inbox[d].kind = "full" /\ inbox[d] # None /\ InstallFull(d, "binding")
    BY <2>1 DEF DevDecode, Stages
  <2> QED
    BY <2>1, <2>2, RegisteredInstalled DEF DevDecode, server, data, cert, process
<1>30. CASE \E d \in Device : DevListen(d)
  <2>1. PICK d \in Device : DevListen(d)
    BY <1>30
  <2> QED
    BY <2>1, RegisteredKept DEF DevListen, DevGoto, DeviceTypes, DeviceProcess,
       server, data, cert, process
<1>31. CASE \E d \in Device : DevApply(d)
  <2>1. PICK d \in Device : DevApply(d)
    BY <1>31
  <2>2. inbox[d] # None /\ UNCHANGED <<alive, connected>>
    BY <2>1 DEF DevApply, server, data, cert, process
  <2>3. CASE InstallFull(d, "listening")
    BY <2>2, <2>3, RegisteredInstalled
  <2>4. CASE ~InstallFull(d, "listening")
    <3>1. PICK v :
            dev' = [dev EXCEPT ![d].pc = "listening", ![d].view = v, ![d].locked = FALSE]
      BY <2>1, <2>4 DEF DevApply
    <3>2. /\ inbox' = [inbox EXCEPT ![d] = None]
          /\ excuse' = [excuse EXCEPT ![d] = @ \cup NewExcuses(dev[d].view, inbox[d])]
      BY <2>1, <2>4 DEF DevApply
    <3> QED
      BY <2>2, <3>1, <3>2 DEF RegisteredFirst, DeviceTypes, DeviceProcess
  <2> QED
    BY <2>3, <2>4
<1>32. CASE \E d \in Device : Crash(d)
  <2>1. PICK d \in Device : Crash(d)
    BY <1>32
  <2> QED
    BY <2>1, RegisteredStopped DEF Crash, server, data, cert, process
<1>33. CASE \E d \in Device : Query(d)
  <2>1. PICK d \in Device : Query(d)
    BY <1>33
  <2> QED
    BY <2>1, RegisteredStopped, RegisteredKept DEF Query, server, data, cert, process
<1>34. CASE Kill
  BY <1>34, DieEffect DEF Kill, RegisteredFirst
<1>35. CASE Restart
  <2>1. UNCHANGED <<dev, inbox>>
    BY <1>35, RestartEffect
  <2>2. \A d \in Device : dev[d].view # NoView \/ inbox[d] # None =>
                           "server restarted" \in excuse'[d]
    BY <1>35 DEF Restart, DeviceTypes
  <2> QED
    BY <2>1, <2>2 DEF RegisteredFirst
<1> QED
  BY <1>1, <1>2, <1>3, <1>4, <1>5, <1>6, <1>7, <1>8, <1>9, <1>10, <1>11, <1>12,
     <1>13, <1>14, <1>15, <1>16, <1>17, <1>18, <1>19, <1>20, <1>21, <1>22, <1>23,
     <1>24, <1>25, <1>26, <1>27, <1>28, <1>29, <1>30, <1>31, <1>32, <1>33, <1>34,
     <1>35 DEF Next, CAStep, ConnStep, DevStep

LEMMA LoopKept ==
  ca' = ca => (InLoop' <=> InLoop) /\ ca'.msg = ca.msg
BY DEF InLoop

LEMMA AheadKept ==
  ASSUME NotAhead, UNCHANGED <<control, snapshot, dev, inbox>>,
         InLoop' => InLoop /\ ca'.msg = ca.msg
  PROVE  NotAhead'
BY DEF NotAhead

LEMMA AheadHungUp ==
  ASSUME DeviceTypes, NotAhead, UNCHANGED <<control, snapshot, inbox>>,
         InLoop' => InLoop /\ ca'.msg = ca.msg, NEW D, dev' = HangUp(D)
  PROVE  NotAhead'
BY HangUpEffect DEF NotAhead

LEMMA AheadInstalled ==
  ASSUME DeviceTypes, NotAhead, UNCHANGED <<ca, control, snapshot>>,
         NEW d \in Device, inbox[d] # None, NEW p \in {"binding", "listening"},
         InstallFull(d, p)
  PROVE  NotAhead'
BY DEF NotAhead, InstallFull, InLoop, DeviceTypes, DeviceProcess

LEMMA AheadStopped ==
  ASSUME DeviceTypes, NotAhead, UNCHANGED <<ca, control, snapshot>>,
         NEW d \in Device, Stopped(d)
  PROVE  NotAhead'
<1>1. NoView \notin Versions
  BY VersionTypes
<1> QED
  BY <1>1 DEF NotAhead, Stopped, InLoop, DeviceTypes, DeviceProcess

LEMMA NotAheadStep ==
  ASSUME ServerTypes, ServerTypes', DeviceTypes, Locks, Counted, Round, Serving,
         Stages, NotAhead, Next
  PROVE  NotAhead'
<1>1. CASE \E c \in Commands : SendCommand(c)
  BY <1>1, LoopKept, AheadKept DEF SendCommand, server, data, devices, process
<1>2. CASE CAAccept
  <2>1. ~InLoop'
    BY <1>2 DEF CAAccept, Goto, InLoop, ServerTypes, CommandThread
  <2> QED
    BY <1>2, <2>1, AheadKept DEF CAAccept, process, data, cert, devices
<1>3. CASE CALock
  <2>1. ~InLoop'
    BY <1>3 DEF CALock, Goto, InLoop, ServerTypes, CommandThread
  <2> QED
    BY <1>3, <2>1, AheadKept DEF CALock, process, data, cert, devices
<1>4. CASE CARecvFails
  <2>1. ~InLoop'
    BY <1>4 DEF CARecvFails, Goto, InLoop, ServerTypes, CommandThread
  <2> QED
    BY <1>4, <2>1, AheadKept DEF CARecvFails, process, data, cert, devices
<1>5. CASE CARecvBad
  <2>1. ~InLoop'
    BY <1>5 DEF CARecvBad, Goto, InLoop, ServerTypes, CommandThread
  <2> QED
    BY <1>5, <2>1, AheadKept DEF CARecvBad, process, data, devices
<1>6. CASE CARecvHuge
  BY <1>6, LoopKept, AheadHungUp, DieEffect DEF CARecvHuge
<1>7. CASE CARecvShow
  <2>1. ~InLoop'
    BY <1>7 DEF CARecvShow, Goto, InLoop, ServerTypes, CommandThread
  <2> QED
    BY <1>7, <2>1, AheadKept DEF CARecvShow, process, data, cert, devices
<1>8. CASE CARecvExit
  <2>1. ~InLoop'
    BY <1>8 DEF CARecvExit, Goto, InLoop, ServerTypes, CommandThread
  <2> QED
    BY <1>8, <2>1, AheadKept DEF CARecvExit, data, cert, devices
<1>9. CASE \E c \in Updates, r \in BOOLEAN : CAUpdate(c, r)
  <2>1. PICK c \in Updates, r \in BOOLEAN : CAUpdate(c, r)
    BY <1>9
  <2>2. /\ control' = Delta(c, r).to /\ control' \in Versions /\ control \in Versions
        /\ Leq(control, control') /\ Delta(c, r).kind = "delta" /\ Delta(c, r).from = control
        /\ snapshot' \in Versions /\ (snapshot' = control' \/ snapshot' = snapshot)
    BY <2>1, UpdateFacts DEF ServerTypes
  <2>3. UNCHANGED <<dev, inbox>>
    BY <2>1 DEF CAUpdate, process, cert, devices
  <2>4. Leq(snapshot', control')
    BY <2>2, LeqOrder DEF NotAhead, ServerTypes
  <2>5. ca'.msg.kind = "delta" /\ InLoop' => Leq(ca'.msg.from, ca'.msg.to)
    <3>1. CASE connected = << >>
      BY <2>1, <3>1 DEF CAUpdate, InLoop, ServerTypes, CommandThread
    <3>2. CASE connected # << >>
      <4>1. ca'.msg = IF r /\ c \in {"add", "unr"} THEN Full(snapshot') ELSE Delta(c, r)
        BY <2>1, <3>2 DEF CAUpdate, ServerTypes, CommandThread
      <4> QED
        BY <2>2, <4>1, FullType
    <3> QED
      BY <3>1, <3>2
  <2>6. \A d \in Device : dev[d].view \in Versions => Leq(dev[d].view, control')
    BY <2>2, LeqOrder DEF NotAhead
  <2>7. \A d \in Device : inbox[d] # None => Leq(inbox[d].to, control')
    BY <2>2, LeqOrder, MessageTypes DEF NotAhead, DeviceTypes
  <2> QED
    BY <2>3, <2>4, <2>5, <2>6, <2>7 DEF NotAhead
<1>10. CASE CAConnect
  <2>1. Head(ca.todo) \in Device /\ InLoop
    BY <1>10, HeadOfRound DEF CAConnect, InLoop
  <2>2. /\ InLoop' => InLoop /\ ca'.msg = ca.msg
        /\ inbox[Head(ca.todo)] = None
    BY <1>10, <2>1 DEF CAConnect, InLoop, Stages, ServerTypes, CommandThread
  <2> QED
    BY <1>10, <2>1, <2>2 DEF CAConnect, NotAhead, process, data, cert, DeviceTypes,
       DeviceProcess
<1>11. CASE CASend
  <2>1. Head(ca.todo) \in Device /\ InLoop /\ ca.msg.to = control
    BY <1>11, HeadOfRound DEF CASend, InLoop, Round
  <2>2. InLoop' /\ ca'.msg = ca.msg
    BY <1>11 DEF CASend, Goto, InLoop, ServerTypes, CommandThread
  <2>3. inbox' = [inbox EXCEPT ![Head(ca.todo)] = ca.msg]
        /\ UNCHANGED <<dev, control, snapshot>>
    BY <1>11 DEF CASend, process, data, cert
  <2>4. Leq(control, control)
    BY LeqOrder DEF ServerTypes
  <2> QED
    BY <2>1, <2>2, <2>3, <2>4 DEF NotAhead, DeviceTypes
<1>12. CASE CARefused
  <2>1. CASE Die
    BY <2>1, LoopKept, AheadHungUp, DieEffect
  <2>2. CASE ~Die
    <3>1. InLoop' => InLoop /\ ca'.msg = ca.msg
      BY <1>12, <2>2, HeadOfRound, NextDeviceType DEF CARefused, Goto, InLoop,
         ServerTypes, CommandThread
    <3> QED
      BY <1>12, <2>2, <3>1, AheadKept DEF CARefused, process, data, cert
  <2> QED
    BY <2>1, <2>2
<1>13. CASE CAAnswered
  <2>1. InLoop' => InLoop /\ ca'.msg = ca.msg
    BY <1>13, HeadOfRound, NextDeviceType DEF CAAnswered, Goto, InLoop, ServerTypes,
       CommandThread
  <2> QED
    BY <1>13, <2>1, AheadKept DEF CAAnswered, process, data, cert, devices
<1>14. CASE CALost
  <2>1. CASE Die
    BY <2>1, LoopKept, AheadHungUp, DieEffect
  <2>2. CASE ~Die
    <3>1. InLoop' => InLoop /\ ca'.msg = ca.msg
      BY <1>14, <2>2, HeadOfRound, NextDeviceType DEF CALost, Goto, InLoop,
         ServerTypes, CommandThread
    <3> QED
      BY <1>14, <2>2, <3>1, AheadKept DEF CALost, process, data, cert, devices
  <2> QED
    BY <2>1, <2>2
<1>15. CASE CAClose
  <2>1. InLoop' => InLoop /\ ca'.msg = ca.msg
    BY <1>15, HeadOfRound, NextDeviceType DEF CAClose, InLoop
  <2> QED
    BY <1>15, <2>1, AheadKept, AheadHungUp DEF CAClose, process, data, cert
<1>16. CASE CAReply
  <2>1. ~InLoop'
    BY <1>16 DEF CAReply, Goto, InLoop, ServerTypes, CommandThread
  <2> QED
    BY <1>16, <2>1, AheadKept DEF CAReply, process, data, devices
<1>17. CASE CAUnlock
  <2>1. ~InLoop'
    BY <1>17 DEF CAUnlock, Goto, InLoop, ServerTypes, CommandThread
  <2> QED
    BY <1>17, <2>1, AheadKept DEF CAUnlock, process, data, cert, devices
<1>18. CASE CAExit
  BY <1>18, LoopKept, AheadHungUp, DieEffect DEF CAExit
<1>19. CASE ConnAccept
  BY <1>19, LoopKept, AheadKept DEF ConnAccept, process, data, cert, devices
<1>20. CASE ConnLock
  BY <1>20, LoopKept, AheadKept DEF ConnLock, process, data, cert, devices
<1>21. CASE ConnSend
  <2>1. conn.cur.d \in Device
    BY <1>21 DEF ConnSend, Serving, Busy, Connection
  <2>2. Full(snapshot).kind = "full" /\ Full(snapshot).to = snapshot
    BY FullType DEF ServerTypes
  <2>3. /\ inbox' = [inbox EXCEPT ![conn.cur.d] = Full(snapshot)]
        /\ dev[conn.cur.d].pc = "reading"
        /\ UNCHANGED <<dev, control, snapshot, ca>>
    BY <1>21 DEF ConnSend, Reading, process, data, cert
  <2> QED
    BY <2>1, <2>2, <2>3 DEF NotAhead, DeviceTypes, InLoop
<1>22. CASE ConnLost
  BY <1>22, AheadKept, LoopKept, AheadHungUp, DieEffect DEF ConnLost, process, data,
     cert, devices
<1>23. CASE ConnAnswered
  BY <1>23, LoopKept, AheadKept DEF ConnAnswered, process, data, cert, devices
<1>24. CASE ConnClose
  <2>1. InLoop' => InLoop /\ ca'.msg = ca.msg
    BY <1>24 DEF ConnClose, InLoop, ServerTypes, CommandThread
  <2> QED
    BY <1>24, <2>1, AheadKept DEF ConnClose, process, data, devices
<1>25. CASE ConnUnlock
  BY <1>25, LoopKept, AheadKept DEF ConnUnlock, process, data, cert, devices
<1>26. CASE \E d \in Device : Boot(d)
  <2>1. PICK d \in Device : Boot(d)
    BY <1>26
  <2> QED
    BY <2>1 DEF Boot, DevGoto, NotAhead, InLoop, DeviceTypes, DeviceProcess, server,
       data, cert, process
<1>27. CASE \E d \in Device : DevConnect(d)
  <2>1. PICK d \in Device : DevConnect(d)
    BY <1>27
  <2> QED
    BY <2>1 DEF DevConnect, DevGoto, NotAhead, InLoop, DeviceTypes, DeviceProcess,
       process, data, cert
<1>28. CASE \E d \in Device : DevReceive(d)
  <2>1. PICK d \in Device : DevReceive(d)
    BY <1>28
  <2> QED
    BY <2>1 DEF DevReceive, DevGoto, NotAhead, InLoop, DeviceTypes, DeviceProcess,
       server, data, cert, process
<1>29. CASE \E d \in Device : DevDecode(d)
  <2>1. PICK d \in Device : DevDecode(d)
    BY <1>29
  <2>2. inbox[d].kind = "full" /\ inbox[d] # None /\ InstallFull(d, "binding")
    BY <2>1 DEF DevDecode, Stages
  <2> QED
    BY <2>1, <2>2, AheadInstalled DEF DevDecode, server, data, cert, process
<1>30. CASE \E d \in Device : DevListen(d)
  <2>1. PICK d \in Device : DevListen(d)
    BY <1>30
  <2> QED
    BY <2>1 DEF DevListen, DevGoto, NotAhead, InLoop, DeviceTypes, DeviceProcess,
       server, data, cert, process
<1>31. CASE \E d \in Device : DevApply(d)
  <2>1. PICK d \in Device : DevApply(d)
    BY <1>31
  <2>2. inbox[d] \in Messages /\ inbox[d] # None /\ UNCHANGED <<ca, control, snapshot>>
    BY <2>1 DEF DevApply, server, data, cert, process, DeviceTypes
  <2>3. CASE InstallFull(d, "listening")
    BY <2>2, <2>3, AheadInstalled
  <2>4. CASE ~InstallFull(d, "listening")
    <3>1. PICK v \in Outcomes(dev[d].view, inbox[d]) :
            dev' = [dev EXCEPT ![d].pc = "listening", ![d].view = v, ![d].locked = FALSE]
      BY <2>1, <2>4 DEF DevApply
    <3>2. inbox[d].kind = "delta" /\ inbox' = [inbox EXCEPT ![d] = None]
      BY <2>1, <2>4 DEF DevApply
    <3>3. v \in {Diverged, inbox[d].to}
      BY <2>2, <3>2, MessageTypes DEF Outcomes
    <3>4. v \in Versions => Leq(v, control)
      BY <2>2, <3>3, VersionTypes DEF NotAhead
    <3> QED
      BY <2>2, <3>1, <3>2, <3>4 DEF NotAhead, InLoop, DeviceTypes, DeviceProcess
  <2> QED
    BY <2>3, <2>4
<1>32. CASE \E d \in Device : Crash(d)
  <2>1. PICK d \in Device : Crash(d)
    BY <1>32
  <2> QED
    BY <2>1, AheadStopped DEF Crash, server, data, cert, process
<1>33. CASE \E d \in Device : Query(d)
  <2>1. PICK d \in Device : Query(d)
    BY <1>33
  <2> QED
    BY <2>1, AheadStopped, AheadKept DEF Query, server, data, cert, process, InLoop
<1>34. CASE Kill
  BY <1>34, LoopKept, AheadHungUp, DieEffect DEF Kill
<1>35. CASE Restart
  <2>1. ~InLoop' /\ UNCHANGED <<dev, inbox>>
    BY <1>35, RestartEffect DEF InLoop
  <2>2. control' \in Versions /\ snapshot' = control' /\ control \in Versions
    BY <1>35, RestartEffect DEF ServerTypes
  <2>3. Leq(control, control')
    BY <1>35, RestartEffect, VersionTypes DEF Leq, Version, ServerTypes
  <2>4. Leq(snapshot', control')
    BY <2>2, LeqOrder
  <2>5. \A d \in Device : dev[d].view \in Versions => Leq(dev[d].view, control')
    BY <2>2, <2>3, LeqOrder DEF NotAhead
  <2>6. \A d \in Device : inbox[d] # None => Leq(inbox[d].to, control')
    BY <2>2, <2>3, LeqOrder, MessageTypes DEF NotAhead, DeviceTypes
  <2> QED
    BY <2>1, <2>4, <2>5, <2>6 DEF NotAhead
<1> QED
  BY <1>1, <1>2, <1>3, <1>4, <1>5, <1>6, <1>7, <1>8, <1>9, <1>10, <1>11, <1>12,
     <1>13, <1>14, <1>15, <1>16, <1>17, <1>18, <1>19, <1>20, <1>21, <1>22, <1>23,
     <1>24, <1>25, <1>26, <1>27, <1>28, <1>29, <1>30, <1>31, <1>32, <1>33, <1>34,
     <1>35 DEF Next, CAStep, ConnStep, DevStep

-----------------------------------------------------------------------------
(***************************************************************************)
(* Why a device that differs is excused.                                   *)
(***************************************************************************)
SameRound == /\ ca'.pc = ca.pc /\ ca'.todo = ca.todo
             /\ ca'.msg = ca.msg /\ ca'.boot = ca.boot

LEMMA ExplainedKept ==
  ASSUME Explained, SameRound, UNCHANGED <<alive, control, dev, excuse>>,
         \A d \in Device : inbox'[d] = inbox[d] \/ dev[d].pc = "reading"
  PROVE  Explained'
BY ZenonT(40)
   DEF Explained, ExplainedFor, SameRound, Waiting, InLoop, Good, Excused, Served

LEMMA ExplainedOutside ==
  ASSUME Explained, ~InLoop, ~InLoop', UNCHANGED <<alive, control, dev, inbox, excuse>>
  PROVE  Explained'
BY DEF Explained, ExplainedFor, Waiting, InLoop, Good, Excused

\* A device's step is nothing to the other devices.
LEMMA ExplainedOthers ==
  ASSUME Explained, UNCHANGED <<alive, ca, control>>, NEW d \in Device,
         alive => ExplainedFor(d)',
         \A e \in Device \ {d} : /\ dev'[e] = dev[e] /\ inbox'[e] = inbox[e]
                                 /\ excuse'[e] = excuse[e]
  PROVE  Explained'
<1>1. ASSUME NEW e \in Device \ {d}, alive PROVE ExplainedFor(e)'
  <2>1. ExplainedFor(e)
    BY <1>1 DEF Explained
  <2> QED
    BY <2>1 DEF ExplainedFor, Waiting, InLoop, Good, Excused, Served
<1> QED
  BY <1>1 DEF Explained

\* Nothing is asked of a device that has no summary yet, or no longer.
LEMMA ExplainedAway ==
  ASSUME NEW d \in Device, dev'[d].pc \notin {"binding", "listening", "applying"}
  PROVE  ExplainedFor(d)'
BY DEF ExplainedFor, Good

LEMMA ExplainedFresh ==
  ASSUME Round, UNCHANGED <<ca, control>>, NEW d \in Device,
         dev'[d].pc \in {"binding", "listening"}, dev'[d].view = control \/ Excused(d)'
  PROVE  ExplainedFor(d)'
BY DEF ExplainedFor, Good, Round, Waiting, InLoop, Excused

LEMMA ExplainedInstalled ==
  ASSUME DeviceTypes, Round, Explained, UNCHANGED <<alive, ca, control>>,
         NEW d \in Device, NEW p \in {"binding", "listening"}, InstallFull(d, p)
  PROVE  Explained'
<1>1. /\ dev'[d].pc = p /\ dev'[d].view = inbox[d].to
      /\ inbox[d].to # control => "old snapshot" \in excuse'[d]
      /\ \A e \in Device \ {d} : /\ dev'[e] = dev[e] /\ inbox'[e] = inbox[e]
                                 /\ excuse'[e] = excuse[e]
  BY DEF InstallFull, DeviceTypes, DeviceProcess
<1>2. ExplainedFor(d)'
  BY <1>1, ExplainedFresh DEF Excused
<1> QED
  BY <1>1, <1>2, ExplainedOthers

LEMMA ExplainedStopped ==
  ASSUME DeviceTypes, Explained, UNCHANGED <<alive, ca, control>>,
         NEW d \in Device, Stopped(d)
  PROVE  Explained'
<1>1. /\ dev'[d].pc = "down"
      /\ \A e \in Device \ {d} : /\ dev'[e] = dev[e] /\ inbox'[e] = inbox[e]
                                 /\ excuse'[e] = excuse[e]
  BY DEF Stopped, DeviceTypes, DeviceProcess
<1> QED
  BY <1>1, ExplainedOthers, ExplainedAway

\* The loop goes on to the next device when this one is as it should be.
LEMMA ExplainedAdvanced ==
  ASSUME ServerTypes, Round, Explained, alive, InLoop, ca' = NextDevice,
         UNCHANGED <<alive, control, inbox, excuse>>,
         \A d \in Device : dev'[d].view = dev[d].view /\ dev'[d].pc \in {dev[d].pc, "spinning"},
         Good(Head(ca.todo)),
         \A d \in Device : dev[d].pc = "applying" => "server restarted" \in excuse[d]
  PROVE  Explained'
<1>1. ca.todo \in Seq(Device) /\ ca.todo # << >>
  BY DEF Round, ServerTypes, CommandThread
<1>2. /\ ca'.todo = Tail(ca.todo) /\ ca'.msg = ca.msg /\ ca'.pc \in {"reply", "connect"}
      /\ ca'.pc = "connect" <=> ca'.todo # << >>
  BY <1>1, NextDeviceType
<1>3. \A d : Among(d, ca.todo) <=> d = Head(ca.todo) \/ Among(d, Tail(ca.todo))
  BY <1>1, AmongTail
<1>4. ASSUME NEW d \in Device PROVE ExplainedFor(d)'
  <2>1. ExplainedFor(d)
    BY DEF Explained
  <2>2. Waiting(d)' => Waiting(d)
    BY <1>2, <1>3 DEF Waiting
  <2>3. ~Waiting(d)' => Good(d)
    BY <1>2, <1>3, <2>1, AmongNone DEF Waiting, InLoop, ExplainedFor
  <2>4. Good(d) => Good(d)'
    BY DEF Good, Excused
  <2> QED
    BY <1>2, <2>1, <2>2, <2>3, <2>4 DEF ExplainedFor, Excused
<1> QED
  BY <1>4 DEF Explained

LEMMA ExplainedStep ==
  ASSUME ServerTypes, DeviceTypes, Locks, Counted, Round, Serving, Stages,
         RegisteredFirst, Explained, Next
  PROVE  Explained'
<1>1. CASE \E c \in Commands : SendCommand(c)
  BY <1>1, ExplainedKept DEF SendCommand, SameRound, server, data, devices, process
<1>2. CASE CAAccept
  <2>1. ~InLoop /\ ~InLoop'
    BY <1>2 DEF CAAccept, Receives, Goto, InLoop, ServerTypes, CommandThread
  <2> QED
    BY <1>2, <2>1, ExplainedOutside DEF CAAccept, process, data, cert, devices
<1>3. CASE CALock
  <2>1. ~InLoop /\ ~InLoop'
    BY <1>3 DEF CALock, Receives, Goto, InLoop, ServerTypes, CommandThread
  <2> QED
    BY <1>3, <2>1, ExplainedOutside DEF CALock, process, data, cert, devices
<1>4. CASE CARecvFails
  <2>1. ~InLoop /\ ~InLoop'
    BY <1>4 DEF CARecvFails, Receives, Goto, InLoop, ServerTypes, CommandThread
  <2> QED
    BY <1>4, <2>1, ExplainedOutside DEF CARecvFails, process, data, cert, devices
<1>5. CASE CARecvBad
  <2>1. ~InLoop /\ ~InLoop'
    BY <1>5 DEF CARecvBad, Receives, Goto, InLoop, ServerTypes, CommandThread
  <2> QED
    BY <1>5, <2>1, ExplainedOutside DEF CARecvBad, process, data, devices
<1>6. CASE CARecvHuge
  BY <1>6, DieEffect DEF CARecvHuge, Explained
<1>7. CASE CARecvShow
  <2>1. ~InLoop /\ ~InLoop'
    BY <1>7 DEF CARecvShow, Receives, Goto, InLoop, ServerTypes, CommandThread
  <2> QED
    BY <1>7, <2>1, ExplainedOutside DEF CARecvShow, process, data, cert, devices
<1>8. CASE CARecvExit
  <2>1. ~InLoop /\ ~InLoop'
    BY <1>8 DEF CARecvExit, Receives, Goto, InLoop, ServerTypes, CommandThread
  <2> QED
    BY <1>8, <2>1, ExplainedOutside DEF CARecvExit, data, cert, devices
<1>9. CASE \E c \in Updates, r \in BOOLEAN : CAUpdate(c, r)
  <2>1. PICK c \in Updates, r \in BOOLEAN : CAUpdate(c, r)
    BY <1>9
  <2>2. Delta(c, r).kind = "delta" /\ Delta(c, r).from = control
    BY <2>1, UpdateFacts
  <2>3. UNCHANGED <<dev, inbox, excuse>> /\ alive /\ ~InLoop /\ ca.pc = "recv"
    BY <2>1 DEF CAUpdate, Receives, InLoop, process, cert, devices
  <2>4. \/ connected = << >> /\ ca'.pc = "reply"
        \/ /\ ca'.pc = "connect" /\ ca'.todo = connected
           /\ ca'.msg \in {Full(snapshot'), Delta(c, r)}
    BY <2>1 DEF CAUpdate, ServerTypes, CommandThread
  <2>5. Full(snapshot').kind # "delta"
    BY DEF Full
  <2>6. ASSUME NEW d \in Device PROVE ExplainedFor(d)'
    <3>1. /\ Good(d)
          /\ dev[d].pc = "applying" => "server restarted" \in excuse[d]
      BY <2>3 DEF Explained, ExplainedFor, Waiting
    <3>2. dev[d].pc \in {"binding", "listening"} /\ ~Among(d, connected) => Excused(d)
      BY <2>3 DEF RegisteredFirst, Stages, Excused
    <3>3. ~Waiting(d)' => Good(d)'
      BY <2>3, <2>4, <3>2, AmongNone DEF Waiting, Good, Excused, InLoop
    <3>4. Waiting(d)' /\ ca'.msg.kind = "delta" =>
            \/ dev'[d].pc \notin {"binding", "listening", "applying"}
            \/ dev'[d].view \in {ca'.msg.from, ca'.msg.to}
            \/ Excused(d)'
      BY <2>2, <2>3, <2>4, <2>5, <3>1 DEF Waiting, Good, Excused, InLoop
    <3> QED
      BY <2>3, <2>4, <3>1, <3>3, <3>4 DEF ExplainedFor
  <2> QED
    BY <2>6 DEF Explained
<1>10. CASE CAConnect
  <2> DEFINE h == Head(ca.todo)
  <2>1. h \in Device /\ Waiting(h) /\ ca.todo \in Seq(Device)
    BY <1>10, HeadOfRound, AmongTail DEF CAConnect, InLoop, Waiting, ServerTypes,
       CommandThread
  <2>2. /\ dev[h].pc = "listening" /\ UNCHANGED <<control, inbox, excuse>> /\ alive
        /\ ca.pc = "connect"
    BY <1>10 DEF CAConnect, process, data, cert
  <2>3. /\ ca'.pc = "sending" /\ ca'.boot = dev[h].boot /\ ca'.todo = ca.todo
        /\ ca'.msg = ca.msg
    BY <1>10 DEF CAConnect, ServerTypes, CommandThread
  <2>4. /\ dev'[h].pc = "applying" /\ dev'[h].view = dev[h].view /\ dev'[h].boot = dev[h].boot
        /\ \A d \in Device \ {h} : dev'[d] = dev[d]
    BY <1>10, <2>1 DEF CAConnect, DeviceTypes, DeviceProcess
  <2>5. inbox[h] = None
    BY <2>1, <2>2 DEF Stages
  <2>6. \A d \in Device : (Waiting(d)' <=> Waiting(d)) /\ (Excused(d)' <=> Excused(d))
    BY <2>2, <2>3 DEF Waiting, InLoop, Excused
  <2>7. \A d \in Device : ExplainedFor(d)
    BY <2>2 DEF Explained
  <2>8. ASSUME NEW d \in Device PROVE ExplainedFor(d)'
    <3>1. CASE d = h
      BY <2>1, <2>2, <2>3, <2>4, <2>5, <2>6, <2>7, <3>1 DEF ExplainedFor, Served, Good
    <3>2. CASE d # h
      BY <2>2, <2>3, <2>4, <2>6, <2>7, <3>2 DEF ExplainedFor, Served, Good
    <3> QED
      BY <3>1, <3>2
  <2> QED
    BY <2>8 DEF Explained
<1>11. CASE CASend
  <2> DEFINE h == Head(ca.todo)
  <2>1. h \in Device /\ Waiting(h)
    BY <1>11, HeadOfRound, AmongTail DEF CASend, InLoop, Waiting, ServerTypes,
       CommandThread
  <2>2. /\ dev[h].pc = "applying" /\ dev[h].boot = ca.boot /\ alive /\ ca.pc = "sending"
        /\ UNCHANGED <<control, dev, excuse>>
    BY <1>11 DEF CASend, process, data, cert
  <2>3. ca'.pc = "await" /\ ca'.boot = ca.boot /\ ca'.todo = ca.todo /\ ca'.msg = ca.msg
    BY <1>11 DEF CASend, Goto, ServerTypes, CommandThread
  <2>4. inbox'[h] = ca.msg
    BY <1>11, <2>1 DEF CASend, DeviceTypes
  <2>5. \A d \in Device : (Waiting(d)' <=> Waiting(d)) /\ (Excused(d)' <=> Excused(d))
                            /\ (Good(d)' <=> Good(d))
    BY <2>2, <2>3 DEF Waiting, InLoop, Excused, Good
  <2>6. \A d \in Device : ExplainedFor(d)
    BY <2>2 DEF Explained
  <2>7. ASSUME NEW d \in Device PROVE ExplainedFor(d)'
    <3>1. CASE d = h
      BY <2>1, <2>2, <2>3, <2>4, <2>5, <2>6, <3>1 DEF ExplainedFor, Served, Good
    <3>2. CASE d # h
      BY <2>2, <2>3, <2>5, <2>6, <3>2 DEF ExplainedFor, Served
    <3> QED
      BY <3>1, <3>2
  <2> QED
    BY <2>7 DEF Explained
<1>12. CASE CARefused
  <2>1. CASE Die
    BY <2>1, DieEffect DEF Explained
  <2>2. CASE ~Die
    <3>1. /\ ca.pc = "connect" /\ alive /\ UNCHANGED <<control, dev, inbox>> /\ MissedFull
      BY <1>12, <2>2 DEF CARefused, process, data, cert
    <3>2. ca'.pc = "reply"
      BY <1>12, <2>2 DEF CARefused, ServerTypes, CommandThread
    <3>3. ASSUME NEW d \in Device PROVE ExplainedFor(d)'
      <4>1. ExplainedFor(d)
        BY <3>1 DEF Explained
      <4>2. Among(d, ca.todo) => Excused(d)'
        BY <3>1 DEF MissedFull, Excused
      <4>3. excuse[d] \subseteq excuse'[d]
        BY <3>1 DEF MissedFull
      <4>4. Good(d)'
        BY <3>1, <4>1, <4>2, <4>3 DEF ExplainedFor, Good, Excused, Waiting
      <4> QED
        BY <3>1, <3>2, <4>1, <4>3, <4>4 DEF ExplainedFor, Waiting, InLoop
    <3> QED
      BY <3>3 DEF Explained
  <2> QED
    BY <2>1, <2>2
<1>13. CASE CAAnswered
  <2> DEFINE h == Head(ca.todo)
  <2>1. h \in Device /\ InLoop
    BY <1>13, HeadOfRound DEF CAAnswered, InLoop
  <2>2. /\ dev[h].pc = "listening" /\ dev[h].boot = ca.boot /\ alive /\ ca.pc = "await"
        /\ UNCHANGED <<alive, control, dev, inbox, excuse>>
    BY <1>13 DEF CAAnswered, process, data, cert, devices
  <2>3. Good(h) /\ \A d \in Device : ExplainedFor(d)
    BY <2>1, <2>2 DEF Explained, ExplainedFor, Served
  <2>4. \A d \in Device : dev[d].pc = "applying" => "server restarted" \in excuse[d]
    BY <2>2, <2>3 DEF ExplainedFor, Served
  <2>5. CASE ca' = NextDevice
    BY <2>1, <2>2, <2>3, <2>4, <2>5, ExplainedAdvanced
  <2>6. CASE ca' # NextDevice
    <3>1. ca'.pc = "closing" /\ ca'.todo = ca.todo /\ ca'.msg = ca.msg
      BY <1>13, <2>6 DEF CAAnswered, Goto, ServerTypes, CommandThread
    <3>2. \A d \in Device : (Waiting(d)' <=> Waiting(d)) /\ (Excused(d)' <=> Excused(d))
                              /\ (Good(d)' <=> Good(d))
      BY <2>2, <3>1 DEF Waiting, InLoop, Excused, Good
    <3>3. ASSUME NEW d \in Device PROVE ExplainedFor(d)'
      BY <2>2, <2>3, <2>4, <3>1, <3>2 DEF ExplainedFor
    <3> QED
      BY <3>3 DEF Explained
  <2> QED
    BY <2>5, <2>6
<1>14. CASE CALost
  <2> DEFINE h == Head(ca.todo)
  <2>1. CASE Die
    BY <2>1, DieEffect DEF Explained
  <2>2. CASE ~Die
    <3>1. h \in Device /\ InLoop /\ ca.todo \in Seq(Device)
      BY <1>14, HeadOfRound DEF CALost, InLoop, ServerTypes, CommandThread
    <3>2. /\ dev[h].boot # ca.boot \/ dev[h].pc = "down"
          /\ alive /\ ca.pc \in {"sending", "await"}
          /\ UNCHANGED <<alive, control, dev, inbox>>
      BY <1>14, <2>2 DEF CALost, process, data, cert, devices
    <3>3. Good(h) /\ \A d \in Device : ExplainedFor(d)
      BY <3>1, <3>2 DEF Explained, ExplainedFor, Good
    <3>4. \A d \in Device : dev[d].pc = "applying" => "server restarted" \in excuse[d]
      BY <3>2, <3>3 DEF ExplainedFor, Served
    <3>5. CASE ca' = NextDevice /\ UNCHANGED excuse
      BY <3>1, <3>2, <3>3, <3>4, <3>5, ExplainedAdvanced
    <3>6. CASE ca' = [ca EXCEPT !.pc = "closing"] /\ UNCHANGED excuse
      <4>1. ca'.pc = "closing" /\ ca'.todo = ca.todo /\ ca'.msg = ca.msg
        BY <3>6 DEF ServerTypes, CommandThread
      <4>2. \A d \in Device : (Waiting(d)' <=> Waiting(d)) /\ (Excused(d)' <=> Excused(d))
                                /\ (Good(d)' <=> Good(d))
        BY <3>2, <3>6, <4>1, InLoop DEF Waiting, InLoop, Excused, Good
      <4>3. ASSUME NEW d \in Device PROVE ExplainedFor(d)'
        BY <3>2, <3>3, <3>4, <3>6, <4>1, <4>2 DEF ExplainedFor
      <4> QED
        BY <4>3 DEF Explained
    <3>7. CASE ca' = [ca EXCEPT !.pc = "closing", !.todo = <<h>>] /\ MissedFull
      <4>1. ca'.pc = "closing" /\ ca'.todo = <<h>> /\ Head(ca'.todo) = h /\ ca'.msg = ca.msg
        BY <3>7 DEF ServerTypes, CommandThread
      <4>2. \A d \in Device : Waiting(d)' <=> d = h
        BY <4>1, AmongOne DEF Waiting, InLoop
      <4>3. Waiting(h)
        BY <3>1, AmongTail DEF Waiting, Round
      <4>4. ASSUME NEW d \in Device PROVE ExplainedFor(d)'
        <5>1. Waiting(d) => Excused(d)'
          BY <3>7 DEF MissedFull, Excused, Waiting
        <5>2. excuse[d] \subseteq excuse'[d]
          BY <3>7 DEF MissedFull
        <5>3. Good(d)'
          BY <3>2, <3>3, <5>1, <5>2 DEF ExplainedFor, Good, Excused
        <5>4. Waiting(d)' => Excused(d)'
          BY <4>2, <4>3, <5>1
        <5> QED
          BY <3>2, <3>4, <4>1, <5>2, <5>3, <5>4 DEF ExplainedFor
      <4> QED
        BY <4>4 DEF Explained
    <3> QED
      BY <1>14, <2>2, <3>5, <3>6, <3>7 DEF CALost, Goto, process, data, cert, devices
  <2> QED
    BY <2>1, <2>2
<1>15. CASE CAClose
  <2>1. InLoop /\ alive /\ ca.pc = "closing" /\ ca' = NextDevice
        /\ UNCHANGED <<alive, control, inbox, excuse>>
    BY <1>15 DEF CAClose, InLoop, process, data, cert
  <2>2. Head(ca.todo) \in Device
    BY <2>1, HeadOfRound
  <2>3. \A d \in Device : dev'[d].view = dev[d].view /\ dev'[d].pc \in {dev[d].pc, "spinning"}
    BY <1>15, HangUpEffect DEF CAClose
  <2>4. Good(Head(ca.todo)) /\ \A d \in Device : ExplainedFor(d)
    BY <2>1, <2>2 DEF Explained, ExplainedFor
  <2>5. \A d \in Device : dev[d].pc = "applying" => "server restarted" \in excuse[d]
    BY <2>1, <2>4 DEF ExplainedFor
  <2> QED
    BY <2>1, <2>2, <2>3, <2>4, <2>5, ExplainedAdvanced
<1>16. CASE CAReply
  <2>1. ~InLoop /\ ~InLoop'
    BY <1>16 DEF CAReply, Receives, Goto, InLoop, ServerTypes, CommandThread
  <2> QED
    BY <1>16, <2>1, ExplainedOutside DEF CAReply, process, data, devices
<1>17. CASE CAUnlock
  <2>1. ~InLoop /\ ~InLoop'
    BY <1>17 DEF CAUnlock, Receives, Goto, InLoop, ServerTypes, CommandThread
  <2> QED
    BY <1>17, <2>1, ExplainedOutside DEF CAUnlock, process, data, cert, devices
<1>18. CASE CAExit
  BY <1>18, DieEffect DEF CAExit, Explained
<1>19. CASE ConnAccept
  BY <1>19, ExplainedKept DEF ConnAccept, SameRound, process, data, cert, devices
<1>20. CASE ConnLock
  BY <1>20, ExplainedKept DEF ConnLock, SameRound, process, data, cert, devices
<1>21. CASE ConnSend
  <2>1. dev[conn.cur.d].pc = "reading"
    BY <1>21 DEF ConnSend, Reading
  <2>2. \A d \in Device : inbox'[d] = inbox[d] \/ dev[d].pc = "reading"
    BY <1>21, <2>1 DEF ConnSend, DeviceTypes
  <2> QED
    BY <1>21, <2>2, ExplainedKept DEF ConnSend, SameRound, process, data, cert
<1>22. CASE ConnLost
  BY <1>22, DieEffect, ExplainedKept DEF ConnLost, Explained, SameRound, process,
     data, cert, devices
<1>23. CASE ConnAnswered
  BY <1>23, ExplainedKept DEF ConnAnswered, SameRound, process, data, cert, devices
<1>24. CASE ConnClose
  <2>1. SameRound
    BY <1>24 DEF ConnClose, SameRound, ServerTypes, CommandThread
  <2> QED
    BY <1>24, <2>1, ExplainedKept DEF ConnClose, process, data, devices
<1>25. CASE ConnUnlock
  BY <1>25, ExplainedKept DEF ConnUnlock, SameRound, process, data, cert, devices
<1>26. CASE \E d \in Device : Boot(d)
  <2>1. PICK d \in Device : Boot(d)
    BY <1>26
  <2>2. dev'[d].pc \notin {"binding", "listening", "applying"}
        /\ \A e \in Device \ {d} : dev'[e] = dev[e]
    BY <2>1 DEF Boot, DevGoto, DeviceTypes, DeviceProcess
  <2> QED
    BY <2>1, <2>2, ExplainedOthers, ExplainedAway DEF Boot, server, data, cert,
       process
<1>27. CASE \E d \in Device : DevConnect(d)
  <2>1. PICK d \in Device : DevConnect(d)
    BY <1>27
  <2>2. dev'[d].pc \notin {"binding", "listening", "applying"}
        /\ \A e \in Device \ {d} : dev'[e] = dev[e]
    BY <2>1 DEF DevConnect, DevGoto, DeviceTypes, DeviceProcess
  <2> QED
    BY <2>1, <2>2, ExplainedOthers, ExplainedAway DEF DevConnect, process, data, cert
<1>28. CASE \E d \in Device : DevReceive(d)
  <2>1. PICK d \in Device : DevReceive(d)
    BY <1>28
  <2>2. dev'[d].pc \notin {"binding", "listening", "applying"}
        /\ \A e \in Device \ {d} : dev'[e] = dev[e]
    BY <2>1 DEF DevReceive, DevGoto, DeviceTypes, DeviceProcess
  <2> QED
    BY <2>1, <2>2, ExplainedOthers, ExplainedAway DEF DevReceive, server, data, cert,
       process
<1>29. CASE \E d \in Device : DevDecode(d)
  <2>1. PICK d \in Device : DevDecode(d)
    BY <1>29
  <2>2. inbox[d].kind = "full" /\ inbox[d] # None /\ InstallFull(d, "binding")
    BY <2>1 DEF DevDecode, Stages
  <2> QED
    BY <2>1, <2>2, ExplainedInstalled DEF DevDecode, server, data, cert, process
<1>30. CASE \E d \in Device : DevListen(d)
  <2>1. PICK d \in Device : DevListen(d)
    BY <1>30
  <2>2. /\ dev[d].pc = "binding" /\ dev'[d].pc = "listening" /\ dev'[d].view = dev[d].view
        /\ dev'[d].boot = dev[d].boot
        /\ \A e \in Device \ {d} : dev'[e] = dev[e]
        /\ UNCHANGED <<alive, ca, control, inbox, excuse>>
    BY <2>1 DEF DevListen, DevGoto, DeviceTypes, DeviceProcess, server, data, cert,
       process
  <2>3. alive /\ ExplainedFor(d) => ExplainedFor(d)'
    BY <2>2 DEF ExplainedFor, Waiting, InLoop, Good, Excused, Served
  <2> QED
    BY <2>2, <2>3, ExplainedOthers DEF Explained
<1>31. CASE \E d \in Device : DevApply(d)
  <2>1. PICK d \in Device : DevApply(d)
    BY <1>31
  <2> DEFINE m == inbox[d]
  <2>2. m \in Messages /\ m # None /\ dev[d].pc = "applying" /\ UNCHANGED <<alive, ca, control>>
    BY <2>1 DEF DevApply, server, data, cert, process, DeviceTypes
  <2>3. CASE InstallFull(d, "listening")
    BY <2>2, <2>3, ExplainedInstalled
  <2>4. CASE ~InstallFull(d, "listening") /\ alive
    <3>1. PICK v \in Outcomes(dev[d].view, m) :
            dev' = [dev EXCEPT ![d].pc = "listening", ![d].view = v, ![d].locked = FALSE]
      BY <2>1, <2>4 DEF DevApply
    <3>2. /\ m.kind = "delta" /\ inbox' = [inbox EXCEPT ![d] = None]
          /\ excuse' = [excuse EXCEPT ![d] = @ \cup NewExcuses(dev[d].view, m)]
      BY <2>1, <2>4 DEF DevApply
    <3>3. /\ dev'[d].pc = "listening" /\ dev'[d].view = v
          /\ \A e \in Device \ {d} : /\ dev'[e] = dev[e] /\ inbox'[e] = inbox[e]
                                      /\ excuse'[e] = excuse[e]
          /\ excuse'[d] = excuse[d] \cup NewExcuses(dev[d].view, m)
      BY <3>1, <3>2 DEF DeviceTypes, DeviceProcess
    <3>4. ExplainedFor(d)
      BY <2>4 DEF Explained
    <3>5. v = control \/ Excused(d)'
      <4>1. CASE Excused(d)
        BY <3>3, <4>1 DEF Excused
      <4>2. CASE ~Excused(d)
        <5>1. ca.pc = "await" /\ Served(d) /\ m = ca.msg
          BY <2>2, <3>4, <4>2 DEF ExplainedFor, Excused
        <5>2. InLoop /\ Waiting(d)
          BY <5>1, AmongTail DEF InLoop, Waiting, Served, Round, ServerTypes,
             CommandThread
        <5>3. dev[d].view \in {m.from, m.to} /\ m.to = control
              /\ (m.rebuilt => m.act = "rev") /\ m.act \in Updates /\ m.rebuilt \in BOOLEAN
              /\ dev[d].view # Diverged
          BY <2>2, <3>2, <3>4, <4>2, <5>1, <5>2, MessageTypes, VersionTypes DEF
             ExplainedFor, Round
        <5>4. NewExcuses(dev[d].view, m) = {} => v = m.to
          BY <3>1, <5>3 DEF Outcomes, NewExcuses, Updates
        <5> QED
          BY <3>3, <5>3, <5>4 DEF Excused
      <4> QED
        BY <4>1, <4>2
    <3> QED
      BY <2>2, <3>3, <3>5, ExplainedFresh, ExplainedOthers
  <2>5. CASE ~alive
    BY <2>2, <2>5 DEF Explained
  <2> QED
    BY <2>3, <2>4, <2>5
<1>32. CASE \E d \in Device : Crash(d)
  <2>1. PICK d \in Device : Crash(d)
    BY <1>32
  <2> QED
    BY <2>1, ExplainedStopped DEF Crash, server, data, cert, process
<1>33. CASE \E d \in Device : Query(d)
  <2>1. PICK d \in Device : Query(d)
    BY <1>33
  <2> QED
    BY <2>1, ExplainedStopped, ExplainedKept DEF Query, SameRound, server, data, cert,
       process
<1>34. CASE Kill
  BY <1>34, DieEffect DEF Kill, Explained
<1>35. CASE Restart
  <2>1. UNCHANGED <<dev, inbox>> /\ ~InLoop' /\ ca'.pc = "accept"
    BY <1>35, RestartEffect DEF InLoop
  <2>2. \A d \in Device : dev[d].view # NoView => "server restarted" \in excuse'[d]
    BY <1>35 DEF Restart, DeviceTypes
  <2>3. ASSUME NEW d \in Device PROVE ExplainedFor(d)'
    BY <2>1, <2>2 DEF Stages, ExplainedFor, Waiting, Good, Excused
  <2> QED
    BY <2>3 DEF Explained
<1> QED
  BY <1>1, <1>2, <1>3, <1>4, <1>5, <1>6, <1>7, <1>8, <1>9, <1>10, <1>11, <1>12,
     <1>13, <1>14, <1>15, <1>16, <1>17, <1>18, <1>19, <1>20, <1>21, <1>22, <1>23,
     <1>24, <1>25, <1>26, <1>27, <1>28, <1>29, <1>30, <1>31, <1>32, <1>33, <1>34,
     <1>35 DEF Next, CAStep, ConnStep, DevStep

-----------------------------------------------------------------------------
LEMMA InitInvariant == Init => IInv
<1> SUFFICES ASSUME Init PROVE IInv
  OBVIOUS
<1>1. Version(0, 0) \in Versions /\ None \in Messages /\ 0 \in 0 .. MaxBoots
      /\ 0 \in 0 .. MaxCommands /\ MaxRuns \in Nat
  BY DistributionAssumption DEF Version, Versions, Messages
<1>2. ca \in CommandThread
  <2>1. ca = [pc |-> "accept", closed |-> FALSE, msg |-> None, boot |-> 0, todo |-> << >>]
    BY DEF Init
  <2> QED
    BY <1>1, <2>1 DEF CommandThread, CommandStages
<1>3. conn \in ConnectionThread
  <2>1. conn = [pc |-> "accept", closed |-> FALSE, cur |-> None]
    BY DEF Init
  <2> QED
    BY <2>1 DEF ConnectionThread, ConnectionStages
<1>4. TwiceType
  <2>1. twice = [by |-> "none", reused |-> FALSE]
    BY DEF Init
  <2> QED
    BY <2>1 DEF TwiceType
<1>5. control = Version(0, 0) /\ snapshot = Version(0, 0) /\ sent = 0 /\ runs = 1
      /\ backlog = << >> /\ connected = << >>
  BY DEF Init
<1>6. ServerTypes
  BY <1>1, <1>2, <1>3, <1>4, <1>5 DEF Init, ServerTypes, TwiceType
<1>7. DeviceTypes
  <2>1. dev \in [Device -> DeviceProcess]
    BY <1>1 DEF Init, DeviceProcess, DeviceStages
  <2> QED
    BY <1>1, <2>1 DEF Init, DeviceTypes
<1>8. TypeOK
  BY <1>6, <1>7, Types
<1>9. Locks /\ Round /\ Serving
  BY DEF Init, Locks, Round, InLoop, Serving, Busy
<1>10. Counted
  BY <1>1, <1>5 DEF Init, Counted, Pending, Version
<1>11. Stages /\ RegisteredFirst
  BY DEF Init, Stages, RegisteredFirst
<1>12. NotAhead
  <2>1. NoView \notin Versions
    BY VersionTypes
  <2>2. Leq(snapshot, control)
    BY <1>1, <1>5, LeqOrder
  <2> QED
    BY <2>1, <2>2 DEF Init, NotAhead, InLoop
<1>13. Explained
  BY DEF Init, Explained, ExplainedFor, Waiting, InLoop, Good
<1> QED
  BY <1>8, <1>9, <1>10, <1>11, <1>12, <1>13 DEF IInv

LEMMA StepInvariant == IInv /\ [Next]_vars => IInv'
<1> SUFFICES ASSUME IInv, [Next]_vars PROVE IInv'
  OBVIOUS
<1>1. /\ ServerTypes /\ DeviceTypes /\ Locks /\ Counted /\ Round /\ Serving
      /\ Stages /\ RegisteredFirst /\ NotAhead /\ Explained /\ TypeOK
  BY Types DEF IInv
<1>2. CASE Next
  <2>1. ServerTypes'
    BY <1>1, <1>2, ServerTypesStep
  <2>2. DeviceTypes'
    BY <1>1, <1>2, DeviceTypesStep
  <2>3. Locks' /\ Counted' /\ Round' /\ Serving'
    BY <1>1, <1>2, LocksStep, CountedStep, RoundStep, ServingStep
  <2>4. Stages' /\ RegisteredFirst' /\ NotAhead' /\ Explained'
    BY <1>1, <1>2, <2>1, StagesStep, RegisteredStep, NotAheadStep, ExplainedStep
  <2> QED
    BY <2>1, <2>2, <2>3, <2>4, Types DEF IInv
<1>3. CASE UNCHANGED vars
  <2>1. UNCHANGED <<alive, runs, running, lock, ca, conn, twice, backlog, connected, control,
                    snapshot, request, sent, dev, inbox, excuse, torn>>
    BY <1>3 DEF vars, server, process, data, cert, devices
  <2>2. TypeOK'
    BY <1>1, <2>1 DEF TypeOK
  <2>3. Locks' /\ Counted' /\ Round' /\ Serving'
    BY <1>1, <2>1, RoundKept, ServingKept DEF Locks, Counted, Pending
  <2>4. Stages' /\ NotAhead'
    BY <1>1, <2>1, StagesKept, LoopKept, AheadKept
  <2>5. RegisteredFirst'
    BY <1>1, <2>1, RegisteredKept
  <2>6. Explained'
    BY <1>1, <2>1, ExplainedKept DEF SameRound
  <2> QED
    BY <2>2, <2>3, <2>4, <2>5, <2>6 DEF IInv
<1> QED
  BY <1>2, <1>3

\* The invariant of the server, the devices and their connections.
THEOREM Invariant == Spec => []IInv
BY InitInvariant, StepInvariant, PTL DEF Spec

\* Every variable keeps its type; with the bounds on commands and starts the
\* versions of trackers and verifiers are bounded.
THEOREM TypeCorrect == Spec => []TypeOK
<1>1. IInv => TypeOK
  BY DEF IInv
<1> QED
  BY Invariant, <1>1, PTL

\* updateLock: while listenForCACommands changes the tracker or talks to
\* devices, listenForNewDevices does not, and the other way round.
THEOREM UpdatesExclude == Spec => []ExclusiveUpdate
<1>1. IInv => ExclusiveUpdate
  BY DEF IInv, Locks, ExclusiveUpdate
<1> QED
  BY Invariant, <1>1, PTL

\* listenForNewDevices registers a device before it sends the full summary,
\* so that no update passes it by.
THEOREM DevicesRegistered == Spec => []RegisteredFirst
<1>1. IInv => RegisteredFirst
  BY DEF IInv
<1> QED
  BY Invariant, <1>1, PTL

\* The loops of sendSummaryUpdate and sendFullUpdates, the device's update
\* thread and its first summary: whatever the order of their steps, and
\* whichever process stops and starts again, a device that differs from the
\* server has met one of the six named causes.
THEOREM DivergenceIsExplained == Spec => []DivergenceExplained
<1>1. IInv => DivergenceExplained
  <2> SUFFICES ASSUME IInv, alive, lock # "ca", NEW d \in Device, dev[d].pc = "listening"
               PROVE  dev[d].view = control \/ excuse[d] # {}
    BY DEF DivergenceExplained
  <2>1. ~InLoop
    BY DEF IInv, Locks, InLoop
  <2>2. Good(d)
    BY <2>1 DEF IInv, Explained, ExplainedFor, Waiting
  <2> QED
    BY <2>2 DEF Good, Excused
<1> QED
  BY Invariant, <1>1, PTL

ViewForward(d) ==
  dev[d].view \in Versions /\ dev'[d].view \in Versions => Leq(dev[d].view, dev'[d].view)

LEMMA ViewsStay ==
  ASSUME DeviceTypes, NEW d \in Device, dev'[d].view = dev[d].view
  PROVE  ViewForward(d)
BY LeqOrder DEF ViewForward

\* A full summary that a device applies is not older than the one it has.
LEMMA AppliedForward ==
  ASSUME DeviceTypes, NotAhead, NEW d \in Device, dev[d].pc = "applying", inbox[d] # None,
         inbox[d].kind = "full", InstallFull(d, "listening")
  PROVE  ViewForward(d)
<1>1. dev'[d].view = inbox[d].to
  BY DEF InstallFull, DeviceTypes, DeviceProcess
<1> QED
  BY <1>1 DEF NotAhead, ViewForward

LEMMA ForwardStep ==
  ASSUME DeviceTypes, Stages, NotAhead, NEW d \in Device, Next
  PROVE  ViewForward(d)
<1>1. CASE \E c \in Commands : SendCommand(c)
  BY <1>1, ViewsStay DEF SendCommand, server, data, devices, process
<1>2. CASE CAAccept
  BY <1>2, ViewsStay DEF CAAccept, process, data, cert, devices
<1>3. CASE CALock
  BY <1>3, ViewsStay DEF CALock, process, data, cert, devices
<1>4. CASE CARecvFails
  BY <1>4, ViewsStay DEF CARecvFails, process, data, cert, devices
<1>5. CASE CARecvBad
  BY <1>5, ViewsStay DEF CARecvBad, process, data, devices
<1>6. CASE CARecvHuge
  BY <1>6, DieEffect, HangUpEffect, ViewsStay DEF CARecvHuge
<1>7. CASE CARecvShow
  BY <1>7, ViewsStay DEF CARecvShow, process, data, cert, devices
<1>8. CASE CARecvExit
  BY <1>8, ViewsStay DEF CARecvExit, data, cert, devices
<1>9. CASE \E c \in Updates, r \in BOOLEAN : CAUpdate(c, r)
  BY <1>9, ViewsStay DEF CAUpdate, process, cert, devices
<1>10. CASE CAConnect
  BY <1>10, ViewsStay DEF CAConnect, DeviceTypes, DeviceProcess
<1>11. CASE CASend
  BY <1>11, ViewsStay DEF CASend, process, data, cert
<1>12. CASE CARefused
  <2>1. dev' = dev \/ dev' = HangUp(Device)
    BY <1>12, DieEffect DEF CARefused, process, data, cert
  <2> QED
    BY <2>1, HangUpEffect, ViewsStay
<1>13. CASE CAAnswered
  BY <1>13, ViewsStay DEF CAAnswered, process, data, cert, devices
<1>14. CASE CALost
  <2>1. dev' = dev \/ dev' = HangUp(Device)
    BY <1>14, DieEffect DEF CALost, process, data, cert, devices
  <2> QED
    BY <2>1, HangUpEffect, ViewsStay
<1>15. CASE CAClose
  BY <1>15, HangUpEffect, ViewsStay DEF CAClose
<1>16. CASE CAReply
  BY <1>16, ViewsStay DEF CAReply, process, data, devices
<1>17. CASE CAUnlock
  BY <1>17, ViewsStay DEF CAUnlock, process, data, cert, devices
<1>18. CASE CAExit
  BY <1>18, DieEffect, HangUpEffect, ViewsStay DEF CAExit
<1>19. CASE ConnAccept
  BY <1>19, ViewsStay DEF ConnAccept, process, data, cert, devices
<1>20. CASE ConnLock
  BY <1>20, ViewsStay DEF ConnLock, process, data, cert, devices
<1>21. CASE ConnSend
  BY <1>21, ViewsStay DEF ConnSend, process, data, cert
<1>22. CASE ConnLost
  <2>1. dev' = dev \/ dev' = HangUp(Device)
    BY <1>22, DieEffect DEF ConnLost, process, data, cert, devices
  <2> QED
    BY <2>1, HangUpEffect, ViewsStay
<1>23. CASE ConnAnswered
  BY <1>23, ViewsStay DEF ConnAnswered, process, data, cert, devices
<1>24. CASE ConnClose
  BY <1>24, ViewsStay DEF ConnClose, process, data, devices
<1>25. CASE ConnUnlock
  BY <1>25, ViewsStay DEF ConnUnlock, process, data, cert, devices
<1>26. CASE \E e \in Device : Boot(e)
  BY <1>26, ViewsStay DEF Boot, DevGoto, DeviceTypes, DeviceProcess
<1>27. CASE \E e \in Device : DevConnect(e)
  BY <1>27, ViewsStay DEF DevConnect, DevGoto, DeviceTypes, DeviceProcess
<1>28. CASE \E e \in Device : DevReceive(e)
  BY <1>28, ViewsStay DEF DevReceive, DevGoto, DeviceTypes, DeviceProcess
<1>29. CASE \E e \in Device : DevDecode(e)
  <2>1. PICK e \in Device : DevDecode(e)
    BY <1>29
  <2>2. CASE d = e
    <3>1. dev[d].view \notin Versions
      BY <2>1, <2>2, VersionTypes DEF DevDecode, Stages
    <3> QED
      BY <3>1 DEF ViewForward
  <2>3. CASE d # e
    BY <2>1, <2>3, ViewsStay DEF DevDecode, InstallFull, DeviceTypes
  <2> QED
    BY <2>2, <2>3
<1>30. CASE \E e \in Device : DevListen(e)
  BY <1>30, ViewsStay DEF DevListen, DevGoto, DeviceTypes, DeviceProcess
<1>31. CASE \E e \in Device : DevApply(e)
  <2>1. PICK e \in Device : DevApply(e)
    BY <1>31
  <2>2. CASE d # e
    BY <2>1, <2>2, ViewsStay DEF DevApply, InstallFull, DeviceTypes
  <2>3. CASE d = e /\ inbox[d].kind = "full"
    BY <2>1, <2>3, AppliedForward DEF DevApply
  <2>4. CASE d = e /\ inbox[d].kind # "full"
    <3>1. PICK v \in Outcomes(dev[d].view, inbox[d]) :
            dev' = [dev EXCEPT ![d].pc = "listening", ![d].view = v, ![d].locked = FALSE]
      BY <2>1, <2>4 DEF DevApply
    <3>2. inbox[d].kind = "delta" /\ inbox[d] # None /\ inbox[d] \in Messages
      BY <2>1, <2>4 DEF DevApply, DeviceTypes
    <3>3. dev'[d].view = v
      BY <3>1 DEF DeviceTypes, DeviceProcess
    <3>4. Leq(inbox[d].from, inbox[d].to)
      BY <3>2 DEF NotAhead
    <3>5. v \in Versions => v = dev[d].view \/ (dev[d].view = inbox[d].from /\ v = inbox[d].to)
      BY <3>1, <3>2, VersionTypes, MessageTypes DEF Outcomes
    <3> QED
      BY <3>3, <3>4, <3>5, LeqOrder DEF ViewForward
  <2> QED
    BY <2>2, <2>3, <2>4
<1>32. CASE \E e \in Device : Crash(e)
  <2>1. PICK e \in Device : Crash(e)
    BY <1>32
  <2>2. dev'[d].view = dev[d].view \/ dev'[d].view = NoView
    BY <2>1 DEF Crash, Stopped, DeviceTypes, DeviceProcess
  <2>3. NoView \notin Versions
    BY VersionTypes
  <2> QED
    BY <2>2, <2>3, ViewsStay DEF ViewForward
<1>33. CASE \E e \in Device : Query(e)
  <2>1. PICK e \in Device : Query(e)
    BY <1>33
  <2>2. dev'[d].view = dev[d].view \/ dev'[d].view = NoView
    BY <2>1 DEF Query, Stopped, DeviceTypes, DeviceProcess
  <2>3. NoView \notin Versions
    BY VersionTypes
  <2> QED
    BY <2>2, <2>3, ViewsStay DEF ViewForward
<1>34. CASE Kill
  BY <1>34, DieEffect, HangUpEffect, ViewsStay DEF Kill
<1>35. CASE Restart
  BY <1>35, RestartEffect, ViewsStay
<1> QED
  BY <1>1, <1>2, <1>3, <1>4, <1>5, <1>6, <1>7, <1>8, <1>9, <1>10, <1>11, <1>12,
     <1>13, <1>14, <1>15, <1>16, <1>17, <1>18, <1>19, <1>20, <1>21, <1>22, <1>23,
     <1>24, <1>25, <1>26, <1>27, <1>28, <1>29, <1>30, <1>31, <1>32, <1>33, <1>34,
     <1>35 DEF Next, CAStep, ConnStep, DevStep

\* decode_full and decode_sub_summary never take a device that runs back to an
\* older summary, also when servers have been started anew.
THEOREM ViewsGoForward == Spec => ViewsNeverGoBack
<1>1. IInv /\ [Next]_vars =>
        [\A d \in Device :
           dev[d].view \in Versions /\ dev'[d].view \in Versions =>
             \/ dev'[d].view.epoch > dev[d].view.epoch
             \/ /\ dev'[d].view.epoch = dev[d].view.epoch
                /\ dev'[d].view.n >= dev[d].view.n]_vars
  <2> SUFFICES ASSUME IInv, Next, NEW d \in Device,
                      dev[d].view \in Versions, dev'[d].view \in Versions
               PROVE  \/ dev'[d].view.epoch > dev[d].view.epoch
                      \/ /\ dev'[d].view.epoch = dev[d].view.epoch
                         /\ dev'[d].view.n >= dev[d].view.n
    OBVIOUS
  <2>1. ViewForward(d)
    BY ForwardStep, Types DEF IInv
  <2> QED
    BY <2>1, VersionTypes DEF ViewForward, Leq
<1> QED
  BY Invariant, <1>1, PTL DEF Spec, ViewsNeverGoBack
=============================================================================
