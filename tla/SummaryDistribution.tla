------------------------- MODULE SummaryDistribution -------------------------
(***************************************************************************)
(* How summaries get from the server to the devices:                       *)
(* src/TinyCR/TinyCRServer.h with its command thread and its connection    *)
(* thread, and src/TinyCR/TinyCRClient.h with its update thread and the    *)
(* queries of its process.                                                 *)
(*                                                                         *)
(* What a tracker or a verifier contains is abstracted to a version: the   *)
(* number of rebuilds and the number of updates since the last one.  A     *)
(* full update carries a version, a delta leads from one version to the    *)
(* next, and a device to which something else happened is Diverged.  A     *)
(* connection is one step where nothing can come between, and a descriptor *)
(* number matters only while a thread is about to close it a second time.  *)
(***************************************************************************)
EXTENDS Naturals, Sequences, FiniteSets

CONSTANTS
  Device,        \* the devices, each at an address of its own
  Commands,      \* what the certificate authority may send
  MayRebuild,    \* the commands whose operation may need a rebuild
  EarlyQueries,  \* whether a device is queried before it has a summary
  MaxCommands,   \* bound: commands sent
  MaxBoots,      \* bound: starts of each device
  MaxRuns        \* bound: starts of the server

\* "bad" begins with no word, or is empty, or its connection is closed at
\* once; "huge" has a number that stoul rejects; "show" stands for ping, get
\* and unknown words too.
Updates == {"add", "rem", "unr", "rev"}
Command == Updates \cup {"show", "exi", "bad", "huge"}

ASSUME DistributionAssumption ==
  /\ Commands \subseteq Command
  /\ MayRebuild \subseteq {"add", "unr", "rev"}
  /\ EarlyQueries \in BOOLEAN
  /\ MaxCommands \in Nat
  /\ MaxBoots \in Nat
  /\ MaxRuns \in Nat

VARIABLES
  alive,      \* whether the server's process runs
  runs,       \* how often it has been started
  running,    \* the server's flag of that name
  lock,       \* who holds updateLock
  ca,         \* listenForCACommands: pc, update under way, devices left
  conn,       \* listenForNewDevices: pc and the connection it has accepted
  twice,      \* a descriptor that is closed and will be closed again
  backlog,    \* connections to port 30000 not yet accepted
  connected,  \* connectedDevices
  control,    \* the version of vo_control
  snapshot,   \* the version of vo_data, what encode_full encodes
  request,    \* the authority's command that waits for its answer
  sent,       \* how many commands the authority has sent
  dev,        \* each device: pc, number of starts, version, queryLock
  inbox,      \* the message a device has received and not yet decoded
  excuse,     \* history: what a device has met that the code does not repair
  torn        \* history: where a query has read what is still being decoded

process == <<alive, runs, running>>
server  == <<process, lock, ca, conn, twice, backlog, connected>>
data    == <<control, snapshot>>
cert    == <<request, sent>>
devices == <<dev, inbox, excuse, torn>>
vars    == <<server, data, cert, devices>>

-----------------------------------------------------------------------------
None     == [kind |-> "none"]
NoView   == [view |-> "none"]
Diverged == [view |-> "diverged"]

Version(e, n) == [epoch |-> e, n |-> n]

Full(v) == [kind |-> "full", to |-> v]

\* A delta for command c; one whose flipped indexes are the sentinel
\* 0xffffffff stands for a rebuild that the device does not get.
Delta(c, rebuilt) ==
  [kind |-> "delta", act |-> c, rebuilt |-> rebuilt, from |-> control,
   to |-> IF rebuilt THEN Version(control.epoch + 1, 0)
                     ELSE Version(control.epoch, control.n + 1)]

Versions == [epoch : 0 .. MaxCommands + MaxRuns, n : 0 .. MaxCommands]

Messages == {None} \cup [kind : {"full"}, to : Versions]
  \cup [kind : {"delta"}, act : Updates, rebuilt : BOOLEAN,
        from : Versions, to : Versions]

Causes == {"old snapshot", "revoke rebuilt", "removal", "added twice", "missed full",
           "server restarted"}

Connection == [d : Device, boot : 0 .. MaxBoots]

CommandStages ==
  {"accept", "lock", "recv", "connect", "sending", "await", "closing", "reply", "unlock",
   "exit"}

ConnectionStages == {"accept", "lock", "send", "await", "closing", "unlock", "done"}

DeviceStages ==
  {"down", "connecting", "reading", "decoding", "binding", "listening", "applying",
   "spinning"}

CommandThread ==
  [pc : CommandStages, closed : BOOLEAN, msg : Messages, boot : 0 .. MaxBoots,
   todo : Seq(Device)]

ConnectionThread ==
  [pc : ConnectionStages, closed : BOOLEAN, cur : Connection \cup {None}]

DeviceProcess ==
  [pc : DeviceStages, boot : 0 .. MaxBoots, view : Versions \cup {NoView, Diverged},
   locked : BOOLEAN]

TypeOK ==
  /\ alive \in BOOLEAN /\ running \in BOOLEAN
  /\ runs \in Nat
  /\ lock \in {"free", "ca", "conn"}
  /\ ca \in CommandThread /\ conn \in ConnectionThread
  /\ twice \in [by : {"none", "ca", "conn"}, reused : BOOLEAN]
  /\ backlog \in Seq(Connection)
  /\ connected \in Seq(Device)
  /\ control \in Versions /\ snapshot \in Versions
  /\ request \in Commands \cup {"none"}
  /\ sent \in 0 .. MaxCommands
  /\ dev \in [Device -> DeviceProcess]
  /\ inbox \in [Device -> Messages]
  /\ excuse \in [Device -> SUBSET Causes]
  /\ torn \subseteq Device

Init ==
  /\ alive = TRUE /\ runs = 1 /\ running = TRUE /\ lock = "free"
  /\ ca = [pc |-> "accept", closed |-> FALSE, msg |-> None, boot |-> 0, todo |-> << >>]
  /\ conn = [pc |-> "accept", closed |-> FALSE, cur |-> None]
  /\ twice = [by |-> "none", reused |-> FALSE]
  /\ backlog = << >> /\ connected = << >>
  /\ control = Version(0, 0) /\ snapshot = Version(0, 0)
  /\ request = "none" /\ sent = 0
  /\ dev = [d \in Device |->
              [pc |-> "down", boot |-> 0, view |-> NoView, locked |-> FALSE]]
  /\ inbox = [d \in Device |-> None]
  /\ excuse = [d \in Device |-> {}]
  /\ torn = {}

-----------------------------------------------------------------------------
(***************************************************************************)
(* Helpers.                                                                *)
(***************************************************************************)
\* The device d is somewhere in the list s.
Among(d, s) == \E i \in 1 .. Len(s) : s[i] = d

\* Start number b of device d still reads the connection it made.
Reading(d, b) == dev[d].pc = "reading" /\ dev[d].boot = b /\ inbox[d] = None

\* A connection ends before the message has: recv returns 0 to the device for
\* ever, and it never leaves its loop, nor releases queryLock if it has it.
HangUp(D) ==
  [d \in Device |->
     IF d \in D /\ dev[d].pc \in {"reading", "applying"} /\ inbox[d] = None
       THEN [dev[d] EXCEPT !.pc = "spinning"] ELSE dev[d]]

Die ==
  /\ alive' = FALSE
  /\ dev' = HangUp(Device)
  /\ UNCHANGED <<runs, running, lock, ca, conn, twice, backlog, connected, data, cert,
                 inbox, excuse, torn>>

\* A thread's accept can return the number that the other thread has closed
\* and will close again.
Accepted(other) ==
  \E r \in BOOLEAN :
    /\ r => twice.by = other
    /\ twice' = [twice EXCEPT !.reused = @ \/ r]

\* A Socket passed by value is closed when the callee returns, and once more
\* when the caller's own copy goes out of scope.
ClosedOnce(me) == twice' = [by |-> me, reused |-> FALSE]

NotTwice == [by |-> "none", reused |-> FALSE]

Goto(pc) == ca' = [ca EXCEPT !.pc = pc]

ConnGoto(pc) == conn' = [conn EXCEPT !.pc = pc]

\* Mistake: the loop does not advance.
NextDeviceStuck == [ca EXCEPT !.pc = IF Len(ca.todo) = 1 THEN "reply" ELSE "connect"]

\* The pc of the update loops: the next device, or the answer.
NextDevice == [ca EXCEPT !.todo = Tail(@),
                         !.pc = IF Len(ca.todo) = 1 THEN "reply" ELSE "connect"]

-----------------------------------------------------------------------------
(***************************************************************************)
(* The certificate authority, and the command thread.                      *)
(***************************************************************************)
\* The authority sends one command at a time and waits for the answer.
SendCommand(c) ==
  /\ alive /\ request = "none" /\ sent < MaxCommands
  /\ request' = c
  /\ sent' = sent + 1
  /\ UNCHANGED <<server, data, devices>>

\* The connection is accepted before updateLock is taken.
CAAccept ==
  /\ alive /\ ca.pc = "accept" /\ request # "none"
  /\ Goto("lock")
  /\ Accepted("conn")
  /\ UNCHANGED <<process, lock, conn, backlog, connected, data, cert, devices>>

CALock ==
  /\ alive /\ ca.pc = "lock" /\ lock = "free"
  /\ lock' = "ca"
  /\ Goto("recv")
  /\ UNCHANGED <<process, conn, twice, backlog, connected, data, cert, devices>>

\* recv throws on a descriptor that the other thread has closed.
CARecvFails ==
  /\ alive /\ ca.pc = "recv" /\ ca.closed
  /\ ca' = [ca EXCEPT !.pc = "unlock", !.closed = FALSE]
  /\ UNCHANGED <<process, lock, conn, twice, backlog, connected, data, cert,
                 devices>>

Receives(c) == alive /\ ca.pc = "recv" /\ ~ca.closed /\ request = c

\* The answer to a command that is not one is followed by `continue', which
\* skips the unlock.
CARecvBad ==
  /\ Receives("bad")
  /\ request' = "none"
  /\ Goto(IF running THEN "accept" ELSE "exit")
  /\ UNCHANGED <<process, lock, conn, twice, backlog, connected, data, sent,
                 devices>>

\* stoul throws out_of_range, which nobody catches.
CARecvHuge == Receives("huge") /\ Die

CARecvShow ==
  /\ Receives("show")
  /\ Goto("reply")
  /\ UNCHANGED <<process, lock, conn, twice, backlog, connected, data, cert,
                 devices>>

CARecvExit ==
  /\ Receives("exi")
  /\ running' = FALSE
  /\ Goto("reply")
  /\ UNCHANGED <<alive, runs, lock, conn, twice, backlog, connected, data, cert, devices>>

\* Mistake: the status of no operation is looked at.
CAUpdateUnchecked(c, rebuilt) ==
  /\ Receives(c)
  /\ rebuilt => c \in MayRebuild
  /\ control' = Delta(c, rebuilt).to
  /\ snapshot' = IF rebuilt THEN control' ELSE snapshot
  /\ ca' = IF connected = << >>
             THEN [ca EXCEPT !.pc = "reply"]
             ELSE [ca EXCEPT !.pc = "connect", !.todo = connected,
                     !.msg = Delta(c, rebuilt)]
  /\ UNCHANGED <<process, lock, conn, twice, backlog, connected, cert, devices>>

\* Mistake: vo_data.install is forgotten after a rebuild.
CAUpdateNoInstall(c, rebuilt) ==
  /\ Receives(c)
  /\ rebuilt => c \in MayRebuild
  /\ control' = Delta(c, rebuilt).to
  /\ ca' = IF connected = << >>
             THEN [ca EXCEPT !.pc = "reply"]
             ELSE [ca EXCEPT !.pc = "connect", !.todo = connected,
                     !.msg = IF rebuilt /\ c \in {"add", "unr"}
                               THEN Full(snapshot) ELSE Delta(c, rebuilt)]
  /\ UNCHANGED <<process, lock, conn, twice, backlog, connected, snapshot, cert,
                 devices>>

\* addCertificate, removeCertificate, unrevokeCertificate, revokeCertificate:
\* the tracker first, with a rebuild and a new snapshot if it must, then what
\* the registered devices get.  Only add and unr look at the status and send
\* a full update after a rebuild.
CAUpdate(c, rebuilt) ==
  /\ Receives(c)
  /\ rebuilt => c \in MayRebuild
  /\ control' = Delta(c, rebuilt).to
  /\ snapshot' = IF rebuilt THEN control' ELSE snapshot
  /\ ca' = IF connected = << >>
             THEN [ca EXCEPT !.pc = "reply"]
             ELSE [ca EXCEPT !.pc = "connect", !.todo = connected,
                     !.msg = IF rebuilt /\ c \in {"add", "unr"}
                               THEN Full(snapshot') ELSE Delta(c, rebuilt)]
  /\ UNCHANGED <<process, lock, conn, twice, backlog, connected, cert, devices>>

\* One device: its update thread accepts the connection, takes queryLock and
\* starts to read ...
CAConnect ==
  LET d == Head(ca.todo)
  IN  /\ alive /\ ca.pc = "connect" /\ dev[d].pc = "listening"
      /\ ca' = [ca EXCEPT !.pc = "sending", !.boot = dev[d].boot]
      /\ dev' = [dev EXCEPT ![d].pc = "applying", ![d].locked = TRUE]
      /\ UNCHANGED <<process, lock, conn, twice, backlog, connected, data,
                     cert, inbox, excuse, torn>>

\* ... until the whole message has arrived.
CASend ==
  LET d == Head(ca.todo)
  IN  /\ alive /\ ca.pc = "sending"
      /\ dev[d].boot = ca.boot /\ dev[d].pc = "applying"
      /\ inbox' = [inbox EXCEPT ![d] = ca.msg]
      /\ Goto("await")
      /\ UNCHANGED <<process, lock, conn, twice, backlog, connected, data,
                     cert, dev, excuse, torn>>

\* An exception ends sendFullUpdates: the devices left get nothing.
MissedFull ==
  excuse' = [d \in Device |-> IF Among(d, ca.todo)
                                THEN excuse[d] \cup {"missed full"} ELSE excuse[d]]

\* Nobody listens on port 40000 of the device.  In sendSummaryUpdate the
\* exception ends the process, whatever the loop around it was for.
CARefused ==
  /\ alive /\ ca.pc = "connect" /\ dev[Head(ca.todo)].pc # "listening"
  /\ \/ ca.msg.kind = "delta" /\ Die
     \/ /\ ca.msg.kind = "full"
        /\ ca' = [ca EXCEPT !.pc = "reply", !.todo = << >>]
        /\ MissedFull
        /\ UNCHANGED <<process, lock, conn, twice, backlog, connected, data,
                       cert, dev, inbox, torn>>

\* The device has answered.
CAAnswered ==
  LET d == Head(ca.todo)
  IN  /\ alive /\ ca.pc = "await"
      /\ dev[d].boot = ca.boot /\ dev[d].pc = "listening"
      /\ IF ca.msg.kind = "full"
           THEN Goto("closing") /\ ClosedOnce("ca")
           ELSE ca' = NextDevice /\ UNCHANGED twice
      /\ UNCHANGED <<process, lock, conn, backlog, connected, data, cert, devices>>

\* The device has stopped instead: recv returns an empty answer, or fails, or
\* a send before it has raised SIGPIPE.
CALost ==
  LET d == Head(ca.todo)
  IN  /\ alive /\ ca.pc \in {"sending", "await"}
      /\ dev[d].boot # ca.boot \/ dev[d].pc = "down"
      /\ \/ Die
         \/ /\ ca.msg.kind = "delta"
            /\ ca' = NextDevice
            /\ UNCHANGED <<process, lock, conn, twice, backlog, connected, data,
                           cert, devices>>
         \/ /\ ca.msg.kind = "full"
            /\ ClosedOnce("ca")
            /\ \/ Goto("closing") /\ UNCHANGED excuse
               \/ /\ ca' = [ca EXCEPT !.pc = "closing", !.todo = <<d>>]
                  /\ MissedFull
            /\ UNCHANGED <<process, lock, conn, backlog, connected, data, cert,
                           dev, inbox, torn>>

\* client_socket's own destructor.
CAClose ==
  /\ alive /\ ca.pc = "closing"
  /\ ca' = NextDevice
  /\ twice' = NotTwice
  /\ conn' = [conn EXCEPT !.closed = @ \/ twice.reused]
  /\ dev' = IF twice.reused /\ Reading(conn.cur.d, conn.cur.boot)
              THEN HangUp({conn.cur.d}) ELSE dev
  /\ UNCHANGED <<process, lock, backlog, connected, data, cert, inbox, excuse,
                 torn>>

CAReply ==
  /\ alive /\ ca.pc = "reply"
  /\ request' = "none"
  /\ Goto("unlock")
  /\ UNCHANGED <<process, lock, conn, twice, backlog, connected, data, sent,
                 devices>>

CAUnlock ==
  /\ alive /\ ca.pc = "unlock"
  /\ lock' = "free"
  /\ Goto(IF running THEN "accept" ELSE "exit")
  /\ UNCHANGED <<process, conn, twice, backlog, connected, data, cert, devices>>

\* exit(1) after the loop, whatever the other thread is doing.
CAExit == alive /\ ca.pc = "exit" /\ Die

CAStep ==
  \/ CAAccept \/ CALock \/ CARecvFails \/ CARecvBad \/ CARecvHuge \/ CARecvShow
  \/ CARecvExit \/ (\E c \in Updates, r \in BOOLEAN : CAUpdate(c, r))
  \/ CAConnect \/ CASend \/ CARefused \/ CAAnswered \/ CALost \/ CAClose
  \/ CAReply \/ CAUnlock \/ CAExit

-----------------------------------------------------------------------------
(***************************************************************************)
(* The connection thread.                                                  *)
(***************************************************************************)
ConnAccept ==
  /\ alive /\ conn.pc = "accept" /\ backlog # << >>
  /\ conn' = [conn EXCEPT !.pc = "lock", !.cur = Head(backlog)]
  /\ backlog' = Tail(backlog)
  /\ Accepted("ca")
  /\ UNCHANGED <<process, lock, ca, connected, data, cert, devices>>

\* Mistake: the list is changed, and the device served, without the lock.
ConnNoLock ==
  /\ alive /\ conn.pc = "lock"
  /\ connected' = Append(connected, conn.cur.d)
  /\ ConnGoto("send")
  /\ UNCHANGED <<process, lock, ca, twice, backlog, data, cert, devices>>

\* Mistake: the device is not registered.
ConnLockUnlisted ==
  /\ alive /\ conn.pc = "lock" /\ lock = "free"
  /\ lock' = "conn"
  /\ ConnGoto("send")
  /\ UNCHANGED <<process, ca, twice, backlog, connected, data, cert, devices>>

\* The device is registered before it has got anything, and for good.
ConnLock ==
  /\ alive /\ conn.pc = "lock" /\ lock = "free"
  /\ lock' = "conn"
  /\ connected' = Append(connected, conn.cur.d)
  /\ ConnGoto("send")
  /\ UNCHANGED <<process, ca, twice, backlog, data, cert, devices>>

\* sendFullUpdate encodes the snapshot.
ConnSend ==
  /\ alive /\ conn.pc = "send" /\ ~conn.closed
  /\ Reading(conn.cur.d, conn.cur.boot)
  /\ inbox' = [inbox EXCEPT ![conn.cur.d] = Full(snapshot)]
  /\ ConnGoto("await")
  /\ UNCHANGED <<process, lock, ca, twice, backlog, connected, data, cert, dev,
                 excuse, torn>>

\* The descriptor is gone, or the device is: an exception, an empty answer or
\* SIGPIPE.
ConnLost ==
  /\ alive
  /\ \/ conn.pc = "send" /\ (conn.closed \/ ~Reading(conn.cur.d, conn.cur.boot))
     \/ /\ conn.pc = "await"
        /\ dev[conn.cur.d].boot # conn.cur.boot \/ dev[conn.cur.d].pc = "down"
  /\ \/ Die /\ ~conn.closed
     \/ /\ conn' = [conn EXCEPT !.pc = "closing", !.closed = FALSE]
        /\ IF conn.closed THEN UNCHANGED twice ELSE ClosedOnce("conn")
        /\ UNCHANGED <<process, lock, ca, backlog, connected, data, cert, devices>>

\* FullDone has come, and sendFullUpdate's copy of the socket is destroyed.
ConnAnswered ==
  /\ alive /\ conn.pc = "await"
  /\ dev[conn.cur.d].boot = conn.cur.boot
  /\ dev[conn.cur.d].pc \in {"binding", "listening"}
  /\ ConnGoto("closing")
  /\ ClosedOnce("conn")
  /\ UNCHANGED <<process, lock, ca, backlog, connected, data, cert, devices>>

\* new_sock's own destructor.  If it closes the connection of a command, the
\* authority reads an empty answer.
ConnClose ==
  /\ alive /\ conn.pc = "closing"
  /\ ConnGoto("unlock")
  /\ twice' = NotTwice
  /\ ca' = [ca EXCEPT !.closed = @ \/ twice.reused]
  /\ request' = IF twice.reused THEN "none" ELSE request
  /\ UNCHANGED <<process, lock, backlog, connected, data, sent, devices>>

\* Mistake: the lock is kept when the device has been served.
ConnUnlockKept ==
  /\ alive /\ conn.pc = "unlock"
  /\ ConnGoto(IF running THEN "accept" ELSE "done")
  /\ UNCHANGED <<process, lock, ca, twice, backlog, connected, data, cert, devices>>

ConnUnlock ==
  /\ alive /\ conn.pc = "unlock"
  /\ lock' = "free"
  /\ ConnGoto(IF running THEN "accept" ELSE "done")
  /\ UNCHANGED <<process, ca, twice, backlog, connected, data, cert, devices>>

ConnStep ==
  \/ ConnAccept \/ ConnLock \/ ConnSend \/ ConnLost \/ ConnAnswered \/ ConnClose
  \/ ConnUnlock

-----------------------------------------------------------------------------
(***************************************************************************)
(* A device.                                                               *)
(***************************************************************************)
DevGoto(d, pc) == dev' = [dev EXCEPT ![d].pc = pc]

Boot(d) ==
  /\ dev[d].pc = "down" /\ dev[d].boot < MaxBoots
  /\ dev' = [dev EXCEPT ![d].pc = "connecting", ![d].boot = @ + 1]
  /\ UNCHANGED <<server, data, cert, inbox, excuse, torn>>

\* requestInitialSummary: the kernel takes the connection before the server
\* does.  Refused, it tries again later.
DevConnect(d) ==
  /\ alive /\ conn.pc # "done" /\ dev[d].pc = "connecting"
  /\ DevGoto(d, "reading")
  /\ backlog' = Append(backlog, [d |-> d, boot |-> dev[d].boot])
  /\ UNCHANGED <<process, lock, ca, conn, twice, connected, data, cert, inbox,
                 excuse, torn>>

DevReceive(d) ==
  /\ dev[d].pc = "reading" /\ inbox[d] # None
  /\ DevGoto(d, "decoding")
  /\ UNCHANGED <<server, data, cert, inbox, excuse, torn>>

\* Mistake: the message is kept, and not what it says.
InstallFullRaw(d, pc) ==
  /\ dev' = [dev EXCEPT ![d].pc = pc, ![d].view = inbox[d], ![d].locked = FALSE]
  /\ excuse' = [excuse EXCEPT ![d] = (@ \cap {"server restarted"}) \cup
                   IF inbox[d].to = control THEN {} ELSE {"old snapshot"}]
  /\ inbox' = [inbox EXCEPT ![d] = None]

\* What decode_full makes of the device's version, and what is then true.
InstallFull(d, pc) ==
  /\ dev' = [dev EXCEPT ![d].pc = pc, ![d].view = inbox[d].to, ![d].locked = FALSE]
  /\ excuse' = [excuse EXCEPT ![d] = (@ \cap {"server restarted"}) \cup
                   IF inbox[d].to = control THEN {} ELSE {"old snapshot"}]
  /\ inbox' = [inbox EXCEPT ![d] = None]

\* The first summary is decoded without queryLock.
DevDecode(d) ==
  /\ dev[d].pc = "decoding"
  /\ InstallFull(d, "binding")
  /\ torn' = torn \ {d}
  /\ UNCHANGED <<server, data, cert>>

DevListen(d) ==
  /\ dev[d].pc = "binding"
  /\ DevGoto(d, "listening")
  /\ UNCHANGED <<server, data, cert, inbox, excuse, torn>>

\* decode_batch_summary with one action.  setValue does nothing when the key
\* has the value already; insert applies the flips again; after a sentinel
\* the filter is new and the Othello old; a removal comes as an insertion of
\* value 0 with the flips of the command before.
Outcomes(view, m) ==
  CASE view = Diverged \/ (m.rebuilt /\ view = m.from) -> {Diverged}
    [] view = m.to -> IF m.act \in {"unr", "rev"} THEN {view} ELSE {view, Diverged}
    [] view = m.from -> IF m.act = "rem" THEN {m.to, Diverged} ELSE {m.to}
    [] OTHER -> {Diverged}

NewExcuses(view, m) ==
  (IF m.rebuilt /\ m.act = "rev" THEN {"revoke rebuilt"} ELSE {})
  \cup (IF m.act = "rem" THEN {"removal"} ELSE {})
  \cup (IF m.act = "add" /\ view = m.to THEN {"added twice"} ELSE {})

\* Mistake: queryLock is not released after a delta.
DevApplyLocked(d) ==
  LET m == inbox[d]
  IN  /\ dev[d].pc = "applying" /\ m # None
      /\ \/ m.kind = "full" /\ InstallFull(d, "listening")
         \/ /\ m.kind = "delta"
            /\ \E v \in Outcomes(dev[d].view, m) :
                 dev' = [dev EXCEPT ![d].pc = "listening", ![d].view = v]
            /\ excuse' = [excuse EXCEPT ![d] = @ \cup NewExcuses(dev[d].view, m)]
            /\ inbox' = [inbox EXCEPT ![d] = None]
      /\ UNCHANGED <<server, data, cert, torn>>

\* The update thread decodes under queryLock, answers and unlocks.
DevApply(d) ==
  LET m == inbox[d]
  IN  /\ dev[d].pc = "applying" /\ m # None
      /\ \/ m.kind = "full" /\ InstallFull(d, "listening")
         \/ /\ m.kind = "delta"
            /\ \E v \in Outcomes(dev[d].view, m) :
                 dev' = [dev EXCEPT ![d].pc = "listening", ![d].view = v,
                                    ![d].locked = FALSE]
            /\ excuse' = [excuse EXCEPT ![d] = @ \cup NewExcuses(dev[d].view, m)]
            /\ inbox' = [inbox EXCEPT ![d] = None]
      /\ UNCHANGED <<server, data, cert, torn>>

DevStep(d) ==
  DevConnect(d) \/ DevReceive(d) \/ DevDecode(d) \/ DevListen(d) \/ DevApply(d)

Stopped(d) ==
  /\ dev' = [dev EXCEPT ![d].pc = "down", ![d].view = NoView, ![d].locked = FALSE]
  /\ inbox' = [inbox EXCEPT ![d] = None]
  /\ excuse' = [excuse EXCEPT ![d] = {}]
  /\ torn' = torn \ {d}

Crash(d) ==
  /\ dev[d].pc # "down" /\ dev[d].boot < MaxBoots
  /\ Stopped(d)
  /\ UNCHANGED <<server, data, cert>>

\* queryCertificate, from the process's command loop.  The filter that has not
\* been initialised ends the process; one that is being replaced answers.
Query(d) ==
  /\ EarlyQueries /\ ~dev[d].locked
  /\ \/ dev[d].pc \in {"connecting", "reading", "spinning"} /\ Stopped(d)
     \/ /\ dev[d].pc = "decoding"
        /\ torn' = torn \cup {d}
        /\ UNCHANGED <<dev, inbox, excuse>>
  /\ UNCHANGED <<server, data, cert>>

-----------------------------------------------------------------------------
(***************************************************************************)
(* The server's process, seen from outside.                                *)
(***************************************************************************)
\* It is killed at any point, as long as it may be started again.
Kill == alive /\ runs < MaxRuns /\ Die

\* It keeps nothing on disk: the new one builds its tracker from the keys it
\* was given, and knows no device.  The devices do not notice.
Restart ==
  /\ ~alive /\ runs < MaxRuns
  /\ alive' = TRUE /\ runs' = runs + 1 /\ running' = TRUE /\ lock' = "free"
  /\ ca' = [pc |-> "accept", closed |-> FALSE, msg |-> None, boot |-> 0, todo |-> << >>]
  /\ conn' = [pc |-> "accept", closed |-> FALSE, cur |-> None]
  /\ twice' = NotTwice
  /\ backlog' = << >> /\ connected' = << >>
  /\ control' = Version(control.epoch + 1, 0) /\ snapshot' = control'
  /\ request' = "none"
  /\ excuse' = [d \in Device |-> IF dev[d].view # NoView \/ inbox[d] # None
                                   THEN excuse[d] \cup {"server restarted"}
                                   ELSE excuse[d]]
  /\ UNCHANGED <<sent, dev, inbox, torn>>

-----------------------------------------------------------------------------
Next ==
  \/ \E c \in Commands : SendCommand(c)
  \/ CAStep
  \/ ConnStep
  \/ \E d \in Device : Boot(d)
  \/ \E d \in Device : DevStep(d)
  \/ \E d \in Device : Crash(d)
  \/ \E d \in Device : Query(d)
  \/ Kill
  \/ Restart

Spec == Init /\ [][Next]_vars

\* The threads are scheduled; nothing makes the authority send, or a device
\* start, stop or ask.
Fairness ==
  /\ WF_vars(CAStep)
  /\ WF_vars(ConnStep)
  /\ \A d \in Device : WF_vars(DevStep(d))

FairSpec == Spec /\ Fairness

-----------------------------------------------------------------------------
(***************************************************************************)
(* Safety.                                                                 *)
(***************************************************************************)
\* What the server is for: between two of its operations every device that
\* listens has the version the server has.  sendFullUpdate breaks it, since
\* it encodes the snapshot of the last rebuild.
DevicesInSync ==
  alive /\ lock # "ca" =>
    \A d \in Device : dev[d].pc = "listening" => dev[d].view = control

\* What is so: a device that answers otherwise than the server has met one of
\* the six things the code does not repair - the full summary it got was of
\* before an update, it was registered when a revocation rebuilt the tracker,
\* a removal reached it, an addition reached it twice because it had been
\* registered twice, it was left out when a round of full updates broke off,
\* or the server has been started anew.
DivergenceExplained ==
  alive /\ lock # "ca" =>
    \A d \in Device :
      dev[d].pc = "listening" => dev[d].view = control \/ excuse[d] # {}

\* No update can pass a device by: whoever has a summary, or is about to get
\* one, is registered for the updates that follow it, as long as the server
\* that has sent it runs.
RegisteredFirst ==
  alive =>
    \A d \in Device :
      dev[d].view # NoView \/ inbox[d] # None =>
        \/ Among(d, connected)
        \/ "server restarted" \in excuse[d]

\* While one thread changes the tracker or talks to devices, the other does
\* neither; and the tracker never changes under an encoded snapshot.
ExclusiveUpdate ==
  alive => ~ /\ ca.pc \in {"connect", "sending", "await", "closing", "reply"}
             /\ conn.pc \in {"send", "await", "closing", "unlock"}

\* As long as a device runs, its summary is never replaced by an older one.
ViewsNeverGoBack ==
  [][\A d \in Device :
       dev[d].view \in Versions /\ dev'[d].view \in Versions =>
         \/ dev'[d].view.epoch > dev[d].view.epoch
         \/ /\ dev'[d].view.epoch = dev[d].view.epoch
            /\ dev'[d].view.n >= dev[d].view.n]_vars

\* No query is answered from a summary that is being replaced.
QueriesSeeWholeSummaries == torn = {}

(***************************************************************************)
(* Liveness.                                                               *)
(***************************************************************************)
\* The answer to a malformed command is followed by `continue', which skips
\* the unlock: from then on the command thread waits for its own lock.
LockLost == lock = "ca" /\ ca.pc \in {"accept", "lock"}

\* Every command comes to an end as long as the server runs, unless there was
\* a malformed one before it: the lock, the devices that sendSummaryUpdate and
\* sendFullUpdates wait for, and the connection thread all let it go on.
CommandAnswered == request # "none" ~> request = "none" \/ ~alive \/ LockLost

\* A device that asks for its first summary gets it, and listens, as long as
\* it and the server run, unless a malformed command has taken the lock or the
\* second close of a connection of sendFullUpdates closes its connection.
DeviceServed ==
  \A d \in Device :
    dev[d].pc = "connecting" ~>
      \/ dev[d].pc \in {"listening", "down"} \/ ~alive
      \/ LockLost
      \/ conn.closed /\ conn.cur.d = d

\* The update thread reads from the network under queryLock, and the queries
\* of a device that reads an update are not locked out for good by a server
\* that runs.  By one that stops in the middle of a message they are.
QueriesResume ==
  \A d \in Device : dev[d].pc = "applying" ~> ~dev[d].locked \/ ~alive
=============================================================================
