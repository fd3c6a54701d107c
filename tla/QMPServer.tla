------------------------------ MODULE QMPServer ------------------------------
(***************************************************************************)
(* The server that the replaying QEMU connects its monitor (QMP) to: class *)
(* QMPServer (src/trace_processor/qemu/qmp_server.h, qmp_server.cc), with  *)
(* its icount poller, and the monitor of QEMU at the other end, which is   *)
(* external to the repository.                                             *)
(*                                                                         *)
(* The server asks QEMU to seek to an instruction count, follows the       *)
(* replay by polling query-replay, and calls icount_update_ when the count *)
(* it is told has changed.  QEMU sends a line of JSON per message; what a  *)
(* read of the socket returns is cut at ReceiveMax, wherever that falls.   *)
(***************************************************************************)
EXTENDS Integers, Sequences, SequencesExt

CONSTANTS
  MaxIcount,   \* UINT64_MAX: no execution gets there
  ReceiveMax,  \* what one ReceiveString returns at most, in half messages
  MaxBacklog   \* half messages the socket holds: QEMU waits when it is full

ASSUME QMPAssumption ==
  /\ MaxIcount \in Nat \ {0} /\ ReceiveMax \in Nat \ {0}
  /\ MaxBacklog \in Nat /\ MaxBacklog >= 8

Icount == 0 .. MaxIcount - 1
Never  == MaxIcount

VARIABLES
  client_socket,            \* client_socket_ is set
  version_received,         \* version_received_
  capabilities_negotiated,  \* capabilities_negotiated_
  inhibit_status_send,      \* inhibit_status_send_: a query is unanswered
  icount_poller,            \* icount_poller_ is started
  last_icount,              \* the static in OnDataAvailable: shared by all servers
  received,                 \* from QEMU, not read yet: a sequence of halves
  sent,                     \* commands QEMU has not executed yet
  vm                        \* QEMU: external

qmpVars == <<client_socket, version_received, capabilities_negotiated,
             inhibit_status_send, icount_poller, last_icount, received, sent, vm>>
serverVars == <<client_socket, version_received, capabilities_negotiated,
                inhibit_status_send, icount_poller, last_icount>>

(* What QEMU sends.  "return" is an answer without an icount, or an error.   *)
Greeting       == [type |-> "QMP"]
Return         == [type |-> "return"]
Stop           == [type |-> "STOP"]
Resume         == [type |-> "event"]   \* RESUME, and every event but STOP
Status(icount) == [type |-> "status", icount |-> icount]
Message == {Greeting, Return, Stop, Resume} \cup {Status(i) : i \in Icount}

Halves(m) == <<[msg |-> m, half |-> 1], [msg |-> m, half |-> 2]>>

(* What the server sends.                                                    *)
QmpCapabilities    == [execute |-> "qmp_capabilities"]
QueryReplay        == [execute |-> "query-replay"]
ReplaySeek(icount) == [execute |-> "replay-seek", icount |-> icount]
Command == {QmpCapabilities, QueryReplay} \cup {ReplaySeek(i) : i \in Icount}

NoVM == [state |-> "none", icount |-> 0, break |-> Never, negotiated |-> FALSE]
Alive == vm.state \in {"running", "stopped"}

QMPTypeOK ==
  /\ {client_socket, version_received, capabilities_negotiated,
      inhibit_status_send, icount_poller} \subseteq BOOLEAN
  /\ last_icount \in Icount
  /\ received \in Seq([msg : Message, half : {1, 2}])
  /\ sent \in Seq(Command)
  /\ vm \in [state : {"none", "starting", "running", "stopped"}, icount : Icount,
             break : Icount \cup {Never}, negotiated : BOOLEAN]

QMPInit ==
  /\ client_socket = FALSE /\ version_received = FALSE
  /\ capabilities_negotiated = FALSE /\ inhibit_status_send = FALSE
  /\ icount_poller = FALSE /\ last_icount = 0
  /\ received = <<>> /\ sent = <<>> /\ vm = NoVM

(* A new QMPServer replaces the old one, and a new QEMU is launched.         *)
NewServer ==
  /\ client_socket' = FALSE /\ version_received' = FALSE
  /\ capabilities_negotiated' = FALSE /\ inhibit_status_send' = FALSE
  /\ icount_poller' = FALSE /\ last_icount' = last_icount
  /\ received' = <<>> /\ sent' = <<>>
  /\ vm' = [NoVM EXCEPT !.state = "starting"]
-----------------------------------------------------------------------------
(* QMPServer::OnNewIncomingConnection: QEMU connects, with -S, and greets.   *)
OnNewIncomingConnection ==
  /\ vm.state = "starting"
  /\ client_socket' = TRUE
  /\ received' = Halves(Greeting)
  /\ vm' = [vm EXCEPT !.state = "stopped"]
  /\ UNCHANGED <<version_received, capabilities_negotiated, inhibit_status_send,
                 icount_poller, last_icount, sent>>

(* The poller's task, once connected: at most one query is unanswered.       *)
Poll(st) ==
  IF st.inhibit THEN st
  ELSE [st EXCEPT !.inhibit = TRUE, !.sent = Append(@, QueryReplay)]

(* The answer to a query: icount_update_ is called when the count changed.   *)
Answer(st, icount) ==
  [st EXCEPT !.inhibit = FALSE, !.last = icount,
             !.updates = IF icount = st.last THEN @ ELSE Append(@, icount)]

HandleNoFinalPoll(st, m) ==  \* mutant: STOP only stops the poller
  CASE m.type = "status" -> Answer(st, m.icount)
    [] m.type = "STOP"   -> [st EXCEPT !.poller = FALSE]
    [] m.type = "event"  -> [st EXCEPT !.poller = TRUE]
    [] OTHER -> st
(* The body of OnDataAvailable's loop after the handshake.  No message of    *)
(* QEMU is both an answer and an event.                                      *)
Handle(st, m) ==
  CASE m.type = "status" -> Answer(st, m.icount)
    [] m.type = "STOP"   -> Poll([st EXCEPT !.poller = FALSE])
    [] m.type = "event"  -> [st EXCEPT !.poller = TRUE]
    [] OTHER -> st

(* What one read returns, and the messages of it that are handled: the loop  *)
(* returns at the first line that is not a whole message.                    *)
Chunk == SubSeq(received, 1, IF Len(received) < ReceiveMax THEN Len(received)
                                                           ELSE ReceiveMax)
Parsed(chunk) ==
  IF chunk[1].half = 2 THEN <<>>
  ELSE [i \in 1 .. (Len(chunk) \div 2) |-> chunk[2 * i].msg]

Handled ==
  FoldLeft(Handle, [inhibit |-> inhibit_status_send, poller |-> icount_poller,
                    last |-> last_icount, sent |-> sent, updates |-> <<>>],
           Parsed(Chunk))

(* The counts that OnDataAvailable calls icount_update_ with, in order.      *)
Updates ==
  IF version_received /\ capabilities_negotiated THEN Handled.updates ELSE <<>>

(* QMPServer::OnDataAvailable; its connected_ seeks to target.               *)
OnDataAvailable(target) ==
  /\ received # <<>>
  /\ received' = SubSeq(received, Len(Chunk) + 1, Len(received))
  /\ CASE ~version_received ->
            /\ version_received' = TRUE
            /\ sent' = Append(sent, QmpCapabilities)
            /\ UNCHANGED <<capabilities_negotiated, inhibit_status_send,
                           icount_poller, last_icount>>
       [] version_received /\ ~capabilities_negotiated ->
            /\ capabilities_negotiated' = TRUE
            /\ sent' = Append(sent, ReplaySeek(target))
            /\ UNCHANGED <<version_received, inhibit_status_send, icount_poller,
                           last_icount>>
       [] OTHER ->
            /\ inhibit_status_send' = Handled.inhibit
            /\ icount_poller' = Handled.poller
            /\ last_icount' = Handled.last
            /\ sent' = Handled.sent
            /\ UNCHANGED <<version_received, capabilities_negotiated>>
  /\ UNCHANGED <<client_socket, vm>>

(* icount_poller_ fires.                                                     *)
IcountPoller ==
  /\ icount_poller
  /\ client_socket /\ capabilities_negotiated /\ ~inhibit_status_send
  /\ sent' = Append(sent, QueryReplay)
  /\ inhibit_status_send' = TRUE
  /\ UNCHANGED <<client_socket, version_received, capabilities_negotiated,
                 icount_poller, last_icount, received, vm>>
-----------------------------------------------------------------------------
(* QEMU, external: it answers commands in order, from the same loop that     *)
(* sends the events.  An event leaves room for the answer to a command.      *)
Room(n) == Len(received) + 2 * n <= MaxBacklog

QemuCommand ==
  /\ Alive /\ sent # <<>> /\ Room(2)
  /\ sent' = Tail(sent)
  /\ CASE Head(sent) = QmpCapabilities ->
            /\ vm' = [vm EXCEPT !.negotiated = TRUE]
            /\ received' = received \o Halves(Return)
       [] Head(sent) = QueryReplay ->
            /\ vm' = vm
            /\ received' = received \o Halves(Status(vm.icount))
       [] OTHER ->
            IF Head(sent).icount >= vm.icount
            THEN /\ vm' = [vm EXCEPT !.state = "running", !.break = Head(sent).icount]
                 /\ received' = received \o Halves(Resume) \o Halves(Return)
            ELSE vm' = vm /\ received' = received \o Halves(Return)
  /\ UNCHANGED serverVars

(* The guest executes, up to the count it was told to seek to.               *)
QemuExecute ==
  /\ vm.state = "running" /\ vm.icount # vm.break /\ vm.icount + 1 \in Icount
  /\ vm' = [vm EXCEPT !.icount = @ + 1]
  /\ UNCHANGED <<serverVars, received, sent>>

QemuReached ==
  /\ vm.state = "running" /\ vm.icount = vm.break /\ Room(3)
  /\ vm' = [vm EXCEPT !.state = "stopped", !.break = Never]
  /\ received' = received \o Halves(Stop)
  /\ UNCHANGED <<serverVars, sent>>

(* A debugger stops and resumes the guest.                                   *)
QemuInterrupt ==
  /\ vm.state = "running" /\ Room(3)
  /\ vm' = [vm EXCEPT !.state = "stopped"]
  /\ received' = received \o Halves(Stop)
  /\ UNCHANGED <<serverVars, sent>>

QemuContinue ==
  /\ vm.state = "stopped" /\ Room(3)
  /\ vm' = [vm EXCEPT !.state = "running"]
  /\ received' = received \o Halves(Resume)
  /\ UNCHANGED <<serverVars, sent>>

(* Some other event, e.g. RTC_CHANGE.                                        *)
QemuEvent ==
  /\ Alive /\ vm.negotiated /\ received = <<>>
  /\ received' = received \o Halves(Resume)
  /\ UNCHANGED <<serverVars, sent, vm>>

(* QEMU ends, or cannot be run at all.                                       *)
QemuExit ==
  /\ vm.state # "none"
  /\ vm' = [vm EXCEPT !.state = "none"]
  /\ sent' = <<>>
  /\ UNCHANGED <<serverVars, received>>
=============================================================================
