---------------------------- MODULE DebugSession ----------------------------
(***************************************************************************)
(* Replaying the recording up to a slice and debugging it there, from the  *)
(* "Debug" button to gdb's terminal: class Qemu (src/trace_processor/qemu/ *)
(* qemu.h, qemu.cc), class Gdb (gdb.h, gdb.cc), the debugging requests and *)
(* callbacks of class Rpc (src/trace_processor/rpc/rpc.cc) and the         *)
(* debugger tab of the UI (ui/src/core_plugins/debugger_tab/index.ts), on  *)
(* top of QMPServer.                                                       *)
(*                                                                         *)
(* trace_processor runs all of it on one thread.  ParseRpcRequest holds    *)
(* send_mu_ while it serves a request, and each of Qemu's callbacks locks  *)
(* it to send a notification: a callback made from inside a request locks  *)
(* a mutex its own thread holds, and the thread is stuck.                  *)
(***************************************************************************)
EXTENDS QMPServer

CONSTANTS
  Target,          \* the icounts of the slices that may be debugged
  DebugWhileOpen,  \* the user may ask for a replay before the last one is over
  PortsMayFail,    \* FreeTcpPort may fail
  MaxRequests,     \* requests waiting to be served
  MaxWire          \* messages waiting for the UI when a new request is made

ASSUME DebugAssumption ==
  /\ Target \subseteq Icount
  /\ {DebugWhileOpen, PortsMayFail} \subseteq BOOLEAN
  /\ MaxRequests \in Nat \ {0} /\ MaxWire \in Nat \ {0}

VARIABLES
  target_icount,  \* Qemu::target_icount_
  debugger,       \* Qemu::debugger_: null, or its terminal is open or closed
  stuck,          \* the thread waits for the mutex it holds
  crashed,        \* the null debugger_ was used
  requests,       \* from the UI, not served yet
  wire,           \* to the UI, not received yet
  tab,            \* the UI shows the debugger tab
  debugging,      \* the UI asked for a replay that has not ended
  cursor          \* the icount the UI was told last

vars == <<qmpVars, target_icount, debugger, stuck, crashed, requests, wire, tab,
          debugging, cursor>>
uiVars == <<tab, debugging, cursor>>

DebugRequest(t) == [request |-> "TPM_DEBUG", icount |-> t]
IoRequest       == [request |-> "TPM_DEBUGGER_IO"]
Request == {IoRequest} \cup {DebugRequest(t) : t \in Target}

DebugResult  == [result |-> "ok"]
DebugError   == [result |-> "error"]
Started      == [result |-> "started"]
Stopped      == [result |-> "stopped"]
Stdout       == [result |-> "stdout"]
IcountResult(i) == [result |-> "icount", icount |-> i]
Notification ==
  {DebugResult, DebugError, Started, Stopped, Stdout} \cup {IcountResult(i) : i \in Icount}

(* The type of every variable: of the server, of the session and of the UI.  *)
TypeOK ==
  /\ QMPTypeOK
  /\ target_icount \in Icount \cup {Never}
  /\ debugger \in {"null", "open", "closed"}
  /\ {stuck, crashed, tab, debugging} \subseteq BOOLEAN
  /\ requests \in Seq(Request) /\ wire \in Seq(Notification)
  /\ cursor \in Icount

Init ==
  /\ QMPInit
  /\ target_icount = Never
  /\ debugger = "null"
  /\ stuck = FALSE /\ crashed = FALSE
  /\ requests = <<>> /\ wire = <<>>
  /\ tab = FALSE /\ debugging = FALSE /\ cursor = 0

Up == ~stuck /\ ~crashed
-----------------------------------------------------------------------------
(* Qemu::Debug, called with send_mu_ held.  ~Gdb calls debugger_stopped_fn_  *)
(* when its terminal is open.  If no port is found the old QEMU is gone, as  *)
(* process_ was replaced, and the old server and target stay.  process_ is   *)
(* always running right after Start: a QEMU that cannot be run ends later.   *)
Debug(t) ==
  /\ debugger' = "null"
  /\ IF debugger = "open"
     THEN /\ stuck' = TRUE
          /\ UNCHANGED <<qmpVars, target_icount, wire>>
     ELSE /\ UNCHANGED stuck
          /\ \/ /\ NewServer
                /\ target_icount' = t
                /\ wire' = Append(wire, DebugResult)
             \/ /\ PortsMayFail
                /\ vm' = [vm EXCEPT !.state = "none"]
                /\ sent' = <<>>
                /\ wire' = Append(wire, DebugError)
                /\ UNCHANGED <<serverVars, received, target_icount>>

(* Rpc::ParseRpcRequest, of the requests about debugging.                    *)
ParseRpcRequest ==
  /\ Up /\ requests # <<>>
  /\ requests' = Tail(requests)
  /\ IF Head(requests) = IoRequest
     THEN /\ crashed' = (debugger = "null")
          /\ UNCHANGED <<qmpVars, target_icount, debugger, stuck, wire>>
     ELSE Debug(Head(requests).icount) /\ UNCHANGED crashed
  /\ UNCHANGED uiVars

UpdateFirst(st, icount) ==  \* mutant: any count starts the debugger
  LET told == Append(st.wire, IcountResult(icount)) IN
  IF st.target = Never THEN [st EXCEPT !.wire = told]
  ELSE [wire |-> Append(told, Started), target |-> Never, debugger |-> "open"]
(* The callback of SetOnIcountUpdate, with the functions Rpc gave Qemu.      *)
Update(st, icount) ==
  LET told == Append(st.wire, IcountResult(icount))
      old  == IF st.debugger = "open" THEN <<Stopped>> ELSE <<>>
  IN IF icount # st.target THEN [st EXCEPT !.wire = told]
     ELSE [wire |-> told \o old \o <<Started>>, target |-> Never, debugger |-> "open"]

IcountUpdate(icounts) ==
  LET st == FoldLeft(Update, [wire |-> wire, target |-> target_icount,
                              debugger |-> debugger], icounts)
  IN /\ wire' = st.wire
     /\ target_icount' = st.target
     /\ debugger' = st.debugger

QMPData ==
  /\ Up
  /\ OnDataAvailable(target_icount)
  /\ IcountUpdate(Updates)
  /\ UNCHANGED <<stuck, crashed, requests, uiVars>>

QMPConnection ==
  /\ Up
  /\ OnNewIncomingConnection
  /\ UNCHANGED <<target_icount, debugger, stuck, crashed, requests, wire, uiVars>>

QMPPoll ==
  /\ Up
  /\ IcountPoller
  /\ UNCHANGED <<target_icount, debugger, stuck, crashed, requests, wire, uiVars>>

(* gdb's terminal becomes readable: output, or the end of it.                *)
GdbOutput ==
  /\ Up /\ debugger = "open" /\ wire = <<>>
  /\ wire' = Append(wire, Stdout)
  /\ UNCHANGED <<qmpVars, target_icount, debugger, stuck, crashed, requests, uiVars>>

GdbEndKeepsOpen ==  \* mutant: the terminal is not closed
  /\ Up /\ debugger = "open"
  /\ wire' = Append(wire, Stopped)
  /\ UNCHANGED <<qmpVars, target_icount, debugger, stuck, crashed, requests, uiVars>>
GdbEnd ==
  /\ Up /\ debugger = "open"
  /\ debugger' = "closed"
  /\ wire' = Append(wire, Stopped)
  /\ UNCHANGED <<qmpVars, target_icount, stuck, crashed, requests, uiVars>>
-----------------------------------------------------------------------------
(* The UI.                                                                   *)
UiDebug(t) ==
  /\ Len(requests) < MaxRequests /\ Len(wire) < MaxWire
  /\ DebugWhileOpen \/ ~debugging
  /\ requests' = Append(requests, DebugRequest(t))
  /\ debugging' = TRUE
  /\ UNCHANGED <<qmpVars, target_icount, debugger, stuck, crashed, wire, tab, cursor>>

(* term.onData, and resize.                                                  *)
UiInput ==
  /\ tab /\ Len(requests) < MaxRequests
  /\ requests' = Append(requests, IoRequest)
  /\ UNCHANGED <<qmpVars, target_icount, debugger, stuck, crashed, wire, uiVars>>

(* The result of a Debug request carries no icount, which the generated      *)
(* decoder reads as 0: it moves the cursor there.                            *)
UiNotified ==
  /\ wire # <<>>
  /\ wire' = Tail(wire)
  /\ LET n == Head(wire).result IN
     /\ tab' = (n = "started" \/ (tab /\ n # "stopped"))
     /\ debugging' = (debugging /\ n \notin {"stopped", "error"})
     /\ cursor' = CASE n = "icount" -> Head(wire).icount
                    [] n \in {"ok", "error"} -> 0
                    [] OTHER -> cursor
  /\ UNCHANGED <<qmpVars, target_icount, debugger, stuck, crashed, requests>>
-----------------------------------------------------------------------------
(* QEMU, under the control of gdb once it has been started.                  *)
Attached == debugger # "null"
Qemu(Step) ==
  /\ Step
  /\ UNCHANGED <<target_icount, debugger, stuck, crashed, requests, wire, uiVars>>

Environment ==
  \/ Qemu(QemuCommand)
  \/ Qemu(QemuExecute)
  \/ Qemu(QemuReached)
  \/ Attached /\ Qemu(QemuInterrupt)
  \/ Attached /\ Qemu(QemuContinue)
  \/ Qemu(QemuEvent)
  \/ Qemu(QemuExit)

Next ==
  \/ ParseRpcRequest
  \/ QMPConnection
  \/ QMPData
  \/ QMPPoll
  \/ GdbOutput
  \/ GdbEnd
  \/ \E t \in Target : UiDebug(t)
  \/ UiInput
  \/ UiNotified
  \/ Environment

Spec == Init /\ [][Next]_vars

(* The task runner runs what is ready, QEMU replays, the browser delivers.   *)
Fairness ==
  /\ WF_vars(ParseRpcRequest) /\ WF_vars(QMPConnection) /\ WF_vars(QMPData)
  /\ WF_vars(QMPPoll) /\ WF_vars(UiNotified)
  /\ WF_vars(Qemu(QemuCommand)) /\ WF_vars(Qemu(QemuExecute))
  /\ WF_vars(Qemu(QemuReached))
FairSpec == Spec /\ Fairness
-----------------------------------------------------------------------------
(* A debugger is started only when the guest is at the count that the last   *)
(* replay was asked for: not before it, and not past it, whichever of the    *)
(* poller's queries and the one after STOP brings the count.                 *)
StartsAtTarget ==
  [][debugger # "open" /\ debugger' = "open" => vm.icount = target_icount]_vars

(* When the guest is stopped and nothing is under way, the server knows its  *)
(* count and the UI's cursor is there, or still where the result of Debug    *)
(* put it: no order of STOP, answers and polls loses the last count.         *)
CursorIsCurrent ==
  vm.state = "stopped" /\ capabilities_negotiated
    /\ received = <<>> /\ sent = <<>> /\ wire = <<>> /\ Up
  => last_icount = vm.icount /\ cursor \in {vm.icount, 0}

(* For a user who waits for one replay to end before asking for the next,    *)
(* the thread never waits for a mutex it holds, and neither input nor a      *)
(* resize reaches a null debugger_.                                          *)
StaysUp == Up

(* A request is served: the thread never waits for send_mu_ while it holds   *)
(* it.                                                                       *)
NeverStuck == ~stuck

(* A replay to a count other than the last one reported gets there and       *)
(* starts the debugger, unless QEMU ends or another replay is asked for.     *)
ReplayArrives ==
  \A t \in Target :
    (target_icount = t /\ last_icount # t)
      ~> (target_icount # t \/ vm.state = "none" \/ ~Up)

(* The same of every replay: "Debug" drops the user into a debugger.         *)
DebugStartsDebugger ==
  \A t \in Target :
    (target_icount = t) ~> (target_icount # t \/ vm.state = "none" \/ ~Up)
=============================================================================
