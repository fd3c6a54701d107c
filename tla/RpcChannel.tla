----------------------------- MODULE RpcChannel -----------------------------
(***************************************************************************)
(* The channel between pages of the UI and trace_processor --httpd: class  *)
(* EngineBase and HttpRpcEngine in the page (ui/src/trace_processor/       *)
(* engine.ts, http_rpc_engine.ts), HttpServer, Httpd and Rpc in the server *)
(* (src/base/http/http_server.cc, src/trace_processor/rpc/httpd.cc,        *)
(* rpc.cc), websockets between them.                                       *)
(*                                                                         *)
(* A page matches responses to requests by their order alone: each method  *)
(* has a queue of the requests that wait for a response.  Both ends number *)
(* their messages to notice when one is missing.  A page whose websocket   *)
(* breaks opens another and goes on; the server has one Rpc, with one      *)
(* receive buffer and one pair of counters, for all pages.                 *)
(***************************************************************************)
EXTENDS Integers, Sequences, SequencesExt

CONSTANTS
  Page,        \* pages of the UI (reloading one makes another)
  Methods,     \* the methods they call
  MaxConn,     \* websockets a page opens at most
  MaxSeq,      \* requests a page makes at most
  MaxTx,       \* numbered messages the server sends before it stops notifying
  RestLength,  \* frames of other requests that the rest of a fragmented one outweighs
  Fragments,   \* the browser sends a large request in two frames
  BreakFrom,   \* sequence number both ends are past when a network may break
  PagesClose   \* pages may be closed

Fifo   == {"APPEND_TRACE_DATA", "FINALIZE_TRACE_DATA", "RESET_TRACE_PROCESSOR",
           "RESTORE_INITIAL_TABLES", "QUERY_STREAMING", "COMPUTE_METRIC"}
Slot   == {"DISABLE_AND_READ_METATRACE", "REGISTER_SQL_PACKAGE", "DEBUG"}
Method == Fifo \cup Slot \cup {"ENABLE_METATRACE", "DEBUGGER_IO"}

ASSUME RpcAssumption ==
  /\ Methods \subseteq Method
  /\ {MaxConn, MaxSeq, MaxTx, RestLength, BreakFrom} \subseteq Nat
  /\ {Fragments, PagesClose} \subseteq BOOLEAN

Conn   == Page \X (1 .. MaxConn)
NoConn == <<>>

VARIABLES
  engine,        \* [Page -> the state of its HttpRpcEngine]
  sock,          \* [Conn -> the server's socket]
  cut,           \* [Conn -> the network, or the page, gave up the connection]
  up, down,      \* [Conn -> frames to the server, messages to the page]
  tx_seq_id, rx_seq_id,        \* of Rpc
  rxbuf,         \* of Rpc: the request it holds a part of
  current_conn,  \* of Httpd
  response_fn,   \* Rpc::rpc_response_fn_ is set
  replaying      \* a debug session notifies

vars == <<engine, sock, cut, up, down, tx_seq_id, rx_seq_id, rxbuf, current_conn,
          response_fn, replaying>>
rpcVars == <<tx_seq_id, rx_seq_id, rxbuf, current_conn, response_fn, replaying>>

(* Requests and the frames that carry them.                                  *)
Request == [page : Page, seq : 0 .. MaxSeq, request : Methods, more : {0, 1}]
Frame(r, part) == [part |-> part, req |-> r]
Empty == [part |-> "empty"]
IsFrame(f) == f = Empty \/ (f.part \in {"whole", "first", "rest"} /\ f.req \in Request)

(* Responses: the request it answers is the specification's knowledge, the   *)
(* page does not have it.  A fatal error has no number.                      *)
FatalError == [seq |-> 0, response |-> "fatal_error"]
Notification(seq) == [seq |-> seq, response |-> "DEBUG", last |-> TRUE, for |-> NoConn]
IsResponse(m) ==
  m = FatalError \/ (m.response \in Methods /\ m.seq \in Nat)

EngineOK(e) ==
  /\ e.txSeqId \in 0 .. MaxSeq /\ e.rxSeqId \in Nat
  /\ e.websocket \in 0 .. MaxConn
  /\ {e.connected, e.failed, e.disposed} \subseteq BOOLEAN
  /\ \A i \in DOMAIN e.requestQueue : IsFrame(e.requestQueue[i])
  /\ \A m \in Methods : e.pending[m] \in Seq(Request)
  /\ e.numRequestsPending \in Int

(* The type of every variable of the pages, the sockets and the server.      *)
TypeOK ==
  /\ \A p \in Page : EngineOK(engine[p])
  /\ sock \in [Conn -> {"none", "open", "shut", "gone"}]
  /\ cut \in [Conn -> BOOLEAN]
  /\ \A c \in Conn : /\ \A i \in DOMAIN up[c] : IsFrame(up[c][i])
                     /\ \A i \in DOMAIN down[c] : IsResponse(down[c][i])
  /\ tx_seq_id \in Nat /\ rx_seq_id \in 0 .. MaxSeq
  /\ rxbuf.state \in {"empty", "partial", "failed"}
  /\ current_conn \in Conn \cup {NoConn}
  /\ {response_fn, replaying} \subseteq BOOLEAN

NewEngine ==
  [txSeqId |-> 0, rxSeqId |-> 0, websocket |-> 0, connected |-> FALSE,
   requestQueue |-> <<>>, pending |-> [m \in Methods |-> <<>>],
   numRequestsPending |-> 0, failed |-> FALSE, disposed |-> FALSE]

EmptyBuf == [state |-> "empty"]

(* Httpd does not initialise current_conn_: it equals no connection.         *)
Init ==
  /\ engine = [p \in Page |-> NewEngine]
  /\ sock = [c \in Conn |-> "none"] /\ cut = [c \in Conn |-> FALSE]
  /\ up = [c \in Conn |-> <<>>] /\ down = [c \in Conn |-> <<>>]
  /\ tx_seq_id = 0 /\ rx_seq_id = 0 /\ rxbuf = EmptyBuf
  /\ current_conn = NoConn /\ response_fn = FALSE /\ replaying = FALSE

Websocket(p) == <<p, engine[p].websocket>>
-----------------------------------------------------------------------------
(* The page.                                                                 *)
FramesFirstOnly(r) ==  \* mutant: the rest of a large request is not sent
  IF Fragments /\ r.request = "APPEND_TRACE_DATA"
  THEN <<Frame(r, "first")>> ELSE <<Frame(r, "whole")>>
Frames(r) ==
  IF Fragments /\ r.request = "APPEND_TRACE_DATA"
  THEN <<Frame(r, "first"), Frame(r, "rest")>> ELSE <<Frame(r, "whole")>>

(* A method of EngineBase: the request joins the queue of its method, or     *)
(* takes its slot.  A metatrace or a package under way has the call rejected;*)
(* a Debug under way is forgotten.                                           *)
Enqueue(pending, r) ==
  CASE r.request \in Fifo -> [pending EXCEPT ![r.request] = Append(@, r)]
    [] r.request \in Slot -> [pending EXCEPT ![r.request] = <<r>>]
    [] OTHER -> pending

Send(p, m) ==
  LET e == engine[p]
      c == Websocket(p)
  IN
  /\ ~e.disposed /\ e.txSeqId < MaxSeq
  /\ m \in Slot \ {"DEBUG"} => e.pending[m] = <<>>
  /\ \E more \in (IF m = "QUERY_STREAMING" THEN {0, 1} ELSE {0}) :
       LET r == [page |-> p, seq |-> e.txSeqId, request |-> m, more |-> more] IN
       /\ engine' = [engine EXCEPT ![p].txSeqId = @ + 1,
                                   ![p].numRequestsPending = @ + 1,
                                   ![p].pending = Enqueue(@, r),
                                   ![p].websocket = IF @ = 0 THEN 1 ELSE @,
                                   ![p].requestQueue = IF e.connected THEN @
                                                       ELSE @ \o Frames(r)]
       /\ up' = IF e.connected /\ sock[c] = "open" /\ ~cut[c]
                THEN [up EXCEPT ![c] = @ \o Frames(r)] ELSE up
  /\ UNCHANGED <<sock, cut, down, rpcVars>>

OnWebsocketConnected(p) ==
  /\ engine[p].websocket # 0 /\ sock[Websocket(p)] = "none"
  /\ sock' = [sock EXCEPT ![Websocket(p)] = "open"]
  /\ up' = [up EXCEPT ![Websocket(p)] = engine[p].requestQueue]
  /\ engine' = [engine EXCEPT ![p].connected = TRUE, ![p].requestQueue = <<>>]
  /\ UNCHANGED <<cut, down, rpcVars>>

(* The network may break.  BreakFrom tells apart a channel that is past its  *)
(* first messages from one that is not.                                      *)
MayBreak(p) == engine[p].rxSeqId >= BreakFrom /\ rx_seq_id >= BreakFrom

(* onerror, then onWebsocketClosed of a websocket that never connected.      *)
ConnectionFailed(p) ==
  /\ MayBreak(p)
  /\ engine[p].websocket # 0 /\ sock[Websocket(p)] = "none"
  /\ sock' = [sock EXCEPT ![Websocket(p)] = "gone"]
  /\ engine' = [engine EXCEPT ![p].failed = TRUE]
  /\ UNCHANGED <<cut, up, down, rpcVars>>

Break(c) ==
  /\ MayBreak(c[1]) /\ c[2] < MaxConn
  /\ sock[c] = "open" /\ ~cut[c]
  /\ cut' = [cut EXCEPT ![c] = TRUE]
  /\ down' = [down EXCEPT ![c] = <<>>]
  /\ UNCHANGED <<engine, sock, up, rpcVars>>

(* onWebsocketClosed: no end ever sends a close frame before it gives up a   *)
(* connection that works, so the code is 1006 and the page reconnects.       *)
OnWebsocketClosed(p) ==
  LET c == Websocket(p) IN
  /\ engine[p].connected /\ ~engine[p].disposed /\ c[2] < MaxConn
  /\ cut[c] \/ sock[c] \in {"shut", "gone"}
  /\ engine' = [engine EXCEPT ![p].websocket = @ + 1, ![p].connected = FALSE,
                              ![p].requestQueue = <<Empty>>]
  /\ down' = [down EXCEPT ![c] = <<>>]
  /\ UNCHANGED <<sock, cut, up, rpcVars>>

Dispose(p) ==
  LET c == Websocket(p) IN
  /\ PagesClose /\ engine[p].websocket # 0 /\ ~engine[p].disposed
  /\ engine' = [engine EXCEPT ![p].disposed = TRUE, ![p].connected = FALSE]
  /\ sock' = [sock EXCEPT ![c] = IF @ = "none" THEN "gone" ELSE @]
  /\ cut' = [cut EXCEPT ![c] = TRUE]
  /\ down' = [down EXCEPT ![c] = <<>>]
  /\ UNCHANGED <<up, rpcVars>>

(* What a response does to the page, or nothing if there is no request for   *)
(* it: assertExists throws.                                                  *)
SettleCountsBatches(e, m) ==  \* mutant: every batch counts as a response
  LET q == e.pending[m.response] IN
  IF m.response \in Fifo \cup Slot /\ q = <<>> THEN e
  ELSE IF m.response \in Fifo \cup {"DISABLE_AND_READ_METATRACE"} /\ m.last
  THEN [e EXCEPT !.pending[m.response] = Tail(@), !.numRequestsPending = @ - 1]
  ELSE [e EXCEPT !.numRequestsPending = @ - 1]
Settle(e, m) ==
  LET q == e.pending[m.response] IN
  IF m.response \in Fifo \cup Slot /\ q = <<>> THEN e
  ELSE IF ~m.last THEN e
  ELSE IF m.response \in Fifo \cup {"DISABLE_AND_READ_METATRACE"}
  THEN [e EXCEPT !.pending[m.response] = Tail(@), !.numRequestsPending = @ - 1]
  ELSE [e EXCEPT !.numRequestsPending = @ - 1]

SequenceBrokenNever(e, m) ==  \* mutant: responses are not checked
  FALSE
(* "Allow restarting sequences from zero".                                   *)
SequenceBroken(e, m) ==
  m.seq # e.rxSeqId + 1 /\ e.rxSeqId # 0 /\ m.seq # 0

(* onRpcResponseMessage: fail() throws, before anything else is done.        *)
OnRpcResponseMessage(p) ==
  LET c == Websocket(p)
      e == engine[p]
      m == Head(down[c])
  IN
  /\ e.connected /\ down[c] # <<>>
  /\ down' = [down EXCEPT ![c] = Tail(@)]
  /\ engine' = [engine EXCEPT ![p] =
       IF m = FatalError \/ SequenceBroken(e, m) THEN [e EXCEPT !.failed = TRUE]
       ELSE Settle([e EXCEPT !.rxSeqId = m.seq], m)]
  /\ UNCHANGED <<sock, cut, up, rpcVars>>
-----------------------------------------------------------------------------
(* The server.  A batch of frames is handled with the state st: of Rpc, of   *)
(* Httpd, the messages sent to the connection, and whether it was shut.      *)
SendFatal(st) ==
  IF st.shut THEN st
  ELSE [st EXCEPT !.out = Append(@, FatalError), !.shut = TRUE]

Responses(r, tx) ==
  [i \in 1 .. (IF r.request = "DEBUGGER_IO" THEN 0 ELSE r.more + 1) |->
     [seq |-> tx + i - 1, response |-> r.request, last |-> i = r.more + 1, for |-> r]]

(* Rpc::ParseRpcRequest.                                                     *)
ParseRpcRequest(st, r) ==
  IF r.seq # 0 /\ st.rx # 0 /\ r.seq # st.rx + 1 THEN SendFatal(st)
  ELSE LET rs == Responses(r, st.tx)
       IN [st EXCEPT !.rx = r.seq, !.tx = @ + Len(rs),
                     !.out = IF st.shut THEN @ ELSE @ \o rs,
                     !.replaying = @ \/ r.request = "DEBUG"]

(* Rpc::OnRpcRequest, with the receive buffer: what follows the first part   *)
(* of a request is taken for the rest of it, whoever sent it, and when that  *)
(* is complete the bytes left over are no message.                           *)
OnRpcRequest(st, f) ==
  LET buf  == st.rxbuf
      size == IF f.part = "rest" THEN RestLength ELSE 1
  IN IF buf.state = "failed" THEN SendFatal(st)
     ELSE IF f.part = "empty" THEN st
     ELSE IF buf.state = "empty" /\ f.part = "first"
     THEN [st EXCEPT !.rxbuf = [state |-> "partial", req |-> f.req, need |-> RestLength]]
     ELSE IF buf.state = "empty" THEN ParseRpcRequest(st, f.req)
     ELSE IF f.part = "rest" /\ f.req = buf.req /\ buf.need = RestLength
     THEN ParseRpcRequest([st EXCEPT !.rxbuf = EmptyBuf], f.req)
     ELSE IF buf.need > size THEN [st EXCEPT !.rxbuf.need = @ - size]
     ELSE SendFatal(ParseRpcRequest([st EXCEPT !.rxbuf = [state |-> "failed"]], buf.req))

(* HttpServer::OnDataAvailable: frames are parsed even after the connection  *)
(* was closed by one of them.  Httpd::OnWebsocketMessage makes the           *)
(* connection the one that responses and notifications go to.                *)
OnDataAvailable(c) ==
  /\ sock[c] = "open"
  /\ \E n \in 1 .. Len(up[c]) :
       LET st == FoldLeft(OnRpcRequest,
                   [tx |-> tx_seq_id, rx |-> rx_seq_id, rxbuf |-> rxbuf,
                    replaying |-> replaying, out |-> <<>>, shut |-> FALSE],
                   SubSeq(up[c], 1, n))
       IN /\ tx_seq_id' = st.tx /\ rx_seq_id' = st.rx
          /\ rxbuf' = st.rxbuf /\ replaying' = st.replaying
          /\ sock' = [sock EXCEPT ![c] = IF st.shut THEN "shut" ELSE @]
          /\ up' = [up EXCEPT ![c] = IF st.shut THEN <<>> ELSE SubSeq(@, n + 1, Len(@))]
          /\ down' = [down EXCEPT ![c] = IF cut[c] THEN @ ELSE @ \o st.out]
  /\ current_conn' = c /\ response_fn' = TRUE
  /\ UNCHANGED <<engine, cut>>

(* HttpServer::OnDisconnect and Httpd::OnHttpConnectionClosed.               *)
OnDisconnect(c) ==
  /\ sock[c] = "shut" \/ (sock[c] = "open" /\ cut[c])
  /\ sock' = [sock EXCEPT ![c] = "gone"]
  /\ up' = [up EXCEPT ![c] = <<>>]
  /\ current_conn' = IF current_conn = c THEN NoConn ELSE current_conn
  /\ response_fn' = (response_fn /\ current_conn # c)
  /\ UNCHANGED <<engine, cut, down, tx_seq_id, rx_seq_id, rxbuf, replaying>>

(* A callback Rpc gave Qemu, e.g. of a new icount.                           *)
Notify ==
  /\ replaying /\ response_fn /\ tx_seq_id < MaxTx
  /\ tx_seq_id' = tx_seq_id + 1
  /\ down' = IF sock[current_conn] = "open" /\ ~cut[current_conn]
             THEN [down EXCEPT ![current_conn] = Append(@, Notification(tx_seq_id))]
             ELSE down
  /\ UNCHANGED <<engine, sock, cut, up, rx_seq_id, rxbuf, current_conn, response_fn,
                 replaying>>
-----------------------------------------------------------------------------
Next ==
  \/ \E p \in Page :
       \/ \E m \in Methods : Send(p, m)
       \/ OnWebsocketConnected(p)
       \/ ConnectionFailed(p)
       \/ OnWebsocketClosed(p)
       \/ OnRpcResponseMessage(p)
       \/ Dispose(p)
  \/ \E c \in Conn : Break(c) \/ OnDataAvailable(c) \/ OnDisconnect(c)
  \/ Notify

Spec == Init /\ [][Next]_vars

(* The server's task runner and the browser's event loop run what is ready.  *)
Fairness ==
  /\ \A p \in Page : /\ WF_vars(OnWebsocketConnected(p)) /\ WF_vars(OnWebsocketClosed(p))
                     /\ WF_vars(OnRpcResponseMessage(p))
  /\ \A c \in Conn : WF_vars(OnDataAvailable(c)) /\ WF_vars(OnDisconnect(c))
FairSpec == Spec /\ Fairness
-----------------------------------------------------------------------------
(* A page never takes the response to one request for the response to        *)
(* another, although nothing but its place in the stream tells them apart:   *)
(* what settles the first request of a queue, or adds a batch to it, answers *)
(* that request.                                                             *)
ResponsesMatch ==
  \A p \in Page :
    LET c == Websocket(p)
        m == Head(down[c])
    IN engine[p].connected /\ down[c] # <<>> /\ m # FatalError =>
         \/ m.response \notin Fifo \/ SequenceBroken(engine[p], m)
         \/ engine[p].pending[m.response] = <<>>
         \/ Head(engine[p].pending[m.response]) = m.for

(* The first websocket of a page broke, with what was on its way.            *)
Broke(p) == engine[p].websocket > 1 \/ cut[<<p, 1>>]

(* A page whose engine counts no request as pending waits for no response:   *)
(* what the idle detector takes for quiescence is quiescence, until messages *)
(* are lost, or a debug session notifies without having been asked.          *)
IdleMeansQuiescent ==
  \A p \in Page : engine[p].numRequestsPending = 0 /\ ~replaying /\ ~Broke(p)
    => \A m \in Methods \cap Fifo : engine[p].pending[m] = <<>>

(* The server's receive buffer holds requests as they were sent: refreshing  *)
(* the browser, or a second page, never breaks its framing.                  *)
FramingIntact == rxbuf.state # "failed"

(* A request is answered in the end, unless the page fails or is closed, or  *)
(* its websocket breaks: what was lost with it is not sent again.            *)
RequestsAnswered ==
  \A p \in Page : \A m \in Methods \cap Fifo : \A n \in 0 .. MaxSeq :
    LET e == engine[p]
        waits == \E i \in DOMAIN e.pending[m] : e.pending[m][i].seq = n
    IN waits ~> (~waits \/ e.failed \/ e.disposed \/ Broke(p))
=============================================================================
