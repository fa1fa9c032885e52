--------------------------- MODULE SlimFaasClient ---------------------------
(***************************************************************************)
(* The SlimFaas WebSocket client (slimfaas_client/_client.py): one asyncio *)
(* event loop running                                                      *)
(*   - the main task of run_forever / _connect_and_loop / _register,       *)
(*   - one dispatch task per received AsyncRequest (_dispatch_async_request)*)
(*   - the keepalive task _ping_loop of the current connection,            *)
(*   - the embedding application, which registers the handler, calls       *)
(*     close() and, for requests its handler answered with 202, calls      *)
(*     send_callback() later,                                              *)
(* against a SlimFaas server that answers the registration, pushes frames  *)
(* and may close a connection, cleanly or not, at any moment.              *)
(*                                                                         *)
(* asyncio is single threaded: a task only yields at an await that really  *)
(* suspends, so each action below is the code between two such awaits.     *)
(* Connections are numbered 1, 2, ... in the order websockets.connect()    *)
(* returns them; 0 stands for None.                                        *)
(***************************************************************************)
EXTENDS Naturals, Sequences, FiniteSets

CONSTANTS
  Elements,     \* element ids the server may deliver as AsyncRequests
  NoElem,       \* the element field of frames that carry none
  ReturnCodes,  \* status codes the request handler may return (202 included)
  ManualCodes,  \* status codes the application passes to send_callback
  Noise,        \* other frame kinds the server may push: "Evt", "Pong", "BadJson", "BadShape"
  MaxConn,      \* bound: connections websockets.connect() may return
  MaxPings,     \* bound: Ping frames sent on one connection
  PingEnabled   \* ping_interval > 0

ASSUME ConstAssumption ==
  /\ NoElem \notin Elements
  /\ ReturnCodes \subseteq Nat /\ ManualCodes \subseteq Nat
  /\ Noise \subseteq {"Evt", "Pong", "BadJson", "BadShape"}
  /\ MaxConn \in Nat \ {0}
  /\ MaxPings \in Nat
  /\ PingEnabled \in BOOLEAN

Conns == 1..MaxConn

(* Inbound frames, after json.loads: only the fields the client branches on. *)
Msg(k) == [kind |-> k, elem |-> NoElem]
ReqMsg(e) == [kind |-> "Req", elem |-> e]
InMsg == {Msg(k) : k \in {"RegOk", "RegFail"} \cup Noise} \cup {ReqMsg(e) : e \in Elements}

(* Outbound frames. from (the connection the answered request arrived on), *)
(* auto (sent by the dispatch task rather than by send_callback) and reg   *)
(* (the client had received RegisterResponse success on this connection    *)
(* when it sent the frame) are history fields read only by properties.     *)
OutFrame == [type : {"Register", "Callback", "Ping"}, elem : Elements \cup {NoElem},
             status : Nat, auto : BOOLEAN, from : 0..MaxConn, reg : BOOLEAN]
Ctl(t) == [type |-> t, elem |-> NoElem, status |-> 0, auto |-> FALSE, from |-> 0, reg |-> FALSE]

LinkState == {"none", "open", "closedOk", "closedErr"}
Phases == {"Idle", "Connecting", "AwaitResponse", "Active", "Sleeping", "Stopped", "Rejected"}
TaskPc == {"none", "created", "handler", "send", "done"}

VARIABLES
  running,       \* self._running
  closeCalled,   \* close() has been called (the application calls it once)
  phase,         \* where the main task is suspended
  nconn,         \* connections opened so far; the main task's ws is nconn
  ws,            \* self._ws
  connection_id, \* self._connection_id: the connection whose RegisterResponse set it, 0 = None
  registered,    \* connections on which RegisterResponse success was received (history)
  handlerSet,    \* self._async_request_handler is not None
  links,         \* transport state of each connection
  inbox,         \* frames the server sent on a connection, not yet read by the client
  served,        \* frames the server has sent on a connection (it sends each at most once)
  outbox,        \* frames the client sent on a connection, in order
  task,          \* dispatch task of the AsyncRequest for element e received on connection c
  owed,          \* <<c, e>> whose handler returned 202: the application owes send_callback
  pingTask       \* connection of the live _ping_loop task, 0 = none

vars == <<running, closeCalled, phase, nconn, ws, connection_id, registered, handlerSet,
          links, inbox, served, outbox, task, owed, pingTask>>

TypeOK ==
  /\ running \in BOOLEAN /\ closeCalled \in BOOLEAN /\ handlerSet \in BOOLEAN
  /\ phase \in Phases
  /\ nconn \in 0..MaxConn /\ ws \in 0..MaxConn /\ connection_id \in 0..MaxConn
  /\ pingTask \in 0..MaxConn
  /\ registered \subseteq Conns
  /\ links \in [Conns -> LinkState]
  /\ inbox \in [Conns -> Seq(InMsg)]
  /\ served \in [Conns -> SUBSET InMsg]
  /\ outbox \in [Conns -> Seq(OutFrame)]
  /\ task \in [Conns -> [Elements -> [pc : TaskPc, status : Nat]]]
  /\ owed \subseteq Conns \X Elements

Init ==
  /\ running = FALSE /\ closeCalled = FALSE /\ handlerSet = FALSE
  /\ phase = "Idle"
  /\ nconn = 0 /\ ws = 0 /\ connection_id = 0 /\ pingTask = 0
  /\ registered = {}
  /\ links = [c \in Conns |-> "none"]
  /\ inbox = [c \in Conns |-> << >>]
  /\ served = [c \in Conns |-> {}]
  /\ outbox = [c \in Conns |-> << >>]
  /\ task = [c \in Conns |-> [e \in Elements |-> [pc |-> "none", status |-> 0]]]
  /\ owed = {}

-----------------------------------------------------------------------------
(* Helpers *)

(* Mutant: ws.close() / leaving `async with` does not close the transport. *)
CloseLinkKeepsOpen(c) == UNCHANGED links

(* Leaving `async with websockets.connect(...)` closes the transport. *)
CloseLink(c) == links' = [links EXCEPT ![c] = IF @ = "open" THEN "closedOk" ELSE @]

(* The `except Exception` branch of run_forever: stop if close() was called, else back off. *)
AfterError == IF running THEN "Sleeping" ELSE "Stopped"

(* Back at `while self._running` after _connect_and_loop returned normally. *)
AfterReturn == IF running THEN "Connecting" ELSE "Stopped"

(* ws.send(): appends the frame if the transport is open; raises otherwise. *)
SendOn(c, f) == outbox' = [outbox EXCEPT ![c] = IF links[c] = "open" THEN Append(@, f) ELSE @]

CbFrame(e, s, isAuto, from, c) ==
  [type |-> "Callback", elem |-> e, status |-> s, auto |-> isAuto, from |-> from,
   reg |-> c \in registered]

IsPing(f) == f.type = "Ping"

Pop(c) == inbox' = [inbox EXCEPT ![c] = Tail(@)]

SetTask(c, e, pc, s) == task' = [task EXCEPT ![c][e] = [pc |-> pc, status |-> s]]

-----------------------------------------------------------------------------
(* The application *)

(* on_async_request(handler) *)
OnAsyncRequest ==
  /\ ~handlerSet
  /\ handlerSet' = TRUE
  /\ UNCHANGED <<running, closeCalled, phase, nconn, ws, connection_id, registered,
                 links, inbox, served, outbox, task, owed, pingTask>>

(* run_forever(): sets _running and enters the while loop. *)
RunForever ==
  /\ phase = "Idle"
  /\ running' = TRUE
  /\ phase' = "Connecting"
  /\ UNCHANGED <<closeCalled, nconn, ws, connection_id, registered, handlerSet,
                 links, inbox, served, outbox, task, owed, pingTask>>

(* close(): clears _running and closes self._ws if it is set. *)
Close ==
  /\ ~closeCalled
  /\ closeCalled' = TRUE
  /\ running' = FALSE
  /\ IF ws # 0 THEN CloseLink(ws) ELSE UNCHANGED links
  /\ UNCHANGED <<phase, nconn, ws, connection_id, registered, handlerSet,
                 inbox, served, outbox, task, owed, pingTask>>

(* send_callback(element_id, status_code) for a request answered 202:      *)
(* raises if self._ws is None, else sends on whatever self._ws is now.     *)
SendCallback(c, e, s) ==
  /\ <<c, e>> \in owed
  /\ owed' = owed \ {<<c, e>>}
  /\ IF ws # 0 THEN SendOn(ws, CbFrame(e, s, FALSE, c, ws)) ELSE UNCHANGED outbox
  /\ UNCHANGED <<running, closeCalled, phase, nconn, ws, connection_id, registered,
                 handlerSet, links, inbox, served, task, pingTask>>

-----------------------------------------------------------------------------
(* The main task: run_forever / _connect_and_loop / _register *)

(* websockets.connect() returns; self._ws = ws; _register sends Register. *)
Connect ==
  /\ phase = "Connecting"
  /\ nconn < MaxConn
  /\ LET c == nconn + 1 IN
       /\ nconn' = c
       /\ ws' = c
       /\ links' = [links EXCEPT ![c] = "open"]
       /\ outbox' = [outbox EXCEPT ![c] = << Ctl("Register") >>]
  /\ phase' = "AwaitResponse"
  /\ UNCHANGED <<running, closeCalled, connection_id, registered, handlerSet,
                 inbox, served, task, owed, pingTask>>

(* websockets.connect() raises. *)
ConnectFail ==
  /\ phase = "Connecting"
  /\ phase' = AfterError
  /\ UNCHANGED <<running, closeCalled, nconn, ws, connection_id, registered, handlerSet,
                 links, inbox, served, outbox, task, owed, pingTask>>

(* One iteration of `async for raw in ws` in _register, by the kind of the *)
(* frame read. The exceptions leave _connect_and_loop before its           *)
(* try/finally, so self._ws is not reset on those paths.                   *)
RegRead(k) ==
  /\ phase = "AwaitResponse"
  /\ inbox[nconn] # << >>
  /\ Head(inbox[nconn]).kind \in k
  /\ Pop(nconn)

RegVars == <<running, closeCalled, nconn, ws, handlerSet, served, outbox, task, owed>>

(* RegisterResponse success: _connection_id is set, the ping task starts. *)
RegisterOk ==
  /\ RegRead({"RegOk"})
  /\ connection_id' = nconn
  /\ registered' = registered \cup {nconn}
  /\ pingTask' = IF PingEnabled THEN nconn ELSE 0
  /\ phase' = "Active"
  /\ UNCHANGED links /\ UNCHANGED RegVars

(* RegisterResponse failure: SlimFaasRegistrationError; run_forever breaks. *)
RegisterRejected ==
  /\ RegRead({"RegFail"})
  /\ CloseLink(nconn)
  /\ phase' = "Rejected"
  /\ UNCHANGED <<connection_id, registered, pingTask>> /\ UNCHANGED RegVars

(* json.loads raises: the attempt fails with an ordinary exception. *)
RegisterBadJson ==
  /\ RegRead({"BadJson"})
  /\ CloseLink(nconn)
  /\ phase' = AfterError
  /\ UNCHANGED <<connection_id, registered, pingTask>> /\ UNCHANGED RegVars

(* Any other frame is ignored while waiting for the RegisterResponse. *)
RegisterIgnore ==
  /\ RegRead({"Req", "Evt", "Pong", "BadShape"})
  /\ UNCHANGED <<phase, connection_id, registered, pingTask, links>> /\ UNCHANGED RegVars

(* The transport is closed and drained while _register waits. A clean close *)
(* ends the loop: _register returns without a RegisterResponse, the receive  *)
(* loop ends at once and its finally resets self._ws. An error close raises  *)
(* out of _register, leaving self._ws set.                                  *)
RegisterStreamEnds ==
  /\ phase = "AwaitResponse"
  /\ inbox[nconn] = << >>
  /\ links[nconn] \in {"closedOk", "closedErr"}
  /\ IF links[nconn] = "closedOk"
       THEN ws' = 0 /\ phase' = AfterReturn
       ELSE UNCHANGED ws /\ phase' = AfterError
  /\ UNCHANGED <<running, closeCalled, nconn, connection_id, registered, handlerSet,
                 links, inbox, served, outbox, task, owed, pingTask>>

(* Mutant: the transport is not closed when the receive loop ends. *)
LeaveActiveKeepsLink(c) ==
  /\ pingTask' = 0
  /\ ws' = 0
  /\ UNCHANGED links

(* The finally of _connect_and_loop, then leaving `async with`. *)
LeaveActive(c) ==
  /\ pingTask' = 0
  /\ ws' = 0
  /\ CloseLink(c)

(* One iteration of the receive loop, _handle_message, by the kind of the *)
(* frame read.                                                           *)
ActRead(k) ==
  /\ phase = "Active"
  /\ inbox[nconn] # << >>
  /\ Head(inbox[nconn]).kind \in k
  /\ Pop(nconn)

ActVars == <<running, closeCalled, nconn, connection_id, registered, handlerSet,
             served, outbox, owed>>

(* An AsyncRequest: asyncio.create_task(_dispatch_async_request(ws, req)). *)
ActiveRequest ==
  /\ ActRead({"Req"})
  /\ SetTask(nconn, Head(inbox[nconn]).elem, "created", 0)
  /\ UNCHANGED <<phase, ws, links, pingTask>> /\ UNCHANGED ActVars

(* A frame missing a required field: from_payload raises KeyError out of   *)
(* the receive loop.                                                       *)
ActiveBadShape ==
  /\ ActRead({"BadShape"})
  /\ LeaveActive(nconn)
  /\ phase' = AfterError
  /\ UNCHANGED task /\ UNCHANGED ActVars

(* Invalid JSON is dropped; a PublishEvent starts an event task, which     *)
(* sends nothing; Pong and late RegisterResponses are logged.              *)
ActiveIgnore ==
  /\ ActRead({"BadJson", "Evt", "Pong", "RegOk", "RegFail"})
  /\ UNCHANGED <<phase, ws, links, pingTask, task>> /\ UNCHANGED ActVars

(* Mutant: a normal close is taken for a transient recv error and the loop *)
(* waits on the closed transport again.                                    *)
ActiveStreamEndsRetryRecv ==
  /\ phase = "Active"
  /\ inbox[nconn] = << >>
  /\ links[nconn] \in {"closedOk", "closedErr"}
  /\ IF links[nconn] = "closedOk"
       THEN UNCHANGED vars
       ELSE /\ LeaveActive(nconn)
            /\ phase' = AfterError
            /\ UNCHANGED <<running, closeCalled, nconn, connection_id, registered, handlerSet,
                           inbox, served, outbox, task, owed>>

(* The transport is closed and drained: the receive loop ends, cleanly or by *)
(* ConnectionClosedError.                                                    *)
ActiveStreamEnds ==
  /\ phase = "Active"
  /\ inbox[nconn] = << >>
  /\ links[nconn] \in {"closedOk", "closedErr"}
  /\ LeaveActive(nconn)
  /\ phase' = IF links[nconn] = "closedOk" THEN AfterReturn ELSE AfterError
  /\ UNCHANGED <<running, closeCalled, nconn, connection_id, registered, handlerSet,
                 inbox, served, outbox, task, owed>>

(* asyncio.sleep(reconnect_delay) returns; the while condition is re-read. *)
Wake ==
  /\ phase = "Sleeping"
  /\ phase' = AfterReturn
  /\ UNCHANGED <<running, closeCalled, nconn, ws, connection_id, registered, handlerSet,
                 links, inbox, served, outbox, task, owed, pingTask>>

-----------------------------------------------------------------------------
(* Dispatch tasks: _dispatch_async_request(ws, req), ws captured at creation *)

TaskVars == <<running, closeCalled, phase, nconn, ws, connection_id, registered,
              handlerSet, links, inbox, served, pingTask>>

(* Mutant: with no handler the task returns without answering. *)
TaskStartSilent(c, e) ==
  /\ task[c][e].pc = "created"
  /\ IF handlerSet THEN SetTask(c, e, "handler", 0) ELSE SetTask(c, e, "done", 500)
  /\ UNCHANGED <<outbox, owed>> /\ UNCHANGED TaskVars

(* The task starts: no handler means status 500 straight away. *)
TaskStart(c, e) ==
  /\ task[c][e].pc = "created"
  /\ IF handlerSet THEN SetTask(c, e, "handler", 0) ELSE SetTask(c, e, "send", 500)
  /\ UNCHANGED <<outbox, owed>> /\ UNCHANGED TaskVars

(* The handler returns s; 202 means the application will call send_callback. *)
HandlerReturns(c, e, s) ==
  /\ task[c][e].pc = "handler"
  /\ IF s = 202
       THEN SetTask(c, e, "done", s) /\ owed' = owed \cup {<<c, e>>}
       ELSE SetTask(c, e, "send", s) /\ UNCHANGED owed
  /\ UNCHANGED outbox /\ UNCHANGED TaskVars

(* Mutant: the exception is logged and swallowed; no callback is sent. *)
HandlerRaisesSilent(c, e) ==
  /\ task[c][e].pc = "handler"
  /\ SetTask(c, e, "done", 500)
  /\ UNCHANGED <<outbox, owed>> /\ UNCHANGED TaskVars

(* The handler raises: status 500. *)
HandlerRaises(c, e) ==
  /\ task[c][e].pc = "handler"
  /\ SetTask(c, e, "send", 500)
  /\ UNCHANGED <<outbox, owed>> /\ UNCHANGED TaskVars

(* Mutant: the callback goes out on self._ws instead of the captured ws. *)
TaskSendCurrentWs(c, e) ==
  /\ task[c][e].pc = "send"
  /\ IF ws # 0 THEN SendOn(ws, CbFrame(e, task[c][e].status, TRUE, c, ws)) ELSE UNCHANGED outbox
  /\ task' = [task EXCEPT ![c][e].pc = "done"]
  /\ UNCHANGED owed /\ UNCHANGED TaskVars

(* _send_callback(ws, ...) on the captured connection; on a closed one the *)
(* send raises and the exception ends the task.                           *)
TaskSend(c, e) ==
  /\ task[c][e].pc = "send"
  /\ SendOn(c, CbFrame(e, task[c][e].status, TRUE, c, c))
  /\ task' = [task EXCEPT ![c][e].pc = "done"]
  /\ UNCHANGED owed /\ UNCHANGED TaskVars

(* _ping_loop(ws): after the interval, send Ping; a failed send ends it. *)
PingLoop ==
  /\ pingTask # 0
  /\ Len(SelectSeq(outbox[pingTask], IsPing)) < MaxPings
  /\ IF links[pingTask] = "open"
       THEN SendOn(pingTask, Ctl("Ping")) /\ UNCHANGED pingTask
       ELSE pingTask' = 0 /\ UNCHANGED outbox
  /\ UNCHANGED <<running, closeCalled, phase, nconn, ws, connection_id, registered,
                 handlerSet, links, inbox, served, task, owed>>

-----------------------------------------------------------------------------
(* The server and the network *)

SrvVars == <<running, closeCalled, phase, nconn, ws, connection_id, registered,
             handlerSet, outbox, task, owed, pingTask>>

ServerPush(c, m) ==
  /\ links[c] = "open"
  /\ m \notin served[c]
  /\ inbox' = [inbox EXCEPT ![c] = Append(@, m)]
  /\ served' = [served EXCEPT ![c] = @ \cup {m}]
  /\ UNCHANGED links /\ UNCHANGED SrvVars

(* The server answers the Register frame, once per connection. *)
ServerRespond(c) ==
  /\ \E k \in {"RegOk", "RegFail"} :
       /\ {Msg("RegOk"), Msg("RegFail")} \cap served[c] = {}
       /\ ServerPush(c, Msg(k))

(* AsyncRequests and events go to registered connections only; a Pong or a  *)
(* frame the client cannot decode may arrive at any time.                   *)
ServerSend(c) ==
  \E m \in {ReqMsg(e) : e \in Elements} \cup {Msg(k) : k \in Noise} :
    /\ m.kind \in {"Req", "Evt"} => Msg("RegOk") \in served[c]
    /\ ServerPush(c, m)

(* The server or the network closes the connection, cleanly or not. *)
ServerClose(c) ==
  /\ links[c] = "open"
  /\ \E k \in {"closedOk", "closedErr"} : links' = [links EXCEPT ![c] = k]
  /\ UNCHANGED <<inbox, served>> /\ UNCHANGED SrvVars

-----------------------------------------------------------------------------

Terminal == phase \in {"Stopped", "Rejected"}

(* run_forever has returned and nothing is left to run: the program ends. *)
Done ==
  /\ Terminal
  /\ \A c \in Conns, e \in Elements : task[c][e].pc \in {"none", "done"}
  /\ UNCHANGED vars

MainTask == RunForever \/ Connect \/ ConnectFail
            \/ RegisterOk \/ RegisterRejected \/ RegisterBadJson \/ RegisterIgnore
            \/ RegisterStreamEnds
            \/ ActiveRequest \/ ActiveBadShape \/ ActiveIgnore \/ ActiveStreamEnds \/ Wake

Dispatch(c, e) == TaskStart(c, e) \/ (\E s \in ReturnCodes : HandlerReturns(c, e, s))
                  \/ HandlerRaises(c, e) \/ TaskSend(c, e)

Application == OnAsyncRequest \/ Close
               \/ \E c \in Conns, e \in Elements, s \in ManualCodes : SendCallback(c, e, s)

Server == \E c \in Conns : ServerRespond(c) \/ ServerSend(c) \/ ServerClose(c)

Next ==
  \/ MainTask
  \/ \E c \in Conns, e \in Elements : Dispatch(c, e)
  \/ PingLoop
  \/ Application
  \/ Server
  \/ Done

(* asyncio runs every ready task: the main task and the dispatch tasks get  *)
(* to their next await; handlers are assumed to return. The server and the  *)
(* application get no fairness.                                             *)
Fairness ==
  /\ WF_vars(MainTask)
  /\ \A c \in Conns, e \in Elements : WF_vars(Dispatch(c, e))

Spec == Init /\ [][Next]_vars /\ Fairness

-----------------------------------------------------------------------------
(* Properties *)

IsOpen(c) == links[c] = "open"

AutoCallbacks(c, e) ==
  {i \in DOMAIN outbox[c] : outbox[c][i].type = "Callback" /\ outbox[c][i].auto
                             /\ outbox[c][i].elem = e}

(* The client never holds two transports open at once (spec section 5): every  *)
(* way out of _connect_and_loop -- rejection, bad JSON or a clean close during *)
(* _register, a malformed frame or a closed stream in the receive loop --      *)
(* closes the connection before run_forever reconnects.                        *)
AtMostOneOpenConnection == \A c, d \in Conns : IsOpen(c) /\ IsOpen(d) => c = d

(* What _dispatch_async_request sends by itself for the request for e        *)
(* delivered on c: at most one AsyncCallback, on c (the captured ws, not the  *)
(* connection current when the handler returns), for a request the server    *)
(* really delivered on c, carrying the status the dispatch settled on, and    *)
(* none at all when the handler returned 202.                                 *)
AutoCallbackFaithful ==
  \A c \in Conns, e \in Elements :
    /\ \A i, j \in AutoCallbacks(c, e) : i = j
    /\ \A i \in AutoCallbacks(c, e) :
         /\ outbox[c][i].from = c
         /\ ReqMsg(e) \in served[c]
         /\ task[c][e].pc = "done"
         /\ task[c][e].status # 202
         /\ outbox[c][i].status = task[c][e].status

(* Every AsyncRequest the client reads is eventually answered on its own      *)
(* connection (handler status, or 500 when no handler is registered or it    *)
(* raises), handed to the application by a 202, or its connection is gone.   *)
RequestsAnswered ==
  \A c \in Conns, e \in Elements :
    task[c][e].pc = "created" ~>
      \/ AutoCallbacks(c, e) # {}
      \/ <<c, e>> \in owed \/ task[c][e].status = 202
      \/ ~IsOpen(c)

(* A transport lost while the client registers or serves is noticed: the   *)
(* main task leaves _connect_and_loop and run_forever retries at once, sleeps *)
(* before retrying, or ends (spec 4.4: transport loss triggers reconnection). *)
LostConnectionNoticed ==
  (phase \in {"AwaitResponse", "Active"} /\ ~IsOpen(nconn))
    ~> phase \in {"Connecting", "Sleeping", "Stopped", "Rejected"}

(* A malformed frame is dropped and the receive loop goes on (spec 4.1 and  *)
(* 7: MalformedMessage is dropped, logged, not fatal): the loop of            *)
(* _connect_and_loop ends only once its transport is no longer open.          *)
MalformedFrameDropped ==
  [][phase = "Active" /\ phase' # "Active" => ~IsOpen(nconn)]_vars

(* is_connected claims "connected and registered": when it is true,          *)
(* self._connection_id was assigned by the RegisterResponse of the transport  *)
(* self._ws holds now (spec 3: the identity is cleared when the transport is  *)
(* lost and means nothing across reconnects).                                 *)
IsConnectedSound == (ws # 0 /\ connection_id # 0) => connection_id = ws

(* send_callback fails with NotConnected whenever no connection is open    *)
(* (spec 4.5): self._ws is set only while _connect_and_loop holds its      *)
(* transport, in _register or in the receive loop, and is None again once  *)
(* the attempt has ended, however it ended.                                *)
WsClearedAfterAttempt == ws # 0 => phase \in {"AwaitResponse", "Active"}

(* An AsyncCallback is only sent on a connection the server has registered:   *)
(* the client had received RegisterResponse success on it.                   *)
CallbackOnlyWhenRegistered ==
  \A c \in Conns : \A i \in DOMAIN outbox[c] :
    outbox[c][i].type = "Callback" => outbox[c][i].reg

(* close() ends run_forever (spec 4.4: shutdown interrupts an in-progress     *)
(* wait or connection attempt).                                               *)
CloseStopsRun == closeCalled ~> Terminal

(* run_forever reconnects only after sleeping reconnect_delay (spec 4.4: also *)
(* when the transport closes normally).                                       *)
ReconnectAfterDelay ==
  [][phase' = "Connecting" /\ phase # "Connecting" => phase \in {"Idle", "Sleeping"}]_vars


-----------------------------------------------------------------------------
(* Refinement of the abstract Reconnection Loop *)

(* The outer loop's state: every phase between run_forever's entry and its *)
(* return is the loop running.                                             *)
LoopOf == IF phase \in {"Idle", "Stopped", "Rejected"} THEN phase ELSE "Running"

(* The open transport, if any: only the one opened last can be open. *)
LiveConn == IF nconn \in Conns /\ IsOpen(nconn) THEN nconn ELSE 0

Abs == INSTANCE ReconnectLoop WITH loop <- LoopOf, live <- LiveConn, opened <- nconn

(* run_forever, close() and the server together behave as the abstract      *)
(* Reconnection Loop: transports are opened one at a time in order, only    *)
(* while none is open, and the loop ends, stopped or rejected, only with its *)
(* transport closed and for good.                                            *)
ImplementsReconnectLoop == Abs!Spec

-----------------------------------------------------------------------------
(* Refinement of the abstract Dispatch Engine *)

(* Element ids of the AsyncRequests the server sent on each connection. *)
DeliveredOf == [c \in Conns |-> {e \in Elements : ReqMsg(e) \in served[c]}]

(* Connections whose transport has been closed, by either side. *)
ClosedConns == {c \in Conns : links[c] \in {"closedOk", "closedErr"}}

(* Where the request for e on c stands: its dispatch task not yet created, *)
(* running, finished after a callback (or a failed send), or finished with *)
(* 202 and still owed, or owed no more, by the application.               *)
StageOf(c, e) ==
  CASE task[c][e].pc = "none" -> "none"
    [] task[c][e].pc \in {"created", "handler", "send"} -> "accepted"
    [] task[c][e].pc = "done" /\ task[c][e].status # 202 -> "replied"
    [] task[c][e].pc = "done" /\ task[c][e].status = 202 /\ <<c, e>> \in owed -> "deferred"
    [] OTHER -> "handedOver"

(* Statuses of the automatic callbacks for e on c. *)
AnswerOf(c, e) == {outbox[c][i].status : i \in AutoCallbacks(c, e)}

StageMap == [c \in Conns |-> [e \in Elements |-> StageOf(c, e)]]

AnswerMap == [c \in Conns |-> [e \in Elements |-> AnswerOf(c, e)]]

Eng == INSTANCE DispatchEngine
         WITH Conn <- Conns, Elem <- Elements, Status <- ReturnCodes \cup {500},
              delivered <- DeliveredOf, closed <- ClosedConns,
              stage <- StageMap, answer <- AnswerMap

(* The receive loop, the dispatch tasks and send_callback together behave as *)
(* the abstract Dispatch Engine: each delivered AsyncRequest is dispatched   *)
(* once, answered by exactly one automatic callback with a non-202 status on *)
(* its own connection while that is open, or deferred by 202 and then left   *)
(* to send_callback, never both.                                            *)
ImplementsDispatchEngine == Eng!Spec

====
