------------------------ MODULE SlimFaasClientProofs ------------------------
(***************************************************************************)
(* Proofs about SlimFaasClient, for every value of the constants that      *)
(* satisfies ConstAssumption.                                              *)
(***************************************************************************)
EXTENDS SlimFaasClient, TLAPS

USE ConstAssumption DEF Conns, ConstAssumption

-----------------------------------------------------------------------------
(* Type correctness *)

(* TypeOK, split into the Boolean flags (for Zenon) and the data (for SMT). *)
BoolsOK == running \in BOOLEAN /\ closeCalled \in BOOLEAN /\ handlerSet \in BOOLEAN

DataOK ==
  /\ phase \in Phases
  /\ nconn \in 0..MaxConn /\ ws \in 0..MaxConn /\ connection_id \in 0..MaxConn
  /\ pingTask \in 0..MaxConn
  /\ registered \subseteq Conns
  /\ links \in [Conns -> LinkState]
  /\ inbox \in [Conns -> Seq(InMsg)]
  /\ served \in [Conns -> SUBSET InMsg]
  /\ outbox \in [Conns -> Seq(OutFrame)]
  /\ task \in [Conns -> [Elements -> [pc : TaskPc, status : Nat]]]
  /\ owed \subseteq Conns \X Elements

LEMMA TypeOKSplit == TypeOK <=> BoolsOK /\ DataOK
  BY Zenon DEF TypeOK, BoolsOK, DataOK

LEMMA InitTypeOK == Init => TypeOK
<1> SUFFICES ASSUME Init PROVE BoolsOK /\ DataOK
  BY TypeOKSplit
<1>1. BoolsOK
  BY Zenon DEF Init, BoolsOK
<1>2. links \in [Conns -> LinkState] /\ inbox \in [Conns -> Seq(InMsg)]
      /\ served \in [Conns -> SUBSET InMsg] /\ outbox \in [Conns -> Seq(OutFrame)]
  BY DEF Init, LinkState
<1>3. task \in [Conns -> [Elements -> [pc : TaskPc, status : Nat]]]
  BY DEF Init, TaskPc
<1>4. nconn \in 0..MaxConn /\ ws \in 0..MaxConn /\ connection_id \in 0..MaxConn
      /\ pingTask \in 0..MaxConn
  BY DEF Init
<1>5. phase \in Phases /\ registered \subseteq Conns /\ owed \subseteq Conns \X Elements
  BY DEF Init, Phases
<1>6. DataOK
  BY <1>2, <1>3, <1>4, <1>5 DEF DataOK
<1> QED BY <1>1, <1>6

(* Only the application's operations touch the three flags. *)
LEMMA NextBoolsOK == BoolsOK /\ [Next]_vars => BoolsOK'
<1> SUFFICES ASSUME BoolsOK, [Next]_vars PROVE BoolsOK'
  OBVIOUS
<1>1. CASE OnAsyncRequest \/ RunForever \/ Close
  BY <1>1, Zenon DEF OnAsyncRequest, RunForever, Close, BoolsOK
<1>2. CASE ~(OnAsyncRequest \/ RunForever \/ Close)
  <2>1. UNCHANGED <<running, closeCalled, handlerSet>>
    BY <1>2, Zenon
    DEF Next, MainTask, Application, Server, Dispatch, SendCallback,
        Connect, ConnectFail, RegisterOk, RegisterRejected, RegisterBadJson, RegisterIgnore,
        RegVars, RegisterStreamEnds, ActiveRequest, ActiveBadShape, ActiveIgnore, ActVars,
        ActiveStreamEnds, Wake, TaskStart, HandlerReturns, HandlerRaises, TaskSend, TaskVars,
        PingLoop, ServerRespond, ServerSend, ServerPush, ServerClose, SrvVars, Done, vars
  <2> QED BY <2>1, Zenon DEF BoolsOK
<1> QED BY <1>1, <1>2

(* The main task is in _register or the receive loop only on a connection   *)
(* websockets.connect() has returned: there self._ws is a real connection.  *)
Live == phase \in {"AwaitResponse", "Active"} => nconn \in Conns

(* The inductive invariant: TypeOK alone does not say that inbox[nconn] is  *)
(* defined where the main task reads it.                                   *)
TypeInv == BoolsOK /\ DataOK /\ Live

(* Where run_forever goes after an attempt: never into an attempt. *)
LEMMA AfterPhases == AfterError \in {"Sleeping", "Stopped"} /\ AfterReturn \in {"Connecting", "Stopped"}
  BY Zenon DEF AfterError, AfterReturn

(* Closing a transport keeps the link states well typed. *)
LEMMA CloseLinkTyped ==
  ASSUME DataOK, NEW c, CloseLink(c)
  PROVE  links' \in [Conns -> LinkState]
  BY Zenon DEF CloseLink, DataOK, LinkState

(* ws.send() on a connection keeps the outboxes well typed. *)
LEMMA SendOnTyped ==
  ASSUME DataOK, NEW c \in Conns, NEW f \in OutFrame
  PROVE  [outbox EXCEPT ![c] = IF links[c] = "open" THEN Append(@, f) ELSE @]
           \in [Conns -> Seq(OutFrame)]
  BY DEF DataOK

(* A frame the main task reads is a well-typed inbound frame. *)
LEMMA HeadTyped ==
  ASSUME DataOK, NEW c \in Conns, inbox[c] # << >>
  PROVE  /\ Head(inbox[c]) \in InMsg
         /\ Head(inbox[c]).kind = "Req" => Head(inbox[c]).elem \in Elements
<1>1. Head(inbox[c]) \in InMsg
  BY DEF DataOK
<1> QED BY <1>1 DEF InMsg, Msg, ReqMsg

(* One iteration of `async for raw in ws`, in _register or the receive loop. *)
LEMMA ReadTyped ==
  ASSUME DataOK, Live, NEW k, RegRead(k) \/ ActRead(k)
  PROVE  /\ nconn \in Conns /\ inbox[nconn] # << >>
         /\ Head(inbox[nconn]).kind \in k
         /\ inbox' \in [Conns -> Seq(InMsg)]
<1>1. /\ phase \in {"AwaitResponse", "Active"} /\ inbox[nconn] # << >>
      /\ Head(inbox[nconn]).kind \in k
      /\ inbox' = [inbox EXCEPT ![nconn] = Tail(@)]
  BY Zenon DEF RegRead, ActRead, Pop
<1>2. nconn \in Conns
  BY <1>1 DEF Live
<1> QED BY <1>1, <1>2 DEF DataOK

-----------------------------------------------------------------------------
(* One lemma per operation: each keeps DataOK and Live. *)

LEMMA OnAsyncRequestTyped == ASSUME DataOK, Live, OnAsyncRequest PROVE DataOK' /\ Live'
<1>1. UNCHANGED <<phase, nconn, ws, connection_id, registered, links, inbox, served,
                  outbox, task, owed, pingTask>>
  BY Zenon DEF OnAsyncRequest
<1> QED BY <1>1 DEF DataOK, Live

LEMMA CloseTyped == ASSUME DataOK, Live, Close PROVE DataOK' /\ Live'
<1>1. UNCHANGED <<phase, nconn, ws, connection_id, registered, inbox, served, outbox,
                  task, owed, pingTask>>
  BY Zenon DEF Close
<1>2. links' \in [Conns -> LinkState]
  <2>1. CASE ws # 0
    <3>1. CloseLink(ws)
      BY <2>1, Zenon DEF Close
    <3> QED BY <3>1, CloseLinkTyped
  <2>2. CASE ws = 0
    <3>1. links' = links
      BY <2>2, Zenon DEF Close
    <3> QED BY <3>1 DEF DataOK
  <2> QED BY <2>1, <2>2
<1> QED BY <1>1, <1>2 DEF DataOK, Live

LEMMA SendCallbackTyped ==
  ASSUME DataOK, Live, NEW c \in Conns, NEW e \in Elements, NEW s \in ManualCodes,
         SendCallback(c, e, s)
  PROVE  DataOK' /\ Live'
<1>1. /\ owed' = owed \ {<<c, e>>}
      /\ UNCHANGED <<phase, nconn, ws, connection_id, registered, links, inbox, served,
                     task, pingTask>>
  BY Zenon DEF SendCallback
<1>2. outbox' \in [Conns -> Seq(OutFrame)]
  <2>1. CASE ws # 0
    <3>1. outbox' = [outbox EXCEPT ![ws] = IF links[ws] = "open"
                       THEN Append(@, CbFrame(e, s, FALSE, c, ws)) ELSE @]
      BY <2>1, Zenon DEF SendCallback, SendOn
    <3>2. ws \in Conns
      BY <2>1 DEF DataOK
    <3>3. CbFrame(e, s, FALSE, c, ws) \in OutFrame
      BY DEF CbFrame, OutFrame
    <3> QED BY <3>1, <3>2, <3>3, SendOnTyped
  <2>2. CASE ws = 0
    <3>1. outbox' = outbox
      BY <2>2, Zenon DEF SendCallback
    <3> QED BY <3>1 DEF DataOK
  <2> QED BY <2>1, <2>2
<1> QED BY <1>1, <1>2 DEF DataOK, Live

LEMMA RunForeverTyped == ASSUME DataOK, Live, RunForever PROVE DataOK' /\ Live'
<1>1. /\ phase' = "Connecting"
      /\ UNCHANGED <<nconn, ws, connection_id, registered, links, inbox, served, outbox,
                     task, owed, pingTask>>
  BY Zenon DEF RunForever
<1> QED BY <1>1 DEF DataOK, Live, Phases

LEMMA ConnectTyped == ASSUME DataOK, Live, Connect PROVE DataOK' /\ Live'
<1>1. /\ nconn < MaxConn /\ nconn' = nconn + 1 /\ ws' = nconn + 1
      /\ links' = [links EXCEPT ![nconn + 1] = "open"]
      /\ outbox' = [outbox EXCEPT ![nconn + 1] = << Ctl("Register") >>]
      /\ phase' = "AwaitResponse"
      /\ UNCHANGED <<connection_id, registered, inbox, served, task, owed, pingTask>>
  BY Zenon DEF Connect
<1>2. Ctl("Register") \in OutFrame
  BY DEF Ctl, OutFrame
<1> QED BY <1>1, <1>2 DEF DataOK, Live, LinkState, Phases

LEMMA ConnectFailTyped == ASSUME DataOK, Live, ConnectFail \/ Wake PROVE DataOK' /\ Live'
<1>1. /\ phase' \in {AfterError, AfterReturn}
      /\ UNCHANGED <<nconn, ws, connection_id, registered, links, inbox, served, outbox,
                     task, owed, pingTask>>
  BY Zenon DEF ConnectFail, Wake
<1> QED BY <1>1, AfterPhases DEF DataOK, Live, Phases

LEMMA RegisterOkTyped == ASSUME DataOK, Live, RegisterOk PROVE DataOK' /\ Live'
<1>1. nconn \in Conns /\ inbox' \in [Conns -> Seq(InMsg)]
  BY ReadTyped DEF RegisterOk
<1>2. /\ connection_id' = nconn /\ registered' = registered \cup {nconn}
      /\ pingTask' \in {nconn, 0} /\ phase' = "Active"
      /\ UNCHANGED <<nconn, ws, links, served, outbox, task, owed>>
  BY Zenon DEF RegisterOk, RegVars
<1> QED BY <1>1, <1>2 DEF DataOK, Live, Phases

LEMMA RegisterCloseTyped ==
  ASSUME DataOK, Live, RegisterRejected \/ RegisterBadJson PROVE DataOK' /\ Live'
<1>1. nconn \in Conns /\ inbox' \in [Conns -> Seq(InMsg)]
  BY ReadTyped DEF RegisterRejected, RegisterBadJson
<1>2. /\ CloseLink(nconn)
      /\ phase' \in {"Rejected", AfterError}
      /\ UNCHANGED <<nconn, ws, connection_id, registered, served, outbox, task, owed,
                     pingTask>>
  BY Zenon DEF RegisterRejected, RegisterBadJson, RegVars
<1>3. links' \in [Conns -> LinkState]
  BY <1>2, CloseLinkTyped
<1> QED BY <1>1, <1>2, <1>3, AfterPhases DEF DataOK, Live, Phases

LEMMA RegisterIgnoreTyped == ASSUME DataOK, Live, RegisterIgnore PROVE DataOK' /\ Live'
<1>1. inbox' \in [Conns -> Seq(InMsg)]
  BY ReadTyped DEF RegisterIgnore
<1>2. UNCHANGED <<phase, nconn, ws, connection_id, registered, links, served, outbox, task,
                  owed, pingTask>>
  BY Zenon DEF RegisterIgnore, RegVars
<1> QED BY <1>1, <1>2 DEF DataOK, Live

LEMMA RegisterStreamEndsTyped == ASSUME DataOK, Live, RegisterStreamEnds PROVE DataOK' /\ Live'
<1>1. /\ ws' \in {0, ws} /\ phase' \in {AfterReturn, AfterError}
      /\ UNCHANGED <<nconn, connection_id, registered, links, inbox, served, outbox, task,
                     owed, pingTask>>
  BY Zenon DEF RegisterStreamEnds
<1>2. phase' \in Phases /\ phase' \notin {"AwaitResponse", "Active"}
  BY <1>1, AfterPhases DEF Phases
<1>3. ws' \in 0..MaxConn
  BY <1>1 DEF DataOK
<1>4. Live'
  BY <1>2 DEF Live
<1>5. /\ nconn' \in 0..MaxConn /\ connection_id' \in 0..MaxConn
      /\ pingTask' \in 0..MaxConn
      /\ registered' \subseteq Conns
      /\ links' \in [Conns -> LinkState]
      /\ inbox' \in [Conns -> Seq(InMsg)]
      /\ served' \in [Conns -> SUBSET InMsg]
      /\ outbox' \in [Conns -> Seq(OutFrame)]
      /\ task' \in [Conns -> [Elements -> [pc : TaskPc, status : Nat]]]
      /\ owed' \subseteq Conns \X Elements
  BY <1>1 DEF DataOK
<1> QED BY <1>2, <1>3, <1>4, <1>5, Zenon DEF DataOK

LEMMA ActiveRequestTyped == ASSUME DataOK, Live, ActiveRequest PROVE DataOK' /\ Live'
<1>1. /\ nconn \in Conns /\ inbox[nconn] # << >> /\ Head(inbox[nconn]).kind \in {"Req"}
      /\ inbox' \in [Conns -> Seq(InMsg)]
  BY ReadTyped DEF ActiveRequest
<1>2. Head(inbox[nconn]).elem \in Elements
  BY <1>1, HeadTyped
<1>3. /\ task' = [task EXCEPT ![nconn][Head(inbox[nconn]).elem] = [pc |-> "created", status |-> 0]]
      /\ UNCHANGED <<phase, nconn, ws, connection_id, registered, links, served, outbox,
                     owed, pingTask>>
  BY Zenon DEF ActiveRequest, SetTask, ActVars
<1>4. task' \in [Conns -> [Elements -> [pc : TaskPc, status : Nat]]]
  BY <1>1, <1>2, <1>3 DEF DataOK, TaskPc
<1> QED BY <1>1, <1>3, <1>4 DEF DataOK, Live

LEMMA ActiveIgnoreTyped == ASSUME DataOK, Live, ActiveIgnore PROVE DataOK' /\ Live'
<1>1. inbox' \in [Conns -> Seq(InMsg)]
  BY ReadTyped DEF ActiveIgnore
<1>2. UNCHANGED <<phase, nconn, ws, connection_id, registered, links, served, outbox, task,
                  owed, pingTask>>
  BY Zenon DEF ActiveIgnore, ActVars
<1> QED BY <1>1, <1>2 DEF DataOK, Live

(* Leaving the receive loop: by a malformed frame or because the stream ended. *)
LEMMA ActiveLeaveTyped ==
  ASSUME DataOK, Live, ActiveBadShape \/ ActiveStreamEnds PROVE DataOK' /\ Live'
<1>1. nconn \in Conns /\ inbox' \in [Conns -> Seq(InMsg)]
  <2>1. CASE ActiveBadShape
    BY <2>1, ReadTyped DEF ActiveBadShape
  <2>2. CASE ActiveStreamEnds
    <3>1. phase = "Active" /\ UNCHANGED inbox
      BY <2>2, Zenon DEF ActiveStreamEnds
    <3> QED BY <3>1 DEF Live, DataOK
  <2> QED BY <2>1, <2>2
<1>2. /\ CloseLink(nconn) /\ ws' = 0 /\ pingTask' = 0
      /\ phase' \in {AfterReturn, AfterError}
      /\ UNCHANGED <<nconn, connection_id, registered, served, outbox, task, owed>>
  BY Zenon DEF ActiveBadShape, ActiveStreamEnds, LeaveActive, ActVars
<1>3. links' \in [Conns -> LinkState]
  BY <1>2, CloseLinkTyped
<1> QED BY <1>1, <1>2, <1>3, AfterPhases DEF DataOK, Live, Phases

(* The steps of a dispatch task that only move it along. *)
LEMMA TaskStepTyped ==
  ASSUME DataOK, Live, NEW c \in Conns, NEW e \in Elements,
         TaskStart(c, e) \/ HandlerRaises(c, e) \/ \E s \in ReturnCodes : HandlerReturns(c, e, s)
  PROVE  DataOK' /\ Live'
<1> DEFINE Set(pc, s) == [task EXCEPT ![c][e] = [pc |-> pc, status |-> s]]
<1>1. UNCHANGED <<phase, nconn, ws, connection_id, registered, links, inbox, served,
                  outbox, pingTask>>
  BY Zenon DEF TaskStart, HandlerRaises, HandlerReturns, TaskVars
<1>2. owed' \in {owed, owed \cup {<<c, e>>}}
  BY Zenon DEF TaskStart, HandlerRaises, HandlerReturns
<1>3. \E pc \in TaskPc, s \in Nat : task' = Set(pc, s)
  <2>1. CASE TaskStart(c, e)
    <3>1. task' = Set("handler", 0) \/ task' = Set("send", 500)
      BY <2>1, Zenon DEF TaskStart, SetTask
    <3> QED BY <3>1 DEF TaskPc
  <2>2. CASE HandlerRaises(c, e)
    <3>1. task' = Set("send", 500)
      BY <2>2, Zenon DEF HandlerRaises, SetTask
    <3>2. "send" \in TaskPc /\ 500 \in Nat
      BY DEF TaskPc
    <3> QED BY <3>1, <3>2, Zenon
  <2>3. CASE \E s \in ReturnCodes : HandlerReturns(c, e, s)
    <3>1. PICK s \in ReturnCodes : HandlerReturns(c, e, s)
      BY <2>3
    <3>2. task' = Set("done", s) \/ task' = Set("send", s)
      BY <3>1, Zenon DEF HandlerReturns, SetTask
    <3> QED BY <3>2 DEF TaskPc
  <2> QED BY <2>1, <2>2, <2>3
<1>4. PICK pc \in TaskPc, s \in Nat : task' = Set(pc, s)
  BY <1>3
<1>5. task' \in [Conns -> [Elements -> [pc : TaskPc, status : Nat]]]
  BY <1>4 DEF DataOK
<1>6. owed' \subseteq Conns \X Elements
  BY <1>2 DEF DataOK
<1>7. Live'
  BY <1>1 DEF Live
<1>8. /\ phase' \in Phases
      /\ nconn' \in 0..MaxConn /\ ws' \in 0..MaxConn /\ connection_id' \in 0..MaxConn
      /\ pingTask' \in 0..MaxConn
      /\ registered' \subseteq Conns
      /\ links' \in [Conns -> LinkState]
      /\ inbox' \in [Conns -> Seq(InMsg)]
      /\ served' \in [Conns -> SUBSET InMsg]
      /\ outbox' \in [Conns -> Seq(OutFrame)]
  BY <1>1 DEF DataOK
<1> QED BY <1>5, <1>6, <1>7, <1>8, Zenon DEF DataOK

(* _send_callback on the captured connection. *)
LEMMA TaskSendTyped ==
  ASSUME DataOK, Live, NEW c \in Conns, NEW e \in Elements, TaskSend(c, e)
  PROVE  DataOK' /\ Live'
<1>1. /\ outbox' = [outbox EXCEPT ![c] = IF links[c] = "open"
                      THEN Append(@, CbFrame(e, task[c][e].status, TRUE, c, c)) ELSE @]
      /\ task' = [task EXCEPT ![c][e].pc = "done"]
      /\ UNCHANGED <<phase, nconn, ws, connection_id, registered, links, inbox, served,
                     owed, pingTask>>
  BY Zenon DEF TaskSend, SendOn, TaskVars
<1>2. task[c][e].status \in Nat
  BY DEF DataOK
<1>3. CbFrame(e, task[c][e].status, TRUE, c, c) \in OutFrame
  BY <1>2 DEF CbFrame, OutFrame
<1>4. outbox' \in [Conns -> Seq(OutFrame)]
  BY <1>1, <1>3, SendOnTyped
<1>5. task' \in [Conns -> [Elements -> [pc : TaskPc, status : Nat]]]
  <2>1. task' = [task EXCEPT ![c][e] = [pc |-> "done", status |-> task[c][e].status]]
    <3>1. task[c][e] \in [pc : TaskPc, status : Nat]
      BY DEF DataOK
    <3>2. [task[c][e] EXCEPT !.pc = "done"] = [pc |-> "done", status |-> task[c][e].status]
      BY <3>1
    <3> QED BY <1>1, <3>2
  <2> QED BY <1>2, <2>1 DEF DataOK, TaskPc
<1> QED BY <1>1, <1>4, <1>5 DEF DataOK, Live

LEMMA PingLoopTyped == ASSUME DataOK, Live, PingLoop PROVE DataOK' /\ Live'
<1>1. /\ pingTask # 0
      /\ \/ outbox' = [outbox EXCEPT ![pingTask] = IF links[pingTask] = "open"
                         THEN Append(@, Ctl("Ping")) ELSE @] /\ pingTask' = pingTask
         \/ outbox' = outbox /\ pingTask' = 0
      /\ UNCHANGED <<phase, nconn, ws, connection_id, registered, links, inbox, served,
                     task, owed>>
  BY Zenon DEF PingLoop, SendOn
<1>2. pingTask \in Conns /\ Ctl("Ping") \in OutFrame
  BY <1>1 DEF DataOK, Ctl, OutFrame
<1>3. outbox' \in [Conns -> Seq(OutFrame)] /\ pingTask' \in 0..MaxConn
  <2>1. [outbox EXCEPT ![pingTask] = IF links[pingTask] = "open"
           THEN Append(@, Ctl("Ping")) ELSE @] \in [Conns -> Seq(OutFrame)]
    BY <1>2, SendOnTyped
  <2>2. CASE outbox' = outbox /\ pingTask' = 0
    BY <2>2 DEF DataOK
  <2>3. CASE outbox' = [outbox EXCEPT ![pingTask] = IF links[pingTask] = "open"
                          THEN Append(@, Ctl("Ping")) ELSE @] /\ pingTask' = pingTask
    BY <2>1, <2>3 DEF DataOK
  <2> QED BY <1>1, <2>2, <2>3
<1> QED BY <1>1, <1>3 DEF DataOK, Live

LEMMA ServerTyped == ASSUME DataOK, Live, Server PROVE DataOK' /\ Live'
<1>1. PICK c \in Conns : ServerRespond(c) \/ ServerSend(c) \/ ServerClose(c)
  BY DEF Server
<1>2. CASE ServerRespond(c) \/ ServerSend(c)
  <2>1. PICK m \in InMsg : ServerPush(c, m)
    <3>1. /\ \A k \in {"RegOk", "RegFail"} \cup Noise : Msg(k) \in InMsg
          /\ \A x \in Elements : ReqMsg(x) \in InMsg
      BY DEF InMsg
    <3> QED BY <1>2, <3>1, Zenon DEF ServerRespond, ServerSend
  <2>2. /\ inbox' = [inbox EXCEPT ![c] = Append(@, m)]
        /\ served' = [served EXCEPT ![c] = @ \cup {m}]
        /\ UNCHANGED <<phase, nconn, ws, connection_id, registered, links, outbox, task,
                       owed, pingTask>>
    BY <2>1, Zenon DEF ServerPush, SrvVars
  <2> QED BY <2>2 DEF DataOK, Live
<1>3. CASE ServerClose(c)
  <2>1. /\ \E k \in {"closedOk", "closedErr"} : links' = [links EXCEPT ![c] = k]
        /\ UNCHANGED <<phase, nconn, ws, connection_id, registered, inbox, served, outbox,
                       task, owed, pingTask>>
    BY <1>3, Zenon DEF ServerClose, SrvVars
  <2> QED BY <2>1 DEF DataOK, Live, LinkState
<1> QED BY <1>1, <1>2, <1>3

-----------------------------------------------------------------------------

LEMMA NextDataOK == ASSUME DataOK, Live, [Next]_vars PROVE DataOK' /\ Live'
<1>1. CASE UNCHANGED vars \/ Done
  <2>1. UNCHANGED vars
    BY <1>1, Zenon DEF Done
  <2> QED BY <2>1 DEF vars, DataOK, Live
<1>2. CASE MainTask
  BY <1>2, RunForeverTyped, ConnectTyped, ConnectFailTyped, RegisterOkTyped,
     RegisterCloseTyped, RegisterIgnoreTyped, RegisterStreamEndsTyped, ActiveRequestTyped,
     ActiveIgnoreTyped, ActiveLeaveTyped, Zenon
  DEF MainTask
<1>3. CASE \E c \in Conns, e \in Elements : Dispatch(c, e)
  <2>1. PICK c \in Conns, e \in Elements : Dispatch(c, e)
    BY <1>3
  <2> QED BY <2>1, TaskStepTyped, TaskSendTyped, Zenon DEF Dispatch
<1>4. CASE PingLoop
  BY <1>4, PingLoopTyped
<1>5. CASE Application
  <2>1. CASE \E c \in Conns, e \in Elements, s \in ManualCodes : SendCallback(c, e, s)
    <3>1. PICK c \in Conns, e \in Elements, s \in ManualCodes : SendCallback(c, e, s)
      BY <2>1
    <3> QED BY <3>1, SendCallbackTyped
  <2> QED BY <1>5, <2>1, OnAsyncRequestTyped, CloseTyped, Zenon DEF Application
<1>6. CASE Server
  BY <1>6, ServerTyped
<1> QED BY <1>1, <1>2, <1>3, <1>4, <1>5, <1>6 DEF Next

LEMMA InitTypeInv == Init => TypeInv
<1>1. Init => Live
  BY DEF Init, Live
<1> QED BY <1>1, InitTypeOK, TypeOKSplit, Zenon DEF TypeInv

LEMMA NextTypeInv == TypeInv /\ [Next]_vars => TypeInv'
<1> SUFFICES ASSUME TypeInv, [Next]_vars PROVE TypeInv'
  OBVIOUS
<1>1. BoolsOK'
  BY NextBoolsOK DEF TypeInv
<1>2. DataOK' /\ Live'
  BY NextDataOK DEF TypeInv
<1> QED BY <1>1, <1>2 DEF TypeInv

LEMMA TypeInvTypeOK == TypeInv => TypeOK
  BY TypeOKSplit DEF TypeInv

(* Every state the client can reach is well typed: self._ws, the connection *)
(* counter and the connection id range over None and the opened             *)
(* connections, every frame on the wire is a well-formed frame, and every   *)
(* dispatch task is at a step of _dispatch_async_request.                   *)
THEOREM TypeCorrect == Spec => []TypeOK
<1>1. Spec => []TypeInv
  BY InitTypeInv, NextTypeInv, PTL DEF Spec
<1> QED BY <1>1, TypeInvTypeOK, PTL

-----------------------------------------------------------------------------
(* At most one open transport *)

(* The strengthening: a transport is open only while the main task is in   *)
(* _register or the receive loop, and only the one it opened last.         *)
OpenInv == \A c \in Conns : IsOpen(c) => c = nconn /\ phase \in {"AwaitResponse", "Active"}

(* Leaving `async with` (or ws.close(), or the server closing) opens nothing *)
(* and leaves the closed connection closed.                                  *)
LEMMA CloseLinkOpen ==
  ASSUME DataOK, NEW c, CloseLink(c)
  PROVE  \A d \in Conns : IsOpen(d)' => IsOpen(d) /\ d # c
  BY DEF CloseLink, DataOK, IsOpen

(* Steps that leave the links, the phase and the connection counter alone. *)
LEMMA FrameOpenInv ==
  ASSUME OpenInv, UNCHANGED <<links, phase, nconn>>
  PROVE  OpenInv'
  BY DEF OpenInv, IsOpen

(* Steps that start from a phase where no transport is open and open none. *)
LEMMA IdleOpenInv ==
  ASSUME OpenInv, phase \notin {"AwaitResponse", "Active"}, UNCHANGED links
  PROVE  OpenInv'
  BY DEF OpenInv, IsOpen

(* Steps that leave _connect_and_loop after closing the transport they used. *)
LEMMA LeaveOpenInv ==
  ASSUME DataOK, OpenInv, CloseLink(nconn),
         phase' \notin {"AwaitResponse", "Active"}
  PROVE  OpenInv'
<1>1. \A d \in Conns : IsOpen(d)' => IsOpen(d) /\ d # nconn
  BY CloseLinkOpen
<1> QED BY <1>1 DEF OpenInv

LEMMA ConnectOpenInv == ASSUME DataOK, OpenInv, Connect PROVE OpenInv'
<1>1. /\ phase = "Connecting" /\ nconn' = nconn + 1 /\ phase' = "AwaitResponse"
      /\ links' = [links EXCEPT ![nconn + 1] = "open"]
  BY Zenon DEF Connect
<1>2. \A d \in Conns : ~IsOpen(d)
  BY <1>1 DEF OpenInv
<1> QED BY <1>1, <1>2 DEF OpenInv, IsOpen, DataOK

LEMMA CloseOpenInv == ASSUME DataOK, OpenInv, Close \/ Server PROVE OpenInv'
<1>1. CASE Close
  <2>1. UNCHANGED <<phase, nconn>>
    BY <1>1, Zenon DEF Close
  <2>2. CASE ws # 0
    <3>1. CloseLink(ws)
      BY <1>1, <2>2, Zenon DEF Close
    <3> QED BY <2>1, <3>1, CloseLinkOpen DEF OpenInv
  <2>3. CASE ws = 0
    <3>1. UNCHANGED links
      BY <1>1, <2>3, Zenon DEF Close
    <3> QED BY <2>1, <3>1, FrameOpenInv
  <2> QED BY <2>2, <2>3
<1>2. CASE Server
  <2>1. PICK c \in Conns : ServerRespond(c) \/ ServerSend(c) \/ ServerClose(c)
    BY <1>2 DEF Server
  <2>2. CASE ServerRespond(c) \/ ServerSend(c)
    <3>1. UNCHANGED <<links, phase, nconn>>
      BY <2>2, Zenon DEF ServerRespond, ServerSend, ServerPush, SrvVars
    <3> QED BY <3>1, FrameOpenInv
  <2>3. CASE ServerClose(c)
    <3>1. /\ \E k \in {"closedOk", "closedErr"} : links' = [links EXCEPT ![c] = k]
          /\ UNCHANGED <<phase, nconn>>
      BY <2>3, Zenon DEF ServerClose, SrvVars
    <3> QED BY <3>1 DEF OpenInv, IsOpen, DataOK
  <2> QED BY <2>1, <2>2, <2>3
<1> QED BY <1>1, <1>2

LEMMA MainTaskOpenInv == ASSUME DataOK, Live, OpenInv, MainTask PROVE OpenInv'
<1>1. CASE RunForever \/ ConnectFail \/ Wake
  <2>1. phase \in {"Idle", "Connecting", "Sleeping"} /\ UNCHANGED links
    BY <1>1, Zenon DEF RunForever, ConnectFail, Wake
  <2> QED BY <2>1, IdleOpenInv
<1>2. CASE Connect
  BY <1>2, ConnectOpenInv
<1>3. CASE RegisterOk \/ RegisterIgnore \/ ActiveRequest \/ ActiveIgnore
  <2>1. /\ UNCHANGED <<links, nconn>>
        /\ phase \in {"AwaitResponse", "Active"} /\ phase' \in {"AwaitResponse", "Active"}
    BY <1>3, Zenon DEF RegisterOk, RegisterIgnore, ActiveRequest, ActiveIgnore, RegRead,
                      ActRead, RegVars, ActVars
  <2> QED BY <2>1 DEF OpenInv, IsOpen
<1>4. CASE RegisterRejected \/ RegisterBadJson \/ ActiveBadShape \/ ActiveStreamEnds
  <2>1. /\ CloseLink(nconn)
        /\ phase' \in {"Rejected", AfterError, AfterReturn}
    BY <1>4, Zenon DEF RegisterRejected, RegisterBadJson, ActiveBadShape, ActiveStreamEnds,
                      LeaveActive
  <2> QED BY <2>1, AfterPhases, LeaveOpenInv
<1>5. CASE RegisterStreamEnds
  <2>1. /\ phase = "AwaitResponse" /\ links[nconn] \in {"closedOk", "closedErr"}
        /\ phase' \in {AfterReturn, AfterError} /\ UNCHANGED <<links, nconn>>
    BY <1>5, Zenon DEF RegisterStreamEnds
  <2>2. \A d \in Conns : ~IsOpen(d)
    BY <2>1 DEF OpenInv, IsOpen
  <2> QED BY <2>1, <2>2, AfterPhases DEF OpenInv, IsOpen
<1> QED BY <1>1, <1>2, <1>3, <1>4, <1>5 DEF MainTask

LEMMA NextOpenInv == ASSUME DataOK, Live, OpenInv, [Next]_vars PROVE OpenInv'
<1>1. CASE MainTask
  BY <1>1, MainTaskOpenInv
<1>2. CASE Close \/ Server
  BY <1>2, CloseOpenInv
<1>3. CASE ~MainTask /\ ~Close /\ ~Server
  <2>1. UNCHANGED <<links, phase, nconn>>
    BY <1>3, Zenon
    DEF Next, Application, Dispatch, OnAsyncRequest, SendCallback, TaskStart, HandlerReturns,
        HandlerRaises, TaskSend, TaskVars, PingLoop, Done, vars
  <2> QED BY <2>1, FrameOpenInv
<1> QED BY <1>1, <1>2, <1>3

(* The inductive invariant behind AtMostOneOpenConnection. *)
SafeInv == TypeInv /\ OpenInv

LEMMA NextSafeInv == SafeInv /\ [Next]_vars => SafeInv'
<1> SUFFICES ASSUME SafeInv, [Next]_vars PROVE SafeInv'
  OBVIOUS
<1>1. TypeInv'
  BY NextTypeInv DEF SafeInv
<1>2. OpenInv'
  BY NextOpenInv DEF SafeInv, TypeInv
<1> QED BY <1>1, <1>2 DEF SafeInv

(* The client never holds two transports open at once, for any number of    *)
(* connection attempts: run_forever reconnects only after _connect_and_loop *)
(* has left `async with websockets.connect(...)`, which closes the old one, *)
(* on every path out of _register and the receive loop.                      *)
THEOREM OneOpenConnection == Spec => []AtMostOneOpenConnection
<1>1. Init => SafeInv
  <2>1. Init => OpenInv
    BY DEF Init, OpenInv, IsOpen
  <2> QED BY <2>1, InitTypeInv DEF SafeInv
<1>2. SafeInv => AtMostOneOpenConnection
  BY DEF SafeInv, OpenInv, AtMostOneOpenConnection
<1>3. Spec => []SafeInv
  BY <1>1, NextSafeInv, PTL DEF Spec
<1> QED BY <1>2, <1>3, PTL

====
