---------------- MODULE SlimFaasClientDispatchRefinement ----------------
(***************************************************************************)
(* Proof that the receive loop, the dispatch tasks and send_callback       *)
(* implement the abstract Dispatch Engine (DispatchEngine.tla) under the   *)
(* mapping of SlimFaasClient: every step of the client is a step of the    *)
(* engine or leaves the mapped state alone. Besides DispatchInv it needs   *)
(* three facts: a connection not yet opened has no frames and is no       *)
(* closed connection (FreshInv), a settled status is a handler's or 500    *)
(* (StatusInv), and the application owes a callback only for a task that  *)
(* ended with 202 (OwedInv).                                               *)
(***************************************************************************)
EXTENDS SlimFaasClientDispatchProofs

USE ConstAssumption DEF Conns, ConstAssumption

-----------------------------------------------------------------------------
(* The strengthening *)

(* Connections websockets.connect() has not returned yet are untouched:    *)
(* neither side has sent on them, and none has been closed.               *)
FreshInv ==
  \A c \in Conns : /\ c > nconn => links[c] = "none"
                   /\ links[c] = "none" => served[c] = {} /\ outbox[c] = << >>

(* A dispatch task about to send, or finished, holds the status the handler *)
(* returned or the 500 of a missing or raising handler.                     *)
StatusInv ==
  \A c \in Conns, e \in Elements :
    task[c][e].pc \in {"send", "done"} => task[c][e].status \in ReturnCodes \cup {500}

(* send_callback is owed only for a request whose handler returned 202. *)
OwedInv ==
  \A c \in Conns, e \in Elements :
    <<c, e>> \in owed => task[c][e].pc = "done" /\ task[c][e].status = 202

AuxInv == FreshInv /\ StatusInv /\ OwedInv

RefInv == DispatchInv /\ AuxInv

EngVars == <<DeliveredOf, ClosedConns, StageMap, AnswerMap>>

-----------------------------------------------------------------------------
(* The mapped state under the shapes of step the operations take *)

LEMMA DeliveredSame == served' = served => DeliveredOf' = DeliveredOf
  BY DEF DeliveredOf

LEMMA ClosedSame == links' = links => ClosedConns' = ClosedConns
  BY DEF ClosedConns

LEMMA StageSame == task' = task /\ owed' = owed => StageMap' = StageMap
  BY DEF StageMap, StageOf

LEMMA AnswerSame == outbox' = outbox => AnswerMap' = AnswerMap
  BY DEF AnswerMap, AnswerOf, AutoCallbacks

(* A step that changes the stage of one request only. *)
LEMMA StageOne ==
  ASSUME NEW c0 \in Conns, NEW e0 \in Elements,
         \A c \in Conns, e \in Elements :
           ~(c = c0 /\ e = e0) => task'[c][e] = task[c][e] /\ (<<c, e>> \in owed' <=> <<c, e>> \in owed)
  PROVE  StageMap' = [StageMap EXCEPT ![c0][e0] = StageOf(c0, e0)']
<1>1. \A c \in Conns, e \in Elements : ~(c = c0 /\ e = e0) => StageOf(c, e)' = StageOf(c, e)
  BY DEF StageOf
<1>2. StageMap' = [c \in Conns |-> [e \in Elements |-> StageOf(c, e)']]
  BY DEF StageMap
<1>3. [StageMap EXCEPT ![c0][e0] = StageOf(c0, e0)']
        = [c \in Conns |-> [e \in Elements |->
             IF c = c0 /\ e = e0 THEN StageOf(c0, e0)' ELSE StageOf(c, e)]]
  BY DEF StageMap
<1> QED BY <1>1, <1>2, <1>3

(* The statuses of a request's automatic callbacks, as indices of AC. *)
LEMMA AnswerAC ==
  ASSUME NEW c, NEW e
  PROVE  AnswerOf(c, e) = {outbox[c][i].status : i \in AC(outbox[c], e)}
  BY ACDef DEF AnswerOf

(* A frame that is no automatic callback is appended to one open          *)
(* connection, or nothing is sent: no request's answer changes.           *)
LEMMA AnswerAppendOther ==
  ASSUME DataOK, NEW c0 \in Conns, NEW f \in OutFrame, ~(f.type = "Callback" /\ f.auto),
         outbox' = [outbox EXCEPT ![c0] = IF links[c0] = "open" THEN Append(@, f) ELSE @]
  PROVE  AnswerMap' = AnswerMap
<1> SUFFICES ASSUME NEW c \in Conns, NEW e \in Elements
             PROVE  AnswerOf(c, e)' = AnswerOf(c, e)
  BY DEF AnswerMap
<1>1. /\ AC(outbox'[c], e) = AC(outbox[c], e)
      /\ \A i \in AC(outbox[c], e) : outbox'[c][i] = outbox[c][i]
  <2>1. CASE c = c0 /\ links[c0] = "open"
    <3>1. outbox'[c] = Append(outbox[c], f) /\ outbox[c] \in Seq(OutFrame)
      BY <2>1 DEF DataOK
    <3>2. ~(f.type = "Callback" /\ f.auto /\ f.elem = e)
      OBVIOUS
    <3>3. /\ AC(Append(outbox[c], f), e) = AC(outbox[c], e)
          /\ \A i \in AC(outbox[c], e) : Append(outbox[c], f)[i] = outbox[c][i]
      BY <3>1, <3>2, ACAppendOther
    <3> QED BY <3>1, <3>3
  <2>2. CASE ~(c = c0 /\ links[c0] = "open")
    <3>1. outbox'[c] = outbox[c]
      BY <2>2 DEF DataOK
    <3> QED BY <3>1
  <2> QED BY <2>1, <2>2
<1>2. AnswerOf(c, e)' = {outbox'[c][i].status : i \in AC(outbox'[c], e)}
  BY DEF AnswerOf, AutoCallbacks, AC
<1>3. {outbox'[c][i].status : i \in AC(outbox'[c], e)} = {outbox[c][i].status : i \in AC(outbox[c], e)}
  BY <1>1
<1> QED BY <1>2, <1>3, AnswerAC

-----------------------------------------------------------------------------
(* Initial states *)

LEMMA InitRefInv == Init => RefInv
<1> SUFFICES ASSUME Init PROVE RefInv
  OBVIOUS
<1>1. DispatchInv
  <2>1. OpenInv
    BY DEF Init, OpenInv, IsOpen
  <2> QED BY <2>1, InitTypeInv, InitDispatch DEF DispatchInv, SafeInv
<1>2. FreshInv /\ StatusInv /\ OwedInv
  BY DEF Init, FreshInv, StatusInv, OwedInv
<1> QED BY <1>1, <1>2 DEF RefInv, AuxInv

LEMMA InitEng == Init => Eng!Init
<1> SUFFICES ASSUME Init PROVE Eng!Init
  OBVIOUS
<1>1. DeliveredOf = [c \in Conns |-> {}] /\ ClosedConns = {}
  BY DEF Init, DeliveredOf, ClosedConns
<1>2. StageMap = [c \in Conns |-> [e \in Elements |-> "none"]]
  <2>1. \A c \in Conns, e \in Elements : task[c][e].pc = "none"
    BY DEF Init
  <2>2. \A c \in Conns, e \in Elements : StageOf(c, e) = "none"
    BY <2>1 DEF StageOf
  <2> QED BY <2>2 DEF StageMap
<1>3. AnswerMap = [c \in Conns |-> [e \in Elements |-> {}]]
  <2>1. \A c \in Conns, e \in Elements : AutoCallbacks(c, e) = {}
    BY DEF Init, AutoCallbacks
  <2>2. \A c \in Conns, e \in Elements : AnswerOf(c, e) = {}
    BY <2>1 DEF AnswerOf
  <2> QED BY <2>2 DEF AnswerMap
<1> QED BY <1>1, <1>2, <1>3 DEF Eng!Init

-----------------------------------------------------------------------------
(* Steps that map to a stutter or to the closing of one connection *)

(* A step that changes only the mapped state of all requests one by one. *)
LEMMA StageAll ==
  ASSUME \A c \in Conns, e \in Elements : StageOf(c, e)' = StageOf(c, e)
  PROVE  StageMap' = StageMap
  BY DEF StageMap

(* A step that changes the answer of one request only. *)
LEMMA AnswerOne ==
  ASSUME NEW c0 \in Conns, NEW e0 \in Elements,
         \A c \in Conns, e \in Elements : ~(c = c0 /\ e = e0) => AnswerOf(c, e)' = AnswerOf(c, e)
  PROVE  AnswerMap' = [AnswerMap EXCEPT ![c0][e0] = AnswerOf(c0, e0)']
<1>1. AnswerMap' = [c \in Conns |-> [e \in Elements |-> AnswerOf(c, e)']]
  BY DEF AnswerMap
<1>2. [AnswerMap EXCEPT ![c0][e0] = AnswerOf(c0, e0)']
        = [c \in Conns |-> [e \in Elements |->
             IF c = c0 /\ e = e0 THEN AnswerOf(c0, e0)' ELSE AnswerOf(c, e)]]
  BY DEF AnswerMap
<1> QED BY <1>1, <1>2

(* A step that opens no connection, sends on open connections only, and    *)
(* moves no link back to "none" keeps the unopened connections untouched. *)
LEMMA FreshFrame ==
  ASSUME FreshInv, nconn' = nconn,
         \A c \in Conns : links[c] = "none" =>
            links'[c] = "none" /\ served'[c] = served[c] /\ outbox'[c] = outbox[c],
         \A c \in Conns : links'[c] = "none" => links[c] = "none"
  PROVE  FreshInv'
  BY DEF FreshInv

LEMMA QuietEng ==
  ASSUME AuxInv, UNCHANGED <<nconn, links, served, outbox, task, owed>>
  PROVE  AuxInv' /\ UNCHANGED EngVars
<1>1. AuxInv'
  BY DEF AuxInv, FreshInv, StatusInv, OwedInv
<1>2. UNCHANGED EngVars
  BY DeliveredSame, ClosedSame, StageSame, AnswerSame DEF EngVars
<1> QED BY <1>1, <1>2

(* The transport of x is closed, or left as it is. *)
LEMMA LinkCloseEng ==
  ASSUME AuxInv, NEW x \in Conns, UNCHANGED <<nconn, served, outbox, task, owed>>,
         \A c \in Conns : c # x => links'[c] = links[c],
         links'[x] = links[x] \/ (links[x] = "open" /\ links'[x] \in {"closedOk", "closedErr"})
  PROVE  AuxInv' /\ (Eng!Disconnect(x) \/ UNCHANGED EngVars)
<1>1. /\ \A c \in Conns : links[c] = "none" => links'[c] = "none"
      /\ \A c \in Conns : links'[c] = "none" => links[c] = "none"
  OBVIOUS
<1>2. FreshInv'
  BY <1>1, FreshFrame DEF AuxInv
<1>3. (StatusInv /\ OwedInv)'
  BY DEF AuxInv, StatusInv, OwedInv
<1>4. DeliveredOf' = DeliveredOf /\ StageMap' = StageMap /\ AnswerMap' = AnswerMap
  BY DeliveredSame, StageSame, AnswerSame
<1>5. Eng!Disconnect(x) \/ UNCHANGED EngVars
  <2>1. CASE links'[x] = links[x]
    <3>1. ClosedConns' = ClosedConns
      BY <2>1 DEF ClosedConns
    <3> QED BY <3>1, <1>4, Zenon DEF EngVars
  <2>2. CASE links[x] = "open" /\ links'[x] \in {"closedOk", "closedErr"}
    <3>1. x \notin ClosedConns /\ ClosedConns' = ClosedConns \cup {x}
      BY <2>2 DEF ClosedConns
    <3> QED BY <3>1, <1>4, Zenon DEF Eng!Disconnect
  <2> QED BY <2>1, <2>2
<1> QED BY <1>2, <1>3, <1>5 DEF AuxInv

(* Leaving `async with websockets.connect(...)` closes only that transport. *)
LEMMA CloseLinkShape ==
  ASSUME DataOK, NEW x \in Conns, CloseLink(x)
  PROVE  /\ \A c \in Conns : c # x => links'[c] = links[c]
         /\ links'[x] = links[x] \/ (links[x] = "open" /\ links'[x] \in {"closedOk", "closedErr"})
  BY DEF CloseLink, DataOK

(* A Ping, or the callback of send_callback, goes out on an open connection. *)
LEMMA AppendOtherEng ==
  ASSUME DataOK, AuxInv, NEW c0 \in Conns, NEW f \in OutFrame, ~(f.type = "Callback" /\ f.auto),
         outbox' = [outbox EXCEPT ![c0] = IF links[c0] = "open" THEN Append(@, f) ELSE @],
         UNCHANGED <<nconn, links, served>>
  PROVE  FreshInv' /\ UNCHANGED <<DeliveredOf, ClosedConns, AnswerMap>>
<1>1. FreshInv'
  <2>1. \A c \in Conns : links[c] = "none" => outbox'[c] = outbox[c]
    BY DEF DataOK
  <2> QED BY <2>1, FreshFrame DEF AuxInv
<1>2. AnswerMap' = AnswerMap
  BY AnswerAppendOther
<1> QED BY <1>1, <1>2, DeliveredSame, ClosedSame

-----------------------------------------------------------------------------
(* The dispatch task *)

(* The task calls the handler, or the handler returns or raises: the       *)
(* request stays accepted unless the handler returned 202, which defers it. *)
LEMMA DispatchMoveEng ==
  ASSUME DataOK, AuxInv, NEW c0 \in Conns, NEW e0 \in Elements,
         TaskStart(c0, e0) \/ HandlerRaises(c0, e0) \/ \E s \in ReturnCodes : HandlerReturns(c0, e0, s)
  PROVE  AuxInv' /\ (Eng!Defer(c0, e0) \/ UNCHANGED EngVars)
<1> DEFINE Set(p, v) == [task EXCEPT ![c0][e0] = [pc |-> p, status |-> v]]
<1>1. UNCHANGED <<nconn, links, served, outbox>>
  BY Zenon DEF TaskStart, HandlerRaises, HandlerReturns, TaskVars
<1>2. /\ task[c0][e0].pc \in {"created", "handler"}
      /\ \/ \E v \in ReturnCodes \cup {500} : task' = Set("send", v) /\ owed' = owed
         \/ task' = Set("handler", 0) /\ owed' = owed
         \/ 202 \in ReturnCodes /\ task' = Set("done", 202) /\ owed' = owed \cup {<<c0, e0>>}
  <2>1. CASE TaskStart(c0, e0)
    BY <2>1, Zenon DEF TaskStart, SetTask
  <2>2. CASE HandlerRaises(c0, e0)
    BY <2>2, Zenon DEF HandlerRaises, SetTask
  <2>3. CASE \E s \in ReturnCodes : HandlerReturns(c0, e0, s)
    <3>1. PICK s \in ReturnCodes : HandlerReturns(c0, e0, s)
      BY <2>3
    <3>2. /\ task[c0][e0].pc = "handler"
          /\ \/ s = 202 /\ task' = Set("done", 202) /\ owed' = owed \cup {<<c0, e0>>}
             \/ s # 202 /\ task' = Set("send", s) /\ owed' = owed
      BY <3>1, Zenon DEF HandlerReturns, SetTask
    <3>3. s \in ReturnCodes \cup {500}
      OBVIOUS
    <3> QED BY <3>2, <3>3
  <2> QED BY <2>1, <2>2, <2>3
<1>3. <<c0, e0>> \notin owed
  BY <1>2 DEF AuxInv, OwedInv
<1>4. \A c \in Conns, e \in Elements :
        ~(c = c0 /\ e = e0) => task'[c][e] = task[c][e] /\ (<<c, e>> \in owed' <=> <<c, e>> \in owed)
  <2>1. \E p, v : task' = Set(p, v)
    BY <1>2
  <2>2. \A c \in Conns, e \in Elements : ~(c = c0 /\ e = e0) => task'[c][e] = task[c][e]
    BY <2>1 DEF DataOK
  <2>3. owed' = owed \/ owed' = owed \cup {<<c0, e0>>}
    BY <1>2
  <2> QED BY <2>2, <2>3
<1>5. StageOf(c0, e0) = "accepted"
  BY <1>2 DEF StageOf
<1>6. FreshInv' /\ DeliveredOf' = DeliveredOf /\ ClosedConns' = ClosedConns /\ AnswerMap' = AnswerMap
  BY <1>1, DeliveredSame, ClosedSame, AnswerSame DEF AuxInv, FreshInv
<1>7. StageMap' = [StageMap EXCEPT ![c0][e0] = StageOf(c0, e0)']
  BY <1>4, StageOne
<1>8. CASE \E v \in ReturnCodes \cup {500} : task' = Set("send", v) /\ owed' = owed
  <2>1. PICK v \in ReturnCodes \cup {500} : task' = Set("send", v) /\ owed' = owed
    BY <1>8
  <2>2. task'[c0][e0] = [pc |-> "send", status |-> v]
    BY <2>1 DEF DataOK
  <2>3. (StatusInv /\ OwedInv)'
    BY <1>3, <1>4, <2>1, <2>2 DEF AuxInv, StatusInv, OwedInv
  <2>4. StageOf(c0, e0)' = "accepted"
    BY <2>1, <2>2 DEF StageOf
  <2>5. \A c \in Conns, e \in Elements : StageOf(c, e)' = StageOf(c, e)
    BY <1>4, <1>5, <2>1, <2>4 DEF StageOf
  <2>6. StageMap' = StageMap
    BY <2>5, StageAll
  <2> QED BY <1>6, <2>3, <2>6, Zenon DEF AuxInv, EngVars
<1>9. CASE task' = Set("handler", 0) /\ owed' = owed
  <2>2. task'[c0][e0] = [pc |-> "handler", status |-> 0]
    BY <1>9 DEF DataOK
  <2>3. (StatusInv /\ OwedInv)'
    BY <1>3, <1>4, <1>9, <2>2 DEF AuxInv, StatusInv, OwedInv
  <2>4. StageOf(c0, e0)' = "accepted"
    BY <1>9, <2>2 DEF StageOf
  <2>5. \A c \in Conns, e \in Elements : StageOf(c, e)' = StageOf(c, e)
    BY <1>4, <1>5, <1>9, <2>4 DEF StageOf
  <2>6. StageMap' = StageMap
    BY <2>5, StageAll
  <2> QED BY <1>6, <2>3, <2>6, Zenon DEF AuxInv, EngVars
<1>10. CASE 202 \in ReturnCodes /\ task' = Set("done", 202) /\ owed' = owed \cup {<<c0, e0>>}
  <2>2. task'[c0][e0] = [pc |-> "done", status |-> 202]
    BY <1>10 DEF DataOK
  <2>3. (StatusInv /\ OwedInv)'
    BY <1>3, <1>4, <1>10, <2>2 DEF AuxInv, StatusInv, OwedInv
  <2>4. StageOf(c0, e0)' = "deferred"
    BY <1>10, <2>2 DEF StageOf
  <2>5. StageMap[c0][e0] = "accepted"
    BY <1>5 DEF StageMap
  <2>6. Eng!Defer(c0, e0)
    BY <1>6, <1>7, <2>4, <2>5, Zenon DEF Eng!Defer, Eng!Move
  <2> QED BY <1>6, <2>3, <2>6 DEF AuxInv
<1> QED BY <1>2, <1>8, <1>9, <1>10

(* _send_callback on the captured ws: the one automatic callback of the    *)
(* request when its connection is open, none when it is closed.           *)
LEMMA TaskSendEng ==
  ASSUME DataOK, TaskInv, AuxInv, NEW c0 \in Conns, NEW e0 \in Elements, TaskSend(c0, e0)
  PROVE  AuxInv' /\ ((\E s \in ReturnCodes \cup {500} : Eng!Reply(c0, e0, s)) \/ Eng!ReplyLost(c0, e0))
<1>0. PICK cb \in OutFrame : cb = CbFrame(e0, task[c0][e0].status, TRUE, c0, c0)
  <2>1. task[c0][e0].status \in Nat /\ c0 \in 0..MaxConn
    BY DEF DataOK
  <2>2. CbFrame(e0, task[c0][e0].status, TRUE, c0, c0) \in OutFrame
    BY <2>1 DEF CbFrame, OutFrame
  <2> QED BY <2>2
<1>s. PICK st \in Nat : st = task[c0][e0].status
  BY DEF DataOK
<1> USE <1>s
<1>1. /\ task[c0][e0].pc = "send"
      /\ outbox' = [outbox EXCEPT ![c0] = IF links[c0] = "open" THEN Append(@, cb) ELSE @]
      /\ task' = [task EXCEPT ![c0][e0].pc = "done"]
      /\ UNCHANGED <<nconn, links, served, owed>>
  BY <1>0, Zenon DEF TaskSend, SendOn, TaskVars
<1>2. cb.type = "Callback" /\ cb.auto = TRUE /\ cb.elem = e0 /\ cb.status = st
  BY <1>0 DEF CbFrame
<1>3. /\ task'[c0][e0] = [pc |-> "done", status |-> st]
      /\ \A c \in Conns, e \in Elements : ~(c = c0 /\ e = e0) => task'[c][e] = task[c][e]
  <2>1. task[c0][e0] \in [pc : TaskPc, status : Nat]
    BY DEF DataOK
  <2> QED BY <1>1, <2>1 DEF DataOK
<1>4. /\ AC(outbox[c0], e0) = {} /\ st # 202 /\ ReqMsg(e0) \in served[c0]
      /\ st \in ReturnCodes \cup {500} /\ <<c0, e0>> \notin owed
  <2>1. AC(outbox[c0], e0) = {} /\ st # 202 /\ ReqMsg(e0) \in served[c0]
    BY <1>1 DEF TaskInv, TaskOK
  <2>2. st \in ReturnCodes \cup {500}
    BY <1>1 DEF AuxInv, StatusInv
  <2>3. <<c0, e0>> \notin owed
    BY <1>1 DEF AuxInv, OwedInv
  <2> QED BY <2>1, <2>2, <2>3
<1>5. FreshInv'
  <2>1. \A c \in Conns : links[c] = "none" => outbox'[c] = outbox[c]
    BY <1>1 DEF DataOK
  <2> QED BY <1>1, <2>1, FreshFrame DEF AuxInv
<1>6. (StatusInv /\ OwedInv)'
  BY <1>1, <1>3, <1>4 DEF AuxInv, StatusInv, OwedInv
<1>7. StageMap[c0][e0] = "accepted" /\ StageMap' = [StageMap EXCEPT ![c0][e0] = "replied"]
  <2>1. StageOf(c0, e0) = "accepted" /\ StageOf(c0, e0)' = "replied"
    BY <1>1, <1>3, <1>4 DEF StageOf
  <2>2. StageMap' = [StageMap EXCEPT ![c0][e0] = StageOf(c0, e0)']
    BY <1>1, <1>3, StageOne
  <2> QED BY <2>1, <2>2 DEF StageMap
<1>8. DeliveredOf' = DeliveredOf /\ ClosedConns' = ClosedConns
  BY <1>1, DeliveredSame, ClosedSame
<1>9. \A c \in Conns, e \in Elements : ~(c = c0 /\ e = e0) => AnswerOf(c, e)' = AnswerOf(c, e)
  <2> SUFFICES ASSUME NEW c \in Conns, NEW e \in Elements, ~(c = c0 /\ e = e0)
               PROVE  AnswerOf(c, e)' = AnswerOf(c, e)
    OBVIOUS
  <2>1. /\ AC(outbox'[c], e) = AC(outbox[c], e)
        /\ \A i \in AC(outbox[c], e) : outbox'[c][i] = outbox[c][i]
    <3>1. CASE c = c0 /\ links[c0] = "open"
      <4>1. outbox'[c] = Append(outbox[c], cb) /\ outbox[c] \in Seq(OutFrame) /\ e # e0
        BY <1>1, <3>1 DEF DataOK
      <4>2. ~(cb.type = "Callback" /\ cb.auto /\ cb.elem = e)
        BY <1>2, <4>1, Zenon
      <4>3. /\ AC(Append(outbox[c], cb), e) = AC(outbox[c], e)
            /\ \A i \in AC(outbox[c], e) : Append(outbox[c], cb)[i] = outbox[c][i]
        BY <4>1, <4>2, ACAppendOther
      <4> QED BY <4>1, <4>3
    <3>2. CASE ~(c = c0 /\ links[c0] = "open")
      <4>1. outbox'[c] = outbox[c]
        BY <1>1, <3>2 DEF DataOK
      <4> QED BY <4>1
    <3> QED BY <3>1, <3>2
  <2>2. AnswerOf(c, e)' = {outbox'[c][i].status : i \in AC(outbox'[c], e)}
    BY DEF AnswerOf, AutoCallbacks, AC
  <2>3. {outbox'[c][i].status : i \in AC(outbox'[c], e)} = {outbox[c][i].status : i \in AC(outbox[c], e)}
    BY <2>1
  <2> QED BY <2>2, <2>3, AnswerAC
<1>10. CASE links[c0] = "open"
  <2>1. outbox'[c0] = Append(outbox[c0], cb) /\ outbox[c0] \in Seq(OutFrame)
    BY <1>1, <1>10 DEF DataOK
  <2>2. /\ AC(Append(outbox[c0], cb), e0) = AC(outbox[c0], e0) \cup {Len(outbox[c0]) + 1}
        /\ Append(outbox[c0], cb)[Len(outbox[c0]) + 1] = cb
    <3>1. cb.type = "Callback" /\ cb.auto /\ cb.elem = e0
      BY <1>2, Zenon
    <3> QED BY <2>1, <3>1 DEF AC
  <2>3. AC(outbox'[c0], e0) = {Len(outbox[c0]) + 1} /\ outbox'[c0][Len(outbox[c0]) + 1] = cb
    <3>1. AC(outbox'[c0], e0) = AC(Append(outbox[c0], cb), e0)
      BY <2>1
    <3> QED BY <1>4, <2>1, <2>2, <3>1
  <2>4. AnswerOf(c0, e0)' = {st}
    <3>1. AnswerOf(c0, e0)' = {outbox'[c0][i].status : i \in AC(outbox'[c0], e0)}
      BY DEF AnswerOf, AutoCallbacks, AC
    <3> QED BY <1>2, <2>3, <3>1
  <2>5. AnswerMap' = [AnswerMap EXCEPT ![c0][e0] = {st}]
    BY <1>9, <2>4, AnswerOne
  <2>6. c0 \notin ClosedConns /\ st \in (ReturnCodes \cup {500}) \ {202}
    BY <1>4, <1>10 DEF ClosedConns
  <2>7. Eng!Reply(c0, e0, st)
    BY <1>7, <1>8, <2>5, <2>6, Zenon DEF Eng!Reply, Eng!Move
  <2>8. \E s \in ReturnCodes \cup {500} : Eng!Reply(c0, e0, s)
    BY <1>4, <2>7
  <2> QED BY <1>5, <1>6, <2>8 DEF AuxInv
<1>11. CASE links[c0] # "open"
  <2>1. links[c0] # "none"
    BY <1>4 DEF AuxInv, FreshInv
  <2>2. c0 \in ClosedConns
    BY <1>11, <2>1 DEF DataOK, LinkState, ClosedConns
  <2>3. outbox' = outbox
    BY <1>1, <1>11 DEF DataOK
  <2>4. AnswerMap' = AnswerMap
    BY <2>3, AnswerSame
  <2>5. Eng!ReplyLost(c0, e0)
    BY <1>7, <1>8, <2>2, <2>4, Zenon DEF Eng!ReplyLost, Eng!Move
  <2> QED BY <1>5, <1>6, <2>5 DEF AuxInv
<1> QED BY <1>10, <1>11

-----------------------------------------------------------------------------
(* The receive loop, send_callback and the keepalive task *)

(* The receive loop reads an AsyncRequest and creates its dispatch task:   *)
(* the request was delivered on the connection and not yet accepted.      *)
LEMMA ActiveRequestEng ==
  ASSUME DataOK, Live, TaskInv, InboxInv, AuxInv, ActiveRequest
  PROVE  AuxInv' /\ \E c \in Conns, e \in Elements : Eng!Accept(c, e)
<1>1. PICK n \in Conns : n = nconn /\ inbox[n] # << >> /\ Head(inbox[n]).kind \in {"Req"}
  BY ReadTyped DEF ActiveRequest
<1>2. PICK x \in Elements : Head(inbox[n]) = ReqMsg(x)
  <2>1. Head(inbox[n]) \in InMsg
    BY <1>1, HeadTyped
  <2> QED BY <1>1, <2>1 DEF InMsg, Msg, ReqMsg
<1>3. /\ task' = [task EXCEPT ![n][x] = [pc |-> "created", status |-> 0]]
      /\ UNCHANGED <<nconn, links, served, outbox, owed>>
  <2>1. Head(inbox[nconn]).elem = x
    BY <1>1, <1>2 DEF ReqMsg
  <2> QED BY <1>1, <2>1, Zenon DEF ActiveRequest, ActRead, SetTask, ActVars
<1>4. ReqMsg(x) \in served[n] /\ task[n][x].pc = "none"
  <2>1. 1 \in DOMAIN inbox[n] /\ inbox[n][1] = ReqMsg(x)
    BY <1>1, <1>2 DEF DataOK
  <2>2. Has(inbox[n], ReqMsg(x)) /\ ReqMsg(x) \in served[n]
    BY <1>1, <2>1 DEF Has, InboxInv
  <2> QED BY <2>2 DEF TaskInv, TaskOK
<1>5. /\ task'[n][x] = [pc |-> "created", status |-> 0]
      /\ \A c \in Conns, e \in Elements : ~(c = n /\ e = x) => task'[c][e] = task[c][e]
  BY <1>3 DEF DataOK
<1>6. AuxInv'
  <2>1. <<n, x>> \notin owed
    BY <1>4 DEF AuxInv, OwedInv
  <2>2. FreshInv'
    BY <1>3 DEF AuxInv, FreshInv
  <2> QED BY <1>3, <1>5, <2>1, <2>2 DEF AuxInv, StatusInv, OwedInv
<1>7. Eng!Accept(n, x)
  <2>1. x \in DeliveredOf[n]
    BY <1>4 DEF DeliveredOf
  <2>2. StageMap[n][x] = "none"
    <3>1. StageOf(n, x) = "none"
      BY <1>4 DEF StageOf
    <3> QED BY <3>1 DEF StageMap
  <2>3. StageMap' = [StageMap EXCEPT ![n][x] = "accepted"]
    <3>1. StageOf(n, x)' = "accepted"
      BY <1>5 DEF StageOf
    <3>2. StageMap' = [StageMap EXCEPT ![n][x] = StageOf(n, x)']
      BY <1>3, <1>5, StageOne
    <3> QED BY <3>1, <3>2
  <2>4. DeliveredOf' = DeliveredOf /\ ClosedConns' = ClosedConns /\ AnswerMap' = AnswerMap
    BY <1>3, DeliveredSame, ClosedSame, AnswerSame
  <2> QED BY <2>1, <2>2, <2>3, <2>4, Zenon DEF Eng!Accept, Eng!Move
<1> QED BY <1>6, <1>7

(* send_callback for a request the handler answered with 202: its callback *)
(* goes on self._ws as a frame that is no automatic callback.             *)
LEMMA SendCallbackEng ==
  ASSUME DataOK, AuxInv, NEW c \in Conns, NEW e \in Elements, NEW s \in ManualCodes,
         SendCallback(c, e, s)
  PROVE  AuxInv' /\ Eng!HandOver(c, e)
<1>1. /\ <<c, e>> \in owed /\ owed' = owed \ {<<c, e>>}
      /\ UNCHANGED <<nconn, links, served, task>>
  BY Zenon DEF SendCallback
<1>2. FreshInv' /\ UNCHANGED <<DeliveredOf, ClosedConns, AnswerMap>>
  <2>1. CASE ws # 0
    <3>1. PICK w \in Conns : w = ws
      BY <2>1 DEF DataOK
    <3>2. PICK cb \in OutFrame : cb = CbFrame(e, s, FALSE, c, w)
      <4>1. CbFrame(e, s, FALSE, c, w) \in OutFrame
        BY DEF CbFrame, OutFrame
      <4> QED BY <4>1
    <3>3. outbox' = [outbox EXCEPT ![w] = IF links[w] = "open" THEN Append(@, cb) ELSE @]
      BY <2>1, <3>1, <3>2, Zenon DEF SendCallback, SendOn
    <3>4. ~(cb.type = "Callback" /\ cb.auto)
      BY <3>2 DEF CbFrame
    <3> QED BY <1>1, <3>3, <3>4, AppendOtherEng
  <2>2. CASE ws = 0
    <3>1. outbox' = outbox
      BY <2>2, Zenon DEF SendCallback
    <3>2. FreshInv'
      BY <1>1, <3>1 DEF AuxInv, FreshInv
    <3> QED BY <1>1, <3>1, <3>2, DeliveredSame, ClosedSame, AnswerSame
  <2> QED BY <2>1, <2>2
<1>3. task[c][e].pc = "done" /\ task[c][e].status = 202
  BY <1>1 DEF AuxInv, OwedInv
<1>4. (StatusInv /\ OwedInv)'
  BY <1>1 DEF AuxInv, StatusInv, OwedInv
<1>5. StageMap[c][e] = "deferred" /\ StageMap' = [StageMap EXCEPT ![c][e] = "handedOver"]
  <2>1. StageOf(c, e) = "deferred" /\ StageOf(c, e)' = "handedOver"
    BY <1>1, <1>3 DEF StageOf
  <2>2. StageMap' = [StageMap EXCEPT ![c][e] = StageOf(c, e)']
    BY <1>1, StageOne
  <2> QED BY <2>1, <2>2 DEF StageMap
<1>6. Eng!HandOver(c, e)
  BY <1>2, <1>5, Zenon DEF Eng!HandOver, Eng!Move
<1> QED BY <1>2, <1>4, <1>6 DEF AuxInv

(* _ping_loop sends a Ping on its connection, or ends. *)
LEMMA PingLoopEng ==
  ASSUME DataOK, AuxInv, PingLoop
  PROVE  AuxInv' /\ UNCHANGED EngVars
<1>1. UNCHANGED <<nconn, links, served, task, owed>>
  BY Zenon DEF PingLoop
<1>2. PICK p \in Conns : p = pingTask
  <2>1. pingTask # 0
    BY DEF PingLoop
  <2> QED BY <2>1 DEF DataOK
<1>3. CASE links[p] = "open"
  <2>1. outbox' = [outbox EXCEPT ![p] = IF links[p] = "open" THEN Append(@, Ctl("Ping")) ELSE @]
    BY <1>2, <1>3, Zenon DEF PingLoop, SendOn
  <2>2. Ctl("Ping") \in OutFrame /\ ~(Ctl("Ping").type = "Callback" /\ Ctl("Ping").auto)
    BY DEF Ctl, OutFrame
  <2>3. FreshInv' /\ UNCHANGED <<DeliveredOf, ClosedConns, AnswerMap>>
    BY <1>1, <2>1, <2>2, AppendOtherEng
  <2>4. StageMap' = StageMap
    BY <1>1, StageSame
  <2>5. (StatusInv /\ OwedInv)'
    BY <1>1 DEF AuxInv, StatusInv, OwedInv
  <2>6. UNCHANGED EngVars
    BY <2>3, <2>4 DEF EngVars
  <2> QED BY <2>3, <2>5, <2>6 DEF AuxInv
<1>4. CASE links[p] # "open"
  <2>1. outbox' = outbox
    BY <1>2, <1>4, Zenon DEF PingLoop
  <2> QED BY <1>1, <2>1, QuietEng
<1> QED BY <1>3, <1>4

-----------------------------------------------------------------------------
(* Opening a connection, and the server *)

(* websockets.connect() returns a fresh transport, on which _register sends *)
(* Register: the engine sees nothing, since the new connection was neither *)
(* closed nor carrying callbacks before.                                   *)
LEMMA ConnectEng ==
  ASSUME DataOK, AuxInv, Connect
  PROVE  AuxInv' /\ UNCHANGED EngVars
<1>1. PICK n \in Conns : n = nconn + 1
  <2>1. nconn \in 0..MaxConn /\ nconn < MaxConn
    BY DEF Connect, DataOK
  <2> QED BY <2>1
<1>2. /\ nconn' = n
      /\ links' = [links EXCEPT ![n] = "open"]
      /\ outbox' = [outbox EXCEPT ![n] = << Ctl("Register") >>]
      /\ UNCHANGED <<served, task, owed>>
  BY <1>1, Zenon DEF Connect
<1>3. links[n] = "none" /\ outbox[n] = << >>
  <2>1. n > nconn
    BY <1>1 DEF DataOK
  <2> QED BY <2>1 DEF AuxInv, FreshInv
<1>4. FreshInv'
  <2>1. \A c \in Conns : c # n => links'[c] = links[c] /\ outbox'[c] = outbox[c]
    BY <1>2 DEF DataOK
  <2>2. links'[n] = "open"
    BY <1>2 DEF DataOK
  <2>3. \A c \in Conns : c > n => c > nconn /\ c # n
    BY <1>1 DEF DataOK
  <2> QED BY <1>2, <2>1, <2>2, <2>3 DEF AuxInv, FreshInv
<1>5. ClosedConns' = ClosedConns
  <2>1. \A c \in Conns : c # n => links'[c] = links[c]
    BY <1>2 DEF DataOK
  <2>2. links'[n] = "open"
    BY <1>2 DEF DataOK
  <2> QED BY <1>3, <2>1, <2>2 DEF ClosedConns
<1>6. AnswerMap' = AnswerMap
  <2> SUFFICES ASSUME NEW c \in Conns, NEW e \in Elements
               PROVE  AnswerOf(c, e)' = AnswerOf(c, e)
    BY DEF AnswerMap
  <2>1. CASE c = n
    <3>1. outbox'[c] = << Ctl("Register") >> /\ outbox[c] = << >>
      BY <1>2, <1>3, <2>1 DEF DataOK
    <3>2. AutoCallbacks(c, e)' = {} /\ AutoCallbacks(c, e) = {}
      BY <3>1 DEF AutoCallbacks, Ctl
    <3> QED BY <3>2 DEF AnswerOf
  <2>2. CASE c # n
    <3>1. outbox'[c] = outbox[c]
      BY <1>2, <2>2 DEF DataOK
    <3> QED BY <3>1 DEF AnswerOf, AutoCallbacks
  <2> QED BY <2>1, <2>2
<1>7. DeliveredOf' = DeliveredOf /\ StageMap' = StageMap
  BY <1>2, DeliveredSame, StageSame
<1>8. (StatusInv /\ OwedInv)'
  BY <1>2 DEF AuxInv, StatusInv, OwedInv
<1>9. UNCHANGED EngVars
  BY <1>5, <1>6, <1>7 DEF EngVars
<1> QED BY <1>4, <1>8, <1>9 DEF AuxInv

(* The server sends a frame on an open connection: an AsyncRequest is a    *)
(* delivery, any other frame leaves the engine alone.                      *)
LEMMA PushEng ==
  ASSUME DataOK, AuxInv, NEW c0 \in Conns, NEW m, ServerPush(c0, m)
  PROVE  AuxInv' /\ ((\E e \in Elements : Eng!Deliver(c0, e)) \/ UNCHANGED EngVars)
<1>1. /\ links[c0] = "open" /\ m \notin served[c0]
      /\ served' = [served EXCEPT ![c0] = @ \cup {m}]
      /\ UNCHANGED <<nconn, links, outbox, task, owed>>
  BY Zenon DEF ServerPush, SrvVars
<1>2. \A c \in Conns : c # c0 => served'[c] = served[c]
  BY <1>1 DEF DataOK
<1>3. served'[c0] = served[c0] \cup {m}
  BY <1>1 DEF DataOK
<1>4. AuxInv'
  <2>1. FreshInv'
    BY <1>1, <1>2 DEF AuxInv, FreshInv
  <2>2. (StatusInv /\ OwedInv)'
    BY <1>1 DEF AuxInv, StatusInv, OwedInv
  <2> QED BY <2>1, <2>2 DEF AuxInv
<1>5. /\ ClosedConns' = ClosedConns /\ StageMap' = StageMap /\ AnswerMap' = AnswerMap
      /\ c0 \notin ClosedConns
  BY <1>1, ClosedSame, StageSame, AnswerSame DEF ClosedConns
<1>6. CASE \E e \in Elements : m = ReqMsg(e)
  <2>1. PICK e \in Elements : m = ReqMsg(e)
    BY <1>6
  <2>2. e \notin DeliveredOf[c0]
    BY <1>1, <2>1 DEF DeliveredOf
  <2>3. DeliveredOf' = [DeliveredOf EXCEPT ![c0] = @ \cup {e}]
    <3>1. \A x \in Elements : ReqMsg(x) = ReqMsg(e) <=> x = e
      BY DEF ReqMsg
    <3>2. {x \in Elements : ReqMsg(x) \in served'[c0]}
            = {x \in Elements : ReqMsg(x) \in served[c0]} \cup {e}
      BY <1>3, <2>1, <3>1
    <3> QED BY <1>2, <3>2 DEF DeliveredOf
  <2>4. Eng!Deliver(c0, e)
    BY <1>5, <2>2, <2>3, Zenon DEF Eng!Deliver
  <2> QED BY <1>4, <2>4
<1>7. CASE ~\E e \in Elements : m = ReqMsg(e)
  <2>1. DeliveredOf' = DeliveredOf
    <3>1. {x \in Elements : ReqMsg(x) \in served'[c0]} = {x \in Elements : ReqMsg(x) \in served[c0]}
      BY <1>3, <1>7
    <3> QED BY <1>2, <3>1 DEF DeliveredOf
  <2>2. UNCHANGED EngVars
    BY <1>5, <2>1 DEF EngVars
  <2> QED BY <1>4, <2>2
<1> QED BY <1>6, <1>7

-----------------------------------------------------------------------------
(* Every step of the client *)

(* Each step of the engine is a disjunct of its next-state relation. *)
LEMMA EngNextConn ==
  ASSUME NEW c \in Conns
  PROVE  Eng!Disconnect(c) => Eng!Next
  BY Zenon DEF Eng!Next

LEMMA EngNext ==
  ASSUME NEW c \in Conns, NEW e \in Elements
  PROVE  /\ Eng!Deliver(c, e) => Eng!Next
         /\ Eng!Accept(c, e) => Eng!Next
         /\ Eng!Defer(c, e) => Eng!Next
         /\ Eng!HandOver(c, e) => Eng!Next
         /\ Eng!ReplyLost(c, e) => Eng!Next
         /\ \A s \in ReturnCodes \cup {500} : Eng!Reply(c, e, s) => Eng!Next
  BY Zenon DEF Eng!Next

(* The main task closes the transport it holds when it leaves an attempt. *)
LEMMA MainCloseEng ==
  ASSUME DataOK, Live, AuxInv,
         RegisterRejected \/ RegisterBadJson \/ ActiveBadShape \/ ActiveStreamEnds
  PROVE  AuxInv' /\ (Eng!Next \/ UNCHANGED EngVars)
<1>1. PICK n \in Conns : n = nconn
  <2>1. phase \in {"AwaitResponse", "Active"}
    BY DEF RegisterRejected, RegisterBadJson, ActiveBadShape, ActiveStreamEnds, RegRead, ActRead
  <2> QED BY <2>1 DEF Live
<1>2. CloseLink(n) /\ UNCHANGED <<nconn, served, outbox, task, owed>>
  BY <1>1, Zenon DEF RegisterRejected, RegisterBadJson, ActiveBadShape, ActiveStreamEnds,
                     RegVars, ActVars, LeaveActive
<1>3. AuxInv' /\ (Eng!Disconnect(n) \/ UNCHANGED EngVars)
  BY <1>2, CloseLinkShape, LinkCloseEng
<1> QED BY <1>3, EngNextConn

LEMMA MainTaskEng ==
  ASSUME DataOK, Live, TaskInv, InboxInv, AuxInv, MainTask
  PROVE  AuxInv' /\ (Eng!Next \/ UNCHANGED EngVars)
<1>1. CASE RunForever \/ ConnectFail \/ Wake \/ RegisterOk \/ RegisterIgnore
           \/ RegisterStreamEnds \/ ActiveIgnore
  <2>1. UNCHANGED <<nconn, links, served, outbox, task, owed>>
    BY <1>1, Zenon DEF RunForever, ConnectFail, Wake, RegisterOk, RegisterIgnore, RegVars,
                       RegisterStreamEnds, ActiveIgnore, ActVars
  <2> QED BY <2>1, QuietEng
<1>2. CASE Connect
  BY <1>2, ConnectEng
<1>3. CASE ActiveRequest
  BY <1>3, ActiveRequestEng, EngNext
<1>4. CASE RegisterRejected \/ RegisterBadJson \/ ActiveBadShape \/ ActiveStreamEnds
  BY <1>4, MainCloseEng
<1> QED BY <1>1, <1>2, <1>3, <1>4 DEF MainTask

(* close() closes self._ws if it is set. *)
LEMMA CloseEng ==
  ASSUME DataOK, AuxInv, Close
  PROVE  AuxInv' /\ (Eng!Next \/ UNCHANGED EngVars)
<1>1. UNCHANGED <<nconn, served, outbox, task, owed>>
  BY Zenon DEF Close
<1>2. CASE ws # 0
  <2>1. PICK w \in Conns : w = ws
    BY <1>2 DEF DataOK
  <2>2. CloseLink(w)
    BY <1>2, <2>1, Zenon DEF Close
  <2>3. AuxInv' /\ (Eng!Disconnect(w) \/ UNCHANGED EngVars)
    BY <1>1, <2>2, CloseLinkShape, LinkCloseEng
  <2> QED BY <2>3, EngNextConn
<1>3. CASE ws = 0
  <2>1. links' = links
    BY <1>3, Zenon DEF Close
  <2> QED BY <1>1, <2>1, QuietEng
<1> QED BY <1>2, <1>3

(* The server closes a connection, cleanly or not. *)
LEMMA ServerCloseEng ==
  ASSUME DataOK, AuxInv, NEW c \in Conns, ServerClose(c)
  PROVE  AuxInv' /\ (Eng!Next \/ UNCHANGED EngVars)
<1>1. /\ links[c] = "open"
      /\ \E k \in {"closedOk", "closedErr"} : links' = [links EXCEPT ![c] = k]
      /\ UNCHANGED <<nconn, served, outbox, task, owed>>
  BY Zenon DEF ServerClose, SrvVars
<1>2. /\ \A d \in Conns : d # c => links'[d] = links[d]
      /\ links[c] = "open" /\ links'[c] \in {"closedOk", "closedErr"}
  BY <1>1 DEF DataOK
<1>3. AuxInv' /\ (Eng!Disconnect(c) \/ UNCHANGED EngVars)
  BY <1>1, <1>2, LinkCloseEng
<1> QED BY <1>3, EngNextConn

LEMMA NextEng ==
  ASSUME RefInv, [Next]_vars
  PROVE  AuxInv' /\ (Eng!Next \/ UNCHANGED EngVars)
<1> USE DEF RefInv, DispatchInv, SafeInv, TypeInv
<1>1. CASE MainTask
  BY <1>1, MainTaskEng
<1>2. CASE \E c \in Conns, e \in Elements : Dispatch(c, e)
  <2>1. PICK c \in Conns, e \in Elements : Dispatch(c, e)
    BY <1>2
  <2>2. CASE TaskSend(c, e)
    BY <2>2, TaskSendEng, EngNext
  <2>3. CASE TaskStart(c, e) \/ HandlerRaises(c, e) \/ \E s \in ReturnCodes : HandlerReturns(c, e, s)
    BY <2>3, DispatchMoveEng, EngNext
  <2> QED BY <2>1, <2>2, <2>3 DEF Dispatch
<1>3. CASE PingLoop
  BY <1>3, PingLoopEng
<1>4. CASE \E c \in Conns, e \in Elements, s \in ManualCodes : SendCallback(c, e, s)
  BY <1>4, SendCallbackEng, EngNext
<1>5. CASE \E c \in Conns : ServerRespond(c) \/ ServerSend(c)
  <2>1. PICK c \in Conns : ServerRespond(c) \/ ServerSend(c)
    BY <1>5
  <2>2. PICK m : ServerPush(c, m)
    BY <2>1, Zenon DEF ServerRespond, ServerSend
  <2> QED BY <2>2, PushEng, EngNext
<1>6. CASE \E c \in Conns : ServerClose(c)
  BY <1>6, ServerCloseEng
<1>7. CASE Close
  BY <1>7, CloseEng
<1>8. CASE OnAsyncRequest \/ Done \/ UNCHANGED vars
  <2>1. UNCHANGED <<nconn, links, served, outbox, task, owed>>
    BY <1>8, Zenon DEF OnAsyncRequest, Done, vars
  <2> QED BY <2>1, QuietEng
<1> QED BY <1>1, <1>2, <1>3, <1>4, <1>5, <1>6, <1>7, <1>8 DEF Next, Application, Server

LEMMA NextRefInv == RefInv /\ [Next]_vars => RefInv'
<1> SUFFICES ASSUME RefInv, [Next]_vars PROVE RefInv'
  OBVIOUS
<1>1. DispatchInv'
  BY NextDispatchInv DEF RefInv
<1>2. AuxInv'
  BY NextEng
<1> QED BY <1>1, <1>2 DEF RefInv

(* The receive loop, the dispatch tasks and send_callback implement the     *)
(* abstract Dispatch Engine, for every number of connections, elements and  *)
(* status codes: each AsyncRequest the server delivers is accepted at most  *)
(* once, only after its delivery, and then either deferred by 202 (with no   *)
(* automatic callback, and later handed over by send_callback) or answered   *)
(* by exactly one non-202 automatic callback on its own connection while it *)
(* is open, and by none once it is closed.                                  *)
THEOREM DispatchRefinement == Spec => ImplementsDispatchEngine
<1>1. Init => RefInv /\ Eng!Init
  BY InitRefInv, InitEng
<1>2. RefInv /\ [Next]_vars => RefInv' /\ [Eng!Next]_Eng!absVars
  BY NextRefInv, NextEng DEF Eng!absVars, EngVars
<1>3. Spec => Eng!Init /\ [][Eng!Next]_Eng!absVars
  BY <1>1, <1>2, PTL DEF Spec
<1> QED BY <1>3 DEF ImplementsDispatchEngine, Eng!Spec

====
