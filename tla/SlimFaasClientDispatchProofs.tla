------------------- MODULE SlimFaasClientDispatchProofs --------------------
(***************************************************************************)
(* Proof of AutoCallbackFaithful: what _dispatch_async_request sends by    *)
(* itself for a request. The invariant is not inductive as it stands; the  *)
(* strengthening TaskInv follows each dispatch task from the frame that    *)
(* creates it to its callback, and InboxInv says that a connection's       *)
(* unread frames are frames the server sent on it, each at most once.      *)
(***************************************************************************)
EXTENDS SlimFaasClientProofs

USE ConstAssumption DEF Conns, ConstAssumption

-----------------------------------------------------------------------------
(* Sequence helpers *)

(* The automatic callbacks for e in a sequence of outbound frames. *)
AC(s, e) == {i \in DOMAIN s : s[i].type = "Callback" /\ s[i].auto /\ s[i].elem = e}

(* m is among the unread frames s. *)
Has(s, m) == \E i \in DOMAIN s : s[i] = m

(* No frame occurs twice in s. *)
NoDup(s) == \A i, j \in DOMAIN s : s[i] = s[j] => i = j

LEMMA ACDef == ASSUME NEW c, NEW e PROVE AutoCallbacks(c, e) = AC(outbox[c], e)
  BY DEF AutoCallbacks, AC

(* Appending a frame that is not an automatic callback for e keeps AC. *)
LEMMA ACAppendOther ==
  ASSUME NEW s \in Seq(OutFrame), NEW f \in OutFrame, NEW e,
         ~(f.type = "Callback" /\ f.auto /\ f.elem = e)
  PROVE  /\ AC(Append(s, f), e) = AC(s, e)
         /\ \A i \in AC(s, e) : Append(s, f)[i] = s[i]
  BY DEF AC

(* Appending an automatic callback for e adds its index and moves nothing. *)
LEMMA ACAppendOwn ==
  ASSUME NEW s \in Seq(OutFrame), NEW f \in OutFrame, NEW e,
         f.type = "Callback" /\ f.auto /\ f.elem = e
  PROVE  /\ AC(Append(s, f), e) = AC(s, e) \cup {Len(s) + 1}
         /\ Append(s, f)[Len(s) + 1] = f
         /\ \A i \in AC(s, e) : Append(s, f)[i] = s[i]
  BY DEF AC

(* Reading the head of a duplicate-free inbox. *)
LEMMA HasTail ==
  ASSUME NEW s \in Seq(InMsg), s # << >>, NoDup(s), NEW m
  PROVE  Has(Tail(s), m) => Has(s, m) /\ m # Head(s)
  BY DEF Has, NoDup

LEMMA TailNoDup ==
  ASSUME NEW s \in Seq(InMsg), s # << >>, NoDup(s)
  PROVE  NoDup(Tail(s))
  BY DEF NoDup

(* The server appending a frame it had not sent on this connection. *)
LEMMA HasAppend ==
  ASSUME NEW s \in Seq(InMsg), NEW m, NEW x
  PROVE  /\ Has(Append(s, m), x) <=> Has(s, x) \/ x = m
         /\ NoDup(s) /\ ~Has(s, m) => NoDup(Append(s, m))
  BY DEF Has, NoDup

-----------------------------------------------------------------------------
(* The strengthening *)

(* The dispatch task for e on c, from the AsyncRequest frame that creates it *)
(* to its callback: before the task sends, c carries no automatic callback   *)
(* for e; a task about to send never holds 202; after it, c carries at most  *)
(* one, with the task's status; a task exists only for a request the server  *)
(* sent on c; and while that request is unread no task exists for it.       *)
TaskOK(c, e) ==
  /\ task[c][e].pc \in {"none", "created", "handler", "send"} => AC(outbox[c], e) = {}
  /\ task[c][e].pc = "send" => task[c][e].status # 202
  /\ task[c][e].pc = "done" =>
       /\ \A i, j \in AC(outbox[c], e) : i = j
       /\ \A i \in AC(outbox[c], e) : /\ outbox[c][i].from = c
                                      /\ outbox[c][i].status = task[c][e].status
                                      /\ task[c][e].status # 202
  /\ task[c][e].pc # "none" => ReqMsg(e) \in served[c]
  /\ Has(inbox[c], ReqMsg(e)) => task[c][e].pc = "none"

TaskInv == \A c \in Conns, e \in Elements : TaskOK(c, e)

(* The unread frames of a connection were sent on it by the server, each    *)
(* once: the server sends a frame at most once per connection.              *)
InboxInv ==
  \A c \in Conns : /\ \A i \in DOMAIN inbox[c] : inbox[c][i] \in served[c]
                   /\ NoDup(inbox[c])

DispatchInv == SafeInv /\ TaskInv /\ InboxInv

(* A step that leaves the task alone, keeps the automatic callbacks where    *)
(* they were (or drops them all) and adds no unread request the server had   *)
(* sent before keeps TaskOK.                                                 *)
LEMMA TaskOKFrame ==
  ASSUME NEW c, NEW e, TaskOK(c, e),
         task'[c][e] = task[c][e],
         served[c] \subseteq served'[c],
         AC(outbox'[c], e) \subseteq AC(outbox[c], e),
         \A i \in AC(outbox'[c], e) : outbox'[c][i] = outbox[c][i],
         Has(inbox'[c], ReqMsg(e)) => Has(inbox[c], ReqMsg(e)) \/ ReqMsg(e) \notin served[c]
  PROVE  TaskOK(c, e)'
<1>1. task[c][e].pc \in {"none", "created", "handler", "send"} => AC(outbox'[c], e) = {}
  BY DEF TaskOK
<1>2. task[c][e].pc = "done" =>
       /\ \A i, j \in AC(outbox'[c], e) : i = j
       /\ \A i \in AC(outbox'[c], e) : /\ outbox'[c][i].from = c
                                       /\ outbox'[c][i].status = task[c][e].status
                                       /\ task[c][e].status # 202
  BY DEF TaskOK
<1>3. Has(inbox'[c], ReqMsg(e)) => task[c][e].pc = "none"
  BY DEF TaskOK
<1> QED BY <1>1, <1>2, <1>3 DEF TaskOK

-----------------------------------------------------------------------------
(* The shapes of step that the operations take on task, outbox, inbox and  *)
(* served.                                                                  *)

(* Steps that touch none of them: the flags, the phase, the links, ws. *)
LEMMA QuietStep ==
  ASSUME TaskInv, InboxInv, UNCHANGED <<task, outbox, inbox, served>>
  PROVE  TaskInv' /\ InboxInv'
<1>1. TaskInv'
  <2> SUFFICES ASSUME NEW c \in Conns, NEW e \in Elements PROVE TaskOK(c, e)'
    BY DEF TaskInv
  <2> QED BY TaskOKFrame DEF TaskInv
<1>2. InboxInv'
  BY DEF InboxInv, NoDup
<1> QED BY <1>1, <1>2

(* The main task reads the head frame of connection nconn. *)
LEMMA PopStep ==
  ASSUME DataOK, TaskInv, InboxInv, nconn \in Conns, inbox[nconn] # << >>,
         inbox' = [inbox EXCEPT ![nconn] = Tail(@)], UNCHANGED <<outbox, served>>
  PROVE  /\ \A c \in Conns, e \in Elements :
              Has(inbox'[c], ReqMsg(e)) => Has(inbox[c], ReqMsg(e))
         /\ ~Has(inbox'[nconn], Head(inbox[nconn]))
         /\ InboxInv'
<1>1. /\ inbox[nconn] \in Seq(InMsg) /\ NoDup(inbox[nconn])
      /\ inbox'[nconn] = Tail(inbox[nconn])
  BY DEF DataOK, InboxInv
<1>2. \A m : Has(inbox'[nconn], m) => Has(inbox[nconn], m) /\ m # Head(inbox[nconn])
  BY <1>1, HasTail
<1>3. \A c \in Conns, e \in Elements : Has(inbox'[c], ReqMsg(e)) => Has(inbox[c], ReqMsg(e))
  BY <1>2 DEF DataOK
<1>4. InboxInv'
  <2> SUFFICES ASSUME NEW c \in Conns
               PROVE  /\ \A i \in DOMAIN inbox'[c] : inbox'[c][i] \in served'[c]
                      /\ NoDup(inbox'[c])
    BY DEF InboxInv
  <2>1. CASE c = nconn
    <3>0. NoDup(Tail(inbox[nconn]))
      BY <1>1, TailNoDup
    <3>1. NoDup(inbox'[c])
      BY <1>1, <2>1, <3>0
    <3>2. \A i \in DOMAIN inbox'[c] : inbox'[c][i] \in served'[c]
      BY <1>1, <2>1 DEF InboxInv
    <3> QED BY <3>1, <3>2
  <2>2. CASE c # nconn
    BY <2>2 DEF DataOK, InboxInv
  <2> QED BY <2>1, <2>2
<1>5. ~Has(inbox'[nconn], Head(inbox[nconn]))
  BY <1>2
<1> QED BY <1>3, <1>4, <1>5

(* Reading a frame that creates no task. *)
LEMMA ReadQuietStep ==
  ASSUME DataOK, TaskInv, InboxInv, nconn \in Conns, inbox[nconn] # << >>,
         inbox' = [inbox EXCEPT ![nconn] = Tail(@)], UNCHANGED <<task, outbox, served>>
  PROVE  TaskInv' /\ InboxInv'
<1>1. \A c \in Conns, e \in Elements : Has(inbox'[c], ReqMsg(e)) => Has(inbox[c], ReqMsg(e))
  BY PopStep
<1>2. TaskInv'
  <2> SUFFICES ASSUME NEW c \in Conns, NEW e \in Elements PROVE TaskOK(c, e)'
    BY DEF TaskInv
  <2> QED BY <1>1, TaskOKFrame DEF TaskInv
<1> QED BY <1>2, PopStep

(* The receive loop reads an AsyncRequest and creates its dispatch task. *)
LEMMA ActiveRequestStep ==
  ASSUME DataOK, Live, TaskInv, InboxInv, ActiveRequest
  PROVE  TaskInv' /\ InboxInv'
<1>1. /\ nconn \in Conns /\ inbox[nconn] # << >> /\ Head(inbox[nconn]).kind \in {"Req"}
  BY ReadTyped DEF ActiveRequest
<1>2. PICK x \in Elements : Head(inbox[nconn]) = ReqMsg(x)
  <2>1. Head(inbox[nconn]) \in InMsg
    BY <1>1, HeadTyped
  <2> QED BY <1>1, <2>1 DEF InMsg, Msg, ReqMsg
<1>3. /\ inbox' = [inbox EXCEPT ![nconn] = Tail(@)]
      /\ task' = [task EXCEPT ![nconn][x] = [pc |-> "created", status |-> 0]]
      /\ UNCHANGED <<outbox, served, nconn>>
  <2>1. Head(inbox[nconn]).elem = x
    BY <1>2 DEF ReqMsg
  <2> QED BY <2>1, Zenon DEF ActiveRequest, ActRead, Pop, SetTask, ActVars
<1>4. /\ \A c \in Conns, e \in Elements : Has(inbox'[c], ReqMsg(e)) => Has(inbox[c], ReqMsg(e))
      /\ ~Has(inbox'[nconn], ReqMsg(x))
      /\ InboxInv'
  BY <1>1, <1>2, <1>3, PopStep
<1>5. Has(inbox[nconn], ReqMsg(x)) /\ ReqMsg(x) \in served[nconn]
  <2>1. 1 \in DOMAIN inbox[nconn] /\ inbox[nconn][1] = ReqMsg(x)
    BY <1>1, <1>2 DEF DataOK
  <2> QED BY <1>1, <2>1 DEF Has, InboxInv
<1>6. TaskOK(nconn, x)
  BY <1>1 DEF TaskInv
<1>7. task[nconn][x].pc = "none" /\ AC(outbox[nconn], x) = {}
  BY <1>5, <1>6 DEF TaskOK
<1>8. ASSUME NEW c \in Conns, NEW e \in Elements, c = nconn, e = x
      PROVE  TaskOK(c, e)'
  <2>1. task'[c][e] = [pc |-> "created", status |-> 0]
    BY <1>1, <1>3, <1>8 DEF DataOK
  <2>2. /\ ~Has(inbox'[c], ReqMsg(e)) /\ ReqMsg(e) \in served'[c]
        /\ AC(outbox'[c], e) = {}
    BY <1>3, <1>4, <1>5, <1>7, <1>8
  <2> QED BY <2>1, <2>2 DEF TaskOK
<1>9. ASSUME NEW c \in Conns, NEW e \in Elements, ~(c = nconn /\ e = x)
      PROVE  TaskOK(c, e)'
  <2>1. task'[c][e] = task[c][e]
    BY <1>3, <1>9 DEF DataOK
  <2>2. TaskOK(c, e)
    BY DEF TaskInv
  <2>3. /\ served[c] \subseteq served'[c]
        /\ AC(outbox'[c], e) \subseteq AC(outbox[c], e)
        /\ \A i \in AC(outbox'[c], e) : outbox'[c][i] = outbox[c][i]
    BY <1>3
  <2>4. Has(inbox'[c], ReqMsg(e)) => Has(inbox[c], ReqMsg(e))
    BY <1>4
  <2> QED BY <2>1, <2>2, <2>3, <2>4, TaskOKFrame
<1>10. TaskInv'
  <2> SUFFICES ASSUME NEW c \in Conns, NEW e \in Elements PROVE TaskOK(c, e)'
    BY DEF TaskInv
  <2>1. CASE c = nconn /\ e = x
    BY <1>8, <2>1
  <2>2. CASE ~(c = nconn /\ e = x)
    BY <1>9, <2>2
  <2> QED BY <2>1, <2>2
<1> QED BY <1>4, <1>10

(* A dispatch task moves on without sending: it calls the handler, the      *)
(* handler returns or raises. It is past its request frame, which is read.  *)
LEMMA TaskMove ==
  ASSUME TaskInv, InboxInv, NEW c0 \in Conns, NEW e0 \in Elements,
         task[c0][e0].pc \in {"created", "handler"},
         task'[c0][e0].pc # "none",
         task'[c0][e0].pc = "send" => task'[c0][e0].status # 202,
         \A c \in Conns, e \in Elements : ~(c = c0 /\ e = e0) => task'[c][e] = task[c][e],
         UNCHANGED <<outbox, inbox, served>>
  PROVE  TaskInv' /\ InboxInv'
<1>1. InboxInv'
  BY DEF InboxInv, NoDup
<1>2. ASSUME NEW c \in Conns, NEW e \in Elements, c = c0, e = e0
      PROVE  TaskOK(c, e)'
  <2>1. /\ AC(outbox[c], e) = {} /\ ReqMsg(e) \in served[c]
        /\ ~Has(inbox[c], ReqMsg(e))
    BY <1>2 DEF TaskInv, TaskOK
  <2> QED BY <1>2, <2>1 DEF TaskOK
<1>3. ASSUME NEW c \in Conns, NEW e \in Elements, ~(c = c0 /\ e = e0)
      PROVE  TaskOK(c, e)'
  <2>1. task'[c][e] = task[c][e]
    BY <1>3
  <2>2. TaskOK(c, e)
    BY DEF TaskInv
  <2> QED BY <2>1, <2>2, TaskOKFrame
<1>4. TaskInv'
  <2> SUFFICES ASSUME NEW c \in Conns, NEW e \in Elements PROVE TaskOK(c, e)'
    BY DEF TaskInv
  <2>1. CASE c = c0 /\ e = e0
    BY <1>2, <2>1
  <2>2. CASE ~(c = c0 /\ e = e0)
    BY <1>3, <2>2
  <2> QED BY <2>1, <2>2
<1> QED BY <1>1, <1>4

LEMMA TaskStepStep ==
  ASSUME DataOK, TaskInv, InboxInv, NEW c \in Conns, NEW e \in Elements,
         TaskStart(c, e) \/ HandlerRaises(c, e) \/ \E s \in ReturnCodes : HandlerReturns(c, e, s)
  PROVE  TaskInv' /\ InboxInv'
<1> DEFINE Set(p, v) == [task EXCEPT ![c][e] = [pc |-> p, status |-> v]]
           Moved == /\ task'[c][e].pc # "none"
                    /\ task'[c][e].pc = "send" => task'[c][e].status # 202
                    /\ \A d \in Conns, x \in Elements :
                         ~(d = c /\ x = e) => task'[d][x] = task[d][x]
<1>1. UNCHANGED <<outbox, inbox, served>>
  BY Zenon DEF TaskStart, HandlerRaises, HandlerReturns, TaskVars
<1>2. ASSUME NEW p \in {"handler", "send", "done"}, NEW v \in Nat, p = "send" => v # 202,
             task' = Set(p, v)
      PROVE  Moved
  BY <1>2 DEF DataOK
<1>3. task[c][e].pc \in {"created", "handler"} /\ Moved
  <2>1. CASE TaskStart(c, e)
    <3>1. /\ task[c][e].pc = "created"
          /\ task' = Set("handler", 0) \/ task' = Set("send", 500)
      BY <2>1, Zenon DEF TaskStart, SetTask
    <3>2. CASE task' = Set("handler", 0)
      BY <3>1, <3>2, <1>2
    <3>3. CASE task' = Set("send", 500)
      BY <3>1, <3>3, <1>2
    <3> QED BY <3>1, <3>2, <3>3
  <2>2. CASE HandlerRaises(c, e)
    <3>1. task[c][e].pc = "handler" /\ task' = Set("send", 500)
      BY <2>2, Zenon DEF HandlerRaises, SetTask
    <3> QED BY <3>1, <1>2
  <2>3. CASE \E s \in ReturnCodes : HandlerReturns(c, e, s)
    <3>1. PICK s \in ReturnCodes : HandlerReturns(c, e, s)
      BY <2>3
    <3>2. /\ task[c][e].pc = "handler"
          /\ \/ s = 202 /\ task' = Set("done", s)
             \/ s # 202 /\ task' = Set("send", s)
      BY <3>1, Zenon DEF HandlerReturns, SetTask
    <3>3. CASE s = 202 /\ task' = Set("done", s)
      BY <3>2, <3>3, <1>2
    <3>4. CASE s # 202 /\ task' = Set("send", s)
      BY <3>2, <3>4, <1>2
    <3> QED BY <3>2, <3>3, <3>4
  <2> QED BY <2>1, <2>2, <2>3
<1> QED BY <1>1, <1>3, TaskMove

(* A frame that is no automatic callback -- a Ping, or a callback of         *)
(* send_callback -- is appended to one connection, or nothing is sent.      *)
LEMMA AppendOtherStep ==
  ASSUME DataOK, TaskInv, InboxInv, NEW c0 \in Conns, NEW f \in OutFrame,
         ~(f.type = "Callback" /\ f.auto),
         outbox' = [outbox EXCEPT ![c0] = IF links[c0] = "open" THEN Append(@, f) ELSE @],
         UNCHANGED <<task, inbox, served>>
  PROVE  TaskInv' /\ InboxInv'
<1>1. InboxInv'
  BY DEF InboxInv, NoDup
<1>2. ASSUME NEW c \in Conns, NEW e \in Elements PROVE TaskOK(c, e)'
  <2>1. /\ AC(outbox'[c], e) \subseteq AC(outbox[c], e)
        /\ \A i \in AC(outbox'[c], e) : outbox'[c][i] = outbox[c][i]
    <3>1. CASE c = c0 /\ links[c0] = "open"
      <4>1. outbox'[c] = Append(outbox[c], f) /\ outbox[c] \in Seq(OutFrame)
        BY <3>1 DEF DataOK
      <4>2. ~(f.type = "Callback" /\ f.auto /\ f.elem = e)
        BY Zenon
      <4>3. /\ AC(Append(outbox[c], f), e) = AC(outbox[c], e)
            /\ \A i \in AC(outbox[c], e) : Append(outbox[c], f)[i] = outbox[c][i]
        BY <4>1, <4>2, ACAppendOther
      <4> QED BY <4>1, <4>3
    <3>2. CASE ~(c = c0 /\ links[c0] = "open")
      BY <3>2 DEF DataOK
    <3> QED BY <3>1, <3>2
  <2>2. TaskOK(c, e)
    BY DEF TaskInv
  <2> QED BY <2>1, <2>2, TaskOKFrame
<1> QED BY <1>1, <1>2 DEF TaskInv

LEMMA SendCallbackStep ==
  ASSUME DataOK, TaskInv, InboxInv, NEW c \in Conns, NEW e \in Elements, NEW s \in ManualCodes,
         SendCallback(c, e, s)
  PROVE  TaskInv' /\ InboxInv'
<1>1. UNCHANGED <<task, inbox, served>>
  BY Zenon DEF SendCallback
<1>2. CASE ws = 0
  <2>1. UNCHANGED outbox
    BY <1>2, Zenon DEF SendCallback
  <2> QED BY <1>1, <2>1, QuietStep
<1>3. CASE ws # 0
  <2>1. outbox' = [outbox EXCEPT ![ws] = IF links[ws] = "open"
                     THEN Append(@, CbFrame(e, s, FALSE, c, ws)) ELSE @]
    BY <1>3, Zenon DEF SendCallback, SendOn
  <2>2. ws \in Conns /\ CbFrame(e, s, FALSE, c, ws) \in OutFrame
    BY <1>3 DEF DataOK, CbFrame, OutFrame
  <2>3. ~(CbFrame(e, s, FALSE, c, ws).type = "Callback" /\ CbFrame(e, s, FALSE, c, ws).auto)
    BY DEF CbFrame
  <2> QED BY <1>1, <2>1, <2>2, <2>3, AppendOtherStep
<1> QED BY <1>2, <1>3

LEMMA PingLoopStep ==
  ASSUME DataOK, TaskInv, InboxInv, PingLoop
  PROVE  TaskInv' /\ InboxInv'
<1>1. UNCHANGED <<task, inbox, served>>
  BY Zenon DEF PingLoop
<1>2. \/ /\ pingTask # 0
         /\ outbox' = [outbox EXCEPT ![pingTask] = IF links[pingTask] = "open"
                         THEN Append(@, Ctl("Ping")) ELSE @]
      \/ UNCHANGED outbox
  BY Zenon DEF PingLoop, SendOn
<1>3. CASE UNCHANGED outbox
  BY <1>1, <1>3, QuietStep
<1>4. CASE /\ pingTask # 0
           /\ outbox' = [outbox EXCEPT ![pingTask] = IF links[pingTask] = "open"
                           THEN Append(@, Ctl("Ping")) ELSE @]
  <2>1. pingTask \in Conns /\ Ctl("Ping") \in OutFrame /\ Ctl("Ping").type = "Ping"
    BY <1>4 DEF DataOK, Ctl, OutFrame
  <2> QED BY <1>1, <1>4, <2>1, AppendOtherStep
<1> QED BY <1>2, <1>3, <1>4

(* _send_callback of the dispatch task, on the connection it captured. *)
LEMMA TaskSendStep ==
  ASSUME DataOK, TaskInv, InboxInv, NEW c0 \in Conns, NEW e0 \in Elements, TaskSend(c0, e0)
  PROVE  TaskInv' /\ InboxInv'
<1>0. PICK cb \in OutFrame : cb = CbFrame(e0, task[c0][e0].status, TRUE, c0, c0)
  <2>1. task[c0][e0].status \in Nat /\ c0 \in 0..MaxConn
    BY DEF DataOK
  <2>2. CbFrame(e0, task[c0][e0].status, TRUE, c0, c0) \in OutFrame
    BY <2>1 DEF CbFrame, OutFrame
  <2> QED BY <2>2
<1>1. /\ task[c0][e0].pc = "send"
      /\ outbox' = [outbox EXCEPT ![c0] = IF links[c0] = "open" THEN Append(@, cb) ELSE @]
      /\ task' = [task EXCEPT ![c0][e0].pc = "done"]
      /\ UNCHANGED <<inbox, served>>
  BY <1>0, Zenon DEF TaskSend, SendOn, TaskVars
<1>2. /\ cb \in OutFrame
      /\ cb.type = "Callback" /\ cb.auto = TRUE /\ cb.elem = e0
      /\ cb.from = c0 /\ cb.status = task[c0][e0].status
  BY <1>0 DEF CbFrame
<1>3. /\ task'[c0][e0] = [pc |-> "done", status |-> task[c0][e0].status]
      /\ \A c \in Conns, e \in Elements : ~(c = c0 /\ e = e0) => task'[c][e] = task[c][e]
  <2>1. task[c0][e0] \in [pc : TaskPc, status : Nat]
    BY DEF DataOK
  <2> QED BY <1>1, <2>1 DEF DataOK
<1>4. /\ AC(outbox[c0], e0) = {} /\ task[c0][e0].status # 202
      /\ ReqMsg(e0) \in served[c0] /\ ~Has(inbox[c0], ReqMsg(e0))
  BY <1>1 DEF TaskInv, TaskOK
<1>5. InboxInv'
  BY <1>1 DEF InboxInv, NoDup
<1>6. TaskOK(c0, e0)'
  <2>1. /\ \A i, j \in AC(outbox'[c0], e0) : i = j
        /\ \A i \in AC(outbox'[c0], e0) : /\ outbox'[c0][i].from = c0
                                          /\ outbox'[c0][i].status = task[c0][e0].status
    <3>1. CASE links[c0] = "open"
      <4>1. outbox'[c0] = Append(outbox[c0], cb) /\ outbox[c0] \in Seq(OutFrame)
        BY <1>1, <3>1 DEF DataOK
      <4>2. cb.type = "Callback" /\ cb.auto /\ cb.elem = e0
        BY <1>2, Zenon
      <4>3. /\ AC(Append(outbox[c0], cb), e0) = AC(outbox[c0], e0) \cup {Len(outbox[c0]) + 1}
            /\ Append(outbox[c0], cb)[Len(outbox[c0]) + 1] = cb
        BY <1>2, <4>1, <4>2 DEF AC
      <4>4. AC(outbox'[c0], e0) = {Len(outbox[c0]) + 1}
            /\ outbox'[c0][Len(outbox[c0]) + 1] = cb
        BY <1>4, <4>1, <4>3
      <4> QED BY <1>2, <4>4
    <3>2. CASE links[c0] # "open"
      <4>1. outbox'[c0] = outbox[c0]
        BY <1>1, <3>2 DEF DataOK
      <4> QED BY <1>4, <4>1
    <3> QED BY <3>1, <3>2
  <2>2. /\ task'[c0][e0].pc = "done" /\ task'[c0][e0].status = task[c0][e0].status
        /\ served'[c0] = served[c0] /\ inbox'[c0] = inbox[c0]
    BY <1>1, <1>3
  <2>3. task'[c0][e0].pc \notin {"none", "created", "handler", "send"}
    BY <2>2
  <2> QED BY <1>4, <2>1, <2>2, <2>3 DEF TaskOK
<1>7. ASSUME NEW c \in Conns, NEW e \in Elements, ~(c = c0 /\ e = e0)
      PROVE  TaskOK(c, e)'
  <2>1. /\ AC(outbox'[c], e) \subseteq AC(outbox[c], e)
        /\ \A i \in AC(outbox'[c], e) : outbox'[c][i] = outbox[c][i]
    <3>1. CASE c = c0 /\ links[c0] = "open"
      <4>1. outbox'[c] = Append(outbox[c], cb) /\ outbox[c] \in Seq(OutFrame) /\ e # e0
        BY <1>1, <1>7, <3>1 DEF DataOK
      <4>2. ~(cb.type = "Callback" /\ cb.auto /\ cb.elem = e)
        BY <1>2, <4>1, Zenon
      <4>3. /\ AC(Append(outbox[c], cb), e) = AC(outbox[c], e)
            /\ \A i \in AC(outbox[c], e) : Append(outbox[c], cb)[i] = outbox[c][i]
        BY <1>2, <4>1, <4>2, ACAppendOther
      <4> QED BY <4>1, <4>3
    <3>2. CASE ~(c = c0 /\ links[c0] = "open")
      BY <1>1, <3>2 DEF DataOK
    <3> QED BY <3>1, <3>2
  <2>2. TaskOK(c, e) /\ task'[c][e] = task[c][e]
    BY <1>3, <1>7 DEF TaskInv
  <2> QED BY <1>1, <2>1, <2>2, TaskOKFrame
<1>8. TaskInv'
  <2> SUFFICES ASSUME NEW c \in Conns, NEW e \in Elements PROVE TaskOK(c, e)'
    BY DEF TaskInv
  <2>1. CASE c = c0 /\ e = e0
    BY <1>6, <2>1
  <2>2. CASE ~(c = c0 /\ e = e0)
    BY <1>7, <2>2
  <2> QED BY <2>1, <2>2
<1> QED BY <1>5, <1>8

(* websockets.connect returns a fresh transport, whose only frame is the     *)
(* Register that _register sends on it.                                      *)
LEMMA ConnectStep ==
  ASSUME DataOK, TaskInv, InboxInv, Connect
  PROVE  TaskInv' /\ InboxInv'
<1>1. /\ nconn \in 0..MaxConn /\ nconn < MaxConn
      /\ outbox' = [outbox EXCEPT ![nconn + 1] = << Ctl("Register") >>]
      /\ UNCHANGED <<task, inbox, served>>
  BY Zenon DEF Connect, DataOK
<1>2. InboxInv'
  BY <1>1 DEF InboxInv, NoDup
<1>3. ASSUME NEW c \in Conns, NEW e \in Elements PROVE TaskOK(c, e)'
  <2>1. /\ AC(outbox'[c], e) \subseteq AC(outbox[c], e)
        /\ \A i \in AC(outbox'[c], e) : outbox'[c][i] = outbox[c][i]
    <3>1. CASE c = nconn + 1
      <4>1. outbox'[c] = << Ctl("Register") >>
        BY <1>1, <3>1 DEF DataOK
      <4>2. AC(outbox'[c], e) = {}
        BY <4>1 DEF AC, Ctl
      <4> QED BY <4>2
    <3>2. CASE c # nconn + 1
      BY <1>1, <3>2 DEF DataOK
    <3> QED BY <3>1, <3>2
  <2>2. TaskOK(c, e)
    BY DEF TaskInv
  <2> QED BY <1>1, <2>1, <2>2, TaskOKFrame
<1> QED BY <1>2, <1>3 DEF TaskInv

(* The server sends a frame on an open connection, never the same frame      *)
(* twice on one connection.                                                  *)
LEMMA PushStep ==
  ASSUME DataOK, TaskInv, InboxInv, NEW c0 \in Conns, NEW m, ServerPush(c0, m)
  PROVE  TaskInv' /\ InboxInv'
<1>1. /\ m \notin served[c0]
      /\ inbox' = [inbox EXCEPT ![c0] = Append(@, m)]
      /\ served' = [served EXCEPT ![c0] = @ \cup {m}]
      /\ UNCHANGED <<task, outbox>>
  BY Zenon DEF ServerPush, SrvVars
<1>2. /\ inbox[c0] \in Seq(InMsg) /\ NoDup(inbox[c0])
      /\ inbox'[c0] = Append(inbox[c0], m) /\ served'[c0] = served[c0] \cup {m}
      /\ ~Has(inbox[c0], m)
  BY <1>1 DEF DataOK, InboxInv, Has
<1>3. \A x : Has(inbox'[c0], x) <=> Has(inbox[c0], x) \/ x = m
  BY <1>2, HasAppend
<1>4. InboxInv'
  <2> SUFFICES ASSUME NEW c \in Conns
               PROVE  /\ \A i \in DOMAIN inbox'[c] : inbox'[c][i] \in served'[c]
                      /\ NoDup(inbox'[c])
    BY DEF InboxInv
  <2>1. CASE c = c0
    <3>1. NoDup(inbox'[c])
      BY <1>2, <2>1, HasAppend
    <3>2. \A i \in DOMAIN inbox'[c] : inbox'[c][i] \in served'[c]
      BY <1>2, <2>1 DEF InboxInv
    <3> QED BY <3>1, <3>2
  <2>2. CASE c # c0
    BY <1>1, <2>2 DEF DataOK, InboxInv
  <2> QED BY <2>1, <2>2
<1>5. ASSUME NEW c \in Conns, NEW e \in Elements PROVE TaskOK(c, e)'
  <2>1. /\ served[c] \subseteq served'[c]
        /\ Has(inbox'[c], ReqMsg(e)) => Has(inbox[c], ReqMsg(e)) \/ ReqMsg(e) \notin served[c]
    <3>1. CASE c = c0
      BY <1>1, <1>2, <1>3, <3>1
    <3>2. CASE c # c0
      BY <1>1, <3>2 DEF DataOK
    <3> QED BY <3>1, <3>2
  <2>2. TaskOK(c, e)
    BY DEF TaskInv
  <2> QED BY <1>1, <2>1, <2>2, TaskOKFrame
<1> QED BY <1>4, <1>5 DEF TaskInv

-----------------------------------------------------------------------------
(* The main task: reading a frame that creates no task, or touching none of *)
(* the four.                                                                 *)
LEMMA MainTaskDispatch ==
  ASSUME DataOK, Live, TaskInv, InboxInv, MainTask
  PROVE  TaskInv' /\ InboxInv'
<1>1. CASE RunForever \/ ConnectFail \/ Wake \/ RegisterStreamEnds \/ ActiveStreamEnds
  <2>1. UNCHANGED <<task, outbox, inbox, served>>
    BY <1>1, Zenon DEF RunForever, ConnectFail, Wake, RegisterStreamEnds, ActiveStreamEnds
  <2> QED BY <2>1, QuietStep
<1>2. CASE Connect
  BY <1>2, ConnectStep
<1>3. CASE ActiveRequest
  BY <1>3, ActiveRequestStep
<1>4. CASE RegisterOk \/ RegisterRejected \/ RegisterBadJson \/ RegisterIgnore
  <2>1. /\ inbox' = [inbox EXCEPT ![nconn] = Tail(@)]
        /\ UNCHANGED <<task, outbox, served>>
    BY <1>4, Zenon DEF RegisterOk, RegisterRejected, RegisterBadJson, RegisterIgnore,
                        RegRead, Pop, RegVars
  <2>2. nconn \in Conns /\ inbox[nconn] # << >>
    BY <1>4, ReadTyped DEF RegisterOk, RegisterRejected, RegisterBadJson, RegisterIgnore
  <2> QED BY <2>1, <2>2, ReadQuietStep
<1>5. CASE ActiveBadShape \/ ActiveIgnore
  <2>1. /\ inbox' = [inbox EXCEPT ![nconn] = Tail(@)]
        /\ UNCHANGED <<task, outbox, served>>
    BY <1>5, Zenon DEF ActiveBadShape, ActiveIgnore, ActRead, Pop, ActVars
  <2>2. nconn \in Conns /\ inbox[nconn] # << >>
    BY <1>5, ReadTyped DEF ActiveBadShape, ActiveIgnore
  <2> QED BY <2>1, <2>2, ReadQuietStep
<1> QED BY <1>1, <1>2, <1>3, <1>4, <1>5 DEF MainTask

LEMMA NextDispatch ==
  ASSUME DataOK, Live, TaskInv, InboxInv, [Next]_vars
  PROVE  TaskInv' /\ InboxInv'
<1>1. CASE MainTask
  BY <1>1, MainTaskDispatch
<1>2. CASE \E c \in Conns, e \in Elements : Dispatch(c, e)
  <2>1. PICK c \in Conns, e \in Elements : Dispatch(c, e)
    BY <1>2
  <2>2. CASE TaskSend(c, e)
    BY <2>2, TaskSendStep
  <2>3. CASE TaskStart(c, e) \/ HandlerRaises(c, e) \/ \E s \in ReturnCodes : HandlerReturns(c, e, s)
    BY <2>3, TaskStepStep
  <2> QED BY <2>1, <2>2, <2>3 DEF Dispatch
<1>3. CASE PingLoop
  BY <1>3, PingLoopStep
<1>4. CASE \E c \in Conns, e \in Elements, s \in ManualCodes : SendCallback(c, e, s)
  BY <1>4, SendCallbackStep
<1>5. CASE \E c \in Conns : ServerRespond(c) \/ ServerSend(c)
  <2>1. PICK c \in Conns : ServerRespond(c) \/ ServerSend(c)
    BY <1>5
  <2>2. \E m : ServerPush(c, m)
    BY <2>1, Zenon DEF ServerRespond, ServerSend
  <2> QED BY <2>2, PushStep
<1>6. CASE OnAsyncRequest \/ Close \/ (\E c \in Conns : ServerClose(c)) \/ Done
           \/ UNCHANGED vars
  <2>1. UNCHANGED <<task, outbox, inbox, served>>
    BY <1>6, Zenon DEF OnAsyncRequest, Close, ServerClose, SrvVars, Done, vars
  <2> QED BY <2>1, QuietStep
<1> QED BY <1>1, <1>2, <1>3, <1>4, <1>5, <1>6 DEF Next, Application, Server

LEMMA InitDispatch == Init => TaskInv /\ InboxInv
BY DEF Init, TaskInv, TaskOK, InboxInv, AC, Has, NoDup

LEMMA NextDispatchInv == DispatchInv /\ [Next]_vars => DispatchInv'
<1> SUFFICES ASSUME DispatchInv, [Next]_vars PROVE DispatchInv'
  OBVIOUS
<1>1. SafeInv'
  BY NextSafeInv DEF DispatchInv
<1>2. TaskInv' /\ InboxInv'
  BY NextDispatch DEF DispatchInv, SafeInv, TypeInv
<1> QED BY <1>1, <1>2 DEF DispatchInv

LEMMA DispatchInvFaithful == DispatchInv => AutoCallbackFaithful
<1> SUFFICES ASSUME DataOK, TaskInv, NEW c \in Conns, NEW e \in Elements
             PROVE  /\ \A i, j \in AutoCallbacks(c, e) : i = j
                    /\ \A i \in AutoCallbacks(c, e) :
                         /\ outbox[c][i].from = c
                         /\ ReqMsg(e) \in served[c]
                         /\ task[c][e].pc = "done"
                         /\ task[c][e].status # 202
                         /\ outbox[c][i].status = task[c][e].status
  BY DEF DispatchInv, SafeInv, TypeInv, AutoCallbackFaithful
<1>1. TaskOK(c, e) /\ AutoCallbacks(c, e) = AC(outbox[c], e)
  BY ACDef DEF TaskInv
<1>2. CASE AC(outbox[c], e) = {}
  BY <1>1, <1>2
<1>3. CASE AC(outbox[c], e) # {}
  <2>1. task[c][e].pc \in TaskPc
    BY DEF DataOK
  <2>2. task[c][e].pc = "done"
    BY <1>1, <1>3, <2>1 DEF TaskOK, TaskPc
  <2> QED BY <1>1, <2>2 DEF TaskOK
<1> QED BY <1>2, <1>3

(* Every dispatch task of _dispatch_async_request sends at most one callback *)
(* by itself, on the connection its AsyncRequest arrived on, with the status *)
(* it settled on and never for 202 -- for every number of connections,      *)
(* elements and status codes, and whatever the server sends, closes or      *)
(* repeats across connections.                                               *)
THEOREM DispatchFaithful == Spec => []AutoCallbackFaithful
<1>1. Init => DispatchInv
  <2>1. Init => OpenInv
    BY DEF Init, OpenInv, IsOpen
  <2> QED BY <2>1, InitTypeInv, InitDispatch DEF DispatchInv, SafeInv
<1>2. Spec => []DispatchInv
  BY <1>1, NextDispatchInv, PTL DEF Spec
<1> QED BY <1>2, DispatchInvFaithful, PTL

====
