---------------------------- MODULE DispatchEngine ----------------------------
(***************************************************************************)
(* What the Dispatch Engine of the SlimFaas client promises (spec 4.5 and  *)
(* 5), for each AsyncRequest, identified by the connection it was          *)
(* delivered on and its element id:                                        *)
(*   - it is accepted for dispatch at most once, and only once delivered;  *)
(*   - its outcome is either a reply, or a deferral (status 202) that the  *)
(*     application later hands over through send_callback;                *)
(*   - a reply puts exactly one automatic callback, never 202, on the     *)
(*     connection the request came on, if that connection is still open;  *)
(*     on a closed one the reply is lost;                                  *)
(*   - a deferred request gets no automatic callback at all.               *)
(* Connections close for good.                                             *)
(***************************************************************************)
CONSTANTS
  Conn,    \* connections
  Elem,    \* element ids
  Status   \* status codes a reply may carry

VARIABLES
  delivered,  \* delivered[c]: element ids whose AsyncRequest was delivered on c
  closed,     \* connections closed so far
  stage,      \* stage[c][e]: "none", "accepted", "deferred", "handedOver" or "replied"
  answer      \* answer[c][e]: statuses of the automatic callbacks for e on c

absVars == <<delivered, closed, stage, answer>>

Init ==
  /\ delivered = [c \in Conn |-> {}]
  /\ closed = {}
  /\ stage = [c \in Conn |-> [e \in Elem |-> "none"]]
  /\ answer = [c \in Conn |-> [e \in Elem |-> {}]]

Move(c, e, from, to) == stage[c][e] = from /\ stage' = [stage EXCEPT ![c][e] = to]

(* The server delivers a request on a connection that is not closed. *)
Deliver(c, e) ==
  /\ c \notin closed /\ e \notin delivered[c]
  /\ delivered' = [delivered EXCEPT ![c] = @ \cup {e}]
  /\ UNCHANGED <<closed, stage, answer>>

(* A connection closes, by either side. *)
Disconnect(c) ==
  /\ c \notin closed /\ closed' = closed \cup {c}
  /\ UNCHANGED <<delivered, stage, answer>>

(* A delivered request is taken for dispatch. *)
Accept(c, e) ==
  /\ e \in delivered[c] /\ Move(c, e, "none", "accepted")
  /\ UNCHANGED <<delivered, closed, answer>>

(* The handler answers 202: completion is left to the application. *)
Defer(c, e) ==
  /\ Move(c, e, "accepted", "deferred")
  /\ UNCHANGED <<delivered, closed, answer>>

(* The application reports the deferred request through send_callback. *)
HandOver(c, e) ==
  /\ Move(c, e, "deferred", "handedOver")
  /\ UNCHANGED <<delivered, closed, answer>>

(* The dispatch answers s on the request's own, still open, connection. *)
Reply(c, e, s) ==
  /\ c \notin closed /\ s \in Status \ {202}
  /\ Move(c, e, "accepted", "replied")
  /\ answer' = [answer EXCEPT ![c][e] = {s}]
  /\ UNCHANGED <<delivered, closed>>

(* The request's connection is closed: the reply goes nowhere. *)
ReplyLost(c, e) ==
  /\ c \in closed
  /\ Move(c, e, "accepted", "replied")
  /\ UNCHANGED <<delivered, closed, answer>>

Next ==
  \/ \E c \in Conn : Disconnect(c)
  \/ \E c \in Conn, e \in Elem :
       \/ Deliver(c, e) \/ Accept(c, e) \/ Defer(c, e) \/ HandOver(c, e)
       \/ ReplyLost(c, e) \/ \E s \in Status : Reply(c, e, s)

Spec == Init /\ [][Next]_absVars

=============================================================================
