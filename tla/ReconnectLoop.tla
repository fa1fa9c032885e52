---------------------------- MODULE ReconnectLoop ----------------------------
(***************************************************************************)
(* What the Reconnection Loop of the SlimFaas client promises (spec 4.4,   *)
(* 5 and 9): an outer loop that is idle, running, stopped or rejected; a   *)
(* running loop opens transports one at a time, each newer than the last,  *)
(* and only while none is open; a transport may be lost at any time; the  *)
(* loop stops (shutdown or a transient failure seen after close) or is     *)
(* rejected (a fatal RegisterResponse) only with its transport closed, and *)
(* neither end is ever left.                                               *)
(***************************************************************************)
EXTENDS Naturals

CONSTANT MaxConn   \* bound on the transports the loop may open

VARIABLES
  loop,    \* "Idle", "Running", "Stopped" or "Rejected"
  live,    \* the open transport, 0 = none
  opened   \* transports opened so far; they are numbered 1, 2, ...

absVars == <<loop, live, opened>>

Init == loop = "Idle" /\ live = 0 /\ opened = 0

(* run_forever is called. *)
Start == loop = "Idle" /\ loop' = "Running" /\ UNCHANGED <<live, opened>>

(* A new transport is opened, never while another is open. *)
Open ==
  /\ loop = "Running" /\ live = 0 /\ opened < MaxConn
  /\ opened' = opened + 1 /\ live' = opened + 1
  /\ UNCHANGED loop

(* The open transport is closed, by either side. *)
Lose == live # 0 /\ live' = 0 /\ UNCHANGED <<loop, opened>>

(* The loop ends, closing its transport if one is still open. *)
Finish(how) ==
  /\ loop = "Running" /\ loop' = how /\ live' = 0
  /\ UNCHANGED opened

Next == Start \/ Open \/ Lose \/ Finish("Stopped") \/ Finish("Rejected")

Spec == Init /\ [][Next]_absVars

=============================================================================
