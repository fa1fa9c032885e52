--------------------- MODULE SlimFaasClientRefinement ----------------------
(***************************************************************************)
(* Proof that the client implements the abstract Reconnection Loop of      *)
(* ReconnectLoop.tla under the mapping of SlimFaasClient (LoopOf, LiveConn,*)
(* nconn), for every value of the constants that satisfies ConstAssumption.*)
(* It rests on SafeInv: the only open transport is the last one opened,    *)
(* while the main task is in _register or the receive loop.                *)
(***************************************************************************)
EXTENDS SlimFaasClientProofs

USE ConstAssumption DEF Conns, ConstAssumption

AbsVars == <<LoopOf, LiveConn, nconn>>

(* A step of the abstract loop or a stutter of the mapped state. *)
AbsStep == [Abs!Next]_AbsVars

(* Steps that touch neither the phase, nor the links, nor the counter map *)
(* to a stutter.                                                            *)
LEMMA StutterStep ==
  ASSUME UNCHANGED <<phase, nconn, links>>
  PROVE  AbsStep
  BY DEF AbsStep, AbsVars, LoopOf, LiveConn, IsOpen

(* Outside _register and the receive loop no transport is open. *)
LEMMA LiveZero ==
  ASSUME OpenInv, phase \notin {"AwaitResponse", "Active"}
  PROVE  LiveConn = 0
  BY DEF OpenInv, LiveConn

(* A step that closes transport nconn leaves none open. *)
LEMMA LiveClosed ==
  ASSUME DataOK, CloseLink(nconn), UNCHANGED nconn
  PROVE  LiveConn' = 0
  BY DEF CloseLink, LiveConn, IsOpen, DataOK

(* A step of the running loop that leaves no transport open and either      *)
(* keeps the loop running or stops it is a Lose, a Finish("Stopped") or a    *)
(* stutter.                                                                  *)
LEMMA EndStep ==
  ASSUME LoopOf = "Running", LiveConn' = 0, UNCHANGED nconn,
         LoopOf' \in {"Running", "Stopped"}
  PROVE  AbsStep
<1>1. CASE LoopOf' = "Stopped"
  BY <1>1 DEF AbsStep, Abs!Next, Abs!Finish
<1>2. CASE LoopOf' = "Running" /\ LiveConn # 0
  BY <1>2 DEF AbsStep, Abs!Next, Abs!Lose
<1>3. CASE LoopOf' = "Running" /\ LiveConn = 0
  BY <1>3 DEF AbsStep, AbsVars
<1> QED BY <1>1, <1>2, <1>3

-----------------------------------------------------------------------------
(* One lemma per group of operations. *)

LEMMA RunForeverStep == ASSUME RunForever PROVE AbsStep
<1>1. phase = "Idle" /\ phase' = "Connecting" /\ UNCHANGED <<nconn, links>>
  BY Zenon DEF RunForever
<1> QED BY <1>1 DEF AbsStep, Abs!Next, Abs!Start, LoopOf, LiveConn, IsOpen

LEMMA ConnectStep == ASSUME DataOK, OpenInv, Connect PROVE AbsStep
<1>1. /\ phase = "Connecting" /\ phase' = "AwaitResponse"
      /\ nconn < MaxConn /\ nconn' = nconn + 1
      /\ links' = [links EXCEPT ![nconn + 1] = "open"]
  BY Zenon DEF Connect
<1>2. LiveConn = 0
  BY <1>1, LiveZero
<1>3. LiveConn' = nconn + 1
  BY <1>1 DEF LiveConn, IsOpen, DataOK
<1> QED BY <1>1, <1>2, <1>3 DEF AbsStep, Abs!Next, Abs!Open, LoopOf

(* Steps that go from a phase with no open transport to an after-attempt *)
(* phase.                                                                   *)
LEMMA IdleEndStep ==
  ASSUME DataOK, OpenInv, ConnectFail \/ Wake \/ RegisterStreamEnds PROVE AbsStep
<1>1. /\ phase \in {"Connecting", "Sleeping", "AwaitResponse"}
      /\ phase' \in {AfterError, AfterReturn}
      /\ UNCHANGED <<nconn, links>>
  BY Zenon DEF ConnectFail, Wake, RegisterStreamEnds
<1>2. LiveConn' = 0
  <2>1. CASE phase \in {"Connecting", "Sleeping"}
    <3>1. LiveConn = 0
      BY <2>1, LiveZero
    <3> QED BY <1>1, <3>1 DEF LiveConn, IsOpen
  <2>2. CASE phase = "AwaitResponse"
    <3>1. links[nconn] \in {"closedOk", "closedErr"}
      BY <2>2, Zenon DEF ConnectFail, Wake, RegisterStreamEnds
    <3> QED BY <1>1, <3>1 DEF LiveConn, IsOpen
  <2> QED BY <1>1, <2>1, <2>2
<1>3. LoopOf = "Running" /\ LoopOf' \in {"Running", "Stopped"}
  BY <1>1, AfterPhases DEF LoopOf
<1> QED BY <1>1, <1>2, <1>3, EndStep

(* Steps that leave _connect_and_loop closing the transport. *)
LEMMA CloseEndStep ==
  ASSUME DataOK, RegisterBadJson \/ ActiveBadShape \/ ActiveStreamEnds PROVE AbsStep
<1>1. /\ phase \in {"AwaitResponse", "Active"}
      /\ phase' \in {AfterError, AfterReturn}
      /\ CloseLink(nconn) /\ UNCHANGED nconn
  BY Zenon DEF RegisterBadJson, ActiveBadShape, ActiveStreamEnds, RegRead, ActRead,
               LeaveActive, RegVars, ActVars
<1>2. LiveConn' = 0
  BY <1>1, LiveClosed
<1>3. LoopOf = "Running" /\ LoopOf' \in {"Running", "Stopped"}
  BY <1>1, AfterPhases DEF LoopOf
<1> QED BY <1>1, <1>2, <1>3, EndStep

LEMMA RejectStep == ASSUME DataOK, RegisterRejected PROVE AbsStep
<1>1. /\ phase = "AwaitResponse" /\ phase' = "Rejected"
      /\ CloseLink(nconn) /\ UNCHANGED nconn
  BY Zenon DEF RegisterRejected, RegRead, RegVars
<1>2. LiveConn' = 0
  BY <1>1, LiveClosed
<1> QED BY <1>1, <1>2 DEF AbsStep, Abs!Next, Abs!Finish, LoopOf

(* close() and the server only close transports. *)
LEMMA LoseStep ==
  ASSUME DataOK, OpenInv, Close \/ \E c \in Conns : ServerClose(c) PROVE AbsStep
<1>1. UNCHANGED <<phase, nconn>>
  BY Zenon DEF Close, ServerClose, SrvVars
<1>2. LiveConn' \in {0, LiveConn}
  <2>1. CASE Close
    <3>1. CASE ws # 0
      <4>1. CloseLink(ws)
        BY <2>1, <3>1, Zenon DEF Close
      <4>2. \A d \in Conns : IsOpen(d)' => IsOpen(d)
        BY <4>1, CloseLinkOpen
      <4> QED BY <1>1, <4>2 DEF LiveConn
    <3>2. CASE ws = 0
      <4>1. UNCHANGED links
        BY <2>1, <3>2, Zenon DEF Close
      <4> QED BY <1>1, <4>1 DEF LiveConn, IsOpen
    <3> QED BY <3>1, <3>2
  <2>2. CASE \E c \in Conns : ServerClose(c)
    <3>1. PICK c \in Conns : ServerClose(c)
      BY <2>2
    <3>2. /\ IsOpen(c)
          /\ \E k \in {"closedOk", "closedErr"} : links' = [links EXCEPT ![c] = k]
      BY <3>1, Zenon DEF ServerClose, IsOpen
    <3>3. c = nconn
      BY <3>2 DEF OpenInv
    <3> QED BY <1>1, <3>2, <3>3 DEF LiveConn, IsOpen, DataOK
  <2> QED BY <2>1, <2>2
<1>3. CASE LiveConn' = LiveConn
  BY <1>1, <1>3 DEF AbsStep, AbsVars, LoopOf
<1>4. CASE LiveConn' = 0 /\ LiveConn # 0
  BY <1>1, <1>4 DEF AbsStep, Abs!Next, Abs!Lose, LoopOf
<1> QED BY <1>2, <1>3, <1>4

(* Reading a frame in _register or the receive loop, and registering, keep *)
(* the loop running with the same transport.                               *)
LEMMA ReadStep ==
  ASSUME RegisterOk \/ RegisterIgnore \/ ActiveRequest \/ ActiveIgnore PROVE AbsStep
<1>1. /\ UNCHANGED <<links, nconn>>
      /\ phase \in {"AwaitResponse", "Active"} /\ phase' \in {"AwaitResponse", "Active"}
  BY Zenon DEF RegisterOk, RegisterIgnore, ActiveRequest, ActiveIgnore, RegRead, ActRead,
               RegVars, ActVars
<1> QED BY <1>1 DEF AbsStep, AbsVars, LoopOf, LiveConn, IsOpen

LEMMA MainTaskStep == ASSUME DataOK, OpenInv, MainTask PROVE AbsStep
BY RunForeverStep, ConnectStep, IdleEndStep, CloseEndStep, RejectStep, ReadStep, Zenon
DEF MainTask

LEMMA NextAbsStep == ASSUME SafeInv, [Next]_vars PROVE AbsStep
<1>1. DataOK /\ OpenInv
  BY DEF SafeInv, TypeInv
<1>2. CASE MainTask
  BY <1>1, <1>2, MainTaskStep
<1>3. CASE Close \/ \E c \in Conns : ServerClose(c)
  BY <1>1, <1>3, LoseStep
<1>4. CASE ~MainTask /\ ~Close /\ ~\E c \in Conns : ServerClose(c)
  <2>1. UNCHANGED <<phase, nconn, links>>
    BY <1>4, Zenon
    DEF Next, Application, Dispatch, Server, OnAsyncRequest, SendCallback, TaskStart,
        HandlerReturns, HandlerRaises, TaskSend, TaskVars, PingLoop, ServerRespond, ServerSend,
        ServerPush, SrvVars, Done, vars
  <2> QED BY <2>1, StutterStep
<1> QED BY <1>2, <1>3, <1>4

(* The client implements the abstract Reconnection Loop for every number of *)
(* connection attempts: run_forever opens transports one at a time and in    *)
(* order, only when none is open, and ends -- stopped by close() or rejected *)
(* by the server -- only with its transport closed, never to run again.      *)
THEOREM Refinement == Spec => ImplementsReconnectLoop
<1>1. Init => Abs!Init
  BY DEF Init, Abs!Init, LoopOf, LiveConn
<1>2. Init => SafeInv
  <2>1. Init => OpenInv
    BY DEF Init, OpenInv, IsOpen
  <2> QED BY <2>1, InitTypeInv DEF SafeInv
<1>3. Spec => []SafeInv
  BY <1>2, NextSafeInv, PTL DEF Spec
<1>4. SafeInv /\ [Next]_vars => [Abs!Next]_AbsVars
  BY NextAbsStep DEF AbsStep
<1>5. ImplementsReconnectLoop <=> Abs!Init /\ [][Abs!Next]_AbsVars
  BY DEF ImplementsReconnectLoop, Abs!Spec, Abs!absVars, AbsVars
<1> QED BY <1>1, <1>3, <1>4, <1>5, PTL DEF Spec

====
