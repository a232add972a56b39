-------------------------- MODULE TunnelRefinement --------------------------
(***************************************************************************)
(* Tunnel implements TunnelSpec: every step of the goroutines is a step of *)
(* the abstract tunnel, or leaves it as it is.                             *)
(***************************************************************************)
EXTENDS TunnelProofs

LEMMA InitRefines == Init => Promise!Init
  BY DEF Init, Promise!Init, Status, Live, Served, HandlerStates

Frozen == UNCHANGED <<Status, Live, Served>>

\* A step that moves no client to or from being served keeps both sets.
SameClients == UNCHANGED <<Live, Served>>

\* Status looks at nothing but whether the loop was started, t.closed and Returned.
LEMMA StatusFrame ==
  ASSUME (loop = "none") <=> (loop' = "none"), UNCHANGED closed,
         Returned <=> Returned'
  PROVE  Status' = Status
  BY DEF Status

LEMMA LoopRefines ==
  ASSUME IInv, NEW c \in Conns,
         Connect(c) \/ Accept(c) \/ TrackConn(c) \/ Reject(c) \/ Spawn(c)
  PROVE  Frozen \/ Promise!Serve(c)
  <1>a. handler \in [Conns -> ConnStates]
    BY DEF IInv, TypeOK
  <1>b. handler[c] \in {"accepted", "rejected", "tracked"} => loop = "busy"
    BY DEF IInv, LoopOwnsOne, Busy
  <1>1. Status' = Status
    <2>1. (loop = "none") <=> (loop' = "none")
      BY <1>b DEF Connect, Accept, TrackConn, Reject, Spawn
    <2>2. UNCHANGED <<closed, closer>>
      BY DEF Connect, Accept, TrackConn, Reject, Spawn
    <2> QED
      BY <2>1, <2>2, StatusFrame DEF Returned
  <1>2. CASE Connect(c) \/ Accept(c) \/ Reject(c) \/ Spawn(c)
    BY <1>1, <1>2, <1>a
    DEF Connect, Accept, Reject, Spawn, Frozen, Live, Served, HandlerStates
  <1>3. CASE TrackConn(c) /\ closed
    BY <1>1, <1>3, <1>a DEF TrackConn, Frozen, Live, Served, HandlerStates
  <1>4. CASE TrackConn(c) /\ ~closed
    <2>1. Status = "up"
      BY <1>4, <1>b DEF TrackConn, Status
    <2>2. c \notin Served
      BY <1>4 DEF TrackConn, Served, HandlerStates
    <2>3. Live' = Live \cup {c} /\ Served' = Served \cup {c}
      BY <1>4, <1>a DEF TrackConn, Live, Served, HandlerStates
    <2> QED
      BY <1>1, <2>1, <2>2, <2>3 DEF Promise!Serve
  <1> QED
    BY <1>2, <1>3, <1>4

LEMMA HandlerRefines ==
  ASSUME IInv, NEW c \in Conns,
         \/ DialOK(c) \/ DialFail(c) \/ HandleDone(c) \/ CloseUpstream(c)
         \/ CloseClient(c) \/ UntrackConn(c) \/ HandlerExit(c)
  PROVE  Frozen \/ Promise!Release(c)
  <1>a. handler \in [Conns -> ConnStates]
    BY DEF IInv, TypeOK
  <1>1. Status' = Status
    <2>1. UNCHANGED <<loop, closed, closer>>
      BY DEF DialOK, DialFail, HandleDone, CloseUpstream, CloseClient, UntrackConn,
             HandlerExit
    <2> QED
      BY <2>1, StatusFrame DEF Returned
  <1>2. CASE HandlerExit(c)
    <2>1. c \in Live /\ Live' = Live \ {c} /\ Served' = Served
      BY <1>2, <1>a DEF HandlerExit, Live, Served, HandlerStates
    <2> QED
      BY <1>1, <2>1 DEF Promise!Release
  <1>3. CASE \/ DialOK(c) \/ DialFail(c) \/ HandleDone(c) \/ CloseUpstream(c)
             \/ CloseClient(c) \/ UntrackConn(c)
    BY <1>1, <1>3, <1>a
    DEF DialOK, DialFail, HandleDone, CloseUpstream, CloseClient, UntrackConn,
        Frozen, Live, Served, HandlerStates
  <1> QED
    BY <1>2, <1>3

LEMMA CloseRefines ==
  ASSUME IInv, NEW p \in Closers,
         \/ CloseCall(p) \/ CloseBegin(p) \/ CloseListener(p) \/ CloseUnlock(p)
         \/ CloseWait(p) \/ \E c \in Conns : CloseConn(p, c)
  PROVE  Frozen \/ Promise!BeginClose \/ Promise!Finish
  <1>a. handler \in [Conns -> ConnStates]
    BY DEF IInv, TypeOK
  <1>b. closer \in [Closers ->
          {"idle", "called", "noop", "listener", "conns", "wait", "done"}]
    BY DEF IInv, TypeOK
  <1>1. SameClients
    <2>1. CASE handler' = handler
      BY <2>1 DEF SameClients, Live, Served
    <2>2. CASE CloseListener(p)
      BY <1>a, <2>2 DEF CloseListener, SameClients, Live, Served, HandlerStates
    <2> QED
      BY <2>1, <2>2 DEF CloseCall, CloseBegin, CloseUnlock, CloseWait, CloseConn
  <1>2. CASE CloseBegin(p) /\ ~closed
    <2>1. ~Returned /\ ~Returned'
      BY <1>2, <1>b DEF CloseBegin, IInv, LockOwned, Owner, Returned
    <2>2. loop # "none" /\ loop' = loop
      BY <1>2 DEF CloseBegin, IInv, LockOwned
    <2>3. Status = "up" /\ Status' = "closing"
      BY <1>2, <2>1, <2>2 DEF CloseBegin, Status
    <2> QED
      BY <1>1, <2>3 DEF SameClients, Promise!BeginClose
  <1>3. CASE CloseWait(p)
    <2>1. closed /\ closed' /\ loop' = loop /\ loop # "none"
      BY <1>3 DEF CloseWait, IInv, LockOwned, Owner
    <2>2. ~Returned
      BY <1>3 DEF CloseWait, IInv, LockOwned, Owner, Returned
    <2>3. Returned'
      BY <1>3, <1>b DEF CloseWait, Returned
    <2>4. Status = "closing" /\ Status' = "closed"
      BY <2>1, <2>2, <2>3 DEF Status
    <2>5. Active = {} /\ loop \notin {"accept", "busy"}
      BY <1>3, WgPositive DEF CloseWait, IInv
    <2>6. Live = {}
      BY <2>5 DEF IInv, LoopOwnsOne, Busy, Active, Live
    <2> QED
      BY <1>1, <2>4, <2>6 DEF SameClients, Promise!Finish
  <1>4. CASE \/ CloseCall(p) \/ (CloseBegin(p) /\ closed) \/ CloseListener(p)
             \/ CloseUnlock(p) \/ \E c \in Conns : CloseConn(p, c)
    <2>1. Returned <=> Returned'
      BY <1>4, <1>b DEF CloseCall, CloseBegin, CloseListener, CloseUnlock, CloseConn,
                        Returned
    <2>2. UNCHANGED <<loop, closed>>
      BY <1>4 DEF CloseCall, CloseBegin, CloseListener, CloseUnlock, CloseConn
    <2> QED
      BY <1>1, <2>1, <2>2, StatusFrame DEF SameClients, Frozen
  <1> QED
    BY <1>2, <1>3, <1>4

LEMMA StepRefines == IInv /\ [Next]_vars => [Promise!Next]_(Promise!vars)
  <1> SUFFICES ASSUME IInv, [Next]_vars
               PROVE  Promise!Next \/ Frozen
    BY DEF Frozen, Promise!vars
  <1>1. CASE Closes
    BY <1>1, CloseRefines DEF Closes, Promise!Next
  <1>2. CASE NewDBTunnel
    <2>1. loop = "none" /\ loop' # "none" /\ ~closed /\ ~closed'
      BY <1>2 DEF NewDBTunnel, IInv, LockOwned, Owner
    <2>2. Status = "down" /\ Status' = "up"
      BY <2>1 DEF Status
    <2>3. SameClients
      BY <1>2 DEF NewDBTunnel, SameClients, Live, Served
    <2> QED
      BY <2>2, <2>3 DEF SameClients, Promise!Start, Promise!Next
  <1>3. CASE AcceptError
    <2>1. Status' = Status
      BY <1>3, StatusFrame DEF AcceptError, Returned
    <2> QED
      BY <1>3, <2>1 DEF AcceptError, Frozen, Live, Served
  <1>4. ASSUME NEW c \in Conns,
               Connect(c) \/ Accept(c) \/ TrackConn(c) \/ Reject(c) \/ Spawn(c)
        PROVE  Promise!Next \/ Frozen
    BY <1>4, LoopRefines DEF Promise!Next
  <1>5. ASSUME NEW c \in Conns,
               \/ DialOK(c) \/ DialFail(c) \/ HandleDone(c) \/ CloseUpstream(c)
               \/ CloseClient(c) \/ UntrackConn(c) \/ HandlerExit(c)
        PROVE  Promise!Next \/ Frozen
    BY <1>5, HandlerRefines DEF Promise!Next
  <1>6. CASE Still /\ UNCHANGED <<closed, closer>>
    <2>1. Status' = Status
      BY <1>6, StatusFrame DEF Still, Returned
    <2> QED
      BY <1>6, <2>1 DEF Still, Frozen, Live, Served
  <1>7. CASE \E p \in Closers : CloseListener(p)
    BY <1>7, CloseRefines DEF Promise!Next
  <1> QED
    BY NextMoves, NextCloses, <1>1, <1>2, <1>3, <1>4, <1>5, <1>6, <1>7 DEF Moves

\* The tunnel of db.go keeps the promise of TunnelSpec: it serves a client
\* only while up, at most once, and is closed only when it serves none.
THEOREM Refinement == Spec => PromiseKept
  <1>1. Init => Promise!Init
    BY InitRefines
  <1>2. IInv /\ [Next]_vars => [Promise!Next]_(Promise!vars)
    BY StepRefines
  <1> QED
    BY Invariance, <1>1, <1>2, PTL DEF Spec, PromiseKept, Promise!Spec

----------------------------------------------------------------------------
(* What the promise is worth, whoever keeps it.                            *)

LEMMA PromiseInv == PromiseKept => []Promise!HoldsWhatItServes
  <1>1. Promise!Init => Promise!HoldsWhatItServes
    BY DEF Promise!Init, Promise!HoldsWhatItServes
  <1>2. Promise!HoldsWhatItServes /\ [Promise!Next]_(Promise!vars)
          => Promise!HoldsWhatItServes'
    BY DEF Promise!Next, Promise!vars, Promise!Start, Promise!Serve, Promise!Release,
           Promise!BeginClose, Promise!Finish, Promise!HoldsWhatItServes
  <1> QED
    BY <1>1, <1>2, PTL DEF PromiseKept, Promise!Spec

\* Connections are served between start and Close and at no other time, none twice,
\* and a closed tunnel holds nothing and stays so.  (db.go:91-96)
THEOREM PromiseMeans ==
  PromiseKept => /\ []Promise!HoldsWhatItServes
                 /\ Promise!ServesOnlyWhileUp
                 /\ Promise!ClosedForGood
  <1>1. [Promise!Next]_(Promise!vars) =>
          [/\ Status # "up" => Served' = Served
           /\ \A c \in Conns : c \in Served \ Live => c \notin Live']_(Promise!vars)
    BY DEF Promise!Next, Promise!vars, Promise!Start, Promise!Serve, Promise!Release,
           Promise!BeginClose, Promise!Finish
  <1>2. Promise!HoldsWhatItServes /\ [Promise!Next]_(Promise!vars) =>
          [Status = "closed" => UNCHANGED Promise!vars]_(Promise!vars)
    BY DEF Promise!Next, Promise!vars, Promise!Start, Promise!Serve, Promise!Release,
           Promise!BeginClose, Promise!Finish, Promise!HoldsWhatItServes
  <1> QED
    BY <1>1, <1>2, PromiseInv, PTL
    DEF PromiseKept, Promise!Spec, Promise!ServesOnlyWhileUp, Promise!ClosedForGood

\* So the database tunnel serves nobody whom Close could miss, and nobody twice.
\* (db.go:215-267)
THEOREM ServesBetween ==
  Spec => /\ []Promise!HoldsWhatItServes
          /\ Promise!ServesOnlyWhileUp
          /\ Promise!ClosedForGood
  BY Refinement, PromiseMeans
=============================================================================
