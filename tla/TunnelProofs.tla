---------------------------- MODULE TunnelProofs ----------------------------
(***************************************************************************)
(* Proofs about Tunnel, for any finite set of clients, any set of callers  *)
(* of Close and any set of peers that may reset.                           *)
(*                                                                         *)
(* Each part of IInv has a lemma of its own.  A lemma first lists the      *)
(* actions that touch what its part speaks of (one leaf over Next), then   *)
(* treats those actions one by one.                                        *)
(***************************************************************************)
EXTENDS Tunnel, FiniteSetTheorems, TLAPS

LEMMA InitInv == Init => IInv
  <1> SUFFICES ASSUME Init PROVE IInv
    OBVIOUS
  <1>1. TypeOK
    <2>1. pump \in [Conns -> [Dirs -> {"none", "read", "write", "send", "exit"}]]
      BY DEF Init
    <2>2. done \in [Conns -> 0 .. DoneCap] /\ wg \in Nat
      BY DEF Init, DoneCap
    <2>3. closer \in [Closers ->
            {"idle", "called", "noop", "listener", "conns", "wait", "done"}]
      BY DEF Init
    <2>4. handler \in [Conns -> ConnStates]
      BY DEF Init, ConnStates
    <2> QED
      BY <2>1, <2>2, <2>3, <2>4 DEF Init, TypeOK
  <1>2. Active = {} /\ Busy = {}
    BY DEF Init, Active, HandlerStates, Busy
  <1>3. WgCounts
    BY <1>2, FS_EmptySet DEF Init, WgCounts
  <1>4. LoopOwnsOne /\ ConnsTracked
    BY <1>2 DEF Init, LoopOwnsOne, ConnsTracked
  <1>5. SocketsOwned
    BY DEF Init, SocketsOwned
  <1>6. LockOwned /\ CloseProgress
    BY DEF Init, LockOwned, CloseProgress, Owner
  <1> QED
    BY <1>1, <1>3, <1>4, <1>5, <1>6 DEF IInv

----------------------------------------------------------------------------
(* Which actions touch which variables.                                    *)

\* The actions that move a client between its states, t.wg's or the loop's.
Moves ==
  \/ NewDBTunnel \/ AcceptError
  \/ \E c \in Conns :
       \/ Connect(c) \/ Accept(c) \/ TrackConn(c) \/ Reject(c) \/ Spawn(c)
       \/ DialOK(c) \/ DialFail(c) \/ HandleDone(c) \/ CloseUpstream(c)
       \/ CloseClient(c) \/ UntrackConn(c) \/ HandlerExit(c)
  \/ \E p \in Closers : CloseListener(p)

\* The steps of Close.
Closes ==
  \E p \in Closers :
    \/ CloseCall(p) \/ CloseBegin(p) \/ CloseListener(p) \/ CloseUnlock(p)
    \/ CloseWait(p) \/ \E c \in Conns : CloseConn(p, c)

\* What every other step leaves alone.
Still ==
  /\ UNCHANGED <<listener, handler, loop, wg, conns, upstreamOpen>>
  /\ clientOpen' \subseteq clientOpen

LEMMA NextMoves ==
  [Next]_vars => Moves \/ Still
  <1> SUFFICES ASSUME [Next]_vars PROVE Moves \/ Still
    OBVIOUS
  <1>1. CASE UNCHANGED vars
    BY <1>1 DEF vars, Still
  <1>2. CASE NewDBTunnel \/ AcceptClosed \/ AcceptFails
    BY <1>2 DEF Moves, AcceptClosed, AcceptFails
  <1>3. ASSUME NEW c \in Conns, EnvConn(c)
        PROVE  Moves \/ Still
    BY <1>3 DEF Moves, Still, EnvConn, PeerFin, PeerBreak
  <1>4. ASSUME NEW c \in Conns, LoopStep(c) \/ HandlerStep(c)
        PROVE  Moves
    BY <1>4 DEF Moves, LoopStep, HandlerStep, HandlerLocal
  <1>5. ASSUME NEW c \in Conns, NEW d \in Dirs,
               PumpLocal(c, d) \/ PumpRead(c, d) \/ PumpWrite(c, d)
        PROVE  Still
    BY <1>5 DEF Still, PumpLocal, PumpRead, PumpWrite, PumpEof, PumpError, PumpSend, StepPump
  <1>6. ASSUME NEW p \in Closers, CloseCall(p) \/ CloseLocal(p)
        PROVE  Moves \/ Still
    BY <1>6 DEF Moves, Still, CloseLocal, CloseCall, CloseBegin, CloseUnlock, CloseWait, CloseConn
  <1> QED
    BY <1>1, <1>2, <1>3, <1>4, <1>5, <1>6 DEF Next

LEMMA NextCloses ==
  [Next]_vars => \/ Closes
                 \/ /\ UNCHANGED <<closed, mu, closer, todo>>
                    /\ loop = "none" \/ listener' = listener
                    /\ loop' = "none" => loop = "none"
  <1> DEFINE Frame == /\ UNCHANGED <<closed, mu, closer, todo>>
                      /\ loop = "none" \/ listener' = listener
                      /\ loop' = "none" => loop = "none"
  <1> SUFFICES ASSUME [Next]_vars PROVE Closes \/ Frame
    OBVIOUS
  <1>1. CASE UNCHANGED vars
    BY <1>1 DEF vars
  <1>2. CASE NewDBTunnel \/ AcceptClosed \/ AcceptFails
    BY <1>2 DEF NewDBTunnel, AcceptClosed, AcceptFails, AcceptError
  <1>3. ASSUME NEW c \in Conns, EnvConn(c)
        PROVE  Frame
    BY <1>3 DEF EnvConn, Connect, PeerFin, PeerBreak
  <1>4. ASSUME NEW c \in Conns, LoopStep(c) \/ HandlerStep(c)
        PROVE  Frame
    BY <1>4 DEF LoopStep, Accept, TrackConn, Reject, Spawn, HandlerStep, DialOK,
                DialFail, HandlerLocal, HandleDone, CloseUpstream, CloseClient,
                UntrackConn, HandlerExit
  <1>5. ASSUME NEW c \in Conns, NEW d \in Dirs,
               PumpLocal(c, d) \/ PumpRead(c, d) \/ PumpWrite(c, d)
        PROVE  Frame
    BY <1>5 DEF PumpLocal, PumpRead, PumpWrite, PumpEof, PumpError, PumpSend, StepPump
  <1>6. ASSUME NEW p \in Closers, CloseCall(p) \/ CloseLocal(p)
        PROVE  Closes
    BY <1>6 DEF Closes, CloseLocal
  <1> QED
    BY <1>1, <1>2, <1>3, <1>4, <1>5, <1>6 DEF Next

----------------------------------------------------------------------------
(* The WaitGroup.                                                          *)

LEMMA ActiveFinite == IsFiniteSet(Active) /\ Cardinality(Active) \in Nat
  BY ConnsFinite, FS_Subset, FS_CardinalityType DEF Active

\* Whoever is about to call wg.Done is counted.
LEMMA WgPositive ==
  ASSUME WgCounts, loop \in {"accept", "busy"} \/ Active # {}
  PROVE  wg \in Nat \ {0}
  <1>1. Active # {} => Cardinality(Active) # 0
    BY ActiveFinite, FS_EmptySet
  <1> QED
    BY <1>1, ActiveFinite DEF WgCounts

LEMMA WgStep == IInv /\ [Next]_vars => WgCounts'
  <1> SUFFICES ASSUME IInv, [Next]_vars PROVE WgCounts'
    OBVIOUS
  <1> USE DEF IInv
  <1>a. handler \in [Conns -> ConnStates]
    BY DEF TypeOK
  <1>1. CASE Still
    BY <1>1 DEF Still, WgCounts, Active
  <1>2. CASE NewDBTunnel
    BY <1>2, ActiveFinite DEF NewDBTunnel, WgCounts, Active
  <1>3. CASE AcceptError
    BY <1>3, ActiveFinite DEF AcceptError, WgCounts, Active
  <1>4. ASSUME NEW c \in Conns,
               Connect(c) \/ Accept(c) \/ TrackConn(c) \/ Reject(c)
        PROVE  WgCounts'
    <2>1. Active' = Active
      BY <1>a, <1>4 DEF Connect, Accept, TrackConn, Reject, Active, HandlerStates
    <2>2. handler[c] = "rejected" => loop = "busy"
      BY DEF LoopOwnsOne, Busy
    <2> QED
      BY <1>4, <2>1, <2>2, ActiveFinite
      DEF Connect, Accept, TrackConn, Reject, WgCounts
  <1>5. ASSUME NEW c \in Conns, Spawn(c)
        PROVE  WgCounts'
    <2>1. Active' = Active \cup {c} /\ c \notin Active
      BY <1>a, <1>5 DEF Spawn, Active, HandlerStates
    <2>2. Cardinality(Active') = Cardinality(Active) + 1
      BY <2>1, ActiveFinite, FS_AddElement
    <2>3. loop = "busy"
      BY <1>5 DEF Spawn, LoopOwnsOne, Busy
    <2> QED
      BY <1>5, <2>2, <2>3, ActiveFinite DEF Spawn, WgCounts
  <1>6. ASSUME NEW c \in Conns,
               \/ DialOK(c) \/ DialFail(c) \/ HandleDone(c)
               \/ CloseUpstream(c) \/ CloseClient(c) \/ UntrackConn(c)
        PROVE  WgCounts'
    <2>1. Active' = Active
      BY <1>a, <1>6 DEF DialOK, DialFail, HandleDone, CloseUpstream, CloseClient,
                        UntrackConn, Active, HandlerStates
    <2> QED
      BY <1>6, <2>1 DEF DialOK, DialFail, HandleDone, CloseUpstream, CloseClient,
                        UntrackConn, WgCounts
  <1>7. ASSUME NEW c \in Conns, HandlerExit(c)
        PROVE  WgCounts'
    <2>1. Active' = Active \ {c} /\ c \in Active
      BY <1>a, <1>7 DEF HandlerExit, Active, HandlerStates
    <2>2. Cardinality(Active') = Cardinality(Active) - 1
      BY <2>1, ActiveFinite, FS_RemoveElement
    <2> QED
      BY <1>7, <2>2, ActiveFinite DEF HandlerExit, WgCounts
  <1>8. ASSUME NEW p \in Closers, CloseListener(p)
        PROVE  WgCounts'
    <2>1. Active' = Active
      BY <1>a, <1>8 DEF CloseListener, Active, HandlerStates
    <2> QED
      BY <1>8, <2>1 DEF CloseListener, WgCounts
  <1> QED
    BY NextMoves, <1>1, <1>2, <1>3, <1>4, <1>5, <1>6, <1>7, <1>8 DEF Moves

----------------------------------------------------------------------------
(* Types.                                                                  *)

LEMMA TypeStep == IInv /\ [Next]_vars => TypeOK'
  <1> SUFFICES ASSUME IInv, [Next]_vars PROVE TypeOK'
    OBVIOUS
  <1> USE DEF IInv
  <1>0. TypeOK
    OBVIOUS
  <1>a. ASSUME NEW c \in Conns, handler[c] = "rejected" PROVE loop = "busy"
    BY <1>a DEF LoopOwnsOne, Busy
  <1>b. ASSUME NEW c \in Conns, handler[c] = "wgDone" PROVE Active # {}
    BY <1>b DEF Active, HandlerStates
  <1>1. CASE UNCHANGED vars
    BY <1>0, <1>1 DEF vars, TypeOK
  <1>2. CASE NewDBTunnel
    BY <1>0, <1>2 DEF NewDBTunnel, TypeOK, netVars, pumpVars
  <1>3. CASE AcceptClosed \/ AcceptFails
    BY <1>0, <1>3, WgPositive
    DEF AcceptClosed, AcceptFails, AcceptError, TypeOK, netVars, pumpVars
  <1>4. ASSUME NEW c \in Conns, EnvConn(c)
        PROVE  TypeOK'
    <2>1. CASE Connect(c)
      BY <1>0, <2>1 DEF Connect, TypeOK, ConnStates, netVars, pumpVars
    <2>2. ASSUME NEW side \in Sides, PeerFin(c, side) \/ PeerBreak(c, side)
          PROVE  TypeOK'
      BY <1>0, <2>2 DEF PeerFin, PeerBreak, TypeOK, pumpVars
    <2> QED
      BY <1>4, <2>1, <2>2 DEF EnvConn
  <1>5. ASSUME NEW c \in Conns, Accept(c) \/ TrackConn(c) \/ Spawn(c)
        PROVE  TypeOK'
    <2>1. CASE Accept(c)
      BY <1>0, <2>1 DEF Accept, TypeOK, ConnStates, netVars, pumpVars
    <2>2. CASE TrackConn(c)
      BY <1>0, <2>2 DEF TrackConn, TypeOK, ConnStates, netVars, pumpVars
    <2>3. CASE Spawn(c)
      BY <1>0, <2>3
      DEF Spawn, TypeOK, ConnStates, HandlerStates, netVars, pumpVars
    <2> QED
      BY <1>5, <2>1, <2>2, <2>3
  <1>6. ASSUME NEW c \in Conns, Reject(c) \/ HandlerExit(c)
        PROVE  TypeOK'
    <2>1. wg \in Nat \ {0}
      BY <1>6, <1>a, <1>b, WgPositive DEF Reject, HandlerExit
    <2> QED
      BY <1>0, <1>6, <2>1
      DEF Reject, HandlerExit, TypeOK, ConnStates, netVars, pumpVars
  <1>7. ASSUME NEW c \in Conns, DialOK(c)
        PROVE  TypeOK'
    BY <1>0, <1>7 DEF DialOK, TypeOK, ConnStates, HandlerStates, netVars
  <1>8. ASSUME NEW c \in Conns, HandleDone(c)
        PROVE  TypeOK'
    BY <1>0, <1>8 DEF HandleDone, TypeOK, ConnStates, HandlerStates, DoneCap,
                      netVars, pumpVars
  <1>9. ASSUME NEW c \in Conns,
               DialFail(c) \/ CloseUpstream(c) \/ CloseClient(c) \/ UntrackConn(c)
        PROVE  TypeOK'
    BY <1>0, <1>9 DEF DialFail, CloseUpstream, CloseClient, UntrackConn, TypeOK,
                      ConnStates, HandlerStates, netVars, pumpVars
  <1>10. ASSUME NEW c \in Conns, NEW d \in Dirs,
                PumpLocal(c, d) \/ PumpRead(c, d) \/ PumpWrite(c, d)
         PROVE  TypeOK'
    <2>1. pump' \in [Conns -> [Dirs -> {"none", "read", "write", "send", "exit"}]]
      BY <1>0, <1>10 DEF PumpLocal, PumpRead, PumpWrite, PumpEof, PumpError,
                         PumpSend, StepPump, TypeOK
    <2>2. done' \in [Conns -> 0 .. DoneCap]
      BY <1>0, <1>10 DEF PumpLocal, PumpRead, PumpWrite, PumpEof, PumpError,
                         PumpSend, TypeOK, DoneCap
    <2>3. relayed' \subseteq Conns \X Dirs
      BY <1>0, <1>10 DEF PumpLocal, PumpRead, PumpWrite, PumpEof, PumpError,
                         PumpSend, TypeOK
    <2>4. UNCHANGED <<listener, loop, closed, mu, conns, wg, closer, todo, handler,
                      clientOpen, upstreamOpen, netVars>>
      BY <1>10 DEF PumpLocal, PumpRead, PumpWrite, PumpEof, PumpError, PumpSend, StepPump
    <2> QED
      BY <1>0, <2>1, <2>2, <2>3, <2>4 DEF TypeOK, netVars
  <1>11. ASSUME NEW p \in Closers, CloseCall(p) \/ CloseLocal(p)
         PROVE  TypeOK'
    BY <1>0, <1>11
    DEF CloseLocal, CloseCall, CloseBegin, CloseListener, CloseConn, CloseUnlock,
        CloseWait, TypeOK, ConnStates, netVars, pumpVars
  <1> QED
    BY <1>1, <1>2, <1>3, <1>4, <1>5, <1>6, <1>7, <1>8, <1>9, <1>10, <1>11
    DEF Next, LoopStep, HandlerStep, HandlerLocal

----------------------------------------------------------------------------
(* The accept loop holds one client at a time, and lets go of it.          *)

LEMMA ClosedStays == [Next]_vars => (closed => closed')
  BY NextCloses DEF Closes, CloseCall, CloseBegin, CloseListener, CloseUnlock,
                    CloseWait, CloseConn

LEMMA LoopOwnsStep == IInv /\ [Next]_vars => LoopOwnsOne'
  <1> SUFFICES ASSUME IInv, [Next]_vars PROVE LoopOwnsOne'
    OBVIOUS
  <1> USE DEF IInv
  <1>a. handler \in [Conns -> ConnStates] /\ LoopOwnsOne
    BY DEF TypeOK
  <1>b. closed => closed'
    BY ClosedStays
  <1>1. CASE Still
    BY <1>1, <1>a, <1>b DEF Still, LoopOwnsOne, Busy
  <1>2. CASE NewDBTunnel \/ AcceptError
    BY <1>2, <1>a, <1>b DEF NewDBTunnel, AcceptError, LoopOwnsOne, Busy
  <1>3. ASSUME NEW c \in Conns, Connect(c)
        PROVE  LoopOwnsOne'
    BY <1>3, <1>a DEF Connect, LoopOwnsOne, Busy
  <1>4. ASSUME NEW c \in Conns, Accept(c)
        PROVE  LoopOwnsOne'
    <2>1. Busy = {} /\ Busy' = {c} /\ loop' = "busy"
      BY <1>4, <1>a DEF Accept, LoopOwnsOne, Busy
    <2> QED
      BY <1>4, <1>a, <2>1 DEF Accept, LoopOwnsOne
  <1>5. ASSUME NEW c \in Conns, TrackConn(c)
        PROVE  LoopOwnsOne'
    <2>1. Busy' = Busy /\ loop' = loop
      BY <1>5, <1>a DEF TrackConn, Busy
    <2> QED
      BY <1>5, <1>a, <2>1 DEF TrackConn, LoopOwnsOne
  <1>6. ASSUME NEW c \in Conns, Reject(c) \/ Spawn(c)
        PROVE  LoopOwnsOne'
    <2>1. Busy = {c}
      BY <1>6, <1>a DEF Reject, Spawn, LoopOwnsOne, Busy
    <2>2. Busy' = {} /\ loop' # "busy"
      BY <1>6, <1>a, <2>1 DEF Reject, Spawn, Busy
    <2> QED
      BY <1>6, <1>a, <1>b, <2>2 DEF Reject, Spawn, LoopOwnsOne
  <1>7. ASSUME NEW c \in Conns,
               \/ DialOK(c) \/ DialFail(c) \/ HandleDone(c) \/ CloseUpstream(c)
               \/ CloseClient(c) \/ UntrackConn(c) \/ HandlerExit(c)
        PROVE  LoopOwnsOne'
    <2>1. Busy' = Busy /\ loop' = loop
      BY <1>7, <1>a DEF DialOK, DialFail, HandleDone, CloseUpstream, CloseClient,
                        UntrackConn, HandlerExit, Busy
    <2>2. \A e \in Conns : handler'[e] = "rejected" => handler[e] = "rejected"
      BY <1>7, <1>a DEF DialOK, DialFail, HandleDone, CloseUpstream, CloseClient,
                        UntrackConn, HandlerExit
    <2> QED
      BY <1>a, <1>b, <2>1, <2>2 DEF LoopOwnsOne
  <1>8. ASSUME NEW p \in Closers, CloseListener(p)
        PROVE  LoopOwnsOne'
    <2>1. Busy' = Busy /\ loop' = loop
      BY <1>8, <1>a DEF CloseListener, Busy
    <2>2. \A e \in Conns : handler'[e] = "rejected" => handler[e] = "rejected"
      BY <1>8, <1>a DEF CloseListener
    <2> QED
      BY <1>a, <1>b, <2>1, <2>2 DEF LoopOwnsOne
  <1> QED
    BY NextMoves, <1>1, <1>2, <1>3, <1>4, <1>5, <1>6, <1>7, <1>8 DEF Moves

----------------------------------------------------------------------------
(* t.conns and the open sockets follow the clients' states.                *)

LEMMA ConnsStep == IInv /\ [Next]_vars => ConnsTracked'
  <1> SUFFICES ASSUME IInv, [Next]_vars PROVE ConnsTracked'
    OBVIOUS
  <1>a. handler \in [Conns -> ConnStates] /\ ConnsTracked
    BY DEF IInv, TypeOK
  <1>1. CASE Still \/ NewDBTunnel \/ AcceptError
    BY <1>1, <1>a DEF Still, NewDBTunnel, AcceptError, ConnsTracked
  <1>2. ASSUME NEW c \in Conns,
               Connect(c) \/ Accept(c) \/ Reject(c) \/ Spawn(c) \/ DialOK(c)
        PROVE  ConnsTracked'
    BY <1>2, <1>a DEF Connect, Accept, Reject, Spawn, DialOK, ConnsTracked
  <1>3. ASSUME NEW c \in Conns, TrackConn(c) \/ UntrackConn(c)
        PROVE  ConnsTracked'
    BY <1>3, <1>a DEF TrackConn, UntrackConn, ConnsTracked
  <1>4. ASSUME NEW c \in Conns,
               \/ DialFail(c) \/ HandleDone(c) \/ CloseUpstream(c)
               \/ CloseClient(c) \/ HandlerExit(c)
        PROVE  ConnsTracked'
    BY <1>4, <1>a DEF DialFail, HandleDone, CloseUpstream, CloseClient,
                      HandlerExit, ConnsTracked
  <1>5. ASSUME NEW p \in Closers, CloseListener(p)
        PROVE  ConnsTracked'
    BY <1>5, <1>a DEF CloseListener, ConnsTracked
  <1> QED
    BY NextMoves, <1>1, <1>2, <1>3, <1>4, <1>5 DEF Moves

LEMMA SocketsStep == IInv /\ [Next]_vars => SocketsOwned'
  <1> SUFFICES ASSUME IInv, [Next]_vars PROVE SocketsOwned'
    OBVIOUS
  <1>a. handler \in [Conns -> ConnStates] /\ SocketsOwned
    BY DEF IInv, TypeOK
  <1>b. clientOpen \subseteq Conns /\ upstreamOpen \subseteq Conns
    BY DEF IInv, TypeOK
  <1>1. CASE Still \/ NewDBTunnel \/ AcceptError
    BY <1>1, <1>a DEF Still, NewDBTunnel, AcceptError, SocketsOwned
  <1>2. ASSUME NEW c \in Conns,
               Connect(c) \/ Accept(c) \/ TrackConn(c) \/ Reject(c) \/ Spawn(c)
        PROVE  SocketsOwned'
    BY <1>2, <1>a, <1>b DEF Connect, Accept, TrackConn, Reject, Spawn, SocketsOwned
  <1>3. ASSUME NEW c \in Conns, DialOK(c) \/ DialFail(c) \/ HandleDone(c)
        PROVE  SocketsOwned'
    BY <1>3, <1>a, <1>b DEF DialOK, DialFail, HandleDone, SocketsOwned
  <1>4. ASSUME NEW c \in Conns, CloseUpstream(c) \/ CloseClient(c)
        PROVE  SocketsOwned'
    BY <1>4, <1>a, <1>b DEF CloseUpstream, CloseClient, SocketsOwned
  <1>5. ASSUME NEW c \in Conns, UntrackConn(c) \/ HandlerExit(c)
        PROVE  SocketsOwned'
    BY <1>5, <1>a, <1>b DEF UntrackConn, HandlerExit, SocketsOwned
  <1>6. ASSUME NEW p \in Closers, CloseListener(p)
        PROVE  SocketsOwned'
    BY <1>6, <1>a, <1>b DEF CloseListener, SocketsOwned
  <1> QED
    BY NextMoves, <1>1, <1>2, <1>3, <1>4, <1>5, <1>6 DEF Moves

----------------------------------------------------------------------------
(* t.mu, t.closed and the progress of the Close that does the work.        *)

LEMMA LockStep == IInv /\ [Next]_vars => LockOwned'
  <1> SUFFICES ASSUME IInv, [Next]_vars PROVE LockOwned'
    OBVIOUS
  <1>a. LockOwned
    BY DEF IInv
  <1>b. closer \in [Closers ->
          {"idle", "called", "noop", "listener", "conns", "wait", "done"}]
    BY DEF IInv, TypeOK
  <1>1. CASE UNCHANGED <<closed, mu, closer>> /\ (loop' = "none" => loop = "none")
    BY <1>1, <1>a DEF LockOwned, Owner
  <1>2. ASSUME NEW p \in Closers, CloseCall(p)
        PROVE  LockOwned'
    BY <1>2, <1>a, <1>b DEF CloseCall, LockOwned, Owner
  <1>3. ASSUME NEW p \in Closers, CloseBegin(p)
        PROVE  LockOwned'
    BY <1>3, <1>a, <1>b DEF CloseBegin, LockOwned, Owner
  <1>4. ASSUME NEW p \in Closers, CloseListener(p) \/ CloseUnlock(p) \/ CloseWait(p)
        PROVE  LockOwned'
    BY <1>4, <1>a, <1>b DEF CloseListener, CloseUnlock, CloseWait, LockOwned, Owner
  <1>5. ASSUME NEW p \in Closers, NEW c \in Conns, CloseConn(p, c)
        PROVE  LockOwned'
    BY <1>5, <1>a DEF CloseConn, LockOwned, Owner
  <1> QED
    BY NextCloses, <1>1, <1>2, <1>3, <1>4, <1>5 DEF Closes

\* Once t.closed is set nothing joins t.conns and no client in it is opened.
LEMMA NoNewTracked ==
  ASSUME IInv, [Next]_vars, closed
  PROVE  conns' \cap clientOpen' \subseteq conns \cap clientOpen
  <1>a. handler \in [Conns -> ConnStates] /\ ConnsTracked
    BY DEF IInv, TypeOK
  <1>1. CASE Still \/ NewDBTunnel \/ AcceptError
    BY <1>1 DEF Still, NewDBTunnel, AcceptError
  <1>2. ASSUME NEW c \in Conns, Accept(c)
        PROVE  conns' \cap clientOpen' \subseteq conns \cap clientOpen
    <2>1. c \notin conns
      BY <1>2, <1>a DEF Accept, ConnsTracked
    <2> QED
      BY <1>2, <2>1 DEF Accept
  <1>3. ASSUME NEW c \in Conns,
               \/ Connect(c) \/ TrackConn(c) \/ Reject(c) \/ Spawn(c) \/ DialOK(c)
               \/ DialFail(c) \/ HandleDone(c) \/ CloseUpstream(c)
               \/ CloseClient(c) \/ UntrackConn(c) \/ HandlerExit(c)
        PROVE  conns' \cap clientOpen' \subseteq conns \cap clientOpen
    BY <1>3 DEF Connect, TrackConn, Reject, Spawn, DialOK, DialFail, HandleDone,
                CloseUpstream, CloseClient, UntrackConn, HandlerExit
  <1>4. ASSUME NEW p \in Closers, CloseListener(p)
        PROVE  conns' \cap clientOpen' \subseteq conns \cap clientOpen
    BY <1>4 DEF CloseListener
  <1> QED
    BY NextMoves, <1>1, <1>2, <1>3, <1>4 DEF Moves

\* Once the loop has returned and no handler is left, none is started.
LEMMA DoneStays ==
  ASSUME IInv, [Next]_vars, loop = "done", Active = {}
  PROVE  loop' = "done" /\ Active' = {}
  <1>a. handler \in [Conns -> ConnStates]
    BY DEF IInv, TypeOK
  <1>b. Busy = {}
    BY DEF IInv, LoopOwnsOne
  <1>1. CASE Still
    BY <1>1 DEF Still, Active
  <1>2. ASSUME NEW c \in Conns, Connect(c)
        PROVE  loop' = "done" /\ Active' = {}
    BY <1>2, <1>a DEF Connect, Active, HandlerStates
  <1>3. ASSUME NEW p \in Closers, CloseListener(p)
        PROVE  loop' = "done" /\ Active' = {}
    BY <1>3, <1>a DEF CloseListener, Active, HandlerStates
  <1>4. ASSUME NEW c \in Conns,
               Accept(c) \/ TrackConn(c) \/ Reject(c) \/ Spawn(c)
        PROVE  FALSE
    BY <1>4, <1>b DEF Accept, TrackConn, Reject, Spawn, Busy
  <1>5. ASSUME NEW c \in Conns,
               \/ DialOK(c) \/ DialFail(c) \/ HandleDone(c) \/ CloseUpstream(c)
               \/ CloseClient(c) \/ UntrackConn(c) \/ HandlerExit(c)
        PROVE  FALSE
    BY <1>5 DEF DialOK, DialFail, HandleDone, CloseUpstream, CloseClient,
                UntrackConn, HandlerExit, Active, HandlerStates
  <1>6. ~NewDBTunnel /\ ~AcceptError
    BY DEF NewDBTunnel, AcceptError
  <1> QED
    BY NextMoves, <1>1, <1>2, <1>3, <1>4, <1>5, <1>6 DEF Moves

LEMMA CloseStep == IInv /\ [Next]_vars => CloseProgress'
  <1> SUFFICES ASSUME IInv, [Next]_vars PROVE CloseProgress'
    OBVIOUS
  <1>a. CloseProgress /\ LockOwned
    BY DEF IInv
  <1>b. closer \in [Closers ->
          {"idle", "called", "noop", "listener", "conns", "wait", "done"}]
    BY DEF IInv, TypeOK
  <1>c. closed => conns' \cap clientOpen' \subseteq conns \cap clientOpen
    BY NoNewTracked
  <1>d. loop = "done" /\ Active = {} => loop' = "done" /\ Active' = {}
    BY DoneStays
  <1>1. CASE /\ UNCHANGED <<closed, mu, closer, todo>>
             /\ loop = "none" \/ listener' = listener
    <2>1. CASE loop = "none"
      BY <1>1, <1>a, <2>1 DEF CloseProgress, LockOwned
    <2>2. CASE listener' = listener
      <3>1. \A p \in Closers : Owner(p) => closed
        BY <1>a DEF LockOwned
      <3> QED
        BY <1>1, <1>a, <1>c, <1>d, <2>2, <3>1 DEF CloseProgress, Owner
    <2> QED
      BY <1>1, <2>1, <2>2
  <1>2. ASSUME NEW p \in Closers, CloseCall(p) \/ CloseBegin(p)
        PROVE  CloseProgress'
    BY <1>2, <1>a, <1>b, <1>d DEF CloseCall, CloseBegin, CloseProgress
  <1>3. ASSUME NEW p \in Closers, CloseListener(p)
        PROVE  CloseProgress'
    <2>1. \A q \in Closers : q # p => ~Owner(q)
      BY <1>3, <1>a DEF CloseListener, LockOwned, Owner
    <2> QED
      BY <1>3, <1>b, <2>1 DEF CloseListener, CloseProgress, Owner
  <1>4. ASSUME NEW p \in Closers, NEW c \in Conns, CloseConn(p, c)
        PROVE  CloseProgress'
    BY <1>4, <1>a, <1>d DEF CloseConn, CloseProgress
  <1>5. ASSUME NEW p \in Closers, CloseUnlock(p)
        PROVE  CloseProgress'
    BY <1>5, <1>a, <1>b, <1>d DEF CloseUnlock, CloseProgress
  <1>6. ASSUME NEW p \in Closers, CloseWait(p)
        PROVE  CloseProgress'
    <2>1. Active = {} /\ loop \notin {"accept", "busy"}
      BY <1>6, WgPositive DEF CloseWait, IInv
    <2>2. loop = "done"
      BY <1>6, <1>a, <2>1 DEF CloseWait, LockOwned, IInv, TypeOK
    <2> QED
      BY <1>6, <1>a, <1>b, <1>d, <2>1, <2>2 DEF CloseWait, CloseProgress
  <1> QED
    BY NextCloses, <1>1, <1>2, <1>3, <1>4, <1>5, <1>6 DEF Closes

----------------------------------------------------------------------------
(* The theorems.                                                           *)

LEMMA InvStep == IInv /\ [Next]_vars => IInv'
  BY TypeStep, LoopOwnsStep, WgStep, ConnsStep, SocketsStep, LockStep, CloseStep DEF IInv

\* The accounting of the tunnel's goroutines, connections and lock (types
\* included) holds in every reachable state.
THEOREM Invariance == Spec => []IInv
  BY InitInv, InvStep, PTL DEF Spec

\* Every variable keeps its type; in particular t.wg is never driven below
\* zero, on which Done would panic.
THEOREM TypeCorrect == Spec => []TypeOK
  <1>1. IInv => TypeOK
    BY DEF IInv
  <1> QED
    BY Invariance, <1>1, PTL

LEMMA ReturnedHoldsNothing == ASSUME IInv, Returned PROVE NothingHeld
  <1>1. PICK p \in Closers : closer[p] = "done"
    BY DEF Returned
  <1>2. listener = "closed" /\ loop = "done" /\ Active = {}
    BY <1>1 DEF IInv, CloseProgress
  <1>3. Busy = {}
    BY <1>2 DEF IInv, LoopOwnsOne
  <1>4. \A c \in Conns : handler[c] \in {"idle", "refused", "gone"}
    BY <1>2, <1>3 DEF IInv, TypeOK, ConnStates, Active, Busy, SocketsOwned
  <1>5. conns = {} /\ clientOpen = {} /\ upstreamOpen = {}
    BY <1>4 DEF IInv, TypeOK, ConnsTracked, SocketsOwned
  <1> QED
    BY <1>2, <1>4, <1>5 DEF NothingHeld

\* When the working Close has returned, the listener, the loop, every handler
\* and every socket of the tunnel are gone.
THEOREM LeakFreedom == Spec => []NothingLeaks
  <1>1. IInv => NothingLeaks
    BY ReturnedHoldsNothing DEF NothingLeaks
  <1> QED
    BY Invariance, <1>1, PTL

\* Whenever t.mu is free after Close has set t.closed, the listener and every
\* registered client are closed.
THEOREM ForcedClose == Spec => []ForceClosed
  <1>1. IInv => ForceClosed
    <2> SUFFICES ASSUME IInv, closed, ~mu
                 PROVE  listener = "closed" /\ conns \cap clientOpen = {}
      BY DEF ForceClosed
    <2>1. PICK p \in Closers : closer[p] \in {"wait", "done"}
      BY DEF IInv, LockOwned, Owner
    <2> QED
      BY <2>1 DEF IInv, CloseProgress
  <1> QED
    BY Invariance, <1>1, PTL

\* t.wg is only ever raised while something is already counted in it.
THEOREM AddBeforeWait == Spec => NoAddFromZero
  <1>1. IInv /\ [Next]_vars => [wg' > wg => wg > 0 \/ loop = "none"]_vars
    <2> SUFFICES ASSUME IInv, [Next]_vars, wg' > wg PROVE wg > 0 \/ loop = "none"
      OBVIOUS
    <2>1. wg \in Nat
      BY DEF IInv, TypeOK
    <2>2. CASE Still \/ NewDBTunnel \/ AcceptError
      BY <2>1, <2>2 DEF Still, NewDBTunnel, AcceptError
    <2>3. ASSUME NEW c \in Conns, Spawn(c) PROVE wg > 0
      <3>1. loop = "busy"
        BY <2>3 DEF Spawn, IInv, LoopOwnsOne, Busy
      <3> QED
        BY <3>1, WgPositive DEF IInv
    <2>4. ASSUME NEW c \in Conns,
                 \/ Connect(c) \/ Accept(c) \/ TrackConn(c) \/ Reject(c)
                 \/ DialOK(c) \/ DialFail(c) \/ HandleDone(c) \/ CloseUpstream(c)
                 \/ CloseClient(c) \/ UntrackConn(c) \/ HandlerExit(c)
          PROVE  FALSE
      BY <2>1, <2>4 DEF Connect, Accept, TrackConn, Reject, DialOK, DialFail,
                        HandleDone, CloseUpstream, CloseClient, UntrackConn, HandlerExit
    <2>5. ASSUME NEW p \in Closers, CloseListener(p) PROVE FALSE
      BY <2>1, <2>5 DEF CloseListener
    <2> QED
      BY NextMoves, <2>2, <2>3, <2>4, <2>5 DEF Moves
  <1> QED
    BY Invariance, <1>1, PTL DEF Spec, NoAddFromZero

----------------------------------------------------------------------------
(* Why a handler ends: PumpsCaused on top of IInv.                         *)

\* What only grows.
LEMMA EndedStays ==
  ASSUME [Next]_vars, NEW c \in Conns, Ended(c)
  PROVE  Ended(c)'
  <1>1. closed => closed'
    BY ClosedStays
  <1>2. broken \subseteq broken' /\ relayed \subseteq relayed'
    <2>1. CASE UNCHANGED vars
      BY <2>1 DEF vars
    <2>2. CASE NewDBTunnel \/ AcceptClosed \/ AcceptFails
      BY <2>2 DEF NewDBTunnel, AcceptClosed, AcceptFails, AcceptError, netVars, pumpVars
    <2>3. ASSUME NEW e \in Conns, EnvConn(e)
          PROVE  broken \subseteq broken' /\ relayed \subseteq relayed'
      BY <2>3 DEF EnvConn, Connect, PeerFin, PeerBreak, netVars, pumpVars
    <2>4. ASSUME NEW e \in Conns, LoopStep(e) \/ HandlerStep(e)
          PROVE  broken \subseteq broken' /\ relayed \subseteq relayed'
      BY <2>4 DEF LoopStep, Accept, TrackConn, Reject, Spawn, HandlerStep, DialOK,
                  DialFail, HandlerLocal, HandleDone, CloseUpstream, CloseClient,
                  UntrackConn, HandlerExit, netVars, pumpVars
    <2>5. ASSUME NEW e \in Conns, NEW d \in Dirs,
                 PumpLocal(e, d) \/ PumpRead(e, d) \/ PumpWrite(e, d)
          PROVE  broken \subseteq broken' /\ relayed \subseteq relayed'
      BY <2>5 DEF PumpLocal, PumpRead, PumpWrite, PumpEof, PumpError, PumpSend,
                  StepPump, netVars
    <2>6. ASSUME NEW p \in Closers, CloseCall(p) \/ CloseLocal(p)
          PROVE  broken \subseteq broken' /\ relayed \subseteq relayed'
      BY <2>6 DEF CloseLocal, CloseCall, CloseBegin, CloseListener, CloseConn,
                  CloseUnlock, CloseWait, netVars, pumpVars
    <2> QED
      BY <2>1, <2>2, <2>3, <2>4, <2>5, <2>6 DEF Next
  <1> QED
    BY <1>1, <1>2 DEF Ended

\* PumpsCaused, client by client.
CausedFor(c) ==
  /\ handler[c] \in {"accepted", "tracked", "dial", "pump"} => closed \/ c \in clientOpen
  /\ handler[c] = "pump" => c \in upstreamOpen
  /\ handler[c] \in ConnStates \ {"pump", "closeUp", "closeClient", "untrack", "wgDone", "gone"} =>
       /\ pump[c] = [d \in Dirs |-> "none"]
       /\ done[c] = 0
  /\ handler[c] = "pump" =>
       /\ done[c] > 0 => Ended(c)
       /\ \A d \in Dirs : pump[c][d] \in {"send", "exit"} => Ended(c)

LEMMA CausedStep == CInv /\ [Next]_vars => PumpsCaused'
  <1> SUFFICES ASSUME CInv, [Next]_vars, NEW c \in Conns
               PROVE  CausedFor(c)'
    BY DEF PumpsCaused, CausedFor
  <1>a. TypeOK
    BY DEF CInv, IInv
  <1>b. CausedFor(c)
    BY DEF CInv, PumpsCaused, CausedFor
  <1>c. (closed => closed') /\ (Ended(c) => Ended(c)')
    BY ClosedStays, EndedStays
  <1>1. CASE UNCHANGED vars
    BY <1>1, <1>b, <1>c DEF vars, CausedFor
  <1>2. CASE NewDBTunnel \/ AcceptClosed \/ AcceptFails
    BY <1>2, <1>b, <1>c
    DEF NewDBTunnel, AcceptClosed, AcceptFails, AcceptError, CausedFor, pumpVars
  <1>3. ASSUME NEW e \in Conns, EnvConn(e)
        PROVE  CausedFor(c)'
    BY <1>3, <1>a, <1>b, <1>c
    DEF EnvConn, Connect, PeerFin, PeerBreak, TypeOK, ConnStates, CausedFor, pumpVars
  <1>4. ASSUME NEW e \in Conns, LoopStep(e)
        PROVE  CausedFor(c)'
    BY <1>4, <1>a, <1>b, <1>c
    DEF LoopStep, Accept, TrackConn, Reject, Spawn, TypeOK, ConnStates,
        HandlerStates, CausedFor, pumpVars
  <1>5. ASSUME NEW e \in Conns, DialOK(e)
        PROVE  CausedFor(c)'
    BY <1>5, <1>a, <1>b, <1>c
    DEF DialOK, TypeOK, ConnStates, HandlerStates, CausedFor
  <1>6. ASSUME NEW e \in Conns, DialFail(e) \/ HandlerLocal(e)
        PROVE  CausedFor(c)'
    <2>1. /\ e \in Conns
          /\ handler'[e] \in {"closeUp", "closeClient", "untrack", "wgDone", "gone"}
          /\ e # c => handler'[c] = handler[c] /\ done'[c] = done[c]
          /\ e # c => clientOpen \ {e} \subseteq clientOpen'
          /\ e # c => upstreamOpen \ {e} \subseteq upstreamOpen'
          /\ pump' = pump
      BY <1>6, <1>a
      DEF DialFail, HandlerLocal, HandleDone, CloseUpstream, CloseClient, UntrackConn,
          HandlerExit, TypeOK, pumpVars
    <2> QED
      BY <2>1, <1>b, <1>c DEF CausedFor
  <1>7. ASSUME NEW e \in Conns, NEW d \in Dirs, PumpRead(e, d) \/ PumpWrite(e, d)
        PROVE  CausedFor(c)'
    BY <1>7, <1>a, <1>b, <1>c
    DEF PumpRead, PumpWrite, StepPump, TypeOK, Dirs, CausedFor
  <1>8. ASSUME NEW e \in Conns, NEW d \in Dirs, PumpLocal(e, d)
        PROVE  CausedFor(c)'
    <2>1. UNCHANGED <<handler, clientOpen, upstreamOpen, closed, broken>>
      BY <1>8 DEF PumpLocal, PumpEof, PumpError, PumpSend, StepPump, netVars
    <2>2. CASE e # c
      <3>1. pump'[c] = pump[c] /\ done'[c] = done[c]
        BY <1>8, <1>a, <2>2 DEF PumpLocal, PumpEof, PumpError, PumpSend, StepPump, TypeOK
      <3> QED
        BY <1>b, <1>c, <2>1, <3>1 DEF CausedFor
    <2>3. CASE e = c
      <3>1. handler[c] \in {"pump", "closeUp", "closeClient", "untrack", "wgDone", "gone"}
        BY <1>8, <1>a, <1>b, <2>3
        DEF PumpLocal, PumpEof, PumpError, PumpSend, StepPump, TypeOK, CausedFor
      <3>2. handler[c] = "pump" => Ended(c)'
        <4>1. CASE PumpEof(c, d)
          BY <4>1 DEF PumpEof, Ended
        <4>2. CASE PumpError(c, d)
          BY <4>2, <1>b, <1>c
          DEF PumpError, StepPump, Usable, IsOpen, Src, Dst, Sides, CausedFor, Ended
        <4>3. CASE PumpSend(c, d)
          BY <4>3, <1>b, <1>c DEF PumpSend, StepPump, CausedFor
        <4> QED
          BY <1>8, <2>3, <4>1, <4>2, <4>3 DEF PumpLocal
      <3> QED
        BY <1>b, <2>1, <3>1, <3>2 DEF CausedFor
    <2> QED
      BY <2>2, <2>3
  <1>9. ASSUME NEW p \in Closers, CloseCall(p) \/ CloseLocal(p)
        PROVE  CausedFor(c)'
    <2>1. CASE \/ CloseCall(p) \/ CloseBegin(p) \/ CloseUnlock(p) \/ CloseWait(p)
      BY <2>1, <1>b, <1>c
      DEF CloseCall, CloseBegin, CloseUnlock, CloseWait, CausedFor, pumpVars
    <2>2. CASE CloseListener(p)
      BY <2>2, <1>a, <1>b, <1>c DEF CloseListener, TypeOK, ConnStates, CausedFor, pumpVars
    <2>3. ASSUME NEW e \in Conns, CloseConn(p, e)
          PROVE  CausedFor(c)'
      <3>1. closed
        BY <2>3 DEF CloseConn, CInv, IInv, LockOwned, Owner
      <3> QED
        BY <2>3, <3>1, <1>b, <1>c DEF CloseConn, CausedFor, pumpVars
    <2> QED
      BY <1>9, <2>1, <2>2, <2>3 DEF CloseLocal
  <1> QED
    BY <1>1, <1>2, <1>3, <1>4, <1>5, <1>6, <1>7, <1>8, <1>9 DEF Next, HandlerStep

\* TokensCounted, client by client.
TokensFor(c) ==
  /\ done[c] + Owes(c, "up") + Owes(c, "down") <= DoneCap
  /\ handler[c] = "pump" => done[c] + Owes(c, "up") + Owes(c, "down") = DoneCap

\* A step of another client, or one that leaves c's copies and its done channel
\* alone and does not start them.
LEMMA TokensFrame ==
  ASSUME NEW c \in Conns, TokensFor(c), UNCHANGED <<pump[c], done[c]>>,
         handler'[c] = "pump" => handler[c] = "pump"
  PROVE  TokensFor(c)'
  BY DEF TokensFor, Owes

LEMMA TokensStep == CInv /\ [Next]_vars => TokensCounted'
  <1> SUFFICES ASSUME CInv, [Next]_vars, NEW c \in Conns
               PROVE  TokensFor(c)'
    BY DEF TokensCounted, TokensFor
  <1>a. TypeOK
    BY DEF CInv, IInv
  <1>b. TokensFor(c)
    BY DEF CInv, TokensCounted, TokensFor
  <1>1. CASE UNCHANGED vars
    BY <1>1, <1>b, TokensFrame DEF vars
  <1>2. CASE NewDBTunnel \/ AcceptClosed \/ AcceptFails
    BY <1>2, <1>b, TokensFrame DEF NewDBTunnel, AcceptClosed, AcceptFails, AcceptError, pumpVars
  <1>3. ASSUME NEW e \in Conns, EnvConn(e) \/ LoopStep(e)
        PROVE  TokensFor(c)'
    BY <1>3, <1>a, <1>b, TokensFrame
    DEF EnvConn, Connect, PeerFin, PeerBreak, LoopStep, Accept, TrackConn, Reject, Spawn,
        TypeOK, pumpVars
  <1>4. ASSUME NEW e \in Conns, DialOK(e)
        PROVE  TokensFor(c)'
    <2>1. CASE e # c
      BY <1>4, <1>a, <1>b, <2>1, TokensFrame DEF DialOK, TypeOK
    <2>2. CASE e = c
      <3>1. done'[c] = 0
        BY <1>4, <2>2 DEF DialOK, CInv, PumpsCaused, ConnStates, HandlerStates
      <3>2. \A d \in Dirs : pump'[c][d] = "read"
        BY <1>4, <1>a, <2>2 DEF DialOK, TypeOK
      <3> QED
        BY <3>1, <3>2 DEF TokensFor, Owes, Dirs, DoneCap
    <2> QED
      BY <2>1, <2>2
  <1>5. ASSUME NEW e \in Conns, HandleDone(e)
        PROVE  TokensFor(c)'
    <2>1. CASE e # c
      BY <1>5, <1>a, <1>b, <2>1, TokensFrame DEF HandleDone, TypeOK, pumpVars
    <2>2. CASE e = c
      <3>1. done[c] \in Nat /\ done'[c] = done[c] - 1 /\ handler'[c] = "closeUp"
        BY <1>5, <1>a, <2>2 DEF HandleDone, TypeOK, DoneCap
      <3>2. Owes(c, "up")' = Owes(c, "up") /\ Owes(c, "down")' = Owes(c, "down")
        BY <1>5, <2>2 DEF HandleDone, Owes, pumpVars
      <3> QED
        BY <1>b, <3>1, <3>2 DEF TokensFor, Owes, DoneCap
    <2> QED
      BY <2>1, <2>2
  <1>6. ASSUME NEW e \in Conns,
               \/ DialFail(e) \/ CloseUpstream(e) \/ CloseClient(e) \/ UntrackConn(e)
               \/ HandlerExit(e)
        PROVE  TokensFor(c)'
    BY <1>6, <1>a, <1>b, TokensFrame
    DEF DialFail, CloseUpstream, CloseClient, UntrackConn, HandlerExit, TypeOK, pumpVars
  <1>7. ASSUME NEW e \in Conns, NEW d \in Dirs,
               PumpRead(e, d) \/ PumpWrite(e, d) \/ PumpEof(e, d) \/ PumpError(e, d)
        PROVE  TokensFor(c)'
    <2>1. UNCHANGED <<handler, done>>
      BY <1>7 DEF PumpRead, PumpWrite, PumpEof, PumpError, StepPump
    <2>2. \A f \in Dirs : Owes(c, f)' = Owes(c, f)
      BY <1>7, <1>a DEF PumpRead, PumpWrite, PumpEof, PumpError, StepPump, Owes, TypeOK
    <2> QED
      BY <1>b, <2>1, <2>2 DEF TokensFor, Dirs
  <1>8. ASSUME NEW e \in Conns, NEW d \in Dirs, PumpSend(e, d)
        PROVE  TokensFor(c)'
    <2>1. CASE e # c
      BY <1>8, <1>a, <1>b, <2>1, TokensFrame DEF PumpSend, StepPump, TypeOK
    <2>2. CASE e = c
      <3>1. done[c] \in Nat /\ done'[c] = done[c] + 1 /\ handler' = handler
        BY <1>8, <1>a, <2>2 DEF PumpSend, StepPump, TypeOK, DoneCap
      <3>2. Owes(c, d) = 1 /\ Owes(c, d)' = 0
        BY <1>8, <1>a, <2>2 DEF PumpSend, StepPump, Owes, TypeOK
      <3>3. \A f \in Dirs : f # d => Owes(c, f)' = Owes(c, f)
        BY <1>8, <1>a, <2>2 DEF PumpSend, StepPump, Owes, TypeOK
      <3> QED
        BY <1>b, <3>1, <3>2, <3>3 DEF TokensFor, Dirs, DoneCap, Owes
    <2> QED
      BY <2>1, <2>2
  <1>9. ASSUME NEW p \in Closers, CloseCall(p) \/ CloseLocal(p)
        PROVE  TokensFor(c)'
    BY <1>9, <1>a, <1>b, TokensFrame
    DEF CloseLocal, CloseCall, CloseBegin, CloseListener, CloseConn, CloseUnlock, CloseWait,
        TypeOK, pumpVars
  <1> QED
    BY <1>1, <1>2, <1>3, <1>4, <1>5, <1>6, <1>7, <1>8, <1>9
    DEF Next, HandlerStep, HandlerLocal, PumpLocal

LEMMA NoopStep == CInv /\ [Next]_vars => NoopLate'
  <1> SUFFICES ASSUME CInv, [Next]_vars, NEW q \in Closers, closer'[q] = "noop"
               PROVE  closed' /\ ~mu'
    BY DEF NoopLate
  <1>a. NoopLate /\ closer \in [Closers ->
          {"idle", "called", "noop", "listener", "conns", "wait", "done"}]
    BY DEF CInv, IInv, TypeOK
  <1>1. CASE Closes
    <2>1. PICK p \in Closers :
            \/ CloseCall(p) \/ CloseBegin(p) \/ CloseListener(p) \/ CloseUnlock(p)
            \/ CloseWait(p) \/ \E c \in Conns : CloseConn(p, c)
      BY <1>1 DEF Closes
    <2>2. CASE CloseBegin(p)
      BY <1>a, <2>2 DEF CloseBegin, NoopLate
    <2>3. CASE CloseCall(p) \/ CloseListener(p) \/ CloseUnlock(p) \/ CloseWait(p)
      BY <1>a, <2>3 DEF CloseCall, CloseListener, CloseUnlock, CloseWait, NoopLate
    <2>4. ASSUME NEW c \in Conns, CloseConn(p, c) PROVE closed' /\ ~mu'
      BY <1>a, <2>4 DEF CloseConn, NoopLate
    <2> QED
      BY <2>1, <2>2, <2>3, <2>4
  <1>2. CASE UNCHANGED <<closed, mu, closer>>
    BY <1>a, <1>2 DEF NoopLate
  <1> QED
    BY NextCloses, <1>1, <1>2

LEMMA InitCInv == Init => CInv
  BY InitInv DEF Init, CInv, PumpsCaused, ConnStates, TokensCounted, Owes, Dirs, DoneCap,
                 NoopLate

LEMMA CInvStep == CInv /\ [Next]_vars => CInv'
  BY InvStep, CausedStep, TokensStep, NoopStep DEF CInv

\* Besides what IInv says, every copy that stopped had a cause, and every token
\* still to come has room in its handler's done channel.
THEOREM CauseInvariance == Spec => []CInv
  BY InitCInv, CInvStep, PTL DEF Spec

\* A call of Close that finds t.closed set returns at once, and yet only after the
\* first has closed the listener and every registered client.  (db.go:218-230)
THEOREM SecondCloseIsSafe == Spec => []SecondCloseForces
  <1>1. CInv /\ ForceClosed => SecondCloseForces
    BY DEF CInv, NoopLate, ForceClosed, SecondCloseForces
  <1> QED
    BY CauseInvariance, ForcedClose, <1>1, PTL

\* A handler leaves its copying phase only when the tunnel is closing, a peer
\* reset, or one direction was relayed to its end.
THEOREM EndedForCause == Spec => FirstEndedIsComplete
  <1>1. CInv /\ [Next]_vars
          => [\A c \in Conns :
                handler[c] = "pump" /\ handler'[c] = "closeUp" => Ended(c)]_vars
    <2> SUFFICES ASSUME CInv, [Next]_vars, NEW c \in Conns,
                        handler[c] = "pump", handler'[c] = "closeUp"
                 PROVE  Ended(c)
      OBVIOUS
    <2>a. handler \in [Conns -> ConnStates]
      BY DEF CInv, IInv, TypeOK
    <2>1. HandleDone(c)
      <3>1. ~Still /\ ~NewDBTunnel /\ ~AcceptError
        BY DEF Still, NewDBTunnel, AcceptError
      <3>2. ASSUME NEW e \in Conns,
                   \/ Connect(e) \/ Accept(e) \/ TrackConn(e) \/ Reject(e) \/ Spawn(e)
                   \/ DialOK(e) \/ DialFail(e) \/ HandleDone(e) \/ CloseUpstream(e)
                   \/ CloseClient(e) \/ UntrackConn(e) \/ HandlerExit(e)
            PROVE  HandleDone(c)
        BY <3>2, <2>a DEF Connect, Accept, TrackConn, Reject, Spawn, DialOK, DialFail,
                          HandleDone, CloseUpstream, CloseClient, UntrackConn, HandlerExit
      <3>3. ASSUME NEW p \in Closers, CloseListener(p) PROVE FALSE
        BY <3>3, <2>a DEF CloseListener
      <3> QED
        BY NextMoves, <3>1, <3>2, <3>3 DEF Moves
    <2> QED
      BY <2>1 DEF HandleDone, CInv, PumpsCaused
  <1> QED
    BY CauseInvariance, <1>1, PTL DEF Spec, FirstEndedIsComplete

----------------------------------------------------------------------------
(* What Close can be waiting for: the safety half of CloseReturns.         *)

\* A registered client is closed by the time Close waits, so its handler can go
\* on, or one of its copies can, unless that copy is writing to the proxy.
LEMMA HandlerMovesOn ==
  ASSUME CInv, closed, ~mu, NEW c \in Active
  PROVE  SomeStepDue \/ Stalled(c)
  <1>a. c \in Conns /\ handler[c] \in HandlerStates
    BY DEF Active
  <1>b. TypeOK
    BY DEF CInv, IInv
  <1>1. CASE handler[c] # "pump"
    BY <1>1, <1>a DEF HandlerStates, HandlerDue, SomeStepDue
  <1>2. CASE handler[c] = "pump" /\ done[c] > 0
    BY <1>2, <1>a DEF HandlerDue, SomeStepDue
  <1>3. CASE handler[c] = "pump" /\ ~(done[c] > 0)
    <2>1. done[c] = 0
      BY <1>3, <1>a, <1>b DEF TypeOK, DoneCap
    <2>2. pump[c]["up"] \in {"read", "write", "send"}
      BY <1>3, <1>a, <2>1 DEF CInv, TokensCounted, Owes, DoneCap
    <2>3. c \notin clientOpen
      <3>1. PICK p \in Closers : closer[p] \in {"wait", "done"}
        BY DEF CInv, IInv, LockOwned, Owner
      <3>2. c \in conns
        BY <1>3, <1>a DEF CInv, IInv, ConnsTracked
      <3> QED
        BY <3>1, <3>2 DEF CInv, IInv, CloseProgress
    <2>4. CASE pump[c]["up"] \in {"read", "send"}
      <3>1. UpCopyDue(c)
        BY <2>1, <2>3, <2>4 DEF UpCopyDue, Usable, IsOpen, DoneCap
      <3> QED
        BY <1>3, <1>a, <3>1 DEF SomeStepDue
    <2>5. CASE pump[c]["up"] = "write"
      <3>1. UpCopyDue(c) \/ Stalled(c)
        BY <1>3, <2>5 DEF UpCopyDue, Stalled
      <3> QED
        BY <1>3, <1>a, <3>1 DEF SomeStepDue
    <2> QED
      BY <2>2, <2>4, <2>5
  <1> QED
    BY <1>1, <1>2, <1>3

\* Whatever the number of clients and of callers, a Close that has begun can only
\* be held up by a write to the proxy: there is no deadlock among t.mu, t.wg, the
\* accept loop, the handlers and their done channels.
THEOREM NoDeadlockInClose == Spec => []CloseHeldUpByWritesOnly
  <1>1. CInv => CloseHeldUpByWritesOnly
    <2> SUFFICES ASSUME CInv, closed, ~Returned
                 PROVE  SomeStepDue \/ \E c \in Conns : Stalled(c)
      BY DEF CloseHeldUpByWritesOnly
    <2>1. PICK p \in Closers : closer[p] \in {"listener", "conns", "wait"}
      BY DEF CInv, IInv, LockOwned, Owner, Returned
    <2>2. CASE closer[p] \in {"listener", "conns"} \/ wg = 0
      BY <2>1, <2>2 DEF CloseDue, SomeStepDue
    <2>3. CASE closer[p] = "wait" /\ wg # 0
      <3>1. ~mu /\ listener = "closed"
        BY <2>3 DEF CInv, IInv, LockOwned, Owner, CloseProgress
      <3>2. loop \in {"accept", "busy"} \/ Active # {}
        BY <2>3, FS_EmptySet DEF CInv, IInv, WgCounts
      <3>3. CASE loop = "accept"
        BY <3>1, <3>3 DEF SomeStepDue
      <3>4. CASE loop = "busy"
        <4>1. PICK c \in Conns : handler[c] \in {"accepted", "rejected", "tracked"}
          BY <3>4 DEF CInv, IInv, LoopOwnsOne, Busy
        <4> QED
          BY <3>1, <4>1 DEF HandlerDue, SomeStepDue
      <3>5. ASSUME NEW c \in Active PROVE SomeStepDue \/ \E e \in Conns : Stalled(e)
        BY <3>1, HandlerMovesOn DEF Active
      <3> QED
        BY <3>2, <3>3, <3>4, <3>5
    <2> QED
      BY <2>1, <2>2, <2>3
  <1> QED
    BY CauseInvariance, <1>1, PTL

\* Every client goes through the tunnel once and in one direction, so no handler
\* runs twice, closes a socket twice or calls wg.Done twice.
THEOREM HandledOnce == Spec => OneWay
  <1>1. IInv /\ [Next]_vars
          => [\A c \in Conns : handler'[c] # handler[c]
                => Rank(handler[c]) < Rank(handler'[c])]_vars
    <2> SUFFICES ASSUME IInv, [Next]_vars, NEW c \in Conns, handler'[c] # handler[c]
                 PROVE  Rank(handler[c]) < Rank(handler'[c])
      OBVIOUS
    <2>a. handler \in [Conns -> ConnStates]
      BY DEF IInv, TypeOK
    <2>1. ~Still /\ ~NewDBTunnel /\ ~AcceptError
      BY DEF Still, NewDBTunnel, AcceptError
    <2>2. ASSUME NEW e \in Conns,
                 \/ Connect(e) \/ Accept(e) \/ TrackConn(e) \/ Reject(e) \/ Spawn(e)
          PROVE  Rank(handler[c]) < Rank(handler'[c])
      BY <2>2, <2>a DEF Connect, Accept, TrackConn, Reject, Spawn, Rank
    <2>3. ASSUME NEW e \in Conns,
                 \/ DialOK(e) \/ DialFail(e) \/ HandleDone(e) \/ CloseUpstream(e)
                 \/ CloseClient(e) \/ UntrackConn(e) \/ HandlerExit(e)
          PROVE  Rank(handler[c]) < Rank(handler'[c])
      BY <2>3, <2>a DEF DialOK, DialFail, HandleDone, CloseUpstream, CloseClient,
                        UntrackConn, HandlerExit, Rank
    <2>4. ASSUME NEW p \in Closers, CloseListener(p)
          PROVE  Rank(handler[c]) < Rank(handler'[c])
      BY <2>4, <2>a DEF CloseListener, Rank
    <2> QED
      BY NextMoves, <2>1, <2>2, <2>3, <2>4 DEF Moves
  <1> QED
    BY Invariance, <1>1, PTL DEF Spec, OneWay

\* The copies that a handler leaves behind move no more data and run out.
THEOREM CopiesEnd == Spec => CopiesRunOut
  <1> DEFINE Over(c) == handler[c] \in {"untrack", "wgDone", "gone"}
             RunsOut(c, d) == \/ pump[c][d] \in {"read", "write"} /\ pump'[c][d] = "send"
                              \/ pump[c][d] = "send" /\ pump'[c][d] = "exit"
  <1>1. IInv /\ [Next]_vars
          => [\A c \in Conns, d \in Dirs :
                Over(c) /\ pump'[c][d] # pump[c][d] => RunsOut(c, d)]_vars
    <2> SUFFICES ASSUME IInv, [Next]_vars, NEW c \in Conns, NEW d \in Dirs,
                        Over(c), pump'[c][d] # pump[c][d]
                 PROVE  RunsOut(c, d)
      OBVIOUS
    <2>a. TypeOK /\ c \notin clientOpen /\ c \notin upstreamOpen
      BY DEF IInv, SocketsOwned
    <2>1. pump' # pump
      OBVIOUS
    <2>2. ASSUME NEW e \in Conns, EnvConn(e) \/ LoopStep(e) \/ DialFail(e) \/ HandlerLocal(e)
          PROVE  FALSE
      BY <2>1, <2>2
      DEF EnvConn, Connect, PeerFin, PeerBreak, LoopStep, Accept, TrackConn, Reject, Spawn,
          DialFail, HandlerLocal, HandleDone, CloseUpstream, CloseClient, UntrackConn,
          HandlerExit, pumpVars
    <2>3. ASSUME NEW e \in Conns, DialOK(e)
          PROVE  FALSE
      BY <2>a, <2>3 DEF DialOK, TypeOK
    <2>4. ASSUME NEW e \in Conns, NEW f \in Dirs,
                 PumpLocal(e, f) \/ PumpRead(e, f) \/ PumpWrite(e, f)
          PROVE  RunsOut(c, d)
      BY <2>a, <2>4
      DEF PumpLocal, PumpRead, PumpWrite, PumpEof, PumpError, PumpSend, StepPump, Usable,
          IsOpen, TypeOK
    <2>5. ASSUME NEW p \in Closers, CloseCall(p) \/ CloseLocal(p)
          PROVE  FALSE
      BY <2>1, <2>5 DEF CloseLocal, CloseCall, CloseBegin, CloseListener, CloseConn,
                        CloseUnlock, CloseWait, pumpVars
    <2> QED
      BY <2>1, <2>2, <2>3, <2>4, <2>5
      DEF Next, HandlerStep, vars, NewDBTunnel, AcceptClosed, AcceptFails, AcceptError, pumpVars
  <1> QED
    BY Invariance, <1>1, PTL DEF Spec, CopiesRunOut

\* The map that Close ranges over is not written meanwhile.
THEOREM SafeRange == Spec => RangeUndisturbed
  <1>1. IInv /\ [Next]_vars
          => [(\E p \in Closers : closer[p] = "conns") => conns' = conns]_vars
    <2> SUFFICES ASSUME IInv, [Next]_vars, NEW p \in Closers, closer[p] = "conns"
                 PROVE  conns' = conns
      OBVIOUS
    <2>1. mu
      BY DEF IInv, LockOwned
    <2> QED
      BY <2>1, NextMoves
      DEF Moves, Still, NewDBTunnel, AcceptError, Connect, Accept, TrackConn, Reject, Spawn,
          DialOK, DialFail, HandleDone, CloseUpstream, CloseClient, UntrackConn, HandlerExit,
          CloseListener
  <1> QED
    BY Invariance, <1>1, PTL DEF Spec, RangeUndisturbed

\* A closed tunnel stays closed: nothing it held is ever acquired again.
THEOREM CloseIsFinal == Spec => StaysClosed
  <1> DEFINE Kept == UNCHANGED <<listener, loop, closed, mu, conns, wg, handler, clientOpen,
                                 upstreamOpen>>
  <1>1. IInv /\ [Next]_vars => [Returned => Returned' /\ Kept]_vars
    <2> SUFFICES ASSUME IInv, [Next]_vars, Returned PROVE Returned' /\ Kept
      OBVIOUS
    <2>a. /\ loop = "done" /\ listener = "closed" /\ clientOpen = {}
          /\ \A c \in Conns : handler[c] \in {"idle", "refused", "gone"}
      BY ReturnedHoldsNothing DEF NothingHeld
    <2>b. /\ closed /\ ~mu
          /\ \A p \in Closers : closer[p] \in {"idle", "called", "noop", "done"}
      BY DEF Returned, IInv, TypeOK, LockOwned, Owner
    <2>1. Still
      BY <2>a, <2>b, NextMoves
      DEF Moves, NewDBTunnel, AcceptError, Connect, Accept, TrackConn, Reject, Spawn, DialOK,
          DialFail, HandleDone, CloseUpstream, CloseClient, UntrackConn, HandlerExit,
          CloseListener
    <2>2. UNCHANGED <<closed, mu>> /\ Returned'
      <3>1. CASE Closes
        <4>1. PICK p \in Closers : CloseCall(p) \/ CloseBegin(p)
          BY <2>b, <3>1 DEF Closes, CloseListener, CloseUnlock, CloseWait, CloseConn
        <4>2. closer[p] \in {"idle", "called"} /\ UNCHANGED <<closed, mu>>
          BY <2>b, <4>1 DEF CloseCall, CloseBegin
        <4>3. \A q \in Closers : q # p => closer'[q] = closer[q]
          BY <4>1 DEF CloseCall, CloseBegin, IInv, TypeOK
        <4> QED
          BY <4>2, <4>3 DEF Returned
      <3>2. CASE UNCHANGED <<closed, mu, closer>>
        BY <3>2 DEF Returned
      <3> QED
        BY NextCloses, <3>1, <3>2
    <2> QED
      BY <2>a, <2>1, <2>2 DEF Still
  <1> QED
    BY Invariance, <1>1, PTL DEF Spec, StaysClosed
=============================================================================
