--------------------------- MODULE SSHTunnelProofs ---------------------------
(***************************************************************************)
(* Proofs about SSHTunnel, for any set of clients and of callers of Close. *)
(* The SSH tunnel implements Tunnel, so its theorems and TunnelSpec hold   *)
(* of it; SInv relates what it holds besides to the steps of Tunnel.       *)
(***************************************************************************)
EXTENDS SSHTunnel, TunnelRefinement

LEMMA SSHInitInv == SSHInit => SInv
  BY DEF SSHInit, Init, SInv, SSHTypeOK, Holding, TeardownLast, Dropped, Returned

\* The only step that is not one of Tunnel's as it stands is the return of
\* Close, and TeardownLast says that t.wg is zero by then.
LEMMA SkeletonStep == SInv /\ [SSHNext]_allVars => [Next]_vars
  <1> SUFFICES ASSUME SInv, [SSHNext]_allVars PROVE [Next]_vars
    OBVIOUS
  <1>1. CASE UNCHANGED allVars
    BY <1>1 DEF allVars, vars
  <1>2. CASE NewClient \/ DialHost \/ Handshake \/ ListenFails \/ SessionLost
    BY <1>2 DEF NewClient, DialHost, Handshake, ListenFails, SessionLost, vars
  <1>3. CASE Listen
    BY <1>3 DEF Listen, Next
  <1>4. CASE Shared
    <2>1. ASSUME NEW c \in Conns, SSHEnv(c) \/ LoopStep(c) \/ SSHHandler(c)
          PROVE  Next
      BY <2>1 DEF SSHEnv, SSHHandler, DialChannel, HandlerStep, EnvConn, Sides, Next
    <2>2. ASSUME NEW c \in Conns, NEW d \in Dirs,
                 SSHPump(c, d) \/ PumpRead(c, d) \/ PumpWrite(c, d)
          PROVE  Next
      BY <2>2 DEF SSHPump, ChannelError, PumpLocal, Next
    <2>3. ASSUME NEW p \in Closers, CloseCall(p) \/ SSHCloseLocked(p)
          PROVE  Next
      BY <2>3 DEF SSHCloseLocked, CloseLocal, Next
    <2> QED
      BY <1>4, <2>1, <2>2, <2>3 DEF Shared, Next
  <1>5. ASSUME NEW c \in Conns, ChannelDropped(c)
        PROVE  [Next]_vars
    BY <1>5 DEF ChannelDropped, EnvConn, Sides, Next
  <1>6. ASSUME NEW p \in Closers, WaitReturns(p) \/ CloseSession(p)
        PROVE  [Next]_vars
    BY <1>6 DEF WaitReturns, CloseSession
  <1>7. ASSUME NEW p \in Closers, CloseProxy(p)
        PROVE  [Next]_vars
    <2>1. wg = 0
      BY <1>7 DEF CloseProxy, SSHReturn, SInv, TeardownLast
    <2> QED
      BY <1>7, <2>1 DEF CloseProxy, SSHReturn, CloseWait, CloseLocal, Next, netVars, pumpVars
  <1> QED
    BY <1>1, <1>2, <1>3, <1>4, <1>5, <1>6, <1>7 DEF SSHNext, SSHClose

LEMMA HoldingStep == IInv /\ SInv /\ [SSHNext]_allVars => (SSHTypeOK /\ Holding)'
  <1> SUFFICES ASSUME IInv, SInv, [SSHNext]_allVars PROVE (SSHTypeOK /\ Holding)'
    OBVIOUS
  <1>0. SSHTypeOK /\ Holding
    BY DEF SInv
  <1>1. CASE UNCHANGED <<stage, held, teardown>> /\ lost' \in BOOLEAN /\ dead' \subseteq Conns
    BY <1>0, <1>1 DEF SSHTypeOK, Holding
  <1>2. CASE NewClient \/ DialHost \/ Handshake \/ ListenFails
    BY <1>0, <1>2 DEF NewClient, DialHost, Handshake, ListenFails, Stage, SSHTypeOK, Holding
  <1>3. CASE Listen
    <2>1. teardown \in {"none", "session"}
      BY <1>3 DEF Listen, Stage, NewDBTunnel, SInv, TeardownLast
    <2> QED
      BY <1>0, <1>3, <2>1 DEF Listen, Stage, SSHTypeOK, Holding
  <1>4. ASSUME NEW p \in Closers, SSHClose(p)
        PROVE  (SSHTypeOK /\ Holding)'
    <2>1. stage = "up"
      BY <1>4 DEF SSHClose, WaitReturns, CloseSession, CloseProxy, SSHReturn, SInv,
                  TeardownLast, IInv, LockOwned
    <2> QED
      BY <1>0, <1>4, <2>1
      DEF SSHClose, WaitReturns, CloseSession, CloseProxy, SSHReturn, SSHTypeOK, Holding
  <1> QED
    BY <1>0, <1>1, <1>2, <1>3, <1>4
    DEF SSHNext, SSHTypeOK, allVars, sshVars, SessionLost, ChannelDropped

\* What the steps of Tunnel's skeleton, as the SSH tunnel takes them, leave
\* alone of what TeardownLast looks at.
Quiet ==
  /\ UNCHANGED <<stage, teardown>>
  /\ loop' = "none" <=> loop = "none"
  /\ listener' = listener \/ loop # "none"
  /\ \A p \in Closers :
       /\ closer'[p] = "done" <=> closer[p] = "done"
       /\ closer[p] = "wait" => closer'[p] = "wait"

LEMMA SharedIsQuiet ==
  ASSUME IInv, Shared /\ UNCHANGED sshVars
  PROVE  Quiet
  <1>a. closer \in [Closers ->
          {"idle", "called", "noop", "listener", "conns", "wait", "done"}]
    BY DEF IInv, TypeOK
  <1>b. UNCHANGED <<stage, teardown>>
    BY DEF sshVars
  <1>1. CASE AcceptClosed \/ AcceptFails
    BY <1>b, <1>1 DEF AcceptClosed, AcceptFails, AcceptError, Quiet
  <1>2. ASSUME NEW c \in Conns, SSHEnv(c) \/ LoopStep(c) \/ SSHHandler(c)
        PROVE  Quiet
    <2>1. CASE SSHEnv(c)
      BY <1>b, <2>1 DEF SSHEnv, Connect, PeerFin, PeerBreak, Quiet
    <2>2. CASE LoopStep(c)
      <3>1. loop # "none"
        BY <2>2 DEF LoopStep, Accept, TrackConn, Reject, Spawn, IInv, LoopOwnsOne, Busy
      <3> QED
        BY <1>b, <2>2, <3>1 DEF LoopStep, Accept, TrackConn, Reject, Spawn, Quiet
    <2>3. CASE SSHHandler(c)
      BY <1>b, <2>3
      DEF SSHHandler, DialChannel, DialOK, DialFail, HandlerLocal, HandleDone,
          CloseUpstream, CloseClient, UntrackConn, HandlerExit, Quiet
    <2> QED
      BY <1>2, <2>1, <2>2, <2>3
  <1>3. ASSUME NEW c \in Conns, NEW d \in Dirs,
               SSHPump(c, d) \/ PumpRead(c, d) \/ PumpWrite(c, d)
        PROVE  Quiet
    BY <1>b, <1>3 DEF SSHPump, ChannelError, PumpEof, PumpError, PumpSend, PumpRead,
                      PumpWrite, StepPump, Quiet
  <1>4. ASSUME NEW p \in Closers, CloseCall(p) \/ SSHCloseLocked(p)
        PROVE  Quiet
    <2>1. loop # "none"
      BY <1>4 DEF CloseCall, SSHCloseLocked, CloseBegin, CloseListener, CloseUnlock,
                  CloseConn, IInv, LockOwned
    <2> QED
      BY <1>a, <1>b, <1>4, <2>1
      DEF CloseCall, SSHCloseLocked, CloseBegin, CloseListener, CloseUnlock, CloseConn, Quiet
  <1> QED
    BY <1>1, <1>2, <1>3, <1>4 DEF Shared

LEMMA DroppedIsQuiet ==
  ASSUME NEW c \in Conns, ChannelDropped(c)
  PROVE  Quiet
  BY DEF ChannelDropped, PeerBreak, vars, Quiet

\* wg stays zero and the loop over once the tear-down has begun.
LEMMA TeardownStep == IInv /\ SInv /\ [SSHNext]_allVars => TeardownLast'
  <1> SUFFICES ASSUME IInv, SInv, [SSHNext]_allVars PROVE TeardownLast'
    OBVIOUS
  <1>0. TeardownLast
    BY DEF SInv
  <1>a. [Next]_vars
    BY SkeletonStep
  <1>b. wg = 0 /\ loop # "none" => loop = "done" /\ Active = {}
    BY WgPositive DEF IInv, TypeOK
  <1>c. loop = "done" /\ wg = 0 => loop' = "done" /\ wg' = 0
    <2> SUFFICES ASSUME loop = "done", wg = 0 PROVE loop' = "done" /\ wg' = 0
      OBVIOUS
    <2>1. loop' = "done" /\ Active' = {}
      BY <1>a, <1>b, DoneStays
    <2>2. WgCounts'
      BY <1>a, WgStep
    <2> QED
      BY <2>1, <2>2, FS_EmptySet DEF WgCounts
  <1>1. CASE Quiet
    BY <1>0, <1>1, <1>c DEF Quiet, TeardownLast, Returned
  <1>2. CASE UNCHANGED <<vars, teardown>> /\ (stage' = "up" <=> stage = "up")
    BY <1>0, <1>2 DEF vars, TeardownLast, Returned
  <1>3. CASE Listen
    BY <1>0, <1>3 DEF Listen, Stage, NewDBTunnel, TeardownLast, Returned
  <1>4. ASSUME NEW p \in Closers, WaitReturns(p) \/ CloseSession(p)
        PROVE  TeardownLast'
    <2>1. loop # "none"
      BY <1>4 DEF WaitReturns, CloseSession, IInv, LockOwned
    <2>2. wg = 0 /\ ~Returned
      BY <1>0, <1>4 DEF WaitReturns, CloseSession, TeardownLast
    <2> QED
      BY <1>0, <1>4, <1>b, <2>1, <2>2
      DEF WaitReturns, CloseSession, vars, TeardownLast, Returned
  <1>5. ASSUME NEW p \in Closers, CloseProxy(p)
        PROVE  TeardownLast'
    <2>1. closer'[p] = "done"
      BY <1>5 DEF CloseProxy, SSHReturn, IInv, TypeOK
    <2> QED
      BY <1>0, <1>5, <2>1 DEF CloseProxy, SSHReturn, TeardownLast, Returned
  <1> QED
    BY <1>1, <1>2, <1>3, <1>4, <1>5, SharedIsQuiet, DroppedIsQuiet
    DEF SSHNext, SSHClose, allVars, sshVars, NewClient, DialHost, Handshake, ListenFails,
        SessionLost, Stage

\* Dropped is disturbed by what opens and resets channels and by what moves a
\* handler; a handler that has opened its channel never goes back.
Opened == {"pump", "closeUp", "closeClient", "untrack", "wgDone", "gone"}

LEMMA OpenedStep ==
  ASSUME IInv, [Next]_vars, NEW c \in Conns, handler[c] \in Opened
  PROVE  /\ handler'[c] \in Opened
         /\ handler[c] = "closeUp" /\ handler'[c] # "closeUp" => c \notin upstreamOpen'
         /\ handler'[c] \in {"pump", "closeUp"} => handler[c] \in {"pump", "closeUp"}
         /\ handler[c] = "pump" => handler'[c] \in {"pump", "closeUp"}
         /\ c \in upstreamOpen' => c \in upstreamOpen
         /\ <<c, "upstream">> \in broken => <<c, "upstream">> \in broken'
  <1>a. handler \in [Conns -> ConnStates]
    BY DEF IInv, TypeOK
  <1>1. CASE UNCHANGED <<handler, upstreamOpen>> /\ broken \subseteq broken'
    BY <1>1 DEF Opened
  <1>2. ASSUME NEW e \in Conns, LoopStep(e) \/ HandlerStep(e)
        PROVE  /\ handler'[c] \in Opened
               /\ handler[c] = "closeUp" /\ handler'[c] # "closeUp" => c \notin upstreamOpen'
               /\ handler'[c] \in {"pump", "closeUp"} => handler[c] \in {"pump", "closeUp"}
               /\ handler[c] = "pump" => handler'[c] \in {"pump", "closeUp"}
               /\ c \in upstreamOpen' => c \in upstreamOpen
               /\ <<c, "upstream">> \in broken => <<c, "upstream">> \in broken'
    BY <1>a, <1>2
    DEF LoopStep, HandlerStep, Accept, TrackConn, Reject, Spawn, DialOK, DialFail,
        HandlerLocal, HandleDone, CloseUpstream, CloseClient, UntrackConn, HandlerExit,
        netVars, Opened
  <1>3. ASSUME NEW e \in Conns, EnvConn(e)
        PROVE  (UNCHANGED upstreamOpen) /\ broken \subseteq broken' /\ handler'[c] = handler[c]
    BY <1>a, <1>3 DEF EnvConn, Connect, PeerFin, PeerBreak, netVars, Opened
  <1>4. ASSUME NEW p \in Closers, CloseCall(p) \/ CloseLocal(p)
        PROVE  (UNCHANGED <<upstreamOpen, broken>>) /\ handler'[c] = handler[c]
    BY <1>a, <1>4
    DEF CloseCall, CloseLocal, CloseBegin, CloseListener, CloseUnlock, CloseWait, CloseConn,
        netVars, Opened
  <1>5. ASSUME NEW e \in Conns, NEW d \in Dirs, PumpLocal(e, d) \/ PumpRead(e, d) \/ PumpWrite(e, d)
        PROVE  UNCHANGED <<handler, upstreamOpen, broken>>
    BY <1>5 DEF PumpLocal, PumpEof, PumpError, PumpSend, PumpRead, PumpWrite, StepPump, netVars
  <1>6. ASSUME NewDBTunnel \/ AcceptClosed \/ AcceptFails
        PROVE  UNCHANGED <<handler, upstreamOpen, broken>>
    BY <1>6 DEF NewDBTunnel, AcceptClosed, AcceptFails, AcceptError, netVars
  <1> QED
    BY <1>1, <1>2, <1>3, <1>4, <1>5, <1>6 DEF Next, vars, Opened

LEMMA DroppedStep ==
  ASSUME CInv, SInv, [SSHNext]_allVars
  PROVE  Dropped'
  <1>a. [Next]_vars
    BY SkeletonStep
  <1>b. IInv /\ PumpsCaused /\ Dropped
    BY DEF CInv, SInv
  <1>1. ASSUME NEW c \in Conns, c \in dead
        PROVE  /\ handler'[c] \in Opened
               /\ Usable(c, "upstream")' => handler'[c] = "closeUp"
    <2>1. handler[c] \in Opened
      BY <1>b, <1>1 DEF Dropped, Opened
    <2> QED
      BY <1>a, <1>b, <1>1, <2>1, OpenedStep
      DEF Dropped, Usable, IsOpen
  <1>2. ASSUME NEW c \in Conns, ChannelDropped(c)
        PROVE  /\ handler'[c] \in Opened
               /\ Usable(c, "upstream")' => handler'[c] = "closeUp"
               /\ dead' = dead \cup {c}
    <2>1. handler[c] \in Opened
      BY <1>b, <1>2 DEF ChannelDropped, PumpsCaused, IInv, TypeOK, ConnStates,
                        HandlerStates, Opened
    <2>2. handler[c] # "pump" /\ c \in upstreamOpen => handler[c] = "closeUp"
      BY <1>b DEF IInv, SocketsOwned
    <2> QED
      BY <1>2, <2>1, <2>2
      DEF ChannelDropped, PeerBreak, Usable, IsOpen, vars
  <1>3. (\E c \in Conns : ChannelDropped(c)) \/ dead' = dead
    BY DEF SSHNext, allVars, sshVars, NewClient, DialHost, Handshake, Listen, ListenFails,
           SessionLost, Stage, SSHClose, WaitReturns, CloseSession, CloseProxy, SSHReturn
  <1>4. dead \subseteq Conns
    BY DEF SInv, SSHTypeOK
  <1> QED
    BY <1>1, <1>2, <1>3, <1>4 DEF Dropped, Opened

\* What the tunnel holds is what its stage and the progress of Close say.
THEOREM SSHInvariance == SSHSpec => [](CInv /\ SInv)
  <1>1. SSHInit => CInv /\ SInv
    BY SSHInitInv, InitCInv DEF SSHInit
  <1>2. CInv /\ SInv /\ [SSHNext]_allVars => (CInv /\ SInv)'
    BY SkeletonStep, CInvStep, HoldingStep, TeardownStep, DroppedStep DEF SInv, CInv
  <1> QED
    BY <1>1, <1>2, PTL DEF SSHSpec

\* The SSH tunnel implements Tunnel: every theorem of TunnelProofs is one of
\* the SSH tunnel too.
THEOREM SSHRefinement == SSHSpec => SkeletonKept
  <1>1. SSHInit => Init
    BY DEF SSHInit
  <1> QED
    BY SSHInvariance, <1>1, SkeletonStep, PTL DEF SSHSpec, SkeletonKept, Spec

\* And it keeps what any tunnel promises: it serves between start and Close, and
\* Close returns with nothing left.  (ssh.go:196-225)
THEOREM SSHKeepsPromise == SSHSpec => PromiseKept
  BY SSHRefinement, Refinement DEF SkeletonKept

\* NewSSHTunnel gives back everything it opened when one of its stages fails.
THEOREM ConstructorCleansUp == SSHSpec => []FailedHoldsNothing
  <1>1. SInv => FailedHoldsNothing
    BY DEF SInv, Holding, TeardownLast, FailedHoldsNothing
  <1> QED
    BY SSHInvariance, <1>1, PTL

\* Close ends the session and the proxy client only after the last handler.
THEOREM SessionLast == SSHSpec => []SessionOutlivesHandlers
  <1>1. CInv /\ SInv => SessionOutlivesHandlers
    <2> SUFFICES ASSUME CInv, SInv, loop # "none", held # {"proxy", "session"}
                 PROVE  Active = {} /\ loop = "done"
      BY DEF SessionOutlivesHandlers
    <2>1. teardown # "none"
      BY DEF SInv, Holding, TeardownLast
    <2>2. loop = "done" /\ wg = 0
      BY <2>1 DEF SInv, TeardownLast
    <2> QED
      BY <2>2, WgPositive DEF CInv, IInv
  <1> QED
    BY SSHInvariance, <1>1, PTL

\* Nothing at all is held once Close has returned.
THEOREM SSHLeakFreedom == SSHSpec => [](NothingLeaks /\ SessionReleased)
  <1>1. SSHSpec => []NothingLeaks
    BY SSHRefinement, LeakFreedom DEF SkeletonKept
  <1>2. SInv /\ NothingLeaks => SessionReleased
    BY DEF SInv, Holding, TeardownLast, NothingLeaks, NothingHeld, SessionReleased, Returned
  <1> QED
    BY <1>1, <1>2, SSHInvariance, PTL

\* Neither a lost session nor a gateway that drops one channel leaves its handler
\* waiting for anything but the local client: both tokens still come.
\* (ssh.go:258-285)
THEOREM LossLeavesOnlyTheClient == SSHSpec => []DroppedHeldUpByClientOnly
  <1>1. CInv /\ SInv => DroppedHeldUpByClientOnly
    <2> SUFFICES ASSUME CInv, SInv, NEW c \in dead, handler[c] = "pump", done[c] = 0
                 PROVE  \/ pump[c]["down"] = "send" /\ done[c] < DoneCap
                        \/ pump[c]["down"] = "read" /\ ~Usable(c, "upstream")
                        \/ pump[c]["down"] = "write"
      <3>1. ASSUME CInv, SInv, NEW c \in dead
            PROVE  ~(done[c] > 0) => done[c] = 0
        BY <3>1 DEF CInv, IInv, TypeOK, SInv, SSHTypeOK, DoneCap
      <3> QED
        BY <3>1 DEF DroppedHeldUpByClientOnly
    <2>1. c \in Conns /\ ~Usable(c, "upstream")
      BY DEF SInv, SSHTypeOK, Dropped
    <2>2. Owes(c, "up") + Owes(c, "down") = 2
      <3>1. Owes(c, "up") \in Nat /\ Owes(c, "down") \in Nat
        BY DEF Owes
      <3>2. done[c] + Owes(c, "up") + Owes(c, "down") = 2
        BY <2>1 DEF CInv, TokensCounted, DoneCap
      <3> QED
        BY <3>1, <3>2
    <2>3. pump[c]["down"] \in {"read", "write", "send"}
      BY <2>2 DEF Owes
    <2> QED
      BY <2>1, <2>3 DEF DoneCap
  <1> QED
    BY SSHInvariance, <1>1, PTL

\* The locks, counters and channels of the SSH tunnel do not make its Close, its
\* handlers and its tear-down wait for one another: only what is being sent to the
\* gateway can hold them up, and that only while the session lasts.
\* (ssh.go:196-225)
THEOREM SSHNoDeadlockInClose == SSHSpec => []SSHCloseHeldUpBySendsOnly
  <1>1. SSHSpec => []CloseHeldUpByWritesOnly
    BY SSHRefinement, NoDeadlockInClose DEF SkeletonKept
  <1>2. CInv /\ SInv /\ CloseHeldUpByWritesOnly => SSHCloseHeldUpBySendsOnly
    <2> SUFFICES ASSUME CInv, SInv, CloseHeldUpByWritesOnly, closed, ~Returned
                 PROVE  SSHStepDue \/ \E c \in Conns : Sending(c)
      BY DEF SSHCloseHeldUpBySendsOnly
    <2>1. SomeStepDue \/ \E c \in Conns : Stalled(c)
      BY DEF CloseHeldUpByWritesOnly
    <2>2. CASE loop = "accept" /\ listener = "closed"
      BY <2>2 DEF SSHStepDue
    <2>3. ASSUME NEW c \in Conns, HandlerDue(c)
          PROVE  SSHHandlerDue(c) \/ Sending(c)
      BY <2>3 DEF SSHHandlerDue, Sending
    <2>4. ASSUME NEW c \in Conns, handler[c] = "pump", UpCopyDue(c)
          PROVE  SSHHandlerDue(c) \/ Sending(c)
      BY <2>4 DEF SSHHandlerDue, Sending, UpCopyDue
    <2>5. ASSUME NEW c \in Conns, Stalled(c)
          PROVE  SSHHandlerDue(c) \/ Sending(c)
      <3>1. c \notin dead
        BY <2>5 DEF SInv, Dropped, Stalled
      <3> QED
        BY <2>5, <3>1 DEF SSHHandlerDue, Sending, Stalled
    <2>6. ASSUME NEW p \in Closers, CloseDue(p) PROVE SSHCloseDue(p)
      <3>1. teardown \in {"none", "session", "proxy"}
        BY DEF SInv, SSHTypeOK, TeardownLast
      <3> QED
        BY <2>6, <3>1 DEF CloseDue, SSHCloseDue
    <2> QED
      BY <2>1, <2>2, <2>3, <2>4, <2>5, <2>6 DEF SomeStepDue, SSHStepDue
  <1> QED
    BY <1>1, <1>2, SSHInvariance, PTL

\* An SSH client too is handled once, only given up for a reason and closed before
\* t.mu is released, and no wg.Add of its handler races wg.Wait.
\* (ssh.go:227-295)
THEOREM SSHHandling ==
  SSHSpec => []ForceClosed /\ NoAddFromZero /\ FirstEndedIsComplete /\ OneWay
  BY SSHRefinement, ForcedClose, AddBeforeWait, EndedForCause, HandledOnce DEF SkeletonKept

\* What is left of an SSH tunnel after Close runs out, and nothing comes back.
\* (ssh.go:196-225)
THEOREM SSHCloseIsFinal == SSHSpec => CopiesRunOut /\ RangeUndisturbed /\ StaysClosed
  BY SSHRefinement, CopiesEnd, SafeRange, CloseIsFinal DEF SkeletonKept

\* The SSH tunnel too serves nobody whom Close could miss, and nobody twice.
\* (ssh.go:196-257)
THEOREM SSHServesBetween ==
  SSHSpec => /\ []Promise!HoldsWhatItServes
             /\ Promise!ServesOnlyWhileUp
             /\ Promise!ClosedForGood
  BY SSHKeepsPromise, PromiseMeans
=============================================================================
