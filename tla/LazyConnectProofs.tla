-------------------------- MODULE LazyConnectProofs --------------------------
(***************************************************************************)
(* Proofs about LazyConnect, for any set of callers.                       *)
(***************************************************************************)
EXTENDS LazyConnect, TLAPS

LEMMA InitInv == Init => CInv
  <1> SUFFICES ASSUME Init PROVE CInv
    OBVIOUS
  <1>1. TypeOK
    BY DEF Init, TypeOK, States, Results
  <1>2. OneAttempt /\ NoClientLeak /\ Cached
    BY DEF Init, OneAttempt, NoClientLeak, Cached
  <1>3. InSection
    BY CallersAssumption DEF Init, InSection
  <1>4. Answered
    BY CallersAssumption DEF Init, Results, Answered
  <1>5. Published
    BY DEF Init, Published
  <1> QED
    BY <1>1, <1>2, <1>3, <1>4, <1>5 DEF CInv

LEMMA TypeStep == CInv /\ [Next]_vars => TypeOK'
  <1> SUFFICES ASSUME TypeOK, [Next]_vars PROVE TypeOK'
    BY DEF CInv
  <1>1. CASE UNCHANGED vars
    BY <1>1 DEF vars, TypeOK
  <1>2. CASE ConfigureRejected \/ ConfigureLazy \/ ConfigureEager \/ ConfigureEnd
    BY <1>2 DEF ConfigureRejected, ConfigureLazy, ConfigureEager, ConfigureEnd, TypeOK,
                States
  <1>3. ASSUME NEW c \in Callers, Call(c) \/ LockMiss(c) \/ BuildOK(c) \/ ReadClusterName(c)
        PROVE  TypeOK'
    BY <1>3 DEF Call, LockMiss, BuildOK, ReadClusterName, TypeOK, States
  <1>4. ASSUME NEW c \in Callers, LockHit(c) \/ BuildFail(c) \/ PingOK(c) \/ PingFail(c)
        PROVE  TypeOK'
    BY <1>4 DEF LockHit, BuildFail, PingOK, PingFail, ReturnFromClient, TypeOK,
                States, Results
  <1> QED
    BY <1>1, <1>2, <1>3, <1>4 DEF Next, Step

LEMMA InvStep == CInv /\ [Next]_vars => CInv'
  <1> DEFINE Rest == OneAttempt /\ NoClientLeak /\ Cached /\ InSection /\ Answered /\ Published
  <1> SUFFICES ASSUME CInv, [Next]_vars PROVE Rest'
    BY TypeStep DEF CInv
  <1>0. TypeOK
    BY DEF CInv
  <1>r. Rest
    BY DEF CInv
  <1>1. CASE UNCHANGED vars
    BY <1>r, <1>1 DEF vars, OneAttempt, NoClientLeak, Cached, InSection, Answered, Published
  <1>2. CASE ConfigureRejected \/ ConfigureLazy
    BY <1>0, <1>r, <1>2
    DEF ConfigureRejected, ConfigureLazy, OneAttempt, NoClientLeak, Cached, InSection, Answered, Published
  <1>3. CASE ConfigureEager
    BY <1>0, <1>r, <1>3, CallersAssumption
    DEF ConfigureEager, TypeOK, OneAttempt, NoClientLeak, Cached, InSection, Answered,
        Published
  <1>4. CASE ConfigureEnd
    <2>1. UNCHANGED <<eager, mu, connected, client, clusterName, connErr, open,
                      builders, pc, result>>
      BY <1>4 DEF ConfigureEnd
    <2>2. (OneAttempt /\ NoClientLeak /\ Cached /\ InSection /\ Answered)'
      BY <1>r, <2>1 DEF OneAttempt, NoClientLeak, Cached, InSection, Answered
    <2>3. configured # "yes" /\ (configured' = "yes" => client # None)
      <3>1. configured = "eager" /\ Configurer \in Callers
        BY <1>4, CallersAssumption DEF ConfigureEnd
      <3>2. configured' = "yes" => result[Configurer] = "client"
        BY <1>4 DEF ConfigureEnd
      <3> QED
        BY <1>r, <3>1, <3>2 DEF Answered
    <2>4. Published'
      BY <1>r, <1>4, <2>1, <2>3 DEF ConfigureEnd, Published
    <2> QED
      BY <2>2, <2>4
  <1>5. ASSUME NEW c \in Callers, Call(c)
        PROVE  Rest'
    BY <1>0, <1>r, <1>5
    DEF Call, TypeOK, OneAttempt, NoClientLeak, Cached, InSection, Answered, Published
  <1>6. ASSUME NEW c \in Callers, LockHit(c)
        PROVE  Rest'
    <2>1. (OneAttempt /\ NoClientLeak /\ Cached /\ InSection)'
      BY <1>0, <1>r, <1>6
      DEF LockHit, ReturnFromClient, TypeOK, OneAttempt, NoClientLeak, Cached, InSection
    <2>2. IF connErr THEN TRUE ELSE client # None
      BY <1>r, <1>6 DEF LockHit, Cached
    <2>3. Answered'
      BY <1>0, <1>r, <1>6, <2>2, CallersAssumption
      DEF LockHit, ReturnFromClient, TypeOK, Answered, Results
    <2>4. Published'
      BY <1>0, <1>r, <1>6 DEF LockHit, ReturnFromClient, TypeOK, Published
    <2> QED
      BY <2>1, <2>3, <2>4
  <1>7. ASSUME NEW c \in Callers, LockMiss(c)
        PROVE  Rest'
    BY <1>0, <1>r, <1>7, CallersAssumption
    DEF LockMiss, TypeOK, OneAttempt, NoClientLeak, Cached, InSection, Answered, Published
  <1>8. ASSUME NEW c \in Callers, BuildOK(c)
        PROVE  Rest'
    BY <1>0, <1>r, <1>8, CallersAssumption
    DEF BuildOK, TypeOK, OneAttempt, NoClientLeak, Cached, InSection, Answered, Published
  <1>9. ASSUME NEW c \in Callers, BuildFail(c) \/ PingFail(c)
        PROVE  Rest'
    BY <1>0, <1>r, <1>9, CallersAssumption
    DEF BuildFail, PingFail, ReturnFromClient, TypeOK, OneAttempt, NoClientLeak, Cached,
        InSection, Answered, Published
  <1>10. ASSUME NEW c \in Callers, PingOK(c)
         PROVE  Rest'
    BY <1>0, <1>r, <1>10, CallersAssumption
    DEF PingOK, ReturnFromClient, TypeOK, OneAttempt, NoClientLeak, Cached, InSection,
        Answered, Published
  <1>11. ASSUME NEW c \in Callers, ReadClusterName(c)
         PROVE  Rest'
    BY <1>0, <1>r, <1>11, CallersAssumption
    DEF ReadClusterName, TypeOK, OneAttempt, NoClientLeak, Cached, InSection, Answered,
        Published
  <1> QED
    BY <1>0, <1>1, <1>2, <1>3, <1>4, <1>5, <1>6, <1>7, <1>8, <1>9, <1>10, <1>11
    DEF Next, Step

\* The cached outcome, the critical section and what every caller was told
\* agree in every reachable state.
THEOREM Invariance == Spec => []CInv
  BY InitInv, InvStep, PTL DEF Spec

\* The proxy is dialled at most once per configuration.
THEOREM DialledOnce == Spec => []OneAttempt
  <1>1. CInv => OneAttempt
    BY DEF CInv
  <1> QED
    BY Invariance, <1>1, PTL

\* A failed connect leaves no client open.
THEOREM NoLeak == Spec => []NoClientLeak
  <1>1. CInv => NoClientLeak
    BY DEF CInv
  <1> QED
    BY Invariance, <1>1, PTL

\* Whoever was told "connected" shares an open client whose cluster is known.
THEOREM NamedWhenConnected == Spec => []ConnectedMeansNamed
  <1>1. CInv => ConnectedMeansNamed
    <2> SUFFICES ASSUME CInv, NEW c \in Callers
                 PROVE  /\ result[c] = "client" => client \in open /\ clusterName
                        /\ pc[c] = "returned" /\ c \in NameCallers => result[c] = "error"
      BY DEF ConnectedMeansNamed
    <2>1. ASSUME result[c] = "client" PROVE client \in open /\ clusterName
      <3>1. client # None /\ clusterName
        BY <2>1 DEF CInv, Answered, Cached
      <3>2. open = {client}
        BY <3>1 DEF CInv, InSection, NoClientLeak
      <3> QED
        BY <3>1, <3>2
    <2>2. ASSUME pc[c] = "returned", c \in NameCallers PROVE result[c] = "error"
      BY <2>2 DEF CInv, Answered, TypeOK, Results
    <2> QED
      BY <2>1, <2>2
  <1> QED
    BY Invariance, <1>1, PTL

\* With eager_connect no RPC after Configure is told of a failed connect.
THEOREM FailsFast == Spec => []EagerFailsFast
  <1>1. CInv => EagerFailsFast
    <2> SUFFICES ASSUME CInv, eager, NEW c \in Callers \ {Configurer},
                        result[c] = "error"
                 PROVE  FALSE
      BY DEF EagerFailsFast
    <2>1. pc[c] # "idle"
      BY CallersAssumption DEF CInv, Answered, Results
    <2>2. configured = "yes" /\ client # None
      BY <2>1 DEF CInv, Published
    <2>3. connErr /\ ~connErr
      BY <2>2 DEF CInv, Answered, Cached
    <2> QED
      BY <2>3
  <1> QED
    BY Invariance, <1>1, PTL

\* The outcome of the connection is the same for everybody who has been told it.
\* (provider.go:84-122)
THEOREM SameForAll == Spec => []OneAnswer
  <1>1. CInv => OneAnswer
    BY DEF CInv, TypeOK, Results, Answered, Cached, OneAnswer
  <1> QED
    BY Invariance, <1>1, PTL

\* Nobody replaces the shared client or closes it under those who use it: the only
\* steps that could do so are in the critical section of the first caller.
\* (provider.go:84-122)
THEOREM ClientKept == Spec => ClientStays
  <1>1. ASSUME CInv, [Next]_vars, client # None
        PROVE  client' = client /\ client \in open'
    <2>1. mu = None /\ \A c \in Callers : pc[c] \notin {"build", "ping"}
      BY <1>1, CallersAssumption DEF CInv, InSection, TypeOK
    <2>2. client \in open
      BY <1>1, <2>1 DEF CInv, NoClientLeak
    <2>3. ASSUME NEW c \in Callers, Call(c) \/ Step(c) PROVE UNCHANGED <<client, open>>
      BY <2>1, <2>3
      DEF Call, Step, LockHit, LockMiss, BuildOK, BuildFail, PingOK, PingFail, ReadClusterName
    <2>4. UNCHANGED <<client, open>>
      BY <1>1, <2>3
      DEF Next, ConfigureRejected, ConfigureLazy, ConfigureEager, ConfigureEnd, vars
    <2> QED
      BY <2>2, <2>4
  <1> QED
    BY <1>1, Invariance, PTL DEF Spec, ClientStays

\* Every caller only moves on, so that it takes pd.mu at most twice.
\* (provider.go:84-133)
THEOREM CallsMoveOn == Spec => CallsAdvance
  <1>1. ASSUME CInv, [Next]_vars, NEW e \in Callers, pc'[e] # pc[e]
        PROVE  Progress(pc[e]) < Progress(pc'[e])
    <2>0. pc \in [Callers -> States] /\ Configurer \in Callers
      BY <1>1, CallersAssumption DEF CInv, TypeOK
    <2>1. ASSUME NEW c \in Callers, Call(c) \/ Step(c)
          PROVE  Progress(pc[e]) < Progress(pc'[e])
      <3>1. CASE Call(c) \/ LockMiss(c) \/ BuildOK(c)
        BY <1>1, <2>0, <3>1 DEF Call, LockMiss, BuildOK, Progress
      <3>2. CASE LockHit(c) \/ BuildFail(c) \/ PingOK(c) \/ PingFail(c)
        BY <1>1, <2>0, <3>2
        DEF LockHit, BuildFail, PingOK, PingFail, ReturnFromClient, Progress
      <3>3. CASE ReadClusterName(c)
        BY <1>1, <2>0, <3>3 DEF ReadClusterName, Progress
      <3> QED
        BY <2>1, <3>1, <3>2, <3>3 DEF Step
    <2>2. CASE ConfigureEager
      BY <1>1, <2>0, <2>2 DEF ConfigureEager, CInv, Published, Progress
    <2> QED
      BY <1>1, <2>1, <2>2
      DEF Next, ConfigureRejected, ConfigureLazy, ConfigureEnd, vars
  <1>2. CInv /\ [Next]_vars =>
          (\A c \in Callers : pc'[c] # pc[c] => Progress(pc[c]) < Progress(pc'[c]))
    BY <1>1
  <1> QED
    BY <1>2, Invariance, PTL DEF Spec, CallsAdvance

\* Neither Client nor the second lock of ClusterName can leave callers waiting for
\* each other.  (provider.go:84-133)
THEOREM DeadlockFree == Spec => []NoDeadlock
  <1>1. CInv => NoDeadlock
    <2> SUFFICES ASSUME CInv, NEW c \in Callers, Waiting(c) PROVE SomeCallDue
      BY DEF NoDeadlock
    <2>1. CASE mu = None
      BY <2>1 DEF Waiting, SomeCallDue
    <2>2. CASE mu # None
      BY <2>2 DEF CInv, TypeOK, InSection, SomeCallDue
    <2> QED
      BY <2>1, <2>2
  <1> QED
    BY Invariance, <1>1, PTL

\* A Configure that failed, by its checks or by its eager connect, leaves no RPC a
\* connection to use.  (provider.go:310-332)
THEOREM FailedServesNone == Spec => []UnconfiguredServesNone
  <1>1. CInv => UnconfiguredServesNone
    BY DEF CInv, Published, Answered, UnconfiguredServesNone
  <1> QED
    BY Invariance, <1>1, PTL

----------------------------------------------------------------------------
(* pd implements a cell that is decided once.                              *)

LEMMA InitRefines == Init => Cell!Init
  BY DEF Init, Cell!Init, Outcome

\* The caller in the critical section decides, and learns what it decided.
LEMMA DecideRefines ==
  ASSUME CInv, NEW c \in Callers, PingOK(c) \/ BuildFail(c) \/ PingFail(c)
  PROVE  \E v \in Results : Cell!Decide(c, v)
  <1>1. mu = c /\ client = None /\ ~connErr /\ result[c] = None
    BY CallersAssumption
    DEF PingOK, BuildFail, PingFail, CInv, InSection, Answered
  <1>2. Outcome = None
    BY <1>1 DEF Outcome
  <1>3. CASE PingOK(c)
    <2>1. Outcome' = "client"
      BY <1>1, <1>3, CallersAssumption DEF PingOK, Outcome
    <2> QED
      BY <1>1, <1>2, <1>3, <2>1 DEF PingOK, ReturnFromClient, Cell!Decide, Results
  <1>4. CASE BuildFail(c) \/ PingFail(c)
    <2>1. Outcome' = "error"
      BY <1>1, <1>4 DEF BuildFail, PingFail, Outcome
    <2> QED
      BY <1>1, <1>2, <1>4, <2>1
      DEF BuildFail, PingFail, ReturnFromClient, Cell!Decide, Results
  <1> QED
    BY <1>3, <1>4

LEMMA LearnRefines ==
  ASSUME CInv, NEW c \in Callers, LockHit(c)
  PROVE  Cell!Learn(c)
  <1>1. result[c] = None
    BY DEF LockHit, CInv, Answered
  <1>2. Outcome = IF connErr THEN "error" ELSE "client"
    BY DEF LockHit, CInv, Cached, Outcome
  <1>3. Outcome # None
    BY <1>2, CallersAssumption DEF Results
  <1>4. Outcome' = Outcome
    BY DEF LockHit, Outcome
  <1> QED
    BY <1>1, <1>2, <1>3, <1>4 DEF LockHit, ReturnFromClient, Cell!Learn

LEMMA StepRefines == CInv /\ [Next]_vars => [Cell!Next]_(Cell!vars)
  <1> SUFFICES ASSUME CInv, [Next]_vars
               PROVE  Cell!Next \/ UNCHANGED <<Outcome, result>>
    BY DEF Cell!vars
  <1>1. CASE UNCHANGED vars
    BY <1>1 DEF vars, Outcome
  <1>2. CASE ConfigureRejected \/ ConfigureLazy \/ ConfigureEager \/ ConfigureEnd
    BY <1>2 DEF ConfigureRejected, ConfigureLazy, ConfigureEager, ConfigureEnd, Outcome
  <1>3. ASSUME NEW c \in Callers,
               Call(c) \/ LockMiss(c) \/ BuildOK(c) \/ ReadClusterName(c)
        PROVE  UNCHANGED <<Outcome, result>>
    BY <1>3 DEF Call, LockMiss, BuildOK, ReadClusterName, Outcome
  <1>4. ASSUME NEW c \in Callers, LockHit(c)
        PROVE  Cell!Next
    BY <1>4, LearnRefines DEF Cell!Next
  <1>5. ASSUME NEW c \in Callers, PingOK(c) \/ BuildFail(c) \/ PingFail(c)
        PROVE  Cell!Next
    BY <1>5, DecideRefines DEF Cell!Next
  <1> QED
    BY <1>1, <1>2, <1>3, <1>4, <1>5 DEF Next, Step

\* Every caller of Client is told the one outcome that the first one decided.
THEOREM Refinement == Spec => OneOutcome
  <1>1. Init => Cell!Init
    BY InitRefines
  <1>2. CInv /\ [Next]_vars => [Cell!Next]_(Cell!vars)
    BY StepRefines
  <1> QED
    BY Invariance, <1>1, <1>2, PTL DEF Spec, OneOutcome, Cell!Spec
=============================================================================
