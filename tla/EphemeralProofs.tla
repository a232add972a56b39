--------------------------- MODULE EphemeralProofs ---------------------------
(***************************************************************************)
(* Proofs about EphemeralTunnels, for any set of tunnel resources.         *)
(***************************************************************************)
EXTENDS EphemeralTunnels, TLAPS

LEMMA InitInv == Init => IInv
  <1> SUFFICES ASSUME Init PROVE IInv
    OBVIOUS
  <1>1. TypeOK
    BY DEF Init, TypeOK, Ended
  <1>2. OwnedOnce /\ NoOrphan /\ CloseFindsTunnel /\ Fresh /\ ConnectedBeyond
    BY DEF Init, OwnedOnce, NoOrphan, CloseFindsTunnel, Fresh, ConnectedBeyond, Beyond
  <1> QED
    BY <1>1, <1>2 DEF IInv

LEMMA TypeStep == TypeOK /\ [Next]_vars => TypeOK'
  <1> SUFFICES ASSUME TypeOK, [Next]_vars PROVE TypeOK'
    OBVIOUS
  <1>1. CASE UNCHANGED vars
    BY <1>1 DEF vars, TypeOK
  <1>2. CASE Configure \/ Exit
    BY <1>2 DEF Configure, Exit, TypeOK
  <1>3. ASSUME NEW i \in Instances,
               OpenBegin(i) \/ CloseBegin(i) \/ Connect(i) \/ ResolveCluster(i) \/ Issue(i)
        PROVE  TypeOK'
    BY <1>3 DEF OpenBegin, CloseBegin, Connect, ResolveCluster, Issue, Goto, TypeOK,
                OpenStates, CloseStates, Ended
  <1>4. ASSUME NEW i \in Instances,
               Start(i) \/ Add(i) \/ SetKey(i) \/ Abort(i) \/ Shut(i)
        PROVE  TypeOK'
    BY <1>4 DEF Start, Add, SetKey, Abort, Shut, Goto, TypeOK, OpenStates, CloseStates, Ended
  <1>5. ASSUME NEW i \in Instances, Publish(i) \/ Take(i)
        PROVE  TypeOK'
    BY <1>5 DEF Publish, Take, TakeFrom, Goto, TypeOK, OpenStates, CloseStates, Ended
  <1> QED
    BY <1>1, <1>2, <1>3, <1>4, <1>5 DEF Next, OpenStep, CloseStep

LEMMA OwnershipStep ==
  IInv /\ [Next]_vars => (OwnedOnce /\ NoOrphan /\ CloseFindsTunnel /\ Fresh)'
  <1> DEFINE Owned == OwnedOnce /\ NoOrphan /\ CloseFindsTunnel /\ Fresh
  <1> SUFFICES ASSUME IInv, [Next]_vars PROVE Owned'
    OBVIOUS
  <1>0. TypeOK /\ Owned
    BY DEF IInv
  <1>1. CASE UNCHANGED vars
    BY <1>0, <1>1 DEF vars, OwnedOnce, NoOrphan, CloseFindsTunnel, Fresh
  <1>2. CASE Configure \/ Exit
    BY <1>0, <1>2 DEF Configure, Exit, OwnedOnce, NoOrphan, CloseFindsTunnel, Fresh
  <1>3. ASSUME NEW i \in Instances,
               OpenBegin(i) \/ CloseBegin(i) \/ Connect(i) \/ ResolveCluster(i) \/ Issue(i)
        PROVE  Owned'
    BY <1>0, <1>3
    DEF OpenBegin, CloseBegin, Connect, ResolveCluster, Issue, Goto, TypeOK, OwnedOnce,
        NoOrphan, CloseFindsTunnel, Fresh
  <1>4. ASSUME NEW i \in Instances, Start(i)
        PROVE  Owned'
    BY <1>0, <1>4 DEF Start, Goto, TypeOK, OwnedOnce, NoOrphan, CloseFindsTunnel, Fresh
  <1>5. ASSUME NEW i \in Instances, Add(i)
        PROVE  Owned'
    BY <1>0, <1>5 DEF Add, Goto, TypeOK, OwnedOnce, NoOrphan, CloseFindsTunnel, Fresh
  <1>6. ASSUME NEW i \in Instances, Publish(i)
        PROVE  Owned'
    BY <1>0, <1>6 DEF Publish, TakeFrom, Goto, TypeOK, OwnedOnce, NoOrphan, CloseFindsTunnel, Fresh
  <1>7. ASSUME NEW i \in Instances, SetKey(i)
        PROVE  Owned'
    BY <1>0, <1>7 DEF SetKey, Goto, TypeOK, OwnedOnce, NoOrphan, CloseFindsTunnel, Fresh
  <1>8. ASSUME NEW i \in Instances, Take(i)
        PROVE  Owned'
    BY <1>0, <1>8 DEF Take, TakeFrom, Goto, TypeOK, OwnedOnce, NoOrphan, CloseFindsTunnel, Fresh
  <1>9. ASSUME NEW i \in Instances, Abort(i) \/ Shut(i)
        PROVE  Owned'
    BY <1>0, <1>9 DEF Abort, Shut, Goto, TypeOK, OwnedOnce, NoOrphan, CloseFindsTunnel, Fresh
  <1> QED
    BY <1>1, <1>2, <1>3, <1>4, <1>5, <1>6, <1>7, <1>8, <1>9 DEF Next, OpenStep, CloseStep

LEMMA ConnectionStep == IInv /\ [Next]_vars => ConnectedBeyond'
  <1> SUFFICES ASSUME TypeOK, ConnectedBeyond, [Next]_vars PROVE ConnectedBeyond'
    BY DEF IInv
  <1>1. CASE UNCHANGED vars
    BY <1>1 DEF vars, ConnectedBeyond
  <1>2. CASE Configure \/ Exit
    BY <1>2 DEF Configure, Exit, ConnectedBeyond, Beyond
  <1>3. ASSUME NEW i \in Instances, OpenBegin(i) \/ Connect(i)
        PROVE  ConnectedBeyond'
    BY <1>3 DEF OpenBegin, Connect, Goto, TypeOK, ConnectedBeyond, Beyond
  <1>4. ASSUME NEW i \in Instances, NEW from \in Beyond, NEW to, Goto(i, from, to),
               UNCHANGED <<cell, configured>>
        PROVE  ConnectedBeyond'
    BY <1>4 DEF Goto, TypeOK, ConnectedBeyond, Beyond
  <1>5. ASSUME NEW i \in Instances,
               \/ ResolveCluster(i) \/ Issue(i) \/ Start(i) \/ Add(i) \/ Publish(i)
               \/ SetKey(i) \/ Abort(i) \/ CloseBegin(i) \/ Take(i) \/ Shut(i)
        PROVE  \E from \in Beyond, to \in Beyond \cup {"failed"} :
                 Goto(i, from, to) /\ UNCHANGED <<cell, configured>>
    BY <1>5
    DEF ResolveCluster, Issue, Start, Add, Publish, TakeFrom, SetKey, Abort, CloseBegin,
        Take, Shut, Beyond
  <1> QED
    BY <1>1, <1>2, <1>3, <1>4, <1>5 DEF Next, OpenStep, CloseStep

\* The registry, the tunnels and the positions of the Open and Close RPCs
\* agree in every reachable state.
THEOREM Invariance == Spec => []IInv
  <1>1. IInv /\ [Next]_vars => IInv'
    BY TypeStep, OwnershipStep, ConnectionStep DEF IInv
  <1> QED
    BY InitInv, <1>1, PTL DEF Spec

\* Every tunnel that runs has exactly one owner: the registry or its RPC.
THEOREM SingleOwner == Spec => []OwnedOnce
  <1>1. IInv => OwnedOnce
    BY DEF IInv
  <1> QED
    BY Invariance, <1>1, PTL

\* An Open that failed and a Close that returned leave no tunnel behind.
THEOREM NoTunnelLeft == Spec => []NoOrphan
  <1>1. IInv => NoOrphan
    BY DEF IInv
  <1> QED
    BY Invariance, <1>1, PTL

\* Close finds the tunnel its Open left, which is still up.
THEOREM Findable == Spec => []CloseFindsTunnel
  <1>1. IInv => CloseFindsTunnel
    BY DEF IInv
  <1> QED
    BY Invariance, <1>1, PTL

\* Whoever is past the connect has the one client, so that no tunnel runs without
\* a connection and the cluster name is there when it is asked for.
\* (ephemeral_ssh_tunnel.go:139-154)
THEOREM ConnectedOnceBeyond == Spec => []ConnectedBeyond
  <1>1. IInv => ConnectedBeyond
    BY DEF IInv
  <1> QED
    BY Invariance, <1>1, PTL

\* What the first RPC, or Configure, made of the connection stays.
\* (provider.go:84-122)
THEOREM ConnectionStays == Spec => DecidedOnce
  <1>1. ASSUME IInv, [Next]_vars, cell # "undecided" PROVE cell' = cell
    <2>1. CASE Configure
      BY <1>1, <2>1 DEF IInv, ConnectedBeyond, Configure
    <2>2. ASSUME NEW i \in Instances,
                 OpenBegin(i) \/ CloseBegin(i) \/ OpenStep(i) \/ CloseStep(i)
          PROVE  cell' = cell
      BY <1>1, <2>2
      DEF OpenBegin, CloseBegin, OpenStep, CloseStep, Connect, ResolveCluster, Issue, Start,
          Add, Publish, SetKey, Abort, Take, Shut
    <2> QED
      BY <1>1, <2>1, <2>2 DEF Next, Exit, vars
  <1> QED
    BY <1>1, Invariance, PTL DEF Spec, DecidedOnce

----------------------------------------------------------------------------
(* The composition: each instance drives its own tunnel as TunnelSpec says.*)

\* An RPC of another instance does not touch the tunnel; one of its own moves it
\* from where the invariant says it is.
LEMMA TunnelStep ==
  ASSUME IInv, [Next]_vars, NEW i \in Instances
  PROVE  TunnelOf(i)!Next \/ UNCHANGED tunnel[i]
  <1>0. TypeOK /\ OwnedOnce /\ Fresh
    BY DEF IInv
  <1>1. CASE UNCHANGED tunnel
    BY <1>1
  <1>2. ASSUME NEW j \in Instances, tunnel' # tunnel,
               Start(j) \/ Add(j) \/ Publish(j) \/ Take(j) \/ Abort(j) \/ Shut(j)
        PROVE  TunnelOf(i)!Next \/ UNCHANGED tunnel[i]
    <2>1. PICK t : tunnel' = [tunnel EXCEPT ![j] = t]
      BY <1>2 DEF Start, Add, Publish, Take, TakeFrom, Abort, Shut
    <2>2. CASE i # j
      BY <1>0, <2>1, <2>2 DEF TypeOK
    <2>3. CASE Start(i)
      <3>1. tunnel[i] = "down" /\ (tunnel'[i] = "up" \/ UNCHANGED tunnel)
        BY <1>0, <2>3 DEF Start, Goto, TypeOK, Fresh
      <3> QED
        BY <3>1 DEF TunnelOf!Next, TunnelOf!Start
    <2>4. CASE Add(i) \/ Publish(i) \/ Take(i)
      <3>1. (tunnel[i] = "up" /\ tunnel'[i] = "closing") \/ UNCHANGED tunnel
        BY <1>0, <2>4 DEF Add, Publish, Take, TakeFrom, Goto, TypeOK, OwnedOnce
      <3> QED
        BY <3>1 DEF TunnelOf!Next, TunnelOf!BeginClose
    <2>5. CASE Abort(i) \/ Shut(i)
      <3>1. tunnel[i] = "closing" /\ tunnel'[i] = "closed"
        BY <1>0, <2>5 DEF Abort, Shut, Goto, TypeOK, OwnedOnce
      <3> QED
        BY <3>1 DEF TunnelOf!Next, TunnelOf!Finish
    <2> QED
      BY <1>2, <2>2, <2>3, <2>4, <2>5
  <1>3. tunnel' = tunnel \/ \E j \in Instances :
          Start(j) \/ Add(j) \/ Publish(j) \/ Take(j) \/ Abort(j) \/ Shut(j)
    BY DEF Next, OpenStep, CloseStep, vars, Configure, Exit, OpenBegin, CloseBegin, Connect,
           ResolveCluster, Issue, SetKey
  <1> QED
    BY <1>1, <1>2, <1>3

\* No RPC uses a tunnel in a way TunnelSpec does not provide for: it is started
\* once, its Close is called once and returns once.
\* (ephemeral_db_tunnel.go:180-246)
THEOREM UsedAsPromised == Spec => TunnelsUsedAsPromised
  <1>1. IInv /\ [Next]_vars =>
          (\A i \in Instances : TunnelOf(i)!Next \/ UNCHANGED tunnel[i])
    BY TunnelStep
  <1> QED
    BY <1>1, Invariance, PTL DEF Spec, TunnelsUsedAsPromised

\* The resources compose with the tunnels: the tunnel of each instance is one that
\* Tunnel and SSHTunnel implement.  (ephemeral_db_tunnel.go:180-246, db.go:111-234)
THEOREM Composition ==
  ASSUME NEW CONSTANT i \in Instances
  PROVE  Spec => TunnelOf(i)!Spec
  <1>1. Init => TunnelOf(i)!Init
    BY DEF Init, TunnelOf!Init
  <1>2. IInv /\ [Next]_vars => [TunnelOf(i)!Next]_(TunnelOf(i)!vars)
    BY TunnelStep DEF TunnelOf!vars
  <1> QED
    BY <1>1, <1>2, Invariance, PTL DEF Spec, TunnelOf!Spec

\* Whatever RPCs come, a tunnel that was closed is not used again.
\* (ephemeral_db_tunnel.go:221-246)
THEOREM ClosedTunnelsStay ==
  ASSUME NEW CONSTANT i \in Instances
  PROVE  Spec => TunnelOf(i)!ClosedForGood
  <1>1. [TunnelOf(i)!Next]_(TunnelOf(i)!vars) =>
          [tunnel[i] = "closed" => UNCHANGED TunnelOf(i)!vars]_(TunnelOf(i)!vars)
    BY DEF TunnelOf!Next, TunnelOf!vars, TunnelOf!Start, TunnelOf!Serve, TunnelOf!Release,
           TunnelOf!BeginClose, TunnelOf!Finish
  <1> QED
    BY <1>1, Composition, PTL DEF TunnelOf!Spec, TunnelOf!ClosedForGood
=============================================================================
