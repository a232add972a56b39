---------------------------- MODULE LookupProofs ----------------------------
(***************************************************************************)
(* The loop invariant LInv is inductive for listings of any length, and    *)
(* gives both properties of a lookup.                                      *)
(***************************************************************************)
EXTENDS Lookup, TLAPS

\* A listing is a finite sequence, indexed from 1.
LEMMA ListingType ==
  ASSUME NEW s \in Listings
  PROVE  s \in Seq(Heartbeats \cup {NoDatabase}) /\ DOMAIN s = 1 .. Len(s)
  BY LookupAssumption

\* An element that is not taken adds nothing: it is not wanted, or its name has
\* been seen.
LEMMA SkipScans ==
  ASSUME LInv, ScanSkip
  PROVE  ScannedUpTo(k)'
<1>1. /\ servers' = servers /\ matches' = matches /\ kind' = kind
      /\ want' = want /\ seen' = seen /\ k' = k + 1 /\ pc = "scan"
      /\ k \in DOMAIN servers /\ ~Taken(servers[k])
  BY DEF ScanSkip
<1>2. ScannedUpTo(k) /\ TypeOK
  BY <1>1 DEF LInv
<1>3. /\ k \in Nat /\ DOMAIN servers \subseteq Nat
      /\ DOMAIN matches \subseteq Nat
      /\ \A j \in DOMAIN matches : matches[j] \in DOMAIN servers
  BY <1>2 DEF TypeOK
<1>4. Matching' = Matching /\ \A i : Identity(i)' = Identity(i)
  BY <1>1 DEF Matching, Wanted, Identity
<1>5. ASSUME k \in Matching
      PROVE  /\ matches # <<>> /\ matches[1] <= k
             /\ \E j \in DOMAIN matches : Identity(matches[j]) = Identity(k)
  <2>1. kind = "database" /\ servers[k].name \in seen
    BY <1>1, <1>5 DEF Taken, Duplicate, Matching
  <2>2. PICK j \in DOMAIN matches : Identity(matches[j]) = Identity(k)
    BY <1>2, <2>1 DEF ScannedUpTo, Identity
  <2>3. matches # <<>> /\ 1 \in DOMAIN matches
    BY <1>2, <2>2 DEF TypeOK
  <2>4. matches[1] < k /\ matches[1] \in Nat
    BY <1>2, <1>3, <2>3 DEF ScannedUpTo
  <2> QED
    BY <1>3, <2>2, <2>3, <2>4
<1>6. \A i \in Matching : i < k + 1 => i < k \/ i = k
  BY <1>3 DEF Matching
<1>7. \A j \in DOMAIN matches : matches[j] < k + 1
  BY <1>2, <1>3 DEF ScannedUpTo
<1> QED
  BY <1>1, <1>2, <1>4, <1>5, <1>6, <1>7 DEF ScannedUpTo

\* An element that is taken is a resource not met before.
LEMMA TakeScans ==
  ASSUME LInv, ScanTake
  PROVE  ScannedUpTo(k)'
<1>1. /\ servers' = servers /\ kind' = kind /\ want' = want
      /\ matches' = Append(matches, k) /\ k' = k + 1 /\ pc = "scan"
      /\ seen' = IF kind = "database" THEN seen \cup {servers[k].name} ELSE seen
      /\ k \in DOMAIN servers /\ Taken(servers[k])
  BY DEF ScanTake
<1>2. ScannedUpTo(k) /\ TypeOK
  BY <1>1 DEF LInv
<1>3. /\ k \in Nat /\ DOMAIN servers \subseteq Nat
      /\ matches \in Seq(DOMAIN servers)
      /\ \A j \in DOMAIN matches : matches[j] \in DOMAIN servers
  BY <1>2 DEF TypeOK
<1>4. Matching' = Matching /\ \A i : Identity(i)' = Identity(i)
  BY <1>1 DEF Matching, Wanted, Identity
<1>5. k \in Matching
  BY <1>1 DEF Taken, Matching
<1>6. /\ Len(matches) \in Nat /\ DOMAIN matches = 1 .. Len(matches)
      /\ DOMAIN matches' = 1 .. Len(matches) + 1
      /\ matches'[Len(matches) + 1] = k
      /\ \A j \in DOMAIN matches : matches'[j] = matches[j]
      /\ matches' # <<>>
  BY <1>1, <1>3
<1>7. \A j \in DOMAIN matches : Identity(matches[j]) # Identity(k)
  <2>1. CASE kind = "database"
    BY <1>1, <1>2, <2>1 DEF Taken, Duplicate, ScannedUpTo, Identity
  <2>2. CASE kind # "database"
    BY <1>2, <1>3, <2>2 DEF ScannedUpTo, Identity
  <2> QED
    BY <2>1, <2>2
<1>8. \A j \in DOMAIN matches' : matches'[j] \in Matching /\ matches'[j] < k + 1
  BY <1>2, <1>3, <1>5, <1>6 DEF ScannedUpTo
<1>9. \A i \in Matching : i < k + 1 =>
        /\ matches'[1] <= i
        /\ \E j \in DOMAIN matches' : Identity(matches'[j]) = Identity(i)
  <2> SUFFICES ASSUME NEW i \in Matching, i < k + 1
               PROVE  /\ matches'[1] <= i
                      /\ \E j \in DOMAIN matches' : Identity(matches'[j]) = Identity(i)
    OBVIOUS
  <2>1. CASE i < k
    <3>1. matches # <<>> /\ matches[1] <= i
      BY <1>2, <2>1 DEF ScannedUpTo
    <3>2. 1 \in DOMAIN matches
      BY <1>3, <3>1
    <3>3. PICK j \in DOMAIN matches : Identity(matches[j]) = Identity(i)
      BY <1>2, <2>1 DEF ScannedUpTo
    <3>4. j \in DOMAIN matches'
      BY <1>6
    <3> QED
      BY <1>6, <3>1, <3>2, <3>3, <3>4
  <2>2. CASE i = k
    <3>1. matches'[1] <= k
      <4>1. CASE Len(matches) = 0
        BY <1>3, <1>6, <4>1
      <4>2. CASE Len(matches) # 0
        <5>1. 1 \in DOMAIN matches
          BY <1>6, <4>2
        <5>2. matches[1] < k /\ matches[1] \in Nat
          BY <1>2, <1>3, <5>1 DEF ScannedUpTo
        <5> QED
          BY <1>3, <1>6, <5>1, <5>2
      <4> QED
        BY <4>1, <4>2
    <3>2. Len(matches) + 1 \in DOMAIN matches'
      BY <1>6
    <3> QED
      BY <1>6, <2>2, <3>1, <3>2
  <2> QED
    BY <1>3, <2>1, <2>2 DEF Matching
<1>10. \A j, l \in DOMAIN matches' :
         Identity(matches'[j]) = Identity(matches'[l]) => j = l
  BY <1>2, <1>6, <1>7 DEF ScannedUpTo
<1>11. kind = "database" =>
         seen' = {Identity(matches'[j]) : j \in DOMAIN matches'}
  <2> SUFFICES ASSUME kind = "database"
               PROVE  seen' = {Identity(matches'[j]) : j \in DOMAIN matches'}
    OBVIOUS
  <2>1. seen' = seen \cup {Identity(k)}
    BY <1>1 DEF Identity
  <2>2. seen = {Identity(matches[j]) : j \in DOMAIN matches}
    BY <1>2 DEF ScannedUpTo
  <2> QED
    BY <1>6, <2>1, <2>2
<1> QED
  BY <1>1, <1>4, <1>6, <1>8, <1>9, <1>10, <1>11 DEF ScannedUpTo

LEMMA InitLInv == Init => LInv
  BY LookupAssumption DEF Init, LInv, TypeOK, Wants

\* Each step keeps every conjunct of LInv; the loops by the two lemmas above.
LEMMA StepLInv == LInv /\ [Next]_vars => LInv'
<1> SUFFICES ASSUME LInv, [Next]_vars PROVE LInv'
  OBVIOUS
<1>1. TypeOK
  BY DEF LInv
<1>2. CASE ReadFails
  BY <1>2 DEF ReadFails, LInv, TypeOK
<1>3. CASE GetDatabaseServers \/ GetNodes
  <2>1. /\ pc = "read" /\ ~Missing /\ pc' = "scan" /\ servers' \in Listings
        /\ k' = k /\ seen' = seen /\ matches' = matches /\ kind' = kind
        /\ want' = want /\ relisted' = relisted /\ protocol' = protocol
    BY <1>3 DEF GetDatabaseServers, GetNodes
  <2>2. k = 1 /\ matches = <<>> /\ seen = {}
    BY <2>1 DEF LInv
  <2>3. servers' \in Seq(Heartbeats \cup {NoDatabase}) /\ DOMAIN servers' = 1 .. Len(servers')
    BY <2>1, ListingType
  <2>4. TypeOK'
    BY <1>1, <2>1, <2>2, <2>3 DEF TypeOK
  <2>5. ScannedUpTo(k)'
    BY <2>1, <2>2, <2>3 DEF ScannedUpTo, Matching
  <2> QED
    BY <2>1, <2>4, <2>5 DEF LInv, Missing
<1>4. CASE ScanSkip
  <2>1. TypeOK'
    BY <1>1, <1>4 DEF ScanSkip, TypeOK
  <2>2. ScannedUpTo(k)'
    BY <1>4, SkipScans
  <2> QED
    BY <1>4, <2>1, <2>2 DEF ScanSkip, LInv, Missing
<1>5. CASE ScanTake
  <2>1. TypeOK'
    <3>1. k \in DOMAIN servers /\ servers[k] \in Heartbeats
      BY <1>1, <1>5 DEF ScanTake, Taken, Wanted, TypeOK
    <3>2. seen' \subseteq Names
      BY <1>1, <1>5, <3>1 DEF ScanTake, TypeOK, Heartbeats
    <3> QED
      BY <1>1, <1>5, <3>1, <3>2 DEF ScanTake, TypeOK
  <2>2. ScannedUpTo(k)'
    BY <1>5, TakeScans
  <2> QED
    BY <1>5, <2>1, <2>2 DEF ScanTake, LInv, Missing
<1>6. CASE Choose
  <2>1. /\ pc = "scan" /\ k \notin DOMAIN servers
        /\ \/ Len(matches) = 0 /\ pc' = "none"
           \/ Len(matches) = 1 /\ pc' = "found"
           \/ Len(matches) > 1 /\ pc' = "ambiguous"
        /\ servers' = servers /\ k' = k /\ seen' = seen /\ matches' = matches
        /\ kind' = kind /\ want' = want /\ relisted' = relisted
        /\ protocol' = protocol
    BY <1>6 DEF Choose
  <2>2. ScannedUpTo(k) /\ ~Missing
    BY <2>1 DEF LInv
  <2>3. /\ DOMAIN servers = 1 .. Len(servers) /\ Len(servers) \in Nat
        /\ k \in Nat \ {0} /\ Len(matches) \in Nat
        /\ \A j \in DOMAIN matches : matches[j] \in DOMAIN servers
    BY <1>1 DEF TypeOK
  <2>4. k > Len(servers)
    BY <2>1, <2>3
  <2>5. ScannedUpTo(Len(servers) + 1)
    <3>1. \A i \in DOMAIN servers : i < Len(servers) + 1 /\ i < k
      BY <2>3, <2>4
    <3> QED
      BY <2>2, <2>3, <3>1 DEF ScannedUpTo, Matching
  <2>6. ScannedUpTo(Len(servers) + 1)'
    BY <2>1, <2>5 DEF ScannedUpTo, Matching, Wanted, Identity
  <2>7. /\ pc' \in {"none", "found", "ambiguous"}
        /\ pc' = "none" => Len(matches) = 0
        /\ pc' = "found" => Len(matches) = 1
        /\ pc' = "ambiguous" => Len(matches) > 1
    BY <2>1, <2>3
  <2>8. TypeOK'
    BY <1>1, <2>1, <2>7 DEF TypeOK
  <2> QED
    BY <2>1, <2>2, <2>6, <2>7, <2>8 DEF LInv, Missing
<1> DEFINE Known == ScannedUpTo(Len(servers) + 1) /\ Len(matches) = 1 /\ ~Missing
<1>7. ASSUME pc \in {"found", "resolve", "issue", "unknown"},
             UNCHANGED <<kind, want, servers, seen, matches>>
      PROVE  Known' /\ \A s : Named(s)' <=> Named(s)
  <2>1. Known
    BY <1>7 DEF LInv
  <2> QED
    BY <1>7, <2>1 DEF ScannedUpTo, Matching, Wanted, Identity, Missing, Named, Matched
<1>8. CASE Relist
  <2>1. /\ pc = "found" /\ pc' = "resolve" /\ k' = 1 /\ relisted' \in Listings
        /\ UNCHANGED <<kind, want, servers, seen, matches, protocol>>
    BY <1>8 DEF Relist
  <2>2. relisted' \in Seq(Heartbeats \cup {NoDatabase}) /\ DOMAIN relisted' = 1 .. Len(relisted')
    BY <2>1, ListingType
  <2>3. TypeOK' /\ PassedOver'
    BY <1>1, <2>1, <2>2 DEF TypeOK, PassedOver
  <2> QED
    BY <1>7, <2>1, <2>3 DEF LInv
<1>9. CASE RelistFails
  BY <1>1, <1>9 DEF RelistFails, LInv, TypeOK
<1>10. CASE ResolveSkip
  <2>1. /\ pc = "resolve" /\ pc' = pc /\ k' = k + 1 /\ relisted' = relisted
        /\ k \in DOMAIN relisted /\ ~Named(relisted[k])
        /\ UNCHANGED <<kind, want, servers, seen, matches, protocol>>
    BY <1>10 DEF ResolveSkip
  <2>2. TypeOK' /\ DOMAIN relisted \subseteq Nat /\ k \in Nat
    BY <1>1, <2>1 DEF TypeOK
  <2>3. PassedOver
    BY <2>1 DEF LInv
  <2>4. \A i \in DOMAIN relisted : i < k + 1 => i < k \/ i = k
    BY <2>2
  <2>5. PassedOver'
    BY <1>7, <2>1, <2>3, <2>4 DEF PassedOver
  <2> QED
    BY <1>7, <2>1, <2>2, <2>5 DEF LInv
<1>11. CASE ResolveHit
  <2>1. /\ pc = "resolve" /\ pc' = "issue" /\ k' = k /\ relisted' = relisted
        /\ k \in DOMAIN relisted /\ Named(relisted[k])
        /\ protocol' = relisted[k].protocol
        /\ UNCHANGED <<kind, want, servers, seen, matches>>
    BY <1>11 DEF ResolveHit
  <2>2. relisted[k] \in Heartbeats
    BY <1>1, <2>1 DEF TypeOK, Named
  <2>3. TypeOK'
    BY <1>1, <2>1, <2>2 DEF TypeOK, Heartbeats
  <2>4. PassedOver'
    BY <1>7, <2>1 DEF LInv, PassedOver
  <2> QED
    BY <1>7, <2>1, <2>3, <2>4 DEF LInv
<1>12. CASE ResolveMiss
  <2>1. /\ pc = "resolve" /\ pc' = "unknown" /\ k \notin DOMAIN relisted
        /\ UNCHANGED <<kind, want, servers, k, seen, matches, relisted, protocol>>
    BY <1>12 DEF ResolveMiss
  <2>2. TypeOK'
    BY <1>1, <2>1 DEF TypeOK
  <2>3. \A i \in DOMAIN relisted : i < k
    BY <1>1, <2>1 DEF TypeOK
  <2>4. \A i \in DOMAIN relisted : ~Named(relisted[i])
    BY <2>1, <2>3 DEF LInv, PassedOver
  <2> QED
    BY <1>7, <2>1, <2>2, <2>4 DEF LInv
<1>13. CASE UNCHANGED vars
  BY <1>13 DEF vars, LInv, TypeOK, Missing, ScannedUpTo, Matching, Wanted,
               Identity, PassedOver, Named, Matched
<1> QED
  BY <1>2, <1>3, <1>4, <1>5, <1>6, <1>8, <1>9, <1>10, <1>11, <1>12, <1>13 DEF Next

\* The loop invariant holds for listings of any length.
THEOREM Invariance == Spec => []LInv
BY InitLInv, StepLInv, PTL DEF Spec

\* A data source finds a resource exactly when there is one, and returns what
\* its first server announces.
THEOREM AnswersRead == Spec => []ReadAnswers
<1>1. LInv => ReadAnswers
  <2> SUFFICES ASSUME LInv PROVE ReadAnswers
    OBVIOUS
  <2>1. /\ matches \in Seq(DOMAIN servers) /\ DOMAIN servers = 1 .. Len(servers)
        /\ DOMAIN matches = 1 .. Len(matches) /\ Len(matches) \in Nat
        /\ Len(servers) \in Nat
    BY DEF LInv, TypeOK
  <2>2. \A i \in Matching : i < Len(servers) + 1
    BY <2>1 DEF Matching
  <2>3. ASSUME pc = "none" PROVE Matching = {}
    BY <2>1, <2>2, <2>3 DEF LInv, ScannedUpTo
  <2>4. ASSUME pc = "ambiguous"
        PROVE  \E i, j \in Matching : Identity(i) # Identity(j)
    <3>1. 1 \in DOMAIN matches /\ 2 \in DOMAIN matches
      BY <2>1, <2>4 DEF LInv
    <3> QED
      BY <2>4, <3>1 DEF LInv, ScannedUpTo
  <2>5. ASSUME pc \in {"found", "resolve", "issue", "unknown"}
        PROVE  /\ \A i, j \in Matching : Identity(i) = Identity(j)
               /\ matches[1] \in Matching
               /\ \A i \in Matching : matches[1] <= i
    <3>1. DOMAIN matches = {1} /\ ScannedUpTo(Len(servers) + 1)
      BY <2>1, <2>5 DEF LInv
    <3> QED
      BY <2>2, <3>1 DEF ScannedUpTo
  <2> QED
    BY <2>3, <2>4, <2>5 DEF ReadAnswers
<1> QED
  BY Invariance, <1>1, PTL

\* Where data source and certificate must agree on the protocol.
THEOREM AgreedProtocol == Spec => []ProtocolAgrees
<1>1. LInv => ProtocolAgrees
  <2> SUFFICES ASSUME LInv, pc = "issue",
                      Unanimous \/ (relisted = servers /\ want.labels = {})
               PROVE  protocol = Matched.protocol
    BY DEF LInv, ProtocolAgrees
  <2>1. /\ k \in DOMAIN relisted /\ Named(relisted[k])
        /\ protocol = relisted[k].protocol /\ PassedOver /\ ~Missing
        /\ ScannedUpTo(Len(servers) + 1) /\ Len(matches) = 1
        /\ matches \in Seq(DOMAIN servers) /\ k \in Nat
    BY DEF LInv, TypeOK
  <2>2. matches[1] \in Matching /\ matches[1] \in DOMAIN servers
    BY <2>1 DEF ScannedUpTo
  <2>3. Named(Matched)
    BY <2>2 DEF Named, Matched, Matching, Wanted
  <2>4. CASE Unanimous
    BY <2>1, <2>2, <2>3, <2>4 DEF Unanimous, Announcements, Matched
  <2>5. CASE relisted = servers /\ want.labels = {}
    <3>1. Wanted(servers[k])
      BY <2>1, <2>2, <2>5 DEF Missing, Wanted, Named, Matched, Matching, labelsMatch
    <3>2. k \in Matching /\ k < Len(servers) + 1 /\ DOMAIN servers \subseteq Nat
      BY <2>1, <2>5, <3>1 DEF Matching, LInv, TypeOK
    <3>3. matches[1] <= k
      BY <2>1, <3>2 DEF ScannedUpTo
    <3>4. ~(matches[1] < k)
      BY <2>1, <2>2, <2>3, <2>5 DEF PassedOver, Matched
    <3>5. matches[1] = k
      BY <2>1, <2>2, <3>2, <3>3, <3>4
    <3> QED
      BY <2>1, <2>5, <3>5 DEF Matched
  <2> QED
    BY <2>4, <2>5
<1> QED
  BY Invariance, <1>1, PTL
=============================================================================
