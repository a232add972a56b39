--------------------------- MODULE CertIssueProofs --------------------------
(***************************************************************************)
(* IssueInv is inductive for any roles and protocols and any number of     *)
(* reconfigurations, and gives both properties of issued credentials.      *)
(***************************************************************************)
EXTENDS CertIssue, TLAPS

LEMMA InitIssueInv == Init => IssueInv
  BY IssueAssumption DEF Init, IssueInv, TypeOK, NoCert, StartsWithCertificate

\* Where a certificate and a dial go.
LEMMA RouteTyped ==
  ASSUME TypeOK
  PROVE  RouteCluster \in Clusters \cup {Empty} /\ DialCluster \in Clusters
  BY IssueAssumption DEF TypeOK, RouteCluster, DialCluster, stringOrDefault

\* No step changes the configuration, nor what it routes to.
LEMMA RouteKept ==
  ASSUME [Next]_vars
  PROVE  UNCHANGED config /\ RouteCluster' = RouteCluster /\ DialCluster' = DialCluster
<1>1. UNCHANGED config
  BY DEF Next, vars, Reconfigure, Open, OpenSSH, Fail, lookupProtocol, GetCurrentUser,
         GetUserRoles, GetRole, GetRoleFails, GenerateUserCerts, GetClusterCACert, Start,
         StartSSH
<1> QED
  BY <1>1 DEF config, RouteCluster, DialCluster, stringOrDefault

\* A reconfiguration adds to the histories what it changes the cluster to.
LEMMA ReconfigureKeeps == IssueInv /\ Reconfigure => IssueInv'
<1> SUFFICES ASSUME IssueInv, Reconfigure PROVE IssueInv'
  OBVIOUS
<1>0. UNCHANGED config /\ RouteCluster' = RouteCluster /\ DialCluster' = DialCluster
  BY RouteKept DEF Next
<1>1. TypeOK'
  BY <1>0, IssueAssumption
  DEF IssueInv, StartsWithCertificate, TypeOK, Reconfigure, config
<1>2. /\ announced' \in announcements' /\ impersonates' \in grants'
      /\ grants \subseteq grants' /\ announcements \subseteq announcements'
  BY DEF Reconfigure
<1> QED
  BY <1>0, <1>1, <1>2 DEF IssueInv, StartsWithCertificate, Reconfigure, config

LEMMA StepIssueInv == IssueInv /\ [Next]_vars => IssueInv'
<1> SUFFICES ASSUME IssueInv, [Next]_vars PROVE IssueInv'
  OBVIOUS
<1>0. UNCHANGED config /\ RouteCluster' = RouteCluster /\ DialCluster' = DialCluster
  BY RouteKept
<1>1. CASE Reconfigure
  BY <1>1, ReconfigureKeeps
<1>2. CASE Open
  <2>1. TypeOK'
    BY <1>0, <1>2 DEF Open, IssueInv, StartsWithCertificate, TypeOK, server, config
  <2> QED
    BY <1>0, <1>2, <2>1
    DEF Open, IssueInv, StartsWithCertificate, TypeOK, server, config
<1>3. CASE OpenSSH
  BY <1>0, <1>3 DEF OpenSSH, IssueInv, StartsWithCertificate, TypeOK, server, config
<1>4. CASE Fail
  <2>1. TypeOK'
    BY <1>0, <1>4 DEF Fail, IssueInv, StartsWithCertificate, TypeOK, server, config
  <2> QED
    BY <1>0, <1>4, <2>1 DEF Fail, IssueInv, StartsWithCertificate, server, config
<1>5. CASE lookupProtocol
  <2>1. TypeOK'
    BY <1>0, <1>5
    DEF lookupProtocol, IssueInv, StartsWithCertificate, TypeOK, server, config
  <2> QED
    BY <1>0, <1>5, <2>1
    DEF lookupProtocol, IssueInv, StartsWithCertificate, TypeOK, server, config
<1>6. CASE GetCurrentUser
  BY <1>0, <1>6
  DEF GetCurrentUser, IssueInv, StartsWithCertificate, TypeOK, server, config
<1>7. CASE GetUserRoles
  BY <1>0, <1>7
  DEF GetUserRoles, IssueInv, StartsWithCertificate, TypeOK, server, config
<1>8. CASE GetRole
  <2>1. TypeOK'
    BY <1>0, <1>8 DEF GetRole, IssueInv, StartsWithCertificate, TypeOK, server, config
  <2> QED
    BY <1>0, <1>8, <2>1
    DEF GetRole, IssueInv, StartsWithCertificate, TypeOK, server, config
<1>9. CASE GetRoleFails
  BY <1>0, <1>9
  DEF GetRoleFails, IssueInv, StartsWithCertificate, TypeOK, server, config
<1>10. CASE GenerateUserCerts
  <2>1. TypeOK'
    BY <1>0, <1>10, RouteTyped
    DEF GenerateUserCerts, AfterGenerate, IssueInv, StartsWithCertificate, TypeOK, server,
        config
  <2> QED
    BY <1>0, <1>10, <2>1
    DEF GenerateUserCerts, AfterGenerate, IssueInv, StartsWithCertificate, server, config
<1>11. CASE GetClusterCACert
  BY <1>0, <1>11
  DEF GetClusterCACert, IssueInv, StartsWithCertificate, TypeOK, server, config
<1>12. CASE Start
  BY <1>0, <1>12, IssueAssumption
  DEF Start, IssueInv, StartsWithCertificate, TypeOK, server, config
<1>13. CASE StartSSH
  <2>1. TypeOK'
    BY <1>0, <1>13, RouteTyped
    DEF StartSSH, IssueInv, StartsWithCertificate, TypeOK, server, config
  <2> QED
    BY <1>0, <1>13, <2>1
    DEF StartSSH, IssueInv, StartsWithCertificate, TypeOK, server, config
<1>14. CASE UNCHANGED vars
  BY <1>0, <1>14 DEF vars, server, config, IssueInv, StartsWithCertificate, TypeOK
<1> QED
  BY <1>1, <1>2, <1>3, <1>4, <1>5, <1>6, <1>7, <1>8,
     <1>9, <1>10, <1>11, <1>12, <1>13, <1>14 DEF Next

\* What each stage of an Open knows, for any roles and protocols.
THEOREM Invariance == Spec => []IssueInv
BY InitIssueInv, StepIssueInv, PTL DEF Spec

\* A bot's certificate carries what its wrapper allowed at one moment.
THEOREM Impersonation == Spec => []BotImpersonates
<1>1. IssueInv => BotImpersonates
  BY DEF IssueInv, BotImpersonates
<1> QED
  BY Invariance, <1>1, PTL

\* A database tunnel speaks the protocol its certificate is for, an SSH tunnel
\* dials a cluster its certificate is good in.
THEOREM CertificateFits == Spec => []FitsItsCertificate
<1>1. IssueInv => FitsItsCertificate
  <2> SUFFICES ASSUME IssueInv PROVE FitsItsCertificate
    OBVIOUS
  <2>1. CASE kind = "ssh_tunnel" /\ pc = "opened"
    BY <2>1, RouteTyped, IssueAssumption
    DEF IssueInv, FitsItsCertificate, Reaches, DialCluster, RouteCluster, stringOrDefault
  <2> QED
    BY <2>1 DEF IssueInv, FitsItsCertificate
<1> QED
  BY Invariance, <1>1, PTL

\* A certificate is issued once and is the one that is used.  (issue.go:80-140)
THEOREM IssuedOnce == Spec => CertificateStays
<1>1. IssueInv /\ [Next]_vars => (cert.issued => cert' = cert)
  BY DEF IssueInv, Next, vars, Reconfigure, Open, OpenSSH, Fail, lookupProtocol,
         GetCurrentUser, GetUserRoles, GetRole, GetRoleFails, GenerateUserCerts,
         GetClusterCACert, Start, StartSSH
<1> QED
  BY Invariance, <1>1, PTL DEF Spec, CertificateStays

\* Nothing is started or dialled without a certificate, nor by an Open that fails.
\* (ephemeral_db_tunnel.go:167-193, ephemeral_ssh_tunnel.go:156-189)
THEOREM CertificateFirst == Spec => []StartsWithCertificate
<1>1. IssueInv => StartsWithCertificate
  BY DEF IssueInv
<1> QED
  BY Invariance, <1>1, PTL

\* An Open makes each of its calls at most once and in order.  (issue.go:46-140)
THEOREM CallsInOrder == Spec => NothingRetried
<1>1. IssueInv /\ [Next]_vars => (pc' # pc => Stage(pc) < Stage(pc'))
  BY DEF Next, vars, Reconfigure, Open, OpenSSH, Fail, lookupProtocol,
         GetCurrentUser, GetUserRoles, GetRole, GetRoleFails, GenerateUserCerts,
         AfterGenerate, GetClusterCACert, Start, StartSSH, Stage
<1> QED
  BY Invariance, <1>1, PTL DEF Spec, NothingRetried
=============================================================================
