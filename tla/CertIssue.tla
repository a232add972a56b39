----------------------------- MODULE CertIssue ------------------------------
(***************************************************************************)
(* Issuing a certificate in the Open of a certificate or tunnel resource:  *)
(* Issue of internal/dbcerts/issue.go and internal/sshcerts/issue.go, with *)
(* ImpersonatedRoles of internal/botroles/botroles.go.                     *)
(*                                                                         *)
(* Every call to the auth server is a step, which may fail, and the        *)
(* cluster may be reconfigured between any two.  Issue shares nothing with *)
(* other calls of itself, so one is enough.                                *)
(* A definition whose name ends in Dropped, Configured or Alone is a       *)
(* faulty variant of the definition after it.                              *)
(***************************************************************************)
EXTENDS Naturals

CONSTANTS Roles,
          Protocols,
          Clusters,  \* the clusters that can be named
          Own,       \* the one of the proxy, as ProviderData.ClusterName says
          Empty,     \* the empty string: no protocol or cluster given, or none announced
          MaxEdits   \* how often the cluster is reconfigured meanwhile

ASSUME IssueAssumption ==
  /\ Empty \notin Protocols \cup Clusters
  /\ Own \in Clusters
  /\ MaxEdits \in Nat

VARIABLES
  isBot,         \* the user has one role and it is a "bot-" wrapper
  impersonates,  \* the roles the wrapper allows to impersonate
  readable,      \* the user may read the wrapper role
  announced,     \* the protocol of the first server of the database in the own
                 \* cluster, or Empty
  edits,         \* reconfigurations so far
  kind,          \* what is opened: "db_certificate", "db_tunnel" or "ssh_tunnel"
  given,         \* the protocol in its configuration, or Empty
  cluster,       \* the cluster in its configuration, or Empty
  pdCluster,     \* the cluster of the provider block, or Empty
  pc,            \* the call it makes next
  protocol,      \* the local variable of dbcerts.Issue
  roleRequests,  \* what ImpersonatedRoles returned
  cert,          \* the protocol, roles and cluster of the issued certificate
  spoken,        \* the protocol a database tunnel was started for
  dialled,       \* the cluster whose host an SSH tunnel has dialled
  grants,        \* history: what impersonates was since Open began
  announcements, \* history: what announced was since Open began
  roleRead       \* history: how ImpersonatedRoles learned the roles

server == <<isBot, impersonates, readable, announced, edits, grants, announcements>>
config == <<kind, given, cluster, pdCluster>>
vars == <<server, config, pc, protocol, roleRequests, cert, spoken, dialled, roleRead>>

NoCert == [issued |-> FALSE, roles |-> {}, protocol |-> Empty, route |-> Empty]

TypeOK ==
  /\ isBot \in BOOLEAN /\ readable \in BOOLEAN
  /\ impersonates \subseteq Roles
  /\ announced \in Protocols \cup {Empty}
  /\ edits \in 0..MaxEdits
  /\ kind \in {"db_certificate", "db_tunnel", "ssh_tunnel"}
  /\ given \in Protocols \cup {Empty}
  /\ cluster \in Clusters \cup {Empty}
  /\ pdCluster \in Clusters \cup {Empty}
  /\ pc \in {"open", "lookup", "user", "roles", "role", "generate", "ca",
             "start", "opened", "failed"}
  /\ protocol \in Protocols \cup {Empty}
  /\ roleRequests \subseteq Roles
  /\ cert \in [issued : BOOLEAN, roles : SUBSET Roles,
               protocol : Protocols \cup {Empty}, route : Clusters \cup {Empty}]
  /\ spoken \in Protocols \cup {Empty}
  /\ dialled \in Clusters \cup {Empty}
  /\ grants \subseteq SUBSET Roles
  /\ announcements \subseteq Protocols \cup {Empty}
  /\ roleRead \in {"not", "user", "read", "denied", "error"}

Init ==
  /\ isBot \in BOOLEAN /\ readable \in BOOLEAN
  /\ impersonates \in SUBSET Roles
  /\ announced \in Protocols \cup {Empty}
  /\ edits = 0
  /\ kind \in {"db_certificate", "db_tunnel", "ssh_tunnel"}
  /\ given \in IF kind = "ssh_tunnel" THEN {Empty} ELSE Protocols \cup {Empty}
  /\ cluster \in Clusters \cup {Empty}
  /\ pdCluster \in Clusters \cup {Empty}
  /\ pc = "open"
  /\ protocol = Empty
  /\ roleRequests = {}
  /\ cert = NoCert
  /\ spoken = Empty
  /\ dialled = Empty
  /\ grants = {impersonates}
  /\ announcements = {announced}
  /\ roleRead = "not"

-----------------------------------------------------------------------------
(* The cluster, reconfigured by its administrators and agents.             *)

Reconfigure ==
  /\ pc \notin {"open", "opened", "failed"}
  /\ edits < MaxEdits
  /\ edits' = edits + 1
  /\ isBot' \in BOOLEAN /\ readable' \in BOOLEAN
  /\ impersonates' \in SUBSET Roles
  /\ announced' \in Protocols \cup {Empty}
  /\ grants' = grants \cup {impersonates'}
  /\ announcements' = announcements \cup {announced'}
  /\ UNCHANGED <<config, pc, protocol, roleRequests, cert, spoken, dialled, roleRead>>

-----------------------------------------------------------------------------
(* Open and Issue.                                                         *)

stringOrDefault(v, def) == IF v # Empty THEN v ELSE def

\* Where the certificate is good for; Empty is the own cluster.
RouteCluster == stringOrDefault(cluster, pdCluster)

DialClusterAlone == stringOrDefault(cluster, Own)

\* The transport to a host needs a name even of the own cluster.
DialCluster == stringOrDefault(RouteCluster, Own)

\* The configuration is complete and there is a connection.
Open ==
  /\ pc = "open"
  /\ kind # "ssh_tunnel"
  /\ protocol' = given
  /\ pc' = IF given = Empty THEN "lookup" ELSE "user"
  /\ UNCHANGED <<server, config, roleRequests, cert, spoken, dialled, roleRead>>

\* The same of an SSH tunnel, which also asks for the name of the own cluster.
OpenSSH ==
  /\ pc = "open"
  /\ kind = "ssh_tunnel"
  /\ pc' = "user"
  /\ UNCHANGED <<server, config, protocol, roleRequests, cert, spoken, dialled, roleRead>>

\* Configuration refused, no connection, or a call that failed for good.
Fail ==
  /\ pc \in {"open", "lookup", "user", "roles", "generate", "ca", "start"}
  /\ pc' = "failed"
  /\ UNCHANGED <<server, config, protocol, roleRequests, cert, spoken, dialled, roleRead>>

\* It asks the own cluster, wherever the certificate is routed.
lookupProtocol ==
  /\ pc = "lookup"
  /\ announced # Empty
  /\ protocol' = announced
  /\ pc' = "user"
  /\ UNCHANGED <<server, config, roleRequests, cert, spoken, dialled, roleRead>>

\* The user's name, for the certificate.
GetCurrentUser ==
  /\ pc = "user"
  /\ pc' = "roles"
  /\ UNCHANGED <<server, config, protocol, roleRequests, cert, spoken, dialled, roleRead>>

\* The user again, for botWrapperRole.
GetUserRoles ==
  /\ pc = "roles"
  /\ pc' = IF isBot THEN "role" ELSE "generate"
  /\ roleRead' = IF isBot THEN roleRead ELSE "user"
  /\ UNCHANGED <<server, config, protocol, roleRequests, cert, spoken, dialled>>

GetRole ==
  /\ pc = "role"
  /\ readable
  /\ roleRequests' = impersonates
  /\ roleRead' = "read"
  /\ pc' = "generate"
  /\ UNCHANGED <<server, config, protocol, cert, spoken, dialled>>

\* Any error of GetRole, for want of access or not, means no impersonation.
GetRoleFails ==
  /\ pc = "role"
  /\ roleRead' = IF readable THEN "error" ELSE "denied"
  /\ pc' = "generate"
  /\ UNCHANGED <<server, config, protocol, roleRequests, cert, spoken, dialled>>

\* The auth server grants a request of roles only to a wrapper that allows them.
Granted == roleRequests # {} => isBot /\ roleRequests \subseteq impersonates

AfterGenerate == IF kind = "ssh_tunnel" THEN "start" ELSE "ca"

GenerateUserCertsDropped ==
  /\ pc = "generate"
  /\ cert' = [issued |-> TRUE, roles |-> {}, protocol |-> protocol, route |-> RouteCluster]
  /\ pc' = AfterGenerate
  /\ UNCHANGED <<server, config, protocol, roleRequests, spoken, dialled, roleRead>>

\* A certificate without requested roles has the roles of the user.
GenerateUserCerts ==
  /\ pc = "generate"
  /\ Granted
  /\ cert' = [issued |-> TRUE, roles |-> roleRequests, protocol |-> protocol, route |-> RouteCluster]
  /\ pc' = AfterGenerate
  /\ UNCHANGED <<server, config, protocol, roleRequests, spoken, dialled, roleRead>>

GetClusterCACert ==
  /\ pc = "ca"
  /\ pc' = "start"
  /\ UNCHANGED <<server, config, protocol, roleRequests, cert, spoken, dialled, roleRead>>

StartConfigured ==
  /\ pc = "start"
  /\ kind # "ssh_tunnel"
  /\ spoken' = IF kind = "db_tunnel" THEN given ELSE Empty
  /\ pc' = "opened"
  /\ UNCHANGED <<server, config, protocol, roleRequests, cert, dialled, roleRead>>

\* Issue has returned: a database tunnel is started for Result.Protocol.
Start ==
  /\ pc = "start"
  /\ kind # "ssh_tunnel"
  /\ spoken' = IF kind = "db_tunnel" THEN protocol ELSE Empty
  /\ pc' = "opened"
  /\ UNCHANGED <<server, config, protocol, roleRequests, cert, dialled, roleRead>>

\* An SSH tunnel dials its gateway with the certificate.
StartSSH ==
  /\ pc = "start"
  /\ kind = "ssh_tunnel"
  /\ dialled' = DialCluster
  /\ pc' = "opened"
  /\ UNCHANGED <<server, config, protocol, roleRequests, cert, spoken, roleRead>>

Next ==
  \/ Reconfigure \/ Open \/ OpenSSH \/ Fail \/ lookupProtocol \/ GetCurrentUser
  \/ GetUserRoles \/ GetRole \/ GetRoleFails \/ GenerateUserCerts
  \/ GetClusterCACert \/ Start \/ StartSSH

Spec == Init /\ [][Next]_vars

-----------------------------------------------------------------------------
(* What the issued credentials are.                                        *)

\* A bot's certificate carries all the roles its wrapper allowed at one moment
\* of the Open, unless the wrapper could not be read; a user's certificate asks
\* for no impersonation.  (issue.go:73-78, botroles.go:29-46)
BotImpersonates ==
  cert.issued =>
    /\ roleRead = "read" => cert.roles \in grants
    /\ roleRead = "user" => cert.roles = {}

\* The clusters in which the certificate is good.
Reaches(c) == c = IF cert.route = Empty THEN Own ELSE cert.route

\* A database tunnel speaks the protocol that its certificate was issued for, and
\* that is the configured one or one that the own cluster announced while the Open
\* ran, whatever is announced by now.  An SSH tunnel dials a cluster with a name,
\* in which its certificate is good, and the one it was told to if it was.
\* (issue.go:59-66, 138, ephemeral_db_tunnel.go:182-189, ephemeral_ssh_tunnel.go:145-174)
FitsItsCertificate ==
  /\ pc = "opened" /\ kind = "db_tunnel" =>
       /\ spoken = cert.protocol
       /\ spoken \in IF given = Empty THEN announcements \ {Empty} ELSE {given}
  /\ pc = "opened" /\ kind = "ssh_tunnel" =>
       /\ dialled \in Clusters
       /\ Reaches(dialled)
       /\ cluster \in {Empty, dialled}

\* "Without read access to the wrapper role we cannot discover the impersonated
\* set; fall back to no impersonation" (botroles.go:41-42): a bot's certificate
\* lacks its roles only for want of read access, or because there were none.
FallbackOnlyWithoutAccess ==
  pc = "opened" /\ cert.roles = {} =>
    roleRead \in {"user", "denied"} \/ {} \in grants

\* A certificate is asked for once, and nothing that happens to the cluster or to the
\* Open afterwards changes it.  (issue.go:80-140)
CertificateStays == [][cert.issued => cert' = cert]_vars

\* No tunnel is started, nor a host dialled, before there is a certificate, and an
\* Open that fails has done neither.
\* (ephemeral_db_tunnel.go:167-193, ephemeral_ssh_tunnel.go:156-189)
StartsWithCertificate ==
  spoken # Empty \/ dialled # Empty => pc = "opened" /\ cert.issued

\* What an Open has still to do, from its first call to its end.
Stage(p) ==
  CASE p = "open"     -> 0
    [] p = "lookup"   -> 1
    [] p = "user"     -> 2
    [] p = "roles"    -> 3
    [] p = "role"     -> 4
    [] p = "generate" -> 5
    [] p = "ca"       -> 6
    [] p = "start"    -> 7
    [] OTHER          -> 8

\* Every call of an Open is made at most once and in this order: none is tried
\* again, however the cluster changes, so that an Open ends.  (issue.go:46-140)
NothingRetried == [][pc' # pc => Stage(pc) < Stage(pc')]_vars

\* What each stage of an Open knows (the inductive invariant).
IssueInv ==
  /\ TypeOK
  /\ pc = "open" => protocol = Empty
  /\ pc \in {"open", "lookup", "user", "roles", "role"} =>
       roleRequests = {} /\ roleRead = "not"
  /\ pc \in {"generate", "ca", "start", "opened"} => roleRead # "not"
  /\ pc \in {"open", "lookup", "user", "roles", "role", "generate"} =>
       ~cert.issued
  /\ pc \in {"ca", "start", "opened"} => cert.issued
  /\ pc = "lookup" => given = Empty
  /\ cert.issued => /\ cert.roles = roleRequests
                    /\ cert.protocol = protocol
                    /\ cert.route = RouteCluster
  /\ announced \in announcements /\ impersonates \in grants
  /\ roleRead = "read" => roleRequests \in grants
  /\ roleRead # "read" => roleRequests = {}
  /\ kind = "ssh_tunnel" => given = Empty
  /\ given # Empty /\ pc # "open" => pc = "failed" \/ protocol = given
  /\ kind # "ssh_tunnel" /\ given = Empty /\ pc \notin {"open", "lookup", "failed"} =>
       protocol \in announcements \ {Empty}
  /\ pc = "opened" /\ kind = "db_tunnel" => spoken = protocol
  /\ pc = "opened" /\ kind = "ssh_tunnel" => dialled = DialCluster
  /\ StartsWithCertificate
=============================================================================
