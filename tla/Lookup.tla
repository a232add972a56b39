------------------------------- MODULE Lookup -------------------------------
(***************************************************************************)
(* Finding a database or a node among what the auth server lists: the data *)
(* sources of internal/provider/data_database.go and data_node.go, and the *)
(* protocol lookup of internal/dbcerts/issue.go for the database found.    *)
(*                                                                         *)
(* A loop over a listing is one step per element.  The second listing,     *)
(* which the certificate asks for later, may be any other.                 *)
(* A definition whose name ends in Unseen or Last is a faulty variant of   *)
(* the definition after it.                                                *)
(***************************************************************************)
EXTENDS Naturals, Sequences

CONSTANTS Names,       \* database names, or host names of nodes
          Empty,       \* the empty string: a name or protocol not given
          Labels,      \* <<key, value>> pairs
          Protocols,
          NoDatabase,  \* a server heartbeat that carries no database
          Listings     \* what the auth server may answer

Heartbeats == [name : Names, labels : SUBSET Labels, protocol : Protocols]
Wants      == [name : Names \cup {Empty}, labels : SUBSET Labels]

ASSUME LookupAssumption ==
  /\ Empty \notin Names \cup Protocols
  /\ NoDatabase \notin Heartbeats
  /\ Listings \subseteq Seq(Heartbeats \cup {NoDatabase})

VARIABLES
  kind,      \* which data source: "database" or "node"
  want,      \* its configuration
  servers,   \* the listing the data source got
  k,         \* the element the current loop looks at
  seen,      \* names of the matches so far (databases only)
  matches,   \* the matches so far, as positions in servers
  relisted,  \* the listing the certificate got
  protocol,  \* the protocol the certificate was given
  pc

vars == <<kind, want, servers, k, seen, matches, relisted, protocol, pc>>

TypeOK ==
  /\ kind \in {"database", "node"}
  /\ want \in Wants
  /\ servers \in Seq(Heartbeats \cup {NoDatabase})
  /\ k \in Nat \ {0}
  /\ seen \subseteq Names
  /\ matches \in Seq(DOMAIN servers)
  /\ relisted \in Seq(Heartbeats \cup {NoDatabase})
  /\ protocol \in Protocols \cup {Empty}
  /\ pc \in {"read", "scan", "found", "none", "ambiguous", "error", "resolve",
             "issue", "unknown"}

Init ==
  /\ kind \in {"database", "node"}
  /\ want \in Wants
  /\ servers = <<>>
  /\ k = 1
  /\ seen = {}
  /\ matches = <<>>
  /\ relisted = <<>>
  /\ protocol = Empty
  /\ pc = "read"

-----------------------------------------------------------------------------
(* The data source.                                                        *)

\* Neither a name nor a label is configured.
Missing == want.name = Empty /\ want.labels = {}

\* Configuration refused, no connection, or the listing failed.
ReadFails ==
  /\ pc = "read"
  /\ pc' = "error"
  /\ UNCHANGED <<kind, want, servers, k, seen, matches, relisted, protocol>>

GetDatabaseServers ==
  /\ pc = "read"
  /\ kind = "database"
  /\ ~Missing
  /\ servers' \in Listings
  /\ pc' = "scan"
  /\ UNCHANGED <<kind, want, k, seen, matches, relisted, protocol>>

\* A node carries itself.
GetNodes ==
  /\ pc = "read"
  /\ kind = "node"
  /\ ~Missing
  /\ servers' \in {s \in Listings : \A i \in DOMAIN s : s[i] # NoDatabase}
  /\ pc' = "scan"
  /\ UNCHANGED <<kind, want, k, seen, matches, relisted, protocol>>

labelsMatch(have, wanted) == wanted \subseteq have

Wanted(s) ==
  /\ s # NoDatabase
  /\ want.name # Empty => s.name = want.name
  /\ labelsMatch(s.labels, want.labels)

\* The database has been taken already, from another server.
Duplicate(s) == kind = "database" /\ s.name \in seen

Taken(s) == Wanted(s) /\ ~Duplicate(s)

ScanSkip ==
  /\ pc = "scan"
  /\ k \in DOMAIN servers
  /\ ~Taken(servers[k])
  /\ k' = k + 1
  /\ UNCHANGED <<kind, want, servers, seen, matches, relisted, protocol, pc>>

ScanTakeUnseen ==
  /\ pc = "scan"
  /\ k \in DOMAIN servers
  /\ Taken(servers[k])
  /\ matches' = Append(matches, k)
  /\ k' = k + 1
  /\ UNCHANGED <<kind, want, servers, seen, relisted, protocol, pc>>

ScanTake ==
  /\ pc = "scan"
  /\ k \in DOMAIN servers
  /\ Taken(servers[k])
  /\ seen' = IF kind = "database" THEN seen \cup {servers[k].name} ELSE seen
  /\ matches' = Append(matches, k)
  /\ k' = k + 1
  /\ UNCHANGED <<kind, want, servers, relisted, protocol, pc>>

\* switch len(matches)
Choose ==
  /\ pc = "scan"
  /\ k \notin DOMAIN servers
  /\ \/ Len(matches) = 0 /\ pc' = "none"
     \/ Len(matches) = 1 /\ pc' = "found"
     \/ Len(matches) > 1 /\ pc' = "ambiguous"
  /\ UNCHANGED <<kind, want, servers, k, seen, matches, relisted, protocol>>

\* The resource whose attributes the data source returns.
Matched == servers[matches[1]]

-----------------------------------------------------------------------------
(* dbcerts.Issue for the database found, without a protocol.               *)

Relist ==
  /\ pc = "found"
  /\ kind = "database"
  /\ relisted' \in Listings
  /\ k' = 1
  /\ pc' = "resolve"
  /\ UNCHANGED <<kind, want, servers, seen, matches, protocol>>

RelistFails ==
  /\ pc = "found"
  /\ kind = "database"
  /\ pc' = "error"
  /\ UNCHANGED <<kind, want, servers, k, seen, matches, relisted, protocol>>

Named(s) == s # NoDatabase /\ s.name = Matched.name

ResolveSkip ==
  /\ pc = "resolve"
  /\ k \in DOMAIN relisted
  /\ ~Named(relisted[k])
  /\ k' = k + 1
  /\ UNCHANGED <<kind, want, servers, seen, matches, relisted, protocol, pc>>

\* Without the return inside the loop a later heartbeat wins.
ResolveHitLast ==
  /\ pc = "resolve"
  /\ k \in DOMAIN relisted
  /\ Named(relisted[k])
  /\ protocol' = relisted[k].protocol
  /\ k' = k + 1
  /\ pc' = IF \E i \in DOMAIN relisted : i > k /\ Named(relisted[i])
             THEN "resolve" ELSE "issue"
  /\ UNCHANGED <<kind, want, servers, seen, matches, relisted>>

ResolveHit ==
  /\ pc = "resolve"
  /\ k \in DOMAIN relisted
  /\ Named(relisted[k])
  /\ protocol' = relisted[k].protocol
  /\ pc' = "issue"
  /\ UNCHANGED <<kind, want, servers, k, seen, matches, relisted>>

ResolveMiss ==
  /\ pc = "resolve"
  /\ k \notin DOMAIN relisted
  /\ pc' = "unknown"
  /\ UNCHANGED <<kind, want, servers, k, seen, matches, relisted, protocol>>

Next ==
  \/ ReadFails \/ GetDatabaseServers \/ GetNodes \/ ScanSkip \/ ScanTake \/ Choose
  \/ Relist \/ RelistFails \/ ResolveSkip \/ ResolveHit \/ ResolveMiss

Spec == Init /\ [][Next]_vars

-----------------------------------------------------------------------------
(* What a lookup promises.                                                 *)

Matching == {i \in DOMAIN servers : Wanted(servers[i])}

\* What two matches must differ in to be different resources: databases are
\* known by name, each listed node is a node.
Identity(i) == IF kind = "database" THEN servers[i].name ELSE i

\* A data source finds a resource exactly when the listing holds one resource
\* with the wanted name and labels, however many servers announce it and in
\* whatever order, and returns what the first of them announces.
\* (data_database.go:142-180, data_node.go:132-169)
ReadAnswers ==
  /\ pc = "none" => Matching = {}
  /\ pc = "ambiguous" => \E i, j \in Matching : Identity(i) # Identity(j)
  /\ pc \in {"found", "resolve", "issue", "unknown"} =>
       /\ \A i, j \in Matching : Identity(i) = Identity(j)
       /\ matches[1] \in Matching
       /\ \A i \in Matching : matches[1] <= i

Announcements == {servers[i] : i \in DOMAIN servers} \cup
                 {relisted[i] : i \in DOMAIN relisted}

Unanimous == \A s, t \in Announcements :
               Named(s) /\ Named(t) => s.protocol = t.protocol

\* The certificate for a database that a data source has resolved carries the
\* protocol the data source reported, if the listing is still the same and no
\* label was asked for, or if all its servers announce one protocol; and the
\* database is found again as long as some server announces it.
\* (issue.go:142-159 against data_database.go:142-190)
ProtocolAgrees ==
  /\ pc = "issue" /\ (Unanimous \/ (relisted = servers /\ want.labels = {})) =>
       protocol = Matched.protocol
  /\ pc = "unknown" => \A i \in DOMAIN relisted : ~Named(relisted[i])

-----------------------------------------------------------------------------
(* The loop invariants.                                                    *)

\* After the elements before n, matches holds the first of each wanted resource
\* among them, and seen the names of those that are databases.
ScannedUpTo(n) ==
  /\ \A j \in DOMAIN matches : matches[j] \in Matching /\ matches[j] < n
  /\ \A i \in Matching : i < n =>
       /\ matches # <<>> /\ matches[1] <= i
       /\ \E j \in DOMAIN matches : Identity(matches[j]) = Identity(i)
  /\ \A j, l \in DOMAIN matches :
       Identity(matches[j]) = Identity(matches[l]) => j = l
  /\ kind = "database" => seen = {Identity(matches[j]) : j \in DOMAIN matches}

\* The lookup of the protocol has passed over every element before k.
PassedOver == \A i \in DOMAIN relisted : i < k => ~Named(relisted[i])

\* What is known at each point of a lookup (the inductive invariant).
LInv ==
  /\ TypeOK
  /\ pc = "read" => k = 1 /\ matches = <<>> /\ seen = {}
  /\ pc \in {"scan", "found", "resolve", "issue", "unknown"} => ~Missing
  /\ pc = "scan" => ScannedUpTo(k)
  /\ pc \in {"found", "none", "ambiguous", "resolve", "issue", "unknown"} =>
       ScannedUpTo(Len(servers) + 1)
  /\ pc \in {"found", "resolve", "issue", "unknown"} => Len(matches) = 1
  /\ pc = "none" => Len(matches) = 0
  /\ pc = "ambiguous" => Len(matches) > 1
  /\ pc \in {"resolve", "issue"} => PassedOver
  /\ pc = "issue" => /\ k \in DOMAIN relisted /\ Named(relisted[k])
                     /\ protocol = relisted[k].protocol
  /\ pc = "unknown" => \A i \in DOMAIN relisted : ~Named(relisted[i])
=============================================================================
