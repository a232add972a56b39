---------------------------- MODULE LazyConnect -----------------------------
(***************************************************************************)
(* The shared, lazily established Teleport connection of                   *)
(* internal/provider/provider.go: ProviderData.Client, ClusterName and the *)
(* eager connect of Configure, under the RPCs Terraform runs concurrently. *)
(*                                                                         *)
(* pd.mu is held through auth.Build and Ping.  Build is one step here that *)
(* succeeds or fails (its stages are in AuthBuild); a client it returns is *)
(* named after its builder.                                                *)
(* A definition whose name ends in NoClose, NoFlag, Uncached, Relocked or *)
(* Ignored is a faulty variant of the definition after it.                 *)
(***************************************************************************)
EXTENDS Naturals

CONSTANTS Callers,      \* the RPCs that need the connection
          NameCallers,  \* those of them that ask for ClusterName
          Configurer,   \* the Configure RPC, a caller when it connects eagerly
          None

Results == {"client", "error"}

ASSUME CallersAssumption ==
  /\ NameCallers \subseteq Callers
  /\ Configurer \in Callers \ NameCallers
  /\ None \notin Callers \cup Results

VARIABLES
  eager,        \* the eager_connect setting
  configured,   \* Configure: "no", "eager" (dialling), "yes" or "failed"
  mu,           \* the caller that holds pd.mu across steps, or None
  connected,    \* pd.connected
  client,       \* pd.client: the builder of the cached client, or None
  clusterName,  \* pd.clusterName has been set
  connErr,      \* pd.connErr # nil
  open,         \* the clients that were built and not closed
  builders,     \* history: the callers that reached auth.Build
  pc,           \* where each caller is
  result        \* what Client returned to each caller

vars == <<eager, configured, mu, connected, client, clusterName, connErr, open,
          builders, pc, result>>

States  == {"idle", "lock", "build", "ping", "relock", "named", "returned"}
TypeOK ==
  /\ eager \in BOOLEAN
  /\ configured \in {"no", "eager", "yes", "failed"}
  /\ mu \in Callers \cup {None}
  /\ connected \in BOOLEAN
  /\ client \in Callers \cup {None}
  /\ clusterName \in BOOLEAN
  /\ connErr \in BOOLEAN
  /\ open \subseteq Callers
  /\ builders \subseteq Callers
  /\ pc \in [Callers -> States]
  /\ result \in [Callers -> Results \cup {None}]

Init ==
  /\ eager \in BOOLEAN
  /\ configured = "no"
  /\ mu = None
  /\ connected = FALSE
  /\ client = None
  /\ clusterName = FALSE
  /\ connErr = FALSE
  /\ open = {}
  /\ builders = {}
  /\ pc = [c \in Callers |-> "idle"]
  /\ result = [c \in Callers |-> None]

----------------------------------------------------------------------------
(* Configure publishes pd at once, or dials first and publishes on success.*)

\* The configuration is refused (AuthBuild says which) and nothing published.
ConfigureRejected ==
  /\ configured = "no"
  /\ configured' = "failed"
  /\ UNCHANGED <<eager, mu, connected, client, clusterName, connErr, open,
                 builders, pc, result>>

ConfigureLazy ==
  /\ configured = "no"
  /\ ~eager
  /\ configured' = "yes"
  /\ UNCHANGED <<eager, mu, connected, client, clusterName, connErr, open,
                 builders, pc, result>>

ConfigureEager ==
  /\ configured = "no"
  /\ eager
  /\ configured' = "eager"
  /\ pc' = [pc EXCEPT ![Configurer] = "lock"]
  /\ UNCHANGED <<eager, mu, connected, client, clusterName, connErr, open,
                 builders, result>>

ConfigureEndIgnored ==
  /\ configured = "eager"
  /\ pc[Configurer] = "returned"
  /\ configured' = "yes"
  /\ UNCHANGED <<eager, mu, connected, client, clusterName, connErr, open,
                 builders, pc, result>>

ConfigureEnd ==
  /\ configured = "eager"
  /\ pc[Configurer] = "returned"
  /\ configured' = IF result[Configurer] = "client" THEN "yes" ELSE "failed"
  /\ UNCHANGED <<eager, mu, connected, client, clusterName, connErr, open,
                 builders, pc, result>>

----------------------------------------------------------------------------
(* Client.                                                                 *)

\* An RPC reaches a resource only through a published pd.
Call(c) ==
  /\ c # Configurer
  /\ configured = "yes"
  /\ pc[c] = "idle"
  /\ pc' = [pc EXCEPT ![c] = "lock"]
  /\ UNCHANGED <<eager, configured, mu, connected, client, clusterName, connErr,
                 open, builders, result>>

\* Client returns r to c; ClusterName goes on to read pd.clusterName.
ReturnFromClient(c, r) ==
  /\ result' = [result EXCEPT ![c] = r]
  /\ pc' = [pc EXCEPT ![c] =
              IF c \in NameCallers /\ r = "client" THEN "relock" ELSE "returned"]

\* Lock, find pd.connected, return the cached outcome, unlock.
LockHit(c) ==
  /\ pc[c] = "lock"
  /\ mu = None
  /\ connected
  /\ ReturnFromClient(c, IF connErr THEN "error" ELSE "client")
  /\ UNCHANGED <<eager, configured, mu, connected, client, clusterName, connErr,
                 open, builders>>

LockMissNoFlag(c) ==
  /\ pc[c] = "lock"
  /\ mu = None
  /\ ~connected
  /\ mu' = c
  /\ pc' = [pc EXCEPT ![c] = "build"]
  /\ builders' = builders \cup {c}
  /\ UNCHANGED <<eager, configured, connected, client, clusterName, connErr, open,
                 result>>

\* Lock, find pd not connected, and set the flag before anything can fail.
LockMiss(c) ==
  /\ pc[c] = "lock"
  /\ mu = None
  /\ ~connected
  /\ connected' = TRUE
  /\ mu' = c
  /\ pc' = [pc EXCEPT ![c] = "build"]
  /\ builders' = builders \cup {c}
  /\ UNCHANGED <<eager, configured, client, clusterName, connErr, open, result>>

\* auth.Build returns a connected client.
BuildOK(c) ==
  /\ pc[c] = "build"
  /\ pc' = [pc EXCEPT ![c] = "ping"]
  /\ open' = open \cup {c}
  /\ UNCHANGED <<eager, configured, mu, connected, client, clusterName, connErr,
                 builders, result>>

BuildFailUncached(c) ==
  /\ pc[c] = "build"
  /\ mu' = None
  /\ ReturnFromClient(c, "error")
  /\ UNCHANGED <<eager, configured, connected, client, clusterName, connErr, open,
                 builders>>

\* auth.Build fails, for whatever reason: the cancellation of c's own RPC too.
BuildFail(c) ==
  /\ pc[c] = "build"
  /\ connErr' = TRUE
  /\ mu' = None
  /\ ReturnFromClient(c, "error")
  /\ UNCHANGED <<eager, configured, connected, client, clusterName, open, builders>>

PingOK(c) ==
  /\ pc[c] = "ping"
  /\ client' = c
  /\ clusterName' = TRUE
  /\ mu' = None
  /\ ReturnFromClient(c, "client")
  /\ UNCHANGED <<eager, configured, connected, connErr, open, builders>>

PingFailNoClose(c) ==
  /\ pc[c] = "ping"
  /\ connErr' = TRUE
  /\ mu' = None
  /\ ReturnFromClient(c, "error")
  /\ UNCHANGED <<eager, configured, connected, client, clusterName, open, builders>>

\* The ping fails: the client is closed and the failure cached.
PingFail(c) ==
  /\ pc[c] = "ping"
  /\ open' = open \ {c}
  /\ connErr' = TRUE
  /\ mu' = None
  /\ ReturnFromClient(c, "error")
  /\ UNCHANGED <<eager, configured, connected, client, clusterName, builders>>

----------------------------------------------------------------------------
(* ClusterName, after its call of Client has succeeded and let go of pd.mu. *)

ReadClusterNameRelocked(c) ==
  /\ pc[c] = "relock"
  /\ mu = c
  /\ pc' = [pc EXCEPT ![c] = "named"]
  /\ UNCHANGED <<eager, configured, mu, connected, client, clusterName, connErr,
                 open, builders, result>>

ReadClusterName(c) ==
  /\ pc[c] = "relock"
  /\ mu = None
  /\ pc' = [pc EXCEPT ![c] = IF clusterName THEN "named" ELSE "returned"]
  /\ UNCHANGED <<eager, configured, mu, connected, client, clusterName, connErr,
                 open, builders, result>>

----------------------------------------------------------------------------
Step(c) ==
  \/ LockHit(c) \/ LockMiss(c) \/ BuildOK(c) \/ BuildFail(c)
  \/ PingOK(c) \/ PingFail(c) \/ ReadClusterName(c)

Next ==
  \/ ConfigureRejected \/ ConfigureLazy \/ ConfigureEager \/ ConfigureEnd
  \/ \E c \in Callers : Call(c) \/ Step(c)

Spec == Init /\ [][Next]_vars

\* Every dial and ping ends: the Teleport client bounds both with timeouts.
\* The lock is held by at most one caller in a lifetime across steps.
FairSpec == Spec /\ WF_vars(ConfigureEnd) /\ \A c \in Callers : WF_vars(Step(c))

----------------------------------------------------------------------------
(* Properties.                                                             *)

\* The proxy is dialled at most once, however many resources share pd.
OneAttempt == \A c, e \in builders : c = e

\* No client outlives a failed connect: outside the critical section the only
\* client left open is the cached one.
NoClientLeak == mu = None => open = IF client = None THEN {} ELSE {client}

\* A caller told that it is connected really is, to a proxy whose cluster name
\* is known: "used as the SSH DialHost cluster fallback" would be empty if not.
ConnectedMeansNamed ==
  \A c \in Callers :
    /\ result[c] = "client" => client \in open /\ clusterName
    /\ pc[c] = "returned" /\ c \in NameCallers => result[c] = "error"

\* Under eager_connect a failure surfaces in Configure and in no later RPC.
EagerFailsFast ==
  eager => \A c \in Callers \ {Configurer} : result[c] # "error"

\* Whenever RPCs wait for the connection, a moment comes when none of them does:
\* nobody who asks for it is left without an answer.
Waiting(c) == pc[c] \in {"lock", "build", "ping", "relock"}

EveryCallReturns ==
  (\E c \in Callers : Waiting(c)) ~> (\A c \in Callers : ~Waiting(c))

\* No two resources are told different things of the one connection.
\* (provider.go:84-122)
OneAnswer ==
  \A c, e \in Callers : result[c] # None /\ result[e] # None => result[c] = result[e]

\* The client that the resources share is never replaced, nor closed under them by a
\* later caller of Client.  (provider.go:84-122)
ClientStays == [][client # None => client' = client /\ client \in open']_vars

\* Where a caller is on its way through Client and ClusterName.
Progress(s) ==
  CASE s = "idle"  -> 0
    [] s = "lock"  -> 1
    [] s = "build" -> 2
    [] s = "ping"  -> 3
    [] s = "relock" -> 4
    [] OTHER        -> 5

\* A caller never starts over: it takes pd.mu at most twice and dials at most once,
\* whatever the others do.  (provider.go:84-133)
CallsAdvance ==
  [][\A c \in Callers : pc'[c] # pc[c] => Progress(pc[c]) < Progress(pc'[c])]_vars

\* pd.mu makes nobody wait for ever: while a call is under way some caller is
\* dialling, or pd.mu is free for one that wants it.  (provider.go:84-133)
SomeCallDue ==
  \/ \E c \in Callers : pc[c] \in {"build", "ping"}
  \/ mu = None /\ \E c \in Callers : pc[c] \in {"lock", "relock"}

NoDeadlock == (\E c \in Callers : Waiting(c)) => SomeCallDue

\* A provider that Configure did not hand out serves no resource.
\* (provider.go:310-332)
UnconfiguredServesNone ==
  configured # "yes" => \A c \in Callers \ {Configurer} : pc[c] = "idle" /\ result[c] = None

\* All callers see one outcome: pd behaves as a cell decided once.
Outcome == CASE client # None -> "client" [] connErr -> "error" [] OTHER -> None

Cell == INSTANCE OnceCell WITH
  Readers <- Callers, Values <- Results, Undecided <- None,
  cell <- Outcome, learned <- result

OneOutcome == Cell!Spec

----------------------------------------------------------------------------
(* The inductive invariant (proved in LazyConnectProofs).                  *)

\* What the two flags and the two cached results say of each other.
Cached ==
  /\ client # None => connected /\ clusterName /\ ~connErr
  /\ connErr => connected
  /\ connected /\ mu = None => client # None \/ connErr
  /\ ~connected => mu = None /\ builders = {}

\* Inside the critical section nothing is decided yet.
InSection ==
  /\ mu # None => client = None /\ ~connErr /\ builders = {mu}
  /\ \A c \in Callers : pc[c] \in {"build", "ping"} <=> mu = c
  /\ mu # None => open = IF pc[mu] = "ping" THEN {mu} ELSE {}

\* Who has a result, and that it is the cached one.
Answered ==
  \A c \in Callers :
    /\ result[c] = None <=> pc[c] \in {"idle", "lock", "build", "ping"}
    /\ result[c] = "client" => client # None
    /\ result[c] = "error" => connErr
    /\ c \in NameCallers /\ result[c] = "client" => pc[c] \in {"relock", "named"}
    /\ c \in NameCallers /\ result[c] = "error" => pc[c] = "returned"
    /\ pc[c] \in {"relock", "named"} => result[c] = "client"

\* No RPC but Configure's own runs before pd is handed out, which under
\* eager_connect is when it is connected.
Published ==
  /\ configured = "no" => \A c \in Callers : pc[c] = "idle"
  /\ eager /\ configured = "yes" => client # None
  /\ configured # "yes" => \A c \in Callers \ {Configurer} : pc[c] = "idle"

CInv ==
  /\ TypeOK
  /\ OneAttempt
  /\ NoClientLeak
  /\ Cached
  /\ InSection
  /\ Answered
  /\ Published
=============================================================================
