-------------------------- MODULE EphemeralTunnels --------------------------
(***************************************************************************)
(* The tunnel resources of internal/provider: the Open and Close RPCs of   *)
(* ephemeral_db_tunnel.go and ephemeral_ssh_tunnel.go, which run           *)
(* concurrently for different instances, and the TunnelRegistry through    *)
(* which Close finds what Open started.                                    *)
(*                                                                         *)
(* This module composes the others at their abstract level: a tunnel is    *)
(* the status of TunnelSpec, the connection of a configuration is OnceCell *)
(* (see LazyConnect).  A tunnel is named after the instance that opened it.*)
(* A definition whose name ends in Kept or Unregistered is a faulty        *)
(* variant of the definition after it.                                     *)
(***************************************************************************)
CONSTANTS Instances,      \* ephemeral tunnel resources of the run
          SSHInstances    \* those that are SSH tunnels

ASSUME InstancesAssumption == SSHInstances \subseteq Instances

VARIABLES
  configured,  \* whether Configure has handed out a ProviderData
  cell,        \* the outcome of its one connect, as in OnceCell
  registry,    \* the tunnels in its TunnelRegistry
  pc,          \* where the RPCs of an instance are
  tunnel,      \* per instance: its tunnel, as in TunnelSpec
  private,     \* instances whose private state holds a tunnel_id
  process      \* the provider process: "running" or "exited"

vars == <<configured, cell, registry, pc, tunnel, private, process>>

OpenStates  == {"connect", "cluster", "issue", "start", "register", "publish",
                "setkey", "abort"}
CloseStates == {"take", "shut"}
Ended       == {"open", "failed", "closed"}

TypeOK ==
  /\ configured \in BOOLEAN
  /\ cell \in {"undecided", "client", "error"}
  /\ registry \subseteq Instances
  /\ pc \in [Instances -> OpenStates \cup CloseStates \cup Ended \cup {"idle"}]
  /\ tunnel \in [Instances -> {"down", "up", "closing", "closed"}]
  /\ private \subseteq Instances
  /\ process \in {"running", "exited"}

Init ==
  /\ configured = FALSE
  /\ cell = "undecided"
  /\ registry = {}
  /\ pc = [i \in Instances |-> "idle"]
  /\ tunnel = [i \in Instances |-> "down"]
  /\ private = {}
  /\ process = "running"

----------------------------------------------------------------------------
(* Terraform: configuring the provider, and ending it.                     *)

\* A new ProviderData with a registry of its own.  Terraform configures a
\* process it started once; with eager_connect the connect is decided here.
Configure ==
  /\ process = "running"
  /\ ~configured
  /\ configured' = TRUE
  /\ cell' \in {"undecided", "client"}
  /\ UNCHANGED <<registry, pc, tunnel, private, process>>

\* The process is told to exit, whatever was left open.  Nothing runs first:
\* main returns when the plugin server does.
Exit ==
  /\ process = "running"
  /\ process' = "exited"
  /\ UNCHANGED <<configured, cell, registry, pc, tunnel, private>>

----------------------------------------------------------------------------
(* Open.                                                                   *)

Goto(i, from, to) ==
  /\ process = "running"
  /\ pc[i] = from
  /\ pc' = [pc EXCEPT ![i] = to]

OpenBegin(i) ==
  /\ configured
  /\ \/ Goto(i, "idle", "connect")
     \/ Goto(i, "idle", "failed")          \* a required attribute, or ttl
  /\ UNCHANGED <<cell, registry, tunnel, private, configured, process>>

Connect(i) ==
  \E r \in {"client", "error"} :
    /\ Goto(i, "connect",
            IF r = "error" THEN "failed"
            ELSE IF i \in SSHInstances THEN "cluster" ELSE "issue")
    /\ cell \in {"undecided", r}
    /\ cell' = r
    /\ UNCHANGED <<registry, tunnel, private, configured, process>>

\* An SSH tunnel also asks for the cluster name: connected by now.
ResolveCluster(i) ==
  /\ Goto(i, "cluster", IF cell = "client" THEN "issue" ELSE "failed")
  /\ UNCHANGED <<cell, registry, tunnel, private, configured, process>>

Issue(i) ==
  /\ Goto(i, "issue", "start") \/ Goto(i, "issue", "failed")
  /\ UNCHANGED <<cell, registry, tunnel, private, configured, process>>

\* NewDBTunnel or NewSSHTunnel; a failed one has released what it acquired.
Start(i) ==
  /\ \/ /\ Goto(i, "start", "register")
        /\ tunnel' = [tunnel EXCEPT ![i] = "up"]
     \/ /\ Goto(i, "start", "failed")
        /\ UNCHANGED tunnel
  /\ UNCHANGED <<cell, registry, private, configured, process>>

AddUnregistered(i) ==
  /\ Goto(i, "register", "publish")
  /\ UNCHANGED <<cell, registry, tunnel, private, configured, process>>

\* Tunnels.Add; it fails when no random id can be drawn.
Add(i) ==
  /\ \/ /\ Goto(i, "register", "publish")
        /\ registry' = registry \cup {i}
        /\ UNCHANGED tunnel
     \/ /\ Goto(i, "register", "abort")
        /\ tunnel' = [tunnel EXCEPT ![i] = "closing"]
        /\ UNCHANGED registry
  /\ UNCHANGED <<cell, private, configured, process>>

\* Tunnels.Take, and on to t.Close() if the registry knew the tunnel.
TakeFrom(i, from, known, unknown) ==
  LET found == i \in registry /\ (from = "take" => i \in private)
  IN /\ Goto(i, from, IF found THEN known ELSE unknown)
     /\ registry' = IF found THEN registry \ {i} ELSE registry
     /\ tunnel' = IF found THEN [tunnel EXCEPT ![i] = "closing"] ELSE tunnel

PublishKept(i) ==
  /\ Goto(i, "publish", "setkey") \/ Goto(i, "publish", "failed")
  /\ UNCHANGED <<cell, registry, tunnel, private, configured, process>>

\* Result.Set; if it fails the tunnel is taken back and closed.
Publish(i) ==
  /\ \/ /\ Goto(i, "publish", "setkey")
        /\ UNCHANGED <<registry, tunnel>>
     \/ TakeFrom(i, "publish", "abort", "failed")
  /\ UNCHANGED <<cell, private, configured, process>>

\* Private.SetKey, the last step; a fixed key and a JSON string are accepted.
SetKey(i) ==
  /\ Goto(i, "setkey", "open")
  /\ private' = private \cup {i}
  /\ UNCHANGED <<cell, registry, tunnel, configured, process>>

\* t.Close() returns on one of the two error paths (TunnelSpec's Finish).
Abort(i) ==
  /\ Goto(i, "abort", "failed")
  /\ tunnel' = [tunnel EXCEPT ![i] = "closed"]
  /\ UNCHANGED <<cell, registry, private, configured, process>>

----------------------------------------------------------------------------
(* Close.  Terraform calls it once for an instance whose Open succeeded.   *)

CloseBegin(i) ==
  /\ Goto(i, "open", "take")
  /\ UNCHANGED <<cell, registry, tunnel, private, configured, process>>

TakeKept(i) ==
  /\ Goto(i, "take", "closed")
  /\ registry' = registry \ {i}
  /\ UNCHANGED <<cell, tunnel, private, configured, process>>

\* With the id of the private state; without one, or with one the registry
\* does not know, the RPC ends there and without a diagnostic.
Take(i) ==
  /\ TakeFrom(i, "take", "shut", "closed")
  /\ UNCHANGED <<cell, private, configured, process>>

\* t.Close() returns.
Shut(i) ==
  /\ Goto(i, "shut", "closed")
  /\ tunnel' = [tunnel EXCEPT ![i] = "closed"]
  /\ UNCHANGED <<cell, registry, private, configured, process>>

----------------------------------------------------------------------------
OpenStep(i) ==
  \/ Connect(i) \/ ResolveCluster(i) \/ Issue(i) \/ Start(i)
  \/ Add(i) \/ Publish(i) \/ SetKey(i) \/ Abort(i)

CloseStep(i) == Take(i) \/ Shut(i)

Next ==
  \/ Configure \/ Exit
  \/ \E i \in Instances : OpenBegin(i) \/ CloseBegin(i) \/ OpenStep(i) \/ CloseStep(i)

Spec == Init /\ [][Next]_vars

\* Once its tunnel runs, an RPC waits for the tunnel alone: Close of a tunnel ends
\* (TunnelSpec's fairness), the other steps are local.  Issue and Start are calls
\* to the network and the Close RPC is Terraform's to make: nothing is assumed of them.
FairSpec ==
  /\ Spec
  /\ \A i \in Instances :
       /\ WF_vars(Add(i) \/ Publish(i) \/ SetKey(i) \/ Abort(i))
       /\ WF_vars(CloseStep(i))

----------------------------------------------------------------------------
(* Properties.                                                             *)

\* A tunnel is owned exactly once: by the RPC that is starting or closing it,
\* or by one registry, and then it is up.  Never by nobody, never by two.
OwnedOnce ==
  \A i \in Instances :
    /\ tunnel[i] = "up" <=> i \in registry \/ pc[i] = "register"
    /\ tunnel[i] = "closing" <=> pc[i] \in {"abort", "shut"}
    /\ i \in registry <=> pc[i] \in {"publish", "setkey", "open", "take"}

\* A tunnel that an RPC has started, or has begun to close, is closed in the end,
\* unless Terraform comes to hold it open or the process ends under it.
\* (ephemeral_db_tunnel.go:195-216, 234-246, ephemeral_ssh_tunnel.go:191-239)
EveryTunnelEnds ==
  \A i \in Instances :
    (tunnel[i] \in {"up", "closing"} /\ pc[i] # "open")
      ~> (tunnel[i] = "closed" \/ pc[i] = "open" \/ process = "exited")

\* While Terraform holds an instance open its tunnel is up, and the id that
\* Close will be given is known to the registry that Close will ask.
CloseFindsTunnel ==
  \A i \in Instances :
    pc[i] \in {"open", "take"} =>
      i \in private /\ tunnel[i] = "up" /\ i \in registry

\* tunnel_registry.go: what is registered is "closed defensively at shutdown".
ClosedAtShutdown ==
  process = "exited" => registry = {}

\* No RPC that is over leaves a tunnel of its instance behind, whether Open
\* failed half-way or Close was called.
NoOrphan ==
  \A i \in Instances :
    pc[i] \in {"failed", "closed"} => tunnel[i] \in {"down", "closed"}

\* The connection is decided once, by the first to need it or by Configure, and no
\* RPC changes it for another.  (provider.go:84-122)
DecidedOnce == [][cell # "undecided" => cell' = cell]_vars

\* Who got past Client has the one client: ClusterName, asked for later, does not
\* fail, and no tunnel runs without a connection.  (ephemeral_ssh_tunnel.go:139-154)
Beyond == {"cluster", "issue", "start", "register", "publish", "setkey", "abort",
           "open", "take", "shut", "closed"}

ConnectedBeyond ==
  /\ cell # "undecided" => configured
  /\ \A i \in Instances :
       /\ pc[i] \in Beyond => cell = "client"
       /\ pc[i] # "idle" => configured

\* Every instance uses its tunnel as TunnelSpec has it: what a tunnel promises
\* (Tunnel and SSHTunnel keep it) is what Open and Close rely on.  The connections
\* the tunnel serves are its own affair.
TunnelOf(i) == INSTANCE TunnelSpec WITH
  Conns <- {}, status <- tunnel[i], live <- {}, served <- {}

TunnelsUsedAsPromised ==
  [][\A i \in Instances : TunnelOf(i)!Next \/ UNCHANGED tunnel[i]]_vars

\* An instance has had no tunnel before it starts one.
Fresh ==
  \A i \in Instances :
    pc[i] \in {"idle", "connect", "cluster", "issue", "start"} => tunnel[i] = "down"

\* The inductive invariant of EphemeralProofs.
IInv ==
  /\ TypeOK
  /\ OwnedOnce
  /\ NoOrphan
  /\ CloseFindsTunnel
  /\ Fresh
  /\ ConnectedBeyond
=============================================================================
