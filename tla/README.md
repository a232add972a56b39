# TLA+ verification of terraform-provider-teleportconnect

This directory holds a TLA+ model of the provider, the TLC configurations that
check it on small instances, and TLAPS proofs of its main properties for every
instance. Source paths below are relative to `src/internal/` unless they begin
with `src/`.

## The system

The provider gives Terraform runs access to resources behind a Teleport proxy.
Its *ephemeral* tunnel resources open a local TCP listener during a run and
forward every local connection to a database (over TLS routing) or to a host
behind an SSH gateway. Data sources look resources up, and a certificate
resource issues credentials. All of them share one Teleport client, which is
connected on first use.

| component | state | operations | interacts with |
|---|---|---|---|
| Database tunnel, `tunnel/db.go` | listener, `closed`, `conns`, `wg`, `mu`, per connection two sockets, two copy goroutines and a `done` channel | `NewDBTunnel`, `acceptLoop`, `trackConn`, `handleConn`, `untrackConn`, `Close` | local clients, Teleport proxy, whoever calls `Close` |
| SSH tunnel, `tunnel/ssh.go` | the same, plus proxy client and SSH session; upstreams are channels of the session | the same; the constructor acquires four resources in turn; `Close` ends session and proxy client last | gateway, proxy |
| Lazy connection, `provider/provider.go` | `connected`, `client`, `clusterName`, `connErr`, `mu` of `ProviderData` | `Client`, `ClusterName`, eager connect in `Configure` | every RPC of the run |
| Tunnel resources, `provider/ephemeral_*_tunnel.go`, `provider/tunnel_registry.go` | `TunnelRegistry.tunnels`, private state kept by Terraform | `Open`, `Close`, `Add`, `Take`, `CloseAll` | lazy connection, certificate issuing, tunnels |
| Certificate issuing, `dbcerts`, `sshcerts`, `botroles` | none; reads roles, databases and CAs in several RPCs | `Issue`, `ImpersonatedRoles`, `lookupProtocol` | auth server |
| Authentication, `auth/` | configuration; connections opened by a join | `Validate`, `Build`, `credentials`, join, `resolveALPNUpgrade` | join service, token sources; called under the lock of the lazy connection |
| Data sources, `provider/data_*.go` | none | `Read` | auth server |
| Schema and parsing | the provider block, with values that may be unknown | `Configure`'s checks, `parseALPNUpgradeMode` | Terraform; feeds authentication and tunnels |

### What is hard in it

* **Concurrency.** Terraform runs the RPCs of independent resources in parallel.
  In a tunnel the accept loop, the handlers, the copy goroutines and any number
  of callers of `Close` run together, and only part of what they share is
  guarded by `mu`.
* **Failure.** Dials and pings fail, peers reset or stop reading, a constructor
  fails half-way, `Open` fails after its tunnel is up, the SSH session is lost.
* **Ordering.** `cancel`, the listener, the client sockets, `wg.Wait`, the
  session and the proxy client are closed in an order everything depends on.
* **Waiting.** No read or write of a tunnel has a deadline, and `pd.mu` is held
  through a network dial.

What makes the components correct: a closed tunnel leaves nothing behind; `Close`
returns; a connection ends only for a reason; the proxy is dialled once and all
RPCs see one outcome; a run authenticates as the one source its block sets and
dials each way as it was told for that way; every running tunnel has one owner who
will close it, and fits the certificate it was opened with.
`PROJECT.json` lists the hazards line by line with the properties about them.

## Modules

| module | models | role |
|---|---|---|
| `Tunnel` | `tunnel/db.go` | one action per step of a goroutine |
| `TunnelSpec` | the lifecycle comment of a tunnel | abstract: serve between start and close, finish empty |
| `SSHTunnel` | `tunnel/ssh.go` | extends `Tunnel` with the constructor's stages, the session and the tear-down |
| `LazyConnect` | `ProviderData.Client`, `ClusterName`, eager connect | one action per critical section or call out |
| `ProviderConfig` | the provider block: `Configure`'s checks, `Validate`, the switch in `credentials`, the ALPN modes | operators on blocks |
| `AuthBuild` | `Configure`, `auth.Build` with its join, the dials of the tunnels | extends `LazyConnect` and `ProviderConfig`: one action per call out of `Build` |
| `OnceCell` | the comment on `Client` | abstract: a cell decided once |
| `EphemeralTunnels` | both tunnel resources and the registry | composes the others at their abstract level |
| `Lookup` | `Read` of the database and node data sources, `lookupProtocol` | one action per listed element, against a reference |
| `CertIssue` | `dbcerts.Issue`, `sshcerts.Issue`, `ImpersonatedRoles`, `Open` of the certificate resource | one action per RPC, in a cluster that changes |
| `*Proofs`, `TunnelRefinement` | | theorems and proofs |
| `MC*` | | constants of the small instances |

Faulty variants of some definitions stand next to them (`CloseNoWait` before
`CloseWait`). No specification uses one: replacing the definition by its variant
must break the property the variant is named for in `PROJECT.json`, which shows
that the property does depend on that line of code.

### Tunnel

A client goes through `handler[c]`: `idle`, `backlog` (the kernel has completed
its handshake), `accepted` (`Accept` returned), `tracked` or `rejected`
(`trackConn`), `dial`, `pump` (both copies run), `closeUp`, `closeClient`,
`untrack` (the defers, in the order they run), `wgDone`, `gone`. The loop is
`accept`, `busy` with the one client it has in hand, or `done`. A copy goroutine
is at `read`, `write` or `send` (its send into `done`). A caller of `Close` goes
`called`, `listener`, `conns`, `wait`, `done`, or `noop` when it is not the first.

* `mu` is a variable only because `Close` keeps it across several steps:
  `trackConn` and `untrackConn` are single steps guarded by `~mu`.
* The context is cancelled in the critical section that sets `t.closed`, so
  `closed` stands for both.
* Data is a chunk read and not yet written. Whether the peer sees the half-close
  after a copy is outside the model; `relayed` remembers which directions ended
  at EOF with everything written.
* Everything `NewDBTunnel` does before `net.Listen` (option checks, key pair, CA
  pool, ALPN probe) acquires nothing and is part of one action.
* `Accept` may fail on an open listener (`AcceptFails`): the loop treats every
  error alike.

### SSHTunnel

`ssh.go` repeats `db.go`'s skeleton statement for statement, so `SSHTunnel`
takes `Tunnel`'s actions for it. New are `stage` (how far `NewSSHTunnel` is),
`held` (proxy client, host connection, session), `lost`, the channels the SSH
multiplexer has dropped (`dead`), and `teardown` (what follows `wg.Wait`).
A channel differs from a socket in that `upstream.Close()` only sends a message,
and may wait for a gateway that has stopped reading: it is fair only with such a
gateway excluded (`PeersRead`) or once the session is over. A copy goroutine blocked
in a read of the channel stays there until the peer answers or the session ends
(`ChannelError`). The behaviour of
`golang.org/x/crypto/ssh` is external and is modelled as the code relies on it.

### LazyConnect

`Client` holds `pd.mu` through `auth.Build` and `Ping`; `mu` names the caller
inside. `LockHit` is the whole call of a caller that finds `connected` set;
`LockMiss`, `BuildOK`/`BuildFail` and `PingOK`/`PingFail` are the steps of the
one that does not. `ClusterName` calls `Client`, which unlocks, and locks again:
`relock` is the gap. `builders` and `open` are history: who dialled, and which
clients are open. `ProviderData.Close` is not an action because nothing calls it.
`LazyConnect` is checked as part of `AuthBuild`, which refines its build step.

### ProviderConfig and AuthBuild

A block maps every attribute to `"null"`, `"unknown"` or its value. Only
`proxy_address` is checked for being unknown; every other unknown attribute reads
as if it were not set, and `OneSource` holds with that reading. `Accepted` is what
`Configure` lets through, `Config` what it hands to `auth`, `Source` the branch that
`credentials` takes.

`stage` says where `Build` is: `start`, then for a join `fetch`, `dial`,
`register`, `certs`, `find`, `proxy`, `config`, and `connect`. One variable is
enough because `Build` runs under `pd.mu`. `Fail` may happen at every stage but the
first, where it happens when `Validate` refuses. `held` is what a join has open:
the deferred `closeConn` gives back `"join"` on every return, nothing ever closes
the proxy client. `dials` records each dial with its ALPN upgrade; a probe in auto
mode may answer either way. That the private key, the certificates and the host
authorities of a join can be parsed is part of the stage `certs`.

### EphemeralTunnels

`pc[i]` is where the RPCs of resource instance `i` are. A tunnel is `TunnelSpec`'s
status and is named after its instance, since an id is drawn from 128 random bits.
The outcome of the connect is the cell of `OnceCell`. `EveryTunnelEnds` is its
liveness, from the fairness that `TunnelSpec` promises for a tunnel's Close. Every error path of `Open` is
a step; `t.Close()` is two, its call and its return. Terraform configures a
process it started once, calls `Close` once for each instance whose `Open`
succeeded, and may end the process at any time (`Exit`).

### Lookup

A loop over a listing is one action per element (`ScanSkip`, `ScanTake`, then
`ResolveSkip`, `ResolveHit`), so that its invariant (`ScannedUpTo`, `PassedOver`)
can be stated and proved. Labels are sets of key-value pairs, which makes
`labelsMatch` inclusion. The data source and the certificate each ask for a
listing; the second may be any other. `ReadAnswers` compares the loop with what
it should compute, the set of different resources that match; `ProtocolAgrees`
says when the two loops, which select differently, must give one protocol.

### CertIssue

Each call to the auth server is an action that may fail (`Fail`); `Reconfigure`
may change the bot's wrapper role, the right to read it and what is announced
between any two. `grants`, `announcements` and `roleRead` are history: what the
cluster said since the Open began and how the roles were learned. A certificate is
routed to `RouteCluster`, which may be empty, and an SSH tunnel dials `DialCluster`,
which may not; `announced` is what the own cluster says, the only one that
`lookupProtocol` asks. What the auth server refuses (`Granted`) is external. `dbcerts` and `sshcerts` are one model: the
SSH side has no protocol and no call for the CA. `Issue` keeps no state, so
concurrent calls are independent.

## Runs

| run | instance | shows |
|---|---|---|
| `tunnel_safety` | 2 clients, 1 Close | nothing leaks past Close, registered clients are closed when `mu` is free, `wg` is never raised from zero; `mu`, `wg` and the `done` channels never hold up Close: only a pending write does |
| `tunnel_live` | 1 client, 2 callers of Close, resets; the proxy reads | the proofs' invariant; a handler ends only for a cause; `Tunnel` implements `TunnelSpec` with its liveness; every Close returns; copy goroutines end although nobody waits for them |
| `tunnel_backlog` | 2 clients | the loop is never held up by a connection |
| `tunnel_close_stalled` | 1 client | **violation**: Close need not return when the proxy stops reading |
| `tunnel_accept_fails` | 1 client | **violation**: a transient Accept error abandons the backlog |
| `ssh_tunnel` | 1 client, 1 Close, resets; all peers read | a failed constructor holds nothing; the session outlives the handlers and is released; its loss ends them and their copies; Close returns; implements `Tunnel` |
| `lazy_connect` | 3 RPCs and Configure, 480 provider blocks, eager or lazy | one dial, one outcome, no leaked client, a connected caller has a cluster name, every call returns; Build uses the only source that is set, gives back its join connection, every dial follows its own setting; `AuthBuild` implements `LazyConnect` |
| `ephemeral` | 2 database tunnels, 1 SSH tunnel | one owner per tunnel, Close finds what Open left, every tunnel that an RPC starts or closes ends |
| `ephemeral_shutdown` | 2 instances | **violation**: nothing closes registered tunnels when the process exits |
| `lookup` | all pairs of listings of up to 3 servers, 2 names, 2 labels | a data source finds a resource exactly when there is one; where its protocol and the certificate's must agree |
| `cert_issue` | 2 roles, 2 protocols, 2 clusters, 2 reconfigurations | a bot's certificate carries a whole grant; a tunnel speaks its certificate's protocol, or dials where its certificate is good |
| `cert_fallback` | no reconfiguration | **violation**: any error of the role lookup drops the bot's roles, not a denial only |

**Bounds.** The tunnel's actors interact through `wg`, `conns`, `mu` and the loop,
which holds one client at a time: two clients give every interleaving of one
client in hand with one being served, untracked or force-closed, and two callers
of `Close` give the early return against the working one. The proofs remove the
bounds. Peers reset one socket each and end each direction once, as sockets do.
In `LazyConnect` one caller dials; one that waits and one that goes on to
`ClusterName` cover the rest, and each may be the one that dials. The blocks are
every combination of the attributes that select a source, with unknown values and a
join method that has no fetcher, and every combination of the three upgrade modes,
an invalid one and both kinds of bad address included. `OnceCell` needs no bound. In `Lookup` two replicas
of one database that announce different things, and a third server of any other
kind, give every order in which the two loops can disagree; listings are bounded
by `MCListings` only. In `CertIssue` the window from a read to its use is one
Open, and two edits (`MaxEdits`) reach both a change and a change back. Deadlock
is not checked: a tunnel that is closed, or a run whose RPCs are answered, really
has nothing left to do.

**Fairness.** Weak fairness on each goroutine's own steps: the Go scheduler runs
what can run. `mu` is held across steps once in a lifetime (by the working
`Close`, or by the caller that dials), so weak fairness is enough for the mutex.
Nothing is assumed of clients, of the proxy, of the gateway, or of who calls what.
A dial has to end only once the context is cancelled. `DrainSpec` adds that the
proxy keeps reading what is written to it, `SSHPeersReadSpec` (`PeersRead`) that
gateway and local clients do; `tunnel_close_stalled` shows what the first is needed
for. In `AuthBuild` every stage of `Build` and the ping end, which is an assumption
about the join fetchers and the Teleport client: the code sets a limit for some of
them only, and none for the ping (`provider/provider.go:108`). In `EphemeralTunnels` only the steps after a tunnel has
been started are fair: they are local, or the end of a tunnel's `Close`.

## Findings

1. `tunnel_close_stalled`: both tunnels document that `Close` force-closes
   in-flight connections, but only client sockets are closed. With one copy
   blocked in a write to the far side and the other in a read from it, neither
   notices, and `wg.Wait` does not return. The SSH tunnel is the same: the end of
   its session would free the copies, but comes after `wg.Wait` (`ssh.go:216`).
2. `tunnel_accept_fails`: the accept loop ends on every error, transient ones
   included, and leaves the listener open: later clients connect and hang.
3. `ephemeral_shutdown`: the registry is documented to be closed "defensively at
   shutdown"; `CloseAll` has no caller.
4. `cert_fallback`: `ImpersonatedRoles` falls back to no impersonation "without
   read access to the wrapper role"; it does so on every error, a timeout included,
   and the resource opens with a certificate that does not give access.

Two behaviours contradict no statement of the repository but are worth knowing.
The first direction of a connection to end closes both sockets, so what the other
direction had still to relay is cut. And the context of whichever RPC connects
first decides for all: its cancellation is cached as the outcome. A third is that
the protocol of a database in a leaf cluster is looked up in the client's own
cluster (`dbcerts/issue.go:62`).

## Proofs

All for any set of clients, callers, RPCs and instances; the only assumptions are
that the set of clients is finite (`ConnsFinite`), that callers and results are
told apart from `None` (`CallersAssumption`), as are the authentication sources
(`NoneIsNoSource`), that SSH instances are instances
(`InstancesAssumption`), that any channel may break (`ChannelsMayBreak`), and that
listings are finite sequences and the empty string is no name, protocol or cluster
(`LookupAssumption`, `IssueAssumption`).

* `TunnelProofs`: `IInv` is inductive. `NothingLeaks` alone is not: that `wg` is
  zero says nothing unless `wg` counts exactly the loop and the handlers
  (`WgCounts`), which needs that the loop has one client in hand (`LoopOwnsOne`),
  that every open socket has an owner that will close it (`SocketsOwned`), that
  `conns` is exactly the clients between `trackConn` and `untrackConn`
  (`ConnsTracked`), that one `Close` works and alone holds `mu` (`LockOwned`),
  and how far it is (`CloseProgress`). From it follow `TypeCorrect`,
  `LeakFreedom`, `ForcedClose`, `AddBeforeWait`, `SafeRange` (nothing touches
  `conns` while `Close` ranges over it), `HandledOnce` (a client only moves on),
  `CopiesEnd` (a copy left behind runs out in a bounded number of steps of its own)
  and `CloseIsFinal` (nothing comes back).
  `CInv` adds why each stopped copy stopped (`PumpsCaused`), that every token still
  to come has room in its `done` channel and that a handler waiting for one has not
  taken any (`TokensCounted`), and that a second caller of `Close` can only return
  after the first has released `mu` (`NoopLate`). It yields `EndedForCause`,
  `SecondCloseIsSafe` and `NoDeadlockInClose`. The last is the part of `CloseReturns`
  that needs no fairness: as long as a `Close` has not returned, some goroutine it
  waits for can take a step of its own (giving up a cancelled dial is one), or a copy
  has a write to the proxy pending, the case of finding 1.
* `TunnelRefinement`: every step of `Tunnel` is a step of `TunnelSpec` or none.
  `PromiseMeans` derives from `TunnelSpec` alone that a tunnel holds only what it
  serves, serves nobody once `Close` has begun, and that a closed tunnel does nothing;
  `ServesBetween` combines the two.
* `SSHTunnelProofs`: `SSHRefinement` shows that the SSH tunnel implements
  `Tunnel`, so all of the above holds for it, `TunnelSpec` included
  (`SSHKeepsPromise`, `SSHHandling`, `SSHNoDeadlockInClose`, `SSHCloseIsFinal`,
  `SSHServesBetween`). The one step that is not literally
  a step of `Tunnel` is the end of `Close`, and needs `wg` to be still zero after
  the session has been closed. `SInv` ties what is held to the stage and the
  tear-down; `ConstructorCleansUp`, `SessionLast` and `SSHLeakFreedom` follow.
  `SSHNoDeadlockInClose` is about more than `Tunnel`'s: the close of a channel and the
  end of its data are sent to the gateway too and count as waiting, and so does the
  tear-down; but nothing is held up any more when the session is over. Its
  conjunct `Dropped` says that a channel the multiplexer has dropped is known to be
  broken; with `TokensCounted` it gives `LossLeavesOnlyTheClient`, the safety half of
  `LossEndsHandlers`: after the session is lost, only a write to a local client that
  does not read can hold a handler.
* `LazyConnectProofs`: `CInv` says what the flags, the results, the lock and the
  callers know of each other; from it `DialledOnce`, `NoLeak`,
  `NamedWhenConnected`, `FailsFast`, `SameForAll`, `ClientKept`, `FailedServesNone`,
  and `Refinement` to `OnceCell`. `CallsMoveOn` (every step of a caller raises a
  measure of at most 5) and `DeadlockFree` (while one waits, some caller is dialling
  or the free `pd.mu` is wanted) are what `EveryCallReturns` consists of besides
  fairness: that dials end is the only thing left to assume.
* `AuthBuildProofs`: `BuildRefinement` maps every stage of `Build` to a stutter or to
  the one step of `LazyConnect`, so that all of its theorems hold with the staged
  `Build` (`StagedConnect` and `StagedAttempt` state nine). `AInv` adds that nothing
  runs with a rejected block, that `stage` is set exactly while a caller is inside
  `Build`, what is held at each stage, and that nothing is dialled before somebody
  asks (`QuietUntilAsked`); it yields `JoinCleansUp`, `UpgradesHonoured`,
  `LazyIsQuiet` and `RefusedIsQuiet`. `SourceExclusive` needs in addition that of a
  valid configuration exactly the attributes of its source are set (`ValidSource`),
  a case analysis over any values.
* `EphemeralProofs`: `OwnedOnce` is stated as equivalences, which makes it
  inductive together with `NoOrphan` and `CloseFindsTunnel`. That an instance has no
  tunnel before it starts one (`Fresh`) and that whoever got past `Client` has the
  client (`ConnectedBeyond`) complete it. `Composition` says that the tunnel of each
  instance, seen through the resources' RPCs, is a behaviour of `TunnelSpec`, the
  specification that `TunnelRefinement` and `SSHKeepsPromise` show the two tunnels to
  implement: the promise that Open and Close use is the one that is kept.
  `UsedAsPromised` is its step form, `ClosedTunnelsStay` a consequence.
* `LookupProofs`: `LInv` is the loop invariant of every loop, for listings of any
  length: after the elements before `k`, `matches` holds the first announcement of
  each different match. `AnswersRead` and `AgreedProtocol` follow; the second needs
  that without labels the loops accept the same elements.
* `CertIssueProofs`: `IssueInv` carries what each local variable was read from to
  the place where it is used; `Impersonation` and `CertificateFits` follow, and that
  nothing is started or dialled without a certificate (`CertificateFirst`).
  `IssuedOnce` and `CallsInOrder` are action properties: what is issued stays, and no
  call is retried, so an Open ends whatever the cluster does.

Of the properties above some are theorems only and in no run:
`SecondCloseForces`, `OneWay`, `CopiesRunOut`, `RangeUndisturbed`, `StaysClosed`,
`HoldsWhatItServes`, `ServesOnlyWhileUp`, `ClosedForGood`,
`DroppedHeldUpByClientOnly`, `SSHCloseHeldUpBySendsOnly`, `DecidedOnce`,
`TunnelsUsedAsPromised`, `OneAnswer`, `ClientStays`, `CallsAdvance`, `NoDeadlock`,
`UnconfiguredServesNone`, `RejectedDialsNothing`, `CertificateStays`,
`StartsWithCertificate`, `NothingRetried`. A theorem leaves nothing to find in a
small instance, and the invariants they are derived from are checked by the runs
(`CInv`, `SInv`, `AInv`, `IInv`, `IssueInv`), each with a faulty variant of the code
that breaks it.

Only model-checked, since the prover reaches neither fairness nor `ENABLED`:
`CloseReturns`, `PromiseKeptLive`, `NoPumpSurvives`, `BacklogAnswered`,
`LossEndsHandlers`, `PumpsEndWithSession`, `EveryCallReturns`, `EveryTunnelEnds`.

## Not modelled, and the plan

| next | module | what it will say |
|---|---|---|
| 1 | host keys | the loop of `makeHostKeyCallback` and of the join's `hostKeyCallback` over CA entries |
| 2 | expiry | a clock for certificates that end before their tunnel |
| 3 | composition | `EphemeralTunnels` with `CertIssue` in place of its step `issue`; that its tunnels may be the detailed ones is `Composition` together with the refinements |

The cluster data source is not modelled: it takes the connection of `LazyConnect`,
makes two more calls and copies their answers to the state, with no choice and
nothing kept. Of the join, what the certificates contain and where each platform
keeps its token are data that no property depends on; what the Teleport client does
with the context of the RPC that connected first (`auth/join.go:166`) is not in this
repository.

Left out for good: schemas, diagnostics, logging and generated documentation,
which have no state; the Teleport protocols and `golang.org/x/crypto/ssh`, which
are not in this repository; `ProviderData.Close` and `TunnelRegistry.CloseAll`,
which nothing calls; and a process that is configured again while tunnels are
open, which Terraform does only to a provider started with `-debug` and shared by
several provider configurations (`Close` would then look in the newer registry).
