----------------------------- MODULE AuthBuild ------------------------------
(***************************************************************************)
(* LazyConnect with auth.Build in place of its one step BuildOK/BuildFail: *)
(* the stages of internal/auth/auth.go and join.go, from the configuration *)
(* to a connected client, and with the dials whose ALPN upgrade the        *)
(* configuration decides, those of the tunnels included.                   *)
(*                                                                         *)
(* A stage is one call out.  Build runs under pd.mu, so one suffices.      *)
(* A definition whose name ends in Kept or Uncached is a faulty variant of *)
(* the definition after it.                                                *)
(***************************************************************************)
EXTENDS LazyConnect, ProviderConfig

VARIABLES
  block,   \* the provider block
  stage,   \* where Build is, or "none"
  source,  \* the authentication source that Build chose, or None
  held,    \* connections of a join: "join" (gRPC) and "proxy" (proxy client)
  dials    \* history: what was dialled, and whether with an upgrade

authVars  == <<block, stage, source, held, dials>>
buildVars == <<vars, authVars>>

ASSUME NoneIsNoSource == None \notin Sources

JoinStages == {"fetch", "dial", "register", "certs", "find", "proxy", "config"}

AuthTypeOK ==
  /\ TypeOK
  /\ block \in Blocks
  /\ stage \in JoinStages \cup {"none", "start", "connect"}
  /\ source \in Sources \cup {None}
  /\ held \subseteq {"join", "proxy"}
  /\ dials \subseteq [dial : {"join", "auth", "db", "ssh"}, upgraded : BOOLEAN]

AuthInit ==
  /\ Init
  /\ block \in Blocks
  /\ eager = ValueBool(block["eager_connect"])
  /\ stage = "none"
  /\ source = None
  /\ held = {}
  /\ dials = {}

Dialled(d, u) == dials' = dials \cup {[dial |-> d, upgraded |-> u]}

----------------------------------------------------------------------------
(* Configure: every early return before the connection is one rejection.   *)

AuthConfigure ==
  /\ \/ Accepted(block) /\ (ConfigureLazy \/ ConfigureEager)
     \/ ~Accepted(block) /\ ConfigureRejected
     \/ ConfigureEnd
  /\ UNCHANGED authVars

----------------------------------------------------------------------------
(* Build.                                                                  *)

BuildBegin(c) ==
  /\ LockMiss(c)
  /\ stage' = "start"
  /\ UNCHANGED <<block, source, held, dials>>

Advance(c, from, to) ==
  /\ pc[c] = "build"
  /\ stage = from
  /\ stage' = to
  /\ UNCHANGED <<vars, block>>

\* Validate once more, and choose the source.
Credentials(c) ==
  /\ Validate(Config(block))
  /\ source' = Source(Config(block))
  /\ Advance(c, "start", IF source' = "join" THEN "fetch" ELSE "connect")
  /\ UNCHANGED <<held, dials>>

\* The identity token of the platform, and a fresh key pair.
Fetch(c) ==
  /\ Config(block).method \in fetchers
  /\ Advance(c, "fetch", "dial")
  /\ UNCHANGED <<source, held, dials>>

dialJoinService(c) ==
  /\ Advance(c, "dial", "register")
  /\ held' = held \cup {"join"}
  /\ \E u \in resolveALPNUpgrade(Config(block).join) : Dialled("join", u)
  /\ UNCHANGED source

RegisterUsingToken(c) ==
  /\ Advance(c, "register", "certs")
  /\ UNCHANGED <<source, held, dials>>

\* The cluster's name, key pair, host authorities and signer from the answer.
ParseCerts(c) ==
  /\ Advance(c, "certs", "find")
  /\ UNCHANGED <<source, held, dials>>

proxyTLSRoutingEnabled(c) ==
  /\ Advance(c, "find", "proxy")
  /\ UNCHANGED <<source, held, dials>>

NewProxyClient(c) ==
  /\ Advance(c, "proxy", "config")
  /\ held' = held \cup {"proxy"}
  /\ \E u \in resolveALPNUpgrade(Config(block).auth) : Dialled("auth", u)
  /\ UNCHANGED source

\* credentialsFromJoin returns, which closes its connection to the join service.
\* The proxy client stays open: the new configuration may dial through it.
ClientConfig(c) ==
  /\ Advance(c, "config", "connect")
  /\ held' = held \ {"join"}
  /\ UNCHANGED <<source, dials>>

\* client.New succeeds.
NewClient(c) ==
  /\ stage = "connect"
  /\ BuildOK(c)
  /\ stage' = "none"
  /\ UNCHANGED <<block, source, held, dials>>

FailKept(c) ==
  /\ stage = "start" => ~Validate(Config(block))
  /\ BuildFail(c)
  /\ stage' = "none"
  /\ UNCHANGED <<block, source, held, dials>>

FailUncached(c) ==
  /\ stage = "start" => ~Validate(Config(block))
  /\ BuildFailUncached(c)
  /\ stage' = "none"
  /\ held' = held \ {"join"}
  /\ UNCHANGED <<block, source, dials>>

\* Any stage fails, an unsupported method or a cancelled context included: what
\* a join has deferred is closed, a proxy client is not.
Fail(c) ==
  /\ stage = "start" => ~Validate(Config(block))
  /\ BuildFail(c)
  /\ stage' = "none"
  /\ held' = held \ {"join"}
  /\ UNCHANGED <<block, source, dials>>

BuildStep(c) ==
  \/ BuildBegin(c) \/ Credentials(c) \/ Fetch(c) \/ dialJoinService(c)
  \/ RegisterUsingToken(c) \/ ParseCerts(c) \/ proxyTLSRoutingEnabled(c)
  \/ NewProxyClient(c) \/ ClientConfig(c) \/ NewClient(c) \/ Fail(c)

----------------------------------------------------------------------------
(* The tunnels that resources open over the connection.                    *)

OpenDBTunnel(c) ==
  /\ c \notin NameCallers \cup {Configurer}
  /\ result[c] = "client"
  /\ \E u \in resolveALPNUpgrade(Config(block).tunnel) : Dialled("db", u)
  /\ UNCHANGED <<vars, block, stage, source, held>>

\* An SSH tunnel has no probe: it upgrades only when told to.
OpenSSHTunnel(c) ==
  /\ c \in NameCallers
  /\ pc[c] = "named"
  /\ Dialled("ssh", Config(block).tunnel = "yes")
  /\ UNCHANGED <<vars, block, stage, source, held>>

----------------------------------------------------------------------------
AuthStep(c) ==
  \/ /\ LockHit(c) \/ PingOK(c) \/ PingFail(c) \/ ReadClusterName(c)
     /\ UNCHANGED authVars
  \/ BuildStep(c)

AuthNext ==
  \/ AuthConfigure
  \/ \E c \in Callers :
       \/ Call(c) /\ UNCHANGED authVars
       \/ AuthStep(c)
       \/ OpenDBTunnel(c) \/ OpenSSHTunnel(c)

AuthSpec == AuthInit /\ [][AuthNext]_buildVars

\* Every call out of Build ends: each has a timeout of its own or the one of the
\* Teleport client.
AuthFairSpec ==
  /\ AuthSpec
  /\ WF_buildVars(AuthConfigure)
  /\ \A c \in Callers : WF_buildVars(AuthStep(c))

----------------------------------------------------------------------------
(* Properties.                                                             *)

AttributesOf(s) == IF s = "join" THEN {"join_method", "join_token"} ELSE {s}
AuthAttributes  == UNION {AttributesOf(s) : s \in Sources}

\* The attribute is set to something that selects a source.
IsSet(a) ==
  IF a = "use_local_profile" THEN block[a] = "true"
  ELSE block[a] \notin {"null", "unknown", ""}

\* The source Build uses is the only one the block sets, and it is set whole:
\* the checks of Validate and the order of the switch in credentials agree.
\* (auth.go:67-101 against 146-163)
OneSource ==
  source # None => {a \in AuthAttributes : IsSet(a)} = AttributesOf(source)

\* A join is made over an open connection, and Build gives that connection back
\* wherever it returns; at most a proxy client is left behind.
\* (join.go:82-86, 149-164)
JoinReleased ==
  /\ stage = "register" => "join" \in held
  /\ mu = None => held \subseteq IF source = "join" THEN {"proxy"} ELSE {}

SettingOf == [join |-> "join_alpn_conn_upgrade", auth |-> "auth_alpn_conn_upgrade",
              db |-> "alpn_conn_upgrade", ssh |-> "alpn_conn_upgrade"]

\* "some topologies need opposite values for the two dials" (provider.go:268-270):
\* each dial follows its own setting, and the SSH tunnel's "auto" means no.
\* (auth.go:56-65, join.go:154, 279, ssh.go:109-111)
Follows(d, setting) ==
  /\ setting \in {"yes", "true", "on", "required"} => d.upgraded
  /\ setting \in {"no", "false", "off", "never"} => ~d.upgraded
  /\ d.dial = "ssh" /\ setting \in {"", "auto"} => ~d.upgraded

OwnUpgrade == \A d \in dials : Follows(d, ValueString(block[SettingOf[d.dial]]))

\* Nothing is dialled before somebody asks for the connection, be it Configure.
\* (provider.go:81-122, 310-324)
QuietUntilAsked ==
  (\A c \in Callers : pc[c] = "idle") => builders = {} /\ dials = {} /\ open = {}

\* A provider block that is refused costs no connection, no token and no probe.
\* (provider.go:233-308)
RejectedDialsNothing == ~Accepted(block) => builders = {} /\ dials = {} /\ open = {}

\* To the RPCs Build is one step that succeeds or fails.
ImplementsLazyConnect == Spec

----------------------------------------------------------------------------
(* The inductive invariant (proved in AuthBuildProofs).                    *)

\* No RPC runs with a block that was rejected.
OnlyAccepted ==
  ~Accepted(block) => /\ configured \in {"no", "failed"}
                      /\ \A c \in Callers : pc[c] = "idle"

\* Build is somewhere exactly while a caller is in it.
InBuild ==
  /\ stage = "none" <=> (mu = None \/ pc[mu] # "build")
  /\ builders = {} => source = None

\* What Build has chosen and what it holds at each stage.
Holding ==
  /\ source # None => source = Source(Config(block)) /\ Accepted(block)
  /\ stage = "start" => source = None
  /\ stage \in JoinStages => source = "join"
  /\ "join" \in held <=> stage \in {"register", "certs", "find", "proxy", "config"}
  /\ held # {} => source = "join"

AInv ==
  /\ CInv
  /\ AuthTypeOK
  /\ OnlyAccepted
  /\ InBuild
  /\ Holding
  /\ OwnUpgrade
  /\ QuietUntilAsked
=============================================================================
