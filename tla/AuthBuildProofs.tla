--------------------------- MODULE AuthBuildProofs --------------------------
(***************************************************************************)
(* The staged Build implements the one step of LazyConnect, and what it    *)
(* chooses and holds, for any callers and any provider blocks.             *)
(***************************************************************************)
EXTENDS AuthBuild, LazyConnectProofs

----------------------------------------------------------------------------
(* Refinement: a stage is a stutter, the last one is BuildOK or BuildFail. *)

LEMMA BuildStepRefines ==
  ASSUME NEW c \in Callers, BuildStep(c)
  PROVE  LockMiss(c) \/ BuildOK(c) \/ BuildFail(c) \/ UNCHANGED vars
  <1>1. CASE BuildBegin(c) \/ NewClient(c) \/ Fail(c)
    BY <1>1 DEF BuildBegin, NewClient, Fail
  <1>2. CASE Credentials(c) \/ Fetch(c) \/ dialJoinService(c) \/ RegisterUsingToken(c)
    BY <1>2 DEF Credentials, Fetch, dialJoinService, RegisterUsingToken, Advance
  <1>3. CASE ParseCerts(c) \/ proxyTLSRoutingEnabled(c) \/ NewProxyClient(c) \/ ClientConfig(c)
    BY <1>3 DEF ParseCerts, proxyTLSRoutingEnabled, NewProxyClient, ClientConfig, Advance
  <1> QED
    BY <1>1, <1>2, <1>3 DEF BuildStep

LEMMA NextRefines == [AuthNext]_buildVars => [Next]_vars
  <1> SUFFICES ASSUME [AuthNext]_buildVars PROVE Next \/ UNCHANGED vars
    OBVIOUS
  <1>1. CASE UNCHANGED buildVars
    BY <1>1 DEF buildVars
  <1>2. CASE AuthConfigure
    BY <1>2 DEF AuthConfigure, Next
  <1>3. ASSUME NEW c \in Callers, Call(c)
        PROVE  Next
    BY <1>3 DEF Next
  <1>4. ASSUME NEW c \in Callers, AuthStep(c)
        PROVE  Next \/ UNCHANGED vars
    BY <1>4, BuildStepRefines DEF AuthStep, Next, Step
  <1>5. ASSUME NEW c \in Callers, OpenDBTunnel(c) \/ OpenSSHTunnel(c)
        PROVE  UNCHANGED vars
    BY <1>5 DEF OpenDBTunnel, OpenSSHTunnel
  <1> QED
    BY <1>1, <1>2, <1>3, <1>4, <1>5 DEF AuthNext

\* To the RPCs that share pd, Build is one step that succeeds or fails.
THEOREM BuildRefinement == AuthSpec => ImplementsLazyConnect
  <1>1. AuthInit => Init
    BY DEF AuthInit
  <1> QED
    BY <1>1, NextRefines, PTL DEF AuthSpec, Spec, ImplementsLazyConnect

\* With a Build of many stages, each of which may fail, pd is still a cell that is
\* decided once and leaves no client open.  (provider.go:81-122, auth.go:105-136)
THEOREM StagedConnect ==
  AuthSpec => OneOutcome /\ []NoClientLeak /\ []ConnectedMeansNamed
  BY BuildRefinement, Refinement, NoLeak, NamedWhenConnected DEF ImplementsLazyConnect

----------------------------------------------------------------------------
(* Types.                                                                  *)

LEMMA SourceTyped == ASSUME NEW c PROVE Source(c) \in Sources
  BY DEF Source, Sources

LEMMA UpgradeTyped == ASSUME NEW m, NEW u \in resolveALPNUpgrade(m) PROVE u \in BOOLEAN
  BY DEF resolveALPNUpgrade

\* A step changes the stage of Build, opens a tunnel, or leaves authVars alone.
LEMMA NextCases ==
  ASSUME [AuthNext]_buildVars
  PROVE  \/ UNCHANGED authVars
         \/ \E c \in Callers : BuildStep(c) \/ OpenDBTunnel(c) \/ OpenSSHTunnel(c)
  <1>1. CASE UNCHANGED buildVars
    BY <1>1 DEF buildVars
  <1>2. CASE AuthConfigure
    BY <1>2 DEF AuthConfigure
  <1>3. CASE \E c \in Callers : AuthStep(c)
    BY <1>3 DEF AuthStep
  <1> QED
    BY <1>1, <1>2, <1>3 DEF AuthNext

LEMMA AuthTypeStep == AuthTypeOK /\ CInv /\ [AuthNext]_buildVars => AuthTypeOK'
  <1> DEFINE Own == /\ block \in Blocks
                    /\ stage \in JoinStages \cup {"none", "start", "connect"}
                    /\ source \in Sources \cup {None}
                    /\ held \subseteq {"join", "proxy"}
                    /\ dials \subseteq [dial : {"join", "auth", "db", "ssh"},
                                        upgraded : BOOLEAN]
  <1> SUFFICES ASSUME Own, CInv, [AuthNext]_buildVars PROVE AuthTypeOK'
    BY DEF AuthTypeOK
  <1>1. TypeOK'
    BY NextRefines, TypeStep
  <1>2. ASSUME UNCHANGED authVars PROVE Own'
    BY <1>2 DEF authVars, JoinStages, Sources
  <1>3. ASSUME NEW c \in Callers, BuildBegin(c) \/ NewClient(c) \/ Fail(c)
        PROVE  Own'
    BY <1>3 DEF BuildBegin, NewClient, Fail, JoinStages, Sources
  <1>4. ASSUME NEW c \in Callers,
               Fetch(c) \/ RegisterUsingToken(c) \/ ParseCerts(c)
               \/ proxyTLSRoutingEnabled(c) \/ ClientConfig(c)
        PROVE  Own'
    BY <1>4 DEF Fetch, RegisterUsingToken, ParseCerts, proxyTLSRoutingEnabled,
                ClientConfig, Advance, JoinStages, Sources
  <1>5. ASSUME NEW c \in Callers, Credentials(c)
        PROVE  Own'
    <2>1. source' \in Sources
      BY <1>5, SourceTyped DEF Credentials
    <2>2. stage' \in {"fetch", "connect"} /\ UNCHANGED <<block, held, dials>>
      BY <1>5 DEF Credentials, Advance
    <2> QED
      BY <2>1, <2>2 DEF JoinStages, Sources
  <1>6. ASSUME NEW c \in Callers, dialJoinService(c) \/ NewProxyClient(c)
        PROVE  Own'
    <2>1. PICK d \in {"join", "auth"}, u \in BOOLEAN : Dialled(d, u)
      BY <1>6, UpgradeTyped DEF dialJoinService, NewProxyClient
    <2>2. /\ stage' \in {"register", "config"} /\ UNCHANGED <<block, source>>
          /\ held' \subseteq {"join", "proxy"}
      BY <1>6 DEF dialJoinService, NewProxyClient, Advance
    <2> QED
      BY <2>1, <2>2 DEF Dialled, JoinStages, Sources
  <1>7. ASSUME NEW c \in Callers, OpenDBTunnel(c) \/ OpenSSHTunnel(c)
        PROVE  Own'
    <2>1. PICK d \in {"db", "ssh"}, u \in BOOLEAN : Dialled(d, u)
      BY <1>7, UpgradeTyped DEF OpenDBTunnel, OpenSSHTunnel
    <2>2. UNCHANGED <<block, stage, source, held>>
      BY <1>7 DEF OpenDBTunnel, OpenSSHTunnel
    <2> QED
      BY <2>1, <2>2 DEF Dialled, JoinStages, Sources
  <1>8. Own'
    BY <1>2, <1>3, <1>4, <1>5, <1>6, <1>7, NextCases DEF BuildStep
  <1> QED
    BY <1>1, <1>8 DEF AuthTypeOK, JoinStages, Sources

----------------------------------------------------------------------------
(* The invariant.                                                          *)

LEMMA AuthInitInv == AuthInit => AInv
  <1> SUFFICES ASSUME AuthInit PROVE AInv
    OBVIOUS
  <1>1. CInv
    BY InitInv DEF AuthInit
  <1>2. AuthTypeOK
    BY <1>1 DEF AuthInit, AuthTypeOK, CInv
  <1>3. OnlyAccepted
    BY DEF AuthInit, Init, OnlyAccepted
  <1>4. InBuild /\ Holding /\ OwnUpgrade
    BY NoneIsNoSource DEF AuthInit, Init, InBuild, Holding, JoinStages, OwnUpgrade
  <1>5. QuietUntilAsked
    BY DEF AuthInit, Init, QuietUntilAsked
  <1> QED
    BY <1>1, <1>2, <1>3, <1>4, <1>5 DEF AInv

\* What a dial upgraded by its mode says of the setting the mode was read from.
LEMMA UpgradeFollows ==
  ASSUME NEW v, NEW d \in {"join", "auth", "db"},
         NEW u \in resolveALPNUpgrade(UpgradeMode(parseALPNUpgradeMode(v)))
  PROVE  Follows([dial |-> d, upgraded |-> u], v)
  BY DEF resolveALPNUpgrade, UpgradeMode, parseALPNUpgradeMode, Follows

LEMMA SSHUpgradeFollows ==
  ASSUME NEW v
  PROVE  Follows([dial |-> "ssh",
                  upgraded |-> UpgradeMode(parseALPNUpgradeMode(v)) = "yes"], v)
  BY DEF UpgradeMode, parseALPNUpgradeMode, Follows

\* One more dial that follows its setting.
LEMMA DialledKeeps ==
  ASSUME OwnUpgrade, block' = block, NEW d, NEW u, Dialled(d, u),
         Follows([dial |-> d, upgraded |-> u], ValueString(block[SettingOf[d]]))
  PROVE  OwnUpgrade'
  <1> SUFFICES ASSUME NEW e \in dials'
               PROVE  Follows(e, ValueString(block[SettingOf[e.dial]]))
    BY DEF OwnUpgrade
  <1>1. CASE e \in dials
    BY <1>1 DEF OwnUpgrade
  <1>2. CASE e = [dial |-> d, upgraded |-> u]
    BY <1>2
  <1> QED
    BY <1>1, <1>2 DEF Dialled

LEMMA UpgradeStep == AInv /\ [AuthNext]_buildVars => OwnUpgrade'
  <1> SUFFICES ASSUME AInv, [AuthNext]_buildVars PROVE OwnUpgrade'
    OBVIOUS
  <1>0. OwnUpgrade
    BY DEF AInv
  <1>1. CASE UNCHANGED <<block, dials>>
    BY <1>0, <1>1 DEF OwnUpgrade
  <1>2. ASSUME NEW c \in Callers, dialJoinService(c)
        PROVE  OwnUpgrade'
    <2>1. PICK u \in resolveALPNUpgrade(Config(block).join) : Dialled("join", u)
      BY <1>2 DEF dialJoinService
    <2>2. Config(block).join
            = UpgradeMode(parseALPNUpgradeMode(ValueString(block[SettingOf["join"]])))
      BY DEF Config, SettingOf
    <2> QED
      BY <1>0, <1>2, <2>1, <2>2, UpgradeFollows, DialledKeeps DEF dialJoinService, Advance
  <1>3. ASSUME NEW c \in Callers, NewProxyClient(c)
        PROVE  OwnUpgrade'
    <2>1. PICK u \in resolveALPNUpgrade(Config(block).auth) : Dialled("auth", u)
      BY <1>3 DEF NewProxyClient
    <2>2. Config(block).auth
            = UpgradeMode(parseALPNUpgradeMode(ValueString(block[SettingOf["auth"]])))
      BY DEF Config, SettingOf
    <2> QED
      BY <1>0, <1>3, <2>1, <2>2, UpgradeFollows, DialledKeeps DEF NewProxyClient, Advance
  <1>4. ASSUME NEW c \in Callers, OpenDBTunnel(c)
        PROVE  OwnUpgrade'
    <2>1. PICK u \in resolveALPNUpgrade(Config(block).tunnel) : Dialled("db", u)
      BY <1>4 DEF OpenDBTunnel
    <2>2. Config(block).tunnel
            = UpgradeMode(parseALPNUpgradeMode(ValueString(block[SettingOf["db"]])))
      BY DEF Config, SettingOf
    <2> QED
      BY <1>0, <1>4, <2>1, <2>2, UpgradeFollows, DialledKeeps DEF OpenDBTunnel
  <1>5. ASSUME NEW c \in Callers, OpenSSHTunnel(c)
        PROVE  OwnUpgrade'
    <2>1. Config(block).tunnel
            = UpgradeMode(parseALPNUpgradeMode(ValueString(block[SettingOf["ssh"]])))
      BY DEF Config, SettingOf
    <2> QED
      BY <1>0, <1>5, <2>1, SSHUpgradeFollows, DialledKeeps DEF OpenSSHTunnel
  <1>6. ASSUME NEW c \in Callers,
               BuildBegin(c) \/ Credentials(c) \/ Fetch(c) \/ RegisterUsingToken(c)
               \/ ParseCerts(c) \/ proxyTLSRoutingEnabled(c) \/ ClientConfig(c)
               \/ NewClient(c) \/ Fail(c)
        PROVE  UNCHANGED <<block, dials>>
    BY <1>6 DEF BuildBegin, Credentials, Fetch, RegisterUsingToken, ParseCerts,
                proxyTLSRoutingEnabled, ClientConfig, NewClient, Fail, Advance
  <1> QED
    BY <1>1, <1>2, <1>3, <1>4, <1>5, <1>6
    DEF AuthNext, AuthStep, BuildStep, AuthConfigure, buildVars, authVars

\* A caller inside Build is the one that holds pd.mu, and its block is accepted.
LEMMA Builder ==
  ASSUME AInv, NEW c \in Callers, pc[c] = "build"
  PROVE  mu = c /\ c # None /\ Accepted(block)
  BY CallersAssumption DEF AInv, CInv, InSection, OnlyAccepted

\* The steps outside Build leave the stage as it is, and Build where it is.
LEMMA OutsideStep ==
  ASSUME AInv, UNCHANGED authVars, NEW c \in Callers,
         \/ AuthConfigure \/ Call(c) \/ LockHit(c) \/ PingOK(c) \/ PingFail(c)
         \/ ReadClusterName(c)
  PROVE  (OnlyAccepted /\ InBuild)'
  <1>0. TypeOK /\ OnlyAccepted /\ InBuild /\ InSection /\ Published
    BY DEF AInv, CInv
  <1>1. UNCHANGED <<block, stage, source, builders>>
    BY DEF authVars, AuthConfigure, ConfigureRejected, ConfigureLazy, ConfigureEager,
           ConfigureEnd, Call, LockHit, PingOK, PingFail, ReadClusterName
  <1>2. CASE AuthConfigure
    <2>1. UNCHANGED mu /\ \A e \in Callers : e # Configurer => pc'[e] = pc[e]
      BY <1>0, <1>2
      DEF AuthConfigure, ConfigureRejected, ConfigureLazy, ConfigureEager, ConfigureEnd,
          TypeOK
    <2>3. CASE ConfigureEager /\ Accepted(block)
      <3>1. mu = None
        BY <1>0, <2>3, CallersAssumption DEF ConfigureEager, Published, InSection, TypeOK
      <3> QED
        BY <1>0, <1>1, <2>1, <2>3, <3>1 DEF OnlyAccepted, InBuild
    <2>4. CASE (Accepted(block) /\ ConfigureLazy) \/ (~Accepted(block) /\ ConfigureRejected)
               \/ ConfigureEnd
      <3>1. UNCHANGED pc
        BY <2>4 DEF ConfigureRejected, ConfigureLazy, ConfigureEnd
      <3>2. Accepted(block) \/ configured' = "failed"
        BY <1>0, <2>4 DEF ConfigureRejected, ConfigureEnd, OnlyAccepted
      <3> QED
        BY <1>0, <1>1, <2>1, <3>1, <3>2 DEF OnlyAccepted, InBuild
    <2> QED
      BY <1>2, <2>3, <2>4 DEF AuthConfigure
  <1>3. CASE Call(c)
    <2>1. Accepted(block)
      BY <1>0, <1>3 DEF Call, OnlyAccepted
    <2>2. mu # None => mu # c /\ pc'[mu] = pc[mu]
      BY <1>0, <1>3 DEF Call, TypeOK, InSection
    <2>3. OnlyAccepted'
      BY <1>1, <2>1 DEF OnlyAccepted
    <2>4. InBuild'
      BY <1>0, <1>1, <1>3, <2>2 DEF Call, InBuild
    <2> QED
      BY <2>3, <2>4
  <1>4. CASE LockHit(c) \/ PingOK(c) \/ PingFail(c) \/ ReadClusterName(c)
    <2>1. Accepted(block)
      BY <1>0, <1>4 DEF LockHit, PingOK, PingFail, ReadClusterName, OnlyAccepted
    <2>2. mu = None \/ mu = c
      BY <1>0, <1>4 DEF LockHit, PingOK, PingFail, ReadClusterName, InSection
    <2>3. OnlyAccepted'
      BY <1>1, <2>1 DEF OnlyAccepted, Accepted
    <2>4. InBuild'
      BY <1>0, <1>1, <1>4, CallersAssumption
      DEF LockHit, PingOK, PingFail, ReadClusterName, ReturnFromClient, InBuild, InSection, TypeOK
    <2> QED
      BY <2>3, <2>4
  <1> QED
    BY <1>2, <1>3, <1>4

\* A stage of Build that goes on to the next: nothing the RPCs see changes.
LEMMA StagesStay ==
  ASSUME AInv, NEW c \in Callers, NEW from, NEW to, Advance(c, from, to), to # "none"
  PROVE  /\ (OnlyAccepted /\ InBuild)'
         /\ Accepted(block) /\ block' = block
  <1>1. mu = c /\ Accepted(block) /\ c # None /\ UNCHANGED <<vars, block>> /\ stage' = to
    BY Builder DEF Advance
  <1>2. builders # {}
    BY <1>1 DEF AInv, CInv, InSection
  <1> QED
    BY <1>1, <1>2 DEF vars, OnlyAccepted, InBuild, Advance

LEMMA StageStep ==
  ASSUME AInv, NEW c \in Callers,
         \/ Fetch(c) \/ RegisterUsingToken(c) \/ ParseCerts(c)
         \/ proxyTLSRoutingEnabled(c) \/ dialJoinService(c) \/ NewProxyClient(c)
         \/ ClientConfig(c) \/ Credentials(c)
  PROVE  (OnlyAccepted /\ InBuild /\ Holding)'
  <1>0. Holding
    BY DEF AInv
  <1>1. CASE Fetch(c) \/ RegisterUsingToken(c) \/ ParseCerts(c) \/ proxyTLSRoutingEnabled(c)
    <2>1. PICK from \in {"fetch", "register", "certs", "find"},
               to \in {"dial", "certs", "find", "proxy"} : Advance(c, from, to)
      BY <1>1 DEF Fetch, RegisterUsingToken, ParseCerts, proxyTLSRoutingEnabled
    <2>2. Holding'
      BY <1>0, <1>1, <2>1, StagesStay
      DEF Fetch, RegisterUsingToken, ParseCerts, proxyTLSRoutingEnabled, Advance,
          Holding, JoinStages
    <2> QED
      BY <2>1, <2>2, StagesStay
  <1>2. CASE dialJoinService(c)
    <2>1. Advance(c, "dial", "register") /\ held' = held \cup {"join"} /\ UNCHANGED source
      BY <1>2 DEF dialJoinService
    <2> QED
      BY <1>0, <2>1, StagesStay DEF Advance, Holding, JoinStages
  <1>3. CASE NewProxyClient(c)
    <2>1. Advance(c, "proxy", "config") /\ held' = held \cup {"proxy"} /\ UNCHANGED source
      BY <1>3 DEF NewProxyClient
    <2> QED
      BY <1>0, <2>1, StagesStay DEF Advance, Holding, JoinStages
  <1>4. CASE ClientConfig(c)
    <2>1. Advance(c, "config", "connect") /\ held' = held \ {"join"} /\ UNCHANGED source
      BY <1>4 DEF ClientConfig
    <2> QED
      BY <1>0, <2>1, StagesStay DEF Advance, Holding, JoinStages
  <1>5. CASE Credentials(c)
    <2>1. PICK to \in {"fetch", "connect"} :
            /\ Advance(c, "start", to)
            /\ to = IF source' = "join" THEN "fetch" ELSE "connect"
      BY <1>5 DEF Credentials
    <2>2. source' = Source(Config(block)) /\ held' = held
      BY <1>5 DEF Credentials
    <2>3. held = {}
      BY <1>0, <2>1, NoneIsNoSource DEF Advance, Holding, Sources
    <2> QED
      BY <2>1, <2>2, <2>3, StagesStay DEF Advance, Holding, JoinStages
  <1> QED
    BY <1>1, <1>2, <1>3, <1>4, <1>5

\* Build begins with nothing chosen and nothing held, and ends anywhere.
LEMMA EndsStep ==
  ASSUME AInv, NEW c \in Callers, BuildBegin(c) \/ NewClient(c) \/ Fail(c)
  PROVE  (OnlyAccepted /\ InBuild /\ Holding)'
  <1>0. Holding /\ InBuild /\ OnlyAccepted /\ TypeOK /\ InSection /\ Cached
    BY DEF AInv, CInv
  <1>1. CASE BuildBegin(c)
    <2>1. /\ pc[c] = "lock" /\ mu = None /\ builders = {}
          /\ mu' = c /\ pc'[c] = "build" /\ c \in builders' /\ stage' = "start"
          /\ UNCHANGED <<configured, block, source, held>>
      BY <1>0, <1>1 DEF BuildBegin, LockMiss, TypeOK, Cached
    <2>2. Accepted(block)
      BY <1>0, <2>1 DEF OnlyAccepted
    <2>3. stage = "none" /\ source = None /\ held = {}
      BY <1>0, <2>1, NoneIsNoSource DEF InBuild, Holding, Sources
    <2>4. OnlyAccepted' /\ InBuild'
      BY <2>1, <2>2, CallersAssumption DEF OnlyAccepted, InBuild
    <2> QED
      BY <2>1, <2>3, <2>4 DEF Holding, JoinStages
  <1>2. CASE NewClient(c)
    <2>1. /\ pc[c] = "build" /\ stage = "connect" /\ pc'[c] = "ping" /\ stage' = "none"
          /\ UNCHANGED <<mu, builders, block, source, held>>
      BY <1>0, <1>2 DEF NewClient, BuildOK, TypeOK
    <2>2. Accepted(block) /\ mu = c
      BY <2>1, Builder
    <2> QED
      BY <1>0, <2>1, <2>2 DEF OnlyAccepted, InBuild, Holding, JoinStages, InSection
  <1>3. CASE Fail(c)
    <2>1. /\ pc[c] = "build" /\ mu' = None /\ stage' = "none" /\ held' = held \ {"join"}
          /\ UNCHANGED <<builders, block, source>>
      BY <1>3 DEF Fail, BuildFail
    <2>2. Accepted(block)
      BY <2>1, Builder
    <2> QED
      BY <1>0, <2>1, <2>2 DEF OnlyAccepted, InBuild, Holding, JoinStages
  <1> QED
    BY <1>1, <1>2, <1>3

\* A caller that has begun never is idle again, and before one has, no step dials.
LEMMA QuietStep == AInv /\ [AuthNext]_buildVars => QuietUntilAsked'
  <1> SUFFICES ASSUME AInv, [AuthNext]_buildVars PROVE QuietUntilAsked'
    OBVIOUS
  <1>0. TypeOK /\ Answered /\ Published /\ QuietUntilAsked
    BY DEF AInv, CInv
  <1>1. CASE UNCHANGED buildVars
    BY <1>0, <1>1 DEF buildVars, vars, authVars, QuietUntilAsked
  <1>2. CASE AuthConfigure
    <2>1. UNCHANGED <<builders, dials, open>>
      BY <1>2 DEF AuthConfigure, authVars, ConfigureRejected, ConfigureLazy, ConfigureEager,
                  ConfigureEnd
    <2>2. UNCHANGED pc \/ \A c \in Callers : pc[c] = "idle"
      BY <1>0, <1>2 DEF AuthConfigure, ConfigureRejected, ConfigureLazy, ConfigureEager,
                        ConfigureEnd, Published
    <2> QED
      BY <1>0, <2>1, <2>2 DEF QuietUntilAsked
  <1>3. ASSUME NEW c \in Callers, Call(c) \/ AuthStep(c) PROVE pc'[c] # "idle"
    <2>1. CASE Call(c)
      BY <1>0, <2>1 DEF Call, TypeOK
    <2>2. CASE LockHit(c) \/ LockMiss(c) \/ BuildOK(c) \/ BuildFail(c) \/ PingOK(c)
               \/ PingFail(c) \/ ReadClusterName(c)
      BY <1>0, <2>2 DEF LockHit, LockMiss, BuildOK, BuildFail, PingOK, PingFail,
                        ReadClusterName, ReturnFromClient, TypeOK
    <2>3. ASSUME NEW from, NEW to, Advance(c, from, to) PROVE pc'[c] # "idle"
      BY <2>3 DEF Advance, vars
    <2> QED
      BY <1>3, <2>1, <2>2, <2>3
      DEF AuthStep, BuildStep, BuildBegin, NewClient, Fail, Credentials, Fetch,
          dialJoinService, RegisterUsingToken, ParseCerts, proxyTLSRoutingEnabled,
          NewProxyClient, ClientConfig
  <1>4. ASSUME NEW c \in Callers, OpenDBTunnel(c) \/ OpenSSHTunnel(c) PROVE pc'[c] # "idle"
    BY <1>0, <1>4, CallersAssumption
    DEF OpenDBTunnel, OpenSSHTunnel, vars, Answered, Results
  <1> QED
    BY <1>1, <1>2, <1>3, <1>4 DEF AuthNext, QuietUntilAsked

LEMMA AInvStep == AInv /\ [AuthNext]_buildVars => AInv'
  <1> SUFFICES ASSUME AInv, [AuthNext]_buildVars PROVE AInv'
    OBVIOUS
  <1> DEFINE Rest == OnlyAccepted /\ InBuild /\ Holding
  <1>0. CInv /\ AuthTypeOK /\ Rest
    BY DEF AInv
  <1>1. CInv' /\ AuthTypeOK' /\ OwnUpgrade' /\ QuietUntilAsked'
    BY <1>0, NextRefines, InvStep, AuthTypeStep, UpgradeStep, QuietStep
  <1>2. ASSUME UNCHANGED <<vars, block, stage, source, held>> PROVE Rest'
    BY <1>0, <1>2 DEF vars, OnlyAccepted, InBuild, Holding
  <1>3. ASSUME NEW c \in Callers, UNCHANGED authVars,
               \/ AuthConfigure \/ Call(c) \/ LockHit(c) \/ PingOK(c) \/ PingFail(c)
               \/ ReadClusterName(c)
        PROVE  Rest'
    <2>1. (OnlyAccepted /\ InBuild)'
      BY <1>3, OutsideStep
    <2>2. Holding'
      BY <1>0, <1>3 DEF authVars, Holding
    <2> QED
      BY <2>1, <2>2
  <1>4. ASSUME NEW c \in Callers, BuildStep(c) PROVE Rest'
    BY <1>4, StageStep, EndsStep DEF BuildStep
  <1>5. ASSUME NEW c \in Callers, OpenDBTunnel(c) \/ OpenSSHTunnel(c) PROVE Rest'
    BY <1>2, <1>5 DEF OpenDBTunnel, OpenSSHTunnel
  <1>6. CASE UNCHANGED buildVars
    BY <1>1, <1>2, <1>6 DEF buildVars, authVars, AInv
  <1>7. CASE AuthConfigure
    BY <1>1, <1>3, <1>7, CallersAssumption DEF AuthConfigure, AInv
  <1>8. CASE \E c \in Callers : (Call(c) /\ UNCHANGED authVars) \/ AuthStep(c)
    BY <1>1, <1>3, <1>4, <1>8 DEF AuthStep, AInv
  <1> QED
    BY <1>1, <1>5, <1>6, <1>7, <1>8 DEF AuthNext, AInv

THEOREM AuthInvariance == AuthSpec => []AInv
  <1> QED
    BY AuthInitInv, AInvStep, PTL DEF AuthSpec

\* Build gives back the connection to the join service wherever it returns.
THEOREM JoinCleansUp == AuthSpec => []JoinReleased
  <1>1. AInv => JoinReleased
    BY NoneIsNoSource DEF AInv, AuthTypeOK, InBuild, Holding, JoinReleased, Sources
  <1> QED
    BY <1>1, AuthInvariance, PTL

\* What is set of a block, read off its configuration.
LEMMA SetAttributes ==
  ASSUME NEW b, b = block
  PROVE  LET c == Config(b) IN
         /\ IsSet("identity_file_path") <=> c.path # ""
         /\ IsSet("identity_file_data") <=> c.data # ""
         /\ IsSet("use_local_profile") <=> c.profile
         /\ IsSet("join_method") <=> c.method # ""
         /\ IsSet("join_token") <=> c.token # ""
  BY DEF Config, IsSet, ValueString, ValueBool

\* Of a valid configuration exactly the attributes of its source are set.
LEMMA ValidSource ==
  ASSUME NEW c, Validate(c)
  PROVE  \E s \in Sources :
           /\ s = Source(c)
           /\ c.path # "" <=> s = "identity_file_path"
           /\ c.data # "" <=> s = "identity_file_data"
           /\ c.profile <=> s = "use_local_profile"
           /\ c.method # "" <=> s = "join"
           /\ c.token # "" <=> s = "join"
  <1>1. PICK m \in Sources : Modes(c) = {m}
    BY DEF Validate
  <1>2. c.method # "" <=> c.token # ""
    BY DEF Validate
  <1>3. /\ c.path # "" <=> m = "identity_file_path"
        /\ c.data # "" <=> m = "identity_file_data"
        /\ c.profile <=> m = "use_local_profile"
        /\ (c.method # "" \/ c.token # "") <=> m = "join"
    BY <1>1 DEF Modes, Sources
  <1> QED
    BY <1>2, <1>3 DEF Source, Sources

\* Build never chooses between two sources that are set.
THEOREM SourceExclusive == AuthSpec => []OneSource
  <1>1. ASSUME AInv, source # None
        PROVE  {a \in AuthAttributes : IsSet(a)} = AttributesOf(source)
    <2>1. source = Source(Config(block)) /\ Validate(Config(block))
      BY <1>1 DEF AInv, Holding, Accepted
    <2>2. /\ source \in Sources
          /\ IsSet("identity_file_path") <=> source = "identity_file_path"
          /\ IsSet("identity_file_data") <=> source = "identity_file_data"
          /\ IsSet("use_local_profile") <=> source = "use_local_profile"
          /\ IsSet("join_method") <=> source = "join"
          /\ IsSet("join_token") <=> source = "join"
      BY <2>1, ValidSource, SetAttributes
    <2>3. AuthAttributes = {"identity_file_path", "identity_file_data",
                            "use_local_profile", "join_method", "join_token"}
      BY DEF AuthAttributes, AttributesOf, Sources
    <2> QED
      BY <2>2, <2>3 DEF AttributesOf, Sources
  <1>2. AInv => OneSource
    BY <1>1 DEF OneSource
  <1> QED
    BY <1>2, AuthInvariance, PTL

\* Every dial follows the setting that is its own.
THEOREM UpgradesHonoured == AuthSpec => []OwnUpgrade
  <1>1. AInv => OwnUpgrade
    BY DEF AInv
  <1> QED
    BY <1>1, AuthInvariance, PTL

\* A refused block is never acted on: no dial, no join, no client.
\* (provider.go:233-308)
THEOREM RefusedIsQuiet == AuthSpec => []RejectedDialsNothing
  <1>1. AInv => RejectedDialsNothing
    BY DEF AInv, OnlyAccepted, QuietUntilAsked, RejectedDialsNothing
  <1> QED
    BY <1>1, AuthInvariance, PTL

\* A lazy provider that nobody asks for the connection makes none.
\* (provider.go:310-332)
THEOREM LazyIsQuiet == AuthSpec => []QuietUntilAsked
  <1>1. AInv => QuietUntilAsked
    BY DEF AInv
  <1> QED
    BY <1>1, AuthInvariance, PTL

\* The staged Build is attempted once, its failure surfaces in an eager Configure,
\* and its client is kept; no stage of it can leave the callers waiting for each
\* other.  (provider.go:81-133, auth.go:105-136)
THEOREM StagedAttempt ==
  AuthSpec => /\ []OneAttempt /\ []EagerFailsFast /\ []OneAnswer /\ []NoDeadlock
              /\ ClientStays /\ CallsAdvance
  BY BuildRefinement, DialledOnce, FailsFast, SameForAll, DeadlockFree, ClientKept,
     CallsMoveOn DEF ImplementsLazyConnect
=============================================================================
