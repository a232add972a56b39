--------------------------- MODULE ProviderConfig ---------------------------
(***************************************************************************)
(* What a provider block means: the checks of Configure in                 *)
(* internal/provider/provider.go, and the authentication source and ALPN   *)
(* upgrade modes that internal/auth/auth.go derives from it.               *)
(*                                                                         *)
(* An attribute is "null", "unknown" (it comes from a resource that is not *)
(* applied yet) or its value.  The spellings that the code lowers and      *)
(* trims to one value are one value here.  A definition whose name ends in *)
(* NoProfile or Swapped is a faulty variant of the definition after it.    *)
(***************************************************************************)
CONSTANT Blocks   \* the provider blocks considered

Addresses  == {"unknown", "malformed", "host:port"}
Attributes == {"identity_file_path", "identity_file_data", "use_local_profile",
               "join_method", "join_token", "alpn_conn_upgrade",
               "join_alpn_conn_upgrade", "auth_alpn_conn_upgrade", "eager_connect"}

ASSUME BlocksAssumption ==
  Blocks \subseteq [Attributes \cup {"proxy_address"} -> STRING]

----------------------------------------------------------------------------
(* Reading the attributes.  Only proxy_address is checked for "unknown";   *)
(* any other unknown attribute reads like one that is not set.             *)

ValueString(v) == IF v \in {"null", "unknown"} THEN "" ELSE v
ValueBool(v)   == v = "true"

parseALPNUpgradeMode(v) ==
  CASE v \in {"", "auto"}                        -> "auto"
    [] v \in {"yes", "true", "on", "required"}   -> "yes"
    [] v \in {"no", "false", "off", "never"}     -> "no"
    [] OTHER                                     -> "error"

\* authUpgradeMode and tunnelUpgradeMode, which translate alike.
UpgradeMode(m) == IF m \in {"yes", "no"} THEN m ELSE "auto"

ConfigSwapped(b) ==
  LET mode(a) == UpgradeMode(parseALPNUpgradeMode(ValueString(b[a])))
  IN [path    |-> ValueString(b["identity_file_path"]),
      data    |-> ValueString(b["identity_file_data"]),
      profile |-> ValueBool(b["use_local_profile"]),
      method  |-> ValueString(b["join_method"]),
      token   |-> ValueString(b["join_token"]),
      join    |-> mode("auth_alpn_conn_upgrade"),
      auth    |-> mode("join_alpn_conn_upgrade"),
      tunnel  |-> mode("alpn_conn_upgrade")]

\* auth.Config, and the mode that ProviderData keeps for tunnels.
Config(b) ==
  LET mode(a) == UpgradeMode(parseALPNUpgradeMode(ValueString(b[a])))
  IN [path    |-> ValueString(b["identity_file_path"]),
      data    |-> ValueString(b["identity_file_data"]),
      profile |-> ValueBool(b["use_local_profile"]),
      method  |-> ValueString(b["join_method"]),
      token   |-> ValueString(b["join_token"]),
      join    |-> mode("join_alpn_conn_upgrade"),
      auth    |-> mode("auth_alpn_conn_upgrade"),
      tunnel  |-> mode("alpn_conn_upgrade")]

----------------------------------------------------------------------------
(* Config.Validate and the switch of Config.credentials.                   *)

Sources == {"identity_file_path", "identity_file_data", "use_local_profile", "join"}

ModesNoProfile(c) ==
  {m \in Sources \ {"use_local_profile"} :
     \/ m = "identity_file_path" /\ c.path # ""
     \/ m = "identity_file_data" /\ c.data # ""
     \/ m = "join" /\ (c.method # "" \/ c.token # "")}

Modes(c) ==
  {m \in Sources :
     \/ m = "identity_file_path" /\ c.path # ""
     \/ m = "identity_file_data" /\ c.data # ""
     \/ m = "use_local_profile" /\ c.profile
     \/ m = "join" /\ (c.method # "" \/ c.token # "")}

Validate(c) ==
  /\ \E m \in Sources : Modes(c) = {m}
  /\ c.method # "" <=> c.token # ""

\* The source of a valid configuration: the first that is set.
Source(c) ==
  IF c.profile THEN "use_local_profile"
  ELSE IF c.path # "" THEN "identity_file_path"
  ELSE IF c.data # "" THEN "identity_file_data"
  ELSE "join"

\* Configure goes on to hand out a ProviderData.
Accepted(b) ==
  /\ b["proxy_address"] = "host:port"
  /\ \A a \in {"alpn_conn_upgrade", "join_alpn_conn_upgrade", "auth_alpn_conn_upgrade"} :
       parseALPNUpgradeMode(ValueString(b[a])) # "error"
  /\ Validate(Config(b))

----------------------------------------------------------------------------
(* Dialling and joining.                                                   *)

\* The outcomes of Config.resolveALPNUpgrade: in auto mode the proxy is probed.
resolveALPNUpgrade(mode) ==
  CASE mode = "yes" -> {TRUE} [] mode = "no" -> {FALSE} [] OTHER -> BOOLEAN

\* The join methods with a fetcher of identity tokens.
fetchers == {"github", "gitlab", "kubernetes", "spacelift"}
=============================================================================
