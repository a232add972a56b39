---------------------------- MODULE MCAuthBuild -----------------------------
(***************************************************************************)
(* A small instance of AuthBuild for TLC: every combination of sources     *)
(* with the upgrades on "auto", and every combination of upgrades with a   *)
(* join; n1 opens an SSH tunnel, c1 and c2 a database tunnel.              *)
(***************************************************************************)
EXTENDS AuthBuild

CONSTANTS n1, c1, c2, cfg

MCCallers     == {n1, c1, c2, cfg}
MCNameCallers == {n1}

Block(address, path, data, profile, method, token, alpn, join, auth, connect) ==
  [proxy_address |-> address, identity_file_path |-> path, identity_file_data |-> data,
   use_local_profile |-> profile, join_method |-> method, join_token |-> token,
   alpn_conn_upgrade |-> alpn, join_alpn_conn_upgrade |-> join,
   auth_alpn_conn_upgrade |-> auth, eager_connect |-> connect]

\* Each attribute absent, unknown where that may go unnoticed, or set.
SourceBlocks ==
  {Block("host:port", p, d, l, m, t, "null", "unknown", "auto", e) :
     p \in {"null", "file"}, d \in {"unknown", "pem"},
     l \in {"false", "unknown", "true"}, m \in {"null", "unknown", "github", "iam"},
     t \in {"null", "unknown", "token"}, e \in {"true", "unknown"}}

Modal == {"auto", "yes", "never", "maybe"}

UpgradeBlocks ==
  {Block(x, "null", "null", "null", "gitlab", "token", u, j, v, "false") :
     x \in Addresses, u \in Modal, j \in Modal, v \in Modal}

MCBlocks == SourceBlocks \cup UpgradeBlocks
=============================================================================
