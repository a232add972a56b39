------------------------ MODULE MCEphemeralTunnels --------------------------
(* Small instances of EphemeralTunnels for TLC: d1 and d2 are database     *)
(* tunnels, s1 is an SSH tunnel.                                           *)
EXTENDS EphemeralTunnels

CONSTANTS d1, d2, s1
=============================================================================
