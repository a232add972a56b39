------------------------------ MODULE MCTunnel ------------------------------
(* Small instances of Tunnel for TLC.                                      *)
EXTENDS Tunnel, TLC

Symmetric == Permutations(Conns)

NoResets  == {}
AllResets == Conns \X Sides
=============================================================================
