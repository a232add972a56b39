------------------------------- MODULE MCLookup -----------------------------
(* A small instance of Lookup for TLC.                                     *)
EXTENDS Lookup

CONSTANTS orders, users, prod, blue, pg, my, nodb

\* orders has a replica with another protocol and one with fewer labels.
MCHeartbeats ==
  { [name |-> orders, labels |-> {prod, blue}, protocol |-> pg],
    [name |-> orders, labels |-> {prod, blue}, protocol |-> my],
    [name |-> orders, labels |-> {prod},       protocol |-> my],
    [name |-> users,  labels |-> {prod},       protocol |-> pg] }

MCListings == UNION {[1..n -> MCHeartbeats \cup {nodb}] : n \in 0..3}
=============================================================================
