----------------------------- MODULE TunnelSpec -----------------------------
(***************************************************************************)
(* What a tunnel promises the resource that opened it: connections are     *)
(* served only between NewTunnel and Close, each at most once, and Close   *)
(* returns only when none is left.                                         *)
(***************************************************************************)
CONSTANT Conns

VARIABLES status,  \* "down", "up", "closing" (Close has begun) or "closed"
          live,    \* connections the tunnel holds resources for
          served   \* connections it has ever served

vars == <<status, live, served>>

Init == status = "down" /\ live = {} /\ served = {}

Start == status = "down" /\ status' = "up" /\ UNCHANGED <<live, served>>

Serve(c) ==
  /\ status = "up"
  /\ c \notin served
  /\ live' = live \cup {c}
  /\ served' = served \cup {c}
  /\ UNCHANGED status

Release(c) ==
  /\ c \in live
  /\ live' = live \ {c}
  /\ UNCHANGED <<status, served>>

BeginClose == status = "up" /\ status' = "closing" /\ UNCHANGED <<live, served>>

Finish ==
  /\ status = "closing"
  /\ live = {}
  /\ status' = "closed"
  /\ UNCHANGED <<live, served>>

Next ==
  \/ Start \/ BeginClose \/ Finish
  \/ \E c \in Conns : Serve(c) \/ Release(c)

Spec == Init /\ [][Next]_vars

\* Once Close has begun it ends, and takes every connection with it.
Fairness ==
  /\ WF_vars(Finish)
  /\ \A c \in Conns : WF_vars(status = "closing" /\ Release(c))

FairSpec == Spec /\ Fairness

----------------------------------------------------------------------------
(* What follows from the promise (proved in TunnelRefinement, for Tunnel   *)
(* and SSHTunnel, which keep it).                                          *)

\* A tunnel that is closed holds nothing, and holds nothing it did not serve.
HoldsWhatItServes == live \subseteq served /\ (status = "closed" => live = {})

\* Once Close has begun no further connection is served, and one that was released
\* is not served again.
ServesOnlyWhileUp ==
  [][/\ status # "up" => served' = served
     /\ \A c \in Conns : c \in served \ live => c \notin live']_vars

\* A closed tunnel does nothing any more.
ClosedForGood == [][status = "closed" => UNCHANGED vars]_vars
=============================================================================
