----------------------------- MODULE MCSSHTunnel ----------------------------
(* A small instance of SSHTunnel for TLC.                                   *)
EXTENDS SSHTunnel

AllResets == Conns \X Sides
=============================================================================
