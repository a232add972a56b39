----------------------------- MODULE MCCertIssue ----------------------------
(* A small instance of CertIssue for TLC.                                  *)
EXTENDS CertIssue

CONSTANTS reader, writer, pg, my, root, leaf
=============================================================================
