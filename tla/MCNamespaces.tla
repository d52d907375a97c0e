---------------------------- MODULE MCNamespaces ----------------------------
(***************************************************************************)
(* Small instances of Namespaces for TLC.                                  *)
(***************************************************************************)
EXTENDS Namespaces

CONSTANTS n1, n2

OneNs == {n1}
TwoNs == {n1, n2}
=============================================================================
