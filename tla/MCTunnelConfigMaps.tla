------------------------- MODULE MCTunnelConfigMaps -------------------------
(***************************************************************************)
(* Small instances of TunnelConfigMaps for TLC.                            *)
(***************************************************************************)
EXTENDS TunnelConfigMaps

CONSTANTS c1, c2, s1, s2, v1, v2

BothKinds == {"service", "ingress"}
SameKind  == [s \in Sources |-> "service"]
OwnKinds  == [s \in Sources |-> IF s = s1 THEN "service" ELSE "ingress"]
=============================================================================
