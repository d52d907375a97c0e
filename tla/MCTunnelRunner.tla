--------------------------- MODULE MCTunnelRunner ---------------------------
(***************************************************************************)
(* Small instances of TunnelRunner for TLC.                                *)
(***************************************************************************)
EXTENDS TunnelRunner, TLC

CONSTANTS w1, w2, t1, t2, d1, d2

(* The watchers of two namespaces that have a ConfigMap of the same name,  *)
(* or of different names.                                                  *)
SameTunnel == [w \in Watchers |-> t1]
OwnTunnel  == [w \in Watchers |-> IF w = w1 THEN t1 ELSE t2]

(* Data is only compared with other Data.                                  *)
DataSymmetry == Permutations(Datas)
=============================================================================
