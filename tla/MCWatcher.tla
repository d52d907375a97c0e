----------------------------- MODULE MCWatcher -----------------------------
(***************************************************************************)
(* Small instances of Watcher for TLC.                                     *)
(***************************************************************************)
EXTENDS Watcher

CONSTANTS u1, u2, early, late

OneUid   == {u1}
TwoUids  == {u1, u2}
Early    == {early}
Both     == {early, late}
=============================================================================
