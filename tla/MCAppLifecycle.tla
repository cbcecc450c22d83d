--------------------------- MODULE MCAppLifecycle ---------------------------
(* Small instances of AppLifecycle for TLC. *)
EXTENDS AppLifecycle, TLC

\* Applications are only compared for equality.
AppSymmetry == Permutations(Apps)
=============================================================================
