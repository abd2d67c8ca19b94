---------------------------- MODULE MCDaemonConn ----------------------------
(* Instances of DaemonConn for TLC. *)
EXTENDS DaemonConn
=============================================================================
