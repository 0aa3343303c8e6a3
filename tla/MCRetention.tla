---------------------------- MODULE MCRetention ----------------------------
(* Retention for TLC: its constants are given in the cfg.                  *)
EXTENDS Retention
=============================================================================
