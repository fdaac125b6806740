------------------------------ MODULE MCDaemon ------------------------------
(* Instances of Hosting for TLC: a daemon with two launches, a service that    *)
(* may crash once.                                                            *)
EXTENDS Hosting
=============================================================================
