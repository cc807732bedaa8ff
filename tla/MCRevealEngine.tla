---------------------------- MODULE MCRevealEngine ----------------------------
(* Small instances of the reveal engine for TLC: MCRevealEngine*.cfg.        *)
EXTENDS RevealEngine
=============================================================================
