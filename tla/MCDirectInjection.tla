-------------------------- MODULE MCDirectInjection --------------------------
(* A small instance of DirectInjection for TLC.                            *)
EXTENDS DirectInjection, TLC
CONSTANTS u1, u2, w1, w2, w3
=============================================================================
