-------------------------- MODULE MCCircuitBreaker --------------------------
(* Instances of CircuitBreaker for TLC.                                     *)
EXTENDS CircuitBreaker

CONSTANTS ok, bad

\* The default, and one expected status.
NoneOrOk == {{}, {ok}}
=============================================================================
