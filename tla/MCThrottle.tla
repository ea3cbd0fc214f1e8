----------------------------- MODULE MCThrottle -----------------------------
(* Two threads of two jobs; the retries of the first can be turned off.      *)
EXTENDS Throttle, TLC

CONSTANTS t1, t2
=============================================================================
