------------------------------ MODULE MCThrottle ------------------------------
(* Two requests to a host with a limit, and a second host that keeps the     *)
(* timer alive.                                                              *)
EXTENDS Throttle

CONSTANTS h1, h2

Hosts == {h1, h2}
AllToFirst == [u \in Sender |-> h1]
=============================================================================
