---------------------------- MODULE MCSessionPool ----------------------------
(***************************************************************************)
(* Two threads, two places, three keys and two changes of the settings.     *)
(***************************************************************************)
EXTENDS SessionPool

CONSTANTS t1, t2, k1, k2, k3, here, there

MCUser == {t1, t2}
MCKey == {k1, k2, k3}
MCPlace == {here, there}
=============================================================================
