---------------------------- MODULE MCDETSession ----------------------------
(***************************************************************************)
(* Instances of DETSession for TLC: which calls the host makes in a run.   *)
(***************************************************************************)
EXTENDS DETSession

AllCalls == {"Action", "Pause", "Resume", "Cancel", "Close"}

(* A host that does what DETBaseEx.h:88 and :92 advise: no Pause, Resume.  *)
PlainCalls == {"Action", "Cancel"}

=============================================================================
