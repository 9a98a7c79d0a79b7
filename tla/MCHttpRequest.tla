---------------------------- MODULE MCHttpRequest -----------------------------
(***************************************************************************)
(* Three requests of a thread, one after the other.                        *)
(***************************************************************************)
EXTENDS HttpRequest
=============================================================================
