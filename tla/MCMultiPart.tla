----------------------------- MODULE MCMultiPart -----------------------------
(***************************************************************************)
(* Files of two to three parts, or too small for parts.                    *)
(***************************************************************************)
EXTENDS MultiPart
=============================================================================
