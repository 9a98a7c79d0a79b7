--------------------------- MODULE StreamContract ---------------------------
(***************************************************************************)
(* What a streamed transfer (S3Write) promises its caller: blocks arrive   *)
(* one after the other, then the call returns with one outcome, and        *)
(* nothing arrives afterwards.  Success means that every block is there.   *)
(* A transfer that could not start delivers nothing; its caller cannot     *)
(* tell it from success, so the contract names it.                         *)
(***************************************************************************)
EXTENDS Naturals

CONSTANTS NumBlocks   \* blocks of the file

VARIABLES delivered,  \* blocks that arrived
          outcome     \* how the call returned

vars == <<delivered, outcome>>

Init == delivered = 0 /\ outcome = "pending"

Deliver == /\ outcome = "pending"
           /\ delivered < NumBlocks
           /\ delivered' = delivered + 1
           /\ UNCHANGED outcome

Return(o) == /\ outcome = "pending"
             /\ outcome' = o
             /\ UNCHANGED delivered

Succeed == delivered = NumBlocks /\ Return("success")

NotStarted == delivered = 0 /\ Return("unstarted")

Fail == Return("error")

Next == Deliver \/ Succeed \/ NotStarted \/ Fail

Spec == Init /\ [][Next]_vars
=============================================================================
