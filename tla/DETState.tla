------------------------------ MODULE DETState ------------------------------
(***************************************************************************)
(* The run states of a DET session and the table that says which state may *)
(* follow which (CommonDef.h), with the stack operations of class DETState *)
(* (DETState.cpp).  A stack is a sequence whose last element is its top.   *)
(* The prefixes vrs / vrskrs of the source's enumerators are dropped.      *)
(***************************************************************************)
EXTENDS Naturals, Sequences

RunState == {"Create", "Idle", "Run", "Cancel", "Pause", "Finish", "Delete", "None"}

(* Mutant: a cancelled session cannot finish.                              *)
StateTblNoFinish ==
  [ Create |-> {"Idle", "Run", "None"}, Idle |-> {"Run", "Finish", "None"},
    Run |-> {"Pause", "Cancel", "Finish", "None"}, Cancel |-> {"None"},
    Pause |-> {"Run", "Finish", "Cancel", "None"}, Finish |-> {"Delete", "Idle", "None"},
    Delete |-> {"None"}, None |-> {"Create", "None"} ]

(* The rows of StateTbl; the unused columns of a row hold vrsNone, which   *)
(* makes None an acceptable successor of every state.                      *)
StateTbl ==
  [ Create |-> {"Idle", "Run", "None"},
    Idle   |-> {"Run", "Finish", "None"},
    Run    |-> {"Pause", "Cancel", "Finish", "None"},
    Cancel |-> {"Finish", "None"},
    Pause  |-> {"Run", "Finish", "Cancel", "None"},
    Finish |-> {"Delete", "Idle", "None"},
    Delete |-> {"None"},
    None   |-> {"Create", "None"} ]

(* The eRunState a caller of GetStatusEx sees for an internal state.       *)
StateMapTbl ==
  [ Create |-> "Unknown", Idle |-> "Idle", Run |-> "Run", Cancel |-> "Cancel",
    Pause |-> "Pause", Finish |-> "Finish", Delete |-> "Unknown", None |-> "Unknown" ]

EShown == {"Unknown", "Idle", "Run", "Cancel", "Pause", "Finish"}

Top(stack) == stack[Len(stack)]

IsTransitionValid(stack, s) == s \in StateTbl[Top(stack)]

IsValid(stack, s) == Top(stack) = s

RollBackState(stack) == IF stack = <<>> THEN stack ELSE SubSeq(stack, 1, Len(stack) - 1)

GetState(stack) == StateMapTbl[Top(stack)]

(* DETState() pushes None twice and DETAction() then enters Create.        *)
NewStack == <<"None", "None", "Create">>

(* s was entered at some time and has not been rolled back.                *)
Entered(stack, s) == \E i \in 1..Len(stack) : stack[i] = s
=============================================================================
