------------------------------- MODULE WorkBag -------------------------------
(***************************************************************************)
(* What a pool of workers promises the code that gives it work: an item is *)
(* worked on by one worker at a time, until it is done, once; a worker may *)
(* put an item back.  The pool is closed when nobody works, and nobody     *)
(* works on anything afterwards.                                           *)
(***************************************************************************)
CONSTANTS Item

VARIABLES waiting,   \* items given to the pool and taken by no worker
          working,   \* items a worker has
          done,      \* items worked on to the end
          open       \* workers may still take items

vars == <<waiting, working, done, open>>

Init == waiting = {} /\ working = {} /\ done = {} /\ open = TRUE

Give(i) == /\ i \notin waiting \cup working \cup done
           /\ waiting' = waiting \cup {i}
           /\ UNCHANGED <<working, done, open>>

Take(i) == /\ open
           /\ i \in waiting
           /\ waiting' = waiting \ {i}
           /\ working' = working \cup {i}
           /\ UNCHANGED <<done, open>>

Finish(i) == /\ i \in working
             /\ working' = working \ {i}
             /\ done' = done \cup {i}
             /\ UNCHANGED <<waiting, open>>

PutBack(i) == /\ i \in working
              /\ working' = working \ {i}
              /\ waiting' = waiting \cup {i}
              /\ UNCHANGED <<done, open>>

Close == /\ open
         /\ working = {}
         /\ open' = FALSE
         /\ UNCHANGED <<waiting, working, done>>

Next == \/ \E i \in Item : Give(i) \/ Take(i) \/ Finish(i) \/ PutBack(i)
        \/ Close

Spec == Init /\ [][Next]_vars
=============================================================================
