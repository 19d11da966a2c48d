------------------------------ MODULE TaskQueue ------------------------------
(***************************************************************************)
(* What WorkerThread promises its callers: a task handed to AddWork is     *)
(* executed exactly once, after every task handed over before it.  No      *)
(* lock, no condition variable, no batch.                                  *)
(***************************************************************************)
EXTENDS Sequences

CONSTANT Task

VARIABLES pending, done

vars == <<pending, done>>

Init ==
    /\ pending = <<>>
    /\ done = <<>>

Submit(t) ==
    /\ pending' = Append(pending, t)
    /\ UNCHANGED done

Execute ==
    /\ pending # <<>>
    /\ done' = Append(done, Head(pending))
    /\ pending' = Tail(pending)

Next == Execute \/ \E t \in Task : Submit(t)

Spec == Init /\ [][Next]_vars

FairSpec == Spec /\ WF_vars(Execute)
==============================================================================
