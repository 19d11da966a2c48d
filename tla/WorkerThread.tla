----------------------------- MODULE WorkerThread ----------------------------
(***************************************************************************)
(* platform/worker_thread.h: the single background thread that runs the    *)
(* daemon's SurfaceFlinger commands and configuration reloads.             *)
(*                                                                         *)
(* Any number of threads call AddWork, which holds mtx_ while it appends   *)
(* and notifies.  The worker waits on cv_ while tasks_ is empty, copies    *)
(* tasks_ into runTasks, clears it, and runs the copy with the lock        *)
(* released.  One action per step another thread can observe.              *)
(***************************************************************************)
EXTENDS Naturals, Sequences

CONSTANTS
    Producers,   \* the threads that call AddWork
    MaxWork,     \* bound: how many tasks each of them adds
    Worker, Free \* holders of mtx_: the worker thread, and nobody

ASSUME WorkAssumption ==
    /\ MaxWork \in Nat
    /\ Worker \notin Producers
    /\ Free \notin Producers \cup {Worker}

VARIABLES
    mtx,       \* mtx_: who holds it
    tasks,     \* tasks_
    runTasks,  \* the worker's local copy, the part it has not run yet
    wpc,       \* where the worker is in Main_
    ppc,       \* where each producer is in AddWork
    count,     \* how many calls of AddWork each producer has begun
    added,     \* history: the tasks emplaced, in order
    done       \* history: the tasks run, in order

vars == <<mtx, tasks, runTasks, wpc, ppc, count, added, done>>

Task == Producers \X (1..MaxWork)

ProducerPC == {"idle", "lock", "emplace", "notify", "unlock"}
WorkerPC == {"lock", "test", "waiting", "relock", "copy", "clear", "unlock", "run"}

Init ==
    /\ mtx = Free
    /\ tasks = <<>>
    /\ runTasks = <<>>
    /\ wpc = "lock"
    /\ ppc = [p \in Producers |-> "idle"]
    /\ count = [p \in Producers |-> 0]
    /\ added = <<>>
    /\ done = <<>>

------------------------------------------------------------------------------
(* AddWork *)

CallAddWork(p) ==
    /\ ppc[p] = "idle"
    /\ count[p] < MaxWork
    /\ count' = [count EXCEPT ![p] = @ + 1]
    /\ ppc' = [ppc EXCEPT ![p] = "lock"]
    /\ UNCHANGED <<mtx, tasks, runTasks, wpc, added, done>>

LockAddWork(p) ==
    /\ ppc[p] = "lock"
    /\ mtx = Free
    /\ mtx' = p
    /\ ppc' = [ppc EXCEPT ![p] = "emplace"]
    /\ UNCHANGED <<tasks, runTasks, wpc, count, added, done>>

Emplace(p) ==
    /\ ppc[p] = "emplace"
    /\ tasks' = Append(tasks, <<p, count[p]>>)
    /\ added' = Append(added, <<p, count[p]>>)
    /\ ppc' = [ppc EXCEPT ![p] = "notify"]
    /\ UNCHANGED <<mtx, runTasks, wpc, count, done>>

\* Mutant: notify_all is forgotten.
NoNotify(p) ==
    /\ ppc[p] = "notify"
    /\ ppc' = [ppc EXCEPT ![p] = "unlock"]
    /\ UNCHANGED <<mtx, tasks, runTasks, wpc, count, added, done>>

\* A notification reaches only a thread already blocked in wait.
NotifyAll(p) ==
    /\ ppc[p] = "notify"
    /\ wpc' = IF wpc = "waiting" THEN "relock" ELSE wpc
    /\ ppc' = [ppc EXCEPT ![p] = "unlock"]
    /\ UNCHANGED <<mtx, tasks, runTasks, count, added, done>>

UnlockAddWork(p) ==
    /\ ppc[p] = "unlock"
    /\ mtx' = Free
    /\ ppc' = [ppc EXCEPT ![p] = "idle"]
    /\ UNCHANGED <<tasks, runTasks, wpc, count, added, done>>

------------------------------------------------------------------------------
(* Main_ *)

LockMain ==
    /\ wpc \in {"lock", "relock"}
    /\ mtx = Free
    /\ mtx' = Worker
    /\ wpc' = "test"
    /\ UNCHANGED <<tasks, runTasks, ppc, count, added, done>>

TestTasks ==
    /\ wpc = "test"
    /\ IF tasks = <<>>
         THEN wpc' = "waiting" /\ mtx' = Free   \* cv_.wait(lck) releases mtx_
         ELSE wpc' = "copy" /\ UNCHANGED mtx
    /\ UNCHANGED <<tasks, runTasks, ppc, count, added, done>>

\* condition_variable::wait may return without a notification.
SpuriousWakeup ==
    /\ wpc = "waiting"
    /\ wpc' = "relock"
    /\ UNCHANGED <<mtx, tasks, runTasks, ppc, count, added, done>>

\* Mutant: the lock covers the copy but not the clear.
CopyAndUnlock ==
    /\ wpc = "copy"
    /\ runTasks' = tasks
    /\ mtx' = Free
    /\ wpc' = "clear"
    /\ UNCHANGED <<tasks, ppc, count, added, done>>

CopyTasks ==
    /\ wpc = "copy"
    /\ runTasks' = tasks
    /\ wpc' = "clear"
    /\ UNCHANGED <<mtx, tasks, ppc, count, added, done>>

\* Mutant: tasks_ is never cleared, so each batch runs again.
ClearNothing ==
    /\ wpc = "clear"
    /\ wpc' = "unlock"
    /\ UNCHANGED <<mtx, tasks, runTasks, ppc, count, added, done>>

ClearTasks ==
    /\ wpc = "clear"
    /\ tasks' = <<>>
    /\ wpc' = "unlock"
    /\ UNCHANGED <<mtx, runTasks, ppc, count, added, done>>

UnlockMain ==
    /\ wpc = "unlock"
    /\ mtx' = Free
    /\ wpc' = "run"
    /\ UNCHANGED <<tasks, runTasks, ppc, count, added, done>>

\* The for loop over runTasks: one task, or the end of the loop.
RunTask ==
    /\ wpc = "run"
    /\ runTasks # <<>>
    /\ done' = Append(done, Head(runTasks))
    /\ runTasks' = Tail(runTasks)
    /\ UNCHANGED <<mtx, tasks, wpc, ppc, count, added>>

EndBatch ==
    /\ wpc = "run"
    /\ runTasks = <<>>
    /\ wpc' = "lock"
    /\ UNCHANGED <<mtx, tasks, runTasks, ppc, count, added, done>>

------------------------------------------------------------------------------
AddWork(p) ==
    \/ LockAddWork(p) \/ Emplace(p) \/ NotifyAll(p) \/ UnlockAddWork(p)

Main ==
    \/ LockMain \/ TestTasks \/ CopyTasks \/ ClearTasks \/ UnlockMain
    \/ RunTask \/ EndBatch

Next ==
    \/ \E p \in Producers : CallAddWork(p) \/ AddWork(p)
    \/ Main
    \/ SpuriousWakeup

Spec == Init /\ [][Next]_vars

\* A thread that can run is run, and a thread blocked on mtx_ gets it when it
\* is released again and again (spurious wakeups may repeat for ever).
\* Nobody has to call AddWork, and a spurious wakeup is never owed.
FairSpec ==
    /\ Spec
    /\ WF_vars(Main) /\ SF_vars(LockMain)
    /\ \A p \in Producers : WF_vars(AddWork(p)) /\ SF_vars(LockAddWork(p))

------------------------------------------------------------------------------
TypeOK ==
    /\ mtx \in Producers \cup {Worker, Free}
    /\ tasks \in Seq(Task)
    /\ runTasks \in Seq(Task)
    /\ wpc \in WorkerPC
    /\ ppc \in [Producers -> ProducerPC]
    /\ count \in [Producers -> 0..MaxWork]
    /\ added \in Seq(Task)
    /\ done \in Seq(Task)

\* The tasks accepted and not yet run, in the order they will run.  Between
\* the copy and the clear both vectors hold the same batch.
Pending == IF wpc = "clear" THEN runTasks ELSE runTasks \o tasks

\* Every task emplaced by AddWork is run exactly once and in the order of
\* the emplace_back calls: nothing is dropped or repeated by copying tasks_
\* and clearing it, whatever AddWork calls fall in between.
ExactlyOnce == done \o Pending = added

\* The worker never sleeps on cv_ with work in tasks_, unless the producer
\* that put it there still holds mtx_ and is about to notify.
NoLostWakeup ==
    wpc = "waiting" /\ tasks # <<>> => \E p \in Producers : ppc[p] = "notify"

\* WorkerThread implements the abstract queue: in every step it takes one
\* task in at the end, runs the first one, or changes nothing its callers see.
Queue == INSTANCE TaskQueue WITH pending <- Pending
ImplementsQueue == Queue!Spec

\* ... and it inherits the queue's promise that a pending task is executed.
ImplementsFairQueue == Queue!FairSpec
==============================================================================
