------------------------- MODULE WorkerThread_proofs -------------------------
(***************************************************************************)
(* Proofs about WorkerThread, for any set of producers and any MaxWork.    *)
(*                                                                         *)
(* ExactlyOnce is not inductive: it needs to know that the vectors are     *)
(* touched only under mtx_ (LockInv) and that runTasks is empty when the   *)
(* worker copies into it (BatchInv).                                       *)
(***************************************************************************)
EXTENDS WorkerThread, SequenceTheorems, TLAPS

\* mtx_ names the one thread that is between its lock and its unlock.
LockInv ==
    /\ \A p \in Producers :
           ppc[p] \in {"emplace", "notify", "unlock"} <=> mtx = p
    /\ wpc \in {"test", "copy", "clear", "unlock"} <=> mtx = Worker

\* What the worker's local copy and tasks_ hold at each of its steps.
BatchInv ==
    /\ wpc \in {"lock", "relock", "test", "waiting", "copy"} => runTasks = <<>>
    /\ wpc = "clear" => runTasks = tasks
    /\ wpc = "unlock" => tasks = <<>>

\* A call in progress has been counted.
CountInv == \A p \in Producers : ppc[p] # "idle" => count[p] > 0

IInv == TypeOK /\ LockInv /\ BatchInv /\ CountInv

------------------------------------------------------------------------------
(* The sequence facts the steps rest on. *)

\* What emplace_back adds to the end of tasks_ stands at the end of all work.
LEMMA EmplaceExtends ==
    ASSUME NEW S, NEW a \in Seq(S), NEW b \in Seq(S), NEW e \in S
    PROVE  a \o Append(b, e) = Append(a \o b, e)
  OBVIOUS

\* Running the head of the batch moves it from what is pending to what is done.
LEMMA RunMovesHead ==
    ASSUME NEW S, NEW d \in Seq(S), NEW r \in Seq(S), NEW t \in Seq(S), r # <<>>
    PROVE  Append(d, Head(r)) \o (Tail(r) \o t) = d \o (r \o t)
  OBVIOUS

\* The head of the batch is the head of everything pending.
LEMMA RunTakesHead ==
    ASSUME NEW S, NEW r \in Seq(S), NEW t \in Seq(S), r # <<>>
    PROVE  /\ Head(r \o t) = Head(r)
           /\ Tail(r \o t) = Tail(r) \o t
           /\ r \o t # <<>>
  OBVIOUS

\* An empty batch adds nothing to what is pending.
LEMMA EmptyConcat ==
    ASSUME NEW S, NEW s \in Seq(S)
    PROVE  <<>> \o s = s /\ s \o <<>> = s
  OBVIOUS
------------------------------------------------------------------------------
(* The inductive invariant, one conjunct at a time. *)

\* The thread starts with nothing queued and no lock held.
LEMMA InitIInv == Init => IInv
  BY WorkAssumption DEF Init, IInv, TypeOK, LockInv, BatchInv, CountInv, Task,
     ProducerPC, WorkerPC

\* An AddWork at its emplace_back has the lock, and a task to add.
LEMMA EmplaceHasLock ==
    ASSUME IInv, NEW p \in Producers, Emplace(p)
    PROVE  <<p, count[p]>> \in Task /\ wpc # "clear" /\ wpc' # "clear"
  <1>0. count[p] \in 0..MaxWork /\ count[p] > 0
    BY DEF IInv, TypeOK, CountInv, Emplace
  <1>1. count[p] \in 1..MaxWork
    BY <1>0, WorkAssumption
  <1>2. mtx = p /\ wpc # "clear"
    BY WorkAssumption DEF IInv, LockInv, Emplace
  <1> QED
    BY <1>1, <1>2 DEF Task, Emplace

\* No step of a producer or of the worker breaks the types.
LEMMA NextTypeOK == IInv /\ [Next]_vars => TypeOK'
  <1> SUFFICES ASSUME IInv, [Next]_vars PROVE TypeOK'
    OBVIOUS
  <1> USE DEF IInv, TypeOK, ProducerPC, WorkerPC
  <1>1. ASSUME NEW p \in Producers, CallAddWork(p) PROVE TypeOK'
    BY <1>1, WorkAssumption DEF CallAddWork
  <1>2. ASSUME NEW p \in Producers, LockAddWork(p) PROVE TypeOK'
    BY <1>2, WorkAssumption DEF LockAddWork
  <1>3. ASSUME NEW p \in Producers, Emplace(p) PROVE TypeOK'
    BY <1>3, WorkAssumption, EmplaceHasLock, AppendProperties DEF Emplace
  <1>4. ASSUME NEW p \in Producers, NotifyAll(p) PROVE TypeOK'
    BY <1>4, WorkAssumption DEF NotifyAll
  <1>5. ASSUME NEW p \in Producers, UnlockAddWork(p) PROVE TypeOK'
    BY <1>5, WorkAssumption DEF UnlockAddWork
  <1>6. CASE LockMain
    BY <1>6, WorkAssumption DEF LockMain
  <1>7. CASE TestTasks
    BY <1>7, WorkAssumption DEF TestTasks
  <1>8. CASE CopyTasks
    BY <1>8, WorkAssumption DEF CopyTasks
  <1>9. CASE ClearTasks
    BY <1>9, WorkAssumption DEF ClearTasks
  <1>10. CASE UnlockMain
    BY <1>10, WorkAssumption DEF UnlockMain
  <1>11. CASE RunTask
    BY <1>11, WorkAssumption DEF RunTask
  <1>12. CASE EndBatch
    BY <1>12, WorkAssumption DEF EndBatch
  <1>13. CASE SpuriousWakeup
    BY <1>13, WorkAssumption DEF SpuriousWakeup
  <1>14. CASE UNCHANGED vars
    BY <1>14 DEF vars
  <1> QED
    BY <1>1, <1>2, <1>3, <1>4, <1>5, <1>6, <1>7,
       <1>8, <1>9, <1>10, <1>11, <1>12, <1>13, <1>14
       DEF Next, AddWork, Main

\* No step lets a thread into a critical section it has not locked.
LEMMA NextLockInv == TypeOK /\ LockInv /\ [Next]_vars => LockInv'
  <1> SUFFICES ASSUME TypeOK, LockInv, [Next]_vars PROVE LockInv'
    OBVIOUS
  <1> USE DEF TypeOK, LockInv, ProducerPC, WorkerPC
  <1>1. ASSUME NEW p \in Producers, CallAddWork(p) PROVE LockInv'
    BY <1>1, WorkAssumption DEF CallAddWork
  <1>2. ASSUME NEW p \in Producers, LockAddWork(p) PROVE LockInv'
    BY <1>2, WorkAssumption DEF LockAddWork
  <1>3. ASSUME NEW p \in Producers, Emplace(p) PROVE LockInv'
    BY <1>3, WorkAssumption DEF Emplace
  <1>4. ASSUME NEW p \in Producers, NotifyAll(p) PROVE LockInv'
    BY <1>4, WorkAssumption DEF NotifyAll
  <1>5. ASSUME NEW p \in Producers, UnlockAddWork(p) PROVE LockInv'
    BY <1>5, WorkAssumption DEF UnlockAddWork
  <1>6. CASE LockMain
    BY <1>6, WorkAssumption DEF LockMain
  <1>7. CASE TestTasks
    BY <1>7, WorkAssumption DEF TestTasks
  <1>8. CASE CopyTasks
    BY <1>8, WorkAssumption DEF CopyTasks
  <1>9. CASE ClearTasks
    BY <1>9, WorkAssumption DEF ClearTasks
  <1>10. CASE UnlockMain
    BY <1>10, WorkAssumption DEF UnlockMain
  <1>11. CASE RunTask
    BY <1>11, WorkAssumption DEF RunTask
  <1>12. CASE EndBatch
    BY <1>12, WorkAssumption DEF EndBatch
  <1>13. CASE SpuriousWakeup
    BY <1>13, WorkAssumption DEF SpuriousWakeup
  <1>14. CASE UNCHANGED vars
    BY <1>14 DEF vars
  <1> QED
    BY <1>1, <1>2, <1>3, <1>4, <1>5, <1>6, <1>7,
       <1>8, <1>9, <1>10, <1>11, <1>12, <1>13, <1>14
       DEF Next, AddWork, Main

\* Each step leaves runTasks and tasks_ as the next step of Main_ expects.
LEMMA NextBatchInv == IInv /\ [Next]_vars => BatchInv'
  <1> SUFFICES ASSUME IInv, [Next]_vars PROVE BatchInv'
    OBVIOUS
  <1> USE DEF IInv, TypeOK, LockInv, BatchInv
  <1>1. ASSUME NEW p \in Producers, CallAddWork(p) PROVE BatchInv'
    BY <1>1, WorkAssumption DEF CallAddWork
  <1>2. ASSUME NEW p \in Producers, LockAddWork(p) PROVE BatchInv'
    BY <1>2, WorkAssumption DEF LockAddWork
  <1>3. ASSUME NEW p \in Producers, Emplace(p) PROVE BatchInv'
    BY <1>3, WorkAssumption DEF Emplace
  <1>4. ASSUME NEW p \in Producers, NotifyAll(p) PROVE BatchInv'
    BY <1>4, WorkAssumption DEF NotifyAll
  <1>5. ASSUME NEW p \in Producers, UnlockAddWork(p) PROVE BatchInv'
    BY <1>5, WorkAssumption DEF UnlockAddWork
  <1>6. CASE LockMain
    BY <1>6, WorkAssumption DEF LockMain
  <1>7. CASE TestTasks
    BY <1>7, WorkAssumption DEF TestTasks
  <1>8. CASE CopyTasks
    BY <1>8, WorkAssumption DEF CopyTasks
  <1>9. CASE ClearTasks
    BY <1>9, WorkAssumption DEF ClearTasks
  <1>10. CASE UnlockMain
    BY <1>10, WorkAssumption DEF UnlockMain
  <1>11. CASE RunTask
    BY <1>11, WorkAssumption DEF RunTask
  <1>12. CASE EndBatch
    BY <1>12, WorkAssumption DEF EndBatch
  <1>13. CASE SpuriousWakeup
    BY <1>13, WorkAssumption DEF SpuriousWakeup
  <1>14. CASE UNCHANGED vars
    BY <1>14 DEF vars
  <1> QED
    BY <1>1, <1>2, <1>3, <1>4, <1>5, <1>6, <1>7,
       <1>8, <1>9, <1>10, <1>11, <1>12, <1>13, <1>14
       DEF Next, AddWork, Main

\* A producer counts its task when the call begins.
LEMMA NextCountInv == TypeOK /\ CountInv /\ [Next]_vars => CountInv'
  <1> SUFFICES ASSUME TypeOK, CountInv, [Next]_vars PROVE CountInv'
    OBVIOUS
  <1> USE DEF TypeOK, CountInv
  <1>1. ASSUME NEW p \in Producers, CallAddWork(p) PROVE CountInv'
    BY <1>1, WorkAssumption DEF CallAddWork
  <1>2. ASSUME NEW p \in Producers, LockAddWork(p) PROVE CountInv'
    BY <1>2, WorkAssumption DEF LockAddWork
  <1>3. ASSUME NEW p \in Producers, Emplace(p) PROVE CountInv'
    BY <1>3, WorkAssumption DEF Emplace
  <1>4. ASSUME NEW p \in Producers, NotifyAll(p) PROVE CountInv'
    BY <1>4, WorkAssumption DEF NotifyAll
  <1>5. ASSUME NEW p \in Producers, UnlockAddWork(p) PROVE CountInv'
    BY <1>5, WorkAssumption DEF UnlockAddWork
  <1>6. CASE LockMain
    BY <1>6, WorkAssumption DEF LockMain
  <1>7. CASE TestTasks
    BY <1>7, WorkAssumption DEF TestTasks
  <1>8. CASE CopyTasks
    BY <1>8, WorkAssumption DEF CopyTasks
  <1>9. CASE ClearTasks
    BY <1>9, WorkAssumption DEF ClearTasks
  <1>10. CASE UnlockMain
    BY <1>10, WorkAssumption DEF UnlockMain
  <1>11. CASE RunTask
    BY <1>11, WorkAssumption DEF RunTask
  <1>12. CASE EndBatch
    BY <1>12, WorkAssumption DEF EndBatch
  <1>13. CASE SpuriousWakeup
    BY <1>13, WorkAssumption DEF SpuriousWakeup
  <1>14. CASE UNCHANGED vars
    BY <1>14 DEF vars
  <1> QED
    BY <1>1, <1>2, <1>3, <1>4, <1>5, <1>6, <1>7,
       <1>8, <1>9, <1>10, <1>11, <1>12, <1>13, <1>14
       DEF Next, AddWork, Main

\* The invariant holds throughout.
LEMMA Inductive == Spec => []IInv
  <1>1. IInv /\ [Next]_vars => IInv'
    BY NextTypeOK, NextLockInv, NextBatchInv, NextCountInv DEF IInv
  <1> QED
    BY InitIInv, <1>1, PTL DEF Spec

\* The variables of WorkerThread keep the values its code gives them, whatever
\* the interleaving of AddWork calls with Main_.
THEOREM TypeCorrect == Spec => []TypeOK
  BY Inductive, PTL DEF IInv

------------------------------------------------------------------------------
(* Nothing is lost, repeated or reordered. *)

\* An emplaced task comes last in the order of execution.
LEMMA EmplaceKeepsOrder ==
    ASSUME TypeOK, NEW e \in Task
    PROVE  done \o (runTasks \o Append(tasks, e))
             = Append(done \o (runTasks \o tasks), e)
  <1> tasks \in Seq(Task) /\ runTasks \in Seq(Task) /\ done \in Seq(Task)
    BY DEF TypeOK
  <1> QED
    OBVIOUS

\* Running a task does not change the order of execution.
LEMMA RunKeepsOrder ==
    ASSUME TypeOK, runTasks # <<>>
    PROVE  Append(done, Head(runTasks)) \o (Tail(runTasks) \o tasks)
             = done \o (runTasks \o tasks)
  <1> tasks \in Seq(Task) /\ runTasks \in Seq(Task) /\ done \in Seq(Task)
    BY DEF TypeOK
  <1> QED
    BY RunMovesHead

\* Only Emplace extends that order, by the task it adds.
LEMMA NextExactlyOnce ==
    IInv /\ ExactlyOnce /\ [Next]_vars => ExactlyOnce'
  <1> SUFFICES ASSUME IInv, ExactlyOnce, [Next]_vars PROVE ExactlyOnce'
    OBVIOUS
  <1>0. /\ {tasks, runTasks, done, added} \subseteq Seq(Task)
        /\ Producers \cap {Worker, Free} = {}
    BY WorkAssumption DEF IInv, TypeOK
  <1> USE <1>0 DEF IInv, LockInv, BatchInv, ExactlyOnce, Pending
  <1>1. ASSUME NEW p \in Producers, CallAddWork(p) PROVE ExactlyOnce'
    BY <1>1, WorkAssumption DEF CallAddWork
  <1>2. ASSUME NEW p \in Producers, LockAddWork(p) PROVE ExactlyOnce'
    BY <1>2, WorkAssumption DEF LockAddWork
  <1>3. ASSUME NEW p \in Producers, Emplace(p) PROVE ExactlyOnce'
    <2>1. <<p, count[p]>> \in Task /\ wpc # "clear" /\ wpc' # "clear"
      BY <1>3, EmplaceHasLock
    <2>2. done \o (runTasks \o Append(tasks, <<p, count[p]>>))
             = Append(done \o (runTasks \o tasks), <<p, count[p]>>)
      BY <2>1, EmplaceKeepsOrder
    <2> QED
      BY <1>3, <2>1, <2>2 DEF Emplace
  <1>4. ASSUME NEW p \in Producers, NotifyAll(p) PROVE ExactlyOnce'
    BY <1>4, WorkAssumption DEF NotifyAll
  <1>5. ASSUME NEW p \in Producers, UnlockAddWork(p) PROVE ExactlyOnce'
    BY <1>5, WorkAssumption DEF UnlockAddWork
  <1>6. CASE LockMain
    BY <1>6, WorkAssumption DEF LockMain
  <1>7. CASE TestTasks
    BY <1>7, WorkAssumption DEF TestTasks
  <1>8. CASE CopyTasks
    BY <1>8, WorkAssumption, EmptyConcat DEF CopyTasks
  <1>9. CASE ClearTasks
    BY <1>9, WorkAssumption, EmptyConcat DEF ClearTasks
  <1>10. CASE UnlockMain
    BY <1>10, WorkAssumption DEF UnlockMain
  <1>11. CASE RunTask
    <2>1. runTasks # <<>> /\ wpc # "clear" /\ wpc' # "clear"
      BY <1>11 DEF RunTask
    <2>2. Append(done, Head(runTasks)) \o (Tail(runTasks) \o tasks)
             = done \o (runTasks \o tasks)
      BY <2>1, RunKeepsOrder
    <2> QED
      BY <1>11, <2>1, <2>2 DEF RunTask
  <1>12. CASE EndBatch
    BY <1>12, WorkAssumption DEF EndBatch
  <1>13. CASE SpuriousWakeup
    BY <1>13, WorkAssumption DEF SpuriousWakeup
  <1>14. CASE UNCHANGED vars
    BY <1>14 DEF vars
  <1> QED
    BY <1>1, <1>2, <1>3, <1>4, <1>5, <1>6, <1>7,
       <1>8, <1>9, <1>10, <1>11, <1>12, <1>13, <1>14
       DEF Next, AddWork, Main

\* Every task AddWork accepts is run exactly once and in the order accepted,
\* for any number of producers and calls.
THEOREM RunsExactlyOnce == Spec => []ExactlyOnce
  <1>1. Init => ExactlyOnce
    BY EmptyConcat DEF Init, ExactlyOnce, Pending
  <1> QED
    BY <1>1, Inductive, NextExactlyOnce, PTL DEF Spec

------------------------------------------------------------------------------
(* The worker never sleeps on a task. *)

\* A task is emplaced by a producer that has yet to notify, and the worker
\* waits only having seen tasks_ empty under the mutex.
LEMMA NextNoLostWakeup ==
    IInv /\ NoLostWakeup /\ [Next]_vars => NoLostWakeup'
  <1> SUFFICES ASSUME IInv, NoLostWakeup, [Next]_vars PROVE NoLostWakeup'
    OBVIOUS
  <1> USE DEF IInv, TypeOK, LockInv, NoLostWakeup
  <1>1. ASSUME NEW p \in Producers, CallAddWork(p) PROVE NoLostWakeup'
    BY <1>1, WorkAssumption DEF CallAddWork
  <1>2. ASSUME NEW p \in Producers, LockAddWork(p) PROVE NoLostWakeup'
    BY <1>2, WorkAssumption DEF LockAddWork
  <1>3. ASSUME NEW p \in Producers, Emplace(p) PROVE NoLostWakeup'
    BY <1>3, WorkAssumption DEF Emplace
  <1>4. ASSUME NEW p \in Producers, NotifyAll(p) PROVE NoLostWakeup'
    BY <1>4, WorkAssumption DEF NotifyAll
  <1>5. ASSUME NEW p \in Producers, UnlockAddWork(p) PROVE NoLostWakeup'
    BY <1>5, WorkAssumption DEF UnlockAddWork
  <1>6. CASE LockMain
    BY <1>6, WorkAssumption DEF LockMain
  <1>7. CASE TestTasks
    BY <1>7, WorkAssumption DEF TestTasks
  <1>8. CASE CopyTasks
    BY <1>8, WorkAssumption DEF CopyTasks
  <1>9. CASE ClearTasks
    BY <1>9, WorkAssumption DEF ClearTasks
  <1>10. CASE UnlockMain
    BY <1>10, WorkAssumption DEF UnlockMain
  <1>11. CASE RunTask
    BY <1>11, WorkAssumption DEF RunTask
  <1>12. CASE EndBatch
    BY <1>12, WorkAssumption DEF EndBatch
  <1>13. CASE SpuriousWakeup
    BY <1>13, WorkAssumption DEF SpuriousWakeup
  <1>14. CASE UNCHANGED vars
    BY <1>14 DEF vars
  <1> QED
    BY <1>1, <1>2, <1>3, <1>4, <1>5, <1>6, <1>7,
       <1>8, <1>9, <1>10, <1>11, <1>12, <1>13, <1>14
       DEF Next, AddWork, Main

\* The wait in Main_ never misses the notify_all of a task already in tasks_.
THEOREM NeverLosesWakeup == Spec => []NoLostWakeup
  <1>1. Init => NoLostWakeup
    BY DEF Init, NoLostWakeup
  <1> QED
    BY <1>1, Inductive, NextNoLostWakeup, PTL DEF Spec

------------------------------------------------------------------------------
(* The refinement. *)

\* Emplace submits, RunTask executes; every other step is a stutter.
LEMMA NextQueue == IInv /\ [Next]_vars => [Queue!Next]_(Queue!vars)
  <1> SUFFICES ASSUME IInv, [Next]_vars PROVE [Queue!Next]_(Queue!vars)
    OBVIOUS
  <1> USE DEF IInv, TypeOK, LockInv, BatchInv, Pending, Queue!vars
  <1>1. ASSUME NEW p \in Producers, CallAddWork(p) PROVE [Queue!Next]_(Queue!vars)
    BY <1>1, WorkAssumption DEF CallAddWork
  <1>2. ASSUME NEW p \in Producers, LockAddWork(p) PROVE [Queue!Next]_(Queue!vars)
    BY <1>2, WorkAssumption DEF LockAddWork
  <1>3. ASSUME NEW p \in Producers, Emplace(p) PROVE [Queue!Next]_(Queue!vars)
    <2>1. <<p, count[p]>> \in Task /\ wpc # "clear" /\ wpc' # "clear"
      BY <1>3, EmplaceHasLock
    <2>2. Pending' = Append(Pending, <<p, count[p]>>)
      BY <1>3, <2>1, EmplaceExtends DEF Emplace
    <2>3. Queue!Submit(<<p, count[p]>>)
      BY <1>3, <2>2 DEF Emplace, Queue!Submit
    <2> QED
      BY <2>1, <2>3 DEF Queue!Next
  <1>4. ASSUME NEW p \in Producers, NotifyAll(p) PROVE [Queue!Next]_(Queue!vars)
    BY <1>4, WorkAssumption DEF NotifyAll
  <1>5. ASSUME NEW p \in Producers, UnlockAddWork(p) PROVE [Queue!Next]_(Queue!vars)
    BY <1>5, WorkAssumption DEF UnlockAddWork
  <1>6. CASE LockMain
    BY <1>6, WorkAssumption DEF LockMain
  <1>7. CASE TestTasks
    BY <1>7, WorkAssumption DEF TestTasks
  <1>8. CASE CopyTasks
    BY <1>8, WorkAssumption, EmptyConcat DEF CopyTasks
  <1>9. CASE ClearTasks
    BY <1>9, WorkAssumption, EmptyConcat DEF ClearTasks
  <1>10. CASE UnlockMain
    BY <1>10, WorkAssumption DEF UnlockMain
  <1>11. CASE RunTask
    <2>1. runTasks # <<>> /\ Pending = runTasks \o tasks
      BY <1>11 DEF RunTask
    <2>2. Pending' = Tail(runTasks) \o tasks
      BY <1>11 DEF RunTask
    <2>3. /\ Head(Pending) = Head(runTasks)
          /\ Tail(Pending) = Tail(runTasks) \o tasks
          /\ Pending # <<>>
      BY <2>1, RunTakesHead
    <2>4. Queue!Execute
      BY <1>11, <2>2, <2>3 DEF RunTask, Queue!Execute
    <2> QED
      BY <2>4 DEF Queue!Next
  <1>12. CASE EndBatch
    BY <1>12, WorkAssumption DEF EndBatch
  <1>13. CASE SpuriousWakeup
    BY <1>13, WorkAssumption DEF SpuriousWakeup
  <1>14. CASE UNCHANGED vars
    BY <1>14 DEF vars
  <1> QED
    BY <1>1, <1>2, <1>3, <1>4, <1>5, <1>6, <1>7,
       <1>8, <1>9, <1>10, <1>11, <1>12, <1>13, <1>14
       DEF Next, AddWork, Main

\* WorkerThread implements the abstract queue of TaskQueue.
THEOREM Implements == Spec => ImplementsQueue
  <1>1. Init => Queue!Init
    BY EmptyConcat DEF Init, Queue!Init, Pending
  <1> QED
    BY <1>1, Inductive, NextQueue, PTL DEF Spec, ImplementsQueue, Queue!Spec

==============================================================================
