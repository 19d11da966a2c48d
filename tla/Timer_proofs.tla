----------------------------- MODULE Timer_proofs -----------------------------
(***************************************************************************)
(* Proofs about Timer, for any set of callers and any number of starts.    *)
(*                                                                         *)
(* What a pause keeps and what stop() leaves rest on there being one loop  *)
(* (OneLoop), which the owner owes to started_; what a lost notification   *)
(* can do does not.                                                        *)
(***************************************************************************)
EXTENDS Timer, TLAPS

\* The owner is in continueTimer only while it is in stop().
OwnerInv == opc # "join" => cpc[Owner] = "idle"

\* A loop on its way into the wait has seen paused_ set, or somebody has not
\* notified yet, or has notified too early.
GapInv ==
    \A i \in Loop : lpc[i] \in {"wait", "waiting"} /\ ~paused =>
        missed \/ \E c \in Thread : cpc[c] = "notify"

\* started_ is set from the first step of a loop to its last.
OneLoop ==
    /\ \A i, j \in Live : i = j
    /\ started <=> \E i \in Live : lpc[i] # "begin"

\* stop() is called when the loop runs, and is past its join when none does.
StopInv ==
    /\ opc \in {"request", "continue", "join"} => \A i \in Loop : lpc[i] # "begin"
    /\ opc \in {"reset", "destroyed"} => Live = {}

\* Once a body has begun in a pause, the loop is not past its test again.
LateInv ==
    paused => late = 0 \/ (late = 1 /\ \A i \in Loop : lpc[i] \notin {"unlock", "stop?"})

IInv == TypeOK /\ OneLoop /\ StopInv /\ LateInv

------------------------------------------------------------------------------
(* The type invariant, and the gap in continueTimer *)

\* A new timer has no loop thread, nobody in continueTimer and a free mutex.
LEMMA InitTypeOK == Init => TypeOK /\ OwnerInv /\ GapInv
  <1> SUFFICES ASSUME Init PROVE TypeOK /\ OwnerInv /\ GapInv
    OBVIOUS
  <1> USE TimerAssumption DEF Init, Loop, Thread
  <1>1. lpc \in [Loop -> LoopPC] /\ cpc \in [Thread -> CallerPC]
    BY DEF LoopPC, CallerPC
  <1>2. \A i \in Loop : lpc[i] = "none" /\ mtx # i
    OBVIOUS
  <1>3. TypeOK
    BY <1>1, <1>2 DEF TypeOK, OwnerPC
  <1>4. OwnerInv
    BY DEF OwnerInv
  <1>5. GapInv
    BY <1>2 DEF GapInv
  <1> QED
    BY <1>3, <1>4, <1>5

\* Every step keeps the types and the mutex with the loop in its critical section.
LEMMA NextTypeOK == TypeOK /\ [Next]_vars => TypeOK'
  <1> SUFFICES ASSUME TypeOK, [Next]_vars PROVE TypeOK'
    OBVIOUS
  <1> USE TimerAssumption DEF TypeOK, Loop, Thread, LoopPC, CallerPC, OwnerPC
  <1>1. ASSUME NEW c \in Callers, PauseTimer(c) PROVE TypeOK'
    BY <1>1 DEF PauseTimer
  <1>2. ASSUME NEW c \in Callers, ContinueTimer(c) PROVE TypeOK'
    BY <1>2 DEF ContinueTimer
  <1>3. ASSUME NEW c \in Thread, ClearPaused(c) PROVE TypeOK'
    BY <1>3 DEF ClearPaused
  <1>4. ASSUME NEW c \in Thread, NotifyLoop(c) PROVE TypeOK'
    BY <1>4 DEF NotifyLoop, WakeAll
  <1>5. ASSUME NEW i \in Loop, TimerThread(i) PROVE TypeOK'
    BY <1>5 DEF TimerThread, Step, NotLoop
  <1>6. ASSUME NEW i \in Loop, BodyAndSleep(i) PROVE TypeOK'
    BY <1>6 DEF BodyAndSleep, Step, NotLoop
  <1>7. ASSUME NEW i \in Loop, TestPaused(i) PROVE TypeOK'
    BY <1>7 DEF TestPaused, Step, NotLoop
  <1>8. ASSUME NEW i \in Loop, LockLoop(i) PROVE TypeOK'
    BY <1>8 DEF LockLoop, Step, NotLoop
  <1>9. ASSUME NEW i \in Loop, WhilePaused(i) PROVE TypeOK'
    BY <1>9 DEF WhilePaused, Step, NotLoop
  <1>10. ASSUME NEW i \in Loop, Wait(i) PROVE TypeOK'
    BY <1>10 DEF Wait, Step, NotLoop
  <1>11. ASSUME NEW i \in Loop, UnlockLoop(i) PROVE TypeOK'
    BY <1>11 DEF UnlockLoop, Step, NotLoop
  <1>12. ASSUME NEW i \in Loop, TestStop(i) PROVE TypeOK'
    BY <1>12 DEF TestStop, Step, NotLoop
  <1>13. ASSUME NEW i \in Loop, SpuriousWakeup(i) PROVE TypeOK'
    BY <1>13 DEF SpuriousWakeup, Step, NotLoop
  <1>14. CASE Start
    BY <1>14 DEF Start, OwnerReady, NotLoop
  <1>15. CASE Stop \/ Destroy
    BY <1>15 DEF Stop, Destroy
  <1>16. CASE OwnerStep
    BY <1>16 DEF OwnerStep, StopRequest, StopContinue, StopJoin, StopReset, NotStop
  <1>17. CASE UNCHANGED vars
    BY <1>17 DEF vars
  <1> QED
    BY <1>1, <1>2, <1>3, <1>4, <1>5, <1>6, <1>7, <1>8, <1>9, <1>10, <1>11, <1>12,
       <1>13, <1>14, <1>15, <1>16, <1>17 DEF Next, ContinueStep, LoopStep

\* The owner enters continueTimer as it goes to the join of stop(), and leaves
\* the join when it is back.
LEMMA NextOwnerInv == TypeOK /\ OwnerInv /\ [Next]_vars => OwnerInv'
  <1> SUFFICES ASSUME TypeOK, OwnerInv, [Next]_vars PROVE OwnerInv'
    OBVIOUS
  <1> USE TimerAssumption DEF TypeOK, OwnerInv, Thread
  <1>1. ASSUME NEW c \in Callers, PauseTimer(c) \/ ContinueTimer(c) PROVE OwnerInv'
    BY <1>1 DEF PauseTimer, ContinueTimer
  <1>2. ASSUME NEW c \in Thread, ContinueStep(c) PROVE OwnerInv'
    BY <1>2 DEF ContinueStep, ClearPaused, NotifyLoop
  <1>3. ASSUME NEW i \in Loop, LoopStep(i) \/ SpuriousWakeup(i) PROVE OwnerInv'
    BY <1>3 DEF LoopStep, TimerThread, BodyAndSleep, TestPaused, LockLoop,
       WhilePaused, Wait, UnlockLoop, TestStop, SpuriousWakeup, NotLoop
  <1>4. CASE Start \/ Stop \/ Destroy
    BY <1>4 DEF Start, Stop, Destroy, OwnerReady, NotLoop
  <1>5. CASE OwnerStep
    BY <1>5 DEF OwnerStep, StopRequest, StopContinue, StopJoin, StopReset
  <1>6. CASE UNCHANGED vars
    BY <1>6 DEF vars
  <1> QED
    BY <1>1, <1>2, <1>3, <1>4, <1>5, <1>6 DEF Next

\* Clearing paused_ owes a notification; the notification wakes the loop or is
\* recorded as missed; nothing else takes a notification away.
LEMMA NextGapInv == TypeOK /\ OwnerInv /\ GapInv /\ [Next]_vars => GapInv'
  <1> SUFFICES ASSUME TypeOK, OwnerInv, GapInv, [Next]_vars PROVE GapInv'
    OBVIOUS
  <1> USE TimerAssumption DEF TypeOK, GapInv, Thread
  <1>1. ASSUME NEW c \in Callers, PauseTimer(c) PROVE GapInv'
    BY <1>1 DEF PauseTimer
  <1>2. ASSUME NEW c \in Callers, ContinueTimer(c) PROVE GapInv'
    BY <1>2 DEF ContinueTimer
  <1>3. ASSUME NEW c \in Thread, ClearPaused(c) PROVE GapInv'
    <2>1. cpc'[c] = "notify"
      BY <1>3 DEF ClearPaused
    <2> QED
      BY <2>1
  <1>4. ASSUME NEW c \in Thread, NotifyLoop(c) PROVE GapInv'
    <2>1. \A i \in Loop : lpc'[i] # "waiting" /\ (lpc'[i] = "wait" => missed')
      BY <1>4 DEF NotifyLoop, WakeAll
    <2> QED
      BY <2>1
  <1>5. ASSUME NEW i \in Loop, LoopStep(i) \/ SpuriousWakeup(i) PROVE GapInv'
    <2>1. UNCHANGED <<paused, cpc, missed>>
      BY <1>5 DEF LoopStep, TimerThread, BodyAndSleep, TestPaused, LockLoop,
         WhilePaused, Wait, UnlockLoop, TestStop, SpuriousWakeup, NotLoop
    <2>2. \A j \in Loop : lpc'[j] \in {"wait", "waiting"} =>
              lpc[j] \in {"wait", "waiting"} \/ paused
      BY <1>5 DEF LoopStep, TimerThread, BodyAndSleep, TestPaused, LockLoop,
         WhilePaused, Wait, UnlockLoop, TestStop, SpuriousWakeup, Step
    <2> QED
      BY <2>1, <2>2
  <1>6. CASE Start
    <2>1. \A j \in Loop : lpc'[j] \in {"wait", "waiting"} => lpc'[j] = lpc[j]
      BY <1>6 DEF Start
    <2> QED
      BY <1>6, <2>1 DEF Start, NotLoop
  <1>7. CASE Stop \/ Destroy
    BY <1>7 DEF Stop, Destroy
  <1>8. CASE OwnerStep
    <2>1. UNCHANGED <<lpc, paused, missed>> /\ \A c \in Thread : cpc[c] = "notify" => cpc'[c] = "notify"
      BY <1>8 DEF OwnerStep, StopRequest, StopContinue, StopJoin, StopReset, NotStop, OwnerInv
    <2> QED
      BY <2>1
  <1>9. CASE UNCHANGED vars
    BY <1>9 DEF vars
  <1> QED
    BY <1>1, <1>2, <1>3, <1>4, <1>5, <1>6, <1>7, <1>8, <1>9 DEF Next, ContinueStep

\* Only the gap between the loop's test of paused_ and its wait can lose the
\* wakeup of continueTimer, whoever calls it and whatever the owner does.
THEOREM OnlyGapMisses == Spec => []OnlyGapMissesContinue
  <1>1. TypeOK /\ OwnerInv /\ GapInv => OnlyGapMissesContinue
    BY DEF GapInv, OnlyGapMissesContinue
  <1> QED
    BY <1>1, InitTypeOK, NextTypeOK, NextOwnerInv, NextGapInv, PTL DEF Spec

------------------------------------------------------------------------------
(* One loop at a time, when the owner waits for started_ to catch up *)

\* A new timer has no loop, and nobody has paused it.
LEMMA InitIInv == Init => IInv
  <1> SUFFICES ASSUME Init PROVE IInv
    OBVIOUS
  <1>1. Live = {}
    BY DEF Init, Live
  <1> QED
    BY <1>1, InitTypeOK DEF Init, IInv, OneLoop, StopInv, LateInv

\* A disciplined start() finds no loop; the last step of a loop clears started_.
LEMMA NextOneLoop == Disciplined /\ IInv /\ [Next]_vars => OneLoop'
  <1> SUFFICES ASSUME Disciplined, IInv, [Next]_vars PROVE OneLoop'
    OBVIOUS
  <1> USE DEF IInv, TypeOK, OneLoop, Live
  <1>1. ASSUME NEW c \in Callers, PauseTimer(c) \/ ContinueTimer(c) PROVE OneLoop'
    BY <1>1 DEF PauseTimer, ContinueTimer
  <1>2. ASSUME NEW c \in Thread, ClearPaused(c) PROVE OneLoop'
    BY <1>2 DEF ClearPaused
  <1>3. ASSUME NEW c \in Thread, NotifyLoop(c) PROVE OneLoop'
    BY <1>3 DEF NotifyLoop, WakeAll
  <1>4. ASSUME NEW i \in Loop, TimerThread(i) PROVE OneLoop'
    BY <1>4 DEF TimerThread, Step
  <1>5. ASSUME NEW i \in Loop,
            BodyAndSleep(i) \/ TestPaused(i) \/ LockLoop(i) \/ WhilePaused(i)
            \/ Wait(i) \/ UnlockLoop(i) \/ TestStop(i) \/ SpuriousWakeup(i)
        PROVE OneLoop'
    <2>1. /\ started' = started
          /\ \E to \in LoopPC \ {"none", "begin", "dead"} : lpc' = [lpc EXCEPT ![i] = to]
          /\ lpc[i] \notin {"none", "begin", "dead"}
      BY <1>5 DEF BodyAndSleep, TestPaused, LockLoop, WhilePaused, Wait,
         UnlockLoop, TestStop, SpuriousWakeup, Step, LoopPC
    <2> QED
      BY <2>1
  <1>6. CASE Start
    <2>1. Live = {} /\ ~started
      BY <1>6 DEF Start, OwnerReady
    <2> QED
      BY <1>6, <2>1 DEF Start
  <1>7. CASE Stop \/ Destroy \/ OwnerStep
    BY <1>7 DEF Stop, Destroy, OwnerStep, StopRequest, StopContinue, StopJoin, StopReset, NotStop
  <1>8. CASE UNCHANGED vars
    BY <1>8 DEF vars
  <1> QED
    BY <1>1, <1>2, <1>3, <1>4, <1>5, <1>6, <1>7, <1>8 DEF Next, ContinueStep, LoopStep

\* stop() is let in while its loop runs, and past its join when the loop is dead.
LEMMA NextStopInv == Disciplined /\ IInv /\ [Next]_vars => StopInv'
  <1> SUFFICES ASSUME Disciplined, IInv, [Next]_vars PROVE StopInv'
    OBVIOUS
  <1> USE DEF IInv, TypeOK, StopInv, Live
  <1>1. ASSUME NEW c \in Callers, PauseTimer(c) \/ ContinueTimer(c) PROVE StopInv'
    BY <1>1 DEF PauseTimer, ContinueTimer
  <1>2. ASSUME NEW c \in Thread, ContinueStep(c) PROVE StopInv'
    BY <1>2 DEF ContinueStep, ClearPaused, NotifyLoop, WakeAll
  <1>3. ASSUME NEW i \in Loop, LoopStep(i) \/ SpuriousWakeup(i) PROVE StopInv'
    <2>1. /\ opc' = opc /\ i \in Live
          /\ \E to \in LoopPC \ {"none", "begin"} : lpc' = [lpc EXCEPT ![i] = to]
      BY <1>3 DEF LoopStep, TimerThread, BodyAndSleep, TestPaused, LockLoop,
         WhilePaused, Wait, UnlockLoop, TestStop, SpuriousWakeup, Step, NotLoop, LoopPC
    <2> QED
      BY <2>1
  <1>4. CASE Start
    BY <1>4 DEF Start, OwnerReady, NotLoop
  <1>5. CASE Stop
    BY <1>5 DEF Stop, OwnerReady, OneLoop
  <1>6. CASE Destroy
    BY <1>6 DEF Destroy, OwnerReady
  <1>7. CASE OwnerStep
    <2>1. CASE StopRequest \/ StopContinue
      BY <2>1 DEF StopRequest, StopContinue, NotStop
    <2>2. CASE StopJoin
      BY <2>2 DEF StopJoin, NotStop, OneLoop
    <2>3. CASE StopReset
      BY <2>3 DEF StopReset, NotStop
    <2> QED
      BY <1>7, <2>1, <2>2, <2>3 DEF OwnerStep
  <1>8. CASE UNCHANGED vars
    BY <1>8 DEF vars
  <1> QED
    BY <1>1, <1>2, <1>3, <1>4, <1>5, <1>6, <1>7, <1>8 DEF Next

\* A body that begins in a pause is the one whose test came before the pause.
LEMMA NextLateInv == Disciplined /\ IInv /\ [Next]_vars => LateInv'
  <1> SUFFICES ASSUME Disciplined, IInv, [Next]_vars PROVE LateInv'
    OBVIOUS
  <1> USE DEF IInv, TypeOK, LateInv
  <1>1. ASSUME NEW c \in Callers, PauseTimer(c) \/ ContinueTimer(c) PROVE LateInv'
    BY <1>1 DEF PauseTimer, ContinueTimer
  <1>2. ASSUME NEW c \in Thread, ContinueStep(c) PROVE LateInv'
    BY <1>2 DEF ContinueStep, ClearPaused, NotifyLoop, WakeAll
  <1>3. ASSUME NEW i \in Loop, LoopStep(i) \/ SpuriousWakeup(i) PROVE LateInv'
    <2>1. paused' = paused
      BY <1>3 DEF LoopStep, TimerThread, BodyAndSleep, TestPaused, LockLoop,
         WhilePaused, Wait, UnlockLoop, TestStop, SpuriousWakeup, NotLoop
    <2>2. CASE TestStop(i)
      <3>1. \A j \in Loop : lpc[j] \in {"unlock", "stop?"} => j = i
        BY <2>2 DEF TestStop, Step, OneLoop, Live
      <3>2. \A j \in Loop : lpc'[j] \notin {"unlock", "stop?"}
        BY <2>2, <3>1 DEF TestStop, Step
      <3>3. paused => late = 0 /\ late' \in {0, 1}
        BY <2>2 DEF TestStop, Step
      <3> QED
        BY <2>1, <3>2, <3>3
    <2>3. CASE ~TestStop(i)
      <3>1. late' = late
        BY <1>3, <2>3 DEF LoopStep, TimerThread, BodyAndSleep, TestPaused, LockLoop,
           WhilePaused, Wait, UnlockLoop, SpuriousWakeup
      <3>2. paused => \A j \in Loop : lpc'[j] \in {"unlock", "stop?"} =>
                          lpc[j] \in {"unlock", "stop?"}
        BY <1>3, <2>3 DEF LoopStep, TimerThread, BodyAndSleep, TestPaused, LockLoop,
           WhilePaused, Wait, UnlockLoop, SpuriousWakeup, Step
      <3> QED
        BY <2>1, <3>1, <3>2
    <2> QED
      BY <2>2, <2>3
  <1>4. CASE Start
    BY <1>4 DEF Start, NotLoop
  <1>5. CASE Stop \/ Destroy \/ OwnerStep
    BY <1>5 DEF Stop, Destroy, OwnerStep, StopRequest, StopContinue, StopJoin, StopReset, NotStop
  <1>6. CASE UNCHANGED vars
    BY <1>6 DEF vars
  <1> QED
    BY <1>1, <1>2, <1>3, <1>4, <1>5, <1>6 DEF Next

\* With an owner that waits for started_, one loop runs and every pause is kept.
THEOREM OneLoopRuns ==
    ASSUME Disciplined
    PROVE  Spec => []IInv
  <1>1. IInv /\ [Next]_vars => IInv'
    BY NextTypeOK, NextOneLoop, NextStopInv, NextLateInv DEF IInv
  <1> QED
    BY <1>1, InitIInv, PTL DEF Spec

\* After pauseTimer the loop body begins at most once more, for any number of
\* callers, restarts and spurious wakeups.
THEOREM PausesHold ==
    ASSUME Disciplined
    PROVE  Spec => []PauseHolds
  <1>1. IInv => PauseHolds
    BY DEF IInv, PauseHolds, LateInv
  <1> QED
    BY <1>1, OneLoopRuns, PTL

\* When stop() or the destructor has returned, no loop thread is left.
THEOREM StopsJoin ==
    ASSUME Disciplined
    PROVE  Spec => []StopJoins
  <1>1. IInv => StopJoins
    BY DEF IInv, StopInv, StopJoins
  <1> QED
    BY <1>1, OneLoopRuns, PTL
==============================================================================
