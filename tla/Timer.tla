-------------------------------- MODULE Timer --------------------------------
(***************************************************************************)
(* utils/CuTimer.h: CU::Timer, a background loop that one thread starts    *)
(* and stops and that any thread pauses and continues.                     *)
(*                                                                         *)
(* The flags are plain volatile bools: only the loop thread ever locks     *)
(* mtx_.  continueTimer declares a lock of its own that names no mutex, so *)
(* its write and its notification may fall between the loop's test of      *)
(* paused_ and its wait.  Every read and write of a flag is a step here.   *)
(***************************************************************************)
EXTENDS Naturals

CONSTANTS
    Callers,     \* the threads that call pauseTimer and continueTimer
    Owner,       \* the thread that calls start, stop and the destructor
    MaxStarts,   \* bound: how many loop threads start() ever creates
    Disciplined  \* TRUE: the owner calls start, stop and the destructor only
                 \* when the flag started_ has caught up with its last start

ASSUME TimerAssumption ==
    MaxStarts \in Nat /\ Disciplined \in BOOLEAN /\ Owner \notin Callers

VARIABLES
    started, paused, requestStop,  \* started_, paused_, requestStop_
    mtx,       \* mtx_: the loop thread that holds it, 0 for nobody
    lpc,       \* where each loop thread is
    cpc,       \* where each thread is in continueTimer
    opc,       \* where the owner is in stop
    leave,     \* what the owner is after stop: "idle", or "destroyed"
    late,      \* history: bodies begun since pauseTimer last set paused_
    missed     \* history: a notification fell between a test and its wait

vars == <<started, paused, requestStop, mtx, lpc, cpc, opc, leave, late, missed>>

Loop == 1..MaxStarts
Thread == Callers \cup {Owner}

LoopPC == {"none", "begin", "body", "test", "lock", "while", "wait",
           "waiting", "relock", "unlock", "stop?", "end", "dead"}
CallerPC == {"idle", "clear", "notify"}
OwnerPC == {"idle", "request", "continue", "join", "reset", "destroyed"}

Init ==
    /\ started = FALSE /\ paused = FALSE /\ requestStop = FALSE
    /\ mtx = 0
    /\ lpc = [i \in Loop |-> "none"]
    /\ cpc = [c \in Thread |-> "idle"]
    /\ opc = "idle"
    /\ leave = "idle"
    /\ late = 0
    /\ missed = FALSE

------------------------------------------------------------------------------
(* pauseTimer and continueTimer, called by any thread *)

PauseTimer(c) ==
    /\ cpc[c] = "idle" /\ opc # "destroyed"
    /\ ~paused
    /\ paused' = TRUE
    /\ late' = 0
    /\ UNCHANGED <<started, requestStop, mtx, lpc, cpc, opc, leave, missed>>

ContinueTimer(c) ==
    /\ cpc[c] = "idle" /\ opc # "destroyed"
    /\ paused
    /\ cpc' = [cpc EXCEPT ![c] = "clear"]
    /\ UNCHANGED <<started, paused, requestStop, mtx, lpc, opc, leave, late, missed>>

ClearPaused(c) ==
    /\ cpc[c] = "clear"
    /\ paused' = FALSE
    /\ cpc' = [cpc EXCEPT ![c] = "notify"]
    /\ UNCHANGED <<started, requestStop, mtx, lpc, opc, leave, late, missed>>

\* Mutant: continueTimer wakes nobody.
WakeNone == UNCHANGED <<lpc, missed>>

\* cv_.notify_all(): wakes the blocked threads, and only those.
WakeAll ==
    /\ lpc' = [i \in Loop |-> IF lpc[i] = "waiting" THEN "relock" ELSE lpc[i]]
    /\ missed' = (missed \/ \E i \in Loop : lpc[i] = "wait")

NotifyLoop(c) ==
    /\ cpc[c] = "notify"
    /\ WakeAll
    /\ cpc' = [cpc EXCEPT ![c] = "idle"]
    /\ UNCHANGED <<started, paused, requestStop, mtx, opc, leave, late>>

------------------------------------------------------------------------------
(* _Timer_Condition and the loop around it, in the thread start() creates *)

Step(i, from, to) == lpc[i] = from /\ lpc' = [lpc EXCEPT ![i] = to]

NotLoop == <<paused, requestStop, cpc, opc, leave, missed>>

TimerThread(i) ==
    \/ /\ Step(i, "begin", "body")
       /\ started' = TRUE
       /\ UNCHANGED <<mtx, late, NotLoop>>
    \/ /\ Step(i, "end", "dead")
       /\ started' = FALSE
       /\ UNCHANGED <<mtx, late, NotLoop>>

\* The loop body, unless the thread has just begun, and the sleep after it.
BodyAndSleep(i) ==
    /\ Step(i, "body", "test")
    /\ UNCHANGED <<started, mtx, late, NotLoop>>

TestPaused(i) ==
    /\ Step(i, "test", IF paused THEN "lock" ELSE "stop?")
    /\ UNCHANGED <<started, mtx, late, NotLoop>>

\* Mutant: a wakeup is believed without testing paused_ again.
LockLoopOnce(i) ==
    /\ Step(i, "lock", "while") \/ Step(i, "relock", "unlock")
    /\ mtx = 0
    /\ mtx' = i
    /\ UNCHANGED <<started, late, NotLoop>>

LockLoop(i) ==
    /\ Step(i, "lock", "while") \/ Step(i, "relock", "while")
    /\ mtx = 0
    /\ mtx' = i
    /\ UNCHANGED <<started, late, NotLoop>>

WhilePaused(i) ==
    /\ Step(i, "while", IF paused THEN "wait" ELSE "unlock")
    /\ UNCHANGED <<started, mtx, late, NotLoop>>

Wait(i) ==
    /\ Step(i, "wait", "waiting")
    /\ mtx' = 0
    /\ UNCHANGED <<started, late, NotLoop>>

SpuriousWakeup(i) ==
    /\ Step(i, "waiting", "relock")
    /\ UNCHANGED <<started, mtx, late, NotLoop>>

UnlockLoop(i) ==
    /\ Step(i, "unlock", "stop?")
    /\ mtx' = 0
    /\ UNCHANGED <<started, late, NotLoop>>

\* Mutant: the condition of the loop is always true.
IgnoreStop(i) ==
    /\ Step(i, "stop?", "body")
    /\ late' = IF paused THEN late + 1 ELSE late
    /\ UNCHANGED <<started, mtx, NotLoop>>

\* return !requestStop_: the loop body, or the end of the thread.
TestStop(i) ==
    /\ Step(i, "stop?", IF requestStop THEN "end" ELSE "body")
    /\ late' = IF paused /\ ~requestStop THEN late + 1 ELSE late
    /\ UNCHANGED <<started, mtx, NotLoop>>

------------------------------------------------------------------------------
(* start, stop and ~Timer, called by the thread that owns the timer *)

Live == {i \in Loop : lpc[i] \notin {"none", "dead"}}

OwnerReady == opc = "idle" /\ (Disciplined => (started <=> Live # {}))

\* start() throws when started_ is set; until the new thread has set it a
\* second start() goes through.
Start ==
    /\ OwnerReady
    /\ ~started
    /\ \E i \in Loop :
         /\ \A j \in Loop : lpc[j] = "none" <=> j >= i
         /\ lpc' = [lpc EXCEPT ![i] = "begin"]
    /\ UNCHANGED <<started, mtx, late, NotLoop>>

\* stop() itself, or the stop() the destructor calls; it throws when started_
\* is clear, and the destructor then does nothing.
Stop ==
    /\ OwnerReady
    /\ started
    /\ opc' = "request"
    /\ leave' \in {"idle", "destroyed"}
    /\ UNCHANGED <<started, paused, requestStop, mtx, lpc, cpc, late, missed>>

Destroy ==
    /\ OwnerReady
    /\ ~started
    /\ opc' = "destroyed"
    /\ UNCHANGED <<started, paused, requestStop, mtx, lpc, cpc, leave, late, missed>>

NotStop == <<started, mtx, lpc, leave, late, missed>>

StopRequest ==
    /\ opc = "request"
    /\ requestStop' = TRUE
    /\ opc' = "continue"
    /\ UNCHANGED <<paused, cpc, NotStop>>

\* if (paused_) continueTimer();
StopContinue ==
    /\ opc = "continue"
    /\ cpc' = [cpc EXCEPT ![Owner] = IF paused THEN "clear" ELSE "idle"]
    /\ opc' = "join"
    /\ UNCHANGED <<paused, requestStop, NotStop>>

\* Mutant: stop() does not wait for the thread.
StopNoJoin ==
    /\ opc = "join" /\ cpc[Owner] = "idle"
    /\ opc' = "reset"
    /\ UNCHANGED <<paused, requestStop, cpc, NotStop>>

\* while (started_) sleep
StopJoin ==
    /\ opc = "join" /\ cpc[Owner] = "idle"
    /\ ~started
    /\ opc' = "reset"
    /\ UNCHANGED <<paused, requestStop, cpc, NotStop>>

StopReset ==
    /\ opc = "reset"
    /\ requestStop' = FALSE
    /\ opc' = leave
    /\ UNCHANGED <<paused, cpc, NotStop>>

------------------------------------------------------------------------------
ContinueStep(c) == ClearPaused(c) \/ NotifyLoop(c)

LoopStep(i) ==
    \/ TimerThread(i) \/ BodyAndSleep(i) \/ TestPaused(i) \/ LockLoop(i)
    \/ WhilePaused(i) \/ Wait(i) \/ UnlockLoop(i) \/ TestStop(i)

OwnerStep == StopRequest \/ StopContinue \/ StopJoin \/ StopReset

Next ==
    \/ \E c \in Callers : PauseTimer(c) \/ ContinueTimer(c)
    \/ \E c \in Thread : ContinueStep(c)
    \/ \E i \in Loop : LoopStep(i) \/ SpuriousWakeup(i)
    \/ Start \/ Stop \/ Destroy \/ OwnerStep

Spec == Init /\ [][Next]_vars

\* A thread that can run is run; a loop that wants mtx_ gets it in the end.
FairSpec ==
    /\ Spec
    /\ \A c \in Thread : WF_vars(ContinueStep(c))
    /\ \A i \in Loop : WF_vars(LoopStep(i)) /\ SF_vars(LockLoop(i))
    /\ WF_vars(OwnerStep)

------------------------------------------------------------------------------
TypeOK ==
    /\ {started, paused, requestStop, missed} \subseteq BOOLEAN
    /\ lpc \in [Loop -> LoopPC]
    /\ mtx \in Loop \cup {0}
    /\ \A i \in Loop : mtx = i <=> lpc[i] \in {"while", "wait", "unlock"}
    /\ cpc \in [Thread -> CallerPC]
    /\ opc \in OwnerPC
    /\ leave \in {"idle", "destroyed"}
    /\ late \in Nat

\* A pause is honoured: after pauseTimer the loop body begins at most once
\* more (the loop may already have passed its test), however the pauses,
\* continues and spurious wakeups interleave; and the mutex is held by the loop
\* that is in its critical section (TypeOK).
PauseHolds == TypeOK /\ (paused => late <= 1)

\* Once stop() has returned, or the destructor has, no loop thread of this
\* timer is left to run a body or to touch the object.
StopJoins ==
    opc \in {"reset", "destroyed"} => Live = {}

\* A loop that sleeps on cv_ although paused_ is clear is about to be notified,
\* unless a notification already fell into the gap between its test and its
\* wait: the gap is the only way continueTimer can fail to wake the loop.
OnlyGapMissesContinue ==
    \A i \in Loop : lpc[i] = "waiting" /\ ~paused =>
        missed \/ \E c \in Thread : cpc[c] = "notify"

\* A loop asked to stop ends, unless it sits in a pause or missed a notification.
StopEnds ==
    (opc = "join") ~> (opc # "join" \/ paused \/ missed)
==============================================================================
