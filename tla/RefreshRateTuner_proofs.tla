------------------------ MODULE RefreshRateTuner_proofs -----------------------
(***************************************************************************)
(* Proofs about RefreshRateTuner, for any table, configurations, bounds    *)
(* and scenarios.                                                          *)
(***************************************************************************)
EXTENDS RefreshRateTuner, FiniteSetTheorems, TLAPS

\* Where each thread can be.
ListenerPC == {"up", "down", "touching", "gone"}
WatcherPC == {"ready", "policyActive", "policyIdle", "pause", "postIdle",
              "postReset", "continue", "clear", "notify", "crashed"}
MonitorPC == {"ready", "policyActive", "policyIdle", "postActive", "crashed"}
WorkerPC == {"ready", "load", "reset", "resetFlag", "setActive", "setIdle",
             "runActive", "runIdle", "flagActive", "flagIdle"}
IdleLoopPC == {"sleep", "test", "wait", "waiting", "iterate", "active?", "keys",
               "duration", "setIdle", "runIdle", "flagIdle", "rest", "crashed"}

PlaceInv ==
    /\ pc \in [Threads -> ThreadPC]
    /\ \A l \in Listeners : pc[l] \in ListenerPC
    /\ pc[Watcher] \in WatcherPC /\ pc[Monitor] \in MonitorPC
    /\ pc[Worker] \in WorkerPC /\ pc[IdleLoop] \in IdleLoopPC

\* What a thread has in hand: the pair of ids it installs, or the id it sets.
ArgInv ==
    /\ arg = [t \in Threads |-> arg[t]]
    /\ \A t \in {Watcher, Monitor} : pc[t] \in {"policyActive", "policyIdle"} =>
           arg[t].active \in ModeIds /\ arg[t].idle \in ModeIds
    /\ \A t \in {Worker, IdleLoop} : pc[t] \in {"runActive", "runIdle"} => arg[t] \in ModeIds

\* The clock is never set back before the time the scenario began.
ClockInv ==
    /\ scenario \in Scenarios /\ now \in Stamp /\ behind \in 0..now
    /\ budget \in [EventKind -> Nat]

\* The locals of IdleLoop_.
ReadsInv ==
    /\ reads \in [delay : Nat, up : Stamp \cup {Unread}, down : Stamp \cup {Unread},
                  clock : Stamp \cup {Unread}, again : Stamp \cup {Unread}, interval : Nat]
    /\ reads.interval <= reads.delay

\* The members of RefreshRateTuner that several threads share.
DataOK ==
    /\ config \in Configs /\ file \in Configs \cup {Broken}
    /\ activeDisplayModeId \in ModeIds /\ idleDisplayModeId \in ModeIds
    /\ display \in ModeIds \cup {Default}
    /\ active \in BOOLEAN /\ paused \in BOOLEAN /\ sawUp \in BOOLEAN
    /\ keyDownTime \in Stamp /\ keyUpTime \in Stamp
    /\ tasks \in Seq({"setActive", "setIdle", "reset", "load"})

TypeInv == TypeOK /\ PlaceInv /\ ArgInv /\ ClockInv /\ ReadsInv

\* An iteration that has seen no moment without a finger has one down now.
SawInv == ~sawUp => ~AllUp

\* A finger is down with a stamp no older than that of the last key up, which
\* the iteration that began with it down has read, if it has read the stamps.
KeyInv ==
    behind = 0 =>
        /\ keyDownTime <= now /\ keyUpTime <= now
        /\ ~AllUp => keyUpTime <= keyDownTime
        /\ pc[IdleLoop] \in {"active?", "keys"} /\ ~sawUp =>
               /\ reads.up \in {Unread, keyUpTime}
               /\ reads.down \in {Unread, keyDownTime}
        /\ pc[IdleLoop] \in {"duration"} \cup Setting => sawUp

IInv == TypeInv /\ SawInv /\ KeyInv

------------------------------------------------------------------------------
(* The constants *)

\* No two threads are the same.
LEMMA Names ==
    /\ Listeners \subseteq Threads /\ {Watcher, Monitor, Worker, IdleLoop} \subseteq Threads
    /\ Watcher \notin Listeners /\ Monitor \notin Listeners
    /\ Worker \notin Listeners /\ IdleLoop \notin Listeners
    /\ Watcher # Monitor /\ Watcher # Worker /\ Watcher # IdleLoop
    /\ Monitor # Worker /\ Monitor # IdleLoop /\ Worker # IdleLoop
  BY TunerAssumption DEF Threads

\* A list of pairs with something in it has a greatest key: the one with the
\* fewest keys above it.
LEMMA GreatestKey ==
    ASSUME NEW map, Filled(map)
    PROVE  Max(DOMAIN map) \in DOMAIN map
  <1> DEFINE S == DOMAIN map
             Above(x) == {y \in S : y > x}
             C == {Above(x) : x \in S}
  <1>1. S \subseteq Int /\ IsFiniteSet(S) /\ S # {}
    BY DEF Filled
  <1>2. C \subseteq FiniteSubsetsOf(S) /\ C # {}
    <2>1. ASSUME NEW x \in S PROVE Above(x) \in FiniteSubsetsOf(S)
      <3>1. Above(x) \subseteq S
        OBVIOUS
      <3>2. IsFiniteSet(Above(x))
        BY <1>1, <3>1, FS_Subset
      <3> QED
        BY <3>1, <3>2 DEF FiniteSubsetsOf
    <2> QED
      BY <1>1, <2>1
  <1>3. PICK z \in C : \A y \in C : <<y, z>> \notin StrictSubsetOrdering(S)
    <2> HIDE DEF C
    <2> QED
      BY <1>2, FS_StrictSubsetOrderingWellFounded, WFMin
  <1>4. PICK x \in S : z = Above(x)
    OBVIOUS
  <1>5. ASSUME NEW y \in S, y > x PROVE FALSE
    <2>1. Above(y) \subseteq Above(x) /\ y \in Above(x) /\ y \notin Above(y) /\ Above(y) \in C
      BY <1>1, <1>5
    <2>2. <<Above(y), Above(x)>> \in StrictSubsetOrdering(S)
      <3>1. Above(y) \subseteq S /\ Above(x) \subseteq S
        OBVIOUS
      <3> HIDE DEF Above
      <3> QED
        BY <2>1, <3>1 DEF StrictSubsetOrdering
    <2> QED
      BY <1>3, <1>4, <2>1, <2>2
  <1>6. \A y \in S : x >= y
    BY <1>1, <1>5
  <1> QED
    BY <1>6 DEF Max

\* The lookup of UpdatePolicy_ finds the id of some mode, whatever rate and
\* resolution the configuration asks for.
LEMMA FindsMode ==
    ASSUME NEW rate, NEW pixels
    PROVE  FindDisplayModeId(Table, rate, pixels) \in ModeIds
  <1>1. FindRate(Table, rate) \in DOMAIN Table
    BY TableAssumption, GreatestKey DEF IsTable, FindRate
  <1> DEFINE row == Table[FindRate(Table, rate)]
  <1>2. FindPixels(row, pixels) \in DOMAIN row
    BY <1>1, TableAssumption, GreatestKey DEF IsTable, FindPixels
  <1> QED
    BY <1>1, <1>2 DEF FindDisplayModeId, ModeIds

\* So UpdatePolicy_ computes the ids of two modes, of any complete configuration.
LEMMA PolicyModes ==
    ASSUME NEW c, NEW name
    PROVE  PolicyFor(c, name).active \in ModeIds /\ PolicyFor(c, name).idle \in ModeIds
  BY FindsMode DEF PolicyFor

------------------------------------------------------------------------------
(* The type invariant *)

\* Start() leaves every thread at its first step and the rates of "*" in force.
LEMMA InitTypeInv == Init => TypeInv
  <1> SUFFICES ASSUME Init PROVE TypeInv
    OBVIOUS
  <1> USE DEF Init
  <1>1. scenario \in Scenarios /\ 0 \in Stamp /\ config \in Configs /\ config.idleDelay \in Nat
    BY TunerAssumption DEF Stamp
  <1>2. PlaceInv
    BY Names DEF PlaceInv, Threads, ThreadPC, ListenerPC, WatcherPC, MonitorPC, WorkerPC, IdleLoopPC
  <1>3. ArgInv
    BY Names DEF ArgInv
  <1>4. ClockInv
    BY <1>1, TunerAssumption DEF ClockInv
  <1>5. ReadsInv
    BY DEF ReadsInv, Fresh
  <1>6. activeDisplayModeId \in ModeIds /\ idleDisplayModeId \in ModeIds
    BY PolicyModes
  <1>7. config \in Configs /\ wakeAt \in Nat /\ tasks \in Seq({"setActive", "setIdle", "reset", "load"})
    BY <1>1
  <1>8. TypeOK
    BY <1>1, <1>2, <1>4, <1>6, <1>7 DEF TypeOK, PlaceInv, ClockInv, Fresh
  <1> QED
    BY <1>2, <1>3, <1>4, <1>5, <1>8 DEF TypeInv

\* No thread is ever at a place that is not its own.
LEMMA NextPlaceInv == TypeInv /\ [Next]_vars => PlaceInv'
  <1> SUFFICES ASSUME TypeInv, [Next]_vars PROVE PlaceInv'
    OBVIOUS
  <1> USE Names DEF TypeInv, PlaceInv, Goto, At, ThreadPC, ListenerPC, WatcherPC,
          MonitorPC, WorkerPC, IdleLoopPC
  <1>1. ASSUME NEW l \in Listeners, KeyDown(l) \/ KeyDownPost(l) \/ KeyUp(l) \/ Unplug(l)
        PROVE  PlaceInv'
    BY <1>1 DEF KeyDown, KeyDownPost, KeyUp, Unplug
  <1>2. ASSUME NEW t \in {Watcher, Monitor}, NEW name, ReadPolicy(t, name) PROVE PlaceInv'
    BY <1>2 DEF ReadPolicy
  <1>3. CASE ScreenOff \/ ScreenOn \/ ConfigModified \/ \E name \in Apps : TopAppChanged(name)
    BY <1>2, <1>3 DEF ScreenOff, ScreenOn, ConfigModified, TopAppChanged
  <1>4. ASSUME NEW t \in {Watcher, Monitor}, HandlerStep(t) PROVE PlaceInv'
    BY <1>4 DEF HandlerStep, InstallActive, InstallIdle, Post, PostTask
  <1>5. CASE PauseTimer \/ ContinueTimer \/ ClearPaused \/ NotifyLoop
    BY <1>5 DEF PauseTimer, ContinueTimer, ClearPaused, NotifyLoop
  <1>6. CASE TakeTask
    <2>1. Head(tasks) \in {"setActive", "setIdle", "reset", "load"}
      BY <1>6 DEF TakeTask, TypeOK
    <2> QED
      BY <1>6, <2>1 DEF TakeTask
  <1>7. CASE LoadConfig \/ ResetRefreshRate
    BY <1>7 DEF LoadConfig, ResetRefreshRate
  <1>8. ASSUME NEW t \in {Worker, IdleLoop}, SetterStep(t) PROVE PlaceInv'
    BY <1>8 DEF SetterStep, ReadModeId, RunCommand, SetFlag
  <1>9. CASE Wake \/ TestPaused \/ Wait \/ SpuriousWakeup \/ ReadDelay \/ TestActive \/ Rest
    BY <1>9 DEF Wake, TestPaused, Wait, SpuriousWakeup, ReadDelay, TestActive, Rest
  <1>10. CASE ReadOperand \/ CompareKeys \/ CompareDuration
    BY <1>10 DEF ReadOperand, Read, CompareKeys, CompareDuration
  <1>11. CASE Tick \/ SetBack \/ UNCHANGED vars
    BY <1>11 DEF Tick, SetBack, vars
  <1> QED
    BY <1>1, <1>3, <1>4, <1>5, <1>6, <1>7, <1>8, <1>9, <1>10, <1>11
       DEF Next, Outside, Inside, WatcherStep, MonitorStep, WorkerStep, IdleLoopStep

\* A thread has the ids of modes in hand from their lookup to their use.
LEMMA NextArgInv == TypeInv /\ [Next]_vars => ArgInv'
  <1> SUFFICES ASSUME TypeInv, [Next]_vars PROVE ArgInv'
    OBVIOUS
  <1> USE Names DEF TypeInv, PlaceInv, ArgInv, Goto, At
  <1>1. ASSUME NEW l \in Listeners, KeyDown(l) \/ KeyDownPost(l) \/ KeyUp(l) \/ Unplug(l)
        PROVE  ArgInv'
    BY <1>1 DEF KeyDown, KeyDownPost, KeyUp, Unplug
  <1>2. ASSUME NEW t \in {Watcher, Monitor}, NEW name, ReadPolicy(t, name) PROVE ArgInv'
    BY <1>2, PolicyModes DEF ReadPolicy
  <1>3. CASE ScreenOff \/ ScreenOn \/ \E name \in Apps : TopAppChanged(name)
    BY <1>2, <1>3 DEF ScreenOff, ScreenOn, TopAppChanged
  <1>3a. CASE ConfigModified
    BY <1>3a DEF ConfigModified
  <1>4. ASSUME NEW t \in {Watcher, Monitor}, HandlerStep(t) PROVE ArgInv'
    BY <1>4 DEF HandlerStep, InstallActive, InstallIdle, Post, PostTask
  <1>5. CASE PauseTimer \/ ContinueTimer \/ ClearPaused \/ NotifyLoop
    BY <1>5 DEF PauseTimer, ContinueTimer, ClearPaused, NotifyLoop, NotTimer
  <1>6. CASE TakeTask
    <2>1. Head(tasks) \in {"setActive", "setIdle", "reset", "load"}
      BY <1>6 DEF TakeTask, TypeOK
    <2> QED
      BY <1>6, <2>1 DEF TakeTask
  <1>7. CASE LoadConfig \/ ResetRefreshRate
    BY <1>7 DEF LoadConfig, ResetRefreshRate
  <1>8. ASSUME NEW t \in {Worker, IdleLoop}, SetterStep(t) PROVE ArgInv'
    <2>1. CASE ReadModeId(t)
      BY <1>8, <2>1 DEF ReadModeId, TypeOK
    <2>2. CASE RunCommand(t) \/ SetFlag(t)
      BY <1>8, <2>2 DEF RunCommand, SetFlag
    <2> QED
      BY <1>8, <2>1, <2>2 DEF SetterStep
  <1>9. CASE Wake \/ TestPaused \/ Wait \/ SpuriousWakeup \/ ReadDelay \/ TestActive \/ Rest
    BY <1>9 DEF Wake, TestPaused, Wait, SpuriousWakeup, ReadDelay, TestActive, Rest, NotLoop
  <1>10. CASE ReadOperand \/ CompareKeys \/ CompareDuration
    BY <1>10 DEF ReadOperand, Read, CompareKeys, CompareDuration, NotLoop
  <1>11. CASE Tick \/ SetBack \/ UNCHANGED vars
    BY <1>11 DEF Tick, SetBack, vars
  <1> QED
    BY <1>1, <1>3, <1>3a, <1>4, <1>5, <1>6, <1>7, <1>8, <1>9, <1>10, <1>11
       DEF Next, Outside, Inside, WatcherStep, MonitorStep, WorkerStep, IdleLoopStep

\* Time passes within the scenario, and the clock is set back to its begin at most.
LEMMA NextClockInv == TypeInv /\ [Next]_vars => ClockInv' /\ scenario' = scenario
  <1> SUFFICES ASSUME TypeInv, [Next]_vars PROVE ClockInv' /\ scenario' = scenario
    OBVIOUS
  <1> USE DEF TypeInv, ClockInv, Stamp
  <1>1. scenario.maxTime \in Nat
    BY TunerAssumption
  <1>2. ASSUME UNCHANGED envVars PROVE ClockInv' /\ scenario' = scenario
    BY <1>2 DEF envVars
  <1>3. ASSUME NEW kind \in EventKind, Event(kind) PROVE ClockInv' /\ scenario' = scenario
    BY <1>3 DEF Event, Happens
  <1>4. CASE Outside
    <2>1. ASSUME NEW l \in Listeners, KeyDown(l) PROVE Event("touch")
      BY <2>1 DEF KeyDown
    <2>2. ASSUME NEW l \in Listeners, KeyUp(l) PROVE UNCHANGED envVars
      BY <2>2 DEF KeyUp
    <2>3. ASSUME NEW l \in Listeners, Unplug(l) PROVE Event("unplug")
      BY <2>3 DEF Unplug
    <2>4. ScreenOff \/ ScreenOn => Event("screen")
      BY DEF ScreenOff, ScreenOn
    <2>5. ConfigModified => Event("write")
      BY DEF ConfigModified
    <2>6. ASSUME NEW name \in Apps, TopAppChanged(name) PROVE Event("app")
      BY <2>6 DEF TopAppChanged
    <2>7. SpuriousWakeup => UNCHANGED envVars
      BY DEF SpuriousWakeup, NotLoop
    <2>8. SetBack => ClockInv' /\ scenario' = scenario
      BY DEF SetBack, Happens, EventKind
    <2>9. {"touch", "unplug", "screen", "write", "app"} \subseteq EventKind
      BY DEF EventKind
    <2> QED
      BY <1>2, <1>3, <1>4, <2>1, <2>2, <2>3, <2>4, <2>5, <2>6, <2>7, <2>8, <2>9 DEF Outside
  <1>5. CASE Inside
    <2>1. ASSUME NEW l \in Listeners, KeyDownPost(l) PROVE UNCHANGED envVars
      BY <2>1 DEF KeyDownPost
    <2>2. ASSUME NEW t, HandlerStep(t) PROVE UNCHANGED envVars
      BY <2>2 DEF HandlerStep, InstallActive, InstallIdle, Post, PostTask
    <2>3. PauseTimer \/ ContinueTimer \/ ClearPaused \/ NotifyLoop => UNCHANGED envVars
      BY DEF PauseTimer, ContinueTimer, ClearPaused, NotifyLoop, NotTimer
    <2>4. TakeTask \/ LoadConfig \/ ResetRefreshRate => UNCHANGED envVars
      BY DEF TakeTask, LoadConfig, ResetRefreshRate, NotSetter
    <2>5. ASSUME NEW t, SetterStep(t) PROVE UNCHANGED envVars
      BY <2>5 DEF SetterStep, ReadModeId, RunCommand, SetFlag, NotSetter
    <2>6. Wake \/ TestPaused \/ Wait \/ ReadDelay \/ TestActive \/ Rest => UNCHANGED envVars
      BY DEF Wake, TestPaused, Wait, ReadDelay, TestActive, Rest, NotLoop
    <2>7. ReadOperand \/ CompareKeys \/ CompareDuration => UNCHANGED envVars
      BY DEF ReadOperand, Read, CompareKeys, CompareDuration, NotLoop
    <2> QED
      BY <1>2, <1>5, <2>1, <2>2, <2>3, <2>4, <2>5, <2>6, <2>7
         DEF Inside, WatcherStep, MonitorStep, WorkerStep, IdleLoopStep
  <1>6. CASE Tick
    BY <1>1, <1>6 DEF Tick
  <1>7. CASE UNCHANGED vars
    BY <1>2, <1>7 DEF vars
  <1> QED
    BY <1>4, <1>5, <1>6, <1>7 DEF Next

\* IdleLoop_ sleeps for the delay of the configuration, or for what is left of it.
LEMMA NextReadsInv == TypeInv /\ [Next]_vars => ReadsInv' /\ wakeAt' \in Nat
  <1> SUFFICES ASSUME TypeInv, [Next]_vars PROVE ReadsInv' /\ wakeAt' \in Nat
    OBVIOUS
  <1>0. /\ Stamp' = Stamp /\ Stamp \subseteq Nat /\ now \in Nat /\ wakeAt \in Nat
        /\ keyUpTime \in Stamp /\ keyDownTime \in Stamp /\ TimeStamp \in Stamp
        /\ Word \in Nat \ {0} /\ config.idleDelay \in Nat
    <2>1. Stamp' = Stamp /\ Stamp \subseteq Nat
      BY NextClockInv DEF Stamp
    <2>2. scenario \in Scenarios /\ scenario.maxTime \in 0..(Word - 1) /\ Word \in Nat
      BY TunerAssumption DEF TypeInv, ClockInv
    <2>3. now \in Nat /\ TimeStamp \in Stamp
      BY <2>2 DEF TypeInv, ClockInv, TimeStamp, Stamp
    <2>4. config.idleDelay \in Nat
      BY TunerAssumption DEF TypeInv, TypeOK
    <2> QED
      BY <2>1, <2>2, <2>3, <2>4 DEF TypeInv, TypeOK
  <1> USE <1>0 DEF ReadsInv
  <1>1. ASSUME UNCHANGED <<wakeAt, reads>> PROVE ReadsInv' /\ wakeAt' \in Nat
    BY <1>1 DEF TypeInv
  <1>2. CASE Outside
    <2>1. UNCHANGED <<wakeAt, reads>>
      BY <1>2 DEF Outside, KeyDown, KeyUp, Unplug, ScreenOff, ScreenOn, ConfigModified,
         TopAppChanged, ReadPolicy, SpuriousWakeup, SetBack, loopVars
    <2> QED
      BY <1>1, <2>1
  <1>3. CASE /\ Inside
             /\ ~(ReadDelay \/ ReadOperand \/ CompareDuration \/ Rest)
    <2>1. ASSUME NEW l \in Listeners, KeyDownPost(l) PROVE UNCHANGED loopVars
      BY <2>1 DEF KeyDownPost
    <2>2. ASSUME NEW t, HandlerStep(t) PROVE UNCHANGED loopVars
      BY <2>2 DEF HandlerStep, InstallActive, InstallIdle, Post, PostTask
    <2>3. PauseTimer \/ ContinueTimer \/ ClearPaused \/ NotifyLoop => UNCHANGED loopVars
      BY DEF PauseTimer, ContinueTimer, ClearPaused, NotifyLoop, NotTimer
    <2>4. TakeTask \/ LoadConfig \/ ResetRefreshRate => UNCHANGED loopVars
      BY DEF TakeTask, LoadConfig, ResetRefreshRate, NotSetter
    <2>5. ASSUME NEW t, SetterStep(t) PROVE UNCHANGED loopVars
      BY <2>5 DEF SetterStep, ReadModeId, RunCommand, SetFlag, NotSetter
    <2>6. Wake \/ TestPaused \/ Wait \/ TestActive \/ CompareKeys => UNCHANGED loopVars
      BY DEF Wake, TestPaused, Wait, TestActive, CompareKeys
    <2>7. UNCHANGED loopVars
      BY <1>3, <2>1, <2>2, <2>3, <2>4, <2>5, <2>6
         DEF Inside, WatcherStep, MonitorStep, WorkerStep, IdleLoopStep
    <2> QED
      BY <1>1, <2>7 DEF loopVars
  <1>4. CASE ReadDelay
    <2>1. wakeAt' = wakeAt
      BY <1>4 DEF ReadDelay
    <2>2. reads' = [delay |-> config.idleDelay, up |-> Unread, down |-> Unread,
                    clock |-> Unread, again |-> Unread, interval |-> config.idleDelay]
      BY <1>4 DEF ReadDelay, Fresh
    <2> QED
      BY <2>1, <2>2
  <1>5. CASE ReadOperand
    <2>1. wakeAt' = wakeAt
      BY <1>5 DEF ReadOperand, Read
    <2>2. \/ reads' = [reads EXCEPT !.up = keyUpTime]
          \/ reads' = [reads EXCEPT !.down = keyDownTime]
          \/ reads' = [reads EXCEPT !.clock = TimeStamp]
          \/ reads' = [reads EXCEPT !.again = keyUpTime]
      BY <1>5 DEF ReadOperand, Read
    <2> QED
      BY <2>1, <2>2 DEF TypeInv
  <1>6. CASE CompareDuration
    <2>1. reads.clock \in Int /\ reads.again \in Int /\ reads.delay \in Nat
      <3>1. Stamp \cup {Unread} \subseteq Int
        BY DEF Unread
      <3> QED
        BY <3>1 DEF TypeInv
    <2>2. KeyUpDuration \in Nat
      BY <2>1 DEF KeyUpDuration
    <2>3. wakeAt' = wakeAt
      BY <1>6 DEF CompareDuration
    <2>4. CASE reads' = reads
      BY <1>1, <2>3, <2>4
    <2>5. CASE /\ ~(KeyUpDuration >= reads.delay)
               /\ reads' = [reads EXCEPT !.interval = reads.delay - KeyUpDuration]
      <3>1. reads.delay - KeyUpDuration \in 0..reads.delay
        BY <2>1, <2>2, <2>5
      <3> HIDE DEF KeyUpDuration
      <3> QED
        BY <2>1, <2>3, <2>5, <3>1 DEF TypeInv
    <2> QED
      BY <1>6, <2>4, <2>5 DEF CompareDuration
  <1>7. CASE Rest
    BY <1>7 DEF Rest, TypeInv
  <1>8. CASE Tick \/ UNCHANGED vars
    BY <1>1, <1>8 DEF Tick, vars, loopVars
  <1> QED
    BY <1>2, <1>3, <1>4, <1>5, <1>6, <1>7, <1>8 DEF Next


\* Whatever the threads do at the same time, the ids are those of modes, the
\* stamps are times that have been, and the configuration is one that parsed.
LEMMA NextDataOK == TypeInv /\ [Next]_vars => DataOK'
  <1> SUFFICES ASSUME TypeInv, [Next]_vars PROVE DataOK'
    OBVIOUS
  <1>0. DataOK /\ Stamp' = Stamp /\ TimeStamp \in Stamp
    <2>1. Stamp' = Stamp
      BY NextClockInv DEF Stamp
    <2>2. scenario.maxTime \in Nat
      BY TunerAssumption DEF TypeInv, ClockInv
    <2>3. TimeStamp \in Stamp
      BY <2>2 DEF TypeInv, ClockInv, TimeStamp, Stamp
    <2> QED
      BY <2>1, <2>3 DEF TypeInv, TypeOK, DataOK
  <1> USE <1>0 DEF DataOK, modeVars, keyVars, fileVars
  <1>5. ASSUME NEW l \in Listeners, KeyDown(l) \/ KeyUp(l) \/ Unplug(l) PROVE DataOK'
    <2>1. AllUp' \in BOOLEAN
      BY DEF AllUp
    <2>2. (sawUp \/ AllUp') \in BOOLEAN
      OBVIOUS
    <2>3. sawUp' \in BOOLEAN
      BY <1>5, <2>2, Zenon DEF KeyDown, KeyUp, Unplug
    <2> QED
      BY <1>5, <2>3 DEF KeyDown, KeyUp, Unplug
  <1>6. ASSUME NEW l \in Listeners, KeyDownPost(l) PROVE DataOK'
    BY <1>6 DEF KeyDownPost
  <1>7. CASE ScreenOff \/ ScreenOn \/ \E name \in Apps : TopAppChanged(name)
    BY <1>7 DEF ScreenOff, ScreenOn, TopAppChanged, ReadPolicy
  <1>8. CASE ConfigModified
    <2>1. scenario.edits \subseteq Configs
      BY TunerAssumption DEF TypeInv, ClockInv
    <2> QED
      BY <1>8, <2>1 DEF ConfigModified
  <1>9. ASSUME NEW t \in {Watcher, Monitor}, InstallActive(t) \/ InstallIdle(t) PROVE DataOK'
    BY <1>9, Names DEF InstallActive, InstallIdle, Goto, At, TypeInv, ArgInv
  <1>10. ASSUME NEW t, Post(t) PROVE DataOK'
    BY <1>10 DEF Post, PostTask
  <1>11. CASE PauseTimer \/ ContinueTimer \/ ClearPaused \/ NotifyLoop
    BY <1>11 DEF PauseTimer, ContinueTimer, ClearPaused, NotifyLoop, NotTimer
  <1>12. CASE TakeTask
    BY <1>12 DEF TakeTask
  <1>13. CASE LoadConfig \/ ResetRefreshRate
    BY <1>13 DEF LoadConfig, ResetRefreshRate, NotSetter
  <1>14. ASSUME NEW t \in {Worker, IdleLoop}, SetterStep(t) PROVE DataOK'
    BY <1>14 DEF SetterStep, ReadModeId, RunCommand, SetFlag, NotSetter, Goto, At, TypeInv, ArgInv
  <1>15. CASE ReadDelay
    <2>1. sawUp' \in BOOLEAN
      BY <1>15 DEF ReadDelay, AllUp
    <2> QED
      BY <1>15, <2>1 DEF ReadDelay, NotLoop
  <1>16. CASE Wake \/ TestPaused \/ Wait \/ SpuriousWakeup \/ TestActive \/ Rest
    BY <1>16 DEF Wake, TestPaused, Wait, SpuriousWakeup, TestActive, Rest, NotLoop
  <1>17. CASE ReadOperand \/ CompareKeys \/ CompareDuration
    BY <1>17 DEF ReadOperand, Read, CompareKeys, CompareDuration, NotLoop
  <1>18. CASE Tick \/ SetBack \/ UNCHANGED vars
    BY <1>18 DEF Tick, SetBack, vars
  <1> QED
    BY <1>5, <1>6, <1>7, <1>8, <1>9, <1>10, <1>11, <1>12, <1>13, <1>14, <1>15,
       <1>16, <1>17, <1>18 DEF Next, Outside, Inside, WatcherStep, MonitorStep,
       HandlerStep, WorkerStep, IdleLoopStep

\* The types hold throughout.
LEMMA NextTypeInv == TypeInv /\ [Next]_vars => TypeInv'
  <1> SUFFICES ASSUME TypeInv, [Next]_vars PROVE TypeInv'
    OBVIOUS
  <1>1. ClockInv' /\ ReadsInv' /\ PlaceInv' /\ ArgInv' /\ DataOK' /\ wakeAt' \in Nat
    BY NextPlaceInv, NextArgInv, NextClockInv, NextReadsInv, NextDataOK
  <1>2. /\ scenario'.maxTime \in Nat /\ Stamp' = 0..scenario'.maxTime
    BY <1>1, TunerAssumption DEF ClockInv, Stamp
  <1>3. now' \in Stamp' /\ behind' \in Stamp'
    BY <1>1, <1>2 DEF ClockInv
  <1>4. reads'.delay \in Nat /\ reads'.interval \in 0..reads'.delay
    BY <1>1 DEF ReadsInv
  <1>5. {reads'.up, reads'.down, reads'.clock, reads'.again} \subseteq Stamp' \cup {Unread}
    BY <1>1 DEF ReadsInv
  <1>6. TypeOK'
    BY <1>1, <1>3, <1>4, <1>5 DEF TypeOK, DataOK, ClockInv, PlaceInv
  <1> QED
    BY <1>1, <1>6 DEF TypeInv

------------------------------------------------------------------------------
(* What the idle loop knows of the fingers, with one touch device *)

\* Only the touch devices stamp keys and move fingers.
LEMMA OthersKeepKeys ==
    ASSUME TypeInv, [Next]_vars,
           ~ \E l \in Listeners : KeyDown(l) \/ KeyDownPost(l) \/ KeyUp(l) \/ Unplug(l)
    PROVE  /\ UNCHANGED keyVars /\ AllUp' = AllUp
           /\ ReadDelay \/ UNCHANGED sawUp
           /\ now' >= now /\ (behind' = 0 => behind = 0)
           /\ \/ IdleLoopStep
              \/ UNCHANGED reads /\ pc'[IdleLoop] \in {pc[IdleLoop], "test"}
  <1> DEFINE Goal ==
        /\ UNCHANGED <<keyVars, now, behind>> /\ \A l \in Listeners : pc'[l] = pc[l]
        /\ ReadDelay \/ UNCHANGED sawUp
        /\ IdleLoopStep \/ (UNCHANGED reads /\ pc'[IdleLoop] \in {pc[IdleLoop], "test"})
  <1> USE Names DEF TypeInv, PlaceInv, Goto, At
  <1>1. ASSUME NEW t \in {Watcher, Monitor}, NEW name, ReadPolicy(t, name) PROVE
            /\ UNCHANGED <<keyVars, reads, sawUp>> /\ \A l \in Listeners : pc'[l] = pc[l]
            /\ pc'[IdleLoop] = pc[IdleLoop]
    BY <1>1 DEF ReadPolicy, loopVars
  <1>2. ASSUME ScreenOff \/ ScreenOn \/ \E name \in Apps : TopAppChanged(name) PROVE Goal
    BY <1>1, <1>2 DEF ScreenOff, ScreenOn, TopAppChanged, Event, Happens
  <1>3. ASSUME ConfigModified PROVE Goal
    BY <1>3 DEF ConfigModified, Event, Happens, loopVars
  <1>4. ASSUME NEW t \in {Watcher, Monitor}, HandlerStep(t) PROVE Goal
    BY <1>4 DEF HandlerStep, InstallActive, InstallIdle, Post, PostTask, loopVars, envVars
  <1>5. ASSUME PauseTimer \/ ContinueTimer \/ ClearPaused \/ NotifyLoop PROVE Goal
    BY <1>5 DEF PauseTimer, ContinueTimer, ClearPaused, NotifyLoop, NotTimer, loopVars, envVars
  <1>6. ASSUME TakeTask \/ LoadConfig \/ ResetRefreshRate PROVE Goal
    BY <1>6 DEF TakeTask, LoadConfig, ResetRefreshRate, NotSetter, loopVars, envVars
  <1>7. ASSUME SetterStep(Worker) PROVE Goal
    BY <1>7 DEF SetterStep, ReadModeId, RunCommand, SetFlag, NotSetter, loopVars, envVars
  <1>8. ASSUME SetterStep(IdleLoop) PROVE Goal
    BY <1>8 DEF SetterStep, ReadModeId, RunCommand, SetFlag, NotSetter, envVars, IdleLoopStep
  <1>9. ASSUME Wake \/ TestPaused \/ Wait \/ ReadDelay \/ TestActive \/ Rest PROVE Goal
    BY <1>9 DEF Wake, TestPaused, Wait, ReadDelay, TestActive, Rest, NotLoop, envVars, IdleLoopStep
  <1>10. ASSUME ReadOperand \/ CompareKeys \/ CompareDuration PROVE Goal
    BY <1>10 DEF ReadOperand, Read, CompareKeys, CompareDuration, NotLoop, envVars, IdleLoopStep
  <1>11. ASSUME SpuriousWakeup \/ UNCHANGED vars PROVE Goal
    BY <1>11 DEF SpuriousWakeup, NotLoop, vars, loopVars, envVars
  <1>12. ASSUME Goal PROVE
            /\ UNCHANGED keyVars /\ AllUp' = AllUp
            /\ ReadDelay \/ UNCHANGED sawUp
            /\ now' >= now /\ (behind' = 0 => behind = 0)
            /\ \/ IdleLoopStep
               \/ UNCHANGED reads /\ pc'[IdleLoop] \in {pc[IdleLoop], "test"}
    <2>1. now \in Nat
      BY TunerAssumption DEF ClockInv, Stamp
    <2>2. AllUp' = AllUp
      BY <1>12 DEF AllUp
    <2> QED
      BY <1>12, <2>1, <2>2
  <1>13. ASSUME Tick \/ SetBack
         PROVE  /\ UNCHANGED keyVars /\ UNCHANGED <<pc, sawUp, reads>>
                /\ now' >= now /\ (behind' = 0 => behind = 0)
    <2>1. now \in Nat /\ behind \in Nat
      BY TunerAssumption DEF ClockInv, Stamp
    <2> QED
      BY <1>13, <2>1 DEF Tick, SetBack, Happens, loopVars
  <1>14. UNCHANGED pc => AllUp' = AllUp
    BY DEF AllUp
  <1> HIDE DEF Goal
  <1>15. Goal \/ Tick \/ SetBack
    BY <1>2, <1>3, <1>4, <1>5, <1>6, <1>7, <1>8, <1>9, <1>10, <1>11
       DEF Next, Outside, Inside, WatcherStep, MonitorStep, WorkerStep, IdleLoopStep
  <1> QED
    BY <1>12, <1>13, <1>14, <1>15

\* A moment without a finger is seen when the last finger goes up or its device
\* goes, or when the iteration begins.
LEMMA NextSawInv == TypeInv /\ SawInv /\ [Next]_vars => SawInv'
  <1> SUFFICES ASSUME TypeInv, SawInv, [Next]_vars PROVE SawInv'
    OBVIOUS
  <1> USE DEF SawInv
  <1>1. ASSUME NEW l \in Listeners, KeyDown(l) PROVE SawInv'
    <2>1. pc'[l] = "down"
      BY <1>1, Names DEF KeyDown, Goto, TypeInv, PlaceInv
    <2> QED
      BY <2>1 DEF AllUp
  <1>2. ASSUME NEW l \in Listeners, KeyDownPost(l) PROVE SawInv'
    <2>1. pc'[l] = "touching"
      BY <1>2, Names DEF KeyDownPost, Goto, TypeInv, PlaceInv
    <2> QED
      BY <2>1 DEF AllUp
  <1>3. ASSUME NEW l \in Listeners, KeyUp(l) \/ Unplug(l) PROVE SawInv'
    BY <1>3, Zenon DEF KeyUp, Unplug
  <1>4. CASE ~ \E l \in Listeners : KeyDown(l) \/ KeyDownPost(l) \/ KeyUp(l) \/ Unplug(l)
    <2>1. CASE ReadDelay
      BY <1>4, <2>1, OthersKeepKeys DEF ReadDelay
    <2>2. CASE UNCHANGED sawUp
      BY <1>4, <2>2, OthersKeepKeys
    <2> QED
      BY <1>4, <2>1, <2>2, OthersKeepKeys
  <1> QED
    BY <1>1, <1>2, <1>3, <1>4

\* With one device a key down finds no finger on the screen, and what IdleLoop_
\* reads while its finger stays down are the stamps of that key down and of the
\* key up before it.
LEMMA NextKeyInv ==
    ASSUME \A l, m \in Listeners : l = m, TypeInv, SawInv, KeyInv, [Next]_vars
    PROVE  KeyInv'
  <1> SUFFICES ASSUME behind' = 0 PROVE KeyInv'
    BY DEF KeyInv
  <1>0. now \in Nat /\ keyDownTime \in Nat /\ keyUpTime \in Nat /\ behind \in Nat
        /\ IdleLoop \in Threads /\ IdleLoop \notin Listeners
        /\ pc \in [Threads -> ThreadPC] /\ Listeners \subseteq Threads
    <2>1. scenario.maxTime \in Nat
      BY TunerAssumption DEF TypeInv, ClockInv
    <2> QED
      BY <2>1, Names DEF TypeInv, TypeOK, ClockInv, Stamp
  <1>1. ASSUME NEW l \in Listeners, KeyDown(l) PROVE KeyInv'
    <2>1. /\ behind = 0 /\ now' = now /\ UNCHANGED <<reads, sawUp, keyUpTime>>
          /\ keyDownTime' = now /\ pc' = [pc EXCEPT ![l] = "down"] /\ pc[l] = "up"
      BY <1>0, <1>1 DEF KeyDown, Event, Happens, Goto, At, TimeStamp, loopVars
    <2>2. AllUp
      BY <2>1 DEF AllUp
    <2>3. sawUp /\ pc'[IdleLoop] = pc[IdleLoop]
      BY <1>0, <2>1, <2>2 DEF SawInv
    <2> QED
      BY <1>0, <2>1, <2>3 DEF KeyInv
  <1>2. ASSUME NEW l \in Listeners, KeyDownPost(l) PROVE KeyInv'
    <2>1. /\ UNCHANGED <<behind, now, reads, sawUp, keyUpTime, keyDownTime>>
          /\ pc' = [pc EXCEPT ![l] = "touching"] /\ pc[l] = "down"
      BY <1>0, <1>2 DEF KeyDownPost, Goto, At, loopVars, envVars, keyVars
    <2>2. ~AllUp /\ pc'[IdleLoop] = pc[IdleLoop]
      BY <1>0, <2>1 DEF AllUp
    <2> QED
      BY <1>0, <2>1, <2>2 DEF KeyInv
  <1>3. ASSUME NEW l \in Listeners, KeyUp(l) \/ Unplug(l) PROVE KeyInv'
    <2>1. /\ UNCHANGED <<behind, now, reads, keyDownTime>> /\ behind = 0
          /\ keyUpTime' \in {keyUpTime, now}
          /\ pc'[l] \in {"up", "gone"} /\ pc'[IdleLoop] = pc[IdleLoop]
      BY <1>0, <1>3 DEF KeyUp, Unplug, Event, Happens, Goto, At, TimeStamp, loopVars, envVars, keyVars
    <2>2. AllUp'
      BY <2>1 DEF AllUp
    <2>3. sawUp'
      BY <1>3, <2>2, Zenon DEF KeyUp, Unplug
    <2> QED
      BY <1>0, <2>1, <2>2, <2>3 DEF KeyInv
  <1>4. CASE ~ \E l \in Listeners : KeyDown(l) \/ KeyDownPost(l) \/ KeyUp(l) \/ Unplug(l)
    <2>1. /\ UNCHANGED <<keyUpTime, keyDownTime>> /\ AllUp' = AllUp /\ now' >= now /\ behind = 0
          /\ ReadDelay \/ UNCHANGED sawUp
          /\ IdleLoopStep \/ (UNCHANGED reads /\ pc'[IdleLoop] \in {pc[IdleLoop], "test"})
          /\ now' \in Nat
      <3>1. now' \in Nat
        BY NextTypeInv, TunerAssumption DEF TypeInv, ClockInv, Stamp
      <3> QED
        BY <1>4, <3>1, OthersKeepKeys DEF keyVars
    <2>2. /\ keyDownTime' <= now' /\ keyUpTime' <= now' /\ (~AllUp' => keyUpTime' <= keyDownTime')
      BY <1>0, <2>1 DEF KeyInv
    <2> DEFINE SeesInv ==
          /\ pc[IdleLoop] \in {"active?", "keys"} /\ ~sawUp =>
                 /\ reads.up \in {Unread, keyUpTime}
                 /\ reads.down \in {Unread, keyDownTime}
          /\ pc[IdleLoop] \in {"duration"} \cup Setting => sawUp
    <2>3. SeesInv /\ (~AllUp => keyUpTime <= keyDownTime)
      BY <2>1 DEF KeyInv
    <2> USE DEF Goto, At, Setting
    <2>4. ASSUME UNCHANGED reads, pc'[IdleLoop] \in {pc[IdleLoop], "test"}, UNCHANGED sawUp
          PROVE  SeesInv'
      BY <2>1, <2>3, <2>4
    <2>5. ASSUME Wake \/ TestPaused \/ Wait \/ Rest PROVE SeesInv'
      BY <1>0, <2>5 DEF Wake, TestPaused, Wait, Rest
    <2>6. ASSUME ReadDelay PROVE SeesInv'
      BY <1>0, <2>6 DEF ReadDelay, Fresh
    <2>7. ASSUME TestActive PROVE SeesInv'
      BY <1>0, <2>1, <2>3, <2>7 DEF TestActive, loopVars
    <2>8. ASSUME ReadOperand PROVE SeesInv'
      <3>1. /\ UNCHANGED <<pc, sawUp>>
            /\ \/ reads' = [reads EXCEPT !.up = keyUpTime]
               \/ reads' = [reads EXCEPT !.down = keyDownTime]
               \/ pc[IdleLoop] = "duration"
        BY <2>8 DEF ReadOperand, Read
      <3> QED
        BY <2>1, <2>3, <3>1 DEF TypeInv, ReadsInv
    <2>9. ASSUME CompareKeys PROVE SeesInv'
      <3>1. /\ pc[IdleLoop] = "keys" /\ Unread \notin {reads.up, reads.down}
            /\ UNCHANGED <<reads, sawUp>>
            /\ pc'[IdleLoop] = IF reads.up > reads.down THEN "duration" ELSE "rest"
        BY <1>0, <2>9 DEF CompareKeys, loopVars
      <3>2. ~sawUp => reads.up = keyUpTime /\ reads.down = keyDownTime
        BY <2>3, <3>1
      <3>3. ~sawUp => ~(reads.up > reads.down)
        BY <1>0, <2>3, <3>2 DEF SawInv
      <3> QED
        BY <3>1, <3>3
    <2>10. ASSUME CompareDuration PROVE SeesInv'
      BY <1>0, <2>3, <2>10 DEF CompareDuration
    <2>11. ASSUME SetterStep(IdleLoop) PROVE SeesInv'
      <3>1. UNCHANGED sawUp /\ pc'[IdleLoop] \in {"runActive", "runIdle", "flagActive", "flagIdle", "rest"}
            /\ pc[IdleLoop] \in {"setActive", "runActive", "flagActive"} \cup Setting
        BY <1>0, <2>11, Names DEF SetterStep, ReadModeId, RunCommand, SetFlag, NotSetter
      <3>2. pc[IdleLoop] \in Setting
        BY <3>1 DEF TypeInv, PlaceInv, IdleLoopPC
      <3> QED
        BY <2>3, <3>1, <3>2
    <2>12. SeesInv'
      <3>1. CASE IdleLoopStep
        BY <2>5, <2>6, <2>7, <2>8, <2>9, <2>10, <2>11, <3>1 DEF IdleLoopStep
      <3>2. CASE ~IdleLoopStep
        BY <2>1, <2>4, <2>6, <3>2
      <3> QED
        BY <3>1, <3>2
    <2> QED
      BY <2>1, <2>2, <2>12 DEF KeyInv
  <1> QED
    BY <1>1, <1>2, <1>3, <1>4

\* No finger has been down when Start() ends.
LEMMA InitIInv == Init => IInv
  <1> SUFFICES ASSUME Init PROVE IInv
    OBVIOUS
  <1>1. AllUp
    BY Names DEF Init, AllUp
  <1>2. SawInv /\ KeyInv
    BY <1>1, Names DEF Init, SawInv, KeyInv, Setting
  <1> QED
    BY <1>2, InitTypeInv DEF IInv

\* The types and places hold throughout, for any number of devices.
THEOREM TypeCorrect == Spec => []TypeInv
  BY InitTypeInv, NextTypeInv, PTL DEF Spec

\* With one touch device, IdleLoop_ never decides to turn the rate down in an
\* iteration during all of which a finger was on the screen, however its reads
\* of the two stamps fall between the writes of KeyDown_ and KeyUp_.
THEOREM IdleNeverMissesTouch ==
    ASSUME \A l, m \in Listeners : l = m
    PROVE  Spec => []IdleSawNoTouch
  <1>1. IInv /\ [Next]_vars => IInv'
    BY NextTypeInv, NextSawInv, NextKeyInv DEF IInv
  <1>2. IInv => IdleSawNoTouch
    BY DEF IInv, TypeInv, KeyInv, IdleSawNoTouch
  <1> QED
    BY InitIInv, <1>1, <1>2, PTL DEF Spec

------------------------------------------------------------------------------
(* What active_ tells, when threads keep up with the clock *)

\* Without app changes and screen events only KeyDown_ posts a task that sets a
\* rate, and nothing changes the two ids.
CalmInv ==
    scenario.punctual =>
        /\ budget["app"] = 0 /\ budget["screen"] = 0
        /\ pc[Watcher] = "ready" /\ pc[Monitor] = "ready"
        /\ pc[Worker] \in {"ready", "load", "setActive", "runActive", "flagActive"}
        /\ tasks \in Seq({"setActive", "load"})

\* A SetActiveRefreshRate_ is queued or runs.
Posted ==
    \/ pc[Worker] \in {"setActive", "runActive", "flagActive"}
    \/ \E i \in 1..Len(tasks) : tasks[i] = "setActive"

\* The clock stands still while it is, so that IdleLoop_ takes the key down that
\* posted it for later than any key up; and active_, which let IdleLoop_ in, is
\* cleared by IdleLoop_ alone.
TouchInv ==
    scenario.punctual /\ behind = 0 =>
        /\ keyUpTime <= now
        /\ \A l \in Listeners : pc[l] = "down" => keyDownTime = now
        /\ Posted =>
               /\ keyDownTime = now
               /\ pc[IdleLoop] = "keys" => reads.down \in {Unread, now}
               /\ pc[IdleLoop] \notin {"duration"} \cup Setting
        /\ pc[IdleLoop] = "active?" => reads.down = Unread
        /\ pc[IdleLoop] \in {"active?", "keys"} => reads.up <= now
        /\ pc[IdleLoop] \in {"keys", "duration"} \cup Setting => active

\* Who is setting a rate has the id of that rate, and has shown it before the flag.
ShowInv ==
    scenario.punctual /\ behind = 0 =>
        /\ pc[Worker] = "runActive" => arg[Worker] = activeDisplayModeId
        /\ pc[Worker] = "flagActive" => display = activeDisplayModeId
        /\ pc[IdleLoop] = "runIdle" => arg[IdleLoop] = idleDisplayModeId
        /\ pc[IdleLoop] = "flagIdle" => display = idleDisplayModeId
        /\ pc[Worker] # "flagActive" /\ pc[IdleLoop] # "flagIdle" =>
               display = IF active THEN activeDisplayModeId ELSE idleDisplayModeId

FlagInv == TypeInv /\ CalmInv /\ TouchInv /\ ShowInv

\* An app change or a screen that comes on has the worker set a rate while
\* IdleLoop_ sets the other, whose flag may come last (run TunerAppChange).
\* Of the scenarios in time, those of FlagMatchesDisplay have neither.
Calm == \A s \in Scenarios : s.punctual => s.budget["app"] = 0 /\ s.budget["screen"] = 0

\* The steps that are left then.
CalmStep ==
    \/ \E l \in Listeners : KeyDown(l) \/ KeyDownPost(l) \/ KeyUp(l) \/ Unplug(l)
    \/ ConfigModified \/ TakeTask \/ LoadConfig \/ SetterStep(Worker)
    \/ IdleLoopStep \/ SpuriousWakeup \/ SetBack \/ Tick \/ UNCHANGED vars

\* The watcher and the monitor never leave their first step.
LEMMA CalmSteps ==
    ASSUME TypeInv, CalmInv, scenario.punctual, [Next]_vars
    PROVE  CalmStep
  <1> USE Names DEF Goto, At
  <1>1. ~Event("app") /\ ~Event("screen")
    BY DEF CalmInv, Event, Happens
  <1>2. ~(ScreenOff \/ ScreenOn \/ \E name \in Apps : TopAppChanged(name))
    BY <1>1 DEF ScreenOff, ScreenOn, TopAppChanged
  <1>3. ~(HandlerStep(Watcher) \/ HandlerStep(Monitor))
    BY DEF CalmInv, HandlerStep, InstallActive, InstallIdle, Post, PostTask
  <1>4. ~(PauseTimer \/ ContinueTimer \/ ClearPaused \/ NotifyLoop)
    BY DEF CalmInv, PauseTimer, ContinueTimer, ClearPaused, NotifyLoop
  <1>5. ~ResetRefreshRate
    BY DEF CalmInv, ResetRefreshRate
  <1> QED
    BY <1>2, <1>3, <1>4, <1>5
       DEF CalmStep, Next, Outside, Inside, WatcherStep, MonitorStep, WorkerStep

\* What it does to Posted to post a task.
LEMMA PostingOne ==
    ASSUME NEW s \in Seq({"setActive", "load"}), NEW x \in {"setActive", "load"}
    PROVE  /\ Append(s, x) \in Seq({"setActive", "load"})
           /\ (\E i \in 1..Len(Append(s, x)) : Append(s, x)[i] = "setActive")
                => x = "setActive" \/ \E i \in 1..Len(s) : s[i] = "setActive"
  OBVIOUS

\* And to take one: the one taken was queued, and so was every other.
LEMMA TakingOne ==
    ASSUME NEW s \in Seq({"setActive", "load"}), s # <<>>
    PROVE  /\ Tail(s) \in Seq({"setActive", "load"}) /\ Head(s) \in {"setActive", "load"}
           /\ Head(s) = "setActive" => \E i \in 1..Len(s) : s[i] = "setActive"
           /\ (\E i \in 1..Len(Tail(s)) : Tail(s)[i] = "setActive")
                => \E i \in 1..Len(s) : s[i] = "setActive"
  <1>1. 1 \in 1..Len(s) /\ Head(s) = s[1]
    OBVIOUS
  <1>2. ASSUME NEW i \in 1..Len(Tail(s)) PROVE i + 1 \in 1..Len(s) /\ Tail(s)[i] = s[i + 1]
    OBVIOUS
  <1>3. Tail(s) \in Seq({"setActive", "load"}) /\ Head(s) \in {"setActive", "load"}
    OBVIOUS
  <1> QED
    BY <1>1, <1>2, <1>3

\* Nothing but SetActiveRefreshRate_ and LoadConfig_ is ever posted.
LEMMA NextCalmInv ==
    ASSUME TypeInv, CalmInv, [Next]_vars
    PROVE  CalmInv'
  <1> SUFFICES ASSUME scenario.punctual PROVE CalmInv'
    BY NextClockInv DEF CalmInv
  <1> USE Names DEF TypeInv, PlaceInv, CalmInv, Goto, At
  <1>1. ASSUME NEW kind \in EventKind, Happens(kind)
        PROVE  budget'["app"] = 0 /\ budget'["screen"] = 0
    BY <1>1 DEF Happens, ClockInv, EventKind
  <1>2. {"touch", "unplug", "write", "clock"} \subseteq EventKind
    BY DEF EventKind
  <1>3. ASSUME NEW l \in Listeners, KeyDown(l) \/ KeyUp(l) \/ Unplug(l) PROVE CalmInv'
    BY <1>1, <1>2, <1>3 DEF KeyDown, KeyUp, Unplug, Event, envVars
  <1>4. ASSUME NEW l \in Listeners, KeyDownPost(l) PROVE CalmInv'
    BY <1>4, PostingOne DEF KeyDownPost, envVars
  <1>5. CASE ConfigModified
    BY <1>1, <1>2, <1>5, PostingOne DEF ConfigModified, Event
  <1>6. CASE TakeTask
    BY <1>6, TakingOne DEF TakeTask, envVars
  <1>7. CASE LoadConfig \/ SetterStep(Worker)
    BY <1>7 DEF LoadConfig, SetterStep, ReadModeId, RunCommand, SetFlag, NotSetter, envVars
  <1>8. CASE SetterStep(IdleLoop)
    BY <1>8 DEF SetterStep, ReadModeId, RunCommand, SetFlag, NotSetter, envVars
  <1>9. CASE Wake \/ TestPaused \/ Wait \/ ReadDelay \/ TestActive \/ Rest \/ SpuriousWakeup
    BY <1>9 DEF Wake, TestPaused, Wait, ReadDelay, TestActive, Rest, SpuriousWakeup, NotLoop, envVars
  <1>10. CASE ReadOperand \/ CompareKeys \/ CompareDuration
    BY <1>10 DEF ReadOperand, Read, CompareKeys, CompareDuration, NotLoop, envVars
  <1>11. CASE SetBack
    BY <1>1, <1>2, <1>11 DEF SetBack
  <1>12. CASE Tick \/ UNCHANGED vars
    BY <1>12 DEF Tick, vars, envVars
  <1> QED
    BY CalmSteps, <1>3, <1>4, <1>5, <1>6, <1>7, <1>8, <1>9, <1>10, <1>11, <1>12
       DEF CalmStep, IdleLoopStep

\* The clock stands still while a task is queued, and IdleLoop_ knows it.
LEMMA NextTouchInv ==
    ASSUME TypeInv, CalmInv, TouchInv, [Next]_vars
    PROVE  TouchInv'
  <1> SUFFICES ASSUME scenario.punctual, behind' = 0 PROVE TouchInv'
    BY NextClockInv DEF TouchInv
  <1>0. now \in Nat /\ keyDownTime \in Nat /\ keyUpTime \in Nat /\ behind \in Nat
    <2>1. scenario.maxTime \in Nat
      BY TunerAssumption DEF TypeInv, ClockInv
    <2> QED
      BY <2>1 DEF TypeInv, TypeOK, ClockInv, Stamp
  <1> USE Names DEF TypeInv, PlaceInv, Goto, At, Setting
  <1> DEFINE Queued == \E i \in 1..Len(tasks) : tasks[i] = "setActive"
             Sets == pc[Worker] \in {"setActive", "runActive", "flagActive"}
  <1>1. Posted = (Sets \/ Queued)
    BY DEF Posted
  <1>2. Posted' = (Sets' \/ Queued')
    BY DEF Posted
  <1>3. ASSUME NEW l \in Listeners, KeyDown(l) PROVE TouchInv'
    <2>1. /\ behind = 0 /\ UNCHANGED <<now, reads, keyUpTime, active, tasks>>
          /\ keyDownTime' = now /\ pc' = [pc EXCEPT ![l] = "down"]
      BY <1>0, <1>3 DEF KeyDown, Event, Happens, TimeStamp, loopVars
    <2> QED
      BY <1>1, <1>2, <2>1 DEF TouchInv
  <1>4. ASSUME NEW l \in Listeners, KeyDownPost(l) PROVE TouchInv'
    <2>1. /\ behind = 0 /\ UNCHANGED <<now, reads, keyVars, active>>
          /\ pc' = [pc EXCEPT ![l] = "touching"] /\ pc[l] = "down"
      BY <1>4 DEF KeyDownPost, loopVars, envVars
    <2>2. CASE active
      <3>1. tasks' = tasks
        BY <1>4, <2>2 DEF KeyDownPost
      <3> QED
        BY <1>1, <1>2, <2>1, <3>1 DEF TouchInv, keyVars
    <2>3. CASE ~active
      <3>1. keyDownTime = now /\ pc[IdleLoop] \notin {"keys", "duration"} \cup Setting
        BY <2>1, <2>3 DEF TouchInv
      <3> QED
        BY <2>1, <3>1 DEF TouchInv, keyVars
    <2> QED
      BY <2>2, <2>3
  <1>5. ASSUME NEW l \in Listeners, KeyUp(l) \/ Unplug(l) PROVE TouchInv'
    <2>1. /\ behind = 0 /\ UNCHANGED <<now, reads, keyDownTime, active, tasks>>
          /\ keyUpTime' \in {keyUpTime, now} /\ pc' \in {[pc EXCEPT ![l] = "up"], [pc EXCEPT ![l] = "gone"]}
      BY <1>0, <1>5 DEF KeyUp, Unplug, Event, Happens, TimeStamp, loopVars, envVars, keyVars
    <2> QED
      BY <1>0, <1>1, <1>2, <2>1 DEF TouchInv
  <1>6. ASSUME ConfigModified PROVE TouchInv'
    <2>1. /\ behind = 0 /\ UNCHANGED <<now, reads, keyVars, active>> /\ tasks' = Append(tasks, "load")
          /\ pc' = [pc EXCEPT ![Watcher] = "ready"]
      BY <1>6 DEF ConfigModified, Event, Happens, loopVars
    <2>2. Queued' => Queued
      BY <2>1, PostingOne DEF CalmInv
    <2> HIDE DEF Queued
    <2> QED
      BY <1>1, <1>2, <2>1, <2>2 DEF TouchInv, keyVars
  <1>7. ASSUME TakeTask PROVE TouchInv'
    <2>1. /\ behind = 0 /\ UNCHANGED <<now, reads, keyVars, active>>
          /\ pc' = [pc EXCEPT ![Worker] = Head(tasks)]
      BY <1>7 DEF TakeTask, envVars, loopVars
    <2>2. (Head(tasks) = "setActive" => Queued) /\ (Queued' => Queued) /\ Head(tasks) \in {"setActive", "load"}
      BY <1>7, TakingOne DEF TakeTask, CalmInv
    <2>3. Posted' => Posted
      <3> HIDE DEF Queued
      <3> QED
        BY <1>1, <1>2, <2>1, <2>2
    <2> QED
      BY <2>1, <2>3 DEF TouchInv, keyVars
  <1>8. ASSUME LoadConfig \/ SetterStep(Worker) PROVE TouchInv'
    <2>1. /\ behind = 0 /\ UNCHANGED <<now, reads, keyVars, tasks>>
          /\ active => active'
          /\ pc' = [pc EXCEPT ![Worker] = pc'[Worker]]
          /\ Sets' => Sets
      BY <1>8 DEF LoadConfig, SetterStep, ReadModeId, RunCommand, SetFlag, NotSetter,
                  envVars, loopVars, CalmInv
    <2>2. Posted' => Posted
      BY <1>1, <1>2, <2>1
    <2>3. pc'[IdleLoop] = pc[IdleLoop] /\ \A l \in Listeners : pc'[l] = pc[l]
      BY <2>1
    <2> QED
      BY <2>1, <2>2, <2>3 DEF TouchInv, keyVars
  <1>9. ASSUME UNCHANGED <<now, behind, keyVars, tasks>>, UNCHANGED pc \/ IdleLoopStep \/ SpuriousWakeup
        PROVE  /\ behind = 0 /\ Posted' = Posted
               /\ pc' = [pc EXCEPT ![IdleLoop] = pc'[IdleLoop]]
               /\ keyUpTime' <= now' /\ \A l \in Listeners : pc'[l] = "down" => keyDownTime' = now'
               /\ Posted' => keyDownTime' = now'
    <2>1. pc' = [pc EXCEPT ![IdleLoop] = pc'[IdleLoop]]
      BY <1>9 DEF IdleLoopStep, Wake, TestPaused, Wait, ReadDelay, TestActive, Rest,
            SpuriousWakeup, ReadOperand, Read, CompareKeys, CompareDuration,
            SetterStep, ReadModeId, RunCommand, SetFlag
    <2>2. Posted' = Posted
      BY <1>1, <1>2, <1>9, <2>1
    <2> QED
      BY <1>9, <2>1, <2>2 DEF TouchInv, keyVars
  <1>10. ASSUME Wake \/ TestPaused \/ Wait \/ Rest \/ SpuriousWakeup PROVE TouchInv'
    <2>1. /\ UNCHANGED <<now, behind, keyVars, tasks>> /\ UNCHANGED active
          /\ pc'[IdleLoop] \in {"test", "wait", "iterate", "waiting", "sleep"}
      BY <1>10 DEF Wake, TestPaused, Wait, Rest, SpuriousWakeup, NotLoop, envVars
    <2> QED
      BY <1>9, <1>10, <2>1 DEF TouchInv, IdleLoopStep
  <1>11. ASSUME ReadDelay PROVE TouchInv'
    <2>1. /\ UNCHANGED <<now, behind, keyVars, tasks>> /\ UNCHANGED active
          /\ pc'[IdleLoop] \in {"active?", "crashed"}
          /\ reads'.up = Unread /\ reads'.down = Unread
      BY <1>11 DEF ReadDelay, Fresh, NotLoop, envVars
    <2> QED
      BY <1>0, <1>9, <1>11, <2>1 DEF TouchInv, IdleLoopStep, Unread
  <1>12. ASSUME TestActive PROVE TouchInv'
    <2>1. /\ UNCHANGED <<now, behind, keyVars, tasks>> /\ UNCHANGED <<active, reads>>
          /\ pc[IdleLoop] = "active?" /\ pc'[IdleLoop] = IF active THEN "keys" ELSE "rest"
      BY <1>12 DEF TestActive, NotLoop, envVars, loopVars
    <2> QED
      BY <1>9, <1>12, <2>1 DEF TouchInv, IdleLoopStep
  <1>13. ASSUME ReadOperand PROVE TouchInv'
    <2>1. /\ UNCHANGED <<now, behind, keyVars, tasks>> /\ UNCHANGED <<active, pc>>
          /\ \/ reads' = [reads EXCEPT !.up = keyUpTime] /\ pc[IdleLoop] = "keys"
             \/ reads' = [reads EXCEPT !.down = keyDownTime] /\ pc[IdleLoop] = "keys"
             \/ pc[IdleLoop] = "duration"
      BY <1>13 DEF ReadOperand, Read, NotLoop, envVars
    <2> QED
      BY <1>9, <2>1 DEF TouchInv, ReadsInv
  <1>14. ASSUME CompareKeys PROVE TouchInv'
    <2>1. /\ UNCHANGED <<now, behind, keyVars, tasks>> /\ UNCHANGED <<active, reads>>
          /\ pc[IdleLoop] = "keys" /\ reads.down # Unread
          /\ pc'[IdleLoop] = IF reads.up > reads.down THEN "duration" ELSE "rest"
      BY <1>14 DEF CompareKeys, NotLoop, envVars, loopVars
    <2>2. Posted => ~(reads.up > reads.down)
      <3>1. reads.up \in Int
        BY TunerAssumption DEF ReadsInv, Stamp, ClockInv, Unread
      <3> QED
        BY <1>0, <1>9, <1>14, <2>1, <3>1 DEF TouchInv, IdleLoopStep
    <2> QED
      BY <1>9, <1>14, <2>1, <2>2 DEF TouchInv, IdleLoopStep
  <1>15. ASSUME CompareDuration PROVE TouchInv'
    <2>1. /\ UNCHANGED <<now, behind, keyVars, tasks>> /\ UNCHANGED active
          /\ pc[IdleLoop] = "duration" /\ pc'[IdleLoop] \in {"setIdle", "rest"}
      BY <1>15 DEF CompareDuration, NotLoop, envVars
    <2> QED
      BY <1>9, <1>15, <2>1 DEF TouchInv, IdleLoopStep
  <1>16. ASSUME SetterStep(IdleLoop) PROVE TouchInv'
    <2>1. /\ UNCHANGED <<now, behind, keyVars, tasks>> /\ pc[IdleLoop] \in Setting
          /\ \/ pc'[IdleLoop] \in Setting /\ UNCHANGED active
             \/ pc'[IdleLoop] = "rest"
      BY <1>16 DEF SetterStep, ReadModeId, RunCommand, SetFlag, NotSetter, envVars, IdleLoopPC
    <2>2. behind = 0 /\ ~Posted /\ ~Posted'
      BY <1>9, <1>16, <2>1 DEF TouchInv, IdleLoopStep
    <2>3. pc'[IdleLoop] \in Setting => active'
      BY <2>1, <2>2 DEF TouchInv
    <2> QED
      BY <1>9, <1>16, <2>1, <2>2, <2>3 DEF TouchInv, IdleLoopStep
  <1>17. ASSUME Tick PROVE TouchInv'
    <2>1. /\ Settled /\ now' = now + 1
          /\ UNCHANGED <<behind, keyUpTime, keyDownTime, tasks, pc, active, reads>>
      BY <1>17 DEF Tick, loopVars, keyVars
    <2>2. /\ pc[Worker] = "ready" /\ tasks = <<>> /\ pc[IdleLoop] \in {"waiting", "sleep"}
          /\ \A l \in Listeners : pc[l] # "down"
      BY <2>1 DEF Settled, WorkerPC
    <2>3. ~Posted'
      BY <2>1, <2>2 DEF Posted
    <2>4. behind = 0 /\ keyUpTime' <= now'
      BY <1>0, <2>1 DEF TouchInv
    <2> HIDE DEF Queued, Sets
    <2> QED
      BY <2>1, <2>2, <2>3, <2>4 DEF TouchInv
  <1>18. ~SetBack
    <2> SUFFICES ASSUME SetBack PROVE FALSE
      OBVIOUS
    <2> QED
      BY <1>0 DEF SetBack
  <1>19. ASSUME UNCHANGED vars PROVE TouchInv'
    <2>1. /\ UNCHANGED <<now, behind, keyUpTime, keyDownTime, tasks, pc, active, reads>>
      BY <1>19 DEF vars, envVars, loopVars, keyVars
    <2> QED
      BY <1>1, <1>2, <2>1 DEF TouchInv
  <1> HIDE DEF TypeInv, PlaceInv, Goto, At, Setting
  <1> QED
    BY CalmSteps, <1>3, <1>4, <1>5, <1>6, <1>7, <1>8, <1>10, <1>11, <1>12, <1>13,
       <1>14, <1>15, <1>16, <1>17, <1>18, <1>19 DEF CalmStep, IdleLoopStep

\* The worker and IdleLoop_ never set a rate at the same time, and each has run
\* the command for its rate before it writes active_.
LEMMA NextShowInv ==
    ASSUME TypeInv, CalmInv, TouchInv, ShowInv, [Next]_vars
    PROVE  ShowInv'
  <1> SUFFICES ASSUME scenario.punctual, behind' = 0 PROVE ShowInv'
    BY NextClockInv DEF ShowInv
  <1> DEFINE rates == <<activeDisplayModeId, idleDisplayModeId>>
             rate == IF active THEN activeDisplayModeId ELSE idleDisplayModeId
             Resting == pc[Worker] # "flagActive" /\ pc[IdleLoop] # "flagIdle"
  <1>0. behind \in Nat /\ active \in BOOLEAN
    BY TunerAssumption DEF TypeInv, TypeOK, ClockInv, Stamp
  <1> USE Names DEF TypeInv, PlaceInv, Goto, At, Setting
  <1>1. ASSUME UNCHANGED rates, UNCHANGED <<behind, display, active, arg>>,
               pc'[IdleLoop] = pc[IdleLoop] \/ pc'[IdleLoop] \notin {"runIdle", "flagIdle"},
               pc'[Worker] = pc[Worker] \/ pc'[Worker] \notin {"runActive", "flagActive"},
               pc[IdleLoop] # "flagIdle" \/ pc'[IdleLoop] = "flagIdle",
               pc[Worker] # "flagActive" \/ pc'[Worker] = "flagActive"
        PROVE  ShowInv'
    BY <1>1 DEF ShowInv
  <1>2. ASSUME NEW l \in Listeners, KeyDown(l) \/ KeyDownPost(l) \/ KeyUp(l) \/ Unplug(l)
        PROVE  ShowInv'
    <2>1. UNCHANGED rates /\ UNCHANGED <<behind, display, active, arg>>
      BY <1>2 DEF KeyDown, KeyDownPost, KeyUp, Unplug, Event, Happens, envVars, modeVars
    <2>2. pc'[IdleLoop] = pc[IdleLoop] /\ pc'[Worker] = pc[Worker]
      BY <1>2 DEF KeyDown, KeyDownPost, KeyUp, Unplug
    <2> QED
      BY <1>1, <2>1, <2>2
  <1>3. ASSUME ConfigModified \/ TakeTask \/ LoadConfig PROVE ShowInv'
    <2>1. UNCHANGED rates /\ UNCHANGED <<behind, display, active, arg>>
      BY <1>3 DEF ConfigModified, TakeTask, LoadConfig, Event, Happens, envVars, modeVars
    <2>2. Head(tasks) \in {"setActive", "load"} \/ ~TakeTask
      BY TakingOne DEF CalmInv, TakeTask
    <2>3. /\ pc'[IdleLoop] = pc[IdleLoop]
          /\ \/ pc'[Worker] = pc[Worker]
             \/ pc[Worker] # "flagActive" /\ pc'[Worker] \in {"setActive", "load", "ready"}
      BY <1>3, <2>2 DEF ConfigModified, TakeTask, LoadConfig
    <2> QED
      BY <1>1, <2>1, <2>3
  <1>4. ASSUME SetterStep(Worker) PROVE ShowInv'
    <2>1. /\ behind = 0 /\ UNCHANGED rates
          /\ pc' = [pc EXCEPT ![Worker] = pc'[Worker]]
      BY <1>4 DEF SetterStep, ReadModeId, RunCommand, SetFlag, NotSetter, envVars, modeVars
    <2>2. pc[Worker] \in {"setActive", "runActive", "flagActive"}
      BY <1>4 DEF SetterStep, ReadModeId, RunCommand, SetFlag, CalmInv
    <2>3. pc[IdleLoop] \notin Setting
      BY <2>1, <2>2 DEF TouchInv, Posted
    <2>4. CASE ReadModeId(Worker)
      <3>1. /\ pc[Worker] = "setActive" /\ pc'[Worker] = "runActive" /\ UNCHANGED <<active, display>>
            /\ arg' = [arg EXCEPT ![Worker] = activeDisplayModeId]
        BY <2>2, <2>4 DEF ReadModeId
      <3> QED
        BY <2>1, <2>3, <3>1 DEF ShowInv, ArgInv
    <2>5. CASE RunCommand(Worker)
      <3>1. /\ pc[Worker] = "runActive" /\ pc'[Worker] = "flagActive" /\ UNCHANGED <<active, arg>>
            /\ display' = arg[Worker]
        BY <2>2, <2>5 DEF RunCommand
      <3> QED
        BY <2>1, <2>3, <3>1 DEF ShowInv
    <2>6. CASE SetFlag(Worker)
      <3>1. /\ pc[Worker] = "flagActive" /\ pc'[Worker] = "ready" /\ UNCHANGED <<display, arg>>
            /\ active' = TRUE
        BY <2>2, <2>6 DEF SetFlag
      <3> QED
        BY <2>1, <2>3, <3>1 DEF ShowInv
    <2> QED
      BY <1>4, <2>4, <2>5, <2>6 DEF SetterStep
  <1>5. ASSUME SetterStep(IdleLoop) PROVE ShowInv'
    <2>1. /\ behind = 0 /\ UNCHANGED rates
          /\ pc' = [pc EXCEPT ![IdleLoop] = pc'[IdleLoop]]
      BY <1>5 DEF SetterStep, ReadModeId, RunCommand, SetFlag, NotSetter, envVars, modeVars
    <2>2. pc[IdleLoop] \in Setting
      BY <1>5 DEF SetterStep, ReadModeId, RunCommand, SetFlag, IdleLoopPC
    <2>3. pc[Worker] \notin {"setActive", "runActive", "flagActive"}
      BY <2>1, <2>2 DEF TouchInv, Posted
    <2>4. CASE ReadModeId(IdleLoop)
      <3>1. /\ pc[IdleLoop] = "setIdle" /\ pc'[IdleLoop] = "runIdle" /\ UNCHANGED <<active, display>>
            /\ arg' = [arg EXCEPT ![IdleLoop] = idleDisplayModeId]
        BY <2>2, <2>4 DEF ReadModeId
      <3> QED
        BY <2>1, <2>3, <3>1 DEF ShowInv, ArgInv
    <2>5. CASE RunCommand(IdleLoop)
      <3>1. /\ pc[IdleLoop] = "runIdle" /\ pc'[IdleLoop] = "flagIdle" /\ UNCHANGED <<active, arg>>
            /\ display' = arg[IdleLoop]
        BY <2>2, <2>5 DEF RunCommand
      <3> QED
        BY <2>1, <2>3, <3>1 DEF ShowInv
    <2>6. CASE SetFlag(IdleLoop)
      <3>1. /\ pc[IdleLoop] = "flagIdle" /\ pc'[IdleLoop] = "rest" /\ UNCHANGED <<display, arg>>
            /\ active' = FALSE
        BY <2>2, <2>6 DEF SetFlag
      <3> QED
        BY <2>1, <2>3, <3>1 DEF ShowInv
    <2> QED
      BY <1>5, <2>4, <2>5, <2>6 DEF SetterStep
  <1>6. ASSUME Wake \/ TestPaused \/ Wait \/ ReadDelay \/ TestActive \/ Rest \/ SpuriousWakeup
               \/ ReadOperand \/ CompareKeys \/ CompareDuration
        PROVE  ShowInv'
    <2>1. UNCHANGED rates /\ UNCHANGED <<behind, display, active, arg>>
      BY <1>6 DEF Wake, TestPaused, Wait, ReadDelay, TestActive, Rest, SpuriousWakeup,
            ReadOperand, Read, CompareKeys, CompareDuration, NotLoop, envVars, modeVars
    <2>2. /\ pc'[Worker] = pc[Worker]
          /\ \/ pc'[IdleLoop] = pc[IdleLoop]
             \/ pc[IdleLoop] # "flagIdle" /\ pc'[IdleLoop] \notin {"runIdle", "flagIdle"}
      BY <1>6 DEF Wake, TestPaused, Wait, ReadDelay, TestActive, Rest, SpuriousWakeup,
            ReadOperand, Read, CompareKeys, CompareDuration
    <2> QED
      BY <1>1, <2>1, <2>2
  <1>7. ASSUME Tick \/ UNCHANGED vars PROVE ShowInv'
    <2>1. UNCHANGED rates /\ UNCHANGED <<behind, display, active, arg, pc>>
      BY <1>7 DEF Tick, vars, modeVars, envVars
    <2> QED
      BY <1>1, <2>1
  <1>8. ~SetBack
    <2> SUFFICES ASSUME SetBack PROVE FALSE
      OBVIOUS
    <2> QED
      BY <1>0 DEF SetBack
  <1> HIDE DEF TypeInv, PlaceInv, Goto, At, Setting
  <1> QED
    BY CalmSteps, <1>2, <1>3, <1>4, <1>5, <1>6, <1>7, <1>8 DEF CalmStep, IdleLoopStep

\* Start() ends with nothing posted, active_ false and the idle rate requested.
LEMMA InitFlagInv == ASSUME Calm PROVE Init => FlagInv
  <1> SUFFICES ASSUME Init PROVE FlagInv
    OBVIOUS
  <1> USE Names DEF Init
  <1>1. CalmInv
    BY DEF CalmInv, Calm
  <1>2. TouchInv
    BY DEF TouchInv, Posted, Setting
  <1>3. ShowInv
    BY DEF ShowInv
  <1> QED
    BY InitTypeInv, <1>1, <1>2, <1>3 DEF FlagInv

\* While no thread is setting a rate, active_ tells which of the two is shown,
\* for any number of touch devices: KeyDown_, which posts nothing while active_
\* is set, leaves no touch at the idle rate, as long as threads keep up with a
\* clock that nobody sets back, and neither the app nor the screen changes.
THEOREM FlagTellsDisplay ==
    ASSUME Calm
    PROVE  Spec => []FlagMatchesDisplay
  <1>1. FlagInv /\ [Next]_vars => FlagInv'
    BY NextTypeInv, NextCalmInv, NextTouchInv, NextShowInv DEF FlagInv
  <1>2. FlagInv => FlagMatchesDisplay
    BY DEF FlagInv, ShowInv, FlagMatchesDisplay, Setting
  <1> QED
    BY InitFlagInv, <1>1, <1>2, PTL DEF Spec
==============================================================================
