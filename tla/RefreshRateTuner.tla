--------------------------- MODULE RefreshRateTuner --------------------------
(***************************************************************************)
(* modules/refresh_rate_tuner.cpp with the threads that run its code:      *)
(*                                                                         *)
(*   - one InputListener thread per touch device runs KeyDown_ and KeyUp_; *)
(*   - the FileWatcher thread runs ScreenStateChanged_ (posted by          *)
(*     CgroupWatcher) and ConfigModified_;                                 *)
(*   - the TopAppMonitor thread runs TopAppChanged_;                       *)
(*   - the WorkerThread runs the posted tasks, in the order posted         *)
(*     (module WorkerThread shows that it does);                           *)
(*   - the timer thread runs IdleLoop_ (module Timer models CU::Timer; of  *)
(*     it only the pause, the continue and the sleep matter here).         *)
(*                                                                         *)
(* No member variable is protected by a lock but config_ (a SafeVal), so   *)
(* each read and write of one is a step.  The clock moves by ticks of      *)
(* some milliseconds; a handler that stamps a key reads it and writes the  *)
(* stamp in one step.  The state begins where Start() ends.                *)
(***************************************************************************)
EXTENDS DisplayModeTable, Sequences

CONSTANTS
    Listeners,           \* the InputListener threads
    Watcher, Monitor, Worker, IdleLoop,  \* the other threads
    Table,               \* displayModeMap_, as Init_ left it
    Configs, Broken,     \* what the file may hold: configurations, or a text
                         \* that the JSON parser throws on
    Apps,                \* the names TopAppChanged_ may find in /proc
    Default,             \* what SurfaceFlinger shows after "1035 i32 -1"
    Word,                \* time_t arithmetic wraps at 2^64; here at Word
    Scenarios            \* what a behaviour may be given, one of these records:
                         \* first, the configuration Start() loaded, and edits,
                         \* those that may be written; punctual, whether threads
                         \* have done what they have to do before the clock
                         \* ticks, or may lag; and bounds: budget, how often each
                         \* kind of event happens, maxTime, of the clock, and
                         \* lastEvent, of the times of events

Threads == Listeners \cup {Watcher, Monitor, Worker, IdleLoop}

EventKind == {"touch", "unplug", "screen", "app", "write", "clock"}

\* A configuration that has all its keys; {} is what an empty file parses to.
Complete(c) == "*" \in DOMAIN c.policy

ASSUME TunerAssumption ==
    /\ \A c \in Configs : c.idleDelay \in Nat
    /\ Broken \notin Configs
    /\ Word \in Nat
    /\ \A s \in Scenarios :
         /\ s.first \in Configs /\ Complete(s.first) /\ s.edits \subseteq Configs
         /\ s.punctual \in BOOLEAN /\ s.budget \in [EventKind -> Nat]
         /\ s.maxTime \in 0..(Word - 1) /\ s.lastEvent \in Nat
    /\ {Watcher, Monitor, Worker, IdleLoop} \cap Listeners = {}
    /\ Watcher \notin {Monitor, Worker, IdleLoop}
    /\ Monitor \notin {Worker, IdleLoop} /\ Worker # IdleLoop

\* Start() has looked up the ids of "*", which an empty table does not survive.
ASSUME TableAssumption == IsTable(Table)

VARIABLES
    config,               \* config_
    activeDisplayModeId, idleDisplayModeId,
    active,               \* active_
    keyDownTime, keyUpTime,
    paused, wakeAt,       \* timer_: paused_, and the end of its sleep
    tasks,                \* the worker's tasks, posted and not begun
    pc, arg,              \* where each thread is; the value it has in hand
    reads,                \* the locals and temporaries of IdleLoop_
    display,              \* the mode SurfaceFlinger was last told to show
    file,                 \* the text of the configuration file
    screen,               \* the state last posted to ScreenStateChanged_
    now,                  \* the time that has passed, by which threads sleep
    behind,               \* how far the system clock has been set back since
    scenario,             \* which scenario this is, which never changes
    budget,               \* how many events of each kind may still happen
    sawUp                 \* history: no finger was down at some moment of the
                          \* present iteration of IdleLoop_

modeVars == <<activeDisplayModeId, idleDisplayModeId>>
keyVars == <<keyDownTime, keyUpTime>>
fileVars == <<config, file>>
loopVars == <<wakeAt, reads>>
envVars == <<screen, now, behind, scenario, budget>>

vars == <<modeVars, keyVars, fileVars, loopVars, envVars, active, paused,
          tasks, pc, arg, display, sawUp>>

Unread == -1
Fresh == [delay |-> 0, up |-> Unread, down |-> Unread, clock |-> Unread,
          again |-> Unread, interval |-> 0]

\* The pair of ids UpdatePolicy_ computes for a name, or for "*".
PolicyFor(c, name) ==
    LET p == c.policy[IF name \in DOMAIN c.policy THEN name ELSE "*"]
    IN  [name |-> name,
         active |-> FindDisplayModeId(Table, p.active, p.resolution),
         idle |-> FindDisplayModeId(Table, p.idle, p.resolution)]

Init ==
    /\ scenario \in Scenarios /\ budget = scenario.budget
    /\ config = scenario.first /\ file = scenario.first
    /\ activeDisplayModeId = PolicyFor(config, "*").active
    /\ idleDisplayModeId = PolicyFor(config, "*").idle
    /\ display = idleDisplayModeId
    /\ active = FALSE
    /\ keyDownTime = 0 /\ keyUpTime = 0 /\ now = 0 /\ behind = 0
    /\ paused = FALSE /\ wakeAt = config.idleDelay
    /\ tasks = <<>>
    /\ pc = [t \in Threads |->
               CASE t \in Listeners -> "up" [] t = IdleLoop -> "sleep" [] OTHER -> "ready"]
    /\ arg = [t \in Threads |-> Default]
    /\ reads = Fresh
    /\ screen = "on"
    /\ sawUp = TRUE

\* An exception that leaves a thread ends the process.
Crashed == \E t \in Threads : pc[t] = "crashed"

At(t, place) == pc[t] = place /\ ~Crashed
Goto(t, from, to) == At(t, from) /\ pc' = [pc EXCEPT ![t] = to]

\* An event of the outside world, while there are any left.
Happens(kind) ==
    /\ budget[kind] > 0 /\ now <= scenario.lastEvent
    /\ budget' = [budget EXCEPT ![kind] = @ - 1]
    /\ UNCHANGED <<now, scenario>>

Event(kind) == Happens(kind) /\ UNCHANGED behind

\* No device reports a finger on the screen.
AllUp == \A l \in Listeners : pc[l] \in {"up", "gone"}

------------------------------------------------------------------------------
(* KeyDown_ and KeyUp_, in the thread of a touch device *)

\* The system clock.
TimeStamp == now - behind

KeyDown(l) ==
    /\ Event("touch")
    /\ Goto(l, "up", "down")
    /\ keyDownTime' = TimeStamp
    /\ UNCHANGED <<keyUpTime, modeVars, fileVars, loopVars, screen, active,
                   paused, tasks, arg, display, sawUp>>

\* if (!active_) AddWork(SetActiveRefreshRate_)
KeyDownPost(l) ==
    /\ Goto(l, "down", "touching")
    /\ tasks' = IF active THEN tasks ELSE Append(tasks, "setActive")
    /\ UNCHANGED <<keyVars, modeVars, fileVars, loopVars, envVars, active,
                   paused, arg, display, sawUp>>

KeyUp(l) ==
    /\ now <= scenario.lastEvent
    /\ Goto(l, "touching", "up")
    /\ keyUpTime' = TimeStamp
    /\ sawUp' = (sawUp \/ AllUp')
    /\ UNCHANGED <<keyDownTime, modeVars, fileVars, loopVars, envVars, active,
                   paused, tasks, arg, display>>

\* read() fails: the thread ends, whether or not a finger is down.
Unplug(l) ==
    /\ Event("unplug")
    /\ Goto(l, "up", "gone") \/ Goto(l, "touching", "gone")
    /\ sawUp' = (sawUp \/ AllUp')
    /\ UNCHANGED <<keyVars, modeVars, fileVars, loopVars, screen, active,
                   paused, tasks, arg, display>>

------------------------------------------------------------------------------
(* UpdatePolicy_ and the handlers that call it *)

\* The copy of the configuration, and the lookups in it: at("*") throws in a
\* configuration without policies, and nobody catches it.
ReadPolicy(t, name) ==
    /\ Goto(t, "ready", IF Complete(config) THEN "policyActive" ELSE "crashed")
    /\ arg' = [arg EXCEPT ![t] =
                 IF Complete(config) THEN PolicyFor(config, name) ELSE @]
    /\ UNCHANGED <<keyVars, modeVars, fileVars, loopVars, active, paused,
                   tasks, display, sawUp>>

ScreenOff ==
    /\ Event("screen")
    /\ screen = "on" /\ screen' = "off"
    /\ ReadPolicy(Watcher, "screenOff")

ScreenOn ==
    /\ Event("screen")
    /\ screen = "off" /\ screen' = "on"
    /\ ReadPolicy(Watcher, "*")

TopAppChanged(name) ==
    /\ Event("app")
    /\ ReadPolicy(Monitor, name)
    /\ UNCHANGED screen

InstallActive(t) ==
    /\ Goto(t, "policyActive", "policyIdle")
    /\ activeDisplayModeId' = arg[t].active
    /\ UNCHANGED <<idleDisplayModeId, keyVars, fileVars, loopVars, envVars,
                   active, paused, tasks, arg, display, sawUp>>

InstallIdle(t) ==
    /\ Goto(t, "policyIdle",
            IF t = Monitor THEN "postActive"
            ELSE IF screen = "off" THEN "pause" ELSE "postReset")
    /\ idleDisplayModeId' = arg[t].idle
    /\ UNCHANGED <<activeDisplayModeId, keyVars, fileVars, loopVars, envVars,
                   active, paused, tasks, arg, display, sawUp>>

PostTask(t, from, task, to) ==
    /\ Goto(t, from, to)
    /\ tasks' = Append(tasks, task)
    /\ UNCHANGED <<keyVars, modeVars, fileVars, loopVars, envVars, active,
                   paused, arg, display, sawUp>>

Post(t) ==
    \/ t = Monitor /\ PostTask(t, "postActive", "setActive", "ready")
    \/ t = Watcher /\ PostTask(t, "postIdle", "setIdle", "ready")
    \/ t = Watcher /\ PostTask(t, "postReset", "reset", "continue")

NotTimer == <<keyVars, modeVars, fileVars, loopVars, envVars, active, tasks,
              arg, display, sawUp>>

PauseTimer ==
    /\ Goto(Watcher, "pause", "postIdle")
    /\ paused' = TRUE
    /\ UNCHANGED NotTimer

\* continueTimer: the test, the write and the notification, under no mutex.
ContinueTimer ==
    /\ Goto(Watcher, "continue", IF paused THEN "clear" ELSE "ready")
    /\ UNCHANGED <<paused, NotTimer>>

ClearPaused ==
    /\ Goto(Watcher, "clear", "notify")
    /\ paused' = FALSE
    /\ UNCHANGED NotTimer

NotifyLoop ==
    /\ At(Watcher, "notify")
    /\ pc' = [pc EXCEPT ![Watcher] = "ready",
                        ![IdleLoop] = IF @ = "waiting" THEN "test" ELSE @]
    /\ UNCHANGED <<paused, NotTimer>>

\* Mutant: a modification is skipped while the worker has tasks.
ConfigModifiedBusy ==
    /\ Event("write")
    /\ Goto(Watcher, "ready", "ready")
    /\ file' \in (scenario.edits \cup {Broken}) \ {file}
    /\ tasks' = IF tasks = <<>> THEN Append(tasks, "load") ELSE tasks
    /\ UNCHANGED <<config, keyVars, modeVars, loopVars, screen, active, paused,
                   arg, display, sawUp>>

\* The file is written, and the watcher posts LoadConfig_ for it.
ConfigModified ==
    /\ Event("write")
    /\ Goto(Watcher, "ready", "ready")
    /\ file' \in (scenario.edits \cup {Broken}) \ {file}
    /\ tasks' = Append(tasks, "load")
    /\ UNCHANGED <<config, keyVars, modeVars, loopVars, screen, active, paused,
                   arg, display, sawUp>>

------------------------------------------------------------------------------
(* The tasks of the worker, and the SetIdleRefreshRate_ of IdleLoop_ *)

\* Mutant: the newest task first.
TakeNewest ==
    /\ tasks # <<>>
    /\ Goto(Worker, "ready", tasks[Len(tasks)])
    /\ tasks' = SubSeq(tasks, 1, Len(tasks) - 1)
    /\ UNCHANGED <<keyVars, modeVars, fileVars, loopVars, envVars, active,
                   paused, arg, display, sawUp>>

TakeTask ==
    /\ tasks # <<>>
    /\ Goto(Worker, "ready", Head(tasks))
    /\ tasks' = Tail(tasks)
    /\ UNCHANGED <<keyVars, modeVars, fileVars, loopVars, envVars, active,
                   paused, arg, display, sawUp>>

\* A text that does not parse leaves config_ as it was.
LoadConfig ==
    /\ Goto(Worker, "load", "ready")
    /\ config' = IF file = Broken THEN config ELSE file
    /\ UNCHANGED <<file, keyVars, modeVars, loopVars, envVars, active, paused,
                   tasks, arg, display, sawUp>>

NotSetter == <<keyVars, modeVars, fileVars, loopVars, envVars, paused, tasks, sawUp>>

ResetRefreshRate ==
    \/ /\ Goto(Worker, "reset", "resetFlag")
       /\ display' = Default
       /\ UNCHANGED <<active, arg, NotSetter>>
    \/ /\ Goto(Worker, "resetFlag", "setActive")
       /\ active' = FALSE
       /\ UNCHANGED <<display, arg, NotSetter>>

\* CU::Format reads the id, the command is run, and active_ is set.
ReadModeId(t) ==
    /\ \/ /\ Goto(t, "setActive", "runActive")
          /\ arg' = [arg EXCEPT ![t] = activeDisplayModeId]
       \/ /\ Goto(t, "setIdle", "runIdle")
          /\ arg' = [arg EXCEPT ![t] = idleDisplayModeId]
    /\ UNCHANGED <<active, display, NotSetter>>

RunCommand(t) ==
    /\ Goto(t, "runActive", "flagActive") \/ Goto(t, "runIdle", "flagIdle")
    /\ display' = arg[t]
    /\ UNCHANGED <<active, arg, NotSetter>>

\* Mutant: SetIdleRefreshRate_ does not clear active_.
SetFlagSticky(t) ==
    /\ At(t, "flagActive") \/ At(t, "flagIdle")
    /\ active' = (active \/ pc[t] = "flagActive")
    /\ pc' = [pc EXCEPT ![t] = IF t = Worker THEN "ready" ELSE "rest"]
    /\ UNCHANGED <<display, arg, NotSetter>>

SetFlag(t) ==
    /\ \/ At(t, "flagActive") /\ active' = TRUE
       \/ At(t, "flagIdle") /\ active' = FALSE
    /\ pc' = [pc EXCEPT ![t] = IF t = Worker THEN "ready" ELSE "rest"]
    /\ UNCHANGED <<display, arg, NotSetter>>

------------------------------------------------------------------------------
(* IdleLoop_: TIMER_LOOP's condition, then one pass of the body *)

NotLoop == <<keyVars, modeVars, fileVars, envVars, active, paused, tasks, arg, display>>

Wake ==
    /\ now >= wakeAt
    /\ Goto(IdleLoop, "sleep", "test")
    /\ UNCHANGED <<loopVars, sawUp, NotLoop>>

TestPaused ==
    /\ Goto(IdleLoop, "test", IF paused THEN "wait" ELSE "iterate")
    /\ UNCHANGED <<loopVars, sawUp, NotLoop>>

Wait ==
    /\ Goto(IdleLoop, "wait", "waiting")
    /\ UNCHANGED <<loopVars, sawUp, NotLoop>>

SpuriousWakeup ==
    /\ Goto(IdleLoop, "waiting", "test")
    /\ UNCHANGED <<loopVars, sawUp, NotLoop>>

\* at("idleDelay") throws in a configuration that has no such key.
ReadDelay ==
    /\ Goto(IdleLoop, "iterate", IF Complete(config) THEN "active?" ELSE "crashed")
    /\ reads' = [Fresh EXCEPT !.delay = config.idleDelay, !.interval = config.idleDelay]
    /\ sawUp' = AllUp
    /\ UNCHANGED <<wakeAt, NotLoop>>

TestActive ==
    /\ Goto(IdleLoop, "active?", IF active THEN "keys" ELSE "rest")
    /\ UNCHANGED <<loopVars, sawUp, NotLoop>>

\* The operands of keyUpTime_ > keyDownTime_ and of TimeStamp() - keyUpTime_
\* are read in either order: C++ leaves it open.
Read(from, field, value) ==
    /\ At(IdleLoop, from)
    /\ reads[field] = Unread
    /\ reads' = [reads EXCEPT ![field] = value]
    /\ UNCHANGED <<pc, wakeAt, sawUp, NotLoop>>

ReadOperand ==
    \/ Read("keys", "up", keyUpTime)
    \/ Read("keys", "down", keyDownTime)
    \/ Read("duration", "clock", TimeStamp)
    \/ Read("duration", "again", keyUpTime)

\* Mutant: the operands of the comparison are swapped.
CompareKeysSwapped ==
    /\ Unread \notin {reads.up, reads.down}
    /\ Goto(IdleLoop, "keys", IF reads.down > reads.up THEN "duration" ELSE "rest")
    /\ UNCHANGED <<loopVars, sawUp, NotLoop>>

\* Mutant: the comparison is not strict.
CompareKeysLoose ==
    /\ Unread \notin {reads.up, reads.down}
    /\ Goto(IdleLoop, "keys", IF reads.up >= reads.down THEN "duration" ELSE "rest")
    /\ UNCHANGED <<loopVars, sawUp, NotLoop>>

CompareKeys ==
    /\ Unread \notin {reads.up, reads.down}
    /\ Goto(IdleLoop, "keys", IF reads.up > reads.down THEN "duration" ELSE "rest")
    /\ UNCHANGED <<loopVars, sawUp, NotLoop>>

KeyUpDuration == (reads.clock - reads.again) % Word

CompareDuration ==
    /\ Unread \notin {reads.clock, reads.again}
    /\ IF KeyUpDuration >= reads.delay
         THEN /\ Goto(IdleLoop, "duration", "setIdle")
              /\ UNCHANGED reads
         ELSE /\ Goto(IdleLoop, "duration", "rest")
              /\ reads' = [reads EXCEPT !.interval = reads.delay - KeyUpDuration]
    /\ UNCHANGED <<wakeAt, sawUp, NotLoop>>

\* setInterval, and the sleep at the head of the next iteration.
Rest ==
    /\ Goto(IdleLoop, "rest", "sleep")
    /\ wakeAt' = now + reads.interval
    /\ UNCHANGED <<reads, sawUp, NotLoop>>

------------------------------------------------------------------------------
\* Nothing is left to do before time passes.
Settled ==
    /\ tasks = <<>>
    /\ \A t \in Threads \ {IdleLoop} : pc[t] \in {"up", "touching", "gone", "ready"}
    /\ pc[IdleLoop] = "waiting" \/ (pc[IdleLoop] = "sleep" /\ now < wakeAt)

Tick ==
    /\ now < scenario.maxTime /\ ~Crashed
    /\ scenario.punctual => Settled
    /\ now' = now + 1
    /\ UNCHANGED <<keyVars, modeVars, fileVars, loopVars, screen, behind, scenario, budget,
                   active, paused, tasks, pc, arg, display, sawUp>>

\* The system clock is set back.
SetBack ==
    /\ Happens("clock") /\ ~Crashed
    /\ behind' \in (behind + 1)..now
    /\ UNCHANGED <<keyVars, modeVars, fileVars, loopVars, screen, active, paused, tasks,
                   pc, arg, display, sawUp>>

HandlerStep(t) == InstallActive(t) \/ InstallIdle(t) \/ Post(t)

MonitorStep == HandlerStep(Monitor)

WatcherStep ==
    HandlerStep(Watcher) \/ PauseTimer \/ ContinueTimer \/ ClearPaused \/ NotifyLoop

SetterStep(t) == ReadModeId(t) \/ RunCommand(t) \/ SetFlag(t)

WorkerStep == TakeTask \/ LoadConfig \/ ResetRefreshRate \/ SetterStep(Worker)

IdleLoopStep ==
    \/ Wake \/ TestPaused \/ Wait \/ ReadDelay \/ TestActive \/ ReadOperand
    \/ CompareKeys \/ CompareDuration \/ SetterStep(IdleLoop) \/ Rest

Outside ==
    \/ \E l \in Listeners : KeyDown(l) \/ KeyUp(l) \/ Unplug(l)
    \/ ScreenOff \/ ScreenOn \/ ConfigModified
    \/ \E name \in Apps : TopAppChanged(name)
    \/ SpuriousWakeup \/ SetBack

Inside ==
    \/ \E l \in Listeners : KeyDownPost(l)
    \/ WatcherStep \/ MonitorStep \/ WorkerStep \/ IdleLoopStep

Next == Outside \/ Inside \/ Tick

Spec == Init /\ [][Next]_vars

\* Every thread that can run is run, and time passes.  Nobody has to touch
\* the screen, lift a finger, or change anything.
FairSpec ==
    /\ Spec
    /\ WF_vars(Tick)
    /\ \A l \in Listeners : WF_vars(KeyDownPost(l))
    /\ WF_vars(WatcherStep) /\ WF_vars(MonitorStep)
    /\ WF_vars(WorkerStep) /\ WF_vars(IdleLoopStep)

------------------------------------------------------------------------------
ModeIds == UNION {{Table[r][px] : px \in DOMAIN Table[r]} : r \in DOMAIN Table}
Stamp == 0..scenario.maxTime
ThreadPC ==
    {"up", "down", "touching", "gone", "ready", "policyActive", "policyIdle",
     "pause", "postIdle", "postReset", "postActive", "continue", "clear",
     "notify", "crashed", "load", "reset", "resetFlag", "setActive", "setIdle",
     "runActive", "runIdle", "flagActive", "flagIdle", "sleep", "test", "wait",
     "waiting", "iterate", "active?", "keys", "duration", "rest"}

TypeOK ==
    /\ config \in Configs /\ file \in Configs \cup {Broken}
    /\ {activeDisplayModeId, idleDisplayModeId} \subseteq ModeIds
    /\ display \in ModeIds \cup {Default}
    /\ {active, paused, sawUp} \subseteq BOOLEAN
    /\ {keyDownTime, keyUpTime, now, behind} \subseteq Stamp
    /\ wakeAt \in Nat
    /\ tasks \in Seq({"setActive", "setIdle", "reset", "load"})
    /\ pc \in [Threads -> ThreadPC]
    /\ reads.delay \in Nat /\ reads.interval \in 0..reads.delay
    /\ {reads.up, reads.down, reads.clock, reads.again} \subseteq Stamp \cup {Unread}
    /\ budget \in [EventKind -> Nat]

Setting == {"setIdle", "runIdle", "flagIdle"}

\* IdleLoop_ turns the rate down only if some moment of the iteration that
\* decides it saw no finger on the screen, although it reads the two stamps
\* without a lock, in either order, while KeyDown_ and KeyUp_ write them; and it
\* never sleeps longer than the delay (TypeOK).  (A clock that was set back may
\* stamp a finger that is down with a time before that of the last key up.)
IdleSawNoTouch ==
    TypeOK /\ (pc[IdleLoop] \in Setting /\ behind = 0 => sawUp)

\* While threads keep up with a clock that is not set back, active_ tells which
\* mode is shown when nobody is changing it: KeyDown_ relies on it to post
\* nothing, IdleLoop_ to do nothing.
FlagMatchesDisplay ==
    scenario.punctual /\ behind = 0 /\ pc[Worker] = "ready" /\ pc[IdleLoop] \notin Setting
      => display = IF active THEN activeDisplayModeId ELSE idleDisplayModeId

\* Once the last finger is lifted for good, the screen is turned down for good,
\* by threads that keep up with the clock.  A clock that is set back does no
\* harm, unless a finger is then down with a stamp before that of a key up.
SettlesIdle ==
    scenario.punctual /\ [](~AllUp => keyUpTime <= keyDownTime)
        /\ <>[](AllUp /\ keyUpTime > keyDownTime)
      => <>[](display = idleDisplayModeId /\ ~active)

\* A screen that goes off, on and off again ends at the rate of its policy for
\* screenOff, whatever is still queued from the time before.
SettlesOff ==
    <>[](screen = "off") => <>[](display = idleDisplayModeId /\ ~active)

\* The last text of the file, if it parses, is the configuration in the end, and
\* no text that does not parse ends the process or costs it its configuration.
LoadsLast ==
    /\ []~Crashed
    /\ <>[](file # Broken) => <>[](config = file)
==============================================================================
