-------------------------------- MODULE StartUp -------------------------------
(***************************************************************************)
(* CuRefreshRateTuner::Run and Init_ (CuRefreshRateTuner.cpp): the start   *)
(* of the daemon, while threads that it has started already run.           *)
(*                                                                         *)
(*   - main reads the modes and the configuration, and starts the modules  *)
(*     one after the other;                                                *)
(*   - the FileWatcher thread, from the first AddWatch on, handles what    *)
(*     changes in the configuration file and, later, in the cpusets;       *)
(*   - the InputListener threads post KEY_DOWN and KEY_UP;                 *)
(*   - the idle loop runs from the end of RefreshRateTuner::Start on;      *)
(*   - each WorkerThread object has a thread that runs its tasks.          *)
(*                                                                         *)
(* An event goes through EventTransfer to the module that subscribed to    *)
(* it, if one has; a task goes to the worker that Singleton::GetInstance   *)
(* returns, which any thread may be the first to call.  Timers, key stamps *)
(* and mode ids are in Timer, TopAppMonitor and RefreshRateTuner.          *)
(***************************************************************************)
EXTENDS DisplayModes, SequencesExt

CONSTANTS
    Main, Watcher, IdleLoop,  \* threads
    Listeners,    \* the InputListener threads
    Starts,       \* what a behaviour may be given, one of these records: dump; texts,
                  \* what the configuration file holds at first and after each time
                  \* it is saved; screen, "on" or "off"; and as bounds keys, how
                  \* many key events, and moves, how many changes of cpusets
    Broken,       \* a text that the JSON parser throws on
    nullptr

Threads == Listeners \cup {Main, Watcher, IdleLoop}

\* What matters in a text that parses: has it the policies, has it idleDelay;
\* and a version, to tell texts apart.
Empty == [policies |-> FALSE, idleDelay |-> FALSE, version |-> 0]
Complete(text) == text # Broken /\ text.policies /\ text.idleDelay

ASSUME StartAssumption ==
    /\ \A s \in Starts : IsDump(s.dump) /\ s.screen \in {"on", "off"}
    /\ \A s \in Starts : s.texts # <<>> /\ {s.keys, s.moves} \subseteq Nat
    /\ Main \notin {Watcher, IdleLoop} /\ Watcher # IdleLoop
    /\ {Main, Watcher, IdleLoop} \cap Listeners = {}
    /\ nullptr \notin Threads

VARIABLES
    start,        \* the record of Starts, which never changes
    count,        \* how many texts, key events and moves there have been
    process,      \* "running", "exited" after std::exit(0), or "crashed"
    pc,           \* where each thread is
    modules,      \* modules_ that main has still to start
    posted, task, own,  \* locals of a thread: the event it handles, the task it
                  \* is to add, the value of instance it holds
    subscribers,  \* eventSubscribers_: the events somebody subscribed to
    watched,      \* the files there is a watch for
    notices,      \* the inotify queue
    config,       \* config_
    policy,       \* the name last given to UpdatePolicy_
    active,       \* active_
    screenState,  \* CgroupWatcher::screenState_
    workers,      \* the WorkerThread objects; each has the name of its creator
    instance,     \* WorkerThread::GetInstance()::instance
    tasks, running,  \* of each worker: its queue, and the task it executes
    unheard,      \* history: events posted that nobody had subscribed to
    missedEdit    \* history: the text was changed after it was read and before
                  \* it was watched

localVars == <<posted, task, own>>
fileVars == <<start, count, watched, notices>>
tunerVars == <<config, policy, active>>
workVars == <<workers, instance, tasks, running>>
historyVars == <<unheard, missedEdit>>
vars == <<process, pc, modules, subscribers, screenState, dumpVars, localVars,
          fileVars, tunerVars, workVars, historyVars>>

\* Mutant: the devices are listened to first.
ModulesListenFirst == <<"InputListener", "RefreshRateTuner", "CgroupWatcher", "TopAppMonitor">>

Modules == <<"RefreshRateTuner", "InputListener", "CgroupWatcher", "TopAppMonitor">>

Init ==
    /\ start \in Starts /\ DumpInit(start.dump)
    /\ count = [texts |-> 1, keys |-> 0, moves |-> 0]
    /\ process = "running"
    /\ pc = [t \in Threads |-> IF t = Main THEN "start" ELSE "none"]
    /\ modules = Modules
    /\ posted = [t \in Threads |-> "none"]
    /\ task = [t \in Threads |-> "none"]
    /\ own = [t \in Threads |-> nullptr]
    /\ subscribers = {} /\ watched = {} /\ notices = <<>>
    /\ config = Empty /\ policy = "none" /\ active = FALSE
    /\ screenState = "on"
    /\ workers = {} /\ instance = nullptr
    /\ tasks = [w \in Threads |-> <<>>]
    /\ running = [w \in Threads |-> nullptr]
    /\ unheard = {} /\ missedEdit = FALSE

Text == start.texts[count.texts]

At(t, place) == process = "running" /\ pc[t] = place
Goto(t, from, to) == At(t, from) /\ pc' = [pc EXCEPT ![t] = to]

------------------------------------------------------------------------------
(* EventTransfer *)

\* Where a thread goes on after it has handled an event.
Return(t) ==
    CASE posted[t] = "CgroupModified" -> "check"
      [] posted[t] = "ScreenStateChanged" /\ t = Watcher -> "store"
      [] posted[t] = "InitFinished" -> "paused"
      [] t = Main -> "start"
      [] OTHER -> "ready"

Subscribe(from, events, to) ==
    /\ Goto(Main, from, to)
    /\ subscribers' = subscribers \cup events
    /\ UNCHANGED <<process, modules, screenState, dumpVars, localVars, fileVars,
                   tunerVars, workVars, historyVars>>

Handler(t) ==
    CASE posted[t] = "KEY_DOWN" -> "testActive"
      [] posted[t] = "ScreenStateChanged" -> "policy"
      [] OTHER -> Return(t)

\* The subscribers are copied under the mutex and called without it.  (Each
\* event of this program has one at most.)
Post(t) ==
    /\ Goto(t, "post", IF posted[t] \in subscribers THEN Handler(t) ELSE Return(t))
    /\ unheard' = IF posted[t] \in subscribers THEN unheard ELSE unheard \cup {posted[t]}
    /\ UNCHANGED <<process, modules, subscribers, screenState, dumpVars, localVars,
                   fileVars, tunerVars, workVars, missedEdit>>

------------------------------------------------------------------------------
(* Singleton<WorkerThread>::GetInstance and AddWork: no lock and no order in *)
(* the first, so the value returned is the one that was tested or assigned,  *)
(* or one read again.                                                        *)

NotCaller == <<process, modules, subscribers, screenState, dumpVars, posted,
               fileVars, tunerVars, historyVars>>
NotWorker == <<task, NotCaller>>

\* Mutant: GetInstance does not test.
CreateAlways(t) ==
    /\ Goto(t, "getInstance", "create")
    /\ own' = [own EXCEPT ![t] = instance]
    /\ UNCHANGED <<workVars, NotWorker>>

TestInstance(t) ==
    /\ Goto(t, "getInstance", IF instance = nullptr THEN "create" ELSE "reread")
    /\ own' = [own EXCEPT ![t] = instance]
    /\ UNCHANGED <<workVars, NotWorker>>

Create(t) ==
    /\ Goto(t, "create", "assign")
    /\ own' = [own EXCEPT ![t] = t]
    /\ workers' = workers \cup {t}
    /\ UNCHANGED <<instance, tasks, running, NotWorker>>

Assign(t) ==
    /\ Goto(t, "assign", "reread")
    /\ instance' = own[t]
    /\ UNCHANGED <<own, workers, tasks, running, NotWorker>>

Reread(t) ==
    /\ Goto(t, "reread", "addWork")
    /\ own' \in {own, [own EXCEPT ![t] = instance]}
    /\ UNCHANGED <<workVars, NotWorker>>

AddWork(t) ==
    /\ Goto(t, "addWork", Return(t))
    /\ tasks' = [tasks EXCEPT ![own[t]] = Append(@, task[t])]
    /\ own' = [own EXCEPT ![t] = nullptr]
    /\ task' = [task EXCEPT ![t] = "none"]
    /\ UNCHANGED <<workers, instance, running, NotCaller>>

GetInstance(t) == TestInstance(t) \/ Create(t) \/ Assign(t) \/ Reread(t) \/ AddWork(t)

------------------------------------------------------------------------------
(* RefreshRateTuner *)

\* Mutant: a text that does not parse leaves an empty configuration.
LoadedOrEmpty(text) == IF text = Broken THEN Empty ELSE text

\* LoadConfig_ catches what the parser throws, before it assigns.
Loaded(text) == IF text = Broken THEN config ELSE text

\* UpdatePolicy_: what at() throws on main is caught by Run, elsewhere by nobody;
\* and the end of the keys of an empty table is dereferenced.
UpdatePolicy(t, name, from, to) ==
    /\ At(t, from)
    /\ process' = IF ~config.policies THEN (IF t = Main THEN "exited" ELSE "crashed")
                  ELSE IF displayModeMap = EmptyTable THEN "crashed" ELSE "running"
    /\ IF process' = "running"
         THEN pc' = [pc EXCEPT ![t] = to] /\ policy' = name
         ELSE UNCHANGED <<pc, policy>>
    /\ UNCHANGED <<modules, subscribers, screenState, dumpVars, posted, own, fileVars,
                   config, active, workVars, historyVars>>

ScreenStateChanged(t) ==
    IF start.screen = "off"
      THEN /\ UpdatePolicy(t, "screenOff", "policy", "getInstance")
           /\ task' = [task EXCEPT ![t] = "setIdle"]
      ELSE /\ UpdatePolicy(t, "*", "policy", "getInstance")
           /\ task' = [task EXCEPT ![t] = "reset"]

KeyDown(t) ==
    /\ \/ active /\ Goto(t, "testActive", Return(t)) /\ UNCHANGED task
       \/ /\ ~active /\ Goto(t, "testActive", "getInstance")
          /\ task' = [task EXCEPT ![t] = "setActive"]
    /\ UNCHANGED <<process, modules, subscribers, screenState, dumpVars, posted, own,
                   fileVars, tunerVars, workVars, historyVars>>

\* One round of IdleLoop_, which may turn the rate down.
IdleRound ==
    /\ At(IdleLoop, "loop")
    /\ \/ config.idleDelay /\ active' \in {active, FALSE} /\ UNCHANGED process
       \/ ~config.idleDelay /\ process' = "crashed" /\ UNCHANGED active
    /\ UNCHANGED <<pc, modules, subscribers, screenState, dumpVars, localVars, fileVars,
                   config, policy, workVars, historyVars>>

NotTask == <<process, pc, modules, subscribers, screenState, dumpVars, localVars,
             fileVars, policy, workers, instance, historyVars>>

\* A task begins; LoadConfig_ reads the file.
BeginTask(w) ==
    /\ process = "running" /\ tasks[w] # <<>> /\ running[w] = nullptr
    /\ running' = [running EXCEPT ![w] = [name |-> Head(tasks[w]), text |-> Text]]
    /\ tasks' = [tasks EXCEPT ![w] = Tail(@)]
    /\ UNCHANGED <<config, active, NotTask>>

\* It ends, with the assignment to config_ or active_.
EndTask(w) ==
    /\ process = "running" /\ running[w] # nullptr
    /\ running' = [running EXCEPT ![w] = nullptr]
    /\ IF running[w].name = "load"
         THEN config' = Loaded(running[w].text) /\ UNCHANGED active
         ELSE active' = (running[w].name # "setIdle") /\ UNCHANGED config
    /\ UNCHANGED <<tasks, NotTask>>

------------------------------------------------------------------------------
(* main: Start of each module *)

NotMain == <<subscribers, localVars, workVars, historyVars>>

StartModule ==
    /\ modules # <<>>
    /\ Goto(Main, "start", Head(modules))
    /\ modules' = Tail(modules)
    /\ UNCHANGED <<process, screenState, dumpVars, fileVars, tunerVars, NotMain>>

InitFinished ==
    /\ modules = <<>>
    /\ Goto(Main, "start", "post")
    /\ posted' = [posted EXCEPT ![Main] = "InitFinished"]
    /\ UNCHANGED <<process, modules, subscribers, screenState, dumpVars, task, own,
                   fileVars, tunerVars, workVars, historyVars>>

ReadDump ==
    /\ \/ /\ Unsupported /\ At(Main, "RefreshRateTuner")
          /\ process' = "exited" /\ UNCHANGED <<pc, dumpVars>>
       \/ /\ ~Unsupported /\ At(Main, "RefreshRateTuner")
          /\ ReadLine /\ UNCHANGED <<process, pc>>
       \/ /\ ~Unsupported /\ DumpRead /\ Goto(Main, "RefreshRateTuner", "loadConfig")
          /\ UNCHANGED <<process, dumpVars>>
    /\ UNCHANGED <<modules, screenState, fileVars, tunerVars, NotMain>>

LoadConfig ==
    /\ Goto(Main, "loadConfig", "updatePolicy")
    /\ config' = Loaded(Text)
    /\ UNCHANGED <<process, modules, screenState, dumpVars, fileVars, policy, active, NotMain>>

\* The first UpdatePolicy_; the commands that follow leave active_ FALSE.
FirstPolicy == UpdatePolicy(Main, "*", "updatePolicy", "subscribe") /\ UNCHANGED task

SubscribeTuner ==
    Subscribe("subscribe", {"ScreenStateChanged", "TopAppChanged", "KEY_DOWN", "KEY_UP"},
              "addWatch")

\* Mutant: the watches that were there are forgotten.
AddWatchAlone(from, file, to) ==
    /\ At(Main, from)
    /\ pc' = [pc EXCEPT ![Main] = to, ![Watcher] = IF @ = "none" THEN "ready" ELSE @]
    /\ watched' = {file}
    /\ UNCHANGED <<process, modules, screenState, dumpVars, start, count, notices,
                   tunerVars, NotMain>>

\* The FileWatcher and its thread are created by the first AddWatch.
AddWatch(from, file, to) ==
    /\ At(Main, from)
    /\ pc' = [pc EXCEPT ![Main] = to, ![Watcher] = IF @ = "none" THEN "ready" ELSE @]
    /\ watched' = watched \cup {file}
    /\ UNCHANGED <<process, modules, screenState, dumpVars, start, count, notices,
                   tunerVars, NotMain>>

StartTimer ==
    /\ At(Main, "startTimer")
    /\ process' = IF config.idleDelay THEN "running" ELSE "exited"
    /\ pc' = IF config.idleDelay THEN [pc EXCEPT ![Main] = "start", ![IdleLoop] = "loop"] ELSE pc
    /\ UNCHANGED <<modules, screenState, dumpVars, fileVars, tunerVars, NotMain>>

StartListeners ==
    /\ At(Main, "InputListener")
    /\ pc' = [t \in Threads |->
                IF t \in Listeners THEN "ready" ELSE IF t = Main THEN "start" ELSE pc[t]]
    /\ UNCHANGED <<process, modules, screenState, dumpVars, fileVars, tunerVars, NotMain>>

PostEvent(t, from, event) ==
    /\ Goto(t, from, "post")
    /\ posted' = [posted EXCEPT ![t] = event]
    /\ UNCHANGED <<process, modules, subscribers, dumpVars, task, own, tunerVars,
                   workVars, historyVars>>

StartCgroupWatcher ==
    /\ PostEvent(Main, "getScreenState", "ScreenStateChanged")
    /\ screenState' = start.screen
    /\ UNCHANGED fileVars

MainStep ==
    \/ StartModule \/ InitFinished \/ ReadDump \/ LoadConfig \/ FirstPolicy
    \/ SubscribeTuner \/ AddWatch("addWatch", "config", "startTimer") \/ StartTimer
    \/ StartListeners \/ AddWatch("CgroupWatcher", "cpuset", "getScreenState")
    \/ StartCgroupWatcher \/ Subscribe("TopAppMonitor", {"CgroupModified"}, "start")

------------------------------------------------------------------------------
(* The other threads, and the outside world *)

\* A key goes down and up again.
Key(l) ==
    /\ count.keys < start.keys
    /\ count' = [count EXCEPT !.keys = @ + 1]
    /\ PostEvent(l, "ready", IF posted[l] = "KEY_DOWN" THEN "KEY_UP" ELSE "KEY_DOWN")
    /\ UNCHANGED <<start, watched, notices, screenState>>

Modify(file) ==
    /\ process = "running"
    /\ notices' = IF file \in watched THEN Append(notices, file) ELSE notices
    /\ UNCHANGED <<process, pc, modules, subscribers, screenState, dumpVars, localVars,
                   start, watched, tunerVars, workVars, unheard>>

\* The configuration file is written in place.
Save ==
    /\ count.texts < Len(start.texts)
    /\ count' = [count EXCEPT !.texts = @ + 1]
    /\ Modify("config")
    /\ missedEdit' = (pc[Main] \in {"updatePolicy", "subscribe", "addWatch"})

\* A task is moved between cpusets.
Move ==
    /\ count.moves < start.moves /\ "cpuset" \in watched
    /\ count' = [count EXCEPT !.moves = @ + 1]
    /\ Modify("cpuset")
    /\ UNCHANGED missedEdit

ConfigModified ==
    /\ notices # <<>> /\ Head(notices) = "config" /\ Goto(Watcher, "ready", "getInstance")
    /\ notices' = Tail(notices)
    /\ posted' = [posted EXCEPT ![Watcher] = "ConfigModified"]
    /\ task' = [task EXCEPT ![Watcher] = "load"]
    /\ UNCHANGED <<process, modules, subscribers, screenState, dumpVars, own, start,
                   count, watched, tunerVars, workVars, historyVars>>

CgroupModified ==
    /\ notices # <<>> /\ Head(notices) = "cpuset"
    /\ PostEvent(Watcher, "ready", "CgroupModified")
    /\ notices' = Tail(notices)
    /\ UNCHANGED <<start, count, watched, screenState>>

CheckScreenState ==
    \/ /\ screenState # start.screen
       /\ PostEvent(Watcher, "check", "ScreenStateChanged")
       /\ UNCHANGED <<fileVars, screenState>>
    \/ /\ screenState = start.screen
       /\ Goto(Watcher, "check", "ready")
       /\ UNCHANGED <<process, modules, screenState, dumpVars, fileVars, tunerVars, NotMain>>

StoreScreenState ==
    /\ Goto(Watcher, "store", "ready")
    /\ screenState' = start.screen
    /\ UNCHANGED <<process, modules, dumpVars, fileVars, tunerVars, NotMain>>

Handle(t) ==
    Post(t) \/ ScreenStateChanged(t) \/ KeyDown(t) \/ GetInstance(t)

ThreadStep(t) ==
    \/ Handle(t)
    \/ t = Main /\ MainStep
    \/ t = Watcher /\ (ConfigModified \/ CgroupModified \/ CheckScreenState \/ StoreScreenState)
    \/ t = IdleLoop /\ IdleRound

Next ==
    \/ \E t \in Threads : ThreadStep(t) \/ BeginTask(t) \/ EndTask(t)
    \/ \E l \in Listeners : Key(l)
    \/ Save \/ Move

\* Every thread that can run is run.
Spec ==
    /\ Init /\ [][Next]_vars
    /\ \A t \in Threads : WF_vars(ThreadStep(t)) /\ WF_vars(BeginTask(t) \/ EndTask(t))

------------------------------------------------------------------------------
TypeOK ==
    /\ process \in {"running", "exited", "crashed"}
    /\ subscribers \cup unheard
         \subseteq {"ScreenStateChanged", "TopAppChanged", "KEY_DOWN", "KEY_UP",
                     "CgroupModified", "InitFinished"}
    /\ policy \in {"none", "*", "screenOff"}
    /\ workers \subseteq Threads /\ instance \in workers \cup {nullptr}
    /\ own \in [Threads -> workers \cup {nullptr}]
    /\ \A t \in Threads : pc[t] = "addWork" => own[t] \in workers
    /\ tasks \in [Threads -> Seq({"load", "reset", "setIdle", "setActive"})]
    /\ \A w \in Threads \ workers : tasks[w] = <<>> /\ running[w] = nullptr

\* No event is posted before the module that waits for it has subscribed: no
\* touch and no state of the screen is lost.  The look at the top app that a
\* cpuset asks for before the monitor runs is the one it begins with; and
\* nobody waits for the end of the start.
NothingUnheard == unheard \subseteq {"CgroupModified", "InitFinished"}

\* w may be given a task: instance leads to it, a thread holds it to assign it,
\* to return it or to add its task, or is about to create it.
Reachable(w) ==
    \/ w = instance
    \/ pc[w] = "create"
    \/ \E t \in Threads : pc[t] \in {"assign", "reread", "addWork"} /\ own[t] = w

\* The first calls of GetInstance may race and leave more than one worker.  Once
\* they are over, all tasks go to one: a worker that lost is never found again.
WorkerSettles ==
    [][\A w \in Threads :
         instance # nullptr /\ ~Reachable(w) => ~Reachable(w)']_vars

\* Only an unsuitable phone or an unsuitable text ends the daemon: a dump in
\* neither format or without a mode, a first text that does not parse or any
\* text that lacks a key.  A text that does not parse later on ends nothing, and
\* no race of GetInstance makes a thread add a task to no worker (TypeOK).
OnlyBadTextEnds ==
    /\ TypeOK
    /\ process # "running" =>
        \/ Unsupported \/ displayModeMap = EmptyTable
        \/ pc[Main] = "updatePolicy" /\ config = Empty
        \/ \E i \in 1..count.texts : start.texts[i] # Broken /\ ~Complete(start.texts[i])

\* The configuration ends as the text of the file, if that parses, unless it was
\* saved between the first reading and the watch, or there are two workers, of
\* which the one that has read the older text may assign last.
LoadsLast ==
    <>[](\/ process # "running" \/ Text = Broken \/ config = Text
         \/ missedEdit \/ Cardinality(workers) > 1)

\* main comes to the end of the start, or the process ends.
Started == <>(process # "running" \/ pc[Main] = "paused")

\* However the threads interleave, the start ends and the configuration is loaded.
StartsAndLoads == Started /\ LoadsLast
==============================================================================
