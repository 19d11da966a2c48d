---------------------------- MODULE StartUp_proofs ----------------------------
(***************************************************************************)
(* Proofs about what main does: about StartUp, for any number of touch     *)
(* devices and any records of Starts: dumps, texts and bounds; and, at the *)
(* end, about DaemonProcesses, for any process ids and any number of       *)
(* launches and crashes.                                                   *)
(***************************************************************************)
EXTENDS StartUp, DaemonProcesses, TLAPS

\* The events of RefreshRateTuner, and all that are posted.
TunerEvents == {"ScreenStateChanged", "TopAppChanged", "KEY_DOWN", "KEY_UP"}
PostedEvents == {"ScreenStateChanged", "KEY_DOWN", "KEY_UP", "CgroupModified", "InitFinished"}

\* The modules that main has still to start, as it takes them one by one.
Remaining ==
    {Modules, <<"InputListener", "CgroupWatcher", "TopAppMonitor">>,
     <<"CgroupWatcher", "TopAppMonitor">>, <<"TopAppMonitor">>, <<>>}

\* RefreshRateTuner has not subscribed yet.
Early ==
    \/ modules = Modules
    \/ pc[Main] \in {"RefreshRateTuner", "loadConfig", "updatePolicy", "subscribe"}

\* Until it has, there is no thread but main; and only events are posted.
StartInv ==
    /\ pc = [t \in Threads |-> pc[t]] /\ posted = [t \in Threads |-> posted[t]]
    /\ modules \in Remaining
    /\ modules = Modules => pc[Main] = "start"
    /\ Early => \A t \in Threads \ {Main} : pc[t] = "none"
    /\ ~Early => TunerEvents \subseteq subscribers
    /\ \A t \in Threads : pc[t] = "post" => posted[t] \in PostedEvents

HeardInv == StartInv /\ NothingUnheard

\* Each thread has a local of its own.
OwnInv == StartInv /\ own = [t \in Threads |-> own[t]]

\* The tasks, and where a thread is about to add one.
TaskNames == {"load", "reset", "setIdle", "setActive"}
WorkPlaces == {"getInstance", "create", "assign", "reread", "addWork"}

\* A thread that is past the creation of a worker holds one, and GetInstance
\* returns nothing else: instance, once assigned, is a worker for good.
WorkInv ==
    /\ TypeOK
    /\ task = [t \in Threads |-> task[t]] /\ running = [w \in Threads |-> running[w]]
    /\ \A t \in Threads :
         /\ pc[t] \in WorkPlaces => task[t] \in TaskNames
         /\ pc[t] \in {"assign", "reread", "addWork"} => own[t] \in workers
         /\ pc[t] = "reread" => instance \in workers

\* Some text that the file has held, and one that parses.
HasHeld(text) == \E i \in 1..count.texts : text = start.texts[i]
HasParsed(text) == HasHeld(text) /\ text # Broken

\* Main has not been through its first UpdatePolicy_.
Unchecked ==
    modules = Modules \/ pc[Main] \in {"RefreshRateTuner", "loadConfig", "updatePolicy"}

\* A configuration is a text that parsed, or the empty one of before that call.
ConfigInv ==
    /\ count = [texts |-> count.texts, keys |-> count.keys, moves |-> count.moves]
    /\ count.texts \in Nat \ {0}
    /\ \A w \in Threads : running[w] # nullptr => HasHeld(running[w].text)
    /\ HasParsed(config) \/ (config = Empty /\ Unchecked)

EndInv == StartInv /\ WorkInv /\ ConfigInv /\ OnlyBadTextEnds

------------------------------------------------------------------------------
(* Who posts what, and when *)

\* The threads are distinct.
LEMMA Names ==
    /\ Listeners \subseteq Threads /\ {Main, Watcher, IdleLoop} \subseteq Threads
    /\ Main \notin Listeners /\ Watcher \notin Listeners /\ IdleLoop \notin Listeners
    /\ Main # Watcher /\ Main # IdleLoop /\ Watcher # IdleLoop
    /\ nullptr \notin Threads
  BY StartAssumption DEF Threads

\* What a thread that is past the subscription may do next, seen from main.
LEMMA Returns ==
    ASSUME NEW t
    PROVE  /\ Return(t) \in {"check", "store", "paused", "start", "ready"}
           /\ Handler(t) \in {"testActive", "policy", "check", "store", "paused", "start", "ready"}
  BY DEF Return, Handler

\* Start() of each module in its order.
LEMMA TakesModule ==
    ASSUME modules \in Remaining, modules # <<>>
    PROVE  /\ Tail(modules) \in Remaining \ {Modules}
           /\ IF modules = Modules THEN Head(modules) = "RefreshRateTuner"
              ELSE Head(modules) \in {"InputListener", "CgroupWatcher", "TopAppMonitor"}
  <1> DEFINE m3 == <<"InputListener", "CgroupWatcher", "TopAppMonitor">>
             m2 == <<"CgroupWatcher", "TopAppMonitor">>
             m1 == <<"TopAppMonitor">>
  <1>1. Tail(Modules) = m3 /\ Head(Modules) = "RefreshRateTuner"
    BY DEF Modules
  <1>2. Tail(m3) = m2 /\ Head(m3) = "InputListener"
    OBVIOUS
  <1>3. Tail(m2) = m1 /\ Head(m2) = "CgroupWatcher"
    OBVIOUS
  <1>4. Tail(m1) = <<>> /\ Head(m1) = "TopAppMonitor"
    OBVIOUS
  <1>5. Len(Modules) = 4 /\ Len(m3) = 3 /\ Len(m2) = 2 /\ Len(m1) = 1 /\ Len(<<>>) = 0
    BY DEF Modules
  <1> HIDE DEF m3, m2, m1
  <1>6. modules \in {Modules, m3, m2, m1}
    BY DEF Remaining, m3, m2, m1
  <1>7. Remaining = {Modules, m3, m2, m1, <<>>}
    BY DEF Remaining, m3, m2, m1
  <1>8. Modules # m3 /\ Modules # m2 /\ Modules # m1 /\ Modules # <<>>
    BY <1>5
  <1> QED
    BY <1>1, <1>2, <1>3, <1>4, <1>6, <1>7, <1>8

\* RefreshRateTuner subscribes before any other thread is started.
LEMMA NextStartInv == StartInv /\ [Next]_vars => StartInv'
  <1> SUFFICES ASSUME StartInv, [Next]_vars PROVE StartInv'
    OBVIOUS
  <1> USE Names DEF StartInv, Goto, At
  <1>1. ASSUME NEW t \in Threads, NEW from, NEW to, NEW event, Goto(t, from, to),
               from \notin {"none", "start", "RefreshRateTuner", "loadConfig", "updatePolicy", "subscribe"},
               to \notin {"RefreshRateTuner", "loadConfig", "updatePolicy", "subscribe"},
               UNCHANGED <<modules, subscribers>>,
               posted' = posted \/ posted' = [posted EXCEPT ![t] = event],
               to = "post" => posted' = [posted EXCEPT ![t] = event] /\ event \in PostedEvents
        PROVE  StartInv'
    <2>1. modules # Modules \/ t # Main
      BY <1>1
    <2>2. ~Early /\ ~Early'
      BY <1>1, <2>1 DEF Early
    <2>3. \A x \in Threads : pc'[x] = "post" => posted'[x] \in PostedEvents
      BY <1>1
    <2> QED
      BY <1>1, <2>1, <2>2, <2>3
  <1>2. ASSUME UNCHANGED <<pc, modules, subscribers, posted>> PROVE StartInv'
    BY <1>2 DEF Early
  <1>3. ASSUME NEW t \in Threads, Post(t) PROVE StartInv'
    BY <1>1, <1>3, Returns DEF Post, localVars
  <1>4. ASSUME NEW t \in Threads, GetInstance(t) PROVE StartInv'
    <2>1. CASE TestInstance(t)
      BY <1>1, <2>1 DEF TestInstance, NotWorker, NotCaller
    <2>2. CASE Create(t) \/ Assign(t) \/ Reread(t)
      BY <1>1, <2>2 DEF Create, Assign, Reread, NotWorker, NotCaller
    <2>3. CASE AddWork(t)
      BY <1>1, <2>3, Returns DEF AddWork, NotCaller
    <2> QED
      BY <1>4, <2>1, <2>2, <2>3 DEF GetInstance
  <1>5. ASSUME NEW t \in Threads, NEW name, UpdatePolicy(t, name, "policy", "getInstance")
        PROVE  StartInv'
    <2>1. CASE UNCHANGED pc
      BY <1>2, <1>5, <2>1 DEF UpdatePolicy
    <2>2. CASE pc' = [pc EXCEPT ![t] = "getInstance"]
      BY <1>1, <1>5, <2>2 DEF UpdatePolicy
    <2> QED
      BY <1>5, <2>1, <2>2 DEF UpdatePolicy
  <1>6. ASSUME NEW t \in Threads, KeyDown(t) PROVE StartInv'
    BY <1>1, <1>6, Returns DEF KeyDown
  <1>7. ASSUME NEW t \in Threads, NEW from, NEW event \in PostedEvents, PostEvent(t, from, event),
               UNCHANGED modules, from \in {"getScreenState", "ready", "check"}
        PROVE  StartInv'
    BY <1>1, <1>7 DEF PostEvent
  <1>8. ASSUME NEW t \in Threads, Handle(t) PROVE StartInv'
    BY <1>3, <1>4, <1>5, <1>6, <1>8 DEF Handle, ScreenStateChanged
  <1>9. CASE ConfigModified
    BY <1>1, <1>9 DEF ConfigModified
  <1>10. CASE CgroupModified \/ CheckScreenState \/ StoreScreenState
    <2>1. ASSUME NEW from \in {"check", "store"}, Goto(Watcher, from, "ready"), UNCHANGED modules,
                 UNCHANGED NotMain
          PROVE  StartInv'
      BY <1>1, <2>1 DEF NotMain, localVars
    <2>2. ASSUME NEW from, NEW event, PostEvent(Watcher, from, event) PROVE UNCHANGED modules
      BY <2>2 DEF PostEvent
    <2>3. CASE CgroupModified
      BY <1>7, <2>2, <2>3 DEF CgroupModified, PostedEvents
    <2>4. CASE CheckScreenState
      BY <1>7, <2>1, <2>2, <2>4 DEF CheckScreenState, PostedEvents
    <2>5. CASE StoreScreenState
      BY <2>1, <2>5 DEF StoreScreenState
    <2> QED
      BY <1>10, <2>3, <2>4, <2>5
  <1>11. CASE IdleRound
    BY <1>2, <1>11 DEF IdleRound, localVars
  <1>12. ASSUME NEW l \in Listeners, Key(l) PROVE StartInv'
    BY <1>7, <1>12 DEF Key, PostEvent, PostedEvents
  <1>13. CASE Save \/ Move
    BY <1>2, <1>13 DEF Save, Move, Modify, localVars
  <1>14. ASSUME NEW w \in Threads, BeginTask(w) \/ EndTask(w) PROVE StartInv'
    BY <1>2, <1>14 DEF BeginTask, EndTask, NotTask, localVars
  <1>15. CASE UNCHANGED vars
    BY <1>2, <1>15 DEF vars, localVars
  <1>16. CASE StartModule
    BY <1>16, TakesModule DEF StartModule, NotMain, localVars, Early
  <1>17. CASE InitFinished
    BY <1>17 DEF InitFinished, Early, Modules, PostedEvents
  <1>18. CASE ReadDump \/ LoadConfig
    BY <1>18 DEF ReadDump, LoadConfig, NotMain, localVars, Early
  <1>19. CASE FirstPolicy
    BY <1>19 DEF FirstPolicy, UpdatePolicy, Early
  <1>20. CASE SubscribeTuner
    BY <1>20 DEF SubscribeTuner, Subscribe, localVars, Early, TunerEvents
  <1>21. CASE AddWatch("addWatch", "config", "startTimer")
    BY <1>21 DEF AddWatch, NotMain, localVars, Early
  <1>22. CASE StartTimer \/ StartListeners
    BY <1>22 DEF StartTimer, StartListeners, NotMain, localVars, Early
  <1>23. CASE AddWatch("CgroupWatcher", "cpuset", "getScreenState")
    BY <1>23 DEF AddWatch, NotMain, localVars, Early
  <1>24. CASE StartCgroupWatcher
    BY <1>7, <1>24 DEF StartCgroupWatcher, PostEvent, PostedEvents
  <1>25. CASE Subscribe("TopAppMonitor", {"CgroupModified"}, "start")
    BY <1>25 DEF Subscribe, localVars, Early
  <1> HIDE DEF StartInv, Goto, At
  <1> QED
    BY <1>8, <1>9, <1>10, <1>11, <1>12, <1>13, <1>14, <1>15, <1>16, <1>17, <1>18, <1>19,
       <1>20, <1>21, <1>22, <1>23, <1>24, <1>25 DEF Next, ThreadStep, MainStep

\* No step but the posting of an event changes what nobody has heard.
LEMMA OthersHear ==
    ASSUME [Next]_vars, ~ \E t \in Threads : Post(t)
    PROVE  UNCHANGED unheard
  <1> USE DEF historyVars
  <1>1. ASSUME NEW t, GetInstance(t) \/ ScreenStateChanged(t) \/ KeyDown(t) PROVE UNCHANGED unheard
    BY <1>1 DEF GetInstance, TestInstance, Create, Assign, Reread, AddWork, NotWorker,
       NotCaller, ScreenStateChanged, UpdatePolicy, KeyDown
  <1>2. MainStep => UNCHANGED unheard
    BY DEF MainStep, StartModule, InitFinished, ReadDump, LoadConfig, FirstPolicy, UpdatePolicy,
       SubscribeTuner, Subscribe, AddWatch, StartTimer, StartListeners, StartCgroupWatcher,
       PostEvent, NotMain
  <1>3. ConfigModified \/ CgroupModified \/ CheckScreenState \/ StoreScreenState \/ IdleRound
          => UNCHANGED unheard
    BY DEF ConfigModified, CgroupModified, CheckScreenState, StoreScreenState, IdleRound,
       PostEvent, NotMain
  <1>4. ASSUME NEW w, BeginTask(w) \/ EndTask(w) PROVE UNCHANGED unheard
    BY <1>4 DEF BeginTask, EndTask, NotTask
  <1>5. ASSUME NEW l, Key(l) PROVE UNCHANGED unheard
    BY <1>5 DEF Key, PostEvent
  <1>6. Save \/ Move \/ UNCHANGED vars => UNCHANGED unheard
    BY DEF Save, Move, Modify, vars
  <1> QED
    BY <1>1, <1>2, <1>3, <1>4, <1>5, <1>6 DEF Next, ThreadStep, Handle

\* Start() is called with nothing subscribed, posted or heard.
LEMMA InitHeardInv == Init => HeardInv
  BY Names DEF Init, HeardInv, StartInv, NothingUnheard, Remaining, Early, Modules

\* However the threads that main has started interleave with it, and whatever
\* the devices, the cpusets and the file do, no touch and no screen state is
\* posted before RefreshRateTuner has subscribed to it.
THEOREM NoEventTooEarly == Spec => []NothingUnheard
  <1>1. HeardInv /\ [Next]_vars => HeardInv'
    <2> SUFFICES ASSUME HeardInv, [Next]_vars PROVE NothingUnheard'
      BY NextStartInv DEF HeardInv
    <2>1. ASSUME NEW t \in Threads, Post(t) PROVE NothingUnheard'
      <3>1. posted[t] \in PostedEvents /\ pc[t] = "post"
        BY <2>1 DEF HeardInv, StartInv, Post, Goto, At
      <3>2. ~Early
        BY <3>1 DEF HeardInv, StartInv, Early
      <3>3. posted[t] \in subscribers \cup {"CgroupModified", "InitFinished"}
        BY <3>1, <3>2 DEF HeardInv, StartInv, PostedEvents, TunerEvents
      <3> QED
        BY <2>1, <3>3 DEF HeardInv, NothingUnheard, Post
    <2> QED
      BY <2>1, OthersHear DEF HeardInv, NothingUnheard
  <1>2. HeardInv => NothingUnheard
    BY DEF HeardInv
  <1> QED
    BY InitHeardInv, <1>1, <1>2, PTL DEF Spec

------------------------------------------------------------------------------
(* The worker that GetInstance returns *)

\* Main begins no module under the name of a place in GetInstance.
LEMMA ModulePlaces ==
    ASSUME StartInv, StartModule
    PROVE  pc'[Main] \in {"RefreshRateTuner", "InputListener", "CgroupWatcher", "TopAppMonitor"}
  BY Names, TakesModule DEF StartInv, StartModule, Goto, At

\* Outside GetInstance no thread gets hold of a worker.
LEMMA OthersKeepWorkers ==
    ASSUME StartInv, [Next]_vars, ~ \E t \in Threads : GetInstance(t)
    PROVE  /\ UNCHANGED <<own, workers, instance>>
           /\ UNCHANGED <<tasks, running>> \/ \E w \in Threads : BeginTask(w) \/ EndTask(w)
           /\ \A t \in Threads : pc'[t] \in WorkPlaces \ {"getInstance"} => pc'[t] = pc[t]
  <1> DEFINE Goal == /\ UNCHANGED <<own, workers, instance>>
                     /\ \/ UNCHANGED <<tasks, running>>
                        \/ \E w \in Threads : BeginTask(w) \/ EndTask(w)
                     /\ \A t \in Threads : pc'[t] \in WorkPlaces \ {"getInstance"} => pc'[t] = pc[t]
  <1> SUFFICES Goal
    OBVIOUS
  <1> USE Names DEF StartInv, Goto, At, WorkPlaces, localVars, workVars
  <1>1. ASSUME NEW t \in Threads, Post(t) PROVE Goal
    BY <1>1, Returns DEF Post
  <1>2. ASSUME NEW t \in Threads, NEW name, NEW from,
               UpdatePolicy(t, name, from, "subscribe") \/ UpdatePolicy(t, name, from, "getInstance")
        PROVE  Goal
    BY <1>2 DEF UpdatePolicy
  <1>3. ASSUME NEW t \in Threads, ScreenStateChanged(t) PROVE Goal
    BY <1>2, <1>3 DEF ScreenStateChanged
  <1>4. ASSUME NEW t \in Threads, KeyDown(t) PROVE Goal
    BY <1>4, Returns DEF KeyDown
  <1>5. CASE StartModule
    BY <1>5, ModulePlaces DEF StartModule, NotMain
  <1>6. CASE InitFinished \/ ReadDump \/ LoadConfig
    BY <1>6 DEF InitFinished, ReadDump, LoadConfig, NotMain
  <1>7. CASE FirstPolicy
    BY <1>2, <1>7 DEF FirstPolicy
  <1>8. CASE SubscribeTuner \/ Subscribe("TopAppMonitor", {"CgroupModified"}, "start")
    BY <1>8 DEF SubscribeTuner, Subscribe
  <1>9. ASSUME NEW from, NEW file, NEW to \in {"startTimer", "getScreenState"}, AddWatch(from, file, to)
        PROVE  Goal
    BY <1>9 DEF AddWatch, NotMain
  <1>10. CASE StartTimer \/ StartListeners
    BY <1>10 DEF StartTimer, StartListeners, NotMain
  <1>11. ASSUME NEW t \in Threads, NEW from, NEW event, PostEvent(t, from, event) PROVE Goal
    BY <1>11 DEF PostEvent
  <1>12. CASE StartCgroupWatcher \/ CgroupModified \/ \E l \in Listeners : Key(l)
    BY <1>11, <1>12 DEF StartCgroupWatcher, CgroupModified, Key
  <1>13. CASE CheckScreenState \/ StoreScreenState
    <2>1. ASSUME NEW from, Goto(Watcher, from, "ready"), UNCHANGED NotMain PROVE Goal
      BY <2>1 DEF NotMain
    <2> QED
      BY <1>11, <1>13, <2>1 DEF CheckScreenState, StoreScreenState
  <1>14. CASE ConfigModified \/ IdleRound \/ Save \/ Move
    BY <1>14 DEF ConfigModified, IdleRound, Save, Move, Modify
  <1>15. ASSUME NEW w \in Threads, BeginTask(w) \/ EndTask(w) PROVE Goal
    BY <1>15 DEF BeginTask, EndTask, NotTask
  <1>16. CASE UNCHANGED vars
    BY <1>16 DEF vars
  <1> HIDE DEF Goal, StartInv, Goto, At
  <1> QED
    BY <1>1, <1>3, <1>4, <1>5, <1>6, <1>7, <1>8, <1>9, <1>10, <1>12, <1>13, <1>14, <1>15, <1>16
       DEF Next, ThreadStep, MainStep, Handle

\* Only GetInstance writes that local.
LEMMA NextOwnInv == OwnInv /\ [Next]_vars => OwnInv'
  <1>1. ASSUME OwnInv, NEW t \in Threads, GetInstance(t) PROVE own' = [x \in Threads |-> own'[x]]
    BY <1>1 DEF OwnInv, GetInstance, TestInstance, Create, Assign, Reread, AddWork
  <1>2. ASSUME OwnInv, [Next]_vars, ~ \E t \in Threads : GetInstance(t) PROVE own' = own
    BY <1>2, OthersKeepWorkers DEF OwnInv
  <1> QED
    BY <1>1, <1>2, NextStartInv DEF OwnInv

\* A worker is lost for good: GetInstance hands out instance, what instance was
\* when it was read, or the worker its caller has created.
LEMMA StaysLost ==
    ASSUME OwnInv, [Next]_vars, NEW w \in Threads, instance # nullptr, ~Reachable(w)
    PROVE  ~Reachable(w)'
  <1> USE Names DEF OwnInv, StartInv, Goto, At
  <1>1. CASE ~ \E t \in Threads : GetInstance(t)
    <2>1. /\ UNCHANGED <<own, instance>>
          /\ \A t \in Threads : pc'[t] \in {"create", "assign", "reread", "addWork"} => pc'[t] = pc[t]
      <3> HIDE DEF StartInv
      <3> QED
        BY <1>1, OthersKeepWorkers DEF WorkPlaces
    <2> QED
      BY <2>1 DEF Reachable
  <1>2. ASSUME NEW t \in Threads, GetInstance(t) PROVE ~Reachable(w)'
    <2>1. CASE TestInstance(t)
      BY <1>2, <2>1 DEF TestInstance, Reachable, NotWorker, workVars
    <2>2. CASE Create(t)
      BY <1>2, <2>2 DEF Create, Reachable
    <2>3. CASE Assign(t)
      BY <1>2, <2>3 DEF Assign, Reachable
    <2>4. CASE Reread(t)
      BY <1>2, <2>4 DEF Reread, Reachable, workVars
    <2>5. CASE AddWork(t)
      BY <1>2, <2>5, Returns DEF AddWork, Reachable
    <2> QED
      BY <1>2, <2>1, <2>2, <2>3, <2>4, <2>5 DEF GetInstance
  <1> QED
    BY <1>1, <1>2

\* The race of the first calls of GetInstance ends: a worker that instance leads
\* to no longer, and that no thread holds, is given no further task.
THEOREM LostWorkersStayLost == Spec => WorkerSettles
  <1>1. Init => OwnInv
    BY InitHeardInv DEF HeardInv, OwnInv, Init
  <1>2. OwnInv /\ [Next]_vars =>
          [\A w \in Threads : instance # nullptr /\ ~Reachable(w) => ~Reachable(w)']_vars
    BY StaysLost
  <1> QED
    BY <1>1, <1>2, NextOwnInv, PTL DEF Spec, WorkerSettles

------------------------------------------------------------------------------
(* The type invariant *)

\* Start() is called with no worker and no task.
LEMMA InitWorkInv == Init => WorkInv
  <1> SUFFICES ASSUME Init PROVE WorkInv
    OBVIOUS
  <1>1. [w \in Threads |-> <<>>] \in [Threads -> Seq(TaskNames)]
    OBVIOUS
  <1>2. TypeOK
    BY <1>1, Names DEF Init, TypeOK, TaskNames
  <1> QED
    BY <1>2 DEF Init, WorkInv, WorkPlaces

\* The names of events and policies are those that the modules use.
LEMMA NextNamesOK ==
    ASSUME StartInv, TypeOK, [Next]_vars
    PROVE  /\ process' \in {"running", "exited", "crashed"}
           /\ (subscribers \cup unheard)' \subseteq TunerEvents \cup PostedEvents
           /\ policy' \in {"none", "*", "screenOff"}
  <1> DEFINE Goal == /\ process' \in {"running", "exited", "crashed"}
                     /\ subscribers' \cup unheard' \subseteq TunerEvents \cup PostedEvents
                     /\ policy' \in {"none", "*", "screenOff"}
  <1> SUFFICES Goal
    OBVIOUS
  <1>0. /\ process \in {"running", "exited", "crashed"} /\ policy \in {"none", "*", "screenOff"}
        /\ subscribers \cup unheard \subseteq TunerEvents \cup PostedEvents
    BY DEF TypeOK, TunerEvents, PostedEvents
  <1> USE <1>0 DEF tunerVars, historyVars
  <1>1. ASSUME NEW t \in Threads, Post(t) PROVE Goal
    <2>1. posted[t] \in PostedEvents
      BY <1>1 DEF StartInv, Post, Goto, At
    <2> QED
      BY <1>1, <2>1 DEF Post
  <1>2. ASSUME NEW t, NEW name \in {"*", "screenOff"}, NEW from, NEW to, UpdatePolicy(t, name, from, to)
        PROVE  Goal
    BY <1>2 DEF UpdatePolicy
  <1>3. ASSUME NEW t, ScreenStateChanged(t) PROVE Goal
    BY <1>2, <1>3 DEF ScreenStateChanged
  <1>4. ASSUME NEW t, KeyDown(t) \/ GetInstance(t) PROVE Goal
    BY <1>4 DEF KeyDown, GetInstance, TestInstance, Create, Assign, Reread, AddWork, NotWorker, NotCaller
  <1>5. CASE StartModule \/ InitFinished \/ ReadDump \/ LoadConfig
    BY <1>5 DEF StartModule, InitFinished, ReadDump, LoadConfig, NotMain
  <1>6. CASE FirstPolicy
    BY <1>2, <1>6 DEF FirstPolicy
  <1>7. CASE SubscribeTuner \/ Subscribe("TopAppMonitor", {"CgroupModified"}, "start")
    BY <1>7 DEF SubscribeTuner, Subscribe, TunerEvents, PostedEvents
  <1>8. ASSUME NEW from, NEW file, NEW to, AddWatch(from, file, to) PROVE Goal
    BY <1>8 DEF AddWatch, NotMain
  <1>9. CASE StartTimer \/ StartListeners
    BY <1>9 DEF StartTimer, StartListeners, NotMain
  <1>10. ASSUME NEW t, NEW from, NEW event, PostEvent(t, from, event) PROVE Goal
    BY <1>10 DEF PostEvent
  <1>11. CASE StartCgroupWatcher \/ CgroupModified \/ \E l \in Listeners : Key(l)
    BY <1>10, <1>11 DEF StartCgroupWatcher, CgroupModified, Key
  <1>12. CASE CheckScreenState \/ StoreScreenState
    BY <1>10, <1>12 DEF CheckScreenState, StoreScreenState, NotMain
  <1>13. CASE ConfigModified \/ IdleRound \/ Save \/ Move
    BY <1>13 DEF ConfigModified, IdleRound, Save, Move, Modify
  <1>14. ASSUME NEW w, BeginTask(w) \/ EndTask(w) PROVE Goal
    BY <1>14 DEF BeginTask, EndTask, NotTask
  <1>15. CASE UNCHANGED vars
    BY <1>15 DEF vars
  <1> HIDE DEF Goal
  <1> QED
    BY <1>1, <1>3, <1>4, <1>5, <1>6, <1>7, <1>8, <1>9, <1>11, <1>12, <1>13, <1>14, <1>15
       DEF Next, ThreadStep, MainStep, Handle

\* Whoever calls GetInstance has a task to add.
LEMMA OthersHaveTask ==
    ASSUME StartInv, WorkInv, [Next]_vars, ~ \E t \in Threads : GetInstance(t)
    PROVE  /\ task' = [t \in Threads |-> task'[t]]
           /\ \A t \in Threads : pc'[t] \in WorkPlaces => task'[t] \in TaskNames
  <1> DEFINE Goal == /\ task' = [t \in Threads |-> task'[t]]
                     /\ \A t \in Threads : pc'[t] \in WorkPlaces => task'[t] \in TaskNames
  <1> SUFFICES Goal
    OBVIOUS
  <1>0. task = [t \in Threads |-> task[t]] /\ \A t \in Threads : pc[t] \in WorkPlaces => task[t] \in TaskNames
    BY DEF WorkInv
  <1>1. ASSUME UNCHANGED task, \A t \in Threads : pc'[t] \in WorkPlaces => pc'[t] = pc[t] PROVE Goal
    BY <1>0, <1>1
  <1> USE Names DEF StartInv, Goto, At, WorkPlaces, localVars
  <1>2. ASSUME NEW t \in Threads, Post(t) PROVE Goal
    BY <1>1, <1>2, Returns DEF Post
  <1>3. ASSUME NEW t \in Threads, NEW name, NEW job \in TaskNames,
               UpdatePolicy(t, name, "policy", "getInstance"), task' = [task EXCEPT ![t] = job]
        PROVE  Goal
    BY <1>0, <1>3 DEF UpdatePolicy
  <1>4. ASSUME NEW t \in Threads, ScreenStateChanged(t) PROVE Goal
    BY <1>3, <1>4 DEF ScreenStateChanged, TaskNames
  <1>5. ASSUME NEW t \in Threads, KeyDown(t) PROVE Goal
    <2>1. CASE UNCHANGED task /\ pc' = [pc EXCEPT ![t] = Return(t)]
      BY <1>1, <2>1, Returns
    <2>2. CASE task' = [task EXCEPT ![t] = "setActive"] /\ pc' = [pc EXCEPT ![t] = "getInstance"]
      BY <1>0, <2>2 DEF TaskNames
    <2> QED
      BY <1>5, <2>1, <2>2 DEF KeyDown
  <1>6. CASE StartModule
    BY <1>1, <1>6, ModulePlaces DEF StartModule, NotMain
  <1>7. CASE InitFinished \/ ReadDump \/ LoadConfig
    BY <1>1, <1>7 DEF InitFinished, ReadDump, LoadConfig, NotMain
  <1>8. CASE FirstPolicy
    BY <1>1, <1>8 DEF FirstPolicy, UpdatePolicy
  <1>9. CASE SubscribeTuner \/ Subscribe("TopAppMonitor", {"CgroupModified"}, "start")
    BY <1>1, <1>9 DEF SubscribeTuner, Subscribe
  <1>10. ASSUME NEW from, NEW file, NEW to \in {"startTimer", "getScreenState"}, AddWatch(from, file, to)
         PROVE  Goal
    BY <1>1, <1>10 DEF AddWatch, NotMain
  <1>11. CASE StartTimer \/ StartListeners
    BY <1>1, <1>11 DEF StartTimer, StartListeners, NotMain
  <1>12. ASSUME NEW t \in Threads, NEW from, NEW event, PostEvent(t, from, event) PROVE Goal
    BY <1>1, <1>12 DEF PostEvent
  <1>13. CASE StartCgroupWatcher \/ CgroupModified \/ \E l \in Listeners : Key(l)
    BY <1>12, <1>13 DEF StartCgroupWatcher, CgroupModified, Key
  <1>14. CASE CheckScreenState \/ StoreScreenState
    <2>1. ASSUME NEW from, Goto(Watcher, from, "ready"), UNCHANGED NotMain PROVE Goal
      BY <1>1, <2>1 DEF NotMain
    <2> QED
      BY <1>12, <1>14, <2>1 DEF CheckScreenState, StoreScreenState
  <1>15. CASE ConfigModified
    BY <1>0, <1>15 DEF ConfigModified, TaskNames
  <1>16. CASE IdleRound \/ Save \/ Move
    BY <1>1, <1>16 DEF IdleRound, Save, Move, Modify
  <1>17. ASSUME NEW w \in Threads, BeginTask(w) \/ EndTask(w) PROVE Goal
    BY <1>1, <1>17 DEF BeginTask, EndTask, NotTask
  <1>18. CASE UNCHANGED vars
    BY <1>1, <1>18 DEF vars
  <1> HIDE DEF Goal, StartInv, Goto, At
  <1> QED
    BY <1>2, <1>4, <1>5, <1>6, <1>7, <1>8, <1>9, <1>10, <1>11, <1>13, <1>14, <1>15, <1>16, <1>17, <1>18
       DEF Next, ThreadStep, MainStep, Handle

\* Only a worker that has been created is given tasks, and instance, once it has
\* led to one, always does.
LEMMA NextWorkInv == StartInv /\ WorkInv /\ [Next]_vars => WorkInv'
  <1> SUFFICES ASSUME StartInv, WorkInv, [Next]_vars PROVE WorkInv'
    OBVIOUS
  <1> DEFINE Held == /\ workers \subseteq Threads /\ instance \in workers \cup {nullptr}
                     /\ own \in [Threads -> workers \cup {nullptr}]
                     /\ \A t \in Threads :
                          /\ pc[t] \in {"assign", "reread", "addWork"} => own[t] \in workers
                          /\ pc[t] = "reread" => instance \in workers
             Asked == /\ task = [t \in Threads |-> task[t]]
                      /\ \A t \in Threads : pc[t] \in WorkPlaces => task[t] \in TaskNames
             Queued == /\ tasks \in [Threads -> Seq(TaskNames)]
                       /\ running = [w \in Threads |-> running[w]]
                       /\ \A w \in Threads \ workers : tasks[w] = <<>> /\ running[w] = nullptr
  <1>1. Held /\ Asked /\ Queued
    BY DEF WorkInv, TypeOK, TaskNames
  <1>2. ASSUME Held', Asked', Queued' PROVE WorkInv'
    <2>1. \A t \in Threads : pc'[t] = "addWork" => own'[t] \in workers'
      BY <1>2
    <2>2. TypeOK'
      BY <1>2, <2>1, NextNamesOK DEF WorkInv, TypeOK, TaskNames, TunerEvents, PostedEvents
    <2> QED
      BY <1>2, <2>2 DEF WorkInv
  <1>3. ASSUME NEW t \in Threads, GetInstance(t) PROVE Held' /\ Asked' /\ Queued'
    <2> USE Names DEF StartInv, Goto, At
    <2>1. CASE TestInstance(t)
      <3>1. Held'
        BY <1>1, <2>1 DEF TestInstance, workVars
      <3>2. Asked' /\ Queued'
        BY <1>1, <2>1 DEF TestInstance, NotWorker, workVars, WorkPlaces
      <3> QED
        BY <3>1, <3>2
    <2>2. CASE Create(t)
      <3>1. Held'
        BY <1>1, <2>2 DEF Create
      <3>2. Asked' /\ Queued'
        BY <1>1, <2>2 DEF Create, NotWorker, WorkPlaces
      <3> QED
        BY <3>1, <3>2
    <2>3. CASE Assign(t)
      <3>1. Held'
        BY <1>1, <2>3 DEF Assign
      <3>2. Asked' /\ Queued'
        BY <1>1, <2>3 DEF Assign, NotWorker, WorkPlaces
      <3> QED
        BY <3>1, <3>2
    <2>4. CASE Reread(t)
      <3>1. instance \in workers /\ own[t] \in workers
        BY <1>1, <2>4 DEF Reread
      <3>2. /\ own' \in {own, [own EXCEPT ![t] = instance]} /\ pc' = [pc EXCEPT ![t] = "addWork"]
            /\ UNCHANGED <<task, workers, instance, tasks, running>>
        BY <2>4 DEF Reread, NotWorker, workVars
      <3>3. Held'
        <4>1. CASE own' = own
          BY <1>1, <3>1, <3>2, <4>1
        <4>2. CASE own' = [own EXCEPT ![t] = instance]
          BY <1>1, <3>1, <3>2, <4>2
        <4> QED
          BY <3>2, <4>1, <4>2
      <3>4. Asked' /\ Queued'
        BY <1>1, <2>4, <3>2 DEF Reread, WorkPlaces
      <3> QED
        BY <3>3, <3>4
    <2>5. CASE AddWork(t)
      <3>1. own[t] \in workers /\ task[t] \in TaskNames /\ workers \subseteq Threads
        BY <1>1, <2>5 DEF AddWork, WorkPlaces
      <3>2. Append(tasks[own[t]], task[t]) \in Seq(TaskNames)
        <4>1. tasks[own[t]] \in Seq(TaskNames)
          BY <1>1, <3>1
        <4> QED
          BY <3>1, <4>1
      <3>3. tasks' = [tasks EXCEPT ![own[t]] = Append(tasks[own[t]], task[t])] /\ UNCHANGED <<running, workers>>
        BY <2>5 DEF AddWork
      <3>4. Queued'
        BY <1>1, <3>1, <3>2, <3>3
      <3>5. /\ own' = [own EXCEPT ![t] = nullptr] /\ task' = [task EXCEPT ![t] = "none"]
            /\ pc' = [pc EXCEPT ![t] = Return(t)] /\ UNCHANGED <<workers, instance>>
        BY <2>5 DEF AddWork
      <3>6. Held' /\ Asked'
        BY <1>1, <3>5, Returns DEF WorkPlaces
      <3> QED
        BY <3>4, <3>6
    <2> QED
      BY <1>3, <2>1, <2>2, <2>3, <2>4, <2>5 DEF GetInstance
  <1>4. ASSUME ~ \E t \in Threads : GetInstance(t) PROVE Held' /\ Asked' /\ Queued'
    <2>1. /\ UNCHANGED <<own, workers, instance>>
          /\ UNCHANGED <<tasks, running>> \/ \E w \in Threads : BeginTask(w) \/ EndTask(w)
          /\ \A t \in Threads : pc'[t] \in WorkPlaces \ {"getInstance"} => pc'[t] = pc[t]
      BY <1>4, OthersKeepWorkers
    <2>2. Held'
      BY <1>1, <2>1 DEF WorkPlaces
    <2>3. Asked'
      BY <1>4, OthersHaveTask
    <2>4. ASSUME NEW w \in Threads, BeginTask(w) PROVE Queued'
      <3>1. /\ tasks[w] # <<>> /\ tasks' = [tasks EXCEPT ![w] = Tail(tasks[w])]
            /\ running' = [running EXCEPT ![w] = running'[w]] /\ workers' = workers
        BY <1>1, <2>4 DEF BeginTask, NotTask
      <3>2. tasks[w] \in Seq(TaskNames)
        BY <1>1
      <3>3. Tail(tasks[w]) \in Seq(TaskNames)
        BY <3>1, <3>2
      <3> QED
        BY <1>1, <3>1, <3>3
    <2>5. ASSUME NEW w \in Threads, EndTask(w) PROVE Queued'
      BY <1>1, <2>5 DEF EndTask, NotTask
    <2>6. Queued'
      BY <1>1, <2>1, <2>4, <2>5
    <2> QED
      BY <2>2, <2>3, <2>6
  <1> QED
    BY <1>2, <1>3, <1>4

------------------------------------------------------------------------------
(* The texts *)

\* What the file has held, it has held.
LEMMA HeldStays ==
    ASSUME start' = start, count.texts \in Nat, count'.texts \in Nat, count'.texts >= count.texts,
           NEW text, HasHeld(text)
    PROVE  HasHeld(text)'
  BY DEF HasHeld

\* Main gets past its first UpdatePolicy_ with a configuration that has policies,
\* and only LoadConfig_ on main and the tasks of a worker load one.
LEMMA OthersKeepConfig ==
    ASSUME StartInv, ConfigInv, [Next]_vars, ~LoadConfig,
           ~ \E w \in Threads : BeginTask(w) \/ EndTask(w)
    PROVE  /\ UNCHANGED <<start, config, running>>
           /\ count' \in {count, [count EXCEPT !.texts = @ + 1], [count EXCEPT !.keys = @ + 1],
                          [count EXCEPT !.moves = @ + 1]}
           /\ config = Empty /\ Unchecked => Unchecked'
  <1> DEFINE Counts == count' \in {count, [count EXCEPT !.texts = @ + 1], [count EXCEPT !.keys = @ + 1],
                                   [count EXCEPT !.moves = @ + 1]}
             Goal == UNCHANGED <<start, config, running>> /\ Counts /\ (config = Empty /\ Unchecked => Unchecked')
  <1> SUFFICES Goal
    OBVIOUS
  <1> USE Names DEF Goto, At, Unchecked, tunerVars, fileVars, workVars
  <1>0. StartInv
    OBVIOUS
  <1>1. ASSUME NEW t \in Threads, pc[t] \notin {"start", "RefreshRateTuner", "loadConfig", "updatePolicy"},
               \/ UNCHANGED pc
               \/ \E to : pc' = [pc EXCEPT ![t] = to],
               UNCHANGED modules
        PROVE  Unchecked => Unchecked'
    BY <1>0, <1>1 DEF StartInv
  <1>2. ASSUME NEW t \in Threads, Post(t) \/ KeyDown(t) \/ GetInstance(t) PROVE Goal
    <2>1. /\ UNCHANGED modules /\ \E to : pc' = [pc EXCEPT ![t] = to]
          /\ pc[t] \notin {"start", "RefreshRateTuner", "loadConfig", "updatePolicy"}
      BY <1>2 DEF Post, KeyDown, GetInstance, TestInstance, Create, Assign, Reread, AddWork,
         NotWorker, NotCaller
    <2>2. UNCHANGED <<start, config, running, count>>
      BY <1>2 DEF Post, KeyDown, GetInstance, TestInstance, Create, Assign, Reread, AddWork,
         NotWorker, NotCaller
    <2> QED
      BY <1>1, <2>1, <2>2
  <1>3. ASSUME NEW t \in Threads, ScreenStateChanged(t) PROVE Goal
    BY <1>1, <1>3 DEF ScreenStateChanged, UpdatePolicy
  <1>4. CASE StartModule
    BY <1>0, <1>4, TakesModule DEF StartInv, StartModule, NotMain
  <1>5. CASE InitFinished
    BY <1>5 DEF InitFinished, Modules
  <1>6. CASE ReadDump
    BY <1>0, <1>6 DEF StartInv, ReadDump, NotMain
  <1>7. CASE FirstPolicy
    <2>1. config = Empty => UNCHANGED pc
      BY <1>7 DEF FirstPolicy, UpdatePolicy, Empty
    <2> QED
      BY <1>7, <2>1 DEF FirstPolicy, UpdatePolicy
  <1>8. ASSUME NEW from \in {"subscribe", "TopAppMonitor"}, NEW events, NEW to, Subscribe(from, events, to)
        PROVE  Goal
    BY <1>1, <1>8 DEF Subscribe
  <1>9. ASSUME NEW from \in {"addWatch", "CgroupWatcher"}, NEW file, NEW to, AddWatch(from, file, to)
        PROVE  Goal
    BY <1>0, <1>9 DEF StartInv, AddWatch, NotMain
  <1>10. CASE StartTimer \/ StartListeners
    BY <1>0, <1>10 DEF StartInv, StartTimer, StartListeners, NotMain
  <1>11. ASSUME NEW t \in Threads, NEW from \in {"getScreenState", "ready", "check"}, NEW event,
                PostEvent(t, from, event)
         PROVE  UNCHANGED <<config, running>> /\ (Unchecked => Unchecked')
    BY <1>1, <1>11 DEF PostEvent
  <1>12. CASE StartCgroupWatcher \/ CgroupModified \/ \E l \in Listeners : Key(l)
    BY <1>11, <1>12 DEF StartCgroupWatcher, CgroupModified, Key
  <1>13. CASE CheckScreenState \/ StoreScreenState
    <2>1. ASSUME NEW from \in {"check", "store"}, Goto(Watcher, from, "ready"), UNCHANGED <<modules, NotMain, fileVars, tunerVars>>
          PROVE  Goal
      BY <1>1, <2>1 DEF NotMain
    <2> QED
      BY <1>11, <1>13, <2>1 DEF CheckScreenState, StoreScreenState
  <1>14. CASE ConfigModified
    BY <1>1, <1>14 DEF ConfigModified
  <1>15. CASE IdleRound \/ Save \/ Move
    BY <1>15 DEF IdleRound, Save, Move, Modify
  <1>16. CASE UNCHANGED vars
    BY <1>16 DEF vars
  <1> HIDE DEF Goal, Goto, At
  <1> QED
    BY <1>2, <1>3, <1>4, <1>5, <1>6, <1>7, <1>8, <1>9, <1>10, <1>12, <1>13, <1>14, <1>15, <1>16
       DEF Next, ThreadStep, MainStep, Handle, SubscribeTuner

\* LoadConfig_ assigns a text that the file has held, or leaves config_ alone.
LEMMA NextConfigInv == StartInv /\ WorkInv /\ ConfigInv /\ [Next]_vars => ConfigInv'
  <1> SUFFICES ASSUME StartInv, WorkInv, ConfigInv, [Next]_vars PROVE ConfigInv'
    OBVIOUS
  <1>1. ASSUME LoadConfig \/ \E w \in Threads : BeginTask(w) \/ EndTask(w)
        PROVE  /\ UNCHANGED <<start, count, modules>>
               /\ config' = config \/ \E text : HasHeld(text) /\ config' = Loaded(text)
               /\ \A w \in Threads : running'[w] # nullptr => HasHeld(running'[w].text)
               /\ pc' = pc \/ pc' = [pc EXCEPT ![Main] = "updatePolicy"]
    <2>1. HasHeld(Text)
      BY DEF ConfigInv, HasHeld, Text
    <2>2. running = [w \in Threads |-> running[w]]
      BY DEF WorkInv
    <2>3. CASE LoadConfig
      BY <2>1, <2>3 DEF LoadConfig, Goto, NotMain, fileVars, workVars, ConfigInv
    <2>4. ASSUME NEW w \in Threads, BeginTask(w)
          PROVE  /\ UNCHANGED <<start, count, modules, config, pc>>
                 /\ \A x \in Threads : running'[x] # nullptr => HasHeld(running'[x].text)
      <3>1. running' = [running EXCEPT ![w] = [name |-> Head(tasks[w]), text |-> Text]]
        BY <2>4 DEF BeginTask
      <3> QED
        BY <2>1, <2>2, <2>4, <3>1 DEF BeginTask, NotTask, fileVars, ConfigInv
    <2>5. ASSUME NEW w \in Threads, EndTask(w)
          PROVE  /\ UNCHANGED <<start, count, modules, pc>>
                 /\ config' = config \/ (HasHeld(running[w].text) /\ config' = Loaded(running[w].text))
                 /\ \A x \in Threads : running'[x] # nullptr => HasHeld(running'[x].text)
      BY <2>2, <2>5 DEF EndTask, NotTask, fileVars, ConfigInv
    <2> QED
      BY <1>1, <2>3, <2>4, <2>5
  <1>2. CASE LoadConfig \/ \E w \in Threads : BeginTask(w) \/ EndTask(w)
    <2>1. \A text : HasHeld(text)' <=> HasHeld(text)
      BY <1>1, <1>2 DEF HasHeld
    <2>2. Unchecked => Unchecked'
      BY <1>1, <1>2, Names DEF Unchecked, StartInv
    <2>3. config' = config \/ HasParsed(config')
      BY <1>1, <1>2 DEF Loaded, HasParsed
    <2>4. HasParsed(config)' \/ (config' = Empty /\ Unchecked')
      BY <2>1, <2>2, <2>3 DEF ConfigInv, HasParsed
    <2>5. count' = count
      BY <1>1, <1>2
    <2>6. (\A w \in Threads : running[w] # nullptr => HasHeld(running[w].text))'
      BY <1>1, <1>2 DEF HasHeld
    <2> QED
      BY <2>4, <2>5, <2>6 DEF ConfigInv
  <1>3. CASE ~LoadConfig /\ ~ \E w \in Threads : BeginTask(w) \/ EndTask(w)
    <2>1. /\ UNCHANGED <<start, config, running>>
          /\ count' \in {count, [count EXCEPT !.texts = @ + 1], [count EXCEPT !.keys = @ + 1],
                         [count EXCEPT !.moves = @ + 1]}
          /\ config = Empty /\ Unchecked => Unchecked'
      BY <1>3, OthersKeepConfig
    <2>2. /\ count' = [texts |-> count'.texts, keys |-> count'.keys, moves |-> count'.moves]
          /\ count'.texts \in {count.texts, count.texts + 1}
      BY <2>1 DEF ConfigInv
    <2>3. count.texts \in Nat \ {0}
      BY DEF ConfigInv
    <2>4. count'.texts \in Nat \ {0} /\ count'.texts >= count.texts
      BY <2>2, <2>3
    <2>5. ASSUME NEW text, HasHeld(text) PROVE HasHeld(text)'
      BY <2>1, <2>3, <2>4, <2>5, HeldStays
    <2>6. (\A w \in Threads : running[w] # nullptr => HasHeld(running[w].text))'
      BY <2>1, <2>5 DEF ConfigInv, HasHeld
    <2>7. HasParsed(config)' \/ (config' = Empty /\ Unchecked')
      BY <2>1, <2>5 DEF ConfigInv, HasParsed
    <2> QED
      BY <2>2, <2>4, <2>6, <2>7 DEF ConfigInv
  <1> QED
    BY <1>2, <1>3

------------------------------------------------------------------------------
(* What ends the daemon *)

\* Nothing happens once it has ended.
LEMMA Stopped ==
    ASSUME process # "running", [Next]_vars
    PROVE  UNCHANGED vars
  <1> USE DEF Goto, At
  <1>1. \A t : ~(Post(t) \/ ScreenStateChanged(t) \/ KeyDown(t) \/ GetInstance(t))
    BY DEF Post, ScreenStateChanged, UpdatePolicy, KeyDown, GetInstance, TestInstance, Create,
       Assign, Reread, AddWork
  <1>2. ~MainStep
    BY DEF MainStep, StartModule, InitFinished, ReadDump, LoadConfig, FirstPolicy, UpdatePolicy,
       SubscribeTuner, Subscribe, AddWatch, StartTimer, StartListeners, StartCgroupWatcher, PostEvent
  <1>3. ~(ConfigModified \/ CgroupModified \/ CheckScreenState \/ StoreScreenState \/ IdleRound)
    BY DEF ConfigModified, CgroupModified, CheckScreenState, StoreScreenState, IdleRound, PostEvent
  <1>4. \A w : ~(BeginTask(w) \/ EndTask(w))
    BY DEF BeginTask, EndTask
  <1>5. \A l : ~Key(l)
    BY DEF Key, PostEvent
  <1>6. ~(Save \/ Move)
    BY DEF Save, Move, Modify
  <1> QED
    BY <1>1, <1>2, <1>3, <1>4, <1>5, <1>6 DEF Next, ThreadStep, Handle

\* The steps that can end it: an unsupported dump, a policy and a delay to look up.
LEMMA Ends ==
    ASSUME [Next]_vars, process = "running", process' # "running"
    PROVE  \/ ReadDump \/ StartTimer \/ IdleRound
           \/ \E t \in Threads : \E name, from, to :
                /\ UpdatePolicy(t, name, from, to)
                /\ from = "policy" \/ (t = Main /\ from = "updatePolicy")
  <1> USE DEF NotMain
  <1>1. ASSUME NEW t \in Threads, Post(t) \/ KeyDown(t) \/ GetInstance(t) PROVE process' = process
    BY <1>1 DEF Post, KeyDown, GetInstance, TestInstance, Create, Assign, Reread, AddWork,
       NotWorker, NotCaller
  <1>2. StartModule \/ InitFinished \/ LoadConfig \/ SubscribeTuner \/ StartListeners
        \/ StartCgroupWatcher \/ Subscribe("TopAppMonitor", {"CgroupModified"}, "start")
          => process' = process
    BY DEF StartModule, InitFinished, LoadConfig, SubscribeTuner, Subscribe, StartListeners,
       StartCgroupWatcher, PostEvent
  <1>3. \A from, file, to : AddWatch(from, file, to) => process' = process
    BY DEF AddWatch
  <1>4. ConfigModified \/ CgroupModified \/ CheckScreenState \/ StoreScreenState \/ Save \/ Move
          => process' = process
    BY DEF ConfigModified, CgroupModified, CheckScreenState, StoreScreenState, PostEvent, Save,
       Move, Modify
  <1>5. \A w : BeginTask(w) \/ EndTask(w) => process' = process
    BY DEF BeginTask, EndTask, NotTask
  <1>6. \A l : Key(l) => process' = process
    BY DEF Key, PostEvent
  <1>7. UNCHANGED vars => process' = process
    BY DEF vars
  <1>8. FirstPolicy => UpdatePolicy(Main, "*", "updatePolicy", "subscribe")
    BY DEF FirstPolicy
  <1>9. \A t : ScreenStateChanged(t) => \E name : UpdatePolicy(t, name, "policy", "getInstance")
    BY DEF ScreenStateChanged
  <1> QED
    BY <1>1, <1>2, <1>3, <1>4, <1>5, <1>6, <1>7, <1>8, <1>9, Names
       DEF Next, ThreadStep, MainStep, Handle

\* A thread that is past the first UpdatePolicy_ finds a text in config_.
LEMMA FindsText ==
    ASSUME StartInv, ConfigInv, NEW t \in Threads,
           pc[t] \in {"policy", "startTimer", "loop"}
    PROVE  HasParsed(config)
  <1>1. ~Unchecked
    BY DEF StartInv, Early, Unchecked
  <1> QED
    BY <1>1 DEF ConfigInv

\* One of the reasons is there when the daemon ends.
LEMMA NextEnds == EndInv /\ [Next]_vars => OnlyBadTextEnds'
  <1> SUFFICES ASSUME EndInv, [Next]_vars, process' # "running" PROVE OnlyBadTextEnds'
    BY NextWorkInv DEF EndInv, WorkInv, OnlyBadTextEnds
  <1> DEFINE Reason ==
        \/ Unsupported \/ displayModeMap = EmptyTable
        \/ pc[Main] = "updatePolicy" /\ config = Empty
        \/ \E i \in 1..count.texts : start.texts[i] # Broken /\ ~Complete(start.texts[i])
  <1> SUFFICES Reason'
    BY NextWorkInv DEF EndInv, WorkInv, OnlyBadTextEnds
  <1> USE Names DEF EndInv
  <1>1. CASE process # "running"
    <2>1. UNCHANGED <<dump, displayModeMap, pc, config, count, start>>
      BY <1>1, Stopped DEF vars, dumpVars, tunerVars, fileVars
    <2>2. Reason
      BY <1>1 DEF OnlyBadTextEnds
    <2> QED
      BY <2>1, <2>2 DEF Unsupported
  <1>2. ASSUME HasParsed(config), ~Complete(config), UNCHANGED <<start, count>> PROVE Reason'
    BY <1>2 DEF HasParsed, HasHeld
  <1>3. CASE process = "running" /\ ReadDump
    BY <1>3 DEF ReadDump, Unsupported, dumpVars
  <1>4. CASE process = "running" /\ StartTimer
    <2>1. ~config.idleDelay /\ UNCHANGED <<start, count>> /\ pc[Main] = "startTimer"
      BY <1>4 DEF StartTimer, At, fileVars
    <2> QED
      BY <1>2, <2>1, FindsText DEF Complete
  <1>5. CASE process = "running" /\ IdleRound
    <2>1. ~config.idleDelay /\ UNCHANGED <<start, count>> /\ pc[IdleLoop] = "loop"
      BY <1>5 DEF IdleRound, At, fileVars
    <2> QED
      BY <1>2, <2>1, FindsText DEF Complete
  <1>6. ASSUME NEW t \in Threads, NEW name, NEW from, NEW to, process = "running",
               UpdatePolicy(t, name, from, to), from = "policy" \/ (t = Main /\ from = "updatePolicy")
        PROVE  Reason'
    <2>1. /\ UNCHANGED <<start, count, displayModeMap, config, pc>> /\ pc[t] = from
          /\ ~config.policies \/ displayModeMap = EmptyTable
      BY <1>6 DEF UpdatePolicy, At, fileVars, dumpVars
    <2>2. CASE displayModeMap = EmptyTable
      BY <2>1, <2>2
    <2>3. CASE ~config.policies /\ HasParsed(config)
      BY <1>2, <2>1, <2>3 DEF Complete
    <2>4. CASE ~config.policies /\ ~HasParsed(config)
      <3>1. config = Empty
        BY <2>4 DEF ConfigInv
      <3>2. t = Main /\ from = "updatePolicy"
        BY <1>6, <2>1, <2>4, FindsText
      <3> QED
        BY <2>1, <3>1, <3>2
    <2> QED
      BY <2>1, <2>2, <2>3, <2>4
  <1> HIDE DEF Reason
  <1> QED
    BY <1>1, <1>3, <1>4, <1>5, <1>6, Ends

\* The daemon starts with no text read.
LEMMA InitEndInv == Init => EndInv
  <1>1. Init => ConfigInv
    BY DEF Init, ConfigInv, Unchecked
  <1>2. Init => OnlyBadTextEnds
    BY InitWorkInv DEF Init, WorkInv, OnlyBadTextEnds
  <1> QED
    BY InitHeardInv, InitWorkInv, <1>1, <1>2 DEF HeardInv, EndInv

\* Whatever the file holds and whenever it is saved, only a dump without a mode,
\* a first text that does not parse or a text that lacks a key ends the daemon;
\* and no race of GetInstance gives a task to no worker, for any number of
\* threads.
THEOREM OnlyTextsEnd == Spec => []OnlyBadTextEnds
  <1>1. EndInv /\ [Next]_vars => EndInv'
    BY NextStartInv, NextWorkInv, NextConfigInv, NextEnds DEF EndInv
  <1>2. EndInv => OnlyBadTextEnds
    BY DEF EndInv
  <1> QED
    BY InitEndInv, <1>1, <1>2, PTL DEF Spec

------------------------------------------------------------------------------
(* The table of display modes *)

\* A row has both sides of each mode of its rate, and a longest side.
RowInv ==
    /\ \A m \in Modes : {m.width, m.height} \subseteq DOMAIN displayModeMap[LineRate(m)]
    /\ \A rate \in DOMAIN displayModeMap : \E longest \in DOMAIN displayModeMap[rate] :
         \A px \in DOMAIN displayModeMap[rate] : px <= longest

TableInv ==
    /\ IsDump(dump) /\ next \in 0..Len(dump.lines)
    /\ DOMAIN displayModeMap = {LineRate(m) : m \in Modes}
    /\ LastLineWins /\ RowInv

\* The row that displayModeMap_[rate] creates or finds.
RowOf(table, rate) == IF rate \in DOMAIN table THEN table[rate] ELSE <<>>

\* A mode line enters both sides of its mode, under its rate.
LEMMA AddsMode ==
    ASSUME NEW table, NEW line
    PROVE  /\ DOMAIN AddMode(table, line) = DOMAIN table \cup {LineRate(line)}
           /\ \A q \in DOMAIN table \ {LineRate(line)} : AddMode(table, line)[q] = table[q]
           /\ DOMAIN AddMode(table, line)[LineRate(line)]
                = DOMAIN RowOf(table, LineRate(line)) \cup {line.width, line.height}
           /\ \A px \in {line.width, line.height} :
                AddMode(table, line)[LineRate(line)][px] = LineId(line)
  <1> DEFINE rate == LineRate(line)
             mid == SetMode(table, rate, line.width, LineId(line))
             new == AddMode(table, line)
  <1> HIDE DEF rate, mid, new
  <1>1. /\ DOMAIN mid = DOMAIN table \cup {rate}
        /\ \A q \in DOMAIN table \ {rate} : mid[q] = table[q]
        /\ DOMAIN mid[rate] = DOMAIN RowOf(table, rate) \cup {line.width}
        /\ mid[rate][line.width] = LineId(line)
        /\ \A y \in DOMAIN RowOf(table, rate) \ {line.width} : mid[rate][y] = RowOf(table, rate)[y]
    BY DEF mid, SetMode, Put, RowOf
  <1>2. new = SetMode(mid, rate, line.height, LineId(line))
    BY DEF new, mid, rate, AddMode
  <1>3. /\ DOMAIN new = DOMAIN mid \cup {rate}
        /\ \A q \in DOMAIN mid \ {rate} : new[q] = mid[q]
        /\ DOMAIN new[rate] = DOMAIN RowOf(mid, rate) \cup {line.height}
        /\ new[rate][line.height] = LineId(line)
        /\ \A y \in DOMAIN RowOf(mid, rate) \ {line.height} : new[rate][y] = RowOf(mid, rate)[y]
    BY <1>2 DEF SetMode, Put, RowOf
  <1>4. RowOf(mid, rate) = mid[rate]
    BY <1>1 DEF RowOf
  <1>5. /\ DOMAIN new = DOMAIN table \cup {rate}
        /\ \A q \in DOMAIN table \ {rate} : new[q] = table[q]
        /\ DOMAIN new[rate] = DOMAIN RowOf(table, rate) \cup {line.width, line.height}
        /\ \A px \in {line.width, line.height} : new[rate][px] = LineId(line)
    BY <1>1, <1>3, <1>4
  <1> QED
    BY <1>5 DEF rate, new

\* And no other size of that rate.
LEMMA AddsOnly ==
    ASSUME NEW table, NEW line, NEW y \in DOMAIN RowOf(table, LineRate(line)),
           y \notin {line.width, line.height}
    PROVE  AddMode(table, line)[LineRate(line)][y] = RowOf(table, LineRate(line))[y]
  <1> DEFINE rate == LineRate(line)
             mid == SetMode(table, rate, line.width, LineId(line))
  <1>1. mid[rate][y] = RowOf(table, rate)[y] /\ rate \in DOMAIN mid /\ y \in DOMAIN mid[rate]
    BY DEF SetMode, Put, RowOf
  <1> HIDE DEF mid, rate
  <1>2. SetMode(mid, rate, line.height, LineId(line))[rate][y] = mid[rate][y]
    BY <1>1 DEF SetMode, Put
  <1> QED
    BY <1>1, <1>2 DEF AddMode, mid, rate

\* The greater of two numbers.
LEMMA GreaterOfTwo ==
    ASSUME NEW a \in Int, NEW b \in Int
    PROVE  Max({a, b}) \in {a, b} /\ Max({a, b}) >= a /\ Max({a, b}) >= b
  <1>1. \E x \in {a, b} : \A y \in {a, b} : x >= y
    <2>1. CASE a >= b
      BY <2>1
    <2>2. CASE b >= a
      BY <2>2
    <2> QED
      BY <2>1, <2>2
  <1> QED
    BY <1>1 DEF Max

\* Line i has a mode of that rate with a side of that many pixels; and it is the
\* last one read that has, the one the table leads to.
HasSide(i, rate, px) ==
    /\ IsModeLine(dump.lines[i]) /\ LineRate(dump.lines[i]) = rate
    /\ px \in {dump.lines[i].width, dump.lines[i].height}
Wins(rate, px) ==
    \E i \in 1..next :
        /\ HasSide(i, rate, px) /\ \A j \in (i + 1)..next : ~HasSide(j, rate, px)
        /\ displayModeMap[rate][px] = LineId(dump.lines[i])

\* The definition of LastLineWins in these terms.
LEMMA LastWins ==
    LastLineWins <=> \A rate \in DOMAIN displayModeMap : \A px \in DOMAIN displayModeMap[rate] : Wins(rate, px)
  BY DEF LastLineWins, Wins, HasSide

\* Each mode line that is read overwrites what the lines before it said of its
\* two sides, and nothing else.
LEMMA NextTableInv ==
    ASSUME TableInv, ReadLine
    PROVE  TableInv'
  <1>a. PICK k, line : k = next + 1 /\ line = dump.lines[k]
    OBVIOUS
  <1>b. PICK rate, sides : rate = LineRate(line) /\ sides = {line.width, line.height}
    OBVIOUS
  <1>1. /\ dump' = dump /\ next' = k /\ next \in Nat /\ k \in 1..Len(dump.lines)
        /\ IsDump(dump) /\ 1..k = 1..next \cup {k}
    BY <1>a DEF TableInv, ReadLine, DumpRead, IsDump
  <1>2. line \in ModeLine /\ line.width \in Nat /\ line.height \in Nat
    <2>1. dump.lines \in Seq(ModeLine)
      BY <1>1 DEF IsDump
    <2>2. line \in ModeLine
      BY <1>a, <1>1, <2>1
    <2> QED
      BY <2>2 DEF ModeLine
  <1>3. /\ \A l : IsModeLine(l)' <=> IsModeLine(l)
        /\ \A l : LineRate(l)' = LineRate(l) /\ LineId(l)' = LineId(l)
    BY <1>1 DEF IsModeLine, LineRate, LineId
  <1>4. \A i, r, px : HasSide(i, r, px)' <=> HasSide(i, r, px)
    BY <1>1, <1>3 DEF HasSide
  <1>5. \A r \in DOMAIN displayModeMap : \A px \in DOMAIN displayModeMap[r] : Wins(r, px)
    BY LastWins DEF TableInv
  <1>6. ASSUME NEW r \in DOMAIN displayModeMap, NEW px \in DOMAIN displayModeMap[r],
               ~HasSide(k, r, px), displayModeMap'[r][px] = displayModeMap[r][px]
        PROVE  Wins(r, px)'
    <2>1. PICK i \in 1..next :
            /\ HasSide(i, r, px) /\ \A j \in (i + 1)..next : ~HasSide(j, r, px)
            /\ displayModeMap[r][px] = LineId(dump.lines[i])
      BY <1>5 DEF Wins
    <2>2. \A j \in (i + 1)..k : j = k \/ j \in (i + 1)..next
      BY <1>a, <1>1
    <2>3. HasSide(i, r, px)' /\ \A j \in (i + 1)..next' : ~HasSide(j, r, px)'
      BY <1>1, <1>4, <1>6, <2>1, <2>2
    <2>4. displayModeMap'[r][px] = LineId(dump.lines[i])'
      BY <1>1, <1>3, <1>6, <2>1
    <2>5. i \in 1..next'
      BY <1>1
    <2> QED
      BY <2>3, <2>4, <2>5 DEF Wins
  <1>7. CASE ~IsModeLine(line)
    <2>1. displayModeMap' = displayModeMap
      BY <1>a, <1>1, <1>7 DEF ReadLine
    <2>2. Modes' = Modes
      BY <1>a, <1>1, <1>3, <1>7 DEF Modes
    <2>3. \A r, px : ~HasSide(k, r, px)
      BY <1>a, <1>7 DEF HasSide
    <2>4. LastLineWins'
      <3>1. \A r \in DOMAIN displayModeMap' : \A px \in DOMAIN displayModeMap'[r] : Wins(r, px)'
        BY <1>6, <2>1, <2>3
      <3> QED
        BY <3>1 DEF LastLineWins, Wins, HasSide
    <2>5. RowInv'
      BY <1>3, <2>1, <2>2 DEF TableInv, RowInv
    <2>6. DOMAIN displayModeMap' = {LineRate(m) : m \in Modes}'
      BY <1>3, <2>1, <2>2 DEF TableInv
    <2>7. IsDump(dump)' /\ next' \in 0..Len(dump'.lines)
      BY <1>1
    <2> QED
      BY <2>4, <2>5, <2>6, <2>7 DEF TableInv
  <1>8. CASE IsModeLine(line)
    <2>0. PICK old : old = IF rate \in DOMAIN displayModeMap THEN displayModeMap[rate] ELSE <<>>
      OBVIOUS
    <2>1. displayModeMap' = AddMode(displayModeMap, line)
      BY <1>a, <1>1, <1>8 DEF ReadLine
    <2>2. /\ DOMAIN displayModeMap' = DOMAIN displayModeMap \cup {rate}
          /\ \A q \in DOMAIN displayModeMap \ {rate} : displayModeMap'[q] = displayModeMap[q]
          /\ DOMAIN displayModeMap'[rate] = DOMAIN old \cup sides
          /\ \A px \in sides : displayModeMap'[rate][px] = LineId(line)
          /\ \A y \in DOMAIN old \ sides : displayModeMap'[rate][y] = old[y]
      <3>1. old = RowOf(displayModeMap, rate)
        BY <2>0 DEF RowOf
      <3> DEFINE new == AddMode(displayModeMap, line)
      <3>2. /\ DOMAIN new = DOMAIN displayModeMap \cup {LineRate(line)}
            /\ \A q \in DOMAIN displayModeMap \ {LineRate(line)} : new[q] = displayModeMap[q]
        BY AddsMode
      <3>3. DOMAIN new[LineRate(line)]
              = DOMAIN RowOf(displayModeMap, LineRate(line)) \cup {line.width, line.height}
        BY AddsMode
      <3>4. \A px \in {line.width, line.height} : new[LineRate(line)][px] = LineId(line)
        BY AddsMode
      <3>5. ASSUME NEW y \in DOMAIN RowOf(displayModeMap, LineRate(line)), y \notin {line.width, line.height}
            PROVE  new[LineRate(line)][y] = RowOf(displayModeMap, LineRate(line))[y]
        BY <3>5, AddsOnly
      <3> QED
        BY <1>b, <2>1, <3>1, <3>2, <3>3, <3>4, <3>5
    <2>3. Modes' = Modes \cup {line}
      BY <1>a, <1>1, <1>3, <1>8 DEF Modes
    <2>4. \A r, px : HasSide(k, r, px) <=> r = rate /\ px \in sides
      BY <1>a, <1>b, <1>8 DEF HasSide
    <2>5. ASSUME NEW px \in sides PROVE Wins(rate, px)'
      <3>1. HasSide(k, rate, px)' /\ k \in 1..next' /\ \A j \in (k + 1)..next' : ~HasSide(j, rate, px)'
        BY <1>1, <1>4, <2>4, <2>5
      <3>2. displayModeMap'[rate][px] = LineId(dump.lines[k])'
        BY <1>a, <1>1, <1>3, <2>2
      <3> QED
        BY <3>1, <3>2 DEF Wins
    <2>6. ASSUME NEW r \in DOMAIN displayModeMap', NEW px \in DOMAIN displayModeMap'[r] PROVE Wins(r, px)'
      <3>1. CASE r = rate /\ px \in sides
        BY <2>5, <3>1
      <3>2. CASE r # rate
        BY <1>6, <2>2, <2>4, <2>6, <3>2
      <3>3. CASE r = rate /\ px \notin sides
        <4>1. px \in DOMAIN old /\ rate \in DOMAIN displayModeMap
          BY <2>0, <2>2, <2>6, <3>3
        <4>2. px \in DOMAIN displayModeMap[r] /\ displayModeMap'[r][px] = displayModeMap[r][px]
          BY <2>0, <2>2, <3>3, <4>1
        <4> QED
          BY <1>6, <2>4, <3>3, <4>1, <4>2
      <3> QED
        BY <3>1, <3>2, <3>3
    <2>7. LastLineWins'
      BY <2>6 DEF LastLineWins, Wins, HasSide
    <2>8. ASSUME NEW m \in Modes' PROVE {m.width, m.height} \subseteq DOMAIN displayModeMap'[LineRate(m)]
      <3>1. CASE m = line
        BY <1>b, <2>2, <3>1
      <3>2. CASE m \in Modes
        <4>1. {m.width, m.height} \subseteq DOMAIN displayModeMap[LineRate(m)] /\ LineRate(m) \in DOMAIN displayModeMap
          BY <3>2 DEF TableInv, RowInv
        <4> QED
          BY <2>0, <2>2, <4>1
      <3> QED
        BY <2>3, <2>8, <3>1, <3>2
    <2>9. ASSUME NEW r \in DOMAIN displayModeMap'
          PROVE  \E longest \in DOMAIN displayModeMap'[r] : \A px \in DOMAIN displayModeMap'[r] : px <= longest
      <3>1. CASE r # rate
        BY <2>2, <2>9, <3>1 DEF TableInv, RowInv
      <3>2. PICK side \in sides : side \in Nat /\ \A px \in sides : px <= side
        BY <1>b, <1>2
      <3>3. CASE r = rate /\ rate \notin DOMAIN displayModeMap
        <4>1. DOMAIN displayModeMap'[rate] = sides
          BY <2>0, <2>2, <3>3
        <4> QED
          BY <3>2, <3>3, <4>1
      <3>4. CASE r = rate /\ rate \in DOMAIN displayModeMap
        <4>1. PICK longest \in DOMAIN old : \A px \in DOMAIN old : px <= longest
          BY <2>0, <3>4 DEF TableInv, RowInv
        <4>2. \A px \in DOMAIN old : px \in Nat
          <5>1. ASSUME NEW px \in DOMAIN old PROVE px \in Nat
            <6>1. PICK i \in 1..next : HasSide(i, rate, px)
              BY <1>5, <2>0, <3>4 DEF Wins
            <6>2. dump.lines \in Seq(ModeLine) /\ i \in 1..Len(dump.lines)
              BY <1>1 DEF IsDump
            <6>3. dump.lines[i] \in ModeLine
              BY <6>2
            <6>4. dump.lines[i].width \in Nat /\ dump.lines[i].height \in Nat
              BY <6>3 DEF ModeLine
            <6> QED
              BY <6>1, <6>4 DEF HasSide
          <5> QED
            BY <5>1
        <4>3. CASE longest >= side
          BY <1>b, <1>2, <2>2, <3>2, <3>4, <4>1, <4>2, <4>3
        <4>4. CASE side >= longest
          BY <1>b, <1>2, <2>2, <3>2, <3>4, <4>1, <4>2, <4>4
        <4> QED
          BY <3>2, <4>1, <4>2, <4>3, <4>4
      <3> QED
        BY <3>1, <3>3, <3>4
    <2>10. RowInv'
      BY <1>3, <2>8, <2>9 DEF RowInv
    <2>11. DOMAIN displayModeMap' = {LineRate(m) : m \in Modes}'
      <3>1. DOMAIN displayModeMap' = {LineRate(m) : m \in Modes} \cup {rate}
        BY <2>2 DEF TableInv
      <3>2. {LineRate(m) : m \in Modes}' = {LineRate(m) : m \in Modes \cup {line}}
        BY <1>3, <2>3
      <3> QED
        BY <1>b, <3>1, <3>2
    <2>12. IsDump(dump)' /\ next' \in 0..Len(dump'.lines)
      BY <1>1
    <2> QED
      BY <2>7, <2>10, <2>11, <2>12 DEF TableInv
  <1> QED
    BY <1>7, <1>8

\* "resolution": -1 is no size of any mode, so that the lookup takes the longest
\* side of the rate, which the last line that has it has entered.
LEMMA LookupFindsHighest == TableInv => MatchesLongestSide
  <1> SUFFICES ASSUME TableInv, NEW m \in Modes
      PROVE  \E best \in Modes :
                /\ LineRate(best) = LineRate(m)
                /\ Max({best.width, best.height}) >= Max({m.width, m.height})
                /\ LineId(best) = FindDisplayModeId(displayModeMap, LineRate(m), -1)
    BY DEF MatchesLongestSide
  <1>a. PICK rate, row : rate = LineRate(m) /\ row = displayModeMap[LineRate(m)]
    OBVIOUS
  <1>1. ASSUME NEW l \in Modes PROVE l.width \in Nat /\ l.height \in Nat
    <2>1. dump.lines \in Seq(ModeLine) /\ next \in 0..Len(dump.lines)
      BY DEF TableInv, IsDump
    <2>2. PICK i \in 1..next : l = dump.lines[i]
      BY DEF Modes
    <2>3. i \in 1..Len(dump.lines)
      BY <2>1
    <2>4. l \in ModeLine
      BY <2>1, <2>2, <2>3
    <2> QED
      BY <2>4 DEF ModeLine
  <1>2. rate \in DOMAIN displayModeMap /\ {m.width, m.height} \subseteq DOMAIN row
    BY <1>a DEF TableInv, RowInv
  <1>3. ASSUME NEW px \in DOMAIN row
        PROVE  \E best \in Modes : /\ LineRate(best) = rate /\ px \in {best.width, best.height}
                                   /\ row[px] = LineId(best)
    <2>1. Wins(rate, px)
      BY <1>a, <1>2, LastWins DEF TableInv
    <2>2. PICK i \in 1..next : HasSide(i, rate, px) /\ displayModeMap[rate][px] = LineId(dump.lines[i])
      BY <2>1 DEF Wins
    <2>3. dump.lines[i] \in Modes
      BY <2>2 DEF HasSide, Modes
    <2> QED
      BY <1>a, <2>2, <2>3 DEF HasSide
  <1>4. \A px \in DOMAIN row : px \in Nat
    BY <1>1, <1>3
  <1>5. PICK longest \in DOMAIN row : \A px \in DOMAIN row : longest >= px
    BY <1>a, <1>2, <1>4 DEF TableInv, RowInv
  <1>6. Max(DOMAIN row) \in DOMAIN row /\ \A px \in DOMAIN row : Max(DOMAIN row) >= px
    BY <1>5 DEF Max
  <1>7. FindDisplayModeId(displayModeMap, LineRate(m), -1) = row[Max(DOMAIN row)]
    <2>1. -1 \notin DOMAIN row
      BY <1>4
    <2> QED
      BY <1>a, <1>2, <2>1 DEF FindDisplayModeId, FindRate, FindPixels
  <1>8. PICK best \in Modes : /\ LineRate(best) = rate /\ Max(DOMAIN row) \in {best.width, best.height}
                              /\ row[Max(DOMAIN row)] = LineId(best)
    BY <1>3, <1>6
  <1>9. PICK b, c : b = best.width /\ c = best.height
    OBVIOUS
  <1>10. PICK d, e : d = m.width /\ e = m.height
    OBVIOUS
  <1>11. b \in Nat /\ c \in Nat /\ d \in Nat /\ e \in Nat
    BY <1>1, <1>9, <1>10
  <1>12. Max({b, c}) \in {b, c} /\ Max({b, c}) >= b /\ Max({b, c}) >= c
    <2>1. b \in Int /\ c \in Int
      BY <1>11
    <2> QED
      BY <2>1, GreaterOfTwo
  <1>13. Max({d, e}) \in {d, e}
    <2>1. d \in Int /\ e \in Int
      BY <1>11
    <2> QED
      BY <2>1, GreaterOfTwo
  <1>14. Max(DOMAIN row) \in {b, c} /\ Max(DOMAIN row) >= Max({d, e})
    BY <1>2, <1>6, <1>8, <1>9, <1>10, <1>13
  <1>15. Max({b, c}) >= Max({d, e})
    BY <1>11, <1>12, <1>13, <1>14
  <1>16. Max({best.width, best.height}) >= Max({m.width, m.height})
    BY <1>9, <1>10, <1>15
  <1> QED
    BY <1>a, <1>7, <1>8, <1>16

\* Only Init_ reads the dump.
LEMMA DumpSteps == [Next]_vars => ReadLine \/ UNCHANGED dumpVars
  <1> SUFFICES ASSUME [Next]_vars PROVE ReadLine \/ UNCHANGED dumpVars
    OBVIOUS
  <1>1. ASSUME NEW t, Handle(t) PROVE UNCHANGED dumpVars
    BY <1>1 DEF Handle, Post, ScreenStateChanged, UpdatePolicy, KeyDown, GetInstance, TestInstance,
       Create, Assign, Reread, AddWork, NotWorker, NotCaller
  <1>2. MainStep => ReadLine \/ UNCHANGED dumpVars
    BY DEF MainStep, StartModule, InitFinished, ReadDump, LoadConfig, FirstPolicy, UpdatePolicy,
       SubscribeTuner, Subscribe, AddWatch, StartTimer, StartListeners, StartCgroupWatcher,
       PostEvent
  <1>3. ConfigModified \/ CgroupModified \/ CheckScreenState \/ StoreScreenState \/ IdleRound
          => UNCHANGED dumpVars
    BY DEF ConfigModified, CgroupModified, CheckScreenState, StoreScreenState, IdleRound, PostEvent
  <1>4. ASSUME NEW w, BeginTask(w) \/ EndTask(w) PROVE UNCHANGED dumpVars
    BY <1>4 DEF BeginTask, EndTask, NotTask
  <1>5. ASSUME NEW l, Key(l) PROVE UNCHANGED dumpVars
    BY <1>5 DEF Key, PostEvent
  <1>6. Save \/ Move \/ UNCHANGED vars => UNCHANGED dumpVars
    BY DEF Save, Move, Modify, vars
  <1> QED
    BY <1>1, <1>2, <1>3, <1>4, <1>5, <1>6 DEF Next, ThreadStep

\* The table holds exactly what the lines read so far say, for a dump of any
\* length with any modes: the last line wins, both sides of a mode lead to it,
\* and a lookup without a resolution finds the longest side of the rate.
THEOREM TableIsTheDump == Spec => []TableMatchesDump
  <1>1. Init => TableInv
    <2> SUFFICES ASSUME Init PROVE TableInv
      OBVIOUS
    <2>1. IsDump(dump) /\ next = 0 /\ displayModeMap = <<>>
      BY StartAssumption DEF Init, DumpInit, EmptyTable
    <2>2. Modes = {} /\ DOMAIN displayModeMap = {}
      BY <2>1 DEF Modes
    <2>3. next \in 0..Len(dump.lines)
      BY <2>1 DEF IsDump
    <2> QED
      BY <2>1, <2>2, <2>3 DEF TableInv, LastLineWins, RowInv
  <1>2. TableInv /\ [Next]_vars => TableInv'
    <2> SUFFICES ASSUME TableInv, [Next]_vars PROVE TableInv'
      OBVIOUS
    <2>1. CASE UNCHANGED dumpVars
      <3>1. dump' = dump /\ next' = next /\ displayModeMap' = displayModeMap
        BY <2>1 DEF dumpVars
      <3>2. /\ \A line : IsModeLine(line)' = IsModeLine(line)
            /\ \A line : LineRate(line)' = LineRate(line)
            /\ \A line : LineId(line)' = LineId(line)
        BY <3>1 DEF IsModeLine, LineRate, LineId
      <3>3. Modes' = Modes
        BY <3>1, <3>2 DEF Modes
      <3>4. RowInv'
        BY <3>1, <3>2, <3>3 DEF TableInv, RowInv
      <3>5. {LineRate(m) : m \in Modes}' = {LineRate(m) : m \in Modes}
        BY <3>2, <3>3
      <3>6. LastLineWins'
        BY <3>1, <3>2 DEF TableInv, LastLineWins
      <3> QED
        BY <3>1, <3>4, <3>5, <3>6 DEF TableInv
    <2> QED
      BY <2>1, DumpSteps, NextTableInv
  <1>3. TableInv => TableMatchesDump
    BY LookupFindsHighest DEF TableInv, TableMatchesDump
  <1> QED
    BY <1>1, <1>2, <1>3, PTL DEF Spec

------------------------------------------------------------------------------
(***************************************************************************)
(* The processes of launches that follow one another (DaemonProcesses).    *)
(*                                                                         *)
(* OneDaemon needs what the code takes for granted: launches follow one    *)
(* another, and no process has a pid above INT16_MAX.  What makes it       *)
(* inductive is that a scan still has every daemon before it (ScanInv): a  *)
(* process that forks meanwhile adds only a watchdog.                      *)
(***************************************************************************)

\* Only one process is between its start and its daemon().
OneLaunch == \A p, q \in Launching : p = q

\* The daemons are still to be killed, and all of them are before the launch
\* goes to the background.
ScanInv ==
    \A p \in Pids :
        /\ role[p] = "scan" => Daemons \subseteq todo[p]
        /\ role[p] = "background" => Daemons = {}

\* OneDaemon, without the types.
Single == \A p, q \in Daemons : p = q

ProcessInv == ProcessTypeOK /\ OneLaunch /\ ScanInv /\ Single

------------------------------------------------------------------------------
\* No process at first.
LEMMA InitProcesses ==
    ASSUME ProcessInit
    PROVE  ProcessInv
  <1>1. Daemons = {} /\ Launching = {}
    BY DEF ProcessInit, Daemons, Launching
  <1>2. ProcessTypeOK
    BY ProcessAssumption DEF ProcessInit, ProcessTypeOK
  <1> QED
    BY <1>1, <1>2 DEF ProcessInv, OneLaunch, ScanInv, Single

\* No step of a process breaks the types.
LEMMA NextProcessTypeOK ==
    ASSUME ProcessTypeOK, [ProcessNext]_processVars
    PROVE  ProcessTypeOK'
  <1> USE ProcessAssumption DEF ProcessTypeOK
  <1>1. ASSUME NEW p \in Pids, Launch(p) PROVE ProcessTypeOK'
    BY <1>1 DEF Launch
  <1>2. ASSUME NEW p \in Pids, ListProcs(p) PROVE ProcessTypeOK'
    BY <1>2 DEF ListProcs
  <1>3. ASSUME NEW p \in Pids, NEW q \in Pids, Kill(p, q) PROVE ProcessTypeOK'
    BY <1>3 DEF Kill
  <1>4. ASSUME NEW p \in Pids, EndScan(p) PROVE ProcessTypeOK'
    BY <1>4 DEF EndScan
  <1>5. ASSUME NEW p \in Pids, NEW child \in Pids, Background(p, child) PROVE ProcessTypeOK'
    BY <1>5 DEF Background
  <1>6. ASSUME NEW p \in Pids, NEW child \in Pids, ForkWatchDog(p, child) PROVE ProcessTypeOK'
    BY <1>6 DEF ForkWatchDog
  <1>7. ASSUME NEW p \in Pids, Crash(p) PROVE ProcessTypeOK'
    BY <1>7 DEF Crash
  <1>8. ASSUME NEW p \in Pids, WatchDog(p) PROVE ProcessTypeOK'
    BY <1>8 DEF WatchDog
  <1>9. CASE UNCHANGED processVars
    BY <1>9 DEF processVars
  <1> QED
    BY <1>1, <1>2, <1>3, <1>4, <1>5, <1>6, <1>7, <1>8, <1>9 DEF ProcessNext, Proceed

\* A launch that waits for the last one to be in the background is the only one.
LEMMA NextOneLaunch ==
    ~Overlap /\ ProcessTypeOK /\ OneLaunch /\ [ProcessNext]_processVars => OneLaunch'
  <1> SUFFICES ASSUME ~Overlap, ProcessTypeOK, OneLaunch, [ProcessNext]_processVars PROVE OneLaunch'
    OBVIOUS
  <1> USE DEF ProcessTypeOK, OneLaunch, Launching
  <1>1. ASSUME NEW p \in Pids, Launch(p) PROVE OneLaunch'
    BY <1>1 DEF Launch
  <1>2. ASSUME NEW p \in Pids, ListProcs(p) \/ EndScan(p) PROVE OneLaunch'
    BY <1>2 DEF ListProcs, EndScan
  <1>3. ASSUME NEW p \in Pids, NEW q \in Pids, Kill(p, q) PROVE OneLaunch'
    BY <1>3 DEF Kill
  <1>4. ASSUME NEW p \in Pids, NEW child \in Pids, Background(p, child) PROVE OneLaunch'
    BY <1>4 DEF Background, Alive
  <1>5. ASSUME NEW p \in Pids, NEW child \in Pids, ForkWatchDog(p, child) PROVE OneLaunch'
    BY <1>5 DEF ForkWatchDog, Alive
  <1>6. ASSUME NEW p \in Pids, Crash(p) \/ WatchDog(p) PROVE OneLaunch'
    BY <1>6 DEF Crash, WatchDog
  <1>7. CASE UNCHANGED processVars
    BY <1>7 DEF processVars
  <1> QED
    BY <1>1, <1>2, <1>3, <1>4, <1>5, <1>6, <1>7 DEF ProcessNext, Proceed

\* The list of a scan names every daemon, a killed one is none, and a daemon
\* begins only where a scan has ended.
LEMMA NextScanInv ==
    ASSUME ~Overlap, \A p \in Pids : p <= PidLimit, ProcessInv, [ProcessNext]_processVars
    PROVE  ScanInv' /\ Single'
  <1> USE DEF ProcessInv, ProcessTypeOK, OneLaunch, ScanInv, Single, Launching, Daemons
  <1>1. ASSUME NEW p \in Pids, Launch(p) PROVE ScanInv' /\ Single'
    BY <1>1 DEF Launch
  <1>2. ASSUME NEW p \in Pids, ListProcs(p) PROVE ScanInv' /\ Single'
    <2>1. Daemons' = Daemons
      BY <1>2 DEF ListProcs
    <2>2. Daemons \subseteq todo'[p]
      BY <1>2 DEF ListProcs, Alive
    <2>3. \A q \in Pids : role'[q] \in {"scan", "background"} => q = p
      BY <1>2 DEF ListProcs
    <2>4. role'[p] = "scan"
      BY <1>2 DEF ListProcs
    <2> QED
      BY <2>1, <2>2, <2>3, <2>4
  <1>3. ASSUME NEW p \in Pids, NEW q \in Pids, Kill(p, q) PROVE ScanInv' /\ Single'
    <2>1. Daemons' = Daemons \ {q}
      BY <1>3 DEF Kill
    <2>2. Daemons' \subseteq todo'[p]
      BY <1>3, <2>1 DEF Kill
    <2>3. \A r \in Pids : role'[r] \in {"scan", "background"} => r = p
      BY <1>3 DEF Kill
    <2>4. role'[p] # "background"
      BY <1>3 DEF Kill
    <2> QED
      BY <2>1, <2>2, <2>3, <2>4
  <1>4. ASSUME NEW p \in Pids, EndScan(p) PROVE ScanInv' /\ Single'
    <2>1. Daemons = {} /\ Daemons' = {}
      BY <1>4 DEF EndScan
    <2> QED
      BY <2>1
  <1>5. ASSUME NEW p \in Pids, NEW child \in Pids, Background(p, child) PROVE ScanInv' /\ Single'
    <2>1. Daemons = {} /\ Daemons' \subseteq {child}
      BY <1>5 DEF Background
    <2>2. \A q \in Pids : role'[q] \notin {"scan", "background"}
      BY <1>5 DEF Background
    <2> QED
      BY <2>1, <2>2
  <1>6. ASSUME NEW p \in Pids, NEW child \in Pids, ForkWatchDog(p, child) PROVE ScanInv' /\ Single'
    <2>1. Daemons' = Daemons
      BY <1>6 DEF ForkWatchDog, Alive
    <2>2. todo' = todo /\ \A q \in Pids : role'[q] \in {"scan", "background"} => role'[q] = role[q]
      BY <1>6 DEF ForkWatchDog
    <2> QED
      BY <2>1, <2>2
  <1>7. ASSUME NEW p \in Pids, Crash(p) \/ WatchDog(p) PROVE ScanInv' /\ Single'
    <2>1. Daemons' \subseteq Daemons
      BY <1>7 DEF Crash, WatchDog
    <2>2. todo' = todo /\ \A q \in Pids : role'[q] \in {"scan", "background"} => role'[q] = role[q]
      BY <1>7 DEF Crash, WatchDog
    <2> QED
      BY <2>1, <2>2
  <1>8. CASE UNCHANGED processVars
    BY <1>8 DEF processVars
  <1> QED
    BY <1>1, <1>2, <1>3, <1>4, <1>5, <1>6, <1>7, <1>8 DEF ProcessNext, Proceed

\* One daemon at a time, after any number of launches and crashes, provided a
\* launch waits for the last one and every pid is one that KillOldDaemon looks at.
THEOREM AtMostOneDaemon ==
    ASSUME ~Overlap, \A p \in Pids : p <= PidLimit
    PROVE  ProcessSpec => []OneDaemon
  <1>1. ProcessInv /\ [ProcessNext]_processVars => ProcessInv'
    BY NextProcessTypeOK, NextOneLaunch, NextScanInv DEF ProcessInv
  <1>2. ProcessInv => OneDaemon
    BY DEF ProcessInv, Single, OneDaemon
  <1> QED
    BY InitProcesses, <1>1, <1>2, PTL DEF ProcessSpec
==============================================================================
