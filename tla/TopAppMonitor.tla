----------------------------- MODULE TopAppMonitor ----------------------------
(***************************************************************************)
(* modules/topapp_monitor.cpp and modules/cgroup_watcher.cpp: how the      *)
(* daemon learns which app is on top and whether the screen is on, and     *)
(* which policy is in force as a result.                                   *)
(*                                                                         *)
(*   - main runs CgroupWatcher::Start, then TopAppMonitor::Start;          *)
(*   - the FileWatcher thread runs CgroupWatcher::CgroupModified_ for each *)
(*     change of a cpuset, and the subscribers of the events it posts;     *)
(*   - the monitor thread runs MonitorLoop_, which pauses itself after     *)
(*     each look at "dumpsys activity";                                    *)
(*   - the notifier thread runs NotifierTask_ once a second.               *)
(*                                                                         *)
(* Of a posted ScreenStateChanged or TopAppChanged only the name given to  *)
(* UpdatePolicy_ is kept, in one step (RefreshRateTuner has the rest).     *)
(* TopAppMonitor::ScreenStateChanged_ is never subscribed: it never runs.  *)
(***************************************************************************)
EXTENDS Naturals

CONSTANTS
    Apps,         \* the apps: each has one process, and a policy of its own
    MaxEvents     \* bound: how often another app comes to the top, the screen
                  \* goes on or off, or dumpsys prints no top activity, in all

ASSUME MonitorAssumption ==
    /\ Apps \cap {"none", "*", "screenOff"} = {}
    /\ MaxEvents \in Nat

VARIABLES
    fg, cgroup,    \* the top app; the processes in the top-app cpuset
    screen,        \* whether the screen is on
    event,         \* a cpuset has changed and the watcher has not handled it
    events,        \* how many of the events MaxEvents bounds have happened
    screenState,   \* CgroupWatcher::screenState_
    topAppPid,     \* TopAppMonitor::topAppPid_
    subscribed,    \* CgroupModified_ of the monitor is subscribed
    paused,        \* monitor_.paused_
    policy,        \* the name last given to UpdatePolicy_
    pc,            \* where each thread is
    seen,          \* the value each thread has in hand
    missed         \* history: a notification fell between the monitor's test of
                   \* paused_ and its wait (see Timer)

outsideVars == <<fg, cgroup, screen, event, events>>
monitorVars == <<outsideVars, screenState, topAppPid, subscribed, paused,
          policy, pc, seen, missed>>

NoPid == "none"  \* the pid -1

MonitorInit ==
    /\ fg \in Apps /\ cgroup = {fg}
    /\ screen = "on" /\ event = FALSE
    /\ events = 0
    /\ screenState = "on" /\ topAppPid = NoPid
    /\ subscribed = FALSE /\ paused = FALSE
    /\ policy = "*"
    /\ pc = [main |-> "read", watcher |-> "ready", monitor |-> "none", notifier |-> "none"]
    /\ seen = [main |-> "on", watcher |-> "on", monitor |-> NoPid, notifier |-> NoPid]
    /\ missed = FALSE

------------------------------------------------------------------------------
(* Android *)

NextEvent == events < MaxEvents /\ events' = events + 1

daemonVars == <<screenState, topAppPid, subscribed, paused, policy, pc, seen, missed>>

Switch ==
    /\ NextEvent
    /\ cgroup = {fg}
    /\ fg' \in Apps \ {fg}
    /\ UNCHANGED <<cgroup, screen, event, daemonVars>>

\* The processes of the top app are moved to its cpuset, the others out of it.
MoveTasks ==
    /\ cgroup # {fg}
    /\ cgroup' = {fg}
    /\ event' = TRUE
    /\ UNCHANGED <<fg, screen, events, daemonVars>>

ScreenChange ==
    /\ NextEvent
    /\ screen' = IF screen = "on" THEN "off" ELSE "on"
    /\ event' = TRUE
    /\ UNCHANGED <<fg, cgroup, daemonVars>>

\* Some other task is moved from a cpuset to another.
OtherTasks ==
    /\ ~event
    /\ event' = TRUE
    /\ UNCHANGED <<fg, cgroup, screen, events, daemonVars>>

------------------------------------------------------------------------------
(* What several threads do *)

Goto(t, from, to) == pc[t] = from /\ pc' = [pc EXCEPT ![t] = to]

PolicyOf(state) == IF state = "off" THEN "screenOff" ELSE "*"

\* ScreenStateChanged reaches the tuner.
InstallPolicy(t) ==
    /\ \/ t = "main" /\ Goto(t, "install", "subscribe")
       \/ t = "watcher" /\ Goto(t, "install", "store")
    /\ policy' = PolicyOf(seen[t])
    /\ UNCHANGED <<outsideVars, screenState, topAppPid, subscribed,
                   paused, seen, missed>>

\* TopAppMonitor::CgroupModified_: continueTimer, from its test of paused_ on.
Next_(t) == IF t = "watcher" THEN "check" ELSE "ready"

TestContinue(t) ==
    /\ Goto(t, "continue", IF subscribed /\ paused THEN "clear" ELSE Next_(t))
    /\ UNCHANGED <<outsideVars, screenState, topAppPid, subscribed,
                   paused, policy, seen, missed>>

\* Mutant: the loop is not notified.
ClearSilently(t) ==
    /\ Goto(t, "clear", Next_(t))
    /\ paused' = FALSE
    /\ UNCHANGED <<outsideVars, screenState, topAppPid, subscribed,
                   policy, seen, missed>>

ClearPaused(t) ==
    /\ Goto(t, "clear", "notify")
    /\ paused' = FALSE
    /\ UNCHANGED <<outsideVars, screenState, topAppPid, subscribed,
                   policy, seen, missed>>

NotifyMonitor(t) ==
    /\ pc[t] = "notify"
    /\ pc' = [pc EXCEPT ![t] = Next_(t),
                        !["monitor"] = IF @ = "waiting" THEN "test" ELSE @]
    /\ missed' = (missed \/ pc["monitor"] = "wait")
    /\ UNCHANGED <<outsideVars, screenState, topAppPid, subscribed,
                   paused, policy, seen>>

ContinueStep(t) == TestContinue(t) \/ ClearPaused(t) \/ NotifyMonitor(t)

------------------------------------------------------------------------------
(* CgroupWatcher *)

\* Start, after the watches are added: GetScreenState, and the assignment.
StartRead ==
    /\ Goto("main", "read", "assign")
    /\ seen' = [seen EXCEPT !["main"] = screen]
    /\ UNCHANGED <<outsideVars, screenState, topAppPid, subscribed,
                   paused, policy, missed>>

StartAssign ==
    /\ Goto("main", "assign", "post")
    /\ screenState' = seen["main"]
    /\ UNCHANGED <<outsideVars, topAppPid, subscribed, paused, policy,
                   seen, missed>>

\* The event carries the address of screenState_: the handler reads it again.
StartPost ==
    /\ Goto("main", "post", "install")
    /\ seen' = [seen EXCEPT !["main"] = screenState]
    /\ UNCHANGED <<outsideVars, screenState, topAppPid, subscribed,
                   paused, policy, missed>>

CgroupModified ==
    /\ event
    /\ Goto("watcher", "ready", "continue")
    /\ event' = FALSE
    /\ UNCHANGED <<fg, cgroup, screen, events, screenState, topAppPid,
                   subscribed, paused, policy, seen, missed>>

\* CheckScreenState_: GetScreenState, and the comparison with a screenState_ that
\* main may have written in between.
ReadScreenState ==
    /\ Goto("watcher", "check", "compare")
    /\ seen' = [seen EXCEPT !["watcher"] = screen]
    /\ UNCHANGED <<outsideVars, screenState, topAppPid, subscribed,
                   paused, policy, missed>>

\* Mutant: a state that has not changed is posted again.
CheckAlways ==
    /\ Goto("watcher", "compare", "install")
    /\ UNCHANGED <<outsideVars, screenState, topAppPid, subscribed,
                   paused, policy, seen, missed>>

CheckScreenState ==
    /\ Goto("watcher", "compare", IF seen["watcher"] # screenState THEN "install" ELSE "ready")
    /\ UNCHANGED <<outsideVars, screenState, topAppPid, subscribed,
                   paused, policy, seen, missed>>

\* Mutant: the new state is posted and not remembered.
ForgetScreenState ==
    /\ Goto("watcher", "store", "ready")
    /\ UNCHANGED <<outsideVars, screenState, topAppPid, subscribed,
                   paused, policy, seen, missed>>

StoreScreenState ==
    /\ Goto("watcher", "store", "ready")
    /\ screenState' = seen["watcher"]
    /\ UNCHANGED <<outsideVars, topAppPid, subscribed, paused, policy,
                   seen, missed>>

------------------------------------------------------------------------------
(* TopAppMonitor *)

StartMonitor ==
    /\ pc["main"] = "subscribe"
    /\ subscribed' = TRUE
    /\ pc' = [pc EXCEPT !["main"] = "done", !["monitor"] = "test", !["notifier"] = "ready"]
    /\ UNCHANGED <<outsideVars, screenState, topAppPid, paused, policy,
                   seen, missed>>

TestPaused ==
    /\ Goto("monitor", "test", IF paused THEN "wait" ELSE "dump")
    /\ UNCHANGED <<outsideVars, screenState, topAppPid, subscribed,
                   paused, policy, seen, missed>>

Wait ==
    /\ Goto("monitor", "wait", "waiting")
    /\ UNCHANGED <<outsideVars, screenState, topAppPid, subscribed,
                   paused, policy, seen, missed>>

SpuriousWakeup ==
    /\ Goto("monitor", "waiting", "test")
    /\ UNCHANGED <<outsideVars, screenState, topAppPid, subscribed,
                   paused, policy, seen, missed>>

\* Mutant: a look that found no app is posted too.
DumpUnchecked ==
    \/ /\ Goto("monitor", "dump", IF fg # topAppPid THEN "post" ELSE "pause")
       /\ seen' = [seen EXCEPT !["monitor"] = fg]
       /\ UNCHANGED <<outsideVars, screenState, topAppPid, subscribed,
                      paused, policy, missed>>
    \/ /\ NextEvent
       /\ Goto("monitor", "dump", "post")
       /\ seen' = [seen EXCEPT !["monitor"] = NoPid]
       /\ UNCHANGED <<fg, cgroup, screen, event, screenState, topAppPid,
                      subscribed, paused, policy, missed>>

\* DumpTopActivityInfo and the parsing of the line; -1 when there is none.
Dump ==
    \/ /\ Goto("monitor", "dump", IF fg # topAppPid THEN "post" ELSE "pause")
       /\ seen' = [seen EXCEPT !["monitor"] = fg]
       /\ UNCHANGED <<outsideVars, screenState, topAppPid, subscribed,
                      paused, policy, missed>>
    \/ /\ NextEvent
       /\ Goto("monitor", "dump", "pause")
       /\ seen' = [seen EXCEPT !["monitor"] = NoPid]
       /\ UNCHANGED <<fg, cgroup, screen, event, screenState, topAppPid,
                      subscribed, paused, policy, missed>>

\* TopAppChanged reaches the tuner, which reads the name of the process.
PostTopApp ==
    /\ Goto("monitor", "post", "store")
    /\ policy' = seen["monitor"]
    /\ UNCHANGED <<outsideVars, screenState, topAppPid, subscribed,
                   paused, seen, missed>>

StoreTopApp ==
    /\ Goto("monitor", "store", "pause")
    /\ topAppPid' = seen["monitor"]
    /\ UNCHANGED <<outsideVars, screenState, subscribed, paused, policy,
                   seen, missed>>

PauseTimer ==
    /\ Goto("monitor", "pause", "test")
    /\ paused' = TRUE
    /\ UNCHANGED <<outsideVars, screenState, topAppPid, subscribed,
                   policy, seen, missed>>

\* NotifierTask_: topAppPid_ is read, then the top-app cpuset.
ReadTopApp ==
    /\ Goto("notifier", "ready", "read")
    /\ seen' = [seen EXCEPT !["notifier"] = topAppPid]
    /\ UNCHANGED <<outsideVars, screenState, topAppPid, subscribed,
                   paused, policy, missed>>

\* Mutant: the notifier continues the monitor while its app is on top.
TestTopAppNegated ==
    /\ Goto("notifier", "read", IF seen["notifier"] \in cgroup THEN "continue" ELSE "ready")
    /\ UNCHANGED <<outsideVars, screenState, topAppPid, subscribed,
                   paused, policy, seen, missed>>

TestTopApp ==
    /\ Goto("notifier", "read", IF seen["notifier"] \in cgroup THEN "ready" ELSE "continue")
    /\ UNCHANGED <<outsideVars, screenState, topAppPid, subscribed,
                   paused, policy, seen, missed>>

------------------------------------------------------------------------------
MainStep == StartRead \/ StartAssign \/ StartPost \/ InstallPolicy("main") \/ StartMonitor

WatcherStep ==
    \/ CgroupModified \/ ContinueStep("watcher") \/ ReadScreenState \/ CheckScreenState
    \/ InstallPolicy("watcher") \/ StoreScreenState

MonitorStep ==
    TestPaused \/ Wait \/ Dump \/ PostTopApp \/ StoreTopApp \/ PauseTimer

NotifierStep == ReadTopApp \/ TestTopApp \/ ContinueStep("notifier")

MonitorNext ==
    \/ Switch \/ MoveTasks \/ ScreenChange \/ OtherTasks
    \/ MainStep \/ WatcherStep \/ MonitorStep \/ NotifierStep
    \/ SpuriousWakeup

MonitorSpec == MonitorInit /\ [][MonitorNext]_monitorVars

\* Threads that can run are run; Android moves the processes of a new top app.
MonitorFairSpec ==
    /\ MonitorSpec
    /\ WF_monitorVars(MoveTasks) /\ WF_monitorVars(MainStep) /\ WF_monitorVars(WatcherStep)
    /\ WF_monitorVars(MonitorStep) /\ WF_monitorVars(NotifierStep)

------------------------------------------------------------------------------
State == {"on", "off"}

MonitorTypeOK ==
    /\ fg \in Apps /\ cgroup \subseteq Apps
    /\ screen \in State /\ screenState \in State
    /\ topAppPid \in Apps \cup {NoPid}
    /\ {event, subscribed, paused, missed} \subseteq BOOLEAN
    /\ policy \in Apps \cup {"*", "screenOff"}
    /\ events \in 0..MaxEvents
    /\ DOMAIN pc = {"main", "watcher", "monitor", "notifier"}

\* The monitor sleeps with paused_ FALSE only as long as a notification is on its
\* way, or for ever because one fell between its test and its wait: nothing else
\* that the watcher and the notifier do between each other's steps, with no lock,
\* keeps it from the next look.
MonitorWakes ==
    pc["monitor"] \in {"wait", "waiting"} =>
        paused \/ missed \/ \E t \in {"watcher", "notifier"} : pc[t] = "notify"

\* Unless the screen goes off, the app that the monitor knows is the one whose
\* policy is in force, but between the two steps that bring in another: neither
\* what Start posts nor what the watcher checks takes it away. With FollowsApp, an
\* app that stays on top ends with its policy in force.
KeepsAppPolicy ==
    [](screen = "on") =>
        [](topAppPid \in Apps /\ pc["monitor"] # "store" => policy = topAppPid)

\* The monitor ends with the app that stays on top, although it pauses itself
\* after each look, whatever changes while it looks or before it pauses, and
\* when dumpsys fails it: the notifier continues it again as long as the app it
\* knows is not in the top-app cpuset.  A missed notification is the exception.
FollowsApp ==
    []~missed => \A a \in Apps : <>[](fg = a) => <>[](topAppPid = a)

\* The state CgroupWatcher remembers ends as that of the screen, even when
\* the screen changes while Start reads it, provided that the cpusets of a
\* phone never come to rest: a change of one is the only cause to look.
TracksScreen ==
    WF_monitorVars(OtherTasks) => \A s \in State : <>[](screen = s) => <>[](screenState = s)
==============================================================================
