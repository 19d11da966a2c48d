---------------------------- MODULE DaemonProcesses ---------------------------
(***************************************************************************)
(* main.cpp: the processes of the daemon, from one launch to the next.     *)
(*                                                                         *)
(* A launch takes the daemon's name as its command line, kills every older *)
(* process that has it, goes to the background and forks a watchdog, which *)
(* polls the daemon's command line and ends when it is gone.  Every        *)
(* process here bears the name; /proc lists many more, which are let be.   *)
(***************************************************************************)
EXTENDS Naturals, FiniteSets

CONSTANTS
    Pids,         \* the process ids there are
    PidLimit,     \* INT16_MAX: KillOldDaemon looks at no pid above it
    Overlap,      \* TRUE: a launch may begin before the last is in background
    MaxLaunches,  \* bound: how often the daemon is launched
    MaxCrashes    \* bound: how often a daemon dies by itself

ASSUME ProcessAssumption ==
    /\ Pids \subseteq Nat \ {0} /\ IsFiniteSet(Pids)
    /\ {PidLimit, MaxLaunches, MaxCrashes} \subseteq Nat
    /\ Overlap \in BOOLEAN

VARIABLES
    role,      \* where each process is in main; "free": there is none
    todo,      \* the pids KillOldDaemon has listed and not looked at
    target,    \* the daemon a watchdog polls
    launches, crashes

processVars == <<role, todo, target, launches, crashes>>

Alive(p) == role[p] # "free"
Launching == {p \in Pids : role[p] \in {"list", "scan", "background"}}
Daemons == {p \in Pids : role[p] \in {"child", "daemon"}}

ProcessInit ==
    /\ role = [p \in Pids |-> "free"]
    /\ todo = [p \in Pids |-> {}]
    /\ target = [p \in Pids |-> 0]
    /\ launches = 0 /\ crashes = 0

\* main, as far as ParseArgs, which overwrites the command line.
Launch(p) ==
    /\ launches < MaxLaunches
    /\ Overlap \/ Launching = {}
    /\ ~Alive(p)
    /\ launches' = launches + 1
    /\ role' = [role EXCEPT ![p] = "list"]
    /\ UNCHANGED <<todo, target, crashes>>

\* KillOldDaemon: the processes there are at this moment, but this one.
ListProcs(p) ==
    /\ role[p] = "list"
    /\ role' = [role EXCEPT ![p] = "scan"]
    /\ todo' = [todo EXCEPT ![p] = {q \in Pids \ {p} : Alive(q) /\ q <= PidLimit}]
    /\ UNCHANGED <<target, launches, crashes>>

\* Mutant: a pid is looked at only once it is above the launcher's own.
KillNewer(p, q) ==
    /\ role[p] = "scan" /\ q \in todo[p]
    /\ todo' = [todo EXCEPT ![p] = @ \ {q}]
    /\ role' = IF q > p THEN [role EXCEPT ![q] = "free"] ELSE role
    /\ UNCHANGED <<target, launches, crashes>>

\* One turn of its loop: SIGKILL for a process that bears the name.
Kill(p, q) ==
    /\ role[p] = "scan" /\ q \in todo[p]
    /\ todo' = [todo EXCEPT ![p] = @ \ {q}]
    /\ role' = [role EXCEPT ![q] = "free"]
    /\ UNCHANGED <<target, launches, crashes>>

EndScan(p) ==
    /\ role[p] = "scan" /\ todo[p] = {}
    /\ role' = [role EXCEPT ![p] = "background"]
    /\ UNCHANGED <<todo, target, launches, crashes>>

\* daemon(0, 0): a child goes on, the process that was launched ends.
Background(p, child) ==
    /\ role[p] = "background" /\ ~Alive(child)
    /\ role' = [role EXCEPT ![p] = "free", ![child] = "child"]
    /\ UNCHANGED <<todo, target, launches, crashes>>

\* StartDaemonWatchDog: the child of the fork polls its parent.
ForkWatchDog(p, child) ==
    /\ role[p] = "child" /\ ~Alive(child)
    /\ role' = [role EXCEPT ![p] = "daemon", ![child] = "watchdog"]
    /\ target' = [target EXCEPT ![child] = p]
    /\ UNCHANGED <<todo, launches, crashes>>

Crash(p) ==
    /\ crashes < MaxCrashes
    /\ role[p] = "daemon"
    /\ crashes' = crashes + 1
    /\ role' = [role EXCEPT ![p] = "free"]
    /\ UNCHANGED <<todo, target, launches>>

\* Mutant: the watchdog only ends when there is no daemon at all.
WatchAny(w) ==
    /\ role[w] = "watchdog" /\ \A p \in Pids \ {w} : ~Alive(p)
    /\ role' = [role EXCEPT ![w] = "free"]
    /\ UNCHANGED <<todo, target, launches, crashes>>

\* The poll that finds the name gone: the watchdog writes its report and exits.
WatchDog(w) ==
    /\ role[w] = "watchdog" /\ ~Alive(target[w])
    /\ role' = [role EXCEPT ![w] = "free"]
    /\ UNCHANGED <<todo, target, launches, crashes>>

Proceed(p) ==
    \/ ListProcs(p) \/ EndScan(p)
    \/ \E q \in Pids : Kill(p, q) \/ Background(p, q) \/ ForkWatchDog(p, q)

ProcessNext ==
    \E p \in Pids : Launch(p) \/ Proceed(p) \/ Crash(p) \/ WatchDog(p)

ProcessSpec == ProcessInit /\ [][ProcessNext]_processVars

\* Processes that can run are run.  Nobody has to launch or to crash.
FairProcessSpec ==
    ProcessSpec /\ \A p \in Pids : WF_processVars(Proceed(p)) /\ WF_processVars(WatchDog(p))

------------------------------------------------------------------------------
ProcessTypeOK ==
    /\ role \in [Pids -> {"free", "list", "scan", "background", "child", "daemon", "watchdog"}]
    /\ todo \in [Pids -> SUBSET Pids]
    /\ target \in [Pids -> Pids \cup {0}]
    /\ launches \in 0..MaxLaunches /\ crashes \in 0..MaxCrashes

\* When a launch comes to the background it is alone: the scan has killed every
\* daemon and every half-made one, those listed while they forked included; and
\* no name in /proc that is no pid gets killed (ProcessTypeOK).
OneDaemon == ProcessTypeOK /\ \A p, q \in Daemons : p = q

\* A watchdog outlives its daemon by one poll only, whether the daemon crashed
\* or was killed together with the process that forked it.
WatchDogEnds ==
    \A w, p \in Pids :
        (role[w] = "watchdog" /\ target[w] = p /\ ~Alive(p))
            ~> (role[w] # "watchdog" \/ target[w] # p \/ Alive(p))
==============================================================================
