------------------------------ MODULE FileWatcher -----------------------------
(***************************************************************************)
(* platform/file_watcher.h: the thread that reads inotify events and calls *)
(* the notifier that was registered for the watch.                         *)
(*                                                                         *)
(* AddWatch asks the kernel for a watch and then enters the notifier into  *)
(* watcherMap_, which the watcher thread reads with no lock.  The kernel   *)
(* watches the inode that the path names at that moment, merges an event   *)
(* with an equal one at the end of the queue, and drops events when the    *)
(* queue is full, leaving one event with the watch descriptor -1.          *)
(***************************************************************************)
EXTENDS Naturals, Sequences, SequencesExt

CONSTANTS
    Paths,        \* the paths given to AddWatch; a path names its watch too
    MaxChanges,   \* bound: writes to the paths and renames onto them, in all
    BufferSize,   \* how many events one read returns (128 in the code)
    QueueSize     \* how many events the kernel queues (16384 by default)

ASSUME WatcherAssumption ==
    /\ MaxChanges \in Nat
    /\ BufferSize \in Nat \ {0} /\ QueueSize \in Nat \ {0}
    /\ "overflow" \notin Paths

VARIABLES
    watched,     \* the paths whose present file the kernel watches
    queue,       \* the kernel's event queue: watch descriptors
    batch,       \* the events read() returned and the loop has not handled
    watcherMap,  \* the watches that have an entry in watcherMap_
    adding,      \* where AddWatch is, and with which path: <<step, path>>
    pending,     \* the paths not yet given to AddWatch
    alive,       \* FALSE when an exception has ended the process
    changes,     \* how many there have been
    unseen       \* history: the paths changed since they were given to AddWatch
                 \* and since their notifier last began

kernelVars == <<watched, queue>>
watcherVars == <<batch, alive>>
adderVars == <<watcherMap, adding, pending>>
vars == <<kernelVars, watcherVars, adderVars, changes, unseen>>

Overflow == "overflow"  \* the event with wd -1
Idle == <<"idle">>

Init ==
    /\ watched = {} /\ queue = <<>> /\ batch = <<>>
    /\ watcherMap = {} /\ adding = Idle /\ pending = Paths
    /\ alive = TRUE
    /\ changes = 0
    /\ unseen = {}

------------------------------------------------------------------------------
(* AddWatch, called by main while the modules start *)

InotifyAddWatch(p) ==
    /\ alive /\ adding = Idle /\ p \in pending
    /\ pending' = pending \ {p}
    /\ adding' = <<"emplace", p>>
    /\ watched' = watched \cup {p}
    /\ UNCHANGED <<queue, watcherVars, watcherMap, changes, unseen>>

\* emplace has begun to change the table the watcher may be reading.
BeginEmplace ==
    /\ alive /\ adding # Idle /\ adding[1] = "emplace"
    /\ adding' = <<"emplacing", adding[2]>>
    /\ UNCHANGED <<kernelVars, watcherVars, watcherMap, pending, changes, unseen>>

\* Mutant: the new entry takes the place of the map.
ReplaceMap ==
    /\ alive /\ adding # Idle /\ adding[1] = "emplacing"
    /\ watcherMap' = {adding[2]}
    /\ adding' = Idle
    /\ UNCHANGED <<kernelVars, watcherVars, pending, changes, unseen>>

EndEmplace ==
    /\ alive /\ adding # Idle /\ adding[1] = "emplacing"
    /\ watcherMap' = watcherMap \cup {adding[2]}
    /\ adding' = Idle
    /\ UNCHANGED <<kernelVars, watcherVars, pending, changes, unseen>>

------------------------------------------------------------------------------
(* The kernel, and whoever changes the files *)

Queued(q, wd) ==
    IF q # <<>> /\ q[Len(q)] = wd THEN q
    ELSE IF Len(q) < QueueSize - 1 THEN Append(q, wd)
    ELSE IF Contains(q, Overflow) THEN q
    ELSE Append(q, Overflow)

\* IN_MODIFY: the text of the file is written in place.
Modify(p) ==
    /\ alive /\ changes < MaxChanges
    /\ changes' = changes + 1
    /\ queue' = IF p \in watched THEN Queued(queue, p) ELSE queue
    /\ unseen' = unseen \cup ({p} \ pending)
    /\ UNCHANGED <<watched, watcherVars, adderVars>>

\* IN_IGNORED: another file is renamed onto the path, as editors save.  The
\* watch dies with the old file, and the new one has none.
Replace(p) ==
    /\ alive /\ changes < MaxChanges
    /\ changes' = changes + 1
    /\ queue' = IF p \in watched THEN Queued(queue, p) ELSE queue
    /\ watched' = watched \ {p}
    /\ unseen' = unseen \cup ({p} \ pending)
    /\ UNCHANGED <<watcherVars, adderVars>>

------------------------------------------------------------------------------
(* WatcherMain_ *)

\* Mutant: the events that do not fit the buffer are lost.
ReadAndDrop ==
    /\ alive /\ batch = <<>> /\ queue # <<>>
    /\ batch' = SubSeq(queue, 1, IF Len(queue) < BufferSize THEN Len(queue) ELSE BufferSize)
    /\ queue' = <<>>
    /\ UNCHANGED <<watched, alive, adderVars, changes, unseen>>

ReadEvents ==
    /\ alive /\ batch = <<>> /\ queue # <<>>
    /\ LET n == IF Len(queue) < BufferSize THEN Len(queue) ELSE BufferSize
       IN  /\ batch' = SubSeq(queue, 1, n)
           /\ queue' = SubSeq(queue, n + 1, Len(queue))
    /\ UNCHANGED <<watched, alive, adderVars, changes, unseen>>

\* What at() may do, TRUE for finding the entry: it finds one that is there,
\* misses one that is not, and does either while the table is being changed.
Outcomes(wd) ==
    IF adding # Idle /\ adding[1] = "emplacing" THEN {(wd \in watcherMap), FALSE}
    ELSE {(wd \in watcherMap)}

\* Mutant: the offset is advanced twice.
SkipEvent ==
    /\ alive /\ batch # <<>>
    /\ alive' \in Outcomes(Head(batch))
    /\ batch' = IF alive' THEN SubSeq(batch, 3, Len(batch)) ELSE batch
    /\ unseen' = IF alive' THEN unseen \ {Head(batch)} ELSE unseen
    /\ UNCHANGED <<kernelVars, adderVars, changes>>

\* watcherMap_.at(event.wd)(): the notifier runs, or the exception ends all.
HandleEvent ==
    /\ alive /\ batch # <<>>
    /\ alive' \in Outcomes(Head(batch))
    /\ batch' = IF alive' THEN Tail(batch) ELSE batch
    /\ unseen' = IF alive' THEN unseen \ {Head(batch)} ELSE unseen
    /\ UNCHANGED <<kernelVars, adderVars, changes>>

------------------------------------------------------------------------------
AddWatch == BeginEmplace \/ EndEmplace \/ \E p \in Paths : InotifyAddWatch(p)
WatcherMain == ReadEvents \/ HandleEvent

Next ==
    \/ AddWatch
    \/ \E p \in Paths : Modify(p) \/ Replace(p)
    \/ WatcherMain

Spec == Init /\ [][Next]_vars

\* main adds its watches, and the watcher runs whenever it has events.
FairSpec == Spec /\ WF_vars(AddWatch) /\ WF_vars(WatcherMain)

------------------------------------------------------------------------------
TypeOK ==
    /\ watched \subseteq Paths /\ watcherMap \subseteq Paths
    /\ pending \subseteq Paths /\ unseen \subseteq Paths
    /\ queue \in Seq(Paths \cup {Overflow}) /\ Len(queue) <= QueueSize
    /\ batch \in Seq(Paths \cup {Overflow}) /\ Len(batch) <= BufferSize
    /\ adding = Idle \/ adding \in {"emplace", "emplacing"} \X Paths
    /\ alive \in BOOLEAN
    /\ changes \in 0..MaxChanges

\* As long as the process and the kernel's watch live, a modification of a file
\* reaches its notifier: merged events, dropped events, notifiers that run late
\* and reads of part of the queue lose none.
WatchedChangeNoticed ==
    \A p \in Paths : p \in unseen ~> (p \notin unseen \/ p \notin watched \/ ~alive)

\* No change is lost track of: a watched path that was changed has an event
\* still to come, queued or read, which will find its notifier in the map; or
\* the kernel has dropped events, and the overflow event is still to come.
ChangeHasEvent ==
    \A p \in unseen \cap watched :
        alive => \/ Contains(batch \o queue, p)
                     /\ (p \in watcherMap \/ adding[2] = p)
                 \/ Contains(batch \o queue, Overflow)

\* Only two things end the process: an event that is handled while main is in
\* AddWatch, and the event of an overflow.  When all watches are added, no
\* modification of the files does; and a read takes no more than the buffer
\* holds (TypeOK).
OnlyAddingKills == TypeOK /\ (~alive => adding # Idle \/ Head(batch) = Overflow)
==============================================================================
