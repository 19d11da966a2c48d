-------------------------- MODULE FileWatcher_proofs --------------------------
(***************************************************************************)
(* Proofs about FileWatcher, for any set of paths, any buffer and queue    *)
(* and any number of changes.                                              *)
(*                                                                         *)
(* A watch and every event of it have their notifier in watcherMap_, or    *)
(* AddWatch is just entering it (EntryInv); a path is changed behind the   *)
(* watcher's back only while an event is to come (EventInv).               *)
(*                                                                         *)
(* And proofs about TopAppMonitor, whose CgroupModified_ it runs, for any  *)
(* apps and number of events.                                              *)
(***************************************************************************)
EXTENDS FileWatcher, TopAppMonitor, SequenceTheorems, TLAPS

\* The events the watcher has still to handle.
Coming(wd) == Contains(batch, wd) \/ Contains(queue, wd)

\* AddWatch has put the notifier of p into watcherMap_, or is about to.
Entered(p) == p \in watcherMap \/ (adding # Idle /\ adding[2] = p)

\* What is watched has been given to AddWatch, and with it all that has events.
EntryInv == \A p \in Paths : p \in watched \/ Coming(p) => Entered(p)

\* A change since AddWatch has an event to come, unless events were dropped.
EventInv ==
    /\ unseen \cap pending = {}
    /\ alive => \A p \in unseen \cap watched : Coming(p) \/ Coming(Overflow)

\* The kernel fills the last place of its queue with the overflow event only.
FullInv == Len(queue) = QueueSize => Contains(queue, Overflow)

\* What has ended the process.
EndInv == ~alive => adding # Idle \/ Head(batch) = Overflow

IInv == TypeOK /\ EntryInv /\ EventInv /\ FullInv /\ EndInv

Event == Paths \cup {Overflow}

------------------------------------------------------------------------------
(* What the operations on the queue and the buffer keep *)

\* An event is in two queues when it is in one of them.
LEMMA ContainsConcat ==
    ASSUME NEW s \in Seq(Event), NEW t \in Seq(Event), NEW e
    PROVE  Contains(s \o t, e) <=> Contains(s, e) \/ Contains(t, e)
  <1>1. \A i \in 1..Len(s) : (s \o t)[i] = s[i] /\ i \in 1..Len(s \o t)
    OBVIOUS
  <1>2. \A i \in 1..Len(t) : (s \o t)[Len(s) + i] = t[i] /\ Len(s) + i \in 1..Len(s \o t)
    OBVIOUS
  <1>3. \A i \in 1..Len(s \o t) : i \in 1..Len(s) \/ i - Len(s) \in 1..Len(t)
    OBVIOUS
  <1>4. \A i \in 1..Len(s \o t) : i \notin 1..Len(s) => (s \o t)[i] = t[i - Len(s)]
    OBVIOUS
  <1> QED
    BY <1>1, <1>2, <1>3, <1>4 DEF Contains

\* Appending an event adds that event.
LEMMA ContainsAppend ==
    ASSUME NEW s \in Seq(Event), NEW wd \in Event, NEW e
    PROVE  Contains(Append(s, wd), e) <=> Contains(s, e) \/ e = wd
  <1>1. \A i \in 1..Len(s) : Append(s, wd)[i] = s[i] /\ i \in 1..Len(Append(s, wd))
    OBVIOUS
  <1>2. Append(s, wd)[Len(s) + 1] = wd /\ Len(s) + 1 \in 1..Len(Append(s, wd))
    OBVIOUS
  <1>3. \A i \in 1..Len(Append(s, wd)) : i \in 1..Len(s) \/ i = Len(s) + 1
    OBVIOUS
  <1> QED
    BY <1>1, <1>2, <1>3 DEF Contains

\* Handling the first event takes that event only.
LEMMA ContainsTail ==
    ASSUME NEW s \in Seq(Event), s # <<>>, NEW e
    PROVE  Contains(s, e) <=> e = Head(s) \/ Contains(Tail(s), e)
  <1>1. Len(Tail(s)) = Len(s) - 1 /\ 1 \in 1..Len(s) /\ s[1] = Head(s)
    OBVIOUS
  <1>2. \A i \in 1..Len(Tail(s)) : Tail(s)[i] = s[i + 1] /\ i + 1 \in 1..Len(s)
    OBVIOUS
  <1>3. \A i \in 1..Len(s) : i = 1 \/ (i - 1 \in 1..Len(Tail(s)) /\ s[i] = Tail(s)[i - 1])
    OBVIOUS
  <1> QED
    BY <1>1, <1>2, <1>3 DEF Contains

\* A read moves the first events to the buffer and leaves the others queued.
LEMMA ContainsSplit ==
    ASSUME NEW s \in Seq(Event), NEW n \in 1..Len(s), NEW e
    PROVE  /\ SubSeq(s, 1, n) \in Seq(Event) /\ Len(SubSeq(s, 1, n)) = n
           /\ SubSeq(s, n + 1, Len(s)) \in Seq(Event)
           /\ Len(SubSeq(s, n + 1, Len(s))) = Len(s) - n
           /\ Contains(s, e) <=> \/ Contains(SubSeq(s, 1, n), e)
                                 \/ Contains(SubSeq(s, n + 1, Len(s)), e)
  <1> DEFINE a == SubSeq(s, 1, n)
             b == SubSeq(s, n + 1, Len(s))
  <1>1. a \in Seq(Event) /\ Len(a) = n /\ \A i \in 1..n : a[i] = s[i]
    OBVIOUS
  <1>2. /\ b \in Seq(Event) /\ Len(b) = Len(s) - n
        /\ \A i \in 1..Len(b) : b[i] = s[n + i]
    OBVIOUS
  <1> HIDE DEF a, b
  <1>3. \A i \in 1..n : i \in 1..Len(s)
    OBVIOUS
  <1>4. \A i \in 1..Len(b) : n + i \in 1..Len(s)
    BY <1>2
  <1>5. \A i \in 1..Len(s) : i \in 1..n \/ (i - n \in 1..Len(b) /\ n + (i - n) = i)
    BY <1>2
  <1>6. Contains(s, e) <=> Contains(a, e) \/ Contains(b, e)
    <2>1. ASSUME NEW i \in 1..Len(s), s[i] = e PROVE Contains(a, e) \/ Contains(b, e)
      <3>1. CASE i \in 1..n
        BY <1>1, <2>1, <3>1 DEF Contains
      <3>2. CASE i - n \in 1..Len(b) /\ n + (i - n) = i
        BY <1>2, <2>1, <3>2 DEF Contains
      <3> QED
        BY <1>5, <3>1, <3>2
    <2>2. Contains(a, e) => Contains(s, e)
      BY <1>1, <1>3 DEF Contains
    <2>3. Contains(b, e) => Contains(s, e)
      BY <1>2, <1>4 DEF Contains
    <2> QED
      BY <2>1, <2>2, <2>3 DEF Contains
  <1> QED
    BY <1>1, <1>2, <1>6 DEF a, b

\* The kernel's queue never outgrows QueueSize, holds the new event or that of
\* an overflow, and loses none.
LEMMA QueuedKeeps ==
    ASSUME NEW q \in Seq(Event), NEW wd \in Paths, QueueSize \in Nat \ {0},
           Len(q) <= QueueSize, Len(q) = QueueSize => Contains(q, Overflow)
    PROVE  /\ Queued(q, wd) \in Seq(Event) /\ Len(Queued(q, wd)) <= QueueSize
           /\ Len(Queued(q, wd)) = QueueSize => Contains(Queued(q, wd), Overflow)
           /\ Contains(Queued(q, wd), wd) \/ Contains(Queued(q, wd), Overflow)
           /\ \A e : Contains(q, e) => Contains(Queued(q, wd), e)
           /\ \A e : Contains(Queued(q, wd), e) => Contains(q, e) \/ e \in {wd, Overflow}
  <1>0. wd \in Event /\ Overflow \in Event
    BY DEF Event
  <1>1. CASE q # <<>> /\ q[Len(q)] = wd
    <2>1. Contains(q, wd)
      <3>1. Len(q) \in 1..Len(q)
        BY <1>1
      <3> QED
        BY <1>1, <3>1 DEF Contains
    <2> QED
      BY <1>1, <2>1 DEF Queued
  <1>2. CASE ~(q # <<>> /\ q[Len(q)] = wd) /\ Len(q) < QueueSize - 1
    <2>1. Queued(q, wd) = Append(q, wd)
      BY <1>2 DEF Queued
    <2>2. Append(q, wd) \in Seq(Event) /\ Len(Append(q, wd)) = Len(q) + 1
      BY <1>0
    <2> QED
      BY <1>0, <1>2, <2>1, <2>2, ContainsAppend
  <1>3. CASE /\ ~(q # <<>> /\ q[Len(q)] = wd) /\ ~(Len(q) < QueueSize - 1)
             /\ Contains(q, Overflow)
    BY <1>3 DEF Queued
  <1>4. CASE /\ ~(q # <<>> /\ q[Len(q)] = wd) /\ ~(Len(q) < QueueSize - 1)
             /\ ~Contains(q, Overflow)
    <2>1. Queued(q, wd) = Append(q, Overflow)
      BY <1>4 DEF Queued
    <2>2. Append(q, Overflow) \in Seq(Event) /\ Len(Append(q, Overflow)) = Len(q) + 1
      BY <1>0
    <2>3. Len(q) + 1 <= QueueSize
      BY <1>4
    <2> QED
      BY <1>0, <2>1, <2>2, <2>3, ContainsAppend
  <1> QED
    BY <1>1, <1>2, <1>3, <1>4

------------------------------------------------------------------------------
(* The inductive invariant *)

\* Nothing is watched, queued or entered at first.
LEMMA InitIInv == Init => IInv
  <1> SUFFICES ASSUME Init PROVE IInv
    OBVIOUS
  <1> USE WatcherAssumption DEF Init
  <1>1. queue \in Seq(Event) /\ batch \in Seq(Event) /\ Len(queue) = 0 /\ Len(batch) = 0
    OBVIOUS
  <1>2. TypeOK
    BY <1>1 DEF TypeOK, Event
  <1>3. \A wd : ~Coming(wd)
    BY <1>1 DEF Coming, Contains
  <1>4. EntryInv /\ EventInv
    BY <1>3 DEF EntryInv, EventInv
  <1>5. FullInv /\ EndInv
    BY <1>1 DEF FullInv, EndInv
  <1> QED
    BY <1>2, <1>4, <1>5 DEF IInv

\* A write and a rename may queue an event; they enter no notifier.
LEMMA ChangeIInv ==
    ASSUME IInv, NEW p \in Paths, Modify(p) \/ Replace(p)
    PROVE  IInv'
  <1> DEFINE q == Queued(queue, p)
  <1>0. /\ queue \in Seq(Event) /\ Len(queue) <= QueueSize /\ batch' = batch /\ batch \in Seq(Event)
        /\ UNCHANGED <<adding, pending, watcherMap, alive>> /\ alive
        /\ watched' \subseteq watched /\ unseen' = unseen \cup ({p} \ pending)
    BY DEF IInv, TypeOK, Modify, Replace, watcherVars, adderVars, Event
  <1>1. queue' = (IF p \in watched THEN q ELSE queue)
    BY DEF Modify, Replace
  <1>2. /\ q \in Seq(Event) /\ Len(q) <= QueueSize
        /\ Len(q) = QueueSize => Contains(q, Overflow)
        /\ Contains(q, p) \/ Contains(q, Overflow)
        /\ \A e : Contains(queue, e) => Contains(q, e)
        /\ \A e : Contains(q, e) => Contains(queue, e) \/ e \in {p, Overflow}
    BY <1>0, WatcherAssumption, QueuedKeeps DEF IInv, FullInv
  <1> HIDE DEF q
  <1>3. TypeOK'
    <2>1. changes' \in 0..MaxChanges
      BY WatcherAssumption DEF IInv, TypeOK, Modify, Replace
    <2>2. queue' \in Seq(Event) /\ Len(queue') <= QueueSize
      BY <1>0, <1>1, <1>2
    <2> QED
      BY <1>0, <2>1, <2>2 DEF IInv, TypeOK, Event
  <1>4. \A wd : Coming(wd) => Coming(wd)'
    BY <1>0, <1>1, <1>2 DEF Coming
  <1>5. \A wd \in Paths : Coming(wd)' => Coming(wd) \/ (wd = p /\ p \in watched)
    BY <1>0, <1>1, <1>2, WatcherAssumption DEF Coming, Overflow
  <1>6. p \in watched => Coming(p)' \/ Coming(Overflow)'
    BY <1>1, <1>2 DEF Coming
  <1>7. EntryInv'
    BY <1>0, <1>5 DEF IInv, EntryInv, Entered
  <1>8. EventInv'
    BY <1>0, <1>4, <1>6 DEF IInv, EventInv
  <1>9. FullInv'
    BY <1>1, <1>2 DEF IInv, FullInv
  <1> QED
    BY <1>0, <1>3, <1>7, <1>8, <1>9 DEF IInv, EndInv

\* AddWatch enters each path it has the kernel watch, which had not changed
\* unseen before.
LEMMA AddWatchIInv ==
    ASSUME IInv, AddWatch
    PROVE  IInv'
  <1>0. /\ UNCHANGED <<queue, batch, alive, changes, unseen>> /\ alive
        /\ queue \in Seq(Event) /\ batch \in Seq(Event)
    BY DEF IInv, TypeOK, AddWatch, InotifyAddWatch, BeginEmplace, EndEmplace,
       kernelVars, watcherVars, Event
  <1>1. \A wd : Coming(wd)' <=> Coming(wd)
    BY <1>0 DEF Coming
  <1>2. FullInv' /\ EndInv'
    BY <1>0 DEF IInv, FullInv, EndInv
  <1>3. ASSUME NEW p \in Paths, InotifyAddWatch(p)
        PROVE  TypeOK' /\ EntryInv' /\ EventInv'
    <2>1. /\ adding = Idle /\ p \in pending /\ pending' = pending \ {p}
          /\ adding' = <<"emplace", p>> /\ watched' = watched \cup {p}
          /\ watcherMap' = watcherMap
      BY <1>3 DEF InotifyAddWatch
    <2>2. adding' # Idle /\ adding'[2] = p
      BY <2>1 DEF Idle
    <2>3. TypeOK'
      BY <1>0, <2>1 DEF IInv, TypeOK
    <2>4. EntryInv'
      BY <1>1, <2>1, <2>2 DEF IInv, EntryInv, Entered
    <2>5. EventInv'
      BY <1>0, <1>1, <2>1 DEF IInv, EventInv
    <2> QED
      BY <2>3, <2>4, <2>5
  <1>4. ASSUME BeginEmplace PROVE TypeOK' /\ EntryInv' /\ EventInv'
    <2>1. /\ adding # Idle /\ adding' = <<"emplacing", adding[2]>>
          /\ UNCHANGED <<watched, watcherMap, pending>>
      BY <1>4 DEF BeginEmplace, kernelVars
    <2>2. adding' # Idle /\ adding'[2] = adding[2] /\ adding[2] \in Paths
      BY <2>1 DEF Idle, IInv, TypeOK
    <2>3. TypeOK'
      BY <1>0, <2>1, <2>2 DEF IInv, TypeOK
    <2>4. EntryInv'
      BY <1>1, <2>1, <2>2 DEF IInv, EntryInv, Entered
    <2>5. EventInv'
      BY <1>0, <1>1, <2>1 DEF IInv, EventInv
    <2> QED
      BY <2>3, <2>4, <2>5
  <1>5. ASSUME EndEmplace PROVE TypeOK' /\ EntryInv' /\ EventInv'
    <2>1. /\ adding # Idle /\ adding' = Idle /\ watcherMap' = watcherMap \cup {adding[2]}
          /\ UNCHANGED <<watched, pending>>
      BY <1>5 DEF EndEmplace, kernelVars
    <2>2. adding[2] \in Paths
      BY <2>1 DEF Idle, IInv, TypeOK
    <2>3. TypeOK'
      BY <1>0, <2>1, <2>2 DEF IInv, TypeOK
    <2>4. EntryInv'
      BY <1>1, <2>1 DEF IInv, EntryInv, Entered
    <2>5. EventInv'
      BY <1>0, <1>1, <2>1 DEF IInv, EventInv
    <2> QED
      BY <2>3, <2>4, <2>5
  <1> QED
    BY <1>2, <1>3, <1>4, <1>5 DEF AddWatch, IInv

\* A read of part of the queue leaves every event to come.
LEMMA ReadIInv ==
    ASSUME IInv, ReadEvents
    PROVE  IInv'
  <1> DEFINE n == IF Len(queue) < BufferSize THEN Len(queue) ELSE BufferSize
  <1>0. /\ queue \in Seq(Event) /\ queue # <<>> /\ batch = <<>> /\ batch \in Seq(Event)
        /\ UNCHANGED <<watched, alive, watcherMap, adding, pending, changes, unseen>> /\ alive
    BY DEF IInv, TypeOK, ReadEvents, adderVars, Event
  <1>1. n \in 1..Len(queue) /\ n <= BufferSize
    BY <1>0, WatcherAssumption
  <1>2. batch' = SubSeq(queue, 1, n) /\ queue' = SubSeq(queue, n + 1, Len(queue))
    BY DEF ReadEvents
  <1> HIDE DEF n
  <1>3. /\ batch' \in Seq(Event) /\ Len(batch') = n
        /\ queue' \in Seq(Event) /\ Len(queue') = Len(queue) - n
        /\ \A wd : Contains(queue, wd) <=> Contains(batch', wd) \/ Contains(queue', wd)
    BY <1>0, <1>1, <1>2, ContainsSplit
  <1>4. \A wd : ~Contains(batch, wd)
    BY <1>0 DEF Contains
  <1>5. \A wd : Coming(wd)' <=> Coming(wd)
    BY <1>3, <1>4 DEF Coming
  <1>6. Len(queue) \in Nat /\ Len(queue) <= QueueSize
    BY <1>0, LenProperties DEF IInv, TypeOK
  <1>7. TypeOK'
    BY <1>0, <1>1, <1>3, <1>6, WatcherAssumption DEF IInv, TypeOK, Event
  <1>8. EntryInv' /\ EventInv' /\ EndInv'
    BY <1>0, <1>5 DEF IInv, EntryInv, EventInv, EndInv, Entered
  <1>9. FullInv'
    BY <1>1, <1>3, <1>6, WatcherAssumption DEF FullInv
  <1> QED
    BY <1>7, <1>8, <1>9 DEF IInv

\* An event is taken off when its notifier runs, which sees the change; the
\* event that finds no notifier is that of an overflow, or main is in AddWatch.
LEMMA HandleIInv ==
    ASSUME IInv, HandleEvent
    PROVE  IInv'
  <1>0. /\ batch \in Seq(Event) /\ batch # <<>> /\ queue \in Seq(Event) /\ alive
        /\ UNCHANGED <<watched, queue, watcherMap, adding, pending, changes>>
        /\ watcherMap \subseteq Paths
    BY DEF IInv, TypeOK, HandleEvent, kernelVars, adderVars, Event
  <1>1. ASSUME alive' PROVE IInv'
    <2>1. batch' = Tail(batch) /\ unseen' = unseen \ {Head(batch)}
      BY <1>1 DEF HandleEvent
    <2>2. batch' \in Seq(Event) /\ Len(batch') <= Len(batch)
      BY <1>0, <2>1
    <2>3. Head(batch) \in watcherMap
      BY <1>1 DEF HandleEvent, Outcomes
    <2>4. \A wd : Coming(wd) <=> wd = Head(batch) \/ Coming(wd)'
      BY <1>0, <2>1, ContainsTail DEF Coming
    <2>5. Head(batch) # Overflow
      BY <1>0, <2>3, WatcherAssumption DEF Overflow
    <2>6. TypeOK'
      <3>1. alive' \in BOOLEAN
        BY <1>1
      <3>2. Len(batch') \in Nat /\ Len(batch) \in Nat
        BY <1>0, <2>2, LenProperties
      <3> QED
        BY <1>0, <2>1, <2>2, <3>1, <3>2, WatcherAssumption DEF IInv, TypeOK, Event
    <2>7. EntryInv'
      BY <1>0, <2>4 DEF IInv, EntryInv, Entered
    <2>8. EventInv'
      BY <1>0, <2>1, <2>4, <2>5 DEF IInv, EventInv
    <2>9. FullInv' /\ EndInv'
      BY <1>0, <1>1 DEF IInv, FullInv, EndInv
    <2> QED
      BY <2>6, <2>7, <2>8, <2>9 DEF IInv
  <1>2. ASSUME ~alive' PROVE IInv'
    <2>1. batch' = batch /\ unseen' = unseen /\ alive' \in Outcomes(Head(batch))
      BY <1>2 DEF HandleEvent
    <2>2. \A wd : Coming(wd)' <=> Coming(wd)
      BY <1>0, <2>1 DEF Coming
    <2>3. adding = Idle => Head(batch) \notin watcherMap
      BY <1>2, <2>1 DEF Outcomes
    <2>4. Head(batch) \in Event /\ Coming(Head(batch))
      BY <1>0, ContainsTail DEF Coming
    <2>5. EndInv'
      BY <1>0, <2>1, <2>3, <2>4 DEF EndInv, IInv, EntryInv, Entered, Event
    <2>6. alive' \in BOOLEAN
      <3>1. Outcomes(Head(batch)) \subseteq BOOLEAN
        <4>1. (Head(batch) \in watcherMap) \in BOOLEAN
          OBVIOUS
        <4> QED
          BY <4>1, Zenon DEF Outcomes
      <3> QED
        BY <2>1, <3>1
    <2> QED
      BY <1>0, <1>2, <2>1, <2>2, <2>5, <2>6 DEF IInv, TypeOK, EntryInv, EventInv, FullInv, Entered
  <1> QED
    BY <1>1, <1>2

\* The invariant holds throughout.
LEMMA Inductive == Spec => []IInv
  <1>1. ASSUME IInv, UNCHANGED vars PROVE IInv'
    BY <1>1 DEF vars, kernelVars, watcherVars, adderVars, IInv, TypeOK, EntryInv,
       EventInv, FullInv, EndInv, Coming, Entered
  <1>2. IInv /\ [Next]_vars => IInv'
    BY <1>1, ChangeIInv, AddWatchIInv, ReadIInv, HandleIInv DEF Next, WatcherMain
  <1> QED
    BY InitIInv, <1>2, PTL DEF Spec

\* Every change of a watched file has an event still to come that will find its
\* notifier, or the kernel has dropped events and says so, for any paths, any
\* size of the buffer and of the queue.
THEOREM ChangesHaveEvents == Spec => []ChangeHasEvent
  <1>1. ASSUME IInv, NEW p \in unseen \cap watched, alive
        PROVE  \/ /\ Contains(batch \o queue, p)
                  /\ p \in watcherMap \/ adding[2] = p
               \/ Contains(batch \o queue, Overflow)
    <2>1. batch \in Seq(Event) /\ queue \in Seq(Event) /\ p \in Paths
      BY <1>1 DEF IInv, TypeOK, Event
    <2>2. \A wd : Contains(batch \o queue, wd) <=> Coming(wd)
      BY <2>1, ContainsConcat DEF Coming
    <2> QED
      BY <1>1, <2>1, <2>2 DEF IInv, EntryInv, EventInv, Entered
  <1>2. IInv => ChangeHasEvent
    BY <1>1 DEF ChangeHasEvent
  <1> QED
    BY <1>2, Inductive, PTL

\* The process is ended only by an event handled while main is in AddWatch, or
\* by the event of an overflow.
THEOREM OnlyAddWatchKills == Spec => []OnlyAddingKills
  <1>1. IInv => OnlyAddingKills
    BY DEF IInv, EndInv, OnlyAddingKills
  <1> QED
    BY <1>1, Inductive, PTL

------------------------------------------------------------------------------
(* TopAppMonitor *)

Pid == Apps \cup {NoPid}
MonitorThreads == {"main", "watcher", "monitor", "notifier"}
MonitorPC == {"none", "test", "wait", "waiting", "dump", "post", "store", "pause"}
WatcherPC == {"ready", "continue", "clear", "notify", "check", "compare", "install", "store"}
NotifierPC == {"none", "ready", "read", "continue", "clear", "notify"}
MainPC == {"read", "assign", "post", "install", "subscribe", "done"}

\* Where the threads are, and what each has in hand: the monitor posts an app.
ThreadInv ==
    /\ pc \in [MonitorThreads -> MonitorPC \cup WatcherPC \cup NotifierPC \cup MainPC]
    /\ pc["main"] \in MainPC /\ pc["watcher"] \in WatcherPC
    /\ pc["monitor"] \in MonitorPC /\ pc["notifier"] \in NotifierPC
    /\ seen \in [MonitorThreads -> State \cup Pid]
    /\ seen["main"] \in State /\ seen["watcher"] \in State
    /\ seen["monitor"] \in Pid /\ seen["notifier"] \in Pid
    /\ pc["monitor"] \in {"post", "store"} => seen["monitor"] \in Apps

\* Until Start has subscribed there is no monitor.
StartInv ==
    (pc["monitor"] = "none" \/ pc["main"] # "done") =>
        topAppPid = NoPid /\ pc["monitor"] = "none" /\ pc["main"] # "done"

MonitorInv == MonitorTypeOK /\ ThreadInv /\ StartInv /\ MonitorWakes

\* As long as the screen is on, nobody knows or is about to say anything else,
\* and the policy is that of the app known, or about to be.
ScreenOnInv ==
    /\ screenState = "on" /\ seen["main"] = "on" /\ seen["watcher"] = "on"
    /\ pc["watcher"] \notin {"install", "store"}
    /\ pc["monitor"] = "store" => policy = seen["monitor"]
    /\ topAppPid \in Apps /\ pc["monitor"] # "store" => policy = topAppPid

\* The first states.
LEMMA InitMonitor ==
    ASSUME MonitorInit PROVE MonitorInv /\ ScreenOnInv
  <1>1. ThreadInv
    BY DEF MonitorInit, ThreadInv, MonitorThreads, MonitorPC, WatcherPC, NotifierPC, MainPC, State, Pid, NoPid
  <1>2. MonitorTypeOK
    <2>1. fg \in Apps /\ cgroup \subseteq Apps /\ topAppPid = NoPid /\ policy = "*"
      BY DEF MonitorInit
    <2>2. screen \in State /\ screenState \in State /\ events \in 0..MaxEvents
      BY MonitorAssumption DEF MonitorInit, State
    <2>3. {event, subscribed, paused, missed} \subseteq BOOLEAN
      BY DEF MonitorInit
    <2>4. DOMAIN pc = {"main", "watcher", "monitor", "notifier"}
      BY DEF MonitorInit
    <2> QED
      BY <2>1, <2>2, <2>3, <2>4 DEF MonitorTypeOK
  <1>3. StartInv /\ MonitorWakes
    BY DEF MonitorInit, StartInv, MonitorWakes
  <1>4. ScreenOnInv
    BY MonitorAssumption DEF MonitorInit, ScreenOnInv, NoPid
  <1> QED
    BY <1>1, <1>2, <1>3, <1>4 DEF MonitorInv

\* Android.
LEMMA OutsideKeeps ==
    ASSUME MonitorInv, Switch \/ MoveTasks \/ ScreenChange \/ OtherTasks
    PROVE  MonitorInv' /\ (ScreenOnInv => ScreenOnInv')
  <1>1. UNCHANGED daemonVars
    BY DEF Switch, MoveTasks, ScreenChange, OtherTasks
  <1>2. fg' \in Apps /\ cgroup' \subseteq Apps /\ screen' \in State
    BY DEF MonitorInv, MonitorTypeOK, State, Switch, MoveTasks, ScreenChange, OtherTasks
  <1>3. events' \in 0..MaxEvents
    BY MonitorAssumption DEF MonitorInv, MonitorTypeOK, NextEvent, Switch, MoveTasks, ScreenChange, OtherTasks
  <1>4. event' = event \/ event' = TRUE
    BY DEF Switch, MoveTasks, ScreenChange, OtherTasks
  <1> QED
    BY <1>1, <1>2, <1>3, <1>4 DEF MonitorInv, MonitorTypeOK, ThreadInv, StartInv, MonitorWakes, ScreenOnInv, daemonVars

\* CgroupWatcher::Start on main, up to the start of the monitor.
LEMMA MainKeeps ==
    ASSUME MonitorInv, MainStep
    PROVE  MonitorInv' /\ (ScreenOnInv /\ screen = "on" => ScreenOnInv')
  <1> USE DEF MonitorInv, MonitorTypeOK, ThreadInv, StartInv, MonitorWakes, ScreenOnInv, Goto,
              MonitorThreads, MonitorPC, WatcherPC, NotifierPC, MainPC, State, Pid, NoPid, outsideVars
  <1>1. CASE StartRead
    BY <1>1 DEF StartRead
  <1>2. CASE StartAssign
    BY <1>2 DEF StartAssign
  <1>3. CASE StartPost
    BY <1>3 DEF StartPost
  <1>4. CASE InstallPolicy("main")
    BY <1>4, MonitorAssumption DEF InstallPolicy, PolicyOf
  <1>5. CASE StartMonitor
    BY <1>5 DEF StartMonitor
  <1> QED
    BY <1>1, <1>2, <1>3, <1>4, <1>5 DEF MainStep

\* continueTimer, of the watcher or the notifier.
LEMMA ContinueKeeps ==
    ASSUME MonitorInv, NEW t \in {"watcher", "notifier"}, ContinueStep(t)
    PROVE  MonitorInv' /\ (ScreenOnInv => ScreenOnInv')
  <1> USE DEF MonitorInv, MonitorTypeOK, ThreadInv, StartInv, MonitorWakes, ScreenOnInv, Goto, Next_,
              MonitorThreads, MonitorPC, WatcherPC, NotifierPC, MainPC, State, Pid, NoPid, outsideVars
  <1> t = "watcher" \/ t = "notifier"
    OBVIOUS
  <1>1. CASE TestContinue(t)
    BY <1>1 DEF TestContinue
  <1>2. CASE ClearPaused(t)
    <2>1. {event, subscribed, paused, missed}' \subseteq BOOLEAN
      BY <1>2 DEF ClearPaused
    <2>2. MonitorTypeOK'
      BY <2>1, <1>2 DEF ClearPaused
    <2>3. ThreadInv'
      BY <1>2 DEF ClearPaused
    <2>4. StartInv' /\ (ScreenOnInv => ScreenOnInv')
      BY <1>2 DEF ClearPaused
    <2>5. MonitorWakes'
      BY <1>2 DEF ClearPaused
    <2> QED
      BY <2>1, <2>2, <2>3, <2>4, <2>5
  <1>3. CASE NotifyMonitor(t)
    <2>1. {event, subscribed, paused, missed}' \subseteq BOOLEAN
      BY <1>3 DEF NotifyMonitor
    <2>2. MonitorTypeOK'
      BY <2>1, <1>3 DEF NotifyMonitor
    <2>3. ThreadInv'
      BY <1>3 DEF NotifyMonitor
    <2>4. StartInv' /\ (ScreenOnInv => ScreenOnInv')
      BY <1>3 DEF NotifyMonitor
    <2>5. MonitorWakes'
      BY <1>3 DEF NotifyMonitor
    <2> QED
      BY <2>1, <2>2, <2>3, <2>4, <2>5
  <1> QED
    BY <1>1, <1>2, <1>3 DEF ContinueStep

\* The watcher's own steps.
LEMMA WatcherKeeps ==
    ASSUME MonitorInv, WatcherStep
    PROVE  MonitorInv' /\ (ScreenOnInv /\ screen = "on" => ScreenOnInv')
  <1>1. CASE ContinueStep("watcher")
    BY <1>1, ContinueKeeps
  <1> USE DEF MonitorInv, MonitorTypeOK, ThreadInv, StartInv, MonitorWakes, ScreenOnInv, Goto,
              MonitorThreads, MonitorPC, WatcherPC, NotifierPC, MainPC, State, Pid, NoPid, outsideVars
  <1>2. CASE CgroupModified
    <2>1. {event, subscribed, paused, missed}' \subseteq BOOLEAN
      BY <1>2 DEF CgroupModified
    <2>2. MonitorTypeOK'
      BY <2>1, <1>2 DEF CgroupModified
    <2>3. ThreadInv'
      BY <1>2 DEF CgroupModified
    <2>4. StartInv' /\ (ScreenOnInv => ScreenOnInv')
      BY <1>2 DEF CgroupModified
    <2>5. MonitorWakes'
      BY <1>2 DEF CgroupModified
    <2> QED
      BY <2>1, <2>2, <2>3, <2>4, <2>5
  <1>3. CASE ReadScreenState
    BY <1>3 DEF ReadScreenState
  <1>4. CASE CheckScreenState
    BY <1>4 DEF CheckScreenState
  <1>5. CASE InstallPolicy("watcher")
    BY <1>5, MonitorAssumption DEF InstallPolicy, PolicyOf
  <1>6. CASE StoreScreenState
    BY <1>6 DEF StoreScreenState
  <1> QED
    BY <1>1, <1>2, <1>3, <1>4, <1>5, <1>6 DEF WatcherStep

\* The monitor, with spurious wakeups.
LEMMA MonitorKeeps ==
    ASSUME MonitorInv, MonitorStep \/ SpuriousWakeup
    PROVE  MonitorInv' /\ (ScreenOnInv => ScreenOnInv')
  <1> USE DEF MonitorInv, MonitorTypeOK, ThreadInv, StartInv, MonitorWakes, ScreenOnInv, Goto,
              MonitorThreads, MonitorPC, WatcherPC, NotifierPC, MainPC, State, Pid, NoPid, outsideVars
  <1>1. CASE TestPaused
    BY <1>1 DEF TestPaused
  <1>2. CASE Wait
    BY <1>2 DEF Wait
  <1>3. CASE SpuriousWakeup
    BY <1>3 DEF SpuriousWakeup
  <1>4. CASE Dump
    BY <1>4, MonitorAssumption DEF Dump, NextEvent
  <1>5. CASE PostTopApp
    BY <1>5 DEF PostTopApp
  <1>6. CASE StoreTopApp
    BY <1>6 DEF StoreTopApp
  <1>7. CASE PauseTimer
    BY <1>7 DEF PauseTimer
  <1> QED
    BY <1>1, <1>2, <1>3, <1>4, <1>5, <1>6, <1>7 DEF MonitorStep

\* The notifier's own steps.
LEMMA NotifierKeeps ==
    ASSUME MonitorInv, NotifierStep
    PROVE  MonitorInv' /\ (ScreenOnInv => ScreenOnInv')
  <1>1. CASE ContinueStep("notifier")
    BY <1>1, ContinueKeeps
  <1> USE DEF MonitorInv, MonitorTypeOK, ThreadInv, StartInv, MonitorWakes, ScreenOnInv, Goto,
              MonitorThreads, MonitorPC, WatcherPC, NotifierPC, MainPC, State, Pid, NoPid, outsideVars
  <1>2. CASE ReadTopApp
    BY <1>2 DEF ReadTopApp
  <1>3. CASE TestTopApp
    BY <1>3 DEF TestTopApp
  <1> QED
    BY <1>1, <1>2, <1>3 DEF NotifierStep

\* Every step keeps the invariant, and what holds while the screen is on.
LEMMA NextMonitor ==
    MonitorInv /\ [MonitorNext]_monitorVars =>
        MonitorInv' /\ (ScreenOnInv /\ screen = "on" => ScreenOnInv')
  <1> SUFFICES ASSUME MonitorInv, [MonitorNext]_monitorVars
               PROVE  MonitorInv' /\ (ScreenOnInv /\ screen = "on" => ScreenOnInv')
    OBVIOUS
  <1>1. CASE UNCHANGED monitorVars
    BY <1>1 DEF monitorVars, outsideVars, MonitorInv, MonitorTypeOK, ThreadInv, StartInv, MonitorWakes, ScreenOnInv
  <1>2. CASE MonitorNext
    BY <1>2, OutsideKeeps, MainKeeps, WatcherKeeps, MonitorKeeps, NotifierKeeps DEF MonitorNext
  <1> QED
    BY <1>1, <1>2

\* The invariant of the specification.
LEMMA MonitorInductive == MonitorSpec => []MonitorInv
  BY InitMonitor, NextMonitor, PTL DEF MonitorSpec

\* The types of the monitor and the cgroup watcher: what the monitor posts is
\* an app, never the pid -1 of a look that failed.
THEOREM MonitorTypeCorrect == MonitorSpec => []MonitorTypeOK
  <1>1. MonitorInv => MonitorTypeOK
    BY DEF MonitorInv
  <1> QED
    BY <1>1, MonitorInductive, PTL

\* The monitor sleeps with paused_ FALSE only until a notification that is on its
\* way, or because one fell between its test and its wait.
THEOREM OnlyGapStopsMonitor == MonitorSpec => []MonitorWakes
  <1>1. MonitorInv => MonitorWakes
    BY DEF MonitorInv
  <1> QED
    BY <1>1, MonitorInductive, PTL

\* While the screen is on, the policy of the app known stays in force, however
\* Start, the watcher, the monitor and the notifier meet, for any apps.
THEOREM AppKeepsPolicy == MonitorSpec => KeepsAppPolicy
  <1> DEFINE Shown == topAppPid \in Apps /\ pc["monitor"] # "store" => policy = topAppPid
             On == screen = "on"
  <1>1. MonitorInit => ScreenOnInv
    BY InitMonitor
  <1>2. MonitorInv /\ ScreenOnInv /\ On /\ [MonitorNext]_monitorVars => ScreenOnInv'
    BY NextMonitor DEF On
  <1>3. ScreenOnInv => Shown
    BY DEF ScreenOnInv
  <1>4. MonitorSpec /\ []On => []Shown
    <2> HIDE DEF Shown, On
    <2> QED
      BY <1>1, <1>2, <1>3, MonitorInductive, PTL DEF MonitorSpec
  <1> QED
    BY <1>4, PTL DEF KeepsAppPolicy
==============================================================================
