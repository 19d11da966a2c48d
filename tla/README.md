# A verification project for CuRefreshRateTuner

CuRefreshRateTuner is an Android daemon in C++. It sets the refresh rate of the
screen through SurfaceFlinger: an *active* rate while somebody touches the
screen or has just opened an app, an *idle* rate once the finger has been off
it for a while, and a policy of its own for the screen being off and for
chosen apps. This directory holds TLA+ modules of its parts, TLC runs over
them, and proofs for the TLA+ proof system.

All paths below are under `src/src/` of the repository unless they are
`config.json` or `README.md`.

## 1. The system

One process, about eight threads:

| Thread | Started by | Runs |
|---|---|---|
| main | | `Start` of the four modules in turn, then sleeps for ever |
| InputListener, one per touch device | `InputListener::Start` | reads the device; posts KEY_DOWN and KEY_UP |
| FileWatcher | first `FileWatcher::GetInstance` | reads inotify; runs `ConfigModified_` and `CgroupWatcher::CgroupModified_`, and through it `ScreenStateChanged_` |
| monitor | `TopAppMonitor::Start` | `MonitorLoop_`; runs `TopAppChanged_` |
| notifier | `TopAppMonitor::Start` | `NotifierTask_` |
| WorkerThread | first `WorkerThread::GetInstance` | the posted rate commands and `LoadConfig_` |
| idle loop | `RefreshRateTuner::Start` | `IdleLoop_` |
| log writer | `Logger::Create` | `mainLoop_` |

A posted event is a plain call of the subscribers on the posting thread.
Apart from the worker's queue, the logger's queue and `config_`, no member
variable is protected by a lock. A second process, the watchdog, polls the
first. Most of what is hard here is a handler on one thread meeting a handler
on another, and none of it has a test.

### Components, their state, and what makes them correct

| Component | State | Operations | What must hold |
|---|---|---|---|
| WorkerThread (`platform/worker_thread.h`) | `tasks_`, `mtx_`, the local `runTasks` | `AddWork`, `Main_` | each task runs once, in order; no lost wakeup; a fair queue |
| Timer (`utils/CuTimer.h`) | `started_`, `paused_`, `requestStop_` | start, stop, pause, continue, the loop's condition | one loop; a pause holds after one body; stop returns and joins; a continue wakes |
| RefreshRateTuner (`modules/refresh_rate_tuner.cpp`) | config, mode table, two mode ids, `active_`, two key stamps | seven handlers and tasks, the idle loop | the rate shown is the one the policy, the touches and the screen call for |
| InputListener (`modules/input_listener.cpp`) | `touching`, per device | one loop per device | key down and key up alternate |
| FileWatcher (`platform/file_watcher.h`) | `watcherMap_` | `AddWatch`, `WatcherMain_` | every modification reaches its notifier; events never end the process |
| CgroupWatcher (`modules/cgroup_watcher.cpp`) | `screenState_` | Start, `CgroupModified_` | the state remembered ends as that of the screen |
| TopAppMonitor (`modules/topapp_monitor.cpp`) | `topAppPid_`, two timers | `MonitorLoop_`, `NotifierTask_`, `CgroupModified_` | the app known ends as the app on top |
| Logger (`utils/CuLogger.h`) | `logQueue_`, `queueFlushed_` | joining, flushing, `mainLoop_` | lines reach the file once, in order; Flush returns and means something |
| Processes (`main.cpp`) | the processes that bear the name | launch, kill, fork, watchdog | one daemon; no watchdog outlives its daemon |
| Start-up (`CuRefreshRateTuner.cpp`) | `modules_` | `Init_` | it ends; nothing is posted before it can be heard; only an unsuitable phone or file ends the process |
| EventTransfer (`utils/CuEventTransfer.h`) | subscriber table | subscribe, post | an event reaches its subscriber, on the posting thread |
| Singleton (`platform/singleton.h`) | `instance` | `GetInstance` | all callers end with one instance |
| SafeVal (`utils/CuSafeVal.h`) | a value under a mutex | data, assignment | each is one step |
| JSONObject (`utils/CuJSONObject.cpp`) | `data_`, `order_`; the locals of `Parse_Impl_` | parse, print, add, remove, `[]`, `+=`, `+`, clear | a document is read to its pairs, a torn one is refused; `order_` lists the keys of `data_`; printing and parsing are inverse |
| JSONItem, JSONArray (the same file) | a type and a raw pointer; the items of an array | copy, move, assign, box and unbox, search, remove, resize | each array and object has one owner; items are values |
| PairList (`utils/CuPairList.h`) | `keys_`, `values_` | `[]`, `()`, add, three removals, reverse, clear | it answers as a dictionary |
| String helpers (`utils/libcu.h`) | none | splitting, cutting, searching | agreement with a reference definition |
| Format (`utils/CuFormat.h`) | the buffer a text grows in | argument substitution | agreement with a reference definition; up to which length a text stays within its object |
| StringMatcher (`utils/CuStringMatcher.h`) | the keys of its rules | reading rules, matching | agreement with a reference definition |

CuFile and CuSched are I/O. No file of the daemon uses CuStringMatcher.

### How they interact

    input devices --KEY_DOWN/UP--> RefreshRateTuner --AddWork--> WorkerThread --> SurfaceFlinger
    config file --inotify--> FileWatcher --> ConfigModified_ --AddWork--> LoadConfig_
    cpusets --inotify--> FileWatcher --> CgroupWatcher --ScreenStateChanged--> RefreshRateTuner
                                            \--CgroupModified--> TopAppMonitor (continueTimer)
    monitor loop --TopAppChanged--> RefreshRateTuner --AddWork--> WorkerThread
    idle loop (Timer; paused and continued by ScreenStateChanged_) --> SurfaceFlinger

## 2. Modules and plan

| Module | Models | Status |
|---|---|---|
| `TaskQueue` | abstract: a FIFO queue whose head is executed | done |
| `WorkerThread` | WorkerThread; implements `TaskQueue` | done, proved |
| `WorkerThread_proofs` | theorems about it | done |
| `Timer` | CU::Timer | done, proved |
| `Timer_proofs` | theorems about it | done |
| `DisplayModeTable` | `displayModeMap_` as a function, and the lookup of `UpdatePolicy_` | done |
| `DisplayModes` | `RefreshRateTuner::Init_`: the table read from a dump | done |
| `StartUp`, `MCStartUp` | the start of the daemon: DisplayModes, the four `Start` calls, the subscriptions, the singleton, and the threads that run already | done, proved |
| `StartUp_proofs` | theorems about it, the mode table among them, and about `DaemonProcesses` | done |
| `RefreshRateTuner`, `MCRefreshRateTuner` | the tuner composed with the threads that run its code | done, proved with conditions (section 5) |
| `RefreshRateTuner_proofs` | theorems about it | done |
| `FileWatcher` | FileWatcher and the inotify queue | done, proved |
| `FileWatcher_proofs` | theorems about it and about `TopAppMonitor` | done |
| `TopAppMonitor` | CgroupWatcher and TopAppMonitor composed | done, proved |
| `Logger` | CU::Logger; implements `TaskQueue` | done, proved |
| `Logger_proofs` | theorems about it | done |
| `DaemonProcesses` | main.cpp | done, proved |
| `JSONText` | the two parsers, the reading of an item and the printers, as operators | done |
| `Dictionary` | abstract: a partial function that is put to, dropped from and renamed in | done |
| `PairList` | CU::PairList; implements `Dictionary` | done, proved |
| `Containers_proofs` | theorems about it and about `JSONObject` | done |
| `StringHelpers`, `ListHelpers`, `MCHelpers` | splitting, cutting and trimming of strings, searches in a list, as operators | done, but for numbers |
| `Format` | CU::Format and the growth of its buffer, as operators | done, but for floats, pointers and wide types |
| `StringMatcher` | CU::StringMatcher, as operators | done |
| `JSONObject`, `MCJSONObject`, `MCContainers` | an object that is parsed character by character and then used; the run of the sequential libraries | done, the agreement of `order_` and `data_` proved |
| `JSONValues` | abstract: variables that hold trees no other variable shares | done |
| `JSONItems` | items, arrays and objects with their pointers and the heap | done, ownership proved |
| `JSONView`, `MCJSONItems` | what a program sees of them, the refinement of `JSONValues` | done, refinement proved |
| `JSONItems_proofs` | theorems about it | done |

The order was: the worker (everything that changes the rate goes through it)
and its proofs; the timer; the table; the tuner, which composes them; then
the sources of its events; then the log and the process life cycle; then the
parser of the configuration; then the containers and helpers it all rests on;
then the start, which runs into all of them, and the ownership of JSON items.

`RefreshRateTuner` does not instantiate `WorkerThread` and `Timer`: it keeps
the abstraction they justify. The worker is a sequence of tasks taken from the
front (`WorkerThread` implements `TaskQueue`). Of the timer, the steps of
`continueTimer` and of the loop's condition are repeated, because their gap
matters; start and stop are not, as the daemon never stops a timer.

## 3. How the models correspond to the code

One action is one step that another thread can observe: a read or a write of a
shared variable, taking or releasing a mutex, a notification, a command. Where
a thread is stands in a variable of program counters; a local that outlives a
step is a variable too. Configuration texts, apps, tasks and log lines are
members of small sets. PROJECT.json names the lines of each definition.

* A mutex is the name of its holder. `cv_.wait` releases it and blocks in one
  step; `notify_all` moves the threads that are blocked and no others;
  spurious wakeups can happen at any time and are never owed.
* In `RefreshRateTuner` the clock ticks by one; `behind` says by how much it has
  been set back (`SetBack`), and `TimeStamp` is what the system clock then
  shows. A handler reads it and writes its stamp in one step. Differences wrap
  at `Word`, for 2^64. The operands of
  `keyUpTime_ > keyDownTime_` and of `TimeStamp() - keyUpTime_` are read in
  either order, as C++ leaves it open. A command to SurfaceFlinger sets
  `display`. An exception that nothing catches makes the state `Crashed`, in
  which nothing moves.
* `UpdatePolicy_` copies the configuration once (`ReadPolicy`) and writes the
  two ids in two steps. In `TopAppMonitor` only the name it was given is kept.
* The device is reported up or down per listener; a listener whose read fails
  ends without a key up (`Unplug`).
* In `StartUp` main takes one step per call of a `Start` that another thread can
  tell from the next. An event is a step of its own (`Post`) that looks for the
  subscriber and goes on in its handler; the first use of the worker goes
  through the steps of `GetInstance`, whose test, assignment and return read
  `instance` without a lock, so `Reread` may return either value. A worker is
  named after the thread that made it. Each worker's tasks begin and end in two
  steps, as the file is read in the first and `config_` assigned in the second.
  Of a text only what ends the process or tells it from others is kept: does it
  parse, has it the policies, has it `idleDelay`.
* A line of a dump (`ModeLine`) is its record once `StrToInt` has been through
  it; sizes are not negative. Of `displayModeMap_` the tuner assumes what its
  filling leaves (`IsTable`): a rate at least, and at each rate a size at least.
* In `FileWatcher` the inotify queue merges an event with an equal last one
  and ends in an overflow event when full. While an entry is being emplaced, a
  concurrent `at()` may find or miss whatever it looks for: that is the data
  race of the code.
* In `JSONText` a text is a sequence of characters, of which those with a
  meaning of their own have names. The cases of the two `switch` statements are
  the table `Edges` (a character, the state it is read in, the state that
  follows), the counting of brackets (`Count`) and the copying of what stands
  between quotes or brackets (`Keep`). `Enter` is the end of the loop's body,
  where a pair is entered and its value read by another parser. An item is the
  text `toRaw` writes for it. Reading it is a recursive function (`JSONItem`) of
  the texts over `Chars`, and a parser's run one over the positions of its text.
* In `JSONItems` a node is an array or object made by `new`. `Reach` is what the
  destructors of some items delete, `Places` and `Copied` what their copy
  constructors make; a call destroys and copies in one step, with the
  temporaries of the expression. `View`, in `JSONView`, is what a program sees:
  the trees the variables hold, which `JSONValues` has without any nodes. The
  lists of all nodes are computed level by level (`Lists`, a recursive function),
  as deep as there are nodes; `ViewSpec` keeps the view in a variable, which the
  refinement mapping reads.
* `Format` scans a format into items, as `_Format_Impl` does, and then appends
  them; the buffer is its length, its capacity, the bytes allocated and the most
  that a move has copied. What the growth of the items' vector and the list of
  arguments move is looked at before: a text longer than the object that holds it
  makes the result `Undefined`. The sizes are those of a 64-bit build, where a
  string has 56 bytes and an item 64.
  `StringMatcher` has the state of the constructor's loop in a record (`Read`
  is one character), and each character set multiplies the keys
  (`ParseCharsets`).
* In `Logger`, stdio may empty its buffer at any `fputs`; `exit` does; a kill
  loses it.

## 4. Runs

Runs that pass:

| Run | Question | Bounds |
|---|---|---|
| `worker` | each task once and in order, no lost wakeup, a fair queue | 2 threads, 2 tasks each |
| `timer` | what an unlocked `continueTimer` keeps: a pause lets one late body run at most (`PauseHolds`), stop joins the loop and ends, and the only way a loop waits on with `paused_` FALSE is a notification in the gap | 2 callers and the owner, 2 starts |
| `startup` | the table equals its definition by comprehension (`TableMatchesDump`); no touch and no screen state is posted before the tuner has subscribed; only an unsuitable phone or text ends the process; first calls of `GetInstance` that race leave one worker in use; the start ends, and with it the text of the file is loaded | every dump of up to 2 lines, alone; with a usual dump, 8 sequences of up to 3 texts, the screen on or off, and up to 2 key events and 1 moved task |
| `tuner` | `active_` tells what is shown, and the screen ends idle after the last finger, also with a clock that is set back; however far threads lag, the rate goes down only in an iteration that saw the screen untouched; a screen that stays off ends at its idle rate; the last valid text of the file is loaded, one that does not parse keeps the old configuration, and none ends the process | five scenarios: in time, 2 touches and an unplug with a delay of 2, and 2 touches and a clock set back once with a delay of 1; lagging, 2 touches and 1 app change, 3 screen changes, and 2 writes (2 texts and one that does not parse) and 1 touch |
| `watcher` | no modification is lost while its watch lives, though events merge and overflow; only an event handled within `AddWatch`, or an overflow, ends the process | 3 files, 5 changes, buffer of 2, queue of 3 |
| `monitor` | the monitor follows the app on top, thanks to the notifier; `screenState_` follows the screen; while the screen has not been off, the app on top ends with its policy in force, and nothing but another app takes that away; only a notification in the gap makes the monitor sleep on | 2 events among app switch, screen change, failed dumpsys, from Start on |
| `items` | whatever is copied, moved, assigned, boxed, searched or removed, every array and object has one owner and is deleted with it (`OwnedOnce`), and no call changes what another variable holds (`ImplementsValues`) | 2 items, 2 boxes (two arrays, or an array and an object) of up to 2 and 1 elements, 3 nodes at once, 1 scalar |
| `logger` | the log is a queue; the flag covers what it should; Flush returns | 2 threads, 2 lines each, exit and kill |
| `containers` | a document is read to its pairs, whatever blanks and comments stand in it; one of which a part is missing at the end is refused; printing it and reading that gives it back, unless a blank is in a string; `order_` and `data_` keep to the same keys, whatever is added, removed, merged or cleared. And a PairList answers as a dictionary does; the searches choose what they should; tokens and cuts lose nothing of a text but what the code leaves out at its end; a matcher matches what one of its rules does; a format is expanded to itself with the arguments in place; a text appended to stays within its buffer, and one that is moved within its object up to 56 characters and no further | the object: 36 documents of up to 2 pairs and 2 levels, whose keys and strings hold quotes, backslashes, comment signs and line ends, with every one of 9 insertions at every place, every character removed, every prefix: 5933 texts; then 2 calls. The list: 6 interchangeable keys, values 0 to 3, lists of up to 6: 5461 lists of values, each also a text for the helpers, a text of rules, a format, a number and a sequence of calls on the buffer |
| `processes` | one daemon, no orphan watchdog | 2 launches, 1 crash, 5 pids |

The runs that show a disagreement between the code and what the repository says
(section `findings` of PROJECT.json):

| Run | What the trace shows |
|---|---|
| `tuner_app_change` | active command, idle command, idle flag, active flag in an order that leaves the screen at the active rate with `active_` FALSE: the idle loop never tries again |
| `startup_resolution` | two modes of one rate, 4x3 and 2x4: with `resolution: -1` the code takes the greatest key of the rate, which is a side, and so 2x4, though config.json:6 says it is to "automatically match highest resolution" (`HighestResolution`); of two modes that share their longest side it takes the later line |

`containers` holds two components, the JSON object and the pair list with the
helpers, which are sequential and share no state: in `MCContainers` each moves
only while the other is at its start, which leaves out no behaviour of either.

Each passing property has a mutant of a mapped definition that breaks it
(section `mutants` of PROJECT.json; the mutants stand before the definitions
they stand in for, under a comment that begins with "Mutant").

### Why the bounds are enough

Two producers and two tasks give every order of a copy, a clear and an
emplace; a third adds only repetitions. Two starts are needed for a loop to
meet its successor. A delay of one or two ticks and a clock of four to ten let
a stamp fall before, on and after each reading of the clock. Three screen
changes are the first number at which a queued "off" can meet a newer one.
Three files are one more than a read returns, so a read can leave an event
behind, and a queue of three overflows under five changes. Two events of the
outside world let one meet the other at every step of the four threads. Lists
of six pairs have a first, a last and several middle places to remove; texts of
six characters hold two delimiters of two characters with a token before,
between or after them, next to each other, overlapping and at both ends. Four
values are enough for a rule to have a star, a bar, a letter and a set, and for
a format to have both braces, a colon and a digit. Five pids hold a launcher, a
daemon with its watchdog and a child in the making, and one orphan. Three nodes
let an array hold one that holds a third while a temporary copy is made. A
start with three texts lets one be read before, one between and one after the
watch is set; one key pair and one moved task are enough for every pair of
threads to be the first at the worker. In each scenario of `tuner` events end at
`lastEvent`, early enough for the idle loop to settle before `maxTime`; deadlock
is not checked in these runs because all events are bounded and the system then
really stops.

### Fairness

Every thread that can take a step eventually takes one (weak fairness per
thread): the threads are ordinary ones, and only their priorities differ. A
thread that waits for a mutex which is released again and again gets it
(strong fairness of the locking steps). Time passes. No touch, app change,
write, log line, flush, crash, launch or spurious wakeup is owed. In `monitor`
Android moves the processes of a new top app; `TracksScreen` assumes that some
cpuset changes again and again (`WF_vars(OtherTasks)`), which is the only clock
CgroupWatcher has. `FollowsApp` assumes no such thing. A scenario of
`tuner` that is `punctual` is one where a thread with something to do has done
it before the next tick: `SettlesIdle` and `FlagMatchesDisplay` are about those,
and the other properties about all. `StartUp` has the fairness of its threads
alone: nobody saves the file or touches the screen.

### Observations

What else the code does that its documents would not lead one to expect. None
of it is counted as a finding, as no run shows it; each line says how the
modules have it.

* A second `Timer::start()` before the new thread has set `started_` makes a
  second loop (`Timer` with `Disciplined = FALSE`). The daemon never does it.
* `mSupportedModes` records that are indented are all skipped, as that branch
  tests the line before it is trimmed (`IsModeLine`).
* Two touch devices share one pair of stamps, so a finger lifted from one hides
  the finger on the other (`RefreshRateTuner` with two listeners and
  `IdleSawNoTouch`).
* A key up between the reads of the clock and of `keyUpTime_` makes the
  unsigned difference wrap, and the rate goes down at once (`KeyUpDuration`).
* A finger that goes down while the idle loop is turning the rate down finds
  `active_` TRUE, posts nothing and stays at the idle rate (`KeyDownPost`).
* With no touch since the start, an app change leaves the active rate for good:
  `keyUpTime_ > keyDownTime_` is FALSE. So does a touch while the screen is off,
  until it is on again (`CompareKeys`, `PauseTimer`).
* A screen that comes on while the idle loop is turning the rate down can end as
  in `tuner_app_change`: the worker's active command falls between the idle
  command and `active_ = false`, the screen stays at the active rate and the
  loop never tries again (`ResetRefreshRate`, `SetFlag`; hence the scenarios of
  `FlagMatchesDisplay`).
* The two mode ids can come from two policies, as two threads run
  `UpdatePolicy_` (`InstallActive`, `InstallIdle`).
* A reload replaces `config_` but not the mode ids in force (`LoadConfig`). An
  empty file parses, and the next lookup in it ends the process (a
  configuration that is not `Complete`, with `LoadsLast`).
* `continueTimer` holds no mutex, so its notification can be missed: the idle
  loop, or the monitor, then waits for ever (`missed` in `Timer` and
  `TopAppMonitor`).
* A clock set back while a finger is down stamps the key up before the key down,
  and the active rate stays for good; set back before a touch, it stamps the
  finger's key down before the last key up, and the rate goes down while the
  finger rests on the screen (`SetBack`; hence the conditions of
  `IdleSawNoTouch`, `FlagMatchesDisplay` and `SettlesIdle`).
* A text saved after `Start` has read the file and before its watch is set is
  not loaded until the next one (`missedEdit` in `StartUp`), another case of
  README.md:9.
* Two first calls of `GetInstance` that race make two workers; what one of them
  was given already it still runs, so that of two reloads the older may assign
  last (`LoadsLast` of `StartUp` leaves that out).
* A file saved by renaming another onto its path is never noticed again: the
  watch goes with the old file (`Replace`), though README.md:9 of the
  repository speaks of reloading "after modification".
* The parser drops blanks within strings, and with comments enabled starts a
  comment there (`Consume`); a bracket within a string of a nested value counts
  (`Count`). A pair with an empty key, or an empty value, is not entered and
  what was read of it is joined to the next (`Enter`). A number may have
  anything after it (`Number`). Several objects in a row are read as one, and
  the empty text as an empty one (`EndOfText`).
* A key that a text repeats is in `order_` twice and in `data_` once, with its
  first value: after `remove` the object still lists it and `toString` throws
  (`repeated` in `OrderListsData`).
* An app change noticed while the screen is off replaces the screenOff policy
  (`PostTopApp`).
* An app that is still on top when the screen comes on again runs under the
  default policy: `TopAppMonitor::ScreenStateChanged_`, which would forget it
  so that it is posted once more, is never subscribed (`KeepsAppPolicy`
  without its condition on the screen).
* `a += a` of a JSONArray does nothing and `a + a` is a copy of `a`. Arrays and
  objects compare by their pointers, so an item that is one is never found by
  `find` or `remove`; an item moved from keeps its `value_` and can differ from
  another null (`RemoveItem`). Assigning to an item an element of its own tree
  clears the tree before it is copied: `JSONItems` has no such call.
* In a nested value a backslash does not keep a `#` from beginning a comment
  (`Escape`), so that with comments enabled no such value can hold the sign, and
  what `toString` writes of one that was given it cannot be read again.
* A rule of a format that is not closed makes `Format` loop for ever, as 1 is
  added to npos (`Scan`); a length given to an argument cuts it for the rules
  that follow too (`PutItem`); and without arguments the format is returned with
  its braces doubled (`Format`).
* The move constructor of a format's string copies `length` bytes from one
  buffer of 32 to the other, also when the text is on the heap. Up to 56 these
  fall on members that are equal in both strings; more are written outside
  the object (`Move`, `Undefined`). Every argument is moved once, so a longer one
  is enough: main.cpp:64 logs a whole tombstone as an argument, and the message
  of an exception and a path are others.
* A star within a rule (`a*b`) is read as one at its end; an escaped bar still
  separates alternatives; an empty alternative in a group with a star matches
  everything; and an empty set of characters leaves no rule to look at, which the
  loop does all the same (`Read`, `ParseRuleContent`, `ParseCharsets`).
* The `StrSplit` and `StrSplitAt` that take one character leave out the last
  character of a string that does not end in it (`StrSplit`). The overloads of
  `SubPrevStr` differ for a string that is the delimiter. `SubRePrevStr` and
  `SubRePostStr` with a character the string has not run off its front
  (`size_t pos` is never negative). `TrimStr` takes out every blank, not only
  those at the ends.
* Writing through `PairList::operator()` a key that is there already makes it
  stand twice (`SubscriptValue` requires a new one).

## 5. Proofs

`WorkerThread_proofs` proves, for every set of producers and every number of
tasks, from `WorkAssumption` (the worker and the free mark are no producers):

* `TypeCorrect`: `Spec => []TypeOK`, the types of its variables;
* `RunsExactlyOnce`: `Spec => []ExactlyOnce`;
* `NeverLosesWakeup`: `Spec => []NoLostWakeup`;
* `Implements`: `Spec => ImplementsQueue`, the refinement of `TaskQueue`.

None of them is inductive alone. The invariant proved is `TypeOK` with
`LockInv` (a thread is inside its critical section exactly when it holds
`mtx_`), `BatchInv` (between copy and clear `runTasks` equals `tasks_`, and
it is empty while the worker waits or tests) and `CountInv` (what is done
plus what is pending is what was added). `LockInv` is what makes copy and
clear one step for the producers, and what puts the notifying producer in the
way of a lost wakeup. Each action is a lemma; refinement maps `Emplace` to
`Submit`, `RunTask` to `Execute` and every other step to a stutter.

`Containers_proofs` proves of `PairList`, for all keys and values, from
`ListAssumption` (the default is a value):

* `ListTypeCorrect`: `ListSpec => []ListTypeOK`: the two vectors have one length
  and no key stands twice in `keys_`. This is inductive as it stands;
* `ListImplements`: `ListSpec => ImplementsDictionary`.

That `std::find` has a position to return (`PositionIsFirst`) needs the least of
a set of positions; it comes from the well-founded order of the finite sets of
positions they end, as an induction over the sequence is out of the prover's
reach. Each way to move pairs (append, erase, reverse, assign) has a lemma that
says where every pair goes, in both vectors; `MapAfter` turns such a lemma into
the dictionary's next value, and `NextDictionary` has one step per call.

And of `JSONObject`, for any texts, keys and values of calls, number of calls and
other object, from `ObjectAssumption` (texts, keys and values are sequences of
`Chars`, and the other object lists no key twice):

* `OrderAndDataAgree`: `Spec => []OrderListsData`.

The invariant `ObjectInv` has two parts. `Parsing` is about the parser: what it
has entered are pairs with a key that is not empty, its place is one up to the
end, and while it is in a nested value it has counted at least one open bracket
and no more than it has read of that value; each rule for a character has a lemma
(`CountKeeps` to `ConsumeKeeps`). `AgreeInv` is about the calls: unless the text
has repeated a key, `order_` lists the keys of `data_`, each once. Adding and
removing one key are `AddAgrees` and `RemoveAgrees`. Merging adds the keys of
another object one after the other (`Merged`, a recursive function). That it ends
in agreement (`MergedAgrees`), and that there is such a function at all
(`AddingExists`), is shown with a least number of keys at which it would not be so
(`LeastNumber`), as an induction is out of reach.

`Logger_proofs`, for any producers and number of lines, from `LogAssumption`:

* `FlagMeansInFile`: `Spec => []FlushedIsInFile`;
* `NeverSleepsOnLines`: the writer waits with lines queued only for a producer
  that is about to notify it (`SleepInv`, which no run checks by itself);
* `Implements`: `Spec => ImplementsQueue`, through the copy of the queue, the
  buffer of stdio, exit and kill.

The invariant is `TypeOK` with `JoinInv` (a producer is between its lock and its
unlock exactly when it holds `mtx_`), `TurnInv` (between two turns the writer
has nothing in hand and nothing in stdio's buffer), `OrderInv` (file, buffer,
`writeQueue` and `logQueue_` are, in a row, what was joined), `FlagInv` and
`SleepInv`. `TurnInv` is why the flag can be set from `logQueue_` alone.

`Timer_proofs`, for any callers and number of starts, from `TimerAssumption`:

* `OnlyGapMisses`: `Spec => []OnlyGapMissesContinue`, from `GapInv`, which says
  the same of a loop on its way into the wait, too;
* `OneLoopRuns`, `PausesHold`, `StopsJoin`: `OneLoop`, `PauseHolds` and
  `StopJoins`, for an owner that is `Disciplined`. That is how the daemon uses
  its timers (it starts each once and stops none), and without it two loops may
  run (section 4, Observations). `OneLoop` says that `started_` is set exactly
  from the first step of the one loop to its last; `StopInv` that stop() is in
  its join only with that loop, and `LateInv` that the body a pause came too late
  for is the last before the loop tests `paused_` again.

`FileWatcher_proofs`, for any paths, any buffer and queue and any number of
changes, from `WatcherAssumption`:

* `ChangesHaveEvents`: `Spec => []ChangeHasEvent`;
* `OnlyAddWatchKills`: `Spec => []OnlyAddingKills`.

The invariant: a watch, and each event of it, has its notifier in
`watcherMap_`, or `AddWatch` is just entering it (`EntryInv`); a path that
changed has an event to come, its own or the overflow (`EventInv`); the last
place of the queue is the overflow's (`FullInv`); and what ended the process was
an `AddWatch` or an overflow (`EndInv`).

In the same module, of `TopAppMonitor`, for any apps and number of events, from
`MonitorAssumption`:

* `MonitorTypeCorrect`: `MonitorSpec => []MonitorTypeOK`; in particular the -1 of
  a failed look is never posted (`ThreadInv`);
* `OnlyGapStopsMonitor`: `MonitorSpec => []MonitorWakes`, what `FollowsApp` owes
  its condition `[]~missed` to;
* `AppKeepsPolicy`: `MonitorSpec => KeepsAppPolicy`. While the screen is on, every
  thread has "on" in hand, so the watcher never gets to post (`ScreenOnInv`), and
  until main has posted the state there is no monitor (`StartInv`).

`RefreshRateTuner_proofs`, for any table, configurations and scenarios, from
`TunerAssumption` and `TableAssumption`:

* `TypeCorrect`: `Spec => []TypeInv`, the types of all variables by thread and
  place (`PlaceInv`, `ArgInv`, `ClockInv`, `ReadsInv`). That ids stay ids needs
  that a lookup finds one whatever is asked (`FindsMode`);
* `IdleNeverMissesTouch`: `Spec => []IdleSawNoTouch` for one touch device, with
  threads that may lag without bound. Two share one pair of stamps, and then it
  is not so (Observations). The invariant says how the four reads of the loop,
  in either order, lie to the stamps of a finger that has been down since before
  the first of them (`KeyInv`, `SawInv`);
* `FlagTellsDisplay`: `Spec => []FlagMatchesDisplay` for any number of devices,
  where the scenarios in time (`punctual`) have touches, unplugged devices,
  texts and a clock set back, but neither app changes nor screen events (`Calm`).
  With either it is not so: the run `tuner_app_change` and the Observation on
  the screen that comes on show the two setters in each other's way.
  `TouchInv` is the argument: while a key down has a command posted the clock
  stands still, so the loop takes it for later than any key up and does not
  set a rate; `ShowInv` then follows `active_` through the two setters.

`StartUp_proofs`, for any devices and any records of `Starts`, from
`StartAssumption`:

* `NoEventTooEarly`: `Spec => []NothingUnheard`. Until the tuner has subscribed
  no thread but main runs (`StartInv`): the order of the modules is all there is;
* `LostWorkersStayLost`: `Spec => WorkerSettles`, an action property, for any
  number of threads that race through `GetInstance`;
* `OnlyTextsEnd`: `Spec => []OnlyBadTextEnds`, from `WorkInv` (a thread past the
  creation of a worker holds one) and `ConfigInv` (`config_`, and every text a
  worker is about to assign, is one that the file has held and that parsed);
* `TableIsTheDump`: `Spec => []TableMatchesDump`, for a dump of any length. The
  invariant `TableInv` has, next to `LastLineWins`, that both sides of every mode
  are in the row of its rate and that each row has a longest side (`RowInv`),
  without which the lookup of `resolution: -1` would choose from nothing. The
  property says longest side, as the code does; `HighestResolution`, what
  config.json says, is not so.

At its end, about `DaemonProcesses`, the other part of `main`, from
`ProcessAssumption`: `AtMostOneDaemon`, that is `ProcessSpec => []OneDaemon`,
where launches follow one another and no pid is above
the limit `KillOldDaemon` looks at. Both are conditions the code takes for
granted; the hazards name them. A scan has every daemon there is still before
it (`ScanInv`), as what forks meanwhile is a watchdog and no daemon.

`JSONItems_proofs`, for any variables, boxes, lengths and nodes, from
`ItemAssumption`: `OneOwner`, that is `Spec => []OwnedOnce`. The invariant is
that the pointers make a forest (`Forest`): no two variables own one node
(`RootInv`), no two elements of nodes do, no element owns what a variable does,
and every node is got at from a variable. It needs no recursion: what
a destructor gets at is the least set that holds what the variable owns and is
closed (`FromLeast`), so a statement about all of it is proved by giving a closed
set. Two lemmas carry the calls: `ForestSplits` (what
some roots get at is apart from what the others do, so a destructor leaves alone
what the other variables need) and `ForestChange` (destroying what some
roots own while what others get at is copied to new places leaves a forest,
also where the one contains the other, as in `b = x.toArray()` or `x = b[0]`). Every
call that changes an element in its place destroys what was there (`HeldReplace`,
`HeldErase`, `HeldCut`).

`ValuesImplemented`, that is `ViewSpec => ImplementsValues`, rests on the same
invariant: every call, seen through the view, is the call `JSONValues` has for
it, or changes nothing when it throws. `ItemAssumption` lets there be finitely
many nodes and says that a scalar is a record of its type and value. The argument
has four steps:

* a forest has no cycle (`ForestHasNoCycle`), so its finitely many nodes can be
  numbered such that the kids of a node come before it (`ForestRanked`);
* a list of trees is complete at the depth of its node's number, hence `Lists`
  has reached a fixpoint at depth `Cardinality(Nodes)` (`LevelsEnd`): the list of
  a node is that of the trees of its elements (`NowTrees`);
* two heaps give matching nodes the same lists (`MatchingNodes`): a mismatch would
  have one with a least number, whose elements match. This is what stands in for
  the induction over the depth of a tree, with `LeastNumber` from the well-founded
  order of finite sets. A node that a call keeps matches itself, a copy matches
  its original (`CallTrees`), though `b = x.toArray()` deletes the original in
  the same step;
* then one lemma per call (`AssignScalarSeen` to `ResizeSeen`), which `NextSeen`
  puts together.

`RemoveItemSeen` needs `RootInv` for more than the heap: the search compares the
raw pointers, and an array is never found by an item because no element of a box
shares the node a variable owns.

TLC has checked these invariants on the instances of the runs before they were
proved. The proofs changed the models in eight places. One was a mistake:
`Merged` of `JSONObject` had looked for each key in the data as they were before
the merge, where the code looks in the data as merged so far, and so listed
twice a key that the merged order repeats. The others do not change what the
models do: `SetMode` builds the table by comprehension (`Put`), `IsDump` says
what a line is, `TableAssumption` says of the tuner's table what `Init_` leaves,
`Position` of `JSONItems` is a union instead of a maximum, `JSONView` gives the
lists, and `JSONText` the parser's run and what it reads, by recursive functions
instead of operators, and `OneDaemon` compares daemons instead of counting them.

Only model-checked:

* liveness (every property with `~>` or `<>`) and what needs `ENABLED`, which
  are out of the prover's reach;
* what a recursive definition computes for every input, which would need an
  induction over data: what a document is read to and which texts are refused
  (`ReadsDocuments`, `TornReadFails`), that printing and parsing are inverse
  (`RoundTrip`), and what `Format`, `StringHelpers`, `ListHelpers` and
  `StringMatcher` return (`HelpersAgree`, `FormatExpands`).

## 6. Not modelled

CuFile and CuSched: reading and writing files, priorities, thread names and
affinity, which are I/O. Log levels and wording; how a dump, a cpuset or a
device is read and parsed into the values the models start from; the tombstone
search of the watchdog; `Timer::SingleShot`, `EventTransfer::Unsubscribe` and
the comparison of two `SafeVal`s, which nothing uses. Of the helpers, what has
to do with floating point, wide strings and hashes, and the list helpers that
nothing uses (`Trim`, `Sum`, `Average`). `TopAppMonitor::ScreenStateChanged_` is
dead code and takes no part.
