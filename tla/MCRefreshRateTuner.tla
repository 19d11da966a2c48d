------------------------- MODULE MCRefreshRateTuner --------------------------
(* A panel with a 60 Hz and a 120 Hz mode and policies that use both.       *)
EXTENDS RefreshRateTuner

MCTable == (60 :> (1080 :> 1 @@ 2400 :> 1)) @@ (120 :> (1080 :> 2 @@ 2400 :> 2))

Policy(activeRate, idleRate) ==
    [active |-> activeRate, idle |-> idleRate, resolution |-> -1]

\* As in the config.json that is shipped, with "game" for the package.
Shipped ==
    [idleDelay |-> 2,
     policy |-> ("*" :> Policy(120, 60)) @@ ("screenOff" :> Policy(60, 60))
                @@ ("game" :> Policy(60, 60))]

\* An edited copy: slower when active, a shorter delay, no package policy.
Edited ==
    [idleDelay |-> 1,
     policy |-> ("*" :> Policy(60, 60)) @@ ("screenOff" :> Policy(60, 60))]

\* The shipped configuration with the shortest delay.
Quick == [Shipped EXCEPT !.idleDelay = 1]

MCConfigs == {Shipped, Quick, Edited}

NoEvents == [kind \in EventKind |-> 0]

Prompt(events, first) ==
    [first |-> first, edits |-> {}, punctual |-> TRUE, budget |-> events,
     maxTime |-> 10, lastEvent |-> 4]

Lagging(events) ==
    [first |-> Quick, edits |-> {Quick, Edited}, punctual |-> FALSE, budget |-> events,
     maxTime |-> 3, lastEvent |-> 3]

\* Touches, which the idle loop is to answer in time, a panel that is unplugged,
\* and a clock that is set back; and, with threads that lag, touches with an app
\* change, the screen alone, and edits of the configuration with a touch.
MCScenarios ==
    {Prompt([NoEvents EXCEPT !.touch = 2, !.unplug = 1], Shipped),
     Prompt([NoEvents EXCEPT !.touch = 2, !.clock = 1], Quick),
     Lagging([NoEvents EXCEPT !.touch = 2, !.app = 1]),
     Lagging([NoEvents EXCEPT !.screen = 3]),
     Lagging([NoEvents EXCEPT !.touch = 1, !.write = 2])}

\* Touches with an app change, in time.
AppChange == {Prompt([NoEvents EXCEPT !.touch = 2, !.app = 1], Quick)}
==============================================================================
