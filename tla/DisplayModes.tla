----------------------------- MODULE DisplayModes ----------------------------
(***************************************************************************)
(* RefreshRateTuner::Init_ (modules/refresh_rate_tuner.cpp): the display   *)
(* mode table read from the output of "dumpsys display".                   *)
(*                                                                         *)
(* A dump has one of two formats or neither; a line is its mode record     *)
(* with the digits already converted, and whether it is indented.          *)
(***************************************************************************)
EXTENDS DisplayModeTable, Sequences

\* What a line says, in the numbers StrToInt makes of it; sizes are not negative.
ModeLine ==
    [prefix : STRING, indented : BOOLEAN, id : Int, width : Nat, height : Nat,
     rate : Int, peak : Int]

IsDump(d) ==
    /\ d.format \in {"mSfDisplayModes", "mSupportedModes", "none"}
    /\ d.lines \in Seq(ModeLine)

VARIABLES
    dump,            \* displayInfo
    next,            \* how many lines the loops have read
    displayModeMap   \* displayModeMap_

dumpVars == <<dump, next, displayModeMap>>

DumpInit(displayInfo) ==
    /\ dump = displayInfo
    /\ next = 0
    /\ displayModeMap = EmptyTable

\* The record a line holds for its format.  The mSfDisplayModes branch tests
\* the trimmed line, the mSupportedModes branch the line as it is.
IsModeLine(line) ==
    /\ line.prefix = dump.format
    /\ dump.format = "mSupportedModes" => ~line.indented

\* DisplayMode{} prints ids as they are and may call its rate peakRefreshRate;
\* DisplayModeRecord{} counts its ids from one.
LineId(line) ==
    IF dump.format = "mSfDisplayModes" THEN line.id ELSE line.id - 1

LineRate(line) ==
    IF dump.format = "mSfDisplayModes" /\ line.rate = 0 THEN line.peak ELSE line.rate

AddMode(table, line) ==
    SetMode(SetMode(table, LineRate(line), line.width, LineId(line)),
            LineRate(line), line.height, LineId(line))

Unsupported == dump.format = "none"

DumpRead == next = Len(dump.lines)

ReadLine ==
    /\ ~DumpRead
    /\ next' = next + 1
    /\ displayModeMap' =
         IF IsModeLine(dump.lines[next'])
           THEN AddMode(displayModeMap, dump.lines[next'])
           ELSE displayModeMap
    /\ UNCHANGED dump

------------------------------------------------------------------------------
Modes == {dump.lines[i] : i \in {j \in 1..next : IsModeLine(dump.lines[j])}}

\* The table against its definition by comprehension: a pixel count leads to
\* the last mode line that has it, as its width or as its height, at the rate.
LastLineWins ==
    \A rate \in DOMAIN displayModeMap : \A px \in DOMAIN displayModeMap[rate] :
        LET Has(i) ==
              LET line == dump.lines[i]
              IN  IsModeLine(line) /\ LineRate(line) = rate /\ px \in {line.width, line.height}
        IN  \E i \in 1..next :
              /\ Has(i) /\ \A j \in (i + 1)..next : ~Has(j)
              /\ displayModeMap[rate][px] = LineId(dump.lines[i])

\* A rate the panel has is never traded for another one, and "resolution": -1
\* leads to a mode of that rate with the longest side there is at that rate:
\* findDisplayModeId takes the greatest key, and the keys are sides.
MatchesLongestSide ==
    \A m \in Modes : \E best \in Modes :
        /\ LineRate(best) = LineRate(m)
        /\ Max({best.width, best.height}) >= Max({m.width, m.height})
        /\ LineId(best) = FindDisplayModeId(displayModeMap, LineRate(m), -1)

\* The table holds what the dump says, and the lookup finds it.
TableMatchesDump ==
    /\ next \in 0..Len(dump.lines)
    /\ DOMAIN displayModeMap = {LineRate(m) : m \in Modes}
    /\ LastLineWins /\ MatchesLongestSide

\* What config.json:6 says of "resolution": "When set to -1, automatically match
\* highest resolution": of the modes of a rate the one with the most pixels.
HighestResolution ==
    DumpRead =>
        \A m \in Modes : \E best \in Modes :
            /\ LineRate(best) = LineRate(m)
            /\ LineId(best) = FindDisplayModeId(displayModeMap, LineRate(m), -1)
            /\ best.width * best.height >= m.width * m.height
==============================================================================
