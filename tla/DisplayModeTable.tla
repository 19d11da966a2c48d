--------------------------- MODULE DisplayModeTable --------------------------
(***************************************************************************)
(* displayModeMap_ of RefreshRateTuner: frame rate -> (pixels -> display   *)
(* mode id), where pixels is the width or the height of the mode; and the  *)
(* lookup UpdatePolicy_ makes in it.                                       *)
(***************************************************************************)
EXTENDS Integers, FiniteSets, FiniteSetsExt, TLC

\* A list of pairs with something in it, so that its keys have a greatest.
Filled(map) ==
    DOMAIN map \subseteq Int /\ IsFiniteSet(DOMAIN map) /\ DOMAIN map # {}

\* What the type of displayModeMap_ and its filling through [rate][pixels] allow.
IsTable(table) ==
    Filled(table) /\ \A rate \in DOMAIN table : Filled(table[rate])

EmptyTable == <<>>

\* Mutant: emplace, which keeps an entry that is already there.
EmplaceMode(table, rate, pixels, id) ==
    LET row == IF rate \in DOMAIN table THEN table[rate] ELSE <<>>
    IN  (rate :> (row @@ (pixels :> id))) @@ table

\* map[key] = value: an entry that is there is overwritten.
Put(map, key, value) ==
    [k \in DOMAIN map \cup {key} |-> IF k = key THEN value ELSE map[k]]

\* displayModeMap_[rate][pixels] = id: both levels are created when absent.
SetMode(table, rate, pixels, id) ==
    LET row == IF rate \in DOMAIN table THEN table[rate] ELSE <<>>
    IN  Put(table, rate, Put(row, pixels, id))

\* findDisplayModeId: a rate or a resolution the table lacks is replaced by
\* the greatest one it has.
FindRate(table, rate) ==
    IF rate \in DOMAIN table THEN rate ELSE Max(DOMAIN table)

FindPixels(row, pixels) ==
    IF pixels \in DOMAIN row THEN pixels ELSE Max(DOMAIN row)

FindDisplayModeId(table, rate, pixels) ==
    LET row == table[FindRate(table, rate)]
    IN  row[FindPixels(row, pixels)]
==============================================================================
