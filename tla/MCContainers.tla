----------------------------- MODULE MCContainers ----------------------------
(* The sequential libraries in one run: a JSON object that is parsed and    *)
(* used, and a pair list with the helpers compared on its values.  They     *)
(* share no state, so each moves only while the other is at its start.      *)
EXTENDS MCJSONObject, PairList

Helpers == INSTANCE MCHelpers

KeySymmetry == Permutations(Keys)

\* The start at which the object stays while the list moves.
Unread == text = <<"{", "}">> /\ parser.pos = 1 /\ phase = "parsing"

ContainersNext ==
    \/ keys = <<>> /\ Next /\ UNCHANGED listVars
    \/ Unread /\ ListNext /\ UNCHANGED vars

ContainersInit == Init /\ ListInit

ContainersSpec == ContainersInit /\ [][ContainersNext]_<<vars, listVars>>

\* What MCHelpers says of the helpers of libcu and the matcher, and of Format:
\* they return what their reference definitions do, on the list's values.
HelpersAgree == Unread => Helpers!HelpersAgree
FormatExpands == Unread => Helpers!FormatExpands
==============================================================================
