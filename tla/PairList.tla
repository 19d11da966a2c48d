------------------------------- MODULE PairList ------------------------------
(***************************************************************************)
(* CU::PairList (utils/CuPairList.h), of which displayModeMap_ is made:    *)
(* two vectors, keys_ and values_, in which the pair of a key is found by  *)
(* its position.  A call that throws changes nothing and is no action.     *)
(***************************************************************************)
EXTENDS Integers, SequencesExt

CONSTANTS
    Keys, Values,
    Default,  \* the value emplace_back() constructs
    MaxSize   \* bound: the size at which no pair is added any more

ASSUME ListAssumption == Default \in Values /\ MaxSize \in Nat

VARIABLES keys, values  \* keys_ and values_

listVars == <<keys, values>>

ListInit == keys = <<>> /\ values = <<>>

\* std::find, for an element that is there.
Position(seq, e) ==
    CHOOSE i \in DOMAIN seq : seq[i] = e /\ \A j \in 1..(i - 1) : seq[j] # e

\* operator[], and the value assigned to the reference it returns.
SubscriptKey(key, value) ==
    IF Contains(keys, key)
      THEN /\ values' = [values EXCEPT ![Position(keys, key)] = value]
           /\ UNCHANGED keys
      ELSE /\ Len(keys) < MaxSize
           /\ keys' = Append(keys, key)
           /\ values' = [Append(values, Default) EXCEPT ![Len(values) + 1] = value]

\* operator(), and the key assigned to the reference; it must be a new one.
SubscriptValue(value, key) ==
    /\ Contains(values, value) /\ ~Contains(keys, key)
    /\ keys' = [keys EXCEPT ![Position(values, value)] = key]
    /\ UNCHANGED values

AddPair(key, value) ==
    /\ ~Contains(keys, key) /\ Len(keys) < MaxSize
    /\ keys' = Append(keys, key)
    /\ values' = Append(values, value)

\* remove, at an iterator of this list.
RemovePair(i) ==
    /\ keys' = RemoveAt(keys, i)
    /\ values' = RemoveAt(values, i)

\* Mutant: the value erased is the last one.
RemoveKeyPopValue(key) ==
    /\ Contains(keys, key)
    /\ keys' = RemoveAt(keys, Position(keys, key))
    /\ values' = Front(values)

RemoveKey(key) ==
    /\ Contains(keys, key)
    /\ RemovePair(Position(keys, key))

\* Mutant: the key stays.
RemoveValueAlone(value) ==
    /\ Contains(values, value)
    /\ values' = RemoveAt(values, Position(values, value))
    /\ UNCHANGED keys

RemoveValue(value) ==
    /\ Contains(values, value)
    /\ RemovePair(Position(values, value))

ReversePairs ==
    /\ keys' = Reverse(keys)
    /\ values' = Reverse(values)

ClearPairs == keys' = <<>> /\ values' = <<>>

ListNext ==
    \/ \E key \in Keys, value \in Values :
         SubscriptKey(key, value) \/ SubscriptValue(value, key) \/ AddPair(key, value)
    \/ \E key \in Keys : RemoveKey(key)
    \/ \E value \in Values : RemoveValue(value)
    \/ \E i \in DOMAIN keys : RemovePair(i)
    \/ ReversePairs \/ ClearPairs

ListSpec == ListInit /\ [][ListNext]_listVars

------------------------------------------------------------------------------
\* Each key has one place, and a value in the same place of the other vector.
ListTypeOK ==
    /\ keys \in Seq(Keys) /\ values \in Seq(Values)
    /\ Len(keys) = Len(values)
    /\ \A i, j \in 1..Len(keys) : keys[i] = keys[j] => i = j

\* atKey(key) for every key: the function the two vectors stand for.
Map == [key \in {keys[i] : i \in 1..Len(keys)} |-> values[Position(keys, key)]]

Abstract == INSTANCE Dictionary WITH map <- Map

\* However pairs are added, renamed, removed from the middle and reversed,
\* lookups by key answer as a dictionary would.
ImplementsDictionary == Abstract!Spec
==============================================================================
