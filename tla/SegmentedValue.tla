--------------------------- MODULE SegmentedValue ---------------------------
(***************************************************************************)
(* What an index of segments promises, with no segments in it.             *)
(*                                                                         *)
(* The value is everything that was ever recorded, joined; it only grows.  *)
(* A read asks for a range of keys and is answered with exactly what the   *)
(* value held in that range when it asked, or with an error; merging and   *)
(* sweeping show in no answer.                                             *)
(***************************************************************************)
EXTENDS Naturals

CONSTANTS
    Writes,     \* what is recorded: one value a push or a gather lists
    Value,      \* write -> the facts it records
    KeyOf,      \* fact -> the key it is about
    Ranges,     \* the ranges reads ask for, [first, last]
    Readers     \* reads

VARIABLES
    value,      \* every fact recorded so far
    reading     \* per reader: where it is, and what it has been promised

InRange(facts, K) == {f \in facts : K.first <= KeyOf[f] /\ KeyOf[f] <= K.last}

Init ==
    /\ value = {}
    /\ reading = [r \in Readers |-> [at |-> "idle", facts |-> {}]]

Record ==
    /\ \E w \in Writes : value' = value \union Value[w]
    /\ UNCHANGED reading

Ask(r) ==
    /\ reading[r].at = "idle"
    /\ \E K \in Ranges :
         reading' = [reading EXCEPT ![r] = [at |-> "asked", facts |-> InRange(value, K)]]
    /\ UNCHANGED value

\* The answer is what was promised.
Answer(r) ==
    /\ reading[r].at = "asked"
    /\ reading' = [reading EXCEPT ![r] = [at |-> "answered", facts |-> reading[r].facts]]
    /\ UNCHANGED value

Refuse(r) ==
    /\ reading[r].at = "asked"
    /\ reading' = [reading EXCEPT ![r] = [at |-> "idle", facts |-> {}]]
    /\ UNCHANGED value

Forget(r) ==
    /\ reading[r].at = "answered"
    /\ reading' = [reading EXCEPT ![r] = [at |-> "idle", facts |-> {}]]
    /\ UNCHANGED value

Next == Record \/ \E r \in Readers : Ask(r) \/ Answer(r) \/ Refuse(r) \/ Forget(r)

Spec == Init /\ [][Next]_<<value, reading>>
=============================================================================
