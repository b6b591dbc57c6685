------------------------------ MODULE ReadRange ------------------------------
(***************************************************************************)
(* What a bounded range client promises its caller: one answer, which is   *)
(* the interval that was asked for, all of it and nothing else, or a       *)
(* failure.  RemoteHeader's Fetch relies on it.                            *)
(***************************************************************************)
EXTENDS Integers

CONSTANTS None, Failed

VARIABLES wanted, answer

Interval == [first : Nat, last : Int]

Init == wanted \in Interval /\ answer = None

Return == answer = None /\ answer' = wanted /\ UNCHANGED wanted

Fail == answer = None /\ answer' = Failed /\ UNCHANGED wanted

Next == Return \/ Fail

Spec == Init /\ [][Next]_<<wanted, answer>>
=============================================================================
