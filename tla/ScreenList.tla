----------------------------- MODULE ScreenList -----------------------------
(***************************************************************************)
(* What the Order of a Device promises: its Screens stand in one list.     *)
(* Adding puts a Screen last, deleting takes it out and leaves the others  *)
(* in their sequence, and reordering is the only thing that moves them.    *)
(***************************************************************************)
EXTENDS Sequences, Functions, Naturals, FiniteSets

CONSTANT Screens

VARIABLE list

Lists == {l \in UNION {[1..n -> Screens] : n \in 0..Cardinality(Screens)} : IsInjective(l)}

Init == list \in Lists

Add(s) == s \notin Range(list) /\ list' = Append(list, s)
Without(i) == [j \in 1..(Len(list) - 1) |-> IF j < i THEN list[j] ELSE list[j + 1]]
Remove(s) == \E i \in DOMAIN list : list[i] = s /\ list' = Without(i)
Reorder == list' \in Bijection(DOMAIN list, Range(list))

Next == (\E s \in Screens : Add(s) \/ Remove(s)) \/ Reorder

Spec == Init /\ [][Next]_list
=============================================================================
