------------------------------ MODULE Rotation ------------------------------
(***************************************************************************)
(* Which Screen a Device's Rotation turns to: the pure choice shared by    *)
(* the /display poll and by the Screen States the admin UI reads           *)
(* (schedule/rotation.ts).  A Device's Screens come as a sequence `list`   *)
(* in Order; `active` holds the ones marked isActive, and `passed` the     *)
(* ones Rotation passes over at the moment in question: a Schedule shuts   *)
(* them out, or they carry a remembered `skip` Render Signal.              *)
(***************************************************************************)
EXTENDS Integers, Sequences, FiniteSets, FiniteSetsExt, Functions

CONSTANT NoScreen        \* null: no Picked Screen, or no Screen to turn to

-----------------------------------------------------------------------------
\* The Screens of S listed by their Order number, as `ORDER BY "order"` may
\* answer: Screens that share a number come in any sequence.
InOrder(S, order) ==
  {list \in [1..Cardinality(S) -> S] :
     \A i, j \in 1..Cardinality(S) :
        i < j => list[i] # list[j] /\ order[list[i]] <= order[list[j]]}

\* isPassedOver, for every Screen at once
PassedOver(scheduleShuts, skipping) == scheduleShuts \cup skipping

\* The position of the first Screen marked active, 0 when there is none
ActiveIndex(list, active) ==
  LET positions == {i \in DOMAIN list : list[i] \in active}
  IN  IF positions = {} THEN 0 ELSE Min(positions)

\* Slip: a scan that starts at the Active Screen instead of after it
ScannedFromActive(list, active, offset) ==
  list[((ActiveIndex(list, active) + offset + Len(list) - 1) % Len(list)) + 1]

\* The Screen `offset` places into the scan, which starts after the Active
\* Screen and wraps past the end of the Order
Scanned(list, active, offset) ==
  list[((ActiveIndex(list, active) + offset) % Len(list)) + 1]

\* The first Screen of the scan that Rotation does not pass over
FirstInScan(list, active, passed) ==
  LET eligible == {k \in 0..(Len(list) - 1) : Scanned(list, active, k) \notin passed}
  IN  IF eligible = {} THEN NoScreen ELSE Scanned(list, active, Min(eligible))

\* Whether the Active Screen keeps its turn: a timer poll under Manual
\* Rotation whose Active Screen is not passed over
KeepsTurn(list, active, passed, stayOnActive) ==
  /\ stayOnActive
  /\ ActiveIndex(list, active) # 0
  /\ list[ActiveIndex(list, active)] \notin passed

\* Slip: a choice that forgets the Picked Screen
NextWithoutPick(list, active, passed, picked, stayOnActive) ==
  IF KeepsTurn(list, active, passed, stayOnActive)
  THEN list[ActiveIndex(list, active)]
  ELSE FirstInScan(list, active, passed)

\* The Picked Screen first, then the Active Screen that keeps its turn, then
\* the scan
NextEligibleScreen(list, active, passed, picked, stayOnActive) ==
  IF picked \in Range(list) \ passed
  THEN picked
  ELSE IF KeepsTurn(list, active, passed, stayOnActive)
  THEN list[ActiveIndex(list, active)]
  ELSE FirstInScan(list, active, passed)
=============================================================================
