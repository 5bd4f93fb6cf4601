------------------------------- MODULE FifoLock -------------------------------
(***************************************************************************)
(* What OneAtATime promises its callers: "Work run one at a time per key:  *)
(* each run waits until the key's earlier work has settled.  Keys run      *)
(* independently."  One line of runs per key, whose first alone works.     *)
(***************************************************************************)
EXTENDS Sequences

CONSTANTS Runs, Keys

VARIABLES
  line,      \* each key's runs, in the order in which they asked
  working    \* the runs whose work has begun and has not settled

lockVars == <<line, working>>

Lined == UNION {{line[k][i] : i \in DOMAIN line[k]} : k \in Keys}

Init == line = [k \in Keys |-> <<>>] /\ working = {}

Join(r, k) ==
  /\ r \notin Lined
  /\ line' = [line EXCEPT ![k] = Append(@, r)]
  /\ UNCHANGED working

Begin(r, k) ==
  /\ line[k] # <<>> /\ r = Head(line[k])
  /\ r \notin working
  /\ working' = working \cup {r}
  /\ UNCHANGED line

Finish(r, k) ==
  /\ r \in working
  /\ line[k] # <<>> /\ r = Head(line[k])
  /\ line' = [line EXCEPT ![k] = Tail(@)]
  /\ working' = working \ {r}

Next == \E r \in Runs, k \in Keys : Join(r, k) \/ Begin(r, k) \/ Finish(r, k)

Spec == Init /\ [][Next]_lockVars
===============================================================================
