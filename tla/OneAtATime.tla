------------------------------ MODULE OneAtATime ------------------------------
(***************************************************************************)
(* utils/oneAtATime.ts: a chain of promises per key.  The map holds, for a *)
(* key, the promise of the last run that asked; a run awaits the promise   *)
(* it found there, and takes its own away when it is still the last.       *)
(* WebhookIngest and OAuthToken queue their handlers with it.              *)
(***************************************************************************)
EXTENDS Integers, Sequences, FiniteSets

CONSTANTS
  Runs,       \* calls of run() that may be under way at the same time
  Keys,
  NoKey,      \* the undefined key: run straight away
  NoRun

ASSUME OneAtATimeAssumption == NoKey \notin Keys /\ NoRun \notin Runs

VARIABLES
  tail,       \* locks: the run whose settled promise a key's entry is, or NoRun
  after,      \* the run whose promise a run's work is chained to, NoRun once it is settled
  key,        \* the key a run was called with
  pc,         \* idle, waiting, working, or settled and not yet past its finally
  line        \* history: each key's runs in the order of their calls, until they settle

vars == <<tail, after, key, pc, line>>

-----------------------------------------------------------------------------
Init ==
  /\ tail = [k \in Keys |-> NoRun]
  /\ after = [r \in Runs |-> NoRun]
  /\ key = [r \in Runs |-> NoKey]
  /\ pc = [r \in Runs |-> "idle"]
  /\ line = [k \in Keys |-> <<>>]

\* run() without a key
CallUnkeyed(r) ==
  /\ pc[r] = "idle"
  /\ key' = [key EXCEPT ![r] = NoKey]
  /\ pc' = [pc EXCEPT ![r] = "waiting"]
  /\ UNCHANGED <<tail, after, line>>

\* (locks.get(key) ?? Promise.resolve()): a promise that has settled is not waited for
Awaited(k) == IF tail[k] # NoRun /\ pc[tail[k]] # "settled" THEN tail[k] ELSE NoRun

\* run(), up to its await: no other run is between the get and the set
Call(r, k) ==
  /\ pc[r] = "idle"
  /\ after' = [after EXCEPT ![r] = Awaited(k)]
  /\ tail' = [tail EXCEPT ![k] = r]
  /\ key' = [key EXCEPT ![r] = k]
  /\ pc' = [pc EXCEPT ![r] = "waiting"]
  /\ line' = [line EXCEPT ![k] = Append(@, r)]

\* Slip: a run goes by the map, which a later call has overwritten
WorkIfLast(r) ==
  /\ pc[r] = "waiting"
  /\ key[r] \in Keys => tail[key[r]] = r
  /\ pc' = [pc EXCEPT ![r] = "working"]
  /\ UNCHANGED <<tail, after, key, line>>

Work(r) ==
  /\ pc[r] = "waiting"
  /\ after[r] = NoRun
  /\ pc' = [pc EXCEPT ![r] = "working"]
  /\ UNCHANGED <<tail, after, key, line>>

\* current.catch(() => {}): the next run is released however the work came out
Released(r) == [x \in Runs |-> IF after[x] = r THEN NoRun ELSE after[x]]

Settle(r) ==
  /\ pc[r] = "working"
  /\ after' = Released(r)
  /\ pc' = [pc EXCEPT ![r] = "settled"]
  /\ line' = [k \in Keys |-> IF k = key[r] THEN Tail(line[k]) ELSE line[k]]
  /\ UNCHANGED <<tail, key>>

\* Slip: the entry is deleted whoever it belongs to by now
EntryDeleted(r) == [k \in Keys |-> IF k = key[r] THEN NoRun ELSE tail[k]]
\* the finally: an entry that is still this run's
EntryCleared(r) == [k \in Keys |-> IF k = key[r] /\ tail[k] = r THEN NoRun ELSE tail[k]]

Leave(r) ==
  /\ pc[r] = "settled"
  /\ tail' = EntryCleared(r)
  /\ pc' = [pc EXCEPT ![r] = "idle"]
  /\ key' = [key EXCEPT ![r] = NoKey]
  /\ UNCHANGED <<after, line>>

Next ==
  \E r \in Runs :
    \/ CallUnkeyed(r) \/ Work(r) \/ Settle(r) \/ Leave(r)
    \/ \E k \in Keys : Call(r, k)

Spec == Init /\ [][Next]_vars

\* The work awaits queries and requests with timeouts, and so settles.
FairSpec == Spec /\ \A r \in Runs : WF_vars(Work(r) \/ Settle(r) \/ Leave(r))

-----------------------------------------------------------------------------
(* What the code is to guarantee.                                          *)

Busy(r) == pc[r] \in {"waiting", "working"}

\* The shape of the map and of the runs; only a run that waits is chained.
TypeOK ==
  /\ tail \in [Keys -> Runs \cup {NoRun}]
  /\ after \in [Runs -> Runs \cup {NoRun}]
  /\ key \in [Runs -> Keys \cup {NoKey}]
  /\ pc \in [Runs -> {"idle", "waiting", "working", "settled"}]
  /\ line \in [Keys -> Seq(Runs)]
  /\ \A r \in Runs : after[r] # NoRun => pc[r] = "waiting"

\* "Work run one at a time per key": no two runs of a key are at work together,
\* though runs join while others settle, fail, and take their entries away.
OneAtATimePerKey ==
  \A r, s \in Runs :
    pc[r] = "working" /\ pc[s] = "working" /\ key[r] = key[s] /\ key[r] # NoKey => r = s

\* The chain of a key is the line of its runs, and its entry in the map is the
\* last of them; with nobody in the line the entry has settled or is gone.
ChainIsLine ==
  \A k \in Keys :
    /\ \A i \in DOMAIN line[k] :
         /\ Busy(line[k][i]) /\ key[line[k][i]] = k
         /\ i > 1 => after[line[k][i]] = line[k][i - 1] /\ pc[line[k][i]] = "waiting"
    /\ line[k] # <<>> => tail[k] = line[k][Len(line[k])] /\ after[Head(line[k])] = NoRun

\* Whoever asks is served in the end, also behind work that fails.
EveryRunIsServed == \A r \in Runs : pc[r] = "waiting" ~> pc[r] = "working"

\* The chain of promises is a line per key, served in the order of the calls.
Lock == INSTANCE FifoLock WITH working <- {r \in Runs : pc[r] = "working" /\ key[r] # NoKey}
LockSpec == Lock!Spec
===============================================================================
