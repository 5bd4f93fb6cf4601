---------------------------- MODULE MCQueues_proofs ----------------------------
(***************************************************************************)
(* For any number of runs, keys, POSTs, draws and tokens: the chain of     *)
(* promises of OneAtATime is a line per key, of which one run works at a   *)
(* time, and so implements FifoLock; every POST of a Webhook Plugin takes  *)
(* effect at once and what is drawn last is stored; and the tokens of a    *)
(* Data Source are of the credentials pasted last, a spent one only after  *)
(* an answer that could not be kept.                                       *)
(***************************************************************************)
EXTENDS MCQueues, SequenceTheorems, TLAPS

\* Every run of a key that has not settled stands in its line, once.
Lines ==
  /\ \A r \in Runs : Busy(r) /\ key[r] \in Keys => \E i \in DOMAIN line[key[r]] : line[key[r]][i] = r
  /\ \A k \in Keys : \A i, j \in DOMAIN line[k] : line[k][i] = line[k][j] => i = j

\* An entry of the map is of a run called with its key that has not left yet.
Entries == \A k \in Keys : tail[k] # NoRun => key[tail[k]] = k /\ pc[tail[k]] # "idle"

IInv == TypeOK /\ ChainIsLine /\ Lines /\ Entries

-----------------------------------------------------------------------------
LEMMA InitHolds == Init => IInv
  BY OneAtATimeAssumption DEF Init, IInv, TypeOK, ChainIsLine, Lines, Entries, Busy

\* A key nobody stands in line for awaits nothing; otherwise its last run.
LEMMA AwaitsLast ==
  ASSUME IInv, NEW k \in Keys
  PROVE  Awaited(k) = IF line[k] = <<>> THEN NoRun ELSE line[k][Len(line[k])]
  <1>1. CASE line[k] = <<>>
    <2>1. tail[k] # NoRun => ~Busy(tail[k])
      BY <1>1 DEF IInv, TypeOK, Lines, Entries
    <2>2. QED  BY <1>1, <2>1 DEF Awaited, IInv, TypeOK, Entries, Busy
  <1>2. CASE line[k] # <<>>
    <2>1. Len(line[k]) \in DOMAIN line[k]
      BY <1>2 DEF IInv, TypeOK
    <2>2. tail[k] = line[k][Len(line[k])] /\ Busy(tail[k]) /\ tail[k] \in Runs
      BY <1>2, <2>1 DEF IInv, TypeOK, ChainIsLine
    <2>3. QED  BY <1>2, <2>2, OneAtATimeAssumption DEF Awaited, Busy
  <1>3. QED  BY <1>1, <1>2

\* The run of a key that is chained to nobody is the first of its line.
LEMMA UnchainedIsFirst ==
  ASSUME IInv, NEW r \in Runs, Busy(r), key[r] \in Keys, after[r] = NoRun
  PROVE  line[key[r]] # <<>> /\ r = line[key[r]][1]
  <1> DEFINE k == key[r]
  <1>1. PICK i \in DOMAIN line[k] : line[k][i] = r
    BY DEF IInv, Lines
  <1>2. i \in 1..Len(line[k]) /\ line[k] \in Seq(Runs)
    BY <1>1 DEF IInv, TypeOK
  <1>3. i > 1 => after[r] = line[k][i - 1] /\ line[k][i - 1] \in Runs
    BY <1>1, <1>2 DEF IInv, ChainIsLine
  <1>4. i = 1
    BY <1>2, <1>3, OneAtATimeAssumption
  <1>5. QED  BY <1>1, <1>2, <1>4

\* A run at work is chained to nobody, and so the first of its line.
LEMMA WorkingIsFirst ==
  ASSUME IInv, NEW r \in Runs, pc[r] = "working", key[r] \in Keys
  PROVE  line[key[r]] # <<>> /\ r = line[key[r]][1]
  BY UnchainedIsFirst, OneAtATimeAssumption DEF IInv, TypeOK, Busy

-----------------------------------------------------------------------------
(* The invariant is inductive: one step per action.                        *)

LEMMA CallUnkeyedKeeps ==
  ASSUME IInv, NEW r \in Runs, CallUnkeyed(r)
  PROVE  IInv'
  <1>1. pc[r] = "idle" /\ pc' = [pc EXCEPT ![r] = "waiting"] /\ key' = [key EXCEPT ![r] = NoKey]
        /\ UNCHANGED <<tail, after, line>>
    BY DEF CallUnkeyed
  <1>2. after[r] = NoRun
    BY <1>1 DEF IInv, TypeOK
  <1>3. TypeOK'
    BY <1>1, <1>2 DEF IInv, TypeOK
  <1>4. \A k \in Keys : \A i \in DOMAIN line[k] : line[k][i] # r
    BY <1>1 DEF IInv, ChainIsLine, Busy
  <1>5. ChainIsLine'
    BY <1>1, <1>4 DEF IInv, TypeOK, ChainIsLine, Busy
  <1>6. Lines'
    BY <1>1, OneAtATimeAssumption DEF IInv, TypeOK, Lines, Busy
  <1>7. Entries'
    BY <1>1 DEF IInv, TypeOK, Entries
  <1>8. QED  BY <1>3, <1>5, <1>6, <1>7 DEF IInv

LEMMA WorkKeeps ==
  ASSUME IInv, NEW r \in Runs, Work(r)
  PROVE  IInv'
  <1>1. pc[r] = "waiting" /\ after[r] = NoRun /\ pc' = [pc EXCEPT ![r] = "working"]
        /\ UNCHANGED <<tail, after, key, line>>
    BY DEF Work
  <1>2. TypeOK'
    BY <1>1 DEF IInv, TypeOK
  <1>3. ASSUME NEW k \in Keys, NEW i \in DOMAIN line[k], i > 1
        PROVE  line[k][i] # r
    <2>1. i \in 1..Len(line[k]) /\ line[k] \in Seq(Runs)
      BY DEF IInv, TypeOK
    <2>2. after[line[k][i]] = line[k][i - 1] /\ line[k][i - 1] \in Runs
      BY <1>3, <2>1 DEF IInv, ChainIsLine
    <2>3. QED  BY <1>1, <2>2, OneAtATimeAssumption
  <1>4. ChainIsLine'
    BY <1>1, <1>3 DEF IInv, TypeOK, ChainIsLine, Busy
  <1>5. Lines'
    BY <1>1 DEF IInv, TypeOK, Lines, Busy
  <1>6. Entries'
    BY <1>1 DEF IInv, TypeOK, Entries
  <1>7. QED  BY <1>2, <1>4, <1>5, <1>6 DEF IInv

LEMMA LeaveKeeps ==
  ASSUME IInv, NEW r \in Runs, Leave(r)
  PROVE  IInv'
  <1>1. /\ pc[r] = "settled" /\ tail' = EntryCleared(r) /\ pc' = [pc EXCEPT ![r] = "idle"]
        /\ key' = [key EXCEPT ![r] = NoKey] /\ UNCHANGED <<after, line>>
    BY DEF Leave
  <1>2. TypeOK'
    BY <1>1 DEF IInv, TypeOK, EntryCleared
  <1>3. \A k \in Keys : \A i \in DOMAIN line[k] : line[k][i] # r
    BY <1>1 DEF IInv, ChainIsLine, Busy
  <1>4. \A k \in Keys : line[k] # <<>> => tail[k] # r
    <2>1. \A k \in Keys : line[k] # <<>> => Len(line[k]) \in DOMAIN line[k]
      BY DEF IInv, TypeOK
    <2>2. QED  BY <1>3, <2>1 DEF IInv, ChainIsLine
  <1>5. ChainIsLine'
    BY <1>1, <1>3, <1>4 DEF IInv, TypeOK, ChainIsLine, Busy, EntryCleared
  <1>6. Lines'
    BY <1>1 DEF IInv, TypeOK, Lines, Busy
  <1>7. Entries'
    BY <1>1 DEF IInv, TypeOK, Entries, EntryCleared
  <1>8. QED  BY <1>2, <1>5, <1>6, <1>7 DEF IInv

LEMMA CallKeeps ==
  ASSUME IInv, NEW r \in Runs, NEW k \in Keys, Call(r, k)
  PROVE  IInv'
  <1>1. /\ pc[r] = "idle" /\ after' = [after EXCEPT ![r] = Awaited(k)]
        /\ tail' = [tail EXCEPT ![k] = r] /\ key' = [key EXCEPT ![r] = k]
        /\ pc' = [pc EXCEPT ![r] = "waiting"] /\ line' = [line EXCEPT ![k] = Append(@, r)]
    BY DEF Call
  <1>2. Awaited(k) = IF line[k] = <<>> THEN NoRun ELSE line[k][Len(line[k])]
    BY AwaitsLast
  <1>3. line[k] \in Seq(Runs) /\ line'[k] = Append(line[k], r) /\ line'[k] \in Seq(Runs)
        /\ Len(line'[k]) = Len(line[k]) + 1
        /\ \A i \in 1..Len(line'[k]) : line'[k][i] = IF i = Len(line[k]) + 1 THEN r ELSE line[k][i]
    BY <1>1 DEF IInv, TypeOK
  <1>4. \A c \in Keys : c # k => line'[c] = line[c]
    BY <1>1 DEF IInv, TypeOK
  <1>5. Awaited(k) \in Runs \cup {NoRun}
    BY <1>2, <1>3
  <1>6. TypeOK'
    <2>1. line' \in [Keys -> Seq(Runs)]
      BY <1>1, <1>3 DEF IInv, TypeOK
    <2>2. QED  BY <1>1, <1>5, <2>1 DEF IInv, TypeOK
  <1>7. \A c \in Keys : \A i \in DOMAIN line[c] : line[c][i] # r /\ line[c][i] \in Runs
    BY <1>1 DEF IInv, TypeOK, ChainIsLine, Busy
  <1>8. ChainIsLine'
    <2> SUFFICES ASSUME NEW c \in Keys PROVE
          /\ \A i \in DOMAIN line'[c] :
               /\ pc'[line'[c][i]] \in {"waiting", "working"} /\ key'[line'[c][i]] = c
               /\ i > 1 => after'[line'[c][i]] = line'[c][i - 1] /\ pc'[line'[c][i]] = "waiting"
          /\ line'[c] # <<>> => tail'[c] = line'[c][Len(line'[c])] /\ after'[Head(line'[c])] = NoRun
      BY DEF ChainIsLine, Busy
    <2>1. CASE c # k
      <3>1. line[c] # <<>> => Head(line[c]) # r
        BY <1>7 DEF IInv, TypeOK
      <3>2. line'[c] = line[c] /\ tail'[c] = tail[c]
        BY <1>1, <1>4, <2>1 DEF IInv, TypeOK
      <3>3. \A x \in Runs : x # r => pc'[x] = pc[x] /\ key'[x] = key[x] /\ after'[x] = after[x]
        BY <1>1 DEF IInv, TypeOK
      <3>4. line[c] # <<>> => Head(line[c]) \in Runs
        BY DEF IInv, TypeOK
      <3>5. QED  BY <1>7, <3>1, <3>2, <3>3, <3>4 DEF IInv, ChainIsLine, Busy
    <2>2. CASE c = k
      <3>1. ASSUME NEW i \in DOMAIN line'[k]
            PROVE  /\ pc'[line'[k][i]] \in {"waiting", "working"} /\ key'[line'[k][i]] = k
                   /\ i > 1 => after'[line'[k][i]] = line'[k][i - 1] /\ pc'[line'[k][i]] = "waiting"
        <4>1. i \in 1..(Len(line[k]) + 1)
          BY <1>3
        <4>2. CASE i = Len(line[k]) + 1
          <5>1. line'[k][i] = r /\ pc'[r] = "waiting" /\ key'[r] = k
            BY <1>1, <1>3, <4>1, <4>2 DEF IInv, TypeOK
          <5>2. ASSUME i > 1 PROVE after'[r] = line'[k][i - 1]
            <6>1. line[k] # <<>> /\ i - 1 = Len(line[k]) /\ i - 1 \in 1..Len(line'[k])
              BY <1>3, <4>2, <5>2
            <6>2. after'[r] = line[k][Len(line[k])]
              BY <1>1, <1>2, <6>1 DEF IInv, TypeOK
            <6>3. QED  BY <1>3, <6>1, <6>2
          <5>3. QED  BY <5>1, <5>2
        <4>3. CASE i # Len(line[k]) + 1
          <5>1. i \in DOMAIN line[k] /\ line'[k][i] = line[k][i] /\ line[k][i] # r
            BY <1>3, <1>7, <4>1, <4>3
          <5>2. i > 1 => line'[k][i - 1] = line[k][i - 1]
            BY <1>3, <4>1, <4>3
          <5>3. line[k][i] \in Runs /\ Busy(line[k][i]) /\ key[line[k][i]] = k
                /\ (i > 1 => after[line[k][i]] = line[k][i - 1] /\ pc[line[k][i]] = "waiting")
            BY <1>7, <5>1 DEF IInv, ChainIsLine
          <5>4. \A x \in Runs : x # r => pc'[x] = pc[x] /\ key'[x] = key[x] /\ after'[x] = after[x]
            BY <1>1 DEF IInv, TypeOK
          <5>5. QED  BY <5>1, <5>2, <5>3, <5>4 DEF Busy
        <4>4. QED  BY <4>2, <4>3
      <3>2. tail'[k] = line'[k][Len(line'[k])]
        BY <1>1, <1>3 DEF IInv, TypeOK
      <3>3. after'[Head(line'[k])] = NoRun
        <4>1. CASE line[k] = <<>>
          BY <1>1, <1>2, <1>3, <4>1 DEF IInv, TypeOK
        <4>2. CASE line[k] # <<>>
          <5>1. Head(line'[k]) = line[k][1] /\ line[k][1] # r /\ line[k][1] \in Runs
                /\ after[line[k][1]] = NoRun
            BY <1>3, <1>7, <4>2 DEF IInv, ChainIsLine
          <5>2. QED  BY <1>1, <5>1 DEF IInv, TypeOK
        <4>3. QED  BY <4>1, <4>2
      <3>4. QED  BY <2>2, <3>1, <3>2, <3>3
    <2>3. QED  BY <2>1, <2>2
  <1>9. Lines'
    <2>1. ASSUME NEW q \in Runs, Busy(q)', key'[q] \in Keys
          PROVE  \E i \in DOMAIN line'[key'[q]] : line'[key'[q]][i] = q
      <3>1. CASE q = r
        <4>1. key'[q] = k /\ Len(line[k]) + 1 \in DOMAIN line'[k]
          BY <1>1, <1>3, <3>1 DEF IInv, TypeOK
        <4>2. QED  BY <1>3, <3>1, <4>1
      <3>2. CASE q # r
        <4>1. Busy(q) /\ key'[q] = key[q]
          BY <1>1, <2>1, <3>2 DEF IInv, TypeOK, Busy
        <4>2. PICK i \in DOMAIN line[key[q]] : line[key[q]][i] = q
          BY <2>1, <4>1 DEF IInv, Lines
        <4>3. i \in DOMAIN line'[key[q]] /\ line'[key[q]][i] = q
          BY <1>3, <1>4, <2>1, <4>1, <4>2
        <4>4. QED  BY <4>1, <4>3
      <3>3. QED  BY <3>1, <3>2
    <2>2. ASSUME NEW c \in Keys, NEW i \in DOMAIN line'[c], NEW j \in DOMAIN line'[c],
                 line'[c][i] = line'[c][j]
          PROVE  i = j
      <3>1. CASE c # k
        BY <1>4, <2>2, <3>1 DEF IInv, Lines
      <3>2. CASE c = k
        <4>1. i \in 1..(Len(line[k]) + 1) /\ j \in 1..(Len(line[k]) + 1)
          BY <1>3, <3>2
        <4>2. \A x, y \in 1..Len(line[k]) : line[k][x] = line[k][y] => x = y
          BY <1>3 DEF IInv, Lines
        <4>3. \A x \in 1..Len(line[k]) : line'[k][x] = line[k][x] /\ line[k][x] # r
          BY <1>3, <1>7
        <4>4. line'[k][Len(line[k]) + 1] = r
          BY <1>3
        <4>5. line'[k][i] = line'[k][j] /\ Len(line[k]) \in Nat
          BY <1>3, <2>2, <3>2
        <4>6. CASE i = Len(line[k]) + 1
          BY <4>1, <4>3, <4>4, <4>5, <4>6
        <4>7. CASE j = Len(line[k]) + 1
          BY <4>1, <4>3, <4>4, <4>5, <4>7
        <4>8. CASE i # Len(line[k]) + 1 /\ j # Len(line[k]) + 1
          <5>1. i \in 1..Len(line[k]) /\ j \in 1..Len(line[k])
            BY <4>1, <4>5, <4>8
          <5>2. QED  BY <4>2, <4>3, <4>5, <5>1
        <4>9. QED  BY <4>6, <4>7, <4>8
      <3>3. QED  BY <3>1, <3>2
    <2>3. QED  BY <2>1, <2>2 DEF Lines
  <1>10. Entries'
    BY <1>1, OneAtATimeAssumption DEF IInv, TypeOK, Entries
  <1>11. QED  BY <1>6, <1>8, <1>9, <1>10 DEF IInv

LEMMA SettleKeeps ==
  ASSUME IInv, NEW r \in Runs, Settle(r)
  PROVE  IInv'
  <1>1. /\ pc[r] = "working" /\ after' = Released(r) /\ pc' = [pc EXCEPT ![r] = "settled"]
        /\ line' = [k \in Keys |-> IF k = key[r] THEN Tail(line[k]) ELSE line[k]]
        /\ UNCHANGED <<tail, key>>
    BY DEF Settle
  <1>2. \A x \in Runs : after'[x] = IF after[x] = r THEN NoRun ELSE after[x]
    BY <1>1 DEF Released
  <1>3. \A k \in Keys : line'[k] = IF k = key[r] THEN Tail(line[k]) ELSE line[k]
    BY <1>1
  <1>4. \A x \in Runs : x # r => pc'[x] = pc[x]
    BY <1>1 DEF IInv, TypeOK
  <1>5. \A k \in Keys : k = key[r] =>
           /\ line[k] # <<>> /\ line[k][1] = r
           /\ Len(line'[k]) = Len(line[k]) - 1
           /\ \A i \in 1..Len(line'[k]) : line'[k][i] = line[k][i + 1]
    BY <1>1, <1>3, WorkingIsFirst DEF IInv, TypeOK
  <1>6. TypeOK'
    <2>1. line' \in [Keys -> Seq(Runs)]
      BY <1>1, <1>5 DEF IInv, TypeOK
    <2>2. \A x \in Runs : after'[x] # NoRun => pc'[x] = "waiting"
      BY <1>1, <1>2, <1>4 DEF IInv, TypeOK
    <2>3. QED  BY <1>1, <2>1, <2>2 DEF IInv, TypeOK, Released
  <1>7. ASSUME NEW k \in Keys, NEW i \in DOMAIN line[k]
        PROVE  /\ line[k][i] \in Runs /\ Busy(line[k][i]) /\ key[line[k][i]] = k
               /\ i > 1 => after[line[k][i]] = line[k][i - 1] /\ pc[line[k][i]] = "waiting"
               /\ line[k][i] = r => k = key[r] /\ i = 1
    <2>1. line[k][i] \in Runs
      BY <1>7 DEF IInv, TypeOK
    <2>2. /\ Busy(line[k][i]) /\ key[line[k][i]] = k
          /\ i > 1 => after[line[k][i]] = line[k][i - 1] /\ pc[line[k][i]] = "waiting"
      BY <1>7 DEF IInv, ChainIsLine
    <2>3. i \in 1..Len(line[k])
      BY <1>7 DEF IInv, TypeOK
    <2>4. line[k][i] = r => k = key[r] /\ i = 1
      BY <1>1, <2>2, <2>3
    <2>5. QED  BY <2>1, <2>2, <2>4
  <1>8. ChainIsLine'
    <2> SUFFICES ASSUME NEW k \in Keys PROVE
          /\ \A i \in DOMAIN line'[k] :
               /\ pc'[line'[k][i]] \in {"waiting", "working"} /\ key'[line'[k][i]] = k
               /\ i > 1 => after'[line'[k][i]] = line'[k][i - 1] /\ pc'[line'[k][i]] = "waiting"
          /\ line'[k] # <<>> => tail'[k] = line'[k][Len(line'[k])] /\ after'[Head(line'[k])] = NoRun
      BY DEF ChainIsLine, Busy
    <2>0. line[k] \in Seq(Runs) /\ line'[k] \in Seq(Runs)
      BY <1>6 DEF IInv, TypeOK
    <2>1. CASE k # key[r]
      <3>1. line'[k] = line[k]
        BY <1>3, <2>1
      <3>2. ASSUME NEW i \in DOMAIN line[k]
            PROVE  /\ pc'[line[k][i]] \in {"waiting", "working"} /\ key'[line[k][i]] = k
                   /\ i > 1 => after'[line[k][i]] = line[k][i - 1] /\ pc'[line[k][i]] = "waiting"
        <4>1. i > 1 => i - 1 \in DOMAIN line[k]
          BY <2>0
        <4>2. QED  BY <1>1, <1>2, <1>4, <1>7, <2>1, <4>1 DEF Busy
      <3>3. line[k] # <<>> => tail'[k] = line[k][Len(line[k])] /\ after'[Head(line[k])] = NoRun
        <4>1. line[k] # <<>> => Head(line[k]) \in Runs
          BY <2>0
        <4>2. QED  BY <1>1, <1>2, <4>1, OneAtATimeAssumption DEF IInv, ChainIsLine
      <3>4. QED  BY <3>1, <3>2, <3>3
    <2>2. CASE k = key[r]
      <3>1. ASSUME NEW i \in DOMAIN line'[k]
            PROVE  /\ pc'[line'[k][i]] \in {"waiting", "working"} /\ key'[line'[k][i]] = k
                   /\ i > 1 => after'[line'[k][i]] = line'[k][i - 1] /\ pc'[line'[k][i]] = "waiting"
        <4>1. i \in 1..Len(line'[k]) /\ i + 1 \in DOMAIN line[k] /\ line'[k][i] = line[k][i + 1]
          BY <1>5, <2>0, <2>2
        <4>2. /\ line[k][i + 1] \in Runs /\ line[k][i + 1] # r /\ key[line[k][i + 1]] = k
              /\ after[line[k][i + 1]] = line[k][i] /\ pc[line[k][i + 1]] = "waiting"
          BY <1>7, <4>1
        <4>3. ASSUME i > 1 PROVE after'[line'[k][i]] = line'[k][i - 1]
          <5>1. i - 1 \in 1..Len(line'[k]) /\ i \in DOMAIN line[k]
            BY <1>5, <2>0, <2>2, <4>1, <4>3
          <5>2. line'[k][i - 1] = line[k][i] /\ line[k][i] # r
            BY SMTT(20), <1>5, <1>7, <2>2, <4>3, <5>1
          <5>3. QED  BY <1>2, <4>1, <4>2, <5>2
        <4>4. QED  BY <1>1, <1>4, <4>1, <4>2, <4>3
      <3>2. ASSUME line'[k] # <<>>
            PROVE  tail'[k] = line'[k][Len(line'[k])] /\ after'[Head(line'[k])] = NoRun
        <4>1. Len(line'[k]) \in 1..Len(line'[k]) /\ 1 \in 1..Len(line'[k]) /\ Head(line'[k]) = line'[k][1]
          BY <2>0, <3>2
        <4>2. line'[k][Len(line'[k])] = line[k][Len(line[k])] /\ line'[k][1] = line[k][2] /\ 2 \in DOMAIN line[k]
          BY SMTT(20), <1>5, <2>0, <2>2, <4>1
        <4>3. tail'[k] = line[k][Len(line[k])]
          BY <1>1, <1>5, <2>2 DEF IInv, ChainIsLine
        <4>4. after[line[k][2]] = r /\ line[k][2] \in Runs
          BY <1>5, <1>7, <2>2, <4>2
        <4>5. QED  BY <1>2, <4>1, <4>2, <4>3, <4>4
      <3>3. QED  BY <3>1, <3>2
    <2>3. QED  BY <2>1, <2>2
  <1>9. Lines'
    <2>1. ASSUME NEW q \in Runs, Busy(q)', key'[q] \in Keys
          PROVE  \E i \in DOMAIN line'[key'[q]] : line'[key'[q]][i] = q
      <3>1. q # r
        BY <1>1, <2>1 DEF IInv, TypeOK, Busy
      <3>2. Busy(q) /\ key'[q] = key[q]
        BY <1>1, <1>4, <2>1, <3>1 DEF Busy
      <3>3. PICK i \in DOMAIN line[key[q]] : line[key[q]][i] = q
        BY <2>1, <3>2 DEF IInv, Lines
      <3>4. i \in 1..Len(line[key[q]])
        BY <2>1, <3>2, <3>3 DEF IInv, TypeOK
      <3>5. CASE key[q] = key[r]
        <4>1. i # 1
          BY <1>5, <2>1, <3>1, <3>2, <3>3, <3>5
        <4>2. i - 1 \in 1..Len(line'[key[q]]) /\ line'[key[q]] \in Seq(Runs)
          BY <1>5, <1>6, <2>1, <3>2, <3>4, <3>5, <4>1 DEF TypeOK
        <4>3. line'[key[q]][i - 1] = q
          BY <1>5, <2>1, <3>2, <3>3, <3>4, <3>5, <4>2
        <4>4. QED  BY <3>2, <4>2, <4>3
      <3>6. CASE key[q] # key[r]
        BY <1>3, <2>1, <3>2, <3>3, <3>6
      <3>7. QED  BY <3>5, <3>6
    <2>2. ASSUME NEW k \in Keys, NEW i \in DOMAIN line'[k], NEW j \in DOMAIN line'[k],
                 line'[k][i] = line'[k][j]
          PROVE  i = j
      <3>1. CASE k # key[r]
        BY <1>3, <2>2, <3>1 DEF IInv, Lines
      <3>2. CASE k = key[r]
        <4>1. i \in 1..Len(line'[k]) /\ j \in 1..Len(line'[k])
          BY <1>6 DEF TypeOK
        <4>2. i + 1 \in DOMAIN line[k] /\ j + 1 \in DOMAIN line[k]
          BY <1>5, <3>2, <4>1 DEF IInv, TypeOK
        <4>3. i + 1 = j + 1
          BY <1>5, <2>2, <3>2, <4>1, <4>2 DEF IInv, Lines
        <4>4. QED  BY <4>1, <4>3
      <3>3. QED  BY <3>1, <3>2
    <2>3. QED  BY <2>1, <2>2 DEF Lines
  <1>10. Entries'
    BY <1>1 DEF IInv, TypeOK, Entries
  <1>11. QED  BY <1>6, <1>8, <1>9, <1>10 DEF IInv

LEMMA StepKeeps == IInv /\ [Next]_vars => IInv'
  <1> SUFFICES ASSUME IInv, [Next]_vars PROVE IInv'
    OBVIOUS
  <1>1. CASE UNCHANGED vars
    BY <1>1 DEF vars, IInv, TypeOK, ChainIsLine, Lines, Entries, Busy
  <1>2. CASE Next
    BY <1>2, CallUnkeyedKeeps, WorkKeeps, SettleKeeps, LeaveKeeps, CallKeeps DEF Next
  <1>3. QED  BY <1>1, <1>2

\* At every moment the chain of each key is its line.
THEOREM Invariant == Spec => []IInv
  BY InitHolds, StepKeeps, PTL DEF Spec

-----------------------------------------------------------------------------
(* The results.                                                            *)

\* The map and the runs keep their shape, and only a run that waits is chained.
THEOREM TypeCorrect == Spec => []TypeOK
  <1>1. IInv => TypeOK
    BY DEF IInv
  <1>2. QED  BY <1>1, Invariant, PTL

\* However many runs of a key are called, join, fail and leave, one works at a time.
THEOREM MutualExclusion == Spec => []OneAtATimePerKey
  <1>1. IInv => OneAtATimePerKey
    <2> SUFFICES ASSUME IInv, NEW r \in Runs, NEW s \in Runs, pc[r] = "working", pc[s] = "working",
                        key[r] = key[s], key[r] # NoKey
                 PROVE  r = s
      BY DEF OneAtATimePerKey
    <2>1. key[r] \in Keys
      BY DEF IInv, TypeOK
    <2>2. QED  BY <2>1, WorkingIsFirst
  <1>2. QED  BY <1>1, Invariant, PTL

LEMMA InitImplements == Init => Lock!Init
  BY DEF Init, Lock!Init

\* Every step of the chain is a step of the line, or none.
LEMMA StepImplements == IInv /\ [Next]_vars => [Lock!Next]_Lock!lockVars
  <1> SUFFICES ASSUME IInv, [Next]_vars PROVE [Lock!Next]_Lock!lockVars
    OBVIOUS
  <1> DEFINE working == {r \in Runs : pc[r] = "working" /\ key[r] # NoKey}
  <1>0. \A r \in Runs : key[r] \in Keys \cup {NoKey}
    BY DEF IInv, TypeOK
  <1>1. ASSUME NEW r \in Runs, CallUnkeyed(r) PROVE UNCHANGED <<line, working>>
    BY <1>1 DEF CallUnkeyed, IInv, TypeOK
  <1>2. ASSUME NEW r \in Runs, NEW k \in Keys, Call(r, k) PROVE Lock!Join(r, k)
    <2>1. r \notin Lock!Lined
      BY <1>2 DEF Call, Lock!Lined, IInv, ChainIsLine, Busy
    <2>2. UNCHANGED working
      BY <1>2 DEF Call, IInv, TypeOK
    <2>3. QED  BY <1>2, <2>1, <2>2 DEF Call, Lock!Join
  <1>3. ASSUME NEW r \in Runs, Work(r) PROVE (\E k \in Keys : Lock!Begin(r, k)) \/ UNCHANGED <<line, working>>
    <2>1. CASE key[r] = NoKey
      BY <1>3, <2>1 DEF Work, IInv, TypeOK
    <2>2. CASE key[r] \in Keys
      <3>1. line[key[r]] # <<>> /\ r = line[key[r]][1]
        BY <1>3, <2>2, UnchainedIsFirst DEF Work, Busy
      <3>2. r = Head(line[key[r]])
        BY <2>2, <3>1 DEF IInv, TypeOK
      <3>3. r \notin working /\ working' = working \cup {r}
        BY <1>3, <2>2, OneAtATimeAssumption DEF Work, IInv, TypeOK
      <3>4. QED  BY <1>3, <2>2, <3>1, <3>2, <3>3 DEF Work, Lock!Begin
    <2>3. QED  BY <1>0, <2>1, <2>2
  <1>4. ASSUME NEW r \in Runs, Settle(r) PROVE (\E k \in Keys : Lock!Finish(r, k)) \/ UNCHANGED <<line, working>>
    <2>1. CASE key[r] = NoKey
      <3>1. UNCHANGED line
        BY <1>4, <2>1, OneAtATimeAssumption DEF Settle, IInv, TypeOK
      <3>2. UNCHANGED working
        BY <1>4, <2>1 DEF Settle, IInv, TypeOK
      <3>3. QED  BY <3>1, <3>2
    <2>2. CASE key[r] \in Keys
      <3>1. line[key[r]] # <<>> /\ r = Head(line[key[r]])
        BY <1>4, <2>2, WorkingIsFirst DEF Settle, IInv, TypeOK
      <3>2. r \in working /\ working' = working \ {r}
        BY <1>4, <2>2, OneAtATimeAssumption DEF Settle, IInv, TypeOK
      <3>3. line' = [line EXCEPT ![key[r]] = Tail(line[key[r]])]
        BY <1>4, <2>2 DEF Settle, IInv, TypeOK
      <3>4. QED  BY <2>2, <3>1, <3>2, <3>3 DEF Lock!Finish
    <2>3. QED  BY <1>0, <2>1, <2>2
  <1>5. ASSUME NEW r \in Runs, Leave(r) PROVE UNCHANGED <<line, working>>
    BY <1>5 DEF Leave, IInv, TypeOK
  <1>6. CASE UNCHANGED vars
    BY <1>6 DEF vars, Lock!lockVars
  <1>7. QED  BY <1>1, <1>2, <1>3, <1>4, <1>5, <1>6 DEF Next, Lock!Next, Lock!lockVars

\* OneAtATime implements FifoLock: the line of a key is served in the order of
\* the calls, whatever becomes of the work and of the entries of the map.
THEOREM Implements == Spec => LockSpec
  BY InitImplements, StepImplements, Invariant, PTL DEF Spec, LockSpec, Lock!Spec

-----------------------------------------------------------------------------
(* OAuthToken: what is stored is of the tokens that are pasted, and a      *)
(* refresh token is sent once.                                             *)

Tokens ==
  [grant: OAuth!Grants, access: Nat, refresh: Nat \cup {OAuth!Absent}, due: BOOLEAN] \cup {OAuth!NoToken}

PollRecords ==
  [pc: {"idle", "ask", "waiting", "send", "check", "keep", "leave", "fail", "poll"},
   pasted: OAuth!Grants, lastTry: BOOLEAN, token: Tokens]

OAuthTyped ==
  /\ pasted \in OAuth!Grants /\ stored \in Tokens
  /\ poll \in [Polls -> PollRecords]
  /\ rotates \in BOOLEAN /\ issued \in [OAuth!Grants -> Nat] /\ faults \in Nat
  /\ unkept \subseteq OAuth!Grants /\ respent \subseteq OAuth!Grants

\* The poll whose turn it is stands first in the line, so there is one at most.
PollsTakeTurns ==
  /\ polled \in [{OAuth!ThePlugin} -> Seq(Polls)]
  /\ polling = {q \in Polls : poll[q].pc \in {"send", "check", "keep", "leave", "fail"}}
  /\ \A q \in polling : polled[OAuth!ThePlugin] # <<>> /\ q = Head(polled[OAuth!ThePlugin])

\* A rotating provider numbers a refresh token as the access token it came with;
\* another answers none.  No token is of a pasting still to come.
OfProvider(token) ==
  /\ token.grant <= pasted
  /\ token # OAuth!NoToken => token.refresh = IF rotates THEN token.access ELSE OAuth!Absent

TokensOfProvider ==
  /\ OfProvider(stored)
  /\ \A q \in Polls : OfProvider(poll[q].token) /\ poll[q].pasted <= pasted
  /\ \A g \in OAuth!Grants : g > pasted => issued[g] = 0 /\ g \notin respent

\* A poll that refreshes with the Field Values that are still saved refreshes
\* their grant; what it was answered is the grant's last; what it is about to
\* store has just been compared with what is pasted.
RefreshesOfPasted ==
  /\ stored # OAuth!NoToken => stored.grant = pasted
  /\ \A q \in Polls :
       /\ OAuth!At(q, "send") /\ poll[q].pasted = pasted =>
            poll[q].token = OAuth!NoToken \/ poll[q].token.grant = pasted
       /\ OAuth!At(q, "check") \/ OAuth!At(q, "keep") =>
            /\ poll[q].token # OAuth!NoToken
            /\ poll[q].token.access = issued[poll[q].token.grant]
            /\ poll[q].pasted = pasted => poll[q].token.grant = pasted
       /\ OAuth!At(q, "keep") => poll[q].pasted = pasted

\* While every answer of the pasted grant was stored, its last is, or is on its
\* way there, and a refresh token about to be sent is the one the provider takes.
StoredIsLast ==
  pasted \notin unkept =>
    /\ \/ stored.access = issued[pasted]
       \/ \E q \in Polls : (OAuth!At(q, "check") \/ OAuth!At(q, "keep")) /\ poll[q].token.grant = pasted
    /\ \A q \in Polls : OAuth!At(q, "send") /\ OAuth!RefreshToken(q)[1] = pasted =>
         OAuth!RefreshToken(q) = OAuth!Unspent(pasted)

OAuthInv ==
  /\ OAuthTyped /\ PollsTakeTurns /\ TokensOfProvider /\ RefreshesOfPasted /\ StoredIsLast
  /\ OAuth!SpentOnlyAfterUnkept

OAuthConstants ==
  /\ ~SaveBetween
  /\ MaxPastings \in Nat /\ MaxRefreshes \in Nat /\ MaxFaults \in Nat

AtWork == {"send", "check", "keep", "leave", "fail"}

LEMMA OAuthInitHolds == OAuthConstants /\ OAuth!Init => OAuthInv
  <1> SUFFICES ASSUME OAuthConstants, OAuth!Init PROVE OAuthInv
    OBVIOUS
  <1> USE DEF OAuthConstants, OAuth!Init, OAuth!Grants, OAuth!Absent, OAuth!NoToken, OAuth!Idle
  <1>1. OAuthTyped
    BY DEF OAuthTyped, Tokens, PollRecords
  <1>2. PollsTakeTurns
    BY DEF PollsTakeTurns, OAuth!Line!Init
  <1>3. TokensOfProvider
    <2>1. stored = OAuth!NoToken /\ \A q \in Polls : poll[q].token = OAuth!NoToken /\ poll[q].pasted = 0
      OBVIOUS
    <2>2. OAuth!NoToken.grant <= pasted
      OBVIOUS
    <2>3. \A g \in OAuth!Grants : issued[g] = 0 /\ g \notin respent
      OBVIOUS
    <2>4. QED  BY <2>1, <2>2, <2>3 DEF TokensOfProvider, OfProvider
  <1>4. RefreshesOfPasted
    BY DEF RefreshesOfPasted, OAuth!At
  <1>5. StoredIsLast /\ OAuth!SpentOnlyAfterUnkept
    BY DEF StoredIsLast, OAuth!SpentOnlyAfterUnkept, OAuth!At
  <1>6. QED  BY <1>1, <1>2, <1>3, <1>4, <1>5 DEF OAuthInv

\* A poll that moves on with the line as it is.
LEMMA PollStays ==
  ASSUME OAuthTyped, PollsTakeTurns, NEW q \in Polls, NEW r \in PollRecords, poll' = [poll EXCEPT ![q] = r],
         r.pc \in AtWork <=> poll[q].pc \in AtWork, UNCHANGED <<polled, polling>>
  PROVE  PollsTakeTurns'
  BY DEF OAuthTyped, PollsTakeTurns, AtWork

LEMMA PollJoins ==
  ASSUME OAuthTyped, PollsTakeTurns, NEW q \in Polls, NEW r \in PollRecords, poll' = [poll EXCEPT ![q] = r],
         r.pc \notin AtWork, poll[q].pc \notin AtWork, OAuth!Line!Join(q, OAuth!ThePlugin)
  PROVE  PollsTakeTurns'
  <1>1. /\ polled' = [polled EXCEPT ![OAuth!ThePlugin] = Append(polled[OAuth!ThePlugin], q)]
        /\ UNCHANGED polling
    BY DEF OAuth!Line!Join
  <1>2. polled' \in [{OAuth!ThePlugin} -> Seq(Polls)]
    BY <1>1 DEF PollsTakeTurns
  <1>3. polled[OAuth!ThePlugin] # <<>> =>
          /\ polled'[OAuth!ThePlugin] # <<>>
          /\ Head(polled'[OAuth!ThePlugin]) = Head(polled[OAuth!ThePlugin])
    BY <1>1 DEF PollsTakeTurns
  <1>4. polling' = {x \in Polls : poll'[x].pc \in AtWork}
    BY <1>1 DEF OAuthTyped, PollsTakeTurns, AtWork
  <1>5. QED  BY <1>1, <1>2, <1>3, <1>4 DEF PollsTakeTurns, AtWork

LEMMA PollBegins ==
  ASSUME OAuthTyped, PollsTakeTurns, NEW q \in Polls, NEW r \in PollRecords, poll' = [poll EXCEPT ![q] = r],
         r.pc \in AtWork, OAuth!Line!Begin(q, OAuth!ThePlugin)
  PROVE  /\ PollsTakeTurns'
         /\ \A x \in Polls : poll[x].pc \notin AtWork
  <1>1. /\ polled[OAuth!ThePlugin] # <<>> /\ q = Head(polled[OAuth!ThePlugin]) /\ q \notin polling
        /\ polling' = polling \cup {q} /\ UNCHANGED polled
    BY DEF OAuth!Line!Begin
  <1>2. polling = {}
    BY <1>1 DEF PollsTakeTurns
  <1>3. \A x \in Polls : poll[x].pc \notin AtWork
    BY <1>2 DEF PollsTakeTurns, AtWork
  <1>4. polling' = {x \in Polls : poll'[x].pc \in AtWork}
    BY <1>1, <1>2, <1>3 DEF OAuthTyped
  <1>5. QED  BY <1>1, <1>2, <1>3, <1>4 DEF PollsTakeTurns, AtWork

LEMMA PollFinishes ==
  ASSUME OAuthTyped, PollsTakeTurns, NEW q \in Polls, NEW r \in PollRecords, poll' = [poll EXCEPT ![q] = r],
         r.pc \notin AtWork, OAuth!Line!Finish(q, OAuth!ThePlugin)
  PROVE  PollsTakeTurns'
  <1>1. /\ polled[OAuth!ThePlugin] # <<>> /\ q = Head(polled[OAuth!ThePlugin])
        /\ polled' = [polled EXCEPT ![OAuth!ThePlugin] = Tail(polled[OAuth!ThePlugin])] /\ polling' = polling \ {q}
    BY DEF OAuth!Line!Finish
  <1>2. polling \subseteq {q}
    BY <1>1 DEF PollsTakeTurns
  <1>3. polling' = {}
    BY <1>1, <1>2
  <1>4. polled' \in [{OAuth!ThePlugin} -> Seq(Polls)]
    BY <1>1 DEF PollsTakeTurns
  <1>5. polling' = {x \in Polls : poll'[x].pc \in AtWork}
    BY <1>2, <1>3 DEF OAuthTyped, PollsTakeTurns, AtWork
  <1>6. QED  BY <1>3, <1>4, <1>5 DEF PollsTakeTurns, AtWork

\* The poll whose turn it is is the only one at work.
LEMMA OnePollWorks ==
  ASSUME PollsTakeTurns, NEW q \in Polls, NEW x \in Polls, poll[q].pc \in AtWork, poll[x].pc \in AtWork
  PROVE  q = x
  BY DEF PollsTakeTurns, AtWork

\* A poll that neither refreshes nor has just refreshed comes and goes freely.
LEMMA PollMoves ==
  ASSUME OAuthConstants, OAuthInv, NEW q \in Polls, NEW r \in PollRecords, poll' = [poll EXCEPT ![q] = r],
         poll[q].pc \notin {"check", "keep"}, r.pc \notin {"send", "check", "keep"},
         OfProvider(r.token), r.pasted <= pasted, PollsTakeTurns',
         UNCHANGED <<pasted, stored, rotates, issued, faults, unkept, respent>>
  PROVE  OAuthInv'
  <1>1. OAuthTyped'
    BY DEF OAuthInv, OAuthTyped
  <1>2. \A x \in Polls : poll'[x] = IF x = q THEN r ELSE poll[x]
    BY DEF OAuthInv, OAuthTyped
  <1>3. TokensOfProvider'
    BY <1>2 DEF OAuthInv, TokensOfProvider, OfProvider
  <1>4. RefreshesOfPasted'
    BY <1>2 DEF OAuthInv, RefreshesOfPasted, OAuth!At
  <1>5. StoredIsLast'
    BY <1>2 DEF OAuthInv, StoredIsLast, OAuth!At, OAuth!RefreshToken, OAuth!Unspent
  <1>6. QED  BY <1>1, <1>3, <1>4, <1>5 DEF OAuthInv, OAuth!SpentOnlyAfterUnkept

\* What a step leaves a poll: moved on, with another token, or anew.
Moved(q, w) == [poll[q] EXCEPT !.pc = w]
Took(q, token, w) == [poll[q] EXCEPT !.token = token, !.pc = w]

LEMMA StepsTyped ==
  ASSUME OAuthConstants, OAuthTyped, NEW q \in Polls, NEW token \in Tokens,
         NEW w \in {"idle", "ask", "waiting", "send", "check", "keep", "leave", "fail", "poll"}
  PROVE  /\ Moved(q, w) \in PollRecords /\ Moved(q, w).pc = w
         /\ Moved(q, w).token = poll[q].token /\ Moved(q, w).pasted = poll[q].pasted
         /\ Took(q, token, w) \in PollRecords /\ Took(q, token, w).pc = w
         /\ Took(q, token, w).token = token /\ Took(q, token, w).pasted = poll[q].pasted
  <1>1. poll[q] \in PollRecords
    BY DEF OAuthTyped
  <1>2. QED  BY <1>1 DEF PollRecords, Moved, Took

LEMMA IdleTyped ==
  ASSUME OAuthConstants, OAuthInv
  PROVE  /\ OAuth!Idle \in PollRecords /\ OAuth!Idle.pc = "idle"
         /\ OfProvider(OAuth!Idle.token) /\ OAuth!Idle.pasted <= pasted
         /\ OAuth!NoToken \in Tokens /\ OfProvider(OAuth!NoToken)
  <1> USE DEF OAuthConstants, OAuth!Grants, OAuth!Absent
  <1>1. pasted \in 0..MaxPastings
    BY DEF OAuthInv, OAuthTyped
  <1>2. OAuth!NoToken.grant = -1 /\ OAuth!NoToken \in Tokens
    BY DEF OAuth!NoToken, Tokens
  <1>3. OfProvider(OAuth!NoToken)
    BY <1>1, <1>2 DEF OfProvider
  <1>4. OAuth!Idle.token = OAuth!NoToken /\ OAuth!Idle.pasted = 0 /\ OAuth!Idle.pc = "idle"
    BY DEF OAuth!Idle
  <1>5. OAuth!Idle \in PollRecords
    BY <1>2 DEF OAuth!Idle, PollRecords
  <1>6. QED  BY <1>1, <1>2, <1>3, <1>4, <1>5

LEMMA BeginKeeps ==
  ASSUME OAuthConstants, OAuthInv, NEW q \in Polls, OAuth!Begin(q)
  PROVE  OAuthInv'
  <1> DEFINE r == [OAuth!Idle EXCEPT !.pc = "ask", !.pasted = pasted]
  <1>1. /\ poll[q].pc = "idle" /\ poll' = [poll EXCEPT ![q] = r]
        /\ UNCHANGED <<pasted, stored, polled, polling, rotates, issued, faults, unkept, respent>>
    BY DEF OAuth!Begin, OAuth!At, OAuth!provider
  <1>2. OAuth!Idle \in PollRecords /\ OfProvider(OAuth!Idle.token) /\ pasted \in OAuth!Grants
    BY IdleTyped DEF OAuthInv, OAuthTyped
  <1>3. r \in PollRecords /\ r.pc = "ask" /\ r.token = OAuth!Idle.token /\ r.pasted = pasted
    BY <1>2 DEF PollRecords
  <1>4. PollsTakeTurns'
    BY <1>1, <1>3, PollStays DEF AtWork, OAuthInv
  <1>5. r.pasted <= pasted
    BY <1>2, <1>3 DEF OAuthConstants, OAuth!Grants
  <1> HIDE DEF r
  <1>6. QED  BY <1>1, <1>2, <1>3, <1>4, <1>5, PollMoves

LEMMA AskKeeps ==
  ASSUME OAuthConstants, OAuthInv, NEW q \in Polls, OAuth!Ask(q)
  PROVE  OAuthInv'
  <1>1. /\ poll[q].pc = "ask" /\ poll' = [poll EXCEPT ![q] = Moved(q, "waiting")]
        /\ OAuth!Line!Join(q, OAuth!ThePlugin)
        /\ UNCHANGED <<pasted, stored, rotates, issued, faults, unkept, respent>>
    BY DEF OAuth!Ask, OAuth!At, OAuth!Goto, OAuth!provider, Moved
  <1>2. /\ Moved(q, "waiting") \in PollRecords /\ Moved(q, "waiting").pc = "waiting"
        /\ Moved(q, "waiting").token = poll[q].token /\ Moved(q, "waiting").pasted = poll[q].pasted
    BY StepsTyped, IdleTyped DEF OAuthInv
  <1>3. PollsTakeTurns'
    BY <1>1, <1>2, PollJoins DEF AtWork, OAuthInv
  <1>4. OfProvider(poll[q].token) /\ poll[q].pasted <= pasted
    BY DEF OAuthInv, TokensOfProvider
  <1>5. QED  BY <1>1, <1>2, <1>3, <1>4, PollMoves

\* What was stored when the turn came is what is refreshed.
LEMMA LoadKeeps ==
  ASSUME OAuthConstants, OAuthInv, NEW q \in Polls, OAuth!Load(q)
  PROVE  OAuthInv'
  <1>1. PICK w \in {"leave", "send", "fail"} :
        /\ poll[q].pc = "waiting" /\ poll' = [poll EXCEPT ![q] = Took(q, stored, w)]
        /\ OAuth!Line!Begin(q, OAuth!ThePlugin)
        /\ UNCHANGED <<pasted, stored, rotates, issued, faults, unkept, respent>>
    BY DEF OAuth!Load, OAuth!Take, OAuth!Turn, OAuth!At, OAuth!provider, Took
  <1>2. stored \in Tokens /\ poll[q] \in PollRecords
    BY DEF OAuthInv, OAuthTyped
  <1>3. /\ Took(q, stored, w) \in PollRecords /\ Took(q, stored, w).pc = w
        /\ Took(q, stored, w).token = stored /\ Took(q, stored, w).pasted = poll[q].pasted
    BY <1>2, StepsTyped DEF OAuthInv
  <1>4. PollsTakeTurns' /\ \A x \in Polls : poll[x].pc \notin AtWork
    BY <1>1, <1>3, PollBegins DEF AtWork, OAuthInv
  <1>5. OfProvider(stored) /\ poll[q].pasted <= pasted
    BY DEF OAuthInv, TokensOfProvider
  <1>6. CASE w # "send"
    BY <1>1, <1>3, <1>4, <1>5, <1>6, PollMoves
  <1>7. CASE w = "send"
    <2>1. \A x \in Polls : poll'[x] = IF x = q THEN Took(q, stored, w) ELSE poll[x]
      BY <1>1 DEF OAuthInv, OAuthTyped
    <2>2. OAuthTyped'
      BY <1>1, <1>3 DEF OAuthInv, OAuthTyped
    <2>3. TokensOfProvider'
      BY <1>1, <1>3, <1>5, <2>1 DEF OAuthInv, TokensOfProvider, OfProvider
    <2>4. RefreshesOfPasted'
      BY <1>1, <1>3, <1>4, <1>7, <2>1 DEF OAuthInv, RefreshesOfPasted, OAuth!At, AtWork
    <2>5. pasted \notin unkept => stored.access = issued[pasted]
      BY <1>4 DEF OAuthInv, StoredIsLast, OAuth!At, AtWork
    <2>6. ASSUME pasted \notin unkept, OAuth!RefreshToken(q)'[1] = pasted
          PROVE  OAuth!RefreshToken(q)' = OAuth!Unspent(pasted)
      <3>1. OAuth!RefreshToken(q)' =
              IF stored.refresh # OAuth!Absent THEN <<stored.grant, stored.refresh>> ELSE <<poll[q].pasted, 0>>
        BY <1>3, <2>1 DEF OAuth!RefreshToken
      <3>2. CASE stored.refresh # OAuth!Absent
        <4>1. stored # OAuth!NoToken /\ rotates /\ stored.refresh = stored.access
          BY <1>5, <3>2 DEF OfProvider, OAuth!NoToken
        <4>2. QED  BY <2>5, <2>6, <3>1, <3>2, <4>1 DEF OAuth!Unspent
      <3>3. CASE stored.refresh = OAuth!Absent
        <4>1. poll[q].pasted = pasted
          BY <2>6, <3>1, <3>3
        <4>2. rotates => stored = OAuth!NoToken
          BY <1>2, <1>5, <3>3 DEF OfProvider, Tokens, OAuth!Absent
        <4>3. rotates => issued[pasted] = 0
          BY <2>5, <2>6, <4>2 DEF OAuth!NoToken
        <4>4. QED  BY <3>1, <3>3, <4>1, <4>3 DEF OAuth!Unspent
      <3>4. QED  BY <3>2, <3>3
    <2>7. StoredIsLast'
      BY <1>1, <1>3, <1>4, <2>1, <2>5, <2>6 DEF StoredIsLast, OAuth!At, OAuth!Unspent, AtWork
    <2>8. QED  BY <1>1, <1>4, <2>2, <2>3, <2>4, <2>7 DEF OAuthInv, OAuth!SpentOnlyAfterUnkept
  <1>8. QED  BY <1>6, <1>7

\* The refresh token a poll sends is of a grant of a pasting made by now.
LEMMA RefreshesKnownGrant ==
  ASSUME OAuthConstants, OAuthInv, NEW q \in Polls
  PROVE  /\ OAuth!RefreshToken(q)[1] \in OAuth!Grants /\ OAuth!RefreshToken(q)[1] <= pasted
         /\ OAuth!At(q, "send") /\ poll[q].pasted = pasted => OAuth!RefreshToken(q)[1] = pasted
  <1>1. poll[q] \in PollRecords /\ OfProvider(poll[q].token) /\ poll[q].pasted <= pasted
    BY DEF OAuthInv, OAuthTyped, TokensOfProvider
  <1>2. poll[q].token.refresh # OAuth!Absent => poll[q].token # OAuth!NoToken
    BY DEF OAuth!NoToken
  <1>3. CASE poll[q].token.refresh = OAuth!Absent
    BY <1>1, <1>3 DEF OAuth!RefreshToken, PollRecords
  <1>4. CASE poll[q].token.refresh # OAuth!Absent
    BY <1>1, <1>2, <1>4 DEF OAuth!RefreshToken, OfProvider, PollRecords, Tokens, OAuthInv, RefreshesOfPasted
  <1>5. QED  BY <1>3, <1>4

LEMMA SendKeeps ==
  ASSUME OAuthConstants, OAuthInv, NEW q \in Polls, OAuth!Send(q)
  PROVE  OAuthInv'
  <1> DEFINE g == OAuth!RefreshToken(q)[1]
  <1>1. /\ poll[q].pc = "send" /\ OAuth!RefreshToken(q) = OAuth!Unspent(g)
        /\ issued' = [issued EXCEPT ![g] = @ + 1]
        /\ UNCHANGED <<pasted, stored, polled, polling, rotates, respent>>
    BY DEF OAuth!Send, OAuth!At
  <1>2. g \in OAuth!Grants /\ g <= pasted /\ (poll[q].pasted = pasted => g = pasted)
    BY <1>1, RefreshesKnownGrant DEF OAuth!At
  <1>3. issued' \in [OAuth!Grants -> Nat] /\ issued'[g] = issued[g] + 1
        /\ \A x \in OAuth!Grants : x # g => issued'[x] = issued[x]
    BY <1>1, <1>2 DEF OAuthInv, OAuthTyped
  <1>4. poll[q] \in PollRecords /\ pasted \in OAuth!Grants
    BY DEF OAuthInv, OAuthTyped
  <1>5. \A x \in Polls : x # q => poll[x].pc \notin AtWork
    BY <1>1, OnePollWorks DEF AtWork, OAuthInv
  <1>6. CASE \E due \in BOOLEAN : OAuth!Take(q, OAuth!Refreshed(q, g, due), "check") /\ UNCHANGED <<faults, unkept>>
    <2>1. PICK due \in BOOLEAN : OAuth!Take(q, OAuth!Refreshed(q, g, due), "check") /\ UNCHANGED <<faults, unkept>>
      BY <1>6
    <2> DEFINE token == OAuth!Refreshed(q, g, due)
    <2>2. token.grant = g /\ token.access = issued[g] + 1
          /\ token.refresh = IF rotates THEN issued[g] + 1 ELSE poll[q].token.refresh
      BY DEF OAuth!Refreshed
    <2>3. token \in Tokens /\ token # OAuth!NoToken
      <3>1. issued[g] + 1 \in Nat /\ issued[g] + 1 # 0
        BY <1>2 DEF OAuthInv, OAuthTyped
      <3>2. poll[q].token.refresh \in Nat \cup {OAuth!Absent}
        BY <1>4 DEF PollRecords, Tokens, OAuth!NoToken
      <3>3. QED  BY <1>2, <2>2, <3>1, <3>2 DEF OAuth!Refreshed, Tokens, OAuth!NoToken
    <2>4. ~rotates => poll[q].token.refresh = OAuth!Absent
      BY DEF OAuthInv, TokensOfProvider, OfProvider, OAuth!NoToken
    <2>5. OfProvider(token)
      BY <1>2, <2>2, <2>4 DEF OfProvider
    <2> HIDE DEF token
    <2>6. poll' = [poll EXCEPT ![q] = Took(q, token, "check")]
      BY <2>1 DEF OAuth!Take, Took, token
    <2>7. /\ Took(q, token, "check") \in PollRecords /\ Took(q, token, "check").pc = "check"
          /\ Took(q, token, "check").token = token /\ Took(q, token, "check").pasted = poll[q].pasted
      BY <2>3, StepsTyped DEF OAuthInv
    <2>8. \A x \in Polls : poll'[x] = IF x = q THEN Took(q, token, "check") ELSE poll[x]
      BY <2>6 DEF OAuthInv, OAuthTyped
    <2>9. OAuthTyped'
      BY <1>1, <1>3, <2>1, <2>6, <2>7 DEF OAuthInv, OAuthTyped
    <2>10. PollsTakeTurns'
      BY <1>1, <2>6, <2>7, PollStays DEF AtWork, OAuthInv
    <2>11. TokensOfProvider'
      <3>1. \A x \in OAuth!Grants : x > pasted => issued'[x] = issued[x]
        BY <1>2, <1>3, <1>4 DEF OAuth!Grants, OAuthConstants
      <3>2. QED  BY <1>1, <2>5, <2>7, <2>8, <3>1 DEF OAuthInv, TokensOfProvider, OfProvider
    <2>12. RefreshesOfPasted'
      BY <1>1, <1>2, <1>3, <1>5, <2>2, <2>3, <2>7, <2>8 DEF OAuthInv, RefreshesOfPasted, OAuth!At, AtWork
    <2>13. StoredIsLast'
      <3>1. ASSUME g # pasted PROVE issued'[pasted] = issued[pasted]
        BY <1>3, <1>4, <3>1
      <3>2. \A x \in Polls : poll'[x].pc # "send"
        BY <1>5, <2>7, <2>8 DEF AtWork
      <3>3. g = pasted => poll'[q].pc = "check" /\ poll'[q].token.grant = pasted
        BY <2>2, <2>7, <2>8
      <3>4. \A x \in Polls : poll[x].pc # "check" /\ poll[x].pc # "keep"
        BY <1>1, <1>5 DEF AtWork
      <3>5. QED  BY <1>1, <2>1, <3>1, <3>2, <3>3, <3>4 DEF OAuthInv, StoredIsLast, OAuth!At
    <2>14. QED  BY <1>1, <2>1, <2>9, <2>10, <2>11, <2>12, <2>13 DEF OAuthInv, OAuth!SpentOnlyAfterUnkept
  <1>7. CASE faults' = faults + 1 /\ unkept' = unkept \cup {g} /\ OAuth!Goto(q, "fail")
    <2>1. poll' = [poll EXCEPT ![q] = Moved(q, "fail")]
      BY <1>7 DEF OAuth!Goto, Moved
    <2>2. /\ Moved(q, "fail") \in PollRecords /\ Moved(q, "fail").pc = "fail"
          /\ Moved(q, "fail").token = poll[q].token /\ Moved(q, "fail").pasted = poll[q].pasted
      BY StepsTyped, IdleTyped DEF OAuthInv
    <2>3. \A x \in Polls : poll'[x] = IF x = q THEN Moved(q, "fail") ELSE poll[x]
      BY <2>1 DEF OAuthInv, OAuthTyped
    <2>4. OAuthTyped'
      BY <1>1, <1>2, <1>3, <1>7, <2>1, <2>2 DEF OAuthInv, OAuthTyped
    <2>5. PollsTakeTurns'
      BY <1>1, <2>1, <2>2, PollStays DEF AtWork, OAuthInv
    <2>6. TokensOfProvider'
      <3>1. \A x \in OAuth!Grants : x > pasted => issued'[x] = issued[x]
        BY <1>2, <1>3, <1>4 DEF OAuth!Grants, OAuthConstants
      <3>2. QED  BY <1>1, <2>2, <2>3, <3>1 DEF OAuthInv, TokensOfProvider, OfProvider
    <2>7. RefreshesOfPasted'
      BY <1>1, <1>5, <2>2, <2>3 DEF OAuthInv, RefreshesOfPasted, OAuth!At, AtWork
    <2>8. StoredIsLast'
      <3>1. pasted \notin unkept' => g # pasted /\ pasted \notin unkept /\ issued'[pasted] = issued[pasted]
        BY <1>3, <1>4, <1>7
      <3>2. \A x \in Polls : poll'[x].pc \notin {"send", "check", "keep"} /\ poll[x].pc \notin {"check", "keep"}
        BY <1>1, <1>5, <2>2, <2>3 DEF AtWork
      <3>3. QED  BY <1>1, <3>1, <3>2 DEF OAuthInv, StoredIsLast, OAuth!At
    <2>9. QED  BY <1>1, <1>7, <2>4, <2>5, <2>6, <2>7, <2>8 DEF OAuthInv, OAuth!SpentOnlyAfterUnkept
  <1>8. QED  BY <1>6, <1>7 DEF OAuth!Send

\* The provider takes the refresh token of the pasted grant, unless it answered
\* one that could not be stored: it is not spent.
LEMMA SendRefusedKeeps ==
  ASSUME OAuthConstants, OAuthInv, NEW q \in Polls, OAuth!SendRefused(q)
  PROVE  OAuthInv'
  <1> DEFINE g == OAuth!RefreshToken(q)[1]
  <1>1. /\ poll[q].pc = "send" /\ poll' = [poll EXCEPT ![q] = Moved(q, "fail")]
        /\ respent' = IF OAuth!RefreshToken(q) = OAuth!Unspent(g) THEN respent ELSE respent \cup {g}
        /\ UNCHANGED <<pasted, stored, polled, polling, rotates, issued, faults, unkept>>
    BY DEF OAuth!SendRefused, OAuth!At, OAuth!Goto, OAuth!provider, Moved
  <1>2. g \in OAuth!Grants /\ g <= pasted
    BY RefreshesKnownGrant
  <1>3. pasted \notin unkept /\ g = pasted => OAuth!RefreshToken(q) = OAuth!Unspent(g)
    BY <1>1 DEF OAuthInv, StoredIsLast, OAuth!At
  <1>4. /\ Moved(q, "fail") \in PollRecords /\ Moved(q, "fail").pc = "fail"
        /\ Moved(q, "fail").token = poll[q].token /\ Moved(q, "fail").pasted = poll[q].pasted
    BY StepsTyped, IdleTyped DEF OAuthInv
  <1>5. \A x \in Polls : poll'[x] = IF x = q THEN Moved(q, "fail") ELSE poll[x]
    BY <1>1 DEF OAuthInv, OAuthTyped
  <1>6. OAuthTyped'
    BY <1>1, <1>2, <1>4 DEF OAuthInv, OAuthTyped
  <1>7. PollsTakeTurns'
    BY <1>1, <1>4, PollStays DEF AtWork, OAuthInv
  <1>8. TokensOfProvider'
    <2>1. \A x \in OAuth!Grants : x > pasted => x \notin respent'
      BY <1>1, <1>2 DEF OAuthInv, TokensOfProvider, OAuthTyped, OAuth!Grants, OAuthConstants
    <2>2. QED  BY <1>1, <1>4, <1>5, <2>1 DEF OAuthInv, TokensOfProvider, OfProvider
  <1>9. RefreshesOfPasted'
    BY <1>1, <1>4, <1>5 DEF OAuthInv, RefreshesOfPasted, OAuth!At
  <1>10. StoredIsLast'
    BY <1>1, <1>4, <1>5 DEF OAuthInv, StoredIsLast, OAuth!At, OAuth!RefreshToken, OAuth!Unspent
  <1>11. OAuth!SpentOnlyAfterUnkept'
    BY <1>1, <1>3 DEF OAuthInv, OAuth!SpentOnlyAfterUnkept
  <1>12. QED  BY <1>6, <1>7, <1>8, <1>9, <1>10, <1>11 DEF OAuthInv

LEMMA CheckKeeps ==
  ASSUME OAuthConstants, OAuthInv, NEW q \in Polls, OAuth!Check(q)
  PROVE  OAuthInv'
  <1> DEFINE w == IF OAuth!StillPasted(q) THEN "keep" ELSE "leave"
  <1>1. /\ poll[q].pc = "check" /\ poll' = [poll EXCEPT ![q] = Moved(q, w)]
        /\ unkept' = IF OAuth!StillPasted(q) THEN unkept ELSE unkept \cup {poll[q].token.grant}
        /\ UNCHANGED <<pasted, stored, polled, polling, rotates, issued, faults, respent>>
    BY DEF OAuth!Check, OAuth!At, OAuth!Goto, OAuth!provider, Moved
  <1>2. /\ Moved(q, w) \in PollRecords /\ Moved(q, w).pc = w
        /\ Moved(q, w).token = poll[q].token /\ Moved(q, w).pasted = poll[q].pasted
    BY StepsTyped, IdleTyped DEF OAuthInv
  <1>3. \A x \in Polls : poll'[x] = IF x = q THEN Moved(q, w) ELSE poll[x]
    BY <1>1 DEF OAuthInv, OAuthTyped
  <1>4. poll[q].token.grant \in OAuth!Grants
    BY <1>1 DEF OAuthInv, OAuthTyped, PollRecords, Tokens, RefreshesOfPasted, OAuth!At
  <1>5. OAuthTyped'
    BY <1>1, <1>2, <1>4 DEF OAuthInv, OAuthTyped
  <1>6. PollsTakeTurns'
    BY <1>1, <1>2, PollStays DEF AtWork, OAuthInv
  <1>7. TokensOfProvider'
    BY <1>1, <1>2, <1>3 DEF OAuthInv, TokensOfProvider, OfProvider
  <1>8. RefreshesOfPasted'
    <2>1. w = "keep" => poll[q].pasted = pasted
      BY DEF OAuth!StillPasted
    <2>2. w \in {"keep", "leave"}
      OBVIOUS
    <2> HIDE DEF w
    <2>3. QED  BY <1>1, <1>2, <1>3, <2>1, <2>2 DEF OAuthInv, RefreshesOfPasted, OAuth!At
  <1>9. StoredIsLast'
    BY <1>1, <1>2, <1>3 DEF OAuthInv, StoredIsLast, OAuth!At, OAuth!RefreshToken, OAuth!Unspent
  <1>10. QED  BY <1>1, <1>5, <1>6, <1>7, <1>8, <1>9 DEF OAuthInv, OAuth!SpentOnlyAfterUnkept

\* The update writes what was refreshed for the tokens that are pasted.
LEMMA KeepKeeps ==
  ASSUME OAuthConstants, OAuthInv, NEW q \in Polls, OAuth!Keep(q)
  PROVE  OAuthInv'
  <1>1. /\ poll[q].pc = "keep" /\ poll' = [poll EXCEPT ![q] = Moved(q, "leave")]
        /\ stored' = poll[q].token
        /\ UNCHANGED <<pasted, polled, polling, rotates, issued, faults, unkept, respent>>
    BY DEF OAuth!Keep, OAuth!Columns, OAuth!At, OAuth!Goto, OAuth!provider, Moved
  <1>2. /\ Moved(q, "leave") \in PollRecords /\ Moved(q, "leave").pc = "leave"
        /\ Moved(q, "leave").token = poll[q].token /\ Moved(q, "leave").pasted = poll[q].pasted
    BY StepsTyped, IdleTyped DEF OAuthInv
  <1>3. \A x \in Polls : poll'[x] = IF x = q THEN Moved(q, "leave") ELSE poll[x]
    BY <1>1 DEF OAuthInv, OAuthTyped
  <1>4. /\ poll[q].token \in Tokens /\ OfProvider(poll[q].token)
        /\ poll[q].token.grant = pasted /\ poll[q].token.access = issued[pasted]
    BY <1>1 DEF OAuthInv, OAuthTyped, PollRecords, RefreshesOfPasted, TokensOfProvider, OAuth!At
  <1>5. OAuthTyped'
    BY <1>1, <1>2, <1>4 DEF OAuthInv, OAuthTyped
  <1>6. PollsTakeTurns'
    BY <1>1, <1>2, PollStays DEF AtWork, OAuthInv
  <1>7. TokensOfProvider'
    BY <1>1, <1>2, <1>3, <1>4 DEF OAuthInv, TokensOfProvider, OfProvider
  <1>8. RefreshesOfPasted'
    BY <1>1, <1>2, <1>3, <1>4 DEF OAuthInv, RefreshesOfPasted, OAuth!At
  <1>9. StoredIsLast'
    BY <1>1, <1>2, <1>3, <1>4 DEF OAuthInv, StoredIsLast, OAuth!At, OAuth!RefreshToken, OAuth!Unspent
  <1>10. QED  BY <1>1, <1>5, <1>6, <1>7, <1>8, <1>9 DEF OAuthInv, OAuth!SpentOnlyAfterUnkept

LEMMA PollLeavesKeeps ==
  ASSUME OAuthConstants, OAuthInv, NEW q \in Polls, OAuth!Leave(q)
  PROVE  OAuthInv'
  <1>1. /\ poll[q].pc \in {"leave", "fail"} /\ OAuth!Line!Finish(q, OAuth!ThePlugin)
        /\ \/ poll' = [poll EXCEPT ![q] = Moved(q, "poll")]
           \/ poll' = [poll EXCEPT ![q] = OAuth!Idle]
        /\ UNCHANGED <<pasted, stored, rotates, issued, faults, unkept, respent>>
    BY DEF OAuth!Leave, OAuth!At, OAuth!Goto, OAuth!provider, Moved
  <1>2. /\ Moved(q, "poll") \in PollRecords /\ Moved(q, "poll").pc = "poll"
        /\ Moved(q, "poll").token = poll[q].token /\ Moved(q, "poll").pasted = poll[q].pasted
    BY StepsTyped, IdleTyped DEF OAuthInv
  <1>3. OfProvider(poll[q].token) /\ poll[q].pasted <= pasted
    BY DEF OAuthInv, TokensOfProvider
  <1>4. PICK r \in PollRecords : /\ poll' = [poll EXCEPT ![q] = r] /\ r.pc \in {"idle", "poll"}
                                 /\ OfProvider(r.token) /\ r.pasted <= pasted
    BY <1>1, <1>2, <1>3, IdleTyped
  <1>5. PollsTakeTurns'
    BY <1>1, <1>4, PollFinishes DEF AtWork, OAuthInv
  <1>6. QED  BY <1>1, <1>4, <1>5, PollMoves

LEMMA PollEndsKeeps ==
  ASSUME OAuthConstants, OAuthInv, NEW q \in Polls, OAuth!PollEnds(q)
  PROVE  OAuthInv'
  <1>1. /\ poll[q].pc = "poll" /\ poll' = [poll EXCEPT ![q] = OAuth!Idle]
        /\ UNCHANGED <<pasted, stored, polled, polling, rotates, issued, faults, unkept, respent>>
    BY DEF OAuth!PollEnds, OAuth!At, OAuth!provider
  <1>2. PollsTakeTurns'
    BY <1>1, IdleTyped, PollStays DEF AtWork, OAuthInv
  <1>3. QED  BY <1>1, <1>2, IdleTyped, PollMoves

LEMMA PollUnauthorizedKeeps ==
  ASSUME OAuthConstants, OAuthInv, NEW q \in Polls, OAuth!PollUnauthorized(q)
  PROVE  OAuthInv'
  <1>1. /\ poll[q].pc = "poll" /\ UNCHANGED <<pasted, stored, rotates, issued, faults, unkept, respent>>
        /\ \/ poll' = [poll EXCEPT ![q] = OAuth!Idle] /\ UNCHANGED <<polled, polling>>
           \/ poll' = [poll EXCEPT ![q] = OAuth!LastTry(q)] /\ OAuth!Line!Join(q, OAuth!ThePlugin)
    BY DEF OAuth!PollUnauthorized, OAuth!At, OAuth!provider
  <1>2. CASE poll' = [poll EXCEPT ![q] = OAuth!Idle] /\ UNCHANGED <<polled, polling>>
    <2>1. PollsTakeTurns'
      BY <1>1, <1>2, IdleTyped, PollStays DEF AtWork, OAuthInv
    <2>2. QED  BY <1>1, <1>2, <2>1, IdleTyped, PollMoves
  <1>3. CASE poll' = [poll EXCEPT ![q] = OAuth!LastTry(q)] /\ OAuth!Line!Join(q, OAuth!ThePlugin)
    <2>1. poll[q] \in PollRecords /\ OfProvider(poll[q].token) /\ poll[q].pasted <= pasted
      BY DEF OAuthInv, OAuthTyped, TokensOfProvider
    <2>2. /\ OAuth!LastTry(q) \in PollRecords /\ OAuth!LastTry(q).pc = "waiting"
          /\ OAuth!LastTry(q).token = poll[q].token /\ OAuth!LastTry(q).pasted = poll[q].pasted
      BY <2>1 DEF OAuth!LastTry, PollRecords
    <2>3. PollsTakeTurns'
      BY <1>1, <1>3, <2>2, PollJoins DEF AtWork, OAuthInv
    <2>4. QED  BY <1>1, <1>3, <2>1, <2>2, <2>3, PollMoves
  <1>4. QED  BY <1>1, <1>2, <1>3

\* A pasting comes with a grant of its own, none of whose tokens is known.
LEMMA PasteKeeps ==
  ASSUME OAuthConstants, OAuthInv, OAuth!Paste
  PROVE  OAuthInv'
  <1>1. /\ pasted < MaxPastings /\ pasted' = pasted + 1 /\ stored' = OAuth!NoToken
        /\ \A q \in Polls : poll[q].pc # "keep"
        /\ UNCHANGED <<poll, polled, polling, rotates, issued, faults, unkept, respent>>
    BY DEF OAuth!Paste, OAuth!At, OAuth!provider, OAuthConstants
  <1>2. pasted \in 0..MaxPastings /\ MaxPastings \in Nat
    BY DEF OAuthInv, OAuthTyped, OAuth!Grants, OAuthConstants
  <1>3. pasted' \in OAuth!Grants /\ pasted' > pasted
    BY <1>1, <1>2 DEF OAuth!Grants
  <1>4. OAuthTyped'
    BY <1>1, <1>3, IdleTyped DEF OAuthInv, OAuthTyped
  <1>5. PollsTakeTurns'
    BY <1>1 DEF OAuthInv, PollsTakeTurns
  <1>6. \A q \in Polls : poll[q].token.grant \in Int /\ poll[q].token.grant <= pasted
                         /\ poll[q].pasted \in Int /\ poll[q].pasted <= pasted
    BY DEF OAuthInv, OAuthTyped, PollRecords, Tokens, TokensOfProvider, OfProvider,
           OAuth!NoToken, OAuth!Grants, OAuth!Absent
  <1>7. \A q \in Polls : poll[q].token.grant < pasted' /\ poll[q].pasted < pasted'
    BY <1>1, <1>2, <1>6
  <1>8. TokensOfProvider'
    <2>1. \A q \in Polls : OfProvider(poll[q].token)' /\ (poll[q].pasted <= pasted)'
      BY <1>1, <1>2, <1>6 DEF OAuthInv, TokensOfProvider, OfProvider
    <2>2. \A x \in OAuth!Grants : x > pasted' => issued[x] = 0 /\ x \notin respent
      BY <1>1, <1>2 DEF OAuthInv, TokensOfProvider, OAuth!Grants
    <2>3. OfProvider(stored)'
      <3>1. OAuth!NoToken.grant = -1
        BY DEF OAuth!NoToken, OAuth!Absent
      <3>2. QED  BY <1>1, <1>2, <3>1 DEF OfProvider
    <2>4. QED  BY <1>1, <2>1, <2>2, <2>3 DEF TokensOfProvider
  <1>9. RefreshesOfPasted'
    BY <1>1, <1>7 DEF OAuthInv, RefreshesOfPasted, OAuth!At
  <1>10. issued[pasted'] = 0 /\ pasted' \notin respent
    BY <1>3 DEF OAuthInv, TokensOfProvider
  <1>11. StoredIsLast'
    <2>1. \A q \in Polls : OAuth!RefreshToken(q)' = OAuth!RefreshToken(q)
      BY <1>1 DEF OAuth!RefreshToken
    <2>2. \A q \in Polls : OAuth!RefreshToken(q)[1] <= pasted /\ OAuth!RefreshToken(q)[1] \in OAuth!Grants
      BY RefreshesKnownGrant
    <2>3. \A q \in Polls : OAuth!RefreshToken(q)'[1] # pasted'
      BY <1>1, <1>2, <2>1, <2>2 DEF OAuth!Grants
    <2>4. stored'.access = issued'[pasted']
      BY <1>1, <1>10 DEF OAuth!NoToken
    <2>5. QED  BY <2>3, <2>4 DEF StoredIsLast
  <1>12. QED  BY <1>1, <1>4, <1>5, <1>8, <1>9, <1>10, <1>11 DEF OAuthInv, OAuth!SpentOnlyAfterUnkept

LEMMA TokenAgesKeeps ==
  ASSUME OAuthConstants, OAuthInv, OAuth!TokenAges
  PROVE  OAuthInv'
  <1>1. /\ stored # OAuth!NoToken /\ stored' = [stored EXCEPT !.due = TRUE]
        /\ UNCHANGED <<pasted, poll, polled, polling, rotates, issued, faults, unkept, respent>>
    BY DEF OAuth!TokenAges, OAuth!provider
  <1>2. /\ stored' \in Tokens /\ stored'.grant = stored.grant
        /\ stored'.access = stored.access /\ stored'.refresh = stored.refresh
    BY <1>1 DEF OAuthInv, OAuthTyped, Tokens
  <1>3. OAuthTyped'
    BY <1>1, <1>2 DEF OAuthInv, OAuthTyped
  <1>4. PollsTakeTurns'
    BY <1>1 DEF OAuthInv, PollsTakeTurns
  <1>5. TokensOfProvider'
    BY <1>1, <1>2 DEF OAuthInv, TokensOfProvider, OfProvider
  <1>6. RefreshesOfPasted'
    BY <1>1, <1>2 DEF OAuthInv, RefreshesOfPasted, OAuth!At
  <1>7. StoredIsLast'
    BY <1>1, <1>2 DEF OAuthInv, StoredIsLast, OAuth!At, OAuth!RefreshToken, OAuth!Unspent
  <1>8. QED  BY <1>1, <1>3, <1>4, <1>5, <1>6, <1>7 DEF OAuthInv, OAuth!SpentOnlyAfterUnkept

\* The answers a crash loses are of grants whose refresh is not stored.
LEMMA OAuthCrashKeeps ==
  ASSUME OAuthConstants, OAuthInv, OAuth!Crash
  PROVE  OAuthInv'
  <1> DEFINE lost == {poll[q].token.grant : q \in {r \in Polls : OAuth!At(r, "check") \/ OAuth!At(r, "keep")}}
  <1>1. /\ faults' = faults + 1 /\ poll' = [q \in Polls |-> OAuth!Idle]
        /\ polled' = [k \in {OAuth!ThePlugin} |-> <<>>] /\ polling' = {}
        /\ unkept' = unkept \cup lost
        /\ UNCHANGED <<pasted, stored, rotates, issued, respent>>
    BY DEF OAuth!Crash, OAuth!provider
  <1>2. lost \subseteq OAuth!Grants
    <2>1. ASSUME NEW q \in Polls, OAuth!At(q, "check") \/ OAuth!At(q, "keep")
          PROVE  poll[q].token.grant \in OAuth!Grants
      BY <2>1 DEF OAuthInv, OAuthTyped, PollRecords, Tokens, RefreshesOfPasted
    <2>2. QED  BY <2>1
  <1>3. OAuthTyped'
    BY <1>1, <1>2, IdleTyped DEF OAuthInv, OAuthTyped
  <1>4. PollsTakeTurns'
    BY <1>1, IdleTyped DEF PollsTakeTurns
  <1>5. TokensOfProvider'
    BY <1>1, IdleTyped DEF OAuthInv, TokensOfProvider, OfProvider
  <1>6. RefreshesOfPasted'
    BY <1>1, IdleTyped DEF OAuthInv, RefreshesOfPasted, OAuth!At
  <1>7. StoredIsLast'
    BY <1>1, IdleTyped DEF OAuthInv, StoredIsLast, OAuth!At
  <1>8. QED  BY <1>1, <1>3, <1>4, <1>5, <1>6, <1>7 DEF OAuthInv, OAuth!SpentOnlyAfterUnkept

LEMMA OAuthStepKeeps == OAuthConstants /\ OAuthInv /\ [OAuth!Next]_oauthVars => OAuthInv'
  <1> SUFFICES ASSUME OAuthConstants, OAuthInv, [OAuth!Next]_oauthVars PROVE OAuthInv'
    OBVIOUS
  <1>1. CASE UNCHANGED oauthVars
    BY <1>1 DEF oauthVars, OAuthInv, OAuthTyped, PollsTakeTurns, TokensOfProvider, OfProvider, RefreshesOfPasted,
                StoredIsLast, OAuth!SpentOnlyAfterUnkept, OAuth!At, OAuth!RefreshToken, OAuth!Unspent
  <1>2. ASSUME NEW q \in Polls, OAuth!Begin(q) \/ OAuth!PollStep(q) PROVE OAuthInv'
    BY <1>2, BeginKeeps, AskKeeps, LoadKeeps, SendKeeps, SendRefusedKeeps, CheckKeeps, KeepKeeps, PollLeavesKeeps,
       PollEndsKeeps, PollUnauthorizedKeeps DEF OAuth!PollStep
  <1>3. QED  BY <1>1, <1>2, PasteKeeps, TokenAgesKeeps, OAuthCrashKeeps DEF OAuth!Next

\* Whatever is pasted, ages, expires, gets lost or crashes, and however many
\* Data Sources poll.
THEOREM OAuthInvariant ==
  ASSUME ~SaveBetween
  PROVE  QueuesSpec => []OAuthInv
  <1>0. OAuthConstants
    BY QueuesAssumptions DEF OAuth!OAuthTokenAssumptions, OAuthConstants
  <1>1. QueuesInit => OAuthInv
    BY <1>0, OAuthInitHolds DEF QueuesInit
  <1>2. OAuthInv /\ [LockMoves \/ WebhookMoves \/ OAuthMoves]_queuesVars => OAuthInv'
    <2>1. [LockMoves \/ WebhookMoves \/ OAuthMoves]_queuesVars => [OAuth!Next]_oauthVars
      BY DEF LockMoves, WebhookMoves, OAuthMoves, queuesVars
    <2>2. QED  BY <1>0, <2>1, OAuthStepKeeps
  <1>3. QED  BY <1>1, <1>2, PTL DEF QueuesSpec

\* With no save between a refresh's check and its update, the stored token is
\* one of the pasting in the Field Values, and the last answered for it unless
\* an answer was lost: of any number of polls, pastings and faults.
THEOREM StoredOfPasted ==
  ASSUME ~SaveBetween
  PROVE  QueuesSpec => []StoredIsOfPasted
  <1>1. OAuthInv => StoredIsOfPasted
    BY DEF OAuthInv, RefreshesOfPasted, StoredIsLast, StoredIsOfPasted, OAuth!StoredIsOfPasted
  <1>2. QED  BY <1>1, OAuthInvariant, PTL

\* Nor is a rotating provider sent a refresh token it has spent, until an answer
\* of its own could not be stored.
THEOREM SpentAfterUnkept ==
  ASSUME ~SaveBetween
  PROVE  QueuesSpec => []SpentOnlyAfterUnkept
  <1>1. OAuthInv => SpentOnlyAfterUnkept
    BY DEF OAuthInv, SpentOnlyAfterUnkept
  <1>2. QED  BY <1>1, OAuthInvariant, PTL

-----------------------------------------------------------------------------
(* WebhookIngest: each POST merges onto what is stored, and what is drawn  *)
(* last is what is stored, whatever clears, saves and polls run beside it. *)

Tasks == Posts \cup Others

Payloads == [data: Seq(Posts), at: Posts \cup {None}]

PostStates == {"idle", "guarded", "waiting", "store", "draw", "leave", "answered"}
OtherStates == {"idle", "clear", "invalidate", "reload", "draw", "poll"}

Rows == [strategy: {"standard", "deep_merge", "stream"}, limit: {0, StreamLimit}, version: Nat, payload: Payloads]

TaskRecords ==
  [pc: PostStates \cup OtherStates, version: Nat, payload: Payloads, todo: SUBSET Screens]

WebhookTyped ==
  /\ row \in Rows
  /\ exists \in BOOLEAN /\ disturbed \in BOOLEAN /\ accepted \subseteq Posts
  /\ drawn \in [Screens -> [version: Nat, payload: Payloads] \cup {None}]
  /\ task \in [Tasks -> TaskRecords]
  /\ \A p \in Posts : task[p].pc \in PostStates
  /\ \A o \in Others : task[o].pc \in OtherStates

\* The POST whose turn it is stands first in the line.
PostsTakeTurns ==
  /\ posted \in [{Webhook!Plugin} -> Seq(Posts)]
  /\ posting = {p \in Posts : task[p].pc \in {"store", "draw", "leave"}}
  /\ \A p \in posting : posted[Webhook!Plugin] # <<>> /\ p = Head(posted[Webhook!Plugin])

\* What a task r goes by: what it draws is what is stored, unless that was
\* disturbed, and so is what it merged onto, when it is a POST t about to store.
Current(t, r) ==
  /\ exists /\ ~disturbed /\ r.pc \in {"draw", "poll"} => r.version = row.version /\ r.payload = row.payload
  /\ exists /\ ~ClearBetween /\ r.pc = "store" =>
       r.payload.data = Webhook!Payload!Merged(row.strategy, row.payload.data, t)

TasksCurrent == \A t \in Tasks : Current(t, task[t])

\* A POST is stored once, on its way to its answer.
AcceptedOnce == \A p \in accepted : task[p].pc \in {"draw", "leave", "answered"}

\* A Screen that shows something else is about to be drawn.
Stored == [version |-> row.version, payload |-> row.payload]
Redraws(r, s) == (r.pc = "draw" /\ s \in r.todo) \/ r.pc \in {"invalidate", "reload"}
DrawnOrRedrawn ==
  exists /\ ~disturbed =>
    \A s \in Screens : drawn[s] \in {None, Stored} \/ \E t \in Tasks : Redraws(task[t], s)

WebhookInv ==
  /\ WebhookTyped /\ PostsTakeTurns /\ TasksCurrent /\ AcceptedOnce /\ DrawnOrRedrawn

WebhookConstants ==
  /\ Arrays \subseteq Posts /\ StreamLimit \in Nat \ {0} /\ MaxSaves \in Nat
  /\ Posts \cap Others = {} /\ None \notin Posts

\* What is merged is a payload of POSTs, whatever is stored and however.
LEMMA MergedIsOfPosts ==
  ASSUME WebhookConstants, NEW stored_ \in Seq(Posts), NEW p \in Posts,
         NEW how \in {"standard", "deep_merge", "stream"}
  PROVE  Webhook!Payload!Merged(how, stored_, p) \in Seq(Posts)
  <1> DEFINE isObject == stored_ # <<>> /\ stored_[Len(stored_)] \notin Arrays
             both == IF p \notin Arrays /\ isObject THEN Append(stored_, p) ELSE <<p>>
  <1>1. <<p>> \in Seq(Posts) /\ both \in Seq(Posts) /\ Len(both) \in Nat
    OBVIOUS
  <1> HIDE DEF both
  <1>2. Webhook!Payload!Newest(both) \in Seq(Posts)
    <2>1. CASE Len(both) <= StreamLimit
      BY <1>1, <2>1 DEF Webhook!Payload!Newest
    <2>2. CASE ~(Len(both) <= StreamLimit)
      <3>1. Len(both) - StreamLimit + 1 \in 1..Len(both)
        BY <1>1, <2>2 DEF WebhookConstants
      <3>2. SubSeq(both, Len(both) - StreamLimit + 1, Len(both)) \in Seq(Posts)
        BY <1>1, <3>1, SubSeqProperties
      <3>3. QED  BY <2>2, <3>2 DEF Webhook!Payload!Newest
    <2>3. QED  BY <2>1, <2>2
  <1>3. Webhook!Payload!Merged(how, stored_, p) \in {<<p>>, both, Webhook!Payload!Newest(both)}
    BY DEF Webhook!Payload!Merged, both
  <1>4. QED  BY <1>1, <1>2, <1>3

LEMMA WebhookInitHolds == WebhookConstants /\ Webhook!Init => WebhookInv
  <1> SUFFICES ASSUME WebhookConstants, Webhook!Init PROVE WebhookInv
    OBVIOUS
  <1> USE DEF WebhookConstants, Webhook!Init, Tasks
  <1>1. Webhook!Empty \in Payloads
    BY DEF Webhook!Empty, Payloads
  <1>2. Webhook!Idle \in TaskRecords /\ Webhook!Idle.pc = "idle"
    BY <1>1 DEF Webhook!Idle, TaskRecords, PostStates
  <1>3. \A t \in Tasks : task[t] = Webhook!Idle
    OBVIOUS
  <1>4. WebhookTyped
    <2>1. row \in Rows
      BY <1>1 DEF Rows
    <2>2. task \in [Tasks -> TaskRecords] /\ \A t \in Tasks : task[t].pc = "idle"
      BY <1>2, <1>3
    <2>3. QED  BY <2>1, <2>2 DEF WebhookTyped, PostStates, OtherStates
  <1>5. PostsTakeTurns
    BY <1>2, <1>3 DEF PostsTakeTurns, Webhook!Line!Init
  <1>6. TasksCurrent /\ AcceptedOnce
    BY <1>2, <1>3 DEF TasksCurrent, AcceptedOnce, Current
  <1>7. DrawnOrRedrawn
    BY DEF DrawnOrRedrawn
  <1>8. QED  BY <1>4, <1>5, <1>6, <1>7 DEF WebhookInv

Taken == {"store", "draw", "leave"}

\* A task that moves on with the line as it is.
LEMMA TaskStays ==
  ASSUME WebhookConstants, WebhookTyped, PostsTakeTurns, NEW t \in Tasks, NEW r \in TaskRecords,
         task' = [task EXCEPT ![t] = r], UNCHANGED <<posted, posting>>,
         t \in Posts => (r.pc \in Taken <=> task[t].pc \in Taken)
  PROVE  PostsTakeTurns'
  <1>1. \A p \in Posts : task'[p].pc \in Taken <=> task[p].pc \in Taken
    BY DEF WebhookTyped, Tasks
  <1>2. QED  BY <1>1 DEF PostsTakeTurns, Taken

LEMMA PostJoins ==
  ASSUME WebhookTyped, PostsTakeTurns, NEW p \in Posts, NEW r \in TaskRecords, task' = [task EXCEPT ![p] = r],
         r.pc \notin Taken, task[p].pc \notin Taken, Webhook!Line!Join(p, Webhook!Plugin)
  PROVE  PostsTakeTurns'
  <1>1. /\ posted' = [posted EXCEPT ![Webhook!Plugin] = Append(posted[Webhook!Plugin], p)]
        /\ UNCHANGED posting
    BY DEF Webhook!Line!Join
  <1>2. posted' \in [{Webhook!Plugin} -> Seq(Posts)]
    BY <1>1 DEF PostsTakeTurns
  <1>3. posted[Webhook!Plugin] # <<>> =>
          /\ posted'[Webhook!Plugin] # <<>>
          /\ Head(posted'[Webhook!Plugin]) = Head(posted[Webhook!Plugin])
    BY <1>1 DEF PostsTakeTurns
  <1>4. posting' = {x \in Posts : task'[x].pc \in Taken}
    BY <1>1 DEF WebhookTyped, PostsTakeTurns, Taken, Tasks
  <1>5. QED  BY <1>1, <1>2, <1>3, <1>4 DEF PostsTakeTurns, Taken

LEMMA PostBegins ==
  ASSUME WebhookTyped, PostsTakeTurns, NEW p \in Posts, NEW r \in TaskRecords, task' = [task EXCEPT ![p] = r],
         r.pc \in Taken, Webhook!Line!Begin(p, Webhook!Plugin)
  PROVE  /\ PostsTakeTurns'
         /\ \A x \in Posts : task[x].pc \notin Taken
  <1>1. /\ posted[Webhook!Plugin] # <<>> /\ p = Head(posted[Webhook!Plugin]) /\ p \notin posting
        /\ posting' = posting \cup {p} /\ UNCHANGED posted
    BY DEF Webhook!Line!Begin
  <1>2. posting = {}
    BY <1>1 DEF PostsTakeTurns
  <1>3. \A x \in Posts : task[x].pc \notin Taken
    BY <1>2 DEF PostsTakeTurns, Taken
  <1>4. posting' = {x \in Posts : task'[x].pc \in Taken}
    BY <1>1, <1>2, <1>3 DEF WebhookTyped, Tasks
  <1>5. QED  BY <1>1, <1>2, <1>3, <1>4 DEF PostsTakeTurns, Taken

LEMMA PostFinishes ==
  ASSUME WebhookTyped, PostsTakeTurns, NEW p \in Posts, NEW r \in TaskRecords, task' = [task EXCEPT ![p] = r],
         r.pc \notin Taken, Webhook!Line!Finish(p, Webhook!Plugin)
  PROVE  PostsTakeTurns'
  <1>1. /\ posted[Webhook!Plugin] # <<>> /\ p = Head(posted[Webhook!Plugin])
        /\ posted' = [posted EXCEPT ![Webhook!Plugin] = Tail(posted[Webhook!Plugin])]
        /\ posting' = posting \ {p}
    BY DEF Webhook!Line!Finish
  <1>2. posting \subseteq {p}
    BY <1>1 DEF PostsTakeTurns
  <1>3. posting' = {}
    BY <1>1, <1>2
  <1>4. posted' \in [{Webhook!Plugin} -> Seq(Posts)]
    BY <1>1 DEF PostsTakeTurns
  <1>5. posting' = {x \in Posts : task'[x].pc \in Taken}
    BY <1>2, <1>3 DEF WebhookTyped, PostsTakeTurns, Taken, Tasks
  <1>6. QED  BY <1>3, <1>4, <1>5 DEF PostsTakeTurns, Taken

\* The POST whose turn it is is the only one past its merge.
LEMMA OnePostWorks ==
  ASSUME PostsTakeTurns, NEW p \in Posts, NEW q \in Posts, task[p].pc \in Taken, task[q].pc \in Taken
  PROVE  p = q
  BY DEF PostsTakeTurns, Taken

\* What a task may become
MayBecome(t, r) == r \in TaskRecords /\ r.pc \in (IF t \in Posts THEN PostStates ELSE OtherStates)

LEMMA TaskTyped ==
  ASSUME WebhookConstants, WebhookTyped, NEW t \in Tasks, NEW r, MayBecome(t, r), task' = [task EXCEPT ![t] = r]
  PROVE  /\ task' \in [Tasks -> TaskRecords]
         /\ \A x \in Tasks : task'[x] = IF x = t THEN r ELSE task[x]
         /\ \A p \in Posts : task'[p].pc \in PostStates
         /\ \A o \in Others : task'[o].pc \in OtherStates
  <1>1. task \in [Tasks -> TaskRecords] /\ r \in TaskRecords
    BY DEF WebhookTyped, MayBecome
  <1>2. \A x \in Tasks : task'[x] = IF x = t THEN r ELSE task[x]
    BY <1>1
  <1>3. \A p \in Posts : task'[p].pc \in PostStates
    BY <1>2 DEF WebhookTyped, MayBecome, Tasks
  <1>4. \A o \in Others : task'[o].pc \in OtherStates
    BY <1>2 DEF WebhookTyped, MayBecome, Tasks, WebhookConstants
  <1>5. QED  BY <1>1, <1>2, <1>3, <1>4

\* A task that moves on and leaves the rows as they are.
LEMMA TaskMoves ==
  ASSUME WebhookConstants, WebhookInv, NEW t \in Tasks, NEW r, MayBecome(t, r), task' = [task EXCEPT ![t] = r],
         PostsTakeTurns', Current(t, r),
         t \in accepted => r.pc \in {"draw", "leave", "answered"},
         disturbed' \in BOOLEAN,
         ~disturbed' => ~disturbed /\ \A s \in Screens : Redraws(task[t], s) => Redraws(r, s),
         UNCHANGED <<row, exists, drawn, accepted>>
  PROVE  WebhookInv'
  <1>1. \A x \in Tasks : task'[x] = IF x = t THEN r ELSE task[x]
    BY TaskTyped DEF WebhookInv
  <1>2. WebhookTyped'
    BY TaskTyped DEF WebhookInv, WebhookTyped
  <1>3. TasksCurrent'
    <2>1. ASSUME NEW x \in Tasks PROVE Current(x, task[x])'
      BY <1>1 DEF WebhookInv, TasksCurrent, Current
    <2>2. QED  BY <2>1 DEF TasksCurrent
  <1>4. AcceptedOnce'
    BY <1>1 DEF WebhookInv, AcceptedOnce, WebhookTyped, Tasks
  <1>5. DrawnOrRedrawn'
    <2> SUFFICES ASSUME exists, ~disturbed', NEW s \in Screens
                 PROVE  drawn[s] \in {None, Stored} \/ \E x \in Tasks : Redraws(task'[x], s)
      BY DEF DrawnOrRedrawn, Stored
    <2>1. drawn[s] \in {None, Stored} \/ \E x \in Tasks : Redraws(task[x], s)
      BY DEF WebhookInv, DrawnOrRedrawn
    <2>2. QED  BY <1>1, <2>1
  <1>6. QED  BY <1>2, <1>3, <1>4, <1>5 DEF WebhookInv

\* A task as it was, but for where it stands.
MovedOn(t, w) == [task[t] EXCEPT !.pc = w]

LEMMA MovedOnTyped ==
  ASSUME WebhookTyped, NEW t \in Tasks, NEW w \in PostStates \cup OtherStates
  PROVE  /\ MovedOn(t, w) \in TaskRecords /\ MovedOn(t, w).pc = w
         /\ MovedOn(t, w).version = task[t].version /\ MovedOn(t, w).payload = task[t].payload
         /\ MovedOn(t, w).todo = task[t].todo
  BY DEF WebhookTyped, TaskRecords, MovedOn

\* A task that holds nothing but where it stands, or the Plugin as it is.
Fresh(w) == [Webhook!Idle EXCEPT !.pc = w]

LEMMA FreshTyped ==
  ASSUME NEW w \in PostStates \cup OtherStates
  PROVE  Fresh(w) \in TaskRecords /\ Fresh(w).pc = w
  <1>1. Webhook!Empty \in Payloads
    BY DEF Webhook!Empty, Payloads
  <1>2. QED  BY <1>1 DEF Webhook!Idle, TaskRecords, Fresh

LEMMA LoadedTyped ==
  ASSUME WebhookTyped, NEW screens \in SUBSET Screens, NEW w \in PostStates \cup OtherStates
  PROVE  /\ Webhook!Loaded(w) \in TaskRecords /\ Webhook!Loaded(w).pc = w
         /\ Webhook!ToDraw(w, screens) \in TaskRecords /\ Webhook!ToDraw(w, screens).pc = w
         /\ Webhook!ToDraw(w, screens).version = row.version /\ Webhook!ToDraw(w, screens).payload = row.payload
         /\ Webhook!ToDraw(w, screens).todo = screens
  <1>1. row.version \in Nat /\ row.payload \in Payloads
    BY DEF WebhookTyped, Rows
  <1>2. Webhook!Empty \in Payloads
    BY DEF Webhook!Empty, Payloads
  <1>3. Webhook!Loaded(w) \in TaskRecords /\ Webhook!Loaded(w).pc = w
    BY <1>1, <1>2 DEF Webhook!Loaded, Webhook!Idle, TaskRecords
  <1>4. QED  BY <1>1, <1>3 DEF Webhook!ToDraw, TaskRecords

LEMMA NothingTyped == Webhook!Empty \in Payloads /\ Webhook!Idle \in TaskRecords /\ Webhook!Idle.pc = "idle"
  <1>1. Webhook!Empty \in Payloads
    BY DEF Webhook!Empty, Payloads
  <1>2. QED  BY <1>1 DEF Webhook!Idle, TaskRecords, PostStates

-----------------------------------------------------------------------------
(* The POSTs' steps.                                                       *)

LEMMA GuardKeeps ==
  ASSUME WebhookConstants, WebhookInv, NEW p \in Posts, Webhook!Guard(p)
  PROVE  WebhookInv'
  <1>1. PICK r \in {Webhook!Loaded("guarded"), Fresh("answered")} :
        /\ task[p].pc = "idle" /\ task' = [task EXCEPT ![p] = r]
        /\ UNCHANGED <<row, exists, drawn, posted, posting, accepted, disturbed>>
    BY DEF Webhook!Guard, Webhook!At, Webhook!Become, Webhook!queue, Webhook!history, Fresh
  <1>2. r \in TaskRecords /\ r.pc \in {"guarded", "answered"}
    BY <1>1, LoadedTyped, FreshTyped DEF WebhookInv, PostStates
  <1>3. MayBecome(p, r) /\ p \in Tasks
    BY <1>2 DEF MayBecome, PostStates, Tasks
  <1>4. PostsTakeTurns'
    BY <1>1, <1>2, <1>3, TaskStays DEF WebhookInv, Taken
  <1>5. Current(p, r) /\ p \notin accepted
    BY <1>1, <1>2 DEF Current, WebhookInv, AcceptedOnce
  <1>6. \A s \in Screens : ~Redraws(task[p], s)
    BY <1>1 DEF Redraws
  <1>7. disturbed' \in BOOLEAN
    BY <1>1 DEF WebhookInv, WebhookTyped
  <1>8. QED  BY <1>1, <1>3, <1>4, <1>5, <1>6, <1>7, TaskMoves

LEMMA RefuseKeeps ==
  ASSUME WebhookConstants, WebhookInv, NEW p \in Posts, Webhook!Refuse(p)
  PROVE  WebhookInv'
  <1>1. /\ task[p].pc = "guarded" /\ task' = [task EXCEPT ![p] = Fresh("answered")]
        /\ UNCHANGED <<row, exists, drawn, posted, posting, accepted, disturbed>>
    BY DEF Webhook!Refuse, Webhook!At, Webhook!Become, Webhook!queue, Webhook!history, Fresh
  <1>2. Fresh("answered") \in TaskRecords /\ Fresh("answered").pc = "answered" /\ p \in Tasks
    BY FreshTyped DEF PostStates, Tasks
  <1>3. MayBecome(p, Fresh("answered"))
    BY <1>2 DEF MayBecome, PostStates
  <1>4. PostsTakeTurns'
    BY <1>1, <1>2, TaskStays DEF WebhookInv, Taken
  <1>5. Current(p, Fresh("answered"))
    BY <1>2 DEF Current
  <1>6. \A s \in Screens : ~Redraws(task[p], s)
    BY <1>1 DEF Redraws
  <1>7. disturbed' \in BOOLEAN
    BY <1>1 DEF WebhookInv, WebhookTyped
  <1>8. QED  BY <1>1, <1>2, <1>3, <1>4, <1>5, <1>6, <1>7, TaskMoves

LEMMA EnqueueKeeps ==
  ASSUME WebhookConstants, WebhookInv, NEW p \in Posts, Webhook!Enqueue(p)
  PROVE  WebhookInv'
  <1>1. /\ task[p].pc = "guarded" /\ task' = [task EXCEPT ![p] = MovedOn(p, "waiting")]
        /\ Webhook!Line!Join(p, Webhook!Plugin)
        /\ UNCHANGED <<row, exists, drawn, accepted, disturbed>>
    BY DEF Webhook!Enqueue, Webhook!At, Webhook!Goto, Webhook!history, MovedOn
  <1>2. MovedOn(p, "waiting") \in TaskRecords /\ MovedOn(p, "waiting").pc = "waiting" /\ p \in Tasks
    BY MovedOnTyped DEF WebhookInv, PostStates, Tasks
  <1>3. MayBecome(p, MovedOn(p, "waiting"))
    BY <1>2 DEF MayBecome, PostStates
  <1>4. PostsTakeTurns'
    BY <1>1, <1>2, PostJoins DEF WebhookInv, Taken
  <1>5. Current(p, MovedOn(p, "waiting")) /\ p \notin accepted
    BY <1>1, <1>2 DEF Current, WebhookInv, AcceptedOnce
  <1>6. \A s \in Screens : ~Redraws(task[p], s)
    BY <1>1 DEF Redraws
  <1>7. disturbed' \in BOOLEAN
    BY <1>1 DEF WebhookInv, WebhookTyped
  <1>8. QED  BY <1>1, <1>2, <1>3, <1>4, <1>5, <1>6, <1>7, TaskMoves

LEMMA MergeKeeps ==
  ASSUME WebhookConstants, WebhookInv, NEW p \in Posts, Webhook!Merge(p)
  PROVE  WebhookInv'
  <1> DEFINE merged == [data |-> Webhook!MergedOntoStored(p), at |-> p]
             toStore == [task[p] EXCEPT !.pc = "store", !.payload = merged]
  <1>1. PICK r \in {toStore, Fresh("leave")} :
        /\ task[p].pc = "waiting" /\ Webhook!Line!Begin(p, Webhook!Plugin)
        /\ task' = [task EXCEPT ![p] = r]
        /\ UNCHANGED <<row, exists, drawn, accepted, disturbed>>
    BY DEF Webhook!Merge, Webhook!At, Webhook!history, Fresh
  <1>2. merged \in Payloads
    BY MergedIsOfPosts DEF Webhook!MergedOntoStored, Payloads, WebhookInv, WebhookTyped, Rows
  <1>3. toStore \in TaskRecords /\ toStore.pc = "store" /\ toStore.payload = merged
    BY <1>2 DEF WebhookInv, WebhookTyped, TaskRecords, PostStates, Tasks
  <1>4. merged.data = Webhook!MergedOntoStored(p)
    OBVIOUS
  <1> HIDE DEF merged, toStore
  <1>5. Fresh("leave") \in TaskRecords /\ Fresh("leave").pc = "leave" /\ p \in Tasks
    BY FreshTyped DEF PostStates, Tasks
  <1>6. MayBecome(p, r)
    BY <1>3, <1>5 DEF MayBecome, PostStates
  <1>7. PostsTakeTurns'
    BY <1>1, <1>3, <1>5, PostBegins DEF WebhookInv, Taken
  <1>8. Current(p, r) /\ p \notin accepted
    BY <1>1, <1>3, <1>4, <1>5 DEF Current, WebhookInv, AcceptedOnce, Webhook!MergedOntoStored
  <1>9. \A s \in Screens : ~Redraws(task[p], s)
    BY <1>1 DEF Redraws
  <1>10. disturbed' \in BOOLEAN
    BY <1>1 DEF WebhookInv, WebhookTyped
  <1>11. QED  BY <1>1, <1>5, <1>6, <1>7, <1>8, <1>9, <1>10, TaskMoves

\* A POST stores what it merged: it is the only POST that does, and what is drawn
\* beside it disturbs it.
LEMMA StoreKeeps ==
  ASSUME WebhookConstants, WebhookInv, NEW p \in Posts, Webhook!Store(p)
  PROVE  WebhookInv'
  <1> DEFINE r == [task[p] EXCEPT !.pc = "draw", !.todo = Screens]
  <1>1. /\ task[p].pc = "store" /\ task' = [task EXCEPT ![p] = r]
        /\ row' = (IF exists THEN [row EXCEPT !.payload = task[p].payload] ELSE row)
        /\ accepted' = (IF exists THEN accepted \cup {p} ELSE accepted)
        /\ disturbed' = (task[p].version # row.version \/ Webhook!Drawing(Others))
        /\ UNCHANGED <<exists, drawn, posted, posting>>
    BY DEF Webhook!Store, Webhook!At, Webhook!queue, Webhook!InRow
  <1>2. p \in Tasks /\ task[p] \in TaskRecords
    BY DEF WebhookInv, WebhookTyped, Tasks
  <1>3. /\ r \in TaskRecords /\ r.pc = "draw" /\ r.todo = Screens
        /\ r.version = task[p].version /\ r.payload = task[p].payload
    BY <1>2 DEF TaskRecords, PostStates
  <1> HIDE DEF r
  <1>4. MayBecome(p, r)
    BY <1>3 DEF MayBecome, PostStates
  <1>5. \A x \in Tasks : task'[x] = IF x = p THEN r ELSE task[x]
    BY <1>1, <1>2, <1>4, TaskTyped DEF WebhookInv
  <1>6. /\ row' \in Rows
        /\ row'.version = row.version
        /\ row'.payload = IF exists THEN task[p].payload ELSE row.payload
    BY <1>1, <1>2 DEF WebhookInv, WebhookTyped, TaskRecords, Rows
  <1>7. WebhookTyped'
    <2>1. disturbed' \in BOOLEAN
      BY <1>1 DEF Webhook!Drawing
    <2>2. QED  BY <1>1, <1>2, <1>4, <1>6, <2>1, TaskTyped DEF WebhookInv, WebhookTyped
  <1>8. PostsTakeTurns'
    BY <1>1, <1>2, <1>3, TaskStays DEF WebhookInv, Taken
  <1>9. TasksCurrent'
    <2>1. ASSUME NEW x \in Tasks, x # p PROVE Current(x, task[x])'
      <3>1. CASE x \in Posts
        <4>1. task[x].pc \notin {"store", "draw"} /\ task[x].pc # "poll"
          BY <1>1, <2>1, <3>1, OnePostWorks DEF WebhookInv, WebhookTyped, PostStates, Taken
        <4>2. QED  BY <1>5, <2>1, <4>1 DEF Current
      <3>2. CASE x \in Others
        <4>1. task[x].pc # "store" /\ (task[x].pc \in {"draw", "poll"} => disturbed')
          BY <1>1, <3>2 DEF WebhookInv, WebhookTyped, OtherStates, Webhook!Drawing
        <4>2. QED  BY <1>5, <2>1, <4>1 DEF Current
      <3>3. QED  BY <3>1, <3>2 DEF Tasks
    <2>2. Current(p, task[p])'
      BY <1>1, <1>2, <1>3, <1>5, <1>6 DEF Current
    <2>3. QED  BY <2>1, <2>2 DEF TasksCurrent
  <1>10. AcceptedOnce'
    BY <1>1, <1>2, <1>3, <1>5 DEF WebhookInv, AcceptedOnce, WebhookTyped, Tasks
  <1>11. DrawnOrRedrawn'
    BY <1>2, <1>3, <1>5 DEF DrawnOrRedrawn, Redraws
  <1>12. QED  BY <1>7, <1>8, <1>9, <1>10, <1>11 DEF WebhookInv

LEMMA LeaveLineKeeps ==
  ASSUME WebhookConstants, WebhookInv, NEW p \in Posts, Webhook!Leave(p)
  PROVE  WebhookInv'
  <1>1. /\ task[p].pc = "leave" /\ task' = [task EXCEPT ![p] = Fresh("answered")]
        /\ Webhook!Line!Finish(p, Webhook!Plugin)
        /\ UNCHANGED <<row, exists, drawn, accepted, disturbed>>
    BY DEF Webhook!Leave, Webhook!TurnEnds, Webhook!At, Webhook!Become, Webhook!history, Fresh
  <1>2. Fresh("answered") \in TaskRecords /\ Fresh("answered").pc = "answered" /\ p \in Tasks
    BY FreshTyped DEF PostStates, Tasks
  <1>3. MayBecome(p, Fresh("answered"))
    BY <1>2 DEF MayBecome, PostStates
  <1>4. PostsTakeTurns'
    BY <1>1, <1>2, PostFinishes DEF WebhookInv, Taken
  <1>5. Current(p, Fresh("answered"))
    BY <1>2 DEF Current
  <1>6. \A s \in Screens : ~Redraws(task[p], s)
    BY <1>1 DEF Redraws
  <1>7. disturbed' \in BOOLEAN
    BY <1>1 DEF WebhookInv, WebhookTyped
  <1>8. QED  BY <1>1, <1>2, <1>3, <1>4, <1>5, <1>6, <1>7, TaskMoves

LEMMA PostFailsKeeps ==
  ASSUME WebhookConstants, WebhookInv, NEW p \in Posts, Webhook!PostFails(p)
  PROVE  WebhookInv'
  <1>1. /\ task[p].pc \in {"store", "draw"} /\ task' = [task EXCEPT ![p] = Fresh("leave")]
        /\ disturbed' = (disturbed \/ task[p].pc = "draw")
        /\ UNCHANGED <<row, exists, drawn, posted, posting, accepted>>
    BY DEF Webhook!PostFails, Webhook!At, Webhook!Become, Webhook!queue, Fresh
  <1>2. Fresh("leave") \in TaskRecords /\ Fresh("leave").pc = "leave" /\ p \in Tasks
    BY FreshTyped DEF PostStates, Tasks
  <1>3. MayBecome(p, Fresh("leave"))
    BY <1>2 DEF MayBecome, PostStates
  <1>4. PostsTakeTurns'
    BY <1>1, <1>2, TaskStays DEF WebhookInv, Taken
  <1>5. Current(p, Fresh("leave"))
    BY <1>2 DEF Current
  <1>6. ~disturbed' => ~disturbed /\ \A s \in Screens : ~Redraws(task[p], s)
    BY <1>1 DEF Redraws
  <1>7. disturbed' \in BOOLEAN
    BY <1>1 DEF WebhookInv, WebhookTyped
  <1>8. QED  BY <1>1, <1>2, <1>3, <1>4, <1>5, <1>6, <1>7, TaskMoves

-----------------------------------------------------------------------------
(* The steps of a clear, a save, a poll, and a drawing.                    *)

LEMMA BeginClearKeeps ==
  ASSUME WebhookConstants, WebhookInv, NEW o \in Others, Webhook!BeginClear(o)
  PROVE  WebhookInv'
  <1> DEFINE r == Webhook!Loaded("clear")
  <1>1. /\ task[o].pc = "idle" /\ task' = [task EXCEPT ![o] = r]
        /\ UNCHANGED <<row, exists, drawn, posted, posting, accepted, disturbed>>
    BY DEF Webhook!BeginClear, Webhook!At, Webhook!queue, Webhook!history
  <1>2. r \in TaskRecords /\ r.pc = "clear" /\ o \in Tasks /\ o \notin Posts
    BY LoadedTyped DEF WebhookInv, OtherStates, Tasks, WebhookConstants
  <1> HIDE DEF r
  <1>3. MayBecome(o, r)
    BY <1>2 DEF MayBecome, OtherStates
  <1>4. PostsTakeTurns'
    BY <1>1, <1>2, TaskStays DEF WebhookInv
  <1>5. Current(o, r) /\ o \notin accepted
    BY <1>2 DEF Current, WebhookInv, WebhookTyped
  <1>6. \A s \in Screens : ~Redraws(task[o], s)
    BY <1>1 DEF Redraws
  <1>7. disturbed' \in BOOLEAN
    BY <1>1 DEF WebhookInv, WebhookTyped
  <1>8. QED  BY <1>1, <1>2, <1>3, <1>4, <1>5, <1>6, <1>7, TaskMoves

LEMMA ClearKeeps ==
  ASSUME WebhookConstants, WebhookInv, NEW o \in Others, Webhook!Clear(o)
  PROVE  WebhookInv'
  <1> DEFINE r == [task[o] EXCEPT !.pc = "draw", !.payload = Webhook!Empty, !.todo = Screens]
  <1>1. /\ task[o].pc = "clear" /\ task' = [task EXCEPT ![o] = r]
        /\ ~ClearBetween => \A p \in Posts : task[p].pc # "store"
        /\ row' = (IF exists THEN [row EXCEPT !.payload = Webhook!Empty] ELSE row)
        /\ disturbed' = (task[o].version # row.version \/ Webhook!Drawing(Tasks \ {o}))
        /\ UNCHANGED <<exists, drawn, posted, posting, accepted>>
    BY DEF Webhook!Clear, Webhook!At, Webhook!queue, Webhook!InRow, Tasks
  <1>2. o \in Tasks /\ task[o] \in TaskRecords /\ o \notin Posts
    BY DEF WebhookInv, WebhookTyped, Tasks, WebhookConstants
  <1>3. /\ r \in TaskRecords /\ r.pc = "draw" /\ r.todo = Screens
        /\ r.version = task[o].version /\ r.payload = Webhook!Empty
    BY <1>2, NothingTyped DEF TaskRecords, PostStates
  <1> HIDE DEF r
  <1>4. MayBecome(o, r)
    BY <1>2, <1>3 DEF MayBecome, OtherStates
  <1>5. \A x \in Tasks : task'[x] = IF x = o THEN r ELSE task[x]
    BY <1>1, <1>2, <1>4, TaskTyped DEF WebhookInv
  <1>6. /\ row' \in Rows
        /\ row'.version = row.version
        /\ row'.payload = IF exists THEN Webhook!Empty ELSE row.payload
    BY <1>1, NothingTyped DEF WebhookInv, WebhookTyped, Rows
  <1>7. WebhookTyped'
    <2>1. disturbed' \in BOOLEAN
      BY <1>1 DEF Webhook!Drawing
    <2>2. QED  BY <1>1, <1>2, <1>4, <1>6, <2>1, TaskTyped DEF WebhookInv, WebhookTyped
  <1>8. PostsTakeTurns'
    BY <1>1, <1>2, <1>3, TaskStays DEF WebhookInv
  <1>9. TasksCurrent'
    <2>1. ASSUME NEW x \in Tasks, x # o PROVE Current(x, task[x])'
      <3>1. task[x].pc \in {"draw", "poll"} => disturbed'
        BY <1>1, <2>1 DEF Webhook!Drawing
      <3>2. ~ClearBetween => task[x].pc # "store"
        BY <1>1 DEF WebhookInv, WebhookTyped, OtherStates, Tasks
      <3>3. QED  BY <1>5, <2>1, <3>1, <3>2 DEF Current
    <2>2. Current(o, task[o])'
      BY <1>1, <1>2, <1>3, <1>5, <1>6 DEF Current
    <2>3. QED  BY <2>1, <2>2 DEF TasksCurrent
  <1>10. AcceptedOnce'
    BY <1>1, <1>2, <1>5 DEF WebhookInv, AcceptedOnce, WebhookTyped, Tasks
  <1>11. DrawnOrRedrawn'
    BY <1>2, <1>3, <1>5 DEF DrawnOrRedrawn, Redraws
  <1>12. QED  BY <1>7, <1>8, <1>9, <1>10, <1>11 DEF WebhookInv

LEMMA SaveKeeps ==
  ASSUME WebhookConstants, WebhookInv, NEW o \in Others, Webhook!Save(o)
  PROVE  WebhookInv'
  <1> DEFINE r == MovedOn(o, "invalidate")
  <1>1. /\ task[o].pc = "idle" /\ task' = [task EXCEPT ![o] = r]
        /\ row' = [row EXCEPT !.version = @ + 1] /\ disturbed' = Webhook!Drawing(Tasks)
        /\ UNCHANGED <<exists, drawn, posted, posting, accepted>>
    BY DEF Webhook!Save, Webhook!At, Webhook!Goto, Webhook!queue, Tasks, MovedOn
  <1>2. r \in TaskRecords /\ r.pc = "invalidate" /\ o \in Tasks /\ o \notin Posts
    BY MovedOnTyped DEF WebhookInv, OtherStates, Tasks, WebhookConstants
  <1> HIDE DEF r
  <1>3. MayBecome(o, r)
    BY <1>2 DEF MayBecome, OtherStates
  <1>4. \A x \in Tasks : task'[x] = IF x = o THEN r ELSE task[x]
    BY <1>1, <1>2, <1>3, TaskTyped DEF WebhookInv
  <1>5. row' \in Rows /\ row'.payload = row.payload /\ row'.strategy = row.strategy
    BY <1>1 DEF WebhookInv, WebhookTyped, Rows
  <1>6. WebhookTyped'
    <2>1. disturbed' \in BOOLEAN
      BY <1>1 DEF Webhook!Drawing
    <2>2. QED  BY <1>1, <1>2, <1>3, <1>5, <2>1, TaskTyped DEF WebhookInv, WebhookTyped
  <1>7. PostsTakeTurns'
    BY <1>1, <1>2, TaskStays DEF WebhookInv
  <1>8. TasksCurrent'
    <2>1. ASSUME NEW x \in Tasks, x # o PROVE Current(x, task[x])'
      <3>1. task[x].pc \in {"draw", "poll"} => disturbed'
        BY <1>1, <2>1 DEF Webhook!Drawing
      <3>2. Current(x, task[x])
        BY DEF WebhookInv, TasksCurrent
      <3>3. QED  BY <1>1, <1>4, <1>5, <2>1, <3>1, <3>2 DEF Current
    <2>2. Current(o, task[o])'
      BY <1>2, <1>4 DEF Current
    <2>3. QED  BY <2>1, <2>2 DEF TasksCurrent
  <1>9. AcceptedOnce'
    BY <1>1, <1>2, <1>4 DEF WebhookInv, AcceptedOnce, WebhookTyped, Tasks
  <1>10. DrawnOrRedrawn'
    BY <1>2, <1>4 DEF DrawnOrRedrawn, Redraws
  <1>11. QED  BY <1>6, <1>7, <1>8, <1>9, <1>10 DEF WebhookInv

LEMMA InvalidateKeeps ==
  ASSUME WebhookConstants, WebhookInv, NEW o \in Others, Webhook!Invalidate(o)
  PROVE  WebhookInv'
  <1> DEFINE r == MovedOn(o, "reload")
  <1>1. /\ task[o].pc = "invalidate" /\ task' = [task EXCEPT ![o] = r]
        /\ drawn' = [s \in Screens |-> None]
        /\ UNCHANGED <<row, exists, posted, posting, accepted, disturbed>>
    BY DEF Webhook!Invalidate, Webhook!At, Webhook!Goto, Webhook!queue, Webhook!history, MovedOn
  <1>2. r \in TaskRecords /\ r.pc = "reload" /\ o \in Tasks /\ o \notin Posts
    BY MovedOnTyped DEF WebhookInv, OtherStates, Tasks, WebhookConstants
  <1> HIDE DEF r
  <1>3. MayBecome(o, r)
    BY <1>2 DEF MayBecome, OtherStates
  <1>4. \A x \in Tasks : task'[x] = IF x = o THEN r ELSE task[x]
    BY <1>1, <1>2, <1>3, TaskTyped DEF WebhookInv
  <1>5. WebhookTyped'
    BY <1>1, <1>2, <1>3, TaskTyped DEF WebhookInv, WebhookTyped
  <1>6. PostsTakeTurns'
    BY <1>1, <1>2, TaskStays DEF WebhookInv
  <1>7. TasksCurrent'
    BY <1>1, <1>2, <1>4 DEF WebhookInv, TasksCurrent, Current
  <1>8. AcceptedOnce'
    BY <1>1, <1>2, <1>4 DEF WebhookInv, AcceptedOnce, WebhookTyped, Tasks
  <1>9. DrawnOrRedrawn'
    BY <1>1 DEF DrawnOrRedrawn
  <1>10. QED  BY <1>5, <1>6, <1>7, <1>8, <1>9 DEF WebhookInv

LEMMA ReloadKeeps ==
  ASSUME WebhookConstants, WebhookInv, NEW o \in Others, Webhook!Reload(o)
  PROVE  WebhookInv'
  <1> DEFINE r == IF exists THEN Webhook!ToDraw("draw", Screens) ELSE Webhook!Idle
  <1>1. /\ task[o].pc = "reload" /\ task' = [task EXCEPT ![o] = r]
        /\ UNCHANGED <<row, exists, drawn, posted, posting, accepted, disturbed>>
    BY DEF Webhook!Reload, Webhook!At, Webhook!queue, Webhook!history
  <1>2. /\ r \in TaskRecords /\ o \in Tasks /\ o \notin Posts
        /\ ~exists => r.pc = "idle"
        /\ exists => r.pc = "draw" /\ r.version = row.version /\ r.payload = row.payload /\ r.todo = Screens
    BY LoadedTyped, NothingTyped DEF WebhookInv, OtherStates, Tasks, WebhookConstants
  <1> HIDE DEF r
  <1>3. MayBecome(o, r)
    BY <1>2 DEF MayBecome, OtherStates
  <1>4. \A x \in Tasks : task'[x] = IF x = o THEN r ELSE task[x]
    BY <1>1, <1>2, <1>3, TaskTyped DEF WebhookInv
  <1>5. WebhookTyped'
    BY <1>1, <1>2, <1>3, TaskTyped DEF WebhookInv, WebhookTyped
  <1>6. PostsTakeTurns'
    BY <1>1, <1>2, TaskStays DEF WebhookInv
  <1>7. TasksCurrent'
    BY <1>1, <1>2, <1>4 DEF WebhookInv, TasksCurrent, Current
  <1>8. AcceptedOnce'
    BY <1>1, <1>2, <1>4 DEF WebhookInv, AcceptedOnce, WebhookTyped, Tasks
  <1>9. DrawnOrRedrawn'
    BY <1>1, <1>2, <1>4 DEF WebhookInv, DrawnOrRedrawn, Redraws, Stored
  <1>10. QED  BY <1>5, <1>6, <1>7, <1>8, <1>9 DEF WebhookInv

LEMMA PollKeeps ==
  ASSUME WebhookConstants, WebhookInv, NEW o \in Others, NEW s \in Screens, Webhook!Poll(o, s)
  PROVE  WebhookInv'
  <1> DEFINE r == Webhook!ToDraw("poll", {s})
  <1>1. /\ task[o].pc = "idle" /\ task' = [task EXCEPT ![o] = r]
        /\ UNCHANGED <<row, exists, drawn, posted, posting, accepted, disturbed>>
    BY DEF Webhook!Poll, Webhook!At, Webhook!queue, Webhook!history
  <1>2. /\ r \in TaskRecords /\ r.pc = "poll" /\ r.version = row.version /\ r.payload = row.payload
        /\ o \in Tasks /\ o \notin Posts
    BY LoadedTyped DEF WebhookInv, OtherStates, Tasks, WebhookConstants
  <1> HIDE DEF r
  <1>3. MayBecome(o, r)
    BY <1>2 DEF MayBecome, OtherStates
  <1>4. PostsTakeTurns'
    BY <1>1, <1>2, TaskStays DEF WebhookInv
  <1>5. Current(o, r) /\ o \notin accepted
    BY <1>2 DEF Current, WebhookInv, WebhookTyped
  <1>6. \A x \in Screens : ~Redraws(task[o], x)
    BY <1>1 DEF Redraws
  <1>7. disturbed' \in BOOLEAN
    BY <1>1 DEF WebhookInv, WebhookTyped
  <1>8. QED  BY <1>1, <1>2, <1>3, <1>4, <1>5, <1>6, <1>7, TaskMoves

LEMMA OtherFailsKeeps ==
  ASSUME WebhookConstants, WebhookInv, NEW o \in Others, Webhook!OtherFails(o)
  PROVE  WebhookInv'
  <1>1. /\ Webhook!Busy(o) /\ task' = [task EXCEPT ![o] = Webhook!Idle]
        /\ disturbed' = (disturbed \/ task[o].pc \in {"invalidate", "reload", "draw"})
        /\ UNCHANGED <<row, exists, drawn, posted, posting, accepted>>
    BY DEF Webhook!OtherFails, Webhook!queue
  <1>2. Webhook!Idle \in TaskRecords /\ Webhook!Idle.pc = "idle" /\ o \in Tasks /\ o \notin Posts
    BY NothingTyped DEF Tasks, WebhookConstants
  <1>3. MayBecome(o, Webhook!Idle)
    BY <1>2 DEF MayBecome, OtherStates
  <1>4. PostsTakeTurns'
    BY <1>1, <1>2, TaskStays DEF WebhookInv
  <1>5. Current(o, Webhook!Idle) /\ o \notin accepted
    BY <1>2 DEF Current, WebhookInv, WebhookTyped
  <1>6. ~disturbed' => ~disturbed /\ \A s \in Screens : ~Redraws(task[o], s)
    BY <1>1 DEF Redraws
  <1>7. disturbed' \in BOOLEAN
    BY <1>1 DEF WebhookInv, WebhookTyped
  <1>8. QED  BY <1>1, <1>2, <1>3, <1>4, <1>5, <1>6, <1>7, TaskMoves

LEMMA WriteOutputKeeps ==
  ASSUME WebhookConstants, WebhookInv, NEW t \in Tasks, NEW s \in Screens, Webhook!WriteOutput(t, s)
  PROVE  WebhookInv'
  <1> DEFINE left == task[t].todo \ {s}
             r == IF left # {} THEN [task[t] EXCEPT !.todo = left]
                  ELSE IF t \in Posts THEN Fresh("leave")
                  ELSE Webhook!Idle
  <1>1. /\ task[t].pc \in {"draw", "poll"} /\ task' = [task EXCEPT ![t] = r]
        /\ drawn' = (IF exists THEN [drawn EXCEPT ![s] = Webhook!Draws(t)] ELSE drawn)
        /\ UNCHANGED <<row, exists, posted, posting, accepted, disturbed>>
    BY DEF Webhook!WriteOutput, Webhook!At, Webhook!queue, Webhook!history, Webhook!InRow, Fresh
  <1>2. task[t] \in TaskRecords
    BY DEF WebhookInv, WebhookTyped
  <1>3. /\ r \in TaskRecords
        /\ left # {} => r.pc = task[t].pc /\ r.todo = left /\ r.version = task[t].version /\ r.payload = task[t].payload
        /\ left = {} => r.pc = IF t \in Posts THEN "leave" ELSE "idle"
    <2>1. /\ left # {} => r \in TaskRecords /\ r.pc = task[t].pc /\ r.todo = left
                           /\ r.version = task[t].version /\ r.payload = task[t].payload
      BY <1>2 DEF TaskRecords
    <2>2. left = {} => r \in TaskRecords /\ r.pc = IF t \in Posts THEN "leave" ELSE "idle"
      BY FreshTyped, NothingTyped DEF PostStates
    <2>3. QED  BY <2>1, <2>2
  <1> HIDE DEF r
  <1>4. (t \in Posts => task[t].pc = "draw") /\ (t \notin Posts => t \in Others)
    BY <1>1 DEF WebhookInv, WebhookTyped, PostStates, Tasks
  <1>5. MayBecome(t, r)
    BY <1>1, <1>3, <1>4 DEF MayBecome, PostStates, OtherStates
  <1>6. \A x \in Tasks : task'[x] = IF x = t THEN r ELSE task[x]
    BY <1>1, <1>5, TaskTyped DEF WebhookInv
  <1>7. Webhook!Draws(t) = [version |-> task[t].version, payload |-> task[t].payload]
        /\ (exists /\ ~disturbed => Webhook!Draws(t) = Stored)
    BY <1>1 DEF Webhook!Draws, WebhookInv, TasksCurrent, Current, Stored
  <1>8. drawn' \in [Screens -> [version: Nat, payload: Payloads] \cup {None}]
    BY <1>1, <1>2, <1>7 DEF WebhookInv, WebhookTyped, TaskRecords
  <1>9. WebhookTyped'
    BY <1>1, <1>5, <1>8, TaskTyped DEF WebhookInv, WebhookTyped
  <1>10. PostsTakeTurns'
    BY <1>1, <1>3, <1>4, TaskStays DEF WebhookInv, Taken
  <1>11. TasksCurrent'
    <2>1. Current(t, r)
      BY <1>1, <1>3 DEF WebhookInv, TasksCurrent, Current
    <2>2. ASSUME NEW x \in Tasks PROVE Current(x, task[x])'
      <3>1. Current(x, task'[x])
        BY <1>6, <2>1 DEF WebhookInv, TasksCurrent
      <3>2. QED  BY <1>1, <3>1 DEF Current
    <2>3. QED  BY <2>2 DEF TasksCurrent
  <1>12. AcceptedOnce'
    BY <1>1, <1>3, <1>4, <1>6 DEF WebhookInv, AcceptedOnce, WebhookTyped, Tasks, WebhookConstants
  <1>13. DrawnOrRedrawn'
    <2> SUFFICES ASSUME exists, ~disturbed, NEW x \in Screens
                 PROVE  drawn'[x] \in {None, Stored} \/ \E u \in Tasks : Redraws(task'[u], x)
      BY <1>1 DEF DrawnOrRedrawn, Stored
    <2>1. CASE x = s
      BY <1>1, <1>7, <2>1 DEF WebhookInv, WebhookTyped
    <2>2. CASE x # s
      <3>1. drawn'[x] = drawn[x]
        BY <1>1, <2>2 DEF WebhookInv, WebhookTyped
      <3>2. drawn[x] \in {None, Stored} \/ \E u \in Tasks : Redraws(task[u], x)
        BY DEF WebhookInv, DrawnOrRedrawn
      <3>3. Redraws(task[t], x) => Redraws(r, x)
        BY <1>1, <1>3, <2>2 DEF Redraws
      <3>4. QED  BY <1>6, <3>1, <3>2, <3>3
    <2>3. QED  BY <2>1, <2>2
  <1>14. QED  BY <1>9, <1>10, <1>11, <1>12, <1>13 DEF WebhookInv

LEMMA DeletePluginKeeps ==
  ASSUME WebhookConstants, WebhookInv, Webhook!DeletePlugin
  PROVE  WebhookInv'
  <1>1. /\ exists' = FALSE /\ drawn' = [s \in Screens |-> None]
        /\ UNCHANGED <<row, task, posted, posting, accepted, disturbed>>
    BY DEF Webhook!DeletePlugin, Webhook!queue, Webhook!history
  <1>2. WebhookTyped'
    BY <1>1 DEF WebhookInv, WebhookTyped
  <1>3. PostsTakeTurns' /\ AcceptedOnce'
    BY <1>1 DEF WebhookInv, PostsTakeTurns, AcceptedOnce
  <1>4. TasksCurrent' /\ DrawnOrRedrawn'
    BY <1>1 DEF WebhookInv, TasksCurrent, Current, DrawnOrRedrawn
  <1>5. QED  BY <1>2, <1>3, <1>4 DEF WebhookInv

\* A crash ends what is under way; what was not drawn by then was cut short.
LEMMA WebhookCrashKeeps ==
  ASSUME WebhookConstants, WebhookInv, Webhook!Crash
  PROVE  WebhookInv'
  <1>1. /\ task' = [t \in Tasks |->
                      IF ~Webhook!Busy(t) THEN task[t]
                      ELSE IF t \in Posts THEN Fresh("answered") ELSE Webhook!Idle]
        /\ posted' = [k \in {Webhook!Plugin} |-> <<>>] /\ posting' = {}
        /\ disturbed' = (disturbed \/ \E t \in Tasks : task[t].pc \in {"draw", "invalidate", "reload"})
        /\ UNCHANGED <<row, exists, drawn, accepted>>
    BY DEF Webhook!Crash, Tasks, Fresh
  <1>2. \A t \in Tasks : /\ ~Webhook!Busy(t) => task'[t] = task[t]
                         /\ Webhook!Busy(t) /\ t \in Posts => task'[t] = Fresh("answered")
                         /\ Webhook!Busy(t) /\ t \notin Posts => task'[t] = Webhook!Idle
    BY <1>1
  <1>3. \A t \in Tasks : task'[t] \in TaskRecords /\ task'[t].pc \in {"idle", "answered"}
    <2>1. Fresh("answered") \in TaskRecords /\ Fresh("answered").pc = "answered"
      BY FreshTyped DEF PostStates
    <2>2. QED  BY <1>2, <2>1, NothingTyped DEF WebhookInv, WebhookTyped, Webhook!Busy
  <1>4. task' \in [Tasks -> TaskRecords]
    BY <1>1, <1>3
  <1>5. \A o \in Others : task'[o].pc \in OtherStates
    BY <1>2, NothingTyped DEF WebhookInv, WebhookTyped, OtherStates, Tasks, WebhookConstants
  <1>6. WebhookTyped'
    <2>1. \A p \in Posts : task'[p].pc \in PostStates
      BY <1>3 DEF PostStates, Tasks
    <2>2. QED  BY <1>1, <1>4, <1>5, <2>1 DEF WebhookInv, WebhookTyped
  <1>7. PostsTakeTurns' /\ TasksCurrent'
    <2>1. PostsTakeTurns'
      <3>1. \A p \in Posts : task'[p].pc \notin {"store", "draw", "leave"}
        BY <1>3 DEF Tasks
      <3>2. QED  BY <1>1, <3>1 DEF PostsTakeTurns
    <2>2. TasksCurrent'
      BY <1>3 DEF TasksCurrent, Current
    <2>3. QED  BY <2>1, <2>2
  <1>8. AcceptedOnce'
    <2>1. ASSUME NEW p \in accepted PROVE task'[p].pc \in {"draw", "leave", "answered"}
      <3>1. p \in Posts /\ p \in Tasks /\ task[p].pc \in {"draw", "leave", "answered"}
        BY DEF WebhookInv, WebhookTyped, AcceptedOnce, Tasks
      <3>2. Fresh("answered").pc = "answered"
        BY FreshTyped DEF PostStates
      <3>3. QED  BY <1>2, <3>1, <3>2
    <2>2. QED  BY <1>1, <2>1 DEF AcceptedOnce
  <1>9. DrawnOrRedrawn'
    <2> SUFFICES ASSUME exists, ~disturbed', NEW s \in Screens PROVE drawn[s] \in {None, Stored}
      BY <1>1 DEF DrawnOrRedrawn, Stored
    <2>1. \A t \in Tasks : ~Redraws(task[t], s)
      BY <1>1 DEF Redraws
    <2>2. QED  BY <1>1, <2>1 DEF WebhookInv, DrawnOrRedrawn
  <1>10. QED  BY <1>6, <1>7, <1>8, <1>9 DEF WebhookInv

LEMMA WebhookStepKeeps == WebhookConstants /\ WebhookInv /\ [Webhook!Next]_webhookVars => WebhookInv'
  <1> SUFFICES ASSUME WebhookConstants, WebhookInv, [Webhook!Next]_webhookVars PROVE WebhookInv'
    OBVIOUS
  <1>1. CASE UNCHANGED webhookVars
    BY <1>1 DEF webhookVars, WebhookInv, WebhookTyped, PostsTakeTurns, TasksCurrent, Current, AcceptedOnce,
                DrawnOrRedrawn, Stored
  <1>2. ASSUME NEW p \in Posts, Webhook!Guard(p) \/ Webhook!Refuse(p) \/ Webhook!PostStep(p) PROVE WebhookInv'
    BY <1>2, GuardKeeps, RefuseKeeps, EnqueueKeeps, MergeKeeps, StoreKeeps, LeaveLineKeeps, PostFailsKeeps,
       WriteOutputKeeps DEF Webhook!PostStep, Tasks
  <1>3. ASSUME NEW o \in Others,
               \/ Webhook!BeginClear(o) \/ Webhook!Clear(o) \/ Webhook!Save(o) \/ Webhook!Invalidate(o)
               \/ Webhook!Reload(o) \/ Webhook!OtherFails(o)
               \/ \E s \in Screens : Webhook!Poll(o, s) \/ Webhook!WriteOutput(o, s)
        PROVE  WebhookInv'
    BY <1>3, BeginClearKeeps, ClearKeeps, SaveKeeps, InvalidateKeeps, ReloadKeeps, OtherFailsKeeps, PollKeeps,
       WriteOutputKeeps DEF Tasks
  <1>4. QED  BY <1>1, <1>2, <1>3, DeletePluginKeeps, WebhookCrashKeeps DEF Webhook!Next

LEMMA WebhookMovesOnly ==
  [LockMoves \/ WebhookMoves \/ OAuthMoves]_queuesVars => [Webhook!Next]_webhookVars
  BY DEF LockMoves, WebhookMoves, OAuthMoves, queuesVars

LEMMA WebhookConstantsHold == WebhookConstants
  BY QueuesAssumptions DEF Webhook!WebhookIngestAssumptions, WebhookConstants

\* However many POSTs, clears, saves and polls overlap, fail, or end with the
\* server.
THEOREM WebhookInvariant == QueuesSpec => []WebhookInv
  <1>1. QueuesInit => WebhookInv
    BY WebhookConstantsHold, WebhookInitHolds DEF QueuesInit
  <1>2. WebhookInv /\ [LockMoves \/ WebhookMoves \/ OAuthMoves]_queuesVars => WebhookInv'
    BY WebhookConstantsHold, WebhookMovesOnly, WebhookStepKeeps
  <1>3. QED  BY <1>1, <1>2, PTL DEF QueuesSpec

\* Once nothing is under way every Screen shows the stored payload, its time and
\* the saved Plugin, unless the drawing of that payload was cut short or met an
\* older one: for any POSTs, clears, saves and polls, overlapping as they may, any
\* Screens and any Merge Strategy.
THEOREM DrawnAsStored == QueuesSpec => []DrawnIsStored
  <1>1. WebhookInv => DrawnIsStored
    <2> SUFFICES ASSUME WebhookInv, \A t \in Tasks : ~Webhook!Busy(t), exists, ~disturbed, NEW s \in Screens
                 PROVE  drawn[s] \in {None, Stored}
      BY DEF DrawnIsStored, Webhook!DrawnIsStored, Stored, Tasks
    <2>1. \A t \in Tasks : ~Redraws(task[t], s)
      BY DEF Webhook!Busy, Redraws
    <2>2. QED  BY <2>1 DEF WebhookInv, DrawnOrRedrawn
  <1>2. QED  BY <1>1, WebhookInvariant, PTL

LEMMA PayloadInit == Webhook!Init => Webhook!Payload!Init
  <1> SUFFICES ASSUME Webhook!Init PROVE Webhook!Payload!Init
    OBVIOUS
  <1>1. PICK strategy \in {"standard", "deep_merge", "stream"} :
          \E limit \in {0, StreamLimit} :
            row = [strategy |-> strategy, limit |-> limit, version |-> 0, payload |-> Webhook!Empty]
    BY DEF Webhook!Init
  <1>2. row.strategy \in {"standard", "deep_merge", "stream"} /\ row.payload.data = <<>>
    BY <1>1 DEF Webhook!Empty
  <1>3. QED  BY <1>2 DEF Webhook!Init, Webhook!Payload!Init

\* A POST takes effect when it is stored, a clear when it empties the row.
LEMMA PayloadStep ==
  ~ClearBetween /\ WebhookConstants /\ WebhookInv /\ [Webhook!Next]_webhookVars =>
    [Webhook!Payload!Next]_(Webhook!Payload!payloadVars)
  <1> SUFFICES ASSUME ~ClearBetween, WebhookConstants, WebhookInv, [Webhook!Next]_webhookVars
               PROVE  [Webhook!Payload!Next]_(Webhook!Payload!payloadVars)
    OBVIOUS
  <1> DEFINE Same == row'.strategy = row.strategy /\ row'.payload.data = row.payload.data /\ accepted' = accepted
  <1>1. CASE UNCHANGED <<row, accepted>>
    BY <1>1 DEF Webhook!Payload!payloadVars
  <1>2. ASSUME NEW p \in Posts, Webhook!Store(p) PROVE Webhook!Payload!Accept(p) \/ Same
    <2>1. CASE exists
      <3>1. /\ row' = [row EXCEPT !.payload = task[p].payload] /\ accepted' = accepted \cup {p}
            /\ task[p].pc = "store"
        BY <1>2, <2>1 DEF Webhook!Store, Webhook!InRow, Webhook!At
      <3>2. row'.strategy = row.strategy /\ row'.payload.data = task[p].payload.data
        BY <3>1 DEF WebhookInv, WebhookTyped, Rows
      <3>3. p \notin accepted
            /\ task[p].payload.data = Webhook!Payload!Merged(row.strategy, row.payload.data, p)
        BY <2>1, <3>1 DEF WebhookInv, AcceptedOnce, TasksCurrent, Current, Tasks
      <3>4. QED  BY <3>1, <3>2, <3>3 DEF Webhook!Payload!Accept
    <2>2. CASE ~exists
      BY <1>2, <2>2 DEF Webhook!Store, Webhook!InRow
    <2>3. QED  BY <2>1, <2>2
  <1>3. ASSUME NEW o \in Others, Webhook!Clear(o) PROVE Webhook!Payload!Clear \/ Same
    <2>1. CASE exists
      <3>1. row' = [row EXCEPT !.payload = Webhook!Empty] /\ accepted' = accepted
        BY <1>3, <2>1 DEF Webhook!Clear, Webhook!InRow
      <3>2. row'.strategy = row.strategy /\ row'.payload.data = <<>>
        BY <3>1 DEF WebhookInv, WebhookTyped, Rows, Webhook!Empty
      <3>3. QED  BY <3>1, <3>2 DEF Webhook!Payload!Clear
    <2>2. CASE ~exists
      BY <1>3, <2>2 DEF Webhook!Clear, Webhook!InRow
    <2>3. QED  BY <2>1, <2>2
  <1>4. ASSUME NEW o \in Others, Webhook!Save(o) PROVE Same
    BY <1>4 DEF Webhook!Save, WebhookInv, WebhookTyped, Rows
  <1>5. ASSUME NEW p \in Posts, Webhook!Guard(p) \/ Webhook!Refuse(p) \/ Webhook!PostStep(p), ~Webhook!Store(p)
        PROVE  UNCHANGED <<row, accepted>>
    BY <1>5 DEF Webhook!PostStep, Webhook!Guard, Webhook!Refuse, Webhook!Enqueue, Webhook!Merge, Webhook!Leave,
                Webhook!PostFails, Webhook!WriteOutput, Webhook!history
  <1>6. ASSUME NEW o \in Others,
               \/ Webhook!BeginClear(o) \/ Webhook!Invalidate(o) \/ Webhook!Reload(o) \/ Webhook!OtherFails(o)
               \/ \E s \in Screens : Webhook!Poll(o, s) \/ Webhook!WriteOutput(o, s)
        PROVE  UNCHANGED <<row, accepted>>
    BY <1>6 DEF Webhook!BeginClear, Webhook!Invalidate, Webhook!Reload, Webhook!OtherFails, Webhook!Poll,
                Webhook!WriteOutput, Webhook!history
  <1>7. CASE Webhook!DeletePlugin \/ Webhook!Crash
    BY <1>1, <1>7 DEF Webhook!DeletePlugin, Webhook!Crash, Webhook!history
  <1>8. CASE UNCHANGED webhookVars
    BY <1>1, <1>8 DEF webhookVars
  <1>9. Same => UNCHANGED (Webhook!Payload!payloadVars)
    BY DEF Webhook!Payload!payloadVars
  <1> HIDE DEF Same
  <1>10. QED
    BY <1>1, <1>2, <1>3, <1>4, <1>5, <1>6, <1>7, <1>8, <1>9 DEF Webhook!Next, Webhook!Payload!Next

\* WebhookIngest implements WebhookPayload: each POST takes effect at once, on
\* all that was stored before it, and once, where no clear comes between what it
\* reads to merge onto and its update.
THEOREM EveryPostCounts ==
  ASSUME ~ClearBetween
  PROVE  QueuesSpec => PayloadSpec
  <1>1. QueuesInit => Webhook!Payload!Init
    BY PayloadInit DEF QueuesInit
  <1>2. WebhookInv /\ [LockMoves \/ WebhookMoves \/ OAuthMoves]_queuesVars =>
          [Webhook!Payload!Next]_(Webhook!Payload!payloadVars)
    BY WebhookConstantsHold, WebhookMovesOnly, PayloadStep
  <1>3. QED
    BY <1>1, <1>2, WebhookInvariant, PTL DEF QueuesSpec, PayloadSpec, Webhook!PayloadSpec, Webhook!Payload!Spec
===============================================================================
