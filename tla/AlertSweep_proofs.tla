-------------------------- MODULE AlertSweep_proofs --------------------------
(***************************************************************************)
(* For any number of Rules, subjects, Alerts and calls of sweep(): a sweep *)
(* that may throw or be killed anywhere opens no second Alert for a        *)
(* subject, and announces nothing twice that it could stamp.               *)
(***************************************************************************)
EXTENDS AlertSweep, TLAPS

-----------------------------------------------------------------------------
(* The inductive invariant.                                                *)

Held(a) == \E w \in Sweeps : a \in sweep[w].active
Digested(e) == \E w \in Sweeps : e \in sweep[w].digest
BeingStamped(e) == \E w \in Sweeps : At(w, "stamp") /\ e \in sweep[w].digest

\* A Rule's sweep holds the active Alerts of the subjects it has still to visit,
\* and no others; while it does, their rows stay as they were, or go.
HeldIsActive ==
  \A w \in Sweeps :
    /\ \A a \in Alerts :
         Active(a) /\ At(w, "subjects") /\ alert[a].subject \in sweep[w].subjects => a \in sweep[w].active
    /\ \A a \in sweep[w].active :
         At(w, "subjects") /\ alert[a].subject \in sweep[w].subjects /\ alert[a].state \in {"active", "gone"}

\* What an Alert's row does not have, was not announced either.
NotBefore ==
  \A a \in Alerts :
    /\ alert[a].state = "none" => a \notin aged /\ \A p \in Phases : sent[Entry(a, p)] = 0 /\ ~Digested(Entry(a, p))
    /\ sent[Entry(a, "resolved")] > 0 \/ Digested(Entry(a, "resolved")) =>
         alert[a].state \in {"resolved", "gone"} /\ ~Held(a)

\* What has been announced is stamped, or is being stamped, or has no row left.
Lost(a) == alert[a].state = "gone" /\ ~Held(a)
AnnouncedIsStamped ==
  \A a \in Alerts \ again :
    /\ sent[Entry(a, "opened")] > 0 => alert[a].notified \/ BeingStamped(Entry(a, "opened")) \/ Lost(a)
    /\ sent[Entry(a, "resolved")] > 0 => alert[a].told \/ BeingStamped(Entry(a, "resolved")) \/ Lost(a)
    /\ alert[a].due => a \in aged \/ BeingStamped(Entry(a, "reminded")) \/ Lost(a)

\* A digest that is not sent yet holds nothing that was announced before.
DigestIsNew ==
  \A w \in Sweeps : ~At(w, "stamp") =>
    \A e \in sweep[w].digest : e.alert \notin again =>
      IF e.phase = "reminded" THEN e.alert \in aged ELSE sent[e] = 0

IInv ==
  /\ TypeOK /\ OneActivePerSubject /\ AnnouncedOnce
  /\ HeldIsActive /\ NotBefore /\ AnnouncedIsStamped /\ DigestIsNew
-----------------------------------------------------------------------------
(* Typing.                                                                 *)

LEMMA EntryTypes ==
  /\ \A a \in Alerts, p \in Phases : Entry(a, p) \in Entries /\ Entry(a, p).alert = a /\ Entry(a, p).phase = p
  /\ \A e \in Entries : e.alert \in Alerts /\ e.phase \in Phases /\ e = Entry(e.alert, e.phase)
BY DEF Entry, Entries

LEMMA RecordTypes ==
  /\ NoAlert \in AlertRows /\ NoAlert.state = "none"
  /\ IdleSweep \in SweepRecords /\ IdleSweep.pc = "idle"
  /\ IdleSweep.active = {} /\ IdleSweep.digest = {} /\ IdleSweep.subjects = {}
BY DEF NoAlert, AlertRows, IdleSweep, SweepRecords

\* One sweep is under way; every other is idle.
LEMMA OneUnderWay ==
  ASSUME TypeOK, NEW w \in Sweeps, ~At(w, "idle")
  PROVE  sweeping = w /\ \A v \in Sweeps : v # w => sweep[v] = IdleSweep
BY RecordTypes DEF TypeOK, At

\* A step of w that leaves it at r.
LEMMA SweepBecomes ==
  ASSUME TypeOK, NEW w \in Sweeps, sweeping = w, sweeping' = w,
         NEW r \in SweepRecords, r.pc # "idle", sweep' = [sweep EXCEPT ![w] = r]
  PROVE  /\ sweep' \in [Sweeps -> SweepRecords]
         /\ \A v \in Sweeps : IF sweeping' = v THEN ~At(v, "idle")' ELSE sweep'[v] = IdleSweep
BY DEF TypeOK, At

LEMMA Ends ==
  ASSUME TypeOK, NEW w \in Sweeps, ~At(w, "idle"), End(w)
  PROVE  /\ sweep' \in [Sweeps -> SweepRecords] /\ sweeping' = NoSweep
         /\ \A v \in Sweeps : sweep'[v] = IdleSweep /\ sweeping' # v
BY OneUnderWay, RecordTypes, AlertSweepAssumptions DEF TypeOK, End

\* Done leaves w at the rest of the Rule, with these entries more.
LEMMA DoneBecomes ==
  ASSUME TypeOK, NEW w \in Sweeps, NEW s \in Subjects, NEW entries \in SUBSET Entries
  PROVE  \E r \in SweepRecords :
           /\ Done(w, s, entries) = [sweep EXCEPT ![w] = r]
           /\ r.subjects = sweep[w].subjects \ {s} /\ r.pc = Position(r.subjects)
           /\ r.active = {a \in sweep[w].active : alert[a].subject # s}
           /\ r.digest = sweep[w].digest \cup entries
<1> DEFINE r == [sweep[w] EXCEPT !.subjects = @ \ {s}, !.levels = [sweep[w].levels EXCEPT ![s] = "good"],
                                 !.digest = @ \cup entries,
                                 !.active = {a \in @ : alert[a].subject # s},
                                 !.pc = Position(sweep[w].subjects \ {s})]
<1>1. sweep[w] \in SweepRecords
  BY DEF TypeOK
<1>2. Position(sweep[w].subjects \ {s}) \in {"rules", "subjects"}
  BY DEF Position
<1>3. r \in SweepRecords
  BY <1>1, <1>2 DEF SweepRecords
<1>4. Done(w, s, entries) = [sweep EXCEPT ![w] = r]
  BY DEF Done
<1>5. /\ r.subjects = sweep[w].subjects \ {s} /\ r.pc = Position(r.subjects)
      /\ r.active = {a \in sweep[w].active : alert[a].subject # s}
      /\ r.digest = sweep[w].digest \cup entries
  BY <1>1 DEF SweepRecords
<1> QED BY <1>3, <1>4, <1>5

\* While only w is under way, what is held and gathered is what w has.
LEMMA OnlyThatSweep ==
  ASSUME NEW w \in Sweeps, \A v \in Sweeps : v # w => sweep[v] = IdleSweep
  PROVE  /\ \A a : Held(a) <=> a \in sweep[w].active
         /\ \A e : Digested(e) <=> e \in sweep[w].digest
         /\ \A e : BeingStamped(e) <=> At(w, "stamp") /\ e \in sweep[w].digest
BY RecordTypes DEF Held, Digested, BeingStamped

LEMMA OnlyThatSweepNext ==
  ASSUME NEW w \in Sweeps, \A v \in Sweeps : v # w => sweep'[v] = IdleSweep
  PROVE  /\ \A a : Held(a)' <=> a \in sweep'[w].active
         /\ \A e : Digested(e)' <=> e \in sweep'[w].digest
         /\ \A e : BeingStamped(e)' <=> At(w, "stamp")' /\ e \in sweep'[w].digest
BY RecordTypes DEF Held, Digested, BeingStamped, IdleSweep

-----------------------------------------------------------------------------
(* The actions.                                                            *)

LEMMA InitHolds == Init => IInv
<1> SUFFICES ASSUME Init PROVE IInv
  OBVIOUS
<1>1. TypeOK
  BY RecordTypes, AlertSweepAssumptions DEF Init, TypeOK, At
<1>2. /\ \A a \in Alerts : alert[a].state = "none" /\ ~alert[a].due /\ ~Active(a)
      /\ \A w \in Sweeps : sweep[w].active = {} /\ sweep[w].digest = {} /\ ~At(w, "subjects")
      /\ \A e \in Entries : sent[e] = 0
  BY RecordTypes DEF Init, NoAlert, Active, At
<1>3. \A a : ~Held(a)
  BY <1>2 DEF Held
<1>4. \A e : ~Digested(e)
  BY <1>2 DEF Digested
<1>5. aged = {}
  BY DEF Init
<1>6. OneActivePerSubject /\ AnnouncedOnce
  BY <1>2 DEF OneActivePerSubject, AnnouncedOnce
<1>7. HeldIsActive /\ DigestIsNew
  BY <1>2 DEF HeldIsActive, DigestIsNew
<1>8. NotBefore /\ AnnouncedIsStamped
  BY <1>2, <1>3, <1>4, <1>5, EntryTypes DEF NotBefore, AnnouncedIsStamped, Phases
<1> QED BY <1>1, <1>6, <1>7, <1>8 DEF IInv

LEMMA StartKeeps ==
  ASSUME IInv, NEW w \in Sweeps, Start(w)
  PROVE  IInv'
<1> DEFINE r == [IdleSweep EXCEPT !.pc = "pending", !.levels = level]
<1>1. r \in SweepRecords /\ r.pc = "pending" /\ r.active = {} /\ r.digest = {} /\ r.subjects = {}
  BY RecordTypes DEF IInv, TypeOK, IdleSweep, SweepRecords
<1>2. /\ sweep' = [sweep EXCEPT ![w] = r] /\ sweeping' = w /\ sweeping = NoSweep
      /\ UNCHANGED <<level, alert, configured, faults, sent, aged, again>>
  BY DEF Start, MayStart, history
<1>3. \A v \in Sweeps : sweep[v] = IdleSweep
  BY <1>2, AlertSweepAssumptions DEF IInv, TypeOK
<1>4. /\ \A v \in Sweeps : v # w => sweep'[v] = IdleSweep
      /\ sweep'[w] = r
  BY <1>2, <1>3 DEF IInv, TypeOK
<1>5. TypeOK'
  BY <1>1, <1>2, <1>3, <1>4 DEF IInv, TypeOK, At
<1>6. /\ \A a : ~Held(a) /\ ~Held(a)'
      /\ \A e : ~Digested(e) /\ ~Digested(e)' /\ ~BeingStamped(e) /\ ~BeingStamped(e)'
  BY <1>1, <1>3, <1>4, OnlyThatSweep, OnlyThatSweepNext, RecordTypes
<1>7. (OneActivePerSubject /\ AnnouncedOnce)'
  BY <1>2 DEF IInv, OneActivePerSubject, AnnouncedOnce, Active
<1>8. \A v \in Sweeps : sweep'[v].active = {} /\ sweep'[v].digest = {} /\ sweep'[v].pc # "subjects"
  BY <1>1, <1>4, RecordTypes
<1>9. (HeldIsActive /\ DigestIsNew)'
  BY <1>8 DEF HeldIsActive, DigestIsNew, At
<1>10. (NotBefore /\ AnnouncedIsStamped)'
  BY <1>2, <1>6 DEF IInv, NotBefore, AnnouncedIsStamped, Lost
<1> QED BY <1>5, <1>7, <1>9, <1>10 DEF IInv

\* However a sweep ends, the rows it has written stay as they are.
LEMMA AllIdleKeeps ==
  ASSUME IInv, TypeOK', \A v \in Sweeps : sweep'[v] = IdleSweep,
         UNCHANGED <<alert, sent, aged>>, again \subseteq again',
         \A e \in Entries : BeingStamped(e) => e.alert \in again'
  PROVE  IInv'
<1>1. (OneActivePerSubject /\ AnnouncedOnce)'
  BY DEF IInv, OneActivePerSubject, AnnouncedOnce, Active
<1>2. (HeldIsActive /\ DigestIsNew)'
  BY RecordTypes DEF HeldIsActive, DigestIsNew, At
<1>3. /\ \A a : ~Held(a)'
      /\ \A e : ~Digested(e)'
  BY RecordTypes DEF Held, Digested
<1>4. NotBefore'
  BY <1>3 DEF IInv, NotBefore
<1>5. ASSUME NEW a \in Alerts, NEW p \in Phases, BeingStamped(Entry(a, p)), a \notin again'
      PROVE  FALSE
  BY <1>5, EntryTypes
<1>6. AnnouncedIsStamped'
  BY <1>3, <1>5 DEF IInv, AnnouncedIsStamped, Lost, Phases
<1> QED BY <1>1, <1>2, <1>4, <1>6 DEF IInv

LEMMA QuietEndKeeps ==
  ASSUME IInv, NEW w \in Sweeps,
         NothingSent(w) \/ NotDelivered(w) \/ \E s \in Subjects : SubjectGone(w, s)
  PROVE  IInv'
<1>1. /\ End(w) /\ ~At(w, "idle") /\ ~At(w, "stamp")
      /\ UNCHANGED <<level, alert, configured, faults, sent, aged, again>>
  BY DEF NothingSent, NotDelivered, AfterFailure, SubjectGone, ReadyToSend, At, history
<1>2. \A e : ~BeingStamped(e)
  BY <1>1, OneUnderWay, OnlyThatSweep DEF IInv
<1>3. TypeOK' /\ \A v \in Sweeps : sweep'[v] = IdleSweep
  BY <1>1, Ends DEF IInv, TypeOK
<1> QED BY <1>1, <1>2, <1>3, AllIdleKeeps

LEMMA SweepThrowsKeeps ==
  ASSUME IInv, NEW w \in Sweeps, SweepThrows(w)
  PROVE  IInv'
<1>1. /\ End(w) /\ ~At(w, "idle")
      /\ UNCHANGED <<level, alert, configured, sent, aged>>
      /\ faults' = faults + 1 /\ faults < MaxFaults
      /\ again' = IF At(w, "stamp") THEN again \cup {e.alert : e \in sweep[w].digest} ELSE again
  BY DEF SweepThrows
<1>2. sweep[w].digest \subseteq Entries
  BY DEF IInv, TypeOK, SweepRecords
<1>3. again' \subseteq Alerts
  BY <1>1, <1>2, EntryTypes DEF IInv, TypeOK
<1>4. \A e \in Entries : BeingStamped(e) => e.alert \in again'
  BY <1>1, OneUnderWay, OnlyThatSweep DEF IInv
<1>5. faults' \in 0..MaxFaults
  BY <1>1, AlertSweepAssumptions DEF IInv, TypeOK
<1>6. TypeOK' /\ \A v \in Sweeps : sweep'[v] = IdleSweep
  BY <1>1, <1>3, <1>5, Ends DEF IInv, TypeOK
<1> QED BY <1>1, <1>4, <1>6, AllIdleKeeps

LEMMA RestartKeeps ==
  ASSUME IInv, Restart
  PROVE  IInv'
<1> DEFINE stamping == {x \in Sweeps : At(x, "stamp")}
<1>1. /\ UNCHANGED <<level, alert, sent, aged>>
      /\ faults' = faults + 1 /\ faults < MaxFaults /\ configured' \in BOOLEAN
      /\ sweeping' = NoSweep /\ sweep' = [w \in Sweeps |-> IdleSweep]
      /\ again' = again \cup UNION {{e.alert : e \in sweep[w].digest} : w \in stamping}
  BY DEF Restart
<1>2. \A w \in Sweeps : sweep[w].digest \subseteq Entries
  BY DEF IInv, TypeOK, SweepRecords
<1>3. again' \subseteq Alerts
  BY <1>1, <1>2, EntryTypes DEF IInv, TypeOK
<1>4. \A e \in Entries : BeingStamped(e) => e.alert \in again'
  BY <1>1 DEF BeingStamped
<1>5. faults' \in 0..MaxFaults
  BY <1>1, AlertSweepAssumptions DEF IInv, TypeOK
<1>6. TypeOK'
  BY <1>1, <1>3, <1>5, RecordTypes, AlertSweepAssumptions DEF IInv, TypeOK, At
<1> QED BY <1>1, <1>4, <1>6, AllIdleKeeps

LEMMA CollectKeeps ==
  ASSUME IInv, NEW w \in Sweeps, CollectPending(w)
  PROVE  IInv'
<1> DEFINE r == [sweep[w] EXCEPT !.pc = "rules", !.rules = Rules, !.digest = Carried]
<1>1. At(w, "pending") /\ UNCHANGED <<level, alert, configured, sweeping, faults, sent, aged, again>>
  BY DEF CollectPending, history
<1>2. sweep[w] \in SweepRecords /\ Carried \subseteq Entries
  BY EntryTypes DEF IInv, TypeOK, Carried, Pending, Phases
<1>3. r \in SweepRecords /\ r.pc = "rules" /\ r.active = sweep[w].active /\ r.digest = Carried
  BY <1>2 DEF SweepRecords
<1>4. sweep' = [sweep EXCEPT ![w] = r]
  BY <1>2 DEF CollectPending, IInv, TypeOK, SweepRecords
<1>5. /\ sweeping = w /\ \A v \in Sweeps : v # w => sweep[v] = IdleSweep /\ sweep'[v] = IdleSweep
      /\ sweep'[w] = r
  BY <1>1, <1>4, OneUnderWay DEF IInv, TypeOK, At
<1>6. TypeOK'
  BY <1>1, <1>3, <1>4, <1>5, SweepBecomes DEF IInv, TypeOK
<1>7. r.active = {}
  BY <1>1, <1>3 DEF IInv, HeldIsActive, At
<1>8. /\ \A a : ~Held(a) /\ ~Held(a)'
      /\ \A e : ~BeingStamped(e) /\ ~BeingStamped(e)' /\ (Digested(e)' <=> e \in Carried)
  BY <1>1, <1>3, <1>5, <1>7, OnlyThatSweep, OnlyThatSweepNext, RecordTypes DEF At
<1>9. \A e \in Carried : e \in Entries /\ e.phase = "resolved" /\ alert[e.alert].state = "resolved" /\ ~alert[e.alert].told
  BY EntryTypes DEF Carried, Pending, Phases
<1>10. (OneActivePerSubject /\ AnnouncedOnce)'
  BY <1>1 DEF IInv, OneActivePerSubject, AnnouncedOnce, Active
<1>11. HeldIsActive'
  BY <1>3, <1>5, <1>7, RecordTypes DEF HeldIsActive, At
<1>12. NotBefore'
  BY <1>1, <1>8, <1>9, EntryTypes DEF IInv, NotBefore, Phases
<1>13. AnnouncedIsStamped'
  BY <1>1, <1>8 DEF IInv, AnnouncedIsStamped, Lost
<1>14. ASSUME NEW e \in Carried, e.alert \notin again PROVE sent[e] = 0
  <2>1. e \in Entries /\ e = Entry(e.alert, "resolved") /\ e.alert \in Alerts
    BY <1>9, EntryTypes
  <2>2. ~(sent[Entry(e.alert, "resolved")] > 0)
    BY <1>8, <1>9, <1>14, <2>1 DEF IInv, AnnouncedIsStamped, Lost
  <2>3. sent[e] \in 0..2
    BY <2>1 DEF IInv, TypeOK
  <2> QED BY <2>1, <2>2, <2>3
<1>15. DigestIsNew'
  <2>1. \A v \in Sweeps : sweep'[v].digest \subseteq Carried
    BY <1>3, <1>5, RecordTypes
  <2>2. UNCHANGED <<again, sent>> /\ \A e \in Carried : e.phase # "reminded"
    BY <1>1, <1>9
  <2> QED BY <1>14, <2>1, <2>2 DEF DigestIsNew
<1> QED BY <1>6, <1>10, <1>11, <1>12, <1>13, <1>15 DEF IInv

LEMMA BeginKeeps ==
  ASSUME IInv, NEW w \in Sweeps, NEW rule \in Rules, BeginRule(w, rule)
  PROVE  IInv'
<1> DEFINE watched == {a \in Alerts : Active(a) /\ alert[a].subject \in SubjectsOf[rule]}
           r == [sweep[w] EXCEPT !.pc = Position(SubjectsOf[rule]), !.rules = @ \ {rule},
                                 !.subjects = SubjectsOf[rule], !.active = watched]
<1>1. At(w, "rules") /\ UNCHANGED <<level, alert, configured, sweeping, faults, sent, aged, again>>
  BY DEF BeginRule, history
<1>2. sweep[w] \in SweepRecords /\ SubjectsOf[rule] \subseteq Subjects
  BY DEF IInv, TypeOK, Subjects
<1>3. /\ Position(SubjectsOf[rule]) \in {"rules", "subjects"}
      /\ \A a \in watched : Position(SubjectsOf[rule]) = "subjects"
  BY DEF Position
<1>4. /\ r \in SweepRecords /\ r.pc = Position(SubjectsOf[rule])
      /\ r.subjects = SubjectsOf[rule] /\ r.active = watched /\ r.digest = sweep[w].digest
  BY <1>2, <1>3 DEF SweepRecords
<1>5. sweep' = [sweep EXCEPT ![w] = r]
  BY <1>2 DEF BeginRule, IInv, TypeOK, SweepRecords
<1>6. /\ sweeping = w /\ \A v \in Sweeps : v # w => sweep[v] = IdleSweep /\ sweep'[v] = IdleSweep
      /\ sweep'[w] = r
  BY <1>1, <1>5, OneUnderWay DEF IInv, TypeOK, At
<1>7. TypeOK'
  BY <1>1, <1>3, <1>4, <1>5, <1>6, SweepBecomes DEF IInv, TypeOK
<1>8. /\ \A a : Held(a)' <=> a \in watched
      /\ \A e : ~BeingStamped(e) /\ ~BeingStamped(e)' /\ (Digested(e)' <=> Digested(e))
  BY ZenonT(40), <1>1, <1>3, <1>4, <1>6, OnlyThatSweep, OnlyThatSweepNext, RecordTypes DEF At
<1>9. (OneActivePerSubject /\ AnnouncedOnce)'
  BY <1>1 DEF IInv, OneActivePerSubject, AnnouncedOnce, Active
<1>10. HeldIsActive'
  <2>1. ASSUME NEW v \in Sweeps, v # w PROVE sweep'[v].active = {} /\ sweep'[v].pc # "subjects"
    BY <1>6, <2>1, RecordTypes
  <2> QED BY ZenonT(40), <1>1, <1>3, <1>4, <1>6, <2>1 DEF HeldIsActive, At, Active
<1>11. NotBefore'
  BY <1>1, <1>8 DEF IInv, NotBefore, Active
<1>12. AnnouncedIsStamped'
  BY <1>1, <1>8 DEF IInv, AnnouncedIsStamped, Lost, Active
<1>13. DigestIsNew'
  <2>1. \A v \in Sweeps : sweep'[v].digest \subseteq sweep[w].digest
    BY <1>4, <1>6, RecordTypes
  <2>2. ~At(w, "stamp")
    BY <1>1 DEF At
  <2> QED BY <1>1, <2>1, <2>2 DEF IInv, DigestIsNew
<1> QED BY <1>7, <1>9, <1>10, <1>11, <1>12, <1>13 DEF IInv

\* A sweep between Rules holds no Alerts.
LEMMA NoneHeld ==
  ASSUME IInv, NEW w \in Sweeps, ~At(w, "idle"), ~At(w, "subjects")
  PROVE  sweep[w].active = {} /\ \A a : ~Held(a)
<1>1. sweep[w].active = {}
  BY DEF IInv, HeldIsActive
<1> QED BY <1>1, OneUnderWay, OnlyThatSweep DEF IInv

\* A digest that goes out says nothing a second time.
LEMMA AnnouncedIsNew ==
  ASSUME IInv, NEW w \in Sweeps, ReadyToSend(w), Announced(w)
  PROVE  /\ sent' \in [Entries -> 0..2] /\ aged' \subseteq aged
         /\ \A e \in Entries : e.alert \notin again => sent'[e] <= 1
         /\ \A e \in Entries : e \notin sweep[w].digest \/ e.phase = "reminded" => sent'[e] = sent[e]
         /\ \A a \in aged : Entry(a, "reminded") \notin sweep[w].digest => a \in aged'
<1>1. ~At(w, "stamp")
  BY DEF ReadyToSend, At
<1>2. sent' = [e \in Entries |->
                 IF e \in sweep[w].digest /\ e.phase # "reminded" /\ sent[e] < 2 THEN sent[e] + 1 ELSE sent[e]]
  BY DEF Announced
<1>3. ASSUME NEW e \in Entries
      PROVE  /\ sent'[e] \in 0..2
             /\ e.alert \notin again => sent'[e] <= 1
             /\ e \notin sweep[w].digest \/ e.phase = "reminded" => sent'[e] = sent[e]
  <2>1. sent[e] \in 0..2 /\ (e.alert \notin again => sent[e] <= 1)
    BY DEF IInv, TypeOK, AnnouncedOnce
  <2>2. e \in sweep[w].digest /\ e.phase # "reminded" /\ e.alert \notin again => sent[e] = 0
    BY <1>1 DEF IInv, DigestIsNew
  <2> QED BY <1>2, <2>1, <2>2
<1>4. sent' \in [Entries -> 0..2]
  BY <1>2, <1>3
<1> QED BY <1>3, <1>4 DEF Announced

LEMMA DeliverKeeps ==
  ASSUME IInv, NEW w \in Sweeps, Deliver(w)
  PROVE  IInv'
<1> DEFINE r == [sweep[w] EXCEPT !.pc = "stamp"]
<1>1. /\ ReadyToSend(w) /\ Announced(w) /\ At(w, "rules") /\ ~At(w, "idle") /\ ~At(w, "subjects") /\ ~At(w, "stamp")
      /\ UNCHANGED <<level, alert, configured, sweeping, faults, again>>
  BY DEF Deliver, ReadyToSend, ToStamps, At
<1>2. sweep[w] \in SweepRecords
  BY DEF IInv, TypeOK
<1>3. r \in SweepRecords /\ r.pc = "stamp" /\ r.active = sweep[w].active /\ r.digest = sweep[w].digest
  BY <1>2 DEF SweepRecords
<1>4. sweep' = [sweep EXCEPT ![w] = r]
  BY <1>2 DEF Deliver, ToStamps, IInv, TypeOK, SweepRecords
<1>5. /\ sweeping = w /\ \A v \in Sweeps : v # w => sweep[v] = IdleSweep /\ sweep'[v] = IdleSweep
      /\ sweep'[w] = r
  BY <1>1, <1>4, OneUnderWay DEF IInv, TypeOK, At
<1>6. TypeOK'
  BY <1>1, <1>3, <1>4, <1>5, SweepBecomes, AnnouncedIsNew DEF IInv, TypeOK
<1>7. sweep[w].active = {} /\ \A a : ~Held(a)
  BY <1>1, NoneHeld
<1>8. /\ \A a : ~Held(a)'
      /\ \A e : ~BeingStamped(e) /\ (BeingStamped(e)' <=> e \in sweep[w].digest)
                /\ (Digested(e)' <=> Digested(e)) /\ (Digested(e) <=> e \in sweep[w].digest)
  BY ZenonT(40), <1>1, <1>3, <1>5, <1>7, OnlyThatSweep, OnlyThatSweepNext DEF At
<1>9. OneActivePerSubject' /\ AnnouncedOnce'
  BY <1>1, AnnouncedIsNew DEF IInv, OneActivePerSubject, AnnouncedOnce, Active
<1>10. HeldIsActive'
  BY <1>3, <1>5, <1>7, RecordTypes DEF HeldIsActive, At
<1>11. NotBefore'
  BY <1>1, <1>7, <1>8, AnnouncedIsNew, EntryTypes DEF IInv, NotBefore, Phases
<1>12. AnnouncedIsStamped'
  BY <1>1, <1>7, <1>8, AnnouncedIsNew, EntryTypes DEF IInv, AnnouncedIsStamped, Lost, Phases
<1>13. DigestIsNew'
  <2>1. \A v \in Sweeps : v = w \/ sweep'[v].digest = {}
    BY <1>5, RecordTypes
  <2>2. At(w, "stamp")'
    BY <1>3, <1>5 DEF At
  <2> QED BY <2>1, <2>2 DEF DigestIsNew
<1> QED BY <1>6, <1>9, <1>10, <1>11, <1>12, <1>13 DEF IInv

LEMMA UnansweredKeeps ==
  ASSUME IInv, NEW w \in Sweeps, Unanswered(w)
  PROVE  IInv'
<1>1. /\ ReadyToSend(w) /\ Announced(w) /\ End(w) /\ ~At(w, "idle") /\ ~At(w, "subjects") /\ ~At(w, "stamp")
      /\ faults < MaxFaults /\ faults' = faults + 1
      /\ again' = again \cup {e.alert : e \in sweep[w].digest}
      /\ UNCHANGED <<level, alert, configured>>
  BY DEF Unanswered, AfterFailure, ReadyToSend, At
<1>2. sweep[w].digest \subseteq Entries
  BY DEF IInv, TypeOK, SweepRecords
<1>3. again' \subseteq Alerts /\ again \subseteq again' /\ \A e \in sweep[w].digest : e.alert \in again'
  BY <1>1, <1>2, EntryTypes DEF IInv, TypeOK
<1>4. faults' \in 0..MaxFaults
  BY <1>1, AlertSweepAssumptions DEF IInv, TypeOK
<1>5. TypeOK' /\ \A v \in Sweeps : sweep'[v] = IdleSweep
  BY <1>1, <1>3, <1>4, Ends, AnnouncedIsNew DEF IInv, TypeOK
<1>6. /\ \A a : ~Held(a) /\ ~Held(a)'
      /\ \A e : ~BeingStamped(e) /\ ~Digested(e)' /\ (Digested(e) <=> e \in sweep[w].digest)
  BY <1>1, <1>5, NoneHeld, OneUnderWay, OnlyThatSweep, OnlyThatSweepNext, RecordTypes DEF IInv
<1>7. OneActivePerSubject' /\ AnnouncedOnce'
  BY <1>1, <1>3, AnnouncedIsNew DEF IInv, OneActivePerSubject, AnnouncedOnce, Active
<1>8. (HeldIsActive /\ DigestIsNew)'
  BY <1>5, RecordTypes DEF HeldIsActive, DigestIsNew, At
<1>9. NotBefore'
  BY <1>1, <1>6, AnnouncedIsNew, EntryTypes DEF IInv, NotBefore, Phases
<1>10. ASSUME NEW a \in Alerts, a \notin again', NEW p \in Phases PROVE Entry(a, p) \notin sweep[w].digest
  BY <1>3, <1>10, EntryTypes
<1>11. AnnouncedIsStamped'
  BY <1>1, <1>3, <1>6, <1>10, AnnouncedIsNew, EntryTypes DEF IInv, AnnouncedIsStamped, Lost, Phases
<1> QED BY <1>5, <1>7, <1>8, <1>9, <1>11 DEF IInv

LEMMA StampKeeps ==
  ASSUME IInv, NEW w \in Sweeps, Stamp(w)
  PROVE  IInv'
<1>1. PICK e \in sweep[w].digest :
        /\ alert' = Row(e.alert, Stamped(alert[e.alert], e.phase))
        /\ IF sweep[w].digest = {e} THEN End(w)
           ELSE sweep' = [sweep EXCEPT ![w].digest = @ \ {e}] /\ UNCHANGED sweeping
  BY DEF Stamp
<1>2. /\ At(w, "stamp") /\ ~At(w, "idle") /\ ~At(w, "subjects")
      /\ UNCHANGED <<level, configured, faults, sent, aged, again>>
  BY DEF Stamp, At, history
<1>3. /\ sweep[w] \in SweepRecords /\ e \in Entries /\ e.alert \in Alerts /\ e.phase \in Phases
      /\ e = Entry(e.alert, e.phase)
  BY EntryTypes DEF IInv, TypeOK, SweepRecords
<1>4. /\ sweeping = w /\ sweep[w].active = {} /\ \A a : ~Held(a)
      /\ \A v \in Sweeps : v # w => sweep[v] = IdleSweep
  BY <1>2, NoneHeld, OneUnderWay DEF IInv

\* the row
<1>5. /\ alert' \in [Alerts -> AlertRows]
      /\ \A a \in Alerts :
           /\ alert'[a].state = alert[a].state /\ alert'[a].subject = alert[a].subject
           /\ alert[a].notified => alert'[a].notified
           /\ alert[a].told => alert'[a].told
           /\ alert'[a].due => alert[a].due
      /\ alert[e.alert].state \in {"active", "resolved"} =>
           /\ e.phase = "opened" => alert'[e.alert].notified
           /\ e.phase = "resolved" => alert'[e.alert].told
           /\ e.phase = "reminded" => ~alert'[e.alert].due
  <2>1. alert[e.alert] \in AlertRows /\ alert \in [Alerts -> AlertRows]
    BY <1>3 DEF IInv, TypeOK
  <2>2. CASE alert[e.alert].state \notin {"active", "resolved"}
    BY <1>1, <2>1, <2>2 DEF Row
  <2>3. CASE alert[e.alert].state \in {"active", "resolved"}
    <3>1. alert' = [alert EXCEPT ![e.alert] = Stamped(alert[e.alert], e.phase)]
      BY <1>1, <2>3 DEF Row
    <3>2. CASE e.phase = "opened"
      BY <1>3, <2>1, <3>1, <3>2 DEF Stamped, AlertRows
    <3>3. CASE e.phase = "reminded"
      BY <1>3, <2>1, <3>1, <3>3 DEF Stamped, AlertRows
    <3>4. CASE e.phase = "resolved"
      BY <1>3, <2>1, <3>1, <3>4 DEF Stamped, AlertRows
    <3> QED BY <1>3, <3>2, <3>3, <3>4 DEF Phases
  <2> QED BY <2>2, <2>3

\* the digest
<1>6. /\ TypeOK'
      /\ \A v \in Sweeps : v # w => sweep'[v] = IdleSweep
      /\ sweep'[w].active = {} /\ sweep'[w].digest \subseteq sweep[w].digest
      /\ \A x \in sweep[w].digest : x # e => At(w, "stamp")' /\ x \in sweep'[w].digest
      /\ sweep'[w].digest = {} \/ At(w, "stamp")'
      /\ ~At(w, "subjects")'
  <2>1. CASE sweep[w].digest = {e}
    <3>1. End(w)
      BY <1>1, <2>1
    <3> QED BY <1>2, <1>5, <2>1, <3>1, Ends, RecordTypes DEF IInv, TypeOK, At
  <2>2. CASE sweep[w].digest # {e}
    <3> DEFINE r == [sweep[w] EXCEPT !.digest = @ \ {e}]
    <3>1. r \in SweepRecords /\ r.pc = "stamp" /\ r.active = {} /\ r.digest = sweep[w].digest \ {e}
      BY <1>2, <1>3, <1>4 DEF SweepRecords, At
    <3>2. sweep' = [sweep EXCEPT ![w] = r] /\ sweeping' = w
      BY <1>1, <1>3, <1>4, <2>2 DEF IInv, TypeOK, SweepRecords
    <3>3. TypeOK'
      BY <1>2, <1>4, <1>5, <3>1, <3>2, SweepBecomes DEF IInv, TypeOK
    <3>4. sweep'[w] = r /\ \A v \in Sweeps : v # w => sweep'[v] = IdleSweep
      BY <1>4, <3>2 DEF IInv, TypeOK
    <3> QED BY <3>1, <3>3, <3>4 DEF At
  <2> QED BY <2>1, <2>2
<1>7. /\ \A a : ~Held(a)'
      /\ \A x : (BeingStamped(x) <=> x \in sweep[w].digest) /\ (Digested(x) <=> x \in sweep[w].digest)
      /\ \A x : Digested(x)' => x \in sweep[w].digest
      /\ \A x \in sweep[w].digest : x # e => BeingStamped(x)'
  BY <1>2, <1>4, <1>6, OnlyThatSweep, OnlyThatSweepNext
<1>8. (OneActivePerSubject /\ AnnouncedOnce)'
  BY <1>2, <1>5 DEF IInv, OneActivePerSubject, AnnouncedOnce, Active
<1>9. HeldIsActive'
  BY <1>6, RecordTypes DEF HeldIsActive, At
<1>10. NotBefore'
  BY <1>2, <1>4, <1>5, <1>7 DEF IInv, NotBefore
<1>11. AnnouncedIsStamped'
  <2> SUFFICES ASSUME NEW a \in Alerts, a \notin again
               PROVE  /\ sent[Entry(a, "opened")] > 0 => (alert[a].notified \/ BeingStamped(Entry(a, "opened")) \/ Lost(a))'
                      /\ sent[Entry(a, "resolved")] > 0 => (alert[a].told \/ BeingStamped(Entry(a, "resolved")) \/ Lost(a))'
                      /\ alert'[a].due => a \in aged \/ BeingStamped(Entry(a, "reminded"))' \/ Lost(a)'
    BY <1>2 DEF AnnouncedIsStamped
  <2>1. Lost(a) => Lost(a)'
    BY <1>5, <1>7 DEF Lost
  <2>2. \A p \in Phases : Entry(a, p) # e /\ BeingStamped(Entry(a, p)) => BeingStamped(Entry(a, p))'
    BY <1>7
  <2>3. ASSUME NEW p \in Phases, Entry(a, p) = e
        PROVE  e.alert = a /\ e.phase = p /\ (alert[a].state \in {"active", "resolved"} \/ Lost(a)')
    <3>1. e.alert = a /\ e.phase = p
      BY <2>3, EntryTypes
    <3>2. alert[a].state # "none"
      BY <1>7, <2>3 DEF IInv, NotBefore
    <3>3. alert[a].state \in {"none", "active", "resolved", "gone"}
      BY DEF IInv, TypeOK, AlertRows
    <3> QED BY <1>5, <1>7, <3>1, <3>2, <3>3 DEF Lost
  <2> QED BY <1>5, <2>1, <2>2, <2>3 DEF IInv, AnnouncedIsStamped, Phases
<1>12. DigestIsNew'
  BY <1>6, RecordTypes DEF DigestIsNew, At
<1> QED BY <1>6, <1>8, <1>9, <1>10, <1>11, <1>12 DEF IInv

\* What the visit of any subject has in common.
LEMMA Visited ==
  ASSUME IInv, NEW w \in Sweeps, NEW s \in Subjects, At(w, "subjects"), s \in sweep[w].subjects,
         NEW entries \in SUBSET Entries, sweep' = Done(w, s, entries),
         UNCHANGED <<level, configured, sweeping, faults, sent, aged, again>>,
         alert' \in [Alerts -> AlertRows],
         \A a \in Alerts : alert'[a] = alert[a] \/ alert'[a].subject = s,
         \A a \in sweep[w].active : alert[a].subject # s => alert'[a] = alert[a]
  PROVE  /\ TypeOK' /\ AnnouncedOnce' /\ HeldIsActive'
         /\ \A a : /\ Held(a) <=> a \in sweep[w].active
                   /\ Held(a)' <=> a \in sweep[w].active /\ alert[a].subject # s
         /\ \A e : /\ ~BeingStamped(e) /\ ~BeingStamped(e)'
                   /\ Digested(e)' <=> Digested(e) \/ e \in entries
         /\ \A v \in Sweeps : sweep'[v].digest \subseteq sweep[w].digest \cup entries
<1>1. PICK r \in SweepRecords :
        /\ sweep' = [sweep EXCEPT ![w] = r]
        /\ r.subjects = sweep[w].subjects \ {s} /\ r.pc = Position(r.subjects)
        /\ r.active = {a \in sweep[w].active : alert[a].subject # s}
        /\ r.digest = sweep[w].digest \cup entries
  BY DoneBecomes DEF IInv
<1>2. /\ sweeping = w /\ \A v \in Sweeps : v # w => sweep[v] = IdleSweep /\ sweep'[v] = IdleSweep
      /\ sweep'[w] = r
  BY <1>1, OneUnderWay DEF IInv, TypeOK, At
<1>3. r.pc \in {"rules", "subjects"} /\ (r.subjects # {} => r.pc = "subjects")
  BY <1>1 DEF Position
<1>4. TypeOK'
  BY ZenonT(40), <1>1, <1>2, <1>3, SweepBecomes DEF IInv, TypeOK
<1>5. /\ \A a : /\ Held(a) <=> a \in sweep[w].active
                /\ Held(a)' <=> a \in r.active
      /\ \A e : /\ ~BeingStamped(e) /\ ~BeingStamped(e)'
                /\ Digested(e)' <=> e \in r.digest
                /\ Digested(e) <=> e \in sweep[w].digest
  BY <1>2, <1>3, OnlyThatSweep, OnlyThatSweepNext DEF At
<1>6. HeldIsActive'
  <2>1. ASSUME NEW v \in Sweeps, v # w PROVE sweep'[v].active = {} /\ sweep'[v].pc # "subjects"
    BY <1>2, <2>1, RecordTypes
  <2>2. ASSUME NEW a \in Alerts, alert'[a].state = "active", alert'[a].subject \in r.subjects
        PROVE  a \in r.active
    <3>1. alert'[a] = alert[a] /\ alert[a].subject # s /\ alert[a].subject \in sweep[w].subjects
      BY <1>1, <2>2
    <3> QED BY <1>1, <2>2, <3>1 DEF IInv, HeldIsActive, Active
  <2>3. ASSUME NEW a \in r.active
        PROVE  r.pc = "subjects" /\ alert'[a].subject \in r.subjects /\ alert'[a].state \in {"active", "gone"}
    <3>1. a \in sweep[w].active /\ alert[a].subject # s /\ alert'[a] = alert[a]
      BY <1>1
    <3>2. alert[a].subject \in sweep[w].subjects /\ alert[a].state \in {"active", "gone"}
      BY <3>1 DEF IInv, HeldIsActive
    <3> QED BY <1>1, <1>3, <3>1, <3>2
  <2>4. ASSUME NEW v \in Sweeps
        PROVE  /\ \A a \in Alerts :
                     Active(a)' /\ At(v, "subjects")' /\ alert'[a].subject \in sweep'[v].subjects => a \in sweep'[v].active
               /\ \A a \in sweep'[v].active :
                     At(v, "subjects")' /\ alert'[a].subject \in sweep'[v].subjects /\ alert'[a].state \in {"active", "gone"}
    <3>1. CASE v = w
      BY <1>2, <2>2, <2>3, <3>1 DEF At, Active
    <3>2. CASE v # w
      BY <2>1, <3>2 DEF At
    <3> QED BY <3>1, <3>2
  <2> QED BY <2>4 DEF HeldIsActive
<1>7. \A v \in Sweeps : sweep'[v].digest \subseteq sweep[w].digest \cup entries
  BY <1>1, <1>2, RecordTypes
<1>8. AnnouncedOnce'
  BY DEF IInv, AnnouncedOnce
<1> QED BY <1>1, <1>4, <1>5, <1>6, <1>7, <1>8

\* An Alert held for a subject is of the Rule's; of those whose subject is s.
LEMMA ExistingIsHeld ==
  ASSUME IInv, NEW w \in Sweeps, NEW s, NEW a \in Existing(w, s)
  PROVE  /\ a \in Alerts /\ a \in sweep[w].active /\ alert[a].subject = s /\ Held(a)
         /\ alert[a] \in AlertRows /\ alert[a].state \in {"active", "gone"}
<1>1. a \in sweep[w].active /\ alert[a].subject = s
  BY DEF Existing
<1>2. sweep[w] \in SweepRecords
  BY DEF IInv, TypeOK
<1>3. a \in Alerts
  BY <1>1, <1>2 DEF SweepRecords
<1> QED BY <1>1, <1>3 DEF IInv, TypeOK, HeldIsActive, Held

LEMMA SkipKeeps ==
  ASSUME IInv, NEW w \in Sweeps, NEW s \in Subjects, SweepSubject(w, s), Skip(w, s)
  PROVE  IInv'
<1>1. /\ At(w, "subjects") /\ s \in sweep[w].subjects
      /\ UNCHANGED <<level, alert, configured, sweeping, faults, sent, aged, again>>
      /\ sweep' = Done(w, s, {})
  BY DEF SweepSubject, Skip, history
<1>2. /\ TypeOK' /\ AnnouncedOnce' /\ HeldIsActive'
      /\ \A a : Held(a)' => Held(a)
      /\ \A e : ~BeingStamped(e) /\ (Digested(e)' <=> Digested(e))
      /\ \A v \in Sweeps : sweep'[v].digest \subseteq sweep[w].digest
  <2>1. alert' \in [Alerts -> AlertRows] /\ {} \in SUBSET Entries
    BY <1>1 DEF IInv, TypeOK
  <2> DEFINE none == {}
  <2>2. none \in SUBSET Entries /\ sweep' = Done(w, s, none)
    BY <1>1
  <2> HIDE DEF none
  <2> QED BY <1>1, <2>1, <2>2, Visited DEF none
<1>3. OneActivePerSubject'
  BY <1>1 DEF IInv, OneActivePerSubject, Active
<1>4. NotBefore'
  BY <1>1, <1>2 DEF IInv, NotBefore
<1>5. AnnouncedIsStamped'
  BY <1>1, <1>2 DEF IInv, AnnouncedIsStamped, Lost
<1>6. DigestIsNew'
  <2>1. ~At(w, "stamp")
    BY <1>1 DEF At
  <2> QED BY <1>1, <1>2, <2>1 DEF IInv, DigestIsNew
<1> QED BY <1>2, <1>3, <1>4, <1>5, <1>6 DEF IInv

LEMMA OpenKeeps ==
  ASSUME IInv, NEW w \in Sweeps, NEW s \in Subjects, SweepSubject(w, s), Open(w, s)
  PROVE  IInv'
<1> DEFINE entries(a) == IF configured THEN {Entry(a, "opened")} ELSE {}
           row == [NoAlert EXCEPT !.subject = s, !.state = "active", !.notified = ~configured]
<1>1. /\ At(w, "subjects") /\ ~At(w, "stamp") /\ s \in sweep[w].subjects /\ Existing(w, s) = {}
      /\ UNCHANGED <<level, configured, sweeping, faults, sent, aged, again>>
  BY DEF SweepSubject, Open, history, At
<1>2. PICK a \in NextAlert : alert' = [alert EXCEPT ![a] = row] /\ sweep' = Done(w, s, entries(a))
  BY DEF Open
<1>3. a \in Alerts /\ alert[a].state = "none"
  BY DEF NextAlert
<1>4. row \in AlertRows /\ row.subject = s /\ row.state = "active" /\ ~row.due
  BY DEF NoAlert, AlertRows, IInv, TypeOK
<1>5. /\ alert' \in [Alerts -> AlertRows] /\ alert'[a] = row
      /\ \A b \in Alerts : b # a => alert'[b] = alert[b]
  BY <1>2, <1>3, <1>4 DEF IInv, TypeOK
<1>6. ~Held(a) /\ a \notin sweep[w].active
  BY <1>3 DEF IInv, HeldIsActive, Held
<1>7. entries(a) \in SUBSET Entries /\ \A e \in entries(a) : e = Entry(a, "opened")
  BY <1>3, EntryTypes DEF Phases
<1> HIDE DEF row, entries
<1>8. /\ TypeOK' /\ AnnouncedOnce' /\ HeldIsActive'
      /\ \A b : Held(b)' => Held(b)
      /\ \A e : ~BeingStamped(e) /\ (Digested(e)' <=> Digested(e) \/ e \in entries(a))
      /\ \A v \in Sweeps : sweep'[v].digest \subseteq sweep[w].digest \cup entries(a)
  <2>1. /\ \A b \in Alerts : alert'[b] = alert[b] \/ alert'[b].subject = s
        /\ \A b \in sweep[w].active : alert[b].subject # s => alert'[b] = alert[b]
    <3>1. sweep[w].active \subseteq Alerts
      BY DEF IInv, TypeOK, SweepRecords
    <3> QED BY <1>4, <1>5, <1>6, <3>1
  <2> QED BY <1>1, <1>2, <1>5, <1>7, <2>1, Visited

\* no other Alert of the subject is active
<1>9. OneActivePerSubject'
  <2>1. ASSUME NEW b \in Alerts, Active(b), alert[b].subject = s PROVE FALSE
    BY <1>1, <2>1 DEF IInv, HeldIsActive, Existing
  <2>2. \A b \in Alerts : b # a => (Active(b)' <=> Active(b))
    BY <1>5 DEF Active
  <2> QED BY <1>4, <1>5, <2>1, <2>2 DEF IInv, OneActivePerSubject
<1>10. /\ a \notin aged /\ \A p \in Phases : sent[Entry(a, p)] = 0 /\ ~Digested(Entry(a, p))
  BY <1>3 DEF IInv, NotBefore
<1>11. \A b \in Alerts, p \in Phases : Entry(b, p) \in entries(a) => b = a /\ p = "opened"
  BY <1>3, <1>7, EntryTypes DEF Phases
<1>12. NotBefore'
  <2>1. ASSUME NEW b \in Alerts, b # a
        PROVE  /\ alert'[b] = alert[b] /\ \A p \in Phases : Digested(Entry(b, p))' => Digested(Entry(b, p))
    BY <1>5, <1>8, <1>11, <2>1
  <2>2. ~Digested(Entry(a, "resolved"))' /\ ~(sent[Entry(a, "resolved")] > 0)
    BY <1>3, <1>8, <1>10, <1>11 DEF Phases
  <2> QED BY <1>1, <1>4, <1>5, <1>8, <2>1, <2>2 DEF IInv, NotBefore, Phases
<1>13. AnnouncedIsStamped'
  <2>1. ~(sent[Entry(a, "opened")] > 0) /\ ~(sent[Entry(a, "resolved")] > 0)
    BY <1>10 DEF Phases
  <2>2. ASSUME NEW b \in Alerts, b # a PROVE alert'[b] = alert[b] /\ (Lost(b) => Lost(b)')
    BY <1>5, <1>8, <2>2 DEF Lost
  <2> QED BY <1>1, <1>4, <1>5, <1>8, <2>1, <2>2 DEF IInv, AnnouncedIsStamped
<1>14. DigestIsNew'
  <2>1. \A e \in entries(a) : e.phase # "reminded" /\ sent[e] = 0
    BY <1>3, <1>7, <1>10, EntryTypes DEF Phases
  <2> QED BY <1>1, <1>8, <2>1 DEF IInv, DigestIsNew
<1> QED BY <1>8, <1>9, <1>12, <1>13, <1>14 DEF IInv

LEMMA StillActiveKeeps ==
  ASSUME IInv, NEW w \in Sweeps, NEW s \in Subjects, SweepSubject(w, s), StillActive(w, s)
  PROVE  IInv'
<1>1. /\ At(w, "subjects") /\ ~At(w, "stamp") /\ s \in sweep[w].subjects
      /\ UNCHANGED <<level, configured, sweeping, faults, sent, aged, again>>
  BY DEF SweepSubject, history, At
<1>2. PICK a \in Existing(w, s) :
        IF ~alert[a].notified
        THEN /\ alert' = Row(a, [alert[a] EXCEPT !.notified = ~configured])
             /\ sweep' = Done(w, s, IF configured THEN {Entry(a, "opened")} ELSE {})
        ELSE /\ sweep' = Done(w, s, IF alert[a].due THEN {Entry(a, "reminded")} ELSE {})
             /\ UNCHANGED alert
  BY DEF StillActive
<1> DEFINE entries == IF ~alert[a].notified
                      THEN IF configured THEN {Entry(a, "opened")} ELSE {}
                      ELSE IF alert[a].due THEN {Entry(a, "reminded")} ELSE {}
<1>3. /\ a \in Alerts /\ a \in sweep[w].active /\ Held(a)
      /\ alert[a] \in AlertRows /\ alert[a].subject = s /\ alert[a].state \in {"active", "gone"}
  BY ExistingIsHeld
<1>4. /\ alert' \in [Alerts -> AlertRows]
      /\ \A b \in Alerts : b # a => alert'[b] = alert[b]
      /\ \A b \in Alerts : /\ alert'[b].state = alert[b].state /\ alert'[b].subject = alert[b].subject
                           /\ alert'[b].told = alert[b].told /\ alert'[b].due = alert[b].due
                           /\ alert[b].notified => alert'[b].notified
  <2>1. configured \in BOOLEAN /\ alert \in [Alerts -> AlertRows]
    BY DEF IInv, TypeOK
  <2>2. CASE alert' = alert
    BY <2>1, <2>2
  <2>3. CASE alert' = [alert EXCEPT ![a] = [alert[a] EXCEPT !.notified = ~configured]] /\ ~alert[a].notified
    BY <1>3, <2>1, <2>3 DEF AlertRows
  <2> QED BY <1>2, <2>2, <2>3 DEF Row
<1>5. /\ entries \in SUBSET Entries /\ sweep' = Done(w, s, entries)
      /\ \A e \in entries : /\ e = Entry(a, "opened") \/ e = Entry(a, "reminded")
                            /\ e.alert = a /\ e.phase \in {"opened", "reminded"} /\ e = Entry(a, e.phase)
                            /\ e.phase = "opened" => ~alert[a].notified
                            /\ e.phase = "reminded" => alert[a].due
  <2>1. entries \subseteq {Entry(a, "opened"), Entry(a, "reminded")} /\ sweep' = Done(w, s, entries)
    BY <1>2
  <2>2. \A p \in {"opened", "reminded"} : Entry(a, p) \in Entries /\ Entry(a, p).alert = a /\ Entry(a, p).phase = p
    BY <1>3, EntryTypes DEF Phases
  <2>3. Entry(a, "opened") \in entries => ~alert[a].notified
    BY DEF Entry
  <2>4. Entry(a, "reminded") \in entries => alert[a].due
    BY DEF Entry
  <2> QED BY <2>1, <2>2, <2>3, <2>4
<1> HIDE DEF entries
<1>6. /\ TypeOK' /\ AnnouncedOnce' /\ HeldIsActive'
      /\ \A b : Held(b)' => Held(b)
      /\ \A e : ~BeingStamped(e) /\ (Digested(e)' <=> Digested(e) \/ e \in entries)
      /\ \A v \in Sweeps : sweep'[v].digest \subseteq sweep[w].digest \cup entries
  <2>1. /\ \A b \in Alerts : alert'[b] = alert[b] \/ alert'[b].subject = s
        /\ \A b \in sweep[w].active : alert[b].subject # s => alert'[b] = alert[b]
    <3>1. sweep[w].active \subseteq Alerts
      BY DEF IInv, TypeOK, SweepRecords
    <3> QED BY <1>3, <1>4, <3>1
  <2> QED BY <1>1, <1>4, <1>5, <2>1, Visited
<1>7. OneActivePerSubject'
  BY <1>4 DEF IInv, OneActivePerSubject, Active
<1>8. \A b \in Alerts : ~(Entry(b, "resolved") \in entries) /\ \A p \in Phases : Entry(b, p) \in entries => b = a
  BY <1>5, EntryTypes DEF Phases
<1>9. NotBefore'
  <2>1. alert[a].state # "none" /\ \A b \in Alerts, p \in Phases : b # a => Entry(b, p) \notin entries
    BY <1>3, <1>8
  <2>2. \A b \in Alerts : Digested(Entry(b, "resolved"))' => Digested(Entry(b, "resolved"))
    BY <1>6, <1>8
  <2>3. \A b \in Alerts, p \in Phases : b # a => (Digested(Entry(b, p))' => Digested(Entry(b, p)))
    BY <1>6, <2>1
  <2> QED BY <1>1, <1>4, <1>6, <2>1, <2>2, <2>3 DEF IInv, NotBefore
<1>10. AnnouncedIsStamped'
  <2>1. \A b : Lost(b) => alert[b].state = "gone" /\ ~Held(b)'
    BY <1>6 DEF Lost
  <2> QED BY <1>1, <1>4, <1>6, <2>1 DEF IInv, AnnouncedIsStamped, Lost

\* what the digest takes up now was not announced
<1>11. ASSUME NEW e \in entries, e.alert \notin again
       PROVE  IF e.phase = "reminded" THEN e.alert \in aged ELSE sent[e] = 0
  <2>1. e.alert = a /\ e = Entry(a, e.phase) /\ e \in Entries /\ e.phase \in {"opened", "reminded"} /\ a \notin again
    BY <1>5, <1>11
  <2>2. ~Lost(a) /\ \A p : ~BeingStamped(Entry(a, p))
    BY <1>3, <1>6 DEF Lost
  <2>3. CASE e.phase = "reminded"
    <3>1. alert[a].due
      BY <1>5, <2>3
    <3> QED BY <1>3, <2>1, <2>2, <2>3, <3>1 DEF IInv, AnnouncedIsStamped
  <2>4. CASE e.phase = "opened"
    <3>1. ~alert[a].notified
      BY <1>5, <2>4
    <3>2. ~(sent[Entry(a, "opened")] > 0)
      BY <1>3, <2>1, <2>2, <3>1 DEF IInv, AnnouncedIsStamped
    <3>3. sent[e] \in 0..2
      BY <2>1 DEF IInv, TypeOK
    <3> QED BY <2>1, <2>4, <3>2, <3>3
  <2> QED BY <2>1, <2>3, <2>4
<1>12. DigestIsNew'
  BY <1>1, <1>6, <1>11 DEF IInv, DigestIsNew
<1> QED BY <1>6, <1>7, <1>9, <1>10, <1>12 DEF IInv

LEMMA ResolveKeeps ==
  ASSUME IInv, NEW w \in Sweeps, NEW s \in Subjects, SweepSubject(w, s), Resolve(w, s)
  PROVE  IInv'
<1>1. /\ At(w, "subjects") /\ ~At(w, "stamp") /\ s \in sweep[w].subjects
      /\ UNCHANGED <<level, configured, sweeping, faults, sent, aged, again>>
  BY DEF SweepSubject, history, At
<1>2. PICK a \in Existing(w, s) :
        /\ alert' = Row(a, [alert[a] EXCEPT !.state = "resolved", !.told = ~configured])
        /\ sweep' = Done(w, s, IF configured THEN {Entry(a, "resolved")} ELSE {})
  BY DEF Resolve
<1> DEFINE entries == IF configured THEN {Entry(a, "resolved")} ELSE {}
<1>3. /\ a \in Alerts /\ a \in sweep[w].active /\ Held(a)
      /\ alert[a] \in AlertRows /\ alert[a].subject = s /\ alert[a].state \in {"active", "gone"}
  BY ExistingIsHeld
<1>4. /\ alert' \in [Alerts -> AlertRows]
      /\ \A b \in Alerts : b # a => alert'[b] = alert[b]
      /\ alert'[a].subject = s /\ alert'[a].state \in {"resolved", "gone"}
      /\ alert'[a].notified = alert[a].notified /\ alert'[a].due = alert[a].due
  <2>1. configured \in BOOLEAN /\ alert \in [Alerts -> AlertRows]
    BY DEF IInv, TypeOK
  <2>2. CASE alert[a].state = "gone"
    BY <1>2, <1>3, <2>1, <2>2 DEF Row
  <2>3. CASE alert' = [alert EXCEPT ![a] = [alert[a] EXCEPT !.state = "resolved", !.told = ~configured]]
    BY <1>3, <2>1, <2>3 DEF AlertRows
  <2> QED BY <1>2, <1>3, <2>2, <2>3 DEF Row
<1>5. /\ entries \in SUBSET Entries /\ sweep' = Done(w, s, entries)
      /\ \A e \in entries : e = Entry(a, "resolved") /\ e.alert = a /\ e.phase = "resolved"
  BY <1>2, <1>3, EntryTypes DEF Phases
<1> HIDE DEF entries
<1>6. /\ TypeOK' /\ AnnouncedOnce' /\ HeldIsActive'
      /\ \A b : (Held(b)' => Held(b)) /\ ~Held(a)'
      /\ \A e : ~BeingStamped(e) /\ (Digested(e)' <=> Digested(e) \/ e \in entries)
      /\ \A v \in Sweeps : sweep'[v].digest \subseteq sweep[w].digest \cup entries
  <2>1. /\ \A b \in Alerts : alert'[b] = alert[b] \/ alert'[b].subject = s
        /\ \A b \in sweep[w].active : alert[b].subject # s => alert'[b] = alert[b]
    <3>1. sweep[w].active \subseteq Alerts
      BY DEF IInv, TypeOK, SweepRecords
    <3> QED BY <1>3, <1>4, <3>1
  <2> QED BY <1>1, <1>3, <1>4, <1>5, <2>1, Visited
<1>7. OneActivePerSubject'
  BY <1>4 DEF IInv, OneActivePerSubject, Active
<1>8. \A b \in Alerts, p \in Phases : Entry(b, p) \in entries => b = a /\ p = "resolved"
  BY <1>5, EntryTypes
<1>9. NotBefore'
  <2>1. \A b \in Alerts, p \in Phases : b # a => (Digested(Entry(b, p))' => Digested(Entry(b, p)))
    BY <1>6, <1>8
  <2> QED BY <1>1, <1>4, <1>6, <2>1 DEF IInv, NotBefore, Phases

\* the Alert that is resolved was not announced as resolved
<1>10. ~(sent[Entry(a, "resolved")] > 0)
  BY <1>3 DEF IInv, NotBefore
<1>11. AnnouncedIsStamped'
  <2>1. \A b \in Alerts : b # a /\ Lost(b) => Lost(b)'
    BY <1>4, <1>6 DEF Lost
  <2>2. ~Lost(a)
    BY <1>3 DEF Lost
  <2> QED BY <1>1, <1>4, <1>6, <1>10, <2>1, <2>2 DEF IInv, AnnouncedIsStamped
<1>12. DigestIsNew'
  <2>1. ASSUME NEW e \in entries PROVE e.phase # "reminded" /\ sent[e] = 0
    <3>1. sent[e] \in 0..2
      BY <1>5 DEF IInv, TypeOK
    <3> QED BY <1>5, <1>10, <3>1
  <2> QED BY <1>1, <1>6, <2>1 DEF IInv, DigestIsNew
<1> QED BY <1>6, <1>7, <1>9, <1>11, <1>12 DEF IInv

\* Around the sweeps: rows become due, go with their subject, or are forgotten.
LEMMA RowsChangeKeeps ==
  ASSUME IInv, TypeOK',
         UNCHANGED <<sweep, sent, again>>, aged \subseteq aged',
         \A a \in Alerts :
           /\ alert'[a].subject = alert[a].subject /\ alert'[a].state \in {alert[a].state, "gone"}
           /\ alert'[a].state = "none" /\ a \in aged' => a \in aged
           /\ \/ /\ alert'[a].notified = alert[a].notified /\ alert'[a].told = alert[a].told
                 /\ alert'[a].due => alert[a].due \/ a \in aged'
              \/ Lost(a)'
  PROVE  IInv'
<1>1. \A a : /\ Held(a)' <=> Held(a)
             /\ \A p \in Phases : /\ Digested(Entry(a, p))' <=> Digested(Entry(a, p))
                                  /\ BeingStamped(Entry(a, p))' <=> BeingStamped(Entry(a, p))
  BY DEF Held, Digested, BeingStamped, At
<1>2. (OneActivePerSubject /\ AnnouncedOnce)'
  BY DEF IInv, OneActivePerSubject, AnnouncedOnce, Active
<1>3. HeldIsActive'
  <2>1. \A w \in Sweeps : sweep[w].active \subseteq Alerts
    BY DEF IInv, TypeOK, SweepRecords
  <2>2. \A w \in Sweeps : \A a \in sweep[w].active :
          alert'[a].subject = alert[a].subject /\ alert'[a].state \in {"active", "gone"}
    BY <2>1 DEF IInv, HeldIsActive
  <2>3. \A a \in Alerts : Active(a)' => Active(a) /\ alert'[a].subject = alert[a].subject
    BY DEF Active
  <2> QED BY <2>1, <2>2, <2>3 DEF IInv, HeldIsActive, At
<1>4. NotBefore'
  BY <1>1 DEF IInv, NotBefore, Phases
<1>5. AnnouncedIsStamped'
  BY <1>1 DEF IInv, AnnouncedIsStamped, Lost, Phases
<1>6. DigestIsNew'
  BY DEF IInv, DigestIsNew, At
<1> QED BY <1>2, <1>3, <1>4, <1>5, <1>6 DEF IInv

LEMMA AroundKeeps ==
  ASSUME IInv,
         \/ \E s \in Subjects : DeleteSubject(s) \/ \E l \in Levels : Observe(s, l)
         \/ \E a \in Alerts : Prune(a) \/ ReminderIntervalPasses(a)
  PROVE  IInv'
<1>1. alert \in [Alerts -> AlertRows]
  BY DEF IInv, TypeOK
<1>2. ASSUME NEW s \in Subjects, NEW l \in Levels, Observe(s, l) PROVE IInv'
  <2>1. TypeOK'
    BY <1>2 DEF Observe, history, IInv, TypeOK, At
  <2> QED BY <1>2, <2>1, RowsChangeKeeps DEF Observe, history
<1>3. ASSUME NEW s \in Subjects, DeleteSubject(s) PROVE IInv'
  <2>1. /\ level' = [level EXCEPT ![s] = "deleted"]
        /\ alert' = [a \in Alerts |-> IF alert[a].subject = s THEN [alert[a] EXCEPT !.state = "gone"] ELSE alert[a]]
        /\ UNCHANGED <<configured, sweeping, sweep, faults, sent, aged, again>>
    BY <1>3 DEF DeleteSubject, history
  <2>2. \A a \in Alerts :
          /\ alert'[a] \in AlertRows
          /\ alert'[a].subject = alert[a].subject /\ alert'[a].state \in {alert[a].state, "gone"}
          /\ alert'[a].notified = alert[a].notified /\ alert'[a].told = alert[a].told
          /\ alert'[a].due => alert[a].due
    BY <1>1, <2>1 DEF AlertRows
  <2>3. alert' \in [Alerts -> AlertRows]
    BY <2>1, <2>2
  <2>4. TypeOK'
    BY <2>1, <2>3 DEF IInv, TypeOK, At
  <2> QED BY <2>1, <2>2, <2>4, RowsChangeKeeps
<1>4. ASSUME NEW a \in Alerts, Prune(a) PROVE IInv'
  <2> DEFINE row == [NoAlert EXCEPT !.subject = alert[a].subject, !.state = "gone"]
  <2>1. /\ alert[a].state = "resolved" /\ alert' = [alert EXCEPT ![a] = row]
        /\ UNCHANGED <<level, configured, sweeping, sweep, faults, sent, aged, again>>
    BY <1>4 DEF Prune, history
  <2>2. row \in AlertRows /\ row.subject = alert[a].subject /\ row.state = "gone"
    BY <1>1 DEF NoAlert, AlertRows
  <2>3. alert' \in [Alerts -> AlertRows] /\ alert'[a] = row /\ \A b \in Alerts : b # a => alert'[b] = alert[b]
    BY <1>1, <2>1, <2>2
  <2>4. Lost(a)'
    <3>1. ~Held(a)
      BY <2>1 DEF IInv, HeldIsActive, Held
    <3> QED BY <2>1, <2>2, <2>3, <3>1 DEF Lost, Held
  <2>5. TypeOK'
    BY <2>1, <2>3 DEF IInv, TypeOK, At
  <2> QED BY <2>1, <2>2, <2>3, <2>4, <2>5, RowsChangeKeeps
<1>5. ASSUME NEW a \in Alerts, ReminderIntervalPasses(a) PROVE IInv'
  <2>1. /\ Active(a) /\ alert' = [alert EXCEPT ![a].due = TRUE] /\ aged' = aged \cup {a}
        /\ UNCHANGED <<level, configured, sweeping, sweep, faults, sent, again>>
    BY <1>5 DEF ReminderIntervalPasses
  <2>2. /\ alert' \in [Alerts -> AlertRows]
        /\ alert'[a].subject = alert[a].subject /\ alert'[a].state = "active" /\ alert[a].state = "active"
        /\ alert'[a].notified = alert[a].notified /\ alert'[a].told = alert[a].told
        /\ \A b \in Alerts : b # a => alert'[b] = alert[b] /\ (b \in aged' => b \in aged)
    BY <1>1, <2>1 DEF AlertRows, Active
  <2>3. TypeOK'
    BY <2>1, <2>2 DEF IInv, TypeOK, At
  <2> QED BY <2>1, <2>2, <2>3, RowsChangeKeeps
<1> QED BY <1>2, <1>3, <1>4, <1>5

-----------------------------------------------------------------------------
(* The theorems.                                                           *)

LEMMA SweepStepKeeps ==
  ASSUME IInv, NEW w \in Sweeps, SweepStep(w)
  PROVE  IInv'
BY QuietEndKeeps, CollectKeeps, BeginKeeps, DeliverKeeps, StampKeeps,
   SkipKeeps, OpenKeeps, StillActiveKeeps, ResolveKeeps DEF SweepStep, SweepSubject

LEMMA StepKeeps == IInv /\ [Next]_vars => IInv'
<1> SUFFICES ASSUME IInv, [Next]_vars PROVE IInv'
  OBVIOUS
<1>1. CASE UNCHANGED vars
  <2>1. /\ UNCHANGED <<level, alert, configured, sweeping, sweep, faults, sent, aged, again>>
    BY <1>1 DEF vars
  <2>2. TypeOK'
    BY <2>1 DEF IInv, TypeOK, At
  <2> QED BY <2>1, <2>2, RowsChangeKeeps
<1>2. CASE Next
  BY <1>2, StartKeeps, SweepStepKeeps, UnansweredKeeps, SweepThrowsKeeps, AroundKeeps, RestartKeeps DEF Next
<1> QED BY <1>1, <1>2

THEOREM Invariant == Spec => []IInv
BY InitHolds, StepKeeps, PTL DEF Spec

\* The rows and the sweeps keep their shape, and one sweep is under way at a time
\* however often sweep() is called.
THEOREM TypeCorrect == Spec => []TypeOK
<1>1. IInv => TypeOK
  BY DEF IInv
<1> QED BY <1>1, Invariant, PTL

\* "at most one active Alert per Rule per subject", for any number of them and
\* wherever a sweep throws or is killed.
THEOREM OneActive == Spec => []OneActivePerSubject
<1>1. IInv => OneActivePerSubject
  BY DEF IInv
<1> QED BY <1>1, Invariant, PTL

\* No Alert whose stamps could be written is announced twice as opened, or twice
\* as resolved.
THEOREM NothingTwice == Spec => []AnnouncedOnce
<1>1. IInv => AnnouncedOnce
  BY DEF IInv
<1> QED BY <1>1, Invariant, PTL

\* A Reminder goes out only when its interval has passed since the Alert was last
\* announced.
THEOREM Reminders == Spec => RemindersKeepTheInterval
<1>1. ASSUME IInv, NEW w \in Sweeps, NEW a \in Alerts, a \notin again,
             Deliver(w) \/ Unanswered(w), Entry(a, "reminded") \in sweep[w].digest
      PROVE  a \in aged
  <2>1. ~At(w, "stamp")
    BY <1>1 DEF Deliver, Unanswered, ReadyToSend, At
  <2> QED BY <1>1, <2>1, EntryTypes DEF IInv, DigestIsNew, Phases
<1>2. IInv /\ [Next]_vars => [\A w \in Sweeps, a \in Alerts \ again :
          (Deliver(w) \/ Unanswered(w)) /\ Entry(a, "reminded") \in sweep[w].digest => a \in aged]_vars
  BY <1>1
<1> QED BY <1>2, Invariant, PTL DEF Spec, RemindersKeepTheInterval
==============================================================================
