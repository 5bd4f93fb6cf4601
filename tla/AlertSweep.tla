----------------------------- MODULE AlertSweep -----------------------------
(***************************************************************************)
(* The Alert Sweep (alert-sweep.service.ts): every few minutes it compares *)
(* each subject a Rule watches with the Rule's active Alerts, opens and    *)
(* resolves Alerts row by row, and sends one digest of all that is not yet *)
(* announced, which it then stamps row by row.  What a Rule says of a      *)
(* subject is one of four levels; a Notification may be delivered although *)
(* its answer is lost.                                                     *)
(***************************************************************************)
EXTENDS Integers, FiniteSets

CONSTANTS
  Rules,
  SubjectsOf,      \* the Devices or Data Sources a Rule watches
  Levels,          \* what a Rule may say of a subject
  RemindersOn,     \* whether the Reminder Interval is not 0
  Sweeps,          \* calls of sweep() that may be under way at the same time
  NoSweep,
  MaxAlerts,       \* bound: Alerts ever opened
  MaxFaults        \* bound: sweeps that throw, lost answers, crashes

ASSUME AlertSweepAssumptions ==
  /\ SubjectsOf \in [Rules -> SUBSET UNION {SubjectsOf[r] : r \in Rules}]
  /\ \A r, q \in Rules : r # q => SubjectsOf[r] \cap SubjectsOf[q] = {}
  /\ Levels \subseteq {"bad", "band", "good", "unknown"}
  /\ RemindersOn \in BOOLEAN
  /\ NoSweep \notin Sweeps /\ {MaxAlerts, MaxFaults} \subseteq Nat

VARIABLES
  level,       \* what the Rule says of each subject
  alert,       \* each Alert's row
  configured,  \* whether an Apprise URL is set
  sweeping,    \* the sweep whose promise callers share
  sweep,       \* each sweep: where it stands and what it works on
  faults,
  sent,        \* history: how often each Alert was announced as opened, as resolved (to 2)
  aged,        \* history: the Alerts whose Reminder Interval has passed since they were announced
  again        \* history: the Alerts that were sent and, for a fault, not stamped

vars == <<level, alert, configured, sweeping, sweep, faults, sent, aged, again>>

Subjects == UNION {SubjectsOf[r] : r \in Rules}
Alerts == 1..MaxAlerts

-----------------------------------------------------------------------------
(* Alert rows.  "due": the Reminder Interval has passed since the last     *)
(* announcement.                                                           *)

NoAlert == [subject |-> NoSweep, state |-> "none", notified |-> FALSE, due |-> FALSE, told |-> FALSE]
Active(a) == alert[a].state = "active"
Pending == {a \in Alerts : alert[a].state = "resolved" /\ ~alert[a].told}

\* What a digest says of an Alert.
Phases == {"opened", "reminded", "resolved"}
Entries == [alert: Alerts, phase: Phases]
Entry(a, phase) == [alert |-> a, phase |-> phase]

IdleSweep == [pc |-> "idle", levels |-> [s \in Subjects |-> "good"], rules |-> {}, subjects |-> {},
              active |-> {}, digest |-> {}]

Init ==
  /\ level = [s \in Subjects |-> "good"]
  /\ alert = [a \in Alerts |-> NoAlert]
  /\ configured \in BOOLEAN
  /\ sweeping = NoSweep
  /\ sweep = [w \in Sweeps |-> IdleSweep]
  /\ faults = 0
  /\ sent = [e \in Entries |-> 0]
  /\ aged = {} /\ again = {}

At(w, pc) == sweep[w].pc = pc
history == <<sent, aged, again>>

-----------------------------------------------------------------------------
(* A sweep.                                                                *)

\* Slip: the promise of the sweep under way is not shared
NotShared == TRUE
\* sweep(): the cron job and any other caller share the sweep under way
MayStart == sweeping = NoSweep

\* the thresholds, the subjects and what the Rules will say of them
Start(w) ==
  /\ At(w, "idle") /\ MayStart
  /\ sweeping' = w
  /\ sweep' = [sweep EXCEPT ![w] = [IdleSweep EXCEPT !.pc = "pending", !.levels = level]]
  /\ UNCHANGED <<level, alert, configured, faults, history>>

\* Slip: a resolution that was not delivered is not carried on
NothingCarried == {}
Carried == {Entry(a, "resolved") : a \in Pending}

\* collectPendingResolutions, before this sweep resolves any
CollectPending(w) ==
  /\ At(w, "pending")
  /\ sweep' = [sweep EXCEPT ![w] = [sweep[w] EXCEPT !.pc = "rules", !.rules = Rules, !.digest = Carried]]
  /\ UNCHANGED <<level, alert, configured, sweeping, faults, history>>

\* The Rule's next subject, or the next Rule.
Position(left) == IF left = {} THEN "rules" ELSE "subjects"

\* sweepRule: loadActiveBySubjectId
BeginRule(w, r) ==
  /\ At(w, "rules") /\ r \in sweep[w].rules
  /\ sweep' = [sweep EXCEPT ![w] = [sweep[w] EXCEPT !.pc = Position(SubjectsOf[r]), !.rules = @ \ {r},
                  !.subjects = SubjectsOf[r], !.active = {a \in Alerts : Active(a) /\ alert[a].subject \in SubjectsOf[r]}]]
  /\ UNCHANGED <<level, alert, configured, sweeping, faults, history>>

\* The sweep goes on to the next subject, with or without an entry for this one.
Done(w, s, entries) ==
  LET left == sweep[w].subjects \ {s}
  IN [sweep EXCEPT ![w] = [sweep[w] EXCEPT !.subjects = left, !.levels = [sweep[w].levels EXCEPT ![s] = "good"],
        !.digest = @ \cup entries, !.active = {a \in @ : alert[a].subject # s}, !.pc = Position(left)]]

Existing(w, s) == {a \in sweep[w].active : alert[a].subject = s}
Said(w, s) == sweep[w].levels[s]

NextAlert == {a \in Alerts : alert[a].state = "none" /\ \A b \in 1..(a - 1) : alert[b].state # "none"}

Skip(w, s) ==
  /\ Said(w, s) = "unknown" \/ (Existing(w, s) = {} /\ (Said(w, s) # "bad" \/ NextAlert = {}))
  /\ sweep' = Done(w, s, {})
  /\ UNCHANGED alert

\* A row that is gone by then leaves an update without effect.
Row(a, row) == IF alert[a].state \in {"active", "resolved"} THEN [alert EXCEPT ![a] = row] ELSE alert

Open(w, s) ==
  /\ Existing(w, s) = {} /\ Said(w, s) = "bad" /\ level[s] # "deleted"
  /\ \E a \in NextAlert :
       /\ alert' = [alert EXCEPT ![a] = [NoAlert EXCEPT !.subject = s, !.state = "active", !.notified = ~configured]]
       /\ sweep' = Done(w, s, IF configured THEN {Entry(a, "opened")} ELSE {})

\* announceStillActive
StillActive(w, s) ==
  /\ Said(w, s) \in {"bad", "band"}
  /\ \E a \in Existing(w, s) :
       IF ~alert[a].notified
       THEN /\ alert' = Row(a, [alert[a] EXCEPT !.notified = ~configured])
            /\ sweep' = Done(w, s, IF configured THEN {Entry(a, "opened")} ELSE {})
       ELSE /\ sweep' = Done(w, s, IF alert[a].due THEN {Entry(a, "reminded")} ELSE {})
            /\ UNCHANGED alert

Resolve(w, s) ==
  /\ Said(w, s) = "good"
  /\ \E a \in Existing(w, s) :
       /\ alert' = Row(a, [alert[a] EXCEPT !.state = "resolved", !.told = ~configured])
       /\ sweep' = Done(w, s, IF configured THEN {Entry(a, "resolved")} ELSE {})

\* sweepSubject
SweepSubject(w, s) ==
  /\ At(w, "subjects") /\ s \in sweep[w].subjects
  /\ Skip(w, s) \/ Open(w, s) \/ StillActive(w, s) \/ Resolve(w, s)
  /\ UNCHANGED <<level, configured, sweeping, faults, history>>

End(w) == sweep' = [sweep EXCEPT ![w] = IdleSweep] /\ sweeping' = NoSweep

ReadyToSend(w) == At(w, "rules") /\ sweep[w].rules = {} /\ sweep[w].digest # {} /\ configured

\* deliverDigest: nothing to announce, or nobody to send it
NothingSent(w) ==
  /\ At(w, "rules") /\ sweep[w].rules = {} /\ (sweep[w].digest = {} \/ ~configured)
  /\ End(w)
  /\ UNCHANGED <<level, alert, configured, faults, sent, aged, again>>

\* The Notification goes out, whatever is heard of it.
Announced(w) ==
  /\ sent' = [e \in Entries |->
                IF e \in sweep[w].digest /\ e.phase # "reminded" /\ sent[e] < 2 THEN sent[e] + 1 ELSE sent[e]]
  /\ aged' = aged \ {a \in Alerts : Entry(a, "reminded") \in sweep[w].digest}

ToStamps(w) == sweep' = [sweep EXCEPT ![w].pc = "stamp"] /\ UNCHANGED sweeping

Deliver(w) ==
  /\ ReadyToSend(w)
  /\ Announced(w)
  /\ ToStamps(w)
  /\ UNCHANGED <<level, alert, configured, faults, again>>

\* none is stamped on failure
AfterFailure(w) == End(w)

NotDelivered(w) ==
  /\ ReadyToSend(w)
  /\ AfterFailure(w)
  /\ UNCHANGED <<level, alert, configured, faults, history>>

\* Delivered, but the answer is lost or is an error.
Unanswered(w) ==
  /\ ReadyToSend(w)
  /\ faults < MaxFaults /\ faults' = faults + 1
  /\ Announced(w)
  /\ again' = again \cup {e.alert : e \in sweep[w].digest}
  /\ AfterFailure(w)
  /\ UNCHANGED <<level, alert, configured>>

\* Slip: a Reminder is stamped like an opening
StampOpened(row, phase) ==
  CASE phase \in {"opened", "reminded"} -> [row EXCEPT !.notified = TRUE]
    [] phase = "resolved" -> [row EXCEPT !.told = TRUE]
\* Slip: every phase stamps the opening
StampSame(row, phase) == [row EXCEPT !.notified = TRUE]
\* STAMP_BY_PHASE
Stamped(row, phase) ==
  CASE phase = "opened" -> [row EXCEPT !.notified = TRUE]
    [] phase = "reminded" -> [row EXCEPT !.due = FALSE]
    [] phase = "resolved" -> [row EXCEPT !.told = TRUE]

Stamp(w) ==
  /\ At(w, "stamp")
  /\ \E e \in sweep[w].digest :
       /\ alert' = Row(e.alert, Stamped(alert[e.alert], e.phase))
       /\ IF sweep[w].digest = {e} THEN End(w)
          ELSE sweep' = [sweep EXCEPT ![w].digest = @ \ {e}] /\ UNCHANGED sweeping
  /\ UNCHANGED <<level, configured, faults, history>>

\* A row that cannot be written throws, and the digest is not sent, or not stamped.
SweepThrows(w) ==
  /\ ~At(w, "idle")
  /\ faults < MaxFaults /\ faults' = faults + 1
  /\ again' = IF At(w, "stamp") THEN again \cup {e.alert : e \in sweep[w].digest} ELSE again
  /\ End(w)
  /\ UNCHANGED <<level, alert, configured, sent, aged>>

\* So does opening an Alert for a subject deleted since it was read.
SubjectGone(w, s) ==
  /\ At(w, "subjects") /\ s \in sweep[w].subjects
  /\ Existing(w, s) = {} /\ Said(w, s) = "bad" /\ level[s] = "deleted"
  /\ End(w)
  /\ UNCHANGED <<level, alert, configured, faults, history>>

SweepStep(w) ==
  \/ CollectPending(w) \/ NothingSent(w) \/ Deliver(w) \/ NotDelivered(w) \/ Stamp(w)
  \/ \E r \in Rules : BeginRule(w, r)
  \/ \E s \in Subjects : SweepSubject(w, s) \/ SubjectGone(w, s)

-----------------------------------------------------------------------------
(* Around the sweeps.                                                      *)

\* low-battery, offline and fetch-failing: past the threshold, back past the
\* point it resolves at, in between, or nothing to say (asleep, never heard of).
Observe(s, l) ==
  /\ level[s] # "deleted" /\ level[s] # l
  /\ level' = [level EXCEPT ![s] = l]
  /\ UNCHANGED <<alert, configured, sweeping, sweep, faults, history>>

\* A subject's Alerts are deleted with it.
DeleteSubject(s) ==
  /\ level[s] # "deleted"
  /\ level' = [level EXCEPT ![s] = "deleted"]
  /\ alert' = [a \in Alerts |-> IF alert[a].subject = s THEN [alert[a] EXCEPT !.state = "gone"] ELSE alert[a]]
  /\ UNCHANGED <<configured, sweeping, sweep, faults, history>>

\* RetentionService.pruneTable: a resolved Alert, announced or not
Prune(a) ==
  /\ alert[a].state = "resolved"
  /\ alert' = [alert EXCEPT ![a] = [NoAlert EXCEPT !.subject = alert[a].subject, !.state = "gone"]]
  /\ UNCHANGED <<level, configured, sweeping, sweep, faults, history>>

ReminderIntervalPasses(a) ==
  /\ RemindersOn
  /\ Active(a) /\ alert[a].notified /\ ~alert[a].due
  /\ alert' = [alert EXCEPT ![a].due = TRUE]
  /\ aged' = aged \cup {a}
  /\ UNCHANGED <<level, configured, sweeping, sweep, faults, sent, again>>

\* A restart, with or without an Apprise URL; the first sweep is at boot.
Restart ==
  /\ faults < MaxFaults /\ faults' = faults + 1
  /\ configured' \in BOOLEAN
  /\ sweeping' = NoSweep
  /\ sweep' = [w \in Sweeps |-> IdleSweep]
  /\ again' = again \cup UNION {{e.alert : e \in sweep[w].digest} : w \in {x \in Sweeps : At(x, "stamp")}}
  /\ UNCHANGED <<level, alert, sent, aged>>

Next ==
  \/ \E w \in Sweeps : Start(w) \/ SweepStep(w) \/ Unanswered(w) \/ SweepThrows(w)
  \/ \E s \in Subjects : DeleteSubject(s) \/ \E l \in Levels : Observe(s, l)
  \/ \E a \in Alerts : Prune(a) \/ ReminderIntervalPasses(a)
  \/ Restart

Spec == Init /\ [][Next]_vars

\* The cron job goes on, queries settle and a send times out; a sender that is
\* asked again and again delivers in the end.
Fairness ==
  /\ WF_vars(\E w \in Sweeps : Start(w))
  /\ \A w \in Sweeps : WF_vars(SweepStep(w))
  /\ SF_vars(\E w \in Sweeps : Deliver(w))

FairSpec == Spec /\ Fairness

-----------------------------------------------------------------------------
(* What the code is to guarantee.                                          *)

AlertRows ==
  [subject: Subjects \cup {NoSweep}, state: {"none", "active", "resolved", "gone"},
   notified: BOOLEAN, due: BOOLEAN, told: BOOLEAN]
SweepRecords ==
  [pc: {"idle", "pending", "rules", "subjects", "stamp"}, levels: [Subjects -> Levels \cup {"good", "deleted"}],
   rules: SUBSET Rules, subjects: SUBSET Subjects, active: SUBSET Alerts, digest: SUBSET Entries]

\* The shape of the rows and of the sweep under way, of which there is one.
TypeOK ==
  /\ level \in [Subjects -> Levels \cup {"good", "deleted"}]
  /\ alert \in [Alerts -> AlertRows]
  /\ configured \in BOOLEAN /\ sweeping \in Sweeps \cup {NoSweep}
  /\ sweep \in [Sweeps -> SweepRecords]
  /\ \A w \in Sweeps : IF sweeping = w THEN ~At(w, "idle") ELSE sweep[w] = IdleSweep
  /\ faults \in 0..MaxFaults
  /\ sent \in [Entries -> 0..2]
  /\ aged \subseteq Alerts /\ again \subseteq Alerts

\* "at most one active Alert per Rule per subject", also when sweeps throw
\* half-way, are killed, or are asked for while one is under way.
OneActivePerSubject ==
  \A a, b \in Alerts : Active(a) /\ Active(b) /\ alert[a].subject = alert[b].subject => a = b

\* An Alert is announced once as opened and once as resolved, unless the stamp
\* that says so could not be written.
AnnouncedOnce == \A e \in Entries : e.alert \notin again => sent[e] <= 1

\* A Reminder is sent only when the Reminder Interval has passed since the Alert
\* was announced or last reminded of.
RemindersKeepTheInterval ==
  [][\A w \in Sweeps, a \in Alerts \ again :
       (Deliver(w) \/ Unanswered(w)) /\ Entry(a, "reminded") \in sweep[w].digest => a \in aged]_vars

\* A resolution is announced in the end, however often its delivery fails, its
\* sweep throws or the server is killed; retention may forget it before.
ResolutionIsAnnounced ==
  \A a \in Alerts : (a \in Pending) ~> (alert[a].told \/ alert[a].state = "gone" \/ ~configured)
=============================================================================
