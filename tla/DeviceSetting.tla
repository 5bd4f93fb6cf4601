------------------------------ MODULE DeviceSetting ------------------------------
(***************************************************************************)
(* One setting of a Device on its page (useDeviceSetting.ts over           *)
(* useSaveAsChanged.ts and useLoad.ts): what the control holds, the saves  *)
(* it sends as it changes, and the reads of the Device, one after each     *)
(* save and one every 30 seconds, that answer in any order or not at all.  *)
(***************************************************************************)
EXTENDS Naturals

CONSTANTS
  Values,      \* what the setting may be
  None,
  MaxSaves,    \* bound: saves
  MaxLoads,    \* bound: reads of the Device
  MaxLosses    \* bound: requests refused or lost

\* What a module that instantiates this one is to give it
DeviceSettingAssumptions == None \notin Values /\ {MaxSaves, MaxLoads, MaxLosses} \subseteq Nat

VARIABLES
  row,         \* what the server has
  data,        \* what the page has read last
  entered,     \* what the control holds
  typing,      \* whether the focus is in it
  status, attempts,
  input,       \* what the last commit sent
  save,        \* the saves: by attempt, what was sent and how far it has come
  load,        \* the reads: by request, whether it came quietly and what it answers
  latestRequest, asking,
  heldBack,    \* an answer that waits for the focus to leave
  losses,
  sent,        \* history: the last thing the admin did was sent
  behind       \* history: the last read that was to be shown has failed

saving == <<status, attempts, input, save>>
reading == <<data, load, latestRequest, asking, heldBack, behind>>
vars == <<row, entered, typing, losses, sent, saving, reading>>

-----------------------------------------------------------------------------
Init ==
  /\ row \in Values /\ data = row /\ entered = row /\ typing = FALSE
  /\ status = "idle" /\ attempts = 0 /\ input = None
  /\ save = <<>> /\ load = <<>>
  /\ latestRequest = 0 /\ asking = FALSE /\ heldBack = None
  /\ losses = 0 /\ sent = TRUE /\ behind = FALSE

With(f, x, value) == [y \in DOMAIN f \cup {x} |-> IF y = x THEN value ELSE f[y]]
Without(f, x) == [y \in DOMAIN f \ {x} |-> f[y]]
unsettled == status \in {"saving", "failed"}

\* useSaveAsChanged's run
Run(value) ==
  /\ attempts < MaxSaves /\ attempts' = attempts + 1
  /\ save' = With(save, attempts', [sent |-> value, pc |-> "sent", request |-> 0])
  /\ status' = "saving" /\ input' = value

\* commit: what is not a change is not sent, and a failed save of it forgotten.
Commit(value) ==
  IF value # data
  THEN Run(value) /\ sent' = TRUE
  ELSE /\ sent' = FALSE
       /\ IF status = "failed" THEN status' = "idle" /\ attempts' = attempts + 1 /\ UNCHANGED <<input, save>>
                               ELSE UNCHANGED saving

\* showAnswer, and the watch that has the control follow it
Show(answer) ==
  /\ data' = answer /\ heldBack' = None
  /\ entered' = IF answer # data /\ ~unsettled THEN answer ELSE entered

-----------------------------------------------------------------------------
(* The admin                                                               *)

\* choose: a select or a switch
Choose(value) ==
  /\ ~typing /\ value # entered
  /\ entered' = value
  /\ Commit(value)
  /\ UNCHANGED <<row, typing, losses, reading>>

Type(value) ==
  /\ value # entered
  /\ entered' = value /\ typing' = TRUE
  /\ sent' = FALSE
  /\ UNCHANGED <<row, losses, saving, reading>>

\* The change is committed, and then what was held back is shown.
Leave ==
  /\ typing /\ typing' = FALSE
  /\ Commit(entered)
  /\ IF heldBack = None THEN UNCHANGED <<entered, data, heldBack>>
     ELSE /\ data' = heldBack /\ heldBack' = None
          /\ entered' = IF heldBack # data /\ status' \notin {"saving", "failed"} THEN heldBack ELSE entered
  /\ UNCHANGED <<row, losses, load, latestRequest, asking, behind>>

\* "Try again"
Retry ==
  /\ status = "failed"
  /\ Run(input)
  /\ sent' = (input = entered)
  /\ UNCHANGED <<row, entered, typing, losses, reading>>

-----------------------------------------------------------------------------
(* Saves.  The server takes them in the order they were sent.              *)

Save(a, pc) == a \in DOMAIN save /\ save[a].pc = pc

TakeSave(a) ==
  /\ Save(a, "sent") /\ \A b \in DOMAIN save : save[b].pc = "sent" => b >= a
  /\ row' = save[a].sent
  /\ save' = [save EXCEPT ![a].pc = "taken"]
  /\ UNCHANGED <<entered, typing, losses, sent, status, attempts, input, reading>>

isNewest(a) == a = attempts

Ended(a, as) == /\ save' = Without(save, a)
                /\ status' = IF isNewest(a) THEN as ELSE status
                /\ UNCHANGED <<attempts, input>>

\* Refused before it is taken, or the answer is lost after
LoseSave(a) ==
  /\ Save(a, "sent") \/ Save(a, "taken")
  /\ losses < MaxLosses /\ losses' = losses + 1
  /\ Ended(a, "failed")
  /\ UNCHANGED <<row, entered, typing, sent, reading>>

\* ask
Ask(quietly) ==
  /\ latestRequest < MaxLoads /\ latestRequest' = latestRequest + 1
  /\ load' = With(load, latestRequest', [quietly |-> quietly, answer |-> None])
  /\ asking' = TRUE
  /\ UNCHANGED <<data, heldBack, behind>>

SaveAnswered(a) ==
  /\ Save(a, "taken")
  /\ Ask(FALSE)
  /\ save' = [save EXCEPT ![a] = [@ EXCEPT !.pc = "reading", !.request = latestRequest']]
  /\ UNCHANGED <<row, entered, typing, losses, sent, status, attempts, input>>

-----------------------------------------------------------------------------
(* Reads                                                                   *)

\* "Fresh data"
Refresh ==
  /\ ~asking
  /\ Ask(TRUE)
  /\ UNCHANGED <<row, entered, typing, losses, sent, saving>>

ReadRow(n) ==
  /\ n \in DOMAIN load /\ load[n].answer = None
  /\ load' = [load EXCEPT ![n].answer = row]
  /\ UNCHANGED <<row, entered, typing, losses, sent, saving, data, latestRequest, asking, heldBack, behind>>

\* The save that read the Device again is over once its read is.
SavesEnd(n) ==
  IF \E a \in DOMAIN save : save[a].request = n
  THEN \E a \in DOMAIN save : save[a].request = n /\ Ended(a, "saved")
  ELSE UNCHANGED saving

\* Slip: an answer is shown though a later one was asked for
EveryRequest(n) == TRUE
isLatest(n) == n = latestRequest

LoadArrives(n) ==
  /\ n \in DOMAIN load /\ load[n].answer # None
  /\ load' = Without(load, n)
  /\ IF ~isLatest(n) THEN UNCHANGED <<entered, data, asking, heldBack, behind>>
     ELSE /\ asking' = FALSE /\ behind' = FALSE
          /\ IF load[n].quietly /\ typing THEN heldBack' = load[n].answer /\ UNCHANGED <<entered, data>>
             ELSE Show(load[n].answer)
  /\ SavesEnd(n)
  /\ UNCHANGED <<row, typing, losses, sent, latestRequest>>

LoseLoad(n) ==
  /\ n \in DOMAIN load
  /\ losses < MaxLosses /\ losses' = losses + 1
  /\ load' = Without(load, n)
  /\ IF isLatest(n) THEN asking' = FALSE /\ heldBack' = None /\ behind' = TRUE ELSE UNCHANGED <<asking, heldBack, behind>>
  /\ SavesEnd(n)
  /\ UNCHANGED <<row, entered, typing, sent, data, latestRequest>>

Next ==
  \/ \E v \in Values : Choose(v) \/ Type(v)
  \/ Leave \/ Retry \/ Refresh
  \/ \E a \in 1..MaxSaves : TakeSave(a) \/ LoseSave(a) \/ SaveAnswered(a)
  \/ \E n \in 1..MaxLoads : ReadRow(n) \/ LoadArrives(n) \/ LoseLoad(n)

Spec == Init /\ [][Next]_vars

-----------------------------------------------------------------------------
(* What the code is to guarantee.                                          *)

AtRest == DOMAIN save = {} /\ DOMAIN load = {} /\ ~typing

\* When every answer is in, none was lost on the way to the page and the admin's last
\* change was sent, the control shows what the Device has, in whatever order they came.
SentIsShown == AtRest /\ sent /\ ~behind /\ status # "failed" => entered = data /\ data = row

\* "entered follows saved, the value on the Device, except while a save of it is under
\* way or has failed".
EnteredFollowsSaved == AtRest /\ status # "failed" => entered = data
=============================================================================
