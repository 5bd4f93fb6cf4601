---------------------------- MODULE WebhookIngest ----------------------------
(***************************************************************************)
(* The POSTs to the Webhook of one Plugin (webhook-ingest.service.ts):     *)
(* each merges its body onto the stored Webhook Payload, stores it and     *)
(* draws the Plugin for all of its Screens, one POST at a time.  Beside    *)
(* them, and not in their line: clearing the payload and saving the Plugin *)
(* (plugins.service.ts), each of which draws too, the drawing a poll of a  *)
(* Device makes of what is not cached, deleting the Plugin, and a crash.   *)
(***************************************************************************)
EXTENDS Integers, Sequences, FiniteSets

CONSTANTS
  Posts,
  Arrays,        \* the POSTs whose body is an array or null, not an object
  StreamLimit,
  None,
  Screens,       \* the Screens the Plugin is assigned to
  Others,        \* clears, saves and polls that may be under way at the same time
  ClearBetween,  \* whether a clear may come between what a POST reads and its update
  MaxSaves       \* bound: how often the Plugin is saved

\* What a module that instantiates this one is to give it
WebhookIngestAssumptions ==
  /\ Arrays \subseteq Posts /\ StreamLimit \in Nat \ {0} /\ MaxSaves \in Nat
  /\ Posts \cap Others = {} /\ None \notin Posts /\ ClearBetween \in BOOLEAN

Plugin == "plugin"

VARIABLES
  row,         \* the Plugin's row: strategy and limit, payload and its time, version of the rest
  exists,      \* whether the Plugin has a row
  drawn,       \* each Screen's cachedPluginOutput: what it was drawn from, or None
  task,        \* each POST, clear, save and poll: where it stands, what it works on
  line,        \* the line of POSTs (OneAtATime)
  working,     \* the POST whose turn it is
  accepted,    \* history: the POSTs whose payload was stored
  disturbed    \* history: the drawing of what is stored was cut short, or met an older one

queue == <<line, working>>
history == <<accepted, disturbed>>
vars == <<row, exists, drawn, task, line, working, accepted, disturbed>>

Line == INSTANCE FifoLock WITH Runs <- Posts, Keys <- {Plugin}
Payload == INSTANCE WebhookPayload WITH strategy <- row.strategy, data <- row.payload.data

-----------------------------------------------------------------------------
Empty == [data |-> <<>>, at |-> None]
Idle == [pc |-> "idle", version |-> 0, payload |-> Empty, todo |-> {}]

Init ==
  /\ \E strategy \in {"standard", "deep_merge", "stream"}, limit \in {0, StreamLimit} :
       /\ limit > 0 => strategy = "stream"
       /\ row = [strategy |-> strategy, limit |-> limit, version |-> 0, payload |-> Empty]
  /\ exists = TRUE
  /\ drawn = [s \in Screens |-> None]
  /\ task = [t \in Posts \cup Others |-> Idle]
  /\ Line!Init
  /\ accepted = {} /\ disturbed = FALSE

At(t, pc) == task[t].pc = pc
Goto(t, pc) == task' = [task EXCEPT ![t].pc = pc]
\* The Plugin as loaded: by who goes by all but its payload, and by who draws it
Loaded(pc) == [Idle EXCEPT !.pc = pc, !.version = row.version]
ToDraw(pc, screens) == [pc |-> pc, version |-> row.version, payload |-> row.payload, todo |-> screens]

Busy(t) == task[t].pc \notin {"idle", "answered"}
Become(t, pc) == task' = [task EXCEPT ![t] = [Idle EXCEPT !.pc = pc]]

\* Whether one of ts is drawing what it loaded or stored
Drawing(ts) == \E t \in ts : task[t].pc \in {"draw", "poll"}

-----------------------------------------------------------------------------
(* A POST.                                                                 *)

\* WebhookPluginGuard loads the Plugin the token names; the POST is drawn with
\* all it says but the payload.
Guard(p) ==
  /\ At(p, "idle")
  /\ IF exists THEN task' = [task EXCEPT ![p] = Loaded("guarded")] ELSE Become(p, "answered")
  /\ UNCHANGED <<row, exists, drawn, queue, history>>

\* ingest: no full Template, or a body that is no payload
Refuse(p) ==
  /\ At(p, "guarded")
  /\ Become(p, "answered")
  /\ UNCHANGED <<row, exists, drawn, queue, history>>

Enqueue(p) ==
  /\ At(p, "guarded")
  /\ Line!Join(p, Plugin)
  /\ Goto(p, "waiting")
  /\ UNCHANGED <<row, exists, drawn, history>>

\* merge, onto what is read when the POST's turn has come
MergedOntoStored(p) == Payload!Merged(row.strategy, row.payload.data, p)

\* An import's Plugin may have a stream Merge Strategy without a Stream Limit.
Limitless == row.strategy = "stream" /\ row.limit = 0

Merge(p) ==
  /\ At(p, "waiting")
  /\ Line!Begin(p, Plugin)
  /\ task' = IF exists /\ ~Limitless
             THEN [task EXCEPT ![p] = [@ EXCEPT !.pc = "store", !.payload = [data |-> MergedOntoStored(p), at |-> p]]]
             ELSE [task EXCEPT ![p] = [Idle EXCEPT !.pc = "leave"]]
  /\ UNCHANGED <<row, exists, drawn, history>>

\* An update of a row that is gone changes nothing.
InRow(value, column) == IF exists THEN value ELSE column

Store(p) ==
  /\ At(p, "store")
  /\ row' = InRow([row EXCEPT !.payload = task[p].payload], row)
  /\ accepted' = InRow(accepted \cup {p}, accepted)
  /\ disturbed' = (task[p].version # row.version \/ Drawing(Others))
  /\ task' = [task EXCEPT ![p] = [@ EXCEPT !.pc = "draw", !.todo = Screens]]
  /\ UNCHANGED <<exists, drawn, queue>>

\* Slip: only the merge is done in turn
TurnEndsMerged(p) == At(p, "store") \/ At(p, "leave")
\* Slip: the turn ends when the payload is stored
TurnEndsStored(p) == At(p, "draw") \/ At(p, "leave")
TurnEnds(p) == At(p, "leave")

Leave(p) ==
  /\ TurnEnds(p)
  /\ Line!Finish(p, Plugin)
  /\ IF At(p, "leave") THEN Become(p, "answered") ELSE UNCHANGED task
  /\ UNCHANGED <<row, exists, drawn, history>>

PostFails(p) ==
  /\ task[p].pc \in {"store", "draw"}
  /\ Become(p, "leave")
  /\ disturbed' = (disturbed \/ At(p, "draw"))
  /\ UNCHANGED <<row, exists, drawn, queue, accepted>>

-----------------------------------------------------------------------------
(* A clear, a save, a poll.                                                *)

\* clearWebhookPayload loads the Plugin...
BeginClear(o) ==
  /\ At(o, "idle") /\ exists
  /\ task' = [task EXCEPT ![o] = Loaded("clear")]
  /\ UNCHANGED <<row, exists, drawn, queue, history>>

\* ... empties the payload, and draws without it
Clear(o) ==
  /\ At(o, "clear")
  /\ ClearBetween \/ \A p \in Posts : ~At(p, "store")
  /\ row' = InRow([row EXCEPT !.payload = Empty], row)
  /\ disturbed' = (task[o].version # row.version \/ Drawing((Posts \cup Others) \ {o}))
  /\ task' = [task EXCEPT ![o] = [@ EXCEPT !.pc = "draw", !.payload = Empty, !.todo = Screens]]
  /\ UNCHANGED <<exists, drawn, queue, accepted>>

\* PluginsService.update's transaction, which leaves the payload alone
Save(o) ==
  /\ At(o, "idle") /\ exists
  /\ row.version < MaxSaves
  /\ row' = [row EXCEPT !.version = @ + 1]
  /\ disturbed' = Drawing(Posts \cup Others)
  /\ Goto(o, "invalidate")
  /\ UNCHANGED <<exists, drawn, queue, accepted>>

\* refreshRendersAfterSave
Invalidate(o) ==
  /\ At(o, "invalidate")
  /\ drawn' = [s \in Screens |-> None]
  /\ Goto(o, "reload")
  /\ UNCHANGED <<row, exists, queue, history>>

Reload(o) ==
  /\ At(o, "reload")
  /\ task' = [task EXCEPT ![o] = IF exists THEN ToDraw("draw", Screens) ELSE Idle]
  /\ UNCHANGED <<row, exists, drawn, queue, history>>

\* A /display poll loads the Plugin of a Screen with nothing cached.
Poll(o, s) ==
  /\ At(o, "idle") /\ exists
  /\ drawn[s] = None
  /\ task' = [task EXCEPT ![o] = ToDraw("poll", {s})]
  /\ UNCHANGED <<row, exists, drawn, queue, history>>

OtherFails(o) ==
  /\ Busy(o)
  /\ task' = [task EXCEPT ![o] = Idle]
  /\ disturbed' = (disturbed \/ task[o].pc \in {"invalidate", "reload", "draw"})
  /\ UNCHANGED <<row, exists, drawn, queue, accepted>>

-----------------------------------------------------------------------------
(* Drawing: renderAndCache renders for every Screen, then writes each.     *)

Draws(t) == [version |-> task[t].version, payload |-> task[t].payload]

WriteOutput(t, s) ==
  /\ At(t, "draw") \/ At(t, "poll")
  /\ s \in task[t].todo
  /\ drawn' = InRow([drawn EXCEPT ![s] = Draws(t)], drawn)
  /\ LET left == task[t].todo \ {s}
     IN task' = [task EXCEPT ![t] = IF left # {} THEN [@ EXCEPT !.todo = left]
                                    ELSE IF t \in Posts THEN [Idle EXCEPT !.pc = "leave"]
                                    ELSE Idle]
  /\ UNCHANGED <<row, exists, queue, history>>

DeletePlugin ==
  /\ exists
  /\ exists' = FALSE
  /\ drawn' = [s \in Screens |-> None]
  /\ UNCHANGED <<row, task, queue, history>>

\* Only the rows survive.
Crash ==
  /\ \E t \in Posts \cup Others : Busy(t)
  /\ task' = [t \in Posts \cup Others |->
                IF ~Busy(t) THEN task[t] ELSE IF t \in Posts THEN [Idle EXCEPT !.pc = "answered"] ELSE Idle]
  /\ line' = [k \in {Plugin} |-> <<>>] /\ working' = {}
  /\ disturbed' = (disturbed \/ \E t \in Posts \cup Others : task[t].pc \in {"draw", "invalidate", "reload"})
  /\ UNCHANGED <<row, exists, drawn, accepted>>

PostStep(p) == Enqueue(p) \/ Merge(p) \/ Store(p) \/ Leave(p) \/ PostFails(p) \/ \E s \in Screens : WriteOutput(p, s)

Next ==
  \/ \E p \in Posts : Guard(p) \/ Refuse(p) \/ PostStep(p)
  \/ \E o \in Others :
       \/ BeginClear(o) \/ Clear(o) \/ Save(o) \/ Invalidate(o) \/ Reload(o) \/ OtherFails(o)
       \/ \E s \in Screens : Poll(o, s) \/ WriteOutput(o, s)
  \/ DeletePlugin
  \/ Crash

Spec == Init /\ [][Next]_vars

-----------------------------------------------------------------------------
(* What the code is to guarantee.                                          *)

\* "keeps what every POST sent": however POSTs overlap, are refused, fail or
\* crash, each takes effect at once on all that was stored before it, and once.
PayloadSpec == Payload!Spec

\* "the render runs inside too, so the last one drawn is of the last payload
\* stored": once nothing is under way every Screen shows the stored payload with
\* its time and the saved Plugin, unless the drawing of it was cut short, or
\* what does not queue with the POSTs was still being drawn, or was saved since
\* the POST's guard, when it was stored.  What overlapped before that store, and
\* however, leaves nothing behind.
DrawnIsStored ==
  (\A t \in Posts \cup Others : ~Busy(t)) /\ exists /\ ~disturbed =>
    \A s \in Screens : drawn[s] \in {None, [version |-> row.version, payload |-> row.payload]}

===============================================================================
