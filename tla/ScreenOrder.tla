----------------------------- MODULE ScreenOrder ----------------------------
(***************************************************************************)
(* The Order of one Device's Screens in the database (screen-order.ts and  *)
(* its callers), under overlapping transactions.  PostgreSQL runs them READ *)
(* COMMITTED: a statement sees the committed rows and its own transaction's *)
(* writes, a row a transaction has written stays locked until its end, and *)
(* UNIQUE ("deviceId", "order") DEFERRABLE INITIALLY DEFERRED is checked   *)
(* when a transaction commits.                                             *)
(***************************************************************************)
EXTENDS Integers, FiniteSets, Functions

CONSTANTS
  Screens,     \* every Screen the Device may ever have
  Ops,         \* requests that may be served at the same time
  Kinds,       \* what they do: a subset of AllKinds
  Overlaps,    \* the pairs of kinds served at the same time
  NoOp         \* nobody holds the lock on the Device's row

AllKinds == {"add", "assign", "delete", "reorder"}

\* What a module that instantiates this one is to give it
ScreenOrderAssumptions ==
  /\ IsFiniteSet(Screens) /\ Kinds \subseteq AllKinds /\ NoOp \notin Ops
  /\ \A pair \in Overlaps : pair \subseteq Kinds

VARIABLES
  order,    \* the committed Order number of each Screen, 0 for one without a row
  gone,     \* the Screens that were deleted
  op,       \* each request: where its transaction stands, and what it has written
  locked,   \* the transaction that has the Device's row FOR UPDATE
  sharing   \* those that have it FOR KEY SHARE, through a foreign key to it

vars == <<order, gone, op, locked, sharing>>

-----------------------------------------------------------------------------
Untouched == -1
Nothing == [s \in Screens |-> Untouched]

\* `wrote` holds the Order numbers the transaction has written and not
\* committed, 0 for a deleted row; `todo` the updates it has still to make, those
\* of lower numbers first.
Idle == [pc |-> "idle", kind |-> "add", screen |-> CHOOSE s \in Screens : TRUE,
         wrote |-> Nothing, todo |-> {}]

Rows(o) == [s \in Screens |-> IF op[o].wrote[s] = Untouched THEN order[s] ELSE op[o].wrote[s]]
Numbered(ord) == {s \in Screens : ord[s] > 0}
Places(ord) == 1..Cardinality(Numbered(ord))

\* ORDER BY "order": any of the sequences that do not descend
InOrder(ord) ==
  {list \in Bijection(Places(ord), Numbered(ord)) : \A i, j \in Places(ord) : i < j => ord[list[i]] <= ord[list[j]]}

\* writeOrder: the updates that number `list` 1..N, of the Screens that moved
\* as far as the rows `ord` tell
Moves(list, ord) ==
  {[screen |-> list[i], order |-> i] : i \in {j \in DOMAIN list : ord[list[j]] # j}}
FirstMoves(o) == {move \in op[o].todo : \A other \in op[o].todo : move.order <= other.order}

\* The transactions of others that have written the row of s
RowHolders(o, s) == {q \in Ops \ {o} : op[q].wrote[s] # Untouched}

Init ==
  /\ order \in {ord \in [Screens -> 0..Cardinality(Screens)] :
                  {ord[s] : s \in Numbered(ord)} = Places(ord)}
  /\ gone = {}
  /\ op = [o \in Ops |-> Idle]
  /\ locked = NoOp /\ sharing = {}

Begin(o, kind) ==
  /\ kind \in Kinds
  /\ op[o].pc = "idle"
  /\ \A q \in Ops : op[q].pc # "idle" => {kind, op[q].kind} \in Overlaps

Fresh(s) ==
  order[s] = 0 /\ s \notin gone /\ \A q \in Ops : op[q].pc # "idle" /\ op[q].kind # "reorder" => op[q].screen # s

Become(o, state) == op' = [op EXCEPT ![o] = state]
\* What the transaction has written, with one more row
Writes(o, s, value) == [op[o].wrote EXCEPT ![s] = value]

-----------------------------------------------------------------------------
(* A Screen joins the end of the Order (joinEndOfOrder).                   *)

\* ScreensService.create and MashupService.create
BeginAdd(o, s) ==
  /\ Begin(o, "add")
  /\ Fresh(s)
  /\ Become(o, [Idle EXCEPT !.pc = "lock", !.kind = "add", !.screen = s])
  /\ UNCHANGED <<order, gone, locked, sharing>>

\* PluginAssignmentsService.assign saves the assignment first; its foreign key
\* locks the Device's row FOR KEY SHARE.
BeginAssign(o, s) ==
  /\ Begin(o, "assign")
  /\ Fresh(s)
  /\ locked = NoOp
  /\ sharing' = sharing \cup {o}
  /\ Become(o, [Idle EXCEPT !.pc = "lock", !.kind = "assign", !.screen = s])
  /\ UNCHANGED <<order, gone, locked>>

\* SELECT ... FOR UPDATE waits for every other lock on the row.
LockDevice(o) ==
  /\ op[o].pc = "lock"
  /\ locked = NoOp /\ sharing \subseteq {o}
  /\ locked' = o
  /\ Become(o, [op[o] EXCEPT !.pc = "insert"])
  /\ UNCHANGED <<order, gone, sharing>>

InsertLast(o) ==
  /\ op[o].pc = "insert"
  /\ \E last \in {0} \cup {Rows(o)[s] : s \in Screens} :
       /\ \A s \in Screens : Rows(o)[s] <= last
       /\ Become(o, [op[o] EXCEPT !.pc = "write", !.wrote = Writes(o, op[o].screen, last + 1)])
  /\ UNCHANGED <<order, gone, locked, sharing>>

-----------------------------------------------------------------------------
(* ScreensService.delete; unassigning or deleting a Plugin likewise.       *)

BeginDelete(o, s) ==
  /\ Begin(o, "delete")
  /\ s \in Numbered(order)
  /\ Become(o, [Idle EXCEPT !.pc = "delete", !.kind = "delete", !.screen = s])
  /\ UNCHANGED <<order, gone, locked, sharing>>

\* Nothing to delete any more when another request deleted the row first
DeleteRow(o) ==
  LET s == op[o].screen
  IN  /\ op[o].pc = "delete"
      /\ RowHolders(o, s) = {}
      /\ Become(o, [op[o] EXCEPT !.pc = "list", !.wrote = IF order[s] > 0 THEN Writes(o, s, 0) ELSE op[o].wrote])
      /\ UNCHANGED <<order, gone, locked, sharing>>

\* Slip: no gap is closed
ListNothing(o) ==
  /\ op[o].pc = "list"
  /\ Become(o, [op[o] EXCEPT !.pc = "write"])
  /\ UNCHANGED <<order, gone, locked, sharing>>

\* Slip: the Screens are not listed by their Order
ListAsTheyCome(o) ==
  /\ op[o].pc = "list"
  /\ \E list \in Bijection(Places(Rows(o)), Numbered(Rows(o))) :
       Become(o, [op[o] EXCEPT !.pc = "write", !.todo = Moves(list, Rows(o))])
  /\ UNCHANGED <<order, gone, locked, sharing>>

\* closeGapInOrder
ListScreens(o) ==
  /\ op[o].pc = "list"
  /\ \E list \in InOrder(Rows(o)) :
       Become(o, [op[o] EXCEPT !.pc = "write", !.todo = Moves(list, Rows(o))])
  /\ UNCHANGED <<order, gone, locked, sharing>>

-----------------------------------------------------------------------------
(* ScreensService.reorder: the Order asked for is checked against the rows *)
(* as they are before the transaction begins.                              *)

BeginReorder(o) ==
  /\ Begin(o, "reorder")
  /\ \E wish \in Bijection(Places(order), Numbered(order)) :
       Become(o, [Idle EXCEPT !.pc = "write", !.kind = "reorder", !.todo = Moves(wish, order)])
  /\ UNCHANGED <<order, gone, locked, sharing>>

-----------------------------------------------------------------------------
(* What every transaction ends with.                                       *)

\* An UPDATE by id waits for the row, and finds nothing when it is gone
WriteNext(o) ==
  /\ op[o].pc = "write"
  /\ \E move \in FirstMoves(o) :
       /\ RowHolders(o, move.screen) = {}
       /\ Become(o, [op[o] EXCEPT !.todo = op[o].todo \ {move},
                                  !.wrote = IF Rows(o)[move.screen] > 0 THEN Writes(o, move.screen, move.order)
                                            ELSE op[o].wrote])
  /\ UNCHANGED <<order, gone, locked, sharing>>

End(o) ==
  /\ Become(o, Idle)
  /\ locked' = IF locked = o THEN NoOp ELSE locked
  /\ sharing' = sharing \ {o}

RollBack(o) == End(o) /\ UNCHANGED <<order, gone>>

\* UQ_screen_device_order
Clash(ord) == \E s, t \in Numbered(ord) : s # t /\ ord[s] = ord[t]

Done(o) == op[o].pc = "write" /\ op[o].todo = {}

Commit(o) ==
  /\ Done(o)
  /\ ~Clash(Rows(o))
  /\ order' = Rows(o)
  /\ gone' = gone \cup {s \in Screens : op[o].wrote[s] = 0}
  /\ End(o)

CommitRefused(o) ==
  /\ Done(o)
  /\ Clash(Rows(o))
  /\ RollBack(o)

\* Whom the statement a transaction is at has to wait for
WaitsFor(o) ==
  CASE op[o].pc = "lock" -> (sharing \cup {locked}) \ {o, NoOp}
    [] op[o].pc = "delete" -> RowHolders(o, op[o].screen)
    [] op[o].pc = "write" -> UNION {RowHolders(o, move.screen) : move \in FirstMoves(o)}
    [] OTHER -> {}

\* PostgreSQL breaks a circle of waiting transactions by failing one of them.
Deadlocked(o) ==
  /\ \E circle \in SUBSET Ops :
       o \in circle /\ \A q \in circle : WaitsFor(q) \cap circle # {}
  /\ RollBack(o)

\* Any other error, or a crash of the server
Fail(o) ==
  /\ op[o].pc # "idle"
  /\ RollBack(o)

Step(o) ==
  \/ \E s \in Screens : BeginAdd(o, s) \/ BeginAssign(o, s) \/ BeginDelete(o, s)
  \/ BeginReorder(o) \/ LockDevice(o) \/ InsertLast(o) \/ DeleteRow(o) \/ ListScreens(o)
  \/ WriteNext(o) \/ Commit(o) \/ CommitRefused(o) \/ Deadlocked(o) \/ Fail(o)

Next == \E o \in Ops : Step(o)

Spec == Init /\ [][Next]_vars

-----------------------------------------------------------------------------
(* What the code is to guarantee.                                          *)

\* "1..N, sequential, no gaps": after every commit of writeOrder's and
\* joinEndOfOrder's numbers.
Sequential == {order[s] : s \in Numbered(order)} = Places(order)

\* Every commit does to the list of Screens what its request promises, and
\* nothing else does anything to it: closing a gap moves no Screen past
\* another, adding puts a Screen last.
Listed == [i \in Places(order) |-> CHOOSE s \in Screens : order[s] = i]
List == INSTANCE ScreenList WITH list <- Listed
ListSpec == List!Spec
=============================================================================
