------------------------------ MODULE RecipeUpdate ------------------------------
(***************************************************************************)
(* The Recipe Update Check and its apply (recipe-update.service.ts,        *)
(* recipe-update-diff.ts): an imported Plugin is compared with its Recipe  *)
(* and the Recipe Snapshot, and what the admin has chosen is written item  *)
(* by item.  Meanwhile the Recipe may move and the admin may edit the      *)
(* Plugin, and a write may fail, or the server die, between two items.     *)
(***************************************************************************)
EXTENDS Naturals, FiniteSets

CONSTANTS
  Keys,        \* what Update Items are keyed by
  Scalars,     \* those that are columns of the Plugin; the others are rows of their own
  Contents,    \* what a key may hold
  None,        \* no such item, no snapshot
  MaxChanges,  \* bound: edits of the Plugin
  MaxVersions, \* bound: changes of the Recipe
  MaxFaults    \* bound: failed writes and crashes

\* What a module that instantiates this one is to give it
RecipeUpdateAssumptions ==
  /\ Scalars \subseteq Keys /\ None \notin Contents \cup [content: Contents, own: BOOLEAN]
  /\ {MaxChanges, MaxVersions, MaxFaults} \subseteq Nat

VARIABLES
  upstream,    \* the Recipe at TRMNL
  local,       \* the Plugin; each item with whether it has headers of the admin's own
  snapshot,    \* sourceRecipeSnapshot
  page,        \* the preview in the browser: the Recipe it was made of and its items
  run,         \* the check or apply under way
  asked,       \* history: what the admin chose last and is still to be written
  changes, versions, faults

vars == <<upstream, local, snapshot, page, run, asked, changes, versions, faults>>

-----------------------------------------------------------------------------
Idle == [pc |-> "idle", applies |-> FALSE, chosen |-> {}, local |-> None, snapshot |-> None, upstream |-> None]
Item(content, own) == [content |-> content, own |-> own]

Init ==
  /\ upstream \in [Keys -> Contents \cup {None}] /\ \A k \in Scalars : upstream[k] # None
  /\ local = [k \in Keys |-> IF upstream[k] = None THEN None ELSE Item(upstream[k], FALSE)]
  /\ snapshot \in {upstream, None}
  /\ page = None /\ run = Idle /\ asked = {}
  /\ changes = 0 /\ versions = 0 /\ faults = 0

-----------------------------------------------------------------------------
(* diffRecipeUpdate                                                        *)

\* deepEqual: headers of one's own are a difference
Same(item, content) == IF content = None THEN item = None ELSE item = Item(content, FALSE)

\* decideItem.  Without a Recipe Snapshot the Plugin itself is what the Recipe is
\* compared with, and nothing is ever removed.
Offered(theSnapshot, theLocal, theUpstream) ==
  IF theSnapshot # None
  THEN {k \in Keys : theSnapshot[k] # theUpstream[k]}
  ELSE {k \in Keys : theUpstream[k] # None /\ ~Same(theLocal[k], theUpstream[k])}

\* prepareDiff: the Plugin is loaded, and then the Recipe downloaded.
Load(applies, chosen) ==
  /\ run.pc = "idle"
  /\ run' = [pc |-> "download", applies |-> applies, chosen |-> chosen,
             local |-> local, snapshot |-> snapshot, upstream |-> None]
  /\ UNCHANGED <<upstream, local, snapshot, page, asked, changes, versions, faults>>

checkForUpdate == Load(FALSE, {})
applyUpdate == page # None /\ \E chosen \in SUBSET page.items : Load(TRUE, chosen)

Items == Offered(run.snapshot, run.local, upstream)

ShowPreview ==
  /\ run.pc = "download" /\ ~run.applies
  /\ page' = [upstream |-> upstream, items |-> Items]
  /\ run' = Idle
  /\ UNCHANGED <<upstream, local, snapshot, asked, changes, versions, faults>>

\* contentHash
Moved == upstream # page.upstream

\* 409 recipe-changed, or an item that is no longer pending
Refuse ==
  /\ run.pc = "download" /\ run.applies
  /\ Moved \/ ~(run.chosen \subseteq Items)
  /\ run' = Idle
  /\ UNCHANGED <<upstream, local, snapshot, page, asked, changes, versions, faults>>

\* Slip: the Recipe Snapshot is taken before the items are written
SnapshotTaken == upstream
SnapshotKept == snapshot

Begin ==
  /\ run.pc = "download" /\ run.applies
  /\ ~Moved /\ run.chosen \subseteq Items
  /\ snapshot' = SnapshotKept
  /\ run' = [run EXCEPT !.pc = "apply", !.upstream = upstream]
  /\ asked' = {[key |-> k, content |-> upstream[k]] : k \in run.chosen}
  /\ UNCHANGED <<upstream, local, page, changes, versions, faults>>

-----------------------------------------------------------------------------
(* applySelectedItems                                                      *)

Written(k) == asked' = {a \in asked : a.key # k}

\* Slip: headers the Recipe does not set go
HeadersReplaced(k) == Item(run.upstream[k], FALSE)
\* mergeHeaders, over the row as it was loaded
Merged(k) == Item(run.upstream[k], run.local[k] # None /\ run.local[k].own)

\* A row that was loaded is saved, even when it has been deleted since, and one
\* that was not is inserted, unless another has its name by now.
ApplyItem(k) ==
  /\ run.pc = "apply" /\ k \in run.chosen \ Scalars
  /\ ~(run.upstream[k] # None /\ run.local[k] = None /\ local[k] # None)
  /\ local' = [local EXCEPT ![k] = IF run.upstream[k] # None THEN Merged(k) ELSE IF run.local[k] # None THEN None ELSE @]
  /\ run' = [run EXCEPT !.chosen = @ \ {k}]
  /\ Written(k)
  /\ UNCHANGED <<upstream, snapshot, page, changes, versions, faults>>

\* The Plugin's own columns and the Recipe Snapshot, in one statement
Finish ==
  /\ run.pc = "apply" /\ run.chosen \subseteq Scalars
  /\ local' = [k \in Keys |-> IF k \in run.chosen THEN Item(run.upstream[k], FALSE) ELSE local[k]]
  /\ snapshot' = run.upstream
  /\ run' = Idle
  /\ asked' = {a \in asked : a.key \notin run.chosen}
  /\ UNCHANGED <<upstream, page, changes, versions, faults>>

\* UQ_plugin_template_plugin_layout, UQ_plugin_data_source_plugin_name
InsertRefused(k) ==
  /\ run.pc = "apply" /\ k \in run.chosen \ Scalars
  /\ run.upstream[k] # None /\ run.local[k] = None /\ local[k] # None
  /\ run' = Idle
  /\ UNCHANGED <<upstream, local, snapshot, page, asked, changes, versions, faults>>

\* A failed download or write, or the server dies
Fail ==
  /\ run.pc # "idle" /\ faults < MaxFaults /\ faults' = faults + 1
  /\ run' = Idle
  /\ UNCHANGED <<upstream, local, snapshot, page, asked, changes, versions>>

-----------------------------------------------------------------------------
\* PluginsService.update: the admin changes, adds or removes an item.
Edit(k) ==
  /\ changes < MaxChanges /\ changes' = changes + 1
  /\ \E item \in [content: Contents, own: IF k \in Scalars THEN {FALSE} ELSE BOOLEAN] \cup (IF k \in Scalars THEN {} ELSE {None}) :
       item # local[k] /\ local' = [local EXCEPT ![k] = item]
  /\ UNCHANGED <<upstream, snapshot, page, run, asked, versions, faults>>

Publish(k) ==
  /\ versions < MaxVersions /\ versions' = versions + 1
  /\ \E content \in Contents \cup {None} :
       /\ content # upstream[k] /\ (k \in Scalars => content # None)
       /\ upstream' = [upstream EXCEPT ![k] = content]
  /\ UNCHANGED <<local, snapshot, page, run, asked, changes, faults>>

Next ==
  \/ checkForUpdate \/ applyUpdate \/ ShowPreview \/ Refuse \/ Begin \/ Finish \/ Fail
  \/ \E k \in Keys : ApplyItem(k) \/ InsertRefused(k) \/ Edit(k) \/ Publish(k)

Spec == Init /\ [][Next]_vars

-----------------------------------------------------------------------------
(* What the code is to guarantee.                                          *)

Recipes == [Keys -> Contents \cup {None}]
Rows == [Keys -> [content: Contents, own: BOOLEAN] \cup {None}]

\* The shape of the Recipe, the Plugin and the run, and that a Plugin's own column
\* is never missing.
TypeOK ==
  /\ upstream \in Recipes /\ local \in Rows /\ snapshot \in Recipes \cup {None}
  /\ \A k \in Scalars : upstream[k] # None /\ local[k] # None /\ ~local[k].own
  /\ page \in [upstream: Recipes, items: SUBSET Keys] \cup {None}
  /\ run \in [pc: {"idle", "download", "apply"}, applies: BOOLEAN, chosen: SUBSET Keys,
              local: Rows \cup {None}, snapshot: Recipes \cup {None}, upstream: Recipes \cup {None}]
  /\ asked \subseteq [key: Keys, content: Contents \cup {None}]
  /\ changes \in 0..MaxChanges /\ versions \in 0..MaxVersions /\ faults \in 0..MaxFaults

\* An apply that ends before its last item loses nothing that was chosen: as long
\* as the Recipe still says so, the next check offers it again.
ChosenIsOfferedAgain ==
  run.pc = "idle" =>
    \A a \in asked : upstream[a.key] = a.content =>
      a.key \in Offered(snapshot, local, upstream) \/ Same(local[a.key], a.content)

\* An apply writes only what the admin has chosen in the preview, as the preview
\* showed it: no other item, no later Recipe, and over no header of the admin's own.
OnlyWhatWasShown ==
  [][run.pc = "apply" /\ run' # run =>
       \A k \in Keys : local'[k] # local[k] =>
         /\ k \in run.chosen \cap page.items
         /\ local'[k] # None => local'[k].content = page.upstream[k]
         /\ local'[k] = None => page.upstream[k] = None
         /\ local'[k] # None /\ run.local[k] # None /\ run.local[k].own => local'[k].own]_vars
=============================================================================
