------------------------- MODULE RecipeUpdate_proofs -------------------------
(***************************************************************************)
(* For any Recipe, any number of items, edits of the Plugin and changes of *)
(* the Recipe, and one check or apply at a time: an apply that fails or is *)
(* killed anywhere loses nothing that was chosen, and writes nothing that  *)
(* was not shown.                                                          *)
(***************************************************************************)
EXTENDS RecipeUpdate, TLAPS

-----------------------------------------------------------------------------
(* The inductive invariant.                                                *)

\* A run works on the Plugin as it was loaded; the Recipe Snapshot is still that
\* one, and what was chosen is on the page that is open.
RunIsOfPage ==
  /\ run.pc # "idle" =>
       /\ run.local \in Rows /\ \A k \in Scalars : run.local[k] # None /\ ~run.local[k].own
       /\ run.snapshot = snapshot
       /\ run.applies => page # None /\ run.chosen \subseteq page.items
  /\ run.pc = "apply" => run.applies /\ run.upstream = page.upstream /\ \A k \in Scalars : run.upstream[k] # None

\* What is still to be written was chosen, and is not what the Recipe Snapshot has.
AskedIsOffered ==
  /\ run.pc = "apply" => \A a \in asked : a.key \in run.chosen
  /\ \A a \in asked : IF snapshot # None THEN snapshot[a.key] # a.content ELSE a.content # None

IInv == TypeOK /\ RunIsOfPage /\ AskedIsOffered

\* What is kept of a run, typed.
RunRecords ==
  [pc: {"idle", "download", "apply"}, applies: BOOLEAN, chosen: SUBSET Keys,
   local: Rows \cup {None}, snapshot: Recipes \cup {None}, upstream: Recipes \cup {None}]
AskedRecords == [key: Keys, content: Contents \cup {None}]
AnItem == [content: Contents, own: BOOLEAN]

LEMMA ItemTypes ==
  ASSUME RecipeUpdateAssumptions, NEW content \in Contents, NEW own \in BOOLEAN
  PROVE  /\ Item(content, own) \in AnItem /\ Item(content, own) # None
         /\ Item(content, own).content = content /\ Item(content, own).own = own
BY DEF Item, AnItem, RecipeUpdateAssumptions

LEMMA IdleTypes == Idle \in RunRecords /\ Idle.pc = "idle"
BY DEF Idle, RunRecords

-----------------------------------------------------------------------------
(* The actions.                                                            *)

LEMMA InitHolds == RecipeUpdateAssumptions /\ Init => IInv
<1> SUFFICES ASSUME RecipeUpdateAssumptions, Init PROVE IInv
  OBVIOUS
<1>1. upstream \in Recipes /\ snapshot \in Recipes \cup {None} /\ \A k \in Scalars : k \in Keys /\ upstream[k] # None
  BY DEF Init, Recipes, RecipeUpdateAssumptions
<1>2. \A k \in Keys : IF upstream[k] = None THEN local[k] = None
                      ELSE upstream[k] \in Contents /\ local[k] = Item(upstream[k], FALSE)
  BY <1>1 DEF Init, Recipes
<1>3. local \in Rows
  <2>1. \A k \in Keys : local[k] \in AnItem \cup {None}
    BY <1>2, ItemTypes
  <2> QED BY <2>1 DEF Init, Rows, AnItem
<1>4. \A k \in Scalars : local[k] # None /\ ~local[k].own
  BY ZenonT(40), <1>1, <1>2, ItemTypes
<1>5. run \in RunRecords /\ run.pc = "idle"
  BY IdleTypes DEF Init
<1>6. changes \in 0..MaxChanges /\ versions \in 0..MaxVersions /\ faults \in 0..MaxFaults
  BY DEF Init, RecipeUpdateAssumptions
<1>7. TypeOK
  BY <1>1, <1>3, <1>4, <1>5, <1>6 DEF Init, TypeOK, RunRecords
<1>8. RunIsOfPage /\ AskedIsOffered
  BY <1>5 DEF Init, RunIsOfPage, AskedIsOffered
<1> QED BY <1>7, <1>8 DEF IInv

LEMMA LoadKeeps ==
  ASSUME RecipeUpdateAssumptions, IInv, checkForUpdate \/ applyUpdate
  PROVE  IInv'
<1>1. PICK applies \in BOOLEAN, chosen \in SUBSET Keys :
        Load(applies, chosen) /\ (applies => page # None /\ chosen \subseteq page.items)
  <2>1. CASE checkForUpdate
    BY <2>1 DEF checkForUpdate
  <2>2. CASE applyUpdate
    BY <2>2 DEF applyUpdate, IInv, TypeOK
  <2> QED BY <2>1, <2>2
<1> DEFINE c == [pc |-> "download", applies |-> applies, chosen |-> chosen,
                 local |-> local, snapshot |-> snapshot, upstream |-> None]
<1>2. run' = c /\ UNCHANGED <<upstream, local, snapshot, page, asked, changes, versions, faults>>
  BY <1>1 DEF Load
<1>3. local \in Rows /\ snapshot \in Recipes \cup {None}
  BY DEF IInv, TypeOK
<1>4. /\ c \in RunRecords /\ c.pc = "download" /\ c.applies = applies /\ c.chosen = chosen
      /\ c.local = local /\ c.snapshot = snapshot
  BY <1>3 DEF RunRecords
<1> HIDE DEF c
<1>5. TypeOK'
  BY <1>2, <1>4 DEF IInv, TypeOK, RunRecords
<1>6. RunIsOfPage' /\ AskedIsOffered'
  BY <1>1, <1>2, <1>3, <1>4 DEF IInv, TypeOK, RunIsOfPage, AskedIsOffered
<1> QED BY <1>5, <1>6 DEF IInv

\* A run ends, and what it has not written is not written.
LEMMA EndKeeps ==
  ASSUME IInv, run' = Idle, UNCHANGED <<upstream, local, snapshot, asked, changes, versions>>, faults' \in 0..MaxFaults,
         page' \in [upstream: Recipes, items: SUBSET Keys] \cup {None}
  PROVE  IInv'
<1>1. TypeOK'
  BY IdleTypes DEF IInv, TypeOK, RunRecords
<1>2. RunIsOfPage' /\ AskedIsOffered'
  BY IdleTypes DEF IInv, RunIsOfPage, AskedIsOffered
<1> QED BY <1>1, <1>2 DEF IInv

LEMMA EndingsKeep ==
  ASSUME RecipeUpdateAssumptions, IInv, ShowPreview \/ Refuse \/ Fail \/ \E k \in Keys : InsertRefused(k)
  PROVE  IInv'
<1>1. run' = Idle /\ UNCHANGED <<upstream, local, snapshot, asked, changes, versions>>
  BY DEF ShowPreview, Refuse, Fail, InsertRefused
<1>2. faults' \in 0..MaxFaults
  BY DEF ShowPreview, Refuse, Fail, InsertRefused, IInv, TypeOK, RecipeUpdateAssumptions
<1>3. Items \subseteq Keys /\ upstream \in Recipes
  BY DEF Items, Offered, IInv, TypeOK
<1>4. page' = page \/ page' = [upstream |-> upstream, items |-> Items]
  BY DEF ShowPreview, Refuse, Fail, InsertRefused
<1>5. page' \in [upstream: Recipes, items: SUBSET Keys] \cup {None}
  BY <1>3, <1>4 DEF IInv, TypeOK
<1> QED BY <1>1, <1>2, <1>5, EndKeeps

LEMMA BeginKeeps ==
  ASSUME RecipeUpdateAssumptions, IInv, Begin
  PROVE  IInv'
<1> DEFINE c == [run EXCEPT !.pc = "apply", !.upstream = upstream]
<1>1. /\ run.pc = "download" /\ run.applies /\ upstream = page.upstream /\ run.chosen \subseteq Items
      /\ run' = c /\ asked' = {[key |-> k, content |-> upstream[k]] : k \in run.chosen}
      /\ UNCHANGED <<upstream, local, snapshot, page, changes, versions, faults>>
  BY DEF Begin, Moved, SnapshotKept
<1>2. run \in RunRecords /\ upstream \in Recipes /\ run.snapshot = snapshot
  BY <1>1 DEF IInv, TypeOK, RunRecords, RunIsOfPage
<1>3. /\ c \in RunRecords /\ c.pc = "apply" /\ c.applies = run.applies /\ c.chosen = run.chosen
      /\ c.local = run.local /\ c.snapshot = run.snapshot /\ c.upstream = upstream
  BY <1>2 DEF RunRecords
<1> HIDE DEF c
<1>4. run.chosen \subseteq Keys /\ \A k \in Keys : upstream[k] \in Contents \cup {None}
  BY <1>2 DEF RunRecords, Recipes
<1>5. asked' \subseteq AskedRecords /\ \A a \in asked' : a.key \in run.chosen /\ a.content = upstream[a.key]
  BY <1>1, <1>4 DEF AskedRecords
<1>6. TypeOK'
  BY <1>1, <1>3, <1>5 DEF IInv, TypeOK, RunRecords, AskedRecords
<1>7. RunIsOfPage'
  BY <1>1, <1>3 DEF IInv, TypeOK, RunIsOfPage
<1>8. \A k \in run.chosen : IF snapshot # None THEN snapshot[k] # upstream[k] ELSE upstream[k] # None
  BY <1>1, <1>2 DEF Items, Offered
<1>9. AskedIsOffered'
  BY <1>1, <1>3, <1>5, <1>8 DEF AskedIsOffered
<1> QED BY <1>6, <1>7, <1>9 DEF IInv

\* What an item of a row of its own is written as.
LEMMA MergedTypes ==
  ASSUME RecipeUpdateAssumptions, IInv, run.pc = "apply", NEW k \in Keys, run.upstream[k] # None
  PROVE  /\ Merged(k) \in AnItem /\ Merged(k) # None /\ Merged(k).content = run.upstream[k]
         /\ Merged(k).own = (run.local[k] # None /\ run.local[k].own)
<1>1. run.upstream \in Recipes /\ run.local \in Rows
  BY DEF IInv, TypeOK, RunIsOfPage
<1>2. run.upstream[k] \in Contents /\ (run.local[k] # None => run.local[k].own \in BOOLEAN)
  BY <1>1 DEF Recipes, Rows
<1>3. (run.local[k] # None /\ run.local[k].own) \in BOOLEAN
  BY <1>2
<1> DEFINE own == run.local[k] # None /\ run.local[k].own
<1>4. own \in BOOLEAN /\ Merged(k) = Item(run.upstream[k], own)
  BY <1>3 DEF Merged
<1> HIDE DEF own
<1>5. Merged(k) \in AnItem /\ Merged(k) # None /\ Merged(k).content = run.upstream[k] /\ Merged(k).own = own
  BY <1>2, <1>4, ItemTypes
<1> QED BY <1>5 DEF own

LEMMA ApplyItemKeeps ==
  ASSUME RecipeUpdateAssumptions, IInv, NEW k \in Keys, ApplyItem(k)
  PROVE  IInv'
<1> DEFINE item == IF run.upstream[k] # None THEN Merged(k) ELSE IF run.local[k] # None THEN None ELSE local[k]
           c == [run EXCEPT !.chosen = @ \ {k}]
<1>1. /\ run.pc = "apply" /\ k \in run.chosen \ Scalars
      /\ local' = [local EXCEPT ![k] = item] /\ run' = c /\ asked' = {a \in asked : a.key # k}
      /\ UNCHANGED <<upstream, snapshot, page, changes, versions, faults>>
  BY DEF ApplyItem, Written, IInv, TypeOK, Rows
<1>2. local \in Rows /\ run \in RunRecords
  BY DEF IInv, TypeOK, RunRecords
<1>3. item \in AnItem \cup {None}
  BY <1>1, <1>2, MergedTypes DEF Rows, AnItem
<1>4. /\ c \in RunRecords /\ c.pc = "apply" /\ c.applies = run.applies /\ c.chosen = run.chosen \ {k}
      /\ c.local = run.local /\ c.snapshot = run.snapshot /\ c.upstream = run.upstream
  BY <1>1, <1>2 DEF RunRecords
<1> HIDE DEF c, item
<1>5. local' \in Rows /\ \A s \in Scalars : local'[s] = local[s]
  BY <1>1, <1>2, <1>3 DEF Rows, AnItem
<1>6. TypeOK'
  BY <1>1, <1>4, <1>5 DEF IInv, TypeOK, RunRecords
<1>7. RunIsOfPage' /\ AskedIsOffered'
  BY <1>1, <1>4 DEF IInv, RunIsOfPage, AskedIsOffered
<1> QED BY <1>6, <1>7 DEF IInv

LEMMA FinishKeeps ==
  ASSUME RecipeUpdateAssumptions, IInv, Finish
  PROVE  IInv'
<1>1. /\ run.pc = "apply" /\ run.chosen \subseteq Scalars
      /\ local' = [k \in Keys |-> IF k \in run.chosen THEN Item(run.upstream[k], FALSE) ELSE local[k]]
      /\ snapshot' = run.upstream /\ run' = Idle /\ asked' = {a \in asked : a.key \notin run.chosen}
      /\ UNCHANGED <<upstream, page, changes, versions, faults>>
  BY DEF Finish
<1>2. local \in Rows /\ run.upstream \in Recipes /\ Scalars \subseteq Keys
  BY <1>1 DEF IInv, TypeOK, RunIsOfPage, RecipeUpdateAssumptions
<1>3. \A k \in Scalars : run.upstream[k] \in Contents
  BY <1>1, <1>2 DEF IInv, RunIsOfPage, Recipes
<1>4. /\ \A k \in Keys : local'[k] \in AnItem \cup {None}
      /\ \A k \in Scalars : local'[k] # None /\ ~local'[k].own
  <2>1. \A k \in Keys : IF k \in run.chosen THEN local'[k] = Item(run.upstream[k], FALSE) ELSE local'[k] = local[k]
    BY <1>1
  <2>2. \A k \in Keys : local[k] \in AnItem \cup {None}
    BY <1>2 DEF Rows, AnItem
  <2>3. \A k \in Scalars : local[k] # None /\ ~local[k].own
    BY DEF IInv, TypeOK
  <2>4. \A k \in run.chosen : LET item == Item(run.upstream[k], FALSE) IN item \in AnItem /\ item # None /\ ~item.own
    BY <1>1, <1>3, ItemTypes
  <2> QED BY <1>2, <2>1, <2>2, <2>3, <2>4
<1>5. local' \in Rows
  BY <1>1, <1>4 DEF Rows, AnItem
<1>6. asked' = {}
  BY <1>1 DEF IInv, AskedIsOffered
<1>7. TypeOK'
  BY <1>1, <1>2, <1>4, <1>5, <1>6, IdleTypes DEF IInv, TypeOK, RunRecords
<1>8. RunIsOfPage' /\ AskedIsOffered'
  BY <1>1, <1>6, IdleTypes DEF RunIsOfPage, AskedIsOffered
<1> QED BY <1>7, <1>8 DEF IInv

LEMMA AroundKeeps ==
  ASSUME RecipeUpdateAssumptions, IInv, UNCHANGED vars \/ \E k \in Keys : Edit(k) \/ Publish(k)
  PROVE  IInv'
<1>1. UNCHANGED <<snapshot, page, run, asked, faults>>
  BY DEF vars, Edit, Publish
<1>2. changes' \in 0..MaxChanges /\ versions' \in 0..MaxVersions
  <2>1. changes \in 0..MaxChanges /\ versions \in 0..MaxVersions /\ MaxChanges \in Nat /\ MaxVersions \in Nat
    BY DEF IInv, TypeOK, RecipeUpdateAssumptions
  <2>2. \/ UNCHANGED <<changes, versions>>
        \/ changes < MaxChanges /\ changes' = changes + 1 /\ versions' = versions
        \/ versions < MaxVersions /\ versions' = versions + 1 /\ changes' = changes
    BY DEF vars, Edit, Publish
  <2> QED BY <2>1, <2>2
<1>3. upstream' \in Recipes /\ \A k \in Scalars : upstream'[k] # None
  <2>1. CASE upstream' = upstream
    BY <2>1 DEF IInv, TypeOK
  <2>2. ASSUME NEW k \in Keys, Publish(k) PROVE upstream' \in Recipes /\ \A s \in Scalars : upstream'[s] # None
    BY <2>2 DEF Publish, IInv, TypeOK, Recipes
  <2> QED BY <2>1, <2>2 DEF vars, Edit
<1>4. local' \in Rows /\ \A k \in Scalars : local'[k] # None /\ ~local'[k].own
  <2>1. CASE local' = local
    BY <2>1 DEF IInv, TypeOK
  <2>2. ASSUME NEW k \in Keys, Edit(k) PROVE local' \in Rows /\ \A s \in Scalars : local'[s] # None /\ ~local'[s].own
    <3>1. PICK item \in [content: Contents, own: IF k \in Scalars THEN {FALSE} ELSE BOOLEAN] \cup (IF k \in Scalars THEN {} ELSE {None}) :
            local' = [local EXCEPT ![k] = item]
      BY <2>2 DEF Edit
    <3>2. item \in AnItem \cup {None} /\ (k \in Scalars => item \in AnItem /\ ~item.own)
      BY <3>1 DEF AnItem
    <3>3. k \in Scalars => item # None
      BY <3>2 DEF RecipeUpdateAssumptions, AnItem
    <3> QED BY <3>1, <3>2, <3>3 DEF IInv, TypeOK, Rows, AnItem, RecipeUpdateAssumptions
  <2> QED BY <2>1, <2>2 DEF vars, Publish
<1>5. TypeOK'
  BY <1>1, <1>2, <1>3, <1>4 DEF IInv, TypeOK
<1>6. RunIsOfPage' /\ AskedIsOffered'
  BY <1>1 DEF IInv, RunIsOfPage, AskedIsOffered
<1> QED BY <1>5, <1>6 DEF IInv

-----------------------------------------------------------------------------
(* The theorems.                                                           *)

LEMMA StepKeeps == RecipeUpdateAssumptions /\ IInv /\ [Next]_vars => IInv'
BY LoadKeeps, EndingsKeep, BeginKeeps, ApplyItemKeeps, FinishKeeps, AroundKeeps DEF Next

THEOREM Invariant == ASSUME RecipeUpdateAssumptions PROVE Spec => []IInv
<1>1. Init => IInv
  BY InitHolds
<1>2. IInv /\ [Next]_vars => IInv'
  BY StepKeeps
<1> QED BY <1>1, <1>2, PTL DEF Spec

\* The Recipe, the Plugin and the run keep their shape, and no apply takes away
\* one of the Plugin's own columns.
THEOREM TypeCorrect == ASSUME RecipeUpdateAssumptions PROVE Spec => []TypeOK
<1>1. IInv => TypeOK
  BY DEF IInv
<1> QED BY <1>1, Invariant, PTL

LEMMA InvariantOffers == IInv => ChosenIsOfferedAgain
<1> SUFFICES ASSUME IInv, NEW a \in asked, upstream[a.key] = a.content
             PROVE  a.key \in Offered(snapshot, local, upstream) \/ Same(local[a.key], a.content)
  BY DEF ChosenIsOfferedAgain
<1>1. a.key \in Keys
  BY DEF IInv, TypeOK
<1> QED BY <1>1 DEF IInv, AskedIsOffered, Offered

\* Wherever an apply ends, the next check offers again what was chosen and is not
\* written, for any items, edits and Recipes.
THEOREM OfferedAgain == ASSUME RecipeUpdateAssumptions PROVE Spec => []ChosenIsOfferedAgain
BY InvariantOffers, Invariant, PTL

\* A step of an apply writes what was chosen, as it was shown.
LEMMA ApplyWrites ==
  ASSUME RecipeUpdateAssumptions, IInv, Next, run.pc = "apply", run' # run,
         NEW k \in Keys, local'[k] # local[k]
  PROVE  /\ k \in run.chosen \cap page.items
         /\ local'[k] # None => local'[k].content = page.upstream[k]
         /\ local'[k] = None => page.upstream[k] = None
         /\ local'[k] # None /\ run.local[k] # None /\ run.local[k].own => local'[k].own
<1>1. /\ run.chosen \subseteq page.items /\ run.upstream = page.upstream
      /\ local \in Rows /\ run.upstream \in Recipes
      /\ \A s \in Scalars : s \in Keys /\ run.upstream[s] # None /\ ~run.local[s].own
  BY DEF IInv, TypeOK, RunIsOfPage, RecipeUpdateAssumptions
<1>2. ASSUME NEW j \in Keys, ApplyItem(j)
      PROVE  /\ j = k /\ k \in run.chosen
             /\ local'[k] = IF run.upstream[k] # None THEN Merged(k) ELSE IF run.local[k] # None THEN None ELSE local[k]
  BY <1>1, <1>2 DEF ApplyItem, Rows
<1>3. CASE \E j \in Keys : ApplyItem(j)
  <2>1. CASE run.upstream[k] # None
    <3>1. local'[k] = Merged(k)
      BY <1>2, <1>3, <2>1
    <3> QED BY <1>1, <1>2, <1>3, <2>1, <3>1, MergedTypes
  <2>2. CASE run.upstream[k] = None
    <3>1. local'[k] = None
      BY <1>2, <1>3, <2>2
    <3> QED BY <1>1, <1>2, <1>3, <2>2, <3>1
  <2> QED BY <2>1, <2>2
<1>4. CASE Finish
  <2>1. k \in run.chosen /\ k \in Scalars /\ local'[k] = Item(run.upstream[k], FALSE)
    BY <1>4 DEF Finish
  <2>2. run.upstream[k] \in Contents
    BY <1>1, <2>1 DEF Recipes
  <2> QED BY <1>1, <2>1, <2>2, ItemTypes
<1> QED BY <1>3, <1>4 DEF Next, checkForUpdate, applyUpdate, Load, ShowPreview, Refuse, Begin, Fail,
                                InsertRefused, Edit, Publish

\* Whatever happens to the Plugin and the Recipe meanwhile, an apply writes the
\* chosen items as the preview showed them.
THEOREM AsShown == ASSUME RecipeUpdateAssumptions PROVE Spec => OnlyWhatWasShown
<1>1. IInv /\ [Next]_vars =>
        [run.pc = "apply" /\ run' # run =>
           \A k \in Keys : local'[k] # local[k] =>
             /\ k \in run.chosen \cap page.items
             /\ local'[k] # None => local'[k].content = page.upstream[k]
             /\ local'[k] = None => page.upstream[k] = None
             /\ local'[k] # None /\ run.local[k] # None /\ run.local[k].own => local'[k].own]_vars
  BY ApplyWrites
<1> QED BY <1>1, Invariant, PTL DEF Spec, OnlyWhatWasShown
==============================================================================
