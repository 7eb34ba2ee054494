--------------------------------- MODULE Panes ---------------------------------
(***************************************************************************)
(* A page with one of the lists of module Screens, and the backend's rows  *)
(* behind it.                                                              *)
(*   The page sends requests and goes on: it may ask for a list while an   *)
(* older answer is on its way, change rows meanwhile, show another key, or *)
(* be left and mounted again.  A request that changes a row is carried out *)
(* at some time, and later, when its answer comes, the page puts the       *)
(* change into its list, loads the list again, or neither.                 *)
(*   The rows change by this page only; deleting a row never deletes rows  *)
(* of another list.                                                        *)
(***************************************************************************)
EXTENDS Screens, FiniteSets

CONSTANTS
  PaneKeys, PaneItems,  \* a row is <<key, item>>
  FirstKey,             \* the only key of a list that has none
  StockedItems,         \* those that exist in the beginning, under each key
  MaxLoads, MaxAlters,  \* bounds: loads and changes in flight
  MaxOpenings, MaxAlterings, MaxSlips,  \* bounds: clicks; errors and page changes
  NoPaneKey, NoLoad, NoAlter

ASSUME PanesAssumption ==
  /\ FirstKey \in PaneKeys /\ StockedItems \subseteq PaneItems /\ NoPaneKey \notin PaneKeys
  /\ MaxLoads \in Nat \ {0} /\ {MaxAlters, MaxOpenings, MaxAlterings, MaxSlips} \subseteq Nat

VARIABLES
  pane,      \* what the page does: [script, view]
  shelf,     \* [PaneRows -> version]: the backend's rows
  list,      \* [PaneRows -> version]: the rows that the page holds
  picked,    \* the key that is open, or NoPaneKey
  cached,    \* keys whose rows are kept ("once")
  loading,   \* keys whose loading flag is up
  failing,   \* an error stands in place of the rows
  loads,     \* [1 .. MaxLoads -> the load in flight, or NoLoad]
  alters,    \* [1 .. MaxAlters -> the change in flight, or NoAlter]
  openings, alterings, slips,
  \* history
  doubt      \* keys that the page may show wrongly

paneVars == <<pane, shelf, list, picked, cached, loading, failing, loads, alters,
              openings, alterings, slips, doubt>>

PaneRows == PaneKeys \X PaneItems

\* A row's versions: not yet there, as it was created, changed, deleted.
None == 0
Created == 1
Edited == 2
Deleted == 3

\* after: the change that made the page load again.  History: overtaken, where the page heard
\* the end of a change that the answer does not know of.
PaneLoad ==
  [of : PaneKeys, at : {"asked", "answered", "failed"}, rows : [PaneItems -> None .. Edited],
   after : (Kinds \X PaneRows) \cup {NoAlter}, overtaken : BOOLEAN]

\* History: missedBy, loads that were answered before the change; mixed, where another change
\* of the row was in flight.
PaneAlter ==
  [kind : Kinds, row : PaneRows, at : {"sent", "done", "refused", "lost"}, heard : BOOLEAN,
   missedBy : SUBSET (1 .. MaxLoads), mixed : BOOLEAN]

ASSUME NoPaneRequestAssumption == NoLoad \notin PaneLoad /\ NoAlter \notin PaneAlter

PanesTypeOK ==
  /\ pane \in [script : Scripts, view : Views]
  /\ shelf \in [PaneRows -> None .. Deleted]
  /\ list \in [PaneRows -> None .. Edited]
  /\ picked \in PaneKeys \cup {NoPaneKey}
  /\ cached \subseteq PaneKeys /\ loading \subseteq PaneKeys /\ doubt \subseteq PaneKeys
  /\ failing \in BOOLEAN
  /\ loads \in [1 .. MaxLoads -> PaneLoad \cup {NoLoad}]
  /\ alters \in [1 .. MaxAlters -> PaneAlter \cup {NoAlter}]
  /\ openings \in 0 .. MaxOpenings /\ alterings \in 0 .. MaxAlterings /\ slips \in 0 .. MaxSlips

NoRows == [r \in PaneRows |-> None]

Request(k, after) ==
  [of |-> k, at |-> "asked", rows |-> [i \in PaneItems |-> None], after |-> after,
   overtaken |-> FALSE]

\* The page as it is mounted: [picked, loading, loads].
Fresh(script) ==
  IF script.start = "mount"
  THEN [picked |-> FirstKey, loading |-> {FirstKey},
        loads |-> [l \in 1 .. MaxLoads |-> IF l = 1 THEN Request(FirstKey, NoAlter) ELSE NoLoad]]
  ELSE [picked |-> NoPaneKey, loading |-> {}, loads |-> [l \in 1 .. MaxLoads |-> NoLoad]]

PanesInit ==
  /\ pane \in Lists
  /\ shelf = [r \in PaneRows |-> IF r[2] \in StockedItems THEN Created ELSE None]
  /\ list = NoRows
  /\ picked = Fresh(pane.script).picked
  /\ loading = Fresh(pane.script).loading
  /\ loads = Fresh(pane.script).loads
  /\ alters = [a \in 1 .. MaxAlters |-> NoAlter]
  /\ cached = {} /\ failing = FALSE /\ doubt = {}
  /\ openings = 0 /\ alterings = 0 /\ slips = 0

Slips ==
  /\ slips < MaxSlips
  /\ slips' = slips + 1

-----------------------------------------------------------------------------
(* Loads                                                                    *)

\* A load begins, beside the current ones: the flag goes up, an error goes away.
StartLoad(k, after, current) ==
  \E l \in 1 .. MaxLoads :
    /\ loads[l] = NoLoad /\ \A m \in 1 .. l - 1 : loads[m] # NoLoad
    /\ loads' = [current EXCEPT ![l] = Request(k, after)]
    /\ list' = IF pane.script.before = "clears" THEN NoRows ELSE list
    /\ loading' = IF pane.script.quiet /\ after # NoAlter THEN loading ELSE loading \cup {k}
    /\ failing' = FALSE

Empty == list = NoRows

\* A click that opens the list of k has to load it.
Needed(k) ==
  \/ pane.script.opens = "always"
  \/ pane.script.opens = "ifEmpty" /\ Empty
  \/ pane.script.opens = "once" /\ k \notin cached
  \/ pane.script.opens = "retry" /\ failing

OpenPane(k) ==
  /\ openings < MaxOpenings
  /\ pane.script.keyed \/ k = FirstKey
  /\ pane.view.waits => loading = {}
  /\ pane.script.closes => k # picked
  /\ pane.script.opens \in {"never", "retry"} => Needed(k)
  /\ IF Needed(k) THEN StartLoad(k, NoAlter, loads)
     ELSE k # picked /\ UNCHANGED <<loads, list, loading, failing>>
  /\ picked' = IF pane.script.picks = "answer" THEN picked ELSE k
  /\ openings' = openings + 1
  /\ UNCHANGED <<pane, shelf, cached, alters, alterings, slips, doubt>>

ClosePane ==
  /\ pane.script.closes /\ picked # NoPaneKey
  /\ picked' = NoPaneKey
  /\ UNCHANGED <<pane, shelf, list, cached, loading, failing, loads, alters, openings, alterings, slips, doubt>>

\* A revoked key is listed as a changed row.
Listed(version) ==
  IF version # Deleted THEN version
  ELSE IF pane.script.drops = "marks" THEN Edited ELSE None

\* The backend reads the rows.
AnswerLoad(l) ==
  /\ loads[l] # NoLoad /\ loads[l].at = "asked"
  /\ loads' = [loads EXCEPT ![l].at = "answered",
                            ![l].rows = [i \in PaneItems |-> Listed(shelf[<<loads[l].of, i>>])]]
  /\ UNCHANGED <<pane, shelf, list, picked, cached, loading, failing, alters, openings, alterings, slips, doubt>>

LoadFails(l) ==
  /\ loads[l] # NoLoad /\ loads[l].at = "asked" /\ Slips
  /\ loads' = [loads EXCEPT ![l].at = "failed"]
  /\ UNCHANGED <<pane, shelf, list, picked, cached, loading, failing, alters, openings, alterings, doubt>>

KeepsEach == pane.script.opens = "once"

\* The list with rows in place of what was shown, or, where rows are kept for each key, of the
\* rows of k.
Replaced(k, rows) ==
  [r \in PaneRows |-> IF r[1] = k THEN rows[r[2]] ELSE IF KeepsEach THEN list[r] ELSE None]

\* The flag goes down, whichever load it was raised for.
LoadOver(l) ==
  /\ loads' = [loads EXCEPT ![l] = NoLoad]
  /\ alters' = [a \in 1 .. MaxAlters |->
       IF alters[a] = NoAlter THEN NoAlter ELSE [alters[a] EXCEPT !.missedBy = @ \ {l}]]
  /\ cached' = IF KeepsEach THEN cached \cup {loads[l].of} ELSE cached
  /\ loading' = IF pane.script.quiet /\ loads[l].after # NoAlter THEN loading
                ELSE IF KeepsEach THEN loading \ {loads[l].of} ELSE {}

\* The key that is open once an answer for k has come.
PickedBy(k) == IF pane.script.picks = "click" THEN picked ELSE k

ShowLoad(l) ==
  /\ loads[l] # NoLoad /\ loads[l].at = "answered"
  /\ LET k == loads[l].of IN
       /\ list' = Replaced(k, loads[l].rows)
       /\ picked' = PickedBy(k)
       /\ doubt' = (IF loads[l].overtaken THEN doubt \cup {k} ELSE doubt \ {k})
                   \cup ({picked'} \ (IF KeepsEach THEN {picked'} ELSE {k, NoPaneKey}))
  /\ LoadOver(l)
  /\ UNCHANGED <<pane, shelf, failing, openings, alterings, slips>>

ShowError(l) ==
  /\ loads[l] # NoLoad /\ loads[l].at = "failed"
  /\ list' = IF pane.script.fails = "empties"
             THEN Replaced(loads[l].of, [i \in PaneItems |-> None]) ELSE list
  /\ failing' = ("load" \in pane.script.hides)
  /\ doubt' = doubt \cup {loads[l].of} \cup ({picked} \ {NoPaneKey})
  /\ LoadOver(l)
  /\ UNCHANGED <<pane, shelf, picked, openings, alterings, slips>>

-----------------------------------------------------------------------------
(* Changes                                                                  *)

Handling(kind) ==
  [add |-> pane.script.adds, drop |-> pane.script.drops, edit |-> pane.script.edits][kind]

\* The button of the change is disabled: the change, or the load after it, is in flight.
Busy(kind, r) ==
  /\ kind \in pane.view.busy
  /\ \/ \E a \in 1 .. MaxAlters :
          /\ alters[a] # NoAlter /\ alters[a].heard
          /\ alters[a].kind = kind /\ (kind = "add" \/ alters[a].row = r)
     \/ \E l \in 1 .. MaxLoads :
          /\ loads[l] # NoLoad /\ loads[l].after # NoAlter
          /\ loads[l].after[1] = kind /\ (kind = "add" \/ loads[l].after[2] = r)

RowsUsable == ~failing /\ (pane.view.rows = "usable" \/ loading = {} \/ (KeepsEach /\ picked \notin loading))

FormUsable ==
  \/ pane.view.form = "usable"
  \/ RowsUsable /\ (pane.view.form = "ifEmpty" => Empty)

ChangesRow(r) == {a \in 1 .. MaxAlters : alters[a] # NoAlter /\ alters[a].row = r}

\* What the page offers: a new row under the open key, or one of the rows it shows.
Offered(kind, r) ==
  IF kind = "add" THEN r[1] = picked /\ shelf[r] = None /\ ChangesRow(r) = {} /\ FormUsable
  ELSE /\ RowsUsable /\ list[r] # None
       /\ kind = "edit" => list[r] = Created
       /\ KeepsEach => r[1] = picked

SendAlter(a, kind, r) ==
  /\ alters[a] = NoAlter /\ \A b \in 1 .. a - 1 : alters[b] # NoAlter
  /\ alterings < MaxAlterings
  /\ Handling(kind) # "none" /\ picked # NoPaneKey
  /\ Offered(kind, r) /\ ~Busy(kind, r)
  /\ alters' = [b \in 1 .. MaxAlters |->
       IF b = a THEN [kind |-> kind, row |-> r, at |-> "sent", heard |-> TRUE, missedBy |-> {},
                      mixed |-> ChangesRow(r) # {}]
       ELSE IF b \in ChangesRow(r) THEN [alters[b] EXCEPT !.mixed = TRUE] ELSE alters[b]]
  /\ alterings' = alterings + 1
  /\ UNCHANGED <<pane, shelf, list, picked, cached, loading, failing, loads, openings, slips, doubt>>

\* The backend finds the row that is to be changed.
Found(a) == alters[a].kind = "add" \/ Listed(shelf[alters[a].row]) # None

Committed(kind, version) ==
  [add |-> Created, drop |-> Deleted, edit |-> IF version = Deleted THEN Deleted ELSE Edited][kind]

CommitAlter(a) ==
  /\ alters[a] # NoAlter /\ alters[a].at = "sent" /\ Found(a)
  /\ shelf' = [shelf EXCEPT ![alters[a].row] = Committed(alters[a].kind, @)]
  /\ alters' = [alters EXCEPT ![a].at = "done",
       ![a].missedBy = {l \in 1 .. MaxLoads : loads[l] # NoLoad /\ loads[l].at = "answered"}]
  /\ UNCHANGED <<pane, list, picked, cached, loading, failing, loads, openings, alterings, slips, doubt>>

RefuseAlter(a) ==
  /\ alters[a] # NoAlter /\ alters[a].at = "sent"
  /\ IF Found(a) THEN Slips ELSE UNCHANGED slips
  /\ alters' = [alters EXCEPT ![a].at = "refused"]
  /\ UNCHANGED <<pane, shelf, list, picked, cached, loading, failing, loads, openings, alterings, doubt>>

\* The change was made, and its answer gets lost.
LoseAnswer(a) ==
  /\ alters[a] # NoAlter /\ alters[a].at = "done" /\ Slips
  /\ alters' = [alters EXCEPT ![a].at = "lost"]
  /\ UNCHANGED <<pane, shelf, list, picked, cached, loading, failing, loads, openings, alterings, doubt>>

\* Defect: a deleted row is left in the list.
PatchedKeeping(kind, r) ==
  [list EXCEPT ![r] = IF kind = "add" THEN Created ELSE IF kind = "edit" /\ @ # None THEN Edited ELSE @]

\* push or unshift, filter, or replace where the row is in the list.
Patched(kind, r) ==
  [list EXCEPT ![r] = IF kind = "add" THEN Created
                      ELSE IF kind = "drop" \/ @ = None THEN None ELSE Edited]

\* Loads that were answered before the change come too late from now on.
Overtaken(a) ==
  [l \in 1 .. MaxLoads |->
    IF loads[l] # NoLoad /\ l \in alters[a].missedBy THEN [loads[l] EXCEPT !.overtaken = TRUE]
    ELSE loads[l]]

AlterOver(a) == alters' = [alters EXCEPT ![a] = NoAlter]

\* The page puts the change into its list.  It is out of step where the row has other changes
\* in flight, where another key is open by now, or where the backend only marks the row.
PatchList(a) ==
  LET r == alters[a].row IN
  /\ alters[a] # NoAlter /\ alters[a].at = "done" /\ alters[a].heard
  /\ Handling(alters[a].kind) \in {"patches", "marks"}
  /\ list' = Patched(alters[a].kind, r)
  /\ doubt' = doubt \cup (IF alters[a].mixed \/ Handling(alters[a].kind) = "marks" THEN {r[1]} ELSE {})
                    \cup (IF alters[a].kind = "add" /\ ~KeepsEach THEN {picked} \ {r[1], NoPaneKey} ELSE {})
  /\ loads' = Overtaken(a)
  /\ AlterOver(a)
  /\ UNCHANGED <<pane, shelf, picked, cached, loading, failing, openings, alterings, slips>>

\* The page loads the list that is open by then.
ReloadList(a) ==
  /\ alters[a] # NoAlter /\ alters[a].at = "done" /\ alters[a].heard
  /\ Handling(alters[a].kind) \in {"reloads", "later"}
  /\ picked # NoPaneKey
  /\ StartLoad(picked, IF Handling(alters[a].kind) = "later" THEN NoAlter
                       ELSE <<alters[a].kind, alters[a].row>>, Overtaken(a))
  /\ doubt' = doubt \cup {alters[a].row[1]}
  /\ AlterOver(a)
  /\ UNCHANGED <<pane, shelf, picked, cached, openings, alterings, slips>>

\* The page does nothing with the change: it has been left, has nothing open, has no code for
\* it or has not heard of it.
AlterUntold(a) ==
  /\ alters[a] # NoAlter
  /\ \/ alters[a].at = "lost"
     \/ /\ alters[a].at = "done"
        /\ \/ ~alters[a].heard
           \/ Handling(alters[a].kind) = "untold"
           \/ Handling(alters[a].kind) \in {"reloads", "later"} /\ picked = NoPaneKey
  /\ failing' = (failing \/ (alters[a].at = "lost" /\ alters[a].heard /\ "alter" \in pane.script.hides))
  /\ doubt' = doubt \cup {alters[a].row[1]}
  /\ loads' = Overtaken(a)
  /\ AlterOver(a)
  /\ UNCHANGED <<pane, shelf, list, picked, cached, loading, openings, alterings, slips>>

AlterRefused(a) ==
  /\ alters[a] # NoAlter /\ alters[a].at = "refused"
  /\ failing' = (failing \/ (alters[a].heard /\ "alter" \in pane.script.hides))
  /\ AlterOver(a)
  /\ UNCHANGED <<pane, shelf, list, picked, cached, loading, loads, openings, alterings, slips, doubt>>

-----------------------------------------------------------------------------

\* Another page and back: answers to the page that was left are of no use any more.
RemountPane ==
  /\ Slips
  /\ list' = NoRows
  /\ picked' = Fresh(pane.script).picked
  /\ loading' = Fresh(pane.script).loading
  /\ loads' = Fresh(pane.script).loads
  /\ alters' = [a \in 1 .. MaxAlters |->
       IF alters[a] = NoAlter \/ alters[a].at # "sent" THEN NoAlter
       ELSE [alters[a] EXCEPT !.heard = FALSE]]
  /\ cached' = {} /\ failing' = FALSE /\ doubt' = {}
  /\ UNCHANGED <<pane, shelf, openings, alterings>>

PanesNext ==
  \/ \E k \in PaneKeys : OpenPane(k)
  \/ ClosePane \/ RemountPane
  \/ \E l \in 1 .. MaxLoads : AnswerLoad(l) \/ LoadFails(l) \/ ShowLoad(l) \/ ShowError(l)
  \/ \E a \in 1 .. MaxAlters :
       \/ \E kind \in Kinds, r \in PaneRows : SendAlter(a, kind, r)
       \/ CommitAlter(a) \/ RefuseAlter(a) \/ LoseAnswer(a)
       \/ PatchList(a) \/ ReloadList(a) \/ AlterUntold(a) \/ AlterRefused(a)

PanesSpec == PanesInit /\ [][PanesNext]_paneVars

-----------------------------------------------------------------------------
(* Properties                                                               *)

Quiet ==
  /\ \A l \in 1 .. MaxLoads : loads[l] = NoLoad
  /\ \A a \in 1 .. MaxAlters : alters[a] = NoAlter

\* Whatever requests crossed on the way: once all answers have come, a page shows the rows of
\* the open key as they are in the backend and no others, unless an answer was overtaken by a
\* change the page had already heard of, or came for another key, an answer was an error or got
\* lost, two changes of one row crossed, or the page does not follow its change (doubt).
ShownIsCurrent ==
  Quiet /\ ~failing /\ picked \notin doubt \cup {NoPaneKey} =>
    \A r \in PaneRows :
      IF r[1] = picked THEN list[r] = Listed(shelf[r])
      ELSE KeepsEach \/ list[r] = None

=============================================================================
