----------------------------- MODULE ColumnManager -----------------------------
(***************************************************************************)
(* The custom columns of a project: ColumnManagerPanel of the frontend,    *)
(* getCustomFields and updateCustomFields of the backend.                  *)
(*   The panel sends the whole list for one column that is added or         *)
(* removed, and the list replaces the one in the project's row.  Other      *)
(* handlers (update, archive, incrementSettlementRound) save that row as    *)
(* they have read it.                                                       *)
(*   A column is its key, made of the time of the click: no two clicks fall *)
(* into one millisecond.  Names, types, options and the order never change. *)
(* The copy of the list that the table of tasks shows is left out: nothing  *)
(* is saved from it.                                                        *)
(***************************************************************************)
EXTENDS Naturals

CONSTANTS
  Panels,         \* tabs with the page of the project
  Columns,        \* keys, one for every click that adds one
  ProjectCalls,   \* calls of the other handlers
  MaxClicks,      \* bound: columns added or removed
  MaxMounts,      \* bound: panels opened again
  MaxHandled,     \* bound: calls of the other handlers
  NoClick, NoProject

ASSUME ColumnAssumption == MaxClicks \in Nat /\ MaxMounts \in Nat /\ MaxHandled \in Nat

VARIABLES
  columns,     \* customFields of the row
  panel,       \* [Panels -> the state of the component]
  click,       \* [1 .. MaxClicks -> the save in flight, or NoClick]
  held,        \* [ProjectCalls -> the row another handler has read, or NoProject]
  made,        \* keys that were ever made
  clicks, mounts, handled,
  \* history
  meant,       \* columns there should be: those added last rather than removed
  unseen,      \* <<panel, column>>: the panel may not know whether the column is there
  overruled    \* columns that a save without that knowledge has brought back or taken away

columnVars == <<columns, panel, click, held, made, clicks, mounts, handled, meant, unseen, overruled>>

\* got is the answer of a load, saving disables the buttons.
Panel == [list : SUBSET Columns, load : {"asked", "read", "done"}, got : SUBSET Columns,
          missed : SUBSET Columns, saving : BOOLEAN]

\* heard: the panel it was sent from is still mounted; risk: columns it may not know of.
Click == [of : Panels, column : Columns, sent : SUBSET Columns, risk : SUBSET Columns,
          at : {"sent", "saved", "refused"}, heard : BOOLEAN]
HeldProject == [columns : SUBSET Columns, risk : SUBSET Columns]

ASSUME NoColumnAssumption == NoClick \notin Click /\ NoProject \notin HeldProject

ColumnsTypeOK ==
  /\ columns \subseteq made /\ made \subseteq Columns
  /\ panel \in [Panels -> Panel]
  /\ click \in [1 .. MaxClicks -> Click \cup {NoClick}]
  /\ held \in [ProjectCalls -> HeldProject \cup {NoProject}]
  /\ clicks \in 0 .. MaxClicks /\ mounts \in 0 .. MaxMounts /\ handled \in 0 .. MaxHandled
  /\ meant \subseteq Columns /\ unseen \subseteq Panels \X Columns /\ overruled \subseteq Columns

\* A new panel, without a list until its load is answered.
NewPanel == [list |-> {}, load |-> "asked", got |-> {}, missed |-> {}, saving |-> FALSE]

ColumnsInit ==
  /\ columns \in SUBSET Columns /\ made = columns /\ meant = columns
  /\ panel = [p \in Panels |-> NewPanel]
  /\ click = [e \in 1 .. MaxClicks |-> NoClick]
  /\ held = [h \in ProjectCalls |-> NoProject]
  /\ clicks = 0 /\ mounts = 0 /\ handled = 0
  /\ unseen = Panels \X columns /\ overruled = {}

-----------------------------------------------------------------------------
(* load                                                                     *)

\* The tab of tasks is left and opened again; what was sent goes on.
MountPanel(p) ==
  /\ mounts < MaxMounts
  /\ mounts' = mounts + 1
  /\ panel' = [panel EXCEPT ![p] = NewPanel]
  /\ click' = [e \in 1 .. MaxClicks |->
       IF click[e] # NoClick /\ click[e].of = p THEN [click[e] EXCEPT !.heard = FALSE] ELSE click[e]]
  /\ unseen' = {x \in unseen : x[1] # p} \cup ({p} \X columns)
  /\ UNCHANGED <<columns, held, made, clicks, handled, meant, overruled>>

GetColumns(p) ==
  /\ panel[p].load = "asked"
  /\ panel' = [panel EXCEPT ![p].load = "read", ![p].got = columns]
  /\ UNCHANGED <<columns, click, held, made, clicks, mounts, handled, meant, unseen, overruled>>

ShowColumns(p) ==
  /\ panel[p].load = "read"
  /\ panel' = [panel EXCEPT ![p].list = panel[p].got, ![p].load = "done", ![p].got = {}, ![p].missed = {}]
  /\ unseen' = {x \in unseen : x[1] # p} \cup ({p} \X panel[p].missed)
  /\ UNCHANGED <<columns, click, held, made, clicks, mounts, handled, meant, overruled>>

\* An error is shown, and columns can be added all the same.
LoadColumnsFails(p) ==
  /\ panel[p].load # "done"
  /\ panel' = [panel EXCEPT ![p].load = "done", ![p].got = {}, ![p].missed = {}]
  /\ UNCHANGED <<columns, click, held, made, clicks, mounts, handled, meant, unseen, overruled>>

-----------------------------------------------------------------------------
(* save                                                                     *)

\* Mutant: the buttons stay enabled.
AlwaysUsable(p) == TRUE

Usable(p) == ~panel[p].saving

SendColumns(p, k, list) ==
  /\ Usable(p) /\ clicks < MaxClicks
  /\ clicks' = clicks + 1
  /\ panel' = [panel EXCEPT ![p].saving = TRUE]
  /\ click' = [click EXCEPT ![clicks'] =
       [of |-> p, column |-> k, sent |-> list, risk |-> {c \in Columns \ {k} : <<p, c>> \in unseen},
        at |-> "sent", heard |-> TRUE]]
  /\ UNCHANGED <<columns, held, mounts, handled, meant, unseen, overruled>>

AddColumn(p, k) ==
  /\ k \notin made
  /\ made' = made \cup {k}
  /\ SendColumns(p, k, panel[p].list \cup {k})

RemoveColumn(p, k) ==
  /\ k \in panel[p].list
  /\ SendColumns(p, k, panel[p].list \ {k})
  /\ UNCHANGED made

\* Columns that a save of list changes.
Differing(list) == (list \ columns) \cup (columns \ list)

\* A panel sends one save at a time: what its own saves write never comes unawares.
SameVisit(e, x) == click[e].of = click[x].of /\ click[e].heard /\ click[x].heard

\* What is written comes too late for the lists that were sent, read or shown before.
MissedByClicks(written, Knows(_)) ==
  [x \in 1 .. MaxClicks |->
    IF click[x] = NoClick \/ Knows(x) THEN click[x] ELSE [click[x] EXCEPT !.risk = @ \cup written]]

MissedByHandlers(written) ==
  [h \in ProjectCalls |->
    IF held[h] = NoProject THEN NoProject ELSE [held[h] EXCEPT !.risk = @ \cup written]]

MissedByLoads(written) ==
  [p \in Panels |->
    IF panel[p].load = "read" THEN [panel[p] EXCEPT !.missed = @ \cup written] ELSE panel[p]]

\* updateCustomFields: reads the row and saves it with this list, whatever list it had.
SaveColumns(e) ==
  LET c == click[e]
      written == Differing(c.sent) \cup {c.column}
  IN
  /\ c # NoClick /\ c.at = "sent"
  /\ columns' = c.sent
  /\ meant' = IF c.column \in c.sent THEN meant \cup {c.column} ELSE meant \ {c.column}
  /\ overruled' = (overruled \cup (c.risk \cap Differing(c.sent))) \ {c.column}
  /\ click' = [MissedByClicks(written, LAMBDA x : SameVisit(e, x)) EXCEPT ![e].at = "saved", ![e].risk = {}]
  /\ held' = MissedByHandlers(written)
  /\ panel' = MissedByLoads(written)
  /\ unseen' = unseen \cup (Panels \X written)
  /\ UNCHANGED <<made, clicks, mounts, handled>>

\* The save fails, or its answer is lost.
RefuseColumns(e) ==
  /\ click[e] # NoClick /\ click[e].at # "refused"
  /\ click' = [click EXCEPT ![e].at = "refused"]
  /\ UNCHANGED <<columns, panel, held, made, clicks, mounts, handled, meant, unseen, overruled>>

\* Defect: the list stays the one before the save.
ListBefore(e) == panel[click[e].of].list

\* res.data
Answered(e) == click[e].sent

ShowSavedColumns(e) ==
  LET c == click[e] IN
  /\ c # NoClick /\ c.at = "saved"
  /\ IF c.heard
     THEN /\ panel' = [panel EXCEPT ![c.of].list = Answered(e), ![c.of].saving = FALSE]
          /\ unseen' = {x \in unseen : x[1] # c.of} \cup ({c.of} \X c.risk)
     ELSE UNCHANGED <<panel, unseen>>
  /\ click' = [click EXCEPT ![e] = NoClick]
  /\ UNCHANGED <<columns, held, made, clicks, mounts, handled, meant, overruled>>

\* saveError; the panel keeps its list.
ShowColumnsError(e) ==
  LET c == click[e] IN
  /\ c # NoClick /\ c.at = "refused"
  /\ IF c.heard THEN panel' = [panel EXCEPT ![c.of].saving = FALSE] ELSE UNCHANGED panel
  /\ click' = [click EXCEPT ![e] = NoClick]
  /\ UNCHANGED <<columns, held, made, clicks, mounts, handled, meant, unseen, overruled>>

-----------------------------------------------------------------------------
(* Other handlers of the project's row                                      *)

ReadProject(h) ==
  /\ held[h] = NoProject /\ handled < MaxHandled
  /\ handled' = handled + 1
  /\ held' = [held EXCEPT ![h] = [columns |-> columns, risk |-> {}]]
  /\ UNCHANGED <<columns, panel, click, made, clicks, mounts, meant, unseen, overruled>>

SaveProject(h) ==
  LET row == held[h]
      written == Differing(row.columns)
  IN
  /\ row # NoProject
  /\ columns' = row.columns
  /\ overruled' = overruled \cup (row.risk \cap written)
  /\ click' = MissedByClicks(written, LAMBDA x : FALSE)
  /\ held' = [MissedByHandlers(written) EXCEPT ![h] = NoProject]
  /\ panel' = MissedByLoads(written)
  /\ unseen' = unseen \cup (Panels \X written)
  /\ UNCHANGED <<made, clicks, mounts, handled, meant>>

ColumnsNext ==
  \/ \E p \in Panels :
       \/ MountPanel(p) \/ GetColumns(p) \/ ShowColumns(p) \/ LoadColumnsFails(p)
       \/ \E k \in Columns : AddColumn(p, k) \/ RemoveColumn(p, k)
  \/ \E e \in 1 .. MaxClicks :
       SaveColumns(e) \/ RefuseColumns(e) \/ ShowSavedColumns(e) \/ ShowColumnsError(e)
  \/ \E h \in ProjectCalls : ReadProject(h) \/ SaveProject(h)

ColumnsSpec == ColumnsInit /\ [][ColumnsNext]_columnVars

-----------------------------------------------------------------------------
\* However loads, saves, refusals, lost answers and other handlers of the row interleave: a
\* column is there exactly if it was added and not removed since, unless it was taken away or
\* brought back by a handler that had read the row before, or from a panel that was sent an
\* older list, or none yet.  Saves of one panel never do that to each other by overlapping.
ColumnsKept == \A k \in Columns \ overruled : k \in columns <=> k \in meant

=============================================================================
