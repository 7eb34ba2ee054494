----------------------------- MODULE Departments -----------------------------
(***************************************************************************)
(* Departments mirrored from Feishu: backend/src/department, the first     *)
(* step of the full sync and the department webhooks of backend/src/feishu.*)
(*   upsertBatch saves the departments one by one, then reads all rows and *)
(* saves the parents one by one; a full sync then marks those that were    *)
(* not listed as deleted.  Rows are saved as they were read.  Webhooks do  *)
(* the same for one department, at any time.                               *)
(*   A department at the top of Feishu's chart comes without a parent that *)
(* the platform knows, and such a parent is never written: whoever moves   *)
(* to the top keeps the parent it had.                                     *)
(***************************************************************************)
EXTENDS Naturals, FiniteSets

CONSTANTS
  Depts,
  DeptWriters,    \* runs of the full sync, webhook handlers
  MaxMoves,       \* bound: changes of the chart
  MaxDeptErrors,  \* bound: failed queries
  Top, Gone, NoDept, NoRun

ASSUME DeptAssumption ==
  /\ IsFiniteSet(Depts) /\ MaxMoves \in Nat /\ MaxDeptErrors \in Nat
  /\ {Top, Gone, NoDept} \cap Depts = {} /\ Top # Gone

VARIABLES
  chart,       \* [Depts -> parent, Top or Gone]: Feishu
  dept,        \* [Depts -> Dept]: the rows
  deptEvents,  \* webhooks Feishu has sent, and may send again
  deptRun,     \* [DeptWriters -> Run or NoRun]
  moves, deptErrors,
  mended       \* history: the list of the last full sync, if it finished alone and nobody wrote since

deptVars == <<chart, dept, deptEvents, deptRun, moves, deptErrors, mended>>

Dept == [state : {"absent", "shown", "deleted"}, parent : Depts \cup {NoDept}]
NoList == [d \in {} |-> Top]

\* list: parents as Feishu told them; rows: what the run has read.
IsRun(r) ==
  /\ r.kind \in {"sync", "event"} /\ r.at \in {"read", "rows", "all", "parents", "missing", "delete"}
  /\ DOMAIN r.list \subseteq Depts /\ r.todo \subseteq Depts /\ r.alone \in BOOLEAN
  /\ r.rows \in [Depts -> Dept]

DeptTypeOK ==
  /\ chart \in [Depts -> Depts \cup {Top, Gone}]
  /\ dept \in [Depts -> Dept]
  /\ \A w \in DeptWriters : deptRun[w] = NoRun \/ IsRun(deptRun[w])
  /\ moves \in 0 .. MaxMoves /\ deptErrors \in 0 .. MaxDeptErrors

\* Departments above d: those reached in 1 to n steps.
AboveIn(parent, d) ==
  LET up[n \in Nat] == IF n = 0 THEN {d} ELSE {parent[e] : e \in up[n - 1] \cap DOMAIN parent}
  IN UNION {up[n] : n \in 1 .. Cardinality(Depts) + 1}

DeptInit ==
  /\ chart \in {c \in [Depts -> Depts \cup {Top}] : \A d \in Depts : d \notin AboveIn(c, d)}
  /\ dept = [d \in Depts |-> [state |-> "absent", parent |-> NoDept]]
  /\ deptEvents = {} /\ deptRun = [w \in DeptWriters |-> NoRun]
  /\ moves = 0 /\ deptErrors = 0 /\ mended = NoList

-----------------------------------------------------------------------------
(* Feishu.                                                                  *)

\* A department is created under p, or moved there with all below it.
MoveDept(d, p) ==
  /\ moves < MaxMoves /\ moves' = moves + 1
  /\ p \in ({Top} \cup {e \in Depts \ {d} : chart[e] # Gone /\ d \notin AboveIn(chart, e)}) \ {chart[d]}
  /\ chart' = [chart EXCEPT ![d] = p]
  /\ deptEvents' = deptEvents \cup {<<d, p>>}
  /\ UNCHANGED <<dept, deptRun, deptErrors, mended>>

\* Its webhook tells the id alone.
RemoveDept(d) ==
  /\ moves < MaxMoves /\ moves' = moves + 1
  /\ chart[d] # Gone /\ \A e \in Depts : chart[e] # d
  /\ chart' = [chart EXCEPT ![d] = Gone]
  /\ deptEvents' = deptEvents \cup {<<d, Top>>}
  /\ UNCHANGED <<dept, deptRun, deptErrors, mended>>

-----------------------------------------------------------------------------
(* upsertBatch                                                              *)

DeptStage(w, at) == deptRun[w] # NoRun /\ deptRun[w].at = at

Others(w) == {x \in DeptWriters \ {w} : deptRun[x] # NoRun}

\* Two runs at a time are neither of them alone.
StartRun(w, kind, list) ==
  /\ deptRun[w] = NoRun
  /\ deptRun' = [x \in DeptWriters |->
       IF x = w THEN [kind |-> kind, at |-> "read", list |-> list, todo |-> DOMAIN list,
                      rows |-> dept, alone |-> Others(w) = {}]
       ELSE IF deptRun[x] = NoRun THEN NoRun ELSE [deptRun[x] EXCEPT !.alone = FALSE]]
  /\ UNCHANGED <<chart, dept, deptEvents, moves, deptErrors, mended>>

\* syncAll: does nothing about departments when none is listed.
SyncDepts(w) ==
  LET listed == {d \in Depts : chart[d] # Gone}
  IN listed # {} /\ StartRun(w, "sync", [d \in listed |-> chart[d]])

\* processWebhookEvent: created, updated and deleted departments alike.
HandleDeptEvent(w, e) ==
  /\ e \in deptEvents
  /\ StartRun(w, "event", [d \in {e[1]} |-> e[2]])

Continue(w, run) ==
  /\ deptRun' = [deptRun EXCEPT ![w] = run]
  /\ UNCHANGED <<chart, deptEvents, moves>>

EndDeptRun(w) == Continue(w, NoRun)

\* The rows that are there already.
ReadExisting(w) ==
  /\ DeptStage(w, "read")
  /\ Continue(w, [deptRun[w] EXCEPT !.at = "rows", !.rows = dept])
  /\ UNCHANGED <<dept, deptErrors, mended>>

\* An update of the row as it was read, or an insert, which the unique index may refuse:
\* that ends the run.
SaveDept(w, d) ==
  LET known == deptRun[w].rows[d].state # "absent"
      fits == known \/ dept[d].state = "absent"
  IN /\ DeptStage(w, "rows") /\ d \in deptRun[w].todo
     /\ dept' = IF fits THEN [dept EXCEPT ![d] = [state |-> "shown", parent |-> deptRun[w].rows[d].parent]]
                ELSE dept
     /\ IF fits THEN Continue(w, [deptRun[w] EXCEPT !.todo = @ \ {d}]) ELSE EndDeptRun(w)
     /\ mended' = NoList
     /\ UNCHANGED deptErrors

\* Mutant: parents are looked up among the rows read before.
OldRows(w) == deptRun[w].rows

AllRows(w) == dept

\* The parents that are known; the others are not touched.
WithParent(list, rows) == {d \in DOMAIN list : list[d] \in Depts /\ rows[list[d]].state # "absent"}

ReadAll(w) ==
  /\ DeptStage(w, "rows") /\ deptRun[w].todo = {}
  /\ Continue(w, [deptRun[w] EXCEPT !.at = "parents", !.rows = AllRows(w),
                                    !.todo = WithParent(deptRun[w].list, AllRows(w))])
  /\ UNCHANGED <<dept, deptErrors, mended>>

SaveParent(w, d) ==
  /\ DeptStage(w, "parents") /\ d \in deptRun[w].todo
  /\ dept' = [dept EXCEPT ![d] = [state |-> deptRun[w].rows[d].state, parent |-> deptRun[w].list[d]]]
  /\ Continue(w, [deptRun[w] EXCEPT !.todo = @ \ {d}])
  /\ mended' = NoList
  /\ UNCHANGED deptErrors

ParentsSaved(w) ==
  /\ DeptStage(w, "parents") /\ deptRun[w].todo = {}
  /\ IF deptRun[w].kind = "event" THEN EndDeptRun(w) ELSE Continue(w, [deptRun[w] EXCEPT !.at = "missing"])
  /\ UNCHANGED <<dept, deptErrors, mended>>

-----------------------------------------------------------------------------
(* softDeleteMissing                                                        *)

ReadMissing(w) ==
  /\ DeptStage(w, "missing")
  /\ Continue(w, [deptRun[w] EXCEPT !.at = "delete", !.rows = dept,
       !.todo = {d \in Depts \ DOMAIN deptRun[w].list : dept[d].state = "shown"}])
  /\ UNCHANGED <<dept, deptErrors, mended>>

\* All of them in one transaction: the sync is over as far as departments go.
DeleteMissing(w) ==
  /\ DeptStage(w, "delete")
  /\ dept' = [d \in Depts |-> IF d \in deptRun[w].todo
                              THEN [state |-> "deleted", parent |-> deptRun[w].rows[d].parent] ELSE dept[d]]
  /\ mended' = IF deptRun[w].alone THEN deptRun[w].list ELSE NoList
  /\ EndDeptRun(w)
  /\ UNCHANGED deptErrors

FailDeptRun(w) ==
  /\ deptRun[w] # NoRun /\ deptErrors < MaxDeptErrors
  /\ deptErrors' = deptErrors + 1
  /\ EndDeptRun(w)
  /\ UNCHANGED <<dept, mended>>

DeptNext ==
  \/ \E d \in Depts : RemoveDept(d) \/ \E p \in Depts \cup {Top} : MoveDept(d, p)
  \/ \E w \in DeptWriters :
       \/ SyncDepts(w) \/ \E e \in deptEvents : HandleDeptEvent(w, e)
       \/ ReadExisting(w) \/ ReadAll(w) \/ ParentsSaved(w) \/ ReadMissing(w) \/ DeleteMissing(w)
       \/ FailDeptRun(w)
       \/ \E d \in Depts : SaveDept(w, d) \/ SaveParent(w, d)

DeptSpec == DeptInit /\ [][DeptNext]_deptVars

-----------------------------------------------------------------------------
\* findTree: departments reached from those whose parent is not shown.
ShownParent == [d \in {e \in Depts : dept[e].state = "shown" /\ dept[e].parent # NoDept /\
                                     dept[dept[e].parent].state = "shown"} |-> dept[d].parent]

InTree(d) == dept[d].state = "shown" /\ d \notin AboveIn(ShownParent, d) /\
             \A e \in AboveIn(ShownParent, d) : e \notin AboveIn(ShownParent, e)

\* Whatever earlier syncs, failed runs and late or repeated webhooks left behind: once a
\* full sync has run alone, every department it listed is in the tree, under the parent
\* Feishu has for it, unless the topmost department above it was moved there; and no
\* other department is in the tree.
MendedIsShown ==
  mended # NoList =>
    \A d \in Depts :
      LET top == {e \in {d} \cup AboveIn(mended, d) : e \in DOMAIN mended /\ mended[e] = Top}
      IN IF d \in DOMAIN mended
         THEN /\ mended[d] # Top => dept[d].parent = mended[d]
              /\ InTree(d) \/ \E e \in top : dept[e].parent # NoDept
         ELSE ~InTree(d)

=============================================================================
