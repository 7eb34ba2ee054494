------------------------------- MODULE MCScreens -------------------------------
(* What people have on their screens: the live meeting, the tabs that set up     *)
(* Feishu and the roles, the grid of tasks and its custom columns, and the lists of *)
(* all other pages.  The parts share no state: one runs, the others stand still.   *)
EXTENDS ReviewMeeting, FeishuSetup, RoleEditor, TaskGrid, ColumnManager, Panes, TLC

CONSTANTS alice, bob, m1, p1, p2, f2, n1, n2, l1

CONSTANT Parts  \* the parts that run

VARIABLE part

\* One meeting over two tasks, a lead and a member with a tab each.
MCPageUser    == (p1 :> alice) @@ (p2 :> bob)
MCPageMeeting == [p \in Pages |-> m1]

mcVars == <<part, vars, setupVars, roleVars, gridVars, columnVars, paneVars>>

MCInit ==
  /\ part \in Parts
  /\ Init /\ SetupInit /\ RolesInit /\ TaskGridInit /\ ColumnsInit /\ PanesInit
  /\ columns \subseteq {k \in Columns : part = "columns" /\ k = l1}
  /\ part # "panes" => pane = List(Mounted, Skeleton)

\* Both tabs save; clients and a configuration, which one tab asks for, are explored apart:
\* its steps use no client, and do not ask whether the row is enabled.
FeishuPart ==
  /\ SetupNext
  /\ auto'[f2] = NoAuto
  /\ \/ \A p \in Consoles : auto'[p] = NoAuto /\ console'[p].succeeded = NoSetup
     \/ /\ client' = NoClient /\ console'[f2].mode = "wizard"
        /\ \A c \in Callers : caller'[c] = NoCaller
        /\ setup' # NoSetup => setup'.enabled
        /\ \A p \in Consoles : save'[p] # NoSave => save'[p].dto.enabled

\* Two requests are on their way before the first save only; an error comes with two selected
\* roles.
RolesPart ==
  /\ RolesNext
  /\ roleErrors' = 0 \/ selects' <= 2
  /\ gridSaves' = 0 \/ Cardinality(asks'[n1]) + Cardinality(asks'[n2]) <= 1

\* One panel is opened again, or one other handler runs.
ColumnsPart == ColumnsNext /\ mounts' + handled' <= 1

MCNext ==
  /\ part' = part
  /\ \/ part = "meeting" /\ Next /\ UNCHANGED <<setupVars, roleVars, gridVars, columnVars, paneVars>>
     \/ part = "feishu" /\ FeishuPart /\ UNCHANGED <<vars, roleVars, gridVars, columnVars, paneVars>>
     \/ part = "roles" /\ RolesPart /\ UNCHANGED <<vars, setupVars, gridVars, columnVars, paneVars>>
     \/ part = "grid" /\ TaskGridNext /\ UNCHANGED <<vars, setupVars, roleVars, columnVars, paneVars>>
     \/ part = "columns" /\ ColumnsPart /\ UNCHANGED <<vars, setupVars, roleVars, gridVars, paneVars>>
     \/ part = "panes" /\ PanesNext /\ UNCHANGED <<vars, setupVars, roleVars, gridVars, columnVars>>

MCSpec == MCInit /\ [][MCNext]_mcVars

\* The rows, pages and requests of every part stay within what its handlers can read.
ScreensTypeOK == TypeOK /\ SetupTypeOK /\ RolesTypeOK /\ TaskGridTypeOK /\ ColumnsTypeOK /\ PanesTypeOK

\* What people edit in a grid is what is stored: the permissions of a role (RoleEditor), the
\* cells of a task beside the scores of its reviews (TaskGrid), the columns of a project
\* (ColumnManager).
EditsKept == GridKept /\ CellsKept /\ ColumnsKept

=============================================================================
