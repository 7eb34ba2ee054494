------------------------------ MODULE RoleEditor ------------------------------
(***************************************************************************)
(* The grid of permissions of a role: rbac.service of the backend and      *)
(* RolePermissionTab of the frontend.                                      *)
(*   The page selects a role, loads its permissions into a grid, and saves *)
(* the whole grid; the backend deletes the role's rows and inserts the new *)
(* ones, without a transaction around both.  The grid does not show every  *)
(* resource that permissions exist for.                                    *)
(*   Names and descriptions of roles, and who has which role, are left out.*)
(***************************************************************************)
EXTENDS Naturals, FiniteSets

CONSTANTS
  RoleIds,        \* roles, also those that are not created yet
  SystemRoles,    \* built-in roles
  Editors,        \* open pages
  Shown, Unshown, \* <<resource, action>> with and without a cell in the grid
  MaxSelects,     \* bound: roles selected
  MaxGridSaves,   \* bound: saves
  MaxRoleErrors,  \* bound: queries that fail
  Waiting, Failed, \* instead of an answer
  NoId, NoGridSave

VARIABLES
  roles,     \* the rows of roles
  grants,    \* [RoleIds -> SUBSET Cells]: role_permissions
  editor,    \* [Editors -> what the page shows]
  asks,      \* [Editors -> requests for permissions, with their answers]
  gridSave,  \* [Editors -> the save in flight, or NoGridSave]
  selects, gridSaves, roleErrors,
  \* history
  stored,      \* [RoleIds -> the grid that was stored last]
  crossed,   \* roles of which two saves were in flight at a time
  broken     \* roles whose last save failed after it had deleted

roleVars == <<roles, grants, editor, asks, gridSave, selects, gridSaves, roleErrors, stored, crossed, broken>>

Cells == Shown \cup Unshown

\* History: of is the role the grid was loaded for, orderly whether the role was selected when
\* no other request was on its way.
Editor == [listed : SUBSET RoleIds, selected : RoleIds \cup {NoId}, grid : SUBSET Shown,
           loading : BOOLEAN, of : RoleIds \cup {NoId}, orderly : BOOLEAN]
PermissionsAsked == [of : RoleIds, answer : (SUBSET Cells) \cup {Waiting, Failed}]
GridSave == [of : RoleIds, grid : SUBSET Shown, at : {"find", "delete", "insert"}]

ASSUME RolesAssumption ==
  /\ SystemRoles \subseteq RoleIds
  /\ MaxSelects \in Nat /\ MaxGridSaves \in Nat /\ MaxRoleErrors \in Nat
  /\ NoGridSave \notin GridSave

RolesTypeOK ==
  /\ SystemRoles \subseteq roles /\ roles \subseteq RoleIds
  /\ grants \in [RoleIds -> SUBSET Cells] /\ stored \in [RoleIds -> SUBSET Cells]
  /\ \A r \in RoleIds \ roles : grants[r] = {}
  /\ editor \in [Editors -> Editor]
  /\ asks \in [Editors -> SUBSET PermissionsAsked]
  /\ gridSave \in [Editors -> GridSave \cup {NoGridSave}]
  /\ crossed \subseteq RoleIds /\ broken \subseteq RoleIds
  /\ selects \in 0 .. MaxSelects /\ gridSaves \in 0 .. MaxGridSaves /\ roleErrors \in 0 .. MaxRoleErrors

RolesInit ==
  /\ roles = SystemRoles
  /\ grants = [r \in RoleIds |-> IF r \in roles THEN Cells ELSE {}]
  /\ stored = grants
  /\ editor = [p \in Editors |-> [listed |-> roles, selected |-> NoId, grid |-> {},
                                  loading |-> FALSE, of |-> NoId, orderly |-> TRUE]]
  /\ asks = [p \in Editors |-> {}]
  /\ gridSave = [p \in Editors |-> NoGridSave]
  /\ selects = 0 /\ gridSaves = 0 /\ roleErrors = 0
  /\ crossed = {} /\ broken = {}

RoleFails ==
  /\ roleErrors < MaxRoleErrors
  /\ roleErrors' = roleErrors + 1

-----------------------------------------------------------------------------
(* The page loads                                                           *)

\* selectRole asks; what was asked before is not called off.
Select(p, r, page) ==
  /\ selects < MaxSelects /\ selects' = selects + 1
  /\ editor' = [editor EXCEPT ![p] = [page EXCEPT !.selected = r, !.loading = TRUE,
                                                  !.orderly = asks[p] = {}]]
  /\ asks' = [asks EXCEPT ![p] = @ \cup {[of |-> r, answer |-> Waiting]}]

SelectRole(p, r) ==
  /\ r \in editor[p].listed
  /\ Select(p, r, editor[p])
  /\ UNCHANGED <<roles, grants, gridSave, gridSaves, roleErrors, stored, crossed, broken>>

\* getPermissions
AnswerPermissions(p, a) ==
  /\ a \in asks[p] /\ a.answer = Waiting
  /\ \/ /\ asks' = [asks EXCEPT ![p] = (@ \ {a}) \cup
              {[a EXCEPT !.answer = IF a.of \in roles THEN grants[a.of] ELSE Failed]}]
        /\ UNCHANGED roleErrors
     \/ /\ RoleFails
        /\ asks' = [asks EXCEPT ![p] = (@ \ {a}) \cup {[a EXCEPT !.answer = Failed]}]
  /\ UNCHANGED <<roles, grants, editor, gridSave, selects, gridSaves, stored, crossed, broken>>

\* selectRole goes on with the answer, whichever role is selected by then; after an error it
\* shows a grid without any permission.
ShowPermissions(p, a) ==
  /\ a \in asks[p] /\ a.answer # Waiting
  /\ asks' = [asks EXCEPT ![p] = @ \ {a}]
  /\ editor' = [editor EXCEPT ![p] = [@ EXCEPT
       !.grid = IF a.answer = Failed THEN {} ELSE a.answer \cap Shown,
       !.of = IF a.answer = Failed THEN NoId ELSE a.of,
       !.loading = FALSE]]
  /\ UNCHANGED <<roles, grants, gridSave, selects, gridSaves, roleErrors, stored, crossed, broken>>

\* togglePerm: the grid is hidden while it loads.
TogglePerm(p, cell) ==
  /\ editor[p].selected # NoId /\ ~editor[p].loading
  /\ editor' = [editor EXCEPT ![p].grid = IF cell \in @ THEN @ \ {cell} ELSE @ \cup {cell}]
  /\ UNCHANGED <<roles, grants, asks, gridSave, selects, gridSaves, roleErrors, stored, crossed, broken>>

\* createRole inserts a role without permissions, lists it and selects it.
CreateRole(p, r) ==
  /\ r \notin roles
  /\ \A q \in Editors : r \notin editor[q].listed
  /\ roles' = roles \cup {r}
  /\ stored' = [stored EXCEPT ![r] = {}]
  /\ Select(p, r, [editor[p] EXCEPT !.listed = @ \cup {r}])
  /\ UNCHANGED <<grants, gridSave, gridSaves, roleErrors, crossed, broken>>

\* deleteRole, which another client calls: the permissions go with the role.
DeleteRole(r) ==
  /\ r \in roles \ SystemRoles
  /\ roles' = roles \ {r}
  /\ grants' = [grants EXCEPT ![r] = {}]
  /\ UNCHANGED <<editor, asks, gridSave, selects, gridSaves, roleErrors, stored, crossed, broken>>

-----------------------------------------------------------------------------
(* savePermissions and setPermissions                                       *)

SavesOf(r) == {p \in Editors : gridSave[p] # NoGridSave /\ gridSave[p].of = r}

\* The button waits for another save, not for the grid to be loaded.
SavePermissions(p) ==
  LET r == editor[p].selected IN
  /\ r # NoId /\ gridSave[p] = NoGridSave /\ gridSaves < MaxGridSaves
  /\ gridSaves' = gridSaves + 1
  /\ gridSave' = [gridSave EXCEPT ![p] = [of |-> r, grid |-> editor[p].grid, at |-> "find"]]
  /\ crossed' = IF SavesOf(r) = {} THEN crossed ELSE crossed \cup {r}
  /\ UNCHANGED <<roles, grants, editor, asks, selects, roleErrors, stored, broken>>

GridSaveAt(p, at) == gridSave[p] # NoGridSave /\ gridSave[p].at = at

FindRole(p) ==
  /\ GridSaveAt(p, "find")
  /\ gridSave' = [gridSave EXCEPT ![p] =
       IF gridSave[p].of \in roles THEN [@ EXCEPT !.at = "delete"] ELSE NoGridSave]
  /\ UNCHANGED <<roles, grants, editor, asks, selects, gridSaves, roleErrors, stored, crossed, broken>>

\* Defect: only the permissions that are granted again are deleted.
RegrantedDeleted(r, grid) == grants[r] \ grid

LeftAfterDelete(r, grid) == {}

\* An empty grid needs no insert.
DeleteGrants(p) ==
  LET s == gridSave[p] IN
  /\ GridSaveAt(p, "delete")
  /\ grants' = [grants EXCEPT ![s.of] = LeftAfterDelete(s.of, s.grid)]
  /\ IF s.grid = {}
     THEN /\ gridSave' = [gridSave EXCEPT ![p] = NoGridSave]
          /\ stored' = [stored EXCEPT ![s.of] = {}]
          /\ broken' = broken \ {s.of}
     ELSE /\ gridSave' = [gridSave EXCEPT ![p].at = "insert"]
          /\ UNCHANGED <<stored, broken>>
  /\ UNCHANGED <<roles, editor, asks, selects, gridSaves, roleErrors, crossed>>

\* One statement for all rows: the rows are UNIQUE and belong to a role.
InsertGrants(p) ==
  LET s == gridSave[p] IN
  /\ GridSaveAt(p, "insert")
  /\ s.of \in roles /\ grants[s.of] \cap s.grid = {}
  /\ grants' = [grants EXCEPT ![s.of] = @ \cup s.grid]
  /\ stored' = [stored EXCEPT ![s.of] = s.grid]
  /\ broken' = broken \ {s.of}
  /\ gridSave' = [gridSave EXCEPT ![p] = NoGridSave]
  /\ UNCHANGED <<roles, editor, asks, selects, gridSaves, roleErrors, crossed>>

EndsBroken(p) ==
  /\ broken' = IF gridSave[p].at = "insert" THEN broken \cup {gridSave[p].of} ELSE broken
  /\ gridSave' = [gridSave EXCEPT ![p] = NoGridSave]
  /\ UNCHANGED <<roles, grants, editor, asks, selects, gridSaves, stored, crossed>>

GrantsTaken(p) ==
  /\ GridSaveAt(p, "insert")
  /\ gridSave[p].of \notin roles \/ grants[gridSave[p].of] \cap gridSave[p].grid # {}
  /\ EndsBroken(p)
  /\ UNCHANGED roleErrors

GridSaveFails(p) ==
  /\ gridSave[p] # NoGridSave
  /\ RoleFails
  /\ EndsBroken(p)

RolesNext ==
  \/ \E p \in Editors :
       \/ \E r \in RoleIds : SelectRole(p, r) \/ CreateRole(p, r)
       \/ \E a \in asks[p] : AnswerPermissions(p, a) \/ ShowPermissions(p, a)
       \/ \E cell \in Shown : TogglePerm(p, cell)
       \/ SavePermissions(p) \/ FindRole(p) \/ DeleteGrants(p) \/ InsertGrants(p)
       \/ GrantsTaken(p) \/ GridSaveFails(p)
  \/ \E r \in RoleIds : DeleteRole(r)

RolesSpec == RolesInit /\ [][RolesNext]_roleVars

-----------------------------------------------------------------------------
(* Property                                                                 *)

\* A role has the grid that was stored last, whole, or nothing at all between the two steps
\* of a save and after one that failed there: never a part of a grid or what is left of an
\* older one, unless two saves of the role crossed.
StoredWhole(r) ==
  \/ grants[r] = stored[r]
  \/ grants[r] = {} /\ (r \in broken \/ \E p \in SavesOf(r) : GridSaveAt(p, "insert"))

\* The grid on a page was loaded for the role that is selected when nothing is on its way and
\* the role was selected while nothing was.
GridOfRole(p) ==
  asks[p] = {} /\ editor[p].orderly /\ editor[p].of # NoId => editor[p].of = editor[p].selected

GridKept == (\A r \in roles \ crossed : StoredWhole(r)) /\ (\A p \in Editors : GridOfRole(p))

=============================================================================
