--------------------------- MODULE SettlementBook ---------------------------
(***************************************************************************)
(* What settlement promises, whatever fails and whatever overlaps.  Every  *)
(* run has an account that receives only what the run owes.  One settlement*)
(* may close it: it names exactly the users that were paid and lists only  *)
(* tasks whose payments are complete.  A closed account neither owes nor   *)
(* receives any more, and gets at most one dividend draft.                 *)
(***************************************************************************)
CONSTANTS Runs, Tasks, Payments   \* payments are records with a task and a user

VARIABLES
  owed,     \* [Runs -> SUBSET Payments]
  paid,     \* [Runs -> SUBSET Payments]
  closed,   \* settlements: [run, tasks, payees]
  drafts    \* the runs that have a dividend draft

vars == <<owed, paid, closed, drafts>>

Init ==
  /\ owed = [r \in Runs |-> {}]
  /\ paid = [r \in Runs |-> {}]
  /\ closed = {}
  /\ drafts = {}

Open(r) == \A s \in closed : s.run # r

Owe(r) ==
  /\ Open(r)
  /\ owed[r] \subseteq owed'[r]
  /\ owed'[r] \subseteq Payments
  /\ owed' = [owed EXCEPT ![r] = owed'[r]]
  /\ UNCHANGED <<paid, closed, drafts>>

Pay(r) ==
  /\ Open(r)
  /\ \E p \in owed[r] : paid' = [paid EXCEPT ![r] = @ \cup {p}]
  /\ UNCHANGED <<owed, closed, drafts>>

Close(r, listing) ==
  /\ Open(r)
  /\ {p \in owed[r] : p.task \in listing} \subseteq paid[r]
  /\ closed' = closed \cup
       {[run |-> r, tasks |-> listing, payees |-> {p.user : p \in paid[r]}]}
  /\ UNCHANGED <<owed, paid, drafts>>

Draft(r) ==
  /\ ~Open(r)
  /\ r \notin drafts
  /\ drafts' = drafts \cup {r}
  /\ UNCHANGED <<owed, paid, closed>>

Next ==
  \E r \in Runs :
    \/ Owe(r)
    \/ Pay(r)
    \/ \E listing \in SUBSET Tasks : Close(r, listing)
    \/ Draft(r)

Spec == Init /\ [][Next]_vars

=============================================================================
