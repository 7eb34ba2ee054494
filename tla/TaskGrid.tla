------------------------------- MODULE TaskGrid -------------------------------
(***************************************************************************)
(* The metadata of a task, which people edit in the grid of a project page *)
(* while reviews write their scores into it: TaskDataGrid and              *)
(* ProjectDetailPage of the frontend, TaskService.update and               *)
(* updateAiScores of the backend.                                          *)
(*   For one cell that was edited the page sends the whole metadata it     *)
(* holds, and the backend merges that into the row it reads and saves the  *)
(* row.  A settlement by vote pays what the scores in the metadata say.    *)
(*   Whether the table (vxe-table, external) takes the row of an answer, or *)
(* rolls an edit back after an error, is left open.  Status and assignee   *)
(* are in TaskService, titles do not share a value with anything.          *)
(***************************************************************************)
EXTENDS Naturals

CONSTANTS
  Boards,         \* open project pages
  Fields,         \* cells that can be edited: priority, deadline, custom columns
  Score,          \* the cell of aiScores, which cannot
  MaxText,        \* bound: the values typed into a cell, beside none
  MaxTyped,       \* bound: edits
  MaxScores,      \* bound: reviews
  MaxReloads,     \* bound: pages loaded again
  NoTyping, NoReview

ASSUME TaskGridAssumption ==
  Score \notin Fields /\ MaxText \in Nat /\ MaxTyped \in Nat /\ MaxScores \in Nat /\ MaxReloads \in Nat

VARIABLES
  metadata,   \* [Keys -> value]: the task's row; 0 where there is no value
  sheet,      \* [Boards -> metadata as the page holds it]
  typing,     \* [1 .. MaxTyped -> the edit in flight, or NoTyping]
  reviewed,   \* the review that is saving its scores, or NoReview
  typed, scores, reloads,
  \* history
  due,        \* [Keys -> the value that was written last]
  behind,     \* <<board, key>>: the page does not know the value that was written last
  excused     \* keys whose value was overwritten from a page or an entity that was behind

gridVars == <<metadata, sheet, typing, reviewed, typed, scores, reloads, due, behind, excused>>

Keys == Fields \cup {Score}
Metadata == [Keys -> 0 .. MaxText + MaxScores]

\* History: alone, where the page has waited for no other edit since this one was typed.
Typing == [of : Boards, field : Fields, sent : Metadata, row : Metadata, risk : SUBSET Keys,
           at : {"sent", "read", "saved", "refused"}, heard : BOOLEAN, alone : BOOLEAN]
Reviewed == [row : Metadata, risk : SUBSET Keys]

ASSUME NoEditAssumption == NoTyping \notin Typing /\ NoReview \notin Reviewed

TaskGridTypeOK ==
  /\ metadata \in Metadata /\ due \in Metadata /\ sheet \in [Boards -> Metadata]
  /\ typing \in [1 .. MaxTyped -> Typing \cup {NoTyping}]
  /\ reviewed \in Reviewed \cup {NoReview}
  /\ behind \subseteq Boards \X Keys /\ excused \subseteq Keys
  /\ typed \in 0 .. MaxTyped /\ scores \in 0 .. MaxScores /\ reloads \in 0 .. MaxReloads

Blank == [k \in Keys |-> 0]

TaskGridInit ==
  /\ metadata = Blank /\ due = Blank
  /\ sheet = [b \in Boards |-> Blank]
  /\ typing = [e \in 1 .. MaxTyped |-> NoTyping]
  /\ reviewed = NoReview
  /\ typed = 0 /\ scores = 0 /\ reloads = 0
  /\ behind = {} /\ excused = {}

-----------------------------------------------------------------------------
(* Pages                                                                    *)

\* The page loads the tasks; what was on its way does not reach it any more.
ReloadPage(b) ==
  /\ reloads < MaxReloads
  /\ reloads' = reloads + 1
  /\ sheet' = [sheet EXCEPT ![b] = metadata]
  /\ behind' = {x \in behind : x[1] # b}
  /\ typing' = [e \in 1 .. MaxTyped |->
       IF typing[e] = NoTyping \/ typing[e].of # b THEN typing[e]
       ELSE [typing[e] EXCEPT !.heard = FALSE]]
  /\ UNCHANGED <<metadata, reviewed, typed, scores, due, excused>>

\* Values that an edit of f takes along although they are not the last ones.
Stale(b, f) == {k \in Keys \ {f} : <<b, k>> \in behind /\ sheet[b][k] # 0}

\* Edits that the page waits for.
Awaited(b) ==
  {e \in 1 .. MaxTyped : typing[e] # NoTyping /\ typing[e].of = b /\ typing[e].heard}

\* onEditClosed: the row of the table, with the new value in it.
EditCell(b, f, v) ==
  /\ typed < MaxTyped
  /\ typed' = typed + 1
  /\ sheet' = [sheet EXCEPT ![b][f] = v]
  /\ typing' = [e \in 1 .. MaxTyped |->
       IF e = typed'
       THEN [of |-> b, field |-> f, sent |-> sheet'[b], row |-> Blank, risk |-> Stale(b, f),
             at |-> "sent", heard |-> TRUE, alone |-> Awaited(b) = {}]
       ELSE IF e \in Awaited(b) THEN [typing[e] EXCEPT !.alone = FALSE] ELSE typing[e]]
  /\ behind' = behind \cup {<<b, f>>}
  /\ UNCHANGED <<metadata, reviewed, scores, reloads, due, excused>>

-----------------------------------------------------------------------------
(* TaskService.update                                                       *)

\* Defect: the metadata is replaced.
MergedNot(row, sent) == sent

\* A key without a value is not sent.
Merged(row, sent) == [k \in Keys |-> IF sent[k] # 0 THEN sent[k] ELSE row[k]]

ReadRow(e) ==
  /\ typing[e] # NoTyping /\ typing[e].at = "sent"
  /\ typing' = [typing EXCEPT ![e].at = "read", ![e].row = Merged(metadata, typing[e].sent)]
  /\ UNCHANGED <<metadata, sheet, reviewed, typed, scores, reloads, due, behind, excused>>

\* A value that is written from now on comes too late for the entities that were read, and for
\* the edits and pages that hold another one.
Missed(written, e) ==
  [x \in 1 .. MaxTyped |->
    IF typing[x] = NoTyping \/ x = e THEN typing[x]
    ELSE [typing[x] EXCEPT !.risk = @ \cup
           {k \in written : typing[x].at # "sent" \/ typing[x].sent[k] # 0}]]

MissedByReview(written) ==
  IF reviewed = NoReview THEN NoReview ELSE [reviewed EXCEPT !.risk = @ \cup written]

\* The keys that a save of row, meant to write k, changes.
Written(row, k) == {j \in Keys : row[j] # metadata[j]} \cup {k}

\* The page waits for this edit and has waited for no other one since: the cell is as typed.
Alone(e) == typing[e].heard /\ typing[e].alone

SaveCell(e) ==
  LET t == typing[e] IN
  /\ t # NoTyping /\ t.at = "read"
  /\ metadata' = t.row
  /\ due' = [due EXCEPT ![t.field] = t.row[t.field]]
  /\ typing' = [Missed(Written(t.row, t.field), e) EXCEPT ![e].at = "saved", ![e].risk = {}]
  /\ reviewed' = MissedByReview(Written(t.row, t.field))
  /\ behind' = (behind \cup (Boards \X Written(t.row, t.field)))
               \ (IF Alone(e) THEN {<<t.of, t.field>>} ELSE {})
  /\ excused' = (excused \cup t.risk) \ {t.field}
  /\ UNCHANGED <<sheet, typed, scores, reloads>>

RefuseCell(e) ==
  /\ typing[e] # NoTyping /\ typing[e].at \in {"sent", "read"}
  /\ typing' = [typing EXCEPT ![e].at = "refused"]
  /\ UNCHANGED <<metadata, sheet, reviewed, typed, scores, reloads, due, behind, excused>>

\* onTaskUpdated puts the answer into the list of tasks; risk is what was written since.
ShowSaved(e) ==
  LET t == typing[e] IN
  /\ t # NoTyping /\ t.at = "saved"
  /\ \/ UNCHANGED <<sheet, behind>>
     \/ /\ t.heard
        /\ sheet' = [sheet EXCEPT ![t.of] = t.row]
        /\ behind' = {x \in behind : x[1] # t.of} \cup ({t.of} \X t.risk)
  /\ typing' = [typing EXCEPT ![e] = NoTyping]
  /\ UNCHANGED <<metadata, reviewed, typed, scores, reloads, due, excused>>

\* An error: the edit stays in the table, or is rolled back to what it was loaded with.
ShowRefused(e) ==
  LET t == typing[e] IN
  /\ t # NoTyping /\ t.at = "refused"
  /\ \/ UNCHANGED sheet
     \/ t.heard /\ sheet' = [sheet EXCEPT ![t.of][t.field] = 0]
  /\ typing' = [typing EXCEPT ![e] = NoTyping]
  /\ UNCHANGED <<metadata, reviewed, typed, scores, reloads, due, behind, excused>>

-----------------------------------------------------------------------------
(* updateAiScores                                                           *)

ReadReview ==
  /\ reviewed = NoReview /\ scores < MaxScores
  /\ scores' = scores + 1
  /\ reviewed' = [row |-> [metadata EXCEPT ![Score] = MaxText + scores'], risk |-> {}]
  /\ UNCHANGED <<metadata, sheet, typing, typed, reloads, due, behind, excused>>

SaveReview ==
  /\ reviewed # NoReview
  /\ metadata' = reviewed.row
  /\ due' = [due EXCEPT ![Score] = reviewed.row[Score]]
  /\ typing' = Missed(Written(reviewed.row, Score), 0)
  /\ behind' = behind \cup (Boards \X Written(reviewed.row, Score))
  /\ excused' = (excused \cup reviewed.risk) \ {Score}
  /\ reviewed' = NoReview
  /\ UNCHANGED <<sheet, typed, scores, reloads>>

TaskGridNext ==
  \/ \E b \in Boards : ReloadPage(b) \/ \E f \in Fields, v \in 1 .. MaxText : EditCell(b, f, v)
  \/ \E e \in 1 .. MaxTyped :
       ReadRow(e) \/ SaveCell(e) \/ RefuseCell(e) \/ ShowSaved(e) \/ ShowRefused(e)
  \/ ReadReview \/ SaveReview

TaskGridSpec == TaskGridInit /\ [][TaskGridNext]_gridVars

-----------------------------------------------------------------------------

\* Every cell keeps the value that was written to it last, by an edit or by a review, unless it
\* was overwritten by a handler that had read the row before, or by an edit in a page that
\* held another value of that cell (excused).  Scores that a page has never seen are safe from it.
CellsKept == \A k \in Keys \ excused : metadata[k] = due[k]

=============================================================================
