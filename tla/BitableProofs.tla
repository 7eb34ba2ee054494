---------------------------- MODULE BitableProofs ----------------------------
(***************************************************************************)
(* Proofs about the two syncers of Bitable tables (BitableSync and         *)
(* LegacyBitable), whose handlers keep what they read across calls and     *)
(* save it over what others saved meanwhile.                               *)
(*   What makes them safe is what a handler still knows then (KnownInv):   *)
(* versions of a row and the events of its links only grow, and a task     *)
(* keeps its row unless that is noted.                                     *)
(***************************************************************************)
EXTENDS LegacyBitable, FiniteSetTheorems, TLAPS

-----------------------------------------------------------------------------
(* What handlers know.                                                      *)

\* A row, if it is one, is in the table.
There(r) == r \in Rows => row[r] \in TableRow

\* The task has the row, unless some task lost the row it had.
Has(t, r) == moved \/ (task[t] \in Task /\ task[t].row = r)

\* The event that a link is stamped with has been applied to the row, and the task that the
\* deprecated syncer named in it has the row.
Sound(l, r) ==
  l \in Link =>
    /\ l.event # 0 => l.event \in DOMAIN event /\ applied[r] >= event[l.event].version
    /\ l.task \in Tasks => Has(l.task, r)

\* A job for a row knows the event it is for.
JobOK(j) ==
  /\ j.kind = "record" => j.event \in DOMAIN event /\ j.row = event[j.event].row
  /\ j.kind = "full" => j.event = 0 /\ j.row = NoRow

\* A job in hand: what it has read is at least as new as its event, and what it has saved too.
HandlingOK(h) ==
  /\ JobOK(h.job)
  /\ h.job.kind = "record" => h.at \notin {"push", "list", "next"} /\ h.row = h.job.row
  /\ h.job.kind = "full" => h.at \notin {"fetch", "stamp"}
  /\ h.at \notin {"push", "list", "next"} => h.row \in Rows
  /\ h.at \notin {"push", "list"} => \A r \in Rows \cap h.todo : h.rows[r] \in TableRow
  /\ There(h.row) /\ \A r \in Rows : h.rows[r] \in TableRow => There(r)
  /\ h.at \in {"find", "save"} => h.read \in TableRow
  /\ h.job.kind = "record" /\ h.at \in {"find", "save"} =>
       h.read.version >= event[h.job.event].version
  /\ h.at = "save" /\ h.found # NoTask => Has(h.found, h.row)
  /\ h.job.kind = "record" /\ h.at \in {"findlink", "savelink", "stamp"} =>
       applied[h.row] >= event[h.job.event].version
  /\ h.at = "savelink" => Sound(h.was, h.row)

PushOK(q) ==
  /\ q.at = "entity" => task[q.task] \in Task
  /\ q.at \in {"update", "findlink", "savelink"} => q.row \in Rows
  /\ q.at \in {"update", "savelink"} => Sound(q.was, q.row)

EditOK(e) == task[e.task] \in Task /\ (e.was.row \in Rows => There(e.was.row) /\ Has(e.task, e.was.row))

TwinOK(t) ==
  /\ task[t.task] \in Task
  /\ t.at # "binding" => t.binding \in Bindings
  /\ t.at \in {"update", "mark", "link"} => t.row \in Rows
  /\ There(t.row)
  /\ t.at = "link" => Has(t.task, t.row)

PullOK(q) ==
  /\ q.at \notin {"list", "next", "end"} => q.row \in Rows /\ q.rows[q.row] \in TableRow
  /\ q.at # "list" => \A r \in q.todo : q.rows[r] \in TableRow
  /\ \A r \in Rows : q.rows[r] \in TableRow => There(r)
  /\ q.at \in {"find", "save", "savelink"} => Sound(q.was, q.row)
  /\ q.at = "save" /\ q.found # NoTask => Has(q.found, q.row)
  /\ q.at = "savelink" => q.found \in Tasks /\ Has(q.found, q.row)

EventOK(e) ==
  row[event[e].row] \in TableRow /\ row[event[e].row].version >= event[e].version

Settled      == live \in Bindings => binding[live] \in Binding
EventsOK     == \A e \in DOMAIN event : EventOK(e)
TasksOK      == \A t \in Tasks : task[t] \in Task => There(task[t].row)
QueueOK      == \A j \in queue : JobOK(j)
HandlingsOK  == \A w \in Workers : job[w] \in Handling => HandlingOK(job[w])
PushesOK     == \A p \in Callers \cup Workers : push[p] \in Pushing => PushOK(push[p])
LinksOK      == \A b \in Bindings, r \in Rows : Sound(link[<<b, r>>], r)
EditsOK      == \A c \in Callers : edit[c] \in Edit => EditOK(edit[c])
TwinsOK      == \A c \in Callers : twin[c] \in Twin => TwinOK(twin[c])
LegacyPullOK == pull \in Pull => PullOK(pull)

\* The invariant of what handlers know.
KnownInv ==
  /\ TypeOK /\ Settled /\ EventsOK /\ TasksOK /\ QueueOK /\ HandlingsOK /\ PushesOK /\ LinksOK
  /\ EditsOK /\ TwinsOK /\ LegacyPullOK

\* Tasks, rows and events do not vanish, and a row gets newer only.
Grown ==
  /\ \A t \in Tasks : task[t] \in Task => task'[t] \in Task
  /\ \A r \in Rows : row[r] \in TableRow => row'[r] \in TableRow /\ row'[r].version >= row[r].version
  /\ \A r \in Rows : applied'[r] >= applied[r]
  /\ DOMAIN event \subseteq DOMAIN event' /\ \A e \in DOMAIN event : event'[e] = event[e]

\* What Record notes: moved stays, and a task that loses the row it had is noted.
Noted ==
  /\ shared' \subseteq Rows /\ moved' \in BOOLEAN /\ (moved => moved')
  /\ \A t \in Tasks : task[t] \in Task /\ task[t].row \in Rows => moved' \/ task'[t].row = task[t].row

\* A step beside the deprecated syncer.
Aside == UNCHANGED legacyVars /\ Noted

LEMMA StillGrown ==
  ASSUME TypeOK, UNCHANGED <<task, row, applied, event>>
  PROVE  Grown
BY DEF Grown, TypeOK, SyncTypeOK, Version, TableRow

LEMMA ThereKept ==
  ASSUME Grown, NEW r, There(r)
  PROVE  There(r)'
BY DEF Grown, There

LEMMA HasKept ==
  ASSUME Grown, Noted, NEW t \in Tasks, NEW r \in Rows, Has(t, r)
  PROVE  Has(t, r)'
BY DEF Grown, Noted, Has

LEMMA SoundKept ==
  ASSUME TypeOK, TypeOK', Grown, Noted, NEW l, NEW r \in Rows, Sound(l, r)
  PROVE  Sound(l, r)'
<1> SUFFICES ASSUME l \in Link PROVE Sound(l, r)'
  BY DEF Sound
<1>1. l.event # 0 => l.event \in DOMAIN event' /\ applied'[r] >= event'[l.event].version
  BY DEF TypeOK, SyncTypeOK, Grown, Sound, Version, Event
<1>2. ASSUME l.task \in Tasks PROVE Has(l.task, r)'
  <2>1. PICK t \in Tasks : t = l.task
    BY <1>2
  <2>2. Has(t, r)'
    BY <2>1, HasKept DEF Sound
  <2> QED BY <2>1, <2>2
<1> QED BY <1>1, <1>2 DEF Sound

LEMMA SoundStays ==
  ASSUME Noted, UNCHANGED <<task, applied>>, NEW l, NEW r, Sound(l, r),
         DOMAIN event \subseteq DOMAIN event' /\ \A e \in DOMAIN event : event'[e] = event[e]
  PROVE  Sound(l, r)'
BY DEF Noted, Sound, Has

LEMMA JobKept ==
  ASSUME Grown, NEW j, JobOK(j)
  PROVE  JobOK(j)'
BY DEF Grown, JobOK

\* What was listed is still there.
LEMMA ListedKept ==
  ASSUME Grown, NEW rows, \A r \in Rows : rows[r] \in TableRow => There(r)
  PROVE  (\A r \in Rows : rows[r] \in TableRow => There(r))'
BY DEF Grown, There

LEMMA HandlingKept ==
  ASSUME TypeOK, TypeOK', Grown, Noted, NEW h \in Handling, HandlingOK(h)
  PROVE  HandlingOK(h)'
<1>1. JobOK(h.job)'
  BY JobKept DEF HandlingOK
<1>2. h.job.kind = "record" => event'[h.job.event] = event[h.job.event]
  BY DEF HandlingOK, JobOK, Grown
<1>3. /\ h.row \in Rows => applied'[h.row] >= applied[h.row] /\ applied[h.row] \in Nat /\ applied'[h.row] \in Nat
      /\ h.job.kind = "record" => event[h.job.event].version \in Nat
  BY DEF TypeOK, SyncTypeOK, Grown, Version, HandlingOK, JobOK, Event
<1>4. h.at = "savelink" => Sound(h.was, h.row)'
  BY SoundKept DEF HandlingOK
<1>5. There(h.row)' /\ (\A r \in Rows : h.rows[r] \in TableRow => There(r))'
  BY ThereKept, ListedKept DEF HandlingOK
<1>6. ASSUME h.at = "save", h.found # NoTask PROVE Has(h.found, h.row)'
  BY <1>6, HasKept DEF HandlingOK, Handling
<1> QED BY <1>1, <1>2, <1>3, <1>4, <1>5, <1>6 DEF HandlingOK

LEMMA PushKept ==
  ASSUME TypeOK, TypeOK', Grown, Noted, NEW q \in Pushing, PushOK(q)
  PROVE  PushOK(q)'
<1>1. q.at \in {"update", "savelink"} => Sound(q.was, q.row)'
  BY SoundKept DEF PushOK
<1>2. q.task \in Tasks
  BY DEF Pushing
<1> QED BY <1>1, <1>2 DEF PushOK, Grown

LEMMA EditKept ==
  ASSUME Grown, Noted, NEW e \in Edit, EditOK(e)
  PROVE  EditOK(e)'
<1>1. PICK t \in Tasks, r \in Rows \cup {NoRow} : t = e.task /\ r = e.was.row
  BY DEF Edit, Task
<1>2. r \in Rows => There(r)' /\ Has(t, r)'
  BY <1>1, ThereKept, HasKept DEF EditOK
<1>3. task'[t] \in Task
  BY <1>1 DEF EditOK, Grown
<1> QED BY <1>1, <1>2, <1>3 DEF EditOK, There, Has

LEMMA TwinKept ==
  ASSUME Grown, Noted, NEW t \in Twin, TwinOK(t)
  PROVE  TwinOK(t)'
<1>1. t.task \in Tasks
  BY DEF Twin
<1>2. There(t.row)'
  BY ThereKept DEF TwinOK
<1>3. t.at = "link" => Has(t.task, t.row)'
  BY <1>1, HasKept DEF TwinOK
<1> QED BY <1>1, <1>2, <1>3 DEF TwinOK, Grown

LEMMA PullKept ==
  ASSUME TypeOK, TypeOK', Grown, Noted, NEW q \in Pull, PullOK(q)
  PROVE  PullOK(q)'
<1>1. q.at \in {"find", "save", "savelink"} => Sound(q.was, q.row)'
  BY SoundKept DEF PullOK
<1>2. (\A r \in Rows : q.rows[r] \in TableRow => There(r))'
  BY ListedKept DEF PullOK
<1>3. /\ q.at = "save" /\ q.found # NoTask => Has(q.found, q.row)'
      /\ q.at = "savelink" => Has(q.found, q.row)'
  BY HasKept DEF PullOK, Pull
<1> QED BY <1>1, <1>2, <1>3 DEF PullOK

\* What a step has to show of each kind of object: those it leaves alone are kept.
LEMMA HandlingsStay ==
  ASSUME KnownInv, TypeOK', Grown, Noted,
         \A w \in Workers : job'[w] = job[w] \/ job'[w] = NoCall \/ HandlingOK(job[w])'
  PROVE  HandlingsOK'
<1> SUFFICES ASSUME NEW w \in Workers, job'[w] \in Handling
             PROVE  HandlingOK(job[w])'
  BY DEF HandlingsOK
<1>1. CASE job'[w] = job[w]
  <2>1. PICK h \in Handling : h = job[w] /\ h = job'[w]
    BY <1>1
  <2>2. HandlingOK(h)
    BY <2>1 DEF KnownInv, HandlingsOK
  <2>3. HandlingOK(h)'
    BY <2>2, HandlingKept DEF KnownInv
  <2> QED BY <2>1, <2>3 DEF HandlingOK, JobOK, Sound, There, Has
<1> QED BY <1>1, NothingAssumption

LEMMA PushesStay ==
  ASSUME KnownInv, TypeOK', Grown, Noted,
         \A p \in Callers \cup Workers : push'[p] = push[p] \/ push'[p] = NoCall \/ PushOK(push[p])'
  PROVE  PushesOK'
<1> SUFFICES ASSUME NEW p \in Callers \cup Workers, push'[p] \in Pushing
             PROVE  PushOK(push[p])'
  BY DEF PushesOK
<1>1. CASE push'[p] = push[p]
  <2>1. PICK h \in Pushing : h = push[p] /\ h = push'[p]
    BY <1>1
  <2>2. PushOK(h)
    BY <2>1 DEF KnownInv, PushesOK
  <2>3. PushOK(h)'
    BY <2>2, PushKept DEF KnownInv
  <2> QED BY <2>1, <2>3 DEF PushOK, Sound, Has
<1> QED BY <1>1, NothingAssumption

LEMMA TwinsStay ==
  ASSUME KnownInv, TypeOK', Grown, Noted,
         \A c \in Callers : twin'[c] = twin[c] \/ twin'[c] = NoCall \/ TwinOK(twin[c])'
  PROVE  TwinsOK'
<1> SUFFICES ASSUME NEW c \in Callers, twin'[c] \in Twin
             PROVE  TwinOK(twin[c])'
  BY DEF TwinsOK
<1>1. CASE twin'[c] = twin[c]
  <2>1. PICK h \in Twin : h = twin[c] /\ h = twin'[c]
    BY <1>1
  <2>2. TwinOK(h)
    BY <2>1 DEF KnownInv, TwinsOK
  <2>3. TwinOK(h)'
    BY <2>2, TwinKept DEF KnownInv
  <2> QED BY <2>1, <2>3 DEF TwinOK, There, Has
<1> QED BY <1>1, NoLegacyAssumption

LEMMA LegacyPullStays ==
  ASSUME KnownInv, TypeOK', Grown, Noted, pull' = pull \/ pull' = NoCall \/ PullOK(pull)'
  PROVE  LegacyPullOK'
<1> SUFFICES ASSUME pull' \in Pull
             PROVE  PullOK(pull)'
  BY DEF LegacyPullOK
<1>1. CASE pull' = pull
  <2>1. PICK h \in Pull : h = pull /\ h = pull'
    BY <1>1
  <2>2. PullOK(h)
    BY <2>1 DEF KnownInv, LegacyPullOK
  <2>3. PullOK(h)'
    BY <2>2, PullKept DEF KnownInv
  <2> QED BY <2>1, <2>3 DEF PullOK, Sound, There, Has
<1> QED BY <1>1, NoLegacyAssumption

LEMMA LinksStay ==
  ASSUME KnownInv, TypeOK', Grown, Noted,
         \A b \in Bindings, r \in Rows :
           link'[<<b, r>>] = link[<<b, r>>] \/ link'[<<b, r>>] = NoLink \/ Sound(link[<<b, r>>], r)'
  PROVE  LinksOK'
<1> SUFFICES ASSUME NEW b \in Bindings, NEW r \in Rows
             PROVE  Sound(link[<<b, r>>], r)'
  BY DEF LinksOK
<1>1. CASE link'[<<b, r>>] = link[<<b, r>>]
  <2>1. PICK l : l = link[<<b, r>>] /\ l = link'[<<b, r>>]
    BY <1>1
  <2>2. Sound(l, r)
    BY <2>1 DEF KnownInv, LinksOK
  <2>3. Sound(l, r)'
    BY <2>2, SoundKept DEF KnownInv
  <2> QED BY <2>1, <2>3 DEF Sound, Has
<1>2. CASE link'[<<b, r>>] = NoLink
  BY <1>2, NothingAssumption DEF Sound
<1> QED BY <1>1, <1>2

LEMMA QueueStays ==
  ASSUME KnownInv, Grown, \A j \in queue' : j \in queue \/ JobOK(j)'
  PROVE  QueueOK'
<1> SUFFICES ASSUME NEW j \in queue'
             PROVE  JobOK(j)'
  BY DEF QueueOK
<1>1. CASE j \in queue
  BY <1>1, JobKept DEF KnownInv, QueueOK
<1> QED BY <1>1

LEMMA EventsStay ==
  ASSUME KnownInv, TypeOK', Grown, event' = event
  PROVE  EventsOK'
<1> SUFFICES ASSUME NEW e \in DOMAIN event
             PROVE  EventOK(e)'
  BY DEF EventsOK
<1>1. event[e] \in Event /\ EventOK(e)
  BY DEF KnownInv, TypeOK, SyncTypeOK, EventsOK
<1>2. event[e].row \in Rows /\ event[e].version \in Nat
  BY <1>1 DEF Event, Version
<1>3. /\ row'[event[e].row] \in TableRow /\ row[event[e].row] \in TableRow
      /\ row'[event[e].row].version >= row[event[e].row].version
  BY <1>1, <1>2 DEF Grown, EventOK
<1>4. row[event[e].row].version \in Nat /\ row'[event[e].row].version \in Nat
  BY <1>3 DEF TableRow, Version
<1> QED BY <1>1, <1>2, <1>3, <1>4 DEF EventOK

LEMMA SettledStays ==
  ASSUME KnownInv, UNCHANGED <<binding, live>>
  PROVE  Settled'
BY DEF KnownInv, Settled

LEMMA TasksStay ==
  ASSUME KnownInv, Grown, \A t \in Tasks : task'[t] = task[t] \/ There(task[t].row)'
  PROVE  TasksOK'
<1> SUFFICES ASSUME NEW t \in Tasks, task'[t] \in Task
             PROVE  There(task[t].row)'
  BY DEF TasksOK
<1>1. CASE task'[t] = task[t]
  <2>1. PICK r : r = task[t].row /\ r = task'[t].row
    BY <1>1
  <2>2. There(r)'
    BY <1>1, <2>1, ThereKept DEF KnownInv, TasksOK
  <2> QED BY <2>1, <2>2 DEF There
<1> QED BY <1>1

LEMMA EditsStay ==
  ASSUME KnownInv, TypeOK', Grown, Noted,
         \A c \in Callers : edit'[c] = edit[c] \/ edit'[c] = NoCall \/ EditOK(edit[c])'
  PROVE  EditsOK'
<1> SUFFICES ASSUME NEW c \in Callers, edit'[c] \in Edit
             PROVE  EditOK(edit[c])'
  BY DEF EditsOK
<1>1. CASE edit'[c] = edit[c]
  <2>1. PICK e \in Edit : e = edit[c] /\ e = edit'[c]
    BY <1>1
  <2>2. EditOK(e)
    BY <2>1 DEF KnownInv, EditsOK
  <2>3. EditOK(e)'
    BY <2>2, EditKept
  <2> QED BY <2>1, <2>3 DEF EditOK, There, Has
<1> QED BY <1>1, NoLegacyAssumption

\* The table is written: rows get a newer version, which an event may announce.
LEMMA WroteKnown ==
  ASSUME KnownInv, UNCHANGED <<task, applied>>, NEW r \in Rows, NEW text \in Texts,
         Wrote(r, text), Announce(r) \/ UNCHANGED <<event, owed>>
  PROVE  /\ row' \in [Rows -> TableRow \cup {NoRow}]
         /\ DOMAIN event' \in {1 .. n : n \in 0 .. MaxEvents} /\ \A e \in DOMAIN event' : event'[e] \in Event
         /\ owed' \in [1 .. MaxEvents -> 0 .. 2]
         /\ Grown /\ EventsOK' /\ row'[r] \in TableRow
<1> USE DEF KnownInv, TypeOK, SyncTypeOK
<1>1. PICK v \in Nat \ {0} : v = NextVersion(r)
  BY NothingAssumption DEF NextVersion, TableRow, Version
<1>2. row[r] \in TableRow => v > row[r].version /\ row[r].version \in Nat
  BY <1>1, NothingAssumption DEF NextVersion, TableRow, Version
<1>3. PICK new \in TableRow : new = [text |-> text, version |-> v]
  BY <1>1 DEF TableRow, Version
<1>4. row' = [row EXCEPT ![r] = new]
  BY <1>1, <1>3 DEF Wrote, Update
<1>5. row'[r] = new /\ \A x \in Rows : x # r => row'[x] = row[x]
  BY <1>4
<1>6. row' \in [Rows -> TableRow \cup {NoRow}]
  BY <1>4
<1>7. \A x \in Rows : row[x] \in TableRow => row'[x] \in TableRow /\ row'[x].version >= row[x].version
  <2>1. \A y \in TableRow : y.version \in Nat
    BY DEF TableRow, Version
  <2>2. new.version = v
    BY <1>3
  <2> QED BY <1>1, <1>2, <1>5, <2>1, <2>2
<1>8. PICK n \in 0 .. MaxEvents : DOMAIN event = 1 .. n
  OBVIOUS
<1>9. n \in Nat /\ MaxEvents \in Nat /\ Cardinality(DOMAIN event) = n
  BY <1>8, FS_Interval, SyncAssumption
<1>10. ASSUME Announce(r)
       PROVE  /\ n + 1 \in 0 .. MaxEvents /\ DOMAIN event' = 1 .. n + 1
              /\ owed' \in [1 .. MaxEvents -> 0 .. 2]
              /\ event'[n + 1] = [row |-> r, version |-> v]
              /\ \A x \in 1 .. n : event'[x] = event[x]
  <2>1. PICK e : e = Cardinality(DOMAIN event) + 1
    OBVIOUS
  <2>2. e = n + 1 /\ e \in 0 .. MaxEvents /\ e \in 1 .. MaxEvents
    BY <1>9, <1>10, <2>1 DEF Announce
  <2>3. event' = [x \in 1 .. e |-> IF x = e THEN [row |-> r, version |-> v] ELSE event[x]]
    BY <1>1, <1>10, <2>1 DEF Announce
  <2>4. \E m \in 1 .. 2 : owed' = [owed EXCEPT ![e] = m]
    <3>1. \E m \in 1 .. 2 : owed' = Update(owed, Cardinality(DOMAIN event) + 1, m)
      BY <1>10, Zenon DEF Announce
    <3> QED BY <2>1, <3>1 DEF Update
  <2>5. owed' \in [1 .. MaxEvents -> 0 .. 2]
    BY <2>2, <2>4
  <2> QED BY <1>9, <2>2, <2>3, <2>5
<1>11. /\ DOMAIN event' \in {1 .. m : m \in 0 .. MaxEvents} /\ \A e \in DOMAIN event' : event'[e] \in Event
       /\ owed' \in [1 .. MaxEvents -> 0 .. 2]
       /\ DOMAIN event \subseteq DOMAIN event' /\ \A e \in DOMAIN event : event'[e] = event[e]
       /\ \A e \in DOMAIN event' : e \in DOMAIN event \/ event'[e] = [row |-> r, version |-> v]
  <2>1. CASE UNCHANGED <<event, owed>>
    BY <2>1
  <2>2. CASE Announce(r)
    <3>1. [row |-> r, version |-> v] \in Event
      BY <1>1 DEF Event, Version
    <3>2. \A e \in 1 .. n + 1 : e \in 1 .. n \/ e = n + 1
      BY <1>9
    <3>3. 1 .. n \subseteq 1 .. n + 1
      BY <1>9
    <3> QED BY <1>8, <1>10, <2>2, <3>1, <3>2, <3>3
  <2> QED BY <2>1, <2>2
<1>12. Grown
  BY <1>7, <1>11 DEF Grown, Version
<1>13. EventsOK'
  <2> SUFFICES ASSUME NEW e \in DOMAIN event'
               PROVE  EventOK(e)'
    BY DEF EventsOK
  <2>1. CASE e \in DOMAIN event
    <3>1. event[e] \in Event /\ EventOK(e) /\ event'[e] = event[e]
      BY <1>11, <2>1 DEF EventsOK
    <3>2. event[e].row \in Rows /\ event[e].version \in Nat
      BY <3>1 DEF Event, Version
    <3>3. /\ row[event[e].row] \in TableRow /\ row'[event[e].row] \in TableRow
          /\ row'[event[e].row].version >= row[event[e].row].version
      BY <1>7, <3>1, <3>2 DEF EventOK
    <3>4. row[event[e].row].version \in Nat /\ row'[event[e].row].version \in Nat
      BY <3>3 DEF TableRow, Version
    <3> QED BY <3>1, <3>2, <3>3, <3>4 DEF EventOK
  <2>2. CASE event'[e] = [row |-> r, version |-> v]
    <3>1. event'[e].row = r /\ event'[e].version = v
      BY <2>2
    <3>2. row'[r] \in TableRow /\ row'[r].version = v
      BY <1>3, <1>5
    <3> QED BY <1>1, <3>1, <3>2 DEF EventOK
  <2> QED BY <1>11, <2>1, <2>2
<1> QED BY <1>3, <1>5, <1>6, <1>11, <1>12, <1>13

\* What the steps of a push leave alone.
LEMMA OnlyPushKnown ==
  ASSUME KnownInv, Aside, OnlyPush, TypeOK', Grown, EventsOK',
         \A p \in Callers \cup Workers : push'[p] = push[p] \/ push'[p] = NoCall \/ PushOK(push[p])',
         \A b \in Bindings, r \in Rows :
           link'[<<b, r>>] = link[<<b, r>>] \/ link'[<<b, r>>] = NoLink \/ Sound(link[<<b, r>>], r)'
  PROVE  KnownInv'
<1>1. /\ UNCHANGED <<binding, live>> /\ UNCHANGED <<task, queue, job, applied>>
      /\ UNCHANGED <<edit, twin, pull>> /\ Noted
  BY DEF OnlyPush, bindingVars, queueVars, Aside, legacyVars
<1>2. Settled' /\ QueueOK' /\ TasksOK'
  BY <1>1, SettledStays, QueueStays, TasksStay
<1>3. HandlingsOK' /\ EditsOK' /\ TwinsOK' /\ LegacyPullOK'
  BY <1>1, HandlingsStay, EditsStay, TwinsStay, LegacyPullStays
<1>4. PushesOK' /\ LinksOK'
  BY <1>1, PushesStay, LinksStay
<1> QED BY <1>2, <1>3, <1>4 DEF KnownInv

\* A push that is replaced by one that knows as much.
LEMMA PushReplaced ==
  ASSUME KnownInv, Aside, OnlyPush, UNCHANGED <<tableVars, link, ours, disturbed>>,
         faults' \in 0 .. MaxFaults, NEW p \in Callers \cup Workers, NEW q \in Pushing \cup {NoCall},
         push' = Update(push, p, q), q \in Pushing => PushOK(q)'
  PROVE  KnownInv'
<1> USE DEF KnownInv, TypeOK, SyncTypeOK
<1>1. push' \in [Callers \cup Workers -> Pushing \cup {NoCall}]
  BY DEF Update
<1>2. TypeOK'
  BY <1>1 DEF OnlyPush, bindingVars, queueVars, tableVars, Aside, Noted, legacyVars
<1>3. UNCHANGED <<task, row, applied, event>>
  BY DEF OnlyPush, tableVars
<1>4. Grown /\ EventsOK'
  BY <1>2, <1>3, StillGrown, EventsStay
<1>5. push'[p] = q /\ \A x \in Callers \cup Workers : x # p => push'[x] = push[x]
  BY DEF Update
<1>6. \A x \in Callers \cup Workers : push'[x] = push[x] \/ push'[x] = NoCall \/ PushOK(push[x])'
  BY <1>5 DEF PushOK, Sound
<1> QED BY <1>2, <1>4, <1>6, OnlyPushKnown

LEMMA PushIs ==
  ASSUME KnownInv, NEW p \in Callers \cup Workers
  PROVE  push[p] # NoCall <=> push[p] \in Pushing
BY NothingAssumption DEF KnownInv, TypeOK, SyncTypeOK

LEMMA HeldPush ==
  ASSUME KnownInv, NEW p \in Callers \cup Workers, push[p] # NoCall
  PROVE  push[p] \in Pushing /\ PushOK(push[p])
BY PushIs DEF KnownInv, PushesOK

LEMMA RetriedPush ==
  ASSUME NEW q \in Pushing
  PROVE  /\ Retried(q) \in Pushing \cup {NoCall}
         /\ Retried(q) \in Pushing => Retried(q).at = "find"
<1>1. CASE q.tries + 1 = Retries
  BY <1>1, NothingAssumption DEF Retried
<1>2. CASE q.tries + 1 # Retries
  <2>1. PICK n \in 0 .. Retries - 1 : n = q.tries + 1
    BY <1>2, SyncAssumption DEF Pushing
  <2>2. PICK z : z = [q EXCEPT !.tries = n, !.at = "find", !.row = NoRow, !.was = NoLink]
    OBVIOUS
  <2>3. z \in Pushing /\ z.at = "find"
    BY <2>1, <2>2 DEF Pushing
  <2> QED BY <1>2, <2>1, <2>2, <2>3 DEF Retried
<1> QED BY <1>1, <1>2

LEMMA FaultType ==
  ASSUME TypeOK, Fault
  PROVE  faults' \in 0 .. MaxFaults
BY SyncAssumption DEF TypeOK, SyncTypeOK, Fault

LEMMA PushEntityKnown ==
  ASSUME KnownInv, Aside, NEW c \in Callers, PushEntity(c)
  PROVE  KnownInv'
<1>1. PICK q \in Pushing : q = push[c] /\ PushOK(q) /\ q.at = "entity"
  BY HeldPush DEF PushEntity, PushAt
<1>2. c \in Callers \cup Workers
  OBVIOUS
<1>3. CASE push' = Update(push, c, NoCall)
  BY <1>2, <1>3, PushReplaced, NothingAssumption DEF PushEntity, KnownInv, TypeOK, SyncTypeOK
<1>4. CASE live # NoBinding /\ push' = Update(push, c, Pushes(live, q.task, task[q.task].text))
  <2>1. live \in Bindings /\ task[q.task].text \in Texts /\ q.task \in Tasks
    BY <1>1, <1>4 DEF KnownInv, TypeOK, SyncTypeOK, PushOK, Task, Pushing
  <2>2. PICK text \in Texts : text = task[q.task].text
    BY <2>1
  <2>3. PICK z : z = Pushes(live, q.task, text)
    OBVIOUS
  <2>4. z \in Pushing /\ z.at = "find"
    BY <2>1, <2>3, SyncAssumption DEF Pushes, Pushing
  <2>5. PushOK(z)'
    BY <2>4 DEF PushOK
  <2>6. faults' \in 0 .. MaxFaults
    BY DEF PushEntity, KnownInv, TypeOK, SyncTypeOK
  <2> QED BY <1>2, <1>4, <2>2, <2>3, <2>4, <2>5, <2>6, PushReplaced DEF PushEntity
<1> QED BY <1>1, <1>3, <1>4 DEF PushEntity

LEMMA FindPushedKnown ==
  ASSUME KnownInv, Aside, NEW p \in Callers \cup Workers, FindPushed(p)
  PROVE  KnownInv'
<1>1. PICK q \in Pushing : q = push[p] /\ PushOK(q) /\ q.at = "find"
  BY HeldPush DEF FindPushed, PushAt
<1>2. faults' \in 0 .. MaxFaults
  BY DEF FindPushed, KnownInv, TypeOK, SyncTypeOK
<1>3. CASE push' = [push EXCEPT ![p].at = "create"]
  <2>1. PICK z : z = [q EXCEPT !.at = "create"]
    OBVIOUS
  <2>2. z \in Pushing /\ z.at = "create"
    BY <2>1 DEF Pushing
  <2>3. push' = Update(push, p, z)
    BY <1>1, <1>3, <2>1 DEF Update
  <2>4. PushOK(z)'
    BY <2>2 DEF PushOK
  <2> QED BY <1>2, <2>2, <2>3, <2>4, PushReplaced DEF FindPushed
<1>4. ASSUME NEW r \in LinkedRows(q.binding, q.task),
             push' = [push EXCEPT ![p].at = "update", ![p].row = r, ![p].was = link[<<q.binding, r>>]]
      PROVE  KnownInv'
  <2>1. r \in Rows /\ q.binding \in Bindings
    BY <1>1 DEF LinkedRows, Pushing
  <2>2. PICK l \in Link \cup {NoLink} : l = link[<<q.binding, r>>] /\ Sound(l, r)
    BY <2>1 DEF KnownInv, TypeOK, SyncTypeOK, LinksOK
  <2>3. PICK z : z = [q EXCEPT !.at = "update", !.row = r, !.was = l]
    OBVIOUS
  <2>4. z \in Pushing /\ z.at = "update" /\ z.row = r /\ z.was = l
    BY <2>1, <2>3 DEF Pushing
  <2>5. push' = Update(push, p, z)
    BY <1>1, <1>4, <2>2, <2>3 DEF Update
  <2>6. Sound(l, r)'
    BY <2>2, SoundStays DEF Aside, FindPushed, OnlyPush, tableVars
  <2>7. PushOK(z)'
    BY <2>1, <2>4, <2>6 DEF PushOK
  <2> QED BY <1>2, <2>4, <2>5, <2>7, PushReplaced DEF FindPushed
<1> QED BY <1>1, <1>3, <1>4 DEF FindPushed

LEMMA FindPushLinkKnown ==
  ASSUME KnownInv, Aside, NEW p \in Callers \cup Workers, FindPushLink(p)
  PROVE  KnownInv'
<1>1. PICK q \in Pushing : q = push[p] /\ PushOK(q) /\ q.at = "findlink"
  BY HeldPush DEF FindPushLink, PushAt
<1>2. q.row \in Rows /\ q.binding \in Bindings
  BY <1>1 DEF PushOK, Pushing
<1>3. PICK l \in Link \cup {NoLink} : l = link[<<q.binding, q.row>>] /\ Sound(l, q.row)
  BY <1>2 DEF KnownInv, TypeOK, SyncTypeOK, LinksOK
<1>4. PICK z : z = [q EXCEPT !.at = "savelink", !.was = l]
  OBVIOUS
<1>5. z \in Pushing /\ z.at = "savelink" /\ z.row = q.row /\ z.was = l
  BY <1>4 DEF Pushing
<1>6. push' = Update(push, p, z)
  BY <1>1, <1>3, <1>4 DEF Update, FindPushLink
<1>7. Sound(l, q.row)'
  BY <1>3, SoundStays DEF Aside, FindPushLink, OnlyPush, tableVars
<1>8. PushOK(z)'
  BY <1>2, <1>5, <1>7 DEF PushOK
<1>9. faults' \in 0 .. MaxFaults
  BY DEF FindPushLink, KnownInv, TypeOK, SyncTypeOK
<1> QED BY <1>5, <1>6, <1>8, <1>9, PushReplaced DEF FindPushLink

LEMMA FailPushKnown ==
  ASSUME KnownInv, Aside, NEW p \in Callers \cup Workers, FailPush(p)
  PROVE  KnownInv'
<1>1. PICK q \in Pushing : q = push[p]
  BY HeldPush DEF FailPush
<1>2. PICK z \in Pushing \cup {NoCall} : z = Retried(q) /\ (z \in Pushing => z.at = "find")
  BY RetriedPush
<1>3. z \in Pushing => PushOK(z)'
  BY <1>2 DEF PushOK
<1>4. faults' \in 0 .. MaxFaults
  BY FaultType DEF FailPush, KnownInv, TypeOK, SyncTypeOK
<1> QED BY <1>1, <1>2, <1>3, <1>4, PushReplaced DEF FailPush

\* A push that writes a row goes on with that row, or starts over.
LEMMA RowPushed ==
  ASSUME KnownInv, Aside, OnlyPush, UNCHANGED link, faults' \in 0 .. MaxFaults,
         NEW p \in Callers \cup Workers, NEW q \in Pushing \cup {NoCall}, push' = Update(push, p, q),
         NEW r \in Rows, NEW text \in Texts, WriteRow(r, text), Grown => (q \in Pushing => PushOK(q)')
  PROVE  KnownInv'
<1> USE DEF KnownInv, TypeOK, SyncTypeOK
<1>1. push' \in [Callers \cup Workers -> Pushing \cup {NoCall}]
  BY DEF Update
<1>2. UNCHANGED <<task, applied>>
  BY DEF OnlyPush
<1>3. /\ row' \in [Rows -> TableRow \cup {NoRow}]
      /\ DOMAIN event' \in {1 .. n : n \in 0 .. MaxEvents} /\ \A e \in DOMAIN event' : event'[e] \in Event
      /\ owed' \in [1 .. MaxEvents -> 0 .. 2]
      /\ Grown /\ EventsOK'
  BY <1>2, WroteKnown DEF WriteRow
<1>4. ours' \subseteq Rows /\ disturbed' \in BOOLEAN
  BY DEF WriteRow
<1>5. TypeOK'
  BY <1>1, <1>3, <1>4 DEF OnlyPush, bindingVars, queueVars, Aside, Noted, legacyVars
<1>6. push'[p] = q /\ \A x \in Callers \cup Workers : x # p => push'[x] = push[x]
  BY DEF Update
<1>7. \A x \in Callers \cup Workers : push'[x] = push[x] \/ push'[x] = NoCall \/ PushOK(push[x])'
  BY <1>3, <1>6 DEF PushOK, Sound
<1> QED BY <1>3, <1>5, <1>7, OnlyPushKnown

LEMMA UpdateRowKnown ==
  ASSUME KnownInv, Aside, NEW p \in Callers \cup Workers, UpdateRow(p)
  PROVE  KnownInv'
<1>1. PICK q \in Pushing : q = push[p] /\ PushOK(q) /\ q.at = "update"
  BY HeldPush DEF UpdateRow, PushAt
<1>2. q.row \in Rows /\ q.text \in Texts
  BY <1>1 DEF PushOK, Pushing
<1>3. PICK z : z = [q EXCEPT !.at = "savelink"]
  OBVIOUS
<1>4. z \in Pushing /\ z.at = "savelink" /\ z.row = q.row /\ z.was = q.was
  BY <1>3 DEF Pushing
<1>5. push' = Update(push, p, z)
  BY <1>1, <1>3 DEF Update, UpdateRow
<1>6. ASSUME Grown PROVE PushOK(z)'
  <2>1. /\ DOMAIN event \subseteq DOMAIN event' /\ \A e \in DOMAIN event : event'[e] = event[e]
        /\ UNCHANGED <<task, applied>>
    BY <1>6 DEF Grown, UpdateRow, OnlyPush
  <2>2. Sound(q.was, q.row)'
    BY <1>1, <2>1, SoundStays DEF PushOK, Aside
  <2> QED BY <1>2, <1>4, <2>2 DEF PushOK, Sound
<1>7. faults' \in 0 .. MaxFaults
  BY DEF UpdateRow, KnownInv, TypeOK, SyncTypeOK
<1>8. WriteRow(q.row, q.text) /\ OnlyPush /\ UNCHANGED link
  BY <1>1 DEF UpdateRow
<1>9. PICK r \in Rows, text \in Texts : r = q.row /\ text = q.text
  BY <1>2
<1> QED BY <1>4, <1>5, <1>6, <1>7, <1>8, <1>9, RowPushed

LEMMA CreateRowKnown ==
  ASSUME KnownInv, Aside, NEW p \in Callers \cup Workers, NEW r \in Rows, CreateRow(p, r)
  PROVE  KnownInv'
<1>1. PICK q \in Pushing : q = push[p] /\ PushOK(q) /\ q.at = "create"
  BY HeldPush DEF CreateRow, PushAt
<1>2. PICK text \in Texts : text = q.text
  BY DEF Pushing
<1>3. CASE push' = [push EXCEPT ![p].at = "findlink", ![p].row = r] /\ faults' = faults
  <2>1. PICK z : z = [q EXCEPT !.at = "findlink", !.row = r]
    OBVIOUS
  <2>2. z \in Pushing /\ z.at = "findlink" /\ z.row = r
    BY <2>1 DEF Pushing
  <2>3. push' = Update(push, p, z)
    BY <1>1, <1>3, <2>1 DEF Update
  <2>4. PushOK(z)'
    BY <2>2 DEF PushOK
  <2>5. faults' \in 0 .. MaxFaults
    BY <1>3 DEF KnownInv, TypeOK, SyncTypeOK
  <2>6. WriteRow(r, text) /\ OnlyPush /\ UNCHANGED link
    BY <1>1, <1>2 DEF CreateRow
  <2> QED BY <2>2, <2>3, <2>4, <2>5, <2>6, RowPushed
<1>4. CASE Fault /\ push' = Update(push, p, Retried(q))
  <2>1. PICK z \in Pushing \cup {NoCall} : z = Retried(q) /\ (z \in Pushing => z.at = "find")
    BY RetriedPush
  <2>2. z \in Pushing => PushOK(z)'
    BY <2>1 DEF PushOK
  <2>3. faults' \in 0 .. MaxFaults
    BY <1>4, FaultType DEF KnownInv
  <2>4. WriteRow(r, text) /\ OnlyPush /\ UNCHANGED link
    BY <1>1, <1>2 DEF CreateRow
  <2> QED BY <1>4, <2>1, <2>2, <2>3, <2>4, RowPushed
<1> QED BY <1>1, <1>3, <1>4 DEF CreateRow

LEMMA BaseIs ==
  ASSUME NEW was \in Link \cup {NoLink}, NEW r
  PROVE  Base(was) \in Link /\ (Sound(was, r) => Sound(Base(was), r))
<1>1. EmptyLink \in Link /\ EmptyLink.event = 0 /\ EmptyLink.task \notin Tasks
  BY SyncAssumption DEF EmptyLink, Link
<1> QED BY <1>1, NothingAssumption DEF Base, Sound

LEMMA SavePushLinkKnown ==
  ASSUME KnownInv, Aside, NEW p \in Callers \cup Workers, SavePushLink(p)
  PROVE  KnownInv'
<1> USE DEF KnownInv, TypeOK, SyncTypeOK
<1>1. PICK q \in Pushing : q = push[p] /\ PushOK(q) /\ q.at = "savelink"
  BY HeldPush DEF SavePushLink, PushAt
<1>2. q.row \in Rows /\ q.binding \in Bindings /\ q.task \in Tasks /\ Sound(q.was, q.row)
  BY <1>1 DEF PushOK, Pushing
<1>3. PICK base \in Link : base = Base(q.was) /\ Sound(base, q.row)
  BY <1>2, BaseIs DEF Pushing
<1>5. PICK l : l = [base EXCEPT !.entity = q.task]
  OBVIOUS
<1>6. l \in Link /\ l.event = base.event /\ l.task = base.task
  BY <1>2, <1>5 DEF Link
<1>7. link' = [link EXCEPT ![<<q.binding, q.row>>] = l]
  BY <1>1, <1>3, <1>5 DEF SavePushLink
<1>8. push' \in [Callers \cup Workers -> Pushing \cup {NoCall}]
  BY DEF SavePushLink, Update
<1>17. link' \in [Bindings \X Rows -> Link \cup {NoLink}]
  BY <1>2, <1>6, <1>7
<1>9. TypeOK'
  BY <1>8, <1>17 DEF SavePushLink, OnlyPush, bindingVars, queueVars, tableVars, Aside, Noted, legacyVars
<1>10. UNCHANGED <<task, row, applied, event>>
  BY DEF SavePushLink, OnlyPush, tableVars
<1>11. Grown /\ EventsOK'
  BY <1>9, <1>10, StillGrown, EventsStay
<1>12. Sound(l, q.row)'
  <2>1. Sound(l, q.row)
    BY <1>3, <1>6 DEF Sound
  <2> QED BY <1>10, <2>1, SoundStays DEF Aside
<1>13. \A b \in Bindings, r \in Rows :
         link'[<<b, r>>] = link[<<b, r>>] \/ (link'[<<b, r>>] = l /\ r = q.row)
  BY <1>2, <1>7
<1>14. \A b \in Bindings, r \in Rows :
         link'[<<b, r>>] = link[<<b, r>>] \/ link'[<<b, r>>] = NoLink \/ Sound(link[<<b, r>>], r)'
  BY <1>12, <1>13 DEF Sound
<1>15. \A x \in Callers \cup Workers : push'[x] = push[x] \/ push'[x] = NoCall \/ PushOK(push[x])'
  BY DEF SavePushLink, Update
<1>16. OnlyPush
  BY DEF SavePushLink
<1> QED BY <1>9, <1>11, <1>14, <1>15, <1>16, OnlyPushKnown

LEMMA PushStepKnown ==
  ASSUME KnownInv, Aside, NEW p \in Callers \cup Workers, PushStep(p)
  PROVE  KnownInv'
BY FindPushedKnown, UpdateRowKnown, FindPushLinkKnown, SavePushLinkKnown, FailPushKnown,
   CreateRowKnown DEF PushStep

\* What the steps of a job leave alone.
LEMMA OnlyJobKnown ==
  ASSUME KnownInv, Aside, OnlyJob, TypeOK', Grown,
         \A t \in Tasks : task'[t] = task[t] \/ There(task[t].row)',
         \A w \in Workers : job'[w] = job[w] \/ job'[w] = NoCall \/ HandlingOK(job[w])',
         \A p \in Callers \cup Workers : push'[p] = push[p] \/ push'[p] = NoCall \/ PushOK(push[p])',
         \A b \in Bindings, r \in Rows :
           link'[<<b, r>>] = link[<<b, r>>] \/ link'[<<b, r>>] = NoLink \/ Sound(link[<<b, r>>], r)',
         \A j \in queue' : j \in queue \/ JobOK(j)'
  PROVE  KnownInv'
<1>1. UNCHANGED <<binding, live, event, edit, twin, pull>> /\ Noted
  BY DEF OnlyJob, bindingVars, tableVars, Aside, legacyVars
<1>2. Settled' /\ EventsOK' /\ TasksOK' /\ QueueOK'
  BY <1>1, SettledStays, EventsStay, TasksStay, QueueStays
<1>3. HandlingsOK' /\ EditsOK' /\ TwinsOK' /\ LegacyPullOK'
  BY <1>1, HandlingsStay, EditsStay, TwinsStay, LegacyPullStays
<1>4. PushesOK' /\ LinksOK'
  BY <1>1, PushesStay, LinksStay
<1> QED BY <1>2, <1>3, <1>4 DEF KnownInv

LEMMA HandlingIs ==
  ASSUME KnownInv, NEW w \in Workers, job[w] # NoCall
  PROVE  job[w] \in Handling /\ HandlingOK(job[w])
BY DEF KnownInv, HandlingsOK, TypeOK, SyncTypeOK

\* What a job in hand knows, where no task, row or event changes.
LEMMA HandlingStays ==
  ASSUME Noted, UNCHANGED <<task, row, applied, event>>, NEW h, HandlingOK(h)
  PROVE  HandlingOK(h)'
<1>1. /\ There(h.row)' /\ (\A r \in Rows : h.rows[r] \in TableRow => There(r))'
      /\ Has(h.found, h.row) => Has(h.found, h.row)'
      /\ JobOK(h.job)'
  BY DEF HandlingOK, JobOK, There, Has, Noted
<1>2. Sound(h.was, h.row) => Sound(h.was, h.row)'
  BY SoundStays
<1> QED BY <1>1, <1>2 DEF HandlingOK

\* A job in hand that goes on knowing as much.
LEMMA JobReplaced ==
  ASSUME KnownInv, Aside, JobMoves, NEW w \in Workers, NEW h \in Handling \cup {NoCall},
         job' = Update(job, w, h), h \in Handling => HandlingOK(h)
  PROVE  KnownInv'
<1> USE DEF KnownInv, TypeOK, SyncTypeOK
<1>1. job' \in [Workers -> Handling \cup {NoCall}]
  BY DEF Update
<1>2. UNCHANGED <<task, link, queue, push, faults, applied, disturbed>> /\ OnlyJob
  BY DEF JobMoves
<1>3. TypeOK'
  BY <1>1, <1>2 DEF OnlyJob, bindingVars, tableVars, Aside, Noted, legacyVars
<1>4. UNCHANGED <<task, row, applied, event>>
  BY <1>2 DEF OnlyJob, tableVars
<1>5. Grown
  BY <1>4, StillGrown
<1>6. job'[w] = h /\ \A x \in Workers : x # w => job'[x] = job[x]
  BY DEF Update
<1>7. h \in Handling => HandlingOK(h)'
  BY <1>4, HandlingStays DEF Aside
<1>8. \A x \in Workers : job'[x] = job[x] \/ job'[x] = NoCall \/ HandlingOK(job[x])'
  BY SMTT(30), <1>6, <1>7 DEF HandlingOK, JobOK, Sound, There, Has
<1> QED BY <1>2, <1>3, <1>5, <1>8, OnlyJobKnown

LEMMA PushesDoneKnown ==
  ASSUME KnownInv, Aside, NEW w \in Workers, PushesDone(w)
  PROVE  KnownInv'
<1>1. PICK h \in Handling : h = job[w] /\ HandlingOK(h) /\ h.at = "push" /\ h.todo = {}
  BY HandlingIs DEF PushesDone, JobAt
<1>2. PICK texts \in [Tasks -> Texts] : texts = [t \in Tasks |-> 0]
  <2>1. 0 \in Texts
    BY SyncAssumption DEF Texts
  <2> QED BY <2>1
<1>3. PICK z : z = [h EXCEPT !.at = "list", !.texts = texts]
  OBVIOUS
<1>4. /\ z \in Handling /\ z.at = "list" /\ z.job = h.job /\ z.todo = {} /\ z.row = h.row /\ z.rows = h.rows
  BY <1>1, <1>2, <1>3 DEF Handling
<1>5. HandlingOK(z)
  BY <1>1, <1>4 DEF HandlingOK
<1>6. job' = Update(job, w, NoCall) \/ job' = Update(job, w, z)
  BY <1>1, <1>2, <1>3 DEF PushesDone, Update
<1> QED BY <1>4, <1>5, <1>6, JobReplaced, NothingAssumption DEF PushesDone

LEMMA ListRowsKnown ==
  ASSUME KnownInv, Aside, NEW w \in Workers, ListRows(w)
  PROVE  KnownInv'
<1>1. PICK h \in Handling : h = job[w] /\ HandlingOK(h) /\ h.at = "list"
  BY HandlingIs DEF ListRows, JobAt
<1>2. PICK rows \in [Rows -> TableRow \cup {NoRow}] : rows = row
  BY DEF KnownInv, TypeOK, SyncTypeOK
<1>3. PICK todo \in SUBSET Rows : todo = {r \in Rows : row[r] # NoRow}
  OBVIOUS
<1>4. PICK z : z = [h EXCEPT !.at = "next", !.rows = rows, !.todo = todo]
  OBVIOUS
<1>5. /\ z \in Handling /\ z.at = "next" /\ z.job = h.job /\ z.todo = todo /\ z.rows = rows
      /\ z.row = h.row
  BY <1>4 DEF Handling
<1>6. /\ \A r \in Rows \cap todo : rows[r] \in TableRow
      /\ \A r \in Rows : rows[r] \in TableRow => There(r)
  BY <1>2, <1>3 DEF There
<1>7. HandlingOK(z)
  BY <1>1, <1>5, <1>6 DEF HandlingOK
<1>8. job' = Update(job, w, z)
  BY <1>1, <1>2, <1>3, <1>4 DEF ListRows, Update
<1> QED BY <1>5, <1>7, <1>8, JobReplaced DEF ListRows

LEMMA PullNextKnown ==
  ASSUME KnownInv, Aside, NEW w \in Workers, NEW r \in Rows, PullNext(w, r)
  PROVE  KnownInv'
<1>1. PICK h \in Handling : h = job[w] /\ HandlingOK(h) /\ h.at = "next" /\ r \in h.todo
  BY HandlingIs DEF PullNext, JobAt
<1>2. PICK read \in TableRow : read = h.rows[r]
  BY <1>1 DEF HandlingOK
<1>3. PICK todo \in SUBSET (Tasks \cup Rows) : todo = h.todo \ {r}
  BY DEF Handling
<1>4. PICK z : z = [h EXCEPT !.at = "find", !.todo = todo, !.row = r, !.read = read]
  OBVIOUS
<1>5. /\ z \in Handling /\ z.at = "find" /\ z.job = h.job /\ z.todo = todo /\ z.rows = h.rows
      /\ z.row = r /\ z.read = read
  BY <1>4 DEF Handling
<1>6. HandlingOK(z)
  <2>1. There(r)
    BY <1>1, <1>2 DEF HandlingOK
  <2> QED BY <1>1, <1>3, <1>5, <2>1 DEF HandlingOK, Handling, Job
<1>7. job' = Update(job, w, z)
  BY <1>1, <1>2, <1>3, <1>4 DEF PullNext, Update
<1> QED BY <1>5, <1>6, <1>7, JobReplaced DEF PullNext

LEMMA PullsDoneKnown ==
  ASSUME KnownInv, Aside, NEW w \in Workers, PullsDone(w)
  PROVE  KnownInv'
BY JobReplaced, NothingAssumption DEF PullsDone

LEMMA FetchRowKnown ==
  ASSUME KnownInv, Aside, NEW w \in Workers, FetchRow(w)
  PROVE  KnownInv'
<1>1. PICK h \in Handling : h = job[w] /\ HandlingOK(h) /\ h.at = "fetch"
  BY HandlingIs DEF FetchRow, JobAt
<1>2. PICK e \in DOMAIN event : /\ e = h.job.event /\ event[e].row = h.row /\ h.row \in Rows
                                /\ h.job.kind = "record"
  BY <1>1 DEF HandlingOK, JobOK, Handling, Job
<1>3. PICK read \in TableRow : read = row[h.row] /\ read.version >= event[e].version
  BY <1>2 DEF KnownInv, EventsOK, EventOK
<1>4. PICK z : z = [h EXCEPT !.at = "find", !.read = read]
  OBVIOUS
<1>5. /\ z \in Handling /\ z.at = "find" /\ z.job = h.job /\ z.todo = h.todo /\ z.rows = h.rows
      /\ z.row = h.row /\ z.read = read
  BY <1>4 DEF Handling
<1>6. HandlingOK(z)
  BY <1>1, <1>2, <1>3, <1>5 DEF HandlingOK
<1>7. job' = Update(job, w, z)
  BY <1>1, <1>3, <1>4 DEF FetchRow, Update
<1> QED BY <1>5, <1>6, <1>7, JobReplaced DEF FetchRow

LEMMA FindTaskKnown ==
  ASSUME KnownInv, Aside, NEW w \in Workers, FindTask(w)
  PROVE  KnownInv'
<1>1. PICK h \in Handling : h = job[w] /\ HandlingOK(h) /\ h.at = "find"
  BY HandlingIs DEF FindTask, JobAt
<1>2. PICK t \in Imported(h.row) \cup {NoTask} : job' = [job EXCEPT ![w].at = "save", ![w].found = t]
  BY <1>1 DEF FindTask
<1>8. t \in Tasks \cup {NoTask} /\ (t # NoTask => Has(t, h.row))
  BY <1>2 DEF Imported, Has, KnownInv, TypeOK, SyncTypeOK
<1>3. PICK z : z = [h EXCEPT !.at = "save", !.found = t]
  OBVIOUS
<1>4. /\ z \in Handling /\ z.at = "save" /\ z.job = h.job /\ z.todo = h.todo /\ z.rows = h.rows
      /\ z.row = h.row /\ z.read = h.read /\ z.found = t
  BY <1>3, <1>8 DEF Handling
<1>5. HandlingOK(z)
  BY <1>1, <1>4, <1>8 DEF HandlingOK, Has
<1>6. job' = Update(job, w, z)
  BY <1>1, <1>2, <1>3 DEF Update
<1> QED BY <1>4, <1>5, <1>6, JobReplaced DEF FindTask

LEMMA FindLinkKnown ==
  ASSUME KnownInv, Aside, NEW w \in Workers, FindLink(w)
  PROVE  KnownInv'
<1>1. PICK h \in Handling : h = job[w] /\ HandlingOK(h) /\ h.at = "findlink"
  BY HandlingIs DEF FindLink, JobAt
<1>2. PICK b \in Bindings, r \in Rows : b = h.job.binding /\ r = h.row
  BY <1>1 DEF HandlingOK, Handling, Job
<1>3. PICK l \in Link \cup {NoLink} : l = link[<<b, r>>] /\ Sound(l, r)
  BY DEF KnownInv, TypeOK, SyncTypeOK, LinksOK
<1>4. PICK z : z = [h EXCEPT !.at = "savelink", !.was = l]
  OBVIOUS
<1>5. /\ z \in Handling /\ z.at = "savelink" /\ z.job = h.job /\ z.todo = h.todo /\ z.rows = h.rows
      /\ z.row = h.row /\ z.was = l
  BY <1>4 DEF Handling
<1>6. HandlingOK(z)
  BY <1>1, <1>2, <1>3, <1>5 DEF HandlingOK
<1>7. job' = Update(job, w, z)
  BY <1>1, <1>2, <1>3, <1>4 DEF FindLink, Update
<1> QED BY <1>5, <1>6, <1>7, JobReplaced DEF FindLink

\* The row that a handler saves into a task has been applied.
LEMMA AppliedIs ==
  ASSUME TypeOK, NEW r \in Rows, NEW v \in Nat, Applied(r, v)
  PROVE  /\ applied' \in [Rows -> Version] /\ disturbed' \in BOOLEAN
         /\ applied'[r] >= v /\ \A x \in Rows : applied'[x] >= applied[x]
<1>1. applied[r] \in Nat /\ applied \in [Rows -> Nat]
  BY DEF TypeOK, SyncTypeOK, Version
<1>2. PICK n \in Nat : n = IF v > applied[r] THEN v ELSE applied[r]
  BY <1>1
<1>3. applied' = [applied EXCEPT ![r] = n] /\ n >= v /\ n >= applied[r]
  BY <1>1, <1>2 DEF Applied, Update
<1>4. disturbed' \in BOOLEAN
  BY DEF Applied
<1> QED BY <1>1, <1>3, <1>4 DEF Version

\* A task that is saved as a whole.
LEMMA TaskSaved ==
  ASSUME TypeOK, NEW t \in Tasks, NEW saved \in Task, task' = Update(task, t, saved)
  PROVE  /\ task' \in [Tasks -> Task \cup {NoTask}]
         /\ \A x \in Tasks : task[x] \in Task => task'[x] \in Task
         /\ task'[t] = saved /\ \A x \in Tasks : x # t => task'[x] = task[x]
BY DEF TypeOK, SyncTypeOK, Update

LEMMA FreshTask ==
  ASSUME TypeOK, NEW t \in Fresh(task, NoTask)
  PROVE  t \in Tasks /\ task[t] = NoTask
BY DEF TypeOK, SyncTypeOK, Fresh, Unused

LEMMA FreshRow ==
  ASSUME TypeOK, NEW r \in Fresh(row, NoRow)
  PROVE  r \in Rows /\ row[r] = NoRow
BY DEF TypeOK, SyncTypeOK, Fresh, Unused

LEMMA SaveTaskKnown ==
  ASSUME KnownInv, Aside, NEW w \in Workers, SaveTask(w)
  PROVE  KnownInv'
<1> USE DEF KnownInv, TypeOK, SyncTypeOK
<1>1. PICK h \in Handling : h = job[w] /\ HandlingOK(h) /\ h.at = "save"
  BY HandlingIs DEF SaveTask, JobAt
<1>2. h.row \in Rows /\ h.read \in TableRow
  BY <1>1 DEF HandlingOK
<1>3. PICK text \in Texts, v \in Nat, r \in Rows : text = h.read.text /\ v = h.read.version /\ r = h.row
  BY <1>2 DEF TableRow, Version
<1>4. PICK t \in IF h.found = NoTask THEN Fresh(task, NoTask) ELSE {h.found} :
         /\ task' = Update(task, t, [text |-> text, row |-> r])
         /\ job' = [job EXCEPT ![w].at = "findlink", ![w].found = t]
  BY <1>1, <1>3 DEF SaveTask
<1>5. t \in Tasks
  BY <1>4, FreshTask DEF Handling
<1>6. PICK saved \in Task : saved = [text |-> text, row |-> r]
  BY DEF Task
<1>7. task' \in [Tasks -> Task \cup {NoTask}] /\ \A x \in Tasks : task[x] \in Task => task'[x] \in Task
  BY <1>4, <1>5, <1>6, TaskSaved
<1>8. Applied(r, v) /\ OnlyJob /\ UNCHANGED <<link, queue, push, faults>>
  BY <1>1, <1>3 DEF SaveTask
<1>9. /\ applied' \in [Rows -> Version] /\ disturbed' \in BOOLEAN
      /\ applied'[r] >= v /\ \A x \in Rows : applied'[x] >= applied[x]
  BY <1>8, AppliedIs
<1>10. UNCHANGED <<row, event>>
  BY <1>8 DEF OnlyJob, tableVars
<1>11. Grown
  BY <1>7, <1>9, <1>10 DEF Grown, TableRow, Version
<1>12. PICK z : z = [h EXCEPT !.at = "findlink", !.found = t]
  OBVIOUS
<1>13. /\ z \in Handling /\ z.at = "findlink" /\ z.job = h.job /\ z.todo = h.todo /\ z.rows = h.rows
       /\ z.row = h.row
  BY <1>5, <1>12 DEF Handling
<1>14. job' = [job EXCEPT ![w] = z]
  BY <1>1, <1>4, <1>12
<1>15. job' \in [Workers -> Handling \cup {NoCall}] /\ job'[w] = z /\ \A x \in Workers : x # w => job'[x] = job[x]
  BY <1>13, <1>14
<1>16. TypeOK'
  BY <1>7, <1>8, <1>9, <1>15 DEF OnlyJob, bindingVars, tableVars, Aside, Noted, legacyVars
<1>17. HandlingOK(z)'
  <2>1. JobOK(h.job)'
    BY <1>1, <1>11, JobKept DEF HandlingOK
  <2>2. h.job.kind = "record" => applied'[h.row] >= event'[h.job.event].version
    <3>1. ASSUME h.job.kind = "record"
          PROVE  v >= event[h.job.event].version /\ event[h.job.event].version \in Nat
      BY <1>1, <1>3, <3>1 DEF HandlingOK, JobOK, Event, Version
    <3>2. applied'[r] \in Nat
      BY <1>9 DEF Version
    <3> QED BY SMTT(30), <1>3, <1>9, <1>10, <3>1, <3>2
  <2>3. There(h.row)' /\ (\A x \in Rows : h.rows[x] \in TableRow => There(x))'
    BY <1>1, <1>11, ThereKept, ListedKept DEF HandlingOK
  <2> QED BY <1>1, <1>13, <2>1, <2>2, <2>3 DEF HandlingOK
<1>18. \A x \in Workers : job'[x] = job[x] \/ job'[x] = NoCall \/ HandlingOK(job[x])'
  <2> SUFFICES ASSUME NEW x \in Workers, x = w
               PROVE  HandlingOK(job[x])'
    BY <1>15
  <2> QED BY <1>15, <1>17 DEF HandlingOK, JobOK, Sound, There, Has
<1>19. \A x \in Tasks : task'[x] = task[x] \/ There(task[x].row)'
  <2>1. There(r)'
    BY <1>1, <1>3, <1>11, ThereKept DEF HandlingOK
  <2>2. \A x \in Tasks : task'[x] = task[x] \/ task'[x].row = r
    BY <1>4, <1>5, <1>6, TaskSaved
  <2> QED BY <2>1, <2>2 DEF There
<1> QED BY <1>8, <1>11, <1>16, <1>18, <1>19, OnlyJobKnown

\* A step of a job that writes the link of its row.
LEMMA LinkWritten ==
  ASSUME KnownInv, Aside, OnlyJob, UNCHANGED <<task, queue, push, faults, applied, disturbed>>,
         NEW w \in Workers, NEW h \in Handling \cup {NoCall}, job' = Update(job, w, h),
         h \in Handling => HandlingOK(h), NEW b \in Bindings, NEW r \in Rows, NEW l \in Link,
         \/ link' = link
         \/ link' = [link EXCEPT ![<<b, r>>] = l] /\ Sound(l, r)
  PROVE  KnownInv'
<1> USE DEF KnownInv, TypeOK, SyncTypeOK
<1>1. job' \in [Workers -> Handling \cup {NoCall}]
  BY DEF Update
<1>2. link' \in [Bindings \X Rows -> Link \cup {NoLink}]
  OBVIOUS
<1>3. TypeOK'
  BY <1>1, <1>2 DEF OnlyJob, bindingVars, tableVars, Aside, Noted, legacyVars
<1>4. UNCHANGED <<task, row, applied, event>>
  BY DEF OnlyJob, tableVars
<1>5. Grown
  BY <1>4, StillGrown
<1>6. job'[w] = h /\ \A x \in Workers : x # w => job'[x] = job[x]
  BY DEF Update
<1>7. h \in Handling => HandlingOK(h)'
  BY <1>4, HandlingStays DEF Aside
<1>8. \A x \in Workers : job'[x] = job[x] \/ job'[x] = NoCall \/ HandlingOK(job[x])'
  BY SMTT(30), <1>6, <1>7 DEF HandlingOK, JobOK, Sound, There, Has
<1>9. \A c \in Bindings, x \in Rows :
        link'[<<c, x>>] = link[<<c, x>>] \/ (link'[<<c, x>>] = l /\ x = r /\ Sound(l, r))
  OBVIOUS
<1>10. \A c \in Bindings, x \in Rows :
         link'[<<c, x>>] = link[<<c, x>>] \/ link'[<<c, x>>] = NoLink \/ Sound(link[<<c, x>>], x)'
  <2>1. Sound(l, r) => Sound(l, r)'
    BY <1>4, SoundStays DEF Aside
  <2> QED BY <1>9, <2>1 DEF Sound, Has
<1> QED BY <1>3, <1>4, <1>5, <1>8, <1>10, OnlyJobKnown

LEMMA SaveLinkKnown ==
  ASSUME KnownInv, Aside, NEW w \in Workers, SaveLink(w)
  PROVE  KnownInv'
<1>1. PICK h \in Handling : h = job[w] /\ HandlingOK(h) /\ h.at = "savelink"
  BY HandlingIs DEF SaveLink, JobAt
<1>2. PICK b \in Bindings, r \in Rows : b = h.job.binding /\ r = h.row /\ Sound(h.was, r)
  BY <1>1 DEF HandlingOK, Handling, Job
<1>3. PICK base \in Link : base = Base(h.was) /\ Sound(base, r)
  BY <1>2, BaseIs DEF Handling
<1>4. PICK l \in Link : l = (IF h.job.kind = "full" THEN [base EXCEPT !.entity = h.found] ELSE base)
                        /\ Sound(l, r)
  <2>1. PICK l : l = [base EXCEPT !.entity = h.found]
    OBVIOUS
  <2>2. l \in Link /\ l.event = base.event /\ l.task = base.task
    BY <2>1 DEF Link, Handling
  <2>3. Sound(l, r)
    BY <1>3, <2>2 DEF Sound
  <2> QED BY <1>3, <2>1, <2>2, <2>3
<1>5. link' = [link EXCEPT ![<<b, r>>] = l]
  BY <1>1, <1>2, <1>3, <1>4 DEF SaveLink
<1>6. PICK at \in {"next", "stamp"} : at = IF h.job.kind = "full" THEN "next" ELSE "stamp"
  OBVIOUS
<1>7. PICK z : z = [h EXCEPT !.at = at, !.read = NoRow, !.found = NoTask, !.was = NoLink]
  OBVIOUS
<1>8. /\ z \in Handling /\ z.at = at /\ z.job = h.job /\ z.todo = h.todo /\ z.rows = h.rows
      /\ z.row = h.row
  BY <1>7 DEF Handling
<1>9. HandlingOK(z)
  BY <1>1, <1>6, <1>8 DEF HandlingOK
<1>10. job' = Update(job, w, z)
  BY <1>1, <1>6, <1>7 DEF SaveLink, Update
<1>11. OnlyJob /\ UNCHANGED <<task, queue, push, faults, applied, disturbed>>
  BY DEF SaveLink
<1> QED BY <1>4, <1>5, <1>8, <1>9, <1>10, <1>11, LinkWritten

LEMMA StampKnown ==
  ASSUME KnownInv, Aside, NEW w \in Workers, Stamp(w)
  PROVE  KnownInv'
<1>1. PICK h \in Handling : h = job[w] /\ HandlingOK(h) /\ h.at = "stamp"
  BY HandlingIs DEF Stamp, JobAt
<1>2. PICK b \in Bindings, r \in Rows : b = h.job.binding /\ r = h.row
  BY <1>1 DEF HandlingOK, Handling, Job
<1>3. PICK e \in DOMAIN event : e = h.job.event /\ applied[r] >= event[e].version /\ e \in 0 .. MaxEvents
  BY <1>1, <1>2 DEF HandlingOK, JobOK, Handling, Job
<1>4. OnlyJob /\ UNCHANGED <<task, queue, push, faults, applied, disturbed>>
  BY DEF Stamp
<1>5. job' = Update(job, w, NoCall)
  BY DEF Stamp
<1>6. EmptyLink \in Link
  BY SyncAssumption DEF EmptyLink, Link
<1>7. CASE link' = link
  <2>1. PICK l \in Link : l = EmptyLink
    BY <1>6
  <2>2. PICK h0 \in Handling \cup {NoCall} : h0 = NoCall /\ h0 \notin Handling
    BY NothingAssumption
  <2> QED BY <1>4, <1>5, <1>7, <2>2, LinkWritten
<1>8. CASE link[<<b, r>>] # NoLink /\ link' = [link EXCEPT ![<<b, r>>].event = e]
  <2>1. PICK was \in Link : was = link[<<b, r>>]
    BY <1>8 DEF KnownInv, TypeOK, SyncTypeOK
  <2>2. PICK l : l = [was EXCEPT !.event = e]
    OBVIOUS
  <2>3. l \in Link /\ l.event = e /\ l.task = was.task
    BY <1>3, <2>2 DEF Link
  <2>4. Sound(was, r)
    BY <2>1 DEF KnownInv, LinksOK
  <2>5. Sound(l, r)
    BY <1>3, <2>1, <2>3, <2>4 DEF Sound
  <2>6. link' = [link EXCEPT ![<<b, r>>] = l]
    BY <1>8, <2>1, <2>2
  <2> QED BY <1>4, <1>5, <2>3, <2>5, <2>6, LinkWritten, NothingAssumption
<1> QED BY <1>1, <1>2, <1>3, <1>7, <1>8 DEF Stamp

LEMMA PushNextKnown ==
  ASSUME KnownInv, Aside, NEW w \in Workers, NEW t \in Tasks, PushNext(w, t)
  PROVE  KnownInv'
<1> USE DEF KnownInv, TypeOK, SyncTypeOK
<1>1. PICK h \in Handling : h = job[w] /\ HandlingOK(h) /\ h.at = "push"
  BY HandlingIs DEF PushNext, JobAt
<1>2. PICK todo \in SUBSET (Tasks \cup Rows) : todo = h.todo \ {t}
  BY DEF Handling
<1>3. PICK z : z = [h EXCEPT !.todo = todo]
  OBVIOUS
<1>4. z \in Handling /\ z.at = "push" /\ z.job = h.job /\ z.row = h.row /\ z.rows = h.rows
  BY <1>1, <1>3 DEF Handling
<1>5. HandlingOK(z)
  BY <1>1, <1>4 DEF HandlingOK
<1>6. PICK b \in Bindings, text \in Texts : b = h.job.binding /\ text = h.texts[t]
  BY DEF Handling, Job
<1>7. PICK q : q = Pushes(b, t, text)
  OBVIOUS
<1>8. q \in Pushing /\ q.at = "find"
  BY <1>7, SyncAssumption DEF Pushes, Pushing
<1>9. job' = [job EXCEPT ![w] = z] /\ push' = [push EXCEPT ![w] = q]
  BY <1>1, <1>2, <1>3, <1>6, <1>7 DEF PushNext, Update
<1>10. /\ job' \in [Workers -> Handling \cup {NoCall}]
       /\ push' \in [Callers \cup Workers -> Pushing \cup {NoCall}]
  BY <1>4, <1>8, <1>9
<1>11. OnlyJob /\ UNCHANGED <<task, link, queue, faults, applied, disturbed>>
  BY DEF PushNext
<1>12. TypeOK'
  BY <1>10, <1>11 DEF OnlyJob, bindingVars, tableVars, Aside, Noted, legacyVars
<1>13. UNCHANGED <<task, row, applied, event>>
  BY <1>11 DEF OnlyJob, tableVars
<1>14. Grown
  BY <1>13, StillGrown
<1>15. HandlingOK(z)'
  BY <1>5, <1>13, HandlingStays DEF Aside
<1>16. \A x \in Workers : job'[x] = job[x] \/ job'[x] = NoCall \/ HandlingOK(job[x])'
  BY <1>9, <1>15 DEF HandlingOK, JobOK, Sound, There, Has
<1>17. \A p \in Callers \cup Workers : push'[p] = push[p] \/ push'[p] = NoCall \/ PushOK(push[p])'
  BY <1>8, <1>9 DEF PushOK
<1> QED BY <1>11, <1>12, <1>14, <1>16, <1>17, OnlyJobKnown

LEMMA FailJobKnown ==
  ASSUME KnownInv, Aside, NEW w \in Workers, FailJob(w)
  PROVE  KnownInv'
<1> USE DEF KnownInv, TypeOK, SyncTypeOK
<1>1. PICK h \in Handling : h = job[w] /\ HandlingOK(h) /\ h.at \notin {"push", "next"}
  BY HandlingIs DEF FailJob
<1>2. PICK j \in Job : j = h.job /\ JobOK(j)
  BY <1>1 DEF HandlingOK, Handling
<1>3. OnlyJob /\ UNCHANGED <<task, link, push, applied>>
  BY DEF FailJob
<1>4. faults' \in 0 .. MaxFaults
  BY FaultType DEF FailJob
<1>5. UNCHANGED <<task, row, applied, event>>
  BY <1>3 DEF OnlyJob, tableVars
<1>6. Grown
  BY <1>5, StillGrown
<1>7. CASE /\ j.kind = "full" /\ h.at \in {"find", "save", "findlink", "savelink"}
           /\ job' = [job EXCEPT ![w].at = "next"] /\ UNCHANGED <<queue, disturbed>>
  <2>1. PICK z : z = [h EXCEPT !.at = "next"]
    OBVIOUS
  <2>2. /\ z \in Handling /\ z.at = "next" /\ z.job = h.job /\ z.todo = h.todo /\ z.rows = h.rows
        /\ z.row = h.row
    BY <2>1 DEF Handling
  <2>3. HandlingOK(z)
    BY <1>1, <1>2, <1>7, <2>2 DEF HandlingOK
  <2>4. job' = [job EXCEPT ![w] = z]
    BY <1>1, <1>7, <2>1
  <2>5. TypeOK'
    BY <1>3, <1>4, <1>7, <2>2, <2>4 DEF OnlyJob, bindingVars, tableVars, Aside, Noted, legacyVars
  <2>6. HandlingOK(z)'
    BY <1>5, <2>3, HandlingStays DEF Aside
  <2>7. \A x \in Workers : job'[x] = job[x] \/ job'[x] = NoCall \/ HandlingOK(job[x])'
    BY <2>4, <2>6 DEF HandlingOK, JobOK, Sound, There, Has
  <2> QED BY <1>3, <1>6, <1>7, <2>5, <2>7, OnlyJobKnown
<1>8. CASE /\ job' = Update(job, w, NoCall)
           /\ queue' = IF j.tries + 1 < Attempts THEN queue \cup {[j EXCEPT !.tries = j.tries + 1]} ELSE queue
           /\ disturbed' = (disturbed \/ ~ (j.tries + 1 < Attempts))
  <2>1. disturbed' \in BOOLEAN
    BY <1>8
  <2>2. ASSUME j.tries + 1 < Attempts
        PROVE  [j EXCEPT !.tries = j.tries + 1] \in Job /\ JobOK([j EXCEPT !.tries = j.tries + 1])
    <3>1. PICK n \in 0 .. Attempts - 1 : n = j.tries + 1
      BY SMTT(30), <2>2, SyncAssumption DEF Job
    <3>2. PICK k : k = [j EXCEPT !.tries = n]
      OBVIOUS
    <3>3. k \in Job /\ k.kind = j.kind /\ k.event = j.event /\ k.row = j.row
      BY <3>2 DEF Job
    <3>4. JobOK(k)
      BY <1>2, <3>3 DEF JobOK
    <3> QED BY <3>1, <3>2, <3>3, <3>4
  <2>3. \A k \in queue' : k \in queue \/ (k \in Job /\ JobOK(k))
    BY <1>8, <2>2
  <2>4. queue' \subseteq Job
    BY <2>3
  <2>5. TypeOK'
    BY <1>3, <1>4, <1>8, <2>1, <2>4 DEF OnlyJob, bindingVars, tableVars, Aside, Noted, legacyVars, Update
  <2>6. \A x \in Workers : job'[x] = job[x] \/ job'[x] = NoCall
    BY <1>8 DEF Update
  <2>7. \A k \in queue' : k \in queue \/ JobOK(k)'
    BY <1>5, <2>3 DEF JobOK
  <2> QED BY <1>3, <1>6, <2>5, <2>6, <2>7, OnlyJobKnown
<1> QED BY <1>1, <1>2, <1>7, <1>8 DEF FailJob

LEMMA CrashJobKnown ==
  ASSUME KnownInv, Aside, NEW w \in Workers, CrashJob(w)
  PROVE  KnownInv'
<1> USE DEF KnownInv, TypeOK, SyncTypeOK
<1>1. PICK h \in Handling : h = job[w] /\ HandlingOK(h)
  BY HandlingIs DEF CrashJob
<1>2. PICK j \in Job : j = h.job /\ JobOK(j)
  BY <1>1 DEF HandlingOK, Handling
<1>3. OnlyJob /\ UNCHANGED <<task, link, applied, disturbed>>
  BY DEF CrashJob
<1>4. faults' \in 0 .. MaxFaults
  BY FaultType DEF CrashJob
<1>5. UNCHANGED <<task, row, applied, event>>
  BY <1>3 DEF OnlyJob, tableVars
<1>6. Grown
  BY <1>5, StillGrown
<1>7. queue' = queue \cup {j} /\ job' = Update(job, w, NoCall) /\ push' = Update(push, w, NoCall)
  BY <1>1, <1>2 DEF CrashJob
<1>8. TypeOK'
  BY <1>3, <1>4, <1>7 DEF OnlyJob, bindingVars, tableVars, Aside, Noted, legacyVars, Update
<1>9. /\ \A x \in Workers : job'[x] = job[x] \/ job'[x] = NoCall
      /\ \A p \in Callers \cup Workers : push'[p] = push[p] \/ push'[p] = NoCall
  BY <1>7 DEF Update
<1>10. \A k \in queue' : k \in queue \/ JobOK(k)'
  BY <1>2, <1>5, <1>7 DEF JobOK
<1> QED BY <1>3, <1>6, <1>8, <1>9, <1>10, OnlyJobKnown

LEMMA TakeJobKnown ==
  ASSUME KnownInv, Aside, NEW w \in Workers, NEW j \in queue, TakeJob(w, j)
  PROVE  KnownInv'
<1> USE DEF KnownInv, TypeOK, SyncTypeOK
<1>1. j \in Job /\ JobOK(j) /\ j.binding \in Bindings
  BY DEF QueueOK, Job
<1>2. OnlyJob /\ UNCHANGED <<task, link, push, faults, applied>> /\ queue' = queue \ {j}
  BY DEF TakeJob
<1>3. UNCHANGED <<task, row, applied, event>>
  BY <1>2 DEF OnlyJob, tableVars
<1>4. Grown
  BY <1>3, StillGrown
<1>5. disturbed' \in BOOLEAN
  BY DEF TakeJob
<1>6. CASE live # j.binding
  <2>1. job' = job
    BY <1>6 DEF TakeJob
  <2>2. TypeOK'
    BY <1>2, <1>5, <2>1 DEF OnlyJob, bindingVars, tableVars, Aside, Noted, legacyVars
  <2> QED BY <1>2, <1>4, <2>1, <2>2, OnlyJobKnown
<1>7. CASE live = j.binding
  <2>1. PICK settings \in Binding : settings = binding[j.binding]
    BY <1>1, <1>7 DEF Settled
  <2>2. PICK pushes \in BOOLEAN : pushes = (j.kind = "full" /\ settings.direction # "pull_only")
    OBVIOUS
  <2>3. PICK at \in {"fetch", "push", "list"} :
          at = IF j.kind = "record" THEN "fetch" ELSE IF pushes THEN "push" ELSE "list"
    OBVIOUS
  <2>4. PICK todo \in SUBSET Tasks : todo = IF pushes THEN Existing ELSE {}
    BY DEF Existing
  <2>5. PICK texts \in [Tasks -> Texts] : texts = IF pushes THEN Snapshot ELSE [t \in Tasks |-> 0]
    <3>1. Snapshot \in [Tasks -> Texts] /\ [t \in Tasks |-> 0] \in [Tasks -> Texts]
      BY SyncAssumption DEF Snapshot, Texts, Task
    <3> QED BY <3>1
  <2>6. PICK z : z = [job |-> j, settings |-> settings, row |-> j.row, read |-> NoRow,
                      found |-> NoTask, was |-> NoLink, rows |-> NoRows, at |-> at, todo |-> todo,
                      texts |-> texts]
    OBVIOUS
  <2>7. z \in Handling
    BY <1>1, <2>6 DEF Handling, Job, NoRows
  <2>8. /\ z.job = j /\ z.at = at /\ z.row = j.row /\ z.todo = todo /\ z.rows = NoRows
    BY <2>6
  <2>9. HandlingOK(z)
    <3>1. j.kind \in {"record", "full"}
      BY <1>1 DEF Job
    <3>2. at = "fetch" => j.kind = "record" /\ j.row \in Rows
      BY <1>1, <2>3, <3>1 DEF JobOK, Event
    <3>3. There(j.row)
      <4>1. CASE j.kind = "record"
        <5>1. PICK e \in DOMAIN event : e = j.event /\ j.row = event[e].row
          BY <1>1, <4>1 DEF JobOK
        <5>2. row[event[e].row] \in TableRow
          BY DEF EventsOK, EventOK
        <5> QED BY <5>1, <5>2 DEF There
      <4>2. CASE j.kind = "full"
        BY <1>1, <4>2, SyncAssumption DEF JobOK, There
      <4> QED BY <3>1, <4>1, <4>2
    <3>4. \A r \in Rows : NoRows[r] \notin TableRow
      BY NothingAssumption DEF NoRows
    <3> QED BY <1>1, <2>2, <2>3, <2>4, <2>8, <3>1, <3>2, <3>3, <3>4 DEF HandlingOK
  <2>10. job' = [job EXCEPT ![w] = z]
    BY <1>7, <2>1, <2>2, <2>3, <2>4, <2>5, <2>6 DEF TakeJob, Update
  <2>11. TypeOK'
    BY <1>2, <1>5, <2>7, <2>10 DEF OnlyJob, bindingVars, tableVars, Aside, Noted, legacyVars
  <2>12. HandlingOK(z)'
    BY <1>3, <2>9, HandlingStays DEF Aside
  <2>13. \A x \in Workers : job'[x] = job[x] \/ job'[x] = NoCall \/ HandlingOK(job[x])'
    BY <2>10, <2>12 DEF HandlingOK, JobOK, Sound, There, Has
  <2> QED BY <1>2, <1>4, <2>11, <2>13, OnlyJobKnown
<1> QED BY <1>6, <1>7

LEMMA JobStepKnown ==
  ASSUME KnownInv, Aside, NEW w \in Workers,
         JobStep(w) \/ CrashJob(w) \/ \E j \in queue : TakeJob(w, j)
  PROVE  KnownInv'
BY PushesDoneKnown, ListRowsKnown, PullsDoneKnown, FetchRowKnown, FindTaskKnown, SaveTaskKnown,
   FindLinkKnown, SaveLinkKnown, StampKnown, FailJobKnown, PushNextKnown, PullNextKnown,
   CrashJobKnown, TakeJobKnown DEF JobStep

LEMMA RecordIsNoted ==
  ASSUME TypeOK, Record
  PROVE  Noted
<1>1. shared' \subseteq Rows
  BY DEF TypeOK, Record
<1>2. moved' \in BOOLEAN /\ (moved => moved')
  BY Zenon DEF Record
<1>3. ASSUME NEW t \in Tasks, task[t] \in Task, task[t].row \in Rows, task'[t].row # task[t].row
      PROVE  moved'
  <2>1. task[t] # NoTask /\ task[t].row # NoRow
    BY <1>3, NothingAssumption, SyncAssumption
  <2>2. t \in Existing
    BY <2>1 DEF Existing
  <2>3. \E x \in Existing : task[x].row # NoRow /\ task'[x].row # task[x].row
    BY <1>3, <2>1, <2>2
  <2> QED BY <2>3, Zenon DEF Record
<1> QED BY <1>1, <1>2, <1>3 DEF Noted

-----------------------------------------------------------------------------
(* Bindings and events.                                                     *)

\* A step that changes bindings, and what hangs on them.
LEMMA BindingKnown ==
  ASSUME KnownInv, Noted,
         UNCHANGED <<task, row, event, owed, edits, job, push, faults, applied, disturbed, edit, twin, pull>>,
         binding' \in [Bindings -> Binding \cup {NoBinding}], live' \in Bindings \cup {NoBinding},
         Settled', binds' \in 0 .. MaxBinds, jobs' \in 0 .. MaxJobs, ours' \subseteq Rows,
         pulls' \in [Bindings -> Nat],
         link' \in [Bindings \X Rows -> Link \cup {NoLink}],
         \A b \in Bindings, r \in Rows : link'[<<b, r>>] = link[<<b, r>>] \/ link'[<<b, r>>] = NoLink,
         \A j \in queue' : j \in queue \/ (j \in Job /\ JobOK(j))
  PROVE  KnownInv'
<1>1. TypeOK'
  <2>1. queue' \subseteq Job
    BY DEF KnownInv, TypeOK, SyncTypeOK
  <2> QED BY <2>1 DEF KnownInv, TypeOK, SyncTypeOK, Noted
<1>2. Grown
  BY StillGrown DEF KnownInv
<1>3. \A j \in queue' : j \in queue \/ JobOK(j)'
  BY DEF JobOK
<1>4. EventsOK' /\ TasksOK' /\ QueueOK' /\ LinksOK'
  BY <1>1, <1>2, <1>3, EventsStay, TasksStay, QueueStays, LinksStay
<1>5. HandlingsOK' /\ PushesOK' /\ EditsOK' /\ TwinsOK' /\ LegacyPullOK'
  BY <1>1, <1>2, HandlingsStay, PushesStay, EditsStay, TwinsStay, LegacyPullStays
<1> QED BY <1>1, <1>4, <1>5 DEF KnownInv

LEMMA BindType ==
  ASSUME TypeOK, Bind
  PROVE  binds' \in 0 .. MaxBinds
BY SyncAssumption DEF TypeOK, SyncTypeOK, Bind

LEMMA BindingsKnown ==
  ASSUME KnownInv, Noted, NEW b \in Bindings,
         \/ UNCHANGED legacyVars /\ TriggerFullSync(b)
         \/ UNCHANGED legacyVars /\ DeleteBinding(b)
         \/ UNCHANGED legacyVars /\ \E d \in Directions : CreateBinding(b, d)
         \/ UNCHANGED legacyVars /\ \E settings \in Binding : UpdateBinding(b, settings)
         \/ SaveBinding(b) \/ TriggerSync(b) \/ RemoveBinding(b)
  PROVE  KnownInv'
<1> USE DEF KnownInv, TypeOK, SyncTypeOK
<1>1. CASE UNCHANGED legacyVars /\ TriggerFullSync(b)
  <2>1. PICK j : j = NewJob(jobs, b, "full", NoRow, 0)
    OBVIOUS
  <2>2. j \in Job /\ j.kind = "full" /\ j.event = 0 /\ j.row = NoRow
    BY <2>1, SyncAssumption DEF NewJob, Job
  <2>3. JobOK(j)
    BY <2>2 DEF JobOK
  <2>4. jobs' \in 0 .. MaxJobs
    BY <1>1, SyncAssumption DEF TriggerFullSync
  <2>5. queue' = queue \cup {j}
    BY <1>1, <2>1 DEF TriggerFullSync
  <2>6. Settled'
    BY <1>1, SettledStays DEF TriggerFullSync, bindingVars
  <2> QED BY <1>1, <2>2, <2>3, <2>4, <2>5, <2>6, BindingKnown
          DEF TriggerFullSync, OnlyBindings, bindingVars, tableVars, legacyVars
<1>2. CASE UNCHANGED legacyVars /\ DeleteBinding(b)
  <2>1. Settled' /\ live' \in Bindings \cup {NoBinding}
    BY <1>2, SyncAssumption DEF DeleteBinding, Settled
  <2>2. binds' \in 0 .. MaxBinds
    BY <1>2, BindType DEF DeleteBinding
  <2> QED BY <1>2, <2>1, <2>2, BindingKnown
          DEF DeleteBinding, OnlyBindings, queueVars, tableVars, legacyVars
<1>3. ASSUME NEW d \in Directions, UNCHANGED legacyVars, CreateBinding(b, d)
      PROVE  KnownInv'
  <2>1. [active |-> TRUE, direction |-> d] \in Binding
    BY DEF Binding
  <2>2. binding' \in [Bindings -> Binding \cup {NoBinding}] /\ binding'[b] \in Binding /\ live' = b
    BY <1>3, <2>1 DEF CreateBinding, Update
  <2>3. Settled'
    BY <2>2 DEF Settled
  <2>4. binds' \in 0 .. MaxBinds
    BY <1>3, BindType DEF CreateBinding
  <2> QED BY <1>3, <2>2, <2>3, <2>4, BindingKnown
          DEF CreateBinding, OnlyBindings, queueVars, tableVars, legacyVars
<1>4. ASSUME NEW settings \in Binding, UNCHANGED legacyVars, UpdateBinding(b, settings)
      PROVE  KnownInv'
  <2>1. binding' \in [Bindings -> Binding \cup {NoBinding}] /\ binding'[b] \in Binding /\ live' = b
    BY <1>4 DEF UpdateBinding, Update
  <2>2. Settled'
    BY <2>1 DEF Settled
  <2>3. binds' \in 0 .. MaxBinds
    BY <1>4, BindType DEF UpdateBinding
  <2> QED BY <1>4, <2>1, <2>2, <2>3, BindingKnown
          DEF UpdateBinding, OnlyBindings, queueVars, tableVars, legacyVars
<1>5. CASE SaveBinding(b)
  <2>1. [active |-> TRUE, direction |-> "bidirectional"] \in Binding
    BY DEF Binding, Directions
  <2>2. binding' \in [Bindings -> Binding \cup {NoBinding}] /\ binding'[b] \in Binding /\ live' = b
    BY <1>5, <2>1 DEF SaveBinding, Update, Settled
  <2>3. Settled'
    BY <2>2 DEF Settled
  <2>4. binds' \in 0 .. MaxBinds
    BY <1>5, BindType DEF SaveBinding
  <2>5. pulls' \in [Bindings -> Nat]
    BY <1>5 DEF SaveBinding, Update
  <2> QED BY <1>5, <2>2, <2>3, <2>4, <2>5, BindingKnown
          DEF SaveBinding, OnlyBindings, queueVars, tableVars
<1>6. CASE TriggerSync(b)
  <2>1. Settled'
    BY <1>6, SettledStays DEF TriggerSync
  <2>2. binds' \in 0 .. MaxBinds
    BY <1>6, BindType DEF TriggerSync
  <2>3. pulls' \in [Bindings -> Nat]
    BY <1>6 DEF TriggerSync, Update
  <2> QED BY <1>6, <2>1, <2>2, <2>3, BindingKnown
          DEF TriggerSync, OnlyBindings, queueVars, tableVars
<1>7. CASE RemoveBinding(b)
  <2>1. Settled' /\ live' \in Bindings \cup {NoBinding}
    BY <1>7, SyncAssumption DEF RemoveBinding, Settled
  <2>2. binds' \in 0 .. MaxBinds
    BY <1>7, BindType DEF RemoveBinding
  <2>3. /\ link' \in [Bindings \X Rows -> Link \cup {NoLink}]
        /\ \A c \in Bindings, r \in Rows : link'[<<c, r>>] = link[<<c, r>>] \/ link'[<<c, r>>] = NoLink
    BY <1>7 DEF RemoveBinding
  <2>4. ours' \subseteq Rows
    BY <1>7 DEF RemoveBinding, Strays
  <2> QED BY <1>7, <2>1, <2>2, <2>3, <2>4, BindingKnown DEF RemoveBinding, queueVars, tableVars
<1> QED BY <1>1, <1>2, <1>3, <1>4, <1>5, <1>6, <1>7

\* A step of the table, of its events, or of the tasks, in which no link changes.
LEMMA EventKnown ==
  ASSUME KnownInv, Noted, TypeOK', Grown, EventsOK', UNCHANGED <<binding, live, link, job, pull>>,
         \A t \in Tasks : task'[t] = task[t] \/ There(task[t].row)',
         \A c \in Callers : edit'[c] = edit[c] \/ edit'[c] = NoCall \/ EditOK(edit[c])',
         \A p \in Callers \cup Workers : push'[p] = push[p] \/ push'[p] = NoCall \/ PushOK(push[p])',
         \A c \in Callers : twin'[c] = twin[c] \/ twin'[c] = NoCall \/ TwinOK(twin[c])',
         \A j \in queue' : j \in queue \/ JobOK(j)'
  PROVE  KnownInv'
<1>1. Settled' /\ TasksOK' /\ QueueOK' /\ LinksOK'
  BY SettledStays, TasksStay, QueueStays, LinksStay
<1>2. HandlingsOK' /\ PushesOK' /\ EditsOK' /\ TwinsOK' /\ LegacyPullOK'
  BY HandlingsStay, PushesStay, EditsStay, TwinsStay, LegacyPullStays
<1> QED BY <1>1, <1>2 DEF KnownInv

LEMMA EditRowKnown ==
  ASSUME KnownInv, Aside, NEW r \in Rows, EditRow(r)
  PROVE  KnownInv'
<1> USE DEF KnownInv, TypeOK, SyncTypeOK
<1>1. PICK text \in Texts : text = edits + 1 /\ edits' = text
  BY SyncAssumption DEF EditRow, Texts
<1>2. Wrote(r, text) /\ Announce(r) /\ UNCHANGED <<task, applied>>
  BY <1>1 DEF EditRow
<1>3. /\ row' \in [Rows -> TableRow \cup {NoRow}]
      /\ DOMAIN event' \in {1 .. n : n \in 0 .. MaxEvents} /\ \A e \in DOMAIN event' : event'[e] \in Event
      /\ owed' \in [1 .. MaxEvents -> 0 .. 2]
      /\ Grown /\ EventsOK'
  BY <1>2, WroteKnown
<1>4. TypeOK'
  BY <1>1, <1>3 DEF EditRow, bindingVars, queueVars, Aside, Noted, legacyVars
<1> QED BY <1>3, <1>4, EventKnown DEF EditRow, bindingVars, queueVars, Aside, Noted, legacyVars

LEMMA EventStepKnown ==
  ASSUME KnownInv, Aside, NEW e \in DOMAIN event, DeliverEvent(e) \/ LoseEvent(e)
  PROVE  KnownInv'
<1> USE DEF KnownInv, TypeOK, SyncTypeOK
<1>1. e \in 1 .. MaxEvents /\ event[e] \in Event /\ owed[e] \in 0 .. 2
  <2>1. PICK n \in 0 .. MaxEvents : DOMAIN event = 1 .. n
    OBVIOUS
  <2>2. e \in 1 .. MaxEvents
    BY <2>1, SyncAssumption
  <2> QED BY <2>2
<1>2. owed' \in [1 .. MaxEvents -> 0 .. 2]
  <2>1. PICK n \in 0 .. 2 : n = owed[e] - 1
    BY <1>1 DEF DeliverEvent, LoseEvent
  <2>2. owed' = [owed EXCEPT ![e] = n]
    BY <2>1 DEF DeliverEvent, LoseEvent, Update
  <2> QED BY <1>1, <2>2
<1>3. UNCHANGED <<task, row, applied, event>>
  BY DEF DeliverEvent, LoseEvent
<1>4. CASE LoseEvent(e)
  <2>1. faults' \in 0 .. MaxFaults
    BY <1>4, SyncAssumption DEF LoseEvent
  <2>2. TypeOK'
    BY <1>2, <1>4, <2>1 DEF LoseEvent, bindingVars, queueVars, Aside, Noted, legacyVars
  <2>3. Grown /\ EventsOK'
    BY <1>3, <2>2, StillGrown, EventsStay
  <2> QED BY <1>4, <2>2, <2>3, EventKnown DEF LoseEvent, bindingVars, queueVars, Aside, Noted, legacyVars
<1>5. CASE DeliverEvent(e)
  <2>1. PICK j : j = NewJob(owed[e], live, "record", event[e].row, e)
    OBVIOUS
  <2>2. j.kind = "record" /\ j.event = e /\ j.row = event[e].row
    BY <2>1 DEF NewJob
  <2>3. Pulling => j \in Job
    BY SMTT(30), <1>1, <2>1, SyncAssumption DEF NewJob, Job, Pulling, Event
  <2>4. /\ queue' = queue \/ (Pulling /\ queue' = queue \cup {j})
        /\ disturbed' \in BOOLEAN
    BY <1>5, <2>1 DEF DeliverEvent
  <2>5. TypeOK'
    BY <1>2, <1>5, <2>3, <2>4 DEF DeliverEvent, bindingVars, Aside, Noted, legacyVars
  <2>6. Grown /\ EventsOK'
    BY <1>3, <2>5, StillGrown, EventsStay
  <2>7. JobOK(j)'
    BY <1>3, <2>2 DEF JobOK
  <2>8. \A k \in queue' : k \in queue \/ JobOK(k)'
    BY <2>4, <2>7 DEF JobOK
  <2> QED BY <1>5, <2>5, <2>6, <2>8, EventKnown DEF DeliverEvent, bindingVars, Aside, Noted, legacyVars
<1> QED BY <1>4, <1>5

-----------------------------------------------------------------------------
(* Tasks and the deprecated syncer.                                         *)

LEMMA EmitKnown ==
  ASSUME KnownInv, Noted, NEW c \in Callers, NEW t \in Tasks, NEW saved \in Task,
         task' = Update(task, t, saved), Emit(c, t, saved), edits' \in Texts, disturbed' \in BOOLEAN,
         edit' \in [Callers -> Edit \cup {NoCall}], OnlyTask, There(saved.row),
         \A d \in Callers : edit'[d] = edit[d] \/ edit'[d] = NoCall
  PROVE  KnownInv'
<1> USE DEF KnownInv, TypeOK, SyncTypeOK
<1>1. PICK b \in Bindings : b = CHOOSE x \in Bindings : TRUE
  BY SyncAssumption
<1>2. PICK q : q = [Pushes(b, t, 0) EXCEPT !.at = "entity"]
  OBVIOUS
<1>3. q \in Pushing /\ q.at = "entity" /\ q.task = t
  <2>1. 0 \in Texts /\ 0 \in 0 .. Retries - 1
    BY SyncAssumption DEF Texts
  <2> QED BY <1>2, <2>1 DEF Pushes, Pushing
<1>4. push' = [push EXCEPT ![c] = q]
  BY <1>1, <1>2 DEF Emit, StartPush, Update
<1>5. PICK n : n = [at |-> "binding", task |-> t, row |-> saved.row, text |-> saved.text, binding |-> NoBinding]
  OBVIOUS
<1>6. n \in Twin /\ n.at = "binding" /\ n.task = t /\ n.row = saved.row
  BY <1>5 DEF Twin, Task
<1>7. twin' = [twin EXCEPT ![c] = n]
  BY <1>5 DEF Emit, Update
<1>8. /\ task' \in [Tasks -> Task \cup {NoTask}] /\ task'[t] = saved
      /\ \A x \in Tasks : task[x] \in Task => task'[x] \in Task
  BY TaskSaved
<1>9. TypeOK'
  BY <1>3, <1>4, <1>6, <1>7, <1>8 DEF OnlyTask, bindingVars, tableVars, queueVars, Noted
<1>10. UNCHANGED <<row, applied, event>>
  BY DEF OnlyTask, tableVars
<1>11. Grown
  BY <1>8, <1>10 DEF Grown, TableRow, Version
<1>12. EventsOK'
  BY <1>9, <1>10, <1>11, EventsStay
<1>13. \A p \in Callers \cup Workers : push'[p] = push[p] \/ push'[p] = NoCall \/ PushOK(push[p])'
  BY <1>3, <1>4, <1>8 DEF PushOK
<1>14. \A d \in Callers : twin'[d] = twin[d] \/ twin'[d] = NoCall \/ TwinOK(twin[d])'
  <2>1. TwinOK(n)'
    BY <1>6, <1>8, <1>10 DEF TwinOK, There
  <2>2. \A d \in Callers : twin'[d] = twin[d] \/ twin'[d] = n
    BY <1>7
  <2> QED BY <2>1, <2>2 DEF TwinOK, There, Has
<1>15. \A x \in Tasks : task'[x] = task[x] \/ There(task[x].row)'
  <2>1. \A x \in Tasks : task'[x] = task[x] \/ task'[x] = saved
    BY TaskSaved
  <2> QED BY <1>10, <2>1 DEF There
<1> QED BY <1>9, <1>11, <1>12, <1>13, <1>14, <1>15, EventKnown DEF OnlyTask, bindingVars, queueVars

LEMMA TaskStepKnown ==
  ASSUME KnownInv, Noted, NEW c \in Callers,
         SaveEdit(c) \/ \E t \in Tasks : CreateTask(c, t) \/ ReadTask(c, t)
  PROVE  KnownInv'
<1> USE DEF KnownInv, TypeOK, SyncTypeOK
<1>1. CASE SaveEdit(c)
  <2>1. PICK d \in Edit : d = edit[c]
    BY <1>1, NoLegacyAssumption DEF SaveEdit
  <2>2. PICK t \in Tasks : t = d.task
    BY DEF Edit
  <2>3. PICK text \in Texts : text = edits + 1 /\ edits' = text
    BY <1>1, SyncAssumption DEF SaveEdit, Texts
  <2>4. PICK saved \in Task : saved = [text |-> text, row |-> d.was.row]
    BY DEF Edit, Task
  <2>5. task' = Update(task, t, saved)
    BY <1>1, <2>1, <2>2, <2>3, <2>4 DEF SaveEdit
  <2>6. task'[t] = saved
    BY <2>5, TaskSaved
  <2>7. Emit(c, t, saved) /\ OnlyTask /\ disturbed' = TRUE /\ edit' = Update(edit, c, NoCall)
    BY <1>1, <2>1, <2>2, <2>6 DEF SaveEdit
  <2>8. /\ edit' \in [Callers -> Edit \cup {NoCall}]
        /\ \A x \in Callers : edit'[x] = edit[x] \/ edit'[x] = NoCall
    BY <2>7 DEF Update
  <2>9. There(saved.row)
    BY <2>1, <2>4 DEF EditsOK, EditOK, There
  <2> QED BY <2>3, <2>5, <2>7, <2>8, <2>9, EmitKnown
<1>2. ASSUME NEW t \in Tasks, CreateTask(c, t) PROVE KnownInv'
  <2>3. PICK text \in Texts : text = edits + 1 /\ edits' = text
    BY <1>2, SyncAssumption DEF CreateTask, Texts
  <2>4. PICK saved \in Task : saved = [text |-> text, row |-> NoRow]
    BY DEF Task
  <2>5. task' = Update(task, t, saved)
    BY <1>2, <2>3, <2>4 DEF CreateTask
  <2>6. task'[t] = saved
    BY <2>5, TaskSaved
  <2>7. Emit(c, t, saved) /\ OnlyTask /\ UNCHANGED <<edit, disturbed>>
    BY <1>2, <2>6 DEF CreateTask
  <2>8. There(saved.row)
    BY <2>4, SyncAssumption DEF There
  <2> QED BY <2>3, <2>5, <2>7, <2>8, EmitKnown
<1>3. ASSUME NEW t \in Tasks, ReadTask(c, t) PROVE KnownInv'
  <2>1. PICK d \in Edit : d = [task |-> t, was |-> task[t]]
    BY <1>3 DEF ReadTask, Edit
  <2>2. edit' \in [Callers -> Edit \cup {NoCall}]
    BY <1>3, <2>1 DEF ReadTask, Update
  <2>3. UNCHANGED <<task, row, applied, event>>
    BY <1>3 DEF ReadTask, OnlyTask, tableVars
  <2>4. TypeOK'
    BY <1>3, <2>2 DEF ReadTask, OnlyTask, bindingVars, tableVars, queueVars, Noted
  <2>5. Grown /\ EventsOK'
    BY <2>3, <2>4, StillGrown, EventsStay
  <2>6. EditOK(d)'
    <3>1. task[t] \in Task /\ d.task = t /\ d.was = task[t]
      BY <1>3, <2>1 DEF ReadTask
    <3> QED BY <2>3, <3>1 DEF EditOK, There, Has, TasksOK
  <2>7. \A x \in Callers : edit'[x] = edit[x] \/ edit'[x] = NoCall \/ EditOK(edit[x])'
    <3>1. \A x \in Callers : edit'[x] = edit[x] \/ edit'[x] = d
      BY <1>3, <2>1 DEF ReadTask, Update
    <3> QED BY <2>6, <3>1 DEF EditOK, There, Has
  <2> QED BY <1>3, <2>3, <2>4, <2>5, <2>7, EventKnown DEF ReadTask, OnlyTask, bindingVars, queueVars
<1> QED BY <1>1, <1>2, <1>3

LEMMA HeldTwin ==
  ASSUME KnownInv, NEW c \in Callers, twin[c] # NoCall
  PROVE  twin[c] \in Twin /\ TwinOK(twin[c])
BY DEF KnownInv, TypeOK, TwinsOK

LEMMA TwinStays ==
  ASSUME Noted, UNCHANGED <<task, row>>, NEW n, TwinOK(n)
  PROVE  TwinOK(n)'
BY DEF TwinOK, There, Has, Noted

\* A step of the deprecated push that writes no row, task or link.
LEMMA TwinReplaced ==
  ASSUME KnownInv, Noted, OnlyTwin, UNCHANGED <<task, tableVars, link, ours, disturbed>>,
         faults' \in 0 .. MaxFaults, NEW c \in Callers, NEW n \in Twin \cup {NoCall},
         twin' = Update(twin, c, n), n \in Twin => TwinOK(n)
  PROVE  KnownInv'
<1> USE DEF KnownInv, TypeOK, SyncTypeOK
<1>1. twin' \in [Callers -> Twin \cup {NoCall}]
  BY DEF Update
<1>2. TypeOK'
  BY <1>1 DEF OnlyTwin, bindingVars, tableVars, queueVars, Noted
<1>3. UNCHANGED <<task, row, applied, event>>
  BY DEF OnlyTwin, tableVars
<1>4. Grown /\ EventsOK'
  BY <1>2, <1>3, StillGrown, EventsStay
<1>5. \A d \in Callers : twin'[d] = twin[d] \/ twin'[d] = NoCall \/ TwinOK(twin[d])'
  <2>1. n \in Twin => TwinOK(n)'
    BY <1>3, TwinStays
  <2>2. \A d \in Callers : twin'[d] = twin[d] \/ twin'[d] = n
    BY DEF Update
  <2> QED BY <2>1, <2>2 DEF TwinOK, There, Has
<1> QED BY <1>2, <1>3, <1>4, <1>5, EventKnown DEF OnlyTwin, bindingVars, queueVars

\* A step of the deprecated push that writes a row.
LEMMA RowTwinned ==
  ASSUME KnownInv, Noted, OnlyTwin, UNCHANGED <<task, link, faults>>,
         NEW c \in Callers, NEW n \in Twin \cup {NoCall}, twin' = Update(twin, c, n),
         NEW r \in Rows, NEW text \in Texts, WriteRow(r, text),
         n \in Twin => n.at = "mark" /\ n.row = r /\ n.binding \in Bindings /\ task[n.task] \in Task
  PROVE  KnownInv'
<1> USE DEF KnownInv, TypeOK, SyncTypeOK
<1>1. twin' \in [Callers -> Twin \cup {NoCall}]
  BY DEF Update
<1>2. UNCHANGED <<task, applied>>
  BY DEF OnlyTwin
<1>3. /\ row' \in [Rows -> TableRow \cup {NoRow}]
      /\ DOMAIN event' \in {1 .. m : m \in 0 .. MaxEvents} /\ \A e \in DOMAIN event' : event'[e] \in Event
      /\ owed' \in [1 .. MaxEvents -> 0 .. 2]
      /\ Grown /\ EventsOK' /\ row'[r] \in TableRow
  BY <1>2, WroteKnown DEF WriteRow
<1>4. ours' \subseteq Rows /\ disturbed' \in BOOLEAN
  BY DEF WriteRow
<1>5. TypeOK'
  BY <1>1, <1>3, <1>4 DEF OnlyTwin, bindingVars, queueVars, Noted
<1>6. \A d \in Callers : twin'[d] = twin[d] \/ twin'[d] = NoCall \/ TwinOK(twin[d])'
  <2>1. n \in Twin => TwinOK(n)'
    BY <1>2, <1>3 DEF TwinOK, There
  <2>2. \A d \in Callers : twin'[d] = twin[d] \/ twin'[d] = n
    BY DEF Update
  <2> QED BY <2>1, <2>2 DEF TwinOK, There, Has
<1> QED BY <1>2, <1>3, <1>5, <1>6, EventKnown DEF OnlyTwin, bindingVars, queueVars

LEMMA TwinStepKnown ==
  ASSUME KnownInv, Noted, NEW c \in Callers, TwinStep(c)
  PROVE  KnownInv'
<1> USE DEF KnownInv, TypeOK, SyncTypeOK
<1>1. PICK n \in Twin : n = twin[c] /\ TwinOK(n)
  BY HeldTwin DEF TwinStep, TwinBinding, TwinUpdate, TwinMark, TwinLink, FailTwin, TwinCreate, TwinAt
<1>2. n.task \in Tasks /\ n.text \in Texts
  BY DEF Twin
<1>0. PICK none \in Twin \cup {NoCall} : none = NoCall /\ none \notin Twin
  BY NoLegacyAssumption
<1>3. CASE TwinBinding(c)
  <2>1. CASE live = NoBinding
    BY <1>0, <1>3, <2>1, TwinReplaced DEF TwinBinding
  <2>2. CASE live # NoBinding
    <3>1. PICK at \in {"create", "update"} : at = IF n.row = NoRow THEN "create" ELSE "update"
      OBVIOUS
    <3>2. PICK b \in Bindings : b = live
      BY <2>2
    <3>3. PICK z : z = [n EXCEPT !.binding = b, !.at = at]
      OBVIOUS
    <3>4. z \in Twin /\ z.binding = b /\ z.at = at /\ z.row = n.row /\ z.task = n.task
      BY <3>3 DEF Twin
    <3>5. TwinOK(z)
      BY <1>1, <3>1, <3>4 DEF TwinOK, Twin
    <3>6. twin' = Update(twin, c, z)
      BY <1>1, <1>3, <2>2, <3>1, <3>2, <3>3 DEF TwinBinding, Update
    <3> QED BY <1>3, <3>4, <3>5, <3>6, TwinReplaced DEF TwinBinding
  <2> QED BY <2>1, <2>2
<1>4. CASE TwinUpdate(c)
  <2>1. n.row \in Rows
    BY <1>1, <1>4 DEF TwinUpdate, TwinAt, TwinOK
  <2>2. PICK r \in Rows, text \in Texts : r = n.row /\ text = n.text
    BY <1>2, <2>1
  <2>3. WriteRow(r, text) /\ OnlyTwin /\ UNCHANGED <<task, link, faults>> /\ twin' = Update(twin, c, none)
    BY <1>0, <1>1, <1>4, <2>2 DEF TwinUpdate
  <2> QED BY <1>0, <2>3, RowTwinned
<1>5. ASSUME NEW r \in Rows, TwinCreate(c, r) PROVE KnownInv'
  <2>1. PICK z : z = [n EXCEPT !.at = "mark", !.row = r]
    OBVIOUS
  <2>2. z \in Twin /\ z.at = "mark" /\ z.row = r /\ z.task = n.task /\ z.binding = n.binding
    BY <2>1 DEF Twin
  <2>3. z.binding \in Bindings /\ task[z.task] \in Task
    BY <1>1, <1>5, <2>2 DEF TwinOK, TwinCreate, TwinAt
  <2>4. twin' = Update(twin, c, z)
    BY <1>1, <1>5, <2>1 DEF TwinCreate, Update
  <2>5. PICK text \in Texts : text = n.text
    BY <1>2
  <2>6. WriteRow(r, text) /\ OnlyTwin /\ UNCHANGED <<task, link, faults>>
    BY <1>1, <1>5, <2>5 DEF TwinCreate
  <2> QED BY <2>2, <2>3, <2>4, <2>6, RowTwinned
<1>6. CASE TwinMark(c)
  <2>1. n.at = "mark" /\ n.row \in Rows /\ task[n.task] \in Task
    BY <1>1, <1>6 DEF TwinMark, TwinAt, TwinOK
  <2>2. PICK saved : saved = [task[n.task] EXCEPT !.row = n.row]
    OBVIOUS
  <2>3. saved \in Task
    BY <2>1, <2>2 DEF Task
  <2>4. task' = Update(task, n.task, saved)
    BY <1>1, <1>6, <2>2 DEF TwinMark, Update
  <2>5. /\ task' \in [Tasks -> Task \cup {NoTask}]
        /\ \A x \in Tasks : task[x] \in Task => task'[x] \in Task
    BY <1>2, <2>3, <2>4, TaskSaved
  <2>6. PICK z : z = [n EXCEPT !.at = "link"]
    OBVIOUS
  <2>7. z \in Twin /\ z.at = "link" /\ z.row = n.row /\ z.task = n.task /\ z.binding = n.binding
    BY <2>6 DEF Twin
  <2>8. twin' = [twin EXCEPT ![c] = z]
    BY <1>1, <1>6, <2>6 DEF TwinMark
  <2>9. OnlyTwin /\ UNCHANGED <<tableVars, link, faults, ours, disturbed>>
    BY <1>6 DEF TwinMark
  <2>10. TypeOK'
    BY <2>5, <2>7, <2>8, <2>9 DEF OnlyTwin, bindingVars, tableVars, queueVars, Noted
  <2>11. UNCHANGED <<row, applied, event>>
    BY <2>9 DEF OnlyTwin, tableVars
  <2>12. Grown
    BY <2>5, <2>11 DEF Grown, TableRow, Version
  <2>13. EventsOK'
    BY <2>10, <2>11, <2>12, EventsStay
  <2>16. There(n.row) /\ task'[n.task] = saved /\ saved.row = n.row
    BY <1>1, <1>2, <2>2, <2>3, <2>4, TaskSaved DEF TwinOK, Task
  <2>14. TwinOK(z)'
    <3>1. task'[z.task] \in Task /\ There(z.row)' /\ Has(z.task, z.row)'
      BY <1>1, <1>2, <2>1, <2>3, <2>5, <2>7, <2>11, <2>16 DEF There, Has
    <3> QED BY <1>1, <2>1, <2>7, <3>1 DEF TwinOK
  <2>15. \A d \in Callers : twin'[d] = twin[d] \/ twin'[d] = NoCall \/ TwinOK(twin[d])'
    <3>1. \A d \in Callers : twin'[d] = twin[d] \/ twin'[d] = z
      BY <2>8
    <3> QED BY <2>14, <3>1 DEF TwinOK, There, Has
  <2>17. \A x \in Tasks : task'[x] = task[x] \/ There(task[x].row)'
    <3>1. \A x \in Tasks : task'[x] = task[x] \/ task'[x].row = n.row
      BY <1>2, <2>3, <2>4, <2>16, TaskSaved
    <3> QED BY <2>11, <2>16, <3>1 DEF There
  <2> QED BY <2>9, <2>10, <2>12, <2>13, <2>15, <2>17, EventKnown DEF OnlyTwin, bindingVars, queueVars
<1>7. CASE TwinLink(c)
  <2>1. n.at = "link" /\ n.row \in Rows /\ n.binding \in Bindings
    BY <1>1, <1>7 DEF TwinLink, TwinAt, TwinOK
  <2>2. PICK l : l = [EmptyLink EXCEPT !.task = n.task]
    OBVIOUS
  <2>3. l \in Link /\ l.event = 0 /\ l.task = n.task
    BY <1>2, <2>2, SyncAssumption DEF EmptyLink, Link
  <2>4. link' = link \/ link' = [link EXCEPT ![<<n.binding, n.row>>] = l]
    BY <1>1, <1>7, <2>2 DEF TwinLink
  <2>5. link' \in [Bindings \X Rows -> Link \cup {NoLink}]
    BY <2>1, <2>3, <2>4
  <2>6. OnlyTwin /\ UNCHANGED <<task, tableVars, faults, ours, disturbed>> /\ twin' = Update(twin, c, NoCall)
    BY <1>7 DEF TwinLink
  <2>7. twin' \in [Callers -> Twin \cup {NoCall}] /\ \A d \in Callers : twin'[d] = twin[d] \/ twin'[d] = NoCall
    BY <2>6 DEF Update
  <2>8. TypeOK'
    BY <2>5, <2>6, <2>7 DEF OnlyTwin, bindingVars, tableVars, queueVars, Noted
  <2>9. UNCHANGED <<task, row, applied, event>>
    BY <2>6 DEF OnlyTwin, tableVars
  <2>10. Grown /\ EventsOK'
    BY <2>8, <2>9, StillGrown, EventsStay
  <2>11. \A b \in Bindings, r \in Rows :
           link'[<<b, r>>] = link[<<b, r>>] \/ link'[<<b, r>>] = NoLink \/ Sound(link[<<b, r>>], r)'
    <3>1. Sound(l, n.row)
      BY <1>1, <2>1, <2>3 DEF Sound, TwinOK
    <3>2. Sound(l, n.row)'
      BY <2>9, <3>1, SoundStays
    <3>3. \A b \in Bindings, r \in Rows : link'[<<b, r>>] = link[<<b, r>>] \/ (link'[<<b, r>>] = l /\ r = n.row)
      BY <2>1, <2>4
    <3> QED BY <3>2, <3>3 DEF Sound, Has
  <2>12. LinksOK' /\ TwinsOK' /\ TasksOK'
    BY <2>7, <2>8, <2>9, <2>10, <2>11, LinksStay, TwinsStay, TasksStay
  <2>13. Settled' /\ QueueOK' /\ HandlingsOK' /\ PushesOK' /\ EditsOK' /\ LegacyPullOK'
    BY <2>6, <2>8, <2>10, SettledStays, QueueStays, HandlingsStay, PushesStay, EditsStay, LegacyPullStays
       DEF OnlyTwin, bindingVars, queueVars
  <2> QED BY <2>8, <2>10, <2>12, <2>13
<1>8. CASE FailTwin(c)
  <2>1. faults' \in 0 .. MaxFaults
    BY <1>8, FaultType DEF FailTwin
  <2>2. OnlyTwin /\ UNCHANGED <<task, tableVars, link, ours, disturbed>> /\ twin' = Update(twin, c, none)
    BY <1>0, <1>8 DEF FailTwin
  <2> QED BY <1>0, <2>1, <2>2, TwinReplaced
<1> QED BY <1>3, <1>4, <1>5, <1>6, <1>7, <1>8 DEF TwinStep

-----------------------------------------------------------------------------
(* The deprecated full sync.                                                *)

\* What its steps leave alone.
LEMMA OnlyPullKnown ==
  ASSUME KnownInv, Noted, OnlyPull, TypeOK', Grown, Settled',
         \A t \in Tasks : task'[t] = task[t] \/ There(task[t].row)',
         pull' = pull \/ pull' = NoCall \/ PullOK(pull)',
         \A b \in Bindings, r \in Rows :
           link'[<<b, r>>] = link[<<b, r>>] \/ link'[<<b, r>>] = NoLink \/ Sound(link[<<b, r>>], r)'
  PROVE  KnownInv'
<1>1. UNCHANGED <<event, queue, job, push, edit, twin>>
  BY DEF OnlyPull, tableVars, queueVars
<1>2. EventsOK' /\ TasksOK' /\ QueueOK' /\ LinksOK'
  BY <1>1, EventsStay, TasksStay, QueueStays, LinksStay
<1>3. HandlingsOK' /\ PushesOK' /\ EditsOK' /\ TwinsOK' /\ LegacyPullOK'
  BY <1>1, HandlingsStay, PushesStay, EditsStay, TwinsStay, LegacyPullStays
<1> QED BY <1>2, <1>3 DEF KnownInv

LEMMA PullIs ==
  ASSUME KnownInv, pull # NoCall
  PROVE  pull \in Pull /\ PullOK(pull)
BY DEF KnownInv, TypeOK, LegacyPullOK

LEMMA PullStays ==
  ASSUME Noted, UNCHANGED <<task, row, applied, event>>, NEW q, PullOK(q)
  PROVE  PullOK(q)'
<1>1. /\ (\A r \in Rows : q.rows[r] \in TableRow => There(r))'
      /\ Has(q.found, q.row) => Has(q.found, q.row)'
  BY DEF PullOK, There, Has, Noted
<1>2. Sound(q.was, q.row) => Sound(q.was, q.row)'
  BY SoundStays
<1> QED BY <1>1, <1>2 DEF PullOK

\* A step that saves no task and no link.
LEMMA PullReplaced ==
  ASSUME KnownInv, Noted, OnlyPull, UNCHANGED <<task, link, applied, disturbed>>,
         faults' \in 0 .. MaxFaults, pulls' \in [Bindings -> Nat],
         binding' \in [Bindings -> Binding \cup {NoBinding}], live' \in Bindings \cup {NoBinding},
         Settled', NEW n \in Pull \cup {NoCall}, pull' = n, n \in Pull => PullOK(n)
  PROVE  KnownInv'
<1> USE DEF KnownInv, TypeOK, SyncTypeOK
<1>1. UNCHANGED <<task, row, applied, event>>
  BY DEF OnlyPull, tableVars
<1>2. TypeOK'
  BY DEF OnlyPull, tableVars, queueVars, Noted
<1>3. Grown
  BY <1>1, StillGrown
<1>4. n \in Pull => PullOK(pull)'
  <2>1. n \in Pull => PullOK(n)'
    BY <1>1, PullStays
  <2> QED BY <2>1 DEF PullOK, Sound, There, Has
<1> QED BY <1>1, <1>2, <1>3, <1>4, OnlyPullKnown

\* Its binding is saved as it was read.
LEMMA SaveReadKnown ==
  ASSUME KnownInv, pull # NoCall, SaveRead
  PROVE  /\ binding' \in [Bindings -> Binding \cup {NoBinding}]
         /\ live' \in Bindings \cup {NoBinding} /\ Settled'
<1> USE DEF KnownInv, TypeOK, SyncTypeOK
<1>1. pull \in Pull /\ pull.binding \in Bindings /\ pull.settings \in Binding
  BY PullIs DEF Pull
<1>2. live' \in Bindings \cup {NoBinding}
  BY <1>1 DEF SaveRead
<1>3. binding' \in [Bindings -> Binding \cup {NoBinding}]
  BY <1>1 DEF SaveRead, Update
<1>4. CASE live \in {NoBinding, pull.binding}
  <2>1. live' = pull.binding /\ binding'[pull.binding] \in Binding
    BY <1>1, <1>4 DEF SaveRead, Update
  <2> QED BY <1>2, <1>3, <2>1 DEF Settled
<1>5. CASE live \notin {NoBinding, pull.binding}
  BY <1>2, <1>3, <1>5 DEF SaveRead, Settled
<1> QED BY <1>2, <1>3, <1>4, <1>5

LEMMA StartedPull ==
  ASSUME KnownInv, NEW b \in Bindings, NEW settings \in Binding, NEW tries \in 0 .. Attempts - 1,
         NEW n, n = [Pulls(b, tries) EXCEPT !.settings = settings]
  PROVE  n \in Pull /\ PullOK(n)
<1>1. NoRows \in [Rows -> TableRow \cup {NoRow}]
  BY DEF NoRows
<1>2. n \in Pull /\ n.at = "list" /\ n.rows = NoRows
  BY <1>1 DEF Pulls, Pull
<1>3. \A r \in Rows : NoRows[r] \notin TableRow
  BY NothingAssumption DEF NoRows
<1> QED BY <1>2, <1>3 DEF PullOK

LEMMA TakePullKnown ==
  ASSUME KnownInv, Noted, NEW b \in Bindings, TakePull(b)
  PROVE  KnownInv'
<1> USE DEF KnownInv, TypeOK, SyncTypeOK
<1>1. pulls' \in [Bindings -> Nat]
  <2>1. PICK n \in Nat : n = pulls[b] - 1
    BY DEF TakePull
  <2>2. pulls' = [pulls EXCEPT ![b] = n]
    BY <2>1 DEF TakePull, Update
  <2> QED BY <2>2
<1>2. Settled'
  BY SettledStays DEF TakePull
<1>3. PICK n \in Pull \cup {NoCall} : pull' = n /\ (n \in Pull => PullOK(n))
  <2>0. NoCall \notin Pull
    BY NoLegacyAssumption
  <2>1. CASE live # b
    BY <2>0, <2>1 DEF TakePull
  <2>2. CASE live = b
    <3>1. PICK settings \in Binding : settings = binding[b]
      BY <2>2 DEF Settled
    <3>2. PICK tries \in 0 .. Attempts - 1 : tries = 0
      BY SyncAssumption
    <3>3. PICK n : n = [Pulls(b, tries) EXCEPT !.settings = settings]
      OBVIOUS
    <3>4. n = Pulls(b, 0)
      BY <3>1, <3>2, <3>3 DEF Pulls
    <3>5. n \in Pull /\ PullOK(n)
      BY <3>3, StartedPull
    <3> QED BY <2>2, <3>4, <3>5 DEF TakePull
  <2> QED BY <2>1, <2>2
<1> QED BY <1>1, <1>2, <1>3, PullReplaced DEF TakePull

\* What a step that only looks leaves alone.
LEMMA PullLooked ==
  ASSUME KnownInv, Noted, PullMoves, NEW n \in Pull, pull' = n, PullOK(n)
  PROVE  KnownInv'
<1>1. Settled'
  BY SettledStays DEF PullMoves
<1> QED BY <1>1, PullReplaced DEF PullMoves, KnownInv, TypeOK, SyncTypeOK

LEMMA PullLooksKnown ==
  ASSUME KnownInv, Noted, LegacyList \/ LegacyNext \/ LegacyFindLink \/ LegacyFind
  PROVE  KnownInv'
<1> USE DEF KnownInv, TypeOK, SyncTypeOK
<1>1. PICK q \in Pull : q = pull /\ PullOK(q)
  BY PullIs DEF LegacyList, LegacyNext, LegacyFindLink, LegacyFind, PullAt
<1>2. CASE LegacyList
  <2>1. PICK todo \in SUBSET Rows : todo = {r \in Rows : row[r] # NoRow}
    OBVIOUS
  <2>2. PICK n : n = [q EXCEPT !.at = "next", !.rows = row, !.todo = todo]
    OBVIOUS
  <2>3. n \in Pull /\ n.at = "next" /\ n.rows = row /\ n.todo = todo
    BY <2>2 DEF Pull
  <2>4. PullOK(n)
    BY <2>1, <2>3 DEF PullOK, There
  <2>5. pull' = n
    BY <1>1, <1>2, <2>1, <2>2 DEF LegacyList
  <2> QED BY <1>2, <2>3, <2>4, <2>5, PullLooked DEF LegacyList
<1>3. CASE LegacyNext
  <2>1. q.at = "next"
    BY <1>1, <1>3 DEF LegacyNext, PullAt
  <2>2. CASE q.todo = {} /\ pull' = [pull EXCEPT !.at = "end"]
    <3>1. PICK n : n = [q EXCEPT !.at = "end"]
      OBVIOUS
    <3>2. n \in Pull /\ n.at = "end" /\ n.todo = {} /\ n.rows = q.rows
      BY <2>2, <3>1 DEF Pull
    <3>3. PullOK(n)
      BY <1>1, <3>2 DEF PullOK
    <3> QED BY <1>1, <1>3, <2>2, <3>1, <3>2, <3>3, PullLooked DEF LegacyNext
  <2>3. ASSUME NEW r \in q.todo, pull' = [pull EXCEPT !.at = "findlink", !.todo = @ \ {r}, !.row = r]
        PROVE  KnownInv'
    <3>1. r \in Rows /\ q.todo \subseteq Rows
      BY DEF Pull
    <3>2. PICK todo \in SUBSET Rows : todo = q.todo \ {r}
      BY <3>1
    <3>3. PICK n : n = [q EXCEPT !.at = "findlink", !.todo = todo, !.row = r]
      OBVIOUS
    <3>4. n \in Pull /\ n.at = "findlink" /\ n.todo = todo /\ n.row = r /\ n.rows = q.rows
      BY <3>1, <3>3 DEF Pull
    <3>5. PullOK(n)
      BY <1>1, <2>1, <3>1, <3>2, <3>4 DEF PullOK
    <3>6. pull' = n
      BY <1>1, <2>3, <3>2, <3>3
    <3> QED BY <1>3, <3>4, <3>5, <3>6, PullLooked DEF LegacyNext
  <2> QED BY <1>1, <1>3, <2>2, <2>3 DEF LegacyNext
<1>4. CASE LegacyFindLink
  <2>1. q.at = "findlink" /\ q.row \in Rows /\ q.binding \in Bindings
    BY <1>1, <1>4 DEF LegacyFindLink, PullAt, PullOK, Pull
  <2>2. PICK b \in Bindings, r \in Rows : b = q.binding /\ r = q.row
    BY <2>1
  <2>3. PICK was \in Link \cup {NoLink} : was = link[<<b, r>>]
    OBVIOUS
  <2>4. Sound(was, r)
    BY <2>3 DEF LinksOK
  <2>5. PICK n : n = [q EXCEPT !.at = "find", !.was = was]
    OBVIOUS
  <2>6. n \in Pull /\ n.at = "find" /\ n.was = was /\ n.row = r /\ n.rows = q.rows /\ n.todo = q.todo
    BY <2>2, <2>5 DEF Pull
  <2>7. PullOK(n)
    BY <1>1, <2>1, <2>2, <2>4, <2>6 DEF PullOK
  <2>8. pull' = n
    BY <1>1, <1>4, <2>2, <2>3, <2>5 DEF LegacyFindLink
  <2> QED BY <1>4, <2>6, <2>7, <2>8, PullLooked DEF LegacyFindLink
<1>5. CASE LegacyFind
  <2>1. q.at = "find"
    BY <1>1, <1>5 DEF LegacyFind, PullAt
  <2>6. q.row \in Rows /\ Sound(q.was, q.row)
    BY <1>1, <2>1 DEF PullOK
  <2>7. PICK linked : linked = {t \in Tasks : q.was # NoLink /\ q.was.task = t}
    OBVIOUS
  <2>8. \A t \in linked \cup Imported(q.row) : t \in Tasks /\ Has(t, q.row)
    BY <1>1, <2>6, <2>7, NothingAssumption DEF Imported, Has, Sound, Pull
  <2>9. \E t \in linked \cup Imported(q.row) \cup {NoTask} : pull' = [pull EXCEPT !.at = "save", !.found = t]
    BY <1>1, <1>5, <2>7 DEF LegacyFind
  <2>2. PICK t \in linked \cup Imported(q.row) \cup {NoTask} : pull' = [pull EXCEPT !.at = "save", !.found = t]
    BY <2>9
  <2>10. t \in Tasks \cup {NoTask} /\ (t # NoTask => Has(t, q.row))
    BY <2>8
  <2>3. PICK n : n = [q EXCEPT !.at = "save", !.found = t]
    OBVIOUS
  <2>4. /\ n \in Pull /\ n.at = "save" /\ n.was = q.was /\ n.row = q.row /\ n.rows = q.rows
        /\ n.todo = q.todo /\ n.found = t
    BY <2>3, <2>10 DEF Pull
  <2>5. PullOK(n)
    BY <1>1, <2>1, <2>4, <2>10 DEF PullOK, Has
  <2> QED BY <1>1, <1>5, <2>2, <2>3, <2>4, <2>5, PullLooked DEF LegacyFind
<1> QED BY <1>2, <1>3, <1>4, <1>5

LEMMA LegacySaveKnown ==
  ASSUME KnownInv, Noted, LegacySave
  PROVE  KnownInv'
<1> USE DEF KnownInv, TypeOK, SyncTypeOK
<1>1. PICK q \in Pull : q = pull /\ PullOK(q) /\ q.at = "save"
  BY PullIs DEF LegacySave, PullAt
<1>2. PICK r \in Rows : r = q.row /\ q.rows[r] \in TableRow /\ Sound(q.was, r)
  BY <1>1 DEF PullOK
<1>3. PICK read \in TableRow : read = q.rows[r]
  BY <1>2
<1>4. PICK v \in Nat : v = read.version
  BY DEF TableRow, Version
<1>5. PICK saved \in Task : saved = [text |-> read.text, row |-> r]
  BY DEF TableRow, Task
<1>6. PICK t \in Tasks : /\ task' = Update(task, t, saved)
                         /\ pull' = [pull EXCEPT !.at = "savelink", !.found = t]
  <2>1. PICK t \in IF q.found = NoTask THEN Fresh(task, NoTask) ELSE {q.found} :
          /\ task' = Update(task, t, saved)
          /\ pull' = [pull EXCEPT !.at = "savelink", !.found = t]
    BY <1>1, <1>2, <1>3, <1>5 DEF LegacySave
  <2>2. t \in Tasks
    BY <2>1, FreshTask DEF Pull
  <2> QED BY <2>1, <2>2
<1>7. OnlyPull /\ UNCHANGED <<binding, live, link, pulls, faults>> /\ Applied(r, v)
  BY <1>1, <1>2, <1>3, <1>4 DEF LegacySave
<1>8. /\ task' \in [Tasks -> Task \cup {NoTask}]
      /\ \A x \in Tasks : task[x] \in Task => task'[x] \in Task
  BY <1>6, TaskSaved
<1>9. /\ applied' \in [Rows -> Version] /\ disturbed' \in BOOLEAN
      /\ \A x \in Rows : applied'[x] >= applied[x]
  BY <1>7, AppliedIs
<1>10. PICK n : n = [q EXCEPT !.at = "savelink", !.found = t]
  OBVIOUS
<1>11. /\ n \in Pull /\ n.at = "savelink" /\ n.was = q.was /\ n.row = r /\ n.rows = q.rows
       /\ n.todo = q.todo /\ n.found = t
  BY <1>2, <1>10 DEF Pull
<1>12. pull' = n
  BY <1>1, <1>6, <1>10
<1>13. TypeOK'
  BY <1>7, <1>8, <1>9, <1>11, <1>12 DEF OnlyPull, tableVars, queueVars, Noted
<1>14. Grown
  BY <1>7, <1>8, <1>9 DEF Grown, OnlyPull, tableVars, TableRow, Version
<1>15. Sound(n.was, r)'
  <2>1. PICK was : was = n.was
    OBVIOUS
  <2>2. Sound(was, r)'
    BY <1>2, <1>11, <1>13, <1>14, <2>1, SoundKept
  <2> QED BY <2>1, <2>2 DEF Sound, Has
<1>16. PullOK(pull)'
  <2>1. (\A x \in Rows : q.rows[x] \in TableRow => There(x))'
    BY <1>1, <1>14, ListedKept DEF PullOK
  <2>2. Has(t, r)'
    BY <1>5, <1>6, <1>8, TaskSaved DEF Has, Task
  <2>3. PullOK(n)'
    BY <1>1, <1>2, <1>11, <1>15, <2>1, <2>2 DEF PullOK, Has
  <2> QED BY <1>12, <2>3 DEF PullOK, Sound, There, Has
<1>18. \A x \in Tasks : task'[x] = task[x] \/ There(task[x].row)'
  <2>1. There(r)'
    BY <1>1, <1>2, <1>14, ThereKept DEF PullOK
  <2>2. \A x \in Tasks : task'[x] = task[x] \/ task'[x] = saved
    BY <1>6, TaskSaved
  <2> QED BY <1>5, <2>1, <2>2 DEF There
<1>17. Settled'
  BY <1>7, SettledStays
<1> QED BY <1>7, <1>13, <1>14, <1>16, <1>17, <1>18, OnlyPullKnown

LEMMA LegacySaveLinkKnown ==
  ASSUME KnownInv, Noted, LegacySaveLink
  PROVE  KnownInv'
<1> USE DEF KnownInv, TypeOK, SyncTypeOK
<1>1. PICK q \in Pull : q = pull /\ PullOK(q) /\ q.at = "savelink"
  BY PullIs DEF LegacySaveLink, PullAt
<1>2. PICK r \in Rows : r = q.row /\ Sound(q.was, r) /\ q.found \in Tasks /\ Has(q.found, r)
  BY <1>1 DEF PullOK
<1>3. PICK b \in Bindings, was \in Link \cup {NoLink}, t \in Tasks \cup {NoTask} :
        b = q.binding /\ was = q.was /\ t = q.found
  BY DEF Pull
<1>4. PICK base \in Link : base = Base(was) /\ Sound(base, r)
  BY <1>2, <1>3, BaseIs
<1>5. PICK l : l = [base EXCEPT !.task = t]
  OBVIOUS
<1>6. l \in Link /\ l.event = base.event /\ l.task = t
  BY <1>5 DEF Link
<1>7. Sound(l, r)
  BY <1>2, <1>3, <1>4, <1>6 DEF Sound
<1>8. link' = [link EXCEPT ![<<b, r>>] = l]
  BY <1>1, <1>2, <1>3, <1>4, <1>5 DEF LegacySaveLink
<1>9. PICK n : n = [q EXCEPT !.at = "next", !.row = NoRow, !.found = NoTask, !.was = NoLink]
  OBVIOUS
<1>10. n \in Pull /\ n.at = "next" /\ n.rows = q.rows /\ n.todo = q.todo
  BY <1>9 DEF Pull
<1>11. pull' = n
  BY <1>1, <1>9 DEF LegacySaveLink
<1>12. OnlyPull /\ UNCHANGED <<binding, live, task, pulls, faults, applied, disturbed>>
  BY DEF LegacySaveLink
<1>13. link' \in [Bindings \X Rows -> Link \cup {NoLink}]
  BY <1>6, <1>8
<1>14. TypeOK'
  BY <1>10, <1>11, <1>12, <1>13 DEF OnlyPull, tableVars, queueVars, Noted
<1>15. UNCHANGED <<task, row, applied, event>>
  BY <1>12 DEF OnlyPull, tableVars
<1>16. Grown
  BY <1>15, StillGrown
<1>17. PullOK(pull)'
  <2>1. PullOK(n)
    BY <1>1, <1>10 DEF PullOK
  <2>2. PullOK(n)'
    BY <1>15, <2>1, PullStays
  <2> QED BY <1>11, <2>2 DEF PullOK, Sound, There, Has
<1>18. Settled'
  BY <1>12, SettledStays
<1>19. \A c \in Bindings, x \in Rows :
         link'[<<c, x>>] = link[<<c, x>>] \/ link'[<<c, x>>] = NoLink \/ Sound(link[<<c, x>>], x)'
  <2>1. Sound(l, r)'
    BY <1>7, <1>15, SoundStays
  <2>2. \A c \in Bindings, x \in Rows : link'[<<c, x>>] = link[<<c, x>>] \/ (link'[<<c, x>>] = l /\ x = r)
    BY <1>8
  <2> QED BY <2>1, <2>2 DEF Sound, Has
<1> QED BY <1>12, <1>14, <1>15, <1>16, <1>17, <1>18, <1>19, OnlyPullKnown

LEMMA LegacyEndsKnown ==
  ASSUME KnownInv, Noted, LegacyEnd \/ LegacyFail
  PROVE  KnownInv'
<1> USE DEF KnownInv, TypeOK, SyncTypeOK
<1>1. PICK q \in Pull : q = pull /\ PullOK(q)
  BY PullIs DEF LegacyEnd, LegacyFail, PullAt
<1>2. pull # NoCall /\ SaveRead
  BY DEF LegacyEnd, LegacyFail, PullAt
<1>3. /\ binding' \in [Bindings -> Binding \cup {NoBinding}]
      /\ live' \in Bindings \cup {NoBinding} /\ Settled'
  BY <1>2, SaveReadKnown
<1>4. PICK none \in Pull \cup {NoCall} : none = NoCall /\ none \notin Pull
  BY NoLegacyAssumption
<1>5. faults' \in 0 .. MaxFaults
  BY FaultType DEF LegacyEnd, LegacyFail
<1>6. OnlyPull /\ UNCHANGED <<task, link, pulls, applied, disturbed>>
  BY DEF LegacyEnd, LegacyFail
<1>7. CASE pull' = NoCall
  BY <1>3, <1>4, <1>5, <1>6, <1>7, PullReplaced
<1>8. CASE LegacyFail /\ pull' # NoCall
  <2>1. PICK b \in Bindings, settings \in Binding : b = q.binding /\ settings = q.settings
    BY DEF Pull
  <2>6. q.tries \in 0 .. Attempts - 1 /\ q.tries + 1 # Attempts
    BY <1>1, <1>8 DEF LegacyFail, Pull
  <2>2. PICK tries : tries = q.tries + 1
    OBVIOUS
  <2>7. tries \in 0 .. Attempts - 1
    <3>1. PICK most \in Nat : most = Attempts
      BY SyncAssumption
    <3>2. PICK k \in 0 .. most - 1 : k = q.tries
      BY <2>6, <3>1
    <3> QED BY <2>2, <2>6, <3>1, <3>2
  <2>3. PICK n : n = [Pulls(b, tries) EXCEPT !.settings = settings]
    OBVIOUS
  <2>4. pull' = n
    BY <1>1, <1>8, <2>1, <2>2, <2>3 DEF LegacyFail
  <2>5. n \in Pull /\ PullOK(n)
    BY <2>3, <2>7, StartedPull
  <2> QED BY <1>3, <1>5, <1>6, <2>4, <2>5, PullReplaced
<1> QED BY <1>7, <1>8 DEF LegacyEnd

-----------------------------------------------------------------------------
(* All steps together.                                                      *)

LEMMA NotedIs ==
  ASSUME TypeOK, Record
  PROVE  Noted /\ (UNCHANGED legacyVars => Aside)
BY RecordIsNoted DEF Noted, Aside

LEMMA SyncStepKnown ==
  ASSUME KnownInv, Noted, SyncStep, UNCHANGED legacyVars
  PROVE  KnownInv'
<1>1. Aside
  BY DEF Noted, Aside
<1>2. ASSUME NEW b \in Bindings, \/ TriggerFullSync(b) \/ DeleteBinding(b)
                                 \/ \E d \in Directions : CreateBinding(b, d)
                                 \/ \E settings \in Binding : UpdateBinding(b, settings)
      PROVE  KnownInv'
  BY <1>2, BindingsKnown
<1>3. ASSUME NEW r \in Rows, EditRow(r) PROVE KnownInv'
  BY <1>1, <1>3, EditRowKnown
<1>4. ASSUME NEW e \in DOMAIN event, DeliverEvent(e) \/ LoseEvent(e) PROVE KnownInv'
  BY <1>1, <1>4, EventStepKnown
<1>5. ASSUME NEW w \in Workers, JobStep(w) \/ PushStep(w) \/ CrashJob(w) \/ \E j \in queue : TakeJob(w, j)
      PROVE  KnownInv'
  BY <1>1, <1>5, JobStepKnown, PushStepKnown
<1>6. ASSUME NEW c \in Callers, PushEntity(c) \/ PushStep(c) PROVE KnownInv'
  BY <1>1, <1>6, PushEntityKnown, PushStepKnown
<1> QED BY <1>2, <1>3, <1>4, <1>5, <1>6 DEF SyncStep

LEMMA StepKnown ==
  ASSUME KnownInv, Noted, Step
  PROVE  KnownInv'
<1>1. CASE SyncStep /\ UNCHANGED legacyVars
  BY <1>1, SyncStepKnown
<1>2. ASSUME NEW c \in Callers, \/ TwinStep(c) \/ SaveEdit(c)
                                \/ \E t \in Tasks : CreateTask(c, t) \/ ReadTask(c, t)
      PROVE  KnownInv'
  BY <1>2, TwinStepKnown, TaskStepKnown
<1>3. ASSUME NEW b \in Bindings, SaveBinding(b) \/ TriggerSync(b) \/ RemoveBinding(b) \/ TakePull(b)
      PROVE  KnownInv'
  BY <1>3, BindingsKnown, TakePullKnown
<1>4. CASE LegacyPull
  BY <1>4, PullLooksKnown, LegacySaveKnown, LegacySaveLinkKnown, LegacyEndsKnown DEF LegacyPull
<1> QED BY <1>1, <1>2, <1>3, <1>4 DEF Step

LEMMA KnownAtFirst == Init => KnownInv
<1> SUFFICES ASSUME Init PROVE KnownInv
  OBVIOUS
<1> USE DEF Init, SyncInit
<1>1. DOMAIN event = {}
  OBVIOUS
<1>2. SyncTypeOK
  <2>1. 0 \in Texts /\ 0 \in 0 .. MaxFaults /\ 0 \in 0 .. MaxBinds /\ 0 \in 0 .. MaxJobs /\ 0 \in 0 .. 2
    BY SyncAssumption DEF Texts
  <2>2. DOMAIN event \in {1 .. n : n \in 0 .. MaxEvents}
    <3>1. 0 \in 0 .. MaxEvents /\ 1 .. 0 = {}
      BY SyncAssumption
    <3> QED BY <1>1, <3>1
  <2>3. /\ binding \in [Bindings -> Binding \cup {NoBinding}] /\ task \in [Tasks -> Task \cup {NoTask}]
        /\ row \in [Rows -> TableRow \cup {NoRow}] /\ link \in [Bindings \X Rows -> Link \cup {NoLink}]
    OBVIOUS
  <2>4. /\ owed \in [1 .. MaxEvents -> 0 .. 2] /\ applied \in [Rows -> Version]
        /\ job \in [Workers -> Handling \cup {NoCall}]
        /\ push \in [Callers \cup Workers -> Pushing \cup {NoCall}]
    BY <2>1 DEF Version
  <2> QED BY <1>1, <2>1, <2>2, <2>3, <2>4 DEF SyncTypeOK
<1>3. TypeOK
  BY <1>2 DEF TypeOK
<1>4. Settled /\ EventsOK /\ QueueOK
  BY <1>1, SyncAssumption DEF Settled, EventsOK, QueueOK
<1>5. HandlingsOK /\ PushesOK
  BY NothingAssumption DEF HandlingsOK, PushesOK
<1>6. LinksOK
  BY NothingAssumption DEF LinksOK, Sound
<1>7. EditsOK /\ TwinsOK /\ LegacyPullOK
  BY NoLegacyAssumption DEF EditsOK, TwinsOK, LegacyPullOK
<1>8. TasksOK
  BY NothingAssumption DEF TasksOK
<1> QED BY <1>3, <1>4, <1>5, <1>6, <1>7, <1>8 DEF KnownInv

LEMMA KnownUnchanged ==
  ASSUME KnownInv, UNCHANGED vars
  PROVE  KnownInv'
<1> USE DEF vars, syncVars, bindingVars, tableVars, queueVars, legacyVars
<1>1. TypeOK'
  BY DEF KnownInv, TypeOK, SyncTypeOK
<1>2. Grown /\ Noted
  BY StillGrown DEF KnownInv, Noted, TypeOK
<1>3. EventsOK' /\ QueueOK' /\ TasksOK' /\ Settled' /\ LinksOK'
  BY <1>1, <1>2, SettledStays, EventsStay, TasksStay, QueueStays, LinksStay
<1> QED BY <1>1, <1>2, <1>3, HandlingsStay, PushesStay, EditsStay, TwinsStay, LegacyPullStays DEF KnownInv

LEMMA KnownInductive == Spec => []KnownInv
<1>1. KnownInv /\ [Next]_vars => KnownInv'
  <2>1. ASSUME KnownInv, Next PROVE KnownInv'
    BY <2>1, StepKnown, NotedIs DEF Next, KnownInv
  <2> QED BY <2>1, KnownUnchanged
<1> QED BY <1>1, KnownAtFirst, PTL DEF Spec

\* Everything the two syncers keep, and every call they have in hand, has its type.
THEOREM BitableTypeCorrect == Spec => []TypeOK
<1>1. KnownInv => TypeOK
  BY DEF KnownInv
<1> QED BY <1>1, KnownInductive, PTL

\* An event is remembered as handled only once the row, as it was at the event or later, has
\* been saved into a task, so that skipping the event when it comes again loses nothing.
THEOREM StampsAreApplied == Spec => []StampedIsApplied
<1>1. KnownInv => StampedIsApplied
  BY DEF KnownInv, TypeOK, SyncTypeOK, LinksOK, Sound, StampedIsApplied
<1> QED BY <1>1, KnownInductive, PTL

-----------------------------------------------------------------------------
(* A row becomes one task.                                                  *)

\* Handlers about to give their row a task, having found none.
JobClaims(h)  == h \in Handling /\ h.at = "save" /\ h.found = NoTask
TwinClaims(t) == t \in Twin /\ t.at = "mark"
PullClaims(q) == q \in Pull /\ q.at = "save" /\ q.found = NoTask
Claimed(r) ==
  \/ \E w \in Workers : JobClaims(job[w]) /\ job[w].row = r
  \/ \E c \in Callers : TwinClaims(twin[c]) /\ twin[c].row = r
  \/ PullClaims(pull) /\ pull.row = r

\* A row that is claimed has no task, and no row has two.
Single(r) == (Claimed(r) => Imported(r) = {}) /\ \A s, t \in Imported(r) : s = t

ClaimInv == moved \/ \A r \in Rows \ shared : Single(r)

LEMMA TwoApart ==
  ASSUME NEW x, NEW y, x # y
  PROVE  Cardinality({x, y}) = 2
<1>1. IsFiniteSet({x}) /\ Cardinality({x}) = 1
  BY FS_Singleton
<1>2. y \notin {x}
  OBVIOUS
<1>3. Cardinality({x} \cup {y}) = Cardinality({x}) + 1
  BY <1>1, <1>2, FS_AddElement
<1>4. {x} \cup {y} = {x, y}
  OBVIOUS
<1> QED BY <1>1, <1>3, <1>4

\* Unless they share a row, only one handler has it in hand.
LEMMA AloneAtRow ==
  ASSUME Record, NEW r \in Rows, r \notin shared', NEW x \in AtRow(r)', NEW y \in AtRow(r)'
  PROVE  x = y
<1> SUFFICES ASSUME x # y PROVE FALSE
  OBVIOUS
<1>1. PICK both : both = AtRow(r)'
  OBVIOUS
<1>2. IsFiniteSet(both)
  <2>1. both \subseteq (Workers \cup Callers) \cup Bindings
    BY <1>1 DEF AtRow
  <2>2. IsFiniteSet((Workers \cup Callers) \cup Bindings)
    BY FS_Union, SyncAssumption
  <2> QED BY <2>1, <2>2, FS_Subset
<1>3. Cardinality({x, y}) = 2
  BY TwoApart
<1>4. {x, y} \in SUBSET both
  BY <1>1
<1>5. Cardinality(both) >= 2
  BY <1>2, <1>3, <1>4, FS_Subset, FS_CardinalityType
<1>6. Cardinality(AtRow(r)') > 1
  BY <1>1, <1>2, <1>5, FS_CardinalityType
<1> QED BY <1>6 DEF Record

\* A step in which no task gets a row, and a row is claimed only when no task has it.
LEMMA ClaimStays ==
  ASSUME ClaimInv, Record, Noted,
         \A r \in Rows : moved \/ Imported(r)' \subseteq Imported(r),
         \A w \in Workers :
           job'[w] = job[w] \/ ~ JobClaims(job'[w]) \/ Imported(job'[w].row) = {},
         \A c \in Callers :
           twin'[c] = twin[c] \/ ~ TwinClaims(twin'[c]) \/ Imported(twin'[c].row) = {},
         pull' = pull \/ ~ PullClaims(pull') \/ Imported(pull'.row) = {}
  PROVE  ClaimInv'
<1> SUFFICES ASSUME ~ moved', NEW r \in Rows, r \notin shared'
             PROVE  Single(r)'
  BY DEF ClaimInv
<1>1. Single(r)
  BY DEF ClaimInv, Noted, Record
<1>2. \A t \in Imported(r)' : t \in Imported(r)
  BY DEF Noted
<1>3. Claimed(r)' => Claimed(r) \/ Imported(r) = {}
  BY DEF Claimed
<1> QED BY <1>1, <1>2, <1>3 DEF Single

\* A step in which a handler gives a row to a task.
LEMMA RowTaken ==
  ASSUME ClaimInv, Record, Noted, TypeOK, TypeOK', NEW r \in Rows, NEW t \in Tasks, NEW saved \in Task,
         saved.row = r, task' = Update(task, t, saved),
         moved \/ r \in shared \/ Imported(r) = {} \/ Has(t, r),
         \A w \in Workers : job'[w] = job[w] \/ ~ JobClaims(job'[w]),
         \A c \in Callers : twin'[c] = twin[c] \/ ~ TwinClaims(twin'[c]),
         pull' = pull \/ ~ PullClaims(pull'),
         NEW x \in AtRow(r)',
         \A w \in Workers : x = w => ~ JobClaims(job'[w]),
         \A c \in Callers : x = c => ~ TwinClaims(twin'[c]),
         \A b \in Bindings : x = b => ~ PullClaims(pull')
  PROVE  ClaimInv'
<1> SUFFICES ASSUME ~ moved', NEW y \in Rows, y \notin shared'
             PROVE  Single(y)'
  BY DEF ClaimInv
<1>1. Single(y) /\ ~ moved /\ y \notin shared
  BY DEF ClaimInv, Noted, Record
<1>2. task'[t] = saved /\ \A s \in Tasks : s # t => task'[s] = task[s]
  BY TaskSaved
<1>3. Claimed(y)' => Claimed(y)
  BY DEF Claimed
<1>4. CASE y # r \/ Has(t, r)
  <2>1. \A s \in Imported(y)' : s \in Imported(y)
    BY <1>1, <1>2, <1>4, NothingAssumption DEF Imported, Has
  <2> QED BY <1>1, <1>3, <2>1 DEF Single
<1>5. CASE y = r /\ Imported(r) = {}
  <2>1. \A s \in Imported(r)' : s = t
    BY <1>2, <1>5 DEF Imported
  <2>2. ~ Claimed(r)'
    <3>1. ASSUME NEW w \in Workers, JobClaims(job'[w]), job'[w].row = r PROVE FALSE
      <4>1. w \in AtRow(r)'
        BY <3>1, NothingAssumption DEF AtRow, JobClaims
      <4> QED BY <1>5, <3>1, <4>1, AloneAtRow
    <3>2. ASSUME NEW c \in Callers, TwinClaims(twin'[c]), twin'[c].row = r PROVE FALSE
      <4>1. c \in AtRow(r)'
        BY <3>2, NoLegacyAssumption DEF AtRow, TwinClaims
      <4> QED BY <1>5, <3>2, <4>1, AloneAtRow
    <3>3. ASSUME PullClaims(pull'), pull'.row = r PROVE FALSE
      <4>1. PICK b \in Bindings : b = pull'.binding
        BY <3>3 DEF PullClaims, Pull
      <4>2. b \in AtRow(r)'
        BY <3>3, <4>1, NoLegacyAssumption DEF AtRow, PullClaims
      <4> QED BY <1>5, <3>3, <4>2, AloneAtRow
    <3> QED BY <3>1, <3>2, <3>3 DEF Claimed
  <2> QED BY <1>5, <2>1, <2>2 DEF Single
<1> QED BY <1>1, <1>4, <1>5

\* A step in which no task and no handler moves.
LEMMA ClaimsUnmoved ==
  ASSUME KnownInv, KnownInv', ClaimInv, Record, UNCHANGED <<task, job, twin, pull>>
  PROVE  ClaimInv'
<1>1. Noted /\ \A r \in Rows : Imported(r)' = Imported(r)
  BY NotedIs DEF KnownInv, Imported
<1> QED BY <1>1, ClaimStays

\* A step of a worker that saves no task.
LEMMA JobClaim ==
  ASSUME KnownInv, KnownInv', ClaimInv, Record, UNCHANGED <<task, twin, pull>>, NEW w \in Workers,
         \A x \in Workers : x # w => job'[x] = job[x],
         job'[w] = job[w] \/ ~ JobClaims(job'[w]) \/ Imported(job'[w].row) = {}
  PROVE  ClaimInv'
<1>1. Noted /\ \A r \in Rows : Imported(r)' = Imported(r)
  BY NotedIs DEF KnownInv, Imported
<1> QED BY <1>1, ClaimStays

LEMMA JobStepClaim ==
  ASSUME KnownInv, KnownInv', ClaimInv, Record, UNCHANGED legacyVars, NEW w \in Workers,
         JobStep(w) \/ CrashJob(w) \/ \E j \in queue : TakeJob(w, j)
  PROVE  ClaimInv'
<1> USE DEF JobMoves, legacyVars
<1>1. UNCHANGED <<twin, pull>> /\ job \in [Workers -> Handling \cup {NoCall}]
  BY DEF KnownInv, TypeOK, SyncTypeOK
<1>0. ~ JobClaims(NoCall)
  BY NothingAssumption DEF JobClaims
<1>2. CASE PushesDone(w)
  <2>1. task' = task /\ \A x \in Workers : x # w => job'[x] = job[x]
    BY <1>1, <1>2 DEF PushesDone, Update
  <2>2. job'[w] = NoCall \/ job'[w].at = "list"
    BY <1>1, <1>2 DEF PushesDone, Update, JobAt
  <2> QED BY <1>0, <1>1, <2>1, <2>2, JobClaim DEF JobClaims
<1>3. CASE ListRows(w)
  <2>1. task' = task /\ (\A x \in Workers : x # w => job'[x] = job[x]) /\ job'[w].at = "next"
    BY <1>1, <1>3 DEF ListRows, JobAt
  <2> QED BY <1>1, <2>1, JobClaim DEF JobClaims
<1>4. ASSUME NEW r \in Rows, PullNext(w, r) PROVE ClaimInv'
  <2>1. task' = task /\ (\A x \in Workers : x # w => job'[x] = job[x])
    BY <1>1, <1>4 DEF PullNext
  <2>3. PICK h \in Handling : h = job[w]
    BY <1>1, <1>4 DEF PullNext, JobAt
  <2>4. PICK todo, read : todo = h.todo \ {r} /\ read = h.rows[r]
    OBVIOUS
  <2>5. PICK z : z = [h EXCEPT !.at = "find", !.todo = todo, !.row = r, !.read = read]
    OBVIOUS
  <2>6. z.at = "find"
    BY <2>5 DEF Handling
  <2>2. job'[w] = z
    BY <1>1, <1>4, <2>3, <2>4, <2>5 DEF PullNext
  <2> QED BY <1>1, <2>1, <2>2, <2>6, JobClaim DEF JobClaims
<1>5. CASE PullsDone(w)
  <2>1. task' = task /\ (\A x \in Workers : x # w => job'[x] = job[x]) /\ job'[w] = NoCall
    BY <1>1, <1>5 DEF PullsDone, Update
  <2> QED BY <1>0, <1>1, <2>1, JobClaim
<1>6. CASE FetchRow(w)
  <2>1. task' = task /\ (\A x \in Workers : x # w => job'[x] = job[x]) /\ job'[w].at = "find"
    BY <1>1, <1>6 DEF FetchRow, JobAt
  <2> QED BY <1>1, <2>1, JobClaim DEF JobClaims
<1>7. CASE FindTask(w)
  <2>1. task' = task /\ (\A x \in Workers : x # w => job'[x] = job[x])
    BY <1>1, <1>7 DEF FindTask
  <2>2. PICK h \in Handling : h = job[w]
    BY <1>1, <1>7 DEF FindTask, JobAt
  <2>3. PICK t \in IF Imported(h.row) = {} THEN {NoTask} ELSE Imported(h.row) :
          job' = [job EXCEPT ![w].at = "save", ![w].found = t]
    BY <1>7, <2>2 DEF FindTask
  <2>4. PICK z : z = [h EXCEPT !.at = "save", !.found = t]
    OBVIOUS
  <2>5. job'[w] = z /\ z.found = t /\ z.row = h.row
    BY <1>1, <2>2, <2>3, <2>4 DEF Handling
  <2>6. t = NoTask => Imported(h.row) = {}
    BY <2>3, SyncAssumption DEF Imported
  <2> QED BY <1>1, <2>1, <2>5, <2>6, JobClaim DEF JobClaims
<1>8. CASE SaveTask(w)
  <2>1. PICK h \in Handling : h = job[w] /\ HandlingOK(h) /\ h.at = "save"
    BY <1>8, HandlingIs DEF SaveTask, JobAt
  <2>2. PICK r \in Rows, text \in Texts : r = h.row /\ text = h.read.text
    BY <2>1 DEF HandlingOK, TableRow
  <2>3. PICK t \in IF h.found = NoTask THEN Fresh(task, NoTask) ELSE {h.found} :
          /\ task' = Update(task, t, [text |-> text, row |-> r])
          /\ job' = [job EXCEPT ![w].at = "findlink", ![w].found = t]
    BY <1>8, <2>1, <2>2 DEF SaveTask
  <2>4. t \in Tasks
    BY <2>1, <2>3, FreshTask DEF Handling, KnownInv
  <2>5. PICK saved \in Task : saved = [text |-> text, row |-> r]
    BY DEF Task
  <2>17. saved.row = r
    BY <2>5
  <2>6. PICK z : z = [h EXCEPT !.at = "findlink", !.found = t]
    OBVIOUS
  <2>7. z \in Handling /\ z.at = "findlink" /\ z.row = r
    BY <2>2, <2>4, <2>6 DEF Handling
  <2>8. job'[w] = z /\ \A x \in Workers : x # w => job'[x] = job[x]
    BY <1>1, <2>1, <2>3, <2>6
  <2>9. moved \/ r \in shared \/ Imported(r) = {} \/ Has(t, r)
    <3>1. CASE h.found # NoTask
      BY <2>1, <2>2, <2>3, <3>1 DEF HandlingOK
    <3>2. CASE h.found = NoTask
      <4>1. JobClaims(job[w]) /\ job[w].row = r
        BY <2>1, <2>2, <3>2 DEF JobClaims
      <4> QED BY <4>1 DEF ClaimInv, Single, Claimed
    <3> QED BY <3>1, <3>2
  <2>10. w \in AtRow(r)'
    BY <2>7, <2>8, NothingAssumption DEF AtRow
  <2>11. ~ JobClaims(job'[w])
    BY <2>7, <2>8 DEF JobClaims
  <2>12. (\A c \in Callers : w # c) /\ (\A b \in Bindings : w # b)
    BY SyncAssumption
  <2>13. TypeOK /\ TypeOK' /\ Noted
    BY NotedIs DEF KnownInv
  <2>14. task' = Update(task, t, saved)
    BY <2>3, <2>5
  <2>15. \A x \in Workers : (job'[x] = job[x] \/ ~ JobClaims(job'[x])) /\ (w = x => ~ JobClaims(job'[x]))
    BY <2>8, <2>11
  <2> QED BY <1>1, <2>4, <2>5, <2>9, <2>10, <2>12, <2>13, <2>14, <2>15, <2>17, RowTaken
<1>9. CASE FindLink(w)
  <2>1. task' = task /\ (\A x \in Workers : x # w => job'[x] = job[x]) /\ job'[w].at = "savelink"
    BY <1>1, <1>9 DEF FindLink, JobAt
  <2> QED BY <1>1, <2>1, JobClaim DEF JobClaims
<1>10. CASE SaveLink(w)
  <2>1. task' = task /\ (\A x \in Workers : x # w => job'[x] = job[x])
    BY <1>1, <1>10 DEF SaveLink
  <2>2. PICK h \in Handling : h = job[w]
    BY <1>1, <1>10 DEF SaveLink, JobAt
  <2>3. PICK at \in {"next", "stamp"} : at = IF h.job.kind = "full" THEN "next" ELSE "stamp"
    OBVIOUS
  <2>4. PICK z : z = [h EXCEPT !.at = at, !.read = NoRow, !.found = NoTask, !.was = NoLink]
    OBVIOUS
  <2>5. job'[w] = z /\ z.at = at
    BY <1>1, <1>10, <2>2, <2>3, <2>4 DEF SaveLink, Handling
  <2> QED BY <1>1, <2>1, <2>3, <2>5, JobClaim DEF JobClaims
<1>11. CASE Stamp(w)
  <2>1. task' = task /\ (\A x \in Workers : x # w => job'[x] = job[x]) /\ job'[w] = NoCall
    BY <1>1, <1>11 DEF Stamp, Update
  <2> QED BY <1>0, <1>1, <2>1, JobClaim
<1>12. CASE FailJob(w)
  <2>1. task' = task /\ (\A x \in Workers : x # w => job'[x] = job[x])
    BY <1>1, <1>12 DEF FailJob, Update
  <2>3. PICK h \in Handling : h = job[w]
    BY <1>1, <1>12 DEF FailJob
  <2>4. PICK z : z = [h EXCEPT !.at = "next"]
    OBVIOUS
  <2>5. z.at = "next"
    BY <2>4 DEF Handling
  <2>6. job' = [job EXCEPT ![w].at = "next"] \/ job' = Update(job, w, NoCall)
    BY <1>12 DEF FailJob
  <2>2. job'[w] = NoCall \/ job'[w].at = "next"
    BY <1>1, <2>3, <2>4, <2>5, <2>6 DEF Update
  <2> QED BY <1>0, <1>1, <2>1, <2>2, JobClaim DEF JobClaims
<1>13. ASSUME NEW t \in Tasks, PushNext(w, t) PROVE ClaimInv'
  <2>1. task' = task /\ (\A x \in Workers : x # w => job'[x] = job[x])
    BY <1>1, <1>13 DEF PushNext
  <2>2. PICK h \in Handling : h = job[w] /\ h.at = "push"
    BY <1>1, <1>13 DEF PushNext, JobAt
  <2>3. PICK todo : todo = h.todo \ {t}
    OBVIOUS
  <2>4. PICK z : z = [h EXCEPT !.todo = todo]
    OBVIOUS
  <2>5. z.at = "push"
    BY <2>2, <2>4 DEF Handling
  <2>6. job'[w] = z
    BY <1>1, <1>13, <2>2, <2>3, <2>4 DEF PushNext
  <2> QED BY <1>1, <2>1, <2>5, <2>6, JobClaim DEF JobClaims
<1>14. CASE CrashJob(w)
  <2>1. task' = task /\ (\A x \in Workers : x # w => job'[x] = job[x]) /\ job'[w] = NoCall
    BY <1>1, <1>14 DEF CrashJob, Update
  <2> QED BY <1>0, <1>1, <2>1, JobClaim
<1>15. ASSUME NEW j \in queue, TakeJob(w, j) PROVE ClaimInv'
  <2>1. task' = task /\ (\A x \in Workers : x # w => job'[x] = job[x])
    BY <1>1, <1>15 DEF TakeJob, Update
  <2>2. job'[w] = job[w] \/ job'[w].at \in {"fetch", "push", "list"}
    BY <1>1, <1>15 DEF TakeJob, Update
  <2> QED BY <1>1, <2>1, <2>2, JobClaim DEF JobClaims
<1> QED BY <1>2, <1>3, <1>4, <1>5, <1>6, <1>7, <1>8, <1>9, <1>10, <1>11, <1>12, <1>13, <1>14, <1>15
        DEF JobStep

\* A step of a caller that saves no task.
LEMMA TwinClaim ==
  ASSUME KnownInv, KnownInv', ClaimInv, Record, UNCHANGED <<task, job, pull>>, NEW c \in Callers,
         \A x \in Callers : x # c => twin'[x] = twin[x],
         twin'[c] = twin[c] \/ ~ TwinClaims(twin'[c]) \/ Imported(twin'[c].row) = {}
  PROVE  ClaimInv'
<1>1. Noted /\ \A r \in Rows : Imported(r)' = Imported(r)
  BY NotedIs DEF KnownInv, Imported
<1> QED BY <1>1, ClaimStays

LEMMA TwinStepClaim ==
  ASSUME KnownInv, KnownInv', ClaimInv, Record, NEW c \in Callers, TwinStep(c)
  PROVE  ClaimInv'
<1>0. ~ TwinClaims(NoCall)
  BY NoLegacyAssumption DEF TwinClaims
<1>1. PICK n \in Twin : n = twin[c] /\ TwinOK(n)
  BY HeldTwin DEF TwinStep, TwinBinding, TwinUpdate, TwinMark, TwinLink, FailTwin, TwinCreate, TwinAt
<1>2. UNCHANGED <<job, pull>> /\ twin \in [Callers -> Twin \cup {NoCall}]
  BY DEF TwinStep, TwinBinding, TwinUpdate, TwinMark, TwinLink, FailTwin, TwinCreate, OnlyTwin,
         KnownInv, TypeOK
<1>3. ASSUME task' = task, twin' = Update(twin, c, NoCall) PROVE ClaimInv'
  <2>1. twin'[c] = NoCall /\ \A x \in Callers : x # c => twin'[x] = twin[x]
    BY <1>2, <1>3 DEF Update
  <2> QED BY <1>0, <1>2, <1>3, <2>1, TwinClaim
<1>4. CASE TwinBinding(c)
  <2>1. CASE live = NoBinding
    BY <1>3, <1>4, <2>1 DEF TwinBinding
  <2>2. CASE live # NoBinding
    <3>1. PICK at \in {"create", "update"} : at = IF n.row = NoRow THEN "create" ELSE "update"
      OBVIOUS
    <3>2. PICK z : z = [n EXCEPT !.binding = live, !.at = at]
      OBVIOUS
    <3>3. z.at = at
      BY <3>2 DEF Twin
    <3>4. task' = task /\ twin' = Update(twin, c, z)
      BY <1>1, <1>4, <2>2, <3>1, <3>2 DEF TwinBinding, Update
    <3>5. twin'[c] = z /\ \A x \in Callers : x # c => twin'[x] = twin[x]
      BY <1>2, <3>4 DEF Update
    <3> QED BY <1>2, <3>1, <3>3, <3>4, <3>5, TwinClaim DEF TwinClaims
  <2> QED BY <2>1, <2>2
<1>5. ASSUME NEW r \in Rows, TwinCreate(c, r) PROVE ClaimInv'
  <2>1. PICK z : z = [n EXCEPT !.at = "mark", !.row = r]
    OBVIOUS
  <2>2. z.row = r
    BY <2>1 DEF Twin
  <2>3. task' = task /\ twin' = Update(twin, c, z)
    BY <1>1, <1>5, <2>1 DEF TwinCreate, Update
  <2>4. twin'[c] = z /\ \A x \in Callers : x # c => twin'[x] = twin[x]
    BY <1>2, <2>3 DEF Update
  <2>5. row[r] = NoRow
    BY <1>5, FreshRow DEF TwinCreate, KnownInv
  <2>6. Imported(r) = {}
    BY <2>5, NothingAssumption DEF Imported, KnownInv, TypeOK, SyncTypeOK, TasksOK, There
  <2> QED BY <1>2, <2>2, <2>3, <2>4, <2>6, TwinClaim
<1>6. CASE TwinMark(c)
  <2>1. n.at = "mark" /\ n.row \in Rows /\ task[n.task] \in Task
    BY <1>1, <1>6 DEF TwinMark, TwinAt, TwinOK
  <2>2. PICK r \in Rows, t \in Tasks : r = n.row /\ t = n.task
    BY <2>1 DEF Twin
  <2>3. PICK saved : saved = [task[t] EXCEPT !.row = r]
    OBVIOUS
  <2>4. saved \in Task /\ saved.row = r
    BY <2>1, <2>2, <2>3 DEF Task
  <2>5. task' = Update(task, t, saved)
    BY <1>1, <1>6, <2>2, <2>3 DEF TwinMark, Update
  <2>6. PICK z : z = [n EXCEPT !.at = "link"]
    OBVIOUS
  <2>7. z \in Twin /\ z.at = "link" /\ z.row = r
    BY <2>2, <2>6 DEF Twin
  <2>8. twin'[c] = z /\ \A x \in Callers : x # c => twin'[x] = twin[x]
    BY <1>1, <1>2, <1>6, <2>6 DEF TwinMark
  <2>9. moved \/ r \in shared \/ Imported(r) = {}
    <3>1. TwinClaims(twin[c]) /\ twin[c].row = r
      BY <1>1, <2>1, <2>2 DEF TwinClaims
    <3> QED BY <3>1 DEF ClaimInv, Single, Claimed
  <2>10. c \in AtRow(r)'
    BY <2>7, <2>8, NoLegacyAssumption DEF AtRow
  <2>11. ~ TwinClaims(twin'[c])
    BY <2>7, <2>8 DEF TwinClaims
  <2>12. (\A w \in Workers : c # w) /\ (\A b \in Bindings : c # b)
    BY SyncAssumption
  <2>13. TypeOK /\ TypeOK' /\ Noted
    BY NotedIs DEF KnownInv
  <2>14. \A x \in Callers : (twin'[x] = twin[x] \/ ~ TwinClaims(twin'[x])) /\ (c = x => ~ TwinClaims(twin'[x]))
    BY <2>8, <2>11
  <2> QED BY <1>2, <2>4, <2>5, <2>9, <2>10, <2>12, <2>13, <2>14, RowTaken
<1> QED BY <1>3, <1>4, <1>5, <1>6 DEF TwinStep, TwinUpdate, TwinLink, FailTwin

\* A step of TaskService: a new task has no row, a saved one the row it had.
LEMMA TaskStepClaim ==
  ASSUME KnownInv, KnownInv', ClaimInv, Record, NEW c \in Callers,
         SaveEdit(c) \/ \E t \in Tasks : CreateTask(c, t) \/ ReadTask(c, t)
  PROVE  ClaimInv'
<1>1. UNCHANGED <<job, pull>> /\ Noted /\ TypeOK
  BY NotedIs DEF SaveEdit, CreateTask, ReadTask, OnlyTask, KnownInv
<1>2. ASSUME NEW t \in Tasks, NEW saved \in Task, Emit(c, t, saved)
      PROVE  \A x \in Callers : twin'[x] = twin[x] \/ ~ TwinClaims(twin'[x])
  <2>1. PICK z : z = [at |-> "binding", task |-> t, row |-> saved.row, text |-> saved.text,
                      binding |-> NoBinding]
    OBVIOUS
  <2>2. z.at = "binding" /\ twin' = Update(twin, c, z)
    BY <1>2, <2>1 DEF Emit
  <2>3. \A x \in Callers : twin'[x] = twin[x] \/ twin'[x] = z
    BY <1>1, <2>2 DEF Update, TypeOK
  <2> QED BY <2>2, <2>3 DEF TwinClaims
<1>3. ASSUME NEW t \in Tasks, NEW saved \in Task, Emit(c, t, saved), task' = Update(task, t, saved),
             saved.row = NoRow \/ Has(t, saved.row)
      PROVE  ClaimInv'
  <2>1. task'[t] = saved /\ \A s \in Tasks : s # t => task'[s] = task[s]
    BY <1>1, <1>3, TaskSaved
  <2>2. \A r \in Rows : moved \/ Imported(r)' \subseteq Imported(r)
    BY <1>3, <2>1, SyncAssumption, NothingAssumption DEF Imported, Has
  <2>3. \A x \in Callers : twin'[x] = twin[x] \/ ~ TwinClaims(twin'[x])
    BY <1>2, <1>3
  <2> QED BY <1>1, <2>2, <2>3, ClaimStays
<1>4. CASE SaveEdit(c)
  <2>1. PICK d \in Edit : d = edit[c] /\ EditOK(d)
    BY <1>1, <1>4, NoLegacyAssumption DEF SaveEdit, TypeOK, KnownInv, EditsOK
  <2>2. PICK t \in Tasks, r \in Rows \cup {NoRow} : t = d.task /\ r = d.was.row
    BY DEF Edit, Task
  <2>3. PICK text \in Texts : text = edits + 1
    BY <1>1, <1>4, SyncAssumption DEF SaveEdit, Texts, TypeOK, SyncTypeOK
  <2>4. PICK saved \in Task : saved = [text |-> text, row |-> r]
    BY DEF Task
  <2>5. task' = Update(task, t, saved)
    BY <1>4, <2>1, <2>2, <2>3, <2>4 DEF SaveEdit
  <2>6. task'[t] = saved
    BY <1>1, <2>5, TaskSaved
  <2>7. Emit(c, t, saved)
    BY <1>4, <2>1, <2>2, <2>6 DEF SaveEdit
  <2>8. saved.row = NoRow \/ Has(t, saved.row)
    BY <2>1, <2>2, <2>4 DEF EditOK, Has
  <2> QED BY <1>3, <2>5, <2>7, <2>8
<1>5. ASSUME NEW t \in Tasks, CreateTask(c, t) PROVE ClaimInv'
  <2>1. PICK text \in Texts : text = edits + 1
    BY <1>1, <1>5, SyncAssumption DEF CreateTask, Texts, TypeOK, SyncTypeOK
  <2>2. PICK saved \in Task : saved = [text |-> text, row |-> NoRow]
    BY DEF Task
  <2>3. task' = Update(task, t, saved)
    BY <1>5, <2>1, <2>2 DEF CreateTask
  <2>4. task'[t] = saved
    BY <1>1, <2>3, TaskSaved
  <2>5. Emit(c, t, saved) /\ saved.row = NoRow
    BY <1>5, <2>2, <2>4 DEF CreateTask
  <2> QED BY <1>3, <2>3, <2>5
<1>6. ASSUME NEW t \in Tasks, ReadTask(c, t) PROVE ClaimInv'
  BY <1>1, <1>6, ClaimsUnmoved DEF ReadTask
<1> QED BY <1>4, <1>5, <1>6

\* A step of the deprecated full sync that saves no task.
LEMMA PullClaim ==
  ASSUME KnownInv, KnownInv', ClaimInv, Record, UNCHANGED <<task, job, twin>>,
         pull' = pull \/ ~ PullClaims(pull') \/ Imported(pull'.row) = {}
  PROVE  ClaimInv'
<1>1. Noted /\ \A r \in Rows : Imported(r)' = Imported(r)
  BY NotedIs DEF KnownInv, Imported
<1> QED BY <1>1, ClaimStays

LEMMA PullStepClaim ==
  ASSUME KnownInv, KnownInv', ClaimInv, Record, LegacyPull \/ \E b \in Bindings : TakePull(b)
  PROVE  ClaimInv'
<1>0. ~ PullClaims(NoCall)
  BY NoLegacyAssumption DEF PullClaims
<1>1. UNCHANGED <<job, twin>>
  BY DEF LegacyPull, LegacyList, LegacyNext, LegacyFindLink, LegacyFind, LegacySave, LegacySaveLink,
         LegacyEnd, LegacyFail, TakePull, PullMoves, OnlyPull
<1>2. pull \in Pull \cup {NoCall}
  BY DEF KnownInv, TypeOK
<1>3. ASSUME NEW b \in Bindings, TakePull(b) PROVE ClaimInv'
  <2>1. PICK z : z = Pulls(b, 0)
    OBVIOUS
  <2>2. z.at = "list"
    BY <2>1 DEF Pulls
  <2>3. task' = task /\ (pull' = NoCall \/ pull' = z)
    BY <1>3, <2>1 DEF TakePull
  <2> QED BY <1>0, <1>1, <2>2, <2>3, PullClaim DEF PullClaims
<1>4. CASE LegacyList
  <2>1. task' = task /\ pull'.at = "next"
    BY <1>2, <1>4 DEF LegacyList, PullAt, PullMoves, Pull
  <2> QED BY <1>1, <2>1, PullClaim DEF PullClaims
<1>5. CASE LegacyNext
  <2>1. PICK q \in Pull : q = pull
    BY <1>2, <1>5 DEF LegacyNext, PullAt
  <2>2. ASSUME NEW r \in q.todo, pull' = [q EXCEPT !.at = "findlink", !.todo = @ \ {r}, !.row = r]
        PROVE  pull'.at = "findlink"
    BY <2>2 DEF Pull
  <2>3. ASSUME pull' = [q EXCEPT !.at = "end"]
        PROVE  pull'.at = "end"
    BY <2>3 DEF Pull
  <2>4. task' = task /\ pull'.at \in {"findlink", "end"}
    BY <1>5, <2>1, <2>2, <2>3 DEF LegacyNext, PullMoves
  <2> QED BY <1>1, <2>4, PullClaim DEF PullClaims
<1>6. CASE LegacyFindLink
  <2>1. task' = task /\ pull'.at = "find"
    BY <1>2, <1>6 DEF LegacyFindLink, PullAt, PullMoves, Pull
  <2> QED BY <1>1, <2>1, PullClaim DEF PullClaims
<1>7. CASE LegacyFind
  <2>1. PICK q \in Pull : q = pull
    BY <1>2, <1>7 DEF LegacyFind, PullAt
  <2>2. PICK linked : linked = {t \in Tasks : q.was # NoLink /\ q.was.task = t}
    OBVIOUS
  <2>3. PICK found : found = IF linked # {} THEN linked ELSE Imported(q.row)
    OBVIOUS
  <2>4. PICK t \in IF found = {} THEN {NoTask} ELSE found : pull' = [q EXCEPT !.at = "save", !.found = t]
    BY <1>7, <2>1, <2>2, <2>3 DEF LegacyFind
  <2>5. NoTask \notin found
    BY <2>2, <2>3, SyncAssumption DEF Imported
  <2>6. pull'.found = t /\ pull'.row = q.row
    BY <2>4 DEF Pull
  <2>7. t = NoTask => Imported(q.row) = {}
    BY <2>3, <2>4, <2>5
  <2>8. task' = task
    BY <1>7 DEF LegacyFind, PullMoves
  <2>9. ~ PullClaims(pull') \/ Imported(pull'.row) = {}
    BY <2>6, <2>7 DEF PullClaims
  <2> QED BY <1>1, <2>8, <2>9, PullClaim
<1>8. CASE LegacySave
  <2>1. PICK q \in Pull : q = pull /\ PullOK(q) /\ q.at = "save"
    BY <1>8, PullIs DEF LegacySave, PullAt
  <2>2. PICK r \in Rows : r = q.row /\ q.rows[r] \in TableRow
    BY <2>1 DEF PullOK
  <2>3. PICK text \in Texts : text = q.rows[r].text
    BY <2>2 DEF TableRow
  <2>4. PICK saved \in Task : saved = [text |-> text, row |-> r]
    BY DEF Task
  <2>5. PICK t \in IF q.found = NoTask THEN Fresh(task, NoTask) ELSE {q.found} :
          /\ task' = Update(task, t, saved)
          /\ pull' = [q EXCEPT !.at = "savelink", !.found = t]
    BY <1>8, <2>1, <2>2, <2>3, <2>4 DEF LegacySave
  <2>6. t \in Tasks
    BY <2>5, FreshTask DEF Pull, KnownInv
  <2>7. PICK z : z = [q EXCEPT !.at = "savelink", !.found = t]
    OBVIOUS
  <2>8. z \in Pull /\ z.at = "savelink" /\ z.row = r /\ z.binding = q.binding
    BY <2>2, <2>6, <2>7 DEF Pull
  <2>9. pull' = z /\ saved.row = r
    BY <2>4, <2>5, <2>7
  <2>10. moved \/ r \in shared \/ Imported(r) = {} \/ Has(t, r)
    <3>1. CASE q.found # NoTask
      BY <2>1, <2>2, <2>5, <3>1 DEF PullOK
    <3>2. CASE q.found = NoTask
      <4>1. PullClaims(pull) /\ pull.row = r
        BY <2>1, <2>2, <3>2 DEF PullClaims
      <4> QED BY <4>1 DEF ClaimInv, Single, Claimed
    <3> QED BY <3>1, <3>2
  <2>11. PICK b \in Bindings : b = z.binding
    BY <2>8 DEF Pull
  <2>12. b \in AtRow(r)'
    BY <2>8, <2>9, <2>11, NoLegacyAssumption DEF AtRow
  <2>13. ~ PullClaims(pull')
    BY <2>8, <2>9 DEF PullClaims
  <2>14. (\A w \in Workers : b # w) /\ (\A c \in Callers : b # c)
    BY SyncAssumption
  <2>15. TypeOK /\ TypeOK' /\ Noted
    BY NotedIs DEF KnownInv
  <2> QED BY <1>1, <2>5, <2>6, <2>9, <2>10, <2>12, <2>13, <2>14, <2>15, RowTaken
<1>9. CASE LegacySaveLink
  <2>1. task' = task /\ pull'.at = "next"
    BY <1>2, <1>9 DEF LegacySaveLink, PullAt, Pull
  <2> QED BY <1>1, <2>1, PullClaim DEF PullClaims
<1>10. CASE LegacyEnd
  BY <1>0, <1>1, <1>10, PullClaim DEF LegacyEnd
<1>11. CASE LegacyFail
  <2>1. PICK q \in Pull : q = pull
    BY <1>2, <1>11 DEF LegacyFail
  <2>2. PICK tries : tries = q.tries + 1
    OBVIOUS
  <2>3. PICK z : z = [Pulls(q.binding, tries) EXCEPT !.settings = q.settings]
    OBVIOUS
  <2>4. z.at = "list"
    BY <2>3 DEF Pulls
  <2>5. task' = task /\ (pull' = NoCall \/ pull' = z)
    BY <1>11, <2>1, <2>2, <2>3 DEF LegacyFail
  <2> QED BY <1>0, <1>1, <2>4, <2>5, PullClaim DEF PullClaims
<1> QED BY <1>3, <1>4, <1>5, <1>6, <1>7, <1>8, <1>9, <1>10, <1>11 DEF LegacyPull

LEMMA OtherStepClaim ==
  ASSUME KnownInv, KnownInv', ClaimInv, Record,
         \/ \E b \in Bindings : \/ SaveBinding(b) \/ TriggerSync(b) \/ RemoveBinding(b)
                                \/ TriggerFullSync(b) /\ UNCHANGED legacyVars
                                \/ DeleteBinding(b) /\ UNCHANGED legacyVars
                                \/ \E d \in Directions : CreateBinding(b, d) /\ UNCHANGED legacyVars
                                \/ \E settings \in Binding : UpdateBinding(b, settings) /\ UNCHANGED legacyVars
         \/ \E r \in Rows : EditRow(r) /\ UNCHANGED legacyVars
         \/ \E e \in DOMAIN event : (DeliverEvent(e) \/ LoseEvent(e)) /\ UNCHANGED legacyVars
         \/ \E p \in Callers \cup Workers : (PushStep(p) \/ PushEntity(p)) /\ UNCHANGED legacyVars
  PROVE  ClaimInv'
<1>1. UNCHANGED <<task, job, twin, pull>>
  BY DEF SaveBinding, TriggerSync, RemoveBinding, TriggerFullSync, DeleteBinding, CreateBinding,
         UpdateBinding, OnlyBindings, EditRow, DeliverEvent, LoseEvent, PushStep, PushEntity, FindPushed,
         UpdateRow, FindPushLink, SavePushLink, FailPush, CreateRow, OnlyPush, legacyVars
<1> QED BY <1>1, ClaimsUnmoved

LEMMA ClaimStep ==
  ASSUME KnownInv, KnownInv', ClaimInv, Record, Step
  PROVE  ClaimInv'
<1>1. CASE SyncStep /\ UNCHANGED legacyVars
  BY <1>1, JobStepClaim, OtherStepClaim DEF SyncStep
<1>2. ASSUME NEW c \in Callers, \/ TwinStep(c) \/ SaveEdit(c)
                                \/ \E t \in Tasks : CreateTask(c, t) \/ ReadTask(c, t)
      PROVE  ClaimInv'
  BY <1>2, TwinStepClaim, TaskStepClaim
<1>3. ASSUME NEW b \in Bindings, SaveBinding(b) \/ TriggerSync(b) \/ RemoveBinding(b)
      PROVE  ClaimInv'
  BY <1>3, OtherStepClaim
<1> QED BY <1>1, <1>2, <1>3, PullStepClaim DEF Step

LEMMA ClaimInductive == Spec => []ClaimInv
<1>1. Init => ClaimInv
  <2> SUFFICES ASSUME Init PROVE ClaimInv
    OBVIOUS
  <2>1. \A r \in Rows : Imported(r) = {}
    BY DEF Init, SyncInit, Imported
  <2> QED BY <2>1 DEF ClaimInv, Single
<1>2. ClaimInv /\ KnownInv /\ KnownInv' /\ [Next]_vars => ClaimInv'
  <2> SUFFICES ASSUME ClaimInv, KnownInv, KnownInv', [Next]_vars PROVE ClaimInv'
    OBVIOUS
  <2>1. CASE Next
    BY <2>1, ClaimStep DEF Next
  <2>2. CASE UNCHANGED vars
    <3>1. UNCHANGED <<task, job, twin, pull, shared, moved>>
      BY <2>2 DEF vars, syncVars, legacyVars
    <3> QED BY <3>1 DEF ClaimInv, Single, Claimed, Imported, JobClaims, TwinClaims, PullClaims
  <2> QED BY <2>1, <2>2
<1> QED BY <1>1, <1>2, KnownInductive, PTL DEF Spec

\* A row becomes one task, whether its push, an event or a full sync comes first, unless two
\* handlers had it in hand at the same time or a task had lost its row id: what a handler
\* that found no task for its row will save is the first task the row has (ClaimInv).
THEOREM RowsBecomeOneTask == Spec => []OneTaskPerRow
<1>1. ClaimInv => OneTaskPerRow
  <2> SUFFICES ASSUME ClaimInv, ~ moved, NEW r \in Rows \ shared
               PROVE  Cardinality({t \in Existing : task[t].row = r}) <= 1
    BY DEF OneTaskPerRow
  <2>1. PICK S : S = {t \in Existing : task[t].row = r}
    OBVIOUS
  <2>2. \A s, t \in S : s = t
    BY <2>1 DEF ClaimInv, Single, Imported, Existing
  <2>3. Cardinality(S) <= 1
    <3>1. CASE S = {}
      BY <3>1, FS_EmptySet
    <3>2. ASSUME NEW s \in S PROVE Cardinality(S) <= 1
      <4>1. S = {s}
        BY <2>2
      <4> QED BY <4>1, FS_Singleton
    <3> QED BY <3>1, <3>2
  <2> QED BY <2>1, <2>3
<1> QED BY <1>1, ClaimInductive, PTL

-----------------------------------------------------------------------------
(* A row nobody's link leads to costs a failure.                            *)

PushHolds(p, r) == push[p] \in Pushing /\ push[p].at \in {"findlink", "savelink"} /\ push[p].row = r
TwinHolds(c, r) == twin[c] \in Twin /\ twin[c].at \in {"mark", "link"} /\ twin[c].row = r
Held(r) == (\E p \in Callers \cup Workers : PushHolds(p, r)) \/ (\E c \in Callers : TwinHolds(c, r))
Unlinked(r) == \A b \in Bindings : link[<<b, r>>] = NoLink

\* Rows the platform made that no link leads to, and that no push is about to link.
Lost == {r \in ours : Unlinked(r) /\ ~ Held(r)}

\* What a failure may lose is one row.
StrayInv == Cardinality(Lost) <= faults

LEMMA LostIs ==
  ASSUME TypeOK
  PROVE  IsFiniteSet(Lost) /\ Cardinality(Lost) \in Nat
<1>1. Lost \in SUBSET Rows
  BY DEF TypeOK, SyncTypeOK, Lost
<1>2. IsFiniteSet(Lost)
  BY <1>1, SyncAssumption, FS_Subset
<1> QED BY <1>2, FS_CardinalityType

\* A row is lost only when a failure drops it: x is the row the step's failure drops, if any.
LEMMA LostCosts ==
  ASSUME TypeOK, TypeOK', StrayInv, NEW x,
         \A p \in Callers \cup Workers, r \in Rows :
           PushHolds(p, r) => PushHolds(p, r)' \/ ~ Unlinked(r)' \/ r = x,
         \A c \in Callers, r \in Rows :
           TwinHolds(c, r) => TwinHolds(c, r)' \/ ~ Unlinked(r)' \/ r = x,
         \A r \in Rows : r \in ours' /\ Unlinked(r)' => (r \in ours /\ Unlinked(r)) \/ Held(r)' \/ r = x,
         (faults' = faults /\ x \notin Rows) \/ faults' = faults + 1
  PROVE  StrayInv'
<1>1. \A r \in Lost' : r \in Lost \/ r = x
  BY DEF Lost, Held, TypeOK, SyncTypeOK
<1>2. PICK old, new : old = Lost /\ new = Lost'
  OBVIOUS
<1>3. IsFiniteSet(old) /\ Cardinality(old) \in Nat /\ Cardinality(old) <= faults
  BY <1>2, LostIs DEF StrayInv
<1>4. faults \in Nat
  BY SyncAssumption DEF TypeOK, SyncTypeOK
<1>5. CASE faults' = faults /\ x \notin Rows
  <2>1. new \in SUBSET old
    BY <1>1, <1>2, <1>5 DEF Lost, TypeOK, SyncTypeOK
  <2>2. Cardinality(new) <= Cardinality(old) /\ IsFiniteSet(new)
    BY <1>3, <2>1, FS_Subset
  <2>3. Cardinality(new) \in Nat
    BY <2>2, FS_CardinalityType
  <2>4. Cardinality(new) <= faults'
    BY <1>3, <1>4, <1>5, <2>2, <2>3
  <2> QED BY <1>2, <2>4 DEF StrayInv
<1>6. CASE faults' = faults + 1
  <2>1. new \in SUBSET (old \cup {x})
    BY <1>1, <1>2
  <2>2. IsFiniteSet(old \cup {x}) /\ Cardinality(old \cup {x}) <= Cardinality(old) + 1
    BY <1>3, FS_AddElement
  <2>3. Cardinality(old \cup {x}) \in Nat
    BY <2>2, FS_CardinalityType
  <2>4. Cardinality(new) <= Cardinality(old \cup {x}) /\ IsFiniteSet(new)
    BY <2>1, <2>2, FS_Subset
  <2>5. Cardinality(new) \in Nat
    BY <2>4, FS_CardinalityType
  <2>6. Cardinality(new) <= faults'
    BY <1>3, <1>4, <1>6, <2>2, <2>3, <2>4, <2>5
  <2> QED BY <1>2, <2>6 DEF StrayInv
<1> QED BY <1>5, <1>6

\* A step in which links do not go, rows are not made and no push lets go of a row.
LEMMA NoneLost ==
  ASSUME TypeOK, TypeOK', StrayInv, ours' = ours, faults' = faults \/ faults' = faults + 1,
         \A p \in Callers \cup Workers, r \in Rows : PushHolds(p, r) => PushHolds(p, r)',
         \A c \in Callers, r \in Rows : TwinHolds(c, r) => TwinHolds(c, r)',
         \A r \in Rows : Unlinked(r)' => Unlinked(r)
  PROVE  StrayInv'
BY LostCosts, SyncAssumption

\* A step that leaves all of that alone.
LEMMA NothingLost ==
  ASSUME TypeOK, TypeOK', StrayInv, UNCHANGED <<ours, link, push, twin>>,
         faults' = faults \/ faults' = faults + 1
  PROVE  StrayInv'
BY NoneLost DEF PushHolds, TwinHolds, Unlinked

\* A step that only adds to the links.
LEMMA LinkedMore ==
  ASSUME TypeOK, TypeOK', StrayInv, UNCHANGED <<ours, push, twin, faults>>,
         \A br \in Bindings \X Rows : link[br] # NoLink => link'[br] # NoLink
  PROVE  StrayInv'
<1>1. \A r \in Rows : Unlinked(r)' => Unlinked(r)
  BY DEF Unlinked
<1> QED BY <1>1, NoneLost DEF PushHolds, TwinHolds

\* A step of one push that makes no link: it keeps the row it holds, or loses it to a failure.
LEMMA PushMoved ==
  ASSUME TypeOK, TypeOK', StrayInv, UNCHANGED <<ours, link, twin>>, NEW p \in Callers \cup Workers,
         \A q \in Callers \cup Workers : q # p => push'[q] = push[q],
         NEW x, (faults' = faults /\ x \notin Rows) \/ faults' = faults + 1,
         \A r \in Rows : PushHolds(p, r) => PushHolds(p, r)' \/ r = x \/ ~ Unlinked(r)
  PROVE  StrayInv'
<1>1. \A q \in Callers \cup Workers, r \in Rows :
        PushHolds(q, r) => PushHolds(q, r)' \/ ~ Unlinked(r)' \/ r = x
  BY DEF PushHolds, Unlinked
<1>2. \A c \in Callers, r \in Rows : TwinHolds(c, r) => TwinHolds(c, r)'
  BY DEF TwinHolds
<1>3. \A r \in Rows : Unlinked(r)' => Unlinked(r)
  BY DEF Unlinked
<1> QED BY <1>1, <1>2, <1>3, LostCosts

LEMMA TwinMoved ==
  ASSUME TypeOK, TypeOK', StrayInv, UNCHANGED <<ours, link, push>>, NEW c \in Callers,
         \A d \in Callers : d # c => twin'[d] = twin[d],
         NEW x, (faults' = faults /\ x \notin Rows) \/ faults' = faults + 1,
         \A r \in Rows : TwinHolds(c, r) => TwinHolds(c, r)' \/ r = x
  PROVE  StrayInv'
<1>1. \A d \in Callers, r \in Rows : TwinHolds(d, r) => TwinHolds(d, r)' \/ r = x
  BY DEF TwinHolds
<1>2. \A p \in Callers \cup Workers, r \in Rows : PushHolds(p, r) => PushHolds(p, r)'
  BY DEF PushHolds
<1>3. \A r \in Rows : Unlinked(r)' => Unlinked(r)
  BY DEF Unlinked
<1> QED BY <1>1, <1>2, <1>3, LostCosts

LEMMA PushStepStrays ==
  ASSUME KnownInv, KnownInv', StrayInv, twin' = twin, NEW p \in Callers \cup Workers, PushStep(p)
  PROVE  StrayInv'
<1> USE DEF KnownInv, TypeOK, SyncTypeOK
<1>0. NoCall \notin Pushing /\ NoRow \notin Rows
  BY NothingAssumption, SyncAssumption
<1>1. PICK q \in Pushing : q = push[p] /\ PushOK(q)
  BY HeldPush DEF PushStep, FindPushed, UpdateRow, FindPushLink, SavePushLink, FailPush, CreateRow, PushAt
<1>2. q.binding \in Bindings /\ q.task \in Tasks
  BY DEF Pushing
<1>3. CASE FindPushed(p)
  <2>1. q.at = "find"
    BY <1>1, <1>3 DEF FindPushed, PushAt
  <2>2. \A r \in Rows : ~ PushHolds(p, r)
    BY <1>1, <2>1 DEF PushHolds
  <2>3. \A x \in Callers \cup Workers : x # p => push'[x] = push[x]
    BY <1>3 DEF FindPushed
  <2> QED BY <1>0, <1>3, <2>2, <2>3, PushMoved DEF FindPushed
<1>4. CASE UpdateRow(p)
  <2>1. PICK r \in Rows : r = q.row /\ q.at = "update"
    BY <1>1, <1>4 DEF UpdateRow, PushAt, PushOK
  <2>2. PICK z : z = [q EXCEPT !.at = "savelink"]
    OBVIOUS
  <2>3. z \in Pushing /\ z.at = "savelink" /\ z.row = r
    BY <2>1, <2>2 DEF Pushing
  <2>4. push'[p] = z /\ \A x \in Callers \cup Workers : x # p => push'[x] = push[x]
    BY <1>1, <1>4, <2>2 DEF UpdateRow
  <2>5. PushHolds(p, r)'
    BY <2>3, <2>4 DEF PushHolds
  <2>6. \A x \in Callers \cup Workers, y \in Rows : PushHolds(x, y) => PushHolds(x, y)'
    BY <1>1, <2>1, <2>4 DEF PushHolds
  <2>7. \A c \in Callers, y \in Rows : TwinHolds(c, y) => TwinHolds(c, y)'
    BY DEF TwinHolds
  <2>8. link' = link /\ faults' = faults /\ \A y \in ours' : y \in ours \/ y = r
    BY <1>1, <1>4, <2>1 DEF UpdateRow, WriteRow
  <2>9. \A y \in Rows : y \in ours' /\ Unlinked(y)' => (y \in ours /\ Unlinked(y)) \/ Held(y)'
    BY <2>5, <2>8 DEF Held, Unlinked
  <2> QED BY <1>0, <2>6, <2>7, <2>8, <2>9, LostCosts
<1>5. ASSUME NEW r \in Rows, CreateRow(p, r) PROVE StrayInv'
  <2>1. q.at = "create" /\ link' = link /\ \A y \in ours' : y \in ours \/ y = r
    BY <1>1, <1>5 DEF CreateRow, PushAt, WriteRow
  <2>2. \A x \in Callers \cup Workers : x # p => push'[x] = push[x]
    BY <1>5 DEF CreateRow, Update
  <2>3. \A x \in Callers \cup Workers, y \in Rows : PushHolds(x, y) => PushHolds(x, y)'
    BY <1>1, <2>1, <2>2 DEF PushHolds
  <2>4. \A c \in Callers, y \in Rows : TwinHolds(c, y) => TwinHolds(c, y)'
    BY DEF TwinHolds
  <2>5. CASE faults' = faults /\ push' = [push EXCEPT ![p].at = "findlink", ![p].row = r]
    <3>1. PICK z : z = [q EXCEPT !.at = "findlink", !.row = r]
      OBVIOUS
    <3>2. z \in Pushing /\ z.at = "findlink" /\ z.row = r
      BY <3>1 DEF Pushing
    <3>3. push'[p] = z
      BY <1>1, <2>5, <3>1
    <3>4. PushHolds(p, r)'
      BY <3>2, <3>3 DEF PushHolds
    <3>5. \A y \in Rows : y \in ours' /\ Unlinked(y)' => (y \in ours /\ Unlinked(y)) \/ Held(y)'
      BY <2>1, <3>4 DEF Held, Unlinked
    <3> QED BY <1>0, <2>3, <2>4, <2>5, <3>5, LostCosts
  <2>6. CASE faults' = faults + 1
    <3>1. \A y \in Rows : y \in ours' /\ Unlinked(y)' => (y \in ours /\ Unlinked(y)) \/ y = r
      BY <2>1 DEF Unlinked
    <3> QED BY <2>3, <2>4, <2>6, <3>1, LostCosts
  <2> QED BY <1>5, <2>5, <2>6 DEF CreateRow, Fault
<1>6. CASE FindPushLink(p)
  <2>0. q.row \in Rows
    BY <1>1, <1>6 DEF FindPushLink, PushAt, PushOK
  <2>1. PICK was \in Link \cup {NoLink} : was = link[<<q.binding, q.row>>]
    BY <1>2, <2>0
  <2>2. PICK z : z = [q EXCEPT !.at = "savelink", !.was = was]
    OBVIOUS
  <2>3. z \in Pushing /\ z.at = "savelink" /\ z.row = q.row
    BY <2>2 DEF Pushing
  <2>4. push'[p] = z /\ \A x \in Callers \cup Workers : x # p => push'[x] = push[x]
    BY <1>1, <1>6, <2>1, <2>2 DEF FindPushLink
  <2>6. \A r \in Rows : PushHolds(p, r) => PushHolds(p, r)'
    BY <1>1, <2>3, <2>4 DEF PushHolds
  <2> QED BY <1>0, <1>6, <2>4, <2>6, PushMoved DEF FindPushLink
<1>7. CASE SavePushLink(p)
  <2>1. PICK r \in Rows, b \in Bindings : r = q.row /\ b = q.binding
    BY <1>1, <1>2, <1>7 DEF SavePushLink, PushAt, PushOK
  <2>2. PICK l : l = [Base(q.was) EXCEPT !.entity = q.task]
    OBVIOUS
  <2>3. l # NoLink
    <3>1. Base(q.was) \in Link
      BY BaseIs DEF Pushing
    <3>2. l \in Link
      BY <1>2, <2>2, <3>1 DEF Link
    <3> QED BY <3>2, NothingAssumption
  <2>4. link' = [link EXCEPT ![<<b, r>>] = l]
    BY <1>1, <1>7, <2>1, <2>2 DEF SavePushLink
  <2>5. ~ Unlinked(r)' /\ \A y \in Rows : Unlinked(y)' => Unlinked(y)
    BY SMTT(30), <2>1, <2>3, <2>4 DEF Unlinked
  <2>6. UNCHANGED <<ours, faults>> /\ \A x \in Callers \cup Workers : x # p => push'[x] = push[x]
    BY <1>7 DEF SavePushLink, Update
  <2>7. \A x \in Callers \cup Workers, y \in Rows : PushHolds(x, y) => PushHolds(x, y)' \/ ~ Unlinked(y)'
    BY <1>1, <2>1, <2>5, <2>6 DEF PushHolds
  <2>8. \A c \in Callers, y \in Rows : TwinHolds(c, y) => TwinHolds(c, y)'
    BY DEF TwinHolds
  <2> QED BY <1>0, <2>5, <2>6, <2>7, <2>8, LostCosts
<1>8. CASE FailPush(p)
  <2>1. UNCHANGED <<ours, link>> /\ \A x \in Callers \cup Workers : x # p => push'[x] = push[x]
    BY <1>8 DEF FailPush, Update
  <2>2. CASE faults' = faults + 1
    <3>1. PICK x : x = q.row
      OBVIOUS
    <3>2. \A r \in Rows : PushHolds(p, r) => r = x
      BY <1>1, <3>1 DEF PushHolds
    <3> QED BY <2>1, <2>2, <3>2, PushMoved
  <2>3. CASE faults' = faults /\ PushAt(p, "savelink") /\ ~ MaySaveLink(push[p], push[p].binding)
    <3>1. PICK r \in Rows, b \in Bindings : r = q.row /\ b = q.binding
      BY <1>1, <1>2, <2>3 DEF PushAt, PushOK
    <3>2. ~ Unlinked(r)
      BY <1>1, <2>3, <3>1 DEF MaySaveLink, Unlinked
    <3>3. \A y \in Rows : PushHolds(p, y) => ~ Unlinked(y)
      BY <1>1, <3>1, <3>2 DEF PushHolds
    <3> QED BY <1>0, <2>1, <2>3, <3>3, PushMoved
  <2> QED BY <1>8, <2>2, <2>3 DEF FailPush, Fault
<1> QED BY <1>3, <1>4, <1>5, <1>6, <1>7, <1>8 DEF PushStep

\* A step of a worker: a row it is pushing is lost when its process dies.
LEMMA JobStepStrays ==
  ASSUME KnownInv, KnownInv', StrayInv, twin' = twin, NEW w \in Workers,
         JobStep(w) \/ CrashJob(w) \/ \E j \in queue : TakeJob(w, j)
  PROVE  StrayInv'
<1> USE DEF KnownInv, TypeOK, SyncTypeOK
<1>0. NoCall \notin Pushing /\ NoRow \notin Rows
  BY NothingAssumption, SyncAssumption
<1>1. ASSUME UNCHANGED <<ours, link, push>>, faults' = faults \/ faults' = faults + 1 PROVE StrayInv'
  BY <1>1, NothingLost
<1>2. CASE \/ PushesDone(w) \/ ListRows(w) \/ PullsDone(w) \/ FetchRow(w) \/ FindTask(w) \/ SaveTask(w)
           \/ FindLink(w) \/ FailJob(w) \/ (\E r \in Rows : PullNext(w, r)) \/ (\E j \in queue : TakeJob(w, j))
  <2>1. UNCHANGED <<ours, link, push>> /\ (faults' = faults \/ faults' = faults + 1)
    BY <1>2 DEF PushesDone, ListRows, PullsDone, FetchRow, FindTask, SaveTask, FindLink, FailJob, PullNext,
                TakeJob, JobMoves, OnlyJob, Fault
  <2> QED BY <1>1, <2>1
<1>3. CASE SaveLink(w)
  <2>1. PICK h \in Handling : h = job[w] /\ HandlingOK(h) /\ h.at = "savelink"
    BY <1>3, HandlingIs DEF SaveLink, JobAt
  <2>2. PICK r \in Rows, b \in Bindings : r = h.row /\ b = h.job.binding
    BY <2>1 DEF HandlingOK, Handling, Job
  <2>3. PICK base : base = Base(h.was)
    OBVIOUS
  <2>4. PICK l : l = IF h.job.kind = "full" THEN [base EXCEPT !.entity = h.found] ELSE base
    OBVIOUS
  <2>5. link' = [link EXCEPT ![<<b, r>>] = l]
    BY <1>3, <2>1, <2>2, <2>3, <2>4 DEF SaveLink
  <2>6. l # NoLink
    <3>1. base \in Link
      BY <2>3, BaseIs DEF Handling
    <3>2. l \in Link
      BY <2>4, <3>1 DEF Link, Handling
    <3> QED BY <3>2, NothingAssumption
  <2>7. \A br \in Bindings \X Rows : link[br] # NoLink => link'[br] # NoLink
    BY <2>5, <2>6
  <2> QED BY <1>3, <2>7, LinkedMore DEF SaveLink, OnlyJob
<1>4. CASE Stamp(w)
  <2>1. PICK h \in Handling : h = job[w] /\ HandlingOK(h) /\ h.at = "stamp"
    BY <1>4, HandlingIs DEF Stamp, JobAt
  <2>2. PICK r \in Rows, b \in Bindings : r = h.row /\ b = h.job.binding
    BY <2>1 DEF HandlingOK, Handling, Job
  <2>3. PICK e \in 0 .. MaxEvents : e = h.job.event
    BY DEF Handling, Job
  <2>4. CASE link[<<b, r>>] # NoLink
    <3>1. PICK old \in Link : old = link[<<b, r>>]
      BY <2>4
    <3>2. PICK l : l = [old EXCEPT !.event = e]
      OBVIOUS
    <3>3. l \in Link
      BY <3>2 DEF Link
    <3>4. link' = [link EXCEPT ![<<b, r>>] = l]
      BY <1>4, <2>1, <2>2, <2>3, <2>4, <3>1, <3>2 DEF Stamp
    <3>5. \A br \in Bindings \X Rows : link[br] # NoLink => link'[br] # NoLink
      BY <3>3, <3>4, NothingAssumption
    <3> QED BY <1>4, <3>5, LinkedMore DEF Stamp, OnlyJob
  <2>5. CASE link[<<b, r>>] = NoLink
    BY <1>1, <1>4, <2>1, <2>2, <2>5 DEF Stamp, OnlyJob
  <2> QED BY <2>4, <2>5
<1>5. ASSUME NEW t \in Tasks, PushNext(w, t) PROVE StrayInv'
  <2>1. UNCHANGED <<ours, link, faults>> /\ push[w] = NoCall
    BY <1>5 DEF PushNext, OnlyJob
  <2>2. \A x \in Callers \cup Workers : x # w => push'[x] = push[x]
    BY <1>5 DEF PushNext, Update
  <2>3. \A r \in Rows : ~ PushHolds(w, r)
    BY <1>0, <2>1 DEF PushHolds
  <2> QED BY <1>0, <2>1, <2>2, <2>3, PushMoved
<1>6. CASE CrashJob(w)
  <2>1. UNCHANGED <<ours, link>> /\ faults' = faults + 1
    BY <1>6 DEF CrashJob, OnlyJob, Fault
  <2>2. \A x \in Callers \cup Workers : x # w => push'[x] = push[x]
    BY <1>6 DEF CrashJob, Update
  <2>3. PICK x : x = push[w].row
    OBVIOUS
  <2>4. \A r \in Rows : PushHolds(w, r) => r = x
    BY <2>3 DEF PushHolds
  <2> QED BY <2>1, <2>2, <2>4, PushMoved
<1> QED BY <1>2, <1>3, <1>4, <1>5, <1>6 DEF JobStep

LEMMA TwinStepStrays ==
  ASSUME KnownInv, KnownInv', StrayInv, NEW c \in Callers, TwinStep(c)
  PROVE  StrayInv'
<1> USE DEF KnownInv, TypeOK, SyncTypeOK
<1>0. NoCall \notin Twin /\ NoRow \notin Rows
  BY NoLegacyAssumption, SyncAssumption
<1>1. PICK n \in Twin : n = twin[c] /\ TwinOK(n)
  BY HeldTwin DEF TwinStep, TwinBinding, TwinUpdate, TwinMark, TwinLink, FailTwin, TwinCreate, TwinAt
<1>2. push' = push /\ \A d \in Callers : d # c => twin'[d] = twin[d]
  BY DEF TwinStep, TwinBinding, TwinUpdate, TwinMark, TwinLink, FailTwin, TwinCreate, OnlyTwin, Update
<1>3. CASE TwinBinding(c)
  <2>1. \A r \in Rows : ~ TwinHolds(c, r)
    BY <1>1, <1>3 DEF TwinBinding, TwinAt, TwinHolds
  <2> QED BY <1>0, <1>2, <1>3, <2>1, TwinMoved DEF TwinBinding
<1>4. CASE TwinUpdate(c)
  <2>1. n.at = "update" /\ row[n.row] \in TableRow
    BY <1>1, <1>4 DEF TwinUpdate, TwinAt, TwinOK, There
  <2>2. ours' = ours
    BY <1>1, <1>4, <2>1, NothingAssumption DEF TwinUpdate, WriteRow
  <2>3. \A r \in Rows : ~ TwinHolds(c, r)
    BY <1>1, <2>1 DEF TwinHolds
  <2> QED BY <1>0, <1>2, <1>4, <2>2, <2>3, TwinMoved DEF TwinUpdate
<1>5. ASSUME NEW r \in Rows, TwinCreate(c, r) PROVE StrayInv'
  <2>1. UNCHANGED <<link, faults>> /\ \A y \in ours' : y \in ours \/ y = r
    BY <1>5 DEF TwinCreate, WriteRow
  <2>2. PICK z : z = [n EXCEPT !.at = "mark", !.row = r]
    OBVIOUS
  <2>3. z \in Twin /\ z.at = "mark" /\ z.row = r
    BY <2>2 DEF Twin
  <2>4. twin'[c] = z
    BY <1>1, <1>5, <2>2 DEF TwinCreate
  <2>5. TwinHolds(c, r)'
    BY <2>3, <2>4 DEF TwinHolds
  <2>6. n.at = "create"
    BY <1>1, <1>5 DEF TwinCreate, TwinAt
  <2>7. \A d \in Callers, y \in Rows : TwinHolds(d, y) => TwinHolds(d, y)'
    BY <1>1, <1>2, <2>6 DEF TwinHolds
  <2>8. \A p \in Callers \cup Workers, y \in Rows : PushHolds(p, y) => PushHolds(p, y)'
    BY <1>2 DEF PushHolds
  <2>9. \A y \in Rows : y \in ours' /\ Unlinked(y)' => (y \in ours /\ Unlinked(y)) \/ Held(y)'
    BY <2>1, <2>5 DEF Held, Unlinked
  <2> QED BY <1>0, <2>1, <2>7, <2>8, <2>9, LostCosts
<1>6. CASE TwinMark(c)
  <2>1. PICK z : z = [n EXCEPT !.at = "link"]
    OBVIOUS
  <2>2. z \in Twin /\ z.at = "link" /\ z.row = n.row
    BY <2>1 DEF Twin
  <2>3. twin'[c] = z
    BY <1>1, <1>6, <2>1 DEF TwinMark
  <2>4. \A r \in Rows : TwinHolds(c, r) => TwinHolds(c, r)'
    BY <1>1, <2>2, <2>3 DEF TwinHolds
  <2> QED BY <1>0, <1>2, <1>6, <2>4, TwinMoved DEF TwinMark
<1>7. CASE TwinLink(c)
  <2>1. PICK r \in Rows, b \in Bindings : r = n.row /\ b = n.binding
    BY <1>1, <1>7 DEF TwinLink, TwinAt, TwinOK
  <2>2. PICK l : l = [EmptyLink EXCEPT !.task = n.task]
    OBVIOUS
  <2>3. l \in Link
    <3>1. n.task \in Tasks /\ 0 \in 0 .. MaxEvents
      BY SyncAssumption DEF Twin
    <3> QED BY <2>2, <3>1 DEF EmptyLink, Link
  <2>4. link' = IF link[<<b, r>>] # NoLink THEN link ELSE [link EXCEPT ![<<b, r>>] = l]
    BY <1>1, <1>7, <2>1, <2>2 DEF TwinLink
  <2>5. ~ Unlinked(r)' /\ \A y \in Rows : Unlinked(y)' => Unlinked(y)
    <3>1. link'[<<b, r>>] # NoLink
      BY <2>3, <2>4, NothingAssumption
    <3>2. \A br \in Bindings \X Rows : link[br] # NoLink => link'[br] # NoLink
      BY <2>3, <2>4, NothingAssumption
    <3> QED BY <3>1, <3>2 DEF Unlinked
  <2>6. UNCHANGED <<ours, faults>>
    BY <1>7 DEF TwinLink
  <2>7. \A d \in Callers, y \in Rows : TwinHolds(d, y) => TwinHolds(d, y)' \/ ~ Unlinked(y)'
    BY <1>1, <1>2, <2>1, <2>5 DEF TwinHolds
  <2>8. \A p \in Callers \cup Workers, y \in Rows : PushHolds(p, y) => PushHolds(p, y)'
    BY <1>2 DEF PushHolds
  <2> QED BY <1>0, <2>5, <2>6, <2>7, <2>8, LostCosts
<1>8. CASE FailTwin(c)
  <2>1. PICK x : x = n.row
    OBVIOUS
  <2>2. \A r \in Rows : TwinHolds(c, r) => r = x
    BY <1>1, <2>1 DEF TwinHolds
  <2> QED BY <1>2, <1>8, <2>2, TwinMoved DEF FailTwin, Fault
<1> QED BY <1>3, <1>4, <1>5, <1>6, <1>7, <1>8 DEF TwinStep

\* Calls of TaskService start both pushes anew.
LEMMA TaskStepStrays ==
  ASSUME KnownInv, KnownInv', StrayInv, NEW c \in Callers,
         SaveEdit(c) \/ \E t \in Tasks : CreateTask(c, t) \/ ReadTask(c, t)
  PROVE  StrayInv'
<1> USE DEF KnownInv, TypeOK
<1>1. UNCHANGED <<ours, link, faults>>
  BY DEF SaveEdit, CreateTask, ReadTask, OnlyTask
<1>2. ASSUME NEW t, NEW saved, Emit(c, t, saved) PROVE StrayInv'
  <2>1. push[c] = NoCall /\ twin[c] = NoCall
    BY <1>2 DEF Emit, StartPush
  <2>2. \A p \in Callers \cup Workers, r \in Rows : PushHolds(p, r) => PushHolds(p, r)'
    BY <1>2, <2>1, NothingAssumption DEF Emit, StartPush, Update, PushHolds, SyncTypeOK
  <2>3. \A d \in Callers, r \in Rows : TwinHolds(d, r) => TwinHolds(d, r)'
    BY <1>2, <2>1, NoLegacyAssumption DEF Emit, Update, TwinHolds
  <2>4. \A r \in Rows : Unlinked(r)' => Unlinked(r)
    BY <1>1 DEF Unlinked
  <2> QED BY <1>1, <2>2, <2>3, <2>4, NoneLost
<1>3. ASSUME NEW t \in Tasks, ReadTask(c, t) PROVE StrayInv'
  BY <1>1, <1>3, NothingLost DEF ReadTask
<1> QED BY <1>2, <1>3 DEF SaveEdit, CreateTask

\* Bindings: the deprecated deleteBinding takes the links along.
LEMMA BindingStrays ==
  ASSUME KnownInv, KnownInv', StrayInv, NEW b \in Bindings,
         \/ SaveBinding(b) \/ TriggerSync(b) \/ RemoveBinding(b)
         \/ TriggerFullSync(b) /\ UNCHANGED legacyVars
         \/ DeleteBinding(b) /\ UNCHANGED legacyVars
         \/ \E d \in Directions : CreateBinding(b, d) /\ UNCHANGED legacyVars
         \/ \E settings \in Binding : UpdateBinding(b, settings) /\ UNCHANGED legacyVars
  PROVE  StrayInv'
<1> USE DEF KnownInv
<1>1. CASE RemoveBinding(b)
  <2>1. UNCHANGED <<push, twin, faults>> /\ ours' = Strays
    BY <1>1 DEF RemoveBinding
  <2>2. \A r \in Rows : r \in ours' => r \in ours /\ Unlinked(r)
    BY <2>1 DEF Strays, Unlinked
  <2>3. \A p \in Callers \cup Workers, r \in Rows : PushHolds(p, r) => PushHolds(p, r)'
    BY <2>1 DEF PushHolds
  <2>4. \A c \in Callers, r \in Rows : TwinHolds(c, r) => TwinHolds(c, r)'
    BY <2>1 DEF TwinHolds
  <2> QED BY <2>1, <2>2, <2>3, <2>4, LostCosts, SyncAssumption
<1>2. CASE ~ RemoveBinding(b)
  <2>1. UNCHANGED <<ours, link, push, twin, faults>>
    BY <1>2 DEF SaveBinding, TriggerSync, TriggerFullSync, DeleteBinding, CreateBinding, UpdateBinding,
                OnlyBindings, legacyVars
  <2> QED BY <2>1, NothingLost
<1> QED BY <1>1, <1>2

LEMMA PullStrays ==
  ASSUME KnownInv, KnownInv', StrayInv, LegacyPull \/ \E b \in Bindings : TakePull(b)
  PROVE  StrayInv'
<1> USE DEF KnownInv
<1>1. CASE LegacySaveLink
  <2>1. PICK q \in Pull : q = pull /\ PullOK(q) /\ q.at = "savelink"
    BY <1>1, PullIs DEF LegacySaveLink, PullAt
  <2>2. PICK r \in Rows, b \in Bindings : r = q.row /\ b = q.binding
    BY <2>1 DEF PullOK, Pull
  <2>3. PICK base \in Link : base = Base(q.was)
    BY BaseIs DEF Pull
  <2>4. PICK l : l = [base EXCEPT !.task = q.found]
    OBVIOUS
  <2>5. l \in Link
    BY <2>4 DEF Link, Pull
  <2>6. link' = [link EXCEPT ![<<b, r>>] = l]
    BY <1>1, <2>1, <2>2, <2>3, <2>4 DEF LegacySaveLink
  <2>7. \A br \in Bindings \X Rows : link[br] # NoLink => link'[br] # NoLink
    BY <2>5, <2>6, NothingAssumption DEF TypeOK, SyncTypeOK
  <2> QED BY <1>1, <2>7, LinkedMore DEF LegacySaveLink, OnlyPull
<1>2. CASE ~ LegacySaveLink
  <2>1. UNCHANGED <<ours, link, push, twin>> /\ (faults' = faults \/ faults' = faults + 1)
    BY <1>2 DEF LegacyPull, LegacyList, LegacyNext, LegacyFindLink, LegacyFind, LegacySave, LegacyEnd,
                LegacyFail, TakePull, PullMoves, OnlyPull, Fault
  <2> QED BY <2>1, NothingLost
<1> QED BY <1>1, <1>2

LEMMA StrayStep ==
  ASSUME KnownInv, KnownInv', StrayInv, Step
  PROVE  StrayInv'
<1>1. ASSUME NEW e \in DOMAIN event, DeliverEvent(e) \/ LoseEvent(e), UNCHANGED legacyVars PROVE StrayInv'
  BY <1>1, NothingLost DEF DeliverEvent, LoseEvent, legacyVars, KnownInv
<1>2. ASSUME NEW r \in Rows, EditRow(r), UNCHANGED legacyVars PROVE StrayInv'
  BY <1>2, NothingLost DEF EditRow, legacyVars, KnownInv
<1>3. ASSUME NEW c \in Callers, PushEntity(c), UNCHANGED legacyVars PROVE StrayInv'
  <2>1. UNCHANGED <<ours, link, faults, twin>> /\ \A p \in Callers \cup Workers : p # c => push'[p] = push[p]
    BY <1>3 DEF PushEntity, Update, KnownInv, TypeOK, SyncTypeOK, legacyVars
  <2>2. \A r \in Rows : ~ PushHolds(c, r)
    BY <1>3 DEF PushEntity, PushAt, PushHolds
  <2> QED BY <2>1, <2>2, PushMoved, SyncAssumption DEF KnownInv
<1>4. CASE SyncStep /\ UNCHANGED legacyVars
  <2>1. twin' = twin
    BY <1>4 DEF legacyVars
  <2> QED BY <1>1, <1>2, <1>3, <1>4, <2>1, BindingStrays, PushStepStrays, JobStepStrays DEF SyncStep
<1>5. ASSUME NEW c \in Callers, \/ TwinStep(c) \/ SaveEdit(c)
                                \/ \E t \in Tasks : CreateTask(c, t) \/ ReadTask(c, t)
      PROVE  StrayInv'
  BY <1>5, TwinStepStrays, TaskStepStrays
<1>6. ASSUME NEW b \in Bindings, SaveBinding(b) \/ TriggerSync(b) \/ RemoveBinding(b)
      PROVE  StrayInv'
  BY <1>6, BindingStrays
<1> QED BY <1>4, <1>5, <1>6, PullStrays DEF Step

LEMMA StrayInductive == Spec => []StrayInv
<1>1. Init => StrayInv
  <2> SUFFICES ASSUME Init PROVE StrayInv
    OBVIOUS
  <2>1. Lost = {} /\ faults = 0
    BY DEF Init, SyncInit, Lost
  <2> QED BY <2>1, FS_EmptySet DEF StrayInv
<1>2. StrayInv /\ KnownInv /\ KnownInv' /\ [Next]_vars => StrayInv'
  <2> SUFFICES ASSUME StrayInv, KnownInv, KnownInv', [Next]_vars PROVE StrayInv'
    OBVIOUS
  <2>1. CASE Next
    BY <2>1, StrayStep DEF Next
  <2>2. CASE UNCHANGED vars
    <3>1. UNCHANGED <<ours, link, push, twin, faults>>
      BY <2>2 DEF vars, syncVars, legacyVars
    <3> QED BY <3>1, NothingLost DEF KnownInv
  <2> QED BY <2>1, <2>2
<1> QED BY <1>1, <1>2, KnownInductive, PTL DEF Spec

LEMMA JoinedSize ==
  ASSUME NEW S, IsFiniteSet(S), NEW T, IsFiniteSet(T)
  PROVE  IsFiniteSet(S \cup T) /\ Cardinality(S \cup T) <= Cardinality(S) + Cardinality(T)
<1>1. IsFiniteSet(S \cap T)
  BY FS_Intersection
<1>2. Cardinality(S) \in Nat /\ Cardinality(T) \in Nat /\ Cardinality(S \cap T) \in Nat
  BY <1>1, FS_CardinalityType
<1>3. /\ IsFiniteSet(S \cup T)
      /\ Cardinality(S \cup T) = Cardinality(S) + Cardinality(T) - Cardinality(S \cap T)
  BY FS_Union
<1> QED BY <1>2, <1>3

\* The rows that pushes hold are no more than the pushes.
LEMMA HeldRows ==
  ASSUME NEW S, IsFiniteSet(S), NEW f, DOMAIN f = S
  PROVE  /\ IsFiniteSet({f[x] : x \in S})
         /\ Cardinality({f[x] : x \in S}) <= Cardinality(S)
<1>1. PICK g : g = [x \in S |-> f[x]]
  OBVIOUS
<1>2. PICK T : T = {f[x] : x \in S}
  OBVIOUS
<1>3. g \in Surjection(S, T)
  BY <1>1, <1>2 DEF Surjection
<1>4. IsFiniteSet(T) /\ Cardinality(T) <= Cardinality(S)
  BY <1>3, FS_Surjection
<1> QED BY <1>2, <1>4

\* Rows of the table that the platform made and nobody's link leads to are no more than the
\* failures so far and the pushes that are about to link one: without a failure, neither
\* syncer makes a row twice or forgets one.
THEOREM StraysAreCounted == Spec => []StraysAreFaults
<1>1. KnownInv /\ StrayInv => StraysAreFaults
  <2> SUFFICES ASSUME KnownInv, StrayInv PROVE StraysAreFaults
    OBVIOUS
  <2>1. PICK pushing, twins :
          /\ pushing = {p \in Callers \cup Workers : PushAt(p, "findlink") \/ PushAt(p, "savelink")}
          /\ twins = {c \in Callers : TwinAt(c, "mark") \/ TwinAt(c, "link")}
    OBVIOUS
  <2>2. IsFiniteSet(Callers \cup Workers)
    BY SyncAssumption, FS_Union
  <2>3. IsFiniteSet(pushing) /\ IsFiniteSet(twins)
    <3>1. pushing \in SUBSET (Callers \cup Workers) /\ twins \in SUBSET Callers
      BY <2>1
    <3> QED BY <2>2, <3>1, SyncAssumption, FS_Subset
  <2>4. PICK f, g : f = [p \in pushing |-> push[p].row] /\ g = [c \in twins |-> twin[c].row]
    OBVIOUS
  <2>5. PICK F, G : F = {f[p] : p \in pushing} /\ G = {g[c] : c \in twins}
    OBVIOUS
  <2>6. IsFiniteSet(F) /\ Cardinality(F) <= Cardinality(pushing)
    BY <2>3, <2>4, <2>5, HeldRows
  <2>7. IsFiniteSet(G) /\ Cardinality(G) <= Cardinality(twins)
    BY <2>3, <2>4, <2>5, HeldRows
  <2>8. Strays \subseteq Lost \cup (F \cup G)
    <3> SUFFICES ASSUME NEW r \in Strays, r \notin Lost PROVE r \in F \cup G
      OBVIOUS
    <3>1. Held(r)
      BY DEF Strays, Lost, Unlinked
    <3>2. ASSUME NEW p \in Callers \cup Workers, PushHolds(p, r) PROVE r \in F
      <4>1. p \in pushing
        BY <2>1, <3>2, NothingAssumption DEF PushHolds, PushAt
      <4>2. f[p] = r
        BY <2>4, <3>2, <4>1 DEF PushHolds
      <4> QED BY <2>5, <4>1, <4>2
    <3>3. ASSUME NEW c \in Callers, TwinHolds(c, r) PROVE r \in G
      <4>1. c \in twins
        BY <2>1, <3>3, NoLegacyAssumption DEF TwinHolds, TwinAt
      <4>2. g[c] = r
        BY <2>4, <3>3, <4>1 DEF TwinHolds
      <4> QED BY <2>5, <4>1, <4>2
    <3> QED BY <3>1, <3>2, <3>3 DEF Held
  <2>9. PICK L : L = Lost /\ IsFiniteSet(L) /\ Cardinality(L) <= faults
    BY LostIs DEF KnownInv, StrayInv
  <2>10. IsFiniteSet(F \cup G) /\ Cardinality(F \cup G) <= Cardinality(F) + Cardinality(G)
    BY <2>6, <2>7, JoinedSize
  <2>11. IsFiniteSet(L \cup (F \cup G)) /\ Cardinality(L \cup (F \cup G)) <= Cardinality(L) + Cardinality(F \cup G)
    BY <2>9, <2>10, JoinedSize
  <2>12. PICK S \in SUBSET (L \cup (F \cup G)) : S = Strays
    BY <2>8, <2>9
  <2>13. IsFiniteSet(S) /\ Cardinality(S) <= Cardinality(L \cup (F \cup G))
    BY <2>11, FS_Subset
  <2>14. /\ Cardinality(S) \in Nat /\ Cardinality(L) \in Nat /\ Cardinality(F) \in Nat /\ Cardinality(G) \in Nat
         /\ Cardinality(F \cup G) \in Nat /\ Cardinality(L \cup (F \cup G)) \in Nat
         /\ Cardinality(pushing) \in Nat /\ Cardinality(twins) \in Nat
    BY <2>3, <2>6, <2>7, <2>9, <2>10, <2>11, <2>13, FS_CardinalityType
  <2>15. faults \in Nat
    BY SyncAssumption DEF KnownInv, TypeOK, SyncTypeOK
  <2>16. Cardinality(S) <= faults + Cardinality(pushing) + Cardinality(twins)
    BY <2>6, <2>7, <2>9, <2>10, <2>11, <2>13, <2>14, <2>15
  <2> QED BY <2>1, <2>12, <2>16 DEF StraysAreFaults
<1> QED BY <1>1, KnownInductive, StrayInductive, PTL

=============================================================================
