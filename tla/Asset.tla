-------------------------------- MODULE Asset --------------------------------
(***************************************************************************)
(* Assets: backend/src/asset (service and the daily expiry job).           *)
(*   executeOperation and update read the asset and save all of it later;  *)
(* the job saves all rows its query found.  Disposals and transfers wait   *)
(* for an approval: its listener applies the latest operation that the     *)
(* asset has then, without looking at the status again.                    *)
(*   Of the operations only the type of the latest is ever used again.     *)
(* The code of a new asset is in AssetCode; the user it is assigned to,    *)
(* its price and depreciation are left out.                                *)
(***************************************************************************)
EXTENDS Approval

CONSTANTS
  Assets, Workers,   \* ids of assets; calls of the asset endpoints
  Existing,          \* rows an asset may have to begin with
  HandSet, Dates,    \* bound: statuses and dates that update() is asked to set
  MaxWork,           \* bound: calls of the endpoints
  MaxLost            \* bound: runs of the job that fail

VARIABLES
  asset,      \* [Assets -> Asset]: assets
  latest,     \* [Assets -> type of the newest row in asset_operations, or Nothing]
  worked,     \* calls so far
  work,       \* [Workers -> the call in flight, or NoCall]
  applying,   \* [Deciders -> the asset a listener has read, and what it will save]
  check,      \* the run of the expiry job, or NoCall
  lost,       \* runs of the job that failed
  overridden  \* history: assets whose status update() set by hand

assetVars == <<asset, latest, worked, work, applying, check, lost, overridden>>

Physical == {"pending_acceptance", "in_use", "idle", "on_loan", "under_repair", "disposed"}
Virtual  == {"active", "expiring_soon", "expired", "decommissioned"}
Gone     == {"disposed", "decommissioned"}
Due      == {"never", "later", "soon", "past"}
AssetRow == [status : Physical \cup Virtual \cup {"absent"}, virtual : BOOLEAN, due : Due]
OpTypes  == {"accept", "assign", "return", "transfer", "repair_start", "repair_end",
             "loan", "loan_return", "dispose", "renew"}
Write == [read : AssetRow, next : AssetRow]   \* what a call has read, what it will save
NoAsset == [status |-> "absent", virtual |-> FALSE, due |-> "never"]

ASSUME AssetAssumption ==
  /\ Assets \subseteq Business /\ \A a \in Assets : BusinessType[a] = "asset_operation"
  /\ Existing \subseteq AssetRow /\ \A row \in Existing : row.status \notin Gone
  /\ HandSet \subseteq Physical \cup Virtual /\ Dates \subseteq Due
  /\ MaxWork \in Nat /\ MaxLost \in Nat

AssetTypeOK ==
  /\ asset \in [Assets -> AssetRow]
  /\ latest \in [Assets -> OpTypes \cup {Nothing}]
  /\ worked \in 0 .. MaxWork /\ lost \in 0 .. MaxLost
  /\ work \in [Workers ->
       [at : {"open", "record", "apply"}, asset : Assets, op : OpTypes, write : Write,
        forced : BOOLEAN] \cup {NoCall}]
  /\ applying \in [Deciders -> [op : OpTypes, write : Write] \cup {NoCall}]
  /\ check \in [at : {"past", "query", "soon"}, found : [Assets -> AssetRow \cup {Nothing}]] \cup {NoCall}
  /\ overridden \in SUBSET Assets

AssetInit ==
  /\ asset \in [Assets -> Existing]
  /\ latest = [a \in Assets |-> Nothing]
  /\ worked = 0 /\ lost = 0
  /\ work = [w \in Workers |-> NoCall]
  /\ applying = [d \in Deciders |-> NoCall]
  /\ check = NoCall
  /\ overridden = {}

-----------------------------------------------------------------------------
(* The tables of the service.                                               *)

Transitions ==
  [pending_acceptance |-> {"accept"},
   in_use |-> {"return", "transfer", "repair_start", "loan", "dispose"},
   idle |-> {"assign", "dispose", "transfer"},
   on_loan |-> {"loan_return"}, under_repair |-> {"repair_end"},
   active |-> {"renew", "dispose"}, expiring_soon |-> {"renew", "dispose"},
   expired |-> {"renew", "dispose"}]

Allowed(status) == IF status \in DOMAIN Transitions THEN Transitions[status] ELSE {}

NeedsApproval(op) == op \in {"dispose", "transfer"}

\* Mutant: the status of an asset in repair has the name the pages use for the operation.
ResultMisnamed(op, virtual) == IF op = "repair_start" THEN "repair" ELSE "in_use"

Result(op, virtual) ==
  CASE op \in {"accept", "assign", "transfer", "repair_end", "loan_return"} -> "in_use"
    [] op = "return" -> "idle"
    [] op = "repair_start" -> "under_repair"
    [] op = "loan" -> "on_loan"
    [] op = "renew" -> "active"
    [] op = "dispose" -> IF virtual THEN "decommissioned" ELSE "disposed"

Applied(row, op) == [row EXCEPT !.status = Result(op, row.virtual)]

\* What was read counts as stale also when a newer operation came in (stale).
SaveAsset(a, write, stale) ==
  /\ asset' = [asset EXCEPT ![a] = write.next]
  /\ raced' = (raced \/ stale \/ asset[a] # write.read)

-----------------------------------------------------------------------------
(* The endpoints.                                                           *)

NewAsset(virtual, due) ==
  [status |-> IF virtual THEN "active" ELSE "pending_acceptance", virtual |-> virtual, due |-> due]

CreateAsset(a, virtual, due) ==
  /\ asset[a] = NoAsset /\ worked < MaxWork
  /\ worked' = worked + 1
  /\ asset' = [asset EXCEPT ![a] = NewAsset(virtual, due)]
  /\ UNCHANGED <<latest, work, applying, check, lost, overridden, approvalVars, raced>>

StartWork(w, a, at, op, next, forced) ==
  /\ work[w] = NoCall /\ worked < MaxWork /\ asset[a] # NoAsset
  /\ worked' = worked + 1
  /\ work' = [work EXCEPT ![w] =
       [at |-> at, asset |-> a, op |-> op, forced |-> forced,
        write |-> [read |-> asset[a], next |-> next]]]
  /\ UNCHANGED <<asset, latest, applying, check, lost, overridden, approvalVars, raced>>

\* executeOperation: the asset is read and the operation checked against its status.
ExecuteOperation(w, a, op) ==
  /\ op \in Allowed(asset[a].status)
  /\ StartWork(w, a, IF NeedsApproval(op) THEN "open" ELSE "record", op,
               Applied(asset[a], op), FALSE)

\* A disposal or transfer first gets its instance.
OpenOperation(w, i, head) ==
  /\ work[w] # NoCall /\ work[w].at = "open"
  /\ CreateInstance(i, work[w].asset, head)
  /\ work' = [work EXCEPT ![w].at = "record"]
  /\ UNCHANGED <<asset, latest, worked, applying, check, lost, overridden, raced>>

\* The operation's row is saved; it is applied at once unless it waits for an approval.
SaveOperation(w) ==
  LET call == work[w]
  IN /\ call # NoCall /\ call.at = "record"
     /\ latest' = [latest EXCEPT ![call.asset] = call.op]
     /\ raced' = (raced \/ asset[call.asset] # call.write.read)
     /\ work' = [work EXCEPT ![w] = IF NeedsApproval(call.op) THEN NoCall ELSE [call EXCEPT !.at = "apply"]]
     /\ UNCHANGED <<asset, worked, applying, check, lost, overridden, approvalVars>>

\* update(): the body may set the status and the expiry date along with other columns.
UpdateAsset(w, a) ==
  \E status \in HandSet \cup {asset[a].status}, due \in Dates \cup {asset[a].due} :
    StartWork(w, a, "apply", "renew", [asset[a] EXCEPT !.status = status, !.due = due],
              status # asset[a].status)

\* The last save of an operation or an update.
SaveWork(w) ==
  LET call == work[w]
      a == call.asset
  IN /\ call # NoCall /\ call.at = "apply"
     /\ SaveAsset(a, call.write, FALSE)
     /\ overridden' = IF call.forced THEN overridden \cup {a} ELSE overridden
     /\ work' = [work EXCEPT ![w] = NoCall]
     /\ UNCHANGED <<latest, worked, applying, check, lost, approvalVars>>

LoseWork(w) ==
  /\ work[w] # NoCall
  /\ work' = [work EXCEPT ![w] = NoCall]
  /\ UNCHANGED <<asset, latest, worked, applying, check, lost, overridden, approvalVars, raced>>

-----------------------------------------------------------------------------
(* handleApprovalCompleted.                                                 *)

\* The asset is read, and after a positive decision its newest operation, which need not be
\* the one the instance was opened for.
HearOperation(d, a) ==
  /\ Announces(d, "emitted", a)
  /\ asset[a] # NoAsset
  /\ IF decide[d].action = "approved" /\ latest[a] # Nothing
     THEN /\ Listen(d, "listening")
          /\ applying' = [applying EXCEPT ![d] =
               [op |-> latest[a],
                write |-> [read |-> asset[a], next |-> Applied(asset[a], latest[a])]]]
     ELSE Listened(d) /\ UNCHANGED applying
  /\ UNCHANGED <<asset, latest, worked, work, check, lost, overridden>>
  /\ UNCHANGED <<config, configs, instance, records, decisions, completed, raced>>

SaveApproved(d, a) ==
  /\ Announces(d, "listening", a)
  /\ SaveAsset(a, applying[d].write, latest[a] # applying[d].op)
  /\ Listened(d)
  /\ applying' = [applying EXCEPT ![d] = NoCall]
  /\ UNCHANGED <<latest, worked, work, check, lost, overridden>>
  /\ UNCHANGED <<config, configs, instance, records, decisions, completed>>

-----------------------------------------------------------------------------
(* The expiry job.                                                          *)

\* Mutant: the query forgets the assets that are gone.
PastDueGone(row) == row.virtual /\ row.due = "past" /\ row.status \notin {"absent", "expired"}

PastDue(row) ==
  row.virtual /\ row.due = "past" /\ row.status \notin {"absent", "expired"} \cup Gone
ExpiringSoon(row) == row.virtual /\ row.due = "soon" /\ row.status = "active"

Found(assets) == [a \in Assets |-> IF a \in assets THEN asset[a] ELSE Nothing]

\* All rows that were found are saved in one transaction, each with everything it held.
SaveFound(status) ==
  /\ asset' = [a \in Assets |->
       IF check.found[a] = Nothing THEN asset[a] ELSE [check.found[a] EXCEPT !.status = status]]
  /\ raced' = (raced \/ \E a \in Assets : check.found[a] \notin {Nothing, asset[a]})

NoneFound == [a \in Assets |-> Nothing]

JobOnly == UNCHANGED <<latest, worked, work, applying, overridden, approvalVars>>

StartCheck ==
  /\ check = NoCall
  /\ LET past == {a \in Assets : PastDue(asset[a])}
     IN check' = [at |-> IF past = {} THEN "query" ELSE "past", found |-> Found(past)]
  /\ JobOnly /\ UNCHANGED <<asset, lost, raced>>

SaveExpired ==
  /\ check # NoCall /\ check.at = "past"
  /\ SaveFound("expired")
  /\ check' = [check EXCEPT !.at = "query", !.found = NoneFound]
  /\ JobOnly /\ UNCHANGED lost

FindExpiring ==
  /\ check # NoCall /\ check.at = "query"
  /\ LET soon == {a \in Assets : ExpiringSoon(asset[a])}
     IN check' = IF soon = {} THEN NoCall ELSE [at |-> "soon", found |-> Found(soon)]
  /\ JobOnly /\ UNCHANGED <<asset, lost, raced>>

\* The reminders that follow change no asset.
SaveExpiring ==
  /\ check # NoCall /\ check.at = "soon"
  /\ SaveFound("expiring_soon")
  /\ check' = NoCall
  /\ JobOnly /\ UNCHANGED lost

\* The job fails and is not repeated before the next day.
LoseCheck ==
  /\ check # NoCall /\ lost < MaxLost
  /\ lost' = lost + 1
  /\ check' = NoCall
  /\ JobOnly /\ UNCHANGED <<asset, raced>>

\* Time goes by.
Age(a) ==
  /\ asset[a].due \in {"later", "soon"}
  /\ asset' = [asset EXCEPT ![a].due = IF @ = "later" THEN "soon" ELSE "past"]
  /\ JobOnly /\ UNCHANGED <<check, lost, raced>>

CheckExpiry == StartCheck \/ SaveExpired \/ FindExpiring \/ SaveExpiring

AssetCall(w) ==
  \/ \E a \in Assets : UpdateAsset(w, a) \/ \E op \in OpTypes : ExecuteOperation(w, a, op)
  \/ \E i \in Instances, head \in BOOLEAN : OpenOperation(w, i, head)
  \/ SaveOperation(w) \/ SaveWork(w) \/ LoseWork(w)

AssetStep ==
  \/ \E a \in Assets, virtual \in BOOLEAN, due \in Due : CreateAsset(a, virtual, due)
  \/ \E a \in Assets : Age(a)
  \/ \E w \in Workers : AssetCall(w)
  \/ \E d \in Deciders, a \in Assets : HearOperation(d, a) \/ SaveApproved(d, a)
  \/ CheckExpiry \/ LoseCheck

-----------------------------------------------------------------------------
(* Properties.                                                              *)

FullySignedFor(a) ==
  \E i \in Instances, n \in Steps :
    instance[i].about = a /\ SignedBefore(i, n + 1) /\ n + 1 \notin instance[i].named

\* An asset is disposed of only after some approval about it went through all its
\* signatures, unless update() set the status by hand.
DisposedIsApproved ==
  \A a \in Assets : asset[a].status \in Gone => a \in overridden \/ FullySignedFor(a)

\* A disposed asset does not come back, although approvals that are still open when it is
\* disposed may yet be granted: its newest operation remains the disposal.
DisposedIsFinal ==
  [][\A a \in Assets :
       asset[a].status \in Gone /\ asset'[a].status \notin Gone =>
         raced' \/ a \in overridden']_<<asset, raced, overridden>>

=============================================================================
