---------------------------- MODULE FinanceProofs ----------------------------
(***************************************************************************)
(* Claims, assets and the approvals they share, for any sets of claims,    *)
(* assets, instances, callers and pages.                                   *)
(*   What one part knows of another goes through three facts: the chain    *)
(* and the subject of an instance never change once it is in use, what was *)
(* signed stays signed, and as long as no save has gone over a newer row,  *)
(* a decided instance stays decided.                                       *)
(***************************************************************************)
EXTENDS Finance, TLAPS

Passed == {"leader_approved", "paid", "completed"}

\* Some instance about b carries every signature of its chain.
Earned(b) == \E i \in Instances : instance[i].about = b /\ FullySigned(i)

\* Call d has announced its decision, and the listener is not through with it.
Announcing(d) == decide[d] # NoCall /\ decide[d].at \in {"emitted", "listening"}

Listening(d, b) == decide[d] # NoCall /\ decide[d].at = "listening" /\ decide[d].row.about = b

\* The row a call of approve() has read is of an instance in use, open, and signed so far;
\* the rest of the call follows its record.
CallSigned(call) ==
  LET i == call.instance
      row == call.row
  IN /\ row.status = "open" /\ row.step \in row.named
     /\ instance[i].status # "unused"
     /\ instance[i].named = row.named /\ instance[i].about = row.about
     /\ SignedBefore(i, row.step)
     /\ call.at # "record" =>
          [instance |-> i, step |-> row.step, action |-> call.action] \in records
     /\ call.at \in {"emitted", "listening"} => ~ Advances(row, call.action)

ApprovalInv ==
  /\ \A i \in Instances : instance[i].status = "unused" => instance[i] = NoInstance
  /\ EveryStepSigned
  /\ \A d \in Deciders : decide[d] # NoCall => CallSigned(decide[d])

\* Without races a decision is taken once and stands.
OnceInv ==
  ~ raced =>
    /\ \A i \in Instances : completed[i] = IF instance[i].status \in Decision THEN 1 ELSE 0
    /\ \A d \in Deciders :
         Announcing(d) => instance[decide[d].instance].status = decide[d].action
    /\ \A d, e \in Deciders :
         Announcing(d) /\ Announcing(e) /\ decide[d].instance = decide[e].instance => d = e

\* What a page's call has read allows the call, and no status it holds is unearned.
CallEarned(call) ==
  /\ call.row.status \in Passed => Earned(call.claim)
  /\ call.op \in {"update", "delete"} => call.row.status = "draft"
  /\ call.op = "submit" /\ call.at # "check" => call.row.status = "draft"
  /\ call.op = "submit" /\ call.at = "save" =>
       call.instance \in Instances /\ instance[call.instance].about = call.claim
  /\ call.op = "pay" => call.row.status = "leader_approved"
  /\ call.op = "complete" => call.row.status = "paid"

ClaimInv ==
  /\ \A c \in Claims : claim[c].status \in Passed => Earned(c)
  /\ \A p \in Pages : sent[p] # NoCall => CallEarned(sent[p])
  /\ \A d \in Deciders, c \in Claims : Listening(d, c) => heard[d] \in Claim
  /\ \A c \in Claims : filled[c] <= orders[c]

Single(c) == \A i, j \in InstancesOf(c) : i = j

\* What a claim with one instance at most owes to it, as long as nothing raced.
Story(c) ==
  /\ claim[c].status \in Passed => \A i \in InstancesOf(c) : instance[i].status = "approved"
  /\ claim[c].status = "rejected" =>
       /\ InstancesOf(c) # {}
       /\ \A i \in InstancesOf(c) : instance[i].status \in {"rejected", "returned"}
  /\ claim[c].status = "submitted" => claim[c].approval \in InstancesOf(c)
  /\ \A d \in Deciders : Announcing(d) /\ decide[d].row.about = c =>
       claim[c].status \notin Passed \cup {"rejected"}
  /\ orders[c] # 0 => claim[c].status = "completed" /\ orders[c] = 1

StoryInv == ~ raced => \A c \in Claims : Single(c) => Story(c)

\* A call of the asset endpoints waits with an operation its asset allowed, or is about to
\* save a status that is not Gone unless that was forced, or earned before.
WorkEarned(call) ==
  /\ call.at \in {"open", "record"} =>
       /\ call.write.read.status \notin Gone
       /\ call.write.next = Applied(call.write.read, call.op)
       /\ ~ call.forced
  /\ call.at = "open" => NeedsApproval(call.op)
  /\ call.at = "apply" /\ ~ call.forced =>
       (call.write.next.status \in Gone <=> call.write.read.status \in Gone)
  /\ call.at = "apply" /\ call.write.next.status \in Gone =>
       call.forced \/ call.asset \in overridden \/ Earned(call.asset)

Application == [op : OpTypes, write : Write]

\* A listener of an asset has read it after an approval, with the operation it applies.
ApplyOK(d) ==
  /\ applying[d] \in Application /\ decide[d].action = "approved"
  /\ applying[d].write.next = Applied(applying[d].write.read, applying[d].op)

AssetInv ==
  /\ \A a \in Assets : asset[a].status \in Gone => a \in overridden \/ Earned(a)
  /\ \A w \in Workers : work[w] # NoCall => WorkEarned(work[w])
  /\ \A d \in Deciders, a \in Assets : Listening(d, a) => ApplyOK(d)
  /\ check # NoCall => \A a \in Assets : check.found[a] # Nothing => check.found[a].status \notin Gone
  /\ ~ raced => \A a \in Assets :
       asset[a].status \in Gone /\ a \notin overridden => latest[a] = "dispose"

FinanceInv == TypeOK /\ ApprovalInv /\ OnceInv /\ ClaimInv /\ StoryInv /\ AssetInv

-----------------------------------------------------------------------------
(* What a step may do to the approvals.                                     *)

Opens(i, b) ==
  /\ i \in Instances /\ b \in Business
  /\ \E head \in BOOLEAN : CreateInstance(i, b, head)
  /\ raced' = raced

Hears(d) ==
  /\ d \in Deciders /\ decide[d] # NoCall /\ decide[d].at = "emitted"
  /\ Listen(d, "listening") \/ Listened(d)
  /\ UNCHANGED <<config, configs, instance, records, decisions, completed, raced>>

\* Once something has raced it stays known.
RacedOn == raced' \in BOOLEAN /\ (raced => raced')

Follows(d) ==
  /\ d \in Deciders /\ decide[d] # NoCall /\ decide[d].at = "listening"
  /\ Listened(d)
  /\ RacedOn
  /\ UNCHANGED <<config, configs, instance, records, decisions, completed>>

ApprovalEffect ==
  \/ RacedOn /\ UNCHANGED approvalVars
  \/ \E i \in Instances, b \in Business : Opens(i, b)
  \/ ApprovalStep
  \/ \E d \in Deciders : Hears(d) \/ Follows(d)

\* A call of a page leaves the approvals alone or opens an instance.
LEMMA ClaimCallEffect ==
  ASSUME TypeOK, NEW p \in Pages, ClaimCall(p)
  PROVE  ApprovalEffect
<1> raced \in BOOLEAN
  BY DEF TypeOK, ApprovalTypeOK
<1> USE DEF SaveClaim
<1>1. CASE InsertFirstItems(p) \/ DeleteItems(p) \/ ReinsertItems(p) \/ SaveUpdate(p)
  BY <1>1 DEF InsertFirstItems, DeleteItems, ReinsertItems, SaveUpdate, ApprovalEffect, RacedOn
<1>2. CASE RemoveClaim(p) \/ SubmitCreated(p) \/ SaveSubmitted(p) \/ SavePaid(p) \/ SaveCompleted(p)
  BY <1>2 DEF RemoveClaim, SubmitCreated, SaveSubmitted, SavePaid, SaveCompleted, ApprovalEffect, RacedOn
<1>3. CASE LoseCall(p)
  BY <1>3 DEF LoseCall, ApprovalEffect, RacedOn
<1>4. ASSUME NEW i \in Instances, OpenInstance(p, i)
      PROVE  ApprovalEffect
  <2>1. PICK c \in Claims : c = sent[p].claim
    BY <1>4 DEF TypeOK, ClaimTypeOK, Sent, OpenInstance, InFlight
  <2>2. PICK head \in BOOLEAN : head = sent[p].head
    BY <1>4 DEF TypeOK, ClaimTypeOK, Sent, OpenInstance, InFlight
  <2>3. c \in Business
    BY <2>1, ClaimAssumption
  <2>4. CreateInstance(i, c, head) /\ raced' = raced
    BY <1>4, <2>1, <2>2 DEF OpenInstance
  <2>5. Opens(i, c)
    BY <2>3, <2>4 DEF Opens
  <2> QED BY <2>3, <2>5 DEF ApprovalEffect, RacedOn
<1> QED BY <1>1, <1>2, <1>3, <1>4 DEF ClaimCall

\* A click leaves the approvals alone.
LEMMA ClaimClickEffect ==
  ASSUME NEW p \in Pages, NEW c \in Claims, ClaimClick(p, c)
  PROVE  UNCHANGED <<approvalVars, raced>>
<1> USE DEF Begin
<1>1. CASE \E submit \in BOOLEAN : CreateClaim(p, c, submit)
  BY <1>1 DEF CreateClaim
<1>2. CASE \E head \in BOOLEAN : SubmitClaim(p, c, head)
  BY <1>2 DEF SubmitClaim
<1>3. CASE UpdateClaim(p, c) \/ DeleteClaim(p, c) \/ PayClaim(p, c) \/ CompleteClaim(p, c)
  BY <1>3 DEF UpdateClaim, DeleteClaim, PayClaim, CompleteClaim
<1>4. CASE LoadClaim(p, c)
  BY <1>4 DEF LoadClaim
<1> QED BY <1>1, <1>2, <1>3, <1>4 DEF ClaimClick

\* The listeners advance the call of approve() they continue.
LEMMA ListenerEffect ==
  ASSUME NEW d \in Deciders,
         \/ \E c \in Claims : HearClaim(d, c) \/ FollowDecision(d, c)
         \/ \E a \in Assets : HearOperation(d, a) \/ SaveApproved(d, a)
  PROVE  Hears(d) \/ Follows(d)
<1>1. CASE \E c \in Claims : HearClaim(d, c)
  BY <1>1 DEF HearClaim, Announces, Hears
<1>2. CASE \E c \in Claims : FollowDecision(d, c)
  BY <1>2 DEF FollowDecision, SaveClaim, Announces, Follows, RacedOn
<1>3. CASE \E a \in Assets : HearOperation(d, a)
  BY <1>3 DEF HearOperation, Announces, Hears
<1>4. CASE \E a \in Assets : SaveApproved(d, a)
  BY <1>4 DEF SaveApproved, SaveAsset, Announces, Follows, RacedOn
<1> QED BY <1>1, <1>2, <1>3, <1>4

\* A call of the asset endpoints leaves the approvals alone or opens an instance.
LEMMA AssetCallEffect ==
  ASSUME TypeOK, NEW w \in Workers, AssetCall(w)
  PROVE  ApprovalEffect
<1> raced \in BOOLEAN
  BY DEF TypeOK, ApprovalTypeOK
<1>1. CASE SaveOperation(w) \/ SaveWork(w) \/ LoseWork(w)
  BY <1>1 DEF SaveOperation, SaveWork, SaveAsset, LoseWork, ApprovalEffect, RacedOn
<1>2. CASE \E a \in Assets : UpdateAsset(w, a) \/ \E op \in OpTypes : ExecuteOperation(w, a, op)
  BY <1>2 DEF UpdateAsset, ExecuteOperation, StartWork, ApprovalEffect, RacedOn
<1>3. ASSUME NEW i \in Instances, NEW head \in BOOLEAN, OpenOperation(w, i, head)
      PROVE  ApprovalEffect
  <2>1. PICK a \in Assets : a = work[w].asset
    BY <1>3 DEF TypeOK, AssetTypeOK, OpenOperation
  <2>2. a \in Business
    BY <2>1, AssetAssumption
  <2>3. CreateInstance(i, a, head) /\ raced' = raced
    BY <1>3, <2>1 DEF OpenOperation
  <2>4. Opens(i, a)
    BY <2>2, <2>3 DEF Opens
  <2> QED BY <2>2, <2>4 DEF ApprovalEffect, RacedOn
<1> QED BY <1>1, <1>2, <1>3 DEF AssetCall

\* Every step does one of these.
LEMMA StepEffect ==
  ASSUME TypeOK, [Next]_financeVars
  PROVE  ApprovalEffect
<1> raced \in BOOLEAN
  BY DEF TypeOK, ApprovalTypeOK
<1>1. CASE UNCHANGED financeVars
  BY <1>1 DEF financeVars, ApprovalEffect, RacedOn
<1>2. CASE Decisions
  BY <1>2 DEF Decisions, ApprovalEffect, RacedOn
<1>3. CASE ClaimSide
  <2>1. CASE \E c \in Claims : LoseOrder(c) \/ \E a \in Assets : TakeOrder(c, a)
    BY <2>1 DEF LoseOrder, TakeOrder, ApprovalEffect, RacedOn
  <2>2. CASE \E p \in Pages : ClaimCall(p)
    BY <2>2, ClaimCallEffect
  <2>3. CASE \E p \in Pages, c \in Claims : ClaimClick(p, c)
    <3>1. UNCHANGED <<approvalVars, raced>>
      BY <2>3, ClaimClickEffect
    <3> QED BY <3>1 DEF ApprovalEffect, RacedOn
  <2>4. CASE \E d \in Deciders, c \in Claims : HearClaim(d, c) \/ FollowDecision(d, c)
    BY <2>4, ListenerEffect DEF ApprovalEffect, RacedOn
  <2> QED BY <1>3, <2>1, <2>2, <2>3, <2>4 DEF ClaimSide, ClaimStep
<1>4. CASE AssetSide
  <2>1. CASE CheckExpiry \/ LoseCheck
    <3>1. UNCHANGED approvalVars
      BY <2>1 DEF CheckExpiry, StartCheck, SaveExpired, FindExpiring, SaveExpiring, LoseCheck, JobOnly
    <3>2. ASSUME NEW status, SaveFound(status)
          PROVE  RacedOn
      BY <3>2, Zenon DEF SaveFound, RacedOn
    <3>3. ASSUME UNCHANGED raced
          PROVE  RacedOn
      BY <3>3 DEF RacedOn
    <3>4. RacedOn
      BY <2>1, <3>2, <3>3 DEF CheckExpiry, StartCheck, SaveExpired, FindExpiring, SaveExpiring, LoseCheck
    <3> QED BY <3>1, <3>4 DEF ApprovalEffect
  <2>2. CASE \/ \E a \in Assets, virtual \in BOOLEAN, due \in Due : CreateAsset(a, virtual, due)
             \/ \E a \in Assets : Age(a)
    BY <2>2 DEF CreateAsset, Age, JobOnly, ApprovalEffect, RacedOn
  <2>3. CASE \E w \in Workers : AssetCall(w)
    BY <2>3, AssetCallEffect
  <2>4. CASE \E d \in Deciders, a \in Assets : HearOperation(d, a) \/ SaveApproved(d, a)
    BY <2>4, ListenerEffect DEF ApprovalEffect, RacedOn
  <2> QED BY <1>4, <2>1, <2>2, <2>3, <2>4 DEF AssetSide, AssetStep
<1> QED BY <1>1, <1>2, <1>3, <1>4 DEF Next

-----------------------------------------------------------------------------
(* Approvals.                                                               *)

\* An instance in use keeps its chain and its subject, and signatures stay.
Kept ==
  /\ records \subseteq records'
  /\ \A i \in Instances : instance[i].status # "unused" =>
       /\ instance'[i].status # "unused"
       /\ instance'[i].named = instance[i].named
       /\ instance'[i].about = instance[i].about

\* What was signed before step n of an instance in use stays signed.
LEMMA SignedKept ==
  ASSUME Kept, NEW i \in Instances, NEW n, instance[i].status # "unused", SignedBefore(i, n)
  PROVE  SignedBefore(i, n)'
BY DEF Kept, SignedBefore

\* So does an approval that was earned.
LEMMA EarnedKept ==
  ASSUME Kept, ApprovalInv, NEW b \in Business, Earned(b)
  PROVE  Earned(b)'
<1>1. PICK i \in Instances : instance[i].about = b /\ FullySigned(i)
  BY DEF Earned
<1>2. instance[i].status # "unused"
  BY <1>1, ApprovalAssumption DEF ApprovalInv, NoInstance
<1>3. PICK n \in Steps : SignedBefore(i, n + 1) /\ n + 1 \notin instance[i].named
  BY <1>1 DEF FullySigned
<1>4. PICK m : m = n + 1
  OBVIOUS
<1>5. SignedBefore(i, m)'
  BY <1>2, <1>3, <1>4, SignedKept
<1>6. m \notin instance'[i].named /\ instance'[i].about = b
  BY <1>1, <1>2, <1>3, <1>4 DEF Kept
<1>7. FullySigned(i)'
  BY <1>4, <1>5, <1>6 DEF FullySigned
<1> QED BY <1>6, <1>7 DEF Earned

\* A call that was signed stays signed while the rows it goes by are kept.
LEMMA CallKept ==
  ASSUME Kept, NEW call \in Deciding, CallSigned(call)
  PROVE  CallSigned(call)'
<1>1. PICK i \in Instances : i = call.instance
  BY DEF Deciding
<1>2. PICK n : n = call.row.step
  OBVIOUS
<1>3. instance[i].status # "unused" /\ SignedBefore(i, n)
  BY <1>1, <1>2 DEF CallSigned
<1>4. SignedBefore(i, n)'
  BY <1>3, SignedKept
<1> QED BY <1>1, <1>2, <1>3, <1>4 DEF CallSigned, Kept

\* The row a call saves: the chain's next step, or its decision.
LEMMA DecidedRow ==
  ASSUME NEW row \in Instance, NEW action \in Decision, row.status = "open"
  PROVE  /\ Decided(row, action) \in Instance
         /\ Decided(row, action).named = row.named /\ Decided(row, action).about = row.about
         /\ Advances(row, action) =>
              Decided(row, action).step = row.step + 1 /\ Decided(row, action).status = "open"
         /\ ~ Advances(row, action) =>
              Decided(row, action).step = row.step /\ Decided(row, action).status = action
<1>1. Advances(row, action) => row.step + 1 \in Steps
  BY DEF Advances, Instance
<1> QED BY <1>1 DEF Decided, Instance, Decision

\* What saving a decision does to the instance it goes by.
LEMMA SavedDecision ==
  ASSUME ApprovalTypeOK, ApprovalInv, NEW d \in Deciders, SaveDecision(d)
  PROVE  /\ decide[d] \in Deciding /\ CallSigned(decide[d])
         /\ instance' = [instance EXCEPT ![decide[d].instance] = Decided(decide[d].row, decide[d].action)]
         /\ Decided(decide[d].row, decide[d].action) \in Instance
         /\ Kept
<1>1. decide[d] \in Deciding /\ decide[d].at = "save" /\ CallSigned(decide[d])
  BY DEF ApprovalTypeOK, ApprovalInv, SaveDecision
<1>2. PICK row \in Instance, action \in Decision : row = decide[d].row /\ action = decide[d].action
  BY <1>1 DEF Deciding
<1>3. row.status = "open"
  BY <1>1, <1>2 DEF CallSigned
<1>4. PICK new : new = Decided(row, action)
  OBVIOUS
<1>5. /\ new \in Instance /\ new.named = row.named /\ new.about = row.about
      /\ new.status # "unused"
  BY <1>3, <1>4, DecidedRow DEF Decision
<1>6. PICK i \in Instances : i = decide[d].instance
  BY <1>1 DEF Deciding
<1>7. instance' = [instance EXCEPT ![i] = new] /\ UNCHANGED records
  BY <1>2, <1>4, <1>6 DEF SaveDecision
<1>8. instance[i].named = row.named /\ instance[i].about = row.about
  BY <1>1, <1>2, <1>6 DEF CallSigned
<1>9. Kept
  BY <1>5, <1>7, <1>8 DEF Kept, ApprovalTypeOK
<1> QED BY <1>1, <1>2, <1>4, <1>5, <1>6, <1>7, <1>9

\* What opening an instance does.
LEMMA OpenedInstance ==
  ASSUME ApprovalTypeOK, NEW i \in Instances, NEW b \in Business, Opens(i, b)
  PROVE  /\ instance[i].status = "unused"
         /\ \E row \in Instance :
              /\ row.status = "open" /\ row.step = 1 /\ row.about = b
              /\ instance' = [instance EXCEPT ![i] = row]
         /\ UNCHANGED <<config, configs, records, decisions, decide, completed, raced>>
         /\ Kept
<1>1. PICK head \in BOOLEAN : CreateInstance(i, b, head)
  BY DEF Opens
<1>2. PICK row : row = [status |-> "open", step |-> 1, about |-> b,
                        named |-> config[BusinessType[b]].named \cup (IF head THEN {1} ELSE {})]
  OBVIOUS
<1>3. config[BusinessType[b]] \in Config
  BY ApprovalAssumption DEF ApprovalTypeOK
<1>4. row \in Instance /\ row.status = "open" /\ row.step = 1 /\ row.about = b
  BY <1>2, <1>3 DEF Instance, Config, Steps
<1>5. instance' = [instance EXCEPT ![i] = row] /\ instance[i].status = "unused"
  BY <1>1, <1>2 DEF CreateInstance, Fresh
<1>6. UNCHANGED <<config, configs, records, decisions, decide, completed, raced>>
  BY <1>1 DEF CreateInstance, Opens
<1>7. Kept
  BY <1>5, <1>6 DEF Kept, ApprovalTypeOK
<1> QED BY <1>4, <1>5, <1>6, <1>7

\* The chain and the subject of an instance never change once it is in use.
LEMMA StepKeeps ==
  ASSUME ApprovalTypeOK, ApprovalInv, ApprovalEffect
  PROVE  Kept
<1>1. CASE UNCHANGED <<instance, records>>
  BY <1>1 DEF Kept
<1>2. CASE \E i \in Instances, b \in Business : Opens(i, b)
  BY <1>2, OpenedInstance
<1>3. ASSUME NEW d \in Deciders, SaveDecision(d)
      PROVE  Kept
  BY <1>3, SavedDecision
<1>4. ASSUME NEW d \in Deciders, SaveRecord(d)
      PROVE  Kept
  BY <1>4 DEF SaveRecord, Kept
<1>5. CASE ApprovalStep
  BY <1>1, <1>3, <1>4, <1>5 DEF ApprovalStep, UpsertConfig, Approve, LoseDecision
<1> QED BY <1>1, <1>2, <1>5 DEF ApprovalEffect, approvalVars, Hears, Follows

LEMMA SaturatedType ==
  ASSUME NEW n \in 0 .. 2
  PROVE  Saturated(n) \in 0 .. 2 /\ n <= Saturated(n) /\ (n = 0 => Saturated(n) = 1)
BY DEF Saturated

\* What has raced stays known.
LEMMA RacedGrows ==
  ASSUME ApprovalTypeOK, ApprovalEffect
  PROVE  RacedOn
<1> raced \in BOOLEAN
  BY DEF ApprovalTypeOK
<1>1. CASE ApprovalStep
  BY <1>1 DEF ApprovalStep, UpsertConfig, Approve, SaveRecord, SaveDecision, LoseDecision, RacedOn
<1>2. CASE UNCHANGED raced
  BY <1>2 DEF RacedOn
<1> QED BY <1>1, <1>2 DEF ApprovalEffect, Opens, Hears, Follows

\* Every step keeps the types of the approvals.
LEMMA ApprovalTypes ==
  ASSUME ApprovalTypeOK, ApprovalInv, ApprovalEffect
  PROVE  ApprovalTypeOK'
<1> RacedOn
  BY RacedGrows
<1> USE DEF RacedOn
<1>1. CASE UNCHANGED approvalVars
  BY <1>1 DEF approvalVars, ApprovalTypeOK
<1>2. ASSUME NEW i \in Instances, NEW b \in Business, Opens(i, b)
      PROVE  ApprovalTypeOK'
  BY <1>2, OpenedInstance DEF ApprovalTypeOK
<1>3. ASSUME NEW d \in Deciders, Hears(d) \/ Follows(d)
      PROVE  ApprovalTypeOK'
  <2>1. decide' \in [Deciders -> Deciding \cup {NoCall}]
    <3>1. decide[d] \in Deciding
      BY <1>3 DEF ApprovalTypeOK, Hears, Follows
    <3>2. [decide[d] EXCEPT !.at = "listening"] \in Deciding
      BY <3>1 DEF Deciding
    <3> QED BY <1>3, <3>1, <3>2 DEF ApprovalTypeOK, Hears, Follows, Listen, Listened
  <2> QED BY <1>3, <2>1 DEF ApprovalTypeOK, Hears, Follows
<1>4. ASSUME NEW t \in Types, NEW c \in Edits, UpsertConfig(t, c)
      PROVE  ApprovalTypeOK'
  <2>1. c \in Config
    BY ApprovalAssumption DEF Config
  <2> QED BY <1>4, <2>1, ApprovalAssumption DEF ApprovalTypeOK, UpsertConfig
<1>5. ASSUME NEW d \in Deciders, NEW i \in Instances, NEW action \in Decision, Approve(d, i, action)
      PROVE  ApprovalTypeOK'
  <2>1. PICK call : call = [at |-> "record", instance |-> i, row |-> instance[i], action |-> action]
    OBVIOUS
  <2>2. call \in Deciding
    BY <2>1 DEF Deciding, ApprovalTypeOK
  <2> QED BY <1>5, <2>1, <2>2, ApprovalAssumption DEF ApprovalTypeOK, Approve
<1>6. ASSUME NEW d \in Deciders, SaveRecord(d)
      PROVE  ApprovalTypeOK'
  <2>1. decide[d] \in Deciding
    BY <1>6 DEF ApprovalTypeOK, SaveRecord
  <2>2. [decide[d] EXCEPT !.at = "save"] \in Deciding
    BY <2>1 DEF Deciding
  <2>3. [instance |-> decide[d].instance, step |-> decide[d].row.step, action |-> decide[d].action] \in Record
    BY <2>1 DEF Deciding, Record, Instance
  <2> QED BY <1>6, <2>1, <2>2, <2>3 DEF ApprovalTypeOK, SaveRecord
<1>7. ASSUME NEW d \in Deciders, SaveDecision(d)
      PROVE  ApprovalTypeOK'
  <2>1. decide[d] \in Deciding
    BY <1>7 DEF ApprovalTypeOK, SaveDecision
  <2>2. [decide[d] EXCEPT !.at = "emitted"] \in Deciding
    BY <2>1 DEF Deciding
  <2>3. PICK i \in Instances : i = decide[d].instance
    BY <2>1 DEF Deciding
  <2>4. completed' \in [Instances -> 0 .. 2]
    <3>1. Saturated(completed[i]) \in 0 .. 2
      BY SaturatedType DEF ApprovalTypeOK
    <3> QED BY <1>7, <2>3, <3>1 DEF ApprovalTypeOK, SaveDecision
  <2>5. instance' \in [Instances -> Instance]
    <3>1. PICK new \in Instance : new = Decided(decide[d].row, decide[d].action)
      BY <1>7, SavedDecision
    <3> QED BY <1>7, <2>3, <3>1 DEF ApprovalTypeOK, SaveDecision
  <2>6. decide' \in [Deciders -> Deciding \cup {NoCall}]
    BY <1>7, <2>1, <2>2 DEF ApprovalTypeOK, SaveDecision
  <2> QED BY <1>7, <2>4, <2>5, <2>6 DEF ApprovalTypeOK, SaveDecision
<1>8. ASSUME NEW d \in Deciders, LoseDecision(d)
      PROVE  ApprovalTypeOK'
  BY <1>8 DEF ApprovalTypeOK, LoseDecision
<1> QED BY <1>1, <1>2, <1>3, <1>4, <1>5, <1>6, <1>7, <1>8 DEF ApprovalEffect, ApprovalStep

\* A step that saves no instance and no record leaves every signature in place.
LEMMA SignaturesStay ==
  ASSUME ApprovalTypeOK, ApprovalInv, Kept, UNCHANGED instance
  PROVE  EveryStepSigned'
<1> SUFFICES ASSUME NEW i \in Instances
             PROVE  /\ SignedBefore(i, instance[i].step)'
                    /\ instance'[i].status = "approved" =>
                         /\ SignedBefore(i, instance[i].step + 1)'
                         /\ instance'[i].step + 1 \notin instance'[i].named
  BY DEF EveryStepSigned
<1>1. PICK n, m : n = instance[i].step /\ m = instance[i].step + 1
  OBVIOUS
<1>2. CASE instance[i].status = "unused"
  <2>1. instance'[i] = NoInstance
    BY <1>2 DEF ApprovalInv
  <2> QED BY <2>1 DEF NoInstance, SignedBefore, Steps
<1>3. CASE instance[i].status # "unused"
  <2>1. /\ SignedBefore(i, n)
        /\ instance[i].status = "approved" => SignedBefore(i, m) /\ m \notin instance[i].named
    BY <1>1 DEF ApprovalInv, EveryStepSigned
  <2>2. /\ SignedBefore(i, n)'
        /\ instance[i].status = "approved" => SignedBefore(i, m)'
    BY <1>3, <2>1, SignedKept
  <2> QED BY <1>1, <2>1, <2>2
<1> QED BY <1>2, <1>3

\* Steps that leave instances and records alone keep what is signed; the calls in flight
\* either are as they were or satisfy CallSigned anew.
LEMMA ApprovalInvFrame ==
  ASSUME ApprovalTypeOK, ApprovalInv, Kept, UNCHANGED instance,
         \A d \in Deciders : decide'[d] \in {decide[d], NoCall} \/ CallSigned(decide[d])'
  PROVE  ApprovalInv'
<1>1. EveryStepSigned'
  BY SignaturesStay
<1>2. ASSUME NEW d \in Deciders, decide'[d] # NoCall
      PROVE  CallSigned(decide[d])'
  <2>1. CASE decide'[d] = decide[d]
    <3>1. PICK call \in Deciding : call = decide[d]
      BY <1>2, <2>1 DEF ApprovalTypeOK
    <3>2. CallSigned(call)
      BY <1>2, <2>1, <3>1 DEF ApprovalInv
    <3>3. CallSigned(call)'
      BY <3>2, CallKept
    <3> QED BY <2>1, <3>1, <3>3 DEF CallSigned
  <2> QED BY <1>2, <2>1
<1> QED BY <1>1, <1>2 DEF ApprovalInv

\* Signed so far, by the caller of the current step too.
LEMMA SignedNext ==
  ASSUME NEW call \in Deciding, CallSigned(call), call.at # "record", call.action = "approved"
  PROVE  SignedBefore(call.instance, call.row.step + 1)
<1>1. PICK n \in Steps : n = call.row.step
  BY DEF Deciding, Instance
<1>2. SignedBefore(call.instance, n) /\ n \in instance[call.instance].named
  BY <1>1 DEF CallSigned
<1>3. [instance |-> call.instance, step |-> n, action |-> "approved"] \in records
  BY <1>1 DEF CallSigned
<1>4. \A s \in Steps : s < n + 1 => s < n \/ s = n
  BY DEF Steps
<1> QED BY <1>1, <1>2, <1>3, <1>4 DEF SignedBefore

\* Saving a decision passes no step that was not signed.
LEMMA DecisionSigned ==
  ASSUME ApprovalTypeOK, ApprovalInv, NEW d \in Deciders, SaveDecision(d)
  PROVE  ApprovalInv'
<1>1. PICK call \in Deciding : call = decide[d]
  BY SavedDecision
<1>2. PICK i \in Instances, row \in Instance, action \in Decision :
        i = call.instance /\ row = call.row /\ action = call.action
  BY DEF Deciding
<1>3. PICK new \in Instance : new = Decided(row, action)
  BY <1>1, <1>2, SavedDecision
<1>4. /\ instance' = [instance EXCEPT ![i] = new] /\ Kept /\ CallSigned(call)
      /\ call.at = "save" /\ UNCHANGED records
  BY <1>1, <1>2, <1>3, SavedDecision DEF SaveDecision
<1>5. row.status = "open" /\ instance[i].status # "unused" /\ instance[i].named = row.named
  BY <1>2, <1>4 DEF CallSigned
<1>6. /\ new.named = row.named
      /\ Advances(row, action) => new.step = row.step + 1 /\ new.status = "open"
      /\ ~ Advances(row, action) => new.step = row.step /\ new.status = action
  BY <1>3, <1>5, DecidedRow
<1>7. PICK n \in Steps, m \in Int : n = row.step /\ m = n + 1
  BY DEF Instance, Steps
<1>8. /\ SignedBefore(i, n)
      /\ action = "approved" => SignedBefore(i, m)
  BY <1>2, <1>4, <1>7, SignedNext DEF CallSigned
<1>9. SignedBefore(i, n)' /\ (action = "approved" => SignedBefore(i, m)')
  BY <1>4, <1>5, <1>8, SignedKept
<1>10. EveryStepSigned'
  <2> SUFFICES ASSUME NEW j \in Instances
               PROVE  /\ SignedBefore(j, instance[j].step)'
                      /\ instance'[j].status = "approved" =>
                           /\ SignedBefore(j, instance[j].step + 1)'
                           /\ instance'[j].step + 1 \notin instance'[j].named
    BY DEF EveryStepSigned
  <2>1. CASE j = i
    <3>1. instance'[i] = new
      BY <1>4 DEF ApprovalTypeOK
    <3>2. CASE Advances(row, action)
      BY <2>1, <3>1, <3>2, <1>6, <1>7, <1>9 DEF Advances
    <3>3. CASE ~ Advances(row, action)
      BY <2>1, <3>1, <3>3, <1>6, <1>7, <1>9 DEF Advances
    <3> QED BY <3>2, <3>3
  <2>2. CASE j # i
    <3>1. instance'[j] = instance[j]
      BY <2>2, <1>4 DEF ApprovalTypeOK
    <3> QED BY <3>1, <1>4 DEF ApprovalInv, EveryStepSigned, SignedBefore
  <2> QED BY <2>1, <2>2
<1>11. ASSUME NEW j \in Instances, instance'[j].status = "unused"
       PROVE  instance'[j] = NoInstance
  BY <1>11, <1>4, <1>5, <1>6 DEF ApprovalInv, ApprovalTypeOK, Decision
<1>12. ASSUME NEW e \in Deciders, decide'[e] # NoCall
       PROVE  CallSigned(decide[e])'
  <2>1. CASE e # d
    <3>1. decide'[e] = decide[e]
      BY <2>1 DEF SaveDecision, ApprovalTypeOK
    <3>2. PICK other \in Deciding : other = decide[e]
      BY <1>12, <3>1 DEF ApprovalTypeOK
    <3>3. CallSigned(other)'
      BY <1>12, <3>1, <3>2, <1>4, CallKept DEF ApprovalInv
    <3> QED BY <3>1, <3>2, <3>3 DEF CallSigned
  <2>2. CASE e = d
    <3>1. ~ Advances(row, action) /\ decide'[d] = [call EXCEPT !.at = "emitted"]
      BY <1>12, <2>2, <1>1, <1>2 DEF SaveDecision, ApprovalTypeOK
    <3>2. CallSigned(call)'
      BY <1>4, CallKept
    <3>3. PICK c : c = decide'[d]
      OBVIOUS
    <3>4. /\ c.at = "emitted" /\ c.instance = call.instance /\ c.row = call.row
          /\ c.action = call.action
      BY <3>1, <3>3 DEF Deciding
    <3> QED BY <2>2, <3>1, <3>2, <3>3, <3>4, <1>2, <1>4 DEF CallSigned
  <2> QED BY <2>1, <2>2
<1> QED BY <1>10, <1>11, <1>12 DEF ApprovalInv

\* Every step keeps ApprovalInv.
LEMMA ApprovalInvKept ==
  ASSUME ApprovalTypeOK, ApprovalInv, ApprovalEffect
  PROVE  ApprovalInv'
<1> Kept
  BY StepKeeps
<1>1. CASE UNCHANGED <<instance, decide>>
  BY <1>1, ApprovalInvFrame
<1>2. ASSUME NEW i \in Instances, NEW b \in Business, Opens(i, b)
      PROVE  ApprovalInv'
  <2>1. PICK row \in Instance :
          /\ row.status = "open" /\ row.step = 1
          /\ instance' = [instance EXCEPT ![i] = row]
    BY <1>2, OpenedInstance
  <2>2. instance[i].status = "unused" /\ UNCHANGED <<decide, records>>
    BY <1>2, OpenedInstance
  <2>3. EveryStepSigned'
    <3> SUFFICES ASSUME NEW j \in Instances
                 PROVE  /\ SignedBefore(j, instance[j].step)'
                        /\ instance'[j].status = "approved" =>
                             /\ SignedBefore(j, instance[j].step + 1)'
                             /\ instance'[j].step + 1 \notin instance'[j].named
      BY DEF EveryStepSigned
    <3>1. CASE j = i
      BY <3>1, <2>1 DEF SignedBefore, Steps, ApprovalTypeOK
    <3>2. CASE j # i
      BY <3>2, <2>1, <2>2 DEF ApprovalInv, EveryStepSigned, SignedBefore, ApprovalTypeOK
    <3> QED BY <3>1, <3>2
  <2>4. ASSUME NEW d \in Deciders, decide'[d] # NoCall
        PROVE  CallSigned(decide[d])'
    <3>1. PICK call \in Deciding : call = decide[d]
      BY <2>2, <2>4 DEF ApprovalTypeOK
    <3>2. CallSigned(call)'
      BY <2>2, <2>4, <3>1, CallKept DEF ApprovalInv
    <3> QED BY <2>2, <3>1, <3>2 DEF CallSigned
  <2>5. ASSUME NEW j \in Instances, instance'[j].status = "unused"
        PROVE  instance'[j] = NoInstance
    BY <2>1, <2>5 DEF ApprovalInv, ApprovalTypeOK
  <2> QED BY <2>3, <2>4, <2>5 DEF ApprovalInv
<1>3. ASSUME NEW d \in Deciders, Hears(d) \/ Follows(d)
      PROVE  ApprovalInv'
  <2>1. UNCHANGED <<instance, records>> /\ decide[d] \in Deciding /\ CallSigned(decide[d])
    BY <1>3 DEF Hears, Follows, ApprovalTypeOK, ApprovalInv
  <2>2. /\ \A e \in Deciders \ {d} : decide'[e] = decide[e]
        /\ \/ decide'[d] = NoCall
           \/ decide[d].at = "emitted" /\ decide'[d] = [decide[d] EXCEPT !.at = "listening"]
    BY <1>3 DEF Hears, Follows, Listen, Listened, ApprovalTypeOK
  <2>3. CASE decide'[d] = NoCall
    BY <2>1, <2>2, <2>3, ApprovalInvFrame
  <2>4. CASE decide[d].at = "emitted" /\ decide'[d] = [decide[d] EXCEPT !.at = "listening"]
    <3>1. PICK call, c : call = decide[d] /\ c = decide'[d]
      OBVIOUS
    <3>2. /\ c.at = "listening" /\ c.instance = call.instance /\ c.row = call.row
          /\ c.action = call.action /\ call.at = "emitted" /\ call \in Deciding
      BY <2>1, <2>4, <3>1 DEF Deciding
    <3>3. CallSigned(call)'
      BY <2>1, <3>1, <3>2, CallKept
    <3>4. CallSigned(decide[d])'
      BY <3>1, <3>2, <3>3 DEF CallSigned
    <3> QED BY <2>1, <2>2, <3>4, ApprovalInvFrame
  <2> QED BY <2>2, <2>3, <2>4
<1>4. ASSUME NEW d \in Deciders, NEW i \in Instances, NEW action \in Decision, Approve(d, i, action)
      PROVE  ApprovalInv'
  <2>1. PICK c : c = [at |-> "record", instance |-> i, row |-> instance[i], action |-> action]
    OBVIOUS
  <2>2. /\ decide' = [decide EXCEPT ![d] = c] /\ UNCHANGED <<instance, records>>
        /\ instance[i].status = "open" /\ instance[i].step \in instance[i].named
    BY <1>4, <2>1 DEF Approve, MayDecide
  <2>3. SignedBefore(i, instance[i].step)
    BY DEF ApprovalInv, EveryStepSigned
  <2>4. CallSigned(c)'
    BY <2>1, <2>2, <2>3 DEF CallSigned, SignedBefore
  <2>5. \A e \in Deciders : decide'[e] = decide[e] \/ decide'[e] = c
    BY <2>2 DEF ApprovalTypeOK
  <2>6. ASSUME NEW e \in Deciders, decide'[e] = c
        PROVE  CallSigned(decide[e])'
    BY <2>4, <2>6 DEF CallSigned
  <2> QED BY <2>2, <2>5, <2>6, ApprovalInvFrame
<1>5. ASSUME NEW d \in Deciders, SaveRecord(d)
      PROVE  ApprovalInv'
  <2>1. PICK call, c : call = decide[d] /\ c = [decide[d] EXCEPT !.at = "save"]
    OBVIOUS
  <2>2. /\ decide' = [decide EXCEPT ![d] = c] /\ UNCHANGED instance
        /\ call \in Deciding /\ CallSigned(call)
        /\ records' = records \cup
             {[instance |-> call.instance, step |-> call.row.step, action |-> call.action]}
    BY <1>5, <2>1 DEF SaveRecord, ApprovalTypeOK, ApprovalInv
  <2>3. /\ c.at = "save" /\ c.instance = call.instance /\ c.row = call.row
        /\ c.action = call.action
    BY <2>1, <2>2 DEF Deciding
  <2>4. CallSigned(call)'
    BY <2>2, CallKept
  <2>5. CallSigned(c)'
    BY <2>2, <2>3, <2>4 DEF CallSigned
  <2>6. \A e \in Deciders : decide'[e] = decide[e] \/ decide'[e] = c
    BY <2>2 DEF ApprovalTypeOK
  <2>7. ASSUME NEW e \in Deciders, decide'[e] = c
        PROVE  CallSigned(decide[e])'
    BY <2>5, <2>7 DEF CallSigned
  <2> QED BY <2>2, <2>6, <2>7, ApprovalInvFrame
<1>6. ASSUME NEW d \in Deciders, LoseDecision(d)
      PROVE  ApprovalInv'
  <2>1. UNCHANGED instance /\ \A e \in Deciders : decide'[e] \in {decide[e], NoCall}
    BY <1>6 DEF LoseDecision, ApprovalTypeOK
  <2> QED BY <2>1, ApprovalInvFrame
<1>7. CASE ApprovalStep
  BY <1>1, <1>4, <1>5, <1>6, <1>7, DecisionSigned DEF ApprovalStep, UpsertConfig
<1> QED BY <1>1, <1>2, <1>3, <1>7 DEF ApprovalEffect, approvalVars

\* Steps that decide nothing, and announce nothing new.
LEMMA OnceFrame ==
  ASSUME OnceInv, raced => raced', UNCHANGED <<instance, completed>>,
         \A d \in Deciders : Announcing(d)' =>
           /\ Announcing(d)
           /\ decide'[d].instance = decide[d].instance /\ decide'[d].action = decide[d].action
  PROVE  OnceInv'
BY DEF OnceInv

\* Unless it saves over a newer row, a call decides an instance that is open.
LEMMA DecisionOnce ==
  ASSUME ApprovalTypeOK, ApprovalInv, OnceInv, NEW d \in Deciders, SaveDecision(d)
  PROVE  OnceInv'
<1> SUFFICES ASSUME ~ raced'
             PROVE  OnceInv'
  BY DEF OnceInv
<1>1. PICK call \in Deciding : call = decide[d]
  BY SavedDecision
<1>2. PICK i \in Instances, row \in Instance, action \in Decision :
        i = call.instance /\ row = call.row /\ action = call.action
  BY DEF Deciding
<1>3. PICK new \in Instance : new = Decided(row, action)
  BY <1>1, <1>2, SavedDecision
<1>4. instance' = [instance EXCEPT ![i] = new] /\ CallSigned(call)
  BY <1>1, <1>2, <1>3, SavedDecision
<1>5. row.status = "open"
  BY <1>2, <1>4 DEF CallSigned
<1>6. ~ raced /\ instance[i] = row
  BY <1>1, <1>2 DEF SaveDecision
<1>7. /\ Advances(row, action) => new.status = "open"
      /\ ~ Advances(row, action) => new.status = action
  BY <1>3, <1>5, DecidedRow
<1>8. completed[i] = 0 /\ \A e \in Deciders : Announcing(e) => decide[e].instance # i
  <2>1. ASSUME NEW e \in Deciders, Announcing(e), decide[e].instance = i
        PROVE  FALSE
    <3>1. decide[e].action \in Decision
      BY <2>1 DEF Announcing, ApprovalTypeOK, Deciding
    <3>2. instance[i].status = decide[e].action
      BY <2>1, <1>6 DEF OnceInv
    <3> QED BY <3>1, <3>2, <1>5, <1>6 DEF Decision
  <2> QED BY <2>1, <1>5, <1>6 DEF OnceInv, Decision
<1>9. CASE Advances(row, action)
  <2>1. decide' = [decide EXCEPT ![d] = NoCall] /\ completed' = completed
    BY <1>9, <1>1, <1>2 DEF SaveDecision
  <2>2. \A e \in Deciders : Announcing(e)' => Announcing(e) /\ decide'[e] = decide[e]
    BY <2>1 DEF Announcing, ApprovalTypeOK
  <2>3. \A j \in Instances : j # i => instance'[j] = instance[j]
    BY <1>4 DEF ApprovalTypeOK
  <2>4. instance'[i].status = "open"
    BY <1>4, <1>7, <1>9 DEF ApprovalTypeOK
  <2>5. \A j \in Instances : completed'[j] = IF instance'[j].status \in Decision THEN 1 ELSE 0
    BY <1>6, <1>8, <2>1, <2>3, <2>4 DEF OnceInv, Decision
  <2>6. \A e \in Deciders : Announcing(e)' => decide[e].instance \in Instances \ {i}
    BY <1>8, <2>2 DEF Announcing, ApprovalTypeOK, Deciding
  <2> QED BY <1>6, <2>2, <2>3, <2>5, <2>6 DEF OnceInv
<1>10. CASE ~ Advances(row, action)
  <2>1. /\ decide' = [decide EXCEPT ![d] = [call EXCEPT !.at = "emitted"]]
        /\ completed' = [completed EXCEPT ![i] = Saturated(completed[i])]
    BY <1>10, <1>1, <1>2 DEF SaveDecision
  <2>2. \A e \in Deciders : e # d => (Announcing(e)' => Announcing(e)) /\ decide'[e] = decide[e]
    BY <2>1 DEF Announcing, ApprovalTypeOK
  <2>3. \A j \in Instances : j # i => instance'[j] = instance[j] /\ completed'[j] = completed[j]
    BY <1>4, <2>1 DEF ApprovalTypeOK
  <2>4. instance'[i].status = action /\ completed'[i] = 1
    BY <1>4, <1>7, <1>8, <1>10, <2>1 DEF ApprovalTypeOK, Saturated
  <2>5. decide'[d].instance = i /\ decide'[d].action = action
    BY <2>1, <1>2 DEF ApprovalTypeOK, Deciding
  <2>6. \A j \in Instances : completed'[j] = IF instance'[j].status \in Decision THEN 1 ELSE 0
    BY <1>6, <2>3, <2>4 DEF OnceInv
  <2>7. ASSUME NEW e \in Deciders, Announcing(e)'
        PROVE  /\ instance'[decide'[e].instance].status = decide'[e].action
               /\ decide'[e].instance = i => e = d
    <3>1. CASE e = d
      BY <3>1, <2>4, <2>5
    <3>2. CASE e # d
      <4>1. Announcing(e) /\ decide'[e] = decide[e] /\ decide[e].instance # i
        BY <3>2, <2>2, <2>7, <1>8
      <4>2. PICK j \in Instances : j = decide[e].instance
        BY <4>1 DEF Announcing, ApprovalTypeOK, Deciding
      <4> QED BY <4>1, <4>2, <2>3, <1>6 DEF OnceInv
    <3> QED BY <3>1, <3>2
  <2>8. ASSUME NEW e \in Deciders, NEW f \in Deciders, Announcing(e)', Announcing(f)',
               decide'[e].instance = decide'[f].instance
        PROVE  e = f
    <3>1. CASE decide'[e].instance = i
      BY <3>1, <2>7, <2>8
    <3>2. CASE decide'[e].instance # i
      <4>1. e # d /\ f # d
        BY <3>2, <2>5, <2>8
      <4> QED BY <4>1, <2>2, <2>8, <1>6 DEF OnceInv
    <3> QED BY <3>1, <3>2
  <2> QED BY <2>6, <2>7, <2>8 DEF OnceInv
<1> QED BY <1>9, <1>10

\* Every step keeps OnceInv.
LEMMA OnceInvKept ==
  ASSUME ApprovalTypeOK, ApprovalInv, OnceInv, ApprovalEffect
  PROVE  OnceInv'
<1>1. RacedOn
  BY RacedGrows
<1>2. raced => raced'
  BY <1>1 DEF RacedOn
<1>3. CASE UNCHANGED <<instance, completed>>
           /\ \A d \in Deciders : decide'[d] = decide[d] \/ ~ Announcing(d)'
  BY <1>2, <1>3, OnceFrame DEF Announcing
<1>4. ASSUME NEW i \in Instances, NEW b \in Business, Opens(i, b)
      PROVE  OnceInv'
  <2> SUFFICES ASSUME ~ raced'
               PROVE  OnceInv'
    BY DEF OnceInv
  <2>1. PICK row \in Instance : row.status = "open" /\ instance' = [instance EXCEPT ![i] = row]
    BY <1>4, OpenedInstance
  <2>2. instance[i].status = "unused" /\ UNCHANGED <<decide, completed, raced>>
    BY <1>4, OpenedInstance
  <2>3. /\ instance'[i].status = "open"
        /\ \A j \in Instances : j # i => instance'[j] = instance[j]
    BY <2>1 DEF ApprovalTypeOK
  <2>4. \A j \in Instances : completed'[j] = IF instance'[j].status \in Decision THEN 1 ELSE 0
    BY <2>2, <2>3 DEF OnceInv, Decision
  <2>5. ASSUME NEW d \in Deciders, Announcing(d)
        PROVE  decide[d].instance \in Instances \ {i}
    BY <2>2, <2>5 DEF Announcing, ApprovalInv, CallSigned, ApprovalTypeOK, Deciding
  <2>6. \A d \in Deciders : Announcing(d)' <=> Announcing(d)
    BY <2>2 DEF Announcing
  <2> QED BY <2>2, <2>3, <2>4, <2>5, <2>6 DEF OnceInv
<1>5. ASSUME NEW d \in Deciders, Hears(d) \/ Follows(d)
      PROVE  OnceInv'
  <2>1. decide[d] \in Deciding /\ UNCHANGED <<instance, completed>>
    BY <1>5 DEF Hears, Follows, ApprovalTypeOK
  <2>2. /\ \A e \in Deciders \ {d} : decide'[e] = decide[e]
        /\ \/ decide'[d] = NoCall
           \/ decide[d].at = "emitted" /\ decide'[d] = [decide[d] EXCEPT !.at = "listening"]
    BY <1>5 DEF Hears, Follows, Listen, Listened, ApprovalTypeOK
  <2>3. ASSUME Announcing(d)'
        PROVE  /\ Announcing(d)
               /\ decide'[d].instance = decide[d].instance /\ decide'[d].action = decide[d].action
    <3>1. decide[d].at = "emitted" /\ decide'[d] = [decide[d] EXCEPT !.at = "listening"]
      BY <2>2, <2>3 DEF Announcing
    <3>2. decide[d] # NoCall
      BY <1>5 DEF Hears, Follows
    <3> QED BY <2>1, <3>1, <3>2 DEF Announcing, Deciding
  <2>4. ASSUME NEW e \in Deciders, e # d, Announcing(e)'
        PROVE  Announcing(e) /\ decide'[e] = decide[e]
    BY <2>2, <2>4 DEF Announcing
  <2>5. \A e \in Deciders : Announcing(e)' =>
          /\ Announcing(e)
          /\ decide'[e].instance = decide[e].instance /\ decide'[e].action = decide[e].action
    BY <2>3, <2>4
  <2> QED BY <1>2, <2>1, <2>5, OnceFrame
<1>6. ASSUME NEW d \in Deciders,
             \/ \E i \in Instances, action \in Decision : Approve(d, i, action)
             \/ SaveRecord(d)
             \/ LoseDecision(d)
      PROVE  OnceInv'
  <2>1. /\ UNCHANGED <<instance, completed>>
        /\ \A e \in Deciders \ {d} : decide'[e] = decide[e]
    BY <1>6 DEF Approve, SaveRecord, LoseDecision, ApprovalTypeOK
  <2>2. CASE \E i \in Instances, action \in Decision : Approve(d, i, action)
    <3>1. decide'[d].at = "record"
      BY <2>2 DEF Approve, ApprovalTypeOK
    <3> QED BY <1>3, <2>1, <3>1 DEF Announcing
  <2>3. CASE SaveRecord(d)
    <3>1. decide'[d].at = "save"
      BY <2>3 DEF SaveRecord, ApprovalTypeOK, Deciding
    <3> QED BY <1>3, <2>1, <3>1 DEF Announcing
  <2>4. CASE LoseDecision(d)
    <3>1. decide'[d] = NoCall
      BY <2>4 DEF LoseDecision, ApprovalTypeOK
    <3> QED BY <1>3, <2>1, <3>1 DEF Announcing
  <2> QED BY <1>6, <2>2, <2>3, <2>4
<1>7. CASE ApprovalStep
  BY <1>3, <1>6, <1>7, DecisionOnce DEF ApprovalStep, UpsertConfig
<1> QED BY <1>3, <1>4, <1>5, <1>7 DEF ApprovalEffect, approvalVars

-----------------------------------------------------------------------------
(* Claims.                                                                  *)

\* A call in flight, whatever its next step.
LEMMA CallType ==
  ASSUME ClaimTypeOK, NEW p \in Pages, sent[p] # NoCall
  PROVE  /\ sent[p] \in Sent
         /\ sent[p].claim \in Claims /\ sent[p].row \in Claim
         /\ [sent EXCEPT ![p] = NoCall] \in [Pages -> Sent \cup {NoCall}]
         /\ \A at \in {"reinsert", "save"} :
              [sent EXCEPT ![p].at = at] \in [Pages -> Sent \cup {NoCall}]
         /\ [sent EXCEPT ![p].op = "submit", ![p].at = "check"] \in [Pages -> Sent \cup {NoCall}]
<1>1. sent[p] \in Sent
  BY DEF ClaimTypeOK
<1>2. sent[p].claim \in Claims /\ sent[p].row \in Claim
  BY <1>1 DEF Sent
<1>3. \A at \in {"reinsert", "save"} : [sent[p] EXCEPT !.at = at] \in Sent
  BY <1>1 DEF Sent
<1>4. [sent[p] EXCEPT !.op = "submit", !.at = "check"] \in Sent
  BY <1>1 DEF Sent, Ops
<1>5. \A at \in {"reinsert", "save"} : [sent EXCEPT ![p].at = at] \in [Pages -> Sent \cup {NoCall}]
  BY <1>3 DEF ClaimTypeOK
<1>6. [sent EXCEPT ![p].op = "submit", ![p].at = "check"] \in [Pages -> Sent \cup {NoCall}]
  BY <1>4 DEF ClaimTypeOK
<1> QED BY <1>1, <1>2, <1>5, <1>6 DEF ClaimTypeOK

\* What the page shows after an answer.
LEMMA ShownType ==
  ASSUME ClaimTypeOK, NEW p \in Pages, NEW c \in Claims, NEW status \in ClaimStatus
  PROVE  [shown EXCEPT ![p] = [claim |-> c, status |-> status]]
           \in [Pages -> [claim : Claims, status : ClaimStatus] \cup {Nothing}]
BY DEF ClaimTypeOK

\* A row that is saved.
LEMMA ClaimType ==
  ASSUME ClaimTypeOK, NEW c \in Claims, NEW row \in Claim
  PROVE  [claim EXCEPT ![c] = row] \in [Claims -> Claim]
BY DEF ClaimTypeOK

\* The calls of a page keep the types.
LEMMA ClaimCallTypes ==
  ASSUME TypeOK, ClaimInv, NEW p \in Pages, ClaimCall(p)
  PROVE  ClaimTypeOK'
<1> ClaimTypeOK
  BY DEF TypeOK
<1> USE DEF InFlight
<1>1. CASE InsertFirstItems(p)
  <2>1. PICK c \in Claims : c = sent[p].claim
    BY <1>1, CallType DEF InsertFirstItems
  <2>2. claim[c].status \in ClaimStatus
    BY DEF ClaimTypeOK, Claim
  <2>3. PICK status \in ClaimStatus : status = claim[c].status
    BY <2>2
  <2>4. CASE sent[p].submit
    BY <1>1, <2>1, <2>4, CallType DEF InsertFirstItems, ClaimTypeOK
  <2>5. CASE ~ sent[p].submit
    <3>1. Answered(p, c, status)
      BY <1>1, <2>1, <2>3, <2>5 DEF InsertFirstItems
    <3> QED BY <1>1, <2>1, <3>1, CallType, ShownType DEF InsertFirstItems, ClaimTypeOK, Answered
  <2> QED BY <2>4, <2>5
<1>2. CASE DeleteItems(p)
  BY <1>2, CallType DEF DeleteItems, Going, ClaimTypeOK
<1>3. CASE ReinsertItems(p)
  BY <1>3, CallType DEF ReinsertItems, Going, ClaimTypeOK
<1>4. ASSUME NEW row \in Claim, sent[p] # NoCall,
             claim' = [claim EXCEPT ![sent[p].claim] = row],
             Answered(p, sent[p].claim, row.status),
             items' \in [Claims -> BOOLEAN], orders' \in [Claims -> 0 .. 2],
             UNCHANGED <<clicks, heard, filled>>
      PROVE  ClaimTypeOK'
  <2>1. PICK c \in Claims, status \in ClaimStatus : c = sent[p].claim /\ status = row.status
    BY <1>4, CallType DEF Claim
  <2>2. claim' \in [Claims -> Claim]
    BY <1>4, <2>1, ClaimType
  <2>3. Answered(p, c, status)
    BY <1>4, <2>1
  <2>4. shown' \in [Pages -> [claim : Claims, status : ClaimStatus] \cup {Nothing}]
    BY <2>3, ShownType DEF Answered
  <2>5. sent' \in [Pages -> Sent \cup {NoCall}]
    BY <1>4, <2>3, CallType DEF Answered
  <2> QED BY <1>4, <2>2, <2>4, <2>5 DEF ClaimTypeOK
<1>5. CASE SaveUpdate(p)
  <2>1. PICK row \in Claim : row = sent[p].row
    BY <1>5, CallType DEF SaveUpdate
  <2> QED BY <1>4, <1>5, <2>1 DEF SaveUpdate, SaveClaim, ClaimTypeOK
<1>6. CASE RemoveClaim(p)
  <2>1. PICK c \in Claims : c = sent[p].claim
    BY <1>6, CallType DEF RemoveClaim
  <2>2. NoClaim \in Claim /\ NoClaim.status = "absent"
    BY DEF NoClaim, Claim, ClaimStatus
  <2>3. items' \in [Claims -> BOOLEAN] /\ orders' \in [Claims -> 0 .. 2]
    BY <1>6, <2>1 DEF RemoveClaim, ClaimTypeOK
  <2> QED BY <1>4, <1>6, <2>2, <2>3 DEF RemoveClaim, SaveClaim
<1>7. CASE SubmitCreated(p)
  <2>1. sent[p] \in Sent /\ claim[sent[p].claim] \in Claim
    BY <1>7, CallType DEF SubmitCreated, ClaimTypeOK
  <2>2. [sent[p] EXCEPT !.at = "open", !.row = claim[sent[p].claim]] \in Sent
    BY <2>1 DEF Sent
  <2> QED BY <1>7, <2>2 DEF SubmitCreated, ClaimTypeOK
<1>8. CASE SaveSubmitted(p)
  <2>1. PICK row : row = [sent[p].row EXCEPT !.status = "submitted", !.approval = sent[p].instance]
    OBVIOUS
  <2>2. sent[p] \in Sent /\ sent[p].row \in Claim
    BY <1>8, CallType DEF SaveSubmitted
  <2>3. row \in Claim /\ row.status = "submitted"
    BY <2>1, <2>2 DEF Claim, ClaimStatus, Sent
  <2> QED BY <1>4, <1>8, <2>1, <2>3 DEF SaveSubmitted, SaveClaim, ClaimTypeOK
<1>9. CASE SavePaid(p)
  <2>1. PICK row : row = [sent[p].row EXCEPT !.status = "paid"]
    OBVIOUS
  <2>2. row \in Claim /\ row.status = "paid"
    BY <1>9, <2>1, CallType DEF SavePaid, Claim, ClaimStatus
  <2> QED BY <1>4, <1>9, <2>1, <2>2 DEF SavePaid, SaveClaim, ClaimTypeOK
<1>10. CASE SaveCompleted(p)
  <2>1. PICK row : row = [sent[p].row EXCEPT !.status = "completed"]
    OBVIOUS
  <2>2. row \in Claim /\ row.status = "completed"
    BY <1>10, <2>1, CallType DEF SaveCompleted, Claim, ClaimStatus
  <2>3. PICK c \in Claims : c = sent[p].claim
    BY <1>10, CallType DEF SaveCompleted
  <2>4. Saturated(orders[c]) \in 0 .. 2
    BY SaturatedType DEF ClaimTypeOK
  <2>5. orders' \in [Claims -> 0 .. 2] /\ items' \in [Claims -> BOOLEAN]
    BY <1>10, <2>3, <2>4 DEF SaveCompleted, ClaimTypeOK
  <2> QED BY <1>4, <1>10, <2>1, <2>2, <2>5 DEF SaveCompleted, SaveClaim
<1>11. CASE LoseCall(p)
  BY <1>11, CallType DEF LoseCall, ClaimTypeOK
<1>12. ASSUME NEW i \in Instances, OpenInstance(p, i)
       PROVE  ClaimTypeOK'
  <2>1. sent[p] \in Sent
    BY <1>12, CallType DEF OpenInstance
  <2>2. [sent[p] EXCEPT !.at = "save", !.instance = i] \in Sent
    BY <2>1 DEF Sent
  <2> QED BY <1>12, <2>2 DEF OpenInstance, ClaimTypeOK
<1> QED BY <1>1, <1>2, <1>3, <1>5, <1>6, <1>7, <1>8, <1>9, <1>10, <1>11, <1>12 DEF ClaimCall

\* The clicks keep the types.
LEMMA ClaimClickTypes ==
  ASSUME TypeOK, NEW p \in Pages, NEW c \in Claims, ClaimClick(p, c)
  PROVE  ClaimTypeOK'
<1> ClaimTypeOK
  BY DEF TypeOK
<1>1. ASSUME NEW op \in Ops, NEW at \in {"items", "check", "open", "save"}, NEW head \in BOOLEAN,
             Begin(p, op, c, at, head)
      PROVE  ClaimTypeOK'
  <2>1. PICK call : call = [op |-> op, at |-> at, claim |-> c, row |-> claim[c], instance |-> Nothing,
                            submit |-> FALSE, head |-> head]
    OBVIOUS
  <2>2. call \in Sent
    BY <2>1 DEF Sent, ClaimTypeOK
  <2> QED BY <1>1, <2>1, <2>2, ClaimAssumption DEF Begin, ClaimTypeOK
<1>2. ASSUME NEW submit \in BOOLEAN, CreateClaim(p, c, submit)
      PROVE  ClaimTypeOK'
  <2>1. PICK row : row = [NoClaim EXCEPT !.status = "draft"]
    OBVIOUS
  <2>2. row \in Claim
    BY <2>1 DEF NoClaim, Claim, ClaimStatus
  <2>3. PICK call : call = [op |-> "create", at |-> "items", claim |-> c, row |-> row,
                            instance |-> Nothing, submit |-> submit, head |-> FALSE]
    OBVIOUS
  <2>4. call \in Sent
    BY <2>2, <2>3 DEF Sent, Ops
  <2> QED BY <1>2, <2>1, <2>2, <2>3, <2>4, ClaimType, ClaimAssumption DEF CreateClaim, ClaimTypeOK
<1>3. CASE \E head \in BOOLEAN : SubmitClaim(p, c, head)
  BY <1>1, <1>3 DEF SubmitClaim, Ops
<1>4. CASE UpdateClaim(p, c) \/ DeleteClaim(p, c) \/ PayClaim(p, c) \/ CompleteClaim(p, c)
  BY <1>1, <1>4 DEF UpdateClaim, DeleteClaim, PayClaim, CompleteClaim, Ops
<1>5. CASE LoadClaim(p, c)
  <2>1. PICK status \in ClaimStatus : status = claim[c].status
    BY DEF ClaimTypeOK, Claim
  <2> QED BY <1>5, <2>1, ShownType DEF LoadClaim, ClaimTypeOK
<1> QED BY <1>2, <1>3, <1>4, <1>5 DEF ClaimClick

\* What a call in flight relies on is kept.
LEMMA CallEarnedKept ==
  ASSUME ApprovalInv, Kept, NEW call \in Sent, CallEarned(call)
  PROVE  CallEarned(call)'
<1>1. PICK c \in Business : c = call.claim
  BY ClaimAssumption DEF Sent
<1>2. call.row.status \in Passed => Earned(c)'
  BY <1>1, EarnedKept DEF CallEarned
<1>3. ASSUME call.op = "submit", call.at = "save"
      PROVE  call.instance \in Instances /\ instance'[call.instance].about = c
  <2>1. PICK i \in Instances : i = call.instance
    BY <1>3 DEF CallEarned
  <2>2. instance[i].about = c
    BY <1>1, <1>3, <2>1 DEF CallEarned
  <2>3. instance[i].status # "unused"
    BY <2>2, ApprovalAssumption DEF ApprovalInv, NoInstance
  <2> QED BY <2>1, <2>2, <2>3 DEF Kept
<1> QED BY <1>1, <1>2, <1>3 DEF CallEarned

\* ClaimInv is kept when every change to calls, claims and listeners is accounted for.
LEMMA ClaimFrame ==
  ASSUME ClaimTypeOK, ApprovalInv, ClaimInv, Kept,
         \A p \in Pages : sent'[p] \in {sent[p], NoCall} \/ CallEarned(sent[p])',
         \A c \in Claims : claim'[c].status \in Passed => claim[c].status \in Passed \/ Earned(c)',
         \A d \in Deciders, c \in Claims : Listening(d, c)' =>
           heard'[d] \in Claim \/ (Listening(d, c) /\ heard'[d] = heard[d]),
         \A c \in Claims : filled'[c] <= orders'[c]
  PROVE  ClaimInv'
<1>1. ASSUME NEW c \in Claims, claim'[c].status \in Passed
      PROVE  Earned(c)'
  <2>1. c \in Business
    BY ClaimAssumption
  <2> QED BY <1>1, <2>1, EarnedKept DEF ClaimInv
<1>2. ASSUME NEW p \in Pages, sent'[p] # NoCall
      PROVE  CallEarned(sent[p])'
  <2>1. CASE sent'[p] = sent[p]
    <3>1. PICK call \in Sent : call = sent[p]
      BY <1>2, <2>1 DEF ClaimTypeOK
    <3>2. CallEarned(call)'
      BY <1>2, <2>1, <3>1, CallEarnedKept DEF ClaimInv
    <3> QED BY <2>1, <3>1, <3>2 DEF CallEarned
  <2> QED BY <1>2, <2>1
<1>3. \A d \in Deciders, c \in Claims : Listening(d, c)' => heard'[d] \in Claim
  BY DEF ClaimInv
<1> QED BY <1>1, <1>2, <1>3 DEF ClaimInv

\* The same when only page p's call and claims change, and no listener.
LEMMA PageFrame ==
  ASSUME ClaimTypeOK, ApprovalInv, ClaimInv, Kept, NEW p \in Pages,
         \A q \in Pages \ {p} : sent'[q] = sent[q],
         sent'[p] = NoCall \/ CallEarned(sent[p])',
         \A c \in Claims : claim'[c].status \in Passed => claim[c].status \in Passed \/ Earned(c)',
         UNCHANGED <<decide, heard>>,
         \A c \in Claims : filled'[c] <= orders'[c]
  PROVE  ClaimInv'
<1>1. \A d \in Deciders, c \in Claims : Listening(d, c)' => Listening(d, c) /\ heard'[d] = heard[d]
  BY DEF Listening
<1>2. \A q \in Pages : sent'[q] \in {sent[q], NoCall} \/ CallEarned(sent[q])'
  BY DEF CallEarned
<1> QED BY <1>1, <1>2, ClaimFrame

\* The calls of a page keep ClaimInv.
LEMMA ClaimCallInv ==
  ASSUME TypeOK, ApprovalInv, ClaimInv, Kept, NEW p \in Pages, ClaimCall(p)
  PROVE  ClaimInv'
<1>0. ClaimTypeOK /\ (\A c \in Claims : filled[c] <= orders[c])
  BY DEF TypeOK, ClaimInv
<1>a. sent[p] \in Sent /\ CallEarned(sent[p]) /\ sent[p].claim \in Claims
  <2>1. sent[p] # NoCall
    BY DEF ClaimCall, InsertFirstItems, DeleteItems, ReinsertItems, SaveUpdate, RemoveClaim,
           SubmitCreated, SaveSubmitted, SavePaid, SaveCompleted, LoseCall, OpenInstance, InFlight
  <2> QED BY <1>0, <2>1, CallType DEF ClaimInv
<1>b. PICK old \in Sent : old = sent[p] /\ CallEarned(old) /\ CallEarned(old)'
  BY <1>a, CallEarnedKept
<1>c. \A q \in Pages \ {p} : sent'[q] = sent[q]
  BY <1>0 DEF ClaimCall, InsertFirstItems, DeleteItems, ReinsertItems, SaveUpdate, RemoveClaim,
         SubmitCreated, SaveSubmitted, SavePaid, SaveCompleted, LoseCall, OpenInstance, Going, Answered,
         ClaimTypeOK
\* a call that goes on with the row it has read
<1>d. ASSUME sent'[p].row = old.row, sent'[p].claim = old.claim, sent'[p].op \in {old.op, "submit"},
             sent'[p].op = "submit" /\ sent'[p].at # "check" => old.row.status = "draft",
             sent'[p].op = "submit" /\ sent'[p].at = "save" =>
               /\ sent'[p].instance \in Instances
               /\ instance'[sent'[p].instance].about = old.claim
      PROVE  sent'[p] = NoCall \/ CallEarned(sent[p])'
  <2>1. PICK new : new = sent'[p]
    OBVIOUS
  <2>2. /\ new.row.status \in Passed => Earned(new.claim)'
        /\ new.op \in {"update", "delete"} => new.row.status = "draft"
        /\ new.op = "pay" => new.row.status = "leader_approved"
        /\ new.op = "complete" => new.row.status = "paid"
    BY <1>b, <1>d, <2>1 DEF CallEarned
  <2> QED BY <1>d, <2>1, <2>2 DEF CallEarned
\* a call that saves its row and ends
<1>e. ASSUME NEW row, claim' = [claim EXCEPT ![old.claim] = row],
             row.status \in Passed => old.row.status \in Passed
      PROVE  \A c \in Claims : claim'[c].status \in Passed => claim[c].status \in Passed \/ Earned(c)'
  <2>1. PICK c \in Claims : c = old.claim
    BY <1>a, <1>b
  <2>2. row.status \in Passed => Earned(c)'
    BY <1>b, <1>e, <2>1 DEF CallEarned
  <2> QED BY <1>0, <1>e, <2>1, <2>2 DEF ClaimTypeOK
<1>1. CASE InsertFirstItems(p) \/ DeleteItems(p) \/ ReinsertItems(p)
  <2>1. UNCHANGED <<claim, decide, heard, orders, filled>>
    BY <1>1 DEF InsertFirstItems, DeleteItems, ReinsertItems, approvalVars
  <2>2. sent'[p] = NoCall \/ CallEarned(sent[p])'
    <3>1. CASE sent'[p] = NoCall
      BY <3>1
    <3>2. CASE sent'[p] # NoCall
      <4>1. \/ sent'[p] = [old EXCEPT !.op = "submit", !.at = "check"]
            \/ old.op = "update" /\ sent'[p] = [old EXCEPT !.at = "reinsert"]
            \/ old.op = "update" /\ sent'[p] = [old EXCEPT !.at = "save"]
        BY <1>0, <1>1, <1>b, <3>2
           DEF InsertFirstItems, DeleteItems, ReinsertItems, InFlight, Going, Answered, ClaimTypeOK
      <4>2. /\ sent'[p].row = old.row /\ sent'[p].claim = old.claim /\ sent'[p].op \in {old.op, "submit"}
            /\ sent'[p].op = "submit" => sent'[p].at = "check"
        BY <4>1 DEF Sent
      <4> QED BY <4>2, <1>d
    <3> QED BY <3>1, <3>2
  <2> QED BY <1>0, <1>c, <2>1, <2>2, PageFrame
<1>2. ASSUME NEW row, claim' = [claim EXCEPT ![old.claim] = row],
             row.status \in Passed => old.row.status \in Passed,
             sent'[p] = NoCall, UNCHANGED <<decide, heard>>,
             \A c \in Claims : filled'[c] <= orders'[c]
      PROVE  ClaimInv'
  BY <1>0, <1>2, <1>c, <1>e, PageFrame
<1>3. CASE SaveUpdate(p)
  <2>1. sent'[p] = NoCall
    BY <1>0, <1>3 DEF SaveUpdate, Answered, ClaimTypeOK
  <2> QED BY <1>0, <1>2, <1>3, <1>b, <2>1 DEF SaveUpdate, SaveClaim, approvalVars
<1>4. CASE RemoveClaim(p)
  <2>1. sent'[p] = NoCall
    BY <1>0, <1>4 DEF RemoveClaim, Answered, ClaimTypeOK
  <2>2. NoClaim.status \notin Passed
    BY DEF NoClaim, Passed
  <2> QED BY <1>0, <1>2, <1>4, <1>b, <2>1, <2>2 DEF RemoveClaim, SaveClaim, approvalVars
<1>5. CASE SaveSubmitted(p) \/ SavePaid(p)
  <2>1. sent'[p] = NoCall
    BY <1>0, <1>5 DEF SaveSubmitted, SavePaid, Answered, ClaimTypeOK
  <2>2. UNCHANGED <<decide, heard, orders, filled>>
    BY <1>5 DEF SaveSubmitted, SavePaid, approvalVars
  <2>3. PICK row : row = IF SaveSubmitted(p)
                         THEN [old.row EXCEPT !.status = "submitted", !.approval = old.instance]
                         ELSE [old.row EXCEPT !.status = "paid"]
    OBVIOUS
  <2>4. claim' = [claim EXCEPT ![old.claim] = row]
    BY <1>5, <1>b, <2>3 DEF SaveSubmitted, SavePaid, SaveClaim
  <2>5. row.status \in Passed => old.row.status \in Passed
    <3>1. CASE SaveSubmitted(p)
      BY <3>1, <2>3, <1>b DEF Sent, Claim, Passed
    <3>2. CASE SavePaid(p) /\ ~ SaveSubmitted(p)
      BY <3>2, <1>b DEF SavePaid, InFlight, CallEarned, Passed
    <3> QED BY <1>5, <3>1, <3>2
  <2> QED BY <1>0, <1>2, <2>1, <2>2, <2>4, <2>5
<1>6. CASE SaveCompleted(p)
  <2>1. sent'[p] = NoCall
    BY <1>0, <1>6 DEF SaveCompleted, Answered, ClaimTypeOK
  <2>2. PICK row : row = [old.row EXCEPT !.status = "completed"]
    OBVIOUS
  <2>3. claim' = [claim EXCEPT ![old.claim] = row] /\ UNCHANGED <<decide, heard, filled>>
    BY <1>6, <1>b, <2>2 DEF SaveCompleted, SaveClaim, approvalVars
  <2>4. old.row.status \in Passed
    BY <1>6, <1>b DEF SaveCompleted, InFlight, CallEarned, Passed
  <2>5. PICK c \in Claims : c = old.claim
    BY <1>a, <1>b
  <2>6. \A e \in Claims : orders[e] <= orders'[e]
    <3>1. orders[c] <= Saturated(orders[c])
      BY <1>0, SaturatedType DEF ClaimTypeOK
    <3> QED BY <1>0, <1>6, <1>b, <2>5, <3>1 DEF SaveCompleted, ClaimTypeOK
  <2>7. orders' \in [Claims -> 0 .. 2]
    BY <1>6, ClaimCallTypes DEF ClaimTypeOK
  <2>8. \A e \in Claims : filled'[e] <= orders'[e]
    <3> SUFFICES ASSUME NEW e \in Claims
                 PROVE  filled'[e] <= orders'[e]
      OBVIOUS
    <3>1. filled[e] \in 0 .. 2 /\ orders[e] \in 0 .. 2 /\ orders'[e] \in 0 .. 2 /\ filled' = filled
      BY <1>0, <2>3, <2>7 DEF ClaimTypeOK
    <3> QED BY <1>0, <2>6, <3>1
  <2> QED BY <1>2, <2>1, <2>3, <2>4, <2>8
<1>7. CASE SubmitCreated(p)
  <2>1. PICK c \in Claims : c = old.claim
    BY <1>a, <1>b
  <2>2. PICK new : new = [old EXCEPT !.at = "open", !.row = claim[c]]
    OBVIOUS
  <2>3. sent'[p] = new /\ claim[c].status = "draft" /\ old.op = "submit"
    BY <1>0, <1>7, <1>b, <2>1, <2>2 DEF SubmitCreated, InFlight, ClaimTypeOK
  <2>4. new.row = claim[c] /\ new.claim = c /\ new.op = "submit" /\ new.at = "open"
    BY <2>1, <2>2, <2>3 DEF Sent
  <2>5. CallEarned(sent[p])'
    BY <2>3, <2>4 DEF CallEarned, Passed
  <2>6. UNCHANGED <<claim, decide, heard, orders, filled>>
    BY <1>7 DEF SubmitCreated, approvalVars
  <2> QED BY <1>0, <1>c, <2>5, <2>6, PageFrame
<1>8. CASE LoseCall(p)
  <2>1. sent'[p] = NoCall
    BY <1>0, <1>8 DEF LoseCall, ClaimTypeOK
  <2>2. UNCHANGED <<claim, decide, heard, orders, filled>>
    BY <1>8 DEF LoseCall, approvalVars
  <2> QED BY <1>0, <1>c, <2>1, <2>2, PageFrame
<1>9. ASSUME NEW i \in Instances, OpenInstance(p, i)
      PROVE  ClaimInv'
  <2>1. PICK new : new = [old EXCEPT !.at = "save", !.instance = i]
    OBVIOUS
  <2>2. sent'[p] = new /\ old.op = "submit" /\ old.at = "open"
    BY <1>0, <1>9, <1>b, <2>1 DEF OpenInstance, InFlight, ClaimTypeOK
  <2>3. /\ new.row = old.row /\ new.claim = old.claim /\ new.op = "submit" /\ new.at = "save"
        /\ new.instance = i
    BY <2>1, <2>2 DEF Sent
  <2>4. instance'[i].about = old.claim
    BY <1>9, <1>b DEF OpenInstance, CreateInstance, TypeOK, ApprovalTypeOK
  <2>5. old.row.status = "draft"
    BY <1>b, <2>2 DEF CallEarned
  <2>6. sent'[p] = NoCall \/ CallEarned(sent[p])'
    BY <1>d, <2>2, <2>3, <2>4, <2>5
  <2>7. UNCHANGED <<claim, decide, heard, orders, filled>>
    BY <1>9 DEF OpenInstance, CreateInstance
  <2> QED BY <1>0, <1>c, <2>6, <2>7, PageFrame
<1> QED BY <1>1, <1>3, <1>4, <1>5, <1>6, <1>7, <1>8, <1>9 DEF ClaimCall

\* The clicks keep ClaimInv.
LEMMA ClaimClickInv ==
  ASSUME TypeOK, ApprovalInv, ClaimInv, Kept, NEW p \in Pages, NEW c \in Claims, ClaimClick(p, c)
  PROVE  ClaimInv'
<1>0. ClaimTypeOK /\ (\A d \in Claims : filled[d] <= orders[d])
  BY DEF TypeOK, ClaimInv
<1>1. UNCHANGED <<decide, heard, orders, filled>>
  <2>1. UNCHANGED decide
    BY ClaimClickEffect DEF approvalVars
  <2>2. UNCHANGED <<heard, orders, filled>>
    BY DEF ClaimClick, CreateClaim, SubmitClaim, UpdateClaim, DeleteClaim, PayClaim, CompleteClaim,
           LoadClaim, Begin
  <2> QED BY <2>1, <2>2
<1>2. \A q \in Pages \ {p} : sent'[q] = sent[q]
  BY <1>0 DEF ClaimClick, CreateClaim, SubmitClaim, UpdateClaim, DeleteClaim, PayClaim, CompleteClaim,
              LoadClaim, Begin, ClaimTypeOK
<1>3. ASSUME NEW op \in Ops \ {"create"}, NEW at \in {"items", "open", "save"}, NEW head \in BOOLEAN,
             Begin(p, op, c, at, head),
             op = "submit" => at = "open",
             op \in {"update", "delete", "submit"} => claim[c].status = "draft",
             op = "pay" => claim[c].status = "leader_approved",
             op = "complete" => claim[c].status = "paid"
      PROVE  ClaimInv'
  <2>1. PICK call : call = [op |-> op, at |-> at, claim |-> c, row |-> claim[c], instance |-> Nothing,
                            submit |-> FALSE, head |-> head]
    OBVIOUS
  <2>2. sent'[p] = call /\ UNCHANGED claim
    BY <1>0, <1>3, <2>1 DEF Begin, ClaimTypeOK
  <2>3. claim[c].status \in Passed => Earned(c)'
    BY ClaimAssumption, EarnedKept DEF ClaimInv
  <2>4. CallEarned(sent[p])'
    BY <1>3, <2>1, <2>2, <2>3 DEF CallEarned
  <2> QED BY <1>0, <1>1, <1>2, <2>2, <2>4, PageFrame
<1>4. ASSUME NEW submit \in BOOLEAN, CreateClaim(p, c, submit)
      PROVE  ClaimInv'
  <2>1. PICK row : row = [NoClaim EXCEPT !.status = "draft"]
    OBVIOUS
  <2>2. row.status = "draft"
    BY <2>1 DEF NoClaim
  <2>3. PICK call : call = [op |-> "create", at |-> "items", claim |-> c, row |-> row,
                            instance |-> Nothing, submit |-> submit, head |-> FALSE]
    OBVIOUS
  <2>4. sent'[p] = call /\ claim' = [claim EXCEPT ![c] = row]
    BY <1>0, <1>4, <2>1, <2>3 DEF CreateClaim, ClaimTypeOK
  <2>5. CallEarned(sent[p])'
    BY <2>2, <2>3, <2>4 DEF CallEarned, Passed
  <2>6. \A d \in Claims : claim'[d].status \in Passed => claim[d].status \in Passed
    BY <1>0, <2>2, <2>4 DEF ClaimTypeOK, Passed
  <2> QED BY <1>0, <1>1, <1>2, <2>5, <2>6, PageFrame
<1>5. CASE \E head \in BOOLEAN : SubmitClaim(p, c, head)
  BY <1>3, <1>5 DEF SubmitClaim, Ops
<1>6. CASE UpdateClaim(p, c) \/ DeleteClaim(p, c)
  BY <1>3, <1>6 DEF UpdateClaim, DeleteClaim, Ops
<1>7. CASE PayClaim(p, c) \/ CompleteClaim(p, c)
  BY <1>3, <1>7 DEF PayClaim, CompleteClaim, Payable, Ops
<1>8. CASE LoadClaim(p, c)
  <2>1. UNCHANGED <<sent, claim>>
    BY <1>8 DEF LoadClaim
  <2> QED BY <1>0, <1>1, <2>1, ClaimFrame DEF Listening
<1> QED BY <1>4, <1>5, <1>6, <1>7, <1>8 DEF ClaimClick

\* A call that has announced an approval went through all signatures.
LEMMA AnnouncedEarned ==
  ASSUME ApprovalTypeOK, ApprovalInv, NEW d \in Deciders, Announcing(d),
         decide[d].action = "approved"
  PROVE  Earned(decide[d].row.about)
<1>1. PICK call \in Deciding : call = decide[d] /\ CallSigned(call)
  BY DEF ApprovalTypeOK, ApprovalInv, Announcing
<1>2. PICK i \in Instances, n \in Steps : i = call.instance /\ n = call.row.step
  BY DEF Deciding, Instance
<1>6. PICK m : m = n + 1
  OBVIOUS
<1>3. SignedBefore(i, m)
  BY <1>1, <1>2, <1>6, SignedNext DEF Announcing
<1>4. m \notin instance[i].named /\ instance[i].about = call.row.about
  BY <1>1, <1>2, <1>6 DEF CallSigned, Announcing, Advances
<1>5. FullySigned(i)
  BY <1>2, <1>3, <1>4, <1>6 DEF FullySigned
<1> QED BY <1>1, <1>4, <1>5 DEF Earned

\* What the listener of a claim does.
LEMMA ClaimListener ==
  ASSUME TypeOK, ApprovalInv, ClaimInv, Kept, NEW d \in Deciders, NEW c \in Claims,
         HearClaim(d, c) \/ FollowDecision(d, c)
  PROVE  ClaimTypeOK' /\ ClaimInv'
<1>0. /\ ClaimTypeOK /\ ApprovalTypeOK
      /\ \A e \in Claims : filled[e] <= orders[e]
      /\ decide[d] \in Deciding /\ decide[d] # NoCall /\ decide[d].row.about = c
      /\ UNCHANGED <<sent, items, clicks, shown, orders, filled>>
  BY DEF TypeOK, ClaimInv, ApprovalTypeOK, HearClaim, FollowDecision, Announces
<1>1. \A e \in Deciders \ {d} : decide'[e] = decide[e] /\ heard'[e] = heard[e]
  BY <1>0 DEF HearClaim, FollowDecision, Listen, Listened, ApprovalTypeOK, ClaimTypeOK
<1>2. ASSUME heard'[d] \in Claim \/ decide'[d] = NoCall,
             \A e \in Claims : claim'[e].status \in Passed => claim[e].status \in Passed \/ Earned(e)'
      PROVE  ClaimInv'
  <2>1. \A e \in Deciders, b \in Claims : Listening(e, b)' =>
          heard'[e] \in Claim \/ (Listening(e, b) /\ heard'[e] = heard[e])
    BY <1>1, <1>2 DEF Listening
  <2>2. \A p \in Pages : sent'[p] \in {sent[p], NoCall}
    BY <1>0
  <2>3. \A e \in Claims : filled'[e] <= orders'[e]
    BY <1>0
  <2> QED BY <1>0, <1>2, <2>1, <2>2, <2>3, ClaimFrame
<1>3. CASE HearClaim(d, c)
  <2>1. claim[c] \in Claim /\ UNCHANGED claim
    BY <1>0, <1>3 DEF HearClaim, ClaimTypeOK
  <2>2. heard'[d] = claim[c] \/ decide'[d] = NoCall
    BY <1>0, <1>3 DEF HearClaim, Listened, ClaimTypeOK, ApprovalTypeOK
  <2>3. heard' \in [Deciders -> Claim \cup {NoCall}]
    BY <1>0, <1>3, <2>1 DEF HearClaim, ClaimTypeOK
  <2>4. ClaimTypeOK'
    BY <1>0, <2>1, <2>3 DEF ClaimTypeOK
  <2> QED BY <1>2, <2>1, <2>2, <2>4
<1>4. CASE FollowDecision(d, c)
  <2>1. heard[d] \in Claim /\ Announcing(d)
    BY <1>4 DEF FollowDecision, Announces, Announcing, ClaimInv, Listening
  <2>2. PICK row : row = [heard[d] EXCEPT !.status = Outcome(decide[d].action)]
    OBVIOUS
  <2>3. row \in Claim /\ row.status = Outcome(decide[d].action)
    BY <2>1, <2>2 DEF Claim, ClaimStatus, Outcome
  <2>4. claim' = [claim EXCEPT ![c] = row] /\ heard' = [heard EXCEPT ![d] = NoCall]
    BY <1>4, <2>2 DEF FollowDecision, SaveClaim
  <2>5. row.status \in Passed => Earned(c)'
    <3>1. row.status \in Passed => decide[d].action = "approved"
      BY <2>3 DEF Outcome, Passed
    <3> QED BY <1>0, <2>1, <3>1, AnnouncedEarned, EarnedKept, ClaimAssumption
  <2>6. ClaimTypeOK'
    BY <1>0, <2>3, <2>4 DEF ClaimTypeOK
  <2>7. decide'[d] = NoCall
    BY <1>0, <1>4 DEF FollowDecision, Listened, ApprovalTypeOK
  <2>8. \A e \in Claims : claim'[e].status \in Passed => claim[e].status \in Passed \/ Earned(e)'
    BY <1>0, <2>4, <2>5 DEF ClaimTypeOK
  <2> QED BY <1>2, <2>6, <2>7, <2>8
<1> QED BY <1>3, <1>4

\* Claims and assets are not the same business.
LEMMA Apart ==
  ASSUME NEW c \in Claims
  PROVE  c \notin Assets
BY ClaimAssumption, AssetAssumption

\* The other listener, and the endpoints and the job of the assets, leave claims alone.
LEMMA AssetSideClaims ==
  ASSUME TypeOK, ApprovalInv, ClaimInv, Kept, AssetSide
  PROVE  ClaimTypeOK' /\ ClaimInv'
<1>0. ClaimTypeOK /\ ApprovalTypeOK /\ (\A c \in Claims : filled[c] <= orders[c])
      /\ UNCHANGED <<claim, items, clicks, sent, shown, heard, orders, filled>>
  BY DEF TypeOK, ClaimInv, AssetSide, claimVars
<1>1. ASSUME NEW e \in Deciders, NEW c \in Claims, Listening(e, c)'
      PROVE  Listening(e, c)
  <2>1. CASE UNCHANGED decide
    BY <1>1, <2>1 DEF Listening
  <2>2. ASSUME NEW d \in Deciders, NEW a \in Assets, HearOperation(d, a) \/ SaveApproved(d, a)
        PROVE  Listening(e, c)
    <3>1. /\ \A f \in Deciders \ {d} : decide'[f] = decide[f]
          /\ decide[d].row.about = a /\ decide[d] \in Deciding
          /\ decide'[d] \in {NoCall, [decide[d] EXCEPT !.at = "listening"]}
      BY <1>0, <2>2 DEF HearOperation, SaveApproved, Announces, Listen, Listened, ApprovalTypeOK
    <3>2. CASE e = d
      <4>1. decide'[d].row.about = a
        BY <1>1, <3>1, <3>2 DEF Listening, Deciding
      <4> QED BY <1>1, <3>2, <4>1, Apart DEF Listening
    <3>3. CASE e # d
      BY <1>1, <3>1, <3>3 DEF Listening
    <3> QED BY <3>2, <3>3
  <2>3. CASE \/ CheckExpiry \/ LoseCheck
             \/ \E a \in Assets, virtual \in BOOLEAN, due \in Due : CreateAsset(a, virtual, due)
             \/ \E a \in Assets : Age(a)
    BY <2>1, <2>3 DEF CheckExpiry, StartCheck, SaveExpired, FindExpiring, SaveExpiring, LoseCheck,
           CreateAsset, Age, JobOnly, approvalVars
  <2>4. ASSUME NEW w \in Workers, AssetCall(w)
        PROVE  UNCHANGED decide
    BY <2>4 DEF AssetCall, UpdateAsset, ExecuteOperation, StartWork, OpenOperation, CreateInstance,
           SaveOperation, SaveWork, LoseWork, approvalVars
  <2> QED BY <2>1, <2>2, <2>3, <2>4 DEF AssetSide, AssetStep
<1>2. ClaimInv'
  <2>1. \A p \in Pages : sent'[p] \in {sent[p], NoCall}
    BY <1>0
  <2> QED BY <1>0, <1>1, <2>1, ClaimFrame
<1> QED BY <1>0, <1>2 DEF ClaimTypeOK

\* approve() leaves claims alone.
LEMMA DecisionsClaims ==
  ASSUME TypeOK, ApprovalInv, ClaimInv, Kept, Decisions
  PROVE  ClaimTypeOK' /\ ClaimInv'
<1>0. ClaimTypeOK /\ ApprovalTypeOK /\ (\A c \in Claims : filled[c] <= orders[c])
      /\ UNCHANGED <<claim, items, clicks, sent, shown, orders, filled>>
  BY DEF TypeOK, ClaimInv, Decisions
<1>1. ASSUME NEW e \in Deciders, NEW c \in Claims, Listening(e, c)'
      PROVE  Listening(e, c) /\ heard'[e] = heard[e]
  <2>1. heard'[e] = heard[e]
    BY <1>1 DEF Decisions, Listening
  <2>2. decide'[e] = decide[e] \/ decide'[e].at \in {"record", "save", "emitted"} \/ decide'[e] = NoCall
    BY <1>0 DEF Decisions, ApprovalStep, UpsertConfig, Approve, SaveRecord, SaveDecision, LoseDecision,
           ApprovalTypeOK, Deciding
  <2> QED BY <1>1, <2>1, <2>2 DEF Listening
<1>2. ClaimInv'
  <2>1. \A p \in Pages : sent'[p] \in {sent[p], NoCall}
    BY <1>0
  <2> QED BY <1>0, <1>1, <2>1, ClaimFrame
<1>3. heard' \in [Deciders -> Claim \cup {NoCall}]
  BY <1>0 DEF Decisions, ClaimTypeOK
<1> QED BY <1>0, <1>2, <1>3 DEF ClaimTypeOK

\* Orders are taken up or lost only while there are any.
LEMMA OrdersClaims ==
  ASSUME TypeOK, ApprovalInv, ClaimInv, Kept, NEW c \in Claims,
         LoseOrder(c) \/ \E a \in Assets : TakeOrder(c, a)
  PROVE  ClaimTypeOK' /\ ClaimInv'
<1>0. ClaimTypeOK /\ (\A d \in Claims : filled[d] <= orders[d])
      /\ UNCHANGED <<claim, items, clicks, sent, shown, heard, orders, decide>>
      /\ filled[c] < orders[c] /\ filled' = [filled EXCEPT ![c] = filled[c] + 1]
  BY DEF TypeOK, ClaimInv, LoseOrder, TakeOrder, approvalVars
<1>1. filled' \in [Claims -> 0 .. 2] /\ \A d \in Claims : filled'[d] <= orders'[d]
  <2>1. filled[c] \in 0 .. 2 /\ orders[c] \in 0 .. 2
    BY <1>0 DEF ClaimTypeOK
  <2>2. filled[c] + 1 \in 0 .. 2 /\ filled[c] + 1 <= orders[c]
    BY <1>0, <2>1
  <2> QED BY <1>0, <2>2 DEF ClaimTypeOK
<1>2. \A p \in Pages : sent'[p] \in {sent[p], NoCall}
  BY <1>0
<1>3. ClaimInv'
  BY <1>0, <1>1, <1>2, ClaimFrame DEF Listening
<1> QED BY <1>0, <1>1, <1>3 DEF ClaimTypeOK

\* Every step keeps the types and ClaimInv.
LEMMA ClaimInvKept ==
  ASSUME TypeOK, ApprovalInv, ClaimInv, [Next]_financeVars
  PROVE  ClaimTypeOK' /\ ClaimInv'
<1> ClaimTypeOK /\ ApprovalTypeOK
  BY DEF TypeOK
<1> Kept
  BY StepEffect, StepKeeps
<1>1. CASE UNCHANGED financeVars
  <2>1. UNCHANGED <<claim, items, clicks, sent, shown, heard, orders, filled, decide>>
    BY <1>1 DEF financeVars, claimVars, approvalVars
  <2>2. \A p \in Pages : sent'[p] \in {sent[p], NoCall}
    BY <2>1
  <2>3. ClaimInv'
    BY <2>1, <2>2, ClaimFrame DEF Listening, ClaimInv
  <2> QED BY <2>1, <2>3 DEF ClaimTypeOK
<1>2. CASE ClaimSide
  BY <1>2, ClaimCallTypes, ClaimCallInv, ClaimClickTypes, ClaimClickInv, ClaimListener, OrdersClaims
     DEF ClaimSide, ClaimStep
<1> QED BY <1>1, <1>2, AssetSideClaims, DecisionsClaims DEF Next

\* The instance a call goes by is about what its row says.
LEMMA CallAbout ==
  ASSUME ApprovalTypeOK, ApprovalInv, NEW d \in Deciders, decide[d] # NoCall
  PROVE  /\ decide[d].instance \in Instances
         /\ instance[decide[d].instance].about = decide[d].row.about
         /\ instance[decide[d].instance].status # "unused"
BY DEF ApprovalTypeOK, ApprovalInv, CallSigned, Deciding

\* What was not touched tells the same story.
LEMMA StoryFrame ==
  ASSUME StoryInv, raced => raced', UNCHANGED <<instance, claim, orders>>,
         \A d \in Deciders : Announcing(d)' => Announcing(d) /\ decide'[d].row = decide[d].row
  PROVE  StoryInv'
<1> SUFFICES ASSUME ~ raced', NEW c \in Claims, Single(c)'
             PROVE  Story(c)'
  BY DEF StoryInv
<1>1. ~ raced /\ Single(c) /\ InstancesOf(c)' = InstancesOf(c)
  BY DEF Single, InstancesOf
<1>2. Story(c)
  BY <1>1 DEF StoryInv
<1>3. \A d \in Deciders : Announcing(d)' /\ decide'[d].row.about = c =>
        claim'[c].status \notin Passed \cup {"rejected"}
  BY <1>2 DEF Story
<1> QED BY <1>1, <1>2, <1>3 DEF Story

\* A page saves the claim it has read.
LEMMA StorySave ==
  ASSUME ClaimTypeOK, StoryInv, raced => raced', UNCHANGED <<instance, decide>>,
         NEW c \in Claims, NEW row, claim' = [claim EXCEPT ![c] = row],
         ~ raced' => claim[c].status \in {"absent", "draft", "leader_approved", "paid"},
         row.status \in Passed => claim[c].status \in Passed \/ raced',
         row.status # "rejected",
         row.status = "submitted" => row.approval \in InstancesOf(c),
         \A e \in Claims \ {c} : orders'[e] = orders[e],
         orders'[c] = orders[c] \/ (row.status = "completed" /\ orders'[c] = Saturated(orders[c]))
  PROVE  StoryInv'
<1> SUFFICES ASSUME ~ raced', NEW e \in Claims, Single(e)'
             PROVE  Story(e)'
  BY DEF StoryInv
<1>1. ~ raced /\ Single(e) /\ InstancesOf(e)' = InstancesOf(e)
  BY DEF Single, InstancesOf
<1>2. Story(e)
  BY <1>1 DEF StoryInv
<1>3. \A d \in Deciders : Announcing(d)' <=> Announcing(d)
  BY DEF Announcing
<1>4. CASE e # c
  <2>1. claim'[e] = claim[e] /\ orders'[e] = orders[e]
    BY <1>4 DEF ClaimTypeOK
  <2> QED BY <1>1, <1>2, <1>3, <2>1 DEF Story
<1>5. CASE e = c
  <2>1. claim'[c] = row
    BY DEF ClaimTypeOK
  <2>2. claim[c].status # "completed"
    OBVIOUS
  <2>3. orders[c] = 0
    BY <1>2, <1>5, <2>2 DEF Story
  <2>4. orders'[c] # 0 => claim'[c].status = "completed" /\ orders'[c] = 1
    BY <2>1, <2>3 DEF Saturated
  <2>5. row.status \in Passed => claim[c].status \in Passed
    OBVIOUS
  <2>6. row.status \in Passed => \A i \in InstancesOf(c) : instance'[i].status = "approved"
    BY <1>2, <1>5, <2>5 DEF Story
  <2>7. \A d \in Deciders : Announcing(d)' /\ decide'[d].row.about = c =>
          row.status \notin Passed \cup {"rejected"}
    BY <1>2, <1>3, <1>5, <2>5 DEF Story
  <2> QED BY <1>1, <1>5, <2>1, <2>4, <2>6, <2>7 DEF Story
<1> QED BY <1>4, <1>5

\* A listener follows the decision of the only instance.
LEMMA StoryFollow ==
  ASSUME TypeOK, ApprovalInv, OnceInv, ClaimInv, StoryInv, raced => raced',
         NEW d \in Deciders, NEW c \in Claims, FollowDecision(d, c)
  PROVE  StoryInv'
<1> SUFFICES ASSUME ~ raced', NEW e \in Claims, Single(e)'
             PROVE  Story(e)'
  BY DEF StoryInv
<1>0. ClaimTypeOK /\ ApprovalTypeOK /\ UNCHANGED <<instance, orders>> /\ ~ raced
  BY DEF TypeOK, FollowDecision
<1>1. Single(e) /\ InstancesOf(e)' = InstancesOf(e)
  BY <1>0 DEF Single, InstancesOf
<1>2. Story(e)
  BY <1>0, <1>1 DEF StoryInv
<1>3. PICK i \in Instances : i = decide[d].instance /\ instance[i].about = c
  BY <1>0, CallAbout DEF FollowDecision, Announces
<1>4. Announcing(d) /\ decide[d].row.about = c /\ heard[d] \in Claim
  BY DEF FollowDecision, Announces, Announcing, ClaimInv, Listening
<1>5. PICK row : row = [heard[d] EXCEPT !.status = Outcome(decide[d].action)]
  OBVIOUS
<1>6. claim' = [claim EXCEPT ![c] = row] /\ row.status = Outcome(decide[d].action)
  BY <1>4, <1>5 DEF FollowDecision, SaveClaim, Claim
<1>7. \A f \in Deciders : (Announcing(f)' => Announcing(f) /\ decide'[f] = decide[f]) /\ ~ Announcing(d)'
  BY <1>0 DEF FollowDecision, Listened, Announcing, ApprovalTypeOK
<1>8. CASE e # c
  <2>1. claim'[e] = claim[e]
    BY <1>0, <1>6, <1>8 DEF ClaimTypeOK
  <2> QED BY <1>0, <1>1, <1>2, <1>7, <2>1 DEF Story
<1>9. CASE e = c
  <2>1. claim'[c] = row /\ i \in InstancesOf(c) /\ \A j \in InstancesOf(c) : j = i
    BY <1>0, <1>1, <1>3, <1>6, <1>9 DEF ClaimTypeOK, Single, InstancesOf
  <2>2. instance[i].status = decide[d].action /\ decide[d].action \in Decision
    BY <1>0, <1>3, <1>4 DEF OnceInv, ApprovalTypeOK, Deciding, Announcing
  <2>3. /\ row.status \in Passed => instance[i].status = "approved"
        /\ row.status = "rejected" => instance[i].status \in {"rejected", "returned"}
        /\ row.status # "submitted"
    BY <1>6, <2>2 DEF Outcome, Passed, Decision
  <2>4. claim[c].status # "completed"
    BY <1>2, <1>4, <1>9 DEF Story, Passed
  <2>5. orders'[c] = 0
    BY <1>0, <1>2, <1>9, <2>4 DEF Story
  <2>6. ASSUME NEW f \in Deciders, Announcing(f)', decide'[f].row.about = c
        PROVE  FALSE
    <3>1. Announcing(f) /\ decide'[f] = decide[f] /\ f # d
      BY <1>7, <2>6
    <3>2. decide[f].instance = i
      <4>1. PICK j \in Instances : j = decide[f].instance /\ instance[j].about = c
        BY <1>0, <2>6, <3>1, CallAbout DEF Announcing
      <4> QED BY <2>1, <4>1 DEF InstancesOf
    <3> QED BY <1>0, <1>3, <1>4, <3>1, <3>2 DEF OnceInv
  <2> QED BY <1>0, <1>1, <1>9, <2>1, <2>3, <2>5, <2>6 DEF Story
<1> QED BY <1>8, <1>9

\* An instance that is opened for a claim is its first, or the claim has more than one.
LEMMA StoryOpen ==
  ASSUME TypeOK, ApprovalInv, ClaimInv, StoryInv, UNCHANGED <<claim, orders>>,
         NEW i \in Instances, NEW b \in Business, Opens(i, b)
  PROVE  StoryInv'
<1> SUFFICES ASSUME ~ raced', NEW c \in Claims, Single(c)'
             PROVE  Story(c)'
  BY DEF StoryInv
<1>0. ClaimTypeOK /\ ApprovalTypeOK
  BY DEF TypeOK
<1>1. PICK row \in Instance : row.about = b /\ instance' = [instance EXCEPT ![i] = row]
  BY <1>0, OpenedInstance
<1>2. instance[i].status = "unused" /\ UNCHANGED <<decide, raced>>
  BY <1>0, OpenedInstance
<1>3. c \in Business /\ instance[i].about = Nothing /\ c # Nothing /\ i \notin InstancesOf(c)
  BY <1>2, ClaimAssumption, ApprovalAssumption DEF ApprovalInv, NoInstance, InstancesOf
<1>4. /\ instance'[i].about = b
      /\ \A j \in Instances : j # i => instance'[j] = instance[j]
  BY <1>0, <1>1 DEF ApprovalTypeOK
<1>5. Single(c)
  BY <1>3, <1>4 DEF Single, InstancesOf
<1>6. Story(c)
  BY <1>2, <1>5 DEF StoryInv
<1>7. \A d \in Deciders : Announcing(d)' <=> Announcing(d)
  BY <1>2 DEF Announcing
<1>8. CASE b # c
  <2>1. InstancesOf(c)' = InstancesOf(c)
    BY <1>3, <1>4, <1>8 DEF InstancesOf
  <2>2. \A j \in InstancesOf(c) : instance'[j] = instance[j]
    BY <1>3, <1>4 DEF InstancesOf
  <2> QED BY <1>2, <1>6, <1>7, <2>1, <2>2 DEF Story
<1>9. CASE b = c
  <2>1. InstancesOf(c) = {}
    BY <1>3, <1>4, <1>9 DEF Single, InstancesOf
  <2>2. claim[c].status \notin Passed
    BY <2>1 DEF ClaimInv, Earned, InstancesOf
  <2>3. claim[c].status # "rejected" /\ claim[c].status # "submitted"
    BY <1>6, <2>1 DEF Story
  <2>4. orders[c] = 0
    BY <1>6, <2>2 DEF Story, Passed
  <2> QED BY <2>2, <2>3, <2>4 DEF Story
<1> QED BY <1>8, <1>9

\* The decision of a claim's only instance finds the claim undecided.
LEMMA StoryDecision ==
  ASSUME TypeOK, ApprovalInv, OnceInv, StoryInv, raced => raced', UNCHANGED <<claim, orders>>,
         NEW d \in Deciders, SaveDecision(d)
  PROVE  StoryInv'
<1> SUFFICES ASSUME ~ raced', NEW c \in Claims, Single(c)'
             PROVE  Story(c)'
  BY DEF StoryInv
<1>0. ClaimTypeOK /\ ApprovalTypeOK /\ decide[d] # NoCall
  BY DEF TypeOK, SaveDecision
<1>1. PICK i \in Instances : i = decide[d].instance /\ instance[i].about = decide[d].row.about
  BY <1>0, CallAbout
<1>2. PICK new \in Instance : new = Decided(decide[d].row, decide[d].action)
  BY <1>0, SavedDecision
<1>3. instance' = [instance EXCEPT ![i] = new] /\ Kept /\ CallSigned(decide[d])
  BY <1>0, <1>1, <1>2, SavedDecision
<1>4. ~ raced /\ instance[i].status = "open"
  BY <1>1, <1>3 DEF SaveDecision, CallSigned
<1>5. \A j \in Instances : j # i => instance'[j] = instance[j]
  BY <1>0, <1>3 DEF ApprovalTypeOK
<1>6. instance'[i].about = instance[i].about
  BY <1>1, <1>3, <1>4 DEF Kept
<1>7. InstancesOf(c)' = InstancesOf(c) /\ Single(c)
  BY <1>5, <1>6 DEF InstancesOf, Single
<1>8. Story(c)
  BY <1>4, <1>7 DEF StoryInv
<1>9. /\ \A e \in Deciders \ {d} : decide'[e] = decide[e]
      /\ Announcing(d)' => decide'[d].row = decide[d].row
  BY <1>0 DEF SaveDecision, Announcing, ApprovalTypeOK, Deciding
<1>10. CASE i \in InstancesOf(c)
  <2>1. claim[c].status \notin Passed \cup {"rejected"}
    BY <1>4, <1>8, <1>10 DEF Story
  <2>2. orders[c] = 0
    BY <1>8, <2>1 DEF Story, Passed
  <2> QED BY <1>7, <1>8, <2>1, <2>2 DEF Story
<1>11. CASE i \notin InstancesOf(c)
  <2>1. \A j \in InstancesOf(c) : instance'[j] = instance[j]
    BY <1>5, <1>11 DEF InstancesOf
  <2>2. decide[d].row.about # c
    BY <1>1, <1>11 DEF InstancesOf
  <2>3. \A e \in Deciders : Announcing(e)' /\ decide'[e].row.about = c =>
          Announcing(e) /\ decide[e].row.about = c
    BY <1>9, <2>2 DEF Announcing
  <2> QED BY <1>7, <1>8, <2>1, <2>3 DEF Story
<1> QED BY <1>10, <1>11

\* The calls of a page keep StoryInv.
LEMMA ClaimCallStory ==
  ASSUME TypeOK, ApprovalInv, ClaimInv, StoryInv, raced => raced', NEW p \in Pages, ClaimCall(p)
  PROVE  StoryInv'
<1>0. ClaimTypeOK /\ ApprovalTypeOK
  BY DEF TypeOK
<1>1. CASE InsertFirstItems(p) \/ DeleteItems(p) \/ ReinsertItems(p) \/ SubmitCreated(p) \/ LoseCall(p)
  <2>1. UNCHANGED <<claim, orders, instance, decide>>
    BY <1>1 DEF InsertFirstItems, DeleteItems, ReinsertItems, SubmitCreated, LoseCall, approvalVars
  <2> QED BY <2>1, StoryFrame DEF Announcing
<1>2. ASSUME NEW i \in Instances, OpenInstance(p, i)
      PROVE  StoryInv'
  <2>1. PICK c \in Claims, head \in BOOLEAN : c = sent[p].claim /\ head = sent[p].head
    BY <1>0, <1>2, CallType DEF OpenInstance, InFlight, Sent
  <2>2. CreateInstance(i, c, head) /\ UNCHANGED <<claim, orders, raced>>
    BY <1>2, <2>1 DEF OpenInstance
  <2>3. c \in Business
    BY ClaimAssumption
  <2>4. Opens(i, c)
    BY <2>2, <2>3 DEF Opens
  <2> QED BY <2>2, <2>3, <2>4, StoryOpen
<1>3. CASE SaveUpdate(p) \/ RemoveClaim(p) \/ SaveSubmitted(p) \/ SavePaid(p) \/ SaveCompleted(p)
  <2>1. PICK c \in Claims, old \in Claim : c = sent[p].claim /\ old = sent[p].row
    BY <1>0, <1>3, CallType
       DEF SaveUpdate, RemoveClaim, SaveSubmitted, SavePaid, SaveCompleted, InFlight
  <2>2. UNCHANGED <<instance, decide>> /\ CallEarned(sent[p])
    BY <1>3 DEF SaveUpdate, RemoveClaim, SaveSubmitted, SavePaid, SaveCompleted, InFlight, approvalVars,
                ClaimInv
  <2>3. ~ raced' => claim[c] = old
    BY <1>3, <2>1 DEF SaveUpdate, RemoveClaim, SaveSubmitted, SavePaid, SaveCompleted, SaveClaim
  <2>4. CASE SaveUpdate(p)
    <3>1. old.status = "draft" /\ claim' = [claim EXCEPT ![c] = old] /\ UNCHANGED orders
      BY <2>1, <2>2, <2>4 DEF SaveUpdate, InFlight, SaveClaim, CallEarned
    <3> QED BY <1>0, <2>2, <2>3, <3>1, StorySave DEF Passed
  <2>5. CASE RemoveClaim(p)
    <3>1. old.status = "draft" /\ claim' = [claim EXCEPT ![c] = NoClaim] /\ UNCHANGED orders
      BY <2>1, <2>2, <2>5 DEF RemoveClaim, InFlight, SaveClaim, CallEarned
    <3>2. NoClaim.status = "absent"
      BY DEF NoClaim
    <3> QED BY <1>0, <2>2, <2>3, <3>1, <3>2, StorySave DEF Passed
  <2>6. CASE SaveSubmitted(p)
    <3>1. PICK row : row = [old EXCEPT !.status = "submitted", !.approval = sent[p].instance]
      OBVIOUS
    <3>2. old.status = "draft" /\ claim' = [claim EXCEPT ![c] = row] /\ UNCHANGED orders
      BY <2>1, <2>2, <2>6, <3>1 DEF SaveSubmitted, InFlight, SaveClaim, CallEarned
    <3>3. row.status = "submitted" /\ row.approval = sent[p].instance
      BY <3>1 DEF Claim
    <3>4. sent[p].instance \in InstancesOf(c)
      BY <2>1, <2>2, <2>6 DEF SaveSubmitted, InFlight, CallEarned, InstancesOf
    <3> QED BY <1>0, <2>2, <2>3, <3>2, <3>3, <3>4, StorySave DEF Passed
  <2>7. CASE SavePaid(p)
    <3>1. PICK row : row = [old EXCEPT !.status = "paid"]
      OBVIOUS
    <3>2. /\ old.status = "leader_approved" /\ claim' = [claim EXCEPT ![c] = row]
          /\ UNCHANGED orders /\ row.status = "paid"
      BY <2>1, <2>2, <2>7, <3>1 DEF SavePaid, InFlight, SaveClaim, CallEarned, Claim
    <3> QED BY <1>0, <2>2, <2>3, <3>2, StorySave DEF Passed
  <2>8. CASE SaveCompleted(p)
    <3>1. PICK row : row = [old EXCEPT !.status = "completed"]
      OBVIOUS
    <3>2. /\ old.status = "paid" /\ claim' = [claim EXCEPT ![c] = row] /\ row.status = "completed"
      BY <2>1, <2>2, <2>8, <3>1 DEF SaveCompleted, InFlight, SaveClaim, CallEarned, Claim
    <3>3. /\ \A e \in Claims \ {c} : orders'[e] = orders[e]
          /\ orders'[c] \in {orders[c], Saturated(orders[c])}
      BY <1>0, <2>1, <2>8 DEF SaveCompleted, ClaimTypeOK
    <3>4. ~ raced' => claim[c].status \in Passed /\ claim[c].status = "paid"
      BY <2>3, <3>2 DEF Passed
    <3> QED BY <1>0, <2>2, <3>2, <3>3, <3>4, StorySave
  <2> QED BY <1>3, <2>4, <2>5, <2>6, <2>7, <2>8
<1> QED BY <1>1, <1>2, <1>3 DEF ClaimCall

\* The clicks keep StoryInv.
LEMMA ClaimClickStory ==
  ASSUME TypeOK, StoryInv, raced => raced', NEW p \in Pages, NEW c \in Claims, ClaimClick(p, c)
  PROVE  StoryInv'
<1>0. ClaimTypeOK /\ UNCHANGED <<instance, decide>>
  BY ClaimClickEffect DEF TypeOK, approvalVars
<1>1. CASE UNCHANGED <<claim, orders>>
  BY <1>0, <1>1, StoryFrame DEF Announcing
<1>2. CASE \E submit \in BOOLEAN : CreateClaim(p, c, submit)
  <2>1. PICK row : row = [NoClaim EXCEPT !.status = "draft"]
    OBVIOUS
  <2>2. row.status = "draft"
    BY <2>1 DEF NoClaim
  <2>3. claim[c].status = "absent" /\ claim' = [claim EXCEPT ![c] = row] /\ UNCHANGED orders
    BY <1>2, <2>1 DEF CreateClaim
  <2> QED BY <1>0, <2>2, <2>3, StorySave DEF Passed
<1> QED BY <1>1, <1>2 DEF ClaimClick, SubmitClaim, UpdateClaim, DeleteClaim, PayClaim, CompleteClaim,
                         LoadClaim, Begin

\* A listener that hears, or is about an asset, leaves the story as it is.
LEMMA ListenerStory ==
  ASSUME ApprovalTypeOK, StoryInv, raced => raced', UNCHANGED <<claim, orders>>,
         NEW d \in Deciders, Hears(d) \/ Follows(d)
  PROVE  StoryInv'
<1>1. /\ decide[d] \in Deciding /\ decide[d] # NoCall /\ UNCHANGED instance
      /\ Announcing(d)
      /\ \A e \in Deciders \ {d} : decide'[e] = decide[e]
      /\ decide'[d] \in {NoCall, [decide[d] EXCEPT !.at = "listening"]}
  BY DEF Hears, Follows, Listen, Listened, ApprovalTypeOK, Announcing
<1>2. [decide[d] EXCEPT !.at = "listening"].row = decide[d].row
  BY <1>1 DEF Deciding
<1>3. \A e \in Deciders : Announcing(e)' => Announcing(e) /\ decide'[e].row = decide[e].row
  BY <1>1, <1>2 DEF Announcing
<1> QED BY <1>1, <1>3, StoryFrame

\* The asset side opens instances for assets, and leaves the story as it is.
LEMMA AssetSideStory ==
  ASSUME TypeOK, ApprovalInv, ClaimInv, StoryInv, raced => raced', AssetSide
  PROVE  StoryInv'
<1>0. ApprovalTypeOK /\ UNCHANGED <<claim, orders>>
  BY DEF TypeOK, AssetSide, claimVars
<1>1. CASE UNCHANGED approvalVars
  BY <1>0, <1>1, StoryFrame DEF approvalVars, Announcing
<1>2. ASSUME NEW w \in Workers, NEW i \in Instances, NEW head \in BOOLEAN, OpenOperation(w, i, head)
      PROVE  StoryInv'
  <2>1. PICK a \in Assets : a = work[w].asset
    BY <1>2 DEF TypeOK, AssetTypeOK, OpenOperation
  <2>2. a \in Business
    BY <2>1, AssetAssumption
  <2>3. Opens(i, a)
    BY <1>2, <2>1, <2>2 DEF OpenOperation, Opens
  <2> QED BY <1>0, <2>2, <2>3, StoryOpen
<1>3. ASSUME NEW d \in Deciders, NEW a \in Assets, HearOperation(d, a) \/ SaveApproved(d, a)
      PROVE  StoryInv'
  BY <1>0, <1>3, ListenerEffect, ListenerStory
<1>4. CASE CheckExpiry \/ LoseCheck
  BY <1>1, <1>4 DEF CheckExpiry, StartCheck, SaveExpired, FindExpiring, SaveExpiring, LoseCheck, JobOnly
<1>5. CASE \/ \E a \in Assets, virtual \in BOOLEAN, due \in Due : CreateAsset(a, virtual, due)
           \/ \E a \in Assets : Age(a)
  BY <1>1, <1>5 DEF CreateAsset, Age, JobOnly
<1>6. ASSUME NEW w \in Workers, AssetCall(w)
      PROVE  StoryInv'
  BY <1>1, <1>2, <1>6 DEF AssetCall, UpdateAsset, ExecuteOperation, StartWork, SaveOperation, SaveWork, LoseWork
<1> QED BY <1>3, <1>4, <1>5, <1>6 DEF AssetSide, AssetStep

\* approve() decides instances of claims that were not decided.
LEMMA DecisionsStory ==
  ASSUME TypeOK, ApprovalInv, OnceInv, StoryInv, raced => raced', Decisions
  PROVE  StoryInv'
<1>0. ApprovalTypeOK /\ UNCHANGED <<claim, orders>>
  BY DEF TypeOK, Decisions
<1>1. ASSUME NEW d \in Deciders, SaveDecision(d)
      PROVE  StoryInv'
  BY <1>0, <1>1, StoryDecision
<1>2. ASSUME NEW d \in Deciders,
             \/ \E i \in Instances, action \in Decision : Approve(d, i, action)
             \/ SaveRecord(d)
             \/ LoseDecision(d)
      PROVE  StoryInv'
  <2>1. /\ UNCHANGED instance
        /\ \A e \in Deciders \ {d} : decide'[e] = decide[e]
        /\ decide'[d] = NoCall \/ decide'[d].at \in {"record", "save"}
    BY <1>0, <1>2 DEF Approve, SaveRecord, LoseDecision, ApprovalTypeOK, Deciding
  <2>2. \A e \in Deciders : Announcing(e)' => Announcing(e) /\ decide'[e].row = decide[e].row
    BY <2>1 DEF Announcing
  <2> QED BY <1>0, <2>1, <2>2, StoryFrame
<1>3. CASE \E t \in Types, c \in Edits : UpsertConfig(t, c)
  <2>1. UNCHANGED <<instance, decide>>
    BY <1>3 DEF UpsertConfig
  <2> QED BY <1>0, <2>1, StoryFrame DEF Announcing
<1> QED BY <1>1, <1>2, <1>3 DEF Decisions, ApprovalStep

\* Every step keeps StoryInv.
LEMMA StoryInvKept ==
  ASSUME TypeOK, ApprovalInv, OnceInv, ClaimInv, StoryInv, [Next]_financeVars
  PROVE  StoryInv'
<1> ApprovalTypeOK
  BY DEF TypeOK
<1> raced => raced'
  BY StepEffect, RacedGrows DEF RacedOn
<1>1. CASE UNCHANGED <<claim, orders, instance, decide>>
  BY <1>1, StoryFrame DEF Announcing
<1>2. CASE UNCHANGED financeVars
  BY <1>1, <1>2 DEF financeVars, claimVars, approvalVars
<1>3. CASE ClaimSide
  <2>1. ASSUME NEW d \in Deciders, NEW c \in Claims, HearClaim(d, c) \/ FollowDecision(d, c)
        PROVE  StoryInv'
    <3>1. CASE HearClaim(d, c)
      <4>1. UNCHANGED <<claim, orders>>
        BY <3>1 DEF HearClaim
      <4> QED BY <3>1, <4>1, ListenerEffect, ListenerStory
    <3> QED BY <2>1, <3>1, StoryFollow
  <2>2. ASSUME NEW c \in Claims, LoseOrder(c) \/ \E a \in Assets : TakeOrder(c, a)
        PROVE  StoryInv'
    BY <1>1, <2>2 DEF LoseOrder, TakeOrder, approvalVars
  <2> QED BY <1>3, <2>1, <2>2, ClaimCallStory, ClaimClickStory DEF ClaimSide, ClaimStep
<1> QED BY <1>2, <1>3, AssetSideStory, DecisionsStory DEF Next

-----------------------------------------------------------------------------
(* Assets.                                                                  *)

\* Only a disposal makes an asset go.
LEMMA AppliedRow ==
  ASSUME NEW row \in AssetRow, NEW op \in OpTypes
  PROVE  /\ Applied(row, op) \in AssetRow
         /\ Applied(row, op).status \in Gone <=> op = "dispose"
<1>1. PICK status : status = Result(op, row.virtual)
  OBVIOUS
<1>2. status \in Physical \cup Virtual
  BY <1>1 DEF Result, OpTypes, Physical, Virtual
<1>3. status \in Gone <=> op = "dispose"
  BY <1>1 DEF Result, OpTypes, Gone
<1>4. [row EXCEPT !.status = status] \in AssetRow /\ [row EXCEPT !.status = status].status = status
  BY <1>2 DEF AssetRow
<1> QED BY <1>1, <1>3, <1>4 DEF Applied

\* No operation is allowed on an asset that is gone.
LEMMA AllowedAlive ==
  ASSUME NEW status, NEW op, op \in Allowed(status)
  PROVE  status \notin Gone
BY DEF Allowed, Transitions, Gone

WorkCall ==
  [at : {"open", "record", "apply"}, asset : Assets, op : OpTypes, write : Write, forced : BOOLEAN]

\* A call in flight.
LEMMA WorkType ==
  ASSUME AssetTypeOK, NEW w \in Workers, work[w] # NoCall
  PROVE  work[w] \in WorkCall /\ work[w].asset \in Assets /\ work[w].write \in Write
BY DEF AssetTypeOK, WorkCall

\* What a call is about to save stays earned.
LEMMA WorkKept ==
  ASSUME ApprovalInv, Kept, overridden \subseteq overridden',
         NEW call \in WorkCall, WorkEarned(call)
  PROVE  WorkEarned(call)'
<1>1. PICK a \in Business : a = call.asset
  BY AssetAssumption DEF WorkCall
<1>2. Earned(a) => Earned(a)'
  BY EarnedKept
<1> QED BY <1>1, <1>2 DEF WorkEarned

\* AssetInv is kept when every change to assets, calls, listeners and the job is accounted for.
LEMMA AssetFrame ==
  ASSUME AssetTypeOK, ApprovalInv, AssetInv, Kept, overridden \subseteq overridden', raced => raced',
         \A w \in Workers : work'[w] \in {work[w], NoCall} \/ WorkEarned(work[w])',
         \A a \in Assets : asset'[a].status \in Gone =>
           asset[a].status \in Gone \/ a \in overridden' \/ Earned(a)',
         \A d \in Deciders, a \in Assets : Listening(d, a)' =>
           \/ ApplyOK(d)'
           \/ Listening(d, a) /\ applying'[d] = applying[d] /\ decide'[d] = decide[d],
         \/ check' \in {check, NoCall}
         \/ \A a \in Assets : check'.found[a] # Nothing => check'.found[a].status \notin Gone,
         ~ raced' => \A a \in Assets : asset'[a].status \in Gone /\ a \notin overridden' =>
           latest'[a] = "dispose" \/ (asset[a].status \in Gone /\ latest'[a] = latest[a])
  PROVE  AssetInv'
<1>1. ASSUME NEW a \in Assets, asset'[a].status \in Gone
      PROVE  a \in overridden' \/ Earned(a)'
  <2>1. a \in Business
    BY AssetAssumption
  <2> QED BY <1>1, <2>1, EarnedKept DEF AssetInv
<1>2. ASSUME NEW w \in Workers, work'[w] # NoCall
      PROVE  WorkEarned(work[w])'
  <2>1. CASE work'[w] = work[w]
    <3>1. PICK call : call = work[w]
      OBVIOUS
    <3>2. call \in WorkCall /\ WorkEarned(call)
      BY <1>2, <2>1, <3>1, WorkType DEF AssetInv
    <3>3. WorkEarned(call)'
      BY <3>2, WorkKept
    <3> QED BY <2>1, <3>1, <3>3 DEF WorkEarned
  <2> QED BY <1>2, <2>1
<1>3. ASSUME NEW d \in Deciders, NEW a \in Assets, Listening(d, a)'
      PROVE  ApplyOK(d)'
  BY <1>3 DEF AssetInv, ApplyOK
<1>4. check' # NoCall => \A a \in Assets : check'.found[a] # Nothing => check'.found[a].status \notin Gone
  BY DEF AssetInv
<1>5. ~ raced' => \A a \in Assets :
        asset'[a].status \in Gone /\ a \notin overridden' => latest'[a] = "dispose"
  BY DEF AssetInv
<1> QED BY <1>1, <1>2, <1>3, <1>4, <1>5 DEF AssetInv

\* What an asset may not do without a race or a hand that set it.
Final ==
  \A a \in Assets :
    asset[a].status \in Gone /\ asset'[a].status \notin Gone => raced' \/ a \in overridden'

AssetKept == AssetTypeOK' /\ AssetInv' /\ Final

\* The part of the state an asset's rows are in.
RowsOnly == UNCHANGED <<latest, work, applying, check, lost, overridden, decide>>

\* Rows that neither go nor come back.
LEMMA RowsFrame ==
  ASSUME AssetTypeOK, ApprovalInv, AssetInv, Kept, raced => raced', RowsOnly,
         worked' \in 0 .. MaxWork,
         asset' \in [Assets -> AssetRow],
         \A a \in Assets : asset'[a].status \in Gone <=> asset[a].status \in Gone
  PROVE  AssetKept
<1>1. \A w \in Workers : work'[w] \in {work[w], NoCall}
  BY DEF RowsOnly
<1>2. \A d \in Deciders, a \in Assets : Listening(d, a)' =>
        Listening(d, a) /\ applying'[d] = applying[d] /\ decide'[d] = decide[d]
  BY DEF RowsOnly, Listening
<1>3. AssetInv'
  BY <1>1, <1>2, AssetFrame DEF RowsOnly
<1>4. AssetTypeOK'
  BY DEF RowsOnly, AssetTypeOK
<1> QED BY <1>3, <1>4 DEF AssetKept, Final

\* New assets and the passing of time.
LEMMA AssetRows ==
  ASSUME TypeOK, ApprovalInv, AssetInv, Kept, raced => raced',
         \/ \E a \in Assets, virtual \in BOOLEAN, due \in Due : CreateAsset(a, virtual, due)
         \/ \E c \in Claims, a \in Assets : TakeOrder(c, a)
         \/ \E a \in Assets : Age(a)
  PROVE  AssetKept
<1>0. AssetTypeOK
  BY DEF TypeOK
<1>1. ASSUME NEW a \in Assets, NEW virtual \in BOOLEAN, NEW due \in Due,
             asset[a] = NoAsset, asset' = [asset EXCEPT ![a] = NewAsset(virtual, due)],
             RowsOnly, worked' \in 0 .. MaxWork
      PROVE  AssetKept
  <2>1. PICK new : new = NewAsset(virtual, due)
    OBVIOUS
  <2>2. new \in AssetRow /\ new.status \notin Gone /\ NoAsset.status \notin Gone
    BY <2>1 DEF NewAsset, AssetRow, Physical, Virtual, Gone, NoAsset
  <2>3. asset' \in [Assets -> AssetRow]
    BY <1>0, <1>1, <2>1, <2>2 DEF AssetTypeOK
  <2>4. \A b \in Assets : asset'[b].status \in Gone <=> asset[b].status \in Gone
    BY <1>0, <1>1, <2>1, <2>2 DEF AssetTypeOK
  <2> QED BY <1>0, <1>1, <2>3, <2>4, RowsFrame
<1>2. ASSUME NEW a \in Assets, NEW virtual \in BOOLEAN, NEW due \in Due, CreateAsset(a, virtual, due)
      PROVE  AssetKept
  <2>1. RowsOnly /\ worked' \in 0 .. MaxWork
    BY <1>0, <1>2, AssetAssumption DEF CreateAsset, RowsOnly, approvalVars, AssetTypeOK
  <2> QED BY <1>1, <1>2, <2>1 DEF CreateAsset
<1>3. ASSUME NEW c \in Claims, NEW a \in Assets, TakeOrder(c, a)
      PROVE  AssetKept
  <2>1. RowsOnly /\ worked' \in 0 .. MaxWork
    BY <1>0, <1>3 DEF TakeOrder, RowsOnly, approvalVars, AssetTypeOK
  <2> QED BY <1>1, <1>3, <2>1 DEF TakeOrder, Due
<1>4. ASSUME NEW a \in Assets, Age(a)
      PROVE  AssetKept
  <2>1. PICK due \in Due : asset' = [asset EXCEPT ![a].due = due]
    BY <1>0, <1>4 DEF Age, Due, AssetTypeOK
  <2>2. [asset[a] EXCEPT !.due = due] \in AssetRow
        /\ [asset[a] EXCEPT !.due = due].status = asset[a].status
    BY <1>0 DEF AssetTypeOK, AssetRow
  <2>3. asset' \in [Assets -> AssetRow]
        /\ \A b \in Assets : asset'[b].status = asset[b].status
    BY <1>0, <2>1, <2>2 DEF AssetTypeOK
  <2>4. RowsOnly /\ worked' \in 0 .. MaxWork
    BY <1>0, <1>4 DEF Age, JobOnly, RowsOnly, approvalVars, AssetTypeOK
  <2> QED BY <1>0, <2>3, <2>4, RowsFrame
<1> QED BY <1>2, <1>3, <1>4

\* A step of one call that leaves the rows alone.
LEMMA CallFrame ==
  ASSUME AssetTypeOK, ApprovalInv, AssetInv, Kept, raced => raced', NEW w \in Workers, NEW call,
         work' = [work EXCEPT ![w] = call],
         call = NoCall \/ (call \in WorkCall /\ WorkEarned(call)'),
         UNCHANGED <<asset, applying, check, lost, overridden, decide>>,
         worked' \in 0 .. MaxWork,
         latest' \in [Assets -> OpTypes \cup {Nothing}],
         ~ raced' => \A a \in Assets : asset[a].status \in Gone => latest'[a] = latest[a]
  PROVE  AssetKept
<1>1. \A v \in Workers : work'[v] = work[v] \/ work'[v] = call
  BY DEF AssetTypeOK
<1>2. \A v \in Workers : work'[v] \in {work[v], NoCall} \/ WorkEarned(work[v])'
  BY <1>1 DEF WorkEarned
<1>3. \A d \in Deciders, a \in Assets : Listening(d, a)' =>
        Listening(d, a) /\ applying'[d] = applying[d] /\ decide'[d] = decide[d]
  BY DEF Listening
<1>4. AssetInv'
  BY <1>2, <1>3, AssetFrame
<1>5. work' \in [Workers -> WorkCall \cup {NoCall}]
  BY DEF AssetTypeOK, WorkCall
<1>6. AssetTypeOK'
  BY <1>5 DEF AssetTypeOK, WorkCall
<1> QED BY <1>4, <1>6 DEF AssetKept, Final

\* A call begins with the row it has read.
LEMMA WorkBegins ==
  ASSUME TypeOK, ApprovalInv, AssetInv, Kept, raced => raced', NEW w \in Workers, NEW a \in Assets,
         NEW at \in {"open", "record", "apply"}, NEW op \in OpTypes, NEW next \in AssetRow,
         NEW forced \in BOOLEAN, StartWork(w, a, at, op, next, forced),
         at = "open" => NeedsApproval(op),
         at # "apply" => asset[a].status \notin Gone /\ next = Applied(asset[a], op) /\ ~ forced,
         at = "apply" => forced \/ next.status = asset[a].status
  PROVE  AssetKept
<1>0. AssetTypeOK /\ asset[a] \in AssetRow
  BY DEF TypeOK, AssetTypeOK
<1>1. PICK call : call = [at |-> at, asset |-> a, op |-> op, forced |-> forced,
                          write |-> [read |-> asset[a], next |-> next]]
  OBVIOUS
<1>2. call \in WorkCall
  BY <1>0, <1>1 DEF WorkCall, Write
<1>3. Earned(a) => Earned(a)'
  BY AssetAssumption, EarnedKept
<1>4. UNCHANGED <<asset, latest, applying, check, lost, overridden, decide>>
  BY DEF StartWork, approvalVars
<1>5. asset[a].status \in Gone => a \in overridden' \/ Earned(a)'
  BY <1>3, <1>4 DEF AssetInv
<1>6. WorkEarned(call)'
  BY <1>1, <1>5 DEF WorkEarned
<1>7. work' = [work EXCEPT ![w] = call]
  BY <1>1 DEF StartWork
<1>8. worked' \in 0 .. MaxWork /\ latest' \in [Assets -> OpTypes \cup {Nothing}]
  BY <1>0, <1>4, AssetAssumption DEF StartWork, AssetTypeOK
<1> QED BY <1>0, <1>2, <1>4, <1>6, <1>7, <1>8, CallFrame

\* The calls of the asset endpoints.
LEMMA AssetCallKept ==
  ASSUME TypeOK, ApprovalInv, AssetInv, Kept, raced => raced', NEW w \in Workers, AssetCall(w)
  PROVE  AssetKept
<1>0. AssetTypeOK
  BY DEF TypeOK
<1>1. ASSUME NEW a \in Assets, UpdateAsset(w, a)
      PROVE  AssetKept
  <2>1. PICK status \in HandSet \cup {asset[a].status}, due \in Dates \cup {asset[a].due} :
          StartWork(w, a, "apply", "renew", [asset[a] EXCEPT !.status = status, !.due = due],
                    status # asset[a].status)
    BY <1>1 DEF UpdateAsset
  <2>2. PICK next : next = [asset[a] EXCEPT !.status = status, !.due = due]
    OBVIOUS
  <2>3. PICK forced \in BOOLEAN : forced <=> status # asset[a].status
    OBVIOUS
  <2>4. asset[a] \in AssetRow
    BY <1>0 DEF AssetTypeOK
  <2>5. next \in AssetRow /\ next.status = status
    BY <2>2, <2>4, AssetAssumption DEF AssetRow
  <2>6. forced = (status # asset[a].status)
    BY <2>3, Zenon
  <2>7. StartWork(w, a, "apply", "renew", next, forced)
    BY <2>1, <2>2, <2>6
  <2>8. "renew" \in OpTypes
    BY DEF OpTypes
  <2> QED BY <2>3, <2>5, <2>7, <2>8, WorkBegins
<1>2. ASSUME NEW a \in Assets, NEW op \in OpTypes, ExecuteOperation(w, a, op)
      PROVE  AssetKept
  <2>1. PICK at \in {"open", "record"} : at = IF NeedsApproval(op) THEN "open" ELSE "record"
    OBVIOUS
  <2>2. PICK next : next = Applied(asset[a], op)
    OBVIOUS
  <2>3. asset[a] \in AssetRow /\ asset[a].status \notin Gone
    BY <1>0, <1>2, AllowedAlive DEF AssetTypeOK, ExecuteOperation
  <2>4. next \in AssetRow
    BY <2>2, <2>3, AppliedRow
  <2>5. StartWork(w, a, at, op, next, FALSE)
    BY <1>2, <2>1, <2>2 DEF ExecuteOperation
  <2> QED BY <2>1, <2>2, <2>3, <2>4, <2>5, WorkBegins
<1>3. ASSUME NEW i \in Instances, NEW head \in BOOLEAN, OpenOperation(w, i, head)
      PROVE  AssetKept
  <2>1. PICK old, call : old = work[w] /\ call = [work[w] EXCEPT !.at = "record"]
    OBVIOUS
  <2>2. old \in WorkCall /\ WorkEarned(old) /\ old.at = "open"
    BY <1>0, <1>3, <2>1, WorkType DEF OpenOperation, AssetInv
  <2>3. call \in WorkCall /\ call.at = "record" /\ call.write = old.write /\ call.op = old.op
        /\ call.forced = old.forced
    BY <2>1, <2>2 DEF WorkCall
  <2>4. WorkEarned(call)'
    BY <2>2, <2>3 DEF WorkEarned
  <2>5. work' = [work EXCEPT ![w] = call]
        /\ UNCHANGED <<asset, latest, worked, applying, check, lost, overridden, decide>>
    BY <1>3, <2>1 DEF OpenOperation, CreateInstance
  <2>6. latest' \in [Assets -> OpTypes \cup {Nothing}] /\ worked' \in 0 .. MaxWork
    BY <1>0, <2>5 DEF AssetTypeOK
  <2> QED BY <1>0, <2>3, <2>4, <2>5, <2>6, CallFrame
<1>4. CASE SaveOperation(w)
  <2>1. PICK old : old = work[w]
    OBVIOUS
  <2>2. old \in WorkCall /\ WorkEarned(old) /\ old.at = "record"
    BY <1>0, <1>4, <2>1, WorkType DEF SaveOperation, AssetInv
  <2>3. PICK a \in Assets, op \in OpTypes : a = old.asset /\ op = old.op
    BY <2>2 DEF WorkCall
  <2>4. PICK call : call = IF NeedsApproval(op) THEN NoCall ELSE [old EXCEPT !.at = "apply"]
    OBVIOUS
  <2>5. CASE NeedsApproval(op)
    <3>1. call = NoCall
      BY <2>4, <2>5
    <3>2. /\ work' = [work EXCEPT ![w] = call]
          /\ UNCHANGED <<asset, worked, applying, check, lost, overridden, decide>>
          /\ latest' = [latest EXCEPT ![a] = op]
          /\ ~ raced' => asset[a] = old.write.read
      BY <1>4, <2>1, <2>3, <2>4 DEF SaveOperation, approvalVars
    <3>3. ~ raced' => asset[a].status \notin Gone
      BY <2>2, <3>2 DEF WorkEarned
    <3>4. latest' \in [Assets -> OpTypes \cup {Nothing}] /\ worked' \in 0 .. MaxWork
          /\ \A b \in Assets : b # a => latest'[b] = latest[b]
      BY <1>0, <3>2 DEF AssetTypeOK
    <3> QED BY <1>0, <3>1, <3>2, <3>3, <3>4, CallFrame
  <2>6. CASE ~ NeedsApproval(op)
    <3>1. call = [old EXCEPT !.at = "apply"]
      BY <2>4, <2>6
    <3>2. /\ work' = [work EXCEPT ![w] = call]
          /\ UNCHANGED <<asset, worked, applying, check, lost, overridden, decide>>
          /\ latest' = [latest EXCEPT ![a] = op]
          /\ ~ raced' => asset[a] = old.write.read
      BY <1>4, <2>1, <2>3, <2>4 DEF SaveOperation, approvalVars
    <3>3. ~ raced' => asset[a].status \notin Gone
      BY <2>2, <3>2 DEF WorkEarned
    <3>4. latest' \in [Assets -> OpTypes \cup {Nothing}] /\ worked' \in 0 .. MaxWork
          /\ \A b \in Assets : b # a => latest'[b] = latest[b]
      BY <1>0, <3>2 DEF AssetTypeOK
    <3>5. call \in WorkCall /\ call.at = "apply" /\ call.write = old.write
      BY <2>2, <3>1 DEF WorkCall
    <3>6. PICK read \in AssetRow : read = old.write.read
      BY <2>2 DEF WorkCall, Write
    <3>7. old.write.next.status \notin Gone /\ read.status \notin Gone
      <4>1. op # "dispose"
        BY <2>6 DEF NeedsApproval
      <4>2. Applied(read, op).status \notin Gone
        BY <4>1, AppliedRow
      <4> QED BY <4>2, <2>2, <2>3, <3>6 DEF WorkEarned
    <3>8. WorkEarned(call)'
      BY <3>5, <3>6, <3>7 DEF WorkEarned
    <3> QED BY <1>0, <3>2, <3>3, <3>4, <3>5, <3>8, CallFrame
  <2> QED BY <2>5, <2>6
<1>5. CASE LoseWork(w)
  <2>1. /\ work' = [work EXCEPT ![w] = NoCall]
        /\ UNCHANGED <<asset, latest, worked, applying, check, lost, overridden, decide>>
    BY <1>5 DEF LoseWork, approvalVars
  <2>2. latest' \in [Assets -> OpTypes \cup {Nothing}] /\ worked' \in 0 .. MaxWork
    BY <1>0, <2>1 DEF AssetTypeOK
  <2> QED BY <1>0, <2>1, <2>2, CallFrame
<1>6. CASE SaveWork(w)
  <2>1. PICK old : old = work[w]
    OBVIOUS
  <2>2. old \in WorkCall /\ WorkEarned(old) /\ old.at = "apply"
    BY <1>0, <1>6, <2>1, WorkType DEF SaveWork, AssetInv
  <2>3. PICK a \in Assets, next \in AssetRow, read \in AssetRow, forced \in BOOLEAN :
          a = old.asset /\ next = old.write.next /\ read = old.write.read /\ forced = old.forced
    BY <2>2 DEF WorkCall, Write
  <2>4. /\ asset' = [asset EXCEPT ![a] = next]
        /\ ~ raced' => asset[a] = read
        /\ overridden' = IF forced THEN overridden \cup {a} ELSE overridden
        /\ work' = [work EXCEPT ![w] = NoCall]
        /\ UNCHANGED <<latest, worked, applying, check, lost, decide>>
    BY <1>6, <2>1, <2>3 DEF SaveWork, SaveAsset, approvalVars
  <2>5. asset'[a] = next /\ \A b \in Assets : b # a => asset'[b] = asset[b]
    BY <1>0, <2>4 DEF AssetTypeOK
  <2>6. Earned(a) => Earned(a)'
    BY AssetAssumption, EarnedKept
  <2>7. next.status \in Gone => a \in overridden' \/ Earned(a)'
    BY <2>2, <2>3, <2>4, <2>6 DEF WorkEarned
  <2>8. ~ forced => (next.status \in Gone <=> read.status \in Gone)
    BY <2>2, <2>3 DEF WorkEarned
  <2>9. overridden \subseteq overridden' /\ (forced => a \in overridden')
    BY <2>4
  <2>10. ~ raced' /\ a \notin overridden' => (asset'[a].status \in Gone <=> asset[a].status \in Gone)
    BY <2>4, <2>5, <2>8, <2>9
  <2>11. \A v \in Workers : work'[v] \in {work[v], NoCall}
    BY <1>0, <2>4 DEF AssetTypeOK
  <2>12. \A d \in Deciders, b \in Assets : Listening(d, b)' =>
           Listening(d, b) /\ applying'[d] = applying[d] /\ decide'[d] = decide[d]
    BY <2>4 DEF Listening
  <2>13. \A b \in Assets : asset'[b].status \in Gone =>
           asset[b].status \in Gone \/ b \in overridden' \/ Earned(b)'
    BY <2>5, <2>7
  <2>14. ~ raced' => \A b \in Assets : asset'[b].status \in Gone /\ b \notin overridden' =>
           asset[b].status \in Gone /\ latest'[b] = latest[b]
    BY <2>4, <2>5, <2>10
  <2>15. AssetInv'
    BY <1>0, <2>4, <2>9, <2>11, <2>12, <2>13, <2>14, AssetFrame
  <2>16. Final
    BY <2>5, <2>10 DEF Final
  <2>17. AssetTypeOK'
    <3>1. asset' \in [Assets -> AssetRow] /\ overridden' \in SUBSET Assets
          /\ work' \in [Workers -> WorkCall \cup {NoCall}]
      BY <1>0, <2>3, <2>4 DEF AssetTypeOK, WorkCall
    <3> QED BY <1>0, <2>4, <3>1 DEF AssetTypeOK, WorkCall
  <2> QED BY <2>15, <2>16, <2>17 DEF AssetKept
<1> QED BY <1>1, <1>2, <1>3, <1>4, <1>5, <1>6 DEF AssetCall

\* The listener of an asset applies what was approved.
LEMMA AssetListener ==
  ASSUME TypeOK, ApprovalInv, AssetInv, Kept, raced => raced', NEW d \in Deciders, NEW a \in Assets,
         HearOperation(d, a) \/ SaveApproved(d, a)
  PROVE  AssetKept
<1>0. /\ AssetTypeOK /\ ApprovalTypeOK
      /\ decide[d] \in Deciding /\ decide[d] # NoCall /\ decide[d].row.about = a
      /\ UNCHANGED <<latest, worked, work, check, lost, overridden>>
  BY DEF TypeOK, ApprovalTypeOK, HearOperation, SaveApproved, Announces
<1>1. \A e \in Deciders \ {d} : decide'[e] = decide[e] /\ applying'[e] = applying[e]
  BY <1>0 DEF HearOperation, SaveApproved, Listen, Listened, ApprovalTypeOK, AssetTypeOK
<1>2. \A w \in Workers : work'[w] \in {work[w], NoCall}
  BY <1>0
<1>3. CASE HearOperation(d, a)
  <2>1. UNCHANGED asset
    BY <1>3 DEF HearOperation
  <2>2. PICK op : op = latest[a]
    OBVIOUS
  <2>3. PICK next : next = Applied(asset[a], op)
    OBVIOUS
  <2>4. CASE decide[d].action = "approved" /\ op # Nothing
    <3>1. PICK app : app = [op |-> op, write |-> [read |-> asset[a], next |-> next]]
      OBVIOUS
    <3>2. op \in OpTypes /\ asset[a] \in AssetRow
      BY <1>0, <2>2, <2>4 DEF AssetTypeOK
    <3>3. next \in AssetRow
      BY <2>3, <3>2, AppliedRow
    <3>4. app \in Application /\ app.write.next = Applied(app.write.read, app.op)
      BY <2>3, <3>1, <3>2, <3>3 DEF Application, Write
    <3>5. applying' = [applying EXCEPT ![d] = app] /\ decide' = [decide EXCEPT ![d].at = "listening"]
      BY <1>3, <2>2, <2>3, <2>4, <3>1 DEF HearOperation, Listen
    <3>6. applying'[d] = app /\ decide'[d].action = "approved"
      BY <1>0, <2>4, <3>5 DEF AssetTypeOK, ApprovalTypeOK, Deciding
    <3>7. ApplyOK(d)'
      BY <3>4, <3>6 DEF ApplyOK
    <3>8. \A e \in Deciders, b \in Assets : Listening(e, b)' =>
            \/ ApplyOK(e)'
            \/ Listening(e, b) /\ applying'[e] = applying[e] /\ decide'[e] = decide[e]
      BY <1>1, <3>7 DEF Listening
    <3>9. AssetInv'
      BY <1>0, <1>2, <2>1, <3>8, AssetFrame
    <3>10. applying' \in [Deciders -> Application \cup {NoCall}]
      BY <1>0, <3>4, <3>5 DEF AssetTypeOK, Application
    <3>11. AssetTypeOK'
      BY <1>0, <2>1, <3>10 DEF AssetTypeOK, Application
    <3> QED BY <2>1, <3>9, <3>11 DEF AssetKept, Final
  <2>5. CASE ~ (decide[d].action = "approved" /\ op # Nothing)
    <3>1. applying' = applying /\ decide'[d] = NoCall
      BY <1>0, <1>3, <2>2, <2>5 DEF HearOperation, Listened, ApprovalTypeOK
    <3>2. \A e \in Deciders, b \in Assets : Listening(e, b)' =>
            Listening(e, b) /\ applying'[e] = applying[e] /\ decide'[e] = decide[e]
      BY <1>1, <3>1 DEF Listening
    <3>3. AssetInv'
      BY <1>0, <1>2, <2>1, <3>2, AssetFrame
    <3>4. AssetTypeOK'
      BY <1>0, <2>1, <3>1 DEF AssetTypeOK
    <3> QED BY <2>1, <3>3, <3>4 DEF AssetKept, Final
  <2> QED BY <2>4, <2>5
<1>4. CASE SaveApproved(d, a)
  <2>1. ApplyOK(d) /\ Announcing(d) /\ decide[d].action = "approved"
    BY <1>4 DEF SaveApproved, Announces, Announcing, AssetInv, Listening, ApplyOK
  <2>2. PICK op \in OpTypes, read \in AssetRow, next \in AssetRow :
          op = applying[d].op /\ read = applying[d].write.read /\ next = applying[d].write.next
    BY <2>1 DEF ApplyOK, Application, Write
  <2>3. next.status \in Gone <=> op = "dispose"
    <3>1. next = Applied(read, op)
      BY <2>1, <2>2 DEF ApplyOK
    <3> QED BY <3>1, AppliedRow
  <2>4. /\ asset' = [asset EXCEPT ![a] = next]
        /\ ~ raced' => latest[a] = op
        /\ applying' = [applying EXCEPT ![d] = NoCall] /\ decide' = [decide EXCEPT ![d] = NoCall]
    BY <1>4, <2>2 DEF SaveApproved, SaveAsset, Listened
  <2>5. asset'[a] = next /\ \A b \in Assets : b # a => asset'[b] = asset[b]
    BY <1>0, <2>4 DEF AssetTypeOK
  <2>6. Earned(a)'
    BY <1>0, <2>1, AnnouncedEarned, AssetAssumption, EarnedKept
  <2>7. \A e \in Deciders, b \in Assets : Listening(e, b)' =>
          Listening(e, b) /\ applying'[e] = applying[e] /\ decide'[e] = decide[e]
    BY <1>0, <1>1, <2>4 DEF Listening, ApprovalTypeOK
  <2>8. ~ raced' => \A b \in Assets : asset'[b].status \in Gone /\ b \notin overridden' =>
          latest'[b] = "dispose" \/ (asset[b].status \in Gone /\ latest'[b] = latest[b])
    BY <1>0, <2>3, <2>4, <2>5
  <2>9. \A b \in Assets : asset'[b].status \in Gone => asset[b].status \in Gone \/ Earned(b)'
    BY <2>5, <2>6
  <2>10. AssetInv'
    BY <1>0, <1>2, <2>7, <2>8, <2>9, AssetFrame
  <2>11. Final
    <3>1. ASSUME ~ raced', a \notin overridden', asset[a].status \in Gone
          PROVE  asset'[a].status \in Gone
      <4>1. latest[a] = "dispose"
        BY <1>0, <3>1 DEF AssetInv
      <4> QED BY <2>3, <2>4, <2>5, <3>1, <4>1
    <3> QED BY <2>5, <3>1 DEF Final
  <2>12. AssetTypeOK'
    <3>1. asset' \in [Assets -> AssetRow] /\ applying' \in [Deciders -> Application \cup {NoCall}]
      BY <1>0, <2>4 DEF AssetTypeOK, Application
    <3> QED BY <1>0, <3>1 DEF AssetTypeOK, Application
  <2> QED BY <2>10, <2>11, <2>12 DEF AssetKept
<1> QED BY <1>3, <1>4

Check == [at : {"past", "query", "soon"}, found : [Assets -> AssetRow \cup {Nothing}]]

\* Steps of the job that save nothing.
LEMMA JobFrame ==
  ASSUME AssetTypeOK, ApprovalInv, AssetInv, Kept, raced => raced',
         JobOnly, UNCHANGED asset, lost' \in 0 .. MaxLost,
         \/ check' = NoCall
         \/ check' \in Check
              /\ \A a \in Assets : check'.found[a] # Nothing => check'.found[a].status \notin Gone
  PROVE  AssetKept
<1>1. UNCHANGED <<latest, worked, work, applying, overridden, decide>>
  BY DEF JobOnly, approvalVars
<1>2. \A d \in Deciders, b \in Assets : Listening(d, b)' =>
        Listening(d, b) /\ applying'[d] = applying[d] /\ decide'[d] = decide[d]
  BY <1>1 DEF Listening
<1>3. \A w \in Workers : work'[w] \in {work[w], NoCall}
  BY <1>1
<1>4. AssetInv'
  BY <1>1, <1>2, <1>3, AssetFrame
<1>5. AssetTypeOK'
  BY <1>1 DEF AssetTypeOK, Check
<1> QED BY <1>4, <1>5 DEF AssetKept, Final

\* The job saves rows that were not gone when it found them.
LEMMA FoundSaved ==
  ASSUME AssetTypeOK, ApprovalInv, AssetInv, Kept, raced => raced', check # NoCall,
         NEW status \in {"expired", "expiring_soon"}, SaveFound(status),
         JobOnly, UNCHANGED lost, check' = NoCall \/ check' = [check EXCEPT !.at = "query", !.found = NoneFound]
  PROVE  AssetKept
<1>1. UNCHANGED <<latest, worked, work, applying, overridden, decide>>
  BY DEF JobOnly, approvalVars
<1>2. check \in Check /\ \A a \in Assets : check.found[a] # Nothing => check.found[a].status \notin Gone
  BY DEF AssetTypeOK, Check, AssetInv
<1>3. PICK found \in [Assets -> AssetRow \cup {Nothing}] : found = check.found
  BY <1>2 DEF Check
<1>4. \A a \in Assets : found[a] # Nothing =>
        /\ found[a] \in AssetRow /\ [found[a] EXCEPT !.status = status] \in AssetRow
        /\ [found[a] EXCEPT !.status = status].status = status
  BY DEF AssetRow, Virtual
<1>5. status \notin Gone
  BY DEF Gone
<1>6. asset' = [a \in Assets |->
        IF found[a] = Nothing THEN asset[a] ELSE [found[a] EXCEPT !.status = status]]
  BY <1>3 DEF SaveFound
<1>7. asset' \in [Assets -> AssetRow]
  BY <1>4, <1>6 DEF AssetTypeOK
<1>8. \A a \in Assets : asset'[a].status \in Gone => asset'[a] = asset[a]
  BY <1>4, <1>5, <1>6
<1>9. ~ raced' => \A a \in Assets : found[a] \in {Nothing, asset[a]}
  BY <1>3, Zenon DEF SaveFound
<1>10. Final
  <2>1. ASSUME ~ raced', NEW a \in Assets, asset[a].status \in Gone
        PROVE  asset'[a] = asset[a]
    BY <1>2, <1>3, <1>6, <1>9, <2>1
  <2> QED BY <2>1 DEF Final
<1>11. check' = NoCall \/ (check' \in Check /\ \A a \in Assets : check'.found[a] = Nothing)
  <2>0. NoneFound \in [Assets -> AssetRow \cup {Nothing}] /\ \A a \in Assets : NoneFound[a] = Nothing
    BY DEF NoneFound
  <2>1. PICK none \in [Assets -> AssetRow \cup {Nothing}] :
          none = NoneFound /\ \A a \in Assets : none[a] = Nothing
    BY <2>0
  <2>2. PICK next : next = [check EXCEPT !.at = "query", !.found = none]
    OBVIOUS
  <2>3. next \in Check /\ next.found = none
    BY <1>2, <2>2 DEF Check
  <2> QED BY <2>1, <2>2, <2>3
<1>12. \A d \in Deciders, b \in Assets : Listening(d, b)' =>
         Listening(d, b) /\ applying'[d] = applying[d] /\ decide'[d] = decide[d]
  BY <1>1 DEF Listening
<1>13. \A w \in Workers : work'[w] \in {work[w], NoCall}
  BY <1>1
<1>14. AssetInv'
  BY <1>1, <1>8, <1>11, <1>12, <1>13, AssetFrame
<1>15. AssetTypeOK'
  BY <1>1, <1>7, <1>11 DEF AssetTypeOK, Check
<1> QED BY <1>10, <1>14, <1>15 DEF AssetKept

\* The expiry job.
LEMMA JobKept ==
  ASSUME TypeOK, ApprovalInv, AssetInv, Kept, raced => raced', CheckExpiry \/ LoseCheck
  PROVE  AssetKept
<1>0. AssetTypeOK /\ lost \in 0 .. MaxLost
  BY DEF TypeOK, AssetTypeOK
<1>1. ASSUME NEW assets \in SUBSET Assets, \A a \in assets : asset[a].status \notin Gone
      PROVE  /\ Found(assets) \in [Assets -> AssetRow \cup {Nothing}]
             /\ \A a \in Assets : Found(assets)[a] # Nothing => Found(assets)[a].status \notin Gone
  BY <1>0, <1>1 DEF Found, AssetTypeOK
<1>2. CASE StartCheck
  <2>1. PICK past \in SUBSET Assets : past = {a \in Assets : PastDue(asset[a])}
    OBVIOUS
  <2>2. \A a \in past : asset[a].status \notin Gone
    BY <2>1 DEF PastDue
  <2>3. PICK found \in [Assets -> AssetRow \cup {Nothing}] :
          found = Found(past) /\ \A a \in Assets : found[a] # Nothing => found[a].status \notin Gone
    BY <1>1, <2>2
  <2>4. check' = [at |-> IF past = {} THEN "query" ELSE "past", found |-> found]
    BY <1>2, <2>1, <2>3 DEF StartCheck
  <2>5. check' \in Check /\ check'.found = found
    BY <2>4 DEF Check
  <2> QED BY <1>0, <1>2, <2>3, <2>5, JobFrame DEF StartCheck
<1>3. CASE FindExpiring
  <2>1. PICK soon \in SUBSET Assets : soon = {a \in Assets : ExpiringSoon(asset[a])}
    OBVIOUS
  <2>2. \A a \in soon : asset[a].status \notin Gone
    BY <2>1 DEF ExpiringSoon, Gone
  <2>3. PICK found \in [Assets -> AssetRow \cup {Nothing}] :
          found = Found(soon) /\ \A a \in Assets : found[a] # Nothing => found[a].status \notin Gone
    BY <1>1, <2>2
  <2>4. check' = IF soon = {} THEN NoCall ELSE [at |-> "soon", found |-> found]
    BY <1>3, <2>1, <2>3 DEF FindExpiring
  <2>5. check' = NoCall \/ (check' \in Check /\ check'.found = found)
    BY <2>4 DEF Check
  <2> QED BY <1>0, <1>3, <2>3, <2>5, JobFrame DEF FindExpiring
<1>4. CASE SaveExpired
  BY <1>0, <1>4, FoundSaved DEF SaveExpired
<1>5. CASE SaveExpiring
  BY <1>0, <1>5, FoundSaved DEF SaveExpiring
<1>6. CASE LoseCheck
  <2>1. lost' \in 0 .. MaxLost
    BY <1>0, <1>6, AssetAssumption DEF LoseCheck
  <2> QED BY <1>0, <1>6, <2>1, JobFrame DEF LoseCheck
<1> QED BY <1>2, <1>3, <1>4, <1>5, <1>6 DEF CheckExpiry

\* Claims, and approve() itself, leave assets alone.
LEMMA OtherSides ==
  ASSUME TypeOK, ApprovalInv, AssetInv, Kept, raced => raced', [Next]_financeVars,
         UNCHANGED <<asset, latest, worked, work, check, lost, overridden>>,
         applying' \in [Deciders -> Application \cup {NoCall}],
         \A d \in Deciders, a \in Assets : Listening(d, a)' =>
           Listening(d, a) /\ applying'[d] = applying[d] /\ decide'[d] = decide[d]
  PROVE  AssetKept
<1>0. AssetTypeOK
  BY DEF TypeOK
<1>1. \A w \in Workers : work'[w] \in {work[w], NoCall}
  OBVIOUS
<1>2. AssetInv'
  BY <1>0, <1>1, AssetFrame
<1>3. AssetTypeOK'
  BY <1>0 DEF AssetTypeOK, Application
<1> QED BY <1>2, <1>3 DEF AssetKept, Final

\* Every step keeps the types and AssetInv, and does what Final allows.
LEMMA AssetInvKept ==
  ASSUME TypeOK, ApprovalInv, AssetInv, [Next]_financeVars
  PROVE  AssetKept
<1>0. ApprovalTypeOK /\ AssetTypeOK
  BY DEF TypeOK
<1>k. Kept /\ (raced => raced')
  BY <1>0, StepEffect, StepKeeps, RacedGrows DEF RacedOn
<1>1. CASE UNCHANGED <<assetVars, decide>>
  <2>1. UNCHANGED <<asset, latest, worked, work, applying, check, lost, overridden, decide>>
    BY <1>1 DEF assetVars
  <2>2. applying' \in [Deciders -> Application \cup {NoCall}]
    BY <1>0, <2>1 DEF AssetTypeOK, Application
  <2> QED BY <1>k, <2>1, <2>2, OtherSides DEF Listening
<1>2. CASE UNCHANGED financeVars
  BY <1>1, <1>2 DEF financeVars, approvalVars
<1>3. CASE Decisions
  <2>1. UNCHANGED <<asset, latest, worked, work, check, lost, overridden>>
    BY <1>3 DEF Decisions
  <2>2. applying' \in [Deciders -> Application \cup {NoCall}]
    BY <1>0, <1>3 DEF Decisions, AssetTypeOK, Application
  <2>3. ASSUME NEW d \in Deciders, NEW a \in Assets, Listening(d, a)'
        PROVE  Listening(d, a) /\ applying'[d] = applying[d] /\ decide'[d] = decide[d]
    <3>1. applying'[d] = applying[d]
      BY <1>3, <2>3 DEF Decisions, Listening
    <3>2. decide'[d] = decide[d] \/ decide'[d].at \in {"record", "save", "emitted"} \/ decide'[d] = NoCall
      BY <1>0, <1>3 DEF Decisions, ApprovalStep, UpsertConfig, Approve, SaveRecord, SaveDecision,
                        LoseDecision, ApprovalTypeOK, Deciding
    <3> QED BY <2>3, <3>1, <3>2 DEF Listening
  <2> QED BY <1>k, <2>1, <2>2, <2>3, OtherSides
<1>4. CASE ClaimSide
  <2>1. ASSUME NEW c \in Claims, NEW a \in Assets, TakeOrder(c, a)
        PROVE  AssetKept
    BY <1>k, <2>1, AssetRows
  <2>2. ASSUME NEW c \in Claims, LoseOrder(c)
        PROVE  AssetKept
    BY <1>1, <2>2 DEF LoseOrder, approvalVars
  <2>3. ASSUME NEW p \in Pages, ClaimCall(p), UNCHANGED assetVars
        PROVE  AssetKept
    <3>1. UNCHANGED decide
      BY <2>3 DEF ClaimCall, InsertFirstItems, DeleteItems, ReinsertItems, SaveUpdate, RemoveClaim,
         SubmitCreated, SaveSubmitted, SavePaid, SaveCompleted, LoseCall, OpenInstance, CreateInstance,
         approvalVars
    <3> QED BY <1>1, <2>3, <3>1
  <2>4. ASSUME NEW p \in Pages, NEW c \in Claims, ClaimClick(p, c), UNCHANGED assetVars
        PROVE  AssetKept
    BY <1>1, <2>4, ClaimClickEffect DEF approvalVars
  <2>5. ASSUME NEW d \in Deciders, NEW c \in Claims, HearClaim(d, c) \/ FollowDecision(d, c),
               UNCHANGED assetVars
        PROVE  AssetKept
    <3>1. UNCHANGED <<asset, latest, worked, work, applying, check, lost, overridden>>
      BY <2>5 DEF assetVars
    <3>2. applying' \in [Deciders -> Application \cup {NoCall}]
      BY <1>0, <3>1 DEF AssetTypeOK, Application
    <3>3. /\ \A e \in Deciders \ {d} : decide'[e] = decide[e]
          /\ decide[d].row.about = c /\ decide[d] \in Deciding
          /\ decide'[d] \in {NoCall, [decide[d] EXCEPT !.at = "listening"]}
      BY <1>0, <2>5 DEF HearClaim, FollowDecision, Announces, Listen, Listened, ApprovalTypeOK
    <3>4. [decide[d] EXCEPT !.at = "listening"].row.about = c
      BY <3>3 DEF Deciding
    <3>5. ASSUME NEW e \in Deciders, NEW a \in Assets, Listening(e, a)'
          PROVE  Listening(e, a) /\ decide'[e] = decide[e]
      <4>1. e # d
        BY <3>3, <3>4, <3>5, Apart DEF Listening
      <4> QED BY <3>3, <3>5, <4>1 DEF Listening
    <3> QED BY <1>k, <3>1, <3>2, <3>5, OtherSides
  <2> QED BY <1>4, <2>1, <2>2, <2>3, <2>4, <2>5 DEF ClaimSide, ClaimStep
<1>5. CASE AssetSide
  BY <1>k, <1>5, AssetRows, AssetCallKept, AssetListener, JobKept DEF AssetSide, AssetStep
<1> QED BY <1>2, <1>3, <1>4, <1>5 DEF Next

-----------------------------------------------------------------------------
(* The whole.                                                               *)

\* The initial states satisfy the invariant.
LEMMA FinanceStarts == Init => FinanceInv
<1> SUFFICES ASSUME Init
             PROVE  FinanceInv
  OBVIOUS
<1> USE DEF Init, ApprovalInit, ClaimInit, AssetInit
<1>1. NoInstance \in Instance /\ NoInstance.status = "unused" /\ NoInstance.step = 1
      /\ NoInstance.about = Nothing
  BY DEF NoInstance, Instance, Steps
<1>2. ApprovalTypeOK
  <2>1. [active : {TRUE}, named : SUBSET {2, 3}] \subseteq Config
    BY DEF Config
  <2>2. config \in [Types -> Config]
    BY <2>1
  <2>3. configs \in 0 .. MaxConfigs /\ decisions \in 0 .. MaxDecisions
    BY ApprovalAssumption
  <2>4. instance \in [Instances -> Instance]
    BY <1>1
  <2>5. records \in SUBSET Record /\ raced \in BOOLEAN
    OBVIOUS
  <2>6. decide \in [Deciders -> Deciding \cup {NoCall}] /\ completed \in [Instances -> 0 .. 2]
    OBVIOUS
  <2> QED BY <2>2, <2>3, <2>4, <2>5, <2>6 DEF ApprovalTypeOK
<1>3. ClaimTypeOK
  <2>1. NoClaim \in Claim
    BY DEF NoClaim, Claim, ClaimStatus
  <2> QED BY <2>1, ClaimAssumption DEF ClaimTypeOK
<1>4. AssetTypeOK
  BY AssetAssumption DEF AssetTypeOK
<1>5. ApprovalInv
  <2>1. EveryStepSigned
    BY <1>1 DEF EveryStepSigned, SignedBefore, Steps
  <2> QED BY <2>1 DEF ApprovalInv
<1>6. OnceInv
  BY <1>1 DEF OnceInv, Announcing, Decision
<1>7. ClaimInv
  BY DEF ClaimInv, NoClaim, Passed, Listening
<1>8. StoryInv
  BY DEF StoryInv, Story, NoClaim, Passed, Announcing
<1>9. AssetInv
  <2>1. \A a \in Assets : asset[a].status \notin Gone
    BY AssetAssumption
  <2> QED BY <2>1 DEF AssetInv, Listening
<1> QED BY <1>2, <1>3, <1>4, <1>5, <1>6, <1>7, <1>8, <1>9 DEF FinanceInv, TypeOK

\* Every step keeps the invariant, and assets that are gone stay so.
LEMMA FinanceKept ==
  ASSUME FinanceInv, [Next]_financeVars
  PROVE  FinanceInv' /\ Final
<1>1. TypeOK /\ ApprovalTypeOK /\ ApprovalInv /\ OnceInv /\ ClaimInv /\ StoryInv /\ AssetInv
  BY DEF FinanceInv, TypeOK
<1>2. ApprovalTypeOK' /\ ApprovalInv' /\ OnceInv'
  BY <1>1, StepEffect, ApprovalTypes, ApprovalInvKept, OnceInvKept
<1>3. ClaimTypeOK' /\ ClaimInv' /\ StoryInv'
  BY <1>1, ClaimInvKept, StoryInvKept
<1>4. AssetTypeOK' /\ AssetInv' /\ Final
  BY <1>1, AssetInvKept DEF AssetKept
<1> QED BY <1>2, <1>3, <1>4 DEF FinanceInv, TypeOK

\* The invariant holds in every state.
LEMMA FinanceAlways == Spec => []FinanceInv
BY FinanceStarts, FinanceKept, PTL DEF Spec

\* Every row and every call of the claims, the assets and their approvals has its type.
THEOREM FinanceTypeCorrect == Spec => []TypeOK
<1>1. FinanceInv => TypeOK
  BY DEF FinanceInv
<1> QED BY <1>1, FinanceAlways, PTL

\* Money is paid, and an asset is disposed of, only after every approver of some chain
\* about it has signed, whatever calls interleave, save stale rows or are lost.
THEOREM SignedBeforePaid == Spec => []ApprovedFirst
<1>1. ASSUME FinanceInv
      PROVE  ApprovedFirst
  <2>1. PaidIsApproved
    BY <1>1 DEF FinanceInv, ClaimInv, PaidIsApproved, Earned, InstancesOf, Passed
  <2>2. ASSUME NEW a \in Assets, Earned(a)
        PROVE  FullySignedFor(a)
    BY <2>2 DEF Earned, FullySigned, FullySignedFor
  <2>3. DisposedIsApproved
    BY <1>1, <2>2 DEF FinanceInv, AssetInv, DisposedIsApproved
  <2> QED BY <2>1, <2>3 DEF ApprovedFirst
<1> QED BY <1>1, FinanceAlways, PTL

\* An instance passes only steps whose approver signed.
THEOREM StepsAreSigned == Spec => []EveryStepSigned
<1>1. FinanceInv => EveryStepSigned
  BY DEF FinanceInv, ApprovalInv
<1> QED BY <1>1, FinanceAlways, PTL

\* Without a stale save a decision is announced once, and a purchase with one instance at
\* most orders one asset.
THEOREM EventsOnce == Spec => []AnnouncedOnce
<1>1. ASSUME FinanceInv
      PROVE  AnnouncedOnce
  <2>1. DecidedOnce
    <3>1. ASSUME ~ raced, NEW i \in Instances
          PROVE  completed[i] < 2
      BY <1>1, <3>1 DEF FinanceInv, OnceInv
    <3> QED BY <3>1 DEF DecidedOnce
  <2>2. ASSUME ~ raced, NEW c \in Claims, \A i, j \in InstancesOf(c) : i = j
        PROVE  filled[c] <= orders[c] /\ orders[c] < 2
    <3>1. Story(c) /\ filled[c] <= orders[c]
      BY <1>1, <2>2 DEF FinanceInv, StoryInv, ClaimInv, Single
    <3> QED BY <3>1 DEF Story
  <2> QED BY <2>1, <2>2 DEF AnnouncedOnce, OneOrder
<1> QED BY <1>1, FinanceAlways, PTL

\* Without a stale save a claim and its only instance tell the same story.
THEOREM ClaimsFollow == Spec => []ClaimFollowsApproval
<1>1. ASSUME FinanceInv
      PROVE  ClaimFollowsApproval
  <2>1. ASSUME ~ raced, NEW c \in Claims, NEW i \in Instances, InstancesOf(c) = {i}
        PROVE  /\ claim[c].status \in {"leader_approved", "paid", "completed"} =>
                    instance[i].status = "approved"
               /\ claim[c].status = "rejected" => instance[i].status \in {"rejected", "returned"}
               /\ claim[c].status = "submitted" => claim[c].approval = i
    <3>1. Story(c)
      BY <1>1, <2>1 DEF FinanceInv, StoryInv, Single
    <3> QED BY <2>1, <3>1 DEF Story, Passed
  <2> QED BY <2>1 DEF ClaimFollowsApproval
<1> QED BY <1>1, FinanceAlways, PTL

\* A disposed asset comes back only after a stale save or by hand.
THEOREM DisposedStays == Spec => DisposedIsFinal
<1>1. FinanceInv /\ [Next]_financeVars => [Final]_<<asset, raced, overridden>>
  BY FinanceKept
<1> QED BY <1>1, FinanceAlways, PTL DEF Spec, DisposedIsFinal, Final

=============================================================================
