------------------------------ MODULE Approval ------------------------------
(***************************************************************************)
(* Approval instances: backend/src/approval, with the admin tab that edits *)
(* the chain (ApprovalConfigTab.vue).                                      *)
(*   An instance has three steps at most.  Its approvers are fixed when it *)
(* is created, step 1 by the caller and steps 2 and 3 by the configuration;*)
(* what matters of them is which steps have one, since nobody else may     *)
(* decide.  approve() reads the instance, saves a record, and saves the    *)
(* whole instance it read; the event approval.completed runs its listeners *)
(* in memory, so a listener is the continuation of the call that emitted.  *)
(***************************************************************************)
EXTENDS Integers, FiniteSets

CONSTANTS
  Instances, Deciders,   \* ids of instances; calls of approve()
  Business,              \* the claims and assets an instance may be about
  BusinessType,          \* [Business -> Types]
  Edits, MaxConfigs,     \* bound: what the admin tab saves, and how often
  MaxDecisions,          \* bound: calls of approve()
  NoCall, Nothing

Types == {"reimbursement", "asset_operation"}
Steps == 1 .. 3

ASSUME ApprovalAssumption ==
  /\ BusinessType \in [Business -> Types]
  /\ Edits \subseteq [active : BOOLEAN, named : SUBSET {2, 3}]
  /\ Nothing \notin Business /\ MaxConfigs \in Nat /\ MaxDecisions \in Nat

VARIABLES
  config,     \* [Types -> Config]: approval_configs
  configs,    \* edits so far
  instance,   \* [Instances -> Instance]: approval_instances
  records,    \* approval_records
  decisions,  \* calls of approve() so far
  decide,     \* [Deciders -> the call of approve() in flight, or NoCall]
  \* history
  completed,  \* [Instances -> 0 .. 2]: completions emitted; 2 is more than one
  raced       \* a call acted on a row that had changed since it read it

approvalVars == <<config, configs, instance, records, decisions, decide, completed>>

Config == [active : BOOLEAN, named : SUBSET {2, 3}]
Instance ==
  [status : {"unused", "open", "approved", "rejected", "returned"}, step : Steps,
   named : SUBSET Steps, about : Business \cup {Nothing}]
Decision == {"approved", "rejected", "returned"}
Record == [instance : Instances, step : Steps, action : Decision]
Deciding ==
  [at : {"record", "save", "emitted", "listening"}, instance : Instances,
   row : Instance, action : Decision]

ApprovalTypeOK ==
  /\ config \in [Types -> Config]
  /\ configs \in 0 .. MaxConfigs
  /\ instance \in [Instances -> Instance]
  /\ records \in SUBSET Record
  /\ decisions \in 0 .. MaxDecisions
  /\ decide \in [Deciders -> Deciding \cup {NoCall}]
  /\ completed \in [Instances -> 0 .. 2]
  /\ raced \in BOOLEAN

NoInstance == [status |-> "unused", step |-> 1, named |-> {}, about |-> Nothing]

ApprovalInit ==
  /\ config \in [Types -> [active : {TRUE}, named : SUBSET {2, 3}]]
  /\ configs = 0
  /\ instance = [i \in Instances |-> NoInstance]
  /\ records = {}
  /\ decisions = 0
  /\ decide = [d \in Deciders |-> NoCall]
  /\ completed = [i \in Instances |-> 0]
  /\ raced = FALSE

-----------------------------------------------------------------------------
(* Creating instances.                                                      *)

\* upsertConfig: the admin tab saves a chain; instances keep the one they were created with.
UpsertConfig(t, c) ==
  /\ configs < MaxConfigs
  /\ configs' = configs + 1
  /\ config' = [config EXCEPT ![t] = c]
  /\ UNCHANGED <<instance, records, decisions, decide, completed, raced>>

Fresh(i) == instance[i].status = "unused"

\* createInstance on behalf of a submitter, who may have named a head of department.
CreateInstance(i, b, head) ==
  LET chain == config[BusinessType[b]]
  IN /\ chain.active /\ Fresh(i)
     /\ instance' = [instance EXCEPT ![i] =
          [status |-> "open", step |-> 1, about |-> b,
           named |-> chain.named \cup (IF head THEN {1} ELSE {})]]
     /\ UNCHANGED <<config, configs, records, decisions, decide, completed>>

-----------------------------------------------------------------------------
(* approve().                                                               *)

\* Mutant: a decided instance may be decided again.
MayDecideAgain(i) == instance[i].step \in instance[i].named

\* The instance is open and the caller is the approver of its current step.
MayDecide(i) == instance[i].status = "open" /\ instance[i].step \in instance[i].named

Approve(d, i, action) ==
  /\ decide[d] = NoCall /\ decisions < MaxDecisions
  /\ MayDecide(i)
  /\ decisions' = decisions + 1
  /\ decide' = [decide EXCEPT ![d] =
       [at |-> "record", instance |-> i, row |-> instance[i], action |-> action]]
  /\ UNCHANGED <<config, configs, instance, records, completed, raced>>

SaveRecord(d) ==
  LET call == decide[d]
  IN /\ call # NoCall /\ call.at = "record"
     /\ records' = records \cup
          {[instance |-> call.instance, step |-> call.row.step, action |-> call.action]}
     /\ decide' = [decide EXCEPT ![d].at = "save"]
     /\ UNCHANGED <<config, configs, instance, decisions, completed, raced>>

\* An approval goes to the next step when that step has an approver; a chain ends at a gap.
Advances(row, action) == action = "approved" /\ row.step + 1 \in row.named

Decided(row, action) ==
  IF Advances(row, action) THEN [row EXCEPT !.step = row.step + 1]
  ELSE [row EXCEPT !.status = action]

Saturated(n) == IF n = 2 THEN 2 ELSE n + 1

\* Saves the instance that was read; a final decision is announced to the listeners.
SaveDecision(d) ==
  LET call == decide[d]
      i == call.instance
      final == ~ Advances(call.row, call.action)
  IN /\ call # NoCall /\ call.at = "save"
     /\ instance' = [instance EXCEPT ![i] = Decided(call.row, call.action)]
     /\ completed' = IF final THEN [completed EXCEPT ![i] = Saturated(completed[i])] ELSE completed
     /\ decide' = [decide EXCEPT ![d] = IF final THEN [call EXCEPT !.at = "emitted"] ELSE NoCall]
     /\ raced' = (raced \/ instance[i] # call.row)
     /\ UNCHANGED <<config, configs, records, decisions>>

\* A query rejects or the process dies; the listeners of a call die with it.
LoseDecision(d) ==
  /\ decide[d] # NoCall
  /\ decide' = [decide EXCEPT ![d] = NoCall]
  /\ UNCHANGED <<config, configs, instance, records, decisions, completed, raced>>

\* The event of call d, while its listener has not read yet (at) or is about to save.
Announces(d, at, b) ==
  decide[d] # NoCall /\ decide[d].at = at /\ decide[d].row.about = b

Listen(d, at) == decide' = [decide EXCEPT ![d].at = at]
Listened(d)   == decide' = [decide EXCEPT ![d] = NoCall]

ApprovalStep ==
  \/ \E t \in Types, c \in Edits : UpsertConfig(t, c)
  \/ \E d \in Deciders :
       \/ \E i \in Instances, action \in Decision : Approve(d, i, action)
       \/ SaveRecord(d)
       \/ SaveDecision(d)
       \/ LoseDecision(d)

-----------------------------------------------------------------------------
(* Properties.                                                              *)

SignedBefore(i, n) ==
  \A s \in Steps : s < n =>
    [instance |-> i, step |-> s, action |-> "approved"] \in records /\ s \in instance[i].named

\* An instance has passed only steps whose own approver signed, and an approved one
\* has all signatures its chain asks for, up to the first step nobody is named for.
\* Stale saves may move an instance back, never past a signature.
EveryStepSigned ==
  \A i \in Instances :
    /\ SignedBefore(i, instance[i].step)
    /\ instance[i].status = "approved" =>
         SignedBefore(i, instance[i].step + 1) /\ instance[i].step + 1 \notin instance[i].named

\* An instance is completed once, so that its claim or asset hears one decision, as long
\* as no call of approve() saved over another (nothing in the code prevents that).
DecidedOnce == raced \/ \A i \in Instances : completed[i] < 2

=============================================================================
