---------------------------- MODULE Reimbursement ----------------------------
(***************************************************************************)
(* Reimbursement claims: backend/src/reimbursement and the pages that work *)
(* on a claim (CreateReimbursementPage.vue, ReimbursementDetailPage.vue    *)
(* with its tabs).                                                         *)
(*   A page shows the claim it last loaded or received, offers the buttons *)
(* for that status, and waits for one call at a time.  The approval tab    *)
(* sends the actions 'approve' and 'reject', which ApproveBodyDto refuses, *)
(* so decisions come from other clients of approve().                      *)
(*   Amounts are left out; of the items it matters whether there are any.  *)
(***************************************************************************)
EXTENDS Approval

CONSTANTS
  Claims, Pages,
  Purchases,     \* the claims of type asset_purchase
  Owners,        \* the pages whose user is the submitter of the claims
  MaxClicks      \* bound: calls the pages send

ASSUME ClaimAssumption ==
  /\ Claims \subseteq Business /\ Owners \subseteq Pages /\ Purchases \subseteq Claims
  /\ \A c \in Claims : BusinessType[c] = "reimbursement"
  /\ MaxClicks \in Nat

VARIABLES
  claim,    \* [Claims -> Claim]: reimbursements
  items,    \* [Claims -> BOOLEAN]: there are rows in reimbursement_items
  clicks,   \* calls so far
  sent,     \* [Pages -> the call in flight, or NoCall]
  shown,    \* [Pages -> what the page shows of the claim it is on]
  heard,    \* [Deciders -> the claim a listener has read]
  orders,   \* [Claims -> 0 .. 2]: asset_purchase_completed emitted; 2 is more than one
  filled    \* [Claims -> 0 .. 2]: orders the asset service has taken up

claimVars == <<claim, items, clicks, sent, shown, heard, orders, filled>>

ClaimStatus == {"absent", "draft", "submitted", "leader_approved", "paid", "completed", "rejected"}
Claim == [status : ClaimStatus, approval : Instances \cup {Nothing}]
Ops == {"create", "update", "submit", "delete", "pay", "complete"}
Sent ==
  [op : Ops, at : {"items", "reinsert", "check", "open", "save"}, claim : Claims, row : Claim,
   instance : Instances \cup {Nothing}, submit : BOOLEAN, head : BOOLEAN]

ClaimTypeOK ==
  /\ claim \in [Claims -> Claim]
  /\ items \in [Claims -> BOOLEAN]
  /\ clicks \in 0 .. MaxClicks
  /\ sent \in [Pages -> Sent \cup {NoCall}]
  /\ shown \in [Pages -> [claim : Claims, status : ClaimStatus] \cup {Nothing}]
  /\ heard \in [Deciders -> Claim \cup {NoCall}]
  /\ orders \in [Claims -> 0 .. 2] /\ filled \in [Claims -> 0 .. 2]

NoClaim == [status |-> "absent", approval |-> Nothing]

ClaimInit ==
  /\ claim = [c \in Claims |-> NoClaim]
  /\ items = [c \in Claims |-> FALSE]
  /\ clicks = 0
  /\ sent = [p \in Pages |-> NoCall]
  /\ shown = [p \in Pages |-> Nothing]
  /\ heard = [d \in Deciders |-> NoCall]
  /\ orders = [c \in Claims |-> 0]
  /\ filled = [c \in Claims |-> 0]

-----------------------------------------------------------------------------
(* What the handlers share.                                                 *)

InFlight(p, op, at) == sent[p] # NoCall /\ sent[p].op = op /\ sent[p].at = at
Going(p, at) == sent' = [sent EXCEPT ![p].at = at]

Shows(p, c, statuses) == shown[p] # Nothing /\ shown[p].claim = c /\ shown[p].status \in statuses

\* The answer of a call replaces what the page shows, and the page may send the next.
Answered(p, c, status) ==
  /\ sent' = [sent EXCEPT ![p] = NoCall]
  /\ shown' = [shown EXCEPT ![p] = [claim |-> c, status |-> status]]

\* A page sends a call; the handler reads the claim and refuses any other status.
Begin(p, op, c, at, head) ==
  /\ sent[p] = NoCall /\ clicks < MaxClicks
  /\ clicks' = clicks + 1
  /\ sent' = [sent EXCEPT ![p] =
       [op |-> op, at |-> at, claim |-> c, row |-> claim[c], instance |-> Nothing,
        submit |-> FALSE, head |-> head]]
  /\ UNCHANGED <<claim, items, shown, heard, orders, filled, approvalVars, raced>>

\* save() writes the whole entity; a row that was removed meanwhile is inserted again.
SaveClaim(c, read, row) ==
  /\ claim' = [claim EXCEPT ![c] = row]
  /\ raced' = (raced \/ claim[c] # read)

-----------------------------------------------------------------------------
(* create, update, delete.                                                  *)

\* The create page: the row is saved, then its items, then perhaps submitted, without a head.
CreateClaim(p, c, submit) ==
  LET row == [NoClaim EXCEPT !.status = "draft"]
  IN /\ p \in Owners /\ sent[p] = NoCall /\ clicks < MaxClicks
     /\ claim[c].status = "absent" /\ \A q \in Pages : shown[q] = Nothing
     /\ \A q \in Pages : sent[q] = NoCall   \* c is a new id
     /\ clicks' = clicks + 1
     /\ claim' = [claim EXCEPT ![c] = row]
     /\ sent' = [sent EXCEPT ![p] =
          [op |-> "create", at |-> "items", claim |-> c, row |-> row, instance |-> Nothing,
           submit |-> submit, head |-> FALSE]]
     /\ UNCHANGED <<items, shown, heard, orders, filled, approvalVars, raced>>

InsertFirstItems(p) ==
  LET c == sent[p].claim
  IN /\ InFlight(p, "create", "items")
     /\ items' = [items EXCEPT ![c] = TRUE]
     /\ IF sent[p].submit
        THEN /\ sent' = [sent EXCEPT ![p].op = "submit", ![p].at = "check"]
             /\ UNCHANGED shown
        ELSE Answered(p, c, claim[c].status)
     /\ UNCHANGED <<claim, clicks, heard, orders, filled, approvalVars, raced>>

\* The items tab, editable while the page shows a draft.
UpdateClaim(p, c) ==
  /\ Shows(p, c, {"draft"})
  /\ p \in Owners /\ claim[c].status = "draft"
  /\ Begin(p, "update", c, "items", FALSE)

DeleteItems(p) ==
  /\ InFlight(p, "update", "items")
  /\ items' = [items EXCEPT ![sent[p].claim] = FALSE]
  /\ Going(p, "reinsert")
  /\ UNCHANGED <<claim, clicks, shown, heard, orders, filled, approvalVars, raced>>

\* The new items refer to the claim, so that their insert fails once it is gone.
ReinsertItems(p) ==
  /\ InFlight(p, "update", "reinsert")
  /\ claim[sent[p].claim].status # "absent"
  /\ items' = [items EXCEPT ![sent[p].claim] = TRUE]
  /\ Going(p, "save")
  /\ UNCHANGED <<claim, clicks, shown, heard, orders, filled, approvalVars, raced>>

SaveUpdate(p) ==
  LET call == sent[p]
  IN /\ InFlight(p, "update", "save")
     /\ SaveClaim(call.claim, call.row, call.row)
     /\ Answered(p, call.claim, call.row.status)
     /\ UNCHANGED <<items, clicks, heard, orders, filled, approvalVars>>

DeleteClaim(p, c) ==
  /\ Shows(p, c, {"draft"})
  /\ p \in Owners /\ claim[c].status = "draft"
  /\ Begin(p, "delete", c, "save", FALSE)

RemoveClaim(p) ==
  LET call == sent[p]
  IN /\ InFlight(p, "delete", "save")
     /\ SaveClaim(call.claim, call.row, NoClaim)
     /\ items' = [items EXCEPT ![call.claim] = FALSE]
     /\ Answered(p, call.claim, "absent")
     /\ UNCHANGED <<clicks, heard, orders, filled, approvalVars>>

-----------------------------------------------------------------------------
(* submit, markPaid, markComplete.                                          *)

SubmitClaim(p, c, head) ==
  /\ Shows(p, c, {"draft"})
  /\ p \in Owners /\ claim[c].status = "draft"
  /\ Begin(p, "submit", c, "open", head)

\* The second call of the create page reads the claim anew.
SubmitCreated(p) ==
  LET c == sent[p].claim
  IN /\ InFlight(p, "submit", "check")
     /\ claim[c].status = "draft"
     /\ sent' = [sent EXCEPT ![p].at = "open", ![p].row = claim[c]]
     /\ UNCHANGED <<claim, items, clicks, shown, heard, orders, filled, approvalVars, raced>>

\* A claim with items gets an instance; the claim's own row is saved only afterwards.
OpenInstance(p, i) ==
  /\ InFlight(p, "submit", "open")
  /\ items[sent[p].claim]
  /\ CreateInstance(i, sent[p].claim, sent[p].head)
  /\ sent' = [sent EXCEPT ![p].at = "save", ![p].instance = i]
  /\ UNCHANGED <<claim, items, clicks, shown, heard, orders, filled, raced>>

SaveSubmitted(p) ==
  LET call == sent[p]
  IN /\ InFlight(p, "submit", "save")
     /\ SaveClaim(call.claim, call.row,
          [call.row EXCEPT !.status = "submitted", !.approval = call.instance])
     /\ Answered(p, call.claim, "submitted")
     /\ UNCHANGED <<items, clicks, heard, orders, filled, approvalVars>>

\* Mutant: a claim under approval can be paid.
PayableEarly(status) == status \in {"submitted", "leader_approved"}

Payable(status) == status = "leader_approved"

PayClaim(p, c) ==
  /\ Shows(p, c, {"leader_approved", "submitted"}) /\ Payable(shown[p].status)
  /\ Payable(claim[c].status)
  /\ Begin(p, "pay", c, "save", FALSE)

SavePaid(p) ==
  LET call == sent[p]
  IN /\ InFlight(p, "pay", "save")
     /\ SaveClaim(call.claim, call.row, [call.row EXCEPT !.status = "paid"])
     /\ Answered(p, call.claim, "paid")
     /\ UNCHANGED <<items, clicks, heard, orders, filled, approvalVars>>

CompleteClaim(p, c) ==
  /\ Shows(p, c, {"paid"}) /\ p \in Owners
  /\ claim[c].status = "paid"
  /\ Begin(p, "complete", c, "save", FALSE)

\* A completed purchase orders an asset, in memory.
SaveCompleted(p) ==
  LET call == sent[p]
      c == call.claim
  IN /\ InFlight(p, "complete", "save")
     /\ SaveClaim(c, call.row, [call.row EXCEPT !.status = "completed"])
     /\ orders' = IF c \in Purchases THEN [orders EXCEPT ![c] = Saturated(orders[c])] ELSE orders
     /\ Answered(p, c, "completed")
     /\ UNCHANGED <<items, clicks, heard, filled, approvalVars>>

\* A refusal or a failed query, or a crash: what was saved so far stays.
LoseCall(p) ==
  /\ sent[p] # NoCall
  /\ sent' = [sent EXCEPT ![p] = NoCall]
  /\ UNCHANGED <<claim, items, clicks, shown, heard, orders, filled, approvalVars, raced>>

LoadClaim(p, c) ==
  /\ sent[p] = NoCall
  /\ claim[c].status # "absent"
  /\ shown[p] # [claim |-> c, status |-> claim[c].status]
  /\ shown' = [shown EXCEPT ![p] = [claim |-> c, status |-> claim[c].status]]
  /\ UNCHANGED <<claim, items, clicks, sent, heard, orders, filled, approvalVars, raced>>

-----------------------------------------------------------------------------
(* handleApprovalCompleted.                                                 *)

HearClaim(d, c) ==
  /\ Announces(d, "emitted", c)
  /\ IF claim[c].status = "absent"
     THEN Listened(d) /\ UNCHANGED heard
     ELSE Listen(d, "listening") /\ heard' = [heard EXCEPT ![d] = claim[c]]
  /\ UNCHANGED <<claim, items, clicks, sent, shown, orders, filled>>
  /\ UNCHANGED <<config, configs, instance, records, decisions, completed, raced>>

\* Mutant: a returned claim is taken for an approved one.
OutcomeUnlessRejected(decision) == IF decision = "rejected" THEN "rejected" ELSE "leader_approved"

Outcome(decision) == IF decision = "approved" THEN "leader_approved" ELSE "rejected"

FollowDecision(d, c) ==
  /\ Announces(d, "listening", c)
  /\ SaveClaim(c, heard[d], [heard[d] EXCEPT !.status = Outcome(decide[d].action)])
  /\ Listened(d)
  /\ heard' = [heard EXCEPT ![d] = NoCall]
  /\ UNCHANGED <<items, clicks, sent, shown, orders, filled>>
  /\ UNCHANGED <<config, configs, instance, records, decisions, completed>>

ClaimCall(p) ==
  \/ InsertFirstItems(p) \/ DeleteItems(p) \/ ReinsertItems(p) \/ SaveUpdate(p)
  \/ RemoveClaim(p) \/ SubmitCreated(p) \/ SaveSubmitted(p) \/ SavePaid(p) \/ SaveCompleted(p)
  \/ LoseCall(p)
  \/ \E i \in Instances : OpenInstance(p, i)

ClaimClick(p, c) ==
  \/ \E submit \in BOOLEAN : CreateClaim(p, c, submit)
  \/ \E head \in BOOLEAN : SubmitClaim(p, c, head)
  \/ UpdateClaim(p, c) \/ DeleteClaim(p, c) \/ PayClaim(p, c) \/ CompleteClaim(p, c)
  \/ LoadClaim(p, c)

ClaimStep ==
  \/ \E p \in Pages : ClaimCall(p) \/ \E c \in Claims : ClaimClick(p, c)
  \/ \E d \in Deciders, c \in Claims : HearClaim(d, c) \/ FollowDecision(d, c)

-----------------------------------------------------------------------------
(* Properties.                                                              *)

\* The instances that were opened for a claim.
InstancesOf(c) == {i \in Instances : instance[i].about = c}

FullySigned(i) ==
  \E n \in Steps : SignedBefore(i, n + 1) /\ n + 1 \notin instance[i].named

\* Money is paid only for a claim one of whose instances carries every signature of its
\* chain.  It holds in spite of stale saves: no save invents a status that was not earned.
PaidIsApproved ==
  \A c \in Claims : claim[c].status \in {"leader_approved", "paid", "completed"} =>
    \E i \in InstancesOf(c) : FullySigned(i)

\* As long as a claim has one instance and no row was saved over a newer one, the claim
\* and its instance tell the same story, whichever calls failed in between.
ClaimFollowsApproval ==
  raced \/ \A c \in Claims, i \in Instances :
    InstancesOf(c) = {i} =>
      /\ claim[c].status \in {"leader_approved", "paid", "completed"} =>
           instance[i].status = "approved"
      /\ claim[c].status = "rejected" => instance[i].status \in {"rejected", "returned"}
      /\ claim[c].status = "submitted" => claim[c].approval = i

\* A claim that was completed without a stale save has ordered one asset at most, unless a
\* submission that failed halfway has left a second instance behind: the listener does not
\* look at the claim's status, and takes a completed claim back to be paid again.
OneOrder ==
  raced \/ \A c \in Claims :
    (\A i, j \in InstancesOf(c) : i = j) => filled[c] <= orders[c] /\ orders[c] < 2

=============================================================================
