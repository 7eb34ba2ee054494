------------------------------- MODULE Finance -------------------------------
(***************************************************************************)
(* Claims and assets on top of the approvals they share.  Events tie them  *)
(* together: approval.completed reaches the listener of the claim or the   *)
(* asset, reimbursement.asset_purchase_completed makes an asset.           *)
(***************************************************************************)
EXTENDS Reimbursement, Asset

financeVars == <<approvalVars, raced, claimVars, assetVars>>

TypeOK == ApprovalTypeOK /\ ClaimTypeOK /\ AssetTypeOK

Init == ApprovalInit /\ ClaimInit /\ AssetInit

\* handleReimbursementAssetPurchase: an order in memory becomes a physical asset.
TakeOrder(c, a) ==
  /\ filled[c] < orders[c]
  /\ filled' = [filled EXCEPT ![c] = filled[c] + 1]
  /\ asset[a] = NoAsset
  /\ asset' = [asset EXCEPT ![a] = NewAsset(FALSE, "never")]
  /\ UNCHANGED <<claim, items, clicks, sent, shown, heard, orders>>
  /\ UNCHANGED <<latest, worked, work, applying, check, lost, overridden>>
  /\ UNCHANGED <<approvalVars, raced>>

\* The order fails or dies with its process; nothing repeats it.
LoseOrder(c) ==
  /\ filled[c] < orders[c]
  /\ filled' = [filled EXCEPT ![c] = filled[c] + 1]
  /\ UNCHANGED <<claim, items, clicks, sent, shown, heard, orders>>
  /\ UNCHANGED <<assetVars, approvalVars, raced>>

\* What a call of approve() forgets when it ends.
Decisions ==
  /\ ApprovalStep
  /\ heard' = [d \in Deciders |-> IF decide'[d] = NoCall THEN NoCall ELSE heard[d]]
  /\ applying' = [d \in Deciders |-> IF decide'[d] = NoCall THEN NoCall ELSE applying[d]]
  /\ UNCHANGED <<claim, items, clicks, sent, shown, orders, filled>>
  /\ UNCHANGED <<asset, latest, worked, work, check, lost, overridden>>

ClaimSide ==
  \/ ClaimStep /\ UNCHANGED assetVars
  \/ \E c \in Claims : LoseOrder(c) \/ \E a \in Assets : TakeOrder(c, a)

AssetSide == AssetStep /\ UNCHANGED claimVars

Next == Decisions \/ ClaimSide \/ AssetSide

\* Node resumes the job, and cron starts it every day.  Users need not act.
Fairness == WF_financeVars(CheckExpiry /\ UNCHANGED claimVars)

Spec == Init /\ [][Next]_financeVars /\ Fairness

-----------------------------------------------------------------------------
(* Properties of the composition.                                           *)

\* Money is paid and assets are disposed of only with every signature of a chain.
ApprovedFirst == PaidIsApproved /\ DisposedIsApproved

\* A decision is announced once, and a completed purchase with one approval orders one asset,
\* as long as no call saved over another: every listener trusts that it hears of something once.
AnnouncedOnce == DecidedOnce /\ OneOrder

=============================================================================
