------------------------------ MODULE MCFinance ------------------------------
(* Finance on a small instance.  Claims, edits of the chain (with fewer calls) and assets   *)
(* are explored one after the other: claims and assets meet in approvals, which never       *)
(* concern both, and in orders.  A run of the expiry job that fails meets one call at most.  *)
EXTENDS Finance, TLC

CONSTANTS c1, a1

VARIABLE part

MCBusinessType == (c1 :> "reimbursement") @@ (a1 :> "asset_operation")

MCExisting ==
  {[status |-> "absent", virtual |-> FALSE, due |-> "never"],
   [status |-> "in_use", virtual |-> FALSE, due |-> "never"],
   [status |-> "active", virtual |-> TRUE, due |-> "soon"]}

\* One chain for both types: with an approver for step 2, or with a gap before step 3.
MCChain == {{2}, {3}}

\* The tab switches nothing off, but another client may.
MCEdits == {[active |-> FALSE, named |-> {2}]}

mcVars == <<financeVars, part>>

MCInit ==
  /\ Init
  /\ part \in {"claims", "chain", "assets"}
  /\ config["reimbursement"].named \in MCChain /\ config["asset_operation"] = config["reimbursement"]
  /\ IF part = "assets" THEN config["asset_operation"].named = {3}
     ELSE asset[a1] = NoAsset

MCNext ==
  /\ part' = part
  /\ \/ Decisions /\ (configs' = configs \/ part = "chain")
     \/ part = "claims" /\ ClaimSide
     \/ part = "chain" /\ ClaimSide /\ clicks' <= 2
     \/ part = "assets" /\ AssetSide /\ (lost' = 0 \/ worked' <= 1)

MCSpec == MCInit /\ [][MCNext]_mcVars

Symmetry == Permutations(Instances) \cup Permutations(Deciders) \cup Permutations(Workers)

=============================================================================
