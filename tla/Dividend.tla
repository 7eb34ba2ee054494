-------------------------------- MODULE Dividend --------------------------------
(***************************************************************************)
(* Dividends: backend/src/dividend.  A settlement drafts one from the      *)
(* members' active points; a total is filled in, which fixes every amount; *)
(* it is approved or rejected.  Every call reads the row and later saves   *)
(* all of it.                                                              *)
(*   Money is in cents; the total that is filled in may be finer (tenths   *)
(* of a cent).  Ratios are floating point numbers: a tie may be rounded    *)
(* either way.                                                             *)
(***************************************************************************)
EXTENDS Points

CONSTANTS
  Officers,  \* calls of the endpoints
  Totals,    \* totals that are filled in, in tenths of a cent
  Unset, Unsigned, NoRow

ASSUME DividendAssumption == Totals \subseteq Nat \ {0} /\ Unsigned \notin Users /\ Unset \notin Nat

VARIABLES
  dividend,  \* the row, or NoRow
  saving    \* [Officers -> the row the call is about to save, or NoRow]

dividendVars == <<dividend, saving>>

IsRow(row) ==
  /\ row.status \in {"draft", "pending_approval", "approved", "rejected"}
  /\ row.total = Unset \/ row.total \in Nat
  /\ DOMAIN row.points \subseteq Users /\ DOMAIN row.amounts = DOMAIN row.points
  /\ \A u \in DOMAIN row.amounts : row.amounts[u] = Unset \/ row.amounts[u] \in Nat
  /\ row.approvedBy \in Users \cup {Unsigned}

DividendTypeOK ==
  /\ dividend = NoRow \/ IsRow(dividend)
  /\ \A c \in Officers : saving[c] = NoRow \/ IsRow(saving[c])

DividendInit == dividend = NoRow /\ saving = [c \in Officers |-> NoRow]

-----------------------------------------------------------------------------
\* createDraft, with the members and points of that moment.
CreateDraft ==
  /\ dividend = NoRow
  /\ dividend' = [status |-> "draft", total |-> Unset, points |-> MembersActive,
                  amounts |-> [u \in members |-> Unset], approvedBy |-> Unsigned]
  /\ UNCHANGED <<saving, pointsVars>>

\* Whole numbers nearest to n / d: two at a tie.
Nearest(n, d) == {k \in {n \div d, n \div d + 1} : 2 * n <= (2 * k + 1) * d /\ (2 * k - 1) * d <= 2 * n}

\* Mutant: amounts are rounded to whole units of the currency.
WholeUnits(total, points, all) ==
  IF all = 0 THEN {0} ELSE {100 * k : k \in Nearest(total * points, 1000 * all)}

\* Math.round(totalAmount * ratio * 100) / 100
Cents(total, points, all) == IF all = 0 THEN {0} ELSE Nearest(total * points, 10 * all)

\* What the amounts of a filled dividend may be.
AmountsOf(total, points) ==
  LET all == MapThenSumSet(LAMBDA u : points[u], DOMAIN points)
  IN {amounts \in [DOMAIN points -> UNION {Cents(total, points[u], all) : u \in DOMAIN points}] :
        \A u \in DOMAIN points : amounts[u] \in Cents(total, points[u], all)}

Read(c, row) ==
  /\ saving[c] = NoRow /\ dividend # NoRow
  /\ saving' = [saving EXCEPT ![c] = row]
  /\ UNCHANGED <<dividend, pointsVars>>

\* fillAmount; the column rounds the total to cents.
FillAmount(c, total) ==
  /\ dividend # NoRow /\ dividend.status = "draft"
  /\ \E amounts \in AmountsOf(total, dividend.points) :
       Read(c, [dividend EXCEPT !.status = "pending_approval", !.total = (total + 5) \div 10,
                                !.amounts = amounts])

Approve(c, u) ==
  /\ dividend # NoRow /\ dividend.status = "pending_approval"
  /\ Read(c, [dividend EXCEPT !.status = "approved", !.approvedBy = u])

Reject(c) ==
  /\ dividend # NoRow /\ dividend.status = "pending_approval"
  /\ Read(c, [dividend EXCEPT !.status = "rejected"])

SaveDividend(c) ==
  /\ saving[c] # NoRow
  /\ dividend' = saving[c]
  /\ saving' = [saving EXCEPT ![c] = NoRow]
  /\ UNCHANGED pointsVars

LoseDividend(c) ==
  /\ saving[c] # NoRow
  /\ saving' = [saving EXCEPT ![c] = NoRow]
  /\ UNCHANGED <<dividend, pointsVars>>

DividendNext ==
  \/ CreateDraft
  \/ \E c \in Officers :
       \/ \E total \in Totals : FillAmount(c, total)
       \/ \E u \in Users : Approve(c, u)
       \/ Reject(c) \/ SaveDividend(c) \/ LoseDividend(c)
  \/ dividend = NoRow /\ PointsNext /\ UNCHANGED dividendVars  \* nothing reads them later

DividendSpec == DividendInit /\ PointsInit /\ [][DividendNext]_<<dividendVars, pointsVars>>

-----------------------------------------------------------------------------
\* Each amount is rounded on its own, and fills, approvals and rejections overwrite
\* each other: still, from the fill on the amounts are those of the one total that is
\* shown, off by half a cent for each member and for the total at most, or all zero if
\* nobody had points; and exactly an approved dividend is signed.
ApprovedAddsUp ==
  dividend # NoRow /\ dividend.status # "draft" =>
    LET due == DOMAIN dividend.amounts
        sum == MapThenSumSet(LAMBDA u : dividend.amounts[u], due)
        gap == IF sum > dividend.total THEN sum - dividend.total ELSE dividend.total - sum
    IN /\ IF \E u \in due : dividend.points[u] > 0 THEN 2 * gap <= Cardinality(due) + 1 ELSE sum = 0
       /\ (dividend.approvedBy # Unsigned) = (dividend.status = "approved")

=============================================================================
