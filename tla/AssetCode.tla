------------------------------- MODULE AssetCode -------------------------------
(***************************************************************************)
(* The codes of new assets: AssetService.generateAssetCode and create.     *)
(*   A transaction locks the row of the category's sequence (FOR UPDATE),  *)
(* adds one and commits.  A row that is not there yet cannot be locked:    *)
(* it is inserted, and only the unique index on the table keeps two first  *)
(* codes apart.  The asset is inserted after the transaction; its code     *)
(* starts with three letters of the category, so categories may clash in   *)
(* the unique index on assets.                                             *)
(*   The year, part of both keys, is fixed.                                *)
(***************************************************************************)
EXTENDS Naturals

CONSTANTS
  Categories, PrefixOf,  \* and [Categories -> first three letters]
  Clerks,                \* calls of create
  MaxSeq,                \* bound: assets of a category
  NoDraft, NoClerk

ASSUME CodeAssumption == MaxSeq \in Nat \ {0} /\ NoClerk \notin Clerks

VARIABLES
  seq,     \* [Categories -> lastSeq; 0 where there is no row]
  lock,    \* [Categories -> the clerk whose transaction holds the row, or NoClerk]
  clerk,   \* [Clerks -> the call in flight, or NoDraft]
  codes    \* codes of the assets

codeVars == <<seq, lock, clerk, codes>>

\* seen is the lastSeq the transaction read, number the one it made of it.
Clerk == [at : {"begin", "found", "asset"}, category : Categories, seen : 0 .. MaxSeq,
          number : 0 .. MaxSeq]

ASSUME NoDraftAssumption == NoDraft \notin Clerk

CodeTypeOK ==
  /\ seq \in [Categories -> 0 .. MaxSeq]
  /\ lock \in [Categories -> Clerks \cup {NoClerk}]
  /\ clerk \in [Clerks -> Clerk \cup {NoDraft}]
  /\ \A code \in codes : code[2] \in 1 .. MaxSeq

CodeInit ==
  /\ seq = [g \in Categories |-> 0]
  /\ lock = [g \in Categories |-> NoClerk]
  /\ clerk = [c \in Clerks |-> NoDraft]
  /\ codes = {}

-----------------------------------------------------------------------------
Begin(c, g) ==
  /\ clerk[c] = NoDraft /\ seq[g] < MaxSeq
  /\ clerk' = [clerk EXCEPT ![c] = [at |-> "begin", category |-> g, seen |-> 0, number |-> 0]]
  /\ UNCHANGED <<seq, lock, codes>>

ClerkAt(c, at) == clerk[c] # NoDraft /\ clerk[c].at = at

\* Mutant: the row is read without the lock.
FindUnlocked(c) ==
  LET g == clerk[c].category
  IN /\ ClerkAt(c, "begin") /\ seq[g] < MaxSeq
     /\ clerk' = [clerk EXCEPT ![c] = [@ EXCEPT !.at = "found", !.seen = seq[g], !.number = seq[g] + 1]]
     /\ UNCHANGED <<seq, lock, codes>>

\* findOne with a pessimistic lock: waits for the holder of the row, if there is a row.
FindSeq(c) ==
  LET g == clerk[c].category
  IN /\ ClerkAt(c, "begin") /\ seq[g] < MaxSeq
     /\ seq[g] > 0 => lock[g] = NoClerk
     /\ lock' = IF seq[g] > 0 THEN [lock EXCEPT ![g] = c] ELSE lock
     /\ clerk' = [clerk EXCEPT ![c] = [@ EXCEPT !.at = "found", !.seen = seq[g], !.number = seq[g] + 1]]
     /\ UNCHANGED <<seq, codes>>

Release(c) == lock' = [g \in Categories |-> IF lock[g] = c THEN NoClerk ELSE lock[g]]

Drop(c) ==
  /\ Release(c)
  /\ clerk' = [clerk EXCEPT ![c] = NoDraft]
  /\ UNCHANGED <<seq, codes>>

\* save and commit: an update of the locked row, or the insert of a row that is still missing.
SaveSeq(c) ==
  LET g == clerk[c].category
  IN /\ ClerkAt(c, "found")
     /\ clerk[c].seen > 0 \/ seq[g] = 0
     /\ seq' = [seq EXCEPT ![g] = clerk[c].number]
     /\ Release(c)
     /\ clerk' = [clerk EXCEPT ![c].at = "asset"]
     /\ UNCHANGED codes

\* The unique index refuses a second first row: the call fails.
SeqTaken(c) ==
  /\ ClerkAt(c, "found") /\ clerk[c].seen = 0 /\ seq[clerk[c].category] > 0
  /\ Drop(c)

Code(c) == <<PrefixOf[clerk[c].category], clerk[c].number>>

\* The asset is inserted, or refused because another category has used the code:
\* then the number is lost.
InsertAsset(c) ==
  /\ ClerkAt(c, "asset")
  /\ codes' = codes \cup {Code(c)}
  /\ clerk' = [clerk EXCEPT ![c] = NoDraft]
  /\ UNCHANGED <<seq, lock>>

\* A query fails or the process dies: the transaction is rolled back.
Fail(c) == clerk[c] # NoDraft /\ Drop(c)

CodeNext ==
  \E c \in Clerks :
    \/ \E g \in Categories : Begin(c, g)
    \/ FindSeq(c) \/ SaveSeq(c) \/ SeqTaken(c) \/ InsertAsset(c) \/ Fail(c)

CodeSpec == CodeInit /\ [][CodeNext]_codeVars

-----------------------------------------------------------------------------
\* The numbers the calls hold between the transaction and the asset.
Held == [c \in Clerks |-> IF ClerkAt(c, "asset") THEN <<clerk[c].category, clerk[c].number>> ELSE <<>>]

Abstract == INSTANCE Sequencer WITH Sequences <- Categories, Takers <- Clerks, last <- seq, taken <- Held

\* generateAssetCode gives out the numbers of a category one by one, each once: no two
\* calls ever leave the transaction with the same number, first rows included.
CodesInTurn == Abstract!SeqSpec

=============================================================================
