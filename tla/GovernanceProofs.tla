---------------------------- MODULE GovernanceProofs ----------------------------
(***************************************************************************)
(* The parts around the tasks, each for any values of its constants: the   *)
(* numbers of assets, registration, the directory, skills, conversations,  *)
(* auctions; the points, ballots and dividends that sum over records; and  *)
(* the tree of departments.                                                *)
(***************************************************************************)
EXTENDS MCGovernance, Sums, SequenceTheorems, TLAPS

-----------------------------------------------------------------------------
(* AssetCode implements Sequencer.  A clerk that read a row holds its lock  *)
(* until it saves, so the number it made still is the next one; a clerk     *)
(* that found no row saves only while there is none.                       *)

CodeInv ==
  /\ CodeTypeOK
  /\ \A c \in Clerks :
       /\ ClerkAt(c, "found") \/ ClerkAt(c, "asset") => clerk[c].number \in 1 .. MaxSeq
       /\ ClerkAt(c, "found") =>
            /\ clerk[c].number = clerk[c].seen + 1
            /\ clerk[c].seen > 0 => lock[clerk[c].category] = c /\ seq[clerk[c].category] = clerk[c].seen

LEMMA CodeInitInv == ASSUME CodeInit PROVE CodeInv
BY CodeAssumption DEF CodeInit, CodeInv, CodeTypeOK, ClerkAt

LEMMA ReleaseType ==
  ASSUME CodeTypeOK, NEW c \in Clerks, Release(c)
  PROVE  /\ lock' \in [Categories -> Clerks \cup {NoClerk}]
         /\ \A d \in Clerks, g \in Categories : d # c /\ lock[g] = d => lock'[g] = d
BY CodeAssumption DEF CodeTypeOK, Release

LEMMA DropKeepsCodes == ASSUME CodeInv, NEW c \in Clerks, Drop(c) PROVE CodeInv'
<1>1. CodeTypeOK'
  BY ReleaseType DEF CodeInv, CodeTypeOK, Drop
<1>2. ~ClerkAt(c, "found")' /\ ~ClerkAt(c, "asset")' /\ \A d \in Clerks : d # c => clerk'[d] = clerk[d]
  BY DEF CodeInv, CodeTypeOK, Drop, ClerkAt
<1>3. \A d \in Clerks : ClerkAt(d, "found") => clerk[d].category \in Categories
  BY DEF CodeInv, CodeTypeOK, ClerkAt, Clerk
<1> QED BY <1>1, <1>2, <1>3, ReleaseType DEF CodeInv, Drop, ClerkAt

\* What a transaction makes of its clerk.
LEMMA FoundClerk ==
  ASSUME NEW k \in Clerk, NEW n \in 0 .. MaxSeq, NEW m \in 0 .. MaxSeq, NEW found,
         found = [k EXCEPT !.at = "found", !.seen = n, !.number = m]
  PROVE  /\ found \in Clerk /\ found.at = "found" /\ found.seen = n /\ found.number = m
         /\ found.category = k.category
BY DEF Clerk

LEMMA AssetClerk ==
  ASSUME NEW k \in Clerk, NEW asset, asset = [k EXCEPT !.at = "asset"]
  PROVE  asset \in Clerk /\ asset.at = "asset" /\ asset.number = k.number /\ asset.category = k.category
BY DEF Clerk

LEMMA CodeStep == ASSUME CodeInv, [CodeNext]_codeVars PROVE CodeInv'
<1> USE CodeAssumption
<1>0. ASSUME NEW c \in Clerks, clerk[c] # NoDraft PROVE clerk[c] \in Clerk
  BY <1>0 DEF CodeInv, CodeTypeOK
<1>1. ASSUME NEW c \in Clerks, NEW g \in Categories, Begin(c, g) PROVE CodeInv'
  <2> DEFINE new == [at |-> "begin", category |-> g, seen |-> 0, number |-> 0]
  <2>1. new \in Clerk /\ new.at = "begin"
    BY DEF Clerk
  <2>2. clerk' = [clerk EXCEPT ![c] = new] /\ UNCHANGED <<seq, lock, codes>>
    BY <1>1 DEF Begin
  <2> HIDE DEF new
  <2> QED BY <2>1, <2>2 DEF CodeInv, CodeTypeOK, ClerkAt
<1>2. ASSUME NEW c \in Clerks, FindSeq(c) PROVE CodeInv'
  <2> DEFINE g   == clerk[c].category
             new == [clerk[c] EXCEPT !.at = "found", !.seen = seq[g], !.number = seq[g] + 1]
  <2>1. /\ clerk[c] \in Clerk /\ g \in Categories /\ seq[g] \in 0 .. MaxSeq /\ seq[g] < MaxSeq
        /\ seq[g] > 0 => lock[g] = NoClerk
        /\ lock' = IF seq[g] > 0 THEN [lock EXCEPT ![g] = c] ELSE lock
        /\ clerk' = [clerk EXCEPT ![c] = new]
        /\ UNCHANGED <<seq, codes>>
    BY <1>0, <1>2 DEF FindSeq, ClerkAt, Clerk, CodeInv, CodeTypeOK
  <2>2. /\ new \in Clerk /\ new.at = "found" /\ new.seen = seq[g] /\ new.number = seq[g] + 1
        /\ new.category = g
    <3>1. PICK m \in 0 .. MaxSeq : m = seq[g] + 1
      BY <2>1
    <3>2. new = [clerk[c] EXCEPT !.at = "found", !.seen = seq[g], !.number = m]
      BY <3>1
    <3> HIDE DEF g, new
    <3> QED BY <2>1, <3>1, <3>2 DEF Clerk, g
  <2> HIDE DEF g, new
  <2>3. CodeTypeOK'
    BY <2>1, <2>2 DEF CodeInv, CodeTypeOK
  <2>4. lock' \in [Categories -> Clerks \cup {NoClerk}] /\ (seq[g] > 0 => lock'[g] = c)
    BY <2>1 DEF CodeInv, CodeTypeOK
  <2>5. \A d \in Clerks, h \in Categories : d # c /\ lock[h] = d => lock'[h] = d
    BY <2>1 DEF CodeInv, CodeTypeOK
  <2>6. clerk'[c] = new /\ \A d \in Clerks : d # c => clerk'[d] = clerk[d]
    BY <2>1 DEF CodeInv, CodeTypeOK
  <2>7. \A d \in Clerks : ClerkAt(d, "found") => clerk[d].category \in Categories
    BY <1>0 DEF ClerkAt, Clerk
  <2> QED BY <2>1, <2>2, <2>3, <2>4, <2>5, <2>6, <2>7 DEF CodeInv, ClerkAt
<1>3. ASSUME NEW c \in Clerks, SaveSeq(c) PROVE CodeInv'
  <2> DEFINE g == clerk[c].category
             n == clerk[c].number
  <2>1. /\ clerk[c] \in Clerk /\ g \in Categories /\ n \in 1 .. MaxSeq
        /\ clerk[c].seen \in Nat /\ ClerkAt(c, "found") /\ (clerk[c].seen > 0 \/ seq[g] = 0)
        /\ seq' = [seq EXCEPT ![g] = n] /\ Release(c)
        /\ clerk' = [clerk EXCEPT ![c].at = "asset"] /\ UNCHANGED codes
    BY <1>0, <1>3 DEF SaveSeq, ClerkAt, Clerk, CodeInv
  <2>2. /\ clerk'[c] \in Clerk /\ clerk'[c].at = "asset" /\ clerk'[c].number = n
        /\ \A d \in Clerks : d # c => clerk'[d] = clerk[d]
    <3>1. clerk'[c] = [clerk[c] EXCEPT !.at = "asset"]
      BY <2>1 DEF CodeInv, CodeTypeOK
    <3>2. \A d \in Clerks : d # c => clerk'[d] = clerk[d]
      BY <2>1 DEF CodeInv, CodeTypeOK
    <3> QED BY <2>1, <3>1, <3>2, AssetClerk
  <2> HIDE DEF g, n
  <2>3. CodeTypeOK'
    BY <2>1, <2>2, ReleaseType DEF CodeInv, CodeTypeOK
  <2>4. ASSUME NEW d \in Clerks, d # c, ClerkAt(d, "found"), clerk[d].seen > 0
        PROVE  clerk[d].category \in Categories /\ clerk[d].category # g
    BY <1>0, <2>1, <2>4 DEF CodeInv, ClerkAt, Clerk, g
  <2>5. \A d \in Clerks : d # c /\ ClerkAt(d, "found") /\ clerk[d].seen > 0 =>
          lock'[clerk[d].category] = d /\ seq'[clerk[d].category] = clerk[d].seen
    BY <2>1, <2>4, ReleaseType DEF CodeInv, CodeTypeOK
  <2> QED BY <2>1, <2>2, <2>3, <2>5 DEF CodeInv, ClerkAt
<1>4. ASSUME NEW c \in Clerks, SeqTaken(c) \/ Fail(c) PROVE CodeInv'
  BY <1>4, DropKeepsCodes DEF SeqTaken, Fail
<1>5. ASSUME NEW c \in Clerks, InsertAsset(c) PROVE CodeInv'
  <2>1. ClerkAt(c, "asset") /\ codes' = codes \cup {<<PrefixOf[clerk[c].category], clerk[c].number>>}
        /\ clerk' = [clerk EXCEPT ![c] = NoDraft] /\ UNCHANGED <<seq, lock>>
    BY <1>5 DEF InsertAsset, Code
  <2>2. \A code \in codes' : code[2] \in 1 .. MaxSeq
    BY <2>1 DEF CodeInv, CodeTypeOK
  <2> QED BY <2>1, <2>2 DEF CodeInv, CodeTypeOK, ClerkAt
<1>6. CASE UNCHANGED codeVars
  BY <1>6 DEF CodeInv, CodeTypeOK, ClerkAt, codeVars
<1> QED BY <1>1, <1>2, <1>3, <1>4, <1>5, <1>6 DEF CodeNext

\* Every step of AssetCode is a step of Sequencer or changes neither of its variables.
LEMMA CodeStepSimulates ==
  ASSUME CodeInv, [CodeNext]_codeVars
  PROVE  [Abstract!SeqNext]_<<seq, Held>>
<1> USE CodeAssumption, NoDraftAssumption DEF CodeInv, CodeTypeOK
<1>1. ASSUME NEW c \in Clerks, Held' = [Held EXCEPT ![c] = <<>>], UNCHANGED seq
      PROVE  Abstract!SeqNext
  BY <1>1 DEF Abstract!SeqNext, Abstract!Forget
<1>2. ASSUME NEW c \in Clerks, clerk' = [clerk EXCEPT ![c] = NoDraft]
      PROVE  Held' = [Held EXCEPT ![c] = <<>>]
  BY <1>2 DEF Held, ClerkAt
<1>3. ASSUME NEW c \in Clerks, NEW g \in Categories, Begin(c, g) PROVE UNCHANGED <<seq, Held>>
  BY <1>3 DEF Begin, Held, ClerkAt
<1>4. ASSUME NEW c \in Clerks, FindSeq(c) PROVE UNCHANGED <<seq, Held>>
  <2>1. clerk[c] \in Clerk /\ clerk[c].at = "begin" /\ clerk'[c].at = "found"
    BY <1>4 DEF FindSeq, ClerkAt, Clerk
  <2> QED BY <1>4, <2>1 DEF FindSeq, Held, ClerkAt
<1>5. ASSUME NEW c \in Clerks, SaveSeq(c) PROVE Abstract!SeqNext
  <2> DEFINE g == clerk[c].category
  <2>1. /\ clerk[c] \in Clerk /\ clerk[c].at = "found" /\ g \in Categories
        /\ clerk[c].number = seq[g] + 1
        /\ seq' = [seq EXCEPT ![g] = clerk[c].number]
        /\ clerk' = [clerk EXCEPT ![c].at = "asset"]
    BY <1>5 DEF SaveSeq, ClerkAt, Clerk
  <2>2. /\ clerk'[c] \in Clerk /\ clerk'[c].at = "asset" /\ clerk'[c].number = seq[g] + 1
        /\ clerk'[c].category = g
        /\ \A d \in Clerks : d # c => clerk'[d] = clerk[d]
    <3>1. clerk'[c] = [clerk[c] EXCEPT !.at = "asset"]
      BY <2>1
    <3>2. \A d \in Clerks : d # c => clerk'[d] = clerk[d]
      BY <2>1
    <3> QED BY <2>1, <3>1, <3>2, AssetClerk
  <2>3. Held[c] = <<>> /\ Held' = [Held EXCEPT ![c] = <<g, seq[g] + 1>>]
    <3>1. ~ClerkAt(c, "asset") /\ ClerkAt(c, "asset")'
      BY <2>1, <2>2 DEF ClerkAt
    <3>2. \A d \in Clerks : d # c => (ClerkAt(d, "asset")' <=> ClerkAt(d, "asset")) /\ clerk'[d] = clerk[d]
      BY <2>2 DEF ClerkAt
    <3>3. Held[c] = <<>> /\ Held'[c] = <<g, seq[g] + 1>>
      BY <2>2, <3>1 DEF Held
    <3>4. \A d \in Clerks : d # c => Held'[d] = Held[d]
      BY <3>2 DEF Held
    <3>5. Held = [d \in Clerks |-> Held[d]] /\ Held' = [d \in Clerks |-> Held'[d]]
      BY DEF Held
    <3> HIDE DEF g
    <3> QED BY <3>3, <3>4, <3>5
  <2>4. seq' = [seq EXCEPT ![g] = @ + 1]
    BY <2>1
  <2> QED BY <2>1, <2>3, <2>4 DEF Abstract!SeqNext, Abstract!Take
<1>6. ASSUME NEW c \in Clerks, SeqTaken(c) \/ Fail(c) \/ InsertAsset(c) PROVE Abstract!SeqNext
  BY <1>1, <1>2, <1>6 DEF SeqTaken, Fail, Drop, InsertAsset
<1>7. CASE UNCHANGED codeVars
  BY <1>7 DEF codeVars, Held, ClerkAt
<1> QED BY <1>3, <1>4, <1>5, <1>6, <1>7 DEF CodeNext

LEMMA CodeInductive == CodeSpec => []CodeInv
BY CodeInitInv, CodeStep, PTL DEF CodeSpec

\* The transaction of generateAssetCode gives out the numbers of every category one by
\* one, each once: first rows, refusals, rollbacks and crashes of any number of calls.
THEOREM NumbersInTurn == CodeSpec => CodesInTurn
<1>1. CodeInit => Abstract!SeqInit
  BY DEF CodeInit, Abstract!SeqInit, Held, ClerkAt
<1>2. CodeInv /\ [CodeNext]_codeVars => [Abstract!SeqNext]_(Abstract!seqVars)
  BY CodeStepSimulates DEF Abstract!seqVars
<1> QED BY <1>1, <1>2, CodeInductive, PTL DEF CodeSpec, CodesInTurn, Abstract!SeqSpec

-----------------------------------------------------------------------------
(* Registration.  What a call founds or joins is there once it is past the  *)
(* first insert; only founding calls give a role.                           *)

RegistrationInv ==
  /\ RegistrationTypeOK
  /\ \A k \in Keys :
       /\ pending[k] # NoKey /\ ~pending[k].founder => pending[k].slug \in tenant
       /\ resend[k] # NoKey /\ ~resend[k].founder => resend[k].slug \in tenant
  /\ \A v \in Verifications : verifying[v] # NoVerification =>
       /\ verifying[v].at \in {"tenant", "role"} => verifying[v].of.founder
       /\ verifying[v].at # "tenant" => verifying[v].of.slug \in tenant
  /\ TenantsHaveAdmin

LEMMA RegistrationInitInv == ASSUME RegistrationInit PROVE RegistrationInv
BY RegistrationAssumption DEF RegistrationInit, RegistrationInv, RegistrationTypeOK, Role, TenantsHaveAdmin

LEMMA MovedOn ==
  ASSUME NEW call \in Verification, NEW at \in {"tenant", "user", "role", "drop"},
         NEW moved, moved = [call EXCEPT !.at = at]
  PROVE  moved \in Verification /\ moved.at = at /\ moved.of = call.of /\ moved.key = call.key
BY DEF Verification

\* What a call of verifyEmail is about.
LEMMA CallShape ==
  ASSUME RegistrationInv, NEW v \in Verifications, verifying[v] # NoVerification
  PROVE  /\ verifying[v] \in Verification /\ verifying[v].key \in Keys
         /\ verifying[v].of \in Pending /\ verifying[v].of.slug \in Slugs /\ verifying[v].of.mail \in Emails
         /\ verifying[v].at \in {"tenant", "user", "role", "drop"}
         /\ verifying[v].at \in {"tenant", "role"} => verifying[v].of.founder
         /\ verifying[v].at # "tenant" => verifying[v].of.slug \in tenant
BY DEF RegistrationInv, RegistrationTypeOK, Verification, Pending

LEMMA GoneOn ==
  ASSUME RegistrationInv, NEW v \in Verifications, verifying[v] # NoVerification,
         NEW at \in {"tenant", "user", "role", "drop"}, GoOn(v, at)
  PROVE  /\ verifying' \in [Verifications -> Verification \cup {NoVerification}]
         /\ verifying'[v] # NoVerification /\ verifying'[v].at = at /\ verifying'[v].of = verifying[v].of
         /\ \A w \in Verifications : w # v => verifying'[w] = verifying[w]
         /\ busy' = busy
<1>1. verifying' = [verifying EXCEPT ![v] = [verifying[v] EXCEPT !.at = at]] /\ busy' = busy
  BY DEF GoOn, RegistrationInv, RegistrationTypeOK
<1>2. PICK moved : moved = [verifying[v] EXCEPT !.at = at]
  OBVIOUS
<1>3. moved \in Verification /\ moved.at = at /\ moved.of = verifying[v].of
  BY <1>2, CallShape, MovedOn
<1> QED BY <1>1, <1>2, <1>3, RegistrationAssumption DEF RegistrationInv, RegistrationTypeOK

LEMMA Answered ==
  ASSUME RegistrationInv, NEW v \in Verifications, Answer(v)
  PROVE  /\ verifying' \in [Verifications -> Verification \cup {NoVerification}]
         /\ verifying'[v] = NoVerification /\ \A w \in Verifications : w # v => verifying'[w] = verifying[w]
         /\ busy' \subseteq Keys
BY DEF Answer, RegistrationInv, RegistrationTypeOK

\* The role a call gives: to an account of an organisation that is there; nobody
\* loses a role.
LEMMA Granted ==
  ASSUME RegistrationInv, NEW v \in Verifications, verifying[v] # NoVerification,
         verifying[v].of.slug \in tenant, NEW role \in Role, Grant(v, role),
         role = "super_admin" \/ ~HasAccount(v)
  PROVE  /\ account' \in [Slugs -> [Emails -> Role]]
         /\ \A s \in Slugs \ tenant, m \in Emails : account'[s][m] = "absent"
         /\ \A s \in Slugs, m \in Emails : account[s][m] = "super_admin" => account'[s][m] = "super_admin"
         /\ account'[verifying[v].of.slug][verifying[v].of.mail] = role
BY CallShape DEF Grant, HasAccount, RegistrationInv, RegistrationTypeOK

LEMMA ErrorKeeps ==
  ASSUME RegistrationInv, NEW v \in Verifications, verifying[v] # NoVerification, GiveError(v),
         givenUp' \in 0 .. MaxGivenUp
  PROVE  RegistrationInv'
<1>1. /\ cut' \subseteq tenant /\ cut \subseteq cut'
      /\ verifying[v].of.founder /\ verifying[v].at \in {"user", "role"} => verifying[v].of.slug \in cut'
  BY CallShape DEF GiveError, RegistrationInv, RegistrationTypeOK
<1>2. UNCHANGED <<tenant, account, pending, resend, resent>> /\ Answer(v)
  BY DEF GiveError
<1>3. /\ verifying' \in [Verifications -> Verification \cup {NoVerification}] /\ busy' \subseteq Keys
      /\ verifying'[v] = NoVerification /\ \A w \in Verifications : w # v => verifying'[w] = verifying[w]
  BY <1>2, Answered
<1>4. RegistrationTypeOK'
  BY <1>1, <1>2, <1>3 DEF RegistrationInv, RegistrationTypeOK
<1>5. TenantsHaveAdmin'
  <2> SUFFICES ASSUME NEW s \in tenant
               PROVE  \/ \E m \in Emails : account[s][m] = "super_admin"
                      \/ \E w \in Verifications :
                           (StepIs(w, "user")' \/ StepIs(w, "role")') /\ verifying'[w].of.founder /\ verifying'[w].of.slug = s
                      \/ s \in cut'
    BY <1>2 DEF TenantsHaveAdmin
  <2>1. CASE \E m \in Emails : account[s][m] = "super_admin"
    BY <2>1
  <2>2. CASE s \in cut
    BY <1>1, <2>2
  <2>3. ASSUME NEW w \in Verifications, StepIs(w, "user") \/ StepIs(w, "role"), verifying[w].of.founder,
               verifying[w].of.slug = s, w # v
        PROVE  (StepIs(w, "user")' \/ StepIs(w, "role")') /\ verifying'[w].of.founder /\ verifying'[w].of.slug = s
    BY <1>3, <2>3 DEF StepIs
  <2>4. CASE (StepIs(v, "user") \/ StepIs(v, "role")) /\ verifying[v].of.founder /\ verifying[v].of.slug = s
    BY <1>1, <2>4 DEF StepIs
  <2> QED BY <2>1, <2>2, <2>3, <2>4 DEF RegistrationInv, TenantsHaveAdmin
<1> QED BY <1>2, <1>3, <1>4, <1>5 DEF RegistrationInv

\* Steps that change neither an organisation nor an account nor a call.
LEMMA PageKeeps ==
  ASSUME RegistrationInv, UNCHANGED <<tenant, account, verifying, cut>>,
         pending' \in [Keys -> Pending \cup {NoKey}], resend' \in [Keys -> Pending \cup {NoKey}],
         \A k \in Keys : pending'[k] # NoKey /\ ~pending'[k].founder => pending'[k].slug \in tenant,
         \A k \in Keys : resend'[k] # NoKey /\ ~resend'[k].founder => resend'[k].slug \in tenant,
         busy' \subseteq Keys, resent' \in 0 .. MaxResends, givenUp' \in 0 .. MaxGivenUp
  PROVE  RegistrationInv'
<1>1. RegistrationTypeOK'
  BY DEF RegistrationInv, RegistrationTypeOK
<1>2. TenantsHaveAdmin'
  BY DEF RegistrationInv, TenantsHaveAdmin, StepIs
<1> QED BY <1>1, <1>2 DEF RegistrationInv

LEMMA RegistrationStep ==
  ASSUME RegistrationInv, [RegistrationNext]_registrationVars PROVE RegistrationInv'
<1> USE RegistrationAssumption
<1>0. /\ pending \in [Keys -> Pending \cup {NoKey}] /\ resend \in [Keys -> Pending \cup {NoKey}]
      /\ busy \subseteq Keys /\ resent \in 0 .. MaxResends /\ givenUp \in 0 .. MaxGivenUp
      /\ \A k \in Keys : pending[k] # NoKey /\ ~pending[k].founder => pending[k].slug \in tenant
      /\ \A k \in Keys : resend[k] # NoKey /\ ~resend[k].founder => resend[k].slug \in tenant
  BY DEF RegistrationInv, RegistrationTypeOK
<1>1. ASSUME NEW k \in Keys, NEW s \in Slugs, NEW m \in Emails, Register(k, s, m) \/ RegisterWithOrg(k, s, m)
      PROVE  RegistrationInv'
  <2>1. PICK entered \in Pending : Wait(k, entered) /\ (~entered.founder => entered.slug \in tenant)
    <3>1. \A founder \in BOOLEAN : [founder |-> founder, slug |-> s, mail |-> m, code |-> 0] \in Pending
      BY DEF Pending
    <3>2. CASE Register(k, s, m)
      BY <3>1, <3>2 DEF Register
    <3>3. CASE RegisterWithOrg(k, s, m)
      BY <3>1, <3>3 DEF RegisterWithOrg
    <3> QED BY <1>1, <3>2, <3>3
  <2> QED BY <1>0, <2>1, PageKeeps DEF Wait
<1>2. ASSUME NEW k \in Keys, Expire(k) \/ ReadResend(k) PROVE RegistrationInv'
  BY <1>0, <1>2, PageKeeps DEF Expire, ReadResend
<1>3. ASSUME NEW k \in Keys, SetResend(k) PROVE RegistrationInv'
  <2>1. PICK again : again = [resend[k] EXCEPT !.code = resent]
    OBVIOUS
  <2>2. again \in Pending /\ again.founder = resend[k].founder /\ again.slug = resend[k].slug
    BY <1>0, <1>3, <2>1 DEF SetResend, Pending
  <2>3. resend[k] # NoKey /\ pending' = [pending EXCEPT ![k] = again] /\ resend' = [resend EXCEPT ![k] = NoKey]
        /\ busy' = busy \ {k} /\ UNCHANGED <<tenant, account, verifying, resent, givenUp, cut>>
    BY <1>3, <2>1 DEF SetResend
  <2> QED BY <1>0, <2>2, <2>3, PageKeeps
<1>4. ASSUME NEW k \in Keys, GiveUp(k) PROVE RegistrationInv'
  BY <1>0, <1>4, PageKeeps DEF GiveUp
<1>5. ASSUME NEW v \in Verifications, NEW k \in Keys, ReadPending(v, k) PROVE RegistrationInv'
  <2>1. PICK call : call = [at |-> IF pending[k].founder THEN "tenant" ELSE "user", key |-> k, of |-> pending[k]]
    OBVIOUS
  <2>2. /\ verifying[v] = NoVerification /\ verifying' = [verifying EXCEPT ![v] = call] /\ busy' = busy \cup {k}
        /\ UNCHANGED <<tenant, account, pending, resend, resent, givenUp, cut>>
    BY <1>5, <2>1 DEF ReadPending
  <2>3. /\ call \in Verification /\ (call.at \in {"tenant", "role"} => call.of.founder)
        /\ (call.at # "tenant" => call.of.slug \in tenant)
    BY <1>0, <1>5, <2>1 DEF ReadPending, Verification, Pending
  <2>4. /\ verifying' \in [Verifications -> Verification \cup {NoVerification}]
        /\ verifying'[v] = call /\ \A w \in Verifications : w # v => verifying'[w] = verifying[w]
    BY <2>2, <2>3 DEF RegistrationInv, RegistrationTypeOK
  <2>5. RegistrationTypeOK'
    BY <1>0, <2>2, <2>4 DEF RegistrationInv, RegistrationTypeOK
  <2>6. TenantsHaveAdmin'
    BY <2>2, <2>4 DEF RegistrationInv, TenantsHaveAdmin, StepIs
  <2> QED BY <2>2, <2>3, <2>4, <2>5, <2>6 DEF RegistrationInv
<1>6. ASSUME NEW v \in Verifications, CreateTenant(v) PROVE RegistrationInv'
  <2>1. /\ verifying[v] # NoVerification /\ verifying[v].at = "tenant"
        /\ tenant' = tenant \cup {verifying[v].of.slug} /\ GoOn(v, "user")
        /\ UNCHANGED <<account, pending, resend, resent, givenUp, cut>>
    BY <1>6 DEF CreateTenant, StepIs
  <2>2. verifying[v].of.slug \in Slugs /\ verifying[v].of.founder
    BY <2>1, CallShape
  <2>3. /\ verifying' \in [Verifications -> Verification \cup {NoVerification}]
        /\ verifying'[v] # NoVerification /\ verifying'[v].at = "user" /\ verifying'[v].of = verifying[v].of
        /\ \A w \in Verifications : w # v => verifying'[w] = verifying[w]
        /\ busy' = busy
    BY <2>1, GoneOn
  <2>4. RegistrationTypeOK'
    BY <1>0, <2>1, <2>2, <2>3 DEF RegistrationInv, RegistrationTypeOK
  <2>5. TenantsHaveAdmin'
    BY <2>1, <2>2, <2>3 DEF RegistrationInv, TenantsHaveAdmin, StepIs
  <2> QED BY <1>0, <2>1, <2>2, <2>3, <2>4, <2>5 DEF RegistrationInv
<1>7. ASSUME NEW v \in Verifications, SlugTaken(v) \/ MailTaken(v) \/ FailVerification(v) PROVE RegistrationInv'
  BY <1>0, <1>7, ErrorKeeps DEF SlugTaken, MailTaken, FailVerification, StepIs
<1>8. ASSUME NEW v \in Verifications, CreateUser(v) \/ SaveRole(v) PROVE RegistrationInv'
  <2>1. PICK role \in Role, at \in {"role", "drop"} :
          /\ verifying[v] # NoVerification /\ verifying[v].at # "tenant"
          /\ Grant(v, role) /\ (role = "super_admin" \/ ~HasAccount(v)) /\ GoOn(v, at)
          /\ at = "role" => verifying[v].of.founder
          /\ at = "drop" => role = "super_admin" \/ ~verifying[v].of.founder
          /\ UNCHANGED <<tenant, pending, resend, resent, givenUp, cut>>
    BY <1>8 DEF CreateUser, SaveRole, StepIs, Role, AfterUser
  <2>2. verifying[v].of.slug \in tenant /\ verifying[v].of.slug \in Slugs /\ verifying[v].of.mail \in Emails
    BY <2>1, CallShape
  <2>3. /\ account' \in [Slugs -> [Emails -> Role]]
        /\ \A s \in Slugs \ tenant, m \in Emails : account'[s][m] = "absent"
        /\ \A s \in Slugs, m \in Emails : account[s][m] = "super_admin" => account'[s][m] = "super_admin"
        /\ account'[verifying[v].of.slug][verifying[v].of.mail] = role
    BY <2>1, <2>2, Granted
  <2>4. /\ verifying' \in [Verifications -> Verification \cup {NoVerification}]
        /\ verifying'[v] # NoVerification /\ verifying'[v].at = at /\ verifying'[v].of = verifying[v].of
        /\ \A w \in Verifications : w # v => verifying'[w] = verifying[w]
        /\ busy' = busy
    BY <2>1, GoneOn
  <2>5. RegistrationTypeOK'
    BY <1>0, <2>1, <2>3, <2>4 DEF RegistrationInv, RegistrationTypeOK
  <2>6. TenantsHaveAdmin'
    <3> SUFFICES ASSUME NEW s \in tenant
                 PROVE  \/ \E m \in Emails : account'[s][m] = "super_admin"
                        \/ \E w \in Verifications : (StepIs(w, "user")' \/ StepIs(w, "role")')
                              /\ verifying'[w].of.founder /\ verifying'[w].of.slug = s
                        \/ s \in cut
      BY <2>1 DEF TenantsHaveAdmin
    <3>1. s \in Slugs
      BY DEF RegistrationInv, RegistrationTypeOK
    <3>2. CASE \E m \in Emails : account[s][m] = "super_admin"
      BY <2>3, <3>1, <3>2
    <3>3. ASSUME NEW w \in Verifications, StepIs(w, "user") \/ StepIs(w, "role"), verifying[w].of.founder,
                 verifying[w].of.slug = s, w # v
          PROVE  (StepIs(w, "user")' \/ StepIs(w, "role")') /\ verifying'[w].of.founder /\ verifying'[w].of.slug = s
      BY <2>4, <3>3 DEF StepIs
    <3>4. CASE verifying[v].of.founder /\ verifying[v].of.slug = s
      BY <2>1, <2>2, <2>3, <2>4, <3>4 DEF StepIs
    <3> QED BY <3>2, <3>3, <3>4 DEF RegistrationInv, TenantsHaveAdmin
  <2> QED BY <1>0, <2>1, <2>2, <2>4, <2>5, <2>6 DEF RegistrationInv
<1>9. ASSUME NEW v \in Verifications, DropPending(v) PROVE RegistrationInv'
  <2>1. /\ verifying[v] # NoVerification /\ verifying[v].at = "drop"
        /\ pending' = [pending EXCEPT ![verifying[v].key] = NoKey] /\ Answer(v)
        /\ UNCHANGED <<tenant, account, resend, resent, givenUp, cut>>
    BY <1>9 DEF DropPending, StepIs
  <2>2. /\ verifying' \in [Verifications -> Verification \cup {NoVerification}] /\ busy' \subseteq Keys
        /\ verifying'[v] = NoVerification /\ \A w \in Verifications : w # v => verifying'[w] = verifying[w]
    BY <2>1, Answered
  <2>3. /\ pending' \in [Keys -> Pending \cup {NoKey}]
        /\ \A k \in Keys : pending'[k] # NoKey /\ ~pending'[k].founder => pending'[k].slug \in tenant
    BY <1>0, <2>1
  <2>4. RegistrationTypeOK'
    BY <1>0, <2>1, <2>2, <2>3 DEF RegistrationInv, RegistrationTypeOK
  <2>5. TenantsHaveAdmin'
    BY <2>1, <2>2 DEF RegistrationInv, TenantsHaveAdmin, StepIs
  <2> QED BY <1>0, <2>1, <2>2, <2>3, <2>4, <2>5 DEF RegistrationInv
<1>10. CASE UNCHANGED registrationVars
  BY <1>0, <1>10, PageKeeps DEF registrationVars
<1> QED
  BY <1>1, <1>2, <1>3, <1>4, <1>5, <1>6, <1>7, <1>8, <1>9, <1>10 DEF RegistrationNext

\* Registrations, foundings and resent codes that race or break off anywhere: an
\* organisation has an administrator, is being founded, or its founding call failed halfway.
THEOREM FoundersGovern == RegistrationSpec => []TenantsHaveAdmin
<1>1. RegistrationInv => TenantsHaveAdmin
  BY DEF RegistrationInv
<1> QED BY <1>1, RegistrationInitInv, RegistrationStep, PTL DEF RegistrationSpec

-----------------------------------------------------------------------------
(* Directory.  Everybody an account, a link, an event or a worker knows was *)
(* in Feishu once.  Until it looks for the unseen, a sync has listed, or    *)
(* has seen, all staff but those who joined meanwhile; so whom it does not  *)
(* find left, or joined meanwhile.                                          *)

Known == staff \cup left
Owns(p, a) == a \in {MailOf[p], p}
Excused(a) == \E p \in left \cup raced : a \in {MailOf[p], p}

AccountsInv ==
  /\ row \in [Addresses -> Account]
  /\ \A a \in Addresses : row[a].role = "absent" => row[a].open = NoPerson
  /\ \A a, b \in Addresses : row[a].open = row[b].open => a = b \/ row[a].open = NoPerson
  /\ \A a \in Addresses : row[a].open # NoPerson => row[a].open \in Known /\ Owns(row[a].open, a)
  /\ \A a \in Addresses : row[a].role = "resigned" => Excused(a)

LinksInv ==
  /\ links \subseteq [person : People, address : Mails]
  /\ \A l \in links : l.person \in Known /\ Owns(l.person, l.address) /\ row[l.address].role # "absent"

EventsInv ==
  /\ events \subseteq Event
  /\ \A e \in events : e.person \in Known /\ (e.type = "deleted" => e.person \in left)

WorkOK(k) ==
  /\ k.at = "next" => k.kind = "sync"
  /\ k.at \notin {"next", "resign"} => k.person \in Known
  /\ k.todo \subseteq Known
  /\ k.kind = "deleted" => k.person \in left
  /\ k.at \in {"mail", "update", "insert", "role"} \/ (k.kind = "login" /\ k.at = "open") => Owns(k.person, k.address)
  /\ k.at \in {"update", "role"} => row[k.address].role # "absent"
  /\ k.kind = "sync" /\ k.at # "resign" => staff \subseteq k.todo \cup k.seen \cup raced
  /\ k.at = "resign" => \A a \in k.out : Excused(a)

WorkInv ==
  /\ work \in [Workers -> Work \cup {NoWork}]
  /\ \A w \in Workers : work[w] # NoWork => WorkOK(work[w])

DirectoryInv ==
  /\ staff \subseteq People /\ left \subseteq People /\ raced \subseteq People
  /\ changes \in 0 .. MaxChanges /\ errors \in 0 .. MaxErrors
  /\ AccountsInv /\ LinksInv /\ EventsInv /\ WorkInv

LEMMA DirectoryInvMeans == ASSUME DirectoryInv PROVE DirectoryTypeOK /\ ResignedLeft
BY DEF DirectoryInv, AccountsInv, LinksInv, EventsInv, WorkInv, DirectoryTypeOK, ResignedLeft, Excused

LEMMA DirectoryInitInv == ASSUME DirectoryInit PROVE DirectoryInv
BY DirectoryAssumption, NoWorkAssumption
DEF DirectoryInit, DirectoryInv, AccountsInv, LinksInv, EventsInv, WorkInv, Account

\* Accounts stay accounts, while a worker goes on to next.
LEMMA DirectoryFrame ==
  ASSUME DirectoryInv, NEW w \in Workers, NEW next \in Work \cup {NoWork}, Working(w, next),
         next # NoWork => WorkOK(next)', AccountsInv', LinksInv', errors' \in 0 .. MaxErrors,
         \A a \in Addresses : row[a].role # "absent" => row'[a].role # "absent"
  PROVE  DirectoryInv'
<1>1. UNCHANGED <<staff, events, changes, left, raced>> /\ work' = [work EXCEPT ![w] = next]
  BY DEF Working
<1>2. EventsInv'
  BY <1>1 DEF DirectoryInv, EventsInv, Known
<1>3. work' \in [Workers -> Work \cup {NoWork}] /\ work'[w] = next /\ \A v \in Workers : v # w => work'[v] = work[v]
  BY <1>1 DEF DirectoryInv, WorkInv
<1>4. ASSUME NEW v \in Workers, v # w, work[v] # NoWork PROVE WorkOK(work[v])'
  <2>1. PICK k : k = work[v]
    OBVIOUS
  <2>2. k \in Work /\ WorkOK(k) /\ work'[v] = k
    BY <1>3, <1>4, <2>1 DEF DirectoryInv, WorkInv
  <2>3. k.at \in {"update", "role"} => k.address \in Addresses
    BY <2>2, DirectoryAssumption DEF WorkOK, Owns, Addresses, DirectoryInv, Known
  <2> QED BY <1>1, <2>2, <2>3 DEF WorkOK, Known, Excused
<1>5. WorkInv'
  BY <1>3, <1>4 DEF WorkInv
<1> QED BY <1>1, <1>2, <1>5 DEF DirectoryInv

LEMMA DirectoryRecords ==
  ASSUME NEW kind \in {"sync", "user", "deleted", "login"}, NEW at \in {"next", "open"},
         NEW p \in People \cup {NoPerson}, NEW a \in Addresses \cup {NoPerson},
         NEW todo \in SUBSET People, NEW seen \in SUBSET People, NEW k,
         k = [kind |-> kind, at |-> at, person |-> p, address |-> a, todo |-> todo, seen |-> seen, out |-> {}]
  PROVE  /\ k \in Work /\ k.kind = kind /\ k.at = at /\ k.person = p /\ k.address = a
         /\ k.todo = todo /\ k.seen = seen /\ k.out = {}
BY DEF Work

\* What a worker goes on with when accounts and links stay as they are.
LEMMA DirectoryWork ==
  ASSUME DirectoryInv, NEW w \in Workers, NEW next \in Work \cup {NoWork}, Working(w, next),
         next # NoWork => WorkOK(next), UNCHANGED <<row, links>>, errors' \in 0 .. MaxErrors
  PROVE  DirectoryInv'
<1>1. UNCHANGED <<staff, events, changes, left, raced>>
  BY DEF Working
<1>2. AccountsInv' /\ LinksInv'
  BY <1>1 DEF DirectoryInv, AccountsInv, LinksInv, Known, Excused
<1>3. next # NoWork => WorkOK(next)'
  BY <1>1 DEF WorkOK, Known, Excused
<1> QED BY <1>2, <1>3, DirectoryFrame

\* The end of a person's turn, or of the work.
LEMMA AfterIs ==
  ASSUME DirectoryInv, NEW w \in Workers, work[w] # NoWork, NEW k, k = After(w)
  PROVE  /\ k \in Work \cup {NoWork}
         /\ k # NoWork => /\ k.at = "next" /\ k.kind = "sync" /\ k.todo \subseteq Known
                          /\ staff \subseteq k.todo \cup k.seen \cup raced
<1>1. work[w] \in Work /\ WorkOK(work[w])
  BY DEF DirectoryInv, WorkInv
<1>2. CASE work[w].kind = "sync" /\ work[w].at # "resign"
  <2>1. k = [kind |-> "sync", at |-> "next", person |-> NoPerson, address |-> NoPerson,
             todo |-> work[w].todo, seen |-> work[w].seen, out |-> {}]
    BY <1>2 DEF After, Idle
  <2>2. work[w].todo \subseteq People /\ work[w].seen \subseteq People
    BY <1>1 DEF Work
  <2>3. PICK todo \in SUBSET People, seen \in SUBSET People : todo = work[w].todo /\ seen = work[w].seen
    BY <2>2
  <2>4. k \in Work /\ k.at = "next" /\ k.kind = "sync" /\ k.todo = todo /\ k.seen = seen
    BY <2>1, <2>3 DEF Work
  <2>5. staff \subseteq work[w].todo \cup work[w].seen \cup raced /\ work[w].todo \subseteq Known
    BY <1>1, <1>2 DEF WorkOK
  <2> QED BY <2>3, <2>4, <2>5
<1>3. CASE ~(work[w].kind = "sync" /\ work[w].at # "resign")
  BY <1>3 DEF After
<1> QED BY <1>2, <1>3

LEMMA DirectoryFinish ==
  ASSUME DirectoryInv, NEW w \in Workers, work[w] # NoWork, Finish(w), AccountsInv', LinksInv',
         errors' \in 0 .. MaxErrors,
         \A a \in Addresses : row[a].role # "absent" => row'[a].role # "absent"
  PROVE  DirectoryInv'
<1>1. PICK k : k = After(w)
  OBVIOUS
<1>2. Working(w, k) /\ UNCHANGED <<staff, raced>>
  BY <1>1 DEF Finish, Working
<1>3. k # NoWork => WorkOK(k)'
  BY <1>1, <1>2, AfterIs DEF WorkOK, Known, Working
<1> QED BY <1>1, <1>2, <1>3, AfterIs, DirectoryFrame

LEMMA DirectoryFinishSame ==
  ASSUME DirectoryInv, NEW w \in Workers, work[w] # NoWork, Finish(w), UNCHANGED <<row, links>>,
         errors' \in 0 .. MaxErrors
  PROVE  DirectoryInv'
<1>1. UNCHANGED <<staff, left, raced>>
  BY DEF Finish, Working
<1>2. AccountsInv' /\ LinksInv'
  BY <1>1 DEF DirectoryInv, AccountsInv, LinksInv, Known, Excused
<1> QED BY <1>2, DirectoryFinish

LEMMA StaffKeeps ==
  ASSUME DirectoryInv, NEW p \in People, JoinFeishu(p) \/ LeaveFeishu(p) PROVE DirectoryInv'
<1>1. /\ changes' \in 0 .. MaxChanges /\ UNCHANGED <<row, links, work, errors>>
      /\ \E e \in Event : events' = events \cup {e} /\ e.person = p /\ (e.type = "deleted" => LeaveFeishu(p))
  <2>1. [type |-> "user", person |-> p] \in Event /\ [type |-> "deleted", person |-> p] \in Event
    BY DEF Event
  <2> QED BY <2>1, DirectoryAssumption DEF JoinFeishu, LeaveFeishu, Change, DirectoryInv
<1>2. /\ Known \cup {p} \subseteq Known' /\ left \subseteq left' /\ raced \subseteq raced'
      /\ staff' \subseteq People /\ left' \subseteq People /\ raced' \subseteq People
      /\ LeaveFeishu(p) => p \in left'
  BY DEF JoinFeishu, LeaveFeishu, Known, DirectoryInv
<1>3. SyncRuns => staff' \subseteq staff \cup raced'
  BY DEF JoinFeishu, LeaveFeishu
<1>4. AccountsInv' /\ LinksInv'
  BY <1>1, <1>2 DEF DirectoryInv, AccountsInv, LinksInv, Excused
<1>5. EventsInv'
  BY <1>1, <1>2 DEF DirectoryInv, EventsInv
<1>6. ASSUME NEW w \in Workers, work[w] # NoWork PROVE WorkOK(work[w])'
  <2>1. PICK k : k = work[w] /\ work'[w] = k
    BY <1>1
  <2>2. k \in Work /\ WorkOK(k)
    BY <1>6, <2>1 DEF DirectoryInv, WorkInv
  <2>3. k.kind = "sync" => SyncRuns
    BY <1>6, <2>1 DEF SyncRuns
  <2>4. k.kind = "sync" /\ k.at # "resign" => staff' \subseteq k.todo \cup k.seen \cup raced'
    BY <1>2, <1>3, <2>2, <2>3 DEF WorkOK
  <2> QED BY <1>1, <1>2, <2>1, <2>2, <2>4 DEF WorkOK, Excused
<1>7. WorkInv'
  BY <1>1, <1>6 DEF DirectoryInv, WorkInv
<1> QED BY <1>1, <1>2, <1>4, <1>5, <1>7 DEF DirectoryInv

LEMMA StartKeeps ==
  ASSUME DirectoryInv, NEW w \in Workers,
         \/ StartSync(w)
         \/ \E e \in events : HandleEvent(w, e)
         \/ \E p \in People, a \in Addresses : Login(w, p, a)
  PROVE  DirectoryInv'
<1>1. ASSUME NEW k, StartWork(w, k), k \in Work, WorkOK(k) PROVE DirectoryInv'
  BY <1>1, DirectoryWork DEF StartWork, DirectoryInv
<1>2. CASE StartSync(w)
  <2>1. PICK k : k = [Idle EXCEPT !.todo = staff]
    OBVIOUS
  <2>2. k \in Work /\ k.kind = "sync" /\ k.at = "next" /\ k.todo = staff
    BY <2>1 DEF Idle, Work, DirectoryInv
  <2> QED BY <1>1, <1>2, <2>1, <2>2 DEF StartSync, WorkOK, Known
<1>3. ASSUME NEW e \in events, HandleEvent(w, e) PROVE DirectoryInv'
  <2>1. PICK k : k = [Idle EXCEPT !.kind = e.type, !.at = "open", !.person = e.person]
    OBVIOUS
  <2>2. e \in Event /\ e.person \in Known /\ (e.type = "deleted" => e.person \in left)
    BY DEF DirectoryInv, EventsInv
  <2>3. k \in Work /\ k.kind = e.type /\ k.kind # "sync" /\ k.kind # "login" /\ k.at = "open" /\ k.person = e.person /\ k.todo = {}
    BY <2>1, <2>2 DEF Idle, Work, Event
  <2> QED BY <1>1, <1>3, <2>1, <2>2, <2>3 DEF HandleEvent, WorkOK
<1>4. ASSUME NEW p \in People, NEW a \in Addresses, Login(w, p, a) PROVE DirectoryInv'
  <2>1. PICK k : k = [Idle EXCEPT !.kind = "login", !.at = "open", !.person = p, !.address = a]
    OBVIOUS
  <2>2. k \in Work /\ k.kind = "login" /\ k.at = "open" /\ k.person = p /\ k.address = a /\ k.todo = {}
    BY <2>1 DEF Idle, Work
  <2>3. p \in Known /\ Owns(p, a)
    BY <1>4 DEF Login, Known, Owns
  <2> QED BY <1>1, <1>4, <2>1, <2>2, <2>3 DEF Login, WorkOK
<1> QED BY <1>2, <1>3, <1>4

LEMMA AddressOf == ASSUME NEW p \in People, NEW a, Owns(p, a) PROVE a \in Addresses /\ (a \in Mails => a = MailOf[p])
BY DirectoryAssumption DEF Owns, Addresses

LEMMA NextPersonKeeps == ASSUME DirectoryInv, NEW w \in Workers, NextPerson(w) PROVE DirectoryInv'
<1>1. work[w] \in Work /\ WorkOK(work[w]) /\ work[w].at = "next" /\ work[w].kind = "sync"
  BY DEF NextPerson, Doing, DirectoryInv, WorkInv, WorkOK
<1>6. PICK p \in work[w].todo :
        Working(w, [work[w] EXCEPT !.at = "open", !.person = p, !.address = MailOf[p],
                                   !.todo = @ \ {p}, !.seen = Noted(@, p)])
  BY DEF NextPerson
<1>2. PICK k :
        /\ k = [work[w] EXCEPT !.at = "open", !.person = p, !.address = MailOf[p],
                               !.todo = @ \ {p}, !.seen = Noted(@, p)]
        /\ Working(w, k)
  BY <1>6
<1>3. p \in People /\ MailOf[p] \in Addresses
  BY <1>1, DirectoryAssumption DEF Work, Addresses
<1>4. /\ k \in Work /\ k.kind = "sync" /\ k.at = "open" /\ k.person = p /\ k.address = MailOf[p]
      /\ k.todo = work[w].todo \ {p} /\ k.seen = work[w].seen \cup {p}
  BY <1>1, <1>2, <1>3 DEF Work, Noted
<1>5. WorkOK(k)
  BY <1>1, <1>2, <1>4 DEF WorkOK, Owns
<1> QED BY <1>2, <1>4, <1>5, DirectoryWork DEF NextPerson, DirectoryInv

\* Somebody's account is their own.
LEMMA AccountsOfIs ==
  ASSUME DirectoryInv, NEW p \in People, NEW a \in AccountsOf(p)
  PROVE  a \in Addresses /\ row[a].open = p /\ row[a].role # "absent" /\ Owns(p, a) /\ p \in Known
BY DirectoryAssumption DEF DirectoryInv, AccountsInv, AccountsOf

LEMMA FindByOpenIdKeeps == ASSUME DirectoryInv, NEW w \in Workers, FindByOpenId(w) PROVE DirectoryInv'
<1> DEFINE p == work[w].person
           found == AccountsOf(p)
<1>1. /\ work[w] \in Work /\ WorkOK(work[w]) /\ work[w] # NoWork /\ work[w].at = "open"
      /\ p \in Known /\ p \in People /\ UNCHANGED <<row, links, errors>> /\ errors' \in 0 .. MaxErrors
  BY DEF FindByOpenId, Doing, DirectoryInv, WorkInv, WorkOK, Known
<1>2. ASSUME NEW k, k = [work[w] EXCEPT !.at = "mail", !.address = AddressFor(w)], Working(w, k),
             work[w].kind # "deleted"
      PROVE  DirectoryInv'
  <2>1. Owns(p, AddressFor(w))
    BY <1>1 DEF WorkOK, AddressFor, Owns
  <2>2. AddressFor(w) \in Addresses
    BY <1>1, <2>1, AddressOf
  <2>3. k \in Work /\ k.at = "mail" /\ k.address = AddressFor(w) /\ k.person = p /\ k.kind = work[w].kind
        /\ k.todo = work[w].todo /\ k.seen = work[w].seen
    BY <1>1, <1>2, <2>2 DEF Work
  <2>4. WorkOK(k)
    BY <1>1, <1>2, <2>1, <2>3 DEF WorkOK
  <2> QED BY <1>1, <1>2, <2>3, <2>4, DirectoryWork
<1>3. ASSUME NEW k, NEW a \in found, k = [work[w] EXCEPT !.at = "update", !.address = a], Working(w, k),
             work[w].kind # "deleted"
      PROVE  DirectoryInv'
  <2>1. a \in Addresses /\ row[a].role # "absent" /\ Owns(p, a)
    BY <1>1, <1>3, AccountsOfIs
  <2>2. k \in Work /\ k.at = "update" /\ k.address = a /\ k.person = p /\ k.kind = work[w].kind
        /\ k.todo = work[w].todo /\ k.seen = work[w].seen
    BY <1>1, <1>3, <2>1 DEF Work
  <2>3. WorkOK(k)
    BY <1>1, <1>3, <2>1, <2>2 DEF WorkOK
  <2> QED BY <1>1, <1>3, <2>2, <2>3, DirectoryWork
<1>4. ASSUME NEW k, k = [work[w] EXCEPT !.at = "resign", !.out = found], Working(w, k),
             work[w].kind = "deleted"
      PROVE  DirectoryInv'
  <2>1. p \in left /\ found \subseteq Addresses
    BY <1>1, <1>4 DEF WorkOK, AccountsOf
  <2>2. \A a \in found : Excused(a)
    BY <1>1, <2>1, AccountsOfIs DEF Excused, Owns
  <2>3. k \in Work /\ k.at = "resign" /\ k.out = found /\ k.kind = "deleted" /\ k.person = p
        /\ k.todo = work[w].todo
    BY <1>1, <1>4, <2>1 DEF Work
  <2>4. WorkOK(k)
    BY <1>1, <2>1, <2>2, <2>3 DEF WorkOK
  <2> QED BY <1>1, <1>4, <2>3, <2>4, DirectoryWork
<1>5. CASE Finish(w)
  BY <1>1, <1>5, DirectoryFinishSame
<1>6. found # {} => (CHOOSE a \in found : TRUE) \in found
  OBVIOUS
<1> QED BY <1>2, <1>3, <1>4, <1>5, <1>6 DEF FindByOpenId

LEMMA FindByMailKeeps == ASSUME DirectoryInv, NEW w \in Workers, FindByMail(w) PROVE DirectoryInv'
<1> DEFINE p == work[w].person
           a == work[w].address
<1>1. /\ work[w] \in Work /\ WorkOK(work[w]) /\ work[w] # NoWork /\ work[w].at = "mail"
      /\ p \in Known /\ p \in People /\ Owns(p, a) /\ UNCHANGED <<row, errors>> /\ errors' \in 0 .. MaxErrors
  BY DEF FindByMail, Doing, DirectoryInv, WorkInv, WorkOK, Known
<1>2. ASSUME NEW at \in {"insert", "update"}, at = "update" => row[a].role # "absent",
             Working(w, [work[w] EXCEPT !.at = at]), UNCHANGED links
      PROVE  DirectoryInv'
  <2>1. PICK k : k = [work[w] EXCEPT !.at = at]
    OBVIOUS
  <2>2. k \in Work /\ k.at = at /\ k.address = a /\ k.person = p /\ k.kind = work[w].kind
        /\ k.todo = work[w].todo /\ k.seen = work[w].seen
    BY <1>1, <2>1 DEF Work
  <2>3. WorkOK(k)
    BY <1>1, <1>2, <2>2 DEF WorkOK
  <2> QED BY <1>1, <1>2, <2>1, <2>2, <2>3, DirectoryWork
<1>3. CASE /\ row[a].role # "absent" /\ a \in Mails
           /\ links' = links \cup {[person |-> p, address |-> a]} /\ Finish(w)
  <2>1. UNCHANGED <<staff, left, raced>>
    BY <1>3 DEF Finish, Working
  <2>2. AccountsInv'
    BY <1>1, <2>1 DEF DirectoryInv, AccountsInv, Known, Excused
  <2>3. LinksInv'
    BY <1>1, <1>3, <2>1 DEF DirectoryInv, LinksInv, Known
  <2> QED BY <1>1, <1>3, <2>2, <2>3, DirectoryFinish
<1> QED BY <1>2, <1>3 DEF FindByMail

\* An account gets the id of a person it belongs to, or one that has it already keeps it.
LEMMA Linked ==
  ASSUME DirectoryInv, NEW p \in Known, NEW a \in Addresses, Owns(p, a), row[a].role # "absent",
         UNCHANGED <<staff, left, raced>>, links' \subseteq links,
         row' = IF Free(p, a) THEN [row EXCEPT ![a].open = p] ELSE row
  PROVE  /\ AccountsInv' /\ LinksInv'
         /\ \A b \in Addresses : row[b].role # "absent" => row'[b].role # "absent"
<1>1. p \in People
  BY DEF DirectoryInv, Known
<1>2. CASE ~Free(p, a)
  BY <1>2 DEF DirectoryInv, AccountsInv, LinksInv, Known, Excused
<1>3. CASE Free(p, a)
  <2>1. PICK r : r = [row[a] EXCEPT !.open = p]
    OBVIOUS
  <2>2. r \in Account /\ r.open = p /\ r.role = row[a].role /\ row' = [row EXCEPT ![a] = r]
    BY <1>1, <1>3, <2>1 DEF DirectoryInv, AccountsInv, Account
  <2>3. \A b \in Addresses : b # a => row[b].open # p
    BY <1>3 DEF Free, AccountsOf
  <2>4. row' \in [Addresses -> Account] /\ row'[a] = r /\ \A b \in Addresses : b # a => row'[b] = row[b]
    BY <2>2 DEF DirectoryInv, AccountsInv
  <2>5. AccountsInv'
    <3>1. \A b, c \in Addresses : row'[b].open = row'[c].open => b = c \/ row'[b].open = NoPerson
      BY <2>2, <2>3, <2>4 DEF DirectoryInv, AccountsInv
    <3>2. \A b \in Addresses : row'[b].role = "absent" => row'[b].open = NoPerson
      BY <2>2, <2>4 DEF DirectoryInv, AccountsInv
    <3>3. \A b \in Addresses : row'[b].open # NoPerson => row'[b].open \in Known' /\ Owns(row'[b].open, b)
      BY <2>2, <2>4 DEF DirectoryInv, AccountsInv, Known
    <3>4. \A b \in Addresses : row'[b].role = "resigned" => Excused(b)'
      BY <2>2, <2>4 DEF DirectoryInv, AccountsInv, Excused
    <3> QED BY <2>4, <3>1, <3>2, <3>3, <3>4 DEF AccountsInv
  <2>6. \A b \in Addresses : row[b].role # "absent" => row'[b].role # "absent"
    BY <2>2, <2>4
  <2>7. LinksInv'
    BY <2>6 DEF DirectoryInv, LinksInv, Known, Addresses
  <2> QED BY <2>5, <2>6, <2>7
<1> QED BY <1>2, <1>3

LEMMA UpdateAccountKeeps == ASSUME DirectoryInv, NEW w \in Workers, UpdateAccount(w) PROVE DirectoryInv'
<1> DEFINE p == work[w].person
           a == work[w].address
<1>1. /\ work[w] \in Work /\ WorkOK(work[w]) /\ work[w] # NoWork /\ work[w].at = "update"
      /\ p \in Known /\ p \in People /\ Owns(p, a) /\ row[a].role # "absent"
  BY DEF UpdateAccount, Doing, DirectoryInv, WorkInv, WorkOK, Known
<1>2. /\ row' = IF Free(p, a) THEN [row EXCEPT ![a].open = p] ELSE row
      /\ Finish(w) /\ UNCHANGED <<links, errors, staff, left, raced>> /\ errors' \in 0 .. MaxErrors
  BY DEF UpdateAccount, Finish, Working, DirectoryInv
<1>3. a \in Addresses
  BY <1>1, AddressOf
<1> HIDE DEF p, a
<1>4. /\ AccountsInv' /\ LinksInv'
      /\ \A b \in Addresses : row[b].role # "absent" => row'[b].role # "absent"
  BY <1>1, <1>2, <1>3, Linked
<1> QED BY <1>1, <1>2, <1>4, DirectoryFinish

LEMMA UseLinkKeeps == ASSUME DirectoryInv, NEW l \in links, ConfirmLink(l) \/ DropLink(l) PROVE DirectoryInv'
<1>1. /\ l.person \in Known /\ l.address \in Addresses /\ Owns(l.person, l.address)
      /\ row[l.address].role # "absent"
  BY DEF DirectoryInv, LinksInv, Addresses
<1>2. /\ links' = links \ {l} /\ UNCHANGED <<staff, events, work, changes, errors, left, raced>>
  BY DEF ConfirmLink, DropLink, UseLink
<1>3. /\ AccountsInv' /\ LinksInv'
      /\ \A b \in Addresses : row[b].role # "absent" => row'[b].role # "absent"
  <2>1. CASE ConfirmLink(l)
    <3>1. PICK p, a : p = l.person /\ a = l.address
      OBVIOUS
    <3>2. row' = IF Free(p, a) THEN [row EXCEPT ![a].open = p] ELSE row
      BY <2>1, <3>1 DEF ConfirmLink
    <3> QED BY <1>1, <1>2, <3>1, <3>2, Linked
  <2>2. CASE DropLink(l)
    BY <1>2, <2>2 DEF DropLink, DirectoryInv, AccountsInv, LinksInv, Known, Excused
  <2> QED BY <2>1, <2>2
<1>4. EventsInv'
  BY <1>2 DEF DirectoryInv, EventsInv, Known
<1>5. ASSUME NEW w \in Workers, work[w] # NoWork PROVE WorkOK(work[w])'
  <2>1. PICK k : k = work[w] /\ work'[w] = k
    BY <1>2
  <2>2. k \in Work /\ WorkOK(k)
    BY <1>5, <2>1 DEF DirectoryInv, WorkInv
  <2>3. k.at \in {"update", "role"} => k.address \in Addresses
    BY <2>2, AddressOf DEF WorkOK, DirectoryInv, Known
  <2> QED BY <1>2, <1>3, <2>1, <2>2, <2>3 DEF WorkOK, Known, Excused
<1>6. WorkInv'
  BY <1>2, <1>5 DEF DirectoryInv, WorkInv
<1> QED BY <1>2, <1>3, <1>4, <1>6 DEF DirectoryInv

\* A role is written; of somebody resigned there is an excuse.
LEMMA RoleWritten ==
  ASSUME DirectoryInv, NEW a \in Addresses, NEW role \in {"employee", "resigned"},
         role = "resigned" => Excused(a), row' = [row EXCEPT ![a].role = role],
         row[a].role # "absent" \/ role = "resigned",
         UNCHANGED <<staff, left, raced, links>>
  PROVE  /\ AccountsInv' /\ LinksInv'
         /\ \A b \in Addresses : row[b].role # "absent" => row'[b].role # "absent"
<1>1. PICK r : r = [row[a] EXCEPT !.role = role]
  OBVIOUS
<1>2. r \in Account /\ r.open = row[a].open /\ r.role = role /\ row' = [row EXCEPT ![a] = r]
  BY <1>1 DEF DirectoryInv, AccountsInv, Account
<1>3. row' \in [Addresses -> Account] /\ row'[a] = r /\ \A b \in Addresses : b # a => row'[b] = row[b]
  BY <1>2 DEF DirectoryInv, AccountsInv
<1>4. \A b \in Addresses : row'[b].open = row[b].open /\ (row[b].role # "absent" => row'[b].role # "absent")
  BY <1>2, <1>3
<1>5. \A b \in Addresses : row'[b].role = "resigned" => Excused(b)'
  BY <1>2, <1>3 DEF DirectoryInv, AccountsInv, Excused
<1>6. AccountsInv'
  <2>1. \A b \in Addresses : row'[b].role = "absent" => row'[b].open = NoPerson
    BY <1>4 DEF DirectoryInv, AccountsInv
  <2>2. \A b, c \in Addresses : row'[b].open = row'[c].open => b = c \/ row'[b].open = NoPerson
    BY <1>4 DEF DirectoryInv, AccountsInv
  <2>3. \A b \in Addresses : row'[b].open # NoPerson => row'[b].open \in Known' /\ Owns(row'[b].open, b)
    BY <1>4 DEF DirectoryInv, AccountsInv, Known
  <2> QED BY <1>3, <1>5, <2>1, <2>2, <2>3 DEF AccountsInv
<1>7. LinksInv'
  BY <1>4 DEF DirectoryInv, LinksInv, Known, Addresses
<1> QED BY <1>4, <1>6, <1>7

LEMMA InsertAccountKeeps == ASSUME DirectoryInv, NEW w \in Workers, InsertAccount(w) PROVE DirectoryInv'
<1> DEFINE p == work[w].person
           a == work[w].address
           fits == Free(p, a) /\ row[a].role = "absent"
<1>1. /\ work[w] \in Work /\ WorkOK(work[w]) /\ work[w] # NoWork /\ work[w].at = "insert"
      /\ p \in Known /\ p \in People /\ Owns(p, a) /\ UNCHANGED <<links, errors>> /\ errors' \in 0 .. MaxErrors
  BY DEF InsertAccount, Doing, DirectoryInv, WorkInv, WorkOK, Known
<1>2. a \in Addresses
  BY <1>1, AddressOf
<1>3. CASE ~fits
  <2>1. Finish(w) /\ row' = row
    BY <1>3 DEF InsertAccount
  <2> QED BY <1>1, <2>1, DirectoryFinishSame
<1>4. CASE fits
  <2>1. PICK r, k : r = [open |-> p, role |-> "none"] /\ k = [work[w] EXCEPT !.at = "role"]
    OBVIOUS
  <2>2. /\ row' = [row EXCEPT ![a] = r] /\ Working(w, k) /\ UNCHANGED <<staff, left, raced, events, changes>>
    BY <1>4, <2>1 DEF InsertAccount, Working
  <2>3. r \in Account /\ r.open = p /\ r.role = "none"
    BY <1>1, <2>1 DEF Account
  <2>4. k \in Work /\ k.at = "role" /\ k.address = a /\ k.person = p /\ k.kind = work[w].kind
        /\ k.todo = work[w].todo /\ k.seen = work[w].seen
    BY <1>1, <2>1 DEF Work
  <2>5. \A b \in Addresses : b # a => row[b].open # p
    BY <1>4 DEF Free, AccountsOf
  <2>6. row' \in [Addresses -> Account] /\ row'[a] = r /\ \A b \in Addresses : b # a => row'[b] = row[b]
    BY <1>2, <2>2, <2>3 DEF DirectoryInv, AccountsInv
  <2> HIDE DEF p, a
  <2>7. AccountsInv'
    <3>1. \A b, c \in Addresses : row'[b].open = row'[c].open => b = c \/ row'[b].open = NoPerson
      BY <2>3, <2>5, <2>6 DEF DirectoryInv, AccountsInv
    <3>2. \A b \in Addresses : row'[b].role = "absent" => row'[b].open = NoPerson
      BY <2>3, <2>6 DEF DirectoryInv, AccountsInv
    <3>3. \A b \in Addresses : row'[b].open # NoPerson => row'[b].open \in Known' /\ Owns(row'[b].open, b)
      BY <1>1, <2>2, <2>3, <2>6 DEF DirectoryInv, AccountsInv, Known
    <3>4. \A b \in Addresses : row'[b].role = "resigned" => Excused(b)'
      BY <2>2, <2>3, <2>6 DEF DirectoryInv, AccountsInv, Excused
    <3> QED BY <2>6, <3>1, <3>2, <3>3, <3>4 DEF AccountsInv
  <2>8. \A b \in Addresses : row[b].role # "absent" => row'[b].role # "absent"
    BY <2>3, <2>6
  <2>9. LinksInv'
    BY <1>1, <2>2, <2>8 DEF DirectoryInv, LinksInv, Known, Addresses
  <2>10. WorkOK(k)'
    BY <1>1, <1>2, <2>2, <2>3, <2>4, <2>6 DEF WorkOK, Known, Excused, p, a
  <2> QED BY <1>1, <2>2, <2>4, <2>7, <2>8, <2>9, <2>10, DirectoryFrame
<1> QED BY <1>3, <1>4

LEMMA GiveRoleKeeps == ASSUME DirectoryInv, NEW w \in Workers, GiveRole(w) PROVE DirectoryInv'
<1> DEFINE a == work[w].address
<1>1. /\ work[w] \in Work /\ WorkOK(work[w]) /\ work[w] # NoWork /\ work[w].at = "role"
      /\ work[w].person \in People /\ Owns(work[w].person, a) /\ row[a].role # "absent"
      /\ UNCHANGED <<links, errors, staff, left, raced>> /\ errors' \in 0 .. MaxErrors /\ Finish(w)
  BY DEF GiveRole, Doing, DirectoryInv, WorkInv, WorkOK, Known, Finish, Working
<1>2. a \in Addresses
  BY <1>1, AddressOf
<1>3. CASE row' = row
  BY <1>1, <1>3, DirectoryFinishSame
<1>4. CASE row' = [row EXCEPT ![a].role = "employee"]
  <2>1. PICK b : b = a
    OBVIOUS
  <2>2. /\ AccountsInv' /\ LinksInv'
        /\ \A c \in Addresses : row[c].role # "absent" => row'[c].role # "absent"
    BY <1>1, <1>2, <1>4, <2>1, RoleWritten
  <2> QED BY <1>1, <2>2, DirectoryFinish
<1> QED BY <1>3, <1>4 DEF GiveRole

\* Whoever a sync has not seen is not on the staff, or joined since it began.
LEMMA FindUnseenKeeps == ASSUME DirectoryInv, NEW w \in Workers, FindUnseen(w) PROVE DirectoryInv'
<1>1. /\ work[w] \in Work /\ WorkOK(work[w]) /\ work[w].at = "next" /\ work[w].kind = "sync"
      /\ work[w].todo = {} /\ UNCHANGED <<row, links, errors>> /\ errors' \in 0 .. MaxErrors
  BY DEF FindUnseen, Doing, DirectoryInv, WorkInv, WorkOK
<1>2. PICK k, out : /\ out = Unseen(work[w].seen)
                    /\ k = [work[w] EXCEPT !.at = "resign", !.seen = {}, !.out = out] /\ Working(w, k)
  BY DEF FindUnseen
<1>3. staff \subseteq work[w].seen \cup raced
  BY <1>1 DEF WorkOK
<1>4. out \subseteq Addresses /\ \A a \in out : Excused(a)
  BY <1>2, <1>3 DEF Unseen, DirectoryInv, AccountsInv, Known, Owns, Excused
<1>5. k \in Work /\ k.at = "resign" /\ k.kind = "sync" /\ k.todo = {} /\ k.out = out
  BY <1>1, <1>2, <1>4 DEF Work
<1>6. WorkOK(k)
  BY <1>4, <1>5 DEF WorkOK
<1> QED BY <1>1, <1>2, <1>5, <1>6, DirectoryWork

LEMMA ResignKeeps == ASSUME DirectoryInv, NEW w \in Workers, Resign(w) PROVE DirectoryInv'
<1>1. /\ work[w] \in Work /\ WorkOK(work[w]) /\ work[w].at = "resign"
      /\ UNCHANGED <<links, errors>> /\ errors' \in 0 .. MaxErrors
  BY DEF Resign, Doing, DirectoryInv, WorkInv
<1>8. PICK a \in work[w].out :
        /\ row' = [row EXCEPT ![a].role = "resigned"]
        /\ Working(w, [work[w] EXCEPT !.out = @ \ {a}])
  BY DEF Resign
<1>2. PICK k :
        /\ row' = [row EXCEPT ![a].role = "resigned"]
        /\ k = [work[w] EXCEPT !.out = @ \ {a}] /\ Working(w, k)
  BY <1>8
<1>3. a \in Addresses /\ Excused(a)
  BY <1>1 DEF Work, WorkOK
<1>4. k \in Work /\ k.at = "resign" /\ k.kind = work[w].kind /\ k.person = work[w].person
      /\ k.todo = work[w].todo /\ k.out \subseteq work[w].out /\ k.address = work[w].address
  BY <1>1, <1>2 DEF Work
<1>5. UNCHANGED <<staff, left, raced>>
  BY <1>2 DEF Working
<1>6. /\ AccountsInv' /\ LinksInv'
      /\ \A c \in Addresses : row[c].role # "absent" => row'[c].role # "absent"
  BY <1>1, <1>2, <1>3, <1>5, RoleWritten
<1>7. WorkOK(k)'
  BY <1>1, <1>4, <1>5 DEF WorkOK, Known, Excused
<1> QED BY <1>1, <1>2, <1>4, <1>6, <1>7, DirectoryFrame

LEMMA FailWorkKeeps == ASSUME DirectoryInv, NEW w \in Workers, FailWork(w) PROVE DirectoryInv'
<1>1. /\ work[w] # NoWork /\ UNCHANGED <<row, links>> /\ errors' \in 0 .. MaxErrors
      /\ Working(w, NoWork) \/ Finish(w)
  BY DirectoryAssumption DEF FailWork, DirectoryInv
<1> QED BY <1>1, DirectoryWork, DirectoryFinishSame

LEMMA DirectoryStep == ASSUME DirectoryInv, [DirectoryNext]_directoryVars PROVE DirectoryInv'
<1>1. ASSUME NEW w \in Workers, AllResigned(w) PROVE DirectoryInv'
  BY <1>1, DirectoryFinishSame DEF AllResigned, Doing, DirectoryInv
<1>2. CASE UNCHANGED directoryVars
  BY <1>2 DEF directoryVars, DirectoryInv, AccountsInv, LinksInv, EventsInv, WorkInv, WorkOK, Known, Excused
<1> QED
  BY <1>1, <1>2, StaffKeeps, StartKeeps, NextPersonKeeps, FindByOpenIdKeeps, FindByMailKeeps, UpdateAccountKeeps,
     InsertAccountKeeps, GiveRoleKeeps, FindUnseenKeeps, ResignKeeps, FailWorkKeeps, UseLinkKeeps
  DEF DirectoryNext

\* Syncs, webhooks late or again, logins and links, with people coming and going and
\* queries failing all the while: nobody is marked resigned without an excuse, no person
\* has two accounts.
THEOREM NobodyResignedForNothing == DirectorySpec => [](DirectoryTypeOK /\ ResignedLeft)
BY DirectoryInitInv, DirectoryStep, DirectoryInvMeans, PTL DEF DirectorySpec

-----------------------------------------------------------------------------
(* SkillRegistry.  As long as a request is not crossed, the row is the one  *)
(* it has read or saved last, and the version it is about to note is above  *)
(* those noted before.  Of two requests that have both registered and are   *)
(* both under way, one is crossed.                                          *)

HasRegistered(x) == visit[x] # NoVisit /\ visit[x].at \in {"registered", "submitted", "looked", "again"}

SkillRowsInv ==
  /\ skill \in AnySkill \cup {NoSkill}
  /\ written \in [Explorations -> Nat]
  /\ visit \in [Explorations -> Visit \cup {NoVisit}]
  /\ crossed \subseteq begun /\ begun \subseteq Explorations
  /\ \A x \in Explorations : visit[x] # NoVisit \/ written[x] # 0 => x \in begun

VisitInv(x) ==
  /\ HasRegistered(x) => skill # NoSkill
  /\ IsAt(x, "registered") => visit[x].row # NoSkill
  /\ IsAt(x, "submitted") \/ IsAt(x, "looked") \/ IsAt(x, "again") => written[x] # 0
  /\ IsAt(x, "called") \/ IsAt(x, "found") => visit[x].seen = x
  /\ x \notin crossed /\ visit[x] # NoVisit =>
       /\ ~IsAt(x, "called") => visit[x].row = skill
       /\ HasRegistered(x) => skill.content = x
       /\ IsAt(x, "looked") \/ IsAt(x, "again") => visit[x].seen = x
       /\ IsAt(x, "registered") => \A y \in Explorations \ crossed : y # x => written[y] < skill.version

VersionsInv ==
  /\ \A x, y \in Explorations : x # y /\ HasRegistered(x) /\ HasRegistered(y) => x \in crossed \/ y \in crossed
  /\ \A x \in Explorations \ crossed : written[x] # 0 => skill # NoSkill /\ written[x] <= skill.version

SkillInv ==
  /\ SkillRowsInv
  /\ \A x \in Explorations : VisitInv(x)
  /\ VersionsInv
  /\ SkillTraced

LEMMA SkillInitInv == ASSUME SkillInit PROVE SkillInv
BY NothingAssumption
DEF SkillInit, SkillInv, SkillRowsInv, VisitInv, VersionsInv, SkillTraced, HasRegistered, IsAt

\* What a request makes of its visit.
LEMMA Visited ==
  ASSUME NEW k \in Visit, NEW at \in At, NEW held \in AnySkill \cup {NoSkill}, NEW seen \in Explorations, NEW next,
         next = [k EXCEPT !.at = at, !.row = held, !.seen = seen]
  PROVE  next \in Visit /\ next.at = at /\ next.row = held /\ next.seen = seen
BY DEF Visit

\* A save puts every other request that is under way in doubt, and if the row was not the
\* one that was read, every request there has been.
LEMMA SavedOver ==
  ASSUME SkillInv, NEW x \in Explorations, visit[x] # NoVisit, crossed' = crossed \cup Disturbed(x)
  PROVE  /\ crossed' \subseteq begun
         /\ \A y \in Explorations \ crossed' : y # x => visit[y] = NoVisit \/ IsAt(y, "called")
         /\ skill # visit[x].row => crossed' = begun
BY DEF SkillInv, SkillRowsInv, Disturbed, IsAt

LEMMA Saved ==
  ASSUME SkillInv, NEW x \in Explorations, visit[x] # NoVisit, crossed' = crossed \cup Disturbed(x),
         NEW latest \in Explorations \cup {Placeholder}, skill' = Registered(x, latest)
  PROVE  /\ skill' \in AnySkill /\ skill'.content = visit[x].seen /\ skill'.latest = latest
         /\ \A y \in Explorations \ crossed' : written[y] < skill'.version
<1>1. visit[x].row \in AnySkill \cup {NoSkill} /\ visit[x].seen \in Explorations
  BY DEF SkillInv, SkillRowsInv, Visit
<1>2. PICK version : version = NextVersion(visit[x].row)
  OBVIOUS
<1>3. /\ version \in Nat \ {0}
      /\ visit[x].row # NoSkill => visit[x].row.version \in Nat /\ visit[x].row.version < version
  BY <1>1, <1>2 DEF NextVersion, AnySkill
<1>4. skill' = [version |-> version, content |-> visit[x].seen, latest |-> latest]
  BY <1>2 DEF Registered
<1>5. skill' \in AnySkill /\ skill'.content = visit[x].seen /\ skill'.latest = latest /\ skill'.version = version
  BY <1>1, <1>3, <1>4 DEF AnySkill
<1>6. ASSUME NEW y \in Explorations \ crossed' PROVE written[y] < version
  <2>1. written[y] \in Nat /\ y \notin crossed /\ (written[y] # 0 => y \in begun)
    BY <1>6 DEF SkillInv, SkillRowsInv
  <2>2. CASE written[y] = 0
    BY <1>3, <2>2
  <2>3. CASE written[y] # 0
    <3>1. skill = visit[x].row
      BY <2>1, <2>3, SavedOver
    <3>2. skill # NoSkill /\ written[y] <= skill.version
      BY <2>1, <2>3 DEF SkillInv, VersionsInv
    <3> QED BY <1>3, <2>1, <3>1, <3>2
  <2> QED BY <2>2, <2>3
<1> QED BY <1>5, <1>6

LEMMA RegisterFirstKeeps == ASSUME SkillInv, NEW x \in Explorations, RegisterFirst(x) PROVE SkillInv'
<1>1. /\ visit[x] \in Visit /\ visit[x] # NoVisit /\ visit[x].at = "found" /\ visit[x].seen = x /\ x \in begun
      /\ UNCHANGED <<written, begun, lapses>>
  BY DEF RegisterFirst, IsAt, SkillInv, SkillRowsInv, VisitInv
<1>2. CASE visit' = [visit EXCEPT ![x] = NoVisit] /\ UNCHANGED <<skill, crossed>>
  BY <1>1, <1>2 DEF SkillInv, SkillRowsInv, VisitInv, VersionsInv, SkillTraced, HasRegistered, IsAt
<1>3. CASE /\ skill' = Registered(x, Placeholder) /\ crossed' = crossed \cup Disturbed(x)
           /\ visit' = [visit EXCEPT ![x].at = "registered", ![x].row = skill']
  <2>1. /\ skill' \in AnySkill /\ skill'.content = x /\ skill'.latest = Placeholder
        /\ \A y \in Explorations \ crossed' : written[y] < skill'.version
    BY <1>1, <1>3, Saved
  <2>2. /\ crossed' \subseteq begun /\ crossed \subseteq crossed'
        /\ \A y \in Explorations \ crossed' : y # x => visit[y] = NoVisit \/ IsAt(y, "called")
    BY <1>1, <1>3, SavedOver
  <2>3. PICK next, r : r = skill' /\ next = [visit[x] EXCEPT !.at = "registered", !.row = r]
    OBVIOUS
  <2>4. next \in Visit /\ next # NoVisit /\ next.at = "registered" /\ next.row = skill' /\ next.seen = x
    BY <1>1, <2>1, <2>3, NothingAssumption DEF Visit, At
  <2>5. /\ visit' \in [Explorations -> Visit \cup {NoVisit}] /\ visit'[x] = next
        /\ \A y \in Explorations : y # x => visit'[y] = visit[y]
    BY <1>3, <2>3, <2>4 DEF SkillInv, SkillRowsInv
  <2>6. skill' # NoSkill
    BY <2>1, NothingAssumption
  <2>7. SkillRowsInv'
    BY <1>1, <2>1, <2>2, <2>5 DEF SkillInv, SkillRowsInv
  <2>8. VisitInv(x)'
    BY <1>1, <2>1, <2>4, <2>5, <2>6 DEF VisitInv, HasRegistered, IsAt
  <2>9. ASSUME NEW y \in Explorations, y # x PROVE VisitInv(y)'
    BY <1>1, <2>2, <2>5, <2>6, <2>9 DEF SkillInv, VisitInv, HasRegistered, IsAt
  <2>10. VersionsInv'
    <3>1. \A y \in Explorations \ crossed' : written[y] <= skill'.version
      BY <2>1 DEF SkillInv, SkillRowsInv, AnySkill
    <3>2. \A y \in Explorations : y # x /\ HasRegistered(y)' => y \in crossed'
      BY <2>2, <2>5 DEF HasRegistered, IsAt
    <3> QED BY <1>1, <2>2, <2>6, <3>1, <3>2 DEF VersionsInv
  <2>11. SkillTraced'
    BY <1>1, <2>1, <2>2 DEF SkillInv, SkillTraced
  <2> QED BY <2>7, <2>8, <2>9, <2>10, <2>11 DEF SkillInv
<1> QED BY <1>2, <1>3 DEF RegisterFirst

LEMMA RegisterAgainKeeps == ASSUME SkillInv, NEW x \in Explorations, RegisterAgain(x) PROVE SkillInv'
<1>1. /\ visit[x] \in Visit /\ visit[x] # NoVisit /\ visit[x].at = "again" /\ x \in begun /\ written[x] # 0
      /\ x \notin crossed => visit[x].seen = x
      /\ UNCHANGED <<written, begun, lapses>>
      /\ skill' = Registered(x, x) /\ crossed' = crossed \cup Disturbed(x) /\ visit' = [visit EXCEPT ![x] = NoVisit]
  BY DEF RegisterAgain, IsAt, SkillInv, SkillRowsInv, VisitInv
<1>2. /\ skill' \in AnySkill /\ skill'.content = visit[x].seen /\ skill'.latest = x
      /\ \A y \in Explorations \ crossed' : written[y] < skill'.version
  BY <1>1, Saved
<1>3. /\ crossed' \subseteq begun /\ crossed \subseteq crossed'
      /\ \A y \in Explorations \ crossed' : y # x => visit[y] = NoVisit \/ IsAt(y, "called")
  BY <1>1, SavedOver
<1>4. /\ visit' \in [Explorations -> Visit \cup {NoVisit}] /\ visit'[x] = NoVisit
      /\ \A y \in Explorations : y # x => visit'[y] = visit[y]
  BY <1>1 DEF SkillInv, SkillRowsInv
<1>5. skill' # NoSkill
  BY <1>2, NothingAssumption
<1>6. SkillRowsInv'
  BY <1>1, <1>2, <1>3, <1>4 DEF SkillInv, SkillRowsInv
<1>7. ASSUME NEW y \in Explorations PROVE VisitInv(y)'
  BY <1>1, <1>3, <1>4, <1>5 DEF SkillInv, VisitInv, HasRegistered, IsAt
<1>8. VersionsInv'
  <2>1. \A y \in Explorations \ crossed' : written[y] <= skill'.version
    BY <1>2 DEF SkillInv, SkillRowsInv, AnySkill
  <2>2. \A y \in Explorations : HasRegistered(y)' => y \in crossed'
    BY <1>3, <1>4 DEF HasRegistered, IsAt
  <2> QED BY <1>1, <1>5, <2>1, <2>2 DEF VersionsInv
<1>9. SkillTraced'
  BY <1>1, <1>2, <1>3 DEF SkillInv, SkillTraced
<1> QED BY <1>6, <1>7, <1>8, <1>9 DEF SkillInv

LEMMA SaveSubmittedKeeps == ASSUME SkillInv, NEW x \in Explorations, SaveSubmitted(x) PROVE SkillInv'
<1>1. /\ visit[x] \in Visit /\ visit[x] # NoVisit /\ visit[x].at = "registered" /\ x \in begun /\ skill # NoSkill
      /\ visit[x].row # NoSkill /\ (x \notin crossed => visit[x].row = skill)
      /\ UNCHANGED <<skill, begun, lapses, crossed>>
      /\ visit' = [visit EXCEPT ![x].at = "submitted"]
  BY DEF SaveSubmitted, IsAt, HasRegistered, SkillInv, SkillRowsInv, VisitInv
<1>2. PICK v, next : v = visit[x].row.version /\ next = [visit[x] EXCEPT !.at = "submitted"]
  OBVIOUS
<1>3. v \in Nat \ {0} /\ written' = [written EXCEPT ![x] = v] /\ (x \notin crossed => v = skill.version)
  BY <1>1, <1>2 DEF SaveSubmitted, Visit, AnySkill
<1>4. next \in Visit /\ next # NoVisit /\ next.at = "submitted" /\ next.row = visit[x].row /\ next.seen = visit[x].seen
  BY <1>1, <1>2, NothingAssumption DEF Visit, At
<1>5. /\ visit' \in [Explorations -> Visit \cup {NoVisit}] /\ visit'[x] = next
      /\ \A y \in Explorations : y # x => visit'[y] = visit[y]
  BY <1>1, <1>2, <1>4 DEF SkillInv, SkillRowsInv
<1>6. /\ written' \in [Explorations -> Nat] /\ written'[x] = v
      /\ \A y \in Explorations : y # x => written'[y] = written[y]
  BY <1>3 DEF SkillInv, SkillRowsInv
<1>7. SkillRowsInv'
  BY <1>1, <1>5, <1>6 DEF SkillInv, SkillRowsInv
<1>8. HasRegistered(x) /\ VisitInv(x)
  BY <1>1 DEF HasRegistered, SkillInv
<1>9. VisitInv(x)'
  BY <1>1, <1>3, <1>4, <1>5, <1>6, <1>8 DEF VisitInv, HasRegistered, IsAt
<1>10. ASSUME NEW y \in Explorations, y # x PROVE VisitInv(y)'
  <2>1. VisitInv(y) /\ (HasRegistered(y) => x \in crossed \/ y \in crossed)
    BY <1>8, <1>10 DEF SkillInv, VersionsInv
  <2>2. visit'[y] = visit[y] /\ written'[y] = written[y] /\ (HasRegistered(y)' <=> HasRegistered(y))
    BY <1>5, <1>6, <1>10 DEF HasRegistered
  <2>3. y \notin crossed /\ IsAt(y, "registered") =>
          \A z \in Explorations \ crossed : z # y => written'[z] < skill.version
    BY <1>6, <2>1 DEF VisitInv, IsAt, HasRegistered
  <2> QED BY <1>1, <2>1, <2>2, <2>3 DEF VisitInv, IsAt
<1>11. VersionsInv'
  <2>1. \A y \in Explorations : HasRegistered(y)' => HasRegistered(y)
    BY <1>5, <1>8 DEF HasRegistered
  <2>2. \A y \in Explorations \ crossed : written'[y] # 0 => skill # NoSkill /\ written'[y] <= skill.version
    BY <1>1, <1>3, <1>6 DEF SkillInv, VersionsInv
  <2> QED BY <1>1, <2>1, <2>2 DEF SkillInv, VersionsInv
<1>12. SkillTraced'
  <2>1. skill.latest # Placeholder => written'[skill.latest] # 0
    BY <1>1, <1>3, <1>6 DEF SkillInv, SkillTraced, SkillRowsInv, AnySkill
  <2>2. x \notin crossed => \A y \in Explorations \ crossed : y # x => written'[y] < skill.version
    BY <1>1, <1>6, <1>8 DEF VisitInv, IsAt
  <2>3. x \notin crossed => \A y \in Explorations \ crossed : y # x => written'[y] # written'[x]
    BY <1>3, <1>6, <2>2
  <2>4. \A y, z \in Explorations \ crossed : y # z /\ written'[y] # 0 => written'[y] # written'[z]
    BY <1>6, <2>3 DEF SkillInv, SkillTraced
  <2> QED BY <1>1, <2>1, <2>4 DEF SkillInv, SkillTraced
<1> QED BY <1>7, <1>9, <1>10, <1>11, <1>12 DEF SkillInv

\* Steps that save nothing.
LEMMA LookKeeps ==
  ASSUME SkillInv, NEW x \in Explorations, Explore(x) \/ FindFirst(x) \/ LookAtSkill(x) \/ FindAgain(x) \/ Lapse(x)
  PROVE  SkillInv'
<1>1. /\ UNCHANGED <<skill, written, crossed>> /\ begun \subseteq begun' /\ begun' \subseteq Explorations
      /\ visit \in [Explorations -> Visit \cup {NoVisit}]
  BY DEF Explore, FindFirst, LookAtSkill, FindAgain, FindByName, Lapse, SkillInv, SkillRowsInv
<1>2. PICK next : /\ visit' = [visit EXCEPT ![x] = next] /\ next \in Visit \cup {NoVisit}
                  /\ next # NoVisit => x \in begun' /\
                       \/ next.at = "called" /\ next.seen = x
                       \/ /\ visit[x] # NoVisit /\ visit[x].at = "called" /\ next.at = "found"
                          /\ next.seen = visit[x].seen /\ next.row = skill
                       \/ /\ visit[x] # NoVisit /\ visit[x].at = "submitted" /\ next.at = "looked"
                          /\ next.seen = skill.content /\ next.row = visit[x].row
                       \/ /\ visit[x] # NoVisit /\ visit[x].at = "looked" /\ next.at = "again"
                          /\ next.seen = visit[x].seen /\ next.row = skill
  <2>1. visit[x] # NoVisit => visit[x] \in Visit /\ x \in begun
    BY DEF SkillInv, SkillRowsInv
  <2>2. CASE Explore(x)
    <3>1. PICK k : k = [at |-> "called", row |-> NoSkill, seen |-> x]
      OBVIOUS
    <3>2. k \in Visit /\ k.at = "called" /\ k.seen = x
      BY <3>1 DEF Visit, At
    <3> QED BY <2>2, <3>1, <3>2 DEF Explore
  <2>3. CASE FindFirst(x)
    <3>1. PICK k : k = [visit[x] EXCEPT !.at = "found", !.row = skill]
      OBVIOUS
    <3>2. visit' = [visit EXCEPT ![x] = k] /\ visit[x] # NoVisit /\ visit[x].at = "called" /\ UNCHANGED begun
      BY <1>1, <2>3, <3>1 DEF FindFirst, FindByName, IsAt
    <3>3. k \in Visit /\ k.at = "found" /\ k.seen = visit[x].seen /\ k.row = skill
      BY <2>1, <3>1, <3>2 DEF Visit, At, SkillInv, SkillRowsInv
    <3> QED BY <2>1, <3>2, <3>3
  <2>4. CASE FindAgain(x)
    <3>1. PICK k : k = [visit[x] EXCEPT !.at = "again", !.row = skill]
      OBVIOUS
    <3>2. visit' = [visit EXCEPT ![x] = k] /\ visit[x] # NoVisit /\ visit[x].at = "looked" /\ UNCHANGED begun
      BY <1>1, <2>4, <3>1 DEF FindAgain, FindByName, IsAt
    <3>3. k \in Visit /\ k.at = "again" /\ k.seen = visit[x].seen /\ k.row = skill
      BY <2>1, <3>1, <3>2 DEF Visit, At, SkillInv, SkillRowsInv
    <3> QED BY <2>1, <3>2, <3>3
  <2>5. CASE LookAtSkill(x)
    <3>1. PICK k, seen : seen = skill.content /\ k = [visit[x] EXCEPT !.at = "looked", !.seen = seen]
      OBVIOUS
    <3>2. visit' = [visit EXCEPT ![x] = k] /\ visit[x] # NoVisit /\ visit[x].at = "submitted" /\ UNCHANGED begun
      BY <1>1, <2>5, <3>1 DEF LookAtSkill, IsAt
    <3>3. seen \in Explorations
      BY <3>1, <3>2 DEF SkillInv, SkillRowsInv, VisitInv, HasRegistered, AnySkill
    <3>4. k \in Visit /\ k.at = "looked" /\ k.seen = skill.content /\ k.row = visit[x].row
      BY <2>1, <3>1, <3>2, <3>3 DEF Visit, At
    <3> QED BY <2>1, <3>2, <3>4
  <2>6. CASE Lapse(x)
    BY <2>6 DEF Lapse
  <2> QED BY <2>2, <2>3, <2>4, <2>5, <2>6
<1>3. /\ visit' \in [Explorations -> Visit \cup {NoVisit}] /\ visit'[x] = next
      /\ \A y \in Explorations : y # x => visit'[y] = visit[y]
  BY <1>1, <1>2
<1>4. SkillRowsInv'
  BY <1>1, <1>2, <1>3 DEF SkillInv, SkillRowsInv
<1>5. VisitInv(x)'
  <2>1. VisitInv(x)
    BY DEF SkillInv
  <2> QED BY <1>1, <1>2, <1>3, <2>1 DEF VisitInv, HasRegistered, IsAt
<1>6. ASSUME NEW y \in Explorations, y # x PROVE VisitInv(y)'
  BY <1>1, <1>3, <1>6 DEF SkillInv, VisitInv, HasRegistered, IsAt
<1>7. VersionsInv'
  <2>1. \A y \in Explorations : HasRegistered(y)' => HasRegistered(y)
    BY <1>2, <1>3 DEF HasRegistered
  <2> QED BY <1>1, <2>1 DEF SkillInv, VersionsInv
<1> QED BY <1>1, <1>4, <1>5, <1>6, <1>7 DEF SkillInv, SkillTraced

LEMMA SkillStep == ASSUME SkillInv, [SkillNext]_skillVars PROVE SkillInv'
<1>1. CASE UNCHANGED skillVars
  BY <1>1 DEF skillVars, SkillInv, SkillRowsInv, VisitInv, VersionsInv, SkillTraced, HasRegistered, IsAt
<1> QED BY <1>1, RegisterFirstKeeps, RegisterAgainKeeps, SaveSubmittedKeeps, LookKeeps DEF SkillNext

\* However many requests register one skill at a time, fail or crash: the row names a
\* submission that exists, and shows its content unless another request cut in;
\* submissions that nobody cut into have versions of their own.
THEOREM SkillsAreTraced == SkillSpec => []SkillTraced
<1>1. SkillInv => SkillTraced
  BY DEF SkillInv
<1> QED BY <1>1, SkillInitInv, SkillStep, PTL DEF SkillSpec

-----------------------------------------------------------------------------
(* Versions of a skill: a request saves the r twice at most, so no r,   *)
(* kept, read or noted, has a higher version than there were saves.         *)

\* Requests that may have saved once, and those that may have saved twice.
SavedOnce  == {x \in begun : ~IsAt(x, "called") /\ ~IsAt(x, "found")}
SavedTwice == {x \in begun : visit[x] = NoVisit}
Saves      == Cardinality(SavedOnce) + Cardinality(SavedTwice)

VersionWithin(r, n) == r # NoSkill => r.version <= n

WithinInv(n) ==
  /\ VersionWithin(skill, n)
  /\ \A x \in Explorations : written[x] <= n
  /\ \A x \in Explorations : visit[x] # NoVisit => VersionWithin(visit[x].row, n)

SkillBoundInv ==
  /\ WithinInv(Saves)
  /\ lapses \in 0 .. MaxLapses
  /\ \A x \in Explorations : IsAt(x, "called") => visit[x].row = NoSkill

\* The saves never get fewer, and never more than two for each request.
LEMMA SavesBound ==
  ASSUME SkillInv
  PROVE  /\ IsFiniteSet(SavedOnce) /\ IsFiniteSet(SavedTwice)
         /\ Saves \in Nat /\ Saves <= 2 * Cardinality(Explorations)
<1>1. SavedOnce \subseteq Explorations /\ SavedTwice \subseteq Explorations
  BY DEF SavedOnce, SavedTwice, SkillInv, SkillRowsInv
<1>2. /\ IsFiniteSet(SavedOnce) /\ Cardinality(SavedOnce) <= Cardinality(Explorations)
      /\ IsFiniteSet(SavedTwice) /\ Cardinality(SavedTwice) <= Cardinality(Explorations)
  BY <1>1, SkillAssumption, FS_Subset
<1>3. Cardinality(SavedOnce) \in Nat /\ Cardinality(SavedTwice) \in Nat /\ Cardinality(Explorations) \in Nat
  BY <1>2, SkillAssumption, FS_CardinalityType
<1> QED BY <1>2, <1>3 DEF Saves

LEMMA MoreSaves ==
  ASSUME SkillInv, SkillInv', SavedOnce \subseteq SavedOnce', SavedTwice \subseteq SavedTwice'
  PROVE  /\ Saves <= Saves'
         /\ \A x : x \in SavedOnce' \ SavedOnce \/ x \in SavedTwice' \ SavedTwice => Saves < Saves'
<1>1. PICK S, T, U, V : S = SavedOnce /\ T = SavedTwice /\ U = SavedOnce' /\ V = SavedTwice'
  OBVIOUS
<1>2. IsFiniteSet(S) /\ IsFiniteSet(T)
  BY <1>1, SavesBound
<1>3. IsFiniteSet(U) /\ IsFiniteSet(V)
  <2>1. SavedOnce' \subseteq Explorations /\ SavedTwice' \subseteq Explorations
    BY DEF SavedOnce, SavedTwice, SkillInv, SkillRowsInv
  <2> QED BY <1>1, <2>1, SkillAssumption, FS_Subset
<1>4. /\ Cardinality(S) \in Nat /\ Cardinality(T) \in Nat /\ Cardinality(U) \in Nat /\ Cardinality(V) \in Nat
      /\ Cardinality(S) <= Cardinality(U) /\ Cardinality(T) <= Cardinality(V)
      /\ Cardinality(S) = Cardinality(U) => S = U
      /\ Cardinality(T) = Cardinality(V) => T = V
  BY <1>1, <1>2, <1>3, FS_Subset, FS_CardinalityType
<1>5. Saves = Cardinality(S) + Cardinality(T) /\ Saves' = Cardinality(U) + Cardinality(V)
  BY <1>1 DEF Saves
<1>6. Saves <= Saves'
  BY <1>4, <1>5
<1>7. ASSUME S # U \/ T # V PROVE Saves < Saves'
  BY <1>4, <1>5, <1>7
<1> QED BY <1>1, <1>6, <1>7

LEMMA WithinMore ==
  ASSUME SkillInv, NEW n \in Nat, NEW m \in Nat, n <= m, WithinInv(n)
  PROVE  WithinInv(m)
<1>1. skill \in AnySkill \cup {NoSkill} /\ written \in [Explorations -> Nat]
  BY DEF SkillInv, SkillRowsInv
<1>2. ASSUME NEW r \in AnySkill \cup {NoSkill}, VersionWithin(r, n) PROVE VersionWithin(r, m)
  BY <1>2 DEF VersionWithin, AnySkill
<1>3. ASSUME NEW x \in Explorations, visit[x] # NoVisit PROVE visit[x].row \in AnySkill \cup {NoSkill}
  BY <1>3 DEF SkillInv, SkillRowsInv, Visit
<1> QED BY <1>1, <1>2, <1>3 DEF WithinInv

\* Saves that a step adds.
LEMMA StepSaves ==
  ASSUME SkillInv, NEW x \in Explorations, begun \subseteq begun',
         \A y \in Explorations : y # x => visit'[y] = visit[y],
         x \in SavedOnce => x \in SavedOnce', x \in SavedTwice => x \in SavedTwice'
  PROVE  SavedOnce \subseteq SavedOnce' /\ SavedTwice \subseteq SavedTwice'
BY DEF SavedOnce, SavedTwice, IsAt, SkillInv, SkillRowsInv

\* A save: the version is one above that of the r the request has read.
LEMMA SaveWithin ==
  ASSUME SkillInv, SkillInv', SkillBoundInv, NEW x \in Explorations, visit[x] # NoVisit,
         NEW latest \in Explorations \cup {Placeholder}, skill' = Registered(x, latest),
         NEW n \in Nat, Saves < n
  PROVE  VersionWithin(skill', n)
<1>1. visit[x].row \in AnySkill \cup {NoSkill} /\ VersionWithin(visit[x].row, Saves) /\ Saves \in Nat
  BY SavesBound DEF SkillInv, SkillRowsInv, Visit, SkillBoundInv, WithinInv
<1>2. PICK version : version = NextVersion(visit[x].row)
  OBVIOUS
<1>3. version \in Nat /\ version <= n
  BY <1>1, <1>2 DEF NextVersion, AnySkill, VersionWithin
<1>4. skill'.version = version
  BY <1>2 DEF Registered
<1> QED BY <1>3, <1>4 DEF VersionWithin

LEMMA SkillBoundInit == ASSUME SkillInit PROVE SkillBoundInv
<1>1. Saves \in Nat
  BY SavesBound, SkillInitInv
<1> QED BY <1>1, SkillAssumption DEF SkillInit, SkillBoundInv, WithinInv, VersionWithin, IsAt

LEMMA NextSaves == ASSUME SkillInv' PROVE Saves' \in Nat
<1>1. SavedOnce' \subseteq Explorations /\ SavedTwice' \subseteq Explorations
  BY DEF SavedOnce, SavedTwice, SkillInv, SkillRowsInv
<1>2. IsFiniteSet(SavedOnce') /\ IsFiniteSet(SavedTwice')
  BY <1>1, SkillAssumption, FS_Subset
<1>3. Cardinality(SavedOnce') \in Nat /\ Cardinality(SavedTwice') \in Nat
  BY <1>2, FS_CardinalityType
<1> QED BY <1>3 DEF Saves

LEMMA SkillWithinMore ==
  ASSUME SkillInv, SkillInv', VersionWithin(skill, Saves), skill' = skill, Saves <= Saves'
  PROVE  VersionWithin(skill', Saves')
<1>1. Saves \in Nat /\ Saves' \in Nat /\ skill \in AnySkill \cup {NoSkill}
  BY SavesBound, NextSaves DEF SkillInv, SkillRowsInv
<1> QED BY <1>1 DEF VersionWithin, AnySkill

\* One request moves on; the r it keeps is one that was within the bound.
LEMMA MovesWithin ==
  ASSUME SkillInv, SkillInv', SkillBoundInv, NEW x \in Explorations, NEW next,
         visit'[x] = next, \A y \in Explorations : y # x => visit'[y] = visit[y],
         SavedOnce \subseteq SavedOnce', SavedTwice \subseteq SavedTwice',
         VersionWithin(skill', Saves'),
         \A y \in Explorations : written'[y] <= Saves \/ written'[y] = written[y],
         next # NoVisit => VersionWithin(next.row, Saves) \/ VersionWithin(next.row, Saves'),
         next # NoVisit /\ next.at = "called" => next.row = NoSkill,
         lapses' \in 0 .. MaxLapses
  PROVE  SkillBoundInv'
<1>1. PICK n, m : n = Saves /\ m = Saves'
  OBVIOUS
<1>2. n \in Nat /\ m \in Nat /\ n <= m
  <2>1. n \in Nat
    BY <1>1, SavesBound
  <2>2. m \in Nat
    BY <1>1, NextSaves
  <2> QED BY <1>1, <2>1, <2>2, MoreSaves
<1>3. WithinInv(m)
  BY <1>1, <1>2, WithinMore DEF SkillBoundInv
<1>4. \A y \in Explorations : written'[y] <= m
  <2> SUFFICES ASSUME NEW y \in Explorations PROVE written'[y] <= m
    OBVIOUS
  <2>1. written'[y] \in Nat
    BY DEF SkillInv, SkillRowsInv
  <2> QED BY <1>1, <1>2, <1>3, <2>1 DEF WithinInv
<1>5. ASSUME NEW y \in Explorations, visit'[y] # NoVisit PROVE VersionWithin(visit'[y].row, m)
  <2>1. CASE y # x
    BY <1>3, <1>5, <2>1 DEF WithinInv
  <2>2. CASE y = x
    <3>1. next.row \in AnySkill \cup {NoSkill}
      BY <1>5, <2>2 DEF SkillInv, SkillRowsInv, Visit
    <3>2. PICK r : r = next.row
      OBVIOUS
    <3>3. VersionWithin(r, n) \/ VersionWithin(r, m)
      BY <1>1, <1>5, <2>2, <3>2
    <3>4. VersionWithin(r, m)
      BY <1>2, <3>1, <3>2, <3>3 DEF VersionWithin, AnySkill
    <3> QED BY <2>2, <3>2, <3>4
  <2> QED BY <2>1, <2>2
<1>6. \A y \in Explorations : IsAt(y, "called")' => visit'[y].row = NoSkill
  BY DEF SkillBoundInv, IsAt
<1> QED BY <1>1, <1>4, <1>5, <1>6 DEF SkillBoundInv, WithinInv

LEMMA SkillBoundStep ==
  ASSUME SkillInv, SkillInv', SkillBoundInv, [SkillNext]_skillVars PROVE SkillBoundInv'
<1> /\ \A x \in Explorations : visit[x] # NoVisit => visit[x] \in Visit /\ x \in begun
    /\ \A x \in Explorations : visit'[x] # NoVisit => visit'[x] \in Visit
    /\ visit \in [Explorations -> Visit \cup {NoVisit}]
    /\ Saves \in Nat /\ lapses \in 0 .. MaxLapses
    /\ begun \subseteq Explorations
  BY SavesBound DEF SkillInv, SkillRowsInv, SkillBoundInv
<1> VersionWithin(skill, Saves) /\ \A x \in Explorations : visit[x] # NoVisit => VersionWithin(visit[x].row, Saves)
  BY DEF SkillBoundInv, WithinInv
<1>1. CASE UNCHANGED skillVars
  <2>1. Saves' = Saves
    BY <1>1 DEF skillVars, Saves, SavedOnce, SavedTwice, IsAt
  <2> QED BY <1>1, <2>1 DEF skillVars, SkillBoundInv, WithinInv, VersionWithin, IsAt
<1>2. ASSUME NEW x \in Explorations, Explore(x) PROVE SkillBoundInv'
  <2>1. PICK next : next = [at |-> "called", row |-> NoSkill, seen |-> x]
    OBVIOUS
  <2>2. /\ x \notin begun /\ begun' = begun \cup {x} /\ UNCHANGED <<skill, written, lapses>>
        /\ visit'[x] = next /\ \A y \in Explorations : y # x => visit'[y] = visit[y]
        /\ next.at = "called" /\ next.row = NoSkill
    BY <1>2, <2>1 DEF Explore
  <2>3. SavedOnce \subseteq SavedOnce' /\ SavedTwice \subseteq SavedTwice'
    BY <2>2, StepSaves DEF SavedOnce, SavedTwice
  <2>4. VersionWithin(skill', Saves')
    BY <2>2, <2>3, MoreSaves, SkillWithinMore
  <2> QED BY <2>2, <2>3, <2>4, MovesWithin DEF VersionWithin
<1>3. ASSUME NEW x \in Explorations, FindFirst(x) \/ FindAgain(x) PROVE SkillBoundInv'
  <2>1. PICK from, to : /\ from \in {"called", "looked"} /\ to = (IF from = "called" THEN "found" ELSE "again")
                        /\ FindByName(x, from, to)
    BY <1>3 DEF FindFirst, FindAgain
  <2>2. PICK next : next = [visit[x] EXCEPT !.at = to, !.row = skill]
    OBVIOUS
  <2>3. /\ visit[x] # NoVisit /\ visit[x].at = from /\ UNCHANGED <<skill, written, begun, lapses>>
        /\ visit' = [visit EXCEPT ![x] = next]
    BY <2>1, <2>2 DEF FindByName, IsAt
  <2>4. visit'[x] = next /\ \A y \in Explorations : y # x => visit'[y] = visit[y]
    BY <2>3
  <2>5. next.at = to /\ next.row = skill /\ next # NoVisit
    <3>1. visit[x] \in Visit
      BY <2>3
    <3>2. next.at = to /\ next.row = skill
      BY <2>2, <3>1 DEF Visit
    <3>3. next \in Visit
      BY <2>1, <2>2, <3>1 DEF Visit, At, SkillInv, SkillRowsInv
    <3> QED BY <3>2, <3>3, NothingAssumption
  <2>6. SavedOnce \subseteq SavedOnce' /\ SavedTwice \subseteq SavedTwice'
    BY <2>1, <2>3, <2>4, <2>5, StepSaves DEF SavedOnce, SavedTwice, IsAt
  <2>7. VersionWithin(skill', Saves')
    BY <2>3, <2>6, MoreSaves, SkillWithinMore
  <2> QED BY <2>1, <2>3, <2>4, <2>5, <2>6, <2>7, MovesWithin
<1>4. ASSUME NEW x \in Explorations, LookAtSkill(x) PROVE SkillBoundInv'
  <2>1. PICK seen, next : seen = skill.content /\ next = [visit[x] EXCEPT !.at = "looked", !.seen = seen]
    OBVIOUS
  <2>2. /\ visit[x] # NoVisit /\ visit[x].at = "submitted" /\ UNCHANGED <<skill, written, begun, lapses>>
        /\ visit' = [visit EXCEPT ![x] = next]
    BY <1>4, <2>1 DEF LookAtSkill, IsAt
  <2>3. visit'[x] = next /\ \A y \in Explorations : y # x => visit'[y] = visit[y]
    BY <2>2
  <2>4. next.at = "looked" /\ next.row = visit[x].row
    BY <2>1, <2>2 DEF Visit
  <2>5. next # NoVisit
    <3>1. seen \in Explorations
      BY <2>1, <2>2 DEF SkillInv, SkillRowsInv, VisitInv, HasRegistered, AnySkill
    <3>2. PICK v : v = visit[x] /\ v \in Visit
      BY <2>2
    <3>3. next = [v EXCEPT !.at = "looked", !.seen = seen]
      BY <2>1, <3>2
    <3>4. next \in Visit
      BY <3>1, <3>2, <3>3 DEF Visit, At
    <3> QED BY <3>4, NothingAssumption
  <2>6. SavedOnce \subseteq SavedOnce' /\ SavedTwice \subseteq SavedTwice'
    BY <2>2, <2>3, <2>4, <2>5, StepSaves DEF SavedOnce, SavedTwice, IsAt
  <2>7. VersionWithin(skill', Saves')
    BY <2>2, <2>6, MoreSaves, SkillWithinMore
  <2> QED BY <2>2, <2>3, <2>4, <2>5, <2>6, <2>7, MovesWithin
<1>5. ASSUME NEW x \in Explorations, SaveSubmitted(x) PROVE SkillBoundInv'
  <2>1. PICK next : next = [visit[x] EXCEPT !.at = "submitted"]
    OBVIOUS
  <2>2. /\ visit[x] # NoVisit /\ visit[x].at = "registered" /\ UNCHANGED <<skill, begun, lapses>>
        /\ visit' = [visit EXCEPT ![x] = next] /\ written' = [written EXCEPT ![x] = visit[x].row.version]
    BY <1>5, <2>1 DEF SaveSubmitted, IsAt
  <2>3. visit'[x] = next /\ \A y \in Explorations : y # x => visit'[y] = visit[y]
    BY <2>2
  <2>4. next.at = "submitted" /\ next.row = visit[x].row /\ next # NoVisit
    <3>1. next \in Visit /\ next.at = "submitted" /\ next.row = visit[x].row
      BY <2>1, <2>2 DEF Visit, At
    <3> QED BY <3>1, NothingAssumption
  <2>5. SavedOnce \subseteq SavedOnce' /\ SavedTwice \subseteq SavedTwice'
    BY <2>2, <2>3, <2>4, StepSaves DEF SavedOnce, SavedTwice, IsAt
  <2>6. \A y \in Explorations : written'[y] <= Saves \/ written'[y] = written[y]
    <3>1. visit[x].row # NoSkill
      BY <2>2 DEF SkillInv, VisitInv, IsAt
    <3>2. visit[x].row.version <= Saves
      BY <2>2, <3>1 DEF VersionWithin
    <3> QED BY <2>2, <3>2 DEF SkillInv, SkillRowsInv
  <2>7. VersionWithin(skill', Saves')
    BY <2>2, <2>5, MoreSaves, SkillWithinMore
  <2> QED BY <2>2, <2>3, <2>4, <2>5, <2>6, <2>7, MovesWithin
<1>6. ASSUME NEW x \in Explorations, Lapse(x) PROVE SkillBoundInv'
  <2>1. /\ visit[x] # NoVisit /\ UNCHANGED <<skill, written, begun>> /\ lapses' \in 0 .. MaxLapses
        /\ visit'[x] = NoVisit /\ \A y \in Explorations : y # x => visit'[y] = visit[y]
    BY <1>6, SkillAssumption DEF Lapse
  <2>2. SavedOnce \subseteq SavedOnce' /\ SavedTwice \subseteq SavedTwice'
    BY <2>1, StepSaves DEF SavedOnce, SavedTwice, IsAt
  <2>3. VersionWithin(skill', Saves')
    BY <2>1, <2>2, MoreSaves, SkillWithinMore
  <2> QED BY <2>1, <2>2, <2>3, MovesWithin
<1>7. ASSUME NEW x \in Explorations, RegisterFirst(x) PROVE SkillBoundInv'
  <2>1. visit[x] # NoVisit /\ visit[x].at = "found" /\ x \in begun /\ UNCHANGED <<written, begun, lapses>>
    BY <1>7 DEF RegisterFirst, IsAt
  <2>2. x \notin SavedOnce
    BY <2>1 DEF SavedOnce, IsAt
  <2>3. CASE visit' = [visit EXCEPT ![x] = NoVisit] /\ UNCHANGED skill
    <3>1. visit'[x] = NoVisit /\ \A y \in Explorations : y # x => visit'[y] = visit[y]
      BY <2>3
    <3>2. SavedOnce \subseteq SavedOnce' /\ SavedTwice \subseteq SavedTwice'
      BY <2>1, <3>1, StepSaves DEF SavedOnce, SavedTwice, IsAt
    <3>3. VersionWithin(skill', Saves')
      BY <2>3, <3>2, MoreSaves, SkillWithinMore
    <3> QED BY <2>1, <3>1, <3>2, <3>3, MovesWithin
  <2>4. CASE skill' = Registered(x, Placeholder) /\ visit' = [visit EXCEPT ![x].at = "registered", ![x].row = skill']
    <3>1. PICK r, next : r = skill' /\ next = [visit[x] EXCEPT !.at = "registered", !.row = r]
      OBVIOUS
    <3>2. visit' = [visit EXCEPT ![x] = next]
      BY <2>1, <2>4, <3>1
    <3>3. visit'[x] = next /\ \A y \in Explorations : y # x => visit'[y] = visit[y]
      BY <3>2
    <3>4. next.at = "registered" /\ next.row = skill'
      BY <2>1, <3>1 DEF Visit
    <3>5. next # NoVisit
      <4>1. r \in AnySkill \cup {NoSkill}
        BY <3>1 DEF SkillInv, SkillRowsInv
      <4>2. next \in Visit
        BY <2>1, <3>1, <4>1 DEF Visit, At
      <4> QED BY <4>2, NothingAssumption
    <3>6. SavedOnce \subseteq SavedOnce' /\ SavedTwice \subseteq SavedTwice' /\ x \in SavedOnce' \ SavedOnce
      BY <2>1, <2>2, <3>3, <3>4, <3>5, StepSaves DEF SavedOnce, SavedTwice, IsAt
    <3>7. VersionWithin(skill', Saves')
      <4>1. PICK n : n = Saves'
        OBVIOUS
      <4>2. Saves < n /\ n \in Nat
        BY <3>6, <4>1, MoreSaves, NextSaves
      <4> QED BY <2>1, <2>4, <4>1, <4>2, SaveWithin
    <3> QED BY <2>1, <3>3, <3>4, <3>5, <3>6, <3>7, MovesWithin
  <2> QED BY <1>7, <2>3, <2>4 DEF RegisterFirst
<1>8. ASSUME NEW x \in Explorations, RegisterAgain(x) PROVE SkillBoundInv'
  <2>1. /\ visit[x] # NoVisit /\ x \in begun /\ UNCHANGED <<written, begun, lapses>> /\ skill' = Registered(x, x)
        /\ visit'[x] = NoVisit /\ \A y \in Explorations : y # x => visit'[y] = visit[y]
    BY <1>8 DEF RegisterAgain, IsAt
  <2>2. SavedOnce \subseteq SavedOnce' /\ SavedTwice \subseteq SavedTwice' /\ x \in SavedTwice' \ SavedTwice
    BY <2>1, StepSaves DEF SavedOnce, SavedTwice, IsAt
  <2>3. VersionWithin(skill', Saves')
    <3>1. PICK n : n = Saves'
      OBVIOUS
    <3>2. Saves < n /\ n \in Nat
      BY <2>2, <3>1, MoreSaves, NextSaves
    <3> QED BY <2>1, <3>1, <3>2, SaveWithin
  <2> QED BY <2>1, <2>2, <2>3, MovesWithin
<1> QED BY <1>1, <1>2, <1>3, <1>4, <1>5, <1>6, <1>7, <1>8 DEF SkillNext

\* The version of a skill counts its saves: however requests overwrite each other's, it is
\* never above two for each request there has been.
THEOREM SkillTypeCorrect == SkillSpec => []SkillTypeOK
<1>1. ASSUME SkillInv, SkillBoundInv PROVE SkillTypeOK
  <2>1. PICK n : n = 2 * Cardinality(Explorations)
    OBVIOUS
  <2>2. n \in Nat /\ Saves \in Nat /\ Saves <= n
    BY <1>1, <2>1, SavesBound, SkillAssumption, FS_CardinalityType
  <2>3. WithinInv(n)
    BY <1>1, <2>2, WithinMore DEF SkillBoundInv
  <2>4. ASSUME NEW r \in AnySkill \cup {NoSkill}, VersionWithin(r, n) PROVE r \in Skill \cup {NoSkill}
    BY <2>1, <2>2, <2>4 DEF VersionWithin, AnySkill, Skill
  <2>5. written \in [Explorations -> 0 .. n]
    BY <1>1, <2>2, <2>3 DEF SkillInv, SkillRowsInv, WithinInv
  <2>6. skill \in Skill \cup {NoSkill}
    BY <1>1, <2>3, <2>4 DEF SkillInv, SkillRowsInv, WithinInv
  <2>7. ASSUME NEW x \in Explorations, visit[x] # NoVisit
        PROVE  visit[x] \in [at : At, row : Skill \cup {NoSkill}, seen : Explorations]
    <3>1. visit[x] \in Visit /\ VersionWithin(visit[x].row, n)
      BY <1>1, <2>3, <2>7 DEF SkillInv, SkillRowsInv, WithinInv
    <3>2. PICK r : r = visit[x].row
      OBVIOUS
    <3>3. r \in Skill \cup {NoSkill}
      BY <2>4, <3>1, <3>2 DEF Visit
    <3> QED BY <3>1, <3>2, <3>3 DEF Visit
  <2>8. visit \in [Explorations -> [at : At, row : Skill \cup {NoSkill}, seen : Explorations] \cup {NoVisit}]
    BY <1>1, <2>7 DEF SkillInv, SkillRowsInv
  <2> QED BY <1>1, <2>1, <2>5, <2>6, <2>8 DEF SkillTypeOK, SkillInv, SkillRowsInv, SkillBoundInv
<1>2. SkillInit => SkillInv /\ SkillBoundInv
  BY SkillInitInv, SkillBoundInit
<1>3. SkillInv /\ SkillBoundInv /\ [SkillNext]_skillVars => SkillInv' /\ SkillBoundInv'
  BY SkillStep, SkillBoundStep
<1> QED BY <1>1, <1>2, <1>3, PTL DEF SkillSpec

-----------------------------------------------------------------------------
(* Conversation.  The turns after one that is kept are newer, in the row    *)
(* and in what every stream has read of it: whatever was read before the    *)
(* turn was saved belonged to a stream that is gone, since it was alone.    *)

Standing(k, turns) ==
  \/ \E i \in 1 .. Len(turns) : turns[i] = k[1] /\ \A j \in 1 .. Len(turns) : j > i => turns[j] > k[1]
  \/ Len(turns) = HistoryTurns /\ \A i \in 1 .. Len(turns) : turns[i] > k[1]

ChatTurns(turns) == turns \in Seq(1 .. MaxTurns) /\ Len(turns) <= HistoryTurns

StreamInv(s) ==
  stream[s] # NoStream =>
    /\ ChatTurns(stream[s].turns)
    /\ stream[s].kind = "ask" => stream[s].turn \in 1 .. asked /\ \A k \in kept : k[1] < stream[s].turn
    /\ stream[s].at = "create" => stream[s].kind = "ask"
    /\ stream[s].at \in {"find", "create"} => stream[s].turns = <<>>
    /\ stream[s].at = "model" => stream[s].kind = "ask"
    /\ stream[s].at \in {"model", "save"} =>
         /\ stream[s].of \in Chats /\ chat[stream[s].of] # NoChat
         /\ stream[s].kind = "ask" =>
              \A k \in kept : k[2] = stream[s].of => Standing(k, stream[s].turns)
    /\ stream[s].alone => Busy(s) = {}

ChatInv ==
  /\ ChatTypeOK
  /\ \A s \in Streams : StreamInv(s)
  /\ \A k \in kept : chat[k[2]] # NoChat /\ k[1] <= asked /\ Standing(k, chat[k[2]])

LEMMA ChatInitInv == ASSUME ChatInit PROVE ChatInv
BY ConversationAssumption, NoChatAssumption DEF ChatInit, ChatInv, ChatTypeOK, StreamInv

LEMMA ChatInvMeans == ASSUME ChatInv PROVE AnswerKept
<1> SUFFICES ASSUME NEW k \in kept
             PROVE  \/ \E i \in DOMAIN chat[k[2]] : chat[k[2]][i] = k[1]
                    \/ Len(chat[k[2]]) = HistoryTurns /\ \A i \in DOMAIN chat[k[2]] : chat[k[2]][i] > k[1]
  BY DEF AnswerKept
<1>1. chat[k[2]] \in Seq(1 .. MaxTurns) /\ Standing(k, chat[k[2]])
  BY DEF ChatInv, ChatTypeOK
<1> QED BY <1>1 DEF Standing

\* What saving a turn makes of a conversation: at most so many turns, the new one last.
LEMMA LastTurnsIs ==
  ASSUME NEW turns, ChatTurns(turns), NEW turn \in 1 .. MaxTurns, NEW saved, saved = LastTurns(Append(turns, turn))
  PROVE  /\ ChatTurns(saved) /\ Len(saved) >= 1 /\ saved[Len(saved)] = turn
         /\ \/ Len(saved) = Len(turns) + 1 /\ \A i \in 1 .. Len(turns) : saved[i] = turns[i]
            \/ /\ Len(turns) = HistoryTurns /\ Len(saved) = HistoryTurns
               /\ \A i \in 1 .. HistoryTurns - 1 : saved[i] = turns[i + 1]
<1> USE ConversationAssumption DEF ChatTurns
<1>1. PICK all : all = Append(turns, turn)
  OBVIOUS
<1>2. /\ all \in Seq(1 .. MaxTurns) /\ Len(all) = Len(turns) + 1 /\ all[Len(all)] = turn
      /\ \A i \in 1 .. Len(turns) : all[i] = turns[i]
  BY <1>1
<1>3. CASE Len(all) <= HistoryTurns
  <2>1. saved = all
    BY <1>1, <1>3 DEF LastTurns
  <2> QED BY <1>2, <1>3, <2>1
<1>4. CASE Len(all) > HistoryTurns
  <2>1. Len(turns) = HistoryTurns /\ Len(all) = HistoryTurns + 1
    BY <1>2, <1>4
  <2>2. saved = SubSeq(all, 2, HistoryTurns + 1)
    BY <1>1, <1>4, <2>1 DEF LastTurns
  <2>3. \A i \in 2 .. HistoryTurns + 1 : all[i] \in 1 .. MaxTurns
    BY <1>2, <2>1
  <2>4. PICK n \in Int : n = HistoryTurns + 1
    OBVIOUS
  <2>5. /\ SubSeq(all, 2, n) \in Seq(1 .. MaxTurns)
        /\ Len(SubSeq(all, 2, n)) = IF 2 <= n THEN n - 2 + 1 ELSE 0
        /\ \A i \in 1 .. n - 2 + 1 : SubSeq(all, 2, n)[i] = all[2 + i - 1]
    BY <2>3, <2>4, SubSeqProperties
  <2>6. saved \in Seq(1 .. MaxTurns) /\ Len(saved) = HistoryTurns
        /\ \A i \in 1 .. HistoryTurns : saved[i] = all[i + 1]
    BY <2>2, <2>4, <2>5
  <2>7. \A i \in 1 .. HistoryTurns - 1 : saved[i] = turns[i + 1]
    BY <1>2, <2>1, <2>6
  <2>8. saved[Len(saved)] = turn
    BY <1>2, <2>1, <2>6
  <2> QED BY <2>1, <2>6, <2>7, <2>8
<1> QED BY <1>2, <1>3, <1>4

LEMMA StandingKept ==
  ASSUME NEW turns, ChatTurns(turns), NEW turn \in 1 .. MaxTurns, NEW saved, saved = LastTurns(Append(turns, turn)),
         NEW k, k[1] \in 1 .. MaxTurns, k[1] < turn, Standing(k, turns)
  PROVE  Standing(k, saved)
<1> USE ConversationAssumption
<1>0. PICK len \in Nat, n \in Nat, q \in 1 .. MaxTurns :
        len = Len(turns) /\ n = Len(saved) /\ q = k[1] /\ \A i \in 1 .. len : turns[i] \in 1 .. MaxTurns
  <2>1. ChatTurns(saved)
    BY LastTurnsIs
  <2>2. Len(turns) \in Nat /\ Len(saved) \in Nat /\ \A i \in 1 .. Len(turns) : turns[i] \in 1 .. MaxTurns
    BY <2>1 DEF ChatTurns
  <2> QED BY <2>2
<1>1. /\ n >= 1 /\ saved[n] = turn /\ len <= HistoryTurns /\ n <= HistoryTurns
      /\ \/ n = len + 1 /\ \A i \in 1 .. len : saved[i] = turns[i]
         \/ /\ len = HistoryTurns /\ n = HistoryTurns
            /\ \A i \in 1 .. HistoryTurns - 1 : saved[i] = turns[i + 1]
  <2>1. /\ Len(saved) >= 1 /\ saved[Len(saved)] = turn /\ ChatTurns(saved)
        /\ \/ Len(saved) = Len(turns) + 1 /\ \A i \in 1 .. Len(turns) : saved[i] = turns[i]
           \/ /\ Len(turns) = HistoryTurns /\ Len(saved) = HistoryTurns
              /\ \A i \in 1 .. HistoryTurns - 1 : saved[i] = turns[i + 1]
    BY LastTurnsIs
  <2> QED BY <1>0, <2>1 DEF ChatTurns
<1>2. ASSUME NEW i \in 1 .. len, turns[i] = q, \A j \in 1 .. len : j > i => turns[j] > q
      PROVE  \/ \E h \in 1 .. n : saved[h] = q /\ \A j \in 1 .. n : j > h => saved[j] > q
             \/ n = HistoryTurns /\ \A h \in 1 .. n : saved[h] > q
  <2>1. CASE n = len + 1 /\ \A h \in 1 .. len : saved[h] = turns[h]
    <3>1. i \in 1 .. n /\ saved[i] = q
      BY <1>2, <2>1
    <3>2. ASSUME NEW j \in 1 .. n, j > i PROVE saved[j] > q
      <4>1. CASE j = n
        BY <1>0, <1>1, <4>1
      <4>2. CASE j \in 1 .. len
        BY <1>2, <2>1, <3>2, <4>2
      <4> QED BY <2>1, <4>1, <4>2
    <3> QED BY <3>1, <3>2
  <2>2. CASE /\ len = HistoryTurns /\ n = HistoryTurns
             /\ \A h \in 1 .. HistoryTurns - 1 : saved[h] = turns[h + 1]
    <3>1. ASSUME NEW j \in 1 .. n, j >= i PROVE saved[j] > q
      <4>1. CASE j = n
        BY <1>0, <1>1, <4>1
      <4>2. CASE j \in 1 .. n - 1
        <5>1. j + 1 \in 1 .. len /\ j + 1 > i /\ saved[j] = turns[j + 1]
          BY <2>2, <3>1, <4>2
        <5> QED BY <1>2, <5>1
      <4> QED BY <4>1, <4>2
    <3>2. CASE i = 1
      BY <2>2, <3>1, <3>2
    <3>3. CASE i > 1
      <4>1. PICK h \in 1 .. n - 1 : h = i - 1
        BY <2>2, <3>3
      <4>2. saved[h] = q
        BY <1>2, <2>2, <4>1
      <4>3. \A j \in 1 .. n : j > h => saved[j] > q
        BY <3>1, <4>1
      <4> QED BY <4>1, <4>2, <4>3
    <3> QED BY <3>2, <3>3
  <2> QED BY <1>1, <2>1, <2>2
<1>3. ASSUME len = HistoryTurns, \A i \in 1 .. len : turns[i] > q
      PROVE  n = HistoryTurns /\ \A h \in 1 .. n : saved[h] > q
  <2>1. n = HistoryTurns /\ \A i \in 1 .. HistoryTurns - 1 : saved[i] = turns[i + 1]
    BY <1>0, <1>1, <1>3
  <2>2. \A h \in 1 .. n - 1 : saved[h] > q
    BY <1>3, <2>1
  <2> QED BY <1>0, <1>1, <2>1, <2>2
<1>4. \/ \E i \in 1 .. len : turns[i] = q /\ \A j \in 1 .. len : j > i => turns[j] > q
      \/ len = HistoryTurns /\ \A i \in 1 .. len : turns[i] > q
  <2>1. 1 .. Len(turns) = 1 .. len /\ k[1] = q
    BY <1>0
  <2> QED BY <1>0, <2>1, Zenon DEF Standing
<1>5. \/ \E h \in 1 .. n : saved[h] = q /\ \A j \in 1 .. n : j > h => saved[j] > q
      \/ n = HistoryTurns /\ \A h \in 1 .. n : saved[h] > q
  BY <1>2, <1>3, <1>4
<1> QED BY <1>0, <1>5 DEF Standing

LEMMA OpenKeeps ==
  ASSUME ChatInv, NEW s \in Streams, NEW kind \in {"ask", "clear"}, NEW turn \in 0 .. MaxTurns, Open(s, kind, turn),
         asked' \in asked .. MaxTurns, kind = "ask" => turn = asked + 1 /\ asked' = turn
  PROVE  ChatInv'
<1> USE ConversationAssumption
<1>0. PICK alone \in BOOLEAN : alone = (Busy(s) = {})
  OBVIOUS
<1>1. PICK new :
        /\ new = [kind |-> kind, at |-> "find", of |-> NoChat, turns |-> <<>>, turn |-> turn, alone |-> alone]
        /\ stream' = [x \in Streams |-> IF x = s THEN new
                        ELSE IF stream[x] = NoStream THEN NoStream ELSE [stream[x] EXCEPT !.alone = FALSE]]
  BY <1>0 DEF Open
<1>2. /\ new \in Stream /\ new.kind = kind /\ new.at = "find" /\ new.turns = <<>> /\ new.turn = turn
      /\ new.alone = alone
  BY <1>1 DEF Stream
<1>3. stream \in [Streams -> Stream \cup {NoStream}] /\ UNCHANGED <<chat, kept>> /\ asked \in 0 .. MaxTurns
  BY DEF ChatInv, ChatTypeOK, Open
<1>4. ASSUME NEW x \in Streams, stream[x] # NoStream, x # s
      PROVE  /\ stream'[x] \in Stream /\ stream'[x].kind = stream[x].kind /\ stream'[x].at = stream[x].at
             /\ stream'[x].of = stream[x].of /\ stream'[x].turns = stream[x].turns
             /\ stream'[x].turn = stream[x].turn /\ ~stream'[x].alone
  <2>1. PICK next : next = [stream[x] EXCEPT !.alone = FALSE]
    OBVIOUS
  <2>2. stream'[x] = next /\ stream[x] \in Stream
    BY <1>1, <1>3, <1>4, <2>1
  <2> QED BY <2>1, <2>2 DEF Stream
<1>5. /\ stream'[s] = new /\ \A x \in Streams : x # s /\ stream[x] = NoStream => stream'[x] = NoStream
      /\ stream' \in [Streams -> Stream \cup {NoStream}]
  BY <1>1, <1>2, <1>4
<1>6. Busy(s) = {} => Busy(s)' = {}
  BY <1>5 DEF Busy
<1>7. StreamInv(s)'
  <2>1. kind = "ask" => turn \in 1 .. asked' /\ \A k \in kept : k[1] < turn
    <3>1. \A k \in kept : k[1] \in Int /\ k[1] <= asked
      BY DEF ChatInv, ChatTypeOK
    <3> QED BY <1>3, <3>1
  <2>2. ChatTurns(<<>>)
    BY DEF ChatTurns
  <2> QED BY <1>0, <1>1, <1>2, <1>3, <1>5, <1>6, <2>1, <2>2 DEF StreamInv
<1>8. ASSUME NEW x \in Streams, x # s PROVE StreamInv(x)'
  <2>1. stream[x] # NoStream => StreamInv(x) /\ (stream[x].kind = "ask" => stream[x].turn \in 1 .. asked')
    BY <1>3 DEF ChatInv, StreamInv
  <2> QED BY <1>3, <1>4, <1>5, <1>8, <2>1 DEF StreamInv
<1>9. \A k \in kept : chat[k[2]] # NoChat /\ k[1] <= asked' /\ Standing(k, chat[k[2]])
  BY <1>3 DEF ChatInv, ChatTypeOK
<1>10. ChatTypeOK'
  BY <1>3, <1>5 DEF ChatInv, ChatTypeOK
<1> QED BY <1>3, <1>7, <1>8, <1>9, <1>10 DEF ChatInv

\* One stream goes on or ends: the others see nothing of it.
LEMMA StreamFrame ==
  ASSUME ChatInv, NEW s \in Streams, stream[s] # NoStream, NEW next \in Stream \cup {NoStream},
         stream' = [stream EXCEPT ![s] = next], UNCHANGED asked,
         kept' \subseteq kept \/ Busy(s) = {}, \A c \in Chats : chat[c] # NoChat => chat'[c] # NoChat
  PROVE  /\ stream' \in [Streams -> Stream \cup {NoStream}] /\ stream'[s] = next
         /\ \A x \in Streams : x # s => StreamInv(x)'
         /\ Busy(s)' = Busy(s)
<1>1. /\ stream' \in [Streams -> Stream \cup {NoStream}] /\ stream'[s] = next
      /\ \A x \in Streams : x # s => stream'[x] = stream[x]
  BY DEF ChatInv, ChatTypeOK
<1>2. Busy(s)' = Busy(s)
  BY <1>1 DEF Busy
<1>3. ASSUME NEW x \in Streams, x # s PROVE StreamInv(x)'
  <2>1. CASE stream[x] = NoStream
    BY <1>1, <1>3, <2>1 DEF StreamInv
  <2>2. CASE stream[x] # NoStream
    <3>1. StreamInv(x) /\ stream'[x] = stream[x] /\ kept' \subseteq kept
      BY <1>1, <1>3, <2>2 DEF ChatInv, Busy
    <3>2. ~stream[x].alone
      BY <1>3, <2>2, <3>1 DEF StreamInv, Busy
    <3> QED BY <2>2, <3>1, <3>2 DEF StreamInv
  <2> QED BY <2>1, <2>2
<1> QED BY <1>1, <1>2, <1>3

LEMMA StreamShape ==
  ASSUME ChatInv, NEW s \in Streams, stream[s] # NoStream
  PROVE  stream[s] \in Stream /\ StreamInv(s) /\ (stream[s].kind = "ask" => stream[s].turn \in 1 .. MaxTurns)
BY ConversationAssumption DEF ChatInv, ChatTypeOK, StreamInv

LEMMA FindChatKeeps == ASSUME ChatInv, NEW s \in Streams, FindChat(s) PROVE ChatInv'
<1>1. /\ stream[s] # NoStream /\ stream[s] \in Stream /\ stream[s].at = "find" /\ StreamInv(s)
      /\ UNCHANGED <<chat, asked, kept>>
  BY StreamShape DEF FindChat, StreamAt
<1>2. ASSUME NEW next \in Stream \cup {NoStream}, stream' = [stream EXCEPT ![s] = next],
             next # NoStream =>
               /\ next.kind = stream[s].kind /\ next.turn = stream[s].turn /\ next.alone = stream[s].alone
               /\ \/ next.at = "create" /\ next.kind = "ask" /\ next.turns = <<>>
                  \/ /\ next.at = IF next.kind = "ask" THEN "model" ELSE "save"
                     /\ next.of \in Chats /\ chat[next.of] # NoChat /\ next.turns = chat[next.of]
      PROVE  ChatInv'
  <2>1. /\ stream' \in [Streams -> Stream \cup {NoStream}] /\ stream'[s] = next
        /\ \A x \in Streams : x # s => StreamInv(x)'
        /\ Busy(s)' = Busy(s)
    BY <1>1, <1>2, StreamFrame
  <2>2. /\ \A c \in Chats : chat[c] # NoChat => ChatTurns(chat[c])
        /\ ChatTurns(<<>>)
    BY ConversationAssumption DEF ChatInv, ChatTypeOK, ChatTurns
  <2>3. \A k \in kept : Standing(k, chat[k[2]])
    BY DEF ChatInv
  <2>4. StreamInv(s)'
    BY <1>1, <1>2, <2>1, <2>2, <2>3 DEF StreamInv
  <2>5. ChatTypeOK'
    BY <1>1, <2>1 DEF ChatInv, ChatTypeOK
  <2> QED BY <1>1, <2>1, <2>4, <2>5 DEF ChatInv
<1>3. ASSUME NEW c \in Existing,
             stream' = [stream EXCEPT ![s] = [@ EXCEPT !.of = c, !.turns = chat[c],
                                             !.at = IF stream[s].kind = "ask" THEN "model" ELSE "save"]]
      PROVE  ChatInv'
  <2>1. PICK next, turns : /\ turns = chat[c]
                           /\ next = [stream[s] EXCEPT !.of = c, !.turns = turns,
                                                       !.at = IF stream[s].kind = "ask" THEN "model" ELSE "save"]
    OBVIOUS
  <2>2. c \in Chats /\ chat[c] # NoChat /\ turns \in Seq(1 .. MaxTurns)
    BY <2>1 DEF Existing, ChatInv, ChatTypeOK
  <2>3. /\ next \in Stream /\ next.of = c /\ next.turns = turns /\ next.kind = stream[s].kind
        /\ next.turn = stream[s].turn /\ next.alone = stream[s].alone
        /\ next.at = IF next.kind = "ask" THEN "model" ELSE "save"
    BY <1>1, <2>1, <2>2 DEF Stream
  <2>4. stream' = [stream EXCEPT ![s] = next]
    BY <1>3, <2>1 DEF ChatInv, ChatTypeOK
  <2> QED BY <1>2, <2>1, <2>2, <2>3, <2>4
<1>4. ASSUME stream' = [stream EXCEPT ![s] = IF stream[s].kind = "ask" THEN [@ EXCEPT !.at = "create"] ELSE NoStream]
      PROVE  ChatInv'
  <2>1. CASE stream[s].kind # "ask"
    BY <1>2, <1>4, <2>1
  <2>2. CASE stream[s].kind = "ask"
    <3>1. PICK next : next = [stream[s] EXCEPT !.at = "create"]
      OBVIOUS
    <3>2. /\ next \in Stream /\ next.kind = "ask" /\ next.at = "create" /\ next.turn = stream[s].turn
          /\ next.alone = stream[s].alone /\ next.turns = stream[s].turns
      BY <1>1, <2>2, <3>1 DEF Stream
    <3>3. stream' = [stream EXCEPT ![s] = next]
      BY <1>4, <2>2, <3>1 DEF ChatInv, ChatTypeOK
    <3>4. stream[s].turns = <<>>
      BY <1>1 DEF StreamInv
    <3> QED BY <1>2, <2>2, <3>2, <3>3, <3>4
  <2> QED BY <2>1, <2>2
<1> QED BY <1>3, <1>4 DEF FindChat

LEMMA CreateChatKeeps == ASSUME ChatInv, NEW s \in Streams, CreateChat(s) PROVE ChatInv'
<1>1. /\ stream[s] # NoStream /\ stream[s] \in Stream /\ stream[s].at = "create" /\ StreamInv(s)
      /\ UNCHANGED <<asked, kept>>
  BY StreamShape DEF CreateChat, StreamAt
<1>10. PICK c \in Chats :
        /\ chat[c] = NoChat /\ chat' = [chat EXCEPT ![c] = <<>>]
        /\ stream' = [stream EXCEPT ![s] = [stream[s] EXCEPT !.at = "model", !.of = c]]
  BY DEF CreateChat, Existing, ChatInv, ChatTypeOK
<1>2. PICK next :
        /\ chat[c] = NoChat /\ chat' = [chat EXCEPT ![c] = <<>>]
        /\ next = [stream[s] EXCEPT !.at = "model", !.of = c] /\ stream' = [stream EXCEPT ![s] = next]
  BY <1>10
<1>3. /\ next \in Stream /\ next.at = "model" /\ next.of = c /\ next.kind = "ask" /\ next.turns = <<>>
      /\ next.turn = stream[s].turn /\ next.alone = stream[s].alone /\ stream[s].kind = "ask"
  BY <1>1, <1>2 DEF Stream, StreamInv
<1>4. /\ chat' \in [Chats -> Seq(1 .. MaxTurns) \cup {NoChat}] /\ chat'[c] = <<>> /\ chat'[c] # NoChat
      /\ \A d \in Chats : d # c => chat'[d] = chat[d]
  <2>1. PICK none : none = <<>>
    OBVIOUS
  <2>2. none \in Seq(1 .. MaxTurns)
    BY <2>1
  <2>3. chat' = [chat EXCEPT ![c] = none] /\ none # NoChat
    BY <1>2, <2>1, <2>2, NoChatAssumption
  <2> QED BY <1>2, <2>1, <2>2, <2>3 DEF ChatInv, ChatTypeOK
<1>5. /\ stream' \in [Streams -> Stream \cup {NoStream}] /\ stream'[s] = next
      /\ \A x \in Streams : x # s => StreamInv(x)'
      /\ Busy(s)' = Busy(s)
  <2>1. \A d \in Chats : chat[d] # NoChat => chat'[d] # NoChat
    BY <1>2, <1>4
  <2> QED BY <1>1, <1>2, <1>3, <2>1, StreamFrame
<1>6. \A k \in kept : k[2] \in Chats /\ k[2] # c
  BY <1>2 DEF ChatInv, ChatTypeOK
<1>7. StreamInv(s)'
  <2>1. ChatTurns(<<>>)
    BY ConversationAssumption DEF ChatTurns
  <2> QED BY <1>1, <1>3, <1>4, <1>5, <1>6, <2>1 DEF StreamInv
<1>8. ChatTypeOK'
  BY <1>1, <1>4, <1>5, ConversationAssumption DEF ChatInv, ChatTypeOK
<1>9. \A k \in kept : chat'[k[2]] # NoChat /\ k[1] <= asked /\ Standing(k, chat'[k[2]])
  BY <1>4, <1>6 DEF ChatInv
<1> QED BY <1>1, <1>5, <1>7, <1>8, <1>9 DEF ChatInv

LEMMA AnswerChatKeeps == ASSUME ChatInv, NEW s \in Streams, AnswerChat(s) PROVE ChatInv'
<1>1. /\ stream[s] # NoStream /\ stream[s] \in Stream /\ stream[s].at = "model" /\ StreamInv(s)
      /\ UNCHANGED <<chat, asked, kept>>
  BY StreamShape DEF AnswerChat, StreamAt
<1>2. PICK next : next = [stream[s] EXCEPT !.at = "save"]
  OBVIOUS
<1>3. /\ next \in Stream /\ next.at = "save" /\ next.of = stream[s].of /\ next.kind = stream[s].kind
      /\ next.turns = stream[s].turns /\ next.turn = stream[s].turn /\ next.alone = stream[s].alone
      /\ stream' = [stream EXCEPT ![s] = next]
  BY <1>1, <1>2 DEF AnswerChat, Stream, ChatInv, ChatTypeOK
<1>4. /\ stream' \in [Streams -> Stream \cup {NoStream}] /\ stream'[s] = next
      /\ \A x \in Streams : x # s => StreamInv(x)'
      /\ Busy(s)' = Busy(s)
  BY <1>1, <1>3, StreamFrame
<1>5. StreamInv(s)'
  BY <1>1, <1>3, <1>4 DEF StreamInv
<1>6. ChatTypeOK'
  BY <1>1, <1>4 DEF ChatInv, ChatTypeOK
<1> QED BY <1>1, <1>4, <1>5, <1>6 DEF ChatInv

LEMMA SaveTurnKeeps == ASSUME ChatInv, NEW s \in Streams, SaveTurn(s) PROVE ChatInv'
<1>1. /\ stream[s] # NoStream /\ stream[s] \in Stream /\ stream[s].at = "save" /\ stream[s].kind = "ask"
      /\ StreamInv(s) /\ UNCHANGED asked /\ stream' = [stream EXCEPT ![s] = NoStream]
  BY StreamShape DEF SaveTurn, StreamAt
<1>2. PICK c, turns, turn, saved :
        /\ c = stream[s].of /\ turns = stream[s].turns /\ turn = stream[s].turn
        /\ saved = LastTurns(Append(turns, turn))
  OBVIOUS
<1>3. /\ c \in Chats /\ chat[c] # NoChat /\ ChatTurns(turns) /\ turn \in 1 .. asked /\ turn \in 1 .. MaxTurns
      /\ \A k \in kept : k[1] < turn /\ (k[2] = c => Standing(k, turns))
      /\ stream[s].alone => Busy(s) = {}
  BY <1>1, <1>2, StreamShape DEF StreamInv
<1>4. ChatTurns(saved) /\ Len(saved) >= 1 /\ saved[Len(saved)] = turn
  BY <1>2, <1>3, LastTurnsIs
<1>5. chat' = [chat EXCEPT ![c] = saved]
  BY <1>2 DEF SaveTurn
<1>6. /\ chat' \in [Chats -> Seq(1 .. MaxTurns) \cup {NoChat}] /\ chat'[c] = saved /\ saved # NoChat
      /\ \A d \in Chats : d # c => chat'[d] = chat[d]
  BY <1>3, <1>4, <1>5, NoChatAssumption DEF ChatInv, ChatTypeOK, ChatTurns
<1>7. kept' \subseteq kept \cup {<<turn, c>>} /\ (kept' \subseteq kept \/ Busy(s) = {})
  BY <1>2, <1>3 DEF SaveTurn
<1>8. /\ stream' \in [Streams -> Stream \cup {NoStream}] /\ stream'[s] = NoStream
      /\ \A x \in Streams : x # s => StreamInv(x)'
  <2>1. \A d \in Chats : chat[d] # NoChat => chat'[d] # NoChat
    BY <1>6
  <2> QED BY <1>1, <1>7, <2>1, StreamFrame
<1>9. ASSUME NEW k \in kept PROVE chat'[k[2]] # NoChat /\ k[1] <= asked /\ Standing(k, chat'[k[2]])
  <2>1. /\ k[1] \in 1 .. MaxTurns /\ k[2] \in Chats /\ k[1] <= asked /\ chat[k[2]] # NoChat
        /\ Standing(k, chat[k[2]]) /\ k[1] < turn
    BY <1>3 DEF ChatInv, ChatTypeOK
  <2>2. CASE k[2] = c
    <3>1. Standing(k, saved)
      BY <1>2, <1>3, <2>1, <2>2, StandingKept
    <3> QED BY <1>6, <2>1, <2>2, <3>1
  <2>3. CASE k[2] # c
    BY <1>6, <2>1, <2>3
  <2> QED BY <2>2, <2>3
<1>10. ASSUME NEW k, k = <<turn, c>> PROVE chat'[k[2]] # NoChat /\ k[1] <= asked /\ Standing(k, chat'[k[2]])
  <2>1. k[1] = turn /\ k[2] = c /\ turn <= asked
    BY <1>3, <1>10
  <2>2. Len(saved) \in Nat
    BY <1>4 DEF ChatTurns
  <2>3. Len(saved) \in 1 .. Len(saved) /\ ~\E j \in 1 .. Len(saved) : j > Len(saved)
    BY <1>4, <2>2
  <2>4. Standing(k, saved)
    BY <1>4, <2>1, <2>3 DEF Standing
  <2> QED BY <1>6, <2>1, <2>4
<1>11. ChatTypeOK'
  <2>1. kept' \subseteq (1 .. MaxTurns) \X Chats
    BY <1>3, <1>7 DEF ChatInv, ChatTypeOK
  <2> QED BY <1>1, <1>4, <1>6, <1>8, <2>1 DEF ChatInv, ChatTypeOK, ChatTurns
<1>12. StreamInv(s)'
  BY <1>8 DEF StreamInv
<1> QED BY <1>1, <1>7, <1>8, <1>9, <1>10, <1>11, <1>12 DEF ChatInv

LEMMA SaveClearedKeeps == ASSUME ChatInv, NEW s \in Streams, SaveCleared(s) PROVE ChatInv'
<1>1. /\ stream[s] # NoStream /\ stream[s].at = "save" /\ StreamInv(s)
      /\ UNCHANGED asked /\ stream' = [stream EXCEPT ![s] = NoStream]
  BY StreamShape DEF SaveCleared, StreamAt
<1>2. PICK c : c = stream[s].of
  OBVIOUS
<1>3. c \in Chats /\ chat' = [chat EXCEPT ![c] = <<>>] /\ kept' = {k \in kept : k[2] # c}
  BY <1>1, <1>2 DEF SaveCleared, StreamInv
<1>4. /\ chat' \in [Chats -> Seq(1 .. MaxTurns) \cup {NoChat}] /\ chat'[c] = <<>> /\ chat'[c] # NoChat
      /\ \A d \in Chats : d # c => chat'[d] = chat[d]
  <2>1. PICK none : none = <<>>
    OBVIOUS
  <2>2. none \in Seq(1 .. MaxTurns)
    BY <2>1
  <2>3. chat' = [chat EXCEPT ![c] = none] /\ none # NoChat
    BY <1>3, <2>1, <2>2, NoChatAssumption
  <2> QED BY <1>3, <2>1, <2>2, <2>3 DEF ChatInv, ChatTypeOK
<1>5. /\ stream' \in [Streams -> Stream \cup {NoStream}] /\ stream'[s] = NoStream
      /\ \A x \in Streams : x # s => StreamInv(x)'
  <2>1. \A d \in Chats : chat[d] # NoChat => chat'[d] # NoChat
    BY <1>4
  <2> QED BY <1>1, <1>3, <2>1, StreamFrame
<1>6. ChatTypeOK'
  BY <1>1, <1>3, <1>4, <1>5, ConversationAssumption DEF ChatInv, ChatTypeOK
<1>7. \A k \in kept' : chat'[k[2]] # NoChat /\ k[1] <= asked /\ Standing(k, chat'[k[2]])
  BY <1>3, <1>4 DEF ChatInv, ChatTypeOK
<1>8. StreamInv(s)'
  BY <1>5 DEF StreamInv
<1> QED BY <1>1, <1>5, <1>6, <1>7, <1>8 DEF ChatInv

LEMMA FailStreamKeeps == ASSUME ChatInv, NEW s \in Streams, FailStream(s) PROVE ChatInv'
<1>1. /\ stream[s] # NoStream /\ UNCHANGED <<chat, asked, kept>> /\ stream' = [stream EXCEPT ![s] = NoStream]
  BY DEF FailStream
<1>2. /\ stream' \in [Streams -> Stream \cup {NoStream}] /\ stream'[s] = NoStream
      /\ \A x \in Streams : x # s => StreamInv(x)'
  BY <1>1, StreamFrame
<1>3. ChatTypeOK' /\ StreamInv(s)'
  BY <1>1, <1>2 DEF ChatInv, ChatTypeOK, StreamInv
<1> QED BY <1>1, <1>2, <1>3 DEF ChatInv

LEMMA ChatStep == ASSUME ChatInv, [ChatNext]_chatVars PROVE ChatInv'
<1>1. ASSUME NEW s \in Streams, Send(s) \/ Clear(s) PROVE ChatInv'
  <2>1. asked \in 0 .. MaxTurns
    BY DEF ChatInv, ChatTypeOK
  <2>2. CASE Send(s)
    <3>1. PICK turn \in 0 .. MaxTurns : turn = asked + 1 /\ asked' = turn /\ Open(s, "ask", turn)
      BY <2>1, <2>2, ConversationAssumption DEF Send
    <3>2. asked' \in asked .. MaxTurns
      BY <2>1, <3>1
    <3> QED BY <3>1, <3>2, OpenKeeps
  <2>3. CASE Clear(s)
    <3>1. asked' \in asked .. MaxTurns /\ 0 \in 0 .. MaxTurns /\ Open(s, "clear", 0)
      BY <2>1, <2>3, ConversationAssumption DEF Clear
    <3> QED BY <3>1, OpenKeeps
  <2> QED BY <1>1, <2>2, <2>3
<1>2. CASE UNCHANGED chatVars
  <2>1. UNCHANGED <<chat, stream, asked, kept>>
    BY <1>2 DEF chatVars
  <2>2. ChatTypeOK' /\ \A s \in Streams : StreamInv(s)'
    BY <2>1 DEF ChatInv, ChatTypeOK, StreamInv, Busy
  <2> QED BY <2>1, <2>2 DEF ChatInv
<1> QED
  BY <1>1, <1>2, FindChatKeeps, CreateChatKeeps, AnswerChatKeeps, SaveTurnKeeps, SaveClearedKeeps, FailStreamKeeps
  DEF ChatNext

\* Whatever streams at the same time, is cleared, split in two or breaks off: a turn
\* answered while nothing else went on stays until it is cleared or as many newer turns
\* as are kept have come.
THEOREM AnswersStay == ChatSpec => [](ChatTypeOK /\ AnswerKept)
<1>1. ChatInv => ChatTypeOK /\ AnswerKept
  BY ChatInvMeans DEF ChatInv
<1> QED BY <1>1, ChatInitInv, ChatStep, PTL DEF ChatSpec

-----------------------------------------------------------------------------
(* Auction: type correctness.                                              *)

LEMMA NoRowsTyped == NoAuction \in Auction /\ NoJob \in Job
BY AuctionAssumption DEF NoAuction, NoJob, Auction, Job, Status

LEMMA AuctionInitType == ASSUME AuctionInit PROVE AuctionTypeOK
BY NoRowsTyped, AuctionAssumption DEF AuctionInit, AuctionTypeOK

\* How a call begins, goes on and ends.
LEMMA CallType ==
  ASSUME AuctionTypeOK, NEW c \in Calls, NEW r \in Request, Call(c, r)
  PROVE  request' \in [Calls -> Request \cup {NoRequest}] /\ requests' \in 0 .. MaxCalls
BY AuctionAssumption DEF AuctionTypeOK, Call

LEMMA GoOnType ==
  ASSUME AuctionTypeOK, NEW c \in Calls,
         \/ Return(c)
         \/ request[c] # NoRequest /\ \E at \in {"bid", "price", "save"} : Proceed(c, at)
  PROVE  request' \in [Calls -> Request \cup {NoRequest}] /\ requests' \in 0 .. MaxCalls
<1>1. CASE Return(c)
  BY <1>1 DEF AuctionTypeOK, Return
<1>2. ASSUME request[c] # NoRequest, NEW at \in {"bid", "price", "save"}, Proceed(c, at)
      PROVE  request' \in [Calls -> Request \cup {NoRequest}] /\ requests' \in 0 .. MaxCalls
  <2>1. request[c] \in Request
    BY <1>2 DEF AuctionTypeOK
  <2>2. [request[c] EXCEPT !.at = at] \in Request
    BY <2>1 DEF Request
  <2> QED BY <1>2, <2>2 DEF AuctionTypeOK, Proceed
<1> QED BY <1>1, <1>2

LEMMA InsertType ==
  ASSUME AuctionTypeOK, NEW c \in Calls, NEW a \in Auctions, NEW r \in Request,
         NEW target \in Tasks \cup {NoTask}, NEW minBid \in Amounts,
         Insert(c, a, r, target, minBid)
  PROVE  AuctionTypeOK'
<1>1. [NoAuction EXCEPT !.status = "open", !.minBid = minBid, !.target = target] \in Auction
  BY AuctionAssumption DEF NoAuction, Auction, Status
<1> QED BY <1>1, CallType DEF Insert, AuctionTypeOK

LEMMA MishapType ==
  ASSUME mishaps \in 0 .. MaxFaults, mishaps < MaxFaults PROVE mishaps + 1 \in 0 .. MaxFaults
BY AuctionAssumption

\* The endpoints begin.
LEMMA CallsKeepType ==
  ASSUME AuctionTypeOK, NEW c \in Calls, NEW a \in Auctions
  PROVE  /\ \A u \in Bidders, target \in Tasks \cup {NoTask}, minBid \in Amounts :
              CreateAuction(c, a, u, target, minBid) => AuctionTypeOK'
         /\ \A t \in Tasks : ClaimHeldTask(c, a, t) => AuctionTypeOK'
         /\ \A u \in Bidders, t \in Tasks : ClaimFreeTask(c, a, u, t) => AuctionTypeOK'
         /\ \A u \in Bidders, amount \in Amounts : PlaceBid(c, a, u, amount) => AuctionTypeOK'
         /\ \A u \in Bidders : Cancel(c, a, u) => AuctionTypeOK'
<1> USE AuctionAssumption
<1>1. ASSUME NEW u \in Bidders, NEW target \in Tasks \cup {NoTask}, NEW minBid \in Amounts,
             CreateAuction(c, a, u, target, minBid)
      PROVE  AuctionTypeOK'
  <2>1. [at |-> "created", task |-> target, auction |-> a, user |-> u, amount |-> 0,
         claim |-> FALSE] \in Request
    BY DEF Request
  <2> QED BY <1>1, <2>1, InsertType DEF CreateAuction
<1>2. ASSUME NEW t \in Tasks, ClaimHeldTask(c, a, t) PROVE AuctionTypeOK'
  <2>1. [at |-> "created", task |-> t, auction |-> a, user |-> holder[t], amount |-> 0,
         claim |-> TRUE] \in Request
    BY <1>2 DEF Request, ClaimHeldTask, AuctionTypeOK
  <2> QED BY <1>2, <2>1, InsertType DEF ClaimHeldTask
<1>3. ASSUME NEW u \in Bidders, NEW t \in Tasks, ClaimFreeTask(c, a, u, t) PROVE AuctionTypeOK'
  <2>1. [at |-> "claim", task |-> t, auction |-> a, user |-> u, amount |-> 0,
         claim |-> TRUE] \in Request
    BY DEF Request
  <2> QED BY <1>3, <2>1, CallType DEF ClaimFreeTask, AuctionTypeOK
<1>4. ASSUME NEW u \in Bidders, NEW amount \in Amounts, PlaceBid(c, a, u, amount)
      PROVE  AuctionTypeOK'
  <2>1. [at |-> "price", task |-> NoTask, auction |-> a, user |-> u, amount |-> amount,
         claim |-> FALSE] \in Request
    BY DEF Request
  <2> QED BY <1>4, <2>1, CallType DEF PlaceBid, AuctionTypeOK
<1>5. ASSUME NEW u \in Bidders, Cancel(c, a, u) PROVE AuctionTypeOK'
  <2>1. [at |-> "cancel", task |-> NoTask, auction |-> a, user |-> u, amount |-> 0,
         claim |-> FALSE] \in Request
    BY DEF Request
  <2> QED BY <1>5, <2>1, CallType DEF Cancel, AuctionTypeOK
<1> QED BY <1>1, <1>2, <1>3, <1>4, <1>5

\* The endpoints go on.
LEMMA CallStepsKeepType ==
  ASSUME AuctionTypeOK, NEW c \in Calls,
         \/ SaveHolder(c) \/ AddCloseJob(c) \/ ReadForClaim(c) \/ PriceBid(c) \/ SaveBid(c)
         \/ SaveCancelled(c) \/ LoseRequest(c)
  PROVE  AuctionTypeOK'
<1>0. request[c] # NoRequest => request[c] \in Request
  BY DEF AuctionTypeOK
<1>1. CASE SaveHolder(c)
  <2>1. request[c] \in Request
    BY <1>0, <1>1 DEF SaveHolder, RequestAt
  <2>2. holder' \in [Tasks -> Bidders \cup {Nobody}]
    BY <1>1, <2>1 DEF SaveHolder, AuctionTypeOK, Request
  <2> QED BY <1>1, <2>2, GoOnType DEF SaveHolder, AuctionTypeOK
<1>2. CASE AddCloseJob(c)
  <2>1. request[c] \in Request /\ request[c] # NoRequest
    BY <1>0, <1>2 DEF AddCloseJob, RequestAt
  <2>2. job' \in [Auctions -> Job]
    BY ZenonT(40), <1>2 DEF AddCloseJob, AuctionTypeOK, Job
  <2> QED BY <1>2, <2>1, <2>2, GoOnType DEF AddCloseJob, AuctionTypeOK
<1>3. CASE ReadForClaim(c)
  BY <1>3, GoOnType DEF ReadForClaim, RequestAt, AuctionTypeOK
<1>4. CASE PriceBid(c)
  BY <1>4, GoOnType DEF PriceBid, RequestAt, AuctionTypeOK
<1>5. CASE SaveBid(c)
  <2> DEFINE a   == request[c].auction
             bid == [by |-> request[c].user, amount |-> request[c].amount,
                     late |-> Chosen(a) \/ auction[a].status # "open"]
  <2>1. request[c] \in Request
    BY <1>0, <1>5 DEF SaveBid, RequestAt
  <2>2. bid \in Bid /\ a \in Auctions
    BY <2>1 DEF Bid, Request
  <2>3. bids' = [bids EXCEPT ![a] = @ \cup {bid}]
    BY <1>5 DEF SaveBid
  <2> HIDE DEF a, bid
  <2>4. bids' \in [Auctions -> SUBSET Bid]
    BY <2>2, <2>3 DEF AuctionTypeOK
  <2> QED BY <1>5, <2>4, GoOnType DEF SaveBid, AuctionTypeOK
<1>6. CASE SaveCancelled(c)
  <2>0. ASSUME NEW r \in Auction
        PROVE  [r EXCEPT !.status = "cancelled", !.winner = Nobody, !.winning = 0] \in Auction
    BY AuctionAssumption DEF Auction, Status
  <2>1. auction' \in [Auctions -> Auction]
    BY <1>6, <2>0 DEF SaveCancelled, AuctionTypeOK
  <2> QED BY <1>6, <2>1, GoOnType DEF SaveCancelled, AuctionTypeOK
<1>7. CASE LoseRequest(c)
  BY <1>7, GoOnType, MishapType DEF LoseRequest, AuctionTypeOK
<1> QED BY <1>1, <1>2, <1>3, <1>4, <1>5, <1>6, <1>7

-----------------------------------------------------------------------------
(* The close job.  A job keeps an attempt until it has failed: it is added  *)
(* once, since one call made the auction, and a run that throws counts only *)
(* while the job is still its own.                                         *)

JobInv ==
  \A a \in Auctions :
    /\ job[a].owner # NoRequest => job[a].state = "active"
    /\ job[a].state # "failed" => job[a].tries < Attempts
    /\ job[a] # NoJob => auction[a] # NoAuction

CreatedInv ==
  \A c \in Calls : RequestAt(c, "created") =>
    /\ auction[request[c].auction] # NoAuction
    /\ job[request[c].auction] = NoJob
    /\ \A d \in Calls : RequestAt(d, "created") /\ request[d].auction = request[c].auction => d = c

\* A run ends: the job is given back only by the run that owns it.
LEMMA EndRunType ==
  ASSUME AuctionTypeOK, NEW w \in Closers, closing[w] # NoRequest, NEW next, EndRun(w, next),
         job[closing[w].auction].owner = w => [next EXCEPT !.owner = NoRequest] \in Job
  PROVE  job' \in [Auctions -> Job] /\ closing' \in [Closers -> Closing \cup {NoRequest}]
<1>1. closing[w].auction \in Auctions
  BY DEF AuctionTypeOK, Closing
<1> QED BY <1>1 DEF EndRun, AuctionTypeOK

LEMMA DoneType ==
  ASSUME AuctionTypeOK, NEW w \in Closers, closing[w] # NoRequest, Done(w)
  PROVE  job' \in [Auctions -> Job] /\ closing' \in [Closers -> Closing \cup {NoRequest}]
<1> DEFINE next == [job[closing[w].auction] EXCEPT !.state = "done"]
<1>1. job[closing[w].auction] \in Job
  BY DEF AuctionTypeOK, Closing
<1>2. [next EXCEPT !.owner = NoRequest] \in Job
  BY <1>1 DEF Job
<1>3. EndRun(w, next)
  BY DEF Done
<1> HIDE DEF next
<1> QED BY <1>2, <1>3, EndRunType

LEMMA ThrownType ==
  ASSUME AuctionTypeOK, JobInv, NEW w \in Closers, closing[w] # NoRequest, Thrown(w)
  PROVE  job' \in [Auctions -> Job] /\ closing' \in [Closers -> Closing \cup {NoRequest}]
<1> DEFINE j    == job[closing[w].auction]
           next == [j EXCEPT !.tries = @ + 1,
                             !.state = IF j.tries + 1 < Attempts THEN "waiting" ELSE "failed"]
<1>1. closing[w].auction \in Auctions /\ j \in Job
  BY DEF AuctionTypeOK, Closing
<1>2. ASSUME j.owner = w PROVE [next EXCEPT !.owner = NoRequest] \in Job
  <2>1. j.tries < Attempts /\ j.tries \in 0 .. Attempts
    BY <1>1, <1>2, AuctionAssumption DEF JobInv, Job
  <2>2. j.tries + 1 \in 0 .. Attempts
    BY <2>1, AuctionAssumption
  <2> QED BY <1>1, <2>2 DEF Job
<1>3. EndRun(w, next)
  BY DEF Thrown
<1> HIDE DEF next
<1> QED BY <1>2, <1>3, EndRunType

LEMMA SaveWinnerType ==
  ASSUME AuctionTypeOK, NEW w \in Closers, SaveWinner(w)
  PROVE  auction' \in [Auctions -> Auction]
<1>1. closing[w] \in Closing
  BY DEF SaveWinner, AuctionTypeOK
<1>2. ASSUME NEW r \in Auction
      PROVE  [r EXCEPT !.status = "closed", !.winner = closing[w].winner,
                       !.winning = closing[w].winning] \in Auction
  BY <1>1 DEF Auction, Closing, Status
<1> QED BY <1>2 DEF SaveWinner, AuctionTypeOK

LEMMA CloseJobsKeepType ==
  ASSUME AuctionTypeOK, JobInv, NEW w \in Closers,
         CloseJobs(w) \/ FailClose(w) \/ CloseUnheard(w) \/ StallClose(w)
  PROVE  AuctionTypeOK'
<1>0. closing[w] # NoRequest => closing[w] \in Closing
  BY DEF AuctionTypeOK
<1>1. CASE CheckOpen(w)
  <2>1. CASE auction[closing[w].auction].status = "open"
    <3>1. [closing[w] EXCEPT !.at = "choose"] \in Closing
      BY <1>0, <1>1 DEF CheckOpen, Closing
    <3> QED BY <1>1, <2>1, <3>1 DEF CheckOpen, AuctionTypeOK
  <2>2. CASE auction[closing[w].auction].status # "open"
    BY <1>1, <2>2, DoneType DEF CheckOpen, AuctionTypeOK
  <2> QED BY <2>1, <2>2
<1>2. CASE ChooseWinner(w)
  <2>1. ASSUME NEW u \in Bidders \cup {Nobody}, NEW x \in Amounts
        PROVE  [closing[w] EXCEPT !.at = "save", !.winner = u, !.winning = x] \in Closing
    BY <1>0, <1>2 DEF ChooseWinner, Closing
  <2>2. \E u \in Bidders \cup {Nobody}, x \in Amounts :
          closing' = [closing EXCEPT ![w] = [@ EXCEPT !.at = "save", !.winner = u, !.winning = x]]
    <3>1. CASE closing' = [closing EXCEPT ![w] = [@ EXCEPT !.at = "save", !.winner = Nobody, !.winning = 0]]
      BY <3>1, AuctionAssumption
    <3>2. ASSUME NEW b \in Highest(closing[w].auction),
                 closing' = [closing EXCEPT ![w] =
                   [@ EXCEPT !.at = "save", !.winner = b.by, !.winning = b.amount]]
          PROVE  \E u \in Bidders \cup {Nobody}, x \in Amounts :
                   closing' = [closing EXCEPT ![w] = [@ EXCEPT !.at = "save", !.winner = u, !.winning = x]]
      <4>1. b \in Bid
        BY <1>0, <1>2 DEF ChooseWinner, Highest, AuctionTypeOK, Closing
      <4> QED BY <3>2, <4>1 DEF Bid
    <3> QED BY <1>2, <3>1, <3>2 DEF ChooseWinner
  <2> QED BY ZenonT(40), <1>2, <2>1, <2>2 DEF ChooseWinner, AuctionTypeOK
<1>3. CASE SaveClosed(w)
  <2>1. closing[w] # NoRequest /\ closing[w] \in Closing /\ auction' \in [Auctions -> Auction]
    BY <1>0, <1>3, SaveWinnerType DEF SaveClosed, SaveWinner
  <2>2. announced' \subseteq [task : Tasks, winner : Bidders]
    BY <1>3, <2>1 DEF SaveClosed, AuctionTypeOK, Auction, Closing
  <2> QED BY <1>3, <2>1, <2>2, DoneType DEF SaveClosed, AuctionTypeOK
<1>4. CASE FailClose(w)
  BY <1>4, ThrownType, MishapType DEF FailClose, AuctionTypeOK
<1>5. CASE CloseUnheard(w)
  <2>1. closing[w] # NoRequest /\ auction' \in [Auctions -> Auction]
    BY <1>5, SaveWinnerType DEF CloseUnheard, SaveWinner
  <2> QED BY <1>5, <2>1, ThrownType, MishapType DEF CloseUnheard, AuctionTypeOK
<1>6. CASE StallClose(w)
  <2> DEFINE a == closing[w].auction
  <2>1. a \in Auctions /\ job[a] \in Job
    BY <1>0, <1>6 DEF StallClose, AuctionTypeOK, Closing
  <2>2. [job[a] EXCEPT !.stalled = TRUE, !.owner = NoRequest,
                       !.state = IF job[a].stalled THEN "failed" ELSE "waiting"] \in Job
    BY <2>1 DEF Job
  <2> HIDE DEF a
  <2>3. job' \in [Auctions -> Job]
    BY <1>6, <2>1, <2>2 DEF StallClose, AuctionTypeOK, a
  <2> QED BY <1>6, <2>3, MishapType DEF StallClose, AuctionTypeOK
<1> QED BY <1>1, <1>2, <1>3, <1>4, <1>5, <1>6 DEF CloseJobs

\* The deadline, the queue and the listener.
LEMMA OthersKeepType ==
  ASSUME AuctionTypeOK
  PROVE  /\ \A a \in Auctions : Deadline(a) => AuctionTypeOK'
         /\ \A a \in Auctions, w \in Closers : TakeCloseJob(w, a) => AuctionTypeOK'
         /\ \A m \in [task : Tasks, winner : Bidders] : AssignWinner(m) \/ AssignFails(m) => AuctionTypeOK'
<1>1. ASSUME NEW a \in Auctions, Deadline(a) PROVE AuctionTypeOK'
  BY <1>1 DEF Deadline, AuctionTypeOK
<1>2. ASSUME NEW a \in Auctions, NEW w \in Closers, TakeCloseJob(w, a) PROVE AuctionTypeOK'
  <2>1. [at |-> "check", auction |-> a, winner |-> Nobody, winning |-> 0] \in Closing
    BY AuctionAssumption DEF Closing
  <2>2. [job[a] EXCEPT !.state = "active", !.owner = w] \in Job
    BY ZenonT(40) DEF AuctionTypeOK, Job
  <2> QED BY <1>2, <2>1, <2>2 DEF TakeCloseJob, AuctionTypeOK
<1>3. ASSUME NEW m \in [task : Tasks, winner : Bidders], AssignWinner(m) PROVE AuctionTypeOK'
  BY <1>3 DEF AssignWinner, AuctionTypeOK
<1>4. ASSUME NEW m \in [task : Tasks, winner : Bidders], AssignFails(m) PROVE AuctionTypeOK'
  BY <1>4, MishapType DEF AssignFails, AuctionTypeOK
<1> QED BY <1>1, <1>2, <1>3, <1>4

-----------------------------------------------------------------------------
(* The invariants of the job.                                              *)

AuctionInv == AuctionTypeOK /\ JobInv /\ CreatedInv

\* Steps after which no call is newly 'created' and no job is newly added.
LEMMA CreatedFrame ==
  ASSUME AuctionTypeOK, CreatedInv,
         \A c \in Calls : RequestAt(c, "created")' =>
           RequestAt(c, "created") /\ request'[c].auction = request[c].auction,
         \A a \in Auctions : auction[a] # NoAuction => auction'[a] # NoAuction,
         \A a \in Auctions : job[a] = NoJob => job'[a] = NoJob
  PROVE  CreatedInv'
<1>1. \A c \in Calls : RequestAt(c, "created") => request[c].auction \in Auctions
  BY DEF AuctionTypeOK, RequestAt, Request
<1> QED BY <1>1 DEF CreatedInv

\* A call that goes on or ends is not 'created' any more.
LEMMA GoOnCreated ==
  ASSUME AuctionTypeOK, NEW c \in Calls,
         \/ Return(c)
         \/ request[c] # NoRequest /\ \E at \in {"bid", "price", "save"} : Proceed(c, at)
  PROVE  /\ ~RequestAt(c, "created")'
         /\ \A d \in Calls : d # c => request'[d] = request[d]
<1>1. CASE Return(c)
  BY <1>1 DEF AuctionTypeOK, Return, RequestAt
<1>2. ASSUME request[c] # NoRequest, NEW at \in {"bid", "price", "save"}, Proceed(c, at)
      PROVE  /\ ~RequestAt(c, "created")'
             /\ \A d \in Calls : d # c => request'[d] = request[d]
  <2>1. request[c] \in Request
    BY <1>2 DEF AuctionTypeOK
  <2>2. [request[c] EXCEPT !.at = at].at # "created"
    BY <2>1 DEF Request
  <2> QED BY <1>2, <2>2 DEF AuctionTypeOK, Proceed, RequestAt
<1> QED BY <1>1, <1>2

LEMMA InsertKeepsJobs ==
  ASSUME AuctionInv, NEW c \in Calls, NEW a \in Auctions, NEW r \in Request,
         r.at = "created", r.auction = a,
         NEW target \in Tasks \cup {NoTask}, NEW minBid \in Amounts, Insert(c, a, r, target, minBid)
  PROVE  JobInv' /\ CreatedInv'
<1> USE DEF AuctionInv, AuctionTypeOK
<1>1. /\ auction[a] = NoAuction /\ auction'[a] # NoAuction
      /\ \A b \in Auctions : b # a => auction'[b] = auction[b]
      /\ UNCHANGED job
      /\ request[c] = NoRequest /\ request'[c] = r
      /\ \A d \in Calls : d # c => request'[d] = request[d]
  BY DEF Insert, Call, NoAuction
<1>2. job[a] = NoJob
  BY <1>1 DEF JobInv
<1>3. JobInv'
  BY <1>1 DEF JobInv
<1>4. \A d \in Calls : RequestAt(d, "created") => request[d].auction \in Auctions \ {a}
  BY <1>1 DEF CreatedInv, RequestAt, Request
<1>5. CreatedInv'
  <2> SUFFICES ASSUME NEW d \in Calls, RequestAt(d, "created")'
               PROVE  /\ auction'[request'[d].auction] # NoAuction
                      /\ job'[request'[d].auction] = NoJob
                      /\ \A e \in Calls : RequestAt(e, "created")' /\ request'[e].auction = request'[d].auction
                           => e = d
    BY DEF CreatedInv
  <2>1. CASE d = c
    BY <1>1, <1>2, <1>4, <2>1 DEF RequestAt
  <2>2. CASE d # c
    BY <1>1, <1>4, <2>2 DEF CreatedInv, RequestAt
  <2> QED BY <2>1, <2>2
<1> QED BY <1>3, <1>5

LEMMA CallsKeepJobs ==
  ASSUME AuctionInv, NEW c \in Calls, NEW a \in Auctions
  PROVE  /\ \A u \in Bidders, target \in Tasks \cup {NoTask}, minBid \in Amounts :
              CreateAuction(c, a, u, target, minBid) => JobInv' /\ CreatedInv'
         /\ \A t \in Tasks : ClaimHeldTask(c, a, t) => JobInv' /\ CreatedInv'
         /\ \A u \in Bidders, t \in Tasks : ClaimFreeTask(c, a, u, t) => JobInv' /\ CreatedInv'
         /\ \A u \in Bidders, amount \in Amounts : PlaceBid(c, a, u, amount) => JobInv' /\ CreatedInv'
         /\ \A u \in Bidders : Cancel(c, a, u) => JobInv' /\ CreatedInv'
<1> USE AuctionAssumption DEF AuctionInv
<1>1. ASSUME NEW u \in Bidders, NEW target \in Tasks \cup {NoTask}, NEW minBid \in Amounts,
             CreateAuction(c, a, u, target, minBid)
      PROVE  JobInv' /\ CreatedInv'
  <2>1. [at |-> "created", task |-> target, auction |-> a, user |-> u, amount |-> 0,
         claim |-> FALSE] \in Request
    BY DEF Request
  <2> QED BY <1>1, <2>1, InsertKeepsJobs DEF CreateAuction
<1>2. ASSUME NEW t \in Tasks, ClaimHeldTask(c, a, t) PROVE JobInv' /\ CreatedInv'
  <2>1. [at |-> "created", task |-> t, auction |-> a, user |-> holder[t], amount |-> 0,
         claim |-> TRUE] \in Request
    BY <1>2 DEF Request, ClaimHeldTask, AuctionTypeOK
  <2> QED BY <1>2, <2>1, InsertKeepsJobs DEF ClaimHeldTask
<1>3. ASSUME NEW r, r.at # "created", Call(c, r), UNCHANGED <<auction, job>>
      PROVE  JobInv' /\ CreatedInv'
  <2>1. ~RequestAt(c, "created")' /\ \A d \in Calls : d # c => request'[d] = request[d]
    BY <1>3 DEF Call, AuctionTypeOK, RequestAt
  <2> QED BY <1>3, <2>1, CreatedFrame DEF JobInv, RequestAt
<1> QED BY <1>1, <1>2, <1>3 DEF ClaimFreeTask, PlaceBid, Cancel

LEMMA CallStepsKeepJobs ==
  ASSUME AuctionInv, NEW c \in Calls,
         \/ SaveHolder(c) \/ AddCloseJob(c) \/ ReadForClaim(c) \/ PriceBid(c) \/ SaveBid(c)
         \/ SaveCancelled(c) \/ LoseRequest(c)
  PROVE  JobInv' /\ CreatedInv'
<1> USE DEF AuctionInv
<1>1. /\ ~RequestAt(c, "created")'
      /\ \A d \in Calls : d # c => request'[d] = request[d]
  BY GoOnCreated DEF RequestAt, SaveHolder, AddCloseJob, ReadForClaim, PriceBid, SaveBid, SaveCancelled, LoseRequest
<1>2. CASE AddCloseJob(c)
  <2> DEFINE a == request[c].auction
  <2>1. a \in Auctions /\ job[a] = NoJob /\ auction[a] # NoAuction /\ RequestAt(c, "created")
    BY <1>2 DEF AddCloseJob, CreatedInv, RequestAt, AuctionTypeOK, Request
  <2>2. /\ job' = [job EXCEPT ![a].state = "waiting"] /\ UNCHANGED auction
    BY <1>2 DEF AddCloseJob
  <2>3. JobInv'
    BY <2>1, <2>2, AuctionAssumption DEF JobInv, NoJob, AuctionTypeOK, Job
  <2>4. \A d \in Calls : RequestAt(d, "created")' =>
          d # c /\ RequestAt(d, "created") /\ request[d].auction # a /\ request'[d] = request[d]
    BY <1>1, <2>1 DEF CreatedInv, RequestAt
  <2> HIDE DEF a
  <2>5. CreatedInv'
    BY <2>2, <2>4 DEF CreatedInv, AuctionTypeOK
  <2> QED BY <2>3, <2>5
<1>3. CASE SaveCancelled(c)
  <2>1. \A a \in Auctions : auction[a] # NoAuction => auction'[a] # NoAuction
    BY <1>3 DEF SaveCancelled, AuctionTypeOK, Auction, NoAuction
  <2>2. UNCHANGED job
    BY <1>3 DEF SaveCancelled
  <2>3. JobInv'
    BY <2>1, <2>2 DEF JobInv
  <2> QED BY <1>1, <2>1, <2>2, <2>3, CreatedFrame DEF RequestAt
<1>4. CASE SaveHolder(c) \/ ReadForClaim(c) \/ PriceBid(c) \/ SaveBid(c) \/ LoseRequest(c)
  <2>1. UNCHANGED <<auction, job>>
    BY <1>4 DEF SaveHolder, ReadForClaim, PriceBid, SaveBid, LoseRequest
  <2> QED BY <1>1, <2>1, CreatedFrame DEF JobInv, RequestAt
<1> QED BY <1>2, <1>3, <1>4

\* Steps that leave the calls alone and change a job only if it was added and stays
\* with an attempt or fails.
LEMMA JobFrame ==
  ASSUME AuctionInv, UNCHANGED request,
         \A a \in Auctions : auction[a] # NoAuction => auction'[a] # NoAuction,
         \A a \in Auctions : job'[a] = job[a] \/
           /\ job[a] # NoJob
           /\ job'[a].owner # NoRequest => job'[a].state = "active"
           /\ job'[a].state # "failed" => job'[a].tries < Attempts
  PROVE  JobInv' /\ CreatedInv'
<1>1. JobInv'
  BY DEF AuctionInv, JobInv
<1>2. \A a \in Auctions : job[a] = NoJob => job'[a] = NoJob
  OBVIOUS
<1> QED BY <1>1, <1>2, CreatedFrame DEF AuctionInv, RequestAt

\* A job with an owner was added, and has an attempt left.
LEMMA OwnedJob ==
  ASSUME AuctionInv, NEW a \in Auctions, job[a].owner # NoRequest
  PROVE  job[a] \in Job /\ job[a] # NoJob /\ job[a].tries < Attempts
BY DEF AuctionInv, AuctionTypeOK, JobInv, NoJob

LEMMA DoneKeepsJobs ==
  ASSUME AuctionInv, NEW w \in Closers, closing[w] # NoRequest, Done(w), UNCHANGED request,
         \A a \in Auctions : auction[a] # NoAuction => auction'[a] # NoAuction
  PROVE  JobInv' /\ CreatedInv'
<1> DEFINE a == closing[w].auction
<1>1. a \in Auctions
  BY DEF AuctionInv, AuctionTypeOK, Closing
<1>2. CASE job[a].owner = w
  <2>1. job[a] \in Job /\ job[a] # NoJob /\ job[a].tries < Attempts
    BY <1>1, <1>2, OwnedJob, AuctionAssumption
  <2>2. job' = [job EXCEPT ![a] = [[job[a] EXCEPT !.state = "done"] EXCEPT !.owner = NoRequest]]
    BY <1>2 DEF Done, EndRun
  <2> HIDE DEF a
  <2>3. job'[a].owner = NoRequest /\ job'[a].tries = job[a].tries
    BY <1>1, <2>1, <2>2 DEF AuctionInv, AuctionTypeOK, Job
  <2> QED BY <1>1, <2>1, <2>2, <2>3, JobFrame DEF AuctionInv, AuctionTypeOK
<1>3. CASE job[a].owner # w
  BY <1>3, JobFrame DEF Done, EndRun
<1> QED BY <1>2, <1>3

LEMMA ThrownKeepsJobs ==
  ASSUME AuctionInv, NEW w \in Closers, closing[w] # NoRequest, Thrown(w), UNCHANGED request,
         \A a \in Auctions : auction[a] # NoAuction => auction'[a] # NoAuction
  PROVE  JobInv' /\ CreatedInv'
<1> DEFINE a == closing[w].auction
<1>1. a \in Auctions
  BY DEF AuctionInv, AuctionTypeOK, Closing
<1>2. CASE job[a].owner = w
  <2> DEFINE state == IF job[a].tries + 1 < Attempts THEN "waiting" ELSE "failed"
  <2>1. job[a] \in Job /\ job[a] # NoJob
    BY <1>1, <1>2, OwnedJob, AuctionAssumption
  <2>2. job' = [job EXCEPT ![a] =
          [[job[a] EXCEPT !.tries = @ + 1, !.state = state] EXCEPT !.owner = NoRequest]]
    BY <1>2 DEF Thrown, EndRun
  <2> HIDE DEF a
  <2>3. job'[a].owner = NoRequest /\ job'[a].tries = job[a].tries + 1 /\ job'[a].state = state
    BY <1>1, <2>1, <2>2 DEF AuctionInv, AuctionTypeOK, Job
  <2> QED BY <1>1, <2>1, <2>2, <2>3, JobFrame DEF AuctionInv, AuctionTypeOK
<1>3. CASE job[a].owner # w
  BY <1>3, JobFrame DEF Thrown, EndRun
<1> QED BY <1>2, <1>3

LEMMA RowStaysSaved ==
  ASSUME AuctionTypeOK, NEW w \in Closers, SaveWinner(w)
  PROVE  \A a \in Auctions : auction[a] # NoAuction => auction'[a] # NoAuction
BY DEF SaveWinner, AuctionTypeOK, Auction, NoAuction

LEMMA CloseJobsKeepJobs ==
  ASSUME AuctionInv, NEW w \in Closers,
         CloseJobs(w) \/ FailClose(w) \/ CloseUnheard(w) \/ StallClose(w)
  PROVE  JobInv' /\ CreatedInv'
<1>1. CASE CheckOpen(w)
  BY <1>1, DoneKeepsJobs, JobFrame DEF CheckOpen
<1>2. CASE ChooseWinner(w)
  BY <1>2, JobFrame DEF ChooseWinner
<1>3. CASE SaveClosed(w)
  <2>1. SaveWinner(w) /\ closing[w] # NoRequest
    BY <1>3 DEF SaveClosed, SaveWinner
  <2> QED BY <1>3, <2>1, RowStaysSaved, DoneKeepsJobs DEF SaveClosed, AuctionInv
<1>4. CASE FailClose(w)
  BY <1>4, ThrownKeepsJobs DEF FailClose
<1>5. CASE CloseUnheard(w)
  <2>1. SaveWinner(w) /\ closing[w] # NoRequest
    BY <1>5 DEF CloseUnheard, SaveWinner
  <2> QED BY <1>5, <2>1, RowStaysSaved, ThrownKeepsJobs DEF CloseUnheard, AuctionInv
<1>6. CASE StallClose(w)
  <2> DEFINE a     == closing[w].auction
             state == IF job[a].stalled THEN "failed" ELSE "waiting"
  <2>1. /\ a \in Auctions /\ job[a].owner = w /\ UNCHANGED <<request, auction>>
        /\ job' = [job EXCEPT ![a] = [@ EXCEPT !.stalled = TRUE, !.owner = NoRequest, !.state = state]]
    BY <1>6 DEF StallClose, AuctionInv, AuctionTypeOK, Closing
  <2>2. job[a] \in Job /\ job[a] # NoJob /\ job[a].tries < Attempts
    BY <2>1, OwnedJob, AuctionAssumption
  <2> HIDE DEF a
  <2>3. job'[a].owner = NoRequest /\ job'[a].tries = job[a].tries
    BY <2>1, <2>2 DEF AuctionInv, AuctionTypeOK, Job
  <2> QED BY <2>1, <2>2, <2>3, JobFrame DEF AuctionInv, AuctionTypeOK
<1> QED BY <1>1, <1>2, <1>3, <1>4, <1>5, <1>6 DEF CloseJobs

LEMMA TakeKeepsJobs ==
  ASSUME AuctionInv, NEW a \in Auctions, NEW w \in Closers, TakeCloseJob(w, a)
  PROVE  JobInv' /\ CreatedInv'
<1>1. /\ job[a] \in Job /\ job[a].state = "waiting" /\ job[a].tries < Attempts
      /\ job' = [job EXCEPT ![a] = [@ EXCEPT !.state = "active", !.owner = w]]
      /\ UNCHANGED <<request, auction>>
  BY DEF TakeCloseJob, AuctionInv, AuctionTypeOK, JobInv
<1>2. job[a] # NoJob
  BY <1>1 DEF NoJob
<1>3. job'[a].state = "active" /\ job'[a].tries = job[a].tries
  BY <1>1 DEF AuctionInv, AuctionTypeOK, Job
<1> QED BY <1>1, <1>2, <1>3, JobFrame DEF AuctionInv, AuctionTypeOK

LEMMA AuctionsStep == ASSUME AuctionInv, [AuctionNext]_auctionVars PROVE AuctionInv'
<1>1. ASSUME NEW c \in Calls,
             \/ SaveHolder(c) \/ AddCloseJob(c) \/ ReadForClaim(c) \/ PriceBid(c) \/ SaveBid(c)
             \/ SaveCancelled(c) \/ LoseRequest(c)
      PROVE  AuctionInv'
  BY <1>1, CallStepsKeepType, CallStepsKeepJobs DEF AuctionInv
<1>2. ASSUME NEW c \in Calls, NEW a \in Auctions,
             \/ \E u \in Bidders :
                  \/ \E target \in Tasks \cup {NoTask}, minBid \in Amounts : CreateAuction(c, a, u, target, minBid)
                  \/ \E t \in Tasks : ClaimFreeTask(c, a, u, t)
                  \/ \E amount \in Amounts : PlaceBid(c, a, u, amount)
                  \/ Cancel(c, a, u)
             \/ \E t \in Tasks : ClaimHeldTask(c, a, t)
      PROVE  AuctionInv'
  BY <1>2, CallsKeepType, CallsKeepJobs DEF AuctionInv
<1>3. ASSUME NEW a \in Auctions, Deadline(a) PROVE AuctionInv'
  BY <1>3, OthersKeepType, JobFrame DEF AuctionInv, Deadline
<1>4. ASSUME NEW a \in Auctions, NEW w \in Closers, TakeCloseJob(w, a) PROVE AuctionInv'
  BY <1>4, OthersKeepType, TakeKeepsJobs DEF AuctionInv
<1>5. ASSUME NEW w \in Closers, CloseJobs(w) \/ FailClose(w) \/ CloseUnheard(w) \/ StallClose(w)
      PROVE  AuctionInv'
  BY <1>5, CloseJobsKeepType, CloseJobsKeepJobs DEF AuctionInv
<1>6. ASSUME NEW m \in [task : Tasks, winner : Bidders], AssignWinner(m) \/ AssignFails(m) PROVE AuctionInv'
  BY <1>6, OthersKeepType, JobFrame DEF AuctionInv, AssignWinner, AssignFails
<1>7. CASE UNCHANGED auctionVars
  BY <1>7 DEF AuctionInv, AuctionTypeOK, JobInv, CreatedInv, RequestAt, auctionVars
<1> QED BY <1>1, <1>2, <1>3, <1>4, <1>5, <1>6, <1>7 DEF AuctionNext

LEMMA AuctionsInductive == AuctionSpec => []AuctionInv
<1>1. ASSUME AuctionInit PROVE AuctionInv
  <2>1. JobInv /\ CreatedInv
    BY <1>1, AuctionAssumption DEF AuctionInit, JobInv, CreatedInv, RequestAt, NoJob
  <2> QED BY <1>1, <2>1, AuctionInitType DEF AuctionInv
<1> QED BY <1>1, AuctionsStep, PTL DEF AuctionSpec

\* Rows, bids, jobs, calls and announcements keep their types; above all, the close job
\* of an auction is never run more often than Bull's attempts allow.
THEOREM AuctionTypeCorrect == AuctionSpec => []AuctionTypeOK
<1>1. AuctionInv => AuctionTypeOK
  BY DEF AuctionInv
<1> QED BY <1>1, AuctionsInductive, PTL

-----------------------------------------------------------------------------
(* The highest bid in time wins.  What a row says is not inductive: a run   *)
(* of the close job decides before it saves, so what it is about to save    *)
(* has to be right as well, and stays right because every bid that is       *)
(* saved meanwhile is late.                                                *)

InTime(a) == {b \in bids[a] : ~b.late}

Decided(a, winner, winning) ==
  /\ winner = Nobody => InTime(a) = {}
  /\ winner # Nobody =>
       /\ \E b \in bids[a] : b.by = winner /\ b.amount = winning
       /\ \A b \in InTime(a) : b.amount <= winning

Choosing(w) == closing[w] # NoRequest /\ closing[w].at = "save"

WinnerInv ==
  /\ \A a \in Auctions : auction[a].status = "closed" => Decided(a, auction[a].winner, auction[a].winning)
  /\ \A w \in Closers : Choosing(w) => Decided(closing[w].auction, closing[w].winner, closing[w].winning)

\* Steps that save no bid, choose nobody and close nothing.
LEMMA WinnerFrame ==
  ASSUME WinnerInv, UNCHANGED bids,
         \A a \in Auctions : auction'[a].status = "closed" => auction'[a] = auction[a],
         \A w \in Closers : Choosing(w)' => Choosing(w) /\ closing'[w] = closing[w]
  PROVE  WinnerInv'
BY DEF WinnerInv, Decided, InTime

LEMMA BidKeepsWinner ==
  ASSUME AuctionTypeOK, WinnerInv, NEW c \in Calls, SaveBid(c) PROVE WinnerInv'
<1> DEFINE a   == request[c].auction
           bid == [by |-> request[c].user, amount |-> request[c].amount,
                   late |-> Chosen(a) \/ auction[a].status # "open"]
<1>1. /\ a \in Auctions
      /\ bids' = [bids EXCEPT ![a] = @ \cup {bid}]
      /\ UNCHANGED <<auction, closing>>
  BY DEF SaveBid, RequestAt, AuctionTypeOK, Request
<1>2. bid.late = (Chosen(a) \/ auction[a].status # "open")
  OBVIOUS
<1> HIDE DEF a, bid
<1>3. ASSUME NEW b \in Auctions, NEW winner, NEW winning, Decided(b, winner, winning),
             b = a => bid.late
      PROVE  Decided(b, winner, winning)'
  BY <1>1, <1>3 DEF AuctionTypeOK, Decided, InTime
<1>4. \A b \in Auctions : auction[b].status = "closed" => (b = a => bid.late)
  BY <1>2
<1>5. \A w \in Closers : Choosing(w) => (closing[w].auction = a => bid.late)
  BY <1>2 DEF Choosing, Chosen
<1>6. \A w \in Closers : Choosing(w) => closing[w].auction \in Auctions
  BY DEF Choosing, AuctionTypeOK, Closing
<1> QED BY <1>1, <1>3, <1>4, <1>5, <1>6 DEF WinnerInv, Choosing

LEMMA ChoiceKeepsWinner ==
  ASSUME AuctionTypeOK, WinnerInv, NEW w \in Closers, ChooseWinner(w) PROVE WinnerInv'
<1> DEFINE a == closing[w].auction
<1>1. closing[w] \in Closing /\ a \in Auctions /\ UNCHANGED <<auction, bids>>
  BY DEF ChooseWinner, AuctionTypeOK, Closing
<1>2. PICK u, x :
        /\ closing' = [closing EXCEPT ![w] = [@ EXCEPT !.at = "save", !.winner = u, !.winning = x]]
        /\ Decided(a, u, x)
  <2>1. CASE bids[a] = {} /\ closing' = [closing EXCEPT ![w] =
               [@ EXCEPT !.at = "save", !.winner = Nobody, !.winning = 0]]
    BY <2>1 DEF Decided, InTime
  <2>2. ASSUME NEW b \in Highest(a), closing' = [closing EXCEPT ![w] =
                 [@ EXCEPT !.at = "save", !.winner = b.by, !.winning = b.amount]]
        PROVE  \E u, x :
                 /\ closing' = [closing EXCEPT ![w] = [@ EXCEPT !.at = "save", !.winner = u, !.winning = x]]
                 /\ Decided(a, u, x)
    <3>1. b \in bids[a] /\ b.by # Nobody
      BY <1>1, AuctionAssumption DEF Highest, AuctionTypeOK, Bid
    <3>2. Decided(a, b.by, b.amount)
      BY <3>1 DEF Decided, InTime, Highest
    <3> QED BY <2>2, <3>2
  <2> QED BY <2>1, <2>2 DEF ChooseWinner
<1>3. closing'[w].auction = a /\ closing'[w].winner = u /\ closing'[w].winning = x
  BY <1>1, <1>2 DEF AuctionTypeOK, Closing
<1> HIDE DEF a
<1>4. \A v \in Closers : v # w => closing'[v] = closing[v]
  BY <1>2 DEF AuctionTypeOK
<1> QED BY <1>1, <1>2, <1>3, <1>4 DEF WinnerInv, Choosing, Decided, InTime

\* The row becomes what the run has chosen; a run that ends chooses nobody.
LEMMA SaveKeepsWinner ==
  ASSUME AuctionTypeOK, WinnerInv, NEW w \in Closers, SaveWinner(w), UNCHANGED bids,
         \A v \in Closers : Choosing(v)' => Choosing(v) /\ closing'[v] = closing[v]
  PROVE  WinnerInv'
<1> DEFINE a == closing[w].auction
<1>1. closing[w] \in Closing /\ a \in Auctions /\ Choosing(w)
  BY DEF SaveWinner, AuctionTypeOK, Closing, Choosing
<1>2. auction'[a].winner = closing[w].winner /\ auction'[a].winning = closing[w].winning
  BY <1>1 DEF SaveWinner, AuctionTypeOK, Auction
<1>3. \A b \in Auctions : b # a => auction'[b] = auction[b]
  BY DEF SaveWinner, AuctionTypeOK
<1> QED BY <1>1, <1>2, <1>3 DEF WinnerInv, Decided, InTime

LEMMA EndRunChooses ==
  ASSUME AuctionTypeOK, NEW w \in Closers, NEW next, EndRun(w, next)
  PROVE  \A v \in Closers : Choosing(v)' => Choosing(v) /\ closing'[v] = closing[v]
BY DEF EndRun, AuctionTypeOK, Choosing

\* However often and by whom an auction is closed, cancelled and bid for: no bid that was
\* saved before the winner was chosen is higher than the winning one, and it was made.
THEOREM WinnerIsHighest == AuctionSpec => []HighestWins
<1>1. ASSUME AuctionInit PROVE WinnerInv
  BY <1>1 DEF AuctionInit, WinnerInv, Choosing, NoAuction
<1>2. ASSUME AuctionTypeOK, WinnerInv, [AuctionNext]_auctionVars PROVE WinnerInv'
  <2> USE <1>2
  <2>1. ASSUME NEW c \in Calls, NEW a \in Auctions, NEW r, NEW target, NEW minBid,
               Insert(c, a, r, target, minBid)
        PROVE  WinnerInv'
    <3>1. \A b \in Auctions : auction'[b].status = "closed" => auction'[b] = auction[b]
      BY <2>1 DEF Insert, AuctionTypeOK, NoAuction
    <3> QED BY <2>1, <3>1, WinnerFrame DEF Insert, Choosing
  <2>2. ASSUME NEW c \in Calls, SaveCancelled(c) PROVE WinnerInv'
    <3>1. \A b \in Auctions : auction'[b].status = "closed" => auction'[b] = auction[b]
      BY <2>2 DEF SaveCancelled, AuctionTypeOK, Auction
    <3> QED BY <2>2, <3>1, WinnerFrame DEF SaveCancelled, Choosing
  <2>3. CASE UNCHANGED <<auction, bids, closing>>
    BY <2>3, WinnerFrame DEF Choosing
  <2>4. ASSUME NEW w \in Closers, NEW a \in Auctions, TakeCloseJob(w, a) PROVE WinnerInv'
    BY <2>4, WinnerFrame DEF TakeCloseJob, Choosing, AuctionTypeOK
  <2>5. ASSUME NEW w \in Closers, CheckOpen(w) PROVE WinnerInv'
    <3>1. \A v \in Closers : Choosing(v)' => Choosing(v) /\ closing'[v] = closing[v]
      BY <2>5, EndRunChooses DEF CheckOpen, Done, Choosing, AuctionTypeOK, Closing
    <3> QED BY <2>5, <3>1, WinnerFrame DEF CheckOpen
  <2>6. ASSUME NEW w \in Closers, FailClose(w) PROVE WinnerInv'
    BY <2>6, EndRunChooses, WinnerFrame DEF FailClose, Thrown
  <2>7. ASSUME NEW w \in Closers, SaveClosed(w) PROVE WinnerInv'
    BY <2>7, EndRunChooses, SaveKeepsWinner DEF SaveClosed, Done
  <2>8. ASSUME NEW w \in Closers, CloseUnheard(w) PROVE WinnerInv'
    BY <2>8, EndRunChooses, SaveKeepsWinner DEF CloseUnheard, Thrown
  <2>9. CASE UNCHANGED auctionVars
    BY <2>3, <2>9 DEF auctionVars
  <2>10. CASE AuctionNext
    <3>1. ASSUME NEW c \in Calls, \/ SaveHolder(c) \/ AddCloseJob(c) \/ ReadForClaim(c)
                                  \/ PriceBid(c) \/ LoseRequest(c)
          PROVE  WinnerInv'
      BY <2>3, <3>1 DEF SaveHolder, AddCloseJob, ReadForClaim, PriceBid, LoseRequest
    <3>2. ASSUME NEW c \in Calls, NEW a \in Auctions, NEW u \in Bidders
          PROVE  /\ \A target \in Tasks \cup {NoTask}, minBid \in Amounts :
                      CreateAuction(c, a, u, target, minBid) => WinnerInv'
                 /\ \A t \in Tasks : ClaimFreeTask(c, a, u, t) => WinnerInv'
                 /\ \A amount \in Amounts : PlaceBid(c, a, u, amount) => WinnerInv'
                 /\ Cancel(c, a, u) => WinnerInv'
      BY <2>1, <2>3 DEF CreateAuction, ClaimFreeTask, PlaceBid, Cancel
    <3>3. ASSUME NEW c \in Calls, NEW a \in Auctions, NEW t \in Tasks, ClaimHeldTask(c, a, t)
          PROVE  WinnerInv'
      BY <2>1, <3>3 DEF ClaimHeldTask
    <3>4. ASSUME NEW a \in Auctions, Deadline(a) PROVE WinnerInv'
      BY <2>3, <3>4 DEF Deadline
    <3>5. ASSUME NEW w \in Closers, StallClose(w) PROVE WinnerInv'
      BY <2>3, <3>5 DEF StallClose
    <3>6. ASSUME NEW m \in [task : Tasks, winner : Bidders], AssignWinner(m) \/ AssignFails(m)
          PROVE  WinnerInv'
      BY <2>3, <3>6 DEF AssignWinner, AssignFails
    <3> QED
      BY <2>2, <2>4, <2>5, <2>6, <2>7, <2>8, <2>10, <3>1, <3>2, <3>3, <3>4, <3>5, <3>6,
         BidKeepsWinner, ChoiceKeepsWinner DEF AuctionNext, CloseJobs
  <2> QED BY <2>9, <2>10
<1>3. WinnerInv => HighestWins
  BY DEF WinnerInv, HighestWins, Decided, InTime
<1> QED BY <1>1, <1>2, <1>3, AuctionTypeCorrect, PTL DEF AuctionSpec

-----------------------------------------------------------------------------
(* Points melt by thirds.  PowerOfThree and Melted are recursive: they are   *)
(* what their equations say because functions with these equations exist.   *)

IsPowers(power, D) == power = [n \in D |-> IF n = 0 THEN 1 ELSE 3 * power[n - 1]]

LEMMA PowersAre == IsPowers(PowerOfThree, Nat)
<1>1. PICK next, one : next = [k \in Nat |-> 3 * k] /\ one = 1
  OBVIOUS
<1>2. PICK f : IsOrbit(f, one, next, Nat)
  BY OrbitExists
<1>3. \A n \in Nat : f[n] \in Nat
  <2>1. PICK S : S = Nat
    OBVIOUS
  <2>2. one \in S /\ \A k \in S : next[k] \in S
    BY <1>1, <2>1
  <2> QED BY <1>2, <2>1, <2>2, OrbitStays
<1>4. \A n \in Nat : f[n] = IF n = 0 THEN 1 ELSE 3 * f[n - 1]
  <2> SUFFICES ASSUME NEW n \in Nat PROVE f[n] = IF n = 0 THEN 1 ELSE 3 * f[n - 1]
    OBVIOUS
  <2>1. f[n] = IF n = 0 THEN one ELSE next[f[n - 1]]
    BY <1>2 DEF IsOrbit
  <2> QED BY <1>1, <1>3, <2>1
<1>5. IsPowers(f, Nat)
  <2>1. f = [n \in Nat |-> f[n]]
    BY <1>2 DEF IsOrbit
  <2> QED BY <1>4, <2>1 DEF IsPowers
<1> QED BY <1>5 DEF IsPowers, PowerOfThree

LEMMA PowerType == \A n \in Nat : PowerOfThree[n] \in Nat \ {0}
<1>1. PICK B : B = {n \in Nat : PowerOfThree[n] \notin Nat \ {0}}
  OBVIOUS
<1> SUFFICES ASSUME B # {} PROVE FALSE
  BY <1>1
<1>2. PICK n \in B : \A k \in B : n <= k
  BY <1>1, Least
<1>3. n \in Nat /\ PowerOfThree[n] \notin Nat \ {0}
  BY <1>1
<1>4. PowerOfThree[n] = IF n = 0 THEN 1 ELSE 3 * PowerOfThree[n - 1]
  BY <1>3, PowersAre DEF IsPowers
<1>5. n # 0
  BY <1>3, <1>4
<1>6. n - 1 \notin B
  BY <1>2, <1>3, <1>5
<1>7. PowerOfThree[n - 1] \in Nat \ {0}
  BY <1>1, <1>3, <1>5, <1>6
<1> QED BY <1>3, <1>4, <1>5, <1>7

LEMMA DivStep ==
  ASSUME NEW p \in Nat, NEW k \in Nat \ {0}
  PROVE  p \div (3 * k) = (p \div k) \div 3
<1>1. PICK q \in Nat : q = p \div k /\ k * q <= p /\ p < k * q + k
  OBVIOUS
<1>2. PICK r \in Nat : r = q \div 3 /\ 3 * r <= q /\ q < 3 * r + 3
  OBVIOUS
<1>3. PICK n \in Nat : n = 3 * k
  OBVIOUS
<1>4. n * r <= p /\ p < n * r + n
  <2>1. PICK d \in {0, 1, 2} : q = 3 * r + d
    BY <1>2
  <2>2. n * r = 3 * (k * r)
    BY <1>3
  <2>3. k * q = 3 * (k * r) + d * k
    BY <2>1
  <2>4. k * r \in Nat /\ d * k \in 0 .. 2 * k
    BY <2>1
  <2> QED BY <1>1, <1>3, <2>2, <2>3, <2>4
<1>5. p \div n = r
  BY <1>3, <1>4
<1> QED BY <1>1, <1>2, <1>3, <1>5

\* Reference and code agree: what is left after some steps is the integer part of the
\* points divided by a power of three.
LEMMA MeltedIs ==
  \A points \in Nat, steps \in Nat : Melted[steps][points] = points \div PowerOfThree[steps]
<1> DEFINE Built(f) == f = [steps \in Nat |-> [points \in Nat |->
                              IF steps = 0 THEN points ELSE f[steps - 1][points] \div 3]]
<1>1. PICK f : f = [steps \in Nat |-> [points \in Nat |-> points \div PowerOfThree[steps]]]
  OBVIOUS
<1>2. ASSUME NEW steps \in Nat, NEW points \in Nat
      PROVE  f[steps][points] = IF steps = 0 THEN points ELSE f[steps - 1][points] \div 3
  <2>1. PowerOfThree[steps] = IF steps = 0 THEN 1 ELSE 3 * PowerOfThree[steps - 1]
    BY PowersAre DEF IsPowers
  <2>2. CASE steps = 0
    BY <1>1, <2>1, <2>2
  <2>3. CASE steps # 0
    <3>1. PICK m \in Nat : m = steps - 1
      BY <2>3
    <3>2. PICK k \in Nat \ {0} : k = PowerOfThree[m]
      BY PowerType
    <3>3. f[steps][points] = points \div (3 * k) /\ f[m][points] = points \div k
      BY <1>1, <2>1, <2>3, <3>1, <3>2
    <3> QED BY <2>3, <3>1, <3>3, DivStep
  <2> QED BY <2>2, <2>3
<1>3. Built(f)
  <2>1. PICK g : g = [steps \in Nat |-> [points \in Nat |->
                       IF steps = 0 THEN points ELSE f[steps - 1][points] \div 3]]
    OBVIOUS
  <2>2. ASSUME NEW steps \in Nat PROVE f[steps] = g[steps]
    BY <1>1, <1>2, <2>1
  <2> QED BY <1>1, <2>1, <2>2
<1>4. Built(Melted)
  <2>1. Melted = CHOOSE g : Built(g)
    BY DEF Melted
  <2> HIDE DEF Built
  <2> QED BY <1>3, <2>1
<1>5. PICK g : g = Melted
  OBVIOUS
<1>6. ASSUME NEW steps \in Nat, NEW points \in Nat
      PROVE  g[steps][points] = IF steps = 0 THEN points ELSE g[steps - 1][points] \div 3
  BY <1>4, <1>5
<1>7. ASSUME NEW points \in Nat PROVE \A steps \in Nat : g[steps][points] = f[steps][points]
  <2>1. PICK B : B = {steps \in Nat : g[steps][points] # f[steps][points]}
    OBVIOUS
  <2> SUFFICES ASSUME B # {} PROVE FALSE
    BY <2>1
  <2>2. PICK n \in B : \A k \in B : n <= k
    BY <2>1, Least
  <2>3. n \in Nat /\ g[n][points] # f[n][points]
    BY <2>1
  <2>4. n # 0
    BY <1>2, <1>6, <2>3
  <2>5. PICK m \in Nat : m = n - 1
    BY <2>3, <2>4
  <2>6. m \notin B
    BY <2>2, <2>3, <2>5
  <2> QED BY <1>2, <1>6, <2>1, <2>3, <2>4, <2>5, <2>6
<1> QED BY <1>1, <1>5, <1>7

LEMMA TierType ==
  ASSUME NEW acquired \in Nat, NEW current \in Nat, NEW cycles \in Nat \ {0}, current > acquired
  PROVE  /\ Tier(acquired, current, cycles) \in Nat
         /\ Tier(acquired, current + 1, cycles) \in
              {Tier(acquired, current, cycles), Tier(acquired, current, cycles) + 1}
<1>1. PICK d \in Nat : d = current - acquired /\ d + 1 = (current + 1) - acquired
  OBVIOUS
<1>2. PICK q \in Nat : q = d \div cycles /\ cycles * q <= d /\ d < cycles * q + cycles
  OBVIOUS
<1>3. (d + 1) \div cycles \in {q, q + 1}
  <2>1. CASE d + 1 < cycles * q + cycles
    BY <1>2, <2>1
  <2>2. CASE d + 1 = cycles * (q + 1)
    BY <2>2
  <2>3. cycles * (q + 1) = cycles * q + cycles
    OBVIOUS
  <2> QED BY <1>2, <2>1, <2>2, <2>3
<1> QED BY <1>1, <1>2, <1>3 DEF Tier

LEMMA ActivePointsType ==
  ASSUME NEW points \in Nat, NEW acquired \in Nat, NEW current \in Nat,
         NEW cycles \in Nat \ {0}, NEW steps \in Nat
  PROVE  ActivePoints(points, acquired, current, cycles, steps) \in Nat
<1>1. CASE current <= acquired
  BY <1>1 DEF ActivePoints
<1>2. CASE current > acquired
  <2>1. PICK tier \in Nat : tier = Tier(acquired, current, cycles)
    BY <1>2, TierType
  <2>2. PICK k \in Nat \ {0} : k = PowerOfThree[tier]
    BY PowerType
  <2>3. points \div k \in Nat
    OBVIOUS
  <2> QED BY <2>1, <2>2, <2>3 DEF ActivePoints
<1> QED BY <1>1, <1>2

\* annealing.ts against its reference, for all points, rounds and configurations: a record
\* is worth what a third, rounded down at every complete step, leaves of it; it never grows
\* from one round to the next; and the divisor that is shown fits what is left.
THEOREM MeltsByThirds ==
  ASSUME NEW points \in Nat, NEW acquired \in Nat, NEW current \in Nat,
         NEW cycles \in Nat \ {0}, NEW steps \in Nat,
         NEW worth, worth = ActivePoints(points, acquired, current, cycles, steps),
         NEW complete, complete = IF current > acquired THEN Tier(acquired, current, cycles) ELSE 0
  PROVE  /\ worth = IF current > acquired /\ complete >= steps THEN 0 ELSE Melted[complete][points]
         /\ ActivePoints(points, acquired, current + 1, cycles, steps) <= worth
         /\ worth > 0 => worth = points \div DivisorForRound(acquired, current, cycles)
<1>1. complete \in Nat
  BY TierType
<1>2. PICK k \in Nat \ {0} : k = PowerOfThree[complete]
  BY <1>1, PowerType
<1>3. PowerOfThree[0] = 1 /\ PowerOfThree[complete + 1] = 3 * k
  BY <1>1, <1>2, PowersAre DEF IsPowers
<1>4. Melted[complete][points] = points \div k
  BY <1>1, <1>2, MeltedIs
<1>5. PICK rest \in Nat : rest = points \div k
  OBVIOUS
<1>6. points \div (3 * k) <= rest
  BY <1>5, DivStep
<1>7. CASE current <= acquired
  <2>1. worth = points /\ complete = 0 /\ k = 1 /\ rest = points
    BY <1>2, <1>3, <1>5, <1>7 DEF ActivePoints
  <2>2. ActivePoints(points, acquired, current + 1, cycles, steps) <= worth
    <3>1. CASE current + 1 <= acquired
      BY <2>1, <3>1 DEF ActivePoints
    <3>2. CASE current = acquired
      <4>1. Tier(acquired, current + 1, cycles) \in {0, 1}
        <5>1. (current + 1) - acquired = 1
          BY <3>2
        <5>2. 1 \div cycles \in {0, 1}
          <6>1. cycles = 1 \/ cycles > 1
            OBVIOUS
          <6> QED BY <6>1
        <5> QED BY <5>1, <5>2 DEF Tier
      <4>2. PowerOfThree[1] = 3
        BY <1>3, PowersAre DEF IsPowers
      <4>3. points \div 3 <= points /\ points \div 1 = points
        OBVIOUS
      <4> QED BY <1>3, <2>1, <3>2, <4>1, <4>2, <4>3 DEF ActivePoints
    <3> QED BY <1>7, <3>1, <3>2
  <2>3. DivisorForRound(acquired, current, cycles) = 1
    BY <1>7 DEF DivisorForRound
  <2> QED BY <1>4, <1>5, <1>7, <2>1, <2>2, <2>3
<1>8. CASE current > acquired
  <2>1. complete = Tier(acquired, current, cycles)
    BY <1>8
  <2>2. worth = IF complete >= steps THEN 0 ELSE rest
    BY <1>2, <1>5, <1>8, <2>1 DEF ActivePoints
  <2>3. PICK later \in Nat : later = Tier(acquired, current + 1, cycles) /\ later \in {complete, complete + 1}
    BY <1>1, <1>8, <2>1, TierType
  <2>4. ActivePoints(points, acquired, current + 1, cycles, steps)
          = IF later >= steps THEN 0 ELSE points \div PowerOfThree[later]
    BY <1>8, <2>3 DEF ActivePoints
  <2>5. points \div PowerOfThree[later] <= rest
    BY <1>2, <1>3, <1>5, <1>6, <2>3
  <2>6. ActivePoints(points, acquired, current + 1, cycles, steps) <= worth
    BY <1>1, <2>2, <2>3, <2>4, <2>5
  <2>7. DivisorForRound(acquired, current, cycles) = k
    BY <1>2, <1>8, <2>1 DEF DivisorForRound
  <2> QED BY <1>4, <1>5, <1>8, <2>2, <2>6, <2>7
<1> QED BY <1>7, <1>8

LEMMA ActiveType ==
  ASSUME PointsTypeOK
  PROVE  IsFiniteSet(DOMAIN records) /\ \A r \in DOMAIN records : Active(r) \in Nat
<1>1. IsFiniteSet(DOMAIN records)
  <2>1. PICK n \in Nat : n = Len(records)
    BY DEF PointsTypeOK
  <2>2. DOMAIN records = 1 .. n
    BY <2>1 DEF PointsTypeOK
  <2>3. IsFiniteSet(1 .. n)
    BY FS_Interval
  <2> QED BY <2>2, <2>3
<1>2. ASSUME NEW r \in DOMAIN records PROVE Active(r) \in Nat
  <2>4. records[r] \in [user : Users, points : Awards, round : 0 .. MaxRound]
    <3>1. PICK Rows : Rows = [user : Users, points : Awards, round : 0 .. MaxRound]
      OBVIOUS
    <3>2. records \in Seq(Rows) /\ DOMAIN records = 1 .. Len(records)
      BY <3>1 DEF PointsTypeOK
    <3>3. records[r] \in Rows
      BY <3>2, ElementOfSeq
    <3> QED BY <3>1, <3>3
  <2>5. records[r].points \in Nat /\ records[r].round \in Nat
    <3>1. records[r].points \in Awards /\ records[r].round \in 0 .. MaxRound
      BY <2>4
    <3>2. Awards \subseteq Nat /\ MaxRound \in Nat
      BY PointsAssumption
    <3>3. records[r].points \in Nat
      BY <3>1, <3>2
    <3>4. records[r].round \in Nat
      BY <3>1, <3>2
    <3> QED BY <3>3, <3>4
  <2>1. PICK points \in Nat, acquired \in Nat : points = records[r].points /\ acquired = records[r].round
    BY <2>5
  <2>2. round \in Nat
    BY PointsAssumption DEF PointsTypeOK
  <2>3. ActivePoints(points, acquired, round, CyclesPerStep, MaxSteps) \in Nat
    BY <2>1, <2>2, ActivePointsType, PointsAssumption
  <2> QED BY <2>1, <2>3 DEF Active
<1> QED BY <1>1, <1>2

\* What is left of a user's points is a sum of natural numbers.
LEMMA ActiveSum ==
  ASSUME PointsTypeOK, NEW S \in SUBSET (DOMAIN records)
  PROVE  MapThenSumSet(Active, S) \in Nat
<1> DEFINE Built(g) == g = [s \in SUBSET S |-> IF s = {} THEN 0 ELSE Active(CHOOSE r \in s : TRUE)
                                                               + g[s \ {CHOOSE r \in s : TRUE}]]
<1>1. PICK iter : iter = CHOOSE g : Built(g)
  OBVIOUS
<1>2. MapThenSumSet(Active, S) = iter[S]
  BY <1>1 DEF MapThenSumSet, MapThenFoldSet
<1>3. PICK value : value = [r \in S |-> Active(r)]
  OBVIOUS
<1>4. IsFiniteSet(S) /\ value \in [S -> Nat]
  BY <1>3, ActiveType, FS_Subset
<1>5. PICK sum : IsSum(sum, value, S)
  BY <1>4, SumExists
<1>6. ASSUME NEW g PROVE Built(g) <=> IsSum(g, value, S)
  <2>1. \A s \in SUBSET S : s # {} => value[Some(s)] = Active(Some(s))
    BY <1>3, SomeIs
  <2>2. Built(g) <=> g = [s \in SUBSET S |-> IF s = {} THEN 0 ELSE Active(Some(s)) + g[s \ {Some(s)}]]
    BY DEF Some
  <2>3. IsSum(g, value, S)
          <=> g = [s \in SUBSET S |-> IF s = {} THEN 0 ELSE value[Some(s)] + g[s \ {Some(s)}]]
    BY DEF IsSum
  <2> QED BY <2>1, <2>2, <2>3
<1>7. Built(iter)
  <2>1. Built(sum)
    BY <1>5, <1>6
  <2> HIDE DEF Built
  <2> QED BY <1>1, <2>1
<1>8. IsSum(iter, value, S)
  BY <1>6, <1>7
<1> QED BY <1>2, <1>4, <1>8, SumType

-----------------------------------------------------------------------------
(* Points stay typed, and a vote weighs at least 1.                         *)

LEMMA PointsStep == ASSUME PointsTypeOK, [PointsNext]_pointsVars PROVE PointsTypeOK'
<1>1. ASSUME NEW u \in Users, NEW points \in Awards, Award(u, points) PROVE PointsTypeOK'
  <2>1. round' = round /\ members' = members /\ Len(records) < MaxRecords
    BY <1>1 DEF Award
  <2>2. PICK r : r = [user |-> u, points |-> points, round |-> round]
    OBVIOUS
  <2>3. r \in [user : Users, points : Awards, round : 0 .. MaxRound] /\ records' = Append(records, r)
    BY <1>1, <2>2 DEF Award, PointsTypeOK
  <2>4. /\ records' \in Seq([user : Users, points : Awards, round : 0 .. MaxRound])
        /\ Len(records') = Len(records) + 1
    BY <2>3 DEF PointsTypeOK
  <2> QED BY <2>1, <2>4, PointsAssumption DEF PointsTypeOK
<1>2. CASE NextRound
  BY <1>2, PointsAssumption DEF NextRound, PointsTypeOK
<1>3. CASE \E u \in Users : Leave(u)
  BY <1>3 DEF Leave, PointsTypeOK
<1>4. CASE UNCHANGED pointsVars
  BY <1>4 DEF pointsVars, PointsTypeOK
<1> QED BY <1>1, <1>2, <1>3, <1>4 DEF PointsNext

LEMMA WeightType == ASSUME PointsTypeOK, NEW u PROVE Weight(u) \in Nat \ {0}
<1>1. ASSUME u \in members PROVE MembersActive[u] \in Nat
  <2>1. RecordsOf(u) \in SUBSET (DOMAIN records)
    BY DEF RecordsOf
  <2> QED BY <1>1, <2>1, ActiveSum DEF MembersActive, PointsInProject
<1> QED BY <1>1 DEF Weight

-----------------------------------------------------------------------------
(* The weight of votes is that of those in favour and of those against.     *)

CastVote == [by : Users, yes : BOOLEAN, weight : Nat \ {0}, late : BOOLEAN]

LEMMA WeightSum ==
  ASSUME NEW S, IsFiniteSet(S), NEW value, \A v \in S : value[v] = v.weight
  PROVE  \E sum : IsSum(sum, value, S) /\ WeightOf(S) = sum[S]
<1> DEFINE Built(g) == g = [s \in SUBSET S |-> IF s = {} THEN 0 ELSE (CHOOSE v \in s : TRUE).weight
                                                               + g[s \ {CHOOSE v \in s : TRUE}]]
<1>1. PICK iter : iter = CHOOSE g : Built(g)
  OBVIOUS
<1>2. WeightOf(S) = iter[S]
  BY <1>1 DEF WeightOf, MapThenSumSet, MapThenFoldSet
<1>3. PICK sum : IsSum(sum, value, S)
  BY SumExists
<1>4. ASSUME NEW g PROVE Built(g) <=> IsSum(g, value, S)
  <2>1. \A s \in SUBSET S : s # {} => value[Some(s)] = Some(s).weight
    BY SomeIs
  <2>2. Built(g) <=> g = [s \in SUBSET S |-> IF s = {} THEN 0 ELSE Some(s).weight + g[s \ {Some(s)}]]
    BY DEF Some
  <2>3. IsSum(g, value, S)
          <=> g = [s \in SUBSET S |-> IF s = {} THEN 0 ELSE value[Some(s)] + g[s \ {Some(s)}]]
    BY DEF IsSum
  <2> QED BY <2>1, <2>2, <2>3
<1>5. Built(iter)
  <2>1. Built(sum)
    BY <1>3, <1>4
  <2> HIDE DEF Built
  <2> QED BY <1>1, <2>1
<1>6. IsSum(iter, value, S)
  BY <1>4, <1>5
<1> QED BY <1>2, <1>6

LEMMA WeightSplit ==
  ASSUME NEW S \in SUBSET CastVote, IsFiniteSet(S), NEW T \in SUBSET S
  PROVE  /\ WeightOf(S) = WeightOf(T) + WeightOf(S \ T)
         /\ WeightOf(S) \in Nat /\ WeightOf(T) \in Nat /\ WeightOf(S \ T) \in Nat
<1>1. PICK value : value = [v \in S |-> v.weight]
  OBVIOUS
<1>2. value \in [S -> Nat]
  BY <1>1 DEF CastVote
<1>3. PICK sum : IsSum(sum, value, S)
  BY SumExists
<1>4. ASSUME NEW s \in SUBSET S PROVE WeightOf(s) = sum[s]
  <2>1. IsFiniteSet(s) /\ \A v \in s : value[v] = v.weight
    BY <1>1, FS_Subset
  <2>2. PICK piece : IsSum(piece, value, s) /\ WeightOf(s) = piece[s]
    BY <2>1, WeightSum
  <2> QED BY <1>3, <2>2, SumUnique
<1>5. PICK rest \in SUBSET S : rest = S \ T
  OBVIOUS
<1>6. sum[S] = sum[T] + sum[rest]
  BY <1>2, <1>3, <1>5, SumSplit
<1>7. sum[S] \in Nat /\ sum[T] \in Nat /\ sum[rest] \in Nat
  BY <1>2, <1>3, SumType
<1> QED BY <1>4, <1>5, <1>6, <1>7

-----------------------------------------------------------------------------
(* Votes are counted: what a call that closes the session counted are votes *)
(* of different users, among them all that are not late; its tally and the  *)
(* result of a decided session are the outcome of such votes.               *)

Countable(cast) == cast \in SUBSET votes /\ {v \in votes : ~v.late} \subseteq cast

Tallies == [yes : Nat, total : Nat, participants : Nat, members : Nat]

Outcome(cast, tally) ==
  /\ tally \in Tallies
  /\ tally.total = WeightOf(cast) /\ tally.yes = WeightOf({v \in cast : v.yes})
  /\ tally.participants = Cardinality(cast)

IsCast(call) == call \in [at : {"cast", "weigh", "insert"}, yes : BOOLEAN, weight : Nat]

IsClose(call) ==
  /\ call = [at |-> call.at, votes |-> call.votes, tally |-> call.tally]
  /\ call.at \in {"count", "members", "save"}

VotesTyped ==
  /\ votes \in SUBSET CastVote /\ IsFiniteSet(votes)
  /\ \A v, w \in votes : v.by = w.by => v = w

CallsTyped ==
  /\ ballot = [t \in Tabs |-> ballot[t]]
  /\ \A t \in Tabs : ballot[t] # NoBallot => IsCast(ballot[t]) \/ IsClose(ballot[t])

CallsCount ==
  \A t \in Tabs :
    /\ Stage(t, "insert") => ballot[t].weight > 0
    /\ Stage(t, "members") => Countable(ballot[t].votes)
    /\ Stage(t, "save") => \E cast : Countable(cast) /\ Outcome(cast, ballot[t].tally)

Counted ==
  /\ session.status \in {"open", "passed", "failed"}
  /\ session.status = "open" => session.result = NoResult
  /\ session.status # "open" =>
       \E cast : /\ Countable(cast) /\ Outcome(cast, session.result)
                 /\ session.status = "passed" <=> Passes(session.result)

PagesTyped ==
  /\ page = [t \in Tabs |-> page[t]]
  /\ \A t \in Tabs : page[t] = NoPage \/ page[t] \in [open : BOOLEAN, mine : BOOLEAN]

BallotInv == PointsTypeOK /\ VotesTyped /\ CallsTyped /\ CallsCount /\ Counted /\ PagesTyped

LEMMA BallotInitInv == ASSUME BallotInit, PointsInit PROVE BallotInv
<1>1. PointsTypeOK
  BY PointsAssumption DEF PointsInit, PointsTypeOK
<1>2. VotesTyped
  BY FS_EmptySet DEF BallotInit, VotesTyped
<1>3. CallsTyped /\ CallsCount
  BY DEF BallotInit, CallsTyped, CallsCount, Stage
<1>4. Counted
  BY DEF BallotInit, Counted
<1>5. PagesTyped
  BY DEF BallotInit, PagesTyped
<1> QED BY <1>1, <1>2, <1>3, <1>4, <1>5 DEF BallotInv

\* Votes that are not late stay, and only late ones come.
LEMMA StillCountable ==
  ASSUME NEW cast, Countable(cast), votes \subseteq votes', \A v \in votes' \ votes : v.late
  PROVE  Countable(cast)'
BY DEF Countable

\* A step that leaves votes and session alone, and changes the call of one page.
LEMMA CallChanges ==
  ASSUME BallotInv, NEW t \in Tabs, NEW call, ballot' = [ballot EXCEPT ![t] = call],
         UNCHANGED <<votes, session, pointsVars>>, PagesTyped',
         call # NoBallot => IsCast(call) \/ IsClose(call),
         call # NoBallot /\ call.at = "insert" => call.weight > 0,
         call # NoBallot /\ call.at = "members" => Countable(call.votes),
         call # NoBallot /\ call.at = "save" => \E cast : Countable(cast) /\ Outcome(cast, call.tally)
  PROVE  BallotInv'
<1>1. PointsTypeOK'
  BY DEF BallotInv, PointsTypeOK, pointsVars
<1>2. VotesTyped'
  BY DEF BallotInv, VotesTyped
<1>3. CallsTyped'
  <2>1. ballot' = [s \in Tabs |-> IF s = t THEN call ELSE ballot[s]]
    BY DEF BallotInv, CallsTyped
  <2> QED BY <2>1 DEF BallotInv, CallsTyped, IsCast, IsClose
<1>4. CallsCount'
  <2>1. \A s \in Tabs : ballot'[s] = IF s = t THEN call ELSE ballot[s]
    BY DEF BallotInv, CallsTyped
  <2> SUFFICES ASSUME NEW s \in Tabs
               PROVE  /\ Stage(s, "insert")' => ballot'[s].weight > 0
                      /\ Stage(s, "members")' => Countable(ballot[s].votes)'
                      /\ Stage(s, "save")' => \E cast : Countable(cast)' /\ Outcome(cast, ballot'[s].tally)
    BY DEF CallsCount
  <2>2. \A cast : Countable(cast)' <=> Countable(cast)
    BY DEF Countable
  <2>3. Countable(ballot[s].votes)' <=> Countable(ballot'[s].votes)
    BY DEF Countable
  <2>4. CASE s = t
    BY <2>1, <2>2, <2>3, <2>4 DEF Stage
  <2>5. CASE s # t
    BY <2>1, <2>2, <2>3, <2>5 DEF BallotInv, CallsCount, Stage
  <2> QED BY <2>4, <2>5
<1>5. Counted'
  BY DEF BallotInv, Counted, Countable
<1> QED BY <1>1, <1>2, <1>3, <1>4, <1>5 DEF BallotInv

LEMMA RefuseInv == ASSUME BallotInv, NEW t \in Tabs, Refuse(t) PROVE BallotInv'
BY CallChanges DEF Refuse, BallotInv, PagesTyped

LEMMA OpenPageInv == ASSUME BallotInv, NEW t \in Tabs, OpenPage(t) PROVE BallotInv'
<1>1. ballot' = [ballot EXCEPT ![t] = NoBallot]
  BY DEF OpenPage, BallotInv, CallsTyped
<1>2. PagesTyped'
  BY DEF OpenPage, Load, HasVoted, BallotInv, PagesTyped
<1> QED BY <1>1, <1>2, CallChanges DEF OpenPage

LEMMA AskInv ==
  ASSUME BallotInv, NEW t \in Tabs, NEW call, Ask(t, call), IsCast(call) \/ IsClose(call),
         call.at \in {"cast", "count"}
  PROVE  BallotInv'
BY CallChanges DEF Ask, BallotInv, PagesTyped

LEMMA ClickVoteInv == ASSUME BallotInv, NEW t \in Tabs, NEW yes \in BOOLEAN, ClickVote(t, yes) PROVE BallotInv'
<1>1. PICK call : call = [at |-> "cast", yes |-> yes, weight |-> 0]
  OBVIOUS
<1> QED BY <1>1, AskInv DEF ClickVote, IsCast

LEMMA ClickCloseInv == ASSUME BallotInv, NEW t \in Tabs, ClickClose(t) PROVE BallotInv'
<1>1. PICK call : call = [at |-> "count", votes |-> {}, tally |-> NoResult]
  OBVIOUS
<1> QED BY <1>1, AskInv DEF ClickClose, IsClose

LEMMA ReadSessionInv == ASSUME BallotInv, NEW t \in Tabs, ReadSession(t) PROVE BallotInv'
<1>1. CASE session.status # "open"
  BY <1>1, RefuseInv DEF ReadSession
<1>2. CASE session.status = "open"
  <2>1. PICK call : call = [ballot[t] EXCEPT !.at = "weigh"]
    OBVIOUS
  <2>2. ballot' = [ballot EXCEPT ![t] = call] /\ UNCHANGED <<session, votes, page, pointsVars>>
    BY <1>2, <2>1 DEF ReadSession
  <2>3. IsCast(ballot[t])
    BY DEF ReadSession, Stage, BallotInv, CallsTyped, IsClose
  <2>4. IsCast(call) /\ call.at = "weigh"
    BY <2>1, <2>3 DEF IsCast
  <2> QED BY <2>2, <2>4, CallChanges DEF BallotInv, PagesTyped
<1> QED BY <1>1, <1>2

LEMMA WeighInv == ASSUME BallotInv, NEW t \in Tabs, Weigh(t) PROVE BallotInv'
<1>1. CASE HasVoted(TabOf[t])
  BY <1>1, RefuseInv DEF Weigh
<1>2. CASE ~HasVoted(TabOf[t])
  <2>1. PICK weight \in Nat \ {0} : weight = Weight(TabOf[t])
    BY WeightType DEF BallotInv
  <2>2. PICK call : call = [ballot[t] EXCEPT !.at = "insert", !.weight = weight]
    OBVIOUS
  <2>3. ballot' = [ballot EXCEPT ![t] = call] /\ UNCHANGED <<session, votes, page, pointsVars>>
    BY <1>2, <2>1, <2>2 DEF Weigh
  <2>4. IsCast(ballot[t])
    BY DEF Weigh, Stage, BallotInv, CallsTyped, IsClose
  <2>5. IsCast(call) /\ call.at = "insert" /\ call.weight = weight
    BY <2>2, <2>4 DEF IsCast
  <2>6. call.weight > 0
    BY <2>5
  <2> QED BY <2>3, <2>5, <2>6, CallChanges DEF BallotInv, PagesTyped
<1> QED BY <1>1, <1>2

LEMMA CountVotesInv == ASSUME BallotInv, NEW t \in Tabs, CountVotes(t) PROVE BallotInv'
<1>1. CASE session.status # "open"
  BY <1>1, RefuseInv DEF CountVotes
<1>2. CASE session.status = "open"
  <2>1. PICK call : call = [ballot[t] EXCEPT !.at = "members", !.votes = votes]
    OBVIOUS
  <2>2. ballot' = [ballot EXCEPT ![t] = call] /\ UNCHANGED <<session, votes, page, pointsVars>>
    BY <1>2, <2>1 DEF CountVotes
  <2>3. IsClose(ballot[t])
    BY DEF CountVotes, Stage, BallotInv, CallsTyped, IsCast
  <2>4. IsClose(call) /\ call.at = "members" /\ call.votes = votes
    BY <2>1, <2>3 DEF IsClose
  <2>5. Countable(call.votes)
    BY <2>4 DEF Countable
  <2>6. PagesTyped'
    BY <2>2 DEF BallotInv, PagesTyped
  <2> QED BY <2>2, <2>4, <2>5, <2>6, CallChanges
<1> QED BY <1>1, <1>2

LEMMA TallyIsOutcome ==
  ASSUME BallotInv, NEW cast, Countable(cast)
  PROVE  Outcome(cast, Tally(cast))
<1>1. cast \in SUBSET CastVote /\ IsFiniteSet(cast)
  BY FS_Subset DEF BallotInv, VotesTyped, Countable
<1>2. PICK for \in SUBSET cast : for = {v \in cast : v.yes}
  OBVIOUS
<1>3. WeightOf(cast) \in Nat /\ WeightOf(for) \in Nat
  BY <1>1, WeightSplit
<1>4. Cardinality(cast) \in Nat /\ Cardinality(members) \in Nat
  BY <1>1, FS_Subset, FS_CardinalityType, PointsAssumption DEF BallotInv, PointsTypeOK
<1> QED BY <1>2, <1>3, <1>4 DEF Outcome, Tally, Tallies

LEMMA CountMembersInv == ASSUME BallotInv, NEW t \in Tabs, CountMembers(t) PROVE BallotInv'
<1>1. PICK cast, tally : cast = ballot[t].votes /\ tally = Tally(cast)
  OBVIOUS
<1>2. Countable(cast) /\ Outcome(cast, tally)
  BY <1>1, TallyIsOutcome DEF CountMembers, BallotInv, CallsCount
<1>3. PICK call : call = [ballot[t] EXCEPT !.at = "save", !.tally = tally]
  OBVIOUS
<1>4. ballot' = [ballot EXCEPT ![t] = call] /\ UNCHANGED <<session, votes, page, pointsVars>>
  BY <1>1, <1>3 DEF CountMembers
<1>5. IsClose(ballot[t])
  BY DEF CountMembers, Stage, BallotInv, CallsTyped, IsCast
<1>6. IsClose(call) /\ call.at = "save" /\ call.tally = tally
  BY <1>3, <1>5 DEF IsClose
<1> QED BY <1>2, <1>4, <1>6, CallChanges DEF BallotInv, PagesTyped

LEMMA InsertVoteInv == ASSUME BallotInv, NEW t \in Tabs, InsertVote(t) PROVE BallotInv'
<1>1. CASE ~Insertable(TabOf[t])
  BY <1>1, RefuseInv DEF InsertVote
<1>2. CASE Insertable(TabOf[t])
  <2>1. PICK late \in BOOLEAN : late = ((\E s \in Tabs : Stage(s, "members") \/ Stage(s, "save")) \/ session.status # "open")
    OBVIOUS
  <2>2. PICK v : v = [by |-> TabOf[t], yes |-> ballot[t].yes, weight |-> ballot[t].weight, late |-> late]
    OBVIOUS
  <2>3. /\ votes' = votes \cup {v}
        /\ ballot' = [ballot EXCEPT ![t] = NoBallot]
        /\ page' = [page EXCEPT ![t] = [open |-> session.status = "open", mine |-> TRUE]]
        /\ UNCHANGED <<session, pointsVars>>
    BY <1>2, <2>1, <2>2 DEF InsertVote
  <2>4. v \in CastVote
    <3>1. IsCast(ballot[t]) /\ ballot[t].weight > 0
      BY DEF InsertVote, Stage, BallotInv, CallsTyped, CallsCount, IsClose
    <3> QED BY <2>2, <3>1, BallotAssumption DEF CastVote, IsCast
  <2>5. VotesTyped'
    <3>1. IsFiniteSet(votes')
      BY <2>3, FS_AddElement DEF BallotInv, VotesTyped
    <3>2. \A w \in votes : w.by # v.by
      BY <1>2, <2>2 DEF Insertable, HasVoted
    <3> QED BY <2>3, <2>4, <3>1, <3>2 DEF BallotInv, VotesTyped
  <2>6. PointsTypeOK'
    BY <2>3 DEF BallotInv, PointsTypeOK, pointsVars
  <2>7. PagesTyped'
    BY <2>3 DEF BallotInv, PagesTyped
  <2>8. \A s \in Tabs : ballot'[s] = IF s = t THEN NoBallot ELSE ballot[s]
    BY <2>3 DEF BallotInv, CallsTyped
  <2>9. CallsTyped'
    BY <2>3, <2>8 DEF BallotInv, CallsTyped
  <2>10. ASSUME late, NEW cast, Countable(cast) PROVE Countable(cast)'
    BY <2>2, <2>3, <2>10 DEF Countable
  <2>11. CallsCount'
    <3> SUFFICES ASSUME NEW s \in Tabs
                 PROVE  /\ Stage(s, "insert")' => ballot'[s].weight > 0
                        /\ Stage(s, "members")' => Countable(ballot[s].votes)'
                        /\ Stage(s, "save")' => \E cast : Countable(cast)' /\ Outcome(cast, ballot'[s].tally)
      BY DEF CallsCount
    <3>1. CASE s = t
      BY <2>8, <3>1 DEF Stage
    <3>2. CASE s # t
      <4>1. ballot'[s] = ballot[s] /\ \A at : Stage(s, at)' <=> Stage(s, at)
        BY <2>8, <3>2 DEF Stage
      <4>2. Stage(s, "members") \/ Stage(s, "save") => late
        BY <2>1
      <4>3. PICK cast : cast = ballot[s].votes
        OBVIOUS
      <4>4. Countable(ballot[s].votes)' <=> Countable(cast)'
        BY <4>1, <4>3 DEF Countable
      <4> QED BY <2>10, <4>1, <4>2, <4>3, <4>4 DEF BallotInv, CallsCount
    <3> QED BY <3>1, <3>2
  <2>12. Counted'
    <3>1. session.status # "open" => late
      BY <2>1
    <3> QED BY <2>3, <2>10, <3>1 DEF BallotInv, Counted
  <2> QED BY <2>5, <2>6, <2>7, <2>9, <2>11, <2>12 DEF BallotInv
<1> QED BY <1>1, <1>2

LEMMA SaveResultInv == ASSUME BallotInv, NEW t \in Tabs, SaveResult(t) PROVE BallotInv'
<1>1. PICK tally : tally = ballot[t].tally
  OBVIOUS
<1>2. PICK cast : Countable(cast) /\ Outcome(cast, tally)
  BY <1>1 DEF SaveResult, BallotInv, CallsCount
<1>3. /\ session' = [status |-> IF Passes(tally) THEN "passed" ELSE "failed", result |-> tally]
      /\ ballot' = [ballot EXCEPT ![t] = NoBallot]
      /\ page' = [page EXCEPT ![t] = [open |-> FALSE, mine |-> HasVoted(TabOf[t])]]
      /\ UNCHANGED <<votes, pointsVars>>
  BY <1>1 DEF SaveResult
<1>4. PointsTypeOK' /\ VotesTyped'
  BY <1>3 DEF BallotInv, VotesTyped, PointsTypeOK, pointsVars
<1>5. PagesTyped'
  BY <1>3 DEF BallotInv, PagesTyped, HasVoted
<1>6. \A s \in Tabs : ballot'[s] = IF s = t THEN NoBallot ELSE ballot[s]
  BY <1>3 DEF BallotInv, CallsTyped
<1>7. CallsTyped'
  BY <1>3, <1>6 DEF BallotInv, CallsTyped
<1>8. \A some : Countable(some)' <=> Countable(some)
  BY <1>3 DEF Countable
<1>9. CallsCount'
  <2> SUFFICES ASSUME NEW s \in Tabs
               PROVE  /\ Stage(s, "insert")' => ballot'[s].weight > 0
                      /\ Stage(s, "members")' => Countable(ballot[s].votes)'
                      /\ Stage(s, "save")' => \E some : Countable(some)' /\ Outcome(some, ballot'[s].tally)
    BY DEF CallsCount
  <2>1. CASE s = t
    BY <1>6, <2>1 DEF Stage
  <2>2. CASE s # t
    <3>1. ballot'[s] = ballot[s] /\ \A at : Stage(s, at)' <=> Stage(s, at)
      BY <1>6, <2>2 DEF Stage
    <3>2. Countable(ballot[s].votes)' <=> Countable(ballot[s].votes)
      BY <1>3, <3>1 DEF Countable
    <3> QED BY <1>8, <3>1, <3>2 DEF BallotInv, CallsCount
  <2> QED BY <2>1, <2>2
<1>10. Counted'
  <2>1. session'.result = tally /\ session'.status = IF Passes(tally) THEN "passed" ELSE "failed"
    BY <1>3
  <2>2. Countable(cast)'
    BY <1>2, <1>8
  <2>3. session'.status = "passed" <=> Passes(tally)
    BY <2>1
  <2>4. session'.status \in {"passed", "failed"}
    BY <2>1
  <2> QED BY <1>2, <2>1, <2>2, <2>3, <2>4 DEF Counted
<1> QED BY <1>4, <1>5, <1>7, <1>9, <1>10 DEF BallotInv

LEMMA BallotStep ==
  ASSUME BallotInv, [BallotNext]_<<ballotVars, pointsVars>>
  PROVE  BallotInv'
<1>1. ASSUME NEW t \in Tabs, LoseBallot(t) PROVE BallotInv'
  BY <1>1, RefuseInv DEF LoseBallot
<1>2. CASE [PointsNext]_pointsVars /\ UNCHANGED ballotVars
  <2>1. PointsTypeOK'
    BY <1>2, PointsStep DEF BallotInv
  <2>2. VotesTyped' /\ CallsTyped' /\ PagesTyped'
    BY <1>2 DEF BallotInv, ballotVars, VotesTyped, CallsTyped, PagesTyped
  <2>3. CallsCount'
    BY <1>2 DEF BallotInv, ballotVars, CallsCount, Countable, Stage
  <2>4. Counted'
    BY <1>2 DEF BallotInv, ballotVars, Counted, Countable
  <2> QED BY <2>1, <2>2, <2>3, <2>4 DEF BallotInv
<1> QED BY <1>1, <1>2, OpenPageInv, ClickVoteInv, ClickCloseInv, ReadSessionInv, WeighInv, InsertVoteInv,
           CountVotesInv, CountMembersInv, SaveResultInv DEF BallotNext

LEMMA BallotInvHolds == BallotSpec => []BallotInv
<1> QED BY BallotInitInv, BallotStep, PTL DEF BallotSpec

\* The rows, pages and calls of a vote session are what their handlers expect, and the
\* points are.
THEOREM BallotTypeCorrect == BallotSpec => [](PointsTypeOK /\ BallotTypeOK)
<1>1. ASSUME BallotInv PROVE PointsTypeOK /\ BallotTypeOK
  <2>1. (session.status = "open") = (session.result = NoResult)
    BY <1>1, NoResultAssumption DEF BallotInv, Counted, Outcome, Tallies
  <2>2. \A v \in votes : v.by \in Users /\ {v.yes, v.late} \subseteq BOOLEAN /\ v.weight \in Nat \ {0}
    BY <1>1 DEF BallotInv, VotesTyped, CastVote
  <2>3. \A t \in Tabs : ballot[t] = NoBallot
          \/ ballot[t].at \in {"cast", "weigh", "insert", "count", "members", "save"}
    BY <1>1 DEF BallotInv, CallsTyped, IsCast, IsClose
  <2> QED BY <1>1, <2>1, <2>2, <2>3 DEF BallotTypeOK, BallotInv, Counted, PagesTyped
<1> QED BY <1>1, BallotInvHolds, PTL

\* A decided session is the outcome of its votes, for any number of users, pages, points
\* and managers, however their calls interleave with each other, awards and departures.
THEOREM OutcomesAreCounted == BallotSpec => []VotesCounted
<1>1. ASSUME BallotInv PROVE VotesCounted
  <2> SUFFICES ASSUME session.status # "open" PROVE VotesCounted
    BY DEF VotesCounted
  <2>1. PICK cast : /\ Countable(cast) /\ Outcome(cast, session.result)
                    /\ session.status = "passed" <=> Passes(session.result)
    BY <1>1 DEF BallotInv, Counted
  <2>2. PICK tally : tally = session.result
    OBVIOUS
  <2>3. cast \in SUBSET CastVote /\ IsFiniteSet(cast)
    BY <1>1, <2>1, FS_Subset DEF BallotInv, VotesTyped, Countable
  <2>4. PICK for \in SUBSET cast : for = {v \in cast : v.yes}
    OBVIOUS
  <2>5. cast \ for = {v \in cast : ~v.yes}
    BY <2>4
  <2>6. PICK all, yes, no : all = WeightOf(cast) /\ yes = WeightOf(for) /\ no = WeightOf(cast \ for)
    OBVIOUS
  <2>7. all = yes + no /\ all \in Nat /\ yes \in Nat /\ no \in Nat
    BY <2>3, <2>4, <2>6, WeightSplit
  <2>8. tally \in Tallies /\ tally.total = all /\ tally.yes = yes /\ tally.participants = Cardinality(cast)
    BY <2>1, <2>2, <2>4, <2>6 DEF Outcome
  <2>9. Passes(tally) <=> yes > no /\ 2 * Cardinality(cast) > tally.members /\ tally.members > 0
    BY <2>7, <2>8 DEF Passes, Tallies
  <2>10. /\ {v \in votes : ~v.late} \subseteq cast /\ cast \in SUBSET votes
         /\ \A v, w \in votes : v.by = w.by => v = w
    BY <1>1, <2>1 DEF BallotInv, VotesTyped, Countable
  <2> QED BY <2>1, <2>2, <2>4, <2>5, <2>6, <2>8, <2>9, <2>10 DEF VotesCounted
<1> QED BY <1>1, BallotInvHolds, PTL

-----------------------------------------------------------------------------
(* Every amount is off by half a cent at most, so their sum is off by half  *)
(* a cent for each of them.                                                 *)

SumOf(f) == MapThenSumSet(LAMBDA u : f[u], DOMAIN f)

LEMMA SumOfIs ==
  ASSUME NEW f, IsFiniteSet(DOMAIN f)
  PROVE  \E sum : IsSum(sum, f, DOMAIN f) /\ SumOf(f) = sum[DOMAIN f]
<1>1. PICK S : S = DOMAIN f
  OBVIOUS
<1> DEFINE Built(g) == g = [s \in SUBSET S |-> IF s = {} THEN 0 ELSE f[CHOOSE u \in s : TRUE]
                                                               + g[s \ {CHOOSE u \in s : TRUE}]]
<1>2. PICK iter : iter = CHOOSE g : Built(g)
  OBVIOUS
<1>3. SumOf(f) = iter[S]
  BY <1>1, <1>2 DEF SumOf, MapThenSumSet, MapThenFoldSet
<1>4. PICK sum : IsSum(sum, f, S)
  BY <1>1, SumExists
<1>5. ASSUME NEW g PROVE Built(g) <=> IsSum(g, f, S)
  BY DEF Some, IsSum
<1>6. Built(iter)
  <2>1. Built(sum)
    BY <1>4, <1>5
  <2> HIDE DEF Built
  <2> QED BY <1>2, <2>1
<1>7. IsSum(iter, f, S)
  BY <1>5, <1>6
<1> QED BY <1>1, <1>3, <1>7

LEMMA NearestIs ==
  ASSUME NEW n \in Nat, NEW d \in Nat \ {0}, NEW k \in Nearest(n, d)
  PROVE  k \in Nat /\ 2 * n <= (2 * k + 1) * d /\ (2 * k - 1) * d <= 2 * n
BY DEF Nearest

LEMMA CancelFactor ==
  ASSUME NEW x \in Int, NEW y \in Int, NEW k \in Nat \ {0}, x * k <= y * k
  PROVE  x <= y
<1> SUFFICES ASSUME x > y PROVE FALSE
  OBVIOUS
<1>1. PICK d \in Nat : x = y + 1 + d
  <2>1. x - y - 1 \in Nat
    OBVIOUS
  <2> QED BY <2>1
<1>2. x * k = y * k + k + d * k
  BY <1>1
<1>3. d * k \in Nat
  OBVIOUS
<1> QED BY <1>2, <1>3

\* In the ratio of t to k, every amount is the nearest to what there are points.
Rounded(points, amounts, S, t, k) ==
  \A u \in S : /\ t * points[u] <= (2 * amounts[u] + 1) * k
               /\ (2 * amounts[u] - 1) * k <= t * points[u]

LEMMA RoundedSums ==
  ASSUME NEW S, IsFiniteSet(S), NEW points \in [S -> Nat], NEW amounts \in [S -> Nat],
         NEW p, IsSum(p, points, S), NEW a, IsSum(a, amounts, S), NEW t \in Nat, NEW k \in Nat,
         Rounded(points, amounts, S, t, k),
         NEW s \in SUBSET S
  PROVE  /\ t * p[s] <= (2 * a[s] + Cardinality(s)) * k
         /\ (2 * a[s] - Cardinality(s)) * k <= t * p[s]
<1> DEFINE Close(r) == /\ t * p[r] <= (2 * a[r] + Cardinality(r)) * k
                       /\ (2 * a[r] - Cardinality(r)) * k <= t * p[r]
<1>1. PICK B : B = {r \in SUBSET S : ~Close(r)}
  OBVIOUS
<1> SUFFICES ASSUME B # {} PROVE FALSE
  BY <1>1
<1>2. PICK r \in B : \A q \in B : q \subseteq r => q = r
  <2>1. B \in SUBSET SUBSET S
    BY <1>1
  <2> QED BY <2>1, Smallest
<1>3. r \in SUBSET S /\ ~Close(r)
  BY <1>1
<1>4. r # {}
  <2>1. p[{}] = 0 /\ a[{}] = 0
    BY SumEquation
  <2>2. Cardinality({}) = 0
    BY FS_EmptySet
  <2>3. Close({})
    BY <2>1, <2>2
  <2> QED BY <1>3, <2>3
<1>5. PICK u, q : u = Some(r) /\ q = r \ {u}
  OBVIOUS
<1>6. u \in r /\ u \in S /\ q \in SUBSET S /\ q \subseteq r /\ q # r
  BY <1>3, <1>4, <1>5, SomeIs
<1>7. Close(q)
  <2> HIDE DEF Close
  <2> QED BY <1>1, <1>2, <1>6
<1>8. PICK x, y, n : x = points[u] /\ y = amounts[u] /\ n = Cardinality(q)
  OBVIOUS
<1>9. p[r] = x + p[q] /\ a[r] = y + a[q]
  <2>1. \A z \in SUBSET S : z # {} => p[z] = points[Some(z)] + p[z \ {Some(z)}]
    BY DEF IsSum
  <2>2. \A z \in SUBSET S : z # {} => a[z] = amounts[Some(z)] + a[z \ {Some(z)}]
    BY DEF IsSum
  <2> QED BY <1>3, <1>4, <1>5, <1>8, <2>1, <2>2
<1>10. x \in Nat /\ y \in Nat /\ p[q] \in Nat /\ a[q] \in Nat
  <2>1. p[q] \in Nat
    BY <1>6, SumType
  <2>2. a[q] \in Nat
    BY <1>6, SumType
  <2> QED BY <1>6, <1>8, <2>1, <2>2
<1>11. n \in Nat /\ Cardinality(r) = n + 1
  <2>1. IsFiniteSet(r) /\ IsFiniteSet(q)
    BY <1>3, <1>6, FS_Subset
  <2>2. Cardinality(q) \in Nat /\ Cardinality(q) = Cardinality(r) - 1 /\ Cardinality(r) \in Nat
    BY <1>5, <1>6, <2>1, FS_RemoveElement, FS_CardinalityType
  <2> QED BY <1>8, <2>2
<1>12. PICK f, g : f = p[q] /\ g = a[q]
  OBVIOUS
<1>13. /\ t * x <= (2 * y + 1) * k /\ (2 * y - 1) * k <= t * x
       /\ t * f <= (2 * g + n) * k /\ (2 * g - n) * k <= t * f
  BY <1>6, <1>7, <1>8, <1>12 DEF Rounded
<1>14. f \in Nat /\ g \in Nat
  BY <1>10, <1>12
<1>15. /\ t * (x + f) <= (2 * (y + g) + (n + 1)) * k
       /\ (2 * (y + g) - (n + 1)) * k <= t * (x + f)
  <2>1. t * (x + f) = t * x + t * f
    BY <1>10, <1>14
  <2>2. (2 * (y + g) + (n + 1)) * k = (2 * y + 1) * k + (2 * g + n) * k
    BY <1>10, <1>11, <1>14
  <2>3. (2 * (y + g) - (n + 1)) * k = (2 * y - 1) * k + (2 * g - n) * k
    BY <1>10, <1>11, <1>14
  <2> QED BY <1>10, <1>11, <1>13, <1>14, <2>1, <2>2, <2>3
<1>16. Close(r)
  BY <1>9, <1>11, <1>12, <1>15
<1> QED BY <1>3, <1>16

\* A sum of natural numbers is 0 only if they are.
LEMMA PositiveSum ==
  ASSUME NEW S, IsFiniteSet(S), NEW value \in [S -> Nat], NEW sum, IsSum(sum, value, S)
  PROVE  sum[S] > 0 <=> \E u \in S : value[u] > 0
<1>1. ASSUME NEW u \in S, value[u] > 0 PROVE sum[S] > 0
  <2>1. PICK rest \in SUBSET S : rest = S \ {u}
    OBVIOUS
  <2>2. sum[S] = value[u] + sum[rest]
    BY <2>1, SumStep
  <2>3. sum[rest] \in Nat
    BY SumType
  <2> QED BY <1>1, <2>2, <2>3
<1>2. ASSUME \A u \in S : ~ (value[u] > 0) PROVE sum[S] = 0
  <2>1. PICK B : B = {s \in SUBSET S : sum[s] # 0}
    OBVIOUS
  <2> SUFFICES ASSUME B # {} PROVE FALSE
    BY <2>1
  <2>2. PICK s \in B : \A r \in B : r \subseteq s => r = s
    <3>1. B \in SUBSET SUBSET S
      BY <2>1
    <3> QED BY <3>1, Smallest
  <2>3. s \in SUBSET S /\ sum[s] # 0
    BY <2>1
  <2>4. s # {}
    <3>1. sum[{}] = 0
      BY SumEquation
    <3> QED BY <2>3, <3>1
  <2>5. PICK u, r : u = Some(s) /\ r = s \ {u}
    OBVIOUS
  <2>6. u \in s /\ u \in S /\ r \in SUBSET S /\ r \subseteq s /\ r # s
    BY <2>3, <2>4, <2>5, SomeIs
  <2>7. sum[s] = value[u] + sum[r]
    <3>1. \A z \in SUBSET S : z # {} => sum[z] = value[Some(z)] + sum[z \ {Some(z)}]
      BY DEF IsSum
    <3> QED BY <2>3, <2>4, <2>5, <3>1
  <2>8. sum[r] = 0
    BY <2>1, <2>2, <2>6
  <2>9. value[u] = 0
    BY <1>2, <2>6
  <2> QED BY <2>3, <2>7, <2>8, <2>9
<1> QED BY <1>1, <1>2

\* The amounts of a total, against the total in cents.
LEMMA AmountsAddUp ==
  ASSUME NEW points, IsFiniteSet(DOMAIN points), points \in [DOMAIN points -> Nat],
         NEW total \in Nat, NEW amounts \in AmountsOf(total, points),
         NEW cents, cents = (total + 5) \div 10
  PROVE  /\ amounts \in [DOMAIN points -> Nat] /\ cents \in Nat /\ SumOf(amounts) \in Nat
         /\ IF \E u \in DOMAIN points : points[u] > 0
            THEN /\ 2 * (SumOf(amounts) - cents) <= Cardinality(DOMAIN points) + 1
                 /\ 2 * (cents - SumOf(amounts)) <= Cardinality(DOMAIN points) + 1
            ELSE SumOf(amounts) = 0
<1>1. PICK S : S = DOMAIN points
  OBVIOUS
<1>2. PICK p : IsSum(p, points, S) /\ SumOf(points) = p[S]
  BY <1>1, SumOfIs
<1>3. PICK all : all = p[S]
  OBVIOUS
<1>4. IsFiniteSet(S) /\ points \in [S -> Nat]
  BY <1>1
<1>5. all \in Nat /\ (all > 0 <=> \E u \in S : points[u] > 0)
  BY <1>2, <1>3, <1>4, SumType, PositiveSum
<1>6. /\ DOMAIN amounts = S
      /\ amounts = [u \in S |-> amounts[u]]
      /\ \A u \in S : amounts[u] \in Cents(total, points[u], all)
  BY <1>1, <1>2, <1>3 DEF AmountsOf, SumOf
<1>7. cents \in Nat /\ 10 * cents <= total + 5 /\ total < 10 * cents + 5
  OBVIOUS
<1>8. CASE all = 0
  <2>1. \A u \in S : amounts[u] = 0
    BY <1>6, <1>8 DEF Cents
  <2>2. amounts \in [S -> Nat] /\ \A u \in S : ~ (amounts[u] > 0)
    BY <1>6, <2>1
  <2>3. PICK a : IsSum(a, amounts, S) /\ SumOf(amounts) = a[S]
    BY <1>4, <1>6, SumOfIs
  <2>4. a[S] \in Nat /\ ~ (a[S] > 0)
    BY <1>4, <2>2, <2>3, SumType, PositiveSum
  <2> QED BY <1>1, <1>5, <1>7, <1>8, <2>2, <2>3, <2>4
<1>9. CASE all > 0
  <2>1. PICK k \in Nat \ {0} : k = 10 * all
    BY <1>5, <1>9
  <2>2. ASSUME NEW u \in S
        PROVE  /\ amounts[u] \in Nat
               /\ (2 * total) * points[u] <= (2 * amounts[u] + 1) * k
               /\ (2 * amounts[u] - 1) * k <= (2 * total) * points[u]
    <3>1. PICK x \in Nat, n \in Nat : x = points[u] /\ n = total * x
      BY <1>4
    <3>2. amounts[u] \in Nearest(n, k)
      BY <1>5, <1>6, <1>9, <2>1, <3>1 DEF Cents
    <3>3. PICK y : y = amounts[u]
      OBVIOUS
    <3>4. y \in Nat /\ 2 * n <= (2 * y + 1) * k /\ (2 * y - 1) * k <= 2 * n
      BY <3>2, <3>3, NearestIs
    <3>5. 2 * n = (2 * total) * x
      BY <3>1
    <3> QED BY <3>1, <3>3, <3>4, <3>5
  <2>3. amounts \in [S -> Nat]
    BY <1>6, <2>2
  <2>4. PICK a : IsSum(a, amounts, S) /\ SumOf(amounts) = a[S]
    BY <1>4, <1>6, SumOfIs
  <2>5. PICK t \in Nat : t = 2 * total
    OBVIOUS
  <2>6. /\ t * p[S] <= (2 * a[S] + Cardinality(S)) * k
        /\ (2 * a[S] - Cardinality(S)) * k <= t * p[S]
    <3>1. Rounded(points, amounts, S, t, k)
      BY <2>2, <2>5 DEF Rounded
    <3>2. S \in SUBSET S /\ k \in Nat
      OBVIOUS
    <3> QED BY <1>2, <1>4, <2>3, <2>4, <3>1, <3>2, RoundedSums
  <2>7. PICK sum \in Nat, n \in Nat : sum = a[S] /\ n = Cardinality(S)
    BY <1>4, <2>3, <2>4, SumType, FS_CardinalityType
  <2>8. PICK x \in Int, y \in Int : x = (2 * sum + n) * 10 /\ y = (2 * sum - n) * 10
    OBVIOUS
  <2>9. t * all <= x * all /\ y * all <= t * all
    <3>1. (2 * sum + n) * k = x * all /\ (2 * sum - n) * k = y * all
      BY <1>5, <2>1, <2>8
    <3> QED BY <1>3, <2>6, <2>7, <3>1
  <2>10. t <= x /\ y <= t
    BY <1>5, <1>9, <2>9, CancelFactor
  <2>11. 2 * (sum - cents) <= n + 1 /\ 2 * (cents - sum) <= n + 1
    BY <1>7, <2>5, <2>8, <2>10
  <2> QED BY <1>1, <1>5, <1>7, <1>9, <2>3, <2>4, <2>7, <2>11
<1> QED BY <1>5, <1>8, <1>9

-----------------------------------------------------------------------------
(* Every row that is there or about to be saved is as one total made it.    *)

RowFields(r) ==
  /\ r = [status |-> r.status, total |-> r.total, points |-> r.points, amounts |-> r.amounts,
          approvedBy |-> r.approvedBy]
  /\ r.status \in {"draft", "pending_approval", "approved", "rejected"}
  /\ DOMAIN r.points \subseteq Users /\ r.points \in [DOMAIN r.points -> Nat]
  /\ r.approvedBy \in Users \cup {Unsigned}
  /\ r.approvedBy # Unsigned <=> r.status = "approved"

RowAmounts(r) ==
  /\ r.status = "draft" => r.total = Unset /\ r.amounts = [u \in DOMAIN r.points |-> Unset]
  /\ r.status # "draft" =>
       \E total \in Totals : r.total = (total + 5) \div 10 /\ r.amounts \in AmountsOf(total, r.points)

RowInv(r) == RowFields(r) /\ RowAmounts(r)

DividendInv ==
  /\ PointsTypeOK
  /\ dividend # NoRow => RowInv(dividend)
  /\ saving = [c \in Officers |-> saving[c]]
  /\ \A c \in Officers : saving[c] # NoRow => RowInv(saving[c])

LEMMA MembersActiveType ==
  ASSUME PointsTypeOK
  PROVE  MembersActive \in [members -> Nat] /\ members \subseteq Users
<1>1. ASSUME NEW u \in members PROVE MembersActive[u] \in Nat
  <2>1. RecordsOf(u) \in SUBSET (DOMAIN records)
    BY DEF RecordsOf
  <2> QED BY <2>1, ActiveSum DEF MembersActive, PointsInProject
<1>2. MembersActive = [u \in members |-> MembersActive[u]]
  BY DEF MembersActive
<1> QED BY <1>1, <1>2 DEF PointsTypeOK

LEMMA CreateDraftInv == ASSUME DividendInv, CreateDraft PROVE DividendInv'
<1>1. PICK points, amounts : points = MembersActive /\ amounts = [u \in members |-> Unset]
  OBVIOUS
<1>2. PICK r : r = [status |-> "draft", total |-> Unset, points |-> points,
                    amounts |-> amounts, approvedBy |-> Unsigned]
  OBVIOUS
<1>3. dividend' = r /\ UNCHANGED <<saving, pointsVars>>
  BY <1>1, <1>2 DEF CreateDraft
<1>4. points \in [members -> Nat] /\ members \subseteq Users
  BY <1>1, MembersActiveType DEF DividendInv
<1>5. RowInv(r)
  BY <1>1, <1>2, <1>4 DEF RowInv, RowFields, RowAmounts
<1> QED BY <1>3, <1>5 DEF DividendInv, PointsTypeOK, pointsVars

\* A call that has made a new row of the one it read.
LEMMA ReadInv ==
  ASSUME DividendInv, NEW c \in Officers, NEW r, RowInv(r), Read(c, r)
  PROVE  DividendInv'
<1>1. \A d \in Officers : saving'[d] = IF d = c THEN r ELSE saving[d]
  BY DEF Read, DividendInv
<1> QED BY <1>1 DEF Read, DividendInv, PointsTypeOK, pointsVars

LEMMA FillAmountInv ==
  ASSUME DividendInv, NEW c \in Officers, NEW total \in Totals, FillAmount(c, total) PROVE DividendInv'
<1>1. PICK amounts \in AmountsOf(total, dividend.points) :
        Read(c, [dividend EXCEPT !.status = "pending_approval", !.total = (total + 5) \div 10,
                                 !.amounts = amounts])
  BY DEF FillAmount
<1>2. PICK cents : cents = (total + 5) \div 10
  OBVIOUS
<1>3. PICK r : r = [dividend EXCEPT !.status = "pending_approval", !.total = cents, !.amounts = amounts]
  OBVIOUS
<1>4. RowInv(dividend) /\ dividend.status = "draft"
  BY DEF FillAmount, DividendInv
<1>5. r = [status |-> "pending_approval", total |-> cents, points |-> dividend.points,
           amounts |-> amounts, approvedBy |-> dividend.approvedBy]
  BY <1>3, <1>4 DEF RowInv, RowFields
<1>6. RowFields(r)
  BY <1>4, <1>5 DEF RowInv, RowFields
<1>7. r.status = "pending_approval" /\ r.total = cents /\ r.amounts \in AmountsOf(total, r.points)
  BY <1>5
<1>8. RowAmounts(r)
  BY <1>2, <1>7 DEF RowAmounts
<1> QED BY <1>1, <1>2, <1>3, <1>6, <1>8, ReadInv DEF RowInv

LEMMA ApproveInv ==
  ASSUME DividendInv, NEW c \in Officers, NEW u \in Users, Approve(c, u) PROVE DividendInv'
<1>1. PICK r : r = [dividend EXCEPT !.status = "approved", !.approvedBy = u]
  OBVIOUS
<1>2. RowInv(dividend) /\ dividend.status = "pending_approval"
  BY DEF Approve, DividendInv
<1>3. r = [status |-> "approved", total |-> dividend.total, points |-> dividend.points,
           amounts |-> dividend.amounts, approvedBy |-> u]
  BY <1>1, <1>2 DEF RowInv, RowFields
<1>4. RowFields(r)
  BY <1>2, <1>3, DividendAssumption DEF RowInv, RowFields
<1>5. RowAmounts(r)
  <2>1. r.status = "approved" /\ r.total = dividend.total /\ r.points = dividend.points /\ r.amounts = dividend.amounts
    BY <1>3
  <2> QED BY <1>2, <2>1 DEF RowInv, RowAmounts
<1> QED BY <1>1, <1>4, <1>5, ReadInv DEF RowInv, Approve

LEMMA RejectInv == ASSUME DividendInv, NEW c \in Officers, Reject(c) PROVE DividendInv'
<1>1. PICK r : r = [dividend EXCEPT !.status = "rejected"]
  OBVIOUS
<1>2. RowInv(dividend) /\ dividend.status = "pending_approval"
  BY DEF Reject, DividendInv
<1>3. r = [status |-> "rejected", total |-> dividend.total, points |-> dividend.points,
           amounts |-> dividend.amounts, approvedBy |-> dividend.approvedBy]
  BY <1>1, <1>2 DEF RowInv, RowFields
<1>4. RowFields(r)
  BY <1>2, <1>3 DEF RowInv, RowFields
<1>5. RowAmounts(r)
  <2>1. r.status = "rejected" /\ r.total = dividend.total /\ r.points = dividend.points /\ r.amounts = dividend.amounts
    BY <1>3
  <2> QED BY <1>2, <2>1 DEF RowInv, RowAmounts
<1> QED BY <1>1, <1>4, <1>5, ReadInv DEF RowInv, Reject

LEMMA DividendStep ==
  ASSUME DividendInv, [DividendNext]_<<dividendVars, pointsVars>>
  PROVE  DividendInv'
<1>1. ASSUME NEW c \in Officers, SaveDividend(c) \/ LoseDividend(c) PROVE DividendInv'
  <2>1. \A d \in Officers : saving'[d] = IF d = c THEN NoRow ELSE saving[d]
    BY <1>1 DEF SaveDividend, LoseDividend, DividendInv
  <2>2. dividend' # NoRow => RowInv(dividend')
    BY <1>1 DEF SaveDividend, LoseDividend, DividendInv
  <2>3. PointsTypeOK' /\ saving' = [d \in Officers |-> saving'[d]]
    BY <1>1 DEF SaveDividend, LoseDividend, DividendInv, PointsTypeOK, pointsVars
  <2> QED BY <2>1, <2>2, <2>3 DEF DividendInv
<1>2. CASE [PointsNext]_pointsVars /\ UNCHANGED dividendVars
  BY <1>2, PointsStep DEF DividendInv, dividendVars
<1> QED BY <1>1, <1>2, CreateDraftInv, FillAmountInv, ApproveInv, RejectInv DEF DividendNext

LEMMA DividendInvHolds == DividendSpec => []DividendInv
<1>1. ASSUME DividendInit, PointsInit PROVE DividendInv
  BY <1>1, PointsAssumption DEF DividendInit, PointsInit, DividendInv, PointsTypeOK
<1> QED BY <1>1, DividendStep, PTL DEF DividendSpec

\* What a filled row promises.
LEMMA RowAddsUp ==
  ASSUME NEW r, RowInv(r), r.status # "draft"
  PROVE  /\ r.amounts \in [DOMAIN r.points -> Nat] /\ r.total \in Nat /\ SumOf(r.amounts) \in Nat
         /\ IF \E u \in DOMAIN r.points : r.points[u] > 0
            THEN /\ 2 * (SumOf(r.amounts) - r.total) <= Cardinality(DOMAIN r.points) + 1
                 /\ 2 * (r.total - SumOf(r.amounts)) <= Cardinality(DOMAIN r.points) + 1
            ELSE SumOf(r.amounts) = 0
<1>1. PICK points, amounts, cents : points = r.points /\ amounts = r.amounts /\ cents = r.total
  OBVIOUS
<1>2. PICK total \in Totals : cents = (total + 5) \div 10 /\ amounts \in AmountsOf(total, points)
  BY <1>1 DEF RowInv, RowAmounts
<1>3. IsFiniteSet(DOMAIN points) /\ points \in [DOMAIN points -> Nat]
  BY <1>1, FS_Subset, PointsAssumption DEF RowInv, RowFields
<1>4. total \in Nat
  BY DividendAssumption
<1> HIDE DEF SumOf
<1> QED BY <1>1, <1>2, <1>3, <1>4, AmountsAddUp

\* The row of a dividend is always readable, and so is the one a call is about to save.
THEOREM DividendTypeCorrect == DividendSpec => []DividendTypeOK
<1>1. ASSUME NEW r, RowInv(r) PROVE IsRow(r)
  <2>1. CASE r.status = "draft"
    BY <1>1, <2>1 DEF RowInv, RowFields, RowAmounts, IsRow
  <2>2. CASE r.status # "draft"
    <3>1. r.amounts \in [DOMAIN r.points -> Nat] /\ r.total \in Nat
      BY <1>1, <2>2, RowAddsUp
    <3> QED BY <1>1, <3>1 DEF RowInv, RowFields, IsRow
  <2> QED BY <2>1, <2>2
<1>2. ASSUME DividendInv PROVE DividendTypeOK
  BY <1>1, <1>2 DEF DividendInv, DividendTypeOK
<1> QED BY <1>2, DividendInvHolds, PTL

\* For any members, points and totals, and however calls overwrite each other: the amounts
\* are those of the total shown, up to half a cent for each of them and for the total.
THEOREM AmountsFollowTotal == DividendSpec => []ApprovedAddsUp
<1>1. ASSUME DividendInv PROVE ApprovedAddsUp
  <2> SUFFICES ASSUME dividend # NoRow, dividend.status # "draft" PROVE ApprovedAddsUp
    BY DEF ApprovedAddsUp
  <2>1. RowInv(dividend)
    BY <1>1 DEF DividendInv
  <2>2. PICK paid, sum, total : paid = DOMAIN dividend.amounts /\ sum = SumOf(dividend.amounts) /\ total = dividend.total
    OBVIOUS
  <2>3. /\ paid = DOMAIN dividend.points /\ total \in Nat /\ sum \in Nat
        /\ IF \E u \in paid : dividend.points[u] > 0
           THEN 2 * (sum - total) <= Cardinality(paid) + 1 /\ 2 * (total - sum) <= Cardinality(paid) + 1
           ELSE sum = 0
    <3>1. paid = DOMAIN dividend.points
      BY <2>1, <2>2, RowAddsUp
    <3> QED BY <2>1, <2>2, <3>1, RowAddsUp
  <2>4. dividend.approvedBy # Unsigned <=> dividend.status = "approved"
    BY <2>1 DEF RowInv, RowFields
  <2>5. PICK gap : gap = IF sum > total THEN sum - total ELSE total - sum
    OBVIOUS
  <2>6. IF \E u \in paid : dividend.points[u] > 0 THEN 2 * gap <= Cardinality(paid) + 1 ELSE sum = 0
    BY <2>3, <2>5
  <2> QED BY <2>2, <2>4, <2>5, <2>6 DEF ApprovedAddsUp, SumOf
<1> QED BY <1>1, DividendInvHolds, PTL

-----------------------------------------------------------------------------
(* Who is above a department.  A path of parents is no longer than there    *)
(* are departments, or it meets one of them twice: so the union of as many  *)
(* steps is closed under parents, and the least such set.                   *)

Up(parent, s) == {parent[e] : e \in s \cap DOMAIN parent}

IsUp(up, parent, d) == up = [n \in Nat |-> IF n = 0 THEN {d} ELSE {parent[e] : e \in up[n - 1] \cap DOMAIN parent}]

LEMMA UpExists ==
  ASSUME NEW parent, NEW d
  PROVE  \E up : IsUp(up, parent, d)
<1>1. PICK Y : Y = {d} \cup {parent[e] : e \in DOMAIN parent}
  OBVIOUS
<1>2. PICK next : next = [s \in SUBSET Y |-> Up(parent, s)]
  OBVIOUS
<1>3. \A s \in SUBSET Y : next[s] = Up(parent, s) /\ next[s] \in SUBSET Y
  BY <1>1, <1>2 DEF Up
<1>4. PICK x : x = {d}
  OBVIOUS
<1>5. PICK up : IsOrbit(up, x, next, Nat)
  BY OrbitExists
<1>6. \A n \in Nat : up[n] \in SUBSET Y
  <2>1. PICK S : S = SUBSET Y
    OBVIOUS
  <2>2. x \in S /\ \A s \in S : next[s] \in S
    BY <1>1, <1>3, <1>4, <2>1
  <2>3. \A n \in Nat : up[n] \in S
    BY <1>5, <2>2, OrbitStays
  <2> QED BY <2>1, <2>3
<1>7. \A n \in Nat : up[n] = IF n = 0 THEN x ELSE next[up[n - 1]]
  BY <1>5 DEF IsOrbit
<1>8. \A n \in Nat : up[n] = IF n = 0 THEN {d} ELSE Up(parent, up[n - 1])
  <2> SUFFICES ASSUME NEW n \in Nat PROVE up[n] = IF n = 0 THEN {d} ELSE Up(parent, up[n - 1])
    OBVIOUS
  <2>1. CASE n = 0
    BY <1>4, <1>7, <2>1
  <2>2. CASE n # 0
    <3>1. PICK m \in Nat : m = n - 1
      BY <2>2
    <3>2. next[up[m]] = Up(parent, up[m])
      BY <1>3, <1>6
    <3> QED BY <1>7, <2>2, <3>1, <3>2
  <2> QED BY <2>1, <2>2
<1>9. up = [n \in Nat |-> IF n = 0 THEN {d} ELSE Up(parent, up[n - 1])]
  <2>1. up = [n \in Nat |-> up[n]]
    BY <1>5 DEF IsOrbit
  <2> QED BY <1>8, <2>1
<1> QED BY <1>9 DEF IsUp, Up

IsLevels(up, parent, d) ==
  /\ up[0] = {d} /\ \A n \in Nat : up[n + 1] = Up(parent, up[n])
  /\ AboveIn(parent, d) = UNION {up[n] : n \in 1 .. Cardinality(Depts) + 1}

LEMMA AboveIs ==
  ASSUME NEW parent, NEW d
  PROVE  \E up : IsLevels(up, parent, d)
<1>1. PICK up : up = CHOOSE f : IsUp(f, parent, d)
  OBVIOUS
<1>2. IsUp(up, parent, d)
  BY <1>1, UpExists
<1>3. AboveIn(parent, d) = UNION {up[n] : n \in 1 .. Cardinality(Depts) + 1}
  BY <1>1 DEF AboveIn, IsUp
<1>4. up[0] = {d}
  BY <1>2 DEF IsUp
<1>5. ASSUME NEW n \in Nat PROVE up[n + 1] = Up(parent, up[n])
  <2>1. PICK m \in Nat : m = n + 1
    OBVIOUS
  <2>2. up[m] = {parent[e] : e \in up[m - 1] \cap DOMAIN parent}
    BY <1>2, <2>1 DEF IsUp
  <2>3. m - 1 = n
    BY <2>1
  <2> QED BY <2>1, <2>2, <2>3 DEF Up
<1> QED BY <1>3, <1>4, <1>5 DEF IsLevels

\* The least set that holds the parents of d and of its members.
LEMMA AboveLeast ==
  ASSUME NEW parent, NEW d, NEW S,
         \A e \in DOMAIN parent : e = d \/ e \in S => parent[e] \in S
  PROVE  AboveIn(parent, d) \subseteq S
<1>0. PICK up : IsLevels(up, parent, d)
  BY AboveIs
<1>1. /\ up[0] = {d} /\ \A n \in Nat : up[n + 1] = Up(parent, up[n])
      /\ AboveIn(parent, d) = UNION {up[n] : n \in 1 .. Cardinality(Depts) + 1}
  BY <1>0 DEF IsLevels
<1>2. PICK B \in SUBSET Nat : B = {n \in Nat : ~ (up[n] \subseteq {d} \cup S)}
  OBVIOUS
<1>3. B = {}
  <2> SUFFICES ASSUME B # {} PROVE FALSE
    OBVIOUS
  <2>1. PICK n \in B : \A k \in B : n <= k
    BY <1>2, Least
  <2>2. n \in Nat /\ n # 0 /\ ~ (up[n] \subseteq {d} \cup S)
    BY <1>1, <1>2
  <2>3. PICK m \in Nat : n = m + 1
    BY <2>2
  <2>4. up[m] \subseteq {d} \cup S
    BY <1>2, <2>1, <2>3
  <2>5. up[n] \subseteq S
    BY <1>1, <2>3, <2>4 DEF Up
  <2> QED BY <2>2, <2>5
<1>4. ASSUME NEW n \in 1 .. Cardinality(Depts) + 1 PROVE up[n] \subseteq S
  <2>1. PICK m \in Nat : n = m + 1
    BY <1>4
  <2>2. up[m] \subseteq {d} \cup S
    BY <1>2, <1>3
  <2> QED BY <1>1, <2>1, <2>2 DEF Up
<1> QED BY <1>1, <1>4

\* It is one: after as many steps as there are departments a path has turned back.
LEMMA AboveStep ==
  ASSUME NEW parent, NEW d, DOMAIN parent \subseteq Depts, NEW e \in DOMAIN parent,
         e = d \/ e \in AboveIn(parent, d)
  PROVE  parent[e] \in AboveIn(parent, d)
<1>0. PICK up : IsLevels(up, parent, d)
  BY AboveIs
<1>1. /\ up[0] = {d} /\ \A n \in Nat : up[n + 1] = Up(parent, up[n])
      /\ AboveIn(parent, d) = UNION {up[n] : n \in 1 .. Cardinality(Depts) + 1}
  BY <1>0 DEF IsLevels
<1>2. PICK last \in Nat \ {0} : last = Cardinality(Depts) + 1
  BY DeptAssumption, FS_CardinalityType
<1>3. PICK n \in 0 .. last : e \in up[n]
  BY <1>1, <1>2
<1>4. parent[e] \in up[n + 1]
  BY <1>1, <1>3 DEF Up
<1>5. CASE n < last
  <2>1. n + 1 \in 1 .. last
    BY <1>2, <1>3, <1>5
  <2> QED BY <1>1, <1>2, <1>4, <2>1
<1>6. CASE n = last
  <2>1. \A k \in Nat : \A x, y \in up[k] : x = y
    <3>1. PICK B : B = {k \in Nat : ~ \A x, y \in up[k] : x = y}
      OBVIOUS
    <3> SUFFICES ASSUME B # {} PROVE FALSE
      BY <3>1
    <3>2. PICK k \in B : \A j \in B : k <= j
      BY <3>1, Least
    <3>3. k \in Nat /\ k # 0 /\ ~ \A x, y \in up[k] : x = y
      BY <1>1, <3>1
    <3>4. PICK j \in Nat : k = j + 1
      BY <3>3
    <3>5. \A x, y \in up[j] : x = y
      BY <3>1, <3>2, <3>4
    <3>6. up[k] = Up(parent, up[j])
      BY <1>1, <3>4
    <3> QED BY <3>3, <3>5, <3>6 DEF Up
  <2>2. \A k \in 0 .. last : \E x \in DOMAIN parent : x \in up[k]
    <3>1. PICK B : B = {j \in Nat : j <= last /\ ~ \E x \in DOMAIN parent : x \in up[last - j]}
      OBVIOUS
    <3>2. B = {}
      <4> SUFFICES ASSUME B # {} PROVE FALSE
        OBVIOUS
      <4>1. PICK j \in B : \A i \in B : j <= i
        <5>1. B \in SUBSET Nat
          BY <3>1
        <5> QED BY <5>1, Least
      <4>2. j \in Nat /\ j <= last /\ ~ \E x \in DOMAIN parent : x \in up[last - j]
        BY <3>1
      <4>3. j # 0
        BY <1>2, <1>3, <1>6, <4>2
      <4>4. PICK i \in Nat : j = i + 1
        BY <4>2, <4>3
      <4>5. i \notin B
        BY <4>1, <4>4
      <4>6. PICK k \in Nat : k = last - j
        BY <1>2, <4>2
      <4>7. last - i = k + 1
        BY <1>2, <4>2, <4>4, <4>6
      <4>8. PICK x \in DOMAIN parent : x \in up[k + 1]
        BY <1>2, <3>1, <4>2, <4>4, <4>5, <4>7
      <4>9. x \in Up(parent, up[k])
        BY <1>1, <4>8
      <4> QED BY <4>2, <4>6, <4>9 DEF Up
    <3>3. ASSUME NEW k \in 0 .. last PROVE \E x \in DOMAIN parent : x \in up[k]
      <4>1. PICK j \in Nat : j = last - k /\ j <= last /\ last - j = k
        BY <1>2, <3>3
      <4>2. j \notin B
        BY <3>2
      <4> QED BY <3>1, <4>1, <4>2
    <3> QED BY <3>3
  <2>3. PICK at : at = [k \in 0 .. last |-> CHOOSE x \in DOMAIN parent : x \in up[k]]
    OBVIOUS
  <2>4. \A k \in 0 .. last : at[k] \in DOMAIN parent /\ at[k] \in up[k]
    BY <2>2, <2>3
  <2>5. PICK T : T = 0 .. last
    OBVIOUS
  <2>6. at \in [T -> Depts]
    BY <2>3, <2>4, <2>5
  <2>7. /\ IsFiniteSet(T) /\ Cardinality(T) = last + 1
        /\ IsFiniteSet(Depts) /\ Cardinality(Depts) < last + 1
    <3>1. Cardinality(Depts) < last + 1
      <4>1. Cardinality(Depts) \in Nat
        BY DeptAssumption, FS_CardinalityType
      <4> QED BY <1>2, <4>1
    <3>2. IsFiniteSet(0 .. last) /\ Cardinality(0 .. last) = last + 1
      BY <1>2, FS_Interval
    <3> QED BY <2>5, <3>1, <3>2, DeptAssumption
  <2>8. \E x, y \in T : x # y /\ at[x] = at[y]
    BY <2>6, <2>7, FS_PigeonHole
  <2>9. PICK i \in 0 .. last, j \in 0 .. last : i < j /\ at[i] = at[j]
    BY <1>2, <2>5, <2>8
  <2>10. up[i] = up[j]
    <3>1. i \in Nat /\ j \in Nat
      BY <1>2, <2>9
    <3>2. at[i] \in up[i] /\ at[j] \in up[j]
      BY <2>4, <2>9
    <3> QED BY <2>1, <2>9, <3>1, <3>2
  <2>11. PICK B : B = {k \in Nat : up[i + k] # up[j + k]}
    OBVIOUS
  <2>12. B = {}
    <3> SUFFICES ASSUME B # {} PROVE FALSE
      OBVIOUS
    <3>1. PICK k \in B : \A m \in B : k <= m
      BY <2>11, Least
    <3>2. k \in Nat /\ k # 0 /\ up[i + k] # up[j + k]
      BY <2>10, <2>11, <1>2
    <3>3. PICK m \in Nat : k = m + 1
      BY <3>2
    <3>4. up[i + m] = up[j + m]
      BY <2>11, <3>1, <3>3
    <3>5. PICK a \in Nat, b \in Nat : a = i + m /\ b = j + m
      BY <1>2
    <3>6. up[a + 1] = up[b + 1]
      BY <1>1, <3>4, <3>5
    <3>7. a + 1 = i + k /\ b + 1 = j + k
      BY <1>2, <3>3, <3>5
    <3> QED BY <3>2, <3>6, <3>7
  <2>13. PICK k \in Nat : j + k = last + 1
    BY <1>2, <2>9
  <2>14. i + k \in 1 .. last
    BY <1>2, <2>9, <2>13
  <2>15. up[last + 1] = up[i + k]
    BY <2>11, <2>12, <2>13
  <2> QED BY <1>1, <1>2, <1>4, <1>6, <2>14, <2>15
<1> QED BY <1>2, <1>3, <1>5, <1>6

-----------------------------------------------------------------------------
(* The chart has no cycle, nor has a list fetched from it.                  *)

Acyclic(parent) == \A x \in DOMAIN parent : x \notin AboveIn(parent, x)

ListOK(list) ==
  /\ DOMAIN list \subseteq Depts /\ Acyclic(list)
  /\ \A d \in DOMAIN list : list[d] \in DOMAIN list \cup {Top}

ChartInv ==
  /\ chart \in [Depts -> Depts \cup {Top, Gone}] /\ Acyclic(chart)
  /\ \A d \in Depts : chart[d] \in Depts => chart[chart[d]] # Gone
  /\ deptEvents \subseteq Depts \X (Depts \cup {Top})

\* Departments of a list are shown, and those not to do any more have its parents.
ListShown(list, todo) ==
  /\ \A d \in DOMAIN list : dept[d].state = "shown"
  /\ \A d \in DOMAIN list \ todo : list[d] # Top => dept[d].parent = list[d]

RunTyped(r) ==
  /\ r = [kind |-> r.kind, at |-> r.at, list |-> r.list, todo |-> r.todo, rows |-> r.rows, alone |-> r.alone]
  /\ IsRun(r)
  /\ r.at = "parents" => r.todo \subseteq DOMAIN r.list /\ \A d \in r.todo : r.list[d] \in Depts
  /\ r.at \in {"missing", "delete"} => r.kind = "sync"

\* What a full sync that nobody disturbs has done so far.
SyncOK(r) ==
  /\ ListOK(r.list)
  /\ r.at = "read" => r.todo = DOMAIN r.list
  /\ r.at = "rows" => \A d \in DOMAIN r.list \ r.todo : dept[d].state = "shown"
  /\ r.at = "parents" => ListShown(r.list, r.todo) /\ \A d \in DOMAIN r.list : r.rows[d].state = "shown"
  /\ r.at = "missing" => ListShown(r.list, {})
  /\ r.at = "delete" => ListShown(r.list, {}) /\ r.todo = {d \in Depts \ DOMAIN r.list : dept[d].state = "shown"}

RunInv(w) ==
  deptRun[w] # NoRun =>
    /\ RunTyped(deptRun[w])
    /\ deptRun[w].alone => Others(w) = {}
    /\ deptRun[w].alone /\ deptRun[w].kind = "sync" => SyncOK(deptRun[w])

MendedInv ==
  mended # NoList =>
    /\ ListOK(mended) /\ ListShown(mended, {})
    /\ \A d \in Depts \ DOMAIN mended : dept[d].state # "shown"

RowsInv ==
  /\ dept \in [Depts -> Dept] /\ deptRun = [w \in DeptWriters |-> deptRun[w]]
  /\ moves \in 0 .. MaxMoves /\ deptErrors \in 0 .. MaxDeptErrors

DeptInv == ChartInv /\ RowsInv /\ (\A w \in DeptWriters : RunInv(w)) /\ MendedInv

LEMMA AboveAll ==
  ASSUME NEW parent, DOMAIN parent \subseteq Depts, NEW d, NEW e \in AboveIn(parent, d)
  PROVE  AboveIn(parent, e) \subseteq AboveIn(parent, d)
<1>1. PICK S : S = AboveIn(parent, d)
  OBVIOUS
<1>2. \A x \in DOMAIN parent : x = e \/ x \in S => parent[x] \in S
  BY <1>1, AboveStep
<1>3. AboveIn(parent, e) \subseteq S
  BY <1>2, AboveLeast
<1> QED BY <1>1, <1>3

\* Whoever moves below p, which is not below it, closes no cycle.
LEMMA MoveStays ==
  ASSUME NEW parent, DOMAIN parent \subseteq Depts, Acyclic(parent),
         NEW d, NEW p, p # d, d \notin AboveIn(parent, p),
         NEW moved, moved = [parent EXCEPT ![d] = p]
  PROVE  Acyclic(moved)
<1>1. DOMAIN moved = DOMAIN parent /\ \A x \in DOMAIN parent : moved[x] = IF x = d THEN p ELSE parent[x]
  OBVIOUS
<1>2. PICK P : P = AboveIn(parent, p)
  OBVIOUS
<1>3. \A x \in DOMAIN parent : x = p \/ x \in P => parent[x] \in P /\ x # d
  BY <1>2, AboveStep
<1> SUFFICES ASSUME NEW x \in DOMAIN parent PROVE x \notin AboveIn(moved, x)
  BY <1>1 DEF Acyclic
<1>4. CASE x = d
  <2>1. PICK S : S = {p} \cup P
    OBVIOUS
  <2>2. \A e \in DOMAIN moved : e = x \/ e \in S => moved[e] \in S
    BY <1>1, <1>3, <1>4, <2>1
  <2>3. AboveIn(moved, x) \subseteq S
    BY <2>2, AboveLeast
  <2> QED BY <1>2, <1>4, <2>1, <2>3
<1>5. CASE x # d
  <2>1. PICK X : X = AboveIn(parent, x)
    OBVIOUS
  <2>2. x \notin X /\ \A e \in DOMAIN parent : e = x \/ e \in X => parent[e] \in X
    BY <2>1, AboveStep DEF Acyclic
  <2>3. CASE d \notin X
    <3>1. \A e \in DOMAIN moved : e = x \/ e \in X => moved[e] \in X
      BY <1>1, <1>5, <2>2, <2>3
    <3>2. AboveIn(moved, x) \subseteq X
      BY <3>1, AboveLeast
    <3> QED BY <2>2, <3>2
  <2>4. CASE d \in X
    <3>1. PICK S : S = X \cup {p} \cup P
      OBVIOUS
    <3>2. \A e \in DOMAIN moved : e = x \/ e \in S => moved[e] \in S
      BY <1>1, <1>3, <1>5, <2>2, <3>1
    <3>3. AboveIn(moved, x) \subseteq S
      BY <3>2, AboveLeast
    <3>4. x \notin {p} \cup P
      <4> SUFFICES ASSUME x \in {p} \cup P PROVE FALSE
        OBVIOUS
      <4>1. X \subseteq P
        <5>1. CASE x = p
          BY <1>2, <2>1, <5>1
        <5>2. CASE x \in P
          BY <1>2, <2>1, <5>2, AboveAll
        <5> QED BY <5>1, <5>2
      <4> QED BY <1>2, <2>4, <4>1
    <3> QED BY <2>2, <3>1, <3>3, <3>4
  <2> QED BY <2>3, <2>4
<1> QED BY <1>4, <1>5

\* Parents that agree with a chart as far as they are known.
LEMMA PartStays ==
  ASSUME NEW parent, DOMAIN parent \subseteq Depts, Acyclic(parent),
         NEW piece, DOMAIN piece \subseteq DOMAIN parent, \A x \in DOMAIN piece : piece[x] = parent[x]
  PROVE  Acyclic(piece)
<1> SUFFICES ASSUME NEW x \in DOMAIN piece PROVE x \notin AboveIn(piece, x)
  BY DEF Acyclic
<1>1. PICK X : X = AboveIn(parent, x)
  OBVIOUS
<1>2. \A e \in DOMAIN piece : e = x \/ e \in X => piece[e] \in X
  BY <1>1, AboveStep
<1>3. AboveIn(piece, x) \subseteq X
  BY <1>2, AboveLeast
<1> QED BY <1>1, <1>3 DEF Acyclic

LEMMA NothingAbove == ASSUME NEW parent, NEW d, d \notin DOMAIN parent PROVE AboveIn(parent, d) = {}
<1>1. PICK S : S = {}
  OBVIOUS
<1>2. \A e \in DOMAIN parent : e = d \/ e \in S => parent[e] \in S
  BY <1>1
<1>3. AboveIn(parent, d) \subseteq S
  BY <1>2, AboveLeast
<1> QED BY <1>1, <1>3

LEMMA ChartStays == ASSUME DeptInv, [DeptNext]_deptVars PROVE ChartInv'
<1>1. ASSUME NEW d \in Depts, NEW p \in Depts \cup {Top}, MoveDept(d, p) PROVE ChartInv'
  <2>1. PICK moved : moved = [chart EXCEPT ![d] = p]
    OBVIOUS
  <2>2. /\ chart' = moved /\ deptEvents' = deptEvents \cup {<<d, p>>} /\ p # d
        /\ p # Top => chart[p] # Gone /\ d \notin AboveIn(chart, p)
    BY <1>1, <2>1, DeptAssumption DEF MoveDept
  <2>3. d \notin AboveIn(chart, p)
    <3>1. CASE p = Top
      BY <3>1, NothingAbove, DeptAssumption DEF DeptInv, ChartInv
    <3> QED BY <2>2, <3>1
  <2>4. DOMAIN chart \subseteq Depts /\ Acyclic(chart)
    BY DEF DeptInv, ChartInv
  <2>5. Acyclic(moved)
    BY <2>1, <2>2, <2>3, <2>4, MoveStays
  <2>6. moved \in [Depts -> Depts \cup {Top, Gone}]
    BY <2>1 DEF DeptInv, ChartInv
  <2>7. \A e \in Depts : moved[e] \in Depts => moved[moved[e]] # Gone
    BY <2>1, <2>2, DeptAssumption DEF DeptInv, ChartInv
  <2>8. deptEvents' \subseteq Depts \X (Depts \cup {Top})
    BY <2>2 DEF DeptInv, ChartInv
  <2> QED BY <2>2, <2>5, <2>6, <2>7, <2>8 DEF ChartInv
<1>2. ASSUME NEW d \in Depts, RemoveDept(d) PROVE ChartInv'
  <2>1. PICK moved : moved = [chart EXCEPT ![d] = Gone]
    OBVIOUS
  <2>2. chart' = moved /\ deptEvents' = deptEvents \cup {<<d, Top>>} /\ \A e \in Depts : chart[e] # d
    BY <1>2, <2>1 DEF RemoveDept
  <2>3. PICK p : p = Gone /\ p # d
    BY DeptAssumption
  <2>4. DOMAIN chart = Depts /\ Acyclic(chart)
    BY DEF DeptInv, ChartInv
  <2>5. AboveIn(chart, p) = {}
    BY <2>3, <2>4, NothingAbove, DeptAssumption
  <2>6. Acyclic(moved)
    BY <2>1, <2>3, <2>4, <2>5, MoveStays
  <2>7. moved \in [Depts -> Depts \cup {Top, Gone}]
    BY <2>1 DEF DeptInv, ChartInv
  <2>8. \A e \in Depts : moved[e] \in Depts => moved[moved[e]] # Gone
    BY <2>1, <2>2, DeptAssumption DEF DeptInv, ChartInv
  <2>9. deptEvents' \subseteq Depts \X (Depts \cup {Top})
    BY <2>2 DEF DeptInv, ChartInv
  <2> QED BY <2>2, <2>6, <2>7, <2>8, <2>9 DEF ChartInv
<1>3. ASSUME chart' = chart, deptEvents' = deptEvents PROVE ChartInv'
  BY <1>3 DEF DeptInv, ChartInv
<1>4. ASSUME NEW w \in DeptWriters,
             \/ SyncDepts(w) \/ \E e \in deptEvents : HandleDeptEvent(w, e)
             \/ ReadExisting(w) \/ ReadAll(w) \/ ParentsSaved(w) \/ ReadMissing(w) \/ DeleteMissing(w)
             \/ FailDeptRun(w)
             \/ \E d \in Depts : SaveDept(w, d) \/ SaveParent(w, d)
      PROVE  chart' = chart /\ deptEvents' = deptEvents
  BY <1>4 DEF SyncDepts, HandleDeptEvent, StartRun, ReadExisting, ReadAll, ParentsSaved, ReadMissing,
              DeleteMissing, FailDeptRun, SaveDept, SaveParent, EndDeptRun, Continue
<1>5. CASE UNCHANGED deptVars
  BY <1>3, <1>5 DEF deptVars
<1> QED BY <1>1, <1>2, <1>3, <1>4, <1>5 DEF DeptNext

\* The next state of a run is right by itself: no other is alone beside it.
LEMMA RunContinues ==
  ASSUME DeptInv, NEW w \in DeptWriters, deptRun[w] # NoRun, NEW r,
         deptRun' = [deptRun EXCEPT ![w] = r],
         r # NoRun => RunTyped(r) /\ (r.alone => deptRun[w].alone),
         r # NoRun /\ r.alone /\ r.kind = "sync" => SyncOK(r)'
  PROVE  /\ deptRun' = [x \in DeptWriters |-> deptRun'[x]]
         /\ \A x \in DeptWriters : RunInv(x)'
<1>1. /\ deptRun' = [x \in DeptWriters |-> deptRun'[x]]
      /\ \A x \in DeptWriters : deptRun'[x] = IF x = w THEN r ELSE deptRun[x]
  BY DEF DeptInv, RowsInv
<1>2. ASSUME NEW x \in DeptWriters, x # w PROVE RunInv(x)'
  <2>1. deptRun'[x] = deptRun[x] /\ RunInv(x) /\ w \in Others(x)
    BY <1>1, <1>2 DEF DeptInv, Others
  <2>2. deptRun[x] # NoRun => RunTyped(deptRun[x]) /\ ~deptRun[x].alone
    BY <2>1 DEF RunInv
  <2> QED BY <2>1, <2>2 DEF RunInv
<1>3. RunInv(w)'
  <2>1. ASSUME deptRun[w].alone PROVE Others(w)' = {}
    <3>1. Others(w) = {}
      BY <2>1 DEF DeptInv, RunInv
    <3>2. \A x \in DeptWriters \ {w} : deptRun'[x] = deptRun[x]
      BY <1>1
    <3> QED BY <3>1, <3>2 DEF Others
  <2> QED BY <1>1, <2>1 DEF RunInv
<1> QED BY <1>1, <1>2, <1>3

LEMMA RunStarts ==
  ASSUME DeptInv, NEW w \in DeptWriters, NEW kind \in {"sync", "event"}, NEW list, StartRun(w, kind, list),
         DOMAIN list \subseteq Depts, kind = "sync" => ListOK(list)
  PROVE  DeptInv'
<1>1. PICK r : r = [kind |-> kind, at |-> "read", list |-> list, todo |-> DOMAIN list,
                    rows |-> dept, alone |-> Others(w) = {}]
  OBVIOUS
<1>2. /\ dept' = dept /\ chart' = chart /\ deptEvents' = deptEvents /\ mended' = mended
      /\ moves' = moves /\ deptErrors' = deptErrors /\ deptRun[w] = NoRun
      /\ deptRun' = [x \in DeptWriters |->
           IF x = w THEN r ELSE IF deptRun[x] = NoRun THEN NoRun ELSE [deptRun[x] EXCEPT !.alone = FALSE]]
  BY <1>1 DEF StartRun
<1>3. RunInv(w)'
  <2>1. RunTyped(r)
    BY <1>1 DEF RunTyped, IsRun, DeptInv, RowsInv
  <2>2. ASSUME Others(w) = {} PROVE Others(w)' = {}
    BY <1>2, <2>2 DEF Others
  <2>3. r.kind = "sync" => SyncOK(r)'
    <3>1. r.kind = kind /\ r.list = list /\ r.at = "read" /\ r.todo = DOMAIN list
      BY <1>1
    <3> QED BY <3>1 DEF SyncOK
  <2>4. r.alone <=> Others(w) = {}
    BY <1>1
  <2> QED BY <1>2, <2>1, <2>2, <2>3, <2>4 DEF RunInv
<1>4. ASSUME NEW x \in DeptWriters, x # w PROVE RunInv(x)'
  <2>1. CASE deptRun[x] = NoRun
    BY <1>2, <1>4, <2>1 DEF RunInv
  <2>2. CASE deptRun[x] # NoRun
    <3>1. PICK q, s : q = deptRun[x] /\ s = [q EXCEPT !.alone = FALSE]
      OBVIOUS
    <3>2. RunTyped(q)
      BY <2>2, <3>1 DEF DeptInv, RunInv
    <3>3. RunTyped(s) /\ s.alone = FALSE
      BY <3>1, <3>2 DEF RunTyped, IsRun
    <3>4. deptRun'[x] = s
      BY <1>2, <1>4, <2>2, <3>1
    <3> QED BY <3>3, <3>4 DEF RunInv
  <2> QED BY <2>1, <2>2
<1>5. deptRun' = [x \in DeptWriters |-> deptRun'[x]]
  BY <1>2
<1>6. ChartInv'
  BY <1>2 DEF DeptInv, ChartInv
<1>7. RowsInv'
  BY <1>2, <1>5 DEF DeptInv, RowsInv
<1>8. MendedInv'
  BY <1>2 DEF DeptInv, MendedInv, ListShown
<1> QED BY <1>3, <1>4, <1>6, <1>7, <1>8 DEF DeptInv

LEMMA SyncInv == ASSUME DeptInv, NEW w \in DeptWriters, SyncDepts(w) PROVE DeptInv'
<1>1. PICK list : list = [d \in {e \in Depts : chart[e] # Gone} |-> chart[d]]
  OBVIOUS
<1>2. StartRun(w, "sync", list)
  BY <1>1 DEF SyncDepts
<1>3. DOMAIN list \subseteq Depts /\ \A x \in DOMAIN list : list[x] = chart[x]
  BY <1>1
<1>4. \A d \in DOMAIN list : list[d] \in DOMAIN list \cup {Top}
  BY <1>1 DEF DeptInv, ChartInv
<1>5. Acyclic(list)
  <2>1. PICK parent : parent = chart
    OBVIOUS
  <2>2. DOMAIN parent = Depts /\ Acyclic(parent)
    BY <2>1 DEF DeptInv, ChartInv
  <2> QED BY <1>3, <2>1, <2>2, PartStays
<1>6. ListOK(list)
  BY <1>3, <1>4, <1>5 DEF ListOK
<1> QED BY <1>2, <1>3, <1>6, RunStarts

LEMMA EventInv == ASSUME DeptInv, NEW w \in DeptWriters, NEW e, HandleDeptEvent(w, e) PROVE DeptInv'
<1>1. PICK list : list = [d \in {e[1]} |-> e[2]]
  OBVIOUS
<1>2. StartRun(w, "event", list) /\ e \in deptEvents
  BY <1>1 DEF HandleDeptEvent
<1>3. DOMAIN list \subseteq Depts
  BY <1>1, <1>2 DEF DeptInv, ChartInv
<1> QED BY <1>2, <1>3, RunStarts

\* A run goes on or ends while the rows and what is known of them stay.
LEMMA RowsStay ==
  ASSUME DeptInv, NEW w \in DeptWriters, deptRun[w] # NoRun, NEW r, Continue(w, r),
         r # NoRun => RunTyped(r) /\ (r.alone => deptRun[w].alone),
         r # NoRun /\ r.alone /\ r.kind = "sync" => SyncOK(r),
         dept' = dept, mended' = mended, deptErrors' \in 0 .. MaxDeptErrors
  PROVE  DeptInv'
<1>1. deptRun' = [deptRun EXCEPT ![w] = r] /\ chart' = chart /\ deptEvents' = deptEvents /\ moves' = moves
  BY DEF Continue
<1>2. SyncOK(r) => SyncOK(r)'
  BY DEF SyncOK, ListShown
<1>3. /\ deptRun' = [x \in DeptWriters |-> deptRun'[x]]
      /\ \A x \in DeptWriters : RunInv(x)'
  BY <1>1, <1>2, RunContinues
<1>4. ChartInv'
  BY <1>1 DEF DeptInv, ChartInv
<1>5. RowsInv'
  BY <1>1, <1>3 DEF DeptInv, RowsInv
<1>6. MendedInv'
  BY DEF DeptInv, MendedInv, ListShown
<1> QED BY <1>3, <1>4, <1>5, <1>6 DEF DeptInv

LEMMA ReadDeptsInv == ASSUME DeptInv, NEW w \in DeptWriters, ReadExisting(w) PROVE DeptInv'
<1>1. PICK q, r : q = deptRun[w] /\ r = [q EXCEPT !.at = "rows", !.rows = dept]
  OBVIOUS
<1>2. q # NoRun /\ q.at = "read" /\ Continue(w, r) /\ dept' = dept /\ mended' = mended /\ deptErrors' = deptErrors
  BY <1>1 DEF ReadExisting, DeptStage
<1>3. RunTyped(q) /\ (q.alone /\ q.kind = "sync" => SyncOK(q))
  BY <1>1, <1>2 DEF DeptInv, RunInv
<1>4. r = [kind |-> q.kind, at |-> "rows", list |-> q.list, todo |-> q.todo, rows |-> dept, alone |-> q.alone]
  BY <1>1, <1>3 DEF RunTyped
<1>5. RunTyped(r)
  BY <1>3, <1>4 DEF RunTyped, IsRun, DeptInv, RowsInv
<1>6. SyncOK(q) => SyncOK(r)
  BY <1>2, <1>4 DEF SyncOK
<1>7. deptErrors' \in 0 .. MaxDeptErrors
  BY <1>2 DEF DeptInv, RowsInv
<1> QED BY <1>1, <1>2, <1>3, <1>4, <1>5, <1>6, <1>7, RowsStay

LEMMA ReadAllInv == ASSUME DeptInv, NEW w \in DeptWriters, ReadAll(w) PROVE DeptInv'
<1>1. PICK q, todo : q = deptRun[w] /\ todo = WithParent(q.list, dept)
  OBVIOUS
<1>2. PICK r : r = [q EXCEPT !.at = "parents", !.rows = dept, !.todo = todo]
  OBVIOUS
<1>3. /\ q # NoRun /\ q.at = "rows" /\ q.todo = {} /\ Continue(w, r)
      /\ dept' = dept /\ mended' = mended /\ deptErrors' = deptErrors
  BY <1>1, <1>2 DEF ReadAll, DeptStage, AllRows
<1>4. RunTyped(q) /\ (q.alone /\ q.kind = "sync" => SyncOK(q))
  BY <1>1, <1>3 DEF DeptInv, RunInv
<1>5. r = [kind |-> q.kind, at |-> "parents", list |-> q.list, todo |-> todo, rows |-> dept, alone |-> q.alone]
  BY <1>2, <1>4 DEF RunTyped
<1>6. todo \subseteq DOMAIN q.list /\ \A d \in todo : q.list[d] \in Depts
  BY <1>1 DEF WithParent
<1>7. RunTyped(r)
  BY <1>4, <1>5, <1>6 DEF RunTyped, IsRun, DeptInv, RowsInv
<1>8. ASSUME SyncOK(q) PROVE SyncOK(r)
  <2>1. \A d \in DOMAIN q.list : dept[d].state = "shown"
    BY <1>3, <1>8 DEF SyncOK
  <2>2. \A d \in DOMAIN q.list \ todo : q.list[d] = Top
    BY <1>1, <1>4, <1>8, <2>1 DEF SyncOK, ListOK, WithParent, RunTyped, IsRun
  <2>3. ListShown(q.list, todo)
    BY <2>1, <2>2 DEF ListShown
  <2> QED BY <1>5, <1>8, <2>1, <2>3 DEF SyncOK
<1>9. deptErrors' \in 0 .. MaxDeptErrors
  BY <1>3 DEF DeptInv, RowsInv
<1> QED BY <1>1, <1>3, <1>4, <1>5, <1>7, <1>8, <1>9, RowsStay

LEMMA ParentsInv == ASSUME DeptInv, NEW w \in DeptWriters, ParentsSaved(w) PROVE DeptInv'
<1>1. PICK q, r : q = deptRun[w] /\ r = IF q.kind = "event" THEN NoRun ELSE [q EXCEPT !.at = "missing"]
  OBVIOUS
<1>2. /\ q # NoRun /\ q.at = "parents" /\ q.todo = {} /\ Continue(w, r)
      /\ dept' = dept /\ mended' = mended /\ deptErrors' = deptErrors
  BY <1>1 DEF ParentsSaved, DeptStage, EndDeptRun
<1>3. RunTyped(q) /\ (q.alone /\ q.kind = "sync" => SyncOK(q))
  BY <1>1, <1>2 DEF DeptInv, RunInv
<1>4. deptErrors' \in 0 .. MaxDeptErrors
  BY <1>2 DEF DeptInv, RowsInv
<1>5. CASE q.kind = "event"
  <2>1. r = NoRun
    BY <1>1, <1>5
  <2> QED BY <1>1, <1>2, <1>4, <2>1, RowsStay
<1>6. CASE q.kind # "event"
  <2>1. r = [kind |-> q.kind, at |-> "missing", list |-> q.list, todo |-> q.todo, rows |-> q.rows, alone |-> q.alone]
    BY <1>1, <1>3, <1>6 DEF RunTyped
  <2>2. RunTyped(r)
    BY <1>3, <1>6, <2>1 DEF RunTyped, IsRun
  <2>3. SyncOK(q) => SyncOK(r)
    BY <1>2, <2>1 DEF SyncOK, ListShown
  <2> QED BY <1>1, <1>2, <1>3, <1>4, <2>1, <2>2, <2>3, RowsStay
<1> QED BY <1>5, <1>6

LEMMA ReadMissingInv == ASSUME DeptInv, NEW w \in DeptWriters, ReadMissing(w) PROVE DeptInv'
<1>1. PICK q, todo : q = deptRun[w] /\ todo = {d \in Depts \ DOMAIN q.list : dept[d].state = "shown"}
  OBVIOUS
<1>2. PICK r : r = [q EXCEPT !.at = "delete", !.rows = dept, !.todo = todo]
  OBVIOUS
<1>3. /\ q # NoRun /\ q.at = "missing" /\ Continue(w, r)
      /\ dept' = dept /\ mended' = mended /\ deptErrors' = deptErrors
  BY <1>1, <1>2 DEF ReadMissing, DeptStage
<1>4. RunTyped(q) /\ (q.alone /\ q.kind = "sync" => SyncOK(q))
  BY <1>1, <1>3 DEF DeptInv, RunInv
<1>5. r = [kind |-> q.kind, at |-> "delete", list |-> q.list, todo |-> todo, rows |-> dept, alone |-> q.alone]
  BY <1>2, <1>4 DEF RunTyped
<1>6. RunTyped(r)
  BY <1>1, <1>3, <1>4, <1>5 DEF RunTyped, IsRun, DeptInv, RowsInv
<1>7. SyncOK(q) => SyncOK(r)
  BY <1>1, <1>3, <1>5 DEF SyncOK
<1>8. deptErrors' \in 0 .. MaxDeptErrors
  BY <1>3 DEF DeptInv, RowsInv
<1> QED BY <1>1, <1>3, <1>4, <1>5, <1>6, <1>7, <1>8, RowsStay

LEMMA FailInv == ASSUME DeptInv, NEW w \in DeptWriters, FailDeptRun(w) PROVE DeptInv'
<1>1. PICK r : r = NoRun
  OBVIOUS
<1>2. /\ deptRun[w] # NoRun /\ Continue(w, r) /\ dept' = dept /\ mended' = mended
      /\ deptErrors < MaxDeptErrors /\ deptErrors' = deptErrors + 1
  BY <1>1 DEF FailDeptRun, EndDeptRun
<1>3. deptErrors' \in 0 .. MaxDeptErrors
  BY <1>2, DeptAssumption DEF DeptInv, RowsInv
<1> QED BY <1>1, <1>2, <1>3, RowsStay

\* A run that writes leaves no list behind as the last one.
LEMMA RowsChange ==
  ASSUME DeptInv, NEW w \in DeptWriters, deptRun[w] # NoRun, NEW r, Continue(w, r),
         r # NoRun => RunTyped(r) /\ (r.alone => deptRun[w].alone),
         r # NoRun /\ r.alone /\ r.kind = "sync" => SyncOK(r)',
         dept' \in [Depts -> Dept], deptErrors' = deptErrors, MendedInv'
  PROVE  DeptInv'
<1>1. deptRun' = [deptRun EXCEPT ![w] = r] /\ chart' = chart /\ deptEvents' = deptEvents /\ moves' = moves
  BY DEF Continue
<1>2. /\ deptRun' = [x \in DeptWriters |-> deptRun'[x]]
      /\ \A x \in DeptWriters : RunInv(x)'
  BY <1>1, RunContinues
<1>3. ChartInv'
  BY <1>1 DEF DeptInv, ChartInv
<1>4. RowsInv'
  BY <1>1, <1>2 DEF DeptInv, RowsInv
<1> QED BY <1>2, <1>3, <1>4 DEF DeptInv

LEMMA SaveInv == ASSUME DeptInv, NEW w \in DeptWriters, NEW d \in Depts, SaveDept(w, d) PROVE DeptInv'
<1>1. PICK q : q = deptRun[w]
  OBVIOUS
<1>2. PICK r : r = [q EXCEPT !.todo = @ \ {d}]
  OBVIOUS
<1>3. q # NoRun /\ q.at = "rows" /\ d \in q.todo /\ mended' = NoList /\ deptErrors' = deptErrors
  BY <1>1 DEF SaveDept, DeptStage
<1>4. RunTyped(q) /\ (q.alone /\ q.kind = "sync" => SyncOK(q))
  BY <1>1, <1>3 DEF DeptInv, RunInv
<1>5. MendedInv'
  BY <1>3 DEF MendedInv
<1>6. CASE dept' = dept /\ Continue(w, NoRun)
  <2>1. PICK s : s = NoRun
    OBVIOUS
  <2>2. dept' \in [Depts -> Dept]
    BY <1>6 DEF DeptInv, RowsInv
  <2> QED BY <1>1, <1>3, <1>5, <1>6, <2>1, <2>2, RowsChange
<1>7. CASE /\ dept' = [dept EXCEPT ![d] = [state |-> "shown", parent |-> q.rows[d].parent]]
           /\ Continue(w, r)
  <2>1. r = [kind |-> q.kind, at |-> q.at, list |-> q.list, todo |-> q.todo \ {d}, rows |-> q.rows, alone |-> q.alone]
    BY <1>2, <1>4 DEF RunTyped
  <2>2. RunTyped(r)
    BY <1>3, <1>4, <2>1 DEF RunTyped, IsRun
  <2>3. /\ \A x \in Depts \ {d} : dept'[x] = dept[x]
        /\ dept'[d].state = "shown"
    BY <1>7 DEF DeptInv, RowsInv
  <2>4. dept' \in [Depts -> Dept]
    BY <1>4, <1>7 DEF RunTyped, IsRun, Dept, DeptInv, RowsInv
  <2>5. ASSUME SyncOK(q) PROVE SyncOK(r)'
    <3>1. \A x \in DOMAIN q.list \ (q.todo \ {d}) : dept'[x].state = "shown"
      BY <1>3, <1>4, <2>3, <2>5 DEF SyncOK, RunTyped, IsRun
    <3>2. r.at = "rows" /\ r.list = q.list /\ r.todo = q.todo \ {d} /\ ListOK(q.list)
      BY <1>3, <2>1, <2>5 DEF SyncOK
    <3> QED BY <3>1, <3>2 DEF SyncOK
  <2> QED BY <1>1, <1>3, <1>4, <1>5, <1>7, <2>1, <2>2, <2>4, <2>5, RowsChange
<1> QED BY <1>1, <1>2, <1>6, <1>7 DEF SaveDept, EndDeptRun

LEMMA SaveParentInv == ASSUME DeptInv, NEW w \in DeptWriters, NEW d \in Depts, SaveParent(w, d) PROVE DeptInv'
<1>1. PICK q : q = deptRun[w]
  OBVIOUS
<1>2. PICK r : r = [q EXCEPT !.todo = @ \ {d}]
  OBVIOUS
<1>3. /\ q # NoRun /\ q.at = "parents" /\ d \in q.todo /\ mended' = NoList /\ deptErrors' = deptErrors
      /\ dept' = [dept EXCEPT ![d] = [state |-> q.rows[d].state, parent |-> q.list[d]]]
      /\ Continue(w, r)
  BY <1>1, <1>2 DEF SaveParent, DeptStage
<1>4. RunTyped(q) /\ (q.alone /\ q.kind = "sync" => SyncOK(q))
  BY <1>1, <1>3 DEF DeptInv, RunInv
<1>5. MendedInv'
  BY <1>3 DEF MendedInv
<1>6. r = [kind |-> q.kind, at |-> q.at, list |-> q.list, todo |-> q.todo \ {d}, rows |-> q.rows, alone |-> q.alone]
  BY <1>2, <1>4 DEF RunTyped
<1>7. RunTyped(r)
  BY <1>3, <1>4, <1>6 DEF RunTyped, IsRun
<1>8. /\ \A x \in Depts \ {d} : dept'[x] = dept[x]
      /\ dept'[d].state = q.rows[d].state /\ dept'[d].parent = q.list[d]
  BY <1>3 DEF DeptInv, RowsInv
<1>9. dept' \in [Depts -> Dept]
  <2>1. q.list[d] \in Depts /\ q.rows[d] \in Dept
    BY <1>3, <1>4 DEF RunTyped, IsRun
  <2> QED BY <1>3, <2>1 DEF Dept, DeptInv, RowsInv
<1>10. ASSUME SyncOK(q) PROVE SyncOK(r)'
  <2>1. ListShown(q.list, q.todo) /\ \A x \in DOMAIN q.list : q.rows[x].state = "shown"
    BY <1>3, <1>10 DEF SyncOK
  <2>2. d \in DOMAIN q.list /\ DOMAIN q.list \subseteq Depts
    BY <1>3, <1>4 DEF RunTyped, IsRun
  <2>3. \A x \in DOMAIN q.list : dept'[x].state = "shown"
    BY <1>8, <2>1, <2>2 DEF ListShown
  <2>4. \A x \in DOMAIN q.list \ (q.todo \ {d}) : q.list[x] # Top => dept'[x].parent = q.list[x]
    BY <1>8, <2>1, <2>2 DEF ListShown
  <2>5. ListShown(q.list, q.todo \ {d})'
    BY <2>3, <2>4 DEF ListShown
  <2>6. r.at = "parents" /\ r.list = q.list /\ r.todo = q.todo \ {d} /\ r.rows = q.rows /\ ListOK(q.list)
    BY <1>3, <1>6, <1>10 DEF SyncOK
  <2> QED BY <2>1, <2>5, <2>6 DEF SyncOK
<1> QED BY <1>1, <1>3, <1>4, <1>5, <1>6, <1>7, <1>9, <1>10, RowsChange

LEMMA DeleteInv == ASSUME DeptInv, NEW w \in DeptWriters, DeleteMissing(w) PROVE DeptInv'
<1>1. PICK q, s : q = deptRun[w] /\ s = NoRun
  OBVIOUS
<1>2. /\ q # NoRun /\ q.at = "delete" /\ deptErrors' = deptErrors /\ Continue(w, s)
      /\ dept' = [d \in Depts |-> IF d \in q.todo
                                  THEN [state |-> "deleted", parent |-> q.rows[d].parent] ELSE dept[d]]
      /\ mended' = IF q.alone THEN q.list ELSE NoList
  BY <1>1 DEF DeleteMissing, DeptStage, EndDeptRun
<1>3. RunTyped(q) /\ (q.alone => SyncOK(q))
  BY <1>1, <1>2 DEF DeptInv, RunInv, RunTyped
<1>4. dept' \in [Depts -> Dept]
  BY <1>2, <1>3 DEF RunTyped, IsRun, Dept, DeptInv, RowsInv
<1>5. MendedInv'
  <2>1. CASE ~q.alone
    BY <1>2, <2>1 DEF MendedInv
  <2>2. CASE q.alone
    <3>1. /\ ListOK(q.list) /\ ListShown(q.list, {}) /\ mended' = q.list
          /\ q.todo = {d \in Depts \ DOMAIN q.list : dept[d].state = "shown"}
      BY <1>2, <1>3, <2>2 DEF SyncOK
    <3>2. \A d \in DOMAIN q.list : dept'[d] = dept[d]
      BY <1>2, <3>1 DEF ListOK
    <3>3. ListShown(q.list, {})'
      BY <3>1, <3>2 DEF ListShown
    <3>4. \A d \in Depts \ DOMAIN q.list : dept'[d].state # "shown"
      BY <1>2, <3>1
    <3> QED BY <3>1, <3>3, <3>4 DEF MendedInv
  <2> QED BY <2>1, <2>2
<1> QED BY <1>1, <1>2, <1>4, <1>5, RowsChange

LEMMA DeptInitInv == ASSUME DeptInit PROVE DeptInv
<1>1. ChartInv
  <2>1. PICK c : c \in [Depts -> Depts \cup {Top}] /\ c = chart /\ \A d \in Depts : d \notin AboveIn(c, d)
    BY DEF DeptInit
  <2>2. Acyclic(chart)
    BY <2>1 DEF Acyclic
  <2>3. deptEvents = {}
    BY DEF DeptInit
  <2> QED BY <2>1, <2>2, <2>3, DeptAssumption DEF ChartInv
<1>2. RowsInv /\ mended = NoList /\ \A w \in DeptWriters : deptRun[w] = NoRun
  BY DeptAssumption DEF DeptInit, RowsInv, Dept
<1> QED BY <1>1, <1>2 DEF DeptInv, RunInv, MendedInv

LEMMA DeptStep == ASSUME DeptInv, [DeptNext]_deptVars PROVE DeptInv'
<1>1. ASSUME NEW d \in Depts, RemoveDept(d) \/ \E p \in Depts \cup {Top} : MoveDept(d, p) PROVE DeptInv'
  <2>1. dept' = dept /\ deptRun' = deptRun /\ deptErrors' = deptErrors /\ mended' = mended
        /\ moves < MaxMoves /\ moves' = moves + 1
    BY <1>1 DEF RemoveDept, MoveDept
  <2>2. RowsInv'
    BY <2>1, DeptAssumption DEF DeptInv, RowsInv
  <2>3. \A w \in DeptWriters : RunInv(w)'
    BY <2>1 DEF DeptInv, RunInv, SyncOK, ListShown, Others
  <2>4. MendedInv'
    BY <2>1 DEF DeptInv, MendedInv, ListShown
  <2>5. DeptNext
    BY <1>1 DEF DeptNext
  <2> QED BY <2>2, <2>3, <2>4, <2>5, ChartStays DEF DeptInv
<1>2. CASE UNCHANGED deptVars
  <2>1. UNCHANGED <<dept, deptRun, deptErrors, mended, moves>>
    BY <1>2 DEF deptVars
  <2>2. RowsInv' /\ MendedInv'
    BY <2>1 DEF DeptInv, RowsInv, MendedInv, ListShown
  <2>3. \A w \in DeptWriters : RunInv(w)'
    BY <2>1 DEF DeptInv, RunInv, SyncOK, ListShown, Others
  <2> QED BY <2>2, <2>3, ChartStays DEF DeptInv
<1> QED BY <1>1, <1>2, SyncInv, EventInv, ReadDeptsInv, ReadAllInv, ParentsInv, ReadMissingInv, DeleteInv,
           FailInv, SaveInv, SaveParentInv DEF DeptNext

LEMMA DeptInvHolds == DeptSpec => []DeptInv
<1> QED BY DeptInitInv, DeptStep, PTL DEF DeptSpec

\* The rows of departments and what every run has read of them stay readable.
THEOREM DeptTypeCorrect == DeptSpec => []DeptTypeOK
<1>1. ASSUME DeptInv PROVE DeptTypeOK
  BY <1>1 DEF DeptInv, ChartInv, RowsInv, RunInv, RunTyped, DeptTypeOK
<1> QED BY <1>1, DeptInvHolds, PTL

\* For any chart, with cycles nowhere, and any earlier or broken runs: a full sync that ran
\* alone leaves the tree that Feishu has, but for what was moved to the top.
THEOREM TreeIsMended == DeptSpec => []MendedIsShown
<1>1. ASSUME DeptInv PROVE MendedIsShown
  <2> SUFFICES ASSUME mended # NoList, NEW d \in Depts
               PROVE  IF d \in DOMAIN mended
                      THEN /\ mended[d] # Top => dept[d].parent = mended[d]
                           /\ \/ InTree(d)
                              \/ \E e \in {x \in {d} \cup AboveIn(mended, d) : x \in DOMAIN mended /\ mended[x] = Top} :
                                   dept[e].parent # NoDept
                      ELSE ~InTree(d)
    BY Zenon DEF MendedIsShown
  <2>1. /\ ListOK(mended) /\ ListShown(mended, {})
        /\ \A e \in Depts \ DOMAIN mended : dept[e].state # "shown"
    BY <1>1 DEF DeptInv, MendedInv
  <2>2. CASE d \notin DOMAIN mended
    BY <2>1, <2>2 DEF InTree
  <2>3. CASE d \in DOMAIN mended
    <3>1. mended[d] # Top => dept[d].parent = mended[d]
      BY <2>1, <2>3 DEF ListShown
    <3>2. PICK list, over : list = mended /\ over = AboveIn(list, d)
      OBVIOUS
    <3>3. /\ DOMAIN list \subseteq Depts /\ Acyclic(list)
          /\ \A e \in DOMAIN list : list[e] \in DOMAIN list \cup {Top}
      BY <2>1, <3>2 DEF ListOK
    <3>4. ASSUME \A e \in {x \in {d} \cup over : x \in DOMAIN list /\ list[x] = Top} : dept[e].parent = NoDept
          PROVE  InTree(d)
      <4>1. PICK shown : shown = ShownParent
        OBVIOUS
      <4>2. \A e \in DOMAIN list : dept[e].state = "shown" /\ (list[e] # Top => dept[e].parent = list[e])
        BY <2>1, <3>2 DEF ListShown
      <4>3. /\ \A e \in DOMAIN shown : e \in Depts /\ dept[e].parent # NoDept /\ shown[e] = dept[e].parent
        BY <4>1 DEF ShownParent
      <4>4. \A e \in {d} \cup over : e \in DOMAIN shown => e \in DOMAIN list /\ shown[e] = list[e]
        <5>1. over \subseteq DOMAIN list \cup {Top}
          <6>1. PICK S : S = DOMAIN list \cup {Top}
            OBVIOUS
          <6>2. \A e \in DOMAIN list : e = d \/ e \in S => list[e] \in S
            BY <3>3, <6>1
          <6> QED BY <3>2, <6>1, <6>2, AboveLeast
        <5> QED BY <2>3, <3>2, <3>3, <3>4, <4>2, <4>3, <5>1, DeptAssumption
      <4>5. ASSUME NEW x \in {d} \cup over PROVE AboveIn(shown, x) \subseteq AboveIn(list, x)
        <5>1. PICK X : X = AboveIn(list, x)
          OBVIOUS
        <5>2. X \subseteq over
          BY <3>2, <3>3, <4>5, <5>1, AboveAll
        <5>3. \A e \in DOMAIN shown : e = x \/ e \in X => shown[e] \in X
          BY <3>3, <4>4, <4>5, <5>1, <5>2, AboveStep
        <5> QED BY <5>1, <5>3, AboveLeast
      <4>6. \A x \in {d} \cup over : x \notin AboveIn(shown, x)
        <5> SUFFICES ASSUME NEW x \in {d} \cup over PROVE x \notin AboveIn(shown, x)
          OBVIOUS
        <5>1. CASE x \in DOMAIN list
          BY <3>3, <4>5, <5>1 DEF Acyclic
        <5>2. CASE x \notin DOMAIN list
          BY <4>5, <5>2, NothingAbove
        <5> QED BY <5>1, <5>2
      <4>7. AboveIn(shown, d) \subseteq over
        BY <3>2, <4>5
      <4> QED BY <2>3, <3>2, <4>1, <4>2, <4>6, <4>7 DEF InTree
    <3> QED BY <2>3, <3>1, <3>2, <3>4
  <2> QED BY <2>2, <2>3
<1> QED BY <1>1, DeptInvHolds, PTL

\* The numbers, locks and calls of generateAssetCode stay within their columns.
THEOREM CodeTypeCorrect == CodeSpec => []CodeTypeOK
<1>1. CodeInv => CodeTypeOK
  BY DEF CodeInv
<1> QED BY <1>1, CodeInductive, PTL

\* Organisations, accounts and pending registrations are always readable.
THEOREM RegistrationTypeCorrect == RegistrationSpec => []RegistrationTypeOK
<1>1. RegistrationInv => RegistrationTypeOK
  BY DEF RegistrationInv
<1> QED BY <1>1, RegistrationInitInv, RegistrationStep, PTL DEF RegistrationSpec
-----------------------------------------------------------------------------
(* MCGovernance runs one part.  Its steps are steps of that part, and the   *)
(* other parts stutter, so its behaviours are behaviours of every part.     *)
(* Ballots and dividends share the points: points move on their own in      *)
(* both, before there is a dividend in the latter, and where ballots run    *)
(* there never is one.                                                      *)

\* Ballots run without a dividend.
NoDividendAtBallots == part = "ballot" => dividend = NoRow

PartInits ==
  /\ AuctionInit /\ PointsInit /\ BallotInit /\ DividendInit /\ CodeInit
  /\ RegistrationInit /\ DirectoryInit /\ DeptInit /\ ChatInit /\ SkillInit

PartSteps ==
  /\ [AuctionNext]_auctionVars
  /\ [BallotNext]_<<ballotVars, pointsVars>>
  /\ [DividendNext]_<<dividendVars, pointsVars>>
  /\ [CodeNext]_codeVars
  /\ [RegistrationNext]_registrationVars
  /\ [DirectoryNext]_directoryVars
  /\ [DeptNext]_deptVars
  /\ [ChatNext]_chatVars
  /\ [SkillNext]_skillVars

\* A ballot's step leaves the points alone or is one of theirs; so does a dividend's.
LEMMA BallotsMovePoints == ASSUME BallotNext PROVE [PointsNext]_pointsVars
BY DEF BallotNext, OpenPage, ClickClose, ClickVote, ReadSession, Weigh, InsertVote, CountVotes, CountMembers,
       SaveResult, LoseBallot, Ask, Refuse

LEMMA DividendsMovePoints == ASSUME DividendNext PROVE [PointsNext]_pointsVars
BY DEF DividendNext, CreateDraft, FillAmount, Approve, Reject, Read, SaveDividend, LoseDividend

LEMMA PartStep ==
  ASSUME NoDividendAtBallots, [MCNext]_mcVars PROVE PartSteps /\ NoDividendAtBallots'
<1>1. CASE UNCHANGED mcVars
  BY <1>1 DEF mcVars, coreVars, PartSteps, NoDividendAtBallots, dividendVars
<1>2. CASE part = "auction" /\ AuctionPart /\ part' = part
  BY <1>2 DEF AuctionPart, PartSteps, NoDividendAtBallots, dividendVars
<1>3. CASE part = "ballot" /\ BallotPart /\ part' = part
  <2>1. BallotNext /\ UNCHANGED dividendVars /\ dividend = NoRow
    BY <1>3 DEF BallotPart, NoDividendAtBallots
  <2>2. [DividendNext]_<<dividendVars, pointsVars>>
    BY <2>1, BallotsMovePoints DEF DividendNext
  <2>3. NoDividendAtBallots'
    BY <2>1 DEF NoDividendAtBallots, dividendVars
  <2> QED BY <1>3, <2>1, <2>2, <2>3 DEF BallotPart, PartSteps
<1>4. CASE part = "dividend" /\ DividendPart /\ part' = part
  <2>1. DividendNext /\ UNCHANGED ballotVars
    BY <1>4 DEF DividendPart
  <2>2. [BallotNext]_<<ballotVars, pointsVars>>
    BY <2>1, DividendsMovePoints DEF BallotNext
  <2>3. NoDividendAtBallots'
    BY <1>4 DEF NoDividendAtBallots
  <2> QED BY <1>4, <2>1, <2>2, <2>3 DEF DividendPart, PartSteps
<1>5. CASE part = "code" /\ CodePart /\ part' = part
  BY <1>5 DEF CodePart, PartSteps, NoDividendAtBallots, dividendVars
<1>6. CASE part = "registration" /\ RegistrationPart /\ part' = part
  BY <1>6 DEF RegistrationPart, PartSteps, NoDividendAtBallots, dividendVars
<1>7. CASE part = "directory" /\ DirectoryPart /\ part' = part
  BY <1>7 DEF DirectoryPart, PartSteps, NoDividendAtBallots, dividendVars
<1>8. CASE part = "departments" /\ DepartmentsPart /\ part' = part
  BY <1>8 DEF DepartmentsPart, PartSteps, NoDividendAtBallots, dividendVars
<1>9. CASE part = "chat" /\ ChatPart /\ part' = part
  BY <1>9 DEF ChatPart, PartSteps, NoDividendAtBallots, dividendVars
<1>10. CASE part = "skill" /\ SkillPart /\ part' = part
  BY <1>10 DEF SkillPart, PartSteps, NoDividendAtBallots, dividendVars
<1> QED BY <1>1, <1>2, <1>3, <1>4, <1>5, <1>6, <1>7, <1>8, <1>9, <1>10 DEF MCNext

LEMMA PartsRun ==
  MCSpec => /\ AuctionSpec /\ BallotSpec /\ DividendSpec /\ CodeSpec /\ RegistrationSpec
            /\ DirectorySpec /\ DeptSpec /\ ChatSpec /\ SkillSpec
<1>1. MCInit => PartInits /\ NoDividendAtBallots
  BY DEF MCInit, PartInits, DividendInit, NoDividendAtBallots
<1>2. NoDividendAtBallots /\ [MCNext]_mcVars => PartSteps /\ NoDividendAtBallots'
  BY PartStep
<1>3. MCSpec => []NoDividendAtBallots
  BY <1>1, <1>2, PTL DEF MCSpec
<1>4. PartInits =>
        /\ AuctionInit /\ BallotInit /\ PointsInit /\ DividendInit /\ CodeInit /\ RegistrationInit
        /\ DirectoryInit /\ DeptInit /\ ChatInit /\ SkillInit
  BY DEF PartInits
<1>5. NoDividendAtBallots /\ [MCNext]_mcVars =>
        /\ [AuctionNext]_auctionVars
        /\ [BallotNext]_<<ballotVars, pointsVars>>
        /\ [DividendNext]_<<dividendVars, pointsVars>>
        /\ [CodeNext]_codeVars
        /\ [RegistrationNext]_registrationVars
        /\ [DirectoryNext]_directoryVars
        /\ [DeptNext]_deptVars
        /\ [ChatNext]_chatVars
        /\ [SkillNext]_skillVars
  BY PartStep DEF PartSteps
<1> QED
  BY <1>1, <1>3, <1>4, <1>5, PTL DEF MCSpec, AuctionSpec, BallotSpec, DividendSpec, CodeSpec, RegistrationSpec,
     DirectorySpec, DeptSpec, ChatSpec, SkillSpec

\* The rows, requests and runs of every part around the tasks stay within what its handlers
\* can read, whichever part runs and whatever its bounds are.
THEOREM PartsTypeCorrect == MCSpec => []TypeOK
<1>1. /\ AuctionTypeOK
      /\ PointsTypeOK /\ BallotTypeOK
      /\ DividendTypeOK
      /\ CodeTypeOK
      /\ RegistrationTypeOK
      /\ DirectoryTypeOK /\ ResignedLeft
      /\ DeptTypeOK
      /\ ChatTypeOK /\ AnswerKept
      /\ SkillTypeOK
      => TypeOK
  BY DEF TypeOK
<1> QED
  BY <1>1, PartsRun, AuctionTypeCorrect, BallotTypeCorrect, DividendTypeCorrect, CodeTypeCorrect,
     RegistrationTypeCorrect, NobodyResignedForNothing, DeptTypeCorrect, AnswersStay, SkillTypeCorrect, PTL

=============================================================================
