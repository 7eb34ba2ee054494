----------------------------- MODULE Registration -----------------------------
(***************************************************************************)
(* Registration with a code that is sent by mail: backend/src/auth,        *)
(* tenant and user services, and RegisterPage of the frontend.             *)
(*   What was entered waits in Redis until the code comes back; then the   *)
(* organisation (of a founder), the user and the founder's role are        *)
(* inserted one after the other, and the key is deleted.  Nothing undoes   *)
(* the first inserts when a later one fails.  The page has one call at a   *)
(* time, unless it gives up waiting for an answer.                         *)
(*   Codes that do not match, deactivated organisations and tokens are     *)
(* left out; a mail is compared in one case.                               *)
(***************************************************************************)
EXTENDS Naturals, FiniteSets

CONSTANTS
  Slugs, Emails,
  Keys,           \* pendingIds, each known to one page
  Verifications,  \* calls of verifyEmail
  MaxResends,     \* bound: codes sent again
  MaxGivenUp,     \* bound: calls that fail or are not waited for
  NoKey, NoVerification

VARIABLES
  tenant,    \* slugs of the organisations
  account,   \* [Slugs -> [Emails -> role]]: users and their role, "absent" where there is no user
  pending,   \* [Keys -> what waits in Redis, or NoKey]
  busy,      \* keys whose page waits for an answer
  verifying, \* [Verifications -> the call in flight, or NoVerification]
  resend,    \* [Keys -> what resendVerification has read, or NoKey]
  resent, givenUp,
  cut        \* history: organisations whose founding call failed halfway

registrationVars == <<tenant, account, pending, busy, verifying, resend, resent, givenUp, cut>>

Role == {"absent", "none", "super_admin"}
Pending == [founder : BOOLEAN, slug : Slugs, mail : Emails, code : 0 .. MaxResends]
Verification == [at : {"tenant", "user", "role", "drop"}, key : Keys, of : Pending]

ASSUME RegistrationAssumption ==
  /\ MaxResends \in Nat /\ MaxGivenUp \in Nat
  /\ NoKey \notin Pending /\ NoVerification \notin Verification

RegistrationTypeOK ==
  /\ tenant \subseteq Slugs /\ cut \subseteq tenant
  /\ account \in [Slugs -> [Emails -> Role]]
  /\ \A s \in Slugs \ tenant, m \in Emails : account[s][m] = "absent"
  /\ pending \in [Keys -> Pending \cup {NoKey}] /\ resend \in [Keys -> Pending \cup {NoKey}]
  /\ busy \subseteq Keys
  /\ verifying \in [Verifications -> Verification \cup {NoVerification}]
  /\ resent \in 0 .. MaxResends /\ givenUp \in 0 .. MaxGivenUp

RegistrationInit ==
  /\ tenant = {} /\ cut = {}
  /\ account = [s \in Slugs |-> [m \in Emails |-> "absent"]]
  /\ pending = [k \in Keys |-> NoKey] /\ resend = [k \in Keys |-> NoKey]
  /\ busy = {}
  /\ verifying = [v \in Verifications |-> NoVerification]
  /\ resent = 0 /\ givenUp = 0

-----------------------------------------------------------------------------
(* The first step of the page.                                              *)

Wait(k, entered) ==
  /\ pending[k] = NoKey /\ resend[k] = NoKey /\ k \notin busy
  /\ \A v \in Verifications : verifying[v] # NoVerification => verifying[v].key # k
  /\ pending' = [pending EXCEPT ![k] = entered]
  /\ UNCHANGED <<tenant, account, busy, verifying, resend, resent, givenUp, cut>>

\* register: the organisation is there, the mail has no account in it.
Register(k, s, m) ==
  /\ s \in tenant /\ account[s][m] = "absent"
  /\ Wait(k, [founder |-> FALSE, slug |-> s, mail |-> m, code |-> 0])

\* registerWithOrg: the slug is free.
RegisterWithOrg(k, s, m) ==
  /\ s \notin tenant
  /\ Wait(k, [founder |-> TRUE, slug |-> s, mail |-> m, code |-> 0])

\* The key lives for a limited time.
Expire(k) ==
  /\ pending[k] # NoKey
  /\ pending' = [pending EXCEPT ![k] = NoKey]
  /\ UNCHANGED <<tenant, account, busy, verifying, resend, resent, givenUp, cut>>

-----------------------------------------------------------------------------
(* The second step of the page: a new code.                                 *)

ReadResend(k) ==
  /\ k \notin busy /\ resend[k] = NoKey /\ pending[k] # NoKey /\ resent < MaxResends
  /\ resend' = [resend EXCEPT ![k] = pending[k]]
  /\ busy' = busy \cup {k}
  /\ resent' = resent + 1
  /\ UNCHANGED <<tenant, account, pending, verifying, givenUp, cut>>

\* The key is set again, also when it was deleted or has expired in between.
SetResend(k) ==
  /\ resend[k] # NoKey
  /\ pending' = [pending EXCEPT ![k] = [resend[k] EXCEPT !.code = resent]]
  /\ resend' = [resend EXCEPT ![k] = NoKey]
  /\ busy' = busy \ {k}
  /\ UNCHANGED <<tenant, account, verifying, resent, givenUp, cut>>

-----------------------------------------------------------------------------
(* verifyEmail                                                              *)

\* The right code: of the mail that was sent last.
ReadPending(v, k) ==
  /\ k \notin busy /\ verifying[v] = NoVerification /\ pending[k] # NoKey
  /\ verifying' = [verifying EXCEPT ![v] =
       [at |-> IF pending[k].founder THEN "tenant" ELSE "user", key |-> k, of |-> pending[k]]]
  /\ busy' = busy \cup {k}
  /\ UNCHANGED <<tenant, account, pending, resend, resent, givenUp, cut>>

StepIs(v, at) == verifying[v] # NoVerification /\ verifying[v].at = at

GoOn(v, at) ==
  /\ verifying' = [verifying EXCEPT ![v].at = at]
  /\ UNCHANGED busy

\* The call answers; halfway through a founding this is remembered.
Answer(v) ==
  /\ verifying' = [verifying EXCEPT ![v] = NoVerification]
  /\ busy' = busy \ {verifying[v].key}

GiveError(v) ==
  /\ Answer(v)
  /\ cut' = IF verifying[v].of.founder /\ verifying[v].at \in {"user", "role"}
            THEN cut \cup {verifying[v].of.slug} ELSE cut
  /\ UNCHANGED <<tenant, account, pending, resend, resent>>

\* The check and the unique index on the slug refuse alike.
CreateTenant(v) ==
  /\ StepIs(v, "tenant") /\ verifying[v].of.slug \notin tenant
  /\ tenant' = tenant \cup {verifying[v].of.slug}
  /\ GoOn(v, "user")
  /\ UNCHANGED <<account, pending, resend, resent, givenUp, cut>>

SlugTaken(v) ==
  /\ StepIs(v, "tenant") /\ verifying[v].of.slug \in tenant
  /\ GiveError(v)
  /\ UNCHANGED givenUp

\* Mutant: the role is given to nobody.
AfterUserAlike(founder) == "drop"

AfterUser(founder) == IF founder THEN "role" ELSE "drop"

Grant(v, role) ==
  account' = [account EXCEPT ![verifying[v].of.slug][verifying[v].of.mail] = role]

HasAccount(v) == account[verifying[v].of.slug][verifying[v].of.mail] # "absent"

\* users: UNIQUE (tenantId, email).
CreateUser(v) ==
  /\ StepIs(v, "user") /\ ~HasAccount(v)
  /\ Grant(v, "none")
  /\ GoOn(v, AfterUser(verifying[v].of.founder))
  /\ UNCHANGED <<tenant, pending, resend, resent, givenUp, cut>>

MailTaken(v) ==
  /\ StepIs(v, "user") /\ HasAccount(v)
  /\ GiveError(v)
  /\ UNCHANGED givenUp

SaveRole(v) ==
  /\ StepIs(v, "role")
  /\ Grant(v, "super_admin")
  /\ GoOn(v, "drop")
  /\ UNCHANGED <<tenant, pending, resend, resent, givenUp, cut>>

DropPending(v) ==
  /\ StepIs(v, "drop")
  /\ pending' = [pending EXCEPT ![verifying[v].key] = NoKey]
  /\ Answer(v)
  /\ UNCHANGED <<tenant, account, resend, resent, givenUp, cut>>

\* A query fails or the process dies.
FailVerification(v) ==
  /\ verifying[v] # NoVerification /\ givenUp < MaxGivenUp
  /\ givenUp' = givenUp + 1
  /\ GiveError(v)

\* The page stops waiting (30 s) while the server still works.
GiveUp(k) ==
  /\ k \in busy /\ givenUp < MaxGivenUp
  /\ givenUp' = givenUp + 1
  /\ busy' = busy \ {k}
  /\ UNCHANGED <<tenant, account, pending, verifying, resend, resent, cut>>

RegistrationNext ==
  \/ \E k \in Keys :
       \/ \E s \in Slugs, m \in Emails : Register(k, s, m) \/ RegisterWithOrg(k, s, m)
       \/ Expire(k) \/ ReadResend(k) \/ SetResend(k) \/ GiveUp(k)
       \/ \E v \in Verifications : ReadPending(v, k)
  \/ \E v \in Verifications :
       \/ CreateTenant(v) \/ SlugTaken(v) \/ CreateUser(v) \/ MailTaken(v)
       \/ SaveRole(v) \/ DropPending(v) \/ FailVerification(v)

RegistrationSpec == RegistrationInit /\ [][RegistrationNext]_registrationVars

-----------------------------------------------------------------------------
\* Founders race for a slug, people join an organisation that is being founded, keys
\* are verified twice: an organisation without an administrator is still being founded,
\* or its founding call failed halfway (then nobody can found it again).
TenantsHaveAdmin ==
  \A s \in tenant :
    \/ \E m \in Emails : account[s][m] = "super_admin"
    \/ \E v \in Verifications :
         (StepIs(v, "user") \/ StepIs(v, "role")) /\ verifying[v].of.founder /\ verifying[v].of.slug = s
    \/ s \in cut

=============================================================================
