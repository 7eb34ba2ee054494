------------------------------- MODULE Directory -------------------------------
(***************************************************************************)
(* People of Feishu and accounts of the platform, in one organisation:     *)
(* backend/src/feishu (full sync, contact webhooks) and the Feishu login   *)
(* of backend/src/auth.                                                    *)
(*   A full sync lists everybody, upserts them one by one (an error of one *)
(* is logged) and then resigns the accounts whose person was not listed.   *)
(* Webhooks are handled as they come, at the same time, in any order, more *)
(* than once or never.  A login finds, links or creates an account; the    *)
(* link waits for a confirmation.  Accounts are never deleted.             *)
(*   The list is read at once; a role row is read and written in one step; *)
(* mapped roles count as employee; departments, names and logs are left    *)
(* out.                                                                    *)
(***************************************************************************)
EXTENDS Naturals, FiniteSets

CONSTANTS
  People, Mails,  \* open ids of Feishu, and mail addresses
  MailOf,         \* [People -> address]: a mail, or the person's own id where Feishu has none
  Workers,        \* runs of the sync job, webhook handlers, login calls
  MaxChanges,     \* bound: people joining and leaving
  MaxErrors,      \* bound: failed queries and calls
  NoPerson, NoWork

ASSUME DirectoryAssumption ==
  /\ \A p \in People : MailOf[p] \in Mails \cup {p}
  /\ MaxChanges \in Nat /\ MaxErrors \in Nat
  /\ NoPerson \notin People /\ Mails \cap People = {}

VARIABLES
  staff,    \* people in Feishu
  row,      \* [Addresses -> Account]: the users, by their mail
  events,   \* contact events Feishu has sent, and may send again
  links,    \* link tokens waiting for a confirmation
  work,     \* [Workers -> Work or NoWork]
  changes, errors,
  left,     \* history: people who left at some time
  raced     \* history: people who joined while a full sync was under way

directoryVars == <<staff, row, events, links, work, changes, errors, left, raced>>

\* <open id>@feishu.local is the address of those without a mail.
Addresses == Mails \cup People
Account == [open : People \cup {NoPerson}, role : {"absent", "none", "employee", "resigned"}]
Event == [type : {"user", "deleted"}, person : People]
Work == [kind : {"sync", "user", "deleted", "login"},
         at : {"next", "open", "mail", "update", "insert", "role", "resign"},
         person : People \cup {NoPerson}, address : Addresses \cup {NoPerson},
         todo : SUBSET People, seen : SUBSET People, out : SUBSET Addresses]

ASSUME NoWorkAssumption == NoWork \notin Work

DirectoryTypeOK ==
  /\ staff \subseteq People /\ left \subseteq People /\ raced \subseteq People
  /\ row \in [Addresses -> Account]
  /\ \A a \in Addresses : row[a].role = "absent" => row[a].open = NoPerson
  /\ \A a, b \in Addresses : row[a].open = row[b].open => a = b \/ row[a].open = NoPerson
  /\ events \subseteq Event /\ links \subseteq [person : People, address : Mails]
  /\ work \in [Workers -> Work \cup {NoWork}]
  /\ changes \in 0 .. MaxChanges /\ errors \in 0 .. MaxErrors

\* Some have registered with a password before.
DirectoryInit ==
  /\ staff = {} /\ events = {} /\ links = {} /\ left = {} /\ raced = {}
  /\ \E registered \in SUBSET Mails :
       row = [a \in Addresses |->
                [open |-> NoPerson, role |-> IF a \in registered THEN "employee" ELSE "absent"]]
  /\ work = [w \in Workers |-> NoWork]
  /\ changes = 0 /\ errors = 0

-----------------------------------------------------------------------------
(* Feishu.                                                                  *)

Idle == [kind |-> "sync", at |-> "next", person |-> NoPerson, address |-> NoPerson,
         todo |-> {}, seen |-> {}, out |-> {}]

Change(type, p) ==
  /\ changes < MaxChanges /\ changes' = changes + 1
  /\ events' = events \cup {[type |-> type, person |-> p]}
  /\ UNCHANGED <<row, links, work, errors>>

SyncRuns == \E w \in Workers : work[w] # NoWork /\ work[w].kind = "sync"

\* A mail belongs to one person at a time; somebody hired again has a new open id.
JoinFeishu(p) ==
  /\ p \notin staff /\ \A other \in staff : MailOf[other] # MailOf[p]
  /\ staff' = staff \cup {p}
  /\ raced' = IF SyncRuns THEN raced \cup {p} ELSE raced
  /\ Change("user", p)
  /\ UNCHANGED left

LeaveFeishu(p) ==
  /\ p \in staff
  /\ staff' = staff \ {p} /\ left' = left \cup {p}
  /\ Change("deleted", p)
  /\ UNCHANGED raced

-----------------------------------------------------------------------------
(* Starting work.                                                           *)

Doing(w, at) == work[w] # NoWork /\ work[w].at = at

\* Changes of one worker's work and of the accounts only.
Working(w, next) ==
  /\ work' = [work EXCEPT ![w] = next]
  /\ UNCHANGED <<staff, events, changes, left, raced>>

StartWork(w, next) ==
  /\ work[w] = NoWork
  /\ Working(w, next)
  /\ UNCHANGED <<row, links, errors>>

\* syncAll: the list of people; jobs may overlap.
StartSync(w) == StartWork(w, [Idle EXCEPT !.todo = staff])

\* processWebhookEvent
HandleEvent(w, e) ==
  /\ e \in events
  /\ StartWork(w, [Idle EXCEPT !.kind = e.type, !.at = "open", !.person = e.person])

\* handleFeishuCallback: Feishu tells the mail, or does not.
Login(w, p, address) ==
  /\ p \in staff /\ address \in {MailOf[p], p}
  /\ StartWork(w, [Idle EXCEPT !.kind = "login", !.at = "open", !.person = p, !.address = address])

\* The work is done, or the next person's turn comes.
After(w) ==
  IF work[w].kind = "sync" /\ work[w].at # "resign"
  THEN [Idle EXCEPT !.todo = work[w].todo, !.seen = work[w].seen] ELSE NoWork

Finish(w) == Working(w, After(w))

\* Mutant: the people listed are not remembered.
NotedNever(seen, p) == seen

Noted(seen, p) == seen \cup {p}

\* Remembered before, and whatever becomes of, the upsert.
NextPerson(w) ==
  /\ Doing(w, "next")
  /\ \E p \in work[w].todo :
       Working(w, [work[w] EXCEPT !.at = "open", !.person = p, !.address = MailOf[p],
                                  !.todo = @ \ {p}, !.seen = Noted(@, p)])
  /\ UNCHANGED <<row, links, errors>>

-----------------------------------------------------------------------------
(* upsertFeishuUser, and the like in handleFeishuCallback.                  *)

AccountsOf(p) == {a \in Addresses : row[a].open = p}

AddressFor(w) == IF work[w].kind = "login" THEN work[w].address ELSE MailOf[work[w].person]

\* A deleted event resigns the account that is found, a login leaves it as it is.
FindByOpenId(w) ==
  LET found == AccountsOf(work[w].person)
  IN /\ Doing(w, "open")
     /\ \/ /\ found = {} /\ work[w].kind # "deleted"
           /\ Working(w, [work[w] EXCEPT !.at = "mail", !.address = AddressFor(w)])
        \/ /\ found # {} /\ work[w].kind \in {"sync", "user"}
           /\ Working(w, [work[w] EXCEPT !.at = "update", !.address = CHOOSE a \in found : TRUE])
        \/ /\ found # {} /\ work[w].kind = "deleted"
           /\ Working(w, [work[w] EXCEPT !.at = "resign", !.out = found])
        \/ /\ IF found = {} THEN work[w].kind = "deleted" ELSE work[w].kind = "login"
           /\ Finish(w)
     /\ UNCHANGED <<row, links, errors>>

\* The platform's own addresses belong to nobody else.
FindByMail(w) ==
  LET there == row[work[w].address].role # "absent" /\ work[w].address \in Mails
  IN /\ Doing(w, "mail")
     /\ \/ ~there /\ Working(w, [work[w] EXCEPT !.at = "insert"]) /\ UNCHANGED links
        \/ /\ there /\ work[w].kind # "login"
           /\ Working(w, [work[w] EXCEPT !.at = "update"]) /\ UNCHANGED links
        \/ /\ there /\ work[w].kind = "login"
           /\ links' = links \cup {[person |-> work[w].person, address |-> work[w].address]}
           /\ Finish(w)
     /\ UNCHANGED <<row, errors>>

\* Mutant: no unique index on the open id.
FreeAlways(p, a) == TRUE

\* Unique: the open id (within the organisation), and the mail.
Free(p, a) == AccountsOf(p) \subseteq {a}

\* The account is saved with the person's id; the role stays what it is.
UpdateAccount(w) ==
  LET a == work[w].address
      p == work[w].person
  IN /\ Doing(w, "update")
     /\ row' = IF Free(p, a) THEN [row EXCEPT ![a].open = p] ELSE row
     /\ Finish(w)
     /\ UNCHANGED <<links, errors>>

InsertAccount(w) ==
  LET a == work[w].address
      p == work[w].person
      fits == Free(p, a) /\ row[a].role = "absent"
  IN /\ Doing(w, "insert")
     /\ row' = IF fits THEN [row EXCEPT ![a] = [open |-> p, role |-> "none"]] ELSE row
     /\ IF fits THEN Working(w, [work[w] EXCEPT !.at = "role"]) ELSE Finish(w)
     /\ UNCHANGED <<links, errors>>

\* A login leaves a role alone that is there already.
GiveRole(w) ==
  LET a == work[w].address
  IN /\ Doing(w, "role")
     /\ row' = IF work[w].kind = "login" /\ row[a].role # "none" THEN row
               ELSE [row EXCEPT ![a].role = "employee"]
     /\ Finish(w)
     /\ UNCHANGED <<links, errors>>

-----------------------------------------------------------------------------
(* The end of syncAll.                                                      *)

Unseen(seen) == {a \in Addresses : row[a].open \notin seen \cup {NoPerson}}

FindUnseen(w) ==
  /\ Doing(w, "next") /\ work[w].todo = {}
  /\ Working(w, [work[w] EXCEPT !.at = "resign", !.seen = {}, !.out = Unseen(work[w].seen)])
  /\ UNCHANGED <<row, links, errors>>

Resign(w) ==
  /\ Doing(w, "resign")
  /\ \E a \in work[w].out :
       /\ row' = [row EXCEPT ![a].role = "resigned"]
       /\ Working(w, [work[w] EXCEPT !.out = @ \ {a}])
  /\ UNCHANGED <<links, errors>>

AllResigned(w) ==
  /\ Doing(w, "resign") /\ work[w].out = {}
  /\ Finish(w)
  /\ UNCHANGED <<row, links, errors>>

\* A failing query ends a handler, a login, or one person's turn; of a sync outside
\* the turns it ends the whole.
FailWork(w) ==
  /\ work[w] # NoWork /\ errors < MaxErrors
  /\ errors' = errors + 1
  /\ IF work[w].at = "next" THEN Working(w, NoWork) ELSE Finish(w)
  /\ UNCHANGED <<row, links>>

-----------------------------------------------------------------------------
(* confirmFeishuLink: the token is used up first.                           *)

UseLink(l) ==
  /\ l \in links
  /\ links' = links \ {l}
  /\ UNCHANGED <<staff, events, work, changes, errors, left, raced>>

\* link; refused if the person has another account by now.
ConfirmLink(l) ==
  /\ UseLink(l)
  /\ row' = IF Free(l.person, l.address) THEN [row EXCEPT ![l.address].open = l.person] ELSE row

\* create_new, with the mail of the account that is there: refused every time.  Or the
\* token expires.
DropLink(l) == UseLink(l) /\ UNCHANGED row

DirectoryNext ==
  \/ \E p \in People : JoinFeishu(p) \/ LeaveFeishu(p)
  \/ \E w \in Workers :
       \/ StartSync(w) \/ \E e \in events : HandleEvent(w, e)
       \/ \E p \in People, a \in Addresses : Login(w, p, a)
       \/ NextPerson(w) \/ FindByOpenId(w) \/ FindByMail(w) \/ UpdateAccount(w)
       \/ InsertAccount(w) \/ GiveRole(w)
       \/ FindUnseen(w) \/ Resign(w) \/ AllResigned(w) \/ FailWork(w)
  \/ \E l \in links : ConfirmLink(l) \/ DropLink(l)

DirectorySpec == DirectoryInit /\ [][DirectoryNext]_directoryVars

-----------------------------------------------------------------------------
\* Syncs, late or repeated webhooks, failed upserts, logins and links: nobody's account
\* is marked resigned unless its person, or one with the same mail, left Feishu at some
\* time or joined while a full sync was under way.
ResignedLeft ==
  \A a \in Addresses : row[a].role = "resigned" =>
    \E p \in left \cup raced : a \in {MailOf[p], p}

=============================================================================
