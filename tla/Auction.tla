-------------------------------- MODULE Auction --------------------------------
(***************************************************************************)
(* Auctions: backend/src/auction, the auction branch of claimTask, and the *)
(* close job of backend/src/queue/processors.                              *)
(*   A bid is checked against the auction, then against the highest bid,   *)
(* then saved; the close job reads the auction, then the highest bid, then *)
(* saves the whole auction: bids, closes and cancellations interleave at   *)
(* every await.  The job starts no earlier than the deadline; a failed run *)
(* is retried, a run whose lock is lost is started again (once) while it   *)
(* may still be running.  The winner is announced in memory.               *)
(*   Of a task only the assignee is kept: TaskService has the rest.        *)
(***************************************************************************)
EXTENDS Naturals, FiniteSets

CONSTANTS
  Auctions, Tasks, Bidders,
  Calls, Closers,  \* calls of the endpoints; runs of the close job
  Amounts,         \* bids and least bids
  Attempts,        \* runs of a job before Bull gives up
  MaxCalls,        \* bound: calls of the endpoints
  MaxFaults,       \* bound: lost calls, failed and stalled runs, lost announcements
  Nobody, NoTask, NoRequest

ASSUME AuctionAssumption ==
  /\ Amounts \subseteq Nat /\ 0 \in Amounts
  /\ Attempts \in Nat \ {0} /\ MaxCalls \in Nat /\ MaxFaults \in Nat
  /\ Nobody \notin Bidders /\ NoTask \notin Tasks /\ NoRequest \notin Closers

VARIABLES
  auction,    \* [Auctions -> Auction]: the rows
  due,        \* [Auctions -> BOOLEAN]: the deadline has passed
  bids,       \* [Auctions -> SUBSET Bid]
  job,        \* [Auctions -> Job]: the delayed close job
  holder,     \* [Tasks -> assignee]
  request,    \* [Calls -> the call in flight, or NoRequest]
  closing,    \* [Closers -> the run in flight, or NoRequest]
  announced,  \* 'auction.closed' events the listener is still working on
  requests,   \* calls so far
  mishaps     \* faults so far

auctionVars == <<auction, due, bids, job, holder, request, closing, announced, requests, mishaps>>

Status == {"absent", "open", "closed", "cancelled"}
Auction == [status : Status, minBid : Amounts, target : Tasks \cup {NoTask},
            winner : Bidders \cup {Nobody}, winning : Amounts]
\* late is a history field: somebody was about to close the auction, or it was over.
Bid == [by : Bidders, amount : Amounts, late : BOOLEAN]
Job == [state : {"none", "waiting", "active", "done", "failed"}, tries : 0 .. Attempts,
        stalled : BOOLEAN, owner : Closers \cup {NoRequest}]
Request == [at : {"claim", "created", "bid", "price", "save", "cancel"},
            task : Tasks \cup {NoTask}, auction : Auctions, user : Bidders, amount : Amounts,
            claim : BOOLEAN]
Closing == [at : {"check", "choose", "save"}, auction : Auctions,
            winner : Bidders \cup {Nobody}, winning : Amounts]

NoAuction == [status |-> "absent", minBid |-> 0, target |-> NoTask, winner |-> Nobody, winning |-> 0]
NoJob == [state |-> "none", tries |-> 0, stalled |-> FALSE, owner |-> NoRequest]

AuctionTypeOK ==
  /\ auction \in [Auctions -> Auction] /\ due \in [Auctions -> BOOLEAN]
  /\ bids \in [Auctions -> SUBSET Bid]
  /\ job \in [Auctions -> Job]
  /\ holder \in [Tasks -> Bidders \cup {Nobody}]
  /\ request \in [Calls -> Request \cup {NoRequest}]
  /\ closing \in [Closers -> Closing \cup {NoRequest}]
  /\ announced \subseteq [task : Tasks, winner : Bidders]
  /\ requests \in 0 .. MaxCalls /\ mishaps \in 0 .. MaxFaults

AuctionInit ==
  /\ auction = [a \in Auctions |-> NoAuction] /\ due = [a \in Auctions |-> FALSE]
  /\ bids = [a \in Auctions |-> {}] /\ job = [a \in Auctions |-> NoJob]
  /\ holder = [t \in Tasks |-> Nobody]
  /\ request = [c \in Calls |-> NoRequest] /\ closing = [w \in Closers |-> NoRequest]
  /\ announced = {} /\ requests = 0 /\ mishaps = 0

-----------------------------------------------------------------------------
(* The endpoints.                                                           *)

Call(c, r) ==
  /\ request[c] = NoRequest /\ requests < MaxCalls
  /\ requests' = requests + 1
  /\ request' = [request EXCEPT ![c] = r]

Proceed(c, at) ==
  /\ request' = [request EXCEPT ![c].at = at]
  /\ UNCHANGED requests

Return(c) ==
  /\ request' = [request EXCEPT ![c] = NoRequest]
  /\ UNCHANGED requests

RequestAt(c, at) == request[c] # NoRequest /\ request[c].at = at

OpenForBids(a) == auction[a].status = "open" /\ ~due[a]

\* Mutant: the rows are sorted by amount, the lowest first.
Lowest(a) == {b \in bids[a] : \A other \in bids[a] : b.amount <= other.amount}

\* getHighestBid: one of the highest, if there are several.
Highest(a) == {b \in bids[a] : \A other \in bids[a] : other.amount <= b.amount}

Required(a) ==
  IF bids[a] = {} THEN auction[a].minBid ELSE (CHOOSE b \in Highest(a) : TRUE).amount + 1

Insert(c, a, r, target, minBid) ==
  /\ auction[a] = NoAuction
  /\ auction' = [auction EXCEPT ![a] =
       [NoAuction EXCEPT !.status = "open", !.minBid = minBid, !.target = target]]
  /\ Call(c, r)
  /\ UNCHANGED <<due, bids, job, holder, closing, announced, mishaps>>

\* POST auctions: the row is saved, the close job not yet added.
CreateAuction(c, a, u, target, minBid) ==
  Insert(c, a, [at |-> "created", task |-> target, auction |-> a, user |-> u, amount |-> 0,
                claim |-> FALSE], target, minBid)

\* POST tasks/:id/claim of a task that somebody holds: an auction, in which the
\* holder that was read will bid 0.
ClaimHeldTask(c, a, t) ==
  /\ holder[t] # Nobody
  /\ Insert(c, a, [at |-> "created", task |-> t, auction |-> a, user |-> holder[t],
                   amount |-> 0, claim |-> TRUE], t, 0)

\* Of a task without an assignee: the whole task is saved later.
ClaimFreeTask(c, a, u, t) ==
  /\ holder[t] = Nobody
  /\ Call(c, [at |-> "claim", task |-> t, auction |-> a, user |-> u, amount |-> 0, claim |-> TRUE])
  /\ UNCHANGED <<auction, due, bids, job, holder, closing, announced, mishaps>>

SaveHolder(c) ==
  /\ RequestAt(c, "claim")
  /\ holder' = [holder EXCEPT ![request[c].task] = request[c].user]
  /\ Return(c)
  /\ UNCHANGED <<auction, due, bids, job, closing, announced, mishaps>>

\* The delayed job is added; a claim goes on to bid.
AddCloseJob(c) ==
  /\ RequestAt(c, "created")
  /\ job' = [job EXCEPT ![request[c].auction].state = "waiting"]
  /\ IF request[c].claim THEN Proceed(c, "bid") ELSE Return(c)
  /\ UNCHANGED <<auction, due, bids, holder, closing, announced, mishaps>>

ReadForClaim(c) ==
  /\ RequestAt(c, "bid")
  /\ IF OpenForBids(request[c].auction) THEN Proceed(c, "price") ELSE Return(c)
  /\ UNCHANGED <<auction, due, bids, job, holder, closing, announced, mishaps>>

PlaceBid(c, a, u, amount) ==
  /\ OpenForBids(a)
  /\ Call(c, [at |-> "price", task |-> NoTask, auction |-> a, user |-> u, amount |-> amount,
              claim |-> FALSE])
  /\ UNCHANGED <<auction, due, bids, job, holder, closing, announced, mishaps>>

PriceBid(c) ==
  /\ RequestAt(c, "price")
  /\ IF request[c].amount >= Required(request[c].auction) THEN Proceed(c, "save") ELSE Return(c)
  /\ UNCHANGED <<auction, due, bids, job, holder, closing, announced, mishaps>>

Chosen(a) == \E w \in Closers : closing[w] # NoRequest /\ closing[w].auction = a /\ closing[w].at = "save"

SaveBid(c) ==
  LET a == request[c].auction
      bid == [by |-> request[c].user, amount |-> request[c].amount,
              late |-> Chosen(a) \/ auction[a].status # "open"]
  IN /\ RequestAt(c, "save")
     /\ bids' = [bids EXCEPT ![a] = @ \cup {bid}]
     /\ Return(c)
     /\ UNCHANGED <<auction, due, job, holder, closing, announced, mishaps>>

Cancel(c, a, u) ==
  /\ auction[a].status = "open"
  /\ Call(c, [at |-> "cancel", task |-> NoTask, auction |-> a, user |-> u, amount |-> 0,
              claim |-> FALSE])
  /\ UNCHANGED <<auction, due, bids, job, holder, closing, announced, mishaps>>

\* The auction is saved as it was read, without a winner.
SaveCancelled(c) ==
  /\ RequestAt(c, "cancel")
  /\ auction' = [auction EXCEPT ![request[c].auction] =
       [@ EXCEPT !.status = "cancelled", !.winner = Nobody, !.winning = 0]]
  /\ Return(c)
  /\ UNCHANGED <<due, bids, job, holder, closing, announced, mishaps>>

LoseRequest(c) ==
  /\ request[c] # NoRequest /\ mishaps < MaxFaults
  /\ mishaps' = mishaps + 1
  /\ Return(c)
  /\ UNCHANGED <<auction, due, bids, job, holder, closing, announced>>

-----------------------------------------------------------------------------
(* The close job.                                                           *)

Deadline(a) ==
  /\ auction[a] # NoAuction /\ ~due[a]
  /\ due' = [due EXCEPT ![a] = TRUE]
  /\ UNCHANGED <<auction, bids, job, holder, request, closing, announced, requests, mishaps>>

\* A run that has lost its lock no longer counts.
EndRun(w, next) ==
  LET a == closing[w].auction
  IN /\ closing' = [closing EXCEPT ![w] = NoRequest]
     /\ job' = IF job[a].owner = w THEN [job EXCEPT ![a] = [next EXCEPT !.owner = NoRequest]] ELSE job

Done(w) == EndRun(w, [job[closing[w].auction] EXCEPT !.state = "done"])

TakeCloseJob(w, a) ==
  /\ closing[w] = NoRequest /\ job[a].state = "waiting" /\ due[a]
  /\ job' = [job EXCEPT ![a] = [@ EXCEPT !.state = "active", !.owner = w]]
  /\ closing' = [closing EXCEPT ![w] = [at |-> "check", auction |-> a, winner |-> Nobody, winning |-> 0]]
  /\ UNCHANGED <<auction, due, bids, holder, request, announced, requests, mishaps>>

\* close returns at once when the auction is over.
CheckOpen(w) ==
  /\ closing[w] # NoRequest /\ closing[w].at = "check"
  /\ IF auction[closing[w].auction].status = "open"
     THEN closing' = [closing EXCEPT ![w].at = "choose"] /\ UNCHANGED job
     ELSE Done(w)
  /\ UNCHANGED <<auction, due, bids, holder, request, announced, requests, mishaps>>

ChooseWinner(w) ==
  LET a == closing[w].auction
      chosen(u, x) == closing' = [closing EXCEPT ![w] = [@ EXCEPT !.at = "save", !.winner = u, !.winning = x]]
  IN /\ closing[w] # NoRequest /\ closing[w].at = "choose"
     /\ \/ bids[a] = {} /\ chosen(Nobody, 0)
        \/ \E b \in Highest(a) : chosen(b.by, b.amount)
     /\ UNCHANGED <<auction, due, bids, job, holder, request, announced, requests, mishaps>>

SaveWinner(w) ==
  /\ closing[w] # NoRequest /\ closing[w].at = "save"
  /\ auction' = [auction EXCEPT ![closing[w].auction] =
       [@ EXCEPT !.status = "closed", !.winner = closing[w].winner, !.winning = closing[w].winning]]

\* The save is answered: the listener hears of it, if a task was at stake and won.
SaveClosed(w) ==
  LET a == closing[w].auction
  IN /\ SaveWinner(w)
     /\ announced' = announced \cup
          {m \in [task : {auction[a].target} \ {NoTask}, winner : {closing[w].winner} \ {Nobody}] : TRUE}
     /\ Done(w)
     /\ UNCHANGED <<due, bids, holder, request, requests, mishaps>>

\* Mutant: the processor logs the error and does not throw it again.
Swallowed(w) == Done(w)

\* The processor throws: Bull runs the job again while attempts are left.
Thrown(w) ==
  LET j == job[closing[w].auction]
  IN EndRun(w, [j EXCEPT !.tries = @ + 1, !.state = IF j.tries + 1 < Attempts THEN "waiting" ELSE "failed"])

\* A query of the run fails, and changes nothing.
FailClose(w) ==
  /\ closing[w] # NoRequest /\ mishaps < MaxFaults
  /\ mishaps' = mishaps + 1
  /\ Thrown(w)
  /\ UNCHANGED <<auction, due, bids, holder, request, announced, requests>>

\* The auction is saved but the answer is lost: nobody hears of the winner.
CloseUnheard(w) ==
  /\ mishaps < MaxFaults /\ mishaps' = mishaps + 1
  /\ SaveWinner(w)
  /\ Thrown(w)
  /\ UNCHANGED <<due, bids, holder, request, announced, requests>>

\* The run's lock expires: Bull hands the job out again, the run may go on.
StallClose(w) ==
  LET a == closing[w].auction
  IN /\ closing[w] # NoRequest /\ mishaps < MaxFaults /\ job[a].owner = w
     /\ mishaps' = mishaps + 1
     /\ job' = [job EXCEPT ![a] = [@ EXCEPT !.stalled = TRUE, !.owner = NoRequest,
                                            !.state = IF job[a].stalled THEN "failed" ELSE "waiting"]]
     /\ UNCHANGED <<auction, due, bids, holder, request, closing, announced, requests>>

-----------------------------------------------------------------------------
(* TaskAuctionListener.                                                     *)

AssignWinner(m) ==
  /\ m \in announced
  /\ announced' = announced \ {m}
  /\ holder' = [holder EXCEPT ![m.task] = m.winner]
  /\ UNCHANGED <<auction, due, bids, job, request, closing, requests, mishaps>>

\* An error of the listener is logged, the task stays with its holder.
AssignFails(m) ==
  /\ m \in announced /\ mishaps < MaxFaults
  /\ announced' = announced \ {m}
  /\ mishaps' = mishaps + 1
  /\ UNCHANGED <<auction, due, bids, job, holder, request, closing, requests>>

-----------------------------------------------------------------------------
CloseJobs(w) == CheckOpen(w) \/ ChooseWinner(w) \/ SaveClosed(w)

AuctionNext ==
  \/ \E c \in Calls :
       \/ SaveHolder(c) \/ AddCloseJob(c) \/ ReadForClaim(c) \/ PriceBid(c) \/ SaveBid(c)
       \/ SaveCancelled(c) \/ LoseRequest(c)
       \/ \E a \in Auctions, u \in Bidders :
            \/ \E target \in Tasks \cup {NoTask}, minBid \in Amounts : CreateAuction(c, a, u, target, minBid)
            \/ \E t \in Tasks : ClaimFreeTask(c, a, u, t)
            \/ \E amount \in Amounts : PlaceBid(c, a, u, amount)
            \/ Cancel(c, a, u)
       \/ \E a \in Auctions, t \in Tasks : ClaimHeldTask(c, a, t)
  \/ \E a \in Auctions : Deadline(a) \/ \E w \in Closers : TakeCloseJob(w, a)
  \/ \E w \in Closers : CloseJobs(w) \/ FailClose(w) \/ CloseUnheard(w) \/ StallClose(w)
  \/ \E m \in [task : Tasks, winner : Bidders] : AssignWinner(m) \/ AssignFails(m)

AuctionSpec == AuctionInit /\ [][AuctionNext]_auctionVars

\* Time passes and the workers of the queue keep working.
AuctionFairness ==
  /\ \A a \in Auctions : WF_auctionVars(Deadline(a)) /\ WF_auctionVars(\E w \in Closers : TakeCloseJob(w, a))
  /\ \A w \in Closers : WF_auctionVars(CloseJobs(w))

-----------------------------------------------------------------------------
(* Properties.                                                              *)

\* Whoever closes an auction, however often and whatever it races with: no bid that
\* was saved before the winner was chosen is higher than the winning one, and the
\* winner has made that bid.  Bids saved later are accepted, and lost.
HighestWins ==
  \A a \in Auctions : auction[a].status = "closed" =>
    LET inTime == {b \in bids[a] : ~b.late}
    IN /\ auction[a].winner = Nobody => inTime = {}
       /\ auction[a].winner # Nobody =>
            /\ \E b \in bids[a] : b.by = auction[a].winner /\ b.amount = auction[a].winning
            /\ \A b \in inTime : b.amount <= auction[a].winning

\* An auction whose job was added comes to an end, through failing, stalled and
\* repeated runs, unless Bull has given up on all of them.
AuctionsEnd ==
  \A a \in Auctions :
    job[a].state # "none" ~> auction[a].status \in {"closed", "cancelled"} \/ job[a].state = "failed"

=============================================================================
