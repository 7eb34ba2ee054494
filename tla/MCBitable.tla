------------------------------ MODULE MCBitable ------------------------------
(* The table of a project on a small instance, in parts: events of the table with two       *)
(* workers, pushes of tasks with their echo, and full syncs with bindings that come and go. *)
EXTENDS LegacyBitable, TLC

CONSTANTS b1, w1, k1

VARIABLE part

mcVars == <<vars, part>>

MCInit == Init /\ part \in {"events", "pushes", "syncs"}

OneBinding == \A b \in Bindings \ {b1} : binding'[b] = NoBinding
OneWorker  == \A w \in Workers \ {w1} : job'[w] = NoCall
NoPush     == edit' = edit /\ twin' = twin /\ push' = push

\* People write one row, the platform only listens.  Two workers meet without faults;
\* as soon as there are two events, each has one delivery left at most.
Events ==
  /\ OneBinding /\ NoPush /\ UNCHANGED <<pulls, jobs>>
  /\ live' = b1 /\ binding'[b1].direction = "bidirectional" /\ binds' = 1
  /\ Cardinality({r \in Rows : row'[r] # NoRow}) <= 1
  /\ OneWorker \/ faults' = 0
  /\ Cardinality(DOMAIN event') <= 1 \/ \A e \in DOMAIN event' : owed'[e] <= 1

\* Tasks are made and edited; one of the rows this writes is announced.
TaskEvents ==
  /\ OneBinding /\ OneWorker /\ UNCHANGED <<pulls, jobs>>
  /\ live' = b1 /\ binding'[b1].direction = "bidirectional" /\ binds' = 1
  /\ Cardinality(DOMAIN event') <= 1 /\ \A e \in DOMAIN event' : owed'[e] <= 1

\* Full syncs of either syncer, after the pushes; nothing is announced, bindings come and go.
Syncs ==
  /\ OneWorker /\ \A e \in DOMAIN event' : owed'[e] = owed[e]
  /\ edits' <= 1 /\ (faults' = 0 \/ binds' <= 1)
  /\ LET rows == Cardinality({r \in Rows : row'[r] # NoRow})
     IN rows <= 2 /\ (rows <= 1 \/ pull' = NoCall \/ \A w \in Workers : job'[w] = NoCall)
  /\ \A b \in Bindings : binding'[b] # NoBinding => binding'[b].active
  /\ \A b \in Bindings : binding'[b] # NoBinding => binding'[b].direction # "pull_only"
  /\ \/ \A c \in Callers : edit'[c] = edit[c] /\ twin'[c] = twin[c] /\ push'[c] = push[c]
     \/ queue = {} /\ pulls = [b \in Bindings |-> 0] /\ pull = NoCall /\ job[w1] = NoCall

MCNext ==
  /\ part' = part
  /\ Next
  /\ \/ part = "events" /\ Events
     \/ part = "pushes" /\ TaskEvents
     \/ part = "syncs" /\ Syncs

MCSpec == MCInit /\ [][MCNext]_mcVars /\ Fairness
=============================================================================
