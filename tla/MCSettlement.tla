---------------------------- MODULE MCSettlement ----------------------------
(* Small instances of Settlement: tasks that wait for their review meeting.  *)
EXTENDS Settlement, TLC

CONSTANTS alice, bob

MCRows == [status : {"pending_review"}, assignee : {alice}]

MCSessionTasks == [v \in Sessions |-> Tasks]

\* Three points do not split evenly: two shares of 50% are two points each.
MCScore == [x \in Sources |-> [t \in Tasks |-> 3]]

MCSplits == [t \in Tasks |-> {NoSplit, [u \in {alice, bob} |-> 50]}]

\* Only one of the tasks is ever split.
MCOneSplit == [t \in Tasks |-> IF t = CHOOSE x \in Tasks : TRUE
                               THEN {NoSplit, [u \in {alice, bob} |-> 50]}
                               ELSE {NoSplit}]

=============================================================================
