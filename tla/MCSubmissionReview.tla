------------------------- MODULE MCSubmissionReview -------------------------
(* Small instances of SubmissionReview: one task, since nothing relates two *)
(* tasks, and up to two requests for it beside one other call.              *)
EXTENDS SubmissionReview, TLC

\* Users and requests are interchangeable.
Symmetry == Permutations(Users) \cup Permutations(Subs)

=============================================================================
