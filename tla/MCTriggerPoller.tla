-------------------------- MODULE MCTriggerPoller --------------------------
(* TriggerPoller on small instances: model values for triggers, goroutines *)
(* and requests, and the sets of trigger types the runs consider.          *)
EXTENDS TriggerPoller, TLC

CONSTANTS t1, t2, w1, w2, w3, q1, q2

AllKinds == {"database", "email", "cron", "webhook"}
TableOnly == {"database"}
MailOnly == {"email"}

Symmetry == Permutations(Workers) \cup Permutations(Requests)

=============================================================================
