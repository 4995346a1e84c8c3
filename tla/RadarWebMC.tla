----------------------------- MODULE RadarWebMC -----------------------------
(* One topic with two matches, lists of one row a page; one feed in the     *)
(* catalog and one or none of the account's own, with a quota of one.       *)
EXTENDS RadarWeb

Budget(c, v, f, r, b) ==
  [changes |-> c, visits |-> v, failures |-> f, reembeds |-> r, busy |-> b]
MCBudgets == {Budget(2, 0, 1, 0, 1), Budget(2, 1, 1, 0, 0), Budget(1, 1, 0, 0, 1),
              Budget(1, 0, 1, 1, 0), Budget(1, 0, 0, 1, 1), Budget(0, 2, 0, 0, 1)}

SourceBudget(c, v, f, o, b) ==
  [changes |-> c, visits |-> v, failures |-> f, others |-> o, busy |-> b]
MCSourceBudgets == {SourceBudget(2, 0, 1, 0, 1), SourceBudget(1, 1, 1, 1, 0), SourceBudget(2, 1, 0, 0, 0)}

\* One edit that fails, and the user tries again.
EditBudgets == {Budget(1, 0, 1, 0, 0)}
EditSourceBudgets == {SourceBudget(0, 0, 0, 0, 0)}
=============================================================================
