------------------------ MODULE MCDecisionToApproval ------------------------
EXTENDS DecisionToApproval, TLC

CONSTANTS c1, c2, p1, p2, t1, t2

Symmetry == Permutations({c1, c2}) \cup Permutations({p1, p2}) \cup Permutations({t1, t2})
==============================================================================
