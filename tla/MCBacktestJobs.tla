--------------------------- MODULE MCBacktestJobs ---------------------------
(* BacktestJobs on small instances.                                        *)
EXTENDS BacktestJobs, TLC

CONSTANTS c1, c2, w1, w2

\* A job has a filter or names one customer.
FilterOrOne == {{}, {c1}}

SymmetricWorkers == Permutations({w1, w2})
=============================================================================
