------------------------- MODULE MCRunnerConnection -------------------------
(* Two processes on a workspace and three policies: two valid ones, at the   *)
(* limits of a frame and of the cache, and one a byte of output too large.   *)
EXTENDS RunnerConnection

MCLimits(output, cached) ==
  [q \in Quotas |-> CASE q = "output" -> output [] q = "cachedBytes" -> cached
                      [] q = "patch" -> 2 [] OTHER -> 1]
MCPolicies == {MCLimits(2, 20), MCLimits(1, 14), MCLimits(3, 30)}
=============================================================================
