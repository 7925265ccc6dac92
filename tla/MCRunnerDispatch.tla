-------------------------- MODULE MCRunnerDispatch --------------------------
(* One session with a patch, a replacement and a read to ask for.          *)
EXTENDS RunnerDispatch, TLC

CONSTANTS s1, r1, r2, c1, c2, p1, q1, d1

MCSessionOf == [x \in Contents |-> s1]
MCKind == [x \in Contents |->
    CASE x = p1 -> "patch" [] x = q1 -> "replace" [] x = d1 -> "read"]
MCSymmetry == Permutations(Ids) \cup Permutations(Calls)
=============================================================================
