-------------------------- MODULE MCWorkspaceTools --------------------------
(* A tracked file of three lines, a tracked file the patch removes, and an   *)
(* untracked one; a replacement and a patch of the first, and a reader. The  *)
(* line the replacement writes is longer and contains what is searched for.  *)
EXTENDS WorkspaceTools

CONSTANTS a, b, u, w1, w2, r1, l1, l2, l3, n1, n2, x1

MCInitial == [f \in {a, b, u} |->
  CASE f = a -> <<l1, l2, l3>> [] f = b -> <<l1>> [] f = u -> <<l1, l1>>]
MCSorted == <<w1, w2, r1, u, a, Stub, b>>
MCLineBytes == [l \in {l1, l2, l3, n1, n2, x1} |-> IF l = n1 THEN 3 ELSE 1]
MCDiffBytes == [x \in {a, b, u, w1, w2, r1} |-> CASE x = a -> 3 [] x = b -> 5 [] OTHER -> 4]
MCPatch == [f \in {a, b} |->
  IF f = a THEN [old |-> l2, new |-> n2] ELSE [old |-> l1, new |-> Gone]]
MCAsks == [j \in {w1, w2, r1} |->
  CASE j = w1 -> {[tool |-> "replace", edits |-> [f \in {a} |-> [old |-> l1, new |-> n1]]]}
    [] j = w2 -> {[tool |-> "patch", edits |-> MCPatch]}
    [] j = r1 -> {[tool |-> "search", query |-> {l1, n1}], [tool |-> "diff"], [tool |-> "read", path |-> a]}]
=============================================================================
