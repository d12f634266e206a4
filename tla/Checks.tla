---------------- MODULE Checks ----------------
(* A validation is a sequence of checks, each an error and the condition
   under which it is raised; the first one that holds decides. *)
EXTENDS Naturals, Sequences

FirstError(checks) ==
    LET failed == {i \in DOMAIN checks : checks[i][2]}
    IN  IF failed = {} THEN "ok" ELSE checks[CHOOSE i \in failed : \A j \in failed : i <= j][1]
================================
