---------------- MODULE MCAccounting ----------------
(* An instance of the two modules that hand out what a node has a limited
   amount of: Quota and JobScheduler.  They share no state and a behaviour
   runs one of them; they share model values, so that one group of
   permutations serves both. *)
EXTENDS Quota, JobScheduler, TLC

CONSTANTS m1, m2, m3, x1, x2, y1, y2, z1, z2, r1

VARIABLE part

accountingVars == <<part, quotaVars, jobVars>>

Symmetry == Permutations(Ids) \cup Permutations(Projects) \cup Permutations(Versions) \cup Permutations(Digests)

AccountingInit == part \in {"quota", "jobs"} /\ QuotaInit /\ JobInit

AccountingNext ==
    /\ UNCHANGED part
    /\ \/ part = "quota" /\ QuotaNext /\ UNCHANGED jobVars
       \/ part = "jobs" /\ JobNext /\ UNCHANGED quotaVars

AccountingSpec == AccountingInit /\ [][AccountingNext]_accountingVars
================================
