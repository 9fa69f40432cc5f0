----------------------------- MODULE MCWorkers -----------------------------
(***************************************************************************)
(* The small machines around the workers, for TLC: the lock, the quotas,   *)
(* the priority queue, the reloading of rules, the exporting counters and  *)
(* the post-processing.  They share no state, so their product shows       *)
(* nothing that each alone does not: part says which one runs in a         *)
(* behaviour, the others rest in their initial states, where their         *)
(* fairness asks for nothing.                                              *)
(***************************************************************************)
EXTENDS RedisLock, UserQuota, PriorityQueue, RuleReload, ExportingCounter, PostProcess

VARIABLE part

Parts == {"lock", "quota", "queue", "rules", "counter", "post"}

vars == <<part, lockVars, quotaVars, pqVars, ruleVars, ctrVars, ppVars>>

Init ==
  /\ part \in Parts
  /\ LockInit /\ QuotaInit /\ PqInit /\ RuleInit /\ CtrInit /\ PpInit

LockPart ==
  part = "lock" /\ LockNext /\ UNCHANGED <<part, quotaVars, pqVars, ruleVars, ctrVars, ppVars>>

QuotaPart ==
  part = "quota" /\ QuotaNext /\ UNCHANGED <<part, lockVars, pqVars, ruleVars, ctrVars, ppVars>>

QueuePart ==
  part = "queue" /\ PqNext /\ UNCHANGED <<part, lockVars, quotaVars, ruleVars, ctrVars, ppVars>>

RulePart ==
  part = "rules" /\ RuleNext /\ UNCHANGED <<part, lockVars, quotaVars, pqVars, ctrVars, ppVars>>

CounterPart ==
  part = "counter" /\ CtrNext /\ UNCHANGED <<part, lockVars, quotaVars, pqVars, ruleVars, ppVars>>

PostPart ==
  part = "post" /\ PpNext /\ UNCHANGED <<part, lockVars, quotaVars, pqVars, ruleVars, ctrVars>>

Next == LockPart \/ QuotaPart \/ QueuePart \/ RulePart \/ CounterPart \/ PostPart

Spec == Init /\ [][Next]_vars /\ LockFairness /\ PpFairness

WorkersTypeOK ==
  LockTypeOK /\ QuotaTypeOK /\ PqTypeOK /\ RuleTypeOK /\ CtrTypeOK /\ PpTypeOK

----------------------------------------------------------------------------
\* The instances of the post-processing: two actions that ask for each other's
\* service, one by its category, and an archive that requires a category.
Actions ==
  {[alert |-> TRUE,  archive |-> FALSE, resubmit |-> TRUE,  services |-> {"Static"}],
   [alert |-> FALSE, archive |-> FALSE, resubmit |-> TRUE,  services |-> {"yara", "sandbox"}],
   [alert |-> FALSE, archive |-> TRUE,  resubmit |-> FALSE, services |-> {}]}
Selections == {{}, {"av"}, {"sandbox", "yara"}}
Categories == [c \in {"Static"} |-> {"yara", "pe"}]
Minimum    == {"Static", "av"}
=============================================================================
