-------------------------- MODULE ExportingCounter -------------------------
(***************************************************************************)
(* AutoExportingCounters of remote/datatypes/exporting_counter.py (and the *)
(* MetricsFactory that wraps it): counters that threads increment and that *)
(* are replaced by fresh ones and published at an interval and when the    *)
(* process stops.  The scheduler's job and stop may export side by side.   *)
(* One counter is modelled: they are replaced together.                    *)
(***************************************************************************)
EXTENDS Integers

CONSTANTS
  CtrSteps,         \* the values increment is called with
  CtrExportZero,    \* export_zero
  MaxCtrTotal,      \* bound: what is counted in all
  MaxCtrRepeats     \* bound: the publications that retry_call repeats

ASSUME CtrAssumption ==
  CtrSteps \subseteq Nat /\ CtrExportZero \in BOOLEAN /\ MaxCtrTotal \in Nat /\ MaxCtrRepeats \in Nat

VARIABLES
  ctrCounts,      \* self.counts
  ctrProcess,     \* "running" | "stopping" | "exited"
  ctrExport,      \* per exporter: "idle" | "publishing" | "done"
  ctrCopy,        \* the counts each exporter has taken away
  ctrTotal,       \* what was counted
  ctrPublished,   \* what subscribers were sent, repetitions not counted twice
  ctrRepeats,     \* the repetitions
  ctrLost         \* what was taken away or counted and never published

ctrVars == <<ctrCounts, ctrProcess, ctrExport, ctrCopy, ctrTotal, ctrPublished, ctrRepeats, ctrLost>>

Exporters == {"job", "stop"}

CtrTypeOK ==
  /\ ctrCounts \in Nat
  /\ ctrProcess \in {"running", "stopping", "exited"}
  /\ ctrExport \in [Exporters -> {"idle", "publishing", "done"}]
  /\ ctrCopy \in [Exporters -> Nat]
  /\ ctrTotal \in Nat
  /\ ctrPublished \in Nat
  /\ ctrRepeats \in Nat
  /\ ctrLost \in Nat

CtrInit ==
  /\ ctrCounts = 0
  /\ ctrProcess = "running"
  /\ ctrExport = [e \in Exporters |-> "idle"]
  /\ ctrCopy = [e \in Exporters |-> 0]
  /\ ctrTotal = 0
  /\ ctrPublished = 0
  /\ ctrRepeats = 0
  /\ ctrLost = 0

\* increment and increment_execution_time, under the lock.
Increment(by) ==
  /\ ctrProcess # "exited"
  /\ ctrTotal + by <= MaxCtrTotal
  /\ ctrCounts' = ctrCounts + by
  /\ ctrTotal' = ctrTotal + by
  /\ UNCHANGED <<ctrProcess, ctrExport, ctrCopy, ctrPublished, ctrRepeats, ctrLost>>

\* (Fault: the counts are copied, not replaced.)
CopyCounts(e) ==
  /\ ctrCopy' = [ctrCopy EXCEPT ![e] = ctrCounts]
  /\ UNCHANGED ctrCounts

\* reset: the counts are replaced by fresh ones, under the lock.
ResetCounts(e) ==
  /\ ctrCopy' = [ctrCopy EXCEPT ![e] = ctrCounts]
  /\ ctrCounts' = 0

\* Where an exporter goes when its export is over; both may come again, stop
\* because it is called at exit too.
Over(e) == IF e = "job" THEN "idle" ELSE "done"

\* export takes the counts away; without export_zero it ends here when there is
\* nothing to tell.
StartExport(e) ==
  /\ ctrExport[e] # "publishing"
  /\ ctrProcess = (IF e = "job" THEN "running" ELSE "stopping")
  /\ ResetCounts(e)
  /\ ctrExport' = [ctrExport EXCEPT
       ![e] = IF CtrExportZero \/ ctrCounts # 0 THEN "publishing" ELSE Over(e)]
  /\ UNCHANGED <<ctrProcess, ctrTotal, ctrPublished, ctrRepeats, ctrLost>>

Published(e) ==
  /\ ctrExport[e] = "publishing"
  /\ ctrExport' = [ctrExport EXCEPT ![e] = Over(e)]
  /\ ctrPublished' = ctrPublished + ctrCopy[e]
  /\ ctrCopy' = [ctrCopy EXCEPT ![e] = 0]
  /\ UNCHANGED <<ctrCounts, ctrProcess, ctrTotal, ctrRepeats, ctrLost>>

\* The subscribers got it, the reply is lost: retry_call publishes it again.
PublishUnheard(e) ==
  /\ ctrExport[e] = "publishing"
  /\ ctrRepeats < MaxCtrRepeats
  /\ ctrRepeats' = ctrRepeats + 1
  /\ UNCHANGED <<ctrCounts, ctrProcess, ctrExport, ctrCopy, ctrTotal, ctrPublished, ctrLost>>

\* Any other error is logged; the counts are not put back.
PublishFails(e) ==
  /\ ctrExport[e] = "publishing"
  /\ ctrExport' = [ctrExport EXCEPT ![e] = Over(e)]
  /\ ctrLost' = ctrLost + ctrCopy[e]
  /\ ctrCopy' = [ctrCopy EXCEPT ![e] = 0]
  /\ UNCHANGED <<ctrCounts, ctrProcess, ctrTotal, ctrPublished, ctrRepeats>>

\* stop, called at exit: the scheduler starts no more jobs, but does not wait
\* for one that is publishing.
Stop ==
  /\ ctrProcess = "running"
  /\ ctrProcess' = "stopping"
  /\ UNCHANGED <<ctrCounts, ctrExport, ctrCopy, ctrTotal, ctrPublished, ctrRepeats, ctrLost>>

\* The process ends, and with it a job that is publishing and what was counted
\* since the last export.
Exit ==
  /\ ctrProcess = "stopping"
  /\ ctrExport["stop"] = "done"
  /\ ctrProcess' = "exited"
  /\ ctrLost' = ctrLost + ctrCopy["job"] + ctrCounts
  /\ ctrCopy' = [e \in Exporters |-> 0]
  /\ ctrCounts' = 0
  /\ ctrExport' = [e \in Exporters |-> "done"]
  /\ UNCHANGED <<ctrTotal, ctrPublished, ctrRepeats>>

CtrNext ==
  \/ \E by \in CtrSteps : Increment(by)
  \/ \E e \in Exporters : StartExport(e) \/ Published(e) \/ PublishUnheard(e) \/ PublishFails(e)
  \/ Stop
  \/ Exit

CtrSpec == CtrInit /\ [][CtrNext]_ctrVars

----------------------------------------------------------------------------
\* Properties.

\* Whatever threads count while exports run, fail or overlap is in exactly one
\* place: still in the counters, in the hands of one exporter, published, or
\* known to be lost with a failed publication or with the exit.
CountsConserved ==
  ctrTotal = ctrCounts + ctrCopy["job"] + ctrCopy["stop"] + ctrPublished + ctrLost
=============================================================================
