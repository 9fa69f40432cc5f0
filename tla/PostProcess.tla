---------------------------- MODULE PostProcess ----------------------------
(***************************************************************************)
(* What happens to completed submissions: ActionWorker.process of          *)
(* common/postprocess.py and ArchiveManager.archive_submission of          *)
(* common/archiving.py.  Both may submit the files again with more         *)
(* services, and the new submission comes back here when it completes:     *)
(* the ingester and the dispatcher, which are not in src/, are the set of  *)
(* submissions under way.                                                  *)
(*                                                                         *)
(* Which actions' filters match depends on results the model does not      *)
(* have, so any set of them may, at each submission anew.  The services    *)
(* one selects may be named by a category.                                 *)
(*                                                                         *)
(* Processing a submission is one step, with all its pushes.  There is a   *)
(* scheduler and a client to submit with, and they do not raise: without   *)
(* them archive_submission answers None, which makes process raise after   *)
(* the resubmission and the alert, and the archive is not asked for.       *)
(***************************************************************************)
EXTENDS Integers, FiniteSets

CONSTANTS
  PpActions,        \* the active actions: [alert, archive, resubmit, services]
  PpSelections,     \* what users select
  PpCategories,     \* each category's services
  PpMinimum,        \* core.archiver.minimum_required_services
  PpArchiveOn       \* datastore.archive.enabled

ASSUME PpAssumption ==
  /\ \A a \in PpActions : {a.alert, a.archive, a.resubmit} \subseteq BOOLEAN
  /\ PpArchiveOn \in BOOLEAN

VARIABLES
  ppUnderWay,   \* the submissions not yet processed
  ppRoot,       \* the submission a user made, none before
  ppAsked,      \* "no" | "keep" | "delete": archiving was asked for it, or by an action
  ppArchive,    \* the archive queue
  ppAlerts      \* the alert queue: the extended_scan of each alert

ppVars == <<ppUnderWay, ppRoot, ppAsked, ppArchive, ppAlerts>>

\* Scheduler.expand_categories.
Expand(names) ==
  (names \ DOMAIN PpCategories)
    \cup UNION {PpCategories[n] : n \in names \cap DOMAIN PpCategories}

PpNames ==
  DOMAIN PpCategories \cup (UNION (PpSelections \cup {PpMinimum}))
    \cup (UNION {PpCategories[n] : n \in DOMAIN PpCategories})
    \cup (UNION {a.services : a \in PpActions})

PpSubmissions ==
  [selected : SUBSET PpNames, resubmit : SUBSET PpNames, extended : BOOLEAN,
   archive : BOOLEAN, deleteAfter : BOOLEAN, alert : BOOLEAN]

PpTypeOK ==
  /\ ppUnderWay \subseteq PpSubmissions
  /\ ppRoot \in SUBSET PpSubmissions
  /\ ppAsked \in {"no", "keep", "delete"}
  /\ ppArchive \subseteq BOOLEAN
  /\ ppAlerts \subseteq {"skipped", "submitted"}

PpInit ==
  /\ ppUnderWay = {}
  /\ ppRoot = {}
  /\ ppAsked = "no"
  /\ ppArchive = {}
  /\ ppAlerts = {}

\* A user submits files.
Submit(selected, resubmit, archive, deleteAfter) ==
  LET s == [selected |-> selected, resubmit |-> resubmit, extended |-> FALSE,
            archive |-> archive, deleteAfter |-> deleteAfter, alert |-> TRUE]
  IN /\ ppRoot = {}
     /\ ppRoot' = {s}
     /\ ppUnderWay' = {s}
     /\ UNCHANGED <<ppAsked, ppArchive, ppAlerts>>

----------------------------------------------------------------------------
\* process

\* The services the matching actions ask for; none asks when the random draw
\* of should_resubmit says no, which the choice of the matching set covers.
Additional(matching) == UNION {a.services : a \in {b \in matching : b.resubmit}}

DoResubmit(s, matching) ==
  /\ \E a \in matching : a.resubmit
  /\ ~ (s.resubmit \cup Additional(matching) \subseteq s.selected)

\* (Fault: only what was asked for anew is selected.)
SubmitToNew(s, matching) == s.resubmit \cup Additional(matching)

SubmitTo(s, matching) == s.selected \cup s.resubmit \cup Additional(matching)

Resubmissions(s, matching) ==
  IF DoResubmit(s, matching)
    THEN {[s EXCEPT !.selected = SubmitTo(s, matching), !.resubmit = {}, !.extended = TRUE]}
    ELSE {}

\* An alert says whether the extended scan was made, or is.
ExtendedScan(s, matching) ==
  IF s.extended \/ DoResubmit(s, matching) THEN "submitted" ELSE "skipped"

\* archive_submission: the submission goes to the archiver if it has had the
\* services the archive requires, and is submitted again with them if not.
WantsArchive(s, matching) == s.archive \/ \E a \in matching : a.archive

Archivable(s) == PpMinimum = {} \/ Expand(PpMinimum) \subseteq Expand(s.selected)

\* (Fault: the new submission is not marked for the archive.)
ArchiveLater(s) == [s EXCEPT !.selected = Expand(s.selected) \cup Expand(PpMinimum)]

ArchiveAgain(s) ==
  [s EXCEPT !.selected = Expand(s.selected) \cup Expand(PpMinimum), !.archive = TRUE]

Process(s, matching) ==
  LET archives == WantsArchive(s, matching) /\ PpArchiveOn
  IN /\ ppUnderWay' = (ppUnderWay \ {s}) \cup Resubmissions(s, matching)
                        \cup (IF archives /\ ~ Archivable(s) THEN {ArchiveAgain(s)} ELSE {})
     /\ ppArchive' = ppArchive \cup (IF archives /\ Archivable(s) THEN {s.deleteAfter} ELSE {})
     /\ ppAlerts' = ppAlerts \cup
          (IF s.alert /\ \E a \in matching : a.alert THEN {ExtendedScan(s, matching)} ELSE {})
     /\ ppAsked' = IF archives THEN (IF s.deleteAfter THEN "delete" ELSE "keep") ELSE ppAsked
     /\ UNCHANGED ppRoot

PpNext ==
  \/ \E selected, resubmit \in PpSelections, archive, deleteAfter \in BOOLEAN :
       Submit(selected, resubmit, archive, deleteAfter)
  \/ \E s \in ppUnderWay, matching \in SUBSET PpActions : Process(s, matching)

PpSpec == PpInit /\ [][PpNext]_ppVars

\* Every submission completes and is processed.
ProcessSome == \E s \in ppUnderWay, matching \in SUBSET PpActions : Process(s, matching)
PpFairness == WF_ppVars(ProcessSome)

----------------------------------------------------------------------------
\* Properties.

\* Submitting again ends, whatever the actions ask for, in whatever order their
\* filters match, and though the archive spells categories out while actions go
\* on naming them: the selection only grows.
ResubmissionsEnd == (ppUnderWay # {}) ~> (ppUnderWay = {})

\* What the archive was asked for gets there, with its delete_after: it is in
\* the archive queue, or a submission is under way that still carries the wish.
ArchiveKept ==
  ppAsked # "no" =>
    \/ (ppAsked = "delete") \in ppArchive
    \/ \E s \in ppUnderWay : s.archive /\ s.deleteAfter = (ppAsked = "delete")
=============================================================================
