--------------------------- MODULE SubmissionTree ---------------------------
(***************************************************************************)
(* Submissions that share files, while some are deleted and others are     *)
(* imported: AssemblylineDatastore.delete_submission_tree and              *)
(* delete_submission_tree_bulk (src/assemblyline/datastore/helper.py) and  *)
(* import_bundle (common/bundling.py), and the file trees which            *)
(* get_or_create_file_tree caches meanwhile.                               *)
(*                                                                         *)
(* There is no reference count.  A deletion searches the submissions for   *)
(* each of its files: a file found in less than two of them is erased with *)
(* its results, any other is reclassified for the submissions that stay.   *)
(* A search sees the submissions of the last refresh of the index, a get   *)
(* sees them as they are.                                                  *)
(***************************************************************************)
EXTENDS Naturals, FiniteSets

CONSTANTS
  Sids,         \* the submissions
  Files,        \* the files (sha256)
  Markings,     \* what a classification restricts
  Absent,       \* no such document
  SubFiles,     \* the files a submission has results and errors for
  SubClass,     \* the classification of a submission
  Supp,         \* the supplementary files named in the result of a file
  Deleters,     \* the deletions, each one run again after a crash
  Target,       \* the submission a deletion deletes
  Bulk,         \* the deletions made by delete_submission_tree_bulk
  Imported,     \* the submissions that arrive in a bundle
  Viewed,       \* the submissions whose file tree is asked for
  MaxCrashes    \* bound: crashes of deletions

Class == SUBSET Markings

ASSUME TreeAssumption ==
  /\ SubFiles \in [Sids -> SUBSET Files]
  /\ SubClass \in [Sids -> Class]
  /\ Supp \in [Files -> SUBSET Files]
  /\ Target \in [Deleters -> Sids]
  /\ Bulk \subseteq Deleters /\ Imported \subseteq Sids /\ Viewed \subseteq Sids
  /\ IsFiniteSet(Sids) /\ Files # {}
  /\ \A c \in Class : c # Absent
  /\ Files \cap {"check", "save", "files", "done"} = {}
  /\ MaxCrashes \in Nat

VARIABLES
  subs,      \* the submission documents
  visible,   \* the submissions a search finds
  trees,     \* the submissions with a cached file tree and summary
  found,     \* the ones a search finds
  view,      \* where the making of a file tree is
  missed,    \* history: the trees that no deletion could find
  rec,       \* the classification of each file record
  res,       \* the classification of the results (and errors) of each file
  blob,      \* the files in the filestore
  pc,        \* where each deletion is
  todo,      \* the files its current loop has not handled
  gone,      \* its local variable files
  kept,      \* its local variable fix_classification_files
  supp,      \* its local variables supp_list and supp_map
  cur,       \* the file it is handling
  read,      \* the classification of cur_file, as read
  ncls,      \* its local variable new_file_class
  planRec,   \* the updates of file records in its bulk plan
  planRes,   \* the updates of results in its bulk plan
  planTree,  \* the trees it has found
  imp,       \* where each import is
  impTodo,   \* the files it has not saved
  crashes

treeVars == <<trees, found, view, missed>>
docVars == <<subs, visible, treeVars, rec, res, blob>>
fixVars == <<cur, read, ncls>>
jobVars == <<pc, todo, gone, kept, supp, fixVars, planRec, planRes, planTree>>
impVars == <<imp, impTodo>>
vars    == <<docVars, jobVars, impVars, crashes>>
-----------------------------------------------------------------------------
\* Everything a submission needs: its files and their supplementary files.
Needs(s) == SubFiles[s] \cup UNION {Supp[f] : f \in SubFiles[s]}

\* The submissions of ss that have results or errors for f.
Users(ss, f) == {s \in ss : f \in SubFiles[s]}

\* min_classification over some submissions, UNRESTRICTED when there is none.
LeastRestricted(ss) ==
  IF ss = {} THEN {} ELSE {m \in Markings : \A s \in ss : m \in SubClass[s]}

\* A table with class c for the documents of fs that are there.
Reclassify(tbl, fs, c) ==
  [f \in Files |-> IF f \in fs /\ tbl[f] # Absent THEN c ELSE tbl[f]]

Erase(tbl, fs) == [f \in Files |-> IF f \in fs THEN Absent ELSE tbl[f]]

NoPlan == [f \in Files |-> Absent]
-----------------------------------------------------------------------------
\* The submissions that are not imported are complete and searchable.
Init ==
  /\ subs = Sids \ Imported /\ visible = subs
  /\ trees = {} /\ found = {} /\ missed = {} /\ view = [s \in Viewed |-> "none"]
  /\ rec = [f \in Files |->
              LET ss == {s \in subs : f \in Needs(s)}
              IN  IF ss = {} THEN Absent ELSE LeastRestricted(ss)]
  /\ res = [f \in Files |->
              IF Users(subs, f) = {} THEN Absent ELSE LeastRestricted(Users(subs, f))]
  /\ blob = {f \in Files : rec[f] # Absent}
  /\ pc = [p \in Deleters |-> "start"]
  /\ todo = [p \in Deleters |-> {}]
  /\ gone = todo /\ kept = todo
  /\ supp = [p \in Deleters |-> [f \in Files |-> {}]]
  /\ cur = [p \in Deleters |-> CHOOSE f \in Files : TRUE]
  /\ read = [p \in Deleters |-> {}] /\ ncls = read
  /\ planRec = [p \in Deleters |-> NoPlan] /\ planRes = planRec
  /\ planTree = [p \in Deleters |-> {}]
  /\ imp = [s \in Imported |-> "check"]
  /\ impTodo = [s \in Imported |-> {}]
  /\ crashes = 0

\* What a search for the trees of p's submission finds, and what it misses.
Found(p) == found \cap {Target[p]}
Unfound(p) == (trees \ found) \cap {Target[p]}

(***************************************************************************)
(* A deletion reads its submission and then inspects each of its files.    *)
(* (Only the bulk variant looks for the trees now.)                        *)
(***************************************************************************)
Start(p) ==
  /\ pc[p] = "start"
  /\ pc' = [pc EXCEPT ![p] = IF Target[p] \in subs THEN "inspect" ELSE "done"]
  /\ todo' = [todo EXCEPT ![p] = SubFiles[Target[p]]]
  /\ gone' = [gone EXCEPT ![p] = {}] /\ kept' = [kept EXCEPT ![p] = {}]
  /\ supp' = [supp EXCEPT ![p] = [f \in Files |-> {}]]
  /\ planRec' = [planRec EXCEPT ![p] = NoPlan]
  /\ planRes' = [planRes EXCEPT ![p] = NoPlan]
  /\ planTree' = [planTree EXCEPT ![p] = Found(p)]
  /\ missed' = IF p \in Bulk THEN missed \cup Unfound(p) ELSE missed
  /\ UNCHANGED <<subs, visible, trees, found, view, rec, res, blob, fixVars, impVars, crashes>>

\* "Check if we delete or update classification."
\* (Faults: the bound of the search is off by one, either way.)
UsedTwice(f) == Cardinality(Users(visible, f)) < 3
NeverUsed(f) == Cardinality(Users(visible, f)) < 1
UsedOnce(f) == Cardinality(Users(visible, f)) < 2

Inspect(p, f) ==
  LET sl == IF res[f] # Absent THEN Supp[f] ELSE {} IN
  /\ pc[p] = "inspect" /\ f \in todo[p]
  /\ todo' = [todo EXCEPT ![p] = @ \ {f}]
  /\ IF UsedOnce(f)
     THEN /\ gone' = [gone EXCEPT ![p] = @ \cup {f} \cup sl]
          /\ UNCHANGED <<kept, supp>>
     ELSE /\ kept' = [kept EXCEPT ![p] = @ \cup {f}]
          /\ supp' = [supp EXCEPT ![p][f] = sl]
          /\ UNCHANGED gone
  /\ UNCHANGED <<docVars, pc, fixVars, planRec, planRes, planTree, impVars, crashes>>

\* A loop of p is over; the next one goes through fs.
NextLoop(p, from, to, fs) ==
  /\ pc[p] = from /\ todo[p] = {}
  /\ pc' = [pc EXCEPT ![p] = to]
  /\ todo' = [todo EXCEPT ![p] = fs]
  /\ UNCHANGED <<docVars, gone, kept, supp, fixVars, planRec, planRes, planTree, impVars, crashes>>

\* The bulk variant leaves results and records to its plan.
Inspected(p) ==
  IF p \in Bulk THEN NextLoop(p, "inspect", "records", gone[p])
  ELSE NextLoop(p, "inspect", "results", SubFiles[Target[p]] \cap gone[p])

EraseResults(p, f) ==
  /\ pc[p] = "results" /\ f \in todo[p]
  /\ res' = Erase(res, {f})
  /\ todo' = [todo EXCEPT ![p] = @ \ {f}]
  /\ UNCHANGED <<subs, visible, treeVars, rec, blob, pc, gone, kept, supp, fixVars,
                 planRec, planRes, planTree, impVars, crashes>>

\* file.delete(f) ...
EraseRecord(p, f) ==
  /\ pc[p] = "records" /\ f \in todo[p]
  /\ rec' = IF p \in Bulk THEN rec ELSE Erase(rec, {f})
  /\ cur' = [cur EXCEPT ![p] = f]
  /\ pc' = [pc EXCEPT ![p] = "blob"]
  /\ UNCHANGED <<subs, visible, treeVars, res, blob, todo, gone, kept, supp, read, ncls,
                 planRec, planRes, planTree, impVars, crashes>>

\* ... and transport.delete(f), which does not mind a file that is not there.
\* (Fault: it does, and the deletion fails.)
EraseBlobStrict(p) ==
  /\ pc[p] = "blob"
  /\ blob' = blob \ {cur[p]}
  /\ todo' = [todo EXCEPT ![p] = @ \ {cur[p]}]
  /\ pc' = [pc EXCEPT ![p] = IF cur[p] \in blob THEN "records" ELSE "start"]
  /\ UNCHANGED <<subs, visible, treeVars, rec, res, gone, kept, supp, fixVars,
                 planRec, planRes, planTree, impVars, crashes>>
EraseBlob(p) ==
  /\ pc[p] = "blob"
  /\ blob' = blob \ {cur[p]}
  /\ todo' = [todo EXCEPT ![p] = @ \ {cur[p]}]
  /\ pc' = [pc EXCEPT ![p] = "records"]
  /\ UNCHANGED <<subs, visible, treeVars, rec, res, gone, kept, supp, fixVars,
                 planRec, planRes, planTree, impVars, crashes>>

(***************************************************************************)
(* The files that stay get the least restrictive classification of the     *)
(* other submissions that have them, and so do their supplementary files.  *)
(* (The results of a file have one classification, taken when it is fixed  *)
(* and not when they are found; reading and updating the supplementary     *)
(* files of a file is one step.)                                           *)
(***************************************************************************)
\* (Faults: only the submission itself counts; it is not left out.)
OwnUse(p, f) == Users({Target[p]}, f)
AllUsers(p, f) == Users(visible, f)
OtherUsers(p, f) == Users(visible \ {Target[p]}, f)

FixRead(p, f) ==
  /\ pc[p] = "fix" /\ f \in todo[p]
  /\ todo' = [todo EXCEPT ![p] = @ \ {f}]
  /\ IF rec[f] = Absent
     THEN UNCHANGED <<pc, fixVars>>
     ELSE /\ cur' = [cur EXCEPT ![p] = f]
          /\ read' = [read EXCEPT ![p] = rec[f]]
          /\ ncls' = [ncls EXCEPT ![p] = LeastRestricted(OtherUsers(p, f))]
          /\ pc' = [pc EXCEPT ![p] = "fixresults"]
  /\ UNCHANGED <<docVars, gone, kept, supp, planRec, planRes, planTree, impVars, crashes>>

\* A document changes at once, or in the bulk plan for later.
Assign(p, tbl, plan, fs, c) ==
  IF p \in Bulk
  THEN /\ plan' = [plan EXCEPT ![p] = [f \in Files |-> IF f \in fs THEN c ELSE @[f]]]
       /\ UNCHANGED tbl
  ELSE /\ tbl' = Reclassify(tbl, fs, c)
       /\ UNCHANGED plan

FixResults(p) ==
  /\ pc[p] = "fixresults"
  /\ IF res[cur[p]] = Absent \/ ncls[p] \subseteq res[cur[p]]
     THEN UNCHANGED <<res, planRes>>
     ELSE Assign(p, res, planRes, {cur[p]}, res[cur[p]] \cup ncls[p])
  /\ pc' = [pc EXCEPT ![p] = "fixfile"]
  /\ UNCHANGED <<subs, visible, treeVars, rec, blob, todo, gone, kept, supp, fixVars,
                 planRec, planTree, impVars, crashes>>

FixFile(p) ==
  /\ pc[p] = "fixfile"
  /\ IF read[p] = ncls[p] THEN UNCHANGED <<rec, planRec>>
     ELSE Assign(p, rec, planRec, {cur[p]}, ncls[p])
  /\ pc' = [pc EXCEPT ![p] = "fixsupp"]
  /\ UNCHANGED <<subs, visible, treeVars, res, blob, todo, gone, kept, supp, fixVars,
                 planRes, planTree, impVars, crashes>>

FixSupp(p) ==
  LET fs == {f \in supp[p][cur[p]] : rec[f] \notin {Absent, ncls[p]}} IN
  /\ pc[p] = "fixsupp"
  /\ Assign(p, rec, planRec, fs, ncls[p])
  /\ pc' = [pc EXCEPT ![p] = "fix"]
  /\ UNCHANGED <<subs, visible, treeVars, res, blob, todo, gone, kept, supp, fixVars,
                 planRes, planTree, impVars, crashes>>

\* submission.delete(sid), then the cached trees and summaries.
DeleteSubmission(p) ==
  /\ pc[p] = "fix" /\ todo[p] = {} /\ p \notin Bulk
  /\ subs' = subs \ {Target[p]}
  /\ pc' = [pc EXCEPT ![p] = "trees"]
  /\ UNCHANGED <<visible, treeVars, rec, res, blob, todo, gone, kept, supp, fixVars,
                 planRec, planRes, planTree, impVars, crashes>>

\* The trees are looked for now, and each one found is deleted.
\* (Fault: they are those that could be found at the start.)
FindOldTrees(p) ==
  /\ pc[p] = "trees"
  /\ missed' = missed \cup Unfound(p)
  /\ pc' = [pc EXCEPT ![p] = "deltrees"]
  /\ UNCHANGED <<subs, visible, trees, found, view, rec, res, blob, todo, gone, kept, supp,
                 fixVars, planRec, planRes, planTree, impVars, crashes>>
FindTrees(p) ==
  /\ pc[p] = "trees"
  /\ planTree' = [planTree EXCEPT ![p] = Found(p)]
  /\ missed' = missed \cup Unfound(p)
  /\ pc' = [pc EXCEPT ![p] = "deltrees"]
  /\ UNCHANGED <<subs, visible, trees, found, view, rec, res, blob, todo, gone, kept, supp,
                 fixVars, planRec, planRes, impVars, crashes>>

DeleteTrees(p) ==
  /\ pc[p] = "deltrees"
  /\ trees' = trees \ planTree[p]
  /\ pc' = [pc EXCEPT ![p] = "done"]
  /\ UNCHANGED <<subs, visible, found, view, missed, rec, res, blob, todo, gone, kept, supp,
                 fixVars, planRec, planRes, planTree, impVars, crashes>>

(***************************************************************************)
(* "Proceed with plan": what is planned for a document.  The trees in the  *)
(* plan are those of the beginning.                                        *)
(***************************************************************************)
Planned(tbl, fs, plan) ==
  [f \in Files |-> IF f \in fs \/ tbl[f] = Absent THEN Absent
                   ELSE IF plan[f] # Absent THEN plan[f] ELSE tbl[f]]

ApplyPlan(p) ==
  /\ pc[p] = "fix" /\ todo[p] = {} /\ p \in Bulk
  /\ subs' = subs \ {Target[p]} /\ trees' = trees \ planTree[p]
  /\ rec' = Planned(rec, gone[p], planRec[p])
  /\ res' = Planned(res, gone[p] \cap SubFiles[Target[p]], planRes[p])
  /\ pc' = [pc EXCEPT ![p] = "done"]
  /\ UNCHANGED <<visible, found, view, missed, blob, todo, gone, kept, supp, fixVars, planRec,
                 planRes, planTree, impVars, crashes>>

\* The process dies; the deletion is asked for again.  (Once the submission
\* is gone the repetition does nothing: nobody looks for its trees.)
Crash(p) ==
  /\ pc[p] \notin {"start", "done"} /\ crashes < MaxCrashes
  /\ crashes' = crashes + 1
  /\ pc' = [pc EXCEPT ![p] = "start"]
  /\ missed' = IF pc[p] \in {"trees", "deltrees"} THEN missed \cup {Target[p]} ELSE missed
  /\ UNCHANGED <<subs, visible, trees, found, view, rec, res, blob, todo, gone, kept, supp,
                 fixVars, planRec, planRes, planTree, impVars>>

(***************************************************************************)
(* import_bundle saves the submission first, then each file with its blob, *)
(* then the results.                                                       *)
(***************************************************************************)
CheckSubmission(s) ==
  /\ imp[s] = "check"
  /\ imp' = [imp EXCEPT ![s] = IF s \in subs THEN "done" ELSE "save"]
  /\ UNCHANGED <<docVars, jobVars, impTodo, crashes>>

ImportSubmission(s) ==
  /\ imp[s] = "save"
  /\ imp' = [imp EXCEPT ![s] = "files"]
  /\ subs' = subs \cup {s}
  /\ impTodo' = [impTodo EXCEPT ![s] = Needs(s)]
  /\ UNCHANGED <<visible, treeVars, rec, res, blob, jobVars, crashes>>

\* save_or_freshen_file ...
ImportFile(s, f) ==
  /\ imp[s] = "files" /\ f \in impTodo[s]
  /\ rec' = [rec EXCEPT ![f] = IF @ = Absent THEN SubClass[s] ELSE @ \cap SubClass[s]]
  /\ imp' = [imp EXCEPT ![s] = f]
  /\ impTodo' = [impTodo EXCEPT ![s] = @ \ {f}]
  /\ UNCHANGED <<subs, visible, treeVars, res, blob, jobVars, crashes>>

\* ... and filestore.upload, whose IOError is passed over.
ImportBlob(s) ==
  /\ imp[s] \in Files
  /\ blob' \in {blob, blob \cup {imp[s]}}
  /\ imp' = [imp EXCEPT ![s] = "files"]
  /\ UNCHANGED <<subs, visible, treeVars, rec, res, impTodo, jobVars, crashes>>

ImportResults(s) ==
  /\ imp[s] = "files" /\ impTodo[s] = {}
  /\ res' = [f \in Files |-> IF f \in SubFiles[s] THEN SubClass[s] ELSE res[f]]
  /\ imp' = [imp EXCEPT ![s] = "done"]
  /\ UNCHANGED <<subs, visible, treeVars, rec, blob, impTodo, jobVars, crashes>>

\* The submission index is refreshed.
Refresh ==
  /\ visible # subs
  /\ visible' = subs
  /\ UNCHANGED <<subs, treeVars, rec, res, blob, jobVars, impVars, crashes>>

(***************************************************************************)
(* get_or_create_file_tree works from a submission that its caller has     *)
(* read.  A tree is made when none is cached, and saved when no document   *)
(* was missing.  (The documents are read in one step.)                     *)
(***************************************************************************)
ReadSubmission(s) ==
  /\ view[s] = "none" /\ s \in subs
  /\ view' = [view EXCEPT ![s] = "read"]
  /\ UNCHANGED <<subs, visible, trees, found, missed, rec, res, blob, jobVars, impVars, crashes>>

MakeTree(s) ==
  /\ view[s] = "read"
  /\ view' = [view EXCEPT ![s] =
               IF s \in trees \/ \E f \in SubFiles[s] : Absent \in {rec[f], res[f]}
               THEN "none" ELSE "made"]
  /\ UNCHANGED <<subs, visible, trees, found, missed, rec, res, blob, jobVars, impVars, crashes>>

\* A deletion that has looked for the trees does not look again.
Looked(p) == pc[p] \in {"deltrees", "done"} \/ (p \in Bulk /\ pc[p] # "start")

SaveTree(s) ==
  /\ view[s] = "made"
  /\ view' = [view EXCEPT ![s] = "none"]
  /\ trees' = trees \cup {s}
  /\ missed' = IF \E p \in Deleters : Target[p] = s /\ Looked(p) THEN missed \cup {s} ELSE missed
  /\ UNCHANGED <<subs, visible, found, rec, res, blob, jobVars, impVars, crashes>>

\* The index of the trees is refreshed.
RefreshTrees ==
  /\ found # trees
  /\ found' = trees
  /\ UNCHANGED <<subs, visible, trees, view, missed, rec, res, blob, jobVars, impVars, crashes>>

DeleterStep(p) ==
  \/ Start(p) \/ Inspected(p) \/ NextLoop(p, "results", "records", gone[p])
  \/ NextLoop(p, "records", "fix", kept[p])
  \/ \E f \in Files : \/ Inspect(p, f) \/ EraseResults(p, f)
                      \/ EraseRecord(p, f) \/ FixRead(p, f)
  \/ EraseBlob(p) \/ FixResults(p) \/ FixFile(p) \/ FixSupp(p)
  \/ DeleteSubmission(p) \/ FindTrees(p) \/ DeleteTrees(p) \/ ApplyPlan(p)

ImportStep(s) ==
  \/ CheckSubmission(s) \/ ImportSubmission(s) \/ ImportBlob(s) \/ ImportResults(s)
  \/ \E f \in Files : ImportFile(s, f)

ViewStep(s) == ReadSubmission(s) \/ MakeTree(s) \/ SaveTree(s)

AllDone == /\ \A p \in Deleters : pc[p] = "done"
           /\ \A s \in Imported : imp[s] = "done"
           /\ UNCHANGED vars

Next == \/ \E p \in Deleters : DeleterStep(p) \/ Crash(p)
        \/ \E s \in Imported : ImportStep(s)
        \/ \E s \in Viewed : ViewStep(s)
        \/ Refresh \/ RefreshTrees
        \/ AllDone

Spec     == Init /\ [][Next]_vars

\* A deletion that was asked for is carried on with, crash or not.
FairSpec == Spec /\ \A p \in Deleters : WF_vars(DeleterStep(p))
-----------------------------------------------------------------------------
Phases == {"start", "inspect", "results", "records", "blob", "fix",
           "fixresults", "fixfile", "fixsupp", "trees", "deltrees", "done"}

TypeOK ==
  /\ subs \subseteq Sids /\ visible \subseteq Sids
  /\ trees \subseteq Sids /\ found \subseteq Sids /\ missed \subseteq Sids
  /\ view \in [Viewed -> {"none", "read", "made"}]
  /\ rec \in [Files -> {Absent} \cup Class]
  /\ res \in [Files -> {Absent} \cup Class]
  /\ blob \subseteq Files
  /\ pc \in [Deleters -> Phases]
  /\ todo \in [Deleters -> SUBSET Files]
  /\ gone \in [Deleters -> SUBSET Files]
  /\ kept \in [Deleters -> SUBSET Files]
  /\ supp \in [Deleters -> [Files -> SUBSET Files]]
  /\ cur \in [Deleters -> Files]
  /\ read \in [Deleters -> Class] /\ ncls \in [Deleters -> Class]
  /\ planRec \in [Deleters -> [Files -> {Absent} \cup Class]]
  /\ planRes \in [Deleters -> [Files -> {Absent} \cup Class]]
  /\ planTree \in [Deleters -> SUBSET Sids]
  /\ imp \in [Imported -> {"check", "save", "files", "done"} \cup Files]
  /\ impTodo \in [Imported -> SUBSET Files]
  /\ crashes \in Nat

\* The submissions nobody deletes.
Staying == subs \ {Target[p] : p \in Deleters}

(***************************************************************************)
(* "Delete files, errors, results that were only used once": a submission  *)
(* that stays keeps the records, results and contents of all its files,    *)
(* whatever is deleted around it.                                          *)
(***************************************************************************)
StayingComplete ==
  \A s \in Staying :
    /\ \A f \in Needs(s) : rec[f] # Absent /\ f \in blob
    /\ \A f \in SubFiles[s] : res[f] # Absent

\* A reader of a submission that stays may read the records of its files.
StayingReadable ==
  \A s \in Staying : \A f \in SubFiles[s] : rec[f] # Absent => rec[f] \subseteq SubClass[s]

(***************************************************************************)
(* When the deletions are over, what is left is what the submissions that  *)
(* are left need, at the classification they give it.                      *)
(***************************************************************************)
Finished == \A p \in Deleters : pc[p] = "done"

NothingOrphaned ==
  Finished => \A f \in Files : (rec[f] # Absent \/ res[f] # Absent \/ f \in blob)
                                 => \E s \in subs : f \in Needs(s)

\* (An import that has begun lowers the records itself.)
ExactlyReclassified ==
  Finished /\ (\A s \in Imported : imp[s] = "check") => \A f \in Files :
    Users(subs, f) # {} => rec[f] = LeastRestricted(Users(subs, f))

(***************************************************************************)
(* "Delete the submission and cached trees and summaries": no cached tree  *)
(* is left of a deleted submission.                                        *)
(***************************************************************************)
TreesDeleted == Finished => \A p \in Deleters : Target[p] \notin subs => Target[p] \notin trees

(***************************************************************************)
(* What is left of the trees of deleted submissions is only what no search *)
(* of theirs could find: saved after the last refresh before the search,   *)
(* saved after the search by a reader who had the submission from before,  *)
(* or left by a deletion that died after the submission.                   *)
(***************************************************************************)
FindableTreesDeleted ==
  Finished => \A p \in Deleters : Target[p] \in trees \ subs => Target[p] \in missed

\* The deleted submissions go away in the end.
DeletionCompletes == \A p \in Deleters : <>(Target[p] \notin subs)
-----------------------------------------------------------------------------
(***************************************************************************)
(* Why StayingComplete and StayingReadable hold when each submission is    *)
(* deleted once, nothing is imported meanwhile, and a supplementary file   *)
(* belongs to one file only: what a deletion erases is needed by its own   *)
(* submission only, and what it writes is open enough for all others.      *)
(***************************************************************************)
Separate ==
  /\ \A p, q \in Deleters : Target[p] = Target[q] => p = q
  /\ Imported = {}
  /\ \A f \in Files : \A k \in Supp[f] :
       /\ \A g \in Files : k \in Supp[g] => g = f
       /\ \A s \in Sids : k \notin SubFiles[s]

Working(p) == pc[p] \notin {"start", "trees", "deltrees", "done"}

\* No submission but p's own needs f.
OnlyOwn(p, f) == \A s \in subs : f \in Needs(s) => s = Target[p]

\* Class c for f shuts none of the other submissions' readers out.
OpenEnough(p, f, c) == \A s \in subs \ {Target[p]} : f \in SubFiles[s] => c \subseteq SubClass[s]

LoopInv(p) ==
  /\ pc[p] = "inspect" => todo[p] \subseteq SubFiles[Target[p]]
  /\ pc[p] \in {"results", "records", "blob"} => todo[p] \subseteq gone[p]
  /\ pc[p] = "blob" => cur[p] \in gone[p]
  /\ pc[p] \in {"fixresults", "fixfile", "fixsupp"} => OpenEnough(p, cur[p], ncls[p])

PlanInv(p) ==
  \A f \in Files : /\ supp[p][f] \subseteq Supp[f]
                   /\ planRec[p][f] # Absent => OpenEnough(p, f, planRec[p][f])

JobInv(p) ==
  Working(p) => /\ Target[p] \in subs
                /\ \A f \in gone[p] : OnlyOwn(p, f)
                /\ LoopInv(p) /\ PlanInv(p)

TreeInv == /\ subs \subseteq visible
           /\ \A p \in Deleters : JobInv(p)
           /\ StayingComplete /\ StayingReadable
=============================================================================
