------------------------------ MODULE FileTree ------------------------------
(***************************************************************************)
(* The tree of the files of a submission, MetadataHelper's                 *)
(* get_or_create_file_tree and _is_valid_tree (datastore/helper.py): built *)
(* depth first from what the results have extracted, each file only where  *)
(* it is met first, cached when nothing was missing, and taken from the    *)
(* cache as long as it has as many files as have results, and their score. *)
(* What is extracted need not have a result: its record is looked up when  *)
(* the walk meets it, and the call fails if that is gone.                  *)
(*                                                                         *)
(* Names, types and sizes are left out, and the classification of the      *)
(* reader, which is part of the key of the cache.  A call is one step; its *)
(* requests beside a deletion are those of SubmissionTree.                 *)
(***************************************************************************)
EXTENDS Integers, FiniteSets, SequencesExt, FiniteSetsExt

CONSTANTS
  FtFiles,      \* the files
  FtRoots,      \* submission['files'], a sequence
  FtLists,      \* what the results of one file may have extracted, sequences
  FtScore,      \* the score of each file
  FtDepths      \* the values of max_depth

ASSUME FtAssumption ==
  /\ FtRoots \in Seq(FtFiles) /\ FtLists \subseteq Seq(FtFiles) /\ FtDepths \subseteq Nat
  /\ IsFiniteSet(FtFiles)

VARIABLES
  ftDepth,      \* max_depth, the same for all callers
  ftState,      \* submission['state']
  ftExtracted,  \* per file, what its results extracted
  ftResults,    \* the files of submission['results']
  ftErrors,     \* and those of submission['errors'], as far as not among them
  ftCache,      \* submission_tree: {} or {a tree}
  ftAnswer      \* the last answer while nothing has changed since

ftVars == <<ftDepth, ftState, ftExtracted, ftResults, ftErrors, ftCache, ftAnswer>>

\* A tree says of each of its places, by the files on the way to it, whether a
\* child was left out there.
FtNothing == [p \in {} |-> FALSE]
FtNoList == [f \in FtFiles |-> <<>>]

\* The files of a tree, on any level, and the number of places of one of them.
FilesIn(tree) == {Last(p) : p \in DOMAIN tree}
PlacesOf(f, tree) == Cardinality({p \in DOMAIN tree : Last(p) = f})

\* A tree that was built, with its highest score; and, as a history, the files
\* that there were then, and whether nothing has been saved or deleted since.
Built(tree, score, files, current) ==
  [tree |-> tree, score |-> score, files |-> files, current |-> current]
Unanswered == [outcome |-> "none", of |-> Built(FtNothing, 0, {}, TRUE)]

FtTypeOK ==
  /\ ftDepth \in FtDepths \cup {0}
  /\ ftState \in {"none", "submitted", "completed"}
  /\ ftExtracted \in [FtFiles -> FtLists \cup {<<>>}]
  /\ ftResults \subseteq FtFiles /\ ftErrors \subseteq FtFiles
  /\ Cardinality(ftCache) <= 1
  /\ ftAnswer.outcome \in {"none", "partial", "built", "cached", "raised"}

FtInit ==
  /\ ftDepth = 0
  /\ ftState = "none"
  /\ ftExtracted = FtNoList
  /\ ftResults = {} /\ ftErrors = {}
  /\ ftCache = {}
  /\ ftAnswer = Unanswered

\* The files met from S on: those of every set that holds S and what its own
\* files have extracted.
ClosedUnder(extracted, T) == \A f \in T : ToSet(extracted[f]) \subseteq T
Reached(extracted, S) ==
  {f \in FtFiles : \A T \in SUBSET FtFiles : S \subseteq T /\ ClosedUnder(extracted, T) => f \in T}

ThereAre == Reached(ftExtracted, ToSet(FtRoots))

\* The submission is created, or its bundle is being imported.
SubmitFiles(depth) ==
  /\ ftState = "none" /\ (ftCache = {} \/ depth = ftDepth)
  /\ ftState' = "submitted" /\ ftDepth' = depth
  /\ ftAnswer' = Unanswered
  /\ UNCHANGED <<ftExtracted, ftResults, ftErrors, ftCache>>

\* It is completed, with results of some of the files and errors of others.
Complete(extracted, results, errors) ==
  /\ ftState = "submitted"
  /\ results \cup errors \subseteq Reached(extracted, ToSet(FtRoots)) /\ results \cap errors = {}
  /\ \A f \in FtFiles \ results : extracted[f] = <<>>
  /\ ftState' = "completed" /\ ftExtracted' = extracted
  /\ ftResults' = results /\ ftErrors' = errors
  /\ ftAnswer' = Unanswered
  /\ UNCHANGED <<ftDepth, ftCache>>

Outdated(cache) == {Built(c.tree, c.score, c.files, FALSE) : c \in cache}

\* The import of another submission's bundle that has the same result.
SaveResult(f, list) ==
  /\ ftState = "completed" /\ f \in ftResults /\ list # ftExtracted[f]
  /\ ftExtracted' = [ftExtracted EXCEPT ![f] = list]
  /\ ftCache' = Outdated(ftCache) /\ ftAnswer' = Unanswered
  /\ UNCHANGED <<ftDepth, ftState, ftResults, ftErrors>>

\* delete_submission_tree: the search for its trees may not find a new one.
Delete(found) ==
  /\ ftState = "completed"
  /\ ftState' = "none" /\ ftExtracted' = FtNoList /\ ftResults' = {} /\ ftErrors' = {}
  /\ ftCache' = IF found THEN {} ELSE Outdated(ftCache)
  /\ ftAnswer' = Unanswered
  /\ UNCHANGED ftDepth

----------------------------------------------------------------------------
\* process_file.  A walk is the branch built so far, whether a child was left
\* out, and tree_cache, the files met.

\* (Fault: only the branch is asked whether the file was met.)
Unbranched(f, walk) == <<f>> \in DOMAIN walk.branch
Met(f, walk) == f \in walk.met

\* A file is met, and processed unless the branch has it; process gives what
\* there is to add to a branch, by the file and the files met.
Enter(walk, f, process) ==
  LET met == walk.met \cup {f}
      sub == process[f][met]
  IN IF <<f>> \in DOMAIN walk.branch THEN [walk EXCEPT !.met = met]
     ELSE [walk EXCEPT !.branch = [p \in DOMAIN @ \cup DOMAIN sub.tree |->
                                     IF p \in DOMAIN sub.tree THEN sub.tree[p] ELSE @[p]],
                       !.met = sub.met]

Child(walk, f, process) ==
  IF Met(f, walk) THEN [walk EXCEPT !.truncated = TRUE] ELSE Enter(walk, f, process)

StartWalk(met) == [branch |-> FtNothing, truncated |-> FALSE, met |-> met]

Children(list, met, process) ==
  LET walk[k \in 0 .. Len(list)] ==
        IF k = 0 THEN StartWalk(met) ELSE Child(walk[k - 1], list[k], process)
  IN walk[Len(list)]

\* A file above what was built of its children.
Node(f, walk) ==
  LET below == {<<f>> \o p : p \in DOMAIN walk.branch}
  IN [tree |-> [p \in {<<f>>} \cup below |->
                  IF p = <<f>> THEN walk.truncated ELSE walk.branch[Tail(p)]],
      met |-> walk.met]

\* The levels are counted from below: of none that is left, nothing is added.
ProcessFile(depth, lists, missing) ==
  LET level[left \in 0 .. depth + 1] ==
        [f \in FtFiles |-> [met \in SUBSET FtFiles |->
           IF left = 0 \/ f \in missing THEN [tree |-> FtNothing, met |-> met]
           ELSE Node(f, Children(lists[f], met, level[left - 1]))]]
  IN level[depth + 1]

BuildTree(depth, lists, missing) ==
  LET process == ProcessFile(depth, lists, missing)
      walk[k \in 0 .. Len(FtRoots)] ==
        IF k = 0 THEN StartWalk({}) ELSE Enter(walk[k - 1], FtRoots[k], process)
  IN walk[Len(FtRoots)].branch

HighestScore(S) == Max({FtScore[f] : f \in S} \cup {0})

\* _is_valid_tree
IsValid(cached) ==
  /\ Cardinality(FilesIn(cached.tree)) >= Cardinality(ftResults)
  /\ cached.score = HighestScore(ftResults)

GetFromCache ==
  /\ ftState # "none"
  /\ \E cached \in ftCache :
       IsValid(cached) /\ ftAnswer' = [outcome |-> "cached", of |-> cached]
  /\ UNCHANGED <<ftDepth, ftState, ftExtracted, ftResults, ftErrors, ftCache>>

\* Of the files the submission names, those whose record is gone or that the
\* user may not see are left out; so is what a lost result extracted.  Of the
\* others the record is looked up in the walk: None takes its place.
CreateTree(gone, forbidden, lost) ==
  LET listed == ftResults \cup ftErrors \cup ToSet(FtRoots)
      leftOut == (gone \cup forbidden) \cap listed
      lists == [f \in FtFiles |-> IF f \in lost THEN <<>> ELSE ftExtracted[f]]
      tree == BuildTree(ftDepth, lists, leftOut)
      raises == FilesIn(tree) \cap (gone \ listed) # {}
      partial == ftState # "completed" \/ leftOut # {} \/ lost # {}
      built == Built(tree, HighestScore(FilesIn(tree) \cap ftResults), ThereAre, TRUE)
  IN /\ ftState # "none" /\ lost \subseteq ftResults
     /\ \A c \in ftCache : ~ IsValid(c)
     /\ ftCache' = IF raises \/ partial THEN ftCache ELSE {built}
     /\ ftAnswer' = IF raises THEN [Unanswered EXCEPT !.outcome = "raised"]
                    ELSE [outcome |-> IF partial THEN "partial" ELSE "built", of |-> built]
     /\ UNCHANGED <<ftDepth, ftState, ftExtracted, ftResults, ftErrors>>

FtNext ==
  \/ \E depth \in FtDepths : SubmitFiles(depth)
  \/ \E extracted \in [FtFiles -> FtLists], results, errors \in SUBSET FtFiles :
       Complete(extracted, results, errors)
  \/ \E f \in FtFiles, list \in FtLists : SaveResult(f, list)
  \/ \E found \in BOOLEAN : Delete(found)
  \/ GetFromCache
  \/ CreateTree({}, {}, {})
  \/ \E f \in FtFiles :
       CreateTree({f}, {}, {}) \/ CreateTree({}, {f}, {}) \/ CreateTree({}, {}, {f})

FtSpec == FtInit /\ [][FtNext]_ftVars

----------------------------------------------------------------------------
\* Properties.

\* A tree that is said to be complete holds only files that there are, each in
\* one place, and once more at the top if it was submitted itself; and all of
\* them where the depth does not cut it, however the files contain each other.
\* From the cache it may be of an earlier day, if a result was saved anew or the
\* submission deleted since, but not if fewer files were there than have results.
TreeWhole ==
  ftAnswer.outcome \in {"built", "cached"} =>
    LET tree == ftAnswer.of.tree
        files == IF ftAnswer.of.current THEN ThereAre ELSE ftAnswer.of.files
    IN /\ FilesIn(tree) \subseteq files
       /\ \A f \in files : PlacesOf(f, tree) <= IF f \in ToSet(FtRoots) THEN 2 ELSE 1
       /\ ftDepth >= Cardinality(FtFiles) => FilesIn(tree) = files
       /\ ftAnswer.outcome = "cached" => Cardinality(files) >= Cardinality(ftResults)

\* "If file data still can't be found, bail out": the tree is built all the
\* same.  (It is not so: the call raises at the file that has no record.)
TreeAnswers == ftAnswer.outcome # "raised"
=============================================================================
