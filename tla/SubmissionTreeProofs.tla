------------------------ MODULE SubmissionTreeProofs ------------------------
(***************************************************************************)
(* Deleting submissions never takes anything from those that stay, for any *)
(* number of submissions, files and deletions, with crashes and with both  *)
(* variants of the deletion, as long as they are Separate.  A deletion     *)
(* that is Alone leaves nothing over and reclassifies exactly.             *)
(***************************************************************************)
EXTENDS SubmissionTree, FiniteSetTheorems, TLAPS

USE DEF treeVars

\* What the operators return.
LEMMA ClassTypes ==
  ASSUME NEW ss \in SUBSET Sids
  PROVE  LeastRestricted(ss) \in Class
BY DEF LeastRestricted, Class

LEMMA TableTypes ==
  ASSUME NEW tbl \in [Files -> {Absent} \cup Class], NEW fs \in SUBSET Files
  PROVE  /\ Erase(tbl, fs) \in [Files -> {Absent} \cup Class]
         /\ \A c \in Class : Reclassify(tbl, fs, c) \in [Files -> {Absent} \cup Class]
         /\ \A plan \in [Files -> {Absent} \cup Class] :
              Planned(tbl, fs, plan) \in [Files -> {Absent} \cup Class]
BY DEF Erase, Reclassify, Planned

LEMMA NeedsType ==
  ASSUME NEW s \in Sids
  PROVE  Needs(s) \subseteq Files
BY TreeAssumption DEF Needs

LEMMA TypeInit == Init => TypeOK
<1> SUFFICES ASSUME Init PROVE TypeOK
  OBVIOUS
<1>1. /\ \A ss \in SUBSET Sids : LeastRestricted(ss) \in Class
      /\ \A s \in Sids : Needs(s) \subseteq Files
  BY ClassTypes, NeedsType
<1>2. /\ rec \in [Files -> {Absent} \cup Class] /\ res \in [Files -> {Absent} \cup Class]
  BY <1>1 DEF Init, Users
<1>3. cur \in [Deleters -> Files]
  BY TreeAssumption DEF Init
<1>4. {} \in Class /\ NoPlan \in [Files -> {Absent} \cup Class]
  BY DEF Class, NoPlan
<1> QED
  BY <1>2, <1>3, <1>4 DEF Init, TypeOK, Phases

\* Both ways to change a table of documents keep the types.
LEMMA AssignType ==
  ASSUME NEW p \in Deleters, NEW fs \in SUBSET Files, NEW c \in Class,
         TypeOK
  PROVE  /\ Assign(p, rec, planRec, fs, c) =>
              /\ rec' \in [Files -> {Absent} \cup Class]
              /\ planRec' \in [Deleters -> [Files -> {Absent} \cup Class]]
         /\ Assign(p, res, planRes, fs, c) =>
              /\ res' \in [Files -> {Absent} \cup Class]
              /\ planRes' \in [Deleters -> [Files -> {Absent} \cup Class]]
<1>1. /\ Reclassify(rec, fs, c) \in [Files -> {Absent} \cup Class]
      /\ Reclassify(res, fs, c) \in [Files -> {Absent} \cup Class]
  BY TableTypes DEF TypeOK
<1>2. /\ planRec \in [Deleters -> [Files -> {Absent} \cup Class]]
      /\ planRes \in [Deleters -> [Files -> {Absent} \cup Class]]
      /\ rec \in [Files -> {Absent} \cup Class]
      /\ res \in [Files -> {Absent} \cup Class]
  BY DEF TypeOK
<1>3. /\ [f \in Files |-> IF f \in fs THEN c ELSE planRec[p][f]] \in [Files -> {Absent} \cup Class]
      /\ [f \in Files |-> IF f \in fs THEN c ELSE planRes[p][f]] \in [Files -> {Absent} \cup Class]
  BY <1>2
<1> QED
  BY <1>1, <1>2, <1>3 DEF Assign

LEMMA TypeDeleter ==
  ASSUME NEW p \in Deleters, TypeOK, DeleterStep(p)
  PROVE  TypeOK'
<1>0. /\ SubFiles[Target[p]] \in SUBSET Files
      /\ \A f \in Files : Supp[f] \in SUBSET Files
      /\ NoPlan \in [Files -> {Absent} \cup Class]
      /\ [f \in Files |-> {}] \in [Files -> SUBSET Files]
  BY TreeAssumption DEF NoPlan
<1>1. CASE Start(p)
  <2>1. /\ Found(p) \subseteq Sids /\ Unfound(p) \subseteq Sids
    BY DEF Found, Unfound, TypeOK
  <2> QED
    BY <1>0, <1>1, <2>1 DEF Start, TypeOK, docVars, fixVars, impVars, Phases
<1>2. CASE \/ Inspected(p) \/ NextLoop(p, "results", "records", gone[p])
           \/ NextLoop(p, "records", "fix", kept[p])
  <2>1. gone[p] \in SUBSET Files /\ kept[p] \in SUBSET Files
    BY DEF TypeOK
  <2>2. PICK from, to \in Phases, fs \in SUBSET Files : NextLoop(p, from, to, fs)
    BY <1>0, <1>2, <2>1 DEF Inspected, Phases
  <2> QED
    BY <2>2 DEF NextLoop, TypeOK, docVars, fixVars, impVars
<1>3. ASSUME NEW f \in Files, Inspect(p, f) PROVE TypeOK'
  <2> DEFINE sl == IF res[f] # Absent THEN Supp[f] ELSE {}
  <2>1. sl \in SUBSET Files
    BY <1>0 DEF TypeOK
  <2>2. /\ gone' \in {gone, [gone EXCEPT ![p] = gone[p] \cup {f} \cup sl]}
        /\ kept' \in {kept, [kept EXCEPT ![p] = kept[p] \cup {f}]}
        /\ supp' \in {supp, [supp EXCEPT ![p] = [supp[p] EXCEPT ![f] = sl]]}
        /\ todo' = [todo EXCEPT ![p] = todo[p] \ {f}]
        /\ UNCHANGED <<docVars, pc, fixVars, planRec, planRes, planTree, impVars, crashes>>
    BY <1>3 DEF Inspect
  <2> HIDE DEF sl
  <2>3. /\ gone \in [Deleters -> SUBSET Files] /\ kept \in [Deleters -> SUBSET Files]
        /\ todo \in [Deleters -> SUBSET Files] /\ supp \in [Deleters -> [Files -> SUBSET Files]]
    BY DEF TypeOK
  <2>4. /\ gone[p] \cup {f} \cup sl \in SUBSET Files
        /\ kept[p] \cup {f} \in SUBSET Files
        /\ [supp[p] EXCEPT ![f] = sl] \in [Files -> SUBSET Files]
    BY <2>1, <2>3
  <2>5. /\ gone' \in [Deleters -> SUBSET Files] /\ kept' \in [Deleters -> SUBSET Files]
        /\ todo' \in [Deleters -> SUBSET Files] /\ supp' \in [Deleters -> [Files -> SUBSET Files]]
    <3>1. gone' \in [Deleters -> SUBSET Files]
      BY <2>2, <2>3, <2>4
    <3>2. kept' \in [Deleters -> SUBSET Files]
      BY <2>2, <2>3, <2>4
    <3>3. todo' \in [Deleters -> SUBSET Files]
      BY <2>2, <2>3
    <3>4. supp' \in [Deleters -> [Files -> SUBSET Files]]
      BY <2>2, <2>3, <2>4
    <3> QED
      BY <3>1, <3>2, <3>3, <3>4
  <2> QED
    BY <2>2, <2>5 DEF TypeOK, docVars, fixVars, impVars
<1>4. ASSUME NEW f \in Files, EraseResults(p, f) PROVE TypeOK'
  BY <1>4, TableTypes DEF EraseResults, TypeOK, docVars, fixVars, impVars
<1>5. ASSUME NEW f \in Files, EraseRecord(p, f) PROVE TypeOK'
  BY <1>5, TableTypes DEF EraseRecord, TypeOK, docVars, fixVars, impVars, Phases
<1>6. ASSUME NEW f \in Files, FixRead(p, f) PROVE TypeOK'
  <2>1. LeastRestricted(OtherUsers(p, f)) \in Class
    BY ClassTypes DEF OtherUsers, Users, TypeOK
  <2> QED
    <3>1. CASE rec[f] = Absent
      BY <1>6, <3>1 DEF FixRead, TypeOK, docVars, fixVars, impVars
    <3>2. CASE rec[f] # Absent
      <4>1. rec[f] \in Class
        BY <3>2 DEF TypeOK
      <4> QED
        <5>1. /\ todo' = [todo EXCEPT ![p] = todo[p] \ {f}]
              /\ cur' = [cur EXCEPT ![p] = f]
              /\ read' = [read EXCEPT ![p] = rec[f]]
              /\ ncls' = [ncls EXCEPT ![p] = LeastRestricted(OtherUsers(p, f))]
              /\ pc' = [pc EXCEPT ![p] = "fixresults"]
          BY <1>6, <3>2 DEF FixRead
        <5>2. /\ todo' \in [Deleters -> SUBSET Files] /\ cur' \in [Deleters -> Files]
              /\ read' \in [Deleters -> Class] /\ ncls' \in [Deleters -> Class]
              /\ pc' \in [Deleters -> Phases]
          BY <2>1, <4>1, <5>1 DEF TypeOK, Phases
        <5> QED
          BY <1>6, <5>2 DEF FixRead, TypeOK, docVars, impVars
    <3> QED
      BY <3>1, <3>2
<1>7. CASE EraseBlob(p)
  BY <1>7 DEF EraseBlob, TypeOK, docVars, fixVars, impVars, Phases
<1>8. CASE FixResults(p)
  <2>1. cur[p] \in Files /\ ncls[p] \in Class /\ res[cur[p]] \in {Absent} \cup Class
    BY DEF TypeOK
  <2>2. res[cur[p]] # Absent => res[cur[p]] \cup ncls[p] \in Class
    BY <2>1 DEF Class
  <2>3. /\ res' \in [Files -> {Absent} \cup Class]
        /\ planRes' \in [Deleters -> [Files -> {Absent} \cup Class]]
    <3>1. CASE UNCHANGED <<res, planRes>>
      BY <3>1 DEF TypeOK
    <3>2. CASE res[cur[p]] # Absent /\ Assign(p, res, planRes, {cur[p]}, res[cur[p]] \cup ncls[p])
      BY <3>2, <2>1, <2>2, AssignType
    <3> QED
      BY <1>8, <3>1, <3>2 DEF FixResults
  <2> QED
    BY <1>8, <2>3 DEF FixResults, TypeOK, fixVars, impVars, Phases
<1>9. CASE FixFile(p)
  <2>1. /\ rec' \in [Files -> {Absent} \cup Class]
        /\ planRec' \in [Deleters -> [Files -> {Absent} \cup Class]]
    <3>1. CASE UNCHANGED <<rec, planRec>>
      BY <3>1 DEF TypeOK
    <3>2. CASE Assign(p, rec, planRec, {cur[p]}, ncls[p])
      <4>1. {cur[p]} \in SUBSET Files /\ ncls[p] \in Class
        BY DEF TypeOK
      <4> QED
        BY <3>2, <4>1, AssignType
    <3> QED
      BY <1>9, <3>1, <3>2 DEF FixFile
  <2> QED
    BY <1>9, <2>1 DEF FixFile, TypeOK, fixVars, impVars, Phases
<1>10. CASE FixSupp(p)
  <2> DEFINE fs == {f \in supp[p][cur[p]] : rec[f] \notin {Absent, ncls[p]}}
  <2>1. fs \in SUBSET Files /\ ncls[p] \in Class
    BY DEF TypeOK
  <2>2. Assign(p, rec, planRec, fs, ncls[p])
    BY <1>10 DEF FixSupp
  <2>3. /\ rec' \in [Files -> {Absent} \cup Class]
        /\ planRec' \in [Deleters -> [Files -> {Absent} \cup Class]]
    BY <2>1, <2>2, AssignType
  <2> QED
    BY <1>10, <2>3 DEF FixSupp, TypeOK, fixVars, impVars, Phases
<1>11. CASE DeleteSubmission(p)
  BY <1>11 DEF DeleteSubmission, TypeOK, fixVars, impVars, Phases
<1>12. CASE FindTrees(p) \/ DeleteTrees(p)
  <2>1. /\ Found(p) \subseteq Sids /\ Unfound(p) \subseteq Sids
    BY DEF Found, Unfound, TypeOK
  <2>2. CASE FindTrees(p)
    BY <2>1, <2>2 DEF FindTrees, TypeOK, fixVars, impVars, Phases
  <2>3. CASE DeleteTrees(p)
    BY <2>3 DEF DeleteTrees, TypeOK, fixVars, impVars, Phases
  <2> QED
    BY <1>12, <2>2, <2>3
<1>13. CASE ApplyPlan(p)
  <2>1. /\ Planned(rec, gone[p], planRec[p]) \in [Files -> {Absent} \cup Class]
        /\ Planned(res, gone[p] \cap SubFiles[Target[p]], planRes[p]) \in [Files -> {Absent} \cup Class]
    BY TableTypes DEF TypeOK
  <2> QED
    BY <1>13, <2>1 DEF ApplyPlan, TypeOK, fixVars, impVars, Phases
<1> QED
  BY <1>1, <1>2, <1>3, <1>4, <1>5, <1>6, <1>7, <1>8, <1>9, <1>10, <1>11, <1>12, <1>13
  DEF DeleterStep

LEMMA TypeImport ==
  ASSUME NEW s \in Imported, TypeOK, ImportStep(s)
  PROVE  TypeOK'
<1>0. s \in Sids /\ SubClass[s] \in Class /\ Needs(s) \in SUBSET Files
  BY TreeAssumption, NeedsType
<1>1. CASE CheckSubmission(s) \/ ImportSubmission(s)
  <2>1. CASE CheckSubmission(s)
    BY <2>1 DEF CheckSubmission, TypeOK, docVars, jobVars, fixVars
  <2>2. CASE ImportSubmission(s)
    BY <1>0, <2>2 DEF ImportSubmission, TypeOK, jobVars, fixVars
  <2> QED
    BY <1>1, <2>1, <2>2
<1>2. ASSUME NEW f \in Files, ImportFile(s, f) PROVE TypeOK'
  <2>1. \A c \in Class : c \cap SubClass[s] \in Class
    BY <1>0 DEF Class
  <2> QED
    BY <1>0, <1>2, <2>1 DEF ImportFile, TypeOK, jobVars, fixVars
<1>3. CASE ImportBlob(s)
  BY <1>3 DEF ImportBlob, TypeOK, jobVars, fixVars
<1>4. CASE ImportResults(s)
  BY <1>0, <1>4 DEF ImportResults, TypeOK, jobVars, fixVars
<1> QED
  BY <1>1, <1>2, <1>3, <1>4 DEF ImportStep

(***************************************************************************)
(* Every variable keeps its type.                                          *)
(***************************************************************************)
THEOREM TreeTypeCorrect == Spec => []TypeOK
<1>1. TypeOK /\ [Next]_vars => TypeOK'
  <2> SUFFICES ASSUME TypeOK, [Next]_vars PROVE TypeOK'
    OBVIOUS
  <2>1. ASSUME NEW p \in Deleters, DeleterStep(p) PROVE TypeOK'
    BY <2>1, TypeDeleter
  <2>2. ASSUME NEW p \in Deleters, Crash(p) PROVE TypeOK'
    <3>1. crashes' \in Nat
      BY <2>2 DEF Crash, TypeOK
    <3>2. missed' \subseteq Sids
      <4>1. Target[p] \in Sids /\ missed \subseteq Sids
        BY TreeAssumption DEF TypeOK
      <4> QED
        BY <2>2, <4>1 DEF Crash
    <3> QED
      BY <2>2, <3>1, <3>2 DEF Crash, TypeOK, docVars, fixVars, impVars, Phases
  <2>3. ASSUME NEW s \in Imported, ImportStep(s) PROVE TypeOK'
    BY <2>3, TypeImport
  <2>4. ASSUME NEW s \in Viewed, ViewStep(s) PROVE TypeOK'
    <3>1. s \in Sids
      BY TreeAssumption
    <3>2. CASE ReadSubmission(s)
      BY <3>2 DEF ReadSubmission, TypeOK, jobVars, fixVars, impVars
    <3>3. CASE MakeTree(s)
      <4>1. view' \in [Viewed -> {"none", "read", "made"}]
        BY <3>3 DEF MakeTree, TypeOK
      <4> QED
        BY <3>3, <4>1 DEF MakeTree, TypeOK, jobVars, fixVars, impVars
    <3>4. CASE SaveTree(s)
      BY <3>1, <3>4 DEF SaveTree, TypeOK, jobVars, fixVars, impVars
    <3> QED
      BY <2>4, <3>2, <3>3, <3>4 DEF ViewStep
  <2>5. CASE Refresh \/ RefreshTrees
    BY <2>5 DEF Refresh, RefreshTrees, TypeOK, jobVars, fixVars, impVars
  <2>6. CASE UNCHANGED vars
    BY <2>6 DEF TypeOK, vars, docVars, jobVars, fixVars, impVars
  <2> QED
    BY <2>1, <2>2, <2>3, <2>4, <2>5, <2>6 DEF Next, AllDone
<1> QED
  BY <1>1, TypeInit, PTL DEF Spec
-----------------------------------------------------------------------------
(***************************************************************************)
(* The inductive invariant.  A step of one deletion leaves the others'     *)
(* parts of it alone: it takes away no submission but its own.             *)
(***************************************************************************)
LEMMA TreeInit == Separate /\ Init => TreeInv
<1> SUFFICES ASSUME Separate, Init PROVE TreeInv
  OBVIOUS
<1>1. \A p \in Deleters : JobInv(p)
  BY DEF Init, JobInv, Working
<1>2. \A s \in subs : s \in Sids /\ SubFiles[s] \subseteq Needs(s) /\ Needs(s) \subseteq Files
  BY TreeAssumption, NeedsType DEF Init, Needs
<1>3. \A ss : LeastRestricted(ss) # Absent
  BY TreeAssumption DEF LeastRestricted, Class
<1>4. StayingComplete
  BY <1>2, <1>3 DEF Init, StayingComplete, Staying, Users
<1>5. StayingReadable
  <2> SUFFICES ASSUME NEW s \in subs, NEW f \in SubFiles[s]
               PROVE  rec[f] \subseteq SubClass[s]
    BY DEF StayingReadable, Staying
  <2> DEFINE ss == {t \in subs : f \in Needs(t)}
  <2>1. s \in ss /\ f \in Files
    BY <1>2
  <2>2. rec[f] = LeastRestricted(ss)
    BY <2>1 DEF Init
  <2> QED
    BY <2>1, <2>2 DEF LeastRestricted
<1> QED
  BY <1>1, <1>4, <1>5 DEF TreeInv, Init

LEMMA JobFrame ==
  ASSUME NEW q \in Deleters, JobInv(q), subs' \subseteq subs,
         Target[q] \in subs => Target[q] \in subs',
         pc'[q] = pc[q], todo'[q] = todo[q], gone'[q] = gone[q], supp'[q] = supp[q],
         cur'[q] = cur[q], ncls'[q] = ncls[q], planRec'[q] = planRec[q]
  PROVE  JobInv(q)'
BY DEF JobInv, Working, OnlyOwn, LoopInv, PlanInv, OpenEnough

\* The submissions that stay keep what a step takes from nobody but its own.
LEMMA StayFrame ==
  ASSUME TreeInv, TypeOK, subs' \subseteq subs, visible' = visible,
         \A s \in Staying : /\ \A f \in Needs(s) : /\ rec[f] # Absent => rec'[f] # Absent
                                                   /\ f \in blob => f \in blob'
                            /\ \A f \in SubFiles[s] :
                                 /\ res[f] # Absent => res'[f] # Absent
                                 /\ rec[f] \subseteq SubClass[s] /\ rec'[f] # Absent
                                      => rec'[f] \subseteq SubClass[s]
  PROVE  subs' \subseteq visible' /\ StayingComplete' /\ StayingReadable'
<1>1. Staying' \subseteq Staying /\ subs' \subseteq visible'
  BY DEF Staying, TreeInv
<1>2. \A s \in Sids : SubFiles[s] \subseteq Needs(s)
  BY TreeAssumption DEF Needs
<1>3. Staying \subseteq Sids
  BY DEF Staying, TypeOK
<1>4. StayingComplete'
  BY <1>1 DEF TreeInv, StayingComplete
<1>5. StayingReadable'
  BY <1>1, <1>2, <1>3 DEF TreeInv, StayingComplete, StayingReadable
<1> QED
  BY <1>1, <1>4, <1>5

\* In particular when the documents do not change.
LEMMA SameDocs ==
  ASSUME TreeInv, TypeOK, UNCHANGED <<subs, visible, rec, res, blob>>
  PROVE  subs' \subseteq visible' /\ StayingComplete' /\ StayingReadable'
BY DEF TreeInv, StayingComplete, StayingReadable, Staying

\* A file found in less than two submissions is needed by one only.
LEMMA UsedOnceIsOwn ==
  ASSUME NEW p \in Deleters, NEW f \in SubFiles[Target[p]], Separate, TypeOK,
         subs \subseteq visible, Target[p] \in subs, UsedOnce(f)
  PROVE  /\ OnlyOwn(p, f)
         /\ \A k \in Supp[f] : OnlyOwn(p, k)
<1> DEFINE us == Users(visible, f)
<1>1. IsFiniteSet(us) /\ Target[p] \in us /\ Cardinality(us) < 2
  <2>1. us \subseteq Sids /\ Target[p] \in us
    BY DEF Users, TypeOK
  <2>2. IsFiniteSet(us)
    BY <2>1, TreeAssumption, FS_Subset
  <2> QED
    BY <2>1, <2>2 DEF UsedOnce
<1>2. us = {Target[p]}
  <2>1. Cardinality(us) \in Nat /\ Cardinality(us) # 0
    BY <1>1, FS_CardinalityType, FS_EmptySet
  <2>2. Cardinality(us) = 1
    BY <1>1, <2>1
  <2> QED
    BY <1>1, <2>2, FS_Singleton
<1>3. \A s \in subs : f \in SubFiles[s] => s = Target[p]
  BY <1>2 DEF Users
<1>4. f \in Files /\ subs \subseteq Sids
  BY TreeAssumption DEF TypeOK
<1>5. \A g \in Files : f \notin Supp[g]
  BY TreeAssumption DEF Separate
<1>6. \A s \in subs : f \in Needs(s) => f \in SubFiles[s]
  BY <1>4, <1>5, TreeAssumption DEF Needs
<1>7. \A k \in Supp[f] : \A s \in subs : k \in Needs(s) => f \in SubFiles[s]
  BY <1>4, TreeAssumption DEF Needs, Separate
<1> QED
  BY <1>3, <1>6, <1>7 DEF OnlyOwn

\* The classification a deletion finds is open enough for all others.
LEMMA FoundOpenEnough ==
  ASSUME NEW p \in Deleters, NEW f \in Files, subs \subseteq visible
  PROVE  OpenEnough(p, f, LeastRestricted(OtherUsers(p, f)))
BY DEF OpenEnough, LeastRestricted, OtherUsers, Users

\* What p plans or writes for fs, at a class that is open enough, disturbs
\* no other submission.
LEMMA AssignStays ==
  ASSUME NEW p \in Deleters, NEW fs \in SUBSET Files, NEW c \in Class,
         TypeOK, TreeInv, PlanInv(p),
         \A f \in fs : OpenEnough(p, f, c),
         Assign(p, rec, planRec, fs, c),
         UNCHANGED <<subs, visible, res, blob, supp>>
  PROVE  /\ subs' \subseteq visible' /\ StayingComplete' /\ StayingReadable'
         /\ PlanInv(p)'
         /\ \A q \in Deleters : q # p => planRec'[q] = planRec[q]
<1>0. Absent \notin Class
  BY TreeAssumption
<1>1. CASE p \in Bulk
  <2>1. UNCHANGED rec /\ planRec' = [planRec EXCEPT ![p] = [f \in Files |-> IF f \in fs THEN c ELSE planRec[p][f]]]
    BY <1>1 DEF Assign
  <2>2. \A f \in Files : planRec'[p][f] = IF f \in fs THEN c ELSE planRec[p][f]
    BY <2>1 DEF TypeOK
  <2>3. \A q \in Deleters : q # p => planRec'[q] = planRec[q]
    BY <2>1 DEF TypeOK
  <2>4. PlanInv(p)'
    BY <2>2 DEF PlanInv, OpenEnough
  <2> QED
    BY <2>1, <2>3, <2>4, SameDocs
<1>2. CASE p \notin Bulk
  <2>1. UNCHANGED planRec /\ rec' = Reclassify(rec, fs, c)
    BY <1>2 DEF Assign
  <2>2. \A f \in Files : rec'[f] = IF f \in fs /\ rec[f] # Absent THEN c ELSE rec[f]
    BY <2>1 DEF Reclassify
  <2>3. PlanInv(p)'
    BY <2>1 DEF PlanInv, OpenEnough
  <2>4. \A s \in Staying : /\ s \in subs \ {Target[p]} /\ Needs(s) \subseteq Files
                           /\ SubFiles[s] \subseteq Files
    BY NeedsType, TreeAssumption DEF Staying, TypeOK
  <2>5. \A s \in Staying :
          /\ \A f \in Needs(s) : rec[f] # Absent => rec'[f] # Absent
          /\ \A f \in SubFiles[s] : rec[f] \subseteq SubClass[s] => rec'[f] \subseteq SubClass[s]
    BY <1>0, <2>2, <2>4 DEF OpenEnough
  <2> QED
    BY <2>1, <2>3, <2>5, StayFrame
<1> QED
  BY <1>1, <1>2

LEMMA InvPlan ==
  ASSUME NEW p \in Deleters, Separate, TypeOK, TreeInv,
         \/ Start(p) \/ Inspected(p) \/ NextLoop(p, "results", "records", gone[p])
         \/ NextLoop(p, "records", "fix", kept[p])
         \/ \E f \in Files : Inspect(p, f) \/ FixRead(p, f)
  PROVE  TreeInv'
<1>1. UNCHANGED <<subs, visible, rec, res, blob>>
  BY DEF Start, Inspected, NextLoop, Inspect, FixRead, docVars
<1>2. subs' \subseteq visible' /\ StayingComplete' /\ StayingReadable'
  BY <1>1, SameDocs
<1>3. \A q \in Deleters : JobInv(q)
  BY DEF TreeInv
<1>4. ASSUME NEW q \in Deleters, q # p PROVE JobInv(q)'
  <2>1. /\ pc'[q] = pc[q] /\ todo'[q] = todo[q] /\ gone'[q] = gone[q]
        /\ supp'[q] = supp[q] /\ cur'[q] = cur[q] /\ ncls'[q] = ncls[q]
        /\ planRec'[q] = planRec[q]
    BY <1>4 DEF Start, Inspected, NextLoop, Inspect, FixRead, fixVars, TypeOK
  <2> QED
    BY <1>1, <1>3, <2>1, JobFrame
<1>5. ASSUME Start(p) PROVE JobInv(p)'
  <2>1. /\ pc'[p] = IF Target[p] \in subs THEN "inspect" ELSE "done"
        /\ todo'[p] = SubFiles[Target[p]] /\ gone'[p] = {}
        /\ supp'[p] = [f \in Files |-> {}] /\ planRec'[p] = NoPlan
    BY <1>5 DEF Start, TypeOK
  <2> QED
    <3>1. LoopInv(p)'
      BY <2>1 DEF LoopInv
    <3>2. PlanInv(p)'
      BY <2>1 DEF PlanInv, NoPlan
    <3>3. Working(p)' => Target[p] \in subs'
      BY <1>1, <2>1 DEF Working
    <3> QED
      BY <2>1, <3>1, <3>2, <3>3 DEF JobInv
<1>6. ASSUME \/ Inspected(p) \/ NextLoop(p, "results", "records", gone[p])
             \/ NextLoop(p, "records", "fix", kept[p])
      PROVE  JobInv(p)'
  <2>1. /\ pc[p] \in {"inspect", "results", "records"}
        /\ pc'[p] \in {"results", "records", "fix"}
        /\ pc'[p] \in {"results", "records"} => todo'[p] \subseteq gone[p]
        /\ UNCHANGED <<gone, supp, planRec>>
    BY <1>6 DEF Inspected, NextLoop, TypeOK
  <2>2. /\ Target[p] \in subs /\ \A f \in gone[p] : OnlyOwn(p, f)
        /\ PlanInv(p)
    BY <1>3, <2>1 DEF JobInv, Working
  <2>3. PlanInv(p)'
    BY <1>1, <2>1, <2>2 DEF PlanInv, OpenEnough
  <2>4. LoopInv(p)'
    BY <2>1 DEF LoopInv
  <2> QED
    BY <1>1, <2>1, <2>2, <2>3, <2>4 DEF JobInv, OnlyOwn
<1>7. ASSUME NEW f \in Files, Inspect(p, f) PROVE JobInv(p)'
  <2>1. /\ pc[p] = "inspect" /\ f \in todo[p] /\ UNCHANGED <<pc, planRec>>
        /\ todo'[p] = todo[p] \ {f}
    BY <1>7 DEF Inspect, TypeOK
  <2>2. /\ Target[p] \in subs /\ f \in SubFiles[Target[p]] /\ todo[p] \subseteq SubFiles[Target[p]]
        /\ \A g \in gone[p] : OnlyOwn(p, g)
        /\ PlanInv(p)
    BY <1>3, <2>1 DEF JobInv, Working, LoopInv
  <2> DEFINE sl == IF res[f] # Absent THEN Supp[f] ELSE {}
  <2>3. sl \subseteq Supp[f]
    OBVIOUS
  <2>4. \/ UsedOnce(f) /\ gone' = [gone EXCEPT ![p] = gone[p] \cup {f} \cup sl] /\ supp' = supp
        \/ gone' = gone /\ supp' = [supp EXCEPT ![p][f] = sl]
    BY <1>7 DEF Inspect
  <2> HIDE DEF sl
  <2>5. \A g \in gone'[p] : OnlyOwn(p, g)
    <3>1. CASE UsedOnce(f) /\ gone' = [gone EXCEPT ![p] = gone[p] \cup {f} \cup sl]
      <4>1. OnlyOwn(p, f) /\ \A k \in Supp[f] : OnlyOwn(p, k)
        BY <2>2, <3>1, UsedOnceIsOwn DEF TreeInv
      <4>2. gone'[p] = gone[p] \cup {f} \cup sl
        BY <3>1 DEF TypeOK
      <4> QED
        BY <2>2, <2>3, <4>1, <4>2
    <3>2. CASE gone' = gone
      BY <2>2, <3>2
    <3> QED
      BY <2>4, <3>1, <3>2
  <2>6. \A g \in Files : supp'[p][g] \subseteq Supp[g]
    <3>1. CASE supp' = supp
      BY <2>2, <3>1 DEF PlanInv
    <3>2. CASE supp' = [supp EXCEPT ![p][f] = sl]
      <4>1. \A g \in Files : supp'[p][g] = IF g = f THEN sl ELSE supp[p][g]
        BY <3>2 DEF TypeOK
      <4> QED
        BY <2>2, <2>3, <4>1 DEF PlanInv
    <3> QED
      BY <2>4, <3>1, <3>2
  <2> QED
    BY <1>1, <2>1, <2>2, <2>5, <2>6 DEF JobInv, Working, LoopInv, PlanInv, OnlyOwn, OpenEnough
<1>8. ASSUME NEW f \in Files, FixRead(p, f) PROVE JobInv(p)'
  <2>1. /\ pc[p] = "fix" /\ UNCHANGED <<gone, supp, planRec>>
        /\ \/ pc' = pc
           \/ /\ pc'[p] = "fixresults" /\ cur'[p] = f
              /\ ncls'[p] = LeastRestricted(OtherUsers(p, f))
    BY <1>8 DEF FixRead, TypeOK
  <2>2. OpenEnough(p, f, LeastRestricted(OtherUsers(p, f)))
    BY FoundOpenEnough DEF TreeInv
  <2> QED
    BY <1>1, <1>3, <2>1, <2>2 DEF JobInv, Working, LoopInv, PlanInv, OnlyOwn, OpenEnough
<1>9. JobInv(p)'
  <2>1. CASE \E f \in Files : Inspect(p, f) \/ FixRead(p, f)
    BY <1>7, <1>8, <2>1
  <2> QED
    BY <1>5, <1>6, <2>1
<1> QED
  BY <1>2, <1>4, <1>9 DEF TreeInv

\* What a deletion erases belongs to no submission that stays.
LEMMA GoneIsNotNeeded ==
  ASSUME NEW p \in Deleters, TypeOK, TreeInv, Working(p),
         NEW f \in gone[p], NEW s \in Staying
  PROVE  f \notin Needs(s) /\ f \notin SubFiles[s]
<1>1. OnlyOwn(p, f) /\ s \in subs /\ s # Target[p] /\ s \in Sids
  BY DEF TreeInv, JobInv, Staying, TypeOK
<1>2. SubFiles[s] \subseteq Needs(s)
  BY <1>1, TreeAssumption DEF Needs
<1> QED
  BY <1>1, <1>2 DEF OnlyOwn

LEMMA InvErase ==
  ASSUME NEW p \in Deleters, Separate, TypeOK, TreeInv,
         EraseBlob(p) \/ \E f \in Files : EraseResults(p, f) \/ EraseRecord(p, f)
  PROVE  TreeInv'
<1>1. PICK f \in Files :
        /\ f \in gone[p] /\ Working(p) /\ Working(p)'
        /\ rec' \in {rec, Erase(rec, {f})} /\ res' \in {res, Erase(res, {f})}
        /\ blob' \in {blob, blob \ {f}}
        /\ UNCHANGED <<subs, visible, gone, supp, ncls, planRec>>
        /\ pc'[p] \in {"results", "records", "blob"} /\ todo'[p] \subseteq gone[p]
        /\ pc'[p] = "blob" => cur'[p] \in gone[p]
        /\ \A q \in Deleters \ {p} : pc'[q] = pc[q] /\ todo'[q] = todo[q] /\ cur'[q] = cur[q]
  <2>1. ASSUME EraseBlob(p) PROVE
           /\ cur[p] \in gone[p] /\ cur[p] \in Files /\ Working(p) /\ Working(p)'
           /\ UNCHANGED <<rec, res>> /\ blob' = blob \ {cur[p]}
           /\ UNCHANGED <<subs, visible, gone, supp, ncls, planRec>>
           /\ pc'[p] = "records" /\ todo'[p] \subseteq gone[p]
           /\ \A q \in Deleters \ {p} : pc'[q] = pc[q] /\ todo'[q] = todo[q] /\ cur'[q] = cur[q]
    BY <2>1 DEF EraseBlob, TreeInv, JobInv, Working, LoopInv, TypeOK, fixVars
  <2>2. ASSUME NEW f \in Files, EraseResults(p, f) PROVE
           /\ f \in gone[p] /\ Working(p) /\ Working(p)'
           /\ UNCHANGED <<rec, blob>> /\ res' = Erase(res, {f})
           /\ UNCHANGED <<subs, visible, gone, supp, ncls, planRec>>
           /\ pc'[p] = "results" /\ todo'[p] \subseteq gone[p]
           /\ \A q \in Deleters \ {p} : pc'[q] = pc[q] /\ todo'[q] = todo[q] /\ cur'[q] = cur[q]
    BY <2>2 DEF EraseResults, TreeInv, JobInv, Working, LoopInv, TypeOK, fixVars
  <2>3. ASSUME NEW f \in Files, EraseRecord(p, f) PROVE
           /\ f \in gone[p] /\ Working(p) /\ Working(p)'
           /\ rec' \in {rec, Erase(rec, {f})} /\ UNCHANGED <<res, blob>>
           /\ UNCHANGED <<subs, visible, gone, supp, ncls, planRec>>
           /\ pc'[p] = "blob" /\ todo'[p] \subseteq gone[p] /\ cur'[p] = f
           /\ \A q \in Deleters \ {p} : pc'[q] = pc[q] /\ todo'[q] = todo[q] /\ cur'[q] = cur[q]
    BY <2>3 DEF EraseRecord, TreeInv, JobInv, Working, LoopInv, TypeOK
  <2>4. CASE EraseBlob(p)
    BY <2>1, <2>4
  <2>5. CASE \E f \in Files : EraseResults(p, f)
    BY <2>2, <2>5
  <2>6. CASE \E f \in Files : EraseRecord(p, f)
    BY <2>3, <2>6
  <2> QED
    BY <2>4, <2>5, <2>6
<1>2. \A s \in Staying : f \notin Needs(s) /\ f \notin SubFiles[s]
  BY <1>1, GoneIsNotNeeded
<1>3. \A s \in Staying : Needs(s) \subseteq Files /\ SubFiles[s] \subseteq Files
  BY NeedsType, TreeAssumption DEF Staying, TypeOK
<1>4. \A g \in Files : g # f => rec'[g] = rec[g] /\ res'[g] = res[g]
  BY <1>1 DEF Erase
<1>5. \A s \in Staying :
        /\ \A g \in Needs(s) : rec'[g] = rec[g] /\ (g \in blob => g \in blob')
        /\ \A g \in SubFiles[s] : rec'[g] = rec[g] /\ res'[g] = res[g]
  BY <1>1, <1>2, <1>3, <1>4
<1>6. subs' \subseteq visible' /\ StayingComplete' /\ StayingReadable'
  BY <1>1, <1>5, StayFrame
<1>7. JobInv(p)'
  <2>1. /\ Target[p] \in subs /\ PlanInv(p) /\ \A g \in gone[p] : OnlyOwn(p, g)
    BY <1>1 DEF TreeInv, JobInv
  <2>2. PlanInv(p)'
    BY <1>1, <2>1 DEF PlanInv, OpenEnough
  <2>3. LoopInv(p)'
    BY <1>1 DEF LoopInv
  <2> QED
    BY <1>1, <2>1, <2>2, <2>3 DEF JobInv, OnlyOwn
<1>8. ASSUME NEW q \in Deleters, q # p PROVE JobInv(q)'
  <2>1. JobInv(q)
    BY DEF TreeInv
  <2> QED
    BY <1>1, <1>8, <2>1, JobFrame
<1> QED
  BY <1>6, <1>7, <1>8 DEF TreeInv

LEMMA InvFix ==
  ASSUME NEW p \in Deleters, Separate, TypeOK, TreeInv,
         FixResults(p) \/ FixFile(p) \/ FixSupp(p)
  PROVE  TreeInv'
<1>1. /\ Working(p) /\ Working(p)' /\ UNCHANGED <<subs, visible, blob, todo, gone, supp, fixVars>>
      /\ pc[p] \in {"fixresults", "fixfile", "fixsupp"} /\ pc'[p] \in {"fixfile", "fixsupp", "fix"}
      /\ \A q \in Deleters \ {p} : pc'[q] = pc[q]
  BY DEF FixResults, FixFile, FixSupp, Working, TypeOK
<1>2. /\ Target[p] \in subs /\ PlanInv(p) /\ (\A g \in gone[p] : OnlyOwn(p, g))
      /\ OpenEnough(p, cur[p], ncls[p]) /\ cur[p] \in Files /\ ncls[p] \in Class
  BY <1>1 DEF TreeInv, JobInv, LoopInv, TypeOK
<1>3. /\ subs' \subseteq visible' /\ StayingComplete' /\ StayingReadable' /\ PlanInv(p)'
      /\ \A q \in Deleters : q # p => planRec'[q] = planRec[q]
  <2>1. CASE FixResults(p)
    <3>1. UNCHANGED <<subs, visible, rec, blob, supp, planRec>>
      BY <2>1 DEF FixResults
    <3>2. \A f \in Files : res[f] # Absent => res'[f] # Absent
      <4>1. CASE UNCHANGED res
        BY <4>1
      <4>2. CASE res[cur[p]] # Absent /\ Assign(p, res, planRes, {cur[p]}, res[cur[p]] \cup ncls[p])
        <5>1. res[cur[p]] \cup ncls[p] \in Class
          BY <1>2, <4>2 DEF TypeOK, Class
        <5>2. res[cur[p]] \cup ncls[p] # Absent
          BY <5>1, TreeAssumption
        <5> QED
          BY <4>2, <5>2 DEF Assign, Reclassify
      <4> QED
        BY <2>1, <4>1, <4>2 DEF FixResults
    <3>3. \A s \in Staying : Needs(s) \subseteq Files /\ SubFiles[s] \subseteq Files
      BY NeedsType, TreeAssumption DEF Staying, TypeOK
    <3>4. subs' \subseteq visible' /\ StayingComplete' /\ StayingReadable'
      BY <3>1, <3>2, <3>3, StayFrame
    <3>5. PlanInv(p)'
      BY <1>2, <3>1 DEF PlanInv, OpenEnough
    <3> QED
      BY <3>1, <3>4, <3>5
  <2>2. CASE FixFile(p)
    <3>1. UNCHANGED <<subs, visible, res, blob, supp>>
      BY <2>2 DEF FixFile
    <3>2. CASE UNCHANGED <<rec, planRec>>
      <4>1. PlanInv(p)'
        BY <1>2, <3>1, <3>2 DEF PlanInv, OpenEnough
      <4> QED
        BY <3>1, <3>2, <4>1, SameDocs
    <3>3. CASE Assign(p, rec, planRec, {cur[p]}, ncls[p])
      <4>1. {cur[p]} \in SUBSET Files /\ \A f \in {cur[p]} : OpenEnough(p, f, ncls[p])
        BY <1>2
      <4> QED
        BY <1>2, <3>1, <3>3, <4>1, AssignStays
    <3> QED
      BY <2>2, <3>2, <3>3 DEF FixFile
  <2>3. CASE FixSupp(p)
    <3> DEFINE fs == {f \in supp[p][cur[p]] : rec[f] \notin {Absent, ncls[p]}}
    <3>1. UNCHANGED <<subs, visible, res, blob, supp>> /\ Assign(p, rec, planRec, fs, ncls[p])
      BY <2>3 DEF FixSupp
    <3>2. fs \in SUBSET Files /\ fs \subseteq Supp[cur[p]]
      BY <1>2 DEF TypeOK, PlanInv
    <3>3. \A f \in fs : OpenEnough(p, f, ncls[p])
      BY <1>2, <3>2 DEF OpenEnough, Separate, TypeOK
    <3> HIDE DEF fs
    <3> QED
      BY <1>2, <3>1, <3>2, <3>3, AssignStays
  <2> QED
    BY <2>1, <2>2, <2>3
<1>4. JobInv(p)'
  <2>1. LoopInv(p)'
    BY <1>1, <1>2 DEF LoopInv, OpenEnough, fixVars
  <2> QED
    BY <1>1, <1>2, <1>3, <2>1 DEF JobInv, OnlyOwn
<1>5. ASSUME NEW q \in Deleters, q # p PROVE JobInv(q)'
  <2>1. JobInv(q)
    BY DEF TreeInv
  <2> QED
    BY <1>1, <1>3, <1>5, <2>1, JobFrame DEF fixVars
<1> QED
  BY <1>3, <1>4, <1>5 DEF TreeInv

LEMMA InvEnd ==
  ASSUME NEW p \in Deleters, Separate, TypeOK, TreeInv,
         DeleteSubmission(p) \/ FindTrees(p) \/ DeleteTrees(p) \/ ApplyPlan(p) \/ Crash(p)
  PROVE  TreeInv'
<1>1. /\ subs' \in {subs, subs \ {Target[p]}} /\ ~Working(p)'
      /\ UNCHANGED <<visible, blob, todo, gone, supp, fixVars, planRec>>
      /\ \A q \in Deleters \ {p} : pc'[q] = pc[q]
  BY DEF DeleteSubmission, FindTrees, DeleteTrees, ApplyPlan, Crash, docVars, Working, TypeOK
<1>2. subs' \subseteq visible' /\ StayingComplete' /\ StayingReadable'
  <2>1. CASE UNCHANGED <<rec, res>>
    BY <1>1, <2>1, StayFrame
  <2>2. CASE ApplyPlan(p)
    <3>1. /\ Working(p) /\ PlanInv(p)
          /\ rec' = Planned(rec, gone[p], planRec[p])
          /\ res' = Planned(res, gone[p] \cap SubFiles[Target[p]], planRes[p])
      BY <2>2 DEF ApplyPlan, Working, TreeInv, JobInv
    <3>2. \A s \in Staying : /\ Needs(s) \subseteq Files /\ SubFiles[s] \subseteq Files
                             /\ s \in subs \ {Target[p]}
      BY NeedsType, TreeAssumption DEF Staying, TypeOK
    <3>3. \A s \in Staying : \A f \in gone[p] : f \notin Needs(s) /\ f \notin SubFiles[s]
      BY <3>1, GoneIsNotNeeded
    <3>4. \A s \in Staying : \A f \in Needs(s) : rec[f] # Absent => rec'[f] # Absent
      BY <3>1, <3>2, <3>3 DEF Planned
    <3>5. \A s \in Staying : \A f \in SubFiles[s] : res[f] # Absent => res'[f] # Absent
      BY <3>1, <3>2, <3>3 DEF Planned
    <3>6. \A s \in Staying : \A f \in SubFiles[s] :
            rec[f] \subseteq SubClass[s] /\ rec'[f] # Absent => rec'[f] \subseteq SubClass[s]
      BY <3>1, <3>2 DEF Planned, PlanInv, OpenEnough
    <3> QED
      BY <1>1, <3>4, <3>5, <3>6, StayFrame
  <2> QED
    BY <2>1, <2>2 DEF DeleteSubmission, FindTrees, DeleteTrees, Crash, docVars
<1>3. JobInv(p)'
  BY <1>1 DEF JobInv
<1>4. ASSUME NEW q \in Deleters, q # p PROVE JobInv(q)'
  <2>1. JobInv(q) /\ Target[q] # Target[p]
    BY <1>4 DEF TreeInv, Separate
  <2> QED
    BY <1>1, <1>4, <2>1, JobFrame DEF fixVars
<1> QED
  BY <1>2, <1>3, <1>4 DEF TreeInv

LEMMA TreeNext == Separate /\ TypeOK /\ TreeInv /\ [Next]_vars => TreeInv'
<1> SUFFICES ASSUME Separate, TypeOK, TreeInv, [Next]_vars PROVE TreeInv'
  OBVIOUS
<1>1. ASSUME NEW p \in Deleters, DeleterStep(p) PROVE TreeInv'
  BY <1>1, InvPlan, InvErase, InvFix, InvEnd DEF DeleterStep
<1>2. ASSUME NEW p \in Deleters, Crash(p) PROVE TreeInv'
  BY <1>2, InvEnd
<1>3. ASSUME NEW s \in Imported, ImportStep(s) PROVE TreeInv'
  BY DEF Separate
<1>4. CASE Refresh \/ RefreshTrees \/ (\E s \in Viewed : ViewStep(s)) \/ UNCHANGED vars
  <2>1. /\ UNCHANGED <<subs, rec, res, blob, pc, todo, gone, supp, cur, ncls, planRec>>
        /\ visible' \in {visible, subs}
    BY <1>4 DEF Refresh, RefreshTrees, ViewStep, ReadSubmission, MakeTree, SaveTree, vars, docVars, jobVars, fixVars
  <2>2. subs' \subseteq visible' /\ StayingComplete' /\ StayingReadable'
    BY <2>1 DEF TreeInv, StayingComplete, StayingReadable, Staying
  <2>3. ASSUME NEW q \in Deleters PROVE JobInv(q)'
    <3>1. JobInv(q)
      BY DEF TreeInv
    <3> QED
      BY <2>1, <3>1, JobFrame
  <2> QED
    BY <2>2, <2>3 DEF TreeInv
<1> QED
  BY <1>1, <1>2, <1>3, <1>4 DEF Next, AllDone

(***************************************************************************)
(* What a deletion erases is needed by its own submission only, and what   *)
(* it writes shuts out the readers of no other: inductive for any number   *)
(* of deletions, in both variants, with any number of crashes.             *)
(***************************************************************************)
THEOREM TreeInvariant ==
  ASSUME Separate
  PROVE  Spec => []TreeInv
<1>1. Init => TreeInv
  BY TreeInit
<1>2. TypeOK /\ TreeInv /\ [Next]_vars => TreeInv'
  BY TreeNext
<1> QED
  BY <1>1, <1>2, TreeTypeCorrect, PTL DEF Spec

(***************************************************************************)
(* Deleting submissions takes no file, result or content from one that     *)
(* stays: a file found in less than two submissions is in no other.        *)
(***************************************************************************)
THEOREM StayingUntouched ==
  ASSUME Separate
  PROVE  Spec => []StayingComplete
<1>1. TreeInv => StayingComplete
  BY DEF TreeInv
<1> QED
  BY <1>1, TreeInvariant, PTL

(***************************************************************************)
(* Reclassifying the files that stay never shuts out those who may read a  *)
(* submission that stays.                                                  *)
(***************************************************************************)
THEOREM StayingStaysReadable ==
  ASSUME Separate
  PROVE  Spec => []StayingReadable
<1>1. TreeInv => StayingReadable
  BY DEF TreeInv
<1> QED
  BY <1>1, TreeInvariant, PTL
-----------------------------------------------------------------------------
(***************************************************************************)
(* Trees.  A deletion that has looked for the trees has found the one that *)
(* is there, or it is missed; a cached tree is of a submission that is     *)
(* there, or missed, or a deletion is about to take it away.               *)
(***************************************************************************)
Looking == {"trees", "deltrees"}
BulkWork(p) == p \in Bulk /\ pc[p] \notin {"start", "done"}

LookInv == \A p \in Deleters :
  /\ p \in Bulk => pc[p] \notin Looking
  /\ Target[p] \in trees /\ (pc[p] = "deltrees" \/ BulkWork(p)) => Target[p] \in planTree[p] \cup missed

ViewInv == \A s \in Viewed : view[s] # "none" =>
  s \in subs \cup missed \/ \E p \in Deleters : Target[p] = s /\ pc[p] \in Looking \cup {"done"}

LeftInv == \A s \in trees \ (subs \cup missed) : \E p \in Deleters : Target[p] = s /\ pc[p] \in Looking

TreesInv == LookInv /\ ViewInv /\ LeftInv

\* Steps that have nothing to do with trees.
LEMMA TreesFrame ==
  ASSUME TypeOK, TreesInv, NEW q \in Deleters,
         subs \subseteq subs', UNCHANGED treeVars, UNCHANGED planTree,
         pc[q] \notin {"start", "done"} \cup Looking \/ pc'[q] = pc[q],
         pc'[q] \notin {"start", "done"} \cup Looking \/ pc'[q] = pc[q],
         \A r \in Deleters \ {q} : pc'[r] = pc[r]
  PROVE  TreesInv'
<1>1. \A r \in Deleters : /\ pc'[r] \in Looking => pc[r] = pc'[r]
                          /\ pc[r] \in Looking \cup {"done"} => pc'[r] = pc[r]
                          /\ BulkWork(r)' => BulkWork(r)
  BY DEF BulkWork, Looking
<1>2. LookInv'
  BY <1>1 DEF TreesInv, LookInv, Looking
<1>3. ViewInv'
  BY <1>1 DEF TreesInv, ViewInv
<1>4. LeftInv'
  BY <1>1 DEF TreesInv, LeftInv
<1> QED
  BY <1>2, <1>3, <1>4 DEF TreesInv

LEMMA TreesDeleter ==
  ASSUME NEW q \in Deleters, TypeOK, TreesInv, DeleterStep(q)
  PROVE  TreesInv'
<1>0. Target[q] \in Sids /\ \A r \in Deleters : r # q => pc'[r] = pc[r]
  BY TreeAssumption
  DEF DeleterStep, Start, Inspected, NextLoop, Inspect, EraseResults, EraseRecord, FixRead,
      EraseBlob, FixResults, FixFile, FixSupp, DeleteSubmission, FindTrees, DeleteTrees,
      ApplyPlan, TypeOK
<1>1. CASE Start(q)
  <2>1. /\ pc[q] = "start" /\ pc'[q] \in {"inspect", "done"}
        /\ UNCHANGED <<subs, trees, view>>
        /\ \A r \in Deleters \ {q} : planTree'[r] = planTree[r]
        /\ planTree'[q] = Found(q) /\ missed \subseteq missed'
        /\ q \in Bulk => missed' = missed \cup Unfound(q)
    BY <1>1 DEF Start, TypeOK
  <2>2. LookInv'
    BY <1>0, <2>1 DEF TreesInv, LookInv, Looking, BulkWork, Found, Unfound
  <2>3. ViewInv'
    BY <1>0, <2>1 DEF TreesInv, ViewInv, Looking
  <2>4. LeftInv'
    BY <1>0, <2>1 DEF TreesInv, LeftInv, Looking
  <2> QED
    BY <2>2, <2>3, <2>4 DEF TreesInv
<1>2. CASE DeleteSubmission(q)
  <2>1. /\ q \notin Bulk /\ pc'[q] = "trees" /\ UNCHANGED <<trees, view, missed, planTree>>
        /\ subs' = subs \ {Target[q]} /\ pc[q] = "fix"
    BY <1>2 DEF DeleteSubmission, TypeOK
  <2>2. LookInv'
    BY <1>0, <2>1 DEF TreesInv, LookInv, Looking, BulkWork
  <2>3. ViewInv'
    BY <1>0, <2>1 DEF TreesInv, ViewInv, Looking
  <2>4. LeftInv'
    BY <1>0, <2>1 DEF TreesInv, LeftInv, Looking
  <2> QED
    BY <2>2, <2>3, <2>4 DEF TreesInv
<1>3. CASE FindTrees(q)
  <2>1. /\ pc[q] = "trees" /\ pc'[q] = "deltrees" /\ UNCHANGED <<subs, trees, view>>
        /\ \A r \in Deleters \ {q} : planTree'[r] = planTree[r]
        /\ planTree'[q] = Found(q) /\ missed' = missed \cup Unfound(q)
    BY <1>3 DEF FindTrees, TypeOK
  <2>2. LookInv'
    BY <1>0, <2>1 DEF TreesInv, LookInv, Looking, BulkWork, Found, Unfound
  <2>3. ViewInv'
    BY <1>0, <2>1 DEF TreesInv, ViewInv, Looking
  <2>4. LeftInv'
    BY <1>0, <2>1 DEF TreesInv, LeftInv, Looking
  <2> QED
    BY <2>2, <2>3, <2>4 DEF TreesInv
<1>4. CASE DeleteTrees(q)
  <2>1. /\ pc[q] = "deltrees" /\ pc'[q] = "done" /\ UNCHANGED <<subs, view, missed, planTree>>
        /\ trees' = trees \ planTree[q]
    BY <1>4 DEF DeleteTrees, TypeOK
  <2>2. LookInv'
    BY <1>0, <2>1 DEF TreesInv, LookInv, Looking, BulkWork
  <2>3. ViewInv'
    BY <1>0, <2>1 DEF TreesInv, ViewInv, Looking
  <2>4. LeftInv'
    <3>1. Target[q] \in trees' => Target[q] \in missed
      BY <2>1 DEF TreesInv, LookInv
    <3> QED
      BY <1>0, <2>1, <3>1 DEF TreesInv, LeftInv, Looking
  <2> QED
    BY <2>2, <2>3, <2>4 DEF TreesInv
<1>5. CASE ApplyPlan(q)
  <2>1. /\ q \in Bulk /\ pc[q] = "fix" /\ pc'[q] = "done"
        /\ UNCHANGED <<view, missed, planTree>>
        /\ subs' = subs \ {Target[q]} /\ trees' = trees \ planTree[q]
    BY <1>5 DEF ApplyPlan, TypeOK
  <2>2. LookInv'
    BY <1>0, <2>1 DEF TreesInv, LookInv, Looking, BulkWork
  <2>3. ViewInv'
    BY <1>0, <2>1 DEF TreesInv, ViewInv, Looking
  <2>4. LeftInv'
    <3>1. Target[q] \in trees' => Target[q] \in missed
      BY <2>1 DEF TreesInv, LookInv, BulkWork
    <3> QED
      BY <1>0, <2>1, <3>1 DEF TreesInv, LeftInv, Looking
  <2> QED
    BY <2>2, <2>3, <2>4 DEF TreesInv
<1>6. CASE ~(Start(q) \/ DeleteSubmission(q) \/ FindTrees(q) \/ DeleteTrees(q) \/ ApplyPlan(q))
  <2>1. /\ UNCHANGED <<subs, treeVars, planTree>>
        /\ pc[q] \notin {"start", "done"} \cup Looking /\ pc'[q] \notin {"start", "done"} \cup Looking
    <3>1. CASE Inspected(q) \/ NextLoop(q, "results", "records", gone[q])
                            \/ NextLoop(q, "records", "fix", kept[q])
      BY <3>1 DEF Inspected, NextLoop, TypeOK, docVars, Looking
    <3>2. CASE \E f \in Files : Inspect(q, f) \/ FixRead(q, f)
      BY <3>2 DEF Inspect, FixRead, TypeOK, docVars, Looking
    <3>3. CASE EraseBlob(q) \/ \E f \in Files : EraseResults(q, f) \/ EraseRecord(q, f)
      BY <3>3 DEF EraseBlob, EraseResults, EraseRecord, TypeOK, Looking
    <3>4. CASE FixResults(q) \/ FixFile(q) \/ FixSupp(q)
      BY <3>4 DEF FixResults, FixFile, FixSupp, TypeOK, Looking
    <3> QED
      BY <1>6, <3>1, <3>2, <3>3, <3>4 DEF DeleterStep
  <2> QED
    BY <1>0, <2>1, TreesFrame
<1> QED
  BY <1>1, <1>2, <1>3, <1>4, <1>5, <1>6

LEMMA TreesView ==
  ASSUME NEW s \in Viewed, TypeOK, TreesInv, ViewStep(s)
  PROVE  TreesInv'
<1>0. s \in Sids /\ UNCHANGED <<subs, pc, planTree>>
  BY TreeAssumption DEF ViewStep, ReadSubmission, MakeTree, SaveTree, jobVars
<1>1. CASE ReadSubmission(s) \/ MakeTree(s)
  <2>1. /\ UNCHANGED <<trees, missed>>
        /\ s \in subs \/ view[s] # "none"
        /\ \A t \in Viewed \ {s} : view'[t] = view[t]
    BY <1>1 DEF ReadSubmission, MakeTree, TypeOK
  <2> QED
    <3>1. LookInv' /\ LeftInv'
      BY <1>0, <2>1 DEF TreesInv, LookInv, LeftInv, BulkWork
    <3>2. ViewInv'
      BY <1>0, <2>1 DEF TreesInv, ViewInv
    <3> QED
      BY <3>1, <3>2 DEF TreesInv
<1>2. CASE SaveTree(s)
  <2>1. /\ view[s] = "made" /\ trees' = trees \cup {s} /\ missed \subseteq missed'
        /\ view'[s] = "none" /\ \A t \in Viewed \ {s} : view'[t] = view[t]
        /\ \A p \in Deleters : Target[p] = s /\ Looked(p) => s \in missed'
    BY <1>2 DEF SaveTree, TypeOK
  <2>2. LookInv'
    BY <1>0, <2>1 DEF TreesInv, LookInv, BulkWork, Looked
  <2>3. ViewInv'
    BY <1>0, <2>1 DEF TreesInv, ViewInv
  <2>4. LeftInv'
    <3>1. s \in subs \cup missed' \/ \E p \in Deleters : Target[p] = s /\ pc[p] \in Looking
      BY <2>1 DEF TreesInv, ViewInv, Looked, Looking
    <3> QED
      BY <1>0, <2>1, <3>1 DEF TreesInv, LeftInv
  <2> QED
    BY <2>2, <2>3, <2>4 DEF TreesInv
<1> QED
  BY <1>1, <1>2 DEF ViewStep

LEMMA TreesNext ==
  ASSUME TypeOK, TreesInv, [Next]_vars
  PROVE  TreesInv'
<1>1. ASSUME NEW q \in Deleters, DeleterStep(q) PROVE TreesInv'
  BY <1>1, TreesDeleter
<1>2. ASSUME NEW q \in Deleters, Crash(q) PROVE TreesInv'
  <2>1. /\ UNCHANGED <<subs, trees, view, planTree>> /\ missed \subseteq missed'
        /\ pc[q] # "done" /\ pc'[q] = "start" /\ \A r \in Deleters \ {q} : pc'[r] = pc[r]
        /\ pc[q] \in Looking => Target[q] \in missed'
    BY <1>2 DEF Crash, TypeOK, Looking
  <2>2. LookInv'
    BY <2>1 DEF TreesInv, LookInv, Looking, BulkWork
  <2>3. ViewInv'
    BY <2>1 DEF TreesInv, ViewInv
  <2>4. LeftInv'
    BY <2>1 DEF TreesInv, LeftInv
  <2> QED
    BY <2>2, <2>3, <2>4 DEF TreesInv
<1>3. ASSUME subs \subseteq subs', UNCHANGED <<trees, view, missed, pc, planTree>> PROVE TreesInv'
  BY <1>3 DEF TreesInv, LookInv, ViewInv, LeftInv, BulkWork
<1>4. ASSUME NEW s \in Imported, ImportStep(s) PROVE TreesInv'
  <2>1. subs \subseteq subs' /\ UNCHANGED <<trees, view, missed, pc, planTree>>
    BY <1>4
    DEF ImportStep, CheckSubmission, ImportSubmission, ImportFile, ImportBlob, ImportResults,
        jobVars, docVars
  <2> QED
    BY <2>1, <1>3
<1>5. ASSUME NEW s \in Viewed, ViewStep(s) PROVE TreesInv'
  BY <1>5, TreesView
<1>6. CASE Refresh \/ RefreshTrees \/ UNCHANGED vars
  <2>1. subs \subseteq subs' /\ UNCHANGED <<trees, view, missed, pc, planTree>>
    BY <1>6 DEF Refresh, RefreshTrees, vars, docVars, jobVars
  <2> QED
    BY <2>1, <1>3
<1> QED
  BY <1>1, <1>2, <1>4, <1>5, <1>6 DEF Next, AllDone

(***************************************************************************)
(* A tree that is left of a deleted submission is one that no search of    *)
(* the deletions could find, for any number of deletions in both variants, *)
(* with any number of crashes and imports.                                 *)
(***************************************************************************)
THEOREM NoFindableTreeStays == Spec => []FindableTreesDeleted
<1>1. Init => TreesInv
  BY DEF Init, TreesInv, LookInv, ViewInv, LeftInv, Looking, BulkWork
<1>2. TypeOK /\ TreesInv /\ [Next]_vars => TreesInv'
  BY TreesNext
<1>3. TreesInv => FindableTreesDeleted
  BY DEF TreesInv, LeftInv, FindableTreesDeleted, Finished, Looking
<1> QED
  BY <1>1, <1>2, <1>3, TreeTypeCorrect, PTL DEF Spec
-----------------------------------------------------------------------------
(***************************************************************************)
(* Leftovers, for one deletion.  What a file has is either needed by       *)
(* another submission, or erased by the loops that have gone over it.      *)
(***************************************************************************)
Alone(p) == Deleters = {p} /\ Target[p] \notin Imported

\* A repetition finds the supplementary files again: the results that name
\* them are there until the plan is applied, or there are none.
Resumable(p) == MaxCrashes = 0 \/ p \in Bulk \/ \A f \in Files : Supp[f] = {}

Others(p) == subs \ {Target[p]}
Elsewhere(p, f) == \E s \in Others(p) : f \in Needs(s)

\* What the deletion was to erase of f is gone, or it is another's.
ResGone(p, f)  == res[f] = Absent \/ Users(Others(p), f) # {}
RecGone(p, f)  == p \in Bulk \/ rec[f] = Absent \/ Elsewhere(p, f)
BlobGone(p, f) == f \notin blob \/ Elsewhere(p, f)

\* f was found elsewhere, or it is going, with its supplementary files.
Settled(p, f) == Users(Others(p), f) # {} \/ {f} \cup Supp[f] \subseteq gone[p]

ImportInv(p) ==
  /\ visible \subseteq subs \cup {Target[p]}
  /\ \A s \in Imported :
       imp[s] \notin {"check", "save", "done"} =>
         /\ s \in subs /\ impTodo[s] \subseteq Needs(s)
         /\ imp[s] \in Files => imp[s] \in Needs(s)

OwnedInv ==
  \A f \in Files :
    /\ rec[f] # Absent \/ f \in blob => \E s \in subs : f \in Needs(s)
    /\ res[f] # Absent => Users(subs, f) # {}

SortInv(p) ==
  /\ Working(p) => Target[p] \in subs
  /\ pc[p] \in {"trees", "deltrees", "done"} => Target[p] \notin subs
  /\ (pc[p] \in {"start", "inspect"} \/ p \in Bulk) /\ Target[p] \in subs =>
       \A f \in SubFiles[Target[p]] : Supp[f] = {} \/ res[f] # Absent
  /\ Working(p) =>
       \A f \in SubFiles[Target[p]] : Settled(p, f) \/ (pc[p] = "inspect" /\ f \in todo[p])

EraseInv(p) ==
  LET Own     == SubFiles[Target[p]] \cap gone[p]
      Pending == IF pc[p] \in {"records", "blob"} THEN todo[p] ELSE {}
  IN
  /\ pc[p] = "results" => p \notin Bulk /\ \A f \in Own \ todo[p] : ResGone(p, f)
  /\ Working(p) /\ pc[p] \notin {"inspect", "results"} =>
       /\ p \notin Bulk => \A f \in Own : ResGone(p, f)
       /\ \A f \in gone[p] \ Pending : RecGone(p, f) /\ BlobGone(p, f)
  /\ pc[p] = "blob" => RecGone(p, cur[p])

OrphanInv(p) == ImportInv(p) /\ OwnedInv /\ SortInv(p) /\ EraseInv(p)

\* A step in which no submission goes, and no document appears that is not of
\* another submission.
NoneNew(p) ==
  /\ subs \subseteq subs' /\ (Target[p] \in subs' => Target[p] \in subs)
  /\ \A f \in Files :
       /\ rec'[f] # Absent => rec[f] # Absent \/ Elsewhere(p, f)'
       /\ f \in blob' => f \in blob \/ Elsewhere(p, f)'
       /\ res'[f] # Absent => res[f] # Absent \/ (Users(Others(p), f) # {})'

LEMMA NoneNewKeeps ==
  ASSUME NEW p \in Deleters, NoneNew(p)
  PROVE  /\ OwnedInv => OwnedInv'
         /\ \A f \in Files : /\ ResGone(p, f) => ResGone(p, f)'
                             /\ RecGone(p, f) => RecGone(p, f)'
                             /\ BlobGone(p, f) => BlobGone(p, f)'
         /\ \A f : gone[p] \subseteq gone'[p] /\ Settled(p, f) => Settled(p, f)'
<1>1. Others(p) \subseteq Others(p)'
  BY DEF NoneNew, Others
<1>2. \A f : Elsewhere(p, f) => Elsewhere(p, f)'
  BY <1>1 DEF Elsewhere, Needs
<1>3. \A f : Users(Others(p), f) # {} => (Users(Others(p), f) # {})'
  BY <1>1 DEF Users
<1>4. \A f : Elsewhere(p, f)' => (\E s \in subs : f \in Needs(s))'
  BY DEF Elsewhere, Others
<1>5. \A f : (Users(Others(p), f) # {})' => (Users(subs, f) # {})'
  BY DEF Users, Others
<1>6. OwnedInv => OwnedInv'
  BY <1>4, <1>5 DEF NoneNew, OwnedInv, Users, Needs
<1>7. \A f \in Files : /\ ResGone(p, f) => ResGone(p, f)'
                       /\ RecGone(p, f) => RecGone(p, f)'
                       /\ BlobGone(p, f) => BlobGone(p, f)'
  BY <1>2, <1>3 DEF NoneNew, ResGone, RecGone, BlobGone
<1>8. \A f : gone[p] \subseteq gone'[p] /\ Settled(p, f) => Settled(p, f)'
  BY <1>3 DEF Settled
<1> QED
  BY <1>6, <1>7, <1>8

\* A step of somebody else.
LEMMA OrphanFrame ==
  ASSUME NEW p \in Deleters, TypeOK, OrphanInv(p), NoneNew(p), UNCHANGED jobVars,
         \A f \in Files : res[f] # Absent => res'[f] # Absent
  PROVE  OwnedInv' /\ SortInv(p)' /\ EraseInv(p)'
<1>1. /\ UNCHANGED <<pc, todo, gone, cur>>
      /\ SubFiles[Target[p]] \subseteq Files /\ gone[p] \subseteq Files /\ cur[p] \in Files
  BY TreeAssumption DEF jobVars, fixVars, TypeOK
<1>2. OwnedInv' /\ \A f : Settled(p, f) => Settled(p, f)'
  BY <1>1, NoneNewKeeps DEF OrphanInv
<1>3. \A f \in Files : /\ ResGone(p, f) => ResGone(p, f)'
                       /\ RecGone(p, f) => RecGone(p, f)'
                       /\ BlobGone(p, f) => BlobGone(p, f)'
  BY NoneNewKeeps
<1>4. SortInv(p)'
  BY <1>1, <1>2 DEF OrphanInv, SortInv, NoneNew, Working
<1>5. EraseInv(p)'
  BY <1>1, <1>3 DEF OrphanInv, EraseInv, Working
<1> QED
  BY <1>2, <1>4, <1>5

LEMMA OrphanInit ==
  ASSUME NEW p \in Deleters, Alone(p), Init
  PROVE  OrphanInv(p)
<1>1. Target[p] \in subs
  BY TreeAssumption DEF Alone, Init
<1>2. \A f \in SubFiles[Target[p]] : res[f] # Absent
  <2> SUFFICES ASSUME NEW f \in SubFiles[Target[p]] PROVE res[f] # Absent
    OBVIOUS
  <2>1. f \in Files /\ Users(subs, f) # {}
    BY <1>1, TreeAssumption DEF Users
  <2>2. LeastRestricted(Users(subs, f)) # Absent
    BY TreeAssumption DEF LeastRestricted, Class
  <2> QED
    BY <2>1, <2>2 DEF Init
<1>3. OwnedInv
  BY DEF Init, OwnedInv
<1>4. SortInv(p) /\ EraseInv(p)
  BY <1>1, <1>2 DEF Init, SortInv, EraseInv, Working
<1>5. ImportInv(p)
  BY DEF Init, ImportInv
<1> QED
  BY <1>3, <1>4, <1>5 DEF OrphanInv

LEMMA OrphanImport ==
  ASSUME NEW p \in Deleters, Alone(p), TypeOK, OrphanInv(p), NEW s \in Imported, ImportStep(s)
  PROVE  OrphanInv(p)'
<1>1. /\ s \in Sids /\ s # Target[p] /\ UNCHANGED jobVars /\ visible' = visible
      /\ Needs(s) \subseteq Files /\ SubClass[s] # Absent
      /\ subs \subseteq subs' /\ (Target[p] \in subs' => Target[p] \in subs)
  BY TreeAssumption, NeedsType
  DEF Alone, ImportStep, CheckSubmission, ImportSubmission, ImportFile, ImportBlob, ImportResults,
      docVars
<1>2. /\ \A t \in Imported : t # s => imp'[t] = imp[t] /\ impTodo'[t] = impTodo[t]
      /\ imp'[s] \notin {"check", "save", "done"} =>
           /\ s \in subs' /\ impTodo'[s] \subseteq Needs(s)
           /\ imp'[s] \in Files => imp'[s] \in Needs(s)
  <2>1. CASE CheckSubmission(s) \/ ImportSubmission(s)
    BY <1>1, <2>1, TreeAssumption DEF CheckSubmission, ImportSubmission, TypeOK
  <2>2. CASE \E f \in Files : ImportFile(s, f)
    <3>1. PICK f \in Files : ImportFile(s, f)
      BY <2>2
    <3> QED
      BY <1>1, <3>1, TreeAssumption DEF ImportFile, TypeOK, OrphanInv, ImportInv
  <2>3. CASE ImportBlob(s)
    BY <1>1, <2>3, TreeAssumption DEF ImportBlob, TypeOK, OrphanInv, ImportInv
  <2>4. CASE ImportResults(s)
    BY <1>1, <2>4 DEF ImportResults, TypeOK
  <2> QED
    BY <2>1, <2>2, <2>3, <2>4 DEF ImportStep
<1>3. ImportInv(p)'
  BY <1>1, <1>2 DEF OrphanInv, ImportInv
<1>4. imp[s] \notin {"check", "save", "done"} => s \in Others(p)'
  BY <1>1 DEF OrphanInv, ImportInv, Others
<1>5. /\ NoneNew(p)
      /\ \A f \in Files : res[f] # Absent => res'[f] # Absent
  <2>1. CASE CheckSubmission(s) \/ ImportSubmission(s)
    BY <1>1, <2>1 DEF CheckSubmission, ImportSubmission, NoneNew, docVars
  <2>2. CASE \E f \in Files : ImportFile(s, f)
    <3>1. PICK f \in Files : ImportFile(s, f)
      BY <2>2
    <3>2. /\ UNCHANGED <<blob, res>> /\ \A g \in Files : g # f => rec'[g] = rec[g]
          /\ imp[s] = "files" /\ f \in Needs(s)
      BY <3>1, TreeAssumption DEF ImportFile, OrphanInv, ImportInv, TypeOK
    <3>3. Elsewhere(p, f)'
      BY <1>4, <3>2 DEF Elsewhere, Needs
    <3> QED
      BY <1>1, <3>2, <3>3 DEF NoneNew
  <2>3. CASE ImportBlob(s)
    <3>1. PICK f \in Files : f = imp[s] /\ blob' \subseteq blob \cup {f} /\ UNCHANGED <<rec, res>>
      BY <2>3 DEF ImportBlob
    <3>2. f \in Needs(s) /\ s \in Others(p)'
      BY <1>4, <3>1, TreeAssumption DEF OrphanInv, ImportInv
    <3>3. Elsewhere(p, f)'
      BY <3>2 DEF Elsewhere, Needs
    <3> QED
      BY <1>1, <3>1, <3>3 DEF NoneNew
  <2>4. CASE ImportResults(s)
    <3>1. /\ UNCHANGED <<rec, blob>> /\ imp[s] = "files"
          /\ \A f \in Files : res'[f] = IF f \in SubFiles[s] THEN SubClass[s] ELSE res[f]
      BY <2>4 DEF ImportResults
    <3>2. \A f \in SubFiles[s] : (Users(Others(p), f) # {})'
      BY <1>4, <3>1 DEF Users
    <3> QED
      BY <1>1, <3>1, <3>2 DEF NoneNew
  <2> QED
    BY <2>1, <2>2, <2>3, <2>4 DEF ImportStep
<1> QED
  BY <1>1, <1>3, <1>5, OrphanFrame DEF OrphanInv

\* A file found in two submissions is in another one than the target.
LEMMA FoundElsewhere ==
  ASSUME NEW p \in Deleters, NEW f \in Files, TypeOK,
         visible \subseteq subs, ~UsedOnce(f)
  PROVE  Users(Others(p), f) # {}
<1> DEFINE us == Users(visible, f)
<1>1. IsFiniteSet(us) /\ Cardinality(us) >= 2
  <2>1. IsFiniteSet(us)
    BY TreeAssumption, FS_Subset DEF Users, TypeOK
  <2> QED
    BY <2>1, FS_CardinalityType DEF UsedOnce
<1>2. ~(us \subseteq {Target[p]})
  <2> SUFFICES ASSUME us \subseteq {Target[p]} PROVE FALSE
    OBVIOUS
  <2>1. Cardinality(us) <= Cardinality({Target[p]}) /\ Cardinality({Target[p]}) = 1
    BY FS_Singleton, FS_Subset
  <2> QED
    BY <1>1, <2>1, FS_CardinalityType
<1> QED
  BY <1>2 DEF Users, Others

\* The steps that decide.
LEMMA OrphanPlan ==
  ASSUME NEW p \in Deleters, Alone(p), Resumable(p), TypeOK, OrphanInv(p),
         \/ Start(p) \/ Inspected(p) \/ NextLoop(p, "results", "records", gone[p])
         \/ NextLoop(p, "records", "fix", kept[p])
         \/ \E f \in Files : Inspect(p, f) \/ FixRead(p, f)
  PROVE  OrphanInv(p)'
<1>1. UNCHANGED <<subs, visible, rec, res, blob, impVars>>
  BY DEF Start, Inspected, NextLoop, Inspect, FixRead, docVars
<1>2. ImportInv(p)' /\ OwnedInv'
  BY <1>1 DEF OrphanInv, ImportInv, OwnedInv, impVars, Users, Needs
<1>3. /\ SubFiles[Target[p]] \subseteq Files /\ gone[p] \subseteq Files
      /\ ImportInv(p) /\ OwnedInv /\ SortInv(p) /\ EraseInv(p)
  BY TreeAssumption DEF TypeOK, OrphanInv
<1>4. \A f : /\ ResGone(p, f) => ResGone(p, f)'
             /\ RecGone(p, f) => RecGone(p, f)'
             /\ BlobGone(p, f) => BlobGone(p, f)'
             /\ gone[p] \subseteq gone'[p] /\ Settled(p, f) => Settled(p, f)'
  BY <1>1 DEF ResGone, RecGone, BlobGone, Settled, Elsewhere, Others, Needs, Users
<1>5. CASE Start(p)
  <2>1. /\ pc[p] = "start" /\ pc'[p] = IF Target[p] \in subs THEN "inspect" ELSE "done"
        /\ todo'[p] = SubFiles[Target[p]] /\ gone'[p] = {}
    BY <1>5 DEF Start, TypeOK
  <2>2. SortInv(p)'
    BY <1>1, <1>3, <2>1 DEF SortInv, Working
  <2>3. EraseInv(p)'
    BY <2>1 DEF EraseInv, Working
  <2> QED
    BY <1>2, <2>2, <2>3 DEF OrphanInv
<1>6. CASE Inspected(p)
  <2>1. /\ pc[p] = "inspect" /\ todo[p] = {} /\ gone' = gone
        /\ pc'[p] = IF p \in Bulk THEN "records" ELSE "results"
        /\ todo'[p] = IF p \in Bulk THEN gone[p] ELSE SubFiles[Target[p]] \cap gone[p]
    BY <1>6 DEF Inspected, NextLoop, TypeOK
  <2>2. SortInv(p)'
    BY <1>1, <1>3, <1>4, <2>1 DEF SortInv, Working
  <2>3. EraseInv(p)'
    BY <2>1 DEF EraseInv, Working
  <2> QED
    BY <1>2, <2>2, <2>3 DEF OrphanInv
<1>7. CASE NextLoop(p, "results", "records", gone[p])
  <2>1. /\ pc[p] = "results" /\ todo[p] = {} /\ gone' = gone
        /\ pc'[p] = "records" /\ todo'[p] = gone[p]
    BY <1>7 DEF NextLoop, TypeOK
  <2>2. SortInv(p)'
    BY <1>1, <1>3, <1>4, <2>1 DEF SortInv, Working
  <2>3. EraseInv(p)'
    BY <1>3, <1>4, <2>1 DEF EraseInv, Working
  <2> QED
    BY <1>2, <2>2, <2>3 DEF OrphanInv
<1>8. CASE NextLoop(p, "records", "fix", kept[p])
  <2>1. pc[p] = "records" /\ todo[p] = {} /\ gone' = gone /\ pc'[p] = "fix"
    BY <1>8 DEF NextLoop, TypeOK
  <2>2. SortInv(p)'
    BY <1>1, <1>3, <1>4, <2>1 DEF SortInv, Working
  <2>3. EraseInv(p)'
    BY <1>3, <1>4, <2>1 DEF EraseInv, Working
  <2> QED
    BY <1>2, <2>2, <2>3 DEF OrphanInv
<1>9. ASSUME NEW f \in Files, Inspect(p, f) PROVE OrphanInv(p)'
  <2> DEFINE sl == IF res[f] # Absent THEN Supp[f] ELSE {}
  <2>1. /\ pc[p] = "inspect" /\ pc' = pc /\ f \in todo[p] /\ todo'[p] = todo[p] \ {f}
        /\ \/ gone'[p] = gone[p] \cup {f} \cup sl
           \/ ~UsedOnce(f) /\ gone'[p] = gone[p]
    BY <1>9 DEF Inspect, TypeOK
  <2>2. Target[p] \in subs /\ visible \subseteq subs
    BY <1>3, <2>1 DEF SortInv, ImportInv, Working
  <2>3. f \in SubFiles[Target[p]] => sl = Supp[f]
    BY <1>3, <2>1, <2>2 DEF SortInv
  <2>4. f \in SubFiles[Target[p]] => Settled(p, f)'
    <3>1. CASE gone'[p] = gone[p] \cup {f} \cup sl
      BY <2>3, <3>1 DEF Settled
    <3>2. CASE ~UsedOnce(f) /\ gone'[p] = gone[p]
      BY <1>1, <2>2, <3>2, FoundElsewhere DEF Settled, Others, Users
    <3> QED
      BY <2>1, <3>1, <3>2
  <2>5. gone[p] \subseteq gone'[p]
    BY <2>1
  <2> HIDE DEF sl
  <2>6. SortInv(p)'
    BY <1>1, <1>3, <1>4, <2>1, <2>2, <2>4, <2>5 DEF SortInv, Working
  <2>7. EraseInv(p)'
    BY <2>1 DEF EraseInv, Working
  <2> QED
    BY <1>2, <2>6, <2>7 DEF OrphanInv
<1>10. ASSUME NEW f \in Files, FixRead(p, f) PROVE OrphanInv(p)'
  <2>1. pc[p] = "fix" /\ gone' = gone /\ pc'[p] \in {"fix", "fixresults"}
    BY <1>10 DEF FixRead, TypeOK
  <2>2. SortInv(p)'
    BY <1>1, <1>3, <1>4, <2>1 DEF SortInv, Working
  <2>3. EraseInv(p)'
    BY <1>3, <1>4, <2>1 DEF EraseInv, Working
  <2> QED
    BY <1>2, <2>2, <2>3 DEF OrphanInv
<1> QED
  BY <1>5, <1>6, <1>7, <1>8, <1>9, <1>10

\* The steps that erase.
LEMMA OrphanErase ==
  ASSUME NEW p \in Deleters, Alone(p), Resumable(p), TypeOK, OrphanInv(p),
         EraseBlob(p) \/ \E f \in Files : EraseResults(p, f) \/ EraseRecord(p, f)
  PROVE  OrphanInv(p)'
<1>1. /\ UNCHANGED <<subs, visible, gone, impVars>>
      /\ \A f \in Files : /\ rec'[f] # Absent => rec[f] # Absent
                          /\ f \in blob' => f \in blob
                          /\ res'[f] # Absent => res[f] # Absent
  BY DEF EraseBlob, EraseResults, EraseRecord, Erase
<1>2. NoneNew(p)
  BY <1>1 DEF NoneNew
<1>3. /\ SubFiles[Target[p]] \subseteq Files /\ gone[p] \subseteq Files /\ cur[p] \in Files
      /\ ImportInv(p) /\ OwnedInv /\ SortInv(p) /\ EraseInv(p)
  BY TreeAssumption DEF TypeOK, OrphanInv
<1>4. ImportInv(p)' /\ OwnedInv'
  BY <1>1, <1>2, <1>3, NoneNewKeeps DEF ImportInv, impVars, Needs
<1>5. \A f \in Files : /\ ResGone(p, f) => ResGone(p, f)'
                       /\ RecGone(p, f) => RecGone(p, f)'
                       /\ BlobGone(p, f) => BlobGone(p, f)'
                       /\ Settled(p, f) => Settled(p, f)'
  BY <1>1, <1>2, NoneNewKeeps
<1>6. CASE EraseBlob(p)
  <2>1. /\ pc[p] = "blob" /\ pc'[p] = "records" /\ UNCHANGED <<res, rec, cur>>
        /\ todo'[p] = todo[p] \ {cur[p]} /\ blob' = blob \ {cur[p]}
    BY <1>6 DEF EraseBlob, TypeOK, fixVars
  <2>2. SortInv(p)'
    BY <1>1, <1>3, <1>5, <2>1 DEF SortInv, Working
  <2>3. BlobGone(p, cur[p])' /\ RecGone(p, cur[p])'
    <3>1. RecGone(p, cur[p])
      BY <1>3, <2>1 DEF EraseInv
    <3> QED
      BY <1>3, <1>5, <2>1, <3>1 DEF BlobGone, RecGone, Elsewhere
  <2>4. \A f \in gone[p] \ todo'[p] : RecGone(p, f)' /\ BlobGone(p, f)'
    <3> SUFFICES ASSUME NEW f \in gone[p] \ todo'[p] PROVE RecGone(p, f)' /\ BlobGone(p, f)'
      OBVIOUS
    <3>1. CASE f = cur[p]
      BY <2>1, <2>3, <3>1 DEF RecGone, BlobGone
    <3>2. CASE f \notin todo[p]
      BY <1>3, <1>5, <2>1, <3>2 DEF EraseInv, Working
    <3> QED
      BY <2>1, <3>1, <3>2
  <2>5. EraseInv(p)'
    BY <1>1, <1>3, <1>5, <2>1, <2>4 DEF EraseInv, Working
  <2> QED
    BY <1>4, <2>2, <2>5 DEF OrphanInv
<1>7. ASSUME NEW f \in Files, EraseResults(p, f) PROVE OrphanInv(p)'
  <2>1. /\ pc[p] = "results" /\ pc' = pc /\ res'[f] = Absent /\ todo'[p] = todo[p] \ {f}
        /\ p \notin Bulk
    BY <1>3, <1>7 DEF EraseResults, TypeOK, Erase, EraseInv
  <2>2. ResGone(p, f)'
    BY <2>1 DEF ResGone
  <2>3. SortInv(p)'
    BY <1>1, <1>3, <1>5, <2>1 DEF SortInv, Working
  <2>4. EraseInv(p)'
    BY <1>1, <1>3, <1>5, <2>1, <2>2 DEF EraseInv, Working
  <2> QED
    BY <1>4, <2>3, <2>4 DEF OrphanInv
<1>8. ASSUME NEW f \in Files, EraseRecord(p, f) PROVE OrphanInv(p)'
  <2>1. /\ pc[p] = "records" /\ pc'[p] = "blob" /\ todo' = todo /\ cur'[p] = f
        /\ UNCHANGED <<res, blob>> /\ (p \in Bulk \/ rec'[f] = Absent)
    BY <1>8 DEF EraseRecord, TypeOK, Erase
  <2>2. RecGone(p, f)'
    BY <2>1 DEF RecGone
  <2>3. SortInv(p)'
    BY <1>1, <1>3, <1>5, <2>1 DEF SortInv, Working
  <2>4. EraseInv(p)'
    BY <1>1, <1>3, <1>5, <2>1, <2>2 DEF EraseInv, Working, RecGone
  <2> QED
    BY <1>4, <2>3, <2>4 DEF OrphanInv
<1> QED
  BY <1>6, <1>7, <1>8

\* The steps that reclassify: what is there stays, nothing appears.
LEMMA OrphanFix ==
  ASSUME NEW p \in Deleters, Alone(p), Resumable(p), TypeOK, OrphanInv(p),
         FixResults(p) \/ FixFile(p) \/ FixSupp(p)
  PROVE  OrphanInv(p)'
<1>1. /\ UNCHANGED <<subs, visible, blob, gone, impVars, todo, cur>>
      /\ pc[p] \in {"fixresults", "fixfile", "fixsupp"}
      /\ pc'[p] \in {"fixfile", "fixsupp", "fix"}
      /\ p \in Bulk => res' = res
      /\ \A f \in Files : /\ rec'[f] # Absent => rec[f] # Absent
                          /\ res'[f] # Absent => res[f] # Absent
  BY DEF FixResults, FixFile, FixSupp, Assign, Reclassify, TypeOK, fixVars
<1>2. NoneNew(p)
  BY <1>1 DEF NoneNew
<1>3. /\ SubFiles[Target[p]] \subseteq Files /\ gone[p] \subseteq Files
      /\ ImportInv(p) /\ OwnedInv /\ SortInv(p) /\ EraseInv(p)
  BY TreeAssumption DEF TypeOK, OrphanInv
<1>4. ImportInv(p)' /\ OwnedInv'
  BY <1>1, <1>2, <1>3, NoneNewKeeps DEF ImportInv, impVars, Needs
<1>5. \A f \in Files : /\ ResGone(p, f) => ResGone(p, f)'
                       /\ RecGone(p, f) => RecGone(p, f)'
                       /\ BlobGone(p, f) => BlobGone(p, f)'
                       /\ Settled(p, f) => Settled(p, f)'
  BY <1>1, <1>2, NoneNewKeeps
<1>6. SortInv(p)'
  BY <1>1, <1>3, <1>5 DEF SortInv, Working
<1>7. EraseInv(p)'
  BY <1>1, <1>3, <1>5 DEF EraseInv, Working
<1> QED
  BY <1>4, <1>6, <1>7 DEF OrphanInv

\* When the submission goes, what is left is of others.
LEMMA AllSettled ==
  ASSUME NEW p \in Deleters, TypeOK, OrphanInv(p), pc[p] = "fix"
  PROVE  /\ \A f \in Files : Elsewhere(p, f) \/ f \in gone[p]
                              \/ (rec[f] = Absent /\ f \notin blob)
         /\ \A f \in Files : Users(Others(p), f) # {} \/ f \in SubFiles[Target[p]] \cap gone[p]
                              \/ res[f] = Absent
<1>1. /\ Target[p] \in subs /\ OwnedInv
      /\ \A f \in SubFiles[Target[p]] : Settled(p, f)
  BY DEF OrphanInv, SortInv, Working
<1>2. ASSUME NEW f \in Files, f \in Needs(Target[p]) PROVE Elsewhere(p, f) \/ f \in gone[p]
  <2>1. PICK g \in SubFiles[Target[p]] : f \in {g} \cup Supp[g]
    BY <1>2 DEF Needs
  <2>2. Settled(p, g)
    BY <1>1
  <2>3. CASE Users(Others(p), g) # {}
    BY <2>1, <2>3 DEF Users, Elsewhere, Needs
  <2> QED
    BY <2>1, <2>2, <2>3 DEF Settled
<1>3. \A f \in Files : (\E s \in subs : f \in Needs(s)) => Elsewhere(p, f) \/ f \in Needs(Target[p])
  BY DEF Elsewhere, Others
<1>4. \A f \in Files : Users(subs, f) # {} => Users(Others(p), f) # {} \/ f \in SubFiles[Target[p]]
  BY DEF Users, Others
<1>5. \A f \in SubFiles[Target[p]] : Users(Others(p), f) # {} \/ f \in gone[p]
  BY <1>1 DEF Settled
<1> QED
  BY <1>1, <1>2, <1>3, <1>4, <1>5 DEF OwnedInv

LEMMA OrphanEnd ==
  ASSUME NEW p \in Deleters, Alone(p), Resumable(p), TypeOK, OrphanInv(p),
         DeleteSubmission(p) \/ FindTrees(p) \/ DeleteTrees(p) \/ ApplyPlan(p) \/ Crash(p)
  PROVE  OrphanInv(p)'
<1>1. /\ UNCHANGED <<visible, impVars, gone>> /\ pc'[p] \in {"start", "trees", "deltrees", "done"}
      /\ subs' \in {subs, subs \ {Target[p]}}
      /\ Target[p] \notin Imported
  BY DEF DeleteSubmission, FindTrees, DeleteTrees, ApplyPlan, Crash, docVars, TypeOK, Alone
<1>2. ImportInv(p) /\ OwnedInv /\ SortInv(p) /\ EraseInv(p)
  BY DEF OrphanInv
<1>3. ImportInv(p)'
  BY <1>1, <1>2 DEF ImportInv, impVars, Needs
<1>4. EraseInv(p)'
  BY <1>1 DEF EraseInv, Working
<1>5. CASE FindTrees(p) \/ DeleteTrees(p)
  <2>1. /\ pc[p] \in {"trees", "deltrees"} /\ pc'[p] \in {"deltrees", "done"}
        /\ UNCHANGED <<subs, rec, res, blob>>
    BY <1>5 DEF FindTrees, DeleteTrees, TypeOK
  <2>2. OwnedInv' /\ SortInv(p)'
    BY <1>2, <2>1 DEF OwnedInv, SortInv, Working, Users, Needs
  <2> QED
    BY <1>3, <1>4, <2>2 DEF OrphanInv
<1>6. CASE Crash(p)
  <2>1. /\ Working(p) \/ pc[p] \in {"trees", "deltrees"}
        /\ pc'[p] = "start" /\ UNCHANGED <<subs, rec, res, blob>> /\ MaxCrashes # 0
    BY <1>6, TreeAssumption DEF Crash, Working, TypeOK, docVars
  <2>2. OwnedInv'
    BY <1>2, <2>1 DEF OwnedInv, Users, Needs
  <2>3. SubFiles[Target[p]] \subseteq Files
    BY TreeAssumption
  <2>4. SortInv(p)'
    BY <1>2, <2>1, <2>3 DEF SortInv, Working, Resumable
  <2> QED
    BY <1>3, <1>4, <2>2, <2>4 DEF OrphanInv
<1>7. CASE DeleteSubmission(p) \/ ApplyPlan(p)
  <2>1. pc[p] = "fix" /\ pc'[p] \in {"trees", "deltrees", "done"} /\ subs' = Others(p) /\ blob' = blob
    BY <1>7 DEF DeleteSubmission, ApplyPlan, TypeOK, Others
  <2>2. \A f \in gone[p] : RecGone(p, f) /\ BlobGone(p, f)
    BY <1>2, <2>1 DEF EraseInv, Working
  <2>3. \A f \in Files : rec'[f] # Absent \/ f \in blob' => Elsewhere(p, f)
    <3>1. \A f \in Files : rec'[f] # Absent => rec[f] # Absent /\ (f \in gone[p] => p \notin Bulk)
      BY <1>7 DEF DeleteSubmission, ApplyPlan, Planned
    <3> QED
      BY <2>1, <2>2, <3>1, AllSettled DEF RecGone, BlobGone
  <2>4. \A f \in Files : res'[f] # Absent => Users(Others(p), f) # {}
    <3>1. CASE DeleteSubmission(p)
      <4>1. res' = res /\ \A f \in SubFiles[Target[p]] \cap gone[p] : ResGone(p, f)
        BY <1>2, <2>1, <3>1 DEF DeleteSubmission, EraseInv, Working
      <4> QED
        BY <2>1, <4>1, AllSettled DEF ResGone
    <3>2. CASE ApplyPlan(p)
      <4>1. \A f \in Files : res'[f] # Absent => /\ res[f] # Absent
                                                /\ f \notin gone[p] \cap SubFiles[Target[p]]
        BY <3>2 DEF ApplyPlan, Planned
      <4> QED
        BY <2>1, <4>1, AllSettled
    <3> QED
      BY <1>7, <3>1, <3>2
  <2>5. OwnedInv'
    BY <2>1, <2>3, <2>4 DEF OwnedInv, Elsewhere, Users, Needs
  <2>6. SortInv(p)'
    BY <2>1 DEF SortInv, Working, Others
  <2> QED
    BY <1>3, <1>4, <2>5, <2>6 DEF OrphanInv
<1> QED
  BY <1>5, <1>6, <1>7

LEMMA OrphanNext ==
  ASSUME NEW p \in Deleters, Alone(p), Resumable(p), TypeOK, OrphanInv(p), [Next]_vars
  PROVE  OrphanInv(p)'
<1>1. ASSUME NEW q \in Deleters, DeleterStep(q) \/ Crash(q) PROVE OrphanInv(p)'
  <2>1. q = p
    BY DEF Alone
  <2> QED
    BY <1>1, <2>1, OrphanPlan, OrphanErase, OrphanFix, OrphanEnd DEF DeleterStep
<1>2. ASSUME NEW s \in Imported, ImportStep(s) PROVE OrphanInv(p)'
  BY <1>2, OrphanImport
<1>3. CASE Refresh \/ RefreshTrees \/ (\E s \in Viewed : ViewStep(s)) \/ UNCHANGED vars
  <2>1. /\ UNCHANGED <<subs, rec, res, blob, jobVars, impVars>>
        /\ visible' \in {visible, subs}
    BY <1>3 DEF Refresh, RefreshTrees, ViewStep, ReadSubmission, MakeTree, SaveTree, vars, docVars
  <2>2. ImportInv(p)'
    BY <2>1 DEF OrphanInv, ImportInv, impVars, Needs
  <2>3. NoneNew(p)
    BY <2>1 DEF NoneNew
  <2> QED
    BY <2>1, <2>2, <2>3, OrphanFrame DEF OrphanInv
<1> QED
  BY <1>1, <1>2, <1>3 DEF Next, AllDone

(***************************************************************************)
(* Nothing is left of a deleted submission, however many submissions and   *)
(* files there are, whatever is imported meanwhile, in both variants, and  *)
(* when it died and was asked for again.                                   *)
(***************************************************************************)
THEOREM NothingLeftOver ==
  ASSUME NEW p \in Deleters, Alone(p), Resumable(p)
  PROVE  Spec => []NothingOrphaned
<1>1. Init => OrphanInv(p)
  BY OrphanInit
<1>2. TypeOK /\ OrphanInv(p) /\ [Next]_vars => OrphanInv(p)'
  BY OrphanNext
<1>3. TypeOK /\ OrphanInv(p) => NothingOrphaned
  <2>1. \A f \in Files : \A s \in subs : f \in SubFiles[s] => f \in Needs(s)
    BY DEF Needs
  <2> QED
    BY <2>1 DEF OrphanInv, OwnedInv, NothingOrphaned, Users
<1> QED
  BY <1>1, <1>2, <1>3, TreeTypeCorrect, PTL DEF Spec
-----------------------------------------------------------------------------
(***************************************************************************)
(* Classifications, for one deletion.  A file that another submission has  *)
(* is kept, and when the last loop has gone over it, its record has the    *)
(* classification the others give it, or the plan does.                    *)
(***************************************************************************)
\* A supplementary file is not a file of a submission as well.
SuppApart == \A f \in Files : \A k \in Supp[f] : \A s \in Sids : k \notin SubFiles[s]

\* No import has begun.
Still == \A s \in Imported : imp[s] = "check"

Want(p, f) == LeastRestricted(Users(Others(p), f))
Shared(p)  == {f \in Files : Users(Others(p), f) # {}}

SeenInv(p) ==
  /\ subs \subseteq visible /\ visible \subseteq subs \cup {Target[p]}
  /\ pc[p] \in {"trees", "deltrees", "done"} => Target[p] \notin subs
  /\ Working(p) => Target[p] \in subs

ListInv(p) == Working(p) =>
  /\ pc[p] = "inspect" => todo[p] \subseteq SubFiles[Target[p]]
  /\ pc[p] \in {"results", "records", "blob"} => todo[p] \subseteq gone[p]
  /\ \A f \in Files : supp[p][f] \subseteq Supp[f]
  /\ pc[p] \in {"fixresults", "fixfile"} => read[p] = rec[cur[p]] /\ ncls[p] = Want(p, cur[p])
  /\ pc[p] = "fixsupp" => ncls[p] \in Class

\* Where the deletion is with a file of its own and others.
Fixing == {"fix", "fixresults", "fixfile", "fixsupp"}
Place(p, f) ==
  /\ f \in kept[p] \/ (pc[p] = "inspect" /\ f \in todo[p])
  /\ pc[p] \in Fixing => \/ f \in todo[p]
                         \/ pc[p] \in {"fixresults", "fixfile"} /\ cur[p] = f
                         \/ rec[f] = Want(p, f)
                         \/ p \in Bulk /\ planRec[p][f] = Want(p, f)

SharedInv(p) ==
  \A f \in Shared(p) :
    /\ rec[f] # Absent
    /\ Target[p] \notin subs \/ f \notin SubFiles[Target[p]] => rec[f] = Want(p, f)
    /\ Working(p) => /\ f \notin gone[p]
                     /\ planRec[p][f] \in {Absent, Want(p, f)}
                     /\ f \in SubFiles[Target[p]] => Place(p, f)

ClassInv(p) == Still => SeenInv(p) /\ ListInv(p) /\ SharedInv(p)

\* A file that others have is found twice, and its class is what they want.
LEMMA SharedIsFound ==
  ASSUME NEW p \in Deleters, TypeOK, SeenInv(p), Target[p] \in subs,
         NEW f \in Shared(p), f \in SubFiles[Target[p]]
  PROVE  ~UsedOnce(f)
<1> SUFFICES ASSUME UsedOnce(f) PROVE FALSE
  OBVIOUS
<1> DEFINE us == Users(visible, f)
<1>1. PICK s \in subs : s # Target[p] /\ f \in SubFiles[s]
  BY DEF Shared, Users, Others
<1>2. {Target[p], s} \subseteq us /\ IsFiniteSet(us) /\ Cardinality(us) < 2
  <2>1. IsFiniteSet(us)
    BY TreeAssumption, FS_Subset DEF Users, TypeOK
  <2> QED
    BY <1>1, <2>1 DEF Users, SeenInv, UsedOnce
<1>3. Cardinality(us) = 1
  BY <1>2, FS_CardinalityType, FS_EmptySet
<1> QED
  BY <1>1, <1>2, <1>3, FS_Singleton

LEMMA WantType ==
  ASSUME NEW p \in Deleters, NEW f, TypeOK
  PROVE  Want(p, f) \in Class /\ Want(p, f) # Absent
<1>1. Users(Others(p), f) \subseteq Sids
  BY DEF Users, Others, TypeOK
<1> QED
  BY <1>1, ClassTypes, TreeAssumption DEF Want

\* A step that takes no submission away changes nothing others want.
LEMMA WantFrame ==
  ASSUME NEW p \in Deleters, subs' = subs
  PROVE  Shared(p)' = Shared(p) /\ \A f : Want(p, f)' = Want(p, f)
BY DEF Shared, Want, Others, Users, LeastRestricted

LEMMA ClassInit ==
  ASSUME NEW p \in Deleters, Alone(p), SuppApart, Init
  PROVE  ClassInv(p)
<1>1. Target[p] \in subs /\ subs \subseteq Sids
  BY TreeAssumption DEF Alone, Init
<1>2. SeenInv(p) /\ ListInv(p)
  BY <1>1 DEF Init, SeenInv, ListInv, Working
<1>3. ASSUME NEW f \in Shared(p)
      PROVE  rec[f] # Absent /\ (f \notin SubFiles[Target[p]] => rec[f] = Want(p, f))
  <2>1. PICK s \in subs : f \in SubFiles[s]
    BY DEF Shared, Users, Others
  <2>2. {t \in subs : f \in Needs(t)} = Users(subs, f)
    BY <1>1, <2>1, TreeAssumption DEF Needs, Users, SuppApart
  <2>3. rec[f] = LeastRestricted(Users(subs, f))
    BY <2>1, <2>2 DEF Init, Shared, Users
  <2>4. LeastRestricted(Users(subs, f)) # Absent
    BY TreeAssumption DEF LeastRestricted, Class
  <2>5. f \notin SubFiles[Target[p]] => Users(subs, f) = Users(Others(p), f)
    BY DEF Users, Others
  <2> QED
    BY <2>3, <2>4, <2>5 DEF Want
<1>4. SharedInv(p)
  BY <1>1, <1>3 DEF Init, SharedInv, Working
<1> QED
  BY <1>2, <1>4 DEF ClassInv

\* The steps that decide.
LEMMA ClassPlan ==
  ASSUME NEW p \in Deleters, Alone(p), SuppApart, TypeOK, SeenInv(p), ListInv(p), SharedInv(p),
         \/ Start(p) \/ Inspected(p) \/ NextLoop(p, "results", "records", gone[p])
         \/ NextLoop(p, "records", "fix", kept[p])
         \/ \E f \in Files : Inspect(p, f) \/ FixRead(p, f)
  PROVE  SeenInv(p)' /\ ListInv(p)' /\ SharedInv(p)'
<1>1. UNCHANGED <<subs, visible, rec>>
  BY DEF Start, Inspected, NextLoop, Inspect, FixRead, docVars
<1>2. Shared(p)' = Shared(p) /\ \A f : Want(p, f)' = Want(p, f)
  BY <1>1, WantFrame
<1>3. SubFiles[Target[p]] \subseteq Files /\ Shared(p) \subseteq Files
  BY TreeAssumption DEF Shared
<1>4. CASE Start(p)
  <2>1. /\ pc[p] = "start" /\ pc'[p] = IF Target[p] \in subs THEN "inspect" ELSE "done"
        /\ todo'[p] = SubFiles[Target[p]] /\ gone'[p] = {}
        /\ planRec'[p] = [f \in Files |-> Absent] /\ supp'[p] = [f \in Files |-> {}]
    BY <1>4 DEF Start, TypeOK, NoPlan
  <2>2. SeenInv(p)' /\ ListInv(p)'
    BY <1>1, <2>1 DEF SeenInv, ListInv, Working
  <2>3. SharedInv(p)'
    BY <1>1, <1>2, <1>3, <2>1 DEF SharedInv, Working, Place, Fixing
  <2> QED
    BY <2>2, <2>3
<1>5. CASE \/ Inspected(p) \/ NextLoop(p, "results", "records", gone[p])
           \/ NextLoop(p, "records", "fix", kept[p])
  <2>1. /\ pc[p] \in {"inspect", "results", "records"} /\ todo[p] = {}
        /\ UNCHANGED <<gone, kept, supp, planRec>>
        /\ \/ pc'[p] \in {"results", "records"} /\ todo'[p] \subseteq gone[p]
           \/ pc'[p] = "fix" /\ todo'[p] = kept[p]
    BY <1>5 DEF Inspected, NextLoop, TypeOK
  <2>2. SeenInv(p)' /\ ListInv(p)'
    BY <1>1, <2>1 DEF SeenInv, ListInv, Working
  <2>3. SharedInv(p)'
    BY <1>1, <1>2, <2>1 DEF SharedInv, Working, Place, Fixing
  <2> QED
    BY <2>2, <2>3
<1>6. ASSUME NEW f \in Files, Inspect(p, f)
      PROVE  SeenInv(p)' /\ ListInv(p)' /\ SharedInv(p)'
  <2> DEFINE sl == IF res[f] # Absent THEN Supp[f] ELSE {}
  <2>1. /\ pc[p] = "inspect" /\ pc' = pc /\ f \in todo[p] /\ todo'[p] = todo[p] \ {f}
        /\ planRec' = planRec
        /\ \/ /\ UsedOnce(f) /\ gone'[p] = gone[p] \cup {f} \cup sl
              /\ UNCHANGED <<kept, supp>>
           \/ /\ gone' = gone /\ kept'[p] = kept[p] \cup {f}
              /\ \A g \in Files : supp'[p][g] = IF g = f THEN sl ELSE supp[p][g]
    <3>1. /\ pc[p] = "inspect" /\ pc' = pc /\ f \in todo[p]
          /\ todo' = [todo EXCEPT ![p] = todo[p] \ {f}] /\ planRec' = planRec
          /\ \/ /\ UsedOnce(f) /\ gone' = [gone EXCEPT ![p] = gone[p] \cup {f} \cup sl]
                /\ UNCHANGED <<kept, supp>>
             \/ /\ gone' = gone /\ kept' = [kept EXCEPT ![p] = kept[p] \cup {f}]
                /\ supp' = [supp EXCEPT ![p] = [supp[p] EXCEPT ![f] = sl]]
      BY <1>6 DEF Inspect
    <3> HIDE DEF sl
    <3> QED
      BY <3>1 DEF TypeOK
  <2>2. Target[p] \in subs /\ f \in SubFiles[Target[p]] /\ sl \subseteq Supp[f]
    BY <2>1 DEF SeenInv, ListInv, Working
  <2>3. \A k \in sl : k \notin Shared(p)
    <3>1. \A s \in subs : s \in Sids
      BY DEF TypeOK
    <3> QED
      BY <2>2, <3>1 DEF SuppApart, Shared, Users, Others
  <2>4. UsedOnce(f) => f \notin Shared(p)
    BY <2>2, SharedIsFound
  <2> HIDE DEF sl
  <2>5. SeenInv(p)' /\ ListInv(p)'
    BY <1>1, <2>1, <2>2 DEF SeenInv, ListInv, Working
  <2>6. SharedInv(p)'
    BY <1>1, <1>2, <2>1, <2>3, <2>4 DEF SharedInv, Working, Place, Fixing
  <2> QED
    BY <2>5, <2>6
<1>7. ASSUME NEW f \in Files, FixRead(p, f)
      PROVE  SeenInv(p)' /\ ListInv(p)' /\ SharedInv(p)'
  <2>1. OtherUsers(p, f) = Users(Others(p), f)
    BY DEF SeenInv, OtherUsers, Others, Users
  <2>2. /\ pc[p] = "fix" /\ todo'[p] = todo[p] \ {f} /\ UNCHANGED <<gone, kept, supp, planRec>>
        /\ \/ rec[f] = Absent /\ UNCHANGED <<pc, cur, read, ncls>>
           \/ /\ pc'[p] = "fixresults" /\ cur'[p] = f /\ read'[p] = rec[f]
              /\ ncls'[p] = Want(p, f)
    BY <1>7, <2>1 DEF FixRead, TypeOK, fixVars, Want
  <2>3. SeenInv(p)' /\ ListInv(p)'
    BY <1>1, <1>2, <2>2 DEF SeenInv, ListInv, Working
  <2>4. SharedInv(p)'
    BY <1>1, <1>2, <2>2 DEF SharedInv, Working, Place, Fixing
  <2> QED
    BY <2>3, <2>4
<1> QED
  BY <1>4, <1>5, <1>6, <1>7

\* The steps that erase: no file that others have.
LEMMA ClassErase ==
  ASSUME NEW p \in Deleters, TypeOK, SeenInv(p), ListInv(p), SharedInv(p),
         EraseBlob(p) \/ \E f \in Files : EraseResults(p, f) \/ EraseRecord(p, f)
  PROVE  SeenInv(p)' /\ ListInv(p)' /\ SharedInv(p)'
<1>1. /\ UNCHANGED <<subs, visible, gone, kept, supp, planRec>>
      /\ pc[p] \in {"results", "records", "blob"} /\ pc'[p] \in {"results", "records", "blob"}
      /\ todo'[p] \subseteq todo[p]
      /\ \/ rec' = rec
         \/ \E f \in todo[p] : rec' = Erase(rec, {f})
  <2>1. CASE EraseBlob(p)
    BY <2>1 DEF EraseBlob, TypeOK
  <2>2. CASE \E f \in Files : EraseResults(p, f)
    BY <2>2 DEF EraseResults, TypeOK
  <2>3. CASE \E f \in Files : EraseRecord(p, f)
    BY <2>3 DEF EraseRecord, TypeOK
  <2> QED
    BY <2>1, <2>2, <2>3
<1>2. Shared(p)' = Shared(p) /\ \A f : Want(p, f)' = Want(p, f)
  BY <1>1, WantFrame
<1>3. SeenInv(p)' /\ ListInv(p)'
  BY <1>1 DEF SeenInv, ListInv, Working
<1>4. \A f \in Shared(p) : f \notin todo[p]
  BY <1>1 DEF ListInv, SharedInv, Working
<1>5. \A f \in Shared(p) : rec'[f] = rec[f]
  BY <1>1, <1>4 DEF Erase, Shared
<1>6. SharedInv(p)'
  BY <1>1, <1>2, <1>5 DEF SharedInv, Working, Place, Fixing
<1> QED
  BY <1>3, <1>6

\* The steps that reclassify: what others have gets what they want.
LEMMA ClassFix ==
  ASSUME NEW p \in Deleters, SuppApart, TypeOK, SeenInv(p), ListInv(p), SharedInv(p),
         FixResults(p) \/ FixFile(p) \/ FixSupp(p)
  PROVE  SeenInv(p)' /\ ListInv(p)' /\ SharedInv(p)'
<1>1. /\ UNCHANGED <<subs, visible, gone, kept, supp, todo, cur, read, ncls>>
      /\ pc[p] \in {"fixresults", "fixfile", "fixsupp"}
  BY DEF FixResults, FixFile, FixSupp, fixVars
<1>2. Shared(p)' = Shared(p) /\ \A f : Want(p, f)' = Want(p, f)
  BY <1>1, WantFrame
<1>3. CASE FixResults(p)
  <2>1. pc[p] = "fixresults" /\ pc'[p] = "fixfile" /\ UNCHANGED <<rec, planRec>>
    BY <1>3 DEF FixResults, TypeOK
  <2>2. SeenInv(p)' /\ ListInv(p)'
    BY <1>1, <1>2, <2>1 DEF SeenInv, ListInv, Working
  <2>3. SharedInv(p)'
    BY <1>1, <1>2, <2>1 DEF SharedInv, Working, Place, Fixing
  <2> QED
    BY <2>2, <2>3
<1>4. CASE FixFile(p)
  <2>1. pc[p] = "fixfile" /\ pc'[p] = "fixsupp" /\ cur[p] \in Files /\ ncls[p] \in Class
    BY <1>4 DEF FixFile, TypeOK
  <2>2. read[p] = rec[cur[p]] /\ ncls[p] = Want(p, cur[p])
    BY <2>1 DEF ListInv, Working
  <2>3. /\ \A f \in Shared(p) : f # cur[p] => rec'[f] = rec[f] /\ planRec'[p][f] = planRec[p][f]
        /\ cur[p] \in Shared(p) =>
             /\ rec'[cur[p]] \in {rec[cur[p]], Want(p, cur[p])}
             /\ planRec'[p][cur[p]] \in {planRec[p][cur[p]], Want(p, cur[p])}
             /\ \/ rec'[cur[p]] = Want(p, cur[p])
                \/ p \in Bulk /\ planRec'[p][cur[p]] = Want(p, cur[p])
    <3>1. CASE read[p] = ncls[p]
      BY <1>4, <2>2, <3>1 DEF FixFile
    <3>2. CASE read[p] # ncls[p] /\ p \in Bulk
      BY <1>4, <2>1, <2>2, <3>2 DEF FixFile, Assign, TypeOK, Shared
    <3>3. CASE read[p] # ncls[p] /\ p \notin Bulk
      <4>1. cur[p] \in Shared(p) => rec[cur[p]] # Absent
        BY DEF SharedInv
      <4> QED
        BY <1>4, <2>1, <2>2, <3>3, <4>1 DEF FixFile, Assign, Reclassify, Shared
    <3> QED
      BY <3>1, <3>2, <3>3
  <2>4. Want(p, cur[p]) # Absent
    BY WantType
  <2>5. SeenInv(p)' /\ ListInv(p)'
    BY <1>1, <2>1 DEF SeenInv, ListInv, Working
  <2>6. SharedInv(p)'
    <3> SUFFICES ASSUME NEW f \in Shared(p)
                 PROVE  /\ rec'[f] # Absent
                        /\ Target[p] \notin subs \/ f \notin SubFiles[Target[p]] => rec'[f] = Want(p, f)
                        /\ f \notin gone[p]
                        /\ planRec'[p][f] \in {Absent, Want(p, f)}
                        /\ f \in SubFiles[Target[p]] => Place(p, f)'
      BY <1>1, <1>2 DEF SharedInv
    <3>1. CASE f # cur[p]
      BY <1>1, <1>2, <2>1, <2>3, <3>1 DEF SharedInv, Working, Place, Fixing
    <3>2. CASE f = cur[p]
      BY <1>1, <1>2, <2>1, <2>3, <2>4, <3>2 DEF SharedInv, Working, Place, Fixing
    <3> QED
      BY <3>1, <3>2
  <2> QED
    BY <2>5, <2>6
<1>5. CASE FixSupp(p)
  <2> DEFINE fs == {f \in supp[p][cur[p]] : rec[f] \notin {Absent, ncls[p]}}
  <2>1. /\ pc[p] = "fixsupp" /\ pc'[p] = "fix" /\ cur[p] \in Files
        /\ Assign(p, rec, planRec, fs, ncls[p])
    BY <1>5 DEF FixSupp, TypeOK
  <2>2. \A f \in fs : f \notin Shared(p)
    <3>1. fs \subseteq Supp[cur[p]] /\ subs \subseteq Sids
      BY <2>1 DEF ListInv, Working, TypeOK
    <3> QED
      BY <2>1, <3>1 DEF SuppApart, Shared, Users, Others
  <2> HIDE DEF fs
  <2>3. \A f \in Shared(p) : rec'[f] = rec[f] /\ planRec'[p][f] = planRec[p][f]
    BY <2>1, <2>2 DEF Assign, Reclassify, TypeOK, Shared
  <2>4. SeenInv(p)' /\ ListInv(p)'
    BY <1>1, <2>1 DEF SeenInv, ListInv, Working
  <2>5. SharedInv(p)'
    BY <1>1, <1>2, <2>1, <2>3 DEF SharedInv, Working, Place, Fixing
  <2> QED
    BY <2>4, <2>5
<1> QED
  BY <1>3, <1>4, <1>5

\* The steps that end it.
LEMMA ClassEnd ==
  ASSUME NEW p \in Deleters, TypeOK, SeenInv(p), ListInv(p), SharedInv(p),
         DeleteSubmission(p) \/ FindTrees(p) \/ DeleteTrees(p) \/ ApplyPlan(p) \/ Crash(p)
  PROVE  SeenInv(p)' /\ ListInv(p)' /\ SharedInv(p)'
<1>1. /\ ~Working(p)' /\ visible' = visible
      /\ Target[p] \in subs' => subs' = subs
      /\ Others(p)' = Others(p)
  BY DEF DeleteSubmission, FindTrees, DeleteTrees, ApplyPlan, Crash, TypeOK, Working, Others, docVars
<1>2. Shared(p)' = Shared(p) /\ \A f : Want(p, f)' = Want(p, f)
  BY <1>1 DEF Shared, Want, Users, LeastRestricted
<1>3. ListInv(p)'
  BY <1>1 DEF ListInv
<1>4. SeenInv(p)'
  BY DEF DeleteSubmission, FindTrees, DeleteTrees, ApplyPlan, Crash, TypeOK, Working, SeenInv, docVars
<1>5. \A f \in Shared(p) :
        /\ rec'[f] # Absent
        /\ Target[p] \notin subs' \/ f \notin SubFiles[Target[p]] => rec'[f] = Want(p, f)
  <2>1. CASE FindTrees(p) \/ DeleteTrees(p) \/ Crash(p)
    BY <2>1 DEF FindTrees, DeleteTrees, Crash, SharedInv, docVars
  <2>2. CASE DeleteSubmission(p)
    BY <2>2 DEF DeleteSubmission, SharedInv, Working, Place, Fixing
  <2>3. CASE ApplyPlan(p)
    <3>1. /\ Working(p) /\ pc[p] = "fix" /\ todo[p] = {}
          /\ rec' = Planned(rec, gone[p], planRec[p])
      BY <2>3 DEF ApplyPlan, Working
    <3>2. \A f \in Shared(p) : rec'[f] = IF planRec[p][f] # Absent THEN planRec[p][f] ELSE rec[f]
      BY <3>1 DEF Planned, SharedInv, Shared
    <3>3. \A f \in Shared(p) : \/ rec[f] = Want(p, f) /\ planRec[p][f] \in {Absent, Want(p, f)}
                               \/ planRec[p][f] = Want(p, f)
      BY <3>1 DEF SharedInv, Place, Fixing
    <3>4. \A f : Want(p, f) # Absent
      BY WantType
    <3> QED
      BY <3>2, <3>3, <3>4
  <2> QED
    BY <2>1, <2>2, <2>3
<1>6. SharedInv(p)'
  BY <1>1, <1>2, <1>5 DEF SharedInv
<1> QED
  BY <1>3, <1>4, <1>6

LEMMA ClassNext ==
  ASSUME NEW p \in Deleters, Alone(p), SuppApart, TypeOK, ClassInv(p), [Next]_vars
  PROVE  ClassInv(p)'
<1>1. ASSUME NEW q \in Deleters, DeleterStep(q) \/ Crash(q) PROVE ClassInv(p)'
  <2>1. q = p
    BY DEF Alone
  <2>2. imp' = imp
    BY <1>1 DEF DeleterStep, Start, Inspected, NextLoop, Inspect, EraseResults, EraseRecord, FixRead,
                EraseBlob, FixResults, FixFile, FixSupp, DeleteSubmission, FindTrees, DeleteTrees, ApplyPlan,
                Crash, impVars
  <2> QED
    BY <1>1, <2>1, <2>2, ClassPlan, ClassErase, ClassFix, ClassEnd
    DEF DeleterStep, ClassInv, Still
<1>2. ASSUME NEW s \in Imported, ImportStep(s) PROVE ClassInv(p)'
  <2>1. imp'[s] # "check"
    BY <1>2, TreeAssumption
    DEF ImportStep, CheckSubmission, ImportSubmission, ImportFile, ImportBlob, ImportResults, TypeOK
  <2> QED
    BY <2>1 DEF ClassInv, Still
<1>3. CASE Refresh \/ RefreshTrees \/ (\E s \in Viewed : ViewStep(s)) \/ UNCHANGED vars
  <2>1. /\ UNCHANGED <<subs, rec, pc, todo, gone, kept, supp, cur, read, ncls, planRec, imp>>
        /\ visible' \in {visible, subs}
    BY <1>3 DEF Refresh, RefreshTrees, ViewStep, ReadSubmission, MakeTree, SaveTree, vars, docVars, jobVars, impVars, fixVars
  <2>2. Shared(p)' = Shared(p) /\ \A f : Want(p, f)' = Want(p, f)
    BY <2>1, WantFrame
  <2>3. Still => SeenInv(p)' /\ ListInv(p)'
    BY <2>1, <2>2 DEF ClassInv, SeenInv, ListInv, Working
  <2>4. Still => SharedInv(p)'
    BY <2>1, <2>2 DEF ClassInv, SharedInv, Working, Place
  <2> QED
    BY <2>1, <2>3, <2>4 DEF ClassInv, Still
<1> QED
  BY <1>1, <1>2, <1>3 DEF Next, AllDone

(***************************************************************************)
(* After a deletion the files of the submissions that are left have        *)
(* exactly the classification these give them, with stale searches and     *)
(* crashes, in both variants, unless an import has begun or files are      *)
(* supplementary as well.                                                  *)
(***************************************************************************)
THEOREM ReclassifiedExactly ==
  ASSUME NEW p \in Deleters, Alone(p), SuppApart
  PROVE  Spec => []ExactlyReclassified
<1>1. Init => ClassInv(p)
  BY ClassInit
<1>2. TypeOK /\ ClassInv(p) /\ [Next]_vars => ClassInv(p)'
  BY ClassNext
<1>3. ClassInv(p) => ExactlyReclassified
  <2> SUFFICES ASSUME ClassInv(p), Finished, Still, NEW f \in Files, Users(subs, f) # {}
               PROVE  rec[f] = LeastRestricted(Users(subs, f))
    BY DEF ExactlyReclassified, Still
  <2>1. Target[p] \notin subs
    BY DEF ClassInv, SeenInv, Finished
  <2>2. Others(p) = subs
    BY <2>1 DEF Others
  <2> QED
    BY <2>1, <2>2 DEF ClassInv, SharedInv, Shared, Want
<1> QED
  BY <1>1, <1>2, <1>3, TreeTypeCorrect, PTL DEF Spec
=============================================================================
