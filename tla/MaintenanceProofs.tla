------------------------- MODULE MaintenanceProofs -------------------------
(***************************************************************************)
(* fix_shards and reindex for any indexes, documents and numbers of        *)
(* shards, and any number of commands, deaths and repetitions: no document *)
(* is destroyed, nothing is saved beside a temporary copy, and a           *)
(* fix_shards that ran to its end leaves the indexes in order.             *)
(***************************************************************************)
EXTENDS IndexMaintenance, SequenceTheorems, TLAPS

Cursor  == pc # "idle" => todo # <<>>
Aliased == \A i \in Inds : \A k \in alias[i] : There(i, k)

\* What is there of the current index, and under its alias, at each place.
BaseAt ==
  \/ pc \in {"idle", "check", "block", "unblock", "finish", "recheck", "reunblock"}
  \/ pc \in {"pin", "clone"} /\ ~There(cur, "fix")
  \/ pc = "swap" /\ There(cur, "fix")
  \/ pc \in {"drop", "resize"} /\ There(cur, "fix") /\ "fix" \in alias[cur]
  \/ pc = "switch" /\ There(cur, "fix") /\ There(cur, "hot")
  \/ pc \in {"realias", "reswitch"} /\ There(cur, "re") /\ There(cur, "hot")
  \/ /\ pc \in {"copy", "delete"} /\ There(cur, "re") /\ There(cur, "hot")
     /\ "hot" \in alias[cur] => "re" \in alias[cur]
  \/ pc \in {"reblock", "reclone"} /\ There(cur, "re")

BaseInv == TypeOK /\ Cursor /\ Aliased /\ BaseAt

Cells == [Inds -> [Names -> Index \cup {Absent}]]

\* What is there after the step.
Left(i, k) == es'[i][k] # Absent

Others(i, k) == \A j \in Inds, l \in Names : (j # i \/ l # k) => es'[j][l] = es[j][l]

\* Nothing but the block of any index changes.
BlockSet(b) ==
  \A i \in Inds, k \in Names :
    /\ Left(i, k) <=> There(i, k)
    /\ There(i, k) => /\ es'[i][k].docs = es[i][k].docs
                      /\ es'[i][k].shards = es[i][k].shards
                      /\ es'[i][k].replicas = es[i][k].replicas
                      /\ es'[i][k].pinned = es[i][k].pinned
                      /\ es'[i][k].blocked = b

LEMMA CurIsIndex ==
  ASSUME TypeOK, Cursor, pc # "idle"
  PROVE  /\ cur \in Inds /\ cur = todo[1] /\ Tail(todo) \in Seq(Inds)
         /\ \A i \in Inds : i \notin Range(Tail(todo)) => i \notin Range(todo) \/ i = cur
<1>1. todo \in Seq(Inds) /\ todo # <<>>
  BY DEF TypeOK, Cursor
<1>2. /\ Head(todo) \in Inds /\ Tail(todo) \in Seq(Inds) /\ Len(Tail(todo)) = Len(todo) - 1
      /\ \A j \in 1 .. Len(Tail(todo)) : Tail(todo)[j] = todo[j + 1]
  BY <1>1, HeadTailProperties
<1>3. Len(todo) \in Nat /\ DOMAIN todo = 1 .. Len(todo) /\ Head(todo) = todo[1]
  BY <1>1, LenProperties
<1>4. ASSUME NEW i \in Inds, i \notin Range(Tail(todo)), i # cur
      PROVE  i \notin Range(todo)
  <2>1. SUFFICES ASSUME NEW j \in DOMAIN todo, todo[j] = i PROVE FALSE
    BY DEF Range
  <2>2. j # 1
    BY <1>3, <1>4, <2>1 DEF cur
  <2>3. j - 1 \in 1 .. Len(Tail(todo)) /\ (j - 1) + 1 = j
    BY <1>2, <1>3, <2>2
  <2>4. DOMAIN Tail(todo) = 1 .. Len(Tail(todo))
    BY <1>2, LenProperties
  <2>5. Tail(todo)[j - 1] = i
    BY <1>2, <2>1, <2>3
  <2> QED
    BY <1>4, <2>3, <2>4, <2>5 DEF Range
<1> QED
  BY <1>2, <1>3, <1>4 DEF cur

LEMMA PutCell ==
  ASSUME es \in Cells, NEW i \in Inds, NEW k \in Names, NEW v \in Index \cup {Absent},
         es' = [es EXCEPT ![i][k] = v]
  PROVE  es' \in Cells /\ es'[i][k] = v /\ Others(i, k)
  BY DEF Cells, Others

LEMMA SetBlockSets ==
  ASSUME es \in Cells, NEW b \in BOOLEAN, SetBlock(b)
  PROVE  es' \in Cells /\ BlockSet(b)
<1>1. ASSUME NEW i \in Inds, NEW k \in Names
      PROVE  /\ es'[i][k] \in Index \cup {Absent}
             /\ Left(i, k) <=> There(i, k)
             /\ There(i, k) => /\ es'[i][k].docs = es[i][k].docs
                               /\ es'[i][k].shards = es[i][k].shards
                               /\ es'[i][k].replicas = es[i][k].replicas
                               /\ es'[i][k].pinned = es[i][k].pinned
                               /\ es'[i][k].blocked = b
  <2>1. es'[i][k] = IF There(i, k) THEN [es[i][k] EXCEPT !.blocked = b] ELSE Absent
    BY DEF SetBlock
  <2>2. CASE ~There(i, k)
    BY <2>1, <2>2 DEF There, Left
  <2>3. CASE There(i, k)
    <3>1. es[i][k] \in Index
      BY <2>3 DEF Cells, There, Left
    <3> DEFINE v == [es[i][k] EXCEPT !.blocked = b]
    <3>2. /\ v \in Index /\ v.docs = es[i][k].docs /\ v.shards = es[i][k].shards
          /\ v.replicas = es[i][k].replicas /\ v.pinned = es[i][k].pinned /\ v.blocked = b
      BY <3>1 DEF Index
    <3>3. es'[i][k] = v
      BY <2>1, <2>3
    <3> HIDE DEF v
    <3> QED
      BY <2>3, <3>2, <3>3, AbsentAssumption DEF There, Left
  <2> QED
    BY <2>2, <2>3
<1>2. es' \in Cells
  <2>1. es' = [i \in Inds |-> [k \in Names |-> es'[i][k]]]
    BY DEF SetBlock
  <2> QED
    BY <1>1, <2>1 DEF Cells
<1> QED
  BY <1>1, <1>2 DEF BlockSet

LEMMA CellsTyped == TypeOK => es \in Cells
  BY DEF TypeOK, Cells

LEMMA SaveDoes ==
  ASSUME TypeOK, NEW i \in Inds, NEW d \in Docs, Save(i, d)
  PROVE  /\ es' \in Cells /\ Others(i, "hot") /\ Left(i, "hot")
         /\ ~es'[i]["hot"].blocked
         /\ d \in es'[i]["hot"].docs
         /\ There(i, "hot") => /\ ~es[i]["hot"].blocked
                               /\ es[i]["hot"].docs \subseteq es'[i]["hot"].docs
                               /\ es'[i]["hot"].shards = es[i]["hot"].shards
                               /\ es'[i]["hot"].replicas = es[i]["hot"].replicas
                               /\ es'[i]["hot"].pinned = es[i]["hot"].pinned
         /\ ~There(i, "hot") => autoCreate
<1>1. es \in Cells /\ "hot" \in Names
  BY CellsTyped DEF Names
<1>2. CASE There(i, "hot")
  <2>1. es[i]["hot"] \in Index
    BY <1>1, <1>2 DEF Cells, There, Left
  <2> DEFINE v == [es[i]["hot"] EXCEPT !.docs = @ \cup {d}]
  <2>2. /\ v \in Index /\ v.docs = es[i]["hot"].docs \cup {d}
        /\ v.shards = es[i]["hot"].shards /\ v.replicas = es[i]["hot"].replicas
        /\ v.pinned = es[i]["hot"].pinned /\ v.blocked = es[i]["hot"].blocked
    BY <2>1 DEF Index
  <2>3. es' = [es EXCEPT ![i]["hot"] = v] /\ ~es[i]["hot"].blocked
    BY <1>2 DEF Save
  <2> HIDE DEF v
  <2>4. es' \in Cells /\ es'[i]["hot"] = v /\ Others(i, "hot")
    BY <1>1, <2>2, <2>3, PutCell
  <2> QED
    BY <1>2, <2>2, <2>3, <2>4, AbsentAssumption DEF There, Left
<1>3. CASE ~There(i, "hot")
  <2> DEFINE v == [docs |-> {d}, shards |-> 1, replicas |-> 1,
                   blocked |-> FALSE, pinned |-> FALSE]
  <2>1. v \in Index /\ v.docs = {d} /\ ~v.blocked
    BY DEF Index
  <2>2. es' = [es EXCEPT ![i]["hot"] = v] /\ autoCreate
    BY <1>3 DEF Save
  <2> HIDE DEF v
  <2>3. es' \in Cells /\ es'[i]["hot"] = v /\ Others(i, "hot")
    BY <1>1, <2>1, <2>2, PutCell
  <2> QED
    BY <1>3, <2>1, <2>2, <2>3, AbsentAssumption DEF There, Left
<1> QED
  BY <1>2, <1>3

LEMMA FixPinDoes ==
  ASSUME TypeOK, Cursor, FixPin
  PROVE  /\ es' \in Cells /\ Others(cur, "hot")
         /\ There(cur, "hot") /\ Left(cur, "hot")
         /\ es'[cur]["hot"].docs = es[cur]["hot"].docs
         /\ es'[cur]["hot"].shards = es[cur]["hot"].shards
         /\ es'[cur]["hot"].blocked = es[cur]["hot"].blocked
<1>1. es \in Cells /\ "hot" \in Names /\ cur \in Inds /\ There(cur, "hot")
  BY CellsTyped, CurIsIndex DEF Names, FixPin, At
<1>2. es[cur]["hot"] \in Index
  BY <1>1 DEF Cells, There, Left
<1> DEFINE c == cur
           u == [es[c]["hot"] EXCEPT !.replicas = 0]
           v == [u EXCEPT !.pinned = TRUE]
           f == [es EXCEPT ![c]["hot"].replicas = 0]
<1>3. /\ u \in Index /\ u.docs = es[cur]["hot"].docs
      /\ u.shards = es[cur]["hot"].shards /\ u.blocked = es[cur]["hot"].blocked
  BY <1>2 DEF Index
<1> HIDE DEF u
<1>4. v \in Index /\ v.docs = u.docs /\ v.shards = u.shards /\ v.blocked = u.blocked
  BY <1>3 DEF Index
<1>5. es' = [f EXCEPT ![c]["hot"].pinned = TRUE]
  BY DEF FixPin
<1>6. f = [es EXCEPT ![c]["hot"] = u]
  BY DEF u
<1> HIDE DEF v, f
<1>7. f[c]["hot"] = u
  BY <1>1, <1>3, <1>6 DEF Cells
<1>8. es' = [f EXCEPT ![c]["hot"] = v]
  BY <1>5, <1>7 DEF v
<1>9. es' = [es EXCEPT ![c]["hot"] = v]
  BY <1>1, <1>3, <1>6, <1>8 DEF Cells
<1>10. es' \in Cells /\ es'[c]["hot"] = v /\ Others(c, "hot")
  BY <1>1, <1>4, <1>9, PutCell
<1> QED
  BY <1>1, <1>3, <1>4, <1>10, AbsentAssumption DEF There, Left

LEMMA FixCloneDoes ==
  ASSUME TypeOK, Cursor, FixClone
  PROVE  /\ es' \in Cells /\ Others(cur, "fix")
         /\ There(cur, "hot") /\ Left(cur, "fix")
         /\ es'[cur]["fix"].docs = es[cur]["hot"].docs
         /\ es'[cur]["fix"].shards = es[cur]["hot"].shards
         /\ es'[cur]["fix"].blocked = es[cur]["hot"].blocked
<1>1. es \in Cells /\ "fix" \in Names /\ "hot" \in Names /\ cur \in Inds /\ There(cur, "hot")
  BY CellsTyped, CurIsIndex DEF Names, FixClone, At
<1>2. es[cur]["hot"] \in Index
  BY <1>1 DEF Cells, There, Left
<1> DEFINE v == [es[cur]["hot"] EXCEPT !.replicas = 0]
<1>3. /\ v \in Index /\ v.docs = es[cur]["hot"].docs
      /\ v.shards = es[cur]["hot"].shards /\ v.blocked = es[cur]["hot"].blocked
  BY <1>2 DEF Index
<1>4. es' = [es EXCEPT ![cur]["fix"] = v]
  BY DEF FixClone
<1> HIDE DEF v
<1>5. es' \in Cells /\ es'[cur]["fix"] = v /\ Others(cur, "fix")
  BY <1>1, <1>3, <1>4, PutCell
<1> QED
  BY <1>1, <1>3, <1>5, AbsentAssumption DEF There, Left

LEMMA Removed ==
  ASSUME TypeOK, NEW i \in Inds, NEW k \in Names, es' = [es EXCEPT ![i][k] = Absent]
  PROVE  es' \in Cells /\ Others(i, k) /\ ~Left(i, k)
<1>1. es' \in Cells /\ es'[i][k] = Absent /\ Others(i, k)
  BY CellsTyped, PutCell
<1> QED
  BY <1>1 DEF There, Left

LEMMA FixResizeDoes ==
  ASSUME TypeOK, Cursor, FixResize, There(cur, "fix")
  PROVE  /\ es' \in Cells /\ Others(cur, "hot") /\ Left(cur, "hot")
         /\ es'[cur]["hot"].docs = es[cur]["fix"].docs
         /\ es'[cur]["hot"].shards = TargetShards[cur]
         /\ es'[cur]["hot"].replicas = Replicas
         /\ es'[cur]["hot"].blocked = es[cur]["fix"].blocked
<1>1. es \in Cells /\ "fix" \in Names /\ "hot" \in Names /\ cur \in Inds
  BY CellsTyped, CurIsIndex DEF Names, FixResize, At
<1>2. es[cur]["fix"] \in Index
  BY <1>1 DEF Cells, There, Left
<1> DEFINE u == [es[cur]["fix"] EXCEPT !.shards = TargetShards[cur]]
           v == [u EXCEPT !.replicas = Replicas]
<1>3. TargetShards[cur] \in Nat /\ Replicas \in Nat
  BY <1>1, MaintenanceAssumption DEF Inds
<1>4. /\ u \in Index /\ u.docs = es[cur]["fix"].docs
      /\ u.shards = TargetShards[cur] /\ u.blocked = es[cur]["fix"].blocked
  BY <1>2, <1>3 DEF Index
<1>5. es' = [es EXCEPT ![cur]["hot"] = v]
  BY DEF FixResize
<1> HIDE DEF u
<1>6. /\ v \in Index /\ v.docs = u.docs /\ v.shards = u.shards /\ v.blocked = u.blocked
      /\ v.replicas = Replicas
  BY <1>3, <1>4 DEF Index
<1> HIDE DEF v
<1>7. es' \in Cells /\ es'[cur]["hot"] = v /\ Others(cur, "hot")
  BY <1>1, <1>5, <1>6, PutCell
<1> QED
  BY <1>4, <1>6, <1>7, AbsentAssumption DEF There, Left

\* What the end of fix_shards sets under the alias.
FinishSets ==
  \A k \in Names :
    /\ Left(cur, k) <=> There(cur, k)
    /\ There(cur, k) => /\ es'[cur][k].docs = es[cur][k].docs
                        /\ es'[cur][k].shards = es[cur][k].shards
                        /\ es'[cur][k].blocked = es[cur][k].blocked
    /\ k \in alias[cur] => /\ es'[cur][k].replicas = curReplicas
                           /\ ~es'[cur][k].pinned

LEMMA FixFinishDoes ==
  ASSUME TypeOK, Cursor, Aliased, FixFinish
  PROVE  /\ es' \in Cells /\ FinishSets
         /\ \A j \in Inds, l \in Names : j # cur => es'[j][l] = es[j][l]
<1>1. es \in Cells /\ cur \in Inds /\ curReplicas \in Nat
  BY CellsTyped, CurIsIndex DEF FixFinish, NextIndex, TypeOK
<1>2. \A j \in Inds : j # cur => es'[j] = es[j]
  BY <1>1 DEF FixFinish, Cells
<1>3. es'[cur] = [k \in Names |->
              IF k \in alias[cur]
              THEN [es[cur][k] EXCEPT !.replicas = curReplicas, !.pinned = FALSE]
              ELSE es[cur][k]]
  BY <1>1 DEF FixFinish, Cells
<1>4. DOMAIN es' = Inds /\ es' = [j \in Inds |-> es'[j]]
  BY <1>1 DEF FixFinish, Cells
<1>5. ASSUME NEW k \in Names
      PROVE  /\ es'[cur][k] \in Index \cup {Absent}
             /\ Left(cur, k) <=> There(cur, k)
             /\ There(cur, k) => /\ es'[cur][k].docs = es[cur][k].docs
                                 /\ es'[cur][k].shards = es[cur][k].shards
                                 /\ es'[cur][k].blocked = es[cur][k].blocked
             /\ k \in alias[cur] => /\ es'[cur][k].replicas = curReplicas
                                    /\ ~es'[cur][k].pinned
  <2>2. CASE k \notin alias[cur]
    <3>1. es'[cur][k] = es[cur][k] /\ es[cur][k] \in Index \cup {Absent}
      BY <1>1, <1>3, <2>2 DEF Cells
    <3> QED
      BY <2>2, <3>1 DEF There, Left
  <2>3. CASE k \in alias[cur]
    <3>1. es[cur][k] \in Index
      BY <1>1, <2>3 DEF Cells, There, Left, Aliased
    <3> DEFINE u == [es[cur][k] EXCEPT !.replicas = curReplicas]
               v == [u EXCEPT !.pinned = FALSE]
    <3>2. /\ u \in Index /\ u.docs = es[cur][k].docs /\ u.shards = es[cur][k].shards
          /\ u.blocked = es[cur][k].blocked /\ u.replicas = curReplicas
      BY <1>1, <3>1 DEF Index
    <3>3. es'[cur][k] = v
      BY <1>3, <2>3
    <3> HIDE DEF u
    <3>4. /\ v \in Index /\ v.docs = u.docs /\ v.shards = u.shards
          /\ v.blocked = u.blocked /\ v.replicas = u.replicas /\ ~v.pinned
      BY <3>2 DEF Index
    <3> HIDE DEF v
    <3> QED
      BY <1>1, <2>3, <3>2, <3>3, <3>4, AbsentAssumption DEF There, Left, Aliased
  <2> QED
    BY <2>2, <2>3
<1>6. ASSUME NEW j \in Inds PROVE es'[j] \in [Names -> Index \cup {Absent}]
  <2>1. CASE j # cur
    BY <1>1, <1>2, <2>1 DEF Cells
  <2>2. CASE j = cur
    <3> DEFINE g == es'[cur]
    <3>1. g = [k \in Names |-> g[k]]
      BY <1>3
    <3>2. \A k \in Names : g[k] \in Index \cup {Absent}
      BY <1>5
    <3> HIDE DEF g
    <3>3. g \in [Names -> Index \cup {Absent}]
      BY <3>1, <3>2
    <3> QED
      BY <2>2, <3>3 DEF g
  <2> QED
    BY <2>1, <2>2
<1>7. es' \in Cells
  BY <1>4, <1>6 DEF Cells
<1> QED
  BY <1>2, <1>5, <1>7 DEF FinishSets

Places == {"idle", "check", "block", "pin", "clone", "swap", "drop", "resize", "switch",
           "unblock", "finish", "recheck", "realias", "copy", "delete", "reblock",
           "reclone", "reswitch", "reunblock"}
Aliases == [Inds -> (SUBSET Names) \ {{}}]

\* The indexes stay under their alias, or what is under it is there.
Covered == \A i \in Inds : \A k \in alias'[i] : Left(i, k)

\* Nothing is moved: the same indexes are there, under the same aliases.
Unmoved == alias' = alias /\ \A i \in Inds, k \in Names : Left(i, k) <=> There(i, k)

LEMMA UnmovedCovers ==
  ASSUME TypeOK, Aliased, Unmoved
  PROVE  Covered /\ alias' \in Aliases
  BY DEF TypeOK, Aliased, Unmoved, Covered, Aliases

LEMMA PutAlias ==
  ASSUME TypeOK, NEW i \in Inds, NEW A \in SUBSET Names, A # {},
         alias' = [alias EXCEPT ![i] = A]
  PROVE  alias' \in Aliases /\ alias'[i] = A /\ \A j \in Inds : j # i => alias'[j] = alias[j]
  BY DEF TypeOK, Aliases

Saves == [Inds -> SUBSET Docs]

LEMMA SteadyBase ==
  ASSUME TypeOK, Cursor, Steady, late' \in Saves, autoCreate' = autoCreate, unseen' \in Saves,
         es' \in Cells, alias' \in Aliases, pc # "idle", pc' \in Places \ {"idle"}, Covered
  PROVE  TypeOK' /\ Cursor' /\ Aliased' /\ cur' = cur /\ cur \in Inds
<1>1. TypeOK'
  BY DEF TypeOK, Steady, Cells, Aliases, Places, Saves
<1>2. cur' = cur /\ cur \in Inds /\ Cursor'
  BY CurIsIndex DEF Steady, cur, Cursor
<1>3. Aliased'
  BY DEF Covered, Aliased, There, Left
<1> QED
  BY <1>1, <1>2, <1>3

LEMMA QuietBase ==
  ASSUME TypeOK, Cursor, Quiet, autoCreate' = autoCreate, unseen' = unseen, es' \in Cells,
         alias' \in Aliases, pc # "idle", pc' \in Places \ {"idle"}, Covered
  PROVE  TypeOK' /\ Cursor' /\ Aliased' /\ cur' = cur /\ cur \in Inds
<1>1. Steady /\ late' \in Saves /\ unseen' \in Saves
  BY DEF TypeOK, Quiet, Saves
<1> QED
  BY <1>1, SteadyBase

\* The current index is made from another: a search sees all of it.
LEMMA MadeBase ==
  ASSUME TypeOK, Cursor, Quiet, autoCreate' = autoCreate, es' \in Cells, alias' \in Aliases,
         unseen' = [unseen EXCEPT ![cur] = {}],
         pc # "idle", pc' \in Places \ {"idle"}, Covered
  PROVE  TypeOK' /\ Cursor' /\ Aliased' /\ cur' = cur /\ cur \in Inds
<1>1. Steady /\ late' \in Saves /\ unseen' \in Saves
  BY DEF TypeOK, Quiet, Saves
<1> QED
  BY <1>1, SteadyBase

LEMMA BlockUnmoved ==
  ASSUME TypeOK, NEW b \in BOOLEAN, SetBlock(b), alias' = alias
  PROVE  es' \in Cells /\ BlockSet(b) /\ Unmoved
  BY CellsTyped, SetBlockSets DEF BlockSet, Unmoved

LEMMA BaseSave ==
  ASSUME BaseInv, NEW i \in Inds, NEW d \in Docs, Save(i, d)
  PROVE  BaseInv'
<1>1. TypeOK /\ Cursor /\ Aliased /\ BaseAt
  BY DEF BaseInv
<1>2. es' \in Cells /\ Others(i, "hot") /\ Left(i, "hot")
  BY <1>1, SaveDoes
<1>3. /\ UNCHANGED <<alias, autoCreate, cmdVars, commands, crashes, spoiled>>
      /\ saved' = [saved EXCEPT ![i] = @ \cup {d}]
      /\ late' = [late EXCEPT ![i] = @ \cup {d}] \/ late' = late
  BY DEF Save
<1>4. /\ saved' \in [Inds -> SUBSET Docs] /\ late' \in [Inds -> SUBSET Docs]
      /\ unseen' \in [Inds -> SUBSET Docs]
  <2>1. saved' \in [Inds -> SUBSET Docs] /\ late' \in [Inds -> SUBSET Docs]
    BY <1>1, <1>3 DEF TypeOK
  <2> DEFINE u == IF There(i, "hot") THEN unseen[i] \cup {d} ELSE {d}
  <2>2. unseen \in [Inds -> SUBSET Docs] /\ u \in SUBSET Docs
    BY <1>1 DEF TypeOK
  <2>3. unseen' = [unseen EXCEPT ![i] = u]
    BY DEF Save
  <2> HIDE DEF u
  <2> QED
    BY <2>1, <2>2, <2>3
<1>5. TypeOK'
  BY <1>1, <1>2, <1>3, <1>4 DEF TypeOK, Cells, cmdVars
<1>6. cur' = cur /\ pc' = pc /\ todo' = todo /\ alias' = alias
  BY <1>3 DEF cmdVars, cur
<1>7. \A j \in Inds, k \in Names : j # i \/ k # "hot" => (Left(j, k) <=> There(j, k))
  BY <1>2 DEF Others, Left, There
<1>8. Aliased'
  <2>1. alias \in [Inds -> SUBSET Names]
    BY <1>1 DEF TypeOK
  <2> QED
    BY <1>1, <1>2, <1>6, <1>7, <2>1 DEF Aliased, There, Left
<1>9. BaseAt'
  <2>1. CASE pc = "idle"
    BY <1>6, <2>1 DEF BaseAt
  <2>2. CASE pc # "idle"
    <3>1. cur \in Inds
      BY <1>1, <2>2, CurIsIndex
    <3>2. \A k \in Names : k # "hot" => (Left(cur, k) <=> There(cur, k))
      BY <1>7, <3>1
    <3>3. There(cur, "hot") => Left(cur, "hot")
      BY <1>2, <1>7, <3>1 DEF Names
    <3>4. \A k : There(cur, k)' <=> Left(cur, k)
      BY <1>6 DEF There, Left
    <3> QED
      BY <1>1, <1>6, <3>2, <3>3, <3>4 DEF BaseAt, Names
  <2> QED
    BY <2>1, <2>2
<1> QED
  BY <1>1, <1>5, <1>6, <1>8, <1>9 DEF BaseInv, Cursor

LEMMA BaseRefresh ==
  ASSUME BaseInv, NEW i \in Inds, RefreshIndex(i)
  PROVE  BaseInv'
<1>1. /\ UNCHANGED <<es, alias, autoCreate, cmdVars, histVars>>
      /\ unseen' = [unseen EXCEPT ![i] = {}]
  BY DEF RefreshIndex
<1>2. TypeOK'
  BY <1>1 DEF BaseInv, TypeOK, cmdVars, histVars
<1> QED
  BY <1>1, <1>2 DEF BaseInv, Cursor, Aliased, BaseAt, There, cur, cmdVars

LEMMA BaseBegin ==
  ASSUME BaseInv, NEW c \in {"fix", "reindex"}, Begin(c), commands' \in 0 .. MaxCommands
  PROVE  BaseInv'
<1>1. TypeOK /\ Cursor /\ Aliased /\ BaseAt
  BY DEF BaseInv
<1>2. Indexes \in Seq(Inds) /\ Indexes # <<>>
  BY MaintenanceAssumption DEF Inds
<1>3. /\ cmd' = c /\ todo' = Indexes /\ pc' = First(c) /\ completed' = "nothing"
      /\ UNCHANGED <<dataVars, method, curReplicas, crashes, saved, late>>
      /\ spoiled' \in BOOLEAN
  BY <1>1 DEF Begin, TypeOK
<1>4. First(c) \in {"check", "recheck"}
  BY DEF First
<1>5. TypeOK'
  BY <1>1, <1>2, <1>3, <1>4 DEF TypeOK, dataVars
<1>6. Aliased'
  BY <1>1, <1>3 DEF Aliased, There, dataVars
<1> QED
  BY <1>2, <1>3, <1>4, <1>5, <1>6 DEF BaseInv, Cursor, BaseAt

LEMMA BaseAbandon ==
  ASSUME BaseInv, Abandon, UNCHANGED <<alias, autoCreate, unseen>>, es' \in Cells, Unmoved,
         crashes' \in 0 .. MaxCrashes
  PROVE  BaseInv'
<1>1. TypeOK /\ Cursor /\ Aliased /\ BaseAt
  BY DEF BaseInv
<1>2. <<>> \in Seq(Inds) /\ (spoiled' \in BOOLEAN)
  BY <1>1 DEF Abandon, TypeOK
<1>3. TypeOK'
  BY <1>1, <1>2 DEF TypeOK, Abandon, Cells
<1>4. Aliased'
  BY <1>1, UnmovedCovers DEF Covered, Aliased, There, Left
<1> QED
  BY <1>3, <1>4 DEF BaseInv, Cursor, BaseAt, Abandon

LEMMA BaseNextIndex ==
  ASSUME BaseInv, NEW p \in Places \ {"idle"}, NextIndex(p),
         UNCHANGED <<alias, autoCreate, unseen>>, es' \in Cells, Unmoved
  PROVE  BaseInv'
<1>1. TypeOK /\ Cursor /\ Aliased /\ BaseAt
  BY DEF BaseInv
<1>2. Tail(todo) \in Seq(Inds)
  BY <1>1, CurIsIndex DEF NextIndex
<1>3. First(cmd) \in {"check", "recheck"} /\ cmd \in {"fix", "reindex"}
  BY <1>1 DEF First, TypeOK
<1>4. /\ todo' = Tail(todo)
      /\ \/ todo' = <<>> /\ pc' = "idle" /\ completed' = cmd
         \/ todo' # <<>> /\ pc' = First(cmd) /\ completed' = completed
      /\ UNCHANGED <<cmd, method, curReplicas, histVars>>
  BY DEF NextIndex
<1>5. TypeOK'
  BY <1>1, <1>2, <1>3, <1>4 DEF TypeOK, Cells, histVars
<1>6. Aliased'
  BY <1>1, UnmovedCovers DEF Covered, Aliased, There, Left
<1> QED
  BY <1>3, <1>4, <1>5, <1>6 DEF BaseInv, Cursor, BaseAt

\* A step that only goes to another place.
LEMMA BaseMoves ==
  ASSUME BaseInv, Quiet, autoCreate' = autoCreate, unseen' = unseen, es' \in Cells, Unmoved,
         pc # "idle", pc' \in {"block", "unblock", "finish", "recheck", "reunblock"}
  PROVE  BaseInv'
<1>1. TypeOK /\ Cursor /\ Aliased
  BY DEF BaseInv
<1>2. TypeOK' /\ Cursor' /\ Aliased'
  BY <1>1, UnmovedCovers, QuietBase DEF Places
<1> QED
  BY <1>2 DEF BaseInv, BaseAt

LEMMA BaseFixCheck ==
  ASSUME BaseInv, FixCheck
  PROVE  BaseInv'
<1>1. TypeOK /\ Cursor /\ Aliased /\ pc = "check"
  BY DEF BaseInv, FixCheck
<1>2. cur \in Inds
  BY <1>1, CurIsIndex
<1>3. PICK k \in alias[cur] :
        /\ method' = Method(es[cur][k].shards, TargetShards[cur])
        /\ curReplicas' = es[cur][k].replicas
        /\ pc' = IF method' = "none" THEN "unblock" ELSE "block"
  BY DEF FixCheck
<1>4. k \in Names /\ es[cur][k] \in Index
  BY <1>1, <1>2 DEF TypeOK, Aliased, There
<1>5. curReplicas' \in Nat /\ method' \in {"none", "shrink", "split"}
      /\ pc' \in {"unblock", "block"}
  BY <1>3, <1>4 DEF Index, Method
<1>6. UNCHANGED <<dataVars, cmd, todo, completed, histVars>>
  BY DEF FixCheck
<1>7. TypeOK'
  BY <1>1, <1>5, <1>6 DEF TypeOK, dataVars, histVars
<1> QED
  BY <1>1, <1>5, <1>6, <1>7 DEF BaseInv, Cursor, Aliased, BaseAt, There, dataVars

LEMMA BaseFixRefuse ==
  ASSUME BaseInv, FixRefuse
  PROVE  BaseInv'
<1>1. TypeOK /\ Cursor /\ Aliased
  BY DEF BaseInv
<1>2. UNCHANGED <<dataVars, cmd, method, curReplicas, histVars>>
      /\ pc' = "idle" /\ todo' = <<>> /\ completed' = "refused"
  BY DEF FixRefuse
<1>3. <<>> \in Seq(Inds)
  OBVIOUS
<1>4. TypeOK'
  BY <1>1, <1>2, <1>3 DEF TypeOK, dataVars, histVars
<1> QED
  BY <1>1, <1>2, <1>4 DEF BaseInv, Cursor, Aliased, BaseAt, There, dataVars

LEMMA BaseFixBlock ==
  ASSUME BaseInv, FixBlock
  PROVE  BaseInv'
<1>1. TypeOK /\ Cursor /\ Aliased
  BY DEF BaseInv
<1>2. /\ pc = "block" /\ SetBlock(TRUE) /\ Quiet /\ alias' = alias /\ autoCreate' = autoCreate
      /\ unseen' = unseen
      /\ \/ There(cur, "fix") /\ pc' = "swap"
         \/ ~There(cur, "fix") /\ pc' \in {"pin", "clone"}
  BY DEF FixBlock, At
<1>3. es' \in Cells /\ Unmoved
  BY <1>1, <1>2, BlockUnmoved
<1>4. TypeOK' /\ Cursor' /\ Aliased' /\ cur' = cur /\ cur \in Inds
  BY <1>1, <1>2, <1>3, UnmovedCovers, QuietBase DEF Places
<1>5. There(cur, "fix")' <=> There(cur, "fix")
  BY <1>3, <1>4 DEF Unmoved, Left, There, Names
<1> QED
  BY <1>2, <1>4, <1>5 DEF BaseInv, BaseAt

LEMMA BaseFixPin ==
  ASSUME BaseInv, FixPin
  PROVE  BaseInv'
<1>1. TypeOK /\ Cursor /\ Aliased /\ BaseAt
  BY DEF BaseInv
<1>2. /\ pc = "pin" /\ pc' = "clone" /\ Quiet /\ alias' = alias /\ autoCreate' = autoCreate
      /\ unseen' = unseen
  BY DEF FixPin, At
<1>3. cur \in Inds /\ es' \in Cells /\ Others(cur, "hot") /\ There(cur, "hot") /\ Left(cur, "hot")
  BY <1>1, <1>2, CurIsIndex, FixPinDoes
<1>4. Unmoved
  BY <1>2, <1>3 DEF Unmoved, Others, Left, There
<1>5. TypeOK' /\ Cursor' /\ Aliased' /\ cur' = cur
  BY <1>1, <1>2, <1>3, <1>4, UnmovedCovers, QuietBase DEF Places
<1>6. There(cur, "fix")' <=> There(cur, "fix")
  BY <1>3, <1>4, <1>5 DEF Unmoved, Left, There, Names
<1> QED
  BY <1>1, <1>2, <1>5, <1>6 DEF BaseInv, BaseAt

LEMMA BaseFixClone ==
  ASSUME BaseInv, FixClone
  PROVE  BaseInv'
<1>1. TypeOK /\ Cursor /\ Aliased
  BY DEF BaseInv
<1>2. /\ pc = "clone" /\ pc' = "swap" /\ Quiet /\ alias' = alias /\ autoCreate' = autoCreate
      /\ unseen' = unseen
  BY DEF FixClone, At
<1>3. cur \in Inds /\ es' \in Cells /\ Others(cur, "fix") /\ Left(cur, "fix")
  BY <1>1, <1>2, CurIsIndex, FixCloneDoes
<1>4. Covered /\ alias' \in Aliases
  BY <1>1, <1>2, <1>3 DEF Covered, Aliases, TypeOK, Aliased, Others, Left, There
<1>5. TypeOK' /\ Cursor' /\ Aliased' /\ cur' = cur
  BY <1>1, <1>2, <1>3, <1>4, QuietBase DEF Places
<1>6. There(cur, "fix")'
  BY <1>3, <1>5 DEF Left, There
<1> QED
  BY <1>2, <1>5, <1>6 DEF BaseInv, BaseAt

\* The current index goes, and its alias tells of another one that is there.
LEMMA SwapDrop ==
  ASSUME TypeOK, Aliased, NEW A \in SUBSET Names, A # {}, cur \in Inds,
         alias' = [alias EXCEPT ![cur] = A], NEW k \in Names, Others(cur, k),
         \A l \in A : Left(cur, l)
  PROVE  Covered /\ alias' \in Aliases /\ alias'[cur] = A
<1>1. alias' \in Aliases /\ alias'[cur] = A /\ \A j \in Inds : j # cur => alias'[j] = alias[j]
  <2> DEFINE c == cur
  <2>1. c \in Inds /\ alias' = [alias EXCEPT ![c] = A]
    OBVIOUS
  <2> QED
    BY <2>1, PutAlias
<1>2. Covered
  BY <1>1 DEF Covered, TypeOK, Aliased, Others, Left, There
<1> QED
  BY <1>1, <1>2

LEMMA BaseFixSwap ==
  ASSUME BaseInv, FixSwap
  PROVE  /\ BaseInv' /\ cur \in Inds /\ cur' = cur
         /\ \/ UNCHANGED <<es, alias>> /\ "fix" \in alias[cur]
            \/ /\ es' \in Cells /\ Others(cur, "hot") /\ ~Left(cur, "hot")
               /\ alias'[cur] = (alias[cur] \cup {"fix"}) \ {"hot"}
               /\ alias[cur] # {"fix"}
               /\ \A j \in Inds : j # cur => alias'[j] = alias[j]
<1>1. TypeOK /\ Cursor /\ Aliased /\ BaseAt
  BY DEF BaseInv
<1>2. pc = "swap" /\ pc' = "drop" /\ Quiet /\ autoCreate' = autoCreate /\ unseen' = unseen
  BY DEF FixSwap, At
<1>3. cur \in Inds /\ There(cur, "fix") /\ alias[cur] \subseteq Names
  BY <1>1, <1>2, CurIsIndex DEF BaseAt, TypeOK
<1>4. CASE UNCHANGED <<es, alias>> /\ "fix" \in alias[cur]
  <2>1. es' \in Cells /\ Unmoved
    BY <1>1, <1>4, CellsTyped DEF Unmoved, Left, There
  <2>2. TypeOK' /\ Cursor' /\ Aliased' /\ cur' = cur
    BY <1>1, <1>2, <2>1, UnmovedCovers, QuietBase DEF Places
  <2> QED
    BY <1>2, <1>3, <1>4, <2>2 DEF BaseInv, BaseAt, There
<1>5. CASE /\ alias' = [alias EXCEPT ![cur] = (@ \cup {"fix"}) \ {"hot"}]
           /\ es' = [es EXCEPT ![cur]["hot"] = Absent]
           /\ \E k \in alias[cur] : k # "fix"
  <2> DEFINE A == (alias[cur] \cup {"fix"}) \ {"hot"}
  <2>1. es' \in Cells /\ Others(cur, "hot") /\ ~Left(cur, "hot")
    <3> DEFINE c == cur
    <3>1. c \in Inds /\ "hot" \in Names /\ es' = [es EXCEPT ![c]["hot"] = Absent]
      BY <1>3, <1>5 DEF Names
    <3>2. es' \in Cells /\ es'[c]["hot"] = Absent /\ Others(c, "hot")
      BY <1>1, <3>1, CellsTyped, PutCell
    <3> QED
      BY <3>2 DEF Left
  <2>2. A \in SUBSET Names /\ A # {} /\ alias' = [alias EXCEPT ![cur] = A]
    BY <1>1, <1>3, <1>5 DEF Names, TypeOK
  <2>3. \A l \in A : Left(cur, l)
    BY <1>1, <1>3, <2>1, <2>2 DEF Others, Left, There, Aliased
  <2> HIDE DEF A
  <2>4. Covered /\ alias' \in Aliases /\ alias'[cur] = A
    BY <1>1, <1>3, <2>1, <2>2, <2>3, SwapDrop DEF Names
  <2>5. TypeOK' /\ Cursor' /\ Aliased' /\ cur' = cur
    BY <1>1, <1>2, <2>1, <2>4, QuietBase DEF Places
  <2>6. There(cur, "fix")' /\ "fix" \in alias'[cur]
    BY <1>3, <2>1, <2>4, <2>5 DEF Others, There, A, Names
  <2>7. BaseInv'
    BY <1>2, <2>5, <2>6 DEF BaseInv, BaseAt
  <2>8. \A j \in Inds : j # cur => alias'[j] = alias[j]
    BY <1>1, <2>2 DEF TypeOK
  <2> QED
    BY <1>3, <1>5, <2>1, <2>4, <2>5, <2>7, <2>8 DEF A
<1> QED
  BY <1>4, <1>5 DEF FixSwap

\* An index of the current one goes and its alias changes.
LEMMA DropCell ==
  ASSUME TypeOK, cur \in Inds, NEW k \in Names, es' = [es EXCEPT ![cur][k] = Absent]
  PROVE  es' \in Cells /\ Others(cur, k) /\ ~Left(cur, k)
<1> DEFINE c == cur
<1>1. c \in Inds /\ es' = [es EXCEPT ![c][k] = Absent]
  OBVIOUS
<1>2. es' \in Cells /\ es'[c][k] = Absent /\ Others(c, k)
  BY <1>1, CellsTyped, PutCell
<1> QED
  BY <1>2 DEF Left

LEMMA BaseFixDrop ==
  ASSUME BaseInv, FixDrop
  PROVE  /\ BaseInv' /\ cur \in Inds /\ cur' = cur
         /\ es' \in Cells /\ Others(cur, "hot") /\ ~Left(cur, "hot")
         /\ alias'[cur] = alias[cur] \ {"hot"}
         /\ \A j \in Inds : j # cur => alias'[j] = alias[j]
<1>1. TypeOK /\ Cursor /\ Aliased /\ BaseAt
  BY DEF BaseInv
<1>2. /\ pc = "drop" /\ pc' = "resize" /\ Quiet /\ autoCreate' = autoCreate /\ unseen' = unseen
      /\ es' = [es EXCEPT ![cur]["hot"] = Absent]
      /\ alias' = [alias EXCEPT ![cur] = @ \ {"hot"}]
  BY DEF FixDrop, At
<1>3. /\ cur \in Inds /\ There(cur, "fix") /\ "fix" \in alias[cur]
      /\ alias[cur] \subseteq Names /\ "hot" \in Names /\ "fix" \in Names
  BY <1>1, <1>2, CurIsIndex DEF BaseAt, TypeOK, Names
<1>4. es' \in Cells /\ Others(cur, "hot") /\ ~Left(cur, "hot")
  BY <1>1, <1>2, <1>3, DropCell
<1> DEFINE A == alias[cur] \ {"hot"}
<1>5. A \in SUBSET Names /\ A # {} /\ alias' = [alias EXCEPT ![cur] = A] /\ "fix" \in A
  BY <1>1, <1>2, <1>3 DEF TypeOK
<1>6. \A l \in A : Left(cur, l)
  BY <1>1, <1>3, <1>4, <1>5 DEF Others, Left, There, Aliased
<1>7. A = alias[cur] \ {"hot"}
  OBVIOUS
<1> HIDE DEF A
<1>8. Covered /\ alias' \in Aliases /\ alias'[cur] = A
  BY <1>1, <1>3, <1>4, <1>5, <1>6, SwapDrop
<1>9. TypeOK' /\ Cursor' /\ Aliased' /\ cur' = cur
  BY <1>1, <1>2, <1>4, <1>8, QuietBase DEF Places
<1>10. There(cur, "fix")' /\ "fix" \in alias'[cur]
  BY <1>3, <1>4, <1>5, <1>8, <1>9 DEF Others, There
<1>11. BaseInv'
  BY <1>2, <1>9, <1>10 DEF BaseInv, BaseAt
<1>12. \A j \in Inds : j # cur => alias'[j] = alias[j]
  BY <1>1, <1>5 DEF TypeOK
<1> QED
  BY <1>3, <1>4, <1>7, <1>8, <1>9, <1>11, <1>12

LEMMA BaseFixResize ==
  ASSUME BaseInv, FixResize
  PROVE  BaseInv'
<1>1. TypeOK /\ Cursor /\ Aliased /\ BaseAt
  BY DEF BaseInv
<1>2. /\ pc = "resize" /\ pc' = "switch" /\ Quiet /\ alias' = alias /\ autoCreate' = autoCreate
      /\ unseen' = [unseen EXCEPT ![cur] = {}]
  BY DEF FixResize, At
<1>3. cur \in Inds /\ There(cur, "fix")
  BY <1>1, <1>2, CurIsIndex DEF BaseAt
<1>4. es' \in Cells /\ Others(cur, "hot") /\ Left(cur, "hot")
  BY <1>1, <1>3, FixResizeDoes
<1>5. Covered /\ alias' \in Aliases
  BY <1>1, <1>2, <1>3, <1>4 DEF Covered, Aliases, TypeOK, Aliased, Others, Left, There
<1>6. TypeOK' /\ Cursor' /\ Aliased' /\ cur' = cur
  BY <1>1, <1>2, <1>4, <1>5, MadeBase DEF Places
<1>7. There(cur, "fix")' /\ There(cur, "hot")'
  BY <1>3, <1>4, <1>6 DEF Left, There, Others, Names
<1> QED
  BY <1>2, <1>6, <1>7 DEF BaseInv, BaseAt

LEMMA BaseFixSwitch ==
  ASSUME BaseInv, FixSwitch
  PROVE  /\ BaseInv' /\ cur \in Inds /\ cur' = cur
         /\ es' \in Cells /\ Others(cur, "fix") /\ ~Left(cur, "fix")
         /\ alias'[cur] = (alias[cur] \cup {"hot"}) \ {"fix"}
         /\ \A j \in Inds : j # cur => alias'[j] = alias[j]
<1>1. TypeOK /\ Cursor /\ Aliased /\ BaseAt
  BY DEF BaseInv
<1>2. /\ pc = "switch" /\ pc' = "unblock" /\ Quiet /\ autoCreate' = autoCreate /\ unseen' = unseen
      /\ es' = [es EXCEPT ![cur]["fix"] = Absent]
      /\ alias' = [alias EXCEPT ![cur] = (@ \cup {"hot"}) \ {"fix"}]
  BY DEF FixSwitch, At
<1>3. /\ cur \in Inds /\ There(cur, "hot")
      /\ alias[cur] \subseteq Names /\ "hot" \in Names /\ "fix" \in Names
  BY <1>1, <1>2, CurIsIndex DEF BaseAt, TypeOK, Names
<1>4. es' \in Cells /\ Others(cur, "fix") /\ ~Left(cur, "fix")
  BY <1>1, <1>2, <1>3, DropCell
<1> DEFINE A == (alias[cur] \cup {"hot"}) \ {"fix"}
<1>5. A \in SUBSET Names /\ A # {} /\ alias' = [alias EXCEPT ![cur] = A] /\ "hot" \in A
  BY <1>1, <1>2, <1>3 DEF TypeOK
<1>6. \A l \in A : Left(cur, l)
  BY <1>1, <1>3, <1>4, <1>5 DEF Others, Left, There, Aliased
<1>7. A = (alias[cur] \cup {"hot"}) \ {"fix"}
  OBVIOUS
<1> HIDE DEF A
<1>8. Covered /\ alias' \in Aliases /\ alias'[cur] = A
  BY <1>1, <1>3, <1>4, <1>5, <1>6, SwapDrop
<1>9. TypeOK' /\ Cursor' /\ Aliased' /\ cur' = cur
  BY <1>1, <1>2, <1>4, <1>8, QuietBase DEF Places
<1>10. BaseInv'
  BY <1>2, <1>9 DEF BaseInv, BaseAt
<1>11. \A j \in Inds : j # cur => alias'[j] = alias[j]
  BY <1>1, <1>5 DEF TypeOK
<1> QED
  BY <1>3, <1>4, <1>7, <1>8, <1>9, <1>10, <1>11

LEMMA BaseReCreate ==
  ASSUME BaseInv, ReCreate
  PROVE  /\ BaseInv' /\ cur \in Inds /\ cur' = cur
         /\ es' \in Cells /\ Others(cur, "re") /\ Left(cur, "re") /\ alias' = alias
<1>1. TypeOK /\ Cursor /\ Aliased
  BY DEF BaseInv
<1> DEFINE v == [docs |-> {}, shards |-> TargetShards[cur], replicas |-> Replicas,
                 blocked |-> FALSE, pinned |-> FALSE]
           c == cur
<1>2. /\ pc = "recheck" /\ pc' = "realias" /\ Quiet /\ alias' = alias /\ autoCreate' = autoCreate
      /\ unseen' = unseen
      /\ There(cur, "hot") /\ es' = [es EXCEPT ![c]["re"] = v]
  BY DEF ReCreate, At
<1>3. c \in Inds /\ cur \in Inds /\ "re" \in Names
  BY <1>1, <1>2, CurIsIndex DEF Names
<1>4. TargetShards[cur] \in Nat /\ Replicas \in Nat
  BY <1>3, MaintenanceAssumption DEF Inds
<1>5. v \in Index
  BY <1>4 DEF Index
<1>6. es' \in Cells /\ Others(c, "re") /\ Left(c, "re")
  <2> HIDE DEF v
  <2>1. es' \in Cells /\ es'[c]["re"] = v /\ Others(c, "re")
    BY <1>1, <1>2, <1>3, <1>5, CellsTyped, PutCell
  <2> QED
    BY <1>5, <2>1, AbsentAssumption DEF Left
<1>7. Covered /\ alias' \in Aliases
  BY <1>1, <1>2, <1>3, <1>6 DEF Covered, Aliases, TypeOK, Aliased, Others, Left, There
<1>8. TypeOK' /\ Cursor' /\ Aliased' /\ cur' = cur
  BY <1>1, <1>2, <1>6, <1>7, QuietBase DEF Places
<1>9. There(cur, "re")' /\ There(cur, "hot")'
  BY <1>2, <1>3, <1>6, <1>8 DEF Left, There, Others, Names
<1> QED
  BY <1>2, <1>3, <1>6, <1>8, <1>9 DEF BaseInv, BaseAt

LEMMA BaseReAlias ==
  ASSUME BaseInv, ReAlias
  PROVE  /\ BaseInv' /\ cur \in Inds /\ cur' = cur /\ es' = es
         /\ alias'[cur] = IF "hot" \in alias[cur] THEN alias[cur] \cup {"re"} ELSE alias[cur]
         /\ \A j \in Inds : j # cur => alias'[j] = alias[j]
<1>1. TypeOK /\ Cursor /\ Aliased /\ BaseAt
  BY DEF BaseInv
<1> DEFINE A == IF "hot" \in alias[cur] THEN alias[cur] \cup {"re"} ELSE alias[cur]
<1>2. /\ pc = "realias" /\ pc' = "copy" /\ Quiet /\ autoCreate' = autoCreate
      /\ unseen' = unseen /\ es' = es
      /\ alias' = [alias EXCEPT ![cur] = A]
  BY DEF ReAlias, At
<1>3. /\ cur \in Inds /\ There(cur, "hot") /\ There(cur, "re")
      /\ alias[cur] \subseteq Names /\ "re" \in Names
  BY <1>1, <1>2, CurIsIndex DEF BaseAt, TypeOK, Names
<1>4. es' \in Cells /\ Others(cur, "re")
  BY <1>1, <1>2, CellsTyped DEF Others
<1>5. A \in SUBSET Names /\ A # {} /\ ("hot" \in A => "re" \in A)
      /\ A = IF "hot" \in alias[cur] THEN alias[cur] \cup {"re"} ELSE alias[cur]
  BY <1>1, <1>3 DEF TypeOK
<1>6. \A l \in A : Left(cur, l)
  BY <1>1, <1>2, <1>3 DEF Left, There, Aliased
<1> HIDE DEF A
<1>7. Covered /\ alias' \in Aliases /\ alias'[cur] = A
  BY <1>1, <1>2, <1>3, <1>4, <1>5, <1>6, SwapDrop
<1>8. TypeOK' /\ Cursor' /\ Aliased' /\ cur' = cur
  BY <1>1, <1>2, <1>4, <1>7, QuietBase DEF Places
<1>9. There(cur, "re")' /\ There(cur, "hot")' /\ ("hot" \in alias'[cur] => "re" \in alias'[cur])
  BY <1>2, <1>3, <1>5, <1>7, <1>8 DEF There
<1>10. BaseInv'
  BY <1>2, <1>8, <1>9 DEF BaseInv, BaseAt
<1>11. \A j \in Inds : j # cur => alias'[j] = alias[j]
  BY <1>1, <1>2 DEF TypeOK
<1> QED
  BY <1>2, <1>3, <1>5, <1>7, <1>8, <1>10, <1>11

LEMMA BaseReCopy ==
  ASSUME BaseInv, ReCopy
  PROVE  /\ BaseInv' /\ cur \in Inds /\ cur' = cur /\ Unmoved
         /\ es' \in Cells /\ Others(cur, "re")
         /\ es'[cur]["re"].docs =
              es[cur]["re"].docs \cup (es[cur]["hot"].docs \ unseen[cur])
         /\ late' = [late EXCEPT ![cur] = @ \cup unseen[cur]]
<1>1. TypeOK /\ Cursor /\ Aliased /\ BaseAt
  BY DEF BaseInv
<1> DEFINE v == [es[cur]["re"] EXCEPT !.docs = @ \cup (es[cur]["hot"].docs \ unseen[cur])]
           c == cur
<1>2. /\ pc = "copy" /\ pc' = "delete" /\ Steady /\ alias' = alias /\ autoCreate' = autoCreate
      /\ unseen' = unseen
      /\ es' = [es EXCEPT ![c]["re"] = v]
      /\ late' = [late EXCEPT ![cur] = @ \cup unseen[cur]]
  BY DEF ReCopy, At
<1>3. /\ c \in Inds /\ cur \in Inds /\ "re" \in Names /\ "hot" \in Names
      /\ There(cur, "re") /\ There(cur, "hot")
      /\ "hot" \in alias[cur] => "re" \in alias[cur]
  BY <1>1, <1>2, CurIsIndex DEF Names, BaseAt
<1>4. es[cur]["re"] \in Index /\ es[cur]["hot"] \in Index
  BY <1>1, <1>3 DEF TypeOK, There
<1>5. /\ v \in Index
      /\ v.docs = es[cur]["re"].docs \cup (es[cur]["hot"].docs \ unseen[cur])
  BY <1>4 DEF Index
<1>6. es' \in Cells /\ es'[c]["re"] = v /\ Others(c, "re") /\ Left(c, "re")
  <2> HIDE DEF v
  <2>1. es' \in Cells /\ es'[c]["re"] = v /\ Others(c, "re")
    BY <1>1, <1>2, <1>3, <1>5, CellsTyped, PutCell
  <2> QED
    BY <1>5, <2>1, AbsentAssumption DEF Left
<1>7. Unmoved
  BY <1>2, <1>3, <1>6 DEF Unmoved, Others, Left, There
<1>8. TypeOK' /\ Cursor' /\ Aliased' /\ cur' = cur
  <2>1. late' \in Saves /\ unseen' \in Saves
    BY <1>1, <1>2 DEF TypeOK, Saves
  <2> QED
    BY <1>1, <1>2, <1>6, <1>7, <2>1, UnmovedCovers, SteadyBase DEF Places
<1>9. There(cur, "re")' /\ There(cur, "hot")' /\ alias' = alias
  BY <1>2, <1>3, <1>7, <1>8 DEF Left, There, Unmoved
<1>10. BaseInv'
  BY <1>2, <1>3, <1>8, <1>9 DEF BaseInv, BaseAt
<1> QED
  BY <1>2, <1>3, <1>5, <1>6, <1>7, <1>8, <1>10

LEMMA BaseReDelete ==
  ASSUME BaseInv, ReDelete
  PROVE  /\ BaseInv' /\ cur \in Inds /\ cur' = cur
         /\ es' \in Cells /\ Others(cur, "hot") /\ ~Left(cur, "hot")
         /\ alias'[cur] = alias[cur] \ {"hot"}
         /\ \A j \in Inds : j # cur => alias'[j] = alias[j]
<1>1. TypeOK /\ Cursor /\ Aliased /\ BaseAt
  BY DEF BaseInv
<1>2. /\ pc = "delete" /\ pc' = "reblock" /\ Quiet /\ autoCreate' = autoCreate /\ unseen' = unseen
      /\ es' = [es EXCEPT ![cur]["hot"] = Absent]
      /\ alias' = [alias EXCEPT ![cur] = @ \ {"hot"}]
  BY DEF ReDelete, At
<1>3. /\ cur \in Inds /\ There(cur, "re") /\ ("hot" \in alias[cur] => "re" \in alias[cur])
      /\ alias[cur] \subseteq Names /\ "hot" \in Names /\ "re" \in Names
  BY <1>1, <1>2, CurIsIndex DEF BaseAt, TypeOK, Names
<1>4. es' \in Cells /\ Others(cur, "hot") /\ ~Left(cur, "hot")
  BY <1>1, <1>2, <1>3, DropCell
<1> DEFINE A == alias[cur] \ {"hot"}
<1>5. A \in SUBSET Names /\ A # {} /\ alias' = [alias EXCEPT ![cur] = A]
  BY <1>1, <1>2, <1>3 DEF TypeOK
<1>6. \A l \in A : Left(cur, l)
  BY <1>1, <1>3, <1>4, <1>5 DEF Others, Left, There, Aliased
<1>7. A = alias[cur] \ {"hot"}
  OBVIOUS
<1> HIDE DEF A
<1>8. Covered /\ alias' \in Aliases /\ alias'[cur] = A
  BY <1>1, <1>3, <1>4, <1>5, <1>6, SwapDrop
<1>9. TypeOK' /\ Cursor' /\ Aliased' /\ cur' = cur
  BY <1>1, <1>2, <1>4, <1>8, QuietBase DEF Places
<1>10. There(cur, "re")'
  BY <1>3, <1>4, <1>9 DEF Others, There
<1>11. BaseInv'
  BY <1>2, <1>9, <1>10 DEF BaseInv, BaseAt
<1>12. \A j \in Inds : j # cur => alias'[j] = alias[j]
  BY <1>1, <1>5 DEF TypeOK
<1> QED
  BY <1>3, <1>4, <1>7, <1>8, <1>9, <1>11, <1>12

LEMMA BaseReBlock ==
  ASSUME BaseInv, ReBlock
  PROVE  BaseInv'
<1>1. TypeOK /\ Cursor /\ Aliased /\ BaseAt
  BY DEF BaseInv
<1>2. /\ pc = "reblock" /\ pc' = "reclone" /\ SetBlock(TRUE) /\ Quiet /\ alias' = alias
      /\ autoCreate' = autoCreate /\ unseen' = unseen
  BY DEF ReBlock, At
<1>3. es' \in Cells /\ Unmoved
  BY <1>1, <1>2, BlockUnmoved
<1>4. TypeOK' /\ Cursor' /\ Aliased' /\ cur' = cur /\ cur \in Inds
  BY <1>1, <1>2, <1>3, UnmovedCovers, QuietBase DEF Places
<1>5. There(cur, "re")'
  BY <1>1, <1>2, <1>3, <1>4 DEF Unmoved, Left, There, Names, BaseAt
<1> QED
  BY <1>2, <1>4, <1>5 DEF BaseInv, BaseAt

LEMMA BaseReClone ==
  ASSUME BaseInv, ReClone
  PROVE  /\ BaseInv' /\ cur \in Inds /\ cur' = cur
         /\ es' \in Cells /\ Others(cur, "hot") /\ Left(cur, "hot") /\ alias' = alias
         /\ es'[cur]["hot"].docs = es[cur]["re"].docs
         /\ es'[cur]["hot"].replicas = Replicas
<1>1. TypeOK /\ Cursor /\ Aliased /\ BaseAt
  BY DEF BaseInv
<1> DEFINE v == [es[cur]["re"] EXCEPT !.replicas = Replicas]
           c == cur
<1>2. /\ pc = "reclone" /\ pc' = "reswitch" /\ Quiet /\ alias' = alias
      /\ autoCreate' = autoCreate /\ unseen' = [unseen EXCEPT ![cur] = {}]
      /\ es' = [es EXCEPT ![c]["hot"] = v]
  BY DEF ReClone, At
<1>3. /\ c \in Inds /\ cur \in Inds /\ "re" \in Names /\ "hot" \in Names /\ There(cur, "re")
  BY <1>1, <1>2, CurIsIndex DEF Names, BaseAt
<1>4. es[cur]["re"] \in Index /\ Replicas \in Nat
  BY <1>1, <1>3, MaintenanceAssumption DEF TypeOK, There
<1>5. v \in Index /\ v.docs = es[cur]["re"].docs /\ v.replicas = Replicas
  BY <1>4 DEF Index
<1>6. es' \in Cells /\ es'[c]["hot"] = v /\ Others(c, "hot") /\ Left(c, "hot")
  <2> HIDE DEF v
  <2>1. es' \in Cells /\ es'[c]["hot"] = v /\ Others(c, "hot")
    BY <1>1, <1>2, <1>3, <1>5, CellsTyped, PutCell
  <2> QED
    BY <1>5, <2>1, AbsentAssumption DEF Left
<1>7. Covered /\ alias' \in Aliases
  BY <1>1, <1>2, <1>3, <1>6 DEF Covered, Aliases, TypeOK, Aliased, Others, Left, There
<1>8. TypeOK' /\ Cursor' /\ Aliased' /\ cur' = cur
  BY <1>1, <1>2, <1>6, <1>7, MadeBase DEF Places
<1>9. There(cur, "re")' /\ There(cur, "hot")'
  BY <1>3, <1>6, <1>8 DEF Left, There, Others, Names
<1>10. BaseInv'
  BY <1>2, <1>8, <1>9 DEF BaseInv, BaseAt
<1> QED
  BY <1>2, <1>3, <1>5, <1>6, <1>8, <1>10

LEMMA BaseReSwitch ==
  ASSUME BaseInv, ReSwitch
  PROVE  /\ BaseInv' /\ cur \in Inds /\ cur' = cur
         /\ es' \in Cells /\ Others(cur, "re") /\ ~Left(cur, "re")
         /\ alias'[cur] = IF "re" \in alias[cur] THEN (alias[cur] \cup {"hot"}) \ {"re"}
                          ELSE alias[cur]
         /\ \A j \in Inds : j # cur => alias'[j] = alias[j]
<1>1. TypeOK /\ Cursor /\ Aliased /\ BaseAt
  BY DEF BaseInv
<1> DEFINE A == IF "re" \in alias[cur] THEN (alias[cur] \cup {"hot"}) \ {"re"} ELSE alias[cur]
<1>2. /\ pc = "reswitch" /\ pc' = "reunblock" /\ Quiet /\ autoCreate' = autoCreate /\ unseen' = unseen
      /\ es' = [es EXCEPT ![cur]["re"] = Absent]
      /\ alias' = [alias EXCEPT ![cur] = A]
  BY DEF ReSwitch, At
<1>3. /\ cur \in Inds /\ There(cur, "hot")
      /\ alias[cur] \subseteq Names /\ "hot" \in Names /\ "re" \in Names
  BY <1>1, <1>2, CurIsIndex DEF BaseAt, TypeOK, Names
<1>4. es' \in Cells /\ Others(cur, "re") /\ ~Left(cur, "re")
  BY <1>1, <1>2, <1>3, DropCell
<1>5. A \in SUBSET Names /\ A # {} /\ "re" \notin A
  <2>1. alias[cur] # {}
    BY <1>1, <1>3 DEF TypeOK
  <2>2. CASE "re" \in alias[cur]
    <3>1. A = (alias[cur] \cup {"hot"}) \ {"re"}
      BY <2>2
    <3>2. "hot" \in A
      BY <3>1
    <3> QED
      BY <1>3, <3>1, <3>2
  <2>3. CASE "re" \notin alias[cur]
    BY <1>3, <2>1, <2>3
  <2> QED
    BY <2>2, <2>3
<1>6. \A l \in A : Left(cur, l)
  BY <1>1, <1>3, <1>4, <1>5 DEF Others, Left, There, Aliased
<1>7. A = IF "re" \in alias[cur] THEN (alias[cur] \cup {"hot"}) \ {"re"} ELSE alias[cur]
  OBVIOUS
<1> HIDE DEF A
<1>8. Covered /\ alias' \in Aliases /\ alias'[cur] = A
  BY <1>1, <1>2, <1>3, <1>4, <1>5, <1>6, SwapDrop
<1>9. TypeOK' /\ Cursor' /\ Aliased' /\ cur' = cur
  BY <1>1, <1>2, <1>4, <1>8, QuietBase DEF Places
<1>10. BaseInv'
  BY <1>2, <1>9 DEF BaseInv, BaseAt
<1>11. \A j \in Inds : j # cur => alias'[j] = alias[j]
  BY <1>1, <1>2 DEF TypeOK
<1> QED
  BY <1>3, <1>4, <1>7, <1>8, <1>9, <1>10, <1>11

LEMMA BaseFixFinish ==
  ASSUME BaseInv, FixFinish
  PROVE  BaseInv'
<1>1. TypeOK /\ Cursor /\ Aliased
  BY DEF BaseInv
<1>2. NextIndex("finish") /\ UNCHANGED <<alias, autoCreate, unseen>> /\ pc = "finish"
  BY DEF FixFinish, NextIndex
<1>3. cur \in Inds
  BY <1>1, <1>2, CurIsIndex
<1>4. es' \in Cells /\ FinishSets /\ \A j \in Inds, l \in Names : j # cur => es'[j][l] = es[j][l]
  BY <1>1, FixFinishDoes
<1>5. Unmoved
  BY <1>2, <1>3, <1>4 DEF Unmoved, FinishSets, Left, There
<1> QED
  BY <1>2, <1>4, <1>5, BaseNextIndex DEF Places

LEMMA BaseStays ==
  ASSUME BaseInv, UNCHANGED vars
  PROVE  BaseInv'
  BY DEF vars, dataVars, cmdVars, histVars, BaseInv, TypeOK, Cursor, Aliased, BaseAt, There, cur

LEMMA BaseStep == BaseInv /\ [Next]_vars => BaseInv'
<1> SUFFICES ASSUME BaseInv, [Next]_vars PROVE BaseInv'
  OBVIOUS
<1>1. TypeOK /\ Cursor /\ Aliased /\ es \in Cells
  BY CellsTyped DEF BaseInv
<1>2. UNCHANGED <<es, alias>> => es' \in Cells /\ Unmoved
  BY <1>1 DEF Unmoved, Left, There
<1>3. ASSUME NEW i \in Inds, NEW d \in Docs, Save(i, d) PROVE BaseInv'
  BY <1>3, BaseSave
<1>4. ASSUME NEW c \in {"fix", "reindex"}, Start(c) PROVE BaseInv'
  <2>1. commands' \in 0 .. MaxCommands
    BY <1>1, <1>4, MaintenanceAssumption DEF Start, TypeOK
  <2> QED
    BY <1>4, <2>1, BaseBegin DEF Start
<1>5. CASE Repeat
  BY <1>1, <1>5, BaseBegin DEF Repeat, TypeOK
<1>6. CASE Crash
  <2>1. crashes' \in 0 .. MaxCrashes
    BY <1>1, <1>6, MaintenanceAssumption DEF Crash, TypeOK
  <2> QED
    BY <1>2, <1>6, <2>1, BaseAbandon DEF Crash, dataVars
<1>7. CASE FixFails
  BY <1>1, <1>2, <1>7, BaseAbandon DEF FixFails, Raise, dataVars, TypeOK
<1>8. CASE FixUnblock
  BY <1>1, <1>8, BlockUnmoved, BaseMoves DEF FixUnblock, At
<1>9. CASE FixStep
  BY <1>7, <1>8, <1>9, BaseFixCheck, BaseFixRefuse, BaseFixBlock, BaseFixPin, BaseFixClone,
     BaseFixSwap, BaseFixDrop, BaseFixResize, BaseFixSwitch, BaseFixFinish DEF FixStep
<1>10. CASE RePass
  BY <1>2, <1>10, BaseNextIndex DEF RePass, dataVars, Places
<1>11. CASE ReUnblock
  <2>1. SetBlock(FALSE) /\ NextIndex("reunblock") /\ UNCHANGED <<alias, autoCreate, unseen>>
    BY <1>11 DEF ReUnblock
  <2>2. es' \in Cells /\ Unmoved
    BY <1>1, <2>1, BlockUnmoved
  <2> QED
    BY <2>1, <2>2, BaseNextIndex DEF Places
<1>12. CASE ReCloneFails
  <2>1. SetBlock(FALSE) /\ Abandon /\ UNCHANGED <<alias, autoCreate, unseen, crashes>>
    BY <1>12 DEF ReCloneFails
  <2>2. es' \in Cells /\ Unmoved
    BY <1>1, <2>1, BlockUnmoved
  <2> QED
    BY <1>1, <2>1, <2>2, BaseAbandon DEF TypeOK
<1>13. CASE ReStep
  BY <1>10, <1>11, <1>12, <1>13, BaseReCreate, BaseReAlias, BaseReCopy, BaseReDelete,
     BaseReBlock, BaseReClone, BaseReSwitch DEF ReStep
<1>14. CASE UNCHANGED vars
  BY <1>14, BaseStays
<1> QED
  BY <1>3, <1>4, <1>5, <1>6, <1>9, <1>13, <1>14, BaseRefresh DEF Next, Idle

LEMMA BaseInit == Init => BaseInv
<1> SUFFICES ASSUME Init PROVE BaseInv
  OBVIOUS
<1>1. PICK n \in [Inds -> UNION Range(ShardCounts)] :
        /\ \A i \in Inds : n[i] \in ShardCounts[i]
        /\ es = [i \in Inds |->
                  [k \in Names |->
                     IF k # "hot" THEN Absent
                     ELSE [docs |-> Preloaded, shards |-> n[i], replicas |-> Replicas,
                           blocked |-> FALSE, pinned |-> FALSE]]]
  BY DEF Init
<1>2. ASSUME NEW i \in Inds
      PROVE  [docs |-> Preloaded, shards |-> n[i], replicas |-> Replicas,
              blocked |-> FALSE, pinned |-> FALSE] \in Index
  <2>1. n[i] \in Nat /\ Replicas \in Nat /\ Preloaded \subseteq Docs
    BY <1>1, MaintenanceAssumption DEF Inds
  <2> QED
    BY <2>1 DEF Index
<1>3. es \in [Inds -> [Names -> Index \cup {Absent}]] /\ \A i \in Inds : There(i, "hot")
  BY <1>1, <1>2, AbsentAssumption DEF There, Names
<1>4. /\ alias = [i \in Inds |-> {"hot"}]
      /\ autoCreate \in BOOLEAN /\ unseen = [i \in Inds |-> {}]
      /\ cmd = "fix" /\ todo = <<>> /\ pc = "idle"
      /\ method = "none" /\ curReplicas = Replicas /\ completed = "nothing"
      /\ commands = 0 /\ crashes = 0
      /\ saved = [i \in Inds |-> Preloaded] /\ late = [i \in Inds |-> {}]
      /\ spoiled = FALSE
  BY DEF Init
<1>5. alias \in [Inds -> (SUBSET Names) \ {{}}]
  BY <1>4 DEF Names
<1>6. Preloaded \subseteq Docs /\ {Replicas, MaxCommands, MaxCrashes} \subseteq Nat
  BY MaintenanceAssumption
<1>7. saved \in [Inds -> SUBSET Docs] /\ late \in [Inds -> SUBSET Docs]
      /\ unseen \in [Inds -> SUBSET Docs]
  BY <1>4, <1>6
<1>8. <<>> \in Seq(Inds) /\ commands \in 0 .. MaxCommands /\ crashes \in 0 .. MaxCrashes
      /\ curReplicas \in Nat
  BY <1>4, <1>6
<1>9. TypeOK
  BY <1>3, <1>4, <1>5, <1>7, <1>8 DEF TypeOK
<1> QED
  BY <1>3, <1>4, <1>9 DEF BaseInv, Cursor, Aliased, BaseAt

\* Every variable keeps its type, for any indexes, numbers of shards, commands
\* and deaths: what is under an alias is there, and so is what a command goes on
\* to read (fix_shards and reindex of collection.py).
THEOREM MaintenanceTypeCorrect == Spec => []TypeOK
<1>1. BaseInv => TypeOK
  BY DEF BaseInv
<1> QED
  BY <1>1, BaseInit, BaseStep, PTL DEF Spec

----------------------------------------------------------------------------
(* The documents are somewhere. *)

\* What was saved to an index before any copy of it, and has to be somewhere.
Due(i)     == saved[i] \ late[i]
Full(i, k) == There(i, k) /\ Due(i) \subseteq es[i][k].docs

\* A copy by fix_shards counts for more than the index itself, which may have
\* been made anew by Elasticsearch; one by reindex counts once it is full.
Somewhere(i) ==
  \/ Full(i, "re")
  \/ Full(i, "fix")
  \/ ~There(i, "fix") /\ Full(i, "hot")

CloneFull(i) == There(i, "fix") => Full(i, "fix")

KeepAt ==
  \/ pc \in {"idle", "check", "block", "pin", "clone", "swap", "drop", "resize", "unblock",
             "finish", "recheck", "reunblock"}
  \/ pc = "switch" /\ (Full(cur, "hot") \/ Full(cur, "re"))
  \/ /\ pc \in {"realias", "copy", "reswitch"} /\ CloneFull(cur)
     /\ There(cur, "fix") \/ Full(cur, "hot")
  \/ /\ pc \in {"delete", "reblock", "reclone"} /\ CloneFull(cur)
     /\ There(cur, "fix") \/ Full(cur, "re")

KeepInv == BaseInv /\ (\A i \in Inds : Somewhere(i)) /\ KeepAt

LEMMA KeepInvKeeps == KeepInv => SavedKept
  BY DEF KeepInv, Somewhere, SavedKept, Held, Full, Due, Names

FullAfter(i, k) == Left(i, k) /\ Due(i) \subseteq es'[i][k].docs

LEMMA FullPrimed ==
  ASSUME saved' = saved, late' = late
  PROVE  \A i, k : (Full(i, k)' <=> FullAfter(i, k)) /\ (There(i, k)' <=> Left(i, k))
  BY DEF Full, FullAfter, Due, There, Left

\* No index comes, goes or changes its documents.
DocsStay ==
  \A i \in Inds, k \in Names :
    /\ Left(i, k) <=> There(i, k)
    /\ There(i, k) => es'[i][k].docs = es[i][k].docs

LEMMA DocsStayFull ==
  ASSUME DocsStay
  PROVE  \A i \in Inds, k \in Names : FullAfter(i, k) <=> Full(i, k)
  BY DEF DocsStay, FullAfter, Full

LEMMA BlockDocsStay ==
  ASSUME BaseInv, NEW b \in BOOLEAN, SetBlock(b)
  PROVE  DocsStay
<1>1. BlockSet(b)
  BY SetBlockSets, CellsTyped DEF BaseInv
<1> QED
  BY <1>1 DEF BlockSet, DocsStay

\* Another step of the command that leaves the documents where they are.
LEMMA KeepMoves ==
  ASSUME KeepInv, BaseInv', saved' = saved, late' = late, DocsStay,
         pc' \in {"idle", "check", "block", "pin", "clone", "swap", "drop", "resize", "unblock",
                  "finish", "recheck", "reunblock"}
  PROVE  KeepInv'
<1>1. \A i \in Inds : Somewhere(i)'
  BY FullPrimed, DocsStayFull DEF KeepInv, Somewhere, DocsStay, Names
<1> QED
  BY <1>1 DEF KeepInv, KeepAt

\* One index of the current one changes: the others keep what they have.
LEMMA KeepChanges ==
  ASSUME KeepInv, saved' = saved, late' = late, cur \in Inds, cur' = cur, NEW k \in Names,
         Others(cur, k)
  PROVE  /\ \A i \in Inds : i # cur => Somewhere(i)'
         /\ \A l \in Names : l # k => /\ Full(cur, l)' <=> Full(cur, l)
                                      /\ There(cur, l)' <=> There(cur, l)
         /\ Full(cur, k)' <=> FullAfter(cur, k)
         /\ There(cur, k)' <=> Left(cur, k)
<1>1. \A i \in Inds : \A l \in Names : i # cur \/ l # k =>
           (FullAfter(i, l) <=> Full(i, l)) /\ (Left(i, l) <=> There(i, l))
  BY DEF Others, FullAfter, Full, Left, There
<1>2. \A i \in Inds : i # cur => Somewhere(i)'
  BY <1>1, FullPrimed DEF KeepInv, Somewhere, Names
<1>3. \A l : (Full(cur, l)' <=> FullAfter(cur, l)) /\ (There(cur, l)' <=> Left(cur, l))
  BY DEF Full, FullAfter, Due, There, Left
<1> QED
  BY <1>1, <1>2, <1>3

LEMMA KeepSave ==
  ASSUME KeepInv, NEW i \in Inds, NEW d \in Docs, Save(i, d)
  PROVE  KeepInv'
<1>1. BaseInv' /\ TypeOK /\ Cursor
  BY BaseSave DEF KeepInv, BaseInv
<1>2. /\ Others(i, "hot") /\ Left(i, "hot") /\ d \in es'[i]["hot"].docs
      /\ There(i, "hot") => es[i]["hot"].docs \subseteq es'[i]["hot"].docs
  BY <1>1, SaveDoes
<1>3. /\ pc' = pc /\ todo' = todo /\ cur' = cur
      /\ saved' = [saved EXCEPT ![i] = @ \cup {d}]
      /\ late' = IF There(i, "fix") \/ There(i, "re")
                 THEN [late EXCEPT ![i] = @ \cup {d}] ELSE late
  BY DEF Save, cmdVars, cur
<1>4. \A j \in Inds : j # i => Due(j)' = Due(j)
  BY <1>1, <1>3 DEF TypeOK, Due
<1>5. There(i, "fix") \/ There(i, "re") => Due(i)' \subseteq Due(i)
  BY <1>1, <1>3 DEF TypeOK, Due
<1>6. Due(i)' \subseteq Due(i) \cup {d}
  BY <1>1, <1>3 DEF TypeOK, Due
<1>7. \A j \in Inds, k \in Names : There(j, k) => There(j, k)'
  BY <1>2 DEF Others, There, Left
<1>8. \A j \in Inds, k \in Names : There(j, k)' => There(j, k) \/ k = "hot"
  BY <1>2 DEF Others, There
<1>9. \A j \in Inds, k \in Names : Full(j, k) => Full(j, k)'
  <2>1. \A j \in Inds, k \in Names : j # i /\ Full(j, k) => Full(j, k)'
    BY <1>2, <1>4 DEF Others, There, Full
  <2>2. Full(i, "hot") => Full(i, "hot")'
    BY <1>2, <1>6 DEF Full, There, Left
  <2>3. \A k \in Names : k # "hot" /\ Full(i, k) => Full(i, k)'
    BY <1>2, <1>5 DEF Full, Others, There, Names
  <2> QED
    BY <2>1, <2>2, <2>3
<1>10. \A j \in Inds : Somewhere(j)'
  BY <1>8, <1>9 DEF KeepInv, Somewhere, Names
<1>11. KeepAt'
  <2>1. CASE pc = "idle"
    BY <1>3, <2>1 DEF KeepAt
  <2>2. CASE pc # "idle"
    <3>1. cur \in Inds
      BY <1>1, <2>2, CurIsIndex
    <3> DEFINE c == cur
    <3>2. \A k \in Names : (Full(c, k) => Full(c, k)') /\ (There(c, k) => There(c, k)')
                           /\ (There(c, k)' => There(c, k) \/ k = "hot")
      BY <1>3, <1>7, <1>8, <1>9, <3>1
    <3> QED
      BY <1>3, <3>2 DEF KeepInv, KeepAt, CloneFull, Names
  <2> QED
    BY <2>1, <2>2
<1> QED
  BY <1>1, <1>10, <1>11 DEF KeepInv

LEMMA KeepSomewhere ==
  ASSUME KeepInv, BaseInv', cur \in Inds, cur' = cur,
         \A i \in Inds : i # cur => Somewhere(i)', Somewhere(cur)', KeepAt'
  PROVE  KeepInv'
<1>1. \A i \in Inds : Somewhere(i)'
  <2>1. Somewhere(cur)' => \A i \in Inds : i = cur => Somewhere(i)'
    BY DEF Somewhere, Full, There, Due
  <2> QED
    BY <2>1
<1> QED
  BY <1>1 DEF KeepInv

LEMMA KeepFixClone ==
  ASSUME KeepInv, FixClone
  PROVE  KeepInv'
<1>1. BaseInv' /\ TypeOK /\ Cursor /\ BaseAt
  BY BaseFixClone DEF KeepInv, BaseInv
<1>2. pc = "clone" /\ pc' = "swap" /\ Quiet
  BY DEF FixClone, At
<1>3. saved' = saved /\ late' = late /\ cur' = cur /\ cur \in Inds
  BY <1>1, <1>2, CurIsIndex DEF Quiet, Steady, histVars, cur
<1>4. /\ Others(cur, "fix") /\ Left(cur, "fix")
      /\ es'[cur]["fix"].docs = es[cur]["hot"].docs
  BY <1>1, FixCloneDoes
<1>5. ~There(cur, "fix") /\ Somewhere(cur)
  BY <1>1, <1>2, <1>3 DEF BaseAt, KeepInv
<1>6. Full(cur, "hot") => FullAfter(cur, "fix")
  BY <1>4 DEF Full, FullAfter
<1>7. Somewhere(cur)' /\ \A i \in Inds : i # cur => Somewhere(i)'
  BY <1>3, <1>4, <1>5, <1>6, KeepChanges DEF Somewhere, Names, Full
<1> QED
  BY <1>1, <1>2, <1>3, <1>7, KeepSomewhere DEF KeepAt

\* The index under its own name goes while there is a temporary copy.
LEMMA KeepDropped ==
  ASSUME KeepInv, BaseInv', cur \in Inds, cur' = cur, saved' = saved, late' = late,
         Others(cur, "hot"), There(cur, "fix"), pc' \in {"drop", "resize"}
  PROVE  KeepInv'
<1>1. Somewhere(cur)
  BY DEF KeepInv
<1>2. Somewhere(cur)' /\ \A i \in Inds : i # cur => Somewhere(i)'
  BY <1>1, KeepChanges DEF Somewhere, Names
<1> QED
  BY <1>2, KeepSomewhere DEF KeepAt

LEMMA KeepFixSwap ==
  ASSUME KeepInv, FixSwap
  PROVE  KeepInv'
<1>1. pc = "swap" /\ pc' = "drop" /\ Quiet
  BY DEF FixSwap, At
<1>2. saved' = saved /\ late' = late /\ There(cur, "fix")
  BY <1>1 DEF Quiet, Steady, histVars, KeepInv, BaseInv, BaseAt
<1>3. /\ BaseInv' /\ cur \in Inds /\ cur' = cur
      /\ es' = es \/ Others(cur, "hot")
  BY BaseFixSwap DEF KeepInv
<1>4. Others(cur, "hot")
  BY <1>3 DEF Others
<1> QED
  BY <1>1, <1>2, <1>3, <1>4, KeepDropped

LEMMA KeepFixDrop ==
  ASSUME KeepInv, FixDrop
  PROVE  KeepInv'
<1>1. pc = "drop" /\ pc' = "resize" /\ Quiet
  BY DEF FixDrop, At
<1>2. saved' = saved /\ late' = late /\ There(cur, "fix")
  BY <1>1 DEF Quiet, Steady, histVars, KeepInv, BaseInv, BaseAt
<1>3. BaseInv' /\ cur \in Inds /\ cur' = cur /\ Others(cur, "hot")
  BY BaseFixDrop DEF KeepInv
<1> QED
  BY <1>1, <1>2, <1>3, KeepDropped

LEMMA KeepFixResize ==
  ASSUME KeepInv, FixResize
  PROVE  KeepInv'
<1>1. BaseInv' /\ TypeOK /\ Cursor /\ BaseAt
  BY BaseFixResize DEF KeepInv, BaseInv
<1>2. pc = "resize" /\ pc' = "switch" /\ Quiet
  BY DEF FixResize, At
<1>3. saved' = saved /\ late' = late /\ cur' = cur /\ cur \in Inds
  BY <1>1, <1>2, CurIsIndex DEF Quiet, Steady, histVars, cur
<1>4. There(cur, "fix") /\ Somewhere(cur)
  BY <1>1, <1>2, <1>3 DEF BaseAt, KeepInv
<1>5. /\ Others(cur, "hot") /\ Left(cur, "hot")
      /\ es'[cur]["hot"].docs = es[cur]["fix"].docs
  BY <1>1, <1>4, FixResizeDoes
<1>6. Full(cur, "fix") => FullAfter(cur, "hot")
  BY <1>5 DEF Full, FullAfter
<1>7. Somewhere(cur)' /\ (\A i \in Inds : i # cur => Somewhere(i)')
      /\ (Full(cur, "hot") \/ Full(cur, "re"))'
  BY <1>3, <1>4, <1>5, <1>6, KeepChanges DEF Somewhere, Names
<1> QED
  BY <1>1, <1>2, <1>3, <1>7, KeepSomewhere DEF KeepAt

LEMMA KeepFixSwitch ==
  ASSUME KeepInv, FixSwitch
  PROVE  KeepInv'
<1>1. pc = "switch" /\ pc' = "unblock" /\ Quiet
  BY DEF FixSwitch, At
<1>2. saved' = saved /\ late' = late /\ (Full(cur, "hot") \/ Full(cur, "re"))
  BY <1>1 DEF Quiet, Steady, histVars, KeepInv, KeepAt
<1>3. BaseInv' /\ cur \in Inds /\ cur' = cur /\ Others(cur, "fix") /\ ~Left(cur, "fix")
  BY BaseFixSwitch DEF KeepInv
<1>4. Somewhere(cur)' /\ \A i \in Inds : i # cur => Somewhere(i)'
  BY <1>2, <1>3, KeepChanges DEF Somewhere, Names
<1> QED
  BY <1>1, <1>3, <1>4, KeepSomewhere DEF KeepAt

LEMMA KeepReCreate ==
  ASSUME KeepInv, ReCreate
  PROVE  KeepInv'
<1>1. pc = "recheck" /\ pc' = "realias" /\ Quiet /\ ~There(cur, "re")
  BY DEF ReCreate, At
<1>2. saved' = saved /\ late' = late
  BY <1>1 DEF Quiet, Steady, histVars
<1>3. BaseInv' /\ cur \in Inds /\ cur' = cur /\ Others(cur, "re") /\ Left(cur, "re")
  BY BaseReCreate DEF KeepInv
<1>4. Somewhere(cur) /\ ~Full(cur, "re")
  BY <1>1, <1>3 DEF KeepInv, Full
<1>5. /\ Somewhere(cur)' /\ (\A i \in Inds : i # cur => Somewhere(i)')
      /\ (There(cur, "fix") => Full(cur, "fix"))' /\ (There(cur, "fix") \/ Full(cur, "hot"))'
  BY <1>2, <1>3, <1>4, KeepChanges DEF Somewhere, Names, Full
<1> QED
  BY <1>1, <1>3, <1>5, KeepSomewhere DEF KeepAt, CloneFull

LEMMA KeepReAlias ==
  ASSUME KeepInv, ReAlias
  PROVE  KeepInv'
<1>1. pc = "realias" /\ pc' = "copy" /\ Quiet
  BY DEF ReAlias, At
<1>2. saved' = saved /\ late' = late /\ CloneFull(cur) /\ (There(cur, "fix") \/ Full(cur, "hot"))
  BY <1>1 DEF Quiet, Steady, histVars, KeepInv, KeepAt
<1>3. BaseInv' /\ cur \in Inds /\ cur' = cur /\ es' = es
  BY BaseReAlias DEF KeepInv
<1>4. KeepAt'
  BY <1>1, <1>2, <1>3 DEF KeepAt, CloneFull, There, Full, Due
<1>5. \A i \in Inds : Somewhere(i)'
  BY <1>2, <1>3 DEF KeepInv, Somewhere, There, Full, Due
<1> QED
  BY <1>3, <1>4, <1>5 DEF KeepInv

LEMMA KeepReCopy ==
  ASSUME KeepInv, ReCopy
  PROVE  KeepInv'
<1>1. pc = "copy" /\ pc' = "delete" /\ saved' = saved
  BY DEF ReCopy, At, Steady
<1>2. /\ CloneFull(cur) /\ There(cur, "re") /\ TypeOK
      /\ There(cur, "fix") \/ Full(cur, "hot")
  BY <1>1 DEF KeepInv, KeepAt, BaseInv, BaseAt
<1>3. /\ BaseInv' /\ cur \in Inds /\ cur' = cur /\ Unmoved /\ Others(cur, "re")
      /\ es'[cur]["re"].docs = es[cur]["re"].docs \cup (es[cur]["hot"].docs \ unseen[cur])
      /\ late' = [late EXCEPT ![cur] = @ \cup unseen[cur]]
  BY BaseReCopy DEF KeepInv
<1>4. /\ Due(cur)' = Due(cur) \ unseen[cur]
      /\ \A i \in Inds : i # cur => Due(i)' = Due(i)
  BY <1>1, <1>2, <1>3 DEF Due, TypeOK
<1>5. \A i \in Inds, k \in Names : There(i, k)' <=> There(i, k)
  BY <1>3 DEF Unmoved, Left, There
<1>6. \A i \in Inds, k \in Names : Full(i, k) => Full(i, k)'
  <2>1. \A i \in Inds, k \in Names : i # cur /\ Full(i, k) => Full(i, k)'
    BY <1>3, <1>4, <1>5 DEF Full, Others
  <2>2. \A k \in Names : k # "re" /\ Full(cur, k) => Full(cur, k)'
    BY <1>3, <1>4, <1>5 DEF Full, Others
  <2>3. Full(cur, "re") => Full(cur, "re")'
    BY <1>3, <1>4, <1>5 DEF Full, Names
  <2> QED
    <3>1. ASSUME NEW i \in Inds, NEW k \in Names, Full(i, k) PROVE Full(i, k)'
      <4>1. CASE i # cur
        BY <2>1, <3>1, <4>1
      <4>2. CASE i = cur
        BY <1>3, <2>2, <2>3, <3>1, <4>2 DEF Full, There, Due
      <4> QED
        BY <4>1, <4>2
    <3> QED
      BY <3>1
<1>7. Full(cur, "hot") => Full(cur, "re")'
  BY <1>2, <1>3, <1>4, <1>5 DEF Full, Names
<1>8. \A i \in Inds : Somewhere(i)'
  BY <1>5, <1>6 DEF KeepInv, Somewhere, Names
<1>9. /\ (There(cur, "fix") => Full(cur, "fix"))'
      /\ (There(cur, "fix") \/ Full(cur, "re"))'
  <2> DEFINE c == cur
  <2>1. c \in Inds /\ "fix" \in Names
    BY <1>3 DEF Names
  <2>2. (There(c, "fix")' <=> There(c, "fix")) /\ (Full(c, "fix") => Full(c, "fix")')
    BY <1>3, <1>5, <1>6, <2>1
  <2> QED
    BY <1>2, <1>3, <1>7, <2>2 DEF CloneFull
<1> QED
  BY <1>1, <1>3, <1>8, <1>9 DEF KeepInv, KeepAt, CloneFull

LEMMA KeepReDelete ==
  ASSUME KeepInv, ReDelete
  PROVE  KeepInv'
<1>1. pc = "delete" /\ pc' = "reblock" /\ Quiet
  BY DEF ReDelete, At
<1>2. /\ saved' = saved /\ late' = late /\ CloneFull(cur)
      /\ There(cur, "fix") \/ Full(cur, "re")
  BY <1>1 DEF Quiet, Steady, histVars, KeepInv, KeepAt
<1>3. BaseInv' /\ cur \in Inds /\ cur' = cur /\ Others(cur, "hot")
  BY BaseReDelete DEF KeepInv
<1>4. /\ Somewhere(cur)' /\ (\A i \in Inds : i # cur => Somewhere(i)')
      /\ (There(cur, "fix") => Full(cur, "fix"))' /\ (There(cur, "fix") \/ Full(cur, "re"))'
  BY <1>2, <1>3, KeepChanges DEF Somewhere, Names, CloneFull
<1> QED
  BY <1>1, <1>3, <1>4, KeepSomewhere DEF KeepAt, CloneFull

LEMMA KeepReBlock ==
  ASSUME KeepInv, ReBlock
  PROVE  KeepInv'
<1>1. pc = "reblock" /\ pc' = "reclone" /\ Quiet /\ SetBlock(TRUE)
  BY DEF ReBlock, At
<1>2. /\ saved' = saved /\ late' = late /\ CloneFull(cur)
      /\ There(cur, "fix") \/ Full(cur, "re")
  BY <1>1 DEF Quiet, Steady, histVars, KeepInv, KeepAt
<1>3. BaseInv' /\ cur' = cur /\ cur \in Inds /\ DocsStay
  BY <1>1, BaseReBlock, BlockDocsStay, CurIsIndex DEF KeepInv, BaseInv, Quiet, Steady, cur
<1>4. \A i \in Inds, k \in Names : (Full(i, k)' <=> Full(i, k)) /\ (There(i, k)' <=> There(i, k))
  BY <1>2, <1>3, DocsStayFull, FullPrimed DEF DocsStay
<1>5. \A i \in Inds : Somewhere(i)'
  BY <1>4 DEF KeepInv, Somewhere, Names
<1> DEFINE c == cur
<1>6. \A k \in Names : (Full(c, k)' <=> Full(c, k)) /\ (There(c, k)' <=> There(c, k))
  BY <1>3, <1>4
<1>7. KeepAt'
  BY <1>1, <1>2, <1>6 DEF KeepAt, CloneFull, Names
<1> QED
  BY <1>3, <1>5, <1>7 DEF KeepInv

LEMMA KeepReClone ==
  ASSUME KeepInv, ReClone
  PROVE  KeepInv'
<1>1. pc = "reclone" /\ pc' = "reswitch" /\ Quiet
  BY DEF ReClone, At
<1>2. /\ saved' = saved /\ late' = late /\ CloneFull(cur)
      /\ There(cur, "fix") \/ Full(cur, "re")
  BY <1>1 DEF Quiet, Steady, histVars, KeepInv, KeepAt
<1>3. /\ BaseInv' /\ cur \in Inds /\ cur' = cur /\ Others(cur, "hot") /\ Left(cur, "hot")
      /\ es'[cur]["hot"].docs = es[cur]["re"].docs
  BY BaseReClone DEF KeepInv
<1>4. Full(cur, "re") => FullAfter(cur, "hot")
  BY <1>3 DEF Full, FullAfter
<1>5. /\ Somewhere(cur)' /\ (\A i \in Inds : i # cur => Somewhere(i)')
      /\ (There(cur, "fix") => Full(cur, "fix"))' /\ (There(cur, "fix") \/ Full(cur, "hot"))'
  BY <1>2, <1>3, <1>4, KeepChanges DEF Somewhere, Names, CloneFull
<1> QED
  BY <1>1, <1>3, <1>5, KeepSomewhere DEF KeepAt, CloneFull

LEMMA KeepReSwitch ==
  ASSUME KeepInv, ReSwitch
  PROVE  KeepInv'
<1>1. pc = "reswitch" /\ pc' = "reunblock" /\ Quiet
  BY DEF ReSwitch, At
<1>2. /\ saved' = saved /\ late' = late /\ CloneFull(cur)
      /\ There(cur, "fix") \/ Full(cur, "hot")
  BY <1>1 DEF Quiet, Steady, histVars, KeepInv, KeepAt
<1>3. BaseInv' /\ cur \in Inds /\ cur' = cur /\ Others(cur, "re")
  BY BaseReSwitch DEF KeepInv
<1>4. Somewhere(cur)' /\ \A i \in Inds : i # cur => Somewhere(i)'
  BY <1>2, <1>3, KeepChanges DEF Somewhere, Names, CloneFull, Full
<1> QED
  BY <1>1, <1>3, <1>4, KeepSomewhere DEF KeepAt

LEMMA KeepStep == KeepInv /\ [Next]_vars => KeepInv'
<1> SUFFICES ASSUME KeepInv, [Next]_vars PROVE KeepInv'
  OBVIOUS
<1>1. BaseInv /\ BaseInv' /\ TypeOK /\ Cursor /\ Aliased
  BY BaseStep DEF KeepInv, BaseInv
<1> DEFINE Moves == {"idle", "check", "block", "pin", "clone", "swap", "drop", "resize", "unblock",
                     "finish", "recheck", "reunblock"}
<1>2. es' = es => DocsStay
  BY DEF DocsStay, Left, There
<1>3. ASSUME NEW i \in Inds, NEW d \in Docs, Save(i, d) PROVE KeepInv'
  BY <1>3, KeepSave
<1>4. ASSUME NEW c \in {"fix", "reindex"}, Begin(c) PROVE KeepInv'
  BY <1>1, <1>2, <1>4, KeepMoves DEF Begin, First, dataVars
<1>5. ASSUME Abandon, DocsStay PROVE KeepInv'
  BY <1>1, <1>5, KeepMoves DEF Abandon
<1>6. ASSUME NEW p \in Places, NextIndex(p), DocsStay PROVE KeepInv'
  <2>1. pc' \in {"idle", "check", "recheck"}
    BY <1>6 DEF NextIndex, First
  <2> QED
    BY <1>1, <1>6, <2>1, KeepMoves DEF NextIndex, histVars
<1>7. ASSUME Quiet, DocsStay, pc' \in Moves PROVE KeepInv'
  BY <1>1, <1>7, KeepMoves DEF Quiet, Steady, histVars
<1>8. CASE \/ \E c \in {"fix", "reindex"} : Start(c)
           \/ Repeat \/ Crash
  BY <1>1, <1>2, <1>4, <1>5, <1>8 DEF Start, Repeat, Crash, dataVars, TypeOK
<1>9. CASE FixCheck \/ FixRefuse
  BY <1>1, <1>2, <1>9, KeepMoves DEF FixCheck, FixRefuse, dataVars, histVars
<1>10. CASE FixBlock
  <2>1. Quiet /\ SetBlock(TRUE) /\ pc' \in {"swap", "pin", "clone"}
    BY <1>10 DEF FixBlock, At
  <2> QED
    BY <1>1, <1>7, <2>1, BlockDocsStay
<1>11. CASE FixPin
  <2>1. Quiet /\ pc' = "clone" /\ pc = "pin"
    BY <1>11 DEF FixPin, At
  <2>2. DocsStay
    BY <1>1, <1>11, <2>1, CurIsIndex, FixPinDoes DEF DocsStay, Others, There, Left
  <2> QED
    BY <1>7, <2>1, <2>2
<1>12. CASE FixFails
  BY <1>2, <1>5, <1>12 DEF FixFails, Raise, dataVars
<1>13. CASE FixUnblock
  <2>1. Quiet /\ SetBlock(FALSE) /\ pc' = "finish"
    BY <1>13 DEF FixUnblock, At
  <2> QED
    BY <1>1, <1>7, <2>1, BlockDocsStay
<1>14. CASE FixFinish
  <2>1. NextIndex("finish") /\ pc = "finish"
    BY <1>14 DEF FixFinish, NextIndex
  <2>2. DocsStay
    BY <1>1, <1>14, <2>1, CurIsIndex, FixFinishDoes DEF DocsStay, FinishSets, There, Left
  <2> QED
    BY <1>6, <2>1, <2>2 DEF Places
<1>15. CASE FixStep
  BY <1>9, <1>10, <1>11, <1>12, <1>13, <1>14, <1>15, KeepFixClone, KeepFixSwap, KeepFixDrop,
     KeepFixResize, KeepFixSwitch DEF FixStep
<1>16. CASE RePass
  BY <1>2, <1>6, <1>16 DEF RePass, dataVars, Places
<1>17. CASE ReUnblock
  BY <1>1, <1>6, <1>17, BlockDocsStay DEF ReUnblock, Places
<1>18. CASE ReCloneFails
  BY <1>1, <1>5, <1>18, BlockDocsStay DEF ReCloneFails
<1>19. CASE ReStep
  BY <1>16, <1>17, <1>18, <1>19, KeepReCreate, KeepReAlias, KeepReCopy, KeepReDelete,
     KeepReBlock, KeepReClone, KeepReSwitch DEF ReStep
<1>20. CASE UNCHANGED <<es, alias, autoCreate, cmdVars, histVars>>
  BY <1>1, <1>20 DEF vars, dataVars, cmdVars, histVars, KeepInv, KeepAt, Somewhere, CloneFull,
                     Full, There, Due, cur
<1> QED
  BY <1>3, <1>8, <1>15, <1>19, <1>20 DEF Next, Idle, RefreshIndex, vars, dataVars

LEMMA KeepInit == Init => KeepInv
<1> SUFFICES ASSUME Init PROVE KeepInv
  OBVIOUS
<1>1. BaseInv
  BY BaseInit
<1>2. ASSUME NEW i \in Inds PROVE Somewhere(i)
  <2>1. /\ ~There(i, "fix") /\ ~There(i, "re") /\ i \in DOMAIN es
        /\ es[i]["hot"].docs = Preloaded
    BY DEF Init, There, Names
  <2>2. saved[i] = Preloaded /\ late[i] = {}
    BY DEF Init
  <2>3. alias[i] = {"hot"}
    BY DEF Init
  <2>4. There(i, "hot")
    BY <1>1, <2>3 DEF BaseInv, Aliased
  <2> QED
    BY <2>1, <2>2, <2>4 DEF Somewhere, Full, Due
<1> QED
  BY <1>1, <1>2 DEF KeepInv, KeepAt, Init

\* An acknowledged document is never destroyed by fix_shards or reindex, wherever
\* they die and whatever is run after them, unless it was saved beside a copy of
\* its index or was not yet to be seen by a search when reindex copied it: for any
\* indexes, documents, numbers of shards, commands and deaths (collection.py:
\* fix_shards, reindex, _safe_index_copy).
THEOREM MaintenanceKeeps == Spec => []SavedKept
  BY KeepInit, KeepStep, KeepInvKeeps, PTL DEF Spec

----------------------------------------------------------------------------
(* The shapes of the indexes while all is calm. *)

\* Which of its indexes are there, and which are under its alias.
Shape(i, ks, as) == alias[i] = as /\ \A k \in Names : There(i, k) <=> k \in ks

Rest(i)   == Shape(i, {"hot"}, {"hot"})
Whole(i)  == Rest(i) /\ es[i]["hot"].replicas = Replicas
Halted(k) == There(cur, k) /\ es[cur][k].blocked

CalmAt ==
  \/ pc = "idle"
  \/ pc \in {"check", "recheck", "reunblock"} /\ Whole(cur)
  \/ /\ curReplicas = Replicas
     /\ \/ pc \in {"block", "unblock", "finish"} /\ Rest(cur)
        \/ pc \in {"pin", "clone"} /\ Rest(cur) /\ Halted("hot")
        \/ pc = "swap" /\ Shape(cur, {"hot", "fix"}, {"hot"}) /\ Halted("hot") /\ Halted("fix")
        \/ pc \in {"drop", "resize"} /\ Shape(cur, {"fix"}, {"fix"}) /\ Halted("fix")
        \/ pc = "switch" /\ Shape(cur, {"hot", "fix"}, {"fix"}) /\ Halted("hot")
  \/ pc = "realias" /\ Shape(cur, {"hot", "re"}, {"hot"})
  \/ pc \in {"copy", "delete"} /\ Shape(cur, {"hot", "re"}, {"hot", "re"})
  \/ pc \in {"reblock", "reclone"} /\ Shape(cur, {"re"}, {"re"})
  \/ pc = "reswitch" /\ Shape(cur, {"hot", "re"}, {"re"}) /\ es[cur]["hot"].replicas = Replicas

Calm == ~autoCreate /\ crashes = 0

\* Without deaths, and indexes that make themselves, only the current index is
\* not whole, and it has the shape of its place.
CalmInv ==
  BaseInv /\ (Calm => /\ \A i \in Inds : pc = "idle" \/ i # cur => Whole(i)
                      /\ CalmAt)

\* What the step leaves of an index other than the current one.
OthersStay ==
  \A i \in Inds : i # cur =>
    /\ alias'[i] = alias[i]
    /\ \A k \in Names : /\ Left(i, k) <=> There(i, k)
                        /\ There(i, k) => es'[i][k].replicas = es[i][k].replicas

LEMMA CellOthersStay ==
  ASSUME NEW k \in Names, Others(cur, k), \A i \in Inds : i # cur => alias'[i] = alias[i]
  PROVE  OthersStay
  BY DEF Others, OthersStay, Left, There

LEMMA BlockStays ==
  ASSUME BaseInv, NEW b \in BOOLEAN, SetBlock(b), alias' = alias
  PROVE  /\ OthersStay
         /\ \A i \in Inds, k \in Names :
              /\ Left(i, k) <=> There(i, k)
              /\ There(i, k) => /\ es'[i][k].replicas = es[i][k].replicas
                                /\ es'[i][k].blocked = b
<1>1. BlockSet(b)
  BY SetBlockSets, CellsTyped DEF BaseInv
<1> QED
  BY <1>1 DEF BlockSet, OthersStay

LEMMA CalmGoesOn ==
  ASSUME CalmInv, BaseInv', Steady, autoCreate' = autoCreate, pc # "idle", pc' # "idle",
         OthersStay, Calm => CalmAt'
  PROVE  CalmInv'
<1>1. cur' = cur /\ (Calm' <=> Calm)
  BY DEF Quiet, Steady, histVars, cur, Calm
<1>2. ASSUME Calm, NEW i \in Inds, i # cur PROVE Whole(i)'
  <2>1. Whole(i)
    BY <1>2 DEF CalmInv
  <2>2. /\ alias'[i] = alias[i]
        /\ \A k \in Names : Left(i, k) <=> There(i, k)
        /\ There(i, "hot") => es'[i]["hot"].replicas = es[i]["hot"].replicas
    BY <1>2 DEF OthersStay, Names
  <2> QED
    BY <2>1, <2>2 DEF Whole, Rest, Shape, Names, Left, There
<1> QED
  BY <1>1, <1>2 DEF CalmInv

LEMMA CalmFixCheck ==
  ASSUME CalmInv, FixCheck
  PROVE  CalmInv'
<1>1. TypeOK /\ Cursor /\ BaseInv'
  BY BaseFixCheck DEF CalmInv, BaseInv
<1>2. /\ pc = "check" /\ UNCHANGED <<dataVars, cmd, todo, completed, histVars>>
      /\ pc' \in {"block", "unblock"}
      /\ \E k \in alias[cur] : curReplicas' = es[cur][k].replicas
  BY DEF FixCheck
<1>3. /\ cur' = cur /\ cur \in Inds /\ (Calm' <=> Calm)
      /\ es' = es /\ alias' = alias
  BY <1>1, <1>2, CurIsIndex DEF dataVars, histVars, cur, Calm
<1>4. ASSUME Calm PROVE Whole(cur) /\ \A i \in Inds : i # cur => Whole(i)
  BY <1>2, <1>4 DEF CalmInv, CalmAt
<1>5. ASSUME Calm PROVE curReplicas' = Replicas
  BY <1>2, <1>4, <1>5 DEF Whole, Rest, Shape
<1>6. ASSUME Calm PROVE CalmAt'
  BY <1>2, <1>3, <1>4, <1>5, <1>6 DEF CalmAt, Whole, Rest, Shape, There
<1>7. ASSUME Calm, NEW i \in Inds, i # cur PROVE Whole(i)'
  BY <1>3, <1>4, <1>7 DEF Whole, Rest, Shape, There
<1> QED
  BY <1>1, <1>2, <1>3, <1>6, <1>7 DEF CalmInv

LEMMA CalmFixBlock ==
  ASSUME CalmInv, FixBlock
  PROVE  CalmInv'
<1>1. TypeOK /\ Cursor /\ BaseInv /\ BaseInv'
  BY BaseFixBlock DEF CalmInv, BaseInv
<1>2. /\ pc = "block" /\ SetBlock(TRUE) /\ Steady /\ alias' = alias /\ autoCreate' = autoCreate
      /\ \/ There(cur, "fix") /\ pc' = "swap"
         \/ ~There(cur, "fix") /\ pc' \in {"pin", "clone"}
  BY DEF FixBlock, At, Quiet
<1>3. cur' = cur /\ cur \in Inds /\ curReplicas' = curReplicas
  BY <1>1, <1>2, CurIsIndex DEF Quiet, Steady, cur
<1>4. OthersStay /\ \A k \in Names : /\ Left(cur, k) <=> There(cur, k)
                                     /\ There(cur, k) => es'[cur][k].blocked
  BY <1>1, <1>2, <1>3, BlockStays
<1>5. ASSUME Calm PROVE CalmAt'
  <2>1. curReplicas = Replicas /\ Rest(cur)
    BY <1>2, <1>5 DEF CalmInv, CalmAt
  <2>2. ~There(cur, "fix") /\ There(cur, "hot")
    BY <2>1 DEF Rest, Shape, Names
  <2>3. Rest(cur)'
    BY <1>2, <1>3, <1>4, <2>1 DEF Rest, Shape, There, Left, Names
  <2>4. Left(cur, "hot") /\ es'[cur]["hot"].blocked
    BY <1>4, <2>2 DEF Names
  <2>5. Halted("hot")'
    BY <1>3, <2>4 DEF Halted, There, Left
  <2> QED
    BY <1>2, <1>3, <2>1, <2>2, <2>3, <2>5 DEF CalmAt
<1> QED
  BY <1>1, <1>2, <1>4, <1>5, CalmGoesOn

LEMMA CalmFixPin ==
  ASSUME CalmInv, FixPin
  PROVE  CalmInv'
<1>1. TypeOK /\ Cursor /\ BaseInv /\ BaseInv'
  BY BaseFixPin DEF CalmInv, BaseInv
<1>2. /\ pc = "pin" /\ pc' = "clone" /\ Steady /\ alias' = alias /\ autoCreate' = autoCreate
  BY DEF FixPin, At, Quiet
<1>3. cur' = cur /\ cur \in Inds /\ curReplicas' = curReplicas
  BY <1>1, <1>2, CurIsIndex DEF Quiet, Steady, cur
<1>4. /\ Others(cur, "hot") /\ Left(cur, "hot")
      /\ es'[cur]["hot"].blocked = es[cur]["hot"].blocked
  BY <1>1, FixPinDoes
<1>5. OthersStay
  BY <1>2, <1>4, CellOthersStay DEF Names
<1>6. ASSUME Calm PROVE CalmAt'
  <2>1. curReplicas = Replicas /\ Rest(cur) /\ Halted("hot")
    BY <1>2, <1>6 DEF CalmInv, CalmAt
  <2>2. Rest(cur)' /\ Halted("hot")'
    BY <1>2, <1>3, <1>4, <2>1 DEF Rest, Shape, Halted, There, Left, Names, Others
  <2> QED
    BY <1>2, <1>3, <2>1, <2>2 DEF CalmAt
<1> QED
  BY <1>1, <1>2, <1>5, <1>6, CalmGoesOn

LEMMA CalmFixClone ==
  ASSUME CalmInv, FixClone
  PROVE  CalmInv'
<1>1. TypeOK /\ Cursor /\ BaseInv /\ BaseInv'
  BY BaseFixClone DEF CalmInv, BaseInv
<1>2. /\ pc = "clone" /\ pc' = "swap" /\ Steady /\ alias' = alias /\ autoCreate' = autoCreate
  BY DEF FixClone, At, Quiet
<1>3. cur' = cur /\ cur \in Inds /\ curReplicas' = curReplicas
  BY <1>1, <1>2, CurIsIndex DEF Quiet, Steady, cur
<1>4. /\ Others(cur, "fix") /\ Left(cur, "fix")
      /\ es'[cur]["fix"].blocked = es[cur]["hot"].blocked
  BY <1>1, FixCloneDoes
<1>5. OthersStay
  BY <1>2, <1>4, CellOthersStay DEF Names
<1>6. ASSUME Calm PROVE CalmAt'
  <2>1. curReplicas = Replicas /\ Rest(cur) /\ Halted("hot")
    BY <1>2, <1>6 DEF CalmInv, CalmAt
  <2>2. Shape(cur, {"hot", "fix"}, {"hot"})' /\ Halted("hot")' /\ Halted("fix")'
    BY <1>2, <1>3, <1>4, <2>1 DEF Rest, Shape, Halted, There, Left, Names, Others
  <2> QED
    BY <1>2, <1>3, <2>1, <2>2 DEF CalmAt
<1> QED
  BY <1>1, <1>2, <1>5, <1>6, CalmGoesOn

LEMMA CalmFixSwap ==
  ASSUME CalmInv, FixSwap
  PROVE  CalmInv'
<1>1. TypeOK /\ Cursor /\ BaseInv
  BY DEF CalmInv, BaseInv
<1>2. pc = "swap" /\ pc' = "drop" /\ Steady /\ autoCreate' = autoCreate
  BY DEF FixSwap, At, Quiet
<1>3. curReplicas' = curReplicas
  BY <1>2 DEF Quiet, Steady
<1>4. /\ BaseInv' /\ cur \in Inds /\ cur' = cur
      /\ \/ UNCHANGED <<es, alias>> /\ "fix" \in alias[cur]
         \/ /\ Others(cur, "hot") /\ ~Left(cur, "hot")
            /\ alias'[cur] = (alias[cur] \cup {"fix"}) \ {"hot"}
            /\ \A j \in Inds : j # cur => alias'[j] = alias[j]
  BY <1>1, BaseFixSwap
<1>5. OthersStay
  BY <1>4, CellOthersStay DEF Names, OthersStay, Left, There
<1>6. ASSUME Calm PROVE CalmAt'
  <2>1. curReplicas = Replicas /\ Shape(cur, {"hot", "fix"}, {"hot"}) /\ Halted("fix")
    BY <1>2, <1>6 DEF CalmInv, CalmAt
  <2>2. /\ Others(cur, "hot") /\ ~Left(cur, "hot")
        /\ alias'[cur] = {"fix"}
    BY <1>4, <2>1 DEF Shape
  <2>3. Shape(cur, {"fix"}, {"fix"})' /\ Halted("fix")'
    BY <1>4, <2>1, <2>2 DEF Shape, Halted, There, Left, Names, Others
  <2> QED
    BY <1>2, <1>3, <2>1, <2>3 DEF CalmAt
<1> QED
  BY <1>1, <1>2, <1>4, <1>5, <1>6, CalmGoesOn

LEMMA CalmFixDrop ==
  ASSUME CalmInv, FixDrop
  PROVE  CalmInv'
<1>1. TypeOK /\ Cursor /\ BaseInv
  BY DEF CalmInv, BaseInv
<1>2. pc = "drop" /\ pc' = "resize" /\ Steady /\ autoCreate' = autoCreate
  BY DEF FixDrop, At, Quiet
<1>3. curReplicas' = curReplicas
  BY <1>2 DEF Quiet, Steady
<1>4. /\ BaseInv' /\ cur \in Inds /\ cur' = cur
      /\ Others(cur, "hot") /\ ~Left(cur, "hot") /\ alias'[cur] = alias[cur] \ {"hot"}
      /\ \A j \in Inds : j # cur => alias'[j] = alias[j]
  BY <1>1, BaseFixDrop
<1>5. OthersStay
  BY <1>4, CellOthersStay DEF Names
<1>6. ASSUME Calm PROVE CalmAt'
  <2>1. curReplicas = Replicas /\ Shape(cur, {"fix"}, {"fix"}) /\ Halted("fix")
    BY <1>2, <1>6 DEF CalmInv, CalmAt
  <2>2. alias'[cur] = {"fix"}
    BY <1>4, <2>1 DEF Shape
  <2>3. Shape(cur, {"fix"}, {"fix"})' /\ Halted("fix")'
    BY <1>4, <2>1, <2>2 DEF Shape, Halted, There, Left, Names, Others
  <2> QED
    BY <1>2, <1>3, <2>1, <2>3 DEF CalmAt
<1> QED
  BY <1>1, <1>2, <1>4, <1>5, <1>6, CalmGoesOn

LEMMA CalmFixResize ==
  ASSUME CalmInv, FixResize
  PROVE  CalmInv'
<1>1. TypeOK /\ Cursor /\ BaseInv /\ BaseInv' /\ BaseAt
  BY BaseFixResize DEF CalmInv, BaseInv
<1>2. /\ pc = "resize" /\ pc' = "switch" /\ Steady /\ alias' = alias /\ autoCreate' = autoCreate
  BY DEF FixResize, At, Quiet
<1>3. cur' = cur /\ cur \in Inds /\ curReplicas' = curReplicas /\ There(cur, "fix")
  BY <1>1, <1>2, CurIsIndex DEF Quiet, Steady, cur, BaseAt
<1>4. /\ Others(cur, "hot") /\ Left(cur, "hot")
      /\ es'[cur]["hot"].blocked = es[cur]["fix"].blocked
  BY <1>1, <1>3, FixResizeDoes
<1>5. OthersStay
  BY <1>2, <1>4, CellOthersStay DEF Names
<1>6. ASSUME Calm PROVE CalmAt'
  <2>1. curReplicas = Replicas /\ Shape(cur, {"fix"}, {"fix"}) /\ Halted("fix")
    BY <1>2, <1>6 DEF CalmInv, CalmAt
  <2>2. Shape(cur, {"hot", "fix"}, {"fix"})' /\ Halted("hot")'
    BY <1>2, <1>3, <1>4, <2>1 DEF Shape, Halted, There, Left, Names, Others
  <2> QED
    BY <1>2, <1>3, <2>1, <2>2 DEF CalmAt
<1> QED
  BY <1>1, <1>2, <1>5, <1>6, CalmGoesOn

LEMMA CalmFixSwitch ==
  ASSUME CalmInv, FixSwitch
  PROVE  CalmInv'
<1>1. TypeOK /\ Cursor /\ BaseInv
  BY DEF CalmInv, BaseInv
<1>2. pc = "switch" /\ pc' = "unblock" /\ Steady /\ autoCreate' = autoCreate
  BY DEF FixSwitch, At, Quiet
<1>3. curReplicas' = curReplicas
  BY <1>2 DEF Quiet, Steady
<1>4. /\ BaseInv' /\ cur \in Inds /\ cur' = cur
      /\ Others(cur, "fix") /\ ~Left(cur, "fix")
      /\ alias'[cur] = (alias[cur] \cup {"hot"}) \ {"fix"}
      /\ \A j \in Inds : j # cur => alias'[j] = alias[j]
  BY <1>1, BaseFixSwitch
<1>5. OthersStay
  BY <1>4, CellOthersStay DEF Names
<1>6. ASSUME Calm PROVE CalmAt'
  <2>1. curReplicas = Replicas /\ Shape(cur, {"hot", "fix"}, {"fix"})
    BY <1>2, <1>6 DEF CalmInv, CalmAt
  <2>2. alias'[cur] = {"hot"}
    BY <1>4, <2>1 DEF Shape
  <2>3. Rest(cur)'
    BY <1>4, <2>1, <2>2 DEF Rest, Shape, There, Left, Names, Others
  <2> QED
    BY <1>2, <1>3, <2>1, <2>3 DEF CalmAt
<1> QED
  BY <1>1, <1>2, <1>4, <1>5, <1>6, CalmGoesOn

LEMMA CalmFixUnblock ==
  ASSUME CalmInv, FixUnblock
  PROVE  CalmInv'
<1>1. TypeOK /\ Cursor /\ BaseInv /\ BaseInv'
  BY BaseStep DEF CalmInv, BaseInv, Next, FixStep
<1>2. /\ pc = "unblock" /\ pc' = "finish" /\ SetBlock(FALSE) /\ Steady
      /\ alias' = alias /\ autoCreate' = autoCreate
  BY DEF FixUnblock, At, Quiet
<1>3. cur' = cur /\ cur \in Inds /\ curReplicas' = curReplicas
  BY <1>1, <1>2, CurIsIndex DEF Quiet, Steady, cur
<1>4. OthersStay /\ \A k \in Names : Left(cur, k) <=> There(cur, k)
  BY <1>1, <1>2, <1>3, BlockStays
<1>5. ASSUME Calm PROVE CalmAt'
  <2>1. curReplicas = Replicas /\ Rest(cur)
    BY <1>2, <1>5 DEF CalmInv, CalmAt
  <2>2. Rest(cur)'
    BY <1>2, <1>3, <1>4, <2>1 DEF Rest, Shape, There, Left, Names
  <2> QED
    BY <1>2, <1>3, <2>1, <2>2 DEF CalmAt
<1> QED
  BY <1>1, <1>2, <1>4, <1>5, CalmGoesOn

LEMMA CalmReCreate ==
  ASSUME CalmInv, ReCreate
  PROVE  CalmInv'
<1>1. TypeOK /\ Cursor /\ BaseInv
  BY DEF CalmInv, BaseInv
<1>2. pc = "recheck" /\ pc' = "realias" /\ Steady /\ autoCreate' = autoCreate
  BY DEF ReCreate, At, Quiet
<1>3. /\ BaseInv' /\ cur \in Inds /\ cur' = cur
      /\ Others(cur, "re") /\ Left(cur, "re") /\ alias' = alias
  BY <1>1, BaseReCreate
<1>4. OthersStay
  BY <1>3, CellOthersStay DEF Names
<1>5. ASSUME Calm PROVE CalmAt'
  <2>1. Rest(cur)
    BY <1>2, <1>5 DEF CalmInv, CalmAt, Whole
  <2>2. Shape(cur, {"hot", "re"}, {"hot"})'
    BY <1>3, <2>1 DEF Rest, Shape, There, Left, Names, Others
  <2> QED
    BY <1>2, <2>2 DEF CalmAt
<1> QED
  BY <1>1, <1>2, <1>3, <1>4, <1>5, CalmGoesOn

LEMMA CalmReAlias ==
  ASSUME CalmInv, ReAlias
  PROVE  CalmInv'
<1>1. TypeOK /\ Cursor /\ BaseInv
  BY DEF CalmInv, BaseInv
<1>2. pc = "realias" /\ pc' = "copy" /\ Steady /\ autoCreate' = autoCreate
  BY DEF ReAlias, At, Quiet
<1>3. /\ BaseInv' /\ cur \in Inds /\ cur' = cur /\ es' = es
      /\ alias'[cur] = IF "hot" \in alias[cur] THEN alias[cur] \cup {"re"} ELSE alias[cur]
      /\ \A j \in Inds : j # cur => alias'[j] = alias[j]
  BY <1>1, BaseReAlias
<1>4. OthersStay
  BY <1>3 DEF OthersStay, Left, There
<1>5. ASSUME Calm PROVE CalmAt'
  <2>1. Shape(cur, {"hot", "re"}, {"hot"})
    BY <1>2, <1>5 DEF CalmInv, CalmAt
  <2>2. alias'[cur] = {"hot", "re"}
    BY <1>3, <2>1 DEF Shape
  <2>3. Shape(cur, {"hot", "re"}, {"hot", "re"})'
    BY <1>3, <2>1, <2>2 DEF Shape, There
  <2> QED
    BY <1>2, <2>3 DEF CalmAt
<1> QED
  BY <1>1, <1>2, <1>3, <1>4, <1>5, CalmGoesOn

LEMMA CalmReCopy ==
  ASSUME CalmInv, ReCopy
  PROVE  CalmInv'
<1>1. TypeOK /\ Cursor /\ BaseInv
  BY DEF CalmInv, BaseInv
<1>2. pc = "copy" /\ pc' = "delete" /\ Steady /\ autoCreate' = autoCreate
  BY DEF ReCopy, At, Quiet
<1>3. BaseInv' /\ cur \in Inds /\ cur' = cur /\ Unmoved /\ Others(cur, "re")
  BY <1>1, BaseReCopy
<1>4. OthersStay
  BY <1>3, CellOthersStay DEF Names, Unmoved
<1>5. ASSUME Calm PROVE CalmAt'
  <2>1. Shape(cur, {"hot", "re"}, {"hot", "re"})
    BY <1>2, <1>5 DEF CalmInv, CalmAt
  <2>2. Shape(cur, {"hot", "re"}, {"hot", "re"})'
    BY <1>3, <2>1 DEF Shape, There, Left, Names, Unmoved
  <2> QED
    BY <1>2, <2>2 DEF CalmAt
<1> QED
  BY <1>1, <1>2, <1>3, <1>4, <1>5, CalmGoesOn

LEMMA CalmReDelete ==
  ASSUME CalmInv, ReDelete
  PROVE  CalmInv'
<1>1. TypeOK /\ Cursor /\ BaseInv
  BY DEF CalmInv, BaseInv
<1>2. pc = "delete" /\ pc' = "reblock" /\ Steady /\ autoCreate' = autoCreate
  BY DEF ReDelete, At, Quiet
<1>3. /\ BaseInv' /\ cur \in Inds /\ cur' = cur
      /\ Others(cur, "hot") /\ ~Left(cur, "hot") /\ alias'[cur] = alias[cur] \ {"hot"}
      /\ \A j \in Inds : j # cur => alias'[j] = alias[j]
  BY <1>1, BaseReDelete
<1>4. OthersStay
  BY <1>3, CellOthersStay DEF Names
<1>5. ASSUME Calm PROVE CalmAt'
  <2>1. Shape(cur, {"hot", "re"}, {"hot", "re"})
    BY <1>2, <1>5 DEF CalmInv, CalmAt
  <2>2. alias'[cur] = {"re"}
    BY <1>3, <2>1 DEF Shape
  <2>3. Shape(cur, {"re"}, {"re"})'
    BY <1>3, <2>1, <2>2 DEF Shape, There, Left, Names, Others
  <2> QED
    BY <1>2, <2>3 DEF CalmAt
<1> QED
  BY <1>1, <1>2, <1>3, <1>4, <1>5, CalmGoesOn

LEMMA CalmReBlock ==
  ASSUME CalmInv, ReBlock
  PROVE  CalmInv'
<1>1. TypeOK /\ Cursor /\ BaseInv /\ BaseInv'
  BY BaseReBlock DEF CalmInv, BaseInv
<1>2. /\ pc = "reblock" /\ pc' = "reclone" /\ SetBlock(TRUE) /\ Steady
      /\ alias' = alias /\ autoCreate' = autoCreate
  BY DEF ReBlock, At, Quiet
<1>3. cur' = cur /\ cur \in Inds
  BY <1>1, <1>2, CurIsIndex DEF Quiet, Steady, cur
<1>4. OthersStay /\ \A k \in Names : Left(cur, k) <=> There(cur, k)
  BY <1>1, <1>2, <1>3, BlockStays
<1>5. ASSUME Calm PROVE CalmAt'
  <2>1. Shape(cur, {"re"}, {"re"})
    BY <1>2, <1>5 DEF CalmInv, CalmAt
  <2>2. Shape(cur, {"re"}, {"re"})'
    BY <1>2, <1>3, <1>4, <2>1 DEF Shape, There, Left, Names
  <2> QED
    BY <1>2, <2>2 DEF CalmAt
<1> QED
  BY <1>1, <1>2, <1>4, <1>5, CalmGoesOn

LEMMA CalmReClone ==
  ASSUME CalmInv, ReClone
  PROVE  CalmInv'
<1>1. TypeOK /\ Cursor /\ BaseInv
  BY DEF CalmInv, BaseInv
<1>2. pc = "reclone" /\ pc' = "reswitch" /\ Steady /\ autoCreate' = autoCreate
  BY DEF ReClone, At, Quiet
<1>3. /\ BaseInv' /\ cur \in Inds /\ cur' = cur
      /\ Others(cur, "hot") /\ Left(cur, "hot") /\ alias' = alias
      /\ es'[cur]["hot"].replicas = Replicas
  BY <1>1, BaseReClone
<1>4. OthersStay
  BY <1>3, CellOthersStay DEF Names
<1>5. ASSUME Calm PROVE CalmAt'
  <2>1. Shape(cur, {"re"}, {"re"})
    BY <1>2, <1>5 DEF CalmInv, CalmAt
  <2>2. Shape(cur, {"hot", "re"}, {"re"})'
    BY <1>3, <2>1 DEF Shape, There, Left, Names, Others
  <2>3. (es[cur]["hot"].replicas = Replicas)'
    BY <1>3
  <2> QED
    BY <1>2, <2>2, <2>3 DEF CalmAt
<1> QED
  BY <1>1, <1>2, <1>3, <1>4, <1>5, CalmGoesOn

LEMMA CalmReSwitch ==
  ASSUME CalmInv, ReSwitch
  PROVE  CalmInv'
<1>1. TypeOK /\ Cursor /\ BaseInv
  BY DEF CalmInv, BaseInv
<1>2. pc = "reswitch" /\ pc' = "reunblock" /\ Steady /\ autoCreate' = autoCreate
  BY DEF ReSwitch, At, Quiet
<1>3. /\ BaseInv' /\ cur \in Inds /\ cur' = cur
      /\ Others(cur, "re") /\ ~Left(cur, "re")
      /\ alias'[cur] = IF "re" \in alias[cur] THEN (alias[cur] \cup {"hot"}) \ {"re"}
                       ELSE alias[cur]
      /\ \A j \in Inds : j # cur => alias'[j] = alias[j]
  BY <1>1, BaseReSwitch
<1>4. OthersStay
  BY <1>3, CellOthersStay DEF Names
<1>5. ASSUME Calm PROVE CalmAt'
  <2>1. Shape(cur, {"hot", "re"}, {"re"}) /\ es[cur]["hot"].replicas = Replicas
    BY <1>2, <1>5 DEF CalmInv, CalmAt
  <2>2. alias'[cur] = {"hot"}
    BY <1>3, <2>1 DEF Shape
  <2>3. es'[cur]["hot"] = es[cur]["hot"]
    BY <1>3 DEF Others, Names
  <2>4. Whole(cur)'
    BY <1>3, <2>1, <2>2, <2>3 DEF Whole, Rest, Shape, There, Left, Names, Others
  <2> QED
    BY <1>2, <2>4 DEF CalmAt
<1> QED
  BY <1>1, <1>2, <1>3, <1>4, <1>5, CalmGoesOn

\* Where the command is done with an index, or with all, all are whole.
LEMMA CalmAllWhole ==
  ASSUME BaseInv', pc' \in {"idle", "check", "recheck"}, Calm' => \A i \in Inds : Whole(i)'
  PROVE  CalmInv'
<1>1. pc' = "idle" \/ cur' \in Inds
  <2>1. todo' \in Seq(Inds) /\ (pc' = "idle" \/ todo' # <<>>)
    BY DEF BaseInv, TypeOK, Cursor
  <2>2. todo' # <<>> => Head(todo') \in Inds
    BY <2>1, HeadTailProperties
  <2> QED
    BY <2>1, <2>2 DEF cur
<1> QED
  BY <1>1 DEF CalmInv, CalmAt

LEMMA CalmNow ==
  ASSUME CalmInv, Calm
  PROVE  CalmAt /\ \A i \in Inds : pc = "idle" \/ i # cur => Whole(i)
  BY DEF CalmInv

\* Nothing is there or not that was not, and the replicas are the same.
WholeStay ==
  /\ alias' = alias
  /\ \A i \in Inds, k \in Names : /\ Left(i, k) <=> There(i, k)
                                  /\ There(i, k) => es'[i][k].replicas = es[i][k].replicas

LEMMA WholeStays ==
  ASSUME WholeStay
  PROVE  \A i \in Inds : Whole(i) => Whole(i)'
<1> SUFFICES ASSUME NEW i \in Inds, Whole(i) PROVE Whole(i)'
  OBVIOUS
<1>1. alias[i] = {"hot"} /\ (\A k \in Names : There(i, k) <=> k \in {"hot"})
      /\ es[i]["hot"].replicas = Replicas
  BY DEF Whole, Rest, Shape
<1>2. es'[i]["hot"].replicas = Replicas
  BY <1>1 DEF WholeStay, Names
<1>3. alias'[i] = {"hot"} /\ (\A k \in Names : Left(i, k) <=> k \in {"hot"})
  BY <1>1 DEF WholeStay
<1> QED
  BY <1>2, <1>3 DEF Whole, Rest, Shape, There, Left

LEMMA CalmSave ==
  ASSUME CalmInv, NEW i \in Inds, NEW d \in Docs, Save(i, d)
  PROVE  CalmInv'
<1>1. TypeOK /\ Cursor /\ BaseInv /\ BaseInv'
  BY BaseSave DEF CalmInv, BaseInv
<1>2. /\ alias' = alias /\ pc' = pc /\ cur' = cur /\ curReplicas' = curReplicas
      /\ (Calm' <=> Calm)
  BY DEF Save, cmdVars, cur, Calm
<1> SUFFICES ASSUME Calm PROVE CalmAt' /\ \A j \in Inds : pc = "idle" \/ j # cur => Whole(j)'
  BY <1>1, <1>2 DEF CalmInv
<1>3. CalmAt /\ \A j \in Inds : pc = "idle" \/ j # cur => Whole(j)
  BY CalmNow
<1>4. /\ Others(i, "hot") /\ Left(i, "hot") /\ There(i, "hot")
      /\ ~es[i]["hot"].blocked /\ ~es'[i]["hot"].blocked
      /\ es'[i]["hot"].replicas = es[i]["hot"].replicas
  BY <1>1, SaveDoes DEF Calm
<1>5. WholeStay
  BY <1>2, <1>4 DEF WholeStay, Others, Left, There
<1>6. \A j \in Inds, k \in Names :
        (Left(j, k) /\ es'[j][k].blocked) <=> (There(j, k) /\ es[j][k].blocked)
  <2>1. \A j \in Inds, k \in Names : j # i \/ k # "hot" => es'[j][k] = es[j][k]
    BY <1>4 DEF Others
  <2>2. \A j \in Inds, k \in Names : j # i \/ k # "hot" =>
          ((Left(j, k) /\ es'[j][k].blocked) <=> (There(j, k) /\ es[j][k].blocked))
    BY <2>1, Zenon DEF Left, There
  <2>3. ~(Left(i, "hot") /\ es'[i]["hot"].blocked) /\ ~(There(i, "hot") /\ es[i]["hot"].blocked)
    BY <1>4
  <2>4. \A j \in Inds, k \in Names : ~(j # i \/ k # "hot") => j = i /\ k = "hot"
    OBVIOUS
  <2> QED
    BY <2>2, <2>3, <2>4, Zenon
<1>7. CalmAt'
  <2>1. CASE pc = "idle"
    BY <1>2, <2>1 DEF CalmAt
  <2>2. CASE pc # "idle"
    <3>1. cur \in Inds
      BY <1>1, <2>2, CurIsIndex
    <3>2. \A k \in Names : There(cur, k)' <=> There(cur, k)
      BY <1>2, <1>5, <3>1 DEF WholeStay, There, Left
    <3>3. \A ks, as : Shape(cur, ks, as) <=> Shape(cur, ks, as)'
      BY <1>2, <3>2 DEF Shape, There
    <3>4. \A k \in Names : Halted(k)' <=> Halted(k)
      BY <1>2, <1>6, <3>1, Zenon DEF Halted, There, Left
    <3>5. There(cur, "hot") => es'[cur]["hot"].replicas = es[cur]["hot"].replicas
      BY <1>5, <3>1 DEF WholeStay, Names
    <3>6. Rest(cur)' <=> Rest(cur)
      BY <3>3 DEF Rest
    <3>7. Whole(cur) => Whole(cur)'
      BY <1>2, <1>5, <3>1, WholeStays DEF Whole, Rest, Shape, There
    <3>8. "hot" \in Names /\ "fix" \in Names
      BY DEF Names
    <3>9. Shape(cur, {"hot", "re"}, {"re"}) /\ es[cur]["hot"].replicas = Replicas
             => es'[cur']["hot"].replicas = Replicas
      BY <1>2, <3>5 DEF Shape, Names
    <3> QED
      BY <1>2, <1>3, <3>3, <3>4, <3>6, <3>7, <3>8, <3>9 DEF CalmAt
  <2> QED
    BY <2>1, <2>2
<1>8. \A j \in Inds : pc = "idle" \/ j # cur => Whole(j)'
  BY <1>3, <1>5, WholeStays
<1> QED
  BY <1>7, <1>8

\* What ends before its time does not end so while all is calm.
LEMMA CalmFixFails ==
  ASSUME CalmInv, FixFails
  PROVE  ~Calm
<1> SUFFICES ASSUME Calm PROVE FALSE
  OBVIOUS
<1>1. CalmAt
  BY CalmNow
<1>2. CASE pc = "resize" /\ There(cur, "hot")
  BY <1>1, <1>2 DEF CalmAt, Shape, Names
<1>3. CASE pc \in {"pin", "clone"} /\ ~There(cur, "hot")
  BY <1>1, <1>3 DEF CalmAt, Halted
<1> QED
  BY <1>2, <1>3 DEF FixFails

LEMMA CalmReCloneFails ==
  ASSUME CalmInv, ReCloneFails
  PROVE  ~Calm
<1> SUFFICES ASSUME Calm PROVE FALSE
  OBVIOUS
<1>1. CalmAt /\ pc = "reclone" /\ There(cur, "hot")
  BY CalmNow DEF ReCloneFails
<1> QED
  BY <1>1 DEF CalmAt, Shape, Names

LEMMA CalmStep == CalmInv /\ [Next]_vars => CalmInv'
<1> SUFFICES ASSUME CalmInv, [Next]_vars PROVE CalmInv'
  OBVIOUS
<1>1. BaseInv /\ BaseInv' /\ TypeOK /\ Cursor
  BY BaseStep DEF CalmInv, BaseInv
<1>2. UNCHANGED <<es, alias>> => WholeStay
  BY DEF WholeStay, Left, There
<1>3. ASSUME NEW c \in {"fix", "reindex"}, Begin(c), pc = "idle" PROVE CalmInv'
  <2>1. UNCHANGED <<es, alias, autoCreate, crashes>> /\ pc' \in {"check", "recheck"}
    BY <1>3 DEF Begin, First, dataVars
  <2>2. Calm' => \A i \in Inds : Whole(i)'
    BY <1>2, <1>3, <2>1, CalmNow, WholeStays DEF Calm
  <2> QED
    BY <1>1, <2>1, <2>2, CalmAllWhole
<1>4. ASSUME ~Calm' PROVE CalmInv'
  BY <1>1, <1>4 DEF CalmInv
<1>5. ASSUME NEW i \in Inds, NEW d \in Docs, Save(i, d) PROVE CalmInv'
  BY <1>5, CalmSave
<1>6. CASE (\E c \in {"fix", "reindex"} : Start(c)) \/ Repeat
  BY <1>1, <1>3, <1>6 DEF Start, Repeat, TypeOK
<1>7. CASE Crash
  <2>1. crashes' # 0
    BY <1>1, <1>7, MaintenanceAssumption DEF Crash, TypeOK
  <2> QED
    BY <1>4, <2>1 DEF Calm
<1>8. CASE FixRefuse
  <2>1. UNCHANGED <<es, alias, autoCreate, crashes>> /\ pc' = "idle" /\ pc = "check"
    BY <1>8 DEF FixRefuse, dataVars, histVars
  <2>2. Calm' => \A i \in Inds : Whole(i)
    <3> SUFFICES ASSUME Calm PROVE \A i \in Inds : Whole(i)
      BY <2>1 DEF Calm
    <3>1. Whole(cur) /\ \A i \in Inds : i # cur => Whole(i)
      BY <2>1, CalmNow DEF CalmAt
    <3> QED
      BY <3>1
  <2> QED
    BY <1>1, <1>2, <2>1, <2>2, WholeStays, CalmAllWhole
<1>9. CASE FixFails
  BY <1>4, <1>9, CalmFixFails DEF FixFails, Raise, dataVars, Calm
<1>10. CASE FixFinish
  <2>1. /\ NextIndex("finish") /\ pc = "finish" /\ UNCHANGED <<alias, autoCreate, unseen, crashes>>
        /\ pc' \in {"idle", "check", "recheck"}
    BY <1>10 DEF FixFinish, NextIndex, histVars, First
  <2>2. cur \in Inds
    BY <1>1, <2>1, CurIsIndex
  <2>3. FinishSets /\ \A j \in Inds, l \in Names : j # cur => es'[j][l] = es[j][l]
    BY <1>1, <1>10, FixFinishDoes DEF BaseInv
  <2> SUFFICES ASSUME Calm, NEW i \in Inds PROVE Whole(i)'
    BY <1>1, <2>1, CalmAllWhole DEF Calm
  <2>4. curReplicas = Replicas /\ Rest(cur) /\ (i # cur => Whole(i))
    BY <2>1, CalmNow DEF CalmAt
  <2>5. CASE i # cur
    BY <2>1, <2>3, <2>4, <2>5 DEF Whole, Rest, Shape, There, Names
  <2>6. CASE i = cur
    <3>1. alias[i] = {"hot"} /\ \A k \in Names : There(i, k) <=> k \in {"hot"}
      BY <2>4, <2>6 DEF Rest, Shape
    <3>2. es'[i]["hot"].replicas = Replicas /\ \A k \in Names : Left(i, k) <=> There(i, k)
      BY <2>3, <2>4, <2>6, <3>1 DEF FinishSets, Names
    <3> QED
      BY <2>1, <3>1, <3>2 DEF Whole, Rest, Shape, There, Left
  <2> QED
    BY <2>5, <2>6
<1>11. CASE FixStep
  BY <1>8, <1>9, <1>10, <1>11, CalmFixCheck, CalmFixBlock, CalmFixPin, CalmFixClone,
     CalmFixSwap, CalmFixDrop, CalmFixResize, CalmFixSwitch, CalmFixUnblock DEF FixStep
<1>12. ASSUME NEW p \in {"recheck", "reunblock"}, NextIndex(p), WholeStay,
              UNCHANGED autoCreate
       PROVE  CalmInv'
  <2>1. pc = p /\ pc' \in {"idle", "check", "recheck"} /\ UNCHANGED <<autoCreate, crashes>>
    BY <1>12 DEF NextIndex, histVars, First
  <2>2. Calm' => \A i \in Inds : Whole(i)
    <3> SUFFICES ASSUME Calm PROVE \A i \in Inds : Whole(i)
      BY <2>1 DEF Calm
    <3>1. Whole(cur) /\ \A i \in Inds : i # cur => Whole(i)
      BY <2>1, CalmNow DEF CalmAt
    <3> QED
      BY <3>1
  <2> QED
    BY <1>1, <1>12, <2>1, <2>2, WholeStays, CalmAllWhole
<1>13. CASE RePass
  BY <1>2, <1>12, <1>13 DEF RePass, dataVars
<1>14. CASE ReUnblock
  <2>1. WholeStay
    BY <1>1, <1>14, BlockStays DEF ReUnblock, WholeStay
  <2> QED
    BY <1>12, <1>14, <2>1 DEF ReUnblock
<1>15. CASE ReCloneFails
  BY <1>4, <1>15, CalmReCloneFails DEF ReCloneFails, Calm
<1>16. CASE ReStep
  BY <1>13, <1>14, <1>15, <1>16, CalmReCreate, CalmReAlias, CalmReCopy, CalmReDelete,
     CalmReBlock, CalmReClone, CalmReSwitch DEF ReStep
<1>17. CASE UNCHANGED <<es, alias, autoCreate, cmdVars, histVars>>
  BY <1>1, <1>17 DEF vars, dataVars, cmdVars, histVars, CalmInv, Calm, CalmAt, Whole, Rest,
                     Shape, Halted, There, cur
<1> QED
  BY <1>5, <1>6, <1>7, <1>11, <1>16, <1>17 DEF Next, Idle, RefreshIndex, vars, dataVars

LEMMA CalmInit == Init => CalmInv
<1> SUFFICES ASSUME Init PROVE CalmInv
  OBVIOUS
<1>1. BaseInv /\ pc = "idle"
  BY BaseInit DEF Init
<1>2. ASSUME NEW i \in Inds PROVE Whole(i)
  <2>1. alias[i] = {"hot"}
    BY DEF Init
  <2>2. There(i, "hot")
    BY <1>1, <2>1 DEF BaseInv, Aliased
  <2>3. ~There(i, "fix") /\ ~There(i, "re") /\ es[i]["hot"].replicas = Replicas
    BY DEF Init, There, Names
  <2> QED
    BY <2>1, <2>2, <2>3 DEF Whole, Rest, Shape, Names
<1> QED
  BY <1>1, <1>2 DEF CalmInv, CalmAt

LEMMA CalmNothingLate ==
  ASSUME CalmInv, [Next]_vars, ~autoCreate, crashes = 0, NEW i \in Inds, There(i, "fix")
  PROVE  saved'[i] = saved[i]
<1>1. TypeOK /\ Calm /\ BaseInv /\ BaseInv'
  BY BaseStep DEF CalmInv, BaseInv, Calm
<1>2. CalmAt /\ pc # "idle" /\ i = cur
  BY <1>1, CalmNow DEF Whole, Rest, Shape, Names
<1>3. There(cur, "hot") => Halted("hot")
  BY <1>2 DEF CalmAt, Whole, Rest, Shape, Names, Halted
<1>4. ASSUME NEW j \in Inds, NEW d \in Docs, Save(j, d) PROVE saved'[i] = saved[i]
  <2>1. j # i
    BY <1>1, <1>2, <1>3, <1>4, SaveDoes DEF Halted, Calm
  <2> QED
    BY <1>1, <1>4, <2>1 DEF Save, TypeOK
<1>5. ASSUME ~\E j \in Inds, d \in Docs : Save(j, d) PROVE saved' = saved
  BY <1>5 DEF Next, Start, Repeat, Begin, Crash, Abandon, FixStep, ReStep, FixCheck, FixRefuse,
              FixBlock, FixPin, FixClone, FixSwap, FixDrop, FixResize, FixFails, Raise, FixSwitch,
              FixUnblock, FixFinish, NextIndex, ReCreate, RePass, ReAlias, ReCopy, ReDelete,
              ReBlock, ReClone, ReCloneFails, ReSwitch, ReUnblock, RefreshIndex, Quiet,
              Steady, histVars, Idle, vars
<1> QED
  BY <1>4, <1>5

\* While fix_shards has a temporary copy of an index nothing is saved to it, as
\* long as no command died and Elasticsearch makes no index by itself: for any
\* indexes, documents and numbers of shards, and whatever commands were given
\* before (collection.py: fix_shards, save).
THEOREM MaintenanceNothingLate == Spec => NothingLate
<1>1. CalmInv /\ [Next]_vars =>
        (~autoCreate /\ crashes = 0 => \A i \in Inds : There(i, "fix") => saved'[i] = saved[i])
  BY CalmNothingLate
<1> QED
  BY <1>1, CalmInit, CalmStep, PTL DEF Spec, NothingLate

----------------------------------------------------------------------------
(* What fix_shards leaves and takes up. *)

Wrong(i, k) == There(i, k) /\ es[i][k].shards # TargetShards[i]
Right(i, k) == There(i, k) /\ es[i][k].shards = TargetShards[i]

\* What a fix_shards may leave of an index: as it was, or with a temporary copy
\* that waits for the index to go, or under whose name the index already is.
Cloned(i)  == Shape(i, {"hot", "fix"}, {"hot"}) /\ Wrong(i, "hot") /\ Wrong(i, "fix")
Swapped(i) == alias[i] = {"fix"} /\ Wrong(i, "fix") /\ ~There(i, "re")
Leftover(i) == Rest(i) \/ Cloned(i) \/ Swapped(i)

Mended(i) == Rest(i) /\ Right(i, "hot")
Done(i)   == Mended(i) /\ ~es[i]["hot"].pinned
Open      == \A i \in Inds : \A k \in Names : There(i, k) => ~es[i][k].blocked

FixAt ==
  \/ pc = "check"
  \/ pc = "block" /\ ((Rest(cur) /\ Wrong(cur, "hot")) \/ Cloned(cur) \/ Swapped(cur))
  \/ pc \in {"pin", "clone"} /\ Rest(cur) /\ Wrong(cur, "hot")
  \/ pc = "swap" /\ (Cloned(cur) \/ Swapped(cur))
  \/ pc \in {"drop", "resize"} /\ Swapped(cur)
  \/ pc = "switch" /\ Swapped(cur) /\ Right(cur, "hot")
  \/ pc = "unblock" /\ Mended(cur)
  \/ pc = "finish" /\ Mended(cur) /\ Open

ReAt ==
  \/ pc \in {"recheck", "reunblock"} /\ Rest(cur)
  \/ pc = "realias" /\ Shape(cur, {"hot", "re"}, {"hot"})
  \/ pc \in {"copy", "delete"} /\ Shape(cur, {"hot", "re"}, {"hot", "re"})
  \/ /\ pc \in {"reblock", "reclone"} /\ alias[cur] = {"re"}
     /\ There(cur, "re") /\ ~There(cur, "fix")
  \/ pc = "reswitch" /\ Shape(cur, {"hot", "re"}, {"re"})

IdleInv ==
  /\ pc = "idle" /\ \A i \in Inds : Leftover(i)
  /\ completed = "fix" => Open /\ \A i \in Inds : Done(i)

FixInv ==
  /\ cmd = "fix" /\ pc # "idle" /\ completed = "nothing" /\ FixAt
  /\ \A i \in Inds : Leftover(i) /\ (i \in Range(todo) \/ Done(i))

ReInv ==
  /\ cmd = "reindex" /\ pc # "idle" /\ completed = "nothing" /\ ReAt
  /\ \A i \in Inds : i # cur => Rest(i)

\* Where no reindex was disturbed, whatever fix_shards was, an index has one of
\* the shapes that the next fix_shards takes up.
RestoreInv == BaseInv /\ (~spoiled => IdleInv \/ FixInv \/ ReInv)

LEMMA RestoreInvRestores == RestoreInv /\ CalmInv => FixRestores
<1> SUFFICES ASSUME RestoreInv, CalmInv, completed = "fix", ~spoiled, NEW i \in Inds
             PROVE  InOrder(i)
  BY DEF FixRestores
<1>1. pc = "idle" /\ Open /\ Done(i)
  BY DEF RestoreInv, IdleInv, FixInv, ReInv
<1>2. Calm => Whole(i)
  BY <1>1 DEF CalmInv
<1>3. /\ There(i, "hot") /\ ~There(i, "fix") /\ ~There(i, "re") /\ alias[i] = {"hot"}
      /\ ~es[i]["hot"].pinned /\ es[i]["hot"].shards = TargetShards[i]
  BY <1>1 DEF Done, Mended, Rest, Shape, Right, Names
<1>4. ~es[i]["hot"].blocked
  BY <1>1, <1>3 DEF Open, Names
<1>5. ~autoCreate /\ crashes = 0 => es[i]["hot"].replicas = Replicas
  BY <1>2 DEF Calm, Whole
<1> QED
  BY <1>3, <1>4, <1>5 DEF InOrder

\* What the step leaves of an index that it does not work on.
MarksStay(i) ==
  /\ alias'[i] = alias[i]
  /\ \A k \in Names : /\ Left(i, k) <=> There(i, k)
                      /\ There(i, k) => /\ es'[i][k].shards = es[i][k].shards
                                        /\ es'[i][k].pinned = es[i][k].pinned

LEMMA MarksKeep ==
  ASSUME NEW i \in Inds, MarksStay(i)
  PROVE  /\ Rest(i) => Rest(i)'
         /\ Cloned(i) => Cloned(i)'
         /\ Swapped(i) => Swapped(i)'
         /\ Leftover(i) => Leftover(i)'
         /\ Mended(i) => Mended(i)'
         /\ Done(i) => Done(i)'
         /\ Wrong(i, "hot") => Wrong(i, "hot")'
         /\ Right(i, "hot") => Right(i, "hot")'
<1>1. \A ks, as : Shape(i, ks, as) => Shape(i, ks, as)'
  BY DEF MarksStay, Shape, There, Left
<1>2. \A k \in Names : (Wrong(i, k) => Wrong(i, k)') /\ (Right(i, k) => Right(i, k)')
  BY DEF MarksStay, Wrong, Right, There, Left
<1>3. "hot" \in Names /\ "fix" \in Names /\ "re" \in Names
  BY DEF Names
<1>4. ~There(i, "re") => ~There(i, "re")'
  BY <1>3 DEF MarksStay, There, Left
<1>5. (Rest(i) => Rest(i)') /\ (Cloned(i) => Cloned(i)')
  BY <1>1, <1>2, <1>3 DEF Rest, Cloned
<1>6. Swapped(i) => Swapped(i)'
  BY <1>2, <1>3, <1>4 DEF Swapped, MarksStay
<1>7. Mended(i) => Mended(i)'
  BY <1>2, <1>3, <1>5 DEF Mended
<1>8. There(i, "hot") /\ ~es[i]["hot"].pinned => ~es'[i]["hot"].pinned
  BY <1>3 DEF MarksStay
<1>9. Done(i) => Done(i)'
  BY <1>7, <1>8 DEF Done, Mended, Right
<1> QED
  BY <1>2, <1>3, <1>5, <1>6, <1>7, <1>9 DEF Leftover

LEMMA CellMarksStay ==
  ASSUME NEW i \in Inds, NEW k \in Names, Others(i, k)
  PROVE  \A j \in Inds : j # i /\ alias'[j] = alias[j] => MarksStay(j)
  BY DEF Others, MarksStay, Left, There

LEMMA BlockMarksStay ==
  ASSUME BaseInv, NEW b \in BOOLEAN, SetBlock(b), alias' = alias
  PROVE  (\A i \in Inds : MarksStay(i)) /\ (~b => Open')
<1>1. BlockSet(b)
  BY SetBlockSets, CellsTyped DEF BaseInv
<1>2. \A i \in Inds : MarksStay(i)
  BY <1>1 DEF BlockSet, MarksStay
<1>3. ~b => Open'
  BY <1>1 DEF BlockSet, Open, There, Left
<1> QED
  BY <1>2, <1>3

LEMMA CurIsLeft ==
  ASSUME BaseInv, pc # "idle"
  PROVE  cur \in Range(todo)
<1>1. todo \in Seq(Inds) /\ todo # <<>>
  BY DEF BaseInv, TypeOK, Cursor
<1>2. 1 \in DOMAIN todo /\ Head(todo) = todo[1]
  BY <1>1, LenProperties, EmptySeq
<1> QED
  BY <1>2 DEF Range, cur

LEMMA FixGoesOn ==
  ASSUME RestoreInv, BaseInv', FixInv, Steady, pc' # "idle", FixAt', Leftover(cur)',
         cur \in Inds, \A i \in Inds : i # cur => MarksStay(i)
  PROVE  RestoreInv'
<1>1. cur \in Range(todo) /\ cur' = cur /\ cmd' = cmd /\ todo' = todo /\ completed' = completed
  BY CurIsLeft DEF FixInv, RestoreInv, Quiet, Steady, cur
<1>2. \A i \in Inds : i # cur => Leftover(i)' /\ (i \in Range(todo) \/ Done(i)')
  BY MarksKeep DEF FixInv
<1>3. \A i \in Inds : i = cur => Leftover(i)'
  <2>1. Leftover(cur)' => \A i \in Inds : i = cur => Leftover(i)'
    BY <1>1 DEF Leftover, Rest, Cloned, Swapped, Shape, Wrong, There
  <2> QED
    BY <2>1
<1>4. FixInv'
  BY <1>1, <1>2, <1>3 DEF FixInv
<1> QED
  BY <1>4 DEF RestoreInv

LEMMA ReGoesOn ==
  ASSUME RestoreInv, BaseInv', ReInv, Steady, pc' # "idle", ReAt',
         \A i \in Inds : i # cur => MarksStay(i)
  PROVE  RestoreInv'
<1>1. cur' = cur /\ cmd' = cmd /\ completed' = completed
  BY DEF Quiet, Steady, cur
<1>2. \A i \in Inds : i # cur => Rest(i)'
  BY MarksKeep DEF ReInv
<1>3. ReInv'
  BY <1>1, <1>2 DEF ReInv
<1> QED
  BY <1>3 DEF RestoreInv

LEMMA RestoreFixBlock ==
  ASSUME RestoreInv, FixBlock
  PROVE  RestoreInv'
<1> SUFFICES ASSUME ~spoiled PROVE RestoreInv'
  <2>1. BaseInv' /\ spoiled' = spoiled
    BY BaseFixBlock DEF RestoreInv, FixBlock, Quiet, Steady, histVars
  <2> QED
    BY <2>1 DEF RestoreInv
<1>1. /\ TypeOK /\ Cursor /\ BaseInv /\ BaseInv' /\ FixInv
      /\ pc = "block" /\ pc' \in {"swap", "pin", "clone"} /\ Steady
  <2>1. pc = "block" /\ pc' \in {"swap", "pin", "clone"} /\ Steady
    BY DEF FixBlock, At, Quiet
  <2> QED
    BY <2>1, BaseFixBlock DEF RestoreInv, BaseInv, BaseAt, IdleInv, FixInv, ReInv, FixAt, ReAt
<1>2. cur \in Inds /\ cur' = cur
  BY <1>1, CurIsIndex DEF Quiet, Steady, cur
<1>3. SetBlock(TRUE) /\ alias' = alias
  BY DEF FixBlock
<1>4. \A i \in Inds : MarksStay(i)
  BY <1>1, <1>3, BlockMarksStay
<1>5. (Rest(cur) /\ Wrong(cur, "hot")) \/ Cloned(cur) \/ Swapped(cur)
  BY <1>1 DEF FixInv, FixAt
<1>6. CASE There(cur, "fix")
  <2>1. pc' = "swap" /\ (Cloned(cur) \/ Swapped(cur))
    BY <1>1, <1>5, <1>6 DEF FixBlock, At, Rest, Shape, Names
  <2>2. (Cloned(cur) => Cloned(cur)') /\ (Swapped(cur) => Swapped(cur)')
    BY <1>2, <1>4, MarksKeep DEF Cloned, Swapped, Shape, Wrong, There
  <2> QED
    BY <1>1, <1>2, <1>4, <2>1, <2>2, FixGoesOn DEF FixAt, Leftover
<1>7. CASE ~There(cur, "fix")
  <2>1. pc' \in {"pin", "clone"} /\ Rest(cur) /\ Wrong(cur, "hot")
    BY <1>1, <1>5, <1>7 DEF FixBlock, At, Cloned, Swapped, Shape, Wrong, Names
  <2>2. Rest(cur)' /\ Wrong(cur, "hot")'
    BY <1>2, <1>4, <2>1, MarksKeep DEF Rest, Shape, Wrong, There
  <2> QED
    BY <1>1, <1>2, <1>4, <2>1, <2>2, FixGoesOn DEF FixAt, Leftover
<1> QED
  BY <1>6, <1>7

LEMMA RestoreFixPin ==
  ASSUME RestoreInv, FixPin
  PROVE  RestoreInv'
<1> SUFFICES ASSUME ~spoiled PROVE RestoreInv'
  <2>1. BaseInv' /\ spoiled' = spoiled
    BY BaseFixPin DEF RestoreInv, FixPin, Quiet, Steady, histVars
  <2> QED
    BY <2>1 DEF RestoreInv
<1>1. /\ TypeOK /\ Cursor /\ BaseInv /\ BaseInv' /\ FixInv
      /\ pc = "pin" /\ pc' = "clone" /\ Steady
  <2>1. pc = "pin" /\ pc' = "clone" /\ Steady
    BY DEF FixPin, At, Quiet
  <2> QED
    BY <2>1, BaseFixPin DEF RestoreInv, BaseInv, BaseAt, IdleInv, FixInv, ReInv, FixAt, ReAt
<1>2. cur \in Inds /\ cur' = cur
  BY <1>1, CurIsIndex DEF Quiet, Steady, cur
<1>3. /\ Others(cur, "hot") /\ Left(cur, "hot") /\ alias' = alias
      /\ es'[cur]["hot"].shards = es[cur]["hot"].shards
  BY <1>1, FixPinDoes DEF FixPin
<1>4. \A i \in Inds : i # cur => MarksStay(i)
  BY <1>2, <1>3, CellMarksStay DEF Names
<1>5. Rest(cur) /\ Wrong(cur, "hot")
  BY <1>1 DEF FixInv, FixAt
<1>6. Rest(cur)' /\ Wrong(cur, "hot")'
  BY <1>2, <1>3, <1>5 DEF Rest, Shape, Wrong, There, Left, Names, Others
<1> QED
  BY <1>1, <1>2, <1>4, <1>6, FixGoesOn DEF FixAt, Leftover

LEMMA RestoreFixClone ==
  ASSUME RestoreInv, FixClone
  PROVE  RestoreInv'
<1> SUFFICES ASSUME ~spoiled PROVE RestoreInv'
  <2>1. BaseInv' /\ spoiled' = spoiled
    BY BaseFixClone DEF RestoreInv, FixClone, Quiet, Steady, histVars
  <2> QED
    BY <2>1 DEF RestoreInv
<1>1. /\ TypeOK /\ Cursor /\ BaseInv /\ BaseInv' /\ FixInv
      /\ pc = "clone" /\ pc' = "swap" /\ Steady
  <2>1. pc = "clone" /\ pc' = "swap" /\ Steady
    BY DEF FixClone, At, Quiet
  <2> QED
    BY <2>1, BaseFixClone DEF RestoreInv, BaseInv, BaseAt, IdleInv, FixInv, ReInv, FixAt, ReAt
<1>2. cur \in Inds /\ cur' = cur
  BY <1>1, CurIsIndex DEF Quiet, Steady, cur
<1>3. /\ Others(cur, "fix") /\ Left(cur, "fix") /\ alias' = alias
      /\ es'[cur]["fix"].shards = es[cur]["hot"].shards
  BY <1>1, FixCloneDoes DEF FixClone
<1>4. \A i \in Inds : i # cur => MarksStay(i)
  BY <1>2, <1>3, CellMarksStay DEF Names
<1>5. Rest(cur) /\ Wrong(cur, "hot")
  BY <1>1 DEF FixInv, FixAt
<1>6. Shape(cur, {"hot", "fix"}, {"hot"})'
  BY <1>2, <1>3, <1>5 DEF Rest, Shape, There, Left, Names, Others
<1>7. Wrong(cur, "hot")' /\ Wrong(cur, "fix")'
  BY <1>2, <1>3, <1>5 DEF Wrong, There, Left, Names, Others
<1> QED
  BY <1>1, <1>2, <1>4, <1>6, <1>7, FixGoesOn DEF FixAt, Leftover, Cloned

LEMMA RestoreFixSwap ==
  ASSUME RestoreInv, FixSwap
  PROVE  RestoreInv'
<1> SUFFICES ASSUME ~spoiled PROVE RestoreInv'
  <2>1. BaseInv' /\ spoiled' = spoiled
    BY BaseFixSwap DEF RestoreInv, FixSwap, Quiet, Steady, histVars
  <2> QED
    BY <2>1 DEF RestoreInv
<1>1. /\ TypeOK /\ Cursor /\ BaseInv /\ BaseInv' /\ FixInv
      /\ pc = "swap" /\ pc' = "drop" /\ Steady
  <2>1. pc = "swap" /\ pc' = "drop" /\ Steady
    BY DEF FixSwap, At, Quiet
  <2> QED
    BY <2>1, BaseFixSwap DEF RestoreInv, BaseInv, BaseAt, IdleInv, FixInv, ReInv, FixAt, ReAt
<1>2. cur \in Inds /\ cur' = cur
  BY <1>1, CurIsIndex DEF Quiet, Steady, cur
<1>3. \/ UNCHANGED <<es, alias>> /\ "fix" \in alias[cur]
      \/ /\ Others(cur, "hot") /\ ~Left(cur, "hot")
         /\ alias'[cur] = (alias[cur] \cup {"fix"}) \ {"hot"}
         /\ alias[cur] # {"fix"}
         /\ \A j \in Inds : j # cur => alias'[j] = alias[j]
  BY <1>1, BaseFixSwap
<1>4. \A i \in Inds : i # cur => MarksStay(i)
  <2>1. UNCHANGED <<es, alias>> => \A i \in Inds : MarksStay(i)
    BY DEF MarksStay, Left, There
  <2> QED
    BY <1>2, <1>3, <2>1, CellMarksStay DEF Names
<1>5. Cloned(cur) \/ Swapped(cur)
  BY <1>1 DEF FixInv, FixAt
<1>6. Swapped(cur)'
  <2>1. CASE Cloned(cur)
    <3>1. alias[cur] = {"hot"}
      BY <2>1 DEF Cloned, Shape
    <3>2. Others(cur, "hot") /\ alias'[cur] = {"fix"}
      BY <1>3, <3>1
    <3>3. Wrong(cur, "fix") /\ ~There(cur, "re")
      BY <2>1 DEF Cloned, Shape, Names
    <3> QED
      BY <1>2, <3>2, <3>3 DEF Swapped, Others, Wrong, There, Names
  <2>2. CASE Swapped(cur)
    <3>1. UNCHANGED <<es, alias>>
      BY <1>3, <2>2 DEF Swapped
    <3> QED
      BY <1>2, <2>2, <3>1 DEF Swapped, Wrong, There
  <2> QED
    BY <1>5, <2>1, <2>2
<1> QED
  BY <1>1, <1>2, <1>4, <1>6, FixGoesOn DEF FixAt, Leftover

LEMMA RestoreFixDrop ==
  ASSUME RestoreInv, FixDrop
  PROVE  RestoreInv'
<1> SUFFICES ASSUME ~spoiled PROVE RestoreInv'
  <2>1. BaseInv' /\ spoiled' = spoiled
    BY BaseFixDrop DEF RestoreInv, FixDrop, Quiet, Steady, histVars
  <2> QED
    BY <2>1 DEF RestoreInv
<1>1. /\ TypeOK /\ Cursor /\ BaseInv /\ BaseInv' /\ FixInv
      /\ pc = "drop" /\ pc' = "resize" /\ Steady
  <2>1. pc = "drop" /\ pc' = "resize" /\ Steady
    BY DEF FixDrop, At, Quiet
  <2> QED
    BY <2>1, BaseFixDrop DEF RestoreInv, BaseInv, BaseAt, IdleInv, FixInv, ReInv, FixAt, ReAt
<1>2. cur \in Inds /\ cur' = cur
  BY <1>1, CurIsIndex DEF Quiet, Steady, cur
<1>3. /\ Others(cur, "hot") /\ alias'[cur] = alias[cur] \ {"hot"}
      /\ \A j \in Inds : j # cur => alias'[j] = alias[j]
  BY <1>1, BaseFixDrop
<1>4. \A i \in Inds : i # cur => MarksStay(i)
  BY <1>2, <1>3, CellMarksStay DEF Names
<1>5. Swapped(cur)
  BY <1>1 DEF FixInv, FixAt
<1>6. alias'[cur] = {"fix"}
  BY <1>3, <1>5 DEF Swapped
<1>7. Swapped(cur)'
  BY <1>2, <1>3, <1>5, <1>6 DEF Swapped, Wrong, There, Names, Others
<1> QED
  BY <1>1, <1>2, <1>4, <1>7, FixGoesOn DEF FixAt, Leftover

LEMMA RestoreFixResize ==
  ASSUME RestoreInv, FixResize
  PROVE  RestoreInv'
<1> SUFFICES ASSUME ~spoiled PROVE RestoreInv'
  <2>1. BaseInv' /\ spoiled' = spoiled
    BY BaseFixResize DEF RestoreInv, FixResize, Quiet, Steady, histVars
  <2> QED
    BY <2>1 DEF RestoreInv
<1>1. /\ TypeOK /\ Cursor /\ BaseInv /\ BaseInv' /\ FixInv
      /\ pc = "resize" /\ pc' = "switch" /\ Steady
  <2>1. pc = "resize" /\ pc' = "switch" /\ Steady
    BY DEF FixResize, At, Quiet
  <2> QED
    BY <2>1, BaseFixResize DEF RestoreInv, BaseInv, BaseAt, IdleInv, FixInv, ReInv, FixAt, ReAt
<1>2. cur \in Inds /\ cur' = cur
  BY <1>1, CurIsIndex DEF Quiet, Steady, cur
<1>3. Swapped(cur) /\ There(cur, "fix")
  BY <1>1 DEF FixInv, FixAt, Swapped, Wrong
<1>4. /\ Others(cur, "hot") /\ Left(cur, "hot") /\ alias' = alias
      /\ es'[cur]["hot"].shards = TargetShards[cur]
  BY <1>1, <1>3, FixResizeDoes DEF FixResize
<1>5. \A i \in Inds : i # cur => MarksStay(i)
  BY <1>2, <1>4, CellMarksStay DEF Names
<1>6. Swapped(cur)'
  BY <1>2, <1>3, <1>4 DEF Swapped, Wrong, There, Names, Others
<1>7. Right(cur, "hot")'
  BY <1>2, <1>4 DEF Right, There, Left
<1> QED
  BY <1>1, <1>2, <1>5, <1>6, <1>7, FixGoesOn DEF FixAt, Leftover

LEMMA RestoreFixSwitch ==
  ASSUME RestoreInv, FixSwitch
  PROVE  RestoreInv'
<1> SUFFICES ASSUME ~spoiled PROVE RestoreInv'
  <2>1. BaseInv' /\ spoiled' = spoiled
    BY BaseFixSwitch DEF RestoreInv, FixSwitch, Quiet, Steady, histVars
  <2> QED
    BY <2>1 DEF RestoreInv
<1>1. /\ TypeOK /\ Cursor /\ BaseInv /\ BaseInv' /\ FixInv
      /\ pc = "switch" /\ pc' = "unblock" /\ Steady
  <2>1. pc = "switch" /\ pc' = "unblock" /\ Steady
    BY DEF FixSwitch, At, Quiet
  <2> QED
    BY <2>1, BaseFixSwitch DEF RestoreInv, BaseInv, BaseAt, IdleInv, FixInv, ReInv, FixAt, ReAt
<1>2. cur \in Inds /\ cur' = cur
  BY <1>1, CurIsIndex DEF Quiet, Steady, cur
<1>3. /\ Others(cur, "fix") /\ ~Left(cur, "fix")
      /\ alias'[cur] = (alias[cur] \cup {"hot"}) \ {"fix"}
      /\ \A j \in Inds : j # cur => alias'[j] = alias[j]
  BY <1>1, BaseFixSwitch
<1>4. \A i \in Inds : i # cur => MarksStay(i)
  BY <1>2, <1>3, CellMarksStay DEF Names
<1>5. Swapped(cur) /\ Right(cur, "hot")
  BY <1>1 DEF FixInv, FixAt
<1>6. alias'[cur] = {"hot"}
  BY <1>3, <1>5 DEF Swapped
<1>7. Rest(cur)' /\ Right(cur, "hot")'
  BY <1>2, <1>3, <1>5, <1>6 DEF Swapped, Rest, Shape, Right, There, Left, Names, Others
<1> QED
  BY <1>1, <1>2, <1>4, <1>7, FixGoesOn DEF FixAt, Leftover, Mended

LEMMA BaseFixUnblock ==
  ASSUME BaseInv, FixUnblock
  PROVE  BaseInv'
  BY BaseStep DEF Next, FixStep

LEMMA RestoreFixUnblock ==
  ASSUME RestoreInv, FixUnblock
  PROVE  RestoreInv'
<1> SUFFICES ASSUME ~spoiled PROVE RestoreInv'
  <2>1. BaseInv' /\ spoiled' = spoiled
    BY BaseFixUnblock DEF RestoreInv, FixUnblock, Quiet, Steady, histVars
  <2> QED
    BY <2>1 DEF RestoreInv
<1>1. /\ TypeOK /\ Cursor /\ BaseInv /\ BaseInv' /\ FixInv
      /\ pc = "unblock" /\ pc' = "finish" /\ Steady
  <2>1. pc = "unblock" /\ pc' = "finish" /\ Steady
    BY DEF FixUnblock, At, Quiet
  <2> QED
    BY <2>1, BaseFixUnblock DEF RestoreInv, BaseInv, BaseAt, IdleInv, FixInv, ReInv, FixAt, ReAt
<1>2. cur \in Inds /\ cur' = cur
  BY <1>1, CurIsIndex DEF Quiet, Steady, cur
<1>3. SetBlock(FALSE) /\ alias' = alias
  BY DEF FixUnblock
<1>4. (\A i \in Inds : MarksStay(i)) /\ Open'
  BY <1>1, <1>3, BlockMarksStay
<1>5. Mended(cur)
  BY <1>1 DEF FixInv, FixAt
<1>6. Mended(cur)'
  BY <1>2, <1>4, <1>5, MarksKeep DEF Mended, Rest, Shape, Right, There
<1> QED
  BY <1>1, <1>2, <1>4, <1>6, FixGoesOn DEF FixAt, Leftover, Mended

LEMMA RestoreReCreate ==
  ASSUME RestoreInv, ReCreate
  PROVE  RestoreInv'
<1> SUFFICES ASSUME ~spoiled PROVE RestoreInv'
  <2>1. BaseInv' /\ spoiled' = spoiled
    BY BaseReCreate DEF RestoreInv, ReCreate, Quiet, Steady, histVars
  <2> QED
    BY <2>1 DEF RestoreInv
<1>1. /\ TypeOK /\ Cursor /\ BaseInv /\ BaseInv' /\ ReInv
      /\ pc = "recheck" /\ pc' = "realias" /\ Steady
  <2>1. pc = "recheck" /\ pc' = "realias" /\ Steady
    BY DEF ReCreate, At, Quiet
  <2> QED
    BY <2>1, BaseReCreate DEF RestoreInv, BaseInv, BaseAt, IdleInv, FixInv, ReInv, FixAt, ReAt
<1>2. cur \in Inds /\ cur' = cur
  BY <1>1, CurIsIndex DEF Quiet, Steady, cur
<1>3. Others(cur, "re") /\ Left(cur, "re") /\ alias' = alias
  BY <1>1, BaseReCreate
<1>4. \A i \in Inds : i # cur => MarksStay(i)
  BY <1>2, <1>3, CellMarksStay DEF Names
<1>5. Rest(cur)
  BY <1>1 DEF ReInv, ReAt
<1>6. Shape(cur, {"hot", "re"}, {"hot"})'
  BY <1>2, <1>3, <1>5 DEF Rest, Shape, There, Left, Names, Others
<1> QED
  BY <1>1, <1>4, <1>6, ReGoesOn DEF ReAt

LEMMA RestoreReAlias ==
  ASSUME RestoreInv, ReAlias
  PROVE  RestoreInv'
<1> SUFFICES ASSUME ~spoiled PROVE RestoreInv'
  <2>1. BaseInv' /\ spoiled' = spoiled
    BY BaseReAlias DEF RestoreInv, ReAlias, Quiet, Steady, histVars
  <2> QED
    BY <2>1 DEF RestoreInv
<1>1. /\ TypeOK /\ Cursor /\ BaseInv /\ BaseInv' /\ ReInv
      /\ pc = "realias" /\ pc' = "copy" /\ Steady
  <2>1. pc = "realias" /\ pc' = "copy" /\ Steady
    BY DEF ReAlias, At, Quiet
  <2> QED
    BY <2>1, BaseReAlias DEF RestoreInv, BaseInv, BaseAt, IdleInv, FixInv, ReInv, FixAt, ReAt
<1>2. cur \in Inds /\ cur' = cur
  BY <1>1, CurIsIndex DEF Quiet, Steady, cur
<1>3. /\ es' = es
      /\ alias'[cur] = IF "hot" \in alias[cur] THEN alias[cur] \cup {"re"} ELSE alias[cur]
      /\ \A j \in Inds : j # cur => alias'[j] = alias[j]
  BY <1>1, BaseReAlias
<1>4. \A i \in Inds : i # cur => MarksStay(i)
  BY <1>3 DEF MarksStay, Left, There
<1>5. Shape(cur, {"hot", "re"}, {"hot"})
  BY <1>1 DEF ReInv, ReAt
<1>6. alias'[cur] = {"hot", "re"}
  BY <1>3, <1>5 DEF Shape
<1>7. Shape(cur, {"hot", "re"}, {"hot", "re"})'
  BY <1>2, <1>3, <1>5, <1>6 DEF Shape, There
<1> QED
  BY <1>1, <1>4, <1>7, ReGoesOn DEF ReAt

LEMMA RestoreReCopy ==
  ASSUME RestoreInv, ReCopy
  PROVE  RestoreInv'
<1> SUFFICES ASSUME ~spoiled PROVE RestoreInv'
  <2>1. BaseInv' /\ spoiled' = spoiled
    BY BaseReCopy DEF RestoreInv, ReCopy, Quiet, Steady, histVars
  <2> QED
    BY <2>1 DEF RestoreInv
<1>1. /\ TypeOK /\ Cursor /\ BaseInv /\ BaseInv' /\ ReInv
      /\ pc = "copy" /\ pc' = "delete" /\ Steady
  <2>1. pc = "copy" /\ pc' = "delete" /\ Steady
    BY DEF ReCopy, At, Quiet
  <2> QED
    BY <2>1, BaseReCopy DEF RestoreInv, BaseInv, BaseAt, IdleInv, FixInv, ReInv, FixAt, ReAt
<1>2. cur \in Inds /\ cur' = cur
  BY <1>1, CurIsIndex DEF Quiet, Steady, cur
<1>3. Unmoved /\ Others(cur, "re")
  BY <1>1, BaseReCopy
<1>4. \A i \in Inds : i # cur => MarksStay(i)
  BY <1>2, <1>3, CellMarksStay DEF Names, Unmoved
<1>5. Shape(cur, {"hot", "re"}, {"hot", "re"})
  BY <1>1 DEF ReInv, ReAt
<1>6. Shape(cur, {"hot", "re"}, {"hot", "re"})'
  BY <1>2, <1>3, <1>5 DEF Shape, There, Left, Unmoved
<1> QED
  BY <1>1, <1>4, <1>6, ReGoesOn DEF ReAt

LEMMA RestoreReDelete ==
  ASSUME RestoreInv, ReDelete
  PROVE  RestoreInv'
<1> SUFFICES ASSUME ~spoiled PROVE RestoreInv'
  <2>1. BaseInv' /\ spoiled' = spoiled
    BY BaseReDelete DEF RestoreInv, ReDelete, Quiet, Steady, histVars
  <2> QED
    BY <2>1 DEF RestoreInv
<1>1. /\ TypeOK /\ Cursor /\ BaseInv /\ BaseInv' /\ ReInv
      /\ pc = "delete" /\ pc' = "reblock" /\ Steady
  <2>1. pc = "delete" /\ pc' = "reblock" /\ Steady
    BY DEF ReDelete, At, Quiet
  <2> QED
    BY <2>1, BaseReDelete DEF RestoreInv, BaseInv, BaseAt, IdleInv, FixInv, ReInv, FixAt, ReAt
<1>2. cur \in Inds /\ cur' = cur
  BY <1>1, CurIsIndex DEF Quiet, Steady, cur
<1>3. /\ Others(cur, "hot") /\ ~Left(cur, "hot") /\ alias'[cur] = alias[cur] \ {"hot"}
      /\ \A j \in Inds : j # cur => alias'[j] = alias[j]
  BY <1>1, BaseReDelete
<1>4. \A i \in Inds : i # cur => MarksStay(i)
  BY <1>2, <1>3, CellMarksStay DEF Names
<1>5. Shape(cur, {"hot", "re"}, {"hot", "re"})
  BY <1>1 DEF ReInv, ReAt
<1>6. alias'[cur] = {"re"}
  BY <1>3, <1>5 DEF Shape
<1>7. (alias[cur] = {"re"})' /\ There(cur, "re")' /\ ~There(cur, "fix")'
  BY <1>2, <1>3, <1>5, <1>6 DEF Shape, There, Names, Others
<1> QED
  BY <1>1, <1>4, <1>7, ReGoesOn DEF ReAt

LEMMA RestoreReBlock ==
  ASSUME RestoreInv, ReBlock
  PROVE  RestoreInv'
<1> SUFFICES ASSUME ~spoiled PROVE RestoreInv'
  <2>1. BaseInv' /\ spoiled' = spoiled
    BY BaseReBlock DEF RestoreInv, ReBlock, Quiet, Steady, histVars
  <2> QED
    BY <2>1 DEF RestoreInv
<1>1. /\ TypeOK /\ Cursor /\ BaseInv /\ BaseInv' /\ ReInv
      /\ pc = "reblock" /\ pc' = "reclone" /\ Steady
  <2>1. pc = "reblock" /\ pc' = "reclone" /\ Steady
    BY DEF ReBlock, At, Quiet
  <2> QED
    BY <2>1, BaseReBlock DEF RestoreInv, BaseInv, BaseAt, IdleInv, FixInv, ReInv, FixAt, ReAt
<1>2. cur \in Inds /\ cur' = cur
  BY <1>1, CurIsIndex DEF Quiet, Steady, cur
<1>3. SetBlock(TRUE) /\ alias' = alias
  BY DEF ReBlock
<1>4. \A i \in Inds : MarksStay(i)
  BY <1>1, <1>3, BlockMarksStay
<1>5. alias[cur] = {"re"} /\ There(cur, "re") /\ ~There(cur, "fix")
  BY <1>1 DEF ReInv, ReAt
<1>6. (alias[cur] = {"re"})' /\ There(cur, "re")' /\ ~There(cur, "fix")'
  BY <1>2, <1>4, <1>5 DEF MarksStay, There, Left, Names
<1> QED
  BY <1>1, <1>4, <1>6, ReGoesOn DEF ReAt

LEMMA RestoreReClone ==
  ASSUME RestoreInv, ReClone
  PROVE  RestoreInv'
<1> SUFFICES ASSUME ~spoiled PROVE RestoreInv'
  <2>1. BaseInv' /\ spoiled' = spoiled
    BY BaseReClone DEF RestoreInv, ReClone, Quiet, Steady, histVars
  <2> QED
    BY <2>1 DEF RestoreInv
<1>1. /\ TypeOK /\ Cursor /\ BaseInv /\ BaseInv' /\ ReInv
      /\ pc = "reclone" /\ pc' = "reswitch" /\ Steady
  <2>1. pc = "reclone" /\ pc' = "reswitch" /\ Steady
    BY DEF ReClone, At, Quiet
  <2> QED
    BY <2>1, BaseReClone DEF RestoreInv, BaseInv, BaseAt, IdleInv, FixInv, ReInv, FixAt, ReAt
<1>2. cur \in Inds /\ cur' = cur
  BY <1>1, CurIsIndex DEF Quiet, Steady, cur
<1>3. Others(cur, "hot") /\ Left(cur, "hot") /\ alias' = alias
  BY <1>1, BaseReClone
<1>4. \A i \in Inds : i # cur => MarksStay(i)
  BY <1>2, <1>3, CellMarksStay DEF Names
<1>5. alias[cur] = {"re"} /\ There(cur, "re") /\ ~There(cur, "fix")
  BY <1>1 DEF ReInv, ReAt
<1>6. Shape(cur, {"hot", "re"}, {"re"})'
  BY <1>2, <1>3, <1>5 DEF Shape, There, Left, Names, Others
<1> QED
  BY <1>1, <1>4, <1>6, ReGoesOn DEF ReAt

LEMMA RestoreReSwitch ==
  ASSUME RestoreInv, ReSwitch
  PROVE  RestoreInv'
<1> SUFFICES ASSUME ~spoiled PROVE RestoreInv'
  <2>1. BaseInv' /\ spoiled' = spoiled
    BY BaseReSwitch DEF RestoreInv, ReSwitch, Quiet, Steady, histVars
  <2> QED
    BY <2>1 DEF RestoreInv
<1>1. /\ TypeOK /\ Cursor /\ BaseInv /\ BaseInv' /\ ReInv
      /\ pc = "reswitch" /\ pc' = "reunblock" /\ Steady
  <2>1. pc = "reswitch" /\ pc' = "reunblock" /\ Steady
    BY DEF ReSwitch, At, Quiet
  <2> QED
    BY <2>1, BaseReSwitch DEF RestoreInv, BaseInv, BaseAt, IdleInv, FixInv, ReInv, FixAt, ReAt
<1>2. cur \in Inds /\ cur' = cur
  BY <1>1, CurIsIndex DEF Quiet, Steady, cur
<1>3. /\ Others(cur, "re") /\ ~Left(cur, "re")
      /\ alias'[cur] = IF "re" \in alias[cur] THEN (alias[cur] \cup {"hot"}) \ {"re"}
                       ELSE alias[cur]
      /\ \A j \in Inds : j # cur => alias'[j] = alias[j]
  BY <1>1, BaseReSwitch
<1>4. \A i \in Inds : i # cur => MarksStay(i)
  BY <1>2, <1>3, CellMarksStay DEF Names
<1>5. Shape(cur, {"hot", "re"}, {"re"})
  BY <1>1 DEF ReInv, ReAt
<1>6. alias'[cur] = {"hot"}
  BY <1>3, <1>5 DEF Shape
<1>7. Rest(cur)'
  BY <1>2, <1>3, <1>5, <1>6 DEF Rest, Shape, There, Left, Names, Others
<1> QED
  BY <1>1, <1>4, <1>7, ReGoesOn DEF ReAt

\* What can be told from what a save leaves.
LEMMA SaveMarks ==
  ASSUME BaseInv, NEW i \in Inds, NEW d \in Docs, Save(i, d)
  PROVE  /\ \A j \in Inds : j # i \/ There(i, "hot") => MarksStay(j)
         /\ \A j \in Inds, k \in Names : k # "hot" => es'[j][k] = es[j][k]
         /\ \A j \in Inds : There(j, "hot") => Left(j, "hot")
         /\ Open => Open'
<1>1. /\ TypeOK /\ alias' = alias
  BY DEF BaseInv, Save
<1>2. /\ Others(i, "hot") /\ Left(i, "hot") /\ ~es'[i]["hot"].blocked
      /\ There(i, "hot") => /\ es'[i]["hot"].shards = es[i]["hot"].shards
                            /\ es'[i]["hot"].pinned = es[i]["hot"].pinned
  BY <1>1, SaveDoes
<1>3. \A j \in Inds : j # i => MarksStay(j)
  BY <1>1, <1>2, CellMarksStay DEF Names
<1>4. There(i, "hot") => MarksStay(i)
  BY <1>1, <1>2 DEF MarksStay, Others, Left, There
<1>5. \A j \in Inds, k \in Names : k # "hot" => es'[j][k] = es[j][k]
  BY <1>2 DEF Others
<1>6. \A j \in Inds : There(j, "hot") => Left(j, "hot")
  BY <1>2 DEF Others, Left, There, Names
<1>7. ASSUME Open PROVE Open'
  <2> SUFFICES ASSUME NEW j \in Inds, NEW k \in Names, Left(j, k) PROVE ~es'[j][k].blocked
    BY DEF Open, Left, There
  <2>1. CASE j = i /\ k = "hot"
    BY <1>2, <2>1
  <2>2. CASE j # i \/ k # "hot"
    <3>1. es'[j][k] = es[j][k]
      BY <1>2, <2>2 DEF Others
    <3> QED
      BY <1>7, <3>1 DEF Open, Left, There
  <2> QED
    BY <2>1, <2>2
<1> QED
  BY <1>3, <1>4, <1>5, <1>6, <1>7

\* What has an index under its own name stays so; what waits for it, too.
LEMMA SaveKeeps ==
  ASSUME BaseInv, NEW i \in Inds, NEW d \in Docs, Save(i, d)
  PROVE  \A j \in Inds :
           /\ Rest(j) => Rest(j)'
           /\ Cloned(j) => Cloned(j)'
           /\ Swapped(j) => Swapped(j)'
           /\ Leftover(j) => Leftover(j)'
           /\ Mended(j) => Mended(j)'
           /\ Done(j) => Done(j)'
           /\ Wrong(j, "hot") => Wrong(j, "hot")'
           /\ Right(j, "hot") => Right(j, "hot")'
           /\ \A ks, as : "hot" \in ks /\ Shape(j, ks, as) => Shape(j, ks, as)'
<1> SUFFICES ASSUME NEW j \in Inds
             PROVE  /\ Rest(j) => Rest(j)'
                    /\ Cloned(j) => Cloned(j)'
                    /\ Swapped(j) => Swapped(j)'
                    /\ Leftover(j) => Leftover(j)'
                    /\ Mended(j) => Mended(j)'
                    /\ Done(j) => Done(j)'
                    /\ Wrong(j, "hot") => Wrong(j, "hot")'
                    /\ Right(j, "hot") => Right(j, "hot")'
                    /\ \A ks, as : "hot" \in ks /\ Shape(j, ks, as) => Shape(j, ks, as)'
  OBVIOUS
<1>1. MarksStay(j) \/ ~There(j, "hot")
  BY SaveMarks
<1>2. CASE MarksStay(j)
  <2>1. \A ks, as : Shape(j, ks, as) => Shape(j, ks, as)'
    BY <1>2 DEF MarksStay, Shape, There, Left
  <2> QED
    BY <1>2, <2>1, MarksKeep
<1>3. CASE ~There(j, "hot")
  <2>1. \A k \in Names : k # "hot" => es'[j][k] = es[j][k]
    BY SaveMarks
  <2>2. alias' = alias
    BY DEF Save
  <2>3. \A ks, as : "hot" \in ks => ~Shape(j, ks, as)
    BY <1>3 DEF Shape, Names
  <2>4. ~Rest(j) /\ ~Cloned(j) /\ ~Mended(j) /\ ~Done(j) /\ ~Wrong(j, "hot") /\ ~Right(j, "hot")
    BY <1>3, <2>3 DEF Rest, Cloned, Mended, Done, Wrong, Right
  <2>5. Swapped(j) => Swapped(j)'
    BY <2>1, <2>2 DEF Swapped, Wrong, There, Names
  <2> QED
    BY <2>3, <2>4, <2>5 DEF Leftover
<1> QED
  BY <1>1, <1>2, <1>3

LEMMA RestoreSave ==
  ASSUME RestoreInv, NEW i \in Inds, NEW d \in Docs, Save(i, d)
  PROVE  RestoreInv'
<1>1. BaseInv /\ BaseInv' /\ TypeOK /\ Cursor
  BY BaseSave DEF RestoreInv, BaseInv
<1>2. /\ alias' = alias /\ pc' = pc /\ cmd' = cmd /\ todo' = todo /\ completed' = completed
      /\ cur' = cur /\ spoiled' = spoiled
  BY DEF Save, cmdVars, cur
<1> SUFFICES ASSUME ~spoiled PROVE RestoreInv'
  BY <1>1, <1>2 DEF RestoreInv
<1>3. /\ \A j \in Inds, k \in Names : k # "hot" => es'[j][k] = es[j][k]
      /\ Open => Open'
  BY <1>1, SaveMarks
<1>4. \A j \in Inds : /\ Rest(j) => Rest(j)'
                      /\ Leftover(j) => Leftover(j)'
                      /\ Done(j) => Done(j)'
  BY <1>1, SaveKeeps
<1>5. ASSUME pc # "idle"
      PROVE  /\ Rest(cur) => Rest(cur)'
             /\ Cloned(cur) => Cloned(cur)'
             /\ Swapped(cur) => Swapped(cur)'
             /\ Mended(cur) => Mended(cur)'
             /\ Wrong(cur, "hot") => Wrong(cur, "hot")'
             /\ Right(cur, "hot") => Right(cur, "hot")'
             /\ \A ks, as : "hot" \in ks /\ Shape(cur, ks, as) => Shape(cur, ks, as)'
             /\ There(cur, "re") /\ ~There(cur, "fix") => There(cur, "re")' /\ ~There(cur, "fix")'
  <2>1. cur \in Inds
    BY <1>1, <1>5, CurIsIndex
  <2>2. /\ Rest(cur) => Rest(cur)'
        /\ Cloned(cur) => Cloned(cur)'
        /\ Swapped(cur) => Swapped(cur)'
        /\ Mended(cur) => Mended(cur)'
        /\ Wrong(cur, "hot") => Wrong(cur, "hot")'
        /\ Right(cur, "hot") => Right(cur, "hot")'
        /\ \A ks, as : "hot" \in ks /\ Shape(cur, ks, as) => Shape(cur, ks, as)'
    BY <1>1, <1>2, <2>1, SaveKeeps DEF Rest, Cloned, Swapped, Mended, Wrong, Right, Shape, There
  <2>3. es'[cur]["re"] = es[cur]["re"] /\ es'[cur]["fix"] = es[cur]["fix"]
    BY <1>3, <2>1 DEF Names
  <2> QED
    BY <1>2, <2>2, <2>3 DEF There
<1>6. CASE IdleInv
  BY <1>1, <1>2, <1>3, <1>4, <1>6 DEF RestoreInv, IdleInv
<1>7. CASE FixInv
  <2>1. FixAt'
    BY <1>2, <1>3, <1>5, <1>7 DEF FixInv, FixAt
  <2> QED
    BY <1>1, <1>2, <1>4, <1>7, <2>1 DEF RestoreInv, FixInv
<1>8. CASE ReInv
  <2>1. ReAt'
    BY <1>2, <1>5, <1>8 DEF ReInv, ReAt
  <2> QED
    BY <1>1, <1>2, <1>4, <1>8, <2>1 DEF RestoreInv, ReInv
<1> QED
  BY <1>6, <1>7, <1>8 DEF RestoreInv

LEMMA RestoreFixCheck ==
  ASSUME RestoreInv, FixCheck
  PROVE  RestoreInv'
<1>1. BaseInv /\ BaseInv' /\ TypeOK /\ Cursor
  BY BaseFixCheck DEF RestoreInv, BaseInv
<1>2. /\ pc = "check" /\ UNCHANGED <<es, alias, cmd, todo, completed, spoiled>>
      /\ pc' \in {"block", "unblock"}
      /\ cur' = cur /\ cur \in Inds
  BY <1>1, CurIsIndex DEF FixCheck, dataVars, histVars, cur
<1> SUFFICES ASSUME ~spoiled PROVE RestoreInv'
  BY <1>1, <1>2 DEF RestoreInv
<1>3. FixInv
  BY <1>2 DEF RestoreInv, IdleInv, ReInv, ReAt
<1>4. PICK k \in alias[cur] :
        /\ method' = Method(es[cur][k].shards, TargetShards[cur])
        /\ pc' = IF method' = "none" THEN "unblock" ELSE "block"
  BY DEF FixCheck
<1>5. k \in Names /\ There(cur, k) /\ es[cur][k] \in Index /\ TargetShards[cur] \in Nat
  BY <1>1, <1>2, MaintenanceAssumption DEF TypeOK, BaseInv, Aliased, There, Inds
<1>6. es[cur][k].shards \in Nat
  BY <1>5 DEF Index
<1>7. \/ pc' = "unblock" /\ Right(cur, k)
      \/ pc' = "block" /\ Wrong(cur, k)
  BY <1>4, <1>5, <1>6 DEF Method, Right, Wrong
<1>8. Leftover(cur)
  BY <1>2, <1>3 DEF FixInv
<1>9. CASE Rest(cur) \/ Cloned(cur) \/ Swapped(cur)
  <2>1. FixAt'
    <3>1. CASE Cloned(cur)
      <4>1. k = "hot"
        BY <1>4, <3>1 DEF Cloned, Shape
      <4>2. pc' = "block"
        BY <1>7, <3>1, <4>1 DEF Cloned, Right, Wrong
      <4> QED
        BY <1>2, <3>1, <4>2 DEF FixAt, Cloned, Wrong, Shape, There
    <3>2. CASE Swapped(cur)
      <4>1. k = "fix"
        BY <1>4, <3>2 DEF Swapped
      <4>2. pc' = "block"
        BY <1>7, <3>2, <4>1 DEF Swapped, Right, Wrong
      <4> QED
        BY <1>2, <3>2, <4>2 DEF FixAt, Swapped, Wrong, There
    <3>3. CASE Rest(cur)
      <4>1. k = "hot"
        BY <1>4, <3>3 DEF Rest, Shape
      <4>2. \/ pc' = "unblock" /\ Mended(cur)
            \/ pc' = "block" /\ Rest(cur) /\ Wrong(cur, "hot")
        BY <1>7, <3>3, <4>1 DEF Mended
      <4> QED
        BY <1>2, <4>2 DEF FixAt, Mended, Rest, Right, Wrong, Shape, There
    <3> QED
      BY <1>9, <3>1, <3>2, <3>3
  <2>2. \A i \in Inds : Leftover(i)' /\ (i \in Range(todo) \/ Done(i)')
    <3>1. \A i \in Inds : MarksStay(i)
      BY <1>2 DEF MarksStay, Left, There
    <3> QED
      BY <1>3, <3>1, MarksKeep DEF FixInv
  <2> QED
    BY <1>1, <1>2, <1>3, <2>1, <2>2 DEF RestoreInv, FixInv
<1> QED
  BY <1>8, <1>9 DEF Leftover

LEMMA AllMarks ==
  ASSUME \A i \in Inds : MarksStay(i), \A i \in Inds : Leftover(i)
  PROVE  \A i \in Inds : Leftover(i)'
  BY MarksKeep

\* A command ends before its time, and may be a fix_shards.
LEMMA RestoreAbandon ==
  ASSUME RestoreInv, BaseInv', Abandon, pc # "idle", \A i \in Inds : MarksStay(i)
  PROVE  RestoreInv'
<1>1. /\ pc' = "idle" /\ completed' = "raised"
      /\ spoiled' = (spoiled \/ cmd = "reindex")
  BY DEF Abandon
<1> SUFFICES ASSUME ~spoiled, cmd # "reindex" PROVE RestoreInv'
  BY <1>1 DEF RestoreInv
<1>2. FixInv
  BY DEF RestoreInv, IdleInv, ReInv
<1>3. \A i \in Inds : Leftover(i)'
  BY <1>2, AllMarks DEF FixInv
<1> QED
  BY <1>1, <1>3 DEF RestoreInv, IdleInv

LEMMA RestoreBegin ==
  ASSUME RestoreInv, BaseInv', pc = "idle", NEW c \in {"fix", "reindex"}, Begin(c)
  PROVE  RestoreInv'
<1>1. /\ cmd' = c /\ todo' = Indexes /\ pc' = First(c) /\ completed' = "nothing"
      /\ spoiled' = (spoiled \/ (c = "reindex" /\ \E i \in Inds : There(i, "fix")))
      /\ UNCHANGED <<es, alias>>
  BY DEF Begin, dataVars
<1> SUFFICES ASSUME ~spoiled, ~(c = "reindex" /\ \E i \in Inds : There(i, "fix"))
             PROVE  RestoreInv'
  BY <1>1 DEF RestoreInv
<1>2. IdleInv
  BY DEF RestoreInv, FixInv, ReInv
<1>3. \A i \in Inds : MarksStay(i)
  BY <1>1 DEF MarksStay, Left, There
<1>4. \A i \in Inds : Leftover(i)'
  BY <1>2, <1>3, AllMarks DEF IdleInv
<1>5. CASE c = "fix"
  <2>1. FixInv'
    BY <1>1, <1>4, <1>5 DEF FixInv, FixAt, First, Inds
  <2> QED
    BY <2>1 DEF RestoreInv
<1>6. CASE c = "reindex"
  <2>1. \A i \in Inds : Rest(i)
    BY <1>2, <1>6 DEF IdleInv, Leftover, Cloned, Swapped, Wrong, Shape, Names
  <2>2. \A i \in Inds : Rest(i)'
    BY <1>3, <2>1, MarksKeep
  <2>3. Indexes \in Seq(Inds) /\ Indexes # <<>>
    BY MaintenanceAssumption DEF Inds
  <2>4. cur' \in Inds
    BY <1>1, <2>3, HeadTailProperties DEF cur
  <2>5. Rest(cur)'
    <3>1. \A i \in Inds : /\ alias'[i] = {"hot"}
                          /\ \A k \in Names : es'[i][k] # Absent <=> k \in {"hot"}
      BY <2>2 DEF Rest, Shape, There
    <3> QED
      BY <2>4, <3>1 DEF Rest, Shape, There
  <2>6. ReInv'
    BY <1>1, <1>6, <2>2, <2>5 DEF ReInv, ReAt, First
  <2> QED
    BY <2>6 DEF RestoreInv
<1> QED
  BY <1>5, <1>6

LEMMA RestoreFixFinish ==
  ASSUME RestoreInv, FixFinish
  PROVE  RestoreInv'
<1>1. BaseInv /\ BaseInv' /\ TypeOK /\ Cursor /\ Aliased
  BY BaseFixFinish DEF RestoreInv, BaseInv
<1>2. /\ pc = "finish" /\ todo' = Tail(todo) /\ alias' = alias /\ cmd' = cmd /\ spoiled' = spoiled
      /\ \/ todo' = <<>> /\ pc' = "idle" /\ completed' = cmd
         \/ todo' # <<>> /\ pc' = First(cmd) /\ completed' = completed
  BY DEF FixFinish, NextIndex, histVars
<1> SUFFICES ASSUME ~spoiled PROVE RestoreInv'
  BY <1>1, <1>2 DEF RestoreInv
<1>3. FixInv /\ Mended(cur) /\ Open
  BY <1>2 DEF RestoreInv, IdleInv, FixInv, ReInv, FixAt, ReAt
<1>4. /\ cur \in Inds
      /\ \A i \in Inds : i \notin Range(Tail(todo)) => i \notin Range(todo) \/ i = cur
  BY <1>1, <1>2, CurIsIndex
<1>5. FinishSets /\ \A j \in Inds, l \in Names : j # cur => es'[j][l] = es[j][l]
  BY <1>1, FixFinishDoes
<1>6. \A i \in Inds : i # cur => MarksStay(i)
  BY <1>2, <1>5 DEF MarksStay, Left, There
<1>7. \A i \in Inds : i = cur => Done(i)'
  <2> SUFFICES ASSUME NEW i \in Inds, i = cur PROVE Done(i)'
    OBVIOUS
  <2>1. alias[i] = {"hot"} /\ (\A k \in Names : There(i, k) <=> k \in {"hot"})
        /\ es[i]["hot"].shards = TargetShards[i] /\ There(i, "hot")
    BY <1>3 DEF Mended, Rest, Shape, Right
  <2>2. /\ \A k \in Names : Left(i, k) <=> There(i, k)
        /\ es'[i]["hot"].shards = es[i]["hot"].shards /\ ~es'[i]["hot"].pinned
    BY <1>5, <2>1 DEF FinishSets, Names
  <2> QED
    BY <1>2, <2>1, <2>2 DEF Done, Mended, Rest, Shape, Right, There, Left, Names
<1>8. \A i \in Inds : Leftover(i)' /\ (i \notin Range(Tail(todo)) => Done(i)')
  BY <1>3, <1>4, <1>6, <1>7, MarksKeep DEF FixInv, Leftover, Done, Mended
<1>9. Open'
  <2> SUFFICES ASSUME NEW i \in Inds, NEW k \in Names, Left(i, k) PROVE ~es'[i][k].blocked
    BY DEF Open, Left, There
  <2>1. There(i, k) => ~es[i][k].blocked
    BY <1>3 DEF Open
  <2>2. There(i, k) /\ es'[i][k].blocked = es[i][k].blocked
    BY <1>5 DEF FinishSets, Left, There
  <2> QED
    BY <2>1, <2>2
<1>10. CASE todo' = <<>> /\ pc' = "idle" /\ completed' = cmd
  <2>1. Range(Tail(todo)) = {}
    BY <1>2, <1>10 DEF Range
  <2> QED
    BY <1>1, <1>8, <1>9, <1>10, <2>1 DEF RestoreInv, IdleInv
<1>11. CASE todo' # <<>> /\ pc' = First(cmd) /\ completed' = completed
  <2>1. FixInv'
    BY <1>2, <1>3, <1>8, <1>11 DEF FixInv, FixAt, First
  <2> QED
    BY <1>1, <2>1 DEF RestoreInv
<1> QED
  BY <1>2, <1>10, <1>11

LEMMA RestoreReUnblock ==
  ASSUME RestoreInv, BaseInv', ReUnblock
  PROVE  RestoreInv'
<1>1. BaseInv /\ TypeOK /\ Cursor
  BY DEF RestoreInv, BaseInv
<1>2. /\ pc = "reunblock" /\ todo' = Tail(todo) /\ alias' = alias /\ cmd' = cmd
      /\ spoiled' = spoiled /\ SetBlock(FALSE)
      /\ \/ todo' = <<>> /\ pc' = "idle" /\ completed' = cmd
         \/ todo' # <<>> /\ pc' = First(cmd) /\ completed' = completed
  BY DEF ReUnblock, NextIndex, histVars
<1> SUFFICES ASSUME ~spoiled PROVE RestoreInv'
  BY <1>2 DEF RestoreInv
<1>3. ReInv /\ Rest(cur)
  BY <1>2 DEF RestoreInv, IdleInv, FixInv, ReInv, FixAt, ReAt
<1>4. \A i \in Inds : MarksStay(i)
  BY <1>1, <1>2, BlockMarksStay
<1>5. \A i \in Inds : Rest(i)
  BY <1>3 DEF ReInv
<1>6. \A i \in Inds : Rest(i)'
  BY <1>4, <1>5, MarksKeep
<1>7. CASE todo' = <<>> /\ pc' = "idle" /\ completed' = cmd
  BY <1>3, <1>6, <1>7 DEF RestoreInv, IdleInv, ReInv, Leftover
<1>8. CASE todo' # <<>> /\ pc' = First(cmd) /\ completed' = completed
  <2>1. Tail(todo) \in Seq(Inds)
    BY <1>1, <1>2, CurIsIndex
  <2>2. cur' \in Inds
    BY <1>2, <1>8, <2>1, HeadTailProperties DEF cur
  <2>3. Rest(cur)'
    <3>1. \A i \in Inds : /\ alias'[i] = {"hot"}
                          /\ \A k \in Names : es'[i][k] # Absent <=> k \in {"hot"}
      BY <1>6 DEF Rest, Shape, There
    <3> QED
      BY <2>2, <3>1 DEF Rest, Shape, There
  <2>4. ReInv'
    BY <1>2, <1>3, <1>6, <1>8, <2>3 DEF ReInv, ReAt, First
  <2> QED
    BY <2>4 DEF RestoreInv
<1> QED
  BY <1>2, <1>7, <1>8

LEMMA RestoreStep == RestoreInv /\ [Next]_vars => RestoreInv'
<1> SUFFICES ASSUME RestoreInv, [Next]_vars PROVE RestoreInv'
  OBVIOUS
<1>1. BaseInv /\ BaseInv'
  BY BaseStep DEF RestoreInv
<1>2. UNCHANGED <<es, alias>> => \A i \in Inds : MarksStay(i)
  BY DEF MarksStay, Left, There
<1>3. ASSUME NEW i \in Inds, NEW d \in Docs, Save(i, d) PROVE RestoreInv'
  BY <1>3, RestoreSave
<1>4. CASE (\E c \in {"fix", "reindex"} : Start(c)) \/ Repeat
  BY <1>1, <1>4, RestoreBegin DEF Start, Repeat, BaseInv, TypeOK
<1>5. CASE Crash
  BY <1>1, <1>2, <1>5, RestoreAbandon DEF Crash, dataVars
<1>6. CASE FixFails
  <2>1. pc # "idle" /\ Abandon /\ UNCHANGED <<es, alias>>
    BY <1>6 DEF FixFails, Raise, dataVars
  <2> QED
    BY <1>1, <1>2, <2>1, RestoreAbandon
<1>7. CASE FixRefuse
  <2>1. /\ pc = "check" /\ pc' = "idle" /\ completed' = "refused"
        /\ UNCHANGED <<es, alias, spoiled>>
    BY <1>7 DEF FixRefuse, dataVars, histVars
  <2> SUFFICES ASSUME ~spoiled PROVE RestoreInv'
    BY <1>1, <2>1 DEF RestoreInv
  <2>2. FixInv
    BY <2>1 DEF RestoreInv, IdleInv, ReInv, ReAt
  <2>3. \A i \in Inds : Leftover(i)'
    BY <1>2, <2>1, <2>2, AllMarks DEF FixInv
  <2> QED
    BY <1>1, <2>1, <2>3 DEF RestoreInv, IdleInv
<1>8. CASE FixStep
  BY <1>6, <1>7, <1>8, RestoreFixCheck, RestoreFixBlock, RestoreFixPin, RestoreFixClone,
     RestoreFixSwap, RestoreFixDrop, RestoreFixResize, RestoreFixSwitch, RestoreFixUnblock,
     RestoreFixFinish DEF FixStep
<1>9. CASE RePass
  <2>1. pc = "recheck" /\ spoiled' = spoiled /\ ~(There(cur, "hot") /\ ~There(cur, "re"))
    BY <1>9 DEF RePass, NextIndex, histVars
  <2>2. spoiled
    BY <2>1 DEF RestoreInv, IdleInv, FixInv, FixAt, ReInv, ReAt, Rest, Shape, Names
  <2> QED
    BY <1>1, <2>1, <2>2 DEF RestoreInv
<1>10. CASE ReCloneFails
  <2>1. pc = "reclone" /\ Abandon /\ SetBlock(FALSE) /\ alias' = alias
    BY <1>10 DEF ReCloneFails
  <2>2. \A i \in Inds : MarksStay(i)
    BY <1>1, <2>1, BlockMarksStay
  <2> QED
    BY <1>1, <2>1, <2>2, RestoreAbandon
<1>11. CASE ReStep
  BY <1>1, <1>9, <1>10, <1>11, RestoreReCreate, RestoreReAlias, RestoreReCopy, RestoreReDelete,
     RestoreReBlock, RestoreReClone, RestoreReSwitch, RestoreReUnblock DEF ReStep
<1>12. CASE UNCHANGED <<es, alias, autoCreate, cmdVars, histVars>>
  <2>1. UNCHANGED <<es, alias, cmd, todo, pc, completed, spoiled>> /\ cur' = cur
    BY <1>12 DEF vars, dataVars, cmdVars, histVars, cur
  <2>2. /\ FixAt => FixAt'
        /\ ReAt => ReAt'
        /\ Open => Open'
    BY <2>1 DEF FixAt, ReAt, Open, Rest, Cloned, Swapped, Mended, Shape, Wrong, Right, There
  <2>3. \A i \in Inds : /\ Rest(i) => Rest(i)'
                        /\ Leftover(i) => Leftover(i)'
                        /\ Done(i) => Done(i)'
    BY <1>2, <2>1, MarksKeep
  <2>4. (IdleInv => IdleInv') /\ (FixInv => FixInv') /\ (ReInv => ReInv')
    BY <2>1, <2>2, <2>3 DEF IdleInv, FixInv, ReInv
  <2> QED
    BY <1>1, <2>1, <2>4 DEF RestoreInv
<1> QED
  BY <1>3, <1>4, <1>5, <1>8, <1>11, <1>12 DEF Next, Idle, RefreshIndex, vars, dataVars

LEMMA RestoreInit == Init => RestoreInv
<1> SUFFICES ASSUME Init PROVE RestoreInv
  OBVIOUS
<1>1. BaseInv /\ CalmInv
  BY BaseInit, CalmInit
<1>2. ASSUME NEW i \in Inds PROVE Rest(i)
  <2>1. alias[i] = {"hot"}
    BY DEF Init
  <2>2. There(i, "hot")
    BY <1>1, <2>1 DEF BaseInv, Aliased
  <2>3. ~There(i, "fix") /\ ~There(i, "re")
    BY DEF Init, There, Names
  <2> QED
    BY <2>1, <2>2, <2>3 DEF Rest, Shape, Names
<1>3. pc = "idle" /\ completed = "nothing"
  BY DEF Init
<1> QED
  BY <1>1, <1>2, <1>3 DEF RestoreInv, IdleInv, Leftover

\* A fix_shards that ran to its end leaves all indexes in order, whatever
\* fix_shards died before it and wherever, unless a reindex was disturbed or ran
\* over what a dead fix_shards left: for any indexes, documents, numbers of
\* shards, commands and deaths (collection.py: fix_shards).
THEOREM MaintenanceRestores == Spec => []FixRestores
  BY RestoreInit, RestoreStep, CalmInit, CalmStep, RestoreInvRestores, PTL DEF Spec
=============================================================================
