-------------------------- MODULE IndexMaintenance --------------------------
(***************************************************************************)
(* The maintenance commands of the datastore, ESCollection.fix_shards and  *)
(* reindex (src/assemblyline/datastore/collection.py), while other         *)
(* processes go on saving documents.                                       *)
(*                                                                         *)
(* Documents are saved to and read from an index by its own name; an alias *)
(* tells which index currently holds the data.  fix_shards blocks writes   *)
(* on the whole datastore, clones the index to a temporary one and resizes *)
(* that back.  reindex copies the documents to a new index, deletes the    *)
(* old one and then renames the new one.  Each request to Elasticsearch is *)
(* one step; the operator's process may die between any two of them, and   *)
(* the command is given again.                                             *)
(***************************************************************************)
EXTENDS Naturals, FiniteSets, Sequences, Functions

CONSTANTS
  Indexes,        \* get_index_list: the indexes, in order (a sequence)
  Docs,           \* the documents
  Preloaded,      \* those each index has at the beginning
  ShardCounts,    \* the numbers of shards an index may have at the beginning
  TargetShards,   \* the number of shards each index should have
  Replicas,       \* the number of replicas of all indexes, as configured
  Absent,         \* no such index
  MaxCommands,    \* bound: commands given, not counting repetitions
  MaxCrashes      \* bound: deaths of the operator's process

ASSUME MaintenanceAssumption ==
  /\ Indexes \in Seq(Range(Indexes)) /\ Indexes # <<>> /\ IsInjective(Indexes)
  /\ Preloaded \subseteq Docs
  /\ ShardCounts \in [Range(Indexes) -> SUBSET (Nat \ {0})]
  /\ TargetShards \in [Range(Indexes) -> Nat \ {0}]
  /\ {Replicas, MaxCommands, MaxCrashes} \subseteq Nat

VARIABLES
  es,          \* the Elasticsearch indexes of each index: itself, and those
               \* called __fix_shards and __reindex
  alias,       \* those under the alias of each index
  autoCreate,  \* action.auto_create_index, a setting of Elasticsearch
  unseen,      \* the documents of each index no search sees yet: those saved
               \* since it was refreshed
  cmd, todo,   \* the command, and the indexes it has not finished
  pc,          \* where it is
  method,      \* its local variables method
  curReplicas, \* and cur_replicas
  completed,   \* how the last command ended
  commands, crashes,
  saved,       \* the documents whose save was acknowledged (history)
  late,        \* those saved while a copy of the index was there, and those no
               \* search saw when reindex copied it (history)
  spoiled      \* a reindex died, failed or met what a dead fix_shards left (history)

dataVars == <<es, alias, autoCreate, unseen>>
cmdVars  == <<cmd, todo, pc, method, curReplicas, completed>>
histVars == <<commands, crashes, saved, late, spoiled>>
vars     == <<dataVars, cmdVars, histVars>>

Inds  == Range(Indexes)
Names == {"hot", "fix", "re"}
Index == [docs: SUBSET Docs, shards: Nat, replicas: Nat, blocked: BOOLEAN, pinned: BOOLEAN]

ASSUME AbsentAssumption == Absent \notin Index

cur == Head(todo)
There(i, k) == es[i][k] # Absent
-----------------------------------------------------------------------------
Init ==
  /\ \E n \in [Inds -> UNION Range(ShardCounts)] :
       /\ \A i \in Inds : n[i] \in ShardCounts[i]
       /\ es = [i \in Inds |->
                  [k \in Names |->
                     IF k # "hot" THEN Absent
                     ELSE [docs |-> Preloaded, shards |-> n[i], replicas |-> Replicas,
                           blocked |-> FALSE, pinned |-> FALSE]]]
  /\ alias = [i \in Inds |-> {"hot"}]
  /\ autoCreate \in BOOLEAN /\ unseen = [i \in Inds |-> {}]
  /\ cmd = "fix" /\ todo = <<>> /\ pc = "idle"
  /\ method = "none" /\ curReplicas = Replicas /\ completed = "nothing"
  /\ commands = 0 /\ crashes = 0
  /\ saved = [i \in Inds |-> Preloaded] /\ late = [i \in Inds |-> {}]
  /\ spoiled = FALSE

(***************************************************************************)
(* ESCollection.save, with the index's own name.  A write to a blocked     *)
(* index is refused; one to an index that is not there makes Elasticsearch *)
(* create it, where it may.                                                *)
(***************************************************************************)
Save(i, d) ==
  /\ d \notin saved[i]
  /\ IF There(i, "hot")
     THEN /\ ~es[i]["hot"].blocked
          /\ es' = [es EXCEPT ![i]["hot"].docs = @ \cup {d}]
     ELSE /\ autoCreate
          /\ es' = [es EXCEPT ![i]["hot"] =
                      [docs |-> {d}, shards |-> 1, replicas |-> 1,
                       blocked |-> FALSE, pinned |-> FALSE]]
  /\ saved' = [saved EXCEPT ![i] = @ \cup {d}]
  /\ late' = IF There(i, "fix") \/ There(i, "re")
             THEN [late EXCEPT ![i] = @ \cup {d}] ELSE late
  /\ unseen' = [unseen EXCEPT ![i] = IF There(i, "hot") THEN @ \cup {d} ELSE {d}]
  /\ UNCHANGED <<alias, autoCreate, cmdVars, commands, crashes, spoiled>>

\* The index is refreshed: by commit, or by Elasticsearch after a while.
RefreshIndex(i) ==
  /\ There(i, "hot") /\ unseen[i] # {}
  /\ unseen' = [unseen EXCEPT ![i] = {}]
  /\ UNCHANGED <<es, alias, autoCreate, cmdVars, histVars>>
-----------------------------------------------------------------------------
(***************************************************************************)
(* The operator gives a command, and gives it again when it did not run to *)
(* its end.                                                                *)
(***************************************************************************)
First(c) == IF c = "fix" THEN "check" ELSE "recheck"

Begin(c) ==
  /\ cmd' = c /\ todo' = Indexes /\ pc' = First(c) /\ completed' = "nothing"
  /\ spoiled' = (spoiled \/ (c = "reindex" /\ \E i \in Inds : There(i, "fix")))
  /\ UNCHANGED <<dataVars, method, curReplicas, crashes, saved, late>>

Start(c) == /\ pc = "idle" /\ commands < MaxCommands
            /\ commands' = commands + 1
            /\ Begin(c)

Repeat == /\ pc = "idle" /\ completed = "raised"
          /\ Begin(cmd)
          /\ UNCHANGED commands

\* The command ends before its time.
Abandon == /\ pc' = "idle" /\ todo' = <<>> /\ completed' = "raised"
           /\ spoiled' = (spoiled \/ cmd = "reindex")
           /\ UNCHANGED <<cmd, method, curReplicas, commands, saved, late>>

Crash == /\ pc # "idle" /\ crashes < MaxCrashes
         /\ crashes' = crashes + 1
         /\ Abandon
         /\ UNCHANGED dataVars

Raise == Abandon /\ UNCHANGED <<dataVars, crashes>>

At(from, to) == pc = from /\ pc' = to

\* It is done with the current index.
NextIndex(from) ==
  /\ pc = from
  /\ todo' = Tail(todo)
  /\ IF todo' = <<>> THEN pc' = "idle" /\ completed' = cmd
     ELSE pc' = First(cmd) /\ UNCHANGED completed
  /\ UNCHANGED <<cmd, method, curReplicas, histVars>>

Steady == UNCHANGED <<cmd, todo, method, curReplicas, completed, commands, crashes,
                      saved, spoiled>>
Quiet  == Steady /\ UNCHANGED late

\* put_settings without an index: all of them.
SetBlock(b) ==
  es' = [i \in Inds |-> [k \in Names |->
           IF There(i, k) THEN [es[i][k] EXCEPT !.blocked = b] ELSE Absent]]
-----------------------------------------------------------------------------
(***************************************************************************)
(* fix_shards.  The settings are those of the index under the alias.       *)
(***************************************************************************)
Method(n, target) == IF n > target THEN "shrink" ELSE IF n < target THEN "split" ELSE "none"
Factor(n, target) == IF n > target THEN n % target = 0 ELSE target % n = 0

FixCheck ==
  /\ pc = "check"
  /\ \E k \in alias[cur] :
       LET n == es[cur][k].shards IN
       /\ Factor(n, TargetShards[cur])
       /\ method' = Method(n, TargetShards[cur])
       /\ curReplicas' = es[cur][k].replicas
       /\ pc' = IF method' = "none" THEN "unblock" ELSE "block"
  /\ UNCHANGED <<dataVars, cmd, todo, completed, histVars>>

\* "... is not a factor of ..., aborting": for all that is left to do.
FixRefuse ==
  /\ pc = "check"
  /\ \E k \in alias[cur] : ~Factor(es[cur][k].shards, TargetShards[cur])
  /\ pc' = "idle" /\ todo' = <<>> /\ completed' = "refused"
  /\ UNCHANGED <<dataVars, cmd, method, curReplicas, histVars>>

\* "Block all indexes to be written to."
\* (Fault: it does not.)
FixNoBlock ==
  /\ At("block", IF There(cur, "fix") THEN "swap"
                 ELSE IF method = "shrink" THEN "pin" ELSE "clone")
  /\ Quiet /\ UNCHANGED dataVars
FixBlock ==
  /\ At("block", IF There(cur, "fix") THEN "swap"
                 ELSE IF method = "shrink" THEN "pin" ELSE "clone")
  /\ SetBlock(TRUE)
  /\ Quiet /\ UNCHANGED <<alias, autoCreate, unseen>>

\* All shards on one node, without replicas.
FixPin ==
  /\ At("pin", "clone") /\ There(cur, "hot")
  /\ es' = [es EXCEPT ![cur]["hot"].replicas = 0, ![cur]["hot"].pinned = TRUE]
  /\ Quiet /\ UNCHANGED <<alias, autoCreate, unseen>>

\* A clone has the settings of its source, the write block among them.
FixClone ==
  /\ At("clone", "swap") /\ There(cur, "hot")
  /\ es' = [es EXCEPT ![cur]["fix"] = [es[cur]["hot"] EXCEPT !.replicas = 0]]
  /\ Quiet /\ UNCHANGED <<alias, autoCreate, unseen>>

\* "Make 100% sure temporary index is ready", and the alias.
FixSwap ==
  /\ At("swap", "drop")
  /\ \E k \in alias[cur] :
       IF k = "fix" THEN UNCHANGED <<es, alias>>
       ELSE /\ alias' = [alias EXCEPT ![cur] = (@ \cup {"fix"}) \ {"hot"}]
            /\ es' = [es EXCEPT ![cur]["hot"] = Absent]
  /\ Quiet /\ UNCHANGED <<autoCreate, unseen>>

\* "Make sure the original index is deleted."
FixDrop ==
  /\ At("drop", "resize")
  /\ es' = [es EXCEPT ![cur]["hot"] = Absent]
  /\ alias' = [alias EXCEPT ![cur] = @ \ {"hot"}]
  /\ Quiet /\ UNCHANGED <<autoCreate, unseen>>

\* The data goes back to an index of the right shape.
\* (Fault: that index is created and not made from the temporary one.)
FixCreate ==
  /\ At("resize", "switch") /\ ~There(cur, "hot")
  /\ es' = [es EXCEPT ![cur]["hot"] =
              [docs |-> {}, shards |-> TargetShards[cur], replicas |-> Replicas,
               blocked |-> TRUE, pinned |-> FALSE]]
  /\ Quiet /\ UNCHANGED <<alias, autoCreate, unseen>>
FixResize ==
  /\ At("resize", "switch") /\ ~There(cur, "hot")
  /\ es' = [es EXCEPT ![cur]["hot"] =
              [es[cur]["fix"] EXCEPT !.shards = TargetShards[cur], !.replicas = Replicas]]
  /\ unseen' = [unseen EXCEPT ![cur] = {}]
  /\ Quiet /\ UNCHANGED <<alias, autoCreate>>

\* What is to be made is there already, or its source is not.
FixFails ==
  /\ \/ pc = "resize" /\ There(cur, "hot")
     \/ pc \in {"pin", "clone"} /\ ~There(cur, "hot")
  /\ Raise

\* "Switch back to the original index", and the temporary one goes.
\* (Fault: it goes with its alias before the index has that.)
FixDropAlias ==
  /\ At("switch", "unblock")
  /\ alias' = [alias EXCEPT ![cur] = @ \ {"fix"}]
  /\ es' = [es EXCEPT ![cur]["fix"] = Absent]
  /\ Quiet /\ UNCHANGED <<autoCreate, unseen>>
FixSwitch ==
  /\ At("switch", "unblock")
  /\ alias' = [alias EXCEPT ![cur] = (@ \cup {"hot"}) \ {"fix"}]
  /\ es' = [es EXCEPT ![cur]["fix"] = Absent]
  /\ Quiet /\ UNCHANGED <<autoCreate, unseen>>

\* "Restore writes."
\* (Fault: only where the number of shards changed.)
FixUnblockChanged ==
  /\ At("unblock", "finish")
  /\ IF method = "none" THEN UNCHANGED es ELSE SetBlock(FALSE)
  /\ Quiet /\ UNCHANGED <<alias, autoCreate, unseen>>
FixUnblock ==
  /\ At("unblock", "finish")
  /\ SetBlock(FALSE)
  /\ Quiet /\ UNCHANGED <<alias, autoCreate, unseen>>

\* "Restore normal routing and replicas", under the alias.
\* (Fault: the replicas only.)
FixFinishPinned ==
  /\ NextIndex("finish")
  /\ es' = [es EXCEPT ![cur] = [k \in Names |->
              IF k \in alias[cur]
              THEN [es[cur][k] EXCEPT !.replicas = curReplicas]
              ELSE es[cur][k]]]
  /\ UNCHANGED <<alias, autoCreate, unseen>>
FixFinish ==
  /\ NextIndex("finish")
  /\ es' = [es EXCEPT ![cur] = [k \in Names |->
              IF k \in alias[cur]
              THEN [es[cur][k] EXCEPT !.replicas = curReplicas, !.pinned = FALSE]
              ELSE es[cur][k]]]
  /\ UNCHANGED <<alias, autoCreate, unseen>>
-----------------------------------------------------------------------------
(***************************************************************************)
(* reindex.  An index that is not there, or whose copy is there already,   *)
(* is passed over.                                                         *)
(***************************************************************************)
ReCreate ==
  /\ At("recheck", "realias") /\ There(cur, "hot") /\ ~There(cur, "re")
  /\ es' = [es EXCEPT ![cur]["re"] =
              [docs |-> {}, shards |-> TargetShards[cur], replicas |-> Replicas,
               blocked |-> FALSE, pinned |-> FALSE]]
  /\ Quiet /\ UNCHANGED <<alias, autoCreate, unseen>>

RePass ==
  /\ NextIndex("recheck") /\ ~(There(cur, "hot") /\ ~There(cur, "re"))
  /\ UNCHANGED dataVars

ReAlias ==
  /\ At("realias", "copy")
  /\ alias' = [alias EXCEPT ![cur] = IF "hot" \in @ THEN @ \cup {"re"} ELSE @]
  /\ Quiet /\ UNCHANGED <<es, autoCreate, unseen>>

\* Elasticsearch copies what a search of the index finds; the source is not
\* refreshed before, only the copy is after.
ReCopy ==
  /\ At("copy", "delete")
  /\ es' = [es EXCEPT ![cur]["re"].docs = @ \cup (es[cur]["hot"].docs \ unseen[cur])]
  /\ late' = [late EXCEPT ![cur] = @ \cup unseen[cur]]
  /\ Steady /\ UNCHANGED <<alias, autoCreate, unseen>>

ReDelete ==
  /\ At("delete", "reblock")
  /\ es' = [es EXCEPT ![cur]["hot"] = Absent]
  /\ alias' = [alias EXCEPT ![cur] = @ \ {"hot"}]
  /\ Quiet /\ UNCHANGED <<autoCreate, unseen>>

ReBlock ==
  /\ At("reblock", "reclone")
  /\ SetBlock(TRUE)
  /\ Quiet /\ UNCHANGED <<alias, autoCreate, unseen>>

ReClone ==
  /\ At("reclone", "reswitch") /\ ~There(cur, "hot")
  /\ es' = [es EXCEPT ![cur]["hot"] = [es[cur]["re"] EXCEPT !.replicas = Replicas]]
  /\ unseen' = [unseen EXCEPT ![cur] = {}]
  /\ Quiet /\ UNCHANGED <<alias, autoCreate>>

\* The finally clause, and the exception goes on.
ReCloneFails ==
  /\ pc = "reclone" /\ There(cur, "hot")
  /\ SetBlock(FALSE)
  /\ Abandon /\ UNCHANGED <<alias, autoCreate, unseen, crashes>>

\* The alias is restored and the copy removed.
ReSwitch ==
  /\ At("reswitch", "reunblock")
  /\ alias' = [alias EXCEPT ![cur] = IF "re" \in @ THEN (@ \cup {"hot"}) \ {"re"} ELSE @]
  /\ es' = [es EXCEPT ![cur]["re"] = Absent]
  /\ Quiet /\ UNCHANGED <<autoCreate, unseen>>

ReUnblock ==
  /\ NextIndex("reunblock")
  /\ SetBlock(FALSE)
  /\ UNCHANGED <<alias, autoCreate, unseen>>
-----------------------------------------------------------------------------
FixStep == \/ FixCheck \/ FixRefuse \/ FixBlock \/ FixPin \/ FixClone \/ FixSwap \/ FixDrop
           \/ FixResize \/ FixFails \/ FixSwitch \/ FixUnblock \/ FixFinish
ReStep  == \/ ReCreate \/ RePass \/ ReAlias \/ ReCopy \/ ReDelete \/ ReBlock \/ ReClone
           \/ ReCloneFails \/ ReSwitch \/ ReUnblock

Idle == pc = "idle" /\ completed # "raised" /\ UNCHANGED vars

Next == \/ \E i \in Inds, d \in Docs : Save(i, d)
        \/ \E i \in Inds : RefreshIndex(i)
        \/ \E c \in {"fix", "reindex"} : Start(c)
        \/ Repeat \/ Crash \/ FixStep \/ ReStep \/ Idle

Spec == Init /\ [][Next]_vars

\* A command runs on, and is given again when it did not end.
MaintenanceFairness == WF_vars(FixStep \/ ReStep) /\ WF_vars(Repeat)

FairSpec == Spec /\ MaintenanceFairness
-----------------------------------------------------------------------------
TypeOK ==
  /\ es \in [Inds -> [Names -> Index \cup {Absent}]]
  /\ alias \in [Inds -> (SUBSET Names) \ {{}}]
  /\ autoCreate \in BOOLEAN /\ unseen \in [Inds -> SUBSET Docs]
  /\ cmd \in {"fix", "reindex"} /\ todo \in Seq(Inds)
  /\ pc \in {"idle", "check", "block", "pin", "clone", "swap", "drop", "resize", "switch",
             "unblock", "finish", "recheck", "realias", "copy", "delete", "reblock",
             "reclone", "reswitch", "reunblock"}
  /\ method \in {"none", "shrink", "split"} /\ curReplicas \in Nat
  /\ completed \in {"nothing", "fix", "reindex", "refused", "raised"}
  /\ commands \in 0..MaxCommands /\ crashes \in 0..MaxCrashes
  /\ saved \in [Inds -> SUBSET Docs] /\ late \in [Inds -> SUBSET Docs]
  /\ spoiled \in BOOLEAN

\* The documents that are somewhere.
Held(i) == UNION {es[i][k].docs : k \in {n \in Names : There(i, n)}}

(***************************************************************************)
(* An acknowledged document is never destroyed by a command, wherever it   *)
(* dies and whatever is run after it, unless it was saved to the index     *)
(* while a copy of it was there already, or was not yet to be seen by a    *)
(* search when reindex copied the index.                                   *)
(***************************************************************************)
SavedKept == \A i \in Inds : saved[i] \ late[i] \subseteq Held(i)

(***************************************************************************)
(* "Perform a reindex of all the data": no acknowledged document is lost.  *)
(* (It is not so: a document saved just before, or while the copy is made, *)
(* is not copied and goes with the old index.)                             *)
(***************************************************************************)
AllSavedKept == \A i \in Inds : saved[i] \subseteq Held(i)

(***************************************************************************)
(* "Block all indexes to be written to": nothing is saved to an index      *)
(* while there is a temporary copy of it, unless fix_shards died or        *)
(* Elasticsearch creates indexes by itself.                                *)
(***************************************************************************)
NothingLate ==
  [][~autoCreate /\ crashes = 0
       => \A i \in Inds : There(i, "fix") => saved'[i] = saved[i]]_vars

(***************************************************************************)
(* A fix_shards that ran to its end leaves all indexes in order, also when *)
(* it takes up one that died: each under its own name and alias, writable, *)
(* free to move, and with the shards it should have.  (Its replicas are    *)
(* lost where the command had to be given again: it then takes the number  *)
(* from the temporary index.  And a reindex in between gives the index its *)
(* shards but leaves the temporary one, which the next fix_shards, seeing  *)
(* nothing to do, leaves too.)                                             *)
(***************************************************************************)
InOrder(i) ==
  /\ There(i, "hot") /\ ~There(i, "fix") /\ ~There(i, "re") /\ alias[i] = {"hot"}
  /\ ~es[i]["hot"].blocked /\ ~es[i]["hot"].pinned
  /\ es[i]["hot"].shards = TargetShards[i]
  /\ ~autoCreate /\ crashes = 0 => es[i]["hot"].replicas = Replicas

FixRestores == completed = "fix" /\ ~spoiled => \A i \in Inds : InOrder(i)

(***************************************************************************)
(* Writes come back, as long as no reindex died with the datastore         *)
(* blocked, or was given instead of the fix_shards that did.               *)
(***************************************************************************)
Blocked == \E i \in Inds : \E k \in Names : There(i, k) /\ es[i][k].blocked

WritesComeBack == Blocked ~> (~Blocked \/ spoiled)
=============================================================================
