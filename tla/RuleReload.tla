---------------------------- MODULE RuleReload -----------------------------
(***************************************************************************)
(* How a long-running process keeps up with rules that are edited while it *)
(* runs: the post-processing actions of ActionWorker and the rules of      *)
(* Identify.  Somebody saves the new rules to the cache store and then     *)
(* sends an event; the process loads the rules when it starts, then        *)
(* registers for the event and loads them again at each one, in the thread *)
(* of its EventWatcher.                                                    *)
(*                                                                         *)
(* Rules are numbered by the save that stored them; 0 is the default that  *)
(* is built into the process.  Publish and subscribe keeps nothing: an     *)
(* event reaches who is subscribed when it is sent.                        *)
(***************************************************************************)
EXTENDS Integers, Sequences

CONSTANTS
  MaxRuleSaves,    \* bound: the edits
  MaxRuleFaults    \* bound: broken connections and failing reads

ASSUME RuleAssumption == MaxRuleSaves \in Nat /\ MaxRuleFaults \in Nat

VARIABLES
  rulesStored,    \* what the cache store holds
  rulesEditor,    \* "idle" | "saving" | "sending"
  rulesWorker,    \* "booting" | "booted" | "running" | "deaf": the process
  rulesLinked,    \* its subscription reaches it
  rulesEvents,    \* the events waiting for its watcher
  rulesLoad,      \* "none" | "reading" | "swapping": the load under way
  rulesRead,      \* what that load has read
  rulesTable,     \* self.actions, or the rules of Identify
  rulesExcused,   \* since the last read it missed an event or could not read
  rulesFaults     \* the faults so far

ruleVars == <<rulesStored, rulesEditor, rulesWorker, rulesLinked, rulesEvents, rulesLoad,
              rulesRead, rulesTable, rulesExcused, rulesFaults>>
workerVars == <<rulesWorker, rulesLinked, rulesLoad, rulesRead, rulesTable>>

RuleTypeOK ==
  /\ rulesStored \in Nat
  /\ rulesEditor \in {"idle", "saving", "sending"}
  /\ rulesWorker \in {"booting", "booted", "running", "deaf"}
  /\ rulesLinked \in BOOLEAN
  /\ rulesEvents \in Nat
  /\ rulesLoad \in {"none", "reading", "swapping"}
  /\ rulesRead \in Nat
  /\ rulesTable \in Nat
  /\ rulesExcused \in BOOLEAN
  /\ rulesFaults \in Nat

RuleInit ==
  /\ rulesStored = 0
  /\ rulesEditor = "idle"
  /\ rulesWorker = "booting"
  /\ rulesLinked = FALSE
  /\ rulesEvents = 0
  /\ rulesLoad = "reading"
  /\ rulesRead = 0
  /\ rulesTable = 0
  /\ rulesExcused = FALSE
  /\ rulesFaults = 0

----------------------------------------------------------------------------
\* The editor: CacheStore.save, then EventSender.send.

\* The record in the database, which only says when the entry expires.
SaveEntry ==
  /\ rulesEditor = "idle"
  /\ rulesStored < MaxRuleSaves
  /\ rulesEditor' = "saving"
  /\ UNCHANGED <<rulesStored, rulesEvents, rulesExcused, rulesFaults, workerVars>>

PutRules ==
  /\ rulesEditor = "saving"
  /\ rulesStored' = rulesStored + 1
  /\ rulesEditor' = "sending"
  /\ UNCHANGED <<rulesEvents, rulesExcused, rulesFaults, workerVars>>

\* publish; retry_call may do it twice, which is one more event.
SendEvent(heard) ==
  /\ rulesEditor = "sending"
  /\ IF rulesLinked
       THEN rulesEvents' = rulesEvents + 1 /\ UNCHANGED rulesExcused
       ELSE rulesExcused' = TRUE /\ UNCHANGED rulesEvents
  /\ IF heard
       THEN rulesEditor' = "idle" /\ UNCHANGED rulesFaults
       ELSE /\ rulesFaults < MaxRuleFaults
            /\ rulesFaults' = rulesFaults + 1
            /\ UNCHANGED rulesEditor
  /\ UNCHANGED <<rulesStored, workerVars>>

----------------------------------------------------------------------------
\* The worker.

\* __init__ loads before it registers.
ReadRules ==
  /\ rulesLoad = "reading"
  /\ rulesRead' = rulesStored
  /\ rulesLoad' = "swapping"
  /\ rulesExcused' = FALSE
  /\ UNCHANGED <<rulesStored, rulesEditor, rulesWorker, rulesLinked, rulesEvents, rulesTable,
                 rulesFaults>>

\* FileStore.get answers None when every transport fails, as if nothing had
\* been saved: the defaults are loaded.
ReadNothing ==
  /\ rulesLoad = "reading"
  /\ rulesFaults < MaxRuleFaults
  /\ rulesFaults' = rulesFaults + 1
  /\ rulesRead' = 0
  /\ rulesLoad' = "swapping"
  /\ rulesExcused' = TRUE
  /\ UNCHANGED <<rulesStored, rulesEditor, rulesWorker, rulesLinked, rulesEvents, rulesTable>>

\* Anything else that goes wrong in the callback (the cache store cannot be
\* opened, the rules do not compile) ends the watcher's thread for good.
WatcherDies ==
  /\ rulesWorker = "running"
  /\ rulesLoad = "reading"
  /\ rulesFaults < MaxRuleFaults
  /\ rulesFaults' = rulesFaults + 1
  /\ rulesWorker' = "deaf"
  /\ rulesLinked' = FALSE
  /\ rulesEvents' = 0
  /\ rulesLoad' = "none"
  /\ rulesExcused' = TRUE
  /\ UNCHANGED <<rulesStored, rulesEditor, rulesRead, rulesTable>>

\* (Fault: the events that came during a load are taken for announcements of it.)
SwapDrains ==
  /\ rulesLoad = "swapping"
  /\ rulesTable' = rulesRead
  /\ rulesLoad' = "none"
  /\ rulesWorker' = IF rulesWorker = "booting" THEN "booted" ELSE rulesWorker
  /\ rulesEvents' = 0
  /\ UNCHANGED <<rulesStored, rulesEditor, rulesLinked, rulesRead, rulesExcused, rulesFaults>>

SwapRules ==
  /\ rulesLoad = "swapping"
  /\ rulesTable' = rulesRead
  /\ rulesLoad' = "none"
  /\ rulesWorker' = IF rulesWorker = "booting" THEN "booted" ELSE rulesWorker
  /\ UNCHANGED <<rulesStored, rulesEditor, rulesLinked, rulesEvents, rulesRead, rulesExcused,
                 rulesFaults>>

\* register and start.
Register ==
  /\ rulesWorker = "booted"
  /\ rulesWorker' = "running"
  /\ rulesLinked' = TRUE
  /\ UNCHANGED <<rulesStored, rulesEditor, rulesEvents, rulesLoad, rulesRead, rulesTable,
                 rulesExcused, rulesFaults>>

\* The watcher's thread calls back for one event after the other.
HandleEvent ==
  /\ rulesLoad = "none"
  /\ rulesEvents > 0
  /\ rulesEvents' = rulesEvents - 1
  /\ rulesLoad' = "reading"
  /\ UNCHANGED <<rulesStored, rulesEditor, rulesWorker, rulesLinked, rulesRead, rulesTable,
                 rulesExcused, rulesFaults>>

\* The connection of the subscription breaks: what was on its way is gone,
\* and what is sent until it is back.
Disconnect ==
  /\ rulesLinked
  /\ rulesFaults < MaxRuleFaults
  /\ rulesFaults' = rulesFaults + 1
  /\ rulesLinked' = FALSE
  /\ rulesEvents' = 0
  /\ rulesExcused' = (rulesExcused \/ rulesEvents > 0)
  /\ UNCHANGED <<rulesStored, rulesEditor, rulesWorker, rulesLoad, rulesRead, rulesTable>>

Reconnect ==
  /\ rulesWorker = "running"
  /\ ~ rulesLinked
  /\ rulesLinked' = TRUE
  /\ UNCHANGED <<rulesStored, rulesEditor, rulesWorker, rulesEvents, rulesLoad, rulesRead,
                 rulesTable, rulesExcused, rulesFaults>>

RuleNext ==
  \/ SaveEntry \/ PutRules
  \/ \E heard \in BOOLEAN : SendEvent(heard)
  \/ ReadRules \/ ReadNothing \/ WatcherDies \/ SwapRules \/ Register \/ HandleEvent
  \/ Disconnect \/ Reconnect

RuleSpec == RuleInit /\ [][RuleNext]_ruleVars

----------------------------------------------------------------------------
\* Properties.

\* A process whose rules are not the stored ones is about to load them: a load
\* is still to be read, an event waits for it or one is still to be sent.  The
\* only excuses are an event sent while it was not subscribed (which it is not
\* between its first load and register) and a read that was not answered.
RulesCurrent ==
  \/ rulesTable = rulesStored
  \/ rulesLoad = "reading"
  \/ rulesLoad = "swapping" /\ rulesRead = rulesStored
  \/ rulesEvents > 0
  \/ rulesEditor = "sending"
  \/ rulesExcused
=============================================================================
