------------------------- MODULE DistributedBackup -------------------------
(***************************************************************************)
(* DistributedBackup.backup and its workers                                *)
(* (src/assemblyline/common/backupmanager.py).                             *)
(*                                                                         *)
(* The main process pushes the keys a query finds into a Redis queue; the  *)
(* workers write the documents, push the keys that follow from them into   *)
(* the same queue and report to the done thread.  The end is not known in  *)
(* advance, since a document may bring others: each worker gets one stop   *)
(* token and goes on until the queue stays empty for a second; a second    *)
(* token it pops belongs to another worker and goes back.                  *)
(*                                                                         *)
(* The connection to Redis is taken to lose no replies: a pop or a push    *)
(* that retry_call sends twice is left out.                                *)
(***************************************************************************)
EXTENDS Naturals, FiniteSets, Sequences, Functions, FiniteSetsExt

CONSTANTS
  Docs,           \* the keys of documents
  BucketOf,       \* the collection of a document
  Refs,           \* the documents another one names
  Missing,        \* the keys that have no document
  Found,          \* what the query finds, bucket after bucket (a sequence)
  Workers,        \* the backup workers
  Threads,        \* use_threading
  MaxErrors,      \* bound: documents whose handling raises
  MaxBucketErrors \* bound: searches that raise

\* The stop token: data.get('stop') tells it from a document.
Stop == "stop"

ASSUME BackupAssumption ==
  /\ Docs # {} /\ Stop \notin Docs
  /\ Missing \subseteq Docs /\ Found \in Seq(Docs)
  /\ Refs \in [Docs -> SUBSET Docs]
  /\ IsFiniteSet(Workers) /\ Workers # {} /\ Threads \in BOOLEAN
  /\ {MaxErrors, MaxBucketErrors} \subseteq Nat

VARIABLES
  workerQueue, doneQueue, hash, \* r-worker-, r-done- and r-hash-
  wpc, doc, stopping,           \* the workers, their data and stopping
  follow, key,                  \* the keys a worker still follows, and hash_key
  report,                       \* what it will report of doc
  written,                      \* how often each document is in the backup files
  mpc, left, tokens,            \* backup: what it still pushes
  bucketError,
  dpc, running,                 \* done_thread
  mapCount, missingCount, errorCount,
  raised                        \* the documents whose handling raised (history)

queues     == <<workerQueue, doneQueue, hash>>
workerVars == <<wpc, doc, stopping, follow, key, report, written, raised>>
mainVars   == <<mpc, left, tokens, bucketError>>
doneVars   == <<dpc, running, mapCount, missingCount, errorCount>>
vars       == <<queues, workerVars, mainVars, doneVars>>
-----------------------------------------------------------------------------
\* FOLLOW_KEYS: the collections that are followed from one.
FOLLOW_KEYS ==
  [alert |-> {"submission"}, submission |-> {"result", "error", "file"},
   results |-> {"file"}]

Followed(d) ==
  {k \in Refs[d] : /\ BucketOf[d] \in DOMAIN FOLLOW_KEYS
                   /\ BucketOf[k] \in FOLLOW_KEYS[BucketOf[d]]}

\* What a local variable holds that is not used any more.
NoDoc == CHOOSE d \in Docs : TRUE

Init ==
  /\ workerQueue = <<>> /\ doneQueue = <<>> /\ hash = {}
  /\ wpc = [w \in Workers |-> "pop"] /\ doc = [w \in Workers |-> NoDoc]
  /\ stopping = [w \in Workers |-> FALSE]
  /\ follow = [w \in Workers |-> {}] /\ key = doc
  /\ report = [w \in Workers |-> "ok"]
  /\ written = [d \in Docs |-> 0] /\ raised = {}
  /\ mpc = "search" /\ left = Found /\ tokens = 0 /\ bucketError = {}
  /\ dpc = "run" /\ running = Cardinality(Workers)
  /\ mapCount = 0 /\ missingCount = 0 /\ errorCount = 0
-----------------------------------------------------------------------------
(***************************************************************************)
(* backup_worker.                                                          *)
(***************************************************************************)
At(w, from, to) == wpc[w] = from /\ wpc' = [wpc EXCEPT ![w] = to]

\* (Fault: the first token stops the worker at once.)
PopStopAtOnce(w) ==
  /\ wpc[w] = "pop" /\ workerQueue # <<>> /\ Head(workerQueue) = Stop
  /\ workerQueue' = Tail(workerQueue)
  /\ stopping' = [stopping EXCEPT ![w] = TRUE]
  /\ wpc' = [wpc EXCEPT ![w] = "stopped"]
  /\ UNCHANGED <<doneQueue, hash, doc, follow, key, report, written, raised, mainVars, doneVars>>
PopStop(w) ==
  /\ wpc[w] = "pop" /\ workerQueue # <<>> /\ Head(workerQueue) = Stop
  /\ workerQueue' = Tail(workerQueue)
  /\ stopping' = [stopping EXCEPT ![w] = TRUE]
  /\ wpc' = [wpc EXCEPT ![w] = IF stopping[w] THEN "requeue" ELSE "pop"]
  /\ UNCHANGED <<doneQueue, hash, doc, follow, key, report, written, raised, mainVars, doneVars>>

\* (Fault: the token of another worker is swallowed.)
DropToken(w) ==
  /\ At(w, "requeue", "pop")
  /\ UNCHANGED <<queues, doc, stopping, follow, key, report, written, raised, mainVars, doneVars>>
Requeue(w) ==
  /\ At(w, "requeue", "pop")
  /\ workerQueue' = Append(workerQueue, Stop)
  /\ UNCHANGED <<doneQueue, hash, doc, stopping, follow, key, report, written, raised,
                 mainVars, doneVars>>

\* A second without data.
PopNone(w) ==
  /\ At(w, "pop", "stopped") /\ workerQueue = <<>> /\ stopping[w]
  /\ UNCHANGED <<queues, doc, stopping, follow, key, report, written, raised, mainVars, doneVars>>

PopDoc(w) ==
  /\ At(w, "pop", "get") /\ workerQueue # <<>> /\ Head(workerQueue) # Stop
  /\ doc' = [doc EXCEPT ![w] = Head(workerQueue)]
  /\ workerQueue' = Tail(workerQueue)
  /\ UNCHANGED <<doneQueue, hash, stopping, follow, key, report, written, raised,
                 mainVars, doneVars>>

Get(w) ==
  /\ At(w, "get", IF doc[w] \in Missing THEN "report" ELSE "follow")
  /\ report' = [report EXCEPT ![w] = IF doc[w] \in Missing THEN "missing" ELSE "ok"]
  /\ follow' = [follow EXCEPT ![w] = IF doc[w] \in Missing THEN {} ELSE Followed(doc[w])]
  /\ UNCHANGED <<queues, doc, stopping, key, written, raised, mainVars, doneVars>>

\* hash_queue.exists ...
FollowKey(w, k) ==
  /\ At(w, "follow", IF k \in hash THEN "follow" ELSE "add") /\ k \in follow[w]
  /\ follow' = [follow EXCEPT ![w] = @ \ {k}]
  /\ key' = [key EXCEPT ![w] = IF k \in hash THEN NoDoc ELSE k]
  /\ UNCHANGED <<queues, doc, stopping, report, written, raised, mainVars, doneVars>>

\* ... hash_queue.add ...
AddKey(w) ==
  /\ At(w, "add", "push")
  /\ hash' = hash \cup {key[w]}
  /\ UNCHANGED <<workerQueue, doneQueue, doc, stopping, follow, key, report, written, raised,
                 mainVars, doneVars>>

\* ... and worker_queue.push.
PushKey(w) ==
  /\ At(w, "push", "follow")
  /\ workerQueue' = Append(workerQueue, key[w])
  /\ key' = [key EXCEPT ![w] = NoDoc]
  /\ UNCHANGED <<doneQueue, hash, doc, stopping, follow, report, written, raised,
                 mainVars, doneVars>>

Write(w) ==
  /\ At(w, "follow", "report") /\ follow[w] = {}
  /\ written' = [written EXCEPT ![doc[w]] = @ + 1]
  /\ UNCHANGED <<queues, doc, stopping, follow, key, report, raised, mainVars, doneVars>>

\* The datastore or a getter raises; the other keys are not followed.
Raise(w) ==
  /\ At(w, wpc[w], "report") /\ wpc[w] \in {"get", "follow"}
  /\ Cardinality(raised) < MaxErrors
  /\ raised' = raised \cup {doc[w]}
  /\ report' = [report EXCEPT ![w] = "error"]
  /\ follow' = [follow EXCEPT ![w] = {}]
  /\ UNCHANGED <<queues, doc, stopping, key, written, mainVars, doneVars>>

Report(w) ==
  /\ At(w, "report", "pop")
  /\ doneQueue' = Append(doneQueue, report[w])
  /\ doc' = [doc EXCEPT ![w] = NoDoc] /\ report' = [report EXCEPT ![w] = "ok"]
  /\ UNCHANGED <<workerQueue, hash, stopping, follow, key, written, raised,
                 mainVars, doneVars>>

ReportStopped(w) ==
  /\ At(w, "stopped", "done")
  /\ doneQueue' = Append(doneQueue, "stopped")
  /\ UNCHANGED <<workerQueue, hash, doc, stopping, follow, key, report, written, raised,
                 mainVars, doneVars>>
-----------------------------------------------------------------------------
(***************************************************************************)
(* backup.                                                                 *)
(***************************************************************************)
PushFound ==
  /\ mpc = "search" /\ left # <<>>
  /\ left' = Tail(left)
  /\ workerQueue' = Append(workerQueue, Head(left))
  /\ UNCHANGED <<doneQueue, hash, workerVars, mpc, tokens, bucketError, doneVars>>

\* The search of a bucket raises: the rest of it is not pushed, cleanup deletes
\* the queues ...
BucketFails ==
  /\ mpc = "search" /\ left # <<>> /\ Cardinality(bucketError) < MaxBucketErrors
  /\ LET bucket_name == BucketOf[Head(left)]
     IN  /\ bucketError' = bucketError \cup {bucket_name}
         /\ \E n \in DOMAIN left :
              /\ \A i \in 1 .. n : BucketOf[left[i]] = bucket_name
              /\ n < Len(left) => BucketOf[left[n + 1]] # bucket_name
              /\ left' = SubSeq(left, n + 1, Len(left))
  /\ workerQueue' = <<>> /\ doneQueue' = <<>> /\ hash' = {}
  /\ mpc' = "terminate"
  /\ UNCHANGED <<workerVars, tokens, doneVars>>

\* ... and terminates the worker processes.
Terminate ==
  /\ mpc = "terminate" /\ mpc' = "search"
  /\ wpc' = IF Threads THEN wpc ELSE [w \in Workers |-> "done"]
  /\ UNCHANGED <<queues, doc, stopping, follow, key, report, written, raised, left, tokens,
                 bucketError, doneVars>>

PushStop ==
  /\ mpc = "search" /\ left = <<>> /\ tokens < Cardinality(Workers)
  /\ tokens' = tokens + 1
  /\ workerQueue' = Append(workerQueue, Stop)
  /\ UNCHANGED <<doneQueue, hash, workerVars, mpc, left, bucketError, doneVars>>

Join ==
  /\ mpc = "search" /\ tokens = Cardinality(Workers) /\ dpc = "done"
  /\ mpc' = "returned"
  /\ UNCHANGED <<queues, workerVars, left, tokens, bucketError, doneVars>>
-----------------------------------------------------------------------------
(***************************************************************************)
(* done_thread.                                                            *)
(***************************************************************************)
DonePop ==
  /\ dpc = "run" /\ running > 0 /\ doneQueue # <<>>
  /\ doneQueue' = Tail(doneQueue)
  /\ LET msg == Head(doneQueue)
         Plus(n, kind) == IF msg = kind THEN n + 1 ELSE n
     IN  /\ running' = IF msg = "stopped" THEN running - 1 ELSE running
         /\ mapCount' = Plus(mapCount, "ok")
         /\ missingCount' = Plus(missingCount, "missing")
         /\ errorCount' = Plus(errorCount, "error")
  /\ UNCHANGED <<workerQueue, hash, workerVars, mainVars, dpc>>

\* It deletes the queues and ends.
DoneEnd ==
  /\ dpc = "run" /\ running = 0
  /\ dpc' = "done"
  /\ workerQueue' = <<>> /\ doneQueue' = <<>> /\ hash' = {}
  /\ UNCHANGED <<workerVars, mainVars, running, mapCount, missingCount, errorCount>>
-----------------------------------------------------------------------------
WorkerStep(w) ==
  \/ PopStop(w) \/ Requeue(w) \/ PopNone(w) \/ PopDoc(w) \/ Get(w) \/ AddKey(w)
  \/ PushKey(w) \/ Write(w) \/ Raise(w) \/ Report(w) \/ ReportStopped(w)
  \/ \E k \in Docs : FollowKey(w, k)

MainStep == PushFound \/ BucketFails \/ Terminate \/ PushStop \/ Join

DoneStep == DonePop \/ DoneEnd

Returned == mpc = "returned" /\ UNCHANGED vars

Next == (\E w \in Workers : WorkerStep(w)) \/ MainStep \/ DoneStep \/ Returned

Spec == Init /\ [][Next]_vars

(***************************************************************************)
(* The processes run.  A worker that waits for a token gets one in the end *)
(* although the others go on popping and pushing it: Redis serves the      *)
(* client that has been blocked longest in BLPOP, and the others sleep     *)
(* before they push.                                                       *)
(***************************************************************************)
FairSpec == /\ Spec /\ WF_vars(MainStep) /\ WF_vars(DoneStep)
            /\ \A w \in Workers : WF_vars(WorkerStep(w)) /\ SF_vars(PopStop(w))
-----------------------------------------------------------------------------
TypeOK ==
  /\ workerQueue \in Seq(Docs \cup {Stop})
  /\ doneQueue \in Seq({"ok", "missing", "error", "stopped"})
  /\ hash \subseteq Docs
  /\ wpc \in [Workers -> {"pop", "requeue", "get", "follow", "add", "push", "report",
                          "stopped", "done"}]
  /\ doc \in [Workers -> Docs] /\ key \in [Workers -> Docs]
  /\ stopping \in [Workers -> BOOLEAN]
  /\ follow \in [Workers -> SUBSET Docs]
  /\ report \in [Workers -> {"ok", "missing", "error"}]
  /\ written \in [Docs -> Nat] /\ raised \subseteq Docs
  /\ mpc \in {"search", "terminate", "returned"} /\ dpc \in {"run", "done"}
  /\ left \in Seq(Docs) /\ tokens \in 0..Cardinality(Workers)
  /\ bucketError \subseteq {BucketOf[d] : d \in Docs}
  /\ running \in 0..Cardinality(Workers)
  /\ {mapCount, missingCount, errorCount} \subseteq Nat

Handled(d) == written[d] > 0 \/ d \in Missing \cup raised

(***************************************************************************)
(* When the backup returns without a bucket error, every document found    *)
(* and every document that follows from a written one was handled, however *)
(* the tokens and the keys mixed in the queue: no worker left while        *)
(* another could still bring a document.                                   *)
(***************************************************************************)
BackupComplete ==
  mpc = "returned" /\ bucketError = {} =>
    \A d \in Docs : d \in Range(Found) \/ (\E e \in Docs : written[e] > 0 /\ d \in Followed(e))
                      => Handled(d)

\* How many elements of a queue are m.
Count(q, m) == Cardinality({i \in DOMAIN q : q[i] = m})

(***************************************************************************)
(* Every stop token that was sent is in the queue, has stopped one worker, *)
(* or is about to go back.                                                 *)
(***************************************************************************)
TokensConserved ==
  dpc = "run" =>
    tokens = Count(workerQueue, Stop)
               + Cardinality({w \in Workers : stopping[w]})
               + Cardinality({w \in Workers : wpc[w] = "requeue"})

\* The backup returns, whatever documents raise.
BackupReturns == <>(mpc = "returned")
=============================================================================
