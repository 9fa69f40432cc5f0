--------------------------- MODULE FileTransports --------------------------
(***************************************************************************)
(* One file in a filestore of several transports (filestore/__init__.py).  *)
(* put goes through the transports in order and skips those that have the  *)
(* file unless forced; delete swallows the errors of a transport; exists   *)
(* and get, which change nothing, take the first that answers.  A local    *)
(* transport writes to a temporary name and renames, also when the write   *)
(* failed half way (filestore/transport/local.py); the others store all or *)
(* nothing.                                                                *)
(*                                                                         *)
(* The files of samples are named by their digest: everybody puts the same *)
(* content.  Entries of the cache store are forced and may differ: the     *)
(* contents are numbered, 0 is no file.                                    *)
(***************************************************************************)
EXTENDS Integers

CONSTANTS
  FsCount,        \* the number of transports
  FsLocal,        \* those on a local disk
  FsClients,      \* who puts and deletes
  MaxFsCalls,     \* bound: the calls of put and delete
  MaxFsFaults     \* bound: the calls of a transport that raise

ASSUME FsAssumption == FsCount \in Nat \ {0} /\ FsLocal \subseteq 1 .. FsCount

VARIABLES
  fsFile,      \* the content each transport holds
  fsWhole,     \* whether it is all there
  fsCall,      \* per client, the call under way; calm: none clashes with it
  fsDone,      \* per client, what its last put has left: a content if it was
               \* forced, any if not, or nothing that can be relied on
  fsBroken,    \* transports on which a write failed half way
  fsCalls,     \* the calls so far
  fsFaults     \* the faults so far

fsVars == <<fsFile, fsWhole, fsCall, fsDone, fsBroken, fsCalls, fsFaults>>

Transports == 1 .. FsCount
Contents == 1 .. 2
AnyContent == 3
Resting == [op |-> "none", at |-> 0, step |-> "none", content |-> 0, force |-> FALSE, calm |-> TRUE]

FsTypeOK ==
  /\ fsFile \in [Transports -> Contents \cup {0}]
  /\ fsWhole \in [Transports -> BOOLEAN]
  /\ fsDone \in [FsClients -> Contents \cup {0, AnyContent}]
  /\ fsBroken \subseteq FsLocal
  /\ \A c \in FsClients :
       /\ fsCall[c].op \in {"none", "put", "delete"}
       /\ fsCall[c].at \in 0 .. FsCount
       /\ fsCall[c].step \in {"none", "check", "write", "verify"}

FsInit ==
  /\ fsFile = [t \in Transports |-> 0]
  /\ fsWhole = [t \in Transports |-> TRUE]
  /\ fsCall = [c \in FsClients |-> Resting]
  /\ fsDone = [c \in FsClients |-> 0]
  /\ fsBroken = {}
  /\ fsCalls = 0
  /\ fsFaults = 0

Fault ==
  /\ fsFaults < MaxFsFaults
  /\ fsFaults' = fsFaults + 1

\* Two calls disturb each other when one deletes, or puts by force.
Clash(a, b) ==
  /\ {a.op, b.op} \subseteq {"put", "delete"}
  /\ "delete" \in {a.op, b.op} \/ a.force \/ b.force

\* A call begins: it and those it clashes with are no longer calm, and what
\* earlier puts have left it may change.
FsStart(c, call) ==
  /\ fsCall[c].op = "none"
  /\ fsCall' = [o \in FsClients |->
       IF o = c THEN [call EXCEPT !.calm = \A x \in FsClients : ~ Clash(call, fsCall[x])]
       ELSE IF Clash(call, fsCall[o]) THEN [fsCall[o] EXCEPT !.calm = FALSE] ELSE fsCall[o]]
  /\ fsDone' = IF call.force \/ call.op = "delete" THEN [o \in FsClients |-> 0] ELSE fsDone

Count == fsCalls < MaxFsCalls /\ fsCalls' = fsCalls + 1

\* The call goes on with the next transport, or is over.
Advance(c, step, after) ==
  fsCall' = [fsCall EXCEPT ![c] =
    IF fsCall[c].at < FsCount THEN [fsCall[c] EXCEPT !.at = @ + 1, !.step = step] ELSE after]

----------------------------------------------------------------------------
\* put and upload

\* A put that is not forced has the content its name stands for.
StartPut(c, content, force) ==
  /\ Count
  /\ force \/ content = 1
  /\ FsStart(c, [Resting EXCEPT !.op = "put", !.at = 1, !.step = "check",
                               !.content = content, !.force = force])
  /\ UNCHANGED <<fsFile, fsWhole, fsBroken, fsFaults>>

InPut(c, step) == fsCall[c].op = "put" /\ fsCall[c].step = step

LeftBehind(call) == IF ~ call.calm THEN 0 ELSE IF call.force THEN call.content ELSE AnyContent

\* The end of the call, when the transport was the last one.
PutReturns(c) ==
  fsDone' = IF fsCall[c].at = FsCount THEN [fsDone EXCEPT ![c] = LeftBehind(fsCall[c])] ELSE fsDone

\* (Fault: a transport that has the file ends the put.)
SkipRest(c) ==
  /\ InPut(c, "check")
  /\ ~ fsCall[c].force /\ fsFile[fsCall[c].at] # 0
  /\ fsDone' = [fsDone EXCEPT ![c] = LeftBehind(fsCall[c])]
  /\ fsCall' = [fsCall EXCEPT ![c] = Resting]
  /\ UNCHANGED <<fsFile, fsWhole, fsBroken, fsCalls, fsFaults>>

Skip(c) ==
  /\ InPut(c, "check")
  /\ ~ fsCall[c].force /\ fsFile[fsCall[c].at] # 0
  /\ PutReturns(c)
  /\ Advance(c, "check", Resting)
  /\ UNCHANGED <<fsFile, fsWhole, fsBroken, fsCalls, fsFaults>>

\* The check that finds no file, and the temporary file that only the writer
\* knows.
WriteTemporary(c) ==
  /\ InPut(c, "check")
  /\ fsCall[c].force \/ fsFile[fsCall[c].at] = 0
  /\ fsCall' = [fsCall EXCEPT ![c].step = "write"]
  /\ UNCHANGED <<fsFile, fsWhole, fsDone, fsBroken, fsCalls, fsFaults>>

\* The file gets its name.
Rename(c) ==
  LET t == fsCall[c].at
  IN /\ InPut(c, "write")
     /\ fsFile' = [fsFile EXCEPT ![t] = fsCall[c].content]
     /\ fsWhole' = [fsWhole EXCEPT ![t] = TRUE]
     /\ fsBroken' = fsBroken \ {t}
     /\ fsCall' = [fsCall EXCEPT ![c].step = "verify"]
     /\ UNCHANGED <<fsDone, fsCalls, fsFaults>>

\* The existence is verified; without the file the put raises.
Verify(c) ==
  /\ InPut(c, "verify")
  /\ IF fsFile[fsCall[c].at] # 0
       THEN PutReturns(c) /\ Advance(c, "check", Resting)
       ELSE fsCall' = [fsCall EXCEPT ![c] = Resting] /\ UNCHANGED fsDone
  /\ UNCHANGED <<fsFile, fsWhole, fsBroken, fsCalls, fsFaults>>

\* A transport raises, and with it put: what was put on those before stays.  A
\* local transport renames what it has written even so.
PutRaises(c) ==
  LET t == fsCall[c].at
  IN /\ fsCall[c].op = "put"
     /\ Fault
     /\ fsCall' = [fsCall EXCEPT ![c] = Resting]
     /\ IF fsCall[c].step = "write" /\ t \in FsLocal
          THEN /\ fsFile' = [fsFile EXCEPT ![t] = fsCall[c].content]
               /\ fsWhole' = [fsWhole EXCEPT ![t] = FALSE]
               /\ fsBroken' = fsBroken \cup {t}
          ELSE UNCHANGED <<fsFile, fsWhole, fsBroken>>
     /\ UNCHANGED <<fsDone, fsCalls>>

----------------------------------------------------------------------------
\* delete

StartDelete(c) ==
  /\ Count
  /\ FsStart(c, [Resting EXCEPT !.op = "delete", !.at = 1])
  /\ UNCHANGED <<fsFile, fsWhole, fsBroken, fsFaults>>

\* An error of one transport does not keep delete from the next.
DeleteAt(c, fails) ==
  LET t == fsCall[c].at
  IN /\ fsCall[c].op = "delete"
     /\ IF fails THEN Fault /\ UNCHANGED fsFile
                 ELSE fsFile' = [fsFile EXCEPT ![t] = 0] /\ UNCHANGED fsFaults
     /\ Advance(c, "none", Resting)
     /\ UNCHANGED <<fsWhole, fsDone, fsBroken, fsCalls>>

FsNext ==
  \E c \in FsClients :
    \/ \E content \in Contents, force \in BOOLEAN : StartPut(c, content, force)
    \/ Skip(c) \/ WriteTemporary(c) \/ Rename(c) \/ Verify(c) \/ PutRaises(c)
    \/ StartDelete(c)
    \/ \E fails \in BOOLEAN : DeleteAt(c, fails)

FsSpec == FsInit /\ [][FsNext]_fsVars

----------------------------------------------------------------------------
\* Properties.

\* A put that has returned, with which no deletion and no forced put clashed,
\* has left the file on every transport, its own content if it was forced: also
\* when others put the file at the same time, when an earlier put raised after
\* the first transports, and when a delete missed some of them.  Only a file
\* that a failed write has left there half is taken for the file.
PutsStay ==
  \A c \in FsClients : fsDone[c] # 0 =>
    \A t \in Transports :
      /\ fsFile[t] # 0
      /\ fsDone[c] # AnyContent => fsFile[t] = fsDone[c]
      /\ fsWhole[t] \/ t \in fsBroken
=============================================================================
