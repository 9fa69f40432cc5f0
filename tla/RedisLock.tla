----------------------------- MODULE RedisLock -----------------------------
(***************************************************************************)
(* The lock of remote/datatypes/lock.py: a key that holds the uuid of its  *)
(* holder and expires after a timeout, and a list on which a release       *)
(* leaves a token that wakes a waiter.  Every command goes through         *)
(* retry_call, which sends it again when the connection breaks: the first  *)
(* one may have been executed, only its reply is lost.                     *)
(*                                                                         *)
(* A client is one Lock object, used by one thread at a time.  The lease   *)
(* runs on the server: a client inside is not told when it ends, and       *)
(* lockLate remembers to whom that happened.                               *)
(***************************************************************************)
EXTENDS Integers, FiniteSets

CONSTANTS
  LockClients,      \* the Lock objects with one name and one timeout
  LockNobody,       \* the holder key does not exist
  MaxLockEntries,   \* bound: how often __enter__ is called
  MaxLockLosses     \* bound: how many replies are lost

ASSUME LockAssumption ==
  /\ LockNobody \notin LockClients
  /\ MaxLockEntries \in Nat
  /\ MaxLockLosses \in Nat

VARIABLES
  lockHolder,     \* the holder key
  lockReleased,   \* the number of tokens in the release list
  lockPc,         \* where each client is
  lockLate,       \* the clients inside whose lease has ended
  lockEntries,    \* the calls of __enter__ so far
  lockLosses      \* the replies lost so far

lockVars == <<lockHolder, lockReleased, lockPc, lockLate, lockEntries, lockLosses>>

LockPoints == {"outside", "acquiring", "waiting", "inside", "releasing", "dead"}

LockTypeOK ==
  /\ lockHolder \in LockClients \cup {LockNobody}
  /\ lockReleased \in Nat
  /\ lockPc \in [LockClients -> LockPoints]
  /\ lockLate \subseteq LockClients
  /\ lockEntries \in Nat
  /\ lockLosses \in Nat

LockInit ==
  /\ lockHolder = LockNobody
  /\ lockReleased = 0
  /\ lockPc = [c \in LockClients |-> "outside"]
  /\ lockLate = {}
  /\ lockEntries = 0
  /\ lockLosses = 0

GoTo(c, point) == lockPc' = [lockPc EXCEPT ![c] = point]

LoseReply ==
  /\ lockLosses < MaxLockLosses
  /\ lockLosses' = lockLosses + 1

----------------------------------------------------------------------------
\* __enter__

Enter(c) ==
  /\ lockPc[c] = "outside"
  /\ lockEntries < MaxLockEntries
  /\ lockEntries' = lockEntries + 1
  /\ GoTo(c, "acquiring")
  /\ UNCHANGED <<lockHolder, lockReleased, lockLate, lockLosses>>

\* The script sets the key if there is none; refused, the client waits.
Acquire(c) ==
  /\ lockPc[c] = "acquiring"
  /\ IF lockHolder = LockNobody
       THEN lockHolder' = c /\ GoTo(c, "inside")
       ELSE lockHolder' = lockHolder /\ GoTo(c, "waiting")
  /\ UNCHANGED <<lockReleased, lockLate, lockEntries, lockLosses>>

\* The script set the key, but the client does not learn it and asks again.
AcquireUnheard(c) ==
  /\ lockPc[c] = "acquiring"
  /\ lockHolder = LockNobody
  /\ LoseReply
  /\ lockHolder' = c
  /\ UNCHANGED <<lockReleased, lockPc, lockLate, lockEntries>>

\* blpop returns a token, or nothing after a second.
TakeToken(c) ==
  /\ lockPc[c] = "waiting"
  /\ lockReleased > 0
  /\ lockReleased' = lockReleased - 1
  /\ GoTo(c, "acquiring")
  /\ UNCHANGED <<lockHolder, lockLate, lockEntries, lockLosses>>

TakeTokenUnheard(c) ==
  /\ lockPc[c] = "waiting"
  /\ lockReleased > 0
  /\ LoseReply
  /\ lockReleased' = lockReleased - 1
  /\ UNCHANGED <<lockHolder, lockPc, lockLate, lockEntries>>

\* (Fault: blpop without a timeout.)
WaitForToken(c) == FALSE /\ UNCHANGED lockVars

WaitTimesOut(c) ==
  /\ lockPc[c] = "waiting"
  /\ lockReleased = 0
  /\ GoTo(c, "acquiring")
  /\ UNCHANGED <<lockHolder, lockReleased, lockLate, lockEntries, lockLosses>>

----------------------------------------------------------------------------
\* __exit__

\* (Fault: the release does not look whose key it deletes.)
ReleaseWhoever(c) == lockHolder' = LockNobody /\ lockReleased' = lockReleased + 1

\* What the release script does for c: only the holder's call frees the lock.
ReleaseScript(c) ==
  IF lockHolder = c
    THEN lockHolder' = LockNobody /\ lockReleased' = lockReleased + 1
    ELSE UNCHANGED <<lockHolder, lockReleased>>

Release(c) ==
  /\ lockPc[c] \in {"inside", "releasing"}
  /\ ReleaseScript(c)
  /\ GoTo(c, "outside")
  /\ lockLate' = lockLate \ {c}
  /\ UNCHANGED <<lockEntries, lockLosses>>

ReleaseUnheard(c) ==
  /\ lockPc[c] \in {"inside", "releasing"}
  /\ LoseReply
  /\ ReleaseScript(c)
  /\ GoTo(c, "releasing")
  /\ lockLate' = lockLate \ {c}
  /\ UNCHANGED lockEntries

----------------------------------------------------------------------------
\* The server and the world.

\* The timeout of the lock passes: the holder key is gone.
LeaseEnds ==
  /\ lockHolder # LockNobody
  /\ lockHolder' = LockNobody
  /\ lockLate' = lockLate \cup {c \in {lockHolder} : lockPc[c] = "inside"}
  /\ UNCHANGED <<lockReleased, lockPc, lockEntries, lockLosses>>

\* The release list expires a second after the last release.
TokensExpire ==
  /\ lockReleased > 0
  /\ lockReleased' = 0
  /\ UNCHANGED <<lockHolder, lockPc, lockLate, lockEntries, lockLosses>>

\* A process dies while it holds the lock.
Die(c) ==
  /\ lockPc[c] = "inside"
  /\ GoTo(c, "dead")
  /\ lockLate' = lockLate \ {c}
  /\ UNCHANGED <<lockHolder, lockReleased, lockEntries, lockLosses>>

LockNext ==
  \/ \E c \in LockClients :
       \/ Enter(c) \/ Acquire(c) \/ AcquireUnheard(c)
       \/ TakeToken(c) \/ TakeTokenUnheard(c) \/ WaitTimesOut(c)
       \/ Release(c) \/ ReleaseUnheard(c) \/ Die(c)
  \/ LeaseEnds
  \/ TokensExpire

LockSpec == LockInit /\ [][LockNext]_lockVars

\* A client goes on while it is in a call, and time passes.  Nothing says that
\* the work inside ends, nor that anybody calls __enter__.
LockFairness ==
  /\ WF_lockVars(LeaseEnds)
  /\ \A c \in LockClients :
       /\ WF_lockVars(Acquire(c))
       /\ WF_lockVars(TakeToken(c))
       /\ WF_lockVars(WaitTimesOut(c))
       /\ WF_lockVars(lockPc[c] = "releasing" /\ Release(c))

----------------------------------------------------------------------------
\* Properties.

Inside(c) == lockPc[c] = "inside"

\* Who is inside and within the lease is the holder on the server: what the
\* exclusion rests on.
LockHeld == \A c \in LockClients : Inside(c) /\ c \notin lockLate => lockHolder = c

\* Two clients are inside together only when the lease of one has ended under
\* it: not after a lost reply, not after the release of a client that comes
\* too late, not after a death.
LockExclusive ==
  \A c, d \in LockClients :
    Inside(c) /\ Inside(d) /\ c # d => c \in lockLate \/ d \in lockLate

\* While somebody wants the lock it is handed over: a client gets inside as the
\* holder, although tokens get lost or expire, holders die and an acquisition
\* of which the client never heard keeps the key.
LockServes ==
  (\E c \in LockClients : lockPc[c] \in {"acquiring", "waiting"})
    ~> (\E c \in LockClients : Inside(c) /\ lockHolder = c)
=============================================================================
