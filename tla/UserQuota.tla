----------------------------- MODULE UserQuota -----------------------------
(***************************************************************************)
(* The sessions of one user in remote/datatypes/user_quota_tracker.py.     *)
(* The tracker keeps a sorted set of start times, not of sessions: begin   *)
(* adds the time of the server when fewer than max are left after the ones *)
(* older than the timeout have gone, and end removes the oldest, whoever   *)
(* it belongs to.                                                          *)
(*                                                                         *)
(* A start time is a serial number: each begin gets a larger one.  What    *)
(* happens to the set when the clock passes a session's timeout is decided *)
(* by the next begin, so the clock is the serial up to which entries were  *)
(* purged.  retry_call may execute begin or end twice.                     *)
(***************************************************************************)
EXTENDS Integers, FiniteSets

CONSTANTS
  QuotaMax,         \* max_quota
  MaxQuotaBegins,   \* bound: how many entries are made
  MaxQuotaLosses    \* bound: how many replies are lost

ASSUME QuotaAssumption ==
  QuotaMax \in Nat /\ MaxQuotaBegins \in Nat /\ MaxQuotaLosses \in Nat

VARIABLES
  quotaEntries,   \* the sorted set
  quotaClock,     \* the serial the next begin gets
  quotaPurged,    \* entries up to this serial have timed out
  quotaActive,    \* the sessions whose user has not heard that they ended
  quotaExtra,     \* entries removed by late and by repeated calls of end
  quotaLosses     \* the replies lost so far

quotaVars == <<quotaEntries, quotaClock, quotaPurged, quotaActive, quotaExtra, quotaLosses>>

QuotaTypeOK ==
  /\ quotaClock \in Nat
  /\ quotaEntries \subseteq 1 .. quotaClock - 1
  /\ quotaPurged \in Nat
  /\ quotaActive \subseteq 1 .. quotaClock - 1
  /\ quotaExtra \in Nat
  /\ quotaLosses \in Nat

QuotaInit ==
  /\ quotaEntries = {}
  /\ quotaClock = 1
  /\ quotaPurged = 0
  /\ quotaActive = {}
  /\ quotaExtra = 0
  /\ quotaLosses = 0

Later(S, h) == {s \in S : s > h}

\* The script of begin at a time when what started up to h has timed out.
Admits(h) == Cardinality(Later(quotaEntries, h)) < QuotaMax

\* begin as a user of the tracker that is told the truth.
Begin(h) ==
  /\ quotaClock <= MaxQuotaBegins
  /\ quotaPurged' = h
  /\ IF Admits(h)
       THEN /\ quotaEntries' = Later(quotaEntries, h) \cup {quotaClock}
            /\ quotaActive' = quotaActive \cup {quotaClock}
            /\ quotaClock' = quotaClock + 1
       ELSE /\ quotaEntries' = Later(quotaEntries, h)
            /\ UNCHANGED <<quotaActive, quotaClock>>
  /\ UNCHANGED <<quotaExtra, quotaLosses>>

\* The reply of an admission is lost; the call is made again.
BeginUnheard(h) ==
  /\ quotaClock <= MaxQuotaBegins
  /\ quotaLosses < MaxQuotaLosses
  /\ Admits(h)
  /\ quotaPurged' = h
  /\ quotaEntries' = Later(quotaEntries, h) \cup {quotaClock}
  /\ quotaClock' = quotaClock + 1
  /\ quotaLosses' = quotaLosses + 1
  /\ UNCHANGED <<quotaActive, quotaExtra>>

\* (Fault: zpopmax.)
NewestPopped == {e \in quotaEntries : \A f \in quotaEntries : f <= e}

\* zpopmin.
Popped == {e \in quotaEntries : \A f \in quotaEntries : e <= f}

\* end of session s.  It is late when s has timed out: its entry is gone, and
\* what it removes is another one's.
End(s) ==
  /\ quotaEntries' = quotaEntries \ Popped
  /\ quotaActive' = quotaActive \ {s}
  /\ quotaExtra' = IF s <= quotaPurged THEN quotaExtra + Cardinality(Popped) ELSE quotaExtra
  /\ UNCHANGED <<quotaClock, quotaPurged, quotaLosses>>

EndUnheard(s) ==
  /\ quotaLosses < MaxQuotaLosses
  /\ quotaEntries' = quotaEntries \ Popped
  /\ quotaExtra' = quotaExtra + Cardinality(Popped)
  /\ quotaLosses' = quotaLosses + 1
  /\ UNCHANGED <<quotaClock, quotaPurged, quotaActive>>

QuotaNext ==
  \/ \E h \in quotaPurged .. quotaClock - 1 : Begin(h) \/ BeginUnheard(h)
  \/ \E s \in quotaActive : End(s) \/ EndUnheard(s)

QuotaSpec == QuotaInit /\ [][QuotaNext]_quotaVars

----------------------------------------------------------------------------
\* Properties.

\* For every moment from the last purge on, the sessions begun since then are
\* covered by the entries made since then, but for what late and repeated ends
\* have removed.  It is what popping the oldest entry preserves.
QuotaCovered ==
  \A h \in quotaPurged .. quotaClock :
    Cardinality(Later(quotaActive, h)) <= Cardinality(Later(quotaEntries, h)) + quotaExtra

\* No more than max_quota sessions that have not timed out run at once, except
\* for one more per late or repeated end: although the entries are not tied to
\* their sessions and any session's end removes the oldest.
QuotaHolds == Cardinality(Later(quotaActive, quotaPurged)) <= QuotaMax + quotaExtra
=============================================================================
