--------------------------- MODULE PriorityQueue ---------------------------
(***************************************************************************)
(* remote/datatypes/queues/priority.py on a connection that may lose       *)
(* replies.  A member of the queue is a string: the vip digit, the time of *)
(* the push in microseconds and the data; its score is the negated         *)
(* priority.  Members of one score sort by the string, so the vips come    *)
(* first, then the oldest.                                                 *)
(*                                                                         *)
(* A push makes its string once and retry_call may add it more than once:  *)
(* adding it again changes nothing while it is there, but puts it back     *)
(* when it has been taken in between.  A push is named by its place in     *)
(* pqPushes, which is also its time: producers read one clock, and it does *)
(* not step back.  What was popped counts as taken, heard or not.          *)
(***************************************************************************)
EXTENDS Integers, Sequences, FiniteSets, FiniteSetsExt

CONSTANTS
  PqProducers,     \* who pushes, one call at a time
  PqPriorities,    \* the priorities in use
  MaxPqPushes,     \* bound: the calls of push
  MaxPqLosses      \* bound: the replies lost

ASSUME PqAssumption ==
  PqPriorities \subseteq Int /\ MaxPqPushes \in Nat /\ MaxPqLosses \in Nat

VARIABLES
  pqPushes,    \* the calls of push: [by, priority, vip]
  pqIn,        \* the pushes whose string is in the queue
  pqOpen,      \* the pushes that have not returned
  pqRepeated,  \* how often each push was executed without being heard
  pqTaken,     \* how often each push was taken from the queue
  pqLast,      \* the latest push popped, of each producer at each rank
  pqLosses     \* the replies lost so far

pqVars == <<pqPushes, pqIn, pqOpen, pqRepeated, pqTaken, pqLast, pqLosses>>

PqRanks == PqPriorities \X BOOLEAN
RankOf(i) == <<pqPushes[i].priority, pqPushes[i].vip>>

PqTypeOK ==
  /\ pqPushes \in Seq([by : PqProducers, priority : PqPriorities, vip : BOOLEAN])
  /\ pqIn \subseteq DOMAIN pqPushes
  /\ pqOpen \subseteq DOMAIN pqPushes
  /\ pqRepeated \in [DOMAIN pqPushes -> Nat]
  /\ pqTaken \in [DOMAIN pqPushes -> Nat]
  /\ pqLast \in [PqProducers \X PqRanks -> Nat]
  /\ pqLosses \in Nat

PqInit ==
  /\ pqPushes = <<>>
  /\ pqIn = {}
  /\ pqOpen = {}
  /\ pqRepeated = <<>>
  /\ pqTaken = <<>>
  /\ pqLast = [pr \in PqProducers \X PqRanks |-> 0]
  /\ pqLosses = 0

LosePqReply ==
  /\ pqLosses < MaxPqLosses
  /\ pqLosses' = pqLosses + 1

\* (Fault: of one rank, the youngest comes first.)
BeforeYoungest(i, j) ==
  LET a == pqPushes[i]
      b == pqPushes[j]
  IN \/ a.priority > b.priority
     \/ a.priority = b.priority /\ a.vip /\ ~ b.vip
     \/ a.priority = b.priority /\ a.vip = b.vip /\ i > j

\* The order of the members: the score, then the string.
Before(i, j) ==
  LET a == pqPushes[i]
      b == pqPushes[j]
  IN \/ a.priority > b.priority
     \/ a.priority = b.priority /\ a.vip /\ ~ b.vip
     \/ a.priority = b.priority /\ a.vip = b.vip /\ i < j

\* The members with fewer than n before them, and with fewer than n behind.
First(S, n) == {i \in S : Cardinality({j \in S : Before(j, i)}) < n}
LastOf(S, n) == {i \in S : Cardinality({j \in S : Before(i, j)}) < n}

----------------------------------------------------------------------------
\* push

PushCall(p, priority, vip) ==
  /\ Len(pqPushes) < MaxPqPushes
  /\ \A i \in pqOpen : pqPushes[i].by # p
  /\ pqPushes' = Append(pqPushes, [by |-> p, priority |-> priority, vip |-> vip])
  /\ pqOpen' = pqOpen \cup {Len(pqPushes) + 1}
  /\ pqRepeated' = Append(pqRepeated, 0)
  /\ pqTaken' = Append(pqTaken, 0)
  /\ UNCHANGED <<pqIn, pqLast, pqLosses>>

Push(i) ==
  /\ i \in pqOpen
  /\ pqIn' = pqIn \cup {i}
  /\ pqOpen' = pqOpen \ {i}
  /\ UNCHANGED <<pqPushes, pqRepeated, pqTaken, pqLast, pqLosses>>

PushUnheard(i) ==
  /\ i \in pqOpen
  /\ LosePqReply
  /\ pqIn' = pqIn \cup {i}
  /\ pqRepeated' = [pqRepeated EXCEPT ![i] = @ + 1]
  /\ UNCHANGED <<pqPushes, pqOpen, pqTaken, pqLast>>

----------------------------------------------------------------------------
\* The operations that take members from the queue.

Take(S) ==
  /\ pqIn' = pqIn \ S
  /\ pqTaken' = [i \in DOMAIN pqTaken |-> IF i \in S THEN pqTaken[i] + 1 ELSE pqTaken[i]]
  /\ UNCHANGED <<pqPushes, pqOpen, pqRepeated>>

\* pop, pop(num) and blocking_pop, for a consumer that sees the reply.
Pop(n) ==
  LET S == First(pqIn, n)
      latest(p, r) == {i \in S : pqPushes[i].by = p /\ RankOf(i) = r}
  IN /\ pqIn # {}
     /\ Take(S)
     /\ pqLast' = [pr \in DOMAIN pqLast |->
                     IF latest(pr[1], pr[2]) = {} THEN pqLast[pr]
                                                  ELSE Max(latest(pr[1], pr[2]))]
     /\ UNCHANGED pqLosses

\* The members were removed, the reply is lost: retry_call pops the next ones.
PopUnheard(n) ==
  /\ pqIn # {}
  /\ LosePqReply
  /\ Take(First(pqIn, n))
  /\ UNCHANGED pqLast

\* unpush and blocking_pop(low_priority=True).
Unpush(n) ==
  /\ pqIn # {}
  /\ Take(LastOf(pqIn, n))
  /\ UNCHANGED <<pqLast, pqLosses>>

\* dequeue_range: the script reads a window of the scores and removes what it
\* has read, because zremrangebyscore knows no offset.
InRange(low, high) == {i \in pqIn : pqPushes[i].priority \in low .. high}

ReadWindow(low, high, skip, n) ==
  First(InRange(low, high), skip + n) \ First(InRange(low, high), skip)

\* (Fault: zremrangebyscore.)
RemovedRange(low, high, skip, n) == InRange(low, high)

RemovedWindow(low, high, skip, n) == ReadWindow(low, high, skip, n)

DequeueRange(low, high, skip, n) ==
  LET read == ReadWindow(low, high, skip, n)
  IN /\ read # {}
     /\ pqIn' = pqIn \ RemovedWindow(low, high, skip, n)
     /\ pqTaken' = [i \in DOMAIN pqTaken |-> IF i \in read THEN pqTaken[i] + 1 ELSE pqTaken[i]]
     /\ UNCHANGED <<pqPushes, pqOpen, pqRepeated, pqLast, pqLosses>>

\* remove, by the producer that has kept what push returned.
RemoveValue(i) ==
  /\ i \in pqIn \ pqOpen
  /\ Take({i})
  /\ UNCHANGED <<pqLast, pqLosses>>

PqNext ==
  \/ \E p \in PqProducers, priority \in PqPriorities, vip \in BOOLEAN : PushCall(p, priority, vip)
  \/ \E i \in pqOpen : Push(i) \/ PushUnheard(i)
  \/ \E n \in 1 .. 2 : Pop(n) \/ PopUnheard(n) \/ Unpush(n)
  \/ \E low, high \in PqPriorities, skip \in 0 .. 1 : DequeueRange(low, high, skip, 1)
  \/ \E i \in pqIn : RemoveValue(i)

PqSpec == PqInit /\ [][PqNext]_pqVars

----------------------------------------------------------------------------
\* Properties.

\* A push that has returned is in the queue or has been handed out, and none is
\* there or handed out more often than once and once per repetition of its
\* command: zadd of the same string, and the removal of exactly the members
\* that were read.
PqAccounted ==
  \A i \in DOMAIN pqPushes :
    LET copies == pqTaken[i] + (IF i \in pqIn THEN 1 ELSE 0)
    IN /\ copies <= 1 + pqRepeated[i]
       /\ i \notin pqOpen => copies >= 1

\* Pops hand out the pushes of one producer at one priority in the order in
\* which they were made, also when a push is repeated after it was taken, and
\* whatever was taken from the other end in between.
PqInOrder ==
  \A i \in pqIn : pqLast[<<pqPushes[i].by, RankOf(i)>>] <= i
=============================================================================
