----------------------------- MODULE RangeTable -----------------------------
(***************************************************************************)
(* The table of IPv4 ranges behind is_ip_private and is_ip_reserved        *)
(* (common/iprange.py): a trie with one level per byte of an address.  A   *)
(* range is cut into blocks that are a power of two long and start at a    *)
(* multiple of their length; a block is stored at the level at which it is *)
(* whole points, and what was stored for a larger one is split up on the   *)
(* way down.                                                               *)
(*                                                                         *)
(* A byte has RtBase values and an address RtBytes bytes, so that all      *)
(* addresses can be looked up.                                             *)
(***************************************************************************)
EXTENDS Integers, FiniteSets, Sequences

CONSTANTS
  RtBase, RtBytes,   \* the values of a byte, the bytes of an address
  RtEnds,            \* the first and last addresses of the ranges added
  RtValues,          \* the values they are given
  RtNone,            \* no value
  RtDict,            \* an entry of the trie that is a dictionary
  MaxRtAdds          \* bound: the ranges added

\* b to the power of n, as a function: RangeProofs says what it keeps to.
Power(b, n) == LET p[k \in 0 .. n] == IF k = 0 THEN 1 ELSE b * p[k - 1] IN p[n]

Points    == 0 .. RtBase - 1
Addresses == 0 .. Power(RtBase, RtBytes) - 1

ASSUME RtAssumption ==
  /\ RtBytes \in Nat \ {0} /\ MaxRtAdds \in Nat
  /\ RtBase \in Nat /\ \E bits \in 1 .. RtBase : RtBase = Power(2, bits)
  /\ RtEnds \subseteq Addresses
  /\ RtNone \notin RtValues /\ RtDict \notin RtValues \cup {RtNone}

VARIABLES
  rtTrie,    \* the trie
  rtWanted,  \* per address, the value it was last given (history)
  rtAll,     \* the range of all addresses is among them (history)
  rtAdds     \* the ranges added so far

rtVars == <<rtTrie, rtWanted, rtAll, rtAdds>>

\* The trie gives the entries by their paths, the points that lead to them.
Paths == UNION {[1 .. k -> Points] : k \in 1 .. RtBytes}

RtTypeOK ==
  /\ DOMAIN rtTrie \subseteq Paths
  /\ \A p \in DOMAIN rtTrie : rtTrie[p] \in RtValues \cup {RtDict}
  /\ rtWanted \in [Addresses -> RtValues \cup {RtNone}]
  /\ rtAll \in BOOLEAN
  /\ rtAdds \in 0 .. MaxRtAdds

RtEmpty == [p \in {} |-> RtNone]

RtInit ==
  /\ rtTrie = RtEmpty
  /\ rtWanted = [a \in Addresses |-> RtNone]
  /\ rtAll = FALSE
  /\ rtAdds = 0

\* _to_path
ToPath(a) == [i \in 1 .. RtBytes |-> (a \div Power(RtBase, RtBytes - i)) % RtBase]

\* _valid, for lengths that are powers of two: lower & (upper - lower) == 0.
ValidBlock(lower, upper) == lower % (upper - lower + 1) = 0

\* _next: the length of the block that starts at lower, doubled as long as the
\* loop goes on.
GoesOn(lower, upper, k) ==
  /\ lower + Power(2, k) - 1 <= upper
  /\ ValidBlock(lower, lower + Power(2, k) - 1)
NextLength(lower, upper) ==
  LET rounds == CHOOSE k \in 0 .. upper - lower + 1 :
                  /\ ~ GoesOn(lower, upper, k + 1)
                  /\ \A j \in 1 .. k : GoesOn(lower, upper, j)
  IN Power(2, rounds)

\* The entries above another one, and those from one downwards.
Above(path) == {SubSeq(path, 1, k) : k \in 1 .. Len(path) - 1}
From(path, trie) == {p \in DOMAIN trie : p = path \/ path \in Above(p)}

\* One round of the loop of _add_path: the entry at a path becomes a dictionary,
\* with the value it had for all points.
\* (Fault: a dictionary made of a value does not keep it.)
SplitEmpty(trie, path) == [p \in DOMAIN trie \cup {path} |-> IF p = path THEN RtDict ELSE trie[p]]
Split(trie, path) ==
  LET given == IF path \in DOMAIN trie /\ trie[path] # RtDict
               THEN {Append(path, x) : x \in Points} ELSE {}
  IN [p \in DOMAIN trie \cup {path} \cup given |->
        IF p = path THEN RtDict ELSE IF p \in given THEN trie[path] ELSE trie[p]]

\* Its last assignment: what was below the path is gone.
Store(trie, path, v) ==
  [p \in (DOMAIN trie \ From(path, trie)) \cup {path} |-> IF p = path THEN v ELSE trie[p]]

\* _add_path
AddPath(trie, path, v) ==
  LET walk[k \in 0 .. Len(path) - 1] ==
        IF k = 0 THEN trie ELSE Split(walk[k - 1], SubSeq(path, 1, k))
  IN Store(walk[Len(path) - 1], path, v)

\* int(log(size, 256))
WholeBytes(size) ==
  CHOOSE k \in 0 .. RtBytes : Power(RtBase, k) <= size /\ size < Power(RtBase, k + 1)

\* _add_cidr.  The level of a block of all addresses is -1, which Python takes
\* for the last byte.
AddBlock(trie, lower, size, v) ==
  LET level == RtBytes - WholeBytes(size)
      at == IF level = 0 THEN RtBytes ELSE level
      from == ToPath(lower)
      to == ToPath(lower + size - 1)
      add[k \in 0 .. to[at] - from[at] + 1] ==
        IF k = 0 THEN trie
        ELSE AddPath(add[k - 1], Append(SubSeq(from, 1, at - 1), from[at] + k - 1), v)
  IN add[to[at] - from[at] + 1]

\* _add_range: rounds of its loop, of which each takes an address at least.
AddBlocks(trie, lower, upper, v) ==
  LET loop[k \in 0 .. upper + 1] ==
        IF k = 0 THEN [trie |-> trie, lower |-> lower]
        ELSE LET done == loop[k - 1]
                 size == NextLength(done.lower, upper)
             IN IF done.lower > upper THEN done
                ELSE [trie |-> AddBlock(done.trie, done.lower, size, v),
                      lower |-> done.lower + size]
  IN loop[upper + 1].trie

\* A range is added: by __setitem__, or by add_range, which does it twice.
AddRange(lower, upper, v, twice) ==
  /\ rtAdds < MaxRtAdds
  /\ rtAdds' = rtAdds + 1
  /\ rtTrie' = LET once == AddBlocks(rtTrie, lower, upper, v)
               IN IF twice THEN AddBlocks(once, lower, upper, v) ELSE once
  /\ rtWanted' = [a \in Addresses |-> IF a \in lower .. upper THEN v ELSE rtWanted[a]]
  /\ rtAll' = (rtAll \/ lower .. upper = Addresses)

\* clear: everything is forgotten.
Clear ==
  /\ rtTrie' = RtEmpty
  /\ rtWanted' = [a \in Addresses |-> RtNone]
  /\ rtAll' = FALSE
  /\ UNCHANGED rtAdds

\* _follow_path: down to the first entry that is not a dictionary.
EndsAt(trie, path, k) ==
  LET p == SubSeq(path, 1, k) IN p \notin DOMAIN trie \/ trie[p] # RtDict
FollowPath(trie, path) ==
  LET k == CHOOSE k \in 1 .. Len(path) :
             EndsAt(trie, path, k) /\ \A j \in 1 .. k - 1 : ~ EndsAt(trie, path, j)
      p == SubSeq(path, 1, k)
  IN IF p \in DOMAIN trie THEN trie[p] ELSE RtNone

RtNext ==
  \/ Clear
  \/ \E lower, upper \in RtEnds, v \in RtValues, twice \in BOOLEAN :
       AddRange(lower, upper, v, twice)

RtSpec == RtInit /\ [][RtNext]_rtVars

----------------------------------------------------------------------------
\* Properties.

\* A lookup finds what the last range that holds the address was given,
\* however the ranges overlap and whatever has to be split or is covered.
\* Except after the range of all addresses, of which the code stores the first
\* RtBase.
RangesAgree ==
  rtAdds > 0 /\ ~ rtAll => \A a \in Addresses : FollowPath(rtTrie, ToPath(a)) = rtWanted[a]
=============================================================================
