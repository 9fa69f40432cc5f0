------------------------------ MODULE Markings ------------------------------
(***************************************************************************)
(* The arithmetic of classifications in common/classification.py: what is  *)
(* normalised, how two are combined, for documents and for users, and who  *)
(* may see what.  A classification is taken apart into its level and its   *)
(* required tokens, groups and subgroups, which the code writes as a text  *)
(* and parses again.  A marking here is the long text the code writes for  *)
(* it; any other spelling of it has the rules applied when it is read, so  *)
(* that it is as good as the marking that results.                         *)
(*                                                                         *)
(* A text that is in the cache is taken as it is, without the rules.  The  *)
(* cache is filled at the start with all combinations that may be written, *)
(* but for subgroups without groups, of which it writes another spelling.  *)
(*                                                                         *)
(* The parameters are those of a classification definition.  Left out are  *)
(* limited_to_group, whose effect depends on the order in which Python     *)
(* walks a set, groups that are not defined, and what is about display:    *)
(* names, aliases, solitary names, the order of tokens, the short form.    *)
(***************************************************************************)
EXTENDS Integers, FiniteSets

CONSTANTS
  CmLevels,         \* the levels, numbers
  CmRequired,       \* the required tokens
  CmGroups, CmSubgroups,
  CmRequireLevel,   \* per required token, require_lvl
  CmAutoGroups, CmAutoSubgroups,  \* those with auto_select
  CmRequireGroup,   \* per subgroup, the set of its require_group, or {}
  CmAsked           \* bound: what is normalised before two are combined

ASSUME CmAssumption ==
  /\ CmLevels \subseteq Nat /\ CmLevels # {} /\ IsFiniteSet(CmLevels)
  /\ CmRequireLevel \in [CmRequired -> CmLevels]
  /\ CmAutoGroups \subseteq CmGroups /\ CmAutoSubgroups \subseteq CmSubgroups
  /\ CmRequireGroup \in [CmSubgroups -> SUBSET CmGroups]

VARIABLES
  cmAdded,    \* what _classification_cache has more than at the start
  cmFirst,    \* two classifications that are to be combined
  cmSecond,
  cmGiven     \* whether they are given

cmVars == <<cmAdded, cmFirst, cmSecond, cmGiven>>

Marking == [lvl : CmLevels, req : SUBSET CmRequired,
            groups : SUBSET CmGroups, subgroups : SUBSET CmSubgroups]
ASSUME CmAskedAssumption == CmAsked \subseteq Marking

Lowest == [lvl |-> CHOOSE l \in CmLevels : \A k \in CmLevels : l <= k,
           req |-> {}, groups |-> {}, subgroups |-> {}]

\* list_all_classification_combinations, as far as the code writes them so.
Listed(m) == m.subgroups = {} \/ m.groups # {}

\* In _classification_cache.
Cached(m) == Listed(m) \/ m \in cmAdded

Higher(a, b) == IF a >= b THEN a ELSE b
Lower(a, b) == IF a >= b THEN b ELSE a

\* _get_normalized_classification_text.  auto is the opposite of
\* skip_auto_select, which is set for the classifications of users.
ApplyRules(m, auto) ==
  LET levels == {m.lvl} \cup {CmRequireLevel[r] : r \in m.req}
      subgroups == IF auto /\ m.subgroups # {} THEN m.subgroups \cup CmAutoSubgroups
                                               ELSE m.subgroups
      groups == m.groups \cup UNION {CmRequireGroup[s] : s \in subgroups}
  IN [lvl |-> CHOOSE l \in levels : \A k \in levels : k <= l,
      req |-> m.req,
      groups |-> IF auto /\ groups # {} THEN groups \cup CmAutoGroups ELSE groups,
      subgroups |-> subgroups]

\* normalize_classification: what is in the cache is said to be normalised.
Normalize(m, auto) == IF Cached(m) THEN m ELSE ApplyRules(m, auto)

\* The rules leave it as it is.
Settled(m, auto) == ApplyRules(m, auto) = m

\* _max_groups; nothing in common raises InvalidClassification.
\* (Fault: what only one of them has is kept.)
AllGroups(a, b) == a \cup b
MaxGroups(a, b) == IF a # {} /\ b # {} THEN a \cap b ELSE a \cup b
NoIntersection(a, b) == a # {} /\ b # {} /\ a \cap b = {}
MinGroups(a, b) == IF a # {} /\ b # {} THEN a \cup b ELSE {}

\* max_classification raises.
MaxInvalid(a, b) ==
  LET m == Normalize(a, TRUE)  n == Normalize(b, TRUE)
  IN NoIntersection(m.groups, n.groups) \/ NoIntersection(m.subgroups, n.subgroups)

MaxClassification(a, b) ==
  LET m == Normalize(a, TRUE)  n == Normalize(b, TRUE)
  IN ApplyRules([lvl |-> Higher(m.lvl, n.lvl), req |-> m.req \cup n.req,
                 groups |-> MaxGroups(m.groups, n.groups),
                 subgroups |-> MaxGroups(m.subgroups, n.subgroups)], TRUE)

MinClassification(a, b) ==
  LET m == Normalize(a, TRUE)  n == Normalize(b, TRUE)
  IN ApplyRules([lvl |-> Lower(m.lvl, n.lvl), req |-> m.req \cap n.req,
                 groups |-> MinGroups(m.groups, n.groups),
                 subgroups |-> MinGroups(m.subgroups, n.subgroups)], TRUE)

BuildUser(a, b) ==
  LET m == Normalize(a, FALSE)  n == Normalize(b, FALSE)
  IN ApplyRules([lvl |-> Higher(m.lvl, n.lvl), req |-> m.req \cup n.req,
                 groups |-> m.groups \cup n.groups,
                 subgroups |-> m.subgroups \cup n.subgroups], FALSE)

IntersectUsers(a, b) ==
  LET m == Normalize(a, FALSE)  n == Normalize(b, FALSE)
  IN ApplyRules([lvl |-> Lower(m.lvl, n.lvl), req |-> m.req \cap n.req,
                 groups |-> m.groups \cap n.groups,
                 subgroups |-> m.subgroups \cap n.subgroups], FALSE)

CanSeeGroups(user, groups) == groups = {} \/ user \cap groups # {}

IsAccessible(user, m) ==
  LET u == Normalize(user, FALSE)  n == Normalize(m, FALSE)
  IN /\ u.lvl >= n.lvl
     /\ n.req \subseteq u.req
     /\ CanSeeGroups(u.groups, n.groups)
     /\ CanSeeGroups(u.subgroups, n.subgroups)

----------------------------------------------------------------------------
CmTypeOK ==
  /\ cmAdded \subseteq Marking
  /\ {cmFirst, cmSecond} \subseteq Marking
  /\ cmGiven \in BOOLEAN

CmInit == cmAdded = {} /\ cmFirst = Lowest /\ cmSecond = Lowest /\ cmGiven = FALSE

\* normalize_classification for anyone, which keeps what it returns.
NormalizeText(m, auto) ==
  /\ ~ Cached(m)
  /\ cmAdded' = cmAdded \cup {n \in {ApplyRules(m, auto)} : ~ Listed(n)}
  /\ UNCHANGED <<cmFirst, cmSecond, cmGiven>>

\* Two classifications, of documents or of users.
Consider(a, b) == cmFirst' = a /\ cmSecond' = b /\ cmGiven' = TRUE /\ UNCHANGED cmAdded

CmNext ==
  /\ ~ cmGiven
  /\ \/ \E m \in CmAsked, auto \in BOOLEAN : NormalizeText(m, auto)
     \/ \E a, b \in Marking : Consider(a, b)

CmSpec == CmInit /\ [][CmNext]_cmVars

----------------------------------------------------------------------------
\* Properties.

\* A group that a subgroup requires takes the place of no group at all: then
\* the minimum of two classifications of which one has groups is not seen by
\* all who see the other.
RequiredGroupsAppear(a, b) ==
  LET m == Normalize(a, TRUE)  n == Normalize(b, TRUE)
  IN /\ m.groups = {} \/ n.groups = {}
     /\ \E s \in MinGroups(m.subgroups, n.subgroups) : CmRequireGroup[s] # {}

\* Combining classifications keeps its promise to the readers, whatever has to
\* be added to the result.  Of documents, where the rules have nothing to add to
\* either: who sees the maximum of two sees both, who sees one of them sees their
\* minimum.  Of users: what either sees is seen by one with their classifications
\* joined; and what one with what they have in common sees is seen by both, where
\* the rules have nothing to add to either.
ReadersAgree ==
  cmGiven => \A u \in Marking :
    LET a == cmFirst  b == cmSecond
    IN /\ Settled(a, TRUE) /\ Settled(b, TRUE) =>
            /\ ~ MaxInvalid(a, b) /\ IsAccessible(u, MaxClassification(a, b))
                 => IsAccessible(u, a) /\ IsAccessible(u, b)
            /\ ~ RequiredGroupsAppear(a, b) /\ (IsAccessible(u, a) \/ IsAccessible(u, b))
                 => IsAccessible(u, MinClassification(a, b))
       /\ IsAccessible(a, b) \/ IsAccessible(u, b) => IsAccessible(BuildUser(a, u), b)
       /\ Settled(a, FALSE) /\ Settled(u, FALSE) /\ IsAccessible(IntersectUsers(a, u), b)
            => IsAccessible(a, b) /\ IsAccessible(u, b)

\* max_classification "returns to most restrictive form" for two: who sees it
\* sees both.  (It is not so where the cache has one of them without what the
\* rules would add to it: they add it to the maximum.)
MaxRestricts ==
  cmGiven => \A u \in Marking :
    LET a == cmFirst  b == cmSecond
    IN ~ MaxInvalid(a, b) /\ IsAccessible(u, MaxClassification(a, b))
         => IsAccessible(u, a) /\ IsAccessible(u, b)
=============================================================================
