----------------------------- MODULE FileLedger -----------------------------
(***************************************************************************)
(* What save_or_freshen_file promises to its callers: the record of a file *)
(* is a ledger of sightings.  A sighting counts one up, opens the record   *)
(* to whoever may read this sighting, and extends its life; a call returns *)
(* with a sighting of its own, and may have left more than one when the    *)
(* network made it send a request again.                                   *)
(***************************************************************************)
EXTENDS Naturals

CONSTANTS Calls, Markings, CallExpiries, Absent

VARIABLES input,     \* the arguments of each call
          record,    \* the ledger entry of the file
          returned   \* the calls that returned

vars == <<input, record, returned>>

Sighted(rec, in) ==
  IF rec = Absent
  THEN [count |-> 1, cls |-> in.cls, exp |-> in.exp]
  ELSE [count |-> rec.count + 1,
        cls   |-> rec.cls \cap in.cls,
        exp   |-> IF rec.exp < in.exp THEN in.exp ELSE rec.exp]

Init == /\ input \in [Calls -> [cls: SUBSET Markings, exp: CallExpiries]]
        /\ record = Absent
        /\ returned = {}

\* A sighting by c is entered; c returns with it when it is the answer.
Sight(c) == /\ record' = Sighted(record, input[c])
            /\ returned' \in {returned, returned \cup {c}}
            /\ UNCHANGED input

Next == \E c \in Calls : Sight(c)

\* Each call returns in the end.
Answer(c) == Sight(c) /\ c \notin returned /\ c \in returned'

Spec     == Init /\ [][Next]_vars
FairSpec == Spec /\ \A c \in Calls : WF_vars(Answer(c))
=============================================================================
