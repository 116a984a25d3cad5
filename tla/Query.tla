-------------------------------- MODULE Query --------------------------------
(***************************************************************************)
(* What a query promises (session.rs:273-282, the operations of cursor.rs),*)
(* with no index, no scan and no lock: a call is asked, and later answered *)
(* once, with what the document's text says of its path or with a failure  *)
(* to read the source.                                                     *)
(***************************************************************************)
EXTENDS Document

CONSTANTS
  Clients,  \* calls that may be in flight together
  Ops,      \* the operations they use, of {"has", "get", "hop", "iter"}
  Paths     \* the paths they query

VARIABLES
  calls,    \* the latest call of each client, and its answer if it has one
  cursors   \* where each cursor is anchored, and how deep in the document

RootCursor == [anchor |-> 0, depth |-> 0]

NoCall == [op |-> None, anchor |-> 0, depth |-> 0, path |-> <<>>,
           status |-> "none", seg |-> 0, start |-> 0, end |-> None]

Init ==
  /\ calls = [c \in Clients |-> NoCall]
  /\ cursors = {RootCursor}

Pending(c) == calls[c].op # None /\ calls[c].status = "none"

Ask(c) ==
  /\ ~ Pending(c)
  /\ \E cursor \in cursors, op \in Ops, path \in Paths :
       calls' = [calls EXCEPT ![c] = [NoCall EXCEPT
                   !.op = op, !.path = path, !.anchor = cursor.anchor, !.depth = cursor.depth]]
  /\ UNCHANGED cursors

\* The answer is true of what was asked.  A hop that finds its value hands out
\* a cursor anchored there.
Answer(c) ==
  LET call     == calls[c]
      answered == calls'[c]
      landed   == [anchor |-> answered.start, depth |-> call.depth + Len(call.path)]
  IN  /\ Pending(c)
      /\ calls' = [calls EXCEPT ![c] = [call EXCEPT
                     !.status = answered.status, !.seg = answered.seg,
                     !.start = answered.start, !.end = answered.end]]
      /\ answered.status # "none"
      /\ IsTrue(answered)
      /\ cursors' = IF call.op = "hop" /\ answered.status = "found"
                      THEN cursors \cup {landed}
                      ELSE cursors

Next == \E c \in Clients : Ask(c) \/ Answer(c)

Spec == Init /\ [][Next]_<<calls, cursors>>
=============================================================================
