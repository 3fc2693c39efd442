----------------------------- MODULE RevisionLog -----------------------------
(***************************************************************************)
(* What the relay promises about one environment of one project: an       *)
(* append-only history of revisions in which every accepted revision      *)
(* extends the one that was the latest when it was accepted.  There are no *)
(* locks, files or processes here: accepting a revision is one step.       *)
(* RelayPublish is the file-system protocol that implements it.            *)
(***************************************************************************)
CONSTANTS
  Revisions,    \* revision ids
  NoRevision,   \* the parent of a first revision, the head of an empty log
  Unaccepted    \* mark of a revision that is not in the log

VARIABLES
  head,         \* the latest accepted revision
  log           \* accepted revision -> the revision it extends

logVars == <<head, log>>

Accepted == {r \in Revisions : log[r] # Unaccepted}

TypeOK ==
  /\ head \in Revisions \cup {NoRevision}
  /\ log \in [Revisions -> Revisions \cup {NoRevision, Unaccepted}]

Init ==
  /\ head = NoRevision
  /\ log = [r \in Revisions |-> Unaccepted]

(* A revision built on the head becomes the head. *)
Accept(r) ==
  /\ log[r] = Unaccepted
  /\ log' = [log EXCEPT ![r] = head]
  /\ head' = r

Next == \E r \in Revisions : Accept(r)

Spec == Init /\ [][Next]_logVars

(***************************************************************************)
(* No two accepted revisions extend the same revision, and none extends    *)
(* the head: the history never forks, so nobody's accepted work is left    *)
(* on a branch that the head does not contain.                             *)
(***************************************************************************)
Unforked ==
  /\ \A r, s \in Accepted : log[r] = log[s] => r = s
  /\ \A r \in Accepted : log[r] # head
  /\ \A r \in Accepted : log[r] \in Accepted \cup {NoRevision}
  /\ head \in Accepted \cup {NoRevision}
==============================================================================
