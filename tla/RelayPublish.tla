----------------------------- MODULE RelayPublish -----------------------------
(***************************************************************************)
(* The revision half of keyit-relay's FileRelayStore                      *)
(* (src/crates/keyit-relay/src/lib.rs), for one environment of one         *)
(* project: several processes (relay workers, `keyit --relay-dir` CLIs)    *)
(* run publish_revision_checked on the same directory, `keyit-relay        *)
(* maintenance cleanup` runs beside them as a process of its own, and      *)
(* readers fetch the latest revision.  One action is one file-system call  *)
(* whose effect another process can see.                                   *)
(***************************************************************************)
EXTENDS Naturals, FiniteSets

CONSTANTS
  Publishers,     \* processes that publish
  Cleaners,       \* concurrent runs of maintenance cleanup
  Readers,        \* processes that fetch the latest revision
  Revisions,      \* revision ids
  NoRevision,     \* "no parent", "no latest file"
  Unbuilt,        \* mark of a revision no client has built yet
  Free,           \* the lock file does not exist
  Orphaned,       \* the lock file exists and the process that made it is gone
  MaxRevisions,   \* StoragePolicy.max_revisions_per_environment, 0 = no cap
  MaxLeftover,    \* bound: leftover temporary files in revisions/
  SlowHolders     \* may a live publish outlast CleanupPolicy.stale_lock_ttl?

ASSUME RelayAssumption ==
  /\ NoRevision \notin Revisions
  /\ Unbuilt \notin Revisions \cup {NoRevision}
  /\ Free \notin Publishers
  /\ Orphaned \notin Publishers \cup {Free}
  /\ MaxRevisions \in Nat
  /\ MaxLeftover \in Nat
  /\ SlowHolders \in BOOLEAN
  /\ IsFiniteSet(Revisions)

Parents == Revisions \cup {NoRevision}

VARIABLES
  pc,         \* what each publisher does next
  rev,        \* the revision it was asked to publish
  result,     \* the result it returns, or returned last
  parentOf,   \* built revision -> the parent_revision_id it names
  lock,       \* publish.lock: the process that created it
  stale,      \* is publish.lock older than stale_lock_ttl?
  revisions,  \* revisions/<id>.keyit
  payloads,   \* payloads/<id>.payload
  latest,     \* the latest file
  leftover,   \* how many temporary files are left behind in revisions/
  cleaner,    \* cleanup: "idle", or "doomed" once it decided to remove the lock
  pointer,    \* the pointer a fetch has read and not followed yet
  got,        \* what each reader's last fetch returned
  rank        \* history: at which place a revision became the latest

store == <<revisions, payloads, latest, leftover>>
readers == <<pointer, got>>
vars == <<pc, rev, result, parentOf, lock, stale, store, cleaner, readers, rank>>

Steps == {"idle", "acquire", "check", "quota", "revision", "payload",
          "latest", "unlock"}

(* Where a publisher is past the lock and past the check of the pointer. *)
Holding == {"check", "quota", "revision", "payload", "latest", "unlock"}
Writing == {"quota", "revision", "payload", "latest"}

TypeOK ==
  /\ pc \in [Publishers -> Steps]
  /\ rev \in [Publishers -> Parents]
  /\ \A p \in Publishers : pc[p] # "idle" => rev[p] \in Revisions
  /\ result \in [Publishers -> {"none", "ok", "busy", "conflict", "quota", "io"}]
  /\ parentOf \in [Revisions -> Parents \cup {Unbuilt}]
  /\ lock \in Publishers \cup {Free, Orphaned}
  /\ stale \in BOOLEAN
  /\ revisions \in SUBSET Revisions
  /\ payloads \in SUBSET Revisions
  /\ latest \in Parents
  /\ leftover \in Nat
  /\ cleaner \in [Cleaners -> {"idle", "doomed"}]
  /\ pointer \in [Readers -> Parents]
  /\ got \in [Readers -> Parents]
  /\ rank \in [Parents -> Nat]

Init ==
  /\ pc = [p \in Publishers |-> "idle"]
  /\ rev = [p \in Publishers |-> NoRevision]
  /\ result = [p \in Publishers |-> "none"]
  /\ parentOf = [r \in Revisions |-> Unbuilt]
  /\ lock = Free
  /\ stale = FALSE
  /\ revisions = {}
  /\ payloads = {}
  /\ latest = NoRevision
  /\ leftover = 0
  /\ cleaner = [c \in Cleaners |-> "idle"]
  /\ pointer = [d \in Readers |-> NoRevision]
  /\ got = [d \in Readers |-> NoRevision]
  /\ rank = [r \in Parents |-> 0]

Built == {r \in Revisions : parentOf[r] # Unbuilt}
Accepted == {r \in Revisions : rank[r] > 0}
Goto(p, step) == pc' = [pc EXCEPT ![p] = step]
Return(p, value) == result' = [result EXCEPT ![p] = value]

-------------------------------------------------------------------------------
(* Publishers *)

(***************************************************************************)
(* A publish is requested, either of a revision just built on something    *)
(* its author knew, or of one that an earlier attempt may have left        *)
(* unpublished.  The parent is part of the revision id, so a retry names   *)
(* the same parent.  Then the size checks and prepare_environment_layout.  *)
(***************************************************************************)
Request(p, r, parent) ==
  /\ pc[p] = "idle"
  /\ parent \in Built \cup {NoRevision}
  /\ parentOf[r] \in {Unbuilt, parent}
  /\ parentOf' = [parentOf EXCEPT ![r] = parent]
  /\ rev' = [rev EXCEPT ![p] = r]
  /\ Return(p, "none")
  /\ Goto(p, "acquire")
  /\ UNCHANGED <<lock, stale, store, cleaner, readers, rank>>

(* Fault: the lock file is overwritten. *)
AcquireIgnoringHolder(p) ==
  /\ pc[p] = "acquire"
  /\ lock' = p
  /\ stale' = FALSE
  /\ Goto(p, "check")
  /\ UNCHANGED <<rev, result, parentOf, store, cleaner, readers, rank>>

(* PublishLock::acquire: create_new either makes the lock file or fails. *)
Acquire(p) ==
  /\ pc[p] = "acquire"
  /\ lock = Free
  /\ lock' = p
  /\ stale' = FALSE
  /\ Goto(p, "check")
  /\ UNCHANGED <<rev, result, parentOf, store, cleaner, readers, rank>>

AcquireBusy(p) ==
  /\ pc[p] = "acquire"
  /\ lock # Free
  /\ Return(p, "busy")
  /\ Goto(p, "idle")
  /\ UNCHANGED <<rev, parentOf, lock, stale, store, cleaner, readers, rank>>

(* The file is created, write_all fails, and no guard exists to remove it. *)
AcquireFails(p) ==
  /\ pc[p] = "acquire"
  /\ lock = Free
  /\ lock' = Orphaned
  /\ stale' = FALSE
  /\ Return(p, "io")
  /\ Goto(p, "idle")
  /\ UNCHANGED <<rev, parentOf, store, cleaner, readers, rank>>

(* Fault: the pointer is never compared. *)
CheckAnyLatest(p) ==
  /\ pc[p] = "check"
  /\ Goto(p, "quota")
  /\ UNCHANGED <<rev, result, parentOf, lock, stale, store, cleaner, readers, rank>>

(* The compare half of compare-and-append: the pointer must be the parent. *)
CheckLatest(p) ==
  /\ pc[p] = "check"
  /\ IF latest = parentOf[rev[p]]
     THEN Goto(p, "quota") /\ UNCHANGED result
     ELSE Goto(p, "unlock") /\ Return(p, "conflict")
  /\ UNCHANGED <<rev, parentOf, lock, stale, store, cleaner, readers, rank>>

(* Fault: the cap compared with > instead of >=. *)
WithinQuotaOffByOne(r) ==
  \/ MaxRevisions = 0
  \/ r \in revisions
  \/ Cardinality(revisions) + leftover <= MaxRevisions

(***************************************************************************)
(* ensure_revision_quota: every regular file in revisions/ counts, the     *)
(* leftover temporary files and the revisions that never became the latest *)
(* among them.  Writing a file that exists is always allowed.              *)
(***************************************************************************)
WithinQuota(r) ==
  \/ MaxRevisions = 0
  \/ r \in revisions
  \/ Cardinality(revisions) + leftover < MaxRevisions

EnsureRevisionQuota(p) ==
  /\ pc[p] = "quota"
  /\ IF WithinQuota(rev[p])
     THEN Goto(p, "revision") /\ UNCHANGED result
     ELSE Goto(p, "unlock") /\ Return(p, "quota")
  /\ UNCHANGED <<rev, parentOf, lock, stale, store, cleaner, readers, rank>>

(* Fault: the pointer is written before the payload. *)
WriteRevisionWithoutPayload(p) ==
  /\ pc[p] = "revision"
  /\ revisions' = revisions \cup {rev[p]}
  /\ Goto(p, "latest")
  /\ UNCHANGED <<rev, result, parentOf, lock, stale, payloads, latest, leftover,
                 cleaner, readers, rank>>

(* write_locked_revision: three atomic_writes, the pointer last. *)
WriteRevision(p) ==
  /\ pc[p] = "revision"
  /\ revisions' = revisions \cup {rev[p]}
  /\ Goto(p, "payload")
  /\ UNCHANGED <<rev, result, parentOf, lock, stale, payloads, latest, leftover,
                 cleaner, readers, rank>>

WritePayload(p) ==
  /\ pc[p] = "payload"
  /\ payloads' = payloads \cup {rev[p]}
  /\ Goto(p, "latest")
  /\ UNCHANGED <<rev, result, parentOf, lock, stale, revisions, latest, leftover,
                 cleaner, readers, rank>>

WriteLatest(p) ==
  /\ pc[p] = "latest"
  /\ latest' = rev[p]
  /\ rank' = [rank EXCEPT ![rev[p]] = rank[latest] + 1]
  /\ Return(p, "ok")
  /\ Goto(p, "unlock")
  /\ UNCHANGED <<rev, parentOf, lock, stale, revisions, payloads, leftover,
                 cleaner, readers>>

(***************************************************************************)
(* atomic_write fails before its rename.  It leaves its temporary file if  *)
(* it got as far as making one; only those in revisions/ are ever counted. *)
(***************************************************************************)
WriteFails(p) ==
  /\ pc[p] \in {"revision", "payload", "latest"}
  /\ leftover' \in IF pc[p] = "revision" /\ leftover < MaxLeftover
                   THEN {leftover, leftover + 1} ELSE {leftover}
  /\ Return(p, "io")
  /\ Goto(p, "unlock")
  /\ UNCHANGED <<rev, parentOf, lock, stale, revisions, payloads, latest,
                 cleaner, readers, rank>>

(* Drop for PublishLock removes the file by its path, whoever created it. *)
Unlock(p) ==
  /\ pc[p] = "unlock"
  /\ lock' = Free
  /\ stale' = FALSE
  /\ Goto(p, "idle")
  /\ UNCHANGED <<rev, result, parentOf, store, cleaner, readers, rank>>

(* The process dies: its lock file stays, and so may a temporary file. *)
Crash(p) ==
  /\ pc[p] # "idle"
  /\ lock' = IF lock = p THEN Orphaned ELSE lock
  /\ leftover' \in IF pc[p] = "revision" /\ leftover < MaxLeftover
                   THEN {leftover, leftover + 1} ELSE {leftover}
  /\ Return(p, "none")
  /\ Goto(p, "idle")
  /\ UNCHANGED <<rev, parentOf, stale, revisions, payloads, latest,
                 cleaner, readers, rank>>

-------------------------------------------------------------------------------
(* Maintenance cleanup *)

(* The lock file gets older than stale_lock_ttl. *)
LockAges ==
  /\ lock # Free
  /\ ~stale
  /\ lock = Orphaned \/ SlowHolders
  /\ stale' = TRUE
  /\ UNCHANGED <<pc, rev, result, parentOf, lock, store, cleaner, readers, rank>>

(* Fault: the age of a lock file is not looked at. *)
CleanupDoomsAnyAge(c) ==
  /\ cleaner[c] = "idle"
  /\ lock # Free
  /\ cleaner' = [cleaner EXCEPT ![c] = "doomed"]
  /\ UNCHANGED <<pc, rev, result, parentOf, lock, stale, store, readers, rank>>

(* cleanup_dir first looks at the age of the file ... *)
CleanupDooms(c) ==
  /\ cleaner[c] = "idle"
  /\ lock # Free
  /\ stale
  /\ cleaner' = [cleaner EXCEPT ![c] = "doomed"]
  /\ UNCHANGED <<pc, rev, result, parentOf, lock, stale, store, readers, rank>>

(* Fault: a stale lock file is not removed. *)
CleanupKeepsLock(c) ==
  /\ cleaner[c] = "doomed"
  /\ cleaner' = [cleaner EXCEPT ![c] = "idle"]
  /\ UNCHANGED <<pc, rev, result, parentOf, lock, stale, store, readers, rank>>

(* ... and then removes whatever is at that path. *)
CleanupRemoves(c) ==
  /\ cleaner[c] = "doomed"
  /\ lock' = Free
  /\ stale' = FALSE
  /\ cleaner' = [cleaner EXCEPT ![c] = "idle"]
  /\ UNCHANGED <<pc, rev, result, parentOf, store, readers, rank>>

(* A leftover temporary file outlives temp_file_ttl and is removed. *)
CleanupTemp(c) ==
  /\ cleaner[c] = "idle"
  /\ leftover > 0
  /\ leftover' = leftover - 1
  /\ UNCHANGED <<pc, rev, result, parentOf, lock, stale, revisions, payloads,
                 latest, cleaner, readers, rank>>

-------------------------------------------------------------------------------
(* Readers: fetch_latest_revision reads the pointer, then the object *)

FetchPointer(d) ==
  /\ pointer[d] = NoRevision
  /\ latest # NoRevision
  /\ pointer' = [pointer EXCEPT ![d] = latest]
  /\ UNCHANGED <<pc, rev, result, parentOf, lock, stale, store, cleaner, got, rank>>

FetchObject(d) ==
  /\ pointer[d] # NoRevision
  /\ pointer' = [pointer EXCEPT ![d] = NoRevision]
  /\ got' = [got EXCEPT ![d] = IF pointer[d] \in revisions THEN pointer[d]
                               ELSE NoRevision]
  /\ UNCHANGED <<pc, rev, result, parentOf, lock, stale, store, cleaner, rank>>

-------------------------------------------------------------------------------
Publish(p) ==
  \/ Acquire(p) \/ AcquireBusy(p) \/ AcquireFails(p)
  \/ CheckLatest(p) \/ EnsureRevisionQuota(p)
  \/ WriteRevision(p) \/ WritePayload(p) \/ WriteLatest(p)
  \/ WriteFails(p) \/ Unlock(p)

Cleanup(c) == CleanupDooms(c) \/ CleanupRemoves(c) \/ CleanupTemp(c)

Next ==
  \/ \E p \in Publishers :
       \/ \E r \in Revisions, parent \in Parents : Request(p, r, parent)
       \/ Publish(p)
       \/ Crash(p)
  \/ LockAges
  \/ \E c \in Cleaners : Cleanup(c)
  \/ \E d \in Readers : FetchPointer(d) \/ FetchObject(d)

Spec == Init /\ [][Next]_vars

(***************************************************************************)
(* A publish that has started runs on unless its process crashes (nothing  *)
(* in it waits), files get older, and cleanup runs from a timer.           *)
(***************************************************************************)
FairSpec ==
  /\ Spec
  /\ \A p \in Publishers : WF_vars(Publish(p))
  /\ WF_vars(LockAges)
  /\ \A c \in Cleaners : WF_vars(CleanupDooms(c)) /\ WF_vars(CleanupRemoves(c))

-------------------------------------------------------------------------------
(* Properties *)

(***************************************************************************)
(* From the check of the latest pointer until the pointer is written, the  *)
(* publisher's own lock file is in place ("per-environment publish lock    *)
(* during latest-pointer conflict checks and writes",                      *)
(* docs/relay-production.md), so no two publishers are there at once.      *)
(***************************************************************************)
LockedWhileWriting == \A p \in Publishers : pc[p] \in Holding => lock = p

(***************************************************************************)
(* The pointers ever written form one chain: each names as its parent the  *)
(* one it replaced, no place is taken twice, and the latest is the last.   *)
(***************************************************************************)
LinearHistory ==
  /\ \A r \in Accepted :
       /\ parentOf[r] \in Accepted \cup {NoRevision}
       /\ rank[r] = rank[parentOf[r]] + 1
       /\ rank[r] <= rank[latest]
  /\ \A r, s \in Accepted : rank[r] = rank[s] => r = s
  /\ rank[NoRevision] = 0

(* The revisions on the way from r back to the first one: what is in every *)
(* set that has r and the parents of its revisions.                        *)
HasParents(S) == \A s \in S \cap Built : parentOf[s] \in S

Ancestry(r) ==
  {a \in Parents : \A S \in SUBSET Parents : r \in S /\ HasParents(S) => a \in S}

(***************************************************************************)
(* A revision a publisher was told "ok" for is, ever after, the latest or  *)
(* an ancestor of the latest: nobody's accepted push is overwritten.       *)
(***************************************************************************)
AcceptedNeverLost == Accepted \subseteq Ancestry(latest)

(***************************************************************************)
(* verify_integrity, taken at one moment: the files of revisions/ that are *)
(* no envelope of the revision in their name, which only temporary files   *)
(* are as objects appear by a rename, and the revisions without a payload. *)
(***************************************************************************)
IntegrityReport ==
  [malformed_revisions |-> leftover, missing_payloads |-> revisions \ payloads]

(***************************************************************************)
(* What the latest file names is complete on disk, and so is everything it *)
(* named before, wherever a publish crashed or failed: what the integrity  *)
(* report of `keyit-relay maintenance inspect` complains of was never      *)
(* accepted.                                                               *)
(***************************************************************************)
LatestComplete ==
  /\ latest # NoRevision => rank[latest] > 0
  /\ Accepted \subseteq revisions \ IntegrityReport.missing_payloads

(* The revision cap holds whatever overlaps, fails and is retried. *)
QuotaHolds == MaxRevisions > 0 => Cardinality(revisions) <= MaxRevisions

(***************************************************************************)
(* A reader that fetches twice never moves back or sideways: what it gets  *)
(* descends from what it got before; and the object is always there.       *)
(***************************************************************************)
FetchesMoveForward ==
  [][\A d \in Readers :
       pointer[d] # NoRevision /\ pointer'[d] = NoRevision =>
         \E r \in Revisions : got'[d] = r /\ got[d] \in Ancestry(r)]_vars

(***************************************************************************)
(* The inductive invariant behind the properties above, when no live       *)
(* publish outlasts the lock ttl and one cleanup runs at a time: only a    *)
(* dead creator's lock ages or is doomed, and under its own lock a         *)
(* publisher's view of the pointer and of its written files stays true.    *)
(***************************************************************************)
Timely == ~SlowHolders /\ \A c, d \in Cleaners : c = d

OnlyOrphansDoomed ==
  /\ stale => lock = Orphaned
  /\ \A c \in Cleaners : cleaner[c] = "doomed" => lock = Orphaned /\ stale

ViewHolds ==
  \A p \in Publishers :
    /\ pc[p] # "idle" => rev[p] \in Built
    /\ pc[p] \in Writing => parentOf[rev[p]] = latest
    /\ pc[p] \in {"payload", "latest"} => rev[p] \in revisions
    /\ pc[p] = "latest" => rev[p] \in payloads

PublishInv ==
  /\ TypeOK
  /\ OnlyOrphansDoomed
  /\ LockedWhileWriting
  /\ ViewHolds
  /\ LinearHistory
  /\ LatestComplete

(***************************************************************************)
(* A lock file never stays for good, even when its creator died: what      *)
(* cleanup of stale publish locks is for.                                  *)
(***************************************************************************)
LockIsFreed == (lock # Free) ~> (lock = Free)

(***************************************************************************)
(* The protocol implements the abstract log: the pointer is the head, and  *)
(* writing it is the one step that accepts a revision.                     *)
(***************************************************************************)
Log == INSTANCE RevisionLog WITH
         Unaccepted <- Unbuilt,
         head <- latest,
         log <- [r \in Revisions |-> IF rank[r] > 0 THEN parentOf[r] ELSE Unbuilt]

RefinesRevisionLog == Log!Spec
===============================================================================
