-------------------------- MODULE RelayPublishProofs --------------------------
(***************************************************************************)
(* For every number of publishers, readers, revisions and every cap: the   *)
(* publish protocol keeps its types always, and, when no live publish      *)
(* outlasts the lock ttl and one cleanup runs at a time (Timely), keeps    *)
(* its lock, its linear history, its complete latest revision, and         *)
(* implements RevisionLog.                                                 *)
(***************************************************************************)
EXTENDS RelayPublish, FiniteSetTheorems, TLAPS

USE DEF store, readers, Goto, Return, IntegrityReport

(***************************************************************************)
(* Every variable keeps its type, with or without the timing assumption.   *)
(***************************************************************************)
LEMMA TypeInit == Init => TypeOK
<1> SUFFICES ASSUME Init PROVE TypeOK
  OBVIOUS
<1> USE RelayAssumption DEF Init, Parents, Steps
<1>1. pc \in [Publishers -> Steps] /\ rev \in [Publishers -> Parents]
  OBVIOUS
<1>2. \A p \in Publishers : pc[p] # "idle" => rev[p] \in Revisions
  OBVIOUS
<1>3. result \in [Publishers -> {"none", "ok", "busy", "conflict", "quota", "io"}]
  OBVIOUS
<1>4. parentOf \in [Revisions -> Parents \cup {Unbuilt}] /\ rank \in [Parents -> Nat]
  OBVIOUS
<1>5. cleaner \in [Cleaners -> {"idle", "doomed"}]
  OBVIOUS
<1>6. pointer \in [Readers -> Parents] /\ got \in [Readers -> Parents]
  OBVIOUS
<1>7. leftover \in Nat /\ revisions \in SUBSET Revisions /\ payloads \in SUBSET Revisions
  OBVIOUS
<1> QED
  BY <1>1, <1>2, <1>3, <1>4, <1>5, <1>6, <1>7 DEF TypeOK

LEMMA TypeStep == TypeOK /\ [Next]_vars => TypeOK'
<1> SUFFICES ASSUME TypeOK, [Next]_vars PROVE TypeOK'
  OBVIOUS
<1> USE DEF TypeOK, Parents, Steps, Built
<1>1. ASSUME NEW p \in Publishers, NEW r \in Revisions, NEW parent \in Parents,
             Request(p, r, parent)
      PROVE  TypeOK'
  BY <1>1 DEF Request
<1>2. ASSUME NEW p \in Publishers, Acquire(p) PROVE TypeOK'
  BY <1>2 DEF Acquire
<1>3. ASSUME NEW p \in Publishers, AcquireBusy(p) PROVE TypeOK'
  BY <1>3 DEF AcquireBusy
<1>4. ASSUME NEW p \in Publishers, AcquireFails(p) PROVE TypeOK'
  BY <1>4 DEF AcquireFails
<1>5. ASSUME NEW p \in Publishers, CheckLatest(p) PROVE TypeOK'
  BY <1>5 DEF CheckLatest
<1>6. ASSUME NEW p \in Publishers, EnsureRevisionQuota(p) PROVE TypeOK'
  BY <1>6 DEF EnsureRevisionQuota
<1>7. ASSUME NEW p \in Publishers, WriteRevision(p) PROVE TypeOK'
  BY <1>7 DEF WriteRevision
<1>8. ASSUME NEW p \in Publishers, WritePayload(p) PROVE TypeOK'
  BY <1>8 DEF WritePayload
<1>9. ASSUME NEW p \in Publishers, WriteLatest(p) PROVE TypeOK'
  BY <1>9 DEF WriteLatest
<1>10. ASSUME NEW p \in Publishers, WriteFails(p) PROVE TypeOK'
  BY <1>10 DEF WriteFails
<1>11. ASSUME NEW p \in Publishers, Unlock(p) PROVE TypeOK'
  BY <1>11 DEF Unlock
<1>12. ASSUME NEW p \in Publishers, Crash(p) PROVE TypeOK'
  BY <1>12 DEF Crash
<1>13. CASE LockAges
  BY <1>13 DEF LockAges
<1>14. ASSUME NEW c \in Cleaners, Cleanup(c) PROVE TypeOK'
  <2>1. CASE CleanupDooms(c)
    BY <2>1 DEF CleanupDooms
  <2>2. CASE CleanupRemoves(c)
    BY <2>2 DEF CleanupRemoves
  <2>3. CASE CleanupTemp(c)
    BY <2>3 DEF CleanupTemp
  <2> QED
    BY <1>14, <2>1, <2>2, <2>3 DEF Cleanup
<1>15. ASSUME NEW d \in Readers, FetchPointer(d) \/ FetchObject(d) PROVE TypeOK'
  BY <1>15 DEF FetchPointer, FetchObject
<1>16. CASE UNCHANGED vars
  BY <1>16 DEF vars
<1> QED
  BY <1>1, <1>2, <1>3, <1>4, <1>5, <1>6, <1>7, <1>8, <1>9, <1>10, <1>11, <1>12,
     <1>13, <1>14, <1>15, <1>16 DEF Next, Publish

THEOREM RelayTypeCorrect == Spec => []TypeOK
  BY TypeInit, TypeStep, PTL DEF Spec

-------------------------------------------------------------------------------
(***************************************************************************)
(* The invariant.  What each action can disturb is proved under that       *)
(* action; a step that leaves the variables of a part alone keeps it.      *)
(***************************************************************************)
LEMMA InvInit == Init => PublishInv
  BY TypeInit DEF Init, PublishInv, OnlyOrphansDoomed, LockedWhileWriting,
     ViewHolds, LinearHistory, LatestComplete, Accepted, Holding, Writing, Parents

(* The lock part of the invariant holds after every step of the protocol. *)
LEMMA LockStep ==
  ASSUME Timely, PublishInv, [Next]_vars
  PROVE  (OnlyOrphansDoomed /\ LockedWhileWriting)'
<1> USE RelayAssumption DEF Timely, PublishInv, TypeOK, OnlyOrphansDoomed,
        LockedWhileWriting, Holding, Steps
<1> DEFINE Goal == OnlyOrphansDoomed /\ LockedWhileWriting
<1>1. ASSUME NEW p \in Publishers, NEW r \in Revisions, NEW parent \in Parents,
             Request(p, r, parent)
      PROVE  Goal'
  BY <1>1 DEF Request
<1>2. ASSUME NEW p \in Publishers, Acquire(p) PROVE Goal'
  BY <1>2 DEF Acquire
<1>3. ASSUME NEW p \in Publishers, AcquireBusy(p) PROVE Goal'
  BY <1>3 DEF AcquireBusy
<1>4. ASSUME NEW p \in Publishers, AcquireFails(p) PROVE Goal'
  BY <1>4 DEF AcquireFails
<1>5. ASSUME NEW p \in Publishers, CheckLatest(p) PROVE Goal'
  BY <1>5 DEF CheckLatest
<1>6. ASSUME NEW p \in Publishers, EnsureRevisionQuota(p) PROVE Goal'
  BY <1>6 DEF EnsureRevisionQuota
<1>7. ASSUME NEW p \in Publishers,
             WriteRevision(p) \/ WritePayload(p) \/ WriteLatest(p) \/ WriteFails(p)
      PROVE  Goal'
  BY <1>7 DEF WriteRevision, WritePayload, WriteLatest, WriteFails
<1>8. ASSUME NEW p \in Publishers, Unlock(p) PROVE Goal'
  BY <1>8 DEF Unlock
<1>9. ASSUME NEW p \in Publishers, Crash(p) PROVE Goal'
  BY <1>9 DEF Crash
<1>10. CASE LockAges
  BY <1>10 DEF LockAges
<1>11. ASSUME NEW c \in Cleaners, Cleanup(c) PROVE Goal'
  BY <1>11 DEF Cleanup, CleanupDooms, CleanupRemoves, CleanupTemp
<1>12. ASSUME NEW d \in Readers, FetchPointer(d) \/ FetchObject(d) PROVE Goal'
  BY <1>12 DEF FetchPointer, FetchObject
<1>13. CASE UNCHANGED vars
  BY <1>13 DEF vars
<1> QED
  BY <1>1, <1>2, <1>3, <1>4, <1>5, <1>6, <1>7, <1>8, <1>9, <1>10, <1>11, <1>12,
     <1>13 DEF Next, Publish

(***************************************************************************)
(* Whoever checked the pointer is alone until it unlocks, so when it       *)
(* writes the pointer the parent it names is still the latest; that parent *)
(* is the last place of the history, so the revision has none yet.         *)
(***************************************************************************)
LEMMA NewestPlace ==
  ASSUME PublishInv, NEW p \in Publishers, pc[p] \in Writing
  PROVE  /\ parentOf[rev[p]] = latest
         /\ rev[p] \in Revisions
         /\ rank[rev[p]] = 0
         /\ rev[p] # latest
         /\ latest \in Accepted \cup {NoRevision}
<1>1. /\ parentOf[rev[p]] = latest
      /\ rev[p] \in Revisions
      /\ latest \in Accepted \cup {NoRevision}
  BY DEF PublishInv, TypeOK, ViewHolds, Writing, LatestComplete, Accepted, Parents
<1>2. rank[rev[p]] = 0
  <2>1. rank[rev[p]] \in Nat /\ rank[latest] \in Nat
    BY <1>1 DEF PublishInv, TypeOK, Parents
  <2>2. ~(rank[rev[p]] = rank[latest] + 1 /\ rank[rev[p]] <= rank[latest])
    BY <2>1
  <2> QED
    BY <1>1, <2>1, <2>2 DEF PublishInv, LinearHistory, Accepted
<1>3. rev[p] # latest
  BY <1>1, <1>2, RelayAssumption DEF Accepted
<1> QED
  BY <1>1, <1>2, <1>3

(* The history part of the invariant holds after every step. *)
LEMMA HistoryStep ==
  ASSUME PublishInv, [Next]_vars
  PROVE  (ViewHolds /\ LinearHistory /\ LatestComplete)'
<1> DEFINE Hist == LinearHistory /\ LatestComplete
           Kept == UNCHANGED <<parentOf, revisions, payloads, latest, rank>>
<1> USE RelayAssumption DEF Parents
<1>0. ASSUME Kept PROVE Hist'
  BY <1>0 DEF PublishInv, LinearHistory, LatestComplete, Accepted
<1>1. ASSUME NEW p \in Publishers, NEW r \in Revisions, NEW parent \in Parents,
             Request(p, r, parent)
      PROVE  (ViewHolds /\ Hist)'
  <2>1. \A s \in Built : s \in Built' /\ parentOf'[s] = parentOf[s]
    BY <1>1 DEF Request, Built, PublishInv, TypeOK
  <2>2. r \in Built'
    BY <1>1 DEF Request, Built, PublishInv, TypeOK
  <2>3. Accepted \subseteq Built
    BY DEF Built, PublishInv, LinearHistory, Accepted
  <2>4. ViewHolds'
    BY <1>1, <2>1, <2>2 DEF Request, ViewHolds, PublishInv, TypeOK, Writing
  <2>5. Hist'
    BY <1>1, <2>1, <2>3 DEF Request, LinearHistory, LatestComplete, Accepted, PublishInv
  <2> QED
    BY <2>4, <2>5
<1>2. ASSUME NEW p \in Publishers,
             \/ Acquire(p) \/ AcquireBusy(p) \/ AcquireFails(p) \/ CheckLatest(p)
             \/ EnsureRevisionQuota(p) \/ WriteFails(p) \/ Unlock(p) \/ Crash(p)
      PROVE  (ViewHolds /\ Hist)'
  <2>1. Kept
    BY <1>2 DEF Acquire, AcquireBusy, AcquireFails, CheckLatest,
       EnsureRevisionQuota, WriteFails, Unlock, Crash
  <2>2. ViewHolds'
    BY <1>2, <2>1 DEF Acquire, AcquireBusy, AcquireFails, CheckLatest,
       EnsureRevisionQuota, WriteFails, Unlock, Crash, ViewHolds, PublishInv,
       TypeOK, Writing, Built
  <2> QED
    BY <1>0, <2>1, <2>2
<1>3. ASSUME NEW p \in Publishers, WriteRevision(p) \/ WritePayload(p)
      PROVE  (ViewHolds /\ Hist)'
  <2>1. /\ UNCHANGED <<parentOf, latest, rank>>
        /\ revisions \subseteq revisions'
        /\ payloads \subseteq payloads'
    BY <1>3 DEF WriteRevision, WritePayload
  <2>2. ViewHolds'
    BY <1>3, <2>1 DEF WriteRevision, WritePayload, ViewHolds, PublishInv,
       TypeOK, Writing, Built
  <2>3. Hist'
    BY <2>1 DEF PublishInv, LinearHistory, LatestComplete, Accepted
  <2> QED
    BY <2>2, <2>3
<1>4. ASSUME NEW p \in Publishers, WriteLatest(p)
      PROVE  (ViewHolds /\ Hist)'
  <2>1. /\ pc[p] = "latest"
        /\ latest' = rev[p]
        /\ rank' = [rank EXCEPT ![rev[p]] = rank[latest] + 1]
        /\ pc' = [pc EXCEPT ![p] = "unlock"]
        /\ UNCHANGED <<rev, parentOf, revisions, payloads>>
    BY <1>4 DEF WriteLatest
  <2>2. /\ parentOf[rev[p]] = latest
        /\ rev[p] \in Revisions
        /\ rank[rev[p]] = 0
        /\ rev[p] # latest
        /\ latest \in Accepted \cup {NoRevision}
    BY <2>1, NewestPlace DEF Writing
  <2>3. rank \in [Parents -> Nat] /\ latest \in Parents
    BY DEF PublishInv, TypeOK
  <2>4. /\ rank'[rev[p]] = rank[latest] + 1
        /\ \A s \in Parents : s # rev[p] => rank'[s] = rank[s]
        /\ Accepted' = Accepted \cup {rev[p]}
    BY <2>1, <2>2, <2>3 DEF Accepted
  <2>5. \A s \in Accepted : s # rev[p] /\ parentOf[s] # rev[p] /\ parentOf[s] \in Parents
    BY <2>2 DEF PublishInv, LinearHistory, Accepted
  <2>6. LinearHistory'
    <3>1. rev[p] # NoRevision /\ rank'[latest] = rank[latest] /\ rank[NoRevision] = 0
      BY <2>2, <2>3, <2>4 DEF PublishInv, LinearHistory
    <3>2. \A s \in Accepted : /\ rank[s] = rank[parentOf[s]] + 1
                              /\ rank[s] <= rank[latest]
                              /\ parentOf[s] \in Accepted \cup {NoRevision}
      BY DEF PublishInv, LinearHistory
    <3>3. \A s \in Accepted' :
             /\ parentOf'[s] \in Accepted' \cup {NoRevision}
             /\ rank'[s] = rank'[parentOf'[s]] + 1
             /\ rank'[s] <= rank'[latest']
      BY <2>1, <2>2, <2>3, <2>4, <2>5, <3>1, <3>2 DEF Accepted
    <3>4. \A s, t \in Accepted' : rank'[s] = rank'[t] => s = t
      BY <2>2, <2>3, <2>4, <2>5, <3>2 DEF PublishInv, LinearHistory, Accepted
    <3> QED
      BY <2>4, <3>1, <3>3, <3>4 DEF LinearHistory
  <2>7. LatestComplete'
    BY <2>1, <2>2, <2>3, <2>4 DEF PublishInv, LatestComplete, ViewHolds
  <2>8. \A q \in Publishers : q # p => pc[q] \notin Writing
    BY <2>1 DEF PublishInv, LockedWhileWriting, Holding, Writing
  <2>9. ViewHolds'
    BY <2>1, <2>8 DEF PublishInv, TypeOK, ViewHolds, Writing, Built
  <2> QED
    BY <2>6, <2>7, <2>9
<1>5. CASE \/ LockAges
           \/ \E c \in Cleaners : Cleanup(c)
           \/ \E d \in Readers : FetchPointer(d) \/ FetchObject(d)
           \/ UNCHANGED vars
  <2>1. Kept /\ UNCHANGED <<pc, rev>>
    BY <1>5 DEF LockAges, Cleanup, CleanupDooms, CleanupRemoves, CleanupTemp,
       FetchPointer, FetchObject, vars
  <2>2. ViewHolds'
    BY <2>1 DEF PublishInv, ViewHolds, Built
  <2> QED
    BY <1>0, <2>1, <2>2
<1> QED
  BY <1>1, <1>2, <1>3, <1>4, <1>5 DEF Next, Publish

(***************************************************************************)
(* The protocol's invariant: its lock is in place from the check of the    *)
(* pointer to its write, the pointers written form one chain, and          *)
(* everything the pointer ever named is complete on disk.                  *)
(***************************************************************************)
THEOREM RelayInvariant == ASSUME Timely PROVE Spec => []PublishInv
<1>1. Init => PublishInv
  BY InvInit
<1>2. PublishInv /\ [Next]_vars => PublishInv'
  <2> SUFFICES ASSUME PublishInv, [Next]_vars PROVE PublishInv'
    OBVIOUS
  <2>1. TypeOK'
    BY TypeStep DEF PublishInv
  <2>2. (OnlyOrphansDoomed /\ LockedWhileWriting)'
    BY LockStep
  <2>3. (ViewHolds /\ LinearHistory /\ LatestComplete)'
    BY HistoryStep
  <2> QED
    BY <2>1, <2>2, <2>3 DEF PublishInv
<1> QED
  BY <1>1, <1>2, PTL DEF Spec

(* The publish lock is in place from the check of the pointer to its write. *)
THEOREM LockAlwaysHeld == ASSUME Timely PROVE Spec => []LockedWhileWriting
<1>1. PublishInv => LockedWhileWriting
  BY DEF PublishInv
<1> QED
  BY <1>1, RelayInvariant, PTL

(* The pointers ever written form one chain that ends in the latest. *)
THEOREM HistoryStaysLinear == ASSUME Timely PROVE Spec => []LinearHistory
<1>1. PublishInv => LinearHistory
  BY DEF PublishInv
<1> QED
  BY <1>1, RelayInvariant, PTL

(* Whatever crashes, the latest file names a revision that is all on disk. *)
THEOREM LatestAlwaysComplete == ASSUME Timely PROVE Spec => []LatestComplete
<1>1. PublishInv => LatestComplete
  BY DEF PublishInv
<1> QED
  BY <1>1, RelayInvariant, PTL

-------------------------------------------------------------------------------
(***************************************************************************)
(* The revision cap.  A publisher that the count let through still finds   *)
(* room when it writes, because nobody else writes under its lock.         *)
(***************************************************************************)
Room ==
  \A p \in Publishers :
    pc[p] = "revision" /\ MaxRevisions > 0 =>
      rev[p] \in revisions \/ Cardinality(revisions) < MaxRevisions

LEMMA CountedRevisions ==
  ASSUME TypeOK
  PROVE  IsFiniteSet(revisions) /\ Cardinality(revisions) \in Nat
  BY FS_Subset, FS_CardinalityType, RelayAssumption DEF TypeOK

LEMMA QuotaStep ==
  ASSUME PublishInv, Room, QuotaHolds, [Next]_vars
  PROVE  (Room /\ QuotaHolds)'
<1> USE DEF PublishInv, TypeOK, Room, QuotaHolds, Steps, Parents
<1>1. IsFiniteSet(revisions) /\ Cardinality(revisions) \in Nat
  BY CountedRevisions
<1>2. ASSUME NEW p \in Publishers, EnsureRevisionQuota(p)
      PROVE  (Room /\ QuotaHolds)'
  <2>1. WithinQuota(rev[p]) => \/ MaxRevisions = 0
                              \/ rev[p] \in revisions
                              \/ Cardinality(revisions) < MaxRevisions
    BY <1>1, RelayAssumption DEF WithinQuota
  <2> QED
    BY <1>2, <2>1 DEF EnsureRevisionQuota
<1>3. ASSUME NEW p \in Publishers, WriteRevision(p)
      PROVE  (Room /\ QuotaHolds)'
  <2>1. /\ pc[p] = "revision"
        /\ pc' = [pc EXCEPT ![p] = "payload"]
        /\ revisions' = revisions \cup {rev[p]}
    BY <1>3 DEF WriteRevision
  <2>2. Cardinality(revisions') = IF rev[p] \in revisions THEN Cardinality(revisions)
                                  ELSE Cardinality(revisions) + 1
    BY <1>1, <2>1, FS_AddElement
  <2>3. QuotaHolds'
    BY <1>1, <2>1, <2>2, RelayAssumption
  <2>4. \A q \in Publishers : pc'[q] # "revision"
    BY <2>1 DEF LockedWhileWriting, Holding
  <2> QED
    BY <2>3, <2>4
<1>4. ASSUME NEW p \in Publishers,
             \/ \E r \in Revisions, parent \in Parents : Request(p, r, parent)
             \/ Acquire(p) \/ AcquireBusy(p) \/ AcquireFails(p) \/ CheckLatest(p)
             \/ WritePayload(p) \/ WriteLatest(p) \/ WriteFails(p) \/ Unlock(p)
             \/ Crash(p)
      PROVE  (Room /\ QuotaHolds)'
  <2>1. /\ revisions' = revisions
        /\ \A q \in Publishers : pc'[q] = "revision" => pc[q] = "revision" /\ rev'[q] = rev[q]
    BY <1>4 DEF Request, Acquire, AcquireBusy, AcquireFails, CheckLatest,
       WritePayload, WriteLatest, WriteFails, Unlock, Crash
  <2> QED
    BY <2>1
<1>5. CASE \/ LockAges
           \/ \E c \in Cleaners : Cleanup(c)
           \/ \E d \in Readers : FetchPointer(d) \/ FetchObject(d)
           \/ UNCHANGED vars
  BY <1>5 DEF LockAges, Cleanup, CleanupDooms, CleanupRemoves, CleanupTemp,
     FetchPointer, FetchObject, vars
<1> QED
  BY <1>2, <1>3, <1>4, <1>5 DEF Next, Publish

(***************************************************************************)
(* max_revisions_per_environment is never exceeded, whatever overlaps,     *)
(* fails, crashes and is retried.                                          *)
(***************************************************************************)
THEOREM QuotaAlwaysHolds == ASSUME Timely PROVE Spec => []QuotaHolds
<1>1. Init => Room /\ QuotaHolds
  BY FS_EmptySet, RelayAssumption DEF Init, Room, QuotaHolds
<1>2. PublishInv /\ Room /\ QuotaHolds /\ [Next]_vars => (Room /\ QuotaHolds)'
  BY QuotaStep
<1> QED
  BY <1>1, <1>2, RelayInvariant, PTL DEF Spec

-------------------------------------------------------------------------------
(***************************************************************************)
(* Ancestors.  Ancestry is a least set, so that what a step does to it     *)
(* follows from the step alone: parents of built revisions never change,   *)
(* and the pointer only moves to a revision whose parent it named.         *)
(***************************************************************************)
LEMMA AncestryStays ==
  ASSUME \A s \in Built : s \in Built' /\ parentOf'[s] = parentOf[s],
         NEW r
  PROVE  Ancestry(r) \subseteq Ancestry(r)'
<1> SUFFICES ASSUME NEW a \in Ancestry(r), NEW S \in SUBSET Parents,
                    r \in S, HasParents(S)'
             PROVE  a \in S
  BY DEF Ancestry, Parents
<1>1. HasParents(S)
  BY DEF HasParents
<1> QED
  BY <1>1 DEF Ancestry

LEMMA AncestryOfChild ==
  ASSUME NEW r \in Built, parentOf[r] \in Parents
  PROVE  /\ Ancestry(parentOf[r]) \subseteq Ancestry(r)
         /\ r \in Ancestry(r)
<1>1. ASSUME NEW a \in Ancestry(parentOf[r]), NEW S \in SUBSET Parents,
             r \in S, HasParents(S)
      PROVE  a \in S
  <2>1. parentOf[r] \in S
    BY <1>1 DEF HasParents
  <2> QED
    BY <1>1, <2>1 DEF Ancestry
<1>2. r \in Parents
  BY DEF Built, Parents
<1> QED
  BY <1>1, <1>2 DEF Ancestry

(* No step takes a built revision's parent away.                           *)
LEMMA BuiltStays ==
  ASSUME TypeOK, [Next]_vars
  PROVE  \A s \in Built : s \in Built' /\ parentOf'[s] = parentOf[s]
<1> USE RelayAssumption DEF TypeOK, Built
<1>1. ASSUME NEW p \in Publishers, NEW r \in Revisions, NEW parent \in Parents,
             Request(p, r, parent)
      PROVE  \A s \in Built : s \in Built' /\ parentOf'[s] = parentOf[s]
  BY <1>1 DEF Request, Parents
<1>2. CASE UNCHANGED parentOf
  BY <1>2
<1> QED
  BY <1>1, <1>2 DEF Next, Publish, Cleanup, Acquire, AcquireBusy, AcquireFails, CheckLatest,
     EnsureRevisionQuota, WriteRevision, WritePayload, WriteLatest, WriteFails, Unlock,
     Crash, LockAges, CleanupDooms, CleanupRemoves, CleanupTemp, FetchPointer,
     FetchObject, vars

(***************************************************************************)
(* The pointer's ancestry has everything that was ever accepted or read,   *)
(* and the ancestry of what a fetch is about to return has what its reader *)
(* got before.                                                             *)
(***************************************************************************)
AncestryInv ==
  /\ AcceptedNeverLost
  /\ {NoRevision, latest} \subseteq Ancestry(latest)
  /\ \A d \in Readers :
       /\ pointer[d] \in Accepted \cup {NoRevision}
       /\ {got[d], pointer[d]} \subseteq Ancestry(latest)
       /\ pointer[d] # NoRevision => got[d] \in Ancestry(pointer[d])

LEMMA AncestryStep ==
  ASSUME PublishInv, AncestryInv, [Next]_vars
  PROVE  AncestryInv'
<1> USE DEF AcceptedNeverLost
<1>1. \A r : Ancestry(r) \subseteq Ancestry(r)'
  BY BuiltStays, AncestryStays DEF PublishInv
<1>2. ASSUME UNCHANGED <<latest, rank, readers>> PROVE AncestryInv'
  BY <1>1, <1>2 DEF AncestryInv, Accepted
<1>3. ASSUME NEW p \in Publishers, WriteLatest(p) PROVE AncestryInv'
  <2>1. /\ latest' = rev[p]
        /\ rank' = [rank EXCEPT ![rev[p]] = rank[latest] + 1]
        /\ UNCHANGED readers
        /\ pc[p] \in Writing
    BY <1>3 DEF WriteLatest, Writing
  <2>2. /\ parentOf[rev[p]] = latest
        /\ rev[p] \in Built
        /\ latest \in Parents
    BY <2>1, NewestPlace, RelayAssumption DEF PublishInv, TypeOK, Built, Parents
  <2>3. /\ Ancestry(latest) \subseteq Ancestry(rev[p])
        /\ rev[p] \in Ancestry(rev[p])
    BY <2>2, AncestryOfChild
  <2>4. PICK new : new = rev[p]
    OBVIOUS
  <2>5. /\ latest' = new
        /\ Ancestry(latest) \subseteq Ancestry(new)'
        /\ new \in Ancestry(new)'
    BY <1>1, <2>1, <2>3, <2>4
  <2>6. Ancestry(latest) \subseteq Ancestry(latest)' /\ latest' \in Ancestry(latest)'
    BY <2>5
  <2>7. Accepted' \subseteq Accepted \cup {latest'} /\ Accepted \subseteq Accepted'
    BY <2>1, <2>2 DEF Accepted, PublishInv, TypeOK, Built, Parents
  <2> QED
    BY <1>1, <2>1, <2>6, <2>7 DEF AncestryInv
<1>4. ASSUME NEW d \in Readers, FetchPointer(d) PROVE AncestryInv'
  <2>1. latest \in Accepted
    BY <1>4 DEF FetchPointer, PublishInv, LatestComplete, TypeOK, Accepted, Parents
  <2> QED
    BY <1>1, <1>4, <2>1 DEF FetchPointer, AncestryInv, Accepted, PublishInv, TypeOK
<1>5. ASSUME NEW d \in Readers, FetchObject(d) PROVE AncestryInv'
  BY <1>1, <1>5 DEF FetchObject, AncestryInv, Accepted, PublishInv, TypeOK
<1> QED
  BY <1>2, <1>3, <1>4, <1>5 DEF Next, Publish, Cleanup, Request, Acquire, AcquireBusy,
     AcquireFails, CheckLatest, EnsureRevisionQuota, WriteRevision, WritePayload,
     WriteFails, Unlock, Crash, LockAges, CleanupDooms, CleanupRemoves, CleanupTemp, vars

LEMMA AncestryInvariant == ASSUME Timely PROVE Spec => []AncestryInv
<1>1. Init => AncestryInv
  BY RelayAssumption DEF Init, AncestryInv, AcceptedNeverLost, Accepted, Ancestry, Parents
<1>2. PublishInv /\ AncestryInv /\ [Next]_vars => AncestryInv'
  BY AncestryStep
<1> QED
  BY <1>1, <1>2, RelayInvariant, PTL DEF Spec

(***************************************************************************)
(* Nobody's accepted push is overwritten: it stays the latest or an        *)
(* ancestor of the latest.                                                 *)
(***************************************************************************)
THEOREM AcceptedIsKept == ASSUME Timely PROVE Spec => []AcceptedNeverLost
<1>1. AncestryInv => AcceptedNeverLost
  BY DEF AncestryInv
<1> QED
  BY <1>1, AncestryInvariant, PTL

(* What a reader fetches descends from what it fetched before.             *)
THEOREM ReadersMoveForward == ASSUME Timely PROVE Spec => FetchesMoveForward
<1>1. ASSUME PublishInv, AncestryInv, [Next]_vars, NEW d \in Readers,
             pointer[d] # NoRevision, pointer'[d] = NoRevision
      PROVE  \E r \in Revisions : got'[d] = r /\ got[d] \in Ancestry(r)
  <2>1. FetchObject(d)
    BY <1>1 DEF Next, Publish, Cleanup, Request, Acquire, AcquireBusy, AcquireFails,
       CheckLatest, EnsureRevisionQuota, WriteRevision, WritePayload, WriteLatest,
       WriteFails, Unlock, Crash, LockAges, CleanupDooms, CleanupRemoves, CleanupTemp,
       FetchPointer, FetchObject, vars, PublishInv, TypeOK
  <2>2. pointer[d] \in revisions
    BY <1>1 DEF PublishInv, LatestComplete, AncestryInv
  <2>3. got'[d] = pointer[d]
    BY <1>1, <2>1, <2>2 DEF FetchObject, PublishInv, TypeOK
  <2>4. pointer[d] \in Revisions
    BY <1>1 DEF PublishInv, TypeOK, Parents
  <2> QED
    BY <1>1, <2>3, <2>4 DEF AncestryInv
<1>2. PublishInv /\ AncestryInv /\ [Next]_vars
      => [\A d \in Readers :
            pointer[d] # NoRevision /\ pointer'[d] = NoRevision =>
              \E r \in Revisions : got'[d] = r /\ got[d] \in Ancestry(r)]_vars
  BY <1>1
<1> QED
  BY <1>2, RelayInvariant, AncestryInvariant, PTL DEF Spec, FetchesMoveForward

-------------------------------------------------------------------------------
(***************************************************************************)
(* The protocol implements the abstract log.  Only WriteLatest accepts a   *)
(* revision; Request may build one, but never one that is in the log.      *)
(***************************************************************************)
LEMMA LogStep ==
  ASSUME PublishInv, [Next]_vars
  PROVE  [Log!Next]_(Log!logVars)
<1> DEFINE mapped == [r \in Revisions |-> IF rank[r] > 0 THEN parentOf[r] ELSE Unbuilt]
<1> USE RelayAssumption DEF Parents
<1>1. ASSUME NEW p \in Publishers, WriteLatest(p)
      PROVE  Log!Accept(rev[p])
  <2>1. /\ latest' = rev[p]
        /\ rank' = [rank EXCEPT ![rev[p]] = rank[latest] + 1]
        /\ UNCHANGED parentOf
        /\ pc[p] \in Writing
    BY <1>1 DEF WriteLatest, Writing
  <2>2. /\ parentOf[rev[p]] = latest
        /\ rev[p] \in Revisions
        /\ rank[rev[p]] = 0
    BY <2>1, NewestPlace
  <2>3. rank \in [Parents -> Nat] /\ latest \in Parents
    BY DEF PublishInv, TypeOK
  <2>4. mapped[rev[p]] = Unbuilt
    BY <2>2
  <2>5. rank'[rev[p]] > 0 /\ \A s \in Parents : s # rev[p] => rank'[s] = rank[s]
    BY <2>1, <2>2, <2>3
  <2>6. mapped' = [mapped EXCEPT ![rev[p]] = latest]
    BY <2>1, <2>2, <2>5
  <2> QED
    BY <2>1, <2>4, <2>6 DEF Log!Accept
<1>2. ASSUME NEW p \in Publishers, NEW r \in Revisions, NEW parent \in Parents,
             Request(p, r, parent)
      PROVE  UNCHANGED <<latest, mapped>>
  <2>1. /\ UNCHANGED <<latest, rank>>
        /\ parentOf' = [parentOf EXCEPT ![r] = parent]
        /\ parentOf[r] \in {Unbuilt, parent}
    BY <1>2 DEF Request
  <2>2. parentOf \in [Revisions -> Parents \cup {Unbuilt}]
    BY DEF PublishInv, TypeOK
  <2>3. rank[r] > 0 => parentOf[r] # Unbuilt
    BY DEF PublishInv, LinearHistory, Accepted
  <2>4. \A s \in Revisions : rank[s] > 0 => parentOf'[s] = parentOf[s]
    BY <2>1, <2>2, <2>3
  <2> QED
    BY <2>1, <2>4
<1>3. ASSUME UNCHANGED <<latest, rank, parentOf>>
      PROVE  UNCHANGED <<latest, mapped>>
  BY <1>3
<1>4. ASSUME NEW p \in Publishers,
             \/ Acquire(p) \/ AcquireBusy(p) \/ AcquireFails(p) \/ CheckLatest(p)
             \/ EnsureRevisionQuota(p) \/ WriteRevision(p) \/ WritePayload(p)
             \/ WriteFails(p) \/ Unlock(p) \/ Crash(p)
      PROVE  UNCHANGED <<latest, rank, parentOf>>
  BY <1>4 DEF Acquire, AcquireBusy, AcquireFails, CheckLatest, EnsureRevisionQuota,
     WriteRevision, WritePayload, WriteFails, Unlock, Crash
<1>5. CASE \/ LockAges
           \/ \E c \in Cleaners : Cleanup(c)
           \/ \E d \in Readers : FetchPointer(d) \/ FetchObject(d)
           \/ UNCHANGED vars
  BY <1>5, <1>3 DEF LockAges, Cleanup, CleanupDooms, CleanupRemoves, CleanupTemp,
     FetchPointer, FetchObject, vars, Log!logVars
<1>6. ASSUME NEW p \in Publishers, WriteLatest(p) PROVE Log!Next
  <2>1. rev[p] \in Revisions
    BY <1>6, NewestPlace DEF WriteLatest, Writing
  <2>2. Log!Accept(rev[p])
    BY <1>1, <1>6
  <2> QED
    BY <2>1, <2>2 DEF Log!Next, Log!Accept
<1> QED
  BY <1>2, <1>3, <1>4, <1>5, <1>6 DEF Next, Publish, Log!logVars

(***************************************************************************)
(* Seen through its pointer, the file protocol with its locks, failures,   *)
(* crashes and cleanups is the atomic append-only log.                     *)
(***************************************************************************)
THEOREM ImplementsRevisionLog == ASSUME Timely PROVE Spec => RefinesRevisionLog
<1>1. Init => Log!Init
  BY RelayAssumption DEF Init, Log!Init, Parents
<1>2. PublishInv /\ [Next]_vars => [Log!Next]_(Log!logVars)
  BY LogStep
<1> QED
  BY <1>1, <1>2, RelayInvariant, PTL DEF Spec, RefinesRevisionLog, Log!Spec

(***************************************************************************)
(* The abstract log never forks: whatever the order in which revisions are *)
(* accepted, every one of them but the head has exactly one successor.     *)
(***************************************************************************)
LEMMA LogStaysUnforked ==
  ASSUME Log!TypeOK, Log!Unforked, [Log!Next]_(Log!logVars)
  PROVE  (Log!TypeOK /\ Log!Unforked)'
<1> DEFINE log == [r \in Revisions |-> IF rank[r] > 0 THEN parentOf[r] ELSE Unbuilt]
<1> USE RelayAssumption
<1>0. /\ Log!TypeOK <=> /\ latest \in Revisions \cup {NoRevision}
                        /\ log \in [Revisions -> Revisions \cup {NoRevision, Unbuilt}]
      /\ Log!Accepted = {r \in Revisions : log[r] # Unbuilt}
      /\ Log!TypeOK' <=> /\ latest' \in Revisions \cup {NoRevision}
                         /\ log' \in [Revisions -> Revisions \cup {NoRevision, Unbuilt}]
      /\ Log!Accepted' = {r \in Revisions : log'[r] # Unbuilt}
  BY DEF Log!TypeOK, Log!Accepted
<1>1. ASSUME NEW r \in Revisions, Log!Accept(r)
      PROVE  (Log!TypeOK /\ Log!Unforked)'
  <2>1. log[r] = Unbuilt /\ log' = [log EXCEPT ![r] = latest] /\ latest' = r
    BY <1>1 DEF Log!Accept
  <2> HIDE DEF log
  <2>2. log' \in [Revisions -> Revisions \cup {NoRevision, Unbuilt}]
    BY <1>0, <2>1
  <2>3. Log!TypeOK'
    BY <1>0, <2>1, <2>2
  <2>4. Log!Accepted' = Log!Accepted \cup {r}
    BY <1>0, <2>1
  <2>5. r # latest /\ log'[r] = latest /\ \A s \in Log!Accepted : log'[s] = log[s]
    BY <1>0, <2>1 DEF Log!Unforked
  <2>6. /\ \A s, t \in Log!Accepted : log[s] = log[t] => s = t
        /\ \A s \in Log!Accepted : log[s] # latest
        /\ \A s \in Log!Accepted : log[s] \in Log!Accepted \cup {NoRevision}
        /\ latest \in Log!Accepted \cup {NoRevision}
    BY DEF Log!Unforked, log
  <2>7. \A s \in Log!Accepted : log[s] # r
    BY <1>0, <2>1, <2>6
  <2>8. /\ \A s, t \in Log!Accepted' : log'[s] = log'[t] => s = t
        /\ \A s \in Log!Accepted' : log'[s] # latest'
        /\ \A s \in Log!Accepted' : log'[s] \in Log!Accepted' \cup {NoRevision}
        /\ latest' \in Log!Accepted' \cup {NoRevision}
    BY <2>1, <2>4, <2>5, <2>6, <2>7
  <2> QED
    BY <2>3, <2>8 DEF Log!Unforked, log
<1>2. CASE UNCHANGED Log!logVars
  BY <1>2 DEF Log!logVars, Log!TypeOK, Log!Unforked, Log!Accepted
<1> QED
  BY <1>1, <1>2 DEF Log!Next

(* Neither does what the files hold: no two accepted revisions extend the  *)
(* same one, and none extends the latest.                                  *)
THEOREM HistoryNeverForks == ASSUME Timely PROVE Spec => []Log!Unforked
<1>1. Log!Init => Log!TypeOK /\ Log!Unforked
  BY RelayAssumption DEF Log!Init, Log!TypeOK, Log!Unforked, Log!Accepted
<1>2. Log!TypeOK /\ Log!Unforked /\ [Log!Next]_(Log!logVars) => (Log!TypeOK /\ Log!Unforked)'
  BY LogStaysUnforked
<1> QED
  BY <1>1, <1>2, ImplementsRevisionLog, PTL DEF RefinesRevisionLog, Log!Spec
===============================================================================
