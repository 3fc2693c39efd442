--------------------------- MODULE MembershipProofs ---------------------------
(***************************************************************************)
(* For any number of devices, invites and environments, any dates and any  *)
(* number of commands that fail: revocations are final, markers outlive    *)
(* the revisions their devices can read, the creator keeps its standing,   *)
(* and with the creator as the only manager every checkout loads.          *)
(***************************************************************************)
EXTENDS Membership, FiniteSetTheorems, WellFoundedInduction, TLAPS

(* What a job names, by what it does. *)
LEMMA JobType ==
  ASSUME TypeOK, NEW d \in Devices, job[d] # None
  PROVE  /\ job[d].do \in {"request", "invite"} => job[d].id \in Invites
         /\ job[d].do \in {"approve", "approval", "revocation", "mark"} => job[d].dev \in Devices
         /\ job[d].do = "mark" => job[d].envs \subseteq Environments
<1>1. job[d] \in Job
  BY DEF TypeOK
<1> QED
  BY <1>1 DEF Job

LEMMA OverlayType ==
  ASSUME NEW S, NEW held \in [Devices -> S \cup {None}],
         NEW bundled \in [Devices -> S \cup {None}], NEW n
  PROVE  Overlay(held, bundled, n) \in [Devices -> S \cup {None}]
  BY DEF Overlay

LEMMA PutType ==
  ASSUME NEW S, NEW table \in [Holders -> [Devices -> S]],
         NEW h \in Holders, NEW x \in Devices, NEW record \in S
  PROVE  [table EXCEPT ![h][x] = record] \in [Holders -> [Devices -> S]]
  OBVIOUS

LEMMA TypeInit == Init => TypeOK
  BY MembershipAssumption DEF Init, TypeOK, Job

-------------------------------------------------------------------------------
(* Types *)

LEMMA TypeInvite ==
  ASSUME TypeOK, NEW d \in Devices,
         \/ \E i \in Invites, allowed \in Selections : InviteCreate(d, i, allowed)
         \/ PublishInvite(d)
  PROVE  TypeOK'
<1>1. ASSUME NEW i \in Invites, NEW allowed \in Selections, InviteCreate(d, i, allowed)
      PROVE  TypeOK'
  <2>1. invites' \in [Invites -> Bundle \cup {None}]
    BY <1>1, MembershipAssumption DEF InviteCreate, TypeOK, Bundle, Holders
  <2>2. job' \in [Devices -> Job]
    BY <1>1 DEF InviteCreate, Then, TypeOK, Job
  <2> QED
    BY <1>1, <2>1, <2>2 DEF InviteCreate, Knows, TypeOK, records, pushing, bounds
<1>2. CASE PublishInvite(d)
  <2>1. job[d].id \in Invites
    BY <1>2, JobType DEF PublishInvite
  <2>2. job' \in [Devices -> Job]
    BY <1>2 DEF PublishInvite, Then, TypeOK, Job
  <2> QED
    BY <1>2, <2>1, <2>2 DEF PublishInvite, TypeOK, records, pushing, bounds
<1> QED
  BY <1>1, <1>2

LEMMA TypeImport ==
  ASSUME TypeOK, NEW d \in Devices, NEW i \in Invites, NEW n \in 0..AllWritten,
         ImportBundle(d, i, n)
  PROVE  TypeOK'
<1>1. invites[i] \in Bundle
  BY DEF ImportBundle, TypeOK
<1>2. requests' \in [Holders -> [Devices -> JoinRequest \cup {None}]]
  <2>1. Overlay(requests[d], invites[i].requests, n) \in [Devices -> JoinRequest \cup {None}]
    BY <1>1, OverlayType DEF TypeOK, Bundle, Holders
  <2> QED
    BY <2>1 DEF ImportBundle, TypeOK, Holders
<1>3. approvals' \in [Holders -> [Devices -> Approval \cup {None}]]
  <2>1. Overlay(approvals[d], invites[i].approvals, n - NDevices)
          \in [Devices -> Approval \cup {None}]
    BY <1>1, OverlayType DEF TypeOK, Bundle, Holders
  <2> QED
    BY <2>1 DEF ImportBundle, TypeOK, Holders
<1>4. revocations' \in [Holders -> [Devices -> Revocation \cup {None}]]
  <2>1. Overlay(revocations[d], invites[i].revocations, n - 2 * NDevices)
          \in [Devices -> Revocation \cup {None}]
    BY <1>1, OverlayType DEF TypeOK, Bundle, Holders
  <2> QED
    BY <2>1 DEF ImportBundle, TypeOK, Holders
<1>5. environments' \in [Devices -> SUBSET Environments]
  BY <1>1 DEF ImportBundle, TypeOK, Bundle
<1>6. known' \in [Devices -> SUBSET Invites]
  BY DEF ImportBundle, Knows, TypeOK
<1>7. job' \in [Devices -> Job]
  BY DEF ImportBundle, Then, TypeOK, Job
<1>8. commands' \in 0..MaxCommands /\ failures' \in 0..MaxFailures
  BY MembershipAssumption DEF ImportBundle, Completes, TypeOK
<1> QED
  BY <1>2, <1>3, <1>4, <1>5, <1>6, <1>7, <1>8 DEF ImportBundle, TypeOK, pushing

LEMMA TypeJoin ==
  ASSUME TypeOK, NEW d \in Devices, Join(d)
  PROVE  TypeOK'
<1>1. ASSUME NEW i \in Invites, JoinById(d, i) PROVE TypeOK'
  <2>1. job' \in [Devices -> Job]
    BY <1>1 DEF JoinById, Then, TypeOK, Job
  <2>2. commands' \in 0..MaxCommands
    BY <1>1, MembershipAssumption DEF JoinById, Begin, TypeOK
  <2> QED
    BY <1>1, <2>1, <2>2 DEF JoinById, Knows, TypeOK, records, pushing
<1>2. ASSUME NEW envs \in SUBSET Environments, WriteJoinRequest(d, envs) PROVE TypeOK'
  <2>1. job' \in [Devices -> Job]
    BY <1>2 DEF WriteJoinRequest, Then, TypeOK, Job
  <2>2. requests' \in [Holders -> [Devices -> JoinRequest \cup {None}]]
    BY <1>2 DEF WriteJoinRequest, TypeOK, JoinRequest, Holders
  <2> QED
    BY <1>2, <2>1, <2>2 DEF WriteJoinRequest, TypeOK, joining, pushing, bounds
<1>3. CASE RefuseJoin(d)
  <2>1. job' \in [Devices -> Job]
    BY <1>3 DEF RefuseJoin, Then, TypeOK, Job
  <2> QED
    BY <1>3, <2>1 DEF RefuseJoin, TypeOK, records, joining, pushing, bounds
<1>4. CASE PublishRequest(d)
  <2>1. job' \in [Devices -> Job]
    BY <1>4 DEF PublishRequest, Then, TypeOK, Job
  <2>2. requests' \in [Holders -> [Devices -> JoinRequest \cup {None}]]
    <3>1. requests[d][d] \in JoinRequest \cup {None}
      BY DEF TypeOK, Holders
    <3> QED
      BY <1>4, <3>1, PutType DEF PublishRequest, TypeOK, Holders
  <2> QED
    BY <1>4, <2>1, <2>2 DEF PublishRequest, TypeOK, joining, pushing, bounds
<1> QED
  BY <1>1, <1>2, <1>3, <1>4, TypeImport DEF Join

LEMMA TypeApprove ==
  ASSUME TypeOK, AskedFirst, NEW d \in Devices,
         \/ \E x \in Devices : FetchRequest(d, x) \/ UseOwnRequest(d, x)
         \/ \E role \in Roles, t \in 0..MaxTime : WriteApproval(d, role, t)
         \/ PublishApproval(d)
  PROVE  TypeOK'
<1>1. ASSUME NEW x \in Devices, FetchRequest(d, x) \/ UseOwnRequest(d, x) PROVE TypeOK'
  <2>1. job' \in [Devices -> Job]
    <3>1. [do |-> "approve", dev |-> x] \in Job
      BY DEF Job
    <3> QED
      BY <1>1, <3>1 DEF FetchRequest, UseOwnRequest, Then, TypeOK
  <2>2. requests' \in [Holders -> [Devices -> JoinRequest \cup {None}]]
    <3>1. CASE FetchRequest(d, x)
      BY <3>1, PutType DEF FetchRequest, TypeOK, Holders
    <3>2. CASE UseOwnRequest(d, x)
      BY <3>2 DEF UseOwnRequest, TypeOK, records
    <3> QED
      BY <1>1, <3>1, <3>2
  <2>3. commands' \in 0..MaxCommands
    BY <1>1, MembershipAssumption DEF FetchRequest, UseOwnRequest, MayManage, Begin, TypeOK
  <2> QED
    BY <1>1, <2>1, <2>2, <2>3 DEF FetchRequest, UseOwnRequest, TypeOK, records, joining, pushing
<1>2. ASSUME NEW role \in Roles, NEW t \in 0..MaxTime, WriteApproval(d, role, t)
      PROVE  TypeOK'
  <2>1. job[d].dev \in Devices
    BY <1>2, JobType DEF WriteApproval
  <2>2. requests[d][job[d].dev] \in JoinRequest
    BY <1>2, <2>1 DEF WriteApproval, AskedFirst, TypeOK, Holders
  <2>3. approvals' \in [Holders -> [Devices -> Approval \cup {None}]]
    BY <1>2, <2>1, <2>2, MembershipAssumption
    DEF WriteApproval, TypeOK, Approval, JoinRequest, Holders
  <2>4. job' \in [Devices -> Job]
    BY <1>2, <2>1 DEF WriteApproval, Then, TypeOK, Job
  <2> QED
    BY <1>2, <2>3, <2>4 DEF WriteApproval, TypeOK, joining, pushing, bounds
<1>3. CASE PublishApproval(d)
  <2>1. job' \in [Devices -> Job]
    BY <1>3 DEF PublishApproval, Then, TypeOK, Job
  <2>2. job[d].dev \in Devices
    BY <1>3, JobType DEF PublishApproval
  <2>3. approvals' \in [Holders -> [Devices -> Approval \cup {None}]]
    BY <1>3, <2>2 DEF PublishApproval, TypeOK, Holders
  <2> QED
    BY <1>3, <2>1, <2>3 DEF PublishApproval, TypeOK, joining, pushing, bounds
<1> QED
  BY <1>1, <1>2, <1>3

LEMMA TypeRevoke ==
  ASSUME TypeOK, NEW d \in Devices,
         \/ \E x \in Devices, envs \in SUBSET Environments, t \in 0..MaxTime :
              Revoke(d, x, envs, t)
         \/ \E marked \in SUBSET Environments : MarkRotation(d, marked)
         \/ PublishRevocation(d)
  PROVE  TypeOK'
<1>1. ASSUME NEW x \in Devices, NEW envs \in SUBSET Environments, NEW t \in 0..MaxTime,
             Revoke(d, x, envs, t)
      PROVE  TypeOK'
  <2>1. job' \in [Devices -> Job]
    BY <1>1 DEF Revoke, Then, TypeOK, Job
  <2>2. revocations' \in [Holders -> [Devices -> Revocation \cup {None}]]
    BY <1>1 DEF Revoke, TypeOK, Revocation, Holders
  <2>3. commands' \in 0..MaxCommands
    BY <1>1, MembershipAssumption DEF Revoke, MayManage, Begin, TypeOK
  <2> QED
    BY <1>1, <2>1, <2>2, <2>3 DEF Revoke, TypeOK, joining, pushing
<1>2. ASSUME NEW marked \in SUBSET Environments, MarkRotation(d, marked) PROVE TypeOK'
  <2>1. job[d].dev \in Devices
    BY <1>2, JobType DEF MarkRotation
  <2>2. job' \in [Devices -> Job]
    BY <1>2, <2>1 DEF MarkRotation, Then, TypeOK, Job
  <2>3. pending' \in [Devices -> [Environments -> SUBSET Devices]]
    BY <1>2, <2>1 DEF MarkRotation, TypeOK
  <2>4. failures' \in 0..MaxFailures
    BY <1>2, MembershipAssumption DEF MarkRotation, Completes, TypeOK
  <2> QED
    BY <1>2, <2>2, <2>3, <2>4 DEF MarkRotation, TypeOK, records, joining
<1>3. CASE PublishRevocation(d)
  <2>1. job' \in [Devices -> Job]
    BY <1>3 DEF PublishRevocation, Then, TypeOK, Job
  <2>2. job[d].dev \in Devices
    BY <1>3, JobType DEF PublishRevocation
  <2>3. revocations' \in [Holders -> [Devices -> Revocation \cup {None}]]
    BY <1>3, <2>2 DEF PublishRevocation, TypeOK, Holders
  <2> QED
    BY <1>3, <2>1, <2>3 DEF PublishRevocation, TypeOK, joining, pushing, bounds
<1> QED
  BY <1>1, <1>2, <1>3

LEMMA TypeUse ==
  ASSUME TypeOK, NEW d \in Devices, Use(d)
  PROVE  TypeOK'
<1>1. ASSUME NEW e \in Environments, NEW n \in 1..4, Pull(d, e, n) PROVE TypeOK'
  <2>1. /\ requests' \in [Holders -> [Devices -> JoinRequest \cup {None}]]
        /\ approvals' \in [Holders -> [Devices -> Approval \cup {None}]]
        /\ revocations' \in [Holders -> [Devices -> Revocation \cup {None}]]
    <3>1. CASE UNCHANGED records
      BY <3>1 DEF records, TypeOK
    <3>2. CASE SyncAccess(d, n)
      BY <3>2 DEF SyncAccess, TypeOK, Holders
    <3> QED
      BY <1>1, <3>1, <3>2 DEF Pull
  <2>2. current' \in [Devices -> SUBSET Environments]
    BY <1>1 DEF Pull, TypeOK
  <2>3. failures' \in 0..MaxFailures
    BY <1>1, MembershipAssumption DEF Pull, Completes, TypeOK
  <2> QED
    BY <1>1, <2>1, <2>2, <2>3 DEF Pull, TypeOK, joining
<1>2. ASSUME NEW e \in Environments, NEW clears \in BOOLEAN, Push(d, e, clears) PROVE TypeOK'
  <2>1. head' \in [Environments -> Revision \cup {None}]
    <3>1. Readers(d, e) \subseteq Devices
      BY DEF Readers
    <3> QED
      BY <1>2, <3>1 DEF Push, TypeOK, Revision
  <2>2. current' \in [Devices -> SUBSET Environments]
    BY <1>2 DEF Push, TypeOK
  <2>3. pending' \in [Devices -> [Environments -> SUBSET Devices]]
    BY <1>2 DEF Push, TypeOK
  <2>4. failures' \in 0..MaxFailures
    BY <1>2, MembershipAssumption DEF Push, Completes, TypeOK
  <2> QED
    BY <1>2, <2>1, <2>2, <2>3, <2>4 DEF Push, TypeOK, records, joining
<1>3. CASE Abandon(d)
  <2>1. job' \in [Devices -> Job]
    BY <1>3 DEF Abandon, Then, TypeOK, Job
  <2>2. failures' \in 0..MaxFailures
    BY <1>3, MembershipAssumption DEF Abandon, Completes, TypeOK
  <2> QED
    BY <1>3, <2>1, <2>2 DEF Abandon, TypeOK, records, joining, pushing
<1> QED
  BY <1>1, <1>2, <1>3 DEF Use

LEMMA TypeStep == TypeOK /\ AskedFirst /\ [Next]_vars => TypeOK'
<1> SUFFICES ASSUME TypeOK, AskedFirst, [Next]_vars PROVE TypeOK'
  OBVIOUS
<1>1. ASSUME NEW d \in Devices, Manage(d) PROVE TypeOK'
  BY <1>1, TypeInvite, TypeApprove, TypeRevoke DEF Manage
<1>2. CASE UNCHANGED vars
  BY <1>2 DEF vars, records, joining, pushing, bounds, TypeOK
<1> QED
  BY <1>1, <1>2, TypeJoin, TypeUse DEF Next

-------------------------------------------------------------------------------
(* Records of a checkout stay *)

(* A bundle replaces records and removes none. *)
LEMMA OverlayKeeps ==
  ASSUME NEW held, NEW bundled, NEW n, NEW x \in Devices
  PROVE  /\ held[x] # None => Overlay(held, bundled, n)[x] # None
         /\ Overlay(held, bundled, n)[x] # None =>
              held[x] # None \/ (bundled[x] # None /\ Rank[x] <= n)
  BY DEF Overlay

(* What a pull does to the records: a device gains at most its own three. *)
LEMMA PullRecords ==
  ASSUME TypeOK, NEW f \in Devices, NEW e \in Environments, NEW n \in 1..4, Pull(f, e, n)
  PROVE  /\ UNCHANGED <<joining, pending, head, job>>
         /\ \A x \in Devices :
              /\ requests'[Relay][x] = requests[Relay][x]
              /\ approvals'[Relay][x] = approvals[Relay][x]
              /\ revocations'[Relay][x] = revocations[Relay][x]
         /\ \A d, x \in Devices :
              /\ requests'[d][x] = requests[d][x]
                   \/ (d = x /\ requests[x][x] = None /\ requests'[x][x] = requests[Relay][x])
              /\ approvals'[d][x] = approvals[d][x]
                   \/ (d = x /\ approvals'[x][x] = approvals[Relay][x]
                        /\ (requests[x][x] = None => requests'[x][x] = requests[Relay][x]))
              /\ revocations'[d][x] = revocations[d][x]
                   \/ (d = x /\ revocations'[x][x] = revocations[Relay][x]
                        /\ revocations[Relay][x] # None)
<1>1. /\ requests \in [Holders -> [Devices -> JoinRequest \cup {None}]]
      /\ approvals \in [Holders -> [Devices -> Approval \cup {None}]]
      /\ revocations \in [Holders -> [Devices -> Revocation \cup {None}]]
  BY DEF TypeOK
<1>2. CASE UNCHANGED records
  BY <1>2 DEF Pull, records
<1>3. CASE SyncAccess(f, n)
  <2>1. Relay \notin Devices
    BY MembershipAssumption
  <2>2. UNCHANGED <<joining, pending, head, job>>
    BY DEF Pull
  <2> QED
    BY <1>1, <1>3, <2>1, <2>2 DEF SyncAccess, Holders
<1> QED
  BY <1>2, <1>3 DEF Pull

LEMMA RequestsStay ==
  ASSUME TypeOK, [Next]_vars, NEW d \in Devices, NEW x \in Devices, requests[d][x] # None
  PROVE  requests'[d][x] # None
<1> USE DEF TypeOK, Holders
<1>1. ASSUME NEW f \in Devices, NEW i \in Invites, NEW n \in 0..AllWritten, ImportBundle(f, i, n)
      PROVE  requests'[d][x] # None
  BY <1>1, OverlayKeeps DEF ImportBundle
<1>2. ASSUME NEW f \in Devices, NEW envs \in SUBSET Environments, WriteJoinRequest(f, envs)
      PROVE  requests'[d][x] # None
  <2>1. [envs |-> envs] # None
    BY RecordAssumption DEF JoinRequest
  <2> QED
    BY <1>2, <2>1 DEF WriteJoinRequest
<1>3. ASSUME NEW f \in Devices, PublishRequest(f) PROVE requests'[d][x] # None
  BY <1>3, MembershipAssumption DEF PublishRequest
<1>4. ASSUME NEW f \in Devices, NEW y \in Devices, FetchRequest(f, y)
      PROVE  requests'[d][x] # None
  BY <1>4 DEF FetchRequest
<1> HIDE DEF TypeOK, Holders
<1>5. ASSUME NEW f \in Devices, NEW e \in Environments, NEW n \in 1..4, Pull(f, e, n)
      PROVE  requests'[d][x] # None
  BY <1>5, PullRecords
<1>6. ASSUME NEW f \in Devices, Join(f) PROVE requests'[d][x] # None
  BY <1>1, <1>2, <1>3, <1>6 DEF Join, JoinById, RefuseJoin, records
<1>7. ASSUME NEW f \in Devices, Manage(f) PROVE requests'[d][x] # None
  BY <1>4, <1>7
  DEF Manage, InviteCreate, PublishInvite, UseOwnRequest, WriteApproval, PublishApproval,
      Revoke, MarkRotation, PublishRevocation, records
<1>8. ASSUME NEW f \in Devices, Use(f) PROVE requests'[d][x] # None
  BY <1>5, <1>8 DEF Use, Push, Abandon, records
<1> QED
  BY <1>6, <1>7, <1>8 DEF Next, vars, records

LEMMA RevocationsStay ==
  ASSUME TypeOK, [Next]_vars, NEW d \in Devices, NEW x \in Devices, revocations[d][x] # None
  PROVE  revocations'[d][x] # None
<1> USE DEF TypeOK, Holders
<1>1. ASSUME NEW f \in Devices, NEW i \in Invites, NEW n \in 0..AllWritten, ImportBundle(f, i, n)
      PROVE  revocations'[d][x] # None
  BY <1>1, OverlayKeeps DEF ImportBundle
<1>2. ASSUME NEW f \in Devices, NEW y \in Devices, NEW envs \in SUBSET Environments,
             NEW t \in 0..MaxTime, Revoke(f, y, envs, t)
      PROVE  revocations'[d][x] # None
  BY <1>2, RecordAssumption DEF Revoke, Revocation
<1>3. ASSUME NEW f \in Devices, PublishRevocation(f) PROVE revocations'[d][x] # None
  BY <1>3, MembershipAssumption DEF PublishRevocation
<1> HIDE DEF TypeOK, Holders
<1>4. ASSUME NEW f \in Devices, NEW e \in Environments, NEW n \in 1..4, Pull(f, e, n)
      PROVE  revocations'[d][x] # None
  BY <1>4, PullRecords
<1>5. ASSUME NEW f \in Devices, Join(f) PROVE revocations'[d][x] # None
  BY <1>1, <1>5 DEF Join, JoinById, WriteJoinRequest, RefuseJoin, PublishRequest, records
<1>6. ASSUME NEW f \in Devices, Manage(f) PROVE revocations'[d][x] # None
  BY <1>2, <1>3, <1>6
  DEF Manage, InviteCreate, PublishInvite, FetchRequest, UseOwnRequest, WriteApproval,
      PublishApproval, MarkRotation, records
<1>7. ASSUME NEW f \in Devices, Use(f) PROVE revocations'[d][x] # None
  BY <1>4, <1>7 DEF Use, Push, Abandon, records
<1> QED
  BY <1>5, <1>6, <1>7 DEF Next, vars, records

-------------------------------------------------------------------------------
(* Requests before approvals *)

LEMMA AskedInit == Init => AskedFirst
  BY DEF Init, AskedFirst, Holders

LEMMA AskedStep == TypeOK /\ AskedFirst /\ [Next]_vars => AskedFirst'
<1> SUFFICES ASSUME TypeOK, AskedFirst, [Next]_vars PROVE AskedFirst'
  OBVIOUS
<1>1. /\ requests \in [Holders -> [Devices -> JoinRequest \cup {None}]]
      /\ approvals \in [Holders -> [Devices -> Approval \cup {None}]]
      /\ invites \in [Invites -> Bundle \cup {None}]
      /\ job \in [Devices -> Job]
      /\ Relay \notin Devices
  BY MembershipAssumption DEF TypeOK
<1>2. \A d, x \in Devices : requests[d][x] # None => requests'[d][x] # None
  BY RequestsStay
<1>a. ASSUME UNCHANGED <<approvals, invites>>,
             \A h \in Holders, x \in Devices :
               requests'[h][x] # None => requests[h][x] # None \/ requests'[x][x] # None,
             \A d \in Devices :
               \/ job'[d] = job[d] \/ job'[d] = None \/ job'[d].do # "approve"
               \/ requests'[d][job'[d].dev] # None
      PROVE  AskedFirst'
  <2>1. \A h \in Holders, x \in Devices :
          requests'[h][x] # None \/ approvals'[h][x] # None => requests'[x][x] # None
    BY <1>a, <1>2 DEF AskedFirst
  <2>2. \A d, x \in Devices : approvals'[d][x] # None => requests'[d][x] # None
    BY <1>a, <1>2 DEF AskedFirst
  <2>3. \A d \in Devices :
          job'[d] # None /\ job'[d].do = "approve" => requests'[d][job'[d].dev] # None
    BY <1>a, <1>2, JobType DEF AskedFirst
  <2> QED
    BY <1>a, <1>2, <2>1, <2>2, <2>3 DEF AskedFirst
<1>3. ASSUME NEW d \in Devices, NEW i \in Invites, NEW allowed \in Selections,
             InviteCreate(d, i, allowed)
      PROVE  AskedFirst'
  <2>1. UNCHANGED <<requests, approvals>>
    BY <1>3 DEF InviteCreate, records
  <2>2. \A j \in Invites : invites'[j] = invites[j]
          \/ (invites'[j].requests = requests[d] /\ invites'[j].approvals = approvals[d])
    BY <1>1, <1>3 DEF InviteCreate
  <2>3. \A x \in Devices : job'[x] = job[x] \/ job'[x].do = "invite"
    BY <1>1, <1>3 DEF InviteCreate, Then
  <2>4. d \in Holders
    BY DEF Holders
  <2> QED
    BY <2>1, <2>2, <2>3, <2>4 DEF AskedFirst
<1>4. ASSUME NEW d \in Devices, NEW i \in Invites, NEW n \in 0..AllWritten, ImportBundle(d, i, n)
      PROVE  AskedFirst'
  <2>1. /\ UNCHANGED invites
        /\ \A h \in Holders : h # d => requests'[h] = requests[h] /\ approvals'[h] = approvals[h]
        /\ requests'[d] = Overlay(requests[d], invites[i].requests, n)
        /\ approvals'[d] = Overlay(approvals[d], invites[i].approvals, n - NDevices)
        /\ invites[i] # None
    BY <1>1, <1>4 DEF ImportBundle, Holders
  <2>2. \A x \in Devices : job'[x] = job[x] \/ job'[x] = None \/ job'[x].do = "request"
    BY <1>1, <1>4 DEF ImportBundle, Then
  <2>3. \A x \in Devices : requests'[d][x] # None =>
          requests[d][x] # None \/ invites[i].requests[x] # None
    BY <2>1, OverlayKeeps
  <2>4. \A x \in Devices : approvals'[d][x] # None => requests'[d][x] # None
    <3> SUFFICES ASSUME NEW x \in Devices, approvals'[d][x] # None
                 PROVE  requests'[d][x] # None
      OBVIOUS
    <3>1. CASE approvals[d][x] # None
      BY <2>1, <3>1, OverlayKeeps DEF AskedFirst
    <3>2. CASE invites[i].approvals[x] # None /\ Rank[x] <= n - NDevices
      <4>1. invites[i].requests[x] # None
        BY <2>1, <3>2 DEF AskedFirst
      <4>2. NDevices \in Nat /\ Rank[x] \in Int /\ n \in Int
        BY MembershipAssumption, FS_CardinalityType DEF NDevices
      <4>3. Rank[x] <= n
        BY <3>2, <4>2
      <4> QED
        BY <2>1, <4>1, <4>3 DEF Overlay
    <3> QED
      BY <2>1, <3>1, <3>2, OverlayKeeps
  <2>5. d \in Holders
    BY DEF Holders
  <2>6. \A h \in Holders, x \in Devices :
          requests'[h][x] # None \/ approvals'[h][x] # None => requests'[x][x] # None
    BY <1>2, <2>1, <2>3, <2>4, <2>5 DEF AskedFirst
  <2>7. \A f \in Devices : f \in Holders /\ f # d => requests'[f] = requests[f]
    BY <2>1
  <2>8. \A f, x \in Devices : approvals'[f][x] # None => requests'[f][x] # None
    BY <2>1, <2>4 DEF AskedFirst, Holders
  <2>9. \A f, x \in Devices : requests[f][x] # None => requests'[f][x] # None
    BY RequestsStay
  <2> QED
    BY <1>2, <2>1, <2>2, <2>6, <2>8, <2>9, JobType DEF AskedFirst
<1>5. ASSUME NEW d \in Devices, NEW envs \in SUBSET Environments, WriteJoinRequest(d, envs)
      PROVE  AskedFirst'
  <2>1. UNCHANGED <<approvals, invites>>
    BY <1>5 DEF WriteJoinRequest, joining
  <2>2. /\ requests'[d][d] # None
        /\ \A h \in Holders, x \in Devices :
             requests'[h][x] = requests[h][x] \/ (h = d /\ x = d)
    <3>1. [envs |-> envs] # None
      BY RecordAssumption DEF JoinRequest
    <3> QED
      BY <1>1, <1>5, <3>1 DEF WriteJoinRequest, Holders
  <2>3. \A x \in Devices : job'[x] = job[x] \/ job'[x].do = "publish request"
    BY <1>1, <1>5 DEF WriteJoinRequest, Then
  <2> QED
    BY <1>a, <2>1, <2>2, <2>3
<1>6. ASSUME NEW d \in Devices, PublishRequest(d) PROVE AskedFirst'
  <2>1. UNCHANGED <<approvals, invites>>
    BY <1>6 DEF PublishRequest, joining
  <2>2. \A h \in Holders, x \in Devices :
          requests'[h][x] = requests[h][x]
            \/ (h = Relay /\ x = d /\ requests'[h][x] = requests[d][d])
    BY <1>1, <1>6 DEF PublishRequest, Holders
  <2>3. \A x \in Devices : job'[x] = job[x] \/ job'[x] = None
    BY <1>1, <1>6 DEF PublishRequest, Then
  <2> QED
    BY <1>a, <1>2, <2>1, <2>2, <2>3
<1>7. ASSUME NEW d \in Devices, NEW y \in Devices, FetchRequest(d, y) PROVE AskedFirst'
  <2>1. UNCHANGED <<approvals, invites>>
    BY <1>7 DEF FetchRequest, joining
  <2>2. /\ requests'[d][y] # None /\ requests[Relay][y] # None
        /\ \A h \in Holders, x \in Devices :
             requests'[h][x] = requests[h][x] \/ (h = d /\ x = y)
    BY <1>1, <1>7 DEF FetchRequest, Holders
  <2>3. \A x \in Devices : job'[x] = job[x] \/ (x = d /\ job'[x].dev = y)
    BY <1>1, <1>7 DEF FetchRequest, Then
  <2>4. requests[y][y] # None
    BY <2>2 DEF AskedFirst, Holders
  <2> QED
    BY <1>a, <1>2, <2>1, <2>2, <2>3, <2>4
<1>8. ASSUME NEW d \in Devices, NEW y \in Devices, UseOwnRequest(d, y) PROVE AskedFirst'
  <2>1. UNCHANGED <<requests, approvals, invites>> /\ requests[d][y] # None
    BY <1>8 DEF UseOwnRequest, joining, records
  <2>2. \A x \in Devices : job'[x] = job[x] \/ (x = d /\ job'[x].dev = y)
    BY <1>1, <1>8 DEF UseOwnRequest, Then
  <2> QED
    BY <2>1, <2>2 DEF AskedFirst
<1>9. ASSUME NEW d \in Devices, NEW role \in Roles, NEW t \in 0..MaxTime, WriteApproval(d, role, t)
      PROVE  AskedFirst'
  <2>1. UNCHANGED <<requests, invites>>
    BY <1>9 DEF WriteApproval, joining
  <2>2. /\ requests[d][job[d].dev] # None
        /\ \A h \in Holders, x \in Devices :
             approvals'[h][x] = approvals[h][x] \/ (h = d /\ x = job[d].dev)
    BY <1>1, <1>9 DEF WriteApproval, AskedFirst, Holders
  <2>3. \A x \in Devices : job'[x] = job[x] \/ job'[x].do = "approval"
    BY <1>1, <1>9 DEF WriteApproval, Then
  <2> QED
    BY <2>1, <2>2, <2>3 DEF AskedFirst, Holders
<1>10. ASSUME NEW d \in Devices, PublishApproval(d) PROVE AskedFirst'
  <2>1. UNCHANGED <<requests, invites>>
    BY <1>10 DEF PublishApproval, joining
  <2>2. \A h \in Holders, x \in Devices :
          approvals'[h][x] = approvals[h][x]
            \/ (h = Relay /\ approvals'[h][x] = approvals[d][x])
    BY <1>1, <1>10 DEF PublishApproval, Holders
  <2>3. \A x \in Devices : job'[x] = job[x] \/ job'[x] = None
    BY <1>1, <1>10 DEF PublishApproval, Then
  <2>4. \A h \in Holders, x \in Devices : approvals'[h][x] # None => requests[x][x] # None
    BY <2>2 DEF AskedFirst, Holders
  <2>5. \A f, x \in Devices : approvals'[f][x] = approvals[f][x]
    BY <1>1, <2>2 DEF Holders
  <2> QED
    BY <2>1, <2>3, <2>4, <2>5 DEF AskedFirst
<1>11. ASSUME NEW d \in Devices, NEW e \in Environments, NEW n \in 1..4, Pull(d, e, n)
       PROVE  AskedFirst'
  <2>1. UNCHANGED <<invites, job>>
    BY <1>11, PullRecords DEF joining
  <2>2. \A f, x \in Devices : requests[f][x] # None => requests'[f][x] # None
    BY RequestsStay
  <2>3. \A h \in Holders, x \in Devices :
          requests'[h][x] # None \/ approvals'[h][x] # None => requests'[x][x] # None
    BY <1>2, <1>11, PullRecords DEF AskedFirst, Holders
  <2>4. \A f, x \in Devices : approvals'[f][x] # None => requests'[f][x] # None
    <3> SUFFICES ASSUME NEW f \in Devices, NEW x \in Devices, approvals'[f][x] # None
                 PROVE  requests'[f][x] # None
      OBVIOUS
    <3>1. f \in Holders
      BY DEF Holders
    <3>2. CASE approvals'[f][x] = approvals[f][x]
      BY <2>2, <3>2 DEF AskedFirst
    <3>3. CASE f = x
      BY <2>3, <3>1, <3>3
    <3> QED
      BY <3>2, <3>3, <1>11, PullRecords
  <2> QED
    BY <1>2, <2>1, <2>2, <2>3, <2>4, JobType DEF AskedFirst
<1>12. ASSUME NEW d \in Devices, UNCHANGED <<requests, approvals, invites>>,
              \A x \in Devices : job'[x] = job[x] \/ job'[x] = None \/ job'[x].do # "approve"
       PROVE  AskedFirst'
  BY <1>12 DEF AskedFirst
<1>13. ASSUME NEW d \in Devices, Join(d) PROVE AskedFirst'
  <2>1. ASSUME NEW i \in Invites, JoinById(d, i) PROVE AskedFirst'
    BY <1>1, <1>12, <2>1 DEF JoinById, records, Then
  <2>2. CASE RefuseJoin(d)
    BY <1>1, <1>12, <2>2 DEF RefuseJoin, records, joining, Then
  <2> QED
    BY <1>4, <1>5, <1>6, <1>13, <2>1, <2>2 DEF Join
<1>14. ASSUME NEW d \in Devices, Manage(d) PROVE AskedFirst'
  <2>1. CASE PublishInvite(d)
    BY <1>1, <1>12, <2>1 DEF PublishInvite, records, Then
  <2>2. ASSUME NEW x \in Devices, NEW envs \in SUBSET Environments, NEW t \in 0..MaxTime,
               Revoke(d, x, envs, t)
        PROVE  AskedFirst'
    BY <1>1, <1>12, <2>2 DEF Revoke, joining, Then
  <2>3. ASSUME NEW marked \in SUBSET Environments, MarkRotation(d, marked) PROVE AskedFirst'
    BY <1>1, <1>12, <2>3 DEF MarkRotation, records, joining, Then
  <2>4. CASE PublishRevocation(d)
    BY <1>1, <1>12, <2>4 DEF PublishRevocation, joining, Then
  <2> QED
    BY <1>3, <1>7, <1>8, <1>9, <1>10, <1>14, <2>1, <2>2, <2>3, <2>4 DEF Manage
<1>15. ASSUME NEW d \in Devices, Use(d) PROVE AskedFirst'
  <2>1. ASSUME NEW e \in Environments, NEW clears \in BOOLEAN, Push(d, e, clears)
        PROVE  AskedFirst'
    BY <1>12, <2>1 DEF Push, records, joining
  <2>2. CASE Abandon(d)
    BY <1>1, <1>12, <2>2 DEF Abandon, records, joining, Then
  <2> QED
    BY <1>11, <1>15, <2>1, <2>2 DEF Use
<1>16. CASE UNCHANGED vars
  BY <1>16 DEF vars, records, joining, AskedFirst
<1> QED
  BY <1>13, <1>14, <1>15, <1>16 DEF Next

-------------------------------------------------------------------------------
(* The creator *)

LEMMA CreatorInit == Init => CreatorUntouched
  BY MembershipAssumption DEF Init, CreatorUntouched, Holders

LEMMA CreatorStep == TypeOK /\ AskedFirst /\ CreatorUntouched /\ [Next]_vars => CreatorUntouched'
<1> SUFFICES ASSUME TypeOK, AskedFirst, CreatorUntouched, [Next]_vars, Creator \notin Joiners
             PROVE  CreatorUntouched'
  BY DEF CreatorUntouched
<1>1. /\ requests \in [Holders -> [Devices -> JoinRequest \cup {None}]]
      /\ revocations \in [Holders -> [Devices -> Revocation \cup {None}]]
      /\ invites \in [Invites -> Bundle \cup {None}]
      /\ job \in [Devices -> Job]
      /\ Relay \notin Devices /\ Creator \in Devices
  BY MembershipAssumption DEF TypeOK
<1>2. /\ requests[Creator][Creator] = None
      /\ job[Creator] # None => job[Creator].do # "request"
      /\ \A h \in Holders : requests[h][Creator] = None /\ revocations[h][Creator] = None
      /\ \A i \in Invites : invites[i] # None =>
           invites[i].requests[Creator] = None /\ invites[i].revocations[Creator] = None
  BY <1>1 DEF CreatorUntouched, AskedFirst, Holders
<1>3. ASSUME requests'[Creator][Creator] = None,
             job'[Creator] = job[Creator] \/ job'[Creator] = None \/ job'[Creator].do # "request",
             \A h \in Holders : revocations'[h][Creator] = None,
             \A i \in Invites : invites'[i] = invites[i]
               \/ \E d \in Devices : invites'[i].revocations = revocations[d]
      PROVE  CreatorUntouched'
  BY <1>2, <1>3 DEF CreatorUntouched, Holders
<1>4. ASSUME NEW d \in Devices, NEW i \in Invites, NEW allowed \in Selections,
             InviteCreate(d, i, allowed)
      PROVE  CreatorUntouched'
  <2>1. UNCHANGED <<requests, revocations>>
    BY <1>4 DEF InviteCreate, records
  <2>2. \A j \in Invites : invites'[j] = invites[j] \/ invites'[j].revocations = revocations[d]
    BY <1>1, <1>4 DEF InviteCreate
  <2>3. job'[Creator] = job[Creator] \/ job'[Creator].do = "invite"
    BY <1>1, <1>4 DEF InviteCreate, Then
  <2> QED
    BY <1>2, <1>3, <2>1, <2>2, <2>3
<1>5. ASSUME NEW d \in Devices, NEW i \in Invites, NEW n \in 0..AllWritten, ImportBundle(d, i, n)
      PROVE  CreatorUntouched'
  <2>1. /\ UNCHANGED invites
        /\ d # Creator
        /\ \A h \in Holders : h # d => requests'[h] = requests[h] /\ revocations'[h] = revocations[h]
        /\ revocations'[d] = Overlay(revocations[d], invites[i].revocations, n - 2 * NDevices)
        /\ invites[i] # None
        /\ job'[Creator] = job[Creator]
    BY <1>1, <1>5 DEF ImportBundle, Holders, Then
  <2>2. revocations'[d][Creator] = None
    BY <1>1, <1>2, <2>1, OverlayKeeps DEF Holders
  <2> QED
    BY <1>1, <1>2, <1>3, <2>1, <2>2 DEF Holders
<1>6. ASSUME NEW d \in Devices, NEW envs \in SUBSET Environments, WriteJoinRequest(d, envs)
      PROVE  CreatorUntouched'
  <2>1. d # Creator /\ UNCHANGED <<revocations, invites>>
    BY <1>2, <1>6 DEF WriteJoinRequest, joining
  <2>2. requests'[Creator] = requests[Creator] /\ job'[Creator] = job[Creator]
    BY <1>1, <1>6, <2>1 DEF WriteJoinRequest, Then, Holders
  <2> QED
    BY <1>2, <1>3, <2>1, <2>2
<1>7. ASSUME NEW d \in Devices, NEW x \in Devices, FetchRequest(d, x) PROVE CreatorUntouched'
  <2>1. x # Creator
    BY <1>2, <1>7 DEF FetchRequest, Holders
  <2>2. UNCHANGED <<revocations, invites>>
    BY <1>7 DEF FetchRequest, joining
  <2>3. requests'[Creator][Creator] = requests[Creator][Creator]
    BY <1>1, <1>7, <2>1 DEF FetchRequest, Holders
  <2>4. job'[Creator] = job[Creator] \/ job'[Creator].do = "approve"
    BY <1>1, <1>7 DEF FetchRequest, Then
  <2> QED
    BY <1>2, <1>3, <2>2, <2>3, <2>4
<1>8. ASSUME NEW d \in Devices, NEW x \in Devices, NEW envs \in SUBSET Environments,
             NEW t \in 0..MaxTime, Revoke(d, x, envs, t)
      PROVE  CreatorUntouched'
  <2>1. UNCHANGED <<requests, invites>> /\ x # Creator
    BY <1>8 DEF Revoke, joining
  <2>2. \A h \in Holders : revocations'[h][Creator] = revocations[h][Creator]
    BY <1>1, <1>8, <2>1 DEF Revoke
  <2>3. job'[Creator] = job[Creator] \/ job'[Creator].do = "mark"
    BY <1>1, <1>8 DEF Revoke, Then
  <2> QED
    BY <1>2, <1>3, <2>1, <2>2, <2>3
<1>9. ASSUME NEW d \in Devices, PublishRevocation(d) PROVE CreatorUntouched'
  <2>1. UNCHANGED <<requests, invites>>
    BY <1>9 DEF PublishRevocation, joining
  <2>2. \A h \in Holders : revocations'[h][Creator] = None
    <3>1. revocations[d][Creator] = None
      BY <1>2 DEF Holders
    <3> QED
      BY <1>1, <1>2, <1>9, <3>1 DEF PublishRevocation
  <2>3. job'[Creator] = job[Creator] \/ job'[Creator] = None
    BY <1>1, <1>9 DEF PublishRevocation, Then
  <2> QED
    BY <1>2, <1>3, <2>1, <2>2, <2>3
<1>10. ASSUME NEW d \in Devices, PublishRequest(d) PROVE CreatorUntouched'
  <2>1. UNCHANGED <<revocations, invites>>
    BY <1>10 DEF PublishRequest, joining
  <2>2. requests'[Creator] = requests[Creator]
    BY <1>1, <1>10 DEF PublishRequest, Holders
  <2>3. job'[Creator] = job[Creator] \/ job'[Creator] = None
    BY <1>1, <1>10 DEF PublishRequest, Then
  <2> QED
    BY <1>2, <1>3, <2>1, <2>2, <2>3
<1>11. ASSUME NEW d \in Devices, NEW e \in Environments, NEW n \in 1..4, Pull(d, e, n)
       PROVE  CreatorUntouched'
  <2>1. UNCHANGED <<invites, job>>
    BY <1>11, PullRecords DEF joining
  <2>2. requests'[Creator][Creator] = None
    BY <1>1, <1>2, <1>11, PullRecords DEF Holders
  <2>3. \A h \in Holders : revocations'[h][Creator] = None
    BY <1>1, <1>2, <1>11, PullRecords DEF Holders
  <2> QED
    BY <1>2, <1>3, <2>1, <2>2, <2>3
<1>12. ASSUME UNCHANGED <<requests, revocations, invites>>,
              job'[Creator] = job[Creator] \/ job'[Creator] = None \/ job'[Creator].do # "request"
       PROVE  CreatorUntouched'
  BY <1>2, <1>3, <1>12
<1>13. ASSUME NEW d \in Devices, Join(d) PROVE CreatorUntouched'
  <2>1. ASSUME NEW i \in Invites, JoinById(d, i) PROVE CreatorUntouched'
    BY <1>1, <1>12, <2>1 DEF JoinById, records, Then
  <2>2. CASE RefuseJoin(d)
    BY <1>1, <1>12, <2>2 DEF RefuseJoin, records, joining, Then
  <2> QED
    BY <1>5, <1>6, <1>10, <1>13, <2>1, <2>2 DEF Join
<1>14. ASSUME NEW d \in Devices, Manage(d) PROVE CreatorUntouched'
  <2>1. CASE PublishInvite(d)
    BY <1>1, <1>12, <2>1 DEF PublishInvite, records, Then
  <2>2. ASSUME NEW x \in Devices, UseOwnRequest(d, x) PROVE CreatorUntouched'
    BY <1>1, <1>12, <2>2 DEF UseOwnRequest, records, joining, Then
  <2>3. ASSUME NEW role \in Roles, NEW t \in 0..MaxTime, WriteApproval(d, role, t)
        PROVE  CreatorUntouched'
    BY <1>1, <1>12, <2>3 DEF WriteApproval, joining, Then
  <2>4. CASE PublishApproval(d)
    BY <1>1, <1>12, <2>4 DEF PublishApproval, joining, Then
  <2>5. ASSUME NEW marked \in SUBSET Environments, MarkRotation(d, marked)
        PROVE  CreatorUntouched'
    BY <1>1, <1>12, <2>5 DEF MarkRotation, records, joining, Then
  <2> QED
    BY <1>4, <1>7, <1>8, <1>9, <1>14, <2>1, <2>2, <2>3, <2>4, <2>5 DEF Manage
<1>15. ASSUME NEW d \in Devices, Use(d) PROVE CreatorUntouched'
  <2>1. ASSUME NEW e \in Environments, NEW clears \in BOOLEAN, Push(d, e, clears)
        PROVE  CreatorUntouched'
    BY <1>12, <2>1 DEF Push, records, joining
  <2>2. CASE Abandon(d)
    BY <1>1, <1>12, <2>2 DEF Abandon, records, joining, Then
  <2> QED
    BY <1>11, <1>15, <2>1, <2>2 DEF Use
<1>16. CASE UNCHANGED vars
  BY <1>12, <1>16 DEF vars, records, joining
<1> QED
  BY <1>13, <1>14, <1>15, <1>16 DEF Next

-------------------------------------------------------------------------------
(* Rotation markers *)

LEMMA MarksInit == Init => MarksRevoked
  BY DEF Init, MarksRevoked

LEMMA MarksStep == TypeOK /\ MarksRevoked /\ [Next]_vars => MarksRevoked'
<1> SUFFICES ASSUME TypeOK, MarksRevoked, [Next]_vars PROVE MarksRevoked'
  OBVIOUS
<1>1. /\ pending \in [Devices -> [Environments -> SUBSET Devices]]
      /\ job \in [Devices -> Job]
      /\ revocations \in [Holders -> [Devices -> Revocation \cup {None}]]
  BY DEF TypeOK
<1>2. \A d, x \in Devices : revocations[d][x] # None => revocations'[d][x] # None
  BY RevocationsStay
<1>3. ASSUME \A d \in Devices, e \in Environments : \A x \in pending'[d][e] :
               x \in pending[d][e] \/ revocations'[d][x] # None,
             \A d \in Devices :
               \/ job'[d] = job[d] \/ job'[d] = None \/ job'[d].do # "mark"
               \/ revocations'[d][job'[d].dev] # None
      PROVE  MarksRevoked'
  <2>1. ASSUME NEW d \in Devices, NEW e \in Environments, NEW x \in pending'[d][e]
        PROVE  revocations'[d][x] # None
    BY <1>1, <1>2, <1>3, <2>1 DEF MarksRevoked
  <2>2. ASSUME NEW d \in Devices, job'[d] # None, job'[d].do = "mark"
        PROVE  revocations'[d][job'[d].dev] # None
    BY <1>2, <1>3, <2>2, JobType DEF MarksRevoked
  <2> QED
    BY <2>1, <2>2 DEF MarksRevoked
<1>4. ASSUME UNCHANGED pending,
             \A d \in Devices : job'[d] = job[d] \/ job'[d] = None \/ job'[d].do # "mark"
      PROVE  MarksRevoked'
  BY <1>3, <1>4
<1>5. ASSUME NEW d \in Devices, NEW x \in Devices, NEW envs \in SUBSET Environments,
             NEW t \in 0..MaxTime, Revoke(d, x, envs, t)
      PROVE  MarksRevoked'
  <2>1. UNCHANGED pending
    BY <1>5 DEF Revoke, pushing
  <2>2. revocations'[d][x] # None
    <3>1. [by |-> d, at |-> t] # None
      BY RecordAssumption DEF Revocation
    <3> QED
      BY <1>1, <1>5, <3>1 DEF Revoke, Holders
  <2>3. \A f \in Devices : job'[f] = job[f] \/ (f = d /\ job'[f].dev = x)
    BY <1>1, <1>5 DEF Revoke, Then
  <2> QED
    BY <1>3, <2>1, <2>2, <2>3
<1>6. ASSUME NEW d \in Devices, NEW marked \in SUBSET Environments, MarkRotation(d, marked)
      PROVE  MarksRevoked'
  <2>1. revocations'[d][job[d].dev] # None
    BY <1>2, <1>6, JobType DEF MarkRotation, MarksRevoked
  <2>2. \A f \in Devices, e \in Environments :
          pending'[f][e] = pending[f][e]
            \/ (f = d /\ pending'[f][e] = pending[f][e] \cup {job[d].dev})
    BY <1>1, <1>6 DEF MarkRotation
  <2>3. \A f \in Devices : job'[f] = job[f] \/ job'[f] = None \/ job'[f].do = "revocation"
    BY <1>1, <1>6 DEF MarkRotation, Then
  <2> QED
    BY <1>3, <2>1, <2>2, <2>3
<1>7. ASSUME NEW d \in Devices, NEW e \in Environments, NEW clears \in BOOLEAN, Push(d, e, clears)
      PROVE  MarksRevoked'
  <2>1. UNCHANGED job
    BY <1>7 DEF Push
  <2>2. \A f \in Devices, g \in Environments :
          pending'[f][g] = pending[f][g] \/ pending'[f][g] = {}
    BY <1>1, <1>7 DEF Push
  <2> QED
    BY <1>3, <2>1, <2>2
<1>8. ASSUME NEW d \in Devices, Join(d) PROVE MarksRevoked'
  <2>1. ASSUME NEW i \in Invites, NEW n \in 0..AllWritten, ImportBundle(d, i, n)
        PROVE  MarksRevoked'
    BY <1>1, <1>4, <2>1 DEF ImportBundle, pushing, Then
  <2>2. ASSUME NEW i \in Invites, JoinById(d, i) PROVE MarksRevoked'
    BY <1>1, <1>4, <2>2 DEF JoinById, pushing, Then
  <2>3. ASSUME NEW envs \in SUBSET Environments, WriteJoinRequest(d, envs) PROVE MarksRevoked'
    BY <1>1, <1>4, <2>3 DEF WriteJoinRequest, pushing, Then
  <2>4. CASE RefuseJoin(d) \/ PublishRequest(d)
    BY <1>1, <1>4, <2>4 DEF RefuseJoin, PublishRequest, pushing, Then
  <2> QED
    BY <1>8, <2>1, <2>2, <2>3, <2>4 DEF Join
<1>9. ASSUME NEW d \in Devices, Manage(d) PROVE MarksRevoked'
  <2>1. ASSUME NEW i \in Invites, NEW allowed \in Selections, InviteCreate(d, i, allowed)
        PROVE  MarksRevoked'
    BY <1>1, <1>4, <2>1 DEF InviteCreate, pushing, Then
  <2>2. ASSUME NEW x \in Devices, FetchRequest(d, x) \/ UseOwnRequest(d, x) PROVE MarksRevoked'
    BY <1>1, <1>4, <2>2 DEF FetchRequest, UseOwnRequest, pushing, Then
  <2>3. ASSUME NEW role \in Roles, NEW t \in 0..MaxTime, WriteApproval(d, role, t)
        PROVE  MarksRevoked'
    BY <1>1, <1>4, <2>3 DEF WriteApproval, pushing, Then
  <2>4. CASE PublishInvite(d) \/ PublishApproval(d) \/ PublishRevocation(d)
    BY <1>1, <1>4, <2>4 DEF PublishInvite, PublishApproval, PublishRevocation, pushing, Then
  <2> QED
    BY <1>5, <1>6, <1>9, <2>1, <2>2, <2>3, <2>4 DEF Manage
<1>10. ASSUME NEW d \in Devices, Use(d) PROVE MarksRevoked'
  <2>1. ASSUME NEW e \in Environments, NEW n \in 1..4, Pull(d, e, n) PROVE MarksRevoked'
    BY <1>4, <2>1, PullRecords
  <2>2. CASE Abandon(d)
    BY <1>1, <1>4, <2>2 DEF Abandon, pushing, Then
  <2> QED
    BY <1>7, <1>10, <2>1, <2>2 DEF Use
<1>11. CASE UNCHANGED vars
  BY <1>4, <1>11 DEF vars, pushing
<1> QED
  BY <1>8, <1>9, <1>10, <1>11 DEF Next

-------------------------------------------------------------------------------
(* The theorems *)

LEMMA GenesisManages == CanManageAccess(Genesis) /\ IsOwner(Genesis)
<1>1. Genesis \in Entry
  BY DEF Genesis, Entry
<1>2. Genesis # None
  BY <1>1, RecordAssumption
<1> QED
  BY <1>2 DEF CanManageAccess, IsOwner, Genesis

(***************************************************************************)
(* Types, requests before approvals, an untouched creator and markers with *)
(* their revocations: the inductive invariant of access.rs and auth.rs.    *)
(***************************************************************************)
THEOREM AccessInvariant == Spec => []AccessInv
<1>1. Init => AccessInv
  BY TypeInit, AskedInit, CreatorInit, MarksInit DEF AccessInv
<1>2. AccessInv /\ [Next]_vars => AccessInv'
  BY TypeStep, AskedStep, CreatorStep, MarksStep DEF AccessInv
<1> QED
  BY <1>1, <1>2, PTL DEF Spec

(* Every variable keeps its type, whatever breaks off half-way. *)
THEOREM MembershipTypeCorrect == Spec => []TypeOK
<1>1. AccessInv => TypeOK
  BY DEF AccessInv
<1> QED
  BY <1>1, AccessInvariant, PTL

(***************************************************************************)
(* A creator that does not join its own project is an owner in every       *)
(* checkout that loads: no approval replaces it and no revocation names it.*)
(***************************************************************************)
THEOREM CreatorKeepsStanding == Spec => []CreatorStaysOwner
<1>1. AccessInv => CreatorStaysOwner
  <2> SUFFICES ASSUME AccessInv, Creator \notin Joiners, NEW d \in Devices
               PROVE  IsOwner(Active(d, Creator))
    BY DEF CreatorStaysOwner
  <2>1. Creator \in Devices /\ d \in Holders
    BY MembershipAssumption DEF Holders
  <2>2. revocations[d][Creator] = None /\ requests[Creator][Creator] = None
    BY <2>1 DEF AccessInv, CreatorUntouched
  <2>3. approvals[d][Creator] = None
    BY <2>1, <2>2 DEF AccessInv, AskedFirst
  <2>4. Genesis # None
    BY GenesisManages DEF IsOwner
  <2> QED
    BY <2>2, <2>3, <2>4 DEF Active, Approved, IsOwner, Genesis
<1> QED
  BY <1>1, AccessInvariant, PTL

(***************************************************************************)
(* With the creator as the only manager the records of every checkout      *)
(* load, after any import that broke off and for any dates: the signer is  *)
(* the genesis owner and nobody is approved without a join request.        *)
(***************************************************************************)
THEOREM CheckoutsLoad == Spec => []EveryCheckoutLoads
<1>1. AccessInv => EveryCheckoutLoads
  <2> SUFFICES ASSUME AccessInv, OneManager, NEW d \in Devices
               PROVE  Loads(d)
    BY DEF EveryCheckoutLoads
  <2>1. Creator \in Devices /\ d \in Holders /\ Creator \notin Joiners
    BY MembershipAssumption DEF Holders, OneManager
  <2>2. revocations[d][Creator] = None /\ requests[Creator][Creator] = None
    BY <2>1 DEF AccessInv, CreatorUntouched
  <2>3. approvals[d][Creator] = None
    BY <2>1, <2>2 DEF AccessInv, AskedFirst
  <2>4. CanManageAccess(Genesis) /\ IsOwner(Genesis)
    BY GenesisManages
  <2>5. ASSUME NEW x \in Devices, approvals[d][x] # None PROVE ApprovalStands(d, x)
    <3>1. approvals[d][x].by = Creator
      BY <2>1, <2>5 DEF OneManager
    <3>2. requests[d][x] # None
      BY <2>5 DEF AccessInv, AskedFirst
    <3>3. ApprovedBefore(d, Creator, x) = Genesis
      BY <2>3 DEF ApprovedBefore
    <3> QED
      BY <2>4, <3>1, <3>2, <3>3 DEF ApprovalStands
  <2>6. ASSUME NEW x \in Devices, revocations[d][x] # None PROVE RevocationStands(d, x)
    <3>1. revocations[d][x].by = Creator
      BY <2>1, <2>6 DEF OneManager
    <3>2. Approved(d, Creator) = Genesis /\ ~RevokedBefore(d, Creator, x)
      BY <2>2, <2>3 DEF Approved, RevokedBefore
    <3> QED
      BY <2>4, <3>1, <3>2 DEF RevocationStands
  <2> QED
    BY <2>5, <2>6 DEF Loads
<1> QED
  BY <1>1, AccessInvariant, PTL

(***************************************************************************)
(* Once a checkout holds the revocation of a device, the device is not     *)
(* active in that checkout after any later step.                           *)
(***************************************************************************)
THEOREM RevocationsAreFinal == Spec => RevocationIsFinal
<1>1. AccessInv /\ [Next]_vars =>
        \A d, x \in Devices : revocations[d][x] # None => Shut(d, x)'
  BY RevocationsStay DEF AccessInv, Shut, Active
<1> QED
  BY <1>1, AccessInvariant, PTL DEF Spec, RevocationIsFinal

(***************************************************************************)
(* The push that clears a marker wraps the key for none of the devices the *)
(* marker names: their revocations are in the author's checkout, and an    *)
(* author revoked itself may not push over a marker.                       *)
(***************************************************************************)
THEOREM MarkersOutlastReaders == Spec => RotatedBeforeCleared
<1>1. ASSUME AccessInv, [Next]_vars, NEW d \in Devices, NEW e \in Environments,
             pending[d][e] # {}, pending'[d][e] = {}
      PROVE  head'[e].readers \cap pending[d][e] = {}
  <2>1. /\ pending \in [Devices -> [Environments -> SUBSET Devices]]
        /\ head \in [Environments -> Revision \cup {None}]
    BY <1>1 DEF AccessInv, TypeOK
  <2>2. PICK clears \in BOOLEAN : Push(d, e, clears)
    <3>1. ASSUME NEW f \in Devices, Join(f) PROVE UNCHANGED pending
      BY <3>1 DEF Join, ImportBundle, JoinById, WriteJoinRequest, RefuseJoin, PublishRequest, pushing
    <3>2. ASSUME NEW f \in Devices, NEW marked \in SUBSET Environments, MarkRotation(f, marked)
          PROVE  pending[d][e] \subseteq pending'[d][e]
      BY <2>1, <3>2 DEF MarkRotation
    <3>3. ASSUME NEW f \in Devices, Manage(f)
          PROVE  pending[d][e] \subseteq pending'[d][e]
      BY <3>2, <3>3
      DEF Manage, InviteCreate, PublishInvite, FetchRequest, UseOwnRequest, WriteApproval,
          PublishApproval, Revoke, PublishRevocation, pushing
    <3>4. ASSUME NEW f \in Devices, Use(f)
          PROVE  pending[d][e] \subseteq pending'[d][e]
                   \/ \E clears \in BOOLEAN : Push(d, e, clears)
      <4>1. ASSUME NEW g \in Environments, NEW n \in 1..4, Pull(f, g, n) PROVE UNCHANGED pending
        BY <1>1, <4>1, PullRecords DEF AccessInv
      <4>2. ASSUME NEW g \in Environments, NEW clears \in BOOLEAN, Push(f, g, clears),
                   f # d \/ g # e
            PROVE  pending'[d][e] = pending[d][e]
        BY <2>1, <4>2 DEF Push
      <4> QED
        BY <3>4, <4>1, <4>2 DEF Use, Abandon, pushing
    <3> QED
      BY <1>1, <3>1, <3>3, <3>4 DEF Next, vars, pushing
  <2>3. head'[e].readers = Readers(d, e)
    BY <2>1, <2>2 DEF Push
  <2>4. ASSUME NEW x \in pending[d][e] PROVE x \notin Readers(d, e)
    <3>1. x \in Devices /\ revocations[d][x] # None
      BY <1>1, <2>1 DEF AccessInv, MarksRevoked
    <3>2. Active(d, x) = None
      BY <3>1 DEF Active
    <3>3. x # d
      BY <1>1, <2>2, <3>2 DEF Push, Manages, CanManageAccess
    <3> QED
      BY <3>2, <3>3 DEF Readers, CanAccess, IsOwner
  <2> QED
    BY <2>3, <2>4
<1>2. AccessInv /\ [Next]_vars =>
        \A d \in Devices, e \in Environments :
          pending[d][e] # {} /\ pending'[d][e] = {} => head'[e].readers \cap pending[d][e] = {}
  BY <1>1
<1> QED
  BY <1>2, AccessInvariant, PTL DEF Spec, RotatedBeforeCleared

-------------------------------------------------------------------------------
(* Reading the records in the order of their dates *)

(* A set of naturals with 0 and the successor of every member has them all. *)
LEMMA NatsByInduction ==
  ASSUME NEW S, 0 \in S, \A n \in Nat : n \in S => n + 1 \in S
  PROVE  Nat \subseteq S
<1> DEFINE Less == {p \in Nat \X Nat : p[1] < p[2]}
           Rest == Nat \ S
<1>1. IsWellFoundedOn(Less, Nat)
  BY NatLessThanWellFounded DEF OpToRel
<1> SUFFICES ASSUME Rest # {} PROVE FALSE
  OBVIOUS
<1>2. PICK x \in Rest : \A y \in Rest : ~(<<y, x>> \in Less)
  <2>1. Rest \subseteq Nat /\ Rest # {}
    OBVIOUS
  <2> HIDE DEF Rest, Less
  <2> QED
    BY <1>1, <2>1, WFMin, Zenon
<1>3. x \in Nat /\ x # 0 /\ x \notin S
  OBVIOUS
<1>4. x - 1 \in Nat /\ <<x - 1, x>> \in Less
  BY <1>3
<1>5. x - 1 \in S
  BY <1>2, <1>4
<1>6. (x - 1) + 1 = x
  BY <1>3
<1> QED
  BY <1>3, <1>4, <1>5, <1>6

Dated(r) == \A x \in Recorded(r) : r[x].at \in Nat

(* No two records of a kind are read at the same time. *)
LEMMA ReadOneByOne ==
  ASSUME NEW r, Dated(r)
  PROVE  /\ \A x \in Recorded(r) : ~Earlier(r, x, x)
         /\ \A x, y \in Recorded(r) : x # y => Earlier(r, x, y) \/ Earlier(r, y, x)
         /\ \A x, y \in Recorded(r) : Earlier(r, x, y) => ~Earlier(r, y, x)
         /\ \A x, y, z \in Recorded(r) :
              Earlier(r, x, y) /\ Earlier(r, y, z) => Earlier(r, x, z)
<1>1. \A x \in Devices : Rank[x] \in Nat
  <2>1. Rank \in [Devices -> 1..Cardinality(Devices)] /\ Cardinality(Devices) \in Nat
    BY MembershipAssumption, FS_CardinalityType
  <2> QED
    BY <2>1
<1>2. \A x, y \in Devices : Rank[x] = Rank[y] => x = y
  BY MembershipAssumption
<1>3. Recorded(r) \subseteq Devices /\ \A x \in Recorded(r) : r[x].at \in Nat
  BY DEF Recorded, Dated
<1> QED
  BY <1>1, <1>2, <1>3 DEF Earlier

(* Some record of a set is read last. *)
LEMMA SomeIsLatest ==
  ASSUME NEW r, Dated(r), NEW S \in SUBSET Recorded(r), S # {}
  PROVE  Latest(r, S) \in S /\ \A y \in S \ {Latest(r, S)} : Earlier(r, y, Latest(r, S))
<1> DEFINE IsLast(x, U) == x \in U /\ \A y \in U \ {x} : Earlier(r, y, x)
           N == {n \in Nat : \A U \in SUBSET Recorded(r) :
                               IsFiniteSet(U) /\ Cardinality(U) = n /\ U # {} =>
                                 \E x \in U : IsLast(x, U)}
<1>1. 0 \in N
  BY FS_EmptySet
<1>2. ASSUME NEW n \in Nat, n \in N PROVE n + 1 \in N
  <2> SUFFICES ASSUME NEW U \in SUBSET Recorded(r), IsFiniteSet(U), Cardinality(U) = n + 1, U # {}
               PROVE  \E x \in U : IsLast(x, U)
    OBVIOUS
  <2>1. PICK x \in U : TRUE
    OBVIOUS
  <2>2. IsFiniteSet(U \ {x}) /\ Cardinality(U \ {x}) = n
    <3>1. IsFiniteSet(U \ {x}) /\ Cardinality(U \ {x}) = Cardinality(U) - 1
      BY FS_RemoveElement
    <3> QED
      BY <3>1
  <2>3. CASE U \ {x} = {}
    BY <2>3
  <2>4. CASE U \ {x} # {}
    <3>1. PICK z \in U \ {x} : IsLast(z, U \ {x})
      BY <1>2, <2>2, <2>4
    <3>2. x \in Recorded(r) /\ z \in Recorded(r) /\ U \subseteq Recorded(r)
      OBVIOUS
    <3>3. CASE Earlier(r, x, z)
      BY <3>1, <3>3
    <3>4. CASE Earlier(r, z, x)
      BY <3>1, <3>2, <3>4, ReadOneByOne
    <3> QED
      BY <3>1, <3>2, <3>3, <3>4, ReadOneByOne
  <2> QED
    BY <2>3, <2>4
<1>3. Nat \subseteq N
  <2> HIDE DEF N
  <2> QED
    BY <1>1, <1>2, NatsByInduction
<1>4. IsFiniteSet(S) /\ Cardinality(S) \in Nat
  <2>1. S \subseteq Devices /\ IsFiniteSet(Devices)
    BY MembershipAssumption DEF Recorded
  <2> QED
    BY <2>1, FS_Subset, FS_CardinalityType
<1>5. \E x \in S : IsLast(x, S)
  BY <1>3, <1>4
<1> QED
  BY <1>5 DEF Latest

(* A set that has with each of its records all that are read earlier. *)
ReadSoFar(r, S) ==
  S \subseteq Recorded(r) /\ \A x \in S, y \in Recorded(r) : Earlier(r, y, x) => y \in S

(* Without the latest of them it is what was read before that one. *)
LEMMA ReadBefore ==
  ASSUME NEW r, Dated(r), NEW S, ReadSoFar(r, S), S # {}
  PROVE  LET x == Latest(r, S) IN
         /\ x \in S
         /\ ReadSoFar(r, S \ {x})
         /\ \A y \in Devices : y \in S \ {x} <=> r[y] # None /\ Earlier(r, y, x)
<1> DEFINE x == Latest(r, S)
<1>1. x \in S /\ \A y \in S \ {x} : Earlier(r, y, x)
  BY SomeIsLatest DEF ReadSoFar
<1> HIDE DEF x
<1>2. S \subseteq Recorded(r) /\ \A y \in S, z \in Recorded(r) : Earlier(r, z, y) => z \in S
  BY DEF ReadSoFar
<1>3. ReadSoFar(r, S \ {x})
  <2> SUFFICES ASSUME NEW y \in S \ {x}, NEW z \in Recorded(r), Earlier(r, z, y)
               PROVE  z \in S \ {x}
    BY <1>2 DEF ReadSoFar
  <2> QED
    BY <1>1, <1>2, ReadOneByOne
<1>4. \A y \in Devices : y \in S \ {x} <=> r[y] # None /\ Earlier(r, y, x)
  BY <1>1, <1>2, ReadOneByOne DEF Recorded
<1> QED
  BY <1>1, <1>3, <1>4 DEF x

(* ReadApprovals is defined for every set of records: for those with at most n of them
   it is, whatever n. *)
LEMMA ApprovalsAreRead ==
  ASSUME NEW h, Dated(approvals[h])
  PROVE  \A S \in SUBSET Recorded(approvals[h]) :
           ReadApprovals(h)[S] =
             IF S = {} THEN GenesisLoad
             ELSE ReadApproval(h, ReadApprovals(h)[S \ {Latest(approvals[h], S)}],
                              Latest(approvals[h], S))
<1> DEFINE r == approvals[h]
           Small(n) == {S \in SUBSET Recorded(r) : Cardinality(S) <= n}
           Next1(f, S) == IF S = {} THEN GenesisLoad
                          ELSE ReadApproval(h, f[S \ {Latest(r, S)}], Latest(r, S))
           Good(f, n) == \A S \in Small(n) : f[S] = Next1(f, S)
           N == {n \in Nat : \E f : Good(f, n)}
           Whole(f) == f = [S \in SUBSET Recorded(r) |-> Next1(f, S)]
<1>1. \A S \in SUBSET Recorded(r) :
        /\ IsFiniteSet(S) /\ Cardinality(S) \in Nat
        /\ Cardinality(S) <= Cardinality(Devices)
  <2>1. IsFiniteSet(Devices) /\ Recorded(r) \subseteq Devices
    BY MembershipAssumption DEF Recorded
  <2> QED
    BY <2>1, FS_Subset, FS_CardinalityType
<1>2. ASSUME NEW S \in SUBSET Recorded(r), S # {}
      PROVE  /\ S \ {Latest(r, S)} \in SUBSET Recorded(r)
             /\ Cardinality(S \ {Latest(r, S)}) = Cardinality(S) - 1
             /\ Cardinality(S) # 0
  <2>1. Latest(r, S) \in S
    BY <1>2, SomeIsLatest
  <2>2. Cardinality(S) # 0
    BY <1>1, <1>2, FS_EmptySet
  <2> QED
    BY <1>1, <2>1, <2>2, FS_RemoveElement
<1>3. 0 \in N
  <2> DEFINE f == [S \in SUBSET Recorded(r) |-> GenesisLoad]
  <2>1. \A S \in Small(0) : S = {}
    BY <1>1, FS_EmptySet
  <2>2. \A S \in SUBSET Recorded(r) : f[S] = GenesisLoad
    OBVIOUS
  <2> HIDE DEF f
  <2>3. Good(f, 0)
    BY <2>1, <2>2
  <2> QED
    BY <2>3, Zenon
<1>4. ASSUME NEW n \in Nat, n \in N PROVE n + 1 \in N
  <2>1. PICK f : Good(f, n)
    BY <1>4
  <2> DEFINE g == [S \in SUBSET Recorded(r) |-> Next1(f, S)]
  <2>2. \A S \in SUBSET Recorded(r) : g[S] = Next1(f, S)
    BY Zenon
  <2> HIDE DEF g
  <2>3. \A S \in Small(n) : g[S] = f[S]
    <3> HIDE DEF Next1
    <3> QED
      BY <2>1, <2>2
  <2>4. Good(g, n + 1)
    <3> SUFFICES ASSUME NEW S \in Small(n + 1) PROVE g[S] = Next1(g, S)
      OBVIOUS
    <3>1. S \in SUBSET Recorded(r) /\ Cardinality(S) <= n + 1
      OBVIOUS
    <3>2. CASE S = {}
      BY <2>2, <3>1, <3>2
    <3>3. CASE S # {}
      <4>1. S \ {Latest(r, S)} \in Small(n)
        <5>1. Cardinality(S) \in Nat
          BY <1>1, <3>1
        <5> QED
          BY <1>2, <3>1, <3>3, <5>1
      <4>2. g[S \ {Latest(r, S)}] = f[S \ {Latest(r, S)}]
        BY <2>3, <4>1
      <4>3. /\ Next1(f, S) = ReadApproval(h, f[S \ {Latest(r, S)}], Latest(r, S))
            /\ Next1(g, S) = ReadApproval(h, g[S \ {Latest(r, S)}], Latest(r, S))
        BY <3>3, Zenon
      <4> QED
        BY <2>2, <3>1, <4>2, <4>3, Zenon
    <3> QED
      BY <3>2, <3>3
  <2>5. n + 1 \in Nat
    OBVIOUS
  <2> HIDE DEF Good
  <2> QED
    BY <2>4, <2>5
<1>5. \E f : Whole(f)
  <2>1. Nat \subseteq N
    <3> HIDE DEF N
    <3> QED
      BY <1>3, <1>4, NatsByInduction
  <2>2. Cardinality(Devices) \in Nat
    BY MembershipAssumption, FS_CardinalityType
  <2>3. PICK f : Good(f, Cardinality(Devices))
    BY <2>1, <2>2
  <2> DEFINE g == [S \in SUBSET Recorded(r) |-> f[S]]
  <2>4. \A S \in SUBSET Recorded(r) : g[S] = f[S]
    BY Zenon
  <2>5. g = [S \in SUBSET Recorded(r) |-> g[S]]
    BY Zenon
  <2> HIDE DEF g
  <2>6. \A S \in SUBSET Recorded(r) : f[S] = Next1(f, S)
    <3> HIDE DEF Next1
    <3> QED
      BY <1>1, <2>3
  <2>7. \A S \in SUBSET Recorded(r) : g[S] = Next1(g, S)
    <3> SUFFICES ASSUME NEW S \in SUBSET Recorded(r) PROVE g[S] = Next1(g, S)
      OBVIOUS
    <3>1. CASE S = {}
      BY <2>4, <2>6, <3>1
    <3>2. CASE S # {}
      <4>1. g[S \ {Latest(r, S)}] = f[S \ {Latest(r, S)}]
        BY <1>2, <2>4, <3>2
      <4>2. /\ Next1(f, S) = ReadApproval(h, f[S \ {Latest(r, S)}], Latest(r, S))
            /\ Next1(g, S) = ReadApproval(h, g[S \ {Latest(r, S)}], Latest(r, S))
        BY <3>2, Zenon
      <4> QED
        BY <2>4, <2>6, <4>1, <4>2, Zenon
    <3> QED
      BY <3>1, <3>2
  <2>8. g = [S \in SUBSET Recorded(r) |-> Next1(g, S)]
    <3> HIDE DEF Next1
    <3> QED
      BY <2>5, <2>7
  <2>9. Whole(g)
    BY <2>8, Zenon
  <2> HIDE DEF Whole
  <2> QED
    BY <2>9
<1> DEFINE f == CHOOSE f : Whole(f)
<1>6. Whole(f)
  <2> HIDE DEF Whole
  <2> QED
    BY <1>5
<1>7. ReadApprovals(h) = f
  BY Zenon DEF ReadApprovals
<1> HIDE DEF f
<1>8. \A S \in SUBSET Recorded(r) : f[S] = Next1(f, S)
  <2> DEFINE b == [S \in SUBSET Recorded(r) |-> Next1(f, S)]
  <2>1. \A S \in SUBSET Recorded(r) : b[S] = Next1(f, S)
    BY Zenon
  <2>2. f = b
    BY <1>6, Zenon
  <2> HIDE DEF b, Next1
  <2> QED
    BY <2>1, <2>2
<1> QED
  BY <1>7, <1>8, Zenon

(* ReadRevocations is defined for every set of records: for those with at most n of them
   it is, whatever n. *)
LEMMA RevocationsAreRead ==
  ASSUME NEW h, Dated(revocations[h])
  PROVE  \A S \in SUBSET Recorded(revocations[h]) :
           ReadRevocations(h)[S] =
             IF S = {} THEN ReadApprovals(h)[Recorded(approvals[h])]
             ELSE ReadRevocation(h, ReadRevocations(h)[S \ {Latest(revocations[h], S)}],
                              Latest(revocations[h], S))
<1> DEFINE r == revocations[h]
           Small(n) == {S \in SUBSET Recorded(r) : Cardinality(S) <= n}
           Next1(f, S) == IF S = {} THEN ReadApprovals(h)[Recorded(approvals[h])]
                          ELSE ReadRevocation(h, f[S \ {Latest(r, S)}], Latest(r, S))
           Good(f, n) == \A S \in Small(n) : f[S] = Next1(f, S)
           N == {n \in Nat : \E f : Good(f, n)}
           Whole(f) == f = [S \in SUBSET Recorded(r) |-> Next1(f, S)]
<1>1. \A S \in SUBSET Recorded(r) :
        /\ IsFiniteSet(S) /\ Cardinality(S) \in Nat
        /\ Cardinality(S) <= Cardinality(Devices)
  <2>1. IsFiniteSet(Devices) /\ Recorded(r) \subseteq Devices
    BY MembershipAssumption DEF Recorded
  <2> QED
    BY <2>1, FS_Subset, FS_CardinalityType
<1>2. ASSUME NEW S \in SUBSET Recorded(r), S # {}
      PROVE  /\ S \ {Latest(r, S)} \in SUBSET Recorded(r)
             /\ Cardinality(S \ {Latest(r, S)}) = Cardinality(S) - 1
             /\ Cardinality(S) # 0
  <2>1. Latest(r, S) \in S
    BY <1>2, SomeIsLatest
  <2>2. Cardinality(S) # 0
    BY <1>1, <1>2, FS_EmptySet
  <2> QED
    BY <1>1, <2>1, <2>2, FS_RemoveElement
<1>3. 0 \in N
  <2> DEFINE f == [S \in SUBSET Recorded(r) |-> ReadApprovals(h)[Recorded(approvals[h])]]
  <2>1. \A S \in Small(0) : S = {}
    BY <1>1, FS_EmptySet
  <2>2. \A S \in SUBSET Recorded(r) : f[S] = ReadApprovals(h)[Recorded(approvals[h])]
    OBVIOUS
  <2> HIDE DEF f
  <2>3. Good(f, 0)
    BY <2>1, <2>2
  <2> QED
    BY <2>3, Zenon
<1>4. ASSUME NEW n \in Nat, n \in N PROVE n + 1 \in N
  <2>1. PICK f : Good(f, n)
    BY <1>4
  <2> DEFINE g == [S \in SUBSET Recorded(r) |-> Next1(f, S)]
  <2>2. \A S \in SUBSET Recorded(r) : g[S] = Next1(f, S)
    BY Zenon
  <2> HIDE DEF g
  <2>3. \A S \in Small(n) : g[S] = f[S]
    <3> HIDE DEF Next1
    <3> QED
      BY <2>1, <2>2
  <2>4. Good(g, n + 1)
    <3> SUFFICES ASSUME NEW S \in Small(n + 1) PROVE g[S] = Next1(g, S)
      OBVIOUS
    <3>1. S \in SUBSET Recorded(r) /\ Cardinality(S) <= n + 1
      OBVIOUS
    <3>2. CASE S = {}
      BY <2>2, <3>1, <3>2
    <3>3. CASE S # {}
      <4>1. S \ {Latest(r, S)} \in Small(n)
        <5>1. Cardinality(S) \in Nat
          BY <1>1, <3>1
        <5> QED
          BY <1>2, <3>1, <3>3, <5>1
      <4>2. g[S \ {Latest(r, S)}] = f[S \ {Latest(r, S)}]
        BY <2>3, <4>1
      <4>3. /\ Next1(f, S) = ReadRevocation(h, f[S \ {Latest(r, S)}], Latest(r, S))
            /\ Next1(g, S) = ReadRevocation(h, g[S \ {Latest(r, S)}], Latest(r, S))
        BY <3>3, Zenon
      <4> QED
        BY <2>2, <3>1, <4>2, <4>3, Zenon
    <3> QED
      BY <3>2, <3>3
  <2>5. n + 1 \in Nat
    OBVIOUS
  <2> HIDE DEF Good
  <2> QED
    BY <2>4, <2>5
<1>5. \E f : Whole(f)
  <2>1. Nat \subseteq N
    <3> HIDE DEF N
    <3> QED
      BY <1>3, <1>4, NatsByInduction
  <2>2. Cardinality(Devices) \in Nat
    BY MembershipAssumption, FS_CardinalityType
  <2>3. PICK f : Good(f, Cardinality(Devices))
    BY <2>1, <2>2
  <2> DEFINE g == [S \in SUBSET Recorded(r) |-> f[S]]
  <2>4. \A S \in SUBSET Recorded(r) : g[S] = f[S]
    BY Zenon
  <2>5. g = [S \in SUBSET Recorded(r) |-> g[S]]
    BY Zenon
  <2> HIDE DEF g
  <2>6. \A S \in SUBSET Recorded(r) : f[S] = Next1(f, S)
    <3> HIDE DEF Next1
    <3> QED
      BY <1>1, <2>3
  <2>7. \A S \in SUBSET Recorded(r) : g[S] = Next1(g, S)
    <3> SUFFICES ASSUME NEW S \in SUBSET Recorded(r) PROVE g[S] = Next1(g, S)
      OBVIOUS
    <3>1. CASE S = {}
      BY <2>4, <2>6, <3>1
    <3>2. CASE S # {}
      <4>1. g[S \ {Latest(r, S)}] = f[S \ {Latest(r, S)}]
        BY <1>2, <2>4, <3>2
      <4>2. /\ Next1(f, S) = ReadRevocation(h, f[S \ {Latest(r, S)}], Latest(r, S))
            /\ Next1(g, S) = ReadRevocation(h, g[S \ {Latest(r, S)}], Latest(r, S))
        BY <3>2, Zenon
      <4> QED
        BY <2>4, <2>6, <4>1, <4>2, Zenon
    <3> QED
      BY <3>1, <3>2
  <2>8. g = [S \in SUBSET Recorded(r) |-> Next1(g, S)]
    <3> HIDE DEF Next1
    <3> QED
      BY <2>5, <2>7
  <2>9. Whole(g)
    BY <2>8, Zenon
  <2> HIDE DEF Whole
  <2> QED
    BY <2>9
<1> DEFINE f == CHOOSE f : Whole(f)
<1>6. Whole(f)
  <2> HIDE DEF Whole
  <2> QED
    BY <1>5
<1>7. ReadRevocations(h) = f
  BY Zenon DEF ReadRevocations
<1> HIDE DEF f
<1>8. \A S \in SUBSET Recorded(r) : f[S] = Next1(f, S)
  <2> DEFINE b == [S \in SUBSET Recorded(r) |-> Next1(f, S)]
  <2>1. \A S \in SUBSET Recorded(r) : b[S] = Next1(f, S)
    BY Zenon
  <2>2. f = b
    BY <1>6, Zenon
  <2> HIDE DEF b, Next1
  <2> QED
    BY <2>1, <2>2
<1> QED
  BY <1>7, <1>8, Zenon

(* What the records of a checkout say, read or not. *)
LEMMA RecordTypesOf ==
  ASSUME TypeOK, NEW h \in Holders
  PROVE  /\ Dated(approvals[h]) /\ Dated(revocations[h])
         /\ \A x \in Recorded(approvals[h]) : approvals[h][x].by \in Devices
         /\ \A x \in Recorded(revocations[h]) : revocations[h][x].by \in Devices
<1>1. /\ \A x \in Recorded(approvals[h]) : approvals[h][x] \in Approval
      /\ \A x \in Recorded(revocations[h]) : revocations[h][x] \in Revocation
  BY DEF TypeOK, Recorded
<1>2. 0..MaxTime \subseteq Nat
  BY MembershipAssumption
<1> QED
  BY <1>1, <1>2 DEF Dated, Approval, Revocation

LEMMA NobodyManagesAsNone == ~CanManageAccess(None)
  BY DEF CanManageAccess

(* What is known after each approval: the devices approved so far, and whether
   all of their approvals stand. *)
LEMMA ApprovalsSoFar ==
  ASSUME TypeOK, NEW h \in Holders, NEW S, ReadSoFar(approvals[h], S)
  PROVE  LET load == ReadApprovals(h)[S] IN
         /\ load.ok <=> \A x \in S : ApprovalStands(h, x)
         /\ load.devices = [d \in Devices |-> IF d \in S THEN Granted(approvals[h][d])
                                              ELSE IF d = Creator THEN Genesis ELSE None]
<1> DEFINE r == approvals[h]
           load(U) == ReadApprovals(h)[U]
           Known(U) == [d \in Devices |-> IF d \in U THEN Granted(r[d])
                                          ELSE IF d = Creator THEN Genesis ELSE None]
           Correct(U) == /\ load(U).ok <=> \A x \in U : ApprovalStands(h, x)
                         /\ load(U).devices = Known(U)
           N == {n \in Nat : \A U : ReadSoFar(r, U) /\ Cardinality(U) = n => Correct(U)}
<1>1. Dated(r) /\ \A x \in Recorded(r) : r[x].by \in Devices
  BY RecordTypesOf
<1>2. ASSUME NEW U, ReadSoFar(r, U) PROVE IsFiniteSet(U) /\ Cardinality(U) \in Nat
  <2>1. IsFiniteSet(Devices) /\ U \subseteq Devices
    BY <1>2, MembershipAssumption DEF Recorded, ReadSoFar
  <2> QED
    BY <2>1, FS_Subset, FS_CardinalityType
<1>3. Correct({})
  <2>1. {} \in SUBSET Recorded(r)
    OBVIOUS
  <2>2. load({}) = GenesisLoad
    BY <1>1, <2>1, ApprovalsAreRead
  <2> QED
    BY <2>2 DEF GenesisLoad
<1>4. 0 \in N
  <2> SUFFICES ASSUME NEW U, ReadSoFar(r, U), Cardinality(U) = 0 PROVE U = {}
    BY <1>3
  <2> QED
    BY <1>2, FS_EmptySet
<1>5. ASSUME NEW n \in Nat, n \in N PROVE n + 1 \in N
  <2> SUFFICES ASSUME NEW U, ReadSoFar(r, U), Cardinality(U) = n + 1 PROVE Correct(U)
    OBVIOUS
  <2>1. U # {}
    BY FS_EmptySet
  <2> DEFINE x == Latest(r, U)
             a == r[x]
             before == load(U \ {x})
             signer == before.devices[a.by]
  <2>2. /\ x \in U
        /\ ReadSoFar(r, U \ {x})
        /\ \A y \in Devices : y \in U \ {x} <=> r[y] # None /\ Earlier(r, y, x)
    BY <1>1, <2>1, ReadBefore
  <2>3. Cardinality(U \ {x}) = n
    <3>1. Cardinality(U \ {x}) = Cardinality(U) - 1
      BY <1>2, <2>2, FS_RemoveElement
    <3> QED
      BY <3>1
  <2>4. Correct(U \ {x})
    BY <1>5, <2>2, <2>3
  <2>5. load(U) = ReadApproval(h, before, x)
    <3>1. U \in SUBSET Recorded(r)
      BY DEF ReadSoFar
    <3> QED
      BY <1>1, <2>1, <3>1, ApprovalsAreRead
  <2>6. x \in Recorded(r) /\ x \in Devices /\ a.by \in Devices
    BY <1>1, <2>2 DEF ReadSoFar, Recorded
  <2>7. signer = ApprovedBefore(h, a.by, x)
    <3>1. signer = IF a.by \in U \ {x} THEN Granted(r[a.by])
                   ELSE IF a.by = Creator THEN Genesis ELSE None
      BY <2>4, <2>6
    <3> QED
      BY <2>2, <2>6, <3>1 DEF ApprovedBefore
  <2> HIDE DEF x, load
  <2>8. /\ load(U).ok <=> before.ok /\ ApprovalStands(h, x)
        /\ load(U).devices = [before.devices EXCEPT ![x] = Granted(a)]
    <3> HIDE DEF before
    <3> DEFINE stands == /\ CanManageAccess(signer)
                         /\ requests[h][x] # None
                         /\ IsOwner(signer) \/ a.envs \subseteq signer.envs
               ok == before.ok /\ stands
    <3>1. load(U) = [ok |-> ok, devices |-> [before.devices EXCEPT ![x] = Granted(a)]]
      BY <2>5, Zenon DEF ReadApproval
    <3>2. stands <=> ApprovalStands(h, x)
      BY <2>7 DEF ApprovalStands
    <3>3. ok <=> before.ok /\ ApprovalStands(h, x)
      BY <3>2
    <3> HIDE DEF ok
    <3>4. load(U).ok = ok /\ load(U).devices = [before.devices EXCEPT ![x] = Granted(a)]
      BY <3>1
    <3> QED
      BY <3>3, <3>4, Zenon
  <2>9. load(U).ok <=> \A y \in U : ApprovalStands(h, y)
    BY <2>2, <2>4, <2>8
  <2>10. load(U).devices = Known(U)
    BY <2>2, <2>4, <2>6, <2>8, ZenonT(30)
  <2> QED
    BY <2>9, <2>10
<1>6. Nat \subseteq N
  <2> HIDE DEF N
  <2> QED
    BY <1>4, <1>5, NatsByInduction
<1>7. Correct(S)
  BY <1>2, <1>6
<1> QED
  BY <1>7

(* What is known after each revocation: the approved devices but those revoked
   so far, and whether all records read stand. *)
LEMMA RevocationsSoFar ==
  ASSUME TypeOK, NEW h \in Holders, NEW S, ReadSoFar(revocations[h], S)
  PROVE  LET load == ReadRevocations(h)[S] IN
         /\ load.ok <=> /\ \A x \in Recorded(approvals[h]) : ApprovalStands(h, x)
                        /\ \A x \in S : RevocationStands(h, x)
         /\ load.devices = [d \in Devices |-> IF d \in S THEN None ELSE Approved(h, d)]
<1> DEFINE r == revocations[h]
           load(U) == ReadRevocations(h)[U]
           Known(U) == [d \in Devices |-> IF d \in U THEN None ELSE Approved(h, d)]
           approved == \A x \in Recorded(approvals[h]) : ApprovalStands(h, x)
           Correct(U) == /\ load(U).ok <=> approved /\ \A x \in U : RevocationStands(h, x)
                         /\ load(U).devices = Known(U)
           N == {n \in Nat : \A U : ReadSoFar(r, U) /\ Cardinality(U) = n => Correct(U)}
<1>1. Dated(r) /\ \A x \in Recorded(r) : r[x].by \in Devices
  BY RecordTypesOf
<1>2. ASSUME NEW U, ReadSoFar(r, U) PROVE IsFiniteSet(U) /\ Cardinality(U) \in Nat
  <2>1. IsFiniteSet(Devices) /\ U \subseteq Devices
    BY <1>2, MembershipAssumption DEF Recorded, ReadSoFar
  <2> QED
    BY <2>1, FS_Subset, FS_CardinalityType
<1>3. Correct({})
  <2>1. {} \in SUBSET Recorded(r)
    OBVIOUS
  <2>2. load({}) = ReadApprovals(h)[Recorded(approvals[h])]
    BY <1>1, <2>1, RevocationsAreRead
  <2>3. ReadSoFar(approvals[h], Recorded(approvals[h]))
    BY DEF ReadSoFar
  <2>4. /\ load({}).ok <=> approved
        /\ load({}).devices =
             [d \in Devices |-> IF d \in Recorded(approvals[h]) THEN Granted(approvals[h][d])
                                ELSE IF d = Creator THEN Genesis ELSE None]
    BY <2>2, <2>3, ApprovalsSoFar
  <2>5. \A d \in Devices :
          Approved(h, d) = IF d \in Recorded(approvals[h]) THEN Granted(approvals[h][d])
                           ELSE IF d = Creator THEN Genesis ELSE None
    BY DEF Approved, Recorded
  <2> QED
    BY <2>4, <2>5
<1>4. 0 \in N
  <2> SUFFICES ASSUME NEW U, ReadSoFar(r, U), Cardinality(U) = 0 PROVE U = {}
    BY <1>3
  <2> QED
    BY <1>2, FS_EmptySet
<1>5. ASSUME NEW n \in Nat, n \in N PROVE n + 1 \in N
  <2> SUFFICES ASSUME NEW U, ReadSoFar(r, U), Cardinality(U) = n + 1 PROVE Correct(U)
    OBVIOUS
  <2>1. U # {}
    BY FS_EmptySet
  <2> DEFINE x == Latest(r, U)
             signer == r[x].by
             before == load(U \ {x})
  <2>2. /\ x \in U
        /\ ReadSoFar(r, U \ {x})
        /\ \A y \in Devices : y \in U \ {x} <=> r[y] # None /\ Earlier(r, y, x)
    BY <1>1, <2>1, ReadBefore
  <2>3. Cardinality(U \ {x}) = n
    <3>1. Cardinality(U \ {x}) = Cardinality(U) - 1
      BY <1>2, <2>2, FS_RemoveElement
    <3> QED
      BY <3>1
  <2>4. Correct(U \ {x})
    BY <1>5, <2>2, <2>3
  <2>5. load(U) = ReadRevocation(h, before, x)
    <3>1. U \in SUBSET Recorded(r)
      BY DEF ReadSoFar
    <3> QED
      BY <1>1, <2>1, <3>1, RevocationsAreRead
  <2>6. x \in Recorded(r) /\ x \in Devices /\ signer \in Devices
    BY <1>1, <2>2 DEF ReadSoFar, Recorded
  <2>7. CanManageAccess(before.devices[signer]) <=> RevocationStands(h, x)
    <3>1. before.devices[signer] = IF signer \in U \ {x} THEN None ELSE Approved(h, signer)
      BY <2>4, <2>6
    <3>2. signer \in U \ {x} <=> RevokedBefore(h, signer, x)
      BY <2>2, <2>6 DEF RevokedBefore
    <3> QED
      BY <3>1, <3>2, NobodyManagesAsNone DEF RevocationStands
  <2> HIDE DEF x, load
  <2>8. /\ load(U).ok <=> before.ok /\ RevocationStands(h, x)
        /\ load(U).devices = [before.devices EXCEPT ![x] = None]
    <3> HIDE DEF before
    <3> DEFINE ok == before.ok /\ CanManageAccess(before.devices[signer])
    <3>1. load(U) = [ok |-> ok, devices |-> [before.devices EXCEPT ![x] = None]]
      BY <2>5, Zenon DEF ReadRevocation
    <3>2. ok <=> before.ok /\ RevocationStands(h, x)
      BY <2>7
    <3> HIDE DEF ok
    <3>3. load(U).ok = ok /\ load(U).devices = [before.devices EXCEPT ![x] = None]
      BY <3>1
    <3> QED
      BY <3>2, <3>3, Zenon
  <2>9. load(U).ok <=> approved /\ \A y \in U : RevocationStands(h, y)
    BY <2>2, <2>4, <2>8
  <2>10. load(U).devices = Known(U)
    BY <2>2, <2>4, <2>6, <2>8
  <2> QED
    BY <2>9, <2>10
<1>6. Nat \subseteq N
  <2> HIDE DEF N
  <2> QED
    BY <1>4, <1>5, NatsByInduction
<1>7. Correct(S)
  BY <1>2, <1>6
<1> QED
  BY <1>7

(***************************************************************************)
(* Reading the records one by one in the order of their dates comes to     *)
(* what Loads and Active say of the collection as a whole, for any         *)
(* records, dates and order of files: load_access_state judges a signer by *)
(* the records read before, and the latest record of a device decides.     *)
(***************************************************************************)
THEOREM LoadReadsByDate == Spec => []LoadIsTheFold
<1>1. TypeOK => LoadIsTheFold
  <2> SUFFICES ASSUME TypeOK, NEW d \in Devices
               PROVE  /\ Loads(d) <=> LoadAccessState(d).ok
                      /\ \A x \in Devices : Active(d, x) = LoadAccessState(d).devices[x]
    BY DEF LoadIsTheFold
  <2>1. d \in Holders /\ ReadSoFar(revocations[d], Recorded(revocations[d]))
    BY DEF Holders, ReadSoFar
  <2>2. /\ LoadAccessState(d).ok <=>
             /\ \A x \in Recorded(approvals[d]) : ApprovalStands(d, x)
             /\ \A x \in Recorded(revocations[d]) : RevocationStands(d, x)
        /\ LoadAccessState(d).devices =
             [x \in Devices |-> IF x \in Recorded(revocations[d]) THEN None ELSE Approved(d, x)]
    BY <2>1, RevocationsSoFar DEF LoadAccessState
  <2> QED
    BY <2>2 DEF Loads, Active, Recorded
<1> QED
  BY <1>1, MembershipTypeCorrect, PTL

===============================================================================
