------------------------------ MODULE Membership ------------------------------
(***************************************************************************)
(* Who may do what in a project (src/crates/keyit-cli/src/access.rs and    *)
(* auth.rs).  There is no roster: every checkout, and the relay, holds a   *)
(* collection of signed join requests, approvals and revocations, one file *)
(* per device and kind, and a checkout works out the active devices from   *)
(* what it happens to hold.  Records travel in invite bundles, handed over *)
(* by users, and one by one through the relay.  A checkout runs one        *)
(* command at a time; commands on different devices overlap.               *)
(***************************************************************************)
EXTENDS Naturals, FiniteSets

CONSTANTS
  Devices,      \* one checkout each
  Creator,      \* the device that ran `keyit init`
  Joiners,      \* devices whose users run `keyit join`
  Managers,     \* devices whose users run `keyit approve` and `keyit revoke`
  Rank,         \* device -> the place of its record files in a directory
  Relay,        \* the holder that is no device
  Environments,
  Selections,   \* what users name with --env
  Roles,        \* what users approve with --role
  Invites,      \* invite ids
  None,         \* no such record, no command
  MaxTime,      \* bound: the second a record is dated with
  MaxCommands,  \* bound: joins, approvals and revocations that users start
  MaxFailures   \* bound: commands that fail or die half-way

ASSUME MembershipAssumption ==
  /\ Creator \in Devices /\ Relay \notin Devices
  /\ Joiners \subseteq Devices /\ Managers \subseteq Devices
  /\ IsFiniteSet(Devices)
  /\ Rank \in [Devices -> 1..Cardinality(Devices)]
  /\ \A d, e \in Devices : Rank[d] = Rank[e] => d = e
  /\ Selections \subseteq SUBSET Environments
  /\ Roles \subseteq {"owner", "admin", "member"}
  /\ MaxTime \in Nat /\ MaxCommands \in Nat /\ MaxFailures \in Nat

Holders == Devices \cup {Relay}

JoinRequest == [envs : SUBSET Environments]
Approval == [by : Devices, role : Roles, envs : SUBSET Environments, at : 0..MaxTime]
Revocation == [by : Devices, at : 0..MaxTime]
Entry == [role : {"owner", "admin", "member"}, envs : SUBSET Environments, hasKey : BOOLEAN]
ASSUME RecordAssumption ==
  None \notin JoinRequest \cup Approval \cup Revocation \cup Entry

VARIABLES
  requests,     \* holder -> device -> its join request
  approvals,    \* holder -> device -> its approval
  revocations,  \* holder -> device -> its revocation
  known,        \* device -> the invites in its checkout
  environments, \* device -> the environments in its checkout
  invites,      \* invite -> the invite and its bundle
  published,    \* the invites on the relay
  pending,      \* device -> environment -> devices its rotation marker names
  head,         \* environment -> the latest revision on the relay
  current,      \* device -> environments whose head its checkout has read
  job,          \* device -> what its running command does next
  commands, failures

records == <<requests, approvals, revocations>>
joining == <<known, environments, invites, published>>
pushing == <<pending, head, current>>
bounds == <<commands, failures>>
vars == <<records, joining, pushing, job, bounds>>

-------------------------------------------------------------------------------
(* load_access_state *)

Genesis == [role |-> "owner", envs |-> {}, hasKey |-> FALSE]
Granted(a) == [role |-> a.role, envs |-> a.envs, hasKey |-> TRUE]

(* Records are sorted by created_at; the sort is stable on file names. *)
Earlier(r, x, y) == r[x].at < r[y].at \/ (r[x].at = r[y].at /\ Rank[x] < Rank[y])

CanManageAccess(entry) == entry # None /\ entry.role \in {"owner", "admin"}
IsOwner(entry) == entry # None /\ entry.role = "owner"
CanAccess(entry, e) == IsOwner(entry) \/ (entry # None /\ e \in entry.envs)

(* What the checkout h has for device d once all approvals are read. *)
Approved(h, d) ==
  IF approvals[h][d] # None THEN Granted(approvals[h][d])
  ELSE IF d = Creator THEN Genesis ELSE None

(* Fault: reads the approvals in no particular order. *)
ApprovedWhenever(h, d, x) == Approved(h, d)

(* The same when the approval of x is about to be read. *)
ApprovedBefore(h, d, x) ==
  IF approvals[h][d] # None /\ Earlier(approvals[h], d, x) THEN Granted(approvals[h][d])
  ELSE IF d = Creator THEN Genesis ELSE None

ApprovalStands(h, x) ==
  LET a == approvals[h][x]
      signer == ApprovedBefore(h, a.by, x) IN
  /\ CanManageAccess(signer)
  /\ requests[h][x] # None
  /\ IsOwner(signer) \/ a.envs \subseteq signer.envs

RevokedBefore(h, d, x) == revocations[h][d] # None /\ Earlier(revocations[h], d, x)

(* A signer must not have been removed by a revocation read earlier. *)
RevocationStands(h, x) ==
  LET signer == revocations[h][x].by IN
  CanManageAccess(Approved(h, signer)) /\ ~RevokedBefore(h, signer, x)

(* One record that does not stand makes the whole load an error. *)
Loads(h) ==
  /\ \A x \in Devices : approvals[h][x] # None => ApprovalStands(h, x)
  /\ \A x \in Devices : revocations[h][x] # None => RevocationStands(h, x)

(* Fault: a later approval readmits the device. *)
ActiveIfReapproved(h, d) ==
  IF revocations[h][d] = None THEN Approved(h, d)
  ELSE IF approvals[h][d] # None /\ approvals[h][d].at > revocations[h][d].at
  THEN Approved(h, d) ELSE None

Active(h, d) == IF revocations[h][d] # None THEN None ELSE Approved(h, d)
Manages(d) == Loads(d) /\ CanManageAccess(Active(d, d))

-------------------------------------------------------------------------------
(***************************************************************************)
(* load_access_state as it is written: the records are read one by one in  *)
(* the order of their dates, and every record is judged by what the load   *)
(* has worked out so far.  The relay reads the records of a request so.    *)
(***************************************************************************)

Recorded(r) == {x \in Devices : r[x] # None}

(* The record of S that is read last. *)
Latest(r, S) == CHOOSE x \in S : \A y \in S \ {x} : Earlier(r, y, x)

(* A record that does not stand fails the load. *)
ReadApproval(h, load, x) ==
  LET a == approvals[h][x]
      signer == load.devices[a.by]
      stands == /\ CanManageAccess(signer)
                /\ requests[h][x] # None
                /\ IsOwner(signer) \/ a.envs \subseteq signer.envs IN
  [ok |-> load.ok /\ stands, devices |-> [load.devices EXCEPT ![x] = Granted(a)]]

ReadRevocation(h, load, x) ==
  [ok |-> load.ok /\ CanManageAccess(load.devices[revocations[h][x].by]),
   devices |-> [load.devices EXCEPT ![x] = None]]

GenesisLoad ==
  [ok |-> TRUE, devices |-> [d \in Devices |-> IF d = Creator THEN Genesis ELSE None]]

(* What is known once the approvals in S are read, for each S. *)
ReadApprovals(h) ==
  LET load[S \in SUBSET Recorded(approvals[h])] ==
        IF S = {} THEN GenesisLoad
        ELSE ReadApproval(h, load[S \ {Latest(approvals[h], S)}], Latest(approvals[h], S))
  IN load

(* The same for the revocations, which are read after all approvals. *)
ReadRevocations(h) ==
  LET load[S \in SUBSET Recorded(revocations[h])] ==
        IF S = {} THEN ReadApprovals(h)[Recorded(approvals[h])]
        ELSE ReadRevocation(h, load[S \ {Latest(revocations[h], S)}], Latest(revocations[h], S))
  IN load

LoadAccessState(h) == ReadRevocations(h)[Recorded(revocations[h])]

-------------------------------------------------------------------------------
Job ==
  {None}
  \cup [do : {"request", "invite"}, id : Invites]
  \cup [do : {"publish request"}]
  \cup [do : {"approve", "approval", "revocation"}, dev : Devices]
  \cup [do : {"mark"}, dev : Devices, envs : SUBSET Environments]

(* Whom the author encrypted it for, and whom it held to be revoked. *)
Revision == [author : Devices, readers : SUBSET Devices, without : SUBSET Devices]

Bundle ==
  [by : Devices, allowed : SUBSET Environments,
   requests : [Devices -> JoinRequest \cup {None}],
   approvals : [Devices -> Approval \cup {None}],
   revocations : [Devices -> Revocation \cup {None}]]

TypeOK ==
  /\ requests \in [Holders -> [Devices -> JoinRequest \cup {None}]]
  /\ approvals \in [Holders -> [Devices -> Approval \cup {None}]]
  /\ revocations \in [Holders -> [Devices -> Revocation \cup {None}]]
  /\ known \in [Devices -> SUBSET Invites]
  /\ environments \in [Devices -> SUBSET Environments]
  /\ invites \in [Invites -> Bundle \cup {None}]
  /\ published \subseteq Invites
  /\ pending \in [Devices -> [Environments -> SUBSET Devices]]
  /\ head \in [Environments -> Revision \cup {None}]
  /\ current \in [Devices -> SUBSET Environments]
  /\ job \in [Devices -> Job]
  /\ commands \in 0..MaxCommands
  /\ failures \in 0..MaxFailures

Init ==
  /\ requests = [h \in Holders |-> [d \in Devices |-> None]]
  /\ approvals = [h \in Holders |-> [d \in Devices |-> None]]
  /\ revocations = [h \in Holders |-> [d \in Devices |-> None]]
  /\ known = [d \in Devices |-> {}]
  /\ environments = [d \in Devices |-> IF d = Creator THEN Environments ELSE {}]
  /\ invites = [i \in Invites |-> None]
  /\ published = {}
  /\ pending = [d \in Devices |-> [e \in Environments |-> {}]]
  /\ head = [e \in Environments |-> None]
  /\ current = [d \in Devices |-> {}]
  /\ job = [d \in Devices |-> None]
  /\ commands = 0
  /\ failures = 0

(* A device has a checkout of the project. *)
HasProject(d) == d = Creator \/ known[d] # {}

Ready(d) == job[d] = None /\ HasProject(d)

(* Joins, approvals and revocations are counted; the rest repeats freely. *)
Begin(d) == Ready(d) /\ commands < MaxCommands /\ commands' = commands + 1
Completes(whole) ==
  IF whole THEN UNCHANGED failures ELSE failures < MaxFailures /\ failures' = failures + 1

Then(d, step) == job' = [job EXCEPT ![d] = step]
Knows(d, i) == known' = [known EXCEPT ![d] = @ \cup {i}]

-------------------------------------------------------------------------------
(* keyit invite create *)

InviteCreate(d, i, allowed) ==
  /\ Ready(d)
  /\ Manages(d)
  /\ invites[i] = None
  /\ allowed \in Selections /\ allowed \subseteq environments[d]
  /\ invites' = [invites EXCEPT ![i] =
       [by |-> d, allowed |-> allowed, requests |-> requests[d],
        approvals |-> approvals[d], revocations |-> revocations[d]]]
  /\ Knows(d, i)
  /\ Then(d, [do |-> "invite", id |-> i])
  /\ UNCHANGED <<records, environments, published, pushing, bounds>>

PublishInvite(d) ==
  /\ job[d] # None /\ job[d].do = "invite"
  /\ published' = published \cup {job[d].id}
  /\ Then(d, None)
  /\ UNCHANGED <<records, known, environments, invites, pushing, bounds>>

-------------------------------------------------------------------------------
(* keyit join *)

NDevices == Cardinality(Devices)
AllWritten == 3 * NDevices + 1

(* The first n record files of a bundle replace those in the checkout. *)
Overlay(held, bundled, n) ==
  [x \in Devices |-> IF bundled[x] # None /\ Rank[x] <= n THEN bundled[x] ELSE held[x]]

(* Fault: approvals are written before the join requests they rest on. *)
ImportApprovalsFirst(d, i, n) ==
  /\ job[d] = None /\ commands < MaxCommands
  /\ d \in Joiners
  /\ invites[i] # None
  /\ Knows(d, i)
  /\ environments' = [environments EXCEPT ![d] =
       IF n = AllWritten \/ ~HasProject(d) THEN @ \cup invites[i].allowed ELSE @]
  /\ requests' = [requests EXCEPT ![d] = Overlay(@, invites[i].requests, n - NDevices)]
  /\ approvals' = [approvals EXCEPT ![d] = Overlay(@, invites[i].approvals, n)]
  /\ revocations' = [revocations EXCEPT ![d] =
       Overlay(@, invites[i].revocations, n - 2 * NDevices)]
  /\ Then(d, IF n = AllWritten THEN [do |-> "request", id |-> i] ELSE None)
  /\ Completes(n = AllWritten)
  /\ commands' = commands + 1
  /\ UNCHANGED <<invites, published, pushing>>

(***************************************************************************)
(* prepare_join_project with a bundle writes join requests, approvals and  *)
(* revocations, file by file; a process that dies has written the first n. *)
(* Environments come first in a new checkout, last in an existing one.     *)
(***************************************************************************)
ImportBundle(d, i, n) ==
  /\ job[d] = None /\ commands < MaxCommands
  /\ d \in Joiners
  /\ invites[i] # None
  /\ Knows(d, i)
  /\ environments' = [environments EXCEPT ![d] =
       IF n = AllWritten \/ ~HasProject(d) THEN @ \cup invites[i].allowed ELSE @]
  /\ requests' = [requests EXCEPT ![d] = Overlay(@, invites[i].requests, n)]
  /\ approvals' = [approvals EXCEPT ![d] =
       Overlay(@, invites[i].approvals, n - NDevices)]
  /\ revocations' = [revocations EXCEPT ![d] =
       Overlay(@, invites[i].revocations, n - 2 * NDevices)]
  /\ Then(d, IF n = AllWritten THEN [do |-> "request", id |-> i] ELSE None)
  /\ Completes(n = AllWritten)
  /\ commands' = commands + 1
  /\ UNCHANGED <<invites, published, pushing>>

(* With an invite id: the invite is in the checkout or fetched from the relay. *)
JoinById(d, i) ==
  /\ Begin(d)
  /\ d \in Joiners
  /\ Loads(d)
  /\ i \in published \cup known[d]
  /\ Knows(d, i)
  /\ Then(d, [do |-> "request", id |-> i])
  /\ UNCHANGED <<records, environments, invites, published, pushing, failures>>

(***************************************************************************)
(* The access state must load and hold the invite's creator as an owner or *)
(* admin; the device then asks for what --env names, or for all the invite *)
(* allows.  Expiry and uses of the invite only refuse (RefuseJoin).        *)
(***************************************************************************)
WriteJoinRequest(d, envs) ==
  /\ job[d] # None /\ job[d].do = "request"
  /\ LET invite == invites[job[d].id] IN
     /\ Loads(d) /\ CanManageAccess(Active(d, invite.by))
     /\ envs \subseteq invite.allowed
     /\ envs # invite.allowed => envs \in Selections /\ envs \subseteq environments[d]
  /\ requests' = [requests EXCEPT ![d][d] = [envs |-> envs]]
  /\ Then(d, [do |-> "publish request"])
  /\ UNCHANGED <<approvals, revocations, joining, pushing, bounds>>

(* validate_invite_for_join and the selection of environments may refuse. *)
RefuseJoin(d) ==
  /\ job[d] # None /\ job[d].do = "request"
  /\ Then(d, None)
  /\ UNCHANGED <<records, joining, pushing, bounds>>

PublishRequest(d) ==
  /\ job[d] # None /\ job[d].do = "publish request"
  /\ requests' = [requests EXCEPT ![Relay][d] = requests[d][d]]
  /\ Then(d, None)
  /\ UNCHANGED <<approvals, revocations, joining, pushing, bounds>>

-------------------------------------------------------------------------------
(* keyit approve *)

MayManage(d) == Begin(d) /\ d \in Managers /\ Manages(d)

(* The join request is fetched only if the checkout has none. *)
FetchRequest(d, x) ==
  /\ MayManage(d)
  /\ requests[d][x] = None /\ requests[Relay][x] # None
  /\ requests' = [requests EXCEPT ![d][x] = requests[Relay][x]]
  /\ Then(d, [do |-> "approve", dev |-> x])
  /\ UNCHANGED <<approvals, revocations, joining, pushing, failures>>

UseOwnRequest(d, x) ==
  /\ MayManage(d)
  /\ requests[d][x] # None
  /\ Then(d, [do |-> "approve", dev |-> x])
  /\ UNCHANGED <<records, joining, pushing, failures>>

WriteApproval(d, role, t) ==
  /\ job[d] # None /\ job[d].do = "approve"
  /\ LET x == job[d].dev IN
     /\ approvals' = [approvals EXCEPT ![d][x] =
          [by |-> d, role |-> role, envs |-> requests[d][x].envs, at |-> t]]
     /\ Then(d, [do |-> "approval", dev |-> x])
  /\ UNCHANGED <<requests, revocations, joining, pushing, bounds>>

PublishApproval(d) ==
  /\ job[d] # None /\ job[d].do = "approval"
  /\ approvals' = [approvals EXCEPT ![Relay][job[d].dev] = approvals[d][job[d].dev]]
  /\ Then(d, None)
  /\ UNCHANGED <<requests, revocations, joining, pushing, bounds>>

-------------------------------------------------------------------------------
(* keyit revoke *)

(* Fault: the creator may be revoked. *)
RevokeAnyone(d, x, envs, t) ==
  /\ MayManage(d)
  /\ Active(d, x) # None
  /\ envs # Active(d, x).envs => envs \in Selections /\ envs \subseteq environments[d]
  /\ revocations' = [revocations EXCEPT ![d][x] = [by |-> d, at |-> t]]
  /\ Then(d, [do |-> "mark", dev |-> x, envs |-> envs])
  /\ UNCHANGED <<requests, approvals, joining, pushing, failures>>

Revoke(d, x, envs, t) ==
  /\ MayManage(d)
  /\ x # Creator
  /\ Active(d, x) # None
  /\ envs # Active(d, x).envs => envs \in Selections /\ envs \subseteq environments[d]
  /\ revocations' = [revocations EXCEPT ![d][x] = [by |-> d, at |-> t]]
  /\ Then(d, [do |-> "mark", dev |-> x, envs |-> envs])
  /\ UNCHANGED <<requests, approvals, joining, pushing, failures>>

(***************************************************************************)
(* write_rotation_required_markers adds the device to the marker of each   *)
(* environment; a process that dies has written some of them.              *)
(***************************************************************************)
MarkRotation(d, marked) ==
  /\ job[d] # None /\ job[d].do = "mark"
  /\ marked \subseteq job[d].envs
  /\ pending' = [pending EXCEPT ![d] =
       [e \in Environments |-> IF e \in marked THEN @[e] \cup {job[d].dev} ELSE @[e]]]
  /\ Completes(marked = job[d].envs)
  /\ Then(d, IF marked = job[d].envs THEN [do |-> "revocation", dev |-> job[d].dev] ELSE None)
  /\ UNCHANGED <<records, joining, head, current, commands>>

PublishRevocation(d) ==
  /\ job[d] # None /\ job[d].do = "revocation"
  /\ revocations' = [revocations EXCEPT ![Relay][job[d].dev] = revocations[d][job[d].dev]]
  /\ Then(d, None)
  /\ UNCHANGED <<requests, approvals, joining, pushing, bounds>>

-------------------------------------------------------------------------------
(* keyit pull and push, as far as they touch access *)

(* decrypt_revision_bundle *)
CanRead(d, e) ==
  /\ Loads(d) /\ CanAccess(Active(d, head[e].author), e)
  /\ d \in head[e].readers

(* sync_local_device_access_from_http_relay, or the first n files of it. *)
SyncAccess(d, n) ==
  LET Missing(held) == IF held[d][d] = None THEN held[Relay][d] ELSE held[d][d] IN
  /\ requests' = [requests EXCEPT ![d][d] = Missing(requests)]
  /\ approvals' = [approvals EXCEPT ![d][d] = IF n >= 2 THEN Missing(approvals) ELSE @]
  /\ revocations' = [revocations EXCEPT ![d][d] =
       IF n >= 3 /\ revocations[Relay][d] # None THEN revocations[Relay][d] ELSE @]

(***************************************************************************)
(* A device that is no owner first takes its own three records from the    *)
(* relay, request and approval only if it has none.  A pull that runs to   *)
(* its end (n = 4) has read the head, if it may.                           *)
(***************************************************************************)
Pull(d, e, n) ==
  /\ Ready(d)
  /\ e \in environments[d]
  /\ Loads(d)
  /\ Completes(n = 4)
  /\ UNCHANGED <<joining, pending, head, job, commands>>
  /\ IF IsOwner(Active(d, d)) THEN UNCHANGED records ELSE SyncAccess(d, n)
  /\ current' = [current EXCEPT ![d] =
       IF n = 4 /\ head[e] # None /\ CanRead(d, e)' THEN @ \cup {e} ELSE @]

(* Fault: a revocation does not take the device out. *)
ReadersOnceApproved(d, e) ==
  {d} \cup {x \in Devices : CanAccess(Approved(d, x), e) /\ Approved(d, x).hasKey}

(* wrap_dek_for_active_devices: the author and whoever may read and has a key. *)
Readers(d, e) ==
  {d} \cup {x \in Devices : CanAccess(Active(d, x), e) /\ Active(d, x).hasKey}

(***************************************************************************)
(* A push that the relay accepts: it came from the head before it.  The    *)
(* author's own records say who may push, also on the relay.  A marked     *)
(* environment is left to those who manage access; the marker is cleared   *)
(* unless the process dies first.                                          *)
(***************************************************************************)
Push(d, e, clears) ==
  /\ Ready(d)
  /\ e \in environments[d]
  /\ Loads(d) /\ CanAccess(Active(d, d), e)
  /\ pending[d][e] # {} => Manages(d)
  /\ head[e] # None => e \in current[d]
  /\ clears => pending[d][e] # {}
  /\ head' = [head EXCEPT ![e] =
       [author |-> d, readers |-> Readers(d, e),
        without |-> {x \in Devices : revocations[d][x] # None}]]
  /\ current' = [x \in Devices |-> IF x = d THEN current[x] \cup {e} ELSE current[x] \ {e}]
  /\ pending' = IF clears THEN [pending EXCEPT ![d][e] = {}] ELSE pending
  /\ Completes(clears <=> pending[d][e] # {})
  /\ UNCHANGED <<records, joining, job, commands>>

(* The command fails or its process dies: the rest is not done. *)
Abandon(d) ==
  /\ job[d] # None
  /\ Then(d, None)
  /\ Completes(FALSE)
  /\ UNCHANGED <<records, joining, pushing, commands>>

-------------------------------------------------------------------------------
Join(d) ==
  \/ \E i \in Invites, n \in 0..AllWritten : ImportBundle(d, i, n)
  \/ \E i \in Invites : JoinById(d, i)
  \/ \E envs \in SUBSET Environments : WriteJoinRequest(d, envs)
  \/ RefuseJoin(d) \/ PublishRequest(d)

Manage(d) ==
  \/ \E i \in Invites, allowed \in Selections : InviteCreate(d, i, allowed)
  \/ PublishInvite(d)
  \/ \E x \in Devices : FetchRequest(d, x) \/ UseOwnRequest(d, x)
  \/ \E role \in Roles, t \in 0..MaxTime : WriteApproval(d, role, t)
  \/ PublishApproval(d)
  \/ \E x \in Devices, envs \in SUBSET Environments, t \in 0..MaxTime : Revoke(d, x, envs, t)
  \/ \E marked \in SUBSET Environments : MarkRotation(d, marked)
  \/ PublishRevocation(d)

Use(d) ==
  \/ \E e \in Environments, n \in 1..4 : Pull(d, e, n)
  \/ \E e \in Environments, clears \in BOOLEAN : Push(d, e, clears)
  \/ Abandon(d)

Next == \E d \in Devices : Join(d) \/ Manage(d) \/ Use(d)

Spec == Init /\ [][Next]_vars

-------------------------------------------------------------------------------
(* Properties *)

(***************************************************************************)
(* Nobody's checkout ever loses the project's creator as an owner: not by  *)
(* a revocation by an admin, nor by a bundle or a join that broke off.     *)
(***************************************************************************)
CreatorStaysOwner ==
  Creator \notin Joiners => \A d \in Devices : Loads(d) => IsOwner(Active(d, Creator))

(***************************************************************************)
(* As long as the creator is the only one who approves and revokes, every  *)
(* checkout loads, however joins, approvals and pulls overlap and break    *)
(* off.  (With a second manager a checkout may hold a record whose signer  *)
(* it does not know.)                                                      *)
(***************************************************************************)
OneManager ==
  Creator \notin Joiners /\
  \A h \in Holders, x \in Devices :
    /\ approvals[h][x] # None => approvals[h][x].by = Creator
    /\ revocations[h][x] # None => revocations[h][x].by = Creator

EveryCheckoutLoads == OneManager => \A d \in Devices : Loads(d)

(***************************************************************************)
(* What is said above of a checkout's access state without reading records *)
(* in an order is what load_access_state computes, order of dates          *)
(* included: whether it succeeds, and if so whom it finds active as what.  *)
(***************************************************************************)
LoadIsTheFold ==
  \A d \in Devices :
    LET load == LoadAccessState(d) IN
    /\ Loads(d) <=> load.ok
    /\ \A x \in Devices : Loads(d) => Active(d, x) = load.devices[x]

(***************************************************************************)
(* Once a checkout knows that a device is revoked the device is never      *)
(* active there again: not by a new approval, a bundle or a later pull.    *)
(***************************************************************************)
Shut(d, x) == ~Loads(d) \/ Active(d, x) = None
RevocationIsFinal ==
  [][\A d, x \in Devices : revocations[d][x] # None => Shut(d, x)']_vars

(***************************************************************************)
(* "Affected environment DEKs must rotate after revocation" (protocol,     *)
(* section 12): a rotation marker goes away only when the relay holds a    *)
(* revision that none of the devices it names can read.                    *)
(***************************************************************************)
RotatedBeforeCleared ==
  [][\A d \in Devices, e \in Environments :
       pending[d][e] # {} /\ pending'[d][e] = {} =>
         head'[e].readers \cap pending[d][e] = {}]_vars

(***************************************************************************)
(* The relay's latest revision is encrypted for every device that both the *)
(* creator and the device itself hold to be approved for it when a device  *)
(* pushes ("data-encryption key for active authorized devices").           *)
(***************************************************************************)
EveryDeviceCanRead ==
  [][\A e \in Environments :
       head'[e] # head[e] =>
         \A d \in Devices :
           CanAccess(Active(Creator, d), e) /\ CanAccess(Active(d, d), e)
             => CanRead(d, e)']_vars

(***************************************************************************)
(* "Revoking a device stops it from decrypting future revisions after the  *)
(* next push" (boundaries.mdx): whoever the latest revision was meant to   *)
(* exclude as revoked is excluded from the next one too.                   *)
(***************************************************************************)
RevokedStayExcluded ==
  [][\A e \in Environments :
       head[e] # None /\ head'[e] # head[e] =>
         head[e].without \cap head'[e].readers = {}]_vars

-------------------------------------------------------------------------------
(* The inductive invariant *)

(***************************************************************************)
(* Whoever is approved anywhere has a join request there, and everyone     *)
(* whose request is anywhere still has it in its own checkout.             *)
(***************************************************************************)
AskedFirst ==
  /\ \A h \in Holders, x \in Devices :
       requests[h][x] # None \/ approvals[h][x] # None => requests[x][x] # None
  /\ \A d, x \in Devices : approvals[d][x] # None => requests[d][x] # None
  /\ \A i \in Invites, x \in Devices :
       invites[i] # None =>
         /\ invites[i].approvals[x] # None => invites[i].requests[x] # None
         /\ invites[i].requests[x] # None => requests[x][x] # None
  /\ \A d \in Devices :
       job[d] # None /\ job[d].do = "approve" => requests[d][job[d].dev] # None

(* A creator that does not join its own project asks for nothing and is    *)
(* revoked nowhere.                                                        *)
CreatorUntouched ==
  Creator \notin Joiners =>
    /\ requests[Creator][Creator] = None
    /\ job[Creator] # None => job[Creator].do # "request"
    /\ \A h \in Holders : revocations[h][Creator] = None
    /\ \A i \in Invites : invites[i] # None => invites[i].revocations[Creator] = None

(* A checkout that asks for rotation holds the revocation. *)
MarksRevoked ==
  \A d \in Devices :
    /\ \A e \in Environments : \A x \in pending[d][e] : revocations[d][x] # None
    /\ job[d] # None /\ job[d].do = "mark" => revocations[d][job[d].dev] # None

(***************************************************************************)
(* What keeps the creator an owner, every checkout loading and the marked  *)
(* devices out of whatever clears their marker.                            *)
(***************************************************************************)
AccessInv == TypeOK /\ AskedFirst /\ CreatorUntouched /\ MarksRevoked
===============================================================================
