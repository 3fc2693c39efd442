---------------------------- MODULE InviteRedemption ----------------------------
(***************************************************************************)
(* FileRelayStore::publish_join_request_checked                            *)
(* (src/crates/keyit-relay/src/lib.rs): how the relay enforces max_uses of *)
(* the invites of one project.  Devices publish join requests through      *)
(* several relay processes at once; a device may retry, and may join again *)
(* through another invite, which overwrites its one join request record.   *)
(* The lock is per invite, the records of all invites share a directory.   *)
(***************************************************************************)
EXTENDS Naturals, FiniteSets

CONSTANTS
  Workers,      \* relay processes that handle a join request
  Devices,      \* joining devices
  Invites,      \* published invites
  NoInvite,     \* mark of a device without a join request
  NoDevice,     \* mark of a worker without a request
  MaxUses,      \* max_uses of each invite
  Free,         \* the lock file does not exist
  Orphaned,     \* the lock file exists and the process that made it is gone
  MaxLeftover   \* bound: leftover temporary records of one invite

ASSUME InviteAssumption ==
  /\ NoInvite \notin Invites
  /\ NoDevice \notin Devices
  /\ Free \notin Workers
  /\ Orphaned \notin Workers \cup {Free}
  /\ MaxUses \in [Invites -> Nat]
  /\ MaxLeftover \in Nat
  /\ IsFiniteSet(Devices)

VARIABLES
  pc,           \* what each worker does next
  device,       \* the joining device of its request
  invite,       \* the invite its record names
  result,       \* the result it returns, or returned last
  lock,         \* join-request-locks/<invite>.lock: the process that made it
  expired,      \* invites past their expires_at
  joinRequest,  \* join-requests/<device>.keyit: the invite it names
  leftover      \* complete temporary join requests left behind, per invite

vars == <<pc, device, invite, result, lock, expired, joinRequest, leftover>>
request == <<device, invite>>

TypeOK ==
  /\ pc \in [Workers -> {"idle", "acquire", "validate", "count", "write", "unlock"}]
  /\ device \in [Workers -> Devices \cup {NoDevice}]
  /\ invite \in [Workers -> Invites \cup {NoInvite}]
  /\ \A w \in Workers : pc[w] # "idle" => device[w] \in Devices /\ invite[w] \in Invites
  /\ result \in [Workers -> {"none", "ok", "busy", "expired", "exhausted", "io"}]
  /\ lock \in [Invites -> Workers \cup {Free, Orphaned}]
  /\ expired \in SUBSET Invites
  /\ joinRequest \in [Devices -> Invites \cup {NoInvite}]
  /\ leftover \in [Invites -> Nat]

Init ==
  /\ pc = [w \in Workers |-> "idle"]
  /\ device = [w \in Workers |-> NoDevice]
  /\ invite = [w \in Workers |-> NoInvite]
  /\ result = [w \in Workers |-> "none"]
  /\ lock = [i \in Invites |-> Free]
  /\ expired = {}
  /\ joinRequest = [d \in Devices |-> NoInvite]
  /\ leftover = [i \in Invites |-> 0]

Goto(w, step) == pc' = [pc EXCEPT ![w] = step]
Return(w, value) == result' = [result EXCEPT ![w] = value]
Redeemers(i) == {d \in Devices : joinRequest[d] = i}

-------------------------------------------------------------------------------
(* The handler *)

(* A join request arrives and decodes; its path names the joining device. *)
Request(w, d, i) ==
  /\ pc[w] = "idle"
  /\ device' = [device EXCEPT ![w] = d]
  /\ invite' = [invite EXCEPT ![w] = i]
  /\ Return(w, "none")
  /\ Goto(w, "acquire")
  /\ UNCHANGED <<lock, expired, joinRequest, leftover>>

(* Fault: the invite is not locked. *)
AcquireNoLock(w) ==
  /\ pc[w] = "acquire"
  /\ Goto(w, "validate")
  /\ UNCHANGED <<request, result, lock, expired, joinRequest, leftover>>

(* PublishLock::acquire on the lock of the invite. *)
Acquire(w) ==
  /\ pc[w] = "acquire"
  /\ lock[invite[w]] = Free
  /\ lock' = [lock EXCEPT ![invite[w]] = w]
  /\ Goto(w, "validate")
  /\ UNCHANGED <<request, result, expired, joinRequest, leftover>>

AcquireBusy(w) ==
  /\ pc[w] = "acquire"
  /\ lock[invite[w]] # Free
  /\ Return(w, "busy")
  /\ Goto(w, "idle")
  /\ UNCHANGED <<request, lock, expired, joinRequest, leftover>>

AcquireFails(w) ==
  /\ pc[w] = "acquire"
  /\ lock[invite[w]] = Free
  /\ lock' = [lock EXCEPT ![invite[w]] = Orphaned]
  /\ Return(w, "io")
  /\ Goto(w, "idle")
  /\ UNCHANGED <<request, expired, joinRequest, leftover>>

(* The invite is read and must be unexpired by the relay's clock. *)
Validate(w) ==
  /\ pc[w] = "validate"
  /\ IF invite[w] \in expired
     THEN Goto(w, "unlock") /\ Return(w, "expired")
     ELSE Goto(w, "count") /\ UNCHANGED result
  /\ UNCHANGED <<request, lock, expired, joinRequest, leftover>>

(* Fault: the device's own record counts. *)
AlreadyUsedWithOwn(w) ==
  Cardinality(Redeemers(invite[w])) + leftover[invite[w]]

(***************************************************************************)
(* count_join_requests_for_invite reads every file of join-requests/ but   *)
(* the device's own.  A leftover temporary file decodes like a record, and *)
(* its name is no device's: it counts, whoever it was written for.         *)
(***************************************************************************)
AlreadyUsed(w) ==
  Cardinality(Redeemers(invite[w]) \ {device[w]}) + leftover[invite[w]]

(* Fault: the count compared with > instead of >=. *)
CountUsesOffByOne(w) ==
  /\ pc[w] = "count"
  /\ IF AlreadyUsed(w) > MaxUses[invite[w]]
     THEN Goto(w, "unlock") /\ Return(w, "exhausted")
     ELSE Goto(w, "write") /\ UNCHANGED result
  /\ UNCHANGED <<request, lock, expired, joinRequest, leftover>>

CountUses(w) ==
  /\ pc[w] = "count"
  /\ IF AlreadyUsed(w) >= MaxUses[invite[w]]
     THEN Goto(w, "unlock") /\ Return(w, "exhausted")
     ELSE Goto(w, "write") /\ UNCHANGED result
  /\ UNCHANGED <<request, lock, expired, joinRequest, leftover>>

WriteJoinRequest(w) ==
  /\ pc[w] = "write"
  /\ joinRequest' = [joinRequest EXCEPT ![device[w]] = invite[w]]
  /\ Return(w, "ok")
  /\ Goto(w, "unlock")
  /\ UNCHANGED <<request, lock, expired, leftover>>

(***************************************************************************)
(* atomic_write ends before its rename, by an error or by a crash.  If it  *)
(* got as far as writing it, a complete temporary record stays behind.     *)
(***************************************************************************)
MayLeave(w) ==
  LET n == leftover[invite[w]]
  IN  leftover' \in IF pc[w] = "write" /\ n < MaxLeftover
                    THEN {leftover, [leftover EXCEPT ![invite[w]] = n + 1]}
                    ELSE {leftover}

WriteFails(w) ==
  /\ pc[w] = "write"
  /\ MayLeave(w)
  /\ Return(w, "io")
  /\ Goto(w, "unlock")
  /\ UNCHANGED <<request, lock, expired, joinRequest>>

(* Drop for PublishLock. *)
Unlock(w) ==
  /\ pc[w] = "unlock"
  /\ lock' = [lock EXCEPT ![invite[w]] = Free]
  /\ Goto(w, "idle")
  /\ UNCHANGED <<request, result, expired, joinRequest, leftover>>

Crash(w) ==
  /\ pc[w] # "idle"
  /\ lock' = [i \in Invites |-> IF lock[i] = w THEN Orphaned ELSE lock[i]]
  /\ MayLeave(w)
  /\ Return(w, "none")
  /\ Goto(w, "idle")
  /\ UNCHANGED <<request, expired, joinRequest>>

-------------------------------------------------------------------------------
(* Time and maintenance.  cleanup_kind knows publish.lock and no other name, *)
(* so cleanup removes temporary files here and never a lock.                 *)

Expire(i) ==
  /\ i \notin expired
  /\ expired' = expired \cup {i}
  /\ UNCHANGED <<pc, request, result, lock, joinRequest, leftover>>

CleanupTemp(i) ==
  /\ leftover[i] > 0
  /\ leftover' = [leftover EXCEPT ![i] = @ - 1]
  /\ UNCHANGED <<pc, request, result, lock, expired, joinRequest>>

Next ==
  \/ \E w \in Workers :
       \/ \E d \in Devices, i \in Invites : Request(w, d, i)
       \/ Acquire(w) \/ AcquireBusy(w) \/ AcquireFails(w)
       \/ Validate(w) \/ CountUses(w)
       \/ WriteJoinRequest(w) \/ WriteFails(w)
       \/ Unlock(w) \/ Crash(w)
  \/ \E i \in Invites : Expire(i) \/ CleanupTemp(i)

Spec == Init /\ [][Next]_vars

-------------------------------------------------------------------------------
(* Properties *)

(***************************************************************************)
(* The join requests on the relay that name an invite never outnumber its  *)
(* max_uses: two devices redeeming the last use at once cannot both do so. *)
(***************************************************************************)
UsesWithinLimit == \A i \in Invites : Cardinality(Redeemers(i)) <= MaxUses[i]

(***************************************************************************)
(* A retry is free: with nothing left behind by a failed write, a device   *)
(* that already holds a use of an invite is never told it is exhausted.    *)
(***************************************************************************)
RetryIsFree ==
  [][\A w \in Workers :
       result[w] # "exhausted" /\ result'[w] = "exhausted" /\ leftover[invite[w]] = 0
         => joinRequest[device[w]] # invite[w]]_vars

(***************************************************************************)
(* The inductive form of UsesWithinLimit: past the count, a worker is      *)
(* alone with its invite and there is room for its device.                 *)
(***************************************************************************)
Holding == {"validate", "count", "write", "unlock"}

InviteInv ==
  /\ TypeOK
  /\ \A w \in Workers : pc[w] \in Holding => lock[invite[w]] = w
  /\ \A w \in Workers : pc[w] = "write" =>
       Cardinality(Redeemers(invite[w]) \ {device[w]}) < MaxUses[invite[w]]
  /\ UsesWithinLimit
================================================================================
