------------------------------ MODULE AccountCaps ------------------------------
(***************************************************************************)
(* The account limits of FileRelayStore (src/crates/keyit-relay/src/lib.rs)*)
(* on access records: publish_project_genesis_checked (the projects of one *)
(* creator), publish_environment_checked (the environments of a project)   *)
(* and publish_approval_checked (the active devices of a project).  The    *)
(* three have one shape - an unlocked path for records that exist, and a   *)
(* lock around count and write for new ones - and differ in what they      *)
(* count, which kind selects.                                              *)
(***************************************************************************)
EXTENDS Naturals, FiniteSets

CONSTANTS
  Workers,      \* relay processes that publish access records
  Objects,      \* the records of this kind that clients publish
  NoObject,     \* mark of a worker without a request
  Kinds,        \* which of "project", "environment", "device" to look at
  Cap,          \* the StoragePolicy cap of this kind, 0 = no cap
  Free,         \* the quota lock file does not exist
  Orphaned,     \* the quota lock file exists and the process that made it is gone
  MaxLeftover   \* bound: leftover temporary files in the record directory

ASSUME CapAssumption ==
  /\ NoObject \notin Objects
  /\ Kinds \subseteq {"project", "environment", "device"}
  /\ Cap \in Nat
  /\ Free \notin Workers
  /\ Orphaned \notin Workers \cup {Free}
  /\ MaxLeftover \in Nat
  /\ IsFiniteSet(Objects)
  /\ IsFiniteSet(Workers)

VARIABLES
  kind,      \* the kind of record, the same for a whole behaviour
  pc,        \* what each worker does next
  object,    \* the record of its request
  result,    \* the result it returns, or returned last
  lock,      \* the quota lock file: the process that made it
  records,   \* the records on the relay
  revoked,   \* devices with a revocation record
  leftover,  \* temporary files left behind in the record directory
  stored     \* history: was the record on the relay when its request arrived?

vars == <<kind, pc, object, result, lock, records, revoked, leftover, stored>>

TypeOK ==
  /\ kind \in Kinds
  /\ pc \in [Workers -> {"idle", "route", "acquire", "count", "temp", "rename",
                         "unlock", "fastTemp", "fastRename"}]
  /\ object \in [Workers -> Objects \cup {NoObject}]
  /\ \A w \in Workers : pc[w] # "idle" => object[w] \in Objects
  /\ result \in [Workers -> {"none", "ok", "busy", "quota", "io"}]
  /\ lock \in Workers \cup {Free, Orphaned}
  /\ records \in SUBSET Objects
  /\ revoked \in SUBSET Objects
  /\ leftover \in Nat
  /\ stored \in [Workers -> BOOLEAN]

Init ==
  /\ kind \in Kinds
  /\ pc = [w \in Workers |-> "idle"]
  /\ object = [w \in Workers |-> NoObject]
  /\ result = [w \in Workers |-> "none"]
  /\ lock = Free
  /\ records = {}
  /\ revoked = {}
  /\ leftover = 0
  /\ stored = [w \in Workers |-> FALSE]

Goto(w, step) == pc' = [pc EXCEPT ![w] = step]
Return(w, value) == result' = [result EXCEPT ![w] = value]

(* What the limit is about; a project's creator is an active device too. *)
Active == Cardinality(records \ revoked) + (IF kind = "device" THEN 1 ELSE 0)

(***************************************************************************)
(* What the relay counts.  For a creator it opens the genesis record of    *)
(* each project by name; in the two directories it counts every regular    *)
(* file, so temporary files, leftover or being written, count as well.     *)
(***************************************************************************)
TempFiles ==
  leftover + Cardinality({w \in Workers : pc[w] \in {"rename", "fastRename"}})

Counted == Active + (IF kind = "project" THEN 0 ELSE TempFiles)

-------------------------------------------------------------------------------
Request(w, o) ==
  /\ pc[w] = "idle"
  /\ object' = [object EXCEPT ![w] = o]
  /\ Return(w, "none")
  /\ Goto(w, "route")
  /\ stored' = [stored EXCEPT ![w] = o \in records]
  /\ UNCHANGED <<kind, lock, records, revoked, leftover>>

(* Fault: a record that exists takes the lock like a new one. *)
RouteNoLook(w) ==
  /\ pc[w] = "route"
  /\ Goto(w, IF Cap = 0 THEN "fastTemp" ELSE "acquire")
  /\ UNCHANGED <<kind, object, result, lock, records, revoked, leftover, stored>>

(* No cap, or a record that exists: it is written without the lock. *)
Route(w) ==
  /\ pc[w] = "route"
  /\ Goto(w, IF Cap = 0 \/ object[w] \in records THEN "fastTemp" ELSE "acquire")
  /\ UNCHANGED <<kind, object, result, lock, records, revoked, leftover, stored>>

(* Fault: the count is not locked. *)
AcquireNoLock(w) ==
  /\ pc[w] = "acquire"
  /\ Goto(w, "count")
  /\ UNCHANGED <<kind, object, result, lock, records, revoked, leftover, stored>>

Acquire(w) ==
  /\ pc[w] = "acquire"
  /\ lock = Free
  /\ lock' = w
  /\ Goto(w, "count")
  /\ UNCHANGED <<kind, object, result, records, revoked, leftover, stored>>

AcquireBusy(w) ==
  /\ pc[w] = "acquire"
  /\ lock # Free
  /\ Return(w, "busy")
  /\ Goto(w, "idle")
  /\ UNCHANGED <<kind, object, lock, records, revoked, leftover, stored>>

AcquireFails(w) ==
  /\ pc[w] = "acquire"
  /\ lock = Free
  /\ lock' = Orphaned
  /\ Return(w, "io")
  /\ Goto(w, "idle")
  /\ UNCHANGED <<kind, object, records, revoked, leftover, stored>>

(* Fault: the record is not looked for again under the lock. *)
CountWithoutRecheck(w) ==
  /\ pc[w] = "count"
  /\ IF Counted >= Cap
     THEN Goto(w, "unlock") /\ Return(w, "quota")
     ELSE Goto(w, "temp") /\ UNCHANGED result
  /\ UNCHANGED <<kind, object, lock, records, revoked, leftover, stored>>

(* Under the lock: the record may have appeared meanwhile, else the count. *)
Count(w) ==
  /\ pc[w] = "count"
  /\ IF object[w] \notin records /\ Counted >= Cap
     THEN Goto(w, "unlock") /\ Return(w, "quota")
     ELSE Goto(w, "temp") /\ UNCHANGED result
  /\ UNCHANGED <<kind, object, lock, records, revoked, leftover, stored>>

(* write_access_record: atomic_write makes a temporary file and renames it. *)
WriteTemp(w) ==
  /\ pc[w] \in {"temp", "fastTemp"}
  /\ Goto(w, IF pc[w] = "temp" THEN "rename" ELSE "fastRename")
  /\ UNCHANGED <<kind, object, result, lock, records, revoked, leftover, stored>>

Rename(w) ==
  /\ pc[w] \in {"rename", "fastRename"}
  /\ records' = records \cup {object[w]}
  /\ Return(w, "ok")
  /\ Goto(w, IF pc[w] = "rename" THEN "unlock" ELSE "idle")
  /\ UNCHANGED <<kind, object, lock, revoked, leftover, stored>>

(* An error or a crash in atomic_write leaves the temporary file it made. *)
LeaveTemp(w) ==
  IF pc[w] \in {"rename", "fastRename"}
  THEN leftover < MaxLeftover /\ leftover' = leftover + 1
  ELSE UNCHANGED leftover

WriteFails(w) ==
  /\ pc[w] \in {"temp", "rename", "fastTemp", "fastRename"}
  /\ LeaveTemp(w)
  /\ Return(w, "io")
  /\ Goto(w, IF pc[w] \in {"temp", "rename"} THEN "unlock" ELSE "idle")
  /\ UNCHANGED <<kind, object, lock, records, revoked, stored>>

Unlock(w) ==
  /\ pc[w] = "unlock"
  /\ lock' = Free
  /\ Goto(w, "idle")
  /\ UNCHANGED <<kind, object, result, records, revoked, leftover, stored>>

Crash(w) ==
  /\ pc[w] # "idle"
  /\ lock' = IF lock = w THEN Orphaned ELSE lock
  /\ LeaveTemp(w)
  /\ Return(w, "none")
  /\ Goto(w, "idle")
  /\ UNCHANGED <<kind, object, records, revoked, stored>>

-------------------------------------------------------------------------------
(* publish_access_record stores a revocation, which nothing ever removes. *)
Revoke(o) ==
  /\ kind = "device"
  /\ o \in records \ revoked
  /\ revoked' = revoked \cup {o}
  /\ UNCHANGED <<kind, pc, object, result, lock, records, leftover, stored>>

(***************************************************************************)
(* maintenance cleanup removes temporary files; of the lock files it knows *)
(* publish.lock only, so it never removes a quota lock.                    *)
(***************************************************************************)
CleanupTemp ==
  /\ leftover > 0
  /\ leftover' = leftover - 1
  /\ UNCHANGED <<kind, pc, object, result, lock, records, revoked, stored>>

Handle(w) ==
  \/ Route(w) \/ Acquire(w) \/ AcquireBusy(w) \/ AcquireFails(w) \/ Count(w)
  \/ WriteTemp(w) \/ Rename(w) \/ WriteFails(w) \/ Unlock(w)

Next ==
  \/ \E w \in Workers : (\E o \in Objects : Request(w, o)) \/ Handle(w) \/ Crash(w)
  \/ \E o \in Objects : Revoke(o)
  \/ CleanupTemp

Spec == Init /\ [][Next]_vars

(* A handler that has started runs on, and cleanup runs from a timer. *)
FairSpec == Spec /\ WF_vars(CleanupTemp) /\ \A w \in Workers : WF_vars(Handle(w))

-------------------------------------------------------------------------------
(* Properties *)

(***************************************************************************)
(* However creations, re-publications, failures and revocations overlap,   *)
(* the records that count never outnumber the cap.                         *)
(***************************************************************************)
CapHolds == Cap > 0 => Active <= Cap

(***************************************************************************)
(* Re-publishing goes through, whoever creates, fails or dies beside it: a *)
(* request whose record was on the relay when it arrived ends neither by   *)
(* the cap nor by the lock, also when a dead process left that lock.  And  *)
(* one that ends refused for the cap was never a re-publication: from its  *)
(* arrival, over the look, the lock and the count, to its end no other     *)
(* worker has stored its record.                                           *)
(***************************************************************************)
RepublishGoesThrough ==
  [][\A w \in Workers : pc[w] # "idle" /\ pc'[w] = "idle" =>
       /\ stored[w] => result'[w] \notin {"busy", "quota"}
       /\ result'[w] = "quota" => object[w] \notin records']_vars

(***************************************************************************)
(* "Removes expired nonce, temporary, and stale lock files" (the comment   *)
(* on cleanup_storage): a quota lock does not stay for good.               *)
(***************************************************************************)
QuotaLockIsFreed == (lock # Free) ~> (lock = Free)

(***************************************************************************)
(* The inductive form of CapHolds: past the lock a worker is alone, and    *)
(* past the count there is room for its record.                            *)
(***************************************************************************)
CapInv ==
  /\ TypeOK
  /\ \A w \in Workers : pc[w] \in {"count", "temp", "rename", "unlock"} => lock = w
  /\ \A w \in Workers : pc[w] \in {"temp", "rename"} =>
       Cap = 0 \/ object[w] \in records \/ Active < Cap
  /\ \A w \in Workers : pc[w] \in {"fastTemp", "fastRename"} =>
       Cap = 0 \/ object[w] \in records
  /\ CapHolds
================================================================================
