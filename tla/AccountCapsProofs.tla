--------------------------- MODULE AccountCapsProofs ---------------------------
(***************************************************************************)
(* For any number of workers and records, every cap and each kind of       *)
(* record: CapInv is an inductive invariant, so the caps hold, and with it *)
(* RepublishInv, so publishing a record again goes through.                *)
(***************************************************************************)
EXTENDS AccountCaps, FiniteSetTheorems, TLAPS

USE DEF Goto, Return

Locked == {"count", "temp", "rename", "unlock"}

LEMMA TypeInit == Init => TypeOK
  BY CapAssumption DEF Init, TypeOK

LEMMA TypeStep == TypeOK /\ [Next]_vars => TypeOK'
<1> SUFFICES ASSUME TypeOK, [Next]_vars PROVE TypeOK'
  OBVIOUS
<1> USE CapAssumption DEF TypeOK
<1>1. ASSUME NEW w \in Workers, NEW o \in Objects, Request(w, o) PROVE TypeOK'
  BY <1>1 DEF Request
<1>2. ASSUME NEW w \in Workers, Route(w) PROVE TypeOK'
  BY <1>2 DEF Route
<1>3. ASSUME NEW w \in Workers, Acquire(w) \/ AcquireBusy(w) \/ AcquireFails(w)
      PROVE  TypeOK'
  BY <1>3 DEF Acquire, AcquireBusy, AcquireFails
<1>4. ASSUME NEW w \in Workers, Count(w) \/ Unlock(w) PROVE TypeOK'
  BY <1>4 DEF Count, Unlock
<1>5. ASSUME NEW w \in Workers, WriteTemp(w) \/ Rename(w) PROVE TypeOK'
  BY <1>5 DEF WriteTemp, Rename
<1>6. ASSUME NEW w \in Workers, WriteFails(w) PROVE TypeOK'
  BY <1>6 DEF WriteFails, LeaveTemp
<1>7. ASSUME NEW w \in Workers, Crash(w) PROVE TypeOK'
  BY <1>7 DEF Crash, LeaveTemp
<1>8. CASE (\E o \in Objects : Revoke(o)) \/ CleanupTemp \/ UNCHANGED vars
  BY <1>8 DEF Revoke, CleanupTemp, vars
<1> QED
  BY <1>1, <1>2, <1>3, <1>4, <1>5, <1>6, <1>7, <1>8 DEF Next, Handle

-------------------------------------------------------------------------------
(* Sets of records without the revoked ones can be counted. *)
LEMMA Countable ==
  ASSUME NEW R \in SUBSET Objects, NEW S
  PROVE  IsFiniteSet(R \ S) /\ Cardinality(R \ S) \in Nat
<1>1. IsFiniteSet(R \ S)
  BY FS_Subset, CapAssumption
<1> QED
  BY <1>1, FS_CardinalityType

(* What is counted is never less than what the limit is about. *)
LEMMA Numbers ==
  ASSUME TypeOK
  PROVE  Active \in Nat /\ Counted \in Nat /\ Active <= Counted
<1>1. IsFiniteSet({w \in Workers : pc[w] \in {"rename", "fastRename"}})
  BY FS_Subset, CapAssumption
<1>2. Active \in Nat
  <2>1. Cardinality(records \ revoked) \in Nat
    BY Countable DEF TypeOK
  <2> QED
    BY <2>1 DEF Active
<1>3. TempFiles \in Nat
  BY <1>1, FS_CardinalityType DEF TempFiles, TypeOK
<1> QED
  BY <1>2, <1>3 DEF Counted

(* One record more is at most one more active; a revocation is never more. *)
LEMMA OneMore ==
  ASSUME TypeOK, NEW o \in Objects, kind' = kind, revoked' = revoked,
         records' = records \cup {o}
  PROVE  Active' <= Active + 1
<1> DEFINE before == records \ revoked
<1>1. IsFiniteSet(before) /\ Cardinality(before) \in Nat
  BY Countable DEF TypeOK
<1>2. records' \ revoked' \in {before, before \cup {o}}
  OBVIOUS
<1>3. Cardinality(before \cup {o}) \in {Cardinality(before), Cardinality(before) + 1}
  BY <1>1, FS_AddElement
<1>4. Cardinality(records' \ revoked') \in {Cardinality(before), Cardinality(before) + 1}
  BY <1>2, <1>3
<1> QED
  BY <1>1, <1>4 DEF Active

LEMMA OneLess ==
  ASSUME TypeOK, NEW o \in Objects, kind' = kind, records' = records,
         revoked' = revoked \cup {o}
  PROVE  Active' <= Active
<1>1. IsFiniteSet(records \ revoked) /\ Cardinality(records \ revoked) \in Nat
  BY Countable DEF TypeOK
<1>2. records' \ revoked' \in SUBSET (records \ revoked)
  OBVIOUS
<1>3. /\ Cardinality(records' \ revoked') \in Nat
      /\ Cardinality(records' \ revoked') <= Cardinality(records \ revoked)
  BY <1>1, <1>2, FS_Subset, FS_CardinalityType
<1> QED
  BY <1>1, <1>3 DEF Active

-------------------------------------------------------------------------------
(***************************************************************************)
(* The invariant after each action.  Only Rename and Revoke move what is   *)
(* counted; a rename without the lock is of a record that exists.          *)
(***************************************************************************)
LEMMA CapStep == CapInv /\ [Next]_vars => CapInv'
<1> SUFFICES ASSUME CapInv, [Next]_vars PROVE CapInv'
  OBVIOUS
<1> USE CapAssumption DEF CapInv, TypeOK, CapHolds
<1>0. TypeOK'
  BY TypeStep DEF CapInv
<1>1. Active \in Nat /\ Counted \in Nat /\ Active <= Counted /\ Active' \in Nat
  <2>1. Active \in Nat /\ Counted \in Nat /\ Active <= Counted
    BY Numbers
  <2>2. Cardinality(records' \ revoked') \in Nat
    BY <1>0, Countable
  <2>3. Active' \in Nat
    BY <2>2 DEF Active
  <2> QED
    BY <2>1, <2>3
<1>2. ASSUME UNCHANGED <<kind, records, revoked>> PROVE Active' = Active
  BY <1>2 DEF Active
<1>3. ASSUME NEW w \in Workers, NEW o \in Objects, Request(w, o) PROVE CapInv'
  BY <1>0, <1>1, <1>2, <1>3 DEF Request
<1>4. ASSUME NEW w \in Workers, Route(w) PROVE CapInv'
  BY <1>0, <1>1, <1>2, <1>4 DEF Route
<1>5. ASSUME NEW w \in Workers, Acquire(w) \/ AcquireBusy(w) \/ AcquireFails(w)
      PROVE  CapInv'
  BY <1>0, <1>1, <1>2, <1>5 DEF Acquire, AcquireBusy, AcquireFails
<1>6. ASSUME NEW w \in Workers, Count(w) PROVE CapInv'
  <2>1. UNCHANGED <<kind, object, lock, records, revoked, leftover>>
    BY <1>6 DEF Count
  <2>2. pc'[w] = "temp" => object[w] \in records \/ Active < Cap
    BY <1>1, <1>6 DEF Count
  <2> QED
    BY <1>0, <1>1, <1>2, <1>6, <2>1, <2>2 DEF Count
<1>7. ASSUME NEW w \in Workers, WriteTemp(w) PROVE CapInv'
  BY <1>0, <1>1, <1>2, <1>7 DEF WriteTemp
<1>8. ASSUME NEW w \in Workers, Rename(w) PROVE CapInv'
  <2>1. /\ pc[w] \in {"rename", "fastRename"}
        /\ records' = records \cup {object[w]}
        /\ UNCHANGED <<kind, object, lock, revoked, leftover>>
        /\ pc' = [pc EXCEPT ![w] = IF pc[w] = "rename" THEN "unlock" ELSE "idle"]
        /\ object[w] \in Objects
    BY <1>8 DEF Rename
  <2>2. CASE object[w] \in records
    <3>1. records' = records
      BY <2>1, <2>2
    <3> QED
      BY <1>0, <1>1, <1>2, <2>1, <3>1
  <2>3. CASE object[w] \notin records /\ Cap # 0
    <3>1. pc[w] = "rename" /\ Active < Cap
      BY <2>1, <2>3
    <3>2. Active' <= Active + 1
      BY <2>1, OneMore
    <3>3. \A v \in Workers : pc'[v] \notin {"temp", "rename"}
      BY <2>1, <3>1
    <3> QED
      BY <1>0, <1>1, <2>1, <3>1, <3>2, <3>3
  <2>4. CASE Cap = 0
    BY <1>0, <2>1, <2>4
  <2> QED
    BY <2>2, <2>3, <2>4
<1>9. ASSUME NEW w \in Workers, WriteFails(w) \/ Unlock(w) \/ Crash(w) PROVE CapInv'
  BY <1>0, <1>1, <1>2, <1>9 DEF WriteFails, Unlock, Crash
<1>10. ASSUME NEW o \in Objects, Revoke(o) PROVE CapInv'
  <2>1. Active' <= Active
    BY <1>10, OneLess DEF Revoke
  <2> QED
    BY <1>0, <1>1, <1>10, <2>1 DEF Revoke
<1>11. CASE CleanupTemp \/ UNCHANGED vars
  BY <1>0, <1>1, <1>2, <1>11 DEF CleanupTemp, vars
<1> QED
  BY <1>3, <1>4, <1>5, <1>6, <1>7, <1>8, <1>9, <1>10, <1>11 DEF Next, Handle

LEMMA CapInit == Init => CapInv
<1> SUFFICES ASSUME Init PROVE CapInv
  OBVIOUS
<1>1. TypeOK
  BY TypeInit
<1>2. records \ revoked = {}
  BY DEF Init
<1>3. CapHolds
  BY <1>2, FS_EmptySet, CapAssumption DEF CapHolds, Active
<1> QED
  BY <1>1, <1>3 DEF Init, CapInv

(***************************************************************************)
(* Past the quota lock a worker is alone and has room for its record, and  *)
(* whoever writes without the lock writes a record that exists.            *)
(***************************************************************************)
THEOREM CapInvariant == Spec => []CapInv
  BY CapInit, CapStep, PTL DEF Spec

(***************************************************************************)
(* The projects of a creator, the environments of a project and its active *)
(* devices never outnumber their caps.                                     *)
(***************************************************************************)
THEOREM CapsAlwaysHold == Spec => []CapHolds
<1>1. CapInv => CapHolds
  BY DEF CapInv
<1> QED
  BY <1>1, CapInvariant, PTL

-------------------------------------------------------------------------------
(***************************************************************************)
(* What the route of a request says of its record.  A record is never      *)
(* removed, so one that was stored when the request came keeps away from   *)
(* the lock; and while a worker that was refused for the cap still holds   *)
(* the lock, nobody can have stored its record.                            *)
(***************************************************************************)
RepublishInv ==
  \A w \in Workers :
    /\ stored[w] => object[w] \in records
    /\ pc[w] \in {"acquire"} \cup Locked => Cap # 0 /\ ~stored[w]
    /\ pc[w] = "unlock" /\ result[w] = "quota" => object[w] \notin records

LEMMA RepublishInit == Init => RepublishInv
  BY DEF Init, RepublishInv, Locked

LEMMA RepublishStep == CapInv /\ RepublishInv /\ [Next]_vars => RepublishInv'
<1> SUFFICES ASSUME CapInv, RepublishInv, [Next]_vars PROVE RepublishInv'
  OBVIOUS
<1> USE DEF CapInv, TypeOK, RepublishInv, Locked
<1>1. ASSUME NEW w \in Workers, NEW o \in Objects, Request(w, o) PROVE RepublishInv'
  BY <1>1 DEF Request
<1>2. ASSUME NEW w \in Workers, Route(w) PROVE RepublishInv'
  BY <1>2 DEF Route
<1>3. ASSUME NEW w \in Workers, Acquire(w) \/ AcquireBusy(w) \/ AcquireFails(w)
      PROVE  RepublishInv'
  BY <1>3 DEF Acquire, AcquireBusy, AcquireFails
<1>4. ASSUME NEW w \in Workers, Count(w) PROVE RepublishInv'
  BY <1>4 DEF Count
<1>5. ASSUME NEW w \in Workers, WriteTemp(w) PROVE RepublishInv'
  BY <1>5 DEF WriteTemp
<1>6. ASSUME NEW w \in Workers, Rename(w) PROVE RepublishInv'
  <2>1. /\ pc[w] \in {"rename", "fastRename"}
        /\ records' = records \cup {object[w]}
        /\ pc' = [pc EXCEPT ![w] = IF pc[w] = "rename" THEN "unlock" ELSE "idle"]
        /\ result' = [result EXCEPT ![w] = "ok"]
        /\ UNCHANGED <<object, stored>>
    BY <1>6 DEF Rename
  <2>2. ASSUME NEW v \in Workers, pc'[v] = "unlock", result'[v] = "quota"
        PROVE  object[v] \notin records'
    <3>1. v # w /\ pc[v] = "unlock" /\ result[v] = "quota"
      BY <2>1, <2>2
    <3>2. Cap # 0 /\ lock = v /\ object[v] \notin records
      BY <3>1
    <3>3. pc[w] = "fastRename" /\ object[w] \in records
      BY <2>1, <3>1, <3>2
    <3> QED
      BY <2>1, <3>2, <3>3
  <2>3. \A v \in Workers : pc'[v] \in {"acquire"} \cup Locked =>
                             pc[v] \in {"acquire"} \cup Locked
    BY <2>1
  <2> QED
    BY <2>1, <2>2, <2>3
<1>7. ASSUME NEW w \in Workers, WriteFails(w) \/ Unlock(w) \/ Crash(w)
      PROVE  RepublishInv'
  BY <1>7 DEF WriteFails, Unlock, Crash
<1>8. CASE (\E o \in Objects : Revoke(o)) \/ CleanupTemp \/ UNCHANGED vars
  BY <1>8 DEF Revoke, CleanupTemp, vars
<1> QED
  BY <1>1, <1>2, <1>3, <1>4, <1>5, <1>6, <1>7, <1>8 DEF Next, Handle

(***************************************************************************)
(* A request for a record that the relay has ends by neither the cap nor   *)
(* the lock, and one that ends refused for the cap has a record that the   *)
(* relay still does not have.                                              *)
(***************************************************************************)
THEOREM RepublicationGoesThrough == Spec => RepublishGoesThrough
<1> DEFINE Ends(w) == pc[w] # "idle" /\ pc'[w] = "idle"
           Right(w) == /\ stored[w] => result'[w] \notin {"busy", "quota"}
                       /\ result'[w] = "quota" => object[w] \notin records'
<1>1. CapInv /\ RepublishInv /\ [Next]_vars =>
        [\A w \in Workers : Ends(w) => Right(w)]_vars
  <2> SUFFICES ASSUME CapInv, RepublishInv, [Next]_vars, NEW w \in Workers, Ends(w)
               PROVE  Right(w)
    BY DEF vars
  <2> USE DEF CapInv, TypeOK, RepublishInv, Locked
  <2>1. ASSUME NEW v \in Workers, AcquireBusy(v) \/ AcquireFails(v) PROVE Right(w)
    BY <2>1 DEF AcquireBusy, AcquireFails
  <2>2. ASSUME NEW v \in Workers, Rename(v) \/ WriteFails(v) \/ Crash(v) PROVE Right(w)
    BY <2>2 DEF Rename, WriteFails, Crash
  <2>3. ASSUME NEW v \in Workers, Unlock(v) PROVE Right(w)
    BY <2>3 DEF Unlock
  <2>4. ASSUME NEW v \in Workers,
               \/ \E o \in Objects : Request(v, o)
               \/ Route(v) \/ Acquire(v) \/ Count(v) \/ WriteTemp(v)
        PROVE  FALSE
    BY <2>4 DEF Request, Route, Acquire, Count, WriteTemp
  <2>5. CASE (\E o \in Objects : Revoke(o)) \/ CleanupTemp \/ UNCHANGED vars
    BY <2>5 DEF Revoke, CleanupTemp, vars
  <2> QED
    BY <2>1, <2>2, <2>3, <2>4, <2>5 DEF Next, Handle
<1>2. Spec => []RepublishInv
  BY RepublishInit, RepublishStep, CapInvariant, PTL DEF Spec
<1> QED
  BY <1>1, <1>2, CapInvariant, PTL DEF Spec, RepublishGoesThrough
================================================================================
