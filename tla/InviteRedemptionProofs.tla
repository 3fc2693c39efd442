------------------------ MODULE InviteRedemptionProofs ------------------------
(***************************************************************************)
(* For any number of workers, devices and invites with any max_uses:       *)
(* InviteInv is an inductive invariant, so an invite never has more join   *)
(* requests than uses, and a retry never meets an exhausted invite.        *)
(***************************************************************************)
EXTENDS InviteRedemption, FiniteSetTheorems, TLAPS

USE DEF Goto, Return, request

LEMMA TypeInit == Init => TypeOK
  BY InviteAssumption DEF Init, TypeOK

LEMMA TypeStep == TypeOK /\ [Next]_vars => TypeOK'
<1> SUFFICES ASSUME TypeOK, [Next]_vars PROVE TypeOK'
  OBVIOUS
<1> USE InviteAssumption DEF TypeOK
<1>1. ASSUME NEW w \in Workers, NEW d \in Devices, NEW i \in Invites, Request(w, d, i)
      PROVE  TypeOK'
  BY <1>1 DEF Request
<1>2. ASSUME NEW w \in Workers, Acquire(w) \/ AcquireBusy(w) \/ AcquireFails(w)
      PROVE  TypeOK'
  BY <1>2 DEF Acquire, AcquireBusy, AcquireFails
<1>3. ASSUME NEW w \in Workers, Validate(w) \/ CountUses(w) \/ Unlock(w) PROVE TypeOK'
  BY <1>3 DEF Validate, CountUses, Unlock
<1>4. ASSUME NEW w \in Workers, WriteJoinRequest(w) PROVE TypeOK'
  BY <1>4 DEF WriteJoinRequest
<1>5. ASSUME NEW w \in Workers, WriteFails(w) PROVE TypeOK'
  BY <1>5 DEF WriteFails, MayLeave
<1>6. ASSUME NEW w \in Workers, Crash(w) PROVE TypeOK'
  BY <1>6 DEF Crash, MayLeave
<1>7. ASSUME NEW i \in Invites, Expire(i) \/ CleanupTemp(i) PROVE TypeOK'
  BY <1>7 DEF Expire, CleanupTemp
<1>8. CASE UNCHANGED vars
  BY <1>8 DEF vars
<1> QED
  BY <1>1, <1>2, <1>3, <1>4, <1>5, <1>6, <1>7, <1>8 DEF Next

-------------------------------------------------------------------------------
(* Sets of devices, and of devices but one, can be counted. *)
LEMMA Countable ==
  ASSUME NEW R \in SUBSET Devices
  PROVE  /\ IsFiniteSet(R) /\ Cardinality(R) \in Nat
         /\ \A d : /\ IsFiniteSet(R \ {d}) /\ Cardinality(R \ {d}) \in Nat
                   /\ d \in R => Cardinality(R) = Cardinality(R \ {d}) + 1
<1>1. IsFiniteSet(R) /\ Cardinality(R) \in Nat
  BY FS_Subset, FS_CardinalityType, InviteAssumption
<1>2. ASSUME NEW d
      PROVE  /\ IsFiniteSet(R \ {d}) /\ Cardinality(R \ {d}) \in Nat
             /\ d \in R => Cardinality(R) = Cardinality(R \ {d}) + 1
  <2>1. IsFiniteSet(R \ {d})
    BY <1>1, FS_RemoveElement
  <2>2. Cardinality(R \ {d}) = IF d \in R THEN Cardinality(R) - 1 ELSE Cardinality(R)
    BY <1>1, FS_RemoveElement
  <2>3. Cardinality(R \ {d}) \in Nat
    BY <2>1, FS_CardinalityType
  <2> QED
    BY <1>1, <2>1, <2>2, <2>3
<1> QED
  BY <1>1, <1>2

LEMMA Fewer ==
  ASSUME NEW R \in SUBSET Devices, NEW S \in SUBSET R
  PROVE  Cardinality(S) \in Nat /\ Cardinality(R) \in Nat /\ Cardinality(S) <= Cardinality(R)
<1>1. IsFiniteSet(R)
  BY Countable
<1> QED
  BY <1>1, FS_Subset, FS_CardinalityType

(***************************************************************************)
(* What the relay counts is never less than the other devices' uses.       *)
(***************************************************************************)
LEMMA CountedUses ==
  ASSUME TypeOK, NEW w \in Workers, pc[w] # "idle"
  PROVE  LET others == Cardinality(Redeemers(invite[w]) \ {device[w]})
         IN  /\ others \in Nat
             /\ AlreadyUsed(w) \in Nat
             /\ AlreadyUsed(w) = others + leftover[invite[w]]
             /\ others <= AlreadyUsed(w)
<1>1. Cardinality(Redeemers(invite[w]) \ {device[w]}) \in Nat
  BY Countable DEF Redeemers
<1>2. leftover[invite[w]] \in Nat
  BY DEF TypeOK
<1> QED
  BY <1>1, <1>2 DEF AlreadyUsed

-------------------------------------------------------------------------------
(* Steps that write no join request. *)
LEMMA QuietStep ==
  ASSUME InviteInv, TypeOK', UNCHANGED joinRequest,
         \A w \in Workers : pc'[w] \in Holding => lock'[invite'[w]] = w,
         \A w \in Workers : pc'[w] = "write" =>
            /\ invite'[w] = invite[w] /\ device'[w] = device[w]
            /\ Cardinality(Redeemers(invite[w]) \ {device[w]}) < MaxUses[invite[w]]
  PROVE  InviteInv'
<1>1. \A i : Redeemers(i)' = Redeemers(i)
  BY DEF Redeemers
<1> QED
  BY <1>1 DEF InviteInv, UsesWithinLimit

(***************************************************************************)
(* A join request is written under the lock of its invite, so it is the    *)
(* one use there was room for; every other invite can only lose a use.     *)
(***************************************************************************)
LEMMA WriteStep ==
  ASSUME InviteInv, TypeOK', NEW w \in Workers, WriteJoinRequest(w)
  PROVE  InviteInv'
<1> DEFINE i == invite[w]
           d == device[w]
<1>1. /\ pc[w] = "write" /\ pc' = [pc EXCEPT ![w] = "unlock"]
      /\ joinRequest' = [joinRequest EXCEPT ![d] = i]
      /\ UNCHANGED <<device, invite, lock, expired, leftover>>
  BY DEF WriteJoinRequest
<1>2. i \in Invites /\ d \in Devices /\ joinRequest \in [Devices -> Invites \cup {NoInvite}]
  BY <1>1 DEF InviteInv, TypeOK
<1>3. /\ Redeemers(i)' = Redeemers(i) \cup {d}
      /\ \A j : j # i => Redeemers(j)' = Redeemers(j) \ {d}
  BY <1>1, <1>2 DEF Redeemers
<1>4. \A j : Redeemers(j) \in SUBSET Devices
  BY DEF Redeemers
<1>5. MaxUses \in [Invites -> Nat]
  BY InviteAssumption
<1>6. UsesWithinLimit'
  <2>1. Cardinality(Redeemers(i)') <= MaxUses[i]
    <3>1. Cardinality(Redeemers(i) \ {d}) < MaxUses[i]
      BY <1>1 DEF InviteInv
    <3>2. Redeemers(i)' \in SUBSET Devices /\ d \in Redeemers(i)'
             /\ Redeemers(i)' \ {d} = Redeemers(i) \ {d}
      BY <1>2, <1>3, <1>4
    <3>3. Cardinality(Redeemers(i)') = Cardinality(Redeemers(i) \ {d}) + 1
      BY <3>2, Countable
    <3>4. Cardinality(Redeemers(i) \ {d}) \in Nat
      BY <1>4, Countable
    <3> QED
      BY <1>2, <1>5, <3>1, <3>3, <3>4
  <2>2. ASSUME NEW j \in Invites, j # i PROVE Cardinality(Redeemers(j)') <= MaxUses[j]
    <3>1. Redeemers(j)' \in SUBSET Redeemers(j)
      BY <1>3, <2>2
    <3>2. /\ Cardinality(Redeemers(j)') \in Nat /\ Cardinality(Redeemers(j)) \in Nat
          /\ Cardinality(Redeemers(j)') <= Cardinality(Redeemers(j))
      BY <1>4, <3>1, Fewer
    <3>3. Cardinality(Redeemers(j)) <= MaxUses[j]
      BY <2>2 DEF InviteInv, UsesWithinLimit
    <3> QED
      BY <1>5, <3>2, <3>3
  <2>3. \A j \in Invites : Cardinality(Redeemers(j)') <= MaxUses[j]
    BY <1>1, <2>1, <2>2 DEF Redeemers
  <2> QED
    BY <2>3 DEF UsesWithinLimit
<1>7. ASSUME NEW v \in Workers, pc'[v] = "write"
      PROVE  Cardinality((Redeemers(invite[v]) \ {device[v]})') < MaxUses[invite[v]]
  <2>1. v # w /\ pc[v] = "write"
    BY <1>1, <1>7 DEF InviteInv, TypeOK
  <2>2. invite[v] # i /\ invite[v] \in Invites
    BY <1>1, <2>1 DEF InviteInv, Holding, TypeOK
  <2>3. (Redeemers(invite[v]) \ {device[v]})' = (Redeemers(invite[v]) \ {d}) \ {device[v]}
    BY <1>1, <1>3, <2>2 DEF Redeemers
  <2>4. Cardinality(Redeemers(invite[v]) \ {device[v]}) < MaxUses[invite[v]]
    BY <2>1 DEF InviteInv
  <2> DEFINE now == (Redeemers(invite[v]) \ {d}) \ {device[v]}
             was == Redeemers(invite[v]) \ {device[v]}
  <2>5. was \in SUBSET Devices /\ now \in SUBSET was
    BY <1>4
  <2>6. Cardinality(now) \in Nat /\ Cardinality(was) \in Nat /\ Cardinality(now) <= Cardinality(was)
    BY <2>5, Fewer
  <2> QED
    BY <1>5, <2>2, <2>3, <2>4, <2>6
<1>8. \A v \in Workers : pc'[v] \in Holding => lock'[invite'[v]] = v
  BY <1>1 DEF InviteInv, TypeOK, Holding
<1> QED
  BY <1>1, <1>6, <1>7, <1>8 DEF InviteInv

LEMMA InviteStep == InviteInv /\ [Next]_vars => InviteInv'
<1> SUFFICES ASSUME InviteInv, [Next]_vars PROVE InviteInv'
  OBVIOUS
<1> USE InviteAssumption DEF InviteInv, TypeOK, Holding
<1>0. TypeOK'
  BY TypeStep DEF InviteInv
<1>1. ASSUME NEW w \in Workers, NEW d \in Devices, NEW i \in Invites, Request(w, d, i)
      PROVE  InviteInv'
  BY <1>0, <1>1, QuietStep DEF Request
<1>2. ASSUME NEW w \in Workers, Acquire(w) \/ AcquireBusy(w) \/ AcquireFails(w)
      PROVE  InviteInv'
  BY <1>0, <1>2, QuietStep DEF Acquire, AcquireBusy, AcquireFails
<1>3. ASSUME NEW w \in Workers, Validate(w) PROVE InviteInv'
  BY <1>0, <1>3, QuietStep DEF Validate
<1>4. ASSUME NEW w \in Workers, CountUses(w) PROVE InviteInv'
  <2>1. pc'[w] = "write" =>
          Cardinality(Redeemers(invite[w]) \ {device[w]}) < MaxUses[invite[w]]
    <3>1. pc'[w] = "write" => AlreadyUsed(w) < MaxUses[invite[w]]
      <4>1. AlreadyUsed(w) \in Nat
        BY <1>4, CountedUses DEF CountUses
      <4> QED
        BY <1>4, <4>1 DEF CountUses
    <3> QED
      BY <1>4, <3>1, CountedUses DEF CountUses
  <2> QED
    BY <1>0, <1>4, <2>1, QuietStep DEF CountUses
<1>5. ASSUME NEW w \in Workers, WriteJoinRequest(w) PROVE InviteInv'
  BY <1>0, <1>5, WriteStep
<1>6. ASSUME NEW w \in Workers, WriteFails(w) \/ Unlock(w) PROVE InviteInv'
  BY <1>0, <1>6, QuietStep DEF WriteFails, Unlock
<1>7. ASSUME NEW w \in Workers, Crash(w) PROVE InviteInv'
  BY <1>0, <1>7, QuietStep DEF Crash
<1>8. CASE (\E i \in Invites : Expire(i) \/ CleanupTemp(i)) \/ UNCHANGED vars
  BY <1>0, <1>8, QuietStep DEF Expire, CleanupTemp, vars
<1> QED
  BY <1>1, <1>2, <1>3, <1>4, <1>5, <1>6, <1>7, <1>8 DEF Next

LEMMA InviteInit == Init => InviteInv
<1> SUFFICES ASSUME Init PROVE InviteInv
  OBVIOUS
<1>1. TypeOK
  BY TypeInit
<1>2. \A i \in Invites : Redeemers(i) = {}
  BY InviteAssumption DEF Init, Redeemers
<1>3. UsesWithinLimit
  BY <1>2, FS_EmptySet, InviteAssumption DEF UsesWithinLimit
<1> QED
  BY <1>1, <1>3 DEF Init, InviteInv, Holding

(***************************************************************************)
(* Past the count a worker is alone with its invite and its device has a   *)
(* use left.                                                               *)
(***************************************************************************)
THEOREM InviteInvariant == Spec => []InviteInv
  BY InviteInit, InviteStep, PTL DEF Spec

(* The join requests that name an invite never outnumber its max_uses. *)
THEOREM UsesStayWithinLimit == Spec => []UsesWithinLimit
<1>1. InviteInv => UsesWithinLimit
  BY DEF InviteInv
<1> QED
  BY <1>1, InviteInvariant, PTL

(***************************************************************************)
(* Unless a failed write left a temporary record, a device that holds a    *)
(* use of an invite is never told that the invite is exhausted.            *)
(***************************************************************************)
THEOREM RetriesAreFree == Spec => RetryIsFree
<1> DEFINE Refused(w) == result[w] # "exhausted" /\ result'[w] = "exhausted"
           Free0(w) == leftover[invite[w]] = 0
<1>1. InviteInv /\ [Next]_vars =>
        [\A w \in Workers : Refused(w) /\ Free0(w) => joinRequest[device[w]] # invite[w]]_vars
  <2> SUFFICES ASSUME InviteInv, [Next]_vars, NEW w \in Workers, Refused(w), Free0(w)
               PROVE  joinRequest[device[w]] # invite[w]
    BY DEF vars
  <2>1. CASE CountUses(w)
    <3>1. pc[w] = "count" /\ AlreadyUsed(w) >= MaxUses[invite[w]]
      BY <2>1 DEF CountUses, InviteInv, TypeOK
    <3>2. Cardinality(Redeemers(invite[w]) \ {device[w]}) >= MaxUses[invite[w]]
      BY <3>1, CountedUses DEF InviteInv
    <3>3. invite[w] \in Invites /\ MaxUses[invite[w]] \in Nat /\ device[w] \in Devices
      BY <3>1, InviteAssumption DEF InviteInv, TypeOK
    <3>4. Cardinality(Redeemers(invite[w])) <= MaxUses[invite[w]]
      BY <3>3 DEF InviteInv, UsesWithinLimit
    <3>5. device[w] \notin Redeemers(invite[w])
      <4>1. Redeemers(invite[w]) \in SUBSET Devices
        BY DEF Redeemers
      <4>2. Cardinality(Redeemers(invite[w]) \ {device[w]}) \in Nat
        BY <4>1, Countable
      <4>3. device[w] \in Redeemers(invite[w]) =>
              Cardinality(Redeemers(invite[w])) =
                Cardinality(Redeemers(invite[w]) \ {device[w]}) + 1
        BY <4>1, Countable
      <4> QED
        BY <3>2, <3>3, <3>4, <4>2, <4>3
    <3> QED
      BY <3>3, <3>5 DEF Redeemers
  <2>2. CASE ~CountUses(w)
    BY <2>2 DEF InviteInv, TypeOK, Next, Request, Acquire, AcquireBusy, AcquireFails,
       Validate, CountUses, WriteJoinRequest, WriteFails, Unlock, Crash, Expire,
       CleanupTemp, vars
  <2> QED
    BY <2>1, <2>2
<1> QED
  BY <1>1, InviteInvariant, PTL DEF Spec, RetryIsFree
================================================================================
