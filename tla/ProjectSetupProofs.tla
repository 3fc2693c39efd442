--------------------------- MODULE ProjectSetupProofs ---------------------------
(***************************************************************************)
(* For every number of machines, projects, environments and faults, when a *)
(* machine runs one command at a time: a creator keeps its keys, a         *)
(* founder's locator stands for files that are there, labels are unique,   *)
(* and a project that no fault interrupted can be opened.                  *)
(***************************************************************************)
EXTENDS ProjectSetup, SequenceTheorems, FiniteSetTheorems, TLAPS

-----------------------------------------------------------------------------
(* Plans: what a plan still holds, and what taking its first step leaves. *)

LEMMA TailOfPlan ==
    ASSUME NEW plan \in Seq(PlanSteps), plan # <<>>
    PROVE  /\ Head(plan) \in PlanSteps
           /\ Tail(plan) \in Seq(PlanSteps)
           /\ Range(plan) = {Head(plan)} \cup Range(Tail(plan))
           /\ Ordered(plan) => Ordered(Tail(plan))
           /\ Ordered(plan) => \A step \in Range(Tail(plan)) : MayFollow(Head(plan), step)
           /\ Completed(plan) => Completed(Tail(plan))
           /\ Completed(plan) => \A pair \in Partner :
                Head(plan) = Write(pair[1]) => Write(pair[2]) \in Range(Tail(plan))
<1> DEFINE n == Len(plan)
           t == Tail(plan)
<1>1. /\ n \in Nat /\ n > 0 /\ DOMAIN plan = 1..n
      /\ t \in Seq(PlanSteps) /\ DOMAIN t = 1..(n - 1)
      /\ \A i \in 1..(n - 1) : t[i] = plan[i + 1]
      /\ Head(plan) = plan[1] /\ plan[1] \in PlanSteps
  OBVIOUS
<1> HIDE DEF n, t
<1>2. \A i \in 2..n : i - 1 \in 1..(n - 1) /\ t[i - 1] = plan[i]
  BY <1>1
<1>3. Range(plan) = {plan[1]} \cup Range(t)
  <2>1. Range(plan) \subseteq {plan[1]} \cup Range(t)
    <3> SUFFICES ASSUME NEW i \in 1..n PROVE plan[i] \in {plan[1]} \cup Range(t)
      BY <1>1 DEF Range
    <3>1. CASE i # 1
      <4>1. i \in 2..n
        BY <1>1, <3>1
      <4> QED
        BY <1>1, <1>2, <4>1 DEF Range
    <3> QED
      BY <3>1
  <2>2. Range(t) \subseteq Range(plan)
    <3>1. \A i \in 1..(n - 1) : i + 1 \in 1..n
      BY <1>1
    <3> QED
      BY <1>1, <3>1 DEF Range
  <2>3. 1 \in 1..n /\ plan[1] \in Range(plan)
    BY <1>1 DEF Range
  <2> QED
    BY <2>1, <2>2, <2>3
<1>4. ASSUME Ordered(plan) PROVE Ordered(t)
  <2> SUFFICES ASSUME NEW i \in 1..(n - 1), NEW j \in 1..(n - 1), i < j
               PROVE  MayFollow(t[i], t[j])
    BY <1>1 DEF Ordered
  <2>1. i + 1 \in 1..n /\ j + 1 \in 1..n /\ i + 1 < j + 1
    BY <1>1
  <2> QED
    BY <1>1, <1>4, <2>1 DEF Ordered
<1>5. ASSUME Ordered(plan), NEW step \in Range(t) PROVE MayFollow(plan[1], step)
  <2>1. PICK i \in 1..(n - 1) : step = plan[i + 1]
    BY <1>1, <1>5 DEF Range
  <2>2. 1 \in 1..n /\ i + 1 \in 1..n /\ 1 < i + 1
    BY <1>1
  <2> QED
    BY <1>1, <1>5, <2>1, <2>2 DEF Ordered
<1>6. ASSUME Completed(plan), NEW pair \in Partner, NEW i \in 1..n, plan[i] = Write(pair[1])
      PROVE  \E j \in 2..n : i < j /\ plan[j] = Write(pair[2])
  <2>1. PICK j \in 1..n : i < j /\ plan[j] = Write(pair[2])
    BY <1>1, <1>6 DEF Completed
  <2>2. j \in 2..n
    BY <1>1, <2>1
  <2> QED
    BY <2>1, <2>2
<1>7. ASSUME Completed(plan) PROVE Completed(t)
  <2> SUFFICES ASSUME NEW pair \in Partner, NEW i \in 1..(n - 1), t[i] = Write(pair[1])
               PROVE  \E j \in 1..(n - 1) : i < j /\ t[j] = Write(pair[2])
    BY <1>1 DEF Completed
  <2>1. i + 1 \in 1..n /\ plan[i + 1] = Write(pair[1])
    BY <1>1
  <2>2. PICK j \in 2..n : i + 1 < j /\ plan[j] = Write(pair[2])
    BY <1>6, <1>7, <2>1
  <2>3. j - 1 \in 1..(n - 1) /\ i < j - 1 /\ t[j - 1] = plan[j]
    BY <1>1, <1>2, <2>2
  <2> QED
    BY <2>2, <2>3
<1>8. ASSUME Completed(plan), NEW pair \in Partner, plan[1] = Write(pair[1])
      PROVE  Write(pair[2]) \in Range(t)
  <2>1. 1 \in 1..n
    BY <1>1
  <2>2. PICK j \in 2..n : plan[j] = Write(pair[2])
    BY <1>6, <1>8, <2>1
  <2> QED
    BY <1>1, <1>2, <2>2 DEF Range
<1> QED
  BY <1>1, <1>3, <1>4, <1>5, <1>7, <1>8 DEF t

LEMMA EmptyPlan ==
    /\ <<>> \in Seq(PlanSteps) /\ Range(<<>>) = {}
    /\ Ordered(<<>>) /\ Completed(<<>>)
  BY DEF Range, Ordered, Completed

(* One plan after another. *)
LEMMA JoinedPlans ==
    ASSUME NEW s \in Seq(PlanSteps), NEW t \in Seq(PlanSteps)
    PROVE  /\ s \o t \in Seq(PlanSteps)
           /\ Range(s \o t) = Range(s) \cup Range(t)
           /\ Completed(s) /\ Completed(t) => Completed(s \o t)
           /\ Ordered(s) /\ Ordered(t)
              /\ (\A a \in Range(s), b \in Range(t) : MayFollow(a, b)) => Ordered(s \o t)
<1> DEFINE n == Len(s)
           k == Len(t)
           st == s \o t
<1>1. /\ n \in Nat /\ DOMAIN s = 1..n /\ k \in Nat /\ DOMAIN t = 1..k
      /\ st \in Seq(PlanSteps) /\ DOMAIN st = 1..(n + k)
      /\ \A i \in 1..(n + k) : st[i] = IF i <= n THEN s[i] ELSE t[i - n]
  OBVIOUS
<1> HIDE DEF n, k, st
<1>2. /\ \A i \in 1..n : i \in 1..(n + k) /\ st[i] = s[i]
      /\ \A i \in 1..k : n + i \in 1..(n + k) /\ st[n + i] = t[i]
      /\ \A i \in 1..(n + k) : i \in 1..n \/ (i - n \in 1..k /\ i = n + (i - n))
  <2>1. ASSUME NEW i \in 1..k PROVE n + i \in 1..(n + k) /\ st[n + i] = t[i]
    <3>1. n + i \in 1..(n + k) /\ ~(n + i <= n) /\ (n + i) - n = i
      BY <1>1
    <3> QED
      BY <1>1, <3>1
  <2>2. \A i \in 1..(n + k) : i \in 1..n \/ (i - n \in 1..k /\ i = n + (i - n))
    BY <1>1
  <2>3. \A i \in 1..n : i \in 1..(n + k) /\ st[i] = s[i]
    BY <1>1
  <2> QED
    BY <2>1, <2>2, <2>3
<1>3. Range(st) = Range(s) \cup Range(t)
  <2>1. ASSUME NEW i \in 1..(n + k) PROVE st[i] \in Range(s) \cup Range(t)
    <3>1. CASE i \in 1..n
      BY <1>1, <1>2, <3>1 DEF Range
    <3>2. CASE i - n \in 1..k /\ i = n + (i - n)
      <4>1. PICK j \in 1..k : i = n + j
        BY <3>2
      <4> QED
        BY <1>1, <1>2, <4>1 DEF Range
    <3> QED
      BY <1>2, <3>1, <3>2
  <2>2. Range(s) \subseteq Range(st)
    BY <1>1, <1>2 DEF Range
  <2>3. Range(t) \subseteq Range(st)
    <3> SUFFICES ASSUME NEW i \in 1..k PROVE t[i] \in Range(st)
      BY <1>1 DEF Range
    <3>1. n + i \in 1..(n + k) /\ st[n + i] = t[i]
      BY <1>2
    <3> HIDE DEF n
    <3> QED
      BY <1>1, <3>1 DEF Range
  <2> QED
    BY <1>1, <2>1, <2>2, <2>3 DEF Range
<1>4. ASSUME Completed(s), Completed(t), NEW pair \in Partner,
             NEW i \in 1..(n + k), st[i] = Write(pair[1])
      PROVE  \E j \in 1..(n + k) : i < j /\ st[j] = Write(pair[2])
  <2>1. CASE i \in 1..n
    <3>1. s[i] = Write(pair[1])
      BY <1>2, <1>4, <2>1
    <3>2. PICK j \in 1..n : i < j /\ s[j] = Write(pair[2])
      BY <1>1, <1>4, <2>1, <3>1 DEF Completed
    <3> QED
      BY <1>2, <3>2
  <2>2. CASE i - n \in 1..k /\ i = n + (i - n)
    <3>1. PICK l \in 1..k : i = n + l
      BY <2>2
    <3>2. PICK j \in 1..k : l < j /\ t[j] = Write(pair[2])
      BY <1>1, <1>2, <1>4, <3>1 DEF Completed
    <3>3. n + l < n + j
      BY <1>1, <3>2
    <3> QED
      BY <1>2, <3>1, <3>2, <3>3
  <2> QED
    BY <1>2, <2>1, <2>2
<1>5. ASSUME Ordered(s), Ordered(t), \A a \in Range(s), b \in Range(t) : MayFollow(a, b),
             NEW i \in 1..(n + k), NEW j \in 1..(n + k), i < j
      PROVE  MayFollow(st[i], st[j])
  <2>1. CASE j \in 1..n
    <3>1. i \in 1..n
      BY <1>1, <1>5, <2>1
    <3> QED
      BY <1>1, <1>2, <1>5, <2>1, <3>1 DEF Ordered
  <2>2. CASE j - n \in 1..k /\ i \in 1..n
    <3>1. PICK l \in 1..k : j = n + l
      BY <1>1, <2>2
    <3>2. st[i] \in Range(s) /\ st[j] \in Range(t)
      BY <1>1, <1>2, <2>2, <3>1 DEF Range
    <3> QED
      BY <1>5, <3>2
  <2>3. CASE j - n \in 1..k /\ i - n \in 1..k
    <3>1. PICK l \in 1..k : j = n + l
      BY <1>1, <2>3
    <3>2. PICK h \in 1..k : i = n + h
      BY <1>1, <2>3
    <3>3. h < l
      BY <1>1, <1>5, <3>1, <3>2
    <3>4. MayFollow(t[h], t[l])
      BY <1>1, <1>5, <3>3 DEF Ordered
    <3> QED
      BY <1>2, <3>1, <3>2, <3>4
  <2> QED
    BY <1>2, <2>1, <2>2, <2>3
<1> QED
  BY <1>1, <1>3, <1>4, <1>5 DEF Completed, Ordered, st

(* The plans of the commands, by what they hold. *)
StepsFor(E) == {Write(Environment(e)) : e \in E} \cup {Write(Local(e)) : e \in E}
UpdatesFor(E) == {Upsert(e) : e \in E}

LEMMA OrderOfSet ==
    ASSUME NEW E \in SUBSET Environments, NEW s \in Orders(E)
    PROVE  s \in Seq(Environments) /\ Range(s) = E
<1>1. Cardinality(E) \in Nat
  BY SetupAssumption, FS_Subset, FS_CardinalityType
<1>2. s \in [1..Cardinality(E) -> E] /\ \A e \in E : \E i \in 1..Cardinality(E) : s[i] = e
  BY DEF Orders, Surjection
<1>3. s \in Seq(Environments)
  BY <1>1, <1>2, SeqDef
<1> QED
  BY <1>2, <1>3 DEF Range

LEMMA Steps ==
    /\ \A f \in Files : Write(f) \in PlanSteps
    /\ \A p \in Projects : ResetLocator(p) \in PlanSteps /\ ImportMembership(p) \in PlanSteps
    /\ \A e \in Environments : Upsert(e) \in PlanSteps
    /\ \A p \in Projects : {Metadata(p), Genesis(p), Membership(p)} \subseteq Files
    /\ \A e \in Environments : {Environment(e), Local(e)} \subseteq Files
<1>1. /\ \A p \in Projects : {Metadata(p), Genesis(p), Membership(p)} \subseteq Files
      /\ \A e \in Environments : {Environment(e), Local(e)} \subseteq Files
  BY DEF Files
<1>2. \A f \in Files : Write(f) \in PlanSteps
  BY DEF PlanSteps, Write
<1>3. \A p \in Projects : ResetLocator(p) \in PlanSteps /\ ImportMembership(p) \in PlanSteps
  BY DEF PlanSteps, ResetLocator, ImportMembership
<1>4. \A e \in Environments : Upsert(e) \in PlanSteps
  BY DEF PlanSteps, Upsert
<1> QED
  BY <1>1, <1>2, <1>3, <1>4

(* Which steps are the same, and which may follow each other. *)
LEMMA StepsDiffer ==
    /\ \A f, g : Write(f) = Write(g) => f = g
    /\ \A p, q : ResetLocator(p) = ResetLocator(q) => p = q
    /\ \A d, e : Upsert(d) = Upsert(e) => d = e
    /\ \A p, q : ImportMembership(p) = ImportMembership(q) => p = q
    /\ \A x, y : /\ Write(x) # ResetLocator(y) /\ Write(x) # Upsert(y)
                 /\ Write(x) # ImportMembership(y) /\ ResetLocator(x) # Upsert(y)
                 /\ ResetLocator(x) # ImportMembership(y) /\ Upsert(x) # ImportMembership(y)
    /\ \A x : /\ Write(x).op = "write" /\ Write(x).what = x
              /\ ResetLocator(x).op = "reset" /\ ResetLocator(x).what = x
              /\ Upsert(x).op = "upsert" /\ Upsert(x).what = x
              /\ ImportMembership(x).op = "import" /\ ImportMembership(x).what = x
<1>1. \A x : /\ Write(x).op = "write" /\ Write(x).what = x
             /\ ResetLocator(x).op = "reset" /\ ResetLocator(x).what = x
             /\ Upsert(x).op = "upsert" /\ Upsert(x).what = x
             /\ ImportMembership(x).op = "import" /\ ImportMembership(x).what = x
  BY DEF Write, ResetLocator, Upsert, ImportMembership
<1> QED
  BY <1>1

LEMMA FilesDiffer ==
    /\ \A x, y : /\ Metadata(x) = Metadata(y) => x = y
                 /\ Genesis(x) = Genesis(y) => x = y
                 /\ Membership(x) = Membership(y) => x = y
                 /\ Environment(x) = Environment(y) => x = y
                 /\ Local(x) = Local(y) => x = y
    /\ \A x, y : /\ Metadata(x) # Genesis(y) /\ Metadata(x) # Membership(y)
                 /\ Metadata(x) # Environment(y) /\ Metadata(x) # Local(y)
                 /\ Genesis(x) # Membership(y) /\ Genesis(x) # Environment(y)
                 /\ Genesis(x) # Local(y) /\ Membership(x) # Environment(y)
                 /\ Membership(x) # Local(y) /\ Environment(x) # Local(y)
<1>1. \A x : /\ Metadata(x).file = "project.toml" /\ Metadata(x).of = x
             /\ Genesis(x).file = "genesis.keyit" /\ Genesis(x).of = x
             /\ Membership(x).file = "membership/genesis.keyit" /\ Membership(x).of = x
             /\ Environment(x).file = "environment.keyit" /\ Environment(x).of = x
             /\ Local(x).file = "local.toml" /\ Local(x).of = x
  BY DEF Metadata, Genesis, Membership, Environment, Local
<1> QED
  BY <1>1

LEMMA WritesFirst ==
    ASSUME NEW plan, \A step \in Range(plan) : \E f : step = Write(f)
    PROVE  Ordered(plan)
<1>1. \A i \in DOMAIN plan : plan[i].op = "write"
  BY StepsDiffer DEF Range
<1> QED
  BY <1>1 DEF Ordered, MayFollow

LEMMA EnvironmentDirsPlan ==
    ASSUME NEW s \in Seq(Environments)
    PROVE  /\ WriteEnvironmentDirs(s) \in Seq(PlanSteps)
           /\ Range(WriteEnvironmentDirs(s)) = StepsFor(Range(s))
           /\ Ordered(WriteEnvironmentDirs(s)) /\ Completed(WriteEnvironmentDirs(s))
<1> DEFINE n == Len(s)
           w == WriteEnvironmentDirs(s)
<1>1. n \in Nat /\ DOMAIN s = 1..n /\ \A i \in 1..n : s[i] \in Environments
  OBVIOUS
<1>2. w = [i \in 1..(2 * n) |-> IF i % 2 = 1 THEN Write(Environment(s[(i + 1) \div 2]))
                                ELSE Write(Local(s[i \div 2]))]
  BY DEF WriteEnvironmentDirs, WriteEnvironmentDir
<1> HIDE DEF n, w
<1>3. \A i \in 1..(2 * n) : \/ i % 2 = 1 /\ (i + 1) \div 2 \in 1..n /\ i = 2 * ((i + 1) \div 2) - 1
                            \/ i % 2 = 0 /\ i \div 2 \in 1..n /\ i = 2 * (i \div 2)
  BY <1>1
<1>4. DOMAIN w = 1..(2 * n) /\ 2 * n \in Nat
  BY <1>1, <1>2
<1>5. ASSUME NEW k \in 1..n
      PROVE  /\ 2 * k - 1 \in 1..(2 * n) /\ w[2 * k - 1] = Write(Environment(s[k]))
             /\ 2 * k \in 1..(2 * n) /\ w[2 * k] = Write(Local(s[k]))
  <2>1. /\ 2 * k - 1 \in 1..(2 * n) /\ (2 * k - 1) % 2 = 1 /\ ((2 * k - 1) + 1) \div 2 = k
        /\ 2 * k \in 1..(2 * n) /\ (2 * k) % 2 = 0 /\ (2 * k) \div 2 = k
    BY <1>1
  <2> QED
    BY <1>2, <2>1
<1>6. ASSUME NEW i \in 1..(2 * n)
      PROVE  \E k \in 1..n : \/ i = 2 * k - 1 /\ w[i] = Write(Environment(s[k]))
                             \/ i = 2 * k /\ w[i] = Write(Local(s[k]))
  BY <1>3, <1>5
<1>7. w \in Seq(PlanSteps)
  <2>1. \A i \in 1..(2 * n) : w[i] \in PlanSteps
    BY <1>1, <1>6, Steps
  <2>2. w \in [1..(2 * n) -> PlanSteps]
    BY <1>2, <2>1
  <2> QED
    BY <1>4, <2>2, SeqDef
<1>8. Range(w) = StepsFor(Range(s))
  <2>1. Range(w) \subseteq StepsFor(Range(s))
    BY <1>1, <1>4, <1>6 DEF Range, StepsFor
  <2>2. StepsFor(Range(s)) \subseteq Range(w)
    <3>1. \A k \in 1..n : Write(Environment(s[k])) \in Range(w) /\ Write(Local(s[k])) \in Range(w)
      BY <1>4, <1>5 DEF Range
    <3> QED
      BY <1>1, <3>1 DEF Range, StepsFor
  <2> QED
    BY <2>1, <2>2
<1>9. Ordered(w)
  BY <1>8, WritesFirst DEF StepsFor
<1>10. ASSUME NEW pair \in Partner, NEW i \in 1..(2 * n), w[i] = Write(pair[1])
       PROVE  \E j \in 1..(2 * n) : i < j /\ w[j] = Write(pair[2])
  <2>1. PICK k \in 1..n : \/ i = 2 * k - 1 /\ w[i] = Write(Environment(s[k]))
                          \/ i = 2 * k /\ w[i] = Write(Local(s[k]))
    BY <1>6
  <2>2. pair[1] = Environment(s[k]) \/ pair[1] = Local(s[k])
    BY <1>10, <2>1, StepsDiffer
  <2>3. pair[1] = Environment(s[k]) /\ pair[2] = Local(s[k])
    <3>1. ASSUME NEW e \in Environments, pair = <<Environment(e), Local(e)>>
          PROVE  pair[1] = Environment(s[k]) /\ pair[2] = Local(s[k])
      <4>1. pair[1] = Environment(e) /\ pair[2] = Local(e)
        BY <3>1
      <4>2. e = s[k]
        BY <2>2, <4>1, FilesDiffer
      <4> QED
        BY <4>1, <4>2
    <3>2. ASSUME NEW p \in Projects, pair = <<Metadata(p), Genesis(p)>> PROVE FALSE
      <4>1. pair[1] = Metadata(p)
        BY <3>2
      <4> QED
        BY <2>2, <4>1, FilesDiffer
    <3> QED
      BY <3>1, <3>2 DEF Partner
  <2>4. i = 2 * k - 1 /\ i < 2 * k
    BY <1>10, <2>1, <2>3, StepsDiffer, FilesDiffer
  <2> QED
    BY <1>5, <2>3, <2>4
<1> QED
  BY <1>4, <1>7, <1>8, <1>9, <1>10 DEF Completed, w

LEMMA UpsertAllPlan ==
    ASSUME NEW s \in Seq(Environments)
    PROVE  /\ UpsertAll(s) \in Seq(PlanSteps)
           /\ Range(UpsertAll(s)) = UpdatesFor(Range(s))
           /\ Ordered(UpsertAll(s)) /\ Completed(UpsertAll(s))
<1>1. Len(s) \in Nat /\ DOMAIN s = 1..Len(s) /\ \A i \in 1..Len(s) : s[i] \in Environments
  OBVIOUS
<1>2. UpsertAll(s) \in [1..Len(s) -> PlanSteps]
  BY <1>1, Steps DEF UpsertAll
<1>3. UpsertAll(s) \in Seq(PlanSteps)
  BY <1>1, <1>2, SeqDef
<1>4. Range(UpsertAll(s)) = UpdatesFor(Range(s))
  BY <1>1 DEF UpsertAll, Range, UpdatesFor
<1>5. \A i \in DOMAIN UpsertAll(s) : UpsertAll(s)[i] = Upsert(s[i])
  BY DEF UpsertAll
<1> QED
  BY <1>3, <1>4, <1>5, StepsDiffer DEF Ordered, MayFollow, Completed

(* A plan of three kinds of parts, as the commands make them. *)
LEMMA ShortPlans ==
    ASSUME NEW a \in PlanSteps, NEW b \in PlanSteps
    PROVE  /\ <<a>> \in Seq(PlanSteps) /\ Range(<<a>>) = {a} /\ Ordered(<<a>>)
           /\ <<a, b>> \in Seq(PlanSteps) /\ Range(<<a, b>>) = {a, b}
           /\ MayFollow(a, b) => Ordered(<<a, b>>)
<1>1. /\ DOMAIN <<a>> = {1} /\ <<a>>[1] = a
      /\ DOMAIN <<a, b>> = {1, 2} /\ <<a, b>>[1] = a /\ <<a, b>>[2] = b
  OBVIOUS
<1>2. <<a>> \in Seq(PlanSteps) /\ <<a, b>> \in Seq(PlanSteps)
  OBVIOUS
<1>3. Range(<<a>>) = {a} /\ Range(<<a, b>>) = {a, b}
  BY <1>1 DEF Range
<1>4. Ordered(<<a>>) /\ (MayFollow(a, b) => Ordered(<<a, b>>))
  BY <1>1 DEF Ordered
<1> QED
  BY <1>2, <1>3, <1>4

(* A short plan with no first half of a pair, or with the second one after it. *)
LEMMA NothingToComplete ==
    ASSUME NEW plan, \A pair \in Partner : Write(pair[1]) \notin Range(plan)
    PROVE  Completed(plan)
  BY DEF Completed, Range

LEMMA OneStepPlan ==
    ASSUME NEW a \in PlanSteps, \A f : a # Write(f)
    PROVE  /\ <<a>> \in Seq(PlanSteps) /\ Range(<<a>>) = {a}
           /\ Ordered(<<a>>) /\ Completed(<<a>>)
<1>1. /\ <<a>> \in Seq(PlanSteps) /\ Range(<<a>>) = {a} /\ Ordered(<<a>>)
  BY ShortPlans
<1>2. Completed(<<a>>)
  BY <1>1, NothingToComplete
<1> QED
  BY <1>1, <1>2

LEMMA ProjectPlan ==
    ASSUME NEW p \in Projects
    PROVE  LET plan == <<Write(Metadata(p)), Write(Genesis(p))>> IN
           /\ plan \in Seq(PlanSteps)
           /\ Range(plan) = {Write(Metadata(p)), Write(Genesis(p))}
           /\ Ordered(plan) /\ Completed(plan)
<1> DEFINE plan == <<Write(Metadata(p)), Write(Genesis(p))>>
<1>1. /\ plan \in Seq(PlanSteps) /\ Range(plan) = {Write(Metadata(p)), Write(Genesis(p))}
      /\ Ordered(plan)
  BY Steps, StepsDiffer, ShortPlans DEF MayFollow
<1>2. ASSUME NEW pair \in Partner, NEW i \in DOMAIN plan, plan[i] = Write(pair[1])
      PROVE  \E j \in DOMAIN plan : i < j /\ plan[j] = Write(pair[2])
  <2>1. pair[1] \in {Metadata(p), Genesis(p)}
    BY <1>2, StepsDiffer
  <2>2. pair = <<Metadata(p), Genesis(p)>>
    BY <2>1, FilesDiffer DEF Partner
  <2>3. pair[1] = Metadata(p) /\ pair[2] = Genesis(p)
    BY <2>2
  <2>4. i = 1
    BY <1>2, <2>3, StepsDiffer, FilesDiffer
  <2> QED
    BY <2>3, <2>4
<1> QED
  BY <1>1, <1>2 DEF Completed

LEMMA EnvironmentPlan ==
    ASSUME NEW e \in Environments
    PROVE  /\ WriteEnvironmentDir(e) \in Seq(PlanSteps)
           /\ Range(WriteEnvironmentDir(e)) = {Write(Environment(e)), Write(Local(e))}
           /\ Ordered(WriteEnvironmentDir(e)) /\ Completed(WriteEnvironmentDir(e))
<1> DEFINE plan == WriteEnvironmentDir(e)
<1> USE DEF WriteEnvironmentDir
<1>1. /\ plan \in Seq(PlanSteps) /\ Range(plan) = {Write(Environment(e)), Write(Local(e))}
      /\ Ordered(plan)
  BY Steps, StepsDiffer, ShortPlans DEF MayFollow
<1>2. ASSUME NEW pair \in Partner, NEW i \in DOMAIN plan, plan[i] = Write(pair[1])
      PROVE  \E j \in DOMAIN plan : i < j /\ plan[j] = Write(pair[2])
  <2>1. pair[1] \in {Environment(e), Local(e)}
    BY <1>2, StepsDiffer
  <2>2. pair = <<Environment(e), Local(e)>>
    BY <2>1, FilesDiffer DEF Partner
  <2>3. pair[1] = Environment(e) /\ pair[2] = Local(e)
    BY <2>2
  <2>4. i = 1
    BY <1>2, <2>3, StepsDiffer, FilesDiffer
  <2> QED
    BY <2>3, <2>4
<1> QED
  BY <1>1, <1>2 DEF Completed

(***************************************************************************)
(* The plans of the commands.                                              *)
(***************************************************************************)
LEMMA InitPlanHolds ==
    ASSUME NEW p \in Projects
    PROVE  /\ InitPlan(p) \in Seq(PlanSteps)
           /\ Range(InitPlan(p)) = {Write(Metadata(p)), Write(Genesis(p)),
                                    Write(Membership(p)), ResetLocator(p)}
           /\ Ordered(InitPlan(p)) /\ Completed(InitPlan(p))
           /\ InitPlan(p)[4] = ResetLocator(p) /\ DOMAIN InitPlan(p) = 1..4
<1> DEFINE dir == <<Write(Metadata(p)), Write(Genesis(p)), Write(Membership(p))>>
<1>1. /\ dir \in Seq(PlanSteps)
      /\ Range(dir) = {Write(Metadata(p)), Write(Genesis(p)), Write(Membership(p))}
      /\ Ordered(dir)
  <2>1. /\ Write(Metadata(p)) \in PlanSteps /\ Write(Genesis(p)) \in PlanSteps
        /\ Write(Membership(p)) \in PlanSteps
    BY Steps
  <2>2. dir \in Seq(PlanSteps)
        /\ Range(dir) = {Write(Metadata(p)), Write(Genesis(p)), Write(Membership(p))}
    <3>1. ASSUME NEW a \in PlanSteps, NEW b \in PlanSteps, NEW c \in PlanSteps
          PROVE  <<a, b, c>> \in Seq(PlanSteps) /\ Range(<<a, b, c>>) = {a, b, c}
      <4>1. /\ DOMAIN <<a, b, c>> = {1, 2, 3}
            /\ <<a, b, c>>[1] = a /\ <<a, b, c>>[2] = b /\ <<a, b, c>>[3] = c
        OBVIOUS
      <4> QED
        BY <4>1 DEF Range
    <3> QED
      BY <2>1, <3>1
  <2> HIDE DEF dir
  <2>3. Ordered(dir)
    BY <2>2, WritesFirst
  <2> QED
    BY <2>2, <2>3
<1>2. ASSUME NEW pair \in Partner, NEW i \in DOMAIN dir, dir[i] = Write(pair[1])
      PROVE  \E j \in DOMAIN dir : i < j /\ dir[j] = Write(pair[2])
  <2>1. pair[1] \in {Metadata(p), Genesis(p), Membership(p)}
    BY <1>2, StepsDiffer
  <2>2. pair = <<Metadata(p), Genesis(p)>>
    BY <2>1, FilesDiffer DEF Partner
  <2>3. pair[1] = Metadata(p) /\ pair[2] = Genesis(p)
    BY <2>2
  <2>4. i = 1
    BY <1>2, <2>3, StepsDiffer, FilesDiffer
  <2> QED
    BY <2>3, <2>4
<1>3. Completed(dir)
  BY <1>2 DEF Completed
<1>4. /\ <<ResetLocator(p)>> \in Seq(PlanSteps) /\ Range(<<ResetLocator(p)>>) = {ResetLocator(p)}
      /\ Ordered(<<ResetLocator(p)>>) /\ Completed(<<ResetLocator(p)>>)
  <2>1. ResetLocator(p) \in PlanSteps /\ \A f : ResetLocator(p) # Write(f)
    BY Steps, StepsDiffer
  <2> QED
    BY <2>1, OneStepPlan
<1>5. \A a \in Range(dir), b \in Range(<<ResetLocator(p)>>) : MayFollow(a, b)
  BY <1>1, <1>4, StepsDiffer DEF MayFollow
<1>6. InitPlan(p) = dir \o <<ResetLocator(p)>>
  BY DEF InitPlan, WriteKeyitDir
<1>7. InitPlan(p)[4] = ResetLocator(p) /\ DOMAIN InitPlan(p) = 1..4
  <2>1. Len(dir) = 3 /\ Len(<<ResetLocator(p)>>) = 1 /\ <<ResetLocator(p)>>[1] = ResetLocator(p)
    OBVIOUS
  <2> HIDE DEF dir
  <2> DEFINE last == <<ResetLocator(p)>>
  <2>2. Len(last) = 1 /\ last[1] = ResetLocator(p) /\ last \in Seq(PlanSteps)
    BY <1>4, <2>1
  <2> HIDE DEF last
  <2>3. Len(dir \o last) = 4 /\ (dir \o last)[4] = last[1] /\ dir \o last \in Seq(PlanSteps)
    <3>1. /\ dir \o last \in Seq(PlanSteps) /\ Len(dir \o last) = Len(dir) + Len(last)
          /\ \A i \in 1..(Len(dir) + Len(last)) :
               (dir \o last)[i] = IF i <= Len(dir) THEN dir[i] ELSE last[i - Len(dir)]
      BY <1>1, <2>2, ConcatProperties, Zenon
    <3>2. 4 \in 1..(Len(dir) + Len(last)) /\ ~(4 <= Len(dir)) /\ 4 - Len(dir) = 1
      BY <2>1, <2>2
    <3> QED
      BY <2>1, <2>2, <3>1, <3>2
  <2> QED
    BY <1>6, <2>2, <2>3 DEF last
<1> HIDE DEF dir
<1>8. /\ InitPlan(p) \in Seq(PlanSteps)
      /\ Range(InitPlan(p)) = Range(dir) \cup Range(<<ResetLocator(p)>>)
      /\ Ordered(InitPlan(p)) /\ Completed(InitPlan(p))
  BY <1>1, <1>3, <1>4, <1>5, <1>6, JoinedPlans
<1> QED
  BY <1>1, <1>4, <1>7, <1>8

LEMMA EnvAddPlanHolds ==
    ASSUME NEW e \in Environments
    PROVE  /\ EnvAddPlan(e) \in Seq(PlanSteps)
           /\ Range(EnvAddPlan(e)) = {Write(Environment(e)), Write(Local(e)), Upsert(e)}
           /\ Ordered(EnvAddPlan(e)) /\ Completed(EnvAddPlan(e))
<1> DEFINE dir == WriteEnvironmentDir(e)
           last == <<Upsert(e)>>
<1>1. last \in Seq(PlanSteps) /\ Range(last) = {Upsert(e)} /\ Ordered(last) /\ Completed(last)
  <2>1. Upsert(e) \in PlanSteps /\ \A f : Upsert(e) # Write(f)
    BY Steps, StepsDiffer
  <2> QED
    BY <2>1, OneStepPlan
<1>2. /\ dir \in Seq(PlanSteps) /\ Range(dir) = {Write(Environment(e)), Write(Local(e))}
      /\ Ordered(dir) /\ Completed(dir)
  BY EnvironmentPlan
<1>3. EnvAddPlan(e) = dir \o last
  BY DEF EnvAddPlan
<1> HIDE DEF dir, last
<1>4. \A a \in Range(dir), b \in Range(last) : MayFollow(a, b)
  BY <1>1, <1>2, StepsDiffer DEF MayFollow
<1>5. /\ dir \o last \in Seq(PlanSteps) /\ Range(dir \o last) = Range(dir) \cup Range(last)
      /\ Ordered(dir \o last) /\ Completed(dir \o last)
  BY <1>1, <1>2, <1>4, JoinedPlans
<1> QED
  BY <1>1, <1>2, <1>3, <1>5

LEMMA BootstrapDirHolds ==
    ASSUME NEW p \in Projects, NEW s \in Seq(Environments)
    PROVE  LET plan == WriteProjectBootstrapDir(p, s) IN
           /\ plan \in Seq(PlanSteps)
           /\ Range(plan) = {Write(Metadata(p)), Write(Genesis(p))} \cup StepsFor(Range(s))
           /\ Ordered(plan) /\ Completed(plan)
<1> DEFINE first == <<Write(Metadata(p)), Write(Genesis(p))>>
           dirs == WriteEnvironmentDirs(s)
<1>1. /\ first \in Seq(PlanSteps) /\ Range(first) = {Write(Metadata(p)), Write(Genesis(p))}
      /\ Ordered(first) /\ Completed(first)
  BY ProjectPlan
<1>2. /\ dirs \in Seq(PlanSteps) /\ Range(dirs) = StepsFor(Range(s))
      /\ Ordered(dirs) /\ Completed(dirs)
  BY EnvironmentDirsPlan
<1>3. WriteProjectBootstrapDir(p, s) = first \o dirs
  BY DEF WriteProjectBootstrapDir
<1> HIDE DEF first, dirs
<1>4. \A a \in Range(first), b \in Range(dirs) : MayFollow(a, b)
  BY <1>1, StepsDiffer DEF MayFollow
<1>5. /\ first \o dirs \in Seq(PlanSteps) /\ Range(first \o dirs) = Range(first) \cup Range(dirs)
      /\ Ordered(first \o dirs) /\ Completed(first \o dirs)
  BY <1>1, <1>2, <1>4, JoinedPlans
<1> QED
  BY <1>1, <1>2, <1>3, <1>5

LEMMA BootstrapPlanHolds ==
    ASSUME NEW p \in Projects, NEW s \in Seq(Environments)
    PROVE  LET plan == BootstrapPlan(p, s) IN
           /\ plan \in Seq(PlanSteps)
           /\ Range(plan) = {Write(Metadata(p)), Write(Genesis(p))} \cup StepsFor(Range(s))
                              \cup {ImportMembership(p), ResetLocator(p)} \cup UpdatesFor(Range(s))
           /\ Ordered(plan) /\ Completed(plan)
<1> DEFINE dir == WriteProjectBootstrapDir(p, s)
           pair == <<ImportMembership(p), ResetLocator(p)>>
           ups == UpsertAll(s)
<1>1. /\ pair \in Seq(PlanSteps) /\ Range(pair) = {ImportMembership(p), ResetLocator(p)}
      /\ Ordered(pair)
  BY Steps, StepsDiffer, ShortPlans DEF MayFollow
<1>2. Completed(pair)
  BY <1>1, StepsDiffer, NothingToComplete
<1>3. /\ dir \in Seq(PlanSteps)
      /\ Range(dir) = {Write(Metadata(p)), Write(Genesis(p))} \cup StepsFor(Range(s))
      /\ Ordered(dir) /\ Completed(dir)
  BY BootstrapDirHolds
<1>4. \A a \in Range(dir) : \E f : a = Write(f)
  BY <1>3 DEF StepsFor
<1>5. ups \in Seq(PlanSteps) /\ Range(ups) = UpdatesFor(Range(s)) /\ Ordered(ups) /\ Completed(ups)
  BY UpsertAllPlan
<1>6. BootstrapPlan(p, s) = (dir \o pair) \o ups
  BY DEF BootstrapPlan
<1> HIDE DEF dir, pair, ups
<1>7. \A a \in Range(dir), b \in Range(pair) : MayFollow(a, b)
  BY <1>4, StepsDiffer DEF MayFollow
<1>8. /\ dir \o pair \in Seq(PlanSteps) /\ Range(dir \o pair) = Range(dir) \cup Range(pair)
      /\ Ordered(dir \o pair) /\ Completed(dir \o pair)
  BY <1>1, <1>2, <1>3, <1>7, JoinedPlans
<1>9. \A a \in Range(dir \o pair), b \in Range(ups) : MayFollow(a, b)
  BY <1>1, <1>4, <1>5, <1>8, StepsDiffer DEF MayFollow, UpdatesFor
<1>10. /\ (dir \o pair) \o ups \in Seq(PlanSteps)
       /\ Range((dir \o pair) \o ups) = Range(dir \o pair) \cup Range(ups)
       /\ Ordered((dir \o pair) \o ups) /\ Completed((dir \o pair) \o ups)
  BY <1>5, <1>8, <1>9, JoinedPlans
<1> QED
  BY <1>1, <1>3, <1>5, <1>6, <1>8, <1>10

LEMMA JoinPlanHolds ==
    ASSUME NEW m \in Machines, NEW p \in Projects, NEW s \in Seq(Environments)
    PROVE  LET plan == JoinPlan(m, p, s) IN
           /\ plan \in Seq(PlanSteps)
           /\ Range(plan) \subseteq {Write(Metadata(p)), Write(Genesis(p))} \cup StepsFor(Range(s))
                                      \cup {ResetLocator(p)} \cup UpdatesFor(Range(s))
           /\ Ordered(plan) /\ Completed(plan)
<1> DEFINE dir == WriteProjectBootstrapDir(p, s)
           dirs == WriteEnvironmentDirs(s)
           reset == <<ResetLocator(p)>>
           ups == UpsertAll(s)
           Good(plan) == /\ plan \in Seq(PlanSteps)
                         /\ Ordered(plan) /\ Completed(plan)
<1>1. Good(reset) /\ Range(reset) = {ResetLocator(p)}
  <2>1. ResetLocator(p) \in PlanSteps /\ \A f : ResetLocator(p) # Write(f)
    BY Steps, StepsDiffer
  <2> QED
    BY <2>1, OneStepPlan
<1>2. /\ Good(dir)
      /\ Range(dir) = {Write(Metadata(p)), Write(Genesis(p))} \cup StepsFor(Range(s))
  BY BootstrapDirHolds
<1>3. Good(dirs) /\ Range(dirs) = StepsFor(Range(s))
  BY EnvironmentDirsPlan
<1>4. Good(ups) /\ Range(ups) = UpdatesFor(Range(s))
  BY UpsertAllPlan
<1>5. Good(<<>>) /\ Range(<<>>) = {}
  BY EmptyPlan
<1>6. \/ JoinPlan(m, p, s) = (reset \o dirs) \o ups
      \/ JoinPlan(m, p, s) = (<<>> \o dirs) \o ups
      \/ JoinPlan(m, p, s) = (dir \o reset) \o ups
  BY DEF JoinPlan
<1> HIDE DEF dir, dirs, reset, ups
<1>7. \A a \in Range(dir) \cup Range(dirs) : \E f : a = Write(f)
  BY <1>2, <1>3 DEF StepsFor
<1>8. \A a \in Range(ups) : \E e : a = Upsert(e)
  BY <1>4 DEF UpdatesFor
<1>9. /\ \A a \in Range(reset), b \in Range(dirs) : MayFollow(a, b)
      /\ \A a \in Range(dir), b \in Range(reset) : MayFollow(a, b)
      /\ \A a \in Range(dir) \cup Range(dirs) \cup Range(reset), b \in Range(ups) : MayFollow(a, b)
  BY <1>1, <1>7, <1>8, StepsDiffer DEF MayFollow
<1>10. CASE JoinPlan(m, p, s) = (reset \o dirs) \o ups
  <2>1. Good(reset \o dirs) /\ Range(reset \o dirs) = Range(reset) \cup Range(dirs)
    BY <1>1, <1>3, <1>9, JoinedPlans
  <2>2. Good((reset \o dirs) \o ups)
        /\ Range((reset \o dirs) \o ups) = Range(reset \o dirs) \cup Range(ups)
    BY <1>4, <1>9, <2>1, JoinedPlans
  <2> QED
    BY <1>1, <1>3, <1>4, <1>10, <2>1, <2>2
<1>11. CASE JoinPlan(m, p, s) = (<<>> \o dirs) \o ups
  <2>1. Good(<<>> \o dirs) /\ Range(<<>> \o dirs) = Range(dirs)
    BY <1>3, ConcatEmptySeq
  <2>2. Good((<<>> \o dirs) \o ups)
        /\ Range((<<>> \o dirs) \o ups) = Range(<<>> \o dirs) \cup Range(ups)
    BY <1>4, <1>9, <2>1, JoinedPlans
  <2> QED
    BY <1>3, <1>4, <1>11, <2>1, <2>2
<1>12. CASE JoinPlan(m, p, s) = (dir \o reset) \o ups
  <2>1. Good(dir \o reset) /\ Range(dir \o reset) = Range(dir) \cup Range(reset)
    BY <1>1, <1>2, <1>9, JoinedPlans
  <2>2. Good((dir \o reset) \o ups)
        /\ Range((dir \o reset) \o ups) = Range(dir \o reset) \cup Range(ups)
    BY <1>4, <1>9, <2>1, JoinedPlans
  <2> QED
    BY <1>1, <1>2, <1>4, <1>12, <2>1, <2>2
<1> QED
  BY <1>6, <1>10, <1>11, <1>12

-----------------------------------------------------------------------------
(***************************************************************************)
(* Types.                                                                  *)
(***************************************************************************)
Views == \A c \in Commands : JobView(c)

LEMMA IdleJob == Idle \in Jobs /\ Idle.stage = "idle" /\ Idle.plan = <<>> /\ Idle.keys = <<>>
  BY DEF Idle, Jobs, Stages, Topics

LEMMA WantedKey ==
    ASSUME TypeOK, NEW c \in Commands, Len(job[c].keys) < Len(KeyOrder)
    PROVE  /\ Len(job[c].keys) \in {0, 1}
           /\ Wanted(c) \in KeyKinds
           /\ Wanted(c) = IF Len(job[c].keys) = 0 THEN "signing" ELSE "encryption"
<1>1. job[c].keys \in Seq(Nat)
  BY DEF TypeOK, Jobs
<1>2. Len(KeyOrder) = 2 /\ KeyOrder[1] = "signing" /\ KeyOrder[2] = "encryption"
  BY DEF KeyOrder
<1>3. Len(job[c].keys) = 0 \/ Len(job[c].keys) = 1
  <2>1. Len(job[c].keys) \in Nat /\ Len(job[c].keys) < 2
    BY <1>1, <1>2, LenProperties
  <2>2. \A n \in Nat : n < 2 => n = 0 \/ n = 1
    OBVIOUS
  <2> QED
    BY <2>1, <2>2, Zenon
<1> QED
  BY <1>2, <1>3 DEF Wanted, KeyKinds

(* A command goes on with one key more. *)
LEMMA WithKeyType ==
    ASSUME TypeOK, NEW c \in Commands, JobView(c), NEW seed \in Nat,
           job[c].stage \in {"key", "generate", "store"}, WithKey(c, seed)
    PROVE  /\ job' \in [Commands -> Jobs]
           /\ \A d \in Commands \ {c} : job'[d] = job[d]
           /\ job'[c].stage \in {"key", "found", "create", "request"}
           /\ job'[c].stage = "key" <=> Len(job[c].keys) = 0
           /\ job'[c].stage = "found" => job[c].command = "init"
           /\ job'[c].stage = "create" => job[c].command = "add"
           /\ job'[c].stage = "request" => job[c].command = "join"
           /\ job'[c].command = job[c].command /\ job'[c].about = job[c].about
           /\ job'[c].plan = job[c].plan
           /\ job'[c].keys = Append(job[c].keys, seed)
           /\ Len(job'[c].keys) = Len(job[c].keys) + 1
<1> DEFINE keys == Append(job[c].keys, seed)
           stage == IF Len(keys) < Len(KeyOrder) THEN "key"
                    ELSE CASE job[c].command = "init" -> "found"
                           [] job[c].command = "add" -> "create"
                           [] job[c].command = "join" -> "request"
<1>1. /\ job[c].keys \in Seq(Nat) /\ job[c] \in Jobs
      /\ job[c].command \in {"init", "add", "join"}
      /\ Len(job[c].keys) \in {0, 1} /\ Len(KeyOrder) = 2
  BY WantedKey DEF TypeOK, Jobs, JobView, KeyOrder
<1>2. keys \in Seq(Nat) /\ Len(keys) = Len(job[c].keys) + 1
  BY <1>1
<1>3. job' = [job EXCEPT ![c].keys = keys, ![c].seed = None, ![c].stage = stage]
  BY DEF WithKey
<1> HIDE DEF keys
<1>4. /\ stage \in {"key", "found", "create", "request"}
      /\ stage = "key" <=> Len(job[c].keys) = 0
      /\ stage = "found" => job[c].command = "init"
      /\ stage = "create" => job[c].command = "add"
      /\ stage = "request" => job[c].command = "join"
  BY <1>1, <1>2
<1> HIDE DEF stage
<1>5. /\ job'[c] \in Jobs /\ \A d \in Commands \ {c} : job'[d] = job[d]
      /\ job'[c].stage = stage /\ job'[c].command = job[c].command
      /\ job'[c].about = job[c].about /\ job'[c].plan = job[c].plan /\ job'[c].keys = keys
  BY <1>1, <1>2, <1>3, <1>4 DEF TypeOK, Jobs, Stages
<1>6. job' \in [Commands -> Jobs]
  BY <1>3, <1>5 DEF TypeOK
<1> QED
  BY <1>2, <1>4, <1>5, <1>6 DEF keys

(* What becomes of the other commands, and of one that ends or goes on.    *)
Others(c) == \A d \in Commands \ {c} : job'[d] = job[d]

LEMMA ToHolds ==
    ASSUME TypeOK, NEW c \in Commands, NEW stage \in Stages, To(c, stage)
    PROVE  /\ job' \in [Commands -> Jobs] /\ Others(c)
           /\ job'[c].stage = stage /\ job'[c].command = job[c].command
           /\ job'[c].about = job[c].about /\ job'[c].plan = job[c].plan
           /\ job'[c].keys = job[c].keys /\ job'[c].seed = job[c].seed
  BY DEF TypeOK, To, Jobs, Others

LEMMA EndHolds ==
    ASSUME TypeOK, NEW c \in Commands, End(c)
    PROVE  job' \in [Commands -> Jobs] /\ Others(c) /\ job'[c] = Idle
  BY IdleJob DEF TypeOK, End, Others

LEMMA StartHolds ==
    ASSUME TypeOK, NEW c \in Commands, NEW command \in CommandNames,
           NEW about \in Topics, NEW stage \in Stages, NEW plan \in Seq(PlanSteps),
           Start(c, command, about, stage, plan)
    PROVE  /\ job' \in [Commands -> Jobs] /\ Others(c)
           /\ job'[c].stage = stage /\ job'[c].command = command
           /\ job'[c].about = about /\ job'[c].plan = plan
           /\ job'[c].keys = <<>> /\ job'[c].seed = None
  BY IdleJob DEF TypeOK, Start, Idle, Jobs, Others

(* The view of a command that ended, and of one that had no part in a step. *)
LEMMA IdleView ==
    ASSUME NEW c \in Commands, job'[c] = Idle
    PROVE  JobView(c)'
  BY MarksAssumption DEF JobView, Idle, Topics, CommandNames

SameMachine(m) == /\ locator'[m] = locator[m]
                  /\ whole'[m] = whole[m] /\ torn'[m] = torn[m]

LEMMA OtherView ==
    ASSUME NEW d \in Commands, JobView(d), job'[d] = job[d], SameMachine(MachineOf[d])
    PROVE  JobView(d)'
  BY DEF JobView, SameMachine, HasLocator, Exists

\* no action of a command but Step and Crash touches a file
Quiet == UNCHANGED files

LEMMA QuietMachines ==
    ASSUME Quiet
    PROVE  \A m \in Machines : SameMachine(m)
  BY DEF Quiet, files, SameMachine

LEMMA OnlyJobs ==
    ASSUME TypeOK, job' \in [Commands -> Jobs],
           UNCHANGED <<key, minted, files, relay, history, faults>>
    PROVE  TypeOK'
  BY DEF TypeOK, files, history

LEMMA MachineType ==
    ASSUME NEW c \in Commands
    PROVE  MachineOf[c] \in Machines
  BY SetupAssumption

LEMMA LocatorType ==
    ASSUME TypeOK, NEW m \in Machines, HasLocator(m)
    PROVE  /\ locator[m] \in Locators
           /\ locator[m].project \in Projects
           /\ locator[m].environments \subseteq Environments
  BY DEF TypeOK, HasLocator, Locators

LEMMA BeginInitHolds ==
    ASSUME TypeOK, NEW c \in Commands, BeginInit(c)
    PROVE  /\ TypeOK' /\ JobView(c)' /\ Others(c)
           /\ job'[c].stage = "key" /\ job'[c].plan = <<>> /\ job'[c].keys = <<>>
<1>1. Start(c, "init", None, "key", <<>>) /\ MachineOf[c] \in Founders
      /\ UNCHANGED <<key, minted, files, relay, history, faults>>
  BY DEF BeginInit
<1>2. /\ "init" \in CommandNames /\ None \in Topics /\ "key" \in Stages
      /\ <<>> \in Seq(PlanSteps)
  BY DEF CommandNames, Topics, Stages
<1>3. /\ job' \in [Commands -> Jobs] /\ Others(c)
      /\ job'[c].stage = "key" /\ job'[c].command = "init"
      /\ job'[c].about = None /\ job'[c].plan = <<>> /\ job'[c].keys = <<>>
  BY <1>1, <1>2, StartHolds
<1>4. Len(job'[c].keys) < Len(KeyOrder)
  BY <1>3 DEF KeyOrder
<1>5. JobView(c)'
  BY <1>1, <1>2, <1>3, <1>4 DEF JobView
<1> QED
  BY <1>1, <1>3, <1>5, OnlyJobs

LEMMA BeginCommandHolds ==
    ASSUME TypeOK, NEW c \in Commands, NEW command \in {"open", "add"}, NEW about \in Topics,
           command = "add" => about \in Labels, BeginCommand(c, command, about)
    PROVE  /\ TypeOK' /\ JobView(c)' /\ Others(c)
           /\ job'[c].stage = "resolve" /\ job'[c].plan = <<>> /\ job'[c].keys = <<>>
<1>1. Start(c, command, about, "resolve", <<>>)
      /\ UNCHANGED <<key, minted, files, relay, history, faults>>
  BY DEF BeginCommand
<1>2. command \in CommandNames /\ "resolve" \in Stages /\ <<>> \in Seq(PlanSteps)
  BY DEF CommandNames, Stages
<1>3. /\ job' \in [Commands -> Jobs] /\ Others(c)
      /\ job'[c].stage = "resolve" /\ job'[c].command = command
      /\ job'[c].about = about /\ job'[c].plan = <<>> /\ job'[c].keys = <<>>
  BY <1>1, <1>2, StartHolds
<1>4. command = "add" => MachineOf[c] \in Founders
  BY DEF BeginCommand
<1>5. JobView(c)'
  BY <1>3, <1>4 DEF JobView
<1> QED
  BY <1>1, <1>3, <1>5, OnlyJobs

(* A command that got one key more. *)
LEMMA WithKeyView ==
    ASSUME TypeOK, NEW c \in Commands, JobView(c), NEW seed \in Nat,
           job[c].stage \in {"key", "generate", "store"}, WithKey(c, seed),
           UNCHANGED files
    PROVE  JobView(c)'
<1>1. /\ job'[c].stage \in {"key", "found", "create", "request"}
      /\ job'[c].stage = "key" <=> Len(job[c].keys) = 0
      /\ job'[c].stage = "found" => job[c].command = "init"
      /\ job'[c].stage = "create" => job[c].command = "add"
      /\ job'[c].stage = "request" => job[c].command = "join"
      /\ job'[c].command = job[c].command /\ job'[c].about = job[c].about
      /\ job'[c].plan = job[c].plan
      /\ Len(job'[c].keys) = Len(job[c].keys) + 1
  BY WithKeyType
<1>2. Len(job[c].keys) \in {0, 1} /\ Len(KeyOrder) = 2
  BY WantedKey DEF JobView, KeyOrder
<1>3. /\ job'[c].stage = "key" => Len(job'[c].keys) < Len(KeyOrder)
      /\ job'[c].stage \in {"found", "create"} => Len(job'[c].keys) = Len(KeyOrder)
  <2> DEFINE n == Len(job[c].keys)
             now == Len(job'[c].keys)
             all == Len(KeyOrder)
             stage == job'[c].stage
  <2>1. /\ n \in {0, 1} /\ all = 2 /\ now = n + 1
        /\ stage \in {"key", "found", "create", "request"} /\ stage = "key" <=> n = 0
    BY <1>1, <1>2
  <2> HIDE DEF n, now, all, stage
  <2>2. (stage = "key" => now < all) /\ (stage \in {"found", "create"} => now = all)
    BY <2>1
  <2> QED
    BY <2>2 DEF now, all, stage
<1>4. locator' = locator
  BY DEF files
<1> QED
  BY <1>1, <1>3, <1>4 DEF JobView, HasLocator

LEMMA LookForKeyHolds ==
    ASSUME TypeOK, NEW c \in Commands, JobView(c), LookForKey(c)
    PROVE  TypeOK' /\ JobView(c)' /\ Others(c)
<1> DEFINE stored == key[MachineOf[c]][Wanted(c)]
<1>1. /\ job[c].stage = "key" /\ UNCHANGED <<key, minted, files, relay, history, faults>>
      /\ \/ stored = Torn /\ End(c)
         \/ stored = None /\ To(c, "generate")
         \/ stored \notin {None, Torn} /\ WithKey(c, stored)
  BY DEF LookForKey
<1>2. stored \in Nat \cup {None, Torn}
  BY <1>1, WantedKey, MachineType DEF TypeOK, JobView
<1>3. CASE End(c)
  BY <1>1, <1>3, EndHolds, IdleView, OnlyJobs
<1>4. CASE To(c, "generate")
  <2>1. /\ job' \in [Commands -> Jobs] /\ Others(c)
        /\ job'[c].stage = "generate" /\ job'[c].command = job[c].command
        /\ job'[c].about = job[c].about /\ job'[c].plan = job[c].plan
        /\ job'[c].keys = job[c].keys
    BY <1>4, ToHolds DEF Stages
  <2>2. JobView(c)'
    BY <1>1, <2>1 DEF JobView, HasLocator, files
  <2> QED
    BY <1>1, <2>1, <2>2, OnlyJobs
<1>5. CASE stored \notin {None, Torn} /\ WithKey(c, stored)
  <2>1. stored \in Nat
    BY <1>2, <1>5
  <2> HIDE DEF stored
  <2>2. job' \in [Commands -> Jobs] /\ Others(c)
    BY <1>1, <1>5, <2>1, WithKeyType DEF Others
  <2>3. JobView(c)'
    BY <1>1, <1>5, <2>1, WithKeyView
  <2> QED
    BY <1>1, <2>2, <2>3, OnlyJobs
<1> QED
  BY <1>1, <1>3, <1>4, <1>5

LEMMA KeyChainRefusesHolds ==
    ASSUME TypeOK, NEW c \in Commands, JobView(c), KeyChainRefuses(c)
    PROVE  /\ TypeOK' /\ JobView(c)' /\ Others(c)
           /\ job'[c].stage = "generate" /\ job'[c].keys = job[c].keys
<1>1. /\ job[c].stage = "key" /\ To(c, "generate") /\ faults < MaxFaults /\ faults' = faults + 1
      /\ UNCHANGED <<key, minted, files, relay, history>>
  BY DEF KeyChainRefuses
<1>2. /\ job' \in [Commands -> Jobs] /\ Others(c)
      /\ job'[c].stage = "generate" /\ job'[c].command = job[c].command
      /\ job'[c].about = job[c].about /\ job'[c].plan = job[c].plan
      /\ job'[c].keys = job[c].keys
  BY <1>1, ToHolds DEF Stages
<1>3. JobView(c)'
  BY <1>1, <1>2 DEF JobView, HasLocator, files
<1>4. faults' \in 0..MaxFaults
  BY <1>1, SetupAssumption DEF TypeOK
<1>5. TypeOK'
  BY <1>1, <1>2, <1>4 DEF TypeOK, files, history
<1> QED
  BY <1>2, <1>3, <1>5

LEMMA StoreNativeKeyHolds ==
    ASSUME TypeOK, NEW c \in Commands, JobView(c), StoreNativeKey(c)
    PROVE  TypeOK' /\ JobView(c)' /\ Others(c)
<1> DEFINE m == MachineOf[c]
<1>1. /\ job[c].stage = "generate" /\ m \in Machines /\ minted[m] \in Nat
      /\ Wanted(c) \in KeyKinds
      /\ key' = [key EXCEPT ![m][Wanted(c)] = minted[m]]
      /\ minted' = [minted EXCEPT ![m] = minted[m] + 1]
      /\ WithKey(c, minted[m]) /\ UNCHANGED <<files, relay, history, faults>>
  BY MachineType, WantedKey DEF StoreNativeKey, Generate, TypeOK, JobView
<1> HIDE DEF m
<1>2. job' \in [Commands -> Jobs] /\ Others(c) /\ JobView(c)'
  BY <1>1, WithKeyType, WithKeyView DEF Others
<1>3. key' \in [Machines -> [KeyKinds -> Nat \cup {None, Torn}]] /\ minted' \in [Machines -> Nat]
  BY <1>1 DEF TypeOK
<1>4. TypeOK'
  BY <1>1, <1>2, <1>3 DEF TypeOK, files, history
<1> QED
  BY <1>2, <1>4

LEMMA CreateKeyFileHolds ==
    ASSUME TypeOK, NEW c \in Commands, JobView(c), CreateKeyFile(c)
    PROVE  /\ TypeOK' /\ JobView(c)' /\ Others(c)
           /\ job'[c].stage = "store" /\ job'[c].seed = minted[MachineOf[c]]
           /\ job'[c].keys = job[c].keys
<1> DEFINE m == MachineOf[c]
<1>1. /\ job[c].stage = "generate" /\ m \in Machines /\ minted[m] \in Nat
      /\ Wanted(c) \in KeyKinds
      /\ key' = [key EXCEPT ![m][Wanted(c)] = Torn]
      /\ minted' = [minted EXCEPT ![m] = minted[m] + 1]
      /\ job' = [job EXCEPT ![c].stage = "store", ![c].seed = minted[m]]
      /\ UNCHANGED <<files, relay, history, faults>>
  BY MachineType, WantedKey DEF CreateKeyFile, Generate, TypeOK, JobView
<1> HIDE DEF m
<1>2. /\ job' \in [Commands -> Jobs] /\ Others(c)
      /\ job'[c].stage = "store" /\ job'[c].command = job[c].command
      /\ job'[c].about = job[c].about /\ job'[c].plan = job[c].plan
      /\ job'[c].keys = job[c].keys /\ job'[c].seed = minted[m]
  BY <1>1 DEF TypeOK, Jobs, Stages, Others
<1>3. JobView(c)'
  BY <1>1, <1>2 DEF JobView, HasLocator, files
<1>4. key' \in [Machines -> [KeyKinds -> Nat \cup {None, Torn}]] /\ minted' \in [Machines -> Nat]
  BY <1>1 DEF TypeOK
<1>5. TypeOK'
  BY <1>1, <1>2, <1>4 DEF TypeOK, files, history
<1> QED
  BY <1>2, <1>3, <1>5 DEF m

LEMMA WriteKeyFileHolds ==
    ASSUME TypeOK, NEW c \in Commands, JobView(c), KeyView(c), WriteKeyFile(c)
    PROVE  TypeOK' /\ JobView(c)' /\ Others(c)
<1> DEFINE m == MachineOf[c]
           seed == job[c].seed
<1>1. /\ job[c].stage = "store" /\ m \in Machines /\ seed \in Nat
      /\ Wanted(c) \in KeyKinds
      /\ key' = [key EXCEPT ![m][Wanted(c)] = seed]
      /\ WithKey(c, seed) /\ UNCHANGED <<minted, files, relay, history, faults>>
  BY MachineType, WantedKey DEF WriteKeyFile, KeyView, JobView
<1> HIDE DEF m, seed
<1>2. job' \in [Commands -> Jobs] /\ Others(c) /\ JobView(c)'
  BY <1>1, WithKeyType, WithKeyView DEF Others
<1>3. key' \in [Machines -> [KeyKinds -> Nat \cup {None, Torn}]]
  BY <1>1 DEF TypeOK
<1>4. TypeOK'
  BY <1>1, <1>2, <1>3 DEF TypeOK, files, history
<1> QED
  BY <1>2, <1>4

LEMMA FoundHolds ==
    ASSUME TypeOK, NEW c \in Commands, JobView(c), NEW p \in Projects, Found(c, p)
    PROVE  /\ TypeOK' /\ JobView(c)' /\ Others(c)
           /\ MachineOf[c] \in Founders
           /\ job'[c].stage = "write" /\ job'[c].plan = InitPlan(p)
           /\ job'[c].keys = job[c].keys
<1> DEFINE m == MachineOf[c]
           keys == job[c].keys
<1>1. /\ job[c].stage = "found" /\ creator' = [creator EXCEPT ![p] = keys]
      /\ home' = [home EXCEPT ![p] = m]
      /\ job' = [job EXCEPT ![c].stage = "write", ![c].plan = InitPlan(p)]
      /\ UNCHANGED <<key, minted, files, relay, made, faults>>
  BY DEF Found
<1>2. /\ m \in Founders /\ m # None /\ keys \in Seq(Nat) /\ keys # None
      /\ job[c].command = "init" /\ InitPlan(p) \in Seq(PlanSteps)
  BY <1>1, InitPlanHolds, SetupAssumption, MarksAssumption DEF JobView, TypeOK, Jobs
<1>3. /\ job' \in [Commands -> Jobs] /\ Others(c)
      /\ job'[c].stage = "write" /\ job'[c].command = job[c].command
      /\ job'[c].about = job[c].about /\ job'[c].plan = InitPlan(p)
      /\ job'[c].keys = keys
  BY <1>1, <1>2 DEF TypeOK, Jobs, Stages, Others
<1>4. JobView(c)'
  BY <1>1, <1>2, <1>3 DEF JobView
<1> HIDE DEF m, keys
<1>5. /\ creator' \in [Projects -> Seq(Nat) \cup {None}]
      /\ home' \in [Projects -> Founders \cup {None}]
      /\ \A q \in Projects : creator'[q] = None <=> home'[q] = None
  BY <1>1, <1>2 DEF TypeOK
<1>6. TypeOK'
  BY <1>1, <1>3, <1>5 DEF TypeOK, files
<1> QED
  BY <1>2, <1>3, <1>4, <1>6 DEF m, keys

LEMMA ResolveHolds ==
    ASSUME TypeOK, NEW c \in Commands, JobView(c), LocatorView(MachineOf[c]), Resolve(c)
    PROVE  TypeOK' /\ JobView(c)' /\ Others(c)
<1> DEFINE m == MachineOf[c]
           stage == IF Exists(m, Metadata(locator[m].project)) THEN "load" ELSE "fetch"
<1>1. /\ job[c].stage = "resolve" /\ UNCHANGED <<key, minted, files, relay, history, faults>>
      /\ End(c) \/ (HasLocator(m) /\ To(c, stage))
  BY DEF Resolve, HasLocator
<1>2. CASE End(c)
  BY <1>1, <1>2, EndHolds, IdleView, OnlyJobs
<1>3. CASE HasLocator(m) /\ To(c, stage)
  <2>1. stage \in Stages
    BY DEF Stages
  <2>2. /\ job' \in [Commands -> Jobs] /\ Others(c)
        /\ job'[c].stage = stage /\ job'[c].command = job[c].command
        /\ job'[c].about = job[c].about /\ job'[c].plan = job[c].plan
        /\ job'[c].keys = job[c].keys
    BY <1>3, <2>1, ToHolds
  <2>3. m \in Founders => stage = "load"
    BY <1>3 DEF LocatorView, Listed, Exists
  <2>4. stage = "load" => Exists(m, Metadata(locator[m].project))'
    BY <1>1 DEF Exists, files, Metadata
  <2>5. HasLocator(m)'
    BY <1>1, <1>3 DEF HasLocator, files
  <2>6. stage \in {"load", "fetch"}
    OBVIOUS
  <2> HIDE DEF stage
  <2>7. JobView(c)'
    BY <1>1, <2>2, <2>3, <2>4, <2>5, <2>6 DEF JobView
  <2> QED
    BY <1>1, <2>2, <2>7, OnlyJobs
<1> QED
  BY <1>1, <1>2, <1>3

LEMMA FetchHolds ==
    ASSUME TypeOK, NEW c \in Commands, JobView(c), Fetch(c)
    PROVE  LET l == locator[MachineOf[c]] IN
           /\ TypeOK' /\ JobView(c)' /\ Others(c)
           /\ job'[c].stage = "bootstrap" /\ job'[c].keys = job[c].keys
           /\ job'[c].about.read = l /\ MachineOf[c] \notin Founders
           /\ l \in Locators /\ HasLocator(MachineOf[c])
           /\ \E s \in Orders(l.environments) : job'[c].plan = BootstrapPlan(l.project, s)
<1> DEFINE l == locator[MachineOf[c]]
           m == MachineOf[c]
<1>1. /\ job[c].stage = "fetch" /\ UNCHANGED <<key, minted, files, relay, history, faults>>
  BY DEF Fetch
<1>2. PICK s \in Orders(l.environments) :
        job' = [job EXCEPT ![c].stage = "bootstrap", ![c].about = [read |-> l, was |-> @],
                           ![c].plan = BootstrapPlan(l.project, s)]
  BY DEF Fetch
<1>3. /\ HasLocator(m) /\ m \notin Founders /\ m \in Machines
      /\ l \in Locators /\ l.project \in Projects /\ l.environments \subseteq Environments
      /\ job[c].about \in Topics /\ job[c].keys = <<>> /\ job[c].command \in {"open", "add"}
      /\ job[c].command = "add" => job[c].about \in Labels
  BY <1>1, MachineType, LocatorType DEF JobView
<1>4. BootstrapPlan(l.project, s) \in Seq(PlanSteps)
  BY <1>2, <1>3, OrderOfSet, BootstrapPlanHolds
<1> DEFINE about == [read |-> l, was |-> job[c].about]
           plan == BootstrapPlan(l.project, s)
<1>5. /\ about \in [read : Locators, was : Topics] /\ about.read = l /\ about.was = job[c].about
      /\ plan \in Seq(PlanSteps)
  BY <1>3, <1>4
<1> HIDE DEF l, m, about, plan
<1>6. job' = [job EXCEPT ![c].stage = "bootstrap", ![c].about = about, ![c].plan = plan]
  BY <1>2 DEF about, plan
<1>7. /\ job' \in [Commands -> Jobs] /\ Others(c)
      /\ job'[c].stage = "bootstrap" /\ job'[c].command = job[c].command
      /\ job'[c].about = about /\ job'[c].plan = plan /\ job'[c].keys = job[c].keys
  <2> DEFINE was == job[c]
             now == [was EXCEPT !.stage = "bootstrap", !.about = about, !.plan = plan]
  <2>1. was \in Jobs
    BY DEF TypeOK
  <2>2. now \in Jobs
    BY <1>5, <2>1 DEF Jobs, Stages
  <2>3. /\ now.stage = "bootstrap" /\ now.command = was.command
        /\ now.about = about /\ now.plan = plan /\ now.keys = was.keys
    BY <2>1 DEF Jobs
  <2>4. job' = [job EXCEPT ![c] = now]
    BY <1>6
  <2> HIDE DEF now
  <2>5. job' \in [Commands -> Jobs] /\ Others(c) /\ job'[c] = now
    BY <2>2, <2>4 DEF TypeOK, Others
  <2> QED
    BY <2>3, <2>5
<1>8. HasLocator(m)'
  BY <1>1, <1>3 DEF HasLocator, files
<1>9. JobView(c)'
  BY <1>3, <1>5, <1>7, <1>8 DEF JobView, m
<1> QED
  BY <1>1, <1>2, <1>3, <1>5, <1>7, <1>9, OnlyJobs DEF l, m, plan

LEMMA BootstrappedHolds ==
    ASSUME TypeOK, NEW c \in Commands, JobView(c), BootView(c), Bootstrapped(c)
    PROVE  /\ TypeOK' /\ JobView(c)' /\ Others(c)
           /\ job'[c].stage = "load" /\ job'[c].plan = <<>> /\ job'[c].keys = job[c].keys
<1> DEFINE m == MachineOf[c]
<1>1. /\ job[c].stage = "bootstrap" /\ job[c].plan = <<>>
      /\ job' = [job EXCEPT ![c].stage = "load", ![c].about = job[c].about.was]
      /\ UNCHANGED <<key, minted, files, relay, history, faults>>
  BY DEF Bootstrapped
<1>2. /\ job' \in [Commands -> Jobs] /\ Others(c)
      /\ job'[c].stage = "load" /\ job'[c].command = job[c].command
      /\ job'[c].about = job[c].about.was /\ job'[c].plan = job[c].plan
      /\ job'[c].keys = job[c].keys
  <2> DEFINE about == job[c].about.was
  <2>1. about \in Topics
    BY <1>1 DEF JobView
  <2> HIDE DEF about
  <2>2. job' = [job EXCEPT ![c].stage = "load", ![c].about = about]
    BY <1>1 DEF about
  <2>3. /\ job' \in [Commands -> Jobs] /\ Others(c)
        /\ job'[c].stage = "load" /\ job'[c].command = job[c].command
        /\ job'[c].about = about /\ job'[c].plan = job[c].plan
        /\ job'[c].keys = job[c].keys
    BY <2>1, <2>2 DEF TypeOK, Jobs, Stages, Others
  <2> QED
    BY <2>3 DEF about
<1>3. Exists(m, Metadata(locator[m].project))
  <2>1. Pending(c) = {}
    BY <1>1, EmptyPlan DEF Pending
  <2> QED
    BY <1>1, <2>1 DEF BootView, Comes, Exists
<1>4. Exists(m, Metadata(locator[m].project))'
  BY <1>1, <1>3 DEF Exists, files, Metadata
<1>5. HasLocator(m)'
  BY <1>1 DEF JobView, HasLocator, files
<1>6. JobView(c)'
  BY <1>1, <1>2, <1>4, <1>5 DEF JobView
<1> QED
  BY <1>1, <1>2, <1>6, OnlyJobs

LEMMA CheckOwnerHolds ==
    ASSUME TypeOK, NEW c \in Commands, JobView(c), CheckOwner(c)
    PROVE  /\ TypeOK' /\ JobView(c)' /\ Others(c)
           /\ job'[c].stage \in {"idle", "key"} /\ job'[c].keys = <<>>
<1>1. /\ job[c].stage = "load" /\ job[c].command = "add"
      /\ UNCHANGED <<key, minted, files, relay, history, faults>>
      /\ To(c, "key") \/ End(c)
  BY DEF CheckOwner
<1>2. CASE End(c)
  BY <1>1, <1>2, EndHolds, IdleView, OnlyJobs, IdleJob
<1>3. CASE To(c, "key")
  <2>1. /\ job' \in [Commands -> Jobs] /\ Others(c)
        /\ job'[c].stage = "key" /\ job'[c].command = job[c].command
        /\ job'[c].about = job[c].about /\ job'[c].plan = job[c].plan
        /\ job'[c].keys = job[c].keys
    BY <1>3, ToHolds DEF Stages
  <2>2. Len(<<>>) < Len(KeyOrder)
    BY DEF KeyOrder
  <2>3. JobView(c)'
    BY <1>1, <2>1, <2>2 DEF JobView, HasLocator, files
  <2> QED
    BY <1>1, <2>1, <2>3, OnlyJobs DEF JobView
<1> QED
  BY <1>1, <1>2, <1>3

\* an environment is made, or env add refuses
LEMMA CreateEnvironmentHolds ==
    ASSUME TypeOK, NEW c \in Commands, JobView(c), NEW e \in Environments, CreateEnvironment(c, e)
    PROVE  LET m == MachineOf[c]
               p == locator[m].project
               label == job[c].about
           IN
           /\ TypeOK' /\ JobView(c)' /\ Others(c)
           /\ UNCHANGED <<key, minted, files, relay, creator, home, faults>>
           /\ \/ job'[c] = Idle /\ made' = made
              \/ /\ made[e] = None /\ HasLocator(m) /\ m \in Founders
                 /\ made' = [made EXCEPT ![e] = [project |-> p, label |-> label]]
                 /\ label \notin LabelsInUse(m, p)
                 /\ [project |-> p, label |-> label] \in [project : Projects, label : Labels]
                 /\ job'[c].stage = "write" /\ job'[c].plan = EnvAddPlan(e)
                 /\ job'[c].keys = job[c].keys
<1> DEFINE m == MachineOf[c]
           p == locator[m].project
           label == job[c].about
           new == [project |-> p, label |-> label]
           plan == EnvAddPlan(e)
<1>1. /\ job[c].stage = "create" /\ made[e] = None
      /\ UNCHANGED <<key, minted, files, relay, creator, home, faults>>
      /\ \/ End(c) /\ made' = made
         \/ /\ made' = [made EXCEPT ![e] = new] /\ label \notin LabelsInUse(m, p)
            /\ job' = [job EXCEPT ![c].stage = "write", ![c].plan = plan]
  BY DEF CreateEnvironment
<1>2. /\ job[c].command = "add" /\ m \in Founders /\ HasLocator(m) /\ label \in Labels
      /\ p \in Projects
  BY <1>1, MachineType, LocatorType DEF JobView
<1>3. CASE End(c) /\ made' = made
  <2>1. /\ job' \in [Commands -> Jobs] /\ Others(c) /\ job'[c] = Idle
    BY <1>3, EndHolds
  <2>2. TypeOK'
    BY <1>1, <1>3, <2>1, OnlyJobs DEF history
  <2> QED
    BY <1>1, <1>3, <2>1, <2>2, IdleView
<1>4. CASE /\ made' = [made EXCEPT ![e] = new] /\ label \notin LabelsInUse(m, p)
           /\ job' = [job EXCEPT ![c].stage = "write", ![c].plan = plan]
  <2>1. new \in [project : Projects, label : Labels] /\ plan \in Seq(PlanSteps)
    BY <1>2, EnvAddPlanHolds
  <2> HIDE DEF m, p, label, new, plan
  <2>2. /\ job' \in [Commands -> Jobs] /\ Others(c)
        /\ job'[c].stage = "write" /\ job'[c].command = job[c].command
        /\ job'[c].about = job[c].about /\ job'[c].plan = plan
        /\ job'[c].keys = job[c].keys
    BY <1>4, <2>1 DEF TypeOK, Jobs, Stages, Others
  <2>3. made' \in [Environments -> [project : Projects, label : Labels] \cup {None}]
    BY <1>4, <2>1 DEF TypeOK
  <2>4. TypeOK'
    BY <1>1, <2>2, <2>3 DEF TypeOK, files
  <2>5. JobView(c)'
    BY <1>1, <1>2, <2>2 DEF JobView, m
  <2> QED
    BY <1>1, <1>2, <1>4, <2>1, <2>2, <2>4, <2>5 DEF m, p, label, new, plan
<1> QED
  BY <1>1, <1>3, <1>4

LEMMA BeginJoinHolds ==
    ASSUME TypeOK, NEW c \in Commands, job[c] = Idle, NEW b \in Bundles, BeginJoin(c, b)
    PROVE  LET m == MachineOf[c] IN
           /\ TypeOK' /\ JobView(c)' /\ Others(c)
           /\ job'[c].stage = "write" /\ job'[c].keys = <<>> /\ m \notin Founders
           /\ b.project \in Projects /\ home[b.project] # None
           /\ b.environments \subseteq EnvironmentsOf(b.project)
           /\ \A e \in b.environments : Environment(e) \in whole[home[b.project]]
           /\ ~MixedBundles /\ HasLocator(m) => locator[m].project = b.project
           /\ \E s \in Orders(b.environments) : job'[c].plan = JoinPlan(m, b.project, s)
<1> DEFINE m == MachineOf[c]
<1>1. /\ b.project \in Projects /\ home[b.project] # None
      /\ b.environments \subseteq EnvironmentsOf(b.project)
      /\ \A e \in b.environments : Environment(e) \in whole[home[b.project]]
  BY DEF Bundles
<1>2. /\ m \notin Founders /\ UNCHANGED <<key, minted, files, relay, history, faults>>
      /\ ~MixedBundles /\ HasLocator(m) => locator[m].project = b.project
  BY DEF BeginJoin, HasLocator
<1>3. PICK s \in Orders(b.environments) :
        Start(c, "join", None, "write", JoinPlan(m, b.project, s))
  BY DEF BeginJoin
<1>4. JoinPlan(m, b.project, s) \in Seq(PlanSteps)
  <2>1. b.environments \in SUBSET Environments
    BY <1>1 DEF EnvironmentsOf
  <2>2. s \in Seq(Environments)
    BY <1>3, <2>1, OrderOfSet
  <2> QED
    BY <1>1, <2>2, JoinPlanHolds, MachineType
<1> DEFINE plan == JoinPlan(m, b.project, s)
<1>5. /\ plan \in Seq(PlanSteps) /\ Start(c, "join", None, "write", plan)
      /\ "join" \in CommandNames /\ "write" \in Stages /\ None \in Topics
  BY <1>3, <1>4 DEF CommandNames, Stages, Topics
<1> HIDE DEF plan
<1>6. /\ job' \in [Commands -> Jobs] /\ Others(c)
      /\ job'[c].stage = "write" /\ job'[c].command = "join"
      /\ job'[c].about = None /\ job'[c].plan = plan /\ job'[c].keys = <<>>
  BY <1>5, StartHolds
<1>7. JobView(c)'
  BY <1>2, <1>5, <1>6 DEF JobView
<1>8. TypeOK'
  BY <1>2, <1>6, OnlyJobs
<1> QED
  BY <1>1, <1>2, <1>3, <1>6, <1>7, <1>8 DEF plan

LEMMA WrittenHolds ==
    ASSUME TypeOK, NEW c \in Commands, JobView(c), Written(c)
    PROVE  /\ TypeOK' /\ JobView(c)' /\ Others(c)
           /\ job'[c].stage \in {"idle", "key"} /\ job'[c].plan = <<>> /\ job'[c].keys = <<>>
<1>1. /\ job[c].stage = "write" /\ job[c].plan = <<>>
      /\ UNCHANGED <<key, minted, files, relay, history, faults>>
      /\ (job[c].command = "join" /\ To(c, "key")) \/ End(c)
  BY DEF Written
<1>2. CASE End(c)
  BY <1>1, <1>2, EndHolds, IdleView, OnlyJobs, IdleJob
<1>3. CASE job[c].command = "join" /\ To(c, "key")
  <2>1. /\ job' \in [Commands -> Jobs] /\ Others(c)
        /\ job'[c].stage = "key" /\ job'[c].command = job[c].command
        /\ job'[c].about = job[c].about /\ job'[c].plan = job[c].plan
        /\ job'[c].keys = job[c].keys
    BY <1>3, ToHolds DEF Stages
  <2>2. Len(<<>>) < Len(KeyOrder)
    BY DEF KeyOrder
  <2>3. JobView(c)'
    BY <1>1, <1>3, <2>1, <2>2 DEF JobView, HasLocator, files
  <2> QED
    BY <1>1, <1>3, <2>1, <2>3, OnlyJobs DEF JobView
<1> QED
  BY <1>1, <1>2, <1>3

\* the actions in which a command ends and nothing else happens
LEMMA EndsHold ==
    ASSUME TypeOK, NEW c \in Commands,
           FetchFails(c) \/ OpenProject(c) \/ RequestToJoin(c) \/ ImportFails(c)
    PROVE  /\ TypeOK' /\ JobView(c)' /\ Others(c) /\ job'[c] = Idle
           /\ UNCHANGED <<key, minted, files, relay, history, faults>>
<1>1. End(c) /\ UNCHANGED <<key, minted, files, relay, history, faults>>
  BY DEF FetchFails, OpenProject, RequestToJoin, ImportFails
<1> QED
  BY <1>1, EndHolds, IdleView, OnlyJobs

LEMMA StepKinds ==
    ASSUME NEW step \in PlanSteps
    PROVE  \/ \E f \in Files : step = Write(f)
           \/ \E p \in Projects : step = ResetLocator(p)
           \/ \E p \in Projects : step = ImportMembership(p)
           \/ \E e \in Environments : step = Upsert(e)
  BY DEF PlanSteps, Write, ResetLocator, ImportMembership, Upsert

(***************************************************************************)
(* A step of a plan either fails, on an update of a locator that is not    *)
(* there, or stores a file, or updates the locator, or does nothing where  *)
(* the relay has no membership genesis.                                    *)
(***************************************************************************)
Stores(m, f) ==
    /\ whole' = [whole EXCEPT ![m] = @ \cup {f}]
    /\ torn' = [torn EXCEPT ![m] = @ \ {f}]
    /\ UNCHANGED locator

Enters(m, l) ==
    /\ locator' = [locator EXCEPT ![m] = l]
    /\ UNCHANGED <<whole, torn>>

Does(m, step) ==
    \/ \E f \in Files : step = Write(f) /\ Stores(m, f)
    \/ \E p \in Projects : /\ step = ImportMembership(p)
                           /\ Stores(m, Membership(p)) \/ UNCHANGED files
    \/ \E p \in Projects : /\ step = ResetLocator(p)
                           /\ Enters(m, [project |-> p, environments |-> {}])
    \/ \E e \in Environments : /\ step = Upsert(e) /\ HasLocator(m)
                               /\ Enters(m, Entered(locator[m], e))

LEMMA StepHolds ==
    ASSUME TypeOK, NEW c \in Commands, JobView(c), Step(c)
    PROVE  LET m == MachineOf[c]
               step == Head(job[c].plan)
           IN
           /\ job[c].plan # <<>> /\ job[c].plan \in Seq(PlanSteps)
           /\ step \in PlanSteps /\ job[c].stage \in {"write", "bootstrap"}
           /\ job' \in [Commands -> Jobs] /\ Others(c)
           /\ UNCHANGED <<key, minted, relay, history, faults>>
           /\ \/ /\ job'[c] = Idle /\ UNCHANGED files
                 /\ \E e \in Environments : step = Upsert(e)
              \/ /\ job'[c].stage = job[c].stage /\ job'[c].command = job[c].command
                 /\ job'[c].about = job[c].about /\ job'[c].keys = job[c].keys
                 /\ job'[c].plan = Tail(job[c].plan)
                 /\ Does(m, step)
<1> DEFINE m == MachineOf[c]
           step == Head(job[c].plan)
           rest == Tail(job[c].plan)
<1>1. job[c].plan # <<>> /\ job[c].plan \in Seq(PlanSteps) /\ job[c].stage \in {"write", "bootstrap"}
  BY DEF Step, TypeOK, Jobs
<1>2. step \in PlanSteps /\ rest \in Seq(PlanSteps)
  BY <1>1, TailOfPlan
<1>3. /\ UNCHANGED <<key, minted, relay, history, faults>>
      /\ \/ Fails(m, step) /\ End(c) /\ UNCHANGED files
         \/ /\ ~Fails(m, step)
            /\ job' = [job EXCEPT ![c].plan = rest]
            /\ locator' = [locator EXCEPT ![m] = LocatorAfter(m, step)]
            /\ IF StoresFile(step)
               THEN /\ whole' = [whole EXCEPT ![m] = @ \cup {FileOf(step)}]
                    /\ torn' = [torn EXCEPT ![m] = @ \ {FileOf(step)}]
               ELSE UNCHANGED <<whole, torn>>
  BY DEF Step
<1>4. m \in Machines
  BY MachineType
<1> HIDE DEF m, step, rest
<1>5. CASE Fails(m, step) /\ End(c) /\ UNCHANGED files
  <2>1. \E e \in Environments : step = Upsert(e)
    BY <1>2, <1>5, StepKinds, StepsDiffer DEF Fails
  <2>2. job' \in [Commands -> Jobs] /\ Others(c) /\ job'[c] = Idle
    BY <1>5, EndHolds
  <2> QED
    BY <1>1, <1>2, <1>3, <1>5, <2>1, <2>2 DEF step
<1>6. CASE /\ ~Fails(m, step)
           /\ job' = [job EXCEPT ![c].plan = rest]
           /\ locator' = [locator EXCEPT ![m] = LocatorAfter(m, step)]
           /\ IF StoresFile(step)
              THEN /\ whole' = [whole EXCEPT ![m] = @ \cup {FileOf(step)}]
                   /\ torn' = [torn EXCEPT ![m] = @ \ {FileOf(step)}]
              ELSE UNCHANGED <<whole, torn>>
  <2>1. /\ job' \in [Commands -> Jobs] /\ Others(c)
        /\ job'[c].stage = job[c].stage /\ job'[c].command = job[c].command
        /\ job'[c].about = job[c].about /\ job'[c].keys = job[c].keys
        /\ job'[c].plan = rest
    BY <1>2, <1>6 DEF TypeOK, Jobs, Others
  <2>2. Does(m, step)
    <3>1. LocatorAfter(m, step) = locator[m] => UNCHANGED locator
      BY <1>4, <1>6 DEF TypeOK
    <3>2. ASSUME NEW f \in Files, step = Write(f) PROVE Does(m, step)
      <4>1. StoresFile(step) /\ FileOf(step) = f /\ LocatorAfter(m, step) = locator[m]
        BY <3>2, StepsDiffer DEF StoresFile, FileOf, LocatorAfter
      <4> QED
        BY <1>6, <3>1, <3>2, <4>1 DEF Does, Stores
    <3>3. ASSUME NEW p \in Projects, step = ImportMembership(p) PROVE Does(m, step)
      <4>1. FileOf(step) = Membership(p) /\ LocatorAfter(m, step) = locator[m]
        BY <3>3, StepsDiffer DEF FileOf, LocatorAfter
      <4> QED
        BY <1>6, <3>1, <3>3, <4>1 DEF Does, Stores, files
    <3>4. ASSUME NEW p \in Projects, step = ResetLocator(p) PROVE Does(m, step)
      <4>1. ~StoresFile(step) /\ LocatorAfter(m, step) = [project |-> p, environments |-> {}]
        BY <3>4, StepsDiffer DEF StoresFile, LocatorAfter
      <4> QED
        BY <1>6, <3>4, <4>1 DEF Does, Enters
    <3>5. ASSUME NEW e \in Environments, step = Upsert(e) PROVE Does(m, step)
      <4>1. ~StoresFile(step) /\ LocatorAfter(m, step) = Entered(locator[m], e) /\ HasLocator(m)
        BY <1>6, <3>5, StepsDiffer DEF StoresFile, LocatorAfter, Fails, HasLocator
      <4> QED
        BY <1>6, <3>5, <4>1 DEF Does, Enters
    <3> QED
      BY <1>2, <3>2, <3>3, <3>4, <3>5, StepKinds
  <2> QED
    BY <1>1, <1>2, <1>3, <2>1, <2>2 DEF m, step, rest
<1> QED
  BY <1>3, <1>5, <1>6

(* A crash ends the command, and may tear what it was writing.             *)
Tears(m, f) ==
    /\ whole' = [whole EXCEPT ![m] = @ \ {f}]
    /\ torn' = [torn EXCEPT ![m] = @ \cup {f}]
    /\ UNCHANGED locator

TornBy(m, step) ==
    \/ UNCHANGED files
    \/ \E f \in Files : step = Write(f) /\ Tears(m, f)
    \/ \E p \in Projects : step = ImportMembership(p) /\ Tears(m, Membership(p))
    \/ \E p \in Projects : step = ResetLocator(p) /\ Enters(m, Torn)
    \/ \E e \in Environments : step = Upsert(e) /\ Enters(m, Torn)

LEMMA CrashHolds ==
    ASSUME TypeOK, NEW c \in Commands, JobView(c), Crash(c)
    PROVE  LET m == MachineOf[c]
               step == Head(job[c].plan)
           IN
           /\ job' \in [Commands -> Jobs] /\ Others(c) /\ job'[c] = Idle
           /\ UNCHANGED <<key, minted, relay, history>>
           /\ faults' = faults + 1 /\ faults' \in 0..MaxFaults
           /\ \/ UNCHANGED files
              \/ /\ job[c].plan # <<>> /\ job[c].plan \in Seq(PlanSteps) /\ step \in PlanSteps
                 /\ TornBy(m, step)
<1> DEFINE m == MachineOf[c]
           step == Head(job[c].plan)
<1>1. /\ faults < MaxFaults /\ faults' = faults + 1 /\ End(c)
      /\ UNCHANGED <<key, minted, relay, history>>
      /\ \/ UNCHANGED files
         \/ job[c].plan # <<>> /\ StoresFile(step) /\ Tears(m, FileOf(step))
         \/ job[c].plan # <<>> /\ step.op \in {"reset", "upsert"} /\ Enters(m, Torn)
  BY DEF Crash, Tears, Enters
<1>2. faults' \in 0..MaxFaults
  BY <1>1, SetupAssumption DEF TypeOK
<1>3. job' \in [Commands -> Jobs] /\ Others(c) /\ job'[c] = Idle
  BY <1>1, EndHolds
<1>4. ASSUME job[c].plan # <<>>
      PROVE  job[c].plan \in Seq(PlanSteps) /\ step \in PlanSteps
  BY <1>4, TailOfPlan DEF TypeOK, Jobs
<1>5. CASE UNCHANGED files
  BY <1>1, <1>2, <1>3, <1>5
<1> HIDE DEF m, step
<1>6. CASE job[c].plan # <<>> /\ StoresFile(step) /\ Tears(m, FileOf(step))
  <2>1. TornBy(m, step)
    BY <1>4, <1>6, StepKinds, StepsDiffer DEF TornBy, StoresFile, FileOf
  <2> QED
    BY <1>1, <1>2, <1>3, <1>4, <1>6, <2>1 DEF m, step
<1>7. CASE job[c].plan # <<>> /\ step.op \in {"reset", "upsert"} /\ Enters(m, Torn)
  <2>1. TornBy(m, step)
    BY <1>4, <1>7, StepKinds, StepsDiffer DEF TornBy
  <2> QED
    BY <1>1, <1>2, <1>3, <1>4, <1>7, <2>1 DEF m, step
<1> QED
  BY <1>1, <1>5, <1>6, <1>7

LEMMA EnteredType ==
    ASSUME NEW l \in Locators, NEW e \in Environments
    PROVE  /\ Entered(l, e) \in Locators /\ Entered(l, e).project = l.project
           /\ Entered(l, e).environments
                = {f \in l.environments : made[f].label # made[e].label} \cup {e}
  BY DEF Locators, Entered

LEMMA FilesType ==
    ASSUME TypeOK, NEW m \in Machines, NEW step, Does(m, step) \/ TornBy(m, step)
    PROVE  /\ locator' \in [Machines -> Locators \cup {None, Torn}]
           /\ whole' \in [Machines -> SUBSET Files]
           /\ torn' \in [Machines -> SUBSET Files]
           /\ \A n \in Machines \ {m} : SameMachine(n)
           /\ Does(m, step) /\ HasLocator(m) => HasLocator(m)'
<1> DEFINE Good == /\ locator' \in [Machines -> Locators \cup {None, Torn}]
                   /\ whole' \in [Machines -> SUBSET Files]
                   /\ torn' \in [Machines -> SUBSET Files]
                   /\ \A n \in Machines \ {m} : SameMachine(n)
<1>1. \A p \in Projects : Membership(p) \in Files
  BY Steps
<1>2. ASSUME UNCHANGED files PROVE Good /\ locator' = locator
  BY <1>2 DEF TypeOK, files, SameMachine
<1>3. ASSUME NEW f \in Files, Stores(m, f) \/ Tears(m, f) PROVE Good /\ locator' = locator
  <2>1. CASE Stores(m, f)
    BY <1>3, <2>1 DEF TypeOK, Stores, SameMachine
  <2>2. CASE Tears(m, f)
    BY <1>3, <2>2 DEF TypeOK, Tears, SameMachine
  <2> QED
    BY <1>3, <2>1, <2>2
<1>4. ASSUME NEW l \in Locators \cup {Torn}, Enters(m, l) PROVE Good /\ locator'[m] = l
  BY <1>4 DEF TypeOK, Enters, SameMachine
<1>5. \A p \in Projects : [project |-> p, environments |-> {}] \in Locators
  BY DEF Locators
<1>6. HasLocator(m) => locator[m] \in Locators
  BY LocatorType
<1>7. \A l \in Locators : l \notin {None, Torn}
  BY MarksAssumption
<1> HIDE DEF Good
<1>8. ASSUME Does(m, step) PROVE Good /\ (HasLocator(m) => HasLocator(m)')
  <2>1. CASE \E f \in Files : step = Write(f) /\ Stores(m, f)
    BY <1>3, <2>1 DEF HasLocator
  <2>2. CASE \E p \in Projects : /\ step = ImportMembership(p)
                                 /\ Stores(m, Membership(p)) \/ UNCHANGED files
    BY <1>1, <1>2, <1>3, <2>2 DEF HasLocator
  <2>3. CASE \E p \in Projects : /\ step = ResetLocator(p)
                                 /\ Enters(m, [project |-> p, environments |-> {}])
    BY <1>4, <1>5, <1>7, <2>3 DEF HasLocator
  <2>4. CASE \E e \in Environments : /\ step = Upsert(e) /\ HasLocator(m)
                                     /\ Enters(m, Entered(locator[m], e))
    BY <1>4, <1>6, <1>7, <2>4, EnteredType DEF HasLocator
  <2> QED
    BY <1>8, <2>1, <2>2, <2>3, <2>4 DEF Does
<1>9. ASSUME TornBy(m, step) PROVE Good
  BY <1>1, <1>2, <1>3, <1>4, <1>9 DEF TornBy
<1> QED
  BY <1>8, <1>9 DEF Good

LEMMA StepType ==
    ASSUME TypeOK, NEW c \in Commands, JobView(c), Step(c)
    PROVE  TypeOK' /\ JobView(c)' /\ \A n \in Machines \ {MachineOf[c]} : SameMachine(n)
<1> DEFINE m == MachineOf[c]
           step == Head(job[c].plan)
<1>1. /\ job[c].stage \in {"write", "bootstrap"}
      /\ job' \in [Commands -> Jobs] /\ Others(c)
      /\ UNCHANGED <<key, minted, relay, history, faults>>
      /\ \/ job'[c] = Idle /\ UNCHANGED files
         \/ /\ job'[c].stage = job[c].stage /\ job'[c].command = job[c].command
            /\ job'[c].about = job[c].about /\ job'[c].keys = job[c].keys
            /\ Does(m, step)
  BY StepHolds
<1>2. m \in Machines
  BY MachineType
<1> HIDE DEF m, step
<1>3. CASE job'[c] = Idle /\ UNCHANGED files
  BY <1>1, <1>3, OnlyJobs, IdleView, QuietMachines DEF Quiet
<1>4. CASE /\ job'[c].stage = job[c].stage /\ job'[c].command = job[c].command
           /\ job'[c].about = job[c].about /\ job'[c].keys = job[c].keys
           /\ Does(m, step)
  <2>1. /\ locator' \in [Machines -> Locators \cup {None, Torn}]
        /\ whole' \in [Machines -> SUBSET Files]
        /\ torn' \in [Machines -> SUBSET Files]
        /\ \A n \in Machines \ {m} : SameMachine(n)
        /\ HasLocator(m) => HasLocator(m)'
    BY <1>2, <1>4, FilesType
  <2>2. TypeOK'
    BY <1>1, <2>1 DEF TypeOK, history
  <2>3. JobView(c)'
    BY <1>1, <1>4, <2>1 DEF JobView, m
  <2> QED
    BY <2>1, <2>2, <2>3 DEF m
<1> QED
  BY <1>1, <1>3, <1>4

LEMMA CrashType ==
    ASSUME TypeOK, NEW c \in Commands, JobView(c), Crash(c)
    PROVE  TypeOK' /\ JobView(c)' /\ \A n \in Machines \ {MachineOf[c]} : SameMachine(n)
<1> DEFINE m == MachineOf[c]
           step == Head(job[c].plan)
<1>1. /\ job' \in [Commands -> Jobs] /\ job'[c] = Idle
      /\ UNCHANGED <<key, minted, relay, history>> /\ faults' \in 0..MaxFaults
      /\ UNCHANGED files \/ TornBy(m, step)
  BY CrashHolds
<1>2. m \in Machines
  BY MachineType
<1> HIDE DEF m, step
<1>3. /\ locator' \in [Machines -> Locators \cup {None, Torn}]
      /\ whole' \in [Machines -> SUBSET Files]
      /\ torn' \in [Machines -> SUBSET Files]
      /\ \A n \in Machines \ {m} : SameMachine(n)
  <2>1. CASE UNCHANGED files
    BY <2>1 DEF TypeOK, files, SameMachine
  <2>2. CASE TornBy(m, step)
    BY <1>2, <2>2, FilesType
  <2> QED
    BY <1>1, <2>1, <2>2
<1>4. TypeOK'
  BY <1>1, <1>3 DEF TypeOK, history
<1> QED
  BY <1>1, <1>3, <1>4, IdleView DEF m

(* Types, and the view of the command that makes the step.                 *)
LEMMA CommandTypes ==
    ASSUME TypeOK, NEW c \in Commands, JobView(c), KeyView(c), BootView(c),
           LocatorView(MachineOf[c]), Command(c)
    PROVE  /\ TypeOK' /\ JobView(c)' /\ Others(c)
           /\ \A m \in Machines \ {MachineOf[c]} : SameMachine(m)
<1> DEFINE Goal == TypeOK' /\ JobView(c)' /\ Others(c)
           Alone == \A m \in Machines \ {MachineOf[c]} : SameMachine(m)
<1>1. CASE BeginInit(c)
  BY <1>1, BeginInitHolds, QuietMachines DEF BeginInit, Quiet
<1>2. CASE \E p \in Projects : Found(c, p)
  BY <1>2, FoundHolds, QuietMachines DEF Found, Quiet
<1>3. CASE LookForKey(c)
  BY <1>3, LookForKeyHolds, QuietMachines DEF LookForKey, Quiet
<1>4. CASE KeyChainRefuses(c)
  BY <1>4, KeyChainRefusesHolds, QuietMachines DEF KeyChainRefuses, Quiet
<1>5. CASE StoreNativeKey(c)
  BY <1>5, StoreNativeKeyHolds, QuietMachines DEF StoreNativeKey, Quiet
<1>6. CASE CreateKeyFile(c)
  BY <1>6, CreateKeyFileHolds, QuietMachines DEF CreateKeyFile, Quiet
<1>7. CASE WriteKeyFile(c)
  BY <1>7, WriteKeyFileHolds, QuietMachines DEF WriteKeyFile, Quiet
<1>8. CASE BeginCommand(c, "open", None) \/ \E l \in Labels : BeginCommand(c, "add", l)
  <2>1. PICK command \in {"open", "add"}, about \in Topics :
          (command = "add" => about \in Labels) /\ BeginCommand(c, command, about)
    BY <1>8 DEF Topics
  <2> QED
    BY <2>1, BeginCommandHolds, QuietMachines DEF BeginCommand, Quiet
<1>9. CASE Resolve(c)
  BY <1>9, ResolveHolds, QuietMachines DEF Resolve, Quiet
<1>10. CASE FetchFails(c) \/ OpenProject(c) \/ RequestToJoin(c) \/ ImportFails(c)
  BY <1>10, EndsHold, QuietMachines DEF Quiet
<1>11. CASE Fetch(c)
  BY <1>11, FetchHolds, QuietMachines DEF Fetch, Quiet
<1>12. CASE Bootstrapped(c)
  BY <1>12, BootstrappedHolds, QuietMachines DEF Bootstrapped, Quiet
<1>13. CASE CheckOwner(c)
  BY <1>13, CheckOwnerHolds, QuietMachines DEF CheckOwner, Quiet
<1>14. CASE \E e \in Environments : CreateEnvironment(c, e)
  BY <1>14, CreateEnvironmentHolds, QuietMachines DEF Quiet
<1>15. CASE job[c] = Idle /\ \E b \in Bundles : BeginJoin(c, b)
  BY <1>15, BeginJoinHolds, QuietMachines DEF BeginJoin, Quiet
<1>16. CASE Step(c)
  BY <1>16, StepType, StepHolds
<1>17. CASE Written(c)
  BY <1>17, WrittenHolds, QuietMachines DEF Written, Quiet
<1>18. CASE Crash(c)
  BY <1>18, CrashType, CrashHolds
<1> QED
  BY <1>1, <1>2, <1>3, <1>4, <1>5, <1>6, <1>7, <1>8, <1>9, <1>10, <1>11, <1>12, <1>13,
     <1>14, <1>15, <1>16, <1>17, <1>18 DEF Command

-----------------------------------------------------------------------------
(***************************************************************************)
(* Keys.                                                                   *)
(***************************************************************************)
KeyPart == KeysAreDistinct /\ CreatorKeepsItsKeys

LEMMA KeyPositions ==
    ASSUME TypeOK, NEW c \in Commands, Len(job[c].keys) < Len(KeyOrder), NEW seed \in Nat
    PROVE  LET keys == job[c].keys
               more == Append(keys, seed)
               last == Len(keys) + 1
           IN
           /\ KeyOrder[last] = Wanted(c) /\ more[last] = seed
           /\ \A i \in DOMAIN keys : KeyOrder[i] \in KeyKinds \ {Wanted(c)}
           /\ \A i \in DOMAIN more : i = last \/ (i \in DOMAIN keys /\ more[i] = keys[i])
<1> DEFINE keys == job[c].keys
           n == Len(keys)
<1>1. keys \in Seq(Nat) /\ n \in {0, 1} /\ DOMAIN keys = 1..n /\ n \in Nat
  BY WantedKey DEF TypeOK, Jobs
<1>2. KeyOrder[1] = "signing" /\ KeyOrder[2] = "encryption"
  BY DEF KeyOrder
<1>3. Wanted(c) = KeyOrder[n + 1] /\ Wanted(c) = IF n = 0 THEN "signing" ELSE "encryption"
  BY WantedKey DEF Wanted
<1> HIDE DEF keys
<1>4. /\ Append(keys, seed)[n + 1] = seed /\ DOMAIN Append(keys, seed) = 1..(n + 1)
      /\ \A i \in 1..n : Append(keys, seed)[i] = keys[i]
  BY <1>1, AppendProperties
<1> HIDE DEF n
<1>5. \A i \in 1..n : i = 1 /\ n = 1
  BY <1>1
<1>6. \A i \in 1..(n + 1) : i = n + 1 \/ i \in 1..n
  BY <1>1
<1>7. \A i \in 1..n : KeyOrder[i] \in KeyKinds \ {Wanted(c)}
  BY <1>1, <1>2, <1>3, <1>5 DEF KeyKinds
<1> QED
  BY <1>1, <1>3, <1>4, <1>6, <1>7 DEF keys, n

(* A step that touches no key, or only keys that no project was made with. *)
LEMMA SameKeys ==
    ASSUME KeyPart, UNCHANGED <<key, minted, creator, home>>
    PROVE  KeyPart'
  BY DEF KeyPart, KeysAreDistinct, CreatorKeepsItsKeys

LEMMA SameKeyView ==
    ASSUME NEW c \in Commands, KeyView(c), UNCHANGED <<key, minted>>,
           job'[c].stage \notin {"generate", "store"}, job'[c].keys \in {<<>>, job[c].keys}
    PROVE  KeyView(c)'
<1>1. DOMAIN <<>> = {}
  OBVIOUS
<1>2. \A i \in DOMAIN job'[c].keys : i \in DOMAIN job[c].keys /\ job'[c].keys[i] = job[c].keys[i]
  BY <1>1
<1> QED
  BY <1>2 DEF KeyView

LEMMA CreatorHasKeys ==
    ASSUME TypeOK, CreatorKeepsItsKeys, NEW p \in Projects, home[p] \notin NativeStore \cup {None}
    PROVE  \A k \in KeyKinds : key[home[p]][k] \in Nat
<1>1. creator[p] \in Seq(Nat)
  BY DEF TypeOK
<1>2. /\ creator[p] = [i \in 1..Len(KeyOrder) |-> key[home[p]][KeyOrder[i]]]
      /\ Len(KeyOrder) = 2 /\ KeyOrder[1] = "signing" /\ KeyOrder[2] = "encryption"
  BY DEF CreatorKeepsItsKeys, KeyOrder
<1>3. \A i \in DOMAIN creator[p] : creator[p][i] \in Nat
  BY <1>1
<1> HIDE DEF KeyOrder
<1>4. 1 \in DOMAIN creator[p] /\ 2 \in DOMAIN creator[p]
  BY <1>2
<1> QED
  BY <1>2, <1>3, <1>4 DEF KeyKinds

LEMMA CreatorStays ==
    ASSUME TypeOK, CreatorKeepsItsKeys, UNCHANGED <<creator, home>>,
           NEW m \in Machines, m \in NativeStore \/ \E k \in KeyKinds : key[m][k] \notin Nat,
           \A n \in Machines \ {m} : key'[n] = key[n]
    PROVE  CreatorKeepsItsKeys'
<1> SUFFICES ASSUME NEW p \in Projects, home[p] \notin NativeStore \cup {None}
             PROVE  key'[home[p]] = key[home[p]]
  BY DEF CreatorKeepsItsKeys
<1>1. home[p] \in Machines
  BY SetupAssumption DEF TypeOK
<1>2. home[p] # m
  BY CreatorHasKeys
<1> QED
  BY <1>1, <1>2

(* The key goes to the command.                                            *)
LEMMA WithKeyKeys ==
    ASSUME TypeOK, NEW c \in Commands, JobView(c), KeyView(c), NEW seed \in Nat,
           job[c].stage \in {"key", "generate", "store"}, WithKey(c, seed),
           MachineOf[c] \notin NativeStore =>
             /\ key'[MachineOf[c]][Wanted(c)] = seed
             /\ \A k \in KeyKinds \ {Wanted(c)} : key'[MachineOf[c]][k] = key[MachineOf[c]][k]
    PROVE  KeyView(c)'
<1> DEFINE m == MachineOf[c]
           keys == job[c].keys
           more == Append(keys, seed)
<1>1. Len(keys) < Len(KeyOrder)
  BY DEF JobView
<1>2. /\ KeyOrder[Len(keys) + 1] = Wanted(c) /\ more[Len(keys) + 1] = seed
      /\ \A i \in DOMAIN keys : KeyOrder[i] \in KeyKinds \ {Wanted(c)}
      /\ \A i \in DOMAIN more : i = Len(keys) + 1 \/ (i \in DOMAIN keys /\ more[i] = keys[i])
  BY <1>1, KeyPositions
<1>3. job'[c].keys = more /\ job'[c].stage \notin {"generate", "store"}
  BY WithKeyType
<1> HIDE DEF keys, more
<1>4. m \notin NativeStore => \A i \in DOMAIN keys : keys[i] = key[m][KeyOrder[i]]
  BY DEF KeyView, keys
<1>5. m \notin NativeStore => \A i \in DOMAIN more : more[i] = key'[m][KeyOrder[i]]
  BY <1>2, <1>4
<1> QED
  BY <1>3, <1>5 DEF KeyView

LEMMA LookForKeyKeys ==
    ASSUME TypeOK, NEW c \in Commands, JobView(c), KeyView(c), KeyPart, LookForKey(c)
    PROVE  KeyPart' /\ KeyView(c)'
<1> DEFINE stored == key[MachineOf[c]][Wanted(c)]
<1>1. /\ job[c].stage = "key" /\ UNCHANGED <<key, minted, files, relay, history, faults>>
      /\ \/ stored = Torn /\ End(c)
         \/ stored = None /\ To(c, "generate")
         \/ stored \notin {None, Torn} /\ WithKey(c, stored)
  BY DEF LookForKey
<1>2. stored \in Nat \cup {None, Torn}
  BY <1>1, WantedKey, MachineType DEF TypeOK, JobView
<1>3. KeyPart'
  BY <1>1, SameKeys DEF history
<1>4. CASE End(c)
  BY <1>1, <1>3, <1>4, EndHolds, SameKeyView, IdleJob
<1>5. CASE stored = None /\ To(c, "generate")
  <2>1. job'[c].stage = "generate" /\ job'[c].keys = job[c].keys
    BY <1>5, ToHolds DEF Stages
  <2> QED
    BY <1>1, <1>3, <1>5, <2>1 DEF KeyView, Wanted
<1>6. CASE stored \notin {None, Torn} /\ WithKey(c, stored)
  <2>1. stored \in Nat
    BY <1>2, <1>6
  <2> QED
    BY <1>1, <1>3, <1>6, <2>1, WithKeyKeys
<1> QED
  BY <1>1, <1>3, <1>4, <1>5, <1>6

LEMMA KeyChainRefusesKeys ==
    ASSUME TypeOK, NEW c \in Commands, JobView(c), KeyView(c), KeyPart, KeyChainRefuses(c)
    PROVE  KeyPart' /\ KeyView(c)'
<1>1. MachineOf[c] \in NativeStore /\ UNCHANGED <<key, minted, files, relay, history>>
  BY DEF KeyChainRefuses
<1>2. KeyPart'
  BY <1>1, SameKeys DEF history
<1>3. job'[c].stage = "generate"
  BY KeyChainRefusesHolds
<1> QED
  BY <1>1, <1>2, <1>3 DEF KeyView

(* A key is replaced in the key chain.                                     *)
LEMMA StoreNativeKeyKeys ==
    ASSUME TypeOK, NEW c \in Commands, JobView(c), KeyView(c), KeyPart, StoreNativeKey(c)
    PROVE  /\ KeyPart' /\ KeyView(c)'
           /\ \A m \in Machines \ {MachineOf[c]} : key'[m] = key[m] /\ minted'[m] = minted[m]
<1> DEFINE m == MachineOf[c]
           w == Wanted(c)
<1>1. /\ job[c].stage = "generate" /\ m \in Machines /\ minted[m] \in Nat
      /\ w \in KeyKinds /\ m \in NativeStore
      /\ key' = [key EXCEPT ![m][w] = minted[m]]
      /\ minted' = [minted EXCEPT ![m] = minted[m] + 1]
      /\ WithKey(c, minted[m]) /\ UNCHANGED <<creator, home>>
  BY MachineType, WantedKey DEF StoreNativeKey, Generate, TypeOK, JobView, history
<1>2. KeyView(c)'
  BY <1>1, WithKeyKeys
<1> HIDE DEF m, w
<1>3. /\ key'[m][w] = minted[m] /\ minted'[m] = minted[m] + 1
      /\ \A k \in KeyKinds \ {w} : key'[m][k] = key[m][k]
      /\ \A n \in Machines \ {m} : key'[n] = key[n] /\ minted'[n] = minted[n]
  BY <1>1 DEF TypeOK
<1>4. KeysAreDistinct'
  <2> SUFFICES ASSUME NEW n \in Machines, NEW k \in KeyKinds, key'[n][k] \in Nat
               PROVE  /\ key'[n][k] < minted'[n]
                      /\ \A l \in KeyKinds \ {k} : key'[n][l] # key'[n][k]
    BY DEF KeysAreDistinct
  <2>1. CASE n # m
    BY <1>3, <2>1 DEF KeyPart, KeysAreDistinct
  <2>2. CASE n = m
    <3>1. \A l \in KeyKinds : key[m][l] \in Nat => key[m][l] < minted[m]
      BY <1>1 DEF KeyPart, KeysAreDistinct
    <3>2. CASE k = w
      <4>1. \A l \in KeyKinds \ {w} : key[m][l] # minted[m]
        BY <1>1, <3>1
      <4> QED
        BY <1>1, <1>3, <2>2, <3>2, <4>1
    <3>3. CASE k # w
      <4>1. key[m][k] \in Nat /\ key[m][k] < minted[m] /\ key'[m][k] = key[m][k]
        BY <1>3, <2>2, <3>1, <3>3
      <4>2. \A l \in KeyKinds \ {k} : key'[m][l] # key'[m][k]
        BY <1>1, <1>3, <4>1 DEF KeyPart, KeysAreDistinct
      <4> QED
        BY <1>1, <1>3, <2>2, <4>1, <4>2
    <3> QED
      BY <3>2, <3>3
  <2> QED
    BY <2>1, <2>2
<1>5. CreatorKeepsItsKeys'
  BY <1>1, <1>3, CreatorStays DEF KeyPart
<1> QED
  BY <1>2, <1>3, <1>4, <1>5 DEF KeyPart, m

(* A key file is there, and empty. *)
LEMMA CreateKeyFileKeys ==
    ASSUME TypeOK, NEW c \in Commands, JobView(c), KeyView(c), KeyPart, CreateKeyFile(c)
    PROVE  /\ KeyPart' /\ KeyView(c)'
           /\ \A m \in Machines \ {MachineOf[c]} : key'[m] = key[m] /\ minted'[m] = minted[m]
<1> DEFINE m == MachineOf[c]
           w == Wanted(c)
           keys == job[c].keys
<1>1. /\ job[c].stage = "generate" /\ m \in Machines /\ minted[m] \in Nat
      /\ w \in KeyKinds /\ m \notin NativeStore
      /\ key' = [key EXCEPT ![m][w] = Torn]
      /\ minted' = [minted EXCEPT ![m] = minted[m] + 1]
      /\ UNCHANGED <<creator, home>> /\ Len(keys) < Len(KeyOrder)
  BY MachineType, WantedKey DEF CreateKeyFile, Generate, TypeOK, JobView, history
<1>2. key[m][w] = None
  BY <1>1 DEF KeyView
<1>3. \A i \in DOMAIN keys : KeyOrder[i] \in KeyKinds \ {w} /\ keys[i] = key[m][KeyOrder[i]]
  <2>1. 0 \in Nat
    OBVIOUS
  <2> QED
    BY <1>1, <2>1, KeyPositions DEF KeyView
<1>4. /\ job'[c].stage = "store" /\ job'[c].seed = minted[m] /\ job'[c].keys = keys
      /\ Wanted(c)' = w
  BY CreateKeyFileHolds DEF Wanted
<1> HIDE DEF m, w, keys
<1>5. /\ key'[m][w] = Torn /\ minted'[m] = minted[m] + 1
      /\ \A k \in KeyKinds \ {w} : key'[m][k] = key[m][k]
      /\ \A n \in Machines \ {m} : key'[n] = key[n] /\ minted'[n] = minted[n]
  BY <1>1 DEF TypeOK
<1>6. Torn \notin Nat /\ None \notin Nat
  BY MarksAssumption
<1>7. KeysAreDistinct'
  <2> SUFFICES ASSUME NEW n \in Machines, NEW k \in KeyKinds, key'[n][k] \in Nat
               PROVE  /\ key'[n][k] < minted'[n]
                      /\ \A l \in KeyKinds \ {k} : key'[n][l] # key'[n][k]
    BY DEF KeysAreDistinct
  <2>1. CASE n # m
    BY <1>5, <2>1 DEF KeyPart, KeysAreDistinct
  <2>2. CASE n = m
    <3>1. k # w /\ key'[m][k] = key[m][k] /\ key[m][k] \in Nat
      BY <1>5, <1>6, <2>2
    <3>2. key[m][k] < minted[m] /\ \A l \in KeyKinds \ {k} : key[m][l] # key[m][k]
      BY <1>1, <3>1 DEF KeyPart, KeysAreDistinct
    <3>3. key[m][k] < minted[m] + 1
      BY <1>1, <3>1, <3>2
    <3>4. \A l \in KeyKinds \ {k} : key'[m][l] # key'[m][k]
      BY <1>5, <1>6, <3>1, <3>2
    <3> QED
      BY <1>5, <2>2, <3>1, <3>3, <3>4
  <2> QED
    BY <2>1, <2>2
<1>8. CreatorKeepsItsKeys'
  BY <1>1, <1>2, <1>5, <1>6, CreatorStays DEF KeyPart
<1>9. KeyView(c)'
  <2>1. \A k \in KeyKinds : key'[m][k] # minted[m]
    <3>1. \A k \in KeyKinds : key[m][k] \in Nat => key[m][k] < minted[m]
      BY <1>1 DEF KeyPart, KeysAreDistinct
    <3>2. \A k \in KeyKinds : key[m][k] # minted[m]
      BY <1>1, <3>1
    <3> QED
      BY <1>1, <1>5, <1>6, <3>2
  <2>2. \A i \in DOMAIN keys : keys[i] = key'[m][KeyOrder[i]]
    BY <1>3, <1>5
  <2>3. minted[m] < minted'[m]
    BY <1>1, <1>5
  <2> QED
    BY <1>1, <1>4, <1>5, <2>1, <2>2, <2>3 DEF KeyView, m
<1> QED
  BY <1>5, <1>7, <1>8, <1>9 DEF KeyPart, m

LEMMA WriteKeyFileKeys ==
    ASSUME TypeOK, NEW c \in Commands, JobView(c), KeyView(c), KeyPart, WriteKeyFile(c)
    PROVE  /\ KeyPart' /\ KeyView(c)'
           /\ \A m \in Machines \ {MachineOf[c]} : key'[m] = key[m] /\ minted'[m] = minted[m]
<1> DEFINE m == MachineOf[c]
           w == Wanted(c)
           seed == job[c].seed
<1>1. /\ job[c].stage = "store" /\ m \in Machines /\ w \in KeyKinds
      /\ m \notin NativeStore /\ key[m][w] = Torn
      /\ seed \in Nat /\ seed < minted[m] /\ \A k \in KeyKinds : key[m][k] # seed
      /\ key' = [key EXCEPT ![m][w] = seed]
      /\ WithKey(c, seed) /\ UNCHANGED <<minted, creator, home>>
  BY MachineType, WantedKey DEF WriteKeyFile, JobView, KeyView, history
<1>2. /\ key'[m][w] = seed
      /\ \A k \in KeyKinds \ {w} : key'[m][k] = key[m][k]
      /\ \A n \in Machines \ {m} : key'[n] = key[n] /\ minted'[n] = minted[n]
  BY <1>1 DEF TypeOK
<1>3. KeyView(c)'
  BY <1>1, <1>2, WithKeyKeys
<1> HIDE DEF m, w, seed
<1>4. KeysAreDistinct'
  <2> SUFFICES ASSUME NEW n \in Machines, NEW k \in KeyKinds, key'[n][k] \in Nat
               PROVE  /\ key'[n][k] < minted'[n]
                      /\ \A l \in KeyKinds \ {k} : key'[n][l] # key'[n][k]
    BY DEF KeysAreDistinct
  <2>1. CASE n # m
    BY <1>2, <2>1 DEF KeyPart, KeysAreDistinct
  <2>2. CASE n = m /\ k = w
    BY <1>1, <1>2, <2>2
  <2>3. CASE n = m /\ k # w
    BY <1>1, <1>2, <2>3 DEF KeyPart, KeysAreDistinct
  <2> QED
    BY <2>1, <2>2, <2>3
<1>5. CreatorKeepsItsKeys'
  <2>1. Torn \notin Nat
    BY MarksAssumption
  <2>2. m \in NativeStore \/ \E k \in KeyKinds : key[m][k] \notin Nat
    BY <1>1, <2>1
  <2>3. CreatorKeepsItsKeys /\ UNCHANGED <<creator, home>> /\ m \in Machines
        /\ \A n \in Machines \ {m} : key'[n] = key[n]
    BY <1>1, <1>2 DEF KeyPart
  <2> QED
    BY <2>2, <2>3, CreatorStays, Zenon
<1> QED
  BY <1>2, <1>3, <1>4, <1>5 DEF KeyPart, m

(* A project is signed with the keys that are stored.                      *)
LEMMA FoundKeys ==
    ASSUME TypeOK, NEW c \in Commands, JobView(c), KeyView(c), KeyPart,
           NEW p \in Projects, Found(c, p)
    PROVE  KeyPart' /\ KeyView(c)'
<1> DEFINE m == MachineOf[c]
           keys == job[c].keys
<1>1. /\ job[c].stage = "found" /\ creator' = [creator EXCEPT ![p] = keys]
      /\ home' = [home EXCEPT ![p] = m] /\ UNCHANGED <<key, minted>>
      /\ keys \in Seq(Nat) /\ Len(keys) = Len(KeyOrder)
  BY DEF Found, JobView, TypeOK, Jobs
<1>2. KeyView(c)'
  BY <1>1, FoundHolds, SameKeyView
<1>3. m \notin NativeStore => \A i \in DOMAIN keys : keys[i] = key[m][KeyOrder[i]]
  BY DEF KeyView
<1> HIDE DEF m, keys
<1>4. m \notin NativeStore => keys = [i \in 1..Len(KeyOrder) |-> key[m][KeyOrder[i]]]
  BY <1>1, <1>3
<1>5. CreatorKeepsItsKeys'
  <2> SUFFICES ASSUME NEW q \in Projects, home'[q] \notin NativeStore \cup {None}
               PROVE  creator'[q] = [i \in 1..Len(KeyOrder) |-> key'[home'[q]][KeyOrder[i]]]
    BY DEF CreatorKeepsItsKeys
  <2>1. CASE q = p
    BY <1>1, <1>4, <2>1 DEF TypeOK
  <2>2. CASE q # p
    BY <1>1, <2>2 DEF TypeOK, KeyPart, CreatorKeepsItsKeys
  <2> QED
    BY <2>1, <2>2
<1>6. KeysAreDistinct'
  BY <1>1 DEF KeyPart, KeysAreDistinct
<1> QED
  BY <1>2, <1>5, <1>6 DEF KeyPart

LEMMA CommandKeys ==
    ASSUME TypeOK, NEW c \in Commands, JobView(c), KeyView(c), BootView(c), KeyPart,
           LocatorView(MachineOf[c]), Command(c)
    PROVE  /\ KeyPart' /\ KeyView(c)'
           /\ \A m \in Machines \ {MachineOf[c]} : key'[m] = key[m] /\ minted'[m] = minted[m]
<1> DEFINE Goal == /\ KeyPart' /\ KeyView(c)'
                   /\ \A m \in Machines \ {MachineOf[c]} : key'[m] = key[m] /\ minted'[m] = minted[m]
<1>0. ASSUME UNCHANGED <<key, minted, creator, home>>, job'[c].keys \in {<<>>, job[c].keys},
             job'[c].stage \notin {"generate", "store"}
      PROVE  Goal
  BY <1>0, SameKeys, SameKeyView
<1>i. ASSUME UNCHANGED <<key, minted, creator, home>>, job'[c] = Idle PROVE Goal
  BY <1>0, <1>i, IdleJob
<1> SUFFICES Goal
  OBVIOUS
<1> HIDE DEF Goal
<1>1. CASE BeginInit(c)
  BY <1>0, <1>1, BeginInitHolds DEF BeginInit, history
<1>2. CASE \E p \in Projects : Found(c, p)
  <2>1. PICK p \in Projects : Found(c, p)
    BY <1>2
  <2> QED
    BY <2>1, FoundKeys DEF Found, Goal
<1>3. CASE LookForKey(c)
  BY <1>3, LookForKeyKeys DEF LookForKey, Goal
<1>4. CASE KeyChainRefuses(c)
  BY <1>4, KeyChainRefusesKeys DEF KeyChainRefuses, Goal
<1>5. CASE StoreNativeKey(c)
  BY <1>5, StoreNativeKeyKeys DEF Goal
<1>6. CASE CreateKeyFile(c)
  BY <1>6, CreateKeyFileKeys DEF Goal
<1>7. CASE WriteKeyFile(c)
  BY <1>7, WriteKeyFileKeys DEF Goal
<1>8. CASE BeginCommand(c, "open", None) \/ \E l \in Labels : BeginCommand(c, "add", l)
  <2>1. PICK command \in {"open", "add"}, about \in Topics :
          (command = "add" => about \in Labels) /\ BeginCommand(c, command, about)
    BY <1>8 DEF Topics
  <2> QED
    BY <1>0, <2>1, BeginCommandHolds DEF BeginCommand, history
<1>9. CASE Resolve(c)
  <2>1. UNCHANGED <<key, minted, creator, home>>
    BY <1>9 DEF Resolve, history
  <2>2. \/ End(c)
        \/ \E stage \in {"load", "fetch"} : To(c, stage)
    BY <1>9 DEF Resolve
  <2>3. CASE End(c)
    BY <1>i, <2>1, <2>3, EndHolds
  <2>4. CASE \E stage \in {"load", "fetch"} : To(c, stage)
    BY <1>0, <2>1, <2>4, ToHolds DEF Stages
  <2> QED
    BY <2>2, <2>3, <2>4
<1>10. CASE FetchFails(c) \/ OpenProject(c) \/ RequestToJoin(c) \/ ImportFails(c)
  BY <1>i, <1>10, EndsHold DEF history
<1>11. CASE Fetch(c)
  BY <1>0, <1>11, FetchHolds DEF Fetch, history
<1>12. CASE Bootstrapped(c)
  BY <1>0, <1>12, BootstrappedHolds DEF Bootstrapped, history
<1>13. CASE CheckOwner(c)
  BY <1>0, <1>13, CheckOwnerHolds DEF CheckOwner, history
<1>14. CASE \E e \in Environments : CreateEnvironment(c, e)
  BY <1>0, <1>i, <1>14, CreateEnvironmentHolds
<1>15. CASE job[c] = Idle /\ \E b \in Bundles : BeginJoin(c, b)
  BY <1>0, <1>15, BeginJoinHolds DEF BeginJoin, history
<1>16. CASE Step(c)
  BY <1>0, <1>i, <1>16, StepHolds DEF history
<1>17. CASE Written(c)
  BY <1>0, <1>17, WrittenHolds DEF Written, history
<1>18. CASE Crash(c)
  BY <1>i, <1>18, CrashHolds DEF history
<1> QED
  BY <1>1, <1>2, <1>3, <1>4, <1>5, <1>6, <1>7, <1>8, <1>9, <1>10, <1>11, <1>12, <1>13,
     <1>14, <1>15, <1>16, <1>17, <1>18 DEF Command, Goal

-----------------------------------------------------------------------------
(***************************************************************************)
(* Plans, locators and records.                                            *)
(***************************************************************************)
PlanPart ==
    /\ \A c \in Commands : PlanView(c) /\ BootView(c)
    /\ \A m \in Machines : LocatorView(m)
    /\ RecordsAreAtHome /\ HomeLabelsAreUnique /\ Undisturbed
    /\ ~MixedBundles => LocatorIsOfOneProject

LEMMA TailOfLateReset ==
    ASSUME NEW plan \in Seq(PlanSteps), plan # <<>>, ResetsLate(plan)
    PROVE  /\ ResetsLate(Tail(plan))
           /\ Head(plan).op = "reset" => \A step \in Range(Tail(plan)) : step.op # "write"
<1> DEFINE n == Len(plan)
           t == Tail(plan)
<1>1. /\ n \in Nat /\ n > 0 /\ DOMAIN plan = 1..n
      /\ DOMAIN t = 1..(n - 1)
      /\ \A i \in 1..(n - 1) : t[i] = plan[i + 1]
      /\ Head(plan) = plan[1]
  OBVIOUS
<1> HIDE DEF n, t
<1>2. ASSUME NEW i \in 1..(n - 1), NEW j \in 1..(n - 1), i < j, t[i].op = "reset"
      PROVE  t[j].op # "write"
  <2>1. i + 1 \in 1..n /\ j + 1 \in 1..n /\ i + 1 < j + 1
    BY <1>1, <1>2
  <2> QED
    BY <1>1, <1>2, <2>1 DEF ResetsLate
<1>3. ASSUME plan[1].op = "reset", NEW step \in Range(t) PROVE step.op # "write"
  <2>1. PICK i \in 1..(n - 1) : step = plan[i + 1]
    BY <1>1, <1>3 DEF Range
  <2>2. 1 \in 1..n /\ i + 1 \in 1..n /\ 1 < i + 1
    BY <1>1
  <2> QED
    BY <1>1, <1>3, <2>1, <2>2 DEF ResetsLate
<1> QED
  BY <1>1, <1>2, <1>3 DEF ResetsLate, t

(* What a step of a command leaves of what there is: a project keeps its   *)
(* home, an environment what it was made with, and a file that exists may  *)
(* be written or torn again and remains.                                   *)
Grows ==
    /\ \A p \in Projects : home[p] # None => home'[p] = home[p]
    /\ \A e \in Environments : made[e] # None => made'[e] = made[e]
    /\ \A m \in Machines : \A f : Exists(m, f) => Exists(m, f)'

Alone(c) == Others(c) /\ \A m \in Machines \ {MachineOf[c]} : SameMachine(m)

LEMMA HomeType ==
    ASSUME TypeOK, NEW p \in Projects, home[p] # None
    PROVE  home[p] \in Founders /\ home[p] \in Machines
  BY SetupAssumption DEF TypeOK

LEMMA MadeType ==
    ASSUME TypeOK, NEW e \in Environments, made[e] # None
    PROVE  made[e].project \in Projects /\ made[e].label \in Labels
  BY DEF TypeOK

(* A record of which there is a file was made. *)
LEMMA RecordsMade ==
    ASSUME RecordsAreAtHome, NEW m \in Machines, NEW e \in Environments, Exists(m, Environment(e))
    PROVE  made[e] # None
  BY DEF RecordsAreAtHome, Exists

\* the records of a machine whose files are the same
LEMMA SameRecords ==
    ASSUME RecordsAreAtHome, Grows, NEW m \in Machines, SameMachine(m), NEW p
    PROVE  /\ RecordsOf(m, p)' = RecordsOf(m, p)
           /\ \A e \in RecordsOf(m, p) : made'[e] = made[e]
<1>1. \A f : Exists(m, f)' <=> Exists(m, f)
  BY DEF SameMachine, Exists
<1>2. \A e \in Environments : Exists(m, Environment(e)) => made[e] # None /\ made'[e] = made[e]
  BY RecordsMade DEF Grows
<1>3. \A e \in Environments : Environment(e)' = Environment(e)
  OBVIOUS
<1> HIDE DEF Environment
<1>4. RecordsOf(m, p)' = {e \in Environments :
        (made'[e] # None /\ made'[e].project = p) /\ Exists(m, Environment(e))'}
  BY DEF RecordsOf, EnvironmentsOf
<1>5. RecordsOf(m, p) = {e \in Environments :
        (made[e] # None /\ made[e].project = p) /\ Exists(m, Environment(e))}
  BY DEF RecordsOf, EnvironmentsOf
<1> QED
  BY <1>1, <1>2, <1>4, <1>5

(* The other machines, and the commands there.                             *)
LEMMA OtherUpdatesFit ==
    ASSUME Grows, NEW d \in Commands, job'[d].plan = job[d].plan, SameMachine(MachineOf[d]), UpdatesFit(d)
    PROVE  UpdatesFit(d)'
  BY DEF UpdatesFit, Pending, Grows, SameMachine, HasLocator

LEMMA OtherRecordsFit ==
    ASSUME TypeOK, RecordsAreAtHome, Grows, NEW d \in Commands, job'[d].plan = job[d].plan,
           SameMachine(MachineOf[d]), RecordsFit(d)
    PROVE  RecordsFit(d)'
<1> DEFINE m == MachineOf[d]
<1>1. Pending(d)' = Pending(d)
  BY DEF Pending
<1> SUFFICES ASSUME NEW e \in Environments, Write(Environment(e)) \in Pending(d)
             PROVE  /\ made'[e] # None
                    /\ \A p \in Projects, h \in Machines : made'[e].project = p /\ home'[p] = h =>
                         IF h = m THEN \A f \in RecordsOf(m, p)' \ {e} :
                                         made'[f].label # made'[e].label
                         ELSE Exists(h, Environment(e))'
  BY <1>1 DEF RecordsFit
<1>2. made[e] # None /\ made'[e] = made[e]
  BY DEF RecordsFit, Grows
<1>3. ASSUME NEW p \in Projects, NEW h \in Machines, made'[e].project = p, home'[p] = h
      PROVE  IF h = m THEN \A f \in RecordsOf(m, p)' \ {e} : made'[f].label # made'[e].label
             ELSE Exists(h, Environment(e))'
  <2>1. made[e].project = p /\ home[p] = h
    BY <1>2, <1>3 DEF RecordsAreAtHome, Grows
  <2>2. IF h = m THEN \A f \in RecordsOf(m, p) \ {e} : made[f].label # made[e].label
        ELSE Exists(h, Environment(e))
    BY <2>1 DEF RecordsFit
  <2>3. RecordsOf(m, p)' = RecordsOf(m, p) /\ \A f \in RecordsOf(m, p) : made'[f] = made[f]
    BY MachineType, SameRecords
  <2>4. Exists(h, Environment(e)) => Exists(h, Environment(e))'
    BY DEF Grows, Environment
  <2> QED
    BY <1>2, <2>2, <2>3, <2>4
<1> QED
  BY <1>2, <1>3

LEMMA OtherFounderPlan ==
    ASSUME Grows, NEW d \in Commands, job'[d].plan = job[d].plan, SameMachine(MachineOf[d]), FounderPlan(d)
    PROVE  FounderPlan(d)'
<1> DEFINE m == MachineOf[d]
<1>1. Pending(d)' = Pending(d) /\ whole'[m] = whole[m]
  BY DEF Pending, SameMachine
<1>2. Listed(m)' = Listed(m) /\ (HasLocator(m)' <=> HasLocator(m))
  BY DEF SameMachine, Listed, HasLocator
<1>3. m # None
  BY MachineType, MarksAssumption
<1>4. \A p \in Projects : home[p] = m => home'[p] = m
  BY <1>3 DEF Grows
<1> QED
  BY <1>1, <1>2, <1>4 DEF FounderPlan, Comes

LEMMA OtherBootView ==
    ASSUME TypeOK, Grows, NEW d \in Commands, job'[d] = job[d], SameMachine(MachineOf[d]),
           JobView(d), UpdatesFit(d), LocatorView(MachineOf[d]), BootView(d)
    PROVE  BootView(d)'
<1> SUFFICES ASSUME job[d].stage = "bootstrap" PROVE BootView(d)'
  BY DEF BootView
<1> DEFINE m == MachineOf[d]
           read == job[d].about.read
           left == {e \in Environments : Upsert(e) \in Pending(d)}
<1>1. Pending(d)' = Pending(d) /\ job'[d] = job[d]
      /\ whole'[m] = whole[m] /\ locator'[m] = locator[m]
  BY DEF Pending, SameMachine
<1>2. /\ locator[m].project = read.project
      /\ Comes(d, Metadata(read.project))
      /\ \A e, f \in read.environments : e # f => made[e].label # made[f].label
      /\ \A p \in Projects : ResetLocator(p) \in Pending(d) => p = read.project
      /\ IF ResetLocator(read.project) \in Pending(d) THEN left = read.environments
         ELSE left \cup locator[m].environments = read.environments
  BY DEF BootView
<1>3. \A e \in left : e \in Environments /\ made[e] # None
  BY DEF UpdatesFit
<1>4. \A e \in locator[m].environments : e \in Environments /\ made[e] # None
  BY MachineType, LocatorType DEF LocatorView, JobView
<1>5. \A e \in read.environments : e \in Environments /\ made'[e] = made[e]
  BY <1>2, <1>3, <1>4 DEF Grows
<1>6. \A e, f \in read.environments : e # f => made'[e].label # made'[f].label
  BY <1>2, <1>5
<1> QED
  BY <1>1, <1>2, <1>6 DEF BootView, Comes

LEMMA OtherLocatorView ==
    ASSUME TypeOK, Grows, NEW m \in Machines, SameMachine(m), LocatorView(m)
    PROVE  /\ LocatorView(m)'
           /\ HasLocator(m) => \A e \in locator[m].environments : made'[e] = made[e]
<1>1. locator'[m] = locator[m] /\ whole'[m] = whole[m] /\ Listed(m)' = Listed(m)
      /\ (HasLocator(m)' <=> HasLocator(m))
  BY DEF SameMachine, Listed, HasLocator
<1>2. ASSUME HasLocator(m)
      PROVE  /\ home'[locator[m].project] = home[locator[m].project]
             /\ home[locator[m].project] # None
             /\ \A e \in locator[m].environments : made'[e] = made[e] /\ made[e] # None
  BY <1>2, LocatorType DEF LocatorView, Grows
<1> QED
  BY <1>1, <1>2 DEF LocatorView

LEMMA OtherPlanView ==
    ASSUME TypeOK, RecordsAreAtHome, Grows, NEW d \in Commands, job'[d].plan = job[d].plan,
           SameMachine(MachineOf[d]), PlanView(d)
    PROVE  PlanView(d)'
<1>1. UpdatesFit(d)' /\ RecordsFit(d)' /\ (MachineOf[d] \in Founders => FounderPlan(d)')
  BY OtherUpdatesFit, OtherRecordsFit, OtherFounderPlan DEF PlanView
<1>2. Ordered(job[d].plan)' /\ Completed(job[d].plan)'
  BY DEF PlanView, Ordered, Completed
<1>3. Pending(d)' = Pending(d)
  BY DEF Pending
<1>4. \A p \in Projects : ResetLocator(p) \in Pending(d) => home'[p] # None
  BY DEF PlanView, Grows
<1> QED
  BY <1>1, <1>2, <1>3, <1>4 DEF PlanView

(* What a step of one command leaves of the others and their machines.     *)
LEMMA OthersKeep ==
    ASSUME OneCommandPerMachine, TypeOK, \A d \in Commands : JobView(d), PlanPart, Grows,
           NEW c \in Commands, Alone(c)
    PROVE  /\ \A d \in Commands \ {c} : PlanView(d)' /\ BootView(d)'
           /\ \A m \in Machines \ {MachineOf[c]} :
                /\ LocatorView(m)'
                /\ HasLocator(m) => \A e \in locator[m].environments : made'[e] = made[e]
<1>1. ASSUME NEW d \in Commands \ {c} PROVE PlanView(d)' /\ BootView(d)'
  <2>1. MachineOf[d] \in Machines /\ MachineOf[d] # MachineOf[c]
    BY MachineType DEF OneCommandPerMachine
  <2>2. job'[d] = job[d] /\ SameMachine(MachineOf[d])
    BY <2>1 DEF Alone, Others
  <2>3. PlanView(d) /\ BootView(d) /\ LocatorView(MachineOf[d]) /\ JobView(d) /\ RecordsAreAtHome
    BY <2>1 DEF PlanPart
  <2>4. UpdatesFit(d)
    BY <2>3 DEF PlanView
  <2> QED
    BY <2>2, <2>3, <2>4, OtherPlanView, OtherBootView
<1>2. ASSUME NEW m \in Machines \ {MachineOf[c]}
      PROVE  /\ LocatorView(m)'
             /\ HasLocator(m) => \A e \in locator[m].environments : made'[e] = made[e]
  BY OtherLocatorView DEF PlanPart, Alone
<1> QED
  BY <1>1, <1>2

(* Records of environments that are made, where no environment is made.    *)
LEMMA RecordsStayAtHome ==
    ASSUME TypeOK, RecordsAreAtHome, Grows, UNCHANGED <<home, made>>,
           \A e \in Environments :
             Environment(e) \in relay' \cup UNION {whole'[m] \cup torn'[m] : m \in Machines} =>
               \/ Environment(e) \in relay \cup UNION {whole[m] \cup torn[m] : m \in Machines}
               \/ /\ made[e] # None
                  /\ \A p \in Projects, m \in Machines : made[e].project = p /\ home[p] = m =>
                       Exists(m, Environment(e))'
    PROVE  RecordsAreAtHome'
<1> SUFFICES ASSUME NEW e \in Environments,
                    Environment(e) \in relay' \cup UNION {whole'[m] \cup torn'[m] : m \in Machines}
             PROVE  /\ made[e] # None
                    /\ \A p \in Projects, m \in Machines : made[e].project = p /\ home[p] = m =>
                         Exists(m, Environment(e))'
  BY DEF RecordsAreAtHome
<1>1. CASE Environment(e) \in relay \cup UNION {whole[m] \cup torn[m] : m \in Machines}
  <2>1. /\ made[e] # None
        /\ \A p \in Projects, m \in Machines : made[e].project = p /\ home[p] = m =>
             Exists(m, Environment(e))
    BY <1>1 DEF RecordsAreAtHome
  <2>2. \A m \in Machines : Exists(m, Environment(e)) => Exists(m, Environment(e))'
    BY DEF Grows, Environment
  <2> QED
    BY <2>1, <2>2
<1> QED
  BY <1>1

LEMMA EmptyPlanView ==
    ASSUME NEW c \in Commands, job'[c].plan = <<>>
    PROVE  PlanView(c)'
<1>1. Pending(c)' = {} /\ Ordered(job'[c].plan) /\ Completed(job'[c].plan)
  BY EmptyPlan DEF Pending
<1>2. ResetsLate(job'[c].plan)
  BY DEF ResetsLate
<1>3. UpdatesFit(c)' /\ RecordsFit(c)'
  BY <1>1 DEF UpdatesFit, RecordsFit
<1>4. FounderPlan(c)'
  BY <1>1, <1>2 DEF FounderPlan
<1> QED
  BY <1>1, <1>3, <1>4 DEF PlanView

(* A step in which a command drops its plan, or has none.                  *)
Drops(c) ==
    /\ UNCHANGED <<files, relay, home, made>> /\ Others(c)
    /\ job'[c].stage # "bootstrap"
    /\ job'[c].plan \in {job[c].plan, <<>>}
    /\ faults' = 0 =>
         faults = 0 /\ (job'[c].plan = job[c].plan \/ \A f : Write(f) \notin Pending(c))

LEMMA UnchangedGrows ==
    ASSUME UNCHANGED <<files, home, made>>
    PROVE  Grows /\ \A m \in Machines : SameMachine(m)
  BY DEF Grows, SameMachine, files, Exists

LEMMA DropsKeep ==
    ASSUME OneCommandPerMachine, TypeOK, \A d \in Commands : JobView(d), PlanPart,
           NEW c \in Commands, Drops(c)
    PROVE  PlanPart'
<1>1. /\ UNCHANGED <<files, relay, home, made>> /\ Others(c)
      /\ job'[c].stage # "bootstrap" /\ job'[c].plan \in {job[c].plan, <<>>}
      /\ faults' = 0 =>
           faults = 0 /\ (job'[c].plan = job[c].plan \/ \A f : Write(f) \notin Pending(c))
  BY DEF Drops
<1>2. Grows /\ \A m \in Machines : SameMachine(m)
  BY <1>1, UnchangedGrows
<1>3. MachineOf[c] \in Machines
  BY MachineType
<1>4. \A d \in Commands \ {c} : PlanView(d)' /\ BootView(d)'
  BY <1>1, <1>2, OthersKeep DEF Alone
<1>5. PlanView(c)' /\ BootView(c)'
  <2>1. PlanView(c) /\ RecordsAreAtHome
    BY DEF PlanPart
  <2>2. PlanView(c)'
    BY <1>1, <1>2, <1>3, <2>1, OtherPlanView, EmptyPlanView
  <2> QED
    BY <1>1, <2>2 DEF BootView
<1>6. \A m \in Machines : LocatorView(m)'
  BY <1>2, OtherLocatorView DEF PlanPart
<1>7. RecordsAreAtHome' /\ HomeLabelsAreUnique' /\ (~MixedBundles => LocatorIsOfOneProject')
  BY <1>1 DEF PlanPart, RecordsAreAtHome, HomeLabelsAreUnique, LocatorIsOfOneProject, Exists,
     RecordsOf, EnvironmentsOf, files
<1>8. Undisturbed'
  <2> SUFFICES ASSUME faults' = 0, NEW m \in Machines
               PROVE  /\ torn'[m] = {}
                      /\ \A pair \in Partner : pair[1] \in whole'[m] =>
                           \/ pair[2] \in whole'[m]
                           \/ \E d \in Commands : MachineOf[d] = m /\ Write(pair[2]) \in Pending(d)'
    BY DEF Undisturbed
  <2>1. /\ torn[m] = {}
        /\ \A pair \in Partner : pair[1] \in whole[m] =>
             \/ pair[2] \in whole[m]
             \/ \E d \in Commands : MachineOf[d] = m /\ Write(pair[2]) \in Pending(d)
    BY <1>1 DEF PlanPart, Undisturbed
  <2>2. ASSUME NEW f, NEW d \in Commands, Write(f) \in Pending(d) PROVE Write(f) \in Pending(d)'
    BY <1>1, <2>2 DEF Pending, Others
  <2> QED
    BY <1>1, <2>1, <2>2 DEF files
<1> QED
  BY <1>4, <1>5, <1>6, <1>7, <1>8 DEF PlanPart

(***************************************************************************)
(* A file is written or torn.                                              *)
(***************************************************************************)
Touches(m, f) ==
    /\ \A n \in Machines \ {m} : SameMachine(n)
    /\ locator' = locator
    /\ \A g : Exists(m, g)' <=> (Exists(m, g) \/ g = f)

LEMMA TouchesHolds ==
    ASSUME TypeOK, NEW m \in Machines, NEW f \in Files, Stores(m, f) \/ Tears(m, f)
    PROVE  Touches(m, f)
<1>1. CASE Stores(m, f)
  <2>1. /\ whole'[m] = whole[m] \cup {f} /\ torn'[m] = torn[m] \ {f} /\ locator' = locator
        /\ \A n \in Machines \ {m} : SameMachine(n)
    BY <1>1 DEF Stores, TypeOK, SameMachine
  <2> QED
    BY <2>1 DEF Touches, Exists
<1>2. CASE Tears(m, f)
  <2>1. /\ whole'[m] = whole[m] \ {f} /\ torn'[m] = torn[m] \cup {f} /\ locator' = locator
        /\ \A n \in Machines \ {m} : SameMachine(n)
    BY <1>2 DEF Tears, TypeOK, SameMachine
  <2> QED
    BY <2>1 DEF Touches, Exists
<1> QED
  BY <1>1, <1>2

LEMMA TouchedRecords ==
    ASSUME TypeOK, RecordsAreAtHome, HomeLabelsAreUnique, NEW c \in Commands, RecordsFit(c),
           NEW f \in Files, Write(f) \in Pending(c) \/ \A e : f # Environment(e),
           Touches(MachineOf[c], f), UNCHANGED <<relay, home, made>>
    PROVE  /\ Grows /\ RecordsAreAtHome' /\ HomeLabelsAreUnique'
           /\ \A p : \A e \in RecordsOf(MachineOf[c], p)' :
                e \in RecordsOf(MachineOf[c], p) \/ f = Environment(e)
<1> DEFINE m == MachineOf[c]
<1>1. m \in Machines
  BY MachineType
<1>2. Grows
  BY DEF Touches, Grows, SameMachine, Exists
<1>3. \A n \in Machines : \A g : Exists(n, g)' => Exists(n, g) \/ (n = m /\ g = f)
  BY DEF Touches, SameMachine, Exists
<1>4. ASSUME NEW e \in Environments, f = Environment(e)
      PROVE  /\ made[e] # None
             /\ \A p \in Projects, h \in Machines : made[e].project = p /\ home[p] = h =>
                  IF h = m THEN \A g \in RecordsOf(m, p) \ {e} : made[g].label # made[e].label
                  ELSE Exists(h, Environment(e))
  BY <1>4 DEF RecordsFit
<1>5. RecordsAreAtHome'
  <2> SUFFICES ASSUME NEW e \in Environments,
                      Environment(e) \in relay' \cup UNION {whole'[n] \cup torn'[n] : n \in Machines}
               PROVE  \/ Environment(e) \in relay \cup UNION {whole[n] \cup torn[n] : n \in Machines}
                      \/ /\ made[e] # None
                         /\ \A p \in Projects, h \in Machines : made[e].project = p /\ home[p] = h =>
                              Exists(h, Environment(e))'
    BY <1>2, RecordsStayAtHome
  <2>1. CASE Environment(e) \in relay
    BY <2>1
  <2>2. CASE \E n \in Machines : Exists(n, Environment(e))'
    <3>1. PICK n \in Machines : Exists(n, Environment(e))'
      BY <2>2
    <3>2. CASE Exists(n, Environment(e))
      BY <3>2 DEF Exists
    <3>3. CASE f = Environment(e)
      <4>1. ASSUME NEW p \in Projects, NEW h \in Machines, made[e].project = p, home[p] = h
            PROVE  Exists(h, Environment(e))'
        <5>1. h = m \/ Exists(h, Environment(e))
          BY <1>4, <3>3, <4>1
        <5>2. Exists(m, f)'
          BY DEF Touches
        <5>3. Exists(h, Environment(e)) => Exists(h, Environment(e))'
          BY <1>2 DEF Grows, Environment
        <5> QED
          BY <3>3, <5>1, <5>2, <5>3 DEF Environment, Exists
      <4> QED
        BY <1>4, <3>3, <4>1
    <3>4. Exists(n, Environment(e)) \/ f = Environment(e)
      BY <1>3, <3>1 DEF Exists, Environment
    <3> QED
      BY <3>2, <3>3, <3>4
  <2> QED
    BY <2>1, <2>2 DEF Exists
<1>6. ASSUME NEW n \in Machines, NEW p, NEW e \in RecordsOf(n, p)'
      PROVE  /\ e \in Environments /\ made[e] # None /\ made[e].project = p
             /\ e \in RecordsOf(n, p) \/ (n = m /\ f = Environment(e))
  <2>1. e \in Environments /\ made[e] # None /\ made[e].project = p /\ Exists(n, Environment(e))'
    BY <1>6 DEF RecordsOf, EnvironmentsOf
  <2>2. Exists(n, Environment(e)) \/ (n = m /\ f = Environment(e))
    BY <1>3, <2>1 DEF Exists, Environment
  <2> QED
    BY <2>1, <2>2 DEF RecordsOf, EnvironmentsOf
<1>7. HomeLabelsAreUnique'
  <2> SUFFICES ASSUME NEW p \in Projects, NEW n \in Machines, home[p] = n,
                      NEW d \in RecordsOf(n, p)', NEW e \in RecordsOf(n, p)', d # e
               PROVE  made[d].label # made[e].label
    BY DEF HomeLabelsAreUnique
  <2>0. Environment(d) # Environment(e)
    BY FilesDiffer
  <2>1. CASE d \in RecordsOf(n, p) /\ e \in RecordsOf(n, p)
    BY <2>1 DEF HomeLabelsAreUnique
  <2>2. CASE n = m /\ f = Environment(d)
    <3>1. e \in RecordsOf(n, p)
      BY <1>6, <2>0, <2>2
    <3> QED
      BY <1>4, <1>6, <2>2, <3>1
  <2>3. CASE n = m /\ f = Environment(e)
    <3>1. d \in RecordsOf(n, p)
      BY <1>6, <2>0, <2>3
    <3> QED
      BY <1>4, <1>6, <2>3, <3>1
  <2> QED
    BY <1>6, <2>1, <2>2, <2>3
<1> QED
  BY <1>1, <1>2, <1>5, <1>6, <1>7

(* A crash leaves an empty plan, and no locator that stands for what it    *)
(* tore.                                                                   *)
LEMMA CrashKeeps ==
    ASSUME OneCommandPerMachine, TypeOK, \A d \in Commands : JobView(d), PlanPart,
           NEW c \in Commands, Crash(c)
    PROVE  PlanPart'
<1> DEFINE m == MachineOf[c]
           step == Head(job[c].plan)
<1>1. /\ Others(c) /\ job'[c] = Idle /\ UNCHANGED <<relay, home, made>>
      /\ faults' # 0
      /\ \/ UNCHANGED files
         \/ /\ job[c].plan # <<>> /\ job[c].plan \in Seq(PlanSteps) /\ step \in PlanSteps
            /\ TornBy(m, step)
  <2>1. /\ job' \in [Commands -> Jobs] /\ Others(c) /\ job'[c] = Idle
        /\ UNCHANGED <<key, minted, relay, history>> /\ faults' = faults + 1
        /\ \/ UNCHANGED files
           \/ /\ job[c].plan # <<>> /\ job[c].plan \in Seq(PlanSteps) /\ step \in PlanSteps
              /\ TornBy(m, step)
    BY CrashHolds
  <2>2. faults \in Nat
    BY SetupAssumption DEF TypeOK
  <2> QED
    BY <2>1, <2>2 DEF history
<1>2. job'[c].plan = <<>> /\ job'[c].stage # "bootstrap"
  BY <1>1, IdleJob
<1>3. m \in Machines
  BY MachineType
<1>4. PlanView(c)' /\ BootView(c)'
  BY <1>2, EmptyPlanView DEF BootView
<1>5. Undisturbed'
  BY <1>1 DEF Undisturbed
<1>6. CASE UNCHANGED files
  BY <1>1, <1>2, <1>6, DropsKeep DEF Drops
<1>7. CASE /\ job[c].plan # <<>> /\ job[c].plan \in Seq(PlanSteps) /\ step \in PlanSteps
           /\ TornBy(m, step) /\ ~UNCHANGED files
  <2>1. step \in Pending(c)
    BY <1>7, TailOfPlan DEF Pending
  <2>2. PlanView(c) /\ LocatorView(m)
    BY <1>3 DEF PlanPart
  <2> HIDE DEF m, step
  <2>3. ASSUME NEW f \in Files, Tears(m, f), step = Write(f) \/ \E p \in Projects :
                 step = ImportMembership(p) /\ f = Membership(p)
        PROVE  PlanPart'
    <3>1. Touches(m, f)
      BY <1>3, <2>3, TouchesHolds
    <3>2. Grows /\ RecordsAreAtHome' /\ HomeLabelsAreUnique'
      <4>1. Write(f) \in Pending(c) \/ \A e : f # Environment(e)
        BY <2>1, <2>3, FilesDiffer
      <4> QED
        BY <1>1, <2>2, <3>1, <4>1, TouchedRecords DEF PlanPart, PlanView, m
    <3>3. Alone(c)
      BY <1>1, <3>1 DEF Alone, Touches, m
    <3>4. /\ \A d \in Commands \ {c} : PlanView(d)' /\ BootView(d)'
          /\ \A n \in Machines \ {m} : LocatorView(n)'
      BY <3>2, <3>3, OthersKeep DEF m
    <3>5. LocatorView(m)'
      <4>1. locator' = locator /\ whole'[m] = whole[m] \ {f}
        BY <1>3, <2>3 DEF Tears, TypeOK
      <4>2. HasLocator(m) /\ m \in Founders => f \notin Listed(m)
        <5>1. m \in Founders => FounderPlan(c)
          BY <2>2 DEF PlanView, m
        <5> QED
          BY <2>1, <2>3, <5>1 DEF FounderPlan, m
      <4>3. Listed(m)' = Listed(m) /\ (HasLocator(m)' <=> HasLocator(m))
        BY <4>1 DEF Listed, HasLocator
      <4> QED
        BY <1>1, <2>2, <4>1, <4>2, <4>3 DEF LocatorView
    <3>6. ~MixedBundles => LocatorIsOfOneProject'
      BY <1>1, <3>1 DEF PlanPart, LocatorIsOfOneProject, Touches
    <3> QED
      BY <1>4, <1>5, <3>2, <3>4, <3>5, <3>6 DEF PlanPart
  <2>4. ASSUME Enters(m, Torn) PROVE PlanPart'
    <3>1. /\ locator' = [locator EXCEPT ![m] = Torn] /\ whole' = whole /\ torn' = torn
      BY <2>4 DEF Enters
    <3>2. locator'[m] = Torn /\ \A n \in Machines \ {m} : SameMachine(n)
      BY <1>3, <3>1 DEF TypeOK, SameMachine
    <3>3. Grows
      BY <1>1, <3>1 DEF Grows, Exists
    <3>4. /\ \A d \in Commands \ {c} : PlanView(d)' /\ BootView(d)'
          /\ \A n \in Machines \ {m} : LocatorView(n)'
      BY <1>1, <3>2, <3>3, OthersKeep DEF Alone, m
    <3>5. LocatorView(m)'
      BY <3>2 DEF LocatorView, HasLocator
    <3>6. RecordsAreAtHome' /\ HomeLabelsAreUnique'
      BY <1>1, <3>1 DEF PlanPart, RecordsAreAtHome, HomeLabelsAreUnique, Exists, RecordsOf,
         EnvironmentsOf
    <3>7. ~MixedBundles => LocatorIsOfOneProject'
      BY <1>1, <3>2 DEF PlanPart, LocatorIsOfOneProject, SameMachine
    <3> QED
      BY <1>4, <1>5, <3>4, <3>5, <3>6, <3>7 DEF PlanPart
  <2>5. \A p \in Projects : Membership(p) \in Files
    BY Steps
  <2> QED
    BY <1>7, <2>3, <2>4, <2>5 DEF TornBy
<1> QED
  BY <1>1, <1>6, <1>7

(***************************************************************************)
(* A step of a plan is made.                                               *)
(***************************************************************************)
Takes(c, step) ==
    /\ Others(c) /\ UNCHANGED <<relay, home, made, faults>>
    /\ job'[c].stage = job[c].stage /\ job'[c].about = job[c].about
    /\ step \in PlanSteps
    /\ Pending(c) = {step} \cup Pending(c)'
    /\ \A next \in Pending(c)' : MayFollow(step, next)
    /\ \A pair \in Partner : step = Write(pair[1]) => Write(pair[2]) \in Pending(c)'
    /\ Ordered(job'[c].plan) /\ Completed(job'[c].plan)
    /\ MachineOf[c] \in Founders =>
         /\ ResetsLate(job'[c].plan)
         /\ step.op = "reset" => \A next \in Pending(c)' : next.op # "write"

LEMMA TakesHolds ==
    ASSUME NEW c \in Commands, PlanView(c), job[c].plan \in Seq(PlanSteps), job[c].plan # <<>>,
           Others(c), UNCHANGED <<relay, home, made, faults>>,
           job'[c].stage = job[c].stage, job'[c].about = job[c].about,
           job'[c].plan = Tail(job[c].plan)
    PROVE  Takes(c, Head(job[c].plan))
<1> DEFINE plan == job[c].plan
           t == Tail(plan)
           step == Head(plan)
<1>1. Ordered(plan) /\ Completed(plan) /\ (MachineOf[c] \in Founders => ResetsLate(plan))
  BY DEF PlanView, FounderPlan
<1>2. /\ step \in PlanSteps /\ Range(plan) = {step} \cup Range(t)
      /\ Ordered(t) /\ Completed(t)
      /\ \A next \in Range(t) : MayFollow(step, next)
      /\ \A pair \in Partner : step = Write(pair[1]) => Write(pair[2]) \in Range(t)
  BY <1>1, TailOfPlan
<1>3. MachineOf[c] \in Founders =>
        /\ ResetsLate(t)
        /\ step.op = "reset" => \A next \in Range(t) : next.op # "write"
  BY <1>1, TailOfLateReset
<1>4. Pending(c) = Range(plan) /\ Pending(c)' = Range(t)
  BY DEF Pending
<1> HIDE DEF t, step, plan
<1>5. job'[c].plan = t
  BY DEF t, plan
<1>6. Takes(c, step)
  BY <1>2, <1>3, <1>4, <1>5 DEF Takes
<1> QED
  BY <1>6 DEF step, plan

LEMMA TakenRecordsFit ==
    ASSUME TypeOK, NEW c \in Commands, PlanView(c), NEW step, Takes(c, step), Grows,
           \A p : \A e \in RecordsOf(MachineOf[c], p)' :
             e \in RecordsOf(MachineOf[c], p) \/ step = Write(Environment(e))
    PROVE  RecordsFit(c)'
<1> DEFINE m == MachineOf[c]
<1>1. RecordsFit(c) /\ (m \in Founders => FounderPlan(c))
  BY DEF PlanView
<1>2. made' = made /\ home' = home /\ Pending(c) = {step} \cup Pending(c)'
  BY DEF Takes
<1> SUFFICES ASSUME NEW e \in Environments, Write(Environment(e)) \in Pending(c)'
             PROVE  /\ made[e] # None
                    /\ \A p \in Projects, h \in Machines : made[e].project = p /\ home[p] = h =>
                         IF h = m THEN \A f \in RecordsOf(m, p)' \ {e} : made[f].label # made[e].label
                         ELSE Exists(h, Environment(e))'
  BY <1>2 DEF RecordsFit
<1>3. Write(Environment(e)) \in Pending(c)
  BY <1>2
<1>4. /\ made[e] # None
      /\ \A p \in Projects, h \in Machines : made[e].project = p /\ home[p] = h =>
           IF h = m THEN \A f \in RecordsOf(m, p) \ {e} : made[f].label # made[e].label
           ELSE Exists(h, Environment(e))
  BY <1>1, <1>3 DEF RecordsFit
<1>5. ASSUME NEW p \in Projects, home[p] = m, NEW f \in RecordsOf(m, p)' \ {e}
      PROVE  f \in RecordsOf(m, p)
  <2>1. m \in Founders
    BY <1>5, HomeType, MachineType, MarksAssumption
  <2>2. f \in Environments
    BY <1>5 DEF RecordsOf, EnvironmentsOf
  <2>3. ASSUME step = Write(Environment(f)) PROVE f = e
    <3>1. Write(Environment(f)) \in Pending(c)
      BY <1>2, <2>3
    <3> QED
      BY <1>1, <1>3, <2>1, <2>2, <3>1 DEF FounderPlan
  <2> QED
    BY <1>5, <2>3
<1>6. \A h \in Machines : Exists(h, Environment(e)) => Exists(h, Environment(e))'
  BY DEF Grows, Environment
<1> QED
  BY <1>4, <1>5, <1>6

LEMMA TakenFounderPlan ==
    ASSUME NEW c \in Commands, NEW step, Takes(c, step), FounderPlan(c),
           MachineOf[c] \in Founders,
           \A f : Comes(c, f) => f \in whole'[MachineOf[c]] \/ Write(f) \in Pending(c)',
           HasLocator(MachineOf[c])' =>
             \A f \in Listed(MachineOf[c])' : Write(f) \notin Pending(c)'
    PROVE  FounderPlan(c)'
<1>1. /\ ResetsLate(job'[c].plan) /\ home' = home
      /\ \A s : s \in Pending(c)' => s \in Pending(c)
  BY DEF Takes
<1> QED
  BY <1>1 DEF FounderPlan, Comes

LEMMA TakenUndisturbed ==
    ASSUME OneCommandPerMachine, Undisturbed, NEW c \in Commands, NEW step, Takes(c, step),
           \A n \in Machines \ {MachineOf[c]} : SameMachine(n),
           torn'[MachineOf[c]] \subseteq torn[MachineOf[c]],
           \A pair \in Partner : pair[1] \in whole'[MachineOf[c]] =>
             pair[1] \in whole[MachineOf[c]] \/ step = Write(pair[1]),
           \A f : Comes(c, f) => f \in whole'[MachineOf[c]] \/ Write(f) \in Pending(c)'
    PROVE  Undisturbed'
<1> DEFINE m == MachineOf[c]
<1> SUFFICES ASSUME faults = 0, NEW n \in Machines
             PROVE  /\ torn'[n] = {}
                    /\ \A pair \in Partner : pair[1] \in whole'[n] =>
                         \/ pair[2] \in whole'[n]
                         \/ \E d \in Commands : MachineOf[d] = n /\ Write(pair[2]) \in Pending(d)'
  BY DEF Undisturbed, Takes
<1>1. /\ torn[n] = {}
      /\ \A pair \in Partner : pair[1] \in whole[n] =>
           \/ pair[2] \in whole[n]
           \/ \E d \in Commands : MachineOf[d] = n /\ Write(pair[2]) \in Pending(d)
  BY DEF Undisturbed
<1>2. \A d \in Commands \ {c} : Pending(d)' = Pending(d) /\ MachineOf[d] # m
  BY DEF Takes, Others, Pending, OneCommandPerMachine
<1>3. CASE n # m
  <2>1. torn'[n] = torn[n] /\ whole'[n] = whole[n]
    BY <1>3 DEF SameMachine
  <2> QED
    BY <1>1, <1>2, <1>3, <2>1
<1>4. CASE n = m
  <2>1. torn'[n] = {}
    BY <1>1, <1>4
  <2>2. ASSUME NEW pair \in Partner, pair[1] \in whole'[n]
        PROVE  pair[2] \in whole'[n] \/ Write(pair[2]) \in Pending(c)'
    <3>1. CASE pair[1] \in whole[n]
      <4>1. Comes(c, pair[2])
        BY <1>1, <1>2, <1>4, <3>1 DEF Comes
      <4> QED
        BY <1>4, <4>1
    <3>2. CASE step = Write(pair[1])
      BY <3>2 DEF Takes
    <3> QED
      BY <1>4, <2>2, <3>1, <3>2
  <2> QED
    BY <1>4, <2>1, <2>2
<1> QED
  BY <1>3, <1>4

(* A step that leaves the locator alone: a file is stored, or nothing.     *)
LEMMA StoreKeeps ==
    ASSUME OneCommandPerMachine, TypeOK, \A d \in Commands : JobView(d), PlanPart,
           NEW c \in Commands, NEW step, Takes(c, step),
           \/ \E f \in Files : step = Write(f) /\ Stores(MachineOf[c], f)
           \/ \E p \in Projects : /\ step = ImportMembership(p)
                                  /\ Stores(MachineOf[c], Membership(p)) \/ UNCHANGED files
    PROVE  PlanPart'
<1> DEFINE m == MachineOf[c]
<1>1. /\ Others(c) /\ UNCHANGED <<relay, home, made, faults>>
      /\ job'[c].stage = job[c].stage /\ job'[c].about = job[c].about
      /\ Pending(c) = {step} \cup Pending(c)'
      /\ Ordered(job'[c].plan) /\ Completed(job'[c].plan)
  BY DEF Takes
<1>2. m \in Machines /\ PlanView(c) /\ BootView(c) /\ LocatorView(m) /\ RecordsAreAtHome
      /\ HomeLabelsAreUnique /\ Undisturbed
  BY MachineType DEF PlanPart
<1>3. UpdatesFit(c) /\ RecordsFit(c) /\ (m \in Founders => FounderPlan(c))
  BY <1>2 DEF PlanView
<1> HIDE DEF m
<1>4. /\ step.op \notin {"reset", "upsert"} /\ \A e : step # Upsert(e) /\ step # ResetLocator(e)
  BY StepsDiffer
<1> DEFINE Stored ==
             /\ Grows /\ RecordsAreAtHome' /\ HomeLabelsAreUnique' /\ locator' = locator
             /\ \A n \in Machines \ {m} : SameMachine(n)
             /\ whole[m] \subseteq whole'[m] /\ torn'[m] \subseteq torn[m]
             /\ \A f : step = Write(f) => f \in whole'[m]
             /\ \A pair \in Partner : pair[1] \in whole'[m] =>
                  pair[1] \in whole[m] \/ step = Write(pair[1])
             /\ \A p : \A e \in RecordsOf(m, p)' : e \in RecordsOf(m, p) \/ step = Write(Environment(e))
<1>5. Stored
  <2>1. ASSUME NEW f \in Files, step = Write(f), Stores(m, f)
        PROVE  Stored
    <3>1. Touches(m, f) /\ whole'[m] = whole[m] \cup {f} /\ torn'[m] = torn[m] \ {f}
      BY <1>2, <2>1, TouchesHolds DEF Stores, TypeOK
    <3>2. Write(f) \in Pending(c)
      BY <1>1, <2>1
    <3>3. /\ Grows /\ RecordsAreAtHome' /\ HomeLabelsAreUnique'
          /\ \A p : \A e \in RecordsOf(m, p)' : e \in RecordsOf(m, p) \/ f = Environment(e)
      BY <1>1, <1>2, <1>3, <2>1, <3>1, <3>2, TouchedRecords DEF m
    <3> QED
      BY <2>1, <3>1, <3>3, StepsDiffer DEF Touches
  <2>2. ASSUME NEW p \in Projects, step = ImportMembership(p), Stores(m, Membership(p))
        PROVE  Stored
    <3> DEFINE f == Membership(p)
    <3>1. f \in Files /\ \A e : f # Environment(e)
      BY Steps, FilesDiffer
    <3>2. \A pair \in Partner : pair[1] # f
      <4>1. \A pair \in Partner : \E x : pair[1] = Environment(x) \/ pair[1] = Metadata(x)
        BY DEF Partner
      <4> QED
        BY <4>1, FilesDiffer
    <3> HIDE DEF f
    <3>3. Touches(m, f) /\ whole'[m] = whole[m] \cup {f} /\ torn'[m] = torn[m] \ {f}
      BY <1>2, <2>2, <3>1, TouchesHolds DEF Stores, TypeOK, f
    <3>4. /\ Grows /\ RecordsAreAtHome' /\ HomeLabelsAreUnique'
          /\ \A q : \A e \in RecordsOf(m, q)' : e \in RecordsOf(m, q) \/ f = Environment(e)
      BY <1>1, <1>2, <1>3, <3>1, <3>3, TouchedRecords DEF m
    <3> QED
      BY <2>2, <3>1, <3>2, <3>3, <3>4, StepsDiffer DEF Touches
  <2>3. ASSUME NEW p \in Projects, step = ImportMembership(p), UNCHANGED files
        PROVE  Stored
    <3>1. Grows /\ \A n \in Machines : SameMachine(n)
      BY <1>1, <2>3, UnchangedGrows
    <3>2. RecordsAreAtHome' /\ HomeLabelsAreUnique'
      BY <1>1, <1>2, <2>3 DEF RecordsAreAtHome, HomeLabelsAreUnique, Exists,
         RecordsOf, EnvironmentsOf, files
    <3>3. \A q : RecordsOf(m, q)' = RecordsOf(m, q)
      BY <1>2, <3>1, SameRecords
    <3> QED
      BY <1>2, <2>3, <3>1, <3>2, <3>3, StepsDiffer DEF SameMachine, files
  <2> QED
    BY <2>1, <2>2, <2>3 DEF m
<1>6. /\ \A d \in Commands \ {c} : PlanView(d)' /\ BootView(d)'
      /\ \A n \in Machines \ {m} : LocatorView(n)'
  BY <1>1, <1>5, OthersKeep DEF Alone, m
<1>7. \A f : Comes(c, f) => f \in whole'[m] \/ Write(f) \in Pending(c)'
  BY <1>1, <1>5 DEF Comes, m
<1>8. Listed(m)' = Listed(m) /\ (HasLocator(m)' <=> HasLocator(m)) /\ locator'[m] = locator[m]
  BY <1>5 DEF Listed, HasLocator
<1>9. PlanView(c)'
  <2>1. UpdatesFit(c)'
    BY <1>1, <1>3, <1>8 DEF UpdatesFit, m, HasLocator
  <2>2. RecordsFit(c)'
    BY <1>2, <1>5, TakenRecordsFit DEF m
  <2>3. m \in Founders => FounderPlan(c)'
    <3>1. ASSUME m \in Founders, HasLocator(m)', NEW f \in Listed(m)'
          PROVE  Write(f) \notin Pending(c)'
      BY <1>1, <1>3, <1>8, <3>1 DEF FounderPlan, m
    <3> QED
      BY <1>3, <1>7, <3>1, TakenFounderPlan DEF m
  <2>4. \A p \in Projects : ResetLocator(p) \in Pending(c)' => home'[p] # None
    BY <1>1, <1>2 DEF PlanView
  <2> QED
    BY <1>1, <2>1, <2>2, <2>3, <2>4 DEF PlanView, m
<1>10. BootView(c)'
  <2> SUFFICES ASSUME job[c].stage = "bootstrap" PROVE BootView(c)'
    BY <1>1 DEF BootView
  <2> DEFINE read == job[c].about.read
             left == {e \in Environments : Upsert(e) \in Pending(c)}
  <2>1. /\ locator[m].project = read.project
        /\ Comes(c, Metadata(read.project))
        /\ \A e, f \in read.environments : e # f => made[e].label # made[f].label
        /\ \A p \in Projects : ResetLocator(p) \in Pending(c) => p = read.project
        /\ IF ResetLocator(read.project) \in Pending(c) THEN left = read.environments
           ELSE left \cup locator[m].environments = read.environments
    BY <1>2 DEF BootView, m
  <2>2. \A e : /\ Upsert(e) \in Pending(c) <=> Upsert(e) \in Pending(c)'
               /\ ResetLocator(e) \in Pending(c) <=> ResetLocator(e) \in Pending(c)'
    BY <1>1, <1>4
  <2>3. left = {e \in Environments : Upsert(e) \in Pending(c)'}
    BY <2>2
  <2> HIDE DEF left
  <2>4. Metadata(read.project) \in whole'[m] \/ Write(Metadata(read.project)) \in Pending(c)'
    BY <1>7, <2>1
  <2> QED
    BY <1>1, <1>8, <2>1, <2>2, <2>3, <2>4 DEF BootView, Comes, m
<1>11. LocatorView(m)'
  BY <1>1, <1>2, <1>5, <1>8 DEF LocatorView
<1>12. Undisturbed'
  BY <1>2, <1>5, <1>7, TakenUndisturbed DEF m
<1>13. ~MixedBundles => LocatorIsOfOneProject'
  BY <1>1, <1>5 DEF PlanPart, LocatorIsOfOneProject
<1> QED
  BY <1>5, <1>6, <1>9, <1>10, <1>11, <1>12, <1>13 DEF PlanPart

(* A step that makes the locator l, and stores no file.                    *)
LEMMA EnterKeeps ==
    ASSUME OneCommandPerMachine, TypeOK, \A d \in Commands : JobView(d), PlanPart,
           NEW c \in Commands, NEW step, Takes(c, step), \A f : step # Write(f),
           NEW l \in Locators, Enters(MachineOf[c], l),
           UpdatesFit(c)', BootView(c)', LocatorView(MachineOf[c])',
           MachineOf[c] \in Founders =>
             \A f \in Listed(MachineOf[c])' : Write(f) \notin Pending(c)',
           ~MixedBundles => \A e \in l.environments : made[e].project = l.project
    PROVE  PlanPart'
<1> DEFINE m == MachineOf[c]
<1>1. /\ Others(c) /\ UNCHANGED <<relay, home, made, faults>>
      /\ Pending(c) = {step} \cup Pending(c)'
      /\ Ordered(job'[c].plan) /\ Completed(job'[c].plan)
  BY DEF Takes
<1>2. m \in Machines /\ PlanView(c) /\ BootView(c) /\ LocatorView(m) /\ RecordsAreAtHome
      /\ HomeLabelsAreUnique /\ Undisturbed
  BY MachineType DEF PlanPart
<1>3. locator' = [locator EXCEPT ![m] = l] /\ whole' = whole /\ torn' = torn
  BY DEF Enters
<1>4. locator'[m] = l /\ \A n \in Machines \ {m} : SameMachine(n)
  BY <1>2, <1>3 DEF TypeOK, SameMachine
<1>5. Grows
  BY <1>1, <1>3 DEF Grows, Exists
<1>6. /\ \A d \in Commands \ {c} : PlanView(d)' /\ BootView(d)'
      /\ \A n \in Machines \ {m} : LocatorView(n)'
  BY <1>1, <1>4, <1>5, OthersKeep DEF Alone
<1>7. \A f : Comes(c, f) => f \in whole'[m] \/ Write(f) \in Pending(c)'
  BY <1>1, <1>3 DEF Comes
<1>8. RecordsAreAtHome' /\ HomeLabelsAreUnique' /\ \A p : RecordsOf(m, p)' = RecordsOf(m, p)
  BY <1>1, <1>2, <1>3 DEF RecordsAreAtHome, HomeLabelsAreUnique, Exists,
     RecordsOf, EnvironmentsOf
<1>9. PlanView(c)'
  <2>1. RecordsFit(c)'
    BY <1>2, <1>5, <1>8, TakenRecordsFit
  <2>2. m \in Founders => FounderPlan(c)'
    BY <1>2, <1>7, TakenFounderPlan DEF PlanView
  <2>3. \A p \in Projects : ResetLocator(p) \in Pending(c)' => home'[p] # None
    BY <1>1, <1>2 DEF PlanView
  <2> QED
    BY <1>1, <2>1, <2>2, <2>3 DEF PlanView
<1>10. Undisturbed'
  BY <1>2, <1>3, <1>4, <1>7, TakenUndisturbed
<1>11. ~MixedBundles => LocatorIsOfOneProject'
  <2> SUFFICES ASSUME ~MixedBundles, NEW n \in Machines, locator'[n] \notin {None, Torn},
                      NEW e \in locator'[n].environments
               PROVE  made[e].project = locator'[n].project
    BY <1>1 DEF LocatorIsOfOneProject
  <2>1. CASE n = m
    BY <1>4, <2>1
  <2>2. CASE n # m
    BY <1>4, <2>2 DEF SameMachine, PlanPart, LocatorIsOfOneProject
  <2> QED
    BY <2>1, <2>2
<1> QED
  BY <1>6, <1>8, <1>9, <1>10, <1>11 DEF PlanPart

LEMMA ResetKeeps ==
    ASSUME OneCommandPerMachine, TypeOK, \A d \in Commands : JobView(d), PlanPart,
           NEW c \in Commands, NEW step, Takes(c, step),
           NEW p \in Projects, step = ResetLocator(p),
           Enters(MachineOf[c], [project |-> p, environments |-> {}])
    PROVE  PlanPart'
<1> DEFINE m == MachineOf[c]
           l == [project |-> p, environments |-> {}]
<1>1. /\ UNCHANGED <<relay, home, made, faults>>
      /\ job'[c].stage = job[c].stage /\ job'[c].about = job[c].about
      /\ Pending(c) = {step} \cup Pending(c)'
      /\ \A next \in Pending(c)' : MayFollow(step, next)
  BY DEF Takes
<1>2. m \in Machines /\ PlanView(c) /\ BootView(c) /\ LocatorView(m)
  BY MachineType DEF PlanPart
<1>3. UpdatesFit(c) /\ home[p] # None /\ (m \in Founders => FounderPlan(c))
  BY <1>1, <1>2 DEF PlanView
<1>4. l \in Locators /\ l.project = p /\ l.environments = {}
  BY DEF Locators
<1>5. locator'[m] = l /\ whole' = whole
  BY <1>2 DEF Enters, TypeOK
<1>6. /\ \A f : step # Write(f)
      /\ \A q : ResetLocator(q) \notin Pending(c)'
      /\ \A e : Upsert(e) \in Pending(c) <=> Upsert(e) \in Pending(c)'
      /\ m \in Founders => \A f : Write(f) \notin Pending(c)'
  <2>1. step.op = "reset" /\ \A f : step # Write(f) /\ step # Upsert(f)
    BY StepsDiffer
  <2>2. \A next \in Pending(c)' : next.op # "reset"
    BY <1>1, <2>1 DEF MayFollow
  <2>3. m \in Founders => \A next \in Pending(c)' : next.op # "write"
    BY <2>1 DEF Takes
  <2> QED
    BY <1>1, <2>1, <2>2, <2>3, StepsDiffer
<1>7. \A q \in Projects : ResetLocator(q) \in Pending(c) => q = p
  BY <1>1, <1>6, StepsDiffer
<1> HIDE DEF m, l
<1>8. UpdatesFit(c)'
  <2> SUFFICES ASSUME NEW e \in Environments, Upsert(e) \in Pending(c)'
               PROVE  made[e] # None /\ (~MixedBundles => l.project = made[e].project)
    BY <1>1, <1>5, <1>6 DEF UpdatesFit, m
  <2> QED
    BY <1>1, <1>3, <1>4, <1>6 DEF UpdatesFit
<1>9. BootView(c)'
  <2> SUFFICES ASSUME job[c].stage = "bootstrap" PROVE BootView(c)'
    BY <1>1 DEF BootView
  <2> DEFINE read == job[c].about.read
             left == {e \in Environments : Upsert(e) \in Pending(c)}
  <2>1. /\ Comes(c, Metadata(read.project))
        /\ \A e, f \in read.environments : e # f => made[e].label # made[f].label
        /\ \A q \in Projects : ResetLocator(q) \in Pending(c) => q = read.project
        /\ ResetLocator(read.project) \in Pending(c) => left = read.environments
    BY <1>2 DEF BootView
  <2>2. p = read.project /\ left = read.environments
    BY <1>1, <2>1
  <2>3. left = {e \in Environments : Upsert(e) \in Pending(c)'}
    BY <1>6
  <2> HIDE DEF left
  <2>4. Metadata(read.project) \in whole'[m] \/ Write(Metadata(read.project)) \in Pending(c)'
    BY <1>1, <1>5, <1>6, <2>1 DEF Comes, m
  <2>5. ResetLocator(read.project) \notin Pending(c)'
    BY <1>6
  <2>6. left \cup l.environments = read.environments
    BY <1>4, <2>2
  <2> QED
    BY <1>1, <1>4, <1>5, <1>6, <2>1, <2>2, <2>3, <2>4, <2>5, <2>6 DEF BootView, Comes, m
<1>10. Listed(m)' = {Metadata(p), Genesis(p), Membership(p)}
  BY <1>4, <1>5 DEF Listed
<1>11. LocatorView(m)'
  <2>1. m \in Founders => home[p] = m /\ {Metadata(p), Genesis(p), Membership(p)} \subseteq whole[m]
    <3> SUFFICES ASSUME m \in Founders
                 PROVE  home[p] = m /\ {Metadata(p), Genesis(p), Membership(p)} \subseteq whole[m]
      OBVIOUS
    <3>1. /\ home[p] = m
          /\ Comes(c, Metadata(p)) /\ Comes(c, Genesis(p)) /\ Comes(c, Membership(p))
      BY <1>1, <1>3 DEF FounderPlan, m
    <3>2. \A f : Write(f) \notin Pending(c)
      BY <1>1, <1>6
    <3> QED
      BY <3>1, <3>2 DEF Comes, m
  <2> QED
    BY <1>1, <1>3, <1>4, <1>5, <1>10, <2>1 DEF LocatorView
<1>12. m \in Founders => \A f \in Listed(m)' : Write(f) \notin Pending(c)'
  BY <1>6
<1>13. Enters(m, l) /\ \A e \in l.environments : made[e].project = l.project
  BY <1>4 DEF m, l
<1> QED
  BY <1>4, <1>6, <1>8, <1>9, <1>11, <1>12, <1>13, EnterKeeps DEF m

LEMMA UpsertKeeps ==
    ASSUME OneCommandPerMachine, TypeOK, \A d \in Commands : JobView(d), PlanPart,
           NEW c \in Commands, NEW step, Takes(c, step),
           NEW e \in Environments, step = Upsert(e), HasLocator(MachineOf[c]),
           Enters(MachineOf[c], Entered(locator[MachineOf[c]], e))
    PROVE  PlanPart'
<1> DEFINE m == MachineOf[c]
           old == locator[m]
           l == Entered(old, e)
<1>1. /\ UNCHANGED <<relay, home, made, faults>>
      /\ job'[c].stage = job[c].stage /\ job'[c].about = job[c].about
      /\ Pending(c) = {step} \cup Pending(c)'
      /\ \A next \in Pending(c)' : MayFollow(step, next)
  BY DEF Takes
<1>2. m \in Machines /\ PlanView(c) /\ BootView(c) /\ LocatorView(m)
      /\ (~MixedBundles => LocatorIsOfOneProject)
  BY MachineType DEF PlanPart
<1>3. UpdatesFit(c) /\ (m \in Founders => FounderPlan(c))
  BY <1>2 DEF PlanView
<1>4. /\ old \in Locators /\ old.environments \subseteq Environments
      /\ l \in Locators /\ l.project = old.project
      /\ l.environments = {f \in old.environments : made[f].label # made[e].label} \cup {e}
  BY <1>2, LocatorType, EnteredType
<1>5. locator'[m] = l /\ whole' = whole
  BY <1>2 DEF Enters, TypeOK
<1>6. /\ \A f : step # Write(f) /\ Write(f) \notin Pending(c)
      /\ \A q : ResetLocator(q) \notin Pending(c)
  <2>1. step.op = "upsert" /\ \A f : step # Write(f) /\ step # ResetLocator(f)
    BY StepsDiffer
  <2>2. \A next \in Pending(c)' : next.op = "upsert"
    BY <1>1, <2>1 DEF MayFollow
  <2>3. "upsert" # "write" /\ "upsert" # "reset"
    OBVIOUS
  <2> QED
    BY <1>1, <2>1, <2>2, <2>3, StepsDiffer
<1> HIDE DEF m, l, old
<1>7. UpdatesFit(c)'
  <2> SUFFICES ASSUME NEW d \in Environments, Upsert(d) \in Pending(c)'
               PROVE  made[d] # None /\ (~MixedBundles => l.project = made[d].project)
    BY <1>1, <1>5, <1>6 DEF UpdatesFit, m
  <2> QED
    BY <1>1, <1>3, <1>4 DEF UpdatesFit, m, old
<1>8. BootView(c)'
  <2> SUFFICES ASSUME job[c].stage = "bootstrap" PROVE BootView(c)'
    BY <1>1 DEF BootView
  <2> DEFINE read == job[c].about.read
             left == {d \in Environments : Upsert(d) \in Pending(c)}
             next == {d \in Environments : Upsert(d) \in Pending(c)'}
  <2>1. /\ old.project = read.project
        /\ Comes(c, Metadata(read.project))
        /\ \A d, f \in read.environments : d # f => made[d].label # made[f].label
        /\ left \cup old.environments = read.environments
    BY <1>2, <1>6 DEF BootView, m, old
  <2>2. left = {e} \cup next
    <3>1. \A d \in Environments : Upsert(d) \in Pending(c) <=> d = e \/ Upsert(d) \in Pending(c)'
      BY <1>1, StepsDiffer
    <3> QED
      BY <3>1
  <2>3. l.environments = old.environments \cup {e}
    <3>1. e \in read.environments /\ old.environments \subseteq read.environments
      BY <2>1, <2>2
    <3> QED
      BY <1>4, <2>1, <3>1
  <2>4. next \cup l.environments = read.environments
    BY <2>1, <2>2, <2>3
  <2>5. Metadata(read.project) \in whole'[m]
    BY <1>5, <1>6, <2>1 DEF Comes, m
  <2> QED
    BY <1>1, <1>4, <1>5, <1>6, <2>1, <2>4, <2>5 DEF BootView, Comes, m
<1>9. m \in Founders => {Environment(e), Local(e)} \subseteq whole[m]
  <2> SUFFICES ASSUME m \in Founders PROVE {Environment(e), Local(e)} \subseteq whole[m]
    OBVIOUS
  <2>1. Comes(c, Environment(e)) /\ Comes(c, Local(e))
    BY <1>1, <1>3 DEF FounderPlan
  <2> QED
    BY <1>6, <2>1 DEF Comes, m
<1>10. Listed(m)' \subseteq Listed(m) \cup {Environment(e), Local(e)}
  BY <1>4, <1>5 DEF Listed, old
<1>11. LocatorView(m)'
  <2>1. made[e] # None
    BY <1>1, <1>3 DEF UpdatesFit
  <2>2. /\ home[old.project] # None /\ \A d \in old.environments : made[d] # None
        /\ m \in Founders => home[old.project] = m /\ Listed(m) \subseteq whole[m]
    BY <1>2 DEF LocatorView, m, old
  <2> QED
    BY <1>1, <1>4, <1>5, <1>9, <1>10, <2>1, <2>2 DEF LocatorView
<1>12. \A f : Write(f) \notin Pending(c)'
  BY <1>1, <1>6
<1>13. ~MixedBundles => \A d \in l.environments : made[d].project = l.project
  <2>1. ~MixedBundles => made[e].project = old.project
    BY <1>1, <1>3 DEF UpdatesFit, m, old
  <2>2. ~MixedBundles => \A d \in old.environments : made[d].project = old.project
    BY <1>2 DEF LocatorIsOfOneProject, HasLocator, m, old
  <2> QED
    BY <1>4, <2>1, <2>2
<1>14. Enters(m, l)
  BY DEF m, l, old
<1> QED
  BY <1>4, <1>6, <1>7, <1>8, <1>11, <1>12, <1>13, <1>14, EnterKeeps DEF m

LEMMA StepKeeps ==
    ASSUME OneCommandPerMachine, TypeOK, \A d \in Commands : JobView(d), PlanPart,
           NEW c \in Commands, Step(c)
    PROVE  PlanPart'
<1> DEFINE m == MachineOf[c]
           step == Head(job[c].plan)
<1>1. /\ job[c].plan # <<>> /\ job[c].plan \in Seq(PlanSteps) /\ Others(c)
      /\ UNCHANGED <<relay, home, made, faults>>
      /\ \/ /\ job'[c] = Idle /\ UNCHANGED files
            /\ \E e \in Environments : step = Upsert(e)
         \/ /\ job'[c].stage = job[c].stage /\ job'[c].about = job[c].about
            /\ job'[c].plan = Tail(job[c].plan) /\ Does(m, step)
  BY StepHolds DEF history
<1>2. PlanView(c)
  BY DEF PlanPart
<1>3. CASE /\ job'[c] = Idle /\ UNCHANGED files
           /\ \E e \in Environments : step = Upsert(e)
  <2>1. /\ Pending(c) = {step} \cup Range(Tail(job[c].plan))
        /\ \A next \in Range(Tail(job[c].plan)) : MayFollow(step, next)
    BY <1>1, <1>2, TailOfPlan DEF Pending, PlanView
  <2>2. \A s \in Pending(c) : s.op = "upsert"
    BY <1>3, <2>1, StepsDiffer DEF MayFollow
  <2>3. \A f : Write(f) \notin Pending(c)
    BY <2>2, StepsDiffer
  <2> QED
    BY <1>1, <1>3, <2>3, IdleJob, DropsKeep DEF Drops
<1>4. CASE /\ job'[c].stage = job[c].stage /\ job'[c].about = job[c].about
           /\ job'[c].plan = Tail(job[c].plan) /\ Does(m, step)
  <2>1. Takes(c, step)
    BY <1>1, <1>2, <1>4, TakesHolds
  <2> HIDE DEF step
  <2> QED
    BY <1>4, <2>1, StoreKeeps, ResetKeeps, UpsertKeeps DEF Does
<1> QED
  BY <1>1, <1>3, <1>4

(***************************************************************************)
(* A command decides what to write.                                        *)
(***************************************************************************)
LEMMA PlannedKeeps ==
    ASSUME OneCommandPerMachine, TypeOK, \A d \in Commands : JobView(d), PlanPart, Grows,
           NEW c \in Commands, Others(c), UNCHANGED <<files, relay, faults>>,
           job[c].plan = <<>>, PlanView(c)', BootView(c)',
           \A e \in Environments : made'[e] # made[e] =>
             made[e] = None /\ home'[made'[e].project] # None
    PROVE  PlanPart'
<1>1. \A m \in Machines : SameMachine(m)
  BY DEF files, SameMachine
<1>2. \A d \in Commands \ {c} : PlanView(d)' /\ BootView(d)'
  BY <1>1, OthersKeep DEF Alone
<1>3. \A m \in Machines :
        /\ LocatorView(m)'
        /\ HasLocator(m) => \A e \in locator[m].environments : made'[e] = made[e]
  BY <1>1, OtherLocatorView DEF PlanPart
<1>4. RecordsAreAtHome'
  <2>1. ASSUME NEW e \in Environments, made'[e] # None PROVE home'[made'[e].project] # None
    <3>1. CASE made'[e] = made[e]
      BY <2>1, <3>1, MadeType DEF PlanPart, RecordsAreAtHome, Grows
    <3> QED
      BY <3>1
  <2>2. ASSUME NEW e \in Environments,
               Environment(e) \in relay' \cup UNION {whole'[m] \cup torn'[m] : m \in Machines}
        PROVE  /\ made'[e] # None
               /\ \A p \in Projects, m \in Machines : made'[e].project = p /\ home'[p] = m =>
                    Exists(m, Environment(e))'
    <3>1. /\ made[e] # None /\ home[made[e].project] # None
          /\ \A p \in Projects, m \in Machines : made[e].project = p /\ home[p] = m =>
               Exists(m, Environment(e))
      BY <2>2 DEF PlanPart, RecordsAreAtHome, files
    <3>2. made'[e] = made[e]
      BY <3>1 DEF Grows
    <3>3. \A m \in Machines : Exists(m, Environment(e)) => Exists(m, Environment(e))'
      BY DEF Grows, Environment
    <3>4. ASSUME NEW p \in Projects, made[e].project = p PROVE home'[p] = home[p]
      BY <3>1, <3>4 DEF Grows
    <3> QED
      BY <3>1, <3>2, <3>3, <3>4
  <2> QED
    BY <2>1, <2>2 DEF RecordsAreAtHome
<1>5. HomeLabelsAreUnique'
  <2> SUFFICES ASSUME NEW p \in Projects, NEW m \in Machines, home'[p] = m,
                      NEW d \in RecordsOf(m, p)', NEW e \in RecordsOf(m, p)', d # e
               PROVE  made'[d].label # made'[e].label
    BY DEF HomeLabelsAreUnique
  <2>1. RecordsOf(m, p)' = RecordsOf(m, p) /\ \A f \in RecordsOf(m, p) : made'[f] = made[f]
    BY <1>1, SameRecords DEF PlanPart
  <2>2. d \in Environments /\ made[d] # None /\ made[d].project = p
    BY <2>1 DEF RecordsOf, EnvironmentsOf
  <2>3. home[p] = m
    BY <2>2 DEF PlanPart, RecordsAreAtHome, Grows
  <2> QED
    BY <2>1, <2>3 DEF PlanPart, HomeLabelsAreUnique
<1>6. Undisturbed'
  <2> SUFFICES ASSUME faults = 0, NEW m \in Machines
               PROVE  /\ torn'[m] = {}
                      /\ \A pair \in Partner : pair[1] \in whole'[m] =>
                           \/ pair[2] \in whole'[m]
                           \/ \E d \in Commands : MachineOf[d] = m /\ Write(pair[2]) \in Pending(d)'
    BY DEF Undisturbed
  <2>1. /\ torn[m] = {}
        /\ \A pair \in Partner : pair[1] \in whole[m] =>
             \/ pair[2] \in whole[m]
             \/ \E d \in Commands : MachineOf[d] = m /\ Write(pair[2]) \in Pending(d)
    BY DEF PlanPart, Undisturbed
  <2>2. Pending(c) = {}
    BY EmptyPlan DEF Pending
  <2>3. \A d \in Commands \ {c} : Pending(d)' = Pending(d)
    BY DEF Pending, Others
  <2> QED
    BY <2>1, <2>2, <2>3 DEF files
<1>7. ~MixedBundles => LocatorIsOfOneProject'
  BY <1>3 DEF PlanPart, LocatorIsOfOneProject, files, HasLocator
<1> QED
  BY <1>2, <1>3, <1>4, <1>5, <1>6, <1>7, <1>1 DEF PlanPart

LEMMA FoundKeeps ==
    ASSUME OneCommandPerMachine, TypeOK, \A d \in Commands : JobView(d), PlanPart,
           NEW c \in Commands, NEW p \in Projects, Found(c, p)
    PROVE  PlanPart'
<1> DEFINE m == MachineOf[c]
           plan == InitPlan(p)
<1>1. /\ job[c].stage = "found" /\ creator[p] = None /\ home' = [home EXCEPT ![p] = m]
      /\ UNCHANGED <<files, relay, made, faults>>
      /\ job'[c].stage = "write" /\ job'[c].plan = plan /\ Others(c)
      /\ m \in Founders /\ m \in Machines /\ job[c].plan = <<>>
  BY FoundHolds, MachineType DEF Found, JobView
<1>2. home[p] = None /\ home'[p] = m /\ m # None
      /\ \A q \in Projects \ {p} : home'[q] = home[q]
  BY <1>1, MarksAssumption DEF TypeOK
<1>3. /\ Range(plan) = {Write(Metadata(p)), Write(Genesis(p)), Write(Membership(p)), ResetLocator(p)}
      /\ Ordered(plan) /\ Completed(plan)
      /\ plan[4] = ResetLocator(p) /\ DOMAIN plan = 1..4
  BY InitPlanHolds
<1> HIDE DEF plan
<1>4. Pending(c)' = Range(plan)
  BY <1>1 DEF Pending
<1>5. Grows
  BY <1>1, <1>2 DEF Grows, files, Exists
<1>6. ResetsLate(plan)
  <2> SUFFICES ASSUME NEW i \in 1..4, NEW j \in 1..4, i < j, plan[i].op = "reset"
               PROVE  plan[j].op # "write"
    BY <1>3 DEF ResetsLate
  <2>1. i < 4 /\ 4 \in 1..4
    OBVIOUS
  <2>2. MayFollow(plan[i], plan[4])
    BY <1>3, <2>1 DEF Ordered
  <2> QED
    BY <1>3, <2>2, StepsDiffer DEF MayFollow
<1>7. /\ \A e : Upsert(e) \notin Range(plan) /\ Write(Environment(e)) \notin Range(plan)
                /\ Write(Local(e)) \notin Range(plan) /\ ImportMembership(e) \notin Range(plan)
      /\ \A q : ResetLocator(q) \in Range(plan) => q = p
      /\ \A q : (\/ Write(Metadata(q)) \in Range(plan)
                 \/ Write(Genesis(q)) \in Range(plan)
                 \/ Write(Membership(q)) \in Range(plan)) => q = p
  <2>1. \A f : Write(f) \in Range(plan) => f \in {Metadata(p), Genesis(p), Membership(p)}
    BY <1>3, StepsDiffer
  <2>2. \A q : ResetLocator(q) \in Range(plan) => q = p
    BY <1>3, StepsDiffer
  <2>3. \A e : Upsert(e) \notin Range(plan) /\ ImportMembership(e) \notin Range(plan)
    BY <1>3, StepsDiffer
  <2> QED
    BY <2>1, <2>2, <2>3, FilesDiffer
<1>8. FounderPlan(c)'
  <2>1. \A f \in {Metadata(p), Genesis(p), Membership(p)} : Write(f) \in Range(plan)
    BY <1>3
  <2>2. ASSUME HasLocator(m), NEW f \in Listed(m) PROVE Write(f) \notin Range(plan)
    <3>1. locator[m].project # p
      BY <1>1, <1>2, <2>2 DEF PlanPart, LocatorView
    <3>2. \/ f \in {Metadata(locator[m].project), Genesis(locator[m].project),
                    Membership(locator[m].project)}
          \/ \E e : f = Environment(e) \/ f = Local(e)
      BY <2>2 DEF Listed
    <3> QED
      BY <1>7, <3>1, <3>2
  <2>3. Listed(m)' = Listed(m) /\ (HasLocator(m)' <=> HasLocator(m))
    BY <1>1 DEF Listed, HasLocator, files
  <2> QED
    BY <1>1, <1>2, <1>4, <1>6, <1>7, <2>1, <2>2, <2>3 DEF FounderPlan, Comes
<1>9. PlanView(c)'
  <2>1. UpdatesFit(c)' /\ RecordsFit(c)'
    BY <1>4, <1>7 DEF UpdatesFit, RecordsFit
  <2> QED
    BY <1>1, <1>2, <1>3, <1>4, <1>7, <1>8, <2>1 DEF PlanView
<1>10. BootView(c)'
  BY <1>1 DEF BootView
<1> QED
  BY <1>1, <1>5, <1>9, <1>10, PlannedKeeps

LEMMA CreateEnvironmentKeeps ==
    ASSUME OneCommandPerMachine, TypeOK, \A d \in Commands : JobView(d), PlanPart,
           NEW c \in Commands, NEW e \in Environments, CreateEnvironment(c, e)
    PROVE  PlanPart'
<1> DEFINE m == MachineOf[c]
           p == locator[m].project
           label == job[c].about
           plan == EnvAddPlan(e)
<1>1. /\ job[c].plan = <<>> /\ Others(c) /\ UNCHANGED <<files, relay, home, faults>>
      /\ \/ job'[c] = Idle /\ made' = made
         \/ /\ made[e] = None /\ HasLocator(m) /\ m \in Founders
            /\ made' = [made EXCEPT ![e] = [project |-> p, label |-> label]]
            /\ label \notin LabelsInUse(m, p)
            /\ [project |-> p, label |-> label] \in [project : Projects, label : Labels]
            /\ job'[c].stage = "write" /\ job'[c].plan = plan
  BY CreateEnvironmentHolds DEF CreateEnvironment, JobView
<1>2. CASE job'[c] = Idle /\ made' = made
  <2>1. Drops(c)
    BY <1>1, <1>2, IdleJob DEF Drops
  <2> QED
    BY <2>1, DropsKeep
<1> SUFFICES ASSUME made[e] = None, HasLocator(m), m \in Founders,
                    made' = [made EXCEPT ![e] = [project |-> p, label |-> label]],
                    label \notin LabelsInUse(m, p),
                    [project |-> p, label |-> label] \in [project : Projects, label : Labels],
                    job'[c].stage = "write", job'[c].plan = plan
             PROVE  PlanPart'
  BY <1>1, <1>2
<1>3. /\ made'[e] = [project |-> p, label |-> label] /\ made'[e].project = p /\ made'[e].label = label
      /\ made'[e] # None /\ p \in Projects
      /\ \A d \in Environments \ {e} : made'[d] = made[d]
  BY MarksAssumption DEF TypeOK
<1>4. m \in Machines /\ home[p] = m /\ m # None /\ LocatorView(m)
  BY MachineType, MarksAssumption DEF PlanPart, LocatorView
<1>5. /\ Range(plan) = {Write(Environment(e)), Write(Local(e)), Upsert(e)}
      /\ Ordered(plan) /\ Completed(plan)
  BY EnvAddPlanHolds
<1>6. /\ \A f : Write(f) \in Range(plan) <=> f = Environment(e) \/ f = Local(e)
      /\ \A q : ResetLocator(q) \notin Range(plan) /\ ImportMembership(q) \notin Range(plan)
      /\ \A d : Upsert(d) \in Range(plan) <=> d = e
  BY <1>5, StepsDiffer
<1>7. ResetsLate(plan)
  <2>1. \A i \in DOMAIN plan : plan[i] \in Range(plan)
    BY DEF Range
  <2>2. \A step \in Range(plan) : step.op # "reset"
    BY <1>5, StepsDiffer
  <2> QED
    BY <2>1, <2>2 DEF ResetsLate
<1>8. /\ Pending(c)' = Range(plan) /\ locator'[m] = locator[m] /\ whole'[m] = whole[m]
      /\ home' = home /\ SameMachine(m) /\ p' = p
  <2>1. Pending(c)' = Range(plan)
    BY DEF Pending
  <2> QED
    BY <1>1, <2>1 DEF files, SameMachine
<1> HIDE DEF plan, m, p, label
<1>9. Grows
  BY <1>1, <1>3 DEF Grows, files, Exists
<1>10. \A d : Write(Environment(d)) \in Range(plan) => d = e
  BY <1>6, FilesDiffer
<1>11. UpdatesFit(c)'
  BY <1>3, <1>6, <1>8 DEF UpdatesFit, m, p
<1>12. RecordsFit(c)'
  <2>1. RecordsOf(m, p)' = RecordsOf(m, p) /\ \A f \in RecordsOf(m, p) : made'[f] = made[f]
    BY <1>4, <1>8, <1>9, SameRecords DEF PlanPart
  <2>2. \A f \in RecordsOf(m, p) : made[f].label # label
    BY DEF LabelsInUse
  <2>3. \A f \in RecordsOf(m, p)' : made'[f].label # made'[e].label
    BY <1>3, <2>1, <2>2
  <2>4. ASSUME NEW q \in Projects, NEW h \in Machines, made'[e].project = q, home'[q] = h
        PROVE  h = m /\ q = p
    BY <1>3, <1>4, <1>8, <2>4
  <2> QED
    BY <1>3, <1>8, <1>10, <2>3, <2>4 DEF RecordsFit, m
<1>13. \A f \in Listed(m) : f # Environment(e) /\ f # Local(e)
  <2>1. \A d \in locator[m].environments : d # e
    BY <1>4 DEF LocatorView
  <2> QED
    BY <2>1, FilesDiffer DEF Listed
<1>14. FounderPlan(c)'
  <2>1. Listed(m)' = Listed(m)
    BY <1>8 DEF Listed
  <2>2. \A q \in Projects : ImportMembership(q) \notin Pending(c)' /\ ResetLocator(q) \notin Pending(c)'
    BY <1>6, <1>8
  <2>3. \A d \in Environments : Upsert(d) \in Pending(c)' =>
          Write(Environment(d)) \in Pending(c)' /\ Write(Local(d)) \in Pending(c)'
    BY <1>6, <1>8
  <2>4. \A f \in Listed(m)' : Write(f) \notin Pending(c)'
    BY <1>6, <1>8, <1>13, <2>1
  <2>5. \A d, f \in Environments :
          {Write(Environment(d)), Write(Environment(f))} \subseteq Pending(c)' => d = f
    BY <1>8, <1>10
  <2> QED
    BY <1>7, <2>2, <2>3, <2>4, <2>5 DEF FounderPlan, Comes, m
<1>15. PlanView(c)'
  BY <1>5, <1>6, <1>8, <1>11, <1>12, <1>14 DEF PlanView, m
<1>16. BootView(c)'
  BY DEF BootView
<1> QED
  BY <1>1, <1>3, <1>4, <1>8, <1>9, <1>15, <1>16, PlannedKeeps

LEMMA StepsInPlan ==
    ASSUME NEW p, NEW E, NEW R,
           R \subseteq {Write(Metadata(p)), Write(Genesis(p))} \cup StepsFor(E)
                         \cup {ImportMembership(p), ResetLocator(p)} \cup UpdatesFor(E)
    PROVE  /\ \A e : Upsert(e) \in R => e \in E
           /\ \A e : Write(Environment(e)) \in R => e \in E
           /\ \A q : ResetLocator(q) \in R => q = p
<1>1. ASSUME NEW e, Upsert(e) \in R PROVE e \in E
  BY <1>1, StepsDiffer DEF StepsFor, UpdatesFor
<1>2. ASSUME NEW e, Write(Environment(e)) \in R PROVE e \in E
  <2>1. /\ \A f : Environment(e) # Metadata(f) /\ Environment(e) # Genesis(f) /\ Environment(e) # Local(f)
        /\ \A f : Environment(e) = Environment(f) => e = f
    BY FilesDiffer
  <2>2. Write(Environment(e)) \in {Write(Metadata(p)), Write(Genesis(p))} \cup StepsFor(E)
    BY <1>2, StepsDiffer DEF UpdatesFor
  <2> QED
    BY <2>1, <2>2, StepsDiffer DEF StepsFor
<1>3. ASSUME NEW q, ResetLocator(q) \in R PROVE q = p
  BY <1>3, StepsDiffer DEF StepsFor, UpdatesFor
<1> QED
  BY <1>1, <1>2, <1>3

LEMMA BeginJoinKeeps ==
    ASSUME OneCommandPerMachine, TypeOK, \A d \in Commands : JobView(d), PlanPart,
           NEW c \in Commands, job[c] = Idle, NEW b \in Bundles, BeginJoin(c, b)
    PROVE  PlanPart'
<1> DEFINE m == MachineOf[c]
           p == b.project
           E == b.environments
<1>1. /\ UNCHANGED <<files, relay, home, made, faults>>
      /\ Others(c) /\ job'[c].stage = "write" /\ m \notin Founders /\ m \in Machines
      /\ p \in Projects /\ home[p] # None /\ E \subseteq EnvironmentsOf(p)
      /\ \A e \in E : Environment(e) \in whole[home[p]]
      /\ ~MixedBundles /\ HasLocator(m) => locator[m].project = p
      /\ \E s \in Orders(E) : job'[c].plan = JoinPlan(m, p, s)
      /\ job[c].plan = <<>>
  BY BeginJoinHolds, MachineType, IdleJob DEF BeginJoin, history
<1> DEFINE plan == job'[c].plan
           R == Range(plan)
<1> HIDE DEF m, p, E, plan
<1>2. \A e \in E : e \in Environments /\ made[e] # None /\ made[e].project = p
  BY <1>1 DEF EnvironmentsOf
<1>3. PICK s \in Orders(E) : plan = JoinPlan(m, p, s)
  BY <1>1 DEF plan
<1>4. s \in Seq(Environments) /\ Range(s) = E
  BY <1>2, OrderOfSet
<1>5. /\ Ordered(plan) /\ Completed(plan)
      /\ Range(plan) \subseteq {Write(Metadata(p)), Write(Genesis(p))} \cup StepsFor(E)
                                 \cup {ResetLocator(p)} \cup UpdatesFor(E)
  BY <1>1, <1>3, <1>4, JoinPlanHolds
<1>6. /\ \A e : Upsert(e) \in R => e \in E
      /\ \A e : Write(Environment(e)) \in R => e \in E
      /\ \A q : ResetLocator(q) \in R => q = p
  <2>1. R \subseteq {Write(Metadata(p)), Write(Genesis(p))} \cup StepsFor(E)
                      \cup {ImportMembership(p), ResetLocator(p)} \cup UpdatesFor(E)
    BY <1>5
  <2> QED
    BY <2>1, StepsInPlan
<1>7. Pending(c)' = R /\ locator' = locator /\ Grows
  BY <1>1, UnchangedGrows DEF Pending, files, plan
<1> HIDE DEF R
<1>8. UpdatesFit(c)'
  BY <1>1, <1>2, <1>6, <1>7 DEF UpdatesFit, HasLocator, m
<1>9. RecordsFit(c)'
  <2> SUFFICES ASSUME NEW e \in Environments, e \in E, NEW h \in Machines, home[p] = h
               PROVE  h # m /\ Exists(h, Environment(e))'
    BY <1>1, <1>2, <1>6, <1>7 DEF RecordsFit, m
  <2>1. h # m
    BY <1>1, HomeType
  <2>2. Exists(h, Environment(e))
    BY <1>1 DEF Exists
  <2> QED
    BY <1>7, <2>1, <2>2 DEF Grows, Environment
<1>10. PlanView(c)'
  BY <1>1, <1>5, <1>6, <1>7, <1>8, <1>9 DEF PlanView, m, plan
<1>11. BootView(c)'
  BY <1>1 DEF BootView
<1> QED
  BY <1>1, <1>7, <1>10, <1>11, PlannedKeeps

LEMMA FetchKeeps ==
    ASSUME OneCommandPerMachine, TypeOK, \A d \in Commands : JobView(d), PlanPart,
           NEW c \in Commands, Fetch(c)
    PROVE  PlanPart'
<1> DEFINE m == MachineOf[c]
           l == locator[m]
           p == l.project
           E == l.environments
           plan == job'[c].plan
           R == Range(plan)
<1>1. /\ UNCHANGED <<files, relay, home, made, faults>>
      /\ Others(c) /\ job'[c].stage = "bootstrap" /\ job'[c].about.read = l
      /\ m \notin Founders /\ m \in Machines /\ HasLocator(m)
      /\ p \in Projects /\ E \subseteq Environments
      /\ \A e \in E : Environment(e) \in relay /\ made[e].project = p
      /\ \E s \in Orders(E) : plan = BootstrapPlan(p, s)
      /\ job[c].plan = <<>>
  BY FetchHolds, MachineType DEF Fetch, FitsLocator, history, JobView, Locators
<1> HIDE DEF m, p, E, plan, l
<1>2. PICK s \in Orders(E) : plan = BootstrapPlan(p, s)
  BY <1>1
<1>3. s \in Seq(Environments) /\ Range(s) = E
  BY <1>1, OrderOfSet
<1>4. /\ Ordered(plan) /\ Completed(plan)
      /\ R = {Write(Metadata(p)), Write(Genesis(p))} \cup StepsFor(E)
               \cup {ImportMembership(p), ResetLocator(p)} \cup UpdatesFor(E)
  BY <1>1, <1>2, <1>3, BootstrapPlanHolds
<1>5. /\ \A e : Upsert(e) \in R => e \in E
      /\ \A e : Write(Environment(e)) \in R => e \in E
      /\ \A q : ResetLocator(q) \in R => q = p
  BY <1>4, StepsInPlan
<1>6. /\ ResetLocator(p) \in R /\ Write(Metadata(p)) \in R
      /\ \A e \in E : Upsert(e) \in R
  BY <1>4 DEF UpdatesFor
<1>7. Pending(c)' = R /\ locator' = locator /\ whole' = whole /\ Grows
  BY <1>1, UnchangedGrows DEF Pending, files, plan
<1> HIDE DEF R
<1>8. /\ \A e \in E : made[e] # None /\ made[e].project = p
      /\ home[p] # None /\ home[p] \in Founders /\ home[p] \in Machines
      /\ \A e \in E : Exists(home[p], Environment(e))
  <2>1. home[p] # None /\ home[p] \in Founders /\ home[p] \in Machines
    BY <1>1, HomeType DEF PlanPart, LocatorView, p, l
  <2> QED
    BY <1>1, <2>1 DEF PlanPart, RecordsAreAtHome
<1>9. UpdatesFit(c)'
  BY <1>1, <1>5, <1>7, <1>8 DEF UpdatesFit, HasLocator, m, p, l
<1>10. RecordsFit(c)'
  <2> SUFFICES ASSUME NEW e \in Environments, e \in E, NEW h \in Machines, home[p] = h
               PROVE  h # m /\ Exists(h, Environment(e))'
    BY <1>1, <1>5, <1>7, <1>8 DEF RecordsFit, m
  <2>1. h # m /\ Exists(h, Environment(e))
    BY <1>1, <1>8
  <2> QED
    BY <1>7, <2>1 DEF Grows, Environment
<1>11. PlanView(c)'
  BY <1>1, <1>4, <1>5, <1>7, <1>8, <1>9, <1>10 DEF PlanView, m, plan
<1>12. \A e, f \in E : e # f => made[e].label # made[f].label
  <2>1. E \subseteq RecordsOf(home[p], p)
    BY <1>1, <1>8 DEF RecordsOf, EnvironmentsOf
  <2> QED
    BY <1>1, <1>8, <2>1 DEF PlanPart, HomeLabelsAreUnique
<1>13. BootView(c)'
  <2>1. {e \in Environments : Upsert(e) \in R} = E
    BY <1>1, <1>5, <1>6
  <2> QED
    BY <1>1, <1>5, <1>6, <1>7, <1>12, <2>1 DEF BootView, Comes, m, p, l, E
<1> QED
  BY <1>1, <1>7, <1>11, <1>13, PlannedKeeps

LEMMA WithKeyStage ==
    ASSUME TypeOK, NEW c \in Commands, JobView(c), job[c].stage \in {"key", "generate", "store"},
           NEW seed, WithKey(c, seed)
    PROVE  job'[c].stage \in {"key", "found", "create", "request"}
<1>1. job[c].command \in {"init", "add", "join"}
  BY DEF JobView
<1>2. job'[c].stage = IF Len(Append(job[c].keys, seed)) < Len(KeyOrder) THEN "key"
                      ELSE CASE job[c].command = "init" -> "found"
                             [] job[c].command = "add" -> "create"
                             [] job[c].command = "join" -> "request"
  BY DEF WithKey, TypeOK, Jobs
<1> QED
  BY <1>1, <1>2

(* A step that ends the command or leads to a stage without a plan.        *)
LEMMA QuietKeeps ==
    ASSUME OneCommandPerMachine, TypeOK, \A d \in Commands : JobView(d), PlanPart,
           NEW c \in Commands, UNCHANGED <<files, relay, home, made>>, Others(c),
           \A f : Write(f) \notin Pending(c), JobView(c)',
           job'[c].stage \notin {"write", "bootstrap"}, faults' = 0 => faults = 0
    PROVE  PlanPart'
<1>1. job'[c].plan = <<>>
  BY DEF JobView
<1>2. Drops(c)
  BY <1>1 DEF Drops
<1> QED
  BY <1>2, DropsKeep

LEMMA CommandPlans ==
    ASSUME OneCommandPerMachine, TypeOK, \A d \in Commands : JobView(d), PlanPart,
           NEW c \in Commands, KeyView(c), Command(c)
    PROVE  PlanPart'
<1>a. BootView(c) /\ LocatorView(MachineOf[c]) /\ PlanView(c)
  BY MachineType DEF PlanPart
<1>b. TypeOK' /\ JobView(c)' /\ Others(c)
  BY <1>a, CommandTypes
<1>c. ASSUME UNCHANGED <<files, relay, history>>, faults' = 0 => faults = 0,
             job[c].stage \notin {"write", "bootstrap"} \/ job[c].plan = <<>>,
             job'[c].stage \notin {"write", "bootstrap"}
      PROVE  PlanPart'
  <2>1. job[c].plan = <<>>
    BY <1>c DEF JobView
  <2>2. \A f : Write(f) \notin Pending(c)
    BY <2>1, EmptyPlan DEF Pending
  <2> QED
    BY <1>b, <1>c, <2>2, QuietKeeps DEF history
<1>1. CASE BeginInit(c)
  <2>1. job'[c].stage = "key"
    BY <1>1, BeginInitHolds
  <2> QED
    BY <1>1, <1>c, <2>1, IdleJob DEF BeginInit
<1>2. CASE \E p \in Projects : Found(c, p)
  BY <1>2, FoundKeeps
<1>3. CASE LookForKey(c)
  <2>1. \/ End(c) \/ To(c, "generate") \/ WithKey(c, key[MachineOf[c]][Wanted(c)])
    BY <1>3 DEF LookForKey
  <2>2. job'[c].stage \in {"idle", "generate", "key", "found", "create", "request"}
    <3>1. CASE End(c)
      BY <3>1, EndHolds, IdleJob
    <3>2. CASE To(c, "generate")
      BY <3>2, ToHolds DEF Stages
    <3>3. CASE WithKey(c, key[MachineOf[c]][Wanted(c)])
      BY <1>3, <3>3, WithKeyStage DEF LookForKey
    <3> QED
      BY <2>1, <3>1, <3>2, <3>3
  <2> QED
    BY <1>3, <1>c, <2>2 DEF LookForKey
<1>4. CASE KeyChainRefuses(c)
  <2>1. job'[c].stage = "generate"
    BY <1>4, KeyChainRefusesHolds
  <2>2. faults' = 0 => faults = 0
    BY <1>4 DEF KeyChainRefuses, TypeOK
  <2> QED
    BY <1>4, <1>c, <2>1, <2>2 DEF KeyChainRefuses
<1>5. CASE StoreNativeKey(c)
  <2>1. job'[c].stage \in {"key", "found", "create", "request"}
    BY <1>5, WithKeyStage DEF StoreNativeKey
  <2> QED
    BY <1>5, <1>c, <2>1 DEF StoreNativeKey
<1>6. CASE CreateKeyFile(c)
  <2>1. job'[c].stage = "store"
    BY <1>6, CreateKeyFileHolds
  <2> QED
    BY <1>6, <1>c, <2>1 DEF CreateKeyFile
<1>7. CASE WriteKeyFile(c)
  <2>1. job'[c].stage \in {"key", "found", "create", "request"}
    BY <1>7, WithKeyStage DEF WriteKeyFile
  <2> QED
    BY <1>7, <1>c, <2>1 DEF WriteKeyFile
<1>8. CASE BeginCommand(c, "open", None) \/ \E l \in Labels : BeginCommand(c, "add", l)
  <2>1. PICK command \in {"open", "add"}, about \in Topics :
          (command = "add" => about \in Labels) /\ BeginCommand(c, command, about)
    BY <1>8 DEF Topics
  <2>2. job'[c].stage = "resolve"
    BY <2>1, BeginCommandHolds
  <2> QED
    BY <1>c, <2>1, <2>2, IdleJob DEF BeginCommand
<1>9. CASE Resolve(c)
  <2>1. End(c) \/ \E stage \in {"load", "fetch"} : To(c, stage)
    BY <1>9 DEF Resolve
  <2>2. job'[c].stage \in {"idle", "load", "fetch"}
    BY <2>1, EndHolds, ToHolds, IdleJob DEF Stages
  <2> QED
    BY <1>9, <1>c, <2>2 DEF Resolve
<1>10. CASE FetchFails(c) \/ OpenProject(c) \/ RequestToJoin(c)
  <2>1. job'[c] = Idle /\ UNCHANGED <<files, relay, history, faults>>
    BY <1>10, EndsHold
  <2>2. job[c].stage \in {"fetch", "load", "request"}
    BY <1>10 DEF FetchFails, OpenProject, RequestToJoin
  <2> QED
    BY <1>c, <2>1, <2>2, IdleJob
<1>11. CASE ImportFails(c)
  <2> DEFINE step == Head(job[c].plan)
  <2>1. job'[c] = Idle /\ UNCHANGED <<files, relay, history, faults>>
    BY <1>11, EndsHold
  <2>2. job[c].plan # <<>> /\ job[c].plan \in Seq(PlanSteps) /\ step.op = "import"
    BY <1>11 DEF ImportFails, TypeOK, Jobs
  <2>3. /\ Pending(c) = {step} \cup Range(Tail(job[c].plan))
        /\ \A next \in Range(Tail(job[c].plan)) : MayFollow(step, next)
    BY <1>a, <2>2, TailOfPlan DEF Pending, PlanView
  <2> HIDE DEF step
  <2>4. \A s \in Pending(c) : s.op # "write"
    BY <2>2, <2>3 DEF MayFollow
  <2>5. \A f : Write(f) \notin Pending(c)
    BY <2>4, StepsDiffer
  <2> QED
    BY <1>b, <2>1, <2>5, IdleJob, QuietKeeps DEF history
<1>12. CASE Fetch(c)
  BY <1>12, FetchKeeps
<1>13. CASE Bootstrapped(c)
  <2>1. job'[c].stage = "load"
    BY <1>a, <1>13, BootstrappedHolds
  <2> QED
    BY <1>13, <1>c, <2>1 DEF Bootstrapped
<1>14. CASE CheckOwner(c)
  <2>1. job'[c].stage \in {"idle", "key"}
    BY <1>14, CheckOwnerHolds
  <2> QED
    BY <1>14, <1>c, <2>1 DEF CheckOwner
<1>15. CASE \E e \in Environments : CreateEnvironment(c, e)
  BY <1>15, CreateEnvironmentKeeps
<1>16. CASE job[c] = Idle /\ \E b \in Bundles : BeginJoin(c, b)
  BY <1>16, BeginJoinKeeps
<1>17. CASE Step(c)
  BY <1>17, StepKeeps
<1>18. CASE Written(c)
  <2>1. job'[c].stage \in {"idle", "key"}
    BY <1>18, WrittenHolds
  <2> QED
    BY <1>18, <1>c, <2>1 DEF Written
<1>19. CASE Crash(c)
  BY <1>19, CrashKeeps
<1> QED
  BY <1>1, <1>2, <1>3, <1>4, <1>5, <1>6, <1>7, <1>8, <1>9, <1>10, <1>11, <1>12, <1>13,
     <1>14, <1>15, <1>16, <1>17, <1>18, <1>19 DEF Command

-----------------------------------------------------------------------------
(***************************************************************************)
(* What travels otherwise.                                                 *)
(***************************************************************************)
LEMMA PublishHolds ==
    ASSUME NEW m \in Machines, Publish(m)
    PROVE  /\ UNCHANGED <<key, minted, files, history, job, faults>>
           /\ \E f \in whole[m] : relay' = relay \cup {f}
  BY DEF Publish

LEMMA PublishKeeps ==
    ASSUME SetupInv, NEW m \in Machines, Publish(m)
    PROVE  SetupInv'
<1>1. /\ UNCHANGED <<key, minted, locator, whole, torn, creator, home, made, job, faults>>
      /\ \E f \in whole[m] : relay' = relay \cup {f}
  BY PublishHolds DEF files, history
<1>2. TypeOK'
  BY <1>1 DEF SetupInv, TypeOK
<1>3. RecordsAreAtHome'
  <2>1. Grows
    BY <1>1, UnchangedGrows DEF files
  <2>2. TypeOK /\ RecordsAreAtHome
    BY DEF SetupInv
  <2>3. ASSUME NEW f, f \in relay' \cup UNION {whole'[n] \cup torn'[n] : n \in Machines}
        PROVE  f \in relay \cup UNION {whole[n] \cup torn[n] : n \in Machines}
    BY <1>1, <2>3
  <2> QED
    BY <1>1, <2>1, <2>2, <2>3, RecordsStayAtHome
<1>4. \A c \in Commands : KeyView(c)' /\ JobView(c)'
  <2>1. \A c \in Commands : KeyView(c)'
    BY <1>1 DEF SetupInv, KeyView, Wanted
  <2>2. \A c \in Commands : job'[c] = job[c] /\ SameMachine(MachineOf[c])
    BY <1>1 DEF SameMachine
  <2> QED
    BY <2>1, <2>2, OtherView DEF SetupInv
<1>5. \A c \in Commands : PlanView(c)' /\ BootView(c)'
  <2> SUFFICES ASSUME NEW c \in Commands PROVE PlanView(c)' /\ BootView(c)'
    OBVIOUS
  <2>1. Grows /\ SameMachine(MachineOf[c]) /\ job'[c] = job[c]
    BY <1>1, UnchangedGrows DEF SameMachine, files
  <2>2. TypeOK /\ RecordsAreAtHome /\ PlanView(c) /\ BootView(c) /\ JobView(c)
        /\ LocatorView(MachineOf[c])
    BY MachineType DEF SetupInv
  <2>3. UpdatesFit(c)
    BY <2>2 DEF PlanView
  <2> QED
    BY <2>1, <2>2, <2>3, OtherPlanView, OtherBootView
<1>6. \A n \in Machines : LocatorView(n)'
  BY <1>1 DEF SetupInv, LocatorView, HasLocator, Listed
<1>7. HomeLabelsAreUnique'
  BY <1>1 DEF SetupInv, HomeLabelsAreUnique, RecordsOf, EnvironmentsOf, Exists
<1>8. Undisturbed'
  BY <1>1 DEF SetupInv, Undisturbed, Pending
<1>9. KeysAreDistinct' /\ CreatorKeepsItsKeys'
  BY <1>1 DEF SetupInv, KeysAreDistinct, CreatorKeepsItsKeys
<1>10. ~MixedBundles => LocatorIsOfOneProject'
  BY <1>1 DEF SetupInv, LocatorIsOfOneProject
<1> QED
  BY <1>2, <1>3, <1>4, <1>5, <1>6, <1>7, <1>8, <1>9, <1>10 DEF SetupInv

LEMMA CheckOutKeeps ==
    ASSUME SetupInv, NEW from \in Machines, NEW m \in Machines, CheckOut(from, m)
    PROVE  SetupInv'
<1>1. /\ UNCHANGED <<key, minted, whole, torn, relay, creator, home, made, job, faults>>
      /\ HasLocator(from) /\ m \notin Founders /\ ~Busy(m)
      /\ locator' = [locator EXCEPT ![m] = locator[from]]
  BY DEF CheckOut, history, HasLocator
<1>2. TypeOK /\ RecordsAreAtHome
  BY DEF SetupInv
<1>3. /\ locator'[m] = locator[from] /\ locator[from] \in Locators
      /\ \A n \in Machines \ {m} : locator'[n] = locator[n] /\ SameMachine(n)
  BY <1>1, <1>2, LocatorType DEF TypeOK, SameMachine
<1>4. Grows
  BY <1>1 DEF Grows, Exists
<1>5. ASSUME NEW c \in Commands, MachineOf[c] = m PROVE job[c] = Idle
  <2>1. job[c].stage = "idle" /\ JobView(c)
    BY <1>1, <1>5 DEF Busy, SetupInv
  <2> QED
    BY <2>1 DEF JobView
<1>6. TypeOK'
  BY <1>1, <1>2, <1>3 DEF TypeOK
<1>7. ASSUME NEW c \in Commands
      PROVE  KeyView(c)' /\ JobView(c)' /\ PlanView(c)' /\ BootView(c)'
  <2>1. KeyView(c)'
    BY <1>1 DEF SetupInv, KeyView, Wanted
  <2>2. CASE MachineOf[c] = m
    <3>1. job'[c] = Idle
      BY <1>1, <1>5, <2>2
    <3>2. job'[c].stage # "bootstrap" /\ job'[c].plan = <<>>
      BY <3>1, IdleJob
    <3> QED
      BY <2>1, <3>1, <3>2, IdleView, EmptyPlanView DEF BootView
  <2>3. CASE MachineOf[c] # m
    <3>1. job'[c] = job[c] /\ SameMachine(MachineOf[c])
      BY <1>1, <1>3, <2>3, MachineType
    <3>2. PlanView(c) /\ BootView(c) /\ JobView(c) /\ LocatorView(MachineOf[c])
      BY MachineType DEF SetupInv
    <3>3. UpdatesFit(c)
      BY <3>2 DEF PlanView
    <3> QED
      BY <1>2, <1>4, <2>1, <3>1, <3>2, <3>3, OtherView, OtherPlanView, OtherBootView
  <2> QED
    BY <2>2, <2>3
<1>8. ASSUME NEW n \in Machines PROVE LocatorView(n)'
  <2>1. CASE n = m
    BY <1>1, <1>3, <2>1 DEF SetupInv, LocatorView
  <2>2. CASE n # m
    BY <1>2, <1>3, <1>4, <2>2, OtherLocatorView DEF SetupInv
  <2> QED
    BY <2>1, <2>2
<1>9. RecordsAreAtHome'
  BY <1>1, <1>2 DEF RecordsAreAtHome, Exists
<1>10. HomeLabelsAreUnique'
  BY <1>1 DEF SetupInv, HomeLabelsAreUnique, RecordsOf, EnvironmentsOf, Exists
<1>11. Undisturbed'
  BY <1>1 DEF SetupInv, Undisturbed, Pending
<1>12. KeysAreDistinct' /\ CreatorKeepsItsKeys'
  BY <1>1 DEF SetupInv, KeysAreDistinct, CreatorKeepsItsKeys
<1>13. ~MixedBundles => LocatorIsOfOneProject'
  BY <1>1, <1>3 DEF SetupInv, LocatorIsOfOneProject, HasLocator
<1> QED
  BY <1>6, <1>7, <1>8, <1>9, <1>10, <1>11, <1>12, <1>13 DEF SetupInv

LEMMA CommandKeeps ==
    ASSUME OneCommandPerMachine, SetupInv, NEW c \in Commands, Command(c)
    PROVE  SetupInv'
<1>1. /\ TypeOK /\ PlanPart /\ KeyPart
      /\ \A d \in Commands : KeyView(d) /\ JobView(d)
      /\ BootView(c) /\ LocatorView(MachineOf[c])
  BY MachineType DEF SetupInv, PlanPart, KeyPart
<1>2. /\ TypeOK' /\ JobView(c)' /\ Others(c)
      /\ \A m \in Machines \ {MachineOf[c]} : SameMachine(m)
  BY <1>1, CommandTypes
<1>3. /\ KeyPart' /\ KeyView(c)'
      /\ \A m \in Machines \ {MachineOf[c]} : key'[m] = key[m] /\ minted'[m] = minted[m]
  BY <1>1, CommandKeys
<1>4. PlanPart'
  BY <1>1, CommandPlans
<1>5. ASSUME NEW d \in Commands \ {c} PROVE KeyView(d)' /\ JobView(d)'
  <2>1. MachineOf[d] \in Machines \ {MachineOf[c]}
    BY MachineType DEF OneCommandPerMachine
  <2>2. /\ job'[d] = job[d] /\ SameMachine(MachineOf[d])
        /\ key'[MachineOf[d]] = key[MachineOf[d]] /\ minted'[MachineOf[d]] = minted[MachineOf[d]]
    BY <1>2, <1>3, <2>1 DEF Others
  <2> QED
    BY <1>1, <2>2, OtherView DEF KeyView, Wanted
<1> QED
  BY <1>2, <1>3, <1>4, <1>5 DEF SetupInv, PlanPart, KeyPart

LEMMA StutterKeeps ==
    ASSUME SetupInv, UNCHANGED vars
    PROVE  SetupInv'
<1>1. UNCHANGED <<key, minted, locator, whole, torn, relay, creator, home, made, job, faults>>
  BY DEF vars, files, history
<1>2. /\ TypeOK' /\ KeysAreDistinct' /\ CreatorKeepsItsKeys'
      /\ \A m \in Machines : LocatorView(m)'
  BY <1>1 DEF SetupInv, TypeOK, KeysAreDistinct, CreatorKeepsItsKeys, LocatorView, HasLocator, Listed
<1>3. \A c \in Commands : KeyView(c)' /\ JobView(c)'
  BY <1>1 DEF SetupInv, KeyView, JobView, Wanted, HasLocator, Exists
<1>4. \A c \in Commands : PlanView(c)' /\ BootView(c)'
  <2> SUFFICES ASSUME NEW c \in Commands PROVE PlanView(c)' /\ BootView(c)'
    OBVIOUS
  <2>1. Grows /\ SameMachine(MachineOf[c]) /\ job'[c] = job[c]
    BY <1>1, UnchangedGrows DEF SameMachine, files
  <2>2. TypeOK /\ RecordsAreAtHome /\ PlanView(c) /\ BootView(c) /\ JobView(c)
        /\ LocatorView(MachineOf[c])
    BY MachineType DEF SetupInv
  <2>3. UpdatesFit(c)
    BY <2>2 DEF PlanView
  <2> QED
    BY <2>1, <2>2, <2>3, OtherPlanView, OtherBootView
<1>5. RecordsAreAtHome' /\ HomeLabelsAreUnique' /\ Undisturbed'
  BY <1>1 DEF SetupInv, RecordsAreAtHome, HomeLabelsAreUnique, Undisturbed,
              RecordsOf, EnvironmentsOf, Exists, Pending
<1>6. ~MixedBundles => LocatorIsOfOneProject'
  BY <1>1 DEF SetupInv, LocatorIsOfOneProject
<1> QED
  BY <1>2, <1>3, <1>4, <1>5, <1>6 DEF SetupInv

LEMMA StartsWell ==
    ASSUME Init
    PROVE  SetupInv
<1>1. /\ \A m \in Machines : locator[m] = None /\ whole[m] = {} /\ torn[m] = {} /\ minted[m] = 0
      /\ \A m \in Machines : key[m] = [k \in KeyKinds |-> None]
      /\ relay = {} /\ faults = 0
      /\ \A p \in Projects : creator[p] = None /\ home[p] = None
      /\ \A e \in Environments : made[e] = None
      /\ \A c \in Commands : job[c] = Idle
  BY DEF Init
<1>2. TypeOK
  BY IdleJob, SetupAssumption DEF Init, TypeOK
<1>3. KeysAreDistinct /\ CreatorKeepsItsKeys
  <2>1. \A m \in Machines, k \in KeyKinds : key[m][k] = None
    BY <1>1
  <2> QED
    BY <1>1, <2>1, MarksAssumption DEF KeysAreDistinct, CreatorKeepsItsKeys
<1>4. ASSUME NEW c \in Commands PROVE KeyView(c) /\ JobView(c) /\ PlanView(c) /\ BootView(c)
  <2>1. /\ job[c] = Idle /\ job[c].stage = "idle" /\ job[c].plan = <<>> /\ job[c].keys = <<>>
        /\ DOMAIN job[c].keys = {}
    BY <1>1, IdleJob
  <2>2. KeyView(c) /\ BootView(c)
    BY <2>1 DEF KeyView, BootView
  <2>3. JobView(c)
    BY <2>1, MarksAssumption DEF JobView, Idle, Topics, CommandNames
  <2>4. Pending(c) = {} /\ Ordered(job[c].plan) /\ Completed(job[c].plan)
    BY <2>1, EmptyPlan DEF Pending
  <2>5. ResetsLate(job[c].plan)
    BY <2>1 DEF ResetsLate
  <2>6. PlanView(c)
    BY <2>4, <2>5 DEF PlanView, UpdatesFit, RecordsFit, FounderPlan, HasLocator
  <2> QED
    BY <2>2, <2>3, <2>6
<1>5. \A m \in Machines : ~HasLocator(m)
  BY <1>1 DEF HasLocator
<1>6. /\ \A m \in Machines : LocatorView(m)
      /\ RecordsAreAtHome /\ HomeLabelsAreUnique /\ Undisturbed /\ LocatorIsOfOneProject
  <2>1. \A m \in Machines : LocatorView(m)
    BY <1>5 DEF LocatorView
  <2>2. LocatorIsOfOneProject
    BY <1>5 DEF LocatorIsOfOneProject, HasLocator
  <2>3. RecordsAreAtHome /\ HomeLabelsAreUnique
    BY <1>1 DEF RecordsAreAtHome, HomeLabelsAreUnique, RecordsOf, EnvironmentsOf
  <2>4. Undisturbed
    BY <1>1 DEF Undisturbed
  <2> QED
    BY <2>1, <2>2, <2>3, <2>4
<1> QED
  BY <1>2, <1>3, <1>4, <1>6 DEF SetupInv

LEMMA NextKeeps ==
    ASSUME OneCommandPerMachine, SetupInv, [Next]_vars
    PROVE  SetupInv'
  BY CommandKeeps, PublishKeeps, CheckOutKeeps, StutterKeeps DEF Next

-----------------------------------------------------------------------------
(***************************************************************************)
(* The theorems.  OneCommandPerMachine is their only assumption about how  *)
(* the program is used, but for the one about bundles.                     *)
(***************************************************************************)

(* What holds between the steps of a command, on every machine and for     *)
(* every number of machines, commands, projects, environments and labels:  *)
(* what is left of its plan, together with the files that are there, is    *)
(* enough for the properties below, wherever it breaks off.                *)
THEOREM SetupHolds == ASSUME OneCommandPerMachine PROVE Spec => []SetupInv
<1>1. Init => SetupInv
  BY StartsWell
<1>2. SetupInv /\ [Next]_vars => SetupInv'
  BY NextKeeps
<1> QED
  BY <1>1, <1>2, PTL DEF Spec

(* The user who ran init stays the owner: the keys that signed a genesis   *)
(* remain the stored keys of the machine, whatever crashed in between      *)
(* (load_or_create_device_signing_key).                                    *)
THEOREM FoundersStayOwners == ASSUME OneCommandPerMachine PROVE Spec => []CreatorKeepsItsKeys
<1>1. SetupInv => CreatorKeepsItsKeys
  BY DEF SetupInv
<1> QED
  BY <1>1, SetupHolds, PTL

(* The locator of a project is written last, by init and by env add, so    *)
(* that everything it stands for can be read where it was made.            *)
THEOREM LocatorIsWrittenLast == ASSUME OneCommandPerMachine PROVE Spec => []LocatorIsBacked
<1>1. SetupInv => LocatorIsBacked
  <2> SUFFICES ASSUME SetupInv, NEW m \in Machines, HasLocator(m), home[locator[m].project] = m
               PROVE  Listed(m) \subseteq whole[m]
    BY DEF LocatorIsBacked, Listed, HasLocator
  <2>1. TypeOK /\ LocatorView(m)
    BY DEF SetupInv
  <2>2. m \in Founders
    BY <2>1, LocatorType, HomeType DEF LocatorView
  <2> QED
    BY <2>1, <2>2 DEF LocatorView
<1> QED
  BY <1>1, SetupHolds, PTL

(* Every locator lists environments of its own project only, where no      *)
(* bundle of another project is joined in a checkout (prepare_join_project *)
(* does not look).                                                         *)
THEOREM LocatorsDoNotMix ==
    ASSUME OneCommandPerMachine, ~MixedBundles PROVE Spec => []LocatorIsOfOneProject
<1>1. SetupInv => LocatorIsOfOneProject
  BY DEF SetupInv
<1> QED
  BY <1>1, SetupHolds, PTL

(* No data directory has two environments of one label, also where an env  *)
(* add broke off before it came to the locator: the labels in use are      *)
(* those of the records there are (environment_label_exists).              *)
THEOREM SelectorsFindOne == ASSUME OneCommandPerMachine PROVE Spec => []LabelsAreUnique
<1>1. SetupInv => LabelsAreUnique
  <2> SUFFICES ASSUME SetupInv, NEW m \in Machines, NEW p \in Projects,
                      NEW e \in RecordsOf(m, p), NEW f \in RecordsOf(m, p), e # f
               PROVE  made[e].label # made[f].label
    BY DEF LabelsAreUnique
  <2>1. TypeOK /\ RecordsAreAtHome /\ HomeLabelsAreUnique
    BY DEF SetupInv
  <2>2. \A d \in RecordsOf(m, p) : /\ d \in Environments /\ made[d] # None /\ made[d].project = p
                                   /\ Exists(m, Environment(d))
    BY DEF RecordsOf, EnvironmentsOf
  <2>3. home[p] # None /\ home[p] \in Machines
    BY <2>1, <2>2, HomeType DEF RecordsAreAtHome
  <2>4. \A d \in RecordsOf(m, p) : Exists(home[p], Environment(d))
    BY <2>1, <2>2, <2>3 DEF RecordsAreAtHome, Exists
  <2>5. {e, f} \subseteq RecordsOf(home[p], p)
    BY <2>2, <2>4 DEF RecordsOf, EnvironmentsOf
  <2> QED
    BY <2>1, <2>3, <2>5 DEF HomeLabelsAreUnique
<1> QED
  BY <1>1, SetupHolds, PTL

(* Without a crash, a failed write or a key chain that refuses, a command  *)
(* that finds the directory of its project can read it: no command leaves  *)
(* a directory half written when it ends by itself (load_project).         *)
THEOREM WholeUnlessInterrupted ==
    ASSUME OneCommandPerMachine PROVE Spec => []OpensUnlessInterrupted
<1>1. ASSUME OneCommandPerMachine, SetupInv, faults = 0, NEW c \in Commands, job[c].stage = "load"
      PROVE  Readable(MachineOf[c], locator[MachineOf[c]].project)
  <2> DEFINE m == MachineOf[c]
             p == locator[m].project
  <2>1. m \in Machines /\ JobView(c) /\ TypeOK
    BY <1>1, MachineType DEF SetupInv
  <2>2. HasLocator(m) /\ Exists(m, Metadata(p)) /\ job[c].plan = <<>>
    BY <1>1, <2>1 DEF JobView
  <2>3. \A d \in Commands : MachineOf[d] = m => Pending(d) = {}
    BY <1>1, <2>2, EmptyPlan DEF OneCommandPerMachine, Pending
  <2>4. /\ torn[m] = {}
        /\ \A pair \in Partner : pair[1] \in whole[m] => pair[2] \in whole[m]
    BY <1>1, <2>1, <2>3 DEF SetupInv, Undisturbed
  <2>5. p \in Projects
    BY <2>1, <2>2, LocatorType
  <2>6. \A f : Exists(m, f) => f \in whole[m]
    BY <2>4 DEF Exists
  <2>7. Genesis(p) \in whole[m]
    <3>1. <<Metadata(p), Genesis(p)>> \in Partner
      BY <2>5 DEF Partner
    <3> QED
      BY <2>2, <2>4, <2>6, <3>1
  <2>8. ASSUME NEW e \in RecordsOf(m, p) PROVE {Environment(e), Local(e)} \subseteq whole[m]
    <3>1. e \in Environments /\ Environment(e) \in whole[m]
      BY <2>6, <2>8 DEF RecordsOf, EnvironmentsOf
    <3>2. <<Environment(e), Local(e)>> \in Partner
      BY <3>1 DEF Partner
    <3> QED
      BY <2>4, <3>1, <3>2
  <2> QED
    BY <2>7, <2>8 DEF Readable
<1>2. SetupInv => OpensUnlessInterrupted
  BY <1>1 DEF OpensUnlessInterrupted
<1> QED
  BY <1>2, SetupHolds, PTL

(* A bootstrap that comes to its end leaves the locator as it found it:    *)
(* the reset drops the entries, and each of them is entered again          *)
(* (bootstrap_from_relay).                                                 *)
THEOREM BootstrapRestores == ASSUME OneCommandPerMachine PROVE Spec => BootstrapKeepsTheLocator
<1>1. ASSUME SetupInv, NEW c \in Commands, Bootstrapped(c)
      PROVE  locator[MachineOf[c]] = job[c].about.read
  <2> DEFINE m == MachineOf[c]
             read == job[c].about.read
  <2>1. job[c].stage = "bootstrap" /\ job[c].plan = <<>>
    BY <1>1 DEF Bootstrapped
  <2>2. TypeOK /\ JobView(c) /\ BootView(c) /\ m \in Machines
    BY <1>1, MachineType DEF SetupInv
  <2>3. HasLocator(m) /\ read \in Locators
    BY <2>1, <2>2 DEF JobView
  <2>4. Pending(c) = {}
    BY <2>1, EmptyPlan DEF Pending
  <2>5. locator[m].project = read.project /\ locator[m].environments = read.environments
    BY <2>1, <2>2, <2>4 DEF BootView
  <2>6. locator[m] \in Locators
    BY <2>2, <2>3, LocatorType
  <2> HIDE DEF read, m
  <2>7. locator[m] = read
    BY <2>3, <2>5, <2>6 DEF Locators
  <2> QED
    BY <2>7 DEF m, read
<1>2. SetupInv =>
        [\A c \in Commands : Bootstrapped(c) => locator[MachineOf[c]] = job[c].about.read]_vars
  BY <1>1
<1> QED
  BY <1>2, SetupHolds, PTL DEF BootstrapKeepsTheLocator
=============================================================================
