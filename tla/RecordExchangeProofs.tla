------------------------ MODULE RecordExchangeProofs ------------------------
(***************************************************************************)
(* What the encodings of a record promise, for any records whose fields    *)
(* have values of their types: a field reads back as it was written, a     *)
(* sequence of fields can be split in one way only, a file gives back the  *)
(* record it was written from, the bytes that are signed name one record,  *)
(* and an envelope gives back what it carries, or nothing when it ends     *)
(* early.  RecordInv is the inductive invariant of the life of a record,   *)
(* and MessageInv, on top of it, that of a message on its way.             *)
(***************************************************************************)
EXTENDS RecordExchange, SequenceTheorems, WellFoundedInduction, TLAPS

-----------------------------------------------------------------------------
(* Induction over the naturals, and the concatenation of many sequences.   *)

\* A set of naturals with 0 and the successor of every member has them all.
LEMMA NatsByInduction ==
    ASSUME NEW S, 0 \in S, \A n \in Nat : n \in S => n + 1 \in S
    PROVE  Nat \subseteq S
<1> DEFINE Less == {p \in Nat \X Nat : p[1] < p[2]}
           Rest == Nat \ S
<1>1. IsWellFoundedOn(Less, Nat)
  BY NatLessThanWellFounded DEF OpToRel
<1> SUFFICES ASSUME Rest /= {} PROVE FALSE
  OBVIOUS
<1>2. PICK x \in Rest : \A y \in Rest : ~(<<y, x>> \in Less)
  <2>1. Rest \subseteq Nat /\ Rest /= {}
    OBVIOUS
  <2> HIDE DEF Rest, Less
  <2> QED BY <1>1, <2>1, WFMin, Zenon
<1>3. x \in Nat /\ x /= 0 /\ x \notin S
  OBVIOUS
<1>4. x - 1 \in Nat /\ <<x - 1, x>> \in Less
  BY <1>3
<1>5. x - 1 \in S
  BY <1>2, <1>4
<1>6. (x - 1) + 1 = x
  BY <1>3
<1> QED BY <1>3, <1>4, <1>5, <1>6

\* FlattenSeq concatenates from left to right: there are the concatenations of
\* the first one, two, ... sequences, and it is the last of them.
LEMMA FlattenSteps ==
    ASSUME NEW T, NEW seqs \in Seq(Seq(T)), Len(seqs) > 0
    PROVE  \E g \in [1..Len(seqs) -> Seq(T)] :
             /\ g[1] = seqs[1]
             /\ \A i \in 1..Len(seqs) : i /= 1 => g[i] = g[i - 1] \o seqs[i]
             /\ FlattenSeq(seqs) = g[Len(seqs)]
<1> DEFINE n == Len(seqs)
           Good(g, m) == \A i \in 1..m : g[i] = IF i = 1 THEN seqs[i] ELSE g[i - 1] \o seqs[i]
           Whole(g) == g = [i \in 1..n |-> IF i = 1 THEN seqs[i] ELSE g[i - 1] \o seqs[i]]
           S == {m \in Nat : m <= n => \E g \in [1..m -> Seq(T)] : Good(g, m)}
<1>1. n \in Nat /\ n > 0 /\ \A i \in 1..n : seqs[i] \in Seq(T)
  OBVIOUS
<1>2. \A s, t \in Seq(T) : s \o t \in Seq(T)
  BY ConcatProperties
<1> HIDE DEF n
<1>3. 0 \in S
  <2>1. <<>> \in [1..0 -> Seq(T)] /\ Good(<<>>, 0)
    OBVIOUS
  <2> QED BY <2>1
<1>4. ASSUME NEW m \in Nat, m \in S PROVE m + 1 \in S
  <2> SUFFICES ASSUME m + 1 <= n
                PROVE  \E h \in [1..(m + 1) -> Seq(T)] : Good(h, m + 1)
    OBVIOUS
  <2>1. PICK g \in [1..m -> Seq(T)] : Good(g, m)
    BY <1>1, <1>4
  <2> DEFINE h == [i \in 1..(m + 1) |-> IF i <= m THEN g[i]
                                        ELSE IF i = 1 THEN seqs[i] ELSE g[i - 1] \o seqs[i]]
  <2>2. h \in [1..(m + 1) -> Seq(T)]
    <3> SUFFICES ASSUME NEW i \in 1..(m + 1) PROVE h[i] \in Seq(T)
      OBVIOUS
    <3>1. CASE i <= m
      BY <3>1
    <3>2. CASE i = m + 1 /\ i = 1
      BY <1>1, <3>2
    <3>3. CASE i = m + 1 /\ i /= 1
      <4>1. i - 1 \in 1..m /\ i \in 1..n /\ ~(i <= m)
        BY <3>3, <1>1
      <4>2. g[i - 1] \in Seq(T) /\ seqs[i] \in Seq(T)
        BY <4>1, <1>1
      <4> QED BY <1>2, <3>3, <4>1, <4>2
    <3> QED BY <3>1, <3>2, <3>3
  <2>3. /\ \A i \in 1..m : h[i] = g[i]
        /\ h[m + 1] = IF m + 1 = 1 THEN seqs[m + 1] ELSE g[(m + 1) - 1] \o seqs[m + 1]
    <3>1. /\ \A i \in 1..m : i \in 1..(m + 1) /\ i <= m
          /\ m + 1 \in 1..(m + 1) /\ ~(m + 1 <= m)
      OBVIOUS
    <3> QED BY <3>1, Zenon
  <2> HIDE DEF h
  <2>4. Good(h, m + 1)
    <3> SUFFICES ASSUME NEW i \in 1..(m + 1)
                  PROVE  h[i] = IF i = 1 THEN seqs[i] ELSE h[i - 1] \o seqs[i]
      OBVIOUS
    <3>1. i /= 1 => i - 1 \in 1..m /\ h[i - 1] = g[i - 1]
      BY <2>3
    <3>2. CASE i <= m
      <4>1. i \in 1..m
        BY <3>2
      <4>2. g[i] = IF i = 1 THEN seqs[i] ELSE g[i - 1] \o seqs[i]
        BY <2>1, <4>1
      <4> QED BY <2>3, <3>1, <4>1, <4>2
    <3>3. CASE i = m + 1
      BY <2>3, <3>1, <3>3
    <3> QED BY <3>2, <3>3
  <2> QED BY <2>2, <2>4
<1>5. n \in S
  <2> HIDE DEF S
  <2>1. Nat \subseteq S
    BY <1>3, <1>4, NatsByInduction
  <2> QED BY <1>1, <2>1
<1>6. \E g : Whole(g)
  <2>1. PICK g \in [1..n -> Seq(T)] : Good(g, n)
    <3> HIDE DEF Good
    <3> QED BY <1>1, <1>5
  <2>2. Whole(g)
    BY <2>1
  <2> HIDE DEF Whole
  <2> QED BY <2>2
<1> DEFINE f == CHOOSE g : Whole(g)
<1>7. Whole(f)
  <2> HIDE DEF Whole
  <2> QED BY <1>6
<1>8. FlattenSeq(seqs) = f[n]
  BY <1>1 DEF FlattenSeq, n
<1> HIDE DEF f
<1>9. /\ f = [i \in 1..n |-> f[i]]
      /\ f[1] = seqs[1]
      /\ \A i \in 1..n : i /= 1 => f[i] = f[i - 1] \o seqs[i]
  <2> DEFINE b == [i \in 1..n |-> IF i = 1 THEN seqs[i] ELSE f[i - 1] \o seqs[i]]
  <2>1. \A i \in 1..n : b[i] = IF i = 1 THEN seqs[i] ELSE f[i - 1] \o seqs[i]
    BY Zenon
  <2>2. b = [i \in 1..n |-> b[i]]
    BY Zenon
  <2>3. f = b
    BY <1>7
  <2> HIDE DEF b
  <2>4. 1 \in 1..n
    BY <1>1
  <2>5. f = [i \in 1..n |-> f[i]]
    BY <2>2, <2>3, Zenon
  <2> QED BY <2>1, <2>3, <2>4, <2>5, Zenon
<1> HIDE DEF Whole
<1> DEFINE R == {m \in Nat : m + 1 <= n => f[m + 1] \in Seq(T)}
<1>10. 0 \in R
  BY <1>1, <1>9
<1>11. ASSUME NEW m \in Nat, m \in R PROVE m + 1 \in R
  <2> SUFFICES ASSUME m + 2 <= n PROVE f[m + 2] \in Seq(T)
    OBVIOUS
  <2>1. m + 2 \in 1..n /\ m + 2 /= 1 /\ (m + 2) - 1 = m + 1
    OBVIOUS
  <2>2. f[m + 2] = f[m + 1] \o seqs[m + 2]
    BY <1>9, <2>1
  <2>3. f[m + 1] \in Seq(T) /\ seqs[m + 2] \in Seq(T)
    BY <1>1, <1>11, <2>1
  <2> QED BY <1>2, <2>2, <2>3
<1>12. f \in [1..n -> Seq(T)]
  <2>1. Nat \subseteq R
    <3> HIDE DEF R
    <3> QED BY <1>10, <1>11, NatsByInduction
  <2> SUFFICES ASSUME NEW i \in 1..n PROVE f[i] \in Seq(T)
    BY <1>9
  <2>2. i - 1 \in Nat /\ (i - 1) + 1 = i /\ i <= n
    BY <1>1
  <2> QED BY <2>1, <2>2
<1> QED BY <1>8, <1>9, <1>12 DEF n

\* The positions of a concatenation.
LEMMA ConcatPositions ==
    ASSUME NEW T, NEW s \in Seq(T), NEW t \in Seq(T)
    PROVE  /\ s \o t \in Seq(T)
           /\ Len(s \o t) = Len(s) + Len(t)
           /\ \A i \in 1..Len(s) : i \in 1..Len(s \o t) /\ (s \o t)[i] = s[i]
           /\ \A i \in 1..Len(t) : Len(s) + i \in 1..Len(s \o t) /\ (s \o t)[Len(s) + i] = t[i]
           /\ \A i \in 1..Len(s \o t) :
                i \in 1..Len(s) \/ \E k \in 1..Len(t) : i = Len(s) + k
<1> DEFINE c == s \o t
<1>1. /\ c \in Seq(T) /\ Len(c) = Len(s) + Len(t)
      /\ \A i \in 1..(Len(s) + Len(t)) : c[i] = IF i <= Len(s) THEN s[i] ELSE t[i - Len(s)]
  BY ConcatProperties
<1>2. Len(s) \in Nat /\ Len(t) \in Nat
  OBVIOUS
<1> HIDE DEF c
<1>3. ASSUME NEW i \in 1..Len(s) PROVE i \in 1..Len(c) /\ c[i] = s[i]
  BY <1>1, <1>2
<1>4. ASSUME NEW i \in 1..Len(t) PROVE Len(s) + i \in 1..Len(c) /\ c[Len(s) + i] = t[i]
  <2>1. Len(s) + i \in 1..(Len(s) + Len(t)) /\ ~(Len(s) + i <= Len(s)) /\ (Len(s) + i) - Len(s) = i
    BY <1>2
  <2> QED BY <1>1, <2>1
<1>5. ASSUME NEW i \in 1..Len(c)
      PROVE  i \in 1..Len(s) \/ \E k \in 1..Len(t) : i = Len(s) + k
  <2>1. CASE i <= Len(s)
    BY <1>2, <2>1
  <2>2. CASE ~(i <= Len(s))
    <3>1. i - Len(s) \in 1..Len(t) /\ i = Len(s) + (i - Len(s))
      BY <1>1, <1>2, <2>2
    <3> QED BY <3>1
  <2> QED BY <2>1, <2>2
<1> QED BY <1>1, <1>3, <1>4, <1>5 DEF c

\* What is in a concatenation is in one of the sequences, and the other way
\* round; the last one is its end.
IsConcat(c, seqs, T) ==
    /\ c \in Seq(T)
    /\ \A j \in 1..Len(c) : \E i \in 1..Len(seqs) : \E k \in 1..Len(seqs[i]) : c[j] = seqs[i][k]
    /\ \A i \in 1..Len(seqs) : \A k \in 1..Len(seqs[i]) : \E j \in 1..Len(c) : c[j] = seqs[i][k]
    /\ \E p \in Seq(T) :
         /\ c = p \o seqs[Len(seqs)]
         /\ \A j \in 1..Len(p) : \E i \in 1..(Len(seqs) - 1) :
              \E k \in 1..Len(seqs[i]) : p[j] = seqs[i][k]

LEMMA FlattenHolds ==
    ASSUME NEW T, NEW seqs \in Seq(Seq(T)), Len(seqs) > 0
    PROVE  IsConcat(FlattenSeq(seqs), seqs, T)
<1> DEFINE n == Len(seqs)
           In(s, m) == \A j \in 1..Len(s) : \E i \in 1..m :
                         \E k \in 1..Len(seqs[i]) : s[j] = seqs[i][k]
           Has(s, m) == \A i \in 1..m : \A k \in 1..Len(seqs[i]) :
                          \E j \in 1..Len(s) : s[j] = seqs[i][k]
<1>1. n \in Nat /\ n > 0 /\ \A i \in 1..n : seqs[i] \in Seq(T)
  OBVIOUS
<1>2. PICK g \in [1..n -> Seq(T)] :
        /\ g[1] = seqs[1]
        /\ \A i \in 1..n : i /= 1 => g[i] = g[i - 1] \o seqs[i]
        /\ FlattenSeq(seqs) = g[n]
  BY FlattenSteps
<1> HIDE DEF n
<1> DEFINE S == {m \in Nat : m + 1 <= n => In(g[m + 1], m + 1) /\ Has(g[m + 1], m + 1)}
<1>3. 0 \in S
  <2>1. g[1] = seqs[1] /\ 1..1 = {1}
    BY <1>2
  <2>2. In(g[1], 1) /\ Has(g[1], 1)
    BY <2>1
  <2>3. 0 + 1 = 1
    OBVIOUS
  <2> HIDE DEF In, Has
  <2> QED BY <2>2, <2>3
<1>4. ASSUME NEW m \in Nat, m \in S PROVE m + 1 \in S
  <2> SUFFICES ASSUME (m + 1) + 1 <= n
                PROVE  In(g[(m + 1) + 1], (m + 1) + 1) /\ Has(g[(m + 1) + 1], (m + 1) + 1)
    OBVIOUS
  <2> DEFINE s == g[m + 1]
             l == m + 2
             t == seqs[l]
             c == s \o t
  <2>1. l \in 1..n /\ l /= 1 /\ l - 1 = m + 1 /\ m + 1 \in 1..n /\ (m + 1) + 1 = l
    BY <1>1
  <2>2. g[l] = c
    BY <1>2, <2>1
  <2>3. s \in Seq(T) /\ t \in Seq(T)
    BY <1>1, <1>2, <2>1
  <2>4. In(s, m + 1) /\ Has(s, m + 1)
    BY <1>4, <2>1
  <2>5. /\ c \in Seq(T)
        /\ Len(c) = Len(s) + Len(t)
        /\ \A i \in 1..Len(s) : i \in 1..Len(c) /\ c[i] = s[i]
        /\ \A i \in 1..Len(t) : Len(s) + i \in 1..Len(c) /\ c[Len(s) + i] = t[i]
        /\ \A i \in 1..Len(c) : i \in 1..Len(s) \/ \E k \in 1..Len(t) : i = Len(s) + k
    <3> HIDE DEF s, t
    <3> QED BY <2>3, ConcatPositions, ZenonT(30)
  <2>6. \A i \in 1..l : i \in 1..(m + 1) \/ i = l
    BY <2>1
  <2>7. 1..(m + 1) \subseteq 1..l /\ l \in 1..l
    BY <2>1
  <2> HIDE DEF s, l, c
  <2>8. In(c, l)
    <3> SUFFICES ASSUME NEW j \in 1..Len(c)
                  PROVE  \E i \in 1..l : \E k \in 1..Len(seqs[i]) : c[j] = seqs[i][k]
      OBVIOUS
    <3>1. CASE j \in 1..Len(s)
      <4>1. PICK i \in 1..(m + 1) : \E k \in 1..Len(seqs[i]) : s[j] = seqs[i][k]
        BY <2>4, <3>1
      <4> QED BY <2>5, <2>7, <3>1, <4>1, Zenon
    <3>2. CASE \E k \in 1..Len(t) : j = Len(s) + k
      BY <2>5, <2>7, <3>2, Zenon
    <3> QED BY <2>5, <3>1, <3>2
  <2>9. Has(c, l)
    <3> SUFFICES ASSUME NEW i \in 1..l, NEW k \in 1..Len(seqs[i])
                  PROVE  \E j \in 1..Len(c) : c[j] = seqs[i][k]
      OBVIOUS
    <3>1. CASE i \in 1..(m + 1)
      <4>1. PICK j \in 1..Len(s) : s[j] = seqs[i][k]
        BY <2>4, <3>1
      <4> QED BY <2>5, <4>1, Zenon
    <3>2. CASE i = l
      BY <2>5, <3>2, Zenon
    <3> QED BY <2>6, <3>1, <3>2
  <2> HIDE DEF In, Has, t
  <2> QED BY <2>1, <2>2, <2>8, <2>9
<1>5. ASSUME NEW m \in 1..n PROVE In(g[m], m) /\ Has(g[m], m)
  <2>1. Nat \subseteq S
    <3> HIDE DEF S
    <3> QED BY <1>3, <1>4, NatsByInduction
  <2>2. m - 1 \in Nat /\ (m - 1) + 1 = m /\ m <= n
    BY <1>1
  <2>3. m - 1 \in S
    <3> HIDE DEF S
    <3> QED BY <2>1, <2>2
  <2> HIDE DEF In, Has
  <2> QED BY <2>2, <2>3
<1>6. n \in 1..n
  BY <1>1
<1>7. \E p \in Seq(T) : g[n] = p \o seqs[n] /\ In(p, n - 1)
  <2>1. CASE n = 1
    <3>1. <<>> \in Seq(T) /\ g[n] = <<>> \o seqs[n]
      BY <1>1, <1>2, <2>1, EmptySeq, ConcatEmptySeq
    <3>2. In(<<>>, n - 1)
      OBVIOUS
    <3> HIDE DEF In
    <3> QED BY <3>1, <3>2
  <2>2. CASE n /= 1
    <3>1. n - 1 \in 1..n
      BY <1>1, <2>2
    <3>2. g[n] = g[n - 1] \o seqs[n] /\ g[n - 1] \in Seq(T)
      BY <1>2, <1>6, <2>2, <3>1
    <3>3. In(g[n - 1], n - 1)
      BY <1>5, <3>1
    <3> HIDE DEF In
    <3> QED BY <3>2, <3>3
  <2> QED BY <2>1, <2>2
<1>8. In(g[n], n) /\ Has(g[n], n) /\ g[n] \in Seq(T)
  BY <1>2, <1>5, <1>6
<1> DEFINE c == FlattenSeq(seqs)
<1>9. c = g[n]
  BY <1>2
<1> HIDE DEF c, In, Has
<1>10. /\ c \in Seq(T) /\ In(c, n) /\ Has(c, n)
       /\ \E p \in Seq(T) : c = p \o seqs[n] /\ In(p, n - 1)
  BY <1>7, <1>8, <1>9
<1>11. IsConcat(c, seqs, T)
  BY <1>10, Zenon DEF IsConcat, n, In, Has
<1> QED BY <1>11 DEF c

-----------------------------------------------------------------------------
(* Fields of bytes.                                                        *)

LEMMA PushFieldType ==
    ASSUME NEW b \in Bytes
    PROVE  /\ PushField(b) \in Bytes
           /\ Len(PushField(b)) = Len(b) + 1
           /\ PushField(b)[1] = Len(b)
           /\ \A i \in 1..Len(b) : PushField(b)[i + 1] = b[i]
BY DEF Bytes, PushField

LEMMA PushFieldThenRest ==
    ASSUME NEW b \in Bytes, NEW rest \in Bytes
    PROVE  /\ PushField(b) \o rest \in Bytes
           /\ Len(PushField(b) \o rest) = Len(b) + 1 + Len(rest)
           /\ (PushField(b) \o rest)[1] = Len(b)
           /\ \A i \in 1..Len(b) : (PushField(b) \o rest)[i + 1] = b[i]
           /\ \A i \in 1..Len(rest) : (PushField(b) \o rest)[Len(b) + 1 + i] = rest[i]
<1> DEFINE f == PushField(b)
<1>1. /\ f \in Seq(Nat) /\ Len(f) = Len(b) + 1 /\ f[1] = Len(b)
      /\ \A i \in 1..Len(b) : f[i + 1] = b[i]
  BY PushFieldType DEF Bytes
<1>2. b \in Seq(Nat) /\ rest \in Seq(Nat) /\ Len(b) \in Nat /\ Len(rest) \in Nat
  BY DEF Bytes
<1> HIDE DEF f
<1>3. /\ f \o rest \in Seq(Nat)
      /\ Len(f \o rest) = Len(f) + Len(rest)
      /\ \A i \in 1..(Len(f) + Len(rest)) :
           (f \o rest)[i] = IF i <= Len(f) THEN f[i] ELSE rest[i - Len(f)]
  <2>1. f \in Seq(Nat) /\ rest \in Seq(Nat)
    BY <1>1, <1>2
  <2> QED BY <2>1, ConcatProperties, ZenonT(30)
<1> DEFINE g == f \o rest
<1> HIDE DEF g
<1>4. \A i \in 1..(Len(b) + 1 + Len(rest)) :
        g[i] = IF i <= Len(b) + 1 THEN f[i] ELSE rest[i - (Len(b) + 1)]
  BY <1>1, <1>3 DEF g
<1>5. g[1] = Len(b) /\ \A i \in 1..Len(b) : g[i + 1] = b[i]
  <2>1. g[1] = Len(b)
    BY <1>1, <1>2, <1>4
  <2>2. ASSUME NEW i \in 1..Len(b) PROVE g[i + 1] = b[i]
    <3>1. i + 1 \in 1..(Len(b) + 1 + Len(rest)) /\ i + 1 <= Len(b) + 1
      BY <1>2
    <3>2. g[i + 1] = f[i + 1]
      BY <1>4, <3>1
    <3> QED BY <1>1, <3>2
  <2> QED BY <2>1, <2>2
<1>6. \A i \in 1..Len(rest) : g[Len(b) + 1 + i] = rest[i]
  <2> SUFFICES ASSUME NEW i \in 1..Len(rest) PROVE g[Len(b) + 1 + i] = rest[i]
    OBVIOUS
  <2>1. /\ Len(b) + 1 + i \in 1..(Len(b) + 1 + Len(rest))
        /\ ~(Len(b) + 1 + i <= Len(b) + 1) /\ (Len(b) + 1 + i) - (Len(b) + 1) = i
    BY <1>2
  <2> QED BY <1>4, <2>1
<1> QED BY <1>1, <1>3, <1>5, <1>6 DEF Bytes, f, g

\* read_field after push_field returns the bytes that were pushed and leaves
\* the cursor at what follows, whatever follows.
THEOREM FieldReadsBack ==
    ASSUME NEW b \in Bytes, NEW rest \in Bytes
    PROVE  ReadField(PushField(b) \o rest) = Read(b, rest)
<1> DEFINE c == PushField(b) \o rest
<1>1. /\ c \in Seq(Nat) /\ Len(c) = Len(b) + 1 + Len(rest) /\ c[1] = Len(b)
      /\ \A i \in 1..Len(b) : c[i + 1] = b[i]
      /\ \A i \in 1..Len(rest) : c[Len(b) + 1 + i] = rest[i]
  BY PushFieldThenRest DEF Bytes
<1>2. Len(b) \in Nat /\ Len(rest) \in Nat
  BY DEF Bytes
<1> HIDE DEF c
<1>3. SubSeq(c, 2, Len(b) + 1) = b
  <2>1. SubSeq(c, 2, Len(b) + 1) \in Seq(Nat) /\ Len(SubSeq(c, 2, Len(b) + 1)) = Len(b)
    BY <1>1, <1>2
  <2>2. \A i \in 1..Len(b) : SubSeq(c, 2, Len(b) + 1)[i] = c[i + 1]
    BY <1>1, <1>2
  <2> QED BY <1>1, <2>1, <2>2 DEF Bytes
<1>4. SubSeq(c, Len(b) + 2, Len(c)) = rest
  <2> DEFINE t == SubSeq(c, Len(b) + 2, Len(c))
  <2>1. t \in Seq(Nat) /\ Len(t) = Len(rest)
    BY <1>1, <1>2
  <2>2. \A i \in 1..Len(t) : t[i] = c[Len(b) + 1 + i]
    BY <1>1, <1>2
  <2>3. rest \in Seq(Nat)
    BY DEF Bytes
  <2> HIDE DEF t
  <2>4. \A i \in 1..Len(t) : t[i] = rest[i]
    BY <1>1, <2>1, <2>2
  <2>5. t = rest
    BY <2>1, <2>3, <2>4, SeqEqual
  <2> QED BY <2>5 DEF t
<1>5. ~(c = <<>> \/ Len(c) - 1 < c[1])
  BY <1>1, <1>2
<1>6. ReadField(c) = Read(b, rest)
  BY <1>1, <1>3, <1>4, <1>5 DEF ReadField
<1> QED BY <1>6 DEF c

\* A field whose bytes end early, in its length or in its body, is truncated
\* for read_field: it is never taken for a shorter one.
THEOREM CutFieldIsTruncated ==
    ASSUME NEW b \in Bytes, NEW n \in 0..Len(b)
    PROVE  ReadField(SubSeq(PushField(b), 1, n)) = Truncated
<1> DEFINE c == SubSeq(PushField(b), 1, n)
<1>1. Len(b) \in Nat /\ n \in Nat /\ n =< Len(b)
  BY DEF Bytes
<1>2. c \in Seq(Nat) /\ Len(c) = n /\ (n > 0 => c[1] = Len(b))
  <2> DEFINE f == PushField(b)
  <2>1. f \in Seq(Nat) /\ Len(f) = Len(b) + 1 /\ f[1] = Len(b)
    BY PushFieldType DEF Bytes
  <2> HIDE DEF f
  <2>2. /\ SubSeq(f, 1, n) \in Seq(Nat) /\ Len(SubSeq(f, 1, n)) = n
        /\ (n > 0 => SubSeq(f, 1, n)[1] = f[1])
    BY <1>1, <2>1
  <2> QED BY <2>1, <2>2 DEF f
<1> HIDE DEF c
<1>3. c = <<>> \/ Len(c) - 1 < c[1]
  BY <1>1, <1>2
<1>4. ReadField(c) = Truncated
  BY <1>3 DEF ReadField
<1> QED BY <1>4 DEF c

\* Length prefixing (CanonicalBytes::push_bytes): two concatenations that
\* begin with a field are equal only when the fields and the rests are.
THEOREM FieldsSplitOneWay ==
    ASSUME NEW a \in Bytes, NEW x \in Bytes, NEW b \in Bytes, NEW y \in Bytes,
           PushField(a) \o x = PushField(b) \o y
    PROVE  a = b /\ x = y
<1>1. Read(a, x) = Read(b, y)
  BY FieldReadsBack
<1> QED BY <1>1 DEF Read

\* None, Some of nothing and Some of anything are told apart by push_opt_bytes,
\* whatever follows them.
THEOREM OptionsSplitOneWay ==
    ASSUME NEW a \in Bytes, NEW x \in Bytes, NEW b \in Bytes, NEW y \in Bytes
    PROVE  /\ PushOptBytes(<<a>>) \o x = PushOptBytes(<<b>>) \o y => a = b /\ x = y
           /\ PushOptBytes(<<>>) \o x = PushOptBytes(<<>>) \o y => x = y
           /\ PushOptBytes(<<a>>) \o x /= PushOptBytes(<<>>) \o y
<1>1. PushOptBytes(<<a>>) = <<1>> \o PushField(a) /\ PushOptBytes(<<b>>) = <<1>> \o PushField(b)
  BY DEF PushOptBytes
<1>2. PushOptBytes(<<>>) = <<0>>
  BY DEF PushOptBytes
<1>3. ASSUME NEW s \in Bytes, NEW t \in Bytes, NEW k \in Nat, <<k>> \o s = <<k>> \o t
      PROVE  s = t
  <2>1. <<k>> \in Seq(Nat) /\ s \in Seq(Nat) /\ t \in Seq(Nat)
    BY DEF Bytes
  <2> DEFINE p == <<k>>
  <2>2. p \in Seq(Nat) /\ p \o s = p \o t
    BY <1>3, <2>1
  <2> HIDE DEF p
  <2> QED BY <2>1, <2>2, ConcatSimplifications
<1>4. PushField(a) \o x \in Bytes /\ PushField(b) \o y \in Bytes
  BY PushFieldThenRest
<1>5. /\ (<<1>> \o PushField(a)) \o x = <<1>> \o (PushField(a) \o x)
      /\ (<<1>> \o PushField(b)) \o y = <<1>> \o (PushField(b) \o y)
  <2>1. <<1>> \in Seq(Nat) /\ x \in Seq(Nat) /\ y \in Seq(Nat)
    BY DEF Bytes
  <2>2. PushField(a) \in Seq(Nat) /\ PushField(b) \in Seq(Nat)
    BY PushFieldType DEF Bytes
  <2> QED BY <2>1, <2>2, ConcatAssociative, SMTT(30)
<1>6. ASSUME PushOptBytes(<<a>>) \o x = PushOptBytes(<<b>>) \o y
      PROVE  a = b /\ x = y
  <2>1. <<1>> \o (PushField(a) \o x) = <<1>> \o (PushField(b) \o y)
    BY <1>1, <1>5, <1>6
  <2>2. PushField(a) \o x = PushField(b) \o y
    <3>1. 1 \in Nat
      OBVIOUS
    <3> QED BY <1>3, <1>4, <2>1, <3>1, Zenon
  <2> QED BY <2>2, FieldsSplitOneWay
<1>7. ASSUME PushOptBytes(<<>>) \o x = PushOptBytes(<<>>) \o y
      PROVE  x = y
  BY <1>2, <1>3, <1>7
<1>8. PushOptBytes(<<a>>) \o x /= PushOptBytes(<<>>) \o y
  <2>1. (<<1>> \o (PushField(a) \o x))[1] = 1
    <3>1. \A s \in Seq(Nat) : (<<1>> \o s)[1] = 1
      OBVIOUS
    <3> QED BY <1>4, <3>1 DEF Bytes
  <2>2. (<<0>> \o y)[1] = 0
    BY DEF Bytes
  <2>3. PushOptBytes(<<a>>) \o x = <<1>> \o (PushField(a) \o x)
    BY <1>1, <1>5
  <2>4. (PushOptBytes(<<a>>) \o x)[1] /= (PushOptBytes(<<>>) \o y)[1]
    BY <1>2, <2>1, <2>2, <2>3
  <2> QED BY <2>4
<1> QED BY <1>6, <1>7, <1>8
-----------------------------------------------------------------------------
(* The values of a TOML file.                                              *)

\* The concatenation of pairs, position by position.
LEMMA FlattenPairs ==
    ASSUME NEW T, NEW seqs \in Seq(T \X T), Len(seqs) > 0
    PROVE  /\ FlattenSeq(seqs) \in Seq(T)
           /\ Len(FlattenSeq(seqs)) = 2 * Len(seqs)
           /\ \A i \in 1..Len(seqs) : /\ FlattenSeq(seqs)[2 * i - 1] = seqs[i][1]
                                      /\ FlattenSeq(seqs)[2 * i] = seqs[i][2]
<1> DEFINE n == Len(seqs)
           Pairs(s, m) == /\ Len(s) = 2 * m
                          /\ \A i \in 1..m : s[2 * i - 1] = seqs[i][1] /\ s[2 * i] = seqs[i][2]
<1>1. n \in Nat /\ n > 0 /\ \A i \in 1..n : seqs[i] \in T \X T
  OBVIOUS
<1>2. \A i \in 1..n : seqs[i] \in Seq(T) /\ Len(seqs[i]) = 2
  <2> SUFFICES ASSUME NEW i \in 1..n PROVE seqs[i] \in Seq(T) /\ Len(seqs[i]) = 2
    OBVIOUS
  <2>1. PICK a \in T, b \in T : seqs[i] = <<a, b>>
    BY <1>1
  <2> QED BY <2>1
<1>3. seqs \in Seq(Seq(T))
  BY <1>2
<1>4. PICK g \in [1..n -> Seq(T)] :
        /\ g[1] = seqs[1]
        /\ \A i \in 1..n : i /= 1 => g[i] = g[i - 1] \o seqs[i]
        /\ FlattenSeq(seqs) = g[n]
  BY <1>3, FlattenSteps
<1> HIDE DEF n
<1> DEFINE S == {m \in Nat : m + 1 <= n => Pairs(g[m + 1], m + 1)}
<1>5. 0 \in S
  <2>1. 1 \in 1..n /\ 1..1 = {1} /\ 2 * 1 - 1 = 1 /\ 2 * 1 = 2 /\ 0 + 1 = 1
    BY <1>1
  <2>2. Pairs(g[1], 1)
    BY <1>2, <1>4, <2>1
  <2> HIDE DEF Pairs
  <2> QED BY <2>1, <2>2
<1>6. ASSUME NEW m \in Nat, m \in S PROVE m + 1 \in S
  <2> SUFFICES ASSUME (m + 1) + 1 <= n PROVE Pairs(g[(m + 1) + 1], (m + 1) + 1)
    OBVIOUS
  <2> DEFINE s == g[m + 1]
             l == m + 2
             t == seqs[l]
             c == s \o t
  <2>1. l \in 1..n /\ l /= 1 /\ l - 1 = m + 1 /\ m + 1 \in 1..n /\ (m + 1) + 1 = l
    BY <1>1
  <2>2. g[l] = c
    BY <1>4, <2>1
  <2>3. s \in Seq(T) /\ t \in Seq(T) /\ Len(t) = 2
    BY <1>2, <1>4, <2>1
  <2>4. Pairs(s, m + 1)
    BY <1>6, <2>1
  <2>5. /\ c \in Seq(T)
        /\ Len(c) = Len(s) + Len(t)
        /\ \A i \in 1..Len(s) : i \in 1..Len(c) /\ c[i] = s[i]
        /\ \A i \in 1..Len(t) : Len(s) + i \in 1..Len(c) /\ c[Len(s) + i] = t[i]
        /\ \A i \in 1..Len(c) : i \in 1..Len(s) \/ \E k \in 1..Len(t) : i = Len(s) + k
    <3> HIDE DEF s, t
    <3> QED BY <2>3, ConcatPositions, ZenonT(30)
  <2> HIDE DEF s, c
  <2>6. Len(s) = 2 * (m + 1) /\ Len(c) = 2 * l
    BY <2>3, <2>4, <2>5
  <2>7. ASSUME NEW i \in 1..l PROVE c[2 * i - 1] = seqs[i][1] /\ c[2 * i] = seqs[i][2]
    <3>1. CASE i \in 1..(m + 1)
      <4>1. 2 * i - 1 \in 1..Len(s) /\ 2 * i \in 1..Len(s)
        BY <2>6, <3>1
      <4>2. s[2 * i - 1] = seqs[i][1] /\ s[2 * i] = seqs[i][2]
        BY <2>4, <3>1
      <4> QED BY <2>5, <4>1, <4>2
    <3>2. CASE i = l
      <4>1. 2 * i - 1 = Len(s) + 1 /\ 2 * i = Len(s) + 2 /\ 1 \in 1..Len(t) /\ 2 \in 1..Len(t)
        BY <2>3, <2>6, <3>2
      <4> QED BY <2>5, <3>2, <4>1
    <3> QED BY <3>1, <3>2
  <2>8. Pairs(c, l)
    BY <2>6, <2>7
  <2> HIDE DEF Pairs
  <2> QED BY <2>1, <2>2, <2>8
<1>7. Pairs(g[n], n)
  <2>1. n - 1 \in Nat /\ (n - 1) + 1 = n /\ n <= n
    BY <1>1
  <2>2. n - 1 \in S
    <3> HIDE DEF S
    <3> QED BY <1>5, <1>6, <2>1, NatsByInduction
  <2> HIDE DEF Pairs
  <2> QED BY <2>1, <2>2
<1>8. g[n] \in Seq(T)
  BY <1>1, <1>4
<1> QED BY <1>4, <1>7, <1>8 DEF n

\* decode_hex gives back the bytes that hex_lower wrote, leading zeros and all.
THEOREM HexReadsBack ==
    ASSUME NEW b \in Octets
    PROVE  DecodeHex(HexLower(b)) = <<b>>
<1> DEFINE d == [i \in DOMAIN b |-> <<b[i] \div 16, b[i] % 16>>]
           h == HexLower(b)
<1>1. Len(b) \in Nat /\ b = [i \in 1..Len(b) |-> b[i]] /\ \A i \in 1..Len(b) : b[i] \in 0..255
  <2>1. Len(b) \in Nat /\ b \in [1..Len(b) -> 0..255]
    BY LenProperties DEF Octets
  <2> QED BY <2>1
<1>2. DOMAIN b = 1..Len(b)
  BY DEF Octets
<1>3. \A x \in 0..255 : x \div 16 \in 0..15 /\ x % 16 \in 0..15 /\ 16 * (x \div 16) + (x % 16) = x
  OBVIOUS
<1>4. d \in Seq((0..15) \X (0..15)) /\ Len(d) = Len(b)
  <2>1. \A i \in 1..Len(b) : <<b[i] \div 16, b[i] % 16>> \in (0..15) \X (0..15)
    BY <1>1, <1>3
  <2>2. d = [i \in 1..Len(b) |-> <<b[i] \div 16, b[i] % 16>>]
    BY <1>2
  <2>3. d \in [1..Len(b) -> (0..15) \X (0..15)]
    BY <2>1, <2>2, Zenon
  <2> HIDE DEF d
  <2> QED BY <1>1, <2>3
<1>5. \A i \in 1..Len(b) : d[i] = <<b[i] \div 16, b[i] % 16>>
  BY <1>2
<1> HIDE DEF d
<1>6. h = FlattenSeq(d)
  BY DEF HexLower, d
<1> HIDE DEF h
<1>7. /\ h \in Seq(0..15)
      /\ Len(h) = 2 * Len(b)
      /\ \A i \in 1..Len(b) : h[2 * i - 1] = b[i] \div 16 /\ h[2 * i] = b[i] % 16
  <2>1. CASE Len(b) = 0
    <3>1. h = d /\ d = <<>>
      BY <1>4, <1>6, <2>1 DEF FlattenSeq
    <3> QED BY <1>1, <2>1, <3>1
  <2>2. CASE Len(b) > 0
    <3>1. /\ h \in Seq(0..15)
          /\ Len(h) = 2 * Len(d)
          /\ \A i \in 1..Len(d) : h[2 * i - 1] = d[i][1] /\ h[2 * i] = d[i][2]
      BY <1>4, <1>6, <2>2, FlattenPairs
    <3> QED BY <1>4, <1>5, <3>1
  <2> QED BY <1>1, <2>1, <2>2
<1>8. Len(h) % 2 = 0 /\ Len(h) \div 2 = Len(b)
  <2>1. \A k \in Nat : (2 * k) % 2 = 0 /\ (2 * k) \div 2 = k
    OBVIOUS
  <2> QED BY <1>1, <1>7, <2>1, Zenon
<1>9. \A i \in DOMAIN h : h[i] \in 0..15
  BY <1>7
<1>10. DecodeHex(h) = <<[i \in 1..Len(b) |-> 16 * h[2 * i - 1] + h[2 * i]]>>
  BY <1>8, <1>9 DEF DecodeHex
<1>11. \A i \in 1..Len(b) : 16 * h[2 * i - 1] + h[2 * i] = b[i]
  BY <1>1, <1>3, <1>7
<1>12. [i \in 1..Len(b) |-> 16 * h[2 * i - 1] + h[2 * i]] = [i \in 1..Len(b) |-> b[i]]
  BY <1>11
<1> QED BY <1>1, <1>10, <1>12 DEF h

\* What the parsers need of a value that is written: it parses, an option has
\* at most one value, and what is written in hexadecimal is bytes.
Fits(k, v) ==
    /\ ParsesValue(k, v)
    /\ k \in DOMAIN Inner => v = <<>> \/ v = <<v[1]>>
    /\ k = "optHash" /\ v /= <<>> => v[1] \in Octets
    /\ k \in Hexadecimal => v \in Octets

LEMMA InnerKinds ==
    /\ DOMAIN Inner = {"optText", "optHash", "optRevision", "source"}
    /\ Inner["source"] = "device"
    /\ Inner["optHash"] = "hash"
    /\ Inner["optText"] = "text"
    /\ Inner["optRevision"] = "revision"
BY DEF Inner

LEMMA IdKinds ==
    /\ DOMAIN Namespace = {"project", "environment", "device", "invite", "revision"}
    /\ DOMAIN Names = {"version", "doctype", "role", "status"}
BY DEF Namespace, Names

\* What each kind of text must be.
LEMMA ParsesCases ==
    ASSUME NEW k, NEW text
    PROVE  /\ k \in DOMAIN Namespace => (Parses(k, text) <=> ParsesAsId(k, text))
           /\ k \in DOMAIN Names => (Parses(k, text) <=> text \in Names[k])
           /\ k \in FixedLength => (Parses(k, text) <=> Len(text) = KeyLen)
           /\ k \notin DOMAIN Namespace \cup DOMAIN Names \cup FixedLength => Parses(k, text)
BY IdKinds DEF Parses, FixedLength

LEMMA ParsesValueCases ==
    ASSUME NEW k, NEW v
    PROVE  /\ k \in DOMAIN Inner => (ParsesValue(k, v) <=> (v = <<>> \/ Parses(Inner[k], v[1])))
           /\ k = "environments" =>
                (ParsesValue(k, v) <=> \A i \in DOMAIN v : Parses("environment", v[i]))
           /\ k \notin DOMAIN Inner \cup {"environments"} => (ParsesValue(k, v) <=> Parses(k, v))
BY InnerKinds DEF ParsesValue

LEMMA TomlCases ==
    ASSUME NEW k, NEW v
    PROVE  /\ k = "source" => /\ TomlValue(k, v) = ApprovalSourceToString(v)
                              /\ FromToml(k, v) = <<ParseApprovalSource(v)>>
           /\ k = "optHash" =>
                /\ TomlValue(k, v) = HexLower(v[1])
                /\ FromToml(k, v) = IF DecodeHex(v) = <<>> THEN <<>> ELSE <<DecodeHex(v)>>
           /\ k \in PlainOptional => TomlValue(k, v) = v[1] /\ FromToml(k, v) = << <<v>> >>
           /\ k \in Hexadecimal => TomlValue(k, v) = HexLower(v) /\ FromToml(k, v) = DecodeHex(v)
           /\ k \notin {"source", "optHash"} \cup PlainOptional \cup Hexadecimal =>
                TomlValue(k, v) = v /\ FromToml(k, v) = <<v>>
BY DEF TomlValue, FromToml, PlainOptional, Hexadecimal, FixedLength

\* The value of a line parses as the value it was written from.
LEMMA ValueReadsBack ==
    ASSUME NEW k, NEW v, Fits(k, v), ~(k \in Optional /\ v = <<>>)
    PROVE  ParseTomlValue(k, TomlValue(k, v)) = <<v>>
<1>1. /\ ParsesValue(k, v)
      /\ k \in DOMAIN Inner => v = <<>> \/ v = <<v[1]>>
      /\ k = "optHash" /\ v /= <<>> => v[1] \in Octets
      /\ k \in Hexadecimal => v \in Octets
  BY DEF Fits
<1> DEFINE value == TomlValue(k, v)
           parsed == FromToml(k, value)
<1>2. parsed = <<v>>
  <2>1. CASE k = "source"
    <3>1. parsed = <<ParseApprovalSource(ApprovalSourceToString(v))>>
      BY <2>1, TomlCases
    <3>2. v /= <<>> => v = <<v[1]>> /\ Len(v[1]) = 2
      <4>1. v /= <<>> => Parses("device", v[1])
        BY <1>1, <2>1, InnerKinds, ParsesValueCases
      <4>2. v /= <<>> => ParsesAsId("device", v[1])
        BY <4>1, IdKinds, ParsesCases
      <4> QED BY <1>1, <2>1, <4>2, InnerKinds DEF ParsesAsId
    <3>3. v /= <<>> => v[1] /= GenesisText
      BY <3>2 DEF GenesisText
    <3> QED BY <3>1, <3>2, <3>3 DEF ParseApprovalSource, ApprovalSourceToString
  <2>2. CASE k = "optHash"
    <3>1. v = <<v[1]>> /\ v[1] \in Octets
      BY <1>1, <2>2, InnerKinds DEF Optional
    <3>2. DecodeHex(HexLower(v[1])) = <<v[1]>>
      BY <3>1, HexReadsBack
    <3>3. parsed = <<DecodeHex(HexLower(v[1]))>>
      <4>1. value = HexLower(v[1])
        BY <2>2, TomlCases
      <4>2. DecodeHex(value) /= <<>>
        BY <3>2, <4>1
      <4> QED BY <2>2, <4>1, <4>2, TomlCases
    <3> QED BY <3>1, <3>2, <3>3
  <2>3. CASE k \in PlainOptional
    <3>1. v = <<v[1]>>
      BY <1>1, <2>3, InnerKinds DEF PlainOptional, Optional
    <3> QED BY <2>3, <3>1, TomlCases
  <2>4. CASE k \in Hexadecimal
    <3>1. DecodeHex(HexLower(v)) = <<v>>
      BY <1>1, <2>4, HexReadsBack
    <3> QED BY <2>4, <3>1, TomlCases
  <2>5. CASE k \notin {"source", "optHash"} \cup PlainOptional \cup Hexadecimal
    BY <2>5, TomlCases
  <2> QED BY <2>1, <2>2, <2>3, <2>4, <2>5
<1> HIDE DEF parsed, value
<1>3. parsed /= <<>> /\ ParsesValue(k, parsed[1])
  BY <1>1, <1>2
<1>4. ParseTomlValue(k, value) = parsed
  BY <1>3 DEF ParseTomlValue, parsed
<1> QED BY <1>2, <1>4 DEF value

-----------------------------------------------------------------------------
(* The lines of a TOML file.                                               *)

\* A list of fields, each under a name of its own.
FieldList(fields) ==
    /\ Len(fields) \in Nat \ {0}
    /\ DOMAIN fields = 1..Len(fields)
    /\ \A i, j \in 1..Len(fields) : fields[i][1] = fields[j][1] => i = j

\* Field i of a record has a line in its file, and the line.
HasLine(fields, r, i) == ~(fields[i][2] \in Optional /\ r[fields[i][1]] = <<>>)

LineOf(fields, r, i) ==
    [key |-> fields[i][1], value |-> TomlValue(fields[i][2], r[fields[i][1]])]

LinesOf(fields, r) == {LineOf(fields, r, i) : i \in 1..Len(fields)}

\* The file of a record has the lines of its fields and no other, the last
\* field's at the end.
LEMMA FileLines ==
    ASSUME NEW fields, FieldList(fields), NEW r
    PROVE  /\ WriteToml(fields, r) \in Seq(LinesOf(fields, r))
           /\ \A j \in 1..Len(WriteToml(fields, r)) : \E i \in 1..Len(fields) :
                HasLine(fields, r, i) /\ WriteToml(fields, r)[j] = LineOf(fields, r, i)
           /\ \A i \in 1..Len(fields) : HasLine(fields, r, i) =>
                \E j \in 1..Len(WriteToml(fields, r)) :
                  WriteToml(fields, r)[j] = LineOf(fields, r, i)
           /\ HasLine(fields, r, Len(fields)) =>
                \E p \in Seq(LinesOf(fields, r)) :
                  /\ WriteToml(fields, r) = p \o <<LineOf(fields, r, Len(fields))>>
                  /\ \A j \in 1..Len(p) : \E i \in 1..(Len(fields) - 1) :
                       p[j] = LineOf(fields, r, i)
<1> DEFINE n == Len(fields)
           L(i) == LineOf(fields, r, i)
           H(i) == HasLine(fields, r, i)
           T == LinesOf(fields, r)
           seqs == [i \in DOMAIN fields |-> TomlLine(fields[i][1], fields[i][2], r[fields[i][1]])]
           w == WriteToml(fields, r)
<1>1. n \in Nat /\ n > 0 /\ DOMAIN fields = 1..n
  BY DEF FieldList
<1>2. \A i \in 1..n : seqs[i] = IF H(i) THEN <<L(i)>> ELSE <<>>
  BY <1>1 DEF TomlLine, HasLine, LineOf
<1>3. \A i \in 1..n : L(i) \in T
  BY DEF LinesOf
<1>4. w = FlattenSeq(seqs)
  BY DEF WriteToml
<1>5. seqs = [i \in 1..n |-> seqs[i]]
  BY <1>1
<1> HIDE DEF n, T, seqs, w
<1>6. \A i \in 1..n : /\ seqs[i] \in Seq(T)
                      /\ H(i) => Len(seqs[i]) = 1 /\ seqs[i][1] = L(i)
                      /\ ~H(i) => Len(seqs[i]) = 0
  <2> SUFFICES ASSUME NEW i \in 1..n
                PROVE  /\ seqs[i] \in Seq(T)
                       /\ H(i) => Len(seqs[i]) = 1 /\ seqs[i][1] = L(i)
                       /\ ~H(i) => Len(seqs[i]) = 0
    OBVIOUS
  <2>1. \A x \in T : <<x>> \in Seq(T) /\ Len(<<x>>) = 1 /\ <<x>>[1] = x
    OBVIOUS
  <2> QED BY <1>2, <1>3, <2>1, EmptySeq, ZenonT(30)
<1>7. seqs \in Seq(Seq(T)) /\ Len(seqs) = n
  <2>1. seqs \in [1..n -> Seq(T)]
    BY <1>5, <1>6, Zenon
  <2> QED BY <1>1, <2>1
<1>8. /\ w \in Seq(T)
      /\ \A j \in 1..Len(w) : \E i \in 1..n : \E k \in 1..Len(seqs[i]) : w[j] = seqs[i][k]
      /\ \A i \in 1..n : \A k \in 1..Len(seqs[i]) : \E j \in 1..Len(w) : w[j] = seqs[i][k]
      /\ \E p \in Seq(T) :
           /\ w = p \o seqs[n]
           /\ \A j \in 1..Len(p) : \E i \in 1..(n - 1) : \E k \in 1..Len(seqs[i]) : p[j] = seqs[i][k]
  <2>1. Len(seqs) > 0
    BY <1>1, <1>7
  <2>2. IsConcat(w, seqs, T)
    BY <1>4, <1>7, <2>1, FlattenHolds
  <2> QED BY <1>7, <2>2, Zenon DEF IsConcat
<1>9. \A i \in 1..n : \A k \in 1..Len(seqs[i]) : H(i) /\ seqs[i][k] = L(i)
  <2> SUFFICES ASSUME NEW i \in 1..n, NEW k \in 1..Len(seqs[i]) PROVE H(i) /\ seqs[i][k] = L(i)
    OBVIOUS
  <2>1. H(i)
    BY <1>6
  <2>2. k = 1
    <3>1. k \in 1..1
      BY <1>6, <2>1
    <3> QED BY <3>1
  <2> QED BY <1>6, <2>1, <2>2
<1>10. \A j \in 1..Len(w) : \E i \in 1..n : H(i) /\ w[j] = L(i)
  <2> SUFFICES ASSUME NEW j \in 1..Len(w) PROVE \E i \in 1..n : H(i) /\ w[j] = L(i)
    OBVIOUS
  <2>1. PICK i \in 1..n : \E k \in 1..Len(seqs[i]) : w[j] = seqs[i][k]
    BY <1>8
  <2>2. PICK k \in 1..Len(seqs[i]) : w[j] = seqs[i][k]
    BY <2>1
  <2> QED BY <1>9, <2>2
<1>11. ASSUME NEW i \in 1..n, H(i) PROVE \E j \in 1..Len(w) : w[j] = L(i)
  <2>1. 1 \in 1..Len(seqs[i])
    BY <1>6, <1>11
  <2>2. PICK j \in 1..Len(w) : w[j] = seqs[i][1]
    BY <1>8, <2>1
  <2>3. seqs[i][1] = L(i)
    BY <1>9, <2>1
  <2> QED BY <2>2, <2>3
<1>12. ASSUME H(n)
       PROVE  \E p \in Seq(T) : w = p \o <<L(n)>>
                                /\ \A j \in 1..Len(p) : \E i \in 1..(n - 1) : p[j] = L(i)
  <2>1. n \in 1..n /\ 1..(n - 1) \subseteq 1..n
    BY <1>1
  <2>2. seqs[n] = <<L(n)>>
    BY <1>2, <1>12, <2>1
  <2>3. PICK p \in Seq(T) :
          /\ w = p \o seqs[n]
          /\ \A j \in 1..Len(p) : \E i \in 1..(n - 1) : \E k \in 1..Len(seqs[i]) : p[j] = seqs[i][k]
    BY <1>8
  <2>4. \A j \in 1..Len(p) : \E i \in 1..(n - 1) : p[j] = L(i)
    BY <1>9, <2>1, <2>3, Zenon
  <2> QED BY <2>2, <2>3, <2>4
<1> QED BY <1>8, <1>10, <1>11, <1>12 DEF n, T, w

LEMMA ValuesOfConcat ==
    ASSUME NEW T, NEW s \in Seq(T), NEW t \in Seq(T), NEW key
    PROVE  ValuesOf(s \o t, key) = ValuesOf(s, key) \cup ValuesOf(t, key)
<1> DEFINE c == s \o t
<1>1. /\ c \in Seq(T)
      /\ \A i \in 1..Len(s) : i \in 1..Len(c) /\ c[i] = s[i]
      /\ \A i \in 1..Len(t) : Len(s) + i \in 1..Len(c) /\ c[Len(s) + i] = t[i]
      /\ \A i \in 1..Len(c) : i \in 1..Len(s) \/ \E k \in 1..Len(t) : i = Len(s) + k
  BY ConcatPositions
<1> HIDE DEF c
<1>2. DOMAIN c = 1..Len(c) /\ DOMAIN s = 1..Len(s) /\ DOMAIN t = 1..Len(t)
  BY <1>1
<1>3. ASSUME NEW v \in ValuesOf(c, key) PROVE v \in ValuesOf(s, key) \cup ValuesOf(t, key)
  <2>1. PICK i \in 1..Len(c) : c[i].key = key /\ c[i].value = v
    BY <1>2 DEF ValuesOf
  <2>2. CASE i \in 1..Len(s)
    BY <1>1, <1>2, <2>1, <2>2 DEF ValuesOf
  <2>3. CASE \E k \in 1..Len(t) : i = Len(s) + k
    BY <1>1, <1>2, <2>1, <2>3 DEF ValuesOf
  <2> QED BY <1>1, <2>2, <2>3
<1>4. ASSUME NEW v \in ValuesOf(s, key) PROVE v \in ValuesOf(c, key)
  BY <1>1, <1>2 DEF ValuesOf
<1>5. ASSUME NEW v \in ValuesOf(t, key) PROVE v \in ValuesOf(c, key)
  BY <1>1, <1>2 DEF ValuesOf
<1> QED BY <1>3, <1>4, <1>5 DEF c

\* The values a file has under the name of a field, and under any other name.
LEMMA FileValues ==
    ASSUME NEW fields, FieldList(fields), NEW r
    PROVE  /\ \A i \in 1..Len(fields) :
                ValuesOf(WriteToml(fields, r), fields[i][1]) =
                  IF HasLine(fields, r, i) THEN {TomlValue(fields[i][2], r[fields[i][1]])} ELSE {}
           /\ \A key : (\A i \in 1..Len(fields) : fields[i][1] /= key) =>
                ValuesOf(WriteToml(fields, r), key) = {}
<1> DEFINE n == Len(fields)
           L(i) == LineOf(fields, r, i)
           H(i) == HasLine(fields, r, i)
           w == WriteToml(fields, r)
<1>1. /\ \A j \in 1..Len(w) : \E i \in 1..n : H(i) /\ w[j] = L(i)
      /\ \A i \in 1..n : H(i) => \E j \in 1..Len(w) : w[j] = L(i)
  BY FileLines
<1>2. DOMAIN w = 1..Len(w)
  BY FileLines
<1>3. \A i \in 1..n : L(i).key = fields[i][1] /\ L(i).value = TomlValue(fields[i][2], r[fields[i][1]])
  BY DEF LineOf
<1>4. \A i, j \in 1..n : fields[i][1] = fields[j][1] => i = j
  BY DEF FieldList
<1> HIDE DEF n, L, H, w
<1>5. ASSUME NEW i \in 1..n, H(i)
      PROVE  ValuesOf(w, fields[i][1]) = {TomlValue(fields[i][2], r[fields[i][1]])}
  <2>1. ASSUME NEW v \in ValuesOf(w, fields[i][1]) PROVE v = L(i).value
    <3>1. PICK j \in 1..Len(w) : w[j].key = fields[i][1] /\ w[j].value = v
      BY <1>2 DEF ValuesOf
    <3>2. PICK m \in 1..n : w[j] = L(m)
      BY <1>1
    <3>3. m = i
      BY <1>3, <1>4, <3>1, <3>2
    <3> QED BY <3>1, <3>2, <3>3
  <2>2. L(i).value \in ValuesOf(w, fields[i][1])
    BY <1>1, <1>2, <1>3, <1>5 DEF ValuesOf
  <2> QED BY <1>3, <2>1, <2>2
<1>6. ASSUME NEW i \in 1..n, ~H(i) PROVE ValuesOf(w, fields[i][1]) = {}
  <2> SUFFICES ASSUME NEW v \in ValuesOf(w, fields[i][1]) PROVE FALSE
    OBVIOUS
  <2>1. PICK j \in 1..Len(w) : w[j].key = fields[i][1]
    BY <1>2 DEF ValuesOf
  <2>2. PICK m \in 1..n : H(m) /\ w[j] = L(m)
    BY <1>1
  <2> QED BY <1>3, <1>4, <1>6, <2>1, <2>2
<1>7. ASSUME NEW key, \A i \in 1..n : fields[i][1] /= key PROVE ValuesOf(w, key) = {}
  <2> SUFFICES ASSUME NEW v \in ValuesOf(w, key) PROVE FALSE
    OBVIOUS
  <2>1. PICK j \in 1..Len(w) : w[j].key = key
    BY <1>2 DEF ValuesOf
  <2>2. PICK m \in 1..n : H(m) /\ w[j] = L(m)
    BY <1>1
  <2> QED BY <1>3, <1>7, <2>1, <2>2
<1>8. \A i \in 1..n : ValuesOf(w, fields[i][1]) =
                        IF H(i) THEN {TomlValue(fields[i][2], r[fields[i][1]])} ELSE {}
  BY <1>5, <1>6
<1> QED BY <1>7, <1>8 DEF n, H, w

\* Every value of a record fits its field.
FieldNames(fields) == {fields[i][1] : i \in DOMAIN fields}

RecordFits(fields, r) ==
    /\ r = [f \in FieldNames(fields) |-> r[f]]
    /\ \A i \in 1..Len(fields) : Fits(fields[i][2], r[fields[i][1]])

\* A field reads back from every file with the values of the record's own file
\* under its name.
LEMMA FieldReads ==
    ASSUME NEW fields, FieldList(fields), NEW r, NEW i \in 1..Len(fields),
           Fits(fields[i][2], r[fields[i][1]]), NEW f,
           ValuesOf(f, fields[i][1]) = ValuesOf(WriteToml(fields, r), fields[i][1])
    PROVE  ReadTomlField(f, fields[i][1], fields[i][2]) = <<r[fields[i][1]]>>
<1> DEFINE key == fields[i][1]
           k == fields[i][2]
           v == r[key]
<1>1. ValuesOf(f, key) = IF HasLine(fields, r, i) THEN {TomlValue(k, v)} ELSE {}
  BY FileValues
<1>2. CASE HasLine(fields, r, i)
  <2>1. ValuesOf(f, key) /= {} /\ (CHOOSE x \in ValuesOf(f, key) : TRUE) = TomlValue(k, v)
    BY <1>1, <1>2
  <2>2. ParseTomlValue(k, TomlValue(k, v)) = <<v>>
    BY <1>2, ValueReadsBack DEF HasLine
  <2> QED BY <2>1, <2>2 DEF ReadTomlField
<1>3. CASE ~HasLine(fields, r, i)
  <2>1. ValuesOf(f, key) = {} /\ k \in Optional /\ v = <<>>
    BY <1>1, <1>3 DEF HasLine
  <2> QED BY <2>1 DEF ReadTomlField
<1> QED BY <1>2, <1>3

\* A file of which every field reads is a record of what they read as.
LEMMA FieldsMakeTheRecord ==
    ASSUME NEW fields, FieldList(fields), NEW f, NEW r,
           \A i \in 1..Len(fields) : ReadTomlField(f, fields[i][1], fields[i][2]) = <<r[fields[i][1]]>>
    PROVE  ReadToml(fields, f) = [ok |-> TRUE, rec |-> [g \in FieldNames(fields) |-> r[g]]]
<1> DEFINE read == [i \in DOMAIN fields |-> ReadTomlField(f, fields[i][1], fields[i][2])]
           names == FieldNames(fields)
           Index(g) == CHOOSE i \in DOMAIN fields : fields[i][1] = g
<1>1. DOMAIN fields = 1..Len(fields)
  BY DEF FieldList
<1>2. \A i \in DOMAIN fields : read[i] = <<r[fields[i][1]]>>
  BY <1>1
<1>3. ~(\E i \in DOMAIN fields : read[i] = <<>>)
  BY <1>2
<1>4. \A g \in names : Index(g) \in DOMAIN fields /\ fields[Index(g)][1] = g
  BY DEF FieldNames
<1> HIDE DEF read, Index
<1>5. \A g \in names : read[Index(g)][1] = r[g]
  BY <1>2, <1>4
<1>6. ReadToml(fields, f) = ToRecord(fields, read)
  BY DEF ReadToml, read
<1>7. ToRecord(fields, read) = [ok |-> TRUE, rec |-> [g \in names |-> read[Index(g)][1]]]
  BY <1>3, Zenon DEF ToRecord, Index, FieldNames
<1>8. [g \in names |-> read[Index(g)][1]] = [g \in names |-> r[g]]
  BY <1>5, Zenon
<1> QED BY <1>6, <1>7, <1>8

\* What read_toml and to_record make of a file with the values of a record's
\* own file is the record (to_record after from_record).
LEMMA FileReadsBack ==
    ASSUME NEW fields, FieldList(fields), NEW r, RecordFits(fields, r), NEW f,
           \A i \in 1..Len(fields) :
             ValuesOf(f, fields[i][1]) = ValuesOf(WriteToml(fields, r), fields[i][1])
    PROVE  ReadToml(fields, f) = [ok |-> TRUE, rec |-> r]
<1>1. \A i \in 1..Len(fields) : ReadTomlField(f, fields[i][1], fields[i][2]) = <<r[fields[i][1]]>>
  BY FieldReads DEF RecordFits
<1>2. ReadToml(fields, f) = [ok |-> TRUE, rec |-> [g \in FieldNames(fields) |-> r[g]]]
  BY <1>1, FieldsMakeTheRecord
<1> QED BY <1>2, Zenon DEF RecordFits

\* A file without a line for a field that is not optional is malformed.
LEMMA MissingFieldIsRefused ==
    ASSUME NEW fields, FieldList(fields), NEW f, NEW i \in 1..Len(fields),
           fields[i][2] \notin Optional, ValuesOf(f, fields[i][1]) = {}
    PROVE  ReadToml(fields, f) = Malformed
<1> DEFINE read == [j \in DOMAIN fields |-> ReadTomlField(f, fields[j][1], fields[j][2])]
<1>1. i \in DOMAIN fields
  BY DEF FieldList
<1>2. ReadTomlField(f, fields[i][1], fields[i][2]) = <<>>
  BY DEF ReadTomlField
<1>3. read[i] = <<>>
  BY <1>1, <1>2
<1> HIDE DEF read
<1>4. ReadToml(fields, f) = ToRecord(fields, read)
  BY DEF ReadToml, read
<1> QED BY <1>1, <1>3, <1>4 DEF ToRecord

\* A file that ends before its last line has no value for the last field.
LEMMA TornFileLacksTheLast ==
    ASSUME NEW fields, FieldList(fields), NEW r, HasLine(fields, r, Len(fields)),
           NEW n \in 0..(Len(WriteToml(fields, r)) - 1)
    PROVE  ValuesOf(SubSeq(WriteToml(fields, r), 1, n), fields[Len(fields)][1]) = {}
<1> DEFINE w == WriteToml(fields, r)
           m == Len(fields)
           T == LinesOf(fields, r)
           s == SubSeq(w, 1, n)
<1>1. m \in Nat /\ m > 0 /\ \A i, j \in 1..m : fields[i][1] = fields[j][1] => i = j
  BY DEF FieldList
<1>2. PICK p \in Seq(T) : /\ w = p \o <<LineOf(fields, r, m)>>
                          /\ \A j \in 1..Len(p) : \E i \in 1..(m - 1) : p[j] = LineOf(fields, r, i)
  BY FileLines
<1>3. LineOf(fields, r, m) \in T
  <2>1. m \in 1..m
    BY <1>1
  <2> HIDE DEF m
  <2> QED BY <2>1 DEF LinesOf, m
<1> HIDE DEF w, m, T
<1>4. <<LineOf(fields, r, m)>> \in Seq(T) /\ Len(<<LineOf(fields, r, m)>>) = 1
  BY <1>3
<1>5. w \in Seq(T) /\ Len(w) = Len(p) + 1 /\ \A j \in 1..Len(p) : w[j] = p[j]
  BY <1>2, <1>4, ConcatPositions
<1>6. n \in 0..(Len(w) - 1)
  BY DEF w
<1>7. n \in Nat /\ n <= Len(p) /\ Len(p) \in Nat
  BY <1>5, <1>6
<1>8. DOMAIN s = 1..n /\ \A j \in 1..n : s[j] = w[j]
  BY <1>5, <1>7
<1> HIDE DEF s
<1>9. ASSUME NEW v \in ValuesOf(s, fields[m][1]) PROVE FALSE
  <2>1. PICK j \in 1..n : s[j].key = fields[m][1]
    BY <1>8, <1>9 DEF ValuesOf
  <2>2. j \in 1..Len(p)
    BY <1>7
  <2>3. PICK i \in 1..(m - 1) : p[j] = LineOf(fields, r, i)
    BY <1>2, <2>2
  <2>4. fields[i][1] = fields[m][1]
    BY <1>5, <1>8, <2>1, <2>2, <2>3 DEF LineOf
  <2>5. i \in 1..m /\ m \in 1..m /\ i /= m
    BY <1>1
  <2> QED BY <1>1, <2>4, <2>5
<1>10. ValuesOf(s, fields[m][1]) = {}
  BY <1>9
<1> QED BY <1>10 DEF s, w, m

-----------------------------------------------------------------------------
(* The fields of each kind of record.                                      *)

TomlKinds == {"project", "membership", "environment", "invite", "join", "approval",
              "revocation", "revision"}

LEMMA KindNames ==
    /\ DOMAIN TomlFields = TomlKinds
    /\ Kinds = TomlKinds \cup {"request", "identity", "deviceId", "projectId", "environmentId",
                               "inviteId", "revisionId"}
BY DEF TomlFields, TomlKinds, Kinds, SignedFields

FieldKinds == {"text", "bytes", "nonce", "word", "u32", "environments"}
                \cup FixedLength \cup DOMAIN Namespace \cup DOMAIN Names \cup DOMAIN Inner

\* a list of fields of these kinds
KnownFields(fields) ==
    /\ FieldList(fields)
    /\ \A i \in 1..Len(fields) : fields[i][2] \in FieldKinds

LEMMA KindsOfFields ==
    FieldKinds = {"text", "bytes", "nonce", "word", "u32", "environments", "key", "hash", "sig",
                  "project", "environment", "device", "invite", "revision", "version", "doctype",
                  "role", "status", "optText", "optHash", "optRevision", "source"}
BY IdKinds, InnerKinds DEF FieldKinds, FixedLength

LEMMA KnownTomlProjectGenesis == KnownFields(TomlProjectGenesis)
<1>1. /\ Len(TomlProjectGenesis) = 10 /\ DOMAIN TomlProjectGenesis = 1..10
      /\ \A i, j \in 1..10 : TomlProjectGenesis[i][1] = TomlProjectGenesis[j][1] => i = j
      /\ \A i \in 1..10 : TomlProjectGenesis[i][2] \in FieldKinds
  BY KindsOfFields, SMTT(60) DEF TomlProjectGenesis
<1> QED BY <1>1 DEF KnownFields, FieldList

LEMMA KnownTomlMembershipGenesis == KnownFields(TomlMembershipGenesis)
<1>1. /\ Len(TomlMembershipGenesis) = 6 /\ DOMAIN TomlMembershipGenesis = 1..6
      /\ \A i, j \in 1..6 : TomlMembershipGenesis[i][1] = TomlMembershipGenesis[j][1] => i = j
      /\ \A i \in 1..6 : TomlMembershipGenesis[i][2] \in FieldKinds
  BY KindsOfFields, SMTT(60) DEF TomlMembershipGenesis
<1> QED BY <1>1 DEF KnownFields, FieldList

LEMMA KnownTomlEnvironmentGenesis == KnownFields(TomlEnvironmentGenesis)
<1>1. /\ Len(TomlEnvironmentGenesis) = 10 /\ DOMAIN TomlEnvironmentGenesis = 1..10
      /\ \A i, j \in 1..10 : TomlEnvironmentGenesis[i][1] = TomlEnvironmentGenesis[j][1] => i = j
      /\ \A i \in 1..10 : TomlEnvironmentGenesis[i][2] \in FieldKinds
  BY KindsOfFields, SMTT(60) DEF TomlEnvironmentGenesis
<1> QED BY <1>1 DEF KnownFields, FieldList

LEMMA KnownTomlInvite == KnownFields(TomlInvite)
<1>1. /\ Len(TomlInvite) = 9 /\ DOMAIN TomlInvite = 1..9
      /\ \A i, j \in 1..9 : TomlInvite[i][1] = TomlInvite[j][1] => i = j
      /\ \A i \in 1..9 : TomlInvite[i][2] \in FieldKinds
  BY KindsOfFields, SMTT(60) DEF TomlInvite
<1> QED BY <1>1 DEF KnownFields, FieldList

LEMMA KnownTomlJoinRequest == KnownFields(TomlJoinRequest)
<1>1. /\ Len(TomlJoinRequest) = 9 /\ DOMAIN TomlJoinRequest = 1..9
      /\ \A i, j \in 1..9 : TomlJoinRequest[i][1] = TomlJoinRequest[j][1] => i = j
      /\ \A i \in 1..9 : TomlJoinRequest[i][2] \in FieldKinds
  BY KindsOfFields, SMTT(60) DEF TomlJoinRequest
<1> QED BY <1>1 DEF KnownFields, FieldList

LEMMA KnownTomlApproval == KnownFields(TomlApproval)
<1>1. /\ Len(TomlApproval) = 7 /\ DOMAIN TomlApproval = 1..7
      /\ \A i, j \in 1..7 : TomlApproval[i][1] = TomlApproval[j][1] => i = j
      /\ \A i \in 1..7 : TomlApproval[i][2] \in FieldKinds
  BY KindsOfFields, SMTT(60) DEF TomlApproval
<1> QED BY <1>1 DEF KnownFields, FieldList

LEMMA KnownTomlRevocation == KnownFields(TomlRevocation)
<1>1. /\ Len(TomlRevocation) = 7 /\ DOMAIN TomlRevocation = 1..7
      /\ \A i, j \in 1..7 : TomlRevocation[i][1] = TomlRevocation[j][1] => i = j
      /\ \A i \in 1..7 : TomlRevocation[i][2] \in FieldKinds
  BY KindsOfFields, SMTT(60) DEF TomlRevocation
<1> QED BY <1>1 DEF KnownFields, FieldList

LEMMA KnownTomlRevision == KnownFields(TomlRevision)
<1>1. /\ Len(TomlRevision) = 11 /\ DOMAIN TomlRevision = 1..11
      /\ \A i, j \in 1..11 : TomlRevision[i][1] = TomlRevision[j][1] => i = j
      /\ \A i \in 1..11 : TomlRevision[i][2] \in FieldKinds
  BY KindsOfFields, SMTT(60) DEF TomlRevision
<1> QED BY <1>1 DEF KnownFields, FieldList

LEMMA KnownSignedRelayRequest == KnownFields(SignedRelayRequest)
<1>1. /\ Len(SignedRelayRequest) = 7 /\ DOMAIN SignedRelayRequest = 1..7
      /\ \A i, j \in 1..7 : SignedRelayRequest[i][1] = SignedRelayRequest[j][1] => i = j
      /\ \A i \in 1..7 : SignedRelayRequest[i][2] \in FieldKinds
  BY KindsOfFields, SMTT(60) DEF SignedRelayRequest
<1> QED BY <1>1 DEF KnownFields, FieldList

LEMMA KnownSignedDeviceIdentity == KnownFields(SignedDeviceIdentity)
<1>1. /\ Len(SignedDeviceIdentity) = 5 /\ DOMAIN SignedDeviceIdentity = 1..5
      /\ \A i, j \in 1..5 : SignedDeviceIdentity[i][1] = SignedDeviceIdentity[j][1] => i = j
      /\ \A i \in 1..5 : SignedDeviceIdentity[i][2] \in FieldKinds
  BY KindsOfFields, SMTT(60) DEF SignedDeviceIdentity
<1> QED BY <1>1 DEF KnownFields, FieldList

LEMMA KnownHashedDeviceId == KnownFields(HashedDeviceId)
<1>1. /\ Len(HashedDeviceId) = 3 /\ DOMAIN HashedDeviceId = 1..3
      /\ \A i, j \in 1..3 : HashedDeviceId[i][1] = HashedDeviceId[j][1] => i = j
      /\ \A i \in 1..3 : HashedDeviceId[i][2] \in FieldKinds
  BY KindsOfFields, SMTT(60) DEF HashedDeviceId
<1> QED BY <1>1 DEF KnownFields, FieldList

LEMMA KnownHashedProjectId == KnownFields(HashedProjectId)
<1>1. /\ Len(HashedProjectId) = 6 /\ DOMAIN HashedProjectId = 1..6
      /\ \A i, j \in 1..6 : HashedProjectId[i][1] = HashedProjectId[j][1] => i = j
      /\ \A i \in 1..6 : HashedProjectId[i][2] \in FieldKinds
  BY KindsOfFields, SMTT(60) DEF HashedProjectId
<1> QED BY <1>1 DEF KnownFields, FieldList

LEMMA KnownHashedEnvironmentId == KnownFields(HashedEnvironmentId)
<1>1. /\ Len(HashedEnvironmentId) = 6 /\ DOMAIN HashedEnvironmentId = 1..6
      /\ \A i, j \in 1..6 : HashedEnvironmentId[i][1] = HashedEnvironmentId[j][1] => i = j
      /\ \A i \in 1..6 : HashedEnvironmentId[i][2] \in FieldKinds
  BY KindsOfFields, SMTT(60) DEF HashedEnvironmentId
<1> QED BY <1>1 DEF KnownFields, FieldList

LEMMA KnownHashedInviteId == KnownFields(HashedInviteId)
<1>1. /\ Len(HashedInviteId) = 4 /\ DOMAIN HashedInviteId = 1..4
      /\ \A i, j \in 1..4 : HashedInviteId[i][1] = HashedInviteId[j][1] => i = j
      /\ \A i \in 1..4 : HashedInviteId[i][2] \in FieldKinds
  BY KindsOfFields, SMTT(60) DEF HashedInviteId
<1> QED BY <1>1 DEF KnownFields, FieldList

LEMMA KnownHashedRevisionId == KnownFields(HashedRevisionId)
<1>1. /\ Len(HashedRevisionId) = 6 /\ DOMAIN HashedRevisionId = 1..6
      /\ \A i, j \in 1..6 : HashedRevisionId[i][1] = HashedRevisionId[j][1] => i = j
      /\ \A i \in 1..6 : HashedRevisionId[i][2] \in FieldKinds
  BY KindsOfFields, SMTT(60) DEF HashedRevisionId
<1> QED BY <1>1 DEF KnownFields, FieldList

-----------------------------------------------------------------------------
(* The values of the fields.                                               *)

\* The values a field is signed with are of the type its kind is written with.
Encodable(k, v) ==
    /\ k \in {"word", "u32"} => v \in Nat
    /\ k \in DOMAIN Inner => v = <<>> \/ (v = <<v[1]>> /\ v[1] \in Bytes)
    /\ k = "environments" => v \in Seq(Bytes)
    /\ k \notin {"word", "u32", "environments"} \cup DOMAIN Inner => v \in Bytes

LEMMA TypeCases ==
    ASSUME NEW k, NEW v
    PROVE  /\ k = "word" => (HasType(k, v) <=> v \in Nat)
           /\ k = "u32" => (HasType(k, v) <=> v \in 0..(U32 - 1))
           /\ k \in DOMAIN Inner =>
                (HasType(k, v) <=>
                   v = <<>> \/ (v = <<v[1]>> /\ v[1] \in Octets /\ Parses(Inner[k], v[1])))
           /\ k = "environments" =>
                (HasType(k, v) <=> v \in Seq(Octets) /\ \A i \in DOMAIN v : Parses("environment", v[i]))
           /\ k \notin {"word", "u32", "environments"} \cup DOMAIN Inner =>
                (HasType(k, v) <=> v \in Octets /\ Parses(k, v))
<1> HIDE DEF Octets
<1> QED BY InnerKinds DEF HasType

\* A value of the type of its field reads back from a file and can be encoded.
LEMMA TypesFit ==
    ASSUME NEW k \in FieldKinds, NEW v, HasType(k, v)
    PROVE  Fits(k, v) /\ Encodable(k, v)
<1>1. \A s : s \in Octets => s \in Bytes
  <2>1. 0..255 \subseteq Nat
    OBVIOUS
  <2> QED BY <2>1, SeqMonotonic DEF Octets, Bytes
<1>2. CASE k \in {"word", "u32"}
  <2>1. v \in Nat
    <3>1. \A x \in 0..(U32 - 1) : x \in Nat
      BY U32Assumption
    <3> QED BY <1>2, <3>1, TypeCases
  <2>2. k \notin DOMAIN Inner \cup {"environments", "optHash"} \cup Hexadecimal
    BY <1>2, InnerKinds DEF Hexadecimal, FixedLength
  <2>3. k \notin DOMAIN Namespace \cup DOMAIN Names \cup FixedLength
    BY <1>2, IdKinds DEF FixedLength
  <2>4. ParsesValue(k, v)
    BY <2>2, <2>3, ParsesValueCases, ParsesCases
  <2>5. k \notin DOMAIN Inner /\ k /= "environments" /\ k /= "optHash" /\ k \notin Hexadecimal
    BY <2>2
  <2> HIDE DEF Bytes, Octets
  <2> QED BY <1>2, <2>1, <2>4, <2>5, Zenon DEF Fits, Encodable
<1>3. CASE k \in DOMAIN Inner
  <2>1. k \notin {"word", "u32", "environments"} \cup Hexadecimal
    BY <1>3, InnerKinds DEF Hexadecimal, FixedLength
  <2>2. v = <<>> \/ (v = <<v[1]>> /\ v[1] \in Octets /\ Parses(Inner[k], v[1]))
    BY <1>3, TypeCases
  <2>3. v = <<>> \/ (v = <<v[1]>> /\ v[1] \in Octets /\ v[1] \in Bytes)
    BY <1>1, <2>2, Zenon
  <2>4. ParsesValue(k, v)
    BY <1>3, <2>2, ParsesValueCases
  <2>5. k /= "word" /\ k /= "u32" /\ k /= "environments" /\ k \notin Hexadecimal
    BY <2>1
  <2> HIDE DEF Bytes, Octets
  <2> QED BY <1>3, <2>3, <2>4, <2>5, Zenon DEF Fits, Encodable
<1>4. CASE k = "environments"
  <2>1. k \notin DOMAIN Inner \cup {"word", "u32", "optHash"} \cup Hexadecimal
    BY <1>4, InnerKinds DEF Hexadecimal, FixedLength
  <2>2. v \in Seq(Octets) /\ \A i \in DOMAIN v : Parses("environment", v[i])
    BY <1>4, TypeCases
  <2>3. ParsesValue(k, v)
    BY <1>4, <2>2, ParsesValueCases
  <2>4. v \in Seq(Bytes)
    <3> HIDE DEF Bytes, Octets
    <3> QED BY <1>1, <2>2
  <2> QED BY <1>4, <2>1, <2>3, <2>4 DEF Fits, Encodable
<1>5. CASE k \notin {"word", "u32", "environments"} \cup DOMAIN Inner
  <2>1. v \in Octets /\ Parses(k, v)
    BY <1>5, TypeCases
  <2>2. ParsesValue(k, v) /\ k /= "optHash"
    BY <1>5, <2>1, InnerKinds, ParsesValueCases
  <2> HIDE DEF Bytes, Octets
  <2> QED BY <1>1, <1>5, <2>1, <2>2 DEF Fits, Encodable
<1> QED BY <1>2, <1>3, <1>4, <1>5

LEMMA KindFields ==
    /\ FieldsOf("project") = TomlProjectGenesis /\ FieldsOf("membership") = TomlMembershipGenesis
    /\ FieldsOf("environment") = TomlEnvironmentGenesis /\ FieldsOf("invite") = TomlInvite
    /\ FieldsOf("join") = TomlJoinRequest /\ FieldsOf("approval") = TomlApproval
    /\ FieldsOf("revocation") = TomlRevocation /\ FieldsOf("revision") = TomlRevision
    /\ FieldsOf("request") = SignedRelayRequest /\ FieldsOf("identity") = SignedDeviceIdentity
    /\ FieldsOf("deviceId") = HashedDeviceId /\ FieldsOf("projectId") = HashedProjectId
    /\ FieldsOf("environmentId") = HashedEnvironmentId /\ FieldsOf("inviteId") = HashedInviteId
    /\ FieldsOf("revisionId") = HashedRevisionId
    /\ \A k \in TomlKinds : TomlFields[k] = FieldsOf(k)
BY DEF FieldsOf, TomlFields, TomlKinds, SignedFields

LEMMA KindsAreKnown ==
    ASSUME NEW k \in Kinds
    PROVE  KnownFields(FieldsOf(k))
BY KindNames, KindFields, KnownTomlProjectGenesis, KnownTomlMembershipGenesis,
   KnownTomlEnvironmentGenesis, KnownTomlInvite, KnownTomlJoinRequest, KnownTomlApproval,
   KnownTomlRevocation, KnownTomlRevision, KnownSignedRelayRequest, KnownSignedDeviceIdentity,
   KnownHashedDeviceId, KnownHashedProjectId, KnownHashedEnvironmentId, KnownHashedInviteId,
   KnownHashedRevisionId DEF TomlKinds

\* A record has a value that fits for every field of its kind, and no other
\* field.
LEMMA RecordsFit ==
    ASSUME NEW k \in Kinds, NEW r, IsRecord(k, r)
    PROVE  /\ RecordFits(FieldsOf(k), r)
           /\ \A i \in 1..Len(FieldsOf(k)) : Encodable(FieldsOf(k)[i][2], r[FieldsOf(k)[i][1]])
<1> DEFINE fields == FieldsOf(k)
<1>1. DOMAIN fields = 1..Len(fields) /\ \A i \in 1..Len(fields) : fields[i][2] \in FieldKinds
  BY KindsAreKnown DEF KnownFields, FieldList
<1>2. /\ r = [f \in FieldNames(fields) |-> r[f]]
      /\ \A i \in DOMAIN fields : HasType(fields[i][2], r[fields[i][1]])
  BY DEF IsRecord, FieldNames
<1> HIDE DEF fields
<1>3. \A i \in 1..Len(fields) : Fits(fields[i][2], r[fields[i][1]]) /\ Encodable(fields[i][2], r[fields[i][1]])
  BY <1>1, <1>2, TypesFit
<1> QED BY <1>2, <1>3 DEF fields, RecordFits

\* The records that a device signs.
LEMMA SignableFits ==
    ASSUME NEW k \in Kinds, NEW r \in SignableRecords(k)
    PROVE  /\ IsRecord(k, r) /\ RecordFits(FieldsOf(k), r)
           /\ \A i \in 1..Len(FieldsOf(k)) : Encodable(FieldsOf(k)[i][2], r[FieldsOf(k)[i][1]])
<1>1. IsRecord(k, r)
  BY RecordsAssumption, Zenon
<1> QED BY <1>1, RecordsFit

-----------------------------------------------------------------------------
(* The file of a revision: its record, its payload and its wrapped keys.   *)

\* The lines of the wrapped keys, in the current and in the legacy form.
WrappedLines(r, rd) ==
    [i \in DOMAIN rd |-> [key |-> "wrapped_deks",
                          value |-> [device |-> rd[i], dek |-> WrapDek(rd[i], DekWrapContext(r))]]]

LegacyLines(r) ==
    [i \in 1..4 |-> [key |-> LegacyKeys[i], value |-> WrapDek(r.author_device_id, DekWrapContext(r))]]

\* The files a record may be saved as.
WrittenFiles(k, r, rd) ==
    IF k = "revision"
    THEN {RevisionFile(r, WrapForDevices(rd, DekWrapContext(r)))}
           \cup (IF rd = <<r.author_device_id>> THEN {LegacyRevisionFile(r)} ELSE {})
    ELSE {WriteToml(TomlFields[k], r)}

\* The names of the lines that are not part of the record.
ExtraKeys == {"payload_algorithm", "payload_nonce", "wrapped_deks", "dek_wrap_algorithm",
              "dek_wrap_ephemeral_public_key", "dek_wrap_nonce", "dek_wrap_ciphertext"}

LEMMA RevisionFieldNames ==
    /\ Len(TomlRevision) = 11
    /\ \A i \in 1..11 : TomlRevision[i][1] \notin ExtraKeys
BY SMTT(60) DEF TomlRevision, ExtraKeys

LEMMA LegacyKeyNames ==
    /\ DOMAIN LegacyKeys = 1..4
    /\ LegacyKeys[1] = "dek_wrap_algorithm" /\ LegacyKeys[2] = "dek_wrap_ephemeral_public_key"
    /\ LegacyKeys[3] = "dek_wrap_nonce" /\ LegacyKeys[4] = "dek_wrap_ciphertext"
BY DEF LegacyKeys

LEMMA PayloadLineNames ==
    /\ DOMAIN PayloadLines = 1..2 /\ Len(PayloadLines) = 2
    /\ PayloadLines[1] = [key |-> "payload_algorithm", value |-> <<31>>]
    /\ PayloadLines[2] = [key |-> "payload_nonce", value |-> <<0, 1>>]
BY DEF PayloadLines

\* A file is the lines of the record and, after them, the others, of one form.
FileParts(r, rd, f, T, e, legacy) ==
    /\ legacy => rd = <<r.author_device_id>>
    /\ e \in Seq(T) /\ WriteToml(TomlRevision, r) \in Seq(T)
    /\ f = WriteToml(TomlRevision, r) \o e
    /\ \A i \in 1..Len(e) : e[i].key \in ExtraKeys /\ DOMAIN e[i] = {"key", "value"}
    /\ \A key : ValuesOf(e, key) = ValuesOf(PayloadLines, key) \cup
                  ValuesOf(IF legacy THEN LegacyLines(r) ELSE WrappedLines(r, rd), key)

LEMMA RevisionFileParts ==
    ASSUME NEW r, NEW rd, rd \in Seq(Devices), NEW f \in WrittenFiles("revision", r, rd)
    PROVE  \E legacy \in BOOLEAN : \E T, e : FileParts(r, rd, f, T, e, legacy)
<1> DEFINE w == WriteToml(TomlRevision, r)
           Whole(legacy) == w \o PayloadLines \o (IF legacy THEN LegacyLines(r) ELSE WrappedLines(r, rd))
<1>1. PICK legacy \in BOOLEAN : (legacy => rd = <<r.author_device_id>>) /\ f = Whole(legacy)
  <2>1. [i \in DOMAIN LegacyKeys |->
           [key |-> LegacyKeys[i], value |-> WrapDek(r.author_device_id, DekWrapContext(r))]]
          = LegacyLines(r)
    BY LegacyKeyNames DEF LegacyLines
  <2>2. LegacyRevisionFile(r) = Whole(TRUE)
    BY <2>1 DEF LegacyRevisionFile
  <2>3. RevisionFile(r, WrapForDevices(rd, DekWrapContext(r))) = Whole(FALSE)
    <3> DEFINE d == WrapForDevices(rd, DekWrapContext(r))
    <3>1. /\ DOMAIN d = DOMAIN rd
          /\ \A i \in DOMAIN rd : d[i] = [device |-> rd[i], dek |-> WrapDek(rd[i], DekWrapContext(r))]
      BY DEF WrapForDevices
    <3> HIDE DEF d
    <3>2. [i \in DOMAIN d |-> [key |-> "wrapped_deks", value |-> d[i]]] = WrappedLines(r, rd)
      BY <3>1 DEF WrappedLines
    <3> QED BY <3>2 DEF RevisionFile, d
  <2> HIDE DEF Whole
  <2> QED BY <2>2, <2>3 DEF WrittenFiles
<1> DEFINE x == IF legacy THEN LegacyLines(r) ELSE WrappedLines(r, rd)
           T == LinesOf(TomlRevision, r) \cup {PayloadLines[1], PayloadLines[2]} \cup {x[i] : i \in DOMAIN x}
           e == PayloadLines \o x
<1>2. /\ \E n \in Nat : DOMAIN x = 1..n
      /\ \A i \in DOMAIN x : x[i].key \in ExtraKeys /\ DOMAIN x[i] = {"key", "value"}
      /\ x = [i \in DOMAIN x |-> x[i]]
  <2>1. CASE legacy
    <3>1. x = LegacyLines(r)
      BY <2>1
    <3>2. /\ DOMAIN LegacyLines(r) = 1..4
          /\ LegacyLines(r) = [i \in DOMAIN LegacyLines(r) |-> LegacyLines(r)[i]]
          /\ \A i \in 1..4 : /\ LegacyLines(r)[i].key = LegacyKeys[i]
                             /\ DOMAIN LegacyLines(r)[i] = {"key", "value"}
      BY DEF LegacyLines
    <3>3. \A i \in 1..4 : LegacyKeys[i] \in ExtraKeys
      BY LegacyKeyNames DEF ExtraKeys
    <3> HIDE DEF x
    <3> QED BY <3>1, <3>2, <3>3
  <2>2. CASE ~legacy
    <3>1. x = WrappedLines(r, rd)
      BY <2>2
    <3>2. /\ DOMAIN WrappedLines(r, rd) = 1..Len(rd) /\ Len(rd) \in Nat
          /\ WrappedLines(r, rd) = [i \in DOMAIN WrappedLines(r, rd) |-> WrappedLines(r, rd)[i]]
          /\ \A i \in 1..Len(rd) : /\ WrappedLines(r, rd)[i].key = "wrapped_deks"
                                   /\ DOMAIN WrappedLines(r, rd)[i] = {"key", "value"}
      BY DEF WrappedLines
    <3> HIDE DEF x
    <3> QED BY <3>1, <3>2 DEF ExtraKeys
  <2> QED BY <2>1, <2>2
<1>3. w \in Seq(LinesOf(TomlRevision, r))
  BY FileLines, KnownTomlRevision DEF KnownFields
<1>w. f = w \o PayloadLines \o x
  BY <1>1
<1> HIDE DEF x, w
<1>4. x \in Seq(T) /\ PayloadLines \in Seq(T) /\ w \in Seq(T) /\ e \in Seq(T)
  <2>1. x \in Seq(T)
    <3>1. PICK n \in Nat : DOMAIN x = 1..n
      BY <1>2
    <3>2. x \in [1..n -> T]
      BY <1>2, <3>1
    <3> HIDE DEF T
    <3> QED BY <3>2
  <2>2. PayloadLines \in Seq(T)
    <3>1. PayloadLines = <<PayloadLines[1], PayloadLines[2]>>
      BY DEF PayloadLines
    <3>2. PayloadLines[1] \in T /\ PayloadLines[2] \in T
      OBVIOUS
    <3>3. \A a, b \in T : <<a, b>> \in Seq(T)
      OBVIOUS
    <3> HIDE DEF T
    <3> QED BY <3>1, <3>2, <3>3
  <2>3. w \in Seq(T)
    <3>1. LinesOf(TomlRevision, r) \subseteq T
      OBVIOUS
    <3> HIDE DEF T
    <3> QED BY <1>3, <3>1
  <2> HIDE DEF T
  <2> QED BY <2>1, <2>2, <2>3
<1> HIDE DEF T
<1>5. f = w \o e
  BY <1>w, <1>4, ConcatAssociative, SMTT(30) DEF e
<1>6. \A key : ValuesOf(e, key) = ValuesOf(PayloadLines, key) \cup ValuesOf(x, key)
  <2> HIDE DEF e
  <2> QED BY <1>4, ValuesOfConcat DEF e
<1>7. \A i \in 1..Len(e) : e[i].key \in ExtraKeys /\ DOMAIN e[i] = {"key", "value"}
  <2> DEFINE IsLine(l) == l.key \in ExtraKeys /\ DOMAIN l = {"key", "value"}
  <2>1. \A i \in 1..2 : IsLine(PayloadLines[i])
    BY PayloadLineNames DEF ExtraKeys
  <2>2. \A i \in 1..Len(x) : IsLine(x[i])
    BY <1>2, <1>4
  <2>3. /\ \A i \in 1..Len(PayloadLines) : e[i] = PayloadLines[i]
        /\ \A i \in 1..Len(x) : e[Len(PayloadLines) + i] = x[i]
        /\ \A i \in 1..Len(e) : i \in 1..Len(PayloadLines) \/ \E k \in 1..Len(x) : i = Len(PayloadLines) + k
    BY <1>4, ConcatPositions
  <2> HIDE DEF e, IsLine
  <2>4. \A i \in 1..Len(e) : IsLine(e[i])
    BY <2>1, <2>2, <2>3, PayloadLineNames
  <2> QED BY <2>4 DEF IsLine
<1>8. FileParts(r, rd, f, T, e, legacy)
  BY <1>1, <1>4, <1>5, <1>6, <1>7 DEF FileParts, x, w
<1> QED BY <1>8

\* What is under a name in a part of a file.
LEMMA PrefixValues ==
    ASSUME NEW T, NEW s \in Seq(T), NEW t \in Seq(T), NEW n \in 0..Len(s \o t)
    PROVE  /\ n < Len(s) => SubSeq(s \o t, 1, n) = SubSeq(s, 1, n)
           /\ n >= Len(s) => \A key : ValuesOf(s, key) \subseteq ValuesOf(SubSeq(s \o t, 1, n), key)
           /\ \A key : ValuesOf(SubSeq(s \o t, 1, n), key) \subseteq ValuesOf(s \o t, key)
<1> DEFINE c == s \o t
           p == SubSeq(c, 1, n)
<1>1. /\ c \in Seq(T) /\ Len(c) = Len(s) + Len(t) /\ Len(s) \in Nat /\ Len(t) \in Nat
      /\ \A i \in 1..Len(s) : c[i] = s[i]
  BY ConcatPositions
<1>2. n \in Nat /\ n <= Len(c)
  BY <1>1
<1> HIDE DEF c
<1>3. /\ p = [i \in 1..n |-> c[i]] /\ DOMAIN p = 1..n /\ \A i \in 1..n : p[i] = c[i]
      /\ DOMAIN c = 1..Len(c)
  BY <1>1, <1>2
<1>4. ASSUME n < Len(s) PROVE p = SubSeq(s, 1, n)
  <2>1. SubSeq(s, 1, n) = [i \in 1..n |-> s[i]]
    BY <1>2, <1>4
  <2>2. \A i \in 1..n : c[i] = s[i]
    BY <1>1, <1>2, <1>4
  <2> HIDE DEF p
  <2> QED BY <1>3, <2>1, <2>2
<1> HIDE DEF p
<1>5. ASSUME n >= Len(s), NEW key, NEW v \in ValuesOf(s, key) PROVE v \in ValuesOf(p, key)
  <2>1. PICK i \in 1..Len(s) : s[i].key = key /\ s[i].value = v
    BY <1>5 DEF ValuesOf
  <2>2. i \in 1..n
    BY <1>1, <1>2, <1>5
  <2> QED BY <1>1, <1>3, <2>1, <2>2 DEF ValuesOf
<1>6. ASSUME NEW key, NEW v \in ValuesOf(p, key) PROVE v \in ValuesOf(c, key)
  <2>1. PICK i \in 1..n : p[i].key = key /\ p[i].value = v
    BY <1>3, <1>6 DEF ValuesOf
  <2>2. i \in 1..Len(c)
    BY <1>1, <1>2
  <2> QED BY <1>3, <2>1, <2>2 DEF ValuesOf
<1> QED BY <1>4, <1>5, <1>6 DEF c, p

\* What the payload lines and the lines of the wrapped keys have under each name.
LEMMA PayloadValues ==
    /\ ValuesOf(PayloadLines, "payload_algorithm") = {<<31>>}
    /\ ValuesOf(PayloadLines, "payload_nonce") = {<<0, 1>>}
    /\ \A key : key \notin {"payload_algorithm", "payload_nonce"} => ValuesOf(PayloadLines, key) = {}
<1>1. \A i \in 1..2 : i = 1 \/ i = 2
  OBVIOUS
<1>2. /\ PayloadLines[1].key = "payload_algorithm" /\ PayloadLines[1].value = <<31>>
      /\ PayloadLines[2].key = "payload_nonce" /\ PayloadLines[2].value = <<0, 1>>
      /\ 1 \in DOMAIN PayloadLines /\ 2 \in DOMAIN PayloadLines
      /\ \A i \in DOMAIN PayloadLines : i = 1 \/ i = 2
  BY PayloadLineNames, <1>1
<1> QED BY <1>2 DEF ValuesOf

LEMMA WrappedValues ==
    ASSUME NEW r, NEW rd, rd \in Seq(Devices)
    PROVE  /\ ValuesOf(WrappedLines(r, rd), "wrapped_deks") =
                {[device |-> rd[i], dek |-> WrapDek(rd[i], DekWrapContext(r))] : i \in DOMAIN rd}
           /\ \A key : key /= "wrapped_deks" => ValuesOf(WrappedLines(r, rd), key) = {}
<1> DEFINE x == WrappedLines(r, rd)
           W(i) == [device |-> rd[i], dek |-> WrapDek(rd[i], DekWrapContext(r))]
<1>1. DOMAIN x = DOMAIN rd /\ \A i \in DOMAIN rd : x[i].key = "wrapped_deks" /\ x[i].value = W(i)
  BY DEF WrappedLines
<1> HIDE DEF x, W
<1>2. ValuesOf(x, "wrapped_deks") = {W(i) : i \in DOMAIN rd}
  BY <1>1 DEF ValuesOf
<1>3. \A key : key /= "wrapped_deks" => ValuesOf(x, key) = {}
  BY <1>1 DEF ValuesOf
<1> QED BY <1>2, <1>3 DEF x, W

LEMMA LegacyValues ==
    ASSUME NEW r
    PROVE  /\ \A i \in DOMAIN LegacyKeys :
                ValuesOf(LegacyLines(r), LegacyKeys[i]) = {WrapDek(r.author_device_id, DekWrapContext(r))}
           /\ \A key : (\A i \in DOMAIN LegacyKeys : LegacyKeys[i] /= key) =>
                ValuesOf(LegacyLines(r), key) = {}
<1> DEFINE x == LegacyLines(r)
           w == WrapDek(r.author_device_id, DekWrapContext(r))
<1>1. DOMAIN x = 1..4 /\ \A i \in 1..4 : x[i].key = LegacyKeys[i] /\ x[i].value = w
  BY DEF LegacyLines
<1> HIDE DEF x, w
<1>2. \A i \in 1..4 : ValuesOf(x, LegacyKeys[i]) = {w}
  BY <1>1 DEF ValuesOf
<1>3. \A key : (\A i \in 1..4 : LegacyKeys[i] /= key) => ValuesOf(x, key) = {}
  BY <1>1 DEF ValuesOf
<1> QED BY <1>2, <1>3, LegacyKeyNames DEF x, w

\* The wrapped keys of a revision, each for the device it was wrapped for.
WrapsOf(r, rd) == {[device |-> rd[i], dek |-> WrapDek(rd[i], DekWrapContext(r))] : i \in DOMAIN rd}

\* What a whole file of a revision says.
LEMMA SavedRevision ==
    ASSUME NEW r \in SignableRecords("revision"),
           NEW rd, rd \in Seq(Devices), \E i \in DOMAIN rd : rd[i] = r.author_device_id,
           NEW f \in WrittenFiles("revision", r, rd)
    PROVE  /\ ToWrappedDeks(f, r) = WrapsOf(r, rd)
           /\ \A i \in 1..Len(TomlRevision) :
                ValuesOf(f, TomlRevision[i][1]) = ValuesOf(WriteToml(TomlRevision, r), TomlRevision[i][1])
           /\ ReadRevisionFile(f) = [ok |-> TRUE, rec |-> r]
<1> DEFINE w == WriteToml(TomlRevision, r)
           x(legacy) == IF legacy THEN LegacyLines(r) ELSE WrappedLines(r, rd)
<1>p. PICK legacy \in BOOLEAN : \E T, e : FileParts(r, rd, f, T, e, legacy)
  BY RevisionFileParts
<1>q. PICK T, e : FileParts(r, rd, f, T, e, legacy)
  BY <1>p
<1>1. /\ legacy => rd = <<r.author_device_id>>
      /\ e \in Seq(T) /\ w \in Seq(T) /\ f = w \o e
      /\ \A key : ValuesOf(e, key) = ValuesOf(PayloadLines, key) \cup ValuesOf(x(legacy), key)
  BY <1>q DEF FileParts
<1>2. FieldList(TomlRevision) /\ RecordFits(TomlRevision, r)
  BY KindNames, KindFields, KnownTomlRevision, SignableFits DEF KnownFields, TomlKinds
<1>3. \A key : ValuesOf(f, key) = ValuesOf(w, key) \cup
                 (ValuesOf(PayloadLines, key) \cup ValuesOf(x(legacy), key))
  <2> HIDE DEF w, x
  <2> QED BY <1>1, ValuesOfConcat
<1>4. \A key \in ExtraKeys : ValuesOf(w, key) = {}
  BY <1>2, FileValues, RevisionFieldNames
<1>5. \A key : key \notin ExtraKeys => ValuesOf(PayloadLines, key) = {} /\ ValuesOf(x(legacy), key) = {}
  <2>1. \A i \in DOMAIN LegacyKeys : LegacyKeys[i] \in ExtraKeys
    BY LegacyKeyNames DEF ExtraKeys
  <2> QED BY <2>1, PayloadValues, WrappedValues, LegacyValues DEF ExtraKeys
<1> HIDE DEF w
<1>6. ToWrappedDeks(f, r) = WrapsOf(r, rd)
  <2>1. ValuesOf(f, "wrapped_deks") = ValuesOf(x(legacy), "wrapped_deks")
    <3>1. ValuesOf(w, "wrapped_deks") = {} /\ ValuesOf(PayloadLines, "wrapped_deks") = {}
      BY <1>4, PayloadValues DEF ExtraKeys
    <3> HIDE DEF x
    <3> QED BY <1>3, <3>1
  <2>2. CASE ~legacy
    <3>1. ValuesOf(f, "wrapped_deks") = WrapsOf(r, rd)
      BY <2>1, <2>2, WrappedValues DEF WrapsOf
    <3>2. WrapsOf(r, rd) /= {}
      BY DEF WrapsOf
    <3> QED BY <3>1, <3>2 DEF ToWrappedDeks
  <2>3. CASE legacy
    <3> DEFINE d == WrapDek(r.author_device_id, DekWrapContext(r))
    <3>1. rd = <<r.author_device_id>>
      BY <1>1, <2>3
    <3>2. WrapsOf(r, rd) = {[device |-> r.author_device_id, dek |-> d]}
      BY <3>1 DEF WrapsOf
    <3>3. ValuesOf(f, "wrapped_deks") = {}
      BY <2>1, <2>3, LegacyValues, LegacyKeyNames
    <3>4. \A i \in DOMAIN LegacyKeys : LegacyKeys[i] \in ExtraKeys /\ LegacyKeys[i] \notin {"payload_algorithm", "payload_nonce"}
      BY LegacyKeyNames DEF ExtraKeys
    <3>5. \A i \in DOMAIN LegacyKeys : ValuesOf(f, LegacyKeys[i]) = {d}
      BY <1>3, <1>4, <2>3, <3>4, PayloadValues, LegacyValues
    <3>6. ValuesOf(f, "dek_wrap_ciphertext") = {d}
      BY <3>5, LegacyKeyNames
    <3> HIDE DEF d
    <3>7. ToWrappedDeks(f, r) = {[device |-> r.author_device_id, dek |-> v] : v \in {d}}
      BY <3>3, <3>5, <3>6 DEF ToWrappedDeks
    <3> QED BY <3>2, <3>7
  <2> QED BY <2>2, <2>3
<1>v. \A i \in 1..Len(TomlRevision) : ValuesOf(f, TomlRevision[i][1]) = ValuesOf(w, TomlRevision[i][1])
  BY <1>3, <1>5, RevisionFieldNames
<1>7. ReadToml(TomlRevision, f) = [ok |-> TRUE, rec |-> r]
  BY <1>2, <1>v, FileReadsBack DEF w
<1>8. ToEncryptedPayload(f)
  <2>1. \A i \in 1..2 : i = 1 \/ i = 2
    OBVIOUS
  <2>2. \A key \in {"payload_algorithm", "payload_nonce"} : ValuesOf(x(legacy), key) = {}
    BY LegacyKeyNames, WrappedValues, LegacyValues
  <2>3. /\ ValuesOf(f, "payload_algorithm") = {<<31>>}
        /\ ValuesOf(f, "payload_nonce") = {<<0, 1>>}
    BY <1>3, <1>4, <2>2, PayloadValues DEF ExtraKeys
  <2> QED BY <2>1, <2>3, PayloadLineNames DEF ToEncryptedPayload
<1>9. ToWrappedDeks(f, r) /= {}
  BY <1>6 DEF WrapsOf
<1>10. ReadRevisionFile(f) = [ok |-> TRUE, rec |-> r]
  BY <1>7, <1>8, <1>9 DEF ReadRevisionFile, WholeRevision
<1> QED BY <1>6, <1>v, <1>10 DEF w

\* Every wrapped key in a file is one of a reader.
KeysOfReaders(f, r, rd) == \A w \in ToWrappedDeks(f, r) : \E i \in DOMAIN rd : rd[i] = w.device

\* What is left of a revision's file is the record that was signed, with no
\* wrapped key that was not there before, or nothing at all.
LEMMA TornRevision ==
    ASSUME NEW r \in SignableRecords("revision"),
           NEW rd, rd \in Seq(Devices), \E i \in DOMAIN rd : rd[i] = r.author_device_id,
           NEW f \in WrittenFiles("revision", r, rd), NEW n \in 0..(Len(f) - 1),
           NEW p, p = SubSeq(f, 1, n), ReadRevisionFile(p).ok
    PROVE  /\ ReadRevisionFile(p).rec = r
           /\ KeysOfReaders(p, r, rd)
<1> DEFINE w == WriteToml(TomlRevision, r)
<1>1. PICK legacy \in BOOLEAN : \E T, e : FileParts(r, rd, f, T, e, legacy)
  BY RevisionFileParts
<1>q. PICK T, e : FileParts(r, rd, f, T, e, legacy)
  BY <1>1
<1>2. /\ e \in Seq(T) /\ w \in Seq(T) /\ f = w \o e
      /\ \A i \in 1..Len(e) : e[i].key \in ExtraKeys
  BY <1>q DEF FileParts
<1>3. FieldList(TomlRevision) /\ RecordFits(TomlRevision, r)
  BY KindNames, KindFields, KnownTomlRevision, SignableFits DEF KnownFields, TomlKinds
<1>4. ReadToml(TomlRevision, p).ok /\ ReadRevisionFile(p) = ReadToml(TomlRevision, p)
  BY DEF ReadRevisionFile, WholeRevision, Malformed
<1>5. f \in Seq(T) /\ n \in 0..Len(f) /\ n \in Nat
  <2>1. f \in Seq(T)
    BY <1>2, ConcatPositions DEF w
  <2> HIDE DEF w
  <2> QED BY <2>1
<1>6. Len(w) \in Nat
  <2> HIDE DEF w
  <2> QED BY <1>2
<1>7. n >= Len(w)
  <2> SUFFICES ASSUME n < Len(w) PROVE FALSE
    BY <1>5, <1>6
  <2>1. n \in 0..(Len(w) - 1)
    BY <1>5, <1>6
  <2>2. p = SubSeq(w, 1, n)
    <3> HIDE DEF w
    <3> QED BY <1>2, <1>5, PrefixValues
  <2>3. HasLine(TomlRevision, r, Len(TomlRevision)) /\ TomlRevision[11][2] \notin Optional
    BY RevisionFieldNames DEF HasLine, TomlRevision, Optional, PlainOptional
  <2>4. ValuesOf(p, TomlRevision[11][1]) = {}
    BY <1>3, <2>1, <2>2, <2>3, TornFileLacksTheLast, RevisionFieldNames
  <2>5. ReadToml(TomlRevision, p) = Malformed
    <3>1. 11 \in 1..Len(TomlRevision)
      BY RevisionFieldNames
    <3> QED BY <1>3, <2>3, <2>4, <3>1, MissingFieldIsRefused
  <2> QED BY <1>4, <2>5 DEF Malformed
<1>8. \A key : /\ ValuesOf(w, key) \subseteq ValuesOf(p, key)
               /\ ValuesOf(p, key) \subseteq ValuesOf(f, key)
  <2> HIDE DEF w
  <2> QED BY <1>2, <1>5, <1>7, PrefixValues
<1>9. \A key : ValuesOf(f, key) = ValuesOf(w, key) \cup ValuesOf(e, key)
  <2> HIDE DEF w
  <2> QED BY <1>2, ValuesOfConcat
<1>10. \A key : key \notin ExtraKeys => ValuesOf(e, key) = {}
  <2>1. DOMAIN e = 1..Len(e)
    OBVIOUS
  <2> QED BY <1>2, <2>1 DEF ValuesOf
<1>11. \A i \in 1..Len(TomlRevision) : ValuesOf(p, TomlRevision[i][1]) = ValuesOf(w, TomlRevision[i][1])
  <2> HIDE DEF w
  <2> QED BY <1>8, <1>9, <1>10, RevisionFieldNames
<1>12. ReadToml(TomlRevision, p) = [ok |-> TRUE, rec |-> r]
  BY <1>3, <1>11, FileReadsBack
<1>13. ASSUME NEW k \in ToWrappedDeks(p, r) PROVE \E i \in DOMAIN rd : rd[i] = k.device
  <2>1. CASE ValuesOf(p, "wrapped_deks") /= {}
    <3>1. k \in ValuesOf(f, "wrapped_deks")
      BY <1>8, <1>13, <2>1 DEF ToWrappedDeks
    <3>2. k \in ToWrappedDeks(f, r)
      BY <3>1 DEF ToWrappedDeks
    <3>3. k \in WrapsOf(r, rd)
      BY <3>2, SavedRevision
    <3> QED BY <3>3 DEF WrapsOf
  <2>2. CASE ValuesOf(p, "wrapped_deks") = {}
    <3>1. k.device = r.author_device_id
      BY <1>13, <2>2 DEF ToWrappedDeks
    <3> QED BY <3>1
  <2> QED BY <2>1, <2>2
<1> QED BY <1>4, <1>12, <1>13 DEF KeysOfReaders

\* The last line of every file of a record is its signature.
EndsSigned(fields) == Len(fields) \in 1..Len(fields) /\ fields[Len(fields)][2] = "sig"

LEMMA SignatureIsLast ==
    \A k \in TomlKinds : EndsSigned(FieldsOf(k))
<1>1. EndsSigned(TomlProjectGenesis)
  <2>1. Len(TomlProjectGenesis) = 10 /\ TomlProjectGenesis[10][2] = "sig"
    BY DEF TomlProjectGenesis
  <2> QED BY <2>1 DEF EndsSigned
<1>2. EndsSigned(TomlMembershipGenesis)
  <2>1. Len(TomlMembershipGenesis) = 6 /\ TomlMembershipGenesis[6][2] = "sig"
    BY DEF TomlMembershipGenesis
  <2> QED BY <2>1 DEF EndsSigned
<1>3. EndsSigned(TomlEnvironmentGenesis)
  <2>1. Len(TomlEnvironmentGenesis) = 10 /\ TomlEnvironmentGenesis[10][2] = "sig"
    BY DEF TomlEnvironmentGenesis
  <2> QED BY <2>1 DEF EndsSigned
<1>4. EndsSigned(TomlInvite)
  <2>1. Len(TomlInvite) = 9 /\ TomlInvite[9][2] = "sig"
    BY DEF TomlInvite
  <2> QED BY <2>1 DEF EndsSigned
<1>5. EndsSigned(TomlJoinRequest)
  <2>1. Len(TomlJoinRequest) = 9 /\ TomlJoinRequest[9][2] = "sig"
    BY DEF TomlJoinRequest
  <2> QED BY <2>1 DEF EndsSigned
<1>6. EndsSigned(TomlApproval)
  <2>1. Len(TomlApproval) = 7 /\ TomlApproval[7][2] = "sig"
    BY DEF TomlApproval
  <2> QED BY <2>1 DEF EndsSigned
<1>7. EndsSigned(TomlRevocation)
  <2>1. Len(TomlRevocation) = 7 /\ TomlRevocation[7][2] = "sig"
    BY DEF TomlRevocation
  <2> QED BY <2>1 DEF EndsSigned
<1>8. EndsSigned(TomlRevision)
  <2>1. Len(TomlRevision) = 11 /\ TomlRevision[11][2] = "sig"
    BY DEF TomlRevision
  <2> QED BY <2>1 DEF EndsSigned
<1> QED BY <1>1, <1>2, <1>3, <1>4, <1>5, <1>6, <1>7, <1>8, KindFields DEF TomlKinds

\* A whole file of a record of another kind, and what is left of one.
LEMMA SavedRecord ==
    ASSUME NEW k \in TomlKinds, NEW r \in SignableRecords(k)
    PROVE  ReadToml(FieldsOf(k), WriteToml(FieldsOf(k), r)) = [ok |-> TRUE, rec |-> r]
<1>1. FieldList(FieldsOf(k)) /\ RecordFits(FieldsOf(k), r)
  BY KindNames, KindsAreKnown, SignableFits DEF KnownFields
<1> QED BY <1>1, FileReadsBack

LEMMA TornRecord ==
    ASSUME NEW k \in TomlKinds, NEW r \in SignableRecords(k),
           NEW n \in 0..(Len(WriteToml(FieldsOf(k), r)) - 1)
    PROVE  ReadToml(FieldsOf(k), SubSeq(WriteToml(FieldsOf(k), r), 1, n)) = Malformed
<1> DEFINE fields == FieldsOf(k)
           m == Len(fields)
           p == SubSeq(WriteToml(fields, r), 1, n)
<1>1. FieldList(fields)
  BY KindNames, KindsAreKnown DEF KnownFields
<1>2. m \in 1..m /\ fields[m][2] \notin Optional
  BY SignatureIsLast DEF EndsSigned, Optional, PlainOptional
<1>3. HasLine(fields, r, Len(fields))
  BY <1>2 DEF HasLine
<1> HIDE DEF fields
<1>4. ValuesOf(p, fields[m][1]) = {}
  <2>1. n \in 0..(Len(WriteToml(fields, r)) - 1)
    BY DEF fields
  <2> QED BY <1>1, <1>3, <2>1, TornFileLacksTheLast
<1> HIDE DEF p, m
<1>5. ReadToml(fields, p) = Malformed
  BY <1>1, <1>2, <1>4, MissingFieldIsRefused DEF m
<1> QED BY <1>5 DEF p, fields

\* A name or an identifier is read as a text as it was written.
LEMMA TextReads ==
    ASSUME NEW fields, FieldList(fields), NEW r, NEW i \in 1..Len(fields),
           fields[i][2] \in {"device", "invite", "status"}, NEW f,
           ValuesOf(f, fields[i][1]) = ValuesOf(WriteToml(fields, r), fields[i][1])
    PROVE  ReadTomlField(f, fields[i][1], "text") = <<r[fields[i][1]]>>
<1> DEFINE key == fields[i][1]
           k == fields[i][2]
           v == r[key]
<1>1. k \notin Optional /\ k \notin {"source", "optHash"} \cup PlainOptional \cup Hexadecimal
  BY DEF Optional, PlainOptional, Hexadecimal, FixedLength
<1>2. TomlValue(k, v) = v
  BY <1>1, TomlCases
<1>3. ValuesOf(f, key) = {v}
  <2>1. ValuesOf(WriteToml(fields, r), key) = IF HasLine(fields, r, i) THEN {TomlValue(k, v)} ELSE {}
    BY FileValues
  <2> QED BY <1>1, <1>2, <2>1 DEF HasLine
<1>4. FromToml("text", v) = <<v>>
  BY TomlCases DEF PlainOptional, Hexadecimal, FixedLength
<1>5. ParsesValue("text", v)
  BY ParsesCases, ParsesValueCases, InnerKinds, IdKinds DEF FixedLength
<1>6. ParseTomlValue("text", v) = <<v>>
  BY <1>4, <1>5 DEF ParseTomlValue
<1>7. ValuesOf(f, key) /= {} /\ (CHOOSE x \in ValuesOf(f, key) : TRUE) = v
  BY <1>3
<1> HIDE DEF key, v
<1>8. ReadTomlField(f, key, "text") = <<v>>
  BY <1>6, <1>7 DEF ReadTomlField
<1> QED BY <1>8 DEF key, v

\* The relay reads from the file of a record what was signed.
LEMMA RelayReads ==
    ASSUME NEW k \in {"project", "invite", "join", "revision"}, NEW r \in SignableRecords(k), NEW f,
           \A i \in 1..Len(FieldsOf(k)) :
             ValuesOf(f, FieldsOf(k)[i][1]) = ValuesOf(WriteToml(FieldsOf(k), r), FieldsOf(k)[i][1])
    PROVE  /\ ReadToml(RelayFields[k], f).ok
           /\ \A g \in DOMAIN ReadToml(RelayFields[k], f).rec : ReadToml(RelayFields[k], f).rec[g] = r[g]
<1> DEFINE fields == RelayFields[k]
<1>1. FieldList(FieldsOf(k)) /\ RecordFits(FieldsOf(k), r)
  BY KindNames, KindsAreKnown, SignableFits DEF KnownFields, TomlKinds
<1>2. /\ FieldList(fields)
      /\ \A i \in 1..Len(fields) : ReadTomlField(f, fields[i][1], fields[i][2]) = <<r[fields[i][1]]>>
  <2>1. \A i \in 1..Len(FieldsOf(k)) :
          /\ ReadTomlField(f, FieldsOf(k)[i][1], FieldsOf(k)[i][2]) = <<r[FieldsOf(k)[i][1]]>>
          /\ FieldsOf(k)[i][2] \in {"device", "invite", "status"} =>
               ReadTomlField(f, FieldsOf(k)[i][1], "text") = <<r[FieldsOf(k)[i][1]]>>
    <3> SUFFICES ASSUME NEW i \in 1..Len(FieldsOf(k))
                 PROVE  /\ ReadTomlField(f, FieldsOf(k)[i][1], FieldsOf(k)[i][2]) = <<r[FieldsOf(k)[i][1]]>>
                        /\ FieldsOf(k)[i][2] \in {"device", "invite", "status"} =>
                             ReadTomlField(f, FieldsOf(k)[i][1], "text") = <<r[FieldsOf(k)[i][1]]>>
      OBVIOUS
    <3>1. Fits(FieldsOf(k)[i][2], r[FieldsOf(k)[i][1]])
      BY <1>1 DEF RecordFits
    <3>2. ReadTomlField(f, FieldsOf(k)[i][1], FieldsOf(k)[i][2]) = <<r[FieldsOf(k)[i][1]]>>
      BY <1>1, <3>1, FieldReads
    <3>3. ASSUME FieldsOf(k)[i][2] \in {"device", "invite", "status"}
          PROVE  ReadTomlField(f, FieldsOf(k)[i][1], "text") = <<r[FieldsOf(k)[i][1]]>>
      BY <1>1, <3>3, TextReads
    <3> QED BY <3>2, <3>3
  <2>2. CASE k = "project"
    <3>1. FieldsOf(k) = TomlProjectGenesis /\ fields = RelayProjectGenesisRecord
      BY <2>2, KindFields DEF RelayFields
    <3>2. /\ Len(TomlProjectGenesis) = 10
          /\ TomlProjectGenesis[5][1] = "creator_device_id" /\ TomlProjectGenesis[5][2] = "device"
      BY DEF TomlProjectGenesis
    <3>3. /\ Len(RelayProjectGenesisRecord) = 1 /\ DOMAIN RelayProjectGenesisRecord = 1..1
          /\ RelayProjectGenesisRecord[1][1] = "creator_device_id"
          /\ RelayProjectGenesisRecord[1][2] = "text"
      BY DEF RelayProjectGenesisRecord
    <3>4. ReadTomlField(f, "creator_device_id", "text") = <<r["creator_device_id"]>>
      <4>1. 5 \in 1..10
        OBVIOUS
      <4> QED BY <2>1, <3>1, <3>2, <4>1
    <3>5. \A i \in 1..1 : i = 1
      OBVIOUS
    <3> HIDE DEF fields
    <3> QED BY <3>1, <3>3, <3>4, <3>5 DEF FieldList
  <2>3. CASE k = "invite"
    <3>1. FieldsOf(k) = TomlInvite /\ fields = RelayInviteRecord
      BY <2>3, KindFields DEF RelayFields
    <3>2. /\ Len(TomlInvite) = 9
          /\ TomlInvite[7][1] = "max_uses" /\ TomlInvite[7][2] = "u32"
          /\ TomlInvite[8][1] = "status" /\ TomlInvite[8][2] = "status"
          /\ TomlInvite[6][1] = "expires_at" /\ TomlInvite[6][2] = "word"
      BY DEF TomlInvite
    <3>3. /\ Len(RelayInviteRecord) = 3 /\ DOMAIN RelayInviteRecord = 1..3
          /\ RelayInviteRecord[1][1] = "max_uses" /\ RelayInviteRecord[1][2] = "u32"
          /\ RelayInviteRecord[2][1] = "status" /\ RelayInviteRecord[2][2] = "text"
          /\ RelayInviteRecord[3][1] = "expires_at" /\ RelayInviteRecord[3][2] = "word"
      BY DEF RelayInviteRecord
    <3>4. /\ ReadTomlField(f, "max_uses", "u32") = <<r["max_uses"]>>
          /\ ReadTomlField(f, "status", "text") = <<r["status"]>>
          /\ ReadTomlField(f, "expires_at", "word") = <<r["expires_at"]>>
      <4>1. 6 \in 1..9 /\ 7 \in 1..9 /\ 8 \in 1..9
        OBVIOUS
      <4> QED BY <2>1, <3>1, <3>2, <4>1
    <3>5. \A i \in 1..3 : i = 1 \/ i = 2 \/ i = 3
      OBVIOUS
    <3>6. FieldList(RelayInviteRecord)
      BY <3>3, <3>5 DEF FieldList
    <3>7. \A i \in 1..3 : ReadTomlField(f, RelayInviteRecord[i][1], RelayInviteRecord[i][2])
                            = <<r[RelayInviteRecord[i][1]]>>
      BY <3>3, <3>4, <3>5
    <3> QED BY <3>1, <3>3, <3>6, <3>7
  <2>4. CASE k = "join"
    <3>1. FieldsOf(k) = TomlJoinRequest /\ fields = RelayJoinRequestRecord
      BY <2>4, KindFields DEF RelayFields
    <3>2. /\ Len(TomlJoinRequest) = 9
          /\ TomlJoinRequest[2][1] = "invite_id" /\ TomlJoinRequest[2][2] = "invite"
          /\ TomlJoinRequest[3][1] = "joining_device_id" /\ TomlJoinRequest[3][2] = "device"
      BY DEF TomlJoinRequest
    <3>3. /\ Len(RelayJoinRequestRecord) = 2 /\ DOMAIN RelayJoinRequestRecord = 1..2
          /\ RelayJoinRequestRecord[1][1] = "invite_id" /\ RelayJoinRequestRecord[1][2] = "text"
          /\ RelayJoinRequestRecord[2][1] = "joining_device_id" /\ RelayJoinRequestRecord[2][2] = "text"
      BY DEF RelayJoinRequestRecord
    <3>4. /\ ReadTomlField(f, "invite_id", "text") = <<r["invite_id"]>>
          /\ ReadTomlField(f, "joining_device_id", "text") = <<r["joining_device_id"]>>
      <4>1. 2 \in 1..9 /\ 3 \in 1..9
        OBVIOUS
      <4> QED BY <2>1, <3>1, <3>2, <4>1
    <3>5. \A i \in 1..2 : i = 1 \/ i = 2
      OBVIOUS
    <3>6. FieldList(RelayJoinRequestRecord)
      BY <3>3, <3>5 DEF FieldList
    <3>7. \A i \in 1..2 : ReadTomlField(f, RelayJoinRequestRecord[i][1], RelayJoinRequestRecord[i][2])
                            = <<r[RelayJoinRequestRecord[i][1]]>>
      BY <3>3, <3>4, <3>5
    <3> QED BY <3>1, <3>3, <3>6, <3>7
  <2>5. CASE k = "revision"
    <3>1. fields = RelayRevisionMetadata /\ FieldsOf(k) = TomlRevision
      BY <2>5, KindFields DEF RelayFields
    <3>2. RelayRevisionMetadata = TomlRevision
      BY DEF RelayRevisionMetadata, TomlRevision
    <3> HIDE DEF fields
    <3> QED BY <1>1, <2>1, <3>1, <3>2
  <2> QED BY <2>2, <2>3, <2>4, <2>5
<1> HIDE DEF fields
<1>3. ReadToml(fields, f) = [ok |-> TRUE, rec |-> [g \in FieldNames(fields) |-> r[g]]]
  BY <1>2, FieldsMakeTheRecord
<1>4. ReadToml(fields, f).ok /\ \A g \in DOMAIN ReadToml(fields, f).rec : ReadToml(fields, f).rec[g] = r[g]
  BY <1>3
<1> QED BY <1>4 DEF fields

-----------------------------------------------------------------------------
(* The invariant: a file that a command finished is one of those its record *)
(* is written as, and a torn one is the beginning of such a file.           *)

LinesHold == \A i \in DOMAIN file : DOMAIN file[i] = {"key", "value"}

ReadersHold ==
    stage /= "new" /\ kind = "revision" =>
        readers \in Seq(Devices) /\ \E i \in DOMAIN readers : readers[i] = signed.author_device_id

FileHolds ==
    /\ stage \in {"new", "signed", "presented"} => file = <<>>
    /\ stage \in {"saved", "loaded", "opened", "published"} =>
         kind \in TomlKinds /\ file \in WrittenFiles(kind, signed, readers)
    /\ stage \in {"torn", "loadedTorn"} =>
         /\ kind \in TomlKinds
         /\ \E f \in WrittenFiles(kind, signed, readers) :
              \E n \in 0..(Len(f) - 1) : file = SubSeq(f, 1, n)

RecordInv ==
    /\ stage \in Stages /\ kind \in Kinds
    /\ stage /= "new" => signed \in SignableRecords(kind)
    /\ LinesHold /\ ReadersHold /\ FileHolds
    /\ LoadedIsWhatWasSigned /\ TornFileIsRefused /\ OpensForItsReaders /\ RelayReadsTheFile

\* Every line of a file that a command finished is a name and a value.
LEMMA WrittenLines ==
    ASSUME NEW k \in TomlKinds, NEW r \in SignableRecords(k), NEW rd,
           k = "revision" => rd \in Seq(Devices), NEW f \in WrittenFiles(k, r, rd)
    PROVE  /\ DOMAIN f = 1..Len(f) /\ Len(f) \in Nat
           /\ \A i \in 1..Len(f) : DOMAIN f[i] = {"key", "value"}
<1> DEFINE w == WriteToml(FieldsOf(k), r)
           IsLine(l) == DOMAIN l = {"key", "value"}
<1>1. FieldList(FieldsOf(k))
  BY KindNames, KindsAreKnown DEF KnownFields
<1>2. w \in Seq(LinesOf(FieldsOf(k), r))
  BY <1>1, FileLines
<1>3. \A l \in LinesOf(FieldsOf(k), r) : IsLine(l)
  BY DEF LinesOf, LineOf
<1>4. DOMAIN w = 1..Len(w) /\ Len(w) \in Nat /\ \A i \in 1..Len(w) : IsLine(w[i])
  <2> HIDE DEF w, IsLine
  <2> QED BY <1>2, <1>3
<1>5. CASE k /= "revision"
  <2>1. f = w
    BY <1>5, KindFields DEF WrittenFiles
  <2> QED BY <1>4, <2>1
<1>6. CASE k = "revision"
  <2>1. PICK legacy \in BOOLEAN : \E T, e : FileParts(r, rd, f, T, e, legacy)
    BY <1>6, RevisionFileParts
  <2>2. PICK T, e : FileParts(r, rd, f, T, e, legacy)
    BY <2>1
  <2>3. w = WriteToml(TomlRevision, r)
    BY <1>6, KindFields
  <2>4. /\ e \in Seq(T) /\ w \in Seq(T) /\ f = w \o e
        /\ \A i \in 1..Len(e) : IsLine(e[i])
    BY <2>2, <2>3 DEF FileParts
  <2> HIDE DEF w, IsLine
  <2>5. /\ f \in Seq(T)
        /\ \A i \in 1..Len(w) : f[i] = w[i]
        /\ \A i \in 1..Len(e) : f[Len(w) + i] = e[i]
        /\ \A i \in 1..Len(f) : i \in 1..Len(w) \/ \E j \in 1..Len(e) : i = Len(w) + j
    BY <2>4, ConcatPositions
  <2>6. \A i \in 1..Len(f) : IsLine(f[i])
    BY <1>4, <2>4, <2>5
  <2> QED BY <2>5, <2>6 DEF IsLine
<1> QED BY <1>5, <1>6

\* The parts of the invariant that an action leaves alone.
LEMMA SameFile ==
    ASSUME UNCHANGED <<kind, signed, readers, file>>
    PROVE  /\ WrittenFiles(kind, signed, readers)' = WrittenFiles(kind, signed, readers)
           /\ LinesHold => LinesHold'
           /\ stage /= "new" /\ ReadersHold => ReadersHold'
<1>1. WrittenFiles(kind, signed, readers)' = WrittenFiles(kind', signed', readers')
  OBVIOUS
<1> QED BY <1>1 DEF LinesHold, ReadersHold

LEMMA InitHolds == Init => RecordInv
BY DEF Init, RecordInv, LinesHold, ReadersHold, FileHolds, LoadedIsWhatWasSigned, TornFileIsRefused,
       OpensForItsReaders, RelayReadsTheFile, Stages

LEMMA SignHolds ==
    ASSUME RecordInv, Sign
    PROVE  RecordInv'
<1>1. PICK r \in SignableRecords(kind) : signed' = r /\ readers' \in ReadersFor(r)
  BY DEF Sign
<1>2. stage = "new" /\ stage' = "signed" /\ UNCHANGED <<kind, file, result>>
  BY DEF Sign
<1>3. file = <<>> /\ LinesHold /\ kind \in Kinds
  BY <1>2 DEF RecordInv, FileHolds
<1>4. ReadersHold'
  <2> SUFFICES ASSUME kind = "revision"
               PROVE  readers' \in Seq(Devices) /\ \E i \in DOMAIN readers' : readers'[i] = signed'.author_device_id
    BY <1>2 DEF ReadersHold
  <2>1. /\ readers' \in UNION {[1..n -> Devices] : n \in 1..MaxReaders}
        /\ \E i \in DOMAIN readers' : readers'[i] = signed'.author_device_id
    BY <1>1 DEF ReadersFor
  <2>2. PICK n \in 1..MaxReaders : readers' \in [1..n -> Devices]
    BY <2>1
  <2>3. n \in Nat
    BY <2>2
  <2>4. readers' \in Seq(Devices)
    BY <2>2, <2>3
  <2> QED BY <2>1, <2>4
<1>5. LinesHold' /\ FileHolds'
  BY <1>2, <1>3 DEF LinesHold, FileHolds
<1>6. LoadedIsWhatWasSigned' /\ TornFileIsRefused' /\ OpensForItsReaders' /\ RelayReadsTheFile'
  BY <1>2 DEF LoadedIsWhatWasSigned, TornFileIsRefused, OpensForItsReaders, RelayReadsTheFile
<1> QED BY <1>1, <1>2, <1>3, <1>4, <1>5, <1>6 DEF RecordInv, Stages

LEMMA SaveHolds ==
    ASSUME RecordInv, Save \/ SaveLegacy
    PROVE  RecordInv'
<1>1. /\ stage = "signed" /\ stage' = "saved" /\ UNCHANGED <<kind, signed, readers, result>>
      /\ kind \in TomlKinds
      /\ file' \in WrittenFiles(kind, signed, readers)
  <2>1. CASE Save
    BY <2>1, KindNames DEF Save, WrittenFiles
  <2>2. CASE SaveLegacy
    BY <2>2 DEF SaveLegacy, WrittenFiles, TomlKinds
  <2> QED BY <2>1, <2>2
<1>2. /\ kind \in Kinds /\ signed \in SignableRecords(kind) /\ ReadersHold
      /\ kind = "revision" => readers \in Seq(Devices)
  BY <1>1 DEF RecordInv, ReadersHold
<1>3. LinesHold'
  <2>1. DOMAIN file' = 1..Len(file') /\ \A i \in 1..Len(file') : DOMAIN file'[i] = {"key", "value"}
    BY <1>1, <1>2, WrittenLines
  <2> QED BY <2>1 DEF LinesHold
<1>4. ReadersHold'
  BY <1>1, <1>2 DEF ReadersHold
<1>5. WrittenFiles(kind, signed, readers)' = WrittenFiles(kind, signed, readers)
  BY <1>1
<1>6. FileHolds'
  BY <1>1, <1>5 DEF FileHolds
<1>7. LoadedIsWhatWasSigned' /\ TornFileIsRefused' /\ OpensForItsReaders' /\ RelayReadsTheFile'
  BY <1>1 DEF LoadedIsWhatWasSigned, TornFileIsRefused, OpensForItsReaders, RelayReadsTheFile
<1>8. (signed \in SignableRecords(kind))'
  BY <1>1, <1>2
<1> QED BY <1>1, <1>2, <1>3, <1>4, <1>6, <1>7, <1>8 DEF RecordInv, Stages

LEMMA TearHolds ==
    ASSUME RecordInv, Tear
    PROVE  RecordInv'
<1>1. /\ stage = "saved" /\ stage' = "torn" /\ UNCHANGED <<kind, signed, readers, result>>
      /\ \E n \in 0..(Len(file) - 1) : file' = SubSeq(file, 1, n)
  BY DEF Tear
<1>2. /\ kind \in Kinds /\ signed \in SignableRecords(kind) /\ ReadersHold
      /\ kind \in TomlKinds /\ file \in WrittenFiles(kind, signed, readers)
      /\ kind = "revision" => readers \in Seq(Devices)
  BY <1>1 DEF RecordInv, ReadersHold, FileHolds
<1>3. LinesHold'
  <2>1. /\ DOMAIN file = 1..Len(file) /\ Len(file) \in Nat
        /\ \A i \in 1..Len(file) : DOMAIN file[i] = {"key", "value"}
    BY <1>2, WrittenLines
  <2>2. PICK n \in 0..(Len(file) - 1) : file' = SubSeq(file, 1, n)
    BY <1>1
  <2>3. DOMAIN file' = 1..n /\ \A i \in 1..n : i \in 1..Len(file) /\ file'[i] = file[i]
    BY <2>1, <2>2
  <2> QED BY <2>1, <2>3 DEF LinesHold
<1>4. ReadersHold'
  BY <1>1, <1>2 DEF ReadersHold
<1>5. FileHolds'
  <2>1. WrittenFiles(kind, signed, readers)' = WrittenFiles(kind, signed, readers)
    BY <1>1
  <2>2. \E f \in WrittenFiles(kind, signed, readers) : \E n \in 0..(Len(f) - 1) : file' = SubSeq(f, 1, n)
    BY <1>1, <1>2
  <2> QED BY <1>1, <1>2, <2>1, <2>2 DEF FileHolds
<1>6. LoadedIsWhatWasSigned' /\ TornFileIsRefused' /\ OpensForItsReaders' /\ RelayReadsTheFile'
  BY <1>1 DEF LoadedIsWhatWasSigned, TornFileIsRefused, OpensForItsReaders, RelayReadsTheFile
<1>7. (signed \in SignableRecords(kind))'
  BY <1>1, <1>2
<1> QED BY <1>1, <1>2, <1>3, <1>4, <1>5, <1>6, <1>7 DEF RecordInv, Stages

LEMMA LoadHolds ==
    ASSUME RecordInv, Load
    PROVE  RecordInv'
<1>1. /\ stage \in {"saved", "torn"} /\ UNCHANGED <<kind, signed, readers, file>>
      /\ result' = ReadFile
      /\ stage' = IF stage = "saved" THEN "loaded" ELSE "loadedTorn"
  BY DEF Load
<1>2. /\ kind \in Kinds /\ signed \in SignableRecords(kind) /\ ReadersHold /\ LinesHold
      /\ kind \in TomlKinds
      /\ kind = "revision" =>
           readers \in Seq(Devices) /\ \E i \in DOMAIN readers : readers[i] = signed.author_device_id
  BY <1>1 DEF RecordInv, ReadersHold, FileHolds
<1>3. LinesHold' /\ ReadersHold' /\ (signed \in SignableRecords(kind))'
  BY <1>1, <1>2 DEF LinesHold, ReadersHold
<1>4. FileHolds'
  <2>1. WrittenFiles(kind, signed, readers)' = WrittenFiles(kind, signed, readers)
    BY <1>1
  <2>2. FileHolds
    BY DEF RecordInv
  <2> QED BY <1>1, <1>2, <2>1, <2>2 DEF FileHolds
<1>5. TomlFields[kind] = FieldsOf(kind)
  BY <1>2, KindFields
<1>6. LoadedIsWhatWasSigned'
  <2> SUFFICES ASSUME stage = "saved" PROVE ReadFile = [ok |-> TRUE, rec |-> signed]
    BY <1>1 DEF LoadedIsWhatWasSigned
  <2>1. file \in WrittenFiles(kind, signed, readers)
    BY DEF RecordInv, FileHolds
  <2>2. CASE kind = "revision"
    BY <1>2, <2>1, <2>2, SavedRevision DEF ReadFile
  <2>3. CASE kind /= "revision"
    <3>1. file = WriteToml(FieldsOf(kind), signed)
      BY <1>5, <2>1, <2>3 DEF WrittenFiles
    <3> QED BY <1>2, <1>5, <2>3, <3>1, SavedRecord DEF ReadFile
  <2> QED BY <2>2, <2>3
<1>7. TornFileIsRefused'
  <2> SUFFICES ASSUME stage = "torn", ReadFile.ok
               PROVE  /\ kind = "revision"
                      /\ ReadFile.rec = signed
                      /\ \A w \in ToWrappedDeks(file, signed) : \E i \in DOMAIN readers : readers[i] = w.device
    BY <1>1 DEF TornFileIsRefused
  <2>1. PICK f \in WrittenFiles(kind, signed, readers) : \E n \in 0..(Len(f) - 1) : file = SubSeq(f, 1, n)
    BY DEF RecordInv, FileHolds
  <2>2. PICK n \in 0..(Len(f) - 1) : file = SubSeq(f, 1, n)
    BY <2>1
  <2>3. kind = "revision"
    <3> SUFFICES ASSUME kind /= "revision" PROVE FALSE
      OBVIOUS
    <3>1. f = WriteToml(FieldsOf(kind), signed)
      BY <1>5, <2>1 DEF WrittenFiles
    <3>2. ReadToml(FieldsOf(kind), file) = Malformed
      BY <1>2, <2>2, <3>1, TornRecord
    <3> QED BY <1>5, <3>2 DEF ReadFile, Malformed
  <2>4. ReadFile = ReadRevisionFile(file)
    BY <2>3 DEF ReadFile
  <2>5. f \in WrittenFiles("revision", signed, readers) /\ signed \in SignableRecords("revision")
    BY <1>2, <2>1, <2>3
  <2>6. /\ readers \in Seq(Devices) /\ \E i \in DOMAIN readers : readers[i] = signed.author_device_id
        /\ ReadRevisionFile(file).ok
    BY <1>2, <2>3, <2>4
  <2>7. /\ ReadRevisionFile(file).rec = signed
        /\ KeysOfReaders(file, signed, readers)
    BY <2>2, <2>5, <2>6, TornRevision
  <2> QED BY <2>3, <2>4, <2>7 DEF KeysOfReaders
<1>8. OpensForItsReaders' /\ RelayReadsTheFile'
  BY <1>1 DEF OpensForItsReaders, RelayReadsTheFile
<1>9. (stage \in Stages /\ kind \in Kinds)'
  BY <1>1, <1>2 DEF Stages
<1> QED BY <1>3, <1>4, <1>6, <1>7, <1>8, <1>9 DEF RecordInv

LEMMA OpenHolds ==
    ASSUME RecordInv, NEW d \in Devices, Open(d)
    PROVE  RecordInv'
<1>1. /\ stage = "loaded" /\ stage' = "opened" /\ kind = "revision"
      /\ UNCHANGED <<kind, signed, readers, file>>
  BY DEF Open
<1>2. /\ kind \in Kinds /\ signed \in SignableRecords(kind) /\ ReadersHold /\ LinesHold
      /\ kind \in TomlKinds /\ file \in WrittenFiles(kind, signed, readers)
      /\ readers \in Seq(Devices) /\ \E i \in DOMAIN readers : readers[i] = signed.author_device_id
      /\ result = [ok |-> TRUE, rec |-> signed]
  BY <1>1 DEF RecordInv, ReadersHold, FileHolds, LoadedIsWhatWasSigned
<1>3. LinesHold' /\ ReadersHold' /\ (signed \in SignableRecords(kind))'
  BY <1>1, <1>2 DEF LinesHold, ReadersHold
<1>4. FileHolds'
  <2>1. WrittenFiles(kind, signed, readers)' = WrittenFiles(kind, signed, readers)
    BY <1>1
  <2> QED BY <1>1, <1>2, <2>1 DEF FileHolds
<1>5. OpensForItsReaders'
  <2>1. ToWrappedDeks(file, signed) = WrapsOf(signed, readers)
    BY <1>1, <1>2, SavedRevision
  <2>2. result' = [by |-> d, opened |-> /\ Verifies(kind, signed)
                             /\ \E w \in WrapsOf(signed, readers) :
                                  w.device = d /\ Unwraps(w.dek, d, DekWrapContext(signed))]
    BY <1>2, <2>1, Zenon DEF Open
  <2>3. Verifies(kind, signed)
    BY DEF Verifies
  <2>4. (\E w \in WrapsOf(signed, readers) : w.device = d /\ Unwraps(w.dek, d, DekWrapContext(signed)))
          <=> (\E i \in DOMAIN readers : readers[i] = d)
    <3> DEFINE W(i) == [device |-> readers[i], dek |-> WrapDek(readers[i], DekWrapContext(signed))]
    <3>1. ASSUME NEW i \in DOMAIN readers, readers[i] = d
          PROVE  \E w \in WrapsOf(signed, readers) : w.device = d /\ Unwraps(w.dek, d, DekWrapContext(signed))
      <4>1. W(i) \in WrapsOf(signed, readers)
        BY DEF WrapsOf
      <4>2. W(i).device = d /\ W(i).dek = WrapDek(d, DekWrapContext(signed))
        BY <3>1
      <4> HIDE DEF W
      <4> QED BY <4>1, <4>2 DEF Unwraps
    <3>2. ASSUME NEW w \in WrapsOf(signed, readers), w.device = d
          PROVE  \E i \in DOMAIN readers : readers[i] = d
      <4>1. PICK i \in DOMAIN readers : w = W(i)
        BY <3>2 DEF WrapsOf
      <4>2. readers[i] = d
        BY <3>2, <4>1
      <4> QED BY <4>2
    <3> QED BY <3>1, <3>2
  <2>5. result'.by = d /\ (result'.opened <=> \E i \in DOMAIN readers : readers[i] = d)
    BY <2>2, <2>3, <2>4
  <2> QED BY <1>1, <2>5 DEF OpensForItsReaders
<1>6. LoadedIsWhatWasSigned' /\ TornFileIsRefused' /\ RelayReadsTheFile'
  BY <1>1 DEF LoadedIsWhatWasSigned, TornFileIsRefused, RelayReadsTheFile
<1>7. (stage \in Stages /\ kind \in Kinds)'
  BY <1>1, <1>2 DEF Stages
<1> QED BY <1>3, <1>4, <1>5, <1>6, <1>7 DEF RecordInv

LEMMA PublishHolds ==
    ASSUME RecordInv, PublishFile
    PROVE  RecordInv'
<1>1. /\ stage = "saved" /\ stage' = "published" /\ kind \in DOMAIN RelayFields
      /\ UNCHANGED <<kind, signed, readers, file>>
      /\ result' = ReadToml(RelayFields[kind], file)
  BY DEF PublishFile
<1>2. /\ kind \in Kinds /\ signed \in SignableRecords(kind) /\ ReadersHold /\ LinesHold
      /\ kind \in TomlKinds /\ file \in WrittenFiles(kind, signed, readers)
      /\ kind = "revision" =>
           readers \in Seq(Devices) /\ \E i \in DOMAIN readers : readers[i] = signed.author_device_id
  BY <1>1 DEF RecordInv, ReadersHold, FileHolds
<1>3. LinesHold' /\ ReadersHold' /\ (signed \in SignableRecords(kind))'
  BY <1>1, <1>2 DEF LinesHold, ReadersHold
<1>4. FileHolds'
  <2>1. WrittenFiles(kind, signed, readers)' = WrittenFiles(kind, signed, readers)
    BY <1>1
  <2> QED BY <1>1, <1>2, <2>1 DEF FileHolds
<1>5. RelayReadsTheFile'
  <2>1. kind \in {"project", "invite", "join", "revision"}
    BY <1>1 DEF RelayFields
  <2>2. \A i \in 1..Len(FieldsOf(kind)) :
          ValuesOf(file, FieldsOf(kind)[i][1]) = ValuesOf(WriteToml(FieldsOf(kind), signed), FieldsOf(kind)[i][1])
    <3>1. CASE kind = "revision"
      <4>1. FieldsOf(kind) = TomlRevision
        BY <3>1, KindFields
      <4> QED BY <1>2, <3>1, <4>1, SavedRevision
    <3>2. CASE kind /= "revision"
      <4>1. file = WriteToml(FieldsOf(kind), signed)
        BY <1>2, <3>2, KindFields DEF WrittenFiles
      <4> QED BY <4>1
    <3> QED BY <3>1, <3>2
  <2>3. /\ ReadToml(RelayFields[kind], file).ok
        /\ \A g \in DOMAIN ReadToml(RelayFields[kind], file).rec :
             ReadToml(RelayFields[kind], file).rec[g] = signed[g]
    BY <1>2, <2>1, <2>2, RelayReads
  <2>4. result'.ok /\ \A f \in DOMAIN result'.rec : result'.rec[f] = signed[f]
    BY <1>1, <2>3
  <2> QED BY <1>1, <2>4 DEF RelayReadsTheFile
<1>6. LoadedIsWhatWasSigned' /\ TornFileIsRefused' /\ OpensForItsReaders'
  BY <1>1 DEF LoadedIsWhatWasSigned, TornFileIsRefused, OpensForItsReaders
<1>7. (stage \in Stages /\ kind \in Kinds)'
  BY <1>1, <1>2 DEF Stages
<1> QED BY <1>3, <1>4, <1>5, <1>6, <1>7 DEF RecordInv

\* The actions that neither write nor read a file.
LEMMA OthersHold ==
    ASSUME RecordInv, Present \/ Send \/ SendRequest \/ Cut \/ Receive \/ UNCHANGED vars
    PROVE  RecordInv'
<1>1. UNCHANGED <<kind, signed, readers, file>>
  BY DEF Present, Send, SendRequest, Cut, Receive, vars
<1>2. /\ kind \in Kinds /\ (stage /= "new" => signed \in SignableRecords(kind))
      /\ ReadersHold /\ LinesHold /\ FileHolds /\ stage \in Stages
  BY DEF RecordInv
<1>3. WrittenFiles(kind, signed, readers)' = WrittenFiles(kind, signed, readers)
  BY <1>1
<1>4. CASE UNCHANGED vars
  <2>1. UNCHANGED <<stage, result>>
    BY <1>4 DEF vars
  <2> QED BY <1>1, <1>2, <1>3, <2>1
      DEF RecordInv, LinesHold, ReadersHold, FileHolds, LoadedIsWhatWasSigned, TornFileIsRefused,
          OpensForItsReaders, RelayReadsTheFile
<1>5. CASE Present \/ Send \/ SendRequest \/ Cut \/ Receive
  <2>1. /\ stage /= "new"
        /\ stage' \in {"presented", "sent", "cut", "received", "receivedCut"}
        /\ stage' = "presented" => stage = "signed"
    BY <1>5 DEF Present, Send, SendRequest, Cut, Receive
  <2>2. LinesHold' /\ ReadersHold' /\ (signed \in SignableRecords(kind))'
    BY <1>1, <1>2, <2>1 DEF LinesHold, ReadersHold
  <2>3. FileHolds'
    BY <1>1, <1>2, <2>1 DEF FileHolds
  <2>4. LoadedIsWhatWasSigned' /\ TornFileIsRefused' /\ OpensForItsReaders' /\ RelayReadsTheFile'
    BY <2>1 DEF LoadedIsWhatWasSigned, TornFileIsRefused, OpensForItsReaders, RelayReadsTheFile
  <2>5. (stage \in Stages /\ kind \in Kinds)'
    BY <1>1, <1>2, <2>1 DEF Stages
  <2> QED BY <2>2, <2>3, <2>4, <2>5 DEF RecordInv
<1> QED BY <1>4, <1>5

\* The invariant holds in every state.
LEMMA RecordInvHolds == Spec => []RecordInv
<1>1. RecordInv /\ [Next]_vars => RecordInv'
  BY SignHolds, SaveHolds, TearHolds, LoadHolds, OpenHolds, PublishHolds, OthersHold DEF Next
<1> QED BY <1>1, InitHolds, PTL DEF Spec

\* Stages, kinds, files and readers are what they are said to be.
THEOREM RecordTypes == Spec => []TypeOK
<1>1. RecordInv => TypeOK
  BY DEF RecordInv, TypeOK, LinesHold, ReadersHold
<1> QED BY <1>1, RecordInvHolds, PTL

\* What a command saved it reads back field for field, whatever the record, so
\* that the signature it checks is over the bytes that were signed.
THEOREM LoadGivesTheRecord == Spec => []LoadedIsWhatWasSigned
<1>1. RecordInv => LoadedIsWhatWasSigned
  BY DEF RecordInv
<1> QED BY <1>1, RecordInvHolds, PTL

\* A file whose writer died is refused, or is a revision as it was signed that
\* opens for some of its readers, wherever the write stopped.
THEOREM TornFilesAreRefused == Spec => []TornFileIsRefused
<1>1. RecordInv => TornFileIsRefused
  BY DEF RecordInv
<1> QED BY <1>1, RecordInvHolds, PTL

\* A revision opens in the checkouts of its readers and in no other, in both
\* forms of its wrapped keys and for any number of readers.
THEOREM ReadersOpen == Spec => []OpensForItsReaders
<1>1. RecordInv => OpensForItsReaders
  BY DEF RecordInv
<1> QED BY <1>1, RecordInvHolds, PTL

\* The relay takes from a file that a checkout wrote the values that were signed.
THEOREM RelayReadsWhatWasSigned == Spec => []RelayReadsTheFile
<1>1. RecordInv => RelayReadsTheFile
  BY DEF RecordInv
<1> QED BY <1>1, RecordInvHolds, PTL

-----------------------------------------------------------------------------
(* The signed bytes.                                                       *)

Regroups(a, b, c) == (a \o b) \o c = a \o (b \o c)

LEMMA BytesConcat ==
    ASSUME NEW a \in Bytes, NEW b \in Bytes, NEW c \in Bytes
    PROVE  Regroups(a, b, c) /\ a \o b \in Bytes /\ b \o c \in Bytes
<1>1. a \in Seq(Nat) /\ b \in Seq(Nat) /\ c \in Seq(Nat)
  BY DEF Bytes
<1>2. (a \o b) \o c = a \o (b \o c)
  BY <1>1, ConcatAssociative
<1>3. a \o b \in Seq(Nat) /\ b \o c \in Seq(Nat)
  BY <1>1, ConcatProperties
<1> QED BY <1>2, <1>3 DEF Bytes, Regroups

\* What begins with one of two pieces tells which, and what follows it.
Splits(p, q) == \A x, y \in Bytes : p \o x = q \o y => p = q /\ x = y

\* Concatenations of as many pieces, each of which splits, split in one way.
LEMMA PiecesSplitOneWay ==
    ASSUME NEW P \in Seq(Bytes), NEW Q \in Seq(Bytes), Len(P) = Len(Q), Len(P) > 0,
           \A i \in 1..Len(P) : Splits(P[i], Q[i])
    PROVE  /\ FlattenSeq(P) \in Bytes /\ FlattenSeq(Q) \in Bytes
           /\ Splits(FlattenSeq(P), FlattenSeq(Q))
           /\ FlattenSeq(P) = FlattenSeq(Q) => P = Q
<1> DEFINE n == Len(P)
<1>1. n \in Nat /\ n > 0 /\ \A i \in 1..n : P[i] \in Bytes /\ Q[i] \in Bytes
  OBVIOUS
<1>2. P \in Seq(Seq(Nat)) /\ Q \in Seq(Seq(Nat))
  BY DEF Bytes
<1>3. PICK g \in [1..n -> Seq(Nat)] : /\ g[1] = P[1]
                                      /\ \A i \in 1..n : i /= 1 => g[i] = g[i - 1] \o P[i]
                                      /\ FlattenSeq(P) = g[n]
  BY <1>2, FlattenSteps
<1>4. PICK h \in [1..n -> Seq(Nat)] : /\ h[1] = Q[1]
                                      /\ \A i \in 1..n : i /= 1 => h[i] = h[i - 1] \o Q[i]
                                      /\ FlattenSeq(Q) = h[n]
  <2>1. \E h \in [1..Len(Q) -> Seq(Nat)] : /\ h[1] = Q[1]
                                           /\ \A i \in 1..Len(Q) : i /= 1 => h[i] = h[i - 1] \o Q[i]
                                           /\ FlattenSeq(Q) = h[Len(Q)]
    BY <1>1, <1>2, FlattenSteps
  <2>2. Len(Q) = n
    OBVIOUS
  <2> HIDE DEF n
  <2> QED BY <2>1, <2>2
<1> DEFINE Same(m) == \A i \in 1..m : P[i] = Q[i]
           Split(m) == \A x, y \in Bytes : g[m] \o x = h[m] \o y => Same(m) /\ x = y
           S == {m \in Nat : m + 1 <= n => Split(m + 1)}
<1>5. \A i \in 1..n : g[i] \in Bytes /\ h[i] \in Bytes
  BY <1>3, <1>4 DEF Bytes
<1>a. P = [i \in 1..n |-> P[i]] /\ Q = [i \in 1..n |-> Q[i]]
  <2>1. Len(Q) = n /\ P \in [1..Len(P) -> Bytes] /\ Q \in [1..Len(Q) -> Bytes]
    OBVIOUS
  <2> HIDE DEF n
  <2> QED BY <2>1 DEF n
<1>b. \A i \in 1..n : Splits(P[i], Q[i])
  OBVIOUS
<1> HIDE DEF n
<1>6. 0 \in S
  <2>1. Split(1)
    <3> SUFFICES ASSUME NEW x \in Bytes, NEW y \in Bytes, g[1] \o x = h[1] \o y
                 PROVE  Same(1) /\ x = y
      OBVIOUS
    <3>1. Splits(P[1], Q[1])
      BY <1>1, <1>b
    <3>2. P[1] = Q[1] /\ x = y
      BY <1>3, <1>4, <3>1 DEF Splits
    <3>3. \A i \in 1..1 : i = 1
      OBVIOUS
    <3> QED BY <3>2, <3>3
  <2> HIDE DEF Split
  <2> QED BY <2>1
<1>7. ASSUME NEW m \in Nat, m \in S, m + 2 <= n PROVE Split(m + 2)
  <2>1. m + 2 \in 1..n /\ m + 1 \in 1..n /\ m + 2 /= 1 /\ (m + 2) - 1 = m + 1
    BY <1>1, <1>7
  <2>2. Split(m + 1)
    <3> HIDE DEF Split
    <3> QED BY <1>1, <1>7
  <2> SUFFICES ASSUME NEW x \in Bytes, NEW y \in Bytes, g[m + 2] \o x = h[m + 2] \o y
               PROVE  Same(m + 2) /\ x = y
    OBVIOUS
  <2>3. g[m + 2] = g[m + 1] \o P[m + 2] /\ h[m + 2] = h[m + 1] \o Q[m + 2]
    BY <1>3, <1>4, <2>1
  <2> DEFINE a == P[m + 2]
             b == Q[m + 2]
             s == g[m + 1]
             t == h[m + 1]
  <2>4. a \in Bytes /\ b \in Bytes /\ s \in Bytes /\ t \in Bytes /\ Splits(a, b)
    BY <1>1, <1>5, <1>b, <2>1
  <2> HIDE DEF a, b, s, t
  <2>5. (s \o a) \o x = s \o (a \o x) /\ (t \o b) \o y = t \o (b \o y)
    <3>1. Regroups(s, a, x) /\ Regroups(t, b, y)
      BY <2>4, BytesConcat
    <3> QED BY <3>1, Zenon DEF Regroups
  <2>6. a \o x \in Bytes /\ b \o y \in Bytes
    BY <2>4, BytesConcat
  <2>7. s \o (a \o x) = t \o (b \o y)
    BY <2>3, <2>5 DEF a, b, s, t
  <2>8. Same(m + 1) /\ a \o x = b \o y
    <3> HIDE DEF Same
    <3>1. \A u, v \in Bytes : s \o u = t \o v => Same(m + 1) /\ u = v
      BY <2>2 DEF s, t
    <3> QED BY <2>6, <2>7, <3>1, Zenon
  <2>9. a = b /\ x = y
    BY <2>4, <2>8 DEF Splits
  <2>10. \A i \in 1..(m + 2) : i \in 1..(m + 1) \/ i = m + 2
    OBVIOUS
  <2> QED BY <2>8, <2>9, <2>10 DEF a, b
<1>8. Split(n)
  <2>1. Nat \subseteq S
    <3>1. ASSUME NEW m \in Nat, m \in S PROVE m + 1 \in S
      <4>1. m + 1 \in Nat /\ (m + 1) + 1 = m + 2
        OBVIOUS
      <4> HIDE DEF Split
      <4> QED BY <1>7, <3>1, <4>1
    <3> HIDE DEF S
    <3> QED BY <1>6, <3>1, NatsByInduction
  <2>2. n - 1 \in Nat /\ (n - 1) + 1 = n
    BY <1>1
  <2> HIDE DEF Split
  <2> QED BY <2>1, <2>2
<1>9. n \in 1..n
  BY <1>1
<1>10. FlattenSeq(P) \in Bytes /\ FlattenSeq(Q) \in Bytes
  BY <1>3, <1>4, <1>5, <1>9
<1>11. ASSUME NEW x \in Bytes, NEW y \in Bytes, FlattenSeq(P) \o x = FlattenSeq(Q) \o y
       PROVE  P = Q /\ x = y
  <2>1. Same(n) /\ x = y
    BY <1>3, <1>4, <1>8, <1>11
  <2> QED BY <1>a, <2>1
<1>12. Splits(FlattenSeq(P), FlattenSeq(Q))
  BY <1>11 DEF Splits
<1>13. FlattenSeq(P) = FlattenSeq(Q) => P = Q
  <2>1. <<>> \in Bytes
    BY DEF Bytes
  <2> QED BY <1>11, <2>1, Zenon
<1> QED BY <1>10, <1>12, <1>13

\* What splits by its first part, and by its second when the first is the same.
LEMMA PairSplits ==
    ASSUME NEW a \in Bytes, NEW b \in Bytes, NEW p \in Bytes, NEW q \in Bytes,
           Splits(a, b), a = b => Splits(p, q)
    PROVE  Splits(a \o p, b \o q) /\ (a \o p = b \o q => a = b /\ p = q)
<1>1. a \o p = b \o q => a = b /\ p = q
  BY Zenon DEF Splits
<1>2. ASSUME NEW x \in Bytes, NEW y \in Bytes, (a \o p) \o x = (b \o q) \o y
      PROVE  a \o p = b \o q /\ x = y
  <2>1. Regroups(a, p, x) /\ Regroups(b, q, y) /\ p \o x \in Bytes /\ q \o y \in Bytes
    BY BytesConcat
  <2>2. a \o (p \o x) = b \o (q \o y)
    BY <1>2, <2>1, Zenon DEF Regroups
  <2>3. a = b /\ p \o x = q \o y
    BY <2>1, <2>2, Zenon DEF Splits
  <2>4. p = q /\ x = y
    BY <2>3, Zenon DEF Splits
  <2> QED BY <2>3, <2>4
<1>3. Splits(a \o p, b \o q)
  BY <1>2, Zenon DEF Splits
<1> QED BY <1>1, <1>3

\* A number, a text, an option and a list of texts split from what follows.
LEMMA NumberSplits ==
    ASSUME NEW m \in Nat, NEW n \in Nat
    PROVE  /\ Splits(PushU64(m), PushU64(n)) /\ (PushU64(m) = PushU64(n) => m = n)
           /\ PushU64(m) \in Bytes
<1>1. \A k \in Nat : \A s \in Bytes : /\ <<k>> \in Seq(Nat) /\ (<<k>> \o s)[1] = k
  BY DEF Bytes
<1>2. ASSUME NEW x \in Bytes, NEW y \in Bytes, <<m>> \o x = <<n>> \o y
      PROVE  m = n /\ x = y
  <2>1. m = n
    BY <1>1, <1>2
  <2> DEFINE p == <<m>>
  <2>2. p \in Seq(Nat) /\ p \o x = p \o y /\ x \in Seq(Nat) /\ y \in Seq(Nat)
    BY <1>1, <1>2, <2>1 DEF Bytes
  <2> HIDE DEF p
  <2>3. x = y
    BY <2>2, ConcatSimplifications
  <2> QED BY <2>1, <2>3
<1>3. <<m>> \in Bytes /\ (<<m>> = <<n>> => m = n)
  BY <1>1 DEF Bytes
<1>4. Splits(<<m>>, <<n>>)
  BY <1>2 DEF Splits
<1> QED BY <1>3, <1>4 DEF PushU64

LEMMA FieldSplits ==
    ASSUME NEW a \in Bytes, NEW b \in Bytes
    PROVE  /\ Splits(PushField(a), PushField(b)) /\ (PushField(a) = PushField(b) => a = b)
           /\ PushField(a) \in Bytes
<1>1. ASSUME NEW x \in Bytes, NEW y \in Bytes, PushField(a) \o x = PushField(b) \o y
      PROVE  a = b /\ x = y
  BY <1>1, FieldsSplitOneWay
<1>2. <<>> \in Bytes
  BY DEF Bytes
<1>3. PushField(a) = PushField(b) => a = b
  BY <1>1, <1>2, Zenon
<1>4. Splits(PushField(a), PushField(b))
  BY <1>1, Zenon DEF Splits
<1> QED BY <1>3, <1>4, PushFieldType

LEMMA ListSplits ==
    ASSUME NEW v \in Seq(Bytes), NEW w \in Seq(Bytes)
    PROVE  /\ Splits(PushList(v), PushList(w)) /\ (PushList(v) = PushList(w) => v = w)
           /\ PushList(v) \in Bytes
<1> DEFINE P == [i \in DOMAIN v |-> PushField(v[i])]
           Q == [i \in DOMAIN w |-> PushField(w[i])]
<1>1. /\ DOMAIN v = 1..Len(v) /\ DOMAIN w = 1..Len(w) /\ Len(v) \in Nat /\ Len(w) \in Nat
      /\ (\A i \in 1..Len(v) : v[i] \in Bytes) /\ (\A i \in 1..Len(w) : w[i] \in Bytes)
      /\ v = [i \in 1..Len(v) |-> v[i]] /\ w = [i \in 1..Len(w) |-> w[i]]
  <2> HIDE DEF Bytes
  <2>1. v \in [1..Len(v) -> Bytes] /\ w \in [1..Len(w) -> Bytes]
    BY LenProperties
  <2> QED BY <2>1
<1>2. /\ P \in Seq(Bytes) /\ Len(P) = Len(v) /\ \A i \in 1..Len(v) : P[i] = PushField(v[i])
      /\ Q \in Seq(Bytes) /\ Len(Q) = Len(w) /\ \A i \in 1..Len(w) : Q[i] = PushField(w[i])
  <2>1. /\ \A i \in 1..Len(v) : PushField(v[i]) \in Bytes
        /\ \A i \in 1..Len(w) : PushField(w[i]) \in Bytes
    BY <1>1, PushFieldType
  <2>2. P \in [1..Len(v) -> Bytes] /\ Q \in [1..Len(w) -> Bytes]
    BY <1>1, <2>1, Zenon
  <2>3. /\ \A i \in 1..Len(v) : P[i] = PushField(v[i])
        /\ \A i \in 1..Len(w) : Q[i] = PushField(w[i])
    BY <1>1, Zenon
  <2>4. \A n \in Nat : [1..n -> Bytes] \subseteq Seq(Bytes) /\ \A s \in [1..n -> Bytes] : Len(s) = n
    OBVIOUS
  <2> HIDE DEF P, Q, Bytes
  <2> QED BY <1>1, <2>2, <2>3, <2>4
<1> HIDE DEF P, Q
<1>3. ASSUME NEW R \in Seq(Bytes), NEW u \in Seq(Bytes), Len(R) = Len(u),
             \A i \in 1..Len(u) : R[i] = PushField(u[i])
      PROVE  FlattenSeq(R) \in Bytes
  <2>1. CASE Len(R) = 0
    <3>1. R = <<>>
      BY <2>1
    <3>2. FlattenSeq(R) = <<>>
      BY <3>1 DEF FlattenSeq
    <3> QED BY <3>2 DEF Bytes
  <2>2. CASE Len(R) > 0
    <3>1. R \in Seq(Seq(Nat))
      BY DEF Bytes
    <3>2. IsConcat(FlattenSeq(R), R, Nat)
      BY <2>2, <3>1, FlattenHolds
    <3> QED BY <3>2 DEF IsConcat, Bytes
  <2> QED BY <2>1, <2>2
<1> DEFINE p == FlattenSeq(P)
           q == FlattenSeq(Q)
           a == PushU64(Len(v))
           b == PushU64(Len(w))
<1>4. p \in Bytes /\ q \in Bytes
  BY <1>2, <1>3
<1>5. PushList(v) = a \o p /\ PushList(w) = b \o q
  BY DEF PushList, P, Q
<1>6. a \in Bytes /\ b \in Bytes /\ Splits(a, b) /\ (a = b => Len(v) = Len(w))
  BY <1>1, NumberSplits
<1>7. ASSUME Len(v) = Len(w) PROVE Splits(p, q) /\ (p = q => v = w)
  <2>1. CASE Len(v) = 0
    <3>1. v = <<>> /\ w = <<>>
      BY <1>1, <1>7, <2>1
    <3>2. p = <<>> /\ q = <<>>
      BY <1>2, <1>7, <2>1 DEF FlattenSeq
    <3>3. \A x \in Bytes : <<>> \o x = x
      BY DEF Bytes
    <3> HIDE DEF p, q
    <3> QED BY <3>1, <3>2, <3>3, Zenon DEF Splits
  <2>2. CASE Len(v) /= 0
    <3>1. ASSUME NEW i \in 1..Len(v)
          PROVE  Splits(P[i], Q[i]) /\ (P[i] = Q[i] => v[i] = w[i])
      <4>1. v[i] \in Bytes /\ w[i] \in Bytes /\ P[i] = PushField(v[i]) /\ Q[i] = PushField(w[i])
        BY <1>1, <1>2, <1>7
      <4> QED BY <4>1, FieldSplits
    <3>2. Len(P) = Len(Q) /\ Len(P) > 0 /\ \A i \in 1..Len(P) : Splits(P[i], Q[i])
      BY <1>1, <1>2, <1>7, <2>2, <3>1
    <3>3. Splits(p, q) /\ (p = q => P = Q)
      BY <1>2, <3>2, PiecesSplitOneWay
    <3>4. P = Q => v = w
      BY <1>1, <1>7, <3>1
    <3> QED BY <3>3, <3>4
  <2> QED BY <2>1, <2>2
<1> HIDE DEF p, q, a, b
<1>8. Splits(a \o p, b \o q) /\ (a \o p = b \o q => a = b /\ p = q)
  BY <1>4, <1>6, <1>7, PairSplits
<1>9. a \o p \in Bytes
  BY <1>4, <1>6, BytesConcat
<1> QED BY <1>5, <1>6, <1>7, <1>8, <1>9

LEMMA OptionSplits ==
    ASSUME NEW v, v = <<>> \/ (v = <<v[1]>> /\ v[1] \in Bytes),
           NEW w, w = <<>> \/ (w = <<w[1]>> /\ w[1] \in Bytes)
    PROVE  /\ Splits(PushOptBytes(v), PushOptBytes(w)) /\ (PushOptBytes(v) = PushOptBytes(w) => v = w)
           /\ PushOptBytes(v) \in Bytes
<1> DEFINE a(opt) == PushU64(IF opt = <<>> THEN 0 ELSE 1)
           p(opt) == IF opt = <<>> THEN <<>> ELSE PushField(opt[1])
<1>1. <<>> \in Bytes /\ \A s \in Bytes : s \o <<>> = s
  BY DEF Bytes
<1>2. p(v) \in Bytes /\ p(w) \in Bytes
  BY <1>1, FieldSplits
<1>3. a(v) \in Bytes /\ a(w) \in Bytes /\ Splits(a(v), a(w)) /\ (a(v) = a(w) => (v = <<>> <=> w = <<>>))
  BY NumberSplits
<1>4. PushOptBytes(v) = a(v) \o p(v) /\ PushOptBytes(w) = a(w) \o p(w)
  BY <1>1, <1>3 DEF PushOptBytes, PushU64
<1>5. ASSUME v = <<>> <=> w = <<>> PROVE Splits(p(v), p(w)) /\ (p(v) = p(w) => v = w)
  <2>1. CASE v = <<>>
    <3>1. \A x \in Bytes : <<>> \o x = x
      BY DEF Bytes
    <3>2. p(v) = <<>> /\ p(w) = <<>> /\ v = w
      BY <1>5, <2>1
    <3> HIDE DEF p
    <3> QED BY <3>1, <3>2, Zenon DEF Splits
  <2>2. CASE v /= <<>>
    <3>1. v = <<v[1]>> /\ w = <<w[1]>> /\ v[1] \in Bytes /\ w[1] \in Bytes
      BY <1>5, <2>2
    <3>2. p(v) = PushField(v[1]) /\ p(w) = PushField(w[1])
      BY <1>5, <2>2
    <3> HIDE DEF p
    <3>3. Splits(p(v), p(w)) /\ (p(v) = p(w) => v[1] = w[1])
      BY <3>1, <3>2, FieldSplits
    <3> QED BY <3>1, <3>3
  <2> QED BY <2>1, <2>2
<1> HIDE DEF a, p
<1>6. Splits(a(v) \o p(v), a(w) \o p(w)) /\ (a(v) \o p(v) = a(w) \o p(w) => a(v) = a(w) /\ p(v) = p(w))
  <2>1. a(v) = a(w) => Splits(p(v), p(w))
    BY <1>3, <1>5
  <2> QED BY <1>2, <1>3, <2>1, PairSplits
<1>7. a(v) \o p(v) \in Bytes
  BY <1>2, <1>3, BytesConcat
<1> QED BY <1>3, <1>4, <1>5, <1>6, <1>7

\* Two values of a kind are written the same only when they are the same, and
\* what is written ends where the next field begins.
LEMMA ValueSplits ==
    ASSUME NEW k, NEW v, Encodable(k, v), NEW w, Encodable(k, w)
    PROVE  /\ Splits(WriteCanonical(k, v), WriteCanonical(k, w))
           /\ WriteCanonical(k, v) = WriteCanonical(k, w) => v = w
           /\ WriteCanonical(k, v) \in Bytes
<1>1. CASE k \in {"word", "u32"}
  <2>1. WriteCanonical(k, v) = PushU64(v) /\ WriteCanonical(k, w) = PushU64(w)
    BY <1>1, InnerKinds DEF WriteCanonical
  <2> QED BY <1>1, <2>1, NumberSplits DEF Encodable
<1>2. CASE k \in DOMAIN Inner
  <2>1. WriteCanonical(k, v) = PushOptBytes(v) /\ WriteCanonical(k, w) = PushOptBytes(w)
    BY <1>2, InnerKinds DEF WriteCanonical
  <2> QED BY <1>2, <2>1, OptionSplits DEF Encodable
<1>3. CASE k = "environments"
  <2>1. WriteCanonical(k, v) = PushList(v) /\ WriteCanonical(k, w) = PushList(w)
    BY <1>3, InnerKinds DEF WriteCanonical
  <2>2. v \in Seq(Bytes) /\ w \in Seq(Bytes)
    BY <1>3 DEF Encodable
  <2> HIDE DEF Bytes
  <2> QED BY <2>1, <2>2, ListSplits
<1>4. CASE k \notin {"word", "u32", "environments"} \cup DOMAIN Inner
  <2>1. WriteCanonical(k, v) = PushField(v) /\ WriteCanonical(k, w) = PushField(w)
    BY <1>4 DEF WriteCanonical
  <2> QED BY <1>4, <2>1, FieldSplits DEF Encodable
<1> QED BY <1>1, <1>2, <1>3, <1>4

\* What is signed of a record is a part of its fields, in the same places.
LEMMA SignedPrefixes ==
    ASSUME NEW k \in Kinds
    PROVE  /\ DOMAIN SignedFields[k] = 1..Len(SignedFields[k])
           /\ Len(SignedFields[k]) \in Nat \ {0} /\ Len(SignedFields[k]) <= Len(FieldsOf(k))
           /\ \A i \in 1..Len(SignedFields[k]) : SignedFields[k][i] = FieldsOf(k)[i]
<1> DEFINE Part(s, t) == /\ DOMAIN s = 1..Len(s) /\ Len(s) \in Nat \ {0} /\ Len(s) <= Len(t)
                         /\ \A i \in 1..Len(s) : s[i] = t[i]
<1>1. CASE k \in {"request", "identity", "deviceId", "projectId", "environmentId", "inviteId", "revisionId"}
  <2>1. SignedFields[k] = FieldsOf(k)
    BY <1>1, KindNames DEF FieldsOf, TomlKinds
  <2>2. FieldList(FieldsOf(k))
    BY KindsAreKnown DEF KnownFields
  <2> QED BY <2>1, <2>2 DEF FieldList
<1>2. /\ Part(SignedProjectGenesis, TomlProjectGenesis)
      /\ Part(SignedMembershipGenesis, TomlMembershipGenesis)
  BY SMTT(60) DEF SignedProjectGenesis, TomlProjectGenesis, SignedMembershipGenesis, TomlMembershipGenesis
<1>3. Part(SignedEnvironmentGenesis, TomlEnvironmentGenesis)
  BY SMTT(60) DEF SignedEnvironmentGenesis, TomlEnvironmentGenesis
<1>4. Part(SignedInvite, TomlInvite)
  BY SMTT(60) DEF SignedInvite, TomlInvite
<1>5. Part(SignedJoinRequest, TomlJoinRequest)
  BY SMTT(60) DEF SignedJoinRequest, TomlJoinRequest
<1>6. Part(SignedApproval, TomlApproval) /\ Part(SignedRevocation, TomlRevocation)
  BY SMTT(60) DEF SignedApproval, TomlApproval, SignedRevocation, TomlRevocation
<1>7. Part(SignedRevision, TomlRevision)
  BY SMTT(60) DEF SignedRevision, TomlRevision
<1> HIDE DEF Part
<1>8. /\ SignedFields["project"] = SignedProjectGenesis /\ SignedFields["membership"] = SignedMembershipGenesis
      /\ SignedFields["environment"] = SignedEnvironmentGenesis /\ SignedFields["invite"] = SignedInvite
      /\ SignedFields["join"] = SignedJoinRequest /\ SignedFields["approval"] = SignedApproval
      /\ SignedFields["revocation"] = SignedRevocation /\ SignedFields["revision"] = SignedRevision
  BY DEF SignedFields
<1>9. CASE k \in TomlKinds
  <2>1. Part(SignedFields[k], FieldsOf(k))
    BY <1>2, <1>3, <1>4, <1>5, <1>6, <1>7, <1>8, <1>9, KindFields DEF TomlKinds
  <2> QED BY <2>1 DEF Part
<1> QED BY <1>1, <1>9, KindNames

\* Every kind has a label of its own.
LEMMA LabelsDiffer ==
    /\ \A k \in Kinds : labels[k] \in Bytes
    /\ \A k, l \in Kinds : labels[k] = labels[l] => k = l
<1>1. Kinds = {"project", "membership", "environment", "invite", "join", "approval", "revocation",
               "revision", "request", "identity", "deviceId", "projectId", "environmentId",
               "inviteId", "revisionId"}
  BY KindNames DEF TomlKinds
<1>2. /\ labels["project"] = <<51>> /\ labels["membership"] = <<52>> /\ labels["environment"] = <<53>>
      /\ labels["invite"] = <<54>> /\ labels["join"] = <<55>> /\ labels["approval"] = <<56>>
      /\ labels["revocation"] = <<57>> /\ labels["revision"] = <<58>> /\ labels["request"] = <<59>>
      /\ labels["identity"] = <<60>> /\ labels["deviceId"] = <<61>> /\ labels["projectId"] = <<62>>
      /\ labels["environmentId"] = <<63>> /\ labels["inviteId"] = <<64>> /\ labels["revisionId"] = <<65>>
  BY DEF labels
<1>3. \A x \in Nat : <<x>> \in Seq(Nat) /\ <<x>>[1] = x
  OBVIOUS
<1>4. /\ labels["project"][1] = 51 /\ labels["membership"][1] = 52 /\ labels["environment"][1] = 53
      /\ labels["invite"][1] = 54 /\ labels["join"][1] = 55 /\ labels["approval"][1] = 56
      /\ labels["revocation"][1] = 57 /\ labels["revision"][1] = 58 /\ labels["request"][1] = 59
      /\ labels["identity"][1] = 60 /\ labels["deviceId"][1] = 61 /\ labels["projectId"][1] = 62
      /\ labels["environmentId"][1] = 63 /\ labels["inviteId"][1] = 64 /\ labels["revisionId"][1] = 65
  BY <1>2
<1>5. \A k, l \in Kinds : labels[k][1] = labels[l][1] => k = l
  BY <1>1, <1>4, SMTT(60)
<1>6. \A k \in Kinds : labels[k] = <<labels[k][1]>> /\ labels[k][1] \in Nat
  BY <1>1, <1>2, <1>4, SMTT(60)
<1>7. \A k \in Kinds : labels[k] \in Bytes
  BY <1>3, <1>6, Zenon DEF Bytes
<1> QED BY <1>5, <1>7

LEMMA SignedEncodable ==
    ASSUME NEW k \in Kinds, NEW r, IsRecord(k, r), NEW i \in 1..Len(SignedFields[k])
    PROVE  Encodable(SignedFields[k][i][2], r[SignedFields[k][i][1]])
<1>1. i \in 1..Len(FieldsOf(k)) /\ SignedFields[k][i] = FieldsOf(k)[i]
  <2>1. FieldList(FieldsOf(k))
    BY KindsAreKnown DEF KnownFields
  <2> QED BY <2>1, SignedPrefixes DEF FieldList
<1>2. Encodable(FieldsOf(k)[i][2], r[FieldsOf(k)[i][1]])
  BY <1>1, RecordsFit
<1> QED BY <1>1, <1>2

\* The signed bytes name the record: two records have the same bytes only when
\* they are of one kind and agree in every field that is signed (sign, and the
\* derivation of every identifier).
THEOREM PreimageNamesTheRecord ==
    ASSUME NEW k \in Kinds, NEW r, IsRecord(k, r), NEW l \in Kinds, NEW s, IsRecord(l, s)
    PROVE  Preimage(k, r) = Preimage(l, s) <=> k = l /\ Covered(k, r) = Covered(l, s)
<1> DEFINE fields == SignedFields[k]
           n == Len(fields)
           P == [i \in DOMAIN SignedFields[k] |->
                   WriteCanonical(SignedFields[k][i][2], r[SignedFields[k][i][1]])]
           Q == [i \in DOMAIN SignedFields[l] |->
                   WriteCanonical(SignedFields[l][i][2], s[SignedFields[l][i][1]])]
           p == FlattenSeq(P)
           q == FlattenSeq(Q)
<1>1. Preimage(k, r) = PushField(labels[k]) \o p /\ Preimage(l, s) = PushField(labels[l]) \o q
  BY DEF Preimage, CanonicalPreimage
<1>2. /\ P \in Seq(Bytes) /\ Len(P) = Len(SignedFields[k]) /\ Len(P) > 0
      /\ Q \in Seq(Bytes) /\ Len(Q) = Len(SignedFields[l]) /\ Len(Q) > 0
  <2>1. ASSUME NEW m \in Kinds, NEW t, IsRecord(m, t), NEW R,
               R = [i \in DOMAIN SignedFields[m] |->
                      WriteCanonical(SignedFields[m][i][2], t[SignedFields[m][i][1]])]
        PROVE  R \in Seq(Bytes) /\ Len(R) = Len(SignedFields[m]) /\ Len(R) > 0
    <3>1. DOMAIN SignedFields[m] = 1..Len(SignedFields[m]) /\ Len(SignedFields[m]) \in Nat \ {0}
      BY SignedPrefixes
    <3>2. \A i \in 1..Len(SignedFields[m]) :
            WriteCanonical(SignedFields[m][i][2], t[SignedFields[m][i][1]]) \in Bytes
      <4>1. \A i \in 1..Len(SignedFields[m]) :
              Encodable(SignedFields[m][i][2], t[SignedFields[m][i][1]])
        BY <2>1, SignedEncodable
      <4> QED BY <4>1, ValueSplits
    <3>3. R \in [1..Len(SignedFields[m]) -> Bytes]
      BY <2>1, <3>1, <3>2, Zenon
    <3>4. \A j \in Nat : \A u \in [1..j -> Bytes] : u \in Seq(Bytes) /\ Len(u) = j
      OBVIOUS
    <3> HIDE DEF Bytes
    <3> QED BY <3>1, <3>3, <3>4
  <2> QED BY <2>1
<1> HIDE DEF P, Q, p, q
<1>3. ASSUME k = l, Covered(k, r) = Covered(l, s) PROVE Preimage(k, r) = Preimage(l, s)
  <2> DEFINE names == {fields[i][1] : i \in DOMAIN fields}
  <2>1. Covered(k, r) = [f \in names |-> r[f]] /\ Covered(l, s) = [f \in names |-> s[f]]
    BY <1>3 DEF Covered
  <2>2. \A i \in DOMAIN fields : fields[i][1] \in names
    OBVIOUS
  <2> HIDE DEF names
  <2>3. \A f \in names : r[f] = s[f]
    <3>1. [f \in names |-> r[f]] = [f \in names |-> s[f]]
      BY <1>3, <2>1
    <3> QED BY <3>1
  <2>4. \A i \in DOMAIN fields : r[fields[i][1]] = s[fields[i][1]]
    BY <2>2, <2>3
  <2>5. P = Q
    BY <1>3, <2>4 DEF P, Q
  <2> QED BY <1>1, <1>3, <2>5 DEF p, q
<1>4. ASSUME Preimage(k, r) = Preimage(l, s) PROVE k = l /\ Covered(k, r) = Covered(l, s)
  <2>1. p \in Bytes /\ q \in Bytes
    <3>1. ASSUME NEW R \in Seq(Bytes), Len(R) > 0 PROVE FlattenSeq(R) \in Bytes
      <4>1. IsConcat(FlattenSeq(R), R, Nat)
        BY <3>1, FlattenHolds DEF Bytes
      <4> QED BY <4>1 DEF IsConcat, Bytes
    <3> HIDE DEF Bytes
    <3> QED BY <1>2, <3>1 DEF p, q
  <2>2. labels[k] = labels[l] /\ p = q
    <3>1. PushField(labels[k]) \o p = PushField(labels[l]) \o q
      BY <1>1, <1>4
    <3>2. labels[k] \in Bytes /\ labels[l] \in Bytes
      BY LabelsDiffer
    <3>3. /\ Splits(PushField(labels[k]), PushField(labels[l]))
          /\ PushField(labels[k]) = PushField(labels[l]) => labels[k] = labels[l]
      BY <3>2, FieldSplits
    <3>4. PushField(labels[k]) = PushField(labels[l]) /\ p = q
      BY <2>1, <3>1, <3>3, Zenon DEF Splits
    <3> QED BY <3>3, <3>4
  <2>3. k = l
    BY <2>2, LabelsDiffer
  <2>4. DOMAIN fields = 1..n /\ n \in Nat
    BY SignedPrefixes
  <2>5. ASSUME NEW i \in 1..n
        PROVE  /\ Splits(P[i], Q[i])
               /\ P[i] = Q[i] => r[fields[i][1]] = s[fields[i][1]]
    <3>1. /\ P[i] = WriteCanonical(fields[i][2], r[fields[i][1]])
          /\ Q[i] = WriteCanonical(fields[i][2], s[fields[i][1]])
      BY <2>3, <2>4 DEF P, Q
    <3>2. /\ Encodable(fields[i][2], r[fields[i][1]])
          /\ Encodable(fields[i][2], s[fields[i][1]])
      BY <2>3, SignedEncodable
    <3> HIDE DEF fields
    <3> QED BY <3>1, <3>2, ValueSplits
  <2>6. P = Q
    <3>1. Len(P) = n /\ Len(Q) = n
      BY <1>2, <2>3
    <3> HIDE DEF n
    <3> QED BY <1>2, <2>2, <2>5, <3>1, PiecesSplitOneWay DEF p, q
  <2>7. \A i \in DOMAIN fields : r[fields[i][1]] = s[fields[i][1]]
    BY <2>4, <2>5, <2>6
  <2>8. Covered(k, r) = Covered(k, s)
    <3> DEFINE names == {fields[i][1] : i \in DOMAIN fields}
    <3>1. \A f \in names : r[f] = s[f]
      BY <2>7
    <3>2. Covered(k, r) = [f \in names |-> r[f]] /\ Covered(k, s) = [f \in names |-> s[f]]
      BY DEF Covered
    <3> HIDE DEF names
    <3> QED BY <3>1, <3>2
  <2> QED BY <2>3, <2>8
<1> QED BY <1>3, <1>4

\* A signature made for a record verifies that record only, and two different
\* inputs never derive the same identifier, for every record a device signs.
THEOREM SignaturesBind == Spec => []SignatureBindsTheRecord
<1>1. Init => SignatureBindsTheRecord
  BY DEF Init, SignatureBindsTheRecord
<1>2. RecordInv /\ SignatureBindsTheRecord /\ [Next]_vars => SignatureBindsTheRecord'
  <2> SUFFICES ASSUME RecordInv, SignatureBindsTheRecord, [Next]_vars
               PROVE  SignatureBindsTheRecord'
    OBVIOUS
  <2>1. CASE Present
    <3>1. PICK k \in Kinds : \E r \in SignableRecords(k) :
            result' = [kind |-> k, rec |-> r, verified |-> Verifies(k, r)]
      BY <2>1 DEF Present
    <3>2. PICK r \in SignableRecords(k) : result' = [kind |-> k, rec |-> r, verified |-> Verifies(k, r)]
      BY <3>1
    <3>3. kind' = kind /\ signed' = signed
      BY <2>1 DEF Present
    <3>4. kind \in Kinds /\ signed \in SignableRecords(kind)
      BY <2>1 DEF Present, RecordInv
    <3>5. Verifies(k, r) <=> kind = k /\ Covered(kind, signed) = Covered(k, r)
      BY <3>4, SignableFits, PreimageNamesTheRecord DEF Verifies
    <3>6. result'.kind = k /\ result'.rec = r /\ (result'.verified <=> Verifies(k, r))
      BY <3>2
    <3>7. result'.verified <=> kind' = result'.kind /\ Covered(kind', signed') = Covered(result'.kind, result'.rec)
      BY <3>3, <3>5, <3>6
    <3> QED BY <3>7 DEF SignatureBindsTheRecord
  <2>2. CASE UNCHANGED vars
    <3>1. UNCHANGED <<stage, kind, signed, result>>
      BY <2>2 DEF vars
    <3> QED BY <3>1 DEF SignatureBindsTheRecord
  <2>3. CASE ~Present /\ Next
    <3>1. stage' /= "presented"
      BY <2>3 DEF Next, Sign, Save, SaveLegacy, Tear, Load, Open, Send, SendRequest, Cut, Receive, PublishFile
    <3> QED BY <3>1 DEF SignatureBindsTheRecord
  <2> QED BY <2>1, <2>2, <2>3
<1> QED BY <1>1, <1>2, RecordInvHolds, PTL DEF Spec

-----------------------------------------------------------------------------
(* Reading an envelope, of which the first m elements arrived.  W is the    *)
(* whole envelope; a cursor is what is left of it after a position.         *)

\* s stands in W after position p
At(W, p, s) == p + Len(s) <= Len(W) /\ \A i \in 1..Len(s) : W[p + i] = s[i]

\* the cursor at position p
Rest(W, p, m) == SubSeq(W, p + 1, m)

\* what reading a value that ends at position q gives
ReadTo(W, v, q, m) == IF q <= m THEN Read(v, Rest(W, q, m)) ELSE Truncated

IsRest(r, W, p, m, T) ==
    /\ r \in Seq(T) /\ Len(r) = m - p
    /\ \A i \in 1..(m - p) : r[i] = W[p + i]
    /\ r = <<>> <=> p = m

LEMMA RestIs ==
    ASSUME NEW T, NEW W \in Seq(T), NEW p \in Nat, NEW m \in Nat, p <= m, m <= Len(W)
    PROVE  IsRest(Rest(W, p, m), W, p, m, T)
<1>1. Len(W) \in Nat
  OBVIOUS
<1>2. Rest(W, p, m) \in Seq(T) /\ Len(Rest(W, p, m)) = m - p
  BY <1>1 DEF Rest
<1>3. \A i \in 1..(m - p) : Rest(W, p, m)[i] = W[p + i]
  BY <1>1 DEF Rest
<1>4. Rest(W, p, m) = <<>> <=> p = m
  BY <1>2, EmptySeq
<1> QED BY <1>2, <1>3, <1>4 DEF IsRest

\* A cursor further on is a part of the cursor.
LEMMA RestOfRest ==
    ASSUME NEW T, NEW W \in Seq(T), NEW p \in Nat, NEW q \in Nat, NEW m \in Nat,
           p <= q, q <= m, m <= Len(W)
    PROVE  SubSeq(Rest(W, p, m), q - p + 1, m - p) = Rest(W, q, m)
<1> DEFINE r == Rest(W, p, m)
           s == SubSeq(r, q - p + 1, m - p)
           t == Rest(W, q, m)
<1>1. r \in Seq(T) /\ Len(r) = m - p /\ \A i \in 1..(m - p) : r[i] = W[p + i]
  <2>1. p <= m
    OBVIOUS
  <2>2. IsRest(r, W, p, m, T)
    BY <2>1, RestIs, Zenon
  <2> HIDE DEF r
  <2> QED BY <2>2 DEF IsRest
<1>2. t \in Seq(T) /\ Len(t) = m - q /\ \A i \in 1..(m - q) : t[i] = W[q + i]
  <2>1. IsRest(t, W, q, m, T)
    BY RestIs, Zenon
  <2> HIDE DEF t
  <2> QED BY <2>1 DEF IsRest
<1> HIDE DEF r, t
<1>3. s \in Seq(T) /\ Len(s) = m - q
  BY <1>1
<1>4. \A i \in 1..(m - q) : s[i] = r[q - p + i]
  BY <1>1
<1>5. \A i \in 1..(m - q) : q - p + i \in 1..(m - p) /\ p + (q - p + i) = q + i
  OBVIOUS
<1> HIDE DEF s
<1>6. \A i \in 1..Len(s) : s[i] = t[i]
  <2>1. SUFFICES ASSUME NEW i \in 1..(m - q) PROVE s[i] = t[i]
    BY <1>3
  <2>2. s[i] = r[q - p + i]
    BY <1>4
  <2>3. t[i] = W[p + (q - p + i)]
    BY <1>2, <1>5
  <2>4. q - p + i \in 1..(m - p)
    BY <1>5
  <2>5. \A j \in 1..(m - p) : r[j] = W[p + j]
    BY <1>1
  <2>6. r[q - p + i] = W[p + (q - p + i)]
    BY <2>4, <2>5, Zenon
  <2> QED BY <2>2, <2>3, <2>6, Zenon
<1>7. s = t
  BY <1>2, <1>3, <1>6, SeqEqual
<1> QED BY <1>7 DEF s, r, t

\* The parts of what stands in W stand there one after the other.
LEMMA AtParts ==
    ASSUME NEW T, NEW W \in Seq(T), NEW p \in Nat, NEW a \in Seq(T), NEW b \in Seq(T),
           At(W, p, a \o b)
    PROVE  At(W, p, a) /\ At(W, p + Len(a), b) /\ Len(a \o b) = Len(a) + Len(b)
<1> DEFINE c == a \o b
<1>1. /\ Len(c) = Len(a) + Len(b)
      /\ \A i \in 1..Len(a) : i \in 1..Len(c) /\ c[i] = a[i]
      /\ \A i \in 1..Len(b) : Len(a) + i \in 1..Len(c) /\ c[Len(a) + i] = b[i]
  BY ConcatPositions
<1>2. p + Len(c) <= Len(W) /\ \A i \in 1..Len(c) : W[p + i] = c[i]
  BY DEF At
<1>3. Len(a) \in Nat /\ Len(b) \in Nat /\ Len(W) \in Nat
  OBVIOUS
<1> HIDE DEF c
<1>4. At(W, p, a)
  BY <1>1, <1>2, <1>3 DEF At
<1>5. At(W, p + Len(a), b)
  <2>1. \A i \in 1..Len(b) : W[(p + Len(a)) + i] = b[i]
    <3> SUFFICES ASSUME NEW i \in 1..Len(b) PROVE W[(p + Len(a)) + i] = b[i]
      OBVIOUS
    <3>1. (p + Len(a)) + i = p + (Len(a) + i)
      BY <1>3
    <3> QED BY <1>1, <1>2, <3>1
  <2> QED BY <1>1, <1>2, <1>3, <2>1 DEF At
<1> QED BY <1>1, <1>4, <1>5 DEF c

LEMMA AtWhole ==
    ASSUME NEW T, NEW W \in Seq(T)
    PROVE  At(W, 0, W) /\ Rest(W, 0, Len(W)) = W
<1>1. Len(W) \in Nat
  OBVIOUS
<1>2. At(W, 0, W)
  BY <1>1 DEF At
<1> DEFINE r == Rest(W, 0, Len(W))
<1>3. r \in Seq(T) /\ Len(r) = Len(W) /\ \A i \in 1..Len(W) : r[i] = W[i]
  <2>1. 0 <= Len(W) /\ Len(W) <= Len(W) /\ 0 \in Nat /\ Len(W) - 0 = Len(W)
    BY <1>1
  <2>2. IsRest(r, W, 0, Len(W), T)
    <3> HIDE DEF r
    <3> QED BY <1>1, <2>1, RestIs, Zenon DEF r
  <2> HIDE DEF r
  <2>3. \A i \in 1..Len(W) : 0 + i = i
    BY <1>1
  <2> QED BY <2>1, <2>2, <2>3 DEF IsRest
<1> HIDE DEF r
<1>4. r = W
  BY <1>3, SeqEqual
<1> QED BY <1>2, <1>4 DEF r

\* A number is read where it stands, unless the envelope ends before it.
LEMMA ReadU64At ==
    ASSUME NEW T, NEW W \in Seq(T), NEW p \in Nat, NEW m \in Nat, p <= m, m <= Len(W),
           NEW n, At(W, p, <<n>>)
    PROVE  ReadU64(Rest(W, p, m)) = ReadTo(W, n, p + 1, m)
<1> DEFINE r == Rest(W, p, m)
<1>1. /\ r \in Seq(T) /\ Len(r) = m - p /\ (r = <<>> <=> p = m)
      /\ \A i \in 1..(m - p) : r[i] = W[p + i]
  <2>1. IsRest(r, W, p, m, T)
    BY RestIs, Zenon
  <2> HIDE DEF r
  <2> QED BY <2>1 DEF IsRest
<1>2. W[p + 1] = n
  <2>1. Len(<<n>>) = 1 /\ <<n>>[1] = n /\ 1 \in 1..1
    OBVIOUS
  <2> QED BY <2>1 DEF At
<1>3. CASE p = m
  BY <1>1, <1>3 DEF ReadU64, ReadTo
<1>4. CASE p < m
  <2>1. 1 \in 1..(m - p) /\ p + 1 \in Nat /\ p + 1 <= m
    BY <1>4
  <2>2. Head(r) = n
    BY <1>1, <1>2, <2>1
  <2>3. Tail(r) = Rest(W, p + 1, m)
    <3>1. SubSeq(r, (p + 1) - p + 1, m - p) = Rest(W, p + 1, m)
      <4> HIDE DEF r
      <4>1. p <= p + 1
        OBVIOUS
      <4> QED BY <2>1, <4>1, RestOfRest DEF r
    <3>2. (p + 1) - p + 1 = 2
      OBVIOUS
    <3> HIDE DEF r
    <3>3. Tail(r) = SubSeq(r, 2, Len(r))
      <4>1. r /= <<>>
        BY <1>1, <1>4
      <4> QED BY <1>1, <4>1, TailIsSubSeq
    <3> QED BY <1>1, <3>1, <3>2, <3>3
  <2> HIDE DEF r
  <2>4. ReadU64(r) = Read(n, Rest(W, p + 1, m))
    <3>1. r /= <<>>
      BY <1>1, <1>4
    <3> QED BY <2>2, <2>3, <3>1 DEF ReadU64
  <2> QED BY <2>1, <2>4 DEF ReadTo, r
<1> QED BY <1>3, <1>4

\* A field is read where it stands, unless the envelope ends before its end.
LEMMA ReadFieldAt ==
    ASSUME NEW T, Nat \subseteq T, NEW W \in Seq(T), NEW p \in Nat, NEW m \in Nat, p <= m,
           m <= Len(W), NEW b \in Seq(T), At(W, p, PushField(b))
    PROVE  /\ PushField(b) \in Seq(T) /\ Len(PushField(b)) = Len(b) + 1
           /\ ReadField(Rest(W, p, m)) = ReadTo(W, b, p + Len(PushField(b)), m)
<1> DEFINE r == Rest(W, p, m)
           f == PushField(b)
           n == Len(b)
<1>1. /\ r \in Seq(T) /\ Len(r) = m - p /\ (r = <<>> <=> p = m)
      /\ \A i \in 1..(m - p) : r[i] = W[p + i]
  <2>1. IsRest(r, W, p, m, T)
    BY RestIs, Zenon
  <2> HIDE DEF r
  <2> QED BY <2>1 DEF IsRest
<1>2. n \in Nat /\ <<n>> \in Seq(T) /\ Len(<<n>>) = 1 /\ <<n>>[1] = n /\ n \in T
  OBVIOUS
<1>3. f \in Seq(T) /\ Len(f) = n + 1
  <2>1. f = <<n>> \o b
    BY DEF PushField
  <2> HIDE DEF n, f
  <2> QED BY <1>2, <2>1, ConcatPositions DEF n
<1>4. At(W, p, <<n>>) /\ At(W, p + 1, b)
  <2>1. At(W, p, <<n>> \o b)
    BY DEF PushField
  <2> HIDE DEF n
  <2>2. At(W, p, <<n>>) /\ At(W, p + Len(<<n>>), b)
    BY <1>2, <2>1, AtParts
  <2> QED BY <1>2, <2>2
<1>5. W[p + 1] = n /\ p + 1 + n <= Len(W) /\ \A i \in 1..n : W[(p + 1) + i] = b[i]
  <2>1. Len(<<n>>) = 1 /\ <<n>>[1] = n /\ 1 \in 1..1
    OBVIOUS
  <2> QED BY <1>4, <2>1 DEF At
<1> HIDE DEF r, f, n
<1>6. ASSUME p = m PROVE ReadField(r) = ReadTo(W, b, p + (n + 1), m)
  <2>1. ReadField(r) = Truncated
    BY <1>1, <1>6 DEF ReadField
  <2>2. ~(p + (n + 1) <= m)
    BY <1>2, <1>6
  <2> QED BY <2>1, <2>2 DEF ReadTo
<1>7. ASSUME p < m PROVE ReadField(r) = ReadTo(W, b, p + (n + 1), m)
  <2>1. r[1] = n /\ r /= <<>>
    BY <1>1, <1>5, <1>7
  <2>2. CASE (m - p) - 1 < n
    <3>1. ~(p + (n + 1) <= m)
      BY <1>2, <2>2
    <3>2. ReadField(r) = Truncated
      BY <1>1, <2>1, <2>2 DEF ReadField
    <3> QED BY <3>1, <3>2 DEF ReadTo
  <2>3. CASE ~((m - p) - 1 < n)
    <3>1. p + (n + 1) <= m /\ p + (n + 1) \in Nat /\ p <= p + (n + 1)
      BY <1>2, <2>3
    <3>2. ReadField(r) = Read(SubSeq(r, 2, n + 1), SubSeq(r, n + 2, m - p))
      BY <1>1, <2>1, <2>3 DEF ReadField
    <3>3. SubSeq(r, n + 2, m - p) = Rest(W, p + (n + 1), m)
      <4>1. SubSeq(r, (p + (n + 1)) - p + 1, m - p) = Rest(W, p + (n + 1), m)
        BY <3>1, RestOfRest, Zenon DEF r
      <4>2. (p + (n + 1)) - p + 1 = n + 2
        BY <1>2
      <4> QED BY <4>1, <4>2
    <3>4. SubSeq(r, 2, n + 1) = b
      <4> DEFINE s == SubSeq(r, 2, n + 1)
      <4>1. s \in Seq(T) /\ Len(s) = n
        BY <1>1, <1>2, <3>1
      <4>2. \A i \in 1..n : s[i] = r[i + 1]
        BY <1>1, <1>2, <3>1
      <4>3. \A i \in 1..n : i + 1 \in 1..(m - p) /\ p + (i + 1) = (p + 1) + i
        BY <1>2, <3>1
      <4> HIDE DEF s
      <4>4. ASSUME NEW i \in 1..n PROVE s[i] = b[i]
        <5>1. s[i] = r[i + 1] /\ i + 1 \in 1..(m - p) /\ p + (i + 1) = (p + 1) + i
          BY <4>2, <4>3
        <5>2. r[i + 1] = W[p + (i + 1)]
          BY <1>1, <5>1
        <5>3. W[(p + 1) + i] = b[i]
          BY <1>5
        <5> QED BY <5>1, <5>2, <5>3
      <4>5. s = b
        BY <4>1, <4>4, SeqEqual DEF n
      <4> QED BY <4>5 DEF s
    <3> QED BY <3>1, <3>2, <3>3, <3>4 DEF ReadTo
  <2> QED BY <2>2, <2>3
<1>8. p = m \/ p < m
  OBVIOUS
<1>9. ReadField(r) = ReadTo(W, b, p + Len(f), m)
  BY <1>3, <1>6, <1>7, <1>8
<1> QED BY <1>3, <1>9 DEF r, f, n

\* Where each of a row of sequences begins in their concatenation.
Offsets(o, seqs, T) ==
    /\ o \in [0..Len(seqs) -> Nat] /\ o[0] = 0
    /\ FlattenSeq(seqs) \in Seq(T) /\ o[Len(seqs)] = Len(FlattenSeq(seqs))
    /\ \A i \in 1..Len(seqs) : o[i] = o[i - 1] + Len(seqs[i])
    /\ \A W \in Seq(T), p \in Nat :
         At(W, p, FlattenSeq(seqs)) => \A i \in 1..Len(seqs) : At(W, p + o[i - 1], seqs[i])

LEMMA PiecesAt ==
    ASSUME NEW T, NEW seqs \in Seq(Seq(T))
    PROVE  \E o : Offsets(o, seqs, T)
<1> DEFINE n == Len(seqs)
           c == FlattenSeq(seqs)
<1>1. n \in Nat /\ \A i \in 1..n : seqs[i] \in Seq(T)
  OBVIOUS
<1>2. CASE n = 0
  <2> DEFINE o == [i \in 0..n |-> 0]
  <2>1. c = <<>>
    <3>1. seqs = <<>>
      BY <1>2
    <3> QED BY <3>1 DEF FlattenSeq
  <2>2. o \in [0..n -> Nat] /\ o[0] = 0 /\ o[n] = 0
    BY <1>2
  <2>3. c \in Seq(T) /\ Len(c) = 0 /\ 1..n = {}
    BY <1>2, <2>1
  <2> HIDE DEF o, c, n
  <2>4. Offsets(o, seqs, T)
    BY <2>2, <2>3 DEF Offsets, c, n
  <2> QED BY <2>4
<1>3. CASE n > 0
  <2>1. PICK g \in [1..n -> Seq(T)] :
          /\ g[1] = seqs[1]
          /\ \A i \in 1..n : i /= 1 => g[i] = g[i - 1] \o seqs[i]
          /\ c = g[n]
    BY <1>3, FlattenSteps
  <2> HIDE DEF n, c
  <2> DEFINE o == [i \in 0..n |-> IF i = 0 THEN 0 ELSE Len(g[i])]
  <2>2. /\ 0 \in 0..n /\ n \in 1..n /\ 1 \in 1..n
        /\ \A i \in 1..n : i \in 0..n /\ i - 1 \in 0..n /\ i /= 0 /\ (i /= 1 => i - 1 \in 1..n /\ i - 1 /= 0)
    BY <1>1, <1>3
  <2>3. o[0] = 0 /\ \A i \in 1..n : o[i] = Len(g[i])
    BY <2>2
  <2>4. \A i \in 1..n : g[i] \in Seq(T) /\ Len(g[i]) \in Nat
    BY <2>1, SMTT(30)
  <2>5. o \in [0..n -> Nat]
    BY <2>4
  <2> HIDE DEF o
  <2>6. ASSUME NEW i \in 1..n
        PROVE  /\ o[i] = o[i - 1] + Len(seqs[i])
               /\ \A W \in Seq(T), p \in Nat : At(W, p, g[i]) =>
                    At(W, p + o[i - 1], seqs[i]) /\ (i /= 1 => At(W, p, g[i - 1]))
    <3>1. CASE i = 1
      <4>1. g[i] = seqs[i] /\ o[i - 1] = 0 /\ o[i] = Len(seqs[i])
        BY <2>1, <2>2, <2>3, <3>1
      <4>2. \A p \in Nat : p + 0 = p
        OBVIOUS
      <4>3. Len(seqs[i]) \in Nat
        BY <1>1
      <4> QED BY <3>1, <4>1, <4>2, <4>3
    <3>2. CASE i /= 1
      <4>1. g[i] = g[i - 1] \o seqs[i] /\ g[i - 1] \in Seq(T) /\ o[i - 1] = Len(g[i - 1])
        BY <2>1, <2>2, <2>3, <2>4, <3>2
      <4>2. Len(g[i]) = Len(g[i - 1]) + Len(seqs[i])
        BY <1>1, <4>1, ConcatPositions
      <4>3. ASSUME NEW W \in Seq(T), NEW p \in Nat, At(W, p, g[i])
            PROVE  At(W, p + o[i - 1], seqs[i]) /\ At(W, p, g[i - 1])
        <5>1. At(W, p, g[i - 1] \o seqs[i]) /\ seqs[i] \in Seq(T)
          BY <1>1, <4>1, <4>3
        <5>2. At(W, p, g[i - 1]) /\ At(W, p + Len(g[i - 1]), seqs[i])
          BY <4>1, <5>1, AtParts, Zenon
        <5> QED BY <4>1, <5>2
      <4>4. o[i] = Len(g[i])
        BY <2>3
      <4> QED BY <4>1, <4>2, <4>3, <4>4
    <3> QED BY <3>1, <3>2
  <2>7. ASSUME NEW W \in Seq(T), NEW p \in Nat, At(W, p, c), NEW i \in 1..n
        PROVE  At(W, p + o[i - 1], seqs[i])
    <3> DEFINE S == {d \in Nat : d < n => At(W, p, g[n - d])}
    <3>1. 0 \in S
      <4>1. n - 0 = n
        BY <1>1
      <4> QED BY <2>1, <2>7, <4>1
    <3>2. ASSUME NEW d \in Nat, d \in S PROVE d + 1 \in S
      <4> SUFFICES ASSUME d + 1 < n PROVE At(W, p, g[n - (d + 1)])
        OBVIOUS
      <4>1. n - d \in 1..n /\ n - d /= 1 /\ (n - d) - 1 = n - (d + 1) /\ d < n
        BY <1>1
      <4>2. At(W, p, g[n - d])
        BY <3>2, <4>1
      <4> QED BY <2>6, <4>1, <4>2
    <3>3. Nat \subseteq S
      <4> HIDE DEF S
      <4> QED BY <3>1, <3>2, NatsByInduction
    <3>4. n - i \in Nat /\ n - i < n /\ n - (n - i) = i
      BY <1>1
    <3>5. At(W, p, g[i])
      BY <3>3, <3>4
    <3> QED BY <2>6, <3>5
  <2>8. /\ c \in Seq(T) /\ o[n] = Len(c)
        /\ \A i \in 1..n : o[i] = o[i - 1] + Len(seqs[i])
    BY <2>1, <2>2, <2>3, <2>4, <2>6
  <2>9. \A W \in Seq(T), p \in Nat : At(W, p, c) => \A i \in 1..n : At(W, p + o[i - 1], seqs[i])
    BY <2>7
  <2>10. Offsets(o, seqs, T)
    BY <2>3, <2>5, <2>8, <2>9 DEF Offsets, n, c
  <2> QED BY <2>10
<1> QED BY <1>1, <1>2, <1>3

\* the items of a list, each a field
Pushed(items) == FlattenSeq([i \in DOMAIN items |-> PushField(items[i])])

\* The items of a list are read one after the other.
LEMMA ReadItemsAt ==
    ASSUME NEW T, Nat \subseteq T, NEW W \in Seq(T), NEW p \in Nat, NEW m \in Nat, p <= m,
           m <= Len(W), NEW items \in Seq(Seq(T)), At(W, p, Pushed(items))
    PROVE  ReadItems(Len(items), Rest(W, p, m)) = ReadTo(W, items, p + Len(Pushed(items)), m)
<1> DEFINE n == Len(items)
           P == [i \in DOMAIN items |-> PushField(items[i])]
           c == FlattenSeq(P)
           cur == Rest(W, p, m)
<1>1. n \in Nat /\ DOMAIN items = 1..n /\ \A i \in 1..n : items[i] \in Seq(T)
  OBVIOUS
<1>2. P \in Seq(Seq(T)) /\ Len(P) = n /\ \A i \in 1..n : P[i] = PushField(items[i])
  <2>1. \A b \in Seq(T) : PushField(b) \in Seq(T)
    <3> TAKE b \in Seq(T)
    <3>1. <<Len(b)>> \in Seq(T)
      OBVIOUS
    <3> QED BY <3>1, ConcatProperties DEF PushField
  <2>2. P \in [1..n -> Seq(T)]
    BY <1>1, <2>1
  <2> QED BY <1>1, <2>2
<1> HIDE DEF n, P
<1>3. PICK o : Offsets(o, P, T)
  BY <1>2, PiecesAt
<1>4. /\ o \in [0..n -> Nat] /\ o[0] = 0 /\ c \in Seq(T) /\ o[n] = Len(c)
      /\ \A i \in 1..n : o[i] = o[i - 1] + Len(P[i])
      /\ \A i \in 1..n : At(W, p + o[i - 1], P[i])
  <2>1. At(W, p, c)
    BY DEF P, Pushed
  <2> QED BY <1>2, <1>3, <2>1 DEF Offsets
<1> HIDE DEF c, cur
<1> DEFINE F(j) == ReadTo(W, SubSeq(items, 1, j), p + o[j], m)
           Whole(g) == g = [j \in 0..n |-> IF j = 0 THEN Read(<<>>, cur) ELSE ReadItem(g[j - 1])]
<1>5. F(0) = Read(<<>>, cur)
  <2>1. SubSeq(items, 1, 0) = <<>> /\ p + o[0] = p
    BY <1>4
  <2> QED BY <2>1 DEF ReadTo, cur
<1>6. ASSUME NEW j \in 1..n PROVE F(j) = ReadItem(F(j - 1))
  <2> DEFINE q == p + o[j - 1]
             s == p + o[j]
             v == SubSeq(items, 1, j - 1)
  <2>1. q \in Nat /\ s \in Nat /\ s = q + Len(PushField(items[j])) /\ q <= s
    <3>1. j \in 0..n /\ j - 1 \in 0..n
      BY <1>1
    <3>2. o[j] = o[j - 1] + Len(PushField(items[j])) /\ o[j] \in Nat /\ o[j - 1] \in Nat
      BY <1>2, <1>4, <3>1
    <3>3. Len(PushField(items[j])) \in Nat
      <4>1. PushField(items[j]) \in Seq(T)
        BY <1>2
      <4> QED BY <4>1
    <3> QED BY <3>2, <3>3, SMTT(30)
  <2>2. items[j] \in Seq(T) /\ At(W, q, PushField(items[j]))
    BY <1>1, <1>2, <1>4
  <2>3. SubSeq(items, 1, j) = Append(v, items[j])
    BY <1>1 DEF n
  <2> HIDE DEF q, s, v
  <2>4. CASE ~(q <= m)
    <3>1. ~(s <= m)
      BY <2>1, <2>4
    <3>2. F(j) = Truncated /\ F(j - 1) = Truncated
      BY <2>4, <3>1 DEF ReadTo, q, s
    <3> QED BY <3>2 DEF ReadItem, Truncated
  <2>5. CASE q <= m
    <3>1. F(j - 1) = Read(v, Rest(W, q, m))
      BY <2>5 DEF ReadTo, q, v
    <3>2. ReadField(Rest(W, q, m)) = ReadTo(W, items[j], s, m)
      BY <2>1, <2>2, <2>5, ReadFieldAt
    <3>3. ReadItem(F(j - 1)) = IF ReadTo(W, items[j], s, m).ok
                               THEN Read(Append(v, ReadTo(W, items[j], s, m).value),
                                         ReadTo(W, items[j], s, m).cursor)
                               ELSE Truncated
      <4> DEFINE x == F(j - 1)
                 y == ReadTo(W, items[j], s, m)
      <4>1. x.ok /\ x.value = v /\ x.cursor = Rest(W, q, m)
        BY <3>1 DEF Read
      <4> HIDE DEF x, y
      <4>2. ReadField(x.cursor) = y
        BY <3>2, <4>1 DEF y
      <4>3. ReadItem(x) = IF y.ok THEN Read(Append(v, y.value), y.cursor) ELSE Truncated
        BY <4>1, <4>2 DEF ReadItem
      <4> QED BY <4>3 DEF x, y
    <3>4. CASE s <= m
      <4>1. F(j) = Read(Append(v, items[j]), Rest(W, s, m))
        BY <2>3, <3>4 DEF ReadTo, s
      <4>2. ReadTo(W, items[j], s, m) = Read(items[j], Rest(W, s, m))
        BY <3>4 DEF ReadTo
      <4> QED BY <3>3, <4>1, <4>2 DEF Read
    <3>5. CASE ~(s <= m)
      <4>1. F(j) = Truncated /\ ReadTo(W, items[j], s, m) = Truncated
        BY <3>5 DEF ReadTo, s
      <4> QED BY <3>3, <4>1 DEF Truncated
    <3> QED BY <3>4, <3>5
  <2> QED BY <2>4, <2>5
<1> HIDE DEF F
<1>7. \E g : Whole(g)
  <2> DEFINE h == [j \in 0..n |-> F(j)]
  <2>1. \A j \in 0..n : F(j) = IF j = 0 THEN Read(<<>>, cur) ELSE ReadItem(h[j - 1])
    <3> TAKE j \in 0..n
    <3>1. CASE j = 0
      BY <1>5, <3>1
    <3>2. CASE j /= 0
      <4>1. j \in 1..n /\ j - 1 \in 0..n
        BY <1>1, <3>2
      <4> QED BY <1>6, <3>2, <4>1
    <3> QED BY <3>1, <3>2
  <2>2. h = [j \in 0..n |-> IF j = 0 THEN Read(<<>>, cur) ELSE ReadItem(h[j - 1])]
    BY <2>1
  <2> HIDE DEF h
  <2>3. Whole(h)
    BY <2>2
  <2> HIDE DEF Whole
  <2> QED BY <2>3
<1> DEFINE f == CHOOSE g : Whole(g)
<1>8. Whole(f)
  <2> HIDE DEF Whole
  <2> QED BY <1>7
<1>9. ReadItems(n, cur) = f[n]
  BY DEF ReadItems
<1> HIDE DEF f
<1>10. \A j \in 0..n : f[j] = IF j = 0 THEN Read(<<>>, cur) ELSE ReadItem(f[j - 1])
  BY <1>8
<1> HIDE DEF Whole
<1> DEFINE S == {j \in Nat : j <= n => f[j] = F(j)}
<1>11. 0 \in S
  BY <1>1, <1>5, <1>10
<1>12. ASSUME NEW j \in Nat, j \in S PROVE j + 1 \in S
  <2> SUFFICES ASSUME j + 1 <= n PROVE f[j + 1] = F(j + 1)
    OBVIOUS
  <2>1. j + 1 \in 1..n /\ j + 1 \in 0..n /\ j + 1 /= 0 /\ (j + 1) - 1 = j /\ j <= n
    BY <1>1
  <2>2. f[j] = F(j)
    BY <1>12, <2>1
  <2> QED BY <1>6, <1>10, <2>1, <2>2
<1>13. f[n] = F(n)
  <2> HIDE DEF S
  <2>1. Nat \subseteq S
    BY <1>11, <1>12, NatsByInduction
  <2>2. n \in S
    BY <1>1, <2>1
  <2> QED BY <1>1, <2>2 DEF S
<1>14. F(n) = ReadTo(W, items, p + Len(c), m)
  <2>1. SubSeq(items, 1, n) = items
    BY <1>1 DEF n
  <2> QED BY <1>4, <2>1 DEF F
<1> QED BY <1>9, <1>13, <1>14 DEF c, P, cur, n, Pushed

LEMMA PushFieldSeq ==
    ASSUME NEW T, Nat \subseteq T, NEW b \in Seq(T)
    PROVE  PushField(b) \in Seq(T)
<1>1. <<Len(b)>> \in Seq(T)
  OBVIOUS
<1> QED BY <1>1, ConcatProperties DEF PushField

LEMMA PushListSeq ==
    ASSUME NEW T, Nat \subseteq T, NEW items \in Seq(Seq(T))
    PROVE  /\ Pushed(items) \in Seq(T) /\ <<Len(items)>> \in Seq(T)
           /\ PushList(items) = <<Len(items)>> \o Pushed(items) /\ PushList(items) \in Seq(T)
<1> DEFINE P == [i \in DOMAIN items |-> PushField(items[i])]
<1>1. P \in Seq(Seq(T))
  <2>1. DOMAIN items = 1..Len(items) /\ Len(items) \in Nat /\ \A i \in 1..Len(items) : items[i] \in Seq(T)
    OBVIOUS
  <2>2. P \in [1..Len(items) -> Seq(T)]
    BY <2>1, PushFieldSeq
  <2> QED BY <2>1, <2>2
<1>2. PICK o : Offsets(o, P, T)
  <2> HIDE DEF P
  <2> QED BY <1>1, PiecesAt
<1>3. FlattenSeq(P) \in Seq(T)
  BY <1>2 DEF Offsets
<1> HIDE DEF P
<1>4. <<Len(items)>> \in Seq(T)
  OBVIOUS
<1>5. PushList(items) \in Seq(T)
  <2>1. <<Len(items)>> \o FlattenSeq(P) \in Seq(T)
    BY <1>3, <1>4, ConcatProperties
  <2> QED BY <2>1 DEF PushList, PushU64, P
<1> QED BY <1>3, <1>4, <1>5 DEF P, Pushed, PushList, PushU64

\* A list is read where it stands, its number of items and its items.
LEMMA ReadListAt ==
    ASSUME NEW T, Nat \subseteq T, NEW W \in Seq(T), NEW p \in Nat, NEW m \in Nat, p <= m,
           m <= Len(W), NEW items \in Seq(Seq(T)), At(W, p, PushList(items))
    PROVE  ReadList(Rest(W, p, m)) = ReadTo(W, items, p + Len(PushList(items)), m)
<1> DEFINE n == Len(items)
           c == Pushed(items)
           q == p + Len(PushList(items))
<1>1. c \in Seq(T) /\ <<n>> \in Seq(T) /\ PushList(items) = <<n>> \o c
  BY PushListSeq
<1> HIDE DEF n, c
<1>2. At(W, p, <<n>>) /\ At(W, p + 1, c) /\ q = (p + 1) + Len(c) /\ Len(c) \in Nat
  <2>1. At(W, p, <<n>> \o c)
    BY <1>1
  <2>2. At(W, p, <<n>>) /\ At(W, p + Len(<<n>>), c) /\ Len(<<n>> \o c) = Len(<<n>>) + Len(c)
    <3> DEFINE a == <<n>>
    <3>1. a \in Seq(T) /\ At(W, p, a \o c)
      BY <1>1, <2>1
    <3> HIDE DEF a
    <3>2. At(W, p, a) /\ At(W, p + Len(a), c) /\ Len(a \o c) = Len(a) + Len(c)
      BY <1>1, <3>1, AtParts
    <3> QED BY <3>2 DEF a
  <2>3. Len(<<n>>) = 1
    OBVIOUS
  <2> QED BY <1>1, <2>2, <2>3
<1>3. ReadU64(Rest(W, p, m)) = ReadTo(W, n, p + 1, m)
  BY <1>2, ReadU64At
<1> HIDE DEF q
<1>4. CASE ~(p + 1 <= m)
  <2>1. ~(q <= m)
    BY <1>2, <1>4
  <2>2. ReadU64(Rest(W, p, m)) = Truncated
    BY <1>3, <1>4 DEF ReadTo
  <2>3. ReadList(Rest(W, p, m)) = Truncated
    BY <2>2 DEF ReadList, Truncated
  <2> QED BY <2>1, <2>3 DEF ReadTo, q
<1>5. CASE p + 1 <= m
  <2>1. ReadU64(Rest(W, p, m)) = Read(n, Rest(W, p + 1, m))
    BY <1>3, <1>5 DEF ReadTo
  <2>2. ReadList(Rest(W, p, m)) = ReadItems(n, Rest(W, p + 1, m))
    <3> DEFINE x == ReadU64(Rest(W, p, m))
    <3>1. x.ok /\ x.value = n /\ x.cursor = Rest(W, p + 1, m)
      BY <2>1 DEF Read
    <3>2. ReadList(Rest(W, p, m)) = IF x.ok THEN ReadItems(x.value, x.cursor) ELSE Truncated
      BY DEF ReadList
    <3> HIDE DEF x
    <3> QED BY <3>1, <3>2
  <2>3. p + 1 \in Nat
    OBVIOUS
  <2>4. ReadItems(n, Rest(W, p + 1, m)) = ReadTo(W, items, (p + 1) + Len(c), m)
    BY <1>2, <1>5, <2>3, ReadItemsAt, ZenonT(30) DEF n, c
  <2> QED BY <1>2, <2>2, <2>4 DEF q
<1> QED BY <1>4, <1>5

\* A value that an envelope carries as it is: it parses, a number fits its
\* width, and no text that may be absent is empty.
Sendable(k, v, T) ==
    /\ ParsesValue(k, v)
    /\ k \in {"word", "u32"} => v \in Nat
    /\ k = "u32" => v % U32 = v
    /\ k \in DOMAIN Inner => v = <<>> \/ (v = <<v[1]>> /\ v[1] \in Seq(T) /\ v[1] /= <<>>)
    /\ k = "environments" => v \in Seq(Seq(T))
    /\ k \notin {"word", "u32", "environments"} \cup DOMAIN Inner => v \in Seq(T)

\* the bytes of the one field a value is pushed as
WireBytes(k, v) ==
    CASE k \in {"word", "u32"} -> <<v>>
      [] k \in DOMAIN Inner -> EmptyIfNone(v)
      [] OTHER -> v

LEMMA WireCases ==
    ASSUME NEW T, Nat \subseteq T, NEW k, NEW v, Sendable(k, v, T)
    PROVE  /\ k = "environments" => PushWire(k, v) = PushList(v) /\ v \in Seq(Seq(T))
           /\ k /= "environments" =>
                PushWire(k, v) = PushField(WireBytes(k, v)) /\ WireBytes(k, v) \in Seq(T)
           /\ WireValue(k, WireBytes(k, v)) = <<v>>
           /\ k = "environments" => WireBytes(k, v) = v
<1>1. CASE k \in {"word", "u32"}
  <2>1. k /= "environments" /\ k \notin DOMAIN Inner
    BY <1>1, InnerKinds
  <2>2. WireBytes(k, v) = <<v>> /\ PushWire(k, v) = PushField(<<v>>)
    BY <1>1, <2>1 DEF WireBytes, PushWire, PushU64
  <2>3. v \in Nat /\ (k = "u32" => v % U32 = v) /\ <<v>> \in Seq(T)
    BY <1>1 DEF Sendable
  <2>4. Len(<<v>>) = 1 /\ <<v>>[1] = v
    OBVIOUS
  <2>5. WireValue(k, <<v>>) = ReadU64Field(k, <<v>>)
    BY <1>1, <2>1 DEF WireValue
  <2>6. ReadU64Field(k, <<v>>) = <<v>>
    BY <2>3, <2>4 DEF ReadU64Field
  <2> QED BY <2>1, <2>2, <2>3, <2>5, <2>6
<1>2. CASE k \in DOMAIN Inner
  <2>1. k /= "environments" /\ k \notin {"word", "u32"}
    BY <1>2, InnerKinds
  <2>2. WireBytes(k, v) = EmptyIfNone(v) /\ PushWire(k, v) = PushField(EmptyIfNone(v))
    BY <1>2, <2>1 DEF WireBytes, PushWire
  <2>3. v = <<>> \/ (v = <<v[1]>> /\ v[1] \in Seq(T) /\ v[1] /= <<>>)
    BY <1>2 DEF Sendable
  <2>4. EmptyIfNone(v) \in Seq(T) /\ NoneIfEmpty(EmptyIfNone(v)) = v
    <3>1. CASE v = <<>>
      BY <3>1 DEF EmptyIfNone, NoneIfEmpty
    <3>2. CASE v /= <<>>
      BY <2>3, <3>2 DEF EmptyIfNone, NoneIfEmpty
    <3> QED BY <3>1, <3>2
  <2>5. WireValue(k, EmptyIfNone(v)) = <<NoneIfEmpty(EmptyIfNone(v))>>
    BY <1>2, <2>1 DEF WireValue
  <2> QED BY <2>1, <2>2, <2>4, <2>5
<1>3. CASE k \notin {"word", "u32"} \cup DOMAIN Inner
  <2>1. WireBytes(k, v) = v /\ WireValue(k, v) = <<v>>
    BY <1>3 DEF WireBytes, WireValue
  <2>2. CASE k = "environments"
    BY <1>3, <2>1, <2>2 DEF PushWire, Sendable
  <2>3. CASE k /= "environments"
    BY <1>3, <2>1, <2>3 DEF PushWire, Sendable
  <2> QED BY <2>2, <2>3
<1> QED BY <1>1, <1>2, <1>3

\* A value is read where it stands, unless the envelope ends before its end.
LEMMA ReadWireAt ==
    ASSUME NEW T, Nat \subseteq T, NEW W \in Seq(T), NEW p \in Nat, NEW m \in Nat, p <= m,
           m <= Len(W), NEW k, NEW v, Sendable(k, v, T), At(W, p, PushWire(k, v))
    PROVE  /\ PushWire(k, v) \in Seq(T)
           /\ ReadWire(k, Rest(W, p, m)) = ReadTo(W, v, p + Len(PushWire(k, v)), m)
<1> DEFINE b == WireBytes(k, v)
           q == p + Len(PushWire(k, v))
           field == IF k = "environments" THEN ReadList(Rest(W, p, m)) ELSE ReadField(Rest(W, p, m))
<1>1. WireValue(k, b) = <<v>> /\ ParsesValue(k, v)
  BY WireCases DEF Sendable
<1>2. PushWire(k, v) \in Seq(T) /\ field = ReadTo(W, b, q, m)
  <2>1. CASE k = "environments"
    <3>1. PushWire(k, v) = PushList(v) /\ v \in Seq(Seq(T)) /\ b = v
      BY <2>1, WireCases
    <3>2. PushList(v) \in Seq(T)
      BY <3>1, PushListSeq
    <3>3. ReadList(Rest(W, p, m)) = ReadTo(W, v, p + Len(PushList(v)), m)
      <4>1. At(W, p, PushList(v))
        BY <3>1
      <4> QED BY <3>1, <4>1, ReadListAt, Zenon
    <3> QED BY <2>1, <3>1, <3>2, <3>3
  <2>2. CASE k /= "environments"
    <3>1. PushWire(k, v) = PushField(b) /\ b \in Seq(T)
      BY <2>2, WireCases
    <3> HIDE DEF b
    <3>2. PushField(b) \in Seq(T)
      BY <3>1, PushFieldSeq
    <3>3. ReadField(Rest(W, p, m)) = ReadTo(W, b, p + Len(PushField(b)), m)
      <4>1. At(W, p, PushField(b))
        BY <3>1
      <4> QED BY <3>1, <4>1, ReadFieldAt
    <3> QED BY <2>2, <3>1, <3>2, <3>3
  <2> QED BY <2>1, <2>2
<1>3. ReadWire(k, Rest(W, p, m)) = ParseField(k, field)
  BY DEF ReadWire
<1> HIDE DEF b, q, field
<1>4. ParseField(k, field) = ReadTo(W, v, q, m)
  <2>1. CASE q <= m
    <3>1. field = Read(b, Rest(W, q, m))
      BY <1>2, <2>1 DEF ReadTo
    <3>2. field.ok /\ field.value = b /\ field.cursor = Rest(W, q, m)
      BY <3>1 DEF Read
    <3>3. ParseField(k, field) = ParsedField(k, <<v>>, Rest(W, q, m))
      BY <1>1, <3>2 DEF ParseField
    <3>4. ParsedField(k, <<v>>, Rest(W, q, m)) = Read(v, Rest(W, q, m))
      BY <1>1 DEF ParsedField
    <3> QED BY <2>1, <3>3, <3>4 DEF ReadTo
  <2>2. CASE ~(q <= m)
    <3>1. field = Truncated
      BY <1>2, <2>2 DEF ReadTo
    <3>2. ParseField(k, field) = Truncated
      BY <3>1 DEF ParseField, Truncated
    <3> QED BY <2>2, <3>2 DEF ReadTo
  <2> QED BY <2>1, <2>2
<1> QED BY <1>2, <1>3, <1>4 DEF q

LEMMA PushWireSeq ==
    ASSUME NEW T, Nat \subseteq T, NEW k, NEW v, Sendable(k, v, T)
    PROVE  PushWire(k, v) \in Seq(T)
<1>1. CASE k = "environments"
  <2>1. PushWire(k, v) = PushList(v) /\ v \in Seq(Seq(T))
    BY <1>1, WireCases
  <2> QED BY <2>1, PushListSeq
<1>2. CASE k /= "environments"
  <2>1. PushWire(k, v) = PushField(WireBytes(k, v)) /\ WireBytes(k, v) \in Seq(T)
    BY <1>2, WireCases
  <2> QED BY <2>1, PushFieldSeq
<1> QED BY <1>1, <1>2

\* a record with one more field
Extended(record, name, v) == [f \in DOMAIN record \cup {name} |-> IF f = name THEN v ELSE record[f]]

\* the first j fields of a record
PartOf(fields, e, j) == [f \in {fields[i][1] : i \in 1..j} |-> e[f]]

Grow(fields, e) ==
    /\ PartOf(fields, e, 0) = <<>>
    /\ \A j \in 1..Len(fields) :
         Extended(PartOf(fields, e, j - 1), fields[j][1], e[fields[j][1]]) = PartOf(fields, e, j)
    /\ PartOf(fields, e, Len(fields)) = [f \in FieldNames(fields) |-> e[f]]

LEMMA PartsGrow ==
    ASSUME NEW fields, FieldList(fields), NEW e
    PROVE  Grow(fields, e)
<1>1. PartOf(fields, e, 0) = <<>>
  <2> DEFINE a == PartOf(fields, e, 0)
  <2>1. {fields[i][1] : i \in 1..0} = {}
    OBVIOUS
  <2>2. a \in [1..0 -> {}]
    BY <2>1 DEF PartOf
  <2> HIDE DEF a
  <2>3. a = <<>>
    BY <2>2
  <2> QED BY <2>3 DEF a
<1>2. ASSUME NEW j \in 1..Len(fields)
      PROVE  Extended(PartOf(fields, e, j - 1), fields[j][1], e[fields[j][1]]) = PartOf(fields, e, j)
  <2> DEFINE A == {fields[i][1] : i \in 1..(j - 1)}
             B == {fields[i][1] : i \in 1..j}
             x == fields[j][1]
             a == [f \in A |-> e[f]]
  <2>1. B = A \cup {x}
    <3>1. \A i \in 1..j : i \in 1..(j - 1) \/ i = j
      OBVIOUS
    <3>2. \A i \in 1..(j - 1) : i \in 1..j
      OBVIOUS
    <3>3. j \in 1..j
      OBVIOUS
    <3> QED BY <3>1, <3>2, <3>3, Zenon
  <2> HIDE DEF A, B, x
  <2>2. Extended(a, x, e[x]) = [f \in A \cup {x} |-> IF f = x THEN e[x] ELSE a[f]]
    BY DEF Extended
  <2>3. \A f \in A \cup {x} : (IF f = x THEN e[x] ELSE a[f]) = e[f]
    OBVIOUS
  <2>4. Extended(a, x, e[x]) = [f \in B |-> e[f]]
    BY <2>1, <2>2, <2>3
  <2> QED BY <2>4 DEF PartOf, A, B, x
<1>3. PartOf(fields, e, Len(fields)) = [f \in FieldNames(fields) |-> e[f]]
  <2>1. DOMAIN fields = 1..Len(fields)
    BY DEF FieldList
  <2> QED BY <2>1 DEF PartOf, FieldNames
<1> QED BY <1>1, <1>2, <1>3 DEF Grow

\* The fields of an envelope are read one after the other.
LEMMA ReadFieldsAt ==
    ASSUME NEW T, Nat \subseteq T, NEW fields, FieldList(fields), NEW e,
           \A i \in 1..Len(fields) : Sendable(fields[i][2], e[fields[i][1]], T),
           NEW W \in Seq(T), NEW p \in Nat, NEW m \in Nat, p <= m, m <= Len(W),
           At(W, p, EncodeWire(fields, e))
    PROVE  ReadFields(fields, Rest(W, p, m))
             = ReadTo(W, [f \in FieldNames(fields) |-> e[f]], p + Len(EncodeWire(fields, e)), m)
<1>0. Grow(fields, e)
  BY PartsGrow
<1> DEFINE n == Len(fields)
           P == [i \in DOMAIN fields |-> PushWire(fields[i][2], e[fields[i][1]])]
           c == EncodeWire(fields, e)
           cur == Rest(W, p, m)
<1>1. n \in Nat /\ DOMAIN fields = 1..n
  BY DEF FieldList
<1>2. P \in Seq(Seq(T)) /\ Len(P) = n /\ \A i \in 1..n : P[i] = PushWire(fields[i][2], e[fields[i][1]])
  <2>1. P \in [1..n -> Seq(T)]
    BY <1>1, PushWireSeq
  <2> QED BY <1>1, <2>1
<1> HIDE DEF n, P
<1>3. PICK o : Offsets(o, P, T)
  BY <1>2, PiecesAt
<1>4. /\ o \in [0..n -> Nat] /\ o[0] = 0 /\ o[n] = Len(c)
      /\ \A i \in 1..n : o[i] = o[i - 1] + Len(P[i])
      /\ \A i \in 1..n : At(W, p + o[i - 1], P[i])
  <2>1. c = FlattenSeq(P)
    BY DEF P, EncodeWire
  <2> QED BY <1>2, <1>3, <2>1 DEF Offsets
<1> HIDE DEF c, cur
<1> DEFINE F(j) == ReadTo(W, PartOf(fields, e, j), p + o[j], m)
           Whole(g) == g = [j \in 0..n |-> IF j = 0 THEN Read(<<>>, cur)
                                           ELSE ReadNamed(g[j - 1], fields[j][1], fields[j][2])]
<1>5. F(0) = Read(<<>>, cur)
  <2>1. PartOf(fields, e, 0) = <<>> /\ p + o[0] = p
    BY <1>0, <1>4 DEF Grow
  <2> QED BY <2>1 DEF ReadTo, cur
<1>6. ASSUME NEW j \in 1..n PROVE F(j) = ReadNamed(F(j - 1), fields[j][1], fields[j][2])
  <2> DEFINE name == fields[j][1]
             k == fields[j][2]
             v == e[name]
             q == p + o[j - 1]
             s == p + o[j]
             part == PartOf(fields, e, j - 1)
  <2>1. q \in Nat /\ s \in Nat /\ s = q + Len(PushWire(k, v)) /\ q <= s
    <3>1. j \in 0..n /\ j - 1 \in 0..n
      BY <1>1
    <3>2. o[j] = o[j - 1] + Len(PushWire(k, v)) /\ o[j] \in Nat /\ o[j - 1] \in Nat
      BY <1>2, <1>4, <3>1
    <3>3. Len(PushWire(k, v)) \in Nat
      <4>1. PushWire(k, v) \in Seq(T)
        BY <1>2
      <4> HIDE DEF k, v
      <4> QED BY <4>1
    <3> HIDE DEF k, v
    <3> QED BY <3>2, <3>3, SMTT(30)
  <2>2. Sendable(k, v, T) /\ At(W, q, PushWire(k, v))
    BY <1>2, <1>4 DEF n
  <2>3. Extended(part, name, v) = PartOf(fields, e, j)
    BY <1>0 DEF n, Grow
  <2> HIDE DEF q, s, v, k, name, part
  <2>4. CASE ~(q <= m)
    <3>1. ~(s <= m)
      BY <2>1, <2>4
    <3>2. F(j) = Truncated /\ F(j - 1) = Truncated
      BY <2>4, <3>1 DEF ReadTo, q, s
    <3>3. ReadNamed(Truncated, name, k) = Truncated
      BY DEF ReadNamed, Truncated
    <3> QED BY <3>2, <3>3 DEF name, k
  <2>5. CASE q <= m
    <3> DEFINE x == F(j - 1)
               y == ReadTo(W, v, s, m)
    <3>1. x = Read(part, Rest(W, q, m))
      BY <2>5 DEF ReadTo, q, part
    <3>2. ReadWire(k, Rest(W, q, m)) = y
      BY <2>1, <2>2, <2>5, ReadWireAt
    <3>3. x.ok /\ x.value = part /\ x.cursor = Rest(W, q, m)
      BY <3>1 DEF Read
    <3> HIDE DEF x, y
    <3>4. ReadNamed(x, name, k) = AddNamed(part, name, y)
      BY <3>2, <3>3 DEF ReadNamed
    <3>5. CASE s <= m
      <4>1. F(j) = Read(PartOf(fields, e, j), Rest(W, s, m))
        BY <3>5 DEF ReadTo, s
      <4>2. y.ok /\ y.value = v /\ y.cursor = Rest(W, s, m)
        BY <3>5 DEF ReadTo, y, Read
      <4>3. AddNamed(part, name, y) = Read(Extended(part, name, v), Rest(W, s, m))
        BY <4>2 DEF AddNamed, Extended
      <4> QED BY <2>3, <3>4, <4>1, <4>3 DEF x, name, k
    <3>6. CASE ~(s <= m)
      <4>1. F(j) = Truncated /\ y = Truncated
        BY <3>6 DEF ReadTo, s, y
      <4>2. AddNamed(part, name, y) = Truncated
        BY <4>1 DEF AddNamed, Truncated
      <4> QED BY <3>4, <4>1, <4>2 DEF x, name, k
    <3> QED BY <3>5, <3>6
  <2> QED BY <2>4, <2>5
<1> HIDE DEF F
<1>7. \E g : Whole(g)
  <2> DEFINE h == [j \in 0..n |-> F(j)]
             OneMore(g, j) == IF j = 0 THEN Read(<<>>, cur) ELSE ReadNamed(g[j - 1], fields[j][1], fields[j][2])
  <2>1. \A j \in 0..n : F(j) = OneMore(h, j)
    <3> TAKE j \in 0..n
    <3>1. CASE j = 0
      BY <1>5, <3>1
    <3>2. CASE j /= 0
      <4>1. j \in 1..n /\ j - 1 \in 0..n
        BY <1>1, <3>2
      <4>2. h[j - 1] = F(j - 1)
        BY <4>1
      <4> HIDE DEF h
      <4> QED BY <1>6, <3>2, <4>1, <4>2
    <3> QED BY <3>1, <3>2
  <2>2. h = [j \in 0..n |-> OneMore(h, j)]
    <3> HIDE DEF OneMore
    <3> QED BY <2>1
  <2> HIDE DEF h
  <2>3. Whole(h)
    BY <2>2
  <2> HIDE DEF Whole
  <2> QED BY <2>3
<1> DEFINE f == CHOOSE g : Whole(g)
<1>8. Whole(f)
  <2> HIDE DEF Whole
  <2> QED BY <1>7
<1>9. ReadFields(fields, cur) = f[n]
  BY DEF ReadFields, n
<1> HIDE DEF f
<1>10. \A j \in 0..n : f[j] = IF j = 0 THEN Read(<<>>, cur)
                               ELSE ReadNamed(f[j - 1], fields[j][1], fields[j][2])
  BY <1>8
<1> HIDE DEF Whole
<1> DEFINE S == {j \in Nat : j <= n => f[j] = F(j)}
<1>11. 0 \in S
  BY <1>1, <1>5, <1>10
<1>12. ASSUME NEW j \in Nat, j \in S PROVE j + 1 \in S
  <2> SUFFICES ASSUME j + 1 <= n PROVE f[j + 1] = F(j + 1)
    OBVIOUS
  <2>1. j + 1 \in 1..n /\ j + 1 \in 0..n /\ j + 1 /= 0 /\ (j + 1) - 1 = j /\ j <= n
    BY <1>1
  <2>2. f[j] = F(j)
    BY <1>12, <2>1
  <2> QED BY <1>6, <1>10, <2>1, <2>2
<1>13. f[n] = F(n)
  <2> HIDE DEF S
  <2>1. Nat \subseteq S
    BY <1>11, <1>12, NatsByInduction
  <2>2. n \in S
    BY <1>1, <2>1
  <2> QED BY <1>1, <2>2 DEF S
<1>14. F(n) = ReadTo(W, [x \in FieldNames(fields) |-> e[x]], p + Len(c), m)
  BY <1>0, <1>4 DEF F, n, Grow
<1> QED BY <1>9, <1>13, <1>14 DEF c, cur

\* A record that an envelope carries as it is.
Wired(fields, e, T) ==
    /\ e = [f \in FieldNames(fields) |-> e[f]]
    /\ \A i \in 1..Len(fields) : Sendable(fields[i][2], e[fields[i][1]], T)

LEMMA EncodeWireSeq ==
    ASSUME NEW T, Nat \subseteq T, NEW fields, FieldList(fields), NEW e, Wired(fields, e, T)
    PROVE  EncodeWire(fields, e) \in Seq(T)
<1> DEFINE n == Len(fields)
           P == [i \in DOMAIN fields |-> PushWire(fields[i][2], e[fields[i][1]])]
<1>1. P \in Seq(Seq(T))
  <2>1. n \in Nat /\ DOMAIN fields = 1..n
    BY DEF FieldList
  <2>2. \A i \in 1..n : PushWire(fields[i][2], e[fields[i][1]]) \in Seq(T)
    BY PushWireSeq DEF Wired
  <2>3. P \in [1..n -> Seq(T)]
    BY <2>1, <2>2
  <2> QED BY <2>1, <2>3
<1> HIDE DEF P
<1>2. PICK o : Offsets(o, P, T)
  BY <1>1, PiecesAt
<1> QED BY <1>2 DEF Offsets, EncodeWire, P

\* what is left of the whole envelope when all of it is read
Ends(W, v, m) == IF m = Len(W) THEN [ok |-> TRUE, rec |-> v] ELSE Malformed

LEMMA AtEndOf ==
    ASSUME NEW T, NEW W \in Seq(T), NEW v, NEW m \in Nat, m <= Len(W)
    PROVE  AtEnd(ReadTo(W, v, Len(W), m)) = Ends(W, v, m)
<1>1. CASE m = Len(W)
  <2>1. Len(W) <= m /\ Len(W) \in Nat
    BY <1>1
  <2>2. IsRest(Rest(W, m, m), W, m, m, T)
    <3>1. m <= m
      OBVIOUS
    <3> QED BY <3>1, RestIs
  <2>3. Rest(W, Len(W), m) = <<>>
    BY <1>1, <2>2 DEF IsRest
  <2>4. ReadTo(W, v, Len(W), m) = Read(v, <<>>)
    BY <2>1, <2>3 DEF ReadTo
  <2> QED BY <1>1, <2>4 DEF AtEnd, Read, Ends
<1>2. CASE m /= Len(W)
  <2>1. ~(Len(W) <= m)
    BY <1>2
  <2>2. ReadTo(W, v, Len(W), m) = Truncated
    BY <2>1 DEF ReadTo
  <2> QED BY <1>2, <2>2 DEF AtEnd, Truncated, Ends
<1> QED BY <1>1, <1>2

\* The fields at the end of an envelope give the record they were written from,
\* unless the envelope was cut.
LEMMA DecodeWireAt ==
    ASSUME NEW T, Nat \subseteq T, NEW fields, FieldList(fields), NEW e, Wired(fields, e, T),
           NEW W \in Seq(T), NEW p \in Nat, NEW m \in Nat, p <= m, m <= Len(W),
           At(W, p, EncodeWire(fields, e)), p + Len(EncodeWire(fields, e)) = Len(W)
    PROVE  DecodeWire(fields, Rest(W, p, m)) = Ends(W, e, m)
<1>1. ReadFields(fields, Rest(W, p, m))
        = ReadTo(W, [f \in FieldNames(fields) |-> e[f]], p + Len(EncodeWire(fields, e)), m)
  BY ReadFieldsAt DEF Wired
<1>2. [f \in FieldNames(fields) |-> e[f]] = e
  BY Zenon DEF Wired
<1>3. ReadFields(fields, Rest(W, p, m)) = ReadTo(W, e, Len(W), m)
  BY <1>1, <1>2
<1> QED BY <1>3, AtEndOf DEF DecodeWire

LEMMA DecodeWhole ==
    ASSUME NEW T, Nat \subseteq T, NEW fields, FieldList(fields), NEW e, Wired(fields, e, T)
    PROVE  DecodeWire(fields, EncodeWire(fields, e)) = [ok |-> TRUE, rec |-> e]
<1> DEFINE W == EncodeWire(fields, e)
<1>1. W \in Seq(T)
  BY EncodeWireSeq
<1> HIDE DEF W
<1>2. At(W, 0, W) /\ Rest(W, 0, Len(W)) = W /\ Len(W) \in Nat
  BY <1>1, AtWhole
<1>3. 0 \in Nat /\ 0 <= Len(W) /\ Len(W) <= Len(W) /\ 0 + Len(W) = Len(W)
  BY <1>2
<1>4. DecodeWire(fields, Rest(W, 0, Len(W))) = Ends(W, e, Len(W))
  BY <1>1, <1>2, <1>3, DecodeWireAt DEF W
<1> QED BY <1>2, <1>4 DEF Ends, W

\* A list of such records.
WiredList(fields, records, T) ==
    /\ Len(records) \in Nat /\ DOMAIN records = 1..Len(records)
    /\ records = [i \in 1..Len(records) |-> records[i]]
    /\ \A i \in 1..Len(records) : Wired(fields, records[i], T)

LEMMA EncodeListSeq ==
    ASSUME NEW T, Nat \subseteq T, NEW fields, FieldList(fields),
           NEW records, WiredList(fields, records, T)
    PROVE  /\ [i \in DOMAIN records |-> EncodeWire(fields, records[i])] \in Seq(Seq(T))
           /\ EncodeList(fields, records) \in Seq(T)
<1> DEFINE items == [i \in DOMAIN records |-> EncodeWire(fields, records[i])]
<1>1. items \in Seq(Seq(T))
  <2>1. Len(records) \in Nat /\ DOMAIN records = 1..Len(records)
    BY DEF WiredList
  <2>2. \A i \in 1..Len(records) : EncodeWire(fields, records[i]) \in Seq(T)
    BY EncodeWireSeq DEF WiredList
  <2>3. items \in [1..Len(records) -> Seq(T)]
    BY <2>1, <2>2
  <2> QED BY <2>1, <2>3
<1> HIDE DEF items
<1>2. PushList(items) \in Seq(T)
  BY <1>1, PushListSeq
<1> QED BY <1>1, <1>2 DEF items, EncodeList

\* A list of records is read and decoded where it stands, unless the envelope
\* ends before its end.
LEMMA ReadRecordsAt ==
    ASSUME NEW T, Nat \subseteq T, NEW fields, FieldList(fields),
           NEW records, WiredList(fields, records, T),
           NEW W \in Seq(T), NEW p \in Nat, NEW m \in Nat, m <= Len(W),
           At(W, p, EncodeList(fields, records)), NEW r, NEW name
    PROVE  ReadRecords(ReadTo(W, r, p, m), name, fields)
             = ReadTo(W, Extended(r, name, records), p + Len(EncodeList(fields, records)), m)
<1> DEFINE items == [i \in DOMAIN records |-> EncodeWire(fields, records[i])]
           q == p + Len(EncodeList(fields, records))
<1>1. /\ items \in Seq(Seq(T)) /\ EncodeList(fields, records) \in Seq(T)
      /\ EncodeList(fields, records) = PushList(items)
  BY EncodeListSeq DEF EncodeList
<1>2. Len(EncodeList(fields, records)) \in Nat
  <2> DEFINE x == EncodeList(fields, records)
  <2>1. x \in Seq(T)
    BY <1>1
  <2> HIDE DEF x
  <2>2. Len(x) \in Nat
    BY <2>1
  <2> QED BY <2>2 DEF x
<1>3. DOMAIN items = DOMAIN records /\ \A i \in DOMAIN records : items[i] = EncodeWire(fields, records[i])
  OBVIOUS
<1>4. q \in Nat /\ p <= q
  BY <1>2
<1> HIDE DEF items, q
<1>5. CASE ~(p <= m)
  <2>1. ~(q <= m)
    BY <1>4, <1>5
  <2>2. ReadTo(W, r, p, m) = Truncated /\ ReadTo(W, Extended(r, name, records), q, m) = Truncated
    BY <1>5, <2>1 DEF ReadTo
  <2>3. ReadRecords(Truncated, name, fields) = Truncated
    BY DEF ReadRecords, Truncated
  <2> QED BY <2>2, <2>3 DEF q
<1>6. CASE p <= m
  <2> DEFINE x == ReadTo(W, r, p, m)
             y == ReadList(Rest(W, p, m))
  <2>1. x.ok /\ x.value = r /\ x.cursor = Rest(W, p, m)
    BY <1>6 DEF ReadTo, Read
  <2>2. y = ReadTo(W, items, q, m)
    <3>1. At(W, p, PushList(items)) /\ q = p + Len(PushList(items))
      BY <1>1 DEF q
    <3> QED BY <1>1, <1>6, <3>1, ReadListAt
  <2> HIDE DEF x, y
  <2>3. ReadRecords(x, name, fields) = AddNamed(r, name, DecodeItems(fields, y))
    BY <2>1 DEF ReadRecords, y
  <2>4. CASE ~(q <= m)
    <3>1. y = Truncated /\ ReadTo(W, Extended(r, name, records), q, m) = Truncated
      BY <2>2, <2>4 DEF ReadTo
    <3>2. DecodeItems(fields, y) = Truncated
      BY <3>1 DEF DecodeItems, Truncated
    <3>3. AddNamed(r, name, Truncated) = Truncated
      BY DEF AddNamed, Truncated
    <3> QED BY <2>3, <3>1, <3>2, <3>3 DEF x, q
  <2>5. CASE q <= m
    <3> DEFINE d == [i \in DOMAIN items |-> DecodeWire(fields, items[i])]
    <3>1. y.ok /\ y.value = items /\ y.cursor = Rest(W, q, m)
      BY <2>2, <2>5 DEF ReadTo, Read
    <3>2. DecodeItems(fields, y) = AllDecoded(d, Rest(W, q, m))
      BY <3>1 DEF DecodeItems
    <3>3. DOMAIN d = DOMAIN records /\ \A i \in DOMAIN records : d[i] = [ok |-> TRUE, rec |-> records[i]]
      <4>1. \A i \in DOMAIN records : DecodeWire(fields, items[i]) = [ok |-> TRUE, rec |-> records[i]]
        <5> TAKE i \in DOMAIN records
        <5>1. Wired(fields, records[i], T)
          BY DEF WiredList
        <5>2. items[i] = EncodeWire(fields, records[i])
          BY <1>3
        <5> QED BY <5>1, <5>2, DecodeWhole
      <4> QED BY <1>3, <4>1
    <3> HIDE DEF d
    <3>4. \A i \in DOMAIN d : d[i].ok /\ d[i].rec = records[i]
      BY <3>3
    <3>5. [i \in DOMAIN d |-> d[i].rec] = records
      <4>1. [i \in DOMAIN d |-> d[i].rec] = [i \in DOMAIN records |-> records[i]]
        BY <3>3, <3>4, Zenon
      <4>2. [i \in DOMAIN records |-> records[i]] = records
        <5>1. DOMAIN records = 1..Len(records) /\ records = [i \in 1..Len(records) |-> records[i]]
          BY DEF WiredList
        <5> QED BY <5>1, Zenon
      <4> QED BY <4>1, <4>2
    <3>6. AllDecoded(d, Rest(W, q, m)) = Read(records, Rest(W, q, m))
      BY <3>4, <3>5 DEF AllDecoded
    <3>7. AddNamed(r, name, Read(records, Rest(W, q, m))) = Read(Extended(r, name, records), Rest(W, q, m))
      BY DEF AddNamed, Extended, Read
    <3>8. ReadTo(W, Extended(r, name, records), q, m) = Read(Extended(r, name, records), Rest(W, q, m))
      BY <2>5 DEF ReadTo
    <3>9. ReadRecords(x, name, fields) = ReadTo(W, Extended(r, name, records), q, m)
      BY <2>3, <3>2, <3>6, <3>7, <3>8
    <3> QED BY <3>9 DEF x, q
  <2> QED BY <2>4, <2>5
<1> QED BY <1>5, <1>6

\* The byte that every envelope begins with.
LEMMA MagicAt ==
    ASSUME NEW T, NEW W \in Seq(T), NEW x, At(W, 0, <<x>>), NEW m \in Nat, m <= Len(W)
    PROVE  /\ SubSeq(W, 1, m) = <<>> <=> m = 0
           /\ m /= 0 => IsPrefix(<<x>>, SubSeq(W, 1, m)) /\ Tail(SubSeq(W, 1, m)) = Rest(W, 1, m)
<1> DEFINE b == SubSeq(W, 1, m)
<1>1. Rest(W, 0, m) = b
  BY DEF Rest
<1>2. /\ b \in Seq(T) /\ Len(b) = m /\ (b = <<>> <=> m = 0)
  <2>1. IsRest(Rest(W, 0, m), W, 0, m, T)
    <3>1. 0 <= m /\ 0 \in Nat
      OBVIOUS
    <3> QED BY <3>1, RestIs
  <2>2. m - 0 = m /\ (0 = m <=> m = 0)
    OBVIOUS
  <2> HIDE DEF b
  <2> QED BY <1>1, <2>1, <2>2 DEF IsRest
<1>3. ASSUME m /= 0 PROVE IsPrefix(<<x>>, b) /\ Tail(b) = Rest(W, 1, m)
  <2>1. 0 <= m /\ 0 \in Nat /\ 0 + 1 = 1 /\ 1 <= m
    BY <1>3
  <2>2. ReadU64(Rest(W, 0, m)) = ReadTo(W, x, 0 + 1, m)
    BY <2>1, ReadU64At
  <2> HIDE DEF b
  <2>3. ReadU64(b) = Read(x, Rest(W, 1, m))
    BY <1>1, <2>1, <2>2 DEF ReadTo
  <2>4. ReadU64(b) = Read(Head(b), Tail(b))
    BY <1>2, <1>3 DEF ReadU64
  <2>5. Head(b) = x /\ Tail(b) = Rest(W, 1, m)
    BY <2>3, <2>4 DEF Read
  <2>6. SubSeq(b, 1, 1) = <<x>> /\ SubSeq(<<x>>, 1, 1) = <<x>> /\ Len(<<x>>) = 1
    <3> DEFINE y == <<x>>
               c == SubSeq(b, 1, 1)
               d == SubSeq(y, 1, 1)
    <3>1. b[1] = x /\ x \in T
      BY <1>2, <1>3, <2>1, <2>5
    <3>2. y \in Seq(T) /\ Len(y) = 1 /\ y[1] = x
      BY <3>1
    <3> HIDE DEF y
    <3>3. c \in Seq(T) /\ Len(c) = 1 /\ c[1] = x
      BY <1>2, <2>1, <3>1
    <3>4. d = y
      BY <3>2, SubSeqFull
    <3> HIDE DEF c, d
    <3>5. c = y /\ d = y
      <4>1. \A i \in 1..1 : i = 1
        OBVIOUS
      <4>2. c = y
        BY <3>2, <3>3, <4>1, SeqEqual
      <4> QED BY <3>4, <4>2
    <3> QED BY <3>2, <3>5 DEF c, d, y
  <2>7. IsPrefix(<<x>>, b)
    BY <1>2, <2>1, <2>6 DEF IsPrefix
  <2> QED BY <2>5, <2>7
<1> HIDE DEF b
<1> QED BY <1>2, <1>3 DEF b

LEMMA KnownWireFields ==
    /\ FieldList(WireProjectGenesis) /\ FieldList(WireJoinRequest)
    /\ FieldList(WireApproval) /\ FieldList(WireRevocation)
<1>1. /\ WireProjectGenesis = TomlProjectGenesis /\ WireJoinRequest = TomlJoinRequest
      /\ WireApproval = TomlApproval /\ WireRevocation = TomlRevocation
  BY DEF WireProjectGenesis, TomlProjectGenesis, WireJoinRequest, TomlJoinRequest, WireApproval,
         TomlApproval, WireRevocation, TomlRevocation
<1> QED BY <1>1, KnownTomlProjectGenesis, KnownTomlJoinRequest, KnownTomlApproval,
           KnownTomlRevocation DEF KnownFields

\* An authorization that an envelope carries as it is.
WiredAuthorization(e) ==
    /\ e = [project |-> e.project, join_requests |-> e.join_requests,
            approvals |-> e.approvals, revocations |-> e.revocations]
    /\ Wired(WireProjectGenesis, e.project, Nat)
    /\ WiredList(WireJoinRequest, e.join_requests, Nat)
    /\ WiredList(WireApproval, e.approvals, Nat)
    /\ WiredList(WireRevocation, e.revocations, Nat)

\* The authorization envelope gives the records it was written from, and is
\* refused when it ends early, wherever it ends (RelayAuthorizationEnvelope).
THEOREM AuthorizationReadsBack ==
    ASSUME NEW e, WiredAuthorization(e)
    PROVE  /\ EncodeAuthorization(e) \in Bytes
           /\ \A m \in 0..Len(EncodeAuthorization(e)) :
                DecodeAuthorization(SubSeq(EncodeAuthorization(e), 1, m))
                  = Ends(EncodeAuthorization(e), e, m)
<1> DEFINE g == EncodeWire(WireProjectGenesis, e.project)
           f == PushField(g)
           j == EncodeList(WireJoinRequest, e.join_requests)
           a == EncodeList(WireApproval, e.approvals)
           v == EncodeList(WireRevocation, e.revocations)
           W == EncodeAuthorization(e)
           M == AuthorizationMagic
<1>1. /\ g \in Seq(Nat) /\ f \in Seq(Nat) /\ j \in Seq(Nat) /\ a \in Seq(Nat) /\ v \in Seq(Nat)
      /\ M \in Seq(Nat)
  <2>0. Nat \subseteq Nat
    OBVIOUS
  <2>1. g \in Seq(Nat) /\ j \in Seq(Nat) /\ a \in Seq(Nat) /\ v \in Seq(Nat)
    BY <2>0, KnownWireFields, EncodeWireSeq, EncodeListSeq DEF WiredAuthorization
  <2>2. M \in Seq(Nat)
    BY DEF AuthorizationMagic
  <2> HIDE DEF g
  <2> QED BY <2>0, <2>1, <2>2, PushFieldSeq
<1>2. W = (((M \o f) \o j) \o a) \o v
  BY DEF EncodeAuthorization
<1>3. DecodeWire(WireProjectGenesis, g) = [ok |-> TRUE, rec |-> e.project]
  BY KnownWireFields, DecodeWhole DEF WiredAuthorization
<1> DEFINE q1 == 1 + Len(f)
           q2 == q1 + Len(j)
           q3 == q2 + Len(a)
           q4 == q3 + Len(v)
<1> HIDE DEF g, f, j, a, v, W, M
<1>4. /\ W \in Seq(Nat) /\ Len(W) = q4 /\ q1 \in Nat /\ q2 \in Nat /\ q3 \in Nat
      /\ At(W, 0, M) /\ At(W, 1, f) /\ At(W, q1, j) /\ At(W, q2, a) /\ At(W, q3, v)
  <2> DEFINE x1 == M \o f
             x2 == x1 \o j
             x3 == x2 \o a
  <2>1. Len(M) = 1
    BY DEF M, AuthorizationMagic
  <2>2. x1 \in Seq(Nat) /\ Len(x1) = q1
    BY <1>1, <2>1, ConcatProperties, ZenonT(30)
  <2> HIDE DEF x1
  <2>3. x2 \in Seq(Nat) /\ Len(x2) = q2
    BY <1>1, <2>2, ConcatProperties
  <2> HIDE DEF x2
  <2>4. x3 \in Seq(Nat) /\ Len(x3) = q3
    BY <1>1, <2>3, ConcatProperties
  <2> HIDE DEF x3
  <2>5. W = x3 \o v
    BY <1>2 DEF x1, x2, x3
  <2>6. W \in Seq(Nat) /\ Len(W) = q4
    BY <1>1, <2>4, <2>5, ConcatProperties
  <2>7. At(W, 0, W) /\ \A n \in Nat : 0 + n = n
    BY <2>6, AtWhole
  <2>8. Len(x1) \in Nat /\ Len(x2) \in Nat /\ Len(x3) \in Nat
    BY <2>2, <2>3, <2>4
  <2>9. At(W, 0, x3) /\ At(W, 0 + Len(x3), v)
    BY <1>1, <2>4, <2>5, <2>6, <2>7, AtParts
  <2>10. At(W, 0, x2) /\ At(W, 0 + Len(x2), a)
    BY <1>1, <2>3, <2>6, <2>9, AtParts DEF x3
  <2>11. At(W, 0, x1) /\ At(W, 0 + Len(x1), j)
    BY <1>1, <2>2, <2>6, <2>10, AtParts DEF x2
  <2>12. At(W, 0, M) /\ At(W, 0 + Len(M), f)
    BY <1>1, <2>6, <2>11, AtParts DEF x1
  <2>13. 0 + Len(x3) = q3 /\ 0 + Len(x2) = q2 /\ 0 + Len(x1) = q1 /\ 0 + Len(M) = 1
    BY <2>1, <2>2, <2>3, <2>4, <2>7, <2>8
  <2>14. q1 \in Nat /\ q2 \in Nat /\ q3 \in Nat
    BY <2>2, <2>3, <2>4, <2>8
  <2> QED BY <2>6, <2>9, <2>10, <2>11, <2>12, <2>13, <2>14
<1>5. ASSUME NEW m \in 0..Len(W) PROVE DecodeAuthorization(SubSeq(W, 1, m)) = Ends(W, e, m)
  <2> DEFINE b == SubSeq(W, 1, m)
             genesis == ReadGenesis(ReadField(Rest(W, 1, m)))
             joined == ReadRecords(genesis, "join_requests", WireJoinRequest)
             approved == ReadRecords(joined, "approvals", WireApproval)
             revoked == ReadRecords(approved, "revocations", WireRevocation)
             r1 == [project |-> e.project]
             r2 == Extended(r1, "join_requests", e.join_requests)
             r3 == Extended(r2, "approvals", e.approvals)
             r4 == Extended(r3, "revocations", e.revocations)
  <2>1. m \in Nat /\ m <= Len(W) /\ Len(W) \in Nat
    BY <1>4
  <2>2. M = <<41>>
    BY DEF M, AuthorizationMagic
  <2>3. /\ b = <<>> <=> m = 0
        /\ m /= 0 => IsPrefix(M, b) /\ Tail(b) = Rest(W, 1, m)
    <3>1. At(W, 0, <<41>>)
      BY <1>4, <2>2
    <3>2. /\ b = <<>> <=> m = 0
          /\ m /= 0 => IsPrefix(<<41>>, b) /\ Tail(b) = Rest(W, 1, m)
      BY <1>4, <2>1, <3>1, MagicAt
    <3> QED BY <2>2, <3>2
  <2> HIDE DEF b
  <2>4. CASE m = 0
    <3>1. DecodeAuthorization(b) = Malformed
      BY <2>3, <2>4 DEF DecodeAuthorization
    <3>2. m /= Len(W)
      <4>1. 0 + Len(M) <= Len(W) /\ Len(M) = 1
        BY <1>4, <2>2 DEF At
      <4> QED BY <2>4, <4>1
    <3> QED BY <3>1, <3>2 DEF Ends, b
  <2>5. CASE m /= 0
    <3>1. DecodeAuthorization(b) = AtEnd(revoked)
      BY <2>3, <2>5 DEF DecodeAuthorization, M
    <3>2. genesis = ReadTo(W, r1, q1, m)
      <4> DEFINE x == ReadField(Rest(W, 1, m))
      <4>1. x = ReadTo(W, g, 1 + Len(f), m)
        <5>1. 1 <= m /\ 1 \in Nat /\ Nat \subseteq Nat
          BY <2>1, <2>5
        <5>2. At(W, 1, PushField(g))
          BY <1>4 DEF f
        <5>3. W \in Seq(Nat) /\ g \in Seq(Nat)
          BY <1>1, <1>4
        <5> HIDE DEF x, q1, q2, q3, q4
        <5>4. ReadField(Rest(W, 1, m)) = ReadTo(W, g, 1 + Len(PushField(g)), m)
          BY <2>1, <5>1, <5>2, <5>3, ReadFieldAt, SMTT(30)
        <5> QED BY <5>4 DEF f, x
      <4> HIDE DEF x
      <4>2. CASE q1 <= m
        <5>1. x.ok /\ x.value = g /\ x.cursor = Rest(W, q1, m)
          BY <4>1, <4>2 DEF ReadTo, Read
        <5>2. ReadGenesis(x) = StartWith([ok |-> TRUE, rec |-> e.project], Rest(W, q1, m))
          BY <1>3, <5>1 DEF ReadGenesis
        <5>3. StartWith([ok |-> TRUE, rec |-> e.project], Rest(W, q1, m)) = Read(r1, Rest(W, q1, m))
          BY DEF StartWith
        <5> QED BY <4>2, <5>2, <5>3 DEF ReadTo, x
      <4>3. CASE ~(q1 <= m)
        <5>1. x = Truncated
          BY <4>1, <4>3 DEF ReadTo
        <5>2. ReadGenesis(x) = Truncated
          BY <5>1 DEF ReadGenesis, Truncated
        <5> QED BY <4>3, <5>2 DEF ReadTo, x
      <4> QED BY <4>2, <4>3
    <3> HIDE DEF genesis, r1, q1, q2, q3, q4
    <3>0. Nat \subseteq Nat
      OBVIOUS
    <3>3. joined = ReadTo(W, r2, q2, m)
      <4>1. ReadRecords(ReadTo(W, r1, q1, m), "join_requests", WireJoinRequest)
              = ReadTo(W, r2, q1 + Len(EncodeList(WireJoinRequest, e.join_requests)), m)
        BY <1>4, <2>1, <3>0, KnownWireFields, ReadRecordsAt DEF WiredAuthorization, j
      <4> QED BY <3>2, <4>1 DEF q2, j
    <3> HIDE DEF joined, r2
    <3>4. approved = ReadTo(W, r3, q3, m)
      <4>1. ReadRecords(ReadTo(W, r2, q2, m), "approvals", WireApproval)
              = ReadTo(W, r3, q2 + Len(EncodeList(WireApproval, e.approvals)), m)
        BY <1>4, <2>1, <3>0, KnownWireFields, ReadRecordsAt DEF WiredAuthorization, a
      <4> QED BY <3>3, <4>1 DEF q3, a
    <3> HIDE DEF approved, r3
    <3>5. revoked = ReadTo(W, r4, q4, m)
      <4>1. ReadRecords(ReadTo(W, r3, q3, m), "revocations", WireRevocation)
              = ReadTo(W, r4, q3 + Len(EncodeList(WireRevocation, e.revocations)), m)
        BY <1>4, <2>1, <3>0, KnownWireFields, ReadRecordsAt DEF WiredAuthorization, v
      <4> QED BY <3>4, <4>1 DEF q4, v
    <3> HIDE DEF revoked, r4
    <3>6. r4 = e
      <4>1. DOMAIN r1 = {"project"} /\ r1["project"] = e.project
        BY DEF r1
      <4>2. DOMAIN r2 = {"project", "join_requests"} /\ r2["project"] = e.project
            /\ r2["join_requests"] = e.join_requests
        BY <4>1 DEF r2, Extended
      <4>3. DOMAIN r3 = {"project", "join_requests", "approvals"} /\ r3["project"] = e.project
            /\ r3["join_requests"] = e.join_requests /\ r3["approvals"] = e.approvals
        BY <4>2 DEF r3, Extended
      <4>4. r4 = [h \in {"project", "join_requests", "approvals", "revocations"} |->
                    IF h = "revocations" THEN e.revocations ELSE r3[h]]
        BY <4>3 DEF r4, Extended
      <4> DEFINE x == [project |-> e.project, join_requests |-> e.join_requests,
                       approvals |-> e.approvals, revocations |-> e.revocations]
      <4>5. r4 = x
        BY <4>3, <4>4
      <4>6. e = x
        BY DEF WiredAuthorization
      <4> HIDE DEF x
      <4> QED BY <4>5, <4>6
    <3>7. AtEnd(revoked) = Ends(W, e, m)
      BY <1>4, <2>1, <3>5, <3>6, AtEndOf
    <3> QED BY <3>1, <3>7 DEF b
  <2> QED BY <2>4, <2>5
<1> QED BY <1>4, <1>5 DEF W, Bytes

\* An envelope of one list of fields, after its first byte, however much of it
\* arrived.
Framed(W, magic, fields, e) ==
    \A m \in 0..Len(W) :
        /\ SubSeq(W, 1, m) = <<>> <=> m = 0
        /\ m = 0 => m /= Len(W)
        /\ m /= 0 => /\ IsPrefix(magic, SubSeq(W, 1, m))
                     /\ DecodeWire(fields, Tail(SubSeq(W, 1, m))) = Ends(W, e, m)

LEMMA MagicThenFields ==
    ASSUME NEW T, Nat \subseteq T, NEW fields, FieldList(fields), NEW e, Wired(fields, e, T),
           NEW x \in Nat, NEW W, W = <<x>> \o EncodeWire(fields, e)
    PROVE  W \in Seq(T) /\ Framed(W, <<x>>, fields, e)
<1> DEFINE c == EncodeWire(fields, e)
           y == <<x>>
<1>1. c \in Seq(T)
  BY EncodeWireSeq
<1>2. y \in Seq(T) /\ Len(y) = 1
  OBVIOUS
<1>3. W = y \o c
  OBVIOUS
<1> HIDE DEF c, y
<1>4. W \in Seq(T) /\ Len(W) = 1 + Len(c) /\ Len(c) \in Nat
  <2>1. y \o c \in Seq(T) /\ Len(y \o c) = Len(y) + Len(c)
    BY <1>1, <1>2, ConcatProperties, Zenon
  <2>2. Len(c) \in Nat
    BY <1>1
  <2> QED BY <1>2, <1>3, <2>1, <2>2
<1>5. At(W, 0, y) /\ At(W, 1, c)
  <2>1. At(W, 0, W)
    BY <1>4, AtWhole, Zenon
  <2>2. At(W, 0, y) /\ At(W, 0 + Len(y), c)
    <3>1. At(W, 0, y \o c) /\ 0 \in Nat
      BY <1>3, <2>1
    <3> QED BY <1>1, <1>2, <1>4, <3>1, AtParts, Zenon
  <2>3. 0 + Len(y) = 1
    BY <1>2
  <2> QED BY <2>2, <2>3
<1>6. ASSUME NEW m \in 0..Len(W)
      PROVE  /\ SubSeq(W, 1, m) = <<>> <=> m = 0
             /\ m = 0 => m /= Len(W)
             /\ m /= 0 => /\ IsPrefix(y, SubSeq(W, 1, m))
                          /\ DecodeWire(fields, Tail(SubSeq(W, 1, m))) = Ends(W, e, m)
  <2>1. m \in Nat /\ m <= Len(W) /\ (m = 0 => m /= Len(W)) /\ (m /= 0 => 1 <= m)
    BY <1>4
  <2>2. /\ SubSeq(W, 1, m) = <<>> <=> m = 0
        /\ m /= 0 => IsPrefix(y, SubSeq(W, 1, m)) /\ Tail(SubSeq(W, 1, m)) = Rest(W, 1, m)
    <3>1. At(W, 0, <<x>>)
      BY <1>5 DEF y
    <3> QED BY <1>4, <2>1, <3>1, MagicAt DEF y
  <2>3. ASSUME m /= 0 PROVE DecodeWire(fields, Rest(W, 1, m)) = Ends(W, e, m)
    <3>1. 1 \in Nat /\ 1 <= m /\ m \in Nat /\ m <= Len(W) /\ W \in Seq(T)
      BY <1>4, <2>1, <2>3
    <3>2. At(W, 1, EncodeWire(fields, e)) /\ 1 + Len(EncodeWire(fields, e)) = Len(W)
      BY <1>4, <1>5 DEF c
    <3>3. FieldList(fields) /\ Wired(fields, e, T) /\ Nat \subseteq T
      OBVIOUS
    <3>4. PICK p \in Nat : /\ p = 1 /\ p <= m /\ At(W, p, EncodeWire(fields, e))
                           /\ p + Len(EncodeWire(fields, e)) = Len(W)
      BY ONLY <3>1, <3>2
    <3>5. p <= m /\ At(W, p, EncodeWire(fields, e)) /\ p + Len(EncodeWire(fields, e)) = Len(W)
      BY ONLY <3>4
    <3>6. m \in Nat /\ m <= Len(W) /\ W \in Seq(T)
      BY ONLY <3>1
    <3>7. DecodeWire(fields, Rest(W, p, m)) = Ends(W, e, m)
      BY ONLY <3>3, <3>5, <3>6, DecodeWireAt
    <3> QED BY ONLY <3>4, <3>7
  <2> QED BY <2>1, <2>2, <2>3
<1> QED BY <1>4, <1>6 DEF y, Framed

LEMMA KnownRevisionEnvelope == FieldList(WireRevisionEnvelope)
BY SMTT(60) DEF FieldList, WireRevisionEnvelope

LEMMA KnownRelayRequest == FieldList(WireRelayRequest)
BY SMTT(60) DEF FieldList, WireRelayRequest

\* The revision envelope gives what it was written from, and is refused when it
\* ends early, wherever it ends (RelayRevisionEnvelope).
THEOREM RevisionReadsBack ==
    ASSUME NEW T, Nat \subseteq T, NEW e, Wired(WireRevisionEnvelope, e, T)
    PROVE  \A m \in 0..Len(EncodeRevision(e)) :
             DecodeRevision(SubSeq(EncodeRevision(e), 1, m)) = Ends(EncodeRevision(e), e, m)
<1> DEFINE W == EncodeRevision(e)
<1>1. RevisionMagic = <<42>> /\ W = <<42>> \o EncodeWire(WireRevisionEnvelope, e)
  BY DEF RevisionMagic, EncodeRevision
<1> HIDE DEF W
<1>2. \A m \in 0..Len(W) :
        /\ SubSeq(W, 1, m) = <<>> <=> m = 0
        /\ m = 0 => m /= Len(W)
        /\ m /= 0 => /\ IsPrefix(<<42>>, SubSeq(W, 1, m))
                     /\ DecodeWire(WireRevisionEnvelope, Tail(SubSeq(W, 1, m))) = Ends(W, e, m)
  <2>1. 42 \in Nat
    OBVIOUS
  <2>2. Framed(W, <<42>>, WireRevisionEnvelope, e)
    BY <1>1, <2>1, KnownRevisionEnvelope, MagicThenFields
  <2> QED BY <2>2 DEF Framed
<1>3. ASSUME NEW m \in 0..Len(W) PROVE DecodeRevision(SubSeq(W, 1, m)) = Ends(W, e, m)
  <2>1. CASE m = 0
    BY <1>2, <2>1 DEF DecodeRevision, Ends
  <2>2. CASE m /= 0
    BY <1>1, <1>2, <2>2 DEF DecodeRevision
  <2> QED BY <2>1, <2>2
<1> QED BY <1>3 DEF W

\* The signed request gives what it was written from with its authorization
\* decoded, and is refused when it ends early (RelaySignedRequestEnvelope).
THEOREM RequestReadsBack ==
    ASSUME NEW e, WiredAuthorization(e), NEW r, Wired(WireRelayRequest, r, Nat),
           r.authorization = EncodeAuthorization(e)
    PROVE  \A m \in 0..Len(EncodeRequest(r)) :
             DecodeRequest(SubSeq(EncodeRequest(r), 1, m))
               = Ends(EncodeRequest(r), [r EXCEPT !.authorization = e], m)
<1> DEFINE W == EncodeRequest(r)
           d == [r EXCEPT !.authorization = e]
<1>1. RequestMagic = <<43>> /\ W = <<43>> \o EncodeWire(WireRelayRequest, r)
  BY DEF RequestMagic, EncodeRequest
<1> HIDE DEF W
<1>2. \A m \in 0..Len(W) :
        /\ SubSeq(W, 1, m) = <<>> <=> m = 0
        /\ m = 0 => m /= Len(W)
        /\ m /= 0 => /\ IsPrefix(<<43>>, SubSeq(W, 1, m))
                     /\ DecodeWire(WireRelayRequest, Tail(SubSeq(W, 1, m))) = Ends(W, r, m)
  <2>1. 43 \in Nat /\ Nat \subseteq Nat
    OBVIOUS
  <2>2. Framed(W, <<43>>, WireRelayRequest, r)
    BY <1>1, <2>1, KnownRelayRequest, MagicThenFields
  <2> QED BY <2>2 DEF Framed
<1>3. DecodeAuthorization(r.authorization) = [ok |-> TRUE, rec |-> e]
  <2> DEFINE A == EncodeAuthorization(e)
  <2>1. A \in Seq(Nat) /\ \A m \in 0..Len(A) : DecodeAuthorization(SubSeq(A, 1, m)) = Ends(A, e, m)
    BY AuthorizationReadsBack DEF Bytes
  <2> HIDE DEF A
  <2>2. Len(A) \in 0..Len(A) /\ SubSeq(A, 1, Len(A)) = A
    BY <2>1, SubSeqFull
  <2>3. DecodeAuthorization(A) = [ok |-> TRUE, rec |-> e]
    BY <2>1, <2>2 DEF Ends
  <2> QED BY <2>3 DEF A
<1> HIDE DEF d
<1>4. WithDecodedAuthorization([ok |-> TRUE, rec |-> r]) = [ok |-> TRUE, rec |-> d]
  <2> DEFINE a == [ok |-> TRUE, rec |-> e]
             x == [ok |-> TRUE, rec |-> r]
  <2>1. a.ok /\ a.rec = e /\ x.ok /\ x.rec = r /\ DecodeAuthorization(r.authorization) = a
    BY <1>3
  <2> HIDE DEF a, x
  <2>2. WithDecodedAuthorization(x) = WithAuthorization(x, a)
    BY <2>1 DEF WithDecodedAuthorization
  <2>3. WithAuthorization(x, a) = [ok |-> TRUE, rec |-> d]
    BY <2>1 DEF WithAuthorization, d
  <2> QED BY <2>2, <2>3 DEF x
<1>5. WithDecodedAuthorization(Malformed) = Malformed
  BY DEF WithDecodedAuthorization, Malformed
<1>6. ASSUME NEW m \in 0..Len(W) PROVE DecodeRequest(SubSeq(W, 1, m)) = Ends(W, d, m)
  <2>1. CASE m = 0
    BY <1>2, <2>1 DEF DecodeRequest, Ends
  <2>2. CASE m /= 0
    <3>1. DecodeRequest(SubSeq(W, 1, m)) = WithDecodedAuthorization(Ends(W, r, m))
      BY <1>1, <1>2, <2>2 DEF DecodeRequest
    <3> QED BY <1>4, <1>5, <3>1 DEF Ends
  <2> QED BY <2>1, <2>2
<1> QED BY <1>6 DEF W, d

-----------------------------------------------------------------------------
(* What is sent is what an envelope carries as it is.                       *)

LEMMA OctetsIn ==
    ASSUME NEW T, Nat \subseteq T
    PROVE  /\ \A s \in Octets : s \in Seq(T)
           /\ \A v \in Seq(Octets) : v \in Seq(Seq(T))
<1>1. 0..255 \subseteq T
  <2>1. 0..255 \subseteq Nat
    OBVIOUS
  <2> QED BY <2>1
<1>2. Octets \subseteq Seq(T)
  BY <1>1, SeqMonotonic DEF Octets
<1> HIDE DEF Octets
<1>3. Seq(Octets) \subseteq Seq(Seq(T))
  BY <1>2, SeqMonotonic
<1> QED BY <1>2, <1>3

\* A value of the type of its field is carried as it is, but for an empty
\* reason, which arrives as none.
LEMMA TypesAreSendable ==
    ASSUME NEW T, Nat \subseteq T, NEW k \in FieldKinds, NEW v, HasType(k, v),
           k = "optText" => v /= << <<>> >>
    PROVE  Sendable(k, v, T)
<1>1. ParsesValue(k, v)
  BY TypesFit DEF Fits
<1>2. CASE k = "word"
  <2>1. v \in Nat /\ k \notin DOMAIN Inner
    BY <1>2, TypeCases, InnerKinds
  <2> QED BY <1>1, <1>2, <2>1 DEF Sendable
<1>3. CASE k = "u32"
  <2>1. v \in Nat /\ v % U32 = v /\ k \notin DOMAIN Inner
    <3>1. v \in 0..(U32 - 1)
      BY <1>3, TypeCases
    <3> QED BY <1>3, <3>1, U32Assumption, InnerKinds
  <2> QED BY <1>1, <1>3, <2>1 DEF Sendable
<1>4. CASE k \in DOMAIN Inner
  <2>1. v = <<>> \/ (v = <<v[1]>> /\ v[1] \in Octets /\ Parses(Inner[k], v[1]))
    BY <1>4, TypeCases
  <2>2. ASSUME v /= <<>> PROVE v[1] /= <<>>
    <3>1. v = <<v[1]>> /\ Parses(Inner[k], v[1])
      BY <2>1, <2>2
    <3>2. CASE k = "optText"
      BY <3>1, <3>2
    <3>3. CASE k = "optHash"
      <4>1. Len(v[1]) = 1
        BY <3>1, <3>3, InnerKinds, ParsesCases DEF FixedLength, KeyLen
      <4> QED BY <4>1
    <3>4. CASE k \in {"optRevision", "source"}
      <4>1. Inner[k] \in DOMAIN Namespace
        BY <3>4, InnerKinds, IdKinds
      <4>2. ParsesAsId(Inner[k], v[1])
        BY <3>1, <4>1, ParsesCases
      <4>3. Len(v[1]) = 2
        BY <4>2 DEF ParsesAsId
      <4> QED BY <4>3
    <3> QED BY <1>4, <3>2, <3>3, <3>4, InnerKinds
  <2>3. k /= "word" /\ k /= "u32" /\ k /= "environments"
    BY <1>4, InnerKinds
  <2>4. v = <<>> \/ (v = <<v[1]>> /\ v[1] \in Seq(T) /\ v[1] /= <<>>)
    BY <2>1, <2>2, OctetsIn, Zenon
  <2> QED BY <1>1, <1>4, <2>3, <2>4, Zenon DEF Sendable
<1>5. CASE k = "environments"
  <2>1. v \in Seq(Seq(T)) /\ k \notin DOMAIN Inner
    <3>1. v \in Seq(Octets)
      BY <1>5, TypeCases
    <3> HIDE DEF Octets
    <3> QED BY <1>5, <3>1, OctetsIn, InnerKinds
  <2> QED BY <1>1, <1>5, <2>1 DEF Sendable
<1>6. CASE k \notin {"word", "u32", "environments"} \cup DOMAIN Inner
  <2>1. v \in Seq(T)
    <3>1. v \in Octets
      BY <1>6, TypeCases
    <3> QED BY <3>1, OctetsIn, Zenon
  <2> QED BY <1>1, <1>6, <2>1 DEF Sendable
<1> QED BY <1>2, <1>3, <1>4, <1>5, <1>6

LEMMA PlainIsSendable ==
    ASSUME NEW T, NEW k \in {"bytes", "nonce", "text"}, NEW v \in Seq(T)
    PROVE  Sendable(k, v, T)
<1>1. k \notin {"word", "u32", "environments"} \cup DOMAIN Inner
  BY InnerKinds
<1>2. ParsesValue(k, v)
  BY <1>1, ParsesValueCases, ParsesCases, IdKinds DEF FixedLength
<1> QED BY <1>1, <1>2, Zenon DEF Sendable

LEMMA WireLists ==
    /\ WireProjectGenesis = FieldsOf("project") /\ WireJoinRequest = FieldsOf("join")
    /\ WireApproval = FieldsOf("approval") /\ WireRevocation = FieldsOf("revocation")
BY KindFields DEF WireProjectGenesis, TomlProjectGenesis, WireJoinRequest, TomlJoinRequest,
       WireApproval, TomlApproval, WireRevocation, TomlRevocation

LEMMA OnlyReasonsAreOptional ==
    ASSUME NEW k \in Enveloped, NEW i \in 1..Len(FieldsOf(k)), FieldsOf(k)[i][2] = "optText"
    PROVE  k = "revocation" /\ FieldsOf(k)[i][1] = "reason_optional"
<1>1. \A j \in 1..Len(TomlProjectGenesis) : TomlProjectGenesis[j][2] /= "optText"
  BY SMTT(60) DEF TomlProjectGenesis
<1>2. \A j \in 1..Len(TomlJoinRequest) : TomlJoinRequest[j][2] /= "optText"
  BY SMTT(60) DEF TomlJoinRequest
<1>3. \A j \in 1..Len(TomlApproval) : TomlApproval[j][2] /= "optText"
  BY SMTT(60) DEF TomlApproval
<1>4. \A j \in 1..Len(TomlRevocation) :
        TomlRevocation[j][2] = "optText" => TomlRevocation[j][1] = "reason_optional"
  BY SMTT(60) DEF TomlRevocation
<1> QED BY <1>1, <1>2, <1>3, <1>4, KindFields DEF Enveloped

\* A record that an authorization may carry.
MayTravel(k, r) == IsRecord(k, r) /\ (k = "revocation" => r.reason_optional /= << <<>> >>)

LEMMA RecordIsWired ==
    ASSUME NEW k \in Enveloped, NEW r, MayTravel(k, r)
    PROVE  Wired(FieldsOf(k), r, Nat)
<1>1. k \in Kinds
  BY KindNames DEF Enveloped, TomlKinds
<1>2. DOMAIN FieldsOf(k) = 1..Len(FieldsOf(k)) /\ \A i \in 1..Len(FieldsOf(k)) : FieldsOf(k)[i][2] \in FieldKinds
  BY <1>1, KindsAreKnown DEF KnownFields, FieldList
<1>3. /\ r = [f \in FieldNames(FieldsOf(k)) |-> r[f]]
      /\ \A i \in 1..Len(FieldsOf(k)) : HasType(FieldsOf(k)[i][2], r[FieldsOf(k)[i][1]])
  BY <1>2 DEF MayTravel, IsRecord, FieldNames
<1>4. ASSUME NEW i \in 1..Len(FieldsOf(k)) PROVE Sendable(FieldsOf(k)[i][2], r[FieldsOf(k)[i][1]], Nat)
  <2> DEFINE t == FieldsOf(k)[i][2]
             v == r[FieldsOf(k)[i][1]]
  <2>1. t \in FieldKinds /\ HasType(t, v)
    BY <1>2, <1>3
  <2>2. t = "optText" => v /= << <<>> >>
    BY OnlyReasonsAreOptional DEF MayTravel
  <2> HIDE DEF t, v
  <2>3. Sendable(t, v, Nat)
    BY <2>1, <2>2, TypesAreSendable
  <2> QED BY <2>3 DEF t, v
<1> QED BY <1>3, <1>4, Zenon DEF Wired

LEMMA ShortLists ==
    ASSUME NEW fields, NEW T
    PROVE  /\ WiredList(fields, <<>>, T)
           /\ \A r : Wired(fields, r, T) => WiredList(fields, <<r>>, T)
           /\ \A q, r : Wired(fields, q, T) /\ Wired(fields, r, T) => WiredList(fields, <<q, r>>, T)
<1>1. WiredList(fields, <<>>, T)
  <2>1. Len(<<>>) = 0 /\ DOMAIN <<>> = 1..0 /\ <<>> = [i \in 1..0 |-> <<>>[i]]
    OBVIOUS
  <2> QED BY <2>1 DEF WiredList
<1>2. ASSUME NEW r, Wired(fields, r, T) PROVE WiredList(fields, <<r>>, T)
  <2>1. Len(<<r>>) = 1 /\ DOMAIN <<r>> = 1..1 /\ <<r>> = [i \in 1..1 |-> <<r>>[i]]
    OBVIOUS
  <2>2. \A i \in 1..1 : Wired(fields, <<r>>[i], T)
    BY <1>2
  <2> QED BY <2>1, <2>2 DEF WiredList
<1>3. ASSUME NEW q, NEW r, Wired(fields, q, T), Wired(fields, r, T) PROVE WiredList(fields, <<q, r>>, T)
  <2>1. Len(<<q, r>>) = 2 /\ DOMAIN <<q, r>> = 1..2 /\ <<q, r>> = [i \in 1..2 |-> <<q, r>>[i]]
    OBVIOUS
  <2>2. \A i \in 1..2 : i = 1 \/ i = 2
    OBVIOUS
  <2>3. \A i \in 1..2 : Wired(fields, <<q, r>>[i], T)
    BY <1>3, <2>2
  <2> QED BY <2>1, <2>3 DEF WiredList
<1> QED BY <1>1, <1>2, <1>3

LEMMA ChosenRecord ==
    ASSUME NEW k, NEW r \in SignableRecords(k)
    PROVE  SomeRecord(k) \in SignableRecords(k)
BY DEF SomeRecord

LEMMA TheProject ==
    /\ SomeRecord("project") \in SignableRecords("project")
    /\ MayTravel("project", SomeRecord("project"))
<1>1. PICK r : r \in SignableRecords("project")
  BY RecordsAssumption, Zenon
<1>2. SomeRecord("project") \in SignableRecords("project") /\ "project" \in Kinds
  BY <1>1, ChosenRecord, KindNames DEF TomlKinds
<1> QED BY <1>2, SignableFits DEF MayTravel

\* The authorization that a record travels in.
LEMMA EnvelopeIsWired ==
    ASSUME kind \in Enveloped, NEW r \in SignableRecords(kind), MayTravel(kind, r)
    PROVE  WiredAuthorization(Authorization(r))
<1> DEFINE e == Authorization(r)
<1>1. /\ e.project = IF kind = "project" THEN r ELSE SomeRecord("project")
      /\ e.join_requests = IF kind = "join" THEN <<r>> ELSE <<>>
      /\ e.approvals = IF kind = "approval" THEN <<SomeRecord("approval"), r>> ELSE <<>>
      /\ e.revocations = IF kind = "revocation" THEN <<r>> ELSE <<>>
      /\ e = [project |-> e.project, join_requests |-> e.join_requests,
              approvals |-> e.approvals, revocations |-> e.revocations]
  BY DEF Authorization
<1> HIDE DEF e
<1>2. Wired(FieldsOf(kind), r, Nat)
  BY RecordIsWired
<1>3. Wired(WireProjectGenesis, e.project, Nat)
  <2>1. Wired(FieldsOf("project"), SomeRecord("project"), Nat)
    BY TheProject, RecordIsWired DEF Enveloped
  <2> QED BY <1>1, <1>2, <2>1, WireLists
<1>4. WiredList(WireJoinRequest, e.join_requests, Nat)
  <2>1. CASE kind = "join"
    BY <1>1, <1>2, <2>1, WireLists, ShortLists
  <2>2. CASE kind /= "join"
    BY <1>1, <2>2, ShortLists
  <2> QED BY <2>1, <2>2
<1>5. WiredList(WireApproval, e.approvals, Nat)
  <2>1. CASE kind = "approval"
    <3> DEFINE q == SomeRecord("approval")
    <3>1. q \in SignableRecords("approval") /\ "approval" \in Kinds
      BY <2>1, ChosenRecord, KindNames DEF TomlKinds
    <3>2. MayTravel("approval", q)
      BY <3>1, SignableFits DEF MayTravel
    <3> HIDE DEF q
    <3>3. Wired(FieldsOf("approval"), q, Nat)
      BY <3>2, RecordIsWired DEF Enveloped
    <3>4. Wired(WireApproval, q, Nat) /\ Wired(WireApproval, r, Nat)
      BY <1>2, <2>1, <3>3, WireLists
    <3>5. WiredList(WireApproval, <<q, r>>, Nat)
      BY <3>4, ShortLists
    <3> QED BY <1>1, <2>1, <3>5 DEF q
  <2>2. CASE kind /= "approval"
    BY <1>1, <2>2, ShortLists
  <2> QED BY <2>1, <2>2
<1>6. WiredList(WireRevocation, e.revocations, Nat)
  <2>1. CASE kind = "revocation"
    BY <1>1, <1>2, <2>1, WireLists, ShortLists
  <2>2. CASE kind /= "revocation"
    BY <1>1, <2>2, ShortLists
  <2> QED BY <2>1, <2>2
<1>7. WiredAuthorization(e)
  BY <1>1, <1>3, <1>4, <1>5, <1>6, Zenon DEF WiredAuthorization
<1> QED BY <1>7 DEF e

\* The authorization that a request carries, whose genesis has the hash in the
\* place of its signature.
LEMMA AuthorizedIsWired ==
    ASSUME kind = "request", NEW h, HasType("hash", h)
    PROVE  WiredAuthorization(Authorized(h)) /\ Authorized(h).project.signature = h
<1> DEFINE q == SomeRecord("project")
           p == [q EXCEPT !.signature = h]
           e == Authorized(h)
<1>1. /\ e.project = p /\ e.join_requests = <<>> /\ e.approvals = <<>> /\ e.revocations = <<>>
      /\ e = [project |-> p, join_requests |-> <<>>, approvals |-> <<>>, revocations |-> <<>>]
  <2>1. Authorization(q) = [project |-> q, join_requests |-> <<>>, approvals |-> <<>>, revocations |-> <<>>]
    BY DEF Authorization
  <2> HIDE DEF q
  <2>2. [Authorization(q) EXCEPT !.project.signature = h]
          = [project |-> p, join_requests |-> <<>>, approvals |-> <<>>, revocations |-> <<>>]
    BY <2>1
  <2>3. e = [project |-> p, join_requests |-> <<>>, approvals |-> <<>>, revocations |-> <<>>]
    BY <2>2 DEF q, Authorized
  <2> HIDE DEF e, p
  <2> QED BY <2>3
<1>2. IsRecord("project", q)
  BY TheProject DEF MayTravel
<1> HIDE DEF q
<1>3. /\ DOMAIN FieldsOf("project") = 1..10
      /\ \A i \in 1..10 : FieldsOf("project")[i][1] = "signature" => FieldsOf("project")[i][2] = "sig"
      /\ FieldsOf("project")[10][1] = "signature"
  BY KindFields, SMTT(60) DEF TomlProjectGenesis
<1>4. HasType("sig", h)
  <2>1. h \in Octets /\ Parses("hash", h)
    BY TypeCases, InnerKinds
  <2>2. Parses("sig", h)
    BY <2>1, ParsesCases DEF FixedLength
  <2> QED BY <2>1, <2>2, TypeCases, InnerKinds
<1>5. IsRecord("project", p) /\ p.signature = h
  <2> DEFINE fields == FieldsOf("project")
             names == {fields[i][1] : i \in DOMAIN fields}
  <2>1. q = [f \in names |-> q[f]] /\ \A i \in DOMAIN fields : HasType(fields[i][2], q[fields[i][1]])
    BY <1>2 DEF IsRecord
  <2>2. "signature" \in names /\ \A i \in DOMAIN fields : fields[i][1] \in names
    BY <1>3
  <2>3. \A i \in DOMAIN fields : fields[i][1] = "signature" => HasType(fields[i][2], h)
    BY <1>3, <1>4
  <2> HIDE DEF fields, names
  <2>4. p = [f \in names |-> IF f = "signature" THEN h ELSE q[f]]
    BY <2>1
  <2> HIDE DEF p
  <2>5. p = [f \in names |-> p[f]] /\ p.signature = h
    BY <2>2, <2>4
  <2>6. \A i \in DOMAIN fields : HasType(fields[i][2], p[fields[i][1]])
    BY <2>1, <2>2, <2>3, <2>4
  <2> QED BY <2>5, <2>6 DEF IsRecord, fields, names
<1> HIDE DEF p, e
<1>6. Wired(WireProjectGenesis, p, Nat)
  BY <1>5, RecordIsWired, WireLists DEF MayTravel, Enveloped
<1>7. WiredAuthorization(e)
  BY <1>1, <1>6, ShortLists DEF WiredAuthorization
<1> QED BY <1>1, <1>5, <1>7 DEF e

LEMMA FieldType ==
    ASSUME NEW k, NEW r, IsRecord(k, r), NEW i \in DOMAIN FieldsOf(k)
    PROVE  HasType(FieldsOf(k)[i][2], r[FieldsOf(k)[i][1]])
BY DEF IsRecord

LEMMA RevisionTypes ==
    ASSUME NEW r, IsRecord("revision", r)
    PROVE  /\ HasType("project", r.project_id) /\ HasType("environment", r.environment_id)
           /\ HasType("revision", r.revision_id) /\ HasType("optRevision", r.parent_revision_id)
<1>1. /\ {1, 2, 3, 4} \subseteq DOMAIN TomlRevision
      /\ TomlRevision[1] = <<"revision_id", "revision">> /\ TomlRevision[2] = <<"project_id", "project">>
      /\ TomlRevision[3] = <<"environment_id", "environment">>
      /\ TomlRevision[4] = <<"parent_revision_id", "optRevision">>
  BY DEF TomlRevision
<1>2. \A i \in {1, 2, 3, 4} : HasType(TomlRevision[i][2], r[TomlRevision[i][1]])
  BY <1>1, FieldType, KindFields
<1> QED BY <1>1, <1>2

\* The revision envelope carries the identifiers of the revision and its file.
LEMMA RevisionIsWired ==
    ASSUME NEW r, IsRecord("revision", r)
    PROVE  Wired(WireRevisionEnvelope, RevisionEnvelope(r), Nat \cup {file})
<1> DEFINE e == RevisionEnvelope(r)
           T == Nat \cup {file}
           w == WireRevisionEnvelope
<1>1. /\ e.project_id = r.project_id /\ e.environment_id = r.environment_id
      /\ e.revision_id = r.revision_id /\ e.parent_revision_id = r.parent_revision_id
      /\ e.revision_metadata = <<file>> /\ e.encrypted_payload = <<1, 1>>
      /\ DOMAIN e = {"project_id", "environment_id", "revision_id", "parent_revision_id",
                     "revision_metadata", "encrypted_payload"}
      /\ e = [f \in DOMAIN e |-> e[f]]
  BY DEF RevisionEnvelope
<1>2. /\ DOMAIN w = 1..6 /\ Len(w) = 6
      /\ w[1] = <<"project_id", "project">> /\ w[2] = <<"environment_id", "environment">>
      /\ w[3] = <<"revision_id", "revision">> /\ w[4] = <<"parent_revision_id", "optRevision">>
      /\ w[5] = <<"revision_metadata", "bytes">> /\ w[6] = <<"encrypted_payload", "bytes">>
  BY DEF WireRevisionEnvelope
<1>3. Nat \subseteq T /\ <<file>> \in Seq(T) /\ <<1, 1>> \in Seq(T)
  OBVIOUS
<1> HIDE DEF e, T, w
<1>4. /\ Sendable("project", e.project_id, T) /\ Sendable("environment", e.environment_id, T)
      /\ Sendable("revision", e.revision_id, T) /\ Sendable("optRevision", e.parent_revision_id, T)
  <2>1. {"project", "environment", "revision", "optRevision"} \subseteq FieldKinds
    BY KindsOfFields
  <2>2. \A k \in {"project", "environment", "revision", "optRevision"} : \A v : HasType(k, v) => Sendable(k, v, T)
    BY <1>3, <2>1, TypesAreSendable
  <2> QED BY <1>1, <2>2, RevisionTypes
<1>5. Sendable("bytes", e.revision_metadata, T) /\ Sendable("bytes", e.encrypted_payload, T)
  BY <1>1, <1>3, PlainIsSendable
<1>6. FieldNames(w) = DOMAIN e
  <2>1. \A i \in 1..6 : i = 1 \/ i = 2 \/ i = 3 \/ i = 4 \/ i = 5 \/ i = 6
    OBVIOUS
  <2>2. FieldNames(w) = {w[i][1] : i \in 1..6}
    BY <1>2 DEF FieldNames
  <2> QED BY <1>1, <1>2, <2>1, <2>2
<1>7. \A i \in 1..Len(w) : Sendable(w[i][2], e[w[i][1]], T)
  <2>1. \A i \in 1..6 : i = 1 \/ i = 2 \/ i = 3 \/ i = 4 \/ i = 5 \/ i = 6
    OBVIOUS
  <2> QED BY <1>2, <1>4, <1>5, <2>1
<1>8. Wired(w, e, T)
  BY <1>1, <1>6, <1>7 DEF Wired
<1> QED BY <1>8 DEF w, e, T

LEMMA RequestTypes ==
    ASSUME NEW r, IsRecord("request", r)
    PROVE  /\ HasType("text", r.method) /\ HasType("text", r.path) /\ HasType("device", r.device_id)
           /\ HasType("word", r.created_at) /\ HasType("nonce", r.nonce)
           /\ HasType("hash", r.authorization_hash) /\ HasType("bytes", r.payload)
<1> DEFINE w == SignedRelayRequest
<1>1. /\ DOMAIN w = 1..7
      /\ w[1] = <<"method", "text">> /\ w[2] = <<"path", "text">> /\ w[3] = <<"device_id", "device">>
      /\ w[4] = <<"created_at", "word">> /\ w[5] = <<"nonce", "nonce">>
      /\ w[6] = <<"authorization_hash", "hash">> /\ w[7] = <<"payload", "bytes">>
  BY DEF SignedRelayRequest
<1>2. \A i \in 1..7 : HasType(w[i][2], r[w[i][1]])
  BY <1>1, FieldType, KindFields
<1> HIDE DEF w
<1>3. {1, 2, 3, 4, 5, 6, 7} \subseteq 1..7
  OBVIOUS
<1> QED BY <1>1, <1>2, <1>3

\* The envelope of a request carries its fields and its authorization.
LEMMA RequestIsWired ==
    ASSUME kind = "request", NEW r, IsRecord("request", r)
    PROVE  Wired(WireRelayRequest, RequestEnvelope(r), Nat)
<1> DEFINE e == RequestEnvelope(r)
           w == WireRelayRequest
<1>1. /\ e.device_id = r.device_id /\ e.signing_public_key = <<1>> /\ e.created_at = r.created_at
      /\ e.nonce = r.nonce /\ e.signature = <<1>> /\ e.payload = r.payload
      /\ e.authorization = EncodeAuthorization(Authorized(r.authorization_hash))
      /\ DOMAIN e = {"device_id", "signing_public_key", "created_at", "nonce", "signature",
                     "authorization", "payload"}
      /\ e = [f \in DOMAIN e |-> e[f]]
  BY DEF RequestEnvelope
<1>2. /\ DOMAIN w = 1..7 /\ Len(w) = 7
      /\ w[1] = <<"device_id", "device">> /\ w[2] = <<"signing_public_key", "key">>
      /\ w[3] = <<"created_at", "word">> /\ w[4] = <<"nonce", "nonce">> /\ w[5] = <<"signature", "sig">>
      /\ w[6] = <<"authorization", "bytes">> /\ w[7] = <<"payload", "bytes">>
  BY DEF WireRelayRequest
<1> HIDE DEF e, w
<1>3. {"device", "key", "word", "nonce", "sig", "bytes"} \subseteq FieldKinds
  BY KindsOfFields
<1>4. \A k \in {"device", "key", "word", "nonce", "sig", "bytes"} : \A v : HasType(k, v) => Sendable(k, v, Nat)
  BY <1>3, TypesAreSendable
<1>5. HasType("key", <<1>>) /\ HasType("sig", <<1>>)
  <2>1. <<1>> \in Octets
    BY DEF Octets
  <2>2. Parses("key", <<1>>) /\ Parses("sig", <<1>>)
    BY ParsesCases DEF FixedLength, KeyLen
  <2> QED BY <2>1, <2>2, TypeCases, InnerKinds
<1>6. Sendable("bytes", e.authorization, Nat)
  <2>1. EncodeAuthorization(Authorized(r.authorization_hash)) \in Seq(Nat)
    BY RequestTypes, AuthorizedIsWired, AuthorizationReadsBack DEF Bytes
  <2> QED BY <1>1, <2>1, PlainIsSendable
<1>7. FieldNames(w) = DOMAIN e
  <2>1. \A i \in 1..7 : i = 1 \/ i = 2 \/ i = 3 \/ i = 4 \/ i = 5 \/ i = 6 \/ i = 7
    OBVIOUS
  <2>2. FieldNames(w) = {w[i][1] : i \in 1..7}
    BY <1>2 DEF FieldNames
  <2> QED BY <1>1, <1>2, <2>1, <2>2
<1>8. \A i \in 1..Len(w) : Sendable(w[i][2], e[w[i][1]], Nat)
  <2>1. \A i \in 1..7 : i = 1 \/ i = 2 \/ i = 3 \/ i = 4 \/ i = 5 \/ i = 6 \/ i = 7
    OBVIOUS
  <2>2. /\ Sendable("device", e.device_id, Nat) /\ Sendable("key", e.signing_public_key, Nat)
        /\ Sendable("word", e.created_at, Nat) /\ Sendable("nonce", e.nonce, Nat)
        /\ Sendable("sig", e.signature, Nat) /\ Sendable("bytes", e.payload, Nat)
    BY <1>1, <1>4, <1>5, RequestTypes
  <2> QED BY <1>2, <1>6, <2>1, <2>2
<1>9. Wired(w, e, Nat)
  BY <1>1, <1>7, <1>8 DEF Wired
<1> QED BY <1>9 DEF w, e

-----------------------------------------------------------------------------
(* The invariant of a message: it is the whole envelope of the record that  *)
(* was signed, or a beginning of it.                                        *)

WholeMessage ==
    IF kind = "revision" THEN EncodeRevision(RevisionEnvelope(signed))
    ELSE IF kind = "request" THEN EncodeRequest(RequestEnvelope(signed))
    ELSE EncodeAuthorization(Authorization(signed))

MessageHolds ==
    stage \in {"sent", "cut"} =>
        /\ kind \in Enveloped \cup {"revision", "request"}
        /\ kind = "revision" => file \in WrittenFiles(kind, signed, readers)
        /\ stage = "sent" => message = WholeMessage
        /\ stage = "cut" => \E n \in 0..(Len(WholeMessage) - 1) : message = SubSeq(WholeMessage, 1, n)

MessageInv == MessageHolds /\ RelayVerifiesWhatWasSigned

\* What is known of the record once it is sent.
LEMMA SentMayTravel ==
    ASSUME NoEmptyReason, RecordInv, stage /= "new"
    PROVE  MayTravel(kind, signed)
<1>1. kind \in Kinds /\ signed \in SignableRecords(kind)
  BY DEF RecordInv
<1> QED BY <1>1, SignableFits DEF MayTravel, NoEmptyReason

LEMMA SameMessage ==
    ASSUME UNCHANGED <<kind, signed, readers, file>>
    PROVE  /\ WholeMessage' = WholeMessage
           /\ WrittenFiles(kind, signed, readers)' = WrittenFiles(kind, signed, readers)
<1>1. WholeMessage' = WholeMessage
  BY DEF WholeMessage, RevisionEnvelope, RequestEnvelope, Authorized, Authorization
<1> QED BY <1>1, SameFile

LEMMA SendsTheWhole ==
    ASSUME RecordInv, Send \/ SendRequest
    PROVE  MessageInv'
<1>1. UNCHANGED <<kind, signed, readers, file>> /\ stage' = "sent"
  BY DEF Send, SendRequest
<1>2. RelayVerifiesWhatWasSigned'
  BY <1>1 DEF RelayVerifiesWhatWasSigned
<1>3. /\ kind \in Enveloped \cup {"revision", "request"}
      /\ kind = "revision" => file \in WrittenFiles(kind, signed, readers)
      /\ message' = WholeMessage
  <2>1. CASE Send
    <3>1. /\ stage = "loaded" /\ result = [ok |-> TRUE, rec |-> signed]
          /\ file \in WrittenFiles(kind, signed, readers)
      BY <2>1 DEF Send, RecordInv, LoadedIsWhatWasSigned, FileHolds
    <3>2. \/ kind \in Enveloped /\ message' = EncodeAuthorization(Authorization(signed))
          \/ kind = "revision" /\ message' = EncodeRevision(RevisionEnvelope(signed))
      BY <2>1, <3>1 DEF Send
    <3> QED BY <3>1, <3>2 DEF WholeMessage, Enveloped
  <2>2. CASE SendRequest
    BY <2>2 DEF SendRequest, WholeMessage
  <2> QED BY <2>1, <2>2
<1> QED BY <1>1, <1>2, <1>3, SameMessage DEF MessageInv, MessageHolds

LEMMA CutIsABeginning ==
    ASSUME MessageInv, Cut
    PROVE  MessageInv'
<1>1. /\ UNCHANGED <<kind, signed, readers, file>> /\ stage = "sent" /\ stage' = "cut"
      /\ \E n \in 0..(Len(message) - 1) : message' = SubSeq(message, 1, n)
  BY DEF Cut
<1>2. RelayVerifiesWhatWasSigned'
  BY <1>1 DEF RelayVerifiesWhatWasSigned
<1>3. /\ kind \in Enveloped \cup {"revision", "request"}
      /\ kind = "revision" => file \in WrittenFiles(kind, signed, readers)
      /\ message = WholeMessage
  BY <1>1 DEF MessageInv, MessageHolds
<1> QED BY <1>1, <1>2, <1>3, SameMessage DEF MessageInv, MessageHolds

\* What is read from a whole message and from one that ends early.
LEMMA WholeOrMalformed ==
    ASSUME NEW T, NEW W \in Seq(T), NEW v
    PROVE  /\ Len(W) \in 0..Len(W) /\ SubSeq(W, 1, Len(W)) = W
           /\ Ends(W, v, Len(W)) = [ok |-> TRUE, rec |-> v]
           /\ \A n \in 0..(Len(W) - 1) : n \in 0..Len(W) /\ Ends(W, v, n) = Malformed
<1>1. Len(W) \in Nat /\ SubSeq(W, 1, Len(W)) = W
  BY SubSeqFull
<1>2. \A l \in Nat : l \in 0..l /\ \A n \in 0..(l - 1) : n \in 0..l /\ n /= l
  OBVIOUS
<1>3. Len(W) \in 0..Len(W) /\ \A n \in 0..(Len(W) - 1) : n \in 0..Len(W) /\ n /= Len(W)
  BY <1>1, <1>2
<1> QED BY <1>1, <1>3, Zenon DEF Ends

LEMMA MessageReads ==
    ASSUME NoEmptyReason, RecordInv, stage /= "new", kind \in Enveloped \cup {"revision", "request"}
    PROVE  LET W == WholeMessage IN
           /\ kind = "revision" =>
                /\ DecodeRevision(W) = [ok |-> TRUE, rec |-> RevisionEnvelope(signed)]
                /\ \A n \in 0..(Len(W) - 1) : DecodeRevision(SubSeq(W, 1, n)) = Malformed
           /\ kind = "request" =>
                /\ DecodeRequest(W) =
                     [ok |-> TRUE, rec |-> [RequestEnvelope(signed) EXCEPT
                                              !.authorization = Authorized(signed.authorization_hash)]]
                /\ \A n \in 0..(Len(W) - 1) : DecodeRequest(SubSeq(W, 1, n)) = Malformed
           /\ kind \in Enveloped =>
                /\ DecodeAuthorization(W) = [ok |-> TRUE, rec |-> Authorization(signed)]
                /\ \A n \in 0..(Len(W) - 1) : DecodeAuthorization(SubSeq(W, 1, n)) = Malformed
<1> DEFINE W == WholeMessage
<1>1. IsRecord(kind, signed) /\ MayTravel(kind, signed) /\ signed \in SignableRecords(kind)
  BY SentMayTravel DEF MayTravel, RecordInv
<1>2. ASSUME kind = "revision"
      PROVE  /\ DecodeRevision(W) = [ok |-> TRUE, rec |-> RevisionEnvelope(signed)]
             /\ \A n \in 0..(Len(W) - 1) : DecodeRevision(SubSeq(W, 1, n)) = Malformed
  <2> DEFINE e == RevisionEnvelope(signed)
             T == Nat \cup {file}
  <2>1. Nat \subseteq T /\ Wired(WireRevisionEnvelope, e, T) /\ W = EncodeRevision(e)
    BY <1>1, <1>2, RevisionIsWired DEF WholeMessage
  <2> HIDE DEF e, T, W
  <2>2. W \in Seq(T)
    BY <2>1, KnownRevisionEnvelope, MagicThenFields DEF EncodeRevision, RevisionMagic
  <2>3. \A m \in 0..Len(W) : DecodeRevision(SubSeq(W, 1, m)) = Ends(W, e, m)
    BY <2>1, RevisionReadsBack
  <2>4. DecodeRevision(W) = [ok |-> TRUE, rec |-> e]
    BY <2>2, <2>3, WholeOrMalformed
  <2>5. \A n \in 0..(Len(W) - 1) : DecodeRevision(SubSeq(W, 1, n)) = Malformed
    BY <2>2, <2>3, WholeOrMalformed
  <2> QED BY <2>4, <2>5 DEF e
<1>3. ASSUME kind = "request"
      PROVE  /\ DecodeRequest(W) =
                  [ok |-> TRUE, rec |-> [RequestEnvelope(signed) EXCEPT
                                           !.authorization = Authorized(signed.authorization_hash)]]
             /\ \A n \in 0..(Len(W) - 1) : DecodeRequest(SubSeq(W, 1, n)) = Malformed
  <2> DEFINE r == RequestEnvelope(signed)
             e == Authorized(signed.authorization_hash)
             d == [r EXCEPT !.authorization = e]
  <2>1. Wired(WireRelayRequest, r, Nat) /\ WiredAuthorization(e) /\ W = EncodeRequest(r)
    BY <1>1, <1>3, RequestIsWired, RequestTypes, AuthorizedIsWired DEF WholeMessage
  <2>2. r.authorization = EncodeAuthorization(e)
    BY DEF RequestEnvelope
  <2> HIDE DEF e, r, W
  <2>3. W \in Seq(Nat)
    BY <2>1, KnownRelayRequest, MagicThenFields DEF EncodeRequest, RequestMagic
  <2>4. \A m \in 0..Len(W) : DecodeRequest(SubSeq(W, 1, m)) = Ends(W, d, m)
    BY <2>1, <2>2, RequestReadsBack
  <2> HIDE DEF d
  <2>5. DecodeRequest(W) = [ok |-> TRUE, rec |-> d]
    BY <2>3, <2>4, WholeOrMalformed
  <2>6. \A n \in 0..(Len(W) - 1) : DecodeRequest(SubSeq(W, 1, n)) = Malformed
    BY <2>3, <2>4, WholeOrMalformed
  <2> QED BY <2>5, <2>6 DEF d, r, e
<1>4. ASSUME kind \in Enveloped
      PROVE  /\ DecodeAuthorization(W) = [ok |-> TRUE, rec |-> Authorization(signed)]
             /\ \A n \in 0..(Len(W) - 1) : DecodeAuthorization(SubSeq(W, 1, n)) = Malformed
  <2> DEFINE e == Authorization(signed)
  <2>1. WiredAuthorization(e) /\ W = EncodeAuthorization(e)
    BY <1>1, <1>4, EnvelopeIsWired DEF WholeMessage, Enveloped
  <2> HIDE DEF e, W
  <2>2. W \in Seq(Nat) /\ \A m \in 0..Len(W) : DecodeAuthorization(SubSeq(W, 1, m)) = Ends(W, e, m)
    BY <2>1, AuthorizationReadsBack DEF Bytes
  <2>3. DecodeAuthorization(W) = [ok |-> TRUE, rec |-> e]
    BY <2>2, WholeOrMalformed
  <2>4. \A n \in 0..(Len(W) - 1) : DecodeAuthorization(SubSeq(W, 1, n)) = Malformed
    BY <2>2, WholeOrMalformed
  <2> QED BY <2>3, <2>4 DEF e
<1> QED BY <1>2, <1>3, <1>4

\* What came with a request and what the relay derives again: the record of
\* which the signature is checked.
Received(r, method, path) ==
    [method |-> method, path |-> path, device_id |-> r.device_id, created_at |-> r.created_at,
     nonce |-> r.nonce, payload |-> r.payload, authorization_hash |-> r.authorization_hash]

\* The request is verified as the record that was signed, for the method and
\* the path that it came with.
LEMMA RequestVerifies ==
    ASSUME RecordInv, stage /= "new", kind = "request",
           NEW m \in SignableRecords("request"), NEW p \in SignableRecords("request"),
           NEW e, e = [RequestEnvelope(signed) EXCEPT !.authorization = Authorized(signed.authorization_hash)]
    PROVE  LET x == Received(signed, m.method, p.path)
               got == ReceiveRequest([ok |-> TRUE, rec |-> e], m.method, p.path) IN
           /\ got.ok /\ got.rec = x
           /\ got.verified <=> Covered("request", x) = Covered("request", signed)
           /\ [x EXCEPT !.method = signed.method, !.path = signed.path] = signed
<1> DEFINE x == Received(signed, m.method, p.path)
           in == [ok |-> TRUE, rec |-> e]
<1>1. /\ "request" \in Kinds /\ signed \in SignableRecords("request")
      /\ IsRecord("request", signed) /\ IsRecord("request", m) /\ IsRecord("request", p)
  BY SignableFits DEF RecordInv
<1>2. Len(signed.nonce) >= KeyLen
  BY <1>1, RecordsAssumption, Zenon
<1>3. AuthorizationHash(Authorized(signed.authorization_hash)) = signed.authorization_hash
  <2> DEFINE h == signed.authorization_hash
  <2>1. HasType("hash", h)
    BY <1>1, RequestTypes
  <2> HIDE DEF h
  <2>2. Authorized(h).project.signature = h
    BY <2>1, AuthorizedIsWired
  <2>3. AuthorizationHash(Authorized(h)) = h
    BY <2>2, Zenon DEF AuthorizationHash
  <2> QED BY <2>3 DEF h
<1>4. /\ e.device_id = signed.device_id /\ e.created_at = signed.created_at /\ e.nonce = signed.nonce
      /\ e.payload = signed.payload /\ e.authorization = Authorized(signed.authorization_hash)
  <2> DEFINE r == RequestEnvelope(signed)
  <2>1. /\ r.device_id = signed.device_id /\ r.created_at = signed.created_at /\ r.nonce = signed.nonce
        /\ r.payload = signed.payload
        /\ DOMAIN r = {"device_id", "signing_public_key", "created_at", "nonce", "signature",
                       "authorization", "payload"}
    BY DEF RequestEnvelope
  <2> HIDE DEF r
  <2>2. e = [r EXCEPT !.authorization = Authorized(signed.authorization_hash)]
    BY DEF r
  <2> QED BY <2>1, <2>2
<1>5. ReceiveRequest(in, m.method, p.path) = VerifyRequest(x)
  <2>1. in.ok /\ in.rec = e
    OBVIOUS
  <2> HIDE DEF in
  <2> QED BY <1>3, <1>4, <2>1 DEF ReceiveRequest, Received
<1>6. IsRecord("request", x)
  <2> DEFINE fields == FieldsOf("request")
             names == {fields[i][1] : i \in DOMAIN fields}
  <2>1. /\ DOMAIN fields = 1..7
        /\ fields[1] = <<"method", "text">> /\ fields[2] = <<"path", "text">>
        /\ fields[3] = <<"device_id", "device">> /\ fields[4] = <<"created_at", "word">>
        /\ fields[5] = <<"nonce", "nonce">> /\ fields[6] = <<"authorization_hash", "hash">>
        /\ fields[7] = <<"payload", "bytes">>
    BY KindFields DEF SignedRelayRequest
  <2>2. /\ x.method = m.method /\ x.path = p.path /\ x.device_id = signed.device_id
        /\ x.created_at = signed.created_at /\ x.nonce = signed.nonce
        /\ x.authorization_hash = signed.authorization_hash /\ x.payload = signed.payload
        /\ DOMAIN x = {"method", "path", "device_id", "created_at", "nonce", "payload", "authorization_hash"}
        /\ x = [f \in DOMAIN x |-> x[f]]
    BY DEF Received
  <2> HIDE DEF x, fields
  <2>3. \A i \in 1..7 : i = 1 \/ i = 2 \/ i = 3 \/ i = 4 \/ i = 5 \/ i = 6 \/ i = 7
    OBVIOUS
  <2>4. names = DOMAIN x
    <3>1. names = {fields[i][1] : i \in 1..7}
      BY <2>1
    <3> QED BY <2>1, <2>2, <2>3, <3>1
  <2>5. \A i \in DOMAIN fields : HasType(fields[i][2], x[fields[i][1]])
    <3>1. /\ HasType("text", x.method) /\ HasType("text", x.path) /\ HasType("device", x.device_id)
          /\ HasType("word", x.created_at) /\ HasType("nonce", x.nonce)
          /\ HasType("hash", x.authorization_hash) /\ HasType("bytes", x.payload)
      BY <1>1, <2>2, RequestTypes
    <3> QED BY <2>1, <2>3, <3>1
  <2> QED BY <2>2, <2>4, <2>5 DEF IsRecord, fields
<1>7. x.nonce = signed.nonce
  BY DEF Received
<1>8. [x EXCEPT !.method = signed.method, !.path = signed.path] = signed
  <2> DEFINE names == {SignedRelayRequest[i][1] : i \in DOMAIN SignedRelayRequest}
  <2>1. names = {"method", "path", "device_id", "created_at", "nonce", "authorization_hash", "payload"}
    BY DEF SignedRelayRequest
  <2>2. signed = [f \in names |-> signed[f]]
    BY <1>1, KindFields DEF IsRecord
  <2> HIDE DEF names
  <2>3. DOMAIN signed = names
    BY <2>2
  <2> DEFINE y == [x EXCEPT !.method = signed.method, !.path = signed.path]
  <2>4. DOMAIN y = names /\ y = [f \in names |-> y[f]]
    BY <2>1 DEF Received
  <2>5. \A f \in names : y[f] = signed[f]
    <3>1. /\ DOMAIN x = {"method", "path", "device_id", "created_at", "nonce", "payload", "authorization_hash"}
          /\ x.device_id = signed.device_id /\ x.created_at = signed.created_at
          /\ x.nonce = signed.nonce /\ x.payload = signed.payload
          /\ x.authorization_hash = signed.authorization_hash
      BY DEF Received
    <3> HIDE DEF x
    <3>2. /\ y.method = signed.method /\ y.path = signed.path
          /\ y.device_id = signed.device_id /\ y.created_at = signed.created_at
          /\ y.nonce = signed.nonce /\ y.payload = signed.payload
          /\ y.authorization_hash = signed.authorization_hash
      BY <3>1
    <3> HIDE DEF y
    <3> QED BY <2>1, <3>2
  <2> HIDE DEF y
  <2>6. y = signed
    BY <2>2, <2>4, <2>5
  <2> QED BY <2>6 DEF y
<1> HIDE DEF x, in
<1>9. Verifies("request", x) <=> Covered("request", x) = Covered("request", signed)
  BY <1>1, <1>6, PreimageNamesTheRecord DEF Verifies
<1>10. /\ VerifyRequest(x).ok /\ VerifyRequest(x).rec = x
       /\ VerifyRequest(x).verified <=> Verifies("request", x)
  BY <1>2, <1>7 DEF VerifyRequest
<1> QED BY <1>5, <1>8, <1>9, <1>10 DEF x, in

\* The revision is read from its file as it was signed, and names what its
\* envelope names.
LEMMA RevisionVerifies ==
    ASSUME RecordInv, stage /= "new", kind = "revision", file \in WrittenFiles(kind, signed, readers)
    PROVE  ReceiveRevision([ok |-> TRUE, rec |-> RevisionEnvelope(signed)])
             = [ok |-> TRUE, rec |-> signed, verified |-> TRUE]
<1> DEFINE e == RevisionEnvelope(signed)
<1>1. /\ signed \in SignableRecords("revision") /\ file \in WrittenFiles("revision", signed, readers)
      /\ readers \in Seq(Devices) /\ \E i \in DOMAIN readers : readers[i] = signed.author_device_id
  BY DEF RecordInv, ReadersHold
<1>2. RelayRevisionMetadata = TomlRevision
  BY DEF RelayRevisionMetadata, TomlRevision
<1>3. ReadToml(RelayRevisionMetadata, file) = [ok |-> TRUE, rec |-> signed]
  <2>1. FieldList(TomlRevision) /\ RecordFits(TomlRevision, signed)
    BY <1>1, KindNames, KindFields, KnownTomlRevision, SignableFits DEF KnownFields, TomlKinds
  <2>2. \A i \in 1..Len(TomlRevision) :
          ValuesOf(file, TomlRevision[i][1]) = ValuesOf(WriteToml(TomlRevision, signed), TomlRevision[i][1])
    BY <1>1, SavedRevision
  <2> QED BY <1>2, <2>1, <2>2, FileReadsBack
<1>4. /\ e.project_id = signed.project_id /\ e.environment_id = signed.environment_id
      /\ e.revision_id = signed.revision_id /\ e.parent_revision_id = signed.parent_revision_id
      /\ e.revision_metadata[1] = file
  BY DEF RevisionEnvelope
<1>5. Verifies(kind, signed)
  BY DEF Verifies
<1> DEFINE in == [ok |-> TRUE, rec |-> e]
           read == [ok |-> TRUE, rec |-> signed]
<1>6. in.ok /\ in.rec = e /\ read.ok /\ read.rec = signed
  OBVIOUS
<1> HIDE DEF e, in
<1>7. ReceiveRevision(in) = VerifyRevision(e, read)
  BY <1>3, <1>4, <1>6 DEF ReceiveRevision
<1> HIDE DEF read
<1>8. VerifyRevision(e, read) = [ok |-> TRUE, rec |-> signed, verified |-> TRUE]
  <2>1. \A f \in {"project_id", "environment_id", "revision_id", "parent_revision_id"} : signed[f] = e[f]
    BY <1>4
  <2>2. (/\ \A f \in {"project_id", "environment_id", "revision_id", "parent_revision_id"} : signed[f] = e[f]
         /\ Verifies(kind, signed)) = TRUE
    BY <1>5, <2>1
  <2> QED BY <1>6, <2>2 DEF VerifyRevision
<1> QED BY <1>7, <1>8 DEF in, e

\* The relay finds the record that was signed in its authorization.
LEMMA AuthorizationVerifies ==
    ASSUME kind \in Enveloped
    PROVE  VerifyAuthorization([ok |-> TRUE, rec |-> Authorization(signed)])
             = [ok |-> TRUE, rec |-> signed, verified |-> TRUE]
<1> DEFINE e == Authorization(signed)
           in == [ok |-> TRUE, rec |-> e]
<1>1. SentRecord(e) = signed
  <2>1. /\ kind = "project" => e.project = signed
        /\ kind = "join" => e.join_requests = <<signed>>
        /\ kind = "approval" => e.approvals = <<SomeRecord("approval"), signed>>
        /\ kind = "revocation" => e.revocations = <<signed>>
    BY DEF Authorization
  <2> HIDE DEF e
  <2>2. /\ kind = "project" => SentRecord(e) = e.project
        /\ kind = "join" => SentRecord(e) = e.join_requests[1]
        /\ kind = "approval" => SentRecord(e) = e.approvals[2]
        /\ kind = "revocation" => SentRecord(e) = e.revocations[1]
    BY DEF SentRecord
  <2> QED BY <2>1, <2>2 DEF Enveloped
<1>2. Verifies(kind, signed) = TRUE
  BY DEF Verifies
<1>3. in.ok /\ in.rec = e
  OBVIOUS
<1> HIDE DEF e, in
<1>4. VerifyAuthorization(in) = [ok |-> TRUE, rec |-> signed, verified |-> TRUE]
  BY <1>1, <1>2, <1>3 DEF VerifyAuthorization
<1> QED BY <1>4 DEF e, in

LEMMA NothingFromMalformed ==
    /\ ReceiveRevision(Malformed) = Malformed /\ VerifyAuthorization(Malformed) = Malformed
    /\ \A m, p : ReceiveRequest(Malformed, m, p) = Malformed
    /\ ~Malformed.ok
BY DEF ReceiveRevision, VerifyAuthorization, ReceiveRequest, Malformed

LEMMA ReceiveVerifies ==
    ASSUME NoEmptyReason, RecordInv, MessageInv, Receive
    PROVE  MessageInv'
<1>1. /\ stage \in {"sent", "cut"} /\ UNCHANGED <<kind, signed, message>>
      /\ stage' = IF stage = "sent" THEN "received" ELSE "receivedCut"
      /\ \/ kind = "revision" /\ result' = ReceiveRevision(DecodeRevision(message))
         \/ kind \in Enveloped /\ result' = VerifyAuthorization(DecodeAuthorization(message))
         \/ kind = "request" /\ \E m, p \in SignableRecords("request") :
              result' = ReceiveRequest(DecodeRequest(message), m.method, p.path)
  BY DEF Receive
<1>2. MessageHolds'
  BY <1>1 DEF MessageHolds
<1>3. /\ kind \in Enveloped \cup {"revision", "request"}
      /\ kind = "revision" => file \in WrittenFiles(kind, signed, readers)
      /\ stage = "sent" => message = WholeMessage
      /\ stage = "cut" => \E n \in 0..(Len(WholeMessage) - 1) : message = SubSeq(WholeMessage, 1, n)
  BY <1>1 DEF MessageInv, MessageHolds
<1>4. stage /= "new"
  BY <1>1
<1>5. CASE stage = "cut"
  <2>1. PICK n \in 0..(Len(WholeMessage) - 1) : message = SubSeq(WholeMessage, 1, n)
    BY <1>3, <1>5
  <2>2. /\ kind = "revision" => DecodeRevision(message) = Malformed
        /\ kind = "request" => DecodeRequest(message) = Malformed
        /\ kind \in Enveloped => DecodeAuthorization(message) = Malformed
    BY <1>3, <1>4, <2>1, MessageReads
  <2>3. result' = Malformed
    BY <1>1, <2>2, NothingFromMalformed
  <2>4. stage' = "receivedCut" /\ ~result'.ok
    BY <1>1, <1>5, <2>3, NothingFromMalformed
  <2> QED BY <1>2, <2>4 DEF MessageInv, RelayVerifiesWhatWasSigned
<1>6. CASE stage = "sent"
  <2>1. stage' = "received" /\ message = WholeMessage
    BY <1>1, <1>3, <1>6
  <2>2. CASE kind \in Enveloped \cup {"revision"}
    <3>1. result' = [ok |-> TRUE, rec |-> signed, verified |-> TRUE]
      <4>1. CASE kind = "revision"
        BY <1>1, <1>3, <1>4, <2>1, <4>1, MessageReads, RevisionVerifies DEF Enveloped
      <4>2. CASE kind \in Enveloped
        BY <1>1, <1>3, <1>4, <2>1, <4>2, MessageReads, AuthorizationVerifies DEF Enveloped
      <4> QED BY <2>2, <4>1, <4>2
    <3>2. result'.ok /\ result'.verified /\ result'.rec = signed
      BY <3>1
    <3>3. kind /= "request"
      BY <2>2 DEF Enveloped
    <3> QED BY <1>1, <1>2, <2>1, <3>2, <3>3 DEF MessageInv, RelayVerifiesWhatWasSigned
  <2>3. CASE kind = "request"
    <3> DEFINE e == [RequestEnvelope(signed) EXCEPT !.authorization = Authorized(signed.authorization_hash)]
    <3>1. PICK m \in SignableRecords("request") : \E p \in SignableRecords("request") :
            result' = ReceiveRequest(DecodeRequest(message), m.method, p.path)
      BY <1>1, <2>3 DEF Enveloped
    <3>2. PICK p \in SignableRecords("request") :
            result' = ReceiveRequest(DecodeRequest(message), m.method, p.path)
      BY <3>1
    <3>3. DecodeRequest(message) = [ok |-> TRUE, rec |-> e]
      BY <1>3, <1>4, <2>1, <2>3, MessageReads
    <3> HIDE DEF e
    <3>4. result' = ReceiveRequest([ok |-> TRUE, rec |-> e], m.method, p.path)
      BY <3>2, <3>3
    <3> DEFINE x == Received(signed, m.method, p.path)
    <3>5. /\ result'.ok /\ result'.rec = x
          /\ result'.verified <=> Covered("request", x) = Covered("request", signed)
          /\ [x EXCEPT !.method = signed.method, !.path = signed.path] = signed
      BY <1>4, <2>3, <3>4, RequestVerifies, Zenon DEF e
    <3> HIDE DEF x
    <3>6. kind' = "request" /\ signed' = signed
      BY <1>1, <2>3
    <3> QED BY <1>2, <2>1, <3>5, <3>6 DEF MessageInv, RelayVerifiesWhatWasSigned
  <2> QED BY <1>3, <2>2, <2>3
<1> QED BY <1>1, <1>5, <1>6

\* The relay verifies the signature over what it decoded from an envelope: a
\* record that was signed arrives as it was signed and its signature holds, a
\* request holds for the method and the path it was signed for and for no
\* other, and an envelope that ends early is refused, wherever it ends; for
\* every record with a reason that is absent or not empty.
THEOREM RelayVerifies ==
    ASSUME NoEmptyReason
    PROVE  Spec => []RelayVerifiesWhatWasSigned
<1>1. Init => MessageInv
  BY DEF Init, MessageInv, MessageHolds, RelayVerifiesWhatWasSigned
<1>2. RecordInv /\ MessageInv /\ [Next]_vars => MessageInv'
  <2> SUFFICES ASSUME RecordInv, MessageInv, [Next]_vars PROVE MessageInv'
    OBVIOUS
  <2>1. CASE Send \/ SendRequest
    BY <2>1, SendsTheWhole
  <2>2. CASE Cut
    BY <2>2, CutIsABeginning
  <2>3. CASE Receive
    BY <2>3, ReceiveVerifies
  <2>4. CASE UNCHANGED vars
    <3>1. /\ UNCHANGED <<kind, signed, readers, file>>
          /\ UNCHANGED <<stage, message, result>>
      BY <2>4 DEF vars
    <3> QED BY <3>1, SameMessage DEF MessageInv, MessageHolds, RelayVerifiesWhatWasSigned
  <2>5. CASE Sign \/ Save \/ SaveLegacy \/ Tear \/ Load \/ (\E d \in Devices : Open(d)) \/ Present \/ PublishFile
    <3>1. stage' \notin {"sent", "cut", "received", "receivedCut"}
      BY <2>5 DEF Sign, Save, SaveLegacy, Tear, Load, Open, Present, PublishFile
    <3> QED BY <3>1 DEF MessageInv, MessageHolds, RelayVerifiesWhatWasSigned
  <2> QED BY <2>1, <2>2, <2>3, <2>4, <2>5 DEF Next
<1>3. MessageInv => RelayVerifiesWhatWasSigned
  BY DEF MessageInv
<1> QED BY <1>1, <1>2, <1>3, RecordInvHolds, PTL DEF Spec
=============================================================================
