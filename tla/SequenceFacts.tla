---------------------------- MODULE SequenceFacts ----------------------------
(***************************************************************************)
(* What is in a sequence that grows at one end and shrinks at the other or  *)
(* at the same one: the queues and stacks of the run scheduler, the task    *)
(* runtime and the HTTP server.  And what a loop over a sequence comes to:  *)
(* induction, stated for sets of numbers.                                   *)
(***************************************************************************)
EXTENDS Naturals, Sequences, SequencesExt, SequenceTheorems, WellFoundedInduction, TLAPS

In(s, x) == \E i \in DOMAIN s : s[i] = x

(* Sequences without repetitions, which grow at one end and shrink at the   *)
(* other (the queues) or at the same one (the stack of start() calls).      *)
LEMMA AppendIn ==
  ASSUME NEW S, NEW s \in Seq(S), NEW x \in S
  PROVE  /\ \A y : In(Append(s, x), y) <=> y = x \/ In(s, y)
         /\ IsInjective(s) /\ ~In(s, x) => IsInjective(Append(s, x))
<1>1. /\ DOMAIN Append(s, x) = 1 .. Len(s) + 1 /\ DOMAIN s = 1 .. Len(s)
      /\ Len(s) \in Nat
  OBVIOUS
<1>2. \A i \in 1 .. Len(s) : Append(s, x)[i] = s[i]  OBVIOUS
<1>3. Append(s, x)[Len(s) + 1] = x  OBVIOUS
<1>4. \A i \in 1 .. Len(s) + 1 : i \in 1 .. Len(s) \/ i = Len(s) + 1  BY <1>1
<1>5. 1 .. Len(s) \subseteq 1 .. Len(s) + 1 /\ Len(s) + 1 \in 1 .. Len(s) + 1  BY <1>1
<1> DEFINE t == Append(s, x)
<1> HIDE DEF t
<1>6. \A y : In(t, y) <=> y = x \/ In(s, y)
  BY <1>1, <1>2, <1>3, <1>4, <1>5 DEF In, t
<1>7. IsInjective(s) /\ ~In(s, x) => IsInjective(t)
  BY <1>1, <1>2, <1>3, <1>4, <1>5 DEF In, IsInjective, t
<1> QED  BY <1>6, <1>7 DEF t

LEMMA TailIn ==
  ASSUME NEW S, NEW s \in Seq(S), s # <<>>
  PROVE  /\ \A y : In(Tail(s), y) => In(s, y)
         /\ \A y : In(s, y) => y = Head(s) \/ In(Tail(s), y)
         /\ In(s, Head(s))
         /\ IsInjective(s) => IsInjective(Tail(s)) /\ ~In(Tail(s), Head(s))
<1> DEFINE t == Tail(s)
<1>1. PICK n \in Nat : n = Len(s) /\ n > 0  OBVIOUS
<1>2. DOMAIN t = 1 .. n - 1 /\ DOMAIN s = 1 .. n  BY <1>1
<1>3. \A i \in 1 .. n - 1 : t[i] = s[i + 1]  BY <1>1
<1>4. Head(s) = s[1]  OBVIOUS
<1>5. \A i \in 1 .. n - 1 : i + 1 \in 1 .. n /\ i + 1 # 1  BY <1>1
<1>6. \A i \in 1 .. n : i = 1 \/ (i - 1 \in 1 .. n - 1 /\ (i - 1) + 1 = i)  BY <1>1
<1>7. 1 \in 1 .. n  BY <1>1
<1>8. \A i, j \in 1 .. n - 1 : i + 1 = j + 1 => i = j  BY <1>1
<1> HIDE DEF t
<1>9. \A y : In(t, y) => In(s, y)  BY <1>2, <1>3, <1>5 DEF In
<1>10. \A y : In(s, y) => y = Head(s) \/ In(t, y)
  <2> SUFFICES ASSUME NEW i \in 1 .. n, i # 1 PROVE In(t, s[i])
    BY <1>2, <1>4 DEF In
  <2>1. i - 1 \in 1 .. n - 1 /\ (i - 1) + 1 = i  BY <1>6
  <2>2. t[i - 1] = s[i]  BY <1>3, <2>1
  <2> QED  BY <1>2, <2>1, <2>2 DEF In
<1>11. IsInjective(s) => IsInjective(t)
  <2> SUFFICES ASSUME IsInjective(s), NEW i \in 1 .. n - 1, NEW j \in 1 .. n - 1, t[i] = t[j]
               PROVE  i = j
    BY <1>2 DEF IsInjective
  <2>1. s[i + 1] = s[j + 1]  BY <1>3
  <2>2. i + 1 = j + 1  BY <1>2, <1>5, <2>1 DEF IsInjective
  <2> QED  BY <1>8, <2>2
<1>12. IsInjective(s) => ~In(t, Head(s))
  BY <1>2, <1>3, <1>4, <1>5, <1>7, SMTT(60) DEF In, IsInjective
<1>13. In(s, Head(s))  BY <1>2, <1>4, <1>7 DEF In
<1> QED  BY <1>9, <1>10, <1>11, <1>12, <1>13 DEF t

LEMMA FrontIn ==
  ASSUME NEW S, NEW s \in Seq(S), s # <<>>,
         NEW t, t = SubSeq(s, 1, Len(s) - 1), IsInjective(s)
  PROVE  /\ \A y : In(t, y) <=> In(s, y) /\ y # s[Len(s)]
         /\ In(s, s[Len(s)])
         /\ IsInjective(t)
<1>1. PICK n \in Nat : n = Len(s) /\ n > 0  OBVIOUS
<1>2. DOMAIN t = 1 .. n - 1 /\ DOMAIN s = 1 .. n  BY <1>1
<1>3. \A i \in 1 .. n - 1 : t[i] = s[i]  BY <1>1
<1>4. \A i \in 1 .. n : i = n \/ i \in 1 .. n - 1  BY <1>1
<1>5. \A i \in 1 .. n - 1 : i \in 1 .. n /\ i # n  BY <1>1
<1>6. n \in 1 .. n  BY <1>1
<1>7. \A y : In(t, y) => In(s, y) /\ y # s[n]
  BY <1>2, <1>3, <1>5, <1>6 DEF In, IsInjective
<1>8. \A y : In(s, y) /\ y # s[n] => In(t, y)
  BY <1>2, <1>3, <1>4 DEF In
<1>9. IsInjective(t)  BY <1>2, <1>3, <1>5 DEF IsInjective
<1>10. In(s, s[n])  BY <1>2, <1>6 DEF In
<1> QED  BY <1>1, <1>7, <1>8, <1>9, <1>10

(* A queue without the element at i.                                        *)
LEMMA After ==
  ASSUME NEW S, NEW s \in Seq(S), NEW n \in Nat, n = Len(s), NEW i \in 1 .. n
  PROVE  /\ SubSeq(s, i + 1, n) \in Seq(S)
         /\ Len(SubSeq(s, i + 1, n)) = n - i
         /\ \A k \in 1 .. n - i : SubSeq(s, i + 1, n)[k] = s[k + i]
<1>1. i + 1 \in Int /\ n \in Int /\ \A k \in i + 1 .. n : s[k] \in S  OBVIOUS
<1>2. /\ SubSeq(s, i + 1, n) \in Seq(S)
      /\ Len(SubSeq(s, i + 1, n)) = IF i + 1 <= n THEN n - (i + 1) + 1 ELSE 0
      /\ \A k \in 1 .. n - (i + 1) + 1 : SubSeq(s, i + 1, n)[k] = s[(i + 1) + k - 1]
  BY <1>1, SubSeqProperties
<1>3. n - (i + 1) + 1 = n - i /\ (i + 1 <= n <=> n - i # 0)
      /\ \A k \in 1 .. n - i : (i + 1) + k - 1 = k + i
  OBVIOUS
<1>4. Len(SubSeq(s, i + 1, n)) = n - i
  BY <1>2, <1>3
<1>5. \A k \in 1 .. n - i : SubSeq(s, i + 1, n)[k] = s[k + i]
  BY <1>2, <1>3
<1> QED  BY <1>2, <1>4, <1>5

LEMMA Around ==
  ASSUME NEW S, NEW s \in Seq(S), NEW n \in Nat, n = Len(s), NEW i \in 1 .. n
  PROVE  LET t == SubSeq(s, 1, i - 1) \o SubSeq(s, i + 1, n)
         IN  /\ t \in Seq(S) /\ Len(t) = n - 1
             /\ \A k \in 1 .. n - 1 : t[k] = IF k < i THEN s[k] ELSE s[k + 1]
<1> DEFINE a == SubSeq(s, 1, i - 1)
           b == SubSeq(s, i + 1, n)
           t == a \o b
<1>1. 1 \in Int /\ i - 1 \in Int /\ \A k \in 1 .. i - 1 : s[k] \in S  OBVIOUS
<1>2. /\ a \in Seq(S)
      /\ Len(a) = IF 1 <= i - 1 THEN (i - 1) - 1 + 1 ELSE 0
      /\ \A k \in 1 .. (i - 1) - 1 + 1 : a[k] = s[1 + k - 1]
  BY <1>1, SubSeqProperties
<1>3. Len(a) = i - 1 /\ \A k \in 1 .. i - 1 : a[k] = s[k]
  <2>1. (i - 1) - 1 + 1 = i - 1 /\ (i - 1 = 0 \/ 1 <= i - 1)
        /\ \A k \in 1 .. i - 1 : 1 + k - 1 = k
    OBVIOUS
  <2> QED  BY <1>2, <2>1
<1>4. /\ b \in Seq(S) /\ Len(b) = n - i
      /\ \A k \in 1 .. n - i : b[k] = s[k + i]
  BY After
<1>5. /\ t \in Seq(S) /\ Len(t) = Len(a) + Len(b)
      /\ \A k \in 1 .. Len(a) + Len(b) : t[k] = IF k <= Len(a) THEN a[k] ELSE b[k - Len(a)]
  BY <1>2, <1>4, ConcatProperties
<1> HIDE DEF t, a, b
<1>6. Len(a) + Len(b) = n - 1  BY <1>3, <1>4
<1>7. ASSUME NEW k \in 1 .. n - 1 PROVE t[k] = IF k < i THEN s[k] ELSE s[k + 1]
  <2>1. t[k] = IF k <= i - 1 THEN a[k] ELSE b[k - (i - 1)]  BY <1>3, <1>5, <1>6
  <2>2. CASE k < i
    <3>1. k \in 1 .. i - 1 /\ k <= i - 1  BY <2>2
    <3>2. t[k] = a[k] /\ a[k] = s[k]  BY <1>3, <2>1, <3>1
    <3> QED  BY <2>2, <3>2
  <2>3. CASE ~(k < i)
    <3>1. k - (i - 1) \in 1 .. n - i /\ ~(k <= i - 1)  BY <2>3
    <3>2. (k - (i - 1)) + i = k + 1  OBVIOUS
    <3> QED  BY <1>4, <2>1, <2>3, <3>1, <3>2
  <2> QED  BY <2>2, <2>3
<1> QED  BY <1>5, <1>6, <1>7 DEF t, a, b

LEMMA RemovedAt ==
  ASSUME NEW S, NEW s \in Seq(S), NEW n \in Nat, n = Len(s), NEW i \in 1 .. n,
         NEW t \in Seq(S), Len(t) = n - 1,
         \A k \in 1 .. n - 1 : t[k] = IF k < i THEN s[k] ELSE s[k + 1]
  PROVE  /\ \A y : In(t, y) => In(s, y)
         /\ \A y : In(s, y) /\ y # s[i] => In(t, y)
         /\ IsInjective(s) => IsInjective(t) /\ ~In(t, s[i])
<1>1. DOMAIN s = 1 .. n /\ DOMAIN t = 1 .. n - 1  OBVIOUS
<1> DEFINE at(k) == IF k < i THEN k ELSE k + 1
<1>2. \A k \in 1 .. n - 1 : at(k) \in 1 .. n /\ at(k) # i /\ t[k] = s[at(k)]  OBVIOUS
<1>3. ASSUME NEW k \in 1 .. n, k # i PROVE \E j \in 1 .. n - 1 : at(j) = k
  <2>1. CASE k < i
    <3>1. k \in 1 .. n - 1 /\ at(k) = k  BY <2>1
    <3> QED  BY <3>1
  <2>2. CASE k > i
    <3>1. k - 1 \in 1 .. n - 1 /\ at(k - 1) = k  BY <2>2
    <3> QED  BY <3>1
  <2> QED  BY <1>3, <2>1, <2>2
<1>4. \A j, k \in 1 .. n - 1 : at(j) = at(k) => j = k  OBVIOUS
<1> HIDE DEF at
<1>5. \A y : In(t, y) => In(s, y)  BY <1>1, <1>2 DEF In
<1>6. \A y : In(s, y) /\ y # s[i] => In(t, y)
  <2> SUFFICES ASSUME NEW k \in 1 .. n, s[k] # s[i] PROVE In(t, s[k])  BY <1>1 DEF In
  <2>1. PICK j \in 1 .. n - 1 : at(j) = k  BY <1>3
  <2> QED  BY <1>1, <1>2, <2>1 DEF In
<1>7. IsInjective(s) => IsInjective(t)
  <2> SUFFICES ASSUME IsInjective(s), NEW j \in 1 .. n - 1, NEW k \in 1 .. n - 1, t[j] = t[k]
               PROVE  j = k
    BY <1>1 DEF IsInjective
  <2>1. at(j) = at(k)
    <3>1. s[at(j)] = s[at(k)] /\ at(j) \in DOMAIN s /\ at(k) \in DOMAIN s  BY <1>1, <1>2
    <3> QED  BY <3>1, Zenon DEF IsInjective
  <2> QED  BY <1>4, <2>1
<1>8. IsInjective(s) => ~In(t, s[i])
  <2> SUFFICES ASSUME IsInjective(s), NEW k \in 1 .. n - 1, t[k] = s[i] PROVE FALSE
    BY <1>1 DEF In
  <2>1. s[at(k)] = s[i] /\ at(k) \in DOMAIN s /\ i \in DOMAIN s /\ at(k) # i  BY <1>1, <1>2
  <2> QED  BY <2>1, Zenon DEF IsInjective
<1> QED  BY <1>5, <1>6, <1>7, <1>8

(* A sequence in front of another.                                          *)
LEMMA ConcatIn ==
  ASSUME NEW S, NEW s \in Seq(S), NEW T, NEW t \in Seq(T)
  PROVE  \A y : In(s \o t, y) <=> In(s, y) \/ In(t, y)
<1>1. PICK m \in Nat, n \in Nat : m = Len(s) /\ n = Len(t)  OBVIOUS
<1> DEFINE c == s \o t
<1>2. s \in Seq(S \cup T) /\ t \in Seq(S \cup T)
  <2>1. S \subseteq S \cup T /\ T \subseteq S \cup T  OBVIOUS
  <2> QED  BY <2>1, SeqMonotonic
<1>3. /\ DOMAIN c = 1..m + n /\ DOMAIN s = 1..m /\ DOMAIN t = 1..n
      /\ \A i \in 1..m : c[i] = s[i]
      /\ \A i \in 1..n : c[i + m] = t[i]
  <2>1. Len(c) = m + n /\ c \in Seq(S \cup T)  BY <1>1, <1>2, ConcatProperties
  <2>2. DOMAIN c = 1..m + n /\ DOMAIN s = 1..m /\ DOMAIN t = 1..n
    BY <1>1, <1>2, <2>1, LenProperties
  <2>3. \A i \in 1..m + n : c[i] = IF i <= m THEN s[i] ELSE t[i - m]
    BY <1>1, <1>2, <2>1, ConcatProperties
  <2> HIDE DEF c
  <2>4. \A i \in 1..m : i \in 1..m + n /\ i <= m  BY <1>1
  <2>5. \A i \in 1..n : i + m \in 1..m + n /\ ~(i + m <= m) /\ (i + m) - m = i  BY <1>1
  <2> QED  BY <2>2, <2>3, <2>4, <2>5
<1> HIDE DEF c
<1>4. /\ \A i \in 1..m : i \in 1..m + n
      /\ \A i \in 1..n : i + m \in 1..m + n
      /\ \A j \in 1..m + n : j \in 1..m \/ \E i \in 1..n : j = i + m
  <2>1. ASSUME NEW j \in 1..m + n, j \notin 1..m PROVE \E i \in 1..n : j = i + m
    <3>1. j - m \in 1..n /\ j = (j - m) + m  BY <1>1, <2>1
    <3> QED  BY <3>1
  <2> QED  BY <1>1, <2>1
<1> SUFFICES ASSUME NEW y PROVE In(c, y) <=> In(s, y) \/ In(t, y)
  BY DEF c
<1>5. ASSUME In(c, y) PROVE In(s, y) \/ In(t, y)
  <2>1. PICK j \in 1..m + n : c[j] = y  BY <1>3, <1>5 DEF In
  <2>2. CASE j \in 1..m  BY <1>3, <2>1, <2>2 DEF In
  <2>3. CASE \E i \in 1..n : j = i + m  BY <1>3, <2>1, <2>3 DEF In
  <2> QED  BY <1>4, <2>1, <2>2, <2>3
<1>6. ASSUME In(s, y) PROVE In(c, y)  BY <1>3, <1>4, <1>6 DEF In
<1>7. ASSUME In(t, y) PROVE In(c, y)  BY <1>3, <1>4, <1>7 DEF In
<1> QED  BY <1>5, <1>6, <1>7

(* Induction.  The principles of the library are about predicates, which    *)
(* these provers cannot instantiate; a set is a predicate they can.         *)
LEMMA LeastNatural ==
  ASSUME NEW T, T \subseteq Nat, T # {}
  PROVE  \E x \in T : \A y \in T : x <= y
<1>1. \A i, j \in Nat : i < j => <<i, j>> \in OpToRel(<, Nat)  BY Zenon DEF OpToRel
<1>2. PICK x \in T : \A y \in T : ~(<<y, x>> \in OpToRel(<, Nat))
  BY NatLessThanWellFounded, WFMin, Zenon
<1>3. \A y \in T : ~(y < x)  BY <1>1, <1>2, Zenon
<1> QED  BY <1>3

LEMMA SetInduction ==
  ASSUME NEW S, 0 \in S, \A n \in Nat : n \in S => n + 1 \in S
  PROVE  Nat \subseteq S
<1> DEFINE T == Nat \ S
<1> SUFFICES ASSUME T # {} PROVE FALSE  OBVIOUS
<1>1. T \subseteq Nat  OBVIOUS
<1>2. PICK x \in T : \A y \in T : x <= y
  <2> HIDE DEF T
  <2> QED  BY <1>1, LeastNatural
<1>3. x # 0 /\ x \in Nat  OBVIOUS
<1>4. x - 1 \in Nat /\ (x - 1) + 1 = x /\ ~(x <= x - 1)  BY <1>3
<1>5. x - 1 \in S  BY <1>2, <1>4
<1> QED  BY <1>4, <1>5

(* A loop of n turns.                                                       *)
LEMMA UpTo ==
  ASSUME NEW n \in Nat, NEW S, 0 \in S, \A i \in 1 .. n : i - 1 \in S => i \in S
  PROVE  0 .. n \subseteq S
<1> DEFINE T == {i \in Nat : i <= n => i \in S}
<1>1. 0 \in T  OBVIOUS
<1>2. ASSUME NEW i \in Nat, i \in T PROVE i + 1 \in T
  <2>1. CASE i + 1 <= n
    <3>1. i + 1 \in 1 .. n /\ (i + 1) - 1 = i /\ i \in S  BY <1>2, <2>1
    <3> QED  BY <3>1
  <2>2. CASE ~(i + 1 <= n)  BY <2>2
  <2> QED  BY <2>1, <2>2
<1>3. Nat \subseteq T
  <2> HIDE DEF T
  <2> QED  BY <1>1, <1>2, SetInduction
<1> QED  BY <1>3

(* A recursive function over the turns of a loop is one: its equation has a *)
(* solution.                                                                *)
Looping(h, n, V, b, f) ==
    /\ h \in [0 .. n -> V]
    /\ h = [i \in 0 .. n |-> IF i = 0 THEN b ELSE f[i][h[i - 1]]]

LEMMA LoopExists ==
  ASSUME NEW n \in Nat, NEW V, NEW b \in V, NEW f \in [1 .. n -> [V -> V]]
  PROVE  \E h : Looping(h, n, V, b, f)
<1> DEFINE Loop(m, h) == /\ h \in [0 .. m -> V] /\ h[0] = b
                         /\ \A i \in 1 .. m : h[i] = f[i][h[i - 1]]
           Ends == {m \in Nat : \E h : Loop(m, h)}
<1>1. 0 \in Ends
  <2> DEFINE h == [i \in 0 .. 0 |-> b]
  <2>1. Loop(0, h)  OBVIOUS
  <2> HIDE DEF Loop, h
  <2> QED  BY <2>1
<1>2. ASSUME NEW m \in 1 .. n, m - 1 \in Ends PROVE m \in Ends
  <2>1. PICK h : Loop(m - 1, h)  BY <1>2
  <2> DEFINE g == [i \in 0 .. m |-> IF i = m THEN f[m][h[m - 1]] ELSE h[i]]
  <2>2. m - 1 \in 0 .. m - 1 /\ f[m] \in [V -> V] /\ m # 0 /\ m \in Nat  OBVIOUS
  <2>3. f[m][h[m - 1]] \in V  BY <2>1, <2>2
  <2>4. \A i \in 0 .. m : i = m \/ i \in 0 .. m - 1  OBVIOUS
  <2>5. g \in [0 .. m -> V]  BY <2>1, <2>3, <2>4
  <2>6. g[0] = b  BY <2>1, <2>2
  <2>7. ASSUME NEW i \in 1 .. m PROVE g[i] = f[i][g[i - 1]]
    <3>1. i \in 0 .. m /\ i - 1 \in 0 .. m /\ i - 1 # m /\ g[i - 1] = h[i - 1]  OBVIOUS
    <3>2. CASE i = m  BY <3>1, <3>2
    <3>3. CASE i # m
      <4>1. i \in 1 .. m - 1 /\ g[i] = h[i]  BY <3>1, <3>3
      <4> QED  BY <2>1, <3>1, <4>1
    <3> QED  BY <3>2, <3>3
  <2>8. Loop(m, g)  BY <2>5, <2>6, <2>7
  <2> HIDE DEF Loop, g
  <2> QED  BY <2>2, <2>8
<1>3. n \in Ends
  <2>1. n \in 0 .. n  OBVIOUS
  <2> HIDE DEF Ends
  <2> QED  BY <1>1, <1>2, <2>1, UpTo
<1>4. PICK h : Loop(n, h)  BY <1>3
<1>5. \A i \in 0 .. n : h[i] = IF i = 0 THEN b ELSE f[i][h[i - 1]]
  <2>1. \A i \in 0 .. n : i = 0 \/ i \in 1 .. n  OBVIOUS
  <2> QED  BY <1>4, <2>1
<1>6. h = [i \in 0 .. n |-> IF i = 0 THEN b ELSE f[i][h[i - 1]]]  BY <1>4, <1>5
<1>7. Looping(h, n, V, b, f)  BY <1>4, <1>6, Zenon DEF Looping
<1> QED  BY <1>7

(* One more at a place of its own.                                          *)
Insertion(t, S, s, i, e) ==
    /\ t \in Seq(S) /\ Len(t) = Len(s) + 1
    /\ \A k \in 1 .. Len(s) + 1 :
          t[k] = IF k < i THEN s[k] ELSE IF k = i THEN e ELSE s[k - 1]

LEMMA Inserts ==
  ASSUME NEW S, NEW s \in Seq(S), NEW i \in 1 .. Len(s) + 1, NEW e \in S
  PROVE  Insertion(InsertAt(s, i, e), S, s, i, e)
<1> SUFFICES
      ASSUME NEW n \in Nat, n = Len(s), i \in 1 .. n + 1
      PROVE  /\ InsertAt(s, i, e) \in Seq(S) /\ Len(InsertAt(s, i, e)) = n + 1
             /\ \A k \in 1 .. n + 1 :
                   InsertAt(s, i, e)[k] = IF k < i THEN s[k] ELSE IF k = i THEN e ELSE s[k - 1]
  <2> DEFINE t == InsertAt(s, i, e)
  <2>1. Len(s) \in Nat  OBVIOUS
  <2> HIDE DEF t
  <2> QED  BY <2>1 DEF t, Insertion
<1> DEFINE u == <<e>>
           a == SubSeq(s, 1, i - 1)
           b == SubSeq(s, i, n)
           c == a \o u
           t == c \o b
<1>0. InsertAt(s, i, e) = t  BY DEF InsertAt
<1>3. u \in Seq(S) /\ Len(u) = 1 /\ u[1] = e  OBVIOUS
<1> HIDE DEF u
<1>1. /\ a \in Seq(S) /\ Len(a) = i - 1
      /\ \A k \in 1 .. i - 1 : a[k] = s[k]
  <2>1. 1 \in Int /\ i - 1 \in Int /\ \A k \in 1 .. i - 1 : s[k] \in S  OBVIOUS
  <2>2. /\ a \in Seq(S)
        /\ Len(a) = IF 1 <= i - 1 THEN (i - 1) - 1 + 1 ELSE 0
        /\ \A k \in 1 .. (i - 1) - 1 + 1 : a[k] = s[1 + k - 1]
    BY <2>1, SubSeqProperties
  <2>3. (i - 1) - 1 + 1 = i - 1 /\ (i - 1 = 0 \/ 1 <= i - 1)
        /\ \A k \in 1 .. i - 1 : 1 + k - 1 = k
    OBVIOUS
  <2> HIDE DEF a
  <2> QED  BY <2>2, <2>3
<1>2. /\ b \in Seq(S) /\ Len(b) = n - i + 1
      /\ \A k \in 1 .. n - i + 1 : b[k] = s[k + i - 1]
  <2>1. i \in Int /\ n \in Int /\ \A k \in i .. n : s[k] \in S  OBVIOUS
  <2>2. /\ b \in Seq(S)
        /\ Len(b) = IF i <= n THEN n - i + 1 ELSE 0
        /\ \A k \in 1 .. n - i + 1 : b[k] = s[i + k - 1]
    BY <2>1, SubSeqProperties
  <2>3. (i <= n \/ n - i + 1 = 0) /\ \A k \in 1 .. n - i + 1 : i + k - 1 = k + i - 1  OBVIOUS
  <2> HIDE DEF b
  <2> QED  BY <2>2, <2>3
<1>4. /\ c \in Seq(S) /\ Len(c) = Len(a) + Len(u)
      /\ \A k \in 1 .. Len(a) + Len(u) :
            c[k] = IF k <= Len(a) THEN a[k] ELSE u[k - Len(a)]
  BY <1>1, <1>3, ConcatProperties
<1>5. Len(c) = i /\ \A k \in 1 .. i : c[k] = IF k < i THEN s[k] ELSE e
  <2> HIDE DEF a, c
  <2>1. Len(c) = i  BY <1>1, <1>3, <1>4
  <2>2. ASSUME NEW k \in 1 .. i PROVE c[k] = IF k < i THEN s[k] ELSE e
    <3>1. c[k] = IF k <= i - 1 THEN a[k] ELSE u[k - (i - 1)]  BY <1>1, <1>3, <1>4
    <3>2. CASE k < i
      <4>1. k <= i - 1 /\ k \in 1 .. i - 1  BY <3>2
      <4> QED  BY <1>1, <3>1, <3>2, <4>1
    <3>3. CASE k = i
      <4>1. ~(k <= i - 1) /\ k - (i - 1) = 1  BY <3>3
      <4> QED  BY <1>3, <3>1, <3>3, <4>1
    <3> QED  BY <3>2, <3>3
  <2> QED  BY <2>1, <2>2
<1>6. /\ t \in Seq(S) /\ Len(t) = Len(c) + Len(b)
      /\ \A k \in 1 .. Len(c) + Len(b) : t[k] = IF k <= Len(c) THEN c[k] ELSE b[k - Len(c)]
  <2>1. c \in Seq(S) /\ b \in Seq(S)  BY <1>2, <1>4
  <2> HIDE DEF a, b, c
  <2> QED  BY <2>1, ConcatProperties
<1> HIDE DEF a, b, c, t
<1>7. Len(c) + Len(b) = n + 1  BY <1>2, <1>5
<1>8. ASSUME NEW k \in 1 .. n + 1
      PROVE  t[k] = IF k < i THEN s[k] ELSE IF k = i THEN e ELSE s[k - 1]
  <2>1. t[k] = IF k <= i THEN c[k] ELSE b[k - i]  BY <1>5, <1>6, <1>7
  <2>2. CASE k <= i
    <3>1. k \in 1 .. i  BY <2>2
    <3> QED  BY <1>5, <2>1, <2>2, <3>1
  <2>3. CASE ~(k <= i)
    <3>1. k - i \in 1 .. n - i + 1 /\ (k - i) + i - 1 = k - 1 /\ ~(k < i) /\ k # i  BY <2>3
    <3> QED  BY <1>2, <2>1, <2>3, <3>1
  <2> QED  BY <2>2, <2>3
<1> QED  BY <1>0, <1>6, <1>7, <1>8

LEMMA Removes ==
  ASSUME NEW S, NEW s \in Seq(S), NEW n \in Nat, n = Len(s), NEW i \in 1 .. n
  PROVE  /\ RemoveAt(s, i) \in Seq(S) /\ Len(RemoveAt(s, i)) = n - 1
         /\ \A k \in 1 .. n - 1 : RemoveAt(s, i)[k] = IF k < i THEN s[k] ELSE s[k + 1]
<1> DEFINE t == SubSeq(s, 1, i - 1) \o SubSeq(s, i + 1, n)
<1>1. RemoveAt(s, i) = t
  BY DEF RemoveAt
<1>2. /\ t \in Seq(S) /\ Len(t) = n - 1
      /\ \A k \in 1 .. n - 1 : t[k] = IF k < i THEN s[k] ELSE s[k + 1]
  BY Around
<1> HIDE DEF t
<1> QED  BY <1>1, <1>2
=============================================================================
