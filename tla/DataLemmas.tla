----------------------------- MODULE DataLemmas -----------------------------
(***************************************************************************)
(* Lemmas about the data the models are made of, stated once for all of    *)
(* them: maps; numbers, where a fact is proved of each by the least number *)
(* it might fail for; functions by recursion on a number; and sequences,   *)
(* their parts (Slice), their joins (Joins) and beginnings (Begins).       *)
(***************************************************************************)
EXTENDS JsMap, Integers, Sequences, WellFoundedInduction, TLAPS

(* Map.set keeps the type of a map.                                        *)
LEMMA MapSetType ==
  ASSUME NEW K, NEW V, NEW m, IsMapOf(m, K, V), NEW key \in K, NEW value \in V
  PROVE  IsMapOf(MapSet(m, key, value), K, V)
BY DEF MapSet, IsMapOf

(* Map.delete keeps the type of a map.                                     *)
LEMMA MapDeleteType ==
  ASSUME NEW K, NEW V, NEW m, IsMapOf(m, K, V), NEW keys
  PROVE  IsMapOf(MapDelete(m, keys), K, V)
BY DEF MapDelete, IsMapOf

(* A new Map is a map of every type.                                       *)
LEMMA EmptyMapType ==
  ASSUME NEW K, NEW V
  PROVE  IsMapOf(EmptyMap, K, V) /\ DOMAIN EmptyMap = {}
BY DEF EmptyMap, IsMapOf

-----------------------------------------------------------------------------
(* A set of natural numbers that is not empty has a least element.         *)
LEMMA LeastNatural ==
  ASSUME NEW T, T \subseteq Nat, T # {}
  PROVE  \E n \in T : \A m \in T : n <= m
<1> DEFINE R == {p \in Nat \X Nat : p[1] < p[2]}
<1>1. R = OpToRel(<, Nat)
  BY DEF OpToRel
<1>2. IsWellFoundedOn(R, Nat)
  BY <1>1, NatLessThanWellFounded
<1>3. \A m, n \in Nat : m < n => <<m, n>> \in R
  OBVIOUS
<1> HIDE DEF R
<1>4. PICK n \in T : \A m \in T : ~ (<<m, n>> \in R)
  BY <1>2, WFMin
<1>5. ASSUME NEW m \in T PROVE n <= m
  <2>1. m \in Nat /\ n \in Nat
    OBVIOUS
  <2>2. ~ (<<m, n>> \in R)
    BY <1>4
  <2>3. ~ (m < n)
    BY <1>3, <2>1, <2>2
  <2> QED
    BY <2>1, <2>3
<1> QED
  BY <1>5

(* What a step makes of a value, over and over, is a function on the       *)
(* numbers: a definition by recursion on a number defines something.       *)
Iterates(f, X, x0, step) ==
  f \in [Nat -> X] /\ f[0] = x0 /\ \A n \in Nat : f[n + 1] = step[n][f[n]]

LEMMA Iteration ==
  ASSUME NEW X, NEW x0 \in X, NEW step \in [Nat -> [X -> X]]
  PROVE  \E f : Iterates(f, X, x0, step)
<1> DEFINE Run(n, g) == /\ g \in [0 .. n -> X] /\ g[0] = x0
                        /\ \A i \in 0 .. n - 1 : g[i + 1] = step[i][g[i]]
           None == {n \in Nat : \A g : ~ Run(n, g)}
<1>1. \A n \in Nat : \E g : Run(n, g)
  <2> SUFFICES ASSUME NEW k \in Nat, \A g : ~ Run(k, g) PROVE FALSE
    OBVIOUS
  <2>0. k \in None
    OBVIOUS
  <2>1. PICK n \in None : \A m \in None : n <= m
    <3>1. None \subseteq Nat /\ None # {}
      BY <2>0
    <3> HIDE DEF None
    <3> QED
      BY <3>1, LeastNatural
  <2>2. n \in Nat /\ \A g : ~ Run(n, g)
    OBVIOUS
  <2>3. CASE n = 0
    <3>1. Run(0, [i \in 0 .. 0 |-> x0])
      OBVIOUS
    <3> QED
      BY <2>2, <2>3, <3>1
  <2>4. CASE n # 0
    <3>1. n - 1 \in Nat /\ ~ (n <= n - 1)
      BY <2>2, <2>4
    <3>2. n - 1 \notin None
      BY <2>1, <3>1
    <3>3. PICK g : Run(n - 1, g)
      BY <3>1, <3>2
    <3>4. g[n - 1] \in X /\ step[n - 1][g[n - 1]] \in X
      BY <3>1, <3>3
    <3> DEFINE h == [i \in 0 .. n |-> IF i = n THEN step[n - 1][g[n - 1]] ELSE g[i]]
    <3>5. h \in [0 .. n -> X]
      BY <2>2, <3>3, <3>4
    <3>6. h[0] = x0 /\ h[n] = step[n - 1][g[n - 1]] /\ \A i \in 0 .. n - 1 : h[i] = g[i]
      BY <2>2, <2>4, <3>3
    <3> HIDE DEF h
    <3>7. ASSUME NEW i \in 0 .. n - 1 PROVE h[i + 1] = step[i][h[i]]
      <4>1. CASE i = n - 1
        <5>1. i + 1 = n
          BY <2>2, <4>1
        <5> QED
          BY <3>6, <4>1, <5>1
      <4>2. CASE i # n - 1
        <5>1. i \in 0 .. (n - 1) - 1 /\ i + 1 \in 0 .. n - 1
          BY <2>2, <4>2
        <5>2. g[i + 1] = step[i][g[i]]
          BY <3>3, <5>1
        <5> QED
          BY <3>6, <5>1, <5>2
      <4> QED
        BY <4>1, <4>2
    <3>8. Run(n, h)
      BY <3>5, <3>6, <3>7
    <3> QED
      BY <2>2, <3>8
  <2> QED
    BY <2>3, <2>4
<1>2. ASSUME NEW m \in Nat, NEW n \in Nat, NEW g, NEW h, Run(m, g), Run(n, h)
      PROVE  \A i \in Nat : i <= m /\ i <= n => g[i] = h[i]
  <2> DEFINE Apart == {i \in Nat : i <= m /\ i <= n /\ g[i] # h[i]}
  <2> SUFFICES ASSUME Apart # {} PROVE FALSE
    OBVIOUS
  <2>1. PICK i \in Apart : \A j \in Apart : i <= j
    <3>1. Apart \subseteq Nat
      OBVIOUS
    <3> HIDE DEF Apart
    <3> QED
      BY <3>1, LeastNatural
  <2>2. i \in Nat /\ i <= m /\ i <= n /\ g[i] # h[i]
    OBVIOUS
  <2>3. i # 0
    BY <1>2, <2>2
  <2>4. i - 1 \in Nat /\ i - 1 <= m /\ i - 1 <= n /\ ~ (i <= i - 1)
    BY <2>2, <2>3
  <2>5. i - 1 \notin Apart
    BY <2>1, <2>4
  <2>6. g[i - 1] = h[i - 1]
    BY <2>4, <2>5
  <2>7. i - 1 \in 0 .. m - 1 /\ i - 1 \in 0 .. n - 1 /\ (i - 1) + 1 = i
    BY <2>2, <2>4
  <2>8. g[i] = step[i - 1][g[i - 1]] /\ h[i] = step[i - 1][h[i - 1]]
    BY <1>2, <2>7
  <2> QED
    BY <2>2, <2>6, <2>8
<1> DEFINE run(n) == CHOOSE g : Run(n, g)
           f == [n \in Nat |-> run(n)[n]]
<1>3. \A n \in Nat : Run(n, run(n))
  <2> HIDE DEF Run
  <2> QED
    BY <1>1
<1> HIDE DEF run
<1>4. ASSUME NEW n \in Nat PROVE f[n] \in X
  BY <1>3
<1>5. f[0] = x0
  BY <1>3
<1>6. ASSUME NEW n \in Nat PROVE f[n + 1] = step[n][f[n]]
  <2>1. Run(n, run(n)) /\ Run(n + 1, run(n + 1)) /\ n + 1 \in Nat /\ n <= n /\ n <= n + 1
    BY <1>3
  <2>2. run(n + 1)[n] = run(n)[n]
    <3> HIDE DEF Run
    <3> QED
      BY <1>2, <2>1
  <2>3. n \in 0 .. (n + 1) - 1
    OBVIOUS
  <2>4. run(n + 1)[n + 1] = step[n][run(n + 1)[n]]
    BY <2>1, <2>3
  <2> QED
    BY <2>1, <2>2, <2>4
<1>7. Iterates(f, X, x0, step)
  BY <1>4, <1>5, <1>6 DEF Iterates
<1> QED
  BY <1>7

(* Induction, about a set rather than an operator.                         *)
LEMMA Induction ==
  ASSUME NEW T, 0 \in T, \A n \in Nat : n \in T => n + 1 \in T
  PROVE  Nat \subseteq T
<1> DEFINE Out == Nat \ T
<1> SUFFICES ASSUME Out # {} PROVE FALSE
  OBVIOUS
<1>1. PICK n \in Out : \A m \in Out : n <= m
  <2>1. Out \subseteq Nat
    OBVIOUS
  <2> HIDE DEF Out
  <2> QED
    BY <2>1, LeastNatural
<1>2. n - 1 \in Nat /\ ~ (n <= n - 1) /\ (n - 1) + 1 = n
  OBVIOUS
<1>3. n - 1 \in T
  BY <1>1, <1>2
<1> QED
  BY <1>2, <1>3

(* Induction up to a number.                                               *)
LEMMA InductionUpTo ==
  ASSUME NEW last \in Nat, NEW T, 0 \in T, \A n \in 1 .. last : n - 1 \in T => n \in T
  PROVE  0 .. last \subseteq T
<1> DEFINE U == {n \in Nat : n <= last => n \in T}
<1>1. 0 \in U
  OBVIOUS
<1>2. ASSUME NEW n \in Nat, n \in U PROVE n + 1 \in U
  <2> SUFFICES ASSUME n + 1 <= last PROVE n + 1 \in T
    OBVIOUS
  <2>1. n + 1 \in 1 .. last /\ (n + 1) - 1 = n /\ n \in T
    BY <1>2
  <2> QED
    BY <2>1
<1>3. Nat \subseteq U
  <2> HIDE DEF U
  <2> QED
    BY <1>1, <1>2, Induction
<1> QED
  BY <1>3

(* The same recursion, up to a number.                                     *)
IteratesTo(f, last, X, x0, step) ==
  /\ f \in [0 .. last -> X] /\ f[0] = x0
  /\ \A n \in 1 .. last : f[n] = step[n][f[n - 1]]

LEMMA IterationUpTo ==
  ASSUME NEW last \in Nat, NEW X, NEW x0 \in X, NEW step \in [1 .. last -> [X -> X]]
  PROVE  \E f : IteratesTo(f, last, X, x0, step)
<1> DEFINE next == [n \in Nat |-> IF n + 1 \in 1 .. last THEN step[n + 1] ELSE [x \in X |-> x]]
<1>1. next \in [Nat -> [X -> X]]
  OBVIOUS
<1>2. PICK f : Iterates(f, X, x0, next)
  <2> HIDE DEF next
  <2> QED
    BY <1>1, Iteration
<1>3. PICK g : g = [i \in 0 .. last |-> f[i]]
  OBVIOUS
<1>4. ASSUME NEW n \in 1 .. last PROVE g[n] = step[n][g[n - 1]]
  <2>1. n - 1 \in Nat /\ (n - 1) + 1 = n /\ n \in 0 .. last /\ n - 1 \in 0 .. last
    OBVIOUS
  <2>2. f[n] = next[n - 1][f[n - 1]] /\ g[n] = f[n] /\ g[n - 1] = f[n - 1]
    BY <1>2, <1>3, <2>1 DEF Iterates
  <2>3. next[n - 1] = step[n]
    BY <2>1
  <2> QED
    BY <2>2, <2>3
<1>5. g \in [0 .. last -> X] /\ g[0] = x0
  BY <1>2, <1>3 DEF Iterates
<1> QED
  BY <1>4, <1>5 DEF IteratesTo

(* A quotient and a rest are what division gives.                          *)
LEMMA DivisionIs ==
  ASSUME NEW n \in Nat, NEW m \in Nat \ {0}, NEW q \in Nat, NEW r \in 0 .. m - 1, n = q * m + r
  PROVE  n \div m = q
OBVIOUS

(* Dividing by a product is dividing twice.                                *)
LEMMA DivideTwice ==
  ASSUME NEW n \in Nat, NEW a \in Nat \ {0}, NEW b \in Nat \ {0}
  PROVE  n \div (b * a) = (n \div a) \div b
<1>1. PICK q \in Nat, r \in 0 .. a - 1 : n = q * a + r /\ n \div a = q
  OBVIOUS
<1>2. PICK p \in Nat, s \in 0 .. b - 1 : q = p * b + s /\ q \div b = p
  OBVIOUS
<1>3. b * a \in Nat \ {0}
  OBVIOUS
<1>4. n = p * (b * a) + (s * a + r)
  BY <1>1, <1>2
<1>5. s * a + r \in 0 .. b * a - 1
  <2>1. s * a <= (b - 1) * a
    OBVIOUS
  <2>2. (b - 1) * a = b * a - a
    OBVIOUS
  <2> QED
    BY <2>1, <2>2
<1>6. n \div (b * a) = p
  BY <1>3, <1>4, <1>5, DivisionIs
<1> QED
  BY <1>1, <1>2, <1>6

-----------------------------------------------------------------------------
(* A part of a sequence, by the number of members before it.               *)
LEMMA Slice ==
  ASSUME NEW V, NEW s \in Seq(V), NEW a \in Nat, NEW k \in Nat, a + k <= Len(s)
  PROVE  /\ SubSeq(s, a + 1, a + k) \in Seq(V) /\ Len(SubSeq(s, a + 1, a + k)) = k
         /\ \A i \in 1 .. k : SubSeq(s, a + 1, a + k)[i] = s[a + i]
<1>1. Len(s) \in Nat
  OBVIOUS
<1>2. PICK t : t = SubSeq(s, a + 1, a + k)
  OBVIOUS
<1>3. Len(t) = k
  BY <1>1, <1>2
<1>4. ASSUME NEW i \in 1 .. k PROVE t[i] = s[a + i]
  <2>1. PICK m \in Nat, n \in Nat : m = a + 1 /\ n = a + k
    OBVIOUS
  <2>2. i \in 1 .. n - m + 1 /\ m + i - 1 = a + i
    BY <2>1
  <2>3. SubSeq(s, m, n)[i] = s[m + i - 1]
    BY <2>2
  <2> QED
    BY <1>2, <2>1, <2>2, <2>3
<1>5. t \in Seq(V)
  BY <1>1, <1>2
<1> QED
  BY <1>2, <1>3, <1>4, <1>5

(* A part of a sequence with the member that follows it.                   *)
LEMMA OneMoreOf ==
  ASSUME NEW V, NEW ws \in Seq(V), NEW c \in Nat, NEW k \in Nat, c + k < Len(ws)
  PROVE  Append(SubSeq(ws, c + 1, c + k), ws[c + k + 1]) = SubSeq(ws, c + 1, c + k + 1)
<1>1. PICK s, t : s = SubSeq(ws, c + 1, c + k) /\ t = SubSeq(ws, c + 1, c + k + 1)
  OBVIOUS
<1>2. s \in Seq(V) /\ Len(s) = k /\ \A i \in 1 .. k : s[i] = ws[c + i]
  <2>1. c + k <= Len(ws)
    OBVIOUS
  <2> QED
    BY <1>1, <2>1, Slice
<1>3. t \in Seq(V) /\ Len(t) = k + 1 /\ \A i \in 1 .. k + 1 : t[i] = ws[c + i]
  <2>1. c + (k + 1) <= Len(ws) /\ k + 1 \in Nat /\ c + (k + 1) = c + k + 1
    OBVIOUS
  <2> QED
    BY <1>1, <2>1, Slice
<1>4. ws[c + k + 1] \in V
  OBVIOUS
<1>5. PICK u : u = Append(s, ws[c + k + 1])
  OBVIOUS
<1>6. u \in Seq(V) /\ Len(u) = k + 1 /\ u[k + 1] = ws[c + k + 1] /\ \A i \in 1 .. k : u[i] = s[i]
  BY <1>2, <1>4, <1>5
<1>7. \A i \in 1 .. k + 1 : u[i] = t[i]
  BY <1>2, <1>3, <1>6
<1>8. u = t
  BY <1>3, <1>6, <1>7
<1> QED
  BY <1>1, <1>5, <1>8

(* w is s followed by t.                                                   *)
Joins(w, s, t, V) ==
  /\ w \in Seq(V) /\ Len(w) = Len(s) + Len(t)
  /\ \A i \in 1 .. Len(s) : w[i] = s[i]
  /\ \A i \in 1 .. Len(t) : w[Len(s) + i] = t[i]

LEMMA Joined ==
  ASSUME NEW V, NEW s \in Seq(V), NEW t \in Seq(V)
  PROVE  Joins(s \o t, s, t, V)
<1>1. Len(s) \in Nat /\ Len(t) \in Nat
  OBVIOUS
<1>2. s \o t \in Seq(V) /\ Len(s \o t) = Len(s) + Len(t)
  OBVIOUS
<1>3. ASSUME NEW i \in 1 .. Len(s) PROVE (s \o t)[i] = s[i]
  BY <1>1
<1>4. ASSUME NEW i \in 1 .. Len(t) PROVE (s \o t)[Len(s) + i] = t[i]
  BY <1>1
<1> QED
  BY <1>2, <1>3, <1>4 DEF Joins

(* Sequences with the same members are the same.                           *)
LEMMA SameSequence ==
  ASSUME NEW V, NEW s \in Seq(V), NEW t \in Seq(V), Len(s) = Len(t),
         \A i \in 1 .. Len(s) : s[i] = t[i]
  PROVE  s = t
OBVIOUS

(* A part and the part that follows it are one part.                       *)
LEMMA SlicesJoin ==
  ASSUME NEW V, NEW s \in Seq(V), NEW a \in Nat, NEW k \in Nat, NEW j \in Nat, a + k + j <= Len(s)
  PROVE  SubSeq(s, a + 1, a + k) \o SubSeq(s, a + k + 1, a + k + j) = SubSeq(s, a + 1, a + k + j)
<1>1. PICK x, y, z, w : /\ x = SubSeq(s, a + 1, a + k) /\ y = SubSeq(s, a + k + 1, a + k + j)
                        /\ z = SubSeq(s, a + 1, a + k + j) /\ w = x \o y
  OBVIOUS
<1>2. x \in Seq(V) /\ Len(x) = k /\ \A i \in 1 .. k : x[i] = s[a + i]
  <2>1. a + k <= Len(s)
    OBVIOUS
  <2> QED
    BY <1>1, <2>1, Slice
<1>3. y \in Seq(V) /\ Len(y) = j /\ \A i \in 1 .. j : y[i] = s[a + k + i]
  <2>1. a + k \in Nat /\ (a + k) + j <= Len(s) /\ (a + k) + 1 = a + k + 1 /\ (a + k) + j = a + k + j
    OBVIOUS
  <2>2. PICK b \in Nat : b = a + k
    BY <2>1
  <2>3. y = SubSeq(s, b + 1, b + j) /\ b + j <= Len(s)
    BY <1>1, <2>1, <2>2
  <2>4. y \in Seq(V) /\ Len(y) = j /\ \A i \in 1 .. j : y[i] = s[b + i]
    BY <2>3, Slice
  <2> QED
    BY <2>2, <2>4
<1>4. z \in Seq(V) /\ Len(z) = k + j /\ \A i \in 1 .. k + j : z[i] = s[a + i]
  <2>1. k + j \in Nat /\ a + (k + j) = a + k + j
    OBVIOUS
  <2> QED
    BY <1>1, <2>1, Slice
<1>5. /\ w \in Seq(V) /\ Len(w) = k + j
      /\ \A i \in 1 .. k : w[i] = x[i]
      /\ \A i \in 1 .. j : w[k + i] = y[i]
  <2>1. x \in Seq(V) /\ y \in Seq(V) /\ Len(x) = k /\ Len(y) = j
    BY <1>2, <1>3
  <2>2. Joins(w, x, y, V)
    BY <1>1, <2>1, Joined
  <2> QED
    BY <2>1, <2>2 DEF Joins
<1>6. ASSUME NEW i \in 1 .. k + j PROVE w[i] = z[i]
  <2>1. CASE i <= k
    <3>1. i \in 1 .. k
      BY <2>1
    <3> QED
      BY <1>2, <1>4, <1>5, <3>1
  <2>2. CASE i > k
    <3>1. PICK m \in 1 .. j : i = k + m /\ a + k + m = a + i
      <4>1. i - k \in 1 .. j /\ i = k + (i - k) /\ a + k + (i - k) = a + i
        BY <2>2
      <4> QED
        BY <4>1
    <3> QED
      BY <1>3, <1>4, <1>5, <3>1
  <2> QED
    BY <2>1, <2>2
<1> QED
  BY <1>1, <1>4, <1>5, <1>6, SameSequence

(* What is appended is in no part that ends before it.                     *)
LEMMA SliceOfAppend ==
  ASSUME NEW V, NEW s \in Seq(V), NEW v \in V, NEW a \in Nat, NEW k \in Nat, a + k <= Len(s)
  PROVE  SubSeq(Append(s, v), a + 1, a + k) = SubSeq(s, a + 1, a + k)
<1>1. PICK x, y, t : x = SubSeq(s, a + 1, a + k) /\ t = Append(s, v) /\ y = SubSeq(t, a + 1, a + k)
  OBVIOUS
<1>2. Len(s) \in Nat /\ t \in Seq(V) /\ Len(t) = Len(s) + 1 /\ \A i \in 1 .. Len(s) : t[i] = s[i]
  BY <1>1
<1>3. a + k <= Len(t)
  BY <1>2
<1>4. x \in Seq(V) /\ Len(x) = k /\ \A i \in 1 .. k : x[i] = s[a + i]
  BY <1>1, Slice
<1>5. y \in Seq(V) /\ Len(y) = k /\ \A i \in 1 .. k : y[i] = t[a + i]
  BY <1>1, <1>2, <1>3, Slice
<1>6. ASSUME NEW i \in 1 .. k PROVE x[i] = y[i]
  <2>1. a + i \in 1 .. Len(s)
    BY <1>2
  <2> QED
    BY <1>2, <1>4, <1>5, <2>1
<1> QED
  BY <1>1, <1>4, <1>5, <1>6, SameSequence

(* The beginning of a part is a part.                                      *)
LEMMA SliceOfSlice ==
  ASSUME NEW V, NEW s \in Seq(V), NEW a \in Nat, NEW k \in Nat, NEW j \in 0 .. k, a + k <= Len(s)
  PROVE  SubSeq(SubSeq(s, a + 1, a + k), 1, j) = SubSeq(s, a + 1, a + j)
<1>1. PICK x, y, z : x = SubSeq(s, a + 1, a + k) /\ y = SubSeq(x, 1, j) /\ z = SubSeq(s, a + 1, a + j)
  OBVIOUS
<1>2. x \in Seq(V) /\ Len(x) = k /\ \A i \in 1 .. k : x[i] = s[a + i]
  BY <1>1, Slice
<1>3. y \in Seq(V) /\ Len(y) = j /\ \A i \in 1 .. j : y[i] = x[i]
  <2>1. PICK o \in Nat : o = 0 /\ o + 1 = 1 /\ o + j = j /\ j \in Nat /\ \A i \in 1 .. j : o + i = i
    OBVIOUS
  <2>2. y = SubSeq(x, o + 1, o + j) /\ o + j <= Len(x)
    BY <1>1, <1>2, <2>1
  <2> QED
    BY <1>2, <2>1, <2>2, Slice
<1>4. z \in Seq(V) /\ Len(z) = j /\ \A i \in 1 .. j : z[i] = s[a + i]
  <2>1. j \in Nat /\ a + j <= Len(s)
    OBVIOUS
  <2> QED
    BY <1>1, <2>1, Slice
<1>5. \A i \in 1 .. j : y[i] = z[i]
  BY <1>2, <1>3, <1>4
<1> QED
  BY <1>1, <1>3, <1>4, <1>5, SameSequence

(* Joining three sequences, either two first.                              *)
Associate(s, t, u) == (s \o t) \o u = s \o (t \o u)

LEMMA JoinedTwice ==
  ASSUME NEW V, NEW s \in Seq(V), NEW t \in Seq(V), NEW u \in Seq(V)
  PROVE  Associate(s, t, u)
<1>1. PICK x, y, l, r : x = s \o t /\ y = t \o u /\ l = x \o u /\ r = s \o y
  OBVIOUS
<1>2. Len(s) \in Nat /\ Len(t) \in Nat /\ Len(u) \in Nat
  OBVIOUS
<1>3. /\ x \in Seq(V) /\ Len(x) = Len(s) + Len(t)
      /\ \A i \in 1 .. Len(s) : x[i] = s[i]
      /\ \A i \in 1 .. Len(t) : x[Len(s) + i] = t[i]
  BY <1>1, Joined DEF Joins
<1>4. /\ y \in Seq(V) /\ Len(y) = Len(t) + Len(u)
      /\ \A i \in 1 .. Len(t) : y[i] = t[i]
      /\ \A i \in 1 .. Len(u) : y[Len(t) + i] = u[i]
  BY <1>1, Joined DEF Joins
<1>5. /\ l \in Seq(V) /\ Len(l) = Len(x) + Len(u)
      /\ \A i \in 1 .. Len(x) : l[i] = x[i]
      /\ \A i \in 1 .. Len(u) : l[Len(x) + i] = u[i]
  <2>1. Joins(l, x, u, V)
    BY <1>1, <1>3, Joined
  <2> QED
    BY <2>1 DEF Joins
<1>6. /\ r \in Seq(V) /\ Len(r) = Len(s) + Len(y)
      /\ \A i \in 1 .. Len(s) : r[i] = s[i]
      /\ \A i \in 1 .. Len(y) : r[Len(s) + i] = y[i]
  <2>1. Joins(r, s, y, V)
    BY <1>1, <1>4, Joined
  <2> QED
    BY <2>1 DEF Joins
<1>7. Len(l) = Len(r) /\ Len(l) = Len(s) + Len(t) + Len(u)
  BY <1>2, <1>3, <1>4, <1>5, <1>6
<1>8. ASSUME NEW i \in 1 .. Len(l) PROVE l[i] = r[i]
  <2>1. CASE i <= Len(s)
    <3>1. i \in 1 .. Len(s) /\ i \in 1 .. Len(x)
      BY <1>2, <1>3, <2>1
    <3> QED
      BY <1>3, <1>5, <1>6, <3>1
  <2>2. CASE Len(s) < i /\ i <= Len(s) + Len(t)
    <3>1. PICK j \in 1 .. Len(t) : i = Len(s) + j
      <4>1. i - Len(s) \in 1 .. Len(t) /\ i = Len(s) + (i - Len(s))
        BY <1>2, <1>7, <2>2
      <4> QED
        BY <4>1
    <3>2. i \in 1 .. Len(x) /\ j \in 1 .. Len(y)
      BY <1>2, <1>3, <1>4, <3>1
    <3>3. l[i] = x[i] /\ x[i] = t[j] /\ r[i] = y[j] /\ y[j] = t[j]
      BY <1>3, <1>4, <1>5, <1>6, <3>1, <3>2
    <3> QED
      BY <3>3
  <2>3. CASE Len(s) + Len(t) < i
    <3>1. PICK j \in 1 .. Len(u) : i = Len(s) + Len(t) + j
      <4>1. i - (Len(s) + Len(t)) \in 1 .. Len(u) /\ i = Len(s) + Len(t) + (i - (Len(s) + Len(t)))
        BY <1>2, <1>7, <2>3
      <4> QED
        BY <4>1
    <3>2. i = Len(x) + j /\ Len(t) + j \in 1 .. Len(y) /\ i = Len(s) + (Len(t) + j)
      BY <1>2, <1>3, <1>4, <3>1
    <3>3. l[i] = u[j] /\ r[i] = y[Len(t) + j] /\ y[Len(t) + j] = u[j]
      BY <1>4, <1>5, <1>6, <3>1, <3>2
    <3> QED
      BY <3>3
  <2> QED
    BY <1>2, <1>7, <2>1, <2>2, <2>3
<1>9. l = r
  BY <1>5, <1>6, <1>7, <1>8, SameSequence
<1> QED
  BY <1>1, <1>9 DEF Associate

(* s is the first Len(s) members of t.                                     *)
Begins(s, t) ==
  Len(s) <= Len(t) /\ \A i \in 1 .. Len(s) : s[i] = t[i]

LEMMA BeginsItself == ASSUME NEW s, Len(s) \in Nat PROVE Begins(s, s)
BY DEF Begins

(* A beginning of a beginning is one.                                      *)
LEMMA BeginsTransitive ==
  ASSUME NEW V, NEW s \in Seq(V), NEW t \in Seq(V), NEW u \in Seq(V), Begins(s, t), Begins(t, u)
  PROVE  Begins(s, u)
<1>1. Len(s) \in Nat /\ Len(t) \in Nat /\ Len(u) \in Nat
  OBVIOUS
<1> QED
  BY <1>1 DEF Begins

LEMMA BeginsJoined ==
  ASSUME NEW V, NEW s \in Seq(V), NEW t \in Seq(V)
  PROVE  Begins(s, s \o t)
<1>1. Len(s) \in Nat /\ Len(t) \in Nat
  OBVIOUS
<1> QED
  BY <1>1, Joined DEF Begins, Joins

(* What is joined to a beginning from the left begins the whole.           *)
LEMMA BeginsBoth ==
  ASSUME NEW V, NEW s \in Seq(V), NEW t \in Seq(V), NEW u \in Seq(V), Begins(t, u)
  PROVE  Begins(s \o t, s \o u)
<1>1. PICK l, r : l = s \o t /\ r = s \o u
  OBVIOUS
<1>2. Len(s) \in Nat /\ Len(t) \in Nat /\ Len(u) \in Nat
  OBVIOUS
<1>3. /\ l \in Seq(V) /\ Len(l) = Len(s) + Len(t)
      /\ \A i \in 1 .. Len(s) : l[i] = s[i]
      /\ \A i \in 1 .. Len(t) : l[Len(s) + i] = t[i]
  BY <1>1, Joined DEF Joins
<1>4. /\ r \in Seq(V) /\ Len(r) = Len(s) + Len(u)
      /\ \A i \in 1 .. Len(s) : r[i] = s[i]
      /\ \A i \in 1 .. Len(u) : r[Len(s) + i] = u[i]
  BY <1>1, Joined DEF Joins
<1>5. Len(t) <= Len(u) /\ \A i \in 1 .. Len(t) : t[i] = u[i]
  BY DEF Begins
<1>6. ASSUME NEW i \in 1 .. Len(l) PROVE l[i] = r[i]
  <2>1. CASE i <= Len(s)
    <3>1. i \in 1 .. Len(s)
      BY <1>2, <2>1
    <3> QED
      BY <1>3, <1>4, <3>1
  <2>2. CASE Len(s) < i
    <3>1. PICK j \in 1 .. Len(t) : i = Len(s) + j
      <4>1. i - Len(s) \in 1 .. Len(t) /\ i = Len(s) + (i - Len(s))
        BY <1>2, <1>3, <2>2
      <4> QED
        BY <4>1
    <3>2. j \in 1 .. Len(u)
      BY <1>2, <1>5
    <3> QED
      BY <1>3, <1>4, <1>5, <3>1, <3>2
  <2> QED
    BY <1>2, <2>1, <2>2
<1>7. Len(l) <= Len(r)
  BY <1>2, <1>3, <1>4, <1>5
<1> QED
  BY <1>1, <1>6, <1>7 DEF Begins

(* What follows the first a + o members, told by what follows the first a. *)
CutsElsewhere(before, rest, done, bytes, V) ==
  rest \in Seq(V) /\ before \o rest = done \o bytes

LEMMA CutElsewhere ==
  ASSUME NEW V, NEW done \in Seq(V), NEW bytes \in Seq(V), NEW before \in Seq(V), NEW o \in 0 .. Len(bytes),
         Len(before) = Len(done) + o, Begins(before, done \o bytes)
  PROVE  CutsElsewhere(before, SubSeq(bytes, o + 1, Len(bytes)), done, bytes, V)
<1>1. Len(bytes) \in Nat /\ Len(done) \in Nat
  OBVIOUS
<1>2. PICK l \in Nat : l = Len(bytes) - o /\ o + l = Len(bytes)
  <2>1. Len(bytes) - o \in Nat /\ o + (Len(bytes) - o) = Len(bytes)
    BY <1>1
  <2> QED
    BY <2>1
<1>3. PICK rest \in Seq(V) : /\ rest = SubSeq(bytes, o + 1, Len(bytes))
                             /\ Len(rest) = l /\ \A i \in 1 .. l : rest[i] = bytes[o + i]
  <2>1. PICK r : r = SubSeq(bytes, o + 1, o + l)
    OBVIOUS
  <2>2. o + l <= Len(bytes) /\ o \in Nat
    BY <1>1, <1>2
  <2>3. r \in Seq(V) /\ Len(r) = l /\ \A i \in 1 .. l : r[i] = bytes[o + i]
    BY <2>1, <2>2, Slice
  <2> QED
    BY <1>2, <2>1, <2>3
<1>4. PICK all, joined : all = done \o bytes /\ joined = before \o rest
  OBVIOUS
<1>5. /\ joined \in Seq(V) /\ Len(joined) = Len(before) + Len(rest)
      /\ \A i \in 1 .. Len(before) : joined[i] = before[i]
      /\ \A i \in 1 .. Len(rest) : joined[Len(before) + i] = rest[i]
  <2>1. Joins(joined, before, rest, V)
    BY <1>4, Joined
  <2> QED
    BY <2>1 DEF Joins
<1>6. /\ all \in Seq(V) /\ Len(all) = Len(done) + Len(bytes)
      /\ \A i \in 1 .. Len(bytes) : all[Len(done) + i] = bytes[i]
  <2>1. Joins(all, done, bytes, V)
    BY <1>4, Joined
  <2> QED
    BY <2>1 DEF Joins
<1>7. \A i \in 1 .. Len(before) : before[i] = all[i]
  BY <1>4 DEF Begins
<1>8. Len(joined) = Len(all) /\ Len(all) = Len(done) + o + l
  BY <1>1, <1>2, <1>3, <1>5, <1>6
<1>9. ASSUME NEW i \in 1 .. Len(all) PROVE joined[i] = all[i]
  <2>1. CASE i <= Len(done) + o
    <3>1. i \in 1 .. Len(before)
      BY <1>1, <2>1
    <3> QED
      BY <1>5, <1>7, <3>1
  <2>2. CASE Len(done) + o < i
    <3>1. PICK j \in 1 .. l : i = Len(done) + o + j
      <4>1. i - (Len(done) + o) \in 1 .. l /\ i = Len(done) + o + (i - (Len(done) + o))
        BY <1>1, <1>8, <2>2
      <4> QED
        BY <4>1
    <3>2. /\ j \in 1 .. Len(rest) /\ o + j \in 1 .. Len(bytes)
          /\ i = Len(done) + (o + j) /\ i = Len(before) + j
      BY <1>1, <1>2, <1>3, <3>1
    <3>3. joined[i] = rest[j] /\ rest[j] = bytes[o + j] /\ all[i] = bytes[o + j]
      BY <1>3, <1>5, <1>6, <3>1, <3>2
    <3> QED
      BY <3>3
  <2> QED
    BY <1>1, <1>8, <2>1, <2>2
<1>10. joined = all
  BY <1>5, <1>6, <1>8, <1>9, SameSequence
<1> QED
  BY <1>3, <1>4, <1>10 DEF CutsElsewhere

=============================================================================
