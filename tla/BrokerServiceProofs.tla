-------------------------- MODULE BrokerServiceProofs --------------------------
(* The broker implements QueueService, for every queue and every number of    *)
(* connections, whatever their clients ask for, cancel or drop.  Each step of *)
(* the broker is a step of the abstract queue, or changes nothing that it has. *)
(* What is on the way to a client is read off its answers in ascending order;  *)
(* so the first lemmas are about sets of numbers in that order.               *)
EXTENDS BrokerService, BrokerProofs, WellFoundedInduction

-----------------------------------------------------------------------------
(* Sets of numbers in ascending order *)

Enumerates(f, I) == f \in [1 .. Cardinality(I) -> I] /\ Ascends(f, I)

LEMMA LeastNat ==
  ASSUME NEW I, I \subseteq Nat, I # {}
  PROVE  \E i \in I : \A j \in I : i <= j
<1>1. PICK i \in I : \A j \in I : ~ (<<j, i>> \in OpToRel(<, Nat))
  BY WFMin, NatLessThanWellFounded
<1>2. \A j \in Nat : <<j, i>> \in OpToRel(<, Nat) <=> j < i
  BY DEF OpToRel
<1>3. \A j \in I : ~ (j < i)
  BY <1>1, <1>2
<1> QED
  BY <1>3

\* There is one way only: where two differ first, neither can have the smaller number.
LEMMA OneOrder ==
  ASSUME NEW I, I \subseteq Nat, IsFiniteSet(I), NEW f, NEW g, Enumerates(f, I), Enumerates(g, I)
  PROVE  f = g
<1> DEFINE N == Cardinality(I)
           D == {n \in 1 .. N : f[n] # g[n]}
<1>1. N \in Nat
  BY FS_CardinalityType
<1> HIDE DEF N
<1>2. /\ f \in [1 .. N -> I] /\ g \in [1 .. N -> I]
      /\ \A i \in I : (\E n \in 1 .. N : f[n] = i) /\ (\E n \in 1 .. N : g[n] = i)
      /\ \A m, n \in 1 .. N : m < n => f[m] < f[n] /\ g[m] < g[n]
  BY DEF Enumerates, Ascends, N
<1>3. CASE D = {}
  <2>1. \A n \in 1 .. N : f[n] = g[n]
    BY <1>3
  <2>2. f = [n \in 1 .. N |-> f[n]] /\ g = [n \in 1 .. N |-> g[n]]
    BY <1>2
  <2> QED
    BY <2>1, <2>2, Zenon
<1>4. CASE D # {}
  <2>0. D \subseteq Nat
    BY <1>1
  <2>1. PICK n \in D : \A m \in D : n <= m
    BY <1>4, <2>0, LeastNat, Zenon
  <2>2. n \in 1 .. N /\ f[n] \in I /\ g[n] \in I /\ f[n] # g[n]
    BY <1>2, <2>1
  <2>3. \A m \in 1 .. N : m < n => f[m] = g[m]
    BY <1>1, <2>1, <2>2
  <2>4. PICK a \in 1 .. N : g[a] = f[n]
    BY <1>2, <2>2
  <2>5. PICK b \in 1 .. N : f[b] = g[n]
    BY <1>2, <2>2
  <2>6. n < a
    <3>1. a # n
      BY <2>2, <2>4
    <3>2. ~ (a < n)
      <4>1. ASSUME a < n PROVE f[a] = f[n] /\ f[a] < f[n] /\ f[n] \in Nat
        BY <1>2, <2>2, <2>3, <2>4, <4>1
      <4> QED
        BY <4>1
    <3> QED
      BY <1>1, <2>2, <3>1, <3>2
  <2>7. n < b
    <3>1. b # n
      BY <2>2, <2>5
    <3>2. ~ (b < n)
      <4>1. ASSUME b < n PROVE g[b] = g[n] /\ g[b] < g[n] /\ g[n] \in Nat
        BY <1>2, <2>2, <2>3, <2>5, <4>1
      <4> QED
        BY <4>1
    <3> QED
      BY <1>1, <2>2, <3>1, <3>2
  <2>8. g[n] < g[a] /\ f[n] < f[b]
    BY <1>2, <2>2, <2>6, <2>7
  <2>9. g[n] < f[n] /\ f[n] < g[n]
    BY <2>4, <2>5, <2>8
  <2>10. f[n] \in Nat /\ g[n] \in Nat
    BY <2>2
  <2> QED
    BY <2>9, <2>10
<1> QED
  BY <1>3, <1>4

\* A number before all others.
LEMMA OrderPreceded ==
  ASSUME NEW I, I \subseteq Nat, IsFiniteSet(I), NEW x \in Nat, \A i \in I : x < i,
         NEW f, Enumerates(f, I)
  PROVE  \E g : Enumerates(g, I \cup {x})
<1> DEFINE N == Cardinality(I)
           J == I \cup {x}
           g == [n \in 1 .. N + 1 |-> IF n = 1 THEN x ELSE f[n - 1]]
<1>1. N \in Nat /\ Cardinality(J) = N + 1
  BY FS_CardinalityType, FS_AddElement
<1>2. /\ f \in [1 .. N -> I]
      /\ \A i \in I : \E n \in 1 .. N : f[n] = i
      /\ \A m, n \in 1 .. N : m < n => f[m] < f[n]
  BY DEF Enumerates, Ascends
<1> HIDE DEF N
<1>3. \A n \in 1 .. N + 1 : n # 1 => n - 1 \in 1 .. N
  BY <1>1
<1>4. \A n \in 1 .. N : n + 1 \in 1 .. N + 1 /\ n + 1 # 1 /\ (n + 1) - 1 = n
  BY <1>1
<1>5. 1 \in 1 .. N + 1 /\ g[1] = x
  BY <1>1
<1>6. g \in [1 .. N + 1 -> J]
  BY <1>2, <1>3
<1>7. ASSUME NEW i \in J PROVE \E n \in 1 .. N + 1 : g[n] = i
  <2>1. CASE i = x
    BY <1>5, <2>1
  <2>2. CASE i \in I
    <3>1. PICK n \in 1 .. N : f[n] = i
      BY <1>2, <2>2
    <3>2. g[n + 1] = i
      BY <1>4, <3>1
    <3> QED
      BY <1>4, <3>2
  <2> QED
    BY <2>1, <2>2
<1>8. ASSUME NEW m \in 1 .. N + 1, NEW n \in 1 .. N + 1, m < n PROVE g[m] < g[n]
  <2>1. n # 1 /\ n - 1 \in 1 .. N /\ g[n] = f[n - 1]
    BY <1>1, <1>8
  <2>2. CASE m = 1
    <3>1. f[n - 1] \in I /\ g[m] = x
      BY <1>2, <2>1, <2>2
    <3> QED
      BY <2>1, <3>1
  <2>3. CASE m # 1
    <3>1. m - 1 \in 1 .. N /\ g[m] = f[m - 1] /\ m - 1 < n - 1
      BY <1>1, <1>8, <2>3
    <3> QED
      BY <1>2, <2>1, <3>1
  <2> QED
    BY <2>2, <2>3
<1>9. DOMAIN g = 1 .. N + 1
  OBVIOUS
<1> HIDE DEF g
<1>10. Enumerates(g, J)
  BY <1>1, <1>6, <1>7, <1>8, <1>9 DEF Enumerates, Ascends
<1> QED
  BY <1>10

\* There is a way: in a smallest set without one, leave out the least number.
LEMMA SomeOrder ==
  ASSUME NEW I, I \subseteq Nat, IsFiniteSet(I)
  PROVE  \E f : Enumerates(f, I)
<1> DEFINE Without(J) == J \subseteq Nat /\ IsFiniteSet(J) /\ ~ \E f : Enumerates(f, J)
           D == {n \in Nat : \E J : Without(J) /\ Cardinality(J) = n}
<1> SUFFICES ASSUME ~ \E f : Enumerates(f, I) PROVE FALSE
  OBVIOUS
<1>1. Without(I) /\ Cardinality(I) \in Nat
  BY FS_CardinalityType
<1>2. D \subseteq Nat /\ D # {}
  BY <1>1
<1>3. PICK n \in D : \A m \in D : n <= m
  BY <1>2, LeastNat
<1>4. PICK J : Without(J) /\ Cardinality(J) = n
  BY <1>3
<1>5. J # {}
  <2> SUFFICES ASSUME J = {} PROVE FALSE
    OBVIOUS
  <2>1. Cardinality(J) = 0
    BY FS_EmptySet
  <2>2. << >> \in [1 .. 0 -> J] /\ DOMAIN << >> = {}
    OBVIOUS
  <2>3. Enumerates(<< >>, J)
    BY <2>1, <2>2 DEF Enumerates, Ascends
  <2> QED
    BY <1>4, <2>3
<1>6. PICK x \in J : \A j \in J : x <= j
  BY <1>4, <1>5, LeastNat
<1> DEFINE K == J \ {x}
<1>7. /\ K \subseteq Nat /\ IsFiniteSet(K) /\ Cardinality(K) = n - 1 /\ n - 1 \in Nat
  <2>1. IsFiniteSet(J) /\ J \subseteq Nat /\ x \in J
    BY <1>4, <1>6
  <2>2. IsFiniteSet(K) /\ Cardinality(K) = Cardinality(J) - 1
    BY <2>1, FS_RemoveElement
  <2>3. Cardinality(K) \in Nat
    BY <2>2, FS_CardinalityType
  <2> QED
    BY <1>4, <2>1, <2>2, <2>3
<1>8. K \cup {x} = J /\ x \in Nat /\ \A j \in K : x < j
  BY <1>4, <1>6
<1> HIDE DEF K
<1>9. ~ Without(K)
  <2>1. n - 1 \notin D
    BY <1>3, <1>7
  <2> QED
    BY <1>7, <2>1
<1>10. PICK f : Enumerates(f, K)
  BY <1>7, <1>9
<1>11. \E g : Enumerates(g, J)
  BY <1>7, <1>8, <1>10, OrderPreceded
<1> QED
  BY <1>4, <1>11

\* A sequence is the function of its elements.
LEMMA AsFunction ==
  ASSUME NEW S, NEW u \in Seq(S)
  PROVE  u = [n \in 1 .. Len(u) |-> u[n]]
  OBVIOUS

LEMMA TailAsFunction ==
  ASSUME NEW S, NEW u \in Seq(S), u # << >>
  PROVE  Tail(u) = [n \in 1 .. Len(u) - 1 |-> u[n + 1]]
<1> DEFINE v == Tail(u)
<1>1. v \in Seq(S) /\ Len(v) = Len(u) - 1 /\ \A n \in 1 .. Len(u) - 1 : v[n] = u[n + 1]
  OBVIOUS
<1> HIDE DEF v
<1>2. v = [n \in 1 .. Len(v) |-> v[n]]
  BY <1>1, AsFunction
<1>3. v = [n \in 1 .. Len(u) - 1 |-> u[n + 1]]
  BY <1>1, <1>2
<1> QED
  BY <1>3 DEF v

\* A number after all others.
LEMMA OrderFollowed ==
  ASSUME NEW I, I \subseteq Nat, IsFiniteSet(I), NEW x \in Nat, \A i \in I : i < x,
         NEW f, Enumerates(f, I),
         NEW g, g = [n \in 1 .. Cardinality(I) + 1 |-> IF n = Cardinality(I) + 1 THEN x ELSE f[n]]
  PROVE  Enumerates(g, I \cup {x}) /\ Cardinality(I \cup {x}) = Cardinality(I) + 1
<1> DEFINE N == Cardinality(I)
           J == I \cup {x}
<1>1. N \in Nat /\ Cardinality(J) = N + 1
  BY FS_CardinalityType, FS_AddElement
<1>2. /\ f \in [1 .. N -> I]
      /\ \A i \in I : \E n \in 1 .. N : f[n] = i
      /\ \A m, n \in 1 .. N : m < n => f[m] < f[n]
      /\ g = [n \in 1 .. N + 1 |-> IF n = N + 1 THEN x ELSE f[n]]
  BY DEF Enumerates, Ascends
<1>3. /\ \A n \in 1 .. N + 1 : n # N + 1 => n \in 1 .. N
      /\ \A n \in 1 .. N : n \in 1 .. N + 1 /\ n # N + 1
      /\ N + 1 \in 1 .. N + 1
  BY <1>1
<1> HIDE DEF N
<1>4. /\ DOMAIN g = 1 .. N + 1 /\ g[N + 1] = x
      /\ \A n \in 1 .. N : g[n] = f[n] /\ f[n] \in I
  BY <1>2, <1>3
<1>5. g \in [1 .. N + 1 -> J]
  BY <1>2, <1>3
<1>6. \A i \in J : \E n \in 1 .. N + 1 : g[n] = i
  BY <1>2, <1>3, <1>4
<1>7. ASSUME NEW m \in 1 .. N + 1, NEW n \in 1 .. N + 1, m < n PROVE g[m] < g[n]
  <2>1. m \in 1 .. N
    BY <1>1, <1>7
  <2>2. CASE n = N + 1
    BY <1>4, <2>1, <2>2
  <2>3. CASE n # N + 1
    BY <1>2, <1>3, <1>4, <1>7, <2>1, <2>3
  <2> QED
    BY <2>2, <2>3
<1>8. Enumerates(g, J)
  BY <1>1, <1>4, <1>5, <1>6, <1>7 DEF Enumerates, Ascends
<1> QED
  BY <1>1, <1>8 DEF N

\* The least number is the first; the others follow.
LEMMA OrderRest ==
  ASSUME NEW I, I \subseteq Nat, IsFiniteSet(I), NEW x \in I, \A i \in I : x <= i,
         NEW f, Enumerates(f, I),
         NEW g, g = [n \in 1 .. Cardinality(I) - 1 |-> f[n + 1]]
  PROVE  /\ Enumerates(g, I \ {x}) /\ Cardinality(I \ {x}) = Cardinality(I) - 1
         /\ f[1] = x /\ Cardinality(I) # 0
<1> DEFINE N == Cardinality(I)
           J == I \ {x}
<1>1. N \in Nat /\ Cardinality(J) = N - 1
  BY FS_CardinalityType, FS_RemoveElement
<1>2. /\ f \in [1 .. N -> I]
      /\ \A i \in I : \E n \in 1 .. N : f[n] = i
      /\ \A m, n \in 1 .. N : m < n => f[m] < f[n]
      /\ g = [n \in 1 .. N - 1 |-> f[n + 1]]
  BY DEF Enumerates, Ascends
<1> HIDE DEF N
<1>3. PICK a \in 1 .. N : f[a] = x
  BY <1>2
<1>4. /\ N # 0 /\ 1 \in 1 .. N
      /\ \A n \in 1 .. N - 1 : n + 1 \in 1 .. N /\ 1 < n + 1
      /\ \A n \in 1 .. N : n # 1 => n - 1 \in 1 .. N - 1 /\ (n - 1) + 1 = n
  BY <1>1, <1>3
<1>5. a = 1
  <2>1. f[1] \in I /\ f[1] \in Nat /\ x \in Nat /\ x <= f[1]
    BY <1>2, <1>4
  <2>2. 1 < a => f[1] < f[a]
    BY <1>2, <1>3, <1>4
  <2> QED
    BY <1>1, <1>3, <2>1, <2>2
<1>6. /\ DOMAIN g = 1 .. N - 1
      /\ \A n \in 1 .. N - 1 : g[n] = f[n + 1] /\ f[n + 1] \in I
  BY <1>2, <1>4
<1>7. \A n \in 1 .. N - 1 : g[n] \in J
  <2> TAKE n \in 1 .. N - 1
  <2>1. f[1] < f[n + 1] /\ f[1] = x /\ g[n] = f[n + 1] /\ f[n + 1] \in I
    BY <1>2, <1>3, <1>4, <1>5, <1>6
  <2> QED
    BY <2>1
<1>8. g \in [1 .. N - 1 -> J]
  BY <1>2, <1>7
<1>9. ASSUME NEW i \in J PROVE \E n \in 1 .. N - 1 : g[n] = i
  <2>1. PICK n \in 1 .. N : f[n] = i
    BY <1>2
  <2>2. n # 1
    BY <1>3, <1>5, <2>1
  <2>3. n - 1 \in 1 .. N - 1 /\ (n - 1) + 1 = n
    BY <1>4, <2>2
  <2>4. g[n - 1] = i
    BY <1>6, <2>1, <2>3
  <2> QED
    BY <2>3, <2>4
<1>10. ASSUME NEW m \in 1 .. N - 1, NEW n \in 1 .. N - 1, m < n PROVE g[m] < g[n]
  <2>1. m + 1 \in 1 .. N /\ n + 1 \in 1 .. N /\ m + 1 < n + 1
    BY <1>1, <1>4, <1>10
  <2> QED
    BY <1>2, <1>6, <2>1
<1>11. Enumerates(g, J)
  BY <1>1, <1>6, <1>8, <1>9, <1>10 DEF Enumerates, Ascends
<1> QED
  BY <1>1, <1>3, <1>4, <1>5, <1>11 DEF N

\* Every number is one less.
LEMMA OrderShifted ==
  ASSUME NEW I, I \subseteq Nat, 0 \notin I, IsFiniteSet(I), NEW f, Enumerates(f, I),
         NEW J, J = {i - 1 : i \in I},
         NEW g, g = [n \in 1 .. Cardinality(I) |-> f[n] - 1]
  PROVE  Enumerates(g, J) /\ Cardinality(J) = Cardinality(I)
<1> DEFINE N == Cardinality(I)
           h == [i \in I |-> i - 1]
<1>1. h \in Bijection(I, J)
  <2>1. h \in [I -> J]
    OBVIOUS
  <2>2. \A i, j \in I : h[i] = h[j] => i = j
    OBVIOUS
  <2>3. \A j \in J : \E i \in I : h[i] = j
    OBVIOUS
  <2> HIDE DEF h
  <2> QED
    BY <2>1, <2>2, <2>3 DEF Bijection, Injection, Surjection, IsInjective
<1>2. Cardinality(J) = N
  <2>1. ExistsBijection(I, J)
    BY <1>1 DEF ExistsBijection
  <2> QED
    BY <2>1, FS_Bijection
<1>3. /\ f \in [1 .. N -> I]
      /\ \A i \in I : \E n \in 1 .. N : f[n] = i
      /\ \A m, n \in 1 .. N : m < n => f[m] < f[n]
      /\ g = [n \in 1 .. N |-> f[n] - 1]
  BY DEF Enumerates, Ascends
<1> HIDE DEF N
<1>4. DOMAIN g = 1 .. N /\ \A n \in 1 .. N : g[n] = f[n] - 1 /\ f[n] \in I /\ f[n] \in Nat
  BY <1>3
<1>5. \A n \in 1 .. N : g[n] \in J
  BY <1>4
<1>6. g \in [1 .. N -> J]
  BY <1>3, <1>5
<1>7. ASSUME NEW j \in J PROVE \E n \in 1 .. N : g[n] = j
  <2>1. PICK i \in I : j = i - 1
    OBVIOUS
  <2>2. PICK n \in 1 .. N : f[n] = i
    BY <1>3
  <2> QED
    BY <1>4, <2>1, <2>2
<1>8. ASSUME NEW m \in 1 .. N, NEW n \in 1 .. N, m < n PROVE g[m] < g[n]
  <2>1. f[m] < f[n]
    BY <1>3, <1>8
  <2>2. g[m] = f[m] - 1 /\ g[n] = f[n] - 1 /\ f[m] \in Nat /\ f[n] \in Nat
    BY <1>4
  <2> QED
    BY <2>1, <2>2
<1>9. Enumerates(g, J)
  BY <1>2, <1>4, <1>6, <1>7, <1>8 DEF Enumerates, Ascends
<1> QED
  BY <1>2, <1>9 DEF N
-----------------------------------------------------------------------------
(* The messages that a sequence of answers carries *)

LEMMA CarriersTyped ==
  ASSUME NEW s \in Seq(Answers)
  PROVE  /\ Carriers(s) \subseteq 1 .. Len(s) /\ Carriers(s) \subseteq Nat
         /\ IsFiniteSet(Carriers(s)) /\ Cardinality(Carriers(s)) \in Nat
<1>1. Carriers(s) \subseteq 1 .. Len(s) /\ Len(s) \in Nat
  BY DEF Carriers
<1>2. IsFiniteSet(1 .. Len(s))
  BY <1>1, FS_Interval
<1> QED
  BY <1>1, <1>2, FS_Subset, FS_CardinalityType

\* Carried reads the carriers in ascending order.
LEMMA CarriedBy ==
  ASSUME NEW s \in Seq(Answers), NEW f, Enumerates(f, Carriers(s))
  PROVE  Carried(s) = [n \in 1 .. Cardinality(Carriers(s)) |-> s[f[n]].msg[1]]
<1> DEFINE g == InOrder(Carriers(s))
<1>1. Enumerates(g, Carriers(s))
  BY DEF Enumerates, InOrder
<1>2. g = f
  BY <1>1, CarriersTyped, OneOrder
<1>3. DOMAIN f = 1 .. Cardinality(Carriers(s))
  BY DEF Enumerates
<1> QED
  BY <1>2, <1>3 DEF Carried

LEMMA CarriedTyped ==
  ASSUME NEW s \in Seq(Answers)
  PROVE  Carried(s) \in Seq(Messages) /\ Len(Carried(s)) = Cardinality(Carriers(s))
<1> DEFINE N == Cardinality(Carriers(s))
<1>1. PICK f : Enumerates(f, Carriers(s))
  BY CarriersTyped, SomeOrder
<1>2. N \in Nat
  BY CarriersTyped
<1>3. \A n \in 1 .. N : s[f[n]].msg[1] \in Messages
  <2> TAKE n \in 1 .. N
  <2>1. f[n] \in Carriers(s)
    BY <1>1 DEF Enumerates
  <2>2. PICK p \in Messages : s[f[n]].msg = <<p>>
    BY <2>1 DEF Carriers
  <2>3. s[f[n]].msg[1] = p
    BY <2>2
  <2> QED
    BY <2>3
<1>4. Carried(s) = [n \in 1 .. N |-> s[f[n]].msg[1]]
  BY <1>1, CarriedBy
<1> HIDE DEF N
<1>5. Carried(s) \in Seq(Messages) /\ Len(Carried(s)) = N
  BY <1>2, <1>3, <1>4
<1> QED
  BY <1>5 DEF N

\* An answer without a message of the queue is written.
LEMMA CarriedSkips ==
  ASSUME NEW s \in Seq(Answers), NEW a \in Answers, \A p \in Messages : a.msg # <<p>>
  PROVE  Carried(Append(s, a)) = Carried(s)
<1> DEFINE t == Append(s, a)
<1>1. /\ t \in Seq(Answers) /\ DOMAIN t = DOMAIN s \cup {Len(s) + 1}
      /\ t[Len(s) + 1] = a /\ \A i \in DOMAIN s : t[i] = s[i]
  BY Extended
<1> HIDE DEF t
<1>2. Carriers(t) = Carriers(s)
  BY <1>1 DEF Carriers
<1>3. PICK f : Enumerates(f, Carriers(s))
  BY CarriersTyped, SomeOrder
<1> DEFINE N == Cardinality(Carriers(s))
<1>4. \A n \in 1 .. N : f[n] \in DOMAIN s
  BY <1>3, CarriersTyped DEF Enumerates
<1>5. \A n \in 1 .. N : t[f[n]].msg[1] = s[f[n]].msg[1]
  BY <1>1, <1>4
<1>6. Carried(s) = [n \in 1 .. N |-> s[f[n]].msg[1]]
  BY <1>3, CarriedBy
<1>7. Carried(t) = [n \in 1 .. N |-> t[f[n]].msg[1]]
  BY <1>1, <1>2, <1>3, CarriedBy
<1> HIDE DEF N
<1>8. Carried(t) = Carried(s)
  BY <1>5, <1>6, <1>7
<1> QED
  BY <1>8 DEF t
\* An answer with a message of the queue is written.
LEMMA CarriedGrows ==
  ASSUME NEW s \in Seq(Answers), NEW a \in Answers, NEW p \in Messages, a.msg = <<p>>
  PROVE  Carried(Append(s, a)) = Append(Carried(s), p)
<1> DEFINE t == Append(s, a)
           x == Len(s) + 1
           N == Cardinality(Carriers(s))
<1>1. /\ t \in Seq(Answers) /\ DOMAIN t = DOMAIN s \cup {x}
      /\ t[x] = a /\ \A i \in DOMAIN s : t[i] = s[i]
      /\ x \in Nat
  BY Extended
<1> HIDE DEF t
<1>2. Carriers(t) = Carriers(s) \cup {x}
  BY <1>1 DEF Carriers
<1>3. PICK f : Enumerates(f, Carriers(s))
  BY CarriersTyped, SomeOrder
<1>4. N \in Nat /\ \A i \in Carriers(s) : i < x /\ i \in DOMAIN s
  BY CarriersTyped
<1> DEFINE g == [n \in 1 .. N + 1 |-> IF n = N + 1 THEN x ELSE f[n]]
<1>5. Enumerates(g, Carriers(t)) /\ Cardinality(Carriers(t)) = N + 1
  <2>1. Carriers(s) \subseteq Nat /\ IsFiniteSet(Carriers(s))
    BY CarriersTyped
  <2> QED
    BY <1>1, <1>2, <1>3, <1>4, <2>1, OrderFollowed
<1>6. N + 1 \in 1 .. N + 1 /\ g[N + 1] = x /\ \A n \in 1 .. N : g[n] = f[n]
  <2>1. N + 1 \in 1 .. N + 1 /\ \A n \in 1 .. N : n \in 1 .. N + 1 /\ n # N + 1
    BY <1>4
  <2> QED
    BY <2>1
<1> HIDE DEF g
<1>7. Carried(s) = [n \in 1 .. N |-> s[f[n]].msg[1]]
  BY <1>3, CarriedBy
<1>8. Carried(s) \in Seq(Messages) /\ Len(Carried(s)) = N
  BY CarriedTyped
<1>9. Carried(t) = [n \in 1 .. N + 1 |-> t[g[n]].msg[1]]
  BY <1>1, <1>5, CarriedBy
<1>10. \A n \in 1 .. N : t[g[n]].msg[1] = Carried(s)[n]
  <2> TAKE n \in 1 .. N
  <2>1. g[n] = f[n]
    BY <1>6
  <2>2. f[n] \in Carriers(s)
    BY <1>3 DEF Enumerates
  <2>3. t[g[n]] = s[f[n]]
    BY <1>1, <1>4, <2>1, <2>2
  <2> QED
    BY <1>7, <2>3
<1>11. t[g[N + 1]].msg[1] = p
  <2>1. g[N + 1] = x
    BY <1>6
  <2>2. a.msg[1] = p
    OBVIOUS
  <2> QED
    BY <1>1, <2>1, <2>2
<1>12. /\ Append(Carried(s), p) \in Seq(Messages) /\ Len(Append(Carried(s), p)) = N + 1
       /\ \A n \in 1 .. N : Append(Carried(s), p)[n] = Carried(s)[n]
       /\ Append(Carried(s), p)[N + 1] = p
  BY <1>8, Extended
<1> HIDE DEF N, x
<1>13. \A n \in 1 .. N + 1 : n \in 1 .. N \/ n = N + 1
  BY <1>4
<1>14. \A n \in 1 .. N + 1 : t[g[n]].msg[1] = Append(Carried(s), p)[n]
  BY <1>10, <1>11, <1>12, <1>13
<1>15. Append(Carried(s), p) = [n \in 1 .. N + 1 |-> Append(Carried(s), p)[n]]
  BY <1>12, AsFunction
<1>16. Carried(t) = Append(Carried(s), p)
  BY <1>9, <1>14, <1>15
<1> QED
  BY <1>16 DEF t

\* The first answer is read.
LEMMA CarriedRead ==
  ASSUME NEW s \in Seq(Answers), s # << >>
  PROVE  /\ (\A p \in Messages : Head(s).msg # <<p>>) => Carried(Tail(s)) = Carried(s)
         /\ (\E p \in Messages : Head(s).msg = <<p>>) =>
              Carried(s) # << >> /\ Carried(Tail(s)) = Tail(Carried(s))
<1> DEFINE t == Tail(s)
           I == Carriers(s)
           N == Cardinality(I)
<1>1. /\ t \in Seq(Answers) /\ 1 \in DOMAIN s /\ Head(s) = s[1] /\ 0 \notin DOMAIN s
      /\ \A i \in DOMAIN t : i + 1 \in DOMAIN s /\ t[i] = s[i + 1] /\ i \in Nat /\ i + 1 # 1
      /\ \A i \in DOMAIN s : i \in Nat /\ i >= 1 /\ (i # 1 => i - 1 \in DOMAIN t /\ t[i - 1] = s[i])
  <2>1. Len(s) \in Nat /\ DOMAIN s = 1 .. Len(s) /\ 1 \in DOMAIN s
    BY Emptiness
  <2>2. /\ t \in Seq(Answers) /\ Head(s) = s[1] /\ DOMAIN t = 1 .. Len(s) - 1
        /\ \A i \in 1 .. Len(s) - 1 : t[i] = s[i + 1]
    BY <2>1
  <2> QED
    BY <2>1, <2>2
<1> HIDE DEF t
<1>2. I \subseteq Nat /\ IsFiniteSet(I) /\ N \in Nat /\ I \subseteq DOMAIN s /\ 0 \notin I
  BY <1>1, CarriersTyped
<1>3. PICK f : Enumerates(f, I)
  BY <1>2, SomeOrder
<1>4. Carried(s) = [n \in 1 .. N |-> s[f[n]].msg[1]]
  BY <1>3, CarriedBy
<1>5. Carriers(t) = {i - 1 : i \in I \ {1}}
  <2>1. ASSUME NEW i \in Carriers(t) PROVE i \in {j - 1 : j \in I \ {1}}
    <3>1. i + 1 \in I \ {1} /\ i = (i + 1) - 1
      <4>1. i \in DOMAIN t /\ \E p \in Messages : t[i].msg = <<p>>
        BY DEF Carriers
      <4>2. i + 1 \in DOMAIN s /\ t[i] = s[i + 1] /\ i \in Nat /\ i + 1 # 1
        BY <1>1, <4>1
      <4> QED
        BY <4>1, <4>2 DEF Carriers
    <3> QED
      BY <3>1
  <2>2. ASSUME NEW i \in I \ {1} PROVE i - 1 \in Carriers(t)
    <3>1. /\ i - 1 \in DOMAIN t /\ t[i - 1] = s[i]
          /\ \E p \in Messages : s[i].msg = <<p>>
      BY <1>1 DEF Carriers
    <3> QED
      BY <3>1 DEF Carriers
  <2> QED
    BY <2>1, <2>2
\* What is read from the rest, whichever order it has in s.
<1>6. ASSUME NEW h, Enumerates(h, I \ {1})
      PROVE  Carried(t) = [n \in 1 .. Cardinality(I \ {1}) |-> s[h[n]].msg[1]]
  <2> DEFINE R == I \ {1}
             M == Cardinality(R)
             e == [n \in 1 .. M |-> h[n] - 1]
  <2>1. R \subseteq Nat /\ 0 \notin R /\ IsFiniteSet(R)
    BY <1>2, FS_Subset
  <2>2. Enumerates(e, Carriers(t)) /\ Cardinality(Carriers(t)) = M
    BY <1>5, <1>6, <2>1, OrderShifted
  <2>3. \A n \in 1 .. M : e[n] = h[n] - 1
    OBVIOUS
  <2> HIDE DEF e
  <2>4. Carried(t) = [n \in 1 .. M |-> t[e[n]].msg[1]]
    <3>1. Carried(t) = [n \in 1 .. Cardinality(Carriers(t)) |-> t[e[n]].msg[1]]
      BY <1>1, <2>2, CarriedBy
    <3> HIDE DEF M
    <3> QED
      BY <2>2, <3>1
  <2>5. \A n \in 1 .. M : t[e[n]] = s[h[n]]
    <3> TAKE n \in 1 .. M
    <3>1. h[n] \in R /\ e[n] = h[n] - 1
      BY <1>6, <2>3 DEF Enumerates
    <3> QED
      BY <1>1, <1>2, <3>1
  <2> HIDE DEF M
  <2>6. Carried(t) = [n \in 1 .. M |-> s[h[n]].msg[1]]
    BY <2>4, <2>5
  <2> QED
    BY <2>6 DEF M
<1>7. ASSUME \A p \in Messages : Head(s).msg # <<p>> PROVE Carried(t) = Carried(s)
  <2>1. I \ {1} = I
    BY <1>1, <1>7 DEF Carriers
  <2> QED
    BY <1>3, <1>4, <1>6, <2>1
<1>8. ASSUME NEW p \in Messages, Head(s).msg = <<p>>
      PROVE  Carried(s) # << >> /\ Carried(t) = Tail(Carried(s))
  <2>1. 1 \in I /\ \A i \in I : 1 <= i
    BY <1>1, <1>2, <1>8 DEF Carriers
  <2> DEFINE h == [n \in 1 .. N - 1 |-> f[n + 1]]
  <2>2. Enumerates(h, I \ {1}) /\ Cardinality(I \ {1}) = N - 1 /\ N # 0
    <3>1. h = [n \in 1 .. Cardinality(I) - 1 |-> f[n + 1]]
      OBVIOUS
    <3>2. IsFiniteSet(I) /\ I \subseteq Nat /\ 1 \in I /\ \A i \in I : 1 <= i
      BY <1>2, <2>1
    <3>3. Enumerates(f, I)
      BY <1>3
    <3> HIDE DEF h, I
    <3> QED
      BY <3>1, <3>2, <3>3, OrderRest
  <2>3. Carried(t) = [n \in 1 .. N - 1 |-> s[h[n]].msg[1]]
    BY <1>6, <2>2
  <2>4. Carried(s) \in Seq(Messages) /\ Len(Carried(s)) = N
    BY CarriedTyped
  <2>5. Carried(s) # << >>
    BY <2>2, <2>4
  <2>6. Tail(Carried(s)) = [n \in 1 .. N - 1 |-> Carried(s)[n + 1]]
    BY <2>4, <2>5, TailAsFunction
  <2>7. \A n \in 1 .. N - 1 : Carried(s)[n + 1] = s[h[n]].msg[1]
    <3> TAKE n \in 1 .. N - 1
    <3>1. n + 1 \in 1 .. N /\ h[n] = f[n + 1]
      BY <1>2
    <3> QED
      BY <1>4, <3>1
  <2> HIDE DEF h, N
  <2> QED
    BY <2>3, <2>5, <2>6, <2>7
<1> QED
  BY <1>7, <1>8 DEF t
LEMMA CarriedNone == Carried(<< >>) = << >>
<1>1. << >> \in Seq(Answers) /\ Carriers(<< >>) = {}
  BY DEF Carriers
<1>2. Carried(<< >>) \in Seq(Messages) /\ Len(Carried(<< >>)) = 0
  BY <1>1, CarriedTyped, FS_EmptySet
<1> QED
  BY <1>2

-----------------------------------------------------------------------------
(* The broker implements QueueService *)

\* A payload is in the queue it is meant for.
InOwnQueue == \A q \in QueueNames : \A i \in DOMAIN queues[q] : QueueOf[queues[q][i]] = q

LEMMA InOwnQueueNext == TypeOK /\ ConnShape /\ InOwnQueue /\ [Next]_vars => InOwnQueue'
<1> SUFFICES ASSUME TypeOK, ConnShape, InOwnQueue, [Next]_vars PROVE InOwnQueue'
  OBVIOUS
<1>1. CASE queues' = queues
  BY <1>1 DEF InOwnQueue
<1>2. ASSUME NEW k \in Conns, HandleEnqueue(k) PROVE InOwnQueue'
  <2>1. PICK p \in Payloads : queues' = [queues EXCEPT ![QueueOf[p]] = Append(@, p)] /\ QueueOf[p] \in QueueNames
    BY <1>2, EnqueueEffect
  <2> SUFFICES ASSUME NEW q \in QueueNames, NEW i \in DOMAIN queues'[q] PROVE QueueOf[queues'[q][i]] = q
    BY DEF InOwnQueue
  <2>2. CASE q = QueueOf[p]
    <3>1. queues'[q] = Append(queues[q], p) /\ queues[q] \in Seq(Payloads)
      BY <2>1, <2>2 DEF TypeOK
    <3>2. (i \in DOMAIN queues[q] /\ queues'[q][i] = queues[q][i]) \/ queues'[q][i] = p
      BY <3>1, Extended
    <3> QED
      BY <2>2, <3>2 DEF InOwnQueue
  <2>3. CASE q # QueueOf[p]
    <3>1. queues'[q] = queues[q]
      BY <2>1, <2>3 DEF TypeOK
    <3> QED
      BY <3>1 DEF InOwnQueue
  <2> QED
    BY <2>2, <2>3
<1>3. ASSUME NEW n \in QueueNames, queues' = [queues EXCEPT ![n] = Tail(@)], queues[n] # << >>
      PROVE  InOwnQueue'
  <2> SUFFICES ASSUME NEW q \in QueueNames, NEW i \in DOMAIN queues'[q] PROVE QueueOf[queues'[q][i]] = q
    BY DEF InOwnQueue
  <2>1. CASE q = n
    <3>1. queues'[q] = Tail(queues[q]) /\ queues[q] \in Seq(Payloads) /\ queues[q] # << >>
      BY <1>3, <2>1 DEF TypeOK
    <3>2. i + 1 \in DOMAIN queues[q] /\ queues'[q][i] = queues[q][i + 1]
      BY <3>1
    <3> QED
      BY <3>2 DEF InOwnQueue
  <2>2. CASE q # n
    <3>1. queues'[q] = queues[q]
      BY <1>3, <2>2 DEF TypeOK
    <3> QED
      BY <3>1 DEF InOwnQueue
  <2> QED
    BY <2>1, <2>2
<1>4. ASSUME NEW k \in Conns, Deliver(k) PROVE InOwnQueue'
  <2>1. PICK q \in QueueNames : Asked(k) = Dequeue(q)
    BY <1>4, Handled, AskedTyped, RequestKinds DEF Answering
  <2>2. Asked(k).queue = q
    BY <2>1, RequestFields
  <2> QED
    BY <1>3, <1>4, <2>2 DEF Deliver
<1>5. ASSUME NEW k \in Conns, HandleClear(k) PROVE InOwnQueue'
  BY <1>5 DEF HandleClear, InOwnQueue, TypeOK
<1>6. CASE Halt
  BY <1>6 DEF Halt, InOwnQueue
<1>7. ASSUME NEW k \in Conns, ServerStep(k) PROVE InOwnQueue'
  <2>1. ASSUME HandleTooLong(k) \/ HandleDequeue(k) \/ HandlerEnds(k) \/ GetTimeout(k)
               \/ HandleSet(k) \/ HandleGet(k) \/ HandleOther(k)
        PROVE  queues' = queues
    BY <2>1 DEF HandleTooLong, HandleDequeue, HandlerEnds, GetTimeout, HandleSet, HandleGet,
       HandleOther, serverVars
  <2> QED
    BY <1>1, <1>2, <1>4, <1>5, <1>7, <2>1 DEF ServerStep
<1>8. ASSUME ~ Halt, \A k \in Conns : ~ ServerStep(k) PROVE queues' = queues
  BY <1>8 DEF Next, Connect, Send, CancelCall, Drop, ClientStep, Receive, CallFails, Stop, vars, serverVars
<1> QED
  BY <1>1, <1>6, <1>7, <1>8

Abstract == [Service!Next]_(Service!vars)

OnTheWay == [k \in Conns |-> Carried(responses[k])]

LEMMA ServiceInit == Init => Service!Init
<1> SUFFICES ASSUME Init PROVE Service!Init
  OBVIOUS
<1>1. \A k \in Conns : Carried(responses[k]) = << >>
  BY CarriedNone DEF Init
<1>2. Ghosts = {}
  BY DEF Init, Ghosts
<1>3. queues[Name] = << >>
  BY NameAssumption DEF Init
<1> QED
  BY <1>1, <1>2, <1>3 DEF Service!Init

\* The steps that the queue's clients do not notice.
LEMMA Unnoticed ==
  ASSUME queues'[Name] = queues[Name], \A k \in Conns : Carried(responses'[k]) = Carried(responses[k]),
         Ghosts' = Ghosts
  PROVE  Abstract
BY DEF Abstract, Service!vars

\* The coroutine of a client that is gone finds that out, or its dequeue times out.
LEMMA GhostGoes ==
  ASSUME queues'[Name] = queues[Name], \A k \in Conns : Carried(responses'[k]) = Carried(responses[k]),
         NEW k \in Conns, Ghosts' \in {Ghosts, Ghosts \ {k}}
  PROVE  Abstract
<1>1. CASE Ghosts' = Ghosts
  BY <1>1, Unnoticed
<1>2. CASE Ghosts' # Ghosts
  <2>1. k \in Ghosts /\ Ghosts' = Ghosts \ {k}
    BY <1>2
  <2>2. Service!GhostEnds(k)
    BY <2>1 DEF Service!GhostEnds
  <2> QED
    BY <2>2 DEF Abstract, Service!Next
<1> QED
  BY <1>1, <1>2

\* A client leaves, with what was on its way to it.
LEMMA ClientLeaves ==
  ASSUME TypeOK, queues' = queues, NEW k \in Conns, NEW how, Leave(k, how),
         Ghosts' \in {Ghosts, Ghosts \cup {k}}
  PROVE  Abstract
<1>1. Carried(responses'[k]) = << >> /\ \A l \in Conns \ {k} : responses'[l] = responses[l]
  BY CarriedNone DEF Leave, TypeOK
<1>2. OnTheWay' = [OnTheWay EXCEPT ![k] = << >>]
  BY <1>1 DEF OnTheWay
<1>3. Service!Leave(k)
  BY <1>2 DEF Service!Leave, OnTheWay
<1> QED
  BY <1>3 DEF Abstract, Service!Next

\* What an answer of the server adds to what is on the way.
LEMMA AnswerCarried ==
  ASSUME TypeOK, NEW k \in Conns, NEW msg \in {<< >>} \cup {<<p>> : p \in Payloads \cup Values},
         Answering(k, msg)
  PROVE  /\ \A l \in Conns \ {k} : responses'[l] = responses[l]
         /\ (~ Open(k) \/ \A p \in Messages : msg # <<p>>) =>
              \A l \in Conns : Carried(responses'[l]) = Carried(responses[l])
         /\ \A p \in Messages : Open(k) /\ msg = <<p>> =>
              Carried(responses'[k]) = Append(Carried(responses[k]), p)
<1> DEFINE a == [to |-> Asked(k), msg |-> msg]
<1>1. a \in Answers /\ a.msg = msg /\ responses[k] \in Seq(Answers)
  BY AskedTyped DEF Answers, Answering, TypeOK
<1>2. /\ \A l \in Conns \ {k} : responses'[l] = responses[l]
      /\ responses'[k] = IF Open(k) THEN Append(responses[k], a) ELSE responses[k]
  BY AnsweringEffect
<1> HIDE DEF a
<1>3. ASSUME Open(k), \A p \in Messages : msg # <<p>>
      PROVE  Carried(responses'[k]) = Carried(responses[k])
  BY <1>1, <1>2, <1>3, CarriedSkips
<1>4. ASSUME Open(k), NEW p \in Messages, msg = <<p>>
      PROVE  Carried(responses'[k]) = Append(Carried(responses[k]), p)
  BY <1>1, <1>2, <1>4, CarriedGrows
<1> QED
  BY <1>2, <1>3, <1>4

\* Only the end of a DEQUEUE can end a ghost.
LEMMA GhostsAnswered ==
  ASSUME TypeOK, NEW k \in Conns, NEW msg, Answering(k, msg)
  PROVE  /\ Ghosts' \in {Ghosts, Ghosts \ {k}}
         /\ Asked(k) # Dequeue(Name) \/ Open(k) => Ghosts' = Ghosts
<1> DEFINE Left(l) == link[l] \in {"closed", "dropped"}
           Pending(l) == \E i \in DOMAIN requests[l] : requests[l][i] = Dequeue(Name)
<1>1. link' = link
  BY AnsweringEffect DEF clientVars
<1>2. \A l \in Conns \ {k} : l \in Ghosts' <=> l \in Ghosts
  <2> TAKE l \in Conns \ {k}
  <2>1. requests'[l] = requests[l] /\ handler'[l] = handler[l]
    BY AnsweringEffect
  <2> QED
    BY <1>1, <2>1 DEF Ghosts, Dequeue
<1>3. /\ k \in Ghosts <=> Left(k) /\ Pending(k)
      /\ k \in Ghosts' <=> Left(k) /\ \E i \in DOMAIN Tail(requests[k]) : Tail(requests[k])[i] = Dequeue(Name)
  <2>1. handler[k] \in {"reading", "getting"} /\ handler'[k] \in {"reading", "getting"}
    BY AnsweringEffect
  <2>2. requests'[k] = Tail(requests[k])
    BY AnsweringEffect
  <2>3. k \in Ghosts <=> Left(k) /\ Pending(k)
    BY <2>1 DEF Ghosts
  <2>4. k \in Ghosts' <=> Left(k) /\ \E i \in DOMAIN requests'[k] : requests'[k][i] = Dequeue(Name)
    BY <1>1, <2>1 DEF Ghosts, Dequeue
  <2> QED
    BY <2>2, <2>3, <2>4
<1>4. requests[k] # << >> /\ requests[k] \in Seq(Requests)
  BY DEF Answering, TypeOK
<1>5. (\E i \in DOMAIN Tail(requests[k]) : Tail(requests[k])[i] = Dequeue(Name)) => Pending(k)
  BY <1>4, AskedTyped
<1>6. ASSUME Asked(k) # Dequeue(Name), Pending(k)
      PROVE  \E i \in DOMAIN Tail(requests[k]) : Tail(requests[k])[i] = Dequeue(Name)
  <2>1. PICK i \in DOMAIN requests[k] : requests[k][i] = Dequeue(Name)
    BY <1>6
  <2>2. i # 1
    BY <1>4, <1>6, <2>1, AskedTyped
  <2>3. i - 1 \in DOMAIN Tail(requests[k]) /\ Tail(requests[k])[i - 1] = requests[k][i]
    BY <1>4, <2>2
  <2> QED
    BY <2>1, <2>3
<1>7. Ghosts \subseteq Conns /\ Ghosts' \subseteq Conns
  BY DEF Ghosts
<1>8. Open(k) => ~ Left(k)
  BY DEF Open
<1> HIDE DEF Left, Pending
<1>9. k \in Ghosts' => k \in Ghosts
  BY <1>3, <1>5
<1>10. Asked(k) # Dequeue(Name) \/ Open(k) => (k \in Ghosts' <=> k \in Ghosts)
  BY <1>3, <1>5, <1>6, <1>8
<1> QED
  BY <1>2, <1>7, <1>9, <1>10
\* The steps at the clients' end, and stop().
LEMMA ClientSteps ==
  ASSUME TypeOK, ConnShape, NEW k \in Conns,
         \/ Connect(k) \/ \E r \in Offered[k] : Send(k, r)
         \/ CancelCall(k) \/ Drop(k) \/ ClientStep(k)
  PROVE  Abstract
<1>1. ASSUME UNCHANGED <<queues, responses, handler>>,
             \A l \in Conns \ {k} : link'[l] = link[l] /\ requests'[l] = requests[l],
             k \notin Ghosts, k \notin Ghosts'
      PROVE  Abstract
  <2>1. \A l \in Conns \ {k} : l \in Ghosts' <=> l \in Ghosts
    BY <1>1 DEF Ghosts, Dequeue
  <2>2. Ghosts' = Ghosts
    <3>1. Ghosts \subseteq Conns /\ Ghosts' \subseteq Conns
      BY DEF Ghosts
    <3> QED
      BY <1>1, <2>1, <3>1
  <2> QED
    BY <1>1, <2>2, Unnoticed
<1>2. ASSUME Connect(k) PROVE Abstract
  <2>1. link[k] = "new" /\ link'[k] = "open" /\ handler[k] = "none"
    <3>1. handler[k] = "none"
      BY <1>2 DEF Connect, ConnShape
    <3> QED
      BY <1>2, <3>1 DEF Connect, TypeOK
  <2> QED
    <3>1. Ghosts' = Ghosts
      <4>1. \A l \in Conns \ {k} : link'[l] = link[l] /\ requests'[l] = requests[l] /\ handler'[l] = handler[l]
        BY <1>2 DEF Connect, TypeOK
      <4>2. \A l \in Conns \ {k} : l \in Ghosts' <=> l \in Ghosts
        BY <4>1 DEF Ghosts, Dequeue
      <4>3. Ghosts \subseteq Conns /\ Ghosts' \subseteq Conns /\ k \notin Ghosts /\ k \notin Ghosts'
        BY <2>1 DEF Ghosts
      <4> QED
        BY <4>2, <4>3
    <3> QED
      BY <1>2, <3>1, Unnoticed DEF Connect
<1>3. ASSUME NEW r \in Offered[k], Send(k, r) PROVE Abstract
  <2>1. link[k] = "open" /\ link' = link
    BY <1>3 DEF Send, Open
  <2>2. k \notin Ghosts /\ k \notin Ghosts'
    BY <2>1 DEF Ghosts
  <2> QED
    BY <1>1, <1>3, <2>2 DEF Send, TypeOK, serverVars
<1>4. ASSUME CancelCall(k) PROVE Abstract
  <2>1. UNCHANGED <<queues, responses, link, handler, requests>>
    BY <1>4 DEF CancelCall, serverVars
  <2> QED
    BY <2>1, Unnoticed DEF Ghosts, Dequeue
<1>5. ASSUME Drop(k) PROVE Abstract
  <2>1. /\ Leave(k, "dropped") /\ UNCHANGED <<queues, requests, handler>>
        /\ \A l \in Conns \ {k} : link'[l] = link[l]
    BY <1>5 DEF Drop, Leave, TypeOK, serverVars
  <2>2. \A l \in Conns \ {k} : l \in Ghosts' <=> l \in Ghosts
    BY <2>1 DEF Ghosts, Dequeue
  <2>3. Ghosts \subseteq Conns /\ Ghosts' \subseteq Conns /\ k \notin Ghosts
    BY <1>5 DEF Ghosts, Drop, Open
  <2>4. Ghosts' \in {Ghosts, Ghosts \cup {k}}
    BY <2>2, <2>3
  <2> QED
    BY <2>1, <2>4, ClientLeaves
<1>6. ASSUME CallFails(k) PROVE Abstract
  <2>1. /\ handler[k] = "ended" /\ UNCHANGED <<queues, responses, requests, handler>>
        /\ \A l \in Conns \ {k} : link'[l] = link[l]
    BY <1>6 DEF CallFails, TypeOK, serverVars
  <2>2. k \notin Ghosts /\ k \notin Ghosts'
    BY <2>1 DEF Ghosts
  <2> QED
    BY <1>1, <2>1, <2>2
<1>7. ASSUME Receive(k), call[k].cmd = "CLOSE" PROVE Abstract
  <2>1. /\ Leave(k, "closed") /\ UNCHANGED <<queues, requests, handler>>
        /\ \A l \in Conns \ {k} : link'[l] = link[l]
    BY <1>7 DEF Receive, Leave, TypeOK, serverVars
  <2>2. \A l \in Conns \ {k} : l \in Ghosts' <=> l \in Ghosts
    BY <2>1 DEF Ghosts, Dequeue
  <2>3. Open(k)
    BY <1>7 DEF Receive, ConnShape
  <2>4. Ghosts \subseteq Conns /\ Ghosts' \subseteq Conns /\ k \notin Ghosts
    BY <2>3 DEF Ghosts, Open
  <2>5. Ghosts' \in {Ghosts, Ghosts \cup {k}}
    BY <2>2, <2>4
  <2> QED
    BY <2>1, <2>5, ClientLeaves
<1>8. ASSUME Receive(k), call[k].cmd # "CLOSE" PROVE Abstract
  <2>1. /\ responses' = [responses EXCEPT ![k] = Tail(@)] /\ responses[k] # << >>
        /\ UNCHANGED <<queues, requests, handler, link>>
    BY <1>8 DEF Receive, serverVars
  <2>2. Ghosts' = Ghosts
    BY <2>1 DEF Ghosts, Dequeue
  <2>3. /\ responses'[k] = Tail(responses[k]) /\ responses[k] \in Seq(Answers)
        /\ \A l \in Conns \ {k} : responses'[l] = responses[l]
    BY <2>1 DEF TypeOK
  <2>4. CASE \A p \in Messages : Head(responses[k]).msg # <<p>>
    <3>1. Carried(Tail(responses[k])) = Carried(responses[k])
      BY <2>1, <2>3, <2>4, CarriedRead
    <3> QED
      BY <2>1, <2>2, <2>3, <3>1, Unnoticed
  <2>5. CASE \E p \in Messages : Head(responses[k]).msg = <<p>>
    <3>1. /\ Carried(responses[k]) # << >>
          /\ Carried(responses'[k]) = Tail(Carried(responses[k]))
      BY <2>1, <2>3, <2>5, CarriedRead
    <3>2. OnTheWay' = [OnTheWay EXCEPT ![k] = Tail(@)] /\ OnTheWay[k] # << >>
      BY <2>3, <3>1 DEF OnTheWay
    <3>3. Service!Arrive(k)
      BY <2>1, <2>2, <3>2 DEF Service!Arrive, OnTheWay
    <3> QED
      BY <3>3 DEF Abstract, Service!Next
  <2> QED
    BY <2>4, <2>5
<1> QED
  BY <1>2, <1>3, <1>4, <1>5, <1>6, <1>7, <1>8 DEF ClientStep

\* An answer without a message ends a request other than one of this queue's.
LEMMA Replies ==
  ASSUME TypeOK, NEW k \in Conns, NEW msg \in {<< >>, stored}, Answering(k, msg),
         queues'[Name] = queues[Name]
  PROVE  Abstract
<1>1. \A p \in Messages : msg # <<p>>
  BY NoMessageIn DEF Messages
<1>2. msg \in {<< >>} \cup {<<p>> : p \in Payloads \cup Values}
  BY DEF TypeOK
<1>3. \A l \in Conns : Carried(responses'[l]) = Carried(responses[l])
  BY <1>1, <1>2, AnswerCarried
<1>4. Ghosts' \in {Ghosts, Ghosts \ {k}}
  BY GhostsAnswered
<1> QED
  BY <1>3, <1>4, GhostGoes

\* The steps of the coroutine of k.
LEMMA ServerSteps ==
  ASSUME TypeOK, ConnShape, InOwnQueue, NEW k \in Conns, ServerStep(k)
  PROVE  Abstract
<1>1. ASSUME HandleTooLong(k) \/ HandleDequeue(k) \/ HandlerEnds(k) PROVE Abstract
  <2>1. /\ UNCHANGED <<queues, responses, requests, link>>
        /\ \A l \in Conns \ {k} : handler'[l] = handler[l]
        /\ handler[k] = "reading" /\ handler'[k] \in {"getting", "ended"}
    BY <1>1 DEF HandleTooLong, HandleDequeue, HandlerEnds, Reads, TypeOK, clientVars
  <2>2. \A l \in Conns \ {k} : l \in Ghosts' <=> l \in Ghosts
    BY <2>1 DEF Ghosts, Dequeue
  <2>3. Ghosts \subseteq Conns /\ Ghosts' \subseteq Conns /\ (k \in Ghosts' => k \in Ghosts)
    BY <2>1 DEF Ghosts, Dequeue
  <2>4. Ghosts' \in {Ghosts, Ghosts \ {k}}
    BY <2>2, <2>3
  <2> QED
    BY <2>1, <2>4, GhostGoes
<1>2. ASSUME HandleSet(k) \/ HandleGet(k) \/ HandleOther(k) \/ GetTimeout(k) PROVE Abstract
  <2>1. queues' = queues
    BY <1>2 DEF HandleSet, HandleGet, HandleOther, GetTimeout, serverVars
  <2>2. PICK msg \in {<< >>, stored} : Answering(k, msg)
    BY <1>2, Handled
  <2> QED
    BY <2>1, <2>2, Replies
<1>3. ASSUME HandleEnqueue(k) PROVE Abstract
  <2>1. PICK p \in Payloads : queues' = [queues EXCEPT ![QueueOf[p]] = Append(@, p)] /\ QueueOf[p] \in QueueNames
    BY <1>3, EnqueueEffect
  <2>2. Answering(k, << >>) /\ Asked(k).cmd = "ENQUEUE"
    BY <1>3, Handled
  <2>3. CASE QueueOf[p] # Name
    <3>1. queues'[Name] = queues[Name]
      BY <2>1, <2>3, NameAssumption DEF TypeOK
    <3> QED
      BY <2>2, <3>1, Replies
  <2>4. CASE QueueOf[p] = Name
    <3>1. queues'[Name] = Append(queues[Name], p) /\ p \in Messages
      BY <2>1, <2>4 DEF TypeOK, Messages
    <3>2. \A n \in Messages : << >> # <<n>>
      OBVIOUS
    <3>3. \A l \in Conns : Carried(responses'[l]) = Carried(responses[l])
      BY <2>2, <3>2, AnswerCarried
    <3>4. Asked(k) # Dequeue(Name)
      BY <2>2, RequestFields, NameAssumption
    <3>5. Ghosts' = Ghosts
      BY <2>2, <3>4, GhostsAnswered
    <3>6. Service!Put(p)
      BY <3>1, <3>3, <3>5 DEF Service!Put
    <3> QED
      BY <3>1, <3>6 DEF Abstract, Service!Next
  <2> QED
    BY <2>3, <2>4
<1>4. ASSUME HandleClear(k) PROVE Abstract
  <2>1. Answering(k, << >>) /\ Asked(k).cmd = "CLEAR"
    BY <1>4, Handled
  <2>2. queues' = [queues EXCEPT ![Asked(k).queue] = << >>]
    BY <1>4 DEF HandleClear
  <2>3. CASE Asked(k).queue # Name
    <3>1. queues'[Name] = queues[Name]
      BY <2>2, <2>3, NameAssumption DEF TypeOK
    <3> QED
      BY <2>1, <3>1, Replies
  <2>4. CASE Asked(k).queue = Name
    <3>1. queues'[Name] = << >>
      BY <2>2, <2>4, NameAssumption DEF TypeOK
    <3>2. \A n \in Messages : << >> # <<n>>
      OBVIOUS
    <3>3. \A l \in Conns : Carried(responses'[l]) = Carried(responses[l])
      BY <2>1, <3>2, AnswerCarried
    <3>4. Ghosts' \in SUBSET Ghosts
      BY <2>1, GhostsAnswered
    <3>5. Service!Empty
      BY <3>1, <3>3, <3>4 DEF Service!Empty
    <3> QED
      BY <3>5 DEF Abstract, Service!Next
  <2> QED
    BY <2>3, <2>4
<1>5. ASSUME Deliver(k) PROVE Abstract
  <2>1. PICK q \in QueueNames : Asked(k) = Dequeue(q)
    BY <1>5, Handled, AskedTyped, RequestKinds DEF Answering
  <2>2. Asked(k).queue = q
    BY <2>1, RequestFields
  <2> DEFINE m == Head(queues[q])
  <2>3. /\ queues[q] # << >> /\ queues' = [queues EXCEPT ![q] = Tail(@)]
        /\ Answering(k, <<m>>) /\ handler[k] = "getting"
    BY <1>5, <2>2, Handled DEF Deliver
  <2>4. m \in Payloads /\ QueueOf[m] = q
    <3>1. queues[q] \in Seq(Payloads)
      BY DEF TypeOK
    <3>2. 1 \in DOMAIN queues[q] /\ m = queues[q][1] /\ m \in Payloads
      BY <2>3, <3>1, Emptiness
    <3> QED
      BY <3>2 DEF InOwnQueue
  <2>5. Ghosts' \in {Ghosts, Ghosts \ {k}} /\ (Open(k) => Ghosts' = Ghosts)
    BY <2>3, GhostsAnswered
  <2> HIDE DEF m
  <2>6. <<m>> \in {<< >>} \cup {<<p>> : p \in Payloads \cup Values}
    BY <2>4
  <2>7. CASE q # Name
    <3>1. queues'[Name] = queues[Name]
      BY <2>3, <2>7, NameAssumption DEF TypeOK
    <3>2. \A n \in Messages : <<m>> # <<n>>
      <4> TAKE n \in Messages
      <4>1. m # n
        BY <2>4, <2>7 DEF Messages
      <4>2. <<m>>[1] = m /\ <<n>>[1] = n
        OBVIOUS
      <4> QED
        BY <4>1, <4>2
    <3>3. \A l \in Conns : Carried(responses'[l]) = Carried(responses[l])
      BY <2>3, <2>6, <3>2, AnswerCarried
    <3> QED
      BY <2>5, <3>1, <3>3, GhostGoes
  <2>8. CASE q = Name
    <3>1. /\ queues[Name] # << >> /\ queues'[Name] = Tail(queues[Name])
          /\ m = Head(queues[Name]) /\ m \in Messages
      BY <2>3, <2>4, <2>8 DEF TypeOK, Messages, m
    <3>2. CASE Open(k)
      <4>1. /\ Carried(responses'[k]) = Append(Carried(responses[k]), m)
            /\ \A l \in Conns \ {k} : responses'[l] = responses[l]
        BY <2>3, <2>6, <3>1, <3>2, AnswerCarried
      <4>2. OnTheWay' = [OnTheWay EXCEPT ![k] = Append(@, m)]
        BY <4>1 DEF OnTheWay
      <4>3. Service!Hand(k)
        BY <2>5, <3>1, <3>2, <4>2 DEF Service!Hand, OnTheWay
      <4> QED
        BY <4>3 DEF Abstract, Service!Next
    <3>3. CASE ~ Open(k)
      <4>1. \A l \in Conns : Carried(responses'[l]) = Carried(responses[l])
        BY <2>3, <2>6, <3>3, AnswerCarried
      <4>2. k \in Ghosts
        <5>1. link[k] # "new"
          BY <2>3 DEF ConnShape
        <5>2. link[k] \in {"closed", "dropped"}
          BY <3>3, <5>1 DEF Open, TypeOK
        <5>3. requests[k] # << >> /\ requests[k][1] = Dequeue(Name)
          BY <2>1, <2>3, <2>8, AskedTyped DEF Answering
        <5>4. 1 \in DOMAIN requests[k]
          BY <5>3, Emptiness DEF TypeOK
        <5> QED
          BY <2>3, <5>2, <5>3, <5>4 DEF Ghosts
      <4>3. Service!Lose(k)
        BY <2>5, <3>1, <4>1, <4>2 DEF Service!Lose
      <4> QED
        BY <4>3 DEF Abstract, Service!Next
    <3> QED
      BY <3>2, <3>3
  <2> QED
    BY <2>7, <2>8
<1> QED
  BY <1>1, <1>2, <1>3, <1>4, <1>5 DEF ServerStep

LEMMA ServiceNext ==
  TypeOK /\ ConnShape /\ InOwnQueue /\ [Next]_vars => [Service!Next]_(Service!vars)
<1> SUFFICES ASSUME TypeOK, ConnShape, InOwnQueue, [Next]_vars PROVE Abstract
  BY DEF Abstract
<1>1. CASE Halt
  <2>1. /\ queues'[Name] = << >> /\ responses' = responses
        /\ \A k \in Conns : handler'[k] \notin {"reading", "getting"}
    BY <1>1, NameAssumption DEF Halt, clientVars
  <2>2. Ghosts' = {}
    BY <2>1 DEF Ghosts
  <2>3. Service!Empty
    BY <2>1, <2>2 DEF Service!Empty
  <2> QED
    BY <2>3 DEF Abstract, Service!Next
<1>2. CASE Stop \/ UNCHANGED vars
  <2>1. UNCHANGED <<queues, responses, link, handler, requests>>
    BY <1>2 DEF Stop, vars, serverVars, clientVars
  <2>2. Ghosts' = Ghosts
    BY <2>1 DEF Ghosts, Dequeue
  <2> QED
    BY <2>1, <2>2, Unnoticed
<1> QED
  BY <1>1, <1>2, ClientSteps, ServerSteps DEF Next

\* Each queue of the broker is, with its connections, what QueueService promises:
\* messages are handed out in order, each to one client, and lost only with the client they
\* were handed to or with one that went away while it waited.
THEOREM BrokerImplementsQueue == Spec => ImplementsQueue
<1>1. Init => InOwnQueue
  BY DEF Init, InOwnQueue
<1>2. Inductive => TypeOK /\ ConnShape
  BY DEF Inductive
<1>3. Spec => []InOwnQueue
  BY <1>1, <1>2, InOwnQueueNext, InductiveHolds, PTL DEF Spec
<1> QED
  BY <1>2, <1>3, InductiveHolds, ServiceInit, ServiceNext, PTL DEF Spec, Service!Spec, ImplementsQueue
=============================================================================
