---------------------------- MODULE QueueJobProofs ----------------------------
(***************************************************************************)
(* Proofs about QueueJob, for every finite set of jobs, every dependency   *)
(* between them, every capacity and retry limit, and any number of         *)
(* workers, users' actions and faults.                                     *)
(***************************************************************************)
EXTENDS QueueJob, JobOrder, FiniteSetTheorems, WellFoundedInduction, TLAPS

-------------------------------------------------------------------------------
(* The order in which the jobs of a graph are run directly, and the batches  *)
(* of split, for every graph and every size.                                 *)

(* A set of numbers has a least one: the less-than relation is well-founded. *)
LEMMA LeastNumber ==
  ASSUME NEW T \in SUBSET Nat, T # {}
  PROVE  \E x \in T : \A y \in T : x <= y
<1> DEFINE R == OpToRel(<, Nat)
<1>1. IsWellFoundedOn(R, Nat) BY NatLessThanWellFounded
<1>2. \A x, y \in Nat : y < x => <<y, x>> \in R BY DEF OpToRel
<1>3. \E x \in T : \A y \in T : ~(<<y, x>> \in R)
  <2> HIDE DEF R
  <2> QED BY <1>1, WFMin
<1>4. PICK Q : Q = R OBVIOUS
<1>5. PICK x \in T : \A y \in T : ~(<<y, x>> \in Q) BY <1>3, <1>4
<1>6. \A y \in T : ~(y < x) BY <1>2, <1>4, <1>5
<1> QED BY <1>6

(* A finite set of numbers can be put in order: otherwise take a smallest    *)
(* subset that cannot, and put its least number before the others.           *)
LEMMA OrderExists ==
  ASSUME NEW S \in SUBSET Nat, IsFiniteSet(S)
  PROVE  \E s \in [1..Cardinality(S) -> S] :
           \A i, k \in 1..Cardinality(S) : i < k => s[i] < s[k]
<1> DEFINE Order(R) == \E s \in [1..Cardinality(R) -> R] :
                         \A i, k \in 1..Cardinality(R) : i < k => s[i] < s[k]
           T == {n \in Nat : \E R \in SUBSET S : Cardinality(R) = n /\ ~Order(R)}
<1>1. SUFFICES ASSUME ~Order(S) PROVE FALSE OBVIOUS
<1>2. PICK n \in T : \A k \in T : n <= k
  <2>1. Cardinality(S) \in T BY <1>1, FS_CardinalityType
  <2>2. T \in SUBSET Nat /\ T # {} BY <2>1
  <2> HIDE DEF T
  <2> QED BY <2>2, LeastNumber
<1>3. PICK R \in SUBSET S : Cardinality(R) = n /\ ~Order(R) BY <1>2
<1>4. IsFiniteSet(R) /\ R \in SUBSET Nat /\ n \in Nat BY <1>2, FS_Subset
<1>5. R # {}
  <2>1. SUFFICES ASSUME R = {} PROVE FALSE OBVIOUS
  <2>2. n = 0 BY <1>3, <2>1, FS_EmptySet
  <2>3. [i \in 1..0 |-> i] \in [1..Cardinality(R) -> R] BY <1>3, <2>2
  <2> QED BY <1>3, <2>2, <2>3
<1>6. PICK x \in R : \A y \in R : x <= y BY <1>4, <1>5, LeastNumber
<1> DEFINE Q == R \ {x}
<1>7. Cardinality(Q) = n - 1 /\ Q \in SUBSET S /\ n - 1 \in Nat
  <2>1. IsFiniteSet(Q) /\ Cardinality(Q) = n - 1 BY <1>3, <1>4, FS_RemoveElement
  <2> QED BY <2>1, FS_CardinalityType
<1>8. Order(Q)
  <2>1. ~(n <= n - 1) BY <1>4
  <2> HIDE DEF Order
  <2> QED BY <1>2, <1>7, <2>1
<1>9. PICK s \in [1..(n - 1) -> Q] : \A i, k \in 1..(n - 1) : i < k => s[i] < s[k]
  BY <1>7, <1>8
<1> DEFINE h == [i \in 1..n |-> IF i = 1 THEN x ELSE s[i - 1]]
<1>10. h \in [1..n -> R]
  <2>1. \A i \in 1..n : i # 1 => s[i - 1] \in Q BY <1>4, <1>9
  <2> QED BY <2>1
<1>11. ASSUME NEW i \in 1..n, NEW k \in 1..n, i < k PROVE h[i] < h[k]
  <2>1. k - 1 \in 1..(n - 1) /\ k # 1 BY <1>4, <1>11
  <2>2. h[k] = s[k - 1] /\ s[k - 1] \in Q BY <1>9, <2>1
  <2>3. CASE i = 1
    <3>1. h[i] = x /\ x <= s[k - 1] /\ x # s[k - 1] BY <1>6, <2>2, <2>3
    <3>2. x \in Nat /\ s[k - 1] \in Nat BY <1>4, <2>2
    <3> HIDE DEF h
    <3> QED BY <2>2, <3>1, <3>2
  <2>4. CASE i # 1
    <3>1. i - 1 \in 1..(n - 1) /\ i - 1 < k - 1 BY <1>4, <1>11, <2>4
    <3>2. h[i] = s[i - 1] BY <2>4
    <3> QED BY <1>9, <2>1, <2>2, <3>1, <3>2
  <2> QED BY <2>3, <2>4
<1>12. Order(R)
  <2> HIDE DEF h
  <2> QED BY <1>3, <1>10, <1>11
<1> QED BY <1>3, <1>12

NoTwice(s) == \A i, k \in 1..Len(s) : s[i] = s[k] => i = k

LEMMA OnceFits ==
  ASSUME NEW V, IsFiniteSet(V), NEW t \in Seq(V), NoTwice(t)
  PROVE  Len(t) <= Cardinality(V) /\ (Elements(t) = V => Len(t) = Cardinality(V))
<1>1. PICK n \in Nat : n = Len(t) OBVIOUS
<1>2. t \in [1..n -> V] BY <1>1
<1>3. t \in Injection(1..n, V) BY <1>1, <1>2 DEF NoTwice, Injection, IsInjective
<1>4. Cardinality(1..n) = n BY FS_Interval
<1>5. Elements(t) = V => t \in Surjection(1..n, V)
  BY <1>1, <1>2 DEF Elements, Surjection
<1> QED BY <1>1, <1>3, <1>4, <1>5, FS_Injection

LEMMA OrderedOnce ==
  ASSUME NEW S \in SUBSET Nat, IsFiniteSet(S)
  PROVE  Ordered(S) \in Seq(S) /\ NoTwice(Ordered(S)) /\ Elements(Ordered(S)) = S
<1> DEFINE n == Cardinality(S)
           s == Ordered(S)
<1>1. n \in Nat BY FS_CardinalityType
<1>2. s \in [1..n -> S] /\ \A i, k \in 1..n : i < k => s[i] < s[k]
  BY OrderExists DEF Ordered
<1>3. s \in Seq(S) /\ Len(s) = n BY <1>1, <1>2
<1>4. ASSUME NEW i \in 1..n, NEW k \in 1..n, s[i] = s[k] PROVE i = k
  <2>1. ~(s[i] < s[k]) /\ ~(s[k] < s[i])
    <3>1. s[i] \in Nat /\ s[k] \in Nat BY <1>2
    <3>2. PICK a, b : a = s[i] /\ b = s[k] OBVIOUS
    <3>3. a \in Nat /\ b = a BY <1>4, <3>1, <3>2
    <3>4. ~(a < b) /\ ~(b < a) BY <3>3
    <3> QED BY <3>2, <3>4
  <2>2. ~(i < k) /\ ~(k < i) BY <1>2, <2>1
  <2> QED BY <1>1, <2>2
<1>5. s \in Injection(1..n, S)
  <2> HIDE DEF s
  <2> QED BY <1>2, <1>4 DEF Injection, IsInjective
<1>6. Cardinality(1..n) = n
  BY <1>1, FS_Interval
<1>7. s \in Surjection(1..n, S) BY <1>5, <1>6, FS_Injection
<1>8. Elements(s) = S
  <2> HIDE DEF s
  <2> QED BY <1>2, <1>3, <1>7 DEF Elements, Surjection
<1> QED BY <1>3, <1>4, <1>8 DEF NoTwice


(* The sort after each job it yields: those yielded and those of the queue   *)
(* are jobs, each once; what each of them depends on was yielded before it;  *)
(* and a job whose dependencies were all yielded is among them.              *)
Line(x) == x.yielded \o x.queue
Sorting(V, E, x) ==
    /\ x = [queue |-> x.queue, yielded |-> x.yielded]
    /\ x.yielded \in Seq(V) /\ x.queue \in Seq(V)
    /\ NoTwice(Line(x))
    /\ \A k \in 1..Len(Line(x)) : \A d \in Dependencies(E, Line(x)[k]) :
         \E i \in 1..Len(x.yielded) : i < k /\ Line(x)[i] = d
    /\ \A j \in V : Dependencies(E, j) \subseteq Elements(x.yielded) => j \in Elements(Line(x))

LEMMA StartSorts ==
  ASSUME NEW V \in SUBSET Nat, IsFiniteSet(V), NEW E
  PROVE  Sorting(V, E, Start(V, E)) /\ Start(V, E).yielded = <<>>
<1> DEFINE S == {j \in V : Dependencies(E, j) = {}}
           q == Ordered(S)
           x == Start(V, E)
<1>1. S \in SUBSET Nat /\ IsFiniteSet(S) BY FS_Subset
<1>2. q \in Seq(S) /\ NoTwice(q) /\ Elements(q) = S
  <2> HIDE DEF S
  <2> QED BY <1>1, OrderedOnce
<1>3. x = [queue |-> q, yielded |-> <<>>] BY DEF Start
<1>4. q \in Seq(V) /\ \A k \in 1..Len(q) : q[k] \in S
  <2>1. S \subseteq V OBVIOUS
  <2> HIDE DEF S, q
  <2>2. Len(q) \in Nat /\ q \in [1..Len(q) -> S] BY <1>2
  <2>3. q \in [1..Len(q) -> V] BY <2>1, <2>2
  <2> QED BY <2>2, <2>3
<1>5. Line(x) = q
  <2> HIDE DEF q
  <2> QED BY <1>3, <1>4 DEF Line
<1>6. \A k \in 1..Len(q) : Dependencies(E, q[k]) = {}
  <2> HIDE DEF q
  <2> QED BY <1>4
<1>7. \A j \in V : Dependencies(E, j) \subseteq Elements(<<>>) => j \in Elements(q)
  <2>1. Elements(<<>>) = {} BY DEF Elements
  <2> HIDE DEF q
  <2> QED BY <1>2, <2>1
<1>8. Sorting(V, E, x)
  <2> HIDE DEF q, x, S
  <2>1. x.queue = q /\ x.yielded = <<>> /\ <<>> \in Seq(V) BY <1>3
  <2> QED BY <1>2, <1>3, <1>4, <1>5, <1>6, <1>7, <2>1 DEF Sorting
<1> QED BY <1>3, <1>8

(* Yielding a job moves it over; the line is the old one, longer. *)
LEMMA LineGrows ==
  ASSUME NEW V, NEW y \in Seq(V), NEW q \in Seq(V), q # <<>>, NEW f \in Seq(V)
  PROVE  /\ Append(y, Head(q)) \o (Tail(q) \o f) = (y \o q) \o f
         /\ Head(q) = (y \o q)[Len(y) + 1] /\ Head(q) \in V /\ Tail(q) \in Seq(V)
<1>1. Len(q) \in Nat \ {0} /\ Len(y) \in Nat /\ Len(f) \in Nat OBVIOUS
<1>2. Tail(q) \in Seq(V) /\ Head(q) = q[1] /\ q[1] \in V
      /\ Len(Tail(q)) = Len(q) - 1 /\ \A i \in 1..(Len(q) - 1) : Tail(q)[i] = q[i + 1]
  BY <1>1
<1> DEFINE a == Append(y, Head(q)) \o (Tail(q) \o f)
           b == (y \o q) \o f
<1>3. a \in Seq(V) /\ b \in Seq(V) BY <1>2
<1>4. Len(a) = Len(b) BY <1>1, <1>2
<1>5. ASSUME NEW i \in 1..Len(b) PROVE a[i] = b[i]
  <2>1. CASE i <= Len(y) BY <1>1, <1>2, <2>1
  <2>2. CASE i = Len(y) + 1 BY <1>1, <1>2, <2>2
  <2>3. CASE i > Len(y) + 1 /\ i <= Len(y) + Len(q)
    <3>1. a[i] = Tail(q)[i - Len(y) - 1] BY <1>1, <1>2, <2>3
    <3>2. b[i] = q[i - Len(y)] BY <1>1, <1>2, <2>3
    <3>3. i - Len(y) - 1 \in 1..(Len(q) - 1) BY <1>1, <2>3
    <3> QED BY <1>1, <1>2, <3>1, <3>2, <3>3
  <2>4. CASE i > Len(y) + Len(q)
    <3>1. a[i] = f[i - Len(y) - Len(q)] BY <1>1, <1>2, <2>4
    <3>2. b[i] = f[i - Len(y) - Len(q)] BY <1>1, <1>2, <2>4
    <3> QED BY <3>1, <3>2
  <2> QED BY <1>1, <2>1, <2>2, <2>3, <2>4
<1>6. a = b
  <2> HIDE DEF a, b
  <2> QED BY <1>3, <1>4, <1>5
<1>7. Head(q) = (y \o q)[Len(y) + 1] BY <1>1, <1>2
<1> QED BY <1>2, <1>6, <1>7

LEMMA YieldSorts ==
  ASSUME NEW V \in SUBSET Nat, IsFiniteSet(V), NEW E \in SUBSET (V \X V), NEW x, Sorting(V, E, x), x.queue # <<>>
  PROVE  /\ Sorting(V, E, Yield(V, E, x))
         /\ Len(Yield(V, E, x).yielded) = Len(x.yielded) + 1
<1> DEFINE y == x.yielded
           q == x.queue
           v == Head(q)
           seen == Elements(y) \cup {v}
           free == {j \in V : <<v, j>> \in E /\ Dependencies(E, j) \subseteq seen}
           f == Ordered(free)
           t == Line(x)
           z == Yield(V, E, x)
<1>1. y \in Seq(V) /\ q \in Seq(V) /\ q # <<>> /\ t = y \o q /\ NoTwice(t)
  BY DEF Sorting, Line
<1>2. f \in Seq(free) /\ f \in Seq(V) /\ NoTwice(f) /\ Elements(f) = free
  <2>1. free \in SUBSET V /\ free \in SUBSET Nat /\ IsFiniteSet(free) BY FS_Subset
  <2> HIDE DEF free
  <2>2. f \in Seq(free) /\ NoTwice(f) /\ Elements(f) = free BY <2>1, OrderedOnce
  <2> HIDE DEF f
  <2>3. Len(f) \in Nat /\ f \in [1..Len(f) -> free] BY <2>2
  <2>4. f \in [1..Len(f) -> V] BY <2>1, <2>3
  <2> QED BY <2>2, <2>3, <2>4
<1>3. z = [queue |-> Tail(q) \o f, yielded |-> Append(y, v)]
  <2> HIDE DEF f
  <2> QED BY <1>1 DEF Yield, f
<1> HIDE DEF f, free
<1>4. Line(z) = t \o f /\ v = t[Len(y) + 1] /\ v \in V /\ Tail(q) \in Seq(V)
  <2>1. Line(z) = Append(y, v) \o (Tail(q) \o f)
    <3> HIDE DEF z, y, q, v
    <3> QED BY <1>3 DEF Line
  <2>2. /\ Append(y, Head(q)) \o (Tail(q) \o f) = (y \o q) \o f
        /\ Head(q) = (y \o q)[Len(y) + 1] /\ Head(q) \in V /\ Tail(q) \in Seq(V)
    <3> HIDE DEF y, q, t
    <3>1. y \in Seq(V) /\ q \in Seq(V) /\ q # <<>> /\ f \in Seq(V) BY <1>1, <1>2
    <3> QED BY <3>1, LineGrows
  <2> HIDE DEF z, y, q, t
  <2> QED BY <1>1, <2>1, <2>2
<1> HIDE DEF q, v, t, z
<1>5. /\ z = [queue |-> z.queue, yielded |-> z.yielded]
      /\ z.yielded \in Seq(V) /\ z.queue \in Seq(V) /\ Len(z.yielded) = Len(y) + 1
      /\ Elements(z.yielded) = seen
  <2>1. Tail(q) \o f \in Seq(V) /\ Append(y, v) \in Seq(V) /\ Len(Append(y, v)) = Len(y) + 1
    BY <1>1, <1>2, <1>4
  <2>2. Elements(Append(y, v)) = seen
    <3> DEFINE a == Append(y, v)
    <3>1. /\ Len(y) \in Nat /\ Len(a) = Len(y) + 1 /\ a[Len(y) + 1] = v
          /\ \A i \in 1..Len(y) : a[i] = y[i]
      BY <1>1, <1>4
    <3>2. \A i \in 1..(Len(y) + 1) : i \in 1..Len(y) \/ i = Len(y) + 1 BY <3>1
    <3>3. \A i \in 1..Len(y) : i \in 1..(Len(y) + 1) BY <3>1
    <3>4. Len(y) + 1 \in 1..(Len(y) + 1) BY <3>1
    <3> HIDE DEF a
    <3> QED BY <3>1, <3>2, <3>3, <3>4 DEF Elements
  <2> QED BY <1>3, <2>1, <2>2
<1> DEFINE n == Len(t)
           m == Len(f)
           u == t \o f
<1>6. /\ n \in Nat /\ m \in Nat /\ Len(y) \in Nat /\ Len(y) + 1 <= n /\ t \in Seq(V)
      /\ Len(u) = n + m
      /\ \A i \in 1..n : u[i] = t[i]
      /\ \A i \in 1..(n + m) : i > n => u[i] = f[i - n] /\ i - n \in 1..m
      /\ \A i \in 1..Len(y) : t[i] = y[i]
  BY <1>1, <1>2
<1>7. \A k \in 1..n : \A d \in Dependencies(E, t[k]) : \E i \in 1..Len(y) : i < k /\ t[i] = d
  BY DEF Sorting, t
<1>8. \A j \in V : Dependencies(E, j) \subseteq Elements(y) => j \in Elements(t)
  BY DEF Sorting, t
<1>9. \A j \in free : v \in Dependencies(E, j) /\ Dependencies(E, j) \subseteq seen /\ j \in V
  <2>1. ASSUME NEW j, <<v, j>> \in E PROVE v \in Dependencies(E, j)
    <3>1. <<v, j>>[1] = v /\ <<v, j>>[2] = j OBVIOUS
    <3> QED BY <2>1, <3>1 DEF Dependencies
  <2> QED BY <2>1 DEF free
<1> HIDE DEF u, n, m
(* What is freed by v is not in the line: what is there does not need v. *)
<1>10. ASSUME NEW k \in 1..n PROVE t[k] \notin free
  <2>1. SUFFICES ASSUME v \in Dependencies(E, t[k]) PROVE FALSE BY <1>9
  <2>2. PICK i \in 1..Len(y) : t[i] = v BY <1>7, <2>1
  <2>3. i \in 1..n /\ Len(y) + 1 \in 1..n /\ i # Len(y) + 1 BY <1>6
  <2> QED BY <1>1, <1>4, <2>2, <2>3 DEF NoTwice, n
<1>11. \A i \in 1..m : f[i] \in free BY <1>2 DEF Elements, m
<1>12. NoTwice(u)
  <2> SUFFICES ASSUME NEW i \in 1..(n + m), NEW k \in 1..(n + m), u[i] = u[k] PROVE i = k
    BY <1>6 DEF NoTwice
  <2>1. CASE i <= n /\ k <= n
    <3>1. i \in 1..n /\ k \in 1..n /\ t[i] = t[k] BY <1>6, <2>1
    <3> QED BY <1>1, <3>1 DEF NoTwice, n
  <2>2. CASE i > n /\ k > n
    <3>1. i - n \in 1..m /\ k - n \in 1..m /\ f[i - n] = f[k - n] BY <1>6, <2>2
    <3>2. i - n = k - n BY <1>2, <3>1 DEF NoTwice, m
    <3> QED BY <1>6, <3>2
  <2>3. CASE i <= n /\ k > n
    <3>1. i \in 1..n /\ k - n \in 1..m /\ t[i] = f[k - n] BY <1>6, <2>3
    <3> QED BY <1>10, <1>11, <3>1
  <2>4. CASE i > n /\ k <= n
    <3>1. k \in 1..n /\ i - n \in 1..m /\ t[k] = f[i - n] BY <1>6, <2>4
    <3> QED BY <1>10, <1>11, <3>1
  <2> QED BY <1>6, <2>1, <2>2, <2>3, <2>4
<1>13. ASSUME NEW k \in 1..(n + m), NEW d \in Dependencies(E, u[k])
       PROVE  \E i \in 1..(Len(y) + 1) : i < k /\ u[i] = d
  <2>1. CASE k <= n
    <3>1. k \in 1..n /\ u[k] = t[k] BY <1>6, <2>1
    <3>2. PICK i \in 1..Len(y) : i < k /\ t[i] = d BY <1>7, <1>13, <3>1
    <3>3. i \in 1..(Len(y) + 1) /\ i \in 1..n BY <1>6
    <3> QED BY <1>6, <3>2, <3>3
  <2>2. CASE k > n
    <3>1. k - n \in 1..m /\ u[k] = f[k - n] BY <1>6, <2>2
    <3>2. d \in seen BY <1>9, <1>11, <1>13, <3>1
    <3>3. CASE d = v
      <4>1. Len(y) + 1 \in 1..n /\ Len(y) + 1 \in 1..(Len(y) + 1) /\ Len(y) + 1 < k
        BY <1>6, <2>2
      <4> QED BY <1>4, <1>6, <3>3, <4>1
    <3>4. CASE d \in Elements(y)
      <4>1. PICK i \in 1..Len(y) : y[i] = d BY <3>4 DEF Elements
      <4>2. i \in 1..n /\ i \in 1..(Len(y) + 1) /\ i < k BY <1>6, <2>2
      <4> QED BY <1>6, <4>1, <4>2
    <3> QED BY <3>2, <3>3, <3>4
  <2> QED BY <1>6, <2>1, <2>2
<1>14. ASSUME NEW j \in V, Dependencies(E, j) \subseteq seen PROVE j \in Elements(u)
  <2>1. CASE v \in Dependencies(E, j)
    <3>1. <<v, j>> \in E
      <4>1. PICK l \in E : l[2] = j /\ l[1] = v BY <2>1 DEF Dependencies
      <4> QED BY <4>1
    <3>2. PICK i \in 1..m : f[i] = j BY <1>2, <1>14, <3>1 DEF Elements, free, m
    <3>3. n + i \in 1..(n + m) /\ n + i > n /\ (n + i) - n = i BY <1>6
    <3> QED BY <1>6, <3>2, <3>3 DEF Elements
  <2>2. CASE v \notin Dependencies(E, j)
    <3>1. Dependencies(E, j) \subseteq Elements(y) BY <1>14, <2>2
    <3>2. PICK i \in 1..n : t[i] = j BY <1>8, <3>1 DEF Elements, n
    <3>3. i \in 1..(n + m) BY <1>6
    <3> QED BY <1>6, <3>2, <3>3 DEF Elements
  <2> QED BY <2>1, <2>2
<1>15. Line(z) = u /\ Len(u) = n + m BY <1>4, <1>6 DEF u
<1>16. Sorting(V, E, z)
  <2> HIDE DEF seen, y
  <2> QED BY <1>5, <1>12, <1>13, <1>14, <1>15 DEF Sorting
<1> QED BY <1>5, <1>16 DEF z

(* topological_sort is the last of these.                                    *)
Sorts(g, V, E, n) ==
    g = [i \in 0..n |-> IF i = 0 THEN Start(V, E) ELSE Yield(V, E, g[i - 1])]

LEMMA SortsExist ==
  ASSUME NEW V, NEW E, NEW n \in Nat
  PROVE  \E g : Sorts(g, V, E, n)
<1> DEFINE T == {m \in Nat : ~\E g : Sorts(g, V, E, m)}
<1>1. SUFFICES ASSUME T # {} PROVE FALSE OBVIOUS
<1>2. PICK m \in T : \A k \in T : m <= k
  <2>1. T \in SUBSET Nat OBVIOUS
  <2> HIDE DEF T
  <2> QED BY <1>1, <2>1, LeastNumber
<1>3. m \in Nat /\ ~\E g : Sorts(g, V, E, m) BY <1>2
<1>4. CASE m = 0
  <2>1. Sorts([i \in 0..m |-> Start(V, E)], V, E, m) BY <1>4 DEF Sorts
  <2> QED BY <1>3, <2>1
<1>5. CASE m # 0
  <2>1. m - 1 \in Nat /\ ~(m <= m - 1) BY <1>3, <1>5
  <2>2. m - 1 \notin T BY <1>2, <2>1
  <2>3. PICK g : Sorts(g, V, E, m - 1) BY <2>1, <2>2
  <2> DEFINE h == [i \in 0..m |-> IF i = m THEN Yield(V, E, g[m - 1]) ELSE g[i]]
  <2>4. \A i \in 0..(m - 1) : g[i] = IF i = 0 THEN Start(V, E) ELSE Yield(V, E, g[i - 1])
    BY <2>1, <2>3 DEF Sorts
  <2>5. ASSUME NEW i \in 0..m
        PROVE  h[i] = IF i = 0 THEN Start(V, E) ELSE Yield(V, E, h[i - 1])
    <3>1. CASE i = m
      <4>1. m - 1 \in 0..m /\ m - 1 # m BY <1>3, <1>5
      <4>2. h[i] = Yield(V, E, g[m - 1]) /\ h[m - 1] = g[m - 1] BY <3>1, <4>1
      <4> QED BY <1>5, <3>1, <4>2
    <3>2. CASE i = 0
      <4>1. h[i] = g[i] /\ i \in 0..(m - 1) BY <1>3, <1>5, <3>2
      <4> QED BY <2>4, <3>2, <4>1
    <3>3. CASE i # m /\ i # 0
      <4>1. i \in 0..(m - 1) /\ i - 1 \in 0..m /\ i - 1 # m BY <1>3, <3>3
      <4>2. h[i] = g[i] /\ h[i - 1] = g[i - 1] BY <3>3, <4>1
      <4> QED BY <2>4, <3>3, <4>1, <4>2
    <3> QED BY <3>1, <3>2, <3>3
  <2>6. h = [i \in 0..m |-> h[i]] OBVIOUS
  <2>7. Sorts(h, V, E, m)
    <3> HIDE DEF h
    <3> QED BY <2>5, <2>6 DEF Sorts
  <2> QED BY <1>3, <2>7
<1> QED BY <1>4, <1>5

(* After as many turns as there are jobs the queue is empty.                 *)
LEMMA SortEnds ==
  ASSUME NEW V \in SUBSET Nat, IsFiniteSet(V), NEW E \in SUBSET (V \X V)
  PROVE  \E x : Sorting(V, E, x) /\ x.queue = <<>> /\ x.yielded = topological_sort(V, E)
<1> DEFINE n == Cardinality(V)
           Good(x, i) == Sorting(V, E, x) /\ (x.queue = <<>> \/ Len(x.yielded) = i)
<1>1. n \in Nat BY FS_CardinalityType
<1>2. PICK g : Sorts(g, V, E, n) /\ topological_sort(V, E) = g[n].yielded
  <2>1. topological_sort(V, E) = (CHOOSE g : Sorts(g, V, E, n))[n].yielded
    BY DEF topological_sort, Sorts
  <2>2. \E g : Sorts(g, V, E, n) BY <1>1, SortsExist
  <2>3. Sorts(CHOOSE g : Sorts(g, V, E, n), V, E, n) BY <2>2
  <2> QED BY <2>1, <2>3
<1>3. \A i \in 0..n : g[i] = IF i = 0 THEN Start(V, E) ELSE Yield(V, E, g[i - 1])
  BY <1>2 DEF Sorts
<1>4. Good(Start(V, E), 0) BY StartSorts
<1>5. ASSUME NEW i \in Nat, NEW x, Good(x, i) PROVE Good(Yield(V, E, x), i + 1)
  <2>1. CASE x.queue = <<>>
    <3>1. Yield(V, E, x) = x BY <2>1 DEF Yield
    <3> QED BY <1>5, <2>1, <3>1
  <2>2. CASE x.queue # <<>> BY <1>5, <2>2, YieldSorts
  <2> QED BY <2>1, <2>2
<1>6. ASSUME ~Good(g[n], n) PROVE FALSE
  <2> HIDE DEF Good
  <2> DEFINE T == {m \in 0..n : ~Good(g[m], m)}
  <2>1. n \in T BY <1>1, <1>6
  <2>2. PICK m \in T : \A k \in T : m <= k
    <3>1. T \in SUBSET Nat /\ T # {} BY <1>1, <2>1
    <3> HIDE DEF T
    <3> QED BY <3>1, LeastNumber
  <2>3. m # 0
    <3>1. g[0] = Start(V, E) BY <1>1, <1>3
    <3> QED BY <1>4, <2>2, <3>1
  <2>4. m - 1 \in 0..n /\ m - 1 \in Nat /\ ~(m <= m - 1) /\ (m - 1) + 1 = m BY <1>1, <2>2, <2>3
  <2>5. Good(g[m - 1], m - 1) BY <2>2, <2>4
  <2>6. Good(g[m], m)
    <3>1. g[m] = Yield(V, E, g[m - 1]) BY <1>3, <2>2, <2>3
    <3>2. Good(Yield(V, E, g[m - 1]), (m - 1) + 1) BY <1>5, <2>4, <2>5
    <3> QED BY <2>4, <3>1, <3>2
  <2> QED BY <2>2, <2>6
<1> DEFINE x == g[n]
<1>7. Sorting(V, E, x) /\ (x.queue = <<>> \/ Len(x.yielded) = n) BY <1>6
<1> HIDE DEF x
<1> DEFINE t == Line(x)
<1>8. /\ t \in Seq(V) /\ Len(t) \in Nat /\ Len(t) = Len(x.yielded) + Len(x.queue)
      /\ Len(x.yielded) \in Nat /\ Len(x.queue) \in Nat /\ x.queue \in Seq(V) /\ NoTwice(t)
  BY <1>7 DEF Sorting, Line
<1>9. Len(t) <= n
  <2> HIDE DEF t
  <2> QED BY <1>8, OnceFits
<1>10. x.queue = <<>>
  <2>1. Len(x.yielded) = n => Len(x.queue) = 0 BY <1>1, <1>8, <1>9
  <2> QED BY <1>7, <1>8, <2>1
<1> QED BY <1>2, <1>7, <1>10 DEF x

(* What topological_sort promises: "a node depending on another is not       *)
(* yielded before" it, and no job comes twice, in any graph.                 *)
THEOREM NoneBeforeItsDependencies ==
  ASSUME NEW V \in SUBSET Nat, IsFiniteSet(V), NEW E \in SUBSET (V \X V)
  PROVE  LET order == topological_sort(V, E)
         IN  /\ order \in Seq(V) /\ NoTwice(order)
             /\ \A k \in 1..Len(order) : \A d \in Dependencies(E, order[k]) :
                  \E i \in 1..Len(order) : i < k /\ order[i] = d
<1>1. PICK x : Sorting(V, E, x) /\ x.queue = <<>> /\ x.yielded = topological_sort(V, E)
  BY SortEnds
<1> DEFINE y == x.yielded
<1>2. y \in Seq(V) /\ Line(x) = y BY <1>1 DEF Sorting, Line
<1>3. /\ NoTwice(y)
      /\ \A k \in 1..Len(y) : \A d \in Dependencies(E, y[k]) :
           \E i \in 1..Len(y) : i < k /\ y[i] = d
  BY <1>1, <1>2 DEF Sorting
<1> QED BY <1>1, <1>2, <1>3

(* In a graph without cycles - every set of jobs has one that depends on     *)
(* none of the others - all jobs are run, each once, each after those it     *)
(* depends on.                                                               *)
THEOREM AllInOrder ==
  ASSUME NEW V \in SUBSET Nat, IsFiniteSet(V), NEW E \in SUBSET (V \X V),
         \A S \in SUBSET V : S # {} => \E j \in S : Dependencies(E, j) \cap S = {}
  PROVE  LET order == topological_sort(V, E)
         IN  /\ Len(order) = Cardinality(V) /\ Elements(order) = V
             /\ \A i, k \in 1..Len(order) : <<order[i], order[k]>> \in E => i < k
<1>1. PICK x : Sorting(V, E, x) /\ x.queue = <<>> /\ x.yielded = topological_sort(V, E)
  BY SortEnds
<1> DEFINE y == x.yielded
<1>2. y \in Seq(V) /\ Line(x) = y /\ Len(y) \in Nat BY <1>1 DEF Sorting, Line
<1>3. /\ NoTwice(y)
      /\ \A k \in 1..Len(y) : \A d \in Dependencies(E, y[k]) :
           \E i \in 1..Len(y) : i < k /\ y[i] = d
      /\ \A j \in V : Dependencies(E, j) \subseteq Elements(y) => j \in Elements(y)
  BY <1>1, <1>2 DEF Sorting
<1> HIDE DEF y
<1>4. Elements(y) \subseteq V BY <1>2 DEF Elements
<1>5. Elements(y) = V
  <2> DEFINE S == V \ Elements(y)
  <2>1. SUFFICES ASSUME S # {} PROVE FALSE BY <1>4
  <2>2. PICK j \in S : Dependencies(E, j) \cap S = {}
    <3>1. S \in SUBSET V OBVIOUS
    <3> HIDE DEF S
    <3> QED BY <2>1, <3>1
  <2>3. Dependencies(E, j) \subseteq V BY DEF Dependencies
  <2> QED BY <1>3, <2>2, <2>3
<1>6. Len(y) = Cardinality(V)
  BY <1>2, <1>3, <1>5, OnceFits
<1>7. ASSUME NEW i \in 1..Len(y), NEW k \in 1..Len(y), <<y[i], y[k]>> \in E PROVE i < k
  <2>1. y[i] \in Dependencies(E, y[k])
    <3>1. <<y[i], y[k]>>[1] = y[i] /\ <<y[i], y[k]>>[2] = y[k] OBVIOUS
    <3> QED BY <1>7, <3>1 DEF Dependencies
  <2>2. PICK h \in 1..Len(y) : h < k /\ y[h] = y[i] BY <1>3, <2>1
  <2>3. h = i BY <1>3, <2>2 DEF NoTwice
  <2> QED BY <2>2, <2>3
<1> QED BY <1>1, <1>5, <1>6, <1>7 DEF y

(* A record is in the batch of its position, and in its place there, for     *)
(* batches of any size.                                                      *)
THEOREM SplitKeepsAll ==
  ASSUME NEW records, NEW R, records \in Seq(R), NEW size \in Nat \ {0},
         NEW i \in 1..Len(records)
  PROVE  split(records, size)[(i - 1) \div size + 1][((i - 1) % size) + 1] = records[i]
<1> DEFINE n == Len(records)
           b == (i - 1) \div size + 1
           r == (i - 1) % size
<1>1. n \in Nat /\ i \in Nat /\ i - 1 \in Nat /\ i <= n OBVIOUS
<1>2. b \in Nat /\ b - 1 \in Nat /\ r \in 0..(size - 1) /\ i - 1 = size * (b - 1) + r
  BY <1>1
<1> DEFINE batches == (n + size - 1) \div size
           last == IF b * size < n THEN b * size ELSE n
<1>3. b \in 1..batches
  <2>1. batches \in Nat /\ n + size - 1 < size * batches + size BY <1>1
  <2>2. size * (b - 1) < size * batches BY <1>1, <1>2, <2>1
  <2> HIDE DEF b, batches
  <2>3. b - 1 < batches BY <1>2, <2>1, <2>2
  <2> QED BY <1>2, <2>1, <2>3
<1>4. split(records, size)[b] = SubSeq(records, (b - 1) * size + 1, last)
  BY <1>3 DEF split
<1> HIDE DEF b, r
<1>5. /\ last \in Nat /\ last <= n /\ (b - 1) * size \in Nat
      /\ (b - 1) * size + (r + 1) = i /\ i <= last
  <2>1. (b - 1) * size = size * (b - 1) BY <1>2
  <2>2. b * size = size * (b - 1) + size BY <1>2
  <2>3. size * (b - 1) \in Nat BY <1>2
  <2> QED BY <1>1, <1>2, <2>1, <2>2, <2>3
<1>6. SubSeq(records, (b - 1) * size + 1, last)[r + 1] = records[(b - 1) * size + (r + 1)]
  <2> DEFINE d == (b - 1) * size
  <2> HIDE DEF d, last
  <2>1. d \in Nat /\ d + (r + 1) = i /\ i <= last /\ last <= n /\ last \in Nat BY <1>5 DEF d
  <2>2. r + 1 \in 1..(last - d) BY <1>1, <1>2, <2>1
  <2>3. SubSeq(records, d + 1, last)[r + 1] = records[d + (r + 1)] BY <1>1, <2>1, <2>2
  <2> QED BY <2>3 DEF d
<1> QED BY <1>4, <1>5, <1>6 DEF b, r

-------------------------------------------------------------------------------
(* The queue.                                                                *)

USE QueueJobAssumption
    DEF row, runner, history, counters, States, Pcs, At, JobOf, Goto, Idle

-------------------------------------------------------------------------------
LEMMA InitType == Init => TypeOK
BY DEF Init, TypeOK, Queueable

(* A notification puts a job where the runner's sets are. *)
LEMMA PlacedType ==
  ASSUME NEW j \in Jobs, NEW s, NEW v \in {"none", "queued", "running"}
  PROVE  Placed(j, s, v) \in {"none", "queued", "running"}
BY DEF Placed

LEMMA RunnerType ==
  ASSUME TypeOK, NEW j \in Jobs, RunnerStep(j) \/ RequeueSlow(j) \/ LoseCall(j)
  PROVE  TypeOK'
<1>1. CASE Notify(j) BY <1>1, PlacedType DEF TypeOK, Notify
<1>2. CASE Enqueue(j) BY <1>2 DEF TypeOK, Enqueue
<1>3. CASE RequeueDead(j) BY <1>3 DEF TypeOK, RequeueDead, Requeued
<1>4. CASE RequeueSlow(j) BY <1>4 DEF TypeOK, RequeueSlow, Requeued
<1>5. CASE LoseCall(j) BY <1>5 DEF TypeOK, LoseCall
<1> QED BY <1>1, <1>2, <1>3, <1>4, <1>5 DEF RunnerStep

LEMMA RestartType == TypeOK /\ RunnerRestart => TypeOK'
BY PlacedType DEF TypeOK, RunnerRestart

LEMMA WorkerType ==
  ASSUME TypeOK, NEW w \in Workers, WorkerStep(w) \/ JobConflict(w) \/ WorkerCrash(w)
  PROVE  TypeOK'
<1> DEFINE Busy == [pc : Pcs, job : Jobs, retry : Nat, waits : BOOLEAN]
<1>0. worker[w].pc # "idle" => worker[w] \in Busy
  BY DEF TypeOK
<1>1. CASE Lock(w) BY <1>0, <1>1 DEF TypeOK, Lock
<1>2. CASE LockRefused(w) BY <1>2 DEF TypeOK, LockRefused
<1>3. CASE CommitDone(w)
  <2>1. worker' \in [Workers -> Busy \union {Idle}]
    <3>1. CASE worker' = [worker EXCEPT ![w] = Idle]
      BY <3>1 DEF TypeOK
    <3>2. CASE Goto(w, "dependents")
      BY <1>0, <1>3, <3>2 DEF TypeOK, CommitDone
    <3> QED BY <1>3, <3>1, <3>2 DEF CommitDone
  <2>2. JobOf(w) \in Jobs /\ worker[w].retry \in Nat
    BY <1>0, <1>3 DEF CommitDone
  <2> QED BY <1>3, <2>1, <2>2 DEF TypeOK, CommitDone
<1>4. CASE CommitConflict(w) BY <1>0, <1>4 DEF TypeOK, CommitConflict, Conflicts
<1>13. CASE JobConflict(w) BY <1>0, <1>13 DEF TypeOK, JobConflict, Conflicts
<1>5. CASE RaisesRetryable(w) BY <1>0, <1>5 DEF TypeOK, RaisesRetryable
<1>12. CASE RaisesIgnored(w) BY <1>0, <1>12 DEF TypeOK, RaisesIgnored
<1>6. CASE RaisesOther(w) BY <1>0, <1>6 DEF TypeOK, RaisesOther
<1>7. CASE Postpone(w) BY <1>0, <1>7 DEF TypeOK, Postpone, Stored, Queueable
<1>8. CASE Fail(w) BY <1>0, <1>8 DEF TypeOK, Fail, Stored
<1>9. CASE Release(w) BY <1>0, <1>9 DEF TypeOK, Release, Ends
<1>10. CASE Dependents(w) BY <1>0, <1>10 DEF TypeOK, Dependents, Became, Released, Children
<1>11. CASE WorkerCrash(w) BY <1>11 DEF TypeOK, WorkerCrash, Ends
<1> QED BY <1>1, <1>2, <1>3, <1>4, <1>5, <1>6, <1>7, <1>8, <1>9, <1>10, <1>11, <1>12, <1>13 DEF WorkerStep

LEMMA AnswerType ==
  ASSUME TypeOK, NEW w \in Workers, NEW j \in Jobs, Acquire(w, j) \/ CallRefused(w, j)
  PROVE  TypeOK'
<1>1. CASE Acquire(w, j)
  BY <1>1 DEF TypeOK, Acquire, Waits
<1>2. CASE CallRefused(w, j)
  BY <1>2 DEF TypeOK, CallRefused
<1> QED BY <1>1, <1>2

LEMMA UserType ==
  ASSUME TypeOK, NEW j \in Jobs,
         UserDone(j) \/ UserCancel(j) \/ UserRequeue(j) \/ UserEdit(j)
  PROVE  TypeOK'
<1> USE DEF UserActs
<1>1. CASE UserDone(j) BY <1>1 DEF TypeOK, UserDone, Released, Children
<1>2. CASE UserCancel(j) BY <1>2 DEF TypeOK, UserCancel, Became, Released, Children
<1>3. CASE UserRequeue(j) BY <1>3 DEF TypeOK, UserRequeue, Queueable
<1>4. CASE UserEdit(j) BY <1>4 DEF TypeOK, UserEdit
<1> QED BY <1>1, <1>2, <1>3, <1>4

LEMMA NextType == TypeOK /\ [Next]_vars => TypeOK'
<1> SUFFICES ASSUME TypeOK, [Next]_vars PROVE TypeOK'
  OBVIOUS
<1>1. CASE \E j \in Jobs : RunnerStep(j) \/ Answer(j)
  BY <1>1, RunnerType, AnswerType DEF Answer
<1>2. CASE \E w \in Workers : WorkerStep(w)
  BY <1>2, WorkerType
<1>3. CASE Fault
  BY <1>3, RunnerType, RestartType, WorkerType DEF Fault
<1>4. CASE User
  BY <1>4, UserType DEF User
<1>5. CASE UNCHANGED vars
  BY <1>5 DEF vars, TypeOK
<1> QED BY <1>1, <1>2, <1>3, <1>4, <1>5 DEF Next

(* The variables keep their types in every reachable state. *)
THEOREM TypeCorrect == Spec => []TypeOK
BY InitType, NextType, PTL DEF Spec

-------------------------------------------------------------------------------
(* What makes the properties inductive.  A job that is enqueued or started *)
(* is running for the runner too, which therefore cannot enqueue it again; *)
(* the lock keeps a started job from the requeue of dead jobs until its    *)
(* worker has stored how it ended; what is done is queued nowhere.         *)
Viewed(j) == state[j] \in {"enqueued", "started"} => view[j] = "running"

Holds(w) ==
    /\ worker[w].pc \in {"run", "postpone", "fail"} => state[JobOf(w)] = "started"
    /\ worker[w].pc \in {"run", "postpone", "fail", "release"} => lock[JobOf(w)] = w

Once(j) ==
    /\ done[j] <= 1
    /\ done[j] = 1 => state[j] = "done" /\ view[j] # "queued"

IInv ==
    /\ TypeOK
    /\ \A j \in Jobs : Viewed(j) /\ Once(j)
    /\ \A w \in Workers : Holds(w)

LEMMA ZeroOrOne == \A n \in Nat : n <= 1 /\ n # 1 => n = 0
OBVIOUS

LEMMA InitInv == Init => IInv
BY InitType DEF Init, IInv, Viewed, Holds, Once, Queueable

LEMMA RunnerInv ==
  ASSUME IInv, NEW j \in Jobs, RunnerStep(j) \/ RequeueSlow(j) \/ LoseCall(j)
  PROVE  IInv'
<1>0. TypeOK'
  BY RunnerType DEF IInv
<1> USE DEF IInv, TypeOK, Viewed, Holds, Once
<1>1. CASE Notify(j) BY <1>0, <1>1 DEF Notify, Placed
<1>2. CASE Enqueue(j) BY <1>0, <1>2 DEF Enqueue
<1>3. CASE RequeueDead(j) BY <1>0, <1>3 DEF RequeueDead, Requeued, Unlocked
<1>4. CASE RequeueSlow(j) BY <1>0, <1>4 DEF RequeueSlow, Requeued, Unlocked
<1>5. CASE LoseCall(j) BY <1>0, <1>5 DEF LoseCall
<1> QED BY <1>1, <1>2, <1>3, <1>4, <1>5 DEF RunnerStep

LEMMA RestartInv == IInv /\ RunnerRestart => IInv'
<1> SUFFICES ASSUME IInv, RunnerRestart PROVE IInv'
  OBVIOUS
<1>0. TypeOK'
  BY RestartType DEF IInv
<1> QED BY <1>0 DEF IInv, TypeOK, Viewed, Holds, Once, RunnerRestart, Placed

LEMMA AnswerInv ==
  ASSUME IInv, NEW w \in Workers, NEW j \in Jobs, Acquire(w, j) \/ CallRefused(w, j)
  PROVE  IInv'
<1>0. TypeOK'
  BY AnswerType DEF IInv
<1> USE DEF IInv, TypeOK, Viewed, Holds, Once
<1>1. CASE Acquire(w, j) BY <1>0, <1>1 DEF Acquire
<1>2. CASE CallRefused(w, j) BY <1>0, <1>2 DEF CallRefused
<1> QED BY <1>1, <1>2

LEMMA WorkerInv ==
  ASSUME IInv, NEW w \in Workers, WorkerStep(w) \/ JobConflict(w) \/ WorkerCrash(w)
  PROVE  IInv'
<1>0. TypeOK'
  BY WorkerType DEF IInv
<1>a. worker[w].pc # "idle" => JobOf(w) \in Jobs
  BY DEF IInv, TypeOK
<1> USE DEF IInv, TypeOK, Viewed, Holds, Once
<1>1. CASE Lock(w) BY <1>0, <1>a, <1>1 DEF Lock, CanLock, Unlocked
<1>2. CASE LockRefused(w) BY <1>0, <1>2 DEF LockRefused
<1>3. CASE CommitDone(w)
  <2>1. /\ JobOf(w) \in Jobs /\ state[JobOf(w)] = "started" /\ lock[JobOf(w)] = w
    BY <1>a, <1>3 DEF CommitDone
  <2>2. /\ worker'[w].pc \in {"idle", "dependents"}
        /\ \A x \in Workers \ {w} : worker'[x] = worker[x]
    BY <1>3 DEF CommitDone
  <2>3. \A x \in Workers : Holds(x)'
    BY <1>3, <2>1, <2>2 DEF CommitDone
  <2>4. \A j \in Jobs : Viewed(j)' /\ Once(j)'
    <3>a. done[JobOf(w)] \in Nat /\ done[JobOf(w)] <= 1 /\ done[JobOf(w)] # 1
      BY <2>1
    <3>b. view[JobOf(w)] = "running"
      BY <2>1
    <3>1. done[JobOf(w)] = 0
      BY <3>a, ZeroOrOne, Zenon
    <3>2. /\ view' = view
          /\ state' = [state EXCEPT ![JobOf(w)] = "done"]
          /\ done' = [done EXCEPT ![JobOf(w)] = @ + 1]
      BY <1>3 DEF CommitDone
    <3> QED BY <2>1, <3>1, <3>b, <3>2
  <2> QED BY <1>0, <2>3, <2>4
<1>4. CASE CommitConflict(w) BY <1>0, <1>a, <1>4 DEF CommitConflict, Conflicts
<1>13. CASE JobConflict(w) BY <1>0, <1>a, <1>13 DEF JobConflict, Conflicts
<1>5. CASE RaisesRetryable(w) BY <1>0, <1>a, <1>5 DEF RaisesRetryable
<1>6. CASE RaisesIgnored(w) BY <1>0, <1>a, <1>6 DEF RaisesIgnored
<1>7. CASE RaisesOther(w) BY <1>0, <1>a, <1>7 DEF RaisesOther
<1>8. CASE Postpone(w) BY <1>0, <1>a, <1>8 DEF Postpone, Stored, Queueable
<1>9. CASE Fail(w) BY <1>0, <1>a, <1>9 DEF Fail, Stored
<1>10. CASE Release(w) BY <1>0, <1>a, <1>10 DEF Release, Ends
<1>11. CASE Dependents(w) BY <1>0, <1>a, <1>11 DEF Dependents, Became, Released
<1>12. CASE WorkerCrash(w) BY <1>0, <1>12 DEF WorkerCrash, Ends
<1> QED BY <1>1, <1>2, <1>3, <1>4, <1>5, <1>6, <1>7, <1>8, <1>9, <1>10, <1>11, <1>12, <1>13 DEF WorkerStep

LEMMA UserInv ==
  ASSUME IInv, NEW j \in Jobs,
         UserDone(j) \/ UserCancel(j) \/ UserRequeue(j) \/ UserEdit(j)
  PROVE  IInv'
<1>0. TypeOK'
  BY UserType DEF IInv
<1> USE DEF IInv, TypeOK, Viewed, Holds, Once, Open
<1>1. CASE UserDone(j) BY <1>0, <1>1 DEF UserDone, Released
<1>2. CASE UserCancel(j) BY <1>0, <1>2 DEF UserCancel, Became, Released
<1>3. CASE UserRequeue(j) BY <1>0, <1>3 DEF UserRequeue, Queueable
<1>4. CASE UserEdit(j) BY <1>0, <1>4 DEF UserEdit
<1> QED BY <1>1, <1>2, <1>3, <1>4

LEMMA NextInv == IInv /\ [Next]_vars => IInv'
<1> SUFFICES ASSUME IInv, [Next]_vars PROVE IInv'
  OBVIOUS
<1>1. CASE \E j \in Jobs : RunnerStep(j) \/ Answer(j)
  BY <1>1, RunnerInv, AnswerInv DEF Answer
<1>2. CASE \E w \in Workers : WorkerStep(w)
  BY <1>2, WorkerInv
<1>3. CASE Fault
  BY <1>3, RunnerInv, RestartInv, WorkerInv DEF Fault
<1>4. CASE User
  BY <1>4, UserInv DEF User
<1>5. CASE UNCHANGED vars
  BY <1>5 DEF vars, IInv, TypeOK, Viewed, Holds, Once
<1> QED BY <1>1, <1>2, <1>3, <1>4, <1>5 DEF Next

LEMMA Invariant == Spec => []IInv
BY InitInv, NextInv, PTL DEF Spec

(* No job is ever performed by two workers, or while its row says anything *)
(* but started.                                                            *)
THEOREM Exclusion == Spec => []MutualExclusion
<1>1. IInv => MutualExclusion
  BY DEF IInv, Holds, MutualExclusion, Performs
<1> QED BY <1>1, Invariant, PTL

(* Whatever dies, is slow or is asked twice, the effects of a job are      *)
(* committed once for each time a user asks for it.                        *)
THEOREM CommittedOnce == Spec => []EffectsOnce
<1>1. IInv => EffectsOnce
  BY DEF IInv, Once, EffectsOnce
<1> QED BY <1>1, Invariant, PTL

-------------------------------------------------------------------------------
(* The capacity.  Only Enqueue lets the runner count one more; a           *)
(* notification or a restart finds running only what was running already.  *)
Counted == {j \in Jobs : view[j] = "running"}
WithinCapacity == Capacity # 0 => Cardinality(Counted) <= Capacity

LEMMA CountedGrows ==
  ASSUME IInv, [Next]_vars, \A j \in Jobs : ~Enqueue(j)
  PROVE  Counted' \subseteq Counted
<1> USE DEF Counted
<1>1. ASSUME NEW j \in Jobs, Notify(j) PROVE Counted' \subseteq Counted
  BY <1>1 DEF IInv, TypeOK, Viewed, Notify, Placed
<1>2. ASSUME NEW j \in Jobs, RequeueDead(j) \/ RequeueSlow(j) \/ LoseCall(j)
      PROVE view' = view
  BY <1>2 DEF RequeueDead, RequeueSlow, Requeued, LoseCall
<1>3. CASE RunnerRestart
  BY <1>3 DEF IInv, TypeOK, Viewed, RunnerRestart, Placed
<1>4. ASSUME NEW j \in Jobs, Answer(j) PROVE view' = view
  BY <1>4 DEF Answer, Acquire, CallRefused
<1>5. ASSUME NEW w \in Workers, WorkerStep(w) \/ JobConflict(w) \/ WorkerCrash(w) PROVE view' = view
  BY <1>5 DEF WorkerStep, WorkerCrash, Lock, LockRefused, CommitDone, CommitConflict,
              JobConflict, Conflicts,
              RaisesRetryable, RaisesIgnored, RaisesOther, Postpone, Fail, Stored,
              Release, Dependents
<1>6. CASE User
  BY <1>6 DEF User, UserDone, UserCancel, UserRequeue, UserEdit
<1>7. CASE UNCHANGED vars
  BY <1>7 DEF vars
<1> QED BY <1>1, <1>2, <1>3, <1>4, <1>5, <1>6, <1>7 DEF Next, Fault, RunnerStep

LEMMA NextWithin == IInv /\ WithinCapacity /\ [Next]_vars => WithinCapacity'
<1> SUFFICES ASSUME IInv, WithinCapacity, [Next]_vars, Capacity # 0
             PROVE  Cardinality(Counted') <= Capacity
  BY DEF WithinCapacity
<1>1. IsFiniteSet(Counted) /\ Cardinality(Counted) \in Nat
  BY FS_Subset, FS_CardinalityType DEF Counted
<1>2. CASE \A j \in Jobs : ~Enqueue(j)
  <2>1. Cardinality(Counted') <= Cardinality(Counted) /\ Cardinality(Counted') \in Nat
    BY <1>1, <1>2, CountedGrows, FS_Subset, FS_CardinalityType
  <2> QED BY <1>1, <2>1 DEF WithinCapacity
<1>3. ASSUME NEW j \in Jobs, Enqueue(j) PROVE Cardinality(Counted') <= Capacity
  <2>1. Cardinality(Counted) < Capacity
    BY <1>3 DEF Enqueue, HasCapacity, Counted
  <2>2. j \notin Counted /\ Counted' = Counted \union {j}
    BY <1>3 DEF Enqueue, Counted, IInv, TypeOK
  <2>3. Cardinality(Counted') = Cardinality(Counted) + 1
    BY <1>1, <2>2, FS_AddElement
  <2> QED BY <1>1, <2>1, <2>3
<1> QED BY <1>2, <1>3

(* However stale the runner's view, workers never perform more jobs at     *)
(* once than the capacity allows.                                          *)
THEOREM CapacityKept == Spec => []CapacityRespected
<1>1. Init => WithinCapacity
  <2> SUFFICES ASSUME Init PROVE WithinCapacity
    OBVIOUS
  <2>1. Counted = {}
    BY DEF Init, Counted
  <2> QED BY <2>1, FS_EmptySet DEF WithinCapacity
<1>2. IInv /\ WithinCapacity => CapacityRespected
  <2> SUFFICES ASSUME IInv, WithinCapacity, Capacity # 0
      PROVE Cardinality({j \in Jobs : \E w \in Workers : Performs(w, j)}) <= Capacity
    BY DEF CapacityRespected
  <2> DEFINE Performed == {j \in Jobs : \E w \in Workers : Performs(w, j)}
  <2>1. Performed \subseteq Counted
    BY DEF Counted, Performs, IInv, Viewed, Holds
  <2>2. IsFiniteSet(Counted) /\ Cardinality(Counted) \in Nat
    BY FS_Subset, FS_CardinalityType DEF Counted
  <2>3. Cardinality(Performed) <= Cardinality(Counted) /\ Cardinality(Performed) \in Nat
    BY <2>1, <2>2, FS_Subset, FS_CardinalityType
  <2> QED BY <2>2, <2>3 DEF WithinCapacity
<1> QED BY <1>1, <1>2, NextWithin, Invariant, PTL DEF Spec

-------------------------------------------------------------------------------
(* No job is stranded.  Without a notification the runner has a job where   *)
(* its row says, but for waiting jobs; and who holds a lock has the job in  *)
(* hand.                                                                    *)
Agreed(j) ==
    /\ state[j] = "pending" => view[j] = "queued"
    /\ state[j] \in {"enqueued", "started"} => view[j] = "running"
    /\ state[j] \in {"done", "cancelled", "failed"} => view[j] = "none"

Locked(j) ==
    lock[j] # None => lock[j] \in Workers /\ InHand(lock[j], j) /\ ~At(lock[j], "acquired")

Watched == \A j \in Jobs : (j \notin notes => Agreed(j)) /\ Locked(j)

LEMMA InitWatched == Init => Watched
BY DEF Init, Watched, Agreed, Locked

LEMMA RunnerWatched ==
  ASSUME IInv, Watched, NEW j \in Jobs, RunnerStep(j) \/ RequeueSlow(j) \/ LoseCall(j)
  PROVE  Watched'
<1> USE DEF IInv, TypeOK, Watched, Agreed, Locked, InHand
<1>1. CASE Notify(j) BY <1>1 DEF Notify, Placed
<1>2. CASE Enqueue(j) BY <1>2 DEF Enqueue
<1>3. CASE RequeueDead(j) BY <1>3 DEF RequeueDead, Requeued
<1>4. CASE RequeueSlow(j) BY <1>4 DEF RequeueSlow, Requeued
<1>5. CASE LoseCall(j) BY <1>5 DEF LoseCall
<1> QED BY <1>1, <1>2, <1>3, <1>4, <1>5 DEF RunnerStep

LEMMA WorkerWatched ==
  ASSUME IInv, Watched, NEW w \in Workers, WorkerStep(w) \/ JobConflict(w) \/ WorkerCrash(w)
  PROVE  Watched'
<1>a. worker[w].pc # "idle" => JobOf(w) \in Jobs
  BY DEF IInv, TypeOK
<1> USE DEF IInv, TypeOK, Watched, Agreed, Locked, InHand
<1>1. CASE Lock(w) BY <1>a, <1>1 DEF Lock, CanLock, Unlocked
<1>2. CASE LockRefused(w) BY <1>2 DEF LockRefused
<1>3. CASE CommitDone(w) BY <1>a, <1>3 DEF CommitDone
<1>4. CASE CommitConflict(w) \/ JobConflict(w)
  BY <1>a, <1>4 DEF CommitConflict, JobConflict, Conflicts
<1>5. CASE RaisesRetryable(w) BY <1>a, <1>5 DEF RaisesRetryable
<1>6. CASE RaisesIgnored(w) BY <1>a, <1>6 DEF RaisesIgnored
<1>7. CASE RaisesOther(w) BY <1>a, <1>7 DEF RaisesOther
<1>8. CASE Postpone(w) BY <1>a, <1>8 DEF Postpone, Stored
<1>9. CASE Fail(w) BY <1>a, <1>9 DEF Fail, Stored
<1>10. CASE Release(w) BY <1>a, <1>10 DEF Release, Ends
<1>11. CASE Dependents(w) BY <1>a, <1>11 DEF Dependents, Became, Released
<1>12. CASE WorkerCrash(w) BY <1>12 DEF WorkerCrash, Ends
<1> QED BY <1>1, <1>2, <1>3, <1>4, <1>5, <1>6, <1>7, <1>8, <1>9, <1>10, <1>11, <1>12 DEF WorkerStep

LEMMA UserWatched ==
  ASSUME IInv, Watched, NEW j \in Jobs,
         UserDone(j) \/ UserCancel(j) \/ UserRequeue(j) \/ UserEdit(j)
  PROVE  Watched'
<1> USE DEF IInv, TypeOK, Watched, Agreed, Locked, InHand
<1>1. CASE UserDone(j) BY <1>1 DEF UserDone, Released
<1>2. CASE UserCancel(j) BY <1>2 DEF UserCancel, Became, Released
<1>3. CASE UserRequeue(j) BY <1>3 DEF UserRequeue
<1>4. CASE UserEdit(j) BY <1>4 DEF UserEdit
<1> QED BY <1>1, <1>2, <1>3, <1>4

LEMMA NextWatched == IInv /\ Watched /\ [Next]_vars => Watched'
<1> SUFFICES ASSUME IInv, Watched, [Next]_vars PROVE Watched'
  OBVIOUS
<1>1. ASSUME NEW j \in Jobs, NEW w \in Workers, Acquire(w, j) \/ CallRefused(w, j)
      PROVE Watched'
  BY <1>1 DEF Acquire, CallRefused, IInv, TypeOK, Watched, Agreed, Locked, InHand
<1>2. CASE RunnerRestart
  BY <1>2 DEF RunnerRestart, Placed, Watched, Agreed, Locked, InHand
<1>3. CASE UNCHANGED vars
  BY <1>3 DEF vars, Watched, Agreed, Locked, InHand
<1> QED BY <1>1, <1>2, <1>3, RunnerWatched, WorkerWatched, UserWatched
        DEF Next, Answer, Fault, User

(* What is enqueued or started is requeued, asked for, or in hand.          *)
LEMMA BusyMoves ==
  ASSUME Watched, NEW j \in Jobs, state[j] \in {"enqueued", "started"}
  PROVE  Moves(j)
<1>1. CASE lock[j] # None
  BY <1>1 DEF Watched, Locked, Moves
<1>2. CASE lock[j] = None
  BY <1>2 DEF Moves, Unlocked, Underway, InHand
<1> QED BY <1>1, <1>2

(* Whatever is lost, dies or is pressed, a job that is to run is somebody's *)
(* to take up, or waits for slots whose jobs are.                           *)
THEOREM NoneStranded == Spec => []NotStranded
<1>1. IInv /\ Watched => NotStranded
  <2> SUFFICES ASSUME IInv, Watched, NEW j \in Jobs,
                      state[j] \in {"pending", "enqueued", "started"}, ~Moves(j)
               PROVE  /\ state[j] = "pending" /\ ~HasCapacity
                      /\ \A k \in Jobs : view[k] = "running" => Moves(k) \/ KeepsSlot(k)
    BY DEF NotStranded
  <2>1. state[j] = "pending" /\ ~HasCapacity
    BY BusyMoves DEF Moves, Watched, Agreed
  <2>2. ASSUME NEW k \in Jobs, view[k] = "running", ~Moves(k) PROVE KeepsSlot(k)
    <3>1. k \notin notes /\ state[k] \in States
      BY <2>2 DEF Moves, IInv, TypeOK
    <3>2. Agreed(k) /\ state[k] \notin {"enqueued", "started"}
      BY <2>2, <3>1, BusyMoves DEF Watched
    <3> QED BY <2>2, <3>1, <3>2 DEF Agreed, KeepsSlot
  <2> QED BY <2>1, <2>2
<1> QED BY <1>1, InitWatched, NextWatched, Invariant, PTL DEF Spec

-------------------------------------------------------------------------------
(* The graph.  A job that can be performed has parents that were all done  *)
(* at some time.                                                           *)
Cleared(j) ==
    /\ state[j] = "done" => j \in finished
    /\ state[j] \in {"pending", "enqueued", "started"} \/ view[j] = "queued"
          => Parents[j] \subseteq finished
Graph == \A j \in Jobs : Cleared(j)

LEMMA InitGraph == Init => Graph
BY DEF Init, Graph, Cleared, Queueable

LEMMA RunnerGraph ==
  ASSUME IInv, Graph, NEW j \in Jobs, RunnerStep(j) \/ RequeueSlow(j) \/ LoseCall(j)
  PROVE  Graph'
<1> USE DEF IInv, TypeOK, Graph, Cleared
<1>1. CASE Notify(j) BY <1>1 DEF Notify, Placed
<1>2. CASE Enqueue(j) BY <1>2 DEF Enqueue
<1>3. CASE RequeueDead(j) BY <1>3 DEF RequeueDead, Requeued
<1>4. CASE RequeueSlow(j) BY <1>4 DEF RequeueSlow, Requeued
<1>5. CASE LoseCall(j) BY <1>5 DEF LoseCall
<1> QED BY <1>1, <1>2, <1>3, <1>4, <1>5 DEF RunnerStep

LEMMA WorkerGraph ==
  ASSUME IInv, Graph, NEW w \in Workers, WorkerStep(w) \/ JobConflict(w) \/ WorkerCrash(w)
  PROVE  Graph'
<1>a. worker[w].pc # "idle" => JobOf(w) \in Jobs
  BY DEF IInv, TypeOK
<1> USE DEF Graph, Cleared
<1>1. CASE Lock(w) \/ LockRefused(w) \/ CommitConflict(w) \/ JobConflict(w) \/ RaisesRetryable(w)
           \/ RaisesIgnored(w) \/ RaisesOther(w) \/ Release(w) \/ WorkerCrash(w)
  BY <1>1 DEF Lock, LockRefused, CommitConflict, JobConflict, Conflicts, RaisesRetryable, RaisesIgnored,
              RaisesOther, Release, WorkerCrash
<1>2. CASE CommitDone(w) BY <1>a, <1>2 DEF CommitDone, IInv, TypeOK
<1>3. CASE Postpone(w)
  BY <1>a, <1>3 DEF Postpone, Stored, Queueable, IInv, TypeOK, Holds
<1>4. CASE Fail(w) BY <1>a, <1>4 DEF Fail, Stored, IInv, TypeOK
<1>5. CASE Dependents(w)
  BY <1>a, <1>5 DEF Dependents, Became, Released, Children
<1> QED BY <1>1, <1>2, <1>3, <1>4, <1>5 DEF WorkerStep

LEMMA UserGraph ==
  ASSUME IInv, Graph, NEW j \in Jobs,
         UserDone(j) \/ UserCancel(j) \/ UserRequeue(j) \/ UserEdit(j)
  PROVE  Graph'
<1> USE DEF IInv, TypeOK, Graph, Cleared
<1>1. CASE UserDone(j) BY <1>1 DEF UserDone, Released, Children
<1>2. CASE UserCancel(j) BY <1>2 DEF UserCancel, Became, Released
<1>3. CASE UserRequeue(j) BY <1>3 DEF UserRequeue, Queueable, Waits
<1>4. CASE UserEdit(j) BY <1>4 DEF UserEdit
<1> QED BY <1>1, <1>2, <1>3, <1>4

LEMMA NextGraph == IInv /\ Graph /\ [Next]_vars => Graph'
<1> SUFFICES ASSUME IInv, Graph, [Next]_vars PROVE Graph'
  OBVIOUS
<1>1. ASSUME NEW j \in Jobs, RunnerStep(j) PROVE Graph'
  BY <1>1, RunnerGraph
<1>2. ASSUME NEW j \in Jobs, NEW w \in Workers, Acquire(w, j) \/ CallRefused(w, j)
      PROVE Graph'
  BY <1>2 DEF Acquire, CallRefused, IInv, TypeOK, Graph, Cleared
<1>3. CASE RunnerRestart
  BY <1>3 DEF RunnerRestart, Placed, Graph, Cleared
<1>4. CASE UNCHANGED vars
  BY <1>4 DEF vars, Graph, Cleared
<1> QED BY <1>1, <1>2, <1>3, <1>4, RunnerGraph, WorkerGraph, UserGraph
        DEF Next, Answer, Fault, User

(* Only CommitDone counts an execution, and it commits a job that is started. *)
LEMMA OnlyCommits ==
  ASSUME IInv, [Next]_vars, NEW j \in Jobs, done'[j] > done[j]
  PROVE  \E w \in Workers : CommitDone(w) /\ JobOf(w) = j
<1> USE DEF IInv, TypeOK
<1>1. ASSUME NEW i \in Jobs, RunnerStep(i) \/ RequeueSlow(i) \/ LoseCall(i) \/ Answer(i)
      PROVE done' = done
  BY <1>1 DEF RunnerStep, Notify, Enqueue, RequeueDead, RequeueSlow, Requeued, LoseCall,
              Answer, Acquire, CallRefused
<1>2. ASSUME RunnerRestart \/ UNCHANGED vars PROVE done' = done
  BY <1>2 DEF RunnerRestart, vars
<1>3. ASSUME NEW w \in Workers, WorkerStep(w) \/ JobConflict(w) \/ WorkerCrash(w), ~CommitDone(w)
      PROVE done' = done
  BY <1>3 DEF WorkerStep, WorkerCrash, Lock, LockRefused, CommitConflict, JobConflict, Conflicts,
              RaisesRetryable, RaisesIgnored, RaisesOther, Postpone, Fail, Stored,
              Release, Dependents
<1>4. CASE User
  <2>1. done' = done \/ \E i \in Jobs : done' = [done EXCEPT ![i] = 0]
    BY <1>4 DEF User, UserDone, UserCancel, UserRequeue, UserEdit
  <2> QED BY <2>1
<1>5. ASSUME NEW w \in Workers, CommitDone(w) PROVE JobOf(w) = j
  BY <1>5 DEF CommitDone
<1> QED BY <1>1, <1>2, <1>3, <1>4, <1>5 DEF Next, Fault

(* Effects are committed only of jobs whose parents were all done.         *)
THEOREM GraphOrder == Spec => ParentsFirst
<1>1. IInv /\ Graph /\ [Next]_vars
        => [\A j \in Jobs : done'[j] > done[j] => Parents[j] \subseteq finished]_vars
  <2> SUFFICES ASSUME IInv, Graph, [Next]_vars, NEW j \in Jobs, done'[j] > done[j]
               PROVE  Parents[j] \subseteq finished
    OBVIOUS
  <2>1. PICK w \in Workers : CommitDone(w) /\ JobOf(w) = j
    BY OnlyCommits
  <2>2. state[j] = "started"
    BY <2>1 DEF CommitDone, IInv, Holds
  <2> QED BY <2>2 DEF Graph, Cleared
<1> QED BY <1>1, InitGraph, NextGraph, Invariant, PTL DEF Spec, ParentsFirst
===============================================================================
