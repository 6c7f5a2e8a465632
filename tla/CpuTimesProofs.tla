--------------------------- MODULE CpuTimesProofs ---------------------------
(***************************************************************************)
(* What the CPU percentages add up to, for any number of processes,        *)
(* threads and processors, any mixture of calls and any lag of a snapshot  *)
(* behind the clock.                                                       *)
(*                                                                         *)
(* The argument: what all kept objects used since the last snapshot is at  *)
(* most what all processors gave since (UsedFits), and what the threads of *)
(* a process used is at most what the process did (UsedWithinProcess).     *)
(* Both are sums over sets that grow and shrink; the shares are these      *)
(* numbers scaled and rounded down, so the same holds of their sums.       *)
(***************************************************************************)
EXTENDS CpuTimes, FiniteSetTheorems, WellFoundedInduction, NaturalsInduction,
        TLAPS

-----------------------------------------------------------------------------
(* Sums over finite sets. *)

\* Induction over the subsets of a finite set, for a set of good ones: no
\* smallest subset is bad.
LEMMA SubsetInduction ==
    ASSUME NEW S, IsFiniteSet(S), NEW Good \in SUBSET SUBSET S,
           {} \in Good,
           \A A \in Good : \A x \in S \ A : A \cup {x} \in Good
    PROVE  S \in Good
<1>. SUFFICES ASSUME S \notin Good PROVE FALSE
  OBVIOUS
<1>. DEFINE Sizes == {n \in Nat : \E A \in SUBSET S :
                                      A \notin Good /\ Cardinality(A) = n}
            R == OpToRel(<, Nat)
<1>1. Cardinality(S) \in Sizes /\ Sizes \subseteq Nat
  BY FS_CardinalityType
<1>2. PICK n \in Sizes : \A m \in Sizes : ~(<<m, n>> \in R)
  <2>1. IsWellFoundedOn(R, Nat)
    BY NatLessThanWellFounded
  <2>. HIDE DEF R, Sizes
  <2>2. QED
    BY <1>1, <2>1, WFMin
<1>3. \A m \in Sizes : ~(m < n)
  BY <1>1, <1>2 DEF OpToRel
<1>4. PICK A \in SUBSET S : A \notin Good /\ Cardinality(A) = n
  OBVIOUS
<1>5. PICK x \in A : TRUE
  BY <1>4
<1>6. IsFiniteSet(A)
  BY FS_Subset
<1>7. A \ {x} \in SUBSET S /\ Cardinality(A \ {x}) = n - 1 /\ n - 1 \in Nat
  <2>1. Cardinality(A \ {x}) = n - 1 /\ IsFiniteSet(A \ {x})
    BY <1>4, <1>5, <1>6, FS_RemoveElement
  <2>2. QED
    BY <2>1, FS_CardinalityType
<1>8. A \ {x} \in Good
  BY <1>3, <1>7
<1>9. (A \ {x}) \cup {x} = A /\ x \in S \ (A \ {x})
  BY <1>5
<1>10. QED
  BY <1>4, <1>8, <1>9

\* What Total counts.
Units(shares, S) == UNION {{x} \X (1 .. shares[x]) : x \in S}

\* One more share is a set of units of its own.
LEMMA UnitsAdd ==
    ASSUME NEW f, NEW S, NEW x, x \notin S
    PROVE  /\ Units(f, S \cup {x}) = Units(f, S) \cup ({x} \X (1 .. f[x]))
           /\ Units(f, S) \cap ({x} \X (1 .. f[x])) = {}
BY DEF Units

\* A share of n has n units.
LEMMA UnitsOfOne ==
    ASSUME NEW x, NEW n \in Nat
    PROVE  /\ IsFiniteSet({x} \X (1 .. n))
           /\ Cardinality({x} \X (1 .. n)) = n
<1>1. IsFiniteSet({x}) /\ Cardinality({x}) = 1
  BY FS_Singleton
<1>2. IsFiniteSet(1 .. n) /\ Cardinality(1 .. n) = n
  BY FS_Interval
<1>. DEFINE X == {x}
            Y == 1 .. n
<1>3. IsFiniteSet(X \X Y)
          /\ Cardinality(X \X Y) = Cardinality(X) * Cardinality(Y)
  <2>. HIDE DEF X, Y
  <2>1. IsFiniteSet(X) /\ IsFiniteSet(Y)
    BY <1>1, <1>2 DEF X, Y
  <2>2. QED
    BY <2>1, FS_Product
<1>4. QED
  BY <1>1, <1>2, <1>3

\* There are finitely many of them.
LEMMA UnitsFinite ==
    ASSUME NEW S, IsFiniteSet(S), NEW f, \A x \in S : f[x] \in Nat
    PROVE  IsFiniteSet(Units(f, S))
<1>. DEFINE Good == {A \in SUBSET S : IsFiniteSet(Units(f, A))}
<1>1. {} \in Good
  BY FS_EmptySet DEF Units
<1>2. ASSUME NEW A \in Good, NEW x \in S \ A PROVE A \cup {x} \in Good
  <2>1. IsFiniteSet({x} \X (1 .. f[x])) /\ IsFiniteSet(Units(f, A))
    BY UnitsOfOne
  <2>2. IsFiniteSet(Units(f, A) \cup ({x} \X (1 .. f[x])))
    BY <2>1, FS_Union
  <2>3. Units(f, A \cup {x}) = Units(f, A) \cup ({x} \X (1 .. f[x]))
    BY UnitsAdd
  <2>4. QED
    BY <2>2, <2>3
<1>3. Good \in SUBSET SUBSET S
  OBVIOUS
<1>. HIDE DEF Good
<1>4. S \in Good
  BY <1>1, <1>2, <1>3, SubsetInduction
<1>5. QED
  BY <1>4 DEF Good

\* A sum of natural numbers is one, and grows by each of them.
LEMMA TotalType ==
    ASSUME NEW S, IsFiniteSet(S), NEW f, \A x \in S : f[x] \in Nat
    PROVE  Total(f, S) \in Nat
BY UnitsFinite, FS_CardinalityType DEF Total, Units

LEMMA TotalEmpty == \A f : Total(f, {}) = 0
BY FS_EmptySet DEF Total

LEMMA TotalAdd ==
    ASSUME NEW S, IsFiniteSet(S), NEW f, NEW x, x \notin S,
           \A y \in S : f[y] \in Nat, f[x] \in Nat
    PROVE  Total(f, S \cup {x}) = Total(f, S) + f[x]
<1>1. IsFiniteSet(Units(f, S)) /\ IsFiniteSet({x} \X (1 .. f[x]))
          /\ Cardinality({x} \X (1 .. f[x])) = f[x]
  BY UnitsFinite, UnitsOfOne
<1>2. Cardinality(Units(f, S) \cup ({x} \X (1 .. f[x])))
          = Cardinality(Units(f, S)) + f[x]
  <2>. DEFINE X == Units(f, S)
              Y == {x} \X (1 .. f[x])
  <2>1. Cardinality({}) = 0 /\ Cardinality(X) \in Nat
    BY <1>1, FS_EmptySet, FS_CardinalityType
  <2>2. X \cap Y = {}
    BY UnitsAdd
  <2>3. IsFiniteSet(X) /\ IsFiniteSet(Y)
            /\ Cardinality(Y) = f[x] /\ f[x] \in Nat
    BY <1>1
  <2>. HIDE DEF X, Y
  <2>4. Cardinality(X \cup Y)
            = Cardinality(X) + Cardinality(Y) - Cardinality(X \cap Y)
    BY <2>3, FS_Union
  <2>5. Cardinality(X \cap Y) = 0
    BY <2>1, <2>2
  <2>6. Cardinality(X \cup Y) = Cardinality(X) + f[x]
    BY <2>1, <2>3, <2>4, <2>5
  <2>7. QED
    BY <2>6 DEF X, Y
<1>3. Total(f, S \cup {x}) = Cardinality(Units(f, S \cup {x}))
          /\ Total(f, S) = Cardinality(Units(f, S))
  BY DEF Total, Units
<1>4. QED
  BY <1>2, <1>3, UnitsAdd

\* Less is summed up over fewer elements, or of smaller numbers.
LEMMA TotalMonotone ==
    ASSUME NEW S, IsFiniteSet(S), NEW f, \A x \in S : f[x] \in Nat,
           NEW A \in SUBSET S, NEW g,
           \A x \in A : g[x] = f[x] \/ g[x] = 0
    PROVE  Total(g, A) <= Total(f, S)
<1>1. Units(g, A) \subseteq Units(f, S)
  BY DEF Units
<1>2. QED
  BY <1>1, UnitsFinite, FS_Subset DEF Total, Units

\* What a sum is depends on its numbers alone.
LEMMA TotalZero ==
    ASSUME NEW S, NEW f, \A x \in S : f[x] = 0
    PROVE  Total(f, S) = 0
<1>1. \A x \in S : 1 .. f[x] = {}
  OBVIOUS
<1>2. Units(f, S) = {}
  BY <1>1 DEF Units
<1>3. QED
  BY <1>2, FS_EmptySet DEF Total, Units

LEMMA TotalEqual ==
    ASSUME NEW S, NEW f, NEW g, \A x \in S : f[x] = g[x]
    PROVE  Total(f, S) = Total(g, S)
<1>1. Units(f, S) = Units(g, S)
  BY DEF Units
<1>2. QED
  BY <1>1 DEF Total, Units

\* No share is greater than the sum.
LEMMA TotalElement ==
    ASSUME NEW S, IsFiniteSet(S), NEW f, \A x \in S : f[x] \in Nat,
           NEW x \in S
    PROVE  f[x] <= Total(f, S)
<1>. DEFINE Rest == S \ {x}
<1>1. IsFiniteSet(Rest) /\ Rest \cup {x} = S /\ x \notin Rest
  BY FS_RemoveElement
<1>2. Total(f, S) = Total(f, Rest) + f[x]
  <2>. HIDE DEF Rest
  <2>1. Total(f, Rest \cup {x}) = Total(f, Rest) + f[x]
    BY <1>1, TotalAdd
  <2>2. QED
    BY <1>1, <2>1
<1>3. Total(f, Rest) \in Nat
  BY <1>1, TotalType
<1>4. QED
  BY <1>2, <1>3

\* A sum of sums.
LEMMA TotalSplit ==
    ASSUME NEW S, IsFiniteSet(S), NEW f, NEW g, NEW h,
           \A x \in S : f[x] \in Nat /\ g[x] \in Nat,
           \A x \in S : h[x] = f[x] + g[x]
    PROVE  Total(h, S) = Total(f, S) + Total(g, S)
<1>. DEFINE Good == {A \in SUBSET S : Total(h, A) = Total(f, A) + Total(g, A)}
<1>1. {} \in Good
  BY TotalEmpty
<1>2. ASSUME NEW A \in Good, NEW x \in S \ A PROVE A \cup {x} \in Good
  <2>1. /\ IsFiniteSet(A) /\ x \notin A
        /\ (\A y \in A : f[y] \in Nat) /\ f[x] \in Nat
        /\ (\A y \in A : g[y] \in Nat) /\ g[x] \in Nat
        /\ (\A y \in A : h[y] \in Nat) /\ h[x] \in Nat
    BY FS_Subset
  <2>2. Total(h, A) = Total(f, A) + Total(g, A) /\ h[x] = f[x] + g[x]
            /\ f[x] \in Nat /\ g[x] \in Nat
    OBVIOUS
  <2>. HIDE DEF Good
  <2>3. Total(f, A \cup {x}) = Total(f, A) + f[x]
    BY <2>1, TotalAdd
  <2>4. Total(g, A \cup {x}) = Total(g, A) + g[x]
    BY <2>1, TotalAdd
  <2>5. Total(h, A \cup {x}) = Total(h, A) + h[x]
    BY <2>1, TotalAdd
  <2>6. Total(f, A) \in Nat /\ Total(g, A) \in Nat
    BY <2>1, TotalType
  <2>7. Total(h, A \cup {x}) = Total(f, A \cup {x}) + Total(g, A \cup {x})
    BY <2>3, <2>4, <2>5, <2>6, <2>2
  <2>8. QED
    BY <2>7 DEF Good
<1>3. Good \in SUBSET SUBSET S
  OBVIOUS
<1>. HIDE DEF Good
<1>4. S \in Good
  BY <1>1, <1>2, <1>3, SubsetInduction
<1>5. QED
  BY <1>4 DEF Good

\* An inequality of shares, up to factors, is one of their sums.
LEMMA TotalScaled ==
    ASSUME NEW S, IsFiniteSet(S), NEW f, NEW g, NEW c \in Nat, NEW d \in Nat,
           \A x \in S : f[x] \in Nat /\ g[x] \in Nat /\ f[x] * c <= g[x] * d
    PROVE  Total(f, S) * c <= Total(g, S) * d
<1>. DEFINE Good == {A \in SUBSET S : Total(f, A) * c <= Total(g, A) * d}
<1>1. {} \in Good
  BY TotalEmpty
<1>2. ASSUME NEW A \in Good, NEW x \in S \ A PROVE A \cup {x} \in Good
  <2>1. IsFiniteSet(A)
    BY FS_Subset
  <2>2. /\ Total(f, A \cup {x}) = Total(f, A) + f[x]
        /\ Total(g, A \cup {x}) = Total(g, A) + g[x]
    BY <2>1, TotalAdd
  <2>3. Total(f, A) \in Nat /\ Total(g, A) \in Nat
    BY <2>1, TotalType
  <2>4. /\ (Total(f, A) + f[x]) * c = Total(f, A) * c + f[x] * c
        /\ (Total(g, A) + g[x]) * d = Total(g, A) * d + g[x] * d
    BY <2>3
  <2>5. /\ Total(f, A) * c \in Nat /\ f[x] * c \in Nat
        /\ Total(g, A) * d \in Nat /\ g[x] * d \in Nat
    BY <2>3
  <2>6. QED
    BY <2>2, <2>4, <2>5
<1>3. Good \in SUBSET SUBSET S
  OBVIOUS
<1>. HIDE DEF Good
<1>4. S \in Good
  BY <1>1, <1>2, <1>3, SubsetInduction
<1>5. QED
  BY <1>4 DEF Good
\* As many units as elements of T, one for each.
LEMMA TotalOfOnes ==
    ASSUME NEW S, IsFiniteSet(S), NEW T
    PROVE  Total([x \in S |-> IF x \in T THEN 1 ELSE 0], S)
               = Cardinality(S \cap T)
<1>. DEFINE f == [x \in S |-> IF x \in T THEN 1 ELSE 0]
            Good == {A \in SUBSET S : Total(f, A) = Cardinality(A \cap T)}
<1>1. \A x \in S : f[x] \in Nat /\ (f[x] = IF x \in T THEN 1 ELSE 0)
  OBVIOUS
<1>. HIDE DEF f
<1>2. {} \in Good
  <2>1. {} \cap T = {}
    OBVIOUS
  <2>2. QED
    BY <2>1, TotalEmpty, FS_EmptySet
<1>3. ASSUME NEW A \in Good, NEW x \in S \ A PROVE A \cup {x} \in Good
  <2>1. IsFiniteSet(A) /\ IsFiniteSet(A \cap T) /\ x \notin A
            /\ (\A y \in A : f[y] \in Nat) /\ f[x] \in Nat
    BY <1>1, FS_Subset, FS_Intersection
  <2>2. Total(f, A \cup {x}) = Cardinality(A \cap T) + f[x]
    BY <2>1, TotalAdd
  <2>3. Cardinality(A \cap T) \in Nat
    BY <2>1, FS_CardinalityType
  <2>4. CASE x \in T
    <3>1. (A \cup {x}) \cap T = (A \cap T) \cup {x} /\ x \notin A \cap T
      BY <2>1, <2>4
    <3>2. Cardinality((A \cap T) \cup {x}) = Cardinality(A \cap T) + 1
      BY <2>1, <3>1, FS_AddElement
    <3>3. QED
      BY <1>1, <2>2, <2>4, <3>1, <3>2
  <2>5. CASE x \notin T
    <3>1. (A \cup {x}) \cap T = A \cap T
      BY <2>5
    <3>2. Total(f, A \cup {x}) = Cardinality(A \cap T)
      BY <1>1, <2>2, <2>3, <2>5
    <3>3. QED
      BY <3>1, <3>2
  <2>6. QED
    BY <2>4, <2>5
<1>4. Good \in SUBSET SUBSET S
  OBVIOUS
<1>. HIDE DEF Good
<1>5. S \in Good
  BY <1>2, <1>3, <1>4, SubsetInduction
<1>6. QED
  BY <1>5 DEF Good, f

\* Every thread is a thread of one process: what the threads of some processes
\* count is no more than all of them.
LEMMA TotalOfThreads ==
    ASSUME NEW S, IsFiniteSet(S), NEW T, IsFiniteSet(T)
    PROVE  Total([p \in S |-> Cardinality(ThreadsOf(p, T))], S)
               <= Cardinality(T)
<1>. DEFINE f == [p \in S |-> Cardinality(ThreadsOf(p, T))]
            Of(A) == {t \in T : Owner[t] \in A}
            Good == {A \in SUBSET S : Total(f, A) = Cardinality(Of(A))}
<1>1. \A p \in S : f[p] \in Nat /\ f[p] = Cardinality(ThreadsOf(p, T))
                   /\ IsFiniteSet(ThreadsOf(p, T))
  <2>1. \A p \in S : IsFiniteSet(ThreadsOf(p, T))
    BY FS_Subset DEF ThreadsOf
  <2>2. QED
    BY <2>1, FS_CardinalityType
<1>2. \A A : IsFiniteSet(Of(A)) /\ Cardinality(Of(A)) \in Nat
             /\ Cardinality(Of(A)) <= Cardinality(T)
  BY FS_Subset, FS_CardinalityType
<1>. HIDE DEF f
<1>3. {} \in Good
  <2>1. Of({}) = {}
    OBVIOUS
  <2>2. QED
    BY <2>1, TotalEmpty, FS_EmptySet
<1>4. ASSUME NEW A \in Good, NEW x \in S \ A PROVE A \cup {x} \in Good
  <2>1. IsFiniteSet(A) /\ x \notin A
            /\ (\A y \in A : f[y] \in Nat) /\ f[x] \in Nat
    BY <1>1, FS_Subset
  <2>2. Total(f, A) = Cardinality(Of(A))
    OBVIOUS
  <2>3. Of(A \cup {x}) = Of(A) \cup ThreadsOf(x, T)
            /\ Of(A) \cap ThreadsOf(x, T) = {}
    BY <2>1 DEF ThreadsOf
  <2>. HIDE DEF Of, Good
  <2>4. Cardinality(Of(A) \cup ThreadsOf(x, T))
            = Cardinality(Of(A)) + Cardinality(ThreadsOf(x, T))
                - Cardinality(Of(A) \cap ThreadsOf(x, T))
    BY <1>1, <1>2, FS_Union
  <2>5. Cardinality(Of(A) \cap ThreadsOf(x, T)) = 0
    BY <2>3, FS_EmptySet
  <2>6. /\ Cardinality(Of(A)) \in Nat
        /\ f[x] \in Nat /\ f[x] = Cardinality(ThreadsOf(x, T))
    BY <1>1, <1>2
  <2>7. Cardinality(Of(A) \cup ThreadsOf(x, T)) = Cardinality(Of(A)) + f[x]
    BY <2>4, <2>5, <2>6
  <2>8. Total(f, A \cup {x}) = Total(f, A) + f[x]
    BY <2>1, TotalAdd
  <2>9. Total(f, A \cup {x}) = Cardinality(Of(A \cup {x}))
    BY <2>2, <2>3, <2>7, <2>8
  <2>10. QED
    BY <2>9 DEF Good
<1>5. Good \in SUBSET SUBSET S
  OBVIOUS
<1>. HIDE DEF Good
<1>6. S \in Good
  BY <1>3, <1>4, <1>5, SubsetInduction
<1>7. QED
  BY <1>2, <1>6 DEF Good, f

-----------------------------------------------------------------------------
(* Shares. *)

\* Integer division rounds down.
LEMMA Division ==
    ASSUME NEW a \in Nat, NEW b \in Nat \ {0}
    PROVE  /\ a \div b \in Nat
           /\ (a \div b) * b <= a
           /\ a < (a \div b + 1) * b
OBVIOUS

\* A small number fits an int32_t.
LEMMA Int32Small ==
    ASSUME NEW n \in Nat, n < Half
    PROVE  Int32(n) = n
BY UnitsAreNat DEF Int32

\* Order and multiplication, one product at a time.
LEMMA Multiplied ==
    ASSUME NEW a \in Nat, NEW b \in Nat, a <= b, NEW c \in Nat
    PROVE  a * c <= b * c
OBVIOUS

LEMMA MultipliedLess ==
    ASSUME NEW a \in Nat, NEW b \in Nat, NEW c \in Nat \ {0}
    PROVE  a < b <=> a * c < b * c
OBVIOUS

\* A share that does not overflow is the quotient, rounded down once, although
\* the code divides twice.
LEMMA ShareRounded ==
    ASSUME delta \in Nat, NEW u \in Nat, NEW a \in Nat, u <= Processors * a,
           delta > 0 => Unit * a < Half * delta
    PROVE  /\ Share(u) \in Nat
           /\ Share(u) * (delta * Processors) <= u * Unit
           /\ delta > 0 => u * Unit < (Share(u) + 1) * (delta * Processors)
<1>. Unit \in Nat /\ Half \in Nat \ {0} /\ Processors \in Nat \ {0}
  BY UnitsAreNat, SomeProcessor
<1>1. CASE delta = 0
  BY <1>1 DEF Share
<1>2. CASE delta > 0
  <2>. DEFINE w == u * Unit
              q == w \div delta
              s == q \div Processors
              d == delta * Processors
  <2>1. w \in Nat /\ d \in Nat \ {0}
    BY <1>2
  <2>2. q \in Nat /\ q * delta <= w /\ w < (q + 1) * delta
    <3>. HIDE DEF w
    <3>1. QED
      BY <1>2, <2>1, Division
  <2>3. s \in Nat /\ s * Processors <= q /\ q < (s + 1) * Processors
    <3>. HIDE DEF q
    <3>1. QED
      BY <2>2, Division
  <2>4. Share(u) = Int32(s)
    BY <1>2 DEF Share
  <2>. HIDE DEF w, q, s
  <2>5. s * d <= w
    <3>1. (s * Processors) * delta <= q * delta
      BY <1>2, <2>2, <2>3, Multiplied
    <3>2. (s * Processors) * delta = s * d
      BY <2>3
    <3>3. QED
      BY <2>1, <2>2, <2>3, <3>1, <3>2
  <2>6. w < (s + 1) * d
    <3>1. (q + 1) * delta <= ((s + 1) * Processors) * delta
      BY <1>2, <2>2, <2>3, Multiplied
    <3>2. ((s + 1) * Processors) * delta = (s + 1) * d
      BY <2>3
    <3>3. QED
      BY <2>1, <2>2, <2>3, <3>1, <3>2
  <2>7. w < Half * d
    <3>1. w <= (Processors * a) * Unit
      BY Multiplied DEF w
    <3>2. (Processors * a) * Unit = (Unit * a) * Processors
      OBVIOUS
    <3>3. (Unit * a) * Processors < (Half * delta) * Processors
      BY <1>2, MultipliedLess
    <3>4. (Half * delta) * Processors = Half * d
      OBVIOUS
    <3>5. QED
      BY <2>1, <3>1, <3>2, <3>3, <3>4
  <2>8. s < Half
    <3>. HIDE DEF d
    <3>1. s * d < Half * d
      BY <2>1, <2>3, <2>5, <2>7
    <3>2. QED
      BY <2>1, <2>3, <3>1, MultipliedLess
  <2>9. Share(u) = s
    BY <2>3, <2>4, <2>8, Int32Small
  <2>10. QED
    BY <2>3, <2>5, <2>6, <2>9 DEF w
<1>3. QED
  BY <1>1, <1>2

-----------------------------------------------------------------------------
(* The invariant. *)

TypeOK ==
    /\ running \subseteq Thread /\ IsFiniteSet(running)
    /\ elapsed \in Nat /\ lag \in Nat /\ delta \in Nat
    /\ age \in Nat /\ interval \in Nat
    /\ pc \in {"idle", "ticked"} /\ threadCalls \in 0 .. 2
    /\ IsFiniteSet(DOMAIN used) /\ used \in [DOMAIN used -> Nat]
    /\ DOMAIN usedT \subseteq Thread
    /\ IsFiniteSet(DOMAIN usedT) /\ usedT \in [DOMAIN usedT -> Nat]

\* All objects that are kept were recorded by the last snapshot, and together
\* used no more than all processors gave since.
UsedFits == Total(used, DOMAIN used) <= Processors * age

\* If the last call had threads, so were the threads, under the processes it
\* listed, and the time of a process is shared by its threads.
UsedByThreads ==
    threadCalls > 0 =>
        \A t \in DOMAIN usedT : usedT[t] <= age /\ Owner[t] \in DOMAIN used

UsedWithinProcess ==
    threadCalls > 0 =>
        \A p \in DOMAIN used :
            Total(usedT, ThreadsOf(p, DOMAIN usedT)) <= used[p]

Inv == /\ TypeOK /\ UsedFits /\ UsedByThreads /\ UsedWithinProcess
       /\ SharesFit /\ ThreadOnOneProcessor /\ ThreadsWithinProcess

LEMMA InvInit == Init => Inv
<1>. SUFFICES ASSUME Init PROVE Inv
  OBVIOUS
<1>. DOMAIN <<>> = {}
  OBVIOUS
<1>1. TypeOK
  BY FS_EmptySet DEF Init, TypeOK
<1>2. UsedFits /\ UsedByThreads /\ UsedWithinProcess
  BY TotalEmpty, SomeProcessor
  DEF Init, UsedFits, UsedByThreads, UsedWithinProcess
<1>3. SharesFit /\ ThreadOnOneProcessor /\ ThreadsWithinProcess
  BY TotalEmpty, UnitsAreNat
  DEF Init, SharesFit, ThreadOnOneProcessor, ThreadsWithinProcess
<1>4. QED
  BY <1>1, <1>2, <1>3 DEF Inv

\* What leaves the shares and what they are measured in alone.
LEMMA SharesUnchanged ==
    ASSUME Inv, UNCHANGED <<cpu, cpuT, interval, threadCalls>>,
           pc' = "idle" => pc = "idle" /\ delta' = delta
    PROVE  SharesFit' /\ ThreadOnOneProcessor' /\ ThreadsWithinProcess'
<1>1. SharesFit'
  BY DEF Inv, SharesFit, NoOverflow, Total
<1>2. ThreadOnOneProcessor'
  BY DEF Inv, ThreadOnOneProcessor, NoOverflow
<1>3. ThreadsWithinProcess'
  BY DEF Inv, ThreadsWithinProcess, NoOverflow, Total, ThreadsOf
<1>4. QED
  BY <1>1, <1>2, <1>3

\* Threads that start or exit have not used anything yet, or will not.
LEMMA InvStart ==
    ASSUME Inv, NEW t \in Thread, StartThread(t) \/ ExitThread(t)
    PROVE  Inv'
<1>. USE DEF StartThread, ExitThread, objectVars, historyVars
<1>1. UNCHANGED <<elapsed, objectVars, pc, lag, delta, historyVars>>
  OBVIOUS
<1>2. running' \subseteq Thread /\ IsFiniteSet(running')
  BY FS_AddElement, FS_RemoveElement DEF Inv, TypeOK
<1>3. TypeOK'
  BY <1>1, <1>2 DEF Inv, TypeOK
<1>4. UsedFits' /\ UsedByThreads' /\ UsedWithinProcess'
  BY <1>1
  DEF Inv, UsedFits, UsedByThreads, UsedWithinProcess, Total, ThreadsOf
<1>5. SharesFit' /\ ThreadOnOneProcessor' /\ ThreadsWithinProcess'
  BY <1>1, SharesUnchanged
<1>6. QED
  BY <1>3, <1>4, <1>5 DEF Inv

\* Reading the clock changes what shares are measured in, and no share.
LEMMA InvTicks ==
    ASSUME Inv, ReadTicks
    PROVE  Inv'
<1>. USE DEF ReadTicks, systemVars, objectVars, historyVars
<1>1. TypeOK'
  BY DEF Inv, TypeOK
<1>2. UsedFits' /\ UsedByThreads' /\ UsedWithinProcess'
  BY DEF Inv, UsedFits, UsedByThreads, UsedWithinProcess, Total, ThreadsOf
<1>3. SharesFit' /\ ThreadOnOneProcessor' /\ ThreadsWithinProcess'
  BY SharesUnchanged
<1>4. QED
  BY <1>1, <1>2, <1>3 DEF Inv

\* In a unit of time the objects use no more than one on each processor, and a
\* process uses what its threads use.
LEMMA InvRun ==
    ASSUME Inv, NEW T \in SUBSET running, Run(T)
    PROVE  Inv'
<1>. DEFINE D == DOMAIN used
            DT == DOMAIN usedT
            ran == [t \in DT |-> IF t \in T THEN 1 ELSE 0]
            busy == [p \in D \ {Idle} |-> Cardinality(ThreadsOf(p, T))]
            inc == [p \in D |-> IF p = Idle THEN Processors - Cardinality(T)
                                ELSE Cardinality(ThreadsOf(p, T))]
<1>1. /\ IsFiniteSet(T) /\ Cardinality(T) \in Nat
      /\ Cardinality(T) <= Processors /\ Processors \in Nat \ {0}
      /\ Processors - Cardinality(T) \in Nat
  BY FS_Subset, FS_CardinalityType, SomeProcessor DEF Inv, TypeOK, Run
<1>2. \A p : /\ IsFiniteSet(ThreadsOf(p, T))
             /\ Cardinality(ThreadsOf(p, T)) \in Nat
  BY <1>1, FS_Subset, FS_CardinalityType DEF ThreadsOf
<1>3. /\ IsFiniteSet(D) /\ used \in [D -> Nat]
      /\ IsFiniteSet(DT) /\ usedT \in [DT -> Nat] /\ DT \subseteq Thread
  BY DEF Inv, TypeOK
<1>4. /\ used' = [p \in D |-> used[p] + inc[p]]
      /\ \A p \in D : inc[p] \in Nat
  BY <1>1, <1>2 DEF Run
<1>5. /\ usedT' = [t \in DT |-> usedT[t] + ran[t]]
      /\ \A t \in DT : ran[t] \in 0 .. 1
  BY DEF Run
<1>6. age' = age + 1 /\ UNCHANGED <<running, cpu, cpuT, pc, delta, interval,
                                    threadCalls>>
  BY DEF Run, systemVars
<1>7. TypeOK'
  <2>1. used' \in [D -> Nat] /\ DOMAIN used' = D
    BY <1>3, <1>4
  <2>2. usedT' \in [DT -> Nat] /\ DOMAIN usedT' = DT
    BY <1>3, <1>5
  <2>3. elapsed' \in Nat /\ lag' \in Nat /\ age' \in Nat
    BY <1>6 DEF Run, Inv, TypeOK
  <2>. HIDE DEF D, DT
  <2>4. QED
    BY <1>3, <1>6, <2>1, <2>2, <2>3 DEF Inv, TypeOK
<1>8. Total(inc, D) <= Processors
  <2>. DEFINE E == D \ {Idle}
  <2>1. IsFiniteSet(E) /\ \A p \in E : busy[p] \in Nat /\ inc[p] = busy[p]
    BY <1>2, <1>3, FS_Subset
  <2>2. Total(busy, E) <= Cardinality(T) /\ Total(inc, E) = Total(busy, E)
    BY <1>1, <2>1, TotalOfThreads, TotalEqual
  <2>3. Total(inc, E) \in Nat
    <3>1. \A p \in E : inc[p] \in Nat
      BY <1>4
    <3>. HIDE DEF E, inc
    <3>2. QED
      BY <2>1, <3>1, TotalType
  <2>4. CASE Idle \in D
    <3>1. E \cup {Idle} = D /\ inc[Idle] = Processors - Cardinality(T)
      BY <2>4
    <3>2. (\A p \in E : inc[p] \in Nat) /\ inc[Idle] \in Nat
      BY <1>4, <2>4
    <3>3. IsFiniteSet(E) /\ Idle \notin E
      BY <2>1
    <3>4. Total(inc, E) <= Cardinality(T)
      BY <2>2
    <3>. HIDE DEF E, inc, D
    <3>5. Total(inc, E \cup {Idle}) = Total(inc, E) + inc[Idle]
      BY <3>2, <3>3, TotalAdd
    <3>6. Total(inc, E) + inc[Idle] <= Processors
      BY <1>1, <2>3, <3>1, <3>4
    <3>7. QED
      BY <3>1, <3>5, <3>6
  <2>5. CASE Idle \notin D
    <3>1. E = D
      BY <2>5
    <3>. HIDE DEF E, inc, D, busy
    <3>2. QED
      BY <1>1, <2>2, <2>3, <3>1
  <2>6. QED
    BY <2>4, <2>5
<1>9. UsedFits'
  <2>1. \A p \in D : used[p] \in Nat /\ inc[p] \in Nat
    BY <1>3, <1>4
  <2>2. \A p \in D : used'[p] = used[p] + inc[p]
    BY <1>4
  <2>3. DOMAIN used' = D
    BY <1>4
  <2>4. Total(used, D) <= Processors * age /\ age \in Nat
    BY DEF Inv, UsedFits, TypeOK
  <2>. HIDE DEF D, inc
  <2>5. Total(used', D) = Total(used, D) + Total(inc, D)
    BY <1>3, <2>1, <2>2, TotalSplit
  <2>6. Total(used, D) \in Nat /\ Total(inc, D) \in Nat
    BY <1>3, <2>1, TotalType
  <2>7. Processors * (age + 1) = Processors * age + Processors
            /\ Processors * age \in Nat
    BY <1>1, <2>4
  <2>8. Total(used', D) <= Processors * age'
    BY <1>1, <1>6, <1>8, <2>4, <2>5, <2>6, <2>7
  <2>9. QED
    BY <2>3, <2>8 DEF UsedFits, Total
<1>10. UsedByThreads'
  <2>. SUFFICES ASSUME threadCalls > 0, NEW t \in DT
                PROVE  usedT'[t] <= age' /\ Owner[t] \in D
    BY <1>4, <1>5, <1>6 DEF UsedByThreads
  <2>1. usedT[t] <= age /\ Owner[t] \in D
    BY DEF Inv, UsedByThreads
  <2>2. usedT'[t] = usedT[t] + ran[t] /\ ran[t] \in 0 .. 1 /\ usedT[t] \in Nat
    BY <1>3, <1>5
  <2>3. QED
    BY <1>6, <2>1, <2>2 DEF Inv, TypeOK
<1>11. UsedWithinProcess'
  <2>. SUFFICES ASSUME threadCalls > 0, NEW p \in D
                PROVE  Total(usedT', ThreadsOf(p, DT)) <= used'[p]
    BY <1>4, <1>5, <1>6 DEF UsedWithinProcess, Total
  <2>. DEFINE P == ThreadsOf(p, DT)
  <2>1. IsFiniteSet(P) /\ P \subseteq DT
    BY <1>3, FS_Subset DEF ThreadsOf
  <2>2. Total(usedT, P) <= used[p]
    BY DEF Inv, UsedWithinProcess
  <2>3. (\A t \in P : usedT[t] \in Nat /\ ran[t] \in Nat)
            /\ \A t \in P : usedT'[t] = usedT[t] + ran[t]
    BY <1>3, <1>5, <2>1
  <2>4. Total(usedT', P) = Total(usedT, P) + Total(ran, P)
    <3>. HIDE DEF P, ran
    <3>1. QED
      BY <2>1, <2>3, TotalSplit
  <2>5. Total(ran, P) = Cardinality(P \cap T)
    <3>1. Total([t \in P |-> IF t \in T THEN 1 ELSE 0], P)
              = Cardinality(P \cap T)
      BY <2>1, TotalOfOnes
    <3>2. \A t \in P : ran[t] = [u \in P |-> IF u \in T THEN 1 ELSE 0][t]
      BY <2>1
    <3>. HIDE DEF P, ran
    <3>3. QED
      BY <3>1, <3>2, TotalEqual
  <2>6. Cardinality(P \cap T) <= inc[p] /\ Cardinality(P \cap T) \in Nat
    <3>1. IsFiniteSet(P \cap T) /\ Cardinality(P \cap T) \in Nat
      BY <2>1, FS_Intersection, FS_CardinalityType
    <3>2. CASE p = Idle
      <4>1. P = {}
        BY <1>3, <3>2, OwnersAreProcesses, NotProcesses DEF ThreadsOf
      <4>2. Cardinality(P \cap T) = 0
        BY <4>1, FS_EmptySet
      <4>3. QED
        BY <1>4, <3>1, <4>2
    <3>3. CASE p # Idle
      <4>1. P \cap T \subseteq ThreadsOf(p, T)
                /\ inc[p] = Cardinality(ThreadsOf(p, T))
        BY <3>3 DEF ThreadsOf
      <4>2. QED
        BY <1>2, <3>1, <4>1, FS_Subset
    <3>4. QED
      BY <3>2, <3>3
  <2>7. Total(usedT, P) \in Nat /\ used[p] \in Nat /\ inc[p] \in Nat
            /\ used'[p] = used[p] + inc[p]
    BY <1>3, <1>4, <2>1, <2>3, TotalType
  <2>8. Total(usedT', P) <= used'[p]
    <3>. HIDE DEF P, inc, ran
    <3>1. QED
      BY <2>2, <2>4, <2>5, <2>6, <2>7
  <2>9. QED
    BY <2>8
<1>12. SharesFit' /\ ThreadOnOneProcessor' /\ ThreadsWithinProcess'
  BY <1>6, SharesUnchanged
<1>13. QED
  BY <1>7, <1>9, <1>10, <1>11, <1>12 DEF Inv

-----------------------------------------------------------------------------
(* A snapshot. *)

\* The processes a call lists, and their threads.
LEMMA ListedFinite ==
    ASSUME TypeOK, NEW ok \in BOOLEAN, NEW pid
    PROVE  /\ IsFiniteSet(Listed(ok, pid))
           /\ Alive \subseteq Process
<1>. DEFINE Good == {A \in SUBSET running : IsFiniteSet({Owner[t] : t \in A})}
<1>1. IsFiniteSet(running)
  BY DEF TypeOK
<1>2. {} \in Good
  <2>1. {Owner[t] : t \in {}} = {}
    OBVIOUS
  <2>2. QED
    BY <2>1, FS_EmptySet
<1>3. ASSUME NEW A \in Good, NEW x \in running \ A PROVE A \cup {x} \in Good
  <2>1. {Owner[t] : t \in A \cup {x}} = {Owner[t] : t \in A} \cup {Owner[x]}
    OBVIOUS
  <2>2. IsFiniteSet({Owner[t] : t \in A} \cup {Owner[x]})
    BY FS_AddElement
  <2>3. QED
    BY <2>1, <2>2
<1>4. Good \in SUBSET SUBSET running
  OBVIOUS
<1>5. running \in Good
  <2>. HIDE DEF Good
  <2>1. QED
    BY <1>1, <1>2, <1>3, <1>4, SubsetInduction
<1>6. IsFiniteSet(Alive)
  BY <1>5 DEF Alive
<1>7. IsFiniteSet(Alive \cup {Idle})
  BY <1>6, FS_AddElement
<1>8. Listed(ok, pid) \subseteq Alive \cup {Idle}
  BY DEF Listed
<1>9. IsFiniteSet(Listed(ok, pid))
  BY <1>7, <1>8, FS_Subset
<1>10. Alive \subseteq Process
  BY OwnersAreProcesses DEF Alive, TypeOK
<1>11. QED
  BY <1>9, <1>10

\* What each object of S used; a new one counts for nothing.
Before(times, S) == [x \in S |-> IF x \in DOMAIN times THEN times[x] ELSE 0]

\* The shares of a set of objects that together used no more than u, where all
\* processors gave u and more since the snapshot before.
LEMMA SharesBounded ==
    ASSUME delta \in Nat, NEW times, times \in [DOMAIN times -> Nat],
           NEW K \in SUBSET DOMAIN times, IsFiniteSet(K),
           NEW S, IsFiniteSet(S), S \cap DOMAIN times \subseteq K,
           NEW a \in Nat, delta > 0 => Unit * a < Half * delta,
           Total(times, K) <= Processors * a,
           NEW f, \A x \in S : f[x] = Shares(times, S)[x]
    PROVE  /\ \A x \in S : f[x] \in Nat
           /\ Total(f, S) * (delta * Processors) <= Total(times, K) * Unit
           /\ Total(f, S) \in Nat
<1>. DEFINE b == Before(times, S)
            d == delta * Processors
<1>1. Unit \in Nat /\ Processors \in Nat /\ d \in Nat
  BY UnitsAreNat, SomeProcessor
<1>2. \A x \in K : times[x] \in Nat
  OBVIOUS
<1>3. Total(times, K) \in Nat
  BY <1>2, TotalType
<1>4. ASSUME NEW x \in S
      PROVE  f[x] \in Nat /\ b[x] \in Nat /\ f[x] * d <= b[x] * Unit
  <2>1. CASE x \in DOMAIN times
    <3>1. f[x] = Share(times[x]) /\ b[x] = times[x] /\ x \in K
      BY <2>1 DEF Shares, Before
    <3>2. times[x] \in Nat /\ times[x] <= Total(times, K)
      BY <1>2, <3>1, TotalElement
    <3>3. times[x] <= Processors * a
      BY <1>1, <1>3, <3>2
    <3>4. QED
      BY <3>1, <3>2, <3>3, ShareRounded
  <2>2. CASE x \notin DOMAIN times
    <3>1. f[x] = 0 /\ b[x] = 0
      BY <2>2 DEF Shares, Before
    <3>. HIDE DEF b, d
    <3>2. QED
      BY <1>1, <3>1
  <2>3. QED
    BY <2>1, <2>2
<1>5. Total(f, S) * d <= Total(b, S) * Unit
  <2>. HIDE DEF b, d
  <2>1. QED
    BY <1>1, <1>4, TotalScaled
<1>6. /\ Total(b, S) <= Total(times, K)
      /\ Total(b, S) \in Nat /\ Total(f, S) \in Nat
  <2>1. Total(b, S) = Total(b, S \cap K)
    <3>1. \A x \in S \ K : b[x] = 0
      BY DEF Before
    <3>2. Units(b, S) = Units(b, S \cap K)
      <4>1. \A x \in S \ K : 1 .. b[x] = {}
        BY <3>1
      <4>. HIDE DEF b
      <4>2. QED
        BY <4>1 DEF Units
    <3>3. QED
      BY <3>2 DEF Total, Units
  <2>2. \A x \in S \cap K : b[x] = times[x]
    BY DEF Before
  <2>3. Total(b, S \cap K) <= Total(times, K)
    <3>. HIDE DEF b
    <3>1. QED
      BY <1>2, <2>2, TotalMonotone
  <2>4. Total(b, S) \in Nat /\ Total(f, S) \in Nat
    <3>. HIDE DEF b
    <3>1. QED
      BY <1>4, TotalType
  <2>5. QED
    BY <2>1, <2>3, <2>4
<1>7. Total(b, S) * Unit <= Total(times, K) * Unit
  BY <1>1, <1>3, <1>6, Multiplied
<1>8. Total(f, S) * d <= Total(times, K) * Unit
  <2>1. Total(f, S) * d \in Nat /\ Total(b, S) * Unit \in Nat
            /\ Total(times, K) * Unit \in Nat
    BY <1>1, <1>3, <1>6
  <2>. HIDE DEF b, d
  <2>2. QED
    BY <1>5, <1>7, <2>1
<1>9. QED
  BY <1>4, <1>6, <1>8

\* The shares of a snapshot follow from the times since the one before, and
\* all times begin at zero again.
LEMMA InvSnapshot ==
    ASSUME Inv, NEW ok \in BOOLEAN, NEW withThreads \in BOOLEAN,
           NEW pid \in Process \cup {Everything},
           Snapshot(ok, withThreads, pid)
    PROVE  Inv'
<1>. DEFINE S == Listed(ok, pid)
            T == {t \in running : Owner[t] \in S}
            D == DOMAIN used
            DT == DOMAIN usedT
            d == delta * Processors
<1>1. /\ IsFiniteSet(S)
      /\ IsFiniteSet(T) /\ T \subseteq Thread /\ T \subseteq running
  BY ListedFinite, FS_Subset DEF Inv, TypeOK
<1>2. /\ IsFiniteSet(D) /\ used \in [D -> Nat]
      /\ IsFiniteSet(DT) /\ usedT \in [DT -> Nat] /\ DT \subseteq Thread
      /\ age \in Nat /\ lag \in Nat /\ delta \in Nat
  BY DEF Inv, TypeOK
<1>3. /\ cpu' = Shares(used, S) /\ used' = Record(used, S)
      /\ pc' = "idle" /\ elapsed' = lag /\ lag' = 0 /\ age' = 0
      /\ interval' = age /\ UNCHANGED <<running, delta>>
      /\ threadCalls' = IF ~withThreads THEN 0
                        ELSE IF threadCalls < 2 THEN threadCalls + 1 ELSE 2
  BY DEF Snapshot, systemVars
<1>4. /\ withThreads => cpuT' = Shares(usedT, T) /\ usedT' = Record(usedT, T)
      /\ ~withThreads => UNCHANGED <<usedT, cpuT>>
  BY DEF Snapshot, EnumThreads
<1>5. /\ threadCalls' \in 0 .. 2
      /\ threadCalls' > 0 => withThreads
      /\ threadCalls' = 2 => threadCalls > 0
  BY <1>3 DEF Inv, TypeOK
<1>6. /\ DOMAIN used' = S /\ used' \in [S -> Nat] /\ \A p \in S : used'[p] = 0
      /\ withThreads => /\ DOMAIN usedT' = T /\ usedT' \in [T -> Nat]
                        /\ \A t \in T : usedT'[t] = 0
      /\ DOMAIN cpu' = S
      /\ withThreads => DOMAIN cpuT' = T
  BY <1>3, <1>4 DEF Record, Shares
<1>7. TypeOK'
  <2>1. IsFiniteSet(DOMAIN used') /\ used' \in [DOMAIN used' -> Nat]
    BY <1>1, <1>6
  <2>2. DOMAIN usedT' \subseteq Thread /\ IsFiniteSet(DOMAIN usedT')
            /\ usedT' \in [DOMAIN usedT' -> Nat]
    BY <1>1, <1>2, <1>4, <1>6
  <2>3. elapsed' \in Nat /\ lag' \in Nat /\ delta' \in Nat /\ age' \in Nat
            /\ interval' \in Nat
    BY <1>2, <1>3
  <2>4. QED
    BY <1>3, <1>5, <2>1, <2>2, <2>3 DEF Inv, TypeOK
<1>8. UsedFits'
  <2>1. Total(used', S) = 0
    BY <1>6, TotalZero
  <2>2. QED
    BY <1>3, <1>6, <2>1, SomeProcessor DEF UsedFits, Total
<1>9. UsedByThreads'
  BY <1>3, <1>5, <1>6 DEF UsedByThreads
<1>10. UsedWithinProcess'
  <2>. SUFFICES ASSUME withThreads, NEW p \in S
                PROVE  Total(usedT', ThreadsOf(p, T)) <= used'[p]
    BY <1>5, <1>6 DEF UsedWithinProcess, Total, ThreadsOf
  <2>1. \A t \in ThreadsOf(p, T) : usedT'[t] = 0
    BY <1>6 DEF ThreadsOf
  <2>2. Total(usedT', ThreadsOf(p, T)) = 0
    BY <2>1, TotalZero
  <2>3. QED
    BY <1>6, <2>2
<1>. HIDE DEF S
<1>11. Total(used, D) <= Processors * age /\ Total(used, D) \in Nat
  BY <1>2, TotalType DEF Inv, UsedFits
<1>12. ASSUME delta > 0 => Unit * age < Half * delta
       PROVE  /\ \A p \in S : cpu'[p] \in Nat
              /\ Total(cpu', S) * d <= Total(used, D) * Unit
              /\ Total(cpu', S) \in Nat
  BY <1>1, <1>2, <1>3, <1>11, <1>12, SharesBounded
<1>13. SharesFit'
  <2>. SUFFICES ASSUME NoOverflow'
                PROVE  /\ \A p \in S : cpu'[p] >= 0
                       /\ Total(cpu', S) * delta <= Unit * age
    BY <1>3, <1>6 DEF SharesFit, Total
  <2>1. delta > 0 => Unit * age < Half * delta
    BY <1>3 DEF NoOverflow
  <2>2. /\ \A p \in S : cpu'[p] \in Nat
        /\ Total(cpu', S) * d <= Total(used, D) * Unit
        /\ Total(cpu', S) \in Nat
    BY <1>12, <2>1
  <2>3. Unit \in Nat /\ Processors \in Nat \ {0}
    BY UnitsAreNat, SomeProcessor
  <2>4. Total(used, D) * Unit <= (Processors * age) * Unit
    BY <1>2, <1>11, <2>3, Multiplied
  <2>5. /\ (Processors * age) * Unit = (Unit * age) * Processors
        /\ Total(cpu', S) * d = (Total(cpu', S) * delta) * Processors
        /\ Unit * age \in Nat /\ Total(cpu', S) * delta \in Nat
        /\ Total(used, D) * Unit \in Nat
    BY <1>2, <1>11, <2>2, <2>3
  <2>6. (Total(cpu', S) * delta) * Processors <= (Unit * age) * Processors
    BY <2>2, <2>3, <2>4, <2>5
  <2>7. Total(cpu', S) * delta <= Unit * age
    BY <2>3, <2>5, <2>6, MultipliedLess
  <2>8. QED
    BY <2>2, <2>7
<1>14. ThreadOnOneProcessor'
  <2>. SUFFICES ASSUME threadCalls' = 2, NoOverflow', NEW t \in T
                PROVE  /\ cpuT'[t] >= 0
                       /\ cpuT'[t] * delta * Processors <= Unit * age
    BY <1>3, <1>5, <1>6 DEF ThreadOnOneProcessor
  <2>1. withThreads /\ threadCalls > 0
            /\ (delta > 0 => Unit * age < Half * delta)
    BY <1>3, <1>5 DEF NoOverflow
  <2>2. Unit \in Nat /\ Processors \in Nat \ {0}
    BY UnitsAreNat, SomeProcessor
  <2>3. CASE t \in DT
    <3>1. cpuT'[t] = Share(usedT[t])
      BY <1>4, <2>1, <2>3 DEF Shares
    <3>2. usedT[t] \in Nat /\ usedT[t] <= age
      BY <1>2, <2>1, <2>3 DEF Inv, UsedByThreads
    <3>3. usedT[t] <= Processors * age
      <4>1. 1 * age <= Processors * age
        BY <1>2, <2>2, Multiplied
      <4>2. Processors * age \in Nat
        BY <1>2, <2>2
      <4>3. QED
        BY <1>2, <3>2, <4>1, <4>2
    <3>4. cpuT'[t] \in Nat /\ cpuT'[t] * d <= usedT[t] * Unit
      BY <1>2, <2>1, <3>1, <3>2, <3>3, ShareRounded
    <3>5. usedT[t] * Unit <= age * Unit
      BY <1>2, <2>2, <3>2, Multiplied
    <3>6. /\ cpuT'[t] * delta * Processors = cpuT'[t] * d
          /\ age * Unit = Unit * age
          /\ cpuT'[t] * d \in Nat
          /\ usedT[t] * Unit \in Nat /\ age * Unit \in Nat
      BY <1>2, <2>2, <3>2, <3>4
    <3>7. QED
      BY <3>4, <3>5, <3>6
  <2>4. CASE t \notin DT
    <3>1. cpuT'[t] = 0
      BY <1>4, <2>1, <2>4 DEF Shares
    <3>2. QED
      BY <1>2, <2>2, <3>1
  <2>5. QED
    BY <2>3, <2>4
<1>15. ThreadsWithinProcess'
  <2>. SUFFICES ASSUME threadCalls' = 2, NoOverflow', NEW p \in S
                PROVE  Total(cpuT', ThreadsOf(p, T)) <= cpu'[p]
    BY <1>3, <1>5, <1>6 DEF ThreadsWithinProcess, Total, ThreadsOf
  <2>. DEFINE K == ThreadsOf(p, DT)
              P == ThreadsOf(p, T)
  <2>1. withThreads /\ threadCalls > 0
            /\ (delta > 0 => Unit * age < Half * delta)
    BY <1>3, <1>5 DEF NoOverflow
  <2>2. Unit \in Nat /\ Processors \in Nat \ {0}
    BY UnitsAreNat, SomeProcessor
  <2>3. K \subseteq DT /\ IsFiniteSet(K) /\ P \subseteq T /\ IsFiniteSet(P)
            /\ P \cap DT \subseteq K
    BY <1>1, <1>2, FS_Subset DEF ThreadsOf
  <2>4. \A t \in P : cpuT'[t] = Shares(usedT, P)[t]
    BY <1>4, <2>1, <2>3 DEF Shares
  <2>5. CASE p \in D
    <3>1. Total(usedT, K) <= used[p] /\ Total(usedT, K) \in Nat
      <4>1. Total(usedT, K) <= used[p]
        BY <2>1, <2>5 DEF Inv, UsedWithinProcess
      <4>2. \A t \in K : usedT[t] \in Nat
        BY <1>2, <2>3
      <4>3. Total(usedT, K) \in Nat
        BY <2>3, <4>2, TotalType
      <4>4. QED
        BY <4>1, <4>3
    <3>2. used[p] \in Nat /\ used[p] <= Processors * age
              /\ Processors * age \in Nat
      <4>1. used[p] <= Total(used, D) /\ used[p] \in Nat
        BY <1>2, <2>5, TotalElement
      <4>2. Processors * age \in Nat
        BY <1>2, <2>2
      <4>3. QED
        BY <1>11, <4>1, <4>2
    <3>3. cpu'[p] = Share(used[p])
      BY <1>3, <2>5 DEF Shares
    <3>4. /\ cpu'[p] \in Nat
          /\ delta > 0 => used[p] * Unit < (cpu'[p] + 1) * d
      BY <1>2, <2>1, <3>2, <3>3, ShareRounded
    <3>5. /\ Total(cpuT', P) * d <= Total(usedT, K) * Unit
          /\ Total(cpuT', P) \in Nat
      <4>1. Total(usedT, K) <= Processors * age
        BY <3>1, <3>2
      <4>. HIDE DEF P, K
      <4>2. QED
        BY <1>2, <2>1, <2>3, <2>4, <4>1, SharesBounded
    <3>6. Total(usedT, K) * Unit <= used[p] * Unit
      BY <2>2, <3>1, <3>2, Multiplied
    <3>7. CASE delta > 0
      <4>1. d \in Nat \ {0}
        BY <1>2, <2>2, <3>7
      <4>2. /\ Total(cpuT', P) * d \in Nat /\ Total(usedT, K) * Unit \in Nat
            /\ used[p] * Unit \in Nat /\ (cpu'[p] + 1) * d \in Nat
        BY <2>2, <3>1, <3>2, <3>4, <3>5, <4>1
      <4>. HIDE DEF d, P, K
      <4>3. Total(cpuT', P) * d < (cpu'[p] + 1) * d
        BY <3>4, <3>5, <3>6, <3>7, <4>2
      <4>4. Total(cpuT', P) < cpu'[p] + 1
        BY <3>4, <3>5, <4>1, <4>3, MultipliedLess
      <4>5. Total(cpuT', P) <= cpu'[p]
        BY <3>4, <3>5, <4>4
      <4>6. QED
        BY <4>5 DEF P
    <3>8. CASE delta = 0
      <4>1. \A t \in P : cpuT'[t] = 0
        BY <2>4, <3>8 DEF Shares, Share
      <4>2. Total(cpuT', P) = 0
        BY <4>1, TotalZero
      <4>3. QED
        BY <3>4, <4>2
    <3>9. QED
      BY <1>2, <3>7, <3>8
  <2>6. CASE p \notin D
    <3>1. cpu'[p] = 0
      BY <1>3, <2>6 DEF Shares
    <3>2. \A t \in P : t \notin DT
      BY <2>1, <2>6 DEF Inv, UsedByThreads, ThreadsOf
    <3>3. \A t \in P : cpuT'[t] = 0
      BY <2>4, <3>2 DEF Shares
    <3>4. Total(cpuT', P) = 0
      BY <3>3, TotalZero
    <3>5. QED
      BY <3>1, <3>4
  <2>7. QED
    BY <2>5, <2>6
<1>16. QED
  BY <1>7, <1>8, <1>9, <1>10, <1>13, <1>14, <1>15 DEF Inv

LEMMA InvNext == Inv /\ [Next]_vars => Inv'
<1>. SUFFICES ASSUME Inv, [Next]_vars PROVE Inv'
  OBVIOUS
<1>1. ASSUME NEW t \in Thread, StartThread(t) \/ ExitThread(t) PROVE Inv'
  BY <1>1, InvStart
<1>2. ASSUME NEW T \in SUBSET running, Run(T) PROVE Inv'
  BY <1>2, InvRun
<1>3. CASE ReadTicks
  BY <1>3, InvTicks
<1>4. ASSUME NEW ok \in BOOLEAN, NEW withThreads \in BOOLEAN,
             NEW pid \in Process \cup {Everything},
             Snapshot(ok, withThreads, pid)
      PROVE  Inv'
  BY <1>4, InvSnapshot
<1>5. CASE UNCHANGED vars
  <2>1. TypeOK'
    BY <1>5 DEF Inv, TypeOK, vars, systemVars, objectVars, historyVars
  <2>2. UsedFits' /\ UsedByThreads' /\ UsedWithinProcess'
    BY <1>5
    DEF Inv, UsedFits, UsedByThreads, UsedWithinProcess, Total, ThreadsOf,
        vars, objectVars, historyVars
  <2>3. SharesFit' /\ ThreadOnOneProcessor' /\ ThreadsWithinProcess'
    BY <1>5, SharesUnchanged DEF vars, objectVars, historyVars
  <2>4. QED
    BY <2>1, <2>2, <2>3 DEF Inv
<1>6. QED
  BY <1>1, <1>2, <1>3, <1>4, <1>5 DEF Next

LEMMA Invariance == Spec => []Inv
<1>1. Init => Inv
  BY InvInit
<1>2. Inv /\ [Next]_vars => Inv'
  BY InvNext
<1>3. QED
  BY <1>1, <1>2, PTL DEF Spec

-----------------------------------------------------------------------------
(* The theorems. *)

\* The shares in the CPU column add up to what all processors can do.
THEOREM SharesAlwaysFit == Spec => []SharesFit
<1>1. Inv => SharesFit
  BY DEF Inv
<1>2. QED
  BY <1>1, Invariance, PTL

\* A thread never has a greater share than one processor gives.
THEOREM ThreadsFitProcessor == Spec => []ThreadOnOneProcessor
<1>1. Inv => ThreadOnOneProcessor
  BY DEF Inv
<1>2. QED
  BY <1>1, Invariance, PTL

\* The threads of a process never have a greater share than the process.
THEOREM ThreadsFitProcess == Spec => []ThreadsWithinProcess
<1>1. Inv => ThreadsWithinProcess
  BY DEF Inv
<1>2. QED
  BY <1>1, Invariance, PTL
=============================================================================
