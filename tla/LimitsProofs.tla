----------------------------- MODULE LimitsProofs -----------------------------
(***************************************************************************)
(* What keeps the load of the platform bounded, for any number of clients, *)
(* calls and callers, any limits and any delays: the rate limiter of the   *)
(* API and the circuit breaker in front of a provider.                     *)
(*                                                                         *)
(* The induction lemmas come first.  They speak of sets, not of operators: *)
(* a property is the set of what has it.                                   *)
(***************************************************************************)
EXTENDS RateLimiter, CircuitBreaker, FiniteSetTheorems, WellFoundedInduction, TLAPS

\* A set of natural numbers has a least one.
LEMMA LeastNat ==
    ASSUME NEW T \in SUBSET Nat, T # {}
    PROVE  \E n \in T : \A m \in T : n <= m
  <1> DEFINE R == {z \in Nat \X Nat : z[1] < z[2]}
  <1>1. IsWellFoundedOn(R, Nat)
    BY NatLessThanWellFounded DEF OpToRel
  <1> HIDE DEF R
  <1>2. PICK n \in T : \A m \in T : ~ (<<m, n>> \in R)
    BY <1>1, WFMin
  <1>3. \A m \in T : ~ (m < n)
    BY <1>2 DEF R
  <1> QED BY <1>3

LEMMA InductionOnNat ==
    ASSUME NEW T \in SUBSET Nat, 0 \in T, \A n \in T : n + 1 \in T
    PROVE  T = Nat
  <1> SUFFICES ASSUME Nat \ T # {} PROVE FALSE
    OBVIOUS
  <1>1. PICK n \in Nat \ T : \A m \in Nat \ T : n <= m
    BY LeastNat
  <1>2. n # 0 /\ n - 1 \in Nat /\ n - 1 \notin Nat \ T
    BY <1>1
  <1> QED BY <1>2

\* What holds of a set whenever it holds of the sets one smaller, holds of all.
LEMMA InductionOnSubsets ==
    ASSUME NEW D, IsFiniteSet(D), NEW Good \in SUBSET SUBSET D,
           \A s \in SUBSET D : (\A x \in s : s \ {x} \in Good) => s \in Good
    PROVE  Good = SUBSET D
  <1> DEFINE T == {n \in Nat : \A s \in SUBSET D : Cardinality(s) = n => s \in Good}
  <1>1. \A s \in SUBSET D : IsFiniteSet(s) /\ Cardinality(s) \in Nat
    BY FS_Subset, FS_CardinalityType
  <1>2. 0 \in T
    BY <1>1, FS_EmptySet
  <1>3. ASSUME NEW n \in T PROVE n + 1 \in T
    <2>1. n \in Nat
      OBVIOUS
    <2>2. ASSUME NEW s \in SUBSET D, Cardinality(s) = n + 1, NEW x \in s
          PROVE  s \ {x} \in Good
      <3>1. Cardinality(s \ {x}) = Cardinality(s) - 1
        BY <1>1, FS_RemoveElement
      <3>2. Cardinality(s \ {x}) = n
        BY <2>1, <2>2, <3>1
      <3> QED BY <3>2
    <2> QED BY <2>2
  <1>4. T = Nat
    BY <1>2, <1>3, InductionOnNat
  <1> QED BY <1>1, <1>4

-----------------------------------------------------------------------------
\* Sums of a function over finite sets.

\* The recursive functions that the fold is defined by.
SumFunctions(D, f) == {g \in [SUBSET D -> Nat] :
    /\ g[{}] = 0
    /\ \A s \in (SUBSET D) \ {{}} :
          g[s] = f[CHOOSE t \in s : TRUE] + g[s \ {CHOOSE t \in s : TRUE}]}

LEMMA SumIsFunction ==
    ASSUME NEW D, IsFiniteSet(D), NEW f, NEW g \in SumFunctions(D, f)
    PROVE  SumOver(f, D) = g[D]
  <1> DEFINE Eq(i) == i = [s \in SUBSET D |->
                       IF s = {} THEN 0
                       ELSE f[CHOOSE t \in s : TRUE] + i[s \ {CHOOSE t \in s : TRUE}]]
             iter == CHOOSE i : Eq(i)
             Good == {s \in SUBSET D : iter[s] = g[s]}
  <1>1. SumOver(f, D) = iter[D]
    BY DEF SumOver, MapThenFoldSet
  <1>2. Eq(g)
    BY DEF SumFunctions
  <1>3. Eq(iter)
    <2> HIDE DEF Eq
    <2> QED BY <1>2
  <1> HIDE DEF iter
  <1>4. ASSUME NEW s \in SUBSET D, \A x \in s : s \ {x} \in Good
        PROVE  s \in Good
    <2>1. CASE s = {}
      BY <1>3, <2>1 DEF SumFunctions
    <2>2. CASE s # {}
      <3> DEFINE x == CHOOSE t \in s : TRUE
      <3>1. x \in s
        BY <2>2
      <3>2. iter[s] = f[x] + iter[s \ {x}] /\ g[s] = f[x] + g[s \ {x}]
        BY <1>3, <2>2 DEF SumFunctions
      <3> HIDE DEF x
      <3>3. iter[s \ {x}] = g[s \ {x}]
        BY <1>4, <3>1
      <3> QED BY <3>2, <3>3
    <2> QED BY <2>1, <2>2
  <1>5. Good = SUBSET D
    <2>1. Good \in SUBSET SUBSET D
      OBVIOUS
    <2> HIDE DEF Good
    <2> QED BY <1>4, <2>1, InductionOnSubsets
  <1> QED BY <1>1, <1>5

LEMMA SumFunctionExists ==
    ASSUME NEW D, IsFiniteSet(D), NEW f \in [D -> Nat]
    PROVE  SumFunctions(D, f) # {}
  <1> DEFINE c(s) == CHOOSE t \in s : TRUE
             L(n) == {s \in SUBSET D : Cardinality(s) <= n}
             P(n, g) == /\ g \in [L(n) -> Nat] /\ g[{}] = 0
                        /\ \A s \in L(n) \ {{}} : g[s] = f[c(s)] + g[s \ {c(s)}]
             T == {n \in Nat : \E g : P(n, g)}
  <1>1. \A s \in SUBSET D : IsFiniteSet(s) /\ Cardinality(s) \in Nat
                            /\ Cardinality(s) <= Cardinality(D)
    BY FS_Subset, FS_CardinalityType
  <1>2. \A s \in SUBSET D : s # {} => /\ c(s) \in s /\ s \ {c(s)} \in SUBSET D
                                      /\ Cardinality(s \ {c(s)}) = Cardinality(s) - 1
                                      /\ Cardinality(s) # 0
    <2> SUFFICES ASSUME NEW s \in SUBSET D, s # {}
                 PROVE  /\ c(s) \in s /\ s \ {c(s)} \in SUBSET D
                        /\ Cardinality(s \ {c(s)}) = Cardinality(s) - 1
                        /\ Cardinality(s) # 0
      OBVIOUS
    <2>1. c(s) \in s
      OBVIOUS
    <2> HIDE DEF c
    <2>2. Cardinality(s \ {c(s)}) = Cardinality(s) - 1
      BY <1>1, <2>1, FS_RemoveElement
    <2>3. Cardinality(s) # 0
      BY <1>1, FS_EmptySet
    <2> QED BY <2>1, <2>2, <2>3
  <1> HIDE DEF c
  <1>3. 0 \in T
    <2>1. L(0) = {{}}
      BY <1>1, FS_EmptySet
    <2>2. P(0, [s \in L(0) |-> 0])
      BY <2>1
    <2> QED BY <2>2
  <1>4. ASSUME NEW n \in T PROVE n + 1 \in T
    <2>1. n \in Nat
      OBVIOUS
    <2>2. PICK g : P(n, g)
      OBVIOUS
    <2> DEFINE h == [s \in L(n + 1) |-> IF s \in L(n) THEN g[s]
                                        ELSE f[c(s)] + g[s \ {c(s)}]]
    <2>3. L(n) \subseteq L(n + 1) /\ {} \in L(n)
      BY <1>1, <2>1, FS_EmptySet
    <2>4. \A s \in L(n + 1) \ {{}} : s \ {c(s)} \in L(n) /\ c(s) \in D
      BY <1>1, <1>2, <2>1
    <2> HIDE DEF L
    <2>5. \A s \in L(n + 1) : h[s] \in Nat
      <3> SUFFICES ASSUME NEW s \in L(n + 1) PROVE h[s] \in Nat
        OBVIOUS
      <3>1. CASE s \in L(n)
        BY <2>2, <3>1
      <3>2. CASE s \notin L(n)
        <4>1. f[c(s)] \in Nat /\ g[s \ {c(s)}] \in Nat
          BY <2>2, <2>3, <2>4, <3>2
        <4> QED BY <3>2, <4>1
      <3> QED BY <3>1, <3>2
    <2>6. \A s \in L(n + 1) \ {{}} : h[s] = f[c(s)] + h[s \ {c(s)}]
      <3> SUFFICES ASSUME NEW s \in L(n + 1) \ {{}} PROVE h[s] = f[c(s)] + h[s \ {c(s)}]
        OBVIOUS
      <3>1. h[s \ {c(s)}] = g[s \ {c(s)}]
        BY <2>3, <2>4
      <3>2. h[s] = f[c(s)] + g[s \ {c(s)}]
        BY <2>2
      <3> QED BY <3>1, <3>2
    <2>7. h[{}] = 0
      BY <2>2, <2>3
    <2>8. h \in [L(n + 1) -> Nat]
      BY <2>5
    <2> HIDE DEF h
    <2>9. P(n + 1, h)
      BY <2>6, <2>7, <2>8
    <2> HIDE DEF P
    <2> QED BY <2>1, <2>9
  <1>5. T = Nat
    <2> HIDE DEF P
    <2>1. T \in SUBSET Nat
      OBVIOUS
    <2> HIDE DEF T
    <2> QED BY <1>3, <1>4, <2>1, InductionOnNat
  <1>6. PICK g : P(Cardinality(D), g)
    <2> HIDE DEF P
    <2> QED BY <1>1, <1>5
  <1>7. L(Cardinality(D)) = SUBSET D
    BY <1>1
  <1> HIDE DEF L
  <1>8. g \in SumFunctions(D, f)
    BY <1>6, <1>7 DEF SumFunctions, c
  <1> QED BY <1>8

\* One function gives the sums over all subsets.
LEMMA SumsOfSubsets ==
    ASSUME NEW D, IsFiniteSet(D), NEW f \in [D -> Nat]
    PROVE  \E g \in SumFunctions(D, f) : \A s \in SUBSET D : SumOver(f, s) = g[s]
  <1> PICK g \in SumFunctions(D, f) : TRUE
    BY SumFunctionExists
  <1>1. ASSUME NEW s \in SUBSET D PROVE SumOver(f, s) = g[s]
    <2> DEFINE h == [u \in SUBSET s |-> g[u]]
    <2>1. IsFiniteSet(s)
      BY FS_Subset
    <2>2. h \in SumFunctions(s, f)
      BY DEF SumFunctions
    <2>3. h[s] = g[s]
      OBVIOUS
    <2> HIDE DEF h
    <2> QED BY <2>1, <2>2, <2>3, SumIsFunction
  <1> QED BY <1>1

\* Any element can be taken out first.
LEMMA SumSplits ==
    ASSUME NEW D, IsFiniteSet(D), NEW f \in [D -> Nat], NEW S \in SUBSET D
    PROVE  /\ SumOver(f, S) \in Nat /\ SumOver(f, {}) = 0
           /\ \A x \in S : SumOver(f, S) = f[x] + SumOver(f, S \ {x})
  <1> PICK g \in SumFunctions(D, f) : \A s \in SUBSET D : SumOver(f, s) = g[s]
    BY SumsOfSubsets
  <1> DEFINE Good == {s \in SUBSET D : \A x \in s : g[s] = f[x] + g[s \ {x}]}
  <1>1. g \in [SUBSET D -> Nat] /\ g[{}] = 0
    BY DEF SumFunctions
  <1>2. ASSUME NEW s \in SUBSET D, \A y \in s : s \ {y} \in Good, NEW x \in s
        PROVE  g[s] = f[x] + g[s \ {x}]
    <2> DEFINE c == CHOOSE t \in s : TRUE
    <2>1. c \in s
      OBVIOUS
    <2>2. g[s] = f[c] + g[s \ {c}]
      BY DEF SumFunctions
    <2> HIDE DEF c
    <2>3. CASE x = c
      BY <2>2, <2>3
    <2>4. CASE x # c
      <3>1. x \in s \ {c} /\ c \in s \ {x} /\ (s \ {c}) \ {x} = (s \ {x}) \ {c}
        BY <2>1, <2>4
      <3>2. s \ {c} \in Good /\ s \ {x} \in Good
        BY <1>2, <2>1
      <3>3. g[s \ {c}] = f[x] + g[(s \ {c}) \ {x}] /\ g[s \ {x}] = f[c] + g[(s \ {x}) \ {c}]
        BY <3>1, <3>2
      <3>4. f[x] \in Nat /\ f[c] \in Nat /\ g[(s \ {x}) \ {c}] \in Nat
        BY <1>1, <2>1
      <3>5. g[s \ {c}] = f[x] + g[(s \ {x}) \ {c}]
        BY <3>1, <3>3, Zenon
      <3> QED BY <2>2, <3>3, <3>4, <3>5
    <2> QED BY <2>3, <2>4
  <1>3. Good = SUBSET D
    <2>1. /\ Good \in SUBSET SUBSET D
          /\ \A s \in SUBSET D : (\A x \in s : s \ {x} \in Good) => s \in Good
      BY <1>2
    <2> HIDE DEF Good
    <2> QED BY <2>1, InductionOnSubsets
  <1>4. \A x \in S : g[S] = f[x] + g[S \ {x}]
    BY <1>3
  <1> QED BY <1>1, <1>4

LEMMA SumGrows ==
    ASSUME NEW D, IsFiniteSet(D), NEW f \in [D -> Nat], NEW B \in SUBSET D, NEW A \in SUBSET B
    PROVE  SumOver(f, A) <= SumOver(f, B)
  <1> DEFINE Good == {s \in SUBSET D : \A u \in SUBSET s : SumOver(f, u) <= SumOver(f, s)}
  <1>1. ASSUME NEW s \in SUBSET D, \A y \in s : s \ {y} \in Good, NEW u \in SUBSET s
        PROVE  SumOver(f, u) <= SumOver(f, s)
    <2>1. CASE u = s
      BY <2>1, SumSplits
    <2>2. CASE u # s
      <3> PICK x \in s : x \notin u
        BY <2>2
      <3>1. SumOver(f, u) <= SumOver(f, s \ {x})
        BY <1>1
      <3>2. SumOver(f, s) = f[x] + SumOver(f, s \ {x}) /\ f[x] \in Nat
        BY SumSplits
      <3>3. SumOver(f, u) \in Nat /\ SumOver(f, s \ {x}) \in Nat
        BY SumSplits
      <3> QED BY <3>1, <3>2, <3>3
    <2> QED BY <2>1, <2>2
  <1>2. Good = SUBSET D
    <2>1. /\ Good \in SUBSET SUBSET D
          /\ \A s \in SUBSET D : (\A x \in s : s \ {x} \in Good) => s \in Good
      BY <1>1
    <2> HIDE DEF Good
    <2> QED BY <2>1, InductionOnSubsets
  <1> QED BY <1>2

\* The sum depends on the values over the set only.
LEMMA SumOfSame ==
    ASSUME NEW D, IsFiniteSet(D), NEW f \in [D -> Nat], NEW h \in [D -> Nat],
           NEW S \in SUBSET D, \A x \in S : f[x] = h[x]
    PROVE  SumOver(f, S) = SumOver(h, S)
  <1> DEFINE Good == {s \in SUBSET S : SumOver(f, s) = SumOver(h, s)}
  <1>1. ASSUME NEW s \in SUBSET S, \A y \in s : s \ {y} \in Good
        PROVE  SumOver(f, s) = SumOver(h, s)
    <2>1. CASE s = {}
      BY <2>1, SumSplits
    <2>2. CASE s # {}
      <3> PICK x \in s : TRUE
        BY <2>2
      <3>1. SumOver(f, s) = f[x] + SumOver(f, s \ {x}) /\ SumOver(h, s) = h[x] + SumOver(h, s \ {x})
        BY SumSplits
      <3>2. SumOver(f, s \ {x}) = SumOver(h, s \ {x})
        BY <1>1
      <3> QED BY <3>1, <3>2
    <2> QED BY <2>1, <2>2
  <1>2. Good = SUBSET S
    <2>1. /\ Good \in SUBSET SUBSET S
          /\ \A s \in SUBSET S : (\A x \in s : s \ {x} \in Good) => s \in Good
      BY <1>1
    <2>2. IsFiniteSet(S)
      BY FS_Subset
    <2> HIDE DEF Good
    <2> QED BY <2>1, <2>2, InductionOnSubsets
  <1> QED BY <1>2

OneMoreAt(D, f, h, x) == h[x] = f[x] + 1 /\ \A y \in D \ {x} : h[y] = f[y]

LEMMA SumOfOneMore ==
    ASSUME NEW D, IsFiniteSet(D), NEW f \in [D -> Nat], NEW h \in [D -> Nat],
           NEW S \in SUBSET D, NEW x \in D, OneMoreAt(D, f, h, x)
    PROVE  /\ (x \in S => SumOver(h, S) = SumOver(f, S) + 1)
           /\ (x \notin S => SumOver(h, S) = SumOver(f, S))
  <1> h[x] = f[x] + 1 /\ \A y \in D \ {x} : h[y] = f[y]
    BY DEF OneMoreAt
  <1>1. CASE x \in S
    <2>1. SumOver(f, S) = f[x] + SumOver(f, S \ {x}) /\ SumOver(h, S) = h[x] + SumOver(h, S \ {x})
      BY <1>1, SumSplits
    <2>2. SumOver(f, S \ {x}) = SumOver(h, S \ {x})
      BY SumOfSame
    <2>3. SumOver(f, S \ {x}) \in Nat /\ f[x] \in Nat
      BY SumSplits
    <2> QED BY <1>1, <2>1, <2>2, <2>3
  <1>2. CASE x \notin S
    <2>1. SumOver(f, S) = SumOver(h, S) /\ SumOver(f, S) \in Nat
      BY <1>2, SumOfSame, SumSplits
    <2> QED BY <1>2, <2>1
  <1> QED BY <1>1, <1>2

LEMMA SumOfZeros ==
    ASSUME NEW D, IsFiniteSet(D), NEW f \in [D -> Nat], NEW S \in SUBSET D,
           \A x \in S : f[x] = 0
    PROVE  SumOver(f, S) = 0
  <1> DEFINE Good == {s \in SUBSET S : SumOver(f, s) = 0}
  <1>1. ASSUME NEW s \in SUBSET S, \A y \in s : s \ {y} \in Good
        PROVE  SumOver(f, s) = 0
    <2>1. CASE s = {}
      BY <2>1, SumSplits
    <2>2. CASE s # {}
      <3> PICK x \in s : TRUE
        BY <2>2
      <3>1. SumOver(f, s) = f[x] + SumOver(f, s \ {x}) /\ f[x] = 0
        BY SumSplits
      <3>2. SumOver(f, s \ {x}) = 0
        BY <1>1
      <3> QED BY <3>1, <3>2
    <2> QED BY <2>1, <2>2
  <1>2. Good = SUBSET S
    <2>1. /\ Good \in SUBSET SUBSET S
          /\ \A s \in SUBSET S : (\A x \in s : s \ {x} \in Good) => s \in Good
      BY <1>1
    <2>2. IsFiniteSet(S)
      BY FS_Subset
    <2> HIDE DEF Good
    <2> QED BY <2>1, <2>2, InductionOnSubsets
  <1> QED BY <1>2

ZeroBetween(f, A, B) == A \subseteq B /\ \A x \in B \ A : f[x] = 0

LEMMA SumWithoutZeros ==
    ASSUME NEW D, IsFiniteSet(D), NEW f \in [D -> Nat], NEW B \in SUBSET D, NEW A,
           ZeroBetween(f, A, B)
    PROVE  SumOver(f, B) = SumOver(f, A)
  <1>0. A \in SUBSET B /\ \A x \in B \ A : f[x] = 0
    BY DEF ZeroBetween
  <1> DEFINE Good == {s \in SUBSET B : A \subseteq s => SumOver(f, s) = SumOver(f, A)}
  <1>1. ASSUME NEW s \in SUBSET B, \A y \in s : s \ {y} \in Good, A \subseteq s
        PROVE  SumOver(f, s) = SumOver(f, A)
    <2>1. CASE s = A
      BY <2>1
    <2>2. CASE s # A
      <3> PICK x \in s : x \notin A
        BY <1>1, <2>2
      <3>1. SumOver(f, s) = f[x] + SumOver(f, s \ {x}) /\ f[x] = 0 /\ SumOver(f, s \ {x}) \in Nat
        BY <1>0, SumSplits
      <3>2. SumOver(f, s \ {x}) = SumOver(f, A)
        BY <1>1
      <3> QED BY <3>1, <3>2
    <2> QED BY <2>1, <2>2
  <1>2. Good = SUBSET B
    <2>1. /\ Good \in SUBSET SUBSET B
          /\ \A s \in SUBSET B : (\A x \in s : s \ {x} \in Good) => s \in Good
      BY <1>1
    <2>2. IsFiniteSet(B)
      BY FS_Subset
    <2> HIDE DEF Good
    <2> QED BY <2>1, <2>2, InductionOnSubsets
  <1> QED BY <1>0, <1>2

-----------------------------------------------------------------------------
(***************************************************************************)
(* The rate limiter.  Neither property is inductive: the script sees what  *)
(* a task's clock said some time ago, so the invariant compares a bucket   *)
(* with the true time o at which it was opened.  What was counted since o  *)
(* is what the bucket counts, and what was counted before o, less than a   *)
(* window ago, was one older bucket's count at most.                       *)
(***************************************************************************)

Times == 0..MaxTime

History == [Times -> Nat]

\* How many calls of a client were counted from time t on, by its history.
Since(f, t) == SumOver(f, {u \in Times : t <= u})

\* A bucket b that was opened at true time o, seen at time n.  The stamp it starts with
\* was late or early; what was counted since is in its count; what older buckets counted
\* less than a window ago is one limit at most, and nothing if o is as late as it
\* can be after the start.
Opened(f, b, o, n) ==
    /\ b.start <= o + MaxSkew /\ o <= b.start + MaxDelay
    /\ b.count <= Since(f, o)
    /\ \A t \in Times : o < t => Since(f, t) <= b.count
    /\ \A t \in Times : t <= o /\ o <= t + Window - Slack =>
          Since(f, t) <= b.count + MaxRequests
    /\ o = b.start + MaxDelay => Since(f, o) <= b.count
    /\ f[n] > 0 => n < b.start + Window + MaxDelay
    /\ \A t \in Times : b.expires < t + Window => f[t] = 0

\* A key that is gone has been idle for a window.
ClientFits(f, b, n) ==
    /\ \A t \in Times : n < t => f[t] = 0
    /\ IF b = NoBucket THEN \A t \in Times : n <= t + Window => f[t] = 0
       ELSE b \in Bucket /\ \E o \in 0..n : Opened(f, b, o, n)

CallFits(a, n) == a = NoCall \/
    /\ a.client \in Clients /\ a.stamp \in Nat /\ a.sent \in Times
    /\ a.sent <= n /\ n <= a.sent + MaxDelay
    /\ a.sent <= a.stamp /\ a.stamp <= a.sent + MaxSkew

AskingState == [client: Clients \cup {NoBucket}, stamp: Nat, sent: 0..MaxTime,
                resent: 0..MaxResends]

LimiterInv ==
    /\ LimiterTypeOK
    /\ \A c \in Clients : ClientFits(counted[c], bucket[c], now)
    /\ \A x \in Calls : CallFits(asking[x], now)

-----------------------------------------------------------------------------
\* Counting.

LEMMA TimesFinite == IsFiniteSet(Times) /\ Times \subseteq Nat
  BY LimiterAssumption, FS_Interval DEF Times

LEMMA SinceCounts ==
    ASSUME NEW f \in History, NEW n \in Times, NEW t \in Nat
    PROVE  /\ Since(f, t) \in Nat
           /\ [f EXCEPT ![n] = @ + 1] \in History
           /\ Since([f EXCEPT ![n] = @ + 1], t) = Since(f, t) + (IF t <= n THEN 1 ELSE 0)
           /\ (\A u \in Times : t <= u => f[u] = 0) => Since(f, t) = 0
  <1> DEFINE S == {u \in Times : t <= u}
             h == [f EXCEPT ![n] = @ + 1]
  <1>0. n \in S <=> t <= n
    OBVIOUS
  <1>1. S \in SUBSET Times /\ f \in [Times -> Nat]
    BY DEF History
  <1>2. h \in [Times -> Nat] /\ OneMoreAt(Times, f, h, n)
    BY DEF History, OneMoreAt
  <1>3. (\A u \in Times : t <= u => f[u] = 0) => SumOver(f, S) = 0
    BY <1>1, TimesFinite, SumOfZeros
  <1> HIDE DEF S, h
  <1>4. SumOver(f, S) \in Nat
    BY <1>1, TimesFinite, SumSplits
  <1>5. /\ (n \in S => SumOver(h, S) = SumOver(f, S) + 1)
        /\ (n \notin S => SumOver(h, S) = SumOver(f, S))
    BY <1>1, <1>2, TimesFinite, SumOfOneMore, ZenonT(60)
  <1> QED BY <1>0, <1>2, <1>3, <1>4, <1>5 DEF Since, History, S, h

-----------------------------------------------------------------------------
\* What an counted call does to the bucket and the history of its client.

LEMMA BucketOpens ==
    ASSUME NEW f \in History, NEW n \in Times, NEW b, ClientFits(f, b, n), NEW stamp \in Nat,
           stamp <= n + MaxSkew, n <= stamp + MaxDelay,
           b = NoBucket \/ stamp - b.start >= Window
    PROVE  ClientFits([f EXCEPT ![n] = @ + 1],
                      [start |-> stamp, count |-> 1, expires |-> n + Window], n)
  <1> DEFINE h == [f EXCEPT ![n] = @ + 1]
             d == [start |-> stamp, count |-> 1, expires |-> n + Window]
  <1> USE LimiterAssumption
  <1>1. /\ n \in Nat /\ h[n] = f[n] + 1 /\ \A u \in Times : u # n => h[u] = f[u]
        /\ d \in Bucket /\ d # NoBucket
    BY TimesFinite, NoBucketIsNoRecord DEF History, Bucket
  <1>2. \A t \in Nat : /\ Since(f, t) \in Nat
                       /\ Since(h, t) = Since(f, t) + (IF t <= n THEN 1 ELSE 0)
                       /\ (\A u \in Times : t <= u => f[u] = 0) => Since(f, t) = 0
    BY SinceCounts
  <1>3. \A u \in Times : u \in Nat /\ (n < u => f[u] = 0)
    BY TimesFinite DEF ClientFits
  <1>4. d.start = stamp /\ d.count = 1 /\ d.expires = n + Window
    OBVIOUS
  <1> HIDE DEF h, d
  <1>5. \A t \in Times : n < t => Since(h, t) <= d.count
    BY <1>1, <1>2, <1>3, <1>4
  <1>6. /\ \A t \in Times : t <= n /\ n <= t + Window - Slack => Since(f, t) <= MaxRequests
        /\ n = d.start + MaxDelay => Since(f, n) = 0
    <2>1. CASE b = NoBucket
      <3>1. \A t \in Times : n <= t + Window => f[t] = 0
        BY <2>1 DEF ClientFits
      <3>2. \A t \in Times : n <= t + Window => Since(f, t) = 0
        BY <1>2, <1>3, <3>1
      <3>3. \A t \in Times : n <= t + Window - Slack => n <= t + Window
        BY <1>1, <1>3 DEF Slack
      <3> QED BY <1>1, <3>2, <3>3
    <2>2. CASE b # NoBucket
      <3> PICK o \in 0..n : Opened(f, b, o, n)
        BY <2>2 DEF ClientFits
      <3>1. /\ b.start \in Nat /\ b.count \in 1..MaxRequests /\ o \in Times /\ o \in Nat
            /\ stamp - b.start >= Window
        BY <2>2 DEF ClientFits, Bucket, Times
      <3>2. o <= b.start + MaxDelay /\ n >= b.start + Window - MaxSkew
        BY <1>1, <3>1 DEF Opened
      <3>3. ASSUME NEW t \in Times, t <= n, n <= t + Window - Slack
            PROVE  Since(f, t) <= MaxRequests
        <4>1. o < t \/ (o = t /\ o = b.start + MaxDelay)
          BY <1>1, <1>3, <3>1, <3>2, <3>3 DEF Slack
        <4>2. Since(f, t) <= b.count
          BY <4>1, <3>3 DEF Opened
        <4> QED BY <1>2, <1>3, <3>1, <4>2
      <3>4. ASSUME n = d.start + MaxDelay PROVE Since(f, n) = 0
        <4>1. ~ (n < b.start + Window + MaxDelay)
          BY <1>1, <1>4, <3>1, <3>4
        <4>2. f[n] = 0
          BY <4>1 DEF Opened, History
        <4> QED BY <1>1, <1>2, <1>3, <4>2
      <3> QED BY <3>3, <3>4
    <2> QED BY <2>1, <2>2
  <1>7. Opened(h, d, n, n)
    <2>1. d.start <= n + MaxSkew /\ n <= d.start + MaxDelay
      BY <1>4
    <2>2. d.count <= Since(h, n)
      BY <1>1, <1>2, <1>4
    <2>3. \A t \in Times : t <= n /\ n <= t + Window - Slack =>
             Since(h, t) <= d.count + MaxRequests
      BY <1>1, <1>2, <1>3, <1>4, <1>6
    <2>4. n = d.start + MaxDelay => Since(h, n) <= d.count
      BY <1>1, <1>2, <1>4, <1>6
    <2>5. n < d.start + Window + MaxDelay
      BY <1>1, <1>4
    <2>6. \A t \in Times : d.expires < t + Window => h[t] = 0
      BY <1>1, <1>3, <1>4
    <2> QED BY <1>5, <2>1, <2>2, <2>3, <2>4, <2>5, <2>6 DEF Opened
  <1>8. \A t \in Times : n < t => h[t] = 0
    BY <1>1, <1>3
  <1>9. n \in 0..n
    BY <1>1
  <1>10. ClientFits(h, d, n)
    BY <1>1, <1>7, <1>8, <1>9 DEF ClientFits
  <1> QED BY <1>10 DEF h, d

LEMMA BucketCounts ==
    ASSUME NEW f \in History, NEW n \in Times, NEW b, ClientFits(f, b, n), NEW stamp \in Nat,
           n <= stamp + MaxDelay,
           b # NoBucket, stamp - b.start < Window, b.count + 1 <= MaxRequests
    PROVE  ClientFits([f EXCEPT ![n] = @ + 1],
                      [start |-> b.start, count |-> b.count + 1, expires |-> n + Window], n)
  <1> DEFINE h == [f EXCEPT ![n] = @ + 1]
             d == [start |-> b.start, count |-> b.count + 1, expires |-> n + Window]
  <1> USE LimiterAssumption
  <1>1. /\ n \in Nat /\ h[n] = f[n] + 1 /\ \A u \in Times : u # n => h[u] = f[u]
        /\ b.start \in Nat /\ b.count \in Nat
        /\ d \in Bucket /\ d # NoBucket
    BY TimesFinite, NoBucketIsNoRecord DEF History, Bucket, ClientFits
  <1>2. \A t \in Nat : /\ Since(f, t) \in Nat
                       /\ Since(h, t) = Since(f, t) + (IF t <= n THEN 1 ELSE 0)
    BY SinceCounts
  <1>3. \A u \in Times : u \in Nat /\ (n < u => f[u] = 0)
    BY TimesFinite DEF ClientFits
  <1>4. d.start = b.start /\ d.count = b.count + 1 /\ d.expires = n + Window
    OBVIOUS
  <1> PICK o \in 0..n : Opened(f, b, o, n)
    BY DEF ClientFits
  <1>5. o \in Nat /\ o <= n
    BY <1>1
  <1> HIDE DEF h, d
  <1>6. Opened(h, d, o, n)
    <2>1. d.start <= o + MaxSkew /\ o <= d.start + MaxDelay
      BY <1>4 DEF Opened
    <2>2. d.count <= Since(h, o)
      BY <1>1, <1>2, <1>4, <1>5 DEF Opened
    <2>3. \A t \in Times : o < t => Since(h, t) <= d.count
      BY <1>1, <1>2, <1>3, <1>4, <1>5 DEF Opened
    <2>4. \A t \in Times : t <= o /\ o <= t + Window - Slack =>
             Since(h, t) <= d.count + MaxRequests
      BY <1>1, <1>2, <1>3, <1>4, <1>5 DEF Opened
    <2>5. o = d.start + MaxDelay => Since(h, o) <= d.count
      BY <1>1, <1>2, <1>4, <1>5 DEF Opened
    <2>6. n < d.start + Window + MaxDelay
      BY <1>1, <1>4
    <2>7. \A t \in Times : d.expires < t + Window => h[t] = 0
      BY <1>1, <1>3, <1>4
    <2> QED BY <2>1, <2>2, <2>3, <2>4, <2>5, <2>6, <2>7 DEF Opened
  <1>7. \A t \in Times : n < t => h[t] = 0
    BY <1>1, <1>3
  <1>8. ClientFits(h, d, n)
    BY <1>1, <1>6, <1>7 DEF ClientFits
  <1> QED BY <1>8 DEF h, d

\* A tick later; the key is dropped when its window has passed without a call.
LEMMA BucketAges ==
    ASSUME NEW f \in History, NEW n \in Times, n + 1 \in Times, NEW b, ClientFits(f, b, n)
    PROVE  ClientFits(f, IF b # NoBucket /\ b.expires < n + 1 THEN NoBucket ELSE b, n + 1)
  <1> USE LimiterAssumption
  <1>1. n \in Nat /\ \A u \in Times : u \in Nat /\ (n < u => f[u] = 0)
    BY TimesFinite DEF ClientFits
  <1>2. \A t \in Times : n + 1 < t => f[t] = 0
    BY <1>1
  <1>3. CASE b = NoBucket
    BY <1>1, <1>2, <1>3 DEF ClientFits
  <1>4. CASE b # NoBucket
    <2> PICK o \in 0..n : Opened(f, b, o, n)
      BY <1>4 DEF ClientFits
    <2>1. b \in Bucket /\ b.expires \in Nat
      BY <1>4 DEF ClientFits, Bucket
    <2>2. CASE b.expires < n + 1
      <3>1. \A t \in Times : n + 1 <= t + Window => f[t] = 0
        BY <1>1, <2>1, <2>2 DEF Opened
      <3> QED BY <1>2, <1>4, <2>2, <3>1 DEF ClientFits
    <2>3. CASE ~ (b.expires < n + 1)
      <3>1. f[n + 1] = 0
        BY <1>1
      <3>2. Opened(f, b, o, n + 1)
        BY <3>1 DEF Opened
      <3>3. o \in 0..(n + 1)
        BY <1>1
      <3> QED BY <1>2, <1>4, <2>1, <2>3, <3>2, <3>3 DEF ClientFits
    <2> QED BY <2>2, <2>3
  <1> QED BY <1>3, <1>4

-----------------------------------------------------------------------------
\* The steps.

LEMMA LimiterInvInit == LimiterInit => LimiterInv
  <1> SUFFICES ASSUME LimiterInit PROVE LimiterInv
    OBVIOUS
  <1>1. LimiterTypeOK
    BY LimiterAssumption DEF LimiterInit, LimiterTypeOK, NoCall
  <1>2. \A c \in Clients : ClientFits(counted[c], bucket[c], now)
    BY DEF LimiterInit, ClientFits, Times
  <1>3. \A x \in Calls : CallFits(asking[x], now)
    BY DEF LimiterInit, CallFits
  <1> QED BY <1>1, <1>2, <1>3 DEF LimiterInv

LEMMA LimiterTypes ==
    ASSUME LimiterInv
    PROVE  /\ now \in Times /\ now \in Nat
           /\ \A c \in Clients : counted[c] \in History
           /\ \A c \in Clients : bucket[c] = NoBucket \/ bucket[c] \in Bucket
           /\ \A c \in Clients : ClientFits(counted[c], bucket[c], now)
  BY DEF LimiterInv, LimiterTypeOK, Times, History, Bucket

\* A call that is answered, in whatever way.
LEMMA AnsweredFits ==
    ASSUME LimiterInv, NEW x \in Calls, asking[x] # NoCall, Answered(x) \/ ResentOrFails(x),
           now' = now
    PROVE  /\ asking' \in [Calls -> AskingState]
           /\ \A y \in Calls : CallFits(asking'[y], now')
  <1>1. asking \in [Calls -> AskingState] /\ \A y \in Calls : CallFits(asking[y], now)
    BY DEF LimiterInv, LimiterTypeOK, AskingState
  <1>2. CASE Answered(x)
    <2>1. NoCall \in AskingState /\ CallFits(NoCall, now)
      BY LimiterAssumption DEF NoCall, CallFits, AskingState
    <2> QED BY <1>1, <1>2, <2>1 DEF Answered
  <1>3. CASE ~Answered(x)
    <2> DEFINE a == [asking[x] EXCEPT !.resent = @ + 1]
    <2>1. asking[x].resent < MaxResends /\ asking' = [asking EXCEPT ![x] = a]
      BY <1>3 DEF ResentOrFails
    <2>2. /\ a \in AskingState /\ a.client = asking[x].client
          /\ a.stamp = asking[x].stamp /\ a.sent = asking[x].sent
      BY <1>1, <2>1, LimiterAssumption DEF AskingState
    <2> HIDE DEF a
    <2>3. CallFits(a, now)
      BY <1>1, <2>2 DEF CallFits
    <2> QED BY <1>1, <2>1, <2>2, <2>3
  <1> QED BY <1>2, <1>3

LEMMA CountInv ==
    ASSUME LimiterInv, NEW x \in Calls, Admit(x) \/ ReplyLost(x)
    PROVE  LimiterInv' /\ bucket'[asking[x].client] # NoBucket
  <1> DEFINE c == asking[x].client
             stamp == asking[x].stamp
             d == [start |-> windowStart(c, stamp), count |-> nextCount(c, stamp),
                   expires |-> now + Window]
  <1>1. /\ c \in Clients /\ stamp \in Nat /\ stamp <= now + MaxSkew
        /\ now <= stamp + MaxDelay
    <2>1. asking[x] # NoCall /\ CallFits(asking[x], now)
      BY DEF Admit, ReplyLost, Count, LimiterInv
    <2>2. asking[x].sent \in Nat
      BY <2>1, TimesFinite DEF CallFits
    <2> QED BY <2>1, <2>2, LimiterTypes, LimiterAssumption DEF CallFits
  <1>2. /\ nextCount(c, stamp) <= MaxRequests
        /\ bucket' = [bucket EXCEPT ![c] = d]
        /\ counted' = [counted EXCEPT ![c][now] = @ + 1]
        /\ asking[x] # NoCall /\ UNCHANGED <<now, ready>>
        /\ Answered(x) \/ ResentOrFails(x)
    BY DEF Admit, ReplyLost, Count, Fits
  <1> HIDE DEF c, stamp
  <1>3. ClientFits([counted[c] EXCEPT ![now] = @ + 1], d, now)
    <2>1. CASE IsOver(c, stamp)
      <3>1. d = [start |-> stamp, count |-> 1, expires |-> now + Window]
        BY <2>1 DEF windowStart, nextCount
      <3>2. bucket[c] = NoBucket \/ stamp - bucket[c].start >= Window
        BY <2>1 DEF IsOver
      <3> QED BY <1>1, <3>1, <3>2, LimiterTypes, BucketOpens
    <2>2. CASE ~IsOver(c, stamp)
      <3>1. /\ bucket[c] # NoBucket /\ bucket[c].start \in Nat /\ bucket[c].count \in Nat
            /\ stamp - bucket[c].start < Window
        BY <1>1, <2>2, LimiterTypes, LimiterAssumption DEF IsOver, Bucket
      <3>2. nextCount(c, stamp) = bucket[c].count + 1
        BY <2>2, <3>1 DEF nextCount
      <3>3. d = [start |-> bucket[c].start, count |-> bucket[c].count + 1,
                 expires |-> now + Window]
        BY <2>2, <3>2 DEF windowStart
      <3> QED BY <1>1, <1>2, <3>1, <3>2, <3>3, LimiterTypes, BucketCounts
    <2> QED BY <2>1, <2>2
  <1>4. d \in Bucket /\ [counted[c] EXCEPT ![now] = @ + 1] \in History
    <2>1. [counted[c] EXCEPT ![now] = @ + 1] \in History
      BY <1>1, LimiterTypes, TimesFinite DEF History
    <2>2. d # NoBucket => d \in Bucket
      <3> HIDE DEF d
      <3> QED BY <1>3 DEF ClientFits
    <2>3. windowStart(c, stamp) \in Nat /\ nextCount(c, stamp) \in 1..MaxRequests
      <3>1. CASE IsOver(c, stamp)
        BY <1>1, <3>1, LimiterAssumption DEF windowStart, nextCount
      <3>2. CASE ~IsOver(c, stamp)
        BY <1>1, <1>2, <3>2, LimiterTypes, LimiterAssumption
        DEF IsOver, windowStart, nextCount, Bucket
      <3> QED BY <3>1, <3>2
    <2>4. now + Window \in Nat
      BY LimiterTypes, LimiterAssumption
    <2> QED BY <2>1, <2>3, <2>4 DEF Bucket
  <1>5. /\ counted \in [Clients -> History]
        /\ counted' = [counted EXCEPT ![c] = [counted[c] EXCEPT ![now] = @ + 1]]
        /\ bucket \in [Clients -> {NoBucket} \cup Bucket]
    BY <1>2 DEF LimiterInv, LimiterTypeOK, History, Times, Bucket
  <1> HIDE DEF d
  <1>6. \A e \in Clients : ClientFits(counted'[e], bucket'[e], now')
    BY <1>1, <1>2, <1>3, <1>5, LimiterTypes
  <1>7. counted' \in [Clients -> History] /\ bucket' \in [Clients -> {NoBucket} \cup Bucket]
    BY <1>1, <1>2, <1>4, <1>5
  <1>8. LimiterTypeOK'
    BY <1>2, <1>7, AnsweredFits
       DEF LimiterTypeOK, History, Times, Bucket, LimiterInv, AskingState
  <1>9. bucket'[c] # NoBucket
    BY <1>1, <1>2, <1>4, <1>5, NoBucketIsNoRecord
  <1> QED BY <1>2, <1>6, <1>8, <1>9, AnsweredFits DEF LimiterInv, c

LEMMA AskInv ==
    ASSUME LimiterInv, NEW x \in Calls, NEW c \in Clients, NEW skew \in 0..MaxSkew,
           canActivateLimited(x, c, skew)
    PROVE  LimiterInv'
  <1> DEFINE a == [client |-> c, stamp |-> now + skew, sent |-> now, resent |-> 0]
  <1>1. /\ asking' = [asking EXCEPT ![x] = a]
        /\ UNCHANGED <<now, ready, bucket, counted>>
    BY DEF canActivateLimited
  <1>2. skew \in Nat /\ skew <= MaxSkew
    BY LimiterAssumption
  <1>3. CallFits(a, now) /\ a \in AskingState
    BY <1>2, LimiterTypes, LimiterAssumption DEF CallFits, Times, AskingState
  <1> HIDE DEF a
  <1>4. LimiterTypeOK'
    BY <1>1, <1>3 DEF LimiterInv, LimiterTypeOK, AskingState
  <1>5. \A y \in Calls : CallFits(asking'[y], now')
    BY <1>1, <1>3 DEF LimiterInv, LimiterTypeOK
  <1> QED BY <1>1, <1>4, <1>5 DEF LimiterInv

LEMMA TickInv == LimiterInv /\ Tick => LimiterInv'
  <1> SUFFICES ASSUME LimiterInv, Tick PROVE LimiterInv'
    OBVIOUS
  <1>1. /\ now' = now + 1 /\ now < MaxTime /\ UNCHANGED <<ready, asking, counted>>
        /\ \A x \in Calls : asking[x] # NoCall => now < asking[x].sent + MaxDelay
        /\ bucket' = [c \in Clients |->
              IF bucket[c] # NoBucket /\ bucket[c].expires < now + 1 THEN NoBucket
              ELSE bucket[c]]
    BY DEF Tick
  <1>2. now + 1 \in Times /\ now' \in 0..MaxTime
    BY <1>1, LimiterTypes, LimiterAssumption DEF Times
  <1>3. \A c \in Clients : ClientFits(counted'[c], bucket'[c], now')
    BY <1>1, <1>2, LimiterTypes, BucketAges
  <1>4. \A x \in Calls : CallFits(asking'[x], now')
    <2> SUFFICES ASSUME NEW x \in Calls, asking[x] # NoCall PROVE CallFits(asking[x], now')
      BY <1>1 DEF CallFits
    <2>1. CallFits(asking[x], now)
      BY DEF LimiterInv
    <2>2. asking[x].sent \in Nat
      BY <2>1, TimesFinite DEF CallFits
    <2> QED BY <1>1, <2>1, <2>2, LimiterTypes, LimiterAssumption DEF CallFits
  <1>5. LimiterTypeOK'
    BY <1>1, <1>2 DEF LimiterInv, LimiterTypeOK
  <1> QED BY <1>3, <1>4, <1>5 DEF LimiterInv

LEMMA LimiterInvStep == LimiterInv /\ [LimiterNext]_limiterVars => LimiterInv'
  <1> SUFFICES ASSUME LimiterInv, [LimiterNext]_limiterVars PROVE LimiterInv'
    OBVIOUS
  <1>1. ASSUME NEW outcome \in {"connected", "failed"}, Connect(outcome) PROVE LimiterInv'
    BY <1>1 DEF Connect, LimiterInv, LimiterTypeOK
  <1>2. ASSUME NEW x \in Calls, Refuse(x) \/ ConsumeFails(x) PROVE LimiterInv'
    <2>1. /\ asking[x] # NoCall /\ UNCHANGED <<now, ready, bucket, counted>>
          /\ Answered(x) \/ ResentOrFails(x)
      BY <1>2 DEF Refuse, ConsumeFails
    <2>2. LimiterTypeOK'
      BY <2>1, AnsweredFits DEF LimiterInv, LimiterTypeOK, AskingState
    <2> QED BY <2>1, <2>2, AnsweredFits DEF LimiterInv
  <1>3. CASE UNCHANGED limiterVars
    BY <1>3 DEF limiterVars, LimiterInv, LimiterTypeOK
  <1> QED BY <1>1, <1>2, <1>3, CountInv, AskInv, TickInv DEF LimiterNext

LEMMA LimiterInvariant == LimiterSpec => []LimiterInv
  BY LimiterInvInit, LimiterInvStep, PTL DEF LimiterSpec

\* No bucket holds more than the limit, and clocks and histories have their types.
THEOREM LimiterTypeCorrect == LimiterSpec => []LimiterTypeOK
  <1>1. LimiterInv => LimiterTypeOK
    BY DEF LimiterInv
  <1> QED BY <1>1, LimiterInvariant, PTL

-----------------------------------------------------------------------------
\* What is counted between two moments.

Between(f, from, to) == SumOver(f, {t \in Times : from <= t /\ t <= to})

LEMMA CountedSum ==
    ASSUME NEW c, NEW from, NEW to
    PROVE  CountedBetween(c, from, to) = Between(counted[c], from, to)
  BY DEF CountedBetween, Between, Times

LEMMA BetweenBounds ==
    ASSUME NEW f \in History, NEW from \in Int, NEW to \in Int, NEW t \in Times, from <= t
    PROVE  /\ Between(f, t, to) <= Since(f, t)
           /\ (\A u \in Times : to < u => f[u] = 0) => Since(f, t) <= Between(f, from, to)
  <1> DEFINE S == {u \in Times : t <= u}
             A == {u \in Times : t <= u /\ u <= to}
             B == {u \in Times : from <= u /\ u <= to}
  <1>1. f \in [Times -> Nat] /\ S \in SUBSET Times /\ A \in SUBSET S
        /\ B \in SUBSET Times
    BY DEF History
  <1>2. A \in SUBSET B
    <2> SUFFICES ASSUME NEW u \in Times, t <= u PROVE from <= u
      OBVIOUS
    <2>1. u \in Nat /\ t \in Nat
      BY TimesFinite
    <2> QED BY <2>1
  <1>3. \A u \in S \ A : u \in Times /\ u > to
    <2> SUFFICES ASSUME NEW u \in Times, ~ (u <= to) PROVE u > to
      OBVIOUS
    <2>1. u \in Nat
      BY TimesFinite
    <2> QED BY <2>1
  <1> HIDE DEF S, A, B
  <1>4. SumOver(f, A) <= SumOver(f, S) /\ SumOver(f, A) <= SumOver(f, B)
    BY <1>1, <1>2, TimesFinite, SumGrows
  <1>5. (\A u \in Times : to < u => f[u] = 0) => SumOver(f, S) = SumOver(f, A)
    <2> SUFFICES ASSUME \A u \in Times : to < u => f[u] = 0
                 PROVE  SumOver(f, S) = SumOver(f, A)
      OBVIOUS
    <2>1. \A u \in S \ A : f[u] = 0
      <3> SUFFICES ASSUME NEW u \in S \ A PROVE f[u] = 0
        OBVIOUS
      <3>1. u \in Times /\ u > to /\ u \in Nat
        BY <1>3, TimesFinite
      <3> QED BY <3>1
    <2>2. S \in SUBSET Times /\ ZeroBetween(f, A, S)
      BY <1>1, <2>1 DEF ZeroBetween
    <2> QED BY <1>1, <2>2, TimesFinite, SumWithoutZeros
  <1>6. SumOver(f, S) \in Nat /\ SumOver(f, A) \in Nat /\ SumOver(f, B) \in Nat
    BY <1>1, TimesFinite, SumSplits
  <1> QED BY <1>4, <1>5, <1>6 DEF Between, Since, S, A, B

LEMMA BetweenCounts ==
    ASSUME NEW f \in History, NEW from \in Int, NEW to \in Int
    PROVE  Between(f, from, to) \in Nat
  <1> DEFINE S == {u \in Times : from <= u /\ u <= to}
  <1>1. f \in [Times -> Nat] /\ S \in SUBSET Times
    BY DEF History
  <1> HIDE DEF S
  <1>2. SumOver(f, S) \in Nat
    BY <1>1, TimesFinite, SumSplits
  <1> QED BY <1>2 DEF Between, S

LEMMA BetweenOneMore ==
    ASSUME NEW f \in History, NEW n \in Times, NEW from \in Int, NEW to \in Int,
           ~ (from <= n /\ n <= to)
    PROVE  Between([f EXCEPT ![n] = @ + 1], from, to) = Between(f, from, to)
  <1> DEFINE S == {u \in Times : from <= u /\ u <= to}
             h == [f EXCEPT ![n] = @ + 1]
  <1>1. /\ f \in [Times -> Nat] /\ h \in [Times -> Nat] /\ S \in SUBSET Times
        /\ \A u \in S : f[u] = h[u]
    BY DEF History
  <1> HIDE DEF S, h
  <1>2. SumOver(f, S) = SumOver(h, S)
    BY <1>1, TimesFinite, SumOfSame, ZenonT(30)
  <1> QED BY <1>2 DEF Between, S, h

\* While the bucket is there: two limits at most since any moment less than a window
\* before now.
LEMMA TwoWindows ==
    ASSUME NEW f \in History, NEW n \in Times, NEW b, b # NoBucket, ClientFits(f, b, n),
           NEW t \in Times, n <= t + Window - Slack
    PROVE  Since(f, t) <= 2 * MaxRequests
  <1> PICK o \in 0..n : Opened(f, b, o, n)
    BY DEF ClientFits
  <1>1. /\ n \in Nat /\ t \in Nat /\ o \in Nat /\ o <= n /\ Slack \in Nat
        /\ b.count \in Nat /\ b.count <= MaxRequests
    BY TimesFinite, LimiterAssumption DEF ClientFits, Bucket, Slack
  <1>2. Since(f, t) \in Nat
    BY <1>1, SinceCounts
  <1>3. CASE o < t
    BY <1>1, <1>2, <1>3, LimiterAssumption DEF Opened
  <1>4. CASE t <= o
    <2>1. o <= t + Window - Slack
      BY <1>1, LimiterAssumption
    <2> QED BY <1>1, <1>2, <1>4, <2>1, LimiterAssumption DEF Opened
  <1> QED BY <1>1, <1>3, <1>4

LEMMA BurstsStep ==
    LimiterInv /\ BurstsAreBounded /\ [LimiterNext]_limiterVars => BurstsAreBounded'
  <1> SUFFICES ASSUME LimiterInv, BurstsAreBounded, [LimiterNext]_limiterVars,
                      NEW c \in Clients, NEW t \in Times
               PROVE  Between(counted'[c], t, t + Window - Slack) <= 2 * MaxRequests
    BY DEF BurstsAreBounded, CountedBetween, Between, Times, Slack
  <1>1. Between(counted[c], t, t + Window - Slack) <= 2 * MaxRequests
    BY CountedSum DEF BurstsAreBounded, Times
  <1>2. t \in Nat /\ t \in Int /\ t + Window - Slack \in Int
    BY TimesFinite, LimiterAssumption DEF Slack
  <1>3. ASSUME NEW x \in Calls, Admit(x) \/ ReplyLost(x)
        PROVE  Between(counted'[c], t, t + Window - Slack) <= 2 * MaxRequests
    <2> PICK d : d = asking[x].client
      OBVIOUS
    <2>1. /\ counted' = [counted EXCEPT ![d] = [counted[d] EXCEPT ![now] = @ + 1]]
          /\ now' = now /\ bucket'[d] # NoBucket
      BY <1>3, CountInv DEF Admit, ReplyLost, Count
    <2>2. CASE d # c
      BY <1>1, <2>1, <2>2 DEF LimiterInv, LimiterTypeOK
    <2>3. CASE d = c /\ ~ (t <= now /\ now <= t + Window - Slack)
      <3>1. counted'[c] = [counted[c] EXCEPT ![now] = @ + 1]
        BY <2>1, <2>3 DEF LimiterInv, LimiterTypeOK
      <3> DEFINE to == t + Window - Slack
      <3>2. counted[c] \in History /\ now \in Times
        BY LimiterTypes DEF LimiterInv, LimiterTypeOK, History, Times
      <3>3. to \in Int /\ ~ (t <= now /\ now <= to)
        BY <1>2, <2>3
      <3> HIDE DEF to
      <3>4. Between([counted[c] EXCEPT ![now] = @ + 1], t, to) = Between(counted[c], t, to)
        BY <1>2, <3>2, <3>3, BetweenOneMore
      <3> QED BY <1>1, <3>1, <3>4 DEF to
    <2>4. CASE d = c /\ t <= now /\ now <= t + Window - Slack
      <3>1. LimiterInv'
        BY <1>3, CountInv
      <3>2. /\ counted'[c] \in History /\ now \in Times
            /\ ClientFits(counted'[c], bucket'[c], now)
        BY <2>1, <3>1, LimiterTypes DEF LimiterInv, LimiterTypeOK, History, Times
      <3>3. Since(counted'[c], t) <= 2 * MaxRequests
        BY <2>1, <2>4, <3>2, TwoWindows
      <3>4. Between(counted'[c], t, t + Window - Slack) <= Since(counted'[c], t)
        BY <1>2, <3>2, BetweenBounds
      <3>5. Since(counted'[c], t) \in Nat
            /\ Between(counted'[c], t, t + Window - Slack) \in Nat
        <4>1. Since(counted'[c], t) \in Nat
          BY <1>2, <3>2, SinceCounts
        <4>2. Between(counted'[c], t, t + Window - Slack) \in Nat
          BY <1>2, <3>2, BetweenCounts
        <4> QED BY <4>1, <4>2
      <3> QED BY <3>3, <3>4, <3>5, LimiterAssumption
    <2> QED BY <2>2, <2>3, <2>4
  <1>4. CASE UNCHANGED counted
    BY <1>1, <1>4
  <1> QED BY <1>3, <1>4
          DEF LimiterNext, Connect, canActivateLimited, Refuse, ConsumeFails, Tick, limiterVars

LEMMA BurstsInit == LimiterInit => BurstsAreBounded
  <1> SUFFICES ASSUME LimiterInit, NEW c \in Clients, NEW t \in Times
               PROVE  CountedBetween(c, t, t + Window - Slack) <= 2 * MaxRequests
    BY DEF BurstsAreBounded, Times
  <1> DEFINE S == {u \in Times : t <= u /\ u <= t + Window - Slack}
             f == counted[c]
  <1>1. /\ f \in [Times -> Nat] /\ S \in SUBSET Times
        /\ \A u \in S : f[u] = 0
    BY DEF LimiterInit, Times
  <1>2. CountedBetween(c, t, t + Window - Slack) = SumOver(f, S)
    BY DEF CountedBetween, Times
  <1> HIDE DEF f, S
  <1>3. SumOver(f, S) = 0
    BY <1>1, TimesFinite, SumOfZeros
  <1> QED BY <1>2, <1>3, LimiterAssumption

\* However late, early or out of order the timestamps of a client's calls reach Redis, and
\* whatever replies are lost, two limits' worth of them is the most the limiter counts, or
\* lets through, in a window less the slack.
THEOREM BurstsStayBounded == LimiterSpec => []BurstsAreBounded
  <1>1. LimiterInit => BurstsAreBounded
    BY BurstsInit
  <1>2. LimiterInv /\ BurstsAreBounded /\ [LimiterNext]_limiterVars => BurstsAreBounded'
    BY BurstsStep
  <1> QED BY <1>1, <1>2, LimiterInvariant, PTL DEF LimiterSpec

LEMMA RefusedStep ==
    ASSUME LimiterInv, NEW x \in Calls, Refuse(x)
    PROVE  CountedBetween(asking[x].client, now - Window - Slack + 1, now) >= MaxRequests
  <1>1. asking[x] # NoCall /\ CallFits(asking[x], now)
    BY DEF LimiterInv, Refuse
  <1> PICK c : c = asking[x].client
    OBVIOUS
  <1> PICK stamp : stamp = asking[x].stamp
    OBVIOUS
  <1>2. /\ c \in Clients /\ stamp \in Nat /\ now \in Nat /\ now \in Times
        /\ Slack \in Nat /\ now <= stamp + MaxDelay
    <2>1. asking[x].sent \in Nat /\ now \in Nat /\ now \in Times
      BY <1>1, TimesFinite, LimiterTypes DEF CallFits, LimiterInv, LimiterTypeOK, Times
    <2> QED BY <1>1, <2>1, LimiterAssumption DEF CallFits, Slack
  <1>3. ~ Fits(c, stamp)
    BY DEF Refuse
  <1> PICK b : b = bucket[c]
    OBVIOUS
  <1>4. b # NoBucket /\ ~ (stamp - b.start >= Window) /\ ~ (1 + b.count <= MaxRequests)
    BY <1>3, LimiterAssumption DEF Fits, nextCount, IsOver
  <1>5. ClientFits(counted[c], b, now)
    BY <1>2 DEF LimiterInv
  <1>6. b \in Bucket
    BY <1>4, <1>5 DEF ClientFits
  <1>7. PICK o \in 0..now : Opened(counted[c], b, o, now)
    BY <1>4, <1>5 DEF ClientFits
  <1>8. /\ o \in Nat /\ o <= now /\ o \in Times
        /\ b.start \in Nat /\ b.count = MaxRequests
    <2>1. b.start \in Nat /\ b.count \in 1..MaxRequests
      BY <1>6 DEF Bucket
    <2>2. b.count = MaxRequests
      BY <1>4, <2>1, LimiterAssumption
    <2>3. o \in Nat /\ o <= now /\ o \in Times
      BY <1>2, LimiterAssumption DEF Times
    <2> QED BY <2>1, <2>2, <2>3
  <1> DEFINE from == now - Window - Slack + 1
  <1>9. from \in Int /\ from <= o /\ now \in Int
    BY <1>2, <1>4, <1>7, <1>8, LimiterAssumption DEF Opened, Slack
  <1> HIDE DEF from
  <1>10. counted[c] \in History
    BY <1>2 DEF LimiterInv, LimiterTypeOK, History, Times
  <1>11. Since(counted[c], o) <= Between(counted[c], from, now)
    BY <1>5, <1>8, <1>9, <1>10, BetweenBounds DEF ClientFits
  <1>12. Since(counted[c], o) \in Nat /\ Between(counted[c], from, now) \in Nat
    BY <1>8, <1>9, <1>10, SinceCounts, BetweenCounts, <1>2
  <1>13. MaxRequests <= Since(counted[c], o)
    BY <1>7, <1>8 DEF Opened
  <1>14. Between(counted[c], from, now) >= MaxRequests
    BY <1>11, <1>12, <1>13, LimiterAssumption
  <1> QED BY <1>14, CountedSum DEF from

\* Whoever is refused had calls counted the full number of times in the last window and
\* slack, whatever its other calls did in between and whatever replies were lost.
THEOREM RefusalsAreEarned == LimiterSpec => RefusedOnlyWhenSpent
  <1>1. LimiterInv => \A x \in Calls : Refuse(x) =>
          CountedBetween(asking[x].client, now - Window - Slack + 1, now) >= MaxRequests
    BY RefusedStep
  <1> QED BY <1>1, LimiterInvariant, PTL DEF RefusedOnlyWhenSpent

-----------------------------------------------------------------------------
(***************************************************************************)
(* The circuit breaker: its fields keep their types, and the failures it   *)
(* lets through are bounded.                                               *)
(***************************************************************************)

Running == {x \in Callers : caller[x].pc = "run"}

\* In each state of the breaker the failures since the last success are accounted
\* for: counted by it, none, or those that opened it and those of calls that were in
\* flight then; every call still in flight can add one.
Accounted ==
    /\ breaker.state = "closed" => failures = breaker.failureCount
    /\ breaker.state = "half_open" => failures = 0
    /\ breaker.state = "open" =>
          failures + Cardinality(Running) <= FailureThreshold + Cardinality(Callers) - 1

\* A caller that is not in an operation has an attempt left.
AttemptsLeft ==
    \A x \in Callers : caller[x].pc # "run" => caller[x].attempt < RetryAttempts

BreakerInv == BreakerTypeOK /\ AttemptsLeft /\ Accounted

Fields == [state: {"closed", "open", "half_open"}, cooled: BOOLEAN,
           failureCount: 0..(FailureThreshold - 1), successCount: 0..(SuccessThreshold - 1)]

CallState == [pc: {"rest", "wait", "run"}, attempt: 0..RetryAttempts, doomed: BOOLEAN]

-----------------------------------------------------------------------------
\* Counting the calls in flight.

LEMMA CallersCount == Cardinality(Callers) \in Nat
  BY BreakerAssumption, FS_CardinalityType

LEMMA RunningCount ==
    /\ Cardinality(Running) \in Nat
    /\ Cardinality(Running) <= Cardinality(Callers)
  BY BreakerAssumption, FS_Subset, FS_CardinalityType DEF Running

\* A call that ends, alone, leaves one less; it was in flight.
LEMMA EndsCount ==
    ASSUME BreakerTypeOK, NEW x \in Callers, caller[x].pc = "run",
           caller'[x].pc # "run", \A y \in Callers \ {x} : caller'[y] = caller[y]
    PROVE  /\ Cardinality(Running') = Cardinality(Running) - 1
           /\ Cardinality(Running) >= 1
  <1>1. Running' = Running \ {x} /\ x \in Running
    BY DEF Running
  <1>2. IsFiniteSet(Running)
    BY BreakerAssumption, FS_Subset DEF Running
  <1>3. Cardinality(Running') = Cardinality(Running) - 1
    BY <1>1, <1>2, FS_RemoveElement
  <1>4. Running # {}
    BY <1>1
  <1>5. Cardinality(Running) # 0
    BY <1>2, <1>4, FS_EmptySet
  <1> QED BY <1>3, <1>5, RunningCount

-----------------------------------------------------------------------------
\* The methods of the breaker.

LEMMA EvaluateFacts ==
    ASSUME NEW b \in Fields
    PROVE  /\ evaluateStateTransition(b) \in Fields
           /\ evaluateStateTransition(b) # b =>
                 evaluateStateTransition(b).state = "half_open"
  <1>1. CASE b.state = "open" /\ b.cooled
    <2> DEFINE h == [b EXCEPT !.state = "half_open"]
               s == [h EXCEPT !.successCount = 0]
    <2>1. evaluateStateTransition(b) = [s EXCEPT !.cooled = FALSE]
      BY <1>1 DEF evaluateStateTransition
    <2>2. h \in Fields /\ h.state = "half_open"
      BY DEF Fields
    <2> HIDE DEF h
    <2>3. s \in Fields /\ s.state = "half_open"
      BY <2>2, BreakerAssumption DEF Fields
    <2> HIDE DEF s
    <2> QED BY <2>1, <2>3 DEF Fields
  <1>2. CASE ~(b.state = "open" /\ b.cooled)
    BY <1>2 DEF evaluateStateTransition
  <1> QED BY <1>1, <1>2

LEMMA SuccessFacts ==
    ASSUME NEW b \in Fields
    PROVE  /\ onSuccess(b) \in Fields
           /\ onSuccess(b).state = "closed" => onSuccess(b).failureCount = 0
  BY BreakerAssumption DEF Fields, onSuccess, reset

LEMMA FailureFacts ==
    ASSUME NEW b \in Fields
    PROVE  /\ onFailure(b) \in Fields
           /\ onFailure(b).state # "half_open"
           /\ onFailure(b).state = "closed" =>
                 b.state = "closed" /\ onFailure(b).failureCount = b.failureCount + 1
  BY BreakerAssumption DEF Fields, onFailure, trip

\* The type invariant by the names used here.
LEMMA Typed ==
    BreakerTypeOK <=> /\ breaker \in Fields /\ caller \in [Callers -> CallState]
                      /\ healthy \in BOOLEAN /\ failures \in Nat
  BY DEF BreakerTypeOK, Fields, CallState

-----------------------------------------------------------------------------

LEMMA BreakerInvInit == BreakerInit => BreakerInv
  <1> SUFFICES ASSUME BreakerInit PROVE BreakerInv
    OBVIOUS
  <1>1. breaker \in Fields /\ caller \in [Callers -> CallState]
    BY BreakerAssumption DEF BreakerInit, Fields, CallState, Resting, reset
  <1>2. BreakerTypeOK
    BY <1>1, Typed DEF BreakerInit
  <1>3. AttemptsLeft
    BY BreakerAssumption DEF AttemptsLeft, BreakerInit, Resting
  <1>4. Accounted
    BY DEF Accounted, BreakerInit, reset
  <1> QED BY <1>2, <1>3, <1>4 DEF BreakerInv

\* The call of x goes on or ends, the others stay where they are.
LEMMA CallerMoves ==
    ASSUME BreakerInv, NEW x \in Callers, NEW c \in CallState,
           c.pc # "run" => c.attempt < RetryAttempts,
           caller' = [caller EXCEPT ![x] = c]
    PROVE  caller' \in [Callers -> CallState] /\ AttemptsLeft'
  BY Typed DEF BreakerInv, AttemptsLeft

\* After a failed attempt of x.
LEMMA AfterFailureMoves ==
    ASSUME BreakerInv, NEW x \in Callers, NEW n \in 0..RetryAttempts,
           NEW r \in BOOLEAN, AfterFailure(x, n, r)
    PROVE  /\ caller' \in [Callers -> CallState] /\ AttemptsLeft'
           /\ caller'[x].pc # "run"
           /\ \A y \in Callers \ {x} : caller'[y] = caller[y]
  <1> DEFINE c == IF n >= RetryAttempts \/ ~r THEN Resting
                  ELSE [pc |-> "wait", attempt |-> n, doomed |-> FALSE]
  <1>1. caller' = [caller EXCEPT ![x] = c]
    BY DEF AfterFailure
  <1>2. c \in CallState /\ c.pc # "run" /\ c.attempt < RetryAttempts
    BY BreakerAssumption DEF CallState, Resting
  <1>3. caller \in [Callers -> CallState]
    BY Typed DEF BreakerInv
  <1> HIDE DEF c
  <1>4. caller' \in [Callers -> CallState] /\ AttemptsLeft'
    BY <1>1, <1>2, CallerMoves
  <1> QED BY <1>1, <1>2, <1>3, <1>4

\* A look at the time: the breaker half-opens, or nothing happens.
LEMMA EvaluateInv ==
    ASSUME BreakerInv,
           breaker' = evaluateStateTransition(breaker),
           failures' = IF breaker' # breaker THEN 0 ELSE failures,
           breaker'.state # "open" \/ Running' = Running
    PROVE  breaker' \in Fields /\ failures' \in Nat /\ Accounted'
  <1>1. breaker \in Fields /\ failures \in Nat
    BY Typed DEF BreakerInv
  <1>2. breaker' \in Fields /\ (breaker' # breaker => breaker'.state = "half_open")
    BY <1>1, EvaluateFacts
  <1>3. CASE breaker' # breaker
    BY <1>2, <1>3 DEF Accounted
  <1>4. CASE breaker' = breaker
    BY <1>1, <1>4 DEF BreakerInv, Accounted
  <1> QED BY <1>1, <1>2, <1>3, <1>4

LEMMA StartsInv ==
    ASSUME BreakerInv, NEW x \in Callers, Starts(x) PROVE BreakerInv'
  <1> DEFINE c == [pc |-> "run", attempt |-> caller[x].attempt + 1, doomed |-> ~healthy]
  <1>1. /\ breaker' = evaluateStateTransition(breaker) /\ breaker'.state # "open"
        /\ failures' = IF breaker' # breaker THEN 0 ELSE failures
        /\ caller' = [caller EXCEPT ![x] = c]
        /\ healthy' = healthy
        /\ caller[x].pc # "run"
    BY DEF Starts, Attempts
  <1>2. caller \in [Callers -> CallState] /\ healthy \in BOOLEAN
    BY Typed DEF BreakerInv
  <1>3. caller[x].attempt \in 0..RetryAttempts /\ caller[x].attempt < RetryAttempts
    BY <1>1, <1>2 DEF BreakerInv, AttemptsLeft, CallState
  <1>4. c \in CallState /\ c.pc = "run"
    BY <1>2, <1>3, BreakerAssumption DEF CallState
  <1>5. caller' \in [Callers -> CallState] /\ AttemptsLeft'
    <2> HIDE DEF c
    <2> QED BY <1>1, <1>4, CallerMoves
  <1>6. breaker' \in Fields /\ failures' \in Nat /\ Accounted'
    BY <1>1, EvaluateInv
  <1>7. BreakerTypeOK'
    BY <1>1, <1>2, <1>5, <1>6 DEF BreakerTypeOK, Fields, CallState
  <1> QED BY <1>5, <1>6, <1>7 DEF BreakerInv

LEMMA RejectedInv ==
    ASSUME BreakerInv, NEW x \in Callers, Rejected(x) PROVE BreakerInv'
  <1>1. caller \in [Callers -> CallState]
    BY Typed DEF BreakerInv
  <1>2. caller[x].pc # "run" /\ caller[x].attempt + 1 \in 0..RetryAttempts
    BY <1>1, BreakerAssumption
    DEF Rejected, Attempts, BreakerInv, AttemptsLeft, CallState
  <1>3. /\ caller' \in [Callers -> CallState] /\ AttemptsLeft'
        /\ caller'[x].pc # "run"
        /\ \A y \in Callers \ {x} : caller'[y] = caller[y]
    <2>1. AfterFailure(x, caller[x].attempt + 1, TRUE)
      BY DEF Rejected
    <2> QED BY <1>2, <2>1, AfterFailureMoves
  <1>4. Running' = Running
    BY <1>2, <1>3 DEF Running
  <1>5. UNCHANGED <<breaker, healthy, failures>>
    BY DEF Rejected
  <1>6. BreakerTypeOK'
    BY <1>3, <1>5 DEF BreakerInv, BreakerTypeOK, CallState
  <1>7. Accounted'
    BY <1>4, <1>5 DEF BreakerInv, Accounted
  <1> QED BY <1>3, <1>6, <1>7 DEF BreakerInv

LEMMA SucceedsInv ==
    ASSUME BreakerInv, NEW x \in Callers, Succeeds(x) PROVE BreakerInv'
  <1>1. /\ breaker \in Fields /\ caller \in [Callers -> CallState]
        /\ healthy \in BOOLEAN /\ failures \in Nat
    BY Typed DEF BreakerInv
  <1>2. /\ breaker' = onSuccess(breaker) /\ failures' = 0 /\ healthy' = healthy
        /\ caller' = [caller EXCEPT ![x] = Resting] /\ caller[x].pc = "run"
    BY DEF Succeeds
  <1>3. Resting \in CallState /\ Resting.pc # "run" /\ Resting.attempt < RetryAttempts
    BY BreakerAssumption DEF Resting, CallState
  <1>4. caller' \in [Callers -> CallState] /\ AttemptsLeft'
    BY <1>2, <1>3, CallerMoves
  <1>5. /\ caller'[x].pc # "run"
        /\ \A y \in Callers \ {x} : caller'[y] = caller[y]
    BY <1>1, <1>2, <1>3
  <1>6. Cardinality(Running') = Cardinality(Running) - 1
    BY <1>2, <1>5, EndsCount DEF BreakerInv
  <1>7. breaker' \in Fields
        /\ (breaker'.state = "closed" => breaker'.failureCount = 0)
    BY <1>1, <1>2, SuccessFacts
  <1>8. Accounted'
    BY <1>2, <1>6, <1>7, RunningCount, CallersCount, BreakerAssumption DEF Accounted
  <1>9. BreakerTypeOK'
    BY <1>1, <1>2, <1>4, <1>7 DEF BreakerTypeOK, Fields, CallState
  <1> QED BY <1>4, <1>8, <1>9 DEF BreakerInv

LEMMA FailsInv ==
    ASSUME BreakerInv, NEW x \in Callers, NEW r \in BOOLEAN, Fails(x, r)
    PROVE  BreakerInv'
  <1>1. /\ breaker \in Fields /\ caller \in [Callers -> CallState]
        /\ healthy \in BOOLEAN /\ failures \in Nat
    BY Typed DEF BreakerInv
  <1>2. /\ breaker' = onFailure(breaker) /\ failures' = failures + 1
        /\ healthy' = healthy /\ caller[x].pc = "run"
        /\ AfterFailure(x, caller[x].attempt, r)
    BY DEF Fails
  <1>3. caller[x].attempt \in 0..RetryAttempts
    BY <1>1 DEF CallState
  <1>4. /\ caller' \in [Callers -> CallState] /\ AttemptsLeft'
        /\ caller'[x].pc # "run"
        /\ \A y \in Callers \ {x} : caller'[y] = caller[y]
    BY <1>2, <1>3, AfterFailureMoves
  <1>5. /\ Cardinality(Running') = Cardinality(Running) - 1
        /\ Cardinality(Running) >= 1
    BY <1>2, <1>4, EndsCount DEF BreakerInv
  <1>6. /\ breaker' \in Fields /\ breaker'.state # "half_open"
        /\ breaker'.state = "closed" =>
              breaker.state = "closed" /\ breaker'.failureCount = breaker.failureCount + 1
    BY <1>1, <1>2, FailureFacts
  \* What has failed so far, before this call.
  <1>7. failures + Cardinality(Running) <= FailureThreshold + Cardinality(Callers) - 1
    <2>1. CASE breaker.state = "closed"
      <3>1. failures <= FailureThreshold - 1
        BY <1>1, <2>1, BreakerAssumption DEF BreakerInv, Accounted, Fields
      <3> QED BY <1>1, <3>1, RunningCount, CallersCount, BreakerAssumption
    <2>2. CASE breaker.state = "half_open"
      <3>1. failures = 0
        BY <2>2 DEF BreakerInv, Accounted
      <3> QED BY <3>1, RunningCount, CallersCount, BreakerAssumption
    <2>3. CASE breaker.state = "open"
      BY <2>3 DEF BreakerInv, Accounted
    <2> QED BY <1>1, <2>1, <2>2, <2>3 DEF Fields
  <1>8. Accounted'
    <2>1. breaker'.state = "closed" => failures' = breaker'.failureCount
      BY <1>2, <1>6 DEF BreakerInv, Accounted
    <2>2. failures' + Cardinality(Running') <= FailureThreshold + Cardinality(Callers) - 1
      BY <1>1, <1>2, <1>5, <1>7, RunningCount, CallersCount, BreakerAssumption
    <2> QED BY <1>6, <2>1, <2>2 DEF Accounted
  <1>9. BreakerTypeOK'
    BY <1>1, <1>2, <1>4, <1>6 DEF BreakerTypeOK, Fields, CallState
  <1> QED BY <1>4, <1>8, <1>9 DEF BreakerInv

LEMMA getStateInv == BreakerInv /\ getState => BreakerInv'
  <1> SUFFICES ASSUME BreakerInv, getState PROVE BreakerInv'
    OBVIOUS
  <1>1. /\ breaker' = evaluateStateTransition(breaker)
        /\ failures' = IF breaker' # breaker THEN 0 ELSE failures
        /\ caller' = caller /\ healthy' = healthy
    BY DEF getState
  <1>2. Running' = Running
    BY <1>1 DEF Running
  <1>3. breaker' \in Fields /\ failures' \in Nat /\ Accounted'
    BY <1>1, <1>2, EvaluateInv
  <1>4. BreakerTypeOK'
    BY <1>1, <1>3 DEF BreakerInv, BreakerTypeOK, Fields
  <1> QED BY <1>1, <1>3, <1>4 DEF BreakerInv, AttemptsLeft

LEMMA CoolsDownInv == BreakerInv /\ CoolsDown => BreakerInv'
  <1> SUFFICES ASSUME BreakerInv, CoolsDown PROVE BreakerInv'
    OBVIOUS
  <1>1. breaker' = [breaker EXCEPT !.cooled = TRUE] /\ breaker.state = "open"
        /\ UNCHANGED <<caller, healthy, failures>>
    BY DEF CoolsDown
  <1>2. breaker' \in Fields /\ breaker'.state = "open"
    BY <1>1, Typed DEF BreakerInv, Fields
  <1>3. BreakerTypeOK'
    BY <1>1, <1>2 DEF BreakerInv, BreakerTypeOK, Fields
  <1>4. AttemptsLeft' /\ Accounted'
    BY <1>1, <1>2 DEF BreakerInv, AttemptsLeft, Accounted, Running
  <1> QED BY <1>3, <1>4 DEF BreakerInv

LEMMA BreakerInvStep == BreakerInv /\ [BreakerNext]_breakerVars => BreakerInv'
  <1> SUFFICES ASSUME BreakerInv, [BreakerNext]_breakerVars PROVE BreakerInv'
    OBVIOUS
  <1>1. CASE \E x \in Callers : \/ Starts(x) \/ Rejected(x) \/ Succeeds(x)
                                 \/ \E r \in BOOLEAN : Fails(x, r)
    BY <1>1, StartsInv, RejectedInv, SucceedsInv, FailsInv
  <1>2. CASE getState
    BY <1>2, getStateInv
  <1>3. CASE CoolsDown
    BY <1>3, CoolsDownInv
  <1>4. CASE ProviderChanges
    BY <1>4 DEF ProviderChanges, BreakerInv, BreakerTypeOK, AttemptsLeft, Accounted, Running
  <1>5. CASE UNCHANGED breakerVars
    BY <1>5 DEF breakerVars, BreakerInv, BreakerTypeOK, AttemptsLeft, Accounted, Running
  <1> QED BY <1>1, <1>2, <1>3, <1>4, <1>5 DEF BreakerNext

LEMMA BreakerInvariant == BreakerSpec => []BreakerInv
  BY BreakerInvInit, BreakerInvStep, PTL DEF BreakerSpec

-----------------------------------------------------------------------------
\* The fields of the breaker, the callers and the history keep their types: no count
\* reaches its threshold, no call makes more attempts than withRetry allows.
THEOREM BreakerTypeCorrect == BreakerSpec => []BreakerTypeOK
  <1>1. BreakerInv => BreakerTypeOK
    BY DEF BreakerInv
  <1> QED BY <1>1, BreakerInvariant, PTL

\* However many callers overlap, the operations that fail between two openings to
\* the provider are the threshold and those in flight beside the last of them.
THEOREM BreakerContainsFailures == BreakerSpec => []FailuresAreContained
  <1>1. BreakerInv => FailuresAreContained
    <2> SUFFICES ASSUME BreakerInv PROVE FailuresAreContained
      OBVIOUS
    <2>1. breaker \in Fields /\ failures \in Nat
      BY Typed DEF BreakerInv
    <2>2. Accounted
      BY DEF BreakerInv
    <2> QED BY <2>1, <2>2, RunningCount, CallersCount, BreakerAssumption
            DEF FailuresAreContained, Accounted, Fields
  <1> QED BY <1>1, BreakerInvariant, PTL

===============================================================================
