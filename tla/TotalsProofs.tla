---------------------------- MODULE TotalsProofs ----------------------------
(***************************************************************************)
(* What TLAPS proves about the components that keep totals: the datagram   *)
(* server and the telemetry.  The provers have no induction of their own;  *)
(* for finite sets it is taken from a minimal counterexample, and gives    *)
(* the laws of SumFunction.                                                *)
(***************************************************************************)
EXTENDS UdpServer, Telemetry, FiniteSetTheorems, WellFoundedInduction, TLAPS

(* What holds of a set when it holds of all its proper subsets holds of    *)
(* every finite set.                                                       *)
LEMMA SubsetInduction ==
    ASSUME NEW D, IsFiniteSet(D), NEW Q,
           \A u \in SUBSET D : (\A v \in SUBSET u : v # u => v \in Q) => u \in Q
    PROVE  \A u \in SUBSET D : u \in Q
<1> SUFFICES ASSUME NEW w \in SUBSET D, w \notin Q PROVE FALSE
  OBVIOUS
<1> DEFINE T == {u \in SUBSET D : u \notin Q}
           R == StrictSubsetOrdering(D)
<1>1. IsWellFoundedOn(R, FiniteSubsetsOf(D))
  BY FS_StrictSubsetOrderingWellFounded
<1>2. T \subseteq FiniteSubsetsOf(D) /\ T # {}
  BY FS_Subset DEF FiniteSubsetsOf
<1>3. PICK u \in T : \A v \in T : ~ (<<v, u>> \in R)
  <2> HIDE DEF T, R
  <2> QED
    BY <1>1, <1>2, WFMin
<1>4. \A v \in SUBSET u : v # u => v \in Q
  <2> SUFFICES ASSUME NEW v \in SUBSET u, v # u, v \notin Q PROVE FALSE
    OBVIOUS
  <2>1. v \in T /\ <<v, u>> \in R
    BY DEF StrictSubsetOrdering
  <2> QED
    BY <1>3, <2>1
<1> QED
  BY <1>3, <1>4

(* Sums.  SumFunction adds the values of a function in an order that a     *)
(* CHOOSE fixes; Partial is the table of the partial sums it goes through. *)
First(u) == CHOOSE x \in u : TRUE

Partial(g, f, D) ==
    g = [u \in SUBSET D |-> IF u = {} THEN 0 ELSE f[First(u)] + g[u \ {First(u)}]]

LEMMA FirstOf ==
    ASSUME NEW D, IsFiniteSet(D), NEW u \in SUBSET D, u # {}
    PROVE  /\ First(u) \in u /\ u \ {First(u)} \in SUBSET D
           /\ Cardinality(u) \in Nat \ {0} /\ Cardinality(u \ {First(u)}) = Cardinality(u) - 1
<1>1. First(u) \in u
  BY DEF First
<1>2. IsFiniteSet(u) /\ Cardinality(u) \in Nat /\ Cardinality(u) # 0
  BY FS_Subset, FS_CardinalityType, FS_EmptySet
<1> QED
  BY <1>1, <1>2, FS_RemoveElement

LEMMA PartialExists ==
    ASSUME NEW f, IsFiniteSet(DOMAIN f)
    PROVE  /\ \E g : Partial(g, f, DOMAIN f)
           /\ \E g : Partial(g, f, DOMAIN f) /\ SumFunction(f) = g[DOMAIN f]
<1> DEFINE D == DOMAIN f
           Small(n) == {u \in SUBSET D : Cardinality(u) <= n}
           Upto(g, n) == g = [u \in Small(n) |-> IF u = {} THEN 0 ELSE f[First(u)] + g[u \ {First(u)}]]
           S == {n \in 0 .. Cardinality(D) : \E g : Upto(g, n)}
<1>0. Cardinality(D) \in Nat /\ \A u \in SUBSET D : IsFiniteSet(u) /\ Cardinality(u) \in Nat /\ Cardinality(u) <= Cardinality(D)
  BY FS_Subset, FS_CardinalityType
<1> HIDE DEF D
<1>1. 0 \in S
  <2>1. \A u \in Small(0) : u = {}
    BY <1>0, FS_EmptySet
  <2>2. Upto([u \in Small(0) |-> 0], 0)
    BY <2>1
  <2>3. 0 \in 0 .. Cardinality(D)
    BY <1>0
  <2> HIDE DEF Upto
  <2> QED
    BY <2>2, <2>3
<1>2. ASSUME NEW n \in 0 .. Cardinality(D) - 1, n \in S PROVE n + 1 \in S
  <2>1. PICK g : Upto(g, n)
    BY <1>2
  <2> DEFINE h == [u \in Small(n + 1) |-> IF u = {} THEN 0 ELSE f[First(u)] + g[u \ {First(u)}]]
  <2>2. ASSUME NEW u \in Small(n + 1), u # {} PROVE u \ {First(u)} \in Small(n)
    <3>1. u \in SUBSET D /\ Cardinality(u) <= n + 1
      BY <2>2
    <3>2. IsFiniteSet(D)
      BY <1>0
    <3>3. u \ {First(u)} \in SUBSET D /\ Cardinality(u) \in Nat /\ Cardinality(u \ {First(u)}) = Cardinality(u) - 1
      BY <2>2, <3>1, <3>2, FirstOf
    <3> QED
      BY <3>1, <3>3
  <2>3. Small(n) \subseteq Small(n + 1)
    BY <1>0
  <2>4. \A u \in Small(n) : h[u] = g[u]
    <3> HIDE DEF Small
    <3>1. \A u \in Small(n) : g[u] = IF u = {} THEN 0 ELSE f[First(u)] + g[u \ {First(u)}]
      BY <2>1
    <3>2. \A u \in Small(n) : h[u] = IF u = {} THEN 0 ELSE f[First(u)] + g[u \ {First(u)}]
      BY <2>3
    <3> QED
      BY <3>1, <3>2
  <2>5. \A u \in Small(n + 1) : u # {} => h[u \ {First(u)}] = g[u \ {First(u)}]
    <3> HIDE DEF Small, h
    <3> QED
      BY <2>2, <2>4
  <2>6. h = [u \in Small(n + 1) |-> IF u = {} THEN 0 ELSE f[First(u)] + h[u \ {First(u)}]]
    <3>1. \A u \in Small(n + 1) : h[u] = IF u = {} THEN 0 ELSE f[First(u)] + h[u \ {First(u)}]
      <4> HIDE DEF Small
      <4>1. \A u \in Small(n + 1) : h[u] = IF u = {} THEN 0 ELSE f[First(u)] + g[u \ {First(u)}]
        OBVIOUS
      <4> HIDE DEF h
      <4> QED
        BY <2>5, <4>1
    <3>2. h = [u \in Small(n + 1) |-> h[u]]
      <4> HIDE DEF Small
      <4> QED
        OBVIOUS
    <3> HIDE DEF Small, h
    <3> DEFINE X == Small(n + 1)
               e(u) == IF u = {} THEN 0 ELSE f[First(u)] + h[u \ {First(u)}]
    <3>3. h = [u \in X |-> h[u]] /\ \A u \in X : h[u] = e(u)
      BY <3>1, <3>2
    <3> HIDE DEF X, e
    <3>4. h = [u \in X |-> e(u)]
      BY <3>3
    <3> QED
      BY <3>4 DEF X, e
  <2>7. Upto(h, n + 1)
    <3> HIDE DEF Small, h
    <3> QED
      BY <2>6
  <2>8. n + 1 \in 0 .. Cardinality(D)
    BY <1>0
  <2> HIDE DEF Upto, h
  <2> QED
    BY <2>7, <2>8
<1>3. Cardinality(D) \in S
  <2> HIDE DEF S
  <2> DEFINE Q == {u \in SUBSET D : Cardinality(u) \in S}
  <2>1. ASSUME NEW u \in SUBSET D, \A v \in SUBSET u : v # u => v \in Q
        PROVE  u \in Q
    <3>1. CASE u = {}
      BY <1>1, <3>1, FS_EmptySet
    <3>2. CASE u # {}
      <4> DEFINE n == Cardinality(u) - 1
      <4>1. /\ First(u) \in u /\ Cardinality(u) \in Nat \ {0}
            /\ Cardinality(u \ {First(u)}) = n
        BY <1>0, <3>2, FirstOf
      <4>2. n \in S
        BY <2>1, <4>1
      <4>3. n \in 0 .. Cardinality(D) - 1 /\ n + 1 = Cardinality(u)
        BY <1>0, <4>1
      <4> HIDE DEF n
      <4> QED
        BY <1>2, <4>2, <4>3
    <3> QED
      BY <3>1, <3>2
  <2>2. IsFiniteSet(D)
    BY <1>0
  <2> HIDE DEF Q
  <2>3. D \in Q
    BY <2>1, <2>2, SubsetInduction
  <2> QED
    BY <2>3 DEF Q
<1>4. Small(Cardinality(D)) = SUBSET D
  BY <1>0
<1>5. \E g : Upto(g, Cardinality(D))
  BY <1>3
<1>6. \E g : Partial(g, f, D)
  <2> HIDE DEF Small
  <2> QED
    BY <1>4, <1>5 DEF Partial
<1>7. SumFunction(f) = (CHOOSE g : Partial(g, f, DOMAIN f))[DOMAIN f]
  BY DEF SumFunction, SumFunctionOnSet, FoldFunctionOnSet, MapThenFoldSet, Partial, First
<1>8. Partial(CHOOSE g : Partial(g, f, DOMAIN f), f, DOMAIN f)
  BY <1>6 DEF D
<1> QED
  BY <1>7, <1>8

(* The partial sums are integers, are 0 when the terms are, and do not     *)
(* depend on the order.                                                    *)
LEMMA PartialStep ==
    ASSUME NEW D, NEW f, NEW g, Partial(g, f, D), NEW u \in SUBSET D
    PROVE  /\ u = {} => g[u] = 0
           /\ u # {} => /\ First(u) \in u /\ u \ {First(u)} \in SUBSET u /\ u \ {First(u)} # u
                        /\ g[u] = f[First(u)] + g[u \ {First(u)}]
<1>1. u # {} => First(u) \in u
  BY DEF First
<1>2. u = {} => g[u] = 0
  BY DEF Partial
<1>3. u # {} => g[u] = f[First(u)] + g[u \ {First(u)}]
  BY DEF Partial
<1> QED
  BY <1>1, <1>2, <1>3

LEMMA PartialType ==
    ASSUME NEW D, IsFiniteSet(D), NEW f \in [D -> Int], NEW g, Partial(g, f, D)
    PROVE  \A u \in SUBSET D : g[u] \in Int
<1> DEFINE Q == {u \in SUBSET D : g[u] \in Int}
<1>1. ASSUME NEW u \in SUBSET D, \A v \in SUBSET u : v # u => v \in Q PROVE g[u] \in Int
  <2>1. CASE u = {}
    <3>1. g[{}] = 0
      BY DEF Partial
    <3> QED
      BY <2>1, <3>1
  <2>2. CASE u # {}
    <3> DEFINE x == First(u)
    <3>1. x \in u /\ u \ {x} \in SUBSET u /\ u \ {x} # u /\ g[u] = f[x] + g[u \ {x}]
      BY <2>2, PartialStep
    <3> HIDE DEF x
    <3>2. g[u \ {x}] \in Int
      <4>1. u \ {x} \in Q
        BY <1>1, <3>1
      <4> QED
        BY <4>1, Zenon
    <3>3. x \in D /\ f[x] \in Int
      BY <3>1
    <3> QED
      BY <3>1, <3>2, <3>3
  <2> QED
    BY <2>1, <2>2
<1>2. \A u \in SUBSET D : (\A v \in SUBSET u : v # u => v \in Q) => u \in Q
  BY <1>1
<1>3. \A u \in SUBSET D : u \in Q
  <2> HIDE DEF Q
  <2> QED
    BY <1>2, SubsetInduction
<1> QED
  BY <1>3

LEMMA PartialZero ==
    ASSUME NEW D, IsFiniteSet(D), NEW f, \A x \in D : f[x] = 0, NEW g, Partial(g, f, D)
    PROVE  \A u \in SUBSET D : g[u] = 0
<1> DEFINE Q == {u \in SUBSET D : g[u] = 0}
<1>1. ASSUME NEW u \in SUBSET D, \A v \in SUBSET u : v # u => v \in Q, u # {} PROVE g[u] = 0
  <2> DEFINE x == First(u)
  <2>1. x \in u /\ u \ {x} \in SUBSET u /\ u \ {x} # u /\ g[u] = f[x] + g[u \ {x}]
    BY <1>1, PartialStep
  <2> HIDE DEF x
  <2>2. g[u \ {x}] = 0 /\ f[x] = 0
    BY <1>1, <2>1
  <2> QED
    BY <2>1, <2>2
<1>2. \A u \in SUBSET D : (\A v \in SUBSET u : v # u => v \in Q) => u \in Q
  BY <1>1, PartialStep
<1>3. \A u \in SUBSET D : u \in Q
  <2> HIDE DEF Q
  <2> QED
    BY <1>2, SubsetInduction
<1> QED
  BY <1>3

LEMMA PartialSplit ==
    ASSUME NEW D, IsFiniteSet(D), NEW f \in [D -> Int], NEW g, Partial(g, f, D)
    PROVE  \A u \in SUBSET D : \A x \in u : g[u] = f[x] + g[u \ {x}]
<1> DEFINE Q == {u \in SUBSET D : \A x \in u : g[u] = f[x] + g[u \ {x}]}
<1>1. ASSUME NEW u \in SUBSET D, \A v \in SUBSET u : v # u => v \in Q, NEW x \in u
      PROVE  g[u] = f[x] + g[u \ {x}]
  <2> DEFINE p == First(u)
  <2>1. p \in u /\ g[u] = f[p] + g[u \ {p}]
    BY PartialStep
  <2> HIDE DEF p
  <2>2. CASE x = p
    BY <2>1, <2>2
  <2>3. CASE x # p
    <3>1. u \ {p} \in Q /\ u \ {x} \in Q
      BY <1>1, <2>1
    <3>2. x \in u \ {p} /\ p \in u \ {x} /\ (u \ {p}) \ {x} = (u \ {x}) \ {p}
      BY <2>1, <2>3
    <3> DEFINE c == g[(u \ {x}) \ {p}]
    <3>3. g[u \ {p}] = f[x] + c /\ g[u \ {x}] = f[p] + c
      BY <3>1, <3>2
    <3>4. c \in Int /\ f[x] \in Int /\ f[p] \in Int
      BY <2>1, PartialType
    <3> HIDE DEF c
    <3> QED
      BY <2>1, <3>3, <3>4
  <2> QED
    BY <2>2, <2>3
<1>2. \A u \in SUBSET D : (\A v \in SUBSET u : v # u => v \in Q) => u \in Q
  BY <1>1
<1>3. \A u \in SUBSET D : u \in Q
  <2> HIDE DEF Q
  <2> QED
    BY <1>2, SubsetInduction
<1> QED
  BY <1>3

(* The partial sum over no key is 0.                                       *)
LEMMA PartialEmpty ==
    ASSUME NEW D, NEW f, NEW g, Partial(g, f, D)
    PROVE  g[{}] = 0
BY DEF Partial

(* The partial sums of functions that agree are the same.                  *)
LEMMA PartialAgree ==
    ASSUME NEW D, IsFiniteSet(D), NEW f, NEW g, Partial(g, f, D),
           NEW E \in SUBSET D, NEW e, NEW h, Partial(h, e, E), \A x \in E : e[x] = f[x]
    PROVE  h[E] = g[E]
<1> DEFINE Q == {u \in SUBSET E : h[u] = g[u]}
<1>0. IsFiniteSet(E)
  BY FS_Subset
<1>1. ASSUME NEW u \in SUBSET E, \A v \in SUBSET u : v # u => v \in Q, u # {} PROVE h[u] = g[u]
  <2> DEFINE x == First(u)
  <2>1. /\ x \in u /\ u \ {x} \in SUBSET u /\ u \ {x} # u
        /\ g[u] = f[x] + g[u \ {x}] /\ h[u] = e[x] + h[u \ {x}]
    BY <1>1, PartialStep
  <2> HIDE DEF x
  <2>2. h[u \ {x}] = g[u \ {x}] /\ e[x] = f[x]
    BY <1>1, <2>1
  <2> QED
    BY <2>1, <2>2
<1>2. \A u \in SUBSET E : u = {} => h[u] = g[u]
  <2>1. h[{}] = 0
    BY PartialEmpty
  <2>2. g[{}] = 0
    BY PartialEmpty
  <2> QED
    BY <2>1, <2>2
<1>3. \A u \in SUBSET E : (\A v \in SUBSET u : v # u => v \in Q) => u \in Q
  BY <1>1, <1>2
<1>4. \A u \in SUBSET E : u \in Q
  <2> HIDE DEF Q
  <2> QED
    BY <1>0, <1>3, SubsetInduction
<1> QED
  BY <1>4

(* The laws of the sum: it is an integer, it is 0 when there is nothing to *)
(* add, and one term can be taken out of it or changed.                    *)
LEMMA SumType ==
    ASSUME NEW D, IsFiniteSet(D), NEW f \in [D -> Int]
    PROVE  SumFunction(f) \in Int
<1>1. PICK g : Partial(g, f, D) /\ SumFunction(f) = g[D]
  BY PartialExists
<1> QED
  BY <1>1, PartialType

LEMMA SumZero ==
    ASSUME NEW D, IsFiniteSet(D), NEW f \in [D -> Int], \A x \in D : f[x] = 0
    PROVE  SumFunction(f) = 0
<1>1. PICK g : Partial(g, f, D) /\ SumFunction(f) = g[D]
  BY PartialExists
<1> QED
  BY <1>1, PartialZero

Without(f, x) == [y \in DOMAIN f \ {x} |-> f[y]]

LEMMA SumSplit ==
    ASSUME NEW D, IsFiniteSet(D), NEW f \in [D -> Int], NEW x \in D
    PROVE  SumFunction(f) = f[x] + SumFunction(Without(f, x))
<1>1. PICK g : Partial(g, f, D) /\ SumFunction(f) = g[D]
  BY PartialExists
<1> DEFINE E == D \ {x}
           e == Without(f, x)
<1>2. IsFiniteSet(E) /\ E \in SUBSET D /\ DOMAIN e = E /\ \A y \in E : e[y] = f[y]
  BY FS_RemoveElement DEF Without
<1> HIDE DEF e
<1>3. PICK h : Partial(h, e, E) /\ SumFunction(e) = h[E]
  BY <1>2, PartialExists
<1>4. g[D] = f[x] + g[E]
  BY <1>1, PartialSplit
<1> HIDE DEF E
<1>5. h[E] = g[E]
  BY <1>1, <1>2, <1>3, PartialAgree
<1>6. SumFunction(f) = f[x] + SumFunction(e)
  BY <1>1, <1>3, <1>4, <1>5
<1> QED
  BY <1>6 DEF e, E

LEMMA SumChange ==
    ASSUME NEW D, IsFiniteSet(D), NEW f \in [D -> Int], NEW x \in D, NEW e \in [D -> Int],
           \A y \in D \ {x} : e[y] = f[y]
    PROVE  SumFunction(e) = SumFunction(f) + (e[x] - f[x])
<1> DEFINE c == SumFunction(Without(f, x))
<1>1. Without(e, x) = Without(f, x)
  BY DEF Without
<1>2. c \in Int
  <2>1. IsFiniteSet(D \ {x}) /\ Without(f, x) \in [D \ {x} -> Int]
    BY FS_RemoveElement DEF Without
  <2> QED
    BY <2>1, SumType
<1>3. SumFunction(f) = f[x] + c
  BY SumSplit
<1>4. SumFunction(e) = e[x] + SumFunction(Without(e, x))
  BY SumSplit
<1>5. SumFunction(e) = e[x] + c
  BY <1>1, <1>4
<1>6. f[x] \in Int /\ e[x] \in Int
  OBVIOUS
<1> HIDE DEF c
<1> QED
  BY <1>2, <1>3, <1>5, <1>6

-----------------------------------------------------------------------------
(* The datagram server.                                                    *)
Bytes(s) == [i \in 1 .. Len(s) |-> Received(s[i])]

Reply == {Lost} \cup [from : Senders, size : Nat]

UdpInv ==
    /\ recv_queue \in Seq(Datagram) /\ delivered \in Seq(Datagram) /\ replies \in Seq(Reply)
    /\ udp_pc = "recv" => recv_queue # <<>>
    /\ EachAnswered

LEMMA ReceivedType == \A d \in Datagram : d.from \in Senders /\ Received(d) \in Nat
<1> SUFFICES ASSUME NEW d \in Datagram PROVE d.from \in Senders /\ Received(d) \in Nat
  OBVIOUS
<1>1. d.from \in Senders /\ d.size \in Nat /\ RecvLimit \in Nat
  BY UdpAssumption DEF Datagram
<1> QED
  BY <1>1 DEF Received

(* Another datagram adds its bytes to the sum.                             *)
LEMMA BytesAppend ==
    ASSUME NEW s \in Seq(Datagram), NEW d \in Datagram
    PROVE  SumFunction(Bytes(Append(s, d))) = SumFunction(Bytes(s)) + Received(d)
<1> USE UdpAssumption
<1> DEFINE n == Len(s)
           t == Append(s, d)
           b == Bytes(t)
<1>1. n \in Nat /\ Len(t) = n + 1 /\ t[n + 1] = d /\ \A i \in 1 .. n : t[i] = s[i]
  OBVIOUS
<1>2. \A x \in Datagram : Received(x) \in Int
  BY ReceivedType
<1>3. t \in Seq(Datagram)
  OBVIOUS
<1>4. s \in [1 .. n -> Datagram] /\ t \in [1 .. n + 1 -> Datagram]
  <2> HIDE DEF t
  <2>1. s \in [1 .. Len(s) -> Datagram] /\ t \in [1 .. Len(t) -> Datagram]
    BY <1>3
  <2> QED
    BY <1>1, <2>1
<1> HIDE DEF n, t
<1>5. b \in [1 .. n + 1 -> Int] /\ Bytes(s) \in [1 .. n -> Int]
  BY <1>1, <1>2, <1>4 DEF Bytes, n
<1>6. (1 .. n + 1) \ {n + 1} = 1 .. n /\ n + 1 \in 1 .. n + 1
  BY <1>1
<1>7. Without(b, n + 1) = Bytes(s) /\ b[n + 1] = Received(d)
  <2>1. \A i \in 1 .. n + 1 : b[i] = Received(t[i])
    BY <1>1 DEF Bytes
  <2>2. \A i \in 1 .. n : b[i] = Received(s[i])
    BY <1>1, <2>1
  <2>3. Bytes(s) = [i \in 1 .. n |-> Received(s[i])]
    BY DEF Bytes, n
  <2> HIDE DEF b
  <2>4. Without(b, n + 1) = [i \in 1 .. n |-> b[i]]
    BY <1>5, <1>6 DEF Without
  <2> QED
    BY <1>1, <2>1, <2>2, <2>3, <2>4
<1> HIDE DEF b
<1>8. IsFiniteSet(1 .. n) /\ IsFiniteSet(1 .. n + 1)
  BY <1>1, FS_Interval
<1>9. SumFunction(b) = b[n + 1] + SumFunction(Without(b, n + 1))
  BY <1>5, <1>6, <1>8, SumSplit
<1>10. SumFunction(b) = Received(d) + SumFunction(Bytes(s))
  BY <1>7, <1>9
<1>11. SumFunction(Bytes(s)) \in Int /\ Received(d) \in Int
  BY <1>2, <1>5, <1>8, SumType
<1> QED
  BY <1>10, <1>11 DEF b, t

LEMMA UdpStart == UdpInit => UdpInv
<1> SUFFICES ASSUME UdpInit PROVE UdpInv
  OBVIOUS
<1> USE UdpAssumption DEF UdpInit
<1>1. SumFunction([i \in 1 .. Len(delivered) |-> Received(delivered[i])]) = 0
  <2>1. 1 .. Len(delivered) = {}
    OBVIOUS
  <2>2. [i \in 1 .. Len(delivered) |-> Received(delivered[i])] \in [{} -> Int]
    BY <2>1
  <2> QED
    BY <2>2, FS_EmptySet, SumZero
<1> QED
  BY <1>1 DEF UdpInv, EachAnswered

LEMMA UdpStepKeeps == UdpInv /\ [UdpNext]_udp => UdpInv'
<1> SUFFICES ASSUME UdpInv, [UdpNext]_udp PROVE UdpInv'
  OBVIOUS
<1> USE UdpAssumption
<1>0. /\ total_bytes = SumFunction(Bytes(delivered)) /\ total_datagrams = Len(delivered)
      /\ recv_queue \in Seq(Datagram) /\ delivered \in Seq(Datagram) /\ replies \in Seq(Reply)
      /\ udp_pc = "recv" => recv_queue # <<>>
      /\ Len(replies) = IF udp_pc = "send" THEN Len(delivered) - 1 ELSE Len(delivered)
      /\ \A i \in 1 .. Len(replies) :
            replies[i] \in {Lost, [from |-> delivered[i].from, size |-> Received(delivered[i])]}
  BY DEF UdpInv, EachAnswered, Bytes
<1>1. ASSUME NEW d \in Datagram, Arrive(d) PROVE UdpInv'
  <2>1. recv_queue' \in Seq(Datagram) /\ (udp_pc = "recv" => recv_queue' # <<>>)
    BY <1>0, <1>1 DEF Arrive
  <2> QED
    BY <1>1, <2>1 DEF Arrive, UdpInv, EachAnswered
<1>2. ASSUME UdpWait \/ UdpWaitFails \/ RecvFromFails PROVE UdpInv'
  BY <1>2 DEF UdpWait, UdpWaitFails, RecvFromFails, UdpInv, EachAnswered
<1>3. ASSUME RecvFrom PROVE UdpInv'
  <2> DEFINE d == Head(recv_queue)
  <2>1. /\ d \in Datagram /\ delivered' = Append(delivered, d) /\ recv_queue' = Tail(recv_queue)
        /\ total_datagrams' = total_datagrams + 1 /\ total_bytes' = total_bytes + Received(d)
        /\ udp_pc = "recv" /\ udp_pc' = "send" /\ replies' = replies
    BY <1>0, <1>3 DEF RecvFrom
  <2>2. recv_queue' \in Seq(Datagram)
    BY <1>0, <2>1
  <2> HIDE DEF d
  <2>3. /\ delivered' \in Seq(Datagram) /\ Len(delivered') = Len(delivered) + 1
        /\ \A i \in 1 .. Len(delivered) : delivered'[i] = delivered[i]
    BY <1>0, <2>1
  <2>4. total_bytes' = SumFunction(Bytes(delivered'))
    BY <1>0, <2>1, BytesAppend
  <2>5. Len(replies) = Len(delivered) /\ Len(delivered) \in Nat
    BY <1>0, <2>1
  <2>6. \A i \in 1 .. Len(replies) :
            replies'[i] \in {Lost, [from |-> delivered'[i].from, size |-> Received(delivered'[i])]}
    <3>1. ASSUME NEW i \in 1 .. Len(replies)
          PROVE  replies'[i] \in {Lost, [from |-> delivered'[i].from, size |-> Received(delivered'[i])]}
      <4>1. delivered'[i] = delivered[i] /\ replies'[i] = replies[i]
        BY <2>1, <2>3, <2>5
      <4>2. replies[i] \in {Lost, [from |-> delivered[i].from, size |-> Received(delivered[i])]}
        BY <1>0
      <4> QED
        BY <4>1, <4>2
    <3> QED
      BY <3>1
  <2>7. total_datagrams' = Len(delivered') /\ Len(replies') = Len(delivered') - 1
    BY <1>0, <2>1, <2>3, <2>5
  <2>8. Len(replies') = Len(replies) /\ replies' \in Seq(Reply) /\ udp_pc' = "send"
    BY <1>0, <2>1
  <2> QED
    BY <2>2, <2>3, <2>4, <2>6, <2>7, <2>8 DEF UdpInv, EachAnswered, Bytes
<1>4. ASSUME SendTo \/ SendToFails PROVE UdpInv'
  <2> DEFINE d == delivered[Len(delivered)]
  <2>0. /\ udp_pc = "send" /\ udp_pc' = "wait"
        /\ UNCHANGED <<delivered, recv_queue, total_datagrams, total_bytes>>
    BY <1>4 DEF SendTo, SendToFails
  <2>1. Len(replies) \in Nat /\ Len(delivered) = Len(replies) + 1 /\ Len(delivered) \in 1 .. Len(delivered)
    <3>1. Len(replies) \in Nat /\ Len(delivered) \in Nat /\ Len(replies) = Len(delivered) - 1
      BY <1>0, <2>0
    <3> QED
      BY <3>1
  <2>2. d \in Datagram /\ d.from \in Senders /\ Received(d) \in Nat
    BY <1>0, <2>1, ReceivedType
  <2>3. PICK a \in Reply : replies' = Append(replies, a) /\ a \in {Lost, [from |-> d.from, size |-> Received(d)]}
    BY <1>4, <2>2 DEF SendTo, SendToFails, Reply
  <2>4. /\ replies' \in Seq(Reply) /\ Len(replies') = Len(replies) + 1
        /\ replies'[Len(replies) + 1] = a /\ \A i \in 1 .. Len(replies) : replies'[i] = replies[i]
    BY <1>0, <2>3
  <2>5. \A i \in 1 .. Len(replies') :
            replies'[i] \in {Lost, [from |-> delivered[i].from, size |-> Received(delivered[i])]}
    <3> SUFFICES ASSUME NEW i \in 1 .. Len(replies')
                 PROVE  replies'[i] \in {Lost, [from |-> delivered[i].from, size |-> Received(delivered[i])]}
      OBVIOUS
    <3>1. CASE i \in 1 .. Len(replies)
      BY <1>0, <2>4, <3>1
    <3>2. CASE i = Len(delivered)
      BY <2>1, <2>3, <2>4, <3>2
    <3> QED
      BY <2>1, <2>4, <3>1, <3>2
  <2> QED
    BY <1>0, <2>0, <2>1, <2>4, <2>5 DEF UdpInv, EachAnswered, Bytes
<1>5. ASSUME UNCHANGED udp PROVE UdpInv'
  BY <1>5 DEF UdpInv, EachAnswered, udp
<1> QED
  BY <1>1, <1>2, <1>3, <1>4, <1>5 DEF UdpNext, UdpStep

(* For every queue size, number of senders and of failing calls: every     *)
(* datagram that recvfrom took has one answer, to its own sender, and the  *)
(* totals count exactly the datagrams taken.                               *)
THEOREM DatagramsAnswered == UdpSpec => []EachAnswered
<1>1. UdpInv => EachAnswered
  BY DEF UdpInv
<1> QED
  BY <1>1, UdpStart, UdpStepKeeps, PTL DEF UdpSpec

-----------------------------------------------------------------------------
(* Telemetry.  Owed(c) is what the calls under way still have to add to    *)
(* counter c; only active_connections can go down.                         *)
Grows(c) == c # "active_connections"

Addends == UNION {[D -> Int] : D \in SUBSET Counter}

Owed(c) == [t \in Recorders |-> Pending(t, c)]

LEMMA LoadFacts ==
    /\ Len(Loads) = 9 /\ \A k \in 1 .. 9 : Loads[k] \in Counter
    /\ "active_connections" \in Counter
<1>1. Len(Loads) = 9
  BY DEF Loads
<1>2. DOMAIN Loads = 1 .. 9
  BY DEF Loads
<1>3. \A k \in 1 .. 9 : Loads[k] \in Counter
  BY <1>2 DEF Counter, Range
<1>4. Loads[6] = "active_connections"
  BY DEF Loads
<1> QED
  BY <1>1, <1>3, <1>4

LEMMA CallFacts ==
    ASSUME NEW call \in Calls
    PROVE  call \in Addends /\ \A c \in DOMAIN call : Grows(c) => call[c] >= 0
<1>1. {"packets_received", "packets_sent", "packets_dropped", "bytes_in", "bytes_out",
       "active_connections", "auth_failures", "total_latency_us", "latency_samples"} \subseteq Counter
  <2>1. /\ Loads[1] = "packets_received" /\ Loads[2] = "packets_sent" /\ Loads[3] = "packets_dropped"
        /\ Loads[4] = "bytes_in" /\ Loads[5] = "bytes_out" /\ Loads[6] = "active_connections"
        /\ Loads[7] = "auth_failures" /\ Loads[8] = "total_latency_us" /\ Loads[9] = "latency_samples"
    BY DEF Loads
  <2> QED
    BY <2>1, LoadFacts
<1> DEFINE Good == DOMAIN call \subseteq Counter /\ call \in [DOMAIN call -> Int]
                   /\ \A c \in DOMAIN call : Grows(c) => call[c] >= 0
<1>2. ASSUME NEW n \in Amounts, call = [packets_received |-> 1, bytes_in |-> n] PROVE Good
  BY <1>1, <1>2, TelemetryAssumption
<1>3. ASSUME NEW n \in Amounts, call = [packets_sent |-> 1, bytes_out |-> n] PROVE Good
  BY <1>1, <1>3, TelemetryAssumption
<1>4. ASSUME NEW n \in Amounts, call = [total_latency_us |-> n, latency_samples |-> 1] PROVE Good
  BY <1>1, <1>4, TelemetryAssumption
<1>5. ASSUME call = [packets_dropped |-> 1] PROVE Good
  BY <1>1, <1>5
<1>6. ASSUME call = [auth_failures |-> 1] PROVE Good
  BY <1>1, <1>6
<1>7. ASSUME call = [active_connections |-> 1] PROVE Good
  BY <1>1, <1>7
<1>8. ASSUME call = [active_connections |-> -1] PROVE Good
  BY <1>1, <1>8 DEF Grows
<1> DEFINE F(n) == {[packets_received |-> 1, bytes_in |-> n], [packets_sent |-> 1, bytes_out |-> n],
                    [total_latency_us |-> n, latency_samples |-> 1]}
           G == {[packets_dropped |-> 1], [auth_failures |-> 1],
                 [active_connections |-> 1], [active_connections |-> -1]}
<1> HIDE DEF Good
<1>9. call \in (UNION {F(n) : n \in Amounts}) \cup G
  BY DEF Calls
<1>10. ASSUME NEW n \in Amounts, call \in F(n) PROVE Good
  BY <1>2, <1>3, <1>4, <1>10
<1>11. ASSUME call \in G PROVE Good
  BY <1>5, <1>6, <1>7, <1>8, <1>11
<1> HIDE DEF F, G
<1>12. (\E n \in Amounts : call \in F(n)) \/ call \in G
  BY <1>9
<1> QED
  BY <1>10, <1>11, <1>12 DEF Addends, Good

(* The counters, apart from the snapshots.                                 *)
CountInv ==
    /\ counters \in [Counter -> Int] /\ asked \in [Counter -> Int]
    /\ adding \in [Recorders -> Addends]
    /\ \A t \in Recorders : \A c \in DOMAIN adding[t] : Grows(c) => adding[t][c] >= 0
    /\ \A c \in Counter : counters[c] = asked[c] - SumFunction(Owed(c))

(* Below the counters the snapshot under way, below that the last one.     *)
LastTotal(k) == snapshots[Len(snapshots)][k]

SnapshotInv ==
    /\ loaded \in Seq(Int) /\ Len(loaded) <= 9
    /\ snapshots \in Seq([1 .. 9 -> Int])
    /\ \A k \in 1 .. Len(loaded) : Grows(Loads[k]) => loaded[k] <= counters[Loads[k]]
    /\ \A k \in 1 .. 9 : Grows(Loads[k]) /\ snapshots # <<>> =>
          /\ LastTotal(k) <= counters[Loads[k]]
          /\ k <= Len(loaded) => LastTotal(k) <= loaded[k]
    /\ \A i \in 2 .. Len(snapshots), k \in 1 .. 9 :
          Grows(Loads[k]) => snapshots[i - 1][k] <= snapshots[i][k]

LEMMA AddendsType ==
    ASSUME NEW call \in Addends
    PROVE  /\ call = [c \in DOMAIN call |-> call[c]] /\ DOMAIN call \subseteq Counter
           /\ \A c \in DOMAIN call : call[c] \in Int
<1>1. PICK D \in SUBSET Counter : call \in [D -> Int]
  BY DEF Addends
<1> QED
  BY <1>1

LEMMA OwedType ==
    ASSUME CountInv, NEW c
    PROVE  Owed(c) \in [Recorders -> Int] /\ SumFunction(Owed(c)) \in Int
<1>1. ASSUME NEW t \in Recorders PROVE Pending(t, c) \in Int
  <2>1. adding[t] \in Addends
    BY DEF CountInv
  <2> QED
    BY <2>1, AddendsType DEF Pending
<1>2. Owed(c) \in [Recorders -> Int]
  BY <1>1 DEF Owed
<1> QED
  BY <1>2, SumType, TelemetryAssumption

(* One recorder's debt to one counter changes.                             *)
LEMMA OwedChange ==
    ASSUME CountInv, adding' \in [Recorders -> Addends], NEW t \in Recorders, NEW c,
           \A u \in Recorders \ {t} : adding'[u] = adding[u]
    PROVE  SumFunction(Owed(c))' = SumFunction(Owed(c)) + (Pending(t, c)' - Pending(t, c))
<1> DEFINE e == [u \in Recorders |-> Pending(u, c)']
<1>1. Owed(c)' = e
  BY DEF Owed
<1>2. ASSUME NEW u \in Recorders PROVE Pending(u, c)' \in Int
  <2>1. adding'[u] \in Addends
    OBVIOUS
  <2> QED
    BY <2>1, AddendsType DEF Pending
<1>3. e \in [Recorders -> Int]
  BY <1>2
<1>4. \A u \in Recorders \ {t} : e[u] = Owed(c)[u]
  BY DEF Owed, Pending
<1>5. e[t] = Pending(t, c)' /\ Owed(c)[t] = Pending(t, c)
  BY DEF Owed
<1>6. Owed(c) \in [Recorders -> Int]
  BY OwedType
<1> HIDE DEF e
<1>7. SumFunction(e) = SumFunction(Owed(c)) + (e[t] - Owed(c)[t])
  BY <1>3, <1>4, <1>6, SumChange, TelemetryAssumption
<1> QED
  BY <1>1, <1>5, <1>7

LEMMA CountStart == TelemetryInit => CountInv /\ SnapshotInv
<1> SUFFICES ASSUME TelemetryInit PROVE CountInv /\ SnapshotInv
  OBVIOUS
<1> USE DEF TelemetryInit
<1>1. Nothing \in Addends /\ DOMAIN Nothing = {}
  BY DEF Addends, Nothing
<1>2. \A c, t : t \in Recorders => Pending(t, c) = 0
  BY <1>1 DEF Pending
<1>3. ASSUME NEW c \in Counter PROVE SumFunction(Owed(c)) = 0
  <2>1. Owed(c) \in [Recorders -> Int] /\ \A t \in Recorders : Owed(c)[t] = 0
    BY <1>2 DEF Owed
  <2> QED
    BY <2>1, SumZero, TelemetryAssumption
<1>4. CountInv
  BY <1>1, <1>3 DEF CountInv
<1>5. SnapshotInv
  BY DEF SnapshotInv
<1> QED
  BY <1>4, <1>5

LEMMA CountStep == CountInv /\ [TelemetryNext]_telemetry => CountInv'
<1> SUFFICES ASSUME CountInv, [TelemetryNext]_telemetry PROVE CountInv'
  OBVIOUS
<1>0. /\ counters \in [Counter -> Int] /\ asked \in [Counter -> Int]
      /\ adding \in [Recorders -> Addends]
      /\ \A t \in Recorders : \A c \in DOMAIN adding[t] : Grows(c) => adding[t][c] >= 0
      /\ \A c \in Counter : counters[c] = asked[c] - SumFunction(Owed(c))
      /\ \A c \in Counter : SumFunction(Owed(c)) \in Int
  BY OwedType DEF CountInv
<1>1. ASSUME NEW t \in Recorders, BeginCall(t) PROVE CountInv'
  <2>1. PICK call \in Calls :
            /\ adding' = [adding EXCEPT ![t] = call]
            /\ asked' = [c \in Counter |-> asked[c] + (IF c \in DOMAIN call THEN call[c] ELSE 0)]
    BY <1>1 DEF BeginCall
  <2>2. call \in Addends /\ \A c \in DOMAIN call : call[c] \in Int /\ (Grows(c) => call[c] >= 0)
    BY CallFacts, AddendsType
  <2>3. adding[t] = Nothing /\ counters' = counters
    BY <1>1 DEF BeginCall
  <2>4. adding' \in [Recorders -> Addends] /\ adding'[t] = call
        /\ \A u \in Recorders \ {t} : adding'[u] = adding[u]
    BY <1>0, <2>1, <2>2
  <2>5. \A u \in Recorders : \A c \in DOMAIN adding'[u] : Grows(c) => adding'[u][c] >= 0
    BY <1>0, <2>2, <2>4
  <2>6. ASSUME NEW c \in Counter
        PROVE  asked'[c] \in Int /\ counters'[c] = asked'[c] - SumFunction(Owed(c)')
    <3> DEFINE a == IF c \in DOMAIN call THEN call[c] ELSE 0
    <3>1. a \in Int /\ asked'[c] = asked[c] + a
      BY <2>1, <2>2
    <3>2. Pending(t, c) = 0 /\ Pending(t, c)' = a
      BY <2>3, <2>4 DEF Pending, Nothing
    <3> HIDE DEF a
    <3>3. SumFunction(Owed(c)') = SumFunction(Owed(c)) + (a - 0)
      BY <2>4, <3>2, OwedChange
    <3>4. asked[c] \in Int /\ SumFunction(Owed(c)) \in Int /\ counters[c] = asked[c] - SumFunction(Owed(c))
      BY <1>0
    <3>5. counters'[c] = counters[c]
      BY <2>3
    <3> DEFINE owed == SumFunction(Owed(c))
               owes == SumFunction(Owed(c)')
    <3>6. owes = owed + (a - 0) /\ owed \in Int /\ counters[c] = asked[c] - owed
      BY <3>3, <3>4
    <3> HIDE DEF owed, owes
    <3>7. asked'[c] \in Int /\ counters'[c] = asked'[c] - owes
      BY <3>1, <3>4, <3>5, <3>6
    <3> QED
      BY <3>7 DEF owes
  <2>7. asked' \in [Counter -> Int]
    BY <2>1, <2>6
  <2> QED
    BY <1>0, <2>3, <2>4, <2>5, <2>6, <2>7 DEF CountInv
<1>2. ASSUME NEW t \in Recorders, NEW d \in Counter, fetch_add(t, d) PROVE CountInv'
  <2>1. /\ d \in DOMAIN adding[t] /\ asked' = asked
        /\ counters' = [counters EXCEPT ![d] = @ + adding[t][d]]
        /\ adding' = [adding EXCEPT ![t] = Restrict(adding[t], DOMAIN adding[t] \ {d})]
    BY <1>2 DEF fetch_add
  <2> DEFINE rest == Restrict(adding[t], DOMAIN adding[t] \ {d})
  <2>2. /\ DOMAIN adding[t] \subseteq Counter /\ adding[t][d] \in Int
        /\ \A c \in DOMAIN adding[t] : adding[t][c] \in Int
    BY <1>0, <2>1, AddendsType
  <2>3. DOMAIN rest = DOMAIN adding[t] \ {d} /\ \A c \in DOMAIN rest : rest[c] = adding[t][c]
    BY DEF Restrict
  <2>4. rest \in [DOMAIN adding[t] \ {d} -> Int]
    BY <2>2 DEF Restrict
  <2>5. rest \in Addends
    BY <2>2, <2>4 DEF Addends
  <2> HIDE DEF rest
  <2>6. adding' \in [Recorders -> Addends] /\ adding'[t] = rest
        /\ \A u \in Recorders \ {t} : adding'[u] = adding[u]
    BY <1>0, <2>1, <2>5 DEF rest
  <2>7. \A u \in Recorders : \A c \in DOMAIN adding'[u] : Grows(c) => adding'[u][c] >= 0
    <3> SUFFICES ASSUME NEW u \in Recorders, NEW c \in DOMAIN adding'[u], Grows(c)
                 PROVE  adding'[u][c] >= 0
      OBVIOUS
    <3>1. CASE u = t
      BY <1>0, <2>3, <2>6, <3>1
    <3>2. CASE u # t
      BY <1>0, <2>6, <3>2
    <3> QED
      BY <3>1, <3>2
  <2>8. counters' \in [Counter -> Int] /\ counters'[d] = counters[d] + adding[t][d]
        /\ \A c \in Counter \ {d} : counters'[c] = counters[c]
    BY <1>0, <2>1, <2>2
  <2>9. ASSUME NEW c \in Counter PROVE counters'[c] = asked'[c] - SumFunction(Owed(c)')
    <3>1. SumFunction(Owed(c)') = SumFunction(Owed(c)) + (Pending(t, c)' - Pending(t, c))
      BY <2>6, OwedChange
    <3>2. /\ asked[c] \in Int /\ counters[c] \in Int /\ SumFunction(Owed(c)) \in Int
          /\ counters[c] = asked[c] - SumFunction(Owed(c))
      BY <1>0
    <3>3. CASE c = d
      <4>1. Pending(t, c)' = 0 /\ Pending(t, c) = adding[t][d]
        BY <2>1, <2>3, <2>6, <3>3 DEF Pending
      <4> QED
        BY <2>1, <2>2, <2>8, <3>1, <3>2, <3>3, <4>1
    <3>4. CASE c # d
      <4>1. Pending(t, c)' = Pending(t, c) /\ Pending(t, c) \in Int
        BY <2>2, <2>3, <2>6, <3>4 DEF Pending
      <4> QED
        BY <2>1, <2>8, <3>1, <3>2, <3>4, <4>1
    <3> QED
      BY <3>3, <3>4
  <2> QED
    BY <1>0, <2>1, <2>6, <2>7, <2>8, <2>9 DEF CountInv
<1>3. ASSUME NEW t \in Recorders, NEW n \in Amounts, set_active_connections(t, n) PROVE CountInv'
  <2> DEFINE d == "active_connections"
  <2>1. /\ asked' = [asked EXCEPT ![d] = n + @ - counters[d]] /\ counters' = [counters EXCEPT ![d] = n]
        /\ adding' = adding
    BY <1>3 DEF set_active_connections
  <2>2. d \in Counter /\ n \in Int
    BY LoadFacts, TelemetryAssumption
  <2> HIDE DEF d
  <2>3. /\ asked'[d] = n + asked[d] - counters[d] /\ counters'[d] = n
        /\ \A c \in Counter \ {d} : asked'[c] = asked[c] /\ counters'[c] = counters[c]
        /\ asked' \in [Counter -> Int] /\ counters' \in [Counter -> Int]
    BY <1>0, <2>1, <2>2
  <2>4. \A c \in Counter : Owed(c)' = Owed(c)
    BY <2>1 DEF Owed, Pending
  <2>5. ASSUME NEW c \in Counter PROVE counters'[c] = asked'[c] - SumFunction(Owed(c)')
    <3>1. /\ asked[c] \in Int /\ counters[c] \in Int /\ SumFunction(Owed(c)) \in Int
          /\ counters[c] = asked[c] - SumFunction(Owed(c)) /\ Owed(c)' = Owed(c)
      BY <1>0, <2>4
    <3>2. CASE c = d
      BY <2>2, <2>3, <3>1, <3>2
    <3>3. CASE c # d
      BY <2>3, <3>1, <3>3
    <3> QED
      BY <3>2, <3>3
  <2> QED
    BY <1>0, <2>1, <2>3, <2>5 DEF CountInv
<1>4. ASSUME UNCHANGED <<counters, asked, adding>> PROVE CountInv'
  BY <1>4 DEF CountInv, Owed, Pending
<1> QED
  BY <1>1, <1>2, <1>3, <1>4 DEF TelemetryNext, Load, ReturnSnapshot, telemetry

(* No step takes anything away from a counter other than                   *)
(* active_connections.                                                     *)
LEMMA CountersGrow ==
    ASSUME CountInv, [TelemetryNext]_telemetry, NEW c \in Counter, Grows(c)
    PROVE  counters[c] \in Int /\ counters'[c] \in Int /\ counters[c] <= counters'[c]
<1>0. counters[c] \in Int /\ counters \in [Counter -> Int]
  BY DEF CountInv
<1>1. ASSUME NEW t \in Recorders, NEW d \in Counter, fetch_add(t, d)
      PROVE  counters'[c] \in Int /\ counters[c] <= counters'[c]
  <2>1. d \in DOMAIN adding[t] /\ counters' = [counters EXCEPT ![d] = @ + adding[t][d]]
    BY <1>1 DEF fetch_add
  <2>2. adding[t][d] \in Int /\ (Grows(d) => adding[t][d] >= 0)
    BY <2>1, AddendsType DEF CountInv
  <2>3. CASE c = d
    <3>1. counters'[c] = counters[c] + adding[t][c] /\ adding[t][c] \in Int /\ adding[t][c] >= 0
      BY <1>0, <2>1, <2>2, <2>3
    <3> QED
      BY <1>0, <3>1
  <2>4. CASE c # d
    BY <1>0, <2>1, <2>4
  <2> QED
    BY <2>3, <2>4
<1>2. ASSUME NEW t \in Recorders, NEW n \in Amounts, set_active_connections(t, n)
      PROVE  counters'[c] = counters[c]
  BY <1>0, <1>2 DEF set_active_connections, Grows
<1>3. ASSUME \/ \E t \in Recorders : BeginCall(t)
             \/ Load \/ ReturnSnapshot \/ UNCHANGED telemetry
      PROVE  counters'[c] = counters[c]
  BY <1>3 DEF BeginCall, Load, ReturnSnapshot, telemetry
<1> QED
  BY <1>0, <1>1, <1>2, <1>3 DEF TelemetryNext

LEMMA SnapshotStep == CountInv /\ SnapshotInv /\ [TelemetryNext]_telemetry => SnapshotInv'
<1> SUFFICES ASSUME CountInv, SnapshotInv, [TelemetryNext]_telemetry PROVE SnapshotInv'
  OBVIOUS
<1> DEFINE G == {k \in 1 .. 9 : Grows(Loads[k])}
           m == Len(loaded)
           n == Len(snapshots)
<1>a. loaded \in Seq(Int) /\ snapshots \in Seq([1 .. 9 -> Int]) /\ m <= 9
  BY DEF SnapshotInv
<1>b. m \in 0 .. 9 /\ n \in Nat
  <2>1. m \in Nat /\ n \in Nat
    BY <1>a
  <2> HIDE DEF m, n
  <2> QED
    BY <1>a, <2>1
<1>c. \A k \in G : k \in 1 .. m => loaded[k] <= counters[Loads[k]]
  BY DEF SnapshotInv
<1>d. \A k \in G : snapshots # <<>> => LastTotal(k) <= counters[Loads[k]]
  BY DEF SnapshotInv
<1>e. \A k \in G : snapshots # <<>> /\ k <= m => LastTotal(k) <= loaded[k]
  BY DEF SnapshotInv
<1>f. \A i \in 2 .. n, k \in G : snapshots[i - 1][k] <= snapshots[i][k]
  BY DEF SnapshotInv
<1>g. \A k \in 1 .. m : loaded[k] \in Int
  BY <1>a, <1>b
<1>h. snapshots # <<>> => n \in 1 .. n /\ \A k \in 1 .. 9 : LastTotal(k) \in Int
  <2>1. snapshots # <<>> => n \in 1 .. n
    BY <1>a
  <2>2. snapshots # <<>> => snapshots[n] \in [1 .. 9 -> Int]
    BY <1>a, <2>1
  <2> QED
    BY <2>1, <2>2 DEF LastTotal
<1>i. \A k \in G : /\ k \in 1 .. 9 /\ Loads[k] \in Counter
                   /\ counters[Loads[k]] \in Int /\ counters'[Loads[k]] \in Int
                   /\ counters[Loads[k]] <= counters'[Loads[k]]
  BY LoadFacts, CountersGrow
<1> HIDE DEF G
(* It is enough to show the conjuncts for the counters that grow.          *)
<1>j. ASSUME loaded' \in Seq(Int), Len(loaded') <= 9, snapshots' \in Seq([1 .. 9 -> Int]),
             \A k \in G : k \in 1 .. Len(loaded') => loaded'[k] <= counters'[Loads[k]],
             \A k \in G : snapshots' # <<>> => LastTotal(k)' <= counters'[Loads[k]],
             \A k \in G : snapshots' # <<>> /\ k <= Len(loaded') => LastTotal(k)' <= loaded'[k],
             \A i \in 2 .. Len(snapshots'), k \in G : snapshots'[i - 1][k] <= snapshots'[i][k]
      PROVE  SnapshotInv'
  <2>1. Len(loaded') \in Nat
    BY <1>j
  <2>2. \A k \in 1 .. Len(loaded') : k \in 1 .. 9
    BY <1>j, <2>1
  <2>3. \A k \in 1 .. Len(loaded') : Grows(Loads[k]) => loaded'[k] <= counters'[Loads[k]]
    BY <1>j, <2>2 DEF G
  <2>4. \A k \in 1 .. 9 : Grows(Loads[k]) => k \in G
    BY DEF G
  <2> QED
    BY <1>j, <2>3, <2>4 DEF SnapshotInv
<1>4. CASE UNCHANGED <<loaded, snapshots>>
  <2>1. \A k : LastTotal(k)' = LastTotal(k)
    BY <1>4 DEF LastTotal
  <2>2. \A k \in G : k \in 1 .. m => loaded[k] <= counters'[Loads[k]]
    BY <1>c, <1>g, <1>i
  <2>3. \A k \in G : snapshots # <<>> => LastTotal(k) <= counters'[Loads[k]]
    <3> SUFFICES ASSUME NEW k \in G, snapshots # <<>> PROVE LastTotal(k) <= counters'[Loads[k]]
      OBVIOUS
    <3>1. LastTotal(k) <= counters[Loads[k]] /\ LastTotal(k) \in Int
      BY <1>d, <1>h, <1>i
    <3>2. counters[Loads[k]] \in Int /\ counters'[Loads[k]] \in Int /\ counters[Loads[k]] <= counters'[Loads[k]]
      BY <1>i
    <3> QED
      BY <3>1, <3>2
  <2> QED
    BY <1>4, <1>a, <1>e, <1>f, <1>j, <2>1, <2>2, <2>3
<1>5. CASE Load
  <2> DEFINE v == counters[Loads[m + 1]]
  <2>1. m \in 0 .. 8 /\ loaded' = Append(loaded, v) /\ snapshots' = snapshots /\ counters' = counters
    <3>1. m < 9
      BY <1>5, LoadFacts DEF Load
    <3>2. loaded' = Append(loaded, v) /\ snapshots' = snapshots /\ counters' = counters
      BY <1>5 DEF Load
    <3> HIDE DEF m, v
    <3> QED
      BY <1>b, <3>1, <3>2
  <2>2. v \in Int
    <3> HIDE DEF m
    <3>1. m + 1 \in 1 .. 9
      BY <2>1
    <3>2. Loads[m + 1] \in Counter
      BY <3>1, LoadFacts
    <3> QED
      BY <3>2 DEF CountInv
  <2> HIDE DEF v
  <2>3. /\ loaded' \in Seq(Int) /\ Len(loaded') = m + 1 /\ loaded'[m + 1] = v
        /\ \A k \in 1 .. m : loaded'[k] = loaded[k]
    BY <1>a, <2>1, <2>2
  <2>4. \A k : LastTotal(k)' = LastTotal(k)
    BY <2>1 DEF LastTotal
  <2> HIDE DEF m
  <2>5. \A k \in G : k \in 1 .. m + 1 => loaded'[k] <= counters[Loads[k]]
    <3> SUFFICES ASSUME NEW k \in G, k \in 1 .. m + 1 PROVE loaded'[k] <= counters[Loads[k]]
      OBVIOUS
    <3>1. CASE k = m + 1
      BY <2>2, <2>3, <3>1 DEF v
    <3>2. CASE k # m + 1
      <4>1. k \in 1 .. m
        BY <2>1, <3>2
      <4> QED
        BY <1>c, <2>3, <4>1
    <3> QED
      BY <3>1, <3>2
  <2>6. \A k \in G : snapshots # <<>> /\ k <= m + 1 => LastTotal(k) <= loaded'[k]
    <3> SUFFICES ASSUME NEW k \in G, k <= m + 1, snapshots # <<>> PROVE LastTotal(k) <= loaded'[k]
      OBVIOUS
    <3>1. CASE k = m + 1
      <4>1. loaded'[k] = counters[Loads[k]]
        BY <2>3, <3>1 DEF v
      <4> QED
        BY <1>d, <4>1
    <3>2. CASE k # m + 1
      <4>1. k \in 1 .. m /\ k <= m
        BY <1>i, <2>1, <3>2
      <4> QED
        BY <1>e, <2>3, <4>1
    <3> QED
      BY <3>1, <3>2
  <2>7. m + 1 <= 9
    BY <2>1
  <2> QED
    BY <1>a, <1>d, <1>f, <1>j, <2>1, <2>3, <2>4, <2>5, <2>6, <2>7
<1>6. CASE ReturnSnapshot
  <2>1. m = 9 /\ snapshots' = Append(snapshots, loaded) /\ loaded' = <<>> /\ counters' = counters
    BY <1>6, LoadFacts DEF ReturnSnapshot
  <2>2. loaded \in [1 .. 9 -> Int]
    <3>1. loaded \in [1 .. m -> Int]
      BY <1>a
    <3> QED
      BY <2>1, <3>1
  <2>3. /\ snapshots' \in Seq([1 .. 9 -> Int]) /\ Len(snapshots') = n + 1 /\ snapshots'[n + 1] = loaded
        /\ \A i \in 1 .. n : snapshots'[i] = snapshots[i]
    <3> DEFINE T == [1 .. 9 -> Int]
    <3>1. snapshots \in Seq(T) /\ loaded \in T
      BY <1>a, <2>2
    <3> HIDE DEF T
    <3>2. /\ snapshots' \in Seq(T) /\ Len(snapshots') = n + 1 /\ snapshots'[n + 1] = loaded
          /\ \A i \in 1 .. n : snapshots'[i] = snapshots[i]
      BY <2>1, <3>1
    <3> QED
      BY <3>2 DEF T
  <2>4. \A k : LastTotal(k)' = loaded[k]
    BY <1>b, <2>3 DEF LastTotal
  <2>5. \A i \in 2 .. n + 1, k \in G : snapshots'[i - 1][k] <= snapshots'[i][k]
    <3> SUFFICES ASSUME NEW i \in 2 .. n + 1, NEW k \in G
                 PROVE  snapshots'[i - 1][k] <= snapshots'[i][k]
      OBVIOUS
    <3>1. CASE i = n + 1
      <4>1. n >= 1 /\ n \in 1 .. n /\ i - 1 = n
        BY <1>b, <3>1
      <4>2. snapshots # <<>>
        BY <1>a, <4>1
      <4>3. LastTotal(k) <= loaded[k]
        BY <1>e, <1>i, <2>1, <4>2
      <4>4. snapshots'[i - 1][k] = LastTotal(k) /\ snapshots'[i][k] = loaded[k]
        BY <2>3, <3>1, <4>1 DEF LastTotal
      <4> QED
        BY <4>3, <4>4
    <3>2. CASE i # n + 1
      <4>1. i \in 2 .. n /\ i - 1 \in 1 .. n /\ i \in 1 .. n
        BY <1>b, <3>2
      <4>2. snapshots'[i - 1] = snapshots[i - 1] /\ snapshots'[i] = snapshots[i]
        BY <2>3, <4>1
      <4> QED
        BY <1>f, <4>1, <4>2
    <3> QED
      BY <3>1, <3>2
  <2>6. \A k \in G : loaded[k] <= counters'[Loads[k]]
    BY <1>c, <1>i, <2>1
  <2>7. loaded' \in Seq(Int) /\ Len(loaded') = 0
    BY <2>1
  <2>8. \A k \in G : ~ (k <= 0) /\ ~ (k \in 1 .. 0)
    BY <1>i
  <2>9. /\ \A k \in G : k \in 1 .. Len(loaded') => loaded'[k] <= counters'[Loads[k]]
        /\ \A k \in G : snapshots' # <<>> /\ k <= Len(loaded') => LastTotal(k)' <= loaded'[k]
        /\ Len(loaded') <= 9
    BY <2>7, <2>8
  <2>10. /\ \A k \in G : snapshots' # <<>> => LastTotal(k)' <= counters'[Loads[k]]
         /\ \A i \in 2 .. Len(snapshots'), k \in G : snapshots'[i - 1][k] <= snapshots'[i][k]
    BY <2>3, <2>4, <2>5, <2>6
  <2> HIDE DEF n, m
  <2> QED
    BY <1>j, <2>3, <2>7, <2>9, <2>10
<1> QED
  BY <1>4, <1>5, <1>6 DEF TelemetryNext, BeginCall, fetch_add, set_active_connections, telemetry

(* For every set of recorders and every interleaving of their additions    *)
(* and of the loads of take_snapshot: a counter is what the calls asked    *)
(* for less what they have still to add, and no total goes down from one   *)
(* snapshot to the next.                                                   *)
THEOREM CallsAccounted == TelemetrySpec => []NoCallLost
<1>1. CountInv /\ SnapshotInv => NoCallLost
  <2> SUFFICES ASSUME CountInv, SnapshotInv PROVE NoCallLost
    OBVIOUS
  <2>1. \A c \in Counter : counters[c] = asked[c] - SumFunction([t \in Recorders |-> Pending(t, c)])
    BY DEF CountInv, Owed
  <2>2. \A i \in 2 .. Len(snapshots), k \in 1 .. 9 :
            Loads[k] # "active_connections" => snapshots[i - 1][k] <= snapshots[i][k]
    BY DEF SnapshotInv, Grows
  <2> QED
    BY <2>1, <2>2, LoadFacts DEF NoCallLost
<1> QED
  BY <1>1, CountStart, CountStep, SnapshotStep, PTL DEF TelemetrySpec
=============================================================================
