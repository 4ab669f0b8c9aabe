----------------------------- MODULE DataProofs -----------------------------
(***************************************************************************)
(* What TLAPS proves about the components whose correctness rests on a     *)
(* recursive computation: the walk through the routing trie and the length *)
(* field of the binary protocol.  The provers have no induction of their   *)
(* own; it is taken from the least counterexample.  A recursive function   *)
(* is shown to exist before it is unfolded.                                *)
(***************************************************************************)
EXTENDS RouteTable, Packet, SequenceTheorems, WellFoundedInduction, TLAPS

(* A set of naturals that is not empty has a least element.                *)
LEMMA Least ==
    ASSUME NEW T, T \subseteq Nat, T # {}
    PROVE  \E x \in T : \A y \in T : ~ (y < x)
<1>1. IsWellFoundedOn(OpToRel(<, Nat), Nat)
  BY NatLessThanWellFounded
<1>2. \E x \in T : \A y \in T : ~ (<<y, x>> \in OpToRel(<, Nat))
  BY <1>1, WFMin
<1>3. \A x, y \in Nat : y < x => <<y, x>> \in OpToRel(<, Nat)
  BY DEF OpToRel
<1> QED
  BY <1>2, <1>3

(* A set with 0 and with the successor of each of its members below n      *)
(* contains all numbers up to n.                                           *)
LEMMA Induction ==
    ASSUME NEW S, NEW n \in Nat, 0 \in S, \A i \in 0 .. n - 1 : i \in S => i + 1 \in S
    PROVE  \A i \in 0 .. n : i \in S
<1> SUFFICES ASSUME NEW i \in 0 .. n, i \notin S PROVE FALSE
  OBVIOUS
<1> DEFINE T == {j \in 0 .. n : j \notin S}
<1>1. T \subseteq Nat /\ T # {}
  OBVIOUS
<1>2. PICK x \in T : \A y \in T : ~ (y < x)
  BY <1>1, Least
<1>3. x # 0 /\ x \in 1 .. n
  BY <1>2
<1>4. x - 1 \in 0 .. n - 1 /\ x - 1 \in S
  BY <1>2, <1>3
<1>5. (x - 1) + 1 \in S
  BY <1>4
<1> QED
  BY <1>2, <1>3, <1>5

(* A function can be defined by what it starts with and how it goes on.    *)
Iterates(g, X, n, b, F) ==
    g \in [0 .. n -> X] /\ g[0] = b /\ \A i \in 1 .. n : g[i] = F[i][g[i - 1]]

LEMMA Iteration ==
    ASSUME NEW X, NEW n \in Nat, NEW b \in X, NEW F \in [1 .. n -> [X -> X]]
    PROVE  \E g : Iterates(g, X, n, b, F)
<1> DEFINE Upto(g, k) == Iterates(g, X, k, b, F)
           S == {k \in 0 .. n : \E g : Upto(g, k)}
<1> USE DEF Iterates
<1>1. 0 \in S
  <2>1. Upto([i \in 0 .. 0 |-> b], 0)
    OBVIOUS
  <2>2. 0 \in 0 .. n
    OBVIOUS
  <2> HIDE DEF Upto
  <2> QED
    BY <2>1, <2>2
<1>2. ASSUME NEW k \in 0 .. n - 1, k \in S PROVE k + 1 \in S
  <2>1. PICK g : Upto(g, k)
    BY <1>2
  <2> DEFINE h == [i \in 0 .. k + 1 |-> IF i = k + 1 THEN F[k + 1][g[k]] ELSE g[i]]
  <2>2. g[k] \in X /\ k + 1 \in 1 .. n
    BY <2>1
  <2>3. F[k + 1][g[k]] \in X
    BY <2>2
  <2>4. h \in [0 .. k + 1 -> X] /\ h[0] = b
    BY <2>1, <2>3
  <2>5. h[k + 1] = F[k + 1][g[k]] /\ \A i \in 0 .. k : h[i] = g[i]
    OBVIOUS
  <2> HIDE DEF h
  <2>6. ASSUME NEW i \in 1 .. k + 1 PROVE h[i] = F[i][h[i - 1]]
    <3>1. CASE i = k + 1
      BY <2>5, <3>1
    <3>2. CASE i # k + 1
      <4>1. i \in 1 .. k /\ i \in 0 .. k /\ i - 1 \in 0 .. k
        BY <3>2
      <4> QED
        BY <2>1, <2>5, <4>1
    <3> QED
      BY <3>1, <3>2
  <2>7. Upto(h, k + 1) /\ k + 1 \in 0 .. n
    BY <2>4, <2>6
  <2> HIDE DEF Upto
  <2> QED
    BY <2>7
<1>3. \A k \in 0 .. n : k \in S
  <2> HIDE DEF S
  <2> QED
    BY <1>1, <1>2, Induction
<1> QED
  BY <1>3 DEF S

-----------------------------------------------------------------------------
(* The routing table.  NodeAt(ip, k) is the node after k bits of ip.        *)
NodeAt(ip, k) == [j \in 1 .. k |-> ip[j]]

LEMMA NodeFacts ==
    ASSUME NEW ip \in Addresses, NEW k \in 0 .. Width
    PROVE  /\ NodeAt(ip, k) \in Bits(k) /\ NodeAt(ip, k) # NoRoute
           /\ SubSeq(ip, 1, k) = NodeAt(ip, k)
           /\ k < Width => Append(NodeAt(ip, k), ip[k + 1]) = NodeAt(ip, k + 1)
           /\ NodeAt(ip, 0) = <<>>
<1> USE RouteTableAssumption
<1>1. NodeAt(ip, k) \in Bits(k) /\ NodeAt(ip, k) \in Seq({0, 1}) /\ Len(NodeAt(ip, k)) = k
  BY DEF NodeAt, Bits, Addresses
<1>2. ip \in Seq({0, 1}) /\ Len(ip) = Width
  BY DEF Bits, Addresses
<1>3. SubSeq(ip, 1, k) = NodeAt(ip, k)
  BY <1>2 DEF NodeAt
<1>4. ASSUME k < Width PROVE Append(NodeAt(ip, k), ip[k + 1]) = NodeAt(ip, k + 1)
  <2>1. ip[k + 1] \in {0, 1}
    BY <1>4 DEF Bits, Addresses
  <2>2. /\ Append(NodeAt(ip, k), ip[k + 1]) \in Seq({0, 1})
        /\ Len(Append(NodeAt(ip, k), ip[k + 1])) = k + 1
        /\ \A j \in 1 .. k + 1 :
              Append(NodeAt(ip, k), ip[k + 1])[j] = IF j = k + 1 THEN ip[k + 1] ELSE NodeAt(ip, k)[j]
    BY <1>1, <2>1
  <2>3. \A j \in 1 .. k : NodeAt(ip, k)[j] = ip[j]
    BY DEF NodeAt
  <2> QED
    BY <2>2, <2>3 DEF NodeAt
<1>5. NodeAt(ip, k) # NoRoute
  BY <1>1
<1>6. NodeAt(ip, 0) = <<>>
  BY DEF NodeAt
<1> QED
  BY <1>1, <1>3, <1>4, <1>5, <1>6

(* Nodes at different depths differ, and a node has one node at each depth *)
(* above it.                                                               *)
LEMMA NodeEqual ==
    ASSUME NEW ip \in Addresses, NEW jp \in Addresses, NEW k \in 0 .. Width, NEW l \in 0 .. Width,
           NodeAt(ip, k) = NodeAt(jp, l)
    PROVE  k = l /\ \A i \in 0 .. k : NodeAt(ip, i) = NodeAt(jp, i)
<1> USE RouteTableAssumption
<1>1. 1 .. k = 1 .. l
  BY DEF NodeAt
<1>2. k = l
  BY <1>1
<1>3. \A j \in 1 .. k : ip[j] = jp[j]
  BY <1>2 DEF NodeAt
<1> QED
  BY <1>2, <1>3 DEF NodeAt

(* Route::matches compares the masked address, the trie the first bits.    *)
LEMMA MatchesNode ==
    ASSUME NEW r \in Route, Masked(r.network, r.prefix_len) = r.network, NEW dest \in Addresses
    PROVE  matches(r, dest) <=> NodeAt(r.network, r.prefix_len) = NodeAt(dest, r.prefix_len)
<1> USE RouteTableAssumption
<1> DEFINE k == r.prefix_len
           net == r.network
<1>1. k \in 0 .. Width /\ net \in [1 .. Width -> {0, 1}] /\ dest \in [1 .. Width -> {0, 1}]
  BY DEF Route, Addresses, Bits
<1>2. net = [i \in 1 .. Width |-> IF i <= k THEN net[i] ELSE 0]
  BY DEF Masked
<1>3. matches(r, dest) <=> [i \in 1 .. Width |-> IF i <= k THEN dest[i] ELSE 0] = net
  BY DEF matches, Masked
<1>4. NodeAt(net, k) = NodeAt(dest, k) <=> \A i \in 1 .. k : net[i] = dest[i]
  BY <1>1 DEF NodeAt
<1> HIDE DEF net, k
<1>5. ASSUME [i \in 1 .. Width |-> IF i <= k THEN dest[i] ELSE 0] = net
      PROVE  \A i \in 1 .. k : net[i] = dest[i]
  BY <1>1, <1>5
<1>6. ASSUME \A i \in 1 .. k : net[i] = dest[i]
      PROVE  [i \in 1 .. Width |-> IF i <= k THEN dest[i] ELSE 0] = net
  <2>1. \A i \in 1 .. Width : i <= k => i \in 1 .. k
    BY <1>1
  <2>2. \A i \in 1 .. Width : (IF i <= k THEN dest[i] ELSE 0) = (IF i <= k THEN net[i] ELSE 0)
    BY <1>6, <2>1
  <2> QED
    BY <1>2, <2>2
<1> QED
  BY <1>3, <1>4, <1>5, <1>6 DEF net, k

(* The inductive invariant: the nodes on the way to each route that was    *)
(* asked for exist, its last node holds it, and no node holds another one. *)
RoutingInv ==
    /\ added \subseteq Route
    /\ <<>> \in DOMAIN trie
    /\ \A node \in DOMAIN trie :
          trie[node] # NoRoute => trie[node] \in added /\ Endpoint(trie[node]) = node
    /\ \A r \in added :
          /\ Masked(r.network, r.prefix_len) = r.network
          /\ \A l \in 0 .. r.prefix_len : NodeAt(r.network, l) \in DOMAIN trie
          /\ trie[Endpoint(r)] = r

LEMMA RoutingStep ==
    ASSUME RoutingInv, [RoutingNext]_routing
    PROVE  RoutingInv'
<1> USE RouteTableAssumption
<1>1. CASE UNCHANGED routing
  BY <1>1 DEF routing, RoutingInv
<1>2. ASSUME NEW ip \in Addresses, NEW k \in 0 .. Width, NEW hop \in NextHops, add_route(ip, k, hop)
      PROVE  RoutingInv'
  <2> DEFINE net == Masked(ip, k)
             r == [network |-> net, prefix_len |-> k, next_hop |-> hop]
             nodes == DOMAIN trie \cup Prefixes(Endpoint(r))
  <2>1. /\ trie' = [node \in nodes |-> IF node = Endpoint(r) THEN r ELSE RouteAt(node)]
        /\ added' = {a \in added : Endpoint(a) # Endpoint(r)} \cup {r}
    BY <1>2 DEF add_route, Insert
  <2>2. net \in Addresses /\ Masked(net, k) = net
    BY DEF Masked, Addresses, Bits
  <2>3. r \in Route /\ r # NoRoute /\ r.network = net /\ r.prefix_len = k
    BY <2>2 DEF Route
  <2>4. Endpoint(r) = NodeAt(net, k)
    BY <2>2, <2>3, NodeFacts DEF Endpoint
  <2>5. Prefixes(Endpoint(r)) = {NodeAt(net, l) : l \in 0 .. k}
    <3>1. Endpoint(r) \in Seq({0, 1}) /\ Len(Endpoint(r)) = k
      BY <2>2, <2>4, NodeFacts DEF Bits
    <3>2. \A l \in 0 .. k : SubSeq(Endpoint(r), 1, l) = NodeAt(net, l)
      <4> SUFFICES ASSUME NEW l \in 0 .. k PROVE SubSeq(Endpoint(r), 1, l) = NodeAt(net, l)
        OBVIOUS
      <4>1. \A j \in 1 .. k : Endpoint(r)[j] = net[j]
        BY <2>4 DEF NodeAt
      <4>2. SubSeq(Endpoint(r), 1, l) = [j \in 1 .. l |-> Endpoint(r)[j]]
        BY <3>1
      <4> QED
        BY <4>1, <4>2 DEF NodeAt
    <3> QED
      BY <3>1, <3>2 DEF Prefixes
  <2>6. Endpoint(r) \in nodes /\ DOMAIN trie' = nodes /\ trie'[Endpoint(r)] = r
    <3>1. NodeAt(net, k) \in {NodeAt(net, l) : l \in 0 .. k}
      OBVIOUS
    <3> QED
      BY <2>1, <2>4, <2>5, <3>1
  <2> HIDE DEF net, r, nodes
  <2>7. \A node \in nodes : node # Endpoint(r) => trie'[node] = RouteAt(node)
    BY <2>1
  <2>8. added' \subseteq Route
    BY <2>1, <2>3 DEF RoutingInv
  <2>9. <<>> \in DOMAIN trie'
    BY <2>6 DEF RoutingInv, nodes
  <2>10. ASSUME NEW node \in DOMAIN trie', trie'[node] # NoRoute
         PROVE  trie'[node] \in added' /\ Endpoint(trie'[node]) = node
    <3>1. CASE node = Endpoint(r)
      BY <2>1, <2>6, <3>1
    <3>2. CASE node # Endpoint(r)
      <4>1. trie'[node] = RouteAt(node)
        BY <2>6, <2>7, <2>10, <3>2
      <4>2. node \in DOMAIN trie /\ trie'[node] = trie[node]
        BY <2>10, <4>1 DEF RouteAt
      <4>3. trie[node] \in added /\ Endpoint(trie[node]) = node
        BY <2>10, <4>2 DEF RoutingInv
      <4> QED
        BY <2>1, <3>2, <4>2, <4>3
    <3> QED
      BY <3>1, <3>2
  <2>11. ASSUME NEW a \in added'
         PROVE  /\ Masked(a.network, a.prefix_len) = a.network
                /\ \A l \in 0 .. a.prefix_len : NodeAt(a.network, l) \in DOMAIN trie'
                /\ trie'[Endpoint(a)] = a
    <3>1. CASE a = r
      <4>1. \A l \in 0 .. k : NodeAt(net, l) \in nodes
        BY <2>5 DEF nodes
      <4> QED
        BY <2>2, <2>3, <2>6, <3>1, <4>1
    <3>2. CASE a # r
      <4>1. a \in added /\ Endpoint(a) # Endpoint(r)
        BY <2>1, <2>11, <3>2
      <4>2. /\ Masked(a.network, a.prefix_len) = a.network
            /\ \A l \in 0 .. a.prefix_len : NodeAt(a.network, l) \in DOMAIN trie
            /\ trie[Endpoint(a)] = a
        BY <4>1 DEF RoutingInv
      <4>3. Endpoint(a) \in DOMAIN trie
        <5>1. a.network \in Addresses /\ a.prefix_len \in 0 .. Width
          BY <4>1 DEF RoutingInv, Route
        <5>2. Endpoint(a) = NodeAt(a.network, a.prefix_len) /\ a.prefix_len \in 0 .. a.prefix_len
          BY <5>1, NodeFacts DEF Endpoint
        <5> QED
          BY <4>2, <5>2
      <4>4. trie'[Endpoint(a)] = a
        BY <2>7, <4>1, <4>2, <4>3 DEF RouteAt, nodes
      <4> QED
        BY <2>6, <4>2, <4>4 DEF nodes
    <3> QED
      BY <3>1, <3>2
  <2> QED
    BY <2>8, <2>9, <2>10, <2>11 DEF RoutingInv
<1> QED
  BY <1>1, <1>2 DEF RoutingNext

(* The rounds of lookup_ip exist: each is computed from the one before.    *)
LEMMA RoundsExist ==
    ASSUME NEW dest
    PROVE  Rounds(dest) = [i \in 0 .. Width |->
               IF i = 0 THEN [node |-> <<>>, best_match |-> NoRoute]
                        ELSE Visit(Rounds(dest)[i - 1], dest[i])]
<1> USE RouteTableAssumption
<1> DEFINE B == [node |-> <<>>, best_match |-> NoRoute]
           Upto(g, n) == g = [i \in 0 .. n |-> IF i = 0 THEN B ELSE Visit(g[i - 1], dest[i])]
           S == {n \in 0 .. Width : \E g : Upto(g, n)}
<1> HIDE DEF B
<1>1. 0 \in S
  <2>1. Upto([i \in 0 .. 0 |-> B], 0)
    OBVIOUS
  <2>2. 0 \in 0 .. Width
    OBVIOUS
  <2> HIDE DEF Upto
  <2> QED
    BY <2>1, <2>2
<1>2. \A n \in 0 .. Width - 1 : n \in S => n + 1 \in S
  <2> SUFFICES ASSUME NEW n \in 0 .. Width - 1, NEW g, Upto(g, n) PROVE \E h : Upto(h, n + 1)
    OBVIOUS
  <2> DEFINE h == [i \in 0 .. n + 1 |-> IF i <= n THEN g[i] ELSE Visit(g[n], dest[n + 1])]
  <2>1. \A i \in 0 .. n : g[i] = IF i = 0 THEN B ELSE Visit(g[i - 1], dest[i])
    OBVIOUS
  <2>2. \A i \in 0 .. n + 1 : h[i] = IF i = 0 THEN B ELSE Visit(h[i - 1], dest[i])
    <3> SUFFICES ASSUME NEW i \in 0 .. n + 1
                 PROVE  h[i] = IF i = 0 THEN B ELSE Visit(h[i - 1], dest[i])
      OBVIOUS
    <3>1. CASE i = 0
      BY <2>1, <3>1
    <3>2. CASE i \in 1 .. n
      <4>1. h[i] = g[i] /\ h[i - 1] = g[i - 1]
        BY <3>2
      <4> QED
        BY <2>1, <3>2, <4>1
    <3>3. CASE i = n + 1
      <4>1. h[i] = Visit(g[n], dest[n + 1]) /\ h[i - 1] = g[n]
        BY <3>3
      <4> QED
        BY <3>3, <4>1
    <3> QED
      BY <3>1, <3>2, <3>3
  <2>3. h = [i \in 0 .. n + 1 |-> h[i]]
    OBVIOUS
  <2> HIDE DEF h
  <2>4. Upto(h, n + 1)
    BY <2>2, <2>3
  <2> QED
    BY <2>4
<1>3. \A n \in 0 .. Width : n \in S
  <2> HIDE DEF S
  <2> QED
    BY <1>1, <1>2, Induction
<1>4. PICK g : Upto(g, Width)
  BY <1>3
<1> QED
  BY <1>4 DEF Rounds, B

(* What the loop of lookup_ip knows after i bits of dest: its node is the  *)
(* one after i bits, if any route can still match; best_match is the       *)
(* longest match among the routes with fewer bits.                         *)
Matching(dest) == {r \in added : matches(r, dest)}

RoundOK(dest, w, i) ==
    /\ w.node # NoRoute => w.node = NodeAt(dest, i) /\ w.node \in DOMAIN trie
    /\ \A r \in Matching(dest) : r.prefix_len >= i => w.node # NoRoute
    /\ w.best_match # NoRoute => w.best_match \in Matching(dest)
    /\ \A r \in Matching(dest) :
          r.prefix_len < i => w.best_match # NoRoute /\ r.prefix_len <= w.best_match.prefix_len

LEMMA MatchingFacts ==
    ASSUME RoutingInv, NEW dest \in Addresses, NEW r \in Matching(dest)
    PROVE  /\ r # NoRoute /\ r.prefix_len \in 0 .. Width
           /\ Endpoint(r) = NodeAt(dest, r.prefix_len) /\ trie[Endpoint(r)] = r
           /\ \A l \in 0 .. r.prefix_len : NodeAt(dest, l) \in DOMAIN trie
<1> USE RouteTableAssumption
<1>1. r \in added /\ r \in Route /\ matches(r, dest) /\ Masked(r.network, r.prefix_len) = r.network
  BY DEF Matching, RoutingInv
<1>2. r # NoRoute /\ r.prefix_len \in 0 .. Width /\ r.network \in Addresses
  BY <1>1 DEF Route
<1>3. NodeAt(r.network, r.prefix_len) = NodeAt(dest, r.prefix_len)
  BY <1>1, MatchesNode
<1>4. \A l \in 0 .. r.prefix_len : NodeAt(r.network, l) = NodeAt(dest, l)
  BY <1>2, <1>3, NodeEqual
<1>5. Endpoint(r) = NodeAt(r.network, r.prefix_len)
  BY <1>2, NodeFacts DEF Endpoint
<1> QED
  BY <1>1, <1>2, <1>3, <1>4, <1>5 DEF RoutingInv

(* The route at the node after i bits is the match of that length.         *)
LEMMA NodeMatches ==
    ASSUME RoutingInv, NEW dest \in Addresses, NEW i \in 0 .. Width,
           NodeAt(dest, i) \in DOMAIN trie, trie[NodeAt(dest, i)] # NoRoute
    PROVE  trie[NodeAt(dest, i)] \in Matching(dest) /\ trie[NodeAt(dest, i)].prefix_len = i
<1> DEFINE r == trie[NodeAt(dest, i)]
<1>1. r \in added /\ Endpoint(r) = NodeAt(dest, i)
  BY DEF RoutingInv
<1> HIDE DEF r
<1>2. r \in Route /\ Masked(r.network, r.prefix_len) = r.network
  BY <1>1 DEF RoutingInv
<1>3. r.network \in Addresses /\ r.prefix_len \in 0 .. Width
  BY <1>2 DEF Route
<1>4. Endpoint(r) = NodeAt(r.network, r.prefix_len)
  BY <1>3, NodeFacts DEF Endpoint
<1>5. r.prefix_len = i
  <2>1. NodeAt(r.network, r.prefix_len) = NodeAt(dest, i)
    BY <1>1, <1>4
  <2>2. \A ip \in Addresses, k \in 0 .. Width : NodeAt(ip, k) = NodeAt(dest, i) => k = i
    BY NodeEqual
  <2> QED
    BY <1>3, <2>1, <2>2
<1>6. matches(r, dest)
  BY <1>1, <1>2, <1>4, <1>5, MatchesNode
<1> QED
  BY <1>1, <1>5, <1>6 DEF r, Matching

LEMMA RoundStep ==
    ASSUME RoutingInv, NEW dest \in Addresses, NEW i \in 0 .. Width - 1, NEW w, RoundOK(dest, w, i)
    PROVE  RoundOK(dest, Visit(w, dest[i + 1]), i + 1)
<1> USE RouteTableAssumption
<1>0. /\ i \in 0 .. Width /\ i + 1 \in 0 .. Width /\ i < Width
      /\ \A r \in Matching(dest) : r.prefix_len \in 0 .. Width
  BY MatchingFacts
<1>1. CASE w.node = NoRoute
  <2>1. Visit(w, dest[i + 1]) = w
    BY <1>1 DEF Visit
  <2>2. \A r \in Matching(dest) : r.prefix_len < i
    BY <1>0, <1>1 DEF RoundOK
  <2>3. \A r \in Matching(dest) : ~ (r.prefix_len >= i + 1)
    BY <1>0, <2>2
  <2> QED
    BY <1>1, <2>1, <2>2, <2>3 DEF RoundOK
<1>2. CASE w.node # NoRoute
  <2> DEFINE n == NodeAt(dest, i)
             v == Visit(w, dest[i + 1])
  <2>1. w.node = n /\ n \in DOMAIN trie
    BY <1>2 DEF RoundOK
  <2>2. Append(n, dest[i + 1]) = NodeAt(dest, i + 1)
    BY <1>0, NodeFacts
  <2>3. /\ v.best_match = IF trie[n] # NoRoute THEN trie[n] ELSE w.best_match
        /\ v.node = IF NodeAt(dest, i + 1) \in DOMAIN trie THEN NodeAt(dest, i + 1) ELSE NoRoute
    BY <1>2, <2>1, <2>2 DEF Visit
  <2> HIDE DEF v
  <2>4. v.node # NoRoute => v.node = NodeAt(dest, i + 1) /\ v.node \in DOMAIN trie
    BY <2>3
  <2>5. ASSUME NEW r \in Matching(dest), r.prefix_len >= i + 1 PROVE v.node # NoRoute
    <3>1. i + 1 \in 0 .. r.prefix_len
      BY <1>0, <2>5
    <3>2. NodeAt(dest, i + 1) \in DOMAIN trie
      BY <3>1, MatchingFacts
    <3>3. NodeAt(dest, i + 1) # NoRoute
      BY <1>0, NodeFacts
    <3> QED
      BY <2>3, <3>2, <3>3
  <2>6. CASE trie[n] # NoRoute
    <3>1. trie[n] \in Matching(dest) /\ trie[n].prefix_len = i /\ v.best_match = trie[n]
      BY <1>0, <2>1, <2>3, <2>6, NodeMatches
    <3>2. \A r \in Matching(dest) : r.prefix_len < i + 1 => r.prefix_len <= i
      BY <1>0
    <3> HIDE DEF n
    <3> QED
      BY <2>4, <2>5, <2>6, <3>1, <3>2 DEF RoundOK, v
  <2>7. CASE trie[n] = NoRoute
    <3>1. v.best_match = w.best_match
      BY <2>3, <2>7
    <3>2. ASSUME NEW r \in Matching(dest), r.prefix_len < i + 1 PROVE r.prefix_len < i
      <4>1. r.prefix_len # i
        BY <2>7, MatchingFacts
      <4> QED
        BY <1>0, <3>2, <4>1
    <3> HIDE DEF n
    <3> QED
      BY <2>4, <2>5, <3>1, <3>2 DEF RoundOK, v
  <2> QED
    BY <2>6, <2>7
<1> QED
  BY <1>1, <1>2

(* After all the bits, and the node after the last one.                    *)
LEMMA LookupFacts ==
    ASSUME RoutingInv, NEW dest \in Addresses
    PROVE  /\ lookup_ip(dest) # NoRoute => lookup_ip(dest) \in Matching(dest)
           /\ \A r \in Matching(dest) :
                 lookup_ip(dest) # NoRoute /\ r.prefix_len <= lookup_ip(dest).prefix_len
<1> USE RouteTableAssumption
<1> DEFINE f == Rounds(dest)
           S == {i \in 0 .. Width : RoundOK(dest, f[i], i)}
           w == f[Width]
<1>0. \A r \in Matching(dest) : r.prefix_len \in 0 .. Width
  BY MatchingFacts
<1>1. /\ f[0] = [node |-> <<>>, best_match |-> NoRoute]
      /\ \A i \in 0 .. Width - 1 : f[i + 1] = Visit(f[i], dest[i + 1])
  <2>1. f = [i \in 0 .. Width |-> IF i = 0 THEN [node |-> <<>>, best_match |-> NoRoute]
                                           ELSE Visit(f[i - 1], dest[i])]
    BY RoundsExist
  <2> HIDE DEF f
  <2>2. \A i \in 0 .. Width - 1 : i + 1 \in 0 .. Width /\ i + 1 # 0 /\ (i + 1) - 1 = i
    OBVIOUS
  <2> QED
    BY <2>1, <2>2
<1> HIDE DEF f
<1>2. 0 \in S
  <2>1. NodeAt(dest, 0) = <<>> /\ <<>> # NoRoute
    BY NodeFacts
  <2>2. f[0].node = <<>> /\ f[0].best_match = NoRoute
    BY <1>1
  <2>3. \A r \in Matching(dest) : ~ (r.prefix_len < 0)
    BY <1>0
  <2>4. RoundOK(dest, f[0], 0)
    BY <2>1, <2>2, <2>3 DEF RoundOK, RoutingInv
  <2> QED
    BY <2>4
<1>3. \A i \in 0 .. Width - 1 : i \in S => i + 1 \in S
  <2> SUFFICES ASSUME NEW i \in 0 .. Width - 1, RoundOK(dest, f[i], i)
               PROVE  RoundOK(dest, f[i + 1], i + 1) /\ i + 1 \in 0 .. Width
    OBVIOUS
  <2>1. RoundOK(dest, Visit(f[i], dest[i + 1]), i + 1)
    BY RoundStep
  <2> QED
    BY <1>1, <2>1
<1>4. \A i \in 0 .. Width : i \in S
  <2> HIDE DEF S
  <2> QED
    BY <1>2, <1>3, Induction
<1>5. RoundOK(dest, w, Width)
  BY <1>4
<1>6. lookup_ip(dest) = IF w.node # NoRoute /\ trie[w.node] # NoRoute THEN trie[w.node] ELSE w.best_match
  BY DEF lookup_ip, Walk, f
<1> HIDE DEF w
<1>7. CASE w.node # NoRoute /\ trie[w.node] # NoRoute
  <2>1. w.node = NodeAt(dest, Width) /\ w.node \in DOMAIN trie
    BY <1>5, <1>7 DEF RoundOK
  <2>2. trie[w.node] \in Matching(dest) /\ trie[w.node].prefix_len = Width
    BY <1>7, <2>1, NodeMatches
  <2> QED
    BY <1>0, <1>6, <1>7, <2>2
<1>8. CASE ~ (w.node # NoRoute /\ trie[w.node] # NoRoute)
  <2>1. lookup_ip(dest) = w.best_match
    BY <1>6, <1>8
  <2>2. ASSUME NEW r \in Matching(dest) PROVE r.prefix_len < Width
    <3>1. CASE r.prefix_len = Width
      <4>1. w.node # NoRoute
        BY <1>5, <3>1 DEF RoundOK
      <4>2. w.node = NodeAt(dest, Width)
        BY <1>5, <4>1 DEF RoundOK
      <4>3. trie[w.node] # NoRoute
        BY <3>1, <4>2, MatchingFacts
      <4> QED
        BY <1>8, <4>1, <4>3
    <3> QED
      BY <1>0, <3>1
  <2> QED
    BY <1>5, <2>1, <2>2 DEF RoundOK
<1> QED
  BY <1>7, <1>8

(* For every address length, set of next hops and sequence of add_route    *)
(* calls, lookup returns the longest of the prefixes that match, with the  *)
(* next hop it was given last, and nothing when none matches.              *)
THEOREM LongestMatch == RoutingSpec => []LookupIsLongestMatch
<1>1. RoutingInit => RoutingInv
  BY DEF RoutingInit, RoutingInv
<1>2. RoutingInv /\ [RoutingNext]_routing => RoutingInv'
  BY RoutingStep
<1>3. RoutingInv => LookupIsLongestMatch
  <2> SUFFICES ASSUME RoutingInv, NEW dest \in Addresses
               PROVE  IF Matching(dest) = {}
                      THEN lookup_ip(dest) = NoRoute
                      ELSE /\ lookup_ip(dest) \in Matching(dest)
                           /\ \A r \in Matching(dest) : r.prefix_len <= lookup_ip(dest).prefix_len
    BY DEF LookupIsLongestMatch, Matching
  <2> QED
    BY LookupFacts
<1> QED
  BY <1>1, <1>2, <1>3, PTL DEF RoutingSpec

-----------------------------------------------------------------------------
(* The binary protocol.  Quotients by the place values are quotients by    *)
(* ByteBase, taken again and again.                                        *)
LEMMA DivDiv ==
    ASSUME NEW n \in Nat, NEW w \in Nat \ {0}, NEW b \in Nat \ {0}
    PROVE  n \div w \in Nat /\ n \div (b * w) = (n \div w) \div b
<1>1. n \div w \in Nat
  OBVIOUS
<1>2. (n \div w) \div b = n \div (b * w)
  OBVIOUS
<1> QED
  BY <1>1, <1>2

LEMMA DivMod ==
    ASSUME NEW n \in Nat, NEW b \in Nat \ {0}
    PROVE  (n \div b) * b + (n % b) = n /\ n % b \in 0 .. b - 1
<1>1. n = b * (n \div b) + (n % b)
  OBVIOUS
<1>2. n % b \in 0 .. b - 1
  OBVIOUS
<1> QED
  BY <1>1, <1>2

LEMMA DivModUnique ==
    ASSUME NEW q \in Nat, NEW b \in Nat \ {0}, NEW r \in 0 .. b - 1
    PROVE  (q * b + r) \div b = q /\ (q * b + r) % b = r /\ q * b + r \in Nat
OBVIOUS

LEMMA PlaceFacts ==
    /\ PlaceValue[0] = 1 /\ \A k \in 0 .. LengthBytes : PlaceValue[k] \in Nat \ {0}
    /\ \A k \in 0 .. LengthBytes - 1 : PlaceValue[k + 1] = ByteBase * PlaceValue[k]
<1> DEFINE L == LengthBytes
           P(g) == g = [k \in 0 .. L |-> IF k = 0 THEN 1 ELSE ByteBase * g[k - 1]]
<1>0. ByteBase \in Nat \ {0} /\ L \in Nat
  BY PacketAssumption
<1> HIDE DEF L
<1>1. \E g : P(g)
  <2> DEFINE F == [i \in 1 .. L |-> [x \in Nat |-> ByteBase * x]]
  <2>1. \A x \in Nat : ByteBase * x \in Nat
    BY <1>0
  <2>2. F \in [1 .. L -> [Nat -> Nat]] /\ \A i \in 1 .. L, x \in Nat : F[i][x] = ByteBase * x
    BY <2>1
  <2> HIDE DEF F
  <2> DEFINE X == Nat
             b == 1
  <2>a. b \in X /\ F \in [1 .. L -> [X -> X]]
    BY <2>2
  <2> HIDE DEF X, b
  <2>b. \E g : Iterates(g, X, L, b, F)
    BY <1>0, <2>a, Iteration
  <2>3. PICK g \in [0 .. L -> X] : g[0] = b /\ \A i \in 1 .. L : g[i] = F[i][g[i - 1]]
    BY <2>b DEF Iterates
  <2> USE DEF X, b
  <2>4. \A i \in 1 .. L : i - 1 \in 0 .. L /\ g[i - 1] \in Nat
    BY <1>0
  <2>5. \A i \in 0 .. L : g[i] = IF i = 0 THEN 1 ELSE ByteBase * g[i - 1]
    <3>1. \A i \in 1 .. L : g[i] = ByteBase * g[i - 1]
      BY <2>2, <2>3, <2>4
    <3>2. \A i \in 0 .. L : i # 0 => i \in 1 .. L
      BY <1>0
    <3> QED
      BY <2>3, <3>1, <3>2
  <2>6. P(g)
    BY <2>3, <2>5
  <2> QED
    BY <2>6
<1>2. PlaceValue = CHOOSE g : P(g)
  BY DEF PlaceValue, L
<1>3. P(PlaceValue)
  <2> HIDE DEF P
  <2> QED
    BY <1>1, <1>2
<1>4. PlaceValue[0] = 1 /\ \A k \in 0 .. L - 1 : PlaceValue[k + 1] = ByteBase * PlaceValue[k]
  <2>1. PlaceValue[0] = 1
    BY <1>0, <1>3
  <2>2. ASSUME NEW k \in 0 .. L - 1 PROVE PlaceValue[k + 1] = ByteBase * PlaceValue[k]
    <3>1. k + 1 \in 0 .. L /\ k + 1 # 0 /\ (k + 1) - 1 = k
      BY <1>0
    <3> QED
      BY <1>3, <3>1
  <2> QED
    BY <2>1, <2>2
<1>5. \A k \in 0 .. L : PlaceValue[k] \in Nat \ {0}
  <2> DEFINE S == {k \in 0 .. L : PlaceValue[k] \in Nat \ {0}}
  <2>1. 0 \in S
    BY <1>0, <1>4
  <2>2. ASSUME NEW k \in 0 .. L - 1, k \in S PROVE k + 1 \in S
    <3>1. PlaceValue[k] \in Nat \ {0} /\ k + 1 \in 0 .. L
      BY <1>0, <2>2
    <3>2. \A x \in Nat \ {0} : ByteBase * x \in Nat \ {0}
      BY <1>0
    <3> QED
      BY <1>4, <3>1, <3>2
  <2>3. \A k \in 0 .. L : k \in S
    <3> HIDE DEF S
    <3> QED
      BY <1>0, <2>1, <2>2, Induction
  <2> QED
    BY <2>3
<1> QED
  BY <1>4, <1>5 DEF L

(* What ntohl has read after each byte.                                    *)
LEMMA NtohlFacts ==
    ASSUME NEW d \in [1 .. LengthBytes -> Octet]
    PROVE  \E v \in [0 .. LengthBytes -> Nat] :
              /\ v[0] = 0 /\ ntohl(d) = v[LengthBytes]
              /\ \A k \in 0 .. LengthBytes - 1 : v[k + 1] = v[k] * ByteBase + d[k + 1]
<1> DEFINE L == LengthBytes
           P(g) == g = [i \in 0 .. L |-> IF i = 0 THEN 0 ELSE g[i - 1] * ByteBase + d[i]]
           v == CHOOSE g : P(g)
<1>0. ByteBase \in Nat /\ L \in Nat /\ \A i \in 1 .. L : d[i] \in Nat
  BY PacketAssumption DEF Octet
<1>1. ntohl(d) = v[L]
  BY DEF ntohl
<1> HIDE DEF L
<1>2. \E g : P(g)
  <2> DEFINE F == [i \in 1 .. L |-> [x \in Nat |-> x * ByteBase + d[i]]]
  <2>1. \A i \in 1 .. L, x \in Nat : x * ByteBase + d[i] \in Nat
    BY <1>0
  <2>2. F \in [1 .. L -> [Nat -> Nat]] /\ \A i \in 1 .. L, x \in Nat : F[i][x] = x * ByteBase + d[i]
    BY <2>1
  <2> HIDE DEF F
  <2> DEFINE X == Nat
             b == 0
  <2>a. b \in X /\ F \in [1 .. L -> [X -> X]]
    BY <2>2
  <2> HIDE DEF X, b
  <2>b. \E g : Iterates(g, X, L, b, F)
    BY <1>0, <2>a, Iteration
  <2>3. PICK g \in [0 .. L -> X] : g[0] = b /\ \A i \in 1 .. L : g[i] = F[i][g[i - 1]]
    BY <2>b DEF Iterates
  <2> USE DEF X, b
  <2>4. \A i \in 1 .. L : i - 1 \in 0 .. L /\ g[i - 1] \in Nat
    BY <1>0
  <2>5. \A i \in 0 .. L : g[i] = IF i = 0 THEN 0 ELSE g[i - 1] * ByteBase + d[i]
    <3>1. \A i \in 1 .. L : g[i] = g[i - 1] * ByteBase + d[i]
      BY <2>2, <2>3, <2>4
    <3>2. \A i \in 0 .. L : i # 0 => i \in 1 .. L
      BY <1>0
    <3> QED
      BY <2>3, <3>1, <3>2
  <2>6. P(g)
    BY <2>3, <2>5
  <2> QED
    BY <2>6
<1>3. P(v)
  <2> HIDE DEF P
  <2> QED
    BY <1>2
<1> HIDE DEF v
<1>4. v[0] = 0 /\ \A k \in 0 .. L - 1 : v[k + 1] = v[k] * ByteBase + d[k + 1]
  <2>1. v[0] = 0
    BY <1>0, <1>3
  <2>2. ASSUME NEW k \in 0 .. L - 1 PROVE v[k + 1] = v[k] * ByteBase + d[k + 1]
    <3>1. k + 1 \in 0 .. L /\ k + 1 # 0 /\ (k + 1) - 1 = k
      BY <1>0
    <3> QED
      BY <1>3, <3>1
  <2> QED
    BY <2>1, <2>2
<1>5. \A k \in 0 .. L : v[k] \in Nat
  <2> DEFINE S == {k \in 0 .. L : v[k] \in Nat}
  <2>1. 0 \in S
    BY <1>0, <1>4
  <2>2. ASSUME NEW k \in 0 .. L - 1, k \in S PROVE k + 1 \in S
    <3>1. v[k] \in Nat /\ k + 1 \in 0 .. L /\ d[k + 1] \in Nat
      BY <1>0, <2>2
    <3>2. \A x, y \in Nat : x * ByteBase + y \in Nat
      BY <1>0
    <3> QED
      BY <1>4, <3>1, <3>2
  <2>3. \A k \in 0 .. L : k \in S
    <3> HIDE DEF S
    <3> QED
      BY <1>0, <2>1, <2>2, Induction
  <2> QED
    BY <2>3
<1>6. v \in [0 .. L -> Nat]
  BY <1>3, <1>5
<1> QED
  BY <1>1, <1>4, <1>6 DEF L

(* The two conversions are inverse to each other, on the lengths that have *)
(* LengthBytes digits and on all digits.                                   *)
LEMMA NtohlHtonl ==
    ASSUME NEW n \in Nat, n < PlaceValue[LengthBytes]
    PROVE  htonl(n) \in [1 .. LengthBytes -> Octet] /\ ntohl(htonl(n)) = n
<1> DEFINE L == LengthBytes
           B == ByteBase
           d == htonl(n)
<1>0. B \in Nat \ {0} /\ L \in Nat
  BY PacketAssumption
<1>1. \A k \in 0 .. L : n \div PlaceValue[k] \in Nat
  BY PlaceFacts, DivDiv
<1>2. ASSUME NEW i \in 1 .. L PROVE d[i] = (n \div PlaceValue[L - i]) % B /\ d[i] \in Octet
  <2>1. L - i \in 0 .. L
    BY <1>0
  <2>2. (n \div PlaceValue[L - i]) % B \in 0 .. B - 1
    BY <1>0, <1>1, <2>1, DivMod
  <2> QED
    BY <2>2 DEF htonl, Octet
<1>3. d \in [1 .. L -> Octet]
  BY <1>2 DEF htonl
<1> HIDE DEF d
<1>4. PICK v \in [0 .. L -> Nat] : /\ v[0] = 0 /\ ntohl(d) = v[L]
                                   /\ \A k \in 0 .. L - 1 : v[k + 1] = v[k] * B + d[k + 1]
  BY <1>3, NtohlFacts
<1> HIDE DEF B, L
<1> DEFINE S == {k \in 0 .. L : v[k] = n \div PlaceValue[L - k]}
<1>5. 0 \in S
  <2>1. PlaceValue[L] \in Nat \ {0} /\ n < PlaceValue[L] /\ L - 0 = L /\ 0 \in 0 .. L
    BY <1>0, PlaceFacts DEF L
  <2>2. \A w \in Nat \ {0} : n < w => n \div w = 0
    OBVIOUS
  <2> QED
    BY <1>4, <2>1, <2>2
<1>6. ASSUME NEW k \in 0 .. L - 1, k \in S PROVE k + 1 \in S
  <2> DEFINE w == PlaceValue[L - (k + 1)]
             q == n \div w
  <2>1. L - (k + 1) \in 0 .. L - 1 /\ L - (k + 1) \in 0 .. L /\ (L - (k + 1)) + 1 = L - k /\ k + 1 \in 1 .. L
    BY <1>0
  <2>2. w \in Nat \ {0} /\ PlaceValue[L - k] = B * w
    <3>1. w \in Nat \ {0}
      BY <2>1, PlaceFacts DEF L
    <3>2. PlaceValue[(L - (k + 1)) + 1] = B * w
      BY <2>1, PlaceFacts DEF L, B
    <3> QED
      BY <2>1, <3>1, <3>2
  <2>3. v[k] = n \div PlaceValue[L - k]
    BY <1>6
  <2> HIDE DEF w
  <2>4. q \in Nat /\ v[k] = q \div B
    <3>1. n \div w \in Nat /\ n \div (B * w) = (n \div w) \div B
      BY <1>0, <2>2, DivDiv
    <3> QED
      BY <2>2, <2>3, <3>1
  <2>5. v[k + 1] = v[k] * B + d[k + 1] /\ d[k + 1] = q % B
    BY <1>2, <1>4, <2>1 DEF w, B, L
  <2> HIDE DEF q
  <2>6. (q \div B) * B + (q % B) = q
    BY <1>0, <2>4, DivMod
  <2>7. v[k + 1] = q
    BY <2>4, <2>5, <2>6
  <2> QED
    BY <2>1, <2>7 DEF q, w
<1>7. \A k \in 0 .. L : k \in S
  <2> HIDE DEF S
  <2> QED
    BY <1>0, <1>5, <1>6, Induction
<1>8. v[L] = n
  <2>1. L \in 0 .. L /\ L - L = 0
    BY <1>0
  <2>2. v[L] = n \div PlaceValue[L - L]
    BY <1>7, <2>1
  <2>3. v[L] = n \div 1
    BY <2>1, <2>2, PlaceFacts
  <2> QED
    BY <2>3
<1> QED
  BY <1>3, <1>4, <1>8 DEF L, d

LEMMA HtonlNtohl ==
    ASSUME NEW d \in [1 .. LengthBytes -> Octet]
    PROVE  ntohl(d) \in Nat /\ htonl(ntohl(d)) = d
<1> DEFINE L == LengthBytes
           B == ByteBase
<1>0. B \in Nat \ {0} /\ L \in Nat /\ \A i \in 1 .. L : d[i] \in 0 .. B - 1
  BY PacketAssumption DEF Octet
<1>1. PICK v \in [0 .. L -> Nat] : /\ v[0] = 0 /\ ntohl(d) = v[L]
                                   /\ \A k \in 0 .. L - 1 : v[k + 1] = v[k] * B + d[k + 1]
  BY NtohlFacts
<1> DEFINE N == v[L]
           S == {j \in 0 .. L : N \div PlaceValue[j] = v[L - j]}
<1> HIDE DEF L, B
<1>2. N \in Nat
  BY <1>0
<1> HIDE DEF N
<1>3. 0 \in S
  <2>1. N \div 1 = N
    BY <1>2
  <2>2. L - 0 = L /\ 0 \in 0 .. L
    BY <1>0
  <2> QED
    BY <2>1, <2>2, PlaceFacts DEF N
<1>4. \A k \in 0 .. L - 1 : v[k + 1] \div B = v[k] /\ v[k + 1] % B = d[k + 1]
  <2> SUFFICES ASSUME NEW k \in 0 .. L - 1 PROVE v[k + 1] \div B = v[k] /\ v[k + 1] % B = d[k + 1]
    OBVIOUS
  <2>1. v[k] \in Nat /\ d[k + 1] \in 0 .. B - 1 /\ v[k + 1] = v[k] * B + d[k + 1]
    BY <1>0, <1>1
  <2> DEFINE q == v[k]
             r == d[k + 1]
  <2>2. q \in Nat /\ r \in 0 .. B - 1 /\ v[k + 1] = q * B + r
    BY <2>1
  <2> HIDE DEF q, r
  <2>3. (q * B + r) \div B = q /\ (q * B + r) % B = r
    BY <1>0, <2>2, DivModUnique
  <2>4. v[k + 1] \div B = q /\ v[k + 1] % B = r
    BY <2>2, <2>3
  <2> QED
    BY <2>4 DEF q, r
<1>5. ASSUME NEW j \in 0 .. L - 1, j \in S PROVE j + 1 \in S
  <2>1. j \in 0 .. L /\ j + 1 \in 0 .. L /\ L - (j + 1) \in 0 .. L - 1 /\ (L - (j + 1)) + 1 = L - j
    BY <1>0
  <2>2. PlaceValue[j] \in Nat \ {0} /\ PlaceValue[j + 1] = B * PlaceValue[j]
    BY <2>1, PlaceFacts DEF L, B
  <2>3. N \div PlaceValue[j + 1] = (N \div PlaceValue[j]) \div B
    <3> DEFINE w == PlaceValue[j]
    <3>1. w \in Nat \ {0} /\ PlaceValue[j + 1] = B * w
      BY <2>2
    <3> HIDE DEF w
    <3>2. N \div (B * w) = (N \div w) \div B
      BY <1>0, <1>2, <3>1, DivDiv
    <3>3. N \div PlaceValue[j + 1] = (N \div w) \div B
      BY <3>1, <3>2
    <3> QED
      BY <3>3 DEF w
  <2>4. v[L - j] \div B = v[L - (j + 1)]
    BY <1>4, <2>1
  <2>5. N \div PlaceValue[j + 1] = v[L - (j + 1)]
    BY <1>5, <2>3, <2>4
  <2> QED
    BY <2>1, <2>5
<1>6. \A j \in 0 .. L : j \in S
  <2> HIDE DEF S
  <2> QED
    BY <1>0, <1>3, <1>5, Induction
<1>7. ASSUME NEW i \in 1 .. L PROVE (N \div PlaceValue[L - i]) % B = d[i]
  <2>1. L - i \in 0 .. L /\ L - (L - i) = i /\ i - 1 \in 0 .. L - 1 /\ (i - 1) + 1 = i
    BY <1>0
  <2>2. N \div PlaceValue[L - i] = v[i]
    BY <1>6, <2>1
  <2> QED
    BY <1>4, <2>1, <2>2
<1>8. htonl(N) = [i \in 1 .. L |-> d[i]]
  BY <1>7 DEF htonl, L, B
<1>9. d = [i \in 1 .. L |-> d[i]]
  BY DEF L
<1> QED
  BY <1>1, <1>2, <1>8, <1>9 DEF N, L

LEMMA FunctionSeq ==
    ASSUME NEW S, NEW n \in Nat, NEW f \in [1 .. n -> S]
    PROVE  f \in Seq(S) /\ Len(f) = n
OBVIOUS

(* A packet on the wire: version, type, length and payload.                *)
LEMMA SerializeFacts ==
    ASSUME NEW t \in Octet, NEW m \in 0 .. MAX_PAYLOAD_SIZE, NEW d \in [1 .. m -> Octet]
    PROVE  LET s == serialize(MakePacket(t, d))
           IN  /\ Len(d) = m /\ s \in Seq(Nat) /\ Len(s) = HeaderSize + m
               /\ s[1] = PROTOCOL_VERSION /\ s[2] = t
               /\ \A i \in 1 .. LengthBytes : s[2 + i] = htonl(m)[i]
               /\ \A i \in 1 .. m : s[HeaderSize + i] = d[i]
<1> DEFINE L == LengthBytes
           h == htonl(m)
           a == <<PROTOCOL_VERSION, t>>
           s == serialize(MakePacket(t, d))
<1>0. L \in Nat /\ m \in Nat /\ MAX_PAYLOAD_SIZE \in Nat /\ m <= MAX_PAYLOAD_SIZE /\ Octet \subseteq Nat
  BY PacketAssumption DEF Octet
<1>1. d \in Seq(Nat) /\ Len(d) = m
  <2>1. d \in [1 .. m -> Nat]
    BY <1>0
  <2> QED
    BY <1>0, <2>1, FunctionSeq
<1>2. m < PlaceValue[LengthBytes]
  <2>1. PlaceValue[LengthBytes] \in Nat /\ MAX_PAYLOAD_SIZE < PlaceValue[LengthBytes]
    BY <1>0, PlaceFacts, PacketAssumption
  <2> QED
    BY <1>0, <2>1
<1>3. h \in [1 .. L -> Octet]
  BY <1>0, <1>2, NtohlHtonl
<1>4. s = a \o h \o d
  BY <1>1 DEF serialize, MakePacket
<1> HIDE DEF h, L, s
<1>5. h \in Seq(Nat) /\ Len(h) = L
  <2>1. h \in [1 .. L -> Nat]
    BY <1>0, <1>3
  <2> QED
    BY <1>0, <2>1, FunctionSeq
<1>6. a \in Seq(Nat) /\ Len(a) = 2 /\ a[1] = PROTOCOL_VERSION /\ a[2] = t
  BY <1>0 DEF PROTOCOL_VERSION
<1> HIDE DEF a
<1> DEFINE b == a \o h
<1>7. /\ b \in Seq(Nat) /\ Len(b) = 2 + L /\ b[1] = a[1] /\ b[2] = a[2]
      /\ \A i \in 1 .. L : b[2 + i] = h[i]
  <2>0. /\ b \in Seq(Nat) /\ Len(b) = Len(a) + Len(h)
        /\ \A i \in 1 .. Len(a) + Len(h) : b[i] = IF i <= Len(a) THEN a[i] ELSE h[i - Len(a)]
    BY <1>5, <1>6, ConcatProperties
  <2>1. b \in Seq(Nat) /\ Len(b) = 2 + L
    BY <1>5, <1>6, <2>0
  <2>2. \A i \in 1 .. 2 + L : b[i] = IF i <= 2 THEN a[i] ELSE h[i - 2]
    BY <1>5, <1>6, <2>0
  <2>3. \A i \in 1 .. L : 2 + i \in 1 .. 2 + L /\ ~ (2 + i <= 2) /\ (2 + i) - 2 = i
    BY <1>0
  <2>4. 1 \in 1 .. 2 + L /\ 2 \in 1 .. 2 + L /\ 1 <= 2 /\ 2 <= 2
    BY <1>0
  <2> HIDE DEF b
  <2> QED
    BY <2>1, <2>2, <2>3, <2>4
<1> HIDE DEF b
<1> DEFINE H == 2 + L
<1>8. H \in Nat
  BY <1>0
<1>9. /\ s \in Seq(Nat) /\ Len(s) = H + m
      /\ \A i \in 1 .. H + m : s[i] = IF i <= H THEN b[i] ELSE d[i - H]
  <2>1. s = b \o d
    BY <1>4 DEF b
  <2> HIDE DEF H
  <2>2. Len(b) = H
    BY <1>7 DEF H
  <2>3. /\ s \in Seq(Nat) /\ Len(s) = Len(b) + Len(d)
        /\ \A i \in 1 .. Len(b) + Len(d) : s[i] = IF i <= Len(b) THEN b[i] ELSE d[i - Len(b)]
    BY <1>1, <1>7, <2>1, ConcatProperties
  <2> QED
    BY <1>1, <2>2, <2>3
<1>10. s[1] = PROTOCOL_VERSION /\ s[2] = t
  <2>1. 1 \in 1 .. H + m /\ 2 \in 1 .. H + m /\ 1 <= H /\ 2 <= H
    BY <1>0
  <2> QED
    BY <1>6, <1>7, <1>9, <2>1
<1>11. \A i \in 1 .. L : s[2 + i] = h[i]
  <2>1. \A i \in 1 .. L : 2 + i \in 1 .. H + m /\ 2 + i <= H
    BY <1>0
  <2> QED
    BY <1>7, <1>9, <2>1
<1>12. \A i \in 1 .. m : s[H + i] = d[i]
  <2> HIDE DEF H
  <2>1. \A i \in 1 .. m : H + i \in 1 .. H + m /\ ~ (H + i <= H) /\ (H + i) - H = i
    BY <1>0, <1>8
  <2> QED
    BY <1>9, <2>1
<1> QED
  BY <1>1, <1>9, <1>10, <1>11, <1>12 DEF H, L, h, s, HeaderSize

LEMMA PrefixFacts ==
    ASSUME NEW s \in Seq(Nat), NEW r \in Seq(Nat)
    PROVE  IsPrefix(s, r) <=> Len(s) <= Len(r) /\ \A i \in 1 .. Len(s) : s[i] = r[i]
<1> DEFINE n == Len(s)
<1>1. n \in Nat /\ Len(r) \in Nat
  OBVIOUS
<1>2. SubSeq(s, 1, n) = [i \in 1 .. n |-> s[i]]
  BY <1>1
<1>3. ASSUME n <= Len(r) PROVE SubSeq(r, 1, n) = [i \in 1 .. n |-> r[i]]
  BY <1>1, <1>3
<1> HIDE DEF n
<1>4. [i \in 1 .. n |-> s[i]] = [i \in 1 .. n |-> r[i]] <=> \A i \in 1 .. n : s[i] = r[i]
  OBVIOUS
<1> QED
  BY <1>2, <1>3, <1>4 DEF IsPrefix, n

LEMMA SubSeqFacts ==
    ASSUME NEW s \in Seq(Octet), NEW j \in Nat, NEW k \in Nat, j + k <= Len(s)
    PROVE  /\ SubSeq(s, j + 1, j + k) \in [1 .. k -> Octet]
           /\ \A i \in 1 .. k : SubSeq(s, j + 1, j + k)[i] = s[j + i]
<1> DEFINE n == Len(s)
           u == SubSeq(s, j + 1, j + k)
<1>1. n \in Nat /\ \A i \in 1 .. n : s[i] \in Octet
  OBVIOUS
<1>2. \A i \in 1 .. k : j + i \in 1 .. n
  BY <1>1
<1>3. u = [i \in 1 .. k |-> s[j + i]]
  <2>1. u = [i \in 1 .. ((j + k) - (j + 1)) + 1 |-> s[((j + 1) + i) - 1]]
    BY <1>1
  <2>2. ((j + k) - (j + 1)) + 1 = k /\ \A i \in 1 .. k : ((j + 1) + i) - 1 = j + i
    OBVIOUS
  <2> QED
    BY <2>1, <2>2
<1> HIDE DEF n
<1> QED
  BY <1>1, <1>2, <1>3

LEMMA LengthField ==
    ASSUME NEW r \in Seq(Octet), HeaderSize <= Len(r)
    PROVE  /\ SubSeq(r, 3, HeaderSize) \in [1 .. LengthBytes -> Octet]
           /\ \A i \in 1 .. LengthBytes : SubSeq(r, 3, HeaderSize)[i] = r[2 + i]
<1> DEFINE j == 2
<1>1. LengthBytes \in Nat /\ j \in Nat /\ j + 1 = 3 /\ j + LengthBytes = HeaderSize
  BY PacketAssumption DEF HeaderSize
<1> HIDE DEF j
<1>2. /\ SubSeq(r, j + 1, j + LengthBytes) \in [1 .. LengthBytes -> Octet]
      /\ \A i \in 1 .. LengthBytes : SubSeq(r, j + 1, j + LengthBytes)[i] = r[j + i]
  BY <1>1, SubSeqFacts
<1>3. /\ SubSeq(r, 3, HeaderSize) \in [1 .. LengthBytes -> Octet]
      /\ \A i \in 1 .. LengthBytes : SubSeq(r, 3, HeaderSize)[i] = r[j + i]
  BY <1>1, <1>2
<1> QED
  BY <1>3 DEF j

(* What deserialize needs of the front of a buffer: if a packet stands     *)
(* there, its length field and with it all checks are right.               *)
LEMMA PacketComplete ==
    ASSUME NEW r \in Seq(Octet), NEW p \in Constructible, IsPrefix(serialize(p), r)
    PROVE  Complete(r)
<1> DEFINE L == LengthBytes
           H == HeaderSize
           s == serialize(p)
           len == SubSeq(r, 3, H)
<1>0. L \in Nat /\ H = 2 + L /\ H \in Nat /\ MAX_PAYLOAD_SIZE \in Nat /\ Octet \subseteq Nat
  BY PacketAssumption DEF HeaderSize, Octet
<1>1. PICK t \in Octet, d \in BoundedSeq(Octet, MAX_PAYLOAD_SIZE) : p = MakePacket(t, d)
  BY DEF Constructible
<1>2. PICK m \in 0 .. MAX_PAYLOAD_SIZE : d \in [1 .. m -> Octet]
  BY <1>1 DEF BoundedSeq, SeqOf
<1>3. /\ s \in Seq(Nat) /\ Len(s) = H + m /\ s[1] = PROTOCOL_VERSION
      /\ \A i \in 1 .. L : s[2 + i] = htonl(m)[i]
  BY <1>1, <1>2, SerializeFacts
<1>4. r \in Seq(Nat)
  BY <1>0, SeqMonotonic
<1> HIDE DEF s
<1>5. Len(s) <= Len(r) /\ \A i \in 1 .. Len(s) : s[i] = r[i]
  BY <1>3, <1>4, PrefixFacts DEF s
<1> HIDE DEF H, L
<1>6. Len(r) \in Nat /\ m \in Nat /\ m <= MAX_PAYLOAD_SIZE /\ H + m <= Len(r)
  BY <1>0, <1>3, <1>5
<1>7. r[1] = PROTOCOL_VERSION
  <2>1. 1 \in 1 .. H + m
    BY <1>0
  <2> QED
    BY <1>3, <1>5, <2>1
<1>8. len \in [1 .. L -> Octet] /\ \A i \in 1 .. L : len[i] = r[2 + i]
  <2>1. H <= Len(r)
    BY <1>0, <1>6
  <2> QED
    BY <2>1, LengthField DEF H, L
<1> HIDE DEF len
<1>9. htonl(m) \in [1 .. L -> Octet] /\ ntohl(htonl(m)) = m
  <2>1. m < PlaceValue[LengthBytes]
    <3>1. PlaceValue[LengthBytes] \in Nat /\ MAX_PAYLOAD_SIZE < PlaceValue[LengthBytes] /\ LengthBytes \in Nat
      BY PlaceFacts, PacketAssumption
    <3> QED
      BY <1>0, <1>6, <3>1
  <2> QED
    BY <1>6, <2>1, NtohlHtonl DEF L
<1>10. \A i \in 1 .. L : len[i] = htonl(m)[i]
  <2>1. \A i \in 1 .. L : 2 + i \in 1 .. H + m
    BY <1>0, <1>6
  <2> QED
    BY <1>3, <1>5, <1>8, <2>1
<1>11. len = htonl(m)
  <2>1. len = [i \in 1 .. L |-> len[i]] /\ htonl(m) = [i \in 1 .. L |-> htonl(m)[i]]
    BY <1>8, <1>9
  <2> QED
    BY <1>10, <2>1
<1>12. ntohl(len) = m
  BY <1>9, <1>11
<1>13. Len(r) >= H
  BY <1>0, <1>6
<1> QED
  BY <1>6, <1>7, <1>12, <1>13 DEF Complete, len, H

(* And if the checks succeed, what deserialize returns is the packet that  *)
(* stands there.                                                           *)
LEMMA CompletePacket ==
    ASSUME NEW r \in Seq(Octet), Complete(r)
    PROVE  Decoded(r) \in Constructible /\ IsPrefix(serialize(Decoded(r)), r)
<1> DEFINE L == LengthBytes
           H == HeaderSize
           len == SubSeq(r, 3, H)
           m == ntohl(len)
           d == SubSeq(r, H + 1, H + m)
<1>0. L \in Nat /\ H = 2 + L /\ H \in Nat /\ MAX_PAYLOAD_SIZE \in Nat /\ Octet \subseteq Nat
  BY PacketAssumption DEF HeaderSize, Octet
<1>1. Len(r) >= H /\ r[1] = PROTOCOL_VERSION /\ m <= MAX_PAYLOAD_SIZE /\ Len(r) >= H + m /\ Len(r) \in Nat
  BY DEF Complete
<1> HIDE DEF H, L
<1>2. len \in [1 .. L -> Octet] /\ \A i \in 1 .. L : len[i] = r[2 + i]
  <2>1. H <= Len(r)
    BY <1>0, <1>1
  <2> QED
    BY <2>1, LengthField DEF H, L
<1> HIDE DEF len
<1>3. m \in Nat /\ htonl(m) = len
  BY <1>2, HtonlNtohl DEF L
<1> HIDE DEF m
<1>4. H + m <= Len(r) /\ m \in 0 .. MAX_PAYLOAD_SIZE
  BY <1>0, <1>1, <1>3
<1>5. d \in [1 .. m -> Octet] /\ \A i \in 1 .. m : d[i] = r[H + i]
  BY <1>0, <1>3, <1>4, SubSeqFacts
<1> HIDE DEF d
<1>6. Len(d) = m
  BY <1>3, <1>5, FunctionSeq
<1>7. r[2] \in Octet
  <2>1. 2 \in 1 .. Len(r)
    BY <1>0, <1>1
  <2> QED
    BY <2>1
<1>8. Decoded(r) = MakePacket(r[2], d)
  <2>1. Decoded(r) = [version |-> r[1], type |-> r[2], length |-> len, payload |-> d]
    BY DEF Decoded, len, d, m, H
  <2> QED
    BY <1>1, <1>3, <1>6, <2>1 DEF MakePacket
<1>9. Decoded(r) \in Constructible
  <2>1. d \in BoundedSeq(Octet, MAX_PAYLOAD_SIZE)
    BY <1>4, <1>5 DEF BoundedSeq, SeqOf
  <2> QED
    BY <1>7, <1>8, <2>1 DEF Constructible
<1> DEFINE s == serialize(MakePacket(r[2], d))
<1>10. /\ s \in Seq(Nat) /\ Len(s) = H + m /\ s[1] = PROTOCOL_VERSION /\ s[2] = r[2]
       /\ \A i \in 1 .. L : s[2 + i] = len[i]
       /\ \A i \in 1 .. m : s[H + i] = d[i]
  <2>1. /\ s \in Seq(Nat) /\ Len(s) = HeaderSize + m /\ s[1] = PROTOCOL_VERSION /\ s[2] = r[2]
        /\ \A i \in 1 .. LengthBytes : s[2 + i] = htonl(m)[i]
        /\ \A i \in 1 .. m : s[HeaderSize + i] = d[i]
    <3> DEFINE t == r[2]
    <3>1. t \in Octet
      BY <1>7
    <3> HIDE DEF t
    <3>2. LET p == serialize(MakePacket(t, d))
          IN  /\ p \in Seq(Nat) /\ Len(p) = HeaderSize + m
              /\ p[1] = PROTOCOL_VERSION /\ p[2] = t
              /\ \A i \in 1 .. LengthBytes : p[2 + i] = htonl(m)[i]
              /\ \A i \in 1 .. m : p[HeaderSize + i] = d[i]
      BY <1>4, <1>5, <3>1, SerializeFacts
    <3> QED
      BY <3>2 DEF t
  <2> HIDE DEF s
  <2> QED
    BY <1>3, <2>1 DEF H, L
<1> HIDE DEF s
<1>11. ASSUME NEW i \in 1 .. Len(s) PROVE s[i] = r[i]
  <2>0. i \in 1 .. H + m /\ i \in Nat
    BY <1>10
  <2>1. CASE i \in {1, 2}
    BY <1>1, <1>10, <2>1
  <2>2. CASE i > 2 /\ i <= H
    <3> DEFINE j == i - 2
    <3>1. j \in 1 .. L /\ 2 + j = i
      BY <1>0, <2>0, <2>2
    <3> HIDE DEF j
    <3>2. s[2 + j] = r[2 + j]
      BY <1>2, <1>10, <3>1
    <3> QED
      BY <3>1, <3>2
  <2>3. CASE i > H
    <3> DEFINE j == i - H
    <3>1. j \in 1 .. m /\ H + j = i
      BY <1>0, <1>3, <2>0, <2>3
    <3> HIDE DEF j
    <3>2. s[H + j] = r[H + j]
      BY <1>5, <1>10, <3>1
    <3> QED
      BY <3>1, <3>2
  <2> QED
    BY <1>0, <2>0, <2>1, <2>2, <2>3
<1>12. r \in Seq(Nat)
  BY <1>0, SeqMonotonic
<1>13. IsPrefix(s, r)
  BY <1>4, <1>10, <1>11, <1>12, PrefixFacts
<1> QED
  BY <1>8, <1>9, <1>13 DEF s

(* deserialize on each longer buffer: the last outcome is the one of the   *)
(* buffer as it is.                                                        *)
PacketInv ==
    /\ rx \in Seq(Octet) /\ (parsed <=> Complete(rx))
    /\ IF Complete(rx) THEN out_packet = Decoded(rx) ELSE out_packet = MakePacket(DataType, <<>>)

LEMMA CompleteStays ==
    ASSUME NEW r \in Seq(Octet), NEW b \in Octet, Complete(r)
    PROVE  Complete(Append(r, b))
<1>1. PICK p \in Constructible : IsPrefix(serialize(p), r)
  BY CompletePacket
<1>2. Append(r, b) \in Seq(Octet)
  OBVIOUS
<1>3. IsPrefix(serialize(p), Append(r, b))
  <2> DEFINE n == Len(serialize(p))
             u == Append(r, b)
  <2>1. n <= Len(r) /\ SubSeq(serialize(p), 1, n) = SubSeq(r, 1, n)
    BY <1>1 DEF IsPrefix
  <2>2. PICK t \in Octet, d \in BoundedSeq(Octet, MAX_PAYLOAD_SIZE) : p = MakePacket(t, d)
    BY DEF Constructible
  <2>3. PICK m \in 0 .. MAX_PAYLOAD_SIZE : d \in [1 .. m -> Octet]
    BY <2>2 DEF BoundedSeq, SeqOf
  <2>4. serialize(p) \in Seq(Nat)
    BY <2>2, <2>3, SerializeFacts
  <2>5. n \in Nat
    BY <2>4
  <2> HIDE DEF n
  <2>6. Len(u) = Len(r) + 1 /\ Len(r) \in Nat /\ \A i \in 1 .. Len(r) : u[i] = r[i]
    OBVIOUS
  <2>7. SubSeq(u, 1, n) = SubSeq(r, 1, n)
    <3>1. SubSeq(r, 1, n) = [i \in 1 .. n |-> r[i]]
      BY <2>1, <2>5, <2>6
    <3>2. SubSeq(u, 1, n) = [i \in 1 .. n |-> u[i]]
      BY <1>2, <2>1, <2>5, <2>6
    <3>3. \A i \in 1 .. n : u[i] = r[i]
      BY <2>1, <2>5, <2>6
    <3> QED
      BY <3>1, <3>2, <3>3
  <2>8. n <= Len(u)
    BY <2>1, <2>5, <2>6
  <2> QED
    BY <2>1, <2>7, <2>8 DEF IsPrefix, n
<1> QED
  BY <1>2, <1>3, PacketComplete

(* For every byte value range, length field and stream: deserialize        *)
(* succeeds exactly when a packet that can be constructed stands complete  *)
(* at the front of the buffer, and returns that packet.                    *)
THEOREM DecodingInvertsEncoding == PacketSpec => []DecodeInvertsEncode
<1>1. PacketInit => PacketInv
  <2> SUFFICES ASSUME PacketInit PROVE PacketInv
    OBVIOUS
  <2>1. ~ (Len(<<>>) >= HeaderSize)
    BY PacketAssumption DEF HeaderSize
  <2>2. rx = <<>> /\ ~ Complete(rx)
    BY <2>1 DEF PacketInit, Complete
  <2>3. parsed <=> Complete(rx)
    BY <2>2 DEF PacketInit
  <2> QED
    BY <2>2, <2>3 DEF PacketInit, PacketInv
<1>2. PacketInv /\ [PacketNext]_packet => PacketInv'
  <2> SUFFICES ASSUME PacketInv, [PacketNext]_packet PROVE PacketInv'
    OBVIOUS
  <2>1. ASSUME NEW b \in Octet, ArriveByte(b) PROVE PacketInv'
    <3>1. /\ rx \in Seq(Octet) /\ rx' = Append(rx, b) /\ parsed' = Complete(rx')
          /\ out_packet' = IF Complete(rx') THEN Decoded(rx') ELSE out_packet
      BY <2>1 DEF ArriveByte, deserialize, PacketInv
    <3>2. Complete(rx) => Complete(rx')
      BY <3>1, CompleteStays
    <3>3. rx' \in Seq(Octet)
      BY <3>1
    <3> QED
      BY <3>1, <3>2, <3>3 DEF PacketInv
  <2>2. ASSUME UNCHANGED packet PROVE PacketInv'
    <3>1. rx' = rx /\ parsed' = parsed /\ out_packet' = out_packet
      BY <2>2 DEF packet
    <3> QED
      BY <3>1 DEF PacketInv
  <2> QED
    BY <2>1, <2>2 DEF PacketNext
<1>3. PacketInv => DecodeInvertsEncode
  <2> SUFFICES ASSUME PacketInv PROVE DecodeInvertsEncode
    OBVIOUS
  <2>1. Complete(rx) <=> \E p \in Constructible : IsPrefix(serialize(p), rx)
    BY PacketComplete, CompletePacket DEF PacketInv
  <2>2. Complete(rx) => out_packet \in Constructible /\ IsPrefix(serialize(out_packet), rx)
    BY CompletePacket DEF PacketInv
  <2> QED
    BY <2>1, <2>2 DEF PacketInv, DecodeInvertsEncode
<1> QED
  BY <1>1, <1>2, <1>3, PTL DEF PacketSpec
=============================================================================
