----------------------------- MODULE RouteTable -----------------------------
(***************************************************************************)
(* RoutingTable of RouteTable.hpp: a binary trie with one level per bit of *)
(* an address, most significant bit first. A node is named by the bits on  *)
(* the way to it, so the trie is a function from the nodes that exist to   *)
(* the route they hold. The variable added remembers, for the properties,  *)
(* what the calls of add_route asked for.                                  *)
(*                                                                         *)
(* A prefix length is between 0 and Width: for others the shifts of        *)
(* add_route have no defined value.                                        *)
(***************************************************************************)
EXTENDS Integers, FiniteSets, SequencesExt

CONSTANTS
    Width,      \* bits of an address, 32 in the code
    NextHops,
    NoRoute,    \* the empty optional<Route>, and the null node
    MaxRoutes   \* bound: different prefixes in the table

(* Addresses and parts of them; the nodes of the trie.                     *)
Bits(n) == [1 .. n -> {0, 1}]

Addresses == Bits(Width)

Route == [network : Addresses, prefix_len : 0 .. Width, next_hop : NextHops]

ASSUME RouteTableAssumption ==
    /\ Width \in Nat
    /\ NoRoute \notin Route
    /\ \A n \in 0 .. Width : NoRoute \notin Bits(n)

VARIABLES trie, added

routing == <<trie, added>>

Masked(ip, prefix_len) == [i \in 1 .. Width |-> IF i <= prefix_len THEN ip[i] ELSE 0]

matches(r, dest_ip) == Masked(dest_ip, r.prefix_len) = r.network

Endpoint(r) == SubSeq(r.network, 1, r.prefix_len)

RoutingInit ==
    /\ trie = [node \in {<<>>} |-> NoRoute]
    /\ added = {}

RouteAt(node) == IF node \in DOMAIN trie THEN trie[node] ELSE NoRoute

(* The walk of add_route: the missing nodes on the way are created.        *)
Insert(r) ==
    [node \in DOMAIN trie \cup Prefixes(Endpoint(r)) |->
        IF node = Endpoint(r) THEN r ELSE RouteAt(node)]

(* add_route once stoi has read the prefix length and inet_pton the        *)
(* address; when either cannot, the call ends by an exception or with      *)
(* false before it has touched the table. Without a '/' the prefix length  *)
(* is Width.                                                               *)
add_route(ip, prefix_len, next_hop) ==
    LET r == [network |-> Masked(ip, prefix_len), prefix_len |-> prefix_len, next_hop |-> next_hop]
    IN  /\ trie' = Insert(r)
        /\ added' = {a \in added : Endpoint(a) # Endpoint(r)} \cup {r}
        /\ Cardinality(added') <= MaxRoutes

RoutingNext ==
    \E ip \in Addresses, prefix_len \in 0 .. Width, hop \in NextHops :
        add_route(ip, prefix_len, hop)

RoutingSpec == RoutingInit /\ [][RoutingNext]_routing

(* One round of the loop of lookup_ip: w holds its node and best_match.    *)
Visit(w, direction) ==
    LET child == Append(w.node, direction)
    IN  IF w.node = NoRoute
        THEN w
        ELSE [best_match |-> IF trie[w.node] # NoRoute THEN trie[w.node] ELSE w.best_match,
              node |-> IF child \in DOMAIN trie THEN child ELSE NoRoute]

(* The loop after each number of bits; once the node is null it stays so.  *)
Rounds(dest_ip) ==
    LET round[i \in 0 .. Width] ==
            IF i = 0 THEN [node |-> <<>>, best_match |-> NoRoute] ELSE Visit(round[i - 1], dest_ip[i])
    IN  round

Walk(dest_ip) == Rounds(dest_ip)[Width]

(* Faulty variant: the node after the last bit is not looked at.           *)
LookupNoLeaf(dest_ip) == Walk(dest_ip).best_match

lookup_ip(dest_ip) ==
    LET w == Walk(dest_ip)
    IN  IF w.node # NoRoute /\ trie[w.node] # NoRoute THEN trie[w.node] ELSE w.best_match

-----------------------------------------------------------------------------
(* The promise of lookup: the longest of the prefixes that match, with the *)
(* next hop it was given last, and nothing when none matches.              *)
LookupIsLongestMatch ==
    \A dest \in Addresses :
        LET matching == {r \in added : matches(r, dest)}
        IN  IF matching = {}
            THEN lookup_ip(dest) = NoRoute
            ELSE /\ lookup_ip(dest) \in matching
                 /\ \A r \in matching : r.prefix_len <= lookup_ip(dest).prefix_len
=============================================================================
