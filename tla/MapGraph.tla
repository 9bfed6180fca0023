------------------------------ MODULE MapGraph ------------------------------
(***************************************************************************)
(* The graph on which the tanks of the computer find their ways: createEd- *)
(* ges, belMan (the algorithm of Floyd and Warshall, one round a step),    *)
(* findNodes and findPath.  Of the geometry a node's neighbours and their  *)
(* distances are left, and of a point which nodes it sees and how far off. *)
(***************************************************************************)
EXTENDS Integers, FiniteSets, SequencesExt

CONSTANTS
  N,            (* the nodes are 0 .. N - 1                                *)
  Lengths,      (* lengths of edges                                        *)
  Near,         (* the distance of findNodes                               *)
  Far,          (* the 1000000 that stands for no path                     *)
  Locations     (* points, as [node |-> its distance, or Far if unseen]    *)

Nodes == 0 .. (N - 1)

ASSUME MapAssumption ==
  /\ N \in Nat \ {0} /\ Near \in Nat /\ Far \in Nat
  /\ \A l \in Lengths : l \in Nat \ {0} /\ 2 * N * l < Far
  /\ Locations \subseteq [Nodes -> Nat]

VARIABLES
  edges,        (* the length of every edge <<i, j>>                       *)
  belman,       (* <<pathDistance, nextV>> for every <<i, j>>              *)
  round         (* k of belMan, N when it is done, -1 before               *)

mapVars == <<edges, belman, round>>

InitMap ==
  /\ edges = <<>>
  /\ belman = [p \in Nodes \X Nodes |-> <<Far, N>>]
  /\ round = -1

(* createEdges finds an edge both ways or not at all; belMan begins with    *)
(* the edges.                                                               *)
CreateEdges ==
  /\ round = -1
  /\ \E pairs \in SUBSET {p \in Nodes \X Nodes : p[1] < p[2]} : \E len \in [pairs -> Lengths] :
       edges' = [p \in pairs \cup {<<p[2], p[1]>> : p \in pairs} |->
                   IF p \in pairs THEN len[p] ELSE len[<<p[2], p[1]>>]]
  /\ belman' = [p \in Nodes \X Nodes |-> IF p \in DOMAIN edges' THEN <<edges'[p], p[2]>> ELSE belman[p]]
  /\ round' = 0

(* Seeded fault: the way on is the node in the middle.                      *)
RelaxedFault(t, k, i, j) ==
  IF t[<<i, j>>][1] > t[<<i, k>>][1] + t[<<k, j>>][1]
  THEN [t EXCEPT ![<<i, j>>] = <<t[<<i, k>>][1] + t[<<k, j>>][1], k>>]
  ELSE t

Relaxed(t, k, i, j) ==
  IF t[<<i, j>>][1] > t[<<i, k>>][1] + t[<<k, j>>][1]
  THEN [t EXCEPT ![<<i, j>>] = <<t[<<i, k>>][1] + t[<<k, j>>][1], t[<<i, k>>][2]>>]
  ELSE t

Rows == [c \in 1 .. (N * N) |-> <<(c - 1) \div N, (c - 1) % N>>]

belMan ==
  /\ round \in Nodes
  /\ belman' = FoldLeft(LAMBDA t, p : Relaxed(t, round, p[1], p[2]), belman, Rows)
  /\ round' = round + 1
  /\ UNCHANGED edges

NextMap == CreateEdges \/ belMan

-----------------------------------------------------------------------------
(* The nodes that a point sees nearby, or else the nearest that it sees.    *)
findNodes(at) ==
  LET near == {n \in Nodes : at[n] < Near}
      best == {n \in Nodes : at[n] < Far /\ \A m \in Nodes : at[n] < at[m] \/ (at[n] = at[m] /\ n <= m)}
  IN  IF near = {} THEN best ELSE near

(* The nodes that findPath puts between s and f, and the length: it goes on *)
(* from the best pair until it is at the last node, which it leaves out.    *)
(* (Of a pair that is not linked, nextV is not initialized.)                *)
findPath(s, f) ==
  LET Via(p)  == s[p[1]] + f[p[2]] + belman[p][1]
      pairs   == {p \in findNodes(s) \X findNodes(f) : Via(p) < Far}
      best    == CHOOSE p \in pairs : \A q \in pairs : Via(p) <= Via(q)
      linked  == {p \in Nodes \X Nodes : p[1] = p[2] \/ belman[p][1] < Far}
      way[p \in linked] == IF p[1] = p[2] THEN <<>> ELSE <<p[1]>> \o way[<<belman[p][2], p[2]>>]
  IN  IF pairs = {} THEN [nodes |-> <<>>, d |-> Far]
      ELSE [nodes |-> way[best], d |-> Via(best)]

-----------------------------------------------------------------------------
(* The shortest way from i to j with inner nodes below k, by its length.    *)
Walks == [k \in 0 .. N |-> {w \in UNION {[1 .. n -> 0 .. (k - 1)] : n \in 0 .. k} : IsInjective(w)}]
LengthOf(w) ==
  LET sum[n \in 1 .. Len(w)] == IF n = 1 THEN 0 ELSE sum[n - 1] + edges[<<w[n - 1], w[n]>>]
  IN  IF \A n \in 1 .. (Len(w) - 1) : <<w[n], w[n + 1]>> \in DOMAIN edges THEN sum[Len(w)] ELSE Far
Shortest(i, j, k) ==
  LET lengths == {LengthOf(<<i>> \o w \o <<j>>) : w \in Walks[k]}
  IN  CHOOSE l \in lengths : \A m \in lengths : l <= m

(* Before round k every pair of different nodes has the length of a short-  *)
(* est way with inner nodes below k, and the next node lies on one: the     *)
(* pairs <<i, i>> begin at Far and not at 0, and that does no harm to them. *)
RoundShortens ==
  \A i, j \in Nodes : i # j =>
    LET d == belman[<<i, j>>][1]  v == belman[<<i, j>>][2] IN
    /\ d = Shortest(i, j, round)
    /\ d < Far => /\ <<i, v>> \in DOMAIN edges
                  /\ d = edges[<<i, v>>] + (IF v = j THEN 0 ELSE belman[<<v, j>>][1])

(* A route leads over edges from a node that the start sees to a neighbour  *)
(* of one that the goal sees, and no way from one to another is shorter.    *)
(* (For a node that both see, belMan counts a round trip.)                  *)
RouteLeads(s, f) ==
  LET r == findPath(s, f)
      w == r.nodes
  IN  /\ \A n \in 1 .. (Len(w) - 1) : <<w[n], w[n + 1]>> \in DOMAIN edges
      /\ w # <<>> => w[1] \in findNodes(s) /\ \E m \in findNodes(f) : <<w[Len(w)], m>> \in DOMAIN edges
      /\ \A i \in findNodes(s), j \in findNodes(f) : i # j => r.d <= s[i] + f[j] + Shortest(i, j, N)

(* Every round of belMan keeps all ways shortest, and every route found     *)
(* afterwards is a shortest one over edges that exist.                      *)
ShortestRoutes ==
  /\ round \in 0 .. N => RoundShortens
  /\ round = N => \A s, f \in Locations : RouteLeads(s, f)
=============================================================================
