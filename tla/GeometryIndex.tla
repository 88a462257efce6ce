--------------------------- MODULE GeometryIndex ---------------------------
(***************************************************************************)
(* geometry_index of src/geometry/indexer.cpp and the VertexSpacialSort    *)
(* that it searches: vertices that are the same share an index.  A vertex  *)
(* stands for a position with its normal and texture coordinates; two are  *)
(* the same or further apart than epsilon.  Distances are along the        *)
(* sorter's plane, where different positions can be equally far.           *)
(***************************************************************************)
EXTENDS Naturals, Sequences

CONSTANTS
    Vertex,
    Near,            \* the vertices at the smaller one of two distances
    MaxVertices      \* bound: input vertices

ASSUME VertexAssumption == Near \subseteq Vertex /\ MaxVertices \in Nat

VARIABLE indexed     \* input, output vertices and output indices

GeometryInit == indexed = [in |-> <<>>, out |-> <<>>, indices |-> <<>>]

Distance(v) == IF v \in Near THEN 1 ELSE 2

(* VertexSpacialSort::Find: the inputs at the distance of v.  The search   *)
(* fails when their range reaches the end of the sorted vertices.          *)
Find(in, v) ==
    IF \E j \in DOMAIN in : Distance(in[j]) > Distance(v)
    THEN {j \in DOMAIN in : Distance(in[j]) = Distance(v)}
    ELSE {}

(* Mutant: what is found at the distance is taken to be the same vertex.   *)
SameAsDistance(in, i) == Find(in, in[i])

SameAs(in, i) == {j \in Find(in, in[i]) : in[j] = in[i]}

(* One iteration: an input without an index (0) becomes an output, and the *)
(* ones that are the same get its index.                                   *)
IndexStep(in, acc, i) ==
    IF acc.given[i] # 0 THEN acc
    ELSE LET n == Len(acc.out) + 1
         IN  [out |-> Append(acc.out, in[i]),
              given |-> [j \in DOMAIN in |->
                 IF j = i \/ (j \in SameAs(in, i) /\ acc.given[j] = 0) THEN n
                 ELSE acc.given[j]]]

(* The loop over the input.                                                *)
Indexed(in) ==
    LET after[i \in 0..Len(in)] ==
          IF i = 0 THEN [out |-> <<>>, given |-> [j \in DOMAIN in |-> 0]]
          ELSE IndexStep(in, after[i - 1], i)
    IN  after[Len(in)]

CallIndex(in) ==
    indexed' = [in |-> in, out |-> Indexed(in).out, indices |-> Indexed(in).given]

GeometryNext ==
    /\ indexed.in = <<>>
    /\ \E n \in 0..MaxVertices : \E in \in [1..n -> Vertex] : CallIndex(in)

GeometrySpec == GeometryInit /\ [][GeometryNext]_indexed

-----------------------------------------------------------------------------
(* Drawing the output with its indices draws the input, and no vertex is   *)
(* in the output twice, except for the vertices that are farthest along    *)
(* the plane, which are not shared.                                        *)
IndexRight ==
    /\ DOMAIN indexed.indices = DOMAIN indexed.in
    /\ \A i \in DOMAIN indexed.in :
          /\ indexed.indices[i] \in DOMAIN indexed.out
          /\ indexed.out[indexed.indices[i]] = indexed.in[i]
    /\ \A m, n \in DOMAIN indexed.out :
          m # n /\ indexed.out[m] = indexed.out[n] =>
              \A i \in DOMAIN indexed.in :
                  Distance(indexed.in[i]) <= Distance(indexed.out[m])
=============================================================================
