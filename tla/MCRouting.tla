----------------------------- MODULE MCRouting -----------------------------
(* A router r with a route a and a group g, which holds a route b and a     *)
(* group h with a route c; a second router s with a route d; a route e on   *)
(* its own.  Group h has no prefix.                                         *)
EXTENDS Routing

CONSTANTS r, s, g, h, a, b, c, d, e

TheParent == [n \in Lists \cup Routes |->
  CASE n \in {a, g} -> r
    [] n \in {b, h} -> g
    [] n = c        -> h
    [] n = d        -> s
    [] OTHER        -> Top]

TheSegment == [n \in Lists \cup Routes |-> IF n = h THEN <<>> ELSE <<n>>]
=============================================================================
