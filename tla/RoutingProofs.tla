---------------------------- MODULE RoutingProofs ----------------------------
(***************************************************************************)
(* Theorems about Routing, for every forest of lists and routes, whatever   *)
(* its depth.  Around, Declared, Prefixes and Middlewares recurse along the *)
(* tree; TreeInduction and TreeRecursion, which follow from the assumption  *)
(* that no list is inside itself, give their equations.  The invariant:     *)
(*   Types       the types, and that routes in no list are never built      *)
(*   GuardInv    a route always has the guards it is owed                   *)
(*   ConfineInv  and no guard of a list that is not around it               *)
(*   PathInv     prefixes before and after the first build of a router      *)
(*   Handed      what was registered, the properties themselves             *)
(***************************************************************************)
EXTENDS Routing, TLAPS, SequenceTheorems

-----------------------------------------------------------------------------
(* Induction and recursion along the tree.                                  *)

\* In any set of lists and routes there is one whose list is not in the set.
LEMMA Outermost ==
  ASSUME NEW S, S \subseteq Nodes, S # {}
  PROVE  \E n \in S : Parent[n] \notin S
<1>1. CASE S \cap Lists = {}
  <2>1. PICK n : n \in S
    OBVIOUS
  <2> QED
    BY <1>1, <2>1, TreeAssumption DEF Nodes
<1>2. CASE S \cap Lists # {}
  <2>1. PICK l \in S \cap Lists : Parent[l] \notin S \cap Lists
    BY <1>2, TreeAssumption
  <2>2. Parent[l] \in Lists \cup {Top} /\ Top \notin S
    BY <2>1, TreeAssumption DEF Nodes
  <2> QED
    BY <2>1, <2>2
<1> QED
  BY <1>1, <1>2

\* Induction: T holds the nodes of D if it holds each whose list, if that is in D, it holds.
LEMMA TreeInduction ==
  ASSUME NEW D, D \subseteq Nodes, NEW T,
         \A n \in D : (Parent[n] \in D => Parent[n] \in T) => n \in T
  PROVE  D \subseteq T
<1> SUFFICES ASSUME D \ T # {} PROVE FALSE
  OBVIOUS
<1>1. PICK n \in D \ T : Parent[n] \notin D \ T
  BY Outermost
<1> QED
  BY <1>1

\* A value for the nodes of D, from the value for the list around each if that is in D too.
Follows(g, D, base, step) ==
  \A n \in D : g[n] = IF Parent[n] \in D THEN step[<<n, g[Parent[n]]>>] ELSE base[n]

\* g follows on a part of D that is closed under Parent.
On(C, D, g, base, step) ==
  /\ C \subseteq D /\ \A n \in C : Parent[n] \in D => Parent[n] \in C
  /\ \A n \in C : g[n] = IF Parent[n] \in D THEN step[<<n, g[Parent[n]]>>] ELSE base[n]

LEMMA PartsAgree ==
  ASSUME NEW D, D \subseteq Nodes, NEW base, NEW step, NEW C1, NEW g1, NEW C2, NEW g2,
         On(C1, D, g1, base, step), On(C2, D, g2, base, step)
  PROVE  \A n \in C1 \cap C2 : g1[n] = g2[n]
<1> DEFINE T == {n \in C1 : g1[n] = g2[n]}
           D12 == C1 \cap C2
<1>1. ASSUME NEW n \in D12, Parent[n] \in D12 => Parent[n] \in T PROVE n \in T
  <2>1. CASE Parent[n] \in D
    BY <1>1, <2>1 DEF On
  <2>2. CASE Parent[n] \notin D
    BY <1>1, <2>2 DEF On
  <2> QED
    BY <2>1, <2>2
<1>2. D12 \subseteq Nodes
  BY DEF On
<1>3. D12 \subseteq T
  <2> HIDE DEF T, D12
  <2> QED
    BY <1>1, <1>2, TreeInduction
<1> QED
  BY <1>3

LEMMA TreeRecursion ==
  ASSUME NEW D, D \subseteq Nodes, NEW V, NEW base \in [D -> V], NEW step \in [D \X V -> V]
  PROVE  \E f \in [D -> V] : Follows(f, D, base, step)
<1> DEFINE Part(C, g) == g \in [D -> V] /\ On(C, D, g, base, step)
           Value(n, v) == \E C, g : Part(C, g) /\ n \in C /\ v = g[n]
           f == [n \in D |-> CHOOSE v : Value(n, v)]
<1>1. ASSUME NEW n \in D PROVE \E C, g : Part(C, g) /\ n \in C
  <2> DEFINE T == {m \in D : \E C, g : Part(C, g) /\ m \in C}
  <2>1. SUFFICES \A m \in D : (Parent[m] \in D => Parent[m] \in T) => m \in T
    <3>1. D \subseteq T
      <4> HIDE DEF T
      <4> QED
        BY <2>1, TreeInduction
    <3> QED
      BY <1>1, <3>1
  <2>2. SUFFICES ASSUME NEW m \in D, Parent[m] \in D => Parent[m] \in T, m \notin T PROVE FALSE
    OBVIOUS
  <2>3. CASE Parent[m] \in D
    <3>1. PICK C, g : Part(C, g) /\ Parent[m] \in C
      BY <2>2, <2>3
    <3>2. m \notin C
      BY <2>2, <3>1
    <3> DEFINE h == [g EXCEPT ![m] = step[<<m, g[Parent[m]]>>]]
    <3>3. h \in [D -> V]
      BY <2>2, <2>3, <3>1
    <3>4. h[m] = step[<<m, g[Parent[m]]>>] /\ \A x \in C : h[x] = g[x]
      BY <2>2, <3>1, <3>2 DEF On
    <3>5. On(C \cup {m}, D, h, base, step)
      <4> HIDE DEF h
      <4>1. m \in D /\ Parent[m] \in C /\ h[Parent[m]] = g[Parent[m]]
        BY <2>2, <3>1, <3>4
      <4>2. ASSUME NEW x \in C
            PROVE  /\ x \in D /\ (Parent[x] \in D => Parent[x] \in C)
                   /\ h[x] = IF Parent[x] \in D THEN step[<<x, h[Parent[x]]>>] ELSE base[x]
        BY <3>1, <3>4, <4>2 DEF On
      <4> QED
        BY <2>3, <3>4, <4>1, <4>2 DEF On
    <3> HIDE DEF h
    <3> QED
      BY <2>2, <3>3, <3>5
  <2>4. CASE Parent[m] \notin D
    <3>1. Part({m}, base)
      BY <2>2, <2>4 DEF On
    <3> QED
      BY <2>2, <3>1
  <2> QED
    BY <2>3, <2>4
<1>2. ASSUME NEW C, NEW g, Part(C, g), NEW n \in C PROVE f[n] = g[n]
  <2>1. n \in D /\ Value(n, g[n])
    BY <1>2 DEF On
  <2>2. \A v : Value(n, v) => v = g[n]
    <3> TAKE v
    <3> HAVE Value(n, v)
    <3>1. PICK C2, g2 : Part(C2, g2) /\ n \in C2 /\ v = g2[n]
      OBVIOUS
    <3> QED
      BY <1>2, <3>1, PartsAgree
  <2> HIDE DEF Value
  <2> QED
    BY <2>1, <2>2
<1>3. f \in [D -> V]
  <2>1. ASSUME NEW n \in D PROVE f[n] \in V
    <3>1. PICK C, g : Part(C, g) /\ n \in C
      BY <1>1
    <3>2. f[n] = g[n]
      <4> HIDE DEF f, Part
      <4> QED
        BY <1>2, <3>1
    <3> HIDE DEF f
    <3> QED
      BY <3>1, <3>2
  <2> QED
    BY <2>1
<1>4. Follows(f, D, base, step)
  <2> SUFFICES ASSUME NEW n \in D
               PROVE  f[n] = IF Parent[n] \in D THEN step[<<n, f[Parent[n]]>>] ELSE base[n]
    BY DEF Follows
  <2>1. PICK C, g : Part(C, g) /\ n \in C
    BY <1>1
  <2> HIDE DEF f
  <2>2. f[n] = g[n] /\ (Parent[n] \in D => Parent[n] \in C /\ f[Parent[n]] = g[Parent[n]])
    <3>1. Parent[n] \in D => Parent[n] \in C
      BY <2>1 DEF On
    <3> HIDE DEF Part
    <3> QED
      BY <1>2, <2>1, <3>1
  <2> QED
    BY <2>1, <2>2 DEF On
<1> QED
  BY <1>3, <1>4

LEMMA ParentFacts ==
  ASSUME NEW n \in Nodes
  PROVE  /\ Parent[n] \in Lists \cup {Top} /\ (Parent[n] # Top <=> Parent[n] \in Nodes)
         /\ Parent[n] # Top => Parent[n] \in Lists
  BY TreeAssumption DEF Nodes

LEMMA AroundDef ==
  /\ Around \in [Nodes -> Seq(Lists)]
  /\ \A n \in Nodes :
       Around[n] = IF Parent[n] = Top THEN <<>> ELSE <<Parent[n]>> \o Around[Parent[n]]
<1> DEFINE base == [n \in Nodes |-> <<>>]
           step == [x \in Nodes \X Seq(Lists) |->
                      IF Parent[x[1]] = Top THEN <<>> ELSE <<Parent[x[1]]>> \o x[2]]
           Right(f) == f = [n \in Nodes |-> IF Parent[n] = Top THEN <<>>
                                            ELSE <<Parent[n]>> \o f[Parent[n]]]
<1>1. base \in [Nodes -> Seq(Lists)]
  OBVIOUS
<1>2. step \in [Nodes \X Seq(Lists) -> Seq(Lists)]
  <2>1. ASSUME NEW n \in Nodes, NEW s \in Seq(Lists), Parent[n] # Top
        PROVE  <<Parent[n]>> \o s \in Seq(Lists)
    <3>1. <<Parent[n]>> \in Seq(Lists)
      BY <2>1, ParentFacts
    <3> QED
      BY <3>1
  <2> QED
    BY <2>1
<1>3. PICK f \in [Nodes -> Seq(Lists)] : Follows(f, Nodes, base, step)
  <2> HIDE DEF base, step
  <2> QED
    BY <1>1, <1>2, TreeRecursion
<1>4. ASSUME NEW n \in Nodes
      PROVE  f[n] = IF Parent[n] = Top THEN <<>> ELSE <<Parent[n]>> \o f[Parent[n]]
  <2>1. f[n] = IF Parent[n] \in Nodes THEN step[<<n, f[Parent[n]]>>] ELSE base[n]
    BY <1>3 DEF Follows
  <2>2. CASE Parent[n] = Top
    BY <2>1, <2>2, ParentFacts
  <2>3. CASE Parent[n] # Top
    <3>1. Parent[n] \in Nodes /\ f[Parent[n]] \in Seq(Lists)
      BY <2>3, ParentFacts
    <3>2. step[<<n, f[Parent[n]]>>] = <<Parent[n]>> \o f[Parent[n]]
      BY <2>3, <3>1
    <3> HIDE DEF step
    <3> QED
      BY <2>1, <2>3, <3>1, <3>2
  <2> QED
    BY <2>2, <2>3
<1>5. Right(f)
  BY <1>4
<1>6. Around = CHOOSE g : Right(g)
  BY DEF Around
<1>7. Right(Around)
  <2> HIDE DEF Right
  <2> QED
    BY <1>5, <1>6
<1>8. \A n \in Nodes : Around[n] = f[n]
  <2> DEFINE T == {n \in Nodes : Around[n] = f[n]}
  <2>1. ASSUME NEW n \in Nodes, Parent[n] \in Nodes => Parent[n] \in T PROVE n \in T
    <3>1. Around[n] = IF Parent[n] = Top THEN <<>> ELSE <<Parent[n]>> \o Around[Parent[n]]
      BY <1>7, <2>1
    <3> QED
      BY <1>4, <2>1, <3>1, ParentFacts
  <2>2. Nodes \subseteq T
    <3> HIDE DEF T
    <3> QED
      BY <2>1, TreeInduction
  <2> QED
    BY <2>2
<1>9. Around = [n \in Nodes |-> f[n]]
  BY <1>7, <1>8
<1> QED
  BY <1>4, <1>9, ParentFacts

LEMMA DeclaredDef ==
  /\ Declared \in [Nodes -> Seq(Names)]
  /\ \A n \in Nodes :
       Declared[n] = IF Parent[n] = Top THEN Segment[n] ELSE Declared[Parent[n]] \o Segment[n]
<1> DEFINE base == Segment
           step == [x \in Nodes \X Seq(Names) |-> x[2] \o Segment[x[1]]]
           Right(f) == f = [n \in Nodes |-> IF Parent[n] = Top THEN Segment[n]
                                            ELSE f[Parent[n]] \o Segment[n]]
<1>1. base \in [Nodes -> Seq(Names)]
  BY TreeAssumption
<1>2. step \in [Nodes \X Seq(Names) -> Seq(Names)]
  <2>1. ASSUME NEW n \in Nodes, NEW s \in Seq(Names) PROVE s \o Segment[n] \in Seq(Names)
    <3>1. Segment[n] \in Seq(Names)
      BY TreeAssumption
    <3> QED
      BY <3>1
  <2> QED
    BY <2>1
<1>3. PICK f \in [Nodes -> Seq(Names)] : Follows(f, Nodes, base, step)
  <2> HIDE DEF base, step
  <2> QED
    BY <1>1, <1>2, TreeRecursion
<1>4. ASSUME NEW n \in Nodes
      PROVE  f[n] = IF Parent[n] = Top THEN Segment[n] ELSE f[Parent[n]] \o Segment[n]
  <2>1. f[n] = IF Parent[n] \in Nodes THEN step[<<n, f[Parent[n]]>>] ELSE base[n]
    BY <1>3 DEF Follows
  <2>2. CASE Parent[n] = Top
    BY <2>1, <2>2, ParentFacts
  <2>3. CASE Parent[n] # Top
    <3>1. Parent[n] \in Nodes /\ f[Parent[n]] \in Seq(Names)
      BY <2>3, ParentFacts
    <3>2. step[<<n, f[Parent[n]]>>] = f[Parent[n]] \o Segment[n]
      BY <3>1
    <3> HIDE DEF step
    <3> QED
      BY <2>1, <2>3, <3>1, <3>2
  <2> QED
    BY <2>2, <2>3
<1>5. Right(f)
  BY <1>4
<1>6. Declared = CHOOSE g : Right(g)
  BY DEF Declared
<1>7. Right(Declared)
  <2> HIDE DEF Right
  <2> QED
    BY <1>5, <1>6
<1>8. \A n \in Nodes : Declared[n] = f[n]
  <2> DEFINE T == {n \in Nodes : Declared[n] = f[n]}
  <2>1. ASSUME NEW n \in Nodes, Parent[n] \in Nodes => Parent[n] \in T PROVE n \in T
    <3>1. Declared[n] = IF Parent[n] = Top THEN Segment[n] ELSE Declared[Parent[n]] \o Segment[n]
      BY <1>7, <2>1
    <3> QED
      BY <1>4, <2>1, <3>1, ParentFacts
  <2>2. Nodes \subseteq T
    <3> HIDE DEF T
    <3> QED
      BY <2>1, TreeInduction
  <2> QED
    BY <2>2
<1>9. Declared = [n \in Nodes |-> f[n]]
  BY <1>7, <1>8
<1> QED
  BY <1>4, <1>9, ParentFacts

LEMMA AncestorsFacts ==
  ASSUME NEW n \in Nodes
  PROVE  /\ Ancestors[n] \subseteq Lists
         /\ Parent[n] = Top => Ancestors[n] = {}
         /\ Parent[n] # Top => Ancestors[n] = {Parent[n]} \cup Ancestors[Parent[n]]
<1>1. /\ Around[n] \in Seq(Lists)
      /\ Parent[n] # Top => Parent[n] \in Lists /\ Parent[n] \in Nodes
                            /\ Around[Parent[n]] \in Seq(Lists)
  BY AroundDef, ParentFacts
<1>2. \A m \in Nodes : Ancestors[m] = {Around[m][i] : i \in 1..Len(Around[m])}
  BY AroundDef DEF Ancestors
<1>3. CASE Parent[n] = Top
  <2>1. Around[n] = <<>>
    BY <1>3, AroundDef
  <2> QED
    BY <1>2, <1>3, <2>1
<1>4. CASE Parent[n] # Top
  <2>1. Around[n] = <<Parent[n]>> \o Around[Parent[n]]
    BY <1>4, AroundDef
  <2> DEFINE s == Around[Parent[n]]
             t == Around[n]
  <2>2. /\ Len(t) = Len(s) + 1 /\ Len(s) \in Nat /\ t[1] = Parent[n]
        /\ \A i \in 1..Len(s) : t[i + 1] = s[i]
    BY <1>1, <1>4, <2>1
  <2>3. Ancestors[n] = {t[i] : i \in 1..Len(t)} /\ Ancestors[Parent[n]] = {s[i] : i \in 1..Len(s)}
    BY <1>1, <1>2, <1>4
  <2>4. \A i \in 1..Len(t) : t[i] \in Lists
    BY <1>1
  <2> HIDE DEF s, t
  <2>5. \A i \in 1..Len(t) : i = 1 \/ (i - 1 \in 1..Len(s) /\ t[i] = s[i - 1])
    <3> TAKE i \in 1..Len(t)
    <3>1. CASE i # 1
      <4>1. i - 1 \in 1..Len(s) /\ (i - 1) + 1 = i
        BY <2>2, <3>1
      <4> QED
        BY <2>2, <4>1
    <3> QED
      BY <3>1
  <2>6. \A i \in 1..Len(s) : i + 1 \in 1..Len(t) /\ 1 \in 1..Len(t)
    BY <2>2
  <2>7. {t[i] : i \in 1..Len(t)} = {Parent[n]} \cup {s[i] : i \in 1..Len(s)}
    <3>1. 1 \in 1..Len(t)
      BY <2>2
    <3>2. \A x \in {t[i] : i \in 1..Len(t)} : x \in {Parent[n]} \cup {s[i] : i \in 1..Len(s)}
      BY <2>2, <2>5
    <3>3. \A i \in 1..Len(s) : s[i] \in {t[k] : k \in 1..Len(t)}
      BY <2>2, <2>6
    <3>4. Parent[n] \in {t[i] : i \in 1..Len(t)}
      BY <2>2, <3>1
    <3> QED
      BY <3>2, <3>3, <3>4
  <2> QED
    BY <1>4, <2>3, <2>4, <2>7
<1> QED
  BY <1>3, <1>4

LEMMA BelowFacts ==
  ASSUME NEW r \in Lists
  PROVE  /\ Below[r] \subseteq Nodes
         /\ \A n \in Nodes : n \in Below[r] <=> r \in Ancestors[n]
         /\ \A n \in Below[r] : Parent[n] = r \/ Parent[n] \in Below[r]
         /\ \A n \in Nodes : Parent[n] = r \/ Parent[n] \in Below[r] => n \in Below[r]
<1>1. /\ Below[r] \subseteq Nodes
      /\ \A n \in Nodes : n \in Below[r] <=> r \in Ancestors[n]
  BY DEF Below
<1>2. ASSUME NEW n \in Below[r] PROVE Parent[n] = r \/ Parent[n] \in Below[r]
  <2>1. r \in Ancestors[n] /\ n \in Nodes
    BY <1>1
  <2>2. Parent[n] \in Nodes /\ (r = Parent[n] \/ r \in Ancestors[Parent[n]])
    BY <2>1, AncestorsFacts, ParentFacts
  <2> QED
    BY <1>1, <2>2
<1>3. ASSUME NEW n \in Nodes, Parent[n] = r \/ Parent[n] \in Below[r] PROVE n \in Below[r]
  <2>1. Parent[n] \in Nodes /\ (Parent[n] = r \/ r \in Ancestors[Parent[n]])
    BY <1>1, <1>3 DEF Nodes
  <2>2. Ancestors[n] = {Parent[n]} \cup Ancestors[Parent[n]]
    BY <2>1, AncestorsFacts, ParentFacts
  <2> QED
    BY <1>1, <2>1, <2>2
<1> QED
  BY <1>1, <1>2, <1>3

\* A router is below no list; what is in no list is its own router.
LEMMA RouterFacts ==
  /\ \A r \in Routers : r \in Lists /\ r \in Nodes /\ r \notin Below[r] /\ Parent[r] = Top
  /\ \A n \in Nodes : RouterOf(n) = IF Parent[n] = Top THEN n ELSE RouterOf(Parent[n])
<1>1. \A r \in Routers : r \in Lists /\ r \in Nodes /\ Parent[r] = Top
  BY DEF Routers, Nodes
<1>2. \A r \in Routers : r \notin Below[r]
  BY <1>1, AncestorsFacts, BelowFacts
<1>3. ASSUME NEW n \in Nodes
      PROVE  RouterOf(n) = IF Parent[n] = Top THEN n ELSE RouterOf(Parent[n])
  <2>1. CASE Parent[n] = Top
    BY <2>1 DEF RouterOf
  <2>2. CASE Parent[n] # Top
    <3> DEFINE s == Around[Parent[n]]
               t == Around[n]
    <3>1. t = <<Parent[n]>> \o s /\ s \in Seq(Lists)
      BY <2>2, AroundDef, ParentFacts
    <3>2. /\ Len(t) = Len(s) + 1 /\ Len(s) \in Nat /\ t[1] = Parent[n]
          /\ \A i \in 1..Len(s) : t[i + 1] = s[i]
      BY <3>1
    <3>3. RouterOf(n) = t[Len(t)]
      BY <2>2 DEF RouterOf
    <3>4. CASE Parent[Parent[n]] = Top
      <4>1. s = <<>>
        BY <2>2, <3>4, AroundDef, ParentFacts
      <4>2. Len(t) = 1
        BY <3>2, <4>1
      <4>3. RouterOf(n) = Parent[n]
        BY <3>2, <3>3, <4>2
      <4> QED
        BY <2>2, <3>4, <4>3 DEF RouterOf
    <3>5. CASE Parent[Parent[n]] # Top
      <4>1. s = <<Parent[Parent[n]]>> \o Around[Parent[Parent[n]]]
            /\ Around[Parent[Parent[n]]] \in Seq(Lists)
        BY <2>2, <3>5, AroundDef, ParentFacts
      <4>2. Len(s) \in 1..Len(s)
        BY <4>1
      <4>3. t[Len(t)] = s[Len(s)]
        BY <3>2, <4>2
      <4> QED
        BY <2>2, <3>3, <3>5, <4>3 DEF RouterOf
    <3> QED
      BY <3>4, <3>5
  <2> QED
    BY <2>1, <2>2
<1> QED
  BY <1>1, <1>2, <1>3

\* The nodes below a router are those that have it for router, other than itself.
LEMMA RouterBelow ==
  ASSUME NEW r \in Routers
  PROVE  \A n \in Nodes : n \in Below[r] <=> RouterOf(n) = r /\ Parent[n] # Top
<1>1. r \in Lists /\ r \in Nodes /\ r \notin Below[r] /\ Parent[r] = Top
  BY RouterFacts
<1> DEFINE T == {n \in Nodes : n \in Below[r] <=> RouterOf(n) = r /\ Parent[n] # Top}
<1>2. ASSUME NEW n \in Nodes, Parent[n] \in Nodes => Parent[n] \in T PROVE n \in T
  <2>1. CASE Parent[n] = Top
    <3>1. n \notin Below[r]
      BY <1>1, <2>1, AncestorsFacts, BelowFacts
    <3> QED
      BY <2>1, <3>1
  <2>2. CASE Parent[n] # Top
    <3> DEFINE p == Parent[n]
    <3>1. p \in Nodes /\ (p \in Below[r] <=> RouterOf(p) = r /\ Parent[p] # Top)
      BY <1>2, <2>2, ParentFacts
    <3>2. RouterOf(n) = RouterOf(p) /\ (Parent[p] = Top => RouterOf(p) = p)
      BY <2>2, <3>1, RouterFacts
    <3>3. n \in Below[r] <=> p = r \/ p \in Below[r]
      BY <1>1, BelowFacts
    <3> HIDE DEF p
    <3>4. n \in Below[r] <=> RouterOf(n) = r
      BY <1>1, <3>1, <3>2, <3>3
    <3> QED
      BY <2>2, <3>4
  <2> QED
    BY <2>1, <2>2
<1>3. Nodes \subseteq T
  <2> HIDE DEF T
  <2> QED
    BY <1>2, TreeInduction
<1> QED
  BY <1>3

\* What is in a list has a list for router.
LEMMA RouterIsList == \A n \in Nodes : Parent[n] # Top => RouterOf(n) \in Routers
<1> DEFINE T == {n \in Nodes : Parent[n] # Top => RouterOf(n) \in Routers}
<1>1. ASSUME NEW n \in Nodes, Parent[n] \in Nodes => Parent[n] \in T PROVE n \in T
  BY <1>1, ParentFacts, RouterFacts DEF Routers
<1>2. Nodes \subseteq T
  <2> HIDE DEF T
  <2> QED
    BY <1>1, TreeInduction
<1> QED
  BY <1>2

-----------------------------------------------------------------------------
(* What a build leaves.                                                     *)

Types ==
  /\ shared \subseteq RouteGuards
  /\ bound \subseteq {n \in Routes : Parent[n] # Top} /\ http_routes \subseteq bound
  /\ middlewares \in [Nodes -> SUBSET Guards] /\ prefix \in [Nodes -> Seq(Names)]
  /\ due \in [Nodes -> SUBSET Guards] /\ nth \in [Lists -> Nat]
  /\ \A n \in Routes : n \notin bound => middlewares[n] = {} /\ prefix[n] = <<>>

LEMMA AttributeFacts ==
  ASSUME Types
  PROVE  /\ \A n \in Nodes : Attribute(n) \in SUBSET Guards
         /\ \A n \in Lists : Attribute(n) = middlewares[n]
         /\ \A n \in bound : Attribute(n) = middlewares[n]
         /\ \A n \in Routes \ bound : Attribute(n) = shared
  BY TreeAssumption DEF Types, Attribute, Guards

\* build_prefix
LEMMA PrefixFacts ==
  ASSUME NEW r \in Routers, prefix \in [Nodes -> Seq(Names)]
  PROVE  /\ Prefixes(r) \in [Nodes -> Seq(Names)]
         /\ \A n \in Nodes \ Below[r] : Prefixes(r)[n] = prefix[n]
         /\ \A n \in Below[r] :
              LET group == IF Parent[n] = r THEN <<>> ELSE Prefixes(r)[Parent[n]]
              IN  Prefixes(r)[n] = IF n \in Routes THEN prefix[r] \o (group \o prefix[n])
                                   ELSE group \o prefix[n]
<1> DEFINE D == Below[r]
           V == Seq(Names)
           base == [n \in D |-> prefix[n]]
           step == [x \in D \X V |-> x[2] \o prefix[x[1]]]
           Right(f) == f = [n \in D |-> (IF Parent[n] = r THEN <<>> ELSE f[Parent[n]]) \o prefix[n]]
           Inner == CHOOSE g : Right(g)
<1>1. /\ D \subseteq Nodes /\ r \notin D /\ r \in Nodes
      /\ \A n \in D : Parent[n] = r \/ Parent[n] \in D
  BY BelowFacts, RouterFacts
<1>2. \A n \in D : prefix[n] \in V
  BY <1>1
<1>3. base \in [D -> V]
  BY <1>2
<1>4. step \in [D \X V -> V]
  <2>1. ASSUME NEW n \in D, NEW s \in V PROVE s \o prefix[n] \in V
    BY <1>2
  <2> HIDE DEF V, D
  <2> QED
    BY <2>1
<1>5. PICK f \in [D -> V] : Follows(f, D, base, step)
  <2> HIDE DEF base, step, D, V
  <2> QED
    BY <1>1, <1>3, <1>4, TreeRecursion
<1>6. ASSUME NEW n \in D
      PROVE  f[n] = (IF Parent[n] = r THEN <<>> ELSE f[Parent[n]]) \o prefix[n]
  <2>1. f[n] = IF Parent[n] \in D THEN step[<<n, f[Parent[n]]>>] ELSE base[n]
    BY <1>5 DEF Follows
  <2>2. CASE Parent[n] = r
    <3>1. f[n] = prefix[n]
      BY <1>1, <2>1, <2>2
    <3>2. <<>> \o prefix[n] = prefix[n]
      BY <1>2
    <3> QED
      BY <2>2, <3>1, <3>2
  <2>3. CASE Parent[n] # r
    <3>1. Parent[n] \in D /\ f[Parent[n]] \in V
      BY <1>1, <1>5, <2>3
    <3>2. step[<<n, f[Parent[n]]>>] = f[Parent[n]] \o prefix[n]
      BY <3>1
    <3> HIDE DEF step
    <3> QED
      BY <2>1, <2>3, <3>1, <3>2
  <2> QED
    BY <2>2, <2>3
<1>7. Right(f)
  BY <1>6
<1>8. Right(Inner)
  <2> HIDE DEF Right
  <2> QED
    BY <1>7
<1>9. Prefixes(r) = [n \in Nodes |-> IF n \notin D THEN prefix[n]
                                     ELSE IF n \in Routes THEN prefix[r] \o Inner[n] ELSE Inner[n]]
  BY DEF Prefixes
<1> HIDE DEF Inner
<1>10. \A n \in D : Inner[n] = f[n]
  <2> DEFINE T == {n \in D : Inner[n] = f[n]}
  <2>1. ASSUME NEW n \in D, Parent[n] \in D => Parent[n] \in T PROVE n \in T
    <3>1. Inner[n] = (IF Parent[n] = r THEN <<>> ELSE Inner[Parent[n]]) \o prefix[n]
      BY <1>8, <2>1
    <3> QED
      BY <1>1, <1>6, <2>1, <3>1
  <2>2. D \subseteq T
    <3> HIDE DEF T, D
    <3> QED
      BY <1>1, <2>1, TreeInduction
  <2> QED
    BY <2>2
<1> HIDE DEF D, V, base, step, Right
<1>11. ASSUME NEW n \in Nodes PROVE Prefixes(r)[n] \in V
  <2>1. CASE n \notin D
    BY <1>9, <2>1 DEF V
  <2>2. CASE n \in D
    <3>1. f[n] \in Seq(Names) /\ prefix[r] \in Seq(Names)
      BY <1>1, <1>5, <2>2 DEF V
    <3>2. prefix[r] \o f[n] \in Seq(Names)
      BY <3>1
    <3> QED
      BY <1>9, <1>10, <2>2, <3>1, <3>2 DEF V
  <2> QED
    BY <2>1, <2>2
<1>12. Prefixes(r) \in [Nodes -> V]
  BY <1>9, <1>11
<1>13. ASSUME NEW n \in D
       PROVE  LET group == IF Parent[n] = r THEN <<>> ELSE Prefixes(r)[Parent[n]]
              IN  Prefixes(r)[n] = IF n \in Routes THEN prefix[r] \o (group \o prefix[n])
                                   ELSE group \o prefix[n]
  <2>1. Parent[n] # r => Parent[n] \in D /\ Parent[n] \in Nodes /\ Parent[n] \notin Routes
    BY <1>1, ParentFacts, TreeAssumption
  <2>2. Parent[n] # r => Prefixes(r)[Parent[n]] = f[Parent[n]]
    BY <1>9, <1>10, <2>1
  <2>3. f[n] = (IF Parent[n] = r THEN <<>> ELSE Prefixes(r)[Parent[n]]) \o prefix[n]
    BY <1>6, <2>2
  <2>4. Prefixes(r)[n] = IF n \in Routes THEN prefix[r] \o f[n] ELSE f[n]
    BY <1>1, <1>9, <1>10
  <2> QED
    BY <2>3, <2>4
<1> QED
  BY <1>9, <1>12, <1>13 DEF D, V

\* build_middleware
LEMMA MiddlewareFacts ==
  ASSUME NEW r \in Routers, Types
  PROVE  /\ Middlewares(r) \in [Nodes -> SUBSET Guards]
         /\ \A n \in Nodes \ Below[r] : Middlewares(r)[n] = middlewares[n]
         /\ \A n \in Below[r] :
              Middlewares(r)[n] = Attribute(n) \cup middlewares[r]
                \cup (IF Parent[n] = r THEN {} ELSE Middlewares(r)[Parent[n]])
<1> DEFINE D == Below[r]
           V == SUBSET Guards
           base == [n \in D |-> Attribute(n) \cup middlewares[r]]
           step == [x \in D \X V |-> Attribute(x[1]) \cup middlewares[r] \cup x[2]]
           Right(f) == f = [n \in D |-> Attribute(n) \cup middlewares[r]
                                          \cup (IF Parent[n] = r THEN {} ELSE f[Parent[n]])]
           Inner == CHOOSE g : Right(g)
<1>1. /\ D \subseteq Nodes /\ r \notin D /\ r \in Nodes
      /\ \A n \in D : Parent[n] = r \/ Parent[n] \in D
  BY BelowFacts, RouterFacts
<1>2. middlewares[r] \in V /\ \A n \in D : Attribute(n) \in V
  BY <1>1, AttributeFacts DEF Types
<1>3. base \in [D -> V]
  BY <1>2
<1>4. step \in [D \X V -> V]
  BY <1>2
<1>5. PICK f \in [D -> V] : Follows(f, D, base, step)
  <2> HIDE DEF base, step, D, V
  <2> QED
    BY <1>1, <1>3, <1>4, TreeRecursion
<1>6. ASSUME NEW n \in D
      PROVE  f[n] = Attribute(n) \cup middlewares[r]
                      \cup (IF Parent[n] = r THEN {} ELSE f[Parent[n]])
  <2>1. f[n] = IF Parent[n] \in D THEN step[<<n, f[Parent[n]]>>] ELSE base[n]
    BY <1>5 DEF Follows
  <2>2. CASE Parent[n] = r
    BY <1>1, <2>1, <2>2
  <2>3. CASE Parent[n] # r
    <3>1. Parent[n] \in D /\ f[Parent[n]] \in V
      BY <1>1, <1>5, <2>3
    <3>2. step[<<n, f[Parent[n]]>>] = Attribute(n) \cup middlewares[r] \cup f[Parent[n]]
      BY <3>1
    <3> HIDE DEF step
    <3> QED
      BY <2>1, <2>3, <3>1, <3>2
  <2> QED
    BY <2>2, <2>3
<1>7. Right(f)
  BY <1>6
<1>8. Right(Inner)
  <2> HIDE DEF Right
  <2> QED
    BY <1>7
<1>9. Middlewares(r) = [n \in Nodes |-> IF n \in D THEN Inner[n] ELSE middlewares[n]]
  BY DEF Middlewares
<1> HIDE DEF Inner
<1>10. \A n \in D : Inner[n] = f[n]
  <2> DEFINE T == {n \in D : Inner[n] = f[n]}
  <2>1. ASSUME NEW n \in D, Parent[n] \in D => Parent[n] \in T PROVE n \in T
    <3>1. Inner[n] = Attribute(n) \cup middlewares[r]
                       \cup (IF Parent[n] = r THEN {} ELSE Inner[Parent[n]])
      BY <1>8, <2>1
    <3> QED
      BY <1>1, <1>6, <2>1, <3>1
  <2>2. D \subseteq T
    <3> HIDE DEF T, D
    <3> QED
      BY <1>1, <2>1, TreeInduction
  <2> QED
    BY <2>2
<1> HIDE DEF D, V, base, step, Right
<1>11. \A n \in Nodes : Middlewares(r)[n] \in V
  BY <1>5, <1>9, <1>10 DEF V, Types
<1>12. Middlewares(r) \in [Nodes -> V]
  BY <1>9, <1>11
<1>13. ASSUME NEW n \in D
       PROVE  Middlewares(r)[n] = Attribute(n) \cup middlewares[r]
                \cup (IF Parent[n] = r THEN {} ELSE Middlewares(r)[Parent[n]])
  BY <1>1, <1>6, <1>9, <1>10
<1> QED
  BY <1>9, <1>12, <1>13 DEF D, V

-----------------------------------------------------------------------------
(* The inductive invariant.                                                 *)

\* The middlewares of the lists around n.
Reach(n) == UNION {middlewares[l] : l \in Ancestors[n]}

\* A route has the guards it is owed at any time, not only when it is registered.
GuardInv == \A n \in Routes : due[n] \subseteq Attribute(n)

\* The lists whose middlewares a route has are around it.
ConfineInv == \A n \in Routes : Attribute(n) \cap ListGuards \subseteq Reach(n)

\* Until its router is built a list has the prefix it was given, and a route has no
\* list of its own; the first build leaves the path the declarations give.
PathInv ==
  /\ \A l \in Lists : nth[RouterOf(l)] = 0 => prefix[l] = Segment[l]
  /\ \A n \in bound : nth[RouterOf(n)] # 0
  /\ \A n \in bound : nth[RouterOf(n)] = 1 => prefix[n] \o Segment[n] = Declared[n]

Handed == router \subseteq Entries /\ Guarded /\ Confined /\ PathsRight

RoutingInv == Types /\ GuardInv /\ ConfineInv /\ PathInv /\ Handed

LEMMA RoutesInit == Init => RoutingInv
<1> SUFFICES ASSUME Init PROVE RoutingInv
  OBVIOUS
<1>1. Types
  <2>1. ASSUME NEW n \in Nodes PROVE prefix[n] \in Seq(Names)
    <3>1. Segment[n] \in Seq(Names) /\ <<>> \in Seq(Names)
      BY TreeAssumption
    <3>2. prefix[n] = IF n \in Lists THEN Segment[n] ELSE <<>>
      BY DEF Init
    <3> QED
      BY <3>1, <3>2
  <2>2. prefix \in [Nodes -> Seq(Names)]
    BY <2>1 DEF Init
  <2>3. \A n \in Routes : prefix[n] = <<>>
    BY TreeAssumption DEF Init, Nodes
  <2> QED
    BY <2>2, <2>3 DEF Init, Types, Nodes
<1>2. GuardInv
  BY DEF Init, GuardInv, Nodes
<1>3. ConfineInv
  BY DEF Init, ConfineInv, Attribute
<1>4. PathInv
  BY DEF Init, PathInv, Nodes
<1>5. Handed
  BY DEF Init, Handed, Guarded, Confined, PathsRight
<1> QED
  BY <1>1, <1>2, <1>3, <1>4, <1>5 DEF RoutingInv

-----------------------------------------------------------------------------
(* One build.                                                               *)

\* What is below the router has its own middlewares and those of the lists around it.
LEMMA BuildReaches ==
  ASSUME NEW r \in Routers, Types
  PROVE  \A n \in Below[r] : Attribute(n) \cup Reach(n) \subseteq Middlewares(r)[n]
<1> DEFINE D == Below[r]
           T == {n \in D : Attribute(n) \cup Reach(n) \subseteq Middlewares(r)[n]}
<1>1. /\ D \subseteq Nodes /\ r \in Nodes /\ Ancestors[r] = {}
      /\ \A n \in D : Parent[n] = r \/ Parent[n] \in D
  BY BelowFacts, RouterFacts, AncestorsFacts
<1>2. \A n \in D : Middlewares(r)[n] = Attribute(n) \cup middlewares[r]
                     \cup (IF Parent[n] = r THEN {} ELSE Middlewares(r)[Parent[n]])
  BY MiddlewareFacts
<1>3. ASSUME NEW n \in D, Parent[n] \in D => Parent[n] \in T PROVE n \in T
  <2>1. Parent[n] \in Nodes /\ Parent[n] \in Lists
    BY <1>1, ParentFacts DEF Nodes, Routers
  <2>2. Ancestors[n] = {Parent[n]} \cup Ancestors[Parent[n]]
    BY <1>1, <2>1, AncestorsFacts, ParentFacts
  <2>3. Reach(n) = middlewares[Parent[n]] \cup Reach(Parent[n])
    BY <2>2 DEF Reach
  <2>4. CASE Parent[n] = r
    <3>1. Reach(r) = {}
      BY <1>1 DEF Reach
    <3> QED
      BY <1>2, <2>3, <2>4, <3>1
  <2>5. CASE Parent[n] # r
    <3>1. Parent[n] \in T /\ Attribute(Parent[n]) = middlewares[Parent[n]]
      BY <1>1, <1>3, <2>1, <2>5, AttributeFacts
    <3> QED
      BY <1>2, <2>3, <2>5, <3>1
  <2> QED
    BY <2>4, <2>5
<1>4. D \subseteq T
  <2> HIDE DEF T, D
  <2> QED
    BY <1>1, <1>3, TreeInduction
<1> QED
  BY <1>4

\* The first build leaves each list the path to it, without the prefix of the router.
LEMMA BuildPaths ==
  ASSUME NEW r \in Routers, Types, PathInv, nth[r] = 0
  PROVE  /\ prefix[r] = Declared[r]
         /\ \A l \in Below[r] \cap Lists : prefix[r] \o Prefixes(r)[l] = Declared[l]
<1> DEFINE D == Below[r] \cap Lists
           T == {l \in D : prefix[r] \o Prefixes(r)[l] = Declared[l]}
<1>1. /\ D \subseteq Nodes /\ r \in Nodes /\ r \in Lists /\ RouterOf(r) = r
      /\ \A n \in D : Parent[n] \in Lists /\ (Parent[n] = r \/ Parent[n] \in D)
  BY BelowFacts, RouterFacts, ParentFacts DEF Nodes
<1>2. prefix[r] = Segment[r] /\ Declared[r] = Segment[r]
  BY <1>1, DeclaredDef, RouterFacts DEF PathInv
<1>3. prefix[r] \in Seq(Names) /\ Prefixes(r) \in [Nodes -> Seq(Names)]
  BY <1>1, PrefixFacts DEF Types
<1>4. \A n \in Below[r] :
        LET group == IF Parent[n] = r THEN <<>> ELSE Prefixes(r)[Parent[n]]
        IN  Prefixes(r)[n] = IF n \in Routes THEN prefix[r] \o (group \o prefix[n])
                             ELSE group \o prefix[n]
  BY PrefixFacts DEF Types
<1>5. ASSUME NEW l \in D, Parent[l] \in D => Parent[l] \in T PROVE l \in T
  <2>1. l \in Nodes /\ l \notin Routes /\ prefix[l] = Segment[l] /\ Segment[l] \in Seq(Names)
    BY <1>1, RouterBelow, TreeAssumption DEF PathInv
  <2>2. Declared[l] = Declared[Parent[l]] \o Segment[l]
    BY <1>1, <2>1, DeclaredDef, ParentFacts DEF Nodes
  <2>3. Prefixes(r)[l] = (IF Parent[l] = r THEN <<>> ELSE Prefixes(r)[Parent[l]]) \o Segment[l]
    BY <1>4, <2>1
  <2>4. CASE Parent[l] = r
    <3>1. Prefixes(r)[l] = Segment[l]
      BY <2>1, <2>3, <2>4, ConcatEmptySeq
    <3> QED
      BY <1>2, <2>2, <2>4, <3>1
  <2>5. CASE Parent[l] # r
    <3>1. Parent[l] \in D /\ prefix[r] \o Prefixes(r)[Parent[l]] = Declared[Parent[l]]
      BY <1>1, <1>5, <2>5
    <3>2. Prefixes(r)[Parent[l]] \in Seq(Names)
      BY <1>1, <1>3, <3>1
    <3>3. prefix[r] \o (Prefixes(r)[Parent[l]] \o Segment[l])
            = (prefix[r] \o Prefixes(r)[Parent[l]]) \o Segment[l]
      <4>1. PICK x, y, z : x = prefix[r] /\ y = Prefixes(r)[Parent[l]] /\ z = Segment[l]
        OBVIOUS
      <4>2. x \o (y \o z) = (x \o y) \o z
        <5>1. x \in Seq(Names) /\ y \in Seq(Names) /\ z \in Seq(Names)
          BY <1>3, <2>1, <3>2, <4>1
        <5> QED
          BY <5>1, ConcatAssociative
      <4> QED
        BY <4>1, <4>2
    <3> QED
      BY <2>2, <2>3, <2>5, <3>1, <3>3
  <2> QED
    BY <2>4, <2>5
<1>6. D \subseteq T
  <2> HIDE DEF T, D
  <2> QED
    BY <1>1, <1>5, TreeInduction
<1> QED
  BY <1>2, <1>6

\* What a build changes is below its router.
LEMMA BuildFacts ==
  ASSUME NEW r \in Routers, Types, Build(r)
  PROVE  /\ Types'
         /\ \A n \in Nodes \ Below[r] : Attribute(n)' = Attribute(n) /\ prefix'[n] = prefix[n]
         /\ \A n \in Below[r] : Attribute(n)' = Middlewares(r)[n]
         /\ \A n \in Nodes : Reach(n) \subseteq Reach(n)'
         /\ nth'[r] = nth[r] + 1 /\ \A l \in Lists \ {r} : nth'[l] = nth[l]
<1>1. /\ Below[r] \subseteq Nodes /\ r \in Lists /\ r \in Nodes /\ r \notin Below[r]
      /\ \A n \in Below[r] : Parent[n] # Top
  BY BelowFacts, RouterFacts, RouterBelow
<1>2. /\ middlewares' = Middlewares(r) /\ prefix' = Prefixes(r) /\ shared' = shared
      /\ bound' = bound \cup (Below[r] \cap Routes)
      /\ http_routes' = http_routes \cup (Below[r] \cap Routes)
      /\ nth' = [nth EXCEPT ![r] = @ + 1]
  BY DEF Build, Built
<1>3. /\ middlewares' \in [Nodes -> SUBSET Guards]
      /\ \A n \in Nodes \ Below[r] : middlewares'[n] = middlewares[n]
  BY <1>2, MiddlewareFacts
<1>4. /\ prefix' \in [Nodes -> Seq(Names)]
      /\ \A n \in Nodes \ Below[r] : prefix'[n] = prefix[n]
  BY <1>2, PrefixFacts DEF Types
<1>5. nth' \in [Lists -> Nat] /\ nth'[r] = nth[r] + 1 /\ \A l \in Lists \ {r} : nth'[l] = nth[l]
  BY <1>1, <1>2 DEF Types
<1>6. ASSUME NEW n \in Nodes \ Below[r] PROVE Attribute(n)' = Attribute(n)
  BY <1>2, <1>3, <1>6 DEF Attribute
<1>7. ASSUME NEW n \in Below[r] PROVE Attribute(n)' = Middlewares(r)[n]
  BY <1>2, <1>7 DEF Attribute
<1>8. \A l \in Lists : middlewares[l] \subseteq middlewares'[l]
  <2> TAKE l \in Lists
  <2>1. l \in Nodes /\ Attribute(l) = middlewares[l]
    BY AttributeFacts DEF Nodes
  <2>2. CASE l \in Below[r]
    <3>1. Attribute(l) \subseteq Middlewares(r)[l]
      BY <2>2, MiddlewareFacts
    <3> QED
      BY <1>2, <2>1, <3>1
  <2>3. CASE l \notin Below[r]
    BY <1>3, <2>1, <2>3
  <2> QED
    BY <2>2, <2>3
<1>9. ASSUME NEW n \in Nodes PROVE Reach(n) \subseteq Reach(n)'
  BY <1>8, AncestorsFacts DEF Reach
<1>10. due' \in [Nodes -> SUBSET Guards]
  <2>1. \A n \in Nodes : UNION {middlewares[l] : l \in Ancestors[n]} \subseteq Guards
    <3>1. \A n \in Nodes : \A l \in Ancestors[n] : middlewares[l] \subseteq Guards
      BY AncestorsFacts DEF Types, Nodes
    <3> QED
      BY <3>1
  <2> DEFINE U(n) == UNION {middlewares[l] : l \in Ancestors[n]}
  <2>2. due' = [n \in Nodes |-> IF n \in Below[r] \cap Routes THEN due[n] \cup U(n) ELSE due[n]]
    BY DEF Build
  <2>3. \A n \in Nodes : U(n) \in SUBSET Guards /\ due[n] \in SUBSET Guards
    BY <2>1 DEF Types
  <2> HIDE DEF U
  <2> QED
    BY <2>2, <2>3
<1>11. Types'
  <2>1. shared' \subseteq RouteGuards
    BY <1>2 DEF Types
  <2>2. bound' \subseteq {n \in Routes : Parent[n] # Top} /\ http_routes' \subseteq bound'
    BY <1>1, <1>2 DEF Types
  <2>3. ASSUME NEW n \in Routes, n \notin bound' PROVE middlewares'[n] = {} /\ prefix'[n] = <<>>
    <3>1. n \in Nodes /\ n \notin Below[r] /\ n \notin bound
      BY <1>2, <2>3 DEF Nodes
    <3> QED
      BY <1>3, <1>4, <3>1 DEF Types
  <2> QED
    BY <1>3, <1>4, <1>5, <1>10, <2>1, <2>2, <2>3 DEF Types
<1> QED
  BY <1>4, <1>5, <1>6, <1>7, <1>9, <1>11

LEMMA BuildKeeps ==
  ASSUME NEW r \in Routers, Types, GuardInv, ConfineInv, PathInv, Build(r)
  PROVE  (Types /\ GuardInv /\ ConfineInv /\ PathInv)'
<1>1. /\ Types'
      /\ \A n \in Nodes \ Below[r] : Attribute(n)' = Attribute(n) /\ prefix'[n] = prefix[n]
      /\ \A n \in Below[r] : Attribute(n)' = Middlewares(r)[n]
      /\ \A n \in Nodes : Reach(n) \subseteq Reach(n)'
      /\ nth'[r] = nth[r] + 1 /\ \A l \in Lists \ {r} : nth'[l] = nth[l]
  BY BuildFacts
<1>2. /\ Below[r] \subseteq Nodes /\ r \in Lists /\ r \in Nodes /\ r \notin Below[r]
      /\ \A n \in Nodes : n \in Below[r] <=> RouterOf(n) = r /\ Parent[n] # Top
      /\ \A l \in Lists : RouterOf(l) \in Lists
  <2>1. \A l \in Lists : RouterOf(l) \in Lists
    BY RouterIsList, RouterFacts DEF Nodes, Routers
  <2> QED
    BY <2>1, BelowFacts, RouterFacts, RouterBelow
<1>3. bound' = bound \cup (Below[r] \cap Routes) /\ prefix' = Prefixes(r)
  BY DEF Build
<1>4. GuardInv'
  <2> SUFFICES ASSUME NEW n \in Routes PROVE due'[n] \subseteq Attribute(n)'
    BY DEF GuardInv
  <2>1. n \in Nodes /\ due[n] \subseteq Attribute(n)
    BY DEF Nodes, GuardInv
  <2>2. due'[n] = IF n \in Below[r] \cap Routes THEN due[n] \cup Reach(n) ELSE due[n]
    BY <2>1 DEF Build, Reach
  <2>3. CASE n \in Below[r]
    <3>1. Attribute(n) \cup Reach(n) \subseteq Middlewares(r)[n]
      BY <2>3, BuildReaches
    <3> QED
      BY <1>1, <2>1, <2>2, <2>3, <3>1
  <2>4. CASE n \notin Below[r]
    BY <1>1, <2>1, <2>2, <2>4
  <2> QED
    BY <2>3, <2>4
<1>5. ConfineInv'
  <2> SUFFICES ASSUME NEW n \in Routes PROVE Attribute(n)' \cap ListGuards \subseteq Reach(n)'
    BY DEF ConfineInv
  <2>1. n \in Nodes /\ Attribute(n) \cap ListGuards \subseteq Reach(n)
    BY DEF Nodes, ConfineInv
  <2>2. CASE n \in Below[r]
    <3>1. Attribute(n)' = Attribute(n) \cup middlewares[r]
            \cup (IF Parent[n] = r THEN {} ELSE Middlewares(r)[Parent[n]])
      BY <1>1, <2>2, MiddlewareFacts
    <3>2. /\ Middlewares(r)[r] = middlewares[r] /\ r \in Ancestors[n]
          /\ Parent[n] # r => Parent[n] \in Ancestors[n]
      BY <1>2, <2>1, <2>2, MiddlewareFacts, BelowFacts, AncestorsFacts
    <3>3. \A l \in Ancestors[n] : Middlewares(r)[l] \subseteq Reach(n)'
      BY DEF Reach, Build
    <3> QED
      BY <1>1, <2>1, <3>1, <3>2, <3>3
  <2>3. CASE n \notin Below[r]
    BY <1>1, <2>1, <2>3
  <2> QED
    BY <2>2, <2>3
<1>6. ASSUME NEW l \in Lists, nth'[RouterOf(l)] = 0 PROVE prefix'[l] = Segment[l]
  <2>1. l \in Nodes /\ RouterOf(l) \in Lists /\ nth[r] \in Nat
    BY <1>2 DEF Nodes, Types
  <2>2. RouterOf(l) # r
    BY <1>1, <1>6, <2>1
  <2>3. l \notin Below[r] /\ nth[RouterOf(l)] = 0
    BY <1>1, <1>2, <1>6, <2>1, <2>2
  <2> QED
    BY <1>1, <2>1, <2>3 DEF PathInv
<1>7. ASSUME NEW n \in bound' PROVE nth'[RouterOf(n)] # 0
  <2>1. n \in Nodes /\ RouterOf(n) \in Lists /\ nth[r] \in Nat
    BY <1>1, <1>7, RouterIsList DEF Nodes, Types, Routers
  <2>2. CASE RouterOf(n) = r
    BY <1>1, <2>1, <2>2
  <2>3. CASE RouterOf(n) # r
    <3>1. n \in bound
      BY <1>2, <1>3, <1>7, <2>1, <2>3
    <3> QED
      BY <1>1, <2>1, <2>3, <3>1 DEF PathInv
  <2> QED
    BY <2>2, <2>3
<1>8. ASSUME NEW n \in bound', nth'[RouterOf(n)] = 1
      PROVE  prefix'[n] \o Segment[n] = Declared[n]
  <2>1. /\ n \in Nodes /\ n \in Routes /\ RouterOf(n) \in Lists /\ nth[r] \in Nat
        /\ Parent[n] # Top
    BY <1>1, <1>8, RouterIsList DEF Nodes, Types, Routers
  <2>2. CASE RouterOf(n) = r
    <3>1. nth[r] = 0
      BY <1>1, <1>8, <2>1, <2>2
    <3>2. n \in Below[r] /\ n \notin bound /\ prefix[n] = <<>>
      BY <1>2, <2>1, <2>2, <3>1 DEF PathInv, Types
    <3>3. Parent[n] = r \/ Parent[n] \in Below[r] \cap Lists
      BY <1>2, <2>1, <3>2, BelowFacts, ParentFacts
    <3>4. Declared[n] = Declared[Parent[n]] \o Segment[n]
      BY <2>1, DeclaredDef
    <3>5. prefix[r] \in Seq(Names) /\ Prefixes(r) \in [Nodes -> Seq(Names)]
      BY <1>2, PrefixFacts DEF Types
    <3>6. Prefixes(r)[n]
            = prefix[r] \o ((IF Parent[n] = r THEN <<>> ELSE Prefixes(r)[Parent[n]]) \o <<>>)
      <4>1. \A m \in Below[r] :
              LET group == IF Parent[m] = r THEN <<>> ELSE Prefixes(r)[Parent[m]]
              IN  Prefixes(r)[m] = IF m \in Routes THEN prefix[r] \o (group \o prefix[m])
                                   ELSE group \o prefix[m]
        BY PrefixFacts DEF Types
      <4> QED
        BY <2>1, <3>2, <4>1
    <3>7. prefix'[n] = Declared[Parent[n]]
      <4>1. CASE Parent[n] = r
        <5>1. Prefixes(r)[n] = prefix[r]
          BY <3>5, <3>6, <4>1, ConcatEmptySeq, EmptySeq
        <5> QED
          BY <1>3, <3>1, <4>1, <5>1, BuildPaths
      <4>2. CASE Parent[n] # r
        <5>1. Prefixes(r)[Parent[n]] \in Seq(Names)
          BY <1>2, <3>3, <3>5, <4>2
        <5>2. Prefixes(r)[n] = prefix[r] \o Prefixes(r)[Parent[n]]
          BY <3>6, <4>2, <5>1, ConcatEmptySeq
        <5> QED
          BY <1>3, <3>1, <3>3, <4>2, <5>2, BuildPaths
      <4> QED
        BY <4>1, <4>2
    <3> QED
      BY <3>4, <3>7
  <2>3. CASE RouterOf(n) # r
    <3>1. n \in bound /\ n \notin Below[r] /\ nth[RouterOf(n)] = 1
      BY <1>1, <1>2, <1>3, <1>8, <2>1, <2>3
    <3> QED
      BY <1>1, <2>1, <3>1 DEF PathInv
  <2> QED
    BY <2>2, <2>3
<1>9. PathInv'
  BY <1>6, <1>7, <1>8 DEF PathInv
<1> QED
  BY <1>1, <1>4, <1>5, <1>9

-----------------------------------------------------------------------------
(* Every step keeps the invariant.                                          *)

\* Nothing changes when no list or route does.
LEMMA ObjectsKeep ==
  ASSUME Types, GuardInv, ConfineInv, PathInv, UNCHANGED <<objects, due, nth>>
  PROVE  (Types /\ GuardInv /\ ConfineInv /\ PathInv)'
<1>1. /\ prefix' = prefix /\ middlewares' = middlewares /\ shared' = shared /\ bound' = bound
      /\ http_routes' = http_routes /\ due' = due /\ nth' = nth
  BY DEF objects
<1>2. \A n \in Nodes : Attribute(n)' = Attribute(n) /\ Reach(n)' = Reach(n)
  BY <1>1 DEF Attribute, Reach
<1>3. Types'
  BY <1>1 DEF Types
<1>4. GuardInv' /\ ConfineInv'
  BY <1>1, <1>2 DEF GuardInv, ConfineInv, Nodes
<1>5. PathInv'
  BY <1>1 DEF PathInv
<1> QED
  BY <1>3, <1>4, <1>5

\* Routers handed over earlier: the middlewares of lists only grow.
LEMMA HandedKeeps ==
  ASSUME RoutingInv, UNCHANGED router, \A n \in Nodes : Reach(n) \subseteq Reach(n)'
  PROVE  Handed'
<1>1. ASSUME NEW e \in router
      PROVE  e.guards \cap ListGuards \subseteq UNION {middlewares'[l] : l \in Ancestors[e.route]}
  <2>1. e \in Entries /\ e.guards \cap ListGuards \subseteq Reach(e.route)
    BY <1>1 DEF RoutingInv, Handed, Confined, Reach
  <2>2. e.route \in Nodes
    BY <2>1 DEF Entries, Nodes
  <2>3. \A n \in Nodes : Reach(n) \subseteq UNION {middlewares'[l] : l \in Ancestors[n]}
    BY DEF Reach
  <2> QED
    BY <2>1, <2>2, <2>3
<1>2. Confined'
  BY <1>1 DEF Confined
<1> QED
  BY <1>2 DEF RoutingInv, Handed, Guarded, PathsRight

LEMMA GuardListKeeps ==
  ASSUME RoutingInv, NEW n \in Nodes, NEW g \in Guards, GuardList(n, g)
  PROVE  RoutingInv'
<1>1. /\ n \in Lists /\ n \notin Routes
      /\ middlewares' = [middlewares EXCEPT ![n] = @ \cup {g}]
      /\ prefix' = prefix /\ shared' = shared /\ bound' = bound /\ http_routes' = http_routes
      /\ router' = router /\ due' = due /\ nth' = nth
  BY TreeAssumption DEF GuardList
<1>2. Types /\ GuardInv /\ ConfineInv /\ PathInv
  BY DEF RoutingInv
<1>3. /\ middlewares' \in [Nodes -> SUBSET Guards]
      /\ \A m \in Nodes : middlewares[m] \subseteq middlewares'[m]
      /\ \A m \in Routes : middlewares'[m] = middlewares[m]
  BY <1>1, <1>2 DEF Types, Nodes
<1>4. \A m \in Routes : Attribute(m)' = Attribute(m)
  BY <1>1, <1>3, TreeAssumption DEF Attribute
<1>5. \A m \in Nodes : Reach(m) \subseteq Reach(m)'
  BY <1>3, AncestorsFacts DEF Reach, Nodes
<1>6. Types'
  BY <1>1, <1>2, <1>3 DEF Types
<1>7. GuardInv' /\ ConfineInv'
  BY <1>1, <1>2, <1>4, <1>5 DEF GuardInv, ConfineInv, Nodes
<1>8. PathInv'
  BY <1>1, <1>2 DEF PathInv
<1>9. Handed'
  BY <1>1, <1>5, HandedKeeps
<1> QED
  BY <1>6, <1>7, <1>8, <1>9 DEF RoutingInv

LEMMA GuardRouteKeeps ==
  ASSUME RoutingInv, NEW n \in Nodes, NEW g \in Guards, GuardRoute(n, g)
  PROVE  RoutingInv'
<1>1. /\ n \in Routes /\ n \notin Lists /\ g \in RouteGuards /\ g \notin ListGuards
      /\ IF n \in bound
           THEN middlewares' = [middlewares EXCEPT ![n] = @ \cup {g}] /\ shared' = shared
           ELSE shared' = shared \cup {g} /\ middlewares' = middlewares
      /\ due' = [due EXCEPT ![n] = @ \cup {g}]
      /\ prefix' = prefix /\ bound' = bound /\ http_routes' = http_routes
      /\ router' = router /\ nth' = nth
  BY TreeAssumption DEF GuardRoute
<1>2. Types /\ GuardInv /\ ConfineInv /\ PathInv
  BY DEF RoutingInv
<1>3. /\ middlewares' \in [Nodes -> SUBSET Guards] /\ due' \in [Nodes -> SUBSET Guards]
      /\ \A l \in Lists : middlewares'[l] = middlewares[l]
      /\ \A m \in Nodes : m # n \/ n \notin bound => middlewares'[m] = middlewares[m]
  <2>1. n \in Nodes /\ g \in Guards
    OBVIOUS
  <2>2. middlewares \in [Nodes -> SUBSET Guards] /\ due \in [Nodes -> SUBSET Guards]
    BY <1>2 DEF Types
  <2>3. due' \in [Nodes -> SUBSET Guards]
    BY <1>1, <2>1, <2>2
  <2>4. \/ middlewares' = middlewares /\ n \notin bound
        \/ middlewares' = [middlewares EXCEPT ![n] = @ \cup {g}] /\ n \in bound
    BY <1>1
  <2>5. /\ middlewares' \in [Nodes -> SUBSET Guards]
        /\ \A m \in Nodes : m # n \/ n \notin bound => middlewares'[m] = middlewares[m]
    BY <2>1, <2>2, <2>4
  <2>6. \A l \in Lists : l \in Nodes /\ l # n
    BY <1>1 DEF Nodes
  <2> QED
    BY <2>3, <2>5, <2>6
<1>4. \A m \in Nodes : Reach(m)' = Reach(m)
  BY <1>3, AncestorsFacts DEF Reach
<1>5. \A m \in Routes : /\ Attribute(m) \subseteq Attribute(m)'
                        /\ Attribute(m)' \subseteq Attribute(m) \cup {g}
  BY <1>1, <1>2 DEF Attribute, Types, Nodes
<1>6. g \in Attribute(n)'
  BY <1>1, <1>2 DEF Attribute, Types, Nodes
<1>7. Types'
  <2>1. shared' \subseteq RouteGuards
    BY <1>1, <1>2 DEF Types
  <2>2. \A m \in Routes : m \notin bound => middlewares'[m] = {}
    BY <1>2, <1>3 DEF Types, Nodes
  <2> QED
    BY <1>1, <1>2, <1>3, <2>1, <2>2 DEF Types
<1>8. GuardInv'
  <2> SUFFICES ASSUME NEW m \in Routes PROVE due'[m] \subseteq Attribute(m)'
    BY DEF GuardInv
  <2>1. due[m] \subseteq Attribute(m)
    BY <1>2 DEF GuardInv
  <2>2. due'[m] = IF m = n THEN due[m] \cup {g} ELSE due[m]
    BY <1>1, <1>2 DEF Types, Nodes
  <2> QED
    BY <1>5, <1>6, <2>1, <2>2
<1>9. ConfineInv'
  BY <1>1, <1>2, <1>4, <1>5 DEF ConfineInv, Nodes
<1>10. PathInv'
  BY <1>1, <1>2 DEF PathInv
<1>11. Handed'
  BY <1>1, <1>4, HandedKeeps
<1> QED
  BY <1>7, <1>8, <1>9, <1>10, <1>11 DEF RoutingInv

LEMMA UrlKeeps ==
  ASSUME RoutingInv, NEW r \in Routers, Url(r)
  PROVE  RoutingInv'
<1>1. Types /\ GuardInv /\ ConfineInv /\ PathInv /\ Build(r) /\ router' = router
  BY DEF RoutingInv, Url
<1>2. (Types /\ GuardInv /\ ConfineInv /\ PathInv)'
  BY <1>1, BuildKeeps
<1>3. Handed'
  BY <1>1, BuildFacts, HandedKeeps
<1> QED
  BY <1>2, <1>3 DEF RoutingInv

\* What is handed over is what the invariant says of the routes built so far.
LEMMA RegisterKeeps ==
  ASSUME RoutingInv, NEW r \in Routers, Register(r)
  PROVE  RoutingInv'
<1>1. Types /\ GuardInv /\ ConfineInv /\ PathInv /\ Build(r)
  BY DEF RoutingInv, Register
<1>2. (Types /\ GuardInv /\ ConfineInv /\ PathInv)'
  BY <1>1, BuildKeeps
<1>3. ASSUME NEW e \in router'
      PROVE  /\ e \in Entries /\ e.due \subseteq e.guards
             /\ e.guards \cap ListGuards
                  \subseteq UNION {middlewares'[l] : l \in Ancestors[e.route]}
             /\ e.nth = 1 => e.path = Declared[e.route]
  <2>1. PICK n \in http_routes' :
          e = [route |-> n, path |-> prefix'[n] \o Segment[n], guards |-> middlewares'[n],
               due |-> due'[n], nth |-> nth'[RouterOf(n)]]
    BY <1>3 DEF Register
  <2>2. n \in bound' /\ n \in Routes /\ n \in Nodes /\ RouterOf(n) \in Lists
    BY <1>2, RouterIsList DEF Types, Nodes, Routers
  <2>3. Attribute(n)' = middlewares'[n]
    BY <2>2 DEF Attribute
  <2>4. /\ middlewares'[n] \in SUBSET Guards /\ due'[n] \in SUBSET Guards
        /\ nth'[RouterOf(n)] \in Nat
    BY <1>2, <2>2 DEF Types
  <2>5. prefix'[n] \o Segment[n] \in Seq(Names)
    <3>1. PICK x, y : x = prefix'[n] /\ y = Segment[n]
      OBVIOUS
    <3>2. x \in Seq(Names) /\ y \in Seq(Names)
      BY <1>2, <2>2, <3>1, TreeAssumption DEF Types
    <3> QED
      BY <3>1, <3>2
  <2>6. e \in Entries
    <3>1. PICK p, m, d, k : /\ p = prefix'[n] \o Segment[n] /\ m = middlewares'[n]
                            /\ d = due'[n] /\ k = nth'[RouterOf(n)]
      OBVIOUS
    <3>2. e = [route |-> n, path |-> p, guards |-> m, due |-> d, nth |-> k]
      BY <2>1, <3>1
    <3>3. p \in Seq(Names) /\ m \in SUBSET Guards /\ d \in SUBSET Guards /\ k \in Nat
      BY <2>4, <2>5, <3>1
    <3> QED
      BY <2>2, <3>2, <3>3 DEF Entries
  <2>7. due'[n] \subseteq middlewares'[n]
    BY <1>2, <2>2, <2>3 DEF GuardInv
  <2>8. middlewares'[n] \cap ListGuards \subseteq UNION {middlewares'[l] : l \in Ancestors[n]}
    BY <1>2, <2>2, <2>3 DEF ConfineInv, Reach
  <2>9. nth'[RouterOf(n)] = 1 => prefix'[n] \o Segment[n] = Declared[n]
    BY <1>2, <2>2 DEF PathInv
  <2>10. /\ e.route = n /\ e.path = prefix'[n] \o Segment[n] /\ e.guards = middlewares'[n]
         /\ e.due = due'[n] /\ e.nth = nth'[RouterOf(n)]
    BY <2>1
  <2> QED
    BY <2>6, <2>7, <2>8, <2>9, <2>10
<1>4. Handed'
  BY <1>3 DEF Handed, Guarded, Confined, PathsRight
<1> QED
  BY <1>2, <1>4 DEF RoutingInv

\* A route in no list is never built: it has the path it was given and the guards of its class.
LEMMA RegisterRouteKeeps ==
  ASSUME RoutingInv, NEW n \in Routes, RegisterRoute(n)
  PROVE  RoutingInv'
<1>1. /\ Parent[n] = Top /\ n \in Nodes
      /\ prefix' = prefix /\ middlewares' = middlewares /\ shared' = shared /\ bound' = bound
      /\ http_routes' = http_routes /\ due' = due /\ nth' = nth
  BY DEF RegisterRoute, objects, Nodes
<1>2. Types /\ GuardInv /\ ConfineInv /\ PathInv
  BY DEF RoutingInv
<1>3. (Types /\ GuardInv /\ ConfineInv /\ PathInv)'
  BY <1>2, ObjectsKeep DEF RegisterRoute
<1>4. ASSUME NEW e \in router'
      PROVE  /\ e \in Entries /\ e.due \subseteq e.guards
             /\ e.guards \cap ListGuards
                  \subseteq UNION {middlewares'[l] : l \in Ancestors[e.route]}
             /\ e.nth = 1 => e.path = Declared[e.route]
  <2>1. e = [route |-> n, path |-> prefix[n] \o Segment[n], guards |-> Attribute(n),
             due |-> due[n], nth |-> 1]
    BY <1>4 DEF RegisterRoute
  <2>2. n \notin bound /\ prefix[n] = <<>> /\ Segment[n] \in Seq(Names)
    BY <1>1, <1>2, TreeAssumption DEF Types
  <2>3. prefix[n] \o Segment[n] = Segment[n] /\ Declared[n] = Segment[n]
    BY <1>1, <2>2, DeclaredDef, ConcatEmptySeq
  <2>4. Attribute(n) \in SUBSET Guards /\ due[n] \in SUBSET Guards /\ due[n] \subseteq Attribute(n)
    BY <1>1, <1>2, AttributeFacts DEF GuardInv, Types
  <2>5. Attribute(n) \cap ListGuards \subseteq UNION {middlewares'[l] : l \in Ancestors[n]}
    BY <1>1, <1>2 DEF ConfineInv, Reach
  <2>6. e = [route |-> n, path |-> Segment[n], guards |-> Attribute(n), due |-> due[n], nth |-> 1]
    BY <2>1, <2>3
  <2>7. e \in Entries
    <3>1. PICK p, m, d : p = Segment[n] /\ m = Attribute(n) /\ d = due[n]
      OBVIOUS
    <3>2. e = [route |-> n, path |-> p, guards |-> m, due |-> d, nth |-> 1]
      BY <2>6, <3>1
    <3>3. p \in Seq(Names) /\ m \in SUBSET Guards /\ d \in SUBSET Guards
      BY <2>2, <2>4, <3>1
    <3> QED
      BY <3>2, <3>3 DEF Entries
  <2>8. e.route = n /\ e.path = Segment[n] /\ e.guards = Attribute(n) /\ e.due = due[n]
    BY <2>6
  <2> QED
    BY <2>3, <2>4, <2>5, <2>7, <2>8
<1>5. Handed'
  BY <1>4 DEF Handed, Guarded, Confined, PathsRight
<1> QED
  BY <1>3, <1>5 DEF RoutingInv

LEMMA RoutesStep == RoutingInv /\ [Next]_vars => RoutingInv'
<1> SUFFICES ASSUME RoutingInv, [Next]_vars PROVE RoutingInv'
  OBVIOUS
<1>1. ASSUME NEW n \in Nodes, NEW g \in Guards, GuardList(n, g) PROVE RoutingInv'
  BY <1>1, GuardListKeeps
<1>2. ASSUME NEW n \in Nodes, NEW g \in Guards, GuardRoute(n, g) PROVE RoutingInv'
  BY <1>2, GuardRouteKeeps
<1>3. ASSUME NEW r \in Routers, Register(r) PROVE RoutingInv'
  BY <1>3, RegisterKeeps
<1>4. ASSUME NEW r \in Routers, Url(r) PROVE RoutingInv'
  BY <1>4, UrlKeeps
<1>5. ASSUME NEW n \in Routes, RegisterRoute(n) PROVE RoutingInv'
  BY <1>5, RegisterRouteKeeps
<1>6. CASE UNCHANGED vars
  <2>1. (Types /\ GuardInv /\ ConfineInv /\ PathInv)'
    BY <1>6, ObjectsKeep DEF vars, objects, RoutingInv
  <2>2. Handed'
    <3>1. \A n \in Nodes : Reach(n) \subseteq Reach(n)'
      BY <1>6 DEF vars, Reach
    <3> QED
      BY <1>6, <3>1, HandedKeeps DEF vars
  <2> QED
    BY <2>1, <2>2 DEF RoutingInv
<1> QED
  BY <1>1, <1>2, <1>3, <1>4, <1>5, <1>6 DEF Next

LEMMA RoutesHold == Spec => []RoutingInv
  BY RoutesInit, RoutesStep, PTL DEF Spec

-----------------------------------------------------------------------------
(* Theorems.                                                                *)

\* The types, and what they say of the code: the list of the class never holds a
\* middleware of a list, only built routes are collected, an unbuilt route has nothing.
THEOREM RoutingTypesCorrect == Spec => []TypeOK
<1>1. RoutingInv => TypeOK
  BY DEF RoutingInv, Types, Handed, TypeOK
<1> QED
  BY <1>1, RoutesHold, PTL

\* No route is registered without a middleware given to it, or to a list around it
\* before its router was built, for every forest of lists and every order of calls.
THEOREM RoutesGuarded == Spec => []Guarded
<1>1. RoutingInv => Guarded
  BY DEF RoutingInv, Handed
<1> QED
  BY <1>1, RoutesHold, PTL

\* A middleware given to a list reaches no route outside that list, although routes
\* share the list of the class and every build returns the same list of routes.
THEOREM GuardsConfined == Spec => []Confined
<1>1. RoutingInv => Confined
  BY DEF RoutingInv, Handed
<1> QED
  BY <1>1, RoutesHold, PTL

\* What build_prefix folds in place on the first build of a router is the path that the
\* declarations read, at every depth of lists, and other builds leave it so.
THEOREM FirstPathsRight == Spec => []PathsRight
<1>1. RoutingInv => PathsRight
  BY DEF RoutingInv, Handed
<1> QED
  BY <1>1, RoutesHold, PTL
=============================================================================
