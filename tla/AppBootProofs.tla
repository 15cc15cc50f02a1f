---------------------------- MODULE AppBootProofs ----------------------------
(***************************************************************************)
(* Theorems about AppBoot, for every set of providers.  The parts of the    *)
(* inductive invariant:                                                    *)
(*   TypeInv    the types, with what the container keeps for each key       *)
(*   CountInv   how often objects were booted: in a boot loop those before  *)
(*              its position once more than those after it may have been    *)
(*   BoundInv   what is bound when: the loops go through their lists in     *)
(*              order, so what stands before their position is bound        *)
(*   ObjectInv  every key that was made was bound, and what boot methods    *)
(*              were given is what the container keeps                      *)
(* The last two hold if the providers are listed in order, ProvidersInOrder. *)
(***************************************************************************)
EXTENDS AppBoot, TLAPS, FiniteSetTheorems

ContainerStates ==
  [bindings : SUBSET Abstracts, instances : [Abstracts -> Nat], made : [Abstracts -> Nat],
   handed : [Abstracts -> SUBSET Nat], unresolved : SUBSET (Providers \X Abstracts)]

\* What is kept was built, for a key that is bound.
Sound(c) ==
  /\ c \in ContainerStates
  /\ \A a \in Abstracts : c.instances[a] <= c.made[a] /\ (c.instances[a] # 0 => a \in c.bindings)

\* Bindings stay, and so do the objects of singletons: those are not built again.
Keeps(c, d) ==
  /\ c.bindings \subseteq d.bindings
  /\ \A a \in Shared : c.instances[a] # 0 =>
       d.instances[a] = c.instances[a] /\ d.made[a] = c.made[a]

\* Nobody made what was not bound, and who was given a singleton has the one kept.
Clean(c) ==
  /\ c.unresolved = {}
  /\ \A a \in Shared : \A x \in c.handed[a] : x = c.instances[a] /\ x # 0

TypeInv ==
  /\ order \in Orders
  /\ stage \in {"down", "register", "base", "boot", "up"}
  /\ todo \in Seq(Providers) /\ service_providers \in Seq(Providers)
  /\ boots \in Seq(Nat) /\ Len(boots) = Len(service_providers)
  /\ next \in 1..(Len(boots) + 1)
  /\ booted \in BOOLEAN /\ failures \in Nat
  /\ Sound(Now)

\* The boot loop has been at an object, or it was booted as it was registered.
Behind(i) == booted \/ (stage = "boot" /\ i < next)

Counted(i) == /\ Behind(i) => boots[i] \in 1..(1 + failures)
              /\ ~Behind(i) => boots[i] <= failures

CountInv ==
  /\ stage = "up" => booted
  /\ stage = "boot" => ~booted
  /\ \A i \in 1..Len(boots) : Counted(i)

\* How many providers of the list this lifespan has registered.
Taken == Len(order) - Len(todo)

\* A provider object is one of the list, after those before it in the list, or the routing
\* provider, or one that the boot of a listed provider registered.
Placed(n) ==
  \/ service_providers[n] = Routing
  \/ \E p \in Listed(order) : Extra[p] # None /\ service_providers[n] = Extra[p]
  \/ \E k \in DOMAIN order : /\ service_providers[n] = order[k]
                             /\ \A i \in 1..(k - 1) :
                                  \E m \in 1..(n - 1) : service_providers[m] = order[i]

Occurs(p, s) == \E m \in 1..Len(s) : s[m] = p

Everything == BoundAtBoot(order) \cup UNION {BootBound(p) : p \in Listed(order)}

\* The configuration is bound in every lifespan, and the one kept is the newest.
ConfigBound ==
  /\ stage # "down" => Config \in bindings
  /\ Config \in bindings => instances[Config] = made[Config] /\ made[Config] # 0

\* What the loop of RegisterProviders has left behind it.
ListBound ==
  /\ stage \in {"register", "base", "boot"} =>
       /\ Taken \in 0..Len(order)
       /\ \A i \in 1..Len(todo) : todo[i] = order[Taken + i]
       /\ \A i \in 1..Taken : /\ Binds[order[i]] \subseteq bindings
                              /\ ~booted => Occurs(order[i], service_providers)
  /\ stage \in {"base", "boot"} => todo = <<>>
  /\ stage = "boot" => Occurs(Routing, service_providers)

\* What every registered provider has bound, in this lifespan or in one that failed.
ObjectsBound ==
  ~booted => \A n \in 1..Len(service_providers) :
               Binds[service_providers[n]] \subseteq bindings /\ Placed(n)

\* What the boot loop has left behind it.
LoopBound ==
  stage = "boot" => \A m \in 1..(next - 1) : BootBound(service_providers[m]) \subseteq bindings

AllBound == booted => Everything \subseteq bindings

BoundInv == ConfigBound /\ ListBound /\ ObjectsBound /\ LoopBound /\ AllBound

ObjectInv == Clean(Now)

-----------------------------------------------------------------------------
(* The container: what bind, make and the methods of a provider leave of a  *)
(* state that is sound.                                                    *)

LEMMA ProviderFields ==
  ASSUME NEW p \in Providers
  PROVE  /\ Binds[p] \subseteq Abstracts /\ RegisterMakes[p] \subseteq Abstracts
         /\ BootBinds[p] \subseteq Abstracts /\ BootMakes[p] \subseteq Abstracts
         /\ Extra[p] \in Providers \cup {None}
         /\ Extra[p] # None => Extra[p] \in Providers /\ Extra[Extra[p]] = None
  BY ProvidersAssumption

LEMMA KeepsTrans ==
  ASSUME NEW c, NEW d, NEW e, Keeps(c, d), Keeps(d, e) PROVE Keeps(c, e)
  BY DEF Keeps

LEMMA BindFacts ==
  ASSUME NEW c, Sound(c), NEW keys \in SUBSET Abstracts
  PROVE  /\ Sound(Bind(c, keys)) /\ Keeps(c, Bind(c, keys))
         /\ Bind(c, keys).bindings = c.bindings \cup keys
         /\ Bind(c, keys).handed = c.handed
         /\ Clean(c) => Clean(Bind(c, keys))
<1> DEFINE d == Bind(c, keys)
<1>1. /\ d.bindings = c.bindings \cup keys /\ d.instances = c.instances /\ d.made = c.made
      /\ d.handed = c.handed /\ d.unresolved = c.unresolved /\ d \in ContainerStates
  BY DEF Bind, Sound, ContainerStates
<1> HIDE DEF d
<1> QED
  <2>1. Sound(d)
    BY <1>1 DEF Sound
  <2>2. Keeps(c, d)
    BY <1>1 DEF Keeps
  <2>3. Clean(c) => Clean(d)
    BY <1>1 DEF Clean
  <2> QED
    BY <1>1, <2>1, <2>2, <2>3 DEF d

\* The objects that make keeps; of a key that is bound, the object it returns.
LEMMA MakeFacts ==
  ASSUME NEW c, Sound(c), NEW p \in Providers, NEW keys \in SUBSET Abstracts
  PROVE  /\ Sound(Make(c, p, keys)) /\ Keeps(c, Make(c, p, keys))
         /\ Make(c, p, keys).bindings = c.bindings
         /\ Make(c, p, keys).handed = c.handed
         /\ keys \subseteq c.bindings => Make(c, p, keys).unresolved = c.unresolved
         /\ \A a \in keys \cap Shared : a \in c.bindings =>
              /\ Make(c, p, keys).instances[a] = Object(c, a)
              /\ Object(c, a) # 0
              /\ c.instances[a] # 0 => Object(c, a) = c.instances[a]
<1> DEFINE d == Make(c, p, keys)
<1>1. /\ d.bindings = c.bindings /\ d.handed = c.handed
      /\ d.made = [a \in Abstracts |-> IF a \in keys /\ Builds(c, a) THEN c.made[a] + 1
                                       ELSE c.made[a]]
      /\ d.instances = [a \in Abstracts |-> IF a \in keys \cap Shared \cap c.bindings
                                            THEN Object(c, a) ELSE c.instances[a]]
      /\ d.unresolved = c.unresolved \cup {<<p, a>> : a \in keys \ c.bindings}
  BY DEF Make, Sound, ContainerStates
<1>2. \A a \in Abstracts : c.made[a] \in Nat /\ c.instances[a] \in Nat /\ Object(c, a) \in Nat
  BY DEF Sound, ContainerStates, Object
<1>3. d \in ContainerStates
  <2> DEFINE Updated(m, i, u) == [c EXCEPT !.made = m, !.instances = i, !.unresolved = u]
  <2>1. ASSUME NEW m \in [Abstracts -> Nat], NEW i \in [Abstracts -> Nat],
               NEW u \in SUBSET (Providers \X Abstracts)
        PROVE  Updated(m, i, u) \in ContainerStates
    BY DEF Sound, ContainerStates
  <2>2. d.made \in [Abstracts -> Nat] /\ d.instances \in [Abstracts -> Nat]
    BY <1>1, <1>2
  <2>3. d.unresolved \in SUBSET (Providers \X Abstracts)
    BY <1>1 DEF Sound, ContainerStates
  <2>4. d = Updated(d.made, d.instances, d.unresolved)
    BY <1>1 DEF Make
  <2> HIDE DEF d, Updated
  <2> QED
    BY <2>1, <2>2, <2>3, <2>4
<1> HIDE DEF d
<1>4. Sound(d)
  <2> SUFFICES ASSUME NEW a \in Abstracts
               PROVE  d.instances[a] <= d.made[a] /\ (d.instances[a] # 0 => a \in d.bindings)
    BY <1>3 DEF Sound
  <2>1. c.instances[a] <= c.made[a] /\ (c.instances[a] # 0 => a \in c.bindings)
    BY DEF Sound
  <2>2. CASE a \in keys \cap Shared \cap c.bindings
    <3>1. d.instances[a] = Object(c, a) /\ a \in d.bindings
          /\ d.made[a] = (IF Builds(c, a) THEN c.made[a] + 1 ELSE c.made[a])
      BY <1>1, <2>2
    <3> QED
      BY <1>2, <2>1, <3>1 DEF Object
  <2>3. CASE a \notin keys \cap Shared \cap c.bindings
    <3>1. d.instances[a] = c.instances[a] /\ d.made[a] \in {c.made[a], c.made[a] + 1}
      BY <1>1, <2>3
    <3> QED
      BY <1>1, <1>2, <2>1, <3>1
  <2> QED
    BY <2>2, <2>3
<1>5. Keeps(c, d)
  <2> SUFFICES ASSUME NEW a \in Shared, c.instances[a] # 0
               PROVE  d.instances[a] = c.instances[a] /\ d.made[a] = c.made[a]
    BY <1>1 DEF Keeps
  <2>1. a \in Abstracts /\ ~Builds(c, a)
    BY ProvidersAssumption DEF Sound, Builds
  <2> QED
    BY <1>1, <2>1 DEF Object
<1>6. keys \subseteq c.bindings => d.unresolved = c.unresolved
  BY <1>1
<1>7. ASSUME NEW a \in keys \cap Shared, a \in c.bindings
      PROVE  /\ d.instances[a] = Object(c, a) /\ Object(c, a) # 0
             /\ c.instances[a] # 0 => Object(c, a) = c.instances[a]
  <2>1. d.instances[a] = Object(c, a)
    BY <1>1, <1>7
  <2>2. c.instances[a] # 0 => Object(c, a) = c.instances[a]
    BY <1>7 DEF Object, Builds
  <2>3. c.instances[a] = 0 => Object(c, a) = c.made[a] + 1
    BY <1>7 DEF Object, Builds
  <2> QED
    BY <1>2, <1>7, <2>1, <2>2, <2>3
<1> QED
  BY <1>1, <1>4, <1>5, <1>6, <1>7 DEF d

\* If the objects of singletons are kept and nothing is handed out, nothing is unclean.
LEMMA CleanKept ==
  ASSUME NEW c, NEW d, Clean(c), Keeps(c, d), d.handed = c.handed, d.unresolved = c.unresolved
  PROVE  Clean(d)
  BY DEF Clean, Keeps

LEMMA RegisteredFacts ==
  ASSUME NEW c, Sound(c), NEW p \in Providers
  PROVE  LET d == Registered(c, p)
         IN  /\ Sound(d) /\ Keeps(c, d) /\ d.bindings = c.bindings \cup Binds[p]
             /\ Clean(c) /\ RegisterMakes[p] \subseteq c.bindings \cup Binds[p] => Clean(d)
<1> DEFINE b == Bind(c, Binds[p])
           d == Make(b, p, RegisterMakes[p])
<1>1. Binds[p] \in SUBSET Abstracts /\ RegisterMakes[p] \in SUBSET Abstracts
  BY ProviderFields
<1>2. Sound(b) /\ Keeps(c, b) /\ b.bindings = c.bindings \cup Binds[p] /\ (Clean(c) => Clean(b))
  BY <1>1, BindFacts
<1> HIDE DEF b
<1>3. /\ Sound(d) /\ Keeps(b, d) /\ d.bindings = b.bindings /\ d.handed = b.handed
      /\ RegisterMakes[p] \subseteq b.bindings => d.unresolved = b.unresolved
  BY <1>1, <1>2, MakeFacts
<1> HIDE DEF d
<1>4. Clean(c) /\ RegisterMakes[p] \subseteq c.bindings \cup Binds[p] => Clean(d)
  BY <1>2, <1>3, CleanKept
<1>5. Keeps(c, d)
  BY <1>2, <1>3, KeepsTrans
<1>6. Registered(c, p) = d
  BY DEF Registered, d, b
<1> QED
  BY <1>2, <1>3, <1>4, <1>5, <1>6

LEMMA MakeAtBootFacts ==
  ASSUME NEW c, Sound(c), NEW p \in Providers
  PROVE  LET d == MakeAtBoot(c, p)
         IN  /\ Sound(d) /\ Keeps(c, d) /\ d.bindings = c.bindings
             /\ Clean(c) /\ BootMakes[p] \subseteq c.bindings => Clean(d)
<1> DEFINE m == Make(c, p, BootMakes[p])
           d == MakeAtBoot(c, p)
<1>1. BootMakes[p] \in SUBSET Abstracts
  BY ProviderFields
<1>2. /\ Sound(m) /\ Keeps(c, m) /\ m.bindings = c.bindings /\ m.handed = c.handed
      /\ BootMakes[p] \subseteq c.bindings => m.unresolved = c.unresolved
      /\ \A a \in BootMakes[p] \cap Shared : a \in c.bindings =>
           /\ m.instances[a] = Object(c, a) /\ Object(c, a) # 0
           /\ c.instances[a] # 0 => Object(c, a) = c.instances[a]
  BY <1>1, MakeFacts
<1> DEFINE H == [a \in Abstracts |-> IF a \in BootMakes[p] THEN m.handed[a] \cup {Object(c, a)}
                                     ELSE m.handed[a]]
<1>3. d = [m EXCEPT !.handed = H]
  BY DEF MakeAtBoot
<1>4. H \in [Abstracts -> SUBSET Nat]
  <2>1. \A a \in Abstracts : Object(c, a) \in Nat
    BY DEF Sound, ContainerStates, Object
  <2>2. \A a \in Abstracts : m.handed[a] \in SUBSET Nat
    BY <1>2 DEF Sound, ContainerStates
  <2> HIDE DEF m
  <2> QED
    BY <2>1, <2>2
<1>5. ASSUME NEW h \in [Abstracts -> SUBSET Nat]
      PROVE  LET e == [m EXCEPT !.handed = h]
             IN  /\ e \in ContainerStates /\ e.bindings = m.bindings /\ e.handed = h
                 /\ e.instances = m.instances /\ e.made = m.made
                 /\ e.unresolved = m.unresolved
  <2>1. m \in ContainerStates
    BY <1>2 DEF Sound
  <2> HIDE DEF m
  <2> QED
    BY <2>1 DEF ContainerStates
<1>6. /\ d \in ContainerStates /\ d.bindings = m.bindings /\ d.handed = H
      /\ d.instances = m.instances /\ d.made = m.made /\ d.unresolved = m.unresolved
  <2> HIDE DEF H, m, d
  <2> QED
    BY <1>3, <1>4, <1>5
<1> HIDE DEF m, d
<1>7. Sound(d)
  BY <1>2, <1>6 DEF Sound
<1>8. Keeps(c, d) /\ d.bindings = c.bindings
  BY <1>2, <1>6 DEF Keeps
<1>9. ASSUME Clean(c), BootMakes[p] \subseteq c.bindings PROVE Clean(d)
  <2>1. d.unresolved = {}
    BY <1>2, <1>6, <1>9 DEF Clean
  <2>2. ASSUME NEW a \in Shared, NEW x \in d.handed[a] PROVE x = d.instances[a] /\ x # 0
    <3>1. a \in Abstracts
      BY ProvidersAssumption
    <3>2. ASSUME x \in c.handed[a] PROVE x = c.instances[a] /\ x # 0
      BY <1>9, <3>2 DEF Clean
    <3>3. CASE a \in BootMakes[p]
      <4>1. x \in c.handed[a] \/ x = Object(c, a)
        BY <1>2, <1>6, <2>2, <3>1, <3>3
      <4>2. /\ d.instances[a] = Object(c, a) /\ Object(c, a) # 0
            /\ c.instances[a] # 0 => Object(c, a) = c.instances[a]
        BY <1>2, <1>6, <1>9, <3>3
      <4> QED
        BY <3>2, <4>1, <4>2
    <3>4. CASE a \notin BootMakes[p]
      <4>1. x \in c.handed[a]
        BY <1>2, <1>6, <2>2, <3>1, <3>4
      <4> QED
        BY <1>8, <3>2, <4>1 DEF Keeps
    <3> QED
      BY <3>3, <3>4
  <2> QED
    BY <2>1, <2>2 DEF Clean
<1> QED
  BY <1>7, <1>8, <1>9 DEF d

LEMMA BootedInFacts ==
  ASSUME NEW c, Sound(c), NEW p \in Providers
  PROVE  LET d == BootedIn(c, p)
         IN  /\ Sound(d) /\ Keeps(c, d) /\ d.bindings = c.bindings \cup BootBinds[p]
             /\ Clean(c) /\ BootMakes[p] \subseteq c.bindings \cup BootBinds[p] => Clean(d)
<1> DEFINE b == Bind(c, BootBinds[p])
           d == MakeAtBoot(b, p)
<1>1. BootBinds[p] \in SUBSET Abstracts
  BY ProviderFields
<1>2. Sound(b) /\ Keeps(c, b) /\ b.bindings = c.bindings \cup BootBinds[p]
      /\ (Clean(c) => Clean(b))
  BY <1>1, BindFacts
<1> HIDE DEF b
<1>3. /\ Sound(d) /\ Keeps(b, d) /\ d.bindings = b.bindings
      /\ Clean(b) /\ BootMakes[p] \subseteq b.bindings => Clean(d)
  BY <1>2, MakeAtBootFacts
<1> HIDE DEF d
<1>4. Keeps(c, d)
  BY <1>2, <1>3, KeepsTrans
<1>5. BootedIn(c, p) = d
  BY DEF BootedIn, d, b
<1> QED
  BY <1>2, <1>3, <1>4, <1>5

\* A turn of the boot loop: the provider registered by the boot method is part of it.
LEMMA BootFacts ==
  ASSUME NEW c, Sound(c), NEW p \in Providers
  PROVE  LET d == BootedIn(RegisteredExtra(c, p), p)
         IN  /\ Sound(d) /\ Keeps(c, d) /\ d.bindings = c.bindings \cup BootBound(p)
             /\ (/\ Clean(c) /\ BootMakes[p] \subseteq c.bindings \cup BootBound(p)
                 /\ Extra[p] # None =>
                      RegisterMakes[Extra[p]] \subseteq c.bindings \cup Binds[Extra[p]]) => Clean(d)
<1> DEFINE r == RegisteredExtra(c, p)
           d == BootedIn(r, p)
           extra == IF Extra[p] = None THEN {} ELSE Binds[Extra[p]]
<1>1. /\ Sound(r) /\ Keeps(c, r) /\ r.bindings = c.bindings \cup extra
      /\ (/\ Clean(c)
          /\ Extra[p] # None =>
               RegisterMakes[Extra[p]] \subseteq c.bindings \cup Binds[Extra[p]]) => Clean(r)
  <2>1. CASE Extra[p] = None
    <3>1. r = c /\ extra = {}
      BY <2>1 DEF RegisteredExtra
    <3> HIDE DEF r, extra
    <3> QED
      BY <3>1 DEF Keeps
  <2>2. CASE Extra[p] # None
    <3>1. r = Registered(c, Extra[p]) /\ Extra[p] \in Providers /\ extra = Binds[Extra[p]]
      BY <2>2, ProviderFields DEF RegisteredExtra
    <3>2. /\ Sound(r) /\ Keeps(c, r) /\ r.bindings = c.bindings \cup Binds[Extra[p]]
          /\ (/\ Clean(c)
              /\ RegisterMakes[Extra[p]] \subseteq c.bindings \cup Binds[Extra[p]]) => Clean(r)
      <4> HIDE DEF r, extra
      <4> QED
        BY <3>1, RegisteredFacts
    <3> HIDE DEF r, extra
    <3> QED
      BY <2>2, <3>1, <3>2
  <2> QED
    BY <2>1, <2>2
<1> HIDE DEF r
<1>2. /\ Sound(d) /\ Keeps(r, d) /\ d.bindings = r.bindings \cup BootBinds[p]
      /\ Clean(r) /\ BootMakes[p] \subseteq r.bindings \cup BootBinds[p] => Clean(d)
  BY <1>1, BootedInFacts
<1> HIDE DEF d
<1>3. Keeps(c, d)
  BY <1>1, <1>2, KeepsTrans
<1>4. BootBound(p) = BootBinds[p] \cup extra
  BY DEF BootBound
<1> HIDE DEF extra
<1> QED
  BY <1>1, <1>2, <1>3, <1>4 DEF d, r

\* What the methods of a provider, and of the one its boot registers, make of what is not
\* bound by the latter's boot itself.
Needs(p) ==
  RegisterMakes[p] \cup BootMakes[p]
    \cup (IF Extra[p] = None THEN {}
          ELSE RegisterMakes[Extra[p]] \cup (BootMakes[Extra[p]] \ BootBinds[Extra[p]]))

\* The container after a registration when the application is booted, as Register has it.
LateRegistered(c, p) ==
  LET c1 == RegisteredExtra(Registered(c, p), p)
  IN  BootedIn(IF Extra[p] = None THEN c1 ELSE BootedIn(c1, Extra[p]), p)

LEMMA LateFacts ==
  ASSUME NEW c, Sound(c), NEW p \in Providers
  PROVE  LET d == LateRegistered(c, p)
         IN  /\ Sound(d) /\ Keeps(c, d)
             /\ Clean(c) /\ Needs(p) \subseteq c.bindings => Clean(d)
<1> DEFINE r == Registered(c, p)
           c1 == RegisteredExtra(r, p)
           c2 == IF Extra[p] = None THEN c1 ELSE BootedIn(c1, Extra[p])
           d == BootedIn(c2, p)
           Fine(e) == /\ Sound(e) /\ Keeps(c, e)
                      /\ Clean(c) /\ Needs(p) \subseteq c.bindings => Clean(e)
<1>1. /\ RegisterMakes[p] \cup BootMakes[p] \subseteq Needs(p)
      /\ Extra[p] # None =>
           /\ Extra[p] \in Providers
           /\ RegisterMakes[Extra[p]] \subseteq Needs(p)
           /\ BootMakes[Extra[p]] \subseteq Needs(p) \cup BootBinds[Extra[p]]
  BY ProviderFields DEF Needs
<1>2. \A e : Fine(e) => c.bindings \subseteq e.bindings
  BY DEF Keeps
<1>3. Fine(r)
  <2> HIDE DEF r
  <2>1. /\ Sound(r) /\ Keeps(c, r)
        /\ Clean(c) /\ RegisterMakes[p] \subseteq c.bindings \cup Binds[p] => Clean(r)
    BY RegisteredFacts DEF r
  <2> QED
    BY <1>1, <2>1
<1> HIDE DEF r
<1>4. ASSUME NEW e, Fine(e), NEW q \in Providers,
             BootMakes[q] \subseteq Needs(p) \cup BootBinds[q]
      PROVE  Fine(BootedIn(e, q))
  <2> DEFINE b == BootedIn(e, q)
  <2>1. /\ Sound(b) /\ Keeps(e, b)
        /\ Clean(e) /\ BootMakes[q] \subseteq e.bindings \cup BootBinds[q] => Clean(b)
    BY <1>4, BootedInFacts
  <2> HIDE DEF b
  <2>2. Keeps(c, b)
    BY <1>4, <2>1, KeepsTrans
  <2>3. Clean(c) /\ Needs(p) \subseteq c.bindings => Clean(b)
    BY <1>2, <1>4, <2>1
  <2> QED
    BY <2>1, <2>2, <2>3 DEF b
<1>5. Fine(c1)
  <2>1. CASE Extra[p] = None
    BY <1>3, <2>1 DEF RegisteredExtra
  <2>2. CASE Extra[p] # None
    <3>1. c1 = Registered(r, Extra[p]) /\ Extra[p] \in Providers
      BY <1>1, <2>2 DEF RegisteredExtra
    <3>2. /\ Sound(c1) /\ Keeps(r, c1)
          /\ (/\ Clean(r)
              /\ RegisterMakes[Extra[p]] \subseteq r.bindings \cup Binds[Extra[p]]) => Clean(c1)
      BY <1>3, <3>1, RegisteredFacts
    <3> HIDE DEF c1
    <3>3. Keeps(c, c1)
      BY <1>3, <3>2, KeepsTrans
    <3>4. Clean(c) /\ Needs(p) \subseteq c.bindings => Clean(c1)
      BY <1>1, <1>2, <1>3, <2>2, <3>2
    <3> QED
      BY <3>2, <3>3, <3>4
  <2> QED
    BY <2>1, <2>2
<1> HIDE DEF c1
<1>6. Fine(c2)
  <2>1. CASE Extra[p] = None
    BY <1>5, <2>1
  <2>2. CASE Extra[p] # None
    <3>1. Fine(BootedIn(c1, Extra[p]))
      <4> HIDE DEF Fine
      <4> QED
        BY <1>1, <1>4, <1>5, <2>2
    <3> QED
      BY <2>2, <3>1
  <2> QED
    BY <2>1, <2>2
<1> HIDE DEF c2, Fine
<1>7. Fine(d)
  BY <1>1, <1>4, <1>6
<1>8. LateRegistered(c, p) = d
  BY DEF LateRegistered, d, c2, c1, r
<1> HIDE DEF d
<1> QED
  BY <1>7, <1>8 DEF Fine

-----------------------------------------------------------------------------
(* The lists of Application.                                               *)

LEMMA JoinedLists ==
  ASSUME NEW S, NEW s \in Seq(S), NEW t \in Seq(S)
  PROVE  s \o t \in Seq(S) /\ Len(s \o t) = Len(s) + Len(t)
  OBVIOUS

\* A list that grows by entries which are all the same.
LEMMA GrownList ==
  ASSUME NEW S, NEW s \in Seq(S), NEW t \in Seq(S), NEW v, \A i \in 1..Len(t) : t[i] = v
  PROVE  /\ s \o t \in Seq(S) /\ Len(s \o t) = Len(s) + Len(t)
         /\ \A i \in 1..Len(s) : (s \o t)[i] = s[i]
         /\ \A i \in 1..Len(s \o t) : i > Len(s) => (s \o t)[i] = v
<1>1. s \o t \in Seq(S)
  OBVIOUS
<1>2. Len(s \o t) = Len(s) + Len(t) /\ Len(s) \in Nat /\ Len(t) \in Nat
  OBVIOUS
<1>3. \A i \in 1..Len(s) : (s \o t)[i] = s[i]
  OBVIOUS
<1>4. ASSUME NEW i \in 1..Len(s \o t), i > Len(s) PROVE (s \o t)[i] = v
  <2>1. i - Len(s) \in 1..Len(t)
    BY <1>2, <1>4
  <2>2. (s \o t)[i] = t[i - Len(s)]
    BY <1>2, <1>4
  <2> QED
    BY <2>1, <2>2
<1> QED
  BY <1>1, <1>2, <1>3, <1>4

\* The entries for the provider that a boot method registers.
LEMMA ExtraLists ==
  ASSUME NEW p \in Providers, NEW v \in Nat
  PROVE  LET counts == [i \in DOMAIN ExtraOf(p) |-> v]
         IN  /\ ExtraOf(p) \in Seq(Providers) /\ counts \in Seq(Nat)
             /\ Len(counts) = Len(ExtraOf(p))
             /\ \A i \in 1..Len(counts) : counts[i] = v
             /\ \A i \in 1..Len(ExtraOf(p)) : Extra[p] # None /\ ExtraOf(p)[i] = Extra[p]
<1> DEFINE counts == [i \in DOMAIN ExtraOf(p) |-> v]
<1>1. CASE Extra[p] = None
  <2>1. ExtraOf(p) = <<>>
    BY <1>1 DEF ExtraOf
  <2>2. counts = <<>>
    BY <2>1
  <2> HIDE DEF counts
  <2> QED
    BY <2>1, <2>2 DEF counts
<1>2. CASE Extra[p] # None
  <2>1. ExtraOf(p) = <<Extra[p]>> /\ Extra[p] \in Providers
    BY <1>2, ProviderFields DEF ExtraOf
  <2>2. counts = <<v>>
    BY <2>1
  <2> HIDE DEF counts
  <2> QED
    BY <1>2, <2>1, <2>2 DEF counts
<1> QED
  BY <1>1, <1>2

\* Objects and their counts, in a registration when the application is booted.
LEMMA LateLists ==
  ASSUME TypeInv, NEW p \in Providers, booted, Register(p)
  PROVE  /\ service_providers' \in Seq(Providers) /\ boots' \in Seq(Nat)
         /\ Len(boots') = Len(service_providers') /\ Len(boots') >= Len(boots)
         /\ \A i \in 1..Len(boots) : boots'[i] = boots[i]
         /\ \A i \in 1..Len(boots') : i > Len(boots) => boots'[i] = 1
<1> DEFINE e == ExtraOf(p)
           counts == [i \in DOMAIN ExtraOf(p) |-> 1]
           grown == boots \o <<1>>
<1>1. /\ service_providers' = (service_providers \o <<p>>) \o e
      /\ boots' = grown \o counts
  BY DEF Register
<1>2. /\ e \in Seq(Providers) /\ counts \in Seq(Nat) /\ Len(counts) = Len(e)
      /\ \A i \in 1..Len(counts) : counts[i] = 1
  <2>1. 1 \in Nat
    OBVIOUS
  <2> HIDE DEF e, counts
  <2> QED
    BY <2>1, ExtraLists DEF e, counts
<1>3. /\ service_providers \in Seq(Providers) /\ boots \in Seq(Nat)
      /\ Len(boots) = Len(service_providers) /\ Len(boots) \in Nat
  BY DEF TypeInv
<1> HIDE DEF e, counts
<1>4. /\ grown \in Seq(Nat) /\ Len(grown) = Len(boots) + 1 /\ grown[Len(boots) + 1] = 1
      /\ \A i \in 1..Len(boots) : grown[i] = boots[i]
  BY <1>3
<1> HIDE DEF grown
<1>5. /\ boots' \in Seq(Nat) /\ Len(boots') = Len(grown) + Len(counts)
      /\ \A i \in 1..Len(grown) : boots'[i] = grown[i]
      /\ \A i \in 1..Len(boots') : i > Len(grown) => boots'[i] = 1
  <2>1. /\ grown \o counts \in Seq(Nat) /\ Len(grown \o counts) = Len(grown) + Len(counts)
        /\ \A i \in 1..Len(grown) : (grown \o counts)[i] = grown[i]
        /\ \A i \in 1..Len(grown \o counts) : i > Len(grown) => (grown \o counts)[i] = 1
    <3>1. grown \in Seq(Nat) /\ counts \in Seq(Nat) /\ \A i \in 1..Len(counts) : counts[i] = 1
      BY <1>2, <1>4
    <3> QED
      BY <3>1, GrownList
  <2> QED
    BY <1>1, <2>1, Zenon
<1>6. service_providers \o <<p>> \in Seq(Providers)
      /\ Len(service_providers \o <<p>>) = Len(boots) + 1
  BY <1>3
<1>7. service_providers' \in Seq(Providers) /\ Len(service_providers') = Len(boots) + 1 + Len(e)
  <2> DEFINE s == service_providers \o <<p>>
  <2>1. s \in Seq(Providers) /\ Len(s) = Len(boots) + 1 /\ service_providers' = s \o e
    BY <1>1, <1>6
  <2>2. e \in Seq(Providers)
    BY <1>2
  <2> HIDE DEF s
  <2>3. s \o e \in Seq(Providers) /\ Len(s \o e) = Len(s) + Len(e)
    <3>1. s \in Seq(Providers)
      BY <2>1
    <3> QED
      BY <2>2, <3>1, JoinedLists
  <2> QED
    BY <2>1, <2>3
<1>8. Len(counts) \in Nat /\ Len(e) \in Nat
  BY <1>2
<1>9. \A i \in 1..Len(boots) : boots'[i] = boots[i]
  BY <1>3, <1>4, <1>5
<1>10. \A i \in 1..Len(boots') : i > Len(boots) => boots'[i] = 1
  BY <1>3, <1>4, <1>5
<1> QED
  BY <1>2, <1>3, <1>4, <1>5, <1>7, <1>8, <1>9, <1>10

\* In a registration before that.
LEMMA EarlyLists ==
  ASSUME TypeInv, NEW p \in Providers, ~booted, Register(p)
  PROVE  /\ service_providers' \in Seq(Providers) /\ boots' \in Seq(Nat)
         /\ Len(boots') = Len(service_providers') /\ Len(boots') = Len(boots) + 1
         /\ \A i \in 1..Len(boots) : /\ boots'[i] = boots[i]
                                    /\ service_providers'[i] = service_providers[i]
         /\ boots'[Len(boots) + 1] = 0 /\ service_providers'[Len(boots) + 1] = p
<1>1. service_providers' = Append(service_providers, p) /\ boots' = Append(boots, 0)
  BY DEF Register
<1>2. /\ service_providers \in Seq(Providers) /\ boots \in Seq(Nat)
      /\ Len(boots) = Len(service_providers)
  BY DEF TypeInv
<1> QED
  BY <1>1, <1>2

\* In a turn of the boot loop.
LEMMA BootLists ==
  ASSUME TypeInv, next <= Len(service_providers), BootProvider
  PROVE  LET p == service_providers[next]
         IN  /\ p \in Providers
             /\ service_providers' \in Seq(Providers) /\ boots' \in Seq(Nat)
             /\ Len(boots') = Len(service_providers') /\ Len(boots') >= Len(boots)
             /\ \A i \in 1..Len(boots) :
                  /\ service_providers'[i] = service_providers[i]
                  /\ boots'[i] = (IF i = next THEN boots[i] + 1 ELSE boots[i])
             /\ \A i \in 1..Len(boots') : i > Len(boots) =>
                  boots'[i] = 0 /\ Extra[p] # None /\ service_providers'[i] = Extra[p]
<1> DEFINE p == service_providers[next]
           e == ExtraOf(p)
           counts == [i \in DOMAIN ExtraOf(p) |-> 0]
           turned == [boots EXCEPT ![next] = @ + 1]
<1>1. /\ service_providers \in Seq(Providers) /\ boots \in Seq(Nat)
      /\ Len(boots) = Len(service_providers) /\ next \in 1..Len(boots) /\ Len(boots) \in Nat
  BY DEF TypeInv
<1>2. p \in Providers
  BY <1>1
<1>3. service_providers' = service_providers \o e /\ boots' = turned \o counts
  BY DEF BootProvider
<1> HIDE DEF p
<1>4. /\ e \in Seq(Providers) /\ counts \in Seq(Nat) /\ Len(counts) = Len(e)
      /\ \A i \in 1..Len(counts) : counts[i] = 0
      /\ \A i \in 1..Len(e) : Extra[p] # None /\ e[i] = Extra[p]
  <2>1. 0 \in Nat
    OBVIOUS
  <2> HIDE DEF e, counts
  <2> QED
    BY <1>2, <2>1, ExtraLists DEF e, counts
<1> HIDE DEF e, counts
<1>5. /\ turned \in Seq(Nat) /\ Len(turned) = Len(boots)
      /\ \A i \in 1..Len(boots) : turned[i] = (IF i = next THEN boots[i] + 1 ELSE boots[i])
  BY <1>1
<1> HIDE DEF turned
<1>6. /\ boots' \in Seq(Nat) /\ Len(boots') = Len(boots) + Len(counts)
      /\ \A i \in 1..Len(boots) : boots'[i] = turned[i]
      /\ \A i \in 1..Len(boots') : i > Len(boots) => boots'[i] = 0
  <2>1. /\ turned \o counts \in Seq(Nat) /\ Len(turned \o counts) = Len(turned) + Len(counts)
        /\ \A i \in 1..Len(turned) : (turned \o counts)[i] = turned[i]
        /\ \A i \in 1..Len(turned \o counts) : i > Len(turned) => (turned \o counts)[i] = 0
    <3>1. turned \in Seq(Nat) /\ counts \in Seq(Nat) /\ \A i \in 1..Len(counts) : counts[i] = 0
      BY <1>4, <1>5
    <3> QED
      BY <3>1, GrownList
  <2> QED
    BY <1>3, <1>5, <2>1, Zenon
<1>7. /\ service_providers' \in Seq(Providers)
      /\ Len(service_providers') = Len(service_providers) + Len(e)
      /\ \A i \in 1..Len(boots) : service_providers'[i] = service_providers[i]
      /\ \A i \in 1..Len(service_providers') : i > Len(service_providers) =>
           service_providers'[i] = Extra[p]
  <2>1. /\ service_providers \in Seq(Providers) /\ e \in Seq(Providers)
        /\ \A i \in 1..Len(e) : e[i] = Extra[p]
    BY <1>1, <1>4
  <2>2. LET s == service_providers
        IN  /\ s \o e \in Seq(Providers) /\ Len(s \o e) = Len(s) + Len(e)
            /\ \A i \in 1..Len(s) : (s \o e)[i] = s[i]
            /\ \A i \in 1..Len(s \o e) : i > Len(s) => (s \o e)[i] = Extra[p]
    BY <2>1, GrownList
  <2> QED
    BY <1>1, <1>3, <2>2, Zenon
<1>8. Len(e) > 0 => Extra[p] # None
  BY <1>4
<1>9. Len(e) \in Nat /\ Len(boots') = Len(service_providers') /\ Len(boots') >= Len(boots)
  BY <1>1, <1>4, <1>6, <1>7
<1>10. ASSUME NEW i \in 1..Len(boots'), i > Len(boots)
       PROVE  boots'[i] = 0 /\ Extra[p] # None /\ service_providers'[i] = Extra[p]
  <2>1. Len(e) > 0
    BY <1>1, <1>4, <1>6, <1>9, <1>10
  <2> QED
    BY <1>1, <1>6, <1>7, <1>8, <1>9, <1>10, <2>1
<1>11. \A i \in 1..Len(boots) :
         /\ service_providers'[i] = service_providers[i]
         /\ boots'[i] = (IF i = next THEN boots[i] + 1 ELSE boots[i])
  BY <1>5, <1>6, <1>7
<1> QED
  BY <1>2, <1>6, <1>7, <1>9, <1>10, <1>11 DEF p

-----------------------------------------------------------------------------
(* What each kind of step leaves of the container.                          *)

LEMMA BecomesNow ==
  ASSUME NEW d, Sound(d), Becomes(d) PROVE Now' = d
BY DEF Becomes, Now, Sound, ContainerStates

LEMMA NowSame ==
  ASSUME UNCHANGED container, Sound(Now)
  PROVE  Now' = Now /\ Sound(Now') /\ Keeps(Now, Now')
  BY DEF container, Now, Sound, Keeps

\* Register, before and after the application is booted.
LEMMA RegisterContainer ==
  ASSUME Sound(Now), NEW p \in Providers, Register(p)
  PROVE  /\ Sound(Now') /\ Keeps(Now, Now')
         /\ ~booted => bindings' = bindings \cup Binds[p]
         /\ (/\ Clean(Now)
             /\ IF booted THEN Needs(p) \subseteq bindings
                ELSE RegisterMakes[p] \subseteq bindings \cup Binds[p]) => Clean(Now')
<1>1. Now.bindings = bindings
  BY DEF Now
<1>2. CASE ~booted
  <2> DEFINE d == Registered(Now, p)
  <2>1. Becomes(d)
    BY <1>2 DEF Register
  <2>2. /\ Sound(d) /\ Keeps(Now, d) /\ d.bindings = bindings \cup Binds[p]
        /\ Clean(Now) /\ RegisterMakes[p] \subseteq bindings \cup Binds[p] => Clean(d)
    BY <1>1, RegisteredFacts
  <2> HIDE DEF d
  <2>3. Now' = d /\ bindings' = d.bindings
    BY <2>1, <2>2, BecomesNow DEF Becomes
  <2> QED
    BY <1>2, <2>2, <2>3
<1>3. CASE booted
  <2> DEFINE d == LateRegistered(Now, p)
  <2>1. Becomes(d)
    BY <1>3 DEF Register, LateRegistered
  <2>2. /\ Sound(d) /\ Keeps(Now, d)
        /\ Clean(Now) /\ Needs(p) \subseteq bindings => Clean(d)
    BY <1>1, LateFacts
  <2> HIDE DEF d
  <2>3. Now' = d
    BY <2>1, <2>2, BecomesNow
  <2> QED
    BY <1>3, <2>2, <2>3
<1> QED
  BY <1>2, <1>3

\* boot_provider
LEMMA BootContainer ==
  ASSUME Sound(Now), service_providers[next] \in Providers, BootProvider
  PROVE  LET p == service_providers[next]
         IN  /\ Sound(Now') /\ Keeps(Now, Now') /\ bindings' = bindings \cup BootBound(p)
             /\ (/\ Clean(Now) /\ BootMakes[p] \subseteq bindings \cup BootBound(p)
                 /\ Extra[p] # None =>
                      RegisterMakes[Extra[p]] \subseteq bindings \cup Binds[Extra[p]])
                   => Clean(Now')
<1> DEFINE p == service_providers[next]
           d == BootedIn(RegisteredExtra(Now, p), p)
<1>1. Now.bindings = bindings /\ p \in Providers
  BY DEF Now
<1>2. Becomes(d)
  BY DEF BootProvider
<1> HIDE DEF p
<1>3. /\ Sound(d) /\ Keeps(Now, d) /\ d.bindings = bindings \cup BootBound(p)
      /\ (/\ Clean(Now) /\ BootMakes[p] \subseteq bindings \cup BootBound(p)
          /\ Extra[p] # None =>
               RegisterMakes[Extra[p]] \subseteq bindings \cup Binds[Extra[p]]) => Clean(d)
  BY <1>1, BootFacts
<1> HIDE DEF d
<1>4. Now' = d /\ bindings' = d.bindings
  BY <1>2, <1>3, BecomesNow DEF Becomes
<1> QED
  BY <1>3, <1>4 DEF p

\* LoadConfiguration: only the configuration is replaced, and nobody was given it yet.
LEMMA LifespanContainer ==
  ASSUME Sound(Now), Lifespan
  PROVE  /\ Sound(Now') /\ bindings' = bindings \cup {Config}
         /\ instances'[Config] = made'[Config] /\ made'[Config] # 0
         /\ \A a \in Shared \ {Config} : instances'[a] = instances[a] /\ made'[a] = made[a]
         /\ Clean(Now) => Clean(Now')
<1>1. /\ bindings \in SUBSET Abstracts /\ instances \in [Abstracts -> Nat]
      /\ made \in [Abstracts -> Nat] /\ handed \in [Abstracts -> SUBSET Nat]
      /\ unresolved \in SUBSET (Providers \X Abstracts)
      /\ \A a \in Abstracts : instances[a] <= made[a] /\ (instances[a] # 0 => a \in bindings)
  BY DEF Sound, Now, ContainerStates
<1>2. Config \in Abstracts /\ Shared \subseteq Abstracts
  BY ProvidersAssumption
<1>3. /\ made' = [made EXCEPT ![Config] = @ + 1]
      /\ instances' = [instances EXCEPT ![Config] = made'[Config]]
      /\ bindings' = bindings \cup {Config} /\ handed' = [a \in Abstracts |-> {}]
      /\ unresolved' = unresolved
  BY DEF Lifespan
<1>4. /\ made' \in [Abstracts -> Nat] /\ made'[Config] = made[Config] + 1
      /\ \A a \in Abstracts : a # Config => made'[a] = made[a]
  BY <1>1, <1>2, <1>3
<1>5. /\ instances' \in [Abstracts -> Nat] /\ instances'[Config] = made'[Config]
      /\ \A a \in Abstracts : a # Config => instances'[a] = instances[a]
  BY <1>1, <1>2, <1>3, <1>4
<1>6. Now' \in ContainerStates
  BY <1>1, <1>2, <1>3, <1>4, <1>5 DEF Now, ContainerStates
<1>7. ASSUME NEW a \in Abstracts
      PROVE  instances'[a] <= made'[a] /\ (instances'[a] # 0 => a \in bindings')
  BY <1>1, <1>3, <1>4, <1>5, <1>7
<1>8. Sound(Now')
  BY <1>6, <1>7 DEF Sound, Now
<1>9. Clean(Now) => Clean(Now')
  BY <1>2, <1>3 DEF Clean, Now
<1> QED
  BY <1>1, <1>2, <1>3, <1>4, <1>5, <1>8, <1>9

\* A registration that raised: what it bound before stays.
LEMMA FailedContainer ==
  ASSUME Sound(Now), NEW p \in Providers,
         \E c \in {Now, Registered(Now, p)} : Becomes(c)
  PROVE  /\ Sound(Now') /\ Keeps(Now, Now')
         /\ (Clean(Now) /\ RegisterMakes[p] \subseteq bindings \cup Binds[p]) => Clean(Now')
<1>1. CASE Becomes(Now)
  <2>1. Now' = Now
    BY <1>1, BecomesNow
  <2> QED
    BY <2>1 DEF Keeps
<1>2. CASE Becomes(Registered(Now, p))
  <2> DEFINE d == Registered(Now, p)
  <2>1. /\ Sound(d) /\ Keeps(Now, d)
        /\ Clean(Now) /\ RegisterMakes[p] \subseteq Now.bindings \cup Binds[p] => Clean(d)
    BY RegisteredFacts
  <2>2. Becomes(d) /\ Now.bindings = bindings
    BY <1>2 DEF Now
  <2> HIDE DEF d
  <2>3. Now' = d
    BY <2>1, <2>2, BecomesNow
  <2> QED
    BY <2>1, <2>2, <2>3
<1> QED
  BY <1>1, <1>2

LEMMA HeadOfTodo ==
  ASSUME TypeInv, todo # <<>>
  PROVE  /\ Head(todo) \in Providers /\ Tail(todo) \in Seq(Providers)
         /\ Head(todo) = todo[1] /\ Len(Tail(todo)) = Len(todo) - 1 /\ Len(todo) \in Nat \ {0}
         /\ \A i \in 1..Len(Tail(todo)) : Tail(todo)[i] = todo[i + 1]
  BY DEF TypeInv

\* The two ways in which a provider that is registered late fails.
LEMMA LateFailure ==
  ASSUME TypeInv, LateBootFails
  PROVE  /\ stage = "register" /\ todo # <<>> /\ booted /\ Head(todo) \in Providers
         /\ \/ /\ service_providers' = Append(service_providers, Head(todo))
               /\ boots' = Append(boots, 1)
               /\ \E c \in {Now, Registered(Now, Head(todo))} : Becomes(c)
            \/ Register(Head(todo))
  BY HeadOfTodo DEF LateBootFails

\* Only a new lifespan replaces an object.
LEMMA ContainerStep ==
  ASSUME TypeInv, Next, ~Lifespan PROVE Sound(Now') /\ Keeps(Now, Now')
<1>1. Sound(Now)
  BY DEF TypeInv
<1>2. CASE RegisterNext
  BY <1>1, <1>2, HeadOfTodo, RegisterContainer DEF RegisterNext
<1>3. CASE BaseRegister
  BY <1>1, <1>3, RegisterContainer, ProvidersAssumption DEF BaseRegister
<1>4. CASE BootNext
  <2>1. service_providers[next] \in Providers
    BY <1>4, BootLists DEF BootNext
  <2> QED
    BY <1>1, <1>4, <2>1, BootContainer DEF BootNext
<1>5. CASE Booted
  BY <1>1, <1>5, NowSame DEF Booted
<1>6. CASE RegisterFails
  BY <1>1, <1>6, HeadOfTodo, FailedContainer DEF RegisterFails
<1>7. CASE BootFails
  <2>1. CASE BootProvider
    <3>1. service_providers[next] \in Providers
      BY <1>7, <2>1, BootLists DEF BootFails
    <3> QED
      BY <1>1, <2>1, <3>1, BootContainer
  <2>2. CASE UNCHANGED container
    BY <1>1, <2>2, NowSame
  <2> QED
    BY <1>7, <2>1, <2>2 DEF BootFails
<1>8. CASE LateBootFails
  BY <1>1, <1>8, LateFailure, FailedContainer, RegisterContainer
<1> QED
  BY <1>2, <1>3, <1>4, <1>5, <1>6, <1>7, <1>8 DEF Next

-----------------------------------------------------------------------------
(* Types.                                                                  *)

LEMMA TypeStep == ASSUME TypeInv, [Next]_vars PROVE TypeInv'
<1>1. /\ order \in Orders /\ order \in Seq(Providers) /\ booted \in BOOLEAN /\ failures \in Nat
      /\ todo \in Seq(Providers) /\ service_providers \in Seq(Providers) /\ boots \in Seq(Nat)
      /\ Len(boots) = Len(service_providers) /\ next \in 1..(Len(boots) + 1)
      /\ stage \in {"down", "register", "base", "boot", "up"} /\ Sound(Now)
      /\ Len(boots) \in Nat
  BY ProvidersAssumption DEF TypeInv
<1>2. Next => Sound(Now')
  BY <1>1, ContainerStep, LifespanContainer
<1>3. ASSUME Lifespan PROVE TypeInv'
  BY <1>1, <1>2, <1>3 DEF Next, Lifespan, Registering, TypeInv
<1>4. ASSUME NEW p \in Providers, Register(p)
      PROVE  /\ service_providers' \in Seq(Providers) /\ boots' \in Seq(Nat)
             /\ Len(boots') = Len(service_providers') /\ Len(boots') >= Len(boots)
  BY <1>1, <1>4, LateLists, EarlyLists
<1>5. ASSUME RegisterNext PROVE TypeInv'
  <2>1. /\ service_providers' \in Seq(Providers) /\ boots' \in Seq(Nat)
        /\ Len(boots') = Len(service_providers') /\ Len(boots') >= Len(boots)
    BY <1>4, <1>5, HeadOfTodo DEF RegisterNext
  <2>2. todo' \in Seq(Providers)
    BY <1>5, HeadOfTodo DEF RegisterNext
  <2>3. /\ stage' \in {"register", "base"} /\ next' = next /\ order' = order
        /\ booted' = booted /\ failures' = failures
    BY <1>5 DEF RegisterNext, Registering
  <2>4. next' \in 1..(Len(boots') + 1)
    BY <1>1, <2>1, <2>3
  <2> QED
    BY <1>1, <1>2, <1>5, <2>1, <2>2, <2>3, <2>4 DEF Next, TypeInv
<1>6. ASSUME BaseRegister PROVE TypeInv'
  <2>1. /\ service_providers' \in Seq(Providers) /\ boots' \in Seq(Nat)
        /\ Len(boots') = Len(service_providers') /\ Len(boots') >= Len(boots)
    BY <1>4, <1>6, ProvidersAssumption DEF BaseRegister
  <2>2. /\ stage' \in {"up", "boot"} /\ next' \in {next, 1} /\ order' = order /\ todo' = todo
        /\ booted' = booted /\ failures' = failures
    BY <1>6 DEF BaseRegister
  <2>3. next' \in 1..(Len(boots') + 1)
    BY <1>1, <2>1, <2>2
  <2> QED
    BY <1>1, <1>2, <1>6, <2>1, <2>2, <2>3 DEF Next, TypeInv
<1>7. ASSUME BootProvider, next <= Len(service_providers)
      PROVE  /\ service_providers' \in Seq(Providers) /\ boots' \in Seq(Nat)
             /\ Len(boots') = Len(service_providers') /\ Len(boots') >= Len(boots)
  BY <1>7, BootLists
<1>8. ASSUME BootNext PROVE TypeInv'
  <2>1. /\ service_providers' \in Seq(Providers) /\ boots' \in Seq(Nat)
        /\ Len(boots') = Len(service_providers') /\ Len(boots') >= Len(boots)
    BY <1>7, <1>8 DEF BootNext
  <2>2. /\ stage' = stage /\ next' = next + 1 /\ order' = order /\ todo' = todo
        /\ booted' = booted /\ failures' = failures /\ next <= Len(service_providers)
    BY <1>8 DEF BootNext
  <2>3. next' \in 1..(Len(boots') + 1)
    BY <1>1, <2>1, <2>2
  <2> QED
    BY <1>1, <1>2, <1>8, <2>1, <2>2, <2>3 DEF Next, TypeInv
<1>9. ASSUME Booted PROVE TypeInv'
  BY <1>1, <1>2, <1>9 DEF Next, Booted, TypeInv
<1>10. ASSUME RegisterFails PROVE TypeInv'
  BY <1>1, <1>2, <1>10 DEF Next, RegisterFails, Fail, TypeInv
<1>11. ASSUME BootFails PROVE TypeInv'
  <2>1. /\ service_providers' \in Seq(Providers) /\ boots' \in Seq(Nat)
        /\ Len(boots') = Len(service_providers') /\ Len(boots') >= Len(boots)
    <3>1. CASE BootProvider
      BY <1>7, <1>11, <3>1 DEF BootFails
    <3>2. CASE boots' = [boots EXCEPT ![next] = @ + 1] /\ UNCHANGED service_providers
      BY <1>1, <1>11, <3>2 DEF BootFails
    <3> QED
      BY <1>11, <3>1, <3>2 DEF BootFails
  <2>2. /\ stage' = "down" /\ next' = next /\ order' = order /\ todo' = todo
        /\ booted' = booted /\ failures' = failures + 1
    BY <1>11 DEF BootFails, Fail
  <2>3. next' \in 1..(Len(boots') + 1)
    BY <1>1, <2>1, <2>2
  <2> QED
    BY <1>1, <1>2, <1>11, <2>1, <2>2, <2>3 DEF Next, TypeInv
<1>12. ASSUME LateBootFails PROVE TypeInv'
  <2>1. /\ service_providers' \in Seq(Providers) /\ boots' \in Seq(Nat)
        /\ Len(boots') = Len(service_providers') /\ Len(boots') >= Len(boots)
    <3> DEFINE p == Head(todo)
    <3>1. p \in Providers
      BY <1>12, LateFailure
    <3>2. CASE Register(p)
      BY <1>4, <3>1, <3>2
    <3>3. CASE service_providers' = Append(service_providers, p) /\ boots' = Append(boots, 1)
      <4> HIDE DEF p
      <4> QED
        BY <1>1, <3>1, <3>3
    <3> QED
      BY <1>12, <3>2, <3>3, LateFailure
  <2>2. /\ stage' = "down" /\ next' = next /\ order' = order /\ todo' = todo
        /\ booted' = booted /\ failures' = failures + 1
    BY <1>12 DEF LateBootFails, Fail
  <2>3. next' \in 1..(Len(boots') + 1)
    BY <1>1, <2>1, <2>2
  <2> QED
    BY <1>1, <1>2, <1>12, <2>1, <2>2, <2>3 DEF Next, TypeInv
<1>13. CASE UNCHANGED vars
  BY <1>13 DEF vars, container, TypeInv, Now
<1> QED
  BY <1>3, <1>5, <1>6, <1>8, <1>9, <1>10, <1>11, <1>12, <1>13 DEF Next

LEMMA TypeInit == ASSUME Init PROVE TypeInv
<1>1. /\ instances \in [Abstracts -> Nat] /\ made \in [Abstracts -> Nat]
      /\ handed \in [Abstracts -> SUBSET Nat]
      /\ \A a \in Abstracts : instances[a] = 0 /\ made[a] = 0
      /\ bindings = {} /\ unresolved = {}
  BY DEF Init
<1>2. Sound(Now)
  BY <1>1 DEF Sound, Now, ContainerStates
<1>3. /\ order \in Orders /\ stage = "down" /\ todo = <<>> /\ service_providers = <<>>
      /\ boots = <<>> /\ next = 1 /\ booted = FALSE /\ failures = 0
  BY DEF Init
<1>4. /\ todo \in Seq(Providers) /\ service_providers \in Seq(Providers)
      /\ boots \in Seq(Nat) /\ Len(boots) = Len(service_providers)
      /\ next \in 1..(Len(boots) + 1) /\ failures \in Nat
  BY <1>3
<1>5. booted \in BOOLEAN /\ stage \in {"down", "register", "base", "boot", "up"}
  BY <1>3
<1> QED
  BY <1>2, <1>3, <1>4, <1>5 DEF TypeInv

\* The types of the state, with what the container keeps for each key.
THEOREM AppTypesCorrect == Spec => []TypeOK
<1>1. Init => TypeInv
  BY TypeInit
<1>2. TypeInv => TypeOK
  BY DEF TypeInv, TypeOK, Sound, Now, ContainerStates
<1> QED
  BY <1>1, <1>2, TypeStep, PTL DEF Spec

-----------------------------------------------------------------------------
(* How often provider objects are booted.                                   *)

LEMMA CountStep == ASSUME TypeInv, CountInv, [Next]_vars PROVE CountInv'
<1>1. /\ boots \in Seq(Nat) /\ Len(boots) = Len(service_providers) /\ Len(boots) \in Nat
      /\ next \in 1..(Len(boots) + 1) /\ failures \in Nat /\ booted \in BOOLEAN
      /\ boots' \in Seq(Nat) /\ Len(boots') \in Nat /\ booted' \in BOOLEAN
      /\ stage \in {"down", "register", "base", "boot", "up"}
      /\ \A i \in 1..Len(boots) : boots[i] \in Nat
  <2>1. TypeInv'
    BY TypeStep
  <2>2. boots' \in Seq(Nat) /\ booted' \in BOOLEAN
    BY <2>1 DEF TypeInv
  <2>3. boots \in Seq(Nat)
    BY DEF TypeInv
  <2>4. Len(boots) \in Nat /\ \A i \in 1..Len(boots) : boots[i] \in Nat
    BY <2>3
  <2> QED
    BY <2>2, <2>4 DEF TypeInv
<1>2. ASSUME NEW i \in 1..Len(boots)
      PROVE  /\ boots[i] \in Nat /\ boots[i] <= 1 + failures
             /\ Behind(i) => 1 <= boots[i]
             /\ ~Behind(i) => boots[i] <= failures
  <2>1. Counted(i) /\ boots[i] \in Nat
    BY <1>1 DEF CountInv
  <2> QED
    BY <1>1, <2>1 DEF Counted
<1>3. ASSUME NEW i \in 1..Len(boots'), Behind(i)', 1 <= boots'[i], boots'[i] <= 1 + failures'
      PROVE  Counted(i)'
  BY <1>1, <1>3 DEF Counted
<1>4. ASSUME NEW i \in 1..Len(boots'), ~Behind(i)', boots'[i] <= failures' PROVE Counted(i)'
  BY <1>4 DEF Counted
<1>5. ASSUME Lifespan PROVE CountInv'
  BY <1>1, <1>5 DEF Lifespan, Registering, CountInv, Counted, Behind
<1>6. ASSUME NEW p \in Providers, Register(p), NEW i \in 1..Len(boots')
      PROVE  \/ i \in 1..Len(boots) /\ boots'[i] = boots[i]
             \/ i > Len(boots) /\ boots'[i] = IF booted THEN 1 ELSE 0
  <2>1. CASE booted
    <3>1. /\ \A k \in 1..Len(boots) : boots'[k] = boots[k]
          /\ \A k \in 1..Len(boots') : k > Len(boots) => boots'[k] = 1
      BY <1>6, <2>1, LateLists
    <3> QED
      BY <1>1, <1>6, <2>1, <3>1
  <2>2. CASE ~booted
    <3>1. /\ \A k \in 1..Len(boots) : boots'[k] = boots[k]
          /\ Len(boots') = Len(boots) + 1 /\ boots'[Len(boots) + 1] = 0
      BY <1>6, <2>2, EarlyLists
    <3> QED
      BY <1>1, <1>6, <2>2, <3>1
  <2> QED
    BY <2>1, <2>2
<1>7. ASSUME NEW p \in Providers, Register(p), stage # "boot", failures' = failures,
             booted' = booted, stage' = "boot" => ~booted /\ next' = 1,
             NEW i \in 1..Len(boots')
      PROVE  Counted(i)'
  <2>1. \/ i \in 1..Len(boots) /\ boots'[i] = boots[i]
        \/ i > Len(boots) /\ boots'[i] = IF booted THEN 1 ELSE 0
    BY <1>6, <1>7
  <2>2. CASE booted
    <3>1. Behind(i)'
      BY <1>7, <2>2 DEF Behind
    <3>2. 1 <= boots'[i] /\ boots'[i] <= 1 + failures
      BY <1>1, <1>2, <2>1, <2>2 DEF Behind
    <3> QED
      BY <1>3, <1>7, <3>1, <3>2
  <2>3. CASE ~booted
    <3>1. ~Behind(i)'
      BY <1>1, <1>7, <2>3 DEF Behind
    <3>2. boots'[i] <= failures
      <4>1. CASE i > Len(boots) /\ boots'[i] = 0
        BY <1>1, <4>1
      <4>2. CASE i \in 1..Len(boots) /\ boots'[i] = boots[i]
        <5>1. ~Behind(i)
          BY <1>7, <2>3 DEF Behind
        <5> QED
          BY <1>2, <4>2, <5>1
      <4> QED
        BY <2>1, <2>3, <4>1, <4>2
    <3> QED
      BY <1>4, <1>7, <3>1, <3>2
  <2> QED
    BY <2>2, <2>3
<1>8. ASSUME RegisterNext PROVE CountInv'
  <2>1. /\ stage' \in {"register", "base"} /\ booted' = booted /\ failures' = failures
        /\ stage = "register" /\ Head(todo) \in Providers /\ Register(Head(todo))
    BY <1>8, HeadOfTodo DEF RegisterNext, Registering
  <2>2. \A i \in 1..Len(boots') : Counted(i)'
    BY <1>7, <2>1
  <2> QED
    BY <2>1, <2>2 DEF CountInv
<1>9. ASSUME BaseRegister PROVE CountInv'
  <2>1. /\ stage' = (IF booted THEN "up" ELSE "boot") /\ next' = (IF booted THEN next ELSE 1)
        /\ booted' = booted /\ failures' = failures /\ stage = "base" /\ Register(Routing)
        /\ Routing \in Providers
    BY <1>9, ProvidersAssumption DEF BaseRegister
  <2>2. \A i \in 1..Len(boots') : Counted(i)'
    BY <1>7, <2>1
  <2> QED
    BY <2>1, <2>2 DEF CountInv
<1>10. ASSUME BootProvider, stage = "boot", next <= Len(service_providers),
              NEW i \in 1..Len(boots')
       PROVE  /\ i < next => 1 <= boots'[i] /\ boots'[i] <= 1 + failures
              /\ i = next => 1 <= boots'[i] /\ boots'[i] <= 1 + failures
              /\ i > next => boots'[i] <= failures
  <2>1. \/ i \in 1..Len(boots) /\ boots'[i] = IF i = next THEN boots[i] + 1 ELSE boots[i]
        \/ i > Len(boots) /\ boots'[i] = 0
    <3>1. /\ \A k \in 1..Len(boots) :
               boots'[k] = (IF k = next THEN boots[k] + 1 ELSE boots[k])
          /\ \A k \in 1..Len(boots') : k > Len(boots) => boots'[k] = 0
      BY <1>10, BootLists
    <3> QED
      BY <1>1, <1>10, <3>1
  <2>2. CASE i > Len(boots)
    BY <1>1, <1>10, <2>1, <2>2
  <2>3. CASE i \in 1..Len(boots)
    <3>1. /\ boots[i] \in Nat /\ boots[i] <= 1 + failures
          /\ i < next => 1 <= boots[i]
          /\ i >= next => boots[i] <= failures
      BY <1>1, <1>2, <1>10, <2>3 DEF Behind, CountInv
    <3>2. boots'[i] = IF i = next THEN boots[i] + 1 ELSE boots[i]
      BY <1>1, <2>1, <2>3
    <3>3. i \in Nat /\ next \in Nat /\ failures \in Nat
      BY <1>1, <1>10
    <3> QED
      BY <3>1, <3>2, <3>3
  <2> QED
    BY <2>1, <2>2, <2>3
<1>11. ASSUME BootNext PROVE CountInv'
  <2>1. /\ stage' = "boot" /\ stage = "boot" /\ next' = next + 1 /\ booted' = booted
        /\ failures' = failures /\ next <= Len(service_providers) /\ BootProvider /\ ~booted
    BY <1>11 DEF BootNext, CountInv
  <2>2. ASSUME NEW i \in 1..Len(boots') PROVE Counted(i)'
    <3>1. CASE i <= next
      <4>1. Behind(i)' /\ 1 <= boots'[i] /\ boots'[i] <= 1 + failures'
        BY <1>1, <1>10, <2>1, <3>1 DEF Behind
      <4> QED
        BY <1>3, <4>1
    <3>2. CASE i > next
      <4>1. ~Behind(i)' /\ boots'[i] <= failures'
        BY <1>1, <1>10, <2>1, <3>2 DEF Behind
      <4> QED
        BY <1>4, <4>1
    <3> QED
      BY <1>1, <3>1, <3>2
  <2> QED
    BY <2>1, <2>2 DEF CountInv
<1>12. ASSUME Booted PROVE CountInv'
  BY <1>1, <1>12 DEF Booted, CountInv, Counted, Behind
<1>13. ASSUME RegisterFails PROVE CountInv'
  BY <1>1, <1>13 DEF RegisterFails, Fail, CountInv, Counted, Behind
<1>14. ASSUME BootFails PROVE CountInv'
  <2>1. /\ stage' = "down" /\ stage = "boot" /\ booted' = booted /\ failures' = failures + 1
        /\ next <= Len(service_providers) /\ ~booted
    BY <1>14 DEF BootFails, Fail, CountInv
  <2>2. ASSUME NEW i \in 1..Len(boots') PROVE Counted(i)'
    <3>1. boots'[i] <= failures + 1
      <4>1. CASE BootProvider
        <5>1. /\ i < next => boots'[i] <= 1 + failures
              /\ i = next => boots'[i] <= 1 + failures
              /\ i > next => boots'[i] <= failures
          BY <1>10, <2>1, <4>1
        <5>2. i \in Nat /\ next \in Nat /\ failures \in Nat /\ boots'[i] \in Nat
          BY <1>1
        <5> QED
          BY <5>1, <5>2
      <4>2. CASE boots' = [boots EXCEPT ![next] = @ + 1]
        <5>1. Len(boots') = Len(boots)
              /\ boots'[i] = IF i = next THEN boots[i] + 1 ELSE boots[i]
          BY <1>1, <2>1, <4>2
        <5>2. /\ boots[i] \in Nat /\ boots[i] <= 1 + failures
              /\ i = next => boots[i] <= failures
          BY <1>1, <1>2, <2>1, <5>1 DEF Behind
        <5> QED
          BY <1>1, <5>1, <5>2
      <4> QED
        BY <1>14, <4>1, <4>2 DEF BootFails
    <3>2. ~Behind(i)'
      BY <2>1 DEF Behind
    <3> QED
      BY <1>4, <2>1, <3>1, <3>2
  <2> QED
    BY <2>1, <2>2 DEF CountInv
<1>15. ASSUME LateBootFails PROVE CountInv'
  <2>1. stage' = "down" /\ booted /\ booted' = booted /\ failures' = failures + 1
    BY <1>15 DEF LateBootFails, Fail
  <2>2. ASSUME NEW i \in 1..Len(boots') PROVE Counted(i)'
    <3>1. \/ i \in 1..Len(boots) /\ boots'[i] = boots[i]
          \/ i > Len(boots) /\ boots'[i] = 1
      <4>1. CASE boots' = Append(boots, 1)
        BY <1>1, <4>1
      <4>2. CASE Register(Head(todo))
        BY <1>6, <1>15, <2>1, <4>2, LateFailure
      <4> QED
        BY <1>15, <4>1, <4>2, LateFailure
    <3>2. Behind(i)' /\ Behind(i)
      BY <2>1 DEF Behind
    <3>3. 1 <= boots'[i] /\ boots'[i] <= 1 + failures'
      <4>1. CASE i \in 1..Len(boots) /\ boots'[i] = boots[i]
        <5>1. boots[i] \in Nat /\ 1 <= boots[i] /\ boots[i] <= 1 + failures
          BY <1>2, <3>2, <4>1
        <5> QED
          BY <1>1, <2>1, <4>1, <5>1
      <4>2. CASE boots'[i] = 1
        BY <1>1, <2>1, <4>2
      <4> QED
        BY <3>1, <4>1, <4>2
    <3> QED
      BY <1>3, <3>2, <3>3
  <2> QED
    BY <2>1, <2>2 DEF CountInv
<1>16. CASE UNCHANGED vars
  BY <1>16 DEF vars, CountInv, Counted, Behind
<1> QED
  BY <1>5, <1>8, <1>9, <1>11, <1>12, <1>13, <1>14, <1>15, <1>16 DEF Next

\* When a lifespan is up every provider object has been booted, and only a failed lifespan
\* lets Application.boot boot an object again.
THEOREM EveryObjectBooted == Spec => []BootedOnce
<1>1. Init => TypeInv /\ CountInv
  <2> SUFFICES ASSUME Init PROVE TypeInv /\ CountInv
    OBVIOUS
  <2>1. boots = <<>> /\ booted = FALSE /\ stage = "down"
    BY DEF Init
  <2>2. \A i \in 1..Len(boots) : FALSE
    BY <2>1
  <2> QED
    BY <2>1, <2>2, TypeInit DEF CountInv
<1>2. TypeInv /\ CountInv => BootedOnce
  <2> SUFFICES ASSUME TypeInv, CountInv PROVE BootedOnce
    OBVIOUS
  <2>1. /\ boots \in Seq(Nat) /\ failures \in Nat /\ booted \in BOOLEAN /\ Len(boots) \in Nat
    BY DEF TypeInv
  <2> QED
    BY <2>1 DEF CountInv, BootedOnce, Counted, Behind
<1>3. TypeInv /\ CountInv /\ [Next]_vars => (TypeInv /\ CountInv)'
  BY TypeStep, CountStep
<1> QED
  BY <1>1, <1>2, <1>3, PTL DEF Spec

-----------------------------------------------------------------------------
(* The objects of singletons.                                               *)

\* No step but the replacement of the configuration by a new lifespan changes the object
\* of a singleton that has one.
THEOREM SingletonsKept == Spec => SingletonKept
<1> DEFINE Kept == \A a \in Shared \ {Config} : instances[a] # 0 => instances'[a] = instances[a]
<1>1. ASSUME TypeInv, Lifespan PROVE Kept
  BY <1>1, LifespanContainer DEF TypeInv
<1>2. ASSUME TypeInv, Next, ~Lifespan PROVE Kept
  BY <1>2, ContainerStep DEF Keeps, Now
<1>3. TypeInv /\ [Next]_vars => [Kept]_vars
  BY <1>1, <1>2
<1>4. Init => TypeInv
  BY TypeInit
<1>5. SingletonKept <=> [][Kept]_vars
  BY DEF SingletonKept
<1> HIDE DEF Kept
<1> QED
  BY <1>3, <1>4, <1>5, TypeStep, PTL DEF Spec

-----------------------------------------------------------------------------
(* What is bound when.                                                      *)

\* Before the application is booted bindings and objects only come to those there are.
LEMMA Grown ==
  ASSUME TypeInv, Next
  PROVE  /\ order' = order /\ bindings \subseteq bindings' /\ (~Lifespan => stage # "down")
         /\ ~booted => \A n \in 1..Len(service_providers) :
                         /\ n \in 1..Len(service_providers')
                         /\ service_providers'[n] = service_providers[n]
<1>1. Len(boots) = Len(service_providers) /\ Len(boots) \in Nat
      /\ Len(boots') = Len(service_providers') /\ Len(boots') \in Nat
  BY TypeStep DEF TypeInv
<1>2. bindings \subseteq bindings'
  <2>1. CASE Lifespan
    BY <2>1 DEF Lifespan
  <2>2. CASE ~Lifespan
    BY <2>2, ContainerStep DEF Keeps, Now
  <2> QED
    BY <2>1, <2>2
<1>3. order' = order /\ (~Lifespan => stage # "down")
  BY DEF Next, Lifespan, RegisterNext, BaseRegister, BootNext, Booted, RegisterFails, BootFails,
         LateBootFails
<1>4. ASSUME ~booted, NEW n \in 1..Len(service_providers)
      PROVE  n \in 1..Len(service_providers') /\ service_providers'[n] = service_providers[n]
  <2>1. CASE UNCHANGED service_providers
    BY <1>4, <2>1
  <2>2. CASE RegisterNext
    <3>1. Head(todo) \in Providers /\ Register(Head(todo))
      BY <2>2, HeadOfTodo DEF RegisterNext
    <3> QED
      BY <1>1, <1>4, <3>1, EarlyLists
  <2>3. CASE BaseRegister
    <3>1. Routing \in Providers /\ Register(Routing)
      BY <2>3, ProvidersAssumption DEF BaseRegister
    <3> QED
      BY <1>1, <1>4, <3>1, EarlyLists
  <2>4. CASE BootProvider /\ next <= Len(service_providers)
    <3>1. /\ Len(boots') >= Len(boots)
          /\ \A i \in 1..Len(boots) : service_providers'[i] = service_providers[i]
      BY <2>4, BootLists
    <3> QED
      BY <1>1, <1>4, <3>1
  <2> QED
    BY <1>4, <2>1, <2>2, <2>3, <2>4
       DEF Next, Lifespan, BootNext, Booted, RegisterFails, BootFails, LateBootFails
<1> QED
  BY <1>2, <1>3, <1>4

\* So what has a place in the list keeps it.
LEMMA PlaceKept ==
  ASSUME TypeInv, Next, ~booted
  PROVE  /\ \A p : Occurs(p, service_providers) => Occurs(p, service_providers')
         /\ \A n \in 1..Len(service_providers) : Placed(n) => Placed(n)'
<1>1. /\ order' = order
      /\ \A n \in 1..Len(service_providers) :
           n \in 1..Len(service_providers') /\ service_providers'[n] = service_providers[n]
  BY Grown
<1>2. \A p : Occurs(p, service_providers) => Occurs(p, service_providers')
  BY <1>1 DEF Occurs
<1>3. ASSUME NEW n \in 1..Len(service_providers), Placed(n) PROVE Placed(n)'
  <2>1. Len(service_providers) \in Nat
    BY DEF TypeInv
  <2>2. CASE service_providers[n] = Routing
    BY <1>1, <2>2 DEF Placed
  <2>3. CASE \E p \in Listed(order) : Extra[p] # None /\ service_providers[n] = Extra[p]
    BY <1>1, <2>3 DEF Placed
  <2>4. CASE \E k \in DOMAIN order : /\ service_providers[n] = order[k]
                                     /\ \A i \in 1..(k - 1) :
                                          \E m \in 1..(n - 1) : service_providers[m] = order[i]
    <3>1. PICK k \in DOMAIN order : /\ service_providers[n] = order[k]
                                    /\ \A i \in 1..(k - 1) :
                                         \E m \in 1..(n - 1) : service_providers[m] = order[i]
      BY <2>4
    <3>2. ASSUME NEW i \in 1..(k - 1)
          PROVE  \E m \in 1..(n - 1) : service_providers'[m] = order'[i]
      <4>1. PICK m \in 1..(n - 1) : service_providers[m] = order[i]
        BY <3>1
      <4>2. m \in 1..Len(service_providers)
        BY <2>1
      <4> QED
        BY <1>1, <4>1, <4>2
    <3> QED
      BY <1>1, <3>1, <3>2 DEF Placed
  <2> QED
    BY <1>3, <2>2, <2>3, <2>4 DEF Placed
<1> QED
  BY <1>2, <1>3

LEMMA BootedStays == ASSUME Next, booted PROVE booted'
  BY DEF Next, Lifespan, RegisterNext, BaseRegister, BootNext, Booted, RegisterFails, BootFails,
         LateBootFails

LEMMA ConfigStep == ASSUME TypeInv, ConfigBound, [Next]_vars PROVE ConfigBound'
<1>1. CASE Lifespan
  <2>1. Sound(Now)
    BY DEF TypeInv
  <2> QED
    BY <1>1, <2>1, LifespanContainer DEF ConfigBound
<1>2. CASE Next /\ ~Lifespan
  <2>1. Config \in bindings /\ instances[Config] = made[Config] /\ made[Config] # 0
    BY <1>2, Grown DEF ConfigBound
  <2>2. instances'[Config] = instances[Config] /\ made'[Config] = made[Config]
    BY <1>2, <2>1, ContainerStep, ProvidersAssumption DEF Keeps, Now
  <2>3. Config \in bindings'
    BY <1>2, <2>1, Grown
  <2> QED
    BY <2>1, <2>2, <2>3 DEF ConfigBound
<1>3. CASE UNCHANGED vars
  BY <1>3 DEF vars, container, ConfigBound
<1> QED
  BY <1>1, <1>2, <1>3

LEMMA OrderFacts ==
  ASSUME TypeInv
  PROVE  /\ order \in Seq(Providers) /\ Len(order) \in Nat /\ DOMAIN order = 1..Len(order)
         /\ Listed(order) \subseteq Providers
         /\ \A i \in 1..Len(order) : order[i] \in Listed(order)
         /\ Routing \in Listed(order)
<1>1. order \in Seq(Providers)
  BY ProvidersAssumption DEF TypeInv
<1> QED
  BY <1>1, ProvidersAssumption DEF Listed

\* What register methods of listed providers bind is bound when all of them have run.
LEMMA AtBoot ==
  ASSUME TypeInv, BoundInv, stage \in {"base", "boot"} \/ booted
  PROVE  /\ \A i \in 1..Len(order) : Binds[order[i]] \subseteq bindings
         /\ stage # "down" /\ (stage = "boot" \/ booted) => BoundAtBoot(order) \subseteq bindings
         /\ stage = "base" => BoundAtBoot(order) \subseteq bindings \cup Binds[Routing]
<1>1. /\ DOMAIN order = 1..Len(order) /\ Len(order) \in Nat
      /\ \A i \in 1..Len(order) : order[i] \in Listed(order)
  BY OrderFacts
<1>2. ASSUME NEW i \in 1..Len(order) PROVE Binds[order[i]] \subseteq bindings
  <2>1. CASE booted
    BY <1>1, <2>1 DEF BoundInv, AllBound, Everything, BoundAtBoot
  <2>2. CASE stage \in {"base", "boot"}
    <3>1. i \in 1..Taken
      BY <1>1, <2>2 DEF BoundInv, ListBound, Taken
    <3> QED
      BY <2>2, <3>1 DEF BoundInv, ListBound
  <2> QED
    BY <2>1, <2>2
<1>3. stage # "down" => Config \in bindings
  BY DEF BoundInv, ConfigBound
<1>4. BoundAtBoot(order) =
        {Config} \cup Binds[Routing] \cup UNION {Binds[order[i]] : i \in 1..Len(order)}
  BY <1>1 DEF BoundAtBoot, Listed
<1>5. booted => BoundAtBoot(order) \subseteq bindings
  BY DEF BoundInv, AllBound, Everything
<1>6. ~booted /\ stage = "boot" => Binds[Routing] \subseteq bindings
  BY DEF BoundInv, ListBound, ObjectsBound, Occurs
<1> QED
  BY <1>2, <1>3, <1>4, <1>5, <1>6

LEMMA ListStep == ASSUME TypeInv, CountInv, BoundInv, [Next]_vars PROVE ListBound'
<1>1. /\ Len(boots) = Len(service_providers) /\ Len(boots) \in Nat
      /\ Len(boots') = Len(service_providers') /\ Len(boots') \in Nat
      /\ todo \in Seq(Providers) /\ Len(todo) \in Nat
      /\ stage \in {"down", "register", "base", "boot", "up"} /\ booted \in BOOLEAN
  BY TypeStep DEF TypeInv
<1>2. /\ Len(order) \in Nat /\ DOMAIN order = 1..Len(order)
      /\ \A i \in 1..Len(order) : order[i] \in Listed(order)
  BY OrderFacts
<1>3. Next => order' = order /\ bindings \subseteq bindings'
  BY Grown
<1>4. Next /\ ~booted => \A p : Occurs(p, service_providers) => Occurs(p, service_providers')
  BY PlaceKept
<1>5. ASSUME Lifespan PROVE ListBound'
  <2>1. /\ todo' = order /\ order' = order /\ stage' \in {"register", "base"}
        /\ stage' = "base" => todo' = <<>>
    BY <1>5 DEF Lifespan, Registering
  <2>2. Taken' = 0
    BY <1>2, <2>1 DEF Taken
  <2>3. \A i \in 1..Len(todo') : todo'[i] = order'[Taken' + i]
    BY <1>2, <2>1, <2>2
  <2> QED
    BY <1>2, <2>1, <2>2, <2>3 DEF ListBound
<1>6. ASSUME RegisterNext PROVE ListBound'
  <2> PICK p : p = Head(todo)
    OBVIOUS
  <2>1. /\ p \in Providers /\ p = todo[1] /\ todo' = Tail(todo) /\ Len(todo') = Len(todo) - 1
        /\ Len(todo) \in Nat \ {0} /\ \A i \in 1..Len(todo') : todo'[i] = todo[i + 1]
        /\ Register(p)
    BY <1>6, HeadOfTodo DEF RegisterNext
  <2>2. /\ stage = "register" /\ stage' \in {"register", "base"} /\ booted' = booted
        /\ stage' = "base" => todo' = <<>>
    BY <1>6 DEF RegisterNext, Registering
  <2>3. Next
    BY <1>6 DEF Next
  <2>4. Taken' = Taken + 1 /\ Taken \in Nat /\ Taken' \in 0..Len(order)
    BY <1>2, <1>3, <2>1, <2>2, <2>3 DEF Taken, BoundInv, ListBound
  <2>5. \A i \in 1..Len(todo) : todo[i] = order[Taken + i]
    BY <2>2 DEF BoundInv, ListBound
  <2>6. \A i \in 1..Len(todo') : todo'[i] = order[Taken' + i]
    <3> TAKE i \in 1..Len(todo')
    <3>1. i + 1 \in 1..Len(todo) /\ todo'[i] = todo[i + 1]
      BY <2>1
    <3>2. Taken + (i + 1) = Taken' + i
      BY <2>1, <2>4
    <3> QED
      BY <2>5, <3>1, <3>2
  <2>7. p = order[Taken']
    BY <2>1, <2>4, <2>5
  <2>8. Binds[p] \subseteq bindings' /\ (~booted => Occurs(p, service_providers'))
    <3>1. CASE booted
      <4>1. Binds[p] \subseteq bindings
        BY <1>2, <2>4, <2>7, <3>1, AtBoot
      <4> QED
        BY <1>3, <2>3, <3>1, <4>1
    <3>2. CASE ~booted
      <4>1. bindings' = bindings \cup Binds[p]
        BY <2>1, <3>2, RegisterContainer DEF TypeInv
      <4>2. Len(boots') = Len(boots) + 1 /\ service_providers'[Len(boots) + 1] = p
        BY <2>1, <3>2, EarlyLists
      <4> QED
        BY <1>1, <4>1, <4>2 DEF Occurs
    <3> QED
      BY <3>1, <3>2
  <2>9. ASSUME NEW i \in 1..Taken'
        PROVE  /\ Binds[order'[i]] \subseteq bindings'
               /\ ~booted' => Occurs(order'[i], service_providers')
    <3>1. CASE i = Taken'
      BY <1>3, <2>2, <2>3, <2>7, <2>8, <3>1
    <3>2. CASE i # Taken'
      <4>1. i \in 1..Taken
        BY <2>4, <3>2
      <4>2. Binds[order[i]] \subseteq bindings /\ (~booted => Occurs(order[i], service_providers))
        BY <2>2, <4>1 DEF BoundInv, ListBound
      <4> QED
        BY <1>3, <1>4, <2>2, <2>3, <4>2
    <3> QED
      BY <3>1, <3>2
  <2> QED
    BY <1>3, <2>2, <2>3, <2>4, <2>6, <2>9 DEF ListBound
<1>7. ASSUME Next, todo' = todo, booted' = booted, stage \in {"base", "boot"},
             stage' = "boot" => ~booted /\ Occurs(Routing, service_providers')
      PROVE  ListBound'
  <2>1. /\ order' = order /\ Taken' = Taken /\ todo = <<>> /\ Taken \in 0..Len(order)
        /\ \A i \in 1..Len(todo) : todo[i] = order[Taken + i]
    BY <1>3, <1>7 DEF BoundInv, ListBound, Taken
  <2>2. ASSUME NEW i \in 1..Taken
        PROVE  /\ Binds[order[i]] \subseteq bindings'
               /\ ~booted => Occurs(order[i], service_providers')
    BY <1>3, <1>4, <1>7 DEF BoundInv, ListBound
  <2> QED
    BY <1>7, <2>1, <2>2 DEF ListBound
<1>8. ASSUME BaseRegister PROVE ListBound'
  <2>1. /\ todo' = todo /\ booted' = booted /\ stage = "base" /\ Register(Routing)
        /\ (stage' = "boot" => ~booted) /\ Next /\ Routing \in Providers
    BY <1>8, ProvidersAssumption DEF BaseRegister, Next
  <2>2. ASSUME ~booted PROVE Occurs(Routing, service_providers')
    <3>1. Len(boots') = Len(boots) + 1 /\ service_providers'[Len(boots) + 1] = Routing
      BY <2>1, <2>2, EarlyLists
    <3> QED
      BY <1>1, <3>1 DEF Occurs
  <2> QED
    BY <1>7, <2>1, <2>2
<1>9. ASSUME BootNext PROVE ListBound'
  <2>1. /\ todo' = todo /\ booted' = booted /\ stage = "boot" /\ Next /\ ~booted
        /\ Occurs(Routing, service_providers)
    BY <1>9 DEF BootNext, Next, CountInv, BoundInv, ListBound
  <2> QED
    BY <1>4, <1>7, <2>1
<1>10. ASSUME Booted \/ RegisterFails \/ BootFails \/ LateBootFails PROVE ListBound'
  <2>1. stage' \in {"up", "down"}
    BY <1>10 DEF Booted, RegisterFails, BootFails, LateBootFails, Fail
  <2> QED
    BY <2>1 DEF ListBound
<1>11. CASE UNCHANGED vars
  BY <1>11 DEF vars, container, BoundInv, ListBound, Taken, Occurs
<1> QED
  BY <1>5, <1>6, <1>8, <1>9, <1>10, <1>11 DEF Next

\* A provider in the boot loop is listed, or its boot registers none.
LEMMA TurnFacts ==
  ASSUME TypeInv, CountInv, BoundInv, stage = "boot", next <= Len(service_providers)
  PROVE  LET p == service_providers[next]
         IN  /\ next \in 1..Len(service_providers) /\ p \in Providers /\ ~booted /\ Placed(next)
             /\ Extra[p] # None => p \in Listed(order)
<1>1. next \in 1..Len(service_providers) /\ service_providers[next] \in Providers
  BY DEF TypeInv
<1>2. ~booted
  BY DEF CountInv
<1>3. Placed(next)
  BY <1>1, <1>2 DEF BoundInv, ObjectsBound
<1>4. /\ DOMAIN order = 1..Len(order) /\ Listed(order) \subseteq Providers
      /\ \A i \in 1..Len(order) : order[i] \in Listed(order)
      /\ Routing \in Listed(order)
  BY OrderFacts
<1>5. \A q \in Listed(order) : Extra[q] # None => Extra[Extra[q]] = None
  BY <1>4, ProviderFields
<1>6. Extra[service_providers[next]] # None => service_providers[next] \in Listed(order)
  BY <1>3, <1>4, <1>5 DEF Placed
<1> QED
  BY <1>1, <1>2, <1>3, <1>6

LEMMA ObjectsStep == ASSUME TypeInv, CountInv, BoundInv, [Next]_vars PROVE ObjectsBound'
<1>1. /\ Len(boots) = Len(service_providers) /\ Len(boots) \in Nat
      /\ Len(boots') = Len(service_providers') /\ Len(boots') \in Nat
  BY TypeStep DEF TypeInv
<1>2. CASE UNCHANGED vars
  BY <1>2 DEF vars, container, BoundInv, ObjectsBound, Placed
<1>3. CASE Next /\ booted
  BY <1>3, BootedStays DEF ObjectsBound
<1>4. CASE Next /\ ~booted
  <2>1. /\ order' = order /\ bindings \subseteq bindings'
        /\ \A n \in 1..Len(service_providers) :
             n \in 1..Len(service_providers') /\ service_providers'[n] = service_providers[n]
    BY <1>4, Grown
  <2>2. \A n \in 1..Len(service_providers) : Placed(n)'
    BY <1>4, PlaceKept DEF BoundInv, ObjectsBound
  <2>3. \A n \in 1..Len(service_providers) : Binds[service_providers'[n]] \subseteq bindings'
    BY <1>4, <2>1 DEF BoundInv, ObjectsBound
  <2>4. ASSUME NEW n \in 1..Len(service_providers'), n > Len(service_providers)
        PROVE  Binds[service_providers'[n]] \subseteq bindings' /\ Placed(n)'
    <3>1. CASE UNCHANGED service_providers
      BY <1>1, <2>4, <3>1
    <3>2. CASE RegisterNext
      <4>1. /\ Head(todo) \in Providers /\ Head(todo) = todo[1] /\ Len(todo) \in Nat \ {0}
            /\ Register(Head(todo)) /\ stage = "register"
        BY <3>2, HeadOfTodo DEF RegisterNext
      <4>2. /\ n = Len(service_providers) + 1 /\ service_providers'[n] = Head(todo)
        BY <1>1, <1>4, <2>4, <4>1, EarlyLists
      <4>3. bindings' = bindings \cup Binds[Head(todo)]
        BY <1>4, <4>1, RegisterContainer DEF TypeInv
      <4>4. /\ DOMAIN order = 1..Len(order) /\ Len(order) \in Nat
        BY OrderFacts
      <4>5. /\ Taken \in Nat /\ Taken + 1 \in DOMAIN order /\ Head(todo) = order[Taken + 1]
        <5>1. Taken \in 0..Len(order) /\ \A i \in 1..Len(todo) : todo[i] = order[Taken + i]
          BY <4>1 DEF BoundInv, ListBound
        <5> QED
          BY <4>1, <4>4, <5>1 DEF Taken
      <4>6. \A i \in 1..Taken : \E m \in 1..(n - 1) : service_providers'[m] = order[i]
        <5>1. \A i \in 1..Taken : Occurs(order[i], service_providers)
          BY <1>4, <4>1 DEF BoundInv, ListBound
        <5> QED
          BY <1>1, <2>1, <4>2, <5>1 DEF Occurs
      <4>7. Placed(n)'
        <5>1. (Taken + 1) - 1 = Taken
          BY <4>5
        <5> QED
          BY <2>1, <4>2, <4>5, <4>6, <5>1 DEF Placed
      <4> QED
        BY <4>2, <4>3, <4>7
    <3>3. CASE BaseRegister
      <4>1. Routing \in Providers /\ Register(Routing)
        BY <3>3, ProvidersAssumption DEF BaseRegister
      <4>2. n = Len(service_providers) + 1 /\ service_providers'[n] = Routing
        BY <1>1, <1>4, <2>4, <4>1, EarlyLists
      <4>3. bindings' = bindings \cup Binds[Routing]
        BY <1>4, <4>1, RegisterContainer DEF TypeInv
      <4> QED
        BY <4>2, <4>3 DEF Placed
    <3>4. CASE BootProvider /\ stage = "boot" /\ next <= Len(service_providers)
      <4> PICK p : p = service_providers[next]
        OBVIOUS
      <4>1. p \in Providers /\ (Extra[p] # None => p \in Listed(order))
        BY <3>4, TurnFacts
      <4>2. Extra[p] # None /\ service_providers'[n] = Extra[p]
        <5>1. \A i \in 1..Len(boots') : i > Len(boots) =>
                Extra[p] # None /\ service_providers'[i] = Extra[p]
          BY <3>4, BootLists
        <5> QED
          BY <1>1, <2>4, <5>1
      <4>3. bindings' = bindings \cup BootBound(p)
        BY <3>4, <4>1, BootContainer DEF TypeInv
      <4>4. Binds[Extra[p]] \subseteq BootBound(p)
        BY <4>2 DEF BootBound
      <4> QED
        BY <2>1, <4>1, <4>2, <4>3, <4>4 DEF Placed
    <3> QED
      BY <1>4, <3>1, <3>2, <3>3, <3>4
         DEF Next, Lifespan, BootNext, Booted, RegisterFails, BootFails, LateBootFails
  <2>5. \A n \in 1..Len(service_providers') :
          n \in 1..Len(service_providers) \/ n > Len(service_providers)
    BY <1>1
  <2> QED
    BY <2>2, <2>3, <2>4, <2>5 DEF ObjectsBound
<1> QED
  BY <1>2, <1>3, <1>4

LEMMA LoopStep == ASSUME TypeInv, CountInv, BoundInv, [Next]_vars PROVE LoopBound'
<1>1. next \in Nat \ {0} /\ next <= Len(service_providers) + 1 /\ Len(service_providers) \in Nat
  BY DEF TypeInv
<1>2. CASE UNCHANGED vars
  BY <1>2 DEF vars, container, BoundInv, LoopBound
<1>3. CASE BaseRegister
  <2>1. stage' = "boot" => next' = 1
    BY <1>3 DEF BaseRegister
  <2> QED
    BY <2>1 DEF LoopBound
<1>4. CASE BootNext
  <2> PICK p : p = service_providers[next]
    OBVIOUS
  <2>1. /\ stage = "boot" /\ next <= Len(service_providers) /\ BootProvider /\ next' = next + 1
        /\ Next
    BY <1>4 DEF BootNext, Next
  <2>2. p \in Providers /\ ~booted
    BY <2>1, TurnFacts
  <2>3. bindings' = bindings \cup BootBound(p)
    BY <2>1, <2>2, BootContainer DEF TypeInv
  <2>4. \A m \in 1..next : service_providers'[m] = service_providers[m]
    BY <1>1, <2>1, <2>2, Grown
  <2>5. \A m \in 1..(next - 1) : BootBound(service_providers[m]) \subseteq bindings
    BY <2>1 DEF BoundInv, LoopBound
  <2>6. \A m \in 1..next : BootBound(service_providers'[m]) \subseteq bindings'
    <3> TAKE m \in 1..next
    <3>1. CASE m = next
      BY <2>3, <2>4, <3>1
    <3>2. CASE m # next
      <4>1. m \in 1..(next - 1)
        BY <1>1, <3>2
      <4> QED
        BY <2>3, <2>4, <2>5, <4>1
    <3> QED
      BY <3>1, <3>2
  <2>7. next' - 1 = next
    BY <1>1, <2>1
  <2> QED
    BY <2>6, <2>7 DEF LoopBound
<1>5. CASE Lifespan \/ RegisterNext \/ Booted \/ RegisterFails \/ BootFails \/ LateBootFails
  <2>1. stage' # "boot"
    BY <1>5 DEF Lifespan, RegisterNext, Registering, Booted, RegisterFails, BootFails,
                LateBootFails, Fail
  <2> QED
    BY <2>1 DEF LoopBound
<1> QED
  BY <1>2, <1>3, <1>4, <1>5 DEF Next

LEMMA AllStep == ASSUME TypeInv, CountInv, BoundInv, [Next]_vars PROVE AllBound'
<1>1. CASE UNCHANGED vars
  BY <1>1 DEF vars, container, BoundInv, AllBound, Everything
<1>2. CASE Next /\ booted
  <2>1. order' = order /\ bindings \subseteq bindings'
    BY <1>2, Grown
  <2> QED
    BY <1>2, <2>1 DEF BoundInv, AllBound, Everything
<1>3. CASE Booted
  <2>1. /\ stage = "boot" /\ next > Len(service_providers) /\ bindings' = bindings
        /\ order' = order
    BY <1>3 DEF Booted, container
  <2>2. BoundAtBoot(order) \subseteq bindings
    BY <2>1, AtBoot
  <2>3. ~booted /\ Len(service_providers) \in Nat /\ next \in Nat
    BY <2>1 DEF CountInv, TypeInv
  <2>4. ASSUME NEW p \in Listed(order) PROVE BootBound(p) \subseteq bindings
    <3>1. Occurs(p, service_providers)
      <4>1. CASE p = Routing
        BY <2>1, <4>1 DEF BoundInv, ListBound
      <4>2. CASE p # Routing
        <5>1. PICK i \in 1..Len(order) : p = order[i]
          BY <2>4, <4>2, OrderFacts DEF Listed
        <5>2. i \in 1..Taken
          BY <2>1, <5>1, OrderFacts DEF BoundInv, ListBound, Taken
        <5> QED
          BY <2>1, <2>3, <5>1, <5>2 DEF BoundInv, ListBound
      <4> QED
        BY <4>1, <4>2
    <3>2. PICK m \in 1..Len(service_providers) : service_providers[m] = p
      BY <3>1 DEF Occurs
    <3>3. m \in 1..(next - 1)
      BY <2>1, <2>3
    <3> QED
      BY <2>1, <3>2, <3>3 DEF BoundInv, LoopBound
  <2> QED
    BY <2>1, <2>2, <2>4 DEF AllBound, Everything
<1>4. CASE Next /\ ~booted /\ ~Booted
  <2>1. ~booted'
    BY <1>4 DEF Next, Lifespan, RegisterNext, BaseRegister, BootNext, RegisterFails, BootFails,
                LateBootFails
  <2> QED
    BY <2>1 DEF AllBound
<1> QED
  BY <1>1, <1>2, <1>3, <1>4

LEMMA BoundStep == ASSUME TypeInv, CountInv, BoundInv, [Next]_vars PROVE BoundInv'
  BY ConfigStep, ListStep, ObjectsStep, LoopStep, AllStep DEF BoundInv

-----------------------------------------------------------------------------
(* What providers that are listed in order make is bound.                    *)

LEMMA RegisterBound ==
  ASSUME ProvidersInOrder, TypeInv, BoundInv, stage = "register", todo # <<>>, ~booted
  PROVE  RegisterMakes[Head(todo)] \subseteq bindings \cup Binds[Head(todo)]
<1>1. Head(todo) = todo[1] /\ Len(todo) \in Nat \ {0}
  BY HeadOfTodo
<1>2. DOMAIN order = 1..Len(order) /\ Len(order) \in Nat
  BY OrderFacts
<1>3. /\ Taken \in 0..Len(order) /\ \A i \in 1..Len(todo) : todo[i] = order[Taken + i]
      /\ \A i \in 1..Taken : Binds[order[i]] \subseteq bindings
  BY DEF BoundInv, ListBound
<1>4. Taken + 1 \in DOMAIN order /\ Head(todo) = order[Taken + 1]
  BY <1>1, <1>2, <1>3 DEF Taken
<1>5. RegisterMakes[order[Taken + 1]]
        \subseteq {Config} \cup UNION {Binds[order[i]] : i \in 1..(Taken + 1)}
  BY <1>4 DEF ProvidersInOrder, InOrder, TypeInv
<1>6. \A i \in 1..(Taken + 1) : i \in 1..Taken \/ i = Taken + 1
  BY <1>3
<1>7. Config \in bindings
  BY DEF BoundInv, ConfigBound
<1> QED
  BY <1>3, <1>4, <1>5, <1>6, <1>7

LEMMA BaseBound ==
  ASSUME ProvidersInOrder, TypeInv, BoundInv, stage = "base"
  PROVE  RegisterMakes[Routing] \subseteq bindings \cup Binds[Routing]
<1>1. RegisterMakes[Routing] \subseteq BoundAtBoot(order)
  BY DEF ProvidersInOrder, InOrder, TypeInv
<1> QED
  BY <1>1, AtBoot

\* What a listed provider needs when it is booted as it is registered.
LEMMA LateBound ==
  ASSUME ProvidersInOrder, TypeInv, NEW p \in Listed(order)
  PROVE  Needs(p) \subseteq Everything
<1>1. InOrder(order) /\ p \in Providers
  BY OrderFacts DEF ProvidersInOrder, TypeInv
<1>2. DOMAIN order = 1..Len(order) /\ \A i \in 1..Len(order) : order[i] \in Listed(order)
  BY OrderFacts
<1>3. \A q \in Listed(order) : Binds[q] \subseteq Everything /\ BootBound(q) \subseteq Everything
  BY DEF Everything, BoundAtBoot
<1>4. BoundAtBoot(order) \subseteq Everything /\ Config \in Everything
  BY DEF Everything, BoundAtBoot
<1>5. RegisterMakes[p] \subseteq Everything /\ BootMakes[p] \subseteq Everything
  <2>1. CASE p = Routing
    BY <1>1, <1>3, <1>4, <2>1 DEF InOrder
  <2>2. CASE p # Routing
    <3>1. PICK k \in 1..Len(order) : p = order[k]
      BY <1>2, <2>2 DEF Listed
    <3>2. /\ RegisterMakes[p] \subseteq {Config} \cup UNION {Binds[order[i]] : i \in 1..k}
          /\ BootMakes[p] \subseteq BoundAtBoot(order) \cup UNION {BootBound(order[i]) : i \in 1..k}
      BY <1>1, <1>2, <3>1 DEF InOrder
    <3>3. \A i \in 1..k : order[i] \in Listed(order)
      BY <1>2, OrderFacts
    <3> QED
      BY <1>3, <1>4, <3>2, <3>3
  <2> QED
    BY <2>1, <2>2
<1>6. ASSUME Extra[p] # None
      PROVE  /\ RegisterMakes[Extra[p]] \subseteq Everything
             /\ BootMakes[Extra[p]] \ BootBinds[Extra[p]] \subseteq Everything
  <2>1. /\ RegisterMakes[Extra[p]] \subseteq BoundAtBoot(order) \cup Binds[Extra[p]]
        /\ BootMakes[Extra[p]]
             \subseteq BoundAtBoot(order) \cup Binds[Extra[p]] \cup BootBinds[Extra[p]]
    BY <1>1, <1>6 DEF InOrder
  <2>2. Binds[Extra[p]] \subseteq Everything
    BY <1>3, <1>6 DEF BootBound
  <2> QED
    BY <1>4, <2>1, <2>2
<1> QED
  BY <1>5, <1>6 DEF Needs

\* What the provider at the position of the boot loop makes.
LEMMA TurnBound ==
  ASSUME ProvidersInOrder, TypeInv, CountInv, BoundInv,
         stage = "boot", next <= Len(service_providers), NEW p, p = service_providers[next]
  PROVE  /\ BootMakes[p] \subseteq bindings \cup BootBound(p)
         /\ Extra[p] # None => RegisterMakes[Extra[p]] \subseteq bindings \cup Binds[Extra[p]]
<1>1. /\ next \in 1..Len(service_providers) /\ p \in Providers /\ ~booted /\ Placed(next)
      /\ Extra[p] # None => p \in Listed(order)
  BY TurnFacts
<1>2. InOrder(order) /\ BoundAtBoot(order) \subseteq bindings
  BY AtBoot DEF ProvidersInOrder, TypeInv
<1>3. Extra[p] # None => RegisterMakes[Extra[p]] \subseteq bindings \cup Binds[Extra[p]]
  BY <1>1, <1>2 DEF InOrder
<1>4. CASE p = Routing
  BY <1>2, <1>3, <1>4 DEF InOrder
<1>5. CASE \E q \in Listed(order) : Extra[q] # None /\ p = Extra[q]
  <2>1. PICK q \in Listed(order) : Extra[q] # None /\ p = Extra[q]
    BY <1>5
  <2>2. BootMakes[p] \subseteq BoundAtBoot(order) \cup Binds[p] \cup BootBinds[p]
    BY <1>2, <2>1 DEF InOrder
  <2>3. Binds[p] \subseteq bindings
    BY <1>1 DEF BoundInv, ObjectsBound
  <2> QED
    BY <1>2, <1>3, <2>2, <2>3 DEF BootBound
<1>6. CASE \E k \in DOMAIN order : /\ p = order[k]
                                   /\ \A i \in 1..(k - 1) :
                                        \E m \in 1..(next - 1) : service_providers[m] = order[i]
  <2>1. PICK k \in DOMAIN order : /\ p = order[k]
                                  /\ \A i \in 1..(k - 1) :
                                       \E m \in 1..(next - 1) : service_providers[m] = order[i]
    BY <1>6
  <2>2. k \in Nat \ {0}
    BY OrderFacts
  <2>3. BootMakes[p] \subseteq BoundAtBoot(order) \cup UNION {BootBound(order[i]) : i \in 1..k}
    BY <1>2, <2>1 DEF InOrder
  <2>4. \A i \in 1..(k - 1) : BootBound(order[i]) \subseteq bindings
    BY <2>1 DEF BoundInv, LoopBound
  <2>5. \A i \in 1..k : i \in 1..(k - 1) \/ i = k
    BY <2>2
  <2>6. \A i \in 1..k : BootBound(order[i]) \subseteq bindings \cup BootBound(p)
    BY <2>1, <2>4, <2>5
  <2> QED
    BY <1>2, <1>3, <2>3, <2>6
<1> QED
  BY <1>1, <1>4, <1>5, <1>6 DEF Placed

LEMMA ObjectStep ==
  ASSUME ProvidersInOrder, TypeInv, CountInv, BoundInv, ObjectInv, [Next]_vars
  PROVE  ObjectInv'
<1>1. Sound(Now) /\ Clean(Now)
  BY DEF TypeInv, ObjectInv
<1>2. ASSUME NEW p \in Listed(order), booted PROVE p \in Providers /\ Needs(p) \subseteq bindings
  BY <1>2, LateBound, OrderFacts DEF BoundInv, AllBound
<1>3. ASSUME stage = "register", todo # <<>> PROVE Head(todo) \in Listed(order)
  <2>1. Head(todo) = todo[1] /\ Len(todo) \in Nat \ {0}
    BY <1>3, HeadOfTodo
  <2>2. Taken \in 0..Len(order) /\ \A i \in 1..Len(todo) : todo[i] = order[Taken + i]
    BY <1>3 DEF BoundInv, ListBound
  <2>3. Len(order) \in Nat /\ \A i \in 1..Len(order) : order[i] \in Listed(order)
    BY OrderFacts
  <2>4. Taken + 1 \in 1..Len(order)
    BY <2>1, <2>2, <2>3 DEF Taken
  <2> QED
    BY <2>1, <2>2, <2>3, <2>4
<1>4. ASSUME stage = "register", todo # <<>>, Register(Head(todo)) PROVE Clean(Now')
  <2>1. Head(todo) \in Providers
    BY <1>4, HeadOfTodo
  <2>2. IF booted THEN Needs(Head(todo)) \subseteq bindings
        ELSE RegisterMakes[Head(todo)] \subseteq bindings \cup Binds[Head(todo)]
    BY <1>2, <1>3, <1>4, RegisterBound
  <2> QED
    BY <1>1, <1>4, <2>1, <2>2, RegisterContainer
<1>5. ASSUME stage = "boot", next <= Len(service_providers), BootProvider PROVE Clean(Now')
  <2>1. service_providers[next] \in Providers
    BY <1>5, TurnFacts
  <2> QED
    BY <1>1, <1>5, <2>1, TurnBound, BootContainer
<1>6. ASSUME stage = "register", todo # <<>>,
             \E c \in {Now, Registered(Now, Head(todo))} : Becomes(c)
      PROVE  Clean(Now')
  <2>1. Head(todo) \in Providers
    BY <1>6, HeadOfTodo
  <2>2. RegisterMakes[Head(todo)] \subseteq bindings \cup Binds[Head(todo)]
    <3>1. CASE booted
      BY <1>2, <1>3, <1>6, <3>1 DEF Needs
    <3>2. CASE ~booted
      BY <1>6, <3>2, RegisterBound
    <3> QED
      BY <3>1, <3>2
  <2> QED
    BY <1>1, <1>6, <2>1, <2>2, FailedContainer
<1>7. ASSUME UNCHANGED container PROVE Clean(Now')
  BY <1>1, <1>7, NowSame
<1>8. CASE Lifespan
  BY <1>1, <1>8, LifespanContainer DEF ObjectInv
<1>9. CASE RegisterNext
  BY <1>4, <1>9 DEF RegisterNext, ObjectInv
<1>10. CASE BaseRegister
  <2>1. stage = "base" /\ Register(Routing) /\ Routing \in Providers
    BY <1>10, ProvidersAssumption DEF BaseRegister
  <2>2. IF booted THEN Needs(Routing) \subseteq bindings
        ELSE RegisterMakes[Routing] \subseteq bindings \cup Binds[Routing]
    BY <1>2, <2>1, BaseBound, OrderFacts
  <2> QED
    BY <1>1, <2>1, <2>2, RegisterContainer DEF ObjectInv
<1>11. CASE BootNext
  BY <1>5, <1>11 DEF BootNext, ObjectInv
<1>12. CASE Booted
  BY <1>7, <1>12 DEF Booted, ObjectInv
<1>13. CASE RegisterFails
  BY <1>6, <1>13 DEF RegisterFails, ObjectInv
<1>14. CASE BootFails
  BY <1>5, <1>7, <1>14 DEF BootFails, ObjectInv
<1>15. CASE LateBootFails
  BY <1>4, <1>6, <1>15, LateFailure DEF ObjectInv
<1>16. CASE UNCHANGED vars
  BY <1>7, <1>16 DEF vars, ObjectInv
<1> QED
  BY <1>8, <1>9, <1>10, <1>11, <1>12, <1>13, <1>14, <1>15, <1>16 DEF Next

BootInv == TypeInv /\ CountInv /\ BoundInv /\ ObjectInv

LEMMA BootInvariant == ASSUME ProvidersInOrder PROVE Spec => []BootInv
<1>1. Init => BootInv
  <2> SUFFICES ASSUME Init PROVE BootInv
    OBVIOUS
  <2>1. /\ boots = <<>> /\ service_providers = <<>> /\ booted = FALSE /\ stage = "down"
        /\ bindings = {} /\ unresolved = {} /\ \A a \in Abstracts : handed[a] = {}
    BY DEF Init
  <2>2. CountInv
    <3>1. \A i \in 1..Len(boots) : FALSE
      BY <2>1
    <3> QED
      BY <2>1, <3>1 DEF CountInv
  <2>3. ConfigBound /\ ListBound /\ LoopBound /\ AllBound
    BY <2>1 DEF ConfigBound, ListBound, LoopBound, AllBound
  <2>4. ObjectsBound
    <3>1. \A n \in 1..Len(service_providers) : FALSE
      BY <2>1
    <3> QED
      BY <3>1 DEF ObjectsBound
  <2>5. ObjectInv
    BY <2>1, ProvidersAssumption DEF ObjectInv, Clean, Now
  <2> QED
    BY <2>2, <2>3, <2>4, <2>5, TypeInit DEF BootInv, BoundInv
<1>2. BootInv /\ [Next]_vars => BootInv'
  BY TypeStep, CountStep, BoundStep, ObjectStep DEF BootInv
<1> QED
  BY <1>1, <1>2, PTL DEF Spec

\* If providers are listed in order nobody makes a key that is not bound.
THEOREM EverythingResolved == ASSUME ProvidersInOrder PROVE Spec => []Resolved
<1>1. BootInv => Resolved
  BY DEF BootInv, ObjectInv, Clean, Now, Resolved
<1> QED
  BY <1>1, BootInvariant, PTL

\* Then all boot methods of a lifespan are given one object of a singleton, and the
\* configuration is the one that lifespan loaded.
THEOREM OneObjectHanded == ASSUME ProvidersInOrder PROVE Spec => []OneObject
<1>1. BootInv => OneObject
  <2> SUFFICES ASSUME BootInv PROVE OneObject
    OBVIOUS
  <2>1. \A a \in Shared : \A x \in handed[a] : x = instances[a] /\ x # 0
    BY DEF BootInv, ObjectInv, Clean, Now
  <2>2. ASSUME NEW a \in Shared PROVE Cardinality(handed[a]) <= 1
    <3>1. CASE handed[a] = {}
      BY <3>1, FS_EmptySet
    <3>2. CASE handed[a] # {}
      <4>1. handed[a] = {instances[a]}
        BY <2>1, <3>2
      <4>2. Cardinality({instances[a]}) = 1
        BY FS_Singleton
      <4> QED
        BY <4>1, <4>2
    <3> QED
      BY <3>1, <3>2
  <2>3. ASSUME NEW x \in handed[Config] PROVE x = made[Config]
    <3>1. x = instances[Config] /\ x # 0
      BY <2>1, ProvidersAssumption
    <3>2. Config \in bindings
      BY <3>1, ProvidersAssumption DEF BootInv, TypeInv, Sound, Now
    <3> QED
      BY <3>1, <3>2 DEF BootInv, BoundInv, ConfigBound
  <2> QED
    BY <2>2, <2>3 DEF OneObject
<1> QED
  BY <1>1, BootInvariant, PTL
=============================================================================
