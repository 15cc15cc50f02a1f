------------------------------- MODULE AppBoot -------------------------------
(***************************************************************************)
(* Bootstrapping: HttpKernel.lifespan (or ConsoleKernel.handle) runs the    *)
(* bootstrappers, which load the configuration, register the configured     *)
(* providers and boot the application; the container that providers bind to *)
(* and make objects from.  A lifespan may be entered again in one process,  *)
(* after it ended or after it failed.                                       *)
(*                                                                         *)
(* Providers are described by what they do to the container.  An object is  *)
(* a number: the n-th object built for its abstract.                        *)
(***************************************************************************)
EXTENDS Naturals, Sequences, FiniteSets

CONSTANTS
  Providers,      \* provider classes, RoutingServiceProvider among them
  Routing,        \* RoutingServiceProvider, which boot registers by itself
  None,           \* "no provider"
  Abstracts,      \* the keys of the container
  Config,         \* the key "config"
  Shared,         \* the keys bound by singleton
  Binds,          \* what the register method of each provider binds
  RegisterMakes,  \* what it makes after that
  BootBinds,      \* what the boot method of each provider binds
  BootMakes,      \* what it makes
  Extra,          \* the provider its boot method registers, or None
  Orders,         \* the possible values of config('app.providers')
  MaxLifespans,   \* bound on the lifespans
  MaxFailures     \* bound on the providers that raise

ASSUME ProvidersAssumption ==
  /\ Routing \in Providers /\ None \notin Providers
  /\ Config \in Shared /\ Shared \subseteq Abstracts
  /\ \A f \in {Binds, RegisterMakes, BootBinds, BootMakes} : f \in [Providers -> SUBSET Abstracts]
  /\ Extra \in [Providers -> Providers \cup {None}]
  /\ \A p \in Providers : Extra[p] # None => Extra[Extra[p]] = None
  /\ Orders \subseteq Seq(Providers)
  /\ MaxLifespans \in Nat /\ MaxFailures \in Nat

VARIABLES
  order,              \* config('app.providers')
  stage,              \* where the bootstrap is
  todo,               \* the providers that remain to be registered
  service_providers,  \* _service_providers: the class of each provider object
  boots,              \* history: how often the boot of each object was called
  next,               \* the position of the loop in Application.boot
  booted,             \* _booted
  bindings,           \* the keys that are bound
  instances,          \* the object kept for each key, 0 for none
  made,               \* how many objects were built for each key
  handed,             \* history: what boot methods of this lifespan were given
  unresolved,         \* history: who made a key that was not bound
  lifespans,          \* lifespans so far
  failures            \* failures so far

container == <<bindings, instances, made, handed, unresolved>>
vars == <<order, stage, todo, service_providers, boots, next, booted, container, lifespans,
          failures>>

\* Each object has its count of boots, the boot loop stays inside the list it runs
\* over, and what the container keeps was built, for a key that is bound.
TypeOK ==
  /\ order \in Orders
  /\ stage \in {"down", "register", "base", "boot", "up"}
  /\ todo \in Seq(Providers) /\ service_providers \in Seq(Providers)
  /\ boots \in Seq(Nat) /\ Len(boots) = Len(service_providers)
  /\ next \in 1..(Len(boots) + 1)
  /\ booted \in BOOLEAN
  /\ bindings \subseteq Abstracts
  /\ \A a \in Abstracts : instances[a] \in 0..made[a] /\ (instances[a] # 0 => a \in bindings)
  /\ handed \in [Abstracts -> SUBSET Nat] /\ unresolved \subseteq Providers \X Abstracts

Init ==
  /\ order \in Orders
  /\ stage = "down" /\ todo = <<>>
  /\ service_providers = <<>> /\ boots = <<>> /\ next = 1 /\ booted = FALSE
  /\ bindings = {} /\ unresolved = {}
  /\ instances = [a \in Abstracts |-> 0] /\ made = [a \in Abstracts |-> 0]
  /\ handed = [a \in Abstracts |-> {}]
  /\ lifespans = 0 /\ failures = 0

-----------------------------------------------------------------------------
(* Container.  A state of the container is a record, so that the calls one  *)
(* method makes can be composed.                                           *)

Now == [bindings |-> bindings, instances |-> instances, made |-> made,
        handed |-> handed, unresolved |-> unresolved]

Becomes(c) ==
  /\ bindings' = c.bindings /\ instances' = c.instances /\ made' = c.made
  /\ handed' = c.handed /\ unresolved' = c.unresolved

\* Mutant: a new binding drops the instance.
BindDrops(c, keys) ==
  [c EXCEPT !.bindings = @ \cup keys,
            !.instances = [a \in Abstracts |-> IF a \in keys THEN 0 ELSE @[a]]]

\* bind and singleton: a new binding, but rebound does nothing, so that an
\* instance that was made already is kept.
Bind(c, keys) == [c EXCEPT !.bindings = @ \cup keys]

\* resolve builds an object, unless a singleton has one.
Builds(c, a) == ~(a \in Shared \cap c.bindings /\ c.instances[a] # 0)

\* make: of a key that is not bound an object is built and not kept.
Object(c, a) == IF Builds(c, a) THEN c.made[a] + 1 ELSE c.instances[a]

Make(c, p, keys) ==
  [c EXCEPT !.made = [a \in Abstracts |-> IF a \in keys /\ Builds(c, a) THEN @[a] + 1 ELSE @[a]],
            !.instances = [a \in Abstracts |-> IF a \in keys \cap Shared \cap c.bindings
                                               THEN Object(c, a) ELSE @[a]],
            !.unresolved = @ \cup {<<p, a>> : a \in keys \ c.bindings}]

\* The objects a boot method is given are remembered.
MakeAtBoot(c, p) ==
  LET after == Make(c, p, BootMakes[p])
  IN  [after EXCEPT !.handed = [a \in Abstracts |->
         IF a \in BootMakes[p] THEN @[a] \cup {Object(c, a)} ELSE @[a]]]

\* The container after the register and after the boot method of p.
Registered(c, p) == Make(Bind(c, Binds[p]), p, RegisterMakes[p])
BootedIn(c, p)   == MakeAtBoot(Bind(c, BootBinds[p]), p)

-----------------------------------------------------------------------------
(* Application.register.                                                   *)

\* The provider a boot method registers, as a sequence.
ExtraOf(p) == IF Extra[p] = None THEN <<>> ELSE <<Extra[p]>>

RegisteredExtra(c, p) == IF Extra[p] = None THEN c ELSE Registered(c, Extra[p])

\* Mutant: providers are booted as they are registered.
RegisterBoots(p) ==
  LET c  == Registered(Now, p)
      c1 == RegisteredExtra(c, p)
      c2 == IF Extra[p] = None THEN c1 ELSE BootedIn(c1, Extra[p])
  IN  /\ service_providers' = service_providers \o <<p>> \o ExtraOf(p)
      /\ boots' = boots \o <<1>> \o [i \in DOMAIN ExtraOf(p) |-> 1]
      /\ Becomes(BootedIn(c2, p))

\* Once the application is booted a provider, and one that its boot registers, is
\* booted as soon as it is registered; before that it waits for Application.boot.
Register(p) ==
  LET c  == Registered(Now, p)
      c1 == RegisteredExtra(c, p)
      c2 == IF Extra[p] = None THEN c1 ELSE BootedIn(c1, Extra[p])
  IN  IF booted
        THEN /\ service_providers' = service_providers \o <<p>> \o ExtraOf(p)
             /\ boots' = boots \o <<1>> \o [i \in DOMAIN ExtraOf(p) |-> 1]
             /\ Becomes(BootedIn(c2, p))
        ELSE /\ service_providers' = Append(service_providers, p)
             /\ boots' = Append(boots, 0)
             /\ Becomes(c)

-----------------------------------------------------------------------------
(* The bootstrappers.                                                      *)

\* RegisterProviders is over when no provider is left, and BootProviders begins.
Registering(rest) == IF rest = <<>> THEN "base" ELSE "register"

\* Mutant: LoadConfiguration binds the new config but keeps the old instance.
LifespanKeepsConfig ==
  /\ stage \in {"down", "up"} /\ lifespans < MaxLifespans
  /\ lifespans' = lifespans + 1
  /\ made' = [made EXCEPT ![Config] = @ + 1]
  /\ instances' = [instances EXCEPT ![Config] = IF @ = 0 THEN made'[Config] ELSE @]
  /\ bindings' = bindings \cup {Config}
  /\ handed' = [a \in Abstracts |-> {}]
  /\ todo' = order /\ stage' = Registering(order)
  /\ UNCHANGED <<order, service_providers, boots, next, booted, unresolved, failures>>

\* Mutant: LoadConfiguration stores the instance but binds nothing.
LifespanBindsNothing ==
  /\ stage \in {"down", "up"} /\ lifespans < MaxLifespans
  /\ lifespans' = lifespans + 1
  /\ made' = [made EXCEPT ![Config] = @ + 1]
  /\ instances' = [instances EXCEPT ![Config] = made'[Config]]
  /\ handed' = [a \in Abstracts |-> {}]
  /\ todo' = order /\ stage' = Registering(order)
  /\ UNCHANGED <<order, service_providers, boots, next, booted, bindings, unresolved, failures>>

\* LoadConfiguration binds config and replaces its instance, then
\* RegisterProviders goes through the list it names.
Lifespan ==
  /\ stage \in {"down", "up"} /\ lifespans < MaxLifespans
  /\ lifespans' = lifespans + 1
  /\ made' = [made EXCEPT ![Config] = @ + 1]
  /\ instances' = [instances EXCEPT ![Config] = made'[Config]]
  /\ bindings' = bindings \cup {Config}
  /\ handed' = [a \in Abstracts |-> {}]
  /\ todo' = order /\ stage' = Registering(order)
  /\ UNCHANGED <<order, service_providers, boots, next, booted, unresolved, failures>>

\* register_configured_providers
RegisterNext ==
  /\ stage = "register" /\ todo # <<>>
  /\ Register(Head(todo))
  /\ todo' = Tail(todo)
  /\ stage' = Registering(todo')
  /\ UNCHANGED <<order, next, booted, lifespans, failures>>

\* Application.boot begins with base_register, which registers the routing
\* provider; an application that is booted returns then.
BaseRegister ==
  /\ stage = "base"
  /\ Register(Routing)
  /\ stage' = IF booted THEN "up" ELSE "boot"
  /\ next' = IF booted THEN next ELSE 1
  /\ UNCHANGED <<order, todo, booted, lifespans, failures>>

\* Mutant: the loop runs over the providers there were when it started.
BootNextSkipsNew ==
  /\ stage = "boot" /\ next <= Len(service_providers)
  /\ LET p == service_providers[next] IN
       /\ service_providers' = service_providers \o ExtraOf(p)
       /\ boots' = [boots EXCEPT ![next] = @ + 1] \o [i \in DOMAIN ExtraOf(p) |-> 0]
       /\ Becomes(BootedIn(RegisteredExtra(Now, p), p))
  /\ next' = next + 1 + Len(ExtraOf(service_providers[next]))
  /\ UNCHANGED <<order, stage, todo, booted, lifespans, failures>>

\* boot_provider, called by the loop over _service_providers.  A provider that is
\* registered meanwhile is appended to the list and the loop will come to it.
BootProvider ==
  LET p == service_providers[next] IN
    /\ service_providers' = service_providers \o ExtraOf(p)
    /\ boots' = [boots EXCEPT ![next] = @ + 1] \o [i \in DOMAIN ExtraOf(p) |-> 0]
    /\ Becomes(BootedIn(RegisteredExtra(Now, p), p))

\* One turn of that loop.
BootNext ==
  /\ stage = "boot" /\ next <= Len(service_providers)
  /\ BootProvider
  /\ next' = next + 1
  /\ UNCHANGED <<order, stage, todo, booted, lifespans, failures>>

Booted ==
  /\ stage = "boot" /\ next > Len(service_providers)
  /\ booted' = TRUE /\ stage' = "up"
  /\ UNCHANGED <<order, todo, service_providers, boots, next, container, lifespans, failures>>

\* A provider raises: nothing is undone and the lifespan fails.
Fail == failures < MaxFailures /\ failures' = failures + 1 /\ stage' = "down"

\* register raises before it binds anything or after.
RegisterFails ==
  /\ stage = "register" /\ todo # <<>>
  /\ Fail
  /\ \E c \in {Now, Registered(Now, Head(todo))} : Becomes(c)
  /\ UNCHANGED <<order, todo, service_providers, boots, next, booted, lifespans>>

\* boot raises before it did anything or after, in the loop or right after the
\* registration of its provider.
BootFails ==
  /\ stage = "boot" /\ next <= Len(service_providers)
  /\ Fail
  /\ \/ boots' = [boots EXCEPT ![next] = @ + 1] /\ UNCHANGED <<service_providers, container>>
     \/ BootProvider
  /\ UNCHANGED <<order, todo, next, booted, lifespans>>

LateBootFails ==
  /\ stage = "register" /\ todo # <<>> /\ booted
  /\ Fail
  /\ \/ /\ service_providers' = Append(service_providers, Head(todo))
        /\ boots' = Append(boots, 1)
        /\ Becomes(Registered(Now, Head(todo)))
     \/ Register(Head(todo))
  /\ UNCHANGED <<order, todo, next, booted, lifespans>>

Next ==
  \/ Lifespan \/ RegisterNext \/ BaseRegister \/ BootNext \/ Booted
  \/ RegisterFails \/ BootFails \/ LateBootFails

Spec == Init /\ [][Next]_vars

-----------------------------------------------------------------------------
(* Correctness properties.                                                 *)

\* When a lifespan is up every provider object has been booted, those that other
\* providers registered while the loop ran and those of failed lifespans included;
\* and only a failed lifespan lets Application.boot boot an object again.
BootedOnce ==
  /\ \A i \in DOMAIN boots : boots[i] <= 1 + failures
  /\ stage = "up" => \A i \in DOMAIN boots : boots[i] >= 1

\* The providers that are registered whatever boots do.
Listed(o) == {o[i] : i \in DOMAIN o} \cup {Routing}

BoundAtBoot(o) == {Config} \cup UNION {Binds[p] : p \in Listed(o)}

\* What is bound when the boot of p begins to make things, beyond that.
BootBound(p) == BootBinds[p] \cup (IF Extra[p] = None THEN {} ELSE Binds[Extra[p]])

\* What users must see to when they list providers: a register method makes only what
\* it or a provider before it binds, and a boot method what any register method binds,
\* what the boot method of itself or a provider before it binds, or what the provider
\* registered there binds.
InOrder(o) ==
  /\ \A k \in DOMAIN o :
       /\ RegisterMakes[o[k]] \subseteq {Config} \cup UNION {Binds[o[i]] : i \in 1..k}
       /\ BootMakes[o[k]] \subseteq BoundAtBoot(o) \cup UNION {BootBound(o[i]) : i \in 1..k}
  /\ RegisterMakes[Routing] \subseteq BoundAtBoot(o)
  /\ BootMakes[Routing] \subseteq BoundAtBoot(o) \cup BootBound(Routing)
  /\ \A p \in Listed(o) : Extra[p] # None =>
       /\ RegisterMakes[Extra[p]] \subseteq BoundAtBoot(o) \cup Binds[Extra[p]]
       /\ BootMakes[Extra[p]] \subseteq BoundAtBoot(o) \cup Binds[Extra[p]] \cup BootBinds[Extra[p]]

ProvidersInOrder == \A o \in Orders : InOrder(o)

\* Two phases: what the boot method of a provider makes, and the register method
\* of any provider binds, is bound by then, in whatever order they are configured;
\* what is needed at registration is bound if its provider comes first.
Resolved == unresolved = {}

\* All boot methods of a lifespan that make a singleton are given one object, and
\* the configuration they are given is the one this lifespan loaded.
OneObject ==
  /\ \A a \in Shared : Cardinality(handed[a]) <= 1
  /\ handed[Config] \subseteq {made[Config]}

\* Registering providers again, in a later lifespan or after a failure, does not
\* replace the object of a singleton that somebody may hold.
SingletonKept ==
  [][\A a \in Shared \ {Config} : instances[a] # 0 => instances'[a] = instances[a]]_vars
=============================================================================
