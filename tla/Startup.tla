------------------------------- MODULE Startup -------------------------------
(* The globals of a process and who sees which: the registered container, the *)
(* targets of @inject, the auth service and the identity manager of each      *)
(* container with its providers, and the routers mounted when the server      *)
(* starts.  Any of them may be replaced after something was built from it.    *)
(*                                                                            *)
(* A container's auth service and identity manager are Singletons: whoever    *)
(* asks and finds none stored makes one and stores it, without a lock, while  *)
(* AuthProviderDepends asks in threads.                                       *)
EXTENDS Integers, Sequences, FiniteSets, Functions

CONSTANTS
    Containers, \* instances of DIContainer
    Offering,   \* those that have an identity_manager
    Callables,  \* functions under @inject
    Resolves,   \* for each container the callables whose markers its class has
    Providers,
    NameOf,     \* NAME of each provider
    Routed,     \* the providers with a router
    Listed,     \* for each container the providers its manager is made with
    Added,      \* the providers add_provider is called with
    Main,       \* the thread of the application and its event loop
    Threads,    \* threads of the server's pool
    MaxStarts,  \* bound on the starts of the server
    None

ASSUME ListedAssumption ==
    /\ None \notin Containers \cup Providers
    /\ Main \notin Threads
    /\ Offering \subseteq Containers
    /\ Resolves \in [Containers -> SUBSET Callables]
    /\ Routed \subseteq Providers
    /\ Added \subseteq Providers
    /\ Listed \in [Containers -> Seq(Providers)]
    /\ IsFiniteSet(Providers)

\* The providers of a list are instances made for their container.
ASSUME InstancesAssumption ==
    \A c \in Containers :
        /\ Range(Listed[c]) \cap Added = {}
        /\ \A d \in Containers \ {c} : Range(Listed[c]) \cap Range(Listed[d]) = {}

VARIABLES
    built,     \* the containers that exist
    active,    \* REGISTERED_GLOBAL_CONTAINER
    decorated, \* the callables decorated so far
    late,      \* those decorated since the last container was made
    target,    \* the container each is wired to
    app,       \* the application's container
    issued,    \* number of auth services ever made, each with its token cache
    service,   \* the one each container has stored, 0 for none
    managers,  \* the identity managers ever made
    manager,   \* the one each container has stored, 0 for none
    bound,     \* the auth service each provider is bound to, 0 for none
    starts, serving,
    mounts,    \* the providers whose routers are mounted, in order
    frame      \* the call of use_dependency each thread is in

wiring == <<built, active, decorated, late, target, app>>
singletons == <<issued, service, managers, manager, bound>>
server == <<starts, serving, mounts>>
vars == <<wiring, singletons, server, frame>>

Idle == [at |-> "idle", job |-> "none", of |-> None, service |-> 0, manager |-> 0,
         todo |-> {}, provider |-> None]

Frames ==
    [at : {"idle", "service", "keep", "bind", "use", "serve", "error"},
     job : {"none", "add", "start", "request"}, of : Containers \cup {None},
     service : Nat, manager : Nat, todo : SUBSET Providers,
     provider : Providers \cup {None}]

Callers == Threads \cup {Main}

Init ==
    /\ built = {} /\ active = None /\ app = None
    /\ decorated = {} /\ late = {} /\ target = [f \in Callables |-> None]
    /\ issued = 0 /\ service = [c \in Containers |-> 0]
    /\ managers = <<>> /\ manager = [c \in Containers |-> 0]
    /\ bound = [p \in Providers |-> 0]
    /\ starts = 0 /\ serving = FALSE
    /\ mounts = <<>>
    /\ frame = [t \in Callers |-> Idle]

------------------------------------------------------------------------------
(* Containers and injection                                                   *)

\* The decorator only notes the module: what exists is not wired again.
Inject(f) ==
    /\ frame[Main] = Idle /\ f \notin decorated
    /\ decorated' = decorated \cup {f}
    /\ late' = late \cup {f}
    /\ UNCHANGED <<built, active, target, app, singletons, server, frame>>

\* Variant of Construct: the first container stays registered.
ConstructOnce(c) ==
    /\ frame[Main] = Idle /\ c \notin built
    /\ built' = built \cup {c}
    /\ active' = IF active = None THEN c ELSE active
    /\ target' = [f \in Callables |->
                    IF f \in decorated \cap Resolves[c] THEN c ELSE target[f]]
    /\ late' = {}

\* DIContainer.__new__: the instance wires the functions noted so far, but for
\* those whose markers its class does not have, which stay with the container
\* they were wired to; and it becomes the global.
Construct(c) ==
    /\ frame[Main] = Idle /\ c \notin built
    /\ built' = built \cup {c}
    /\ active' = c
    /\ target' = [f \in Callables |->
                    IF f \in decorated \cap Resolves[c] THEN c ELSE target[f]]
    /\ late' = {}

NewContainer(c) ==
    /\ Construct(c)
    /\ UNCHANGED <<decorated, app, singletons, server, frame>>

\* Application.__init__.
BuildApplication(c) ==
    /\ app = None
    /\ Construct(c)
    /\ app' = c
    /\ UNCHANGED <<decorated, singletons, server, frame>>

------------------------------------------------------------------------------
(* use_dependency("identity_manager") in thread t                             *)

Stored(c) == IF c \in Offering THEN manager[c] ELSE 0

\* Variant of Asking: the manager is made for each call.
AskingAnew(c) == IF c \notin Offering THEN "error" ELSE "service"

\* Without an identity_manager, or a container, RuntimeError.
Asking(c) ==
    CASE c \notin Offering -> "error"
      [] c \in Offering /\ manager[c] = 0 -> "service"
      [] OTHER -> "use"

Ask(t, job, p) ==
    /\ frame[t] = Idle
    /\ frame' = [frame EXCEPT ![t] =
                   [at |-> Asking(active), job |-> job, of |-> active, service |-> 0,
                    manager |-> Stored(active), todo |-> {}, provider |-> p]]

\* Variant of Survivors: the list as it is given.
SurvivorsAll(c) == Range(Listed[c])

\* A dict by NAME: of providers with one name the last in the list survives.
Survivors(c) ==
    LET list == Listed[c] IN
    {list[i] : i \in {i \in DOMAIN list :
                        \A j \in DOMAIN list : j > i => NameOf[list[j]] # NameOf[list[i]]}}

\* The manager's auth_service: the one stored, or a new one.
FindService(t) ==
    LET c == frame[t].of IN
    /\ frame[t].at = "service"
    /\ \/ /\ service[c] # 0
          /\ frame' = [frame EXCEPT ![t].at = "bind", ![t].service = service[c],
                                    ![t].todo = Survivors(c)]
          /\ UNCHANGED issued
       \/ /\ service[c] = 0
          /\ issued' = issued + 1
          /\ frame' = [frame EXCEPT ![t].at = "keep", ![t].service = issued + 1]
    /\ UNCHANGED <<wiring, service, managers, manager, bound, server>>

\* Stored over what another thread may have stored meanwhile.
KeepService(t) ==
    LET c == frame[t].of IN
    /\ frame[t].at = "keep"
    /\ service' = [service EXCEPT ![c] = frame[t].service]
    /\ frame' = [frame EXCEPT ![t].at = "bind", ![t].todo = Survivors(c)]
    /\ UNCHANGED <<wiring, issued, managers, manager, bound, server>>

\* IdentityManager.__init__ binds its providers, which two managers share.
Bind(t) ==
    /\ frame[t].at = "bind"
    /\ \E p \in frame[t].todo :
         /\ bound' = [bound EXCEPT ![p] = frame[t].service]
         /\ frame' = [frame EXCEPT ![t].todo = @ \ {p}]
    /\ UNCHANGED <<wiring, issued, service, managers, manager, server>>

KeepManager(t) ==
    LET c == frame[t].of
        n == Len(managers) + 1
    IN
    /\ frame[t].at = "bind" /\ frame[t].todo = {}
    /\ managers' = Append(managers, [service |-> frame[t].service,
                                     providers |-> Survivors(c)])
    /\ manager' = [manager EXCEPT ![c] = n]
    /\ frame' = [frame EXCEPT ![t].at = "use", ![t].manager = n]
    /\ UNCHANGED <<wiring, issued, service, bound, server>>

\* What was asked for cannot be had: the call ends with an error.
Fail(t) ==
    /\ frame[t].at = "error"
    /\ frame' = [frame EXCEPT ![t] = Idle]
    /\ UNCHANGED <<wiring, singletons, server>>

------------------------------------------------------------------------------
(* Providers added                                                            *)

Named(m, n) == {p \in managers[m].providers : NameOf[p] = n}

CallAddProvider(p) ==
    /\ Ask(Main, "add", p)
    /\ UNCHANGED <<wiring, singletons, server>>

\* Variant of AddProvider: a provider of that name is replaced.
AddProviderAnyway ==
    LET m == frame[Main].manager
        p == frame[Main].provider
    IN
    /\ frame[Main].at = "use" /\ frame[Main].job = "add"
    /\ bound' = [bound EXCEPT ![p] = managers[m].service]
    /\ managers' = [managers EXCEPT ![m].providers = (@ \ Named(m, NameOf[p])) \cup {p}]
    /\ frame' = [frame EXCEPT ![Main] = Idle]
    /\ UNCHANGED <<wiring, issued, service, manager, server>>

\* Variant of AddProvider: without the call of bind.
AddProviderUnbound ==
    LET m == frame[Main].manager
        p == frame[Main].provider
    IN
    /\ frame[Main].at = "use" /\ frame[Main].job = "add"
    /\ Named(m, NameOf[p]) = {}
    /\ managers' = [managers EXCEPT ![m].providers = @ \cup {p}]
    /\ frame' = [frame EXCEPT ![Main] = Idle]
    /\ UNCHANGED <<wiring, issued, service, manager, bound, server>>

\* add_provider raises ValueError for a taken name.
AddProvider ==
    LET m == frame[Main].manager
        p == frame[Main].provider
    IN
    /\ frame[Main].at = "use" /\ frame[Main].job = "add"
    /\ \/ /\ Named(m, NameOf[p]) # {}
          /\ UNCHANGED <<managers, bound>>
       \/ /\ Named(m, NameOf[p]) = {}
          /\ bound' = [bound EXCEPT ![p] = managers[m].service]
          /\ managers' = [managers EXCEPT ![m].providers = @ \cup {p}]
    /\ frame' = [frame EXCEPT ![Main] = Idle]
    /\ UNCHANGED <<wiring, issued, service, manager, server>>

------------------------------------------------------------------------------
(* The server                                                                 *)

\* The lifespan of AuthRouter asks for the manager.
Start ==
    /\ app # None /\ ~serving /\ starts < MaxStarts
    /\ starts' = starts + 1
    /\ Ask(Main, "start", None)
    /\ UNCHANGED <<wiring, singletons, serving, mounts>>

Routers(m) == managers[m].providers \cap Routed

\* It mounts the routers, in an order that is left open here, behind those of
\* an earlier start.
Mount ==
    LET routers == Routers(frame[Main].manager) IN
    /\ frame[Main].at = "use" /\ frame[Main].job = "start"
    /\ \E order \in Bijection(1..Cardinality(routers), routers) : mounts' = mounts \o order
    /\ serving' = TRUE
    /\ frame' = [frame EXCEPT ![Main] = Idle]
    /\ UNCHANGED <<wiring, singletons, starts>>

\* uvicorn ends the requests it has taken before the lifespan.
Stop ==
    /\ serving
    /\ \A t \in Callers : frame[t] = Idle
    /\ serving' = FALSE
    /\ UNCHANGED <<wiring, singletons, starts, mounts, frame>>

\* All routers are mounted at one prefix: the first one gets every request, and
\* its route asks for the manager in a thread.
Request(t) ==
    /\ serving /\ mounts # <<>>
    /\ Ask(t, "request", None)
    /\ UNCHANGED <<wiring, singletons, server>>

\* AuthProviderDepends looks for the provider by the name the route gives it.
Lookup(t) ==
    LET found == Named(frame[t].manager, NameOf[mounts[1]]) IN
    /\ frame[t].at = "use" /\ frame[t].job = "request"
    /\ \/ /\ found = {}
          /\ frame' = [frame EXCEPT ![t].at = "error"]
       \/ \E p \in found :
            frame' = [frame EXCEPT ![t].at = "serve", ![t].provider = p]
    /\ UNCHANGED <<wiring, singletons, server>>

\* The handler runs on the provider's services.
Respond(t) ==
    /\ frame[t].at = "serve"
    /\ frame' = [frame EXCEPT ![t] = Idle]
    /\ UNCHANGED <<wiring, singletons, server>>

------------------------------------------------------------------------------
Use(t) ==
    \/ FindService(t) \/ KeepService(t) \/ Bind(t) \/ KeepManager(t) \/ Fail(t)

Next ==
    \/ \E f \in Callables : Inject(f)
    \/ \E c \in Containers : NewContainer(c) \/ BuildApplication(c)
    \/ \E p \in Added : CallAddProvider(p)
    \/ AddProvider \/ Start \/ Mount \/ Stop
    \/ \E t \in Callers : Use(t)
    \/ \E t \in Threads : Request(t) \/ Lookup(t) \/ Respond(t)

Spec == Init /\ [][Next]_vars

------------------------------------------------------------------------------
(* Properties                                                                 *)

TypeOK ==
    /\ built \subseteq Containers
    /\ active \in Containers \cup {None} /\ app \in Containers \cup {None}
    /\ decorated \subseteq Callables /\ late \subseteq Callables
    /\ target \in [Callables -> Containers \cup {None}]
    /\ issued \in Nat /\ service \in [Containers -> Nat]
    /\ managers \in Seq([service : Nat, providers : SUBSET Providers])
    /\ \A m \in DOMAIN managers : \A p, q \in managers[m].providers :
         NameOf[p] = NameOf[q] => p = q
    /\ manager \in [Containers -> Nat]
    /\ \A c \in Containers : manager[c] <= Len(managers)
    /\ bound \in [Providers -> Nat]
    /\ starts \in Nat /\ serving \in BOOLEAN
    /\ mounts \in Seq(Routed)
    /\ frame \in [Callers -> Frames]

\* However many containers are created, a function under @inject is given the
\* dependencies of the container use_container returns, unless no container was
\* created since it was decorated or the last one's class lacks what it asks for.
InjectionAgrees ==
    \A f \in decorated : target[f] = active \/ f \in late \/ f \notin Resolves[active]

\* While the application's container is the registered one, its identity manager
\* and all providers in it are on the one auth service the container has stored:
\* the sessions a sign-in opens and those a request is checked against are in
\* one cache, although nothing locks the singletons.
OneCache ==
    active = app /\ active # None /\ manager[active] # 0 =>
        LET m == managers[manager[active]] IN
        /\ m.service = service[active]
        /\ \A p \in m.providers : bound[p] = service[active]

\* The application's manager is never made again: no provider that was in it is
\* lost, whatever threads and later containers do.
NothingForgotten ==
    [][app # None /\ manager[app] # 0 =>
         managers[manager[app]].providers \subseteq managers'[manager'[app]].providers]_vars

\* While the application's container is the registered one, no request to the
\* mounted routes fails for want of its provider: each is answered by the very
\* provider whose router was mounted first, on the application's auth service.
AnsweredAsBuilt ==
    \A t \in Threads : active = app /\ frame[t].job = "request" =>
        /\ frame[t].at # "error"
        /\ frame[t].at = "serve" => /\ frame[t].provider = mounts[1]
                                    /\ bound[mounts[1]] = service[app]
=============================================================================
