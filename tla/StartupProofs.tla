---------------------------- MODULE StartupProofs ----------------------------
(* Proofs about Startup.  No thread of the pool ever makes the application's  *)
(* manager: the first start, or an add_provider before it, made it on the     *)
(* main thread while the server was down, so what the singletons lack in      *)
(* locks does not matter to it.  Of other containers nothing is said.         *)
EXTENDS Startup, FiniteSetTheorems, TLAPS

Making(t) == frame[t].at \in {"service", "keep", "bind"}

Known ==
    /\ active \in built \cup {None} /\ app \in built \cup {None}
    /\ \A c \in Containers : c \notin built => manager[c] = 0
    /\ \A c \in Containers : manager[c] # 0 => c \in Offering
    /\ serving \/ mounts # <<>> => app # None

\* What a call is, by the thread that makes it.
Calls ==
    \A t \in Callers :
        /\ frame[t].at = "idle" => frame[t] = Idle
        /\ frame[t] # Idle =>
             /\ frame[t].at # "error" => frame[t].of \in built \cap Offering
             /\ frame[t].at = "bind" => frame[t].todo \subseteq Survivors(frame[t].of)
             /\ t = Main => /\ frame[t].of = active
                            /\ frame[t].job = "add" => frame[t].provider \in Added
             /\ t # Main => serving /\ mounts # <<>> /\ frame[t].job = "request"
             /\ frame[t].job = "start" => ~serving /\ app # None
             /\ frame[t].at = "use" => frame[t].manager \in 1..Len(managers)
             /\ frame[t].at = "use" /\ frame[t].of = app => frame[t].manager = manager[app]

\* The application's manager is made once, on the main thread.
MadeOnce ==
    \A t \in Callers : Making(t) /\ frame[t].of = app =>
        /\ t = Main /\ ~serving /\ manager[app] = 0
        /\ frame[t].at = "bind" =>
             /\ frame[t].service = service[app]
             /\ \A p \in Survivors(app) \ frame[t].todo : bound[p] = service[app]

\* What its manager has while it is the registered container's.
AppManager ==
    active = app /\ app # None =>
        /\ serving \/ mounts # <<>> => manager[app] # 0
        /\ manager[app] # 0 =>
             /\ managers[manager[app]].providers \subseteq Range(Listed[app]) \cup Added
             /\ \A k \in DOMAIN mounts : mounts[k] \in managers[manager[app]].providers

\* And how requests then go.
Served ==
    \A t \in Threads : active = app /\ frame[t] # Idle =>
        /\ frame[t].of = app /\ frame[t].at \in {"use", "serve"}
        /\ frame[t].at = "serve" => frame[t].provider = mounts[1]

IInv ==
    /\ TypeOK /\ InjectionAgrees /\ OneCache
    /\ Known /\ Calls /\ MadeOnce /\ AppManager /\ Served

LEMMA InitInv == Init => IInv
<1> SUFFICES ASSUME Init PROVE IInv
  OBVIOUS
<1>1. Idle \in Frames
  BY DEF Idle, Frames
<1>2. TypeOK
  <2>1. managers \in Seq([service : Nat, providers : SUBSET Providers])
        /\ DOMAIN managers = {} /\ Len(managers) = 0 /\ mounts \in Seq(Routed)
    BY DEF Init
  <2>2. manager \in [Containers -> Nat] /\ \A c \in Containers : manager[c] <= Len(managers)
    BY <2>1 DEF Init
  <2> QED BY <1>1, <2>1, <2>2 DEF Init, TypeOK
<1>3. InjectionAgrees /\ OneCache /\ Known /\ AppManager
  BY DEF Init, InjectionAgrees, OneCache, Known, AppManager
<1>4. Calls /\ MadeOnce /\ Served
  BY DEF Init, Calls, MadeOnce, Making, Served, Idle, Callers
<1> QED BY <1>2, <1>3, <1>4 DEF IInv

\* A list is reduced to its own providers, one of each name.
LEMMA SurvivorsApart ==
    ASSUME NEW c \in Containers
    PROVE  /\ Survivors(c) \subseteq Range(Listed[c])
           /\ Survivors(c) \subseteq Providers
           /\ \A p \in Survivors(c), q \in Survivors(c) : NameOf[p] = NameOf[q] => p = q
<1> DEFINE list == Listed[c]
<1>1. list \in Seq(Providers)
  BY ListedAssumption
<1> HIDE DEF list
<1>2. Survivors(c) = {list[i] : i \in {i \in DOMAIN list :
          \A j \in DOMAIN list : j > i => NameOf[list[j]] # NameOf[list[i]]}}
  BY DEF Survivors, list
<1>3. \A i \in DOMAIN list : list[i] \in Providers /\ list[i] \in Range(list) /\ i \in Int
  BY <1>1 DEF Range
<1>4. ASSUME NEW p \in Survivors(c), NEW q \in Survivors(c), NameOf[p] = NameOf[q]
      PROVE  p = q
  <2>1. PICK i \in DOMAIN list : /\ p = list[i]
          /\ \A j \in DOMAIN list : j > i => NameOf[list[j]] # NameOf[list[i]]
    BY <1>2
  <2>2. PICK h \in DOMAIN list : /\ q = list[h]
          /\ \A j \in DOMAIN list : j > h => NameOf[list[j]] # NameOf[list[h]]
    BY <1>2
  <2>3. i = h \/ i < h \/ h < i
    BY <1>3
  <2> QED BY <1>4, <2>1, <2>2, <2>3
<1> QED BY <1>2, <1>3, <1>4 DEF list

LEMMA InjectStep ==
    ASSUME IInv, NEW f \in Callables, Inject(f) PROVE IInv'
<1>1. /\ decorated' = decorated \cup {f} /\ late' = late \cup {f}
      /\ UNCHANGED <<built, active, target, app, singletons, server, frame>>
  BY DEF Inject
<1>2. TypeOK' /\ InjectionAgrees'
  BY <1>1 DEF IInv, TypeOK, InjectionAgrees, singletons, server
<1> QED BY <1>1, <1>2 DEF IInv, OneCache, Known, Calls, MadeOnce, Making, AppManager,
                          Served, singletons, server

LEMMA ContainerStep ==
    ASSUME IInv, NEW c \in Containers, Construct(c),
           UNCHANGED <<decorated, singletons, server, frame>>,
           app' = app \/ (app = None /\ app' = c)
    PROVE  IInv'
<1>1. /\ frame[Main] = Idle /\ c \notin built /\ built' = built \cup {c} /\ active' = c
      /\ target' = [f \in Callables |->
                      IF f \in decorated \cap Resolves[c] THEN c ELSE target[f]]
      /\ late' = {}
  BY DEF Construct
<1>2. c # None /\ manager[c] = 0
  BY <1>1, ListedAssumption DEF IInv, Known
<1>3. TypeOK' /\ InjectionAgrees'
  BY <1>1 DEF IInv, TypeOK, InjectionAgrees, singletons, server
<1>4. \/ app' = app /\ active' # app'
      \/ app = None /\ app' = c /\ mounts = <<>> /\ ~serving
  BY <1>1, <1>2 DEF IInv, Known
<1>5. \A t \in Callers : frame[t] # Idle => t # Main
  BY <1>1
<1>6. OneCache' /\ Known'
  BY <1>1, <1>2, <1>4 DEF IInv, OneCache, Known, singletons, server
<1>7. \A t \in Callers : frame[t] # Idle => app' = app
  BY <1>4, <1>5 DEF IInv, Calls
<1>8. Calls'
  BY <1>1, <1>4, <1>5, <1>7 DEF IInv, Calls, singletons, server
<1>9. MadeOnce'
  <2>1. \A t \in Callers : Making(t) => frame[t] # Idle
    BY DEF Making, Idle
  <2> QED BY <1>1, <1>7, <2>1 DEF IInv, MadeOnce, Making, singletons, server
<1>10. AppManager'
  BY <1>2, <1>1, <1>4 DEF IInv, AppManager, singletons, server
<1>11. Served'
  BY <1>1, <1>4, <1>7 DEF IInv, Served, Calls, server, Callers
<1> QED BY <1>3, <1>6, <1>8, <1>9, <1>10, <1>11 DEF IInv

\* What a manager is.
LEMMA ManagerType ==
    ASSUME TypeOK, NEW m \in 1..Len(managers)
    PROVE  /\ managers[m] \in [service : Nat, providers : SUBSET Providers]
           /\ managers[m].service \in Nat
           /\ managers[m].providers \subseteq Providers
           /\ \A p \in managers[m].providers, q \in managers[m].providers :
                NameOf[p] = NameOf[q] => p = q
<1> DEFINE S == [service : Nat, providers : SUBSET Providers]
<1>1. managers \in Seq(S)
      /\ \A n \in DOMAIN managers : \A p, q \in managers[n].providers :
           NameOf[p] = NameOf[q] => p = q
  BY DEF TypeOK
<1> HIDE DEF S
<1>2. m \in DOMAIN managers
  BY <1>1
<1>3. managers[m] \in S
  BY <1>1, <1>2
<1> QED BY <1>1, <1>2, <1>3 DEF S

\* The stored managers exist.
LEMMA StoredType ==
    ASSUME TypeOK, NEW c \in Containers, manager[c] # 0
    PROVE  /\ manager[c] \in 1..Len(managers)
           /\ managers[manager[c]].providers \subseteq Providers
<1>1. manager[c] \in 1..Len(managers)
  BY DEF TypeOK
<1> QED BY <1>1, ManagerType

------------------------------------------------------------------------------
(* A call of use_dependency                                                   *)

LEMMA AskStep ==
    ASSUME IInv, NEW t \in Callers, NEW job \in {"add", "start", "request"},
           NEW p \in Providers \cup {None}, Ask(t, job, p),
           UNCHANGED <<wiring, singletons, serving, mounts>>, starts' \in Nat,
           job = "add" => p \in Added /\ t = Main,
           job = "start" => ~serving /\ app # None /\ t = Main,
           job = "request" => serving /\ mounts # <<>> /\ t \in Threads
    PROVE  IInv'
<1> DEFINE new == [at |-> Asking(active), job |-> job, of |-> active, service |-> 0,
                   manager |-> Stored(active), todo |-> {}, provider |-> p]
<1> HIDE DEF new
<1>1. frame[t] = Idle /\ frame' = [frame EXCEPT ![t] = new]
  BY DEF Ask, new
<1>2. /\ new.at = Asking(active) /\ new.job = job /\ new.of = active
      /\ new.manager = Stored(active) /\ new.provider = p
  BY DEF new
<1>3. /\ active \notin Offering => new.at = "error"
      /\ active \in Offering => active \in Containers /\ new.manager = manager[active]
      /\ active \in Offering /\ manager[active] = 0 => new.at = "service"
      /\ active \in Offering /\ manager[active] # 0 => new.at = "use"
  BY <1>2, ListedAssumption DEF Asking, Stored
<1>4. /\ new.at \in {"error", "service", "use"} /\ new.manager \in Nat
      /\ new.at \in {"service", "use"} => active \in built \cap Offering
      /\ new.at = "use" => new.manager \in 1..Len(managers)
  <2>1. CASE active \notin Offering
    BY <1>2, <1>3, <2>1 DEF Stored
  <2>2. CASE active \in Offering
    <3>1. manager[active] \in Nat /\ manager[active] <= Len(managers) /\ Len(managers) \in Nat
      BY <1>3, <2>2 DEF IInv, TypeOK
    <3>2. active \in built
      BY <1>3, <2>2, ListedAssumption DEF IInv, Known
    <3> QED BY <1>3, <2>2, <3>1, <3>2
  <2> QED BY <2>1, <2>2
<1>5. frame'[t] = new /\ \A u \in Callers \ {t} : frame'[u] = frame[u]
  BY <1>1 DEF IInv, TypeOK
<1>6. new # Idle /\ new.at # "idle"
  BY <1>4 DEF Idle
<1>7. TypeOK'
  <2>1. new \in Frames
    BY <1>2, <1>4 DEF new, Frames, IInv, TypeOK
  <2> QED BY <1>1, <2>1 DEF IInv, TypeOK, wiring, singletons
<1>8. InjectionAgrees' /\ OneCache' /\ Known' /\ AppManager'
  BY DEF IInv, InjectionAgrees, OneCache, Known, AppManager, wiring, singletons
<1>9. Calls'
  <2>1. new.at = "use" /\ active = app => new.manager = manager[app]
    BY <1>3, <1>4
  <2>2. Main \notin Threads
    BY ListedAssumption
  <2> SUFFICES ASSUME NEW u \in Callers
               PROVE  Calls!(u)'
    BY DEF Calls
  <2>3. CASE u = t
    BY <1>2, <1>4, <1>5, <1>6, <2>1, <2>2, <2>3 DEF wiring, singletons
  <2>4. CASE u # t
    BY <1>5, <2>4 DEF IInv, Calls, wiring, singletons
  <2> QED BY <2>3, <2>4
<1>10. MadeOnce'
  <2>1. new.at = "service" /\ active = app => t = Main /\ ~serving /\ manager[app] = 0
    <3> SUFFICES ASSUME new.at = "service", active = app PROVE t = Main /\ ~serving /\ manager[app] = 0
      OBVIOUS
    <3>1. manager[app] = 0 /\ app # None
      BY <1>3, <1>4, ListedAssumption
    <3>2. ~serving
      BY <3>1 DEF IInv, AppManager
    <3> QED BY <3>1, <3>2 DEF Callers
  <2> SUFFICES ASSUME NEW u \in Callers PROVE MadeOnce!(u)'
    BY DEF MadeOnce
  <2>2. CASE u = t
    BY <1>2, <1>4, <1>5, <2>1, <2>2 DEF Making, wiring, singletons
  <2>3. CASE u # t
    BY <1>5, <2>3 DEF IInv, MadeOnce, Making, wiring, singletons
  <2> QED BY <2>2, <2>3
<1>11. Served'
  <2>1. ASSUME active = app, t \in Threads PROVE new.at = "use"
    <3>1. serving /\ app # None
      BY <2>1, ListedAssumption DEF IInv, Known
    <3>2. manager[app] # 0
      BY <2>1, <3>1 DEF IInv, AppManager
    <3>3. app \in Containers
      BY <3>1 DEF IInv, TypeOK
    <3> QED BY <1>3, <2>1, <3>2, <3>3 DEF IInv, Known
  <2> SUFFICES ASSUME NEW u \in Threads PROVE Served!(u)'
    BY DEF Served
  <2>2. CASE u = t
    BY <1>2, <1>5, <2>1, <2>2 DEF wiring
  <2>3. CASE u # t
    BY <1>5, <2>3 DEF IInv, Served, Callers, wiring
  <2> QED BY <2>2, <2>3
<1> QED BY <1>7, <1>8, <1>9, <1>10, <1>11 DEF IInv

\* A call that ends leaves no trace of its own.
LEMMA EndStep ==
    ASSUME IInv, NEW t \in Callers, frame' = [frame EXCEPT ![t] = Idle],
           UNCHANGED <<wiring, singletons, server>>
    PROVE  IInv'
<1>1. frame'[t] = Idle /\ \A u \in Callers \ {t} : frame'[u] = frame[u]
  BY DEF IInv, TypeOK
<1>2. TypeOK'
  <2>1. Idle \in Frames
    BY DEF Idle, Frames
  <2> QED BY <2>1 DEF IInv, TypeOK, wiring, singletons, server
<1>3. InjectionAgrees' /\ OneCache' /\ Known' /\ AppManager'
  BY DEF IInv, InjectionAgrees, OneCache, Known, AppManager, wiring, singletons, server
<1>4. Calls'
  BY <1>1 DEF IInv, Calls, wiring, singletons, server
<1>5. MadeOnce'
  BY <1>1 DEF IInv, MadeOnce, Making, Idle, wiring, singletons, server
<1>6. Served'
  BY <1>1 DEF IInv, Served, Callers, wiring, server
<1> QED BY <1>2, <1>3, <1>4, <1>5, <1>6 DEF IInv

\* A thread that makes a manager is in a call, for a container that exists, and
\* not for the application's if it is of the pool.
LEMMA MakingApart ==
    ASSUME IInv, NEW t \in Callers, Making(t)
    PROVE  /\ frame[t] # Idle /\ frame[t] \in Frames
           /\ frame[t].of \in built \cap Offering /\ frame[t].of \in Containers
           /\ app # None => \A u \in Callers \ {t} : Making(u) => frame[u].of # app \/ ~serving
           /\ t # Main => serving /\ active # app /\ frame[t].of # app
           /\ frame[t].of = app => manager[app] = 0
<1>1. frame[t] # Idle /\ frame[t].at # "error"
  BY DEF Making, Idle
<1>2. frame[t] \in Frames
  BY DEF IInv, TypeOK
<1>3. frame[t].of \in built \cap Offering /\ frame[t].of \in Containers
  BY <1>1, ListedAssumption DEF IInv, Calls
<1>4. t # Main => serving /\ active # app /\ frame[t].of # app
  BY <1>1 DEF IInv, Calls, Served, MadeOnce, Making, Callers
<1>5. \A u \in Callers \ {t} : Making(u) => frame[u].of # app \/ ~serving
  BY DEF IInv, MadeOnce
<1> QED BY <1>1, <1>2, <1>3, <1>4, <1>5 DEF IInv, MadeOnce

LEMMA MakingStep ==
    ASSUME IInv, NEW t \in Callers, Making(t),
           NEW new \in Frames, frame' = [frame EXCEPT ![t] = new],
           new.at \in {"keep", "bind"}, new.of = frame[t].of, new.job = frame[t].job,
           new.provider = frame[t].provider,
           new.at = "bind" => new.todo \subseteq Survivors(new.of),
           UNCHANGED <<wiring, managers, manager, server>>,
           issued' \in Nat, service' \in [Containers -> Nat], bound' \in [Providers -> Nat],
           \A c \in Containers : c # frame[t].of => service'[c] = service[c],
           \A p \in Providers : p \notin Survivors(frame[t].of) => bound'[p] = bound[p],
           frame[t].of = app /\ new.at = "bind" =>
               /\ new.service = service'[app]
               /\ \A p \in Survivors(app) \ new.todo : bound'[p] = service'[app]
    PROVE  IInv'
<1>1. frame'[t] = new /\ \A u \in Callers \ {t} : frame'[u] = frame[u]
  BY DEF IInv, TypeOK
<1>2. TypeOK'
  BY DEF IInv, TypeOK, wiring, server
<1>3. InjectionAgrees' /\ Known' /\ AppManager'
  BY DEF IInv, InjectionAgrees, Known, AppManager, wiring, server
<1>4. OneCache'
  <2> SUFFICES ASSUME active = app, app # None, manager[app] # 0
               PROVE  LET m == managers[manager[app]] IN
                      /\ m.service = service'[app]
                      /\ \A p \in m.providers : bound'[p] = service'[app]
    BY DEF OneCache, wiring
  <2>1. app \in Containers /\ frame[t].of # app /\ frame[t].of \in Containers
    BY MakingApart DEF IInv, TypeOK
  <2>3. managers[manager[app]].providers \subseteq Providers
    BY <2>1, StoredType DEF IInv
  <2>4. \A p \in managers[manager[app]].providers : p \notin Survivors(frame[t].of)
    BY <2>1, SurvivorsApart, InstancesAssumption DEF IInv, AppManager
  <2> QED BY <2>1, <2>3, <2>4 DEF IInv, OneCache
<1>5. new # Idle
  BY DEF Idle
<1>6. Calls'
  BY <1>1, <1>5, MakingApart DEF IInv, Calls, wiring, server
<1>7. MadeOnce'
  <2> SUFFICES ASSUME NEW u \in Callers PROVE MadeOnce!(u)'
    BY DEF MadeOnce
  <2>1. CASE u = t
    <3>1. frame[t].of = app => t = Main /\ ~serving /\ manager[app] = 0
      BY DEF IInv, MadeOnce
    <3>2. app' = app /\ serving' = serving /\ manager' = manager
      BY DEF wiring, server
    <3> QED BY <1>1, <2>1, <3>1, <3>2
  <2>2. ASSUME u # t, Making(u)', frame'[u].of = app PROVE FALSE
    <3>1. u = Main /\ ~serving
      BY <1>1, <2>2 DEF IInv, MadeOnce, Making
    <3> QED BY <2>2, <3>1, MakingApart
  <2>3. CASE u # t
    BY <2>2, <2>3 DEF wiring
  <2> QED BY <2>1, <2>3
<1>8. Served'
  <2> SUFFICES ASSUME NEW u \in Threads PROVE Served!(u)'
    BY DEF Served
  <2>1. app' = app /\ active' = active /\ mounts' = mounts
    BY DEF wiring, server
  <2>2. CASE u = t
    <3>1. u # Main
      BY ListedAssumption
    <3> QED BY <2>1, <2>2, <3>1, MakingApart
  <2>3. CASE u # t
    BY <1>1, <2>1, <2>3 DEF IInv, Served, Callers
  <2> QED BY <2>2, <2>3
<1> QED BY <1>2, <1>3, <1>4, <1>6, <1>7, <1>8 DEF IInv

LEMMA FindStep == ASSUME IInv, NEW t \in Callers, FindService(t) PROVE IInv'
<1> DEFINE c == frame[t].of
<1>1. frame[t].at = "service" /\ UNCHANGED <<wiring, service, managers, manager, bound, server>>
      /\ Making(t)
  BY DEF FindService, Making
<1>2. frame[t] \in Frames /\ c \in Containers /\ Survivors(c) \subseteq Providers
  BY <1>1, MakingApart, SurvivorsApart
<1>3. /\ service[c] \in Nat /\ issued \in Nat /\ issued + 1 \in Nat
      /\ service \in [Containers -> Nat] /\ bound \in [Providers -> Nat]
  BY <1>2 DEF IInv, TypeOK
<1>6. service' = service /\ bound' = bound
  BY <1>1
<1>4. CASE frame' = [frame EXCEPT ![t].at = "bind", ![t].service = service[c],
                                  ![t].todo = Survivors(c)] /\ UNCHANGED issued
  <2> DEFINE new == [frame[t] EXCEPT !.at = "bind", !.service = service[c],
                                     !.todo = Survivors(c)]
  <2>1. frame' = [frame EXCEPT ![t] = new]
    BY <1>4 DEF IInv, TypeOK
  <2>2. new \in Frames /\ new.at = "bind" /\ new.of = c /\ new.job = frame[t].job
        /\ new.provider = frame[t].provider /\ new.service = service[c]
        /\ new.todo = Survivors(c)
    BY <1>2, <1>3 DEF Frames
  <2> HIDE DEF new
  <2>3. /\ c = app => new.service = service'[app]
        /\ c = app => \A p \in Survivors(app) \ new.todo : bound'[p] = service'[app]
    BY <1>6, <2>2
  <2>4. issued' \in Nat
    BY <1>3, <1>4
  <2> QED BY <1>1, <1>3, <1>6, <2>1, <2>2, <2>3, <2>4, MakingStep
<1>5. CASE issued' = issued + 1
           /\ frame' = [frame EXCEPT ![t].at = "keep", ![t].service = issued + 1]
  <2> DEFINE new == [frame[t] EXCEPT !.at = "keep", !.service = issued + 1]
  <2>1. frame' = [frame EXCEPT ![t] = new]
    BY <1>5 DEF IInv, TypeOK
  <2>2. new \in Frames /\ new.at = "keep" /\ new.of = c /\ new.job = frame[t].job
        /\ new.provider = frame[t].provider
    BY <1>2, <1>3 DEF Frames
  <2> HIDE DEF new
  <2>3. issued' \in Nat /\ new.at # "bind"
    BY <1>3, <1>5, <2>2
  <2> QED BY <1>1, <1>3, <1>6, <2>1, <2>2, <2>3, MakingStep
<1> QED BY <1>4, <1>5 DEF FindService

LEMMA KeepStep == ASSUME IInv, NEW t \in Callers, KeepService(t) PROVE IInv'
<1> DEFINE c == frame[t].of
           new == [frame[t] EXCEPT !.at = "bind", !.todo = Survivors(c)]
<1>1. frame[t].at = "keep" /\ UNCHANGED <<wiring, issued, managers, manager, bound, server>>
      /\ Making(t) /\ service' = [service EXCEPT ![c] = frame[t].service]
  BY DEF KeepService, Making
<1>2. frame[t] \in Frames /\ c \in Containers /\ Survivors(c) \subseteq Providers
  BY <1>1, MakingApart, SurvivorsApart
<1>3. frame[t].service \in Nat
  BY <1>2 DEF Frames
<1>4. frame' = [frame EXCEPT ![t] = new]
  BY DEF KeepService, IInv, TypeOK
<1>5. new \in Frames /\ new.at = "bind" /\ new.of = c /\ new.job = frame[t].job
      /\ new.provider = frame[t].provider /\ new.service = frame[t].service
      /\ new.todo = Survivors(c)
  BY <1>2 DEF Frames
<1>6. service' \in [Containers -> Nat] /\ service'[c] = frame[t].service
      /\ \A d \in Containers : d # c => service'[d] = service[d]
  BY <1>1, <1>2, <1>3 DEF IInv, TypeOK
<1> HIDE DEF new
<1>7. /\ c = app => new.service = service'[app]
      /\ c = app => \A p \in Survivors(app) \ new.todo : bound'[p] = service'[app]
  BY <1>5, <1>6, <1>2
<1>8. bound' = bound /\ bound \in [Providers -> Nat] /\ issued' \in Nat
  BY <1>1 DEF IInv, TypeOK
<1>9. UNCHANGED <<wiring, managers, manager, server>> /\ new.todo \subseteq Survivors(new.of)
  BY <1>1, <1>5
<1>10. /\ new.at = "bind" /\ new.of = frame[t].of /\ new.job = frame[t].job
       /\ new.provider = frame[t].provider
       /\ \A d \in Containers : d # frame[t].of => service'[d] = service[d]
       /\ frame[t].of = app => new.service = service'[app]
       /\ frame[t].of = app => \A p \in Survivors(app) \ new.todo : bound'[p] = service'[app]
  BY <1>5, <1>6, <1>7
<1> HIDE DEF c
<1> QED BY <1>1, <1>4, <1>5, <1>6, <1>8, <1>9, <1>10, MakingStep

LEMMA BindStep == ASSUME IInv, NEW t \in Callers, Bind(t) PROVE IInv'
<1> DEFINE c == frame[t].of
<1>1. frame[t].at = "bind" /\ UNCHANGED <<wiring, issued, service, managers, manager, server>>
      /\ Making(t)
  BY DEF Bind, Making
<1>2. PICK p \in frame[t].todo : /\ bound' = [bound EXCEPT ![p] = frame[t].service]
                                 /\ frame' = [frame EXCEPT ![t].todo = @ \ {p}]
  BY DEF Bind
<1>3. frame[t] \in Frames /\ c \in Containers
  BY <1>1, MakingApart
<1>4. p \in Providers /\ frame[t].service \in Nat
  BY <1>3 DEF Frames
<1> DEFINE new == [frame[t] EXCEPT !.todo = @ \ {p}]
<1>5. frame' = [frame EXCEPT ![t] = new]
  BY <1>2 DEF IInv, TypeOK
<1>6. new \in Frames /\ new.at = "bind" /\ new.of = c /\ new.job = frame[t].job
      /\ new.provider = frame[t].provider /\ new.service = frame[t].service
      /\ new.todo = frame[t].todo \ {p}
  BY <1>1, <1>3 DEF Frames
<1> HIDE DEF new
<1>7. bound' \in [Providers -> Nat] /\ bound'[p] = frame[t].service
      /\ \A q \in Providers : q # p => bound'[q] = bound[q]
  BY <1>2, <1>4 DEF IInv, TypeOK
<1>8. p \in Survivors(c) /\ new.todo \subseteq Survivors(c)
  BY <1>1, <1>2, <1>6, MakingApart DEF IInv, Calls
<1>9. c = app => /\ frame[t].service = service[app]
                 /\ \A q \in Survivors(app) \ new.todo : bound'[q] = service[app]
  BY <1>1, <1>3, <1>4, <1>6, <1>7, SurvivorsApart DEF IInv, MadeOnce
<1> QED BY <1>1, <1>5, <1>6, <1>7, <1>8, <1>9, MakingStep DEF IInv, TypeOK

LEMMA KeepManagerStep == ASSUME IInv, NEW t \in Callers, KeepManager(t) PROVE IInv'
<1> DEFINE c == frame[t].of
           n == Len(managers) + 1
           new == [frame[t] EXCEPT !.at = "use", !.manager = n]
           made == [service |-> frame[t].service, providers |-> Survivors(c)]
           S == [service : Nat, providers : SUBSET Providers]
<1>1. /\ frame[t].at = "bind" /\ frame[t].todo = {} /\ Making(t)
      /\ managers' = Append(managers, made) /\ manager' = [manager EXCEPT ![c] = n]
      /\ UNCHANGED <<wiring, issued, service, bound, server>>
  BY DEF KeepManager, Making
<1>2. /\ frame[t] \in Frames /\ c \in Containers /\ c \in built \cap Offering
      /\ Survivors(c) \subseteq Providers /\ frame[t] # Idle
  BY <1>1, MakingApart, SurvivorsApart
<1>3. frame' = [frame EXCEPT ![t] = new]
  BY DEF KeepManager, IInv, TypeOK
<1>4. managers \in Seq(S) /\ Len(managers) \in Nat /\ made \in S /\ n \in Nat /\ n # 0
  BY <1>2 DEF IInv, TypeOK, Frames
<1>5. /\ new \in Frames /\ new.at = "use" /\ new.of = c /\ new.job = frame[t].job
      /\ new.provider = frame[t].provider /\ new.manager = n /\ new # Idle
  BY <1>2, <1>4 DEF Frames, Idle
<1>6. made.service = frame[t].service /\ made.providers = Survivors(c)
  OBVIOUS
<1> HIDE DEF new, S, made
<1>7. /\ managers' \in Seq(S) /\ Len(managers') = n /\ managers'[n] = made
      /\ \A m \in 1..Len(managers) : managers'[m] = managers[m]
      /\ DOMAIN managers' = 1..n
  BY <1>1, <1>4
<1>8. /\ manager' \in [Containers -> Nat] /\ manager'[c] = n
      /\ \A d \in Containers \ {c} : manager'[d] = manager[d]
      /\ \A d \in Containers : manager[d] \in Nat /\ manager[d] <= Len(managers)
  BY <1>1, <1>2, <1>4 DEF IInv, TypeOK
<1> HIDE DEF n
<1>9. frame'[t] = new /\ \A u \in Callers \ {t} : frame'[u] = frame[u]
  BY <1>3 DEF IInv, TypeOK
<1>10. TypeOK'
  <2>1. \A m \in DOMAIN managers' : \A p, q \in managers'[m].providers :
          NameOf[p] = NameOf[q] => p = q
    <3> SUFFICES ASSUME NEW m \in 1..n, NEW p \in managers'[m].providers,
                        NEW q \in managers'[m].providers, NameOf[p] = NameOf[q]
                 PROVE  p = q
      BY <1>7
    <3>1. CASE m = n
      BY <1>2, <1>6, <1>7, <3>1, SurvivorsApart
    <3>2. CASE m # n
      <4>1. m \in 1..Len(managers)
        BY <1>4, <3>2 DEF n
      <4> QED BY <1>7, <4>1, ManagerType DEF IInv
    <3> QED BY <3>1, <3>2
  <2>2. \A d \in Containers : manager'[d] <= Len(managers')
    BY <1>4, <1>7, <1>8 DEF n
  <2>3. frame' \in [Callers -> Frames]
    BY <1>3, <1>5 DEF IInv, TypeOK
  <2> QED BY <1>1, <1>7, <1>8, <2>1, <2>2, <2>3 DEF IInv, TypeOK, S, wiring, server
<1>11. InjectionAgrees' /\ Known'
  BY <1>1, <1>2, <1>8 DEF IInv, InjectionAgrees, Known, wiring, server
<1>12. c = app => /\ t = Main /\ ~serving /\ manager[app] = 0
                  /\ frame[t].service = service[app]
                  /\ \A p \in Survivors(app) : bound[p] = service[app]
  BY <1>1 DEF IInv, MadeOnce
<1>13. OneCache' /\ AppManager'
  <2> SUFFICES ASSUME active = app, app # None PROVE OneCache' /\ AppManager'
    BY <1>1 DEF OneCache, AppManager, wiring
  <2>1. app \in Containers
    BY DEF IInv, TypeOK
  <2>2. CASE c = app
    <3>1. mounts = <<>> /\ ~serving
      BY <1>12, <2>2 DEF IInv, AppManager
    <3>2. OneCache'
      BY <1>1, <1>6, <1>7, <1>8, <1>12, <2>2 DEF OneCache, wiring
    <3>3. AppManager'
      BY <1>1, <1>2, <1>4, <1>6, <1>7, <1>8, <2>2, <3>1, SurvivorsApart
         DEF AppManager, wiring, server
    <3> QED BY <3>2, <3>3
  <2>3. CASE c # app
    <3>1. manager'[app] = manager[app]
      BY <1>8, <2>1, <2>3
    <3>2. manager[app] # 0 => managers'[manager[app]] = managers[manager[app]]
      BY <1>7, <2>1, StoredType DEF IInv
    <3> QED BY <1>1, <3>1, <3>2 DEF IInv, OneCache, AppManager, wiring, server
  <2> QED BY <2>2, <2>3
<1>14. Calls'
  <2> SUFFICES ASSUME NEW u \in Callers PROVE Calls!(u)'
    BY DEF Calls
  <2>1. Len(managers) <= Len(managers') /\ n \in 1..Len(managers') /\ Len(managers') \in Nat
    BY <1>4, <1>7 DEF n
  <2>2. CASE u = t
    BY <1>1, <1>2, <1>5, <1>8, <1>9, <2>1, <2>2 DEF IInv, Calls, wiring, server
  <2>3. CASE u # t
    <3>1. frame[u].at = "use" /\ frame[u].of = app => c # app
      BY <1>12, <2>3 DEF IInv, Calls, Idle
    <3>2. frame[u] # Idle /\ frame[u].at = "use" =>
            /\ frame[u].manager \in 1..Len(managers')
            /\ frame[u].of = app => frame[u].manager = manager'[app]
      <4> SUFFICES ASSUME frame[u] # Idle, frame[u].at = "use"
                   PROVE  /\ frame[u].manager \in 1..Len(managers')
                          /\ frame[u].of = app => frame[u].manager = manager'[app]
        OBVIOUS
      <4>1. frame[u].manager \in 1..Len(managers) /\ frame[u].of \in Containers
        BY ListedAssumption DEF IInv, Calls
      <4>2. frame[u].manager \in 1..Len(managers')
        BY <1>4, <2>1, <4>1
      <4>3. frame[u].of = app => frame[u].manager = manager'[app]
        BY <1>8, <3>1, <4>1 DEF IInv, Calls
      <4> QED BY <4>2, <4>3
    <3> QED BY <1>1, <1>9, <2>3, <3>2 DEF IInv, Calls, wiring, server
  <2> QED BY <2>2, <2>3
<1>15. MadeOnce'
  <2> SUFFICES ASSUME NEW u \in Callers, u # t, Making(u), frame[u].of = app PROVE FALSE
    BY <1>1, <1>5, <1>9 DEF MadeOnce, Making, wiring
  <2>1. u = Main /\ ~serving
    BY DEF IInv, MadeOnce
  <2> QED BY <1>1, <2>1, MakingApart
<1>16. Served'
  <2> SUFFICES ASSUME NEW u \in Threads PROVE Served!(u)'
    BY DEF Served
  <2>1. CASE u = t
    <3>1. u # Main
      BY ListedAssumption
    <3> QED BY <1>1, <2>1, <3>1, MakingApart DEF wiring
  <2>2. CASE u # t
    BY <1>1, <1>9, <2>2 DEF IInv, Served, Callers, wiring, server
  <2> QED BY <2>1, <2>2
<1> QED BY <1>10, <1>11, <1>13, <1>14, <1>15, <1>16 DEF IInv

------------------------------------------------------------------------------
(* What is done with the manager                                              *)

LEMMA AddStep == ASSUME IInv, AddProvider PROVE IInv'
<1> DEFINE m == frame[Main].manager
           p == frame[Main].provider
<1>1. frame[Main].at = "use" /\ frame[Main].job = "add" /\ frame' = [frame EXCEPT ![Main] = Idle]
      /\ UNCHANGED <<wiring, issued, service, manager, server>> /\ Main \in Callers
  BY DEF AddProvider, Callers
<1>5. TypeOK
  BY DEF IInv
<1>2. /\ frame[Main].of = active /\ active \in Offering /\ p \in Added
      /\ m \in 1..Len(managers) /\ m # 0
      /\ active = app => m = manager[app]
  BY <1>1 DEF IInv, Calls, Idle
<1>3. CASE UNCHANGED <<managers, bound>>
  BY <1>1, <1>3, EndStep DEF singletons
<1>4. CASE /\ Named(m, NameOf[p]) = {}
           /\ bound' = [bound EXCEPT ![p] = managers[m].service]
           /\ managers' = [managers EXCEPT ![m].providers = @ \cup {p}]
  <2> DEFINE S == [service : Nat, providers : SUBSET Providers]
             new == [managers[m] EXCEPT !.providers = @ \cup {p}]
  <2>1. p \in Providers /\ managers \in Seq(S) /\ bound \in [Providers -> Nat]
    BY <1>2, ListedAssumption DEF IInv, TypeOK
  <2>2. managers[m] \in S /\ managers[m].service \in Nat
    BY <1>2, <1>5, ManagerType
  <2>3. /\ new \in S /\ new.service = managers[m].service
        /\ new.providers = managers[m].providers \cup {p}
    BY <2>1, <2>2
  <2>4. managers' = [managers EXCEPT ![m] = new]
    BY <1>2, <1>4, <2>1
  <2> HIDE DEF new, S
  <2>5. /\ managers' \in Seq(S) /\ Len(managers') = Len(managers)
        /\ managers'[m] = new
        /\ DOMAIN managers' = 1..Len(managers)
        /\ \A k \in (1..Len(managers)) \ {m} : managers'[k] = managers[k]
    <3> HIDE DEF m
    <3> QED BY <1>2, <2>1, <2>3, <2>4
  <2>6. /\ bound' \in [Providers -> Nat] /\ bound'[p] = managers[m].service
        /\ \A q \in Providers \ {p} : bound'[q] = bound[q]
    BY <1>4, <2>1, <2>2
  <2>7. frame'[Main] = Idle /\ \A u \in Callers \ {Main} : frame'[u] = frame[u]
    BY <1>1 DEF IInv, TypeOK
  <2>8. TypeOK'
    <3>1. \A k \in DOMAIN managers' : \A q, r \in managers'[k].providers :
            NameOf[q] = NameOf[r] => q = r
      <4> SUFFICES ASSUME NEW k \in 1..Len(managers), NEW q \in managers'[k].providers,
                          NEW r \in managers'[k].providers, NameOf[q] = NameOf[r]
                   PROVE  q = r
        BY <2>5
      <4>1. CASE k = m
        BY <1>2, <1>4, <2>3, <2>5, <4>1, ManagerType DEF Named, IInv
      <4>2. CASE k # m
        BY <2>5, <4>2, ManagerType DEF IInv
      <4> QED BY <4>1, <4>2
    <3>2. frame' \in [Callers -> Frames]
      <4>1. Idle \in Frames
        BY DEF Idle, Frames
      <4> QED BY <1>1, <4>1 DEF IInv, TypeOK
    <3> QED BY <1>1, <2>5, <2>6, <3>1, <3>2 DEF IInv, TypeOK, S, wiring, server
  <2>9. InjectionAgrees' /\ Known'
    BY <1>1 DEF IInv, InjectionAgrees, Known, wiring, server
  <2>10. OneCache' /\ AppManager'
    <3> SUFFICES ASSUME active = app, app # None PROVE OneCache' /\ AppManager'
      BY <1>1 DEF OneCache, AppManager, wiring
    <3>1. m = manager[app] /\ m # 0 /\ managers[m].providers \subseteq Providers
      BY <1>2, <1>5, ManagerType
    <3>2. managers[m].service = service[app]
          /\ \A q \in managers[m].providers : bound[q] = service[app]
      BY <3>1 DEF IInv, OneCache
    <3>3. OneCache'
      BY <1>1, <2>3, <2>5, <2>6, <3>1, <3>2 DEF OneCache, wiring
    <3>4. AppManager'
      BY <1>1, <1>2, <2>3, <2>5, <3>1 DEF IInv, AppManager, wiring, server
    <3> QED BY <3>3, <3>4
  <2>11. Calls'
    BY <1>1, <2>5, <2>7 DEF IInv, Calls, wiring, server
  <2>12. MadeOnce'
    <3> SUFFICES ASSUME NEW u \in Callers, Making(u), u # Main, frame[u].of = app PROVE FALSE
      BY <1>1, <2>7 DEF MadeOnce, Making, Idle, wiring
    <3> QED BY DEF IInv, MadeOnce
  <2>13. Served'
    BY <1>1, <2>7 DEF IInv, Served, Callers, wiring, server
  <2> QED BY <2>8, <2>9, <2>10, <2>11, <2>12, <2>13 DEF IInv
<1> QED BY <1>3, <1>4 DEF AddProvider

\* An enumeration of the routers of a manager.
LEMMA RoutersType ==
    ASSUME IInv, NEW m \in 1..Len(managers),
           NEW order \in Bijection(1..Cardinality(Routers(m)), Routers(m))
    PROVE  /\ order \in Seq(Routed)
           /\ \A k \in DOMAIN order : order[k] \in managers[m].providers
<1>1. Routers(m) \subseteq Routed /\ Routers(m) \subseteq managers[m].providers
      /\ Routers(m) \subseteq Providers
  BY ManagerType DEF Routers, IInv
<1>2. Cardinality(Routers(m)) \in Nat
  BY <1>1, ListedAssumption, FS_Subset, FS_CardinalityType
<1>3. order \in [1..Cardinality(Routers(m)) -> Routers(m)]
  BY DEF Bijection, Injection, Surjection, IsInjective
<1> QED BY <1>1, <1>2, <1>3

LEMMA MountStep == ASSUME IInv, Mount PROVE IInv'
<1> DEFINE m == frame[Main].manager
<1>1. frame[Main].at = "use" /\ frame[Main].job = "start" /\ frame' = [frame EXCEPT ![Main] = Idle]
      /\ serving' = TRUE /\ UNCHANGED <<wiring, singletons, starts>> /\ Main \in Callers
  BY DEF Mount, Callers
<1>2. PICK order \in Bijection(1..Cardinality(Routers(m)), Routers(m)) : mounts' = mounts \o order
  BY DEF Mount
<1>3. /\ frame[Main].of = active /\ active \in Offering /\ ~serving /\ app # None
      /\ m \in 1..Len(managers) /\ m # 0
      /\ active = app => m = manager[app]
  BY <1>1 DEF IInv, Calls, Idle
<1>4. \A u \in Callers \ {Main} : frame[u] = Idle
  BY <1>3 DEF IInv, Calls
<1>5. \A u \in Callers : frame'[u] = Idle
  BY <1>1, <1>4 DEF IInv, TypeOK
<1>6. /\ order \in Seq(Routed) /\ mounts \in Seq(Routed)
      /\ \A k \in DOMAIN order : order[k] \in managers[m].providers
  <2>1. mounts \in Seq(Routed)
    BY DEF IInv, TypeOK
  <2> QED BY <1>3, <2>1, RoutersType
<1>7. mounts' \in Seq(Routed)
  BY <1>2, <1>6
<1>8. TypeOK'
  <2>1. Idle \in Frames
    BY DEF Idle, Frames
  <2> QED BY <1>1, <1>7, <2>1 DEF IInv, TypeOK, wiring, singletons
<1>9. InjectionAgrees' /\ OneCache' /\ Known'
  BY <1>1, <1>3 DEF IInv, InjectionAgrees, OneCache, Known, wiring, singletons
<1>10. Calls' /\ MadeOnce' /\ Served'
  <2>1. \A u \in Callers : frame'[u].at = "idle"
    BY <1>5 DEF Idle
  <2> QED BY <1>5, <2>1 DEF Calls, MadeOnce, Making, Served, Callers
<1>11. AppManager'
  <2> SUFFICES ASSUME active = app
               PROVE  /\ manager[app] # 0
                      /\ managers[manager[app]].providers \subseteq Range(Listed[app]) \cup Added
                      /\ \A k \in DOMAIN mounts' : mounts'[k] \in managers[manager[app]].providers
    BY <1>1 DEF AppManager, wiring, singletons
  <2>1. m = manager[app] /\ m # 0
    BY <1>3
  <2>2. managers[m].providers \subseteq Range(Listed[app]) \cup Added
        /\ \A k \in DOMAIN mounts : mounts[k] \in managers[m].providers
    BY <1>3, <2>1 DEF IInv, AppManager
  <2> DEFINE P == managers[m].providers
  <2>3. \A k \in DOMAIN order : order[k] \in P
    BY <1>6
  <2> HIDE DEF P
  <2>4. ASSUME NEW k \in DOMAIN mounts' PROVE mounts'[k] \in P
    <3>1. k \in 1..(Len(mounts) + Len(order)) /\ Len(mounts) \in Nat /\ Len(order) \in Nat
      BY <1>2, <1>6, <2>4
    <3>2. CASE k <= Len(mounts)
      BY <1>2, <1>6, <2>2, <3>1, <3>2 DEF P
    <3>3. CASE k > Len(mounts)
      <4>1. k - Len(mounts) \in DOMAIN order /\ mounts'[k] = order[k - Len(mounts)]
        BY <1>2, <1>6, <3>1, <3>3
      <4> QED BY <2>3, <4>1
    <3> QED BY <3>1, <3>2, <3>3
  <2> QED BY <2>1, <2>2, <2>4 DEF P
<1> QED BY <1>8, <1>9, <1>10, <1>11 DEF IInv

LEMMA StopStep == ASSUME IInv, Stop PROVE IInv'
<1>1. /\ \A t \in Callers : frame[t] = Idle /\ frame'[t] = Idle
      /\ serving' = FALSE
      /\ UNCHANGED <<wiring, singletons, starts, mounts, frame>>
  BY DEF Stop
<1>2. TypeOK' /\ InjectionAgrees' /\ OneCache' /\ Known' /\ AppManager'
  BY <1>1 DEF IInv, TypeOK, InjectionAgrees, OneCache, Known, AppManager, wiring, singletons
<1>3. Calls' /\ MadeOnce' /\ Served'
  <2>1. \A u \in Callers : frame'[u].at = "idle"
    BY <1>1 DEF Idle
  <2> QED BY <1>1, <2>1 DEF Calls, MadeOnce, Making, Served, Callers
<1> QED BY <1>2, <1>3 DEF IInv

\* A request to the application finds the provider mounted first, and no other.
LEMMA LookupStep == ASSUME IInv, NEW t \in Threads, Lookup(t) PROVE IInv'
<1> DEFINE m == frame[t].manager
<1>1. /\ frame[t].at = "use" /\ t \in Callers /\ t # Main
      /\ UNCHANGED <<wiring, singletons, server>>
  BY ListedAssumption DEF Lookup, Callers
<1>2. frame[t] \in Frames /\ frame[t] # Idle /\ m \in 1..Len(managers)
      /\ mounts # <<>> /\ serving /\ frame[t].job = "request" /\ frame[t].of \in built \cap Offering
  BY <1>1 DEF IInv, TypeOK, Calls, Idle
<1>3. active = app => /\ Named(m, NameOf[mounts[1]]) = {mounts[1]}
  <2> SUFFICES ASSUME active = app PROVE Named(m, NameOf[mounts[1]]) = {mounts[1]}
    OBVIOUS
  <2>1. app # None /\ frame[t].of = app /\ m = manager[app] /\ manager[app] # 0
    BY <1>1, <1>2 DEF IInv, Known, Served, Calls, AppManager
  <2>2. 1 \in DOMAIN mounts
    BY <1>2 DEF IInv, TypeOK
  <2>3. mounts[1] \in managers[m].providers
    BY <2>1, <2>2 DEF IInv, AppManager
  <2> QED BY <1>2, <2>3, ManagerType DEF Named, IInv
<1> DEFINE Found(new) ==
        /\ frame' = [frame EXCEPT ![t] = new]
        /\ new.of = frame[t].of /\ new.job = frame[t].job
        /\ \/ new.at = "error" /\ Named(m, NameOf[mounts[1]]) = {}
           \/ new.at = "serve" /\ new.provider \in Named(m, NameOf[mounts[1]])
<1>10. \E new \in Frames : Found(new)
  <2>1. ASSUME Named(m, NameOf[mounts[1]]) = {}, frame' = [frame EXCEPT ![t].at = "error"]
        PROVE  \E new \in Frames : Found(new)
    <3> DEFINE new == [frame[t] EXCEPT !.at = "error"]
    <3>1. frame' = [frame EXCEPT ![t] = new]
      BY <1>1, <2>1 DEF IInv, TypeOK
    <3>2. new \in Frames /\ new.at = "error" /\ new.of = frame[t].of /\ new.job = frame[t].job
      BY <1>2 DEF Frames
    <3> HIDE DEF new
    <3>3. Found(new)
      BY <2>1, <3>1, <3>2
    <3> QED BY <3>2, <3>3
  <2>2. ASSUME NEW p \in Named(m, NameOf[mounts[1]]),
               frame' = [frame EXCEPT ![t].at = "serve", ![t].provider = p]
        PROVE  \E new \in Frames : Found(new)
    <3> DEFINE new == [frame[t] EXCEPT !.at = "serve", !.provider = p]
    <3>1. frame' = [frame EXCEPT ![t] = new]
      BY <1>1, <2>2 DEF IInv, TypeOK
    <3>2. p \in Providers
      BY <1>2, ManagerType DEF IInv, Named
    <3>3. new \in Frames /\ new.at = "serve" /\ new.of = frame[t].of
          /\ new.job = frame[t].job /\ new.provider = p
      BY <1>2, <3>2 DEF Frames
    <3> HIDE DEF new
    <3>4. Found(new)
      BY <2>2, <3>1, <3>3
    <3> QED BY <3>3, <3>4
  <2> HIDE DEF Found
  <2> QED BY <2>1, <2>2 DEF Lookup
<1>4. PICK new \in Frames : Found(new)
  BY <1>10
<1>5. frame'[t] = new /\ (\A u \in Callers \ {t} : frame'[u] = frame[u]) /\ new # Idle
  BY <1>1, <1>4 DEF IInv, TypeOK, Idle
<1>6. TypeOK' /\ InjectionAgrees' /\ OneCache' /\ Known' /\ AppManager'
  BY <1>1, <1>4 DEF IInv, TypeOK, InjectionAgrees, OneCache, Known, AppManager,
                    wiring, singletons, server
<1>7. Calls'
  BY <1>1, <1>2, <1>4, <1>5 DEF IInv, Calls, wiring, singletons, server
<1>8. MadeOnce'
  BY <1>1, <1>4, <1>5 DEF IInv, MadeOnce, Making, wiring, singletons, server
<1>9. Served'
  <2> SUFFICES ASSUME NEW u \in Threads PROVE Served!(u)'
    BY DEF Served
  <2>1. CASE u = t
    BY <1>1, <1>2, <1>3, <1>4, <1>5, <2>1 DEF IInv, Served, wiring, server
  <2>2. CASE u # t
    BY <1>1, <1>5, <2>2 DEF IInv, Served, Callers, wiring, server
  <2> QED BY <2>1, <2>2
<1> QED BY <1>6, <1>7, <1>8, <1>9 DEF IInv

------------------------------------------------------------------------------

LEMMA NextStep == IInv /\ [Next]_vars => IInv'
<1> SUFFICES ASSUME IInv, [Next]_vars PROVE IInv'
  OBVIOUS
<1>1. ASSUME NEW c \in Containers, NewContainer(c) \/ BuildApplication(c) PROVE IInv'
  <2>1. CASE NewContainer(c)
    BY <2>1, ContainerStep DEF NewContainer
  <2>2. CASE BuildApplication(c)
    BY <2>2, ContainerStep DEF BuildApplication
  <2> QED BY <1>1, <2>1, <2>2
<1>2. ASSUME NEW p \in Added, CallAddProvider(p) PROVE IInv'
  BY <1>2, AskStep, ListedAssumption
     DEF CallAddProvider, Callers, server, IInv, TypeOK
<1>3. CASE Start
  <2>1. /\ Ask(Main, "start", None) /\ ~serving /\ app # None /\ Main \in Callers
        /\ UNCHANGED <<wiring, singletons, serving, mounts>>
    BY <1>3 DEF Start, Callers
  <2>2. starts' \in Nat
    BY <1>3 DEF Start, IInv, TypeOK
  <2>3. "start" \in {"add", "start", "request"} /\ "start" # "add" /\ "start" # "request"
    OBVIOUS
  <2> QED BY <2>1, <2>2, <2>3, AskStep
<1>4. ASSUME NEW t \in Threads, Request(t) PROVE IInv'
  BY <1>4, AskStep DEF Request, Callers, server, IInv, TypeOK
<1>5. ASSUME NEW t \in Callers, Use(t) PROVE IInv'
  BY <1>5, FindStep, KeepStep, BindStep, KeepManagerStep, EndStep DEF Use, Fail
<1>6. ASSUME NEW t \in Threads, Respond(t) PROVE IInv'
  BY <1>6, EndStep DEF Respond, Callers
<1>7. CASE UNCHANGED vars
  BY <1>7 DEF vars, wiring, singletons, server, IInv, TypeOK, InjectionAgrees, OneCache,
              Known, Calls, MadeOnce, Making, AppManager, Served
<1> QED BY <1>1, <1>2, <1>3, <1>4, <1>5, <1>6, <1>7, InjectStep, AddStep, MountStep,
           StopStep, LookupStep DEF Next

\* The inductive invariant, for any containers, providers, lists and threads.
THEOREM Invariant == Spec => []IInv
BY InitInv, NextStep, PTL DEF Spec

\* Every state is well typed, and no manager has two providers of a name.
THEOREM TypeCorrect == Spec => []TypeOK
<1>1. IInv => TypeOK
  BY DEF IInv
<1> QED BY <1>1, Invariant, PTL

\* Functions under @inject disagree with use_container only if they were decorated
\* late or ask for what the last container's class lacks.
THEOREM InjectionAgreesHolds == Spec => []InjectionAgrees
<1>1. IInv => InjectionAgrees
  BY DEF IInv
<1> QED BY <1>1, Invariant, PTL

\* The application's manager and its providers are on one auth service, with one
\* cache, in any number of threads that make singletons without a lock.
THEOREM OneCacheHolds == Spec => []OneCache
<1>1. IInv => OneCache
  BY DEF IInv
<1> QED BY <1>1, Invariant, PTL

\* A request to the application is answered by the provider mounted first, on
\* that auth service, and never fails for want of a provider.
THEOREM AnsweredAsBuiltHolds == Spec => []AnsweredAsBuilt
<1>1. ASSUME IInv PROVE AnsweredAsBuilt
  <2> SUFFICES ASSUME NEW t \in Threads, active = app, frame[t].job = "request"
               PROVE  /\ frame[t].at # "error"
                      /\ frame[t].at = "serve" => /\ frame[t].provider = mounts[1]
                                                  /\ bound[mounts[1]] = service[app]
    BY DEF AnsweredAsBuilt
  <2>1. frame[t] # Idle /\ t \in Callers /\ t # Main
    BY ListedAssumption DEF Idle, Callers
  <2>2. serving /\ mounts # <<>> /\ app # None
    BY <1>1, <2>1 DEF IInv, Calls, Known
  <2>3. frame[t].at # "error" /\ (frame[t].at = "serve" => frame[t].provider = mounts[1])
    BY <1>1, <2>1 DEF IInv, Served
  <2>4. 1 \in DOMAIN mounts
    BY <1>1, <2>2 DEF IInv, TypeOK
  <2>5. manager[app] # 0 /\ mounts[1] \in managers[manager[app]].providers
    BY <1>1, <2>2, <2>4 DEF IInv, AppManager
  <2> QED BY <1>1, <2>2, <2>3, <2>5 DEF IInv, OneCache
<1>2. IInv => AnsweredAsBuilt
  BY <1>1
<1> QED BY <1>2, Invariant, PTL

\* The application's manager is made once and its providers stay.
THEOREM NothingForgottenHolds == Spec => NothingForgotten
<1> DEFINE A == app # None /\ manager[app] # 0 =>
                  managers[manager[app]].providers \subseteq managers'[manager'[app]].providers
<1>1. IInv /\ [Next]_vars => [A]_vars
  <2> SUFFICES ASSUME IInv, Next, app # None, manager[app] # 0
               PROVE  managers[manager[app]].providers \subseteq managers'[manager'[app]].providers
    BY DEF vars
  <2>1. app \in Containers
    BY DEF IInv, TypeOK
  <2>2. manager[app] \in 1..Len(managers)
    BY <2>1, StoredType DEF IInv
  <2>3. CASE UNCHANGED <<managers, manager>>
    BY <2>3
  <2>4. ASSUME NEW t \in Callers, KeepManager(t)
        PROVE  managers'[manager'[app]] = managers[manager[app]]
    <3>1. frame[t].of # app
      BY <2>4 DEF KeepManager, IInv, MadeOnce, Making
    <3>2. manager'[app] = manager[app]
      BY <2>1, <2>4, <3>1 DEF KeepManager, IInv, TypeOK
    <3> DEFINE S == [service : Nat, providers : SUBSET Providers]
    <3>3. managers \in Seq(S)
      BY DEF IInv, TypeOK
    <3> HIDE DEF S
    <3>4. PICK r : managers' = Append(managers, r)
      BY <2>4 DEF KeepManager
    <3>5. managers'[manager[app]] = managers[manager[app]]
      BY <2>2, <3>3, <3>4
    <3> QED BY <3>2, <3>5
  <2>5. ASSUME AddProvider
        PROVE  managers[manager[app]].providers \subseteq managers'[manager'[app]].providers
    <3>1. manager' = manager
      BY <2>5 DEF AddProvider
    <3>2. CASE UNCHANGED managers
      BY <3>1, <3>2
    <3>3. CASE managers' = [managers EXCEPT ![frame[Main].manager].providers
                                              = @ \cup {frame[Main].provider}]
      <4> DEFINE S == [service : Nat, providers : SUBSET Providers]
                 k == manager[app]
                 m == frame[Main].manager
      <4>1. managers \in Seq(S)
        BY DEF IInv, TypeOK
      <4>2. managers[k] \in S
        BY <2>2, ManagerType DEF IInv
      <4>3. CASE k = m
        <5> DEFINE p == frame[Main].provider
                   new == [managers[m] EXCEPT !.providers = @ \cup {p}]
        <5>3. managers' = [managers EXCEPT ![m] = new] /\ m \in DOMAIN managers
          BY <2>2, <3>3, <4>1, <4>3
        <5>1. managers'[k] = [managers[k] EXCEPT !.providers = @ \cup {p}]
          <6> HIDE DEF p, k, m
          <6> QED BY <4>3, <5>3
        <5>2. managers'[k].providers = managers[k].providers \cup {frame[Main].provider}
          BY <4>2, <5>1
        <5> QED BY <3>1, <5>2
      <4>4. CASE k # m
        <5>1. managers'[k] = managers[k]
          BY <2>2, <3>3, <4>1, <4>4
        <5> QED BY <3>1, <5>1
      <4> QED BY <4>3, <4>4
    <3> QED BY <2>5, <3>2, <3>3 DEF AddProvider
  <2>6. \/ UNCHANGED <<managers, manager>> \/ AddProvider
        \/ \E t \in Callers : KeepManager(t)
    BY DEF Next, Use, Inject, NewContainer, BuildApplication, CallAddProvider, Start, Mount,
           Stop, Request, Lookup, Respond, FindService, KeepService, Bind, Fail, singletons
  <2> QED BY <2>3, <2>4, <2>5, <2>6
<1> QED BY <1>1, Invariant, PTL DEF Spec, NothingForgotten
=============================================================================
