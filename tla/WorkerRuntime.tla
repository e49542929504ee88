---------------------------- MODULE WorkerRuntime ----------------------------
(* The worker registry, the CLI built from it, and the two ways workers run: *)
(* `run`, one worker until a signal, and `start`, workers inside the         *)
(* lifespan of the FastAPI application.                                      *)
(*                                                                           *)
(* A run enters one or more levels, each a WorkerController.runner with its  *)
(* own AsyncExitStack: `run` has one; `start` has one per lifespan router    *)
(* the application was given, because FastAPI nests the lifespan of every    *)
(* included router inside the ones before it.                                *)
EXTENDS Naturals, Sequences, FiniteSets, SequencesExt

CONSTANTS
    Names,
    Classes,    \* worker classes, or specs of them
    NameOf,     \* NAME of each class
    Shadow,     \* the classes with SHADOW set
    Requests,   \* lists of names a program passes to ServerAdapter.start
    MaxStarts   \* bound on the calls of start in one process

ASSUME NameOfAssumption == NameOf \in [Classes -> Names]

ASSUME RequestsAssumption == Requests \subseteq Seq(Names)

ASSUME StartsAssumption == MaxStarts \in Nat \ {0}

VARIABLES
    registry,   \* WorkerRegistry._workers, in insertion order
    shadow,     \* WorkerRegistry._shadow_workers
    built,      \* Application has been built and the adapter set up
    offered,    \* the worker names of the CLI, fixed at that time
    lifespans,  \* the worker lists of the lifespan routers of the FastAPI app
    mode,       \* idle, or the command under way: run, serve
    phase,      \* off, build, start, body, unwind
    plan,       \* the worker lists of the levels of this run
    level,      \* the level being started
    pending,    \* instances of this level not entered yet
    stack,      \* entered instances, as the exit stacks hold them
    up,         \* instances whose lifespan is entered and not exited
    stop,       \* stop_event, or uvicorn's should_exit
    exc,        \* the exception in flight, or the last: none, error, cancelled
    served,     \* the body of the run was reached
    outcome     \* how the last run ended: none, clean, error

registration == <<registry, shadow, built, offered, lifespans>>
run == <<mode, phase, plan, level, pending, stack, up, stop, exc, served, outcome>>
vars == <<registration, run>>

Init ==
    /\ registry = <<>> /\ shadow = <<>> /\ lifespans = <<>>
    /\ built = FALSE /\ offered = <<>>
    /\ mode = "idle" /\ phase = "off" /\ plan = <<>> /\ level = 0
    /\ pending = <<>> /\ stack = <<>> /\ up = {}
    /\ stop = FALSE /\ exc = "none" /\ served = FALSE
    /\ outcome = "none"

\* The increasing enumeration of a set of indices.
InOrder(D) ==
    {f \in Bijection(1..Cardinality(D), D) : \A i, j \in DOMAIN f : i < j => f[i] < f[j]}

Registered(n) == \E i \in DOMAIN registry : NameOf[registry[i]] = n

ClassNamed(n) == registry[CHOOSE i \in DOMAIN registry : NameOf[registry[i]] = n]

------------------------------------------------------------------------------
(* WorkerRegistry.add and Application.__init__                               *)

\* A name that is taken raises ValueError and changes nothing.
Add(c) ==
    /\ mode = "idle"
    /\ \/ /\ Registered(NameOf[c])
          /\ UNCHANGED <<registry, shadow>>
       \/ /\ ~Registered(NameOf[c])
          /\ registry' = Append(registry, c)
          /\ shadow' = IF c \in Shadow THEN Append(shadow, NameOf[c]) ELSE shadow
    /\ UNCHANGED <<built, offered, lifespans, run>>

\* Variant of Visible: the classes themselves.
VisibleClasses(f) == [i \in DOMAIN f |-> registry[f[i]]]

\* WorkerRegistry.workers: what the CLI offers.
Visible(f) == [i \in DOMAIN f |-> NameOf[registry[f[i]]]]

Construct ==
    /\ ~built
    /\ built' = TRUE
    /\ \E f \in InOrder({i \in DOMAIN registry : registry[i] \notin Shadow}) :
         offered' = Visible(f)
    /\ UNCHANGED <<registry, shadow, lifespans, run>>

------------------------------------------------------------------------------
(* The commands                                                              *)

Begin(m, lists) ==
    /\ mode' = m
    /\ phase' = "build"
    /\ plan' = lists
    /\ level' = 1
    /\ pending' = <<>> /\ stack' = <<>>
    /\ stop' = FALSE /\ exc' = "none" /\ served' = FALSE
    /\ outcome' = "none"
    /\ UNCHANGED up

\* The choices of the CLI's argument are a Literal of the names of that time.
Offered(n) == n \in Range(offered)

\* The signal handlers are installed before anything else.
RunCommand(n) ==
    /\ mode = "idle"
    /\ Offered(n)
    /\ Begin("run", <<<<n>>>>)
    /\ UNCHANGED registration

\* start adds a lifespan router and never takes one away.
Start(names) ==
    /\ mode = "idle"
    /\ built
    /\ Len(lifespans) < MaxStarts
    /\ lifespans' = Append(lifespans, names)
    /\ Begin("serve", lifespans')
    /\ UNCHANGED <<registry, shadow, built, offered>>

\* The toggles of the CLI: the workers it offers, in that order, but those that
\* are switched off.  --server-only is the same as switching all of them off.
Toggled(f) == [i \in DOMAIN f |-> offered[f[i]]]

StartCommand(on) == \E f \in InOrder(on) : Start(Toggled(f))

\* SIGINT and SIGTERM only set a flag.
Signal ==
    /\ mode # "idle"
    /\ stop' = TRUE
    /\ UNCHANGED <<registration, mode, phase, plan, level, pending, stack, up, exc,
                   served, outcome>>

------------------------------------------------------------------------------
(* A run, level by level                                                     *)

\* Variant of Wanted: every run takes the shadow workers.
WantedWithShadow(l) == plan[l] \o shadow

\* build_workers: the server takes the shadow workers too.
Wanted(l) == plan[l] \o (IF mode = "serve" THEN shadow ELSE <<>>)

Instance(l, names) ==
    [i \in DOMAIN names |-> [level |-> l, pos |-> i, cls |-> ClassNamed(names[i])]]

Build ==
    /\ phase = "build"
    /\ \/ /\ \A n \in Range(Wanted(level)) : Registered(n)
          /\ pending' = Instance(level, Wanted(level))
          /\ phase' = "start"
          /\ UNCHANGED exc
       \/ /\ \E n \in Range(Wanted(level)) : ~Registered(n)
          /\ phase' = "unwind"
          /\ exc' = "error"
          /\ UNCHANGED pending
    /\ UNCHANGED <<registration, mode, plan, level, stack, up, stop, served, outcome>>

EnterWorker ==
    /\ phase = "start"
    /\ pending # <<>>
    /\ stack' = Append(stack, Head(pending))
    /\ up' = up \cup {Head(pending)}
    /\ pending' = Tail(pending)
    /\ UNCHANGED <<registration, mode, phase, plan, level, stop, exc, served, outcome>>

\* A lifespan raises before it yields, or is cancelled there.
EnterFails ==
    /\ phase = "start"
    /\ pending # <<>>
    /\ exc' \in {"error", "cancelled"}
    /\ phase' = "unwind"
    /\ pending' = <<>>
    /\ UNCHANGED <<registration, mode, plan, level, stack, up, stop, served, outcome>>

\* Variant of LevelUp: the stop event is created when startup is over.
LevelUpForgetting ==
    /\ phase = "start"
    /\ pending = <<>>
    /\ IF level < Len(plan)
       THEN level' = level + 1 /\ phase' = "build" /\ UNCHANGED <<served, stop>>
       ELSE phase' = "body" /\ served' = TRUE /\ stop' = FALSE /\ UNCHANGED level
    /\ UNCHANGED <<registration, mode, plan, pending, stack, up, exc, outcome>>

LevelUp ==
    /\ phase = "start"
    /\ pending = <<>>
    /\ IF level < Len(plan)
       THEN level' = level + 1 /\ phase' = "build" /\ UNCHANGED served
       ELSE phase' = "body" /\ served' = TRUE /\ UNCHANGED level
    /\ UNCHANGED <<registration, mode, plan, pending, stack, up, stop, exc, outcome>>

\* stop_event.wait returns at once when the signal came during startup.
Stopping ==
    /\ phase = "body"
    /\ stop
    /\ phase' = "unwind"
    /\ UNCHANGED <<registration, mode, plan, level, pending, stack, up, stop, exc,
                   served, outcome>>

\* A task group of a worker, or the loop on its way out, cancels the wait.
Cancelled ==
    /\ phase = "body"
    /\ phase' = "unwind"
    /\ exc' = "cancelled"
    /\ UNCHANGED <<registration, mode, plan, level, pending, stack, up, stop, served,
                   outcome>>

\* The exception once the last instance has exited with e.  A runner that ends
\* before its yield raises, even when a worker suppressed what ended it; so do
\* the merged lifespans when an outer level suppressed the error of an inner one.
Unyielded(e) ==
    LET last == Last(stack)
        rest == Front(stack)
        over == \/ rest = <<>>
                \/ last.level = level /\ Last(rest).level # level
    IN  IF over /\ ~served /\ e = "none" THEN "error" ELSE e

\* Variant of ExitWorker: an exit that raises ends the unwinding.
ExitWorkerOrGiveUp ==
    /\ phase = "unwind"
    /\ stack # <<>>
    /\ \/ /\ exc' = Unyielded(exc)
          /\ stack' = Front(stack)
       \/ /\ exc' = "error"
          /\ stack' = <<>>
    /\ up' = up \ {Last(stack)}
    /\ UNCHANGED <<registration, mode, phase, plan, level, pending, stop, served, outcome>>

\* Variant of ExitWorker: a runner that could not start ends quietly.
ExitWorkerQuietly ==
    /\ phase = "unwind"
    /\ stack # <<>>
    /\ \E e \in {exc, "error", "none"} : exc' = e
    /\ stack' = Front(stack)
    /\ up' = up \ {Last(stack)}
    /\ UNCHANGED <<registration, mode, phase, plan, level, pending, stop, served, outcome>>

\* Variant of ExitWorker: the workers stop in the order they started.
ExitWorkerInOrder ==
    /\ phase = "unwind"
    /\ stack # <<>>
    /\ \E e \in {exc, "error", "none"} : exc' = Unyielded(e)
    /\ stack' = Tail(stack)
    /\ up' = up \ {Head(stack)}
    /\ UNCHANGED <<registration, mode, phase, plan, level, pending, stop, served, outcome>>

\* The exit of a worker lets the exception pass, raises its own or suppresses it.
ExitWorker ==
    /\ phase = "unwind"
    /\ stack # <<>>
    /\ \E e \in {exc, "error", "none"} : exc' = Unyielded(e)
    /\ stack' = Front(stack)
    /\ up' = up \ {Last(stack)}
    /\ UNCHANGED <<registration, mode, phase, plan, level, pending, stop, served, outcome>>

\* _run_worker swallows a cancellation, one of the startup included; one that
\* ends a server's lifespan after its startup is seen by nobody.
Outcome ==
    IF exc = "none" \/ (exc = "cancelled" /\ (mode = "run" \/ served))
    THEN "clean"
    ELSE "error"

End ==
    /\ phase = "unwind"
    /\ stack = <<>>
    /\ mode' = "idle"
    /\ phase' = "off"
    /\ outcome' = Outcome
    /\ UNCHANGED <<registration, plan, level, pending, stack, up, stop, exc, served>>

------------------------------------------------------------------------------
Runner ==
    \/ Build \/ EnterWorker \/ EnterFails \/ LevelUp \/ Stopping \/ ExitWorker \/ End

Next ==
    \/ \E c \in Classes : Add(c)
    \/ Construct
    \/ \E n \in Names : RunCommand(n)
    \/ \E names \in Requests : Start(names)
    \/ \E on \in SUBSET DOMAIN offered : StartCommand(on)
    \/ Signal \/ Cancelled
    \/ Runner

Spec == Init /\ [][Next]_vars

\* The lifespans of the workers start and stop in finite time.
FairSpec == Spec /\ WF_vars(Runner)

------------------------------------------------------------------------------
(* Properties                                                                *)

Instances == [level : 1 .. MaxStarts, pos : Nat, cls : Classes]

TypeOK ==
    /\ registry \in Seq(Classes) /\ shadow \in Seq(Names)
    /\ built \in BOOLEAN /\ offered \in Seq(Names) /\ lifespans \in Seq(Seq(Names))
    /\ mode \in {"idle", "run", "serve"}
    /\ phase \in {"off", "build", "start", "body", "unwind"}
    /\ plan \in Seq(Seq(Names)) /\ level \in 0 .. MaxStarts
    /\ pending \in Seq(Instances) /\ stack \in Seq(Instances) /\ up \subseteq Instances
    /\ stop \in BOOLEAN /\ served \in BOOLEAN
    /\ exc \in {"none", "error", "cancelled"}
    /\ outcome \in {"none", "clean", "error"}

\* A command returns with no worker running, whichever lifespans failed to
\* start, raised on exit or suppressed an exception.
NothingLeftRunning == mode = "idle" => up = {}

\* The body is reached only with every worker the command asked for, and `run`
\* with that one alone: the shadow workers belong to the server.
RunsWhatWasAsked ==
    phase = "body" =>
        /\ \A l \in DOMAIN plan : \A n \in Range(plan[l]) :
             \E i \in up : i.level = l /\ NameOf[i.cls] = n
        /\ \A i \in up : \/ NameOf[i.cls] \in Range(plan[i.level])
                         \/ mode = "serve" /\ i.cls \in Shadow

\* A command that ends without an error has run its body, or it was cancelled
\* during its startup, which `run` swallows: no combination of failing and
\* suppressing workers over the levels turns any other failed startup into a
\* clean end.
FailedStartIsSeen == outcome = "clean" => served \/ exc = "cancelled"

Before(i, j) == i.level < j.level \/ (i.level = j.level /\ i.pos < j.pos)

\* No worker stops while one started after it, which may rely on it, is running.
StopsInReverse ==
    [][\A i, j \in up : Before(i, j) /\ i \notin up' => j \notin up']_vars

\* A signal ends the command, also one that came during startup.
SignalStops == stop /\ mode # "idle" ~> mode = "idle"
==============================================================================
