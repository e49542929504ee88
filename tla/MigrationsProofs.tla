--------------------------- MODULE MigrationsProofs ---------------------------
(* What the migration commands keep of alembic_version and the tables for any *)
(* number of releases, tables and processes, whatever runs beside whatever.   *)
(* What of InitSucceeds is a matter of safety: some init always goes on, none *)
(* is ever stuck, and each runs out of steps.                                 *)
EXTENDS Migrations, TLAPS

\* Intervals of revisions, put together.
LEMMA Intervals ==
    ASSUME NEW i \in Nat, NEW j \in Nat, i <= j
    PROVE  (1 .. i) \cup (i + 1 .. j) = 1 .. j
OBVIOUS

\* Where the tables are those of a revision, undoing the changes after an earlier
\* one leaves just that one's: a table created later has no change of before.
LEMMA UndoneToTarget ==
    ASSUME NEW i \in Nat, NEW j \in Nat, i <= j, applied = 1 .. j
    PROVE  Without(i + 1 .. j) = 1 .. i
<1>1. ASSUME NEW c \in Without(i + 1 .. j) PROVE c \in 1 .. i
  BY <1>1 DEF Without
<1>2. ASSUME NEW c \in 1 .. i PROVE c \in Without(i + 1 .. j)
  <2>1. \A d \in i + 1 .. j : c \in 1 .. d - 1
    OBVIOUS
  <2>2. \A d \in i + 1 .. j : Creates(d) => TableOf[d] # TableOf[c]
    BY <2>1 DEF Creates
  <2> QED
    BY <2>2 DEF Without
<1> QED
  BY <1>1, <1>2

LEMMA IdleIsCommand == Idle \in Commands /\ Idle.at = "idle"
BY HeadAssumption DEF Idle, Commands

\* The tables it looks for are those of changes.
LEMMA MissingAreTables ==
    ASSUME NEW head \in 0 .. Head
    PROVE  Missing(head) \in SUBSET Tables(Changes)
<1>1. 1 .. head \subseteq Changes
  BY HeadAssumption DEF Changes
<1> QED
  BY <1>1 DEF Missing, Tables

------------------------------------------------------------------------------
(* The steps of init                                                          *)

\* The database was created after r looked for it: its CREATE DATABASE fails.
Lost(r) == At(r, "make") /\ ~cmd[r].seen /\ exists

\* A table it is to create, or a revision, was written after r looked.
Outrun(r) ==
    \/ At(r, "create") /\ cmd[r].missing \cap Tables(applied) # {}
    \/ At(r, "write") /\ cmd[r].from # revision

GoingOn(r) == ~At(r, "idle") /\ ~Lost(r) /\ ~Outrun(r)

\* Of the inits at work one can still get through, unless tables are stamped, an
\* init died or a migration came between.
OneGoesOn == Quiet \/ revision # 0 \/ disturbed \/ \E r \in Runners : GoingOn(r)

\* What a process knows of the database, which nobody drops, and of its release.
Knows(r) ==
    /\ At(r, "retry") \/ cmd[r].seen => exists
    /\ ~At(r, "idle") => cmd[r].head # 0
    /\ At(r, "write") => cmd[r].from <= cmd[r].head

RaceInv == TypeOK /\ (\A r \in Runners : Knows(r)) /\ OneGoesOn

\* The steps init still has to take, the longest way.
StepsLeft(r) ==
    LET after == [idle |-> 0, write |-> 1, stamp |-> 2, create |-> 3, retry |-> 4,
                  make |-> 5, check |-> 6, tables |-> 7]
    IN  after[cmd[r].at]

\* An init at work has a next step: only the second look depends on the database.
NeverStuck ==
    \A r \in Runners :
        ~At(r, "idle") => \/ At(r, "retry") /\ exists
                          \/ cmd[r].at \in {"tables", "check", "make", "create", "stamp", "write"}

\* A step of init that leaves r with the command c: the way it is gone, and what
\* it does to the database.
Moves(r, c) ==
    /\ cmd' = [cmd EXCEPT ![r] = c]
    /\ c.at # "idle" => c.head = cmd[r].head
    /\ release' = release /\ disturbed' = disturbed
    /\ \/ /\ At(r, "tables") \/ At(r, "retry")
          /\ c.at = "create" /\ c.seen = cmd[r].seen /\ c.missing = Missing(cmd[r].head)
          /\ exists /\ UNCHANGED <<exists, applied, revision>>
       \/ /\ At(r, "tables") /\ c.at = "check" /\ c.seen = cmd[r].seen
          /\ UNCHANGED <<exists, applied, revision>>
       \/ /\ At(r, "check") /\ c.at = "make" /\ c.seen = exists
          /\ UNCHANGED <<exists, applied, revision>>
       \/ /\ At(r, "make") /\ c.at = "retry" /\ c.seen = cmd[r].seen
          /\ (cmd[r].seen /\ exists' = exists) \/ exists' = TRUE
          /\ UNCHANGED <<applied, revision>>
       \/ /\ At(r, "create") /\ c.at = "stamp" /\ c.seen = cmd[r].seen
          /\ applied' = applied \cup {d \in 1 .. cmd[r].head : TableOf[d] \in cmd[r].missing}
          /\ UNCHANGED <<exists, revision>>
       \/ /\ At(r, "stamp") /\ c.at = "write" /\ c.seen = cmd[r].seen
          /\ c.from = revision /\ revision <= cmd[r].head
          /\ UNCHANGED <<exists, applied, revision>>
       \/ /\ At(r, "stamp") /\ c = Idle /\ revision > cmd[r].head
          /\ UNCHANGED <<exists, applied, revision>>
       \/ /\ Lost(r) \/ Outrun(r)
          /\ c = Idle
          /\ UNCHANGED <<exists, applied, revision>>
       \/ /\ At(r, "write") /\ c = Idle /\ cmd[r].from = revision
          /\ revision' = cmd[r].head
          /\ UNCHANGED <<exists, applied>>

LEMMA InitMoves ==
    ASSUME TypeOK, NEW r \in Runners, Proceed(r)
    PROVE  \E c \in Commands : Moves(r, c)
<1> DEFINE d(at) == [cmd[r] EXCEPT !.at = at]
           m == [[cmd[r] EXCEPT !.at = "make"] EXCEPT !.seen = exists]
           k == [[cmd[r] EXCEPT !.at = "create"] EXCEPT !.missing = Missing(cmd[r].head)]
           w == [[cmd[r] EXCEPT !.at = "write"] EXCEPT !.from = revision]
<1>0. cmd[r] \in Commands /\ cmd[r].head \in 0 .. Head
  BY DEF TypeOK, Commands
<1>1. \A at \in {"stamp", "check", "retry"} :
        d(at) \in Commands /\ d(at).at = at /\ d(at).head = cmd[r].head /\ d(at).seen = cmd[r].seen
  BY <1>0 DEF Commands
<1>2. m \in Commands /\ m.at = "make" /\ m.head = cmd[r].head /\ m.seen = exists
  BY <1>0 DEF TypeOK, Commands
<1>3. /\ k \in Commands /\ k.at = "create" /\ k.head = cmd[r].head
      /\ k.seen = cmd[r].seen /\ k.missing = Missing(cmd[r].head)
  BY <1>0, MissingAreTables DEF Commands
<1>4. /\ w \in Commands /\ w.at = "write" /\ w.head = cmd[r].head
      /\ w.seen = cmd[r].seen /\ w.from = revision
  BY <1>0 DEF TypeOK, Commands
<1>5. \A at : Advance(r, at) => cmd' = [cmd EXCEPT ![r] = d(at)]
  BY DEF Advance
<1> HIDE DEF d
<1>6. CASE LookForTables(r)
  <2>1. CASE exists /\ cmd' = [cmd EXCEPT ![r] = k]
    <3> HIDE DEF k
    <3> QED
      BY <1>3, <1>6, <2>1 DEF LookForTables, Moves
  <2>2. CASE At(r, "tables") /\ Advance(r, "check")
    BY <1>1, <1>5, <1>6, <2>2 DEF LookForTables, Moves
  <2> QED
    BY <1>6, <2>1, <2>2 DEF LookForTables
<1>7. CASE CreateTables(r)
  BY <1>1, <1>5, <1>7, IdleIsCommand DEF CreateTables, End, Outrun, Moves
<1>8. CASE CheckDatabase(r)
  <2>1. cmd' = [cmd EXCEPT ![r] = m]
    BY <1>8 DEF CheckDatabase
  <2> HIDE DEF m
  <2> QED
    BY <1>2, <1>8, <2>1 DEF CheckDatabase, Moves
<1>9. CASE MakeDatabase(r)
  BY <1>1, <1>5, <1>9, IdleIsCommand DEF MakeDatabase, End, Lost, Moves
<1>10. CASE ReadRevision(r)
  <2>1. CASE revision <= cmd[r].head /\ cmd' = [cmd EXCEPT ![r] = w]
    <3> HIDE DEF w
    <3> QED
      BY <1>4, <1>10, <2>1 DEF ReadRevision, Moves
  <2>2. CASE revision > cmd[r].head /\ End(r)
    BY <1>10, <2>2, IdleIsCommand DEF ReadRevision, End, Moves
  <2> QED
    BY <1>10, <2>1, <2>2 DEF ReadRevision
<1>11. CASE Stamp(r)
  BY <1>11, IdleIsCommand DEF Stamp, End, Outrun, Moves
<1> QED
  BY <1>6, <1>7, <1>8, <1>9, <1>10, <1>11 DEF Proceed

\* A step that moves one command and leaves the others where they are.
LEMMA CommandMoves ==
    ASSUME TypeOK, NEW r \in Runners, NEW c \in Commands, cmd' = [cmd EXCEPT ![r] = c]
    PROVE  /\ cmd' \in [Runners -> Commands]
           /\ cmd'[r] = c
           /\ \A q \in Runners \ {r} : cmd'[q] = cmd[q]
BY DEF TypeOK

\* An init that starts is at its first look.
LEMMA StartMoves ==
    ASSUME TypeOK, NEW r \in Runners, StartInit(r)
    PROVE  \E c \in Commands : /\ cmd' = [cmd EXCEPT ![r] = c]
                               /\ c.at = "tables" /\ c.head = release /\ ~c.seen
<1> DEFINE c == [[Idle EXCEPT !.at = "tables"] EXCEPT !.head = release]
<1>1. release \in 0 .. Head /\ ~Idle.seen
  BY HeadAssumption DEF TypeOK, Changes, Idle
<1>2. c \in Commands /\ c.at = "tables" /\ c.head = release /\ ~c.seen
  BY <1>1, IdleIsCommand DEF Commands
<1>3. cmd' = [cmd EXCEPT ![r] = c]
  BY DEF StartInit
<1> HIDE DEF c
<1> QED
  BY <1>2, <1>3

------------------------------------------------------------------------------
(* Types, and what each init knows                                            *)

LEMMA RaceInit == Init => RaceInv
<1> SUFFICES ASSUME Init PROVE RaceInv
  OBVIOUS
<1>1. \A r \in Runners : cmd[r] = Idle
  BY DEF Init
<1>2. TypeOK
  <2>1. cmd \in [Runners -> Commands]
    BY IdleIsCommand DEF Init
  <2>2. release \in Changes /\ revision \in 0 .. Head
    BY HeadAssumption DEF Init, Changes
  <2> QED
    BY <2>1, <2>2 DEF Init, TypeOK
<1> QED
  BY <1>1, <1>2 DEF RaceInv, OneGoesOn, Quiet, At, Knows, Idle

LEMMA TypeStep == TypeOK /\ [Next]_vars => TypeOK'
<1> SUFFICES ASSUME TypeOK, [Next]_vars PROVE TypeOK'
  OBVIOUS
<1>1. ASSUME NEW r \in Runners, StartInit(r) PROVE TypeOK'
  <2>1. cmd' \in [Runners -> Commands]
    BY <1>1, StartMoves, CommandMoves
  <2> QED
    BY <1>1, <2>1 DEF StartInit, TypeOK
<1>2. ASSUME NEW r \in Runners, Proceed(r) PROVE TypeOK'
  <2>1. cmd[r].head \in 0 .. Head
    BY DEF TypeOK, Commands
  <2>2. {d \in 1 .. cmd[r].head : TableOf[d] \in cmd[r].missing} \subseteq Changes
    BY <2>1, HeadAssumption DEF Changes
  <2>3. PICK c \in Commands : Moves(r, c)
    BY <1>2, InitMoves
  <2>4. cmd' \in [Runners -> Commands]
    BY <2>3, CommandMoves DEF Moves
  <2>5. /\ release' = release /\ disturbed' = disturbed /\ exists' \in BOOLEAN
        /\ \/ applied' = applied
           \/ applied' = applied \cup {d \in 1 .. cmd[r].head : TableOf[d] \in cmd[r].missing}
        /\ revision' = revision \/ revision' = cmd[r].head
    BY <2>3 DEF Moves, TypeOK
  <2> QED
    BY <2>1, <2>2, <2>4, <2>5 DEF TypeOK
<1>3. ASSUME NEW r \in Runners, Die(r) PROVE TypeOK'
  <2>1. cmd' \in [Runners -> Commands]
    BY <1>3, CommandMoves, IdleIsCommand DEF Die, End
  <2> QED
    BY <1>3, <2>1 DEF Die, TypeOK
<1>4. ASSUME NEW target \in 0 .. Head, Upgrade(target) PROVE TypeOK'
  <2>1. revision + 1 .. target \subseteq Changes
    BY HeadAssumption DEF TypeOK, Changes
  <2> QED
    BY <1>4, <2>1 DEF Upgrade, TypeOK
<1>5. ASSUME NEW target \in 0 .. Head, Downgrade(target) PROVE TypeOK'
  BY <1>5 DEF Downgrade, TypeOK, Without
<1>6. CASE Deploy
  BY <1>6, HeadAssumption DEF Deploy, TypeOK, Changes
<1>7. CASE UNCHANGED vars
  BY <1>7 DEF vars, TypeOK
<1> QED
  BY <1>1, <1>2, <1>3, <1>4, <1>5, <1>6, <1>7 DEF Next

LEMMA RaceStep == RaceInv /\ [Next]_vars => RaceInv'
<1> SUFFICES ASSUME RaceInv, [Next]_vars PROVE RaceInv'
  OBVIOUS
<1>1. TypeOK /\ TypeOK'
  BY TypeStep DEF RaceInv
<1>2. ASSUME NEW r \in Runners, StartInit(r) PROVE RaceInv'
  <2>1. PICK c \in Commands : /\ cmd' = [cmd EXCEPT ![r] = c]
                              /\ c.at = "tables" /\ c.head = release /\ ~c.seen
    BY <1>1, <1>2, StartMoves
  <2>2. c.head # 0 /\ exists' = exists
    BY <1>1, <1>2, <2>1 DEF StartInit, TypeOK, Changes
  <2>3. cmd'[r] = c /\ \A q \in Runners \ {r} : cmd'[q] = cmd[q]
    BY <1>1, <2>1, CommandMoves
  <2>4. \A q \in Runners : Knows(q)'
    BY <2>1, <2>2, <2>3 DEF RaceInv, Knows, At
  <2>5. GoingOn(r)'
    BY <2>1, <2>3 DEF GoingOn, Lost, Outrun, At
  <2> QED
    BY <1>1, <2>4, <2>5 DEF RaceInv, OneGoesOn
<1>3. ASSUME NEW r \in Runners, Proceed(r) PROVE RaceInv'
  <2>1. PICK c \in Commands : Moves(r, c)
    BY <1>1, <1>3, InitMoves
  <2>2. cmd'[r] = c /\ \A q \in Runners \ {r} : cmd'[q] = cmd[q]
    BY <1>1, <2>1, CommandMoves DEF Moves
  <2>3. (exists => exists') /\ cmd[r].head # 0 /\ ~At(r, "idle")
    <3>1. ~At(r, "idle")
      BY <2>1 DEF Moves, At, Lost, Outrun
    <3> QED
      BY <2>1, <3>1 DEF RaceInv, Knows, Moves
  <2>4. Knows(r)'
    <3>1. /\ c.at # "idle" => c.head = cmd[r].head
          /\ c.at = "write" => c.from <= cmd[r].head
          /\ c.at = "retry" => exists'
          /\ c.seen => exists'
      BY <2>1, <2>3 DEF Moves, Idle, RaceInv, Knows
    <3> QED
      BY <2>2, <2>3, <3>1 DEF Knows, At
  <2>5. \A q \in Runners \ {r} : Knows(q)'
    BY <2>2, <2>3 DEF RaceInv, Knows, At
  <2>6. OneGoesOn'
    <3>1. CASE c.at \in {"check", "make", "retry", "stamp", "create", "write"}
      <4>1. /\ c.at = "make" => c.seen = exists'
            /\ c.at = "create" => c.missing = Missing(cmd[r].head) /\ applied' = applied
            /\ c.at = "write" => c.from = revision'
        BY <2>1, <3>1 DEF Moves, Idle
      <4>2. c.at = "create" => c.missing \cap Tables(applied) = {} /\ Tables(applied)' = Tables(applied)
        BY <4>1 DEF Missing, Tables
      <4>3. GoingOn(r)'
        BY <2>2, <3>1, <4>1, <4>2 DEF GoingOn, Lost, Outrun, At
      <4> QED
        BY <4>3 DEF OneGoesOn
    <3>2. CASE (Lost(r) \/ Outrun(r)) /\ c = Idle /\ UNCHANGED <<exists, applied, revision>>
      <4>1. ~Quiet
        BY <2>3 DEF Quiet
      <4>2. Tables(applied)' = Tables(applied)
        BY <3>2 DEF Tables
      <4>3. ASSUME NEW q \in Runners, GoingOn(q) PROVE GoingOn(q)'
        BY <2>2, <3>2, <4>2, <4>3 DEF GoingOn, Lost, Outrun, At
      <4>4. revision' = revision /\ disturbed' = disturbed
        BY <2>1, <3>2 DEF Moves
      <4> QED
        BY <4>1, <4>3, <4>4 DEF RaceInv, OneGoesOn
    <3>3. CASE revision' # 0
      BY <3>3 DEF OneGoesOn
    <3>4. CASE revision' = revision /\ revision > cmd[r].head
      <4>1. cmd[r].head \in Nat /\ revision \in Nat
        BY <1>1 DEF TypeOK, Commands
      <4> QED
        BY <3>3, <3>4, <4>1
    <3> QED
      BY <2>1, <2>3, <3>1, <3>2, <3>3, <3>4 DEF Moves
  <2> QED
    BY <1>1, <2>4, <2>5, <2>6 DEF RaceInv
<1>4. ASSUME NEW r \in Runners, Die(r) PROVE RaceInv'
  <2>1. cmd' = [cmd EXCEPT ![r] = Idle] /\ exists' = exists /\ disturbed'
    BY <1>4 DEF Die, End
  <2>2. cmd'[r] = Idle /\ \A q \in Runners \ {r} : cmd'[q] = cmd[q]
    BY <1>1, <2>1, CommandMoves, IdleIsCommand
  <2>3. \A q \in Runners : Knows(q)'
    BY <2>1, <2>2 DEF RaceInv, Knows, At, Idle
  <2> QED
    BY <1>1, <2>1, <2>3 DEF RaceInv, OneGoesOn
<1>5. ASSUME NEW target \in 0 .. Head, Upgrade(target) \/ Downgrade(target) PROVE RaceInv'
  <2>1. UNCHANGED <<exists, cmd>> /\ (Quiet \/ disturbed')
    BY <1>5 DEF Upgrade, Downgrade
  <2> QED
    BY <1>1, <2>1 DEF RaceInv, OneGoesOn, Quiet, Knows, At
<1>6. CASE Deploy \/ UNCHANGED vars
  <2>1. UNCHANGED <<exists, applied, revision, disturbed, cmd>>
    BY <1>6 DEF Deploy, vars
  <2>2. Tables(applied)' = Tables(applied)
    BY <2>1 DEF Tables
  <2> QED
    BY <1>1, <2>1, <2>2 DEF RaceInv, OneGoesOn, Quiet, GoingOn, Lost, Outrun, Knows, At
<1> QED
  BY <1>2, <1>3, <1>4, <1>5, <1>6 DEF Next

\* Revisions, tables and commands stay within their types, whatever migrations,
\* deaths and releases come in the middle of an init.
THEOREM TypeCorrect == Spec => []TypeOK
<1>1. TypeOK /\ [Next]_vars => TypeOK'
  BY TypeStep
<1>2. Init => TypeOK
  BY RaceInit DEF RaceInv
<1> QED
  BY <1>1, <1>2, PTL DEF Spec

------------------------------------------------------------------------------
(* alembic_version and the tables                                             *)

\* Tables that are those of alembic_version stop being so only by an init of a
\* later release: its stamp goes over what it read, which its own release has,
\* and what it finds missing is of a change after the revision.
THEOREM OnlyInitMisstatesHolds == Spec => OnlyInitMisstates
<1> DEFINE Misstating == applied = 1 .. revision /\ applied' # 1 .. revision'
           A == Misstating => \E r \in Runners : Proceed(r) /\ cmd[r].head > revision
<1>1. ASSUME RaceInv, Next, applied = 1 .. revision PROVE A
  <2>0. revision \in Nat /\ TypeOK
    BY <1>1 DEF RaceInv, TypeOK
  <2>1. ASSUME NEW target \in 0 .. Head, Upgrade(target) PROVE A
    <3>1. /\ target \in Nat /\ revision <= target
          /\ applied' = applied \cup (revision + 1 .. target) /\ revision' = target
      BY <2>0, <2>1, HeadAssumption DEF Upgrade
    <3> QED
      BY <1>1, <2>0, <3>1, Intervals
  <2>2. ASSUME NEW target \in 0 .. Head, Downgrade(target) PROVE A
    <3>1. /\ target \in Nat /\ target <= revision
          /\ applied' = Without(target + 1 .. revision) /\ revision' = target
      BY <2>0, <2>2, HeadAssumption DEF Downgrade
    <3> QED
      BY <1>1, <2>0, <3>1, UndoneToTarget
  <2>3. ASSUME NEW r \in Runners, Proceed(r) PROVE A
    <3> SUFFICES ASSUME ~(cmd[r].head > revision) PROVE ~Misstating
      BY <2>3
    <3>1. PICK c \in Commands : Moves(r, c)
      BY <2>0, <2>3, InitMoves
    <3>2. cmd[r].head \in Nat /\ cmd[r].head <= revision
      BY <2>0 DEF TypeOK, Commands
    <3>3. {d \in 1 .. cmd[r].head : TableOf[d] \in cmd[r].missing} \subseteq applied
      BY <1>1, <2>0, <3>2
    <3>4. applied' = applied
      BY <3>1, <3>3 DEF Moves
    <3>5. revision' = revision
      <4>1. CASE At(r, "write") /\ cmd[r].from = revision /\ revision' = cmd[r].head
        <5>1. revision <= cmd[r].head
          BY <1>1, <4>1 DEF RaceInv, Knows
        <5> QED
          BY <2>0, <3>2, <4>1, <5>1
      <4> QED
        BY <3>1, <4>1 DEF Moves
    <3> QED
      BY <1>1, <3>4, <3>5
  <2>4. ASSUME NEW r \in Runners, StartInit(r) \/ Die(r) PROVE A
    BY <1>1, <2>4 DEF StartInit, Die
  <2>5. CASE Deploy
    BY <1>1, <2>5 DEF Deploy
  <2> QED
    BY <1>1, <2>1, <2>2, <2>3, <2>4, <2>5 DEF Next
<1>2. RaceInv /\ [Next]_vars => [A]_vars
  BY <1>1
<1>3. RaceInv /\ [Next]_vars => RaceInv'
  BY RaceStep
<1> QED
  BY <1>2, <1>3, RaceInit, PTL DEF Spec, OnlyInitMisstates

------------------------------------------------------------------------------
(* The races of inits                                                         *)

\* The races for CREATE DATABASE, CREATE TABLE and the stamp make inits fail, but
\* never the last that could get through, unless tables are stamped, an init
\* died or a migration came between.
THEOREM OneGoesOnHolds == Spec => []OneGoesOn
<1>1. RaceInv /\ [Next]_vars => RaceInv'
  BY RaceStep
<1>2. RaceInv => OneGoesOn
  BY DEF RaceInv
<1> QED
  BY <1>1, <1>2, RaceInit, PTL DEF Spec

\* The second create_all of init finds the database, so that no init waits for
\* what nobody will do.
THEOREM NeverStuckHolds == Spec => []NeverStuck
<1>1. RaceInv /\ [Next]_vars => RaceInv'
  BY RaceStep
<1>2. RaceInv => NeverStuck
  <2> SUFFICES ASSUME RaceInv, NEW r \in Runners, ~At(r, "idle")
               PROVE  \/ At(r, "retry") /\ exists
                      \/ cmd[r].at \in {"tables", "check", "make", "create", "stamp", "write"}
    BY DEF NeverStuck
  <2>1. cmd[r].at \in {"idle", "tables", "check", "make", "retry", "create", "stamp", "write"}
    BY DEF RaceInv, TypeOK, Commands
  <2> QED
    BY <2>1 DEF RaceInv, Knows, At
<1> QED
  BY <1>1, <1>2, RaceInit, PTL DEF Spec

\* Every step of an init brings it nearer its end: with NeverStuckHolds and the
\* fairness of the processes this is what OneGoesOnHolds lacks to InitSucceeds.
THEOREM InitRunsOut ==
    Spec => [][\A r \in Runners :
                 Proceed(r) => StepsLeft(r) \in Nat /\ StepsLeft(r)' < StepsLeft(r)]_vars
<1> DEFINE Nearer(r) == StepsLeft(r) \in Nat /\ StepsLeft(r)' < StepsLeft(r)
<1>1. ASSUME TypeOK, NEW r \in Runners, Proceed(r) PROVE Nearer(r)
  <2>0. PICK c \in Commands : Moves(r, c)
    BY <1>1, InitMoves
  <2>1. /\ cmd' = [cmd EXCEPT ![r] = c]
        /\ \/ At(r, "tables") /\ c.at \in {"create", "check"}
           \/ At(r, "check") /\ c.at = "make"
           \/ At(r, "make") /\ c.at \in {"retry", "idle"}
           \/ At(r, "retry") /\ c.at = "create"
           \/ At(r, "create") /\ c.at \in {"stamp", "idle"}
           \/ At(r, "stamp") /\ c.at \in {"write", "idle"}
           \/ At(r, "write") /\ c.at = "idle"
    BY <2>0, IdleIsCommand DEF Moves, Lost, Outrun
  <2>2. cmd'[r].at = c.at
    BY <1>1, <2>1, CommandMoves
  <2> QED
    BY <2>1, <2>2 DEF StepsLeft, At
<1>2. TypeOK /\ [Next]_vars => [\A r \in Runners : Proceed(r) => Nearer(r)]_vars
  BY <1>1
<1> QED
  BY <1>2, TypeCorrect, PTL DEF Spec
===============================================================================
