------------------------------ MODULE Migrations ------------------------------
(* The migration commands on one PostgreSQL database: init, which creates the *)
(* database and its tables and stamps the head revision, and upgrade and      *)
(* downgrade, which run the application's Alembic scripts through             *)
(* AlembicEnvHelper.  Any of them may run beside any other, each in a process *)
(* of the release deployed when it started.                                   *)
(*                                                                            *)
(* Revision c of the application makes change c: it creates table TableOf[c], *)
(* or alters it when an earlier change created it.                            *)
EXTENDS Integers

CONSTANTS
    Runners,    \* processes an init can run in
    Head,       \* bound on the releases, each with one more revision
    TableOf     \* the table of each change

Changes == 1 .. Head

ASSUME HeadAssumption == Head \in Nat \ {0}

ASSUME TableAssumption == DOMAIN TableOf = Changes

VARIABLES
    release,    \* the head revision of the deployed code
    exists,     \* the database exists
    applied,    \* the changes its tables have
    revision,   \* alembic_version, 0 for none
    disturbed,  \* since none was at work, an init died or a migration ran beside
    cmd         \* what each runner is at

vars == <<release, exists, applied, revision, disturbed, cmd>>

Tables(cs) == {TableOf[c] : c \in cs}

\* What a process carries: its release, whether it saw the database, the tables
\* it saw missing, and the revision it is to stamp over.
Commands == [at : {"idle", "tables", "check", "make", "retry", "create", "stamp", "write"},
             head : 0 .. Head, seen : BOOLEAN,
             missing : SUBSET Tables(Changes), from : 0 .. Head]

Idle == [at |-> "idle", head |-> 0, seen |-> FALSE, missing |-> {}, from |-> 0]

Init ==
    /\ release = 1
    /\ exists = FALSE
    /\ applied = {}
    /\ revision = 0
    /\ disturbed = FALSE
    /\ cmd = [r \in Runners |-> Idle]

At(r, at) == cmd[r].at = at

Advance(r, at) == cmd' = [cmd EXCEPT ![r].at = at]

End(r) == cmd' = [cmd EXCEPT ![r] = Idle]

Quiet == \A r \in Runners : At(r, "idle")

Missing(head) == Tables(1 .. head) \ Tables(applied)

------------------------------------------------------------------------------
(* init                                                                       *)

StartInit(r) ==
    /\ At(r, "idle")
    /\ cmd' = [cmd EXCEPT ![r] = [Idle EXCEPT !.at = "tables", !.head = release]]
    /\ disturbed' = (disturbed /\ ~Quiet)
    /\ UNCHANGED <<release, exists, applied, revision>>

\* Variant of LookForTables: a database that is missing is not expected.
LookOrFail(r) ==
    /\ At(r, "tables") \/ At(r, "retry")
    /\ \/ /\ exists
          /\ cmd' = [cmd EXCEPT ![r].at = "create", ![r].missing = Missing(cmd[r].head)]
       \/ /\ ~exists
          /\ End(r)
    /\ UNCHANGED <<release, exists, applied, revision, disturbed>>

\* create_all looks which tables of its metadata there are, and fails with
\* InvalidCatalogNameError when there is no database.
LookForTables(r) ==
    /\ \/ /\ At(r, "tables") \/ At(r, "retry")
          /\ exists
          /\ cmd' = [cmd EXCEPT ![r].at = "create", ![r].missing = Missing(cmd[r].head)]
       \/ /\ At(r, "tables")
          /\ ~exists
          /\ Advance(r, "check")
    /\ UNCHANGED <<release, exists, applied, revision, disturbed>>

\* It creates those that were missing, as of its release, in one transaction:
\* one that somebody made meanwhile fails it.  Those that exist stay as they are.
CreateTables(r) ==
    /\ At(r, "create")
    /\ \/ /\ cmd[r].missing \cap Tables(applied) = {}
          /\ applied' = applied \cup {c \in 1 .. cmd[r].head : TableOf[c] \in cmd[r].missing}
          /\ Advance(r, "stamp")
       \/ /\ cmd[r].missing \cap Tables(applied) # {}
          /\ End(r)
          /\ UNCHANGED applied
    /\ UNCHANGED <<release, exists, revision, disturbed>>

\* create_database looks for the name in pg_database.
CheckDatabase(r) ==
    /\ At(r, "check")
    /\ cmd' = [cmd EXCEPT ![r].at = "make", ![r].seen = exists]
    /\ UNCHANGED <<release, exists, applied, revision, disturbed>>

\* CREATE DATABASE when it saw none, which fails if there is one now.
MakeDatabase(r) ==
    /\ At(r, "make")
    /\ \/ /\ cmd[r].seen
          /\ Advance(r, "retry")
          /\ UNCHANGED exists
       \/ /\ ~cmd[r].seen /\ ~exists
          /\ exists' = TRUE
          /\ Advance(r, "retry")
       \/ /\ ~cmd[r].seen /\ exists
          /\ End(r)
          /\ UNCHANGED exists
    /\ UNCHANGED <<release, applied, revision, disturbed>>

\* stamp reads the revision, which it refuses when its release has no such one.
ReadRevision(r) ==
    /\ At(r, "stamp")
    /\ \/ /\ revision <= cmd[r].head
          /\ cmd' = [cmd EXCEPT ![r].at = "write", ![r].from = revision]
       \/ /\ revision > cmd[r].head
          /\ End(r)
    /\ UNCHANGED <<release, exists, applied, revision, disturbed>>

\* It puts the head in that one's place, unless it is no longer there.
Stamp(r) ==
    /\ At(r, "write")
    /\ revision' = IF revision = cmd[r].from THEN cmd[r].head ELSE revision
    /\ End(r)
    /\ UNCHANGED <<release, exists, applied, disturbed>>

------------------------------------------------------------------------------
(* upgrade and downgrade                                                      *)

\* The scripts of cs can run where none of the changes is there and every
\* change on their tables before them is.
Appliable(cs) ==
    /\ cs \cap applied = {}
    /\ \A c \in cs : \A d \in 1 .. c - 1 : TableOf[d] = TableOf[c] => d \in applied \cup cs

\* Variant of Upgrade: each script commits on its own.
UpgradeOneByOne(target) ==
    /\ exists
    /\ revision < target /\ target <= release
    /\ \E last \in revision .. target :
          /\ Appliable(revision + 1 .. last)
          /\ applied' = applied \cup (revision + 1 .. last)
    /\ revision' = target
    /\ disturbed' = (disturbed \/ ~Quiet)
    /\ UNCHANGED <<release, exists, cmd>>

\* run_migrations runs them in one transaction, with the new revision: all or
\* none.
Upgrade(target) ==
    /\ exists
    /\ revision < target /\ target <= release
    /\ Appliable(revision + 1 .. target)
    /\ applied' = applied \cup (revision + 1 .. target)
    /\ revision' = target
    /\ disturbed' = (disturbed \/ ~Quiet)
    /\ UNCHANGED <<release, exists, cmd>>

Creates(c) == \A d \in 1 .. c - 1 : TableOf[d] # TableOf[c]

\* What is left when cs is undone: a change that created a table takes with it
\* whatever the table has.
Without(cs) == {c \in applied \ cs : \A d \in cs : Creates(d) => TableOf[d] # TableOf[c]}

\* Variant of Downgrade: the change of the target is undone as well.
DowngradeOneMore(target) ==
    /\ exists
    /\ target < revision /\ revision <= release
    /\ target + 1 .. revision \subseteq applied
    /\ applied' = Without(target .. revision)
    /\ revision' = target - 1
    /\ disturbed' = (disturbed \/ ~Quiet)
    /\ UNCHANGED <<release, exists, cmd>>

Downgrade(target) ==
    /\ exists
    /\ target < revision /\ revision <= release
    /\ target + 1 .. revision \subseteq applied
    /\ applied' = Without(target + 1 .. revision)
    /\ revision' = target
    /\ disturbed' = (disturbed \/ ~Quiet)
    /\ UNCHANGED <<release, exists, cmd>>

\* A new release is deployed.
Deploy ==
    /\ release < Head
    /\ release' = release + 1
    /\ UNCHANGED <<exists, applied, revision, disturbed, cmd>>

\* A command dies, or the database refuses it, between two transactions.
Die(r) ==
    /\ ~At(r, "idle")
    /\ End(r)
    /\ disturbed' = TRUE
    /\ UNCHANGED <<release, exists, applied, revision>>

------------------------------------------------------------------------------
Proceed(r) ==
    \/ LookForTables(r) \/ CreateTables(r)
    \/ CheckDatabase(r) \/ MakeDatabase(r)
    \/ ReadRevision(r) \/ Stamp(r)

Next ==
    \/ \E r \in Runners : StartInit(r) \/ Proceed(r) \/ Die(r)
    \/ \E target \in 0 .. Head : Upgrade(target) \/ Downgrade(target)
    \/ Deploy

Spec == Init /\ [][Next]_vars

\* A process that was started goes on, and the database answers.
FairSpec == Spec /\ \A r \in Runners : WF_vars(Proceed(r))

------------------------------------------------------------------------------
(* Properties                                                                 *)

TypeOK ==
    /\ release \in Changes
    /\ exists \in BOOLEAN
    /\ applied \subseteq Changes
    /\ revision \in 0 .. Head
    /\ disturbed \in BOOLEAN
    /\ cmd \in [Runners -> Commands]

\* Tables that are those of alembic_version stop being so only by an init whose
\* release is later than what alembic_version says: not by one that is run
\* again, nor by a migration, a death or a deployment, whatever runs beside.
OnlyInitMisstates ==
    [][applied = 1 .. revision /\ applied' # 1 .. revision' =>
         \E r \in Runners : Proceed(r) /\ cmd[r].head > revision]_vars

\* Of the inits that are at work together one gets through, although the races
\* for CREATE DATABASE, CREATE TABLE and the stamp make others fail, unless one
\* of them dies or a migration comes between.
InitSucceeds == (\E r \in Runners : ~At(r, "idle")) ~> revision # 0 \/ disturbed

\* An init that nothing came between stamps the revision its tables are of.
InitAligns ==
    [][\A r \in Runners :
         Stamp(r) /\ ~disturbed /\ revision' = cmd[r].head => applied' = 1 .. revision']_vars
==============================================================================
