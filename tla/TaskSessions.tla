----------------------------- MODULE TaskSessions -----------------------------
(* Database.session: the session contexts of asyncio tasks over sessions that *)
(* are scoped to the task, so that a context opened inside another of the     *)
(* same task works on the same session.                                       *)
(*                                                                            *)
(* A write is whatever a session holds until it is committed: an added        *)
(* instance, an UPDATE, a DELETE.  Each write is made at most once, by the    *)
(* task it belongs to.                                                        *)
EXTENDS Naturals, Sequences

CONSTANTS
    Tasks,
    Writes,
    Author,     \* the task of each write
    MaxDepth,   \* bound on the contexts of a task inside one another
    Tidy        \* the tasks that nest a context only where nothing is
                \* uncommitted, as update_by_id does with read_by_id

ASSUME AuthorAssumption == Author \in [Writes -> Tasks]

ASSUME TidyAssumption == Tidy \subseteq Tasks

ASSUME DepthAssumption == MaxDepth \in Nat

VARIABLES
    registry,  \* the tasks async_scoped_session holds a session for
    pending,   \* the uncommitted writes of each session
    stored,    \* the writes in the database
    ctx,       \* the open contexts of each task, innermost last, each with the
               \* writes made in it since its last commit
    raising,   \* tasks in which an exception is leaving the innermost context
    acked,     \* writes their own context has committed
    escaped    \* writes their own context left by an exception, uncommitted

vars == <<registry, pending, stored, ctx, raising, acked, escaped>>

\* Variant of Scope: the factory has no scopefunc and all tasks share a session.
ScopeShared(t) == CHOOSE u \in Tasks : TRUE

\* The key of the session the factory returns in task t: current_task.
Scope(t) == t

Own(t) == {w \in Writes : Author[w] = t}

Open(t) == ctx[t] # <<>>

Depth(t) == Len(ctx[t])

\* What the innermost context of t wrote and did not commit.
Wrote(t) == ctx[t][Depth(t)]

Init ==
    /\ registry = {}
    /\ pending = [t \in Tasks |-> {}]
    /\ stored = {}
    /\ ctx = [t \in Tasks |-> <<>>]
    /\ raising = {}
    /\ acked = {}
    /\ escaped = {}

SetWrote(t, ws) == ctx' = [ctx EXCEPT ![t][Depth(t)] = ws]

\* Variant of Pop: the outermost context ends with the inner one.
PopAll(t) == ctx' = [ctx EXCEPT ![t] = <<>>]

Pop(t) == ctx' = [ctx EXCEPT ![t] = SubSeq(@, 1, Depth(t) - 1)]

Discard(t) == pending' = [pending EXCEPT ![Scope(t)] = {}]

\* Entering the context takes the session of the task, made at the first use
\* and never removed from the registry.
Enter(t) ==
    /\ t \notin raising
    /\ Depth(t) < MaxDepth
    /\ t \in Tidy /\ Open(t) => Wrote(t) = {}
    /\ registry' = registry \cup {Scope(t)}
    /\ ctx' = [ctx EXCEPT ![t] = Append(@, {})]
    /\ UNCHANGED <<pending, stored, raising, acked, escaped>>

Write(t, w) ==
    /\ Open(t) /\ t \notin raising
    /\ w \in Own(t)
    /\ w \notin stored \cup acked \cup escaped
    /\ \A u \in Tasks : w \notin pending[u]
    /\ \A i \in 1 .. Depth(t) : w \notin ctx[t][i]
    /\ pending' = [pending EXCEPT ![Scope(t)] = @ \cup {w}]
    /\ SetWrote(t, Wrote(t) \cup {w})
    /\ UNCHANGED <<registry, stored, raising, acked, escaped>>

\* Variant of Commit: the writes are flushed and the transaction stays open.
CommitFlushing(t) ==
    /\ Open(t) /\ t \notin raising
    /\ acked' = acked \cup Wrote(t)
    /\ SetWrote(t, {})
    /\ UNCHANGED <<registry, pending, stored, raising, escaped>>

\* A commit stores all the session holds, whichever context wrote it.
Commit(t) ==
    /\ Open(t) /\ t \notin raising
    /\ stored' = stored \cup pending[Scope(t)]
    /\ Discard(t)
    /\ acked' = acked \cup Wrote(t)
    /\ SetWrote(t, {})
    /\ UNCHANGED <<registry, raising, escaped>>

\* The body of a context raises, its commit or another call of the database
\* included: a commit that fails has rolled back.
Raise(t) ==
    /\ Open(t) /\ t \notin raising
    /\ raising' = raising \cup {t}
    /\ \/ Discard(t)
       \/ UNCHANGED pending
    /\ UNCHANGED <<registry, stored, ctx, acked, escaped>>

\* Variant of Leave: the session is closed only on the error path.
LeaveOpen(t) ==
    /\ Open(t) /\ t \notin raising
    /\ Pop(t)
    /\ UNCHANGED <<registry, pending, stored, raising, acked, escaped>>

\* The block ends normally and the session is closed, which drops what it holds.
Leave(t) ==
    /\ Open(t) /\ t \notin raising
    /\ Discard(t)
    /\ Pop(t)
    /\ UNCHANGED <<registry, stored, raising, acked, escaped>>

\* Variant of Unwind: what the session holds is committed on the way out.
UnwindCommitting(t) ==
    /\ t \in raising
    /\ stored' = stored \cup pending[Scope(t)]
    /\ Discard(t)
    /\ Pop(t)
    /\ escaped' = escaped \cup Wrote(t)
    /\ raising' = raising \ {t}
    /\ UNCHANGED <<registry, acked>>

\* Rollback, close, and the exception goes on in the enclosing context, unless
\* the code between the two catches it or there is none.
Unwind(t) ==
    /\ t \in raising
    /\ Discard(t)
    /\ Pop(t)
    /\ escaped' = escaped \cup Wrote(t)
    /\ \/ raising' = raising \ {t}
       \/ /\ Depth(t) > 1
          /\ UNCHANGED raising
    /\ UNCHANGED <<registry, stored, acked>>

Next ==
    \E t \in Tasks :
        \/ Enter(t) \/ Commit(t) \/ Raise(t) \/ Leave(t) \/ Unwind(t)
        \/ \E w \in Writes : Write(t, w)

Spec == Init /\ [][Next]_vars

------------------------------------------------------------------------------
(* Properties                                                                 *)

TypeOK ==
    /\ registry \subseteq Tasks
    /\ pending \in [Tasks -> SUBSET Writes]
    /\ stored \subseteq Writes
    /\ ctx \in [Tasks -> Seq(SUBSET Writes)]
    /\ \A t \in Tasks : Depth(t) <= MaxDepth
    /\ raising \subseteq {t \in Tasks : Open(t)}
    /\ acked \subseteq Writes
    /\ escaped \subseteq Writes

\* A session that no context has open holds nothing: the next context of the
\* task starts from the database, whatever ended the one before.
CleanStart == \A t \in Tasks : ~Open(t) => pending[Scope(t)] = {}

\* What a task does in its contexts leaves the writes of another task as they
\* are, pending and stored.
Isolation ==
    [][\A t, u \in Tasks :
         t # u /\ ctx'[u] # ctx[u] =>
            /\ \A v \in Tasks : pending'[v] \cap Own(t) = pending[v] \cap Own(t)
            /\ stored' \cap Own(t) = stored \cap Own(t)]_vars

\* database.py leaves committing to the caller: what a context wrote and
\* committed is in the database.
EveryCommitKept == acked \subseteq stored

\* The same of the contexts of tasks that nest tidily, whatever others do.
CommitsKept == \A t \in Tidy : acked \cap Own(t) \subseteq stored

\* What a context of such a task wrote and did not commit is not in the database
\* when an exception has left the context: session rolls back.
RolledBack == \A t \in Tidy : escaped \cap stored \cap Own(t) = {}

\* The session of a tidy task holds what its innermost context wrote, and what
\* it holds is not yet stored or given up.
TidyHeld ==
    \A t \in Tidy :
        /\ \A i \in 1 .. Depth(t) : i < Depth(t) => ctx[t][i] = {}
        /\ Open(t) /\ t \notin raising => pending[t] = Wrote(t)
        /\ Open(t) => pending[t] \subseteq Wrote(t)
        /\ pending[t] \cap escaped = {}
        /\ \A i \in 1 .. Depth(t) : ctx[t][i] \cap stored = {}

\* Contexts and sessions hold writes of their own task only.
WritesOwned ==
    \A t \in Tasks :
        /\ pending[t] \subseteq Own(t)
        /\ \A i \in 1 .. Depth(t) : ctx[t][i] \subseteq Own(t)

\* The inductive invariant behind CleanStart, CommitsKept and RolledBack.
TidyInv == TypeOK /\ CleanStart /\ TidyHeld /\ WritesOwned /\ CommitsKept /\ RolledBack

TidyWrites == {w \in Writes : Author[w] \in Tidy}

Ledger == INSTANCE TransactionLedger WITH
    Tasks <- Tidy,
    Writes <- TidyWrites,
    held <- [t \in Tidy |-> IF Open(t) THEN Wrote(t) ELSE {}],
    durable <- stored \cap TidyWrites,
    told <- acked \cap TidyWrites,
    undone <- escaped \cap TidyWrites

\* To the tasks that nest tidily a context is a transaction: a commit stores just
\* what was written since the last one, in one step, and nothing else ever
\* stores anything of theirs, whatever the other tasks do.
ImplementsTransactions == Ledger!Spec
==============================================================================
