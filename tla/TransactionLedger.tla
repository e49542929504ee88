-------------------------- MODULE TransactionLedger --------------------------
(* What Database.session promises a task: its writes are one transaction at a *)
(* time, which a commit makes durable as a whole, no more and no less, and of *)
(* which nothing is durable that an exception undid.                          *)
CONSTANTS Tasks, Writes

VARIABLES held,     \* the writes of the transaction of each task
          durable,  \* the writes in the database
          told,     \* the writes the task was told are committed
          undone    \* the writes the task lost by an exception, and knows it

ledger == <<held, durable, told, undone>>

Init ==
    /\ held = [t \in Tasks |-> {}]
    /\ durable = {}
    /\ told = {}
    /\ undone = {}

Add(t, w) ==
    /\ w \notin durable \cup undone
    /\ \A u \in Tasks : w \notin held[u]
    /\ held' = [held EXCEPT ![t] = @ \cup {w}]
    /\ UNCHANGED <<durable, told, undone>>

End(t) == held' = [held EXCEPT ![t] = {}]

Commit(t) ==
    /\ durable' = durable \cup held[t]
    /\ told' = told \cup held[t]
    /\ End(t)
    /\ UNCHANGED undone

\* Without a commit nothing of the transaction is kept.
Abandon(t) == End(t) /\ UNCHANGED <<durable, told, undone>>

Undo(t) ==
    /\ undone' = undone \cup held[t]
    /\ End(t)
    /\ UNCHANGED <<durable, told>>

Next ==
    \E t \in Tasks :
        \/ Commit(t) \/ Abandon(t) \/ Undo(t)
        \/ \E w \in Writes : Add(t, w)

Spec == Init /\ [][Next]_ledger
==============================================================================
