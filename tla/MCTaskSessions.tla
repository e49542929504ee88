---------------------------- MODULE MCTaskSessions ----------------------------
(* Instances of TaskSessions: two tasks, three writes.                        *)
EXTENDS TaskSessions

CONSTANTS t1, t2, w1, w2, w3

AuthorOfEach == [w \in Writes |-> IF w = w3 THEN t2 ELSE t1]
==============================================================================
