--------------------------- MODULE MCAuthSessions ---------------------------
(* Instances of AuthSessions: one process or two host the tasks; a user owns  *)
(* the sessions.                                                              *)
EXTENDS AuthSessions, TLC

CONSTANTS p1, p2, t1, t2, u1, s1, s2

HostOneProc == [t \in Tasks |-> p1]

HostTwoProcs == t1 :> p1 @@ t2 :> p2

OwnerOneUser == [s \in Sessions |-> u1]
=============================================================================
