---------------------------- MODULE SessionLedger ----------------------------
(* What the authentication service promises about a login session, seen by   *)
(* the holder of its token.  A session is opened once and closed once; a     *)
(* reply to a request that carries the token is a verdict.  A closed session *)
(* may still be accepted, from what was known earlier; one that is open is   *)
(* never refused.                                                            *)
CONSTANT Sessions

VARIABLES phase,    \* the life of each session
          verdict   \* the last reply of the session's present phase

ledger == <<phase, verdict>>

Init ==
    /\ phase = [s \in Sessions |-> "absent"]
    /\ verdict = [s \in Sessions |-> "none"]

Open(s) ==
    /\ phase[s] = "absent"
    /\ phase' = [phase EXCEPT ![s] = "open"]
    /\ UNCHANGED verdict

Close(s) ==
    /\ phase[s] = "open"
    /\ phase' = [phase EXCEPT ![s] = "closed"]
    /\ verdict' = [verdict EXCEPT ![s] = "none"]

Allow(s) ==
    /\ phase[s] \in {"open", "closed"}
    /\ verdict' = [verdict EXCEPT ![s] = "allow"]
    /\ UNCHANGED phase

Deny(s) ==
    /\ phase[s] = "closed"
    /\ verdict' = [verdict EXCEPT ![s] = "deny"]
    /\ UNCHANGED phase

Next == \E s \in Sessions : Open(s) \/ Close(s) \/ Allow(s) \/ Deny(s)

Spec == Init /\ [][Next]_ledger
==============================================================================
