---------------------------- MODULE AccountLedger ----------------------------
(* What the password provider promises about a login.  It comes to belong to  *)
(* one password and never changes hands; only that password opens sessions,   *)
(* and whoever is told of a sign-up has a session by then.                    *)
CONSTANTS Logins, Passwords, None

VARIABLES owner,     \* the password a login belongs to, or none yet
          opened,    \* logins and passwords with sessions
          confirmed  \* logins and passwords of the sign-ups that were told so

ledger == <<owner, opened, confirmed>>

Init ==
    /\ owner = [l \in Logins |-> None]
    /\ opened = {}
    /\ confirmed = {}

Claim(l, p) ==
    /\ owner[l] = None
    /\ owner' = [owner EXCEPT ![l] = p]
    /\ UNCHANGED <<opened, confirmed>>

Open(l, p) ==
    /\ owner[l] = p
    /\ opened' = opened \cup {<<l, p>>}
    /\ UNCHANGED <<owner, confirmed>>

Confirm(l, p) ==
    /\ <<l, p>> \in opened
    /\ confirmed' = confirmed \cup {<<l, p>>}
    /\ UNCHANGED <<owner, opened>>

Next == \E l \in Logins, p \in Passwords : Claim(l, p) \/ Open(l, p) \/ Confirm(l, p)

Spec == Init /\ [][Next]_ledger
==============================================================================
