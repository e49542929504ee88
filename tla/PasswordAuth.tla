----------------------------- MODULE PasswordAuth -----------------------------
(* PasswordProvider: sign-up and sign-in over the user table, the password    *)
(* table and issue_session.  A task is one request; it carries its login and  *)
(* password across the awaits of the database, and two requests for one login *)
(* may be at any two of them.                                                 *)
EXTENDS FiniteSets

CONSTANTS
    Logins,
    Passwords,
    Tasks,
    Methods,    \* what auth_providers may hold; "password" is one of them
    None,
    Faulty      \* whether a request may be cut off by an error or a crash

Hash(p) == [hash |-> p]

Hashes == {Hash(p) : p \in Passwords}

ASSUME NoneAssumption == None \notin Passwords \cup Hashes

ASSUME MethodAssumption == "password" \in Methods

VARIABLES
    account,    \* the user row of each login: its auth_providers, or none
    stored,     \* the password row of each login's user
    creator,    \* the password in the sign-up that made the account
    opened,     \* sessions, by account and the password of their request
    registered, \* what a sign-up replied to
    frame       \* the request of each task

vars == <<account, stored, creator, opened, registered, frame>>

Points == {"idle", "create", "password", "find", "verify", "issue", "answer"}

Frames ==
    [at : Points, op : {"sign-up", "sign-in"}, login : Logins, password : Passwords,
     known : BOOLEAN,   \* the pair was registered when the request came
     result : {"none", "ok", "refused", "duplicate", "cut"}]

Exists(l) == account[l] # {}

Init ==
    /\ account = [l \in Logins |-> {}]
    /\ stored = [l \in Logins |-> None]
    /\ creator = [l \in Logins |-> None]
    /\ opened = {}
    /\ registered = {}
    /\ frame \in [Tasks -> {f \in Frames : f.at = "idle" /\ f.result = "none" /\ ~f.known}]

At(t, at) == frame[t].at = at

Login(t) == frame[t].login

Password(t) == frame[t].password

Advance(t, at) == frame' = [frame EXCEPT ![t].at = at]

Reply(t, result) == frame' = [frame EXCEPT ![t].at = "idle", ![t].result = result]

Receive(t, op, at, l, p) ==
    /\ At(t, "idle")
    /\ frame' = [frame EXCEPT ![t] = [at |-> at, op |-> op, login |-> l, password |-> p,
                                      known |-> <<l, p>> \in registered,
                                      result |-> "none"]]
    /\ UNCHANGED <<account, stored, creator, opened, registered>>

------------------------------------------------------------------------------
(* register_user                                                              *)

SignUp(t, l, p) == Receive(t, "sign-up", "create", l, p)

\* Variant of CreateUser: a login that exists is taken over.
CreateUserIfMissing(t) ==
    LET l == Login(t) IN
    /\ At(t, "create")
    /\ Advance(t, "password")
    /\ IF Exists(l)
       THEN UNCHANGED <<account, creator>>
       ELSE /\ account' = [account EXCEPT ![l] = {"password"}]
            /\ creator' = [creator EXCEPT ![l] = Password(t)]
    /\ UNCHANGED <<stored, opened, registered>>

\* Variant of CreateUser: the password is left for later.
CreateUserOnly(t) ==
    LET l == Login(t) IN
    /\ At(t, "create")
    /\ ~Exists(l)
    /\ account' = [account EXCEPT ![l] = {"password"}]
    /\ creator' = [creator EXCEPT ![l] = Password(t)]
    /\ Advance(t, "issue")
    /\ UNCHANGED <<stored, opened, registered>>

\* The unique index on login decides between two sign-ups.
CreateUser(t) ==
    LET l == Login(t) IN
    /\ At(t, "create")
    /\ \/ /\ Exists(l)
          /\ Reply(t, "duplicate")
          /\ UNCHANGED <<account, creator>>
       \/ /\ ~Exists(l)
          /\ account' = [account EXCEPT ![l] = {"password"}]
          /\ creator' = [creator EXCEPT ![l] = Password(t)]
          /\ Advance(t, "password")
    /\ UNCHANGED <<stored, opened, registered>>

\* Variant of SetPassword: the password is kept as it came.
SetPasswordPlain(t) ==
    /\ At(t, "password")
    /\ stored' = [stored EXCEPT ![Login(t)] = Password(t)]
    /\ Advance(t, "issue")
    /\ UNCHANGED <<account, creator, opened, registered>>

\* The unique index on user_id allows a user one password row; only the request
\* that made the user gets here, so the index never refuses it.
SetPassword(t) ==
    /\ At(t, "password")
    /\ stored[Login(t)] = None
    /\ stored' = [stored EXCEPT ![Login(t)] = Hash(Password(t))]
    /\ Advance(t, "issue")
    /\ UNCHANGED <<account, creator, opened, registered>>

------------------------------------------------------------------------------
(* authenticate_user                                                          *)

SignIn(t, l, p) == Receive(t, "sign-in", "find", l, p)

\* find_user_by_login, then the check of the user's providers.
FindUser(t) ==
    /\ At(t, "find")
    /\ \/ /\ "password" \in account[Login(t)]
          /\ Advance(t, "verify")
       \/ /\ "password" \notin account[Login(t)]
          /\ Reply(t, "refused")
    /\ UNCHANGED <<account, stored, creator, opened, registered>>

\* Variant of Verify: the password row of any user will do.
VerifyAny(t) ==
    /\ At(t, "verify")
    /\ \E l \in Logins :
          \/ /\ stored[l] = Hash(Password(t))
             /\ Advance(t, "issue")
          \/ /\ stored[l] # Hash(Password(t))
             /\ Reply(t, "refused")
    /\ UNCHANGED <<account, stored, creator, opened, registered>>

\* get_by_user_id and verify_password, with no await between them.
Verify(t) ==
    /\ At(t, "verify")
    /\ \/ /\ stored[Login(t)] = Hash(Password(t))
          /\ Advance(t, "issue")
       \/ /\ stored[Login(t)] # Hash(Password(t))
          /\ Reply(t, "refused")
    /\ UNCHANGED <<account, stored, creator, opened, registered>>

------------------------------------------------------------------------------
(* Both                                                                       *)

\* issue_session commits the session row long before the reply.
IssueSession(t) ==
    /\ At(t, "issue")
    /\ opened' = opened \cup {<<Login(t), Password(t)>>}
    /\ Advance(t, "answer")
    /\ UNCHANGED <<account, stored, creator, registered>>

Answer(t) ==
    /\ At(t, "answer")
    /\ registered' = IF frame[t].op = "sign-up"
                     THEN registered \cup {<<Login(t), Password(t)>>}
                     ELSE registered
    /\ Reply(t, "ok")
    /\ UNCHANGED <<account, stored, creator, opened>>

\* A database error, a cancellation or a crash; nothing that was committed is
\* taken back.
Abort(t) ==
    /\ Faulty
    /\ ~At(t, "idle")
    /\ Reply(t, "cut")
    /\ UNCHANGED <<account, stored, creator, opened, registered>>

\* The application makes a user itself, for any methods and without a password.
CreateOther(l, methods) ==
    /\ ~Exists(l)
    /\ methods # {}
    /\ account' = [account EXCEPT ![l] = methods]
    /\ UNCHANGED <<stored, creator, opened, registered, frame>>

------------------------------------------------------------------------------
Proceed(t) ==
    \/ CreateUser(t) \/ SetPassword(t)
    \/ FindUser(t) \/ Verify(t)
    \/ IssueSession(t) \/ Answer(t)

Next ==
    \/ \E t \in Tasks :
          \/ \E l \in Logins, p \in Passwords : SignUp(t, l, p) \/ SignIn(t, l, p)
          \/ Proceed(t)
          \/ Abort(t)
    \/ \E l \in Logins, methods \in SUBSET Methods : CreateOther(l, methods)

Spec == Init /\ [][Next]_vars

\* The event loop resumes a task whose await is over, and the database answers.
FairSpec == Spec /\ \A t \in Tasks : WF_vars(Proceed(t))

------------------------------------------------------------------------------
(* Properties                                                                 *)

TypeOK ==
    /\ account \in [Logins -> SUBSET Methods]
    /\ stored \in [Logins -> Hashes \cup {None}]
    /\ creator \in [Logins -> Passwords \cup {None}]
    /\ opened \subseteq Logins \X Passwords
    /\ registered \subseteq Logins \X Passwords
    /\ frame \in [Tasks -> Frames]

\* Every session of an account was opened with the password of the sign-up that
\* made the account, and only a sign-up that made it was told so: of two that
\* race for a login, register_user never lets the loser's password in.
NoTakeover ==
    \A l \in Logins, p \in Passwords :
        <<l, p>> \in opened \cup registered => creator[l] = p

\* authenticate_user never refuses a login and password whose sign-up had
\* replied before the request came.
RegisteredCanSignIn ==
    \A t \in Tasks :
        frame[t].op = "sign-in" /\ frame[t].known => frame[t].result # "refused"

SigningUp(l) ==
    \E t \in Tasks : /\ frame[t].op = "sign-up"
                     /\ frame[t].login = l
                     /\ frame[t].at \in {"password", "issue", "answer"}

CutOff(l) ==
    \E t \in Tasks :
        frame[t].op = "sign-up" /\ frame[t].login = l /\ frame[t].result = "cut"

\* A sign-up that made an account gives it its password, whatever else happens
\* to the login meanwhile: register_user makes the two in separate transactions,
\* and only a fault of this request may come between them.
AccountUsable == \A l \in Logins : SigningUp(l) ~> stored[l] # None \/ CutOff(l)

\* What keeps the two: a password row is that of the sign-up that made the
\* account, a request past its check has a password that matches the row,
\* nothing of an account that a sign-up replied to changes any more, and the
\* request that is to make a password row finds none there.
AccountsKept ==
    \A l \in Logins :
        /\ creator[l] # None => Exists(l)
        /\ stored[l] # None => stored[l] = Hash(creator[l]) /\ "password" \in account[l]

Matches(l, p) == stored[l] = Hash(p) /\ creator[l] = p /\ "password" \in account[l]

RequestOK(t) ==
    LET f == frame[t] IN
    /\ f.at = "password" => /\ creator[f.login] = f.password
                            /\ "password" \in account[f.login]
                            /\ stored[f.login] = None
    /\ f.at \in {"issue", "answer"} => Matches(f.login, f.password)
    /\ f.at = "answer" => <<f.login, f.password>> \in opened
    /\ f.at \in {"create", "password"} => f.op = "sign-up"
    /\ f.known => <<f.login, f.password>> \in registered

\* A login's password row is one request's to make.
OneMaker ==
    \A t, u \in Tasks :
        t # u /\ At(t, "password") /\ At(u, "password") => Login(t) # Login(u)

SignInv ==
    /\ TypeOK
    /\ AccountsKept
    /\ OneMaker
    /\ \A t \in Tasks : RequestOK(t)
    /\ \A l \in Logins, p \in Passwords : <<l, p>> \in opened \cup registered => Matches(l, p)
    /\ RegisteredCanSignIn

Accounts == INSTANCE AccountLedger WITH owner <- creator, confirmed <- registered

\* register_user and authenticate_user implement the ledger of accounts: a login
\* never changes hands, its first password alone opens sessions, and a sign-up
\* replies only after its session is kept.
ImplementsAccounts == Accounts!Spec
==============================================================================
