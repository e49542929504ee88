-------------------------- MODULE PasswordAuthProofs --------------------------
(* NoTakeover and RegisteredCanSignIn for any number of requests, logins and  *)
(* passwords.                                                                 *)
EXTENDS PasswordAuth, Integers, TLAPS

LEMMA HashInjective ==
    ASSUME NEW p, NEW q, Hash(p) = Hash(q)
    PROVE  p = q
<1>1. Hash(p).hash = Hash(q).hash
  OBVIOUS
<1> QED
  BY <1>1 DEF Hash

LEMMA HashIsNotNone ==
    ASSUME NEW p \in Passwords
    PROVE  Hash(p) \in Hashes
BY DEF Hashes

LEMMA SignInit == Init => SignInv
BY DEF Init, SignInv, TypeOK, AccountsKept, OneMaker, At, RequestOK, RegisteredCanSignIn, Frames, Points,
       Exists

LEMMA SignStep == SignInv /\ [Next]_vars => SignInv'
<1> SUFFICES ASSUME SignInv, [Next]_vars PROVE SignInv'
  OBVIOUS
<1> USE DEF SignInv, TypeOK, AccountsKept, OneMaker, RequestOK, RegisteredCanSignIn, At, Login, Password,
            Advance, Reply, Exists, Matches, Frames, Points
<1>1. ASSUME NEW t \in Tasks, NEW k \in Logins, NEW q \in Passwords,
             SignUp(t, k, q) \/ SignIn(t, k, q)
      PROVE  SignInv'
  <2> DEFINE request(op, at) == [at |-> at, op |-> op, login |-> k, password |-> q,
                                 known |-> <<k, q>> \in registered, result |-> "none"]
  <2>a. PICK op \in {"sign-up", "sign-in"}, at \in {"create", "find"} :
          /\ frame' = [frame EXCEPT ![t] = request(op, at)]
          /\ at = "create" => op = "sign-up"
          /\ UNCHANGED <<account, stored, creator, opened, registered>>
    BY <1>1 DEF SignUp, SignIn, Receive
  <2>b. request(op, at) \in Frames
    OBVIOUS
  <2>1. TypeOK'
    BY <2>a, <2>b
  <2>2. AccountsKept'
    BY <1>1 DEF SignUp, SignIn, Receive
  <2>3. ASSUME NEW r \in Tasks PROVE RequestOK(r)'
    <3>1. CASE r = t
      <4>1. frame'[r] = request(op, at)
        BY <2>a, <3>1
      <4>2. (frame[r].known => <<frame[r].login, frame[r].password>> \in registered)'
        <5>1. /\ frame'[r].known = (<<k, q>> \in registered)
              /\ frame'[r].login = k
              /\ frame'[r].password = q
          BY <4>1
        <5> QED
          BY <2>a, <5>1, Zenon
      <4> QED
        BY <2>a, <4>1, <4>2
    <3>2. CASE r # t
      BY <1>1, <3>2 DEF SignUp, SignIn, Receive
    <3> QED
      BY <3>1, <3>2
  <2>4. (\A l \in Logins, p \in Passwords : <<l, p>> \in opened \cup registered => Matches(l, p))'
    BY <1>1 DEF SignUp, SignIn, Receive
  <2>5. RegisteredCanSignIn'
    <3>1. frame'[t].result = "none"
      BY <2>a
    <3>2. ASSUME NEW r \in Tasks, r # t PROVE frame'[r] = frame[r]
      BY <2>a, <3>2
    <3> QED
      BY <3>1, <3>2
  <2>6. OneMaker'
    BY <1>1 DEF SignUp, SignIn, Receive
  <2> QED
    BY <2>1, <2>2, <2>3, <2>4, <2>5, <2>6
<1>2. ASSUME NEW t \in Tasks, CreateUser(t) PROVE SignInv'
  <2>1. TypeOK'
    <3> DEFINE f == frame[t]
               g == [[f EXCEPT !.at = "idle"] EXCEPT !.result = "duplicate"]
               h == [f EXCEPT !.at = "password"]
    <3>0. f \in Frames
      OBVIOUS
    <3>1. g \in Frames /\ h \in Frames
      BY <3>0
    <3>2. frame' \in [Tasks -> Frames]
      <4>1. frame' = [frame EXCEPT ![t] = g] \/ frame' = [frame EXCEPT ![t] = h]
        BY <1>2 DEF CreateUser
      <4> HIDE DEF g, h
      <4>2. CASE frame' = [frame EXCEPT ![t] = g]
        BY <3>1, <4>2
      <4>3. CASE frame' = [frame EXCEPT ![t] = h]
        BY <3>1, <4>3
      <4> QED
        BY <4>1, <4>2, <4>3
    <3>3. account' \in [Logins -> SUBSET Methods] /\ creator' \in [Logins -> Passwords \cup {None}]
      <4>1. Password(t) \in Passwords /\ {"password"} \in SUBSET Methods
        BY MethodAssumption
      <4>2. /\ account' = account \/ account' = [account EXCEPT ![Login(t)] = {"password"}]
            /\ creator' = creator \/ creator' = [creator EXCEPT ![Login(t)] = Password(t)]
        BY <1>2 DEF CreateUser
      <4> QED
        BY <4>1, <4>2
    <3> QED
      BY <1>2, <3>2, <3>3 DEF CreateUser
  <2>2. AccountsKept'
    BY <1>2, MethodAssumption, NoneAssumption DEF CreateUser
  <2>3. ASSUME NEW r \in Tasks PROVE RequestOK(r)'
    <3>1. CASE r = t
      BY <1>2, <3>1, MethodAssumption, NoneAssumption DEF CreateUser
    <3>2. CASE r # t
      BY <1>2, <3>2, MethodAssumption, NoneAssumption DEF CreateUser
    <3> QED
      BY <3>1, <3>2
  <2>4. (\A l \in Logins, p \in Passwords : <<l, p>> \in opened \cup registered => Matches(l, p))'
    BY <1>2, MethodAssumption, NoneAssumption DEF CreateUser
  <2>5. RegisteredCanSignIn'
    BY <1>2, MethodAssumption, NoneAssumption DEF CreateUser
  <2>6. OneMaker'
    <3>1. ASSUME NEW r \in Tasks, r # t PROVE frame'[r] = frame[r]
      BY <1>2, <3>1 DEF CreateUser
    <3>2. frame'[t].login = frame[t].login
      BY <1>2 DEF CreateUser
    <3>3. CASE Exists(Login(t))
      <4>1. frame'[t].at = "idle"
        BY <1>2, <3>3 DEF CreateUser
      <4> QED
        BY <3>1, <4>1
    <3>4. CASE ~Exists(Login(t))
      <4>1. \A r \in Tasks : At(r, "password") => Login(r) # Login(t)
        BY <3>4
      <4> QED
        BY <3>1, <3>2, <4>1
    <3> QED
      BY <3>3, <3>4
  <2> QED
    BY <2>1, <2>2, <2>3, <2>4, <2>5, <2>6
<1>3. ASSUME NEW t \in Tasks, SetPassword(t) PROVE SignInv'
  <2>1. TypeOK'
    BY <1>3, NoneAssumption, HashIsNotNone DEF SetPassword
  <2>2. AccountsKept'
    <3> SUFFICES ASSUME NEW l \in Logins
                 PROVE  (/\ creator[l] # None => Exists(l)
                         /\ stored[l] # None => /\ stored[l] = Hash(creator[l])
                                                /\ "password" \in account[l])'
      OBVIOUS
    <3>1. CASE l = Login(t)
      <4>1. creator[l] = Password(t) /\ "password" \in account[l]
        BY <1>3, <3>1 DEF SetPassword
      <4>2. stored'[l] = stored[l] \/ stored'[l] = Hash(Password(t))
        BY <1>3, <3>1 DEF SetPassword
      <4>3. creator' = creator /\ account' = account
        BY <1>3 DEF SetPassword
      <4> QED
        BY <4>1, <4>2, <4>3
    <3>2. CASE l # Login(t)
      BY <1>3, <3>2 DEF SetPassword
    <3> QED
      BY <3>1, <3>2
  <2>3. ASSUME NEW r \in Tasks PROVE RequestOK(r)'
    <3>1. CASE r = t
      BY <1>3, <3>1, NoneAssumption, HashIsNotNone DEF SetPassword
    <3>2. CASE r # t
      BY <1>3, <3>2, NoneAssumption, HashIsNotNone DEF SetPassword
    <3> QED
      BY <3>1, <3>2
  <2>4. (\A l \in Logins, p \in Passwords : <<l, p>> \in opened \cup registered => Matches(l, p))'
    BY <1>3, NoneAssumption, HashIsNotNone DEF SetPassword
  <2>5. RegisteredCanSignIn'
    <3>1. ASSUME NEW r \in Tasks, r # t PROVE frame'[r] = frame[r]
      BY <1>3, <3>1 DEF SetPassword
    <3>2. frame[t].op = "sign-up"
      BY <1>3 DEF SetPassword
    <3>3. frame'[t].op = frame[t].op
      BY <1>3 DEF SetPassword
    <3>4. "sign-up" # "sign-in"
      OBVIOUS
    <3> QED
      BY <3>1, <3>2, <3>3, <3>4
  <2>6. OneMaker'
    BY <1>3 DEF SetPassword
  <2> QED
    BY <2>1, <2>2, <2>3, <2>4, <2>5, <2>6
<1>4. ASSUME NEW t \in Tasks, FindUser(t) PROVE SignInv'
  <2>1. TypeOK'
    BY <1>4 DEF FindUser
  <2>2. AccountsKept'
    BY <1>4 DEF FindUser
  <2>3. ASSUME NEW r \in Tasks PROVE RequestOK(r)'
    <3>1. CASE r = t
      BY <1>4, <3>1 DEF FindUser
    <3>2. CASE r # t
      BY <1>4, <3>2 DEF FindUser
    <3> QED
      BY <3>1, <3>2
  <2>4. (\A l \in Logins, p \in Passwords : <<l, p>> \in opened \cup registered => Matches(l, p))'
    BY <1>4 DEF FindUser
  <2>5. RegisteredCanSignIn'
    BY <1>4 DEF FindUser
  <2>6. OneMaker'
    BY <1>4 DEF FindUser
  <2> QED
    BY <2>1, <2>2, <2>3, <2>4, <2>5, <2>6
<1>5. ASSUME NEW t \in Tasks, Verify(t) PROVE SignInv'
  <2> DEFINE f == frame[t]
             past == [f EXCEPT !.at = "issue"]
             refused == [[f EXCEPT !.at = "idle"] EXCEPT !.result = "refused"]
  <2>a. f \in Frames /\ past \in Frames /\ refused \in Frames
    <3>1. f \in Frames
      OBVIOUS
    <3> QED
      BY <3>1
  <2>b. UNCHANGED <<account, stored, creator, opened, registered>>
    BY <1>5 DEF Verify
  <2>c. \/ /\ stored[f.login] = Hash(f.password)
           /\ frame' = [frame EXCEPT ![t] = past]
        \/ /\ stored[f.login] # Hash(f.password)
           /\ frame' = [frame EXCEPT ![t] = refused]
    BY <1>5 DEF Verify
  <2>1. TypeOK'
    <3>1. frame' \in [Tasks -> Frames]
      <4> HIDE DEF f, past, refused
      <4>1. frame \in [Tasks -> Frames]
        OBVIOUS
      <4>2. frame' = [frame EXCEPT ![t] = past] \/ frame' = [frame EXCEPT ![t] = refused]
        BY <2>c
      <4> HIDE DEF Frames
      <4> QED
        BY <2>a, <4>1, <4>2
    <3> QED
      BY <2>b, <3>1
  <2>2. AccountsKept'
    BY <2>b
  <2>3. ASSUME NEW r \in Tasks PROVE RequestOK(r)'
    <3>1. CASE r = t /\ stored[f.login] = Hash(f.password)
      <4>1. Matches(f.login, f.password)
        <5>1. f.login \in Logins /\ f.password \in Passwords
          BY <2>a
        <5>2. stored[f.login] # None
          BY <3>1, <5>1, HashIsNotNone, NoneAssumption
        <5>3. Hash(creator[f.login]) = Hash(f.password) /\ "password" \in account[f.login]
          BY <3>1, <5>1, <5>2
        <5> QED
          BY <3>1, <5>3, HashInjective
      <4>2. frame'[r] = past
        BY <2>c, <3>1
      <4> QED
        BY <2>a, <2>b, <4>1, <4>2
    <3>2. CASE r = t /\ stored[f.login] # Hash(f.password)
      <4>1. frame'[r] = refused
        BY <2>c, <3>2
      <4> QED
        BY <2>a, <2>b, <3>2, <4>1
    <3>3. CASE r # t
      BY <1>5, <3>3 DEF Verify
    <3> QED
      BY <3>1, <3>2, <3>3
  <2>4. (\A l \in Logins, p \in Passwords : <<l, p>> \in opened \cup registered => Matches(l, p))'
    BY <2>b
  <2>5. RegisteredCanSignIn'
    BY <1>5, HashInjective, HashIsNotNone, NoneAssumption DEF Verify
  <2>6. OneMaker'
    BY <1>5 DEF Verify
  <2> QED
    BY <2>1, <2>2, <2>3, <2>4, <2>5, <2>6
<1>6. ASSUME NEW t \in Tasks, IssueSession(t) PROVE SignInv'
  BY <1>6 DEF IssueSession
<1>7. ASSUME NEW t \in Tasks, Answer(t) PROVE SignInv'
  <2>1. TypeOK'
    <3> DEFINE f == frame[t]
               g == [[f EXCEPT !.at = "idle"] EXCEPT !.result = "ok"]
    <3>0. f \in Frames
      OBVIOUS
    <3>1. g \in Frames
      BY <3>0
    <3>2. frame' \in [Tasks -> Frames]
      <4>1. frame' = [frame EXCEPT ![t] = g]
        BY <1>7 DEF Answer
      <4> QED
        BY <3>1, <4>1
    <3>3. registered' \subseteq Logins \X Passwords
      BY <1>7 DEF Answer
    <3> QED
      BY <1>7, <3>2, <3>3 DEF Answer
  <2>2. AccountsKept'
    BY <1>7 DEF Answer
  <2>3. ASSUME NEW r \in Tasks PROVE RequestOK(r)'
    <3>1. CASE r = t
      BY <1>7, <3>1 DEF Answer
    <3>2. CASE r # t
      BY <1>7, <3>2 DEF Answer
    <3> QED
      BY <3>1, <3>2
  <2>4. (\A l \in Logins, p \in Passwords : <<l, p>> \in opened \cup registered => Matches(l, p))'
    BY <1>7 DEF Answer
  <2>5. RegisteredCanSignIn'
    BY <1>7 DEF Answer
  <2>6. OneMaker'
    BY <1>7 DEF Answer
  <2> QED
    BY <2>1, <2>2, <2>3, <2>4, <2>5, <2>6
<1>8. ASSUME NEW t \in Tasks, Abort(t) PROVE SignInv'
  <2>1. TypeOK'
    <3> DEFINE f == frame[t]
               g == [[f EXCEPT !.at = "idle"] EXCEPT !.result = "cut"]
    <3>0. f \in Frames
      OBVIOUS
    <3>1. g \in Frames
      BY <3>0
    <3>2. frame' = [frame EXCEPT ![t] = g]
      BY <1>8 DEF Abort
    <3>3. frame' \in [Tasks -> Frames]
      BY <3>1, <3>2
    <3> QED
      BY <1>8, <3>3 DEF Abort
  <2>2. AccountsKept'
    BY <1>8 DEF Abort
  <2>3. ASSUME NEW r \in Tasks PROVE RequestOK(r)'
    <3>1. CASE r = t
      BY <1>8, <3>1 DEF Abort
    <3>2. CASE r # t
      BY <1>8, <3>2 DEF Abort
    <3> QED
      BY <3>1, <3>2
  <2>4. (\A l \in Logins, p \in Passwords : <<l, p>> \in opened \cup registered => Matches(l, p))'
    BY <1>8 DEF Abort
  <2>5. RegisteredCanSignIn'
    BY <1>8 DEF Abort
  <2>6. OneMaker'
    BY <1>8 DEF Abort
  <2> QED
    BY <2>1, <2>2, <2>3, <2>4, <2>5, <2>6
<1>9. ASSUME NEW l \in Logins, NEW methods \in SUBSET Methods, CreateOther(l, methods)
      PROVE  SignInv'
  BY <1>9, NoneAssumption DEF CreateOther
<1>10. ASSUME UNCHANGED vars PROVE SignInv'
  BY <1>10 DEF vars
<1> QED
  BY <1>1, <1>2, <1>3, <1>4, <1>5, <1>6, <1>7, <1>8, <1>9, <1>10 DEF Next, Proceed

\* Every state of PasswordAuth satisfies the invariant that the two rest on.
THEOREM SignInvariant == Spec => []SignInv
BY SignInit, SignStep, PTL DEF Spec

\* No race of sign-ups, sign-ins and failures lets a password other than the
\* first into an account.
THEOREM NoTakeoverHolds == Spec => []NoTakeover
<1>1. SignInv => NoTakeover
  BY DEF SignInv, NoTakeover, Matches
<1> QED
  BY <1>1, SignInvariant, PTL

\* A sign-up that replied is good for every later sign-in.
THEOREM RegisteredCanSignInHolds == Spec => []RegisteredCanSignIn
<1>1. SignInv => RegisteredCanSignIn
  BY DEF SignInv
<1> QED
  BY <1>1, SignInvariant, PTL

\* The unique index on user_id never refuses the password row of a sign-up: no
\* other request has made one, or is about to, for the login it claimed.
THEOREM PasswordRowIsFree ==
    Spec => [](\A t \in Tasks : At(t, "password") =>
                 /\ stored[Login(t)] = None
                 /\ \A u \in Tasks : At(u, "password") /\ Login(u) = Login(t) => u = t)
<1>1. SignInv => \A t \in Tasks : At(t, "password") =>
                   /\ stored[Login(t)] = None
                   /\ \A u \in Tasks : At(u, "password") /\ Login(u) = Login(t) => u = t
  BY DEF SignInv, OneMaker, RequestOK, At, Login
<1> QED
  BY <1>1, SignInvariant, PTL

\* A step of a request is one of the ledger or none that it sees.
LEMMA AccountsStep == SignInv /\ [Next]_vars => [Accounts!Next]_Accounts!ledger
<1> SUFFICES ASSUME SignInv, Next PROVE Accounts!Next \/ UNCHANGED Accounts!ledger
  BY DEF vars, Accounts!ledger
<1> USE DEF At, Login, Password
<1>a. \A t \in Tasks : Login(t) \in Logins /\ Password(t) \in Passwords /\ RequestOK(t)
  BY DEF SignInv, TypeOK, Frames
<1>1. ASSUME NEW t \in Tasks, CreateUser(t), ~UNCHANGED creator
      PROVE  Accounts!Claim(Login(t), Password(t))
  <2>1. creator[Login(t)] = None
    BY <1>1, <1>a DEF CreateUser, SignInv, AccountsKept
  <2> QED
    BY <1>1, <2>1 DEF CreateUser, Accounts!Claim
<1>2. ASSUME NEW t \in Tasks, IssueSession(t) PROVE Accounts!Open(Login(t), Password(t))
  BY <1>2, <1>a DEF IssueSession, RequestOK, Matches, Accounts!Open
<1>3. ASSUME NEW t \in Tasks, Answer(t), ~UNCHANGED registered
      PROVE  Accounts!Confirm(Login(t), Password(t))
  BY <1>3, <1>a DEF Answer, RequestOK, Accounts!Confirm
<1>4. ASSUME NEW t \in Tasks, CreateUser(t) \/ Answer(t)
      PROVE  Accounts!Next \/ UNCHANGED Accounts!ledger
  BY <1>1, <1>3, <1>4, <1>a DEF CreateUser, Answer, Accounts!Next, Accounts!ledger
<1> QED
  BY <1>2, <1>4, <1>a
  DEF Next, Proceed, SignUp, SignIn, Receive, SetPassword, FindUser, Verify, Abort, CreateOther,
      Accounts!Next, Accounts!ledger

\* Sign-up and sign-in implement the ledger of accounts.
THEOREM ImplementsAccountsHolds == Spec => ImplementsAccounts
<1>1. Init => Accounts!Init
  BY DEF Init, Accounts!Init
<1> QED
  BY <1>1, AccountsStep, SignInvariant, PTL DEF Spec, ImplementsAccounts, Accounts!Spec

------------------------------------------------------------------------------
(* What AccountUsable rests on besides fairness.                              *)

\* How many steps of its own a request has before it at most.
StepsLeft(at) ==
    CASE at = "idle" -> 0
      [] at = "answer" -> 1
      [] at = "issue" -> 2
      [] at \in {"password", "verify"} -> 3
      [] at \in {"create", "find"} -> 4

\* Only its own steps and a fault move a request, and each takes it nearer its end.
LEMMA RequestMoves ==
    ASSUME TypeOK, [Next]_vars, NEW t \in Tasks, ~At(t, "idle"), frame'[t] # frame[t]
    PROVE  /\ Proceed(t) \/ Abort(t)
           /\ StepsLeft(frame[t].at) \in 1 .. 4
           /\ StepsLeft(frame'[t].at) \in 0 .. StepsLeft(frame[t].at) - 1
<1> USE DEF At, Advance, Reply
<1>1. ASSUME NEW r \in Tasks, r # t,
             \/ \E l \in Logins, p \in Passwords : SignUp(r, l, p) \/ SignIn(r, l, p)
             \/ Proceed(r) \/ Abort(r)
      PROVE  FALSE
  <2>1. \A g : frame' # [frame EXCEPT ![r] = g]
    BY <1>1 DEF TypeOK
  <2> QED
    BY <1>1, <2>1 DEF SignUp, SignIn, Receive, Proceed, CreateUser, SetPassword, FindUser, Verify,
                      IssueSession, Answer, Abort
<1>2. Proceed(t) \/ Abort(t)
  BY <1>1 DEF Next, SignUp, SignIn, Receive, CreateOther, vars
<1>3. \/ frame[t].at \in {"create", "find"} /\ frame'[t].at \in {"password", "verify", "idle"}
      \/ frame[t].at \in {"password", "verify"} /\ frame'[t].at \in {"issue", "idle"}
      \/ frame[t].at = "issue" /\ frame'[t].at = "answer"
      \/ frame[t].at # "idle" /\ frame'[t].at = "idle"
  BY <1>2 DEF Proceed, CreateUser, SetPassword, FindUser, Verify, IssueSession, Answer, Abort,
              TypeOK, Frames
<1>4. frame[t].at \in Points
  BY DEF TypeOK, Frames
<1> QED
  BY <1>2, <1>3, <1>4 DEF StepsLeft, Points

\* No request takes more than four steps, whatever the others do meanwhile.
THEOREM RequestsRunOut ==
    Spec => [][\A t \in Tasks : ~At(t, "idle") /\ frame'[t] # frame[t] =>
                 /\ StepsLeft(frame[t].at) \in 1 .. 4
                 /\ StepsLeft(frame'[t].at) \in 0 .. StepsLeft(frame[t].at) - 1]_vars
<1>1. SignInv /\ [Next]_vars =>
        \A t \in Tasks : ~At(t, "idle") /\ frame'[t] # frame[t] =>
          /\ StepsLeft(frame[t].at) \in 1 .. 4
          /\ StepsLeft(frame'[t].at) \in 0 .. StepsLeft(frame[t].at) - 1
  BY RequestMoves DEF SignInv
<1> QED
  BY <1>1, SignInvariant, PTL DEF Spec

\* A sign-up that claimed a login goes on to give it its password, and nothing
\* but a fault of that request ends it before.
THEOREM ClaimGetsPassword ==
    Spec => [][\A t \in Tasks : At(t, "password") /\ frame'[t] # frame[t] =>
                 \/ stored'[Login(t)] = Hash(Password(t))
                 \/ Faulty /\ frame'[t].result = "cut"]_vars
<1> DEFINE A == \A t \in Tasks : At(t, "password") /\ frame'[t] # frame[t] =>
                  \/ stored'[Login(t)] = Hash(Password(t))
                  \/ Faulty /\ frame'[t].result = "cut"
<1>1. SignInv /\ [Next]_vars => A
  <2> SUFFICES ASSUME SignInv, [Next]_vars, NEW t \in Tasks, At(t, "password"),
                      frame'[t] # frame[t]
               PROVE  \/ stored'[Login(t)] = Hash(Password(t))
                      \/ Faulty /\ frame'[t].result = "cut"
    OBVIOUS
  <2>1. SetPassword(t) \/ Abort(t)
    BY RequestMoves DEF SignInv, At, Proceed, CreateUser, FindUser, Verify, IssueSession, Answer
  <2>2. CASE SetPassword(t)
    BY <2>2 DEF SetPassword, SignInv, TypeOK, Frames, Login
  <2>3. CASE Abort(t)
    BY <2>3 DEF Abort, Reply, SignInv, TypeOK, Frames
  <2> QED
    BY <2>1, <2>2, <2>3
<1> QED
  BY <1>1, SignInvariant, PTL DEF Spec

\* Accounts, password rows and requests stay within their types.
THEOREM TypeCorrect == Spec => []TypeOK
<1>1. SignInv => TypeOK
  BY DEF SignInv
<1> QED
  BY <1>1, SignInvariant, PTL
===============================================================================
