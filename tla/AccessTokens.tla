----------------------------- MODULE AccessTokens -----------------------------
(* The access token of a session: what issue_session signs, and what          *)
(* validate_jwt_credentials makes of it, in processes that are configured     *)
(* again or restarted while requests are under way.  Whether the session of a *)
(* token that can be read is allowed is for the cache and the table to say:   *)
(* AuthSessions has them, here either answer may come.                        *)
(*                                                                            *)
(* Time passes in ticks, Second of them to a second: a token carries whole    *)
(* seconds, the expiration told to the user does not.                         *)
EXTENDS Integers

CONSTANTS
    Processes,
    Sessions,
    Requests,   \* validations
    Settings,   \* the configurations: SECRET_KEY, TOKEN_ALGORITHM and
                \* AUTH_TOKEN_EXPIRE_MINUTES in ticks
    Lifetimes,  \* session_expire_minutes of a call, in ticks, or Default
    Default,    \* the caller gives no lifetime
    Never,      \* no expiration
    None,       \* no request
    Second,     \* ticks in a second
    MaxTime     \* bound on the clock

ASSUME SecondAssumption == Second \in Nat \ {0}

ASSUME LifetimeAssumption ==
    /\ Never \notin Int
    /\ Default \notin Int \cup {Never}
    /\ Lifetimes \subseteq Int \cup {Default}
    /\ \A c \in Settings : c.lifetime \in Int \cup {Never}

Calls == [by : Processes, config : Settings, lifetime : Lifetimes]

Readings == [by : Processes, session : Sessions, secret : {c.secret : c \in Settings}, at : Nat]

ASSUME NoneAssumption == None \notin Calls \cup Readings

VARIABLES
    now,
    config,     \* the registered configuration of each process
    signing,    \* the issue_session under way for a session
    token,      \* the token of each session: its signature and its exp
    told,       \* the expiration returned with it
    frame,      \* a validation that has read its token, with what and when
    accepted    \* the validations that ended well, as they read their token

vars == <<now, config, signing, token, told, frame, accepted>>

NoToken == [secret |-> Never, algorithm |-> Never, exp |-> Never]

Issued(s) == token[s] # NoToken

Init ==
    /\ now = 0
    /\ config \in [Processes -> Settings]
    /\ signing = [s \in Sessions |-> None]
    /\ token = [s \in Sessions |-> NoToken]
    /\ told = [s \in Sessions |-> Never]
    /\ frame = [r \in Requests |-> None]
    /\ accepted = {}

------------------------------------------------------------------------------
(* create_access_token and decode_jwt                                         *)

\* A lifetime of zero is false in Python, and the token never expires.
Expiration(lifetime) == IF lifetime \in {Never, 0} THEN Never ELSE now + lifetime

\* Variant of Exp: rounded up.
ExpRoundedUp(t) == IF t = Never THEN Never ELSE (t + Second - 1) \div Second

\* int(timestamp()) drops the fraction.
Exp(t) == IF t = Never THEN Never ELSE t \div Second

\* jose compares whole seconds and lets the last one pass.
Expired(tk) == tk.exp # Never /\ tk.exp < now \div Second

\* decode_jwt is called without an algorithm and takes HS256 alone.
Decodes(tk, c) == tk.secret = c.secret /\ tk.algorithm = "HS256" /\ ~Expired(tk)

------------------------------------------------------------------------------
(* issue_session                                                              *)

\* It takes the configuration first and then inserts the row.
BeginIssue(p, s, lifetime) ==
    /\ ~Issued(s)
    /\ signing[s] = None
    /\ signing' = [signing EXCEPT ![s] = [by |-> p, config |-> config[p],
                                          lifetime |-> lifetime]]
    /\ UNCHANGED <<now, config, token, told, frame, accepted>>

\* When the row is there, the token is signed with what was taken.
Sign(s) ==
    LET call == signing[s]
        c == call.config
        expiration == Expiration(IF call.lifetime = Default THEN c.lifetime
                                                            ELSE call.lifetime)
    IN
    /\ call # None
    /\ signing' = [signing EXCEPT ![s] = None]
    /\ token' = [token EXCEPT ![s] = [secret |-> c.secret, algorithm |-> c.algorithm,
                                      exp |-> Exp(expiration)]]
    /\ told' = [told EXCEPT ![s] = expiration]
    /\ UNCHANGED <<now, config, frame, accepted>>

\* The user is not there, or the request is cut off.
Fail(s) ==
    /\ signing[s] # None
    /\ signing' = [signing EXCEPT ![s] = None]
    /\ UNCHANGED <<now, config, token, told, frame, accepted>>

------------------------------------------------------------------------------
(* validate_jwt_credentials                                                   *)

Reading(p, s) == [by |-> p, session |-> s, secret |-> config[p].secret, at |-> now]

\* Variant of BeginValidate: a known session is not read again.
BeginValidateKnown(p, r, s) ==
    /\ Issued(s)
    /\ frame[r] = None
    /\ Decodes(token[s], config[p]) \/ \E a \in accepted : a.session = s /\ a.by = p
    /\ frame' = [frame EXCEPT ![r] = Reading(p, s)]
    /\ UNCHANGED <<now, config, signing, token, told, accepted>>

\* A token that cannot be read is refused at once.
BeginValidate(p, r, s) ==
    /\ Issued(s)
    /\ frame[r] = None
    /\ Decodes(token[s], config[p])
    /\ frame' = [frame EXCEPT ![r] = Reading(p, s)]
    /\ UNCHANGED <<now, config, signing, token, told, accepted>>

\* is_user_id_allowed answers, now or after an await, one thing or the other.
EndValidate(r) ==
    /\ frame[r] # None
    /\ accepted' \in {accepted, accepted \cup {frame[r]}}
    /\ frame' = [frame EXCEPT ![r] = None]
    /\ UNCHANGED <<now, config, signing, token, told>>

------------------------------------------------------------------------------
\* A configuration that is created replaces the registered one; the requests
\* under way go on.
Configure(p) ==
    /\ config' \in {[config EXCEPT ![p] = c] : c \in Settings}
    /\ UNCHANGED <<now, signing, token, told, frame, accepted>>

\* Variant of Restart: the process serves before it has a configuration.
RestartBare(p) ==
    /\ config' = [config EXCEPT ![p] = None]
    /\ signing' = [s \in Sessions |->
                     IF signing[s] # None /\ signing[s].by = p THEN None ELSE signing[s]]
    /\ frame' = [r \in Requests |->
                   IF frame[r] # None /\ frame[r].by = p THEN None ELSE frame[r]]
    /\ UNCHANGED <<now, token, told, accepted>>

\* A process is started again, with other environment variables.
Restart(p) ==
    /\ config' \in {[config EXCEPT ![p] = c] : c \in Settings}
    /\ signing' = [s \in Sessions |->
                     IF signing[s] # None /\ signing[s].by = p THEN None ELSE signing[s]]
    /\ frame' = [r \in Requests |->
                   IF frame[r] # None /\ frame[r].by = p THEN None ELSE frame[r]]
    /\ UNCHANGED <<now, token, told, accepted>>

Tick ==
    /\ now < MaxTime
    /\ now' = now + 1
    /\ UNCHANGED <<config, signing, token, told, frame, accepted>>

Next ==
    \/ \E s \in Sessions : Sign(s) \/ Fail(s)
    \/ \E p \in Processes, s \in Sessions :
         \/ \E lifetime \in Lifetimes : BeginIssue(p, s, lifetime)
         \/ \E r \in Requests : BeginValidate(p, r, s)
    \/ \E r \in Requests : EndValidate(r)
    \/ \E p \in Processes : Configure(p) \/ Restart(p)
    \/ Tick

Spec == Init /\ [][Next]_vars

------------------------------------------------------------------------------
(* Properties                                                                 *)

\* What issue_session can have signed.
Tokens ==
    [secret : {c.secret : c \in Settings}, algorithm : {c.algorithm : c \in Settings},
     exp : Int \cup {Never}]

TypeOK ==
    /\ now \in Nat
    /\ config \in [Processes -> Settings]
    /\ signing \in [Sessions -> Calls \cup {None}]
    /\ token \in [Sessions -> Tokens \cup {NoToken}]
    /\ told \in [Sessions -> Int \cup {Never}]
    /\ frame \in [Requests -> Readings \cup {None}]
    /\ accepted \subseteq Readings

Readable(s, c) ==
    Issued(s) /\ token[s].secret = c.secret /\ token[s].algorithm = "HS256"

\* The expiration issue_session returned is the one its token obeys, although
\* the token was rounded to a second and is compared in seconds, and although
\* the configuration may have been replaced while it was issued: it is not
\* refused a tick before that time, nor accepted a second after it, in whichever
\* process with the same secret reads it.
HonestExpiry ==
    \A s \in Sessions, p \in Processes : Readable(s, config[p]) =>
        /\ told[s] = Never => Decodes(token[s], config[p])
        /\ told[s] # Never => /\ now <= told[s] => Decodes(token[s], config[p])
                              /\ Decodes(token[s], config[p]) => now < told[s] + Second

\* Whatever is created, restarted or cached meanwhile, a validation that ended
\* well had begun before the announced expiration was a second past, in a process
\* registered with the secret the token was signed with.
AcceptedInTime ==
    \A a \in accepted :
        /\ token[a.session].secret = a.secret
        /\ told[a.session] # Never => a.at < told[a.session] + Second
==============================================================================
