------------------------- MODULE AccessTokensProofs -------------------------
(* When tokens are good, for every resolution of the clock, every lifetime,  *)
(* every set of configurations and any number of processes.                  *)
EXTENDS AccessTokens, TLAPS

\* Whole seconds order instants up to a second: the comparison of the token's
\* exp with the clock is neither early nor a second late.
LEMMA Seconds ==
    ASSUME NEW u \in Nat \ {0}, NEW a \in Int, NEW b \in Int
    PROVE  /\ a <= b => a \div u <= b \div u
           /\ a \div u <= b \div u => a < b + u
<1>1. a <= b => a \div u <= b \div u
  BY SMT
<1>2. ASSUME a \div u <= b \div u PROVE a < b + u
  <2> DEFINE qa == a \div u
             qb == b \div u
  <2>1. qa \in Int /\ qb \in Int
    BY SMT
  <2>2. a < u * qa + u
    BY SMT
  <2>3. u * qb <= b
    BY SMT
  <2>4. qa <= qb
    BY <1>2
  <2> HIDE DEF qa, qb
  <2>5. u * qa <= u * qb
    BY <2>1, <2>4
  <2> QED
    BY <2>1, <2>2, <2>3, <2>5
<1> QED
  BY <1>1, <1>2

\* What a token carries is the expiration told with it, in whole seconds.
TokensMatch ==
    \A s \in Sessions : Issued(s) => token[s].exp = Exp(told[s])

\* Where a reading a validation has made stands to the token it read.
Fresh(a) ==
    /\ Issued(a.session)
    /\ a.at <= now
    /\ token[a.session].secret = a.secret
    /\ told[a.session] # Never => a.at < told[a.session] + Second

ReadingsFresh ==
    /\ \A r \in Requests : frame[r] # None => Fresh(frame[r])
    /\ \A a \in accepted : Fresh(a)

\* A token is signed once.
SignedOnce == \A s \in Sessions : signing[s] # None => ~Issued(s)

TokenInv == TypeOK /\ TokensMatch /\ SignedOnce /\ ReadingsFresh

LEMMA InitToken == Init => TokenInv
BY DEF Init, TokenInv, TypeOK, TokensMatch, SignedOnce, ReadingsFresh, Issued, NoToken

\* A token that can be read is within a second of the expiration told with it.
LEMMA DecodesInTime ==
    ASSUME TypeOK, TokensMatch, NEW s \in Sessions, Issued(s), NEW c \in Settings,
           token[s].secret = c.secret, token[s].algorithm = "HS256"
    PROVE  /\ told[s] = Never => Decodes(token[s], c)
           /\ told[s] # Never => /\ now <= told[s] => Decodes(token[s], c)
                                 /\ Decodes(token[s], c) => now < told[s] + Second
<1>1. /\ token[s].exp = Exp(told[s])
      /\ told[s] \in Int \cup {Never}
      /\ now \in Int
  BY DEF TypeOK, TokensMatch
<1>2. Decodes(token[s], c) <=> ~Expired(token[s])
  BY DEF Decodes
<1>3. told[s] = Never => ~Expired(token[s])
  BY <1>1 DEF Exp, Expired
<1>4. ASSUME told[s] # Never
      PROVE  Expired(token[s]) <=> told[s] \div Second < now \div Second
  <2>1. told[s] \div Second \in Int
    BY <1>1, <1>4, SecondAssumption, SMT
  <2>2. token[s].exp = told[s] \div Second
    BY <1>1, <1>4 DEF Exp
  <2> QED
    BY <2>1, <2>2, LifetimeAssumption DEF Expired
<1>5. ASSUME told[s] # Never
      PROVE  /\ now <= told[s] => Decodes(token[s], c)
             /\ Decodes(token[s], c) => now < told[s] + Second
  <2>1. /\ told[s] \div Second \in Int
        /\ now \div Second \in Int
    BY <1>1, <1>5, SecondAssumption, SMT
  <2>2. /\ now <= told[s] => now \div Second <= told[s] \div Second
        /\ now \div Second <= told[s] \div Second => now < told[s] + Second
    BY <1>1, <1>5, SecondAssumption, Seconds
  <2> QED
    BY <1>2, <1>4, <1>5, <2>1, <2>2
<1> QED
  BY <1>2, <1>3, <1>5

------------------------------------------------------------------------------
(* The steps                                                                  *)

LEMMA BeginIssueStep ==
    ASSUME TokenInv, NEW p \in Processes, NEW s \in Sessions, NEW l \in Lifetimes,
           BeginIssue(p, s, l)
    PROVE  TokenInv'
<1>1. [by |-> p, config |-> config[p], lifetime |-> l] \in Calls
  BY DEF TokenInv, TypeOK, Calls
<1>2. TypeOK'
  BY <1>1 DEF TokenInv, TypeOK, BeginIssue
<1> QED BY <1>2 DEF TokenInv, TypeOK, TokensMatch, SignedOnce, ReadingsFresh, Fresh,
                    Issued, Exp, BeginIssue

LEMMA SignStep ==
    ASSUME TokenInv, NEW s \in Sessions, Sign(s) PROVE TokenInv'
<1> DEFINE c == signing[s].config
           e == Expiration(IF signing[s].lifetime = Default THEN c.lifetime
                                                            ELSE signing[s].lifetime)
           tk == [secret |-> c.secret, algorithm |-> c.algorithm, exp |-> Exp(e)]
<1>1. /\ signing[s] # None
      /\ signing' = [signing EXCEPT ![s] = None]
      /\ token' = [token EXCEPT ![s] = tk]
      /\ told' = [told EXCEPT ![s] = e]
      /\ UNCHANGED <<now, config, frame, accepted>>
  BY DEF Sign
<1>2. signing[s] \in Calls /\ c \in Settings /\ signing[s].lifetime \in Lifetimes
  BY <1>1 DEF TokenInv, TypeOK, Calls
<1>3. e \in Int \cup {Never}
  <2> DEFINE l == IF signing[s].lifetime = Default THEN c.lifetime
                                                   ELSE signing[s].lifetime
  <2>1. l \in Int \cup {Never}
    BY <1>2, LifetimeAssumption
  <2>2. now \in Int
    BY DEF TokenInv, TypeOK
  <2> HIDE DEF l
  <2>3. Expiration(l) \in Int \cup {Never}
    BY <2>1, <2>2 DEF Expiration
  <2> QED BY <2>3 DEF l
<1>4. Exp(e) \in Int \cup {Never}
  BY <1>3, SecondAssumption, SMT DEF Exp
<1>5. ~Issued(s)
  BY <1>1 DEF TokenInv, SignedOnce
<1> HIDE DEF e
<1>6. tk \in Tokens
  BY <1>2, <1>4 DEF Tokens
<1>7. tk.exp = Exp(e)
  OBVIOUS
<1> HIDE DEF tk, c
<1>8. TypeOK'
  BY <1>1, <1>3, <1>6 DEF TokenInv, TypeOK
<1>9. TokensMatch'
  BY <1>1, <1>3, <1>7 DEF TokenInv, TypeOK, TokensMatch, Issued, Exp
<1>10. SignedOnce'
  BY <1>1 DEF TokenInv, TypeOK, SignedOnce, Issued
<1>11. \A a \in Readings : Fresh(a) => Fresh(a)'
  <2> SUFFICES ASSUME NEW a \in Readings, Fresh(a) PROVE Fresh(a)'
    OBVIOUS
  <2>1. a.session \in Sessions /\ a.session # s
    BY <1>5 DEF Fresh, Readings
  <2> QED BY <1>1, <2>1 DEF TokenInv, TypeOK, Fresh, Issued
<1> QED BY <1>1, <1>8, <1>9, <1>10, <1>11 DEF TokenInv, TypeOK, ReadingsFresh

LEMMA BeginValidateStep ==
    ASSUME TokenInv, NEW p \in Processes, NEW r \in Requests, NEW s \in Sessions,
           BeginValidate(p, r, s)
    PROVE  TokenInv'
<1> DEFINE a == Reading(p, s)
<1>1. /\ Issued(s) /\ Decodes(token[s], config[p])
      /\ frame' = [frame EXCEPT ![r] = a]
      /\ UNCHANGED <<now, config, signing, token, told, accepted>>
  BY DEF BeginValidate
<1>2. a \in Readings /\ a.session = s /\ a.at = now /\ a.secret = config[p].secret
  BY DEF TokenInv, TypeOK, Reading, Readings
<1>3. config[p] \in Settings /\ now \in Nat
  BY DEF TokenInv, TypeOK
<1>4. Fresh(a)
  BY <1>1, <1>2, <1>3, DecodesInTime DEF TokenInv, Fresh, Decodes
<1> HIDE DEF a
<1>5. TypeOK'
  BY <1>1, <1>2 DEF TokenInv, TypeOK
<1> QED BY <1>1, <1>4, <1>5 DEF TokenInv, TypeOK, TokensMatch, SignedOnce, ReadingsFresh,
                                Fresh, Issued, Exp

LEMMA EndValidateStep ==
    ASSUME TokenInv, NEW r \in Requests, EndValidate(r) PROVE TokenInv'
BY DEF TokenInv, TypeOK, TokensMatch, SignedOnce, ReadingsFresh, Fresh, Issued, Exp,
       EndValidate

LEMMA TickStep == ASSUME TokenInv, Tick PROVE TokenInv'
<1>1. now \in Nat /\ now' = now + 1 /\ UNCHANGED <<config, signing, token, told, frame, accepted>>
  BY DEF TokenInv, TypeOK, Tick
<1>2. \A a \in Readings : Fresh(a) => Fresh(a)'
  BY <1>1 DEF Fresh, Issued, Readings
<1>3. \A r \in Requests : frame[r] # None => frame[r] \in Readings
  BY DEF TokenInv, TypeOK
<1> QED BY <1>1, <1>2, <1>3 DEF TokenInv, TypeOK, TokensMatch, SignedOnce, ReadingsFresh,
                                Issued, Exp

LEMMA StepToken == TokenInv /\ [Next]_vars => TokenInv'
<1> SUFFICES ASSUME TokenInv, [Next]_vars PROVE TokenInv'
  OBVIOUS
<1> USE DEF TokenInv, TypeOK, TokensMatch, SignedOnce, ReadingsFresh, Fresh, Issued, Exp
<1>1. ASSUME NEW s \in Sessions, Fail(s) PROVE TokenInv'
  BY <1>1 DEF Fail
<1>2. ASSUME NEW p \in Processes, Configure(p) PROVE TokenInv'
  BY <1>2 DEF Configure
<1>3. ASSUME NEW p \in Processes, Restart(p) PROVE TokenInv'
  BY <1>3 DEF Restart
<1>4. CASE UNCHANGED vars
  BY <1>4 DEF vars
<1> QED
  BY <1>1, <1>2, <1>3, <1>4, BeginIssueStep, SignStep, BeginValidateStep, EndValidateStep,
     TickStep DEF Next

------------------------------------------------------------------------------
(* Theorems                                                                   *)

LEMMA TokenInvariant == Spec => []TokenInv
BY InitToken, StepToken, PTL DEF Spec

\* create_access_token and decode_jwt agree on when a token expires, up to the
\* second the token's exp is counted in: never early, never a second late.
THEOREM HonestExpiryHolds == Spec => []HonestExpiry
<1>1. TokenInv => HonestExpiry
  <2> SUFFICES ASSUME TokenInv, NEW s \in Sessions, NEW p \in Processes,
                      Readable(s, config[p])
               PROVE  /\ told[s] = Never => Decodes(token[s], config[p])
                      /\ told[s] # Never =>
                           /\ now <= told[s] => Decodes(token[s], config[p])
                           /\ Decodes(token[s], config[p]) => now < told[s] + Second
    BY DEF HonestExpiry
  <2>1. config[p] \in Settings
    BY DEF TokenInv, TypeOK
  <2> QED BY <2>1, DecodesInTime DEF TokenInv, Readable
<1> QED BY <1>1, TokenInvariant, PTL

\* No cache entry, restart or new configuration lets a validation that began too
\* late, or under another secret, end well.
THEOREM AcceptedInTimeHolds == Spec => []AcceptedInTime
<1>1. TokenInv => AcceptedInTime
  BY DEF TokenInv, ReadingsFresh, Fresh, AcceptedInTime
<1> QED BY <1>1, TokenInvariant, PTL

\* Clock, tokens and frames stay within their types, negative lifetimes and all:
\* an exp is a whole number of seconds, or none.
THEOREM TypeCorrect == Spec => []TypeOK
<1>1. TokenInv => TypeOK
  BY DEF TokenInv
<1> QED BY <1>1, TokenInvariant, PTL
=============================================================================
