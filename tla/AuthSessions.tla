---------------------------- MODULE AuthSessions ----------------------------
(* AuthService, TokenCache and the session table they share.                 *)
(*                                                                           *)
(* A session is the pair (user_id, nonce) that keys both its row and its     *)
(* cache entry.  Every process has one TokenCache, created empty; the table  *)
(* is common to all of them.  A task is one asyncio request handler: what it *)
(* does between two awaits of the database is one step, and frame[t] is what *)
(* it carries across an await.                                               *)
EXTENDS Integers

CONSTANTS
    Procs,      \* server processes, each with its TokenCache
    Tasks,      \* request handlers
    Host,       \* the process that runs each task
    Users,
    Sessions,   \* the (user_id, nonce) pairs issue_session may generate
    Owner,      \* the user of each session
    Blockable,  \* sessions whose row something outside the service deactivates
    Faulty,     \* whether database errors, cancellations and crashes happen
    NoSession   \* what a frame without a session holds

ASSUME HostAssumption == Host \in [Tasks -> Procs]

ASSUME OwnerAssumption == Owner \in [Sessions -> Users]

ASSUME NoSessionAssumption == NoSession \notin Sessions

VARIABLES
    row,      \* the session table: absent, live, blocked (is_active FALSE), deleted
    cache,    \* TokenCache._cache of each process: miss, yes (True), no (False)
    token,    \* sessions whose access token reached the user
    answer,   \* the last reply to a session's token since its row last changed
    revoked,  \* sessions the service reported as dropped
    frame     \* what each task carries across its awaits

vars == <<row, cache, token, answer, revoked, frame>>

Points == {"idle", "refresh", "publish", "touch", "lookup", "fill",
           "select", "delete", "forget"}

Frames == [at : Points, key : Sessions \cup {NoSession}, seen : BOOLEAN,
           todo : SUBSET Sessions, goal : SUBSET Sessions]

Idle == [at |-> "idle", key |-> NoSession, seen |-> FALSE,
         todo |-> {}, goal |-> {}]

Begin(at, s) == [Idle EXCEPT !.at = at, !.key = s]

Live(s) == row[s] = "live"

\* The rows no code path turns live again.
Dead(s) == row[s] \in {"blocked", "deleted"}

Init ==
    /\ row = [s \in Sessions |-> "absent"]
    /\ cache = [p \in Procs |-> [s \in Sessions |-> "miss"]]
    /\ token = {}
    /\ answer = [s \in Sessions |-> "none"]
    /\ revoked = {}
    /\ frame = [t \in Tasks |-> Idle]

Goto(t, f) == frame' = [frame EXCEPT ![t] = f]

Advance(t, at) == Goto(t, [frame[t] EXCEPT !.at = at])

At(t, at) == frame[t].at = at

\* TokenCache.update and the assignments to _cache of the process of t.
Cache(t, s, entry) == cache' = [cache EXCEPT ![Host[t]][s] = entry]

\* Variant of Entry: the row's status is stored in place of the flag.
EntryOfStatus(active) == IF active THEN "live" ELSE "no"

Entry(active) == IF active THEN "yes" ELSE "no"

Reply(s, verdict) == answer' = [answer EXCEPT ![s] = verdict]

------------------------------------------------------------------------------
(* issue_session                                                             *)

\* Variant of IssueInsert: the nonce may be one that was used before.
IssueInsertReusing(t, s) ==
    /\ At(t, "idle")
    /\ row[s] \in {"absent", "deleted"}
    /\ row' = [row EXCEPT ![s] = "live"]
    /\ Goto(t, Begin("refresh", s))
    /\ UNCHANGED <<cache, token, answer, revoked>>

\* The row is added and committed.  The nonce is fresh, and the foreign key
\* failure that ends in NotFoundError leaves no trace.
IssueInsert(t, s) ==
    /\ At(t, "idle")
    /\ row[s] = "absent"
    /\ row' = [row EXCEPT ![s] = "live"]
    /\ Goto(t, Begin("refresh", s))
    /\ UNCHANGED <<cache, token, answer, revoked>>

\* create refreshes the instance from its row after the commit, which raises
\* when the row is gone.
Refresh(t) ==
    LET s == frame[t].key IN
    /\ At(t, "refresh")
    /\ \/ /\ row[s] = "deleted"
          /\ Goto(t, Idle)
       \/ /\ row[s] # "deleted"
          /\ Goto(t, [frame[t] EXCEPT !.at = "publish", !.seen = Live(s)])
    /\ UNCHANGED <<row, cache, token, answer, revoked>>

\* Back in issue_session, the refreshed instance goes into the cache.
Publish(t) ==
    /\ At(t, "publish")
    /\ Cache(t, frame[t].key, Entry(frame[t].seen))
    /\ Advance(t, "touch")
    /\ UNCHANGED <<row, token, answer, revoked>>

\* last_authorized_at is saved and the token returned.
Deliver(t) ==
    /\ At(t, "touch")
    /\ token' = token \cup {frame[t].key}
    /\ Goto(t, Idle)
    /\ UNCHANGED <<row, cache, answer, revoked>>

------------------------------------------------------------------------------
(* is_record_id_allowed, for a token the user holds                          *)

ValidateHit(t, s) ==
    /\ At(t, "idle")
    /\ s \in token
    /\ cache[Host[t]][s] # "miss"
    /\ Reply(s, IF cache[Host[t]][s] = "yes" THEN "allow" ELSE "deny")
    /\ UNCHANGED <<row, cache, token, revoked, frame>>

ValidateMiss(t, s) ==
    /\ At(t, "idle")
    /\ s \in token
    /\ cache[Host[t]][s] = "miss"
    /\ Goto(t, Begin("lookup", s))
    /\ UNCHANGED <<row, cache, token, answer, revoked>>

\* Variant of Lookup: the query forgets is_active.
LookupAny(t) ==
    /\ At(t, "lookup")
    /\ Goto(t, [frame[t] EXCEPT !.at = "fill",
                                !.seen = row[frame[t].key] \in {"live", "blocked"}])
    /\ UNCHANGED <<row, cache, token, answer, revoked>>

\* find_session only returns an active row.
Lookup(t) ==
    /\ At(t, "lookup")
    /\ Goto(t, [frame[t] EXCEPT !.at = "fill", !.seen = Live(frame[t].key)])
    /\ UNCHANGED <<row, cache, token, answer, revoked>>

\* What was read goes into the cache, whatever happened to the row since, and
\* is the reply.
Fill(t) ==
    LET s == frame[t].key IN
    /\ At(t, "fill")
    /\ Cache(t, s, Entry(frame[t].seen))
    /\ Reply(s, IF frame[t].seen THEN "allow" ELSE "deny")
    /\ Goto(t, Idle)
    /\ UNCHANGED <<row, token, revoked>>

------------------------------------------------------------------------------
(* drop_session and drop_user_sessions                                       *)

\* drop_session finds the session; NotFoundError otherwise.
FindSession(t, s) ==
    /\ At(t, "idle")
    /\ s \in token
    /\ Live(s)
    /\ Goto(t, [Begin("select", s) EXCEPT !.goal = {s}])
    /\ UNCHANGED <<row, cache, token, answer, revoked>>

\* Variant of ListSessions: only the first row of the result is taken.
ListFirstSession(t, u) ==
    LET found == {s \in Sessions : Owner[s] = u /\ Live(s)}
        held  == {s \in token : Owner[s] = u}
    IN
    /\ At(t, "idle")
    /\ \E s \in found : Goto(t, [Begin("select", s) EXCEPT !.goal = held])
    /\ UNCHANGED <<row, cache, token, answer, revoked>>

\* find_user_sessions lists the active rows of the user, in no fixed order.
\* The goal is every token the user held when the call was made.
ListSessions(t, u) ==
    LET found == {s \in Sessions : Owner[s] = u /\ Live(s)}
        held  == {s \in token : Owner[s] = u}
    IN
    /\ At(t, "idle")
    /\ \/ /\ found = {}
          /\ revoked' = revoked \cup held
          /\ UNCHANGED frame
       \/ /\ \E s \in found :
               Goto(t, [Begin("select", s) EXCEPT !.todo = found \ {s}, !.goal = held])
          /\ UNCHANGED revoked
    /\ UNCHANGED <<row, cache, token, answer>>

\* Variant of SelectRow: the entry becomes False before the row is deleted.
SelectRowDenying(t) ==
    /\ At(t, "select")
    /\ row[frame[t].key] # "deleted"
    /\ Cache(t, frame[t].key, "no")
    /\ Advance(t, "delete")
    /\ UNCHANGED <<row, token, answer, revoked>>

\* Variant of SelectRow: a row that is gone is looked for again.
SelectRowRetrying(t) ==
    /\ At(t, "select")
    /\ row[frame[t].key] # "deleted"
    /\ Advance(t, "delete")
    /\ UNCHANGED <<row, cache, token, answer, revoked>>

\* delete_by_id reads the row by its id first; NotFoundError ends the whole call.
SelectRow(t) ==
    /\ At(t, "select")
    /\ \/ /\ row[frame[t].key] = "deleted"
          /\ Goto(t, Idle)
       \/ /\ row[frame[t].key] # "deleted"
          /\ Advance(t, "delete")
    /\ UNCHANGED <<row, cache, token, answer, revoked>>

\* The DELETE and its commit; of a row already gone it only warns.
DeleteRow(t) ==
    LET s == frame[t].key IN
    /\ At(t, "delete")
    /\ row' = [row EXCEPT ![s] = "deleted"]
    /\ answer' = [answer EXCEPT ![s] = IF Live(s) THEN "none" ELSE @]
    /\ Advance(t, "forget")
    /\ UNCHANGED <<cache, token, revoked>>

\* Variant of Forget: the loop ends after its first session.
ForgetFirst(t) ==
    /\ At(t, "forget")
    /\ Cache(t, frame[t].key, "miss")
    /\ revoked' = revoked \cup frame[t].goal
    /\ Goto(t, Idle)
    /\ UNCHANGED <<row, token, answer>>

\* The entry leaves the cache of this process; the loop takes the next session
\* or the call returns.
Forget(t) ==
    /\ At(t, "forget")
    /\ Cache(t, frame[t].key, "miss")
    /\ \/ /\ frame[t].todo = {}
          /\ revoked' = revoked \cup frame[t].goal
          /\ Goto(t, Idle)
       \/ /\ \E s \in frame[t].todo :
               Goto(t, [frame[t] EXCEPT !.at = "select", !.key = s, !.todo = @ \ {s}])
          /\ UNCHANGED revoked
    /\ UNCHANGED <<row, token, answer>>

------------------------------------------------------------------------------
(* drop_cache, and what happens around the service                           *)

DropCache(p) ==
    /\ cache' = [cache EXCEPT ![p] = [s \in Sessions |-> "miss"]]
    /\ UNCHANGED <<row, token, answer, revoked, frame>>

\* Code outside the service clears is_active in the row.
Block(s) ==
    /\ s \in Blockable
    /\ Live(s)
    /\ row' = [row EXCEPT ![s] = "blocked"]
    /\ answer' = [answer EXCEPT ![s] = "none"]
    /\ UNCHANGED <<cache, token, revoked, frame>>

\* A database error or a cancellation ends a call wherever it awaits.
Abort(t) ==
    /\ Faulty
    /\ ~At(t, "idle")
    /\ Goto(t, Idle)
    /\ UNCHANGED <<row, cache, token, answer, revoked>>

\* The process stops and starts again: its cache and its calls are lost.
Crash(p) ==
    /\ Faulty
    /\ cache' = [cache EXCEPT ![p] = [s \in Sessions |-> "miss"]]
    /\ frame' = [t \in Tasks |-> IF Host[t] = p THEN Idle ELSE frame[t]]
    /\ UNCHANGED <<row, token, answer, revoked>>

------------------------------------------------------------------------------
\* The steps by which a call under way goes on.
Proceed(t) ==
    \/ Refresh(t) \/ Publish(t) \/ Deliver(t)
    \/ Lookup(t) \/ Fill(t)
    \/ SelectRow(t) \/ DeleteRow(t) \/ Forget(t)

Start(t) ==
    \/ \E s \in Sessions :
          \/ IssueInsert(t, s)
          \/ ValidateHit(t, s) \/ ValidateMiss(t, s)
          \/ FindSession(t, s)
    \/ \E u \in Users : ListSessions(t, u)

Around ==
    \/ \E p \in Procs : DropCache(p) \/ Crash(p)
    \/ \E s \in Sessions : Block(s)
    \/ \E t \in Tasks : Abort(t)

Next == (\E t \in Tasks : Start(t) \/ Proceed(t)) \/ Around

Spec == Init /\ [][Next]_vars

\* The event loop resumes a task whose await is over, and the database answers.
FairSpec == Spec /\ \A t \in Tasks : WF_vars(Proceed(t))

------------------------------------------------------------------------------
(* Properties                                                                *)

TypeOK ==
    /\ row \in [Sessions -> {"absent", "live", "blocked", "deleted"}]
    /\ cache \in [Procs -> [Sessions -> {"miss", "yes", "no"}]]
    /\ token \subseteq Sessions
    /\ answer \in [Sessions -> {"none", "allow", "deny"}]
    /\ revoked \subseteq Sessions
    /\ frame \in [Tasks -> Frames]
    /\ \A t \in Tasks : ~At(t, "idle") => frame[t].key \in Sessions

\* What the steps of all the tasks keep together: a session that is known
\* anywhere has a row, what is recorded as inactive is dead, and every token a
\* logout still has to revoke is on its list.
TokensExist == \A s \in token : row[s] # "absent"

NoEntriesAreDead ==
    \A p \in Procs, s \in Sessions : cache[p][s] = "no" => Dead(s)

FrameOK(t) ==
    LET f == frame[t] IN
    /\ f.at # "idle" => row[f.key] # "absent"
    /\ f.at = "forget" => row[f.key] = "deleted"
    /\ f.at \in {"publish", "fill"} /\ ~f.seen => Dead(f.key)
    /\ \A s \in f.todo : row[s] # "absent"
    /\ \A s \in f.goal : Dead(s) \/ s \in f.todo \cup {f.key}
    /\ f.todo \cup f.goal # {} => f.at \in {"select", "delete", "forget"}

FramesOK == \A t \in Tasks : FrameOK(t)

\* A token is refused only once its session is blocked or deleted, however
\* validations, sign-ins and logouts of any number of processes interleave.
NoFalseDenial == \A s \in Sessions : answer[s] = "deny" => Dead(s)

\* When drop_session or drop_user_sessions returns, every session it was asked
\* to end is dead in the table, for good, whoever else was deleting them.
RevokedRowsDead == \A s \in revoked : Dead(s)

\* The inductive invariant behind both.
IInv ==
    /\ TypeOK
    /\ TokensExist
    /\ NoEntriesAreDead
    /\ FramesOK
    /\ NoFalseDenial
    /\ RevokedRowsDead

\* A session accepted nowhere: its row is dead, the cache of the process does
\* not accept it and no task of the process is about to cache that it does.
Settled(p, s) ==
    /\ Dead(s)
    /\ cache[p][s] # "yes"
    /\ \A t \in Tasks :
         Host[t] = p /\ frame[t].key = s /\ frame[t].at \in {"publish", "fill"}
            => ~frame[t].seen

\* A dead session is only ever accepted from what was read before it died: a
\* process that holds no such reading, cached or in flight, never accepts it again.
RevocationFinal ==
    [][\A p \in Procs, s \in Sessions : Settled(p, s) => Settled(p, s)']_vars

\* Every call returns or raises, the logout that loops over rows other calls
\* are deleting included.
Termination == \A t \in Tasks : ~At(t, "idle") ~> At(t, "idle")

\* The service as its users see it.
Phase(s) == IF Live(s) THEN "open" ELSE IF Dead(s) THEN "closed" ELSE "absent"

Ledger == INSTANCE SessionLedger
    WITH phase <- [s \in Sessions |-> Phase(s)], verdict <- answer

\* issue_session, is_record_id_allowed and the two drops implement the ledger:
\* a session opens once and closes once, and no open session is refused.
ImplementsLedger == Ledger!Spec


\* A logout leaves a token of its user alive only where it was cut off, or where
\* another call had deleted the row it came to next: no interleaving with
\* sign-ins, validations and other drops makes it miss a session and return.
LogoutStoppedByAnother ==
    [][\A t \in Tasks :
         At(t, "idle")' /\ (\E s \in frame[t].goal : ~Dead(s)) =>
           \/ Abort(t) \/ \E p \in Procs : Crash(p)
           \/ At(t, "select") /\ row[frame[t].key] = "deleted"]_vars

\* Whenever drop_user_sessions ends, by returning or by raising, every token the
\* user held when it was called is dead.
LogoutEndsAll ==
    [][\A t \in Tasks :
         At(t, "idle")' => \A s \in frame[t].goal : Dead(s)']_vars
==============================================================================
