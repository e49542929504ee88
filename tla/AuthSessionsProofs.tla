------------------------- MODULE AuthSessionsProofs -------------------------
(* Theorems of AuthSessions for any number of processes, tasks, users and    *)
(* sessions.  TLC checked each formula on small instances first.             *)
EXTENDS AuthSessions, FiniteSetTheorems, TLAPS

USE HostAssumption, OwnerAssumption, NoSessionAssumption

(* The values the steps of a call write into its frame are frames. *)
LEMMA FrameTypes ==
    /\ Idle \in Frames
    /\ \A at \in Points, s \in Sessions : Begin(at, s) \in Frames
    /\ \A at \in Points, s \in Sessions, goal \in SUBSET Sessions :
         [Begin(at, s) EXCEPT !.goal = goal] \in Frames
    /\ \A at \in Points, s \in Sessions, todo, goal \in SUBSET Sessions :
         [Begin(at, s) EXCEPT !.todo = todo, !.goal = goal] \in Frames
    /\ \A f \in Frames, at \in Points : [f EXCEPT !.at = at] \in Frames
    /\ \A f \in Frames, at \in Points, seen \in BOOLEAN :
         [f EXCEPT !.at = at, !.seen = seen] \in Frames
    /\ \A f \in Frames, at \in Points, s \in Sessions, todo \in SUBSET Sessions :
         [f EXCEPT !.at = at, !.key = s, !.todo = todo] \in Frames
BY DEF Idle, Begin, Frames, Points

(* A step that moves one task keeps the type of all the frames. *)
LEMMA GotoType ==
    ASSUME TypeOK, NEW t \in Tasks, NEW f \in Frames, Goto(t, f),
           f.at # "idle" => f.key \in Sessions
    PROVE  /\ frame' \in [Tasks -> Frames]
           /\ \A r \in Tasks : ~At(r, "idle")' => frame'[r].key \in Sessions
BY DEF TypeOK, Goto, At

(* A step that writes one entry keeps the type of all the caches. *)
LEMMA CacheType ==
    ASSUME TypeOK, NEW t \in Tasks, NEW s \in Sessions, NEW e \in {"miss", "yes", "no"},
           Cache(t, s, e)
    PROVE  cache' \in [Procs -> [Sessions -> {"miss", "yes", "no"}]]
BY DEF TypeOK, Cache

(* Every step keeps the type invariant. *)
LEMMA TypeStep == TypeOK /\ [Next]_vars => TypeOK'
<1> SUFFICES ASSUME TypeOK, [Next]_vars PROVE TypeOK'
  OBVIOUS
<1>1. ASSUME NEW t \in Tasks, NEW s \in Sessions, IssueInsert(t, s) PROVE TypeOK'
  BY <1>1, FrameTypes, GotoType DEF IssueInsert, TypeOK, Points, Begin, Idle
<1>2. ASSUME NEW t \in Tasks, Refresh(t) PROVE TypeOK'
  <2>1. frame[t] \in Frames /\ frame[t].key \in Sessions
    BY <1>2 DEF Refresh, TypeOK, At
  <2>2. CASE Goto(t, Idle)
    BY <1>2, <2>2, FrameTypes, GotoType DEF Refresh, TypeOK, Idle
  <2>3. CASE Goto(t, [frame[t] EXCEPT !.at = "publish", !.seen = Live(frame[t].key)])
    <3> DEFINE f == [frame[t] EXCEPT !.at = "publish", !.seen = Live(frame[t].key)]
    <3>1. f \in Frames /\ f.key \in Sessions
      BY <2>1 DEF Points, Live, Frames
    <3> QED
      BY <1>2, <2>3, <3>1, GotoType DEF Refresh, TypeOK
  <2> QED
    BY <1>2, <2>2, <2>3 DEF Refresh
<1>3. ASSUME NEW t \in Tasks, Publish(t) PROVE TypeOK'
  <2>1. frame[t] \in Frames /\ frame[t].key \in Sessions
    BY <1>3 DEF Publish, TypeOK, At
  <2>2. Entry(frame[t].seen) \in {"miss", "yes", "no"}
    BY DEF Entry
  <2>3. cache' \in [Procs -> [Sessions -> {"miss", "yes", "no"}]]
    BY <1>3, <2>1, <2>2, CacheType DEF Publish
  <2> DEFINE f == [frame[t] EXCEPT !.at = "touch"]
  <2>4. f \in Frames /\ f.key \in Sessions
    BY <2>1 DEF Points, Frames
  <2> QED
    BY <1>3, <2>3, <2>4, GotoType DEF Publish, TypeOK, Advance
<1>4. ASSUME NEW t \in Tasks, Deliver(t) PROVE TypeOK'
  BY <1>4, FrameTypes, GotoType DEF Deliver, TypeOK, Idle, At
<1>5. ASSUME NEW t \in Tasks, NEW s \in Sessions, ValidateHit(t, s) PROVE TypeOK'
  BY <1>5 DEF ValidateHit, TypeOK, Reply, At
<1>6. ASSUME NEW t \in Tasks, NEW s \in Sessions, ValidateMiss(t, s) PROVE TypeOK'
  BY <1>6, FrameTypes, GotoType DEF ValidateMiss, TypeOK, Points, Begin, Idle
<1>7. ASSUME NEW t \in Tasks, Lookup(t) PROVE TypeOK'
  <2>1. frame[t] \in Frames /\ frame[t].key \in Sessions
    BY <1>7 DEF Lookup, TypeOK, At
  <2> DEFINE f == [frame[t] EXCEPT !.at = "fill", !.seen = Live(frame[t].key)]
  <2>2. f \in Frames /\ f.key \in Sessions
    BY <2>1 DEF Points, Live, Frames
  <2> QED
    BY <1>7, <2>2, GotoType DEF Lookup, TypeOK
<1>8. ASSUME NEW t \in Tasks, Fill(t) PROVE TypeOK'
  <2>1. frame[t].key \in Sessions
    BY <1>8 DEF Fill, TypeOK, At
  <2>2. Entry(frame[t].seen) \in {"miss", "yes", "no"}
    BY DEF Entry
  <2>3. cache' \in [Procs -> [Sessions -> {"miss", "yes", "no"}]]
    BY <1>8, <2>1, <2>2, CacheType DEF Fill
  <2> QED
    BY <1>8, <2>1, <2>3, FrameTypes, GotoType DEF Fill, TypeOK, Reply, Idle
<1>9. ASSUME NEW t \in Tasks, NEW s \in Sessions, FindSession(t, s) PROVE TypeOK'
  <2> DEFINE f == [Begin("select", s) EXCEPT !.goal = {s}]
  <2>1. f \in Frames /\ f.key \in Sessions
    BY DEF Points, Begin, Idle, Frames
  <2> QED
    BY <1>9, <2>1, GotoType DEF FindSession, TypeOK
<1>10. ASSUME NEW t \in Tasks, NEW u \in Users, ListSessions(t, u) PROVE TypeOK'
  <2> DEFINE found == {s \in Sessions : Owner[s] = u /\ Live(s)}
             held  == {s \in token : Owner[s] = u}
  <2>1. CASE UNCHANGED frame
    BY <1>10, <2>1 DEF ListSessions, TypeOK, At
  <2>2. ASSUME NEW s \in found,
               Goto(t, [Begin("select", s) EXCEPT !.todo = found \ {s}, !.goal = held]),
               revoked' = revoked
        PROVE  TypeOK'
    <3> DEFINE f == [Begin("select", s) EXCEPT !.todo = found \ {s}, !.goal = held]
    <3>1. f \in Frames /\ f.key \in Sessions
      BY FrameTypes DEF Points, Begin, Idle, TypeOK
    <3> QED
      BY <1>10, <2>2, <3>1, GotoType DEF ListSessions, TypeOK
  <2> QED
    BY <1>10, <2>1, <2>2 DEF ListSessions
<1>11. ASSUME NEW t \in Tasks, SelectRow(t) PROVE TypeOK'
  <2>1. frame[t] \in Frames /\ frame[t].key \in Sessions
    BY <1>11 DEF SelectRow, TypeOK, At
  <2> DEFINE f == [frame[t] EXCEPT !.at = "delete"]
  <2>2. f \in Frames /\ f.key \in Sessions
    BY <2>1 DEF Points, Frames
  <2>3. CASE Goto(t, Idle)
    BY <1>11, <2>3, FrameTypes, GotoType DEF SelectRow, TypeOK, Idle
  <2>4. CASE Advance(t, "delete")
    BY <1>11, <2>2, <2>4, GotoType DEF SelectRow, TypeOK, Advance
  <2> QED
    BY <1>11, <2>3, <2>4 DEF SelectRow
<1>12. ASSUME NEW t \in Tasks, DeleteRow(t) PROVE TypeOK'
  <2>1. frame[t] \in Frames /\ frame[t].key \in Sessions
    BY <1>12 DEF DeleteRow, TypeOK, At
  <2> DEFINE f == [frame[t] EXCEPT !.at = "forget"]
  <2>2. f \in Frames /\ f.key \in Sessions
    BY <2>1 DEF Points, Frames
  <2>3. row' \in [Sessions -> {"absent", "live", "blocked", "deleted"}]
    BY <1>12 DEF DeleteRow, TypeOK
  <2>4. answer' \in [Sessions -> {"none", "allow", "deny"}]
    BY <1>12 DEF DeleteRow, TypeOK
  <2> QED
    BY <1>12, <2>2, <2>3, <2>4, GotoType DEF DeleteRow, TypeOK, Advance
<1>13. ASSUME NEW t \in Tasks, Forget(t) PROVE TypeOK'
  <2>1. frame[t] \in Frames /\ frame[t].key \in Sessions
    BY <1>13 DEF Forget, TypeOK, At
  <2>2. cache' \in [Procs -> [Sessions -> {"miss", "yes", "no"}]]
    BY <1>13, <2>1, CacheType DEF Forget
  <2>3. CASE revoked' = revoked \cup frame[t].goal /\ Goto(t, Idle)
    <3>1. revoked' \subseteq Sessions
      BY <2>1, <2>3 DEF TypeOK, Frames
    <3> QED
      BY <1>13, <2>2, <2>3, <3>1, FrameTypes, GotoType DEF Forget, TypeOK, Idle
  <2>4. ASSUME NEW s \in frame[t].todo, revoked' = revoked,
               Goto(t, [frame[t] EXCEPT !.at = "select", !.key = s, !.todo = @ \ {s}])
        PROVE  TypeOK'
    <3> DEFINE f == [frame[t] EXCEPT !.at = "select", !.key = s, !.todo = @ \ {s}]
    <3>1. f \in Frames /\ f.key \in Sessions
      BY <2>1 DEF Points, Frames
    <3> QED
      BY <1>13, <2>2, <2>4, <3>1, GotoType DEF Forget, TypeOK
  <2> QED
    BY <1>13, <2>3, <2>4 DEF Forget
<1>14. ASSUME NEW p \in Procs, DropCache(p) PROVE TypeOK'
  BY <1>14 DEF DropCache, TypeOK, At
<1>15. ASSUME NEW p \in Procs, Crash(p) PROVE TypeOK'
  BY <1>15, FrameTypes DEF Crash, TypeOK, At, Idle
<1>16. ASSUME NEW s \in Sessions, Block(s) PROVE TypeOK'
  BY <1>16 DEF Block, TypeOK, At
<1>17. ASSUME NEW t \in Tasks, Abort(t) PROVE TypeOK'
  BY <1>17, FrameTypes, GotoType DEF Abort, TypeOK, Idle
<1>18. CASE UNCHANGED vars
  BY <1>18 DEF vars, TypeOK, At
<1> QED
  BY <1>1, <1>2, <1>3, <1>4, <1>5, <1>6, <1>7, <1>8, <1>9, <1>10, <1>11, <1>12,
     <1>13, <1>14, <1>15, <1>16, <1>17, <1>18
  DEF Next, Start, Proceed, Around

(* The initial state is well typed. *)
LEMMA InitTypes == Init => TypeOK
<1>1. Idle \in Frames /\ Idle.at = "idle"
  BY FrameTypes DEF Idle
<1> QED
  BY <1>1 DEF Init, TypeOK, At

(* Every reachable state is well typed. *)
THEOREM TypeCorrect == Spec => []TypeOK
BY InitTypes, TypeStep, PTL DEF Spec

------------------------------------------------------------------------------
(* A row never turns absent or live again, and a deleted one stays deleted. *)
RowsAge ==
    \A s \in Sessions :
        /\ row[s] # "absent" => row'[s] # "absent"
        /\ Dead(s) => Dead(s)'
        /\ row[s] = "deleted" => row'[s] = "deleted"

LEMMA RowsOnlyAge == TypeOK /\ [Next]_vars => RowsAge
<1> SUFFICES ASSUME TypeOK, [Next]_vars PROVE RowsAge
  OBVIOUS
<1>1. CASE row' = row
  BY <1>1 DEF RowsAge, Dead
<1>2. ASSUME NEW t \in Tasks, NEW s \in Sessions, IssueInsert(t, s) PROVE RowsAge
  BY <1>2 DEF RowsAge, Dead, TypeOK, IssueInsert
<1>3. ASSUME NEW t \in Tasks, DeleteRow(t) PROVE RowsAge
  BY <1>3 DEF RowsAge, Dead, TypeOK, DeleteRow
<1>4. ASSUME NEW s \in Sessions, Block(s) PROVE RowsAge
  BY <1>4 DEF RowsAge, Dead, TypeOK, Block, Live
<1> QED
  BY <1>1, <1>2, <1>3, <1>4
  DEF Next, Start, Proceed, Around, vars, Refresh, Publish, Deliver, ValidateHit,
      ValidateMiss, Lookup, Fill, FindSession, ListSessions, SelectRow, Forget,
      DropCache, Abort, Crash

(* Only its own steps and what ends a call from outside move a task. *)
LEMMA FrameMoves ==
    ASSUME TypeOK, [Next]_vars, NEW t \in Tasks, frame'[t] # frame[t]
    PROVE  Start(t) \/ Proceed(t) \/ (Faulty /\ frame'[t] = Idle)
<1>1. /\ frame' # frame
      /\ \A f : \A r \in Tasks : Goto(r, f) => \A u \in Tasks \ {r} : frame'[u] = frame[u]
  BY DEF TypeOK, Goto
<1>2. ASSUME NEW r \in Tasks, r # t, Proceed(r) \/ Start(r) PROVE FALSE
  <2>1. \A f : ~Goto(r, f)
    BY <1>1, <1>2
  <2> QED
    BY <1>1, <1>2, <2>1
    DEF Start, Proceed, IssueInsert, Refresh, Publish, Deliver, ValidateHit,
        ValidateMiss, Lookup, Fill, FindSession, ListSessions, SelectRow, DeleteRow, Forget,
        Advance
<1>3. ASSUME NEW r \in Tasks, Abort(r) PROVE Faulty /\ frame'[t] = Idle
  BY <1>1, <1>3 DEF Abort, Goto, TypeOK
<1>4. ASSUME NEW p \in Procs, Crash(p) PROVE Faulty /\ frame'[t] = Idle
  BY <1>4 DEF Crash
<1> QED
  BY <1>1, <1>2, <1>3, <1>4 DEF Next, Around, DropCache, Block, vars

(* What holds of a frame goes on holding while the task does not move. *)
LEMMA FrameKept ==
    ASSUME TypeOK, RowsAge, NEW t \in Tasks, FrameOK(t), frame'[t] = frame[t]
    PROVE  FrameOK(t)'
<1>1. frame[t] \in Frames /\ (frame[t].at # "idle" => frame[t].key \in Sessions)
  BY DEF TypeOK, At
<1>2. frame[t].todo \subseteq Sessions /\ frame[t].goal \subseteq Sessions
  BY <1>1 DEF Frames
<1> QED
  BY <1>1, <1>2 DEF FrameOK, RowsAge, Dead

LEMMA IdleOK ==
    ASSUME NEW t \in Tasks, frame'[t] = Idle
    PROVE  FrameOK(t)'
BY DEF FrameOK, Idle

(* A step that moves one task keeps all frames in order when it does that one. *)
LEMMA FramesKept ==
    ASSUME TypeOK, RowsAge, FramesOK, NEW t \in Tasks, NEW f, Goto(t, f),
           frame'[t] = f => FrameOK(t)'
    PROVE  FramesOK'
<1>1. frame'[t] = f /\ \A r \in Tasks \ {t} : frame'[r] = frame[r]
  BY DEF Goto, TypeOK
<1> QED
  BY <1>1, FrameKept DEF FramesOK

(* A step that leaves the frames alone keeps them in order. *)
LEMMA FramesUntouched ==
    ASSUME TypeOK, RowsAge, FramesOK, frame' = frame
    PROVE  FramesOK'
BY FrameKept DEF FramesOK

(* The parts of the invariant about what is kept outside the frames. *)
StoresOK == TokensExist /\ NoEntriesAreDead /\ NoFalseDenial /\ RevokedRowsDead

(* A step that adds no token, no entry, no reply and no revocation keeps them. *)
LEMMA StoresKept ==
    ASSUME TypeOK, TypeOK', RowsAge, StoresOK,
           token' \subseteq token,
           \A p \in Procs, s \in Sessions : cache'[p][s] = "no" => cache[p][s] = "no",
           \A s \in Sessions : answer'[s] = "deny" => answer[s] = "deny",
           revoked' \subseteq revoked
    PROVE  StoresOK'
<1>1. token \subseteq Sessions /\ revoked \subseteq Sessions
  BY DEF TypeOK
<1> QED
  BY <1>1 DEF StoresOK, TokensExist, NoEntriesAreDead, NoFalseDenial, RevokedRowsDead, RowsAge

(* The invariant of the concurrent service is inductive. *)
LEMMA InvariantStep == IInv /\ [Next]_vars => IInv'
<1> SUFFICES ASSUME IInv, [Next]_vars PROVE IInv'
  OBVIOUS
<1>a. TypeOK /\ TypeOK' /\ RowsAge /\ FramesOK /\ StoresOK
  BY TypeStep, RowsOnlyAge DEF IInv, StoresOK
<1> SUFFICES FramesOK' /\ StoresOK'
  BY <1>a DEF IInv, StoresOK
<1>b. \A t \in Tasks : /\ FrameOK(t)
                       /\ frame[t] \in Frames
                       /\ frame[t].at # "idle" => frame[t].key \in Sessions
  BY <1>a DEF FramesOK, TypeOK, At
<1>c. \A t \in Tasks : frame'[t] = Idle => FrameOK(t)'
  BY IdleOK
<1>1. ASSUME NEW t \in Tasks, NEW s \in Sessions, IssueInsert(t, s)
      PROVE  FramesOK' /\ StoresOK'
  <2>1. frame'[t] = Begin("refresh", s) => FrameOK(t)'
    BY <1>1, <1>a DEF IssueInsert, FrameOK, Begin, Idle, TypeOK
  <2>2. FramesOK'
    BY <1>1, <1>a, <2>1, FramesKept DEF IssueInsert
  <2>3. StoresOK'
    BY <1>1, <1>a, StoresKept DEF IssueInsert
  <2> QED
    BY <2>2, <2>3
<1>2. ASSUME NEW t \in Tasks, Refresh(t) PROVE FramesOK' /\ StoresOK'
  <2> DEFINE f == [frame[t] EXCEPT !.at = "publish", !.seen = Live(frame[t].key)]
  <2>1. row' = row /\ frame[t].at = "refresh"
    BY <1>2 DEF Refresh, At
  <2>2. ASSUME row[frame[t].key] # "deleted", Goto(t, f) PROVE FramesOK'
    <3>1. ~Live(frame[t].key) => Dead(frame[t].key)
      BY <1>a, <1>b, <2>1 DEF TypeOK, Live, Dead, FrameOK
    <3>2. frame'[t] = f => FrameOK(t)'
      BY <1>b, <2>1, <3>1 DEF FrameOK, Frames, Dead
    <3> QED
      BY <1>a, <2>2, <3>2, FramesKept
  <2>3. ASSUME Goto(t, Idle) PROVE FramesOK'
    BY <1>a, <1>c, <2>3, FramesKept
  <2>4. FramesOK'
    BY <1>2, <2>2, <2>3 DEF Refresh
  <2>5. StoresOK'
    BY <1>2, <1>a, StoresKept DEF Refresh
  <2> QED
    BY <2>4, <2>5
<1>3. ASSUME NEW t \in Tasks, Publish(t) PROVE FramesOK' /\ StoresOK'
  <2> DEFINE k == frame[t].key
  <2>1. row' = row /\ frame[t].at = "publish" /\ k \in Sessions
    BY <1>3, <1>b DEF Publish, At
  <2>2. frame'[t] = [frame[t] EXCEPT !.at = "touch"] => FrameOK(t)'
    BY <1>b, <2>1 DEF FrameOK, Frames, Dead
  <2>3. FramesOK'
    BY <1>3, <1>a, <2>2, FramesKept DEF Publish, Advance
  <2>4. \A p \in Procs, s \in Sessions :
          cache'[p][s] = "no" => cache[p][s] = "no" \/ (s = k /\ ~frame[t].seen)
    BY <1>3, <1>a, <2>1 DEF Publish, Cache, Entry, TypeOK
  <2>5. ~frame[t].seen => Dead(k)
    BY <1>b, <2>1 DEF FrameOK
  <2>6. StoresOK'
    BY <1>3, <1>a, <2>1, <2>4, <2>5
    DEF Publish, StoresOK, TokensExist, NoEntriesAreDead, NoFalseDenial, RevokedRowsDead, Dead
  <2> QED
    BY <2>3, <2>6
<1>4. ASSUME NEW t \in Tasks, Deliver(t) PROVE FramesOK' /\ StoresOK'
  <2>1. FramesOK'
    BY <1>4, <1>a, <1>c, FramesKept DEF Deliver
  <2>2. row' = row /\ row[frame[t].key] # "absent"
    BY <1>4, <1>b DEF Deliver, FrameOK, At
  <2>3. StoresOK'
    BY <1>4, <1>a, <2>2
    DEF Deliver, StoresOK, TokensExist, NoEntriesAreDead, NoFalseDenial, RevokedRowsDead, Dead
  <2> QED
    BY <2>1, <2>3
<1>5. ASSUME NEW t \in Tasks, NEW s \in Sessions, ValidateHit(t, s)
      PROVE  FramesOK' /\ StoresOK'
  <2>1. FramesOK'
    BY <1>5, <1>a, FramesUntouched DEF ValidateHit
  <2>2. answer'[s] = "deny" => cache[Host[t]][s] = "no"
    BY <1>5, <1>a DEF ValidateHit, Reply, TypeOK
  <2>3. \A r \in Sessions : answer'[r] = "deny" => answer[r] = "deny" \/ r = s
    BY <1>5, <1>a DEF ValidateHit, Reply, TypeOK
  <2>4. StoresOK'
    BY <1>5, <1>a, <2>2, <2>3
    DEF ValidateHit, StoresOK, TokensExist, NoEntriesAreDead, NoFalseDenial,
        RevokedRowsDead, Dead
  <2> QED
    BY <2>1, <2>4
<1>6. ASSUME NEW t \in Tasks, NEW s \in Sessions, ValidateMiss(t, s)
      PROVE  FramesOK' /\ StoresOK'
  <2>1. row' = row /\ row[s] # "absent"
    BY <1>6, <1>a DEF ValidateMiss, StoresOK, TokensExist
  <2>2. frame'[t] = Begin("lookup", s) => FrameOK(t)'
    BY <2>1 DEF FrameOK, Begin, Idle
  <2>3. FramesOK'
    BY <1>6, <1>a, <2>2, FramesKept DEF ValidateMiss
  <2>4. StoresOK'
    BY <1>6, <1>a, StoresKept DEF ValidateMiss
  <2> QED
    BY <2>3, <2>4
<1>7. ASSUME NEW t \in Tasks, Lookup(t) PROVE FramesOK' /\ StoresOK'
  <2> DEFINE f == [frame[t] EXCEPT !.at = "fill", !.seen = Live(frame[t].key)]
  <2>1. row' = row /\ frame[t].at = "lookup"
    BY <1>7 DEF Lookup, At
  <2>2. ~Live(frame[t].key) => Dead(frame[t].key)
    BY <1>a, <1>b, <2>1 DEF TypeOK, Live, Dead, FrameOK
  <2>3. frame'[t] = f => FrameOK(t)'
    BY <1>b, <2>1, <2>2 DEF FrameOK, Frames, Dead
  <2>4. FramesOK'
    BY <1>7, <1>a, <2>3, FramesKept DEF Lookup
  <2>5. StoresOK'
    BY <1>7, <1>a, StoresKept DEF Lookup
  <2> QED
    BY <2>4, <2>5
<1>8. ASSUME NEW t \in Tasks, Fill(t) PROVE FramesOK' /\ StoresOK'
  <2> DEFINE k == frame[t].key
  <2>1. row' = row /\ k \in Sessions
    BY <1>8, <1>b DEF Fill, At
  <2>2. ~frame[t].seen => Dead(k)
    BY <1>8, <1>b DEF FrameOK, Fill, At
  <2>3. FramesOK'
    BY <1>8, <1>a, <1>c, FramesKept DEF Fill
  <2>4. \A p \in Procs, s \in Sessions :
          cache'[p][s] = "no" => cache[p][s] = "no" \/ (s = k /\ ~frame[t].seen)
    BY <1>8, <1>a, <2>1 DEF Fill, Cache, Entry, TypeOK
  <2>5. \A s \in Sessions :
          answer'[s] = "deny" => answer[s] = "deny" \/ (s = k /\ ~frame[t].seen)
    BY <1>8, <1>a, <2>1 DEF Fill, Reply, TypeOK
  <2>6. StoresOK'
    BY <1>8, <1>a, <2>1, <2>2, <2>4, <2>5
    DEF Fill, StoresOK, TokensExist, NoEntriesAreDead, NoFalseDenial, RevokedRowsDead, Dead
  <2> QED
    BY <2>3, <2>6
<1>9. ASSUME NEW t \in Tasks, NEW s \in Sessions, FindSession(t, s)
      PROVE  FramesOK' /\ StoresOK'
  <2>1. row' = row /\ row[s] = "live"
    BY <1>9 DEF FindSession, Live
  <2>2. frame'[t] = [Begin("select", s) EXCEPT !.goal = {s}] => FrameOK(t)'
    BY <2>1 DEF FrameOK, Begin, Idle
  <2>3. FramesOK'
    BY <1>9, <1>a, <2>2, FramesKept DEF FindSession
  <2>4. StoresOK'
    BY <1>9, <1>a, StoresKept DEF FindSession
  <2> QED
    BY <2>3, <2>4
<1>10. ASSUME NEW t \in Tasks, NEW u \in Users, ListSessions(t, u)
       PROVE  FramesOK' /\ StoresOK'
  <2> DEFINE found == {s \in Sessions : Owner[s] = u /\ Live(s)}
             held  == {s \in token : Owner[s] = u}
  <2>1. row' = row /\ token \subseteq Sessions
    BY <1>10, <1>a DEF ListSessions, TypeOK
  <2>2. \A s \in held : Dead(s) \/ s \in found
    BY <1>a, <2>1 DEF StoresOK, TokensExist, TypeOK, Live, Dead
  <2>3. CASE found = {} /\ revoked' = revoked \cup held /\ frame' = frame
    <3>1. FramesOK'
      BY <1>a, <2>3, FramesUntouched
    <3>2. StoresOK'
      BY <1>10, <1>a, <2>1, <2>2, <2>3
      DEF ListSessions, StoresOK, TokensExist, NoEntriesAreDead, NoFalseDenial,
          RevokedRowsDead, Dead
    <3> QED
      BY <3>1, <3>2
  <2>4. ASSUME NEW s \in found, revoked' = revoked,
               Goto(t, [Begin("select", s) EXCEPT !.todo = found \ {s}, !.goal = held])
        PROVE  FramesOK' /\ StoresOK'
    <3> DEFINE f == [Begin("select", s) EXCEPT !.todo = found \ {s}, !.goal = held]
    <3>1. f.at = "select" /\ f.key = s /\ f.todo = found \ {s} /\ f.goal = held
      BY DEF Begin, Idle
    <3>2. \A r \in found : row[r] # "absent"
      BY DEF Live
    <3> HIDE DEF f, found, held
    <3>3. frame'[t] = f => FrameOK(t)'
      BY <2>1, <2>2, <2>4, <3>1, <3>2 DEF FrameOK, Dead
    <3>4. FramesOK'
      BY <1>a, <2>4, <3>3, FramesKept DEF f
    <3>5. StoresOK'
      BY <1>10, <1>a, <2>4, StoresKept DEF ListSessions
    <3> QED
      BY <3>4, <3>5
  <2> QED
    BY <1>10, <2>3, <2>4 DEF ListSessions
<1>11. ASSUME NEW t \in Tasks, SelectRow(t) PROVE FramesOK' /\ StoresOK'
  <2>1. row' = row /\ frame[t].at = "select"
    BY <1>11 DEF SelectRow, At
  <2>2. frame'[t] = [frame[t] EXCEPT !.at = "delete"] => FrameOK(t)'
    BY <1>b, <2>1 DEF FrameOK, Frames, Dead
  <2>3. FramesOK'
    BY <1>11, <1>a, <1>c, <2>2, FramesKept DEF SelectRow, Advance
  <2>4. StoresOK'
    BY <1>11, <1>a, StoresKept DEF SelectRow
  <2> QED
    BY <2>3, <2>4
<1>12. ASSUME NEW t \in Tasks, DeleteRow(t) PROVE FramesOK' /\ StoresOK'
  <2> DEFINE k == frame[t].key
  <2>1. frame[t].at = "delete" /\ k \in Sessions /\ row'[k] = "deleted"
    BY <1>12, <1>a, <1>b DEF DeleteRow, At, TypeOK
  <2>2. frame'[t] = [frame[t] EXCEPT !.at = "forget"] => FrameOK(t)'
    <3> SUFFICES ASSUME frame'[t] = [frame[t] EXCEPT !.at = "forget"] PROVE FrameOK(t)'
      OBVIOUS
    <3>1. /\ frame'[t].at = "forget"
          /\ frame'[t].key = k
          /\ frame'[t].todo = frame[t].todo
          /\ frame'[t].goal = frame[t].goal
      BY <1>b DEF Frames
    <3>2. frame[t].todo \subseteq Sessions /\ frame[t].goal \subseteq Sessions
      BY <1>b DEF Frames
    <3> QED
      BY <1>a, <1>b, <2>1, <3>1, <3>2 DEF FrameOK, RowsAge
  <2>3. FramesOK'
    BY <1>12, <1>a, <2>2, FramesKept DEF DeleteRow, Advance
  <2>4. \A s \in Sessions : answer'[s] = "deny" => answer[s] = "deny"
    BY <1>12, <1>a DEF DeleteRow, TypeOK
  <2>5. StoresOK'
    BY <1>12, <1>a, <2>4, StoresKept DEF DeleteRow
  <2> QED
    BY <2>3, <2>5
<1>13. ASSUME NEW t \in Tasks, Forget(t) PROVE FramesOK' /\ StoresOK'
  <2> DEFINE k == frame[t].key
  <2>1. row' = row /\ frame[t].at = "forget" /\ k \in Sessions /\ row[k] = "deleted"
    BY <1>13, <1>b DEF Forget, At, FrameOK
  <2>2. \A p \in Procs, s \in Sessions : cache'[p][s] = "no" => cache[p][s] = "no"
    BY <1>13, <1>a, <2>1 DEF Forget, Cache, TypeOK
  <2>3. CASE frame[t].todo = {} /\ revoked' = revoked \cup frame[t].goal /\ Goto(t, Idle)
    <3>1. FramesOK'
      BY <1>a, <1>c, <2>3, FramesKept
    <3>2. \A s \in frame[t].goal : Dead(s)
      BY <1>b, <2>1, <2>3 DEF FrameOK, Dead
    <3>3. StoresOK'
      BY <1>13, <1>a, <2>1, <2>2, <2>3, <3>2
      DEF Forget, StoresOK, TokensExist, NoEntriesAreDead, NoFalseDenial,
          RevokedRowsDead, Dead
    <3> QED
      BY <3>1, <3>3
  <2>4. ASSUME NEW s \in frame[t].todo, revoked' = revoked,
               Goto(t, [frame[t] EXCEPT !.at = "select", !.key = s, !.todo = @ \ {s}])
        PROVE  FramesOK' /\ StoresOK'
    <3> DEFINE f == [frame[t] EXCEPT !.at = "select", !.key = s, !.todo = @ \ {s}]
    <3>1. /\ f.at = "select" /\ f.key = s
          /\ f.todo = frame[t].todo \ {s} /\ f.goal = frame[t].goal
      BY <1>b DEF Frames
    <3>2. row[s] # "absent"
      BY <1>b, <2>4 DEF FrameOK
    <3> HIDE DEF f
    <3>3. frame'[t] = f => FrameOK(t)'
      BY <1>b, <2>1, <2>4, <3>1, <3>2 DEF FrameOK, Dead
    <3>4. FramesOK'
      BY <1>a, <2>4, <3>3, FramesKept DEF f
    <3>5. StoresOK'
      BY <1>13, <1>a, <2>2, <2>4, StoresKept DEF Forget
    <3> QED
      BY <3>4, <3>5
  <2> QED
    BY <1>13, <2>3, <2>4 DEF Forget
<1>14. ASSUME NEW p \in Procs, DropCache(p) PROVE FramesOK' /\ StoresOK'
  <2>1. \A q \in Procs, s \in Sessions : cache'[q][s] = "no" => cache[q][s] = "no"
    BY <1>14, <1>a DEF DropCache, TypeOK
  <2> QED
    BY <1>14, <1>a, <2>1, FramesUntouched, StoresKept DEF DropCache
<1>15. ASSUME NEW p \in Procs, Crash(p) PROVE FramesOK' /\ StoresOK'
  <2>1. \A q \in Procs, s \in Sessions : cache'[q][s] = "no" => cache[q][s] = "no"
    BY <1>15, <1>a DEF Crash, TypeOK
  <2>2. \A t \in Tasks : frame'[t] = Idle \/ frame'[t] = frame[t]
    BY <1>15 DEF Crash
  <2>3. FramesOK'
    BY <1>a, <1>c, <2>2, FrameKept DEF FramesOK
  <2>4. StoresOK'
    BY <1>15, <1>a, <2>1, StoresKept DEF Crash
  <2> QED
    BY <2>3, <2>4
<1>16. ASSUME NEW s \in Sessions, Block(s) PROVE FramesOK' /\ StoresOK'
  <2>1. \A r \in Sessions : answer'[r] = "deny" => answer[r] = "deny"
    BY <1>16, <1>a DEF Block, TypeOK
  <2> QED
    BY <1>16, <1>a, <2>1, FramesUntouched, StoresKept DEF Block
<1>17. ASSUME NEW t \in Tasks, Abort(t) PROVE FramesOK' /\ StoresOK'
  <2>1. FramesOK'
    BY <1>17, <1>a, <1>c, FramesKept DEF Abort
  <2>2. StoresOK'
    BY <1>17, <1>a, StoresKept DEF Abort
  <2> QED
    BY <2>1, <2>2
<1>18. CASE UNCHANGED vars
  BY <1>18, <1>a, FramesUntouched, StoresKept DEF vars
<1> QED
  BY <1>1, <1>2, <1>3, <1>4, <1>5, <1>6, <1>7, <1>8, <1>9, <1>10, <1>11, <1>12,
     <1>13, <1>14, <1>15, <1>16, <1>17, <1>18
  DEF Next, Start, Proceed, Around

(* The initial state satisfies the invariant. *)
LEMMA InvariantInit == Init => IInv
<1>1. Init => FramesOK
  BY DEF Init, FramesOK, FrameOK, Idle
<1>2. Init => TokensExist /\ NoEntriesAreDead /\ NoFalseDenial /\ RevokedRowsDead
  BY DEF Init, TokensExist, NoEntriesAreDead, NoFalseDenial, RevokedRowsDead
<1> QED
  BY <1>1, <1>2, InitTypes DEF IInv

(* The inductive invariant holds in every reachable state. *)
THEOREM Invariant == Spec => []IInv
BY InvariantInit, InvariantStep, PTL DEF Spec

(* is_record_id_allowed refuses no token whose session is active. *)
THEOREM NoFalseDenialHolds == Spec => []NoFalseDenial
<1>1. IInv => NoFalseDenial
  BY DEF IInv
<1> QED
  BY <1>1, Invariant, PTL

(* What drop_session and drop_user_sessions report as dropped is dead. *)
THEOREM RevokedRowsDeadHolds == Spec => []RevokedRowsDead
<1>1. IInv => RevokedRowsDead
  BY DEF IInv
<1> QED
  BY <1>1, Invariant, PTL

------------------------------------------------------------------------------
(* No step turns a session accepted nowhere in a process into one it may      *)
(* accept: only a reading of a live row is ever cached as allowed.            *)
LEMMA SettledStep ==
    ASSUME IInv, [Next]_vars, NEW p \in Procs, NEW s \in Sessions, Settled(p, s)
    PROVE  Settled(p, s)'
<1> DEFINE Clear(t) == Host[t] = p /\ frame[t].key = s /\ frame[t].at \in {"publish", "fill"}
                          => ~frame[t].seen
<1>a. TypeOK /\ RowsAge
  BY TypeStep, RowsOnlyAge DEF IInv
<1>b. Dead(s) /\ Dead(s)'
  BY <1>a DEF Settled, RowsAge
<1>c. cache[p][s] # "yes" /\ \A t \in Tasks : Clear(t)
  BY DEF Settled
<1>d. \A t \in Tasks : frame'[t] = frame[t] \/ frame'[t] = Idle => Clear(t)'
  BY <1>c DEF Idle
<1> SUFFICES cache'[p][s] # "yes" /\ \A t \in Tasks : Clear(t)'
  BY <1>b DEF Settled
<1>e. \A f : \A t \in Tasks :
        Goto(t, f) /\ (frame'[t] = f => Clear(t)') => \A r \in Tasks : Clear(r)'
  BY <1>a, <1>d DEF Goto, TypeOK
<1>f. \A t \in Tasks : frame[t] \in Frames
  BY <1>a DEF TypeOK
<1>g. ~Live(s)
  BY <1>b DEF Dead, Live
<1>1. ASSUME NEW t \in Tasks, NEW r \in Sessions, IssueInsert(t, r)
      PROVE  cache'[p][s] # "yes" /\ \A x \in Tasks : Clear(x)'
  BY <1>1, <1>c, <1>e DEF IssueInsert, Begin, Idle
<1>2. ASSUME NEW t \in Tasks, Refresh(t)
      PROVE  cache'[p][s] # "yes" /\ \A x \in Tasks : Clear(x)'
  <2> DEFINE f == [frame[t] EXCEPT !.at = "publish", !.seen = Live(frame[t].key)]
  <2>1. f.key = frame[t].key /\ (frame[t].key = s => f.seen = FALSE)
    BY <1>f, <1>g DEF Frames
  <2>2. frame'[t] = f => Clear(t)'
    BY <2>1
  <2>3. frame'[t] = Idle => Clear(t)'
    BY <1>d
  <2> QED
    BY <1>2, <1>c, <1>e, <2>2, <2>3 DEF Refresh
<1>3. ASSUME NEW t \in Tasks, Publish(t)
      PROVE  cache'[p][s] # "yes" /\ \A x \in Tasks : Clear(x)'
  <2>1. frame'[t] = [frame[t] EXCEPT !.at = "touch"] => Clear(t)'
    BY <1>f DEF Frames
  <2>2. cache'[p][s] # "yes"
    BY <1>3, <1>a, <1>c DEF Publish, Cache, Entry, TypeOK, At
  <2> QED
    BY <1>3, <1>e, <2>1, <2>2 DEF Publish, Advance
<1>4. ASSUME NEW t \in Tasks, Deliver(t)
      PROVE  cache'[p][s] # "yes" /\ \A x \in Tasks : Clear(x)'
  BY <1>4, <1>c, <1>d, <1>e DEF Deliver
<1>5. ASSUME NEW t \in Tasks, NEW r \in Sessions, ValidateHit(t, r)
      PROVE  cache'[p][s] # "yes" /\ \A x \in Tasks : Clear(x)'
  BY <1>5, <1>c, <1>d DEF ValidateHit
<1>6. ASSUME NEW t \in Tasks, NEW r \in Sessions, ValidateMiss(t, r)
      PROVE  cache'[p][s] # "yes" /\ \A x \in Tasks : Clear(x)'
  BY <1>6, <1>c, <1>e DEF ValidateMiss, Begin, Idle
<1>7. ASSUME NEW t \in Tasks, Lookup(t)
      PROVE  cache'[p][s] # "yes" /\ \A x \in Tasks : Clear(x)'
  <2> DEFINE f == [frame[t] EXCEPT !.at = "fill", !.seen = Live(frame[t].key)]
  <2>1. f.key = frame[t].key /\ (frame[t].key = s => f.seen = FALSE)
    BY <1>f, <1>g DEF Frames
  <2>2. frame'[t] = f => Clear(t)'
    BY <2>1
  <2> QED
    BY <1>7, <1>c, <1>e, <2>2 DEF Lookup
<1>8. ASSUME NEW t \in Tasks, Fill(t)
      PROVE  cache'[p][s] # "yes" /\ \A x \in Tasks : Clear(x)'
  <2>1. cache'[p][s] # "yes"
    BY <1>8, <1>a, <1>c DEF Fill, Cache, Entry, TypeOK, At
  <2> QED
    BY <1>8, <1>d, <1>e, <2>1 DEF Fill
<1>9. ASSUME NEW t \in Tasks, NEW r \in Sessions, FindSession(t, r)
      PROVE  cache'[p][s] # "yes" /\ \A x \in Tasks : Clear(x)'
  BY <1>9, <1>c, <1>e DEF FindSession, Begin, Idle
<1>10. ASSUME NEW t \in Tasks, NEW u \in Users, ListSessions(t, u)
       PROVE  cache'[p][s] # "yes" /\ \A x \in Tasks : Clear(x)'
  <2>1. \A r, todo, goal :
          frame'[t] = [Begin("select", r) EXCEPT !.todo = todo, !.goal = goal] => Clear(t)'
    BY DEF Begin, Idle
  <2> QED
    BY <1>10, <1>c, <1>d, <1>e, <2>1 DEF ListSessions
<1>11. ASSUME NEW t \in Tasks, SelectRow(t)
       PROVE  cache'[p][s] # "yes" /\ \A x \in Tasks : Clear(x)'
  <2>1. frame'[t] = [frame[t] EXCEPT !.at = "delete"] => Clear(t)'
    BY <1>f DEF Frames
  <2> QED
    BY <1>11, <1>c, <1>d, <1>e, <2>1 DEF SelectRow, Advance
<1>12. ASSUME NEW t \in Tasks, DeleteRow(t)
       PROVE  cache'[p][s] # "yes" /\ \A x \in Tasks : Clear(x)'
  <2>1. frame'[t] = [frame[t] EXCEPT !.at = "forget"] => Clear(t)'
    BY <1>f DEF Frames
  <2> QED
    BY <1>12, <1>c, <1>e, <2>1 DEF DeleteRow, Advance
<1>13. ASSUME NEW t \in Tasks, Forget(t)
       PROVE  cache'[p][s] # "yes" /\ \A x \in Tasks : Clear(x)'
  <2>1. cache'[p][s] # "yes"
    BY <1>13, <1>a, <1>c DEF Forget, Cache, TypeOK
  <2>2. \A r \in Sessions :
          frame'[t] = [frame[t] EXCEPT !.at = "select", !.key = r, !.todo = @ \ {r}]
            => Clear(t)'
    BY <1>f DEF Frames
  <2>3. frame[t].todo \subseteq Sessions
    BY <1>f DEF Frames
  <2> QED
    BY <1>13, <1>d, <1>e, <2>1, <2>2, <2>3 DEF Forget
<1>14. ASSUME NEW q \in Procs, DropCache(q)
       PROVE  cache'[p][s] # "yes" /\ \A x \in Tasks : Clear(x)'
  BY <1>14, <1>a, <1>c, <1>d DEF DropCache, TypeOK
<1>15. ASSUME NEW q \in Procs, Crash(q)
       PROVE  cache'[p][s] # "yes" /\ \A x \in Tasks : Clear(x)'
  <2>1. cache'[p][s] # "yes"
    BY <1>15, <1>a, <1>c DEF Crash, TypeOK
  <2>2. \A t \in Tasks : frame'[t] = frame[t] \/ frame'[t] = Idle
    BY <1>15 DEF Crash
  <2> QED
    BY <1>d, <2>1, <2>2
<1>16. ASSUME NEW r \in Sessions, Block(r)
       PROVE  cache'[p][s] # "yes" /\ \A x \in Tasks : Clear(x)'
  BY <1>16, <1>c, <1>d DEF Block
<1>17. ASSUME NEW t \in Tasks, Abort(t)
       PROVE  cache'[p][s] # "yes" /\ \A x \in Tasks : Clear(x)'
  BY <1>17, <1>c, <1>d, <1>e DEF Abort
<1>18. CASE UNCHANGED vars
  BY <1>18, <1>c, <1>d DEF vars
<1> QED
  BY <1>1, <1>2, <1>3, <1>4, <1>5, <1>6, <1>7, <1>8, <1>9, <1>10, <1>11, <1>12,
     <1>13, <1>14, <1>15, <1>16, <1>17, <1>18
  DEF Next, Start, Proceed, Around

(* A dead session is accepted again only from a reading made while it lived. *)
THEOREM RevocationFinalHolds == Spec => RevocationFinal
<1>1. IInv /\ [Next]_vars =>
        [\A p \in Procs, s \in Sessions : Settled(p, s) => Settled(p, s)']_vars
  BY SettledStep
<1> QED
  BY <1>1, Invariant, PTL DEF Spec, RevocationFinal

------------------------------------------------------------------------------
(* The steps that leave the rows and the replies alone are not seen by users. *)
LEMMA Unseen == row' = row /\ answer' = answer => UNCHANGED Ledger!ledger
BY DEF Ledger!ledger, Phase, Live, Dead

(* A row that changes from live to dead closes its session. *)
LEMMA Closing ==
    ASSUME TypeOK, NEW s \in Sessions, NEW st \in {"blocked", "deleted"},
           Live(s), row' = [row EXCEPT ![s] = st],
           answer' = [answer EXCEPT ![s] = "none"]
    PROVE  Ledger!Close(s)
<1>1. [r \in Sessions |-> Phase(r)]' = [[r \in Sessions |-> Phase(r)] EXCEPT ![s] = "closed"]
  BY DEF TypeOK, Phase, Live, Dead
<1>2. Phase(s) = "open"
  BY DEF Phase
<1> QED
  BY <1>1, <1>2 DEF Ledger!Close

(* A reply in a phase that permits it is a verdict. *)
LEMMA Replying ==
    ASSUME TypeOK, NEW s \in Sessions, row[s] # "absent", row' = row,
           NEW v \in {"allow", "deny"}, Reply(s, v), v = "deny" => Dead(s)
    PROVE  Ledger!Allow(s) \/ Ledger!Deny(s)
<1>1. [r \in Sessions |-> Phase(r)]' = [r \in Sessions |-> Phase(r)]
  BY DEF Phase, Live, Dead
<1>2. Phase(s) \in {"open", "closed"} /\ (Dead(s) => Phase(s) = "closed")
  BY DEF TypeOK, Phase, Live, Dead
<1> QED
  BY <1>1, <1>2 DEF Ledger!Allow, Ledger!Deny, Reply

(* Every step of the service is a step of the ledger or none. *)
LEMMA LedgerStep == IInv /\ [Next]_vars => [Ledger!Next]_Ledger!ledger
<1> SUFFICES ASSUME IInv, [Next]_vars PROVE Ledger!Next \/ UNCHANGED Ledger!ledger
  OBVIOUS
<1>a. TypeOK
  BY DEF IInv
<1>1. CASE row' = row /\ answer' = answer
  BY <1>1, Unseen
<1>2. ASSUME NEW t \in Tasks, NEW s \in Sessions, IssueInsert(t, s) PROVE Ledger!Open(s)
  <2>1. [r \in Sessions |-> Phase(r)]' = [[r \in Sessions |-> Phase(r)] EXCEPT ![s] = "open"]
    BY <1>2, <1>a DEF IssueInsert, TypeOK, Phase, Live, Dead
  <2>2. Phase(s) = "absent"
    BY <1>2 DEF IssueInsert, Phase, Live, Dead
  <2> QED
    BY <1>2, <2>1, <2>2 DEF IssueInsert, Ledger!Open
<1>3. ASSUME NEW t \in Tasks, NEW s \in Sessions, ValidateHit(t, s)
      PROVE  Ledger!Allow(s) \/ Ledger!Deny(s)
  <2> DEFINE v == IF cache[Host[t]][s] = "yes" THEN "allow" ELSE "deny"
  <2>1. v = "deny" => Dead(s)
    BY <1>3, <1>a DEF ValidateHit, IInv, NoEntriesAreDead, TypeOK
  <2>2. row[s] # "absent" /\ row' = row /\ Reply(s, v)
    BY <1>3 DEF ValidateHit, IInv, TokensExist
  <2> QED
    BY <1>a, <2>1, <2>2, Replying
<1>4. ASSUME NEW t \in Tasks, Fill(t)
      PROVE  \E s \in Sessions : Ledger!Allow(s) \/ Ledger!Deny(s)
  <2> DEFINE k == frame[t].key
             v == IF frame[t].seen THEN "allow" ELSE "deny"
  <2>1. k \in Sessions /\ row[k] # "absent" /\ (v = "deny" => Dead(k))
    BY <1>4, <1>a DEF Fill, IInv, FramesOK, FrameOK, TypeOK, At
  <2>2. row' = row /\ Reply(k, v) /\ v \in {"allow", "deny"}
    BY <1>4 DEF Fill
  <2> HIDE DEF k, v
  <2> QED
    BY <1>a, <2>1, <2>2, Replying
<1>5. ASSUME NEW t \in Tasks, DeleteRow(t) PROVE Ledger!Next \/ UNCHANGED Ledger!ledger
  <2> DEFINE k == frame[t].key
  <2>1. k \in Sessions /\ row[k] # "absent"
    BY <1>5, <1>a DEF DeleteRow, IInv, FramesOK, FrameOK, TypeOK, At
  <2>2. CASE Live(k)
    <3>1. row' = [row EXCEPT ![k] = "deleted"] /\ answer' = [answer EXCEPT ![k] = "none"]
      BY <1>5, <2>2 DEF DeleteRow
    <3> HIDE DEF k
    <3> QED
      BY <1>a, <2>1, <2>2, <3>1, Closing DEF Ledger!Next
  <2>3. CASE ~Live(k)
    <3>1. row' = [row EXCEPT ![k] = "deleted"] /\ answer' = answer
      BY <1>5, <1>a, <2>3 DEF DeleteRow, TypeOK
    <3>2. \A r \in Sessions : Phase(r)' = Phase(r)
      BY <1>a, <2>1, <2>3, <3>1 DEF TypeOK, Phase, Live, Dead
    <3>3. [r \in Sessions |-> Phase(r)]' = [r \in Sessions |-> Phase(r)]
      BY <3>2
    <3> QED
      BY <3>1, <3>3 DEF Ledger!ledger
  <2> QED
    BY <2>2, <2>3
<1>6. ASSUME NEW s \in Sessions, Block(s) PROVE Ledger!Close(s)
  BY <1>6, <1>a, Closing DEF Block
<1> QED
  BY <1>1, <1>2, <1>3, <1>4, <1>5, <1>6
  DEF Next, Start, Proceed, Around, vars, Refresh, Publish, Deliver, ValidateMiss, Lookup,
      FindSession, ListSessions, SelectRow, Forget, DropCache, Crash, Abort, Ledger!Next

(* The service implements the ledger of the abstract specification. *)
THEOREM ImplementsLedgerHolds == Spec => ImplementsLedger
<1>1. Init => Ledger!Init
  BY DEF Init, Ledger!Init, Phase, Live, Dead
<1> QED
  BY <1>1, LedgerStep, Invariant, PTL DEF Spec, ImplementsLedger, Ledger!Spec

------------------------------------------------------------------------------
(* What Termination rests on besides fairness: a call runs out of steps.      *)
Distance(at) ==
    CASE at = "idle" -> 0
      [] at \in {"touch", "fill", "forget"} -> 1
      [] at \in {"publish", "lookup", "delete"} -> 2
      [] OTHER -> 3

StepsLeft(f) == 3 * Cardinality(f.todo) + Distance(f.at)

LEMMA StepsLeftType ==
    ASSUME IsFiniteSet(Sessions), NEW f \in Frames
    PROVE  /\ IsFiniteSet(f.todo) /\ Cardinality(f.todo) \in Nat
           /\ StepsLeft(f) \in Nat
           /\ f.at # "idle" => StepsLeft(f) > 0
<1>1. IsFiniteSet(f.todo) /\ Cardinality(f.todo) \in Nat
  BY FS_Subset, FS_CardinalityType DEF Frames
<1>2. Distance(f.at) \in Nat /\ (f.at # "idle" => Distance(f.at) > 0)
  BY DEF Distance
<1> QED
  BY <1>1, <1>2 DEF StepsLeft

LEMMA ProceedNearer ==
    ASSUME IsFiniteSet(Sessions), TypeOK, NEW t \in Tasks, Proceed(t)
    PROVE  StepsLeft(frame'[t]) < StepsLeft(frame[t])
<1> DEFINE f == frame[t]
<1>1. /\ f \in Frames
      /\ \A g : Goto(t, g) => frame'[t] = g
      /\ \A at : Advance(t, at) => frame'[t] = [f EXCEPT !.at = at]
  BY DEF TypeOK, Goto, Advance
<1>2. /\ Cardinality(f.todo) \in Nat /\ IsFiniteSet(f.todo)
      /\ StepsLeft(f) \in Nat /\ (f.at # "idle" => StepsLeft(f) > 0)
  BY <1>1, StepsLeftType
<1>3. StepsLeft(Idle) = 0
  BY FS_EmptySet DEF StepsLeft, Idle, Distance
<1>4. ASSUME frame'[t].todo = f.todo, Distance(frame'[t].at) < Distance(f.at),
             Distance(frame'[t].at) \in Nat, Distance(f.at) \in Nat
      PROVE  StepsLeft(frame'[t]) < StepsLeft(f)
  BY <1>2, <1>4 DEF StepsLeft
<1>5. ASSUME f.at # "idle", frame'[t] = Idle PROVE StepsLeft(frame'[t]) < StepsLeft(f)
  BY <1>2, <1>3, <1>5
<1>6. ASSUME NEW from \in Points, NEW to \in Points, f.at = from, frame'[t].at = to,
             frame'[t].todo = f.todo, Distance(to) < Distance(from)
      PROVE  StepsLeft(frame'[t]) < StepsLeft(f)
  <2>1. Distance(to) \in Nat /\ Distance(from) \in Nat
    BY DEF Distance
  <2> QED
    BY <1>4, <1>6, <2>1
<1>8. \A at : /\ [f EXCEPT !.at = at].at = at /\ [f EXCEPT !.at = at].todo = f.todo
              /\ \A seen : /\ [f EXCEPT !.at = at, !.seen = seen].at = at
                           /\ [f EXCEPT !.at = at, !.seen = seen].todo = f.todo
  BY <1>1 DEF Frames
<1>9. CASE Refresh(t)
  <2>0. /\ f.at = "refresh"
        /\ frame'[t] = Idle \/ frame'[t] = [f EXCEPT !.at = "publish", !.seen = Live(f.key)]
    BY <1>1, <1>9 DEF Refresh, At
  <2>1. CASE frame'[t] = Idle
    BY <1>5, <2>0, <2>1
  <2>2. ASSUME NEW seen, frame'[t] = [f EXCEPT !.at = "publish", !.seen = seen]
        PROVE  StepsLeft(frame'[t]) < StepsLeft(f)
    <3>1. frame'[t].at = "publish" /\ frame'[t].todo = f.todo
      BY <1>8, <2>2
    <3>2. Distance("publish") < Distance("refresh")
      BY DEF Distance
    <3> QED
      BY <1>6, <2>0, <3>1, <3>2 DEF Points
  <2> QED
    BY <2>0, <2>1, <2>2
<1>10. CASE Publish(t)
  <2>1. f.at = "publish" /\ frame'[t].at = "touch" /\ frame'[t].todo = f.todo
    BY <1>1, <1>8, <1>10 DEF Publish, At
  <2>2. Distance("touch") < Distance("publish")
    BY DEF Distance
  <2> QED
    BY <1>6, <2>1, <2>2 DEF Points
<1>11. CASE Lookup(t)
  <2>0. f.at = "lookup" /\ frame'[t] = [f EXCEPT !.at = "fill", !.seen = Live(f.key)]
    BY <1>1, <1>11 DEF Lookup, At
  <2>1. f.at = "lookup" /\ frame'[t].at = "fill" /\ frame'[t].todo = f.todo
    BY <1>8, <2>0
  <2>2. Distance("fill") < Distance("lookup")
    BY DEF Distance
  <2> QED
    BY <1>6, <2>1, <2>2 DEF Points
<1>12. CASE SelectRow(t)
  <2>0. f.at = "select" /\ (frame'[t] = Idle \/ frame'[t] = [f EXCEPT !.at = "delete"])
    BY <1>1, <1>12 DEF SelectRow, At
  <2>1. f.at = "select" /\ (frame'[t] = Idle \/ (/\ frame'[t].at = "delete"
                                                 /\ frame'[t].todo = f.todo))
    BY <1>8, <2>0
  <2>2. Distance("delete") < Distance("select")
    BY DEF Distance
  <2> QED
    BY <1>5, <1>6, <2>1, <2>2 DEF Points
<1>13. CASE DeleteRow(t)
  <2>1. f.at = "delete" /\ frame'[t].at = "forget" /\ frame'[t].todo = f.todo
    BY <1>1, <1>8, <1>13 DEF DeleteRow, At
  <2>2. Distance("forget") < Distance("delete")
    BY DEF Distance
  <2> QED
    BY <1>6, <2>1, <2>2 DEF Points
<1>14. CASE Deliver(t) \/ Fill(t)
  <2>1. f.at # "idle" /\ frame'[t] = Idle
    BY <1>1, <1>14 DEF Deliver, Fill, At
  <2> QED
    BY <1>5, <2>1
<1>7. CASE Forget(t)
  <2>1. CASE frame'[t] = Idle
    BY <1>5, <1>7, <2>1 DEF Forget, At
  <2>2. ASSUME NEW s \in f.todo,
               frame'[t] = [f EXCEPT !.at = "select", !.key = s, !.todo = @ \ {s}]
        PROVE  StepsLeft(frame'[t]) < StepsLeft(f)
    <3>1. frame'[t].at = "select" /\ frame'[t].todo = f.todo \ {s} /\ f.at = "forget"
      BY <1>1, <1>7, <2>2 DEF Frames, Forget, At
    <3>2. Cardinality(f.todo \ {s}) = Cardinality(f.todo) - 1
      <4> DEFINE S == f.todo
      <4>1. IsFiniteSet(S) /\ s \in S
        BY <1>2
      <4> HIDE DEF S
      <4>2. Cardinality(S \ {s}) = Cardinality(S) - 1
        BY <4>1, FS_RemoveElement
      <4> QED
        BY <4>2 DEF S
    <3>3. Distance("select") = 3 /\ Distance("forget") = 1
      BY DEF Distance
    <3> QED
      BY <1>2, <3>1, <3>2, <3>3 DEF StepsLeft
  <2> QED
    BY <1>1, <1>7, <2>1, <2>2 DEF Forget
<1> QED
  BY <1>7, <1>9, <1>10, <1>11, <1>12, <1>13, <1>14 DEF Proceed

(* Each step of a call takes it nearer its end and no step of another call    *)
(* moves it: a logout over rows that others delete loops at most once a row.  *)
THEOREM CallsRunOut ==
    ASSUME IsFiniteSet(Sessions)
    PROVE  Spec => [][\A t \in Tasks : ~At(t, "idle") /\ frame'[t] # frame[t] =>
                        /\ StepsLeft(frame[t]) \in Nat /\ StepsLeft(frame'[t]) \in Nat
                        /\ StepsLeft(frame'[t]) < StepsLeft(frame[t])]_vars
<1> DEFINE A == \A t \in Tasks : ~At(t, "idle") /\ frame'[t] # frame[t] =>
                  /\ StepsLeft(frame[t]) \in Nat /\ StepsLeft(frame'[t]) \in Nat
                  /\ StepsLeft(frame'[t]) < StepsLeft(frame[t])
<1>1. ASSUME TypeOK, TypeOK', [Next]_vars PROVE A \/ UNCHANGED vars
  <2> SUFFICES ASSUME NEW t \in Tasks, ~At(t, "idle"), frame'[t] # frame[t]
               PROVE  /\ StepsLeft(frame[t]) \in Nat /\ StepsLeft(frame'[t]) \in Nat
                      /\ StepsLeft(frame'[t]) < StepsLeft(frame[t])
    OBVIOUS
  <2>0. StepsLeft(frame[t]) \in Nat /\ StepsLeft(frame'[t]) \in Nat
    BY <1>1, StepsLeftType DEF TypeOK
  <2>1. Proceed(t) \/ frame'[t] = Idle
    <3>1. ~Start(t)
      BY DEF Start, IssueInsert, ValidateHit, ValidateMiss, FindSession, ListSessions
    <3> QED
      BY <1>1, <3>1, FrameMoves
  <2>2. CASE frame'[t] = Idle
    <3>1. StepsLeft(Idle) = 0
      BY FS_EmptySet DEF StepsLeft, Idle, Distance
    <3>2. StepsLeft(frame[t]) \in Nat /\ StepsLeft(frame[t]) > 0
      BY <1>1, StepsLeftType DEF TypeOK, At
    <3> QED
      BY <2>0, <2>2, <3>1, <3>2
  <2> QED
    BY <1>1, <2>0, <2>1, <2>2, ProceedNearer
<1> QED
  BY <1>1, TypeCorrect, PTL DEF Spec
------------------------------------------------------------------------------
(* Why a logout may leave a token alive.                                      *)
THEOREM LogoutStoppedByAnotherHolds == Spec => LogoutStoppedByAnother
<1> DEFINE A == \A t \in Tasks :
                  At(t, "idle")' /\ (\E s \in frame[t].goal : ~Dead(s)) =>
                    \/ Abort(t) \/ \E p \in Procs : Crash(p)
                    \/ At(t, "select") /\ row[frame[t].key] = "deleted"
<1>1. ASSUME IInv, [Next]_vars PROVE A \/ UNCHANGED vars
  <2> SUFFICES ASSUME NEW t \in Tasks, At(t, "idle")',
                      NEW s \in frame[t].goal, ~Dead(s),
                      ~Abort(t), \A p \in Procs : ~Crash(p)
               PROVE  At(t, "select") /\ row[frame[t].key] = "deleted"
    OBVIOUS
  <2>1. TypeOK /\ FrameOK(t)
    BY <1>1 DEF IInv, FramesOK
  <2>2. /\ frame[t].at \in {"select", "delete", "forget"}
        /\ s \in frame[t].todo \cup {frame[t].key}
    BY <2>1 DEF FrameOK
  <2>3. frame'[t].at = "idle" /\ frame'[t] # frame[t]
    BY <2>2 DEF At
  <2>4. \A f : Goto(t, f) => frame'[t] = f
    BY <2>1 DEF Goto, TypeOK
  <2>5. Proceed(t)
    <3>1. ~Start(t)
      BY <2>2 DEF Start, IssueInsert, ValidateHit, ValidateMiss, FindSession, ListSessions, At
    <3>2. \A r \in Tasks \ {t} : ~Start(r) /\ ~Proceed(r) /\ ~Abort(r)
      <4> SUFFICES ASSUME NEW r \in Tasks \ {t}, Start(r) \/ Proceed(r) \/ Abort(r)
                   PROVE  frame'[t] = frame[t]
        BY <2>3
      <4>1. \A f : Goto(r, f) => frame'[t] = frame[t]
        BY <2>1 DEF Goto, TypeOK
      <4> QED
        BY <4>1 DEF Start, Proceed, IssueInsert, Refresh, Publish, Deliver, ValidateHit,
             ValidateMiss, Lookup, Fill, FindSession, ListSessions, SelectRow, DeleteRow,
             Forget, Advance, Abort
    <3> QED
      BY <1>1, <2>3, <3>1, <3>2 DEF Next, Around, DropCache, Block, vars
  <2>6. ~Refresh(t) /\ ~Publish(t) /\ ~Deliver(t) /\ ~Lookup(t) /\ ~Fill(t)
    BY <2>2 DEF Refresh, Publish, Deliver, Lookup, Fill, At
  <2>7. ~DeleteRow(t) /\ ~Advance(t, "delete")
    <3>1. ~Advance(t, "forget") /\ ~Advance(t, "delete")
      <4>1. /\ [frame[t] EXCEPT !.at = "forget"].at = "forget"
            /\ [frame[t] EXCEPT !.at = "delete"].at = "delete"
        BY <2>1 DEF TypeOK, Frames
      <4> QED BY <2>3, <2>4, <4>1 DEF Advance
    <3> QED BY <3>1 DEF DeleteRow
  <2>8. ~Forget(t)
    <3> SUFFICES ASSUME Forget(t) PROVE FALSE
      OBVIOUS
    <3>2. frame[t].todo = {}
      <4>1. \A k : [frame[t] EXCEPT !.at = "select", !.key = k, !.todo = @ \ {k}].at = "select"
        BY <2>1 DEF TypeOK, Frames
      <4> QED BY <2>3, <2>4, <4>1 DEF Forget
    <3>3. s = frame[t].key /\ row[s] = "deleted"
      BY <2>1, <2>2, <3>2 DEF Forget, FrameOK, At
    <3> QED
      BY <3>3 DEF Dead
  <2>9. SelectRow(t)
    BY <2>5, <2>6, <2>7, <2>8 DEF Proceed
  <2> QED
    BY <2>7, <2>9 DEF SelectRow
<1> QED
  BY <1>1, Invariant, PTL DEF Spec, LogoutStoppedByAnother
=============================================================================
