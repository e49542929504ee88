-------------------------- MODULE TaskSessionsProofs --------------------------
(* To the tasks that nest contexts only where nothing is uncommitted          *)
(* Database.session keeps the two promises it breaks to the others, for any   *)
(* tasks and writes.                                                          *)
EXTENDS TaskSessions, SequenceTheorems, TLAPS

\* Leaving a context leaves the contexts around it as they were.
LEMMA PopKeeps ==
    ASSUME NEW S, NEW s \in Seq(S), s # <<>>
    PROVE  LET p == SubSeq(s, 1, Len(s) - 1) IN
           /\ p \in Seq(S)
           /\ Len(p) = Len(s) - 1
           /\ \A i \in 1 .. Len(p) : p[i] = s[i]
<1> DEFINE n == Len(s) - 1
<1>1. n \in Nat /\ \A i \in 1 .. n : s[i] \in S
  OBVIOUS
<1> HIDE DEF n
<1>2. /\ SubSeq(s, 1, n) \in Seq(S)
      /\ Len(SubSeq(s, 1, n)) = IF 1 <= n THEN n - 1 + 1 ELSE 0
      /\ \A i \in 1 .. n - 1 + 1 : SubSeq(s, 1, n)[i] = s[1 + i - 1]
  BY <1>1, SubSeqProperties
<1>3. Len(SubSeq(s, 1, n)) = n
  BY <1>1, <1>2
<1>4. \A i \in 1 .. n : SubSeq(s, 1, n)[i] = s[i]
  BY <1>1, <1>2
<1> QED
  BY <1>2, <1>3, <1>4 DEF n

LEMMA AppendKeeps ==
    ASSUME NEW S, NEW s \in Seq(S), NEW e \in S
    PROVE  /\ Append(s, e) \in Seq(S)
           /\ Len(Append(s, e)) = Len(s) + 1
           /\ \A i \in 1 .. Len(s) : Append(s, e)[i] = s[i]
           /\ Append(s, e)[Len(s) + 1] = e
           /\ Append(s, e) # <<>>
OBVIOUS

LEMMA ReplaceKeeps ==
    ASSUME NEW S, NEW s \in Seq(S), NEW e \in S, s # <<>>
    PROVE  LET r == [s EXCEPT ![Len(s)] = e] IN
           /\ r \in Seq(S)
           /\ Len(r) = Len(s)
           /\ \A i \in 1 .. Len(s) - 1 : r[i] = s[i]
           /\ r[Len(s)] = e
           /\ r # <<>>
OBVIOUS

LEMMA TidyInit == Init => TidyInv
<1> SUFFICES ASSUME Init PROVE TidyInv
  OBVIOUS
<1> USE TidyAssumption DEF Init, Open, Depth
<1>1. TypeOK /\ CleanStart
  BY DepthAssumption DEF TypeOK, CleanStart, Scope
<1>2. TidyHeld /\ WritesOwned /\ CommitsKept /\ RolledBack
  BY DEF TidyHeld, WritesOwned, CommitsKept, RolledBack
<1> QED
  BY <1>1, <1>2 DEF TidyInv
------------------------------------------------------------------------------
\* What TidyInv says of any one task.
HeldAny(t) ==
    /\ ctx[t] \in Seq(SUBSET Writes)
    /\ Depth(t) <= MaxDepth
    /\ pending[t] \subseteq Own(t)
    /\ t \in raising => Open(t)
    /\ ~Open(t) => pending[t] = {}
    /\ \A i \in 1 .. Depth(t) : ctx[t][i] \subseteq Own(t)

\* What it says of a tidy one besides.
HeldTidy(t) ==
    /\ \A i \in 1 .. Depth(t) : i < Depth(t) => ctx[t][i] = {}
    /\ Open(t) /\ t \notin raising => pending[t] = Wrote(t)
    /\ Open(t) => pending[t] \subseteq Wrote(t)
    /\ pending[t] \cap escaped = {}
    /\ \A i \in 1 .. Depth(t) : ctx[t][i] \cap stored = {}

Held(t) == HeldAny(t) /\ (t \in Tidy => HeldTidy(t))

\* What it says of the database and the bookkeeping.
Kept ==
    /\ registry \subseteq Tasks
    /\ pending \in [Tasks -> SUBSET Writes]
    /\ DOMAIN ctx = Tasks /\ ctx = [t \in Tasks |-> ctx[t]]
    /\ stored \subseteq Writes /\ acked \subseteq Writes /\ escaped \subseteq Writes
    /\ raising \subseteq Tasks
    /\ CommitsKept /\ RolledBack

LEMMA TidySplit == TidyInv <=> Kept /\ \A t \in Tasks : Held(t)
<1> USE TidyAssumption
    DEF Kept, Held, HeldAny, HeldTidy, TypeOK, CleanStart, TidyHeld, WritesOwned, Scope
<1>1. ASSUME TidyInv PROVE Kept /\ \A t \in Tasks : Held(t)
  BY <1>1 DEF TidyInv
<1>2. ASSUME Kept, \A t \in Tasks : Held(t) PROVE TidyInv
  <2>1. TypeOK
    BY <1>2
  <2>2. CleanStart /\ TidyHeld
    BY <1>2
  <2>3. WritesOwned
    BY <1>2
  <2> QED
    BY <1>2, <2>1, <2>2, <2>3 DEF TidyInv
<1> QED
  BY <1>1, <1>2

LEMMA TidyJoin == Kept' /\ (\A t \in Tasks : Held(t)') => TidyInv'
<1>1. (TidyInv <=> Kept /\ \A t \in Tasks : Held(t))'
  BY TidySplit, PTL
<1> QED
  BY <1>1

LEMMA OwnDisjoint ==
    ASSUME NEW t, NEW u, t # u
    PROVE  Own(t) \cap Own(u) = {}
BY DEF Own

LEMMA WroteInnermost ==
    ASSUME NEW t \in Tasks, Held(t), Open(t)
    PROVE  /\ Depth(t) \in Nat \ {0}
           /\ Wrote(t) \subseteq Own(t)
           /\ t \in Tidy => Wrote(t) \cap stored = {}
BY DEF Held, HeldAny, HeldTidy, Open, Depth, Wrote

\* A step of t leaves another task's contexts and session alone, because what it
\* stores or rolls back is its own.
LEMMA OthersHeld ==
    ASSUME NEW t \in Tasks, NEW u \in Tasks, t # u, Held(u),
           ctx'[u] = ctx[u], pending'[u] = pending[u],
           raising' \ {t} = raising \ {t},
           stored' \subseteq stored \cup Own(t), escaped' \subseteq escaped \cup Own(t)
    PROVE  Held(u)'
<1>1. Own(t) \cap Own(u) = {}
  BY OwnDisjoint
<1>2. (u \in raising) <=> (u \in raising')
  OBVIOUS
<1>3. /\ Depth(u)' = Depth(u) /\ (Open(u)' <=> Open(u)) /\ Wrote(u)' = Wrote(u)
      /\ Own(u)' = Own(u)
  BY DEF Depth, Open, Wrote, Own
<1>4. HeldAny(u)'
  BY <1>2, <1>3 DEF Held, HeldAny
<1>5. ASSUME HeldTidy(u) PROVE HeldTidy(u)'
  BY <1>1, <1>2, <1>3, <1>5 DEF Held, HeldAny, HeldTidy
<1> QED
  BY <1>4, <1>5 DEF Held

\* A context ends, with an exception or without, and what the session holds is
\* dropped: the context around it, of a tidy task, had nothing uncommitted.
LEMMA PoppedHeld ==
    ASSUME NEW t \in Tasks, Held(t), Open(t), Kept,
           Pop(t), Discard(t), stored' = stored,
           t \in raising' => Depth(t) > 1
    PROVE  Held(t)'
<1> DEFINE p == SubSeq(ctx[t], 1, Depth(t) - 1)
<1>1. /\ p \in Seq(SUBSET Writes) /\ Len(p) = Depth(t) - 1
      /\ \A i \in 1 .. Len(p) : p[i] = ctx[t][i]
  BY PopKeeps DEF Held, HeldAny, Open, Depth
<1>2. ctx'[t] = p /\ pending'[t] = {}
  BY DEF Pop, Discard, Scope, Kept
<1>3. Depth(t) \in Nat \ {0} /\ Depth(t) <= MaxDepth /\ MaxDepth \in Nat
  BY WroteInnermost, DepthAssumption DEF Held, HeldAny
<1> HIDE DEF p
<1>4. ASSUME NEW i \in 1 .. Len(p)
      PROVE  p[i] \subseteq Own(t) /\ (t \in Tidy => p[i] = {})
  <2>1. i \in 1 .. Depth(t) /\ i < Depth(t)
    BY <1>1, <1>3
  <2> QED
    BY <1>1, <2>1 DEF Held, HeldAny, HeldTidy
<1>5. Depth(t)' = Len(p) /\ Own(t)' = Own(t)
  BY <1>2 DEF Depth, Own
<1>6. Open(t)' <=> Len(p) # 0
  <2>1. p # <<>> <=> Len(p) # 0
    BY <1>1, EmptySeq
  <2> QED
    BY <1>2, <2>1 DEF Open
<1>7. t \in Tidy /\ Open(t)' => Wrote(t)' = {}
  BY <1>1, <1>2, <1>3, <1>4, <1>5, <1>6 DEF Wrote
<1>8. ctx'[t] \in Seq(SUBSET Writes) /\ Depth(t)' <= MaxDepth
  BY <1>1, <1>2, <1>3, <1>5
<1>9. \A i \in 1 .. Depth(t)' : ctx'[t][i] \subseteq Own(t)'
                               /\ (t \in Tidy => ctx'[t][i] = {})
  BY <1>2, <1>4, <1>5
<1>10. t \in raising' => Open(t)'
  BY <1>1, <1>3, <1>6
<1>11. HeldAny(t)'
  BY <1>2, <1>8, <1>9, <1>10 DEF HeldAny
<1>12. t \in Tidy => HeldTidy(t)'
  BY <1>2, <1>7, <1>9 DEF HeldTidy
<1> QED
  BY <1>11, <1>12 DEF Held

\* A commit or a write replaces what the innermost context wrote; in a tidy task
\* it is what the session holds.
LEMMA ReplacedHeld ==
    ASSUME NEW t \in Tasks, Held(t), Open(t), Kept,
           NEW ws \in SUBSET Own(t), SetWrote(t, ws),
           pending'[t] \subseteq Own(t),
           raising' = raising, escaped' = escaped,
           t \in Tidy => pending'[t] = ws /\ ws \cap (stored' \cup escaped) = {},
           t \in Tidy => \A i \in 1 .. Depth(t) : i < Depth(t) => ctx[t][i] = {}
    PROVE  Held(t)'
<1> DEFINE c == [ctx[t] EXCEPT ![Depth(t)] = ws]
<1>1. ws \in SUBSET Writes
  BY DEF Own
<1>2. /\ c \in Seq(SUBSET Writes) /\ Len(c) = Depth(t) /\ c # <<>>
      /\ \A i \in 1 .. Depth(t) - 1 : c[i] = ctx[t][i]
      /\ c[Depth(t)] = ws
  BY <1>1, ReplaceKeeps DEF Held, HeldAny, Open, Depth
<1>3. ctx'[t] = c
  BY DEF SetWrote, Kept
<1>4. Depth(t) \in Nat \ {0}
  BY WroteInnermost
<1> HIDE DEF c
<1>5. Depth(t)' = Depth(t) /\ Own(t)' = Own(t) /\ Open(t)'
  BY <1>2, <1>3 DEF Depth, Own, Open
<1>6. Wrote(t)' = ws
  BY <1>2, <1>3, <1>5 DEF Wrote
<1>7. ASSUME NEW i \in 1 .. Depth(t)
      PROVE  /\ ctx'[t][i] \subseteq Own(t)
             /\ t \in Tidy => (i < Depth(t) => ctx'[t][i] = {}) /\ ctx'[t][i] \cap stored' = {}
  <2>1. CASE i = Depth(t)
    BY <1>2, <1>3, <2>1
  <2>2. CASE i < Depth(t)
    BY <1>2, <1>3, <1>4, <2>2 DEF Held, HeldAny
  <2> QED
    BY <1>4, <2>1, <2>2
<1>8. ctx'[t] \in Seq(SUBSET Writes) /\ Depth(t)' <= MaxDepth
  BY <1>2, <1>3, <1>5 DEF Held, HeldAny
<1>9. HeldAny(t)'
  BY <1>5, <1>7, <1>8 DEF HeldAny
<1>10. t \in Tidy => HeldTidy(t)'
  BY <1>5, <1>6, <1>7 DEF HeldTidy
<1> QED
  BY <1>9, <1>10 DEF Held

\* A new context holds nothing, and the one around it, of a tidy task, neither.
LEMMA AppendedHeld ==
    ASSUME NEW t \in Tasks, Held(t), Kept, Enter(t)
    PROVE  Held(t)'
<1> DEFINE c == Append(ctx[t], {})
<1>1. /\ c \in Seq(SUBSET Writes) /\ Len(c) = Depth(t) + 1 /\ c # <<>>
      /\ \A i \in 1 .. Depth(t) : c[i] = ctx[t][i]
      /\ c[Depth(t) + 1] = {}
  BY AppendKeeps DEF Held, HeldAny, Depth
<1>2. ctx'[t] = c /\ pending' = pending /\ escaped' = escaped
      /\ raising' = raising /\ t \notin raising
  BY DEF Enter, Kept
<1>3. Depth(t) \in Nat /\ Depth(t) < MaxDepth /\ MaxDepth \in Nat
  BY DepthAssumption DEF Held, HeldAny, Depth, Enter
<1> HIDE DEF c
<1>4. Depth(t)' = Depth(t) + 1 /\ Own(t)' = Own(t) /\ Open(t)'
  BY <1>1, <1>2 DEF Depth, Own, Open
<1>5. t \in Tidy => pending[t] = {}
  BY <1>2 DEF Enter, Held, HeldAny, HeldTidy
<1>6. Wrote(t)' = {}
  BY <1>1, <1>2, <1>4 DEF Wrote
<1>7. ASSUME NEW i \in 1 .. Depth(t) + 1
      PROVE  ctx'[t][i] \subseteq Own(t) /\ (t \in Tidy => ctx'[t][i] = {})
  <2>1. CASE i = Depth(t) + 1
    BY <1>1, <1>2, <2>1
  <2>2. CASE i = Depth(t) /\ i # 0
    <3>1. Open(t)
      BY <1>3, <2>2, EmptySeq DEF Open, Depth, Held, HeldAny
    <3> QED
      BY <1>1, <1>2, <1>3, <2>2, <3>1 DEF Enter, Wrote, Held, HeldAny
  <2>3. CASE i < Depth(t)
    BY <1>1, <1>2, <1>3, <2>3 DEF Held, HeldAny, HeldTidy
  <2> QED
    BY <1>3, <2>1, <2>2, <2>3
<1>8. ctx'[t] \in Seq(SUBSET Writes) /\ Depth(t)' <= MaxDepth
  BY <1>1, <1>2, <1>3, <1>4
<1>9. HeldAny(t)'
  BY <1>2, <1>4, <1>7, <1>8 DEF Held, HeldAny
<1>10. t \in Tidy => HeldTidy(t)'
  BY <1>2, <1>4, <1>5, <1>6, <1>7 DEF HeldTidy
<1> QED
  BY <1>9, <1>10 DEF Held
------------------------------------------------------------------------------
\* Every step keeps TidyInv: what the task of the step does is one of the
\* lemmas above, and the other tasks are left alone.
LEMMA TidyStep ==
    ASSUME TidyInv, [Next]_vars
    PROVE  TidyInv'
<1>1. Kept /\ \A u \in Tasks : Held(u)
  BY TidySplit
<1>2. ASSUME NEW t \in Tasks, Held(t)', Kept',
             \A u \in Tasks \ {t} : ctx'[u] = ctx[u] /\ pending'[u] = pending[u],
             raising' \ {t} = raising \ {t},
             stored' \subseteq stored \cup Own(t), escaped' \subseteq escaped \cup Own(t)
      PROVE  TidyInv'
  <2>1. ASSUME NEW u \in Tasks, u # t PROVE Held(u)'
    BY <1>1, <1>2, <2>1, OthersHeld
  <2>2. \A u \in Tasks : Held(u)'
    BY <1>2, <2>1
  <2> QED
    BY <1>2, <2>2, TidyJoin
<1>3. ASSUME NEW t \in Tasks, Enter(t) PROVE TidyInv'
  <2>1. Held(t)'
    BY <1>1, <1>3, AppendedHeld
  <2>2. Kept'
    BY <1>1, <1>3 DEF Kept, Enter, Scope, CommitsKept, RolledBack, Own
  <2>3. \A u \in Tasks \ {t} : ctx'[u] = ctx[u] /\ pending'[u] = pending[u]
    BY <1>1, <1>3 DEF Kept, Enter
  <2> QED
    BY <1>2, <1>3, <2>1, <2>2, <2>3 DEF Enter
<1>4. ASSUME NEW t \in Tasks, NEW w \in Writes, Write(t, w) PROVE TidyInv'
  <2> DEFINE ws == Wrote(t) \cup {w}
             hs == pending[t] \cup {w}
  <2>1. w \in Own(t) /\ w \notin stored /\ w \notin escaped
    BY <1>4 DEF Write
  <2>2. ws \in SUBSET Own(t) /\ hs \in SUBSET Own(t)
    BY <1>1, <1>4, <2>1, WroteInnermost DEF Write, Held, HeldAny
  <2>3. t \in Tidy => hs = ws /\ ws \cap (stored \cup escaped) = {}
    BY <1>1, <1>4, <2>1, WroteInnermost DEF Write, Held, HeldTidy
  <2>4. pending' = [pending EXCEPT ![t] = hs]
    BY <1>4 DEF Write, Scope
  <2>5. hs \in SUBSET Writes
    BY <2>2 DEF Own
  <2>6. ctx' = [ctx EXCEPT ![t][Depth(t)] = ws] /\ SetWrote(t, ws)
    BY <1>4 DEF Write, SetWrote
  <2>7. Open(t) /\ UNCHANGED <<registry, stored, raising, acked, escaped>>
    BY <1>4 DEF Write
  <2> HIDE DEF ws, hs
  <2>8. pending'[t] = hs
    BY <1>1, <2>4 DEF Kept
  <2>9. Held(t)'
    BY <1>1, <2>2, <2>3, <2>6, <2>7, <2>8, ReplacedHeld DEF Held, HeldTidy
  <2>10. Kept'
    BY <1>1, <2>4, <2>5, <2>6, <2>7 DEF Kept, CommitsKept, RolledBack, Own
  <2>11. \A u \in Tasks \ {t} : ctx'[u] = ctx[u] /\ pending'[u] = pending[u]
    BY <1>1, <2>4, <2>6 DEF Kept
  <2> QED
    BY <1>2, <2>7, <2>9, <2>10, <2>11
<1>5. ASSUME NEW t \in Tasks, Commit(t) PROVE TidyInv'
  <2>1. Wrote(t) \subseteq Own(t) /\ pending[t] \subseteq Own(t) /\ Own(t) \subseteq Writes
    BY <1>1, <1>5, WroteInnermost DEF Commit, Held, HeldAny, Own
  <2>2. t \in Tidy => pending[t] = Wrote(t) /\ pending[t] \cap escaped = {}
    BY <1>1, <1>5 DEF Commit, Held, HeldTidy
  <2>3. pending' = [pending EXCEPT ![t] = {}] /\ stored' = stored \cup pending[t]
    BY <1>5 DEF Commit, Discard, Scope
  <2>4. acked' = acked \cup Wrote(t) /\ UNCHANGED <<registry, raising, escaped>>
        /\ SetWrote(t, {}) /\ Open(t)
    BY <1>5 DEF Commit
  <2>5. Held(t)'
    <3>1. pending'[t] = {}
      BY <1>1, <2>3 DEF Kept
    <3> QED
      BY <1>1, <2>4, <3>1, ReplacedHeld DEF Held, HeldTidy
  <2>6. CommitsKept' /\ RolledBack'
    <3> SUFFICES ASSUME NEW u \in Tidy
                 PROVE  acked' \cap Own(u) \subseteq stored' /\ escaped' \cap stored' \cap Own(u) = {}
      BY DEF CommitsKept, RolledBack, Own
    <3>1. acked \cap Own(u) \subseteq stored /\ escaped \cap stored \cap Own(u) = {}
      BY <1>1 DEF Kept, CommitsKept, RolledBack
    <3>2. CASE u = t
      BY <2>2, <2>3, <2>4, <3>1, <3>2
    <3>3. CASE u # t
      BY <2>1, <2>3, <2>4, <3>1, <3>3, OwnDisjoint
    <3> QED
      BY <3>2, <3>3
  <2>7. Kept'
    BY <1>1, <2>1, <2>3, <2>4, <2>6 DEF Kept, SetWrote
  <2>8. \A u \in Tasks \ {t} : ctx'[u] = ctx[u] /\ pending'[u] = pending[u]
    BY <1>1, <2>3, <2>4 DEF Kept, SetWrote
  <2> QED
    BY <1>2, <2>1, <2>3, <2>4, <2>5, <2>7, <2>8
<1>6. ASSUME NEW t \in Tasks, Raise(t) PROVE TidyInv'
  <2>1. pending' = pending \/ pending' = [pending EXCEPT ![t] = {}]
    BY <1>6 DEF Raise, Discard, Scope
  <2>2. HeldAny(t)'
    BY <1>1, <1>6, <2>1 DEF Raise, Held, HeldAny, Kept, Open, Depth, Own
  <2>3. t \in Tidy => HeldTidy(t)'
    BY <1>1, <1>6, <2>1 DEF Raise, Held, HeldTidy, Kept, Open, Depth, Wrote
  <2>4. Kept'
    BY <1>1, <1>6, <2>1 DEF Kept, Raise, CommitsKept, RolledBack, Own
  <2>5. \A u \in Tasks \ {t} : ctx'[u] = ctx[u] /\ pending'[u] = pending[u]
    BY <1>1, <1>6, <2>1 DEF Kept, Raise
  <2> QED
    BY <1>2, <1>6, <2>2, <2>3, <2>4, <2>5 DEF Raise, Held
<1>7. ASSUME NEW t \in Tasks, Leave(t) PROVE TidyInv'
  <2>1. Held(t)'
    BY <1>1, <1>7, PoppedHeld DEF Leave
  <2>2. Kept'
    BY <1>1, <1>7 DEF Kept, Leave, Discard, Pop, Scope, CommitsKept, RolledBack, Own
  <2>3. \A u \in Tasks \ {t} : ctx'[u] = ctx[u] /\ pending'[u] = pending[u]
    BY <1>1, <1>7 DEF Kept, Leave, Discard, Pop, Scope
  <2> QED
    BY <1>2, <1>7, <2>1, <2>2, <2>3 DEF Leave
<1>8. ASSUME NEW t \in Tasks, Unwind(t) PROVE TidyInv'
  <2>1. Open(t)
    BY <1>1, <1>8 DEF Unwind, Held, HeldAny
  <2>2. /\ Wrote(t) \subseteq Own(t) /\ Own(t) \subseteq Writes
        /\ t \in Tidy => Wrote(t) \cap stored = {}
    BY <1>1, <2>1, WroteInnermost DEF Own
  <2>3. Held(t)'
    BY <1>1, <1>8, <2>1, PoppedHeld DEF Unwind
  <2>4. escaped' = escaped \cup Wrote(t) /\ UNCHANGED <<registry, stored, acked>>
    BY <1>8 DEF Unwind
  <2>5. RolledBack'
    <3> SUFFICES ASSUME NEW u \in Tidy PROVE escaped' \cap stored' \cap Own(u) = {}
      BY DEF RolledBack, Own
    <3>1. escaped \cap stored \cap Own(u) = {}
      BY <1>1 DEF Kept, RolledBack
    <3>2. CASE u = t
      BY <2>2, <2>4, <3>1, <3>2
    <3>3. CASE u # t
      BY <2>2, <2>4, <3>1, <3>3, OwnDisjoint
    <3> QED
      BY <3>2, <3>3
  <2>6. CommitsKept'
    BY <1>1, <2>4 DEF Kept, CommitsKept, Own
  <2>7. Kept'
    BY <1>1, <1>8, <2>2, <2>4, <2>5, <2>6 DEF Kept, Unwind, Discard, Pop, Scope
  <2>8. \A u \in Tasks \ {t} : ctx'[u] = ctx[u] /\ pending'[u] = pending[u]
    BY <1>1, <1>8 DEF Kept, Unwind, Discard, Pop, Scope
  <2>9. raising' \ {t} = raising \ {t}
    BY <1>8 DEF Unwind
  <2> QED
    BY <1>2, <2>2, <2>3, <2>4, <2>7, <2>8, <2>9
<1>9. CASE UNCHANGED vars
  BY <1>9 DEF vars, TidyInv, TypeOK, CleanStart, TidyHeld, WritesOwned,
              CommitsKept, RolledBack, Own, Open, Depth, Wrote, Scope
<1> QED
  BY <1>3, <1>4, <1>5, <1>6, <1>7, <1>8, <1>9 DEF Next
------------------------------------------------------------------------------
\* The inductive invariant holds of every reachable state, however the tasks
\* that are not tidy nest their contexts.
THEOREM TidyInvariant == Spec => []TidyInv
<1>1. TidyInv /\ [Next]_vars => TidyInv'
  BY TidyStep
<1> QED
  BY <1>1, TidyInit, PTL DEF Spec

\* A session that no context has open holds nothing, whatever ended the last
\* one: what a task left uncommitted never turns up in its next context.
THEOREM CleanStartHolds == Spec => []CleanStart
<1>1. TidyInv => CleanStart
  BY DEF TidyInv
<1> QED
  BY <1>1, TidyInvariant, PTL

\* What a context of a tidy task committed is stored, whatever the other tasks
\* do: session's contract that committing is up to the caller is then enough.
THEOREM CommitsKeptHolds == Spec => []CommitsKept
<1>1. TidyInv => CommitsKept
  BY DEF TidyInv
<1> QED
  BY <1>1, TidyInvariant, PTL

\* What an exception carried out of a context of a tidy task uncommitted is
\* never stored: session's rollback undoes exactly that.
THEOREM RolledBackHolds == Spec => []RolledBack
<1>1. TidyInv => RolledBack
  BY DEF TidyInv
<1> QED
  BY <1>1, TidyInvariant, PTL

\* A step of a task changes its own session and stores only what is its own, so
\* whatever it commits, closes or rolls back, no other task loses or gains.
LEMMA StepIsOwn ==
    ASSUME TidyInv, Next, NEW u \in Tasks, ctx'[u] # ctx[u]
    PROVE  /\ \A v \in Tasks \ {u} : pending'[v] = pending[v]
           /\ pending[u] \subseteq Own(u) /\ pending'[u] \subseteq Own(u)
           /\ stored' \subseteq stored \cup Own(u) /\ stored \subseteq stored'
<1>1. PICK t \in Tasks : \/ Enter(t) \/ Commit(t) \/ Raise(t) \/ Leave(t) \/ Unwind(t)
                         \/ \E w \in Writes : Write(t, w)
  BY DEF Next
<1>2. DOMAIN ctx = Tasks /\ pending \in [Tasks -> SUBSET Writes] /\ pending[u] \subseteq Own(u)
  BY DEF TidyInv, TypeOK, WritesOwned
<1>3. t = u
  BY <1>1, <1>2 DEF Enter, Commit, Raise, Leave, Unwind, Write, SetWrote, Pop
<1>4. /\ \/ pending' = pending
         \/ pending' = [pending EXCEPT ![u] = {}]
         \/ \E w \in Own(u) : pending' = [pending EXCEPT ![u] = @ \cup {w}]
      /\ stored' = stored \/ stored' = stored \cup pending[u]
  BY <1>1, <1>3 DEF Enter, Commit, Raise, Leave, Unwind, Write, Discard, Scope
<1>5. CASE pending' = pending \/ pending' = [pending EXCEPT ![u] = {}]
  BY <1>2, <1>4, <1>5
<1>6. CASE \E w \in Own(u) : pending' = [pending EXCEPT ![u] = @ \cup {w}]
  BY <1>2, <1>4, <1>6
<1> QED
  BY <1>4, <1>5, <1>6

\* Tasks scoped to sessions of their own never touch each other's writes.
THEOREM IsolationHolds == Spec => Isolation
<1> DEFINE Apart ==
      \A t, u \in Tasks :
         t # u /\ ctx'[u] # ctx[u] =>
            /\ \A v \in Tasks : pending'[v] \cap Own(t) = pending[v] \cap Own(t)
            /\ stored' \cap Own(t) = stored \cap Own(t)
<1>1. TidyInv /\ [Next]_vars => [Apart]_vars
  <2> SUFFICES ASSUME TidyInv, Next, NEW t \in Tasks, NEW u \in Tasks,
                      t # u, ctx'[u] # ctx[u]
               PROVE  /\ \A v \in Tasks : pending'[v] \cap Own(t) = pending[v] \cap Own(t)
                      /\ stored' \cap Own(t) = stored \cap Own(t)
    OBVIOUS
  <2> QED
    BY StepIsOwn, OwnDisjoint
<1>2. Isolation <=> [][Apart]_vars
  BY DEF Isolation
<1> HIDE DEF Apart
<1> QED
  BY <1>1, <1>2, TidyInvariant, PTL DEF Spec

\* Sessions and contexts stay within their types, however contexts nest.
THEOREM TypeCorrect == Spec => []TypeOK
<1>1. TidyInv => TypeOK
  BY DEF TidyInv
<1> QED
  BY <1>1, TidyInvariant, PTL
------------------------------------------------------------------------------
(* A context of a tidy task is a transaction                                  *)

\* The transaction of a task, as the ledger sees it.
Mine(t) == IF Open(t) THEN Wrote(t) ELSE {}

\* What a step of t means for the ledger: nothing but t's transaction changes in
\* what tasks hold, and what is stored, told or undone besides is t's own.
LEMMA OthersHold ==
    ASSUME NEW t, NEW u \in Tasks, u # t, ctx'[u] = ctx[u]
    PROVE  Mine(u)' = Mine(u)
BY DEF Mine, Open, Wrote, Depth

\* A context that ends leaves one around it, of a tidy task, with nothing.
LEMMA PoppedMine ==
    ASSUME NEW t \in Tidy, Held(t), Open(t), DOMAIN ctx = Tasks, Pop(t)
    PROVE  Mine(t)' = {}
<1> DEFINE p == SubSeq(ctx[t], 1, Depth(t) - 1)
<1>1. /\ p \in Seq(SUBSET Writes) /\ Len(p) = Depth(t) - 1
      /\ \A i \in 1 .. Len(p) : p[i] = ctx[t][i]
  BY TidyAssumption, PopKeeps DEF Held, HeldAny, Open, Depth
<1>2. ctx'[t] = p
  BY TidyAssumption DEF Pop
<1>3. Depth(t) \in Nat \ {0}
  BY TidyAssumption, WroteInnermost
<1> HIDE DEF p
<1>4. \A i \in 1 .. Len(p) : p[i] = {}
  BY <1>1, <1>3 DEF Held, HeldTidy
<1>5. p # <<>> => p[Len(p)] = {}
  BY <1>1, <1>4, EmptySeq
<1> QED
  BY <1>2, <1>5 DEF Mine, Open, Wrote, Depth

\* A write or a commit leaves the innermost context with what it says.
LEMMA ReplacedMine ==
    ASSUME NEW t \in Tasks, Held(t), Open(t), DOMAIN ctx = Tasks,
           NEW ws \in SUBSET Writes, SetWrote(t, ws)
    PROVE  Mine(t)' = ws
<1> DEFINE c == [ctx[t] EXCEPT ![Depth(t)] = ws]
<1>1. /\ c \in Seq(SUBSET Writes) /\ Len(c) = Depth(t) /\ c # <<>>
      /\ c[Depth(t)] = ws
  BY ReplaceKeeps DEF Held, HeldAny, Open, Depth
<1>2. ctx'[t] = c
  BY DEF SetWrote
<1> HIDE DEF c
<1> QED
  BY <1>1, <1>2 DEF Mine, Open, Wrote, Depth

\* Entering a context begins with nothing, where a tidy task had nothing.
LEMMA EnteredMine ==
    ASSUME NEW t \in Tidy, Held(t), DOMAIN ctx = Tasks, Enter(t)
    PROVE  Mine(t)' = {} /\ Mine(t) = {}
<1> DEFINE c == Append(ctx[t], {})
<1>0. t \in Tasks /\ ctx[t] \in Seq(SUBSET Writes) /\ {} \in SUBSET Writes
  BY TidyAssumption DEF Held, HeldAny
<1>1. /\ Len(c) = Depth(t) + 1 /\ c # <<>>
      /\ c[Depth(t) + 1] = {}
  BY <1>0, AppendKeeps DEF Depth
<1>2. ctx'[t] = c
  BY <1>0 DEF Enter
<1> HIDE DEF c
<1> QED
  BY <1>1, <1>2 DEF Enter, Mine, Open, Wrote, Depth

LEMMA TransactionsStep ==
    ASSUME TidyInv, [Next]_vars
    PROVE  [Ledger!Next]_Ledger!ledger
<1> DEFINE H == [u \in Tidy |-> Mine(u)]
<1>1. Kept /\ \A u \in Tasks : Held(u)
  BY TidySplit
<1>2. DOMAIN ctx = Tasks /\ pending \in [Tasks -> SUBSET Writes] /\ Tidy \subseteq Tasks
  BY <1>1, TidyAssumption DEF Kept
<1>3. TidyWrites' = TidyWrites
  BY DEF TidyWrites
<1>4. ASSUME NEW t \in Tasks, \A u \in Tasks \ {t} : ctx'[u] = ctx[u],
             t \notin Tidy,
             \E ws \in SUBSET Own(t) : stored' = stored \cup ws,
             \E ws \in SUBSET Own(t) : acked' = acked \cup ws,
             \E ws \in SUBSET Own(t) : escaped' = escaped \cup ws
      PROVE  UNCHANGED Ledger!ledger
  <2>1. Own(t) \cap TidyWrites = {}
    BY <1>4 DEF Own, TidyWrites
  <2>2. \A u \in Tidy : Mine(u)' = Mine(u)
    BY <1>2, <1>4, OthersHold
  <2>3. H' = H
    BY <2>2
  <2>4. /\ stored' \cap TidyWrites = stored \cap TidyWrites
        /\ acked' \cap TidyWrites = acked \cap TidyWrites
        /\ escaped' \cap TidyWrites = escaped \cap TidyWrites
    BY <1>4, <2>1
  <2> QED
    BY <1>3, <2>3, <2>4 DEF Ledger!ledger, Mine
<1>5. ASSUME NEW t \in Tidy, NEW ws, \A u \in Tasks \ {t} : ctx'[u] = ctx[u], Mine(t)' = ws
      PROVE  H' = [H EXCEPT ![t] = ws]
  <2>1. \A u \in Tidy \ {t} : Mine(u)' = Mine(u)
    BY <1>2, <1>5, OthersHold
  <2> QED
    BY <1>5, <2>1
<1>6. ASSUME NEW t \in Tidy
      PROVE  /\ t \in Tasks /\ Held(t) /\ HeldTidy(t)
             /\ Own(t) \subseteq TidyWrites
             /\ Open(t) => Mine(t) = Wrote(t) /\ Wrote(t) \subseteq Own(t)
             /\ ~Open(t) => Mine(t) = {}
             /\ t \in raising => Open(t)
  <2>1. t \in Tasks /\ Held(t) /\ HeldTidy(t) /\ (t \in raising => Open(t))
    BY <1>1, <1>2 DEF Held, HeldAny
  <2> QED
    BY <2>1, WroteInnermost DEF Mine, Own, TidyWrites
<1>7. ASSUME NEW t \in Tasks, Enter(t) PROVE [Ledger!Next]_Ledger!ledger
  <2>1. /\ \A u \in Tasks \ {t} : ctx'[u] = ctx[u]
        /\ UNCHANGED <<stored, acked, escaped>>
    BY <1>2, <1>7 DEF Enter
  <2>2. CASE t \notin Tidy
    <3>1. {} \in SUBSET Own(t)
      OBVIOUS
    <3> QED
      BY <1>4, <2>1, <2>2, <3>1
  <2>3. CASE t \in Tidy
    <3>1. Mine(t)' = {} /\ Mine(t) = {}
      BY <1>2, <1>6, <1>7, <2>3, EnteredMine
    <3>2. H' = H
      BY <1>5, <2>1, <2>3, <3>1
    <3> QED
      BY <1>3, <2>1, <3>2 DEF Ledger!ledger, Mine
  <2> QED
    BY <2>2, <2>3
<1>8. ASSUME NEW t \in Tasks, NEW w \in Writes, Write(t, w) PROVE [Ledger!Next]_Ledger!ledger
  <2>1. /\ \A u \in Tasks \ {t} : ctx'[u] = ctx[u]
        /\ UNCHANGED <<stored, acked, escaped>>
    BY <1>2, <1>8 DEF Write, SetWrote
  <2>2. CASE t \notin Tidy
    <3>1. {} \in SUBSET Own(t)
      OBVIOUS
    <3> QED
      BY <1>4, <2>1, <2>2, <3>1
  <2>3. CASE t \in Tidy
    <3>1. /\ w \in Own(t) /\ w \notin stored \cup escaped /\ Open(t)
          /\ SetWrote(t, Wrote(t) \cup {w})
          /\ \A i \in 1 .. Depth(t) : w \notin ctx[t][i]
      BY <1>8 DEF Write
    <3>2. w \in TidyWrites /\ Wrote(t) \cup {w} \in SUBSET Writes /\ Mine(t) = Wrote(t)
      BY <1>6, <2>3, <3>1 DEF Own
    <3>3. Mine(t)' = Mine(t) \cup {w}
      BY <1>2, <1>6, <2>3, <3>1, <3>2, ReplacedMine
    <3>4. H' = [H EXCEPT ![t] = @ \cup {w}]
      BY <1>5, <2>1, <2>3, <3>3
    <3>5. \A u \in Tidy : w \notin H[u]
      <4> SUFFICES ASSUME NEW u \in Tidy PROVE w \notin Mine(u)
        OBVIOUS
      <4>1. CASE u = t
        <5>1. Depth(t) \in Nat \ {0}
          BY <1>6, <2>3, <3>1, WroteInnermost
        <5> QED
          BY <3>1, <3>2, <4>1, <5>1 DEF Wrote
      <4>2. CASE u # t
        BY <1>6, <3>1, <4>2, OwnDisjoint
      <4> QED
        BY <4>1, <4>2
    <3>6. Ledger!Add(t, w)
      BY <1>3, <2>1, <3>1, <3>4, <3>5 DEF Ledger!Add, Mine
    <3> QED
      BY <2>3, <3>2, <3>6 DEF Ledger!Next
  <2> QED
    BY <2>2, <2>3
<1>9. ASSUME NEW t \in Tasks, Commit(t) PROVE [Ledger!Next]_Ledger!ledger
  <2>1. /\ \A u \in Tasks \ {t} : ctx'[u] = ctx[u]
        /\ stored' = stored \cup pending[t] /\ acked' = acked \cup Wrote(t)
        /\ escaped' = escaped /\ SetWrote(t, {}) /\ Open(t) /\ t \notin raising
    BY <1>2, <1>9 DEF Commit, SetWrote, Scope
  <2>2. CASE t \notin Tidy
    <3>1. pending[t] \in SUBSET Own(t) /\ Wrote(t) \in SUBSET Own(t) /\ {} \in SUBSET Own(t)
      BY <1>1, <2>1, WroteInnermost DEF Held, HeldAny
    <3> QED
      BY <1>4, <2>1, <2>2, <3>1
  <2>3. CASE t \in Tidy
    <3>1. /\ pending[t] = Mine(t) /\ Wrote(t) = Mine(t) /\ Mine(t) \subseteq TidyWrites
      BY <1>6, <2>1, <2>3 DEF HeldTidy
    <3>2. Mine(t)' = {}
      BY <1>2, <1>6, <2>1, <2>3, ReplacedMine
    <3>3. H' = [H EXCEPT ![t] = {}] /\ H[t] = Mine(t)
      BY <1>5, <2>1, <2>3, <3>2
    <3>4. /\ stored' \cap TidyWrites = (stored \cap TidyWrites) \cup H[t]
          /\ acked' \cap TidyWrites = (acked \cap TidyWrites) \cup H[t]
          /\ escaped' \cap TidyWrites = escaped \cap TidyWrites
      BY <2>1, <3>1, <3>3
    <3>5. Ledger!Commit(t)
      BY <1>3, <3>3, <3>4 DEF Ledger!Commit, Ledger!End, Mine
    <3> QED
      BY <2>3, <3>5 DEF Ledger!Next
  <2> QED
    BY <2>2, <2>3
<1>10. ASSUME NEW t \in Tasks, Raise(t) PROVE [Ledger!Next]_Ledger!ledger
  <2>1. UNCHANGED <<ctx, stored, acked, escaped>>
    BY <1>10 DEF Raise
  <2>2. H' = H
    BY <2>1 DEF Mine, Open, Wrote, Depth
  <2> QED
    BY <1>3, <2>1, <2>2 DEF Ledger!ledger, Mine
<1>11. ASSUME NEW t \in Tasks, Leave(t) PROVE [Ledger!Next]_Ledger!ledger
  <2>1. /\ \A u \in Tasks \ {t} : ctx'[u] = ctx[u]
        /\ UNCHANGED <<stored, acked, escaped>> /\ Pop(t) /\ Open(t)
    BY <1>2, <1>11 DEF Leave, Pop
  <2>2. CASE t \notin Tidy
    <3>1. {} \in SUBSET Own(t)
      OBVIOUS
    <3> QED
      BY <1>4, <2>1, <2>2, <3>1
  <2>3. CASE t \in Tidy
    <3>1. Mine(t)' = {}
      BY <1>2, <1>6, <2>1, <2>3, PoppedMine
    <3>2. H' = [H EXCEPT ![t] = {}]
      BY <1>5, <2>1, <2>3, <3>1
    <3>3. Ledger!Abandon(t)
      BY <1>3, <2>1, <3>2 DEF Ledger!Abandon, Ledger!End, Mine
    <3> QED
      BY <2>3, <3>3 DEF Ledger!Next
  <2> QED
    BY <2>2, <2>3
<1>12. ASSUME NEW t \in Tasks, Unwind(t) PROVE [Ledger!Next]_Ledger!ledger
  <2>1. /\ \A u \in Tasks \ {t} : ctx'[u] = ctx[u]
        /\ UNCHANGED <<stored, acked>> /\ escaped' = escaped \cup Wrote(t) /\ Pop(t)
    BY <1>2, <1>12 DEF Unwind, Pop
  <2>2. Open(t)
    BY <1>1, <1>12 DEF Unwind, Held, HeldAny
  <2>3. CASE t \notin Tidy
    <3>1. Wrote(t) \in SUBSET Own(t) /\ {} \in SUBSET Own(t)
      BY <1>1, <2>2, WroteInnermost
    <3> QED
      BY <1>4, <2>1, <2>3, <3>1
  <2>4. CASE t \in Tidy
    <3>1. Mine(t)' = {}
      BY <1>2, <1>6, <2>1, <2>2, <2>4, PoppedMine
    <3>2. H' = [H EXCEPT ![t] = {}] /\ H[t] = Mine(t)
      BY <1>5, <2>1, <2>4, <3>1
    <3>3. escaped' \cap TidyWrites = (escaped \cap TidyWrites) \cup H[t]
      BY <1>6, <2>1, <2>2, <2>4, <3>2
    <3>4. Ledger!Undo(t)
      BY <1>3, <2>1, <3>2, <3>3 DEF Ledger!Undo, Ledger!End, Mine
    <3> QED
      BY <2>4, <3>4 DEF Ledger!Next
  <2> QED
    BY <2>3, <2>4
<1>13. CASE UNCHANGED vars
  <2>1. H' = H
    BY <1>13 DEF vars, Mine, Open, Wrote, Depth
  <2> QED
    BY <1>3, <1>13, <2>1 DEF vars, Ledger!ledger, Mine
<1> QED
  BY <1>7, <1>8, <1>9, <1>10, <1>11, <1>12, <1>13 DEF Next

\* session makes a context of a tidy task a transaction, for any tasks and writes:
\* TaskSessions implements TransactionLedger.
THEOREM ImplementsTransactionsHolds == Spec => ImplementsTransactions
<1>1. Init => Ledger!Init
  BY TidyAssumption DEF Init, Ledger!Init, Open
<1>2. TidyInv /\ [Next]_vars => [Ledger!Next]_Ledger!ledger
  BY TransactionsStep
<1>3. ImplementsTransactions <=> Ledger!Init /\ [][Ledger!Next]_Ledger!ledger
  BY DEF ImplementsTransactions, Ledger!Spec
<1> QED
  BY <1>1, <1>2, <1>3, TidyInvariant, PTL DEF Spec

\* Nesting a context where something is uncommitted is the only way to lose a
\* commit: where no task does it, every commit is kept, whatever else happens.
THEOREM EveryCommitKeptIfTidy ==
    ASSUME Tidy = Tasks
    PROVE  Spec => []EveryCommitKept
<1>1. TidyInv => EveryCommitKept
  BY AuthorAssumption DEF TidyInv, TypeOK, CommitsKept, EveryCommitKept, Own
<1> QED
  BY <1>1, TidyInvariant, PTL
===============================================================================
