------------------------ MODULE RepositoryCallsProofs ------------------------
(* Proofs about RepositoryCalls, for any tasks, records and schemas.          *)
EXTENDS RepositoryCalls, TLAPS

\* What a frame f must say of a table r at any time.
FrameOK(f, r) ==
    /\ f.known => f.id \in Ids /\ r[f.id] # Unborn
    /\ f.at # "idle" => f.id \in Ids
    /\ (f.at # "idle" /\ f.did) \/ f.at = "delete" => r[f.id] # Unborn
    /\ f.reply = "missing" /\ f.known => r[f.id] = Gone
    /\ f.reply = "ok" /\ f.op \in {"delete", "drop"} => f.id # None /\ r[f.id] = Gone
    /\ f.reply = "ok" /\ f.op = "create" => f.did
    /\ f.reply = "ok" /\ f.op = "update" /\ f.known => f.did
    /\ f.reply = "duplicated" => ~f.did
    /\ f.reply \in {"missing", "error"} /\ f.did => f.id # None /\ r[f.id] = Gone
    /\ f.at = "refresh" => f.op = "create" /\ f.did
    /\ f.at = "reread" => \/ f.op = "update" /\ (f.did \/ (f.known => r[f.id] = Gone))
                          \/ f.op = "read"
    /\ f.at = "delete" => f.op \in {"delete", "drop"}

\* The invariant, said frame by frame.
InvByFrame ==
    /\ row \in [Ids -> Records \cup {Unborn, Gone}]
    /\ frame \in [Tasks -> Frames]
    /\ \A t \in Tasks : FrameOK(frame[t], row)

LEMMA CallInvByFrame == CallInv <=> InvByFrame
BY DEF CallInv, TypeOK, TellsTheTruth, FrameOK, At, InvByFrame, Issued

\* Records that are issued stay issued, and what is gone stays gone.
Grows(r, q) == \A i \in Ids : /\ r[i] # Unborn => q[i] # Unborn
                              /\ r[i] = Gone => q[i] = Gone

\* A frame that is right stays right while the table only grows.
LEMMA FrameStays ==
    ASSUME NEW f \in Frames, NEW r, NEW q, FrameOK(f, r), Grows(r, q)
    PROVE  FrameOK(f, q)
<1>1. f.id \in Ids \/ f.id = None
  BY DEF Frames
<1>2. f.id \in Ids => /\ r[f.id] # Unborn => q[f.id] # Unborn
                      /\ r[f.id] = Gone => q[f.id] = Gone
  BY DEF Grows
<1> QED BY <1>1, <1>2, RecordsAssumption DEF FrameOK

\* A step that moves the frame of one task to one that is right, over a table
\* that grows, keeps the invariant.
LEMMA Preserved ==
    ASSUME InvByFrame, Grows(row, row'), row' \in [Ids -> Records \cup {Unborn, Gone}],
           NEW t \in Tasks, NEW f \in Frames, Goto(t, f), FrameOK(f, row')
    PROVE  InvByFrame'
<1>1. /\ frame' \in [Tasks -> Frames]
      /\ frame'[t] = f
      /\ \A u \in Tasks \ {t} : frame'[u] = frame[u]
  BY DEF Goto, InvByFrame
<1>2. \A u \in Tasks : frame[u] \in Frames /\ FrameOK(frame[u], row)
  BY DEF InvByFrame
<1>3. \A u \in Tasks : FrameOK(frame[u], row')
  BY <1>2, FrameStays
<1>4. \A u \in Tasks : FrameOK(frame'[u], row')
  BY <1>1, <1>3
<1> QED BY <1>1, <1>4 DEF InvByFrame

\* A table that is left alone grows, and so does one with a record written to
\* an identifier that was not gone, or one that goes.
LEMMA GrowingSteps ==
    ASSUME InvByFrame
    PROVE  /\ row' = row => Grows(row, row')
           /\ \A i \in Ids, r \in Records :
                row[i] # Gone /\ row' = [row EXCEPT ![i] = r] => Grows(row, row')
           /\ \A i \in Ids : row[i] # Unborn /\ row' = [row EXCEPT ![i] = Gone] =>
                Grows(row, row')
BY RecordsAssumption DEF Grows, InvByFrame

LEMMA CreateStep ==
    ASSUME InvByFrame, NEW t \in Tasks, NEW r \in Records, Create(t, r)
    PROVE  InvByFrame'
<1>1. ASSUME Answer(t, Call("create"), "duplicated"), UNCHANGED row
      PROVE  InvByFrame'
  <2> DEFINE f == [Call("create") EXCEPT !.at = "idle",
                                         !.reply = "duplicated"]
  <2>1. f \in Frames /\ FrameOK(f, row')
    BY DEF Call, NoCall, Frames, FrameOK
  <2>2. Goto(t, f)
    BY <1>1 DEF Answer
  <2> HIDE DEF f
  <2> QED BY <1>1, <2>1, <2>2, Preserved, GrowingSteps DEF InvByFrame
<1>2. ASSUME NEW i \in Ids \ Issued, row' = [row EXCEPT ![i] = r],
             Goto(t, [Call("create") EXCEPT !.at = "refresh", !.id = i, !.did = TRUE])
      PROVE  InvByFrame'
  <2> DEFINE f == [Call("create") EXCEPT !.at = "refresh", !.id = i, !.did = TRUE]
  <2>1. row[i] = Unborn
    BY DEF Issued
  <2>2. row' \in [Ids -> Records \cup {Unborn, Gone}] /\ row'[i] # Unborn
    BY <1>2, RecordsAssumption DEF InvByFrame
  <2>3. f \in Frames /\ FrameOK(f, row')
    BY <2>2, RecordsAssumption DEF Call, NoCall, Frames, FrameOK
  <2>4. Goto(t, f)
    BY <1>2
  <2>5. Grows(row, row')
    BY <1>2, <2>1, GrowingSteps, RecordsAssumption
  <2> HIDE DEF f
  <2> QED BY <2>2, <2>3, <2>4, <2>5, Preserved
<1> QED BY <1>1, <1>2 DEF Create

LEMMA InsertStep ==
    ASSUME InvByFrame, NEW t \in Tasks, NEW batch \in Batches, InsertMany(t, batch)
    PROVE  InvByFrame'
<1>1. ASSUME Answer(t, Call("insert"), "error"), UNCHANGED row
      PROVE  InvByFrame'
  <2> DEFINE f == [Call("insert") EXCEPT !.at = "idle",
                                         !.reply = "error"]
  <2>1. f \in Frames /\ FrameOK(f, row')
    BY DEF Call, NoCall, Frames, FrameOK
  <2>2. Goto(t, f)
    BY <1>1 DEF Answer
  <2> HIDE DEF f
  <2> QED BY <1>1, <2>1, <2>2, Preserved, GrowingSteps DEF InvByFrame
<1>2. ASSUME NEW place \in Injection(batch, Ids \ Issued),
             row' = [i \in Ids |-> IF i \in Range(place)
                                   THEN CHOOSE r \in batch : place[r] = i ELSE row[i]],
             Answer(t, [Call("insert") EXCEPT !.did = TRUE], "ok")
      PROVE  InvByFrame'
  <2>1. place \in [batch -> Ids \ Issued] /\ batch \subseteq Records
    BY <1>2, RecordsAssumption DEF Injection
  <2>2. ASSUME NEW i \in Ids, i \in Range(place)
        PROVE  row'[i] \in Records /\ row[i] = Unborn
    <3>1. PICK r \in batch : place[r] = i
      BY <2>1, <2>2 DEF Range
    <3>2. (CHOOSE q \in batch : place[q] = i) \in batch
      BY <3>1
    <3>3. i \in Ids \ Issued
      BY <2>1, <3>1
    <3> QED BY <1>2, <2>1, <2>2, <3>2, <3>3 DEF Issued
  <2>3. ASSUME NEW i \in Ids, i \notin Range(place)
        PROVE  row'[i] = row[i] /\ row[i] \in Records \cup {Unborn, Gone}
    BY <1>2, <2>3 DEF InvByFrame
  <2>4. row' \in [Ids -> Records \cup {Unborn, Gone}]
    BY <1>2, <2>2, <2>3
  <2>5. Grows(row, row')
    BY <2>2, <2>3, RecordsAssumption DEF Grows
  <2> DEFINE f == [[Call("insert") EXCEPT !.did = TRUE]
                      EXCEPT !.at = "idle", !.reply = "ok"]
  <2>6. f \in Frames /\ FrameOK(f, row')
    BY DEF Call, NoCall, Frames, FrameOK
  <2>7. Goto(t, f)
    BY <1>2 DEF Answer
  <2> HIDE DEF f
  <2> QED BY <2>4, <2>5, <2>6, <2>7, Preserved
<1> QED BY <1>1, <1>2 DEF InsertMany

\* A call that replies over a table it leaves alone.
LEMMA Answered ==
    ASSUME InvByFrame, NEW t \in Tasks, NEW f \in Frames, UNCHANGED row,
           NEW reply \in {"ok", "missing", "duplicated", "error", "cut"},
           Answer(t, f, reply),
           f.known => f.id \in Ids /\ row[f.id] # Unborn,
           reply = "missing" /\ f.known => row[f.id] = Gone,
           reply = "ok" => f.op \notin {"delete", "drop"},
           reply = "ok" /\ f.op = "create" => f.did,
           reply = "ok" /\ f.op = "update" /\ f.known => f.did,
           reply = "duplicated" => ~f.did,
           reply \in {"missing", "error"} /\ f.did => f.id # None /\ row[f.id] = Gone
    PROVE  InvByFrame'
<1> DEFINE g == [f EXCEPT !.at = "idle", !.reply = reply]
<1>1. /\ g \in Frames /\ g.at = "idle" /\ g.reply = reply
      /\ g.op = f.op /\ g.id = f.id /\ g.did = f.did /\ g.known = f.known
  BY DEF Frames
<1>2. g.reply = "ok" /\ g.op \in {"delete", "drop"} => FALSE
  BY <1>1
<1>3. Goto(t, g)
  BY DEF Answer
<1> HIDE DEF g
<1>4. FrameOK(g, row')
  BY <1>1, <1>2 DEF FrameOK
<1> QED BY <1>1, <1>3, <1>4, Preserved, GrowingSteps DEF InvByFrame

\* A call that goes on to an await without writing.
LEMMA Awaited ==
    ASSUME InvByFrame, NEW t \in Tasks, NEW f \in Frames, UNCHANGED row, Goto(t, f),
           FrameOK(f, row)
    PROVE  InvByFrame'
BY Preserved, GrowingSteps DEF InvByFrame

LEMMA CallsAreFrames == \A op \in {"create", "insert", "update", "read", "list",
                                   "delete", "drop"} :
    /\ Call(op) \in Frames /\ Call(op).op = op /\ Call(op).id = None
    /\ ~Call(op).did /\ ~Call(op).known
BY DEF Call, NoCall, Frames

\* A call that was given an identifier.
LEMMA CallsOnAreFrames ==
    ASSUME NEW op \in {"update", "read", "delete", "drop"}, NEW i \in Ids
    PROVE  /\ CallOn(op, i) \in Frames
           /\ CallOn(op, i).op = op /\ CallOn(op, i).id = i /\ ~CallOn(op, i).did
           /\ CallOn(op, i).at = "idle" /\ CallOn(op, i).reply = "none"
           /\ CallOn(op, i).known <=> row[i] # Unborn
<1> DEFINE k == i \in Issued
           c == [[NoCall EXCEPT !.op = op] EXCEPT !.id = i, !.known = k]
<1>1. k \in BOOLEAN /\ (k <=> row[i] # Unborn)
  BY DEF Issued
<1> HIDE DEF k
<1>2. c \in Frames /\ c.op = op /\ c.id = i /\ ~c.did /\ c.at = "idle" /\ c.reply = "none"
      /\ c.known = k
  BY <1>1 DEF NoCall, Frames
<1>3. CallOn(op, i) = c
  BY DEF CallOn, Call, k
<1> HIDE DEF c
<1> QED BY <1>1, <1>2, <1>3

LEMMA UpdateStep ==
    ASSUME InvByFrame, NEW t \in Tasks, NEW i \in Ids, NEW change \in Changes,
           Update(t, i, change)
    PROVE  InvByFrame'
<1> DEFINE call == CallOn("update", i)
           new  == Changed(row[i], change)
<1>1. /\ call \in Frames /\ call.op = "update" /\ call.id = i /\ ~call.did
      /\ call.reply = "none" /\ (call.known <=> row[i] # Unborn)
  BY CallsOnAreFrames
<1>2. ASSUME Answer(t, call, "error"), UNCHANGED row
      PROVE  InvByFrame'
  <2> HIDE DEF call
  <2> QED BY <1>1, <1>2, Answered
<1>3. ASSUME i \in Live, row' = [row EXCEPT ![i] = new],
             Goto(t, [call EXCEPT !.at = "reread", !.did = TRUE])
      PROVE  InvByFrame'
  <2> DEFINE f == [call EXCEPT !.at = "reread", !.did = TRUE]
  <2>1. new \in Records
    BY <1>3, ChangesAssumption DEF Changed, Live
  <2>2. row' \in [Ids -> Records \cup {Unborn, Gone}] /\ row'[i] = new
    BY <1>3, <2>1 DEF InvByFrame
  <2> HIDE DEF call
  <2>3. /\ f \in Frames /\ f.at = "reread" /\ f.did /\ f.id = i /\ f.op = "update"
        /\ f.reply = "none"
    BY <1>1 DEF Frames
  <2>4. Goto(t, f)
    BY <1>3
  <2> HIDE DEF f
  <2>5. FrameOK(f, row')
    BY <2>1, <2>2, <2>3, RecordsAssumption DEF FrameOK
  <2>6. Grows(row, row')
    <3>1. row[i] # Gone
      BY <1>3, RecordsAssumption DEF Live
    <3> HIDE DEF new
    <3> QED BY <1>3, <2>1, <3>1, GrowingSteps
  <2> QED BY <2>2, <2>3, <2>4, <2>5, <2>6, Preserved
<1>4. ASSUME i \notin Live, Goto(t, [call EXCEPT !.at = "reread"]), UNCHANGED row
      PROVE  InvByFrame'
  <2> DEFINE f == [call EXCEPT !.at = "reread"]
  <2>1. row[i] # Unborn => row[i] = Gone
    BY <1>4 DEF InvByFrame, Live
  <2> HIDE DEF call
  <2>2. /\ f \in Frames /\ f.at = "reread" /\ ~f.did /\ f.id = i /\ f.op = "update"
        /\ f.reply = "none" /\ (f.known <=> row[i] # Unborn)
    BY <1>1 DEF Frames
  <2>3. Goto(t, f)
    BY <1>4
  <2> HIDE DEF f
  <2>4. FrameOK(f, row)
    BY <2>1, <2>2 DEF FrameOK
  <2> QED BY <1>4, <2>2, <2>3, <2>4, Awaited
<1> QED BY <1>2, <1>3, <1>4 DEF Update

LEMMA ReadStep ==
    ASSUME InvByFrame, NEW t \in Tasks,
           \/ Reread(t) \/ Refresh(t)
           \/ \E i \in Ids : ReadById(t, i)
           \/ \E schema \in Schemas : ReadByOptions(t, schema)
    PROVE  InvByFrame'
<1> DEFINE g == frame[t]
<1>1. g \in Frames /\ FrameOK(g, row) /\ row \in [Ids -> Records \cup {Unborn, Gone}]
  BY DEF InvByFrame
<1>2. ASSUME Reread(t) PROVE InvByFrame'
  <2>1. g.at = "reread" /\ UNCHANGED row
    BY <1>2 DEF Reread, At
  <2>2. /\ g.id \in Ids /\ g.op \in {"update", "read"}
        /\ g.known \/ g.did => row[g.id] # Unborn
    BY <1>1, <2>1 DEF FrameOK
  <2>3. ASSUME g.id \in Live, Answer(t, g, "ok") PROVE InvByFrame'
    <3>1. row[g.id] # Gone
      BY <2>3, RecordsAssumption DEF Live
    <3>2. g.op = "update" /\ g.known => g.did
      BY <1>1, <2>1, <3>1 DEF FrameOK
    <3> HIDE DEF g
    <3> QED BY <1>1, <2>1, <2>2, <2>3, <3>2, Answered
  <2>4. ASSUME g.id \notin Live, Answer(t, g, "missing") PROVE InvByFrame'
    <3>1. g.known \/ g.did => row[g.id] = Gone /\ g.id # None
      BY <1>1, <2>2, <2>4, RecordsAssumption DEF Live
    <3> HIDE DEF g
    <3> QED BY <1>1, <2>1, <2>2, <2>4, <3>1, Answered
  <2> QED BY <1>2, <2>3, <2>4 DEF Reread
<1>3. ASSUME Refresh(t) PROVE InvByFrame'
  <2>1. g.op = "create" /\ g.did /\ UNCHANGED row
    BY <1>1, <1>3 DEF Refresh, At, FrameOK
  <2>2. g.id \in Ids /\ row[g.id] # Unborn /\ g.id # None
    BY <1>1, <1>3, <2>1, RecordsAssumption DEF Refresh, At, FrameOK
  <2>3. CASE g.id \in Live
    <3>1. Answer(t, g, "ok")
      BY <1>3, <2>3 DEF Refresh
    <3> HIDE DEF g
    <3> QED BY <1>1, <2>1, <2>2, <3>1, Answered
  <2>4. CASE g.id \notin Live
    <3>1. Answer(t, g, "error") /\ row[g.id] = Gone
      BY <1>1, <1>3, <2>2, <2>4 DEF Refresh, Live
    <3> HIDE DEF g
    <3> QED BY <1>1, <2>1, <2>2, <3>1, Answered
  <2> QED BY <2>3, <2>4
<1>4. ASSUME NEW i \in Ids, ReadById(t, i) PROVE InvByFrame'
  <2> DEFINE call == CallOn("read", i)
             f == [call EXCEPT !.at = "reread"]
  <2>1. Goto(t, f) /\ UNCHANGED row
    BY <1>4 DEF ReadById
  <2> HIDE DEF call
  <2>2. /\ f \in Frames /\ f.at = "reread" /\ ~f.did /\ f.id = i /\ f.op = "read"
        /\ f.reply = "none" /\ (f.known <=> row[i] # Unborn)
    BY CallsOnAreFrames DEF Frames, call
  <2> HIDE DEF f
  <2>3. FrameOK(f, row)
    BY <2>2 DEF FrameOK
  <2> QED BY <2>1, <2>2, <2>3, Awaited
<1>5. ASSUME NEW schema \in Schemas, ReadByOptions(t, schema) PROVE InvByFrame'
  <2>1. \/ Answer(t, Call("list"), "ok") \/ Answer(t, Call("list"), "error")
    BY <1>5 DEF ReadByOptions
  <2>2. UNCHANGED row
    BY <1>5 DEF ReadByOptions
  <2> QED BY <2>1, <2>2, CallsAreFrames, Answered
<1> QED BY <1>2, <1>3, <1>4, <1>5

\* A delete that has read its record goes on to delete it.
LEMMA Selecting ==
    ASSUME InvByFrame, NEW t \in Tasks, NEW op \in {"delete", "drop"}, NEW i \in Live,
           Goto(t, [CallOn(op, i) EXCEPT !.at = "delete"]), UNCHANGED row
    PROVE  InvByFrame'
<1> DEFINE call == CallOn(op, i)
           f == [call EXCEPT !.at = "delete"]
<1>1. i \in Ids /\ row[i] # Unborn
  BY RecordsAssumption DEF Live
<1>2. Goto(t, f)
  OBVIOUS
<1>3. /\ call \in Frames /\ call.op = op /\ call.id = i /\ ~call.did
      /\ call.reply = "none" /\ (call.known <=> row[i] # Unborn)
  BY <1>1, CallsOnAreFrames
<1> HIDE DEF call
<1>4. /\ f \in Frames /\ f.at = "delete" /\ ~f.did /\ f.id = i /\ f.op = op
      /\ f.reply = "none"
  BY <1>3 DEF Frames
<1> HIDE DEF f
<1>5. FrameOK(f, row)
  BY <1>1, <1>4 DEF FrameOK
<1> QED BY <1>2, <1>4, <1>5, Awaited

LEMMA SelectStep ==
    ASSUME InvByFrame, NEW t \in Tasks,
           \/ \E schema \in Schemas : SelectByOptions(t, schema)
           \/ \E i \in Ids : SelectById(t, i)
    PROVE  InvByFrame'
<1>1. ASSUME NEW schema \in Schemas, SelectByOptions(t, schema) PROVE InvByFrame'
  <2>1. ASSUME Answer(t, Call("delete"), "error") \/ Answer(t, Call("delete"), "missing")
        PROVE  InvByFrame'
    BY <1>1, <2>1, CallsAreFrames, Answered DEF SelectByOptions
  <2>2. ASSUME NEW i \in Selected(schema), Goto(t, [CallOn("delete", i) EXCEPT !.at = "delete"])
        PROVE  InvByFrame'
    BY <1>1, <2>2, Selecting DEF SelectByOptions, Selected
  <2> QED BY <1>1, <2>1, <2>2 DEF SelectByOptions
<1>2. ASSUME NEW i \in Ids, SelectById(t, i) PROVE InvByFrame'
  <2> DEFINE call == CallOn("drop", i)
  <2>1. call \in Frames /\ call.id = i /\ ~call.did /\ (call.known <=> row[i] # Unborn)
    BY CallsOnAreFrames
  <2>2. UNCHANGED row
    BY <1>2 DEF SelectById
  <2>3. ASSUME i \notin Live, Answer(t, call, "missing") PROVE InvByFrame'
    <3>1. row[i] # Unborn => row[i] = Gone
      BY <2>3 DEF InvByFrame, Live
    <3> HIDE DEF call
    <3> QED BY <2>1, <2>2, <2>3, <3>1, Answered
  <2> QED BY <1>2, <2>2, <2>3, Selecting DEF SelectById
<1> QED BY <1>1, <1>2

LEMMA DeleteStep ==
    ASSUME InvByFrame, NEW t \in Tasks, DeleteRow(t)
    PROVE  InvByFrame'
<1> DEFINE g == frame[t]
           h == [g EXCEPT !.did = g.id \in Live]
           f == [h EXCEPT !.at = "idle", !.reply = "ok"]
<1>1. g \in Frames /\ FrameOK(g, row) /\ g.at = "delete"
  BY DEF InvByFrame, DeleteRow, At
<1>2. g.id \in Ids /\ row[g.id] # Unborn /\ g.op \in {"delete", "drop"}
  BY <1>1 DEF FrameOK
<1>3. row' = [row EXCEPT ![g.id] = Gone] /\ Goto(t, f)
  BY DEF DeleteRow, Answer
<1>4. row' \in [Ids -> Records \cup {Unborn, Gone}] /\ row'[g.id] = Gone
  BY <1>2, <1>3 DEF InvByFrame
<1>5. Grows(row, row')
  BY <1>2, <1>3, GrowingSteps
<1>0. h \in Frames /\ h.op = g.op /\ h.id = g.id
  <2>1. (g.id \in Live) \in BOOLEAN
    OBVIOUS
  <2> DEFINE d == g.id \in Live
  <2> HIDE DEF d, g
  <2>2. [g EXCEPT !.did = d] \in Frames /\ [g EXCEPT !.did = d].op = g.op
        /\ [g EXCEPT !.did = d].id = g.id
    BY <1>1, <2>1 DEF Frames, d
  <2> QED BY <2>2 DEF d
<1> HIDE DEF g, h
<1>6. /\ f \in Frames /\ f.at = "idle" /\ f.reply = "ok" /\ f.op = g.op /\ f.id = g.id
  BY <1>0 DEF Frames
<1> HIDE DEF f
<1>7. FrameOK(f, row')
  BY <1>2, <1>4, <1>6, RecordsAssumption DEF FrameOK
<1> QED BY <1>3, <1>4, <1>5, <1>6, <1>7, Preserved

LEMMA AbortStep ==
    ASSUME InvByFrame, NEW t \in Tasks, Abort(t)
    PROVE  InvByFrame'
<1> DEFINE g == frame[t]
<1>1. g \in Frames /\ Answer(t, g, "cut") /\ UNCHANGED row
  BY DEF InvByFrame, Abort
<1>2. g.known => g.id \in Ids /\ row[g.id] # Unborn
  BY DEF InvByFrame, FrameOK
<1> HIDE DEF g
<1> QED BY <1>1, <1>2, Answered

LEMMA NextStep == InvByFrame /\ [Next]_vars => InvByFrame'
<1> SUFFICES ASSUME InvByFrame, [Next]_vars PROVE InvByFrame'
  OBVIOUS
<1>1. ASSUME NEW t \in Tasks, Start(t) PROVE InvByFrame'
  BY <1>1, CreateStep, InsertStep, UpdateStep, ReadStep, SelectStep DEF Start
<1>2. ASSUME NEW t \in Tasks, Proceed(t) PROVE InvByFrame'
  BY <1>2, ReadStep, DeleteStep DEF Proceed
<1>3. CASE UNCHANGED vars
  BY <1>3 DEF vars, InvByFrame
<1> QED BY <1>1, <1>2, <1>3, AbortStep DEF Next

LEMMA InitInv == Init => InvByFrame
BY RecordsAssumption DEF Init, InvByFrame, NoCall, Frames, FrameOK

\* What the transactions of concurrent calls keep together, for any number of
\* tasks, any records and any schemas.
THEOREM CallInvariant == Spec => []CallInv
<1>1. Spec => []InvByFrame
  BY InitInv, NextStep, PTL DEF Spec
<1>2. InvByFrame => CallInv
  BY CallInvByFrame
<1> QED BY <1>1, <1>2, PTL

\* Whatever runs between the transactions of a call, what it replies is true
\* and stays true.
THEOREM TellsTheTruthHolds == Spec => []TellsTheTruth
<1>1. CallInv => TellsTheTruth
  BY DEF CallInv
<1> QED BY <1>1, CallInvariant, PTL

\* Every state is well typed, and calls at an await are about issued records.
THEOREM TypeCorrect == Spec => []TypeOK
<1>1. CallInv => TypeOK
  BY DEF CallInv
<1> QED BY <1>1, CallInvariant, PTL

------------------------------------------------------------------------------
(* Laws of the filter, for any schemas and in any state of the table.         *)

\* Options narrow: the records of two schemas taken together are those both
\* select.
THEOREM OptionsNarrow ==
    ASSUME NEW s, NEW q
    PROVE  Selected(s \cup q) = Selected(s) \cap Selected(q)
BY DEF Selected, Matches, Translated

Opposite == {<<"eq", "ne">>, <<"lt", "gte">>, <<"gt", "lte">>}

\* Of two opposite comparisons with one value, each record that has a value in
\* the column satisfies just one, and a record with NULL there neither.
THEOREM ComparisonsSplit ==
    ASSUME NEW c \in Columns, NEW v \in Int, NEW pair \in Opposite, NEW r \in Records,
           r[c] = Null \/ r[c] \in Int
    PROVE  LET o == [column |-> c, command |-> pair[1], value |-> v]
               n == [column |-> c, command |-> pair[2], value |-> v]
           IN  IF r[c] = Null THEN ~Matches({o}, r) /\ ~Matches({n}, r)
               ELSE Matches({o}, r) <=> ~Matches({n}, r)
<1> DEFINE o == [column |-> c, command |-> pair[1], value |-> v]
           n == [column |-> c, command |-> pair[2], value |-> v]
<1>1. (Matches({o}, r) <=> Holds(o, r)) /\ (Matches({n}, r) <=> Holds(n, r))
  <2>0. pair[1] \in Comparisons /\ pair[2] \in Comparisons
    BY DEF Opposite, Comparisons
  <2>1. Translated({o}) = {o} /\ Translated({n}) = {n}
    BY <2>0 DEF Translated
  <2>2. \A x : Translated({x}) = {x} => (Matches({x}, r) <=> Holds(x, r))
    BY DEF Matches
  <2> HIDE DEF o, n
  <2> QED BY <2>1, <2>2
<1>2. /\ Holds(o, r) = Compares(pair[1], r[c], v)
      /\ Holds(n, r) = Compares(pair[2], r[c], v)
  BY DEF Holds, Opposite
<1>3. IF r[c] = Null THEN ~Compares(pair[1], r[c], v) /\ ~Compares(pair[2], r[c], v)
      ELSE Compares(pair[1], r[c], v) <=> ~Compares(pair[2], r[c], v)
  <2>1. CASE r[c] = Null
    BY <2>1 DEF Compares
  <2>2. CASE r[c] # Null
    <3>1. /\ Compares("eq", r[c], v) <=> r[c] = v
          /\ Compares("ne", r[c], v) <=> r[c] # v
          /\ Compares("lt", r[c], v) <=> r[c] < v
          /\ Compares("gte", r[c], v) <=> r[c] >= v
          /\ Compares("gt", r[c], v) <=> r[c] > v
          /\ Compares("lte", r[c], v) <=> r[c] <= v
      BY <2>2 DEF Compares
    <3>2. \/ pair[1] = "eq" /\ pair[2] = "ne"
          \/ pair[1] = "lt" /\ pair[2] = "gte"
          \/ pair[1] = "gt" /\ pair[2] = "lte"
      BY DEF Opposite
    <3> QED BY <2>2, <3>1, <3>2
  <2> QED BY <2>1, <2>2
<1> QED BY <1>1, <1>2, <1>3
=============================================================================
