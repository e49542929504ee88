--------------------------- MODULE RepositoryCalls ---------------------------
(* Calls of BaseRepository and BaseIDRepository by several tasks on one       *)
(* table.  A call is one or two transactions of a few statements; what the    *)
(* first of them read may be stale when the second runs.                      *)
(*                                                                            *)
(* A schema is the set of options its model_dump leaves: a column, a command  *)
(* ("bare" for a key without "__") and a value.                               *)
EXTENDS Integers, Functions

CONSTANTS
    Tasks,
    Ids,        \* what the sequence of the primary key hands out, each once
    Columns,    \* columns of the model, without the primary key
    Key,        \* the column with a unique index
    Records,    \* rows, as functions from Columns
    Refused,    \* the records another constraint refuses, as a foreign key does
    Null,
    Texts,      \* values that are strings
    Part,       \* the pairs of texts of which the first occurs in the second
    Simple,     \* values of type int, float, str or bool
    Lists,      \* the texts a string with commas splits into, as sets
    Schemas,    \* what read_by_options and delete_by_options are called with
    Changes,    \* the keyword arguments of update_by_id
    Batches,    \* the items of insert_many
    Unborn, Gone, None

ASSUME RecordsAssumption ==
    /\ Unborn # Gone /\ Unborn \notin Records /\ Gone \notin Records
    /\ None \notin Ids
    /\ Batches \subseteq SUBSET Records

ASSUME ChangesAssumption ==
    \A r \in Records, change \in Changes :
        [c \in Columns |-> IF c \in DOMAIN change THEN change[c] ELSE r[c]] \in Records

VARIABLES
    row,    \* each record, Unborn before its insert and Gone after its delete
    frame   \* the call of each task: the await it is at, or its reply

vars == <<row, frame>>

\* known: the identifier the call was given had been issued when it began.
NoCall == [at |-> "idle", op |-> "none", id |-> None, known |-> FALSE, did |-> FALSE,
           reply |-> "none"]

Call(op) == [NoCall EXCEPT !.op = op]

Init ==
    /\ row = [i \in Ids |-> Unborn]
    /\ frame = [t \in Tasks |-> NoCall]

Live == {i \in Ids : row[i] \in Records}

\* What the sequence has handed out; a call may be given another identifier too.
Issued == {i \in Ids : row[i] # Unborn}

At(t, at) == frame[t].at = at

Goto(t, f) == frame' = [frame EXCEPT ![t] = f]

Answer(t, f, reply) == Goto(t, [f EXCEPT !.at = "idle", !.reply = reply])

CallOn(op, i) == [Call(op) EXCEPT !.id = i, !.known = i \in Issued]

------------------------------------------------------------------------------
(* dict_to_sqlalchemy_filter_options                                          *)

Comparisons == {"eq", "ne", "lt", "lte", "gt", "gte"}

\* A comparison with NULL is never true.
Compares(command, cell, v) ==
    /\ cell # Null
    /\ CASE command = "eq"  -> cell = v
         [] command = "ne"  -> cell # v
         [] command = "lt"  -> cell < v
         [] command = "lte" -> cell <= v
         [] command = "gt"  -> cell > v
         [] command = "gte" -> cell >= v

\* The condition of one option: LIKE '%v%' for a bare string.
Holds(o, r) ==
    LET cell == r[o.column] IN
    CASE o.command = "bare"   -> IF o.value \in Texts THEN <<o.value, cell>> \in Part
                                 ELSE cell = o.value
      [] o.command = "in"     -> cell \in o.value
      [] o.command = "isnull" -> (cell = Null) = o.value
      [] OTHER -> Compares(o.command, cell, o.value)

\* Keys of no column and unknown commands leave no condition.
Translated(schema) ==
    {o \in schema : /\ o.column \in Columns
                    /\ o.command \in {"bare", "in", "isnull"} \cup Comparisons}

\* TypeError for a bare value of another type, AttributeError for a list that is
\* no string, and ValueError for a key with two "__", of a column or not.
Raises(schema) ==
    \E o \in schema :
        \/ o.command = "split"
        \/ o.column \in Columns /\ o.command = "bare" /\ o.value \notin Simple
        \/ o.column \in Columns /\ o.command = "in" /\ o.value \notin Lists

\* and_(True, ...): no condition selects every row.
Matches(schema, r) == \A o \in Translated(schema) : Holds(o, r)

Selected(schema) == {i \in Live : Matches(schema, row[i])}

------------------------------------------------------------------------------
(* create and insert_many                                                     *)

\* IntegrityError, be it the unique index or another constraint.
Conflicts(r) == r \in Refused \/ \E i \in Live : row[i][Key] = r[Key]

\* Variant of Create: the database hands an identifier out again.
CreateReusing(t, r) ==
    /\ At(t, "idle")
    /\ \/ /\ Conflicts(r)
          /\ Answer(t, Call("create"), "duplicated")
          /\ UNCHANGED row
       \/ /\ ~Conflicts(r)
          /\ \E i \in Ids \ Live :
               /\ row' = [row EXCEPT ![i] = r]
               /\ Goto(t, [Call("create") EXCEPT !.at = "refresh", !.id = i, !.did = TRUE])

\* Every IntegrityError is a DuplicatedError.
Create(t, r) ==
    /\ At(t, "idle")
    /\ \/ /\ Conflicts(r)
          /\ Answer(t, Call("create"), "duplicated")
          /\ UNCHANGED row
       \/ /\ ~Conflicts(r)
          /\ \E i \in Ids \ Issued :
               /\ row' = [row EXCEPT ![i] = r]
               /\ Goto(t, [Call("create") EXCEPT !.at = "refresh", !.id = i, !.did = TRUE])

\* The instance is read again after the commit, which raises when it is gone.
Refresh(t) ==
    /\ At(t, "refresh")
    /\ Answer(t, frame[t], IF frame[t].id \in Live THEN "ok" ELSE "error")
    /\ UNCHANGED row

\* One statement and one commit for all items; an IntegrityError is passed on.
InsertMany(t, batch) ==
    /\ At(t, "idle")
    /\ \/ /\ \E r \in batch : Conflicts(r) \/ \E q \in batch \ {r} : q[Key] = r[Key]
          /\ Answer(t, Call("insert"), "error")
          /\ UNCHANGED row
       \/ /\ \A r \in batch : ~Conflicts(r) /\ \A q \in batch \ {r} : q[Key] # r[Key]
          /\ \E place \in Injection(batch, Ids \ Issued) :
               row' = [i \in Ids |-> IF i \in Range(place)
                                     THEN CHOOSE r \in batch : place[r] = i ELSE row[i]]
          /\ Answer(t, [Call("insert") EXCEPT !.did = TRUE], "ok")

------------------------------------------------------------------------------
(* update_by_id and the readers                                               *)

\* Columns the arguments do not name keep their values.
Changed(r, change) ==
    [c \in Columns |-> IF c \in DOMAIN change THEN change[c] ELSE r[c]]

\* Variant of Update: done is reported from here.
UpdateBlind(t, i, change) ==
    LET new  == Changed(row[i], change)
        call == CallOn("update", i)
    IN
    /\ At(t, "idle")
    /\ \/ /\ i \in Live
          /\ new \notin Refused /\ \A j \in Live \ {i} : row[j][Key] # new[Key]
          /\ row' = [row EXCEPT ![i] = new]
          /\ Answer(t, [call EXCEPT !.did = TRUE], "ok")
       \/ /\ i \notin Live
          /\ Answer(t, call, "ok")
          /\ UNCHANGED row

\* UPDATE ... WHERE id and its commit, which pay no heed to the rows they
\* found; an IntegrityError is passed on.
Update(t, i, change) ==
    LET others == Live \ {i}
        new    == Changed(row[i], change)
        call   == CallOn("update", i)
    IN
    /\ At(t, "idle")
    /\ \/ /\ i \in Live
          /\ new \in Refused \/ \E j \in others : row[j][Key] = new[Key]
          /\ Answer(t, call, "error")
          /\ UNCHANGED row
       \/ /\ i \in Live
          /\ new \notin Refused /\ \A j \in others : row[j][Key] # new[Key]
          /\ row' = [row EXCEPT ![i] = new]
          /\ Goto(t, [call EXCEPT !.at = "reread", !.did = TRUE])
       \/ /\ i \notin Live
          /\ Goto(t, [call EXCEPT !.at = "reread"])
          /\ UNCHANGED row

ReadById(t, i) ==
    /\ At(t, "idle")
    /\ Goto(t, [CallOn("read", i) EXCEPT !.at = "reread"])
    /\ UNCHANGED row

\* read_by_id, also as the end of update_by_id.
Reread(t) ==
    /\ At(t, "reread")
    /\ Answer(t, frame[t], IF frame[t].id \in Live THEN "ok" ELSE "missing")
    /\ UNCHANGED row

\* read_by_options and, with no option, read_all: the reply is Selected(schema).
ReadByOptions(t, schema) ==
    /\ At(t, "idle")
    /\ Answer(t, Call("list"), IF Raises(schema) THEN "error" ELSE "ok")
    /\ UNCHANGED row

------------------------------------------------------------------------------
(* delete_by_options and delete_by_id                                         *)

\* The first row of the result, in no fixed order, is the one to delete.
SelectByOptions(t, schema) ==
    /\ At(t, "idle")
    /\ \/ /\ Raises(schema)
          /\ Answer(t, Call("delete"), "error")
       \/ /\ ~Raises(schema)
          /\ Selected(schema) = {}
          /\ Answer(t, Call("delete"), "missing")
       \/ /\ ~Raises(schema)
          /\ \E i \in Selected(schema) :
               Goto(t, [CallOn("delete", i) EXCEPT !.at = "delete"])
    /\ UNCHANGED row

SelectById(t, i) ==
    /\ At(t, "idle")
    /\ \/ /\ i \notin Live
          /\ Answer(t, CallOn("drop", i), "missing")
       \/ /\ i \in Live
          /\ Goto(t, [CallOn("drop", i) EXCEPT !.at = "delete"])
    /\ UNCHANGED row

\* DELETE by primary key and its commit: it takes the row as it is by now, and
\* of one already gone it only warns.
DeleteRow(t) ==
    LET i == frame[t].id IN
    /\ At(t, "delete")
    /\ row' = [row EXCEPT ![i] = Gone]
    /\ Answer(t, [frame[t] EXCEPT !.did = i \in Live], "ok")

\* A database error or a cancellation; a transaction under way is rolled back.
Abort(t) ==
    /\ ~At(t, "idle")
    /\ Answer(t, frame[t], "cut")
    /\ UNCHANGED row

------------------------------------------------------------------------------
Start(t) ==
    \/ \E r \in Records : Create(t, r)
    \/ \E batch \in Batches : InsertMany(t, batch)
    \/ \E i \in Ids : \/ \E change \in Changes : Update(t, i, change)
                      \/ ReadById(t, i) \/ SelectById(t, i)
    \/ \E schema \in Schemas : ReadByOptions(t, schema) \/ SelectByOptions(t, schema)

Proceed(t) == Refresh(t) \/ Reread(t) \/ DeleteRow(t)

Next == \E t \in Tasks : Start(t) \/ Proceed(t) \/ Abort(t)

Spec == Init /\ [][Next]_vars

------------------------------------------------------------------------------
(* Properties                                                                 *)

Frames ==
    [at : {"idle", "refresh", "reread", "delete"},
     op : {"none", "create", "insert", "update", "read", "list", "delete", "drop"},
     id : Ids \cup {None}, known : BOOLEAN, did : BOOLEAN,
     reply : {"none", "ok", "missing", "duplicated", "error", "cut"}]

\* A call at an await is about a record, which has been inserted if it was
\* found or known.
TypeOK ==
    /\ row \in [Ids -> Records \cup {Unborn, Gone}]
    /\ frame \in [Tasks -> Frames]
    /\ \A t \in Tasks : LET f == frame[t] IN
        /\ f.known => f.id \in Issued
        /\ f.at # "idle" => f.id \in Ids
        /\ (f.at # "idle" /\ f.did) \/ f.at = "delete" => f.id \in Issued

\* What a call tells of a record it was right to ask for is true, and stays
\* true, whatever ran between its transactions: a record reported missing or
\* deleted is gone for good, one reported as refused was not stored, a create or
\* update reported as done was done by this call, and one that took effect and
\* raises, though nothing cut it off, is of a record that is gone by then.
\* update_by_id never looks at how many rows its UPDATE found: this is why it
\* may tell from the read that follows.
TellsTheTruth ==
    \A t \in Tasks : LET f == frame[t] IN
        /\ f.reply = "missing" /\ f.known => row[f.id] = Gone
        /\ f.reply = "ok" /\ f.op \in {"delete", "drop"} => f.id # None /\ row[f.id] = Gone
        /\ f.reply = "ok" /\ f.op = "create" => f.did
        /\ f.reply = "ok" /\ f.op = "update" /\ f.known => f.did
        /\ f.reply = "duplicated" => ~f.did
        /\ f.reply \in {"missing", "error"} /\ f.did => f.id # None /\ row[f.id] = Gone

\* What the steps of all the tasks keep together: an update of a known record
\* that found no row will find none when it reads, and a refresh follows an
\* insert.
CallInv ==
    /\ TypeOK
    /\ TellsTheTruth
    /\ \A t \in Tasks : LET f == frame[t] IN
        /\ At(t, "refresh") => f.op = "create" /\ f.did
        /\ At(t, "reread") => \/ f.op = "update" /\ (f.did \/ (f.known => row[f.id] = Gone))
                              \/ f.op = "read"
        /\ At(t, "delete") => f.op \in {"delete", "drop"}
=============================================================================
