-------------------------- MODULE MCRepositoryCalls --------------------------
(* An instance of RepositoryCalls: a text column with a unique index and a    *)
(* number that may be NULL, and a schema for each kind of option.             *)
EXTENDS RepositoryCalls, TLC

CONSTANTS a, ab, Date

TwoColumns == {"name", "size"}

AllRecords == [name : {a, ab}, size : {0, 1, Null}]

RefusedRecords == {[name |-> ab, size |-> 0]}

AWithinAb == {<<a, a>>, <<a, ab>>, <<ab, ab>>}

SimpleValues == {0, 1, a, ab}

SomeChanges == {[size |-> 0], [name |-> ab]}

SomeBatches == {{[name |-> a, size |-> 1], [name |-> ab, size |-> Null]},
                {[name |-> ab, size |-> 1], [name |-> ab, size |-> Null]}}

Option(column, command, value) == [column |-> column, command |-> command, value |-> value]

\* Every kind of option, with what it ignores and what it raises for.
SomeSchemas == {
    {},
    {Option("name", "bare", a)},
    {Option("name", "eq", a)},
    {Option("size", "bare", 0)},
    {Option("size", "ne", 0)},
    {Option("size", "isnull", TRUE)},
    {Option("size", "isnull", FALSE)},
    {Option("name", "in", {ab}), Option("size", "lte", 1)},
    {Option("size", "lt", 1), Option("size", "gte", 0)},
    {Option("size", "gt", 0), Option("colour", "bare", a)},
    {Option("name", "like", a)},
    {Option("name", "bare", Date)},
    {Option("name", "in", Date)},
    {Option("colour", "split", a)}}

SplitTexts == {{a}, {ab}, {a, ab}}

\* Tasks and identifiers are interchangeable, and every property is of safety.
Symmetry == Permutations(Tasks) \cup Permutations(Ids)
=============================================================================
