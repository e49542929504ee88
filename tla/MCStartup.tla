------------------------------ MODULE MCStartup ------------------------------
(* An instance of Startup with two containers.  The first lists two providers *)
(* called "password", the second one of another name: the name of "other",    *)
(* which may be added, is taken in the first and free in the second.  What f1 *)
(* asks for is in the class of the first container only.                      *)
EXTENDS Startup, TLC

CONSTANTS first, second, old, own, oauth, other, f1, t1, t2

Lists == [c \in Containers |-> IF c = first THEN <<old, own>> ELSE <<oauth>>]

Markers == [c \in Containers |-> IF c = first THEN {f1} ELSE {}]

Names == [p \in Providers |-> IF p = oauth THEN "oauth" ELSE "password"]

\* Sound: the threads of the pool are alike, and the properties are safety.
Alike == Permutations(Threads)
=============================================================================
