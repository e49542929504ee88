--------------------------- MODULE MCWorkerRuntime ---------------------------
(* An instance of WorkerRuntime: two plain workers and a shadow worker.      *)
EXTENDS WorkerRuntime

CONSTANTS mail, jobs, clock, Mail, Jobs, Clock

NamesOfClasses ==
    [c \in Classes |-> CASE c = Mail -> mail [] c = Jobs -> jobs [] c = Clock -> clock]

\* A program may ask for a worker that is not registered, or for a shadow one.
SomeRequests == {<<jobs, mail>>, <<clock>>}
=============================================================================
