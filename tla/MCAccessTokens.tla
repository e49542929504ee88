---------------------------- MODULE MCAccessTokens ----------------------------
(* An instance of AccessTokens: half seconds, another secret or algorithm     *)
(* after a rotation, lifetimes from expired-at-birth to endless.              *)
EXTENDS AccessTokens

SomeSettings ==
    [secret : {"old", "new"}, algorithm : {"HS256"}, lifetime : {3}]
        \cup {[secret |-> "old", algorithm |-> "HS512", lifetime |-> Never]}

SomeLifetimes == {-2, 0, 1, Default}
===============================================================================
