---------------------------- MODULE MCPasswordAuth ----------------------------
(* Instances of PasswordAuth: requests race for a login with two passwords.   *)
EXTENDS PasswordAuth

CONSTANTS l1, l2, a, b, t1, t2
===============================================================================
