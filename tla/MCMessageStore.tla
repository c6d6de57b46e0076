---------------------------- MODULE MCMessageStore ----------------------------
(* Two accounts, two tasks. *)
EXTENDS MessageStore

CONSTANTS u1, u2, t1, t2

TwoUsers == {u1, u2}
OneUser == {u1}
TwoTasks == {t1, t2}
AnyWay == {{}, AllWays}
Calmly == {{}}
Elsewhere == {{"elsewhere"}}
=============================================================================
