------------------------------ MODULE MCSession ------------------------------
(* Session with model values. *)
EXTENDS Session

CONSTANTS a, b

TwoAccounts == {a, b}

\* The user waits and everything else fails, or the user does not wait.
Apart == {{"blip", "kill", "revoke"}, {"intrude", "block"}}
=============================================================================
