---------------------------- MODULE MCMlsCommits ----------------------------
(* Small instances of MlsCommits. *)
EXTENDS MlsCommits

CONSTANTS phone, laptop

Pair == {phone, laptop}
OneSlot == {1}

=============================================================================
