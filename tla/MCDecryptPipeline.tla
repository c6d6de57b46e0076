-------------------------- MODULE MCDecryptPipeline --------------------------
(* Small instances of DecryptPipeline. *)
EXTENDS DecryptPipeline

One == {1}
Two == {1, 2}

Use == [sent |-> Two, mine |-> {}, later |-> {}, kinds |-> {}, passes |-> Two,
        overlap |-> FALSE, fails |-> FALSE, crashes |-> FALSE]

(* An own message and one of another user, with all passes but a clear;    *)
(* messages of two epochs, replayed and retried; one message, replays and  *)
(* clears, one at a time, that overlap with what is received, failures and *)
(* crashes.                                                                *)
Reads == [Use EXCEPT !.mine = {1}, !.kinds = {"load", "replay", "retry"}]
Epochs == [Use EXCEPT !.later = {2}, !.kinds = {"replay", "retry"}]
Clears == [Use EXCEPT !.sent = {1}, !.kinds = {"clear", "replay"}, !.passes = One,
                      !.overlap = TRUE, !.fails = TRUE, !.crashes = TRUE]
ReadsEpochsClears == {Reads, Epochs, Clears}

=============================================================================
