------------------------- MODULE MCMlsCoordinator --------------------------
(* Instances of MlsCoordinator for TLC. *)
EXTENDS MlsCoordinator, TLC

CONSTANTS c1, c2, c3

NoTimers == {}
TwoTimers == {1, 2}
Each(kinds) == [c \in Calls |-> kinds]

(* Any two calls; commits one after another, for ever; and an ensure       *)
(* between two decryptions, which may find the conversation in             *)
(* ApplyingCommit.                                                         *)
AnyTwo == [calls |-> {c1, c2}, kinds |-> Each(AllKinds), repeat |-> FALSE, faults |-> 1,
           epochs |-> 2]
Commits == [calls |-> {c1}, kinds |-> Each({"commit", "catchup"}), repeat |-> TRUE,
            faults |-> 4, epochs |-> 3]
Barrier == [calls |-> {c1, c2, c3}, repeat |-> FALSE, faults |-> 0, epochs |-> 2,
            kinds |-> c1 :> {"decrypt"} @@ c2 :> {"ensure"} @@ c3 :> {"decrypt"}]
AllUses == {AnyTwo, Commits, Barrier}

=============================================================================
