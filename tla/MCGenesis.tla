------------------------------ MODULE MCGenesis ------------------------------
(* Small instances of Genesis: one device of each of two users. *)
EXTENDS Genesis

CONSTANTS phone, laptop

Pair == {phone, laptop}

(* The server hands out a key package of the other one. *)
EachOther == [d \in Pair |-> {Pair \ {d}}]

=============================================================================
