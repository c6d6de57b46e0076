------------------------------ MODULE GroupLog ------------------------------
(***************************************************************************)
(* What the commit protocol promises to everything above it: one log of    *)
(* commits that only grows, one at a time, and every device at a position  *)
(* of it.  A device advances commit by commit, may be carried forward by a *)
(* Welcome, may fall back - a rollback - and may leave the group           *)
(* altogether; two devices at the same position have the same group state. *)
(***************************************************************************)
EXTENDS Integers, Sequences

CONSTANTS Devices, Founders, CommitIds

VARIABLES log, view

vars == <<log, view>>

(* view[d] = -1 when d holds no group state. *)
Init ==
    /\ log = <<>>
    /\ view = [d \in Devices |-> IF d \in Founders THEN 0 ELSE -1]

(* The author of a commit may find itself at the new position at once. *)
Extend ==
    \E c \in CommitIds :
        /\ \A i \in 1 .. Len(log) : log[i] # c
        /\ log' = Append(log, c)
        /\ \/ UNCHANGED view
           \/ \E d \in Devices : /\ view[d] = Len(log)
                                 /\ view' = [view EXCEPT ![d] = Len(log) + 1]

Advance(d) ==
    /\ view[d] >= 0
    /\ view[d] < Len(log)
    /\ view' = [view EXCEPT ![d] = @ + 1]
    /\ UNCHANGED log

(* By a Welcome, never backwards. *)
Join(d) ==
    /\ \E p \in 1 .. Len(log) : p > view[d] /\ view' = [view EXCEPT ![d] = p]
    /\ UNCHANGED log

(* A rollback undoes one commit. *)
FallBack(d) ==
    /\ view[d] >= 1
    /\ view' = [view EXCEPT ![d] = @ - 1]
    /\ UNCHANGED log

Leave(d) ==
    /\ view[d] # -1
    /\ view' = [view EXCEPT ![d] = -1]
    /\ UNCHANGED log

Next == Extend \/ \E d \in Devices : Advance(d) \/ Join(d) \/ FallBack(d) \/ Leave(d)

Spec == Init /\ [][Next]_vars

=============================================================================
