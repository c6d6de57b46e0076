------------------------- MODULE ConversationProofs -------------------------
(***************************************************************************)
(* Theorems about one conversation on one device: about the coordinator    *)
(* that brings its group to READY and keeps it there (MlsCoordinator), and *)
(* about what the user sends in it (Sending).                              *)
(*                                                                         *)
(* The coordinator, for any set of calls and timers and any limits: one    *)
(* call at a time establishes the group, and a recovery clears no group    *)
(* that is good.  Sending, for any texts, bounds and faults: a text whose  *)
(* send wrote its record is in the outbox until it is in the message       *)
(* cache, whatever fails and whenever the app is killed.                   *)
(***************************************************************************)
EXTENDS MlsCoordinator, Sending, FiniteSetTheorems, WellFoundedInduction, TLAPS

USE DEF Procs

-----------------------------------------------------------------------------
(* The coordinator: types.                                                 *)

Kinds == AllKinds \cup {"none", "recovery"}
Called == [kind : Kinds, pc : Labels, epoch : Nat, waits : SUBSET Procs,
           ready : BOOLEAN, counts : BOOLEAN]

CallOK == call \in [Procs -> Called]
MemoryOK == /\ st \in States /\ held \subseteq Procs
            /\ attempts \in Nat /\ commitFailures \in Nat /\ decryptionFailures \in Nat
            /\ caughtUp \in BOOLEAN
StorageOK == /\ group \in [epoch : Int, forked : BOOLEAN]
             /\ tombstone \in Int /\ digests \subseteq Nat
ServerOK == /\ use \in Uses /\ head \in Nat /\ invites \subseteq Nat /\ row \in Nat
            /\ faults \in Nat
TypeInv == CallOK /\ MemoryOK /\ StorageOK /\ ServerOK

(* What a step of p does to the calls: p goes on as x, and a timer that    *)
(* was off may be armed.                                                   *)
Becomes(p, x) ==
    \A q \in Procs : LET was == IF q = p THEN x ELSE call[q] IN
        \/ call'[q] = was
        \/ q \in Timers /\ was.pc = "off" /\ call'[q] = [was EXCEPT !.pc = "armed"]

-----------------------------------------------------------------------------
(* The first of a set of timers.                                           *)

LEMMA MinIsIn ==
    ASSUME NEW S \in SUBSET Nat, S # {}
    PROVE  Min(S) \in S
<1> DEFINE R == OpToRel(<, Nat)
<1>1. IsWellFoundedOn(R, Nat)
    BY NatLessThanWellFounded
<1>2. \A x, y \in Nat : x < y => <<x, y>> \in R
    BY DEF OpToRel
<1> HIDE DEF R
<1>3. PICK m \in S : \A n \in S : ~(<<n, m>> \in R)
    BY <1>1, WFMin
<1>4. \A n \in S : m <= n
    <2> SUFFICES ASSUME NEW n \in S PROVE m <= n
        OBVIOUS
    <2>1. m \in Nat /\ n \in Nat /\ ~(n < m)
        BY <1>2, <1>3
    <2> QED
        BY <2>1
<1> QED
    BY <1>4 DEF Min

LEMMA TimerSet ==
    ASSUME NEW f \in [Procs -> Called]
    PROVE  /\ WithTimer(f) \in [Procs -> Called]
           /\ \A q \in Procs :
                \/ WithTimer(f)[q] = f[q]
                \/ q \in Timers /\ f[q].pc = "off" /\ WithTimer(f)[q] = [f[q] EXCEPT !.pc = "armed"]
<1> DEFINE unset == {t \in Timers : f[t].pc = "off"}
<1>1. CASE attempts >= MaxAttempts \/ unset = {}
    BY <1>1 DEF WithTimer
<1>2. CASE ~(attempts >= MaxAttempts \/ unset = {})
    <2>1. PICK t \in unset : t = Min(unset)
        BY <1>2, ConstantsAssumption, MinIsIn
    <2>2. WithTimer(f) = [f EXCEPT ![t].pc = "armed"]
        BY <1>2, <2>1 DEF WithTimer
    <2>3. [f[t] EXCEPT !.pc = "armed"] \in Called
        BY DEF Called, Labels
    <2>4. WithTimer(f) = [f EXCEPT ![t] = [f[t] EXCEPT !.pc = "armed"]]
        BY <2>2
    <2> QED
        BY <2>1, <2>3, <2>4
<1> QED
    BY <1>1, <1>2

-----------------------------------------------------------------------------
(* How a step changes the calls.                                           *)

Base(f, p) == f \in [Procs -> Called] /\ \A q \in Procs \ {p} : f[q] = call[q]
After(p, k, l, r) == \E x \in Called : x.kind = k /\ x.pc = l /\ x.ready = r /\ Becomes(p, x)

LEMMA Goes ==
    ASSUME NEW p \in Procs, NEW f, Base(f, p), NEW x \in Called,
           \/ call' = [f EXCEPT ![p] = x]
           \/ call' = WithTimer([f EXCEPT ![p] = x])
           \/ call' = WithTimer(WithTimer([f EXCEPT ![p] = x]))
    PROVE  CallOK' /\ Becomes(p, x)
<1>1. PICK g \in [Procs -> Called] : g = [f EXCEPT ![p] = x]
    BY DEF Base
<1>2. \A q \in Procs : g[q] = IF q = p THEN x ELSE call[q]
    BY <1>1 DEF Base
<1>3. CASE call' = g
    BY <1>2, <1>3 DEF Becomes, CallOK
<1>4. PICK h \in [Procs -> Called] :
         /\ h = WithTimer(g)
         /\ \A q \in Procs : \/ h[q] = g[q]
                             \/ q \in Timers /\ g[q].pc = "off" /\ h[q] = [g[q] EXCEPT !.pc = "armed"]
    <2>1. /\ WithTimer(g) \in [Procs -> Called]
          /\ \A q \in Procs :
                \/ WithTimer(g)[q] = g[q]
                \/ q \in Timers /\ g[q].pc = "off" /\ WithTimer(g)[q] = [g[q] EXCEPT !.pc = "armed"]
        BY TimerSet
    <2> QED
        BY <2>1
<1>5. CASE call' = h
    BY <1>2, <1>4, <1>5 DEF Becomes, CallOK
<1>6. PICK i \in [Procs -> Called] :
         /\ i = WithTimer(h)
         /\ \A q \in Procs : \/ i[q] = h[q]
                             \/ q \in Timers /\ h[q].pc = "off" /\ i[q] = [h[q] EXCEPT !.pc = "armed"]
    <2>1. /\ WithTimer(h) \in [Procs -> Called]
          /\ \A q \in Procs :
                \/ WithTimer(h)[q] = h[q]
                \/ q \in Timers /\ h[q].pc = "off" /\ WithTimer(h)[q] = [h[q] EXCEPT !.pc = "armed"]
        BY TimerSet
    <2> QED
        BY <2>1
<1>7. CASE call' = i
    <2>1. \A q \in Procs : \/ i[q] = g[q]
                           \/ q \in Timers /\ g[q].pc = "off" /\ i[q] = [g[q] EXCEPT !.pc = "armed"]
        <3> SUFFICES ASSUME NEW q \in Procs
                     PROVE  \/ i[q] = g[q]
                            \/ q \in Timers /\ g[q].pc = "off" /\ i[q] = [g[q] EXCEPT !.pc = "armed"]
            OBVIOUS
        <3>1. CASE h[q] = g[q]
            BY <1>6, <3>1
        <3>2. CASE h[q] # g[q]
            <4>1. h[q] = [g[q] EXCEPT !.pc = "armed"] /\ g[q] \in Called
                BY <1>4, <3>2
            <4>2. h[q].pc # "off"
                BY <4>1 DEF Called
            <4> QED
                BY <1>4, <1>6, <3>2, <4>2
        <3> QED
            BY <3>1, <3>2
    <2> QED
        BY <1>2, <1>7, <2>1 DEF Becomes, CallOK
<1> QED
    BY <1>1, <1>3, <1>4, <1>5, <1>6, <1>7

(* A label. *)
LEMMA Labelled ==
    ASSUME NEW p \in Procs, NEW f, Base(f, p), NEW l \in Labels,
           \/ call' = [f EXCEPT ![p].pc = l]
           \/ call' = WithTimer([f EXCEPT ![p].pc = l])
           \/ call' = WithTimer(WithTimer([f EXCEPT ![p].pc = l]))
    PROVE  CallOK' /\ After(p, f[p].kind, l, f[p].ready)
<1>1. PICK x : x = [f[p] EXCEPT !.pc = l]
    OBVIOUS
<1>2. x \in Called /\ x.pc = l /\ x.kind = f[p].kind /\ x.ready = f[p].ready
    BY <1>1 DEF Base, Called
<1>3. [f EXCEPT ![p].pc = l] = [f EXCEPT ![p] = x]
    BY <1>1
<1>4. CallOK' /\ Becomes(p, x)
    BY <1>2, <1>3, Goes
<1> QED
    BY <1>2, <1>4 DEF After

(* A label, and whom the call waits for. *)
LEMMA WaitsFor ==
    ASSUME NEW p \in Procs, NEW f, Base(f, p), NEW l \in Labels, NEW w \in SUBSET Procs,
           call' = [f EXCEPT ![p].pc = l, ![p].waits = w]
    PROVE  CallOK' /\ After(p, f[p].kind, l, f[p].ready)
<1>0. f[p] \in Called
    BY DEF Base
<1>1. PICK x : x = [f[p] EXCEPT !.pc = l, !.waits = w]
    OBVIOUS
<1>2. x \in Called /\ x.pc = l /\ x.kind = f[p].kind /\ x.ready = f[p].ready
    BY <1>0, <1>1 DEF Called
<1>3. [f EXCEPT ![p].pc = l, ![p].waits = w] = [f EXCEPT ![p] = x]
    BY <1>1 DEF Base
<1>4. CallOK' /\ Becomes(p, x)
    BY <1>2, <1>3, Goes
<1> QED
    BY <1>2, <1>4 DEF After

(* A label, and whether the conversation was READY. *)
LEMMA Readied ==
    ASSUME NEW p \in Procs, NEW f, Base(f, p), NEW l \in Labels, NEW r \in BOOLEAN,
           call' = [f EXCEPT ![p].pc = l, ![p].ready = r]
    PROVE  CallOK' /\ After(p, f[p].kind, l, r)
<1>0. f[p] \in Called
    BY DEF Base
<1>1. PICK x : x = [f[p] EXCEPT !.pc = l, !.ready = r]
    OBVIOUS
<1>2. x \in Called /\ x.pc = l /\ x.kind = f[p].kind /\ x.ready = r
    BY <1>0, <1>1 DEF Called
<1>3. [f EXCEPT ![p].pc = l, ![p].ready = r] = [f EXCEPT ![p] = x]
    BY <1>1 DEF Base
<1>4. CallOK' /\ Becomes(p, x)
    BY <1>2, <1>3, Goes
<1> QED
    BY <1>2, <1>4 DEF After

(* The calls as they are, and with one that begins. *)
LEMMA CallIsBase ==
    ASSUME CallOK, NEW p \in Procs
    PROVE  Base(call, p) /\ call[p] \in Called
BY DEF CallOK, Base

Begins(p, k, e) ==
    Base(Begin(p, k, e), p) /\ Begin(p, k, e)[p].kind = k /\ Begin(p, k, e)[p].ready = FALSE

LEMMA BeginIsBase ==
    ASSUME CallOK, NEW p \in Procs, NEW k \in Kinds, NEW e \in Nat
    PROVE  Begins(p, k, e)
<1>1. PICK x : x = [Blank EXCEPT !.kind = k, !.epoch = e]
    OBVIOUS
<1>2. x \in Called /\ x.kind = k /\ x.ready = FALSE
    BY <1>1 DEF Blank, Called, Labels
<1>3. Begin(p, k, e) = [call EXCEPT ![p] = x]
    BY <1>1 DEF Begin
<1> QED
    BY <1>2, <1>3 DEF CallOK, Base, Begins

(* A label, and whether the failure counts, with or without a timer. *)
LEMMA Counted ==
    ASSUME CallOK, NEW p \in Procs, NEW l \in Labels, NEW b \in BOOLEAN,
           \/ call' = [Goto(p, l) EXCEPT ![p].counts = b]
           \/ call' = WithTimer([Goto(p, l) EXCEPT ![p].counts = b])
    PROVE  CallOK' /\ After(p, call[p].kind, l, call[p].ready)
<1>0. call[p] \in Called
    BY DEF CallOK
<1>1. PICK x : x = [call[p] EXCEPT !.pc = l, !.counts = b]
    OBVIOUS
<1>2. x \in Called /\ x.pc = l /\ x.kind = call[p].kind /\ x.ready = call[p].ready
    BY <1>0, <1>1 DEF Called
<1>3. [Goto(p, l) EXCEPT ![p].counts = b] = [call EXCEPT ![p] = x]
    BY <1>1 DEF Goto, CallOK
<1>4. CallOK' /\ Becomes(p, x)
    BY <1>2, <1>3, CallIsBase, Goes
<1> QED
    BY <1>2, <1>4 DEF After

(* A call goes on at a label, its timer set or not. *)
LEMMA GoesOn ==
    ASSUME CallOK, NEW p \in Procs, NEW l \in Labels,
           \/ call' = Goto(p, l)
           \/ call' = WithTimer(Goto(p, l))
           \/ call' = WithTimer(WithTimer(Goto(p, l)))
    PROVE  CallOK' /\ After(p, call[p].kind, l, call[p].ready)
BY CallIsBase, Labelled DEF Goto

(* A call ends, its timer set or not. *)
LEMMA Ends ==
    ASSUME CallOK, NEW p \in Procs,
           call' = Ended(p) \/ call' = WithTimer(Ended(p))
    PROVE  CallOK' /\ After(p, call[p].kind, IF p \in Timers THEN "off" ELSE "done", call[p].ready)
BY GoesOn DEF Ended, Labels

(* What follows the method that applies commits. *)
LEMMA FollowsSuccess ==
    ASSUME CallOK, NEW p \in Procs, call' = AfterSuccess(p)
    PROVE  CallOK' /\ \E l \in {"retry", "done"} :
              /\ l = "retry" => call[p].kind = "decrypt"
              /\ After(p, call[p].kind, l, call[p].ready)
<1>1. CASE call[p].kind = "decrypt"
    BY <1>1, GoesOn DEF AfterSuccess, Labels
<1>2. CASE call[p].kind # "decrypt"
    BY <1>2, GoesOn DEF AfterSuccess, Labels
<1> QED
    BY <1>1, <1>2

LEMMA FollowsFailure ==
    ASSUME CallOK, MemoryOK, NEW p \in Procs,
           call' = AfterFailure(p) \/ call' = WithTimer(AfterFailure(p))
    PROVE  CallOK' /\ \E l \in {"heal", "done"} :
              /\ l = "heal" => call[p].kind = "decrypt"
              /\ After(p, call[p].kind, l, call[p].ready)
<1>1. CASE call[p].kind = "decrypt"
    <2>1. "heal" \in Labels /\ caughtUp \in BOOLEAN
        BY DEF Labels, MemoryOK
    <2>2. AfterFailure(p) = [Goto(p, "heal") EXCEPT ![p].counts = caughtUp]
        BY <1>1 DEF AfterFailure
    <2> QED
        BY <1>1, <2>1, <2>2, Counted
<1>2. CASE call[p].kind # "decrypt"
    <2>1. "done" \in Labels /\ AfterFailure(p) = Goto(p, "done")
        BY <1>2 DEF AfterFailure, Labels
    <2> QED
        BY <1>2, <2>1, GoesOn
<1> QED
    BY <1>1, <1>2

-----------------------------------------------------------------------------
(* What a step leaves of the right types in memory and in storage.         *)

LEMMA EnterTypes ==
    ASSUME MemoryOK, NEW t \in States \ {"UNKNOWN"}, Enter(t)
    PROVE  st' \in States /\ decryptionFailures' \in Nat
BY DEF MemoryOK, Enter, From, States

LEMMA RemainTypes ==
    ASSUME MemoryOK, Remain
    PROVE  st' \in States /\ decryptionFailures' \in Nat
BY DEF MemoryOK, Remain

LEMMA KnownStates ==
    {"EMPTY", "JOINING", "INITIALIZING", "READY", "APPLYING", "FAILED"} \subseteq States \ {"UNKNOWN"}
BY DEF States, Allowed

LEMMA FaultTypes ==
    ASSUME ServerOK, Fault \/ NoFault
    PROVE  faults' \in Nat
BY DEF ServerOK, Fault, NoFault

LEMMA WelcomeTypes ==
    ASSUME StorageOK, ServerOK, NEW w \in Nat, NEW r, ProcessWelcome(w, r)
    PROVE  StorageOK' /\ ServerOK'
<1>1. faults' \in Nat
    BY FaultTypes DEF ProcessWelcome
<1>2. UNCHANGED <<tombstone, head, invites, use>>
    BY DEF ProcessWelcome
<1>3. /\ digests' = digests \/ digests' = digests \cup {w}
      /\ row' = row \/ row' = 0
      /\ group' = group \/ group' = [epoch |-> w, forked |-> FALSE]
    BY DEF ProcessWelcome
<1>4. digests' \subseteq Nat
    BY <1>3 DEF StorageOK
<1>5. row' \in Nat
    BY <1>3 DEF ServerOK
<1>6. group' \in [epoch : Int, forked : BOOLEAN]
    <2>1. CASE group' = group
        BY <2>1 DEF StorageOK
    <2>2. CASE group' = [epoch |-> w, forked |-> FALSE]
        BY <2>2
    <2> QED
        BY <1>3, <2>1, <2>2
<1> QED
    BY <1>1, <1>2, <1>4, <1>5, <1>6 DEF StorageOK, ServerOK

LEMMA FetchTypes ==
    ASSUME StorageOK, ServerOK, NEW r, FetchPendingWelcome(r)
    PROVE  StorageOK' /\ ServerOK'
<1>1. CASE UNCHANGED <<storage, server>> /\ (Fault \/ NoFault)
    BY <1>1, FaultTypes DEF StorageOK, ServerOK, storage, server
<1>2. CASE \E s : ProcessWelcome(row, s)
    <2>1. row \in Nat
        BY DEF ServerOK
    <2> QED
        BY <1>2, <2>1, WelcomeTypes
<1> QED
    BY <1>1, <1>2 DEF FetchPendingWelcome

LEMMA BarredTypes ==
    ASSUME ServerOK, Barred # {}
    PROVE  Min(Barred) \in Barred /\ Barred \subseteq Nat
BY MinIsIn DEF ServerOK, Barred

LEMMA CatchUpTypes ==
    ASSUME StorageOK, ServerOK, NEW r, CatchUp(r)
    PROVE  StorageOK' /\ ServerOK'
<1>1. faults' \in Nat /\ UNCHANGED <<tombstone, digests, head, invites, row, use>>
    BY FaultTypes DEF CatchUp, server
<1>2. group' \in [epoch : Int, forked : BOOLEAN]
    <2>1. CASE r = "crypto" /\ ~group.forked
        <3>1. Barred # {} /\ group' = [group EXCEPT !.epoch = Min(Barred)]
            BY <2>1 DEF CatchUp
        <3> QED
            BY <3>1, BarredTypes DEF StorageOK
    <2>2. CASE ~(r = "crypto" /\ ~group.forked)
        <3>1. group' = group \/ group' = [group EXCEPT !.epoch = head]
            BY <2>2 DEF CatchUp
        <3> QED
            BY <3>1 DEF StorageOK, ServerOK
    <2> QED
        BY <2>1, <2>2
<1> QED
    BY <1>1, <1>2 DEF StorageOK, ServerOK

LEMMA ApplyTypes ==
    ASSUME StorageOK, ServerOK, NEW e \in Nat, NEW r, ApplyCommit(e, r)
    PROVE  StorageOK' /\ ServerOK'
<1>1. group' \in [epoch : Int, forked : BOOLEAN]
    BY DEF ApplyCommit, StorageOK
<1> QED
    BY <1>1 DEF ApplyCommit, NoFault, StorageOK, ServerOK, server

LEMMA DecryptTypes ==
    ASSUME StorageOK, ServerOK, NEW m, NEW r, Decrypt(m, r)
    PROVE  StorageOK' /\ ServerOK'
BY DEF Decrypt, NoFault, StorageOK, ServerOK, storage, server

LEMMA WipeTypes ==
    ASSUME StorageOK, ServerOK, WipeGroup, Fault \/ NoFault
    PROVE  StorageOK' /\ ServerOK'
<1>1. faults' \in Nat
    BY FaultTypes
<1> QED
    BY <1>1 DEF WipeGroup, NoState, StorageOK, ServerOK, server

LEMMA SameTypes ==
    ASSUME StorageOK, ServerOK, UNCHANGED <<storage, server>>, Fault \/ NoFault
    PROVE  StorageOK' /\ ServerOK'
<1>1. faults' \in Nat
    BY FaultTypes
<1> QED
    BY <1>1 DEF StorageOK, ServerOK, storage, server

-----------------------------------------------------------------------------
(* One initialization at a time.                                           *)

Establishing == {"check", "establish"}

(* Who is about to establish the group holds the barrier, alone of those.  *)
BarrierInv ==
    /\ \A p \in Procs : call[p].pc \in Establishing => p \in held
    /\ \A p, q \in Procs : call[p].pc \in Establishing /\ call[q].pc \in Establishing => p = q

(* A step of p that begins to establish the group finds the barrier free   *)
(* and takes it, and no step of p releases a barrier that is not p's.      *)
Moves(p) ==
    \E x \in Called :
        /\ Becomes(p, x)
        /\ x.pc \in Establishing =>
              \/ call[p].pc \in Establishing /\ held' = held
              \/ held = {} /\ held' = {p}
        /\ held \ {p} \subseteq held'

LEMMA MovesKeepsBarrier ==
    ASSUME CallOK, BarrierInv, NEW p \in Procs, Moves(p)
    PROVE  BarrierInv'
<1>1. PICK x \in Called :
        /\ Becomes(p, x)
        /\ x.pc \in Establishing =>
              \/ call[p].pc \in Establishing /\ held' = held
              \/ held = {} /\ held' = {p}
        /\ held \ {p} \subseteq held'
    BY DEF Moves
<1>2. \A q \in Procs : call'[q].pc \in Establishing => (IF q = p THEN x ELSE call[q]).pc \in Establishing
    <2> SUFFICES ASSUME NEW q \in Procs, call'[q].pc \in Establishing
                 PROVE  (IF q = p THEN x ELSE call[q]).pc \in Establishing
        OBVIOUS
    <2>1. PICK was \in Called : was = IF q = p THEN x ELSE call[q]
        BY DEF CallOK
    <2>2. call'[q] = was \/ call'[q] = [was EXCEPT !.pc = "armed"]
        BY <1>1, <2>1 DEF Becomes
    <2>3. [was EXCEPT !.pc = "armed"].pc = "armed"
        BY DEF Called
    <2> QED
        BY <2>1, <2>2, <2>3 DEF Establishing
<1>3. CASE x.pc \in Establishing /\ call[p].pc \in Establishing /\ held' = held
    BY <1>2, <1>3 DEF BarrierInv
<1>4. CASE x.pc \in Establishing /\ held = {} /\ held' = {p}
    BY <1>2, <1>4 DEF BarrierInv
<1>5. CASE x.pc \notin Establishing
    BY <1>1, <1>2, <1>5 DEF BarrierInv
<1> QED
    BY <1>1, <1>3, <1>4, <1>5

(* Steps that do not begin to establish the group. *)
LEMMA QuietMoves ==
    ASSUME NEW p \in Procs, NEW k, NEW r, NEW l, l \notin Establishing, After(p, k, l, r),
           held' = held \/ held' = held \ {p} \/ held' = held \cup {p}
    PROVE  Moves(p)
BY DEF After, Moves

LEMMA OpeningMoves ==
    ASSUME NEW p \in Procs, NEW k, NEW r, NEW l, After(p, k, l, r),
           \/ call[p].pc \in Establishing /\ held' = held
           \/ held = {} /\ held' = {p}
    PROVE  Moves(p)
BY DEF After, Moves

(* The steps that take one call along. *)
Step(p) == TypeInv' /\ Moves(p)

LEMMA MemoryTypes ==
    ASSUME MemoryOK, st' \in States, decryptionFailures' \in Nat, held' \subseteq Procs,
           attempts' \in {attempts, attempts + 1, 0},
           commitFailures' \in {commitFailures, commitFailures + 1, 0, 1},
           caughtUp' \in BOOLEAN
    PROVE  MemoryOK'
BY DEF MemoryOK

LEMMA WaitStep ==
    ASSUME TypeInv, NEW p \in Procs, NEW k \in Kinds, NEW e \in Nat, Wait(p, k, e)
    PROVE  Step(p)
<1>1. Base(Begin(p, k, e), p) /\ "derive" \in Labels
    BY BeginIsBase DEF TypeInv, Labels, Begins
<1>2. call' = [Begin(p, k, e) EXCEPT ![p].pc = "derive"]
    BY DEF Wait
<1>3. CallOK' /\ After(p, Begin(p, k, e)[p].kind, "derive", Begin(p, k, e)[p].ready)
    BY <1>1, <1>2, Labelled
<1>4. MemoryOK'
    BY DEF Wait, MemoryOK, TypeInv
<1>5. StorageOK' /\ ServerOK'
    BY SameTypes DEF Wait, TypeInv, NoFault
<1>6. Moves(p)
    BY <1>3, QuietMoves DEF Wait, Establishing
<1> QED
    BY <1>3, <1>4, <1>5, <1>6 DEF Step, TypeInv

LEMMA WelcomeBodyStep ==
    ASSUME TypeInv, NEW p \in Procs, NEW ready \in BOOLEAN, NEW f, Base(f, p), WelcomeBody(p, ready, f)
    PROVE  Step(p)
<1>1. PICK l \in {"idempotent", "done", "join", "thrown"} : call' = [f EXCEPT ![p].pc = l]
    BY DEF WelcomeBody
<1>2. CallOK' /\ After(p, f[p].kind, l, f[p].ready)
    BY <1>1, Labelled DEF Labels
<1>3. held' = held \/ held' = held \cup {p}
    BY DEF WelcomeBody
<1>4. st' \in States /\ decryptionFailures' \in Nat
    <2>1. Remain \/ Enter("JOINING")
        BY DEF WelcomeBody
    <2> QED
        BY <2>1, RemainTypes, EnterTypes, KnownStates DEF TypeInv
<1>5. MemoryOK'
    <2>1. UNCHANGED <<attempts, commitFailures, caughtUp>> /\ held' \subseteq Procs
        BY <1>3 DEF WelcomeBody, TypeInv, MemoryOK
    <2> QED
        BY <1>4, <2>1, MemoryTypes DEF TypeInv, MemoryOK
<1>6. StorageOK' /\ ServerOK'
    BY SameTypes DEF WelcomeBody, TypeInv, NoFault
<1>7. Moves(p)
    BY <1>2, <1>3, QuietMoves DEF Establishing
<1> QED
    BY <1>2, <1>5, <1>6, <1>7 DEF Step, TypeInv

LEMMA StartWelcomeStep ==
    ASSUME TypeInv, NEW p \in Procs, StartWelcome(p)
    PROVE  Step(p)
<1>1. PICK e \in invites : IF st = "UNKNOWN" THEN Wait(p, "welcome", e + 1)
                           ELSE WelcomeBody(p, st = "READY", Begin(p, "welcome", e + 1))
    BY DEF StartWelcome
<1>2. e + 1 \in Nat /\ "welcome" \in Kinds
    BY DEF TypeInv, ServerOK, Kinds, AllKinds
<1> DEFINE w == e + 1
<1>3. Base(Begin(p, "welcome", w), p)
    BY <1>2, BeginIsBase DEF TypeInv, Begins
<1>4. Wait(p, "welcome", w) \/ WelcomeBody(p, st = "READY", Begin(p, "welcome", w))
    BY <1>1
<1>5. w \in Nat
    BY <1>2
<1> HIDE DEF w
<1> QED
    BY <1>2, <1>3, <1>4, <1>5, WaitStep, WelcomeBodyStep

(* A call that ends with the conversation in another state. *)
LEMMA StaysTypes ==
    ASSUME MemoryOK, st' \in States, decryptionFailures' \in Nat, held' \subseteq Procs,
           UNCHANGED <<attempts, commitFailures, caughtUp>>
    PROVE  MemoryOK'
BY DEF MemoryOK

LEMMA WelcomeIdempotentStep ==
    ASSUME TypeInv, NEW p \in Procs, WelcomeIdempotent(p)
    PROVE  Step(p)
<1>1. PICK r : ProcessWelcome(call[p].epoch, r)
    BY DEF WelcomeIdempotent
<1>2. call[p].epoch \in Nat
    BY DEF TypeInv, CallOK, Called
<1>3. StorageOK' /\ ServerOK'
    BY <1>1, <1>2, WelcomeTypes DEF TypeInv
<1>4. CallOK' /\ After(p, call[p].kind, "done", call[p].ready)
    BY GoesOn DEF WelcomeIdempotent, TypeInv, Labels
<1>5. MemoryOK'
    BY RemainTypes DEF WelcomeIdempotent, TypeInv, MemoryOK
<1>6. Moves(p)
    BY <1>4, QuietMoves DEF Establishing, WelcomeIdempotent
<1> QED
    BY <1>3, <1>4, <1>5, <1>6 DEF Step, TypeInv

LEMMA SettleStep ==
    ASSUME TypeInv, NEW p \in Procs, NEW b \in BOOLEAN, Settle(p, b)
    PROVE  CallOK' /\ MemoryOK' /\ Moves(p) /\ After(p, call[p].kind, "done", call[p].ready)
<1>1. CallOK' /\ After(p, call[p].kind, "done", call[p].ready)
    <2>1. call' = Goto(p, "done") \/ call' = WithTimer(Goto(p, "done"))
        BY DEF Settle
    <2> QED
        BY <2>1, GoesOn DEF TypeInv, Labels
<1>2. st' \in States /\ decryptionFailures' \in Nat
    <2>1. Enter("READY") \/ Enter("FAILED")
        BY DEF Settle
    <2> QED
        BY <2>1, EnterTypes, KnownStates DEF TypeInv
<1>3. MemoryOK'
    <2>1. held' \subseteq Procs /\ UNCHANGED <<attempts, commitFailures, caughtUp>>
        BY DEF Settle, TypeInv, MemoryOK
    <2> QED
        BY <1>2, <2>1, StaysTypes DEF TypeInv
<1>4. Moves(p)
    BY <1>1, QuietMoves DEF Establishing, Settle
<1> QED
    BY <1>1, <1>3, <1>4

LEMMA WelcomeJoinStep ==
    ASSUME TypeInv, NEW p \in Procs, WelcomeJoin(p)
    PROVE  Step(p)
<1>1. PICK r : ProcessWelcome(call[p].epoch, r) /\ Settle(p, r # "failed")
    BY DEF WelcomeJoin
<1>2. call[p].epoch \in Nat /\ (r # "failed") \in BOOLEAN
    BY DEF TypeInv, CallOK, Called
<1>3. StorageOK' /\ ServerOK'
    BY <1>1, <1>2, WelcomeTypes DEF TypeInv
<1>4. CallOK' /\ MemoryOK' /\ Moves(p)
    BY <1>1, <1>2, SettleStep
<1> QED
    BY <1>3, <1>4 DEF Step, TypeInv

LEMMA EnsureLoopStep ==
    ASSUME TypeInv, NEW p \in Procs, NEW f, Base(f, p), EnsureLoop(p, f)
    PROVE  Step(p)
<1>1. StorageOK' /\ ServerOK'
    BY SameTypes DEF EnsureLoop, TypeInv, NoFault
<1>2. st' \in States /\ decryptionFailures' \in Nat
    <2>1. Remain \/ Enter("INITIALIZING")
        BY DEF EnsureLoop
    <2> QED
        BY <2>1, RemainTypes, EnterTypes, KnownStates DEF TypeInv
<1>3. held' = held \/ (held = {} /\ held' = {p})
    BY DEF EnsureLoop
<1>4. MemoryOK'
    <2>1. held' \subseteq Procs /\ UNCHANGED <<attempts, commitFailures, caughtUp>>
        BY <1>3 DEF EnsureLoop, TypeInv, MemoryOK
    <2> QED
        BY <1>2, <2>1, StaysTypes DEF TypeInv
<1>5. CASE call' = [f EXCEPT ![p].pc = "waiting", ![p].waits = held] /\ held' = held
    <2>1. CallOK' /\ After(p, f[p].kind, "waiting", f[p].ready)
        BY <1>5, WaitsFor DEF Labels, TypeInv, MemoryOK
    <2>2. Moves(p)
        BY <1>5, <2>1, QuietMoves DEF Establishing
    <2> QED
        BY <1>1, <1>4, <2>1, <2>2 DEF Step, TypeInv
<1>6. CASE (call' = [f EXCEPT ![p].pc = "refresh"] \/ call' = [f EXCEPT ![p].pc = "thrown"])
    <2>1. PICK l \in {"refresh", "thrown"} : call' = [f EXCEPT ![p].pc = l]
        BY <1>6
    <2>2. CallOK' /\ After(p, f[p].kind, l, f[p].ready)
        BY <2>1, Labelled DEF Labels
    <2>3. held' = held \/ held' = held \cup {p}
        BY <1>3
    <2>4. Moves(p)
        BY <2>2, <2>3, QuietMoves DEF Establishing
    <2> QED
        BY <1>1, <1>4, <2>2, <2>4 DEF Step, TypeInv
<1>7. CASE call' = [f EXCEPT ![p].pc = "check"] /\ held = {} /\ held' = {p}
    <2>1. CallOK' /\ After(p, f[p].kind, "check", f[p].ready)
        BY <1>7, Labelled DEF Labels
    <2>2. Moves(p)
        BY <1>7, <2>1, OpeningMoves
    <2> QED
        BY <1>1, <1>4, <2>1, <2>2 DEF Step, TypeInv
<1> QED
    BY <1>5, <1>6, <1>7 DEF EnsureLoop

LEMMA StartEnsureStep ==
    ASSUME TypeInv, NEW p \in Procs, StartEnsure(p)
    PROVE  Step(p)
<1>1. Base(Begin(p, "ensure", 0), p)
    BY BeginIsBase DEF TypeInv, Kinds, AllKinds, Begins
<1> QED
    BY <1>1, EnsureLoopStep DEF StartEnsure

LEMMA EnsureAgainStep ==
    ASSUME TypeInv, NEW p \in Procs, EnsureAgain(p)
    PROVE  Step(p)
<1>1. PICK f : f = [call EXCEPT ![p].waits = {}]
    OBVIOUS
<1>2. Base(f, p)
    <2>1. call[p] \in Called /\ call \in [Procs -> Called]
        BY DEF TypeInv, CallOK
    <2>2. PICK x : x = [call[p] EXCEPT !.waits = {}]
        OBVIOUS
    <2>3. x \in Called
        BY <2>1, <2>2 DEF Called
    <2>4. f = [call EXCEPT ![p] = x]
        BY <1>1, <2>1, <2>2
    <2> QED
        BY <2>1, <2>3, <2>4 DEF Base
<1> QED
    BY <1>1, <1>2, EnsureLoopStep DEF EnsureAgain

LEMMA EnsureRefreshStep ==
    ASSUME TypeInv, NEW p \in Procs, EnsureRefresh(p)
    PROVE  Step(p)
<1>1. StorageOK' /\ ServerOK'
    BY CatchUpTypes DEF EnsureRefresh, TypeInv
<1>2. CallOK' /\ After(p, call[p].kind, "done", call[p].ready)
    BY GoesOn DEF EnsureRefresh, TypeInv, Labels
<1>3. MemoryOK'
    BY RemainTypes DEF EnsureRefresh, TypeInv, MemoryOK
<1>4. Moves(p)
    BY <1>2, QuietMoves DEF Establishing, EnsureRefresh
<1> QED
    BY <1>1, <1>2, <1>3, <1>4 DEF Step, TypeInv

LEMMA EnsureCheckStep ==
    ASSUME TypeInv, NEW p \in Procs, EnsureCheck(p)
    PROVE  Step(p)
<1>1. PICK r : /\ FetchPendingWelcome(r)
               /\ IF r = "joined" THEN Settle(p, TRUE)
                  ELSE /\ call' = Goto(p, "establish")
                       /\ Remain
                       /\ UNCHANGED <<held, attempts, commitFailures, caughtUp>>
    BY DEF EnsureCheck
<1>2. StorageOK' /\ ServerOK'
    BY <1>1, FetchTypes DEF TypeInv
<1>3. CASE r = "joined"
    <2>1. CallOK' /\ MemoryOK' /\ Moves(p)
        BY <1>1, <1>3, SettleStep
    <2> QED
        BY <1>2, <2>1 DEF Step, TypeInv
<1>4. CASE r # "joined"
    <2>1. CallOK' /\ After(p, call[p].kind, "establish", call[p].ready)
        BY <1>1, <1>4, GoesOn DEF TypeInv, Labels
    <2>2. MemoryOK'
        BY <1>1, <1>4, RemainTypes DEF TypeInv, MemoryOK
    <2>3. call[p].pc \in Establishing
        BY DEF EnsureCheck, At, Establishing
    <2>4. Moves(p)
        BY <1>1, <1>4, <2>1, <2>3, OpeningMoves
    <2> QED
        BY <1>2, <2>1, <2>2, <2>4 DEF Step, TypeInv
<1> QED
    BY <1>3, <1>4

LEMMA EnsureMemberStep ==
    ASSUME TypeInv, NEW p \in Procs, EnsureMember(p)
    PROVE  Step(p)
<1>1. PICK r : CatchUp(r) /\ Settle(p, r \in {"current", "applied"})
    BY DEF EnsureMember
<1>2. StorageOK' /\ ServerOK'
    BY <1>1, CatchUpTypes DEF TypeInv
<1>3. (r \in {"current", "applied"}) \in BOOLEAN
    OBVIOUS
<1>4. CallOK' /\ MemoryOK' /\ Moves(p)
    BY <1>1, <1>3, SettleStep
<1> QED
    BY <1>2, <1>4 DEF Step, TypeInv

LEMMA EnsureGenesisStep ==
    ASSUME TypeInv, NEW p \in Procs, EnsureGenesis(p)
    PROVE  Step(p)
<1>1. faults' \in Nat
    BY FaultTypes DEF EnsureGenesis, TypeInv
<1>2. StorageOK' /\ ServerOK'
    <2>1. group' = group \/ group' = [epoch |-> 1, forked |-> FALSE]
        BY DEF EnsureGenesis
    <2>2. (head' = 1 \/ head' = head) /\ UNCHANGED <<tombstone, digests, invites, row, use>>
        BY DEF EnsureGenesis
    <2>3. group' \in [epoch : Int, forked : BOOLEAN]
        <3>1. CASE group' = group
            BY <3>1 DEF TypeInv, StorageOK
        <3>2. CASE group' = [epoch |-> 1, forked |-> FALSE]
            BY <3>2
        <3> QED
            BY <2>1, <3>1, <3>2
    <2> QED
        BY <1>1, <2>2, <2>3 DEF TypeInv, StorageOK, ServerOK
<1>3. CallOK' /\ MemoryOK' /\ Moves(p)
    BY SettleStep DEF EnsureGenesis
<1> QED
    BY <1>2, <1>3 DEF Step, TypeInv

LEMMA EnsureAbortStep ==
    ASSUME TypeInv, NEW p \in Procs, EnsureAbort(p)
    PROVE  Step(p)
<1>1. StorageOK' /\ ServerOK'
    BY SameTypes DEF EnsureAbort, TypeInv, NoFault
<1>2. st' \in States /\ decryptionFailures' \in Nat
    BY RemainTypes, EnterTypes, KnownStates DEF EnsureAbort, TypeInv
<1>3. MemoryOK'
    <2>1. held' \subseteq Procs /\ UNCHANGED <<attempts, commitFailures, caughtUp>>
        BY DEF EnsureAbort, TypeInv, MemoryOK
    <2> QED
        BY <1>2, <2>1, StaysTypes DEF TypeInv
<1>4. CallOK' /\ After(p, call[p].kind, "done", call[p].ready)
    BY GoesOn DEF EnsureAbort, TypeInv, Labels
<1>5. Moves(p)
    BY <1>4, QuietMoves DEF Establishing, EnsureAbort
<1> QED
    BY <1>1, <1>3, <1>4, <1>5 DEF Step, TypeInv

LEMMA EnsureConflictStep ==
    ASSUME TypeInv, NEW p \in Procs, EnsureConflict(p)
    PROVE  Step(p)
<1>1. StorageOK' /\ ServerOK'
    BY WipeTypes DEF EnsureConflict, TypeInv
<1>2. st' \in States /\ decryptionFailures' \in Nat
    BY EnterTypes, KnownStates DEF EnsureConflict, TypeInv
<1>3. MemoryOK'
    <2>1. held' \subseteq Procs /\ UNCHANGED <<attempts, commitFailures, caughtUp>>
        BY DEF EnsureConflict, TypeInv, MemoryOK
    <2> QED
        BY <1>2, <2>1, StaysTypes DEF TypeInv
<1>4. CallOK' /\ After(p, call[p].kind, "done", call[p].ready)
    BY GoesOn DEF EnsureConflict, TypeInv, Labels
<1>5. Moves(p)
    BY <1>4, QuietMoves DEF Establishing, EnsureConflict
<1> QED
    BY <1>1, <1>3, <1>4, <1>5 DEF Step, TypeInv

LEMMA CommitBodyStep ==
    ASSUME TypeInv, NEW p \in Procs, NEW ready \in BOOLEAN, NEW f, Base(f, p), CommitBody(p, ready, f)
    PROVE  Step(p)
<1>1. StorageOK' /\ ServerOK'
    BY SameTypes DEF CommitBody, TypeInv, NoFault
<1>2. st' \in States /\ decryptionFailures' \in Nat
    BY RemainTypes, EnterTypes, KnownStates DEF CommitBody, TypeInv
<1>3. MemoryOK'
    BY <1>2, StaysTypes DEF CommitBody, TypeInv, MemoryOK
<1>4. CallOK' /\ After(p, f[p].kind, "apply", ready)
    BY Readied DEF CommitBody, TypeInv, Labels
<1>5. Moves(p)
    BY <1>4, QuietMoves DEF Establishing, CommitBody
<1> QED
    BY <1>1, <1>3, <1>4, <1>5 DEF Step, TypeInv

LEMMA StartCommitStep ==
    ASSUME TypeInv, NEW p \in Procs, StartCommit(p)
    PROVE  Step(p)
<1>1. PICK e \in 1 .. head - 1 : IF st = "UNKNOWN" THEN Wait(p, "commit", e)
                                 ELSE CommitBody(p, st = "READY", Begin(p, "commit", e))
    BY DEF StartCommit
<1>2. e \in Nat /\ "commit" \in Kinds
    BY DEF TypeInv, ServerOK, Kinds, AllKinds
<1>3. Base(Begin(p, "commit", e), p)
    BY <1>2, BeginIsBase DEF TypeInv, Begins
<1> QED
    BY <1>1, <1>2, <1>3, WaitStep, CommitBodyStep

LEMMA StartCatchUpStep ==
    ASSUME TypeInv, NEW p \in Procs, StartCatchUp(p)
    PROVE  Step(p)
<1>1. "catchup" \in Kinds
    BY DEF Kinds, AllKinds
<1>2. Base(Begin(p, "catchup", 0), p)
    BY <1>1, BeginIsBase DEF TypeInv, Begins
<1> QED
    BY <1>1, <1>2, WaitStep, CommitBodyStep DEF StartCatchUp

LEMMA CommitFailedStep ==
    ASSUME TypeInv, NEW p \in Procs, NEW n, n \in {1, commitFailures + 1}, NEW b \in BOOLEAN,
           CommitFailed(p, n, b), UNCHANGED <<held, attempts, caughtUp>>
    PROVE  CallOK' /\ MemoryOK' /\ Moves(p)
<1>1. st' \in States /\ decryptionFailures' \in Nat
    <2>1. Remain \/ Enter("FAILED") \/ Enter("READY")
        BY DEF CommitFailed
    <2> QED
        BY <2>1, RemainTypes, EnterTypes, KnownStates DEF TypeInv
<1>2. MemoryOK'
    <2>1. commitFailures' = n
        BY DEF CommitFailed
    <2> QED
        BY <1>1, <2>1 DEF TypeInv, MemoryOK
<1>3. call' = AfterFailure(p) \/ call' = WithTimer(AfterFailure(p))
    BY DEF CommitFailed
<1>4. PICK l \in {"heal", "done"} : CallOK' /\ After(p, call[p].kind, l, call[p].ready)
    BY <1>3, FollowsFailure DEF TypeInv
<1>5. Moves(p)
    BY <1>4, QuietMoves DEF Establishing
<1> QED
    BY <1>2, <1>4, <1>5

LEMMA CommitApplyStep ==
    ASSUME TypeInv, NEW p \in Procs, CommitApply(p)
    PROVE  Step(p)
<1>1. PICK r :
          /\ IF call[p].kind = "commit" THEN ApplyCommit(call[p].epoch, r) ELSE CatchUp(r)
          /\ \/ /\ r \in {"current", "applied"}
                /\ ~call[p].ready \/ Legal("READY")
                /\ CommitSucceeded(p)
             \/ /\ r \in {"current", "applied"}
                /\ call[p].ready /\ ~Legal("READY")
                /\ CommitFailed(p, 1, caughtUp)
                /\ UNCHANGED caughtUp
             \/ /\ r = "gap" /\ call[p].ready
                /\ call' = Goto(p, "gap")
                /\ Remain
                /\ UNCHANGED <<commitFailures, caughtUp>>
             \/ /\ r \in {"crypto", "failed"} /\ call[p].ready
                /\ \E permanent \in {caughtUp, caughtUp \/ r = "crypto"} :
                      CommitFailed(p, commitFailures + 1, permanent)
                /\ UNCHANGED caughtUp
             \/ /\ r \in {"gap", "crypto", "failed"} /\ ~call[p].ready
                /\ call' = AfterFailure(p)
                /\ Remain
                /\ UNCHANGED <<commitFailures, caughtUp>>
    BY DEF CommitApply
<1>2. UNCHANGED <<held, attempts>>
    BY DEF CommitApply
<1>3. StorageOK' /\ ServerOK'
    <2>1. call[p].epoch \in Nat
        BY DEF TypeInv, CallOK, Called
    <2> QED
        BY <1>1, <2>1, ApplyTypes, CatchUpTypes DEF TypeInv
<1>4. CASE CommitSucceeded(p)
    <2>1. PICK l \in {"retry", "done"} : CallOK' /\ After(p, call[p].kind, l, call[p].ready)
        BY <1>4, FollowsSuccess DEF CommitSucceeded, TypeInv
    <2>2. Moves(p)
        BY <1>2, <2>1, QuietMoves DEF Establishing
    <2>3. st' \in States /\ decryptionFailures' \in Nat
        BY <1>4, RemainTypes, EnterTypes, KnownStates DEF CommitSucceeded, TypeInv
    <2>4. caughtUp' \in BOOLEAN /\ commitFailures' = 0
        BY <1>4 DEF CommitSucceeded
    <2>5. MemoryOK'
        BY <1>2, <2>3, <2>4 DEF TypeInv, MemoryOK
    <2> QED
        BY <1>3, <2>1, <2>2, <2>5 DEF Step, TypeInv
<1>5. CASE UNCHANGED caughtUp /\ \E b \in BOOLEAN, n \in {1, commitFailures + 1} : CommitFailed(p, n, b)
    <2>1. CallOK' /\ MemoryOK' /\ Moves(p)
        BY <1>2, <1>5, CommitFailedStep
    <2> QED
        BY <1>3, <2>1 DEF Step, TypeInv
<1>6. CASE (call' = Goto(p, "gap") \/ call' = AfterFailure(p)) /\ Remain /\ UNCHANGED <<commitFailures, caughtUp>>
    <2>1. PICK l \in {"heal", "done", "gap"} : CallOK' /\ After(p, call[p].kind, l, call[p].ready)
        BY <1>6, FollowsFailure, GoesOn DEF TypeInv, Labels
    <2>2. Moves(p)
        BY <1>2, <2>1, QuietMoves DEF Establishing
    <2>3. MemoryOK'
        BY <1>2, <1>6, RemainTypes DEF TypeInv, MemoryOK
    <2> QED
        BY <1>3, <2>1, <2>2, <2>3 DEF Step, TypeInv
<1> QED
    <2>1. caughtUp \in BOOLEAN /\ (caughtUp \/ r = "crypto") \in BOOLEAN
        BY DEF TypeInv, MemoryOK
    <2> QED
        BY <1>1, <1>4, <1>5, <1>6, <2>1

LEMMA CommitGapStep ==
    ASSUME TypeInv, NEW p \in Procs, CommitGap(p)
    PROVE  Step(p)
<1>1. PICK r :
          /\ CatchUp(r)
          /\ IF r \in {"current", "applied"} /\ Legal("READY")
             THEN /\ commitFailures' = 0
                  /\ Enter("READY")
                  /\ call' = Goto(p, "done")
             ELSE CommitFailed(p, IF r \in {"current", "applied"} THEN 1 ELSE commitFailures + 1, FALSE)
    BY DEF CommitGap
<1>2. UNCHANGED <<held, attempts, caughtUp>>
    BY DEF CommitGap
<1>3. StorageOK' /\ ServerOK'
    BY <1>1, CatchUpTypes DEF TypeInv
<1>4. CASE commitFailures' = 0 /\ Enter("READY") /\ call' = Goto(p, "done")
    <2>1. CallOK' /\ After(p, call[p].kind, "done", call[p].ready)
        BY <1>4, GoesOn DEF TypeInv, Labels
    <2>2. Moves(p)
        BY <1>2, <2>1, QuietMoves DEF Establishing
    <2>3. MemoryOK'
        BY <1>2, <1>4, EnterTypes, KnownStates DEF TypeInv, MemoryOK
    <2> QED
        BY <1>3, <2>1, <2>2, <2>3 DEF Step, TypeInv
<1>5. CASE \E n \in {1, commitFailures + 1} : CommitFailed(p, n, FALSE)
    <2>1. CallOK' /\ MemoryOK' /\ Moves(p)
        BY <1>2, <1>5, CommitFailedStep
    <2> QED
        BY <1>3, <2>1 DEF Step, TypeInv
<1> QED
    BY <1>1, <1>4, <1>5

(* decryptMessage. *)
LEMMA StartDecryptStep ==
    ASSUME TypeInv, NEW p \in Procs, StartDecrypt(p)
    PROVE  Step(p)
<1>1. PICK m \in 1 .. head :
        call' = [Begin(p, "decrypt", m) EXCEPT
                       ![p].pc = IF held = {} THEN "decrypt" ELSE "waiting",
                       ![p].waits = held]
    BY DEF StartDecrypt
<1>2. m \in Nat /\ "decrypt" \in Kinds
    BY DEF TypeInv, ServerOK, Kinds, AllKinds
<1>3. Base(Begin(p, "decrypt", m), p)
    BY <1>2, BeginIsBase DEF TypeInv, Begins
<1>4. PICK l \in {"decrypt", "waiting"} :
        call' = [Begin(p, "decrypt", m) EXCEPT ![p].pc = l, ![p].waits = held]
    BY <1>1
<1>5. CallOK' /\ After(p, Begin(p, "decrypt", m)[p].kind, l, Begin(p, "decrypt", m)[p].ready)
    BY <1>3, <1>4, WaitsFor DEF Labels, TypeInv, MemoryOK
<1>6. StorageOK' /\ ServerOK'
    BY SameTypes DEF StartDecrypt, TypeInv, NoFault
<1>7. MemoryOK'
    BY DEF StartDecrypt, TypeInv, MemoryOK
<1>8. Moves(p)
    BY <1>5, QuietMoves DEF Establishing, StartDecrypt
<1> QED
    BY <1>5, <1>6, <1>7, <1>8 DEF Step, TypeInv

LEMMA DecryptWakeStep ==
    ASSUME TypeInv, NEW p \in Procs, DecryptWake(p)
    PROVE  Step(p)
<1>1. CallOK' /\ After(p, call[p].kind, "decrypt", call[p].ready)
    BY CallIsBase, WaitsFor DEF DecryptWake, TypeInv, Labels
<1>2. StorageOK' /\ ServerOK'
    BY SameTypes DEF DecryptWake, TypeInv, NoFault
<1>3. MemoryOK'
    BY DEF DecryptWake, TypeInv, MemoryOK
<1>4. Moves(p)
    BY <1>1, QuietMoves DEF Establishing, DecryptWake
<1> QED
    BY <1>1, <1>2, <1>3, <1>4 DEF Step, TypeInv

LEMMA DeliveredStep ==
    ASSUME TypeInv, NEW p \in Procs, Delivered(p), caughtUp' \in BOOLEAN
    PROVE  CallOK' /\ MemoryOK' /\ Moves(p)
<1>1. CallOK' /\ After(p, call[p].kind, "done", call[p].ready)
    BY GoesOn DEF Delivered, TypeInv, Labels
<1>2. MemoryOK'
    BY KnownStates DEF Delivered, TypeInv, MemoryOK
<1>3. Moves(p)
    BY <1>1, QuietMoves DEF Establishing, Delivered
<1> QED
    BY <1>1, <1>2, <1>3

LEMMA HealStep ==
    ASSUME TypeInv, NEW p \in Procs, NEW r, Heal(p, r)
    PROVE  CallOK' /\ MemoryOK' /\ Moves(p)
<1>1. PICK b \in BOOLEAN : call' = [Goto(p, "heal") EXCEPT ![p].counts = b]
    BY DEF Heal, TypeInv, MemoryOK
<1>2. CallOK' /\ After(p, call[p].kind, "heal", call[p].ready)
    BY <1>1, Counted DEF TypeInv, Labels
<1>3. MemoryOK'
    BY RemainTypes DEF Heal, TypeInv, MemoryOK
<1>4. Moves(p)
    <2>1. held' = held
        BY DEF Heal
    <2> QED
        BY <1>2, <2>1, QuietMoves DEF Establishing
<1> QED
    BY <1>2, <1>3, <1>4

LEMMA DecryptFirstStep ==
    ASSUME TypeInv, NEW p \in Procs, DecryptFirst(p)
    PROVE  Step(p)
<1>1. PICK r :
          /\ Decrypt(call[p].epoch, r)
          /\ \/ r = "plaintext" /\ Delivered(p) /\ caughtUp' = TRUE
             \/ r = "plaintext" /\ ~Legal("READY") /\ Heal(p, r)
             \/ /\ r = "ahead"
                /\ caughtUp' = FALSE
                /\ call' = IF st = "UNKNOWN" THEN Goto(p, "derive")
                           ELSE [Goto(p, "apply") EXCEPT ![p].ready = st = "READY"]
                /\ IF st = "READY" THEN Enter("APPLYING") ELSE Remain
                /\ UNCHANGED <<held, attempts, commitFailures>>
             \/ r \in {"not ready", "crypto", "too old"} /\ Heal(p, r)
    BY DEF DecryptFirst
<1>2. StorageOK' /\ ServerOK'
    BY <1>1, DecryptTypes DEF TypeInv
<1>3. CASE Delivered(p) /\ caughtUp' = TRUE
    BY <1>2, <1>3, DeliveredStep DEF Step, TypeInv
<1>4. CASE Heal(p, r)
    BY <1>2, <1>4, HealStep DEF Step, TypeInv
<1>5. CASE /\ caughtUp' = FALSE
           /\ call' = IF st = "UNKNOWN" THEN Goto(p, "derive")
                      ELSE [Goto(p, "apply") EXCEPT ![p].ready = st = "READY"]
           /\ IF st = "READY" THEN Enter("APPLYING") ELSE Remain
           /\ UNCHANGED <<held, attempts, commitFailures>>
    <2>1. st' \in States /\ decryptionFailures' \in Nat
        BY <1>5, RemainTypes, EnterTypes, KnownStates DEF TypeInv
    <2>2. MemoryOK'
        BY <1>5, <2>1 DEF TypeInv, MemoryOK
    <2>3. \E l \in {"derive", "apply"} : \E b : CallOK' /\ After(p, call[p].kind, l, b)
        <3>1. CASE call' = Goto(p, "derive")
            BY <3>1, GoesOn DEF TypeInv, Labels
        <3>2. CASE call' = [Goto(p, "apply") EXCEPT ![p].ready = st = "READY"]
            <4>1. call' = [call EXCEPT ![p].pc = "apply", ![p].ready = (st = "READY")]
                BY <3>2 DEF Goto
            <4> QED
                BY <4>1, CallIsBase, Readied DEF TypeInv, Labels
        <3> QED
            BY <1>5, <3>1, <3>2
    <2>4. Moves(p)
        BY <1>5, <2>3, QuietMoves DEF Establishing
    <2> QED
        BY <1>2, <2>2, <2>3, <2>4 DEF Step, TypeInv
<1> QED
    BY <1>1, <1>3, <1>4, <1>5

LEMMA DecryptRetryStep ==
    ASSUME TypeInv, NEW p \in Procs, DecryptRetry(p)
    PROVE  Step(p)
<1>1. PICK r : /\ Decrypt(call[p].epoch, r)
               /\ IF r = "plaintext" /\ Legal("READY") THEN Delivered(p) /\ UNCHANGED caughtUp
                  ELSE Heal(p, "ahead")
    BY DEF DecryptRetry
<1>2. StorageOK' /\ ServerOK'
    BY <1>1, DecryptTypes DEF TypeInv
<1>3. CASE Delivered(p) /\ UNCHANGED caughtUp
    BY <1>2, <1>3, DeliveredStep DEF Step, TypeInv, MemoryOK
<1>4. CASE Heal(p, "ahead")
    BY <1>2, <1>4, HealStep DEF Step, TypeInv
<1> QED
    BY <1>1, <1>3, <1>4

LEMMA DecryptHealStep ==
    ASSUME TypeInv, NEW p \in Procs, DecryptHeal(p)
    PROVE  Step(p)
<1>1. PICK r : /\ FetchPendingWelcome(r)
               /\ IF r = "joined" /\ Legal("READY") THEN Enter("READY") ELSE Remain
               /\ call' = Goto(p, IF r \in {"none", "failed"} \/ (r = "joined" /\ ~Legal("READY"))
                                  THEN "verdict" ELSE "again")
    BY DEF DecryptHeal
<1>2. StorageOK' /\ ServerOK'
    BY <1>1, FetchTypes DEF TypeInv
<1>3. PICK l \in {"verdict", "again"} : call' = Goto(p, l)
    BY <1>1
<1>4. CallOK' /\ After(p, call[p].kind, l, call[p].ready)
    BY <1>3, GoesOn DEF TypeInv, Labels
<1>5. st' \in States /\ decryptionFailures' \in Nat
    BY <1>1, RemainTypes, EnterTypes, KnownStates DEF TypeInv
<1>6. MemoryOK'
    BY <1>5, StaysTypes DEF DecryptHeal, TypeInv, MemoryOK
<1>7. Moves(p)
    BY <1>4, QuietMoves DEF Establishing, DecryptHeal
<1> QED
    BY <1>2, <1>4, <1>6, <1>7 DEF Step, TypeInv

LEMMA DecryptAgainStep ==
    ASSUME TypeInv, NEW p \in Procs, DecryptAgain(p)
    PROVE  Step(p)
<1>1. PICK r : /\ Decrypt(call[p].epoch, r)
               /\ IF r = "plaintext" /\ Legal("READY") THEN Delivered(p)
                  ELSE call' = Goto(p, "verdict") /\ Remain /\ UNCHANGED <<held, attempts, commitFailures>>
    BY DEF DecryptAgain
<1>2. StorageOK' /\ ServerOK'
    BY <1>1, DecryptTypes DEF TypeInv
<1>3. CASE Delivered(p)
    BY <1>2, <1>3, DeliveredStep DEF Step, TypeInv, MemoryOK, DecryptAgain
<1>4. CASE call' = Goto(p, "verdict") /\ Remain /\ UNCHANGED <<held, attempts, commitFailures>>
    <2>1. CallOK' /\ After(p, call[p].kind, "verdict", call[p].ready)
        BY <1>4, GoesOn DEF TypeInv, Labels
    <2>2. MemoryOK'
        BY <1>4, RemainTypes DEF TypeInv, MemoryOK, DecryptAgain
    <2>3. Moves(p)
        BY <1>4, <2>1, QuietMoves DEF Establishing
    <2> QED
        BY <1>2, <2>1, <2>2, <2>3 DEF Step, TypeInv
<1> QED
    BY <1>1, <1>3, <1>4

LEMMA DecryptVerdictStep ==
    ASSUME TypeInv, NEW p \in Procs, DecryptVerdict(p)
    PROVE  Step(p)
<1>1. StorageOK' /\ ServerOK'
    BY SameTypes DEF DecryptVerdict, TypeInv, NoFault
<1>2. CallOK' /\ After(p, call[p].kind, "done", call[p].ready)
    BY GoesOn DEF DecryptVerdict, TypeInv, Labels
<1>3. MemoryOK'
    BY RemainTypes, KnownStates DEF DecryptVerdict, TypeInv, MemoryOK
<1>4. Moves(p)
    BY <1>2, QuietMoves DEF Establishing, DecryptVerdict
<1> QED
    BY <1>1, <1>2, <1>3, <1>4 DEF Step, TypeInv

(* A restore, a clear, a conflict and a recovery. *)
LEMMA StartRestoreStep ==
    ASSUME TypeInv, NEW p \in Procs, StartRestore(p)
    PROVE  Step(p)
<1>1. Base(Begin(p, "restore", 0), p)
    BY BeginIsBase DEF TypeInv, Kinds, AllKinds, Begins
<1>2. PICK l \in {"inject", "done"} : call' = [Begin(p, "restore", 0) EXCEPT ![p].pc = l]
    BY DEF StartRestore
<1>3. \E k, b : CallOK' /\ After(p, k, l, b)
    <2>1. l \in Labels
        BY DEF Labels
    <2> QED
        BY <1>1, <1>2, <2>1, Labelled
<1>4. StorageOK' /\ ServerOK'
    BY SameTypes DEF StartRestore, TypeInv, NoFault
<1>5. MemoryOK'
    BY DEF StartRestore, TypeInv, MemoryOK
<1>6. Moves(p)
    BY <1>3, QuietMoves DEF Establishing, StartRestore
<1> QED
    BY <1>3, <1>4, <1>5, <1>6 DEF Step, TypeInv

LEMMA RestoreInjectStep ==
    ASSUME TypeInv, NEW p \in Procs, RestoreInject(p)
    PROVE  Step(p)
<1>1. StorageOK' /\ ServerOK'
    <2>1. UNCHANGED <<tombstone, digests, server, faults>>
        BY DEF RestoreInject
    <2>2. group' \in [epoch : Int, forked : BOOLEAN]
        <3>1. CASE group' = group
            BY <3>1 DEF TypeInv, StorageOK
        <3>2. CASE \E e \in 1 .. head : group' = [epoch |-> e, forked |-> FALSE]
            BY <3>2
        <3> QED
            BY <3>1, <3>2 DEF RestoreInject
    <2> QED
        BY <2>1, <2>2 DEF TypeInv, StorageOK, ServerOK, server
<1>2. CallOK' /\ After(p, call[p].kind, "done", call[p].ready)
    BY GoesOn DEF RestoreInject, TypeInv, Labels
<1>3. st' \in States /\ decryptionFailures' \in Nat
    BY RemainTypes, EnterTypes, KnownStates DEF RestoreInject, TypeInv
<1>4. MemoryOK'
    BY <1>3, StaysTypes DEF RestoreInject, TypeInv, MemoryOK
<1>5. Moves(p)
    BY <1>2, QuietMoves DEF Establishing, RestoreInject
<1> QED
    BY <1>1, <1>2, <1>4, <1>5 DEF Step, TypeInv

LEMMA StartClearStep ==
    ASSUME TypeInv, NEW p \in Procs, StartClear(p)
    PROVE  Step(p)
<1>1. Base(Begin(p, "clear", 0), p)
    BY BeginIsBase DEF TypeInv, Kinds, AllKinds, Begins
<1>2. \E k, b : CallOK' /\ After(p, k, "sweep", b)
    BY <1>1, Labelled DEF StartClear, Labels
<1>3. StorageOK' /\ ServerOK'
    BY SameTypes DEF StartClear, TypeInv, NoFault
<1>4. MemoryOK'
    BY DEF StartClear, TypeInv, MemoryOK
<1>5. Moves(p)
    BY <1>2, QuietMoves DEF Establishing, StartClear
<1> QED
    BY <1>2, <1>3, <1>4, <1>5 DEF Step, TypeInv

LEMMA GiveUpStep ==
    ASSUME TypeInv, NEW p \in Procs, GiveUp(p), UNCHANGED held
    PROVE  CallOK' /\ st' \in States /\ decryptionFailures' \in Nat /\ Moves(p)
<1>1. PICK l \in {"off", "done"} : CallOK' /\ After(p, call[p].kind, l, call[p].ready)
    BY Ends DEF GiveUp, TypeInv
<1>2. st' \in States /\ decryptionFailures' \in Nat
    BY RemainTypes, EnterTypes, KnownStates DEF GiveUp, TypeInv
<1>3. Moves(p)
    BY <1>1, QuietMoves DEF Establishing
<1> QED
    BY <1>1, <1>2, <1>3

LEMMA SweepHistoryStep ==
    ASSUME TypeInv, NEW p \in Procs, SweepHistory(p)
    PROVE  Step(p)
<1>1. UNCHANGED <<held, attempts, commitFailures, caughtUp>>
    BY DEF SweepHistory
<1>2. StorageOK' /\ ServerOK'
    BY SameTypes DEF SweepHistory, TypeInv
<1>3. CallOK' /\ st' \in States /\ decryptionFailures' \in Nat /\ Moves(p)
    <2>1. CASE Remain /\ call' = Goto(p, "wipe")
        <3>1. CallOK' /\ After(p, call[p].kind, "wipe", call[p].ready)
            BY <2>1, GoesOn DEF TypeInv, Labels
        <3>2. Moves(p)
            BY <1>1, <3>1, QuietMoves DEF Establishing
        <3> QED
            BY <2>1, <3>1, <3>2, RemainTypes DEF TypeInv
    <2>2. CASE GiveUp(p)
        BY <1>1, <2>2, GiveUpStep
    <2> QED
        BY <2>1, <2>2 DEF SweepHistory
<1>4. MemoryOK'
    BY <1>1, <1>3, StaysTypes DEF TypeInv, MemoryOK
<1> QED
    BY <1>2, <1>3, <1>4 DEF Step, TypeInv

LEMMA WipeStep ==
    ASSUME TypeInv, NEW p \in Procs, Wipe(p)
    PROVE  Step(p)
<1>1. StorageOK' /\ ServerOK'
    BY WipeTypes DEF Wipe, TypeInv
<1>2. CallOK' /\ After(p, call[p].kind, "reset", call[p].ready)
    BY GoesOn DEF Wipe, TypeInv, Labels
<1>3. MemoryOK'
    BY RemainTypes DEF Wipe, TypeInv, MemoryOK
<1>4. Moves(p)
    BY <1>2, QuietMoves DEF Establishing, Wipe
<1> QED
    BY <1>1, <1>2, <1>3, <1>4 DEF Step, TypeInv

LEMMA ResetStep ==
    ASSUME TypeInv, NEW p \in Procs, Reset(p)
    PROVE  Step(p)
<1>1. UNCHANGED <<held, attempts, commitFailures>> /\ caughtUp' = FALSE
    BY DEF Reset
<1>2. StorageOK' /\ ServerOK'
    BY SameTypes DEF Reset, TypeInv, NoFault
<1>3. CallOK' /\ st' \in States /\ decryptionFailures' \in Nat /\ Moves(p)
    <2>1. CASE (Enter("FAILED") \/ Enter("EMPTY")) /\ call' = Ended(p)
        <3>1. PICK l \in {"off", "done"} : CallOK' /\ After(p, call[p].kind, l, call[p].ready)
            BY <2>1, Ends DEF TypeInv
        <3>2. Moves(p)
            BY <1>1, <3>1, QuietMoves DEF Establishing
        <3> QED
            BY <2>1, <3>1, <3>2, EnterTypes, KnownStates DEF TypeInv
    <2>2. CASE GiveUp(p)
        BY <1>1, <2>2, GiveUpStep
    <2> QED
        BY <2>1, <2>2 DEF Reset
<1>4. MemoryOK'
    BY <1>1, <1>3 DEF TypeInv, MemoryOK
<1> QED
    BY <1>2, <1>3, <1>4 DEF Step, TypeInv

LEMMA StartConflictStep ==
    ASSUME TypeInv, NEW p \in Procs, StartConflict(p)
    PROVE  Step(p)
<1>1. Base(Begin(p, "conflict", 0), p)
    BY BeginIsBase DEF TypeInv, Kinds, AllKinds, Begins
<1>2. \E k, b : CallOK' /\ After(p, k, "done", b)
    BY <1>1, Labelled DEF StartConflict, Labels
<1>3. StorageOK' /\ ServerOK'
    BY WipeTypes DEF StartConflict, TypeInv
<1>4. MemoryOK'
    BY EnterTypes, KnownStates DEF StartConflict, TypeInv, MemoryOK
<1>5. Moves(p)
    BY <1>2, QuietMoves DEF Establishing, StartConflict
<1> QED
    BY <1>2, <1>3, <1>4, <1>5 DEF Step, TypeInv

LEMMA RecoverFromFailedStep ==
    ASSUME TypeInv, NEW p \in Timers, RecoverFromFailed(p)
    PROVE  Step(p)
<1>1. UNCHANGED <<held, commitFailures, caughtUp>> /\ attempts' \in {0, attempts + 1}
    BY DEF RecoverFromFailed
<1>2. StorageOK' /\ ServerOK'
    BY SameTypes DEF RecoverFromFailed, TypeInv, NoFault
<1>3. PICK l \in {"off", "done", "fetch"} : CallOK' /\ After(p, call[p].kind, l, call[p].ready)
    BY Ends, GoesOn DEF RecoverFromFailed, TypeInv, Labels
<1>4. MemoryOK'
    <2>1. st' \in States /\ decryptionFailures' \in Nat
        BY RemainTypes, EnterTypes, KnownStates DEF RecoverFromFailed, TypeInv
    <2> QED
        BY <1>1, <2>1 DEF TypeInv, MemoryOK
<1>5. Moves(p)
    BY <1>1, <1>3, QuietMoves DEF Establishing
<1> QED
    BY <1>2, <1>3, <1>4, <1>5 DEF Step, TypeInv

LEMMA RecoveredStep ==
    ASSUME TypeInv, NEW p \in Timers, Recovered(p), UNCHANGED held
    PROVE  CallOK' /\ st' \in States /\ decryptionFailures' \in Nat /\ attempts' = 0 /\ Moves(p)
<1>1. PICK l \in {"off", "done"} : CallOK' /\ After(p, call[p].kind, l, call[p].ready)
    BY Ends DEF Recovered, TypeInv
<1>2. Moves(p)
    BY <1>1, QuietMoves DEF Establishing
<1> QED
    BY <1>1, <1>2, EnterTypes, KnownStates DEF Recovered, TypeInv

LEMMA RecoverFetchStep ==
    ASSUME TypeInv, NEW p \in Timers, RecoverFetch(p)
    PROVE  Step(p)
<1>1. UNCHANGED <<held, commitFailures, caughtUp>>
    BY DEF RecoverFetch
<1>2. StorageOK' /\ ServerOK'
    BY FetchTypes DEF RecoverFetch, TypeInv
<1>3. CallOK' /\ st' \in States /\ decryptionFailures' \in Nat /\ attempts' \in {attempts, 0} /\ Moves(p)
    <2>1. CASE Recovered(p)
        BY <1>1, <2>1, RecoveredStep
    <2>2. CASE GiveUp(p) /\ UNCHANGED attempts
        BY <1>1, <2>2, GiveUpStep
    <2>3. CASE call' = Goto(p, "catchup") /\ Remain /\ UNCHANGED attempts
        <3>1. CallOK' /\ After(p, call[p].kind, "catchup", call[p].ready)
            BY <2>3, GoesOn DEF TypeInv, Labels
        <3>2. Moves(p)
            BY <1>1, <3>1, QuietMoves DEF Establishing
        <3> QED
            BY <2>3, <3>1, <3>2, RemainTypes DEF TypeInv
    <2> QED
        BY <2>1, <2>2, <2>3 DEF RecoverFetch
<1>4. MemoryOK'
    BY <1>1, <1>3 DEF TypeInv, MemoryOK
<1> QED
    BY <1>2, <1>3, <1>4 DEF Step, TypeInv

LEMMA RecoverCatchUpStep ==
    ASSUME TypeInv, NEW p \in Timers, RecoverCatchUp(p)
    PROVE  Step(p)
<1>1. UNCHANGED <<held, caughtUp>>
    BY DEF RecoverCatchUp
<1>2. StorageOK' /\ ServerOK'
    BY CatchUpTypes DEF RecoverCatchUp, TypeInv
<1>3. /\ CallOK' /\ st' \in States /\ decryptionFailures' \in Nat /\ Moves(p)
      /\ attempts' \in {attempts, 0} /\ commitFailures' \in {commitFailures, 0}
    <2>1. CASE Recovered(p) /\ commitFailures' = 0
        BY <1>1, <2>1, RecoveredStep
    <2>2. CASE GiveUp(p) /\ UNCHANGED attempts /\ commitFailures' = 0
        BY <1>1, <2>2, GiveUpStep
    <2>3. CASE call' = Goto(p, "sweep") /\ Enter("FAILED") /\ UNCHANGED <<attempts, commitFailures>>
        <3>1. CallOK' /\ After(p, call[p].kind, "sweep", call[p].ready)
            BY <2>3, GoesOn DEF TypeInv, Labels
        <3>2. Moves(p)
            BY <1>1, <3>1, QuietMoves DEF Establishing
        <3> QED
            BY <2>3, <3>1, <3>2, EnterTypes, KnownStates DEF TypeInv
    <2> QED
        BY <2>1, <2>2, <2>3 DEF RecoverCatchUp
<1>4. MemoryOK'
    BY <1>1, <1>3 DEF TypeInv, MemoryOK
<1> QED
    BY <1>2, <1>3, <1>4 DEF Step, TypeInv

-----------------------------------------------------------------------------
(* Every step.                                                             *)

LEMMA StartStep ==
    ASSUME TypeInv, NEW p \in Calls, Start(p)
    PROVE  Step(p)
BY StartWelcomeStep, StartEnsureStep, StartCommitStep, StartCatchUpStep, StartDecryptStep,
   StartRestoreStep, StartClearStep, StartConflictStep DEF Start

LEMMA ResumeStep ==
    ASSUME TypeInv, NEW p \in Procs, Resume(p)
    PROVE  Step(p)
<1>1. Base(call, p) /\ call[p].ready \in BOOLEAN
    BY CallIsBase DEF TypeInv, Called
<1> QED
    BY <1>1, WelcomeBodyStep, CommitBodyStep DEF Resume

LEMMA ContinueStep ==
    ASSUME TypeInv, NEW p \in Procs, Continue(p)
    PROVE  Step(p)
BY WelcomeIdempotentStep, WelcomeJoinStep, EnsureAgainStep, EnsureRefreshStep, EnsureCheckStep,
   EnsureMemberStep, EnsureGenesisStep, EnsureAbortStep, EnsureConflictStep, CommitApplyStep,
   CommitGapStep, DecryptWakeStep, DecryptFirstStep, DecryptRetryStep, DecryptHealStep,
   DecryptAgainStep, DecryptVerdictStep, RestoreInjectStep, SweepHistoryStep, WipeStep, ResetStep
   DEF Continue

LEMMA RecoverStep ==
    ASSUME TypeInv, NEW t \in Timers, Recover(t)
    PROVE  Step(t)
BY RecoverFromFailedStep, RecoverFetchStep, RecoverCatchUpStep DEF Recover

(* Derive: the calls that wait for the state go on together. *)
LEMMA DeriveCalls ==
    ASSUME CallOK, Derive
    PROVE  /\ CallOK'
           /\ \A p \in Procs : IF At(p, "derive")
                               THEN call'[p] = [call[p] EXCEPT !.pc = "derived", !.ready = HasState]
                               ELSE call'[p] = call[p]
<1>1. call' = [p \in Procs |-> IF At(p, "derive")
                               THEN [call[p] EXCEPT !.pc = "derived", !.ready = HasState]
                               ELSE call[p]]
    BY DEF Derive
<1>2. \A p \in Procs : call'[p] = IF At(p, "derive")
                                  THEN [call[p] EXCEPT !.pc = "derived", !.ready = HasState]
                                  ELSE call[p]
    BY <1>1
<1>3. \A p \in Procs : call'[p] \in Called
    <2> SUFFICES ASSUME NEW p \in Procs PROVE call'[p] \in Called
        OBVIOUS
    <2>1. call[p] \in Called /\ HasState \in BOOLEAN /\ "derived" \in Labels
        BY DEF CallOK, HasState, Labels
    <2>2. [call[p] EXCEPT !.pc = "derived", !.ready = HasState] \in Called
        BY <2>1 DEF Called
    <2> QED
        BY <1>2, <2>1, <2>2
<1> QED
    BY <1>1, <1>2, <1>3 DEF CallOK

LEMMA DeriveTypes ==
    ASSUME TypeInv, Derive
    PROVE  TypeInv'
<1>1. CallOK'
    BY DeriveCalls DEF TypeInv
<1>2. StorageOK' /\ ServerOK'
    BY SameTypes DEF Derive, TypeInv, NoFault
<1>3. MemoryOK'
    BY KnownStates DEF Derive, TypeInv, MemoryOK
<1> QED
    BY <1>1, <1>2, <1>3 DEF TypeInv

LEMMA DeriveKeepsBarrier ==
    ASSUME TypeInv, BarrierInv, Derive
    PROVE  BarrierInv'
<1>1. \A p \in Procs : call'[p].pc \in Establishing => call[p].pc \in Establishing
    <2> SUFFICES ASSUME NEW p \in Procs, call'[p].pc \in Establishing PROVE call[p].pc \in Establishing
        OBVIOUS
    <2>1. CASE At(p, "derive")
        <3>1. call'[p] = [call[p] EXCEPT !.pc = "derived", !.ready = HasState] /\ call[p] \in Called
            BY <2>1, DeriveCalls DEF TypeInv, CallOK
        <3>2. call'[p].pc = "derived"
            BY <3>1 DEF Called
        <3> QED
            BY <3>2 DEF Establishing
    <2>2. CASE ~At(p, "derive")
        BY <2>2, DeriveCalls DEF TypeInv
    <2> QED
        BY <2>1, <2>2
<1>2. held' = held
    BY DEF Derive
<1> QED
    BY <1>1, <1>2 DEF BarrierInv

(* Other devices. *)
LEMMA OthersTypes ==
    ASSUME TypeInv, OthersCommit \/ OthersInvite
    PROVE  TypeInv' /\ UNCHANGED <<call, held>>
<1>1. UNCHANGED <<memory, storage, use, faults>> /\ head' = head + 1
    BY DEF OthersCommit, OthersInvite
<1>2. invites' \in {invites, invites \cup {head}} /\ row' \in {row, head + 1}
    BY DEF OthersCommit, OthersInvite
<1>3. CallOK' /\ MemoryOK' /\ StorageOK'
    BY <1>1 DEF memory, storage, TypeInv, CallOK, MemoryOK, StorageOK
<1>4. ServerOK'
    BY <1>1, <1>2 DEF TypeInv, ServerOK
<1> QED
    BY <1>1, <1>3, <1>4 DEF TypeInv, memory

LEMMA NoStep ==
    ASSUME TypeInv, BarrierInv, UNCHANGED vars
    PROVE  TypeInv' /\ BarrierInv'
<1>1. UNCHANGED <<use, st, held, call, attempts, commitFailures, decryptionFailures, caughtUp,
                  group, tombstone, digests, head, invites, row, faults>>
    BY DEF vars, memory, storage, server
<1> QED
    BY <1>1 DEF TypeInv, CallOK, MemoryOK, StorageOK, ServerOK, BarrierInv

LEMMA InitHolds ==
    ASSUME ConstantsAssumption, Init
    PROVE  TypeInv /\ BarrierInv
<1>1. \A p \in Procs : call[p] = [Blank EXCEPT !.kind = IF p \in Timers THEN "recovery" ELSE "none"]
    BY DEF Init
<1>2. \A k \in Kinds : [Blank EXCEPT !.kind = k] \in Called /\ [Blank EXCEPT !.kind = k].pc = "off"
    BY DEF Called, Blank, Labels
<1>3. {"none", "recovery"} \subseteq Kinds
    BY DEF Kinds
<1>4. \A p \in Procs : call[p] \in Called /\ call[p].pc = "off"
    <2> SUFFICES ASSUME NEW p \in Procs PROVE call[p] \in Called /\ call[p].pc = "off"
        OBVIOUS
    <2>1. PICK k \in Kinds : k = IF p \in Timers THEN "recovery" ELSE "none"
        BY <1>3
    <2>2. call[p] = [Blank EXCEPT !.kind = k]
        BY <1>1, <2>1
    <2> QED
        BY <1>2, <2>2
<1>5. CallOK
    BY <1>4 DEF Init, CallOK
<1>6. BarrierInv
    BY <1>4 DEF BarrierInv, Establishing
<1>7. MemoryOK
    BY DEF Init, MemoryOK, States
<1>8. PICK b \in Beginnings :
          /\ head = IF b = "new" THEN 0 ELSE 1
          /\ invites = IF b = "invited" THEN {0} ELSE {}
          /\ row = IF b = "invited" THEN 1 ELSE 0
          /\ group = IF b \in {"member", "forked"}
                     THEN [epoch |-> 1, forked |-> b = "forked"] ELSE NoState
    BY DEF Init
<1>9. group \in [epoch : Int, forked : BOOLEAN]
    BY <1>8 DEF NoState
<1>10. StorageOK /\ ServerOK
    BY <1>8, <1>9 DEF Init, StorageOK, ServerOK
<1> QED
    BY <1>5, <1>6, <1>7, <1>10 DEF TypeInv

LEMMA NextHolds ==
    ASSUME TypeInv, BarrierInv, [Next]_vars
    PROVE  TypeInv' /\ BarrierInv'
<1>1. CASE \E p \in Procs : Step(p)
    BY <1>1, MovesKeepsBarrier DEF Step, TypeInv
<1>2. CASE Derive
    BY <1>2, DeriveTypes, DeriveKeepsBarrier
<1>3. CASE OthersCommit \/ OthersInvite
    BY <1>3, OthersTypes DEF BarrierInv
<1>4. CASE UNCHANGED vars
    BY <1>4, NoStep
<1> QED
    BY <1>1, <1>2, <1>3, <1>4, StartStep, ResumeStep, ContinueStep, RecoverStep DEF Next

(* Whatever calls, recoveries and requests overlap, the coordinator's      *)
(* memory, the group it sees and the calls keep their types; in particular *)
(* the timers armed are among those there may be. (transitionState,        *)
(* scheduleFailedRecovery)                                                 *)
THEOREM TypeCorrect == ConstantsAssumption => (Spec => []TypeInv)
<1> SUFFICES ASSUME ConstantsAssumption PROVE Spec => []TypeInv
    OBVIOUS
<1>1. Init => TypeInv /\ BarrierInv
    BY InitHolds
<1>2. TypeInv /\ BarrierInv /\ [Next]_vars => TypeInv' /\ BarrierInv'
    BY NextHolds
<1> QED
    BY <1>1, <1>2, PTL DEF Spec

(* For any number of callers, of any methods, at most one is establishing  *)
(* the group of the conversation: it has registered in the barrier, which  *)
(* it found free, and releases it only once it no longer establishes.      *)
(* (ensureGroupReady)                                                      *)
THEOREM InitializationIsOne == ConstantsAssumption => (Spec => []OneInitialization)
<1> SUFFICES ASSUME ConstantsAssumption PROVE Spec => []OneInitialization
    OBVIOUS
<1>1. Init => TypeInv /\ BarrierInv
    BY InitHolds
<1>2. TypeInv /\ BarrierInv /\ [Next]_vars => TypeInv' /\ BarrierInv'
    BY NextHolds
<1>3. BarrierInv => OneInitialization
    BY DEF BarrierInv, OneInitialization, Establishing
<1> QED
    BY <1>1, <1>2, <1>3, PTL DEF Spec

-----------------------------------------------------------------------------
(* What a recovery clears is not a good group.                             *)

Premise == faults = 0 /\ CommitsInTurn

Bad == ~HasState \/ group.forked \/ Barred # {}

Kept == {"off", "armed", "fetch", "catchup", "sweep", "wipe", "reset"}
Made == {"off", "done", "derive", "derived", "apply", "gap"}

(* What runs while commits arrive one after another. *)
Shapes ==
    /\ \A t \in Timers : call[t].kind = "recovery" /\ call[t].pc \in Kept
    /\ \A p \in Calls : call[p].kind \in {"none", "commit", "catchup"} /\ call[p].pc \in Made
    /\ \A p \in Calls \ use.calls : call[p].pc = "off"

OneActive == \A t, u \in Timers : call[t].pc # "off" /\ call[u].pc # "off" => t = u

(* Where the conversation stands while a recovery is under way ... *)
TimersStand ==
    /\ \A t \in Timers : call[t].pc \in {"armed", "sweep", "wipe", "reset"} => st = "FAILED"
    /\ \A t \in Timers : call[t].pc \in {"fetch", "catchup"} => st = "JOINING"

(* ... and while a call is that will change it. *)
CallStands(c) ==
    /\ c.pc = "derive" => st = "UNKNOWN"
    /\ c.pc = "derived" /\ c.ready => st = "READY"
    /\ c.pc \in {"apply", "gap"} /\ c.ready => st = "APPLYING"
    /\ c.pc = "gap" => c.ready
CallsStand == \A p \in Calls : CallStands(call[p])

(* Until it has cleared the group, a recovery is about one that is not good. *)
Beyond == \A t \in Timers : call[t].pc \in {"armed", "fetch", "catchup", "sweep", "wipe"} => Bad

Recovering == Shapes /\ OneActive /\ TimersStand /\ CallsStand /\ Beyond
RecoveringInv == Premise => Recovering

AllOff == \A t \in Timers : call[t].pc = "off"
SetsNone(p) == \A q \in Procs \ {p} : call'[q] = call[q]
SetsOne(p) == \E t : \A q \in Procs \ {p, t} : call'[q] = call[q]

LEMMA CallsAreOne ==
    ASSUME ConstantsAssumption, TypeInv, CommitsInTurn
    PROVE  \A p, q \in use.calls : p = q
<1>1. use.calls \subseteq Calls /\ IsFiniteSet(Calls)
    BY DEF ConstantsAssumption, TypeInv, ServerOK
<1>2. IsFiniteSet(use.calls)
    BY <1>1, FS_Subset
<1>3. Cardinality(use.calls) = 1
    BY DEF CommitsInTurn
<1>4. \E c : use.calls = {c}
    BY <1>2, <1>3, FS_Singleton
<1> QED
    BY <1>4

LEMMA OneIsSet ==
    ASSUME NEW f \in [Procs -> Called]
    PROVE  \E t : \A q \in Procs \ {t} : WithTimer(f)[q] = f[q]
<1> DEFINE unset == {t \in Timers : f[t].pc = "off"}
<1>1. CASE attempts >= MaxAttempts \/ unset = {}
    BY <1>1 DEF WithTimer
<1>2. CASE ~(attempts >= MaxAttempts \/ unset = {})
    <2>1. PICK t : t = Min(unset)
        OBVIOUS
    <2>2. WithTimer(f) = [f EXCEPT ![t].pc = "armed"]
        BY <1>2, <2>1 DEF WithTimer
    <2> QED
        BY <2>2
<1> QED
    BY <1>1, <1>2

LEMMA PlainSetsNone ==
    ASSUME NEW p \in Procs, NEW f, Base(f, p), NEW x, call' = [f EXCEPT ![p] = x]
    PROVE  SetsNone(p)
BY DEF Base, SetsNone

LEMMA TimerSetsOne ==
    ASSUME CallOK, NEW p \in Procs, NEW l \in Labels, call' = WithTimer(Goto(p, l))
    PROVE  SetsOne(p)
<1>1. call[p] \in Called
    BY DEF CallOK
<1>2. PICK x : x = [call[p] EXCEPT !.pc = l]
    OBVIOUS
<1>3. x \in Called
    BY <1>1, <1>2 DEF Called
<1>4. PICK g \in [Procs -> Called] : g = Goto(p, l) /\ \A q \in Procs \ {p} : g[q] = call[q]
    <2>1. Goto(p, l) = [call EXCEPT ![p] = x]
        BY <1>2 DEF Goto, CallOK
    <2> QED
        BY <1>3, <2>1 DEF CallOK
<1>5. PICK t : \A q \in Procs \ {t} : WithTimer(g)[q] = g[q]
    BY <1>4, OneIsSet
<1> QED
    BY <1>4, <1>5 DEF SetsOne

(* A timer that was off is off or armed, whatever a call does. *)
LEMMA TimersAfter ==
    ASSUME CallOK, NEW p \in Calls, NEW k, NEW l, NEW r, After(p, k, l, r), ConstantsAssumption
    PROVE  /\ call'[p].kind = k /\ call'[p].pc = l /\ call'[p].ready = r
           /\ \A q \in Calls \ {p} : call'[q] = call[q]
           /\ \A t \in Timers : /\ call'[t].kind = call[t].kind
                                /\ \/ call'[t].pc = call[t].pc
                                   \/ call[t].pc = "off" /\ call'[t].pc = "armed"
<1>1. PICK x \in Called : x.kind = k /\ x.pc = l /\ x.ready = r /\ Becomes(p, x)
    BY DEF After
<1>2. \A q \in Calls : q \notin Timers
    BY DEF ConstantsAssumption
<1>3. call'[p] = x /\ \A q \in Calls \ {p} : call'[q] = call[q]
    BY <1>1, <1>2 DEF Becomes
<1>4. \A t \in Timers : \/ call'[t] = call[t]
                        \/ call[t].pc = "off" /\ call'[t] = [call[t] EXCEPT !.pc = "armed"]
    BY <1>1, <1>2 DEF Becomes
<1>5. \A t \in Timers : call[t] \in Called
    BY DEF CallOK
<1>6. \A c \in Called : [c EXCEPT !.pc = "armed"].pc = "armed" /\ [c EXCEPT !.pc = "armed"].kind = c.kind
    BY DEF Called
<1>7. \A t \in Timers : /\ call'[t].kind = call[t].kind
                        /\ \/ call'[t].pc = call[t].pc
                           \/ call[t].pc = "off" /\ call'[t].pc = "armed"
    <2> SUFFICES ASSUME NEW t \in Timers
                 PROVE  /\ call'[t].kind = call[t].kind
                        /\ \/ call'[t].pc = call[t].pc
                           \/ call[t].pc = "off" /\ call'[t].pc = "armed"
        OBVIOUS
    <2>1. CASE call'[t] = call[t]
        BY <2>1
    <2>2. CASE call[t].pc = "off" /\ call'[t] = [call[t] EXCEPT !.pc = "armed"]
        BY <1>5, <1>6, <2>2
    <2> QED
        BY <1>4, <2>1, <2>2
<1> QED
    BY <1>1, <1>3, <1>7

(* The step of a call keeps the invariant: when a recovery is under way it *)
(* changes neither the state nor what is wrong with the group, and one     *)
(* timer is set by the call that finds that out.                           *)
LEMMA CallKeepsRecovering ==
    ASSUME ConstantsAssumption, TypeInv, Recovering, CommitsInTurn, NEW p \in use.calls, use' = use,
           p \in Calls,
           NEW k, k \in {"none", "commit", "catchup"}, NEW l, l \in Made, NEW r, After(p, k, l, r),
           l = "derive" => st' = "UNKNOWN",
           l = "derived" /\ r => st' = "READY",
           l \in {"apply", "gap"} /\ r => st' = "APPLYING",
           l = "gap" => r,
           \/ SetsNone(p) /\ (AllOff \/ (st' = st /\ (Bad => Bad')))
           \/ SetsOne(p) /\ AllOff /\ st' = "FAILED" /\ Bad'
    PROVE  Recovering'
<1>1. /\ call'[p].kind = k /\ call'[p].pc = l /\ call'[p].ready = r
      /\ \A q \in Calls \ {p} : call'[q] = call[q]
      /\ \A t \in Timers : /\ call'[t].kind = call[t].kind
                           /\ \/ call'[t].pc = call[t].pc
                              \/ call[t].pc = "off" /\ call'[t].pc = "armed"
    BY TimersAfter DEF TypeInv
<1>2. \A q \in use.calls : q = p
    BY CallsAreOne
<1>3. \A q \in Calls \ {p} : call[q].pc = "off"
    BY <1>2 DEF Recovering, Shapes
<1>4. Shapes'
    BY <1>1 DEF Recovering, Shapes, Kept
<1>5. CallsStand'
    <2>1. \A q \in Calls \ {p} : call'[q].pc = "off"
        BY <1>1, <1>3
    <2> QED
        BY <1>1, <2>1 DEF CallsStand, CallStands
<1>6. p \notin Timers
    BY DEF ConstantsAssumption
<1>7. CASE SetsNone(p) /\ (AllOff \/ (st' = st /\ (Bad => Bad')))
    <2>1. \A t \in Timers : call'[t] = call[t]
        BY <1>6, <1>7 DEF SetsNone
    <2>2. OneActive' /\ TimersStand' /\ Beyond'
        <3>1. CASE AllOff
            BY <2>1, <3>1 DEF AllOff, OneActive, TimersStand, Beyond
        <3>2. CASE st' = st /\ (Bad => Bad')
            BY <2>1, <3>2 DEF Recovering, OneActive, TimersStand, Beyond
        <3> QED
            BY <1>7, <3>1, <3>2
    <2> QED
        BY <1>4, <1>5, <2>2 DEF Recovering
<1>8. CASE SetsOne(p) /\ AllOff /\ st' = "FAILED" /\ Bad'
    <2>1. \A t \in Timers : call'[t].pc \in {"off", "armed"}
        BY <1>1, <1>8 DEF AllOff
    <2>2. OneActive'
        <3>1. PICK u : \A q \in Procs \ {p, u} : call'[q] = call[q]
            BY <1>8 DEF SetsOne
        <3>2. \A t \in Timers \ {u} : call'[t].pc = "off"
            BY <1>6, <1>8, <3>1 DEF AllOff
        <3> QED
            BY <3>2 DEF OneActive
    <2>3. TimersStand' /\ Beyond'
        BY <1>8, <2>1 DEF TimersStand, Beyond
    <2> QED
        BY <1>4, <1>5, <2>2, <2>3 DEF Recovering
<1> QED
    BY <1>7, <1>8

-----------------------------------------------------------------------------
(* The steps of a call.                                                    *)

LEMMA CallsAreCalls ==
    ASSUME ConstantsAssumption, TypeInv
    PROVE  use.calls \subseteq Calls
BY DEF ConstantsAssumption, TypeInv, ServerOK

LEMMA BadStays ==
    ASSUME UNCHANGED <<group, invites>>
    PROVE  Bad' = Bad
BY DEF Bad, HasState, NoState, Barred

LEMMA WaitKeepsRecovering ==
    ASSUME ConstantsAssumption, TypeInv, Recovering, CommitsInTurn, NEW p \in use.calls,
           NEW k \in {"commit", "catchup"}, NEW e \in Nat, Wait(p, k, e), st = "UNKNOWN"
    PROVE  Recovering'
<1>1. p \in Calls /\ p \in Procs
    BY CallsAreCalls
<1>2. Base(Begin(p, k, e), p) /\ Begin(p, k, e)[p].kind = k /\ Begin(p, k, e)[p].ready = FALSE
    <2>1. k \in Kinds
        BY DEF Kinds, AllKinds
    <2>2. CallOK
        BY DEF TypeInv
    <2>3. Begins(p, k, e)
        BY <1>1, <2>1, <2>2, BeginIsBase
    <2> QED
        BY <2>3 DEF Begins
<1>3. call' = [Begin(p, k, e) EXCEPT ![p].pc = "derive"]
    BY DEF Wait
<1>4. After(p, k, "derive", FALSE)
    BY <1>1, <1>2, <1>3, Labelled DEF Labels
<1>5. SetsNone(p)
    BY <1>2, <1>3 DEF Base, SetsNone
<1>6. UNCHANGED <<st, group, invites, use>>
    BY DEF Wait, storage, server
<1>7. Bad' = Bad
    BY <1>6, BadStays
<1> QED
    BY <1>1, <1>4, <1>5, <1>6, <1>7, CallKeepsRecovering DEF Made

LEMMA ReadyIsOff ==
    ASSUME Recovering, st \in {"READY", "APPLYING", "UNKNOWN"}
    PROVE  AllOff
BY DEF Recovering, Shapes, TimersStand, AllOff, Kept

LEMMA BodyKeepsRecovering ==
    ASSUME ConstantsAssumption, TypeInv, Recovering, CommitsInTurn, NEW p \in use.calls,
           NEW ready \in BOOLEAN, ready => st = "READY",
           NEW f, Base(f, p), f[p].kind \in {"none", "commit", "catchup"}, CommitBody(p, ready, f)
    PROVE  Recovering'
<1>1. p \in Calls /\ p \in Procs
    BY CallsAreCalls
<1>2. call' = [f EXCEPT ![p].pc = "apply", ![p].ready = ready]
    BY DEF CommitBody
<1>3. After(p, f[p].kind, "apply", ready)
    BY <1>1, <1>2, Readied DEF Labels
<1>4. SetsNone(p)
    BY <1>2 DEF Base, SetsNone
<1>5. UNCHANGED <<group, invites, use>>
    BY DEF CommitBody, storage, server
<1>6. Bad' = Bad
    BY <1>5, BadStays
<1>7. ready => st' = "APPLYING"
    BY DEF CommitBody, Enter, From
<1>8. ~ready => st' = st
    BY DEF CommitBody, Remain
<1>9. ready => AllOff
    BY ReadyIsOff
<1> QED
    BY <1>1, <1>3, <1>4, <1>5, <1>6, <1>7, <1>8, <1>9, CallKeepsRecovering DEF Made

LEMMA StartKeepsRecovering ==
    ASSUME ConstantsAssumption, TypeInv, Recovering, CommitsInTurn, NEW p \in Calls, Start(p)
    PROVE  Recovering'
<1>1. p \in use.calls /\ p \in Procs
    BY DEF Start
<1>2. StartCommit(p) \/ StartCatchUp(p)
    BY DEF Start, CommitsInTurn
<1>3. PICK k \in {"commit", "catchup"}, e \in Nat :
         IF st = "UNKNOWN" THEN Wait(p, k, e) ELSE CommitBody(p, st = "READY", Begin(p, k, e))
    BY <1>2 DEF StartCommit, StartCatchUp, TypeInv, ServerOK
<1>4. Base(Begin(p, k, e), p) /\ Begin(p, k, e)[p].kind = k
    <2>1. k \in Kinds
        BY DEF Kinds, AllKinds
    <2>2. CallOK
        BY DEF TypeInv
    <2>3. Begins(p, k, e)
        BY <1>1, <2>1, <2>2, BeginIsBase
    <2> QED
        BY <2>3 DEF Begins
<1>5. CASE st = "UNKNOWN"
    BY <1>1, <1>3, <1>5, WaitKeepsRecovering
<1>6. CASE st # "UNKNOWN"
    BY <1>1, <1>3, <1>4, <1>6, BodyKeepsRecovering
<1> QED
    BY <1>5, <1>6

LEMMA ResumeKeepsRecovering ==
    ASSUME ConstantsAssumption, TypeInv, Recovering, CommitsInTurn, NEW p \in Procs, Resume(p)
    PROVE  Recovering'
<1>1. call[p].pc = "derived"
    BY DEF Resume, At
<1>2. p \in Calls /\ p \in use.calls
    BY <1>1 DEF Recovering, Shapes, Kept
<1>3. call[p].kind \in {"none", "commit", "catchup"} /\ (call[p].ready => st = "READY")
    BY <1>1, <1>2 DEF Recovering, Shapes, CallsStand, CallStands
<1>4. Base(call, p) /\ call[p].ready \in BOOLEAN
    BY CallIsBase DEF TypeInv, Called
<1>5. CommitBody(p, call[p].ready, call)
    BY <1>3 DEF Resume
<1> QED
    BY <1>2, <1>3, <1>4, <1>5, BodyKeepsRecovering

(* What the operations of MlsService leave wrong with the group. *)
LEMMA CatchUpBad ==
    ASSUME TypeInv, NEW r, CatchUp(r)
    PROVE  /\ Bad => Bad'
           /\ r = "crypto" => Bad'
           /\ r = "failed" => faults' # 0
           /\ Bad => r # "applied"
           /\ UNCHANGED <<use, invites>>
<1>1. UNCHANGED <<use, invites>>
    BY DEF CatchUp, server
<1>2. r = "failed" => faults' # 0
    BY DEF CatchUp, Fault, TypeInv, ServerOK
<1>3. Bad => r # "applied"
    BY DEF CatchUp, Bad
<1>4. CASE r = "crypto" /\ ~group.forked
    <2>1. group' = [group EXCEPT !.epoch = Min(Barred)] /\ Barred # {}
        BY <1>4 DEF CatchUp
    <2>2. PICK m : m = Min(Barred)
        OBVIOUS
    <2>3. m \in Barred /\ Barred \subseteq Nat
        BY <2>1, <2>2, BarredTypes DEF TypeInv
    <2>4. group'.epoch = m
        BY <2>1, <2>2 DEF TypeInv, StorageOK
    <2>5. m \in invites' /\ m >= group'.epoch
        BY <1>1, <2>3, <2>4 DEF Barred
    <2>6. m \in Barred'
        BY <2>5 DEF Barred
    <2> QED
        BY <1>1, <1>2, <1>4, <2>6 DEF Bad
<1>5. CASE r = "crypto" /\ group.forked
    <2>1. group' = group
        BY <1>5 DEF CatchUp
    <2> QED
        BY <1>1, <1>2, <1>5, <2>1 DEF Bad
<1>6. CASE r # "crypto"
    <2>1. Bad => group' = group
        BY <1>3, <1>6 DEF CatchUp
    <2>2. Bad => Bad'
        BY <1>1, <2>1, BadStays
    <2> QED
        BY <1>1, <1>2, <1>3, <1>6, <2>2
<1> QED
    BY <1>4, <1>5, <1>6

LEMMA ApplyBad ==
    ASSUME TypeInv, NEW e \in Nat, NEW r, ApplyCommit(e, r)
    PROVE  /\ Bad => Bad'
           /\ r = "crypto" => Bad'
           /\ r # "failed"
           /\ UNCHANGED <<use, invites>>
<1>1. UNCHANGED <<use, invites>>
    BY DEF ApplyCommit, server
<1>2. r # "failed"
    BY DEF ApplyCommit
<1>3. CASE group' = group
    <2>1. Bad' = Bad
        BY <1>1, <1>3, BadStays
    <2>2. r = "crypto" => Bad
        <3> SUFFICES ASSUME r = "crypto" PROVE Bad
            OBVIOUS
        <3>1. group.epoch = e /\ (group.forked \/ e \in invites)
            BY DEF ApplyCommit
        <3>2. e \in invites => e \in Barred
            BY <3>1 DEF Barred
        <3> QED
            BY <3>1, <3>2 DEF Bad
    <2> QED
        BY <1>1, <1>2, <2>1, <2>2
<1>4. CASE r = "applied" /\ group.epoch = e /\ ~group.forked /\ e \notin invites
           /\ group' = [group EXCEPT !.epoch = e + 1]
    <2>1. group'.epoch = e + 1
        BY <1>4 DEF TypeInv, StorageOK
    <2>2. HasState
        <3>1. NoState.epoch = -1
            BY DEF NoState
        <3> QED
            BY <1>4, <3>1 DEF HasState
    <2>3. Barred \subseteq Barred'
        BY <1>1, <1>4, <2>1 DEF Barred, TypeInv, ServerOK
    <2>4. Bad => Bad'
        BY <1>4, <2>2, <2>3 DEF Bad
    <2> QED
        BY <1>1, <1>2, <1>4, <2>4
<1> QED
    BY <1>3, <1>4 DEF ApplyCommit

LEMMA FailedKeepsRecovering ==
    ASSUME ConstantsAssumption, TypeInv, Recovering, CommitsInTurn, NEW p \in use.calls,
           call[p].pc \in {"apply", "gap"}, call[p].ready,
           NEW n, NEW b \in BOOLEAN, CommitFailed(p, n, b), Bad', use' = use
    PROVE  Recovering'
<1>1. p \in Calls /\ p \in Procs
    BY CallsAreCalls
<1>2. st = "APPLYING" /\ call[p].kind \in {"none", "commit", "catchup"}
    BY <1>1 DEF Recovering, Shapes, CallsStand, CallStands
<1>3. AllOff
    BY <1>2, ReadyIsOff
<1>4. AfterFailure(p) = Goto(p, "done")
    BY <1>2 DEF AfterFailure
<1>5. CASE Enter("FAILED") /\ call' = WithTimer(Goto(p, "done"))
    <2>1. st' = "FAILED"
        BY <1>2, <1>5 DEF Enter, From
    <2>2. After(p, call[p].kind, "done", call[p].ready)
        BY <1>1, <1>5, GoesOn DEF TypeInv, Labels
    <2>3. SetsOne(p)
        BY <1>1, <1>5, TimerSetsOne DEF TypeInv, Labels
    <2> QED
        BY <1>1, <1>2, <1>3, <2>1, <2>2, <2>3, CallKeepsRecovering DEF Made
<1>6. CASE call' = Goto(p, "done")
    <2>1. After(p, call[p].kind, "done", call[p].ready)
        BY <1>1, <1>6, GoesOn DEF TypeInv, Labels
    <2>2. SetsNone(p)
        BY <1>6 DEF Goto, SetsNone, TypeInv, CallOK
    <2> QED
        BY <1>1, <1>2, <1>3, <2>1, <2>2, CallKeepsRecovering DEF Made
<1> QED
    BY <1>4, <1>5, <1>6 DEF CommitFailed

(* A step that neither fails nor changes the state, but for a ready call.  *)
LEMMA GoneOnKeepsRecovering ==
    ASSUME ConstantsAssumption, TypeInv, Recovering, CommitsInTurn, NEW p \in use.calls,
           call[p].pc \in {"apply", "gap"}, NEW l \in {"done", "gap"}, call' = Goto(p, l), use' = use,
           l = "gap" => call[p].ready /\ st' = st,
           ~call[p].ready => st' = st,
           Bad => Bad'
    PROVE  Recovering'
<1>1. p \in Calls /\ p \in Procs
    BY CallsAreCalls
<1>2. /\ call[p].kind \in {"none", "commit", "catchup"}
      /\ call[p].ready => st = "APPLYING"
    BY <1>1 DEF Recovering, Shapes, CallsStand, CallStands
<1>3. call[p].ready => AllOff
    BY <1>2, ReadyIsOff
<1>4. After(p, call[p].kind, l, call[p].ready)
    BY <1>1, GoesOn DEF TypeInv, Labels
<1>5. SetsNone(p)
    BY DEF Goto, SetsNone, TypeInv, CallOK
<1>6. l \in Made /\ l # "derive" /\ l # "derived" /\ l # "apply"
    BY DEF Made
<1>7. SetsNone(p) /\ (AllOff \/ (st' = st /\ (Bad => Bad')))
    BY <1>3, <1>5
<1>8. l \in {"apply", "gap"} /\ call[p].ready => st' = "APPLYING"
    BY <1>2, <1>6
<1> QED
    BY <1>1, <1>2, <1>4, <1>6, <1>7, <1>8, CallKeepsRecovering

LEMMA ApplyKeepsRecovering ==
    ASSUME ConstantsAssumption, TypeInv, Recovering, CommitsInTurn, NEW p \in Calls, CommitApply(p),
           faults' = 0
    PROVE  Recovering'
<1>1. PICK r :
          /\ IF call[p].kind = "commit" THEN ApplyCommit(call[p].epoch, r) ELSE CatchUp(r)
          /\ \/ /\ r \in {"current", "applied"}
                /\ ~call[p].ready \/ Legal("READY")
                /\ CommitSucceeded(p)
             \/ /\ r \in {"current", "applied"}
                /\ call[p].ready /\ ~Legal("READY")
                /\ CommitFailed(p, 1, caughtUp)
                /\ UNCHANGED caughtUp
             \/ /\ r = "gap" /\ call[p].ready
                /\ call' = Goto(p, "gap")
                /\ Remain
                /\ UNCHANGED <<commitFailures, caughtUp>>
             \/ /\ r \in {"crypto", "failed"} /\ call[p].ready
                /\ \E permanent \in {caughtUp, caughtUp \/ r = "crypto"} :
                      CommitFailed(p, commitFailures + 1, permanent)
                /\ UNCHANGED caughtUp
             \/ /\ r \in {"gap", "crypto", "failed"} /\ ~call[p].ready
                /\ call' = AfterFailure(p)
                /\ Remain
                /\ UNCHANGED <<commitFailures, caughtUp>>
    BY DEF CommitApply
<1>2. call[p].pc = "apply"
    BY DEF CommitApply, At
<1>3. p \in use.calls /\ p \in Procs
    BY <1>2 DEF Recovering, Shapes
<1>4. /\ call[p].kind # "decrypt"
      /\ call[p].ready => st = "APPLYING"
      /\ call[p].epoch \in Nat
    BY <1>2 DEF Recovering, Shapes, CallsStand, CallStands, TypeInv, CallOK, Called
<1>5. (Bad => Bad') /\ (r = "crypto" => Bad') /\ r # "failed" /\ use' = use
    BY <1>1, <1>4, ApplyBad, CatchUpBad
<1>6. st = "APPLYING" => Legal("READY")
    BY DEF Legal, From, Allowed
<1>7. CASE CommitSucceeded(p)
    <2>1. call' = Goto(p, "done") /\ (~call[p].ready => st' = st)
        BY <1>4, <1>7 DEF CommitSucceeded, AfterSuccess, Remain
    <2> QED
        BY <1>2, <1>3, <1>5, <2>1, GoneOnKeepsRecovering
<1>8. CASE call[p].ready /\ call' = Goto(p, "gap") /\ Remain
    BY <1>2, <1>3, <1>5, <1>8, GoneOnKeepsRecovering DEF Remain
<1>9. CASE r = "crypto" /\ call[p].ready /\ \E b \in BOOLEAN : CommitFailed(p, commitFailures + 1, b)
    BY <1>2, <1>3, <1>5, <1>9, FailedKeepsRecovering
<1>10. CASE ~call[p].ready /\ call' = AfterFailure(p) /\ Remain
    <2>1. call' = Goto(p, "done") /\ st' = st
        BY <1>4, <1>10 DEF AfterFailure, Remain
    <2> QED
        BY <1>2, <1>3, <1>5, <1>10, <2>1, GoneOnKeepsRecovering
<1> QED
    <2>1. caughtUp \in BOOLEAN /\ (caughtUp \/ r = "crypto") \in BOOLEAN
        BY DEF TypeInv, MemoryOK
    <2> QED
        BY <1>1, <1>4, <1>5, <1>6, <1>7, <1>8, <1>9, <1>10, <2>1

LEMMA GapKeepsRecovering ==
    ASSUME ConstantsAssumption, TypeInv, Recovering, CommitsInTurn, NEW p \in Calls, CommitGap(p),
           faults' = 0
    PROVE  Recovering'
<1>1. PICK r :
          /\ r \in {"current", "applied", "crypto", "failed"}
          /\ CatchUp(r)
          /\ IF r \in {"current", "applied"} /\ Legal("READY")
             THEN /\ commitFailures' = 0
                  /\ Enter("READY")
                  /\ call' = Goto(p, "done")
             ELSE CommitFailed(p, IF r \in {"current", "applied"} THEN 1 ELSE commitFailures + 1, FALSE)
    BY DEF CommitGap
<1>2. call[p].pc = "gap"
    BY DEF CommitGap, At
<1>3. p \in use.calls /\ p \in Procs
    BY <1>2 DEF Recovering, Shapes
<1>4. call[p].ready /\ st = "APPLYING"
    BY <1>2 DEF Recovering, CallsStand, CallStands
<1>5. (Bad => Bad') /\ (r = "crypto" => Bad') /\ r # "failed" /\ use' = use
    BY <1>1, CatchUpBad
<1>6. Legal("READY")
    BY <1>4 DEF Legal, From, Allowed
<1>7. CASE call' = Goto(p, "done") /\ r # "crypto"
    BY <1>2, <1>3, <1>4, <1>5, <1>7, GoneOnKeepsRecovering
<1>8. CASE r = "crypto" /\ \E n : CommitFailed(p, n, FALSE)
    BY <1>2, <1>3, <1>4, <1>5, <1>8, FailedKeepsRecovering
<1> QED
    BY <1>1, <1>5, <1>6, <1>7, <1>8

-----------------------------------------------------------------------------
(* The steps of a recovery.                                                *)

LEMMA TimerKeepsRecovering ==
    ASSUME ConstantsAssumption, TypeInv, Recovering, NEW t \in Timers, use' = use,
           call[t].pc # "off", NEW l \in Kept, call' = Goto(t, l),
           l \in {"armed", "sweep", "wipe", "reset"} => st' = "FAILED",
           l \in {"fetch", "catchup"} => st' = "JOINING",
           l \in {"armed", "fetch", "catchup", "sweep", "wipe"} => Bad'
    PROVE  Recovering'
<1>1. t \in Procs /\ \A p \in Calls : p # t
    BY DEF ConstantsAssumption
<1>2. \A q \in Procs \ {t} : call'[q] = call[q]
    BY DEF Goto, TypeInv, CallOK
<1>3. call'[t].pc = l /\ call'[t].kind = call[t].kind
    BY <1>1 DEF Goto, TypeInv, CallOK, Called
<1>4. \A u \in Timers \ {t} : call'[u].pc = "off"
    BY <1>2 DEF Recovering, OneActive
<1>5. \A p \in Calls : call'[p] = call[p]
    BY <1>1, <1>2
<1>6. st \in {"FAILED", "JOINING"}
    BY DEF Recovering, TimersStand, Shapes, Kept
<1>7. Shapes'
    <2>1. \A u \in Timers : call'[u].kind = "recovery" /\ call'[u].pc \in Kept
        BY <1>2, <1>3 DEF Recovering, Shapes
    <2> QED
        BY <1>5, <2>1 DEF Recovering, Shapes
<1>8. OneActive'
    BY <1>4 DEF OneActive
<1>9. TimersStand' /\ Beyond'
    BY <1>3, <1>4 DEF TimersStand, Beyond
<1>10. CallsStand'
    BY <1>5, <1>6 DEF Recovering, CallsStand, CallStands
<1> QED
    BY <1>7, <1>8, <1>9, <1>10 DEF Recovering

LEMMA TimerIsTimer ==
    ASSUME Recovering, NEW p \in Procs, call[p].pc \notin Made
    PROVE  p \in Timers /\ call[p].kind = "recovery" /\ call[p].pc # "off"
BY DEF Recovering, Shapes, Made

LEMMA SweepKeepsRecovering ==
    ASSUME ConstantsAssumption, TypeInv, Recovering, NEW p \in Procs, SweepHistory(p), faults' = 0
    PROVE  Recovering'
<1>1. p \in Timers /\ call[p].pc = "sweep"
    BY TimerIsTimer DEF SweepHistory, At, Made
<1>2. Bad /\ st = "FAILED"
    BY <1>1 DEF Recovering, Beyond, TimersStand
<1>3. UNCHANGED <<group, invites, use>>
    BY DEF SweepHistory, storage, server
<1>4. ~Fault
    BY DEF Fault, TypeInv, ServerOK
<1>5. call' = Goto(p, "wipe") /\ st' = st
    BY <1>4 DEF SweepHistory, Remain
<1>6. Bad'
    BY <1>2, <1>3, BadStays
<1> QED
    BY <1>1, <1>2, <1>3, <1>5, <1>6, TimerKeepsRecovering DEF Kept

LEMMA WipeKeepsRecovering ==
    ASSUME ConstantsAssumption, TypeInv, Recovering, NEW p \in Procs, Wipe(p)
    PROVE  Recovering'
<1>1. p \in Timers /\ call[p].pc = "wipe"
    BY TimerIsTimer DEF Wipe, At, Made
<1>2. st = "FAILED"
    BY <1>1 DEF Recovering, TimersStand
<1>3. call' = Goto(p, "reset") /\ st' = st /\ use' = use
    BY DEF Wipe, WipeGroup, Remain, server
<1> QED
    BY <1>1, <1>2, <1>3, TimerKeepsRecovering DEF Kept

LEMMA ResetKeepsRecovering ==
    ASSUME ConstantsAssumption, TypeInv, Recovering, NEW p \in Procs, Reset(p)
    PROVE  Recovering'
<1>1. p \in Timers /\ call[p].pc = "reset"
    BY TimerIsTimer DEF Reset, At, Made
<1>2. st = "FAILED"
    BY <1>1 DEF Recovering, TimersStand
<1>3. Legal("EMPTY")
    BY <1>2 DEF Legal, From, Allowed
<1>4. call' = Goto(p, "off") /\ use' = use
    BY <1>1, <1>3 DEF Reset, Ended, server
<1> QED
    BY <1>1, <1>4, TimerKeepsRecovering DEF Kept

LEMMA FiredKeepsRecovering ==
    ASSUME ConstantsAssumption, TypeInv, Recovering, NEW t \in Timers, RecoverFromFailed(t)
    PROVE  Recovering'
<1>1. call[t].pc = "armed"
    BY DEF RecoverFromFailed, At
<1>2. Bad /\ st = "FAILED"
    BY <1>1 DEF Recovering, Beyond, TimersStand
<1>3. UNCHANGED <<group, invites, use>>
    BY DEF RecoverFromFailed, storage, server
<1>4. call' = Goto(t, "fetch") /\ st' = "JOINING"
    BY <1>2 DEF RecoverFromFailed, Enter, From
<1>5. Bad'
    BY <1>2, <1>3, BadStays
<1> QED
    BY <1>1, <1>3, <1>4, <1>5, TimerKeepsRecovering DEF Kept

LEMMA FetchKeepsRecovering ==
    ASSUME ConstantsAssumption, TypeInv, Recovering, NEW t \in Timers, RecoverFetch(t), faults' = 0
    PROVE  Recovering'
<1>1. call[t].pc = "fetch"
    BY DEF RecoverFetch, At
<1>2. Bad /\ st = "JOINING"
    BY <1>1 DEF Recovering, Beyond, TimersStand
<1>3. PICK r \in {"none", "already-processed", "obsolete", "joined", "failed"} :
          /\ FetchPendingWelcome(r)
          /\ \/ r = "joined" /\ Legal("READY") /\ Recovered(t)
             \/ /\ r = "failed" \/ (r = "joined" /\ ~Legal("READY"))
                /\ GiveUp(t)
                /\ UNCHANGED attempts
             \/ /\ r \in {"none", "already-processed", "obsolete"}
                /\ call' = Goto(t, "catchup")
                /\ Remain /\ UNCHANGED attempts
    BY DEF RecoverFetch
<1>4. Legal("READY")
    BY <1>2 DEF Legal, From, Allowed
<1>5. r # "failed"
    BY <1>3 DEF FetchPendingWelcome, Fault, TypeInv, ServerOK
<1>6. UNCHANGED <<use, invites>>
    BY <1>3 DEF FetchPendingWelcome, ProcessWelcome, server
<1>7. CASE Recovered(t)
    <2>1. call' = Goto(t, "off")
        BY <1>7 DEF Recovered, Ended
    <2> QED
        BY <1>1, <1>6, <2>1, TimerKeepsRecovering DEF Kept
<1>8. CASE r \in {"none", "already-processed", "obsolete"} /\ call' = Goto(t, "catchup") /\ Remain
    <2>1. group' = group
        BY <1>3, <1>8 DEF FetchPendingWelcome, ProcessWelcome, storage
    <2>2. Bad' /\ st' = st
        BY <1>2, <1>6, <1>8, <2>1, BadStays DEF Remain
    <2> QED
        BY <1>1, <1>2, <1>6, <1>8, <2>2, TimerKeepsRecovering DEF Kept
<1> QED
    BY <1>3, <1>4, <1>5, <1>7, <1>8

LEMMA CatchUpKeepsRecovering ==
    ASSUME ConstantsAssumption, TypeInv, Recovering, NEW t \in Timers, RecoverCatchUp(t), faults' = 0
    PROVE  Recovering'
<1>1. call[t].pc = "catchup"
    BY DEF RecoverCatchUp, At
<1>2. Bad /\ st = "JOINING"
    BY <1>1 DEF Recovering, Beyond, TimersStand
<1>3. PICK r : /\ CatchUp(r)
               /\ r # "applied" => Enter("FAILED") /\ call' = Goto(t, "sweep")
    BY DEF RecoverCatchUp
<1>4. Bad' /\ r # "applied" /\ use' = use
    BY <1>2, <1>3, CatchUpBad
<1>5. st' = "FAILED"
    BY <1>2, <1>3, <1>4 DEF Enter, From
<1> QED
    BY <1>1, <1>3, <1>4, <1>5, TimerKeepsRecovering DEF Kept

-----------------------------------------------------------------------------
(* Every step, as long as every request is answered.                       *)

LEMMA ContinueKeepsRecovering ==
    ASSUME ConstantsAssumption, TypeInv, Recovering, CommitsInTurn, NEW p \in Procs, Continue(p),
           faults' = 0
    PROVE  Recovering'
<1>1. call[p].pc \in {"apply", "gap", "sweep", "wipe", "reset"} \/ call[p].pc \in Kept \cup Made
    BY DEF Recovering, Shapes
<1>2. CASE CommitApply(p)
    <2>1. p \in Calls
        BY <1>2 DEF CommitApply, At, Recovering, Shapes, Kept
    <2> QED
        BY <1>2, <2>1, ApplyKeepsRecovering
<1>3. CASE CommitGap(p)
    <2>1. p \in Calls
        BY <1>3 DEF CommitGap, At, Recovering, Shapes, Kept
    <2> QED
        BY <1>3, <2>1, GapKeepsRecovering
<1>4. CASE SweepHistory(p) \/ Wipe(p) \/ Reset(p)
    BY <1>4, SweepKeepsRecovering, WipeKeepsRecovering, ResetKeepsRecovering
<1>5. CASE call[p].pc \in {"idempotent", "join", "waiting", "refresh", "check", "establish",
                            "decrypt", "retry", "heal", "again", "verdict", "inject"}
    BY <1>1, <1>5 DEF Kept, Made
<1> QED
    BY <1>2, <1>3, <1>4, <1>5
       DEF Continue, WelcomeIdempotent, WelcomeJoin, EnsureAgain, EnsureRefresh, EnsureCheck,
           EnsureMember, EnsureGenesis, EnsureAbort, EnsureConflict, DecryptWake, DecryptFirst,
           DecryptRetry, DecryptHeal, DecryptAgain, DecryptVerdict, RestoreInject, At

LEMMA DeriveKeepsRecovering ==
    ASSUME ConstantsAssumption, TypeInv, Recovering, Derive
    PROVE  Recovering'
<1>1. \A p \in Procs : IF At(p, "derive")
                       THEN call'[p] = [call[p] EXCEPT !.pc = "derived", !.ready = HasState]
                       ELSE call'[p] = call[p]
    BY DeriveCalls DEF TypeInv
<1>2. \A c \in Called : /\ [c EXCEPT !.pc = "derived", !.ready = HasState].pc = "derived"
                        /\ [c EXCEPT !.pc = "derived", !.ready = HasState].ready = HasState
                        /\ [c EXCEPT !.pc = "derived", !.ready = HasState].kind = c.kind
    BY DEF Called
<1>3. \A p \in Procs : call[p] \in Called
    BY DEF TypeInv, CallOK
<1>4. st = "UNKNOWN" /\ AllOff
    <2>1. PICK p \in Procs : call[p].pc = "derive"
        BY DEF Derive, At
    <2>2. p \in Calls
        BY <2>1 DEF Recovering, Shapes, Kept
    <2>3. st = "UNKNOWN"
        BY <2>1, <2>2 DEF Recovering, CallsStand, CallStands
    <2> QED
        BY <2>3, ReadyIsOff
<1>5. UNCHANGED <<use, group, invites>>
    BY DEF Derive, storage, server
<1>6. \A t \in Timers : call'[t] = call[t]
    BY <1>1, <1>4 DEF At, AllOff
<1>7. \A p \in Calls : /\ call'[p].kind = call[p].kind
                       /\ \/ call'[p] = call[p] /\ call[p].pc # "derive"
                          \/ call[p].pc = "derive" /\ call'[p].pc = "derived" /\ call'[p].ready = HasState
    <2> SUFFICES ASSUME NEW p \in Calls
                 PROVE  /\ call'[p].kind = call[p].kind
                        /\ \/ call'[p] = call[p] /\ call[p].pc # "derive"
                           \/ call[p].pc = "derive" /\ call'[p].pc = "derived" /\ call'[p].ready = HasState
        OBVIOUS
    <2>1. CASE call[p].pc = "derive"
        <3>1. call'[p] = [call[p] EXCEPT !.pc = "derived", !.ready = HasState]
            BY <1>1, <2>1 DEF At
        <3> QED
            BY <1>2, <1>3, <2>1, <3>1
    <2>2. CASE call[p].pc # "derive"
        BY <1>1, <2>2 DEF At
    <2> QED
        BY <2>1, <2>2
<1>8. Shapes'
    BY <1>5, <1>6, <1>7 DEF Recovering, Shapes, Made
<1>9. OneActive' /\ TimersStand' /\ Beyond'
    BY <1>4, <1>6 DEF AllOff, OneActive, TimersStand, Beyond
<1>10. CallsStand'
    <2>1. HasState => st' = "READY"
        BY DEF Derive
    <2> SUFFICES ASSUME NEW p \in Calls
                 PROVE  CallStands(call[p])'
        BY DEF CallsStand
    <2>2. CASE call'[p] = call[p] /\ call[p].pc # "derive"
        <3>1. /\ call[p].pc = "derived" => ~call[p].ready
              /\ call[p].pc \in {"apply", "gap"} => ~call[p].ready
              /\ call[p].pc = "gap" => call[p].ready
            BY <1>4 DEF Recovering, CallsStand, CallStands
        <3> QED
            BY <2>2, <3>1 DEF CallStands
    <2>3. CASE call'[p].pc = "derived" /\ call'[p].ready = HasState
        BY <2>1, <2>3 DEF CallStands
    <2> QED
        BY <1>7, <2>2, <2>3
<1> QED
    BY <1>8, <1>9, <1>10 DEF Recovering

LEMMA OthersKeepRecovering ==
    ASSUME TypeInv, Recovering, OthersCommit \/ OthersInvite
    PROVE  Recovering'
<1>1. UNCHANGED <<call, st, group, use>> /\ invites \subseteq invites'
    BY DEF OthersCommit, OthersInvite, memory, storage
<1>2. Bad => Bad'
    <2>1. HasState' = HasState /\ Barred \subseteq Barred'
        BY <1>1 DEF HasState, NoState, Barred
    <2> QED
        BY <1>1, <2>1 DEF Bad
<1> QED
    BY <1>1, <1>2 DEF Recovering, Shapes, OneActive, TimersStand, CallsStand, CallStands, Beyond

LEMMA StillsKeepRecovering ==
    ASSUME Recovering, UNCHANGED vars
    PROVE  Recovering'
<1>1. UNCHANGED <<call, st, group, use, invites>>
    BY DEF vars, memory, storage, server
<1>2. Bad' = Bad
    BY <1>1, BadStays
<1> QED
    BY <1>1, <1>2 DEF Recovering, Shapes, OneActive, TimersStand, CallsStand, CallStands, Beyond

LEMMA NextKeepsRecovering ==
    ASSUME ConstantsAssumption, TypeInv, Recovering, CommitsInTurn, [Next]_vars, faults' = 0
    PROVE  Recovering'
<1>1. CASE \E p \in Procs : Resume(p)
    BY <1>1, ResumeKeepsRecovering
<1>2. CASE \E p \in Calls : Start(p)
    BY <1>2, StartKeepsRecovering
<1>3. CASE \E p \in Procs : Continue(p)
    BY <1>3, ContinueKeepsRecovering
<1>4. CASE \E t \in Timers : Recover(t)
    BY <1>4, FiredKeepsRecovering, FetchKeepsRecovering, CatchUpKeepsRecovering DEF Recover
<1>5. CASE Derive
    BY <1>5, DeriveKeepsRecovering
<1>6. CASE OthersCommit \/ OthersInvite
    BY <1>6, OthersKeepRecovering
<1>7. CASE UNCHANGED vars
    BY <1>7, StillsKeepRecovering
<1> QED
    BY <1>1, <1>2, <1>3, <1>4, <1>5, <1>6, <1>7 DEF Next

(* What the session is used for stays, and a request that has failed is    *)
(* not forgotten.                                                          *)
Onward == use' = use /\ faults' \in {faults, faults + 1}

LEMMA FaultOnward == Fault \/ NoFault => faults' \in {faults, faults + 1}
BY DEF Fault, NoFault

LEMMA ServiceOnward ==
    /\ \A w, r : ProcessWelcome(w, r) => Onward
    /\ \A r : FetchPendingWelcome(r) => Onward
    /\ \A r : CatchUp(r) => Onward
    /\ \A e, r : ApplyCommit(e, r) => Onward
    /\ \A m, r : Decrypt(m, r) => Onward
    /\ WipeGroup => use' = use
    /\ UNCHANGED server => use' = use
    /\ UNCHANGED <<storage, server, faults>> => Onward
<1>1. \A w, r : ProcessWelcome(w, r) => Onward
    BY FaultOnward DEF ProcessWelcome, Onward
<1>2. \A r : FetchPendingWelcome(r) => Onward
    BY <1>1, FaultOnward DEF FetchPendingWelcome, Onward, server
<1>3. \A r : CatchUp(r) => Onward
    BY FaultOnward DEF CatchUp, Onward, server
<1>4. \A e, r : ApplyCommit(e, r) => Onward
    BY FaultOnward DEF ApplyCommit, Onward, server
<1>5. \A m, r : Decrypt(m, r) => Onward
    BY FaultOnward DEF Decrypt, Onward, server
<1>6. WipeGroup => use' = use
    BY DEF WipeGroup, server
<1> QED
    BY <1>1, <1>2, <1>3, <1>4, <1>5, <1>6 DEF Onward, server

LEMMA StartOnward ==
    ASSUME NEW p \in Procs, Start(p) \/ Resume(p)
    PROVE  Onward
<1>1. CASE StartWelcome(p) \/ StartEnsure(p) \/ StartCommit(p) \/ StartCatchUp(p) \/ Resume(p)
    BY <1>1, ServiceOnward
       DEF StartWelcome, StartEnsure, StartCommit, StartCatchUp, Resume, Wait, WelcomeBody, EnsureLoop,
           CommitBody
<1>2. CASE StartDecrypt(p) \/ StartRestore(p) \/ StartClear(p)
    BY <1>2, ServiceOnward DEF StartDecrypt, StartRestore, StartClear
<1>3. CASE StartConflict(p)
    BY <1>3, ServiceOnward, FaultOnward DEF StartConflict, Onward
<1> QED
    BY <1>1, <1>2, <1>3 DEF Start

LEMMA ContinueOnward ==
    ASSUME NEW p \in Procs, Continue(p)
    PROVE  Onward
<1>1. CASE WelcomeIdempotent(p) \/ WelcomeJoin(p) \/ EnsureAgain(p) \/ EnsureRefresh(p)
           \/ EnsureCheck(p) \/ EnsureMember(p)
    BY <1>1, ServiceOnward
       DEF WelcomeIdempotent, WelcomeJoin, EnsureAgain, EnsureLoop, EnsureRefresh, EnsureCheck, EnsureMember
<1>2. CASE EnsureGenesis(p) \/ EnsureAbort(p) \/ EnsureConflict(p)
    BY <1>2, ServiceOnward, FaultOnward DEF EnsureGenesis, EnsureAbort, EnsureConflict, Onward
<1>3. CASE CommitApply(p) \/ CommitGap(p)
    BY <1>3, ServiceOnward DEF CommitApply, CommitGap
<1>4. CASE DecryptWake(p) \/ DecryptFirst(p) \/ DecryptRetry(p) \/ DecryptHeal(p) \/ DecryptAgain(p)
           \/ DecryptVerdict(p)
    BY <1>4, ServiceOnward
       DEF DecryptWake, DecryptFirst, DecryptRetry, DecryptHeal, DecryptAgain, DecryptVerdict
<1>5. CASE RestoreInject(p)
    BY <1>5, ServiceOnward DEF RestoreInject, Onward
<1>6. CASE SweepHistory(p) \/ Wipe(p) \/ Reset(p)
    BY <1>6, ServiceOnward, FaultOnward DEF SweepHistory, Wipe, Reset, Onward
<1> QED
    BY <1>1, <1>2, <1>3, <1>4, <1>5, <1>6 DEF Continue

LEMMA NextOnward == [Next]_vars => Onward
<1>1. ASSUME NEW t \in Timers, Recover(t) PROVE Onward
    BY <1>1, ServiceOnward DEF Recover, RecoverFromFailed, RecoverFetch, RecoverCatchUp
<1>2. ASSUME Derive PROVE Onward
    BY <1>2, ServiceOnward DEF Derive
<1>3. ASSUME OthersCommit \/ OthersInvite PROVE Onward
    BY <1>3 DEF OthersCommit, OthersInvite, Onward
<1>4. ASSUME UNCHANGED vars PROVE Onward
    BY <1>4 DEF vars, server, Onward
<1> QED
    BY <1>1, <1>2, <1>3, <1>4, StartOnward, ContinueOnward DEF Next

LEMMA InitRecovering ==
    ASSUME ConstantsAssumption, Init, CommitsInTurn
    PROVE  Recovering
<1>1. \A p \in Procs : call[p] = [Blank EXCEPT !.kind = IF p \in Timers THEN "recovery" ELSE "none"]
    BY DEF Init
<1>2. \A p \in Procs : call[p].pc = "off" /\ call[p].kind = IF p \in Timers THEN "recovery" ELSE "none"
    BY <1>1 DEF Blank
<1>3. Shapes
    BY <1>2 DEF Shapes, Kept, Made, ConstantsAssumption
<1> QED
    BY <1>2, <1>3 DEF Recovering, OneActive, TimersStand, CallsStand, CallStands, Beyond

LEMMA NextKeepsPremise ==
    ASSUME ConstantsAssumption, TypeInv, RecoveringInv, [Next]_vars
    PROVE  RecoveringInv'
<1> SUFFICES ASSUME Premise' PROVE Recovering'
    BY DEF RecoveringInv
<1>1. use' = use /\ faults' \in {faults, faults + 1} /\ faults' = 0
    BY NextOnward DEF Onward, Premise
<1>2. faults = 0
    BY <1>1 DEF TypeInv, ServerOK
<1>3. CommitsInTurn
    BY <1>1 DEF Premise, CommitsInTurn
<1> QED
    BY <1>1, <1>2, <1>3, NextKeepsRecovering DEF RecoveringInv, Premise

(* As long as every request is answered and commits arrive one after       *)
(* another, a recovery never clears a group that is the server's current   *)
(* one, for any limits of failures and attempts and however many commits,  *)
(* whoever they invite. (recoverFromFailed, clearConversationGroup)        *)
THEOREM RecoveriesSpare == ConstantsAssumption => (Spec => RecoverySparesGoodGroups)
<1> SUFFICES ASSUME ConstantsAssumption PROVE Spec => RecoverySparesGoodGroups
    OBVIOUS
<1>1. Init => TypeInv /\ BarrierInv /\ RecoveringInv
    BY InitHolds, InitRecovering DEF RecoveringInv, Premise
<1>2. TypeInv /\ BarrierInv /\ RecoveringInv /\ [Next]_vars => TypeInv' /\ BarrierInv' /\ RecoveringInv'
    BY NextHolds, NextKeepsPremise
<1>3. RecoveringInv => [\A t \in Timers :
           At(t, "wipe") /\ call'[t].pc = "reset" /\ faults = 0 /\ CommitsInTurn => ~GoodGroup]_vars
    BY DEF RecoveringInv, Premise, Recovering, Beyond, At, Bad, GoodGroup
<1> QED
    BY <1>1, <1>2, <1>3, PTL DEF Spec, RecoverySparesGoodGroups

-----------------------------------------------------------------------------
USE SendingAssumption

-----------------------------------------------------------------------------
(* Sending: types of what the outbox, the sends and the stores hold. *)

Pcs == {"drafts", "record", "group", "abort", "store", "timeout", "remove", "done", "failed"}
SendRec == [texts : SUBSET Texts, pc : Pcs, own : BOOLEAN, post : Nat]
Contents == {"text", "blank"}

SendsOK == sends \in Seq(SendRec) /\ composer \subseteq Texts
OutboxOK == outbox \subseteq DOMAIN sends /\ drafts \subseteq DOMAIN sends
PostsOK == posts \in Seq(DOMAIN sends)
CacheOK == cache \subseteq [id : DOMAIN posts, content : Contents]
LoadOK == load.page \subseteq DOMAIN posts

SendingTypes == SendsOK /\ OutboxOK /\ PostsOK /\ CacheOK /\ LoadOK

-----------------------------------------------------------------------------
(* A send that is past its post knows the id its message got; one that     *)
(* still has to remove its entry has stored its texts, unless a            *)
(* placeholder was stored over them since.                                 *)

Waits(t) == \E e \in outbox : t \in sends[e].texts
Shown(t) == \E c \in cache : c.content = "text" /\ t \in sends[posts[c.id]].texts

Posted(s) == sends[s].pc \in {"store", "remove"} =>
                 sends[s].post \in DOMAIN posts /\ posts[sends[s].post] = s
Saved(s) == sends[s].pc = "remove" => \A t \in sends[s].texts : t \in blanked \/ Shown(t)

SendsInv == \A s \in DOMAIN sends : Posted(s) /\ Saved(s)
SurvivalInv == \A t \in recorded : t \in blanked \/ Waits(t) \/ Shown(t)

SendingInv == SendingTypes /\ SendsInv /\ SurvivalInv

LEMMA SendingStarts == SendingInit => SendingInv
<1> SUFFICES ASSUME SendingInit PROVE SendingInv
    OBVIOUS
<1>1. sends = <<>> /\ DOMAIN sends = {} /\ posts = <<>> /\ DOMAIN posts = {}
    BY DEF SendingInit
<1> QED
    BY <1>1 DEF SendingInit, NoLoad, SendingInv, SendingTypes, SendsOK, OutboxOK, PostsOK, CacheOK, LoadOK,
        SendsInv, SurvivalInv

-----------------------------------------------------------------------------
(* Steps that leave the stores alone: no send gets past its post, and the  *)
(* sends there were keep their texts.                                      *)

SendsGoOn ==
    /\ sends' \in Seq(SendRec)
    /\ DOMAIN sends \subseteq DOMAIN sends'
    /\ \A s \in DOMAIN sends : sends'[s].texts = sends[s].texts
    /\ \A s \in DOMAIN sends' : sends'[s].pc \in {"store", "remove"} =>
           /\ s \in DOMAIN sends
           /\ sends'[s].pc = sends[s].pc /\ sends'[s].post = sends[s].post

LEMMA SendsTyped == ASSUME SendingInv PROVE \A s \in DOMAIN sends : sends[s] \in SendRec
BY DEF SendingInv, SendingTypes, SendsOK

LEMMA CachedPosts ==
    ASSUME SendingInv
    PROVE  \A c \in cache : c.id \in DOMAIN posts /\ posts[c.id] \in DOMAIN sends
<1> SUFFICES ASSUME NEW c \in cache
             PROVE  c.id \in DOMAIN posts /\ posts[c.id] \in DOMAIN sends
    OBVIOUS
<1>1. c.id \in DOMAIN posts
    BY DEF SendingInv, SendingTypes, CacheOK
<1> QED
    BY <1>1 DEF SendingInv, SendingTypes, PostsOK

LEMMA DraftsStep ==
    ASSUME SendingInv, SendsGoOn, DraftsGone, UNCHANGED <<posts, cache, blanked>>,
           composer' \subseteq Texts, drafts' \subseteq drafts \cup outbox,
           load'.page \subseteq DOMAIN posts
    PROVE  SendingInv'
<1>1. SendingTypes'
    BY DEF SendingInv, SendingTypes, SendsOK, OutboxOK, PostsOK, CacheOK, LoadOK, SendsGoOn, DraftsGone
<1>2. ASSUME NEW t, Shown(t) PROVE Shown(t)'
    BY <1>2, CachedPosts DEF SendsGoOn, Shown
<1>3. ASSUME NEW t \in recorded', Waits(t) PROVE Waits(t)'
    <2>1. PICK e \in outbox : t \in sends[e].texts
        BY <1>3 DEF Waits
    <2>2. e \in DOMAIN sends /\ e \notin drafts
        BY <2>1, <1>3 DEF SendingInv, SendingTypes, OutboxOK, DraftsGone, EntryTexts
    <2> QED
        BY <2>1, <2>2 DEF SendsGoOn, Waits, DraftsGone
<1>4. SendsInv'
    BY <1>2 DEF SendingInv, SendsInv, Posted, Saved, SendsGoOn
<1> QED
    BY <1>1, <1>2, <1>3, <1>4 DEF SendingInv, SurvivalInv, DraftsGone

LEMMA QuietStep ==
    ASSUME SendingInv, SendsGoOn, UNCHANGED stores, UNCHANGED <<recorded, blanked>>,
           composer' \subseteq Texts, drafts' \subseteq drafts \cup outbox,
           load'.page \subseteq DOMAIN posts
    PROVE  SendingInv'
<1>1. SendingTypes'
    BY DEF SendingInv, SendingTypes, SendsOK, OutboxOK, PostsOK, CacheOK, LoadOK, SendsGoOn, stores
<1>2. \A t : (Waits(t) => Waits(t)') /\ (Shown(t) => Shown(t)')
    <2>1. \A e \in outbox : e \in DOMAIN sends
        BY DEF SendingInv, SendingTypes, OutboxOK
    <2>2. \A c \in cache : posts[c.id] \in DOMAIN sends
        BY CachedPosts
    <2> QED
        BY <2>1, <2>2 DEF SendsGoOn, stores, Waits, Shown
<1>3. SendsInv'
    BY <1>2 DEF SendingInv, SendsInv, Posted, Saved, SendsGoOn, stores
<1> QED
    BY <1>1, <1>2, <1>3 DEF SendingInv, SurvivalInv

-----------------------------------------------------------------------------
(* The page comes and goes, and loads. *)

LEMMA SendsUnchanged ==
    ASSUME SendingInv, UNCHANGED sends
    PROVE  SendsGoOn
BY DEF SendingInv, SendingTypes, SendsOK, SendsGoOn

LEMMA OutboxTexts == ASSUME SendingInv PROVE EntryTexts(outbox) \subseteq Texts
<1>1. \A e \in outbox : sends[e] \in SendRec
    BY DEF SendingInv, SendingTypes, SendsOK, OutboxOK
<1> QED
    BY <1>1 DEF EntryTexts, SendRec

LEMMA NoLoadFacts == NoLoad.page = {}
BY DEF NoLoad

LEMMA LoadBegun == ASSUME LoadBegins PROVE load'.page = {}
BY NoLoadFacts DEF LoadBegins

LEMMA LoadKeepsInv ==
    ASSUME SendingInv,
           \/ Visit \/ RetryLoad
           \/ \E ok \in BOOLEAN : LoadConversation(ok) \/ FetchPage(ok)
           \/ LoadDrafts \/ ShowCached \/ FindMissing
           \/ \E t \in Texts : Type(t)
    PROVE  SendingInv'
<1>1. UNCHANGED <<sends, stores, recorded, blanked>>
    BY DEF Visit, RetryLoad, LoadConversation, FetchPage, LoadDrafts, ShowCached, FindMissing,
        Type, history
<1>2. composer' \subseteq Texts
    BY OutboxTexts DEF Visit, Fresh, RetryLoad, view, LoadConversation, FetchPage, LoadDrafts,
        ShowCached, FindMissing, Type, SendingInv, SendingTypes, SendsOK
<1>3. drafts' \subseteq drafts \cup outbox
    BY DEF Visit, Fresh, RetryLoad, view, LoadConversation, FetchPage, LoadDrafts,
        ShowCached, FindMissing, Type
<1>4. load'.page \subseteq DOMAIN posts
    <2>1. load.page \subseteq DOMAIN posts /\ DOMAIN posts = Ids
        BY DEF SendingInv, SendingTypes, LoadOK, PostsOK, Ids
    <2>2. ASSUME NEW pc, LoadGoes(pc) PROVE load'.page = load.page
        BY <2>2 DEF LoadGoes
    <2>3. ASSUME NEW missing \in SUBSET load.page PROVE Filling(missing).page \subseteq load.page
        BY NoLoadFacts DEF Filling
    <2>4. CASE Visit \/ RetryLoad
        BY <2>4, LoadBegun DEF Visit, RetryLoad
    <2>5. CASE LoadDrafts \/ ShowCached \/ \E t \in Texts : Type(t)
        BY <2>1, <2>2, <2>5 DEF LoadDrafts, ShowCached, Type, loading
    <2>6. ASSUME NEW ok \in BOOLEAN, LoadConversation(ok) \/ FetchPage(ok)
          PROVE  load'.page \subseteq DOMAIN posts
        BY <2>1, <2>2, <2>6, NoLoadFacts DEF LoadConversation, FetchPage
    <2>7. CASE FindMissing
        BY <2>1, <2>3, <2>7 DEF FindMissing
    <2> QED
        BY <2>4, <2>5, <2>6, <2>7
<1> QED
    BY <1>1, <1>2, <1>3, <1>4, SendsUnchanged, QuietStep

LEMMA ReturnKeepsInv == ASSUME SendingInv, Return PROVE SendingInv'
<1>1. load'.page = {}
    BY LoadBegun DEF Return
<1> QED
    BY <1>1, SendsUnchanged, DraftsStep DEF Return, SendingInv, SendingTypes, SendsOK

(* A send whose page instance is gone, or that a crash ended. *)
Disowned(r, pc) == [r EXCEPT !.own = FALSE, !.pc = pc]

LEMMA DisownedRecord ==
    ASSUME NEW r \in SendRec, NEW pc \in Pcs
    PROVE  /\ Disowned(r, pc) \in SendRec /\ Disowned(r, pc).pc = pc
           /\ Disowned(r, pc).texts = r.texts /\ Disowned(r, pc).post = r.post
BY DEF SendRec, Disowned

LEMMA DisownedSends ==
    ASSUME SendingInv, NEW pc \in [DOMAIN sends -> Pcs],
           \A s \in DOMAIN sends : pc[s] \in {sends[s].pc, "abort", "failed"},
           sends' = [s \in DOMAIN sends |-> Disowned(sends[s], pc[s])]
    PROVE  SendsGoOn
<1>1. \A s \in DOMAIN sends : sends[s] \in SendRec
    BY SendsTyped
<1>2. DOMAIN sends' = DOMAIN sends
    OBVIOUS
<1>3. \A s \in DOMAIN sends :
          /\ sends'[s] \in SendRec
          /\ sends'[s].texts = sends[s].texts /\ sends'[s].post = sends[s].post
          /\ sends'[s].pc \in {sends[s].pc, "abort", "failed"}
    BY <1>1, DisownedRecord
<1>4. sends' \in Seq(SendRec)
    <2>1. Len(sends) \in Nat /\ DOMAIN sends = 1 .. Len(sends)
        BY DEF SendingInv, SendingTypes, SendsOK
    <2>2. sends' \in [1 .. Len(sends) -> SendRec]
        BY <2>1, <1>2, <1>3
    <2> QED
        BY <2>1, <2>2
<1> QED
    BY <1>2, <1>3, <1>4 DEF SendsGoOn

LEMMA LeaveKeepsInv == ASSUME SendingInv, Leave PROVE SendingInv'
<1> DEFINE pc == [s \in DOMAIN sends |->
                     IF Own(s) /\ sends[s].pc = "group" THEN "abort" ELSE sends[s].pc]
<1>1. \A s \in DOMAIN sends : sends[s].pc \in Pcs
    BY SendsTyped DEF SendRec
<1>2. pc \in [DOMAIN sends -> Pcs] /\ \A s \in DOMAIN sends : pc[s] \in {sends[s].pc, "abort"}
    BY <1>1 DEF Pcs
<1>3. sends' = [s \in DOMAIN sends |-> Disowned(sends[s], pc[s])]
    BY Zenon DEF Leave, Orphaned, Disowned
<1> HIDE DEF pc
<1>4. SendsGoOn
    BY <1>2, <1>3, DisownedSends
<1>5. DraftsGone /\ composer' = {} /\ drafts' = {} /\ load' = NoLoad
      /\ UNCHANGED <<posts, cache, blanked>>
    BY Zenon DEF Leave, Fresh
<1> QED
    BY <1>4, <1>5, NoLoadFacts, DraftsStep

LEMMA CrashKeepsInv == ASSUME SendingInv, Crash PROVE SendingInv'
<1> DEFINE pc == [s \in DOMAIN sends |-> IF Running(s) THEN "failed" ELSE sends[s].pc]
<1>1. \A s \in DOMAIN sends : sends[s].pc \in Pcs
    BY SendsTyped DEF SendRec
<1>2. pc \in [DOMAIN sends -> Pcs] /\ \A s \in DOMAIN sends : pc[s] \in {sends[s].pc, "failed"}
    BY <1>1 DEF Pcs
<1>3. sends' = [s \in DOMAIN sends |-> Disowned(sends[s], pc[s])]
    BY Zenon DEF Crash, Disowned
<1> HIDE DEF pc
<1>4. SendsGoOn
    BY <1>2, <1>3, DisownedSends
<1>5. composer' = {} /\ drafts' = {} /\ load' = NoLoad
      /\ UNCHANGED stores /\ UNCHANGED <<recorded, blanked>>
    BY Zenon DEF Crash, Fresh, history
<1> QED
    BY <1>4, <1>5, NoLoadFacts, QuietStep

-----------------------------------------------------------------------------
(* Sends begin, go on and fail. *)

LEMMA Appended ==
    ASSUME SendingInv, NEW r \in SendRec, sends' = Append(sends, r), r.pc \in {"drafts", "record"}
    PROVE  SendsGoOn
<1>1. /\ sends' \in Seq(SendRec)
      /\ DOMAIN sends' = 1 .. Len(sends) + 1 /\ DOMAIN sends = 1 .. Len(sends)
      /\ \A s \in DOMAIN sends' : sends'[s] = IF s \in DOMAIN sends THEN sends[s] ELSE r
    BY DEF SendingInv, SendingTypes, SendsOK
<1> QED
    BY <1>1 DEF SendsGoOn, SendingInv, SendingTypes, SendsOK

LEMMA SendBegunTyped ==
    ASSUME NEW texts \in SUBSET Texts, NEW pc \in Pcs
    PROVE  SendBegun(texts, pc) \in SendRec /\ SendBegun(texts, pc).pc = pc
BY DEF SendBegun, SendRec

(* One send whose step changes its record, not its texts. *)
Went(r, pc, post) == [r EXCEPT !.pc = pc, !.post = post]

SendGoes(s, pc, post) == sends' = [sends EXCEPT ![s] = Went(sends[s], pc, post)]

LEMMA WentRecord ==
    ASSUME NEW r \in SendRec, NEW pc \in Pcs, NEW post \in Nat
    PROVE  /\ Went(r, pc, post) \in SendRec
           /\ Went(r, pc, post).texts = r.texts
           /\ Went(r, pc, post).pc = pc /\ Went(r, pc, post).post = post
BY DEF Went, SendRec

LEMMA OneSend ==
    ASSUME SendingInv, NEW s \in DOMAIN sends, NEW pc \in Pcs, NEW post \in Nat,
           SendGoes(s, pc, post)
    PROVE  /\ sends' \in Seq(SendRec) /\ DOMAIN sends' = DOMAIN sends
           /\ \A e \in DOMAIN sends : e # s => sends'[e] = sends[e]
           /\ sends'[s].texts = sends[s].texts
           /\ sends'[s].pc = pc /\ sends'[s].post = post
<1>1. /\ Went(sends[s], pc, post) \in SendRec
      /\ Went(sends[s], pc, post).texts = sends[s].texts
      /\ Went(sends[s], pc, post).pc = pc /\ Went(sends[s], pc, post).post = post
    BY SendsTyped, WentRecord
<1>2. sends \in Seq(SendRec)
    BY DEF SendingInv, SendingTypes, SendsOK
<1> QED
    BY <1>1, <1>2 DEF SendGoes

LEMMA OnlyPc ==
    ASSUME SendingInv, NEW s \in DOMAIN sends, NEW pc \in Pcs,
           sends' = [sends EXCEPT ![s].pc = pc]
    PROVE  sends[s].post \in Nat /\ SendGoes(s, pc, sends[s].post)
<1>1. sends[s] \in SendRec
    BY SendsTyped
<1>2. [sends[s] EXCEPT !.pc = pc] = Went(sends[s], pc, sends[s].post)
    BY <1>1 DEF SendRec, Went
<1> QED
    <2>1. sends' = [sends EXCEPT ![s] = Went(sends[s], pc, sends[s].post)]
        BY <1>2, Zenon
    <2> QED
        BY <1>1, <2>1 DEF SendRec, SendGoes

LEMMA SendGoesOn ==
    ASSUME SendingInv, NEW s \in DOMAIN sends, NEW pc \in Pcs \ {"store", "remove"},
           sends' = [sends EXCEPT ![s].pc = pc]
    PROVE  SendsGoOn
<1>1. sends[s].post \in Nat /\ SendGoes(s, pc, sends[s].post)
    BY OnlyPc
<1> QED
    BY <1>1, OneSend DEF SendsGoOn

LEMMA BeginKeepsInv ==
    ASSUME SendingInv, Send \/ \E t \in Texts : SendPlace(t)
    PROVE  SendingInv'
<1>1. UNCHANGED <<stores, recorded, blanked, drafts, load>>
    BY DEF Send, SendPlace, history, loading
<1>2. composer' \subseteq Texts
    BY DEF Send, SendPlace, SendingInv, SendingTypes, SendsOK
<1>3. SendsGoOn
    <2>1. ASSUME NEW texts \in SUBSET Texts, NEW pc \in {"drafts", "record"},
                 sends' = Append(sends, SendBegun(texts, pc))
          PROVE  SendsGoOn
        BY <2>1, SendBegunTyped, Appended DEF Pcs
    <2>2. CASE Send
        BY <2>1, <2>2, SendsUnchanged DEF Send, Bubbling, SendingInv, SendingTypes, SendsOK
    <2>3. CASE \E t \in Texts : SendPlace(t)
        <3>1. PICK t \in Texts : SendPlace(t)
            BY <2>3
        <3> QED
            BY <2>1, <3>1 DEF SendPlace, Bubbling
    <2> QED
        BY <2>2, <2>3
<1> QED
    BY <1>1, <1>2, <1>3, QuietStep DEF SendingInv, SendingTypes, LoadOK

LEMMA RemoveDraftsKeepsInv ==
    ASSUME SendingInv, NEW s \in DOMAIN sends, RemoveDrafts(s)
    PROVE  SendingInv'
<1>1. SendsGoOn
    BY SendGoesOn DEF RemoveDrafts, Pcs
<1>2. UNCHANGED <<composer, load, posts, cache, blanked>>
    BY DEF RemoveDrafts, loading
<1>3. \/ DraftsGone /\ drafts' = {}
      \/ UNCHANGED <<outbox, recorded, drafts>>
    BY DEF RemoveDrafts
<1> QED
    BY <1>1, <1>2, <1>3, DraftsStep, QuietStep
        DEF stores, SendingInv, SendingTypes, SendsOK, LoadOK

(* A send that fails, or is tried again. *)
LEMMA EndingKeepsInv ==
    ASSUME SendingInv, NEW s \in DOMAIN sends,
           \/ Retry(s) \/ Timeout(s)
           \/ StoreSent(s, FALSE)
           \/ \E heard \in BOOLEAN : Post(s, "unsent", heard)
    PROVE  SendingInv'
<1>1. sends' = [sends EXCEPT ![s].pc = "group"] \/ sends' = [sends EXCEPT ![s].pc = "failed"]
    BY DEF Retry, Timeout, StoreSent, Post, Fails, Finished
<1>2. SendsGoOn
    BY <1>1, SendGoesOn DEF Pcs
<1>3. UNCHANGED <<composer, drafts, load, stores, recorded, blanked>>
    BY DEF Retry, Timeout, StoreSent, Post, stores, history, loading
<1> QED
    BY <1>2, <1>3, QuietStep DEF SendingInv, SendingTypes, SendsOK, LoadOK

LEMMA RecordKeepsInv ==
    ASSUME SendingInv, NEW s \in DOMAIN sends, NEW ok \in BOOLEAN, Record(s, ok)
    PROVE  SendingInv'
<1>1. UNCHANGED <<composer, drafts, load, posts, cache, blanked>>
    BY DEF Record, view, loading
<1>2. SendsGoOn
    BY SendGoesOn DEF Record, Pcs
<1>3. CASE ~ok
    BY <1>1, <1>2, <1>3, QuietStep DEF Record, stores, SendingInv, SendingTypes, SendsOK, LoadOK
<1>4. CASE ok
    <2>1. outbox' = outbox \cup {s} /\ recorded' = recorded \cup sends[s].texts
        BY <1>4 DEF Record
    <2>2. SendingTypes'
        BY <1>1, <1>2, <2>1 DEF SendingInv, SendingTypes, SendsOK, OutboxOK, PostsOK, CacheOK, LoadOK,
            SendsGoOn
    <2>3. \A t : Shown(t) => Shown(t)'
        BY <1>1, <1>2, CachedPosts DEF SendsGoOn, Shown
    <2>4. \A t : Waits(t) \/ t \in sends[s].texts => Waits(t)'
        BY <1>2, <2>1 DEF SendingInv, SendingTypes, OutboxOK, SendsGoOn, Waits
    <2>5. SendsInv'
        BY <1>1, <1>2, <2>3 DEF SendingInv, SendsInv, Posted, Saved, SendsGoOn
    <2> QED
        BY <1>1, <2>1, <2>2, <2>3, <2>4, <2>5 DEF SendingInv, SurvivalInv
<1> QED
    BY <1>3, <1>4

-----------------------------------------------------------------------------
(* The message is posted, stored, and its entry removed; a load stores a   *)
(* placeholder.                                                            *)

LEMMA PostKeepsInv ==
    ASSUME SendingInv, NEW s \in DOMAIN sends, NEW r, r # "unsent",
           NEW heard \in BOOLEAN, Post(s, r, heard)
    PROVE  SendingInv'
<1>0. PICK pc \in {"store", "timeout"} : pc = IF r = "ok" THEN "store" ELSE "timeout"
    OBVIOUS
<1>1. /\ posts' = Append(posts, s)
      /\ UNCHANGED <<composer, drafts, load, outbox, cache, recorded, blanked>>
    BY DEF Post, history, loading
<1>2. pc \in Pcs /\ Len(posts) + 1 \in Nat /\ pc # "remove"
    BY DEF Pcs, SendingInv, SendingTypes, PostsOK
<1>3. /\ sends' \in Seq(SendRec) /\ DOMAIN sends' = DOMAIN sends
      /\ \A e \in DOMAIN sends : e # s => sends'[e] = sends[e]
      /\ sends'[s].texts = sends[s].texts
      /\ sends'[s].pc = pc /\ sends'[s].post = Len(posts) + 1
    <2>1. SendGoes(s, pc, Len(posts) + 1)
        BY <1>0, Zenon DEF Post, Went, SendGoes
    <2> QED
        BY <1>2, <2>1, OneSend
<1>4. /\ posts' \in Seq(DOMAIN sends) /\ DOMAIN posts \subseteq DOMAIN posts'
      /\ Len(posts) + 1 \in DOMAIN posts' /\ posts'[Len(posts) + 1] = s
      /\ \A i \in DOMAIN posts : posts'[i] = posts[i]
    BY <1>1 DEF SendingInv, SendingTypes, PostsOK
<1>5. SendingTypes'
    BY <1>1, <1>3, <1>4 DEF SendingInv, SendingTypes, SendsOK, OutboxOK, PostsOK, CacheOK, LoadOK
<1>6. \A t : (Waits(t) => Waits(t)') /\ (Shown(t) => Shown(t)')
    <2>1. \A e \in outbox : e \in DOMAIN sends
        BY DEF SendingInv, SendingTypes, OutboxOK
    <2>2. \A e \in DOMAIN sends : sends'[e].texts = sends[e].texts
        BY <1>3
    <2>3. \A c \in cache : posts'[c.id] = posts[c.id] /\ posts[c.id] \in DOMAIN sends
        BY <1>4, CachedPosts
    <2>4. ASSUME NEW t, Waits(t) PROVE Waits(t)'
        BY <1>1, <2>1, <2>2, <2>4 DEF Waits
    <2>5. ASSUME NEW t, Shown(t) PROVE Shown(t)'
        BY <1>1, <2>2, <2>3, <2>5 DEF Shown
    <2> QED
        BY <2>4, <2>5
<1>7. SendsInv'
    BY <1>1, <1>2, <1>3, <1>4, <1>6 DEF SendingInv, SendsInv, Posted, Saved
<1> QED
    BY <1>1, <1>5, <1>6, <1>7 DEF SendingInv, SurvivalInv

LEMMA StoreKeepsInv ==
    ASSUME SendingInv, NEW s \in DOMAIN sends, StoreSent(s, TRUE)
    PROVE  SendingInv'
<1> DEFINE i == sends[s].post
<1>1. /\ i \in DOMAIN posts /\ posts[i] = s /\ i \in Nat
      /\ cache' = {c \in cache : c.id # i} \cup {Cached(i, "text")}
      /\ sends' = [sends EXCEPT ![s].pc = "remove"]
      /\ UNCHANGED <<composer, drafts, load, outbox, posts, recorded, blanked>>
    BY SendsTyped DEF StoreSent, StoredAs, history, loading, SendingInv, SendsInv, Posted, SendRec
<1>2. /\ sends' \in Seq(SendRec) /\ DOMAIN sends' = DOMAIN sends
      /\ \A e \in DOMAIN sends : e # s => sends'[e] = sends[e]
      /\ sends'[s].texts = sends[s].texts
      /\ sends'[s].pc = "remove" /\ sends'[s].post = i
    <2>1. "remove" \in Pcs
        BY DEF Pcs
    <2>2. SendGoes(s, "remove", i) /\ i \in Nat
        BY <1>1, <2>1, OnlyPc
    <2> QED
        BY <2>1, <2>2, OneSend
<1> HIDE DEF i
<1>3. Cached(i, "text") \in [id : DOMAIN posts, content : Contents]
      /\ Cached(i, "text").id = i /\ Cached(i, "text").content = "text"
    BY <1>1 DEF Cached, Contents
<1>4. SendingTypes'
    BY <1>1, <1>2, <1>3 DEF SendingInv, SendingTypes, SendsOK, OutboxOK, PostsOK, CacheOK, LoadOK
<1>5. \A e \in DOMAIN sends : sends'[e].texts = sends[e].texts
    BY <1>2
<1>6. \A t \in sends[s].texts : Shown(t)'
    BY <1>1, <1>3, <1>5 DEF Shown
<1>7. \A t : Shown(t) => Shown(t)'
    BY <1>1, <1>3, <1>5, CachedPosts DEF Shown
<1>8. \A t : Waits(t) => Waits(t)'
    BY <1>1, <1>5 DEF Waits, SendingInv, SendingTypes, OutboxOK
<1>9. SendsInv'
    BY <1>1, <1>2, <1>6, <1>7 DEF SendingInv, SendsInv, Posted, Saved
<1> QED
    BY <1>1, <1>4, <1>7, <1>8, <1>9 DEF SendingInv, SurvivalInv

LEMMA RemoveKeepsInv ==
    ASSUME SendingInv, NEW s \in DOMAIN sends, RemoveEntry(s)
    PROVE  SendingInv'
<1>1. /\ outbox' = outbox \ {s}
      /\ sends' = [sends EXCEPT ![s].pc = "done"]
      /\ UNCHANGED <<composer, drafts, load, posts, cache, recorded, blanked>>
    BY DEF RemoveEntry, EntryRemoved, Finished, history, loading
<1>2. SendsGoOn
    BY <1>1, SendGoesOn DEF Pcs
<1>3. SendingTypes'
    BY <1>1, <1>2 DEF SendingInv, SendingTypes, SendsOK, OutboxOK, PostsOK, CacheOK, LoadOK, SendsGoOn
<1>4. \A t : Shown(t) => Shown(t)'
    BY <1>1, <1>2, CachedPosts DEF SendsGoOn, Shown
<1>5. ASSUME NEW t, Waits(t), t \notin blanked
      PROVE  Waits(t)' \/ Shown(t)
    <2>1. PICK e \in outbox : t \in sends[e].texts
        BY <1>5 DEF Waits
    <2>2. CASE e = s
        BY <1>5, <2>1, <2>2 DEF RemoveEntry, SendingInv, SendsInv, Saved
    <2>3. CASE e # s
        BY <1>1, <1>2, <2>1, <2>3 DEF SendingInv, SendingTypes, OutboxOK, SendsGoOn, Waits
    <2> QED
        BY <2>2, <2>3
<1>6. SendsInv'
    BY <1>1, <1>2, <1>4 DEF SendingInv, SendsInv, Posted, Saved, SendsGoOn
<1> QED
    BY <1>1, <1>3, <1>4, <1>5, <1>6 DEF SendingInv, SurvivalInv

LEMMA FillKeepsInv ==
    ASSUME SendingInv, NEW i \in load.page, FillGap(i)
    PROVE  SendingInv'
<1>1. /\ i \in DOMAIN posts /\ posts[i] \in DOMAIN sends
      /\ cache' = {c \in cache : c.id # i} \cup {Cached(i, "blank")}
      /\ blanked' = IF Cached(i, "text") \in cache THEN blanked \cup sends[posts[i]].texts
                    ELSE blanked
      /\ UNCHANGED <<composer, drafts, sends, outbox, posts, recorded>>
    BY DEF FillGap, StoredAs, TextsOf, view, SendingInv, SendingTypes, LoadOK, PostsOK
<1>2. Cached(i, "blank") \in [id : DOMAIN posts, content : Contents]
    BY <1>1 DEF Cached, Contents
<1>3. load'.page \subseteq DOMAIN posts
    <2>1. ASSUME NEW missing PROVE Filling(missing).page \subseteq missing
        BY NoLoadFacts DEF Filling
    <2> QED
        BY <2>1 DEF FillGap, SendingInv, SendingTypes, LoadOK
<1>4. SendingTypes'
    BY <1>1, <1>2, <1>3 DEF SendingInv, SendingTypes, SendsOK, OutboxOK, PostsOK, CacheOK, LoadOK
<1>5. ASSUME NEW t, Shown(t) PROVE Shown(t)' \/ t \in blanked'
    <2>1. PICK c \in cache : c.content = "text" /\ t \in sends[posts[c.id]].texts
        BY <1>5 DEF Shown
    <2>2. CASE c.id = i
        <3>1. c = Cached(i, "text")
            BY <2>1, <2>2 DEF Cached, SendingInv, SendingTypes, CacheOK
        <3> QED
            BY <1>1, <2>1, <2>2, <3>1
    <2>3. CASE c.id # i
        BY <1>1, <2>1, <2>3 DEF Shown
    <2> QED
        BY <2>2, <2>3
<1>6. blanked \subseteq blanked'
    BY <1>1
<1>7. \A t : Waits(t) => Waits(t)'
    BY <1>1 DEF Waits
<1>8. SendsInv'
    BY <1>1, <1>5, <1>6 DEF SendingInv, SendsInv, Posted, Saved
<1> QED
    BY <1>1, <1>4, <1>5, <1>6, <1>7, <1>8 DEF SendingInv, SurvivalInv

-----------------------------------------------------------------------------
LEMMA SendingStep == ASSUME SendingInv, [SendingNext]_sendingVars PROVE SendingInv'
<1>1. CASE UNCHANGED sendingVars
    BY <1>1, SendsUnchanged, QuietStep
        DEF sendingVars, view, loading, history, SendingInv, SendingTypes, SendsOK, LoadOK
<1>2. CASE Visit \/ Return \/ Leave \/ RetryLoad \/ Send \/ Crash
    BY <1>2, LoadKeepsInv, ReturnKeepsInv, LeaveKeepsInv, CrashKeepsInv, BeginKeepsInv
<1>3. CASE LoadStep
    <2>1. \A ok \in May("load") : ok \in BOOLEAN
        BY DEF May
    <2> QED
        BY <1>3, <2>1, LoadKeepsInv, FillKeepsInv DEF LoadStep
<1>4. CASE \E t \in Texts : Type(t) \/ SendPlace(t)
    BY <1>4, LoadKeepsInv, BeginKeepsInv
<1>5. ASSUME NEW s \in DOMAIN sends, SendStep(s) \/ Retry(s) PROVE SendingInv'
    <2>1. CASE RemoveDrafts(s) \/ Timeout(s) \/ RemoveEntry(s) \/ Retry(s)
        BY <2>1, RemoveDraftsKeepsInv, EndingKeepsInv, RemoveKeepsInv
    <2>2. ASSUME NEW ok \in BOOLEAN, Record(s, ok) \/ StoreSent(s, ok) PROVE SendingInv'
        <3>1. CASE Record(s, ok)
            BY <3>1, RecordKeepsInv
        <3>2. CASE StoreSent(s, ok) /\ ok = TRUE
            BY <3>2, StoreKeepsInv
        <3>3. CASE StoreSent(s, ok) /\ ok = FALSE
            BY <3>3, EndingKeepsInv
        <3> QED
            BY <2>2, <3>1, <3>2, <3>3
    <2>3. ASSUME NEW r, NEW heard \in BOOLEAN, Post(s, r, heard) PROVE SendingInv'
        <3>1. CASE r = "unsent"
            BY <2>3, <3>1, EndingKeepsInv
        <3>2. CASE r # "unsent"
            BY <2>3, <3>2, PostKeepsInv
        <3> QED
            BY <3>1, <3>2
    <2>4. \A ok \in May("storage") : ok \in BOOLEAN
        BY DEF May
    <2> QED
        BY <1>5, <2>1, <2>2, <2>3, <2>4 DEF SendStep
<1> QED
    BY <1>1, <1>2, <1>3, <1>4, <1>5 DEF SendingNext

LEMMA SurvivalFollows == ASSUME SendingInv PROVE TextsSurvive
<1> SUFFICES ASSUME NEW t \in recorded, t \notin blanked, ~Waits(t)
             PROVE  t \in Sent
    BY DEF TextsSurvive, EntryTexts, Waits
<1>1. PICK c \in cache : c.content = "text" /\ t \in sends[posts[c.id]].texts
    BY DEF SendingInv, SurvivalInv, Shown
<1>2. t \in Texts
    BY <1>1, CachedPosts, SendsTyped DEF SendRec
<1> QED
    BY <1>1, <1>2 DEF Sent, TextsOf

(* A text whose send wrote its record is in the outbox until it is in the  *)
(* message cache, unless a load stored a placeholder over it or the page   *)
(* took it out of the outbox as a draft (sendMessage, OutboxRepository):   *)
(* for any number of sends, visits and faults.                             *)
THEOREM TextsAlwaysSurvive == SendingSpec => []TextsSurvive
<1>1. SendingInit => SendingInv
    BY SendingStarts
<1>2. SendingInv /\ [SendingNext]_sendingVars => SendingInv'
    BY SendingStep
<1>3. SendingInv => TextsSurvive
    BY SurvivalFollows
<1> QED
    BY <1>1, <1>2, <1>3, PTL DEF SendingSpec

=============================================================================
