---------------------------- MODULE GenesisProofs ----------------------------
(***************************************************************************)
(* Theorems about Genesis, for any set of devices and any number of states *)
(* and rounds: as long as the server does not give the initiator's claim   *)
(* to another device, one device founds the conversation; and when the     *)
(* catch-up of a rollback sees what the server has, success means that the *)
(* server holds the device's group.                                        *)
(***************************************************************************)
EXTENDS Genesis, FiniteSetTheorems, WellFoundedInduction, TLAPS

(* The greatest of some positions is one of them. *)
LEMMA MaxInSet ==
    ASSUME NEW n \in Nat, NEW S, S \subseteq 1 .. n, S # {}
    PROVE  Max(S) \in S
<1> DEFINE T == {n - x : x \in S}
<1>1. T \subseteq Nat /\ T # {}
    <2>1. \A x \in S : n - x \in Nat
        OBVIOUS
    <2> QED
        BY <2>1
<1> DEFINE R == OpToRel(<, Nat)
<1>2. IsWellFoundedOn(R, Nat)
    BY NatLessThanWellFounded
<1>3. \A x, y \in Nat : x < y => <<x, y>> \in R
    BY DEF OpToRel
<1> HIDE DEF R
<1>4. PICK y \in T : \A z \in T : <<z, y>> \notin R
    BY <1>2, <1>1, WFMin
<1>5. PICK x \in S : y = n - x
    OBVIOUS
<1>6. \A z \in S : x >= z
    <2> SUFFICES ASSUME NEW z \in S, ~(x >= z)
                 PROVE  FALSE
        OBVIOUS
    <2>1. n - z \in Nat /\ y \in Nat /\ n - z < y /\ n - z \in T
        BY <1>5
    <2> QED
        BY <1>3, <1>4, <2>1
<1> QED
    BY <1>6 DEF Max

USE ConstantsAssumption

-----------------------------------------------------------------------------
(* Types: a state is referred to only once it is built.                    *)

Refs == 1 .. Len(built)
MaybeRefs == 0 .. Len(built)

Pcs == {"idle", "recover", "confirmed", "behind", "role", "poll", "round", "precheck",
        "create", "write", "phase2", "consume", "posting", "rolledback"}
StateRec == [by : Devices, epoch : Nat, parent : 0 .. MaxStates, members : SUBSET Devices]
CallRec == [pc : Pcs, solo : MaybeRefs, mine : MaybeRefs, reply : -1 .. Len(built),
            retried : BOOLEAN, round : 0 .. MaxRounds - 1]

BuiltOK == built \in Seq(StateRec) /\ Len(built) <= MaxStates
LogOK == log \in Seq(Refs)
ClaimOK == claim \subseteq Devices /\ \A d, e \in claim : d = e
Commit(s) == s \in Refs /\ Epoch(s) # 0
NetOK == (\A c \in net : Commit(c)) /\ welcomes \subseteq [to : Devices, state : Refs]
StateOK == state \in [Devices -> MaybeRefs]
MarkerOK == marker \in [Devices -> [newEpoch : Nat \cup {-1}, prev : MaybeRefs]]
DigestsOK == digests \in [Devices -> SUBSET Refs]
CallOK ==
    /\ call \in [Devices -> CallRec]
    /\ \A d \in Devices : /\ At(d, "consume") => call[d].solo # NoState
                          /\ At(d, "posting") => call[d].solo # NoState /\ Commit(call[d].mine)
RecoveryOK == recovery \in [Devices -> {"idle", "resolve", "catchup"}]
ResultOK == result \in [Devices -> {"none", "ready", "failed"}]

TypeInv == /\ BuiltOK /\ LogOK /\ ClaimOK /\ NetOK /\ StateOK /\ MarkerOK /\ DigestsOK
           /\ CallOK /\ RecoveryOK /\ ResultOK

LEMMA TypeInvIsTypeOK == TypeInv => TypeOK
<1> SUFFICES ASSUME TypeInv PROVE TypeOK
    OBVIOUS
<1>1. Refs \subseteq States /\ MaybeRefs \subseteq 0 .. MaxStates /\ CallRec \subseteq Call
    BY DEF TypeInv, BuiltOK, Refs, MaybeRefs, States, CallRec, Call, Pcs
<1>2. log \in Seq(States)
    BY <1>1 DEF TypeInv, LogOK
<1>3. Cardinality(claim) <= 1
    <2>1. claim = {} \/ \E d \in claim : claim = {d}
        BY DEF TypeInv, ClaimOK
    <2>2. Cardinality({}) = 0 /\ \A d \in claim : Cardinality({d}) = 1
        BY FS_EmptySet, FS_Singleton
    <2> QED
        BY <2>1, <2>2
<1> QED
    BY <1>1, <1>2, <1>3 DEF TypeOK, TypeInv, BuiltOK, ClaimOK, NetOK, Commit, StateOK, MarkerOK, DigestsOK,
        CallOK, RecoveryOK, ResultOK, StateRec, Refs, MaybeRefs

LEMMA IdleFacts ==
    ASSUME TypeInv
    PROVE  /\ NoCall \in CallRec /\ NoCall.pc = "idle"
           /\ NoMarker \in [newEpoch : Nat \cup {-1}, prev : MaybeRefs]
<1>1. Len(built) \in Nat /\ MaxRounds - 1 \in Nat
    BY DEF TypeInv, BuiltOK
<1> QED
    BY <1>1 DEF NoCall, CallRec, Pcs, MaybeRefs, NoState, NoMarker

LEMMA BuiltFacts ==
    ASSUME TypeInv, NEW s \in Refs
    PROVE  /\ built[s] \in StateRec /\ built[s].by \in Devices
           /\ Epoch(s) \in Nat /\ Members(s) \subseteq Devices
<1>1. built[s] \in StateRec
    BY DEF TypeInv, BuiltOK, Refs
<1> QED
    BY <1>1 DEF StateRec, Epoch, Members

(* What most actions do: the states and the server stay as they are, and a *)
(* call moves or returns.                                                  *)
LEMMA GotoType ==
    ASSUME TypeInv, NEW d \in Devices, NEW pc \in Pcs \ {"consume", "posting"}, Goto(d, pc),
           UNCHANGED built
    PROVE  CallOK' /\ ResultOK'
<1>1. call' = [call EXCEPT ![d] = [call[d] EXCEPT !.pc = pc]] /\ result' = result
    BY DEF Goto
<1> DEFINE c == [call[d] EXCEPT !.pc = pc]
<1>2. c \in CallRec /\ c.pc = pc /\ CallRec' = CallRec
    BY DEF TypeInv, CallOK, CallRec, MaybeRefs
<1> HIDE DEF c
<1> QED
    BY <1>1, <1>2 DEF TypeInv, CallOK, ResultOK, At, Commit, Epoch, Refs, c

LEMMA ReturnType ==
    ASSUME TypeInv, NEW d \in Devices, NEW r \in {"none", "ready", "failed"},
           call' = [call EXCEPT ![d] = NoCall], result' = [result EXCEPT ![d] = r],
           UNCHANGED built
    PROVE  CallOK' /\ ResultOK'
BY IdleFacts DEF TypeInv, CallOK, ResultOK, CallRec, At, MaybeRefs, Commit, Epoch, Refs

LEMMA AppliedType ==
    ASSUME TypeInv, NEW s \in MaybeRefs
    PROVE  Applied(s) \in MaybeRefs
<1> DEFINE Reached == {i \in 1 .. Len(log) :
               \E f \in 1 .. i : /\ built[log[f]].parent = s
                                 /\ \A k \in f + 1 .. i : built[log[k]].parent = log[k - 1]}
<1>1. CASE Reached = {}
    BY <1>1 DEF Applied
<1>2. CASE Reached # {}
    <2>1. Max(Reached) \in 1 .. Len(log)
        <3>1. Len(log) \in Nat /\ Reached \subseteq 1 .. Len(log)
            BY DEF TypeInv, LogOK
        <3> HIDE DEF Reached
        <3> QED
            BY <1>2, <3>1, MaxInSet
    <2>2. log[Max(Reached)] \in MaybeRefs
        BY <2>1 DEF TypeInv, LogOK, Refs, MaybeRefs, BuiltOK
    <2> QED
        BY <1>2, <2>2 DEF Applied
<1> QED
    BY <1>1, <1>2

LEMMA FetchType ==
    ASSUME TypeInv, NEW d \in Devices, UNCHANGED built,
           (\E w \in Fresh(d) : Process(d, w)) \/ UNCHANGED <<state, digests>>
    PROVE  StateOK' /\ DigestsOK'
<1>1. \A w \in Fresh(d) : w.state \in Refs
    BY DEF Fresh, TypeInv, NetOK
<1>2. Refs \subseteq MaybeRefs
    BY DEF Refs, MaybeRefs
<1> QED
    BY <1>1, <1>2 DEF TypeInv, StateOK, DigestsOK, Process, Refs, MaybeRefs

LEMMA AskType ==
    ASSUME TypeInv, NEW d \in Devices, UNCHANGED built, AskServer(d)
    PROVE  StateOK'
<1>1. state[d] \in MaybeRefs
    BY DEF TypeInv, StateOK
<1>2. Applied(state[d]) \in MaybeRefs
    BY <1>1, AppliedType
<1> QED
    BY <1>1, <1>2 DEF AskServer, TypeInv, StateOK, MaybeRefs

LEMMA BuiltGrows ==
    ASSUME TypeInv, NEW r \in StateRec, built' = Append(built, r), Len(built) < MaxStates
    PROVE  /\ BuiltOK' /\ Len(built') = Len(built) + 1
           /\ Refs \subseteq Refs' /\ MaybeRefs \subseteq MaybeRefs' /\ CallRec \subseteq CallRec'
           /\ Len(built) + 1 \in Refs'
           /\ \A s \in Refs : built'[s] = built[s]
           /\ \A s : Commit(s) => Commit(s)'
           /\ built'[Len(built) + 1] = r
<1>1. built \in Seq(StateRec) /\ Len(built) \in Nat
    BY DEF TypeInv, BuiltOK
<1>2. built' \in Seq(StateRec) /\ Len(built') = Len(built) + 1
    BY <1>1
<1>3. Refs \subseteq Refs' /\ MaybeRefs \subseteq MaybeRefs'
    BY <1>1, <1>2 DEF Refs, MaybeRefs
<1>4. CallRec \subseteq CallRec'
    BY <1>1, <1>2, <1>3 DEF CallRec
<1>5. \A s \in Refs : built'[s] = built[s]
    BY <1>1 DEF Refs
<1> QED
    BY <1>1, <1>2, <1>3, <1>4, <1>5 DEF BuiltOK, Refs, StateRec, Commit, Epoch

-----------------------------------------------------------------------------
(* The call of ensureGroupReady: role, polling and what the device has. *)
LEMMA EnsureType ==
    ASSUME TypeInv, NEW d \in Devices,
           \/ Begin(d) \/ AfterRecovery(d) \/ HealFromWelcome(d) \/ CatchUpConfirmed(d)
           \/ AskRole(d) \/ Poll(d) \/ NextRound(d) \/ Throw(d) \/ Precheck(d) \/ LookAgain(d)
    PROVE  TypeInv'
<1> USE DEF server
<1>0. UNCHANGED <<built, log, net, welcomes, marker>>
    BY DEF Begin, AfterRecovery, HealFromWelcome, CatchUpConfirmed, AskRole, Poll, NextRound,
        Throw, Precheck, LookAgain
<1>1. CallOK' /\ ResultOK'
    <2>1. CASE NextRound(d) /\ call[d].round + 1 < MaxRounds
        <3> DEFINE c == [call[d] EXCEPT !.pc = "role", !.round = call[d].round + 1]
        <3>0. call[d] \in CallRec /\ call[d].round \in Nat /\ MaxRounds \in Nat
            BY DEF TypeInv, CallOK, CallRec
        <3>1. /\ call' = [call EXCEPT ![d].pc = "role", ![d].round = call[d].round + 1]
              /\ result' = result
            BY <2>1, <3>0 DEF NextRound
        <3>2. call' = [call EXCEPT ![d] = c]
            BY <3>0, <3>1
        <3>3. call[d].round + 1 \in 0 .. MaxRounds - 1
            BY <2>1, <3>0
        <3>4. c \in CallRec /\ c.pc = "role" /\ CallRec' = CallRec
            BY <1>0, <3>0, <3>3 DEF CallRec, Pcs, MaybeRefs
        <3> HIDE DEF c
        <3>5. call' \in [Devices -> CallRec]
            BY <3>2, <3>4 DEF TypeInv, CallOK
        <3>6. \A e \in Devices : call'[e] = IF e = d THEN c ELSE call[e]
            BY <3>2 DEF TypeInv, CallOK
        <3> QED
            BY <1>0, <3>1, <3>4, <3>5, <3>6 DEF TypeInv, CallOK, ResultOK, At, Commit, Epoch, Refs
    <2>2. CASE ~(NextRound(d) /\ call[d].round + 1 < MaxRounds)
        <3>1. \/ \E pc \in Pcs \ {"consume", "posting"} : Goto(d, pc)
              \/ \E r \in {"ready", "failed"} : Return(d, r)
            <4>1. call[d].round \in Nat /\ MaxRounds \in Nat
                BY DEF TypeInv, CallOK, CallRec
            <4> QED
                BY <2>2, <4>1 DEF Begin, AfterRecovery, HealFromWelcome, CatchUpConfirmed,
                    AskRole, Poll, NextRound, Throw, Precheck, LookAgain, FetchWelcome, Pcs
        <3> QED
            BY <1>0, <3>1, GotoType, ReturnType DEF Return
    <2> QED
        BY <2>1, <2>2
<1>2. StateOK' /\ DigestsOK'
    <2>1. CASE CatchUpConfirmed(d)
        BY <1>0, <2>1, AppliedType DEF CatchUpConfirmed, TypeInv, StateOK, DigestsOK, MaybeRefs,
            Refs
    <2>2. CASE ~CatchUpConfirmed(d)
        <3>1. (\E w \in Fresh(d) : Process(d, w)) \/ UNCHANGED <<state, digests>>
            BY <2>2 DEF Begin, AfterRecovery, HealFromWelcome, AskRole, Poll, NextRound,
                Throw, Precheck, LookAgain, FetchWelcome
        <3> QED
            BY <1>0, <3>1, FetchType
    <2> QED
        BY <2>1, <2>2
<1>3. ClaimOK'
    <2>1. CASE AskRole(d)
        BY <2>1 DEF AskRole, TypeInv, ClaimOK
    <2>2. CASE ~AskRole(d)
        BY <2>2 DEF Begin, AfterRecovery, HealFromWelcome, CatchUpConfirmed, Poll, NextRound,
            Throw, Precheck, LookAgain, TypeInv, ClaimOK
    <2> QED
        BY <2>1, <2>2
<1>4. RecoveryOK'
    BY DEF Begin, AfterRecovery, HealFromWelcome, CatchUpConfirmed, AskRole, Poll, NextRound,
        Throw, Precheck, LookAgain, TypeInv, RecoveryOK
<1> QED
    BY <1>0, <1>1, <1>2, <1>3, <1>4 DEF TypeInv, BuiltOK, LogOK, NetOK, MarkerOK, Refs, MaybeRefs,
        Commit, Epoch

-----------------------------------------------------------------------------
(* The founding. *)
LEMMA CreateType ==
    ASSUME TypeInv, NEW d \in Devices, CreateSolo(d)
    PROVE  TypeInv'
<1> USE DEF server
<1>1. CASE state[d] # NoState
    <2>1. UNCHANGED <<built, state, log, claim, net, welcomes, marker, digests, recovery>>
        BY <1>1 DEF CreateSolo
    <2>2. CallOK' /\ ResultOK'
        BY <2>1, GotoType DEF CreateSolo, Pcs
    <2> QED
        BY <2>1, <2>2 DEF TypeInv, BuiltOK, LogOK, ClaimOK, NetOK, StateOK, MarkerOK, DigestsOK,
            RecoveryOK, Refs, MaybeRefs, Commit, Epoch
<1>2. CASE state[d] = NoState
    <2> DEFINE r == [by |-> d, epoch |-> 0, parent |-> NoState, members |-> {d}]
    <2>1. r \in StateRec /\ built' = Append(built, r) /\ Len(built) < MaxStates
        BY <1>2 DEF CreateSolo, StateRec, NoState
    <2> HIDE DEF r
    <2>2. /\ BuiltOK' /\ Len(built') \in Refs' /\ Refs \subseteq Refs'
          /\ \A s : Commit(s) => Commit(s)'
          /\ MaybeRefs \subseteq MaybeRefs' /\ CallRec \subseteq CallRec'
        BY <2>1, BuiltGrows
    <2>3. StateOK'
        BY <1>2, <2>2 DEF CreateSolo, TypeInv, StateOK, Refs, MaybeRefs
    <2>4. CallOK' /\ ResultOK'
        <3> DEFINE c == [call[d] EXCEPT !.pc = "phase2"]
        <3>1. call' = [call EXCEPT ![d] = c] /\ result' = result
            BY DEF CreateSolo, Goto
        <3>2. c \in CallRec' /\ c.pc = "phase2"
            BY <2>2 DEF TypeInv, CallOK, CallRec, Pcs
        <3> HIDE DEF c
        <3> QED
            BY <2>2, <3>1, <3>2 DEF TypeInv, CallOK, ResultOK, At
    <2>5. LogOK' /\ NetOK' /\ MarkerOK' /\ DigestsOK' /\ ClaimOK' /\ RecoveryOK'
        BY <2>2 DEF CreateSolo, TypeInv, LogOK, NetOK, MarkerOK, DigestsOK, ClaimOK, RecoveryOK
    <2> QED
        BY <2>2, <2>3, <2>4, <2>5 DEF TypeInv
<1> QED
    BY <1>1, <1>2

LEMMA LoadType ==
    ASSUME TypeInv, NEW d \in Devices, LoadSolo(d)
    PROVE  TypeInv'
<1> USE DEF server
<1>0. UNCHANGED <<built, log, claim, net, welcomes, state, marker, digests, recovery>>
    BY DEF LoadSolo
<1>1. CallOK' /\ ResultOK'
    <2>1. CASE state[d] = NoState
        BY <1>0, <2>1, ReturnType DEF LoadSolo, Return
    <2>2. CASE state[d] # NoState
        <3> DEFINE c == [call[d] EXCEPT !.pc = "consume", !.solo = state[d]]
        <3>1. call' = [call EXCEPT ![d].pc = "consume", ![d].solo = state[d]]
              /\ result' = result
            BY <2>2 DEF LoadSolo
        <3>2. call[d] \in CallRec /\ state[d] \in MaybeRefs
            BY DEF TypeInv, CallOK, StateOK
        <3>3. call' = [call EXCEPT ![d] = c]
            BY <3>1, <3>2
        <3>4. c \in CallRec /\ c.pc = "consume" /\ c.solo # NoState /\ CallRec' = CallRec
            BY <1>0, <2>2, <3>2 DEF CallRec, Pcs, MaybeRefs
        <3> HIDE DEF c
        <3>5. call' \in [Devices -> CallRec]
            BY <3>3, <3>4 DEF TypeInv, CallOK
        <3>6. \A e \in Devices : call'[e] = IF e = d THEN c ELSE call[e]
            BY <3>3 DEF TypeInv, CallOK
        <3> QED
            BY <1>0, <3>1, <3>4, <3>5, <3>6 DEF TypeInv, CallOK, ResultOK, At, Commit, Epoch, Refs
    <2> QED
        BY <2>1, <2>2
<1> QED
    BY <1>0, <1>1 DEF TypeInv, BuiltOK, LogOK, ClaimOK, NetOK, StateOK, MarkerOK, DigestsOK,
        RecoveryOK, Refs, MaybeRefs, Commit, Epoch

LEMMA WriteType ==
    ASSUME TypeInv, NEW d \in Devices, AddParticipants(d)
    PROVE  TypeInv'
<1>0. PICK targets \in Invites[d] : WriteGenesis(d, targets)
    BY DEF AddParticipants
<1> DEFINE solo == call[d].solo
           n == Len(built) + 1
<1>1. CASE state[d] # solo
    <2>1. UNCHANGED <<built, log, claim, net, welcomes, state, marker, digests, recovery>>
        BY <1>0, <1>1 DEF WriteGenesis
    <2>2. CallOK' /\ ResultOK'
        BY <1>0, <1>1, <2>1, ReturnType DEF WriteGenesis, Return
    <2> QED
        BY <2>1, <2>2 DEF TypeInv, BuiltOK, LogOK, ClaimOK, NetOK, StateOK, MarkerOK, DigestsOK,
            RecoveryOK, Refs, MaybeRefs, Commit, Epoch
<1>2. CASE state[d] = solo
    <2> DEFINE r == [by |-> d, epoch |-> Epoch(solo) + 1, parent |-> solo,
                     members |-> Members(solo) \cup targets]
               c == [call[d] EXCEPT !.pc = "posting", !.mine = n]
    <2>1. /\ Len(built) < MaxStates /\ built' = Append(built, r)
          /\ state' = [state EXCEPT ![d] = n]
          /\ marker' = [marker EXCEPT ![d] = MarkerFor(d)]
          /\ net' = net \cup {n}
          /\ call' = [call EXCEPT ![d].pc = "posting", ![d].mine = n]
          /\ UNCHANGED <<result, log, claim, welcomes, digests, recovery>>
        BY <1>0, <1>2 DEF WriteGenesis
    <2>2. solo \in Refs /\ call[d] \in CallRec /\ solo # NoState
        <3>1. At(d, "consume")
            BY <1>0 DEF WriteGenesis
        <3> QED
            BY <3>1 DEF TypeInv, CallOK, CallRec, Refs, MaybeRefs, NoState
    <2>3. built[solo] \in StateRec /\ targets \subseteq Devices
        BY <1>0, <2>2 DEF TypeInv, BuiltOK, Refs
    <2>4. Epoch(solo) \in Nat /\ Members(solo) \subseteq Devices
        BY <2>3 DEF StateRec, Epoch, Members
    <2>5. r \in StateRec
        <3>1. solo \in 0 .. MaxStates
            BY <2>2 DEF TypeInv, BuiltOK, Refs
        <3>2. Epoch(solo) + 1 \in Nat /\ Members(solo) \cup targets \in SUBSET Devices
            BY <2>3, <2>4
        <3> QED
            BY <3>1, <3>2 DEF StateRec
    <2> HIDE DEF r
    <2>6. /\ BuiltOK' /\ n \in Refs' /\ Refs \subseteq Refs'
          /\ MaybeRefs \subseteq MaybeRefs' /\ CallRec \subseteq CallRec'
          /\ (\A s : Commit(s) => Commit(s)') /\ built'[n].epoch # 0
        <3>1. r.epoch # 0
            BY <2>4 DEF r
        <3>2. built'[n] = r /\ n \in Refs'
            BY <2>1, <2>5, BuiltGrows
        <3> QED
            BY <2>1, <2>5, <3>1, <3>2, BuiltGrows
    <2>7. n \in MaybeRefs'
        BY <2>6 DEF Refs, MaybeRefs
    <2>8. c \in CallRec' /\ c.pc = "posting" /\ c.solo = solo /\ c.mine = n
        <3>1. call[d] \in CallRec'
            BY <2>2, <2>6
        <3> QED
            BY <2>7, <3>1 DEF CallRec, Pcs
    <2>9. call' = [call EXCEPT ![d] = c]
        BY <2>1, <2>2
    <2> HIDE DEF c, n
    <2>10. CallOK'
        <3>1. call' \in [Devices -> CallRec']
            BY <2>6, <2>8, <2>9 DEF TypeInv, CallOK
        <3>2. \A e \in Devices : call'[e] = IF e = d THEN c ELSE call[e]
            BY <2>9 DEF TypeInv, CallOK
        <3> QED
            BY <2>2, <2>6, <2>8, <3>1, <3>2 DEF TypeInv, CallOK, At, Commit, Epoch
    <2>11. StateOK' /\ NetOK'
        BY <2>1, <2>6, <2>7 DEF TypeInv, StateOK, NetOK, Commit, Epoch
    <2>12. MarkerOK'
        <3>1. MarkerFor(d) \in [newEpoch : Nat \cup {-1}, prev : MaybeRefs']
            BY <2>2, <2>4, <2>6 DEF MarkerFor, Refs, MaybeRefs, TypeInv, BuiltOK
        <3> QED
            BY <2>1, <2>6, <3>1 DEF TypeInv, MarkerOK
    <2>13. LogOK' /\ DigestsOK' /\ ClaimOK' /\ RecoveryOK' /\ ResultOK'
        BY <2>1, <2>6 DEF TypeInv, LogOK, DigestsOK, ClaimOK, RecoveryOK, ResultOK
    <2> QED
        BY <2>6, <2>10, <2>11, <2>12, <2>13 DEF TypeInv
<1> QED
    BY <1>1, <1>2

-----------------------------------------------------------------------------
(* The network, the server and the answers. *)
LEMMA AnswerType ==
    ASSUME TypeInv, NEW c, NEW r \in -1 .. Len(built), Answer(c, r), UNCHANGED built
    PROVE  CallOK'
<1>1. \A d \in Devices : call[d] \in CallRec /\ [call[d] EXCEPT !.reply = r] \in CallRec
    <2>1. \A k \in CallRec : [k EXCEPT !.reply = r] \in CallRec
        BY DEF CallRec
    <2> QED
        BY <2>1 DEF TypeInv, CallOK
<1>2. call' \in [Devices -> CallRec] /\ CallRec' = CallRec
    BY <1>1 DEF Answer, CallRec, MaybeRefs
<1>3. \A d \in Devices : /\ call'[d].pc = call[d].pc /\ call'[d].solo = call[d].solo
                         /\ call'[d].mine = call[d].mine
    BY <1>1 DEF Answer, CallRec
<1> QED
    BY <1>2, <1>3 DEF TypeInv, CallOK, At, Commit, Epoch, Refs

LEMMA ReceiveType ==
    ASSUME TypeInv, NEW c \in net, Receive(c)
    PROVE  TypeInv'
<1>1. c \in Refs /\ c \in Int /\ Len(built) \in Nat
    BY DEF TypeInv, NetOK, Commit, Refs, BuiltOK
<1>2. CASE ServerStore(c)
    <2>1. LogOK'
        BY <1>1, <1>2 DEF Receive, ServerStore, TypeInv, LogOK, Refs
    <2>2. ClaimOK'
        BY <1>2 DEF ServerStore, TypeInv, ClaimOK
    <2>3. CallOK'
        BY <1>1, <1>2, AnswerType DEF Receive, ServerStore, Refs
    <2>4. NetOK'
        <3>1. Members(c) \subseteq Devices
            BY <1>1, BuiltFacts
        <3> QED
            BY <1>1, <1>2, <3>1 DEF Receive, ServerStore, TypeInv, NetOK, Refs, Commit, Epoch
    <2> QED
        BY <2>1, <2>2, <2>3, <2>4 DEF Receive, TypeInv, BuiltOK, StateOK, MarkerOK, DigestsOK,
            RecoveryOK, ResultOK, Refs, MaybeRefs
<1>3. CASE ServerKeepsWinner(c) \/ ServerRejects(c)
    <2>1. UNCHANGED <<built, log, claim, welcomes>>
        BY <1>3 DEF Receive, ServerKeepsWinner, ServerRejects
    <2>2. CallOK'
        <3>1. CASE ServerRejects(c)
            BY <1>1, <2>1, <3>1, AnswerType DEF ServerRejects
        <3>2. CASE ServerKeepsWinner(c)
            <4>1. Epoch(c) \in Nat \ {0}
                BY <1>1, BuiltFacts DEF TypeInv, NetOK, Commit
            <4>2. log[Epoch(c)] \in Refs
                BY <3>2, <4>1 DEF ServerKeepsWinner, TypeInv, LogOK
            <4> QED
                BY <1>1, <2>1, <3>2, <4>2, AnswerType DEF ServerKeepsWinner, Refs
        <3> QED
            BY <1>3, <3>1, <3>2
    <2>3. NetOK'
        BY <2>1 DEF Receive, TypeInv, NetOK, Refs, Commit, Epoch
    <2> QED
        BY <2>1, <2>2, <2>3 DEF Receive, TypeInv, BuiltOK, LogOK, ClaimOK, StateOK, MarkerOK,
            DigestsOK, RecoveryOK, ResultOK, Refs, MaybeRefs
<1> QED
    BY <1>2, <1>3 DEF Receive

LEMMA NetworkType ==
    ASSUME TypeInv,
           (\E c \in net : LoseRequest(c)) \/ \E d \in Devices : RetryPost(d)
    PROVE  TypeInv'
<1>1. UNCHANGED <<built, log, claim, welcomes, state, marker, digests, recovery, result>>
    BY DEF LoseRequest, RetryPost
<1>2. NetOK'
    BY <1>1 DEF LoseRequest, RetryPost, TypeInv, NetOK, CallOK, At, Commit, Epoch, Refs
<1>3. CallOK'
    <2>1. CASE call' = call
        BY <1>1, <2>1 DEF TypeInv, CallOK, CallRec, At, Commit, Epoch, Refs, MaybeRefs
    <2>2. ASSUME NEW d \in Devices, RetryPost(d)
          PROVE  CallOK'
        <3> DEFINE c == [call[d] EXCEPT !.reply = 0, !.retried = TRUE]
        <3>1. call' = [call EXCEPT ![d].reply = 0, ![d].retried = TRUE]
            BY <2>2 DEF RetryPost
        <3>2. call[d] \in CallRec /\ Len(built) \in Nat
            BY DEF TypeInv, CallOK, BuiltOK
        <3>3. call' = [call EXCEPT ![d] = c]
            BY <3>1, <3>2
        <3>4. /\ c \in CallRec /\ CallRec' = CallRec
              /\ c.pc = call[d].pc /\ c.solo = call[d].solo /\ c.mine = call[d].mine
            <4>1. 0 \in -1 .. Len(built)
                BY <3>2
            <4>2. c \in CallRec
                BY <3>2, <4>1 DEF CallRec
            <4> QED
                BY <1>1, <3>2, <4>2 DEF CallRec, MaybeRefs
        <3> HIDE DEF c
        <3>5. call' \in [Devices -> CallRec]
            BY <3>3, <3>4 DEF TypeInv, CallOK
        <3>6. \A e \in Devices : call'[e] = IF e = d THEN c ELSE call[e]
            BY <3>3 DEF TypeInv, CallOK
        <3> QED
            BY <1>1, <3>4, <3>5, <3>6 DEF TypeInv, CallOK, At, Commit, Epoch, Refs
    <2> QED
        BY <2>1, <2>2 DEF LoseRequest
<1> QED
    BY <1>1, <1>2, <1>3 DEF TypeInv, BuiltOK, LogOK, ClaimOK, StateOK, MarkerOK, DigestsOK,
        RecoveryOK, ResultOK, Refs, MaybeRefs

LEMMA AnsweredType ==
    ASSUME TypeInv, NEW d \in Devices,
           Confirm(d) \/ Conflict(d) \/ Reconcile(d) \/ ReconcileWithServer(d) \/ Crash(d)
    PROVE  TypeInv'
<1> USE DEF server
<1>1. UNCHANGED <<built, log, claim, net, welcomes, digests>>
    BY DEF Confirm, Conflict, Reconcile, ReconcileWithServer, Crash
<1>2. CallOK' /\ ResultOK'
    <2>1. \/ Goto(d, "rolledback")
          \/ \E r \in {"none", "ready", "failed"} :
                call' = [call EXCEPT ![d] = NoCall] /\ result' = [result EXCEPT ![d] = r]
        BY DEF Confirm, Conflict, Reconcile, ReconcileWithServer, Crash, Return
    <2> QED
        BY <1>1, <2>1, GotoType, ReturnType DEF Pcs
<1>3. StateOK'
    <2>1. CASE ReconcileWithServer(d)
        BY <1>1, <2>1, AskType DEF ReconcileWithServer
    <2>2. CASE ~ReconcileWithServer(d)
        <3>1. \/ state' = state
              \/ \E s \in {NoState, call[d].solo} : state' = [state EXCEPT ![d] = s]
            BY <2>2 DEF Confirm, Conflict, Cleared, Reconcile, Crash
        <3>2. NoState \in MaybeRefs /\ call[d].solo \in MaybeRefs
            BY DEF TypeInv, CallOK, CallRec, BuiltOK, MaybeRefs, NoState
        <3> QED
            BY <1>1, <3>1, <3>2 DEF TypeInv, StateOK, MaybeRefs
    <2> QED
        BY <2>1, <2>2
<1>4. MarkerOK'
    <2>1. marker' = marker \/ marker' = [marker EXCEPT ![d] = NoMarker]
        BY DEF Confirm, Conflict, Cleared, Reconcile, ReconcileWithServer, Crash
    <2> QED
        BY <1>1, <2>1, IdleFacts DEF TypeInv, MarkerOK, MaybeRefs
<1>5. RecoveryOK'
    BY DEF Confirm, Conflict, Reconcile, ReconcileWithServer, Crash, TypeInv, RecoveryOK
<1> QED
    BY <1>1, <1>2, <1>3, <1>4, <1>5 DEF TypeInv, BuiltOK, LogOK, ClaimOK, NetOK, DigestsOK,
        Refs, MaybeRefs, Commit, Epoch

LEMMA RecoveryType ==
    ASSUME TypeInv, NEW d \in Devices,
           Recover(d) \/ ReceiveWelcome(d) \/ ReceiveCommit(d)
    PROVE  TypeInv'
<1> USE DEF server
<1>1. UNCHANGED <<built, log, claim, net, welcomes, call, result>>
    BY DEF Recover, RecoverPendingGenesises, ResolveMarker, RecoverFromServer, ReceiveWelcome,
        ReceiveCommit
<1>2. StateOK' /\ DigestsOK'
    <2>1. CASE RecoverPendingGenesises(d) \/ ReceiveWelcome(d)
        BY <1>1, <2>1, FetchType DEF RecoverPendingGenesises, ReceiveWelcome
    <2>2. CASE ResolveMarker(d)
        <3>1. marker[d].prev \in MaybeRefs
            BY DEF TypeInv, MarkerOK
        <3> QED
            BY <1>1, <2>2, <3>1 DEF ResolveMarker, TypeInv, StateOK, DigestsOK, MaybeRefs, Refs
    <2>3. CASE RecoverFromServer(d)
        BY <1>1, <2>3, AskType DEF RecoverFromServer, TypeInv, DigestsOK, Refs
    <2>4. CASE ReceiveCommit(d)
        <3>1. Stored \subseteq MaybeRefs
            BY DEF Stored, TypeInv, LogOK, BuiltOK, Refs, MaybeRefs
        <3> QED
            BY <1>1, <2>4, <3>1 DEF ReceiveCommit, TypeInv, StateOK, DigestsOK, MaybeRefs, Refs
    <2> QED
        BY <2>1, <2>2, <2>3, <2>4 DEF Recover
<1>3. MarkerOK'
    <2>1. marker' = marker \/ marker' = [marker EXCEPT ![d] = NoMarker]
        BY DEF Recover, RecoverPendingGenesises, ResolveMarker, RecoverFromServer,
            ReceiveWelcome, ReceiveCommit
    <2> QED
        BY <1>1, <2>1, IdleFacts DEF TypeInv, MarkerOK, MaybeRefs
<1>4. RecoveryOK'
    BY DEF Recover, RecoverPendingGenesises, ResolveMarker, RecoverFromServer,
        ReceiveWelcome, ReceiveCommit, TypeInv, RecoveryOK
<1> QED
    BY <1>1, <1>2, <1>3, <1>4 DEF TypeInv, BuiltOK, LogOK, ClaimOK, NetOK, CallOK, ResultOK,
        CallRec, At, Refs, MaybeRefs, Commit, Epoch

LEMMA TypeInit == Init => TypeInv
<1> SUFFICES ASSUME Init PROVE TypeInv
    OBVIOUS
<1>1. built = <<>> /\ Len(built) = 0 /\ log = <<>>
    BY DEF Init
<1>2. NoMarker \in [newEpoch : Nat \cup {-1}, prev : MaybeRefs] /\ NoState \in MaybeRefs
    BY <1>1 DEF NoMarker, MaybeRefs, NoState
<1>3. NoCall \in CallRec /\ NoCall.pc = "idle"
    BY <1>1 DEF NoCall, CallRec, Pcs, MaybeRefs, NoState
<1>4. BuiltOK /\ LogOK
    BY <1>1 DEF BuiltOK, LogOK
<1> QED
    BY <1>1, <1>2, <1>3, <1>4 DEF Init, TypeInv, ClaimOK, NetOK, StateOK, MarkerOK, DigestsOK,
        CallOK, At, RecoveryOK, ResultOK

LEMMA TypeStep == TypeInv /\ [Next]_vars => TypeInv'
<1> SUFFICES ASSUME TypeInv, [Next]_vars PROVE TypeInv'
    OBVIOUS
<1>1. CASE UNCHANGED vars
    BY <1>1 DEF vars, TypeInv, BuiltOK, LogOK, ClaimOK, NetOK, StateOK, MarkerOK, DigestsOK,
        CallOK, CallRec, At, RecoveryOK, ResultOK, Refs, MaybeRefs, Commit, Epoch
<1>2. CASE Next
    BY <1>2, EnsureType, CreateType, LoadType, WriteType, ReceiveType, NetworkType,
        AnsweredType, RecoveryType DEF Next, Ensure
<1> QED
    BY <1>1, <1>2

(* Nothing refers to a state, a commit or a device that is not there.      *)
THEOREM TypeCorrect == Spec => []TypeOK
<1>1. Spec => []TypeInv
    BY TypeInit, TypeStep, PTL DEF Spec
<1> QED
    BY <1>1, TypeInvIsTypeOK, PTL

-----------------------------------------------------------------------------
(* One founder.  A device bids for the conversation from the answer that   *)
(* gave it the claim until its group is stored, and for good once it has   *)
(* built a solo state.  While the server gives the claim to nobody else,   *)
(* one device bids; and until the log begins, a bidder has the claim, so   *)
(* that no other one is told to initiate.                                  *)

Creates(d) == call[d].pc \in {"precheck", "create", "write"}
Founded(d) == \E s \in Refs : Epoch(s) = 0 /\ built[s].by = d
Bids(d) == d \in claim \/ Creates(d) \/ Founded(d)

OneBidder == \A d, e \in Devices : Bids(d) /\ Bids(e) => d = e
BiddersClaim == log = <<>> => \A d \in Devices : Bids(d) => d \in claim

FounderInv == OneBidder /\ BiddersClaim

LEMMA FounderInit == Init => FounderInv
<1> SUFFICES ASSUME Init PROVE FounderInv
    OBVIOUS
<1>1. Refs = {} /\ claim = {}
    BY DEF Init, Refs
<1>2. \A d \in Devices : ~Creates(d)
    BY DEF Init, Creates, NoCall
<1> QED
    BY <1>1, <1>2 DEF FounderInv, OneBidder, BiddersClaim, Bids, Founded

(* No device begins to bid, and none loses the claim before the log begins.*)
LEMMA NobodyBids ==
    ASSUME FounderInv,
           \A d \in Devices : Bids(d)' => Bids(d),
           log' = <<>> => log = <<>> /\ claim' = claim
    PROVE  FounderInv'
BY DEF FounderInv, OneBidder, BiddersClaim

LEMMA StepKeepsFounder ==
    ASSUME TypeInv, FounderInv, UNCHANGED built, claim' \subseteq claim,
           \A d \in Devices : Creates(d)' => Creates(d),
           log' = <<>> => log = <<>> /\ claim' = claim
    PROVE  FounderInv'
<1>1. \A d \in Devices : Bids(d)' => Bids(d)
    BY DEF Bids, Founded, Refs, Epoch
<1> QED
    BY <1>1, NobodyBids

LEMMA CallMoves ==
    ASSUME TypeInv, NEW d \in Devices, NEW c, call' = [call EXCEPT ![d] = c],
           c.pc \in {"precheck", "create", "write"} => Creates(d)
    PROVE  \A e \in Devices : Creates(e)' => Creates(e)
<1>1. \A e \in Devices : call'[e] = IF e = d THEN c ELSE call[e]
    BY DEF TypeInv, CallOK
<1> QED
    BY <1>1 DEF Creates

(* The server gives the claim to a device only while no other one bids. *)
LEMMA AskKeepsFounder ==
    ASSUME TypeInv, FounderInv, ~Takeover, NEW d \in Devices, AskRole(d)
    PROVE  FounderInv'
<1>1. UNCHANGED <<built, log>> /\ call \in [Devices -> CallRec]
    BY DEF AskRole, TypeInv, CallOK
<1>2. CASE Initiates(d) /\ claim' = {d} /\ Goto(d, "precheck")
    <2>1. log = <<>> /\ claim \subseteq {d}
        BY <1>2 DEF Initiates
    <2>2. \A e \in Devices : Bids(e) => e = d
        BY <2>1 DEF FounderInv, BiddersClaim
    <2>3. \A e \in Devices : Bids(e)' => e = d
        <3>1. \A e \in Devices : Founded(e)' => Founded(e)
            BY <1>1 DEF Founded, Refs, Epoch
        <3>2. \A e \in Devices : e # d => (Creates(e)' => Creates(e))
            BY <1>1, <1>2 DEF Goto, Creates
        <3> QED
            BY <1>2, <2>2, <3>1, <3>2 DEF Bids
    <2> QED
        BY <1>2, <2>3 DEF FounderInv, OneBidder, BiddersClaim
<1>3. CASE UNCHANGED claim /\ Goto(d, "poll")
    BY <1>1, <1>3, StepKeepsFounder DEF Goto, Creates, CallRec
<1> QED
    BY <1>2, <1>3 DEF AskRole

(* A solo state is built by a device that bids already. *)
LEMMA CreateKeepsFounder ==
    ASSUME TypeInv, FounderInv, NEW d \in Devices, CreateSolo(d)
    PROVE  FounderInv'
<1> USE DEF server
<1>1. call \in [Devices -> CallRec] /\ UNCHANGED <<log, claim>> /\ Goto(d, "phase2")
    BY DEF CreateSolo, TypeInv, CallOK
<1>2. \A e \in Devices : Creates(e)' => Creates(e)
    BY <1>1 DEF Goto, Creates, CallRec
<1>3. CASE state[d] # NoState
    BY <1>1, <1>2, <1>3, StepKeepsFounder DEF CreateSolo
<1>4. CASE state[d] = NoState
    <2> DEFINE r == [by |-> d, epoch |-> 0, parent |-> NoState, members |-> {d}]
    <2>1. r \in StateRec /\ built' = Append(built, r) /\ Len(built) < MaxStates
        BY <1>4 DEF CreateSolo, StateRec, NoState
    <2>2. r.by = d
        OBVIOUS
    <2> HIDE DEF r
    <2>3. /\ Len(built') = Len(built) + 1 /\ \A s \in Refs : built'[s] = built[s]
          /\ built'[Len(built) + 1] = r
        BY <2>1, BuiltGrows
    <2>4. \A e \in Devices : Founded(e)' => Founded(e) \/ e = d
        BY <2>2, <2>3 DEF Founded, Refs, Epoch, TypeInv, BuiltOK
    <2>5. Bids(d)
        BY DEF CreateSolo, At, Bids, Creates
    <2>6. \A e \in Devices : Bids(e)' => Bids(e)
        BY <1>1, <1>2, <2>4, <2>5 DEF Bids
    <2> QED
        BY <1>1, <2>6, NobodyBids
<1> QED
    BY <1>3, <1>4

(* What phase 2 builds is no solo state. *)
LEMMA WriteKeepsFounder ==
    ASSUME TypeInv, FounderInv, NEW d \in Devices, AddParticipants(d)
    PROVE  FounderInv'
<1>0. PICK targets \in Invites[d] : WriteGenesis(d, targets)
    BY DEF AddParticipants
<1>1. /\ UNCHANGED <<log, claim>> /\ call \in [Devices -> CallRec]
      /\ At(d, "consume") /\ call[d].solo # NoState
    BY <1>0 DEF WriteGenesis, TypeInv, CallOK
<1>2. \A e \in Devices : Creates(e)' => Creates(e)
    <2> DEFINE c == [call[d] EXCEPT !.pc = "posting", !.mine = Len(built) + 1]
    <2>1. /\ call[d] \in CallRec
          /\ \/ call' = [call EXCEPT ![d] = NoCall]
             \/ call' = [call EXCEPT ![d].pc = "posting", ![d].mine = Len(built) + 1]
        BY <1>0, <1>1 DEF WriteGenesis, Return
    <2>2. call' = [call EXCEPT ![d] = NoCall] \/ call' = [call EXCEPT ![d] = c]
        BY <2>1
    <2>3. NoCall.pc = "idle" /\ c.pc = "posting"
        BY <2>1, IdleFacts DEF CallRec
    <2> HIDE DEF c
    <2> QED
        BY <2>2, <2>3, CallMoves
<1>3. CASE UNCHANGED built
    BY <1>1, <1>2, <1>3, StepKeepsFounder
<1>4. CASE built' # built
    <2> DEFINE solo == call[d].solo
               r == [by |-> d, epoch |-> Epoch(solo) + 1, parent |-> solo,
                     members |-> Members(solo) \cup targets]
    <2>1. built' = Append(built, r)
        BY <1>0, <1>4 DEF WriteGenesis
    <2>2. Epoch(solo) + 1 # 0
        <3>1. solo \in Refs
            BY <1>1 DEF TypeInv, CallOK, CallRec, Refs, MaybeRefs, NoState
        <3> QED
            BY <3>1, BuiltFacts
    <2>3. r.epoch # 0
        BY <2>2
    <2> HIDE DEF r
    <2>4. \A e \in Devices : Founded(e)' => Founded(e)
        BY <2>1, <2>3 DEF Founded, Refs, Epoch, TypeInv, BuiltOK
    <2>5. \A e \in Devices : Bids(e)' => Bids(e)
        BY <1>1, <1>2, <2>4 DEF Bids
    <2> QED
        BY <1>1, <2>5, NobodyBids
<1> QED
    BY <1>3, <1>4

(* The claim is released by the commit that begins the log. *)
LEMMA ReceiveKeepsFounder ==
    ASSUME TypeInv, FounderInv, NEW c \in net, Receive(c)
    PROVE  FounderInv'
<1>1. UNCHANGED built /\ claim' \subseteq claim
    BY DEF Receive, ServerStore, ServerKeepsWinner, ServerRejects
<1>2. \A d \in Devices : call'[d].pc = call[d].pc
    <2>1. \E r : Answer(c, r)
        BY DEF Receive, ServerStore, ServerKeepsWinner, ServerRejects
    <2> QED
        BY <2>1 DEF Answer, TypeInv, CallOK, CallRec
<1>3. log' = <<>> => log = <<>> /\ claim' = claim
    BY DEF Receive, ServerStore, ServerKeepsWinner, ServerRejects, TypeInv, LogOK
<1> QED
    BY <1>1, <1>2, <1>3, StepKeepsFounder DEF Creates

LEMMA OthersKeepFounder ==
    ASSUME TypeInv, FounderInv, NEW d \in Devices,
           \/ Begin(d) \/ AfterRecovery(d) \/ HealFromWelcome(d) \/ CatchUpConfirmed(d)
           \/ Poll(d) \/ NextRound(d) \/ Throw(d) \/ Precheck(d) \/ LookAgain(d) \/ LoadSolo(d)
           \/ Confirm(d) \/ Conflict(d) \/ Reconcile(d) \/ ReconcileWithServer(d)
           \/ RetryPost(d) \/ Recover(d) \/ ReceiveWelcome(d) \/ ReceiveCommit(d) \/ Crash(d)
    PROVE  FounderInv'
<1> USE DEF server
<1>1. UNCHANGED <<built, log, claim>>
    BY DEF Begin, AfterRecovery, HealFromWelcome, CatchUpConfirmed, Poll, NextRound, Throw,
        Precheck, LookAgain, LoadSolo, Confirm, Conflict, Reconcile, ReconcileWithServer,
        RetryPost, Recover, RecoverPendingGenesises, ResolveMarker, RecoverFromServer,
        ReceiveWelcome, ReceiveCommit, Crash
<1>2. call \in [Devices -> CallRec]
    BY DEF TypeInv, CallOK
<1>3. \A e \in Devices : Creates(e)' => Creates(e)
    <2>1. \/ call' = call
          \/ call' = [call EXCEPT ![d] = NoCall]
          \/ \E pc \in Pcs \ {"precheck", "create", "write"} : Goto(d, pc)
          \/ Creates(d) /\ \E pc \in {"create", "write"} : Goto(d, pc)
          \/ NextRound(d) \/ LoadSolo(d) \/ RetryPost(d)
        BY DEF Begin, AfterRecovery, HealFromWelcome, CatchUpConfirmed, Poll, Throw,
            Precheck, LookAgain, Confirm, Conflict, Reconcile, ReconcileWithServer,
            Recover, RecoverPendingGenesises, ResolveMarker, RecoverFromServer,
            ReceiveWelcome, ReceiveCommit, Crash, FetchWelcome, Return, At, Creates, Pcs
    <2>2. CASE NextRound(d) \/ LoadSolo(d) \/ RetryPost(d)
        <3> DEFINE next == [call[d] EXCEPT !.pc = "role", !.round = call[d].round + 1]
                   load == [call[d] EXCEPT !.pc = "consume", !.solo = state[d]]
                   again == [call[d] EXCEPT !.reply = 0, !.retried = TRUE]
        <3>1. /\ call[d] \in CallRec
              /\ \/ call' = [call EXCEPT ![d] = NoCall]
                 \/ call' = [call EXCEPT ![d].pc = "role", ![d].round = call[d].round + 1]
                 \/ call' = [call EXCEPT ![d].pc = "consume", ![d].solo = state[d]]
                 \/ At(d, "posting") /\ call' = [call EXCEPT ![d].reply = 0, ![d].retried = TRUE]
            BY <1>2, <2>2 DEF NextRound, LoadSolo, RetryPost, Return
        <3>2. \/ call' = [call EXCEPT ![d] = NoCall]
              \/ call' = [call EXCEPT ![d] = next]
              \/ call' = [call EXCEPT ![d] = load]
              \/ At(d, "posting") /\ call' = [call EXCEPT ![d] = again]
            BY <3>1
        <3>3. /\ NoCall.pc = "idle" /\ next.pc = "role" /\ load.pc = "consume"
              /\ again.pc = call[d].pc
            BY <3>1, IdleFacts DEF CallRec
        <3> HIDE DEF next, load, again
        <3> QED
            BY <3>2, <3>3, CallMoves DEF At
    <2>3. CASE \/ call' = call
               \/ call' = [call EXCEPT ![d] = NoCall]
               \/ \E pc \in Pcs \ {"precheck", "create", "write"} : Goto(d, pc)
               \/ Creates(d) /\ \E pc \in {"create", "write"} : Goto(d, pc)
        <3>1. \A pc \in Pcs : /\ Goto(d, pc) => call' = [call EXCEPT ![d] = [call[d] EXCEPT !.pc = pc]]
                              /\ [call[d] EXCEPT !.pc = pc].pc = pc
            BY <1>2 DEF Goto, CallRec
        <3>2. CASE call' = call
            BY <3>2 DEF Creates
        <3>3. CASE call' = [call EXCEPT ![d] = NoCall]
            BY <3>3, IdleFacts, CallMoves
        <3>4. ASSUME NEW pc \in Pcs, Goto(d, pc),
                     pc \in {"precheck", "create", "write"} => Creates(d)
              PROVE  \A e \in Devices : Creates(e)' => Creates(e)
            <4> DEFINE c == [call[d] EXCEPT !.pc = pc]
            <4>1. call' = [call EXCEPT ![d] = c] /\ c.pc = pc
                BY <3>1, <3>4
            <4> HIDE DEF c
            <4> QED
                BY <3>4, <4>1, CallMoves
        <3> QED
            BY <2>3, <3>2, <3>3, <3>4 DEF Pcs
    <2> QED
        BY <2>1, <2>2, <2>3
<1> QED
    BY <1>1, <1>3, StepKeepsFounder

LEMMA FounderStep ==
    ASSUME ~Takeover
    PROVE  TypeInv /\ FounderInv /\ [Next]_vars => FounderInv'
<1> SUFFICES ASSUME TypeInv, FounderInv, [Next]_vars PROVE FounderInv'
    OBVIOUS
<1>1. CASE UNCHANGED vars
    BY <1>1, StepKeepsFounder DEF vars, Creates
<1>2. CASE \E c \in net : LoseRequest(c)
    BY <1>2, StepKeepsFounder DEF LoseRequest, Creates
<1>3. CASE Next /\ ~\E c \in net : LoseRequest(c)
    BY <1>3, AskKeepsFounder, CreateKeepsFounder, WriteKeepsFounder, ReceiveKeepsFounder,
        OthersKeepFounder DEF Next, Ensure
<1> QED
    BY <1>1, <1>2, <1>3

(* Two solo states are of one device, for any number of devices and of     *)
(* calls, through crashes, lost requests and forced 409s, whatever the     *)
(* catch-up of a rollback misses: as long as the claim is not given away   *)
(* (ensureGroupReady's role request and createGroup).                      *)
THEOREM OneDeviceFounds == ~Takeover => (Spec => []OneFounder)
<1> SUFFICES ASSUME ~Takeover PROVE Spec => []OneFounder
    OBVIOUS
<1>1. TypeInv /\ FounderInv /\ [Next]_vars => FounderInv'
    BY FounderStep
<1>2. TypeInv /\ FounderInv => OneFounder
    <2> SUFFICES ASSUME TypeInv, FounderInv PROVE OneFounder
        OBVIOUS
    <2>1. \A s \in Refs : built[s].by \in Devices
        BY BuiltFacts
    <2> QED
        BY <2>1 DEF FounderInv, OneBidder, Bids, Founded, OneFounder, Refs, Epoch
<1> QED
    BY <1>1, <1>2, FounderInit, TypeInit, TypeStep, PTL DEF Spec

-----------------------------------------------------------------------------
(* What a call reports.  While the claim is not given away, a catch-up     *)
(* sees the commit, and no call begins during a recovery's catch-up, one   *)
(* commit at most is on its way to the server or stored there, and each    *)
(* device's state is in step with it:                                      *)
(*   a device without a state, or with a solo one, has posted nothing, but *)
(*     for a rollback whose catch-up is still to come;                     *)
(*   a group is stored, or marked on its device.                           *)
(* A row of a device is its state s, marker m, call k, recovery r and      *)
(* result z.                                                               *)

Sent == Stored \cup net
By(s) == built[s].by
IsSolo(s) == s # NoState /\ Epoch(s) = 0

(* A solo state holds its device; a commit adds another one to it.         *)
Shape ==
    \A s \in Refs :
        \/ Epoch(s) = 0 /\ Members(s) = {By(s)}
        \/ /\ Epoch(s) = 1
           /\ built[s].parent \in Refs
           /\ Epoch(built[s].parent) = 0 /\ By(built[s].parent) = By(s)
           /\ By(s) \in Members(s) /\ \E m \in Members(s) : m # By(s)

OneSent == /\ Len(log) <= 1
           /\ \A b \in Sent : Epoch(b) = 1
           /\ \A b, c \in Sent : b = c

Invitations == \A w \in welcomes : w.state \in Stored /\ By(w.state) # w.to

(* A rollback whose catch-up is still to come. *)
OnTheWay(k, r) == r = "catchup" \/ k.pc = "rolledback"

Joined(d, s) == s # NoState /\ By(s) # d => s \in Stored

Own(d, s, m, k, r) ==
    Founded(d) =>
        /\ s = NoState => Sent = {}
        /\ IsSolo(s) => /\ OnTheWay(k, r) => \A c \in Sent : built[c].parent = s
                        /\ ~OnTheWay(k, r) => Sent = {}
        /\ s # NoState /\ Epoch(s) = 1 => /\ Sent \subseteq {s}
                                          /\ m = NoMarker => s \in Stored

Marked(d, s, m, k, r) ==
    m # NoMarker =>
        /\ Founded(d) /\ s # NoState /\ Epoch(s) = 1
        /\ m.newEpoch = 1 /\ m.prev = built[s].parent
        /\ r # "catchup" /\ k.pc \in {"idle", "recover", "posting"}

Calling(d, s, m, k, r) ==
    /\ k.pc \in {"role", "poll", "round"} => s = NoState \/ By(s) # d
    /\ k.pc \in {"precheck", "create", "write"} => s = NoState
    /\ k.pc \in {"confirmed", "behind"} => s \in Stored
    /\ k.pc = "recover" => m = NoMarker \/ r = "resolve"
    /\ k.pc = "phase2" => Founded(d) /\ IsSolo(s)
    /\ k.pc = "consume" => Founded(d) /\ IsSolo(s) /\ s = k.solo
    /\ k.pc = "rolledback" => Founded(d) /\ s # NoState
    /\ r = "catchup" => Founded(d) /\ k.pc \in {"idle", "recover", "posting", "rolledback"}

Posting(d, s, k, r) ==
    k.pc = "posting" =>
        /\ Founded(d) /\ By(k.mine) = d /\ Epoch(k.mine) = 1
        /\ built[k.mine].parent = k.solo /\ Sent \subseteq {k.mine}
        /\ s = k.mine \/ (s = k.solo /\ r = "catchup")
        /\ k.reply > 0 => k.mine \in Stored
        /\ k.reply = -1 => Sent = {}

Reported(s, k, r, z) ==
    z = "ready" => \/ s \in Stored
                   \/ Stored # {} /\ IsSolo(s) /\ OnTheWay(k, r)

Row(d, s, m, k, r, z) ==
    /\ Joined(d, s) /\ Own(d, s, m, k, r) /\ Marked(d, s, m, k, r)
    /\ Calling(d, s, m, k, r) /\ Posting(d, s, k, r) /\ Reported(s, k, r, z)
RowOf(d) == Row(d, state[d], marker[d], call[d], recovery[d], result[d])

ReadyInv == Shape /\ OneSent /\ Invitations /\ \A d \in Devices : RowOf(d)

LEMMA SentFacts ==
    ASSUME TypeInv, OneSent
    PROVE  /\ Sent \subseteq Refs /\ Stored \subseteq Sent /\ net \subseteq Sent
           /\ \A c \in Sent : c \in Refs /\ c # NoState /\ Epoch(c) = 1
BY DEF OneSent, Sent, Stored, TypeInv, LogOK, NetOK, Commit, Refs, NoState

(* A solo state has epoch 0 and a group epoch 1. *)
LEMMA ShapeFacts ==
    ASSUME TypeInv, Shape, NEW s \in Refs
    PROVE  /\ s # NoState /\ Epoch(s) \in {0, 1}
           /\ Solo(s) <=> Epoch(s) = 0
           /\ Group(s) <=> Epoch(s) = 1
           /\ By(s) \in Devices /\ Founded(By(s))
<1>1. s # NoState /\ Epoch(s) \in {0, 1} /\ By(s) \in Devices /\ Members(s) \subseteq Devices
    BY BuiltFacts DEF Shape, Refs, NoState, By
<1>2. IsFiniteSet(Members(s)) /\ Cardinality(Members(s)) \in Nat
    BY <1>1, InvitesAssumption, FS_Subset, FS_CardinalityType
<1>3. CASE Epoch(s) = 0
    <2>1. Members(s) = {By(s)}
        BY <1>3 DEF Shape
    <2>2. Cardinality(Members(s)) = 1
        BY <2>1, FS_Singleton
    <2> QED
        BY <1>1, <1>3, <2>2 DEF Solo, Group, Founded, By
<1>4. CASE Epoch(s) = 1
    <2>1. PICK m \in Members(s) : m # By(s) /\ By(s) \in Members(s)
        BY <1>4 DEF Shape
    <2>2. ~(Cardinality(Members(s)) <= 1)
        <3> SUFFICES ASSUME Cardinality(Members(s)) <= 1 PROVE FALSE
            OBVIOUS
        <3>1. Cardinality(Members(s)) = 0 \/ Cardinality(Members(s)) = 1
            BY <1>2
        <3>2. Members(s) = {} \/ \E x : Members(s) = {x}
            BY <1>2, <3>1, FS_EmptySet, FS_Singleton
        <3> QED
            BY <2>1, <3>2
    <2> QED
        BY <1>1, <1>4, <2>2 DEF Solo, Group, Shape, Founded, By
<1> QED
    BY <1>1, <1>3, <1>4

(* Whoever bids built every state there is. *)
LEMMA OneOwner ==
    ASSUME TypeInv, FounderInv, Shape, NEW d \in Devices, Bids(d) \/ Founded(d)
    PROVE  \A s \in Refs : By(s) = d
<1> SUFFICES ASSUME NEW s \in Refs PROVE By(s) = d
    OBVIOUS
<1>1. By(s) \in Devices /\ Bids(By(s)) /\ Bids(d)
    BY ShapeFacts DEF Bids
<1> QED
    BY <1>1 DEF FounderInv, OneBidder

(* What a catch-up leads to. *)
LEMMA AppliedFacts ==
    ASSUME TypeInv, Shape, OneSent, NEW s \in Refs
    PROVE  /\ Epoch(s) = 1 => Applied(s) = s
           /\ Stored = {} => Applied(s) = s
           /\ \A c \in Stored : built[c].parent = s => Applied(s) = c
<1> DEFINE Reached == {i \in 1 .. Len(log) :
               \E f \in 1 .. i : /\ built[log[f]].parent = s
                                 /\ \A k \in f + 1 .. i : built[log[k]].parent = log[k - 1]}
<1>0. Len(log) \in Nat /\ \A i \in 1 .. Len(log) : i = 1 /\ log[i] \in Stored
    BY DEF TypeInv, LogOK, OneSent, Stored
<1>1. Reached = {} => Applied(s) = s
    BY DEF Applied
<1>2. Reached # {} => Applied(s) = log[Max(Reached)] /\ Max(Reached) \in Reached
    <2>1. Reached \subseteq 1 .. Len(log)
        OBVIOUS
    <2>2. Reached # {} => Applied(s) = log[Max(Reached)]
        BY DEF Applied
    <2> HIDE DEF Reached
    <2> QED
        BY <1>0, <2>1, <2>2, MaxInSet
<1>3. \A i \in Reached : i = 1 /\ log[1] \in Stored /\ built[log[1]].parent = s
    BY <1>0
<1>4. CASE Epoch(s) = 1
    <2>1. Reached = {}
        <3> SUFFICES ASSUME Reached # {} PROVE FALSE
            OBVIOUS
        <3>1. PICK c \in Stored : built[c].parent = s
            BY <1>3
        <3>2. c \in Refs /\ Epoch(c) = 1
            BY SentFacts
        <3> QED
            BY <1>4, <3>1, <3>2 DEF Shape
    <2>2. \A c \in Stored : built[c].parent # s
        <3> SUFFICES ASSUME NEW c \in Stored, built[c].parent = s PROVE FALSE
            OBVIOUS
        <3>2. c \in Refs /\ Epoch(c) = 1
            BY SentFacts
        <3> QED
            BY <1>4, <3>2 DEF Shape
    <2>3. Applied(s) = s
        BY <1>1, <2>1
    <2> QED
        BY <2>2, <2>3
<1>5. Stored = {} => Reached = {}
    BY <1>3
<1>6. ASSUME NEW c \in Stored, built[c].parent = s
      PROVE  Applied(s) = c
    <2>1. log[1] = c /\ 1 \in 1 .. Len(log)
        <3>1. PICK i \in 1 .. Len(log) : log[i] = c
            BY DEF Stored
        <3>2. i = 1
            BY <1>0
        <3> QED
            BY <3>1, <3>2
    <2>2. 1 \in Reached
        BY <1>6, <2>1
    <2>3. Max(Reached) = 1
        BY <1>2, <1>3, <2>2
    <2> QED
        BY <1>2, <2>1, <2>2, <2>3
<1>7. Epoch(s) = 0 \/ Epoch(s) = 1
    BY ShapeFacts
<1>8. Stored = {} => Applied(s) = s
    BY <1>1, <1>5
<1> QED
    BY <1>4, <1>6, <1>8

(* A row stays good while the commits sent dwindle and those stored grow. *)
LEMMA ServerMoves ==
    ASSUME UNCHANGED built, Stored \subseteq Stored', Sent' \subseteq Sent,
           NEW d, NEW s, NEW m, NEW k, NEW r, NEW z, Row(d, s, m, k, r, z)
    PROVE  Row(d, s, m, k, r, z)'
<1>1. Founded(d)' = Founded(d) /\ (\A x : By(x)' = By(x) /\ Epoch(x)' = Epoch(x) /\ IsSolo(x)' = IsSolo(x))
    BY DEF Founded, By, Epoch, Refs, IsSolo
<1>2. Joined(d, s)' /\ Marked(d, s, m, k, r)' /\ Reported(s, k, r, z)'
    BY <1>1 DEF Row, Joined, Marked, Reported, OnTheWay
<1>3. Own(d, s, m, k, r)'
    BY <1>1 DEF Row, Own, OnTheWay
<1>4. Calling(d, s, m, k, r)' /\ Posting(d, s, k, r)'
    BY <1>1 DEF Row, Calling, Posting
<1> QED
    BY <1>2, <1>3, <1>4 DEF Row

(* The row of a device that has founded nothing does not depend on what    *)
(* another one builds and posts.                                           *)
LEMMA OthersRow ==
    ASSUME TypeInv, NEW d \in Devices, RowOf(d), ~Founded(d), ~Founded(d)',
           UNCHANGED <<Stored, state[d], marker[d], call[d], recovery[d], result[d]>>,
           \A s \in Refs : built'[s] = built[s]
    PROVE  RowOf(d)'
<1>1. state[d] # NoState => state[d] \in Refs
    BY DEF TypeInv, StateOK, MaybeRefs, Refs, NoState
<1>2. state[d] # NoState => By(state[d])' = By(state[d])
    BY <1>1 DEF By
<1>3. Joined(d, state[d])' /\ Own(d, state[d], marker[d], call[d], recovery[d])'
    BY <1>2 DEF RowOf, Row, Joined, Own
<1>4. /\ Marked(d, state[d], marker[d], call[d], recovery[d])'
      /\ Posting(d, state[d], call[d], recovery[d])'
    BY DEF RowOf, Row, Marked, Posting
<1>5. Calling(d, state[d], marker[d], call[d], recovery[d])'
    BY <1>2 DEF RowOf, Row, Calling
<1>6. Reported(state[d], call[d], recovery[d], result[d])'
    <2>1. OnTheWay(call[d], recovery[d]) => Founded(d)
        BY DEF RowOf, Row, Calling, OnTheWay
    <2> QED
        BY <2>1 DEF RowOf, Row, Reported, OnTheWay
<1> QED
    BY <1>3, <1>4, <1>5, <1>6 DEF RowOf, Row

(* A step of one device, without the server. *)
LEMMA LocalStep ==
    ASSUME TypeInv, ReadyInv, UNCHANGED <<built, log, net, welcomes>>,
           NEW d \in Devices,
           \A e \in Devices \ {d} :
               UNCHANGED <<state[e], marker[e], call[e], recovery[e], result[e]>>,
           Row(d, state'[d], marker'[d], call'[d], recovery'[d], result'[d])
    PROVE  ReadyInv'
<1>1. Stored' = Stored /\ Sent' = Sent
    BY DEF Stored, Sent
<1>2. Shape' /\ OneSent' /\ Invitations'
    BY <1>1 DEF ReadyInv, Shape, OneSent, Invitations, Refs, Epoch, Members, By
<1>3. ASSUME NEW e \in Devices PROVE RowOf(e)'
    <2>1. PICK s, m, k, r, z : /\ s = state'[e] /\ m = marker'[e] /\ k = call'[e]
                               /\ r = recovery'[e] /\ z = result'[e]
        OBVIOUS
    <2>2. Row(e, s, m, k, r, z)
        BY <2>1 DEF ReadyInv, RowOf
    <2>3. Row(e, s, m, k, r, z)'
        BY <1>1, <2>2, ServerMoves
    <2> QED
        BY <2>1, <2>3 DEF RowOf
<1> QED
    BY <1>2, <1>3 DEF ReadyInv

(* A call moves on, or ends, and the device keeps its state and marker.    *)
LEMMA CallStep ==
    ASSUME NEW d, NEW s, NEW m, NEW k, NEW r, NEW z, Row(d, s, m, k, r, z), k.pc # "rolledback",
           NEW k2, NEW r2, NEW z2, k2.pc \notin {"posting", "rolledback"},
           r2 = "catchup" <=> r = "catchup", Calling(d, s, m, k2, r2),
           m = NoMarker \/ k2.pc \in {"idle", "recover"},
           z2 = "ready" => z = "ready" \/ s \in Stored
    PROVE  Row(d, s, m, k2, r2, z2)
<1>1. OnTheWay(k2, r2) <=> OnTheWay(k, r)
    BY DEF OnTheWay
<1>2. Joined(d, s) /\ Own(d, s, m, k2, r2)
    BY <1>1 DEF Row, Own
<1>3. Marked(d, s, m, k2, r2)
    BY DEF Row, Marked
<1>4. Posting(d, s, k2, r2) /\ Reported(s, k2, r2, z2)
    BY <1>1 DEF Row, Posting, Reported
<1> QED
    BY <1>2, <1>3, <1>4 DEF Row

(* What a device holds is its own solo state, or a group that is stored or *)
(* marked.                                                                 *)
LEMMA HeldFacts ==
    ASSUME TypeInv, ReadyInv, NEW d \in Devices, state[d] # NoState
    PROVE  /\ state[d] \in Refs
           /\ Group(state[d]) /\ marker[d] = NoMarker => state[d] \in Stored
           /\ ~Group(state[d]) => IsSolo(state[d]) /\ Founded(d)
           /\ By(state[d]) = d => Founded(d)
<1> DEFINE s == state[d]
<1>1. s \in Refs
    BY DEF TypeInv, StateOK, MaybeRefs, Refs, NoState
<1>2. /\ Solo(s) <=> Epoch(s) = 0
      /\ Group(s) <=> Epoch(s) = 1
      /\ Epoch(s) \in {0, 1} /\ (By(s) = d => Founded(d))
    BY <1>1, ShapeFacts DEF ReadyInv
<1>3. s \in Stored => Epoch(s) = 1
    BY SentFacts DEF ReadyInv
<1>4. By(s) # d => s \in Stored
    BY DEF ReadyInv, RowOf, Row, Joined
<1>5. By(s) = d /\ Epoch(s) = 1 /\ marker[d] = NoMarker => s \in Stored
    BY <1>2 DEF ReadyInv, RowOf, Row, Own
<1> QED
    BY <1>1, <1>2, <1>3, <1>4, <1>5 DEF IsSolo

(* A device that has founded nothing takes the group of a Welcome. *)
LEMMA WelcomeStep ==
    ASSUME TypeInv, FounderInv, ReadyInv, NEW d \in Devices, NEW w \in Fresh(d),
           NEW k2, NEW z2, k2.pc = "idle" \/ k2 = call[d]
    PROVE  Row(d, w.state, marker[d], k2, recovery[d], z2)
<1> DEFINE s == w.state
<1>1. s \in Stored /\ By(s) # d
    BY DEF Fresh, ReadyInv, Invitations
<1>2. s \in Refs /\ s # NoState /\ Epoch(s) = 1
    BY <1>1, SentFacts DEF ReadyInv
<1>3. ~Founded(d) /\ ~Bids(d)
    BY <1>1, <1>2, OneOwner DEF ReadyInv
<1>4. ~Creates(d)
    BY <1>3 DEF Bids
<1>5. RowOf(d)
    BY DEF ReadyInv
<1>6. Joined(d, s) /\ Own(d, s, marker[d], k2, recovery[d]) /\ Reported(s, k2, recovery[d], z2)
    BY <1>1, <1>3 DEF Joined, Own, Reported
<1>7. Marked(d, s, marker[d], k2, recovery[d]) /\ Posting(d, s, k2, recovery[d])
    BY <1>3, <1>5 DEF RowOf, Row, Marked, Posting
<1>8. Calling(d, s, marker[d], k2, recovery[d])
    BY <1>1, <1>2, <1>3, <1>4, <1>5 DEF RowOf, Row, Calling, Creates
<1> QED
    BY <1>6, <1>7, <1>8 DEF Row

(* A call moves on or returns. *)
LEMMA CallFacts ==
    ASSUME TypeInv, NEW d \in Devices
    PROVE  /\ NoCall.pc = "idle"
           /\ \A pc : Goto(d, pc) =>
                 /\ call'[d].pc = pc /\ call'[d].solo = call[d].solo
                 /\ call'[d].mine = call[d].mine /\ call'[d].reply = call[d].reply
                 /\ \A e \in Devices \ {d} : call'[e] = call[e]
                 /\ result' = result
           /\ \A z : call' = [call EXCEPT ![d] = NoCall] /\ result' = [result EXCEPT ![d] = z] =>
                 /\ call'[d] = NoCall /\ call'[d].pc = "idle" /\ result'[d] = z
                 /\ \A e \in Devices \ {d} : call'[e] = call[e] /\ result'[e] = result[e]
           /\ \A z : Return(d, z) =>
                 /\ call'[d] = NoCall /\ call'[d].pc = "idle" /\ result'[d] = z
                 /\ \A e \in Devices \ {d} : call'[e] = call[e] /\ result'[e] = result[e]
<1>1. /\ call \in [Devices -> CallRec] /\ call[d] \in CallRec
      /\ result \in [Devices -> {"none", "ready", "failed"}]
    BY DEF TypeInv, CallOK, ResultOK
<1>2. NoCall.pc = "idle"
    BY DEF NoCall
<1>3. ASSUME NEW pc, Goto(d, pc)
      PROVE  /\ call'[d].pc = pc /\ call'[d].solo = call[d].solo
             /\ call'[d].mine = call[d].mine /\ call'[d].reply = call[d].reply
             /\ \A e \in Devices \ {d} : call'[e] = call[e]
             /\ result' = result
    <2> DEFINE c == [call[d] EXCEPT !.pc = pc]
    <2>1. c.pc = pc /\ c.solo = call[d].solo /\ c.mine = call[d].mine /\ c.reply = call[d].reply
        BY <1>1 DEF CallRec
    <2>2. call' = [call EXCEPT ![d] = c] /\ result' = result
        BY <1>3 DEF Goto
    <2> HIDE DEF c
    <2> QED
        BY <1>1, <2>1, <2>2
<1>4. ASSUME NEW z, call' = [call EXCEPT ![d] = NoCall], result' = [result EXCEPT ![d] = z]
      PROVE  /\ call'[d] = NoCall /\ call'[d].pc = "idle" /\ result'[d] = z
             /\ \A e \in Devices \ {d} : call'[e] = call[e] /\ result'[e] = result[e]
    BY <1>1, <1>2, <1>4
<1> QED
    BY <1>2, <1>3, <1>4 DEF Return

(* A step that leaves a device's state and marker, and moves its call.     *)
LEMMA CallOnly ==
    ASSUME TypeInv, ReadyInv, UNCHANGED <<built, log, net, welcomes, state, marker>>,
           NEW d \in Devices, call[d].pc # "rolledback",
           call'[d].pc \notin {"posting", "rolledback"},
           recovery'[d] = "catchup" <=> recovery[d] = "catchup",
           \A e \in Devices \ {d} : UNCHANGED <<call[e], recovery[e], result[e]>>,
           Calling(d, state[d], marker[d], call'[d], recovery'[d]),
           marker[d] = NoMarker \/ call'[d].pc \in {"idle", "recover"},
           result'[d] = "ready" => result[d] = "ready" \/ state[d] \in Stored
    PROVE  ReadyInv'
<1>1. PICK s, m, k, r, z : /\ s = state[d] /\ m = marker[d] /\ k = call[d]
                           /\ r = recovery[d] /\ z = result[d]
    OBVIOUS
<1>2. PICK k2, r2, z2 : k2 = call'[d] /\ r2 = recovery'[d] /\ z2 = result'[d]
    OBVIOUS
<1>3. Row(d, s, m, k, r, z)
    BY <1>1 DEF ReadyInv, RowOf
<1>4. Row(d, s, m, k2, r2, z2)
    BY <1>1, <1>2, <1>3, CallStep
<1>5. Row(d, state'[d], marker'[d], call'[d], recovery'[d], result'[d])
    BY <1>1, <1>2, <1>4
<1> QED
    BY <1>5, LocalStep

LEMMA BeginReady ==
    ASSUME TypeInv, FounderInv, ReadyInv, ~CallsMayIntrude, NEW d \in Devices, Begin(d)
    PROVE  ReadyInv'
<1>1. /\ UNCHANGED <<built, log, net, welcomes, state, marker>>
      /\ call[d].pc = "idle" /\ recovery[d] # "catchup"
      /\ recovery \in [Devices -> {"idle", "resolve", "catchup"}]
    BY DEF Begin, server, At, TypeInv, RecoveryOK
<1>2. \A e \in Devices \ {d} : recovery'[e] = recovery[e]
    BY <1>1 DEF Begin
<1>3. state[d] # NoState \/ marker[d] = NoMarker
    BY DEF ReadyInv, RowOf, Row, Marked
<1>4. CASE state[d] = NoState
    <2>1. Goto(d, "role") /\ recovery' = recovery
        BY <1>4 DEF Begin
    <2>2. call'[d].pc = "role"
        BY <2>1, CallFacts
    <2>3. Calling(d, state[d], marker[d], call'[d], recovery'[d])
        BY <1>1, <1>4, <2>1, <2>2 DEF Calling
    <2> QED
        BY <1>1, <1>2, <1>3, <1>4, <2>1, <2>2, <2>3, CallFacts, CallOnly
<1>5. CASE state[d] # NoState /\ marker[d] # NoMarker
    <2>1. Goto(d, "recover") /\ recovery'[d] = "resolve"
        BY <1>1, <1>5 DEF Begin
    <2>2. call'[d].pc = "recover"
        BY <2>1, CallFacts
    <2>3. Calling(d, state[d], marker[d], call'[d], recovery'[d])
        BY <2>1, <2>2 DEF Calling
    <2> QED
        BY <1>1, <1>2, <2>1, <2>2, <2>3, CallFacts, CallOnly
<1>6. CASE state[d] # NoState /\ marker[d] = NoMarker
    <2>1. Goto(d, IF Group(state[d]) THEN "confirmed" ELSE "phase2") /\ recovery' = recovery
        BY <1>6 DEF Begin
    <2>2. call'[d].pc = IF Group(state[d]) THEN "confirmed" ELSE "phase2"
        BY <2>1, CallFacts
    <2>3. Calling(d, state[d], marker[d], call'[d], recovery'[d])
        BY <1>1, <1>6, <2>1, <2>2, HeldFacts DEF Calling
    <2> QED
        BY <1>1, <1>2, <1>6, <2>1, <2>2, <2>3, CallFacts, CallOnly
<1> QED
    BY <1>4, <1>5, <1>6

LEMMA AfterReady ==
    ASSUME TypeInv, FounderInv, ReadyInv, NEW d \in Devices, AfterRecovery(d)
    PROVE  ReadyInv'
<1>1. /\ UNCHANGED <<built, log, net, welcomes, state, marker, recovery>>
      /\ call[d].pc = "recover" /\ recovery[d] = "idle" /\ marker[d] = NoMarker
    BY DEF AfterRecovery, server, At, ReadyInv, RowOf, Row, Calling
<1>2. CASE state[d] = NoState
    <2>1. Return(d, "failed")
        BY <1>2 DEF AfterRecovery
    <2>2. call'[d].pc = "idle"
        BY <2>1, CallFacts
    <2>3. Calling(d, state[d], marker[d], call'[d], recovery'[d])
        BY <1>1, <2>2 DEF Calling
    <2> QED
        BY <1>1, <2>1, <2>2, <2>3, CallFacts, CallOnly
<1>3. CASE state[d] # NoState
    <2>1. Goto(d, IF Group(state[d]) THEN "confirmed" ELSE "phase2")
        BY <1>3 DEF AfterRecovery
    <2>2. call'[d].pc = IF Group(state[d]) THEN "confirmed" ELSE "phase2"
        BY <2>1, CallFacts
    <2>3. Calling(d, state[d], marker[d], call'[d], recovery'[d])
        BY <1>1, <1>3, <2>2, HeldFacts DEF Calling
    <2> QED
        BY <1>1, <2>1, <2>2, <2>3, CallFacts, CallOnly
<1> QED
    BY <1>2, <1>3

(* A Welcome fetched by a call, or pushed. *)
LEMMA JoinReady ==
    ASSUME TypeInv, FounderInv, ReadyInv, NEW d \in Devices,
           UNCHANGED <<built, log, net, welcomes, marker, recovery>>,
           NEW w \in Fresh(d), state' = [state EXCEPT ![d] = w.state],
           (\E z : Return(d, z)) \/ UNCHANGED <<call, result>>
    PROVE  ReadyInv'
<1>1. state'[d] = w.state /\ \A e \in Devices \ {d} : state'[e] = state[e]
    BY DEF TypeInv, StateOK
<1>2. /\ call'[d].pc = "idle" \/ call'[d] = call[d]
      /\ \A e \in Devices \ {d} : UNCHANGED <<call[e], result[e]>>
    BY CallFacts
<1>3. PICK k2, z2 : k2 = call'[d] /\ z2 = result'[d]
    OBVIOUS
<1>4. Row(d, w.state, marker[d], k2, recovery[d], z2)
    BY <1>2, <1>3, WelcomeStep
<1>5. Row(d, state'[d], marker'[d], call'[d], recovery'[d], result'[d])
    BY <1>1, <1>3, <1>4
<1> QED
    BY <1>1, <1>2, <1>5, LocalStep

LEMMA WelcomeReady ==
    ASSUME TypeInv, FounderInv, ReadyInv, NEW d \in Devices, ReceiveWelcome(d)
    PROVE  ReadyInv'
<1>1. PICK w \in Fresh(d) : Process(d, w)
    BY DEF ReceiveWelcome
<1>2. UNCHANGED <<built, log, net, welcomes, marker, call, recovery, result>>
    BY DEF ReceiveWelcome, server
<1>3. CASE state' = state
    <2>1. Row(d, state'[d], marker'[d], call'[d], recovery'[d], result'[d])
        BY <1>2, <1>3 DEF ReadyInv, RowOf
    <2> QED
        BY <1>2, <1>3, <2>1, LocalStep
<1>4. CASE state' = [state EXCEPT ![d] = w.state]
    BY <1>2, <1>4, JoinReady
<1> QED
    BY <1>1, <1>3, <1>4 DEF Process

(* The steps of a call that leave what the device has. *)
LEMMA CallEnds ==
    ASSUME TypeInv, ReadyInv, UNCHANGED <<built, log, net, welcomes, state, marker, recovery>>,
           NEW d \in Devices, call[d].pc \notin {"rolledback", "posting"},
           NEW z, Return(d, z), z = "ready" => state[d] \in Stored
    PROVE  ReadyInv'
<1>1. call'[d].pc = "idle"
    BY CallFacts
<1>2. Calling(d, state[d], marker[d], call'[d], recovery'[d])
    BY <1>1 DEF Calling, ReadyInv, RowOf, Row
<1> QED
    BY <1>1, <1>2, CallFacts, CallOnly

LEMMA CallGoes ==
    ASSUME TypeInv, ReadyInv, UNCHANGED <<built, log, net, welcomes, state, marker, recovery>>,
           NEW d \in Devices, call[d].pc \notin {"idle", "recover", "rolledback", "posting"},
           call'[d].pc \notin {"rolledback", "posting"},
           \A e \in Devices \ {d} : call'[e] = call[e], UNCHANGED result,
           recovery[d] # "catchup" => Calling(d, state[d], marker[d], call'[d], recovery[d])
    PROVE  ReadyInv'
<1>1. recovery[d] # "catchup" /\ marker[d] = NoMarker
    BY DEF ReadyInv, RowOf, Row, Calling, Marked
<1> QED
    BY <1>1, CallOnly

LEMMA HealReady ==
    ASSUME TypeInv, FounderInv, ReadyInv, NEW d \in Devices, HealFromWelcome(d)
    PROVE  ReadyInv'
<1>1. /\ UNCHANGED <<built, log, net, welcomes, marker, recovery>>
      /\ call[d].pc = "confirmed" /\ state[d] \in Stored
    BY DEF HealFromWelcome, server, At, ReadyInv, RowOf, Row, Calling
<1>2. \/ \E w \in Fresh(d) : state' = [state EXCEPT ![d] = w.state] /\ Return(d, "ready")
      \/ UNCHANGED state /\ Goto(d, "behind")
    BY DEF HealFromWelcome, FetchWelcome, Process
<1>3. CASE UNCHANGED state /\ Goto(d, "behind")
    <2>1. call'[d].pc = "behind"
        BY <1>3, CallFacts
    <2>2. recovery[d] # "catchup" => Calling(d, state[d], marker[d], call'[d], recovery[d])
        BY <1>1, <2>1 DEF Calling
    <2> QED
        BY <1>1, <1>3, <2>1, <2>2, CallFacts, CallGoes
<1> QED
    BY <1>1, <1>2, <1>3, JoinReady

LEMMA CatchUpReady ==
    ASSUME TypeInv, FounderInv, ReadyInv, NEW d \in Devices, CatchUpConfirmed(d)
    PROVE  ReadyInv'
<1>1. /\ UNCHANGED <<built, log, net, welcomes, marker, recovery>>
      /\ call[d].pc = "behind" /\ state[d] \in Stored
    BY DEF CatchUpConfirmed, server, At, ReadyInv, RowOf, Row, Calling
<1>2. state[d] \in Refs /\ Epoch(state[d]) = 1
    BY <1>1, SentFacts DEF ReadyInv
<1>3. Applied(state[d]) = state[d]
    BY <1>2, AppliedFacts DEF ReadyInv
<1>4. state' = state
    BY <1>3 DEF CatchUpConfirmed, TypeInv, StateOK
<1>5. PICK z : Return(d, z)
    BY DEF CatchUpConfirmed
<1> QED
    BY <1>1, <1>4, <1>5, CallEnds

LEMMA RoleReady ==
    ASSUME TypeInv, FounderInv, ReadyInv, NEW d \in Devices, AskRole(d)
    PROVE  ReadyInv'
<1>1. /\ UNCHANGED <<built, log, net, welcomes, state, marker, recovery>>
      /\ call[d].pc = "role" /\ (state[d] = NoState \/ By(state[d]) # d)
    BY DEF AskRole, At, ReadyInv, RowOf, Row, Calling
<1>2. CASE Goto(d, "poll")
    <2>1. call'[d].pc = "poll"
        BY <1>2, CallFacts
    <2>2. recovery[d] # "catchup" => Calling(d, state[d], marker[d], call'[d], recovery[d])
        BY <1>1, <2>1 DEF Calling
    <2> QED
        BY <1>1, <1>2, <2>1, <2>2, CallFacts, CallGoes
<1>3. CASE Initiates(d) /\ Goto(d, "precheck")
    <2>1. call'[d].pc = "precheck"
        BY <1>3, CallFacts
    <2>2. Stored = {}
        BY <1>3 DEF Initiates, Stored
    <2>3. state[d] = NoState
        BY <1>1, <2>2 DEF ReadyInv, RowOf, Row, Joined
    <2>4. recovery[d] # "catchup" => Calling(d, state[d], marker[d], call'[d], recovery[d])
        BY <2>1, <2>3 DEF Calling
    <2> QED
        BY <1>1, <1>3, <2>1, <2>4, CallFacts, CallGoes
<1> QED
    BY <1>2, <1>3 DEF AskRole

LEMMA PollReady ==
    ASSUME TypeInv, FounderInv, ReadyInv, NEW d \in Devices, Poll(d)
    PROVE  ReadyInv'
<1>1. /\ UNCHANGED <<built, log, net, welcomes, marker, recovery>>
      /\ call[d].pc = "poll" /\ (state[d] = NoState \/ By(state[d]) # d)
    BY DEF Poll, server, At, ReadyInv, RowOf, Row, Calling
<1>2. CASE state[d] # NoState
    <2>1. state[d] \in Stored
        BY <1>1, <1>2 DEF ReadyInv, RowOf, Row, Joined
    <2>2. Return(d, "ready") /\ state' = state
        BY <1>2 DEF Poll
    <2> QED
        BY <1>1, <2>1, <2>2, CallEnds
<1>3. CASE state[d] = NoState
    <2>1. \/ \E w \in Fresh(d) : state' = [state EXCEPT ![d] = w.state] /\ Return(d, "ready")
          \/ UNCHANGED state /\ Goto(d, "round")
        BY <1>3 DEF Poll, FetchWelcome, Process
    <2>2. CASE UNCHANGED state /\ Goto(d, "round")
        <3>1. call'[d].pc = "round"
            BY <2>2, CallFacts
        <3>2. recovery[d] # "catchup" => Calling(d, state[d], marker[d], call'[d], recovery[d])
            BY <1>1, <3>1 DEF Calling
        <3> QED
            BY <1>1, <2>2, <3>1, <3>2, CallFacts, CallGoes
    <2> QED
        BY <1>1, <2>1, <2>2, JoinReady
<1> QED
    BY <1>2, <1>3

LEMMA RoundReady ==
    ASSUME TypeInv, FounderInv, ReadyInv, NEW d \in Devices, NextRound(d) \/ Throw(d)
    PROVE  ReadyInv'
<1>1. /\ UNCHANGED <<built, log, net, welcomes, state, marker, recovery>>
      /\ call[d].pc \in {"round", "behind", "role", "poll", "write", "consume"}
    BY DEF NextRound, Throw, server, At
<1>2. CASE Return(d, "failed")
    BY <1>1, <1>2, CallEnds
<1>3. CASE NextRound(d) /\ ~Return(d, "failed")
    <2> DEFINE c == [call[d] EXCEPT !.pc = "role", !.round = call[d].round + 1]
    <2>1. /\ call \in [Devices -> CallRec] /\ call[d] \in CallRec /\ call[d].pc = "round"
          /\ state[d] = NoState \/ By(state[d]) # d
        BY <1>3 DEF TypeInv, CallOK, NextRound, At, ReadyInv, RowOf, Row, Calling
    <2>2. /\ call' = [call EXCEPT ![d].pc = "role", ![d].round = call[d].round + 1]
          /\ result' = result
        BY <1>3, <2>1 DEF NextRound
    <2>3. call' = [call EXCEPT ![d] = c]
        BY <2>1, <2>2
    <2>4. c.pc = "role"
        BY <2>1 DEF CallRec
    <2> HIDE DEF c
    <2>5. call'[d].pc = "role" /\ \A e \in Devices \ {d} : call'[e] = call[e]
        BY <2>1, <2>3, <2>4
    <2>6. recovery[d] # "catchup" => Calling(d, state[d], marker[d], call'[d], recovery[d])
        BY <2>1, <2>5 DEF Calling
    <2> QED
        BY <1>1, <2>1, <2>2, <2>5, <2>6, CallGoes
<1> QED
    BY <1>2, <1>3 DEF NextRound, Throw

LEMMA LookReady ==
    ASSUME TypeInv, FounderInv, ReadyInv, NEW d \in Devices, Precheck(d) \/ LookAgain(d)
    PROVE  ReadyInv'
<1>1. /\ UNCHANGED <<built, log, net, welcomes, marker, recovery>>
      /\ call[d].pc \in {"precheck", "create"} /\ state[d] = NoState
    BY DEF Precheck, LookAgain, server, At, ReadyInv, RowOf, Row, Calling
<1>2. \/ \E w \in Fresh(d) : state' = [state EXCEPT ![d] = w.state] /\ Return(d, "ready")
      \/ UNCHANGED state /\ \E pc \in {"create", "write"} : Goto(d, pc)
    BY <1>1 DEF Precheck, FetchWelcome, Process, LookAgain, Group
<1>3. CASE UNCHANGED state /\ \E pc \in {"create", "write"} : Goto(d, pc)
    <2>1. PICK pc \in {"create", "write"} : Goto(d, pc)
        BY <1>3
    <2>2. call'[d].pc = pc
        BY <2>1, CallFacts
    <2>3. recovery[d] # "catchup" => Calling(d, state[d], marker[d], call'[d], recovery[d])
        BY <1>1, <2>2 DEF Calling
    <2> QED
        BY <1>1, <1>3, <2>1, <2>2, <2>3, CallFacts, CallGoes
<1> QED
    BY <1>1, <1>2, <1>3, JoinReady

-----------------------------------------------------------------------------
(* No answer is kept from one request to the next. *)
Unanswered ==
    \A d \in Devices : call[d].pc \notin {"posting", "rolledback"} => call[d].reply = 0

LEMMA UnansweredCall ==
    ASSUME TypeInv, Unanswered, NEW d \in Devices, NEW c, call' = [call EXCEPT ![d] = c],
           c.pc \notin {"posting", "rolledback"} => c.reply = 0
    PROVE  Unanswered'
<1>1. \A e \in Devices : call'[e] = IF e = d THEN c ELSE call[e]
    BY DEF TypeInv, CallOK
<1> QED
    BY <1>1 DEF Unanswered

LEMMA UnansweredGoto ==
    ASSUME TypeInv, Unanswered, NEW d \in Devices, NEW pc, Goto(d, pc),
           call[d].pc \notin {"posting", "rolledback"} \/ pc = "rolledback"
    PROVE  Unanswered'
<1> DEFINE c == [call[d] EXCEPT !.pc = pc]
<1>1. call[d] \in CallRec
    BY DEF TypeInv, CallOK
<1>2. call' = [call EXCEPT ![d] = c] /\ c.pc = pc /\ c.reply = call[d].reply
    BY <1>1 DEF Goto, CallRec
<1> HIDE DEF c
<1>3. c.pc \notin {"posting", "rolledback"} => c.reply = 0
    BY <1>2 DEF Unanswered
<1> QED
    BY <1>2, <1>3, UnansweredCall

LEMMA UnansweredReturn ==
    ASSUME TypeInv, Unanswered, NEW d \in Devices, call' = [call EXCEPT ![d] = NoCall]
    PROVE  Unanswered'
<1>1. NoCall.reply = 0
    BY DEF NoCall
<1> QED
    BY <1>1, UnansweredCall

LEMMA UnansweredStep == TypeInv /\ Unanswered /\ [Next]_vars => Unanswered'
<1> SUFFICES ASSUME TypeInv, Unanswered, [Next]_vars PROVE Unanswered'
    OBVIOUS
<1>1. ASSUME NEW d \in Devices, NextRound(d) \/ LoadSolo(d) \/ AddParticipants(d) \/ RetryPost(d)
      PROVE  Unanswered'
    <2> DEFINE n == Len(built) + 1
               next == [call[d] EXCEPT !.pc = "role", !.round = call[d].round + 1]
               load == [call[d] EXCEPT !.pc = "consume", !.solo = state[d]]
               post == [call[d] EXCEPT !.pc = "posting", !.mine = n]
               again == [call[d] EXCEPT !.reply = 0, !.retried = TRUE]
    <2>1. /\ call[d] \in CallRec /\ call \in [Devices -> CallRec]
          /\ \/ call' = [call EXCEPT ![d] = NoCall]
             \/ At(d, "round") /\ call' = [call EXCEPT ![d].pc = "role", ![d].round = call[d].round + 1]
             \/ At(d, "phase2") /\ call' = [call EXCEPT ![d].pc = "consume", ![d].solo = state[d]]
             \/ call' = [call EXCEPT ![d].pc = "posting", ![d].mine = n]
             \/ call' = [call EXCEPT ![d].reply = 0, ![d].retried = TRUE]
        BY <1>1 DEF NextRound, LoadSolo, AddParticipants, WriteGenesis, RetryPost, Return,
            TypeInv, CallOK
    <2>5. [call EXCEPT ![d].pc = "role", ![d].round = call[d].round + 1] = [call EXCEPT ![d] = next]
        BY <2>1
    <2>6. [call EXCEPT ![d].pc = "consume", ![d].solo = state[d]] = [call EXCEPT ![d] = load]
        BY <2>1
    <2>7. [call EXCEPT ![d].pc = "posting", ![d].mine = n] = [call EXCEPT ![d] = post]
        BY <2>1
    <2>8. [call EXCEPT ![d].reply = 0, ![d].retried = TRUE] = [call EXCEPT ![d] = again]
        BY <2>1
    <2>2. \/ call' = [call EXCEPT ![d] = NoCall]
          \/ At(d, "round") /\ call' = [call EXCEPT ![d] = next]
          \/ At(d, "phase2") /\ call' = [call EXCEPT ![d] = load]
          \/ call' = [call EXCEPT ![d] = post]
          \/ call' = [call EXCEPT ![d] = again]
        BY <2>1, <2>5, <2>6, <2>7, <2>8
    <2>3. /\ next.reply = call[d].reply /\ load.reply = call[d].reply
          /\ post.pc = "posting" /\ again.reply = 0
        BY <2>1 DEF CallRec
    <2>4. At(d, "round") \/ At(d, "phase2") => call[d].reply = 0
        BY DEF At, Unanswered
    <2> HIDE DEF next, load, post, again
    <2> QED
        BY <2>2, <2>3, <2>4, UnansweredCall, UnansweredReturn
<1>2. ASSUME NEW d \in Devices,
             Begin(d) \/ Ensure(d) \/ Recover(d) \/ ReceiveWelcome(d) \/ ReceiveCommit(d) \/ Crash(d),
             ~(NextRound(d) \/ LoadSolo(d) \/ AddParticipants(d))
      PROVE  Unanswered'
    <2>1. \/ call' = call
          \/ call' = [call EXCEPT ![d] = NoCall]
          \/ call[d].pc \notin {"posting", "rolledback"} /\ \E pc : Goto(d, pc)
          \/ Goto(d, "rolledback")
        BY <1>2 DEF Begin, Ensure, AfterRecovery, HealFromWelcome, CatchUpConfirmed, AskRole, Poll,
            Throw, Precheck, LookAgain, CreateSolo, Confirm, Conflict, Reconcile,
            ReconcileWithServer, Recover, RecoverPendingGenesises, ResolveMarker,
            RecoverFromServer, ReceiveWelcome, ReceiveCommit, Crash, FetchWelcome, Return, At
    <2> QED
        BY <2>1, UnansweredGoto, UnansweredReturn DEF Unanswered
<1>3. ASSUME NEW c \in net, Receive(c) \/ LoseRequest(c)
      PROVE  Unanswered'
    <2>1. call' = call \/ \E r : Answer(c, r)
        BY <1>3 DEF Receive, LoseRequest, ServerStore, ServerKeepsWinner, ServerRejects
    <2>2. ASSUME NEW r, Answer(c, r) PROVE Unanswered'
        <3>1. \A d \in Devices : /\ call[d].pc = "posting" => call'[d].pc = "posting"
                                 /\ call[d].pc # "posting" => call'[d] = call[d]
            BY <2>2 DEF Answer, At, TypeInv, CallOK, CallRec
        <3> QED
            BY <3>1 DEF Unanswered
    <2> QED
        BY <2>1, <2>2 DEF Unanswered
<1>4. CASE UNCHANGED vars
    BY <1>4 DEF vars, Unanswered
<1> QED
    BY <1>1, <1>2, <1>3, <1>4 DEF Next, Ensure

-----------------------------------------------------------------------------
(* The founding. *)
LEMMA ShapeGrows ==
    ASSUME TypeInv, Shape, NEW r \in StateRec, built' = Append(built, r), Len(built) < MaxStates,
           \/ r.epoch = 0 /\ r.members = {r.by}
           \/ /\ r.epoch = 1 /\ r.parent \in Refs
              /\ Epoch(r.parent) = 0 /\ By(r.parent) = r.by
              /\ r.by \in r.members /\ \E m \in r.members : m # r.by
    PROVE  Shape'
<1>0. Len(built) \in Nat
    BY DEF TypeInv, BuiltOK
<1>1. /\ Refs \subseteq Refs' /\ \A s \in Refs : built'[s] = built[s]
      /\ built'[Len(built) + 1] = r /\ Len(built') = Len(built) + 1
    BY BuiltGrows
<1>2. \A s \in Refs' : s \in Refs \/ built'[s] = r
    BY <1>0, <1>1 DEF Refs
<1>3. ASSUME NEW s \in Refs'
      PROVE  \/ built'[s].epoch = 0 /\ built'[s].members = {built'[s].by}
             \/ /\ built'[s].epoch = 1
                /\ built'[s].parent \in Refs'
                /\ built'[built'[s].parent].epoch = 0 /\ built'[built'[s].parent].by = built'[s].by
                /\ built'[s].by \in built'[s].members
                /\ \E m \in built'[s].members : m # built'[s].by
    <2>1. CASE s \in Refs
        <3>1. \/ built[s].epoch = 0 /\ built[s].members = {built[s].by}
              \/ /\ built[s].epoch = 1
                 /\ built[s].parent \in Refs
                 /\ built[built[s].parent].epoch = 0 /\ built[built[s].parent].by = built[s].by
                 /\ built[s].by \in built[s].members
                 /\ \E m \in built[s].members : m # built[s].by
            BY <2>1 DEF Shape, Epoch, Members, By
        <3>2. built'[s] = built[s]
            BY <1>1, <2>1
        <3> QED
            BY <1>1, <3>1, <3>2
    <2>2. CASE built'[s] = r
        <3>0. r.epoch = 1 => r.parent \in Refs
            OBVIOUS
        <3>1. r.epoch = 1 => built'[r.parent] = built[r.parent] /\ r.parent \in Refs'
            BY <1>1, <3>0
        <3> QED
            BY <2>2, <3>1 DEF Epoch, By
    <2> QED
        BY <1>2, <2>1, <2>2
<1> QED
    BY <1>3 DEF Shape, Epoch, Members, By

LEMMA CreateReady ==
    ASSUME TypeInv, FounderInv, ReadyInv, NEW d \in Devices, CreateSolo(d)
    PROVE  ReadyInv'
<1>1. /\ UNCHANGED <<log, net, welcomes, marker, recovery>>
      /\ call[d].pc = "write" /\ state[d] = NoState /\ Goto(d, "phase2")
      /\ recovery[d] # "catchup" /\ marker[d] = NoMarker
    BY DEF CreateSolo, server, At, ReadyInv, RowOf, Row, Calling, Marked
<1>0. PICK n : n = Len(built) + 1
    OBVIOUS
<1> DEFINE r == [by |-> d, epoch |-> 0, parent |-> NoState, members |-> {d}]
<1>2. r \in StateRec /\ built' = Append(built, r) /\ Len(built) < MaxStates
    BY <1>1 DEF CreateSolo, StateRec, NoState
<1>3. r.epoch = 0 /\ r.members = {r.by} /\ r.by = d
    OBVIOUS
<1> HIDE DEF r
<1>4. /\ \A s \in Refs : built'[s] = built[s]
      /\ Len(built') = n /\ n \in Refs' /\ Refs \subseteq Refs' /\ built'[n] = r
    BY <1>0, <1>2, BuiltGrows
<1>5. \A s \in Refs' : s \in Refs \/ s = n
    BY <1>0, <1>4 DEF Refs, TypeInv, BuiltOK
<1>6. Bids(d) /\ \A s \in Refs : By(s) = d
    BY <1>1, OneOwner DEF ReadyInv, Bids, Creates
<1>7. Sent = {} /\ Stored = {}
    <2> SUFFICES ASSUME NEW c \in Sent PROVE FALSE
        BY DEF Sent
    <2>1. Founded(d)
        BY <1>6, SentFacts, ShapeFacts DEF ReadyInv
    <2> QED
        BY <1>1, <2>1 DEF ReadyInv, RowOf, Row, Own
<1>8. Stored' = Stored /\ Sent' = {}
    BY <1>1, <1>7 DEF Stored, Sent
<1>9. Shape' /\ OneSent' /\ Invitations'
    <2>1. welcomes = {}
        BY <1>7 DEF ReadyInv, Invitations
    <2>2. Shape'
        BY <1>2, <1>3, ShapeGrows DEF ReadyInv
    <2> QED
        BY <1>1, <1>8, <2>1, <2>2 DEF ReadyInv, OneSent, Invitations
<1>10. /\ state'[d] = n /\ \A e \in Devices \ {d} : state'[e] = state[e]
       /\ call'[d].pc = "phase2" /\ result' = result
       /\ \A e \in Devices \ {d} : call'[e] = call[e]
    BY <1>1, <1>4, CallFacts DEF CreateSolo, TypeInv, StateOK
<1>11. ASSUME NEW e \in Devices \ {d} PROVE RowOf(e)'
    <2>1. ~Founded(e)
        BY <1>6 DEF Founded, By
    <2>2. ~Founded(e)'
        BY <1>3, <1>4, <1>5, <2>1 DEF Founded, Epoch
    <2> QED
        BY <1>1, <1>4, <1>8, <1>10, <2>1, <2>2, OthersRow DEF ReadyInv
<1>12. RowOf(d)'
    <2>1. IsSolo(n)' /\ By(n)' = d /\ Founded(d)' /\ Epoch(n)' = 0 /\ n # NoState
        BY <1>3, <1>4 DEF IsSolo, By, Founded, Epoch, Refs, NoState
    <2>2. Joined(d, state[d])' /\ Own(d, state[d], marker[d], call[d], recovery[d])'
        BY <1>1, <1>8, <1>10, <2>1 DEF Joined, Own, OnTheWay
    <2>3. Calling(d, state[d], marker[d], call[d], recovery[d])'
        BY <1>1, <1>10, <2>1 DEF Calling
    <2>4. /\ Marked(d, state[d], marker[d], call[d], recovery[d])'
          /\ Posting(d, state[d], call[d], recovery[d])'
        BY <1>1, <1>10 DEF Marked, Posting
    <2>5. Reported(state[d], call[d], recovery[d], result[d])'
        BY <1>7, <1>10 DEF ReadyInv, RowOf, Row, Reported
    <2> QED
        BY <2>2, <2>3, <2>4, <2>5 DEF RowOf, Row
<1> QED
    BY <1>9, <1>11, <1>12 DEF ReadyInv

LEMMA LoadReady ==
    ASSUME TypeInv, FounderInv, ReadyInv, NEW d \in Devices, LoadSolo(d)
    PROVE  ReadyInv'
<1>1. /\ UNCHANGED <<built, log, net, welcomes, state, marker, recovery>>
      /\ call[d].pc = "phase2" /\ Founded(d) /\ IsSolo(state[d])
      /\ call \in [Devices -> CallRec] /\ call[d] \in CallRec
    BY DEF LoadSolo, server, At, ReadyInv, RowOf, Row, Calling, TypeInv, CallOK
<1> DEFINE c == [call[d] EXCEPT !.pc = "consume", !.solo = state[d]]
<1>2. /\ call' = [call EXCEPT ![d].pc = "consume", ![d].solo = state[d]]
      /\ result' = result
    BY <1>1 DEF LoadSolo, IsSolo
<1>3. call' = [call EXCEPT ![d] = c]
    BY <1>1, <1>2
<1>4. c.pc = "consume" /\ c.solo = state[d]
    BY <1>1 DEF CallRec
<1> HIDE DEF c
<1>5. /\ call'[d].pc = "consume" /\ call'[d].solo = state[d]
      /\ \A e \in Devices \ {d} : call'[e] = call[e]
    BY <1>1, <1>3, <1>4
<1>6. recovery[d] # "catchup" => Calling(d, state[d], marker[d], call'[d], recovery[d])
    BY <1>1, <1>5 DEF Calling
<1> QED
    BY <1>1, <1>2, <1>5, <1>6, CallGoes

LEMMA WriteReady ==
    ASSUME TypeInv, FounderInv, ReadyInv, Unanswered, NEW d \in Devices, AddParticipants(d)
    PROVE  ReadyInv'
<1>0. PICK targets \in Invites[d] : WriteGenesis(d, targets)
    BY DEF AddParticipants
<1>1. /\ call[d].pc = "consume" /\ Founded(d) /\ IsSolo(state[d]) /\ state[d] = call[d].solo
      /\ recovery[d] # "catchup" /\ marker[d] = NoMarker
      /\ call \in [Devices -> CallRec] /\ call[d] \in CallRec
    BY <1>0 DEF WriteGenesis, At, ReadyInv, RowOf, Row, Calling, Marked, TypeInv, CallOK
<1>2. Sent = {} /\ Stored = {}
    BY <1>1 DEF ReadyInv, RowOf, Row, Own, OnTheWay, Sent
<1>3. PICK solo, n : solo = call[d].solo /\ n = Len(built) + 1
    OBVIOUS
<1> DEFINE r == [by |-> d, epoch |-> Epoch(solo) + 1, parent |-> solo,
                 members |-> Members(solo) \cup targets]
           c == [call[d] EXCEPT !.pc = "posting", !.mine = n]
<1>4. /\ Len(built) < MaxStates /\ built' = Append(built, r)
      /\ state' = [state EXCEPT ![d] = n]
      /\ marker' = [marker EXCEPT ![d] = MarkerFor(d)]
      /\ net' = net \cup {n}
      /\ call' = [call EXCEPT ![d].pc = "posting", ![d].mine = n]
      /\ UNCHANGED <<result, log, welcomes, recovery>>
    BY <1>0, <1>1, <1>3 DEF WriteGenesis
<1>5. solo \in Refs /\ Epoch(solo) = 0 /\ By(solo) = d /\ Members(solo) = {d}
    <2>1. solo \in Refs /\ Epoch(solo) = 0
        BY <1>1, <1>3, HeldFacts DEF IsSolo
    <2>2. By(solo) = d
        BY <1>1, <2>1, OneOwner DEF ReadyInv
    <2> QED
        BY <2>1, <2>2 DEF ReadyInv, Shape
<1>6. targets \subseteq Devices /\ targets # {} /\ d \notin targets
    BY <1>0, InvitesAssumption
<1>7. r \in StateRec
    <2>1. solo \in 0 .. MaxStates /\ Epoch(solo) + 1 \in Nat
        BY <1>5 DEF TypeInv, BuiltOK, Refs
    <2> QED
        BY <1>5, <1>6, <2>1 DEF StateRec
<1>8. /\ r.epoch = 1 /\ r.parent = solo /\ r.by = d
      /\ d \in r.members /\ \E m \in r.members : m # d
    BY <1>5, <1>6
<1> HIDE DEF r
<1>9. /\ \A s \in Refs : built'[s] = built[s]
      /\ Len(built') = n /\ n \in Refs' /\ Refs \subseteq Refs' /\ built'[n] = r
    BY <1>3, <1>4, <1>7, BuiltGrows
<1>10. \A s \in Refs' : s \in Refs \/ s = n
    BY <1>3, <1>9 DEF Refs, TypeInv, BuiltOK
<1>11. Shape'
    BY <1>4, <1>5, <1>7, <1>8, ShapeGrows DEF ReadyInv
<1>12. Stored' = {} /\ Sent' = {n}
    <2>1. Stored' = Stored
        BY <1>4 DEF Stored
    <2>2. net = {} /\ net' = {n}
        BY <1>2, <1>4 DEF Sent
    <2> QED
        BY <1>2, <2>1, <2>2 DEF Sent
<1>13. /\ Epoch(n)' = 1 /\ By(n)' = d /\ built'[n].parent = solo /\ n # NoState
       /\ Founded(d)' /\ Epoch(solo)' = 0
    <2>1. n # NoState
        BY <1>3 DEF TypeInv, BuiltOK, NoState
    <2>2. Epoch(solo)' = 0 /\ built'[solo].by = d
        BY <1>5, <1>9 DEF Epoch, By
    <2> QED
        BY <1>5, <1>8, <1>9, <2>1, <2>2 DEF Epoch, By, Founded
<1>14. OneSent' /\ Invitations'
    <2>1. welcomes = {}
        BY <1>2 DEF ReadyInv, Invitations
    <2> QED
        BY <1>4, <1>12, <1>13, <2>1 DEF ReadyInv, OneSent, Invitations
<1>15. /\ c.pc = "posting" /\ c.mine = n /\ c.solo = solo /\ c.reply = 0
       /\ call' = [call EXCEPT ![d] = c]
    BY <1>1, <1>3, <1>4 DEF CallRec, Unanswered
<1> HIDE DEF c
<1>16. /\ state'[d] = n /\ call'[d] = c /\ marker'[d] = MarkerFor(d)
       /\ \A e \in Devices \ {d} : UNCHANGED <<state[e], call[e], marker[e]>>
    BY <1>1, <1>4, <1>15 DEF TypeInv, StateOK, MarkerOK
<1>17. marker'[d].newEpoch = 1 /\ marker'[d].prev = solo /\ marker'[d] # NoMarker
    BY <1>3, <1>5, <1>16 DEF MarkerFor, NoMarker
<1>18. ASSUME NEW e \in Devices \ {d} PROVE RowOf(e)'
    <2>1. ~Founded(e)
        BY <1>1, OneOwner DEF ReadyInv, Founded, By
    <2>2. ~Founded(e)'
        BY <1>8, <1>9, <1>10, <2>1 DEF Founded, Epoch
    <2>3. Stored' = Stored
        BY <1>2, <1>12
    <2> QED
        BY <1>4, <1>9, <1>16, <2>1, <2>2, <2>3, OthersRow DEF ReadyInv
<1>19. RowOf(d)'
    <2>1. Joined(d, state[d])' /\ Own(d, state[d], marker[d], call[d], recovery[d])'
        BY <1>12, <1>13, <1>16, <1>17 DEF Joined, Own, IsSolo
    <2>2. Calling(d, state[d], marker[d], call[d], recovery[d])'
        BY <1>1, <1>4, <1>15, <1>16 DEF Calling
    <2>3. Marked(d, state[d], marker[d], call[d], recovery[d])'
        <3>1. recovery'[d] # "catchup" /\ call'[d].pc = "posting" /\ state'[d] = n
            BY <1>1, <1>4, <1>15, <1>16
        <3> QED
            BY <1>13, <1>17, <3>1 DEF Marked
    <2>4. Posting(d, state[d], call[d], recovery[d])'
        BY <1>12, <1>13, <1>15, <1>16 DEF Posting
    <2>5. Reported(state[d], call[d], recovery[d], result[d])'
        BY <1>2, <1>4 DEF ReadyInv, RowOf, Row, Reported
    <2> QED
        BY <2>1, <2>2, <2>3, <2>4, <2>5 DEF RowOf, Row
<1> QED
    BY <1>11, <1>14, <1>18, <1>19 DEF ReadyInv

-----------------------------------------------------------------------------
(* The network and the server. *)

(* An answer that says what the server holds. *)
LEMMA AnsweredRow ==
    ASSUME NEW d, NEW s, NEW m, NEW k, NEW r, NEW z, Row(d, s, m, k, r, z)', k.pc = "posting",
           NEW k2, k2.pc = "posting", k2.solo = k.solo, k2.mine = k.mine,
           k2.reply > 0 => k.mine \in Stored', k2.reply = -1 => Sent' = {}
    PROVE  Row(d, s, m, k2, r, z)'
<1>1. OnTheWay(k2, r) <=> OnTheWay(k, r)
    BY DEF OnTheWay
<1>2. Joined(d, s)' /\ Own(d, s, m, k2, r)' /\ Reported(s, k2, r, z)'
    BY <1>1 DEF Row, Own, Reported
<1>3. Marked(d, s, m, k2, r)' /\ Calling(d, s, m, k2, r)'
    BY DEF Row, Marked, Calling
<1>4. Posting(d, s, k2, r)'
    BY DEF Row, Posting
<1> QED
    BY <1>2, <1>3, <1>4 DEF Row

LEMMA ServerStep ==
    ASSUME TypeInv, ReadyInv, UNCHANGED <<built, state, marker, recovery, result>>,
           Stored \subseteq Stored', Sent' \subseteq Sent, OneSent', Invitations',
           UNCHANGED call \/ \E c, a : /\ Answer(c, a)
                                       /\ a > 0 => c \in Stored'
                                       /\ a = -1 => Sent' = {}
    PROVE  ReadyInv'
<1>1. Shape'
    BY DEF ReadyInv, Shape, Refs, Epoch, Members, By
<1>2. ASSUME NEW d \in Devices PROVE RowOf(d)'
    <2>1. PICK s, m, k, r, z : /\ s = state[d] /\ m = marker[d] /\ k = call[d]
                               /\ r = recovery[d] /\ z = result[d]
        OBVIOUS
    <2>2. Row(d, s, m, k, r, z)
        BY <2>1 DEF ReadyInv, RowOf
    <2>3. Row(d, s, m, k, r, z)'
        BY <2>2, ServerMoves
    <2>4. PICK k2 : k2 = call'[d]
        OBVIOUS
    <2>5. Row(d, s, m, k2, r, z)'
        <3>1. CASE k2 = k
            BY <2>3, <3>1
        <3>2. CASE k2 # k
            <4>1. PICK c, a : /\ Answer(c, a)
                              /\ a > 0 => c \in Stored'
                              /\ a = -1 => Sent' = {}
                BY <2>1, <2>4, <3>2
            <4>0. k2 = IF call[d].pc = "posting" /\ call[d].mine = c
                       THEN [call[d] EXCEPT !.reply = a] ELSE call[d]
                BY <2>4, <4>1 DEF Answer, At
            <4>2. /\ k.pc = "posting" /\ k.mine = c /\ k2 = [k EXCEPT !.reply = a]
                  /\ k \in CallRec
                BY <2>1, <3>2, <4>0 DEF TypeInv, CallOK
            <4>3. k2.pc = "posting" /\ k2.solo = k.solo /\ k2.mine = k.mine /\ k2.reply = a
                BY <4>2 DEF CallRec
            <4> QED
                BY <2>3, <4>1, <4>2, <4>3, AnsweredRow
        <3> QED
            BY <3>1, <3>2
    <2> QED
        BY <2>1, <2>4, <2>5 DEF RowOf
<1> QED
    BY <1>1, <1>2 DEF ReadyInv

LEMMA ReceiveReady ==
    ASSUME TypeInv, FounderInv, ReadyInv, NEW c \in net, Receive(c)
    PROVE  ReadyInv'
<1>1. /\ UNCHANGED <<built, state, marker, recovery, result>> /\ net' = net \ {c}
      /\ ServerStore(c) \/ ServerKeepsWinner(c) \/ ServerRejects(c)
    BY DEF Receive
<1>2. /\ c \in Sent /\ c \in Refs /\ Epoch(c) = 1 /\ \A b \in Sent : b = c
      /\ Len(log) \in Nat /\ Len(log) <= 1 /\ log \in Seq(Refs)
    BY SentFacts DEF ReadyInv, OneSent, Sent, TypeInv, LogOK
<1>3. CASE ServerStore(c)
    <2>1. Len(log) = 0 /\ log' = Append(log, c) /\ Answer(c, c)
        BY <1>2, <1>3 DEF ServerStore
    <2>2. log = <<>> /\ log' = <<c>>
        BY <1>2, <2>1
    <2>3. Stored = {} /\ Stored' = {c} /\ Len(log') = 1
        BY <2>2 DEF Stored
    <2>4. Sent' \subseteq Sent
        BY <1>1, <1>2, <2>3 DEF Sent
    <2>5. OneSent'
        BY <1>1, <1>2, <2>3, <2>4 DEF OneSent, Epoch
    <2>6. Invitations'
        <3>1. welcomes = {}
            BY <2>3 DEF ReadyInv, Invitations
        <3>2. By(c) \in Members(built[c].parent)
            <4>1. /\ built[c].parent \in Refs /\ Epoch(built[c].parent) = 0
                  /\ By(built[c].parent) = By(c)
                BY <1>2 DEF ReadyInv, Shape
            <4>2. Members(built[c].parent) = {By(c)}
                BY <4>1 DEF ReadyInv, Shape
            <4> QED
                BY <4>2
        <3>3. welcomes' = {[to |-> t, state |-> c] : t \in Members(c) \ Members(built[c].parent)}
            BY <1>3, <3>1 DEF ServerStore
        <3>4. \A w \in welcomes' : w.state = c /\ By(c) # w.to
            BY <3>2, <3>3
        <3> QED
            BY <1>1, <2>3, <3>4 DEF Invitations, By
    <2>7. \E b, a : Answer(b, a) /\ (a > 0 => b \in Stored') /\ (a = -1 => Sent' = {})
        <3>1. c # -1
            BY <1>2 DEF Refs
        <3> QED
            BY <2>1, <2>3, <3>1
    <2>8. Stored \subseteq Stored'
        BY <2>3
    <2> QED
        BY <1>1, <2>4, <2>5, <2>6, <2>7, <2>8, ServerStep
<1>4. CASE ServerKeepsWinner(c)
    <2>1. UNCHANGED <<log, welcomes>> /\ Len(log) = 1 /\ Answer(c, log[1])
        <3>1. UNCHANGED <<log, welcomes>> /\ Epoch(c) <= Len(log) /\ Answer(c, log[Epoch(c)])
            BY <1>4 DEF ServerKeepsWinner
        <3>2. Len(log) = 1
            <4>1. PICK n : n = Len(log)
                OBVIOUS
            <4>2. n \in Nat /\ n <= 1
                BY <1>2, <4>1
            <4>3. 1 <= n
                BY <1>2, <3>1, <4>1
            <4> QED
                BY <4>1, <4>2, <4>3
        <3> QED
            BY <1>2, <3>1, <3>2
    <2>2. Stored' = Stored /\ log[1] \in Stored
        BY <2>1 DEF Stored
    <2>3. c \in Stored' /\ Sent' \subseteq Sent
        BY <1>1, <1>2, <2>2 DEF Sent
    <2>4. OneSent' /\ Invitations'
        BY <1>1, <2>1, <2>2, <2>3 DEF ReadyInv, OneSent, Invitations, Epoch, By
    <2>5. log[1] = c /\ c # -1
        <3>1. log[1] \in Sent
            BY <2>2 DEF Sent
        <3>2. c # -1
            BY <1>2 DEF Refs
        <3> QED
            BY <1>2, <3>1, <3>2
    <2>6. \E b, a : Answer(b, a) /\ (a > 0 => b \in Stored') /\ (a = -1 => Sent' = {})
        BY <2>1, <2>3, <2>5
    <2> QED
        BY <1>1, <2>2, <2>3, <2>4, <2>6, ServerStep
<1>5. CASE ServerRejects(c)
    <2>1. UNCHANGED <<log, welcomes>> /\ Len(log) = 0 /\ Answer(c, -1)
        BY <1>2, <1>5 DEF ServerRejects
    <2>2. Stored' = Stored /\ Stored = {}
        BY <2>1 DEF Stored
    <2>3. Sent' = {}
        BY <1>1, <1>2, <2>2 DEF Sent
    <2>4. OneSent' /\ Invitations'
        BY <1>1, <2>1, <2>2, <2>3 DEF ReadyInv, OneSent, Invitations, By
    <2>5. \E b, a : Answer(b, a) /\ (a > 0 => b \in Stored') /\ (a = -1 => Sent' = {})
        BY <2>1, <2>3
    <2> QED
        BY <1>1, <2>2, <2>3, <2>4, <2>5, ServerStep
<1> QED
    BY <1>1, <1>3, <1>4, <1>5

LEMMA LoseReady ==
    ASSUME TypeInv, FounderInv, ReadyInv, NEW c \in net, LoseRequest(c)
    PROVE  ReadyInv'
<1>1. /\ UNCHANGED <<built, log, welcomes, state, marker, call, recovery, result>>
      /\ net' \subseteq net
    BY DEF LoseRequest
<1>2. Stored' = Stored /\ Sent' \subseteq Sent
    BY <1>1 DEF Stored, Sent
<1>3. OneSent' /\ Invitations'
    BY <1>1, <1>2 DEF ReadyInv, OneSent, Invitations, Epoch, By
<1> QED
    BY <1>1, <1>2, <1>3, ServerStep

(* What a call that waits for its answer is about. *)
LEMMA PostingFacts ==
    ASSUME TypeInv, FounderInv, ReadyInv, NEW d \in Devices, call[d].pc = "posting"
    PROVE  /\ Founded(d) /\ call[d].mine \in Refs /\ Epoch(call[d].mine) = 1
           /\ call[d].solo \in Refs /\ Epoch(call[d].solo) = 0 /\ By(call[d].solo) = d
           /\ call[d].solo # NoState /\ call[d].mine # NoState /\ By(call[d].mine) = d
           /\ built[call[d].mine].parent = call[d].solo /\ Sent \subseteq {call[d].mine}
           /\ \/ state[d] = call[d].mine
              \/ state[d] = call[d].solo /\ recovery[d] = "catchup"
<1>1. call[d].mine \in Refs
    BY DEF TypeInv, CallOK, At, Commit
<1>2. /\ Founded(d) /\ By(call[d].mine) = d /\ Epoch(call[d].mine) = 1
      /\ built[call[d].mine].parent = call[d].solo /\ Sent \subseteq {call[d].mine}
      /\ \/ state[d] = call[d].mine
         \/ state[d] = call[d].solo /\ recovery[d] = "catchup"
    BY DEF ReadyInv, RowOf, Row, Posting
<1>3. call[d].solo \in Refs /\ Epoch(call[d].solo) = 0 /\ By(call[d].solo) = d
    BY <1>1, <1>2 DEF ReadyInv, Shape
<1> QED
    BY <1>1, <1>2, <1>3 DEF Refs, NoState

LEMMA RetryReady ==
    ASSUME TypeInv, FounderInv, ReadyInv, NEW d \in Devices, RetryPost(d)
    PROVE  ReadyInv'
<1>1. /\ UNCHANGED <<built, log, welcomes, state, marker, recovery, result>>
      /\ net' = net \cup {call[d].mine} /\ call[d].pc = "posting"
      /\ call' = [call EXCEPT ![d].reply = 0, ![d].retried = TRUE]
      /\ call \in [Devices -> CallRec] /\ call[d] \in CallRec
    BY DEF RetryPost, At, TypeInv, CallOK
<1>2. PICK c, solo, s, m, r, z : /\ c = call[d].mine /\ solo = call[d].solo /\ s = state[d]
                                 /\ m = marker[d] /\ r = recovery[d] /\ z = result[d]
    OBVIOUS
<1>3. /\ Founded(d) /\ c \in Refs /\ Epoch(c) = 1 /\ c # NoState /\ By(c) = d
      /\ solo \in Refs /\ Epoch(solo) = 0 /\ By(solo) = d /\ solo # NoState
      /\ built[c].parent = solo /\ Sent \subseteq {c}
      /\ s = c \/ (s = solo /\ r = "catchup")
    BY <1>1, <1>2, PostingFacts
<1>4. PICK again : again = [call[d] EXCEPT !.reply = 0, !.retried = TRUE]
    OBVIOUS
<1>5. again.pc = "posting" /\ again.mine = c /\ again.solo = solo /\ again.reply = 0
    BY <1>1, <1>2, <1>4 DEF CallRec
<1>6. call'[d] = again /\ \A e \in Devices \ {d} : call'[e] = call[e]
    BY <1>1, <1>4
<1>7. Stored' = Stored /\ Sent' = {c} /\ Stored \subseteq {c}
    <2>1. Stored' = Stored
        BY <1>1 DEF Stored
    <2> QED
        BY <1>1, <1>2, <1>3, <2>1 DEF Sent
<1>8. Shape' /\ OneSent' /\ Invitations'
    <2>1. Shape' /\ Invitations'
        BY <1>1, <1>7 DEF ReadyInv, Shape, Invitations, Refs, Epoch, Members, By
    <2>2. OneSent'
        BY <1>1, <1>3, <1>7 DEF ReadyInv, OneSent, Epoch
    <2> QED
        BY <2>1, <2>2
<1>9. ASSUME NEW e \in Devices \ {d} PROVE RowOf(e)'
    <2>1. ~Founded(e)
        BY <1>3, OneOwner DEF ReadyInv, Founded, By
    <2>2. ~Founded(e)'
        BY <1>1, <2>1 DEF Founded, Epoch, Refs
    <2> QED
        BY <1>1, <1>6, <1>7, <2>1, <2>2, OthersRow DEF ReadyInv
<1>10. RowOf(d)'
    <2>0. PICK k : k = call[d]
        OBVIOUS
    <2>1. Row(d, s, m, k, r, z) /\ k.pc = "posting"
        BY <1>1, <1>2, <2>0 DEF ReadyInv, RowOf
    <2>2. OnTheWay(again, r) <=> OnTheWay(k, r)
        BY <1>5, <2>1 DEF OnTheWay
    <2>3. /\ Founded(d)' /\ Epoch(c)' = 1 /\ Epoch(solo)' = 0 /\ By(c)' = d /\ By(solo)' = d
          /\ built'[c].parent = solo
        BY <1>1, <1>3 DEF Founded, Epoch, By, Refs
    <2>4. Joined(d, s)' /\ Marked(d, s, m, again, r)' /\ Calling(d, s, m, again, r)'
        BY <1>3, <1>5, <2>1, <2>3 DEF Row, Joined, Marked, Calling, Founded, Epoch, Refs
    <2>5. Own(d, s, m, again, r)'
        <3>1. CASE s = c
            <4>1. m = NoMarker => c \in Stored
                BY <1>3, <2>1, <3>1 DEF Row, Own
            <4> QED
                BY <1>3, <1>7, <2>3, <3>1, <4>1 DEF Own, IsSolo
        <3>2. CASE s = solo /\ r = "catchup"
            BY <1>3, <1>7, <2>3, <3>2 DEF Own, OnTheWay
        <3> QED
            BY <1>3, <3>1, <3>2
    <2>6. Posting(d, s, again, r)'
        BY <1>3, <1>5, <1>7, <2>3 DEF Posting
    <2>7. Reported(s, again, r, z)'
        <3>1. IsSolo(s)' <=> IsSolo(s)
            BY <1>1 DEF IsSolo, Epoch
        <3> QED
            BY <1>7, <2>1, <2>2, <3>1 DEF Row, Reported
    <2>8. Row(d, s, m, again, r, z)'
        BY <2>4, <2>5, <2>6, <2>7 DEF Row
    <2> QED
        BY <1>1, <1>2, <1>6, <2>8 DEF RowOf
<1> QED
    BY <1>8, <1>9, <1>10 DEF ReadyInv

-----------------------------------------------------------------------------
(* The answer, on the device. *)
LEMMA ConfirmReady ==
    ASSUME TypeInv, FounderInv, ReadyInv, NEW d \in Devices, Confirm(d)
    PROVE  ReadyInv'
<1>1. /\ UNCHANGED <<built, log, net, welcomes, state, recovery>>
      /\ call[d].pc = "posting" /\ call[d].reply > 0 /\ Return(d, "ready")
      /\ marker'[d] = NoMarker /\ \A e \in Devices \ {d} : marker'[e] = marker[e]
    BY DEF Confirm, server, At, TypeInv, MarkerOK
<1>2. call[d].mine \in Stored
    BY <1>1 DEF ReadyInv, RowOf, Row, Posting
<1>3. PICK c, solo, s, r : /\ c = call[d].mine /\ solo = call[d].solo /\ s = state[d]
                           /\ r = recovery[d]
    OBVIOUS
<1>4. /\ Founded(d) /\ Epoch(c) = 1 /\ c # NoState /\ By(c) = d /\ c \in Stored
      /\ Epoch(solo) = 0 /\ By(solo) = d /\ solo # NoState
      /\ built[c].parent = solo /\ Sent \subseteq {c}
      /\ s = c \/ (s = solo /\ r = "catchup")
    BY <1>1, <1>2, <1>3, PostingFacts
<1>5. Row(d, s, NoMarker, NoCall, r, "ready")
    <2>1. NoCall.pc = "idle"
        BY CallFacts
    <2>2. Joined(d, s) /\ Own(d, s, NoMarker, NoCall, r)
        BY <1>4 DEF Joined, Own, OnTheWay, IsSolo
    <2>3. Marked(d, s, NoMarker, NoCall, r) /\ Calling(d, s, NoMarker, NoCall, r)
        BY <1>4, <2>1 DEF Marked, Calling
    <2>4. Posting(d, s, NoCall, r) /\ Reported(s, NoCall, r, "ready")
        BY <1>4, <2>1 DEF Posting, Reported, OnTheWay, IsSolo
    <2> QED
        BY <2>2, <2>3, <2>4 DEF Row
<1>6. Row(d, state'[d], marker'[d], call'[d], recovery'[d], result'[d])
    BY <1>1, <1>3, <1>5, CallFacts
<1> QED
    BY <1>1, <1>6, CallFacts, LocalStep

LEMMA ConflictReady ==
    ASSUME TypeInv, FounderInv, ReadyInv, NEW d \in Devices, Conflict(d)
    PROVE  ReadyInv'
<1>1. /\ UNCHANGED <<built, log, net, welcomes, recovery>>
      /\ call[d].pc = "posting" /\ call[d].reply = -1 /\ Return(d, "failed")
      /\ marker'[d] = NoMarker /\ state'[d] = NoState
      /\ \A e \in Devices \ {d} : marker'[e] = marker[e] /\ state'[e] = state[e]
    BY DEF Conflict, Cleared, server, At, TypeInv, MarkerOK, StateOK
<1>2. Sent = {} /\ Founded(d)
    BY <1>1 DEF ReadyInv, RowOf, Row, Posting
<1>3. PICK r : r = recovery[d]
    OBVIOUS
<1>4. Row(d, NoState, NoMarker, NoCall, r, "failed")
    <2>1. NoCall.pc = "idle"
        BY CallFacts
    <2>2. Joined(d, NoState) /\ Own(d, NoState, NoMarker, NoCall, r)
        BY <1>2 DEF Joined, Own, IsSolo
    <2>3. Marked(d, NoState, NoMarker, NoCall, r) /\ Calling(d, NoState, NoMarker, NoCall, r)
        BY <1>2, <2>1 DEF Marked, Calling
    <2>4. Posting(d, NoState, NoCall, r) /\ Reported(NoState, NoCall, r, "failed")
        BY <2>1 DEF Posting, Reported
    <2> QED
        BY <2>2, <2>3, <2>4 DEF Row
<1>5. Row(d, state'[d], marker'[d], call'[d], recovery'[d], result'[d])
    BY <1>1, <1>3, <1>4, CallFacts
<1> QED
    BY <1>1, <1>5, CallFacts, LocalStep

LEMMA ReconcileReady ==
    ASSUME TypeInv, FounderInv, ReadyInv, NEW d \in Devices, Reconcile(d)
    PROVE  ReadyInv'
<1>1. /\ UNCHANGED <<built, log, net, welcomes, recovery>> /\ call[d].pc = "posting"
    BY DEF Reconcile, server, At
<1>2. CASE state[d] # call[d].mine
    <2>1. Return(d, "failed") /\ UNCHANGED <<state, marker>>
        BY <1>2 DEF Reconcile
    <2>2. call'[d].pc = "idle" /\ result'[d] = "failed"
        BY <2>1, CallFacts
    <2>3. Calling(d, state[d], marker[d], call'[d], recovery'[d])
        BY <1>1, <2>2 DEF Calling, ReadyInv, RowOf, Row
    <2> QED
        BY <1>1, <2>1, <2>2, <2>3, CallFacts, CallOnly
<1>3. CASE state[d] = call[d].mine
    <2>1. /\ Goto(d, "rolledback")
          /\ state'[d] = call[d].solo /\ marker'[d] = NoMarker
          /\ \A e \in Devices \ {d} : marker'[e] = marker[e] /\ state'[e] = state[e]
        BY <1>3 DEF Reconcile, TypeInv, StateOK, MarkerOK
    <2>2. PICK c, solo, r, z, k2 : /\ c = call[d].mine /\ solo = call[d].solo
                                   /\ r = recovery[d] /\ z = result[d] /\ k2 = call'[d]
        OBVIOUS
    <2>3. /\ Founded(d) /\ Epoch(c) = 1 /\ c # NoState
          /\ Epoch(solo) = 0 /\ By(solo) = d /\ solo # NoState
          /\ built[c].parent = solo /\ Sent \subseteq {c}
        BY <1>1, <2>2, PostingFacts
    <2>4. k2.pc = "rolledback"
        BY <2>1, <2>2, CallFacts
    <2>5. Row(d, solo, NoMarker, k2, r, z)
        <3>1. Joined(d, solo) /\ Own(d, solo, NoMarker, k2, r)
            BY <2>3, <2>4 DEF Joined, Own, OnTheWay
        <3>2. Marked(d, solo, NoMarker, k2, r) /\ Calling(d, solo, NoMarker, k2, r)
            BY <2>3, <2>4 DEF Marked, Calling
        <3>3. Posting(d, solo, k2, r)
            BY <2>4 DEF Posting
        <3>4. Reported(solo, k2, r, z)
            <4>1. z = "ready" => Stored # {}
                BY <2>2 DEF ReadyInv, RowOf, Row, Reported
            <4> QED
                BY <2>3, <2>4, <4>1 DEF Reported, IsSolo, OnTheWay
        <3> QED
            BY <3>1, <3>2, <3>3, <3>4 DEF Row
    <2>6. result' = result /\ \A e \in Devices \ {d} : call'[e] = call[e]
        BY <2>1, CallFacts
    <2>7. Row(d, state'[d], marker'[d], call'[d], recovery'[d], result'[d])
        BY <1>1, <2>1, <2>2, <2>5, <2>6
    <2> QED
        BY <1>1, <2>1, <2>6, <2>7, LocalStep
<1> QED
    BY <1>2, <1>3

LEMMA CrashReady ==
    ASSUME TypeInv, FounderInv, ReadyInv, ~CatchUpMayMiss, NEW d \in Devices, Crash(d)
    PROVE  ReadyInv'
<1>1. /\ UNCHANGED <<built, log, net, welcomes, state, marker>>
      /\ call[d].pc # "rolledback" /\ recovery[d] # "catchup"
      /\ call' = [call EXCEPT ![d] = NoCall] /\ result' = [result EXCEPT ![d] = "none"]
      /\ recovery'[d] = "idle" /\ \A e \in Devices \ {d} : recovery'[e] = recovery[e]
    BY DEF Crash, server, At, TypeInv, RecoveryOK
<1>2. /\ call'[d].pc = "idle" /\ result'[d] = "none"
      /\ \A e \in Devices \ {d} : call'[e] = call[e] /\ result'[e] = result[e]
    BY <1>1, CallFacts
<1>3. Calling(d, state[d], marker[d], call'[d], recovery'[d])
    BY <1>1, <1>2 DEF Calling
<1> QED
    BY <1>1, <1>2, <1>3, CallOnly

-----------------------------------------------------------------------------
(* The catch-up of a rollback, which the request behind it cannot overtake *)
(* any more.                                                               *)
LEMMA AskReady ==
    ASSUME TypeInv, FounderInv, ReadyInv, ~CatchUpMayMiss, NEW d \in Devices, AskServer(d),
           OnTheWay(call[d], recovery[d]),
           NEW k2, NEW r2, NEW z2, k2.pc = "idle" \/ k2 = call[d],
           r2 \in {recovery[d], "idle"}, z2 = "ready" => result[d] = "ready"
    PROVE  /\ \A e \in Devices \ {d} : state'[e] = state[e]
           /\ Row(d, state'[d], marker[d], k2, r2, z2)
           /\ Stored # {} /\ state'[d] # NoState => state'[d] \in Stored
<1>1. PICK s, s2, m, k, r : /\ s = state[d] /\ s2 = state'[d] /\ m = marker[d]
                            /\ k = call[d] /\ r = recovery[d]
    OBVIOUS
<1>2. /\ Landed(d) /\ s2 = (IF s = NoState THEN s ELSE Applied(s))
      /\ \A e \in Devices \ {d} : state'[e] = state[e]
    BY <1>1 DEF AskServer, TypeInv, StateOK
<1>3. Row(d, s, m, k, r, result[d])
    BY <1>1 DEF ReadyInv, RowOf
<1>4. Founded(d) /\ m = NoMarker /\ k.pc \in {"idle", "recover", "rolledback"}
    BY <1>1, <1>2, <1>3 DEF Row, Calling, Marked, OnTheWay, Landed, At
<1>5. \A x \in Refs : By(x) = d
    BY <1>4, OneOwner DEF ReadyInv
<1>6. Sent = Stored
    <2>1. net = {}
        BY <1>2, <1>5, SentFacts DEF ReadyInv, Landed, By
    <2> QED
        BY <2>1 DEF Sent
<1>7. s # NoState => s \in Refs /\ Epoch(s) \in {0, 1}
    <2>1. s # NoState => s \in Refs
        BY <1>1 DEF TypeInv, StateOK, MaybeRefs, Refs, NoState
    <2> QED
        BY <2>1, ShapeFacts DEF ReadyInv
<1>8. \A c \in Sent : c \in Refs /\ c # NoState /\ Epoch(c) = 1 /\ Sent \subseteq {c} /\ By(c) = d
    BY <1>5, SentFacts DEF ReadyInv, OneSent
<1>9. \/ s2 = NoState /\ s = NoState /\ Sent = {}
      \/ s2 = s /\ IsSolo(s) /\ Sent = {} /\ By(s) = d
      \/ s2 \in Stored /\ s # NoState
    <2>1. CASE s = NoState
        BY <1>2, <1>3, <1>4, <2>1 DEF Row, Own
    <2>2. CASE s # NoState /\ Epoch(s) = 1
        <3>1. s \in Stored
            BY <1>3, <1>4, <2>2 DEF Row, Own
        <3>2. s2 = s
            BY <1>2, <1>7, <2>2, AppliedFacts DEF ReadyInv
        <3> QED
            BY <2>2, <3>1, <3>2
    <2>3. CASE s # NoState /\ Epoch(s) = 0
        <3>1. IsSolo(s) /\ By(s) = d
            BY <1>5, <1>7, <2>3 DEF IsSolo
        <3>2. \A c \in Sent : built[c].parent = s
            BY <1>1, <1>3, <1>4, <3>1 DEF Row, Own
        <3>3. CASE Stored = {}
            BY <1>2, <1>6, <1>7, <2>3, <3>1, <3>3, AppliedFacts DEF ReadyInv
        <3>4. CASE Stored # {}
            <4>1. PICK c \in Stored : built[c].parent = s
                BY <1>6, <3>2, <3>4
            <4>2. s2 = c
                BY <1>2, <1>7, <2>3, <4>1, AppliedFacts DEF ReadyInv
            <4> QED
                BY <2>3, <4>1, <4>2
        <3> QED
            BY <3>3, <3>4
    <2> QED
        BY <1>7, <2>1, <2>2, <2>3
<1>10. Row(d, s2, m, k2, r2, z2)
    <2>1. k2.pc \in {"idle", "recover", "rolledback"}
        BY <1>1, <1>4
    <2>2. Joined(d, s2)
        BY <1>9 DEF Joined
    <2>3. Own(d, s2, m, k2, r2)
        BY <1>6, <1>8, <1>9 DEF Own, IsSolo
    <2>4. Marked(d, s2, m, k2, r2) /\ Posting(d, s2, k2, r2)
        BY <1>4, <2>1 DEF Marked, Posting
    <2>5. Calling(d, s2, m, k2, r2)
        <3>1. k2.pc = "rolledback" => s # NoState
            BY <1>1, <1>3 DEF Row, Calling
        <3>2. s # NoState => s2 # NoState
            BY <1>6, <1>8, <1>9
        <3> QED
            BY <1>4, <2>1, <3>1, <3>2 DEF Calling
    <2>6. Reported(s2, k2, r2, z2)
        <3>1. z2 = "ready" => Stored # {} /\ s # NoState
            <4>1. NoState \notin Stored
                BY <1>6, <1>8
            <4> QED
                BY <1>3, <4>1 DEF Row, Reported, IsSolo
        <3>2. Stored # {} /\ s # NoState => s2 \in Stored
            BY <1>6, <1>9
        <3> QED
            BY <3>1, <3>2 DEF Reported
    <2> QED
        BY <2>2, <2>3, <2>4, <2>5, <2>6 DEF Row
<1>11. Stored # {} /\ s2 # NoState => s2 \in Stored
    BY <1>6, <1>9
<1> QED
    BY <1>1, <1>2, <1>10, <1>11

LEMMA ReconcileServerReady ==
    ASSUME TypeInv, FounderInv, ReadyInv, ~CatchUpMayMiss, NEW d \in Devices,
           ReconcileWithServer(d)
    PROVE  ReadyInv'
<1>1. /\ UNCHANGED <<built, log, net, welcomes, marker, recovery>>
      /\ call[d].pc = "rolledback" /\ AskServer(d) /\ Return(d, "failed")
    BY DEF ReconcileWithServer, server, At
<1>2. /\ call'[d].pc = "idle" /\ result'[d] = "failed"
      /\ \A e \in Devices \ {d} : call'[e] = call[e] /\ result'[e] = result[e]
    BY <1>1, CallFacts
<1>3. OnTheWay(call[d], recovery[d])
    BY <1>1 DEF OnTheWay
<1>4. PICK k2, r2, z2 : k2 = call'[d] /\ r2 = recovery[d] /\ z2 = result'[d]
    OBVIOUS
<1>5. /\ \A e \in Devices \ {d} : state'[e] = state[e]
      /\ Row(d, state'[d], marker[d], k2, r2, z2)
    BY <1>1, <1>2, <1>3, <1>4, AskReady
<1>6. Row(d, state'[d], marker'[d], call'[d], recovery'[d], result'[d])
    BY <1>1, <1>4, <1>5
<1> QED
    BY <1>1, <1>2, <1>5, <1>6, LocalStep

LEMMA RecoverServerReady ==
    ASSUME TypeInv, FounderInv, ReadyInv, ~CatchUpMayMiss, NEW d \in Devices,
           RecoverFromServer(d)
    PROVE  /\ ReadyInv'
           /\ Stored # {} /\ state'[d] # NoState => state'[d] \in Stored
<1>1. /\ UNCHANGED <<built, log, net, welcomes, marker, call, result>>
      /\ recovery[d] = "catchup" /\ AskServer(d) /\ recovery'[d] = "idle"
      /\ \A e \in Devices \ {d} : recovery'[e] = recovery[e]
    BY DEF RecoverFromServer, server, TypeInv, RecoveryOK
<1>2. OnTheWay(call[d], recovery[d])
    BY <1>1 DEF OnTheWay
<1>3. PICK k2, r2, z2 : k2 = call[d] /\ r2 = "idle" /\ z2 = result[d]
    OBVIOUS
<1>4. /\ \A e \in Devices \ {d} : state'[e] = state[e]
      /\ Row(d, state'[d], marker[d], k2, r2, z2)
      /\ Stored # {} /\ state'[d] # NoState => state'[d] \in Stored
    <2>1. /\ AskServer(d) /\ (k2.pc = "idle" \/ k2 = call[d]) /\ r2 \in {recovery[d], "idle"}
          /\ z2 = "ready" => result[d] = "ready"
        BY <1>1, <1>3
    <2> QED
        BY <1>2, <2>1, AskReady
<1>5. Row(d, state'[d], marker'[d], call'[d], recovery'[d], result'[d])
    BY <1>1, <1>3, <1>4
<1> QED
    BY <1>1, <1>4, <1>5, LocalStep

(* The recovery of a marker. *)
LEMMA ResolveReady ==
    ASSUME TypeInv, FounderInv, ReadyInv, NEW d \in Devices,
           RecoverPendingGenesises(d) \/ ResolveMarker(d)
    PROVE  ReadyInv'
<1>1. /\ UNCHANGED <<built, log, net, welcomes, call, result>>
      /\ recovery[d] # "catchup"
      /\ \A e \in Devices \ {d} : UNCHANGED <<state[e], marker[e], recovery[e]>>
    BY DEF RecoverPendingGenesises, ResolveMarker, server, TypeInv, RecoveryOK, StateOK, MarkerOK
<1>2. PICK s, m, k, r, z : /\ s = state[d] /\ m = marker[d] /\ k = call[d]
                           /\ r = recovery[d] /\ z = result[d]
    OBVIOUS
<1>3. Row(d, s, m, k, r, z)
    BY <1>2 DEF ReadyInv, RowOf
<1>4. ASSUME NEW r2, r2 # "catchup", k.pc = "recover" => m = NoMarker \/ r2 = "resolve"
      PROVE  Row(d, s, m, k, r2, z)
    <2>1. OnTheWay(k, r2) <=> OnTheWay(k, r)
        BY <1>1, <1>2, <1>4 DEF OnTheWay
    <2>2. Joined(d, s) /\ Own(d, s, m, k, r2) /\ Reported(s, k, r2, z)
        BY <1>3, <2>1 DEF Row, Own, Reported
    <2>3. Marked(d, s, m, k, r2) /\ Calling(d, s, m, k, r2)
        BY <1>3, <1>4 DEF Row, Marked, Calling
    <2>4. Posting(d, s, k, r2)
        BY <1>1, <1>2, <1>3 DEF Row, Posting
    <2> QED
        BY <2>2, <2>3, <2>4 DEF Row
<1>5. CASE RecoverPendingGenesises(d)
    <2>1. recovery'[d] = "resolve" /\ UNCHANGED <<state, marker>>
        BY <1>5 DEF RecoverPendingGenesises, TypeInv, RecoveryOK
    <2>2. Row(d, s, m, k, "resolve", z)
        BY <1>4
    <2>3. Row(d, state'[d], marker'[d], call'[d], recovery'[d], result'[d])
        BY <1>1, <1>2, <2>1, <2>2
    <2> QED
        BY <1>1, <2>3, LocalStep
<1>6. m # NoMarker => Live(d)
    BY <1>2, <1>3 DEF Row, Marked, Live
<1>7. CASE ResolveMarker(d) /\ m = NoMarker
    <2>1. ~Live(d)
        BY <1>2, <1>7 DEF Live
    <2>2. recovery'[d] = "idle" /\ UNCHANGED <<state>> /\ marker'[d] = NoMarker
        BY <1>7, <2>1 DEF ResolveMarker, TypeInv, RecoveryOK, MarkerOK
    <2>3. Row(d, s, m, k, "idle", z)
        BY <1>4, <1>7
    <2>4. Row(d, state'[d], marker'[d], call'[d], recovery'[d], result'[d])
        BY <1>1, <1>2, <1>7, <2>2, <2>3
    <2> QED
        BY <1>1, <2>4, LocalStep
<1>8. CASE ResolveMarker(d) /\ m # NoMarker
    <2>1. /\ recovery[d] = "resolve" /\ recovery'[d] = "catchup"
          /\ state'[d] = m.prev /\ marker'[d] = NoMarker
        BY <1>2, <1>6, <1>8 DEF ResolveMarker, TypeInv, StateOK, MarkerOK, RecoveryOK
    <2>2. PICK s2 : s2 = m.prev
        OBVIOUS
    <2>3. /\ Founded(d) /\ s # NoState /\ Epoch(s) = 1 /\ built[s].parent = s2
          /\ k.pc \in {"idle", "recover", "posting"} /\ Sent \subseteq {s}
        BY <1>3, <1>8, <2>2 DEF Row, Marked, Own
    <2>4. s \in Refs
        BY <1>2, <2>3 DEF TypeInv, StateOK, MaybeRefs, Refs, NoState
    <2>5. s2 # NoState /\ Epoch(s2) = 0 /\ By(s2) = d
        <3>1. s2 \in Refs /\ Epoch(s2) = 0
            BY <2>3, <2>4 DEF ReadyInv, Shape
        <3> QED
            BY <2>3, <3>1, OneOwner DEF ReadyInv, Refs, NoState
    <2>6. Row(d, s2, NoMarker, k, "catchup", z)
        <3>1. Joined(d, s2) /\ Own(d, s2, NoMarker, k, "catchup")
            BY <2>3, <2>5 DEF Joined, Own, OnTheWay
        <3>2. Marked(d, s2, NoMarker, k, "catchup") /\ Calling(d, s2, NoMarker, k, "catchup")
            BY <2>3 DEF Marked, Calling
        <3>3. Posting(d, s2, k, "catchup")
            BY <1>2, <1>3, <2>1, <2>3 DEF Row, Posting
        <3>4. Reported(s2, k, "catchup", z)
            <4>1. z = "ready" => Stored # {}
                BY <1>3 DEF Row, Reported
            <4> QED
                BY <2>5, <4>1 DEF Reported, IsSolo, OnTheWay
        <3> QED
            BY <3>1, <3>2, <3>3, <3>4 DEF Row
    <2>7. Row(d, state'[d], marker'[d], call'[d], recovery'[d], result'[d])
        BY <1>1, <1>2, <2>1, <2>2, <2>6
    <2> QED
        BY <1>1, <2>7, LocalStep
<1> QED
    BY <1>5, <1>7, <1>8

(* The device's own commit, pushed back to it after a rollback. *)
LEMMA CommitReady ==
    ASSUME TypeInv, FounderInv, ReadyInv, NEW d \in Devices, ReceiveCommit(d)
    PROVE  ReadyInv'
<1>1. PICK c \in Stored : built[c].parent = state[d] /\ state' = [state EXCEPT ![d] = c]
    BY DEF ReceiveCommit
<1>2. /\ UNCHANGED <<built, log, net, welcomes, marker, call, recovery, result>>
      /\ state[d] # NoState
      /\ state'[d] = c /\ \A e \in Devices \ {d} : state'[e] = state[e]
    BY <1>1 DEF ReceiveCommit, server, TypeInv, StateOK
<1>3. PICK s, m, k, r, z : /\ s = state[d] /\ m = marker[d] /\ k = call[d]
                           /\ r = recovery[d] /\ z = result[d]
    OBVIOUS
<1>4. Row(d, s, m, k, r, z)
    BY <1>3 DEF ReadyInv, RowOf
<1>5. c \in Sent /\ c # NoState /\ Epoch(c) = 1 /\ c \in Refs /\ Sent \subseteq {c}
    BY SentFacts DEF ReadyInv, OneSent
<1>6. IsSolo(s) /\ s # NoState /\ Epoch(s) = 0 /\ s \notin Stored
    <2>1. Epoch(s) = 0
        BY <1>1, <1>3, <1>5 DEF ReadyInv, Shape
    <2> QED
        BY <1>2, <1>3, <2>1, SentFacts DEF ReadyInv, IsSolo
<1>7. Founded(d)
    <2>1. By(s) = d
        BY <1>4, <1>6 DEF Row, Joined
    <2> QED
        BY <1>3, <1>6, <2>1, HeldFacts
<1>8. OnTheWay(k, r) /\ m = NoMarker
    BY <1>4, <1>5, <1>6, <1>7 DEF Row, Own, Marked
<1>9. Row(d, c, m, k, r, z)
    <2>1. Joined(d, c) /\ Own(d, c, m, k, r) /\ Reported(c, k, r, z)
        BY <1>5 DEF Joined, Own, Reported, IsSolo
    <2>2. Marked(d, c, m, k, r)
        BY <1>8 DEF Marked
    <2>3. Calling(d, c, m, k, r)
        BY <1>4, <1>5, <1>7, <1>8 DEF Row, Calling, OnTheWay
    <2>4. Posting(d, c, k, r)
        BY <1>4, <1>5 DEF Row, Posting
    <2> QED
        BY <2>1, <2>2, <2>3, <2>4 DEF Row
<1>10. Row(d, state'[d], marker'[d], call'[d], recovery'[d], result'[d])
    BY <1>2, <1>3, <1>9
<1> QED
    BY <1>2, <1>10, LocalStep

LEMMA ReadyInit == Init => ReadyInv /\ Unanswered
<1> SUFFICES ASSUME Init PROVE ReadyInv /\ Unanswered
    OBVIOUS
<1>1. Refs = {} /\ log = <<>> /\ Len(log) = 0 /\ net = {} /\ welcomes = {}
    BY DEF Init, Refs
<1>2. Stored = {} /\ Sent = {}
    BY <1>1 DEF Stored, Sent
<1>3. Shape /\ OneSent /\ Invitations
    BY <1>1, <1>2 DEF Shape, OneSent, Invitations
<1>4. ASSUME NEW d \in Devices PROVE RowOf(d) /\ call[d].reply = 0
    <2>1. /\ state[d] = NoState /\ marker[d] = NoMarker /\ call[d] = NoCall
          /\ recovery[d] = "idle" /\ result[d] = "none"
        BY DEF Init
    <2>2. NoCall.pc = "idle" /\ NoCall.reply = 0
        BY DEF NoCall
    <2>3. ~Founded(d)
        BY <1>1 DEF Founded
    <2> QED
        BY <2>1, <2>2, <2>3 DEF RowOf, Row, Joined, Own, Marked, Calling, Posting, Reported
<1> QED
    BY <1>3, <1>4 DEF ReadyInv, Unanswered

(* The claim is not given away, the catch-up of a rollback sees the commit *)
(* the server has, and no call begins while a recovery asks for it.        *)
Steady == ~Takeover /\ ~CatchUpMayMiss /\ ~CallsMayIntrude

LEMMA ReadyStep ==
    ASSUME Steady
    PROVE  TypeInv /\ FounderInv /\ Unanswered /\ ReadyInv /\ [Next]_vars => ReadyInv'
<1> SUFFICES ASSUME TypeInv, FounderInv, Unanswered, ReadyInv, [Next]_vars PROVE ReadyInv'
    OBVIOUS
<1>1. ~CatchUpMayMiss /\ ~CallsMayIntrude
    BY DEF Steady
<1>2. CASE UNCHANGED vars
    <2>1. /\ UNCHANGED <<built, state, marker, call, recovery, result>>
          /\ Stored' = Stored /\ Sent' = Sent
        BY <1>2 DEF vars, Stored, Sent
    <2>2. OneSent' /\ Invitations'
        BY <1>2, <2>1 DEF vars, ReadyInv, OneSent, Invitations, Epoch, By
    <2> QED
        BY <2>1, <2>2, ServerStep
<1>3. ASSUME NEW d \in Devices, Begin(d) \/ Crash(d) \/ RetryPost(d) \/ Recover(d)
                                \/ ReceiveWelcome(d) \/ ReceiveCommit(d)
      PROVE  ReadyInv'
    BY <1>1, <1>3, BeginReady, CrashReady, RetryReady, ResolveReady, RecoverServerReady,
        WelcomeReady, CommitReady DEF Recover
<1>4. ASSUME NEW d \in Devices, Ensure(d)
      PROVE  ReadyInv'
    BY <1>1, <1>4, AfterReady, HealReady, CatchUpReady, RoleReady, PollReady, RoundReady,
        LookReady, CreateReady, LoadReady, WriteReady, ConfirmReady, ConflictReady,
        ReconcileReady, ReconcileServerReady DEF Ensure
<1>5. ASSUME NEW c \in net, Receive(c) \/ LoseRequest(c)
      PROVE  ReadyInv'
    BY <1>5, ReceiveReady, LoseReady
<1> QED
    BY <1>2, <1>3, <1>4, <1>5 DEF Next

LEMMA SteadyInv ==
    ASSUME Steady
    PROVE  Spec => [](TypeInv /\ FounderInv /\ Unanswered /\ ReadyInv)
<1>1. ~Takeover
    BY DEF Steady
<1>2. TypeInv /\ FounderInv /\ [Next]_vars => FounderInv'
    BY <1>1, FounderStep
<1>3. TypeInv /\ FounderInv /\ Unanswered /\ ReadyInv /\ [Next]_vars => ReadyInv'
    BY ReadyStep
<1> QED
    BY <1>2, <1>3, TypeInit, FounderInit, ReadyInit, TypeStep, UnansweredStep, PTL DEF Spec

(* A call that reported success and left nothing to recover left its       *)
(* device in the group the server holds: through crashes, lost and         *)
(* repeated requests, forced 409s and answers for another commit of the    *)
(* epoch (ensureGroupReady and its recoveries).                            *)
THEOREM ReadyMeansStored == Steady => (Spec => []ReadyIsStored)
<1> SUFFICES ASSUME Steady PROVE Spec => []ReadyIsStored
    OBVIOUS
<1>1. ReadyInv => ReadyIsStored
    BY DEF ReadyInv, RowOf, Row, Reported, OnTheWay, ReadyIsStored, Quiet, At
<1> QED
    BY <1>1, SteadyInv, PTL

(* A group the server does not know is marked, with the solo state to go   *)
(* back to (the optimistic write of phase 2).                              *)
THEOREM PhantomsAreMarked == Steady => (Spec => []PhantomIsMarked)
<1> SUFFICES ASSUME Steady PROVE Spec => []PhantomIsMarked
    OBVIOUS
<1>1. TypeInv /\ ReadyInv => PhantomIsMarked
    <2> SUFFICES ASSUME TypeInv, ReadyInv, NEW d \in Devices,
                        Group(state[d]), state[d] \notin Stored
                 PROVE  Live(d) /\ marker[d].prev = built[state[d]].parent
        BY DEF PhantomIsMarked
    <2>1. state[d] # NoState
        BY DEF Group
    <2>2. marker[d] # NoMarker
        BY <2>1, HeldFacts
    <2> QED
        BY <2>2 DEF ReadyInv, RowOf, Row, Marked, Live
<1> QED
    BY <1>1, SteadyInv, PTL

(* A founder alone with its solo state, and nothing under way, was not     *)
(* overtaken by a commit of its own (the rollbacks and their catch-ups).   *)
THEOREM SolosAreUnfounded == Steady => (Spec => []SoloIsUnfounded)
<1> SUFFICES ASSUME Steady PROVE Spec => []SoloIsUnfounded
    OBVIOUS
<1>1. TypeInv /\ ReadyInv => SoloIsUnfounded
    <2> SUFFICES ASSUME TypeInv, ReadyInv, NEW d \in Devices, Quiet(d), Solo(state[d])
                 PROVE  Stored \cup net = {}
        BY DEF SoloIsUnfounded
    <2>1. state[d] # NoState /\ ~Group(state[d])
        BY DEF Solo, Group
    <2>2. IsSolo(state[d]) /\ Founded(d)
        BY <2>1, HeldFacts
    <2>3. ~OnTheWay(call[d], recovery[d])
        BY DEF Quiet, At, OnTheWay
    <2> QED
        BY <2>2, <2>3 DEF ReadyInv, RowOf, Row, Own, Sent
<1> QED
    BY <1>1, SteadyInv, PTL

(* A recovery that asked a server that has a group ends in that group      *)
(* (recoverOnePendingGenesis).                                             *)
THEOREM RecoveriesAdopt == Steady => (Spec => RecoveryAdopts)
<1> SUFFICES ASSUME Steady PROVE Spec => RecoveryAdopts
    OBVIOUS
<1>1. TypeInv /\ FounderInv /\ ReadyInv /\ [Next]_vars =>
        \A d \in Devices :
            recovery[d] = "catchup" /\ recovery'[d] = "idle" /\ log # <<>> /\ state'[d] # NoState
                => state'[d] \in Stored
    <2> SUFFICES ASSUME TypeInv, FounderInv, ReadyInv, [Next]_vars, NEW d \in Devices,
                        recovery[d] = "catchup", recovery'[d] = "idle", log # <<>>,
                        state'[d] # NoState
                 PROVE  state'[d] \in Stored
        OBVIOUS
    <2>1. Stored # {}
        <3>1. Len(log) # 0
            BY DEF TypeInv, LogOK
        <3>2. 1 \in 1 .. Len(log)
            BY <3>1 DEF TypeInv, LogOK
        <3>3. log[1] \in Stored
            BY <3>2 DEF Stored
        <3> QED
            BY <3>3
    <2>2. RecoverFromServer(d)
        <3>1. ~CatchUpMayMiss
            BY DEF Steady
        <3>2. \A e \in Devices : RecoverFromServer(e) => e = d
            BY DEF RecoverFromServer, TypeInv, RecoveryOK
        <3>3. ~UNCHANGED recovery
            OBVIOUS
        <3>4. ASSUME NEW e \in Devices, Ensure(e) PROVE UNCHANGED recovery
            BY <3>4 DEF Ensure, AfterRecovery, HealFromWelcome, CatchUpConfirmed, AskRole, Poll,
                NextRound, Throw, Precheck, LookAgain, CreateSolo, LoadSolo, AddParticipants,
                WriteGenesis, Confirm, Conflict, Reconcile, ReconcileWithServer
        <3>5. ASSUME NEW e \in Devices, RetryPost(e) \/ ReceiveWelcome(e) \/ ReceiveCommit(e)
              PROVE  UNCHANGED recovery
            BY <3>5 DEF RetryPost, ReceiveWelcome, ReceiveCommit
        <3>6. ASSUME NEW c \in net, Receive(c) \/ LoseRequest(c) PROVE UNCHANGED recovery
            BY <3>6 DEF Receive, LoseRequest
        <3>7. ASSUME NEW e \in Devices, Begin(e) \/ RecoverPendingGenesises(e) \/ ResolveMarker(e)
              PROVE  FALSE
            <4>1. recovery'[d] = recovery[d] \/ e = d
                BY <3>7 DEF Begin, RecoverPendingGenesises, ResolveMarker, TypeInv, RecoveryOK
            <4>2. recovery[e] # "catchup" \/ UNCHANGED recovery \/ recovery'[e] = recovery[e]
                BY <3>7 DEF Begin, RecoverPendingGenesises, ResolveMarker, TypeInv, RecoveryOK
            <4> QED
                BY <4>1, <4>2
        <3>8. ASSUME NEW e \in Devices, Crash(e) PROVE FALSE
            <4>1. recovery'[d] = recovery[d] \/ e = d
                BY <3>8 DEF Crash, TypeInv, RecoveryOK
            <4>2. recovery[e] # "catchup"
                BY <3>1, <3>8 DEF Crash
            <4> QED
                BY <4>1, <4>2
        <3> QED
            BY <3>2, <3>3, <3>4, <3>5, <3>6, <3>7, <3>8 DEF Next, Recover, vars
    <2>3. Stored # {} /\ state'[d] # NoState => state'[d] \in Stored
        BY <2>2, RecoverServerReady DEF Steady
    <2> QED
        BY <2>1, <2>3
<1> QED
    BY <1>1, SteadyInv, PTL DEF Spec, RecoveryAdopts

=============================================================================
