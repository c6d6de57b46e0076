------------------------------- MODULE Genesis -------------------------------
(***************************************************************************)
(* How a conversation gets its MLS group (mls.service.ts).  The server     *)
(* names one device the initiator.  That device creates a group with       *)
(* itself alone and stores it (phase 1), then adds the first participants: *)
(* it writes the new state together with a crash marker and posts the      *)
(* commit with the participants' Welcomes (phase 2).  Everyone else waits  *)
(* for a Welcome.  A rollback to the solo state followed by a catch-up     *)
(* decides, after a failure or a crash, whether the server has the commit. *)
(*                                                                         *)
(* A group state is known by its index in built; 0 is no state.  A commit  *)
(* is known by the state it produces.                                      *)
(***************************************************************************)
EXTENDS Integers, Sequences, FiniteSetsExt

CONSTANTS
    Devices,         \* the devices of the conversation's members
    Invites,         \* the sets of devices a device may be given key packages of
    MaxStates,       \* bound: group states built by all devices together
    MaxRounds,       \* rounds of polling of a joiner (5 in the code)
    Takeover,        \* the server may give the initiator's claim to another
    CatchUpMayMiss,  \* the catch-up after a rollback may not see the commit
    CallsMayIntrude  \* a call may begin while a recovery asks the server

ASSUME ConstantsAssumption ==
    /\ Invites \in [Devices -> SUBSET ((SUBSET Devices) \ {{}})]
    /\ MaxStates \in Nat
    /\ MaxRounds \in Nat \ {0}
    /\ {Takeover, CatchUpMayMiss, CallsMayIntrude} \subseteq BOOLEAN

(* A device invites those of the other participants, never itself. *)
ASSUME InvitesAssumption ==
    /\ IsFiniteSet(Devices)
    /\ \A d \in Devices : \A others \in Invites[d] : d \notin others

VARIABLES
    built,      \* every group state ever built, in order of construction
    log,        \* the server's commits: log[e + 1] leads from epoch e to e + 1
    claim,      \* mlsInitDeviceId: the devices that hold the claim, at most one
    net,        \* commits posted and not yet received by the server
    welcomes,   \* Welcomes the server stored with a commit
    state,      \* groupStates[conversationId] of each device
    marker,     \* pendingGenesises[conversationId] of each device
    digests,    \* processedWelcomeDigests of each device
    call,       \* the ensureGroupReady call under way on each device
    recovery,   \* pendingGenesisRecoveries: the one shared recovery
    result      \* how the last call of each device ended

vars == <<built, log, claim, net, welcomes, state, marker, digests, call, recovery, result>>
server == <<log, claim, net, welcomes>>

-----------------------------------------------------------------------------
(* Group states. *)

States == 1 .. MaxStates
NoState == 0

Epoch(s) == built[s].epoch
Members(s) == built[s].members
Solo(s) == s # NoState /\ Cardinality(Members(s)) <= 1
Group(s) == s # NoState /\ ~Solo(s)

Stored == {log[i] : i \in 1 .. Len(log)}

NoMarker == [newEpoch |-> -1, prev |-> NoState]
Live(d) == /\ marker[d] # NoMarker
           /\ state[d] # NoState
           /\ Epoch(state[d]) = marker[d].newEpoch

(* reply: 0 while none arrived, -1 for a 409, otherwise the commit that    *)
(* the server holds for that epoch.                                        *)
NoCall == [pc |-> "idle", solo |-> NoState, mine |-> NoState,
           reply |-> 0, retried |-> FALSE, round |-> 0]

At(d, pc) == call[d].pc = pc

Quiet(d) == At(d, "idle") /\ recovery[d] = "idle" /\ marker[d] = NoMarker

(* The commits of the log that apply one after the other on state s, as    *)
(* catchUpMissedCommits applies them; MLS accepts a commit only on the     *)
(* very state it was built from.                                           *)
Applied(s) ==
    LET Reached == {i \in 1 .. Len(log) :
            \E f \in 1 .. i : /\ built[log[f]].parent = s
                              /\ \A k \in f + 1 .. i : built[log[k]].parent = log[k - 1]}
    IN  IF Reached = {} THEN s ELSE log[Max(Reached)]

(* The commit of the server for the epoch of s, or a later one, is refused.*)
Broken(s) == Epoch(Applied(s)) < Len(log)

-----------------------------------------------------------------------------
Init ==
    /\ built = <<>>
    /\ log = <<>>
    /\ claim = {}
    /\ net = {}
    /\ welcomes = {}
    /\ state = [d \in Devices |-> NoState]
    /\ marker = [d \in Devices |-> NoMarker]
    /\ digests = [d \in Devices |-> {}]
    /\ call = [d \in Devices |-> NoCall]
    /\ recovery = [d \in Devices |-> "idle"]
    /\ result = [d \in Devices |-> "none"]

Goto(d, pc) == call' = [call EXCEPT ![d].pc = pc] /\ UNCHANGED result

Return(d, r) == /\ call' = [call EXCEPT ![d] = NoCall]
                /\ result' = [result EXCEPT ![d] = r]

-----------------------------------------------------------------------------
(* Welcomes. *)

Fresh(d) == {w \in welcomes : w.to = d /\ w.state \notin digests[d]}

Obsolete(d, w) == state[d] # NoState /\ Epoch(w.state) < Epoch(state[d])

(* processWelcomeForConversation. *)
Process(d, w) ==
    /\ w \in Fresh(d)
    /\ state' = IF Obsolete(d, w) THEN state ELSE [state EXCEPT ![d] = w.state]
    /\ digests' = [digests EXCEPT ![d] = @ \cup {w.state}]

(* fetchAndProcessPendingWelcome: A when it joined; B when there was       *)
(* nothing to join, or the request failed, which every caller ignores.     *)
FetchWelcome(d, A, B) ==
    \/ \E w \in Fresh(d) : Process(d, w) /\ IF Obsolete(d, w) THEN B ELSE A
    \/ B /\ UNCHANGED <<state, digests>>

(* The same, pushed by the socket. *)
ReceiveWelcome(d) ==
    /\ \E w \in Fresh(d) : Process(d, w)
    /\ UNCHANGED <<built, server, marker, call, recovery, result>>

(* A commit pushed by the socket. *)
ReceiveCommit(d) ==
    /\ state[d] # NoState
    /\ \E c \in Stored : /\ built[c].parent = state[d]
                         /\ state' = [state EXCEPT ![d] = c]
    /\ UNCHANGED <<built, server, marker, digests, call, recovery, result>>

-----------------------------------------------------------------------------
(* ensureGroupReady: what the device already has. *)

(* A group whose marker is still there is never taken for confirmed.  A    *)
(* call that finds no marker does not look for a recovery under way.       *)
Begin(d) ==
    /\ At(d, "idle")
    /\ CallsMayIntrude \/ recovery[d] # "catchup"
    /\ IF state[d] = NoState
       THEN Goto(d, "role") /\ UNCHANGED recovery
       ELSE IF marker[d] # NoMarker
       THEN /\ Goto(d, "recover")
            /\ recovery' = [recovery EXCEPT ![d] = IF @ = "idle" THEN "resolve" ELSE @]
       ELSE Goto(d, IF Group(state[d]) THEN "confirmed" ELSE "phase2") /\ UNCHANGED recovery
    /\ UNCHANGED <<built, server, state, marker, digests>>

AfterRecovery(d) ==
    /\ At(d, "recover")
    /\ recovery[d] = "idle"
    /\ IF state[d] = NoState
       THEN Return(d, "failed")
       ELSE Goto(d, IF Group(state[d]) THEN "confirmed" ELSE "phase2")
    /\ UNCHANGED <<built, server, state, marker, digests, recovery>>

(* A confirmed member: a pending Welcome means the group was reset. *)
HealFromWelcome(d) ==
    /\ At(d, "confirmed")
    /\ FetchWelcome(d, Return(d, "ready"), Goto(d, "behind"))
    /\ UNCHANGED <<built, server, marker, recovery>>

(* Otherwise it catches up, and a failure of that is a failure of the call.*)
CatchUpConfirmed(d) ==
    /\ At(d, "behind")
    /\ state' = [state EXCEPT ![d] = IF @ = NoState THEN @ ELSE Applied(@)]
    /\ Return(d, IF state[d] # NoState /\ Broken(state[d]) THEN "failed" ELSE "ready")
    /\ UNCHANGED <<built, server, marker, digests, recovery>>

-----------------------------------------------------------------------------
(* The role, and the joiner's polling. *)

\* A slip: the claim is not looked at.
EveryoneInitiates(d) == log = <<>>

(* The server's answer (external): one initiator until the conversation is *)
(* founded, although it may give up on one that stays away.                *)
Initiates(d) == log = <<>> /\ (Takeover \/ claim \subseteq {d})

AskRole(d) ==
    /\ At(d, "role")
    /\ \/ /\ Initiates(d)
          /\ claim' = {d}
          /\ Goto(d, "precheck")
       \/ /\ ~Initiates(d)
          /\ Goto(d, "poll")
          /\ UNCHANGED claim
    /\ UNCHANGED <<built, log, net, welcomes, state, marker, digests, recovery>>

(* One round of polls, each of them a look at the storage and a request. *)
Poll(d) ==
    /\ At(d, "poll")
    /\ IF state[d] # NoState
       THEN Return(d, "ready") /\ UNCHANGED <<state, digests>>
       ELSE FetchWelcome(d, Return(d, "ready"), Goto(d, "round"))
    /\ UNCHANGED <<built, server, marker, recovery>>

NextRound(d) ==
    /\ At(d, "round")
    /\ IF call[d].round + 1 >= MaxRounds
       THEN Return(d, "failed")
       ELSE /\ call' = [call EXCEPT ![d].pc = "role", ![d].round = @ + 1]
            /\ UNCHANGED result
    /\ UNCHANGED <<built, server, state, marker, digests, recovery>>

(* A request or the storage fails, no contact has a key package, or the    *)
(* joiner is told to stop: the call rejects and what is stored stays.      *)
Throw(d) ==
    /\ call[d].pc \in {"behind", "role", "poll", "write", "consume"}
    /\ Return(d, "failed")
    /\ UNCHANGED <<built, server, state, marker, digests, recovery>>

-----------------------------------------------------------------------------
(* Phase 1. *)

Precheck(d) ==
    /\ At(d, "precheck")
    /\ FetchWelcome(d, Return(d, "ready"), Goto(d, "create"))
    /\ UNCHANGED <<built, server, marker, recovery>>

(* The last look before createGroup, outside the storage lock. *)
LookAgain(d) ==
    /\ At(d, "create")
    /\ IF Group(state[d])
       THEN Return(d, "ready")
       ELSE Goto(d, IF state[d] = NoState THEN "write" ELSE "phase2")
    /\ UNCHANGED <<built, server, state, marker, digests, recovery>>

(* The write does not replace a state that arrived in between. *)
CreateSolo(d) ==
    /\ At(d, "write")
    /\ IF state[d] # NoState
       THEN UNCHANGED <<built, state>>
       ELSE /\ Len(built) < MaxStates
            /\ built' = Append(built, [by |-> d, epoch |-> 0, parent |-> NoState,
                                       members |-> {d}])
            /\ state' = [state EXCEPT ![d] = Len(built')]
    /\ Goto(d, "phase2")
    /\ UNCHANGED <<server, marker, digests, recovery>>

-----------------------------------------------------------------------------
(* Phase 2. *)

LoadSolo(d) ==
    /\ At(d, "phase2")
    /\ IF state[d] = NoState
       THEN Return(d, "failed")
       ELSE /\ call' = [call EXCEPT ![d].pc = "consume", ![d].solo = state[d]]
            /\ UNCHANGED result
    /\ UNCHANGED <<built, server, state, marker, digests, recovery>>

MarkerFor(d) == [newEpoch |-> Epoch(call[d].solo) + 1, prev |-> call[d].solo]

(* The optimistic write, by compare-and-swap on the state that was loaded: *)
(* a call that finds another one returns as if it had succeeded.           *)
WriteGenesis(d, targets) ==
    LET solo == call[d].solo
        c == Len(built) + 1
    IN  /\ At(d, "consume")
        /\ IF state[d] # solo
           THEN Return(d, "ready") /\ UNCHANGED <<built, net, state, marker>>
           ELSE /\ Len(built) < MaxStates
                /\ built' = Append(built, [by |-> d, epoch |-> Epoch(solo) + 1, parent |-> solo,
                                           members |-> Members(solo) \cup targets])
                /\ state' = [state EXCEPT ![d] = c]
                /\ marker' = [marker EXCEPT ![d] = MarkerFor(d)]
                /\ net' = net \cup {c}
                /\ call' = [call EXCEPT ![d].pc = "posting", ![d].mine = c]
                /\ UNCHANGED result
        /\ UNCHANGED <<log, claim, welcomes, digests, recovery>>

AddParticipants(d) == \E targets \in Invites[d] : WriteGenesis(d, targets)

-----------------------------------------------------------------------------
(* The network and the server (external). *)

Answer(c, r) ==
    call' = [d \in Devices |-> IF At(d, "posting") /\ call[d].mine = c
                               THEN [call[d] EXCEPT !.reply = r]
                               ELSE call[d]]

(* Stored with its Welcomes, in one transaction; the claim is released. *)
ServerStore(c) ==
    /\ Epoch(c) = Len(log) + 1
    /\ log' = Append(log, c)
    /\ welcomes' = welcomes \cup
          {[to |-> t, state |-> c] : t \in Members(c) \ Members(built[c].parent)}
    /\ claim' = claim \ {built[c].by}
    /\ Answer(c, c)

(* A later commit for the epoch: answered with the stored one. *)
ServerKeepsWinner(c) ==
    /\ Epoch(c) <= Len(log)
    /\ Answer(c, log[Epoch(c)])
    /\ UNCHANGED <<log, claim, welcomes>>

(* A 409: an epoch beyond the next one, and whatever else a server may     *)
(* refuse; the tests force one on a genesis that would fit.                *)
ServerRejects(c) ==
    /\ Epoch(c) > Len(log)
    /\ Answer(c, -1)
    /\ UNCHANGED <<log, claim, welcomes>>

Receive(c) ==
    /\ c \in net
    /\ net' = net \ {c}
    /\ ServerStore(c) \/ ServerKeepsWinner(c) \/ ServerRejects(c)
    /\ UNCHANGED <<built, state, marker, digests, recovery, result>>

LoseRequest(c) ==
    /\ c \in net
    /\ net' = net \ {c}
    /\ UNCHANGED <<built, log, claim, welcomes, state, marker, digests, call, recovery, result>>

(* ApiClientService.request sends once more when no answer came. *)
RetryPost(d) ==
    /\ At(d, "posting")
    /\ ~call[d].retried
    /\ net' = net \cup {call[d].mine}
    /\ call' = [call EXCEPT ![d].reply = 0, ![d].retried = TRUE]
    /\ UNCHANGED <<built, log, claim, welcomes, state, marker, digests, recovery, result>>

-----------------------------------------------------------------------------
(* The answer, on the device. *)

(* Any 200 is taken for success. *)
Confirm(d) ==
    /\ At(d, "posting")
    /\ call[d].reply > 0
    /\ marker' = [marker EXCEPT ![d] = NoMarker]
    /\ Return(d, "ready")
    /\ UNCHANGED <<built, server, state, digests, recovery>>

(* clearConversationGroup. *)
Cleared(d) ==
    /\ state' = [state EXCEPT ![d] = NoState]
    /\ marker' = [marker EXCEPT ![d] = NoMarker]

Conflict(d) ==
    /\ At(d, "posting")
    /\ call[d].reply = -1
    /\ Cleared(d)
    /\ Return(d, "failed")
    /\ UNCHANGED <<built, server, digests, recovery>>

\* A slip: the failed request is reported and nothing is rolled back.
FailOnly(d) ==
    /\ At(d, "posting")
    /\ marker' = [marker EXCEPT ![d] = NoMarker]
    /\ Return(d, "failed")
    /\ UNCHANGED <<built, server, state, digests, recovery>>

(* reconcileGenesisAfterPostCommitFailure: no answer, or a lost one. *)
Reconcile(d) ==
    /\ At(d, "posting")
    /\ IF state[d] = call[d].mine
       THEN /\ state' = [state EXCEPT ![d] = call[d].solo]
            /\ marker' = [marker EXCEPT ![d] = NoMarker]
            /\ Goto(d, "rolledback")
       ELSE Return(d, "failed") /\ UNCHANGED <<state, marker>>
    /\ UNCHANGED <<built, server, digests, recovery>>

(* The request behind a rollback has met its fate and is not sent again. *)
Landed(d) == ~At(d, "posting") /\ \A c \in net : built[c].by # d

(* The catch-up of a rollback; its failure is only logged. *)
AskServer(d) ==
    \/ /\ CatchUpMayMiss \/ Landed(d)
       /\ state' = [state EXCEPT ![d] = IF @ = NoState THEN @ ELSE Applied(@)]
    \/ CatchUpMayMiss /\ UNCHANGED state

ReconcileWithServer(d) ==
    /\ At(d, "rolledback")
    /\ AskServer(d)
    /\ Return(d, "failed")
    /\ UNCHANGED <<built, server, marker, digests, recovery>>

-----------------------------------------------------------------------------
(* Crashes and the recovery of the marker. *)

Crash(d) ==
    /\ ~At(d, "idle") \/ recovery[d] # "idle"
    /\ CatchUpMayMiss \/ ~(At(d, "rolledback") \/ recovery[d] = "catchup")
    /\ call' = [call EXCEPT ![d] = NoCall]
    /\ recovery' = [recovery EXCEPT ![d] = "idle"]
    /\ result' = [result EXCEPT ![d] = "none"]
    /\ UNCHANGED <<built, server, state, marker, digests>>

(* recoverPendingGenesises, on connect. *)
RecoverPendingGenesises(d) ==
    /\ marker[d] # NoMarker
    /\ recovery[d] = "idle"
    /\ recovery' = [recovery EXCEPT ![d] = "resolve"]
    /\ UNCHANGED <<built, server, state, marker, digests, call, result>>

\* A slip: the marker stays.
RollBackOnly(d) ==
    /\ recovery[d] = "resolve"
    /\ state' = IF Live(d) THEN [state EXCEPT ![d] = marker[d].prev] ELSE state
    /\ recovery' = [recovery EXCEPT ![d] = "idle"]
    /\ UNCHANGED <<built, server, marker, digests, call, result>>

(* recoverOnePendingGenesis: the epoch triggers the rollback. *)
ResolveMarker(d) ==
    /\ recovery[d] = "resolve"
    /\ state' = IF Live(d) THEN [state EXCEPT ![d] = marker[d].prev] ELSE state
    /\ recovery' = [recovery EXCEPT ![d] = IF Live(d) THEN "catchup" ELSE "idle"]
    /\ marker' = [marker EXCEPT ![d] = NoMarker]
    /\ UNCHANGED <<built, server, digests, call, result>>

RecoverFromServer(d) ==
    /\ recovery[d] = "catchup"
    /\ AskServer(d)
    /\ recovery' = [recovery EXCEPT ![d] = "idle"]
    /\ UNCHANGED <<built, server, marker, digests, call, result>>

-----------------------------------------------------------------------------
Ensure(d) ==
    \/ AfterRecovery(d) \/ HealFromWelcome(d) \/ CatchUpConfirmed(d)
    \/ AskRole(d) \/ Poll(d) \/ NextRound(d) \/ Throw(d)
    \/ Precheck(d) \/ LookAgain(d) \/ CreateSolo(d)
    \/ LoadSolo(d) \/ AddParticipants(d)
    \/ Confirm(d) \/ Conflict(d) \/ Reconcile(d) \/ ReconcileWithServer(d)

Recover(d) == RecoverPendingGenesises(d) \/ ResolveMarker(d) \/ RecoverFromServer(d)

Next ==
    \/ \E d \in Devices :
          \/ Begin(d)
          \/ Ensure(d)
          \/ RetryPost(d)
          \/ Recover(d)
          \/ ReceiveWelcome(d)
          \/ ReceiveCommit(d)
          \/ Crash(d)
    \/ \E c \in net : Receive(c) \/ LoseRequest(c)

Spec == Init /\ [][Next]_vars

(* Fairness: a call under way goes on (every request ends in an answer or  *)
(* a timeout), and the markers are visited on every connect.               *)
Fairness ==
    /\ \A d \in Devices : /\ WF_vars(Ensure(d))
                           /\ WF_vars(RecoverPendingGenesises(d))
                           /\ SF_vars(ResolveMarker(d))
                           /\ WF_vars(RecoverFromServer(d))
    /\ \A c \in States : WF_vars(c \in net /\ (Receive(c) \/ LoseRequest(c)))

FairSpec == Spec /\ Fairness

-----------------------------------------------------------------------------
(* Properties. *)

Call == [pc : {"idle", "recover", "confirmed", "behind", "role", "poll", "round", "precheck",
               "create", "write", "phase2", "consume", "posting", "rolledback"},
         solo : 0 .. MaxStates, mine : 0 .. MaxStates, reply : -1 .. MaxStates,
         retried : BOOLEAN, round : 0 .. MaxRounds - 1]

TypeOK ==
    /\ built \in Seq([by : Devices, epoch : Nat, parent : 0 .. MaxStates,
                      members : SUBSET Devices])
    /\ Len(built) <= MaxStates
    /\ log \in Seq(States)
    /\ claim \subseteq Devices /\ Cardinality(claim) <= 1
    /\ net \subseteq States
    /\ welcomes \subseteq [to : Devices, state : States]
    /\ state \in [Devices -> 0 .. MaxStates]
    /\ marker \in [Devices -> [newEpoch : Nat \cup {-1}, prev : 0 .. MaxStates]]
    /\ digests \in [Devices -> SUBSET States]
    /\ call \in [Devices -> Call]
    /\ recovery \in [Devices -> {"idle", "resolve", "catchup"}]
    /\ result \in [Devices -> {"none", "ready", "failed"}]

(* Whatever crashes or is lost, a group with members that the server does  *)
(* not know is marked on its device, so a restart cannot take it for real. *)
PhantomIsMarked ==
    \A d \in Devices :
        Group(state[d]) /\ state[d] \notin Stored => Live(d) /\ marker[d].prev = built[state[d]].parent

(* A founder left alone has not been overtaken by its own commit: when the *)
(* rollback to the solo state stands, the server never stored a commit     *)
(* built on it, and the next phase 2 starts from the truth.                *)
SoloIsUnfounded ==
    \A d \in Devices : Quiet(d) /\ Solo(state[d]) =>
        \A c \in Stored \cup net : built[c].parent # state[d]

(* ensureGroupReady reports success only when the server holds the group   *)
(* this device has, or a recovery of it is about to find out.              *)
ReadyIsStored ==
    \A d \in Devices : Quiet(d) /\ result[d] = "ready" => state[d] \in Stored

(* One device founds the conversation: crashes, repeated calls, 409s and   *)
(* role changes never make two of them create a group.                     *)
OneFounder ==
    \A s, t \in 1 .. Len(built) :
        built[s].epoch = 0 /\ built[t].epoch = 0 => built[s].by = built[t].by

(* A recovery that rolled back and asked a server that has a group leaves  *)
(* the device in that group.                                               *)
RecoveryAdopts ==
    [][\A d \in Devices :
          recovery[d] = "catchup" /\ recovery'[d] = "idle" /\ log # <<>> /\ state'[d] # NoState
              => state'[d] \in Stored]_vars

(* Every call of ensureGroupReady returns, the joiner's polling included.  *)
CallsReturn == \A d \in Devices : []<>At(d, "idle")

(* A marker does not outlive the reconnects.                               *)
MarkersResolve == \A d \in Devices : []<>(marker[d] = NoMarker)

=============================================================================
