----------------------------- MODULE MlsCommits -----------------------------
(***************************************************************************)
(* How the devices of one conversation agree on the sequence of MLS        *)
(* commits.  A device that changes the membership writes the new group     *)
(* state to its own storage first and asks the server afterwards           *)
(* (mls-membership.service.ts); the server keeps one commit per epoch and  *)
(* answers every later request for that epoch with the winner; the other   *)
(* devices follow the log (mls-commit.service.ts).  Everything between the *)
(* write and the answer - crashes, lost requests and answers, commits of   *)
(* others, traffic - is a step of this module.                             *)
(*                                                                         *)
(* A commit is known by its index in commits.  A group state is named by   *)
(* the commit that produced it, 0 being the founding state, because        *)
(* replaying a commit gives the bytes its author wrote.                    *)
(***************************************************************************)
EXTENDS Integers, Sequences

CONSTANTS
    Devices,            \* the devices of the conversation's members
    Founders,           \* those that hold the founding group state
    Slots,              \* membership operations one device may have under way
    Kinds,              \* the membership operations that are started
    MaxCommits,         \* bound: commits built by all devices together
    MaxMessages,        \* bound: application messages encrypted
    EagerStarts,        \* an operation may start before the last one settled
    EagerTraffic,       \* messages and Welcomes do not wait for an operation
    CrashInProvision    \* the app may die while provisionDevice is posting

AllKinds == {"provision", "reprovision", "removal"}
MarkerKinds == {"reprovision", "removal"}

ASSUME ConstantsAssumption ==
    /\ Founders \subseteq Devices
    /\ Kinds \subseteq AllKinds
    /\ MaxCommits \in Nat
    /\ MaxMessages \in Nat
    /\ {EagerStarts, EagerTraffic, CrashInProvision} \subseteq BOOLEAN

(* The environment under which the protocol is meant to be safe. *)
Calm == ~EagerStarts /\ ~EagerTraffic /\ ~CrashInProvision

VARIABLES
    commits,    \* every commit ever built, in order of construction
    log,        \* the server's commits: log[e + 1] was built from epoch e
    net,        \* commits posted and not yet received by the server
    welcomes,   \* Welcomes the server stored with a commit
    state,      \* groupStates[conversationId] of each device
    marker,     \* pendingReprovisions / pendingRemovals of each device
    digests,    \* processedWelcomeDigests of each device
    op,         \* the membership operations under way, lost in a crash
    messages,   \* application messages encrypted so far
    acked       \* commits whose author was told they succeeded

vars == <<commits, log, net, welcomes, state, marker, digests, op, messages, acked>>

-----------------------------------------------------------------------------
(* Group states. *)

CommitIds == 1 .. MaxCommits
Heads == 0 .. MaxCommits

(* keys: the epochs whose secrets the state retains; gen: messages this    *)
(* device encrypted at the current epoch; seen: messages it decrypted.     *)
Blob == [head : Heads \cup {-1}, keys : SUBSET Heads,
         gen : Nat, seen : SUBSET (1 .. MaxMessages)]

NoGroup == [head |-> -1, keys |-> {}, gen |-> 0, seen |-> {}]
Founded == [head |-> 0, keys |-> {0}, gen |-> 0, seen |-> {}]

HasGroup(d) == state[d].head # -1

EpochAfter(h) == IF h = 0 THEN 0 ELSE commits[h].epoch + 1
Epoch(b) == EpochAfter(b.head)

Members(h) == IF h = 0 THEN Founders ELSE commits[h].members

(* Processing commit c on top of b: a new epoch, with fresh ratchets. *)
Advanced(b, c) == [head |-> c, keys |-> b.keys \cup {c}, gen |-> 0, seen |-> b.seen]
Joined(c) == [head |-> c, keys |-> {c}, gen |-> 0, seen |-> {}]

Stored == {log[i] : i \in 1 .. Len(log)}
LogHeads == {0} \cup Stored

Commit == [by : Devices, epoch : Nat, parent : Heads, kind : AllKinds,
           target : Devices, members : SUBSET Devices]

-----------------------------------------------------------------------------
(* Operations under way and the crash markers. *)

NoOp == [pc |-> "idle", kind |-> "none", commit |-> 0, prev |-> NoGroup,
         new |-> NoGroup, reply |-> 0, retried |-> FALSE]

(* reply: 0 while none arrived, -1 for a 409, otherwise the commit that    *)
(* the server holds for that epoch.                                        *)
Op == [pc : {"idle", "posting", "lost"}, kind : AllKinds \cup {"none"},
       commit : Heads, prev : Blob, new : Blob,
       reply : Heads \cup {-1}, retried : BOOLEAN]

NoMarker == [newEpoch |-> -1, prev |-> NoGroup]
Marker == [newEpoch : Nat \cup {-1}, prev : Blob]

Live(d, k) == marker[d][k] # NoMarker /\ marker[d][k].newEpoch = Epoch(state[d])

(* Nothing of d's own is unresolved on the device. *)
Quiet(d) == /\ \A s \in Slots : op[d][s].pc = "idle"
            /\ HasGroup(d) => \A k \in MarkerKinds : ~Live(d, k)

(* Nor at the server: no request of d is still on its way, and d has       *)
(* applied what the server accepted from it.                               *)
Settled(d) == /\ Quiet(d)
              /\ \A c \in net : commits[c].by # d
              /\ \A c \in Stored : commits[c].by = d => commits[c].parent # state[d].head

MayStart(d) == EagerStarts \/ Settled(d)
MayDisturb(d) == EagerTraffic \/ Quiet(d)

-----------------------------------------------------------------------------
Init ==
    /\ commits = <<>>
    /\ log = <<>>
    /\ net = {}
    /\ welcomes = {}
    /\ state = [d \in Devices |-> IF d \in Founders THEN Founded ELSE NoGroup]
    /\ marker = [d \in Devices |-> [k \in MarkerKinds |-> NoMarker]]
    /\ digests = [d \in Devices |-> {}]
    /\ op = [d \in Devices |-> [s \in Slots |-> NoOp]]
    /\ messages = <<>>
    /\ acked = {}

-----------------------------------------------------------------------------
(* The optimistic write: one storage.update() builds the commit, replaces  *)
(* the group state and, for the two operations that have one, leaves the   *)
(* crash marker; the request is posted after the storage lock is released. *)

WriteOptimistic(d, s, kind, t, members) ==
    LET old == state[d]
        c == Len(commits) + 1
        new == Advanced(old, c)
    IN  /\ op[d][s].pc = "idle"
        /\ kind \in Kinds
        /\ MayStart(d)
        /\ Len(commits) < MaxCommits
        /\ commits' = Append(commits, [by |-> d, epoch |-> Epoch(old), parent |-> old.head,
                                       kind |-> kind, target |-> t, members |-> members])
        /\ state' = [state EXCEPT ![d] = new]
        /\ marker' = IF kind \in MarkerKinds
                     THEN [marker EXCEPT ![d][kind] = [newEpoch |-> Epoch(old) + 1, prev |-> old]]
                     ELSE marker
        /\ op' = [op EXCEPT ![d][s] = [pc |-> "posting", kind |-> kind, commit |-> c,
                                       prev |-> old, new |-> new, reply |-> 0, retried |-> FALSE]]
        /\ net' = net \cup {c}
        /\ UNCHANGED <<log, welcomes, digests, messages, acked>>

(* provisionDevice: adds a device that is not a member.  A lock held by    *)
(* another device, or no key package, means the operation does not start.  *)
ProvisionDevice(d, s, t) ==
    /\ HasGroup(d)
    /\ t \notin Members(state[d].head)
    /\ WriteOptimistic(d, s, "provision", t, Members(state[d].head) \cup {t})

(* reprovisionLostStateDevice: removes a device's stale leaf and adds it   *)
(* again, in one commit.                                                   *)
ReprovisionLostStateDevice(d, s, t) ==
    /\ HasGroup(d)
    /\ t # d
    /\ t \in Members(state[d].head)
    /\ WriteOptimistic(d, s, "reprovision", t, Members(state[d].head))

(* removeRevokedDeviceFromAllGroups, for this conversation. *)
RemoveRevokedDevice(d, s, t) ==
    /\ HasGroup(d)
    /\ t # d
    /\ t \in Members(state[d].head)
    /\ WriteOptimistic(d, s, "removal", t, Members(state[d].head) \ {t})

-----------------------------------------------------------------------------
(* The network and the server (external). *)

Answer(c, r) ==
    op' = [d \in Devices |-> [s \in Slots |->
              IF op[d][s].pc = "posting" /\ op[d][s].commit = c
              THEN [op[d][s] EXCEPT !.reply = r]
              ELSE op[d][s]]]

WelcomesOf(c) ==
    IF commits[c].kind = "removal" THEN {} ELSE {[to |-> commits[c].target, commit |-> c]}

(* First commit of an epoch: stored, with its Welcome. *)
ServerStore(c) ==
    /\ commits[c].epoch = Len(log)
    /\ log' = Append(log, c)
    /\ welcomes' = welcomes \cup WelcomesOf(c)
    /\ Answer(c, c)

\* A slip: the loser's Welcomes are stored all the same.
ServerKeepsWinnerAndWelcomes(c) ==
    /\ commits[c].epoch < Len(log)
    /\ Answer(c, log[commits[c].epoch + 1])
    /\ welcomes' = welcomes \cup WelcomesOf(c)
    /\ UNCHANGED log

(* Any later one: the answer is the commit the server already holds. *)
ServerKeepsWinner(c) ==
    /\ commits[c].epoch < Len(log)
    /\ Answer(c, log[commits[c].epoch + 1])
    /\ UNCHANGED <<log, welcomes>>

(* A 409: an epoch beyond the next one, and whatever else a server may     *)
(* refuse; the tests of the clearing branch force one on a commit that     *)
(* would fit.                                                              *)
ServerRejects(c) ==
    /\ commits[c].epoch >= Len(log)
    /\ Answer(c, -1)
    /\ UNCHANGED <<log, welcomes>>

Receive(c) ==
    /\ c \in net
    /\ net' = net \ {c}
    /\ ServerStore(c) \/ ServerKeepsWinner(c) \/ ServerRejects(c)
    /\ UNCHANGED <<commits, state, marker, digests, messages, acked>>

LoseRequest(c) ==
    /\ c \in net
    /\ net' = net \ {c}
    /\ UNCHANGED <<commits, log, welcomes, state, marker, digests, op, messages, acked>>

(* ApiClientService.request sends a request once more when no answer came, *)
(* whether or not the server had received the first.                       *)
RetryPost(d, s) ==
    /\ op[d][s].pc = "posting"
    /\ ~op[d][s].retried
    /\ net' = net \cup {op[d][s].commit}
    /\ op' = [op EXCEPT ![d][s].reply = 0, ![d][s].retried = TRUE]
    /\ UNCHANGED <<commits, log, welcomes, state, marker, digests, messages, acked>>

-----------------------------------------------------------------------------
(* The answer, on the device. *)

(* The compare-and-swap of every rollback: only while the group state is   *)
(* still the very one the operation wrote.                                 *)
StillOwnWrite(d, s) == state[d] = op[d][s].new

Finish(d, s) == op' = [op EXCEPT ![d][s] = NoOp]

\* A slip: any 200 is taken for success.
AnyAnswerIsMine(d, s) == TRUE

(* Success is recognised by the sender of the stored commit alone. *)
IsMine(d, s) == commits[op[d][s].reply].by = d

Confirm(d, s) ==
    /\ op[d][s].pc = "posting"
    /\ op[d][s].reply > 0
    /\ IsMine(d, s)
    /\ marker' = IF op[d][s].kind \in MarkerKinds
                 THEN [marker EXCEPT ![d][op[d][s].kind] = NoMarker]
                 ELSE marker
    /\ acked' = acked \cup {op[d][s].commit}
    /\ Finish(d, s)
    /\ UNCHANGED <<commits, log, net, welcomes, state, digests, messages>>

(* Another device's commit won: roll back, then replay the winner. *)
LostRace(d, s) ==
    /\ op[d][s].pc = "posting"
    /\ op[d][s].reply > 0
    /\ ~IsMine(d, s)
    /\ IF StillOwnWrite(d, s)
       THEN /\ state' = [state EXCEPT ![d] = op[d][s].prev]
            /\ marker' = IF op[d][s].kind \in MarkerKinds
                         THEN [marker EXCEPT ![d][op[d][s].kind] = NoMarker]
                         ELSE marker
       ELSE UNCHANGED <<state, marker>>
    /\ op' = [op EXCEPT ![d][s].pc = "lost"]
    /\ UNCHANGED <<commits, log, net, welcomes, digests, messages, acked>>

(* clearConversationGroup: the state and every marker of the conversation. *)
Cleared(d) ==
    /\ state' = [state EXCEPT ![d] = NoGroup]
    /\ marker' = [marker EXCEPT ![d] = [k \in MarkerKinds |-> NoMarker]]

(* A 409: clear, and let the device be invited again. *)
Conflict(d, s) ==
    /\ op[d][s].pc = "posting"
    /\ op[d][s].reply = -1
    /\ Cleared(d)
    /\ Finish(d, s)
    /\ UNCHANGED <<commits, log, net, welcomes, digests, messages, acked>>

(* reconcileAfterPostCommitFailure: no answer, or one that was lost on its *)
(* way.  Both markers go with the rollback; the catch-up that follows is   *)
(* made of ApplyCommit steps, and may itself fail.                         *)
ReconcileAfterPostCommitFailure(d, s) ==
    /\ op[d][s].pc = "posting"
    /\ IF StillOwnWrite(d, s)
       THEN /\ state' = [state EXCEPT ![d] = op[d][s].prev]
            /\ marker' = [marker EXCEPT ![d] = [k \in MarkerKinds |-> NoMarker]]
       ELSE UNCHANGED <<state, marker>>
    /\ Finish(d, s)
    /\ UNCHANGED <<commits, log, net, welcomes, digests, messages, acked>>

-----------------------------------------------------------------------------
(* Following the log. *)

\* A slip the code once had: a commit of the current epoch is skipped.
CanApplyLaterOnly(d, c) ==
    /\ HasGroup(d)
    /\ commits[c].epoch > Epoch(state[d])
    /\ commits[c].parent = state[d].head

(* applyCommit changes the state only for a commit built from the current  *)
(* epoch, and MLS accepts it only on the very state it was built from, and *)
(* only on a leaf the commit does not replace.                             *)
CanApply(d, c) ==
    /\ HasGroup(d)
    /\ commits[c].epoch = Epoch(state[d])
    /\ commits[c].parent = state[d].head
    /\ ~(commits[c].target = d /\ commits[c].kind # "provision")

ApplyCommit(d, c) ==
    /\ c \in Stored
    /\ CanApply(d, c)
    /\ state' = [state EXCEPT ![d] = Advanced(state[d], c)]
    /\ UNCHANGED <<commits, log, net, welcomes, marker, digests, op, messages, acked>>

(* The last step of a lost race: processIncomingCommit of the winner. *)
Resync(d, s) ==
    LET winner == op[d][s].reply
    IN  /\ op[d][s].pc = "lost"
        /\ state' = IF CanApply(d, winner)
                    THEN [state EXCEPT ![d] = Advanced(state[d], winner)]
                    ELSE state
        /\ Finish(d, s)
        /\ UNCHANGED <<commits, log, net, welcomes, marker, digests, messages, acked>>

-----------------------------------------------------------------------------
(* Welcomes. *)

\* A slip: the Welcome is not compared with those already processed.
AnyWelcomeIsFresh(d, w) == w \in welcomes /\ w.to = d

FreshWelcome(d, w) == w \in welcomes /\ w.to = d /\ w.commit \notin digests[d]

Obsolete(d, w) == HasGroup(d) /\ EpochAfter(w.commit) < Epoch(state[d])

JoinViaWelcome(d, w) ==
    /\ MayDisturb(d)
    /\ FreshWelcome(d, w)
    /\ ~Obsolete(d, w)
    /\ state' = [state EXCEPT ![d] = Joined(w.commit)]
    /\ digests' = [digests EXCEPT ![d] = @ \cup {w.commit}]
    /\ UNCHANGED <<commits, log, net, welcomes, marker, op, messages, acked>>

IgnoreWelcome(d, w) ==
    /\ FreshWelcome(d, w)
    /\ Obsolete(d, w)
    /\ digests' = [digests EXCEPT ![d] = @ \cup {w.commit}]
    /\ UNCHANGED <<commits, log, net, welcomes, state, marker, op, messages, acked>>

-----------------------------------------------------------------------------
(* Application messages: each one moves a ratchet inside the group state.  *)

EncryptMessage(d) ==
    /\ MayDisturb(d)
    /\ HasGroup(d)
    /\ Len(messages) < MaxMessages
    /\ messages' = Append(messages, [by |-> d, head |-> state[d].head, gen |-> state[d].gen])
    /\ state' = [state EXCEPT ![d].gen = @ + 1]
    /\ UNCHANGED <<commits, log, net, welcomes, marker, digests, op, acked>>

DecryptMessage(d, i) ==
    /\ MayDisturb(d)
    /\ HasGroup(d)
    /\ messages[i].by # d
    /\ messages[i].head \in state[d].keys
    /\ \A j \in state[d].seen : messages[j] # messages[i]
    /\ state' = [state EXCEPT ![d].seen = @ \cup {i}]
    /\ UNCHANGED <<commits, log, net, welcomes, marker, digests, op, messages, acked>>

-----------------------------------------------------------------------------
(* Clearing, crashes and the recovery of markers. *)

(* The coordinator clears a conversation it gave up on. *)
ClearConversationGroup(d) ==
    /\ HasGroup(d)
    /\ Cleared(d)
    /\ UNCHANGED <<commits, log, net, welcomes, digests, op, messages, acked>>

(* The app dies: what was under way is forgotten, the storage stays. *)
Crash(d) ==
    /\ \E s \in Slots : op[d][s].pc # "idle"
    /\ CrashInProvision \/ \A s \in Slots : ~(op[d][s].pc = "posting" /\ op[d][s].kind = "provision")
    /\ op' = [op EXCEPT ![d] = [s \in Slots |-> NoOp]]
    /\ UNCHANGED <<commits, log, net, welcomes, state, marker, digests, messages, acked>>

\* A slip: the marker goes, the group state it was written with stays.
DropMarker(d, k) ==
    /\ marker[d][k] # NoMarker
    /\ marker' = [marker EXCEPT ![d][k] = NoMarker]
    /\ UNCHANGED <<commits, log, net, welcomes, state, digests, op, messages, acked>>

(* recoverOnePendingReprovision / recoverOnePendingRemoval: the marker     *)
(* goes in any case; the rollback is triggered by the epoch alone.         *)
ResolveMarker(d, k) ==
    /\ marker[d][k] # NoMarker
    /\ state' = IF HasGroup(d) /\ Live(d, k)
                THEN [state EXCEPT ![d] = marker[d][k].prev]
                ELSE state
    /\ marker' = [marker EXCEPT ![d][k] = NoMarker]
    /\ UNCHANGED <<commits, log, net, welcomes, digests, op, messages, acked>>

RecoverOnePendingReprovision(d) == ResolveMarker(d, "reprovision")
RecoverOnePendingRemoval(d) == ResolveMarker(d, "removal")

-----------------------------------------------------------------------------
Start(d, s) ==
    \E t \in Devices : \/ ProvisionDevice(d, s, t)
                       \/ ReprovisionLostStateDevice(d, s, t)
                       \/ RemoveRevokedDevice(d, s, t)

Outcome(d, s) ==
    Confirm(d, s) \/ LostRace(d, s) \/ Conflict(d, s) \/ ReconcileAfterPostCommitFailure(d, s)

Follow(d) == \E c \in 1 .. Len(commits) : ApplyCommit(d, c)

TakeWelcome(d) == \E w \in welcomes : JoinViaWelcome(d, w) \/ IgnoreWelcome(d, w)

Traffic(d) == EncryptMessage(d) \/ \E i \in 1 .. Len(messages) : DecryptMessage(d, i)

Recover(d) == RecoverOnePendingReprovision(d) \/ RecoverOnePendingRemoval(d)

Next ==
    \/ \E d \in Devices :
          \/ \E s \in Slots : \/ Start(d, s)
                              \/ RetryPost(d, s)
                              \/ Outcome(d, s)
                              \/ Resync(d, s)
          \/ Follow(d)
          \/ TakeWelcome(d)
          \/ Traffic(d)
          \/ ClearConversationGroup(d)
          \/ Crash(d)
          \/ Recover(d)
    \/ \E c \in net : Receive(c) \/ LoseRequest(c)

Spec == Init /\ [][Next]_vars

(* Fairness: a started operation reaches its outcome (every request ends   *)
(* in an answer or a timeout), a device that is connected is sent or       *)
(* fetches the commits it misses, and the reconnect sweep visits the       *)
(* markers.  New operations, traffic, losses and crashes are never forced. *)
Fairness ==
    /\ \A d \in Devices :
          /\ \A s \in Slots : WF_vars(Outcome(d, s)) /\ WF_vars(Resync(d, s))
          /\ WF_vars(Follow(d))
          /\ WF_vars(Recover(d))
    /\ \A c \in CommitIds : WF_vars(c \in net /\ (Receive(c) \/ LoseRequest(c)))

FairSpec == Spec /\ Fairness

-----------------------------------------------------------------------------
(* Properties. *)

TypeOK ==
    /\ commits \in Seq(Commit) /\ Len(commits) <= MaxCommits
    /\ log \in Seq(CommitIds)
    /\ net \subseteq CommitIds
    /\ welcomes \subseteq [to : Devices, commit : CommitIds]
    /\ state \in [Devices -> Blob]
    /\ marker \in [Devices -> [MarkerKinds -> Marker]]
    /\ digests \in [Devices -> SUBSET CommitIds]
    /\ op \in [Devices -> [Slots -> Op]]
    /\ messages \in Seq([by : Devices, head : Heads, gen : Nat])
    /\ Len(messages) <= MaxMessages
    /\ acked \subseteq CommitIds

(* A device with nothing unresolved holds a state of the server's log: no  *)
(* lost answer, lost race, crash or rollback leaves it on a group state    *)
(* that nobody else has.                                                   *)
NoFork == \A d \in Devices : Quiet(d) /\ HasGroup(d) => state[d].head \in LogHeads

(* Each commit of the log was built on the one before it, so whoever       *)
(* follows the log can apply every commit of it.                           *)
LogIsChain ==
    \A i \in 1 .. Len(log) :
        commits[log[i]].parent = IF i = 1 THEN 0 ELSE log[i - 1]

(* A device that lost the race for an epoch leaves the operation on a      *)
(* state of the log: the rollback and the replay of the winning commit     *)
(* reconcile it with whatever it held by then.                             *)
LostRaceReconciles ==
    [][\A d \in Devices, s \in Slots :
           op[d][s].pc = "lost" /\ op'[d][s].pc = "idle" /\ state'[d] # NoGroup
               => state'[d].head \in LogHeads']_vars

(* provisionDevice, reprovisionLostStateDevice and                         *)
(* removeRevokedDeviceFromAllGroups report success only for a commit the   *)
(* server stored: the device was really added, or really removed.          *)
SuccessMeansStored == acked \subseteq Stored

(* No device asks for a commit beyond the next epoch, so the 409 branch,   *)
(* which throws the group state away, is never needed.                     *)
NeverBuiltAhead == \A c \in net : commits[c].epoch <= Len(log)

(* The generations a device has sent at are behind it: it never rolls      *)
(* back, catches up or joins to a state it already sent from, which would  *)
(* encrypt two messages with the same key.                                 *)
NoGenerationReuse ==
    \A i \in 1 .. Len(messages) : LET m == messages[i] IN
        HasGroup(m.by) /\ state[m.by].head = m.head => state[m.by].gen > m.gen

(* Whatever the environment does, a device strays from the log only on     *)
(* commits it built itself: no Welcome, catch-up or rollback ever puts it  *)
(* on another device's unpublished state.                                  *)
OffLogIsOwn ==
    \A d \in Devices :
        HasGroup(d) /\ state[d].head \notin LogHeads => commits[state[d].head].by = d

(* Whatever the environment does, a commit that does not extend the log    *)
(* was built by the author of its parent: one device's phantom is never    *)
(* continued by another.                                                   *)
PhantomsAreNotShared ==
    \A c \in 1 .. Len(commits) :
        commits[c].parent \notin LogHeads =>
            commits[commits[c].parent].by = commits[c].by

(* The abstract log: a phantom write counts as the position it was built   *)
(* on until the server accepts it.                                         *)
View(d) == IF ~HasGroup(d) THEN -1
           ELSE IF state[d].head \in LogHeads THEN Epoch(state[d])
           ELSE Epoch(state[d]) - 1

GL == INSTANCE GroupLog WITH view <- [d \in Devices |-> View(d)]

(* The commit protocol implements the abstract group log. *)
ImplementsGroupLog == GL!Spec

(* The next commit of the log, when it takes d's leaf away or replaces it. *)
LeafReplaced(d) ==
    \E c \in Stored : /\ commits[c].parent = state[d].head
                      /\ commits[c].target = d
                      /\ commits[c].kind # "provision"

CaughtUp(d) == Quiet(d) /\ state[d].head = IF log = <<>> THEN 0 ELSE log[Len(log)]

(* A device that holds a group state reaches the end of the log, whatever  *)
(* was lost on the way, unless its own leaf was removed or replaced.       *)
Converges == \A d \in Devices : []<>(~HasGroup(d) \/ LeafReplaced(d) \/ CaughtUp(d))

=============================================================================
