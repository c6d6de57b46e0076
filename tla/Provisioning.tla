---------------------------- MODULE Provisioning ----------------------------
(***************************************************************************)
(* How a user's new device gets into the user's conversations, and out of  *)
(* them when it is revoked (key-package.service.ts,                        *)
(* device-provisioning.service.ts, provisionDevice and                     *)
(* removeRevokedDeviceFromAllGroups of mls-membership.service.ts).         *)
(*                                                                         *)
(* The new device keeps a pool of key packages at the server, whose        *)
(* private halves it stores first.  A device that is in the conversations  *)
(* sweeps over them, when it hears of the new one and whenever it          *)
(* connects: it claims a key package, writes the group state that has the  *)
(* new device as a member and posts the commit with its Welcome, which the *)
(* new device can take as long as it has the private half.  A revoked      *)
(* device is removed the same way, with a marker kept until the removal    *)
(* is known to be stored.                                                  *)
(*                                                                         *)
(* Key packages are numbered in the order of their generation; of a        *)
(* commit only the membership and the Welcome matter, and the removals and *)
(* additions of one conversation take turns: their races are MlsCommits'.  *)
(***************************************************************************)
EXTENDS Integers, Sequences, FiniteSets, FiniteSetsExt

CONSTANTS
    Convs,          \* the conversations of the account
    Archived,       \* those that are archived
    Target,         \* KP_TARGET
    Threshold,      \* the count below which the server asks for a refill
    Callers,        \* callers of ensureKeyPackagePool
    MaxMinted,      \* bound: key packages generated
    MaxFaults,      \* bound: requests that fail
    Ways            \* what may happen: sets of AllWays, one per behaviour

(* The old device may be killed while it posts a Welcome; the new one may  *)
(* lose its storage, or be revoked (if it was not nudged about, to bound   *)
(* what goes on at once).                                                  *)
AllWays == {"dies", "wiped", "revoked"}

ASSUME ConstantsAssumption ==
    /\ Archived \subseteq Convs
    /\ {Target, Threshold, MaxMinted, MaxFaults} \subseteq Nat /\ Threshold <= Target
    /\ Ways \subseteq SUBSET AllWays

VARIABLES
    ways,
    pool,       \* the key packages the server has to hand out
    local,      \* state.keyPackages of the new device: private halves it holds
    ensure,     \* runEnsure of each caller: how far, and the batch
    minted,     \* key packages generated so far
    welcome,    \* the key package of the Welcome stored for each conversation, or 0
    joined,     \* the conversations the new device is in
    member,     \* those in whose group state the old device has it
    marked,     \* pendingRemovals of the old device
    cooled,     \* REVOKED_SWEEP_MIN_INTERVAL_MS has passed
    sweep,      \* handleDeviceNew ("nudge"), checkAndProvisionOnConnect ("connect"),
                \* removeRevokedDeviceFromAllGroups for device:revoked ("revoked")
    nudged,     \* device:new is on its way
    revoked,    \* the new device is revoked
    inGroup,    \* the conversations whose stored commits have it as a member
    faults      \* counter

newDevice == <<local, ensure, minted, joined>>
oldDevice == <<member, marked, cooled, sweep>>
server == <<pool, welcome, revoked, inGroup>>
vars == <<ways, newDevice, oldDevice, server, nudged, faults>>

Sweeps == {"nudge", "connect", "revoked"}

Idle == [pc |-> "idle", step |-> 0, batch |-> {}]
NoSweep == [pc |-> "idle", rest |-> <<>>, todo |-> {}, conv |-> "none", kp |-> 0]

EnsureIs(e, pc) == ensure[e].pc = pc
SweepIs(s, pc) == sweep[s].pc = pc
MayFail == faults < MaxFaults
Counts(ok) == faults' = IF ok THEN faults ELSE faults + 1

(* The pages of forEachConversation: conversations, then archived ones. *)
Pages == <<Convs \ Archived, Archived>>

(* getPendingProvisions, computed by the server. *)
Pending == IF revoked THEN {} ELSE {c \in Convs : welcome[c] = 0}

Init ==
    /\ ways \in Ways
    /\ pool = {} /\ local = {}
    /\ ensure = [e \in Callers |-> Idle]
    /\ minted = 0
    /\ welcome = [c \in Convs |-> 0]
    /\ joined = {} /\ member = {} /\ inGroup = {}
    /\ marked = {} /\ cooled = TRUE /\ revoked = FALSE
    /\ sweep = [s \in Sweeps |-> NoSweep]
    /\ nudged \in BOOLEAN /\ (nudged => "revoked" \notin ways)
    /\ faults = 0

-----------------------------------------------------------------------------
(* The new device: ensureKeyPackagePool.                                   *)

NoPromise(e) == \A f \in Callers : EnsureIs(f, "idle")

Ensure(e) ==
    /\ NoPromise(e) /\ ~revoked /\ Cardinality(pool) < Threshold
    /\ ensure' = [ensure EXCEPT ![e].pc = "check"]
    /\ UNCHANGED <<ways, local, minted, joined, oldDevice, server, nudged, faults>>

(* runEnsure: the count, and what is lacking generated; reconciling the    *)
(* server's pool with the local one changes neither.                       *)
Check(e, ok) ==
    /\ EnsureIs(e, "check") /\ (ok \/ MayFail)
    /\ LET lacking == Target - Cardinality(pool)
           batch == minted + 1 .. minted + lacking
       IN  IF ok /\ Cardinality(pool) < Threshold
           THEN /\ minted + lacking <= MaxMinted
                /\ ensure' = [ensure EXCEPT ![e] = [pc |-> "refill", step |-> 1, batch |-> batch]]
                /\ minted' = minted + lacking
           ELSE ensure' = [ensure EXCEPT ![e] = Idle] /\ UNCHANGED minted
    /\ Counts(ok)
    /\ UNCHANGED <<ways, local, joined, oldDevice, server, nudged>>

(* A slip: the order before the private halves were stored first. *)
UploadFirst == <<"upload", "store">>

(* refillPool; the serverIds, filled in at last, change nothing here. *)
Steps == <<"store", "upload">>

EnsureAt(e, step) == EnsureIs(e, "refill") /\ Steps[ensure[e].step] = step

EnsureGoes(e) ==
    ensure' = IF ensure[e].step = Len(Steps) THEN [ensure EXCEPT ![e] = Idle]
                                             ELSE [ensure EXCEPT ![e].step = @ + 1]

(* appendKeyPackagesToState *)
Store(e) ==
    /\ EnsureAt(e, "store")
    /\ local' = local \union ensure[e].batch
    /\ EnsureGoes(e)
    /\ UNCHANGED <<ways, minted, joined, oldDevice, server, nudged, faults>>

(* An upload that fails may have reached the server. *)
Upload(e, ok) ==
    /\ EnsureAt(e, "upload") /\ (ok \/ MayFail)
    /\ pool' \in {pool \union ensure[e].batch} \union (IF ok THEN {} ELSE {pool})
    /\ IF ok THEN EnsureGoes(e) ELSE ensure' = [ensure EXCEPT ![e] = Idle]
    /\ Counts(ok)
    /\ UNCHANGED <<ways, local, minted, joined, oldDevice, welcome, revoked, inGroup, nudged>>

(* processWelcome: the key package that fits is found and removed. *)
Join(c) ==
    /\ c \notin joined /\ welcome[c] \in local
    /\ joined' = joined \union {c}
    /\ local' = local \ {welcome[c]}
    /\ UNCHANGED <<ways, ensure, minted, oldDevice, server, nudged, faults>>

NewDies ==
    /\ \E e \in Callers : ~EnsureIs(e, "idle")
    /\ MayFail /\ Counts(FALSE)
    /\ ensure' = [e \in Callers |-> Idle]
    /\ UNCHANGED <<ways, local, minted, joined, oldDevice, server, nudged>>

NewIsWiped ==
    /\ "wiped" \in ways /\ local # {} /\ MayFail /\ Counts(FALSE)
    /\ local' = {} /\ joined' = {}
    /\ ensure' = [e \in Callers |-> Idle]
    /\ UNCHANGED <<ways, minted, oldDevice, server, nudged>>

(* The user revokes the device: it is signed out and nothing is kept of   *)
(* it or for it; a cooldown may be under way. *)
Revoke ==
    /\ "revoked" \in ways /\ ~revoked
    /\ revoked' = TRUE /\ pool' = {} /\ cooled' \in BOOLEAN
    /\ local' = {} /\ joined' = {} /\ minted' = 0 /\ welcome' = [c \in Convs |-> 0]
    /\ ensure' = [e \in Callers |-> Idle]
    /\ UNCHANGED <<ways, member, marked, sweep, inGroup, nudged, faults>>

-----------------------------------------------------------------------------
(* The old device: its sweeps.                                             *)

SweepGoes(s, r) == sweep' = [sweep EXCEPT ![s] = r]

(* device:new, which may come late or not at all. *)
HandleDeviceNew ==
    /\ nudged /\ SweepIs("nudge", "idle")
    /\ nudged' = FALSE
    /\ SweepGoes("nudge", [NoSweep EXCEPT !.pc = "page", !.rest = Pages])
    /\ UNCHANGED <<ways, newDevice, member, marked, cooled, server, faults>>

(* forEachConversation: a page that fails ends its half. *)
LoadPage(ok) ==
    /\ SweepIs("nudge", "page") /\ (ok \/ MayFail)
    /\ LET rest == sweep["nudge"].rest
       IN  SweepGoes("nudge", IF rest = <<>> THEN NoSweep
                              ELSE [NoSweep EXCEPT !.pc = "convs", !.rest = Tail(rest),
                                                   !.todo = IF ok THEN Head(rest) ELSE {}])
    /\ Counts(ok)
    /\ UNCHANGED <<ways, newDevice, member, marked, cooled, server, nudged>>

(* recoverPendingRemovals: a marked removal is undone, and done again if   *)
(* the server has it. *)
Recovered(ok) ==
    /\ member' = (member \union marked) \ (IF ok THEN marked \ inGroup ELSE {})
    /\ marked' = {}

(* checkAndProvisionOnConnect: one at a time.  The removal of revoked      *)
(* devices goes by the groups as they are loaded.                          *)
Connect(ok) ==
    /\ SweepIs("connect", "idle") /\ (ok \/ MayFail)
    /\ Pending # {} \/ marked # {} \/ (revoked /\ cooled)
    /\ Recovered(ok)
    /\ cooled' = (cooled /\ ~revoked)
    /\ SweepGoes("connect", [NoSweep EXCEPT !.pc = "leaves",
                                            !.todo = IF cooled /\ revoked /\ ok THEN member' ELSE {}])
    /\ Counts(ok)
    /\ UNCHANGED <<ways, newDevice, server, nudged>>

CoolDown ==
    /\ ~cooled /\ cooled' = TRUE
    /\ UNCHANGED <<ways, newDevice, member, marked, sweep, server, nudged, faults>>

(* getPendingProvisions *)
AskPending(ok) ==
    /\ SweepIs("connect", "leaves") /\ sweep["connect"].todo = {} /\ (ok \/ MayFail)
    /\ SweepGoes("connect", IF ok THEN [NoSweep EXCEPT !.pc = "convs", !.todo = Pending] ELSE NoSweep)
    /\ Counts(ok)
    /\ UNCHANGED <<ways, newDevice, member, marked, cooled, server, nudged>>

(* device:revoked, which may come late, twice or not at all. *)
HandleDeviceRevoked ==
    /\ revoked /\ SweepIs("revoked", "idle") /\ member # {}
    /\ SweepGoes("revoked", [NoSweep EXCEPT !.pc = "leaves", !.todo = member])
    /\ UNCHANGED <<ways, newDevice, member, marked, cooled, server, nudged, faults>>

SweepEnds(s) ==
    /\ sweep[s].todo = {}
    /\ SweepIs(s, "convs") \/ (SweepIs(s, "leaves") /\ s = "revoked")
    /\ SweepGoes(s, IF s = "nudge" THEN [sweep[s] EXCEPT !.pc = "page"] ELSE NoSweep)
    /\ UNCHANGED <<ways, newDevice, member, marked, cooled, server, nudged, faults>>

-----------------------------------------------------------------------------
(* The old device: its commits.                                            *)

Posting(pc, c) == \E s \in Sweeps : SweepIs(s, pc) /\ sweep[s].conv = c

(* provisionDevice: nothing to do for a member, nothing to be done without *)
(* a key package, of which the latest is served.                           *)
Provision(s, c) ==
    /\ SweepIs(s, "convs") /\ c \in sweep[s].todo
    /\ LET left == [sweep[s] EXCEPT !.todo = @ \ {c}]
       IN  IF c \in member \/ pool = {} THEN SweepGoes(s, left) /\ UNCHANGED pool
           ELSE /\ pool' = pool \ {Max(pool)}
                /\ SweepGoes(s, [left EXCEPT !.pc = "write", !.conv = c, !.kp = Max(pool)])
    /\ UNCHANGED <<ways, newDevice, welcome, revoked, inGroup, member, marked, cooled,
                   nudged, faults>>

NotYetMember(c) == c \notin member

(* The optimistic write, in the storage lock. *)
Write(s) ==
    LET c == sweep[s].conv
    IN  /\ SweepIs(s, "write") /\ ~Posting("remove", c)
        /\ member' = member \union {c}
        /\ SweepGoes(s, [sweep[s] EXCEPT !.pc = IF NotYetMember(c) THEN "post" ELSE "convs"])
        /\ UNCHANGED <<ways, newDevice, marked, cooled, server, nudged, faults>>

Posted(s, pc) == SweepGoes(s, [sweep[s] EXCEPT !.pc = pc, !.conv = "none", !.kp = 0])

(* A slip: what was written before a request that failed stays. *)
Kept(c) == UNCHANGED member

RolledBack(c) == member' = member \ {c}

(* postCommit; a failure is rolled back, and the commit, if the server has *)
(* it all the same, is applied again.                                      *)
Post(s, ok) ==
    LET c == sweep[s].conv
    IN  /\ SweepIs(s, "post") /\ (ok \/ MayFail)
        /\ \/ /\ welcome' = [welcome EXCEPT ![c] = sweep[s].kp]
              /\ inGroup' = inGroup \union {c}
              /\ UNCHANGED member
           \/ ~ok /\ RolledBack(c) /\ UNCHANGED <<welcome, inGroup>>
        /\ Posted(s, "convs")
        /\ Counts(ok)
        /\ UNCHANGED <<ways, newDevice, pool, revoked, marked, cooled, nudged>>

(* A slip: no marker is written. *)
Unmarked(c) == UNCHANGED marked

Marked(c) == marked' = marked \union {c}

(* removeRevokedDeviceFromAllGroups: the optimistic write. *)
RemoveWrite(s, c) ==
    /\ SweepIs(s, "leaves") /\ c \in sweep[s].todo /\ ~Posting("post", c)
    /\ LET left == [sweep[s] EXCEPT !.todo = @ \ {c}]
       IN  IF c \notin member THEN SweepGoes(s, left) /\ UNCHANGED <<member, marked>>
           ELSE /\ member' = member \ {c} /\ Marked(c)
                /\ SweepGoes(s, [left EXCEPT !.pc = "remove", !.conv = c])
    /\ UNCHANGED <<ways, newDevice, cooled, server, nudged, faults>>

RemovePost(s, ok) ==
    LET c == sweep[s].conv
    IN  /\ SweepIs(s, "remove") /\ (ok \/ MayFail)
        /\ \/ inGroup' = inGroup \ {c} /\ member' = member \ {c}
           \/ ~ok /\ member' = member \union {c} /\ UNCHANGED inGroup
        /\ marked' = marked \ {c}
        /\ Posted(s, "leaves")
        /\ Counts(ok)
        /\ UNCHANGED <<ways, newDevice, pool, welcome, revoked, cooled, nudged>>

(* The app is killed: before a Welcome is written, or any time. *)
OldDies ==
    /\ \E s \in Sweeps : ~SweepIs(s, "idle")
    /\ MayFail /\ Counts(FALSE)
    /\ "dies" \in ways \/ \A c \in Convs : ~Posting("post", c)
    /\ inGroup' \in {inGroup, inGroup \ {c \in Convs : Posting("remove", c)}}
    /\ sweep' = [s \in Sweeps |-> NoSweep]
    /\ UNCHANGED <<ways, newDevice, pool, welcome, revoked, member, marked, cooled, nudged>>

-----------------------------------------------------------------------------
EnsureStep(e) ==
    Store(e) \/ \E ok \in BOOLEAN : Check(e, ok) \/ Upload(e, ok)

SweepStep(s) ==
    \/ SweepEnds(s) \/ Write(s)
    \/ \E c \in Convs : Provision(s, c) \/ RemoveWrite(s, c)
    \/ \E ok \in BOOLEAN : Post(s, ok) \/ RemovePost(s, ok)

Next ==
    \/ \E e \in Callers : Ensure(e) \/ EnsureStep(e)
    \/ \E c \in Convs : Join(c)
    \/ HandleDeviceNew \/ HandleDeviceRevoked \/ CoolDown
    \/ \E ok \in BOOLEAN : LoadPage(ok) \/ Connect(ok) \/ AskPending(ok)
    \/ \E s \in Sweeps : SweepStep(s)
    \/ NewDies \/ NewIsWiped \/ OldDies \/ Revoke

Spec == Init /\ [][Next]_vars

(* The server asks for a refill and a device that reconnects or resumes    *)
(* looks by itself; a device with conversations to provide or leaves to    *)
(* remove reconnects; a Welcome waits at the server; requests and the      *)
(* cooldown end.  Kills and losses are not forced, and neither are         *)
(* device:new and device:revoked.                                          *)
Fairness ==
    /\ WF_vars(\E e \in Callers : Ensure(e) \/ EnsureStep(e))
    /\ WF_vars(\E c \in Convs : Join(c))
    /\ WF_vars(Connect(TRUE) \/ AskPending(TRUE)) /\ WF_vars(CoolDown)
    /\ \A s \in Sweeps : WF_vars(SweepStep(s) \/ (s = "nudge" /\ LoadPage(TRUE)))
FairSpec == Spec /\ Fairness

-----------------------------------------------------------------------------
(* A device can take every Welcome made from its key packages, whenever    *)
(* it was killed while it published them.                                  *)
(* (refillPool: private halves before the upload)                          *)
WelcomesAreJoinable ==
    \A c \in Convs : welcome[c] # 0 /\ c \notin joined => welcome[c] \in local
WelcomesAreJoinableIfKept == "wiped" \notin ways /\ ~revoked => WelcomesAreJoinable

(* The server never holds more of a device's key packages than KP_TARGET.  *)
(* (ensureKeyPackagePool: callers share one refill)                        *)
PoolIsBounded == Cardinality(pool) <= Target

(* No commit adds a device that is a member of the conversation's group,   *)
(* though two sweeps may be about to.  (provisionDevice: looked at again   *)
(* in the lock)                                                            *)
AddedOnce ==
    [][\A c \in Convs : welcome'[c] \notin {0, welcome[c]} => c \notin inGroup]_vars

(* The new device comes to be in all conversations, archived ones too,     *)
(* whatever requests fail and whether or not device:new is heard.          *)
(* (checkAndProvisionOnConnect)                                            *)
NewDeviceJoins == <>(joined = Convs)
NewDeviceJoinsCalmly == ways = {} => NewDeviceJoins

(* A revoked device ends up in no conversation's group, for good: not if   *)
(* device:revoked is missed, a conversation is being provided to the       *)
(* device when the groups are gone through, a removal fails, or the app is *)
(* killed before it knows of one.  (removeRevokedDeviceLeaves,             *)
(* recoverPendingRemovals)                                                 *)
RevokedLeaves == <>[](revoked => inGroup = {})
=============================================================================
