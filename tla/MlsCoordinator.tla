--------------------------- MODULE MlsCoordinator ---------------------------
(***************************************************************************)
(* One conversation as MlsCoordinatorService of one device sees it: the    *)
(* state machine EMPTY .. READY .. FAILED, the initialization barrier, the *)
(* failure counters and the recovery timer, and the calls that run over    *)
(* them concurrently (mls-coordinator.service.ts).  The code runs on one   *)
(* thread: a step of this module is the code between two awaits, and an    *)
(* operation of MlsService together with what follows its await.           *)
(*                                                                         *)
(* The group itself is reduced to what the coordinator can observe of it:  *)
(* its epoch, whether it has left the server's chain, the commits that     *)
(* replaced this device's leaf, and the Welcomes that came with them.      *)
(***************************************************************************)
EXTENDS Integers, FiniteSetsExt

CONSTANTS
    Calls,                  \* bound: calls from pages, socket handlers, sweeps
    Timers,                 \* bound: recovery timers set at a time
    Uses,                   \* what the session may be used for, one use per behaviour
    Beginnings,             \* the group states the session may start with
    MaxEpoch,               \* bound: epochs of the conversation
    MaxAttempts,            \* 3 in scheduleFailedRecovery
    MaxCommitFailures,      \* MAX_COMMIT_FAILURES
    MaxDecryptionFailures   \* MAX_DECRYPTION_FAILURES

AllKinds == {"welcome", "ensure", "commit", "catchup", "decrypt", "restore", "clear", "conflict"}

ASSUME ConstantsAssumption ==
    /\ Timers \subseteq Nat /\ IsFiniteSet(Timers) /\ IsFiniteSet(Calls)
    /\ Calls \cap Timers = {}
    /\ \A u \in Uses : /\ u.kinds \in [Calls -> SUBSET AllKinds] /\ u.calls \subseteq Calls
                        /\ u.repeat \in BOOLEAN /\ u.faults \in Nat
                        /\ u.epochs \in 1 .. MaxEpoch
    /\ Beginnings \subseteq {"new", "member", "forked", "invited"}
    /\ {MaxEpoch, MaxAttempts, MaxCommitFailures, MaxDecryptionFailures} \subseteq Nat

Procs == Calls \cup Timers

VARIABLES
    use,                \* the methods each caller calls, how many at a time, again
                        \* after they have ended; bounds: failed requests, epochs
    st,                 \* states.get(convId), "UNKNOWN" before it is derived
    held,               \* registrations of the barrier that are not released
    call,               \* the calls and the recoveries, each at its await
    attempts,           \* failedRecovery.get(convId)?.attempts ?? 0
    commitFailures,     \* commitFailureCounts
    decryptionFailures,
    caughtUp,           \* convId is in caughtUpConvs
    group,              \* groupStates[convId]: epoch, -1 without a state
    tombstone,          \* lastKnownEpochs[convId]
    digests,            \* processedWelcomeDigests, a Welcome being its epoch
    head,               \* server: the next epoch to be committed
    invites,            \* server: commits that replaced this device's leaf
    row,                \* server: the pending Welcome, 0 when there is none
    faults

memory  == <<st, held, call, attempts, commitFailures, decryptionFailures, caughtUp>>
storage == <<group, tombstone, digests>>
server  == <<head, invites, row, use>>
vars    == <<memory, storage, server, faults>>

-----------------------------------------------------------------------------
(* The state machine. *)

Allowed ==
    [EMPTY        |-> {"JOINING", "INITIALIZING", "READY", "FAILED"},
     JOINING      |-> {"READY", "EMPTY", "FAILED"},
     INITIALIZING |-> {"READY", "JOINING", "EMPTY", "FAILED"},
     READY        |-> {"APPLYING", "JOINING", "EMPTY", "FAILED"},
     APPLYING     |-> {"READY", "FAILED"},
     FAILED       |-> {"EMPTY"}]

From == IF st = "UNKNOWN" THEN "EMPTY" ELSE st
Legal(t) == t = From \/ t \in Allowed[From]

(* transitionState: any move but the one to READY clears the count. *)
Enter(t) ==
    /\ st' = IF t = From THEN st ELSE t
    /\ decryptionFailures' = IF t # From /\ t # "READY" THEN 0 ELSE decryptionFailures

Remain == UNCHANGED <<st, decryptionFailures>>

(* setTimeout in scheduleFailedRecovery: one more timer, whatever timer is *)
(* already set for the conversation.                                       *)
WithTimer(f) ==
    LET unset == {t \in Timers : f[t].pc = "off"}
    IN  IF attempts >= MaxAttempts \/ unset = {} THEN f
        ELSE [f EXCEPT ![Min(unset)].pc = "armed"]

At(p, l) == call[p].pc = l
Goto(p, l) == [call EXCEPT ![p].pc = l]

(* A timer that has fired and run its course can be set again. *)
Ended(p) == Goto(p, IF p \in Timers THEN "off" ELSE "done")

Fault == faults < use.faults /\ faults' = faults + 1
NoFault == UNCHANGED faults

-----------------------------------------------------------------------------
(* What the coordinator asks of MlsService (modelled by what it changes    *)
(* and returns; "failed" is a network, storage or key-package error).      *)

NoState == [epoch |-> -1, forked |-> FALSE]
HasState == group # NoState

ProcessWelcome(w, result) ==
    /\ \/ /\ result = "already-processed"
          /\ w \in digests
          /\ row' = IF row = w THEN 0 ELSE row
          /\ UNCHANGED <<group, digests>>
          /\ NoFault
       \/ /\ result = "obsolete"
          /\ w \notin digests /\ group.epoch > w
          /\ digests' = digests \cup {w}
          /\ UNCHANGED <<group, row>>
          /\ NoFault
       \/ /\ result = "joined"
          /\ w \notin digests /\ group.epoch <= w
          /\ group' = [epoch |-> w, forked |-> FALSE]
          /\ digests' = digests \cup {w}
          /\ row' = IF row = w THEN 0 ELSE row
          /\ NoFault
       \/ /\ result = "failed"
          /\ w \notin digests
          /\ UNCHANGED <<group, digests, row>>
          /\ Fault
    /\ UNCHANGED <<tombstone, head, invites, use>>

(* A Welcome that cannot be processed counts as none. *)
FetchPendingWelcome(result) ==
    \/ result = "none" /\ row = 0 /\ NoFault /\ UNCHANGED <<storage, server>>
    \/ result = "none" /\ row # 0 /\ ProcessWelcome(row, "failed")
    \/ result \in {"already-processed", "obsolete", "joined"} /\ row # 0 /\ ProcessWelcome(row, result)
    \/ result = "failed" /\ Fault /\ UNCHANGED <<storage, server>>

(* The commits that this device cannot process. *)
Barred == {e \in invites : e >= group.epoch}

CatchUp(result) ==
    /\ \/ /\ result = "current"
          /\ ~HasState \/ group.epoch >= head
          /\ UNCHANGED group
          /\ NoFault
       \/ /\ result = "applied"
          /\ HasState /\ ~group.forked /\ group.epoch < head /\ Barred = {}
          /\ group' = [group EXCEPT !.epoch = head]
          /\ NoFault
       \/ /\ result = "crypto"
          /\ HasState /\ group.epoch < head
          /\ group.forked \/ Barred # {}
          /\ group' = IF group.forked THEN group ELSE [group EXCEPT !.epoch = Min(Barred)]
          /\ NoFault
       \/ /\ result = "failed"
          /\ Fault
          /\ UNCHANGED group
    /\ UNCHANGED <<tombstone, digests, server>>

ApplyCommit(e, result) ==
    /\ \/ result = "applied" /\ (~HasState \/ group.epoch > e) /\ UNCHANGED group
       \/ result = "gap" /\ HasState /\ group.epoch < e /\ UNCHANGED group
       \/ /\ result = "applied"
          /\ group.epoch = e /\ ~group.forked /\ e \notin invites
          /\ group' = [group EXCEPT !.epoch = e + 1]
       \/ /\ result = "crypto"
          /\ group.epoch = e
          /\ group.forked \/ e \in invites
          /\ UNCHANGED group
    /\ NoFault
    /\ UNCHANGED <<tombstone, digests, server>>

(* A message of an earlier epoch may be unreadable for a current member.   *)
Decrypt(m, result) ==
    /\ \/ result = "not ready" /\ ~HasState
       \/ result = "ahead" /\ HasState /\ m > group.epoch
       \/ result = "plaintext" /\ m <= group.epoch /\ ~group.forked
       \/ result = "crypto" /\ m <= group.epoch /\ group.forked
       \/ result = "too old" /\ m < group.epoch
    /\ NoFault
    /\ UNCHANGED <<storage, server>>

WipeGroup ==
    /\ group' = NoState
    /\ tombstone' = IF group.epoch > tombstone THEN group.epoch ELSE tombstone
    /\ UNCHANGED <<digests, server>>

-----------------------------------------------------------------------------
Blank == [kind |-> "none", pc |-> "off", epoch |-> 0, waits |-> {},
          ready |-> FALSE, counts |-> FALSE]

Begin(p, k, e) == [call EXCEPT ![p] = [Blank EXCEPT !.kind = k, !.epoch = e]]

Init ==
    /\ use \in Uses
    /\ st = "UNKNOWN"
    /\ held = {}
    /\ call = [p \in Procs |-> [Blank EXCEPT !.kind = IF p \in Timers THEN "recovery" ELSE "none"]]
    /\ attempts = 0 /\ commitFailures = 0 /\ decryptionFailures = 0
    /\ caughtUp = FALSE
    /\ tombstone = -1 /\ digests = {} /\ faults = 0
    /\ \E b \in Beginnings :
          /\ head = IF b = "new" THEN 0 ELSE 1
          /\ invites = IF b = "invited" THEN {0} ELSE {}
          /\ row = IF b = "invited" THEN 1 ELSE 0
          /\ group = IF b \in {"member", "forked"}
                     THEN [epoch |-> 1, forked |-> b = "forked"] ELSE NoState

(* Other devices commit; some of their commits re-invite this device, and  *)
(* the server keeps one pending Welcome, the latest.                       *)
OthersCommit ==
    /\ head \in 1 .. use.epochs - 1
    /\ head' = head + 1
    /\ UNCHANGED <<memory, storage, invites, row, use, faults>>

OthersInvite ==
    /\ head \in 1 .. use.epochs - 1
    /\ head' = head + 1
    /\ invites' = invites \cup {head}
    /\ row' = head + 1
    /\ UNCHANGED <<memory, storage, use, faults>>

-----------------------------------------------------------------------------
(* getOrDeriveState: read from storage once; concurrent callers share the  *)
(* read and resume one after another before anything else runs.            *)

Wait(p, k, e) ==
    /\ call' = [Begin(p, k, e) EXCEPT ![p].pc = "derive"]
    /\ UNCHANGED <<st, held, attempts, commitFailures, decryptionFailures, caughtUp>>
    /\ UNCHANGED <<storage, server, faults>>

Derive ==
    /\ \E p \in Procs : At(p, "derive")
    /\ st' = IF HasState THEN "READY" ELSE "EMPTY"
    /\ call' = [p \in Procs |-> IF At(p, "derive")
                                THEN [call[p] EXCEPT !.pc = "derived", !.ready = HasState]
                                ELSE call[p]]
    /\ UNCHANGED <<held, attempts, commitFailures, decryptionFailures, caughtUp>>
    /\ UNCHANGED <<storage, server, faults>>

-----------------------------------------------------------------------------
(* processWelcome. *)

(* FAILED is left through EMPTY first.  The barrier is registered before   *)
(* the transition, and only the code after it releases the barrier: a      *)
(* transition that throws leaves it held, by a call that is over.          *)
WelcomeBody(p, ready, f) ==
    /\ \/ /\ ready
          /\ call' = [f EXCEPT ![p].pc = "idempotent"]
          /\ Remain /\ UNCHANGED held
       \/ /\ ~ready /\ st = "READY"
          /\ call' = [f EXCEPT ![p].pc = "done"]
          /\ Remain /\ UNCHANGED held
       \/ /\ ~ready /\ st # "READY" /\ (st = "FAILED" \/ Legal("JOINING"))
          /\ held' = held \cup {p}
          /\ Enter("JOINING")
          /\ call' = [f EXCEPT ![p].pc = "join"]
       \/ /\ ~ready /\ st # "READY" /\ ~(st = "FAILED" \/ Legal("JOINING"))
          /\ held' = held \cup {p}
          /\ Remain
          /\ call' = [f EXCEPT ![p].pc = "thrown"]
    /\ UNCHANGED <<attempts, commitFailures, caughtUp, storage, server, faults>>

StartWelcome(p) ==
    \E e \in invites :
        IF st = "UNKNOWN" THEN Wait(p, "welcome", e + 1)
        ELSE WelcomeBody(p, st = "READY", Begin(p, "welcome", e + 1))

WelcomeIdempotent(p) ==
    /\ At(p, "idempotent")
    /\ \E r \in {"already-processed", "obsolete", "joined", "failed"} : ProcessWelcome(call[p].epoch, r)
    /\ call' = Goto(p, "done")
    /\ Remain
    /\ UNCHANGED <<held, attempts, commitFailures, caughtUp>>

\* A slip: the barrier is released on success only, not in the finally block.
SettleHeld(p, succeeded) ==
    /\ IF succeeded /\ Legal("READY")
       THEN held' = held \ {p} /\ Enter("READY") /\ call' = Goto(p, "done")
       ELSE UNCHANGED held /\ Enter("FAILED") /\ call' = WithTimer(Goto(p, "done"))
    /\ UNCHANGED <<attempts, commitFailures, caughtUp>>

(* A successful operation that finds FAILED throws out of transitionState  *)
(* and takes the path of a failed one.                                     *)
Settle(p, succeeded) ==
    /\ held' = held \ {p}
    /\ IF succeeded /\ Legal("READY")
       THEN Enter("READY") /\ call' = Goto(p, "done")
       ELSE Enter("FAILED") /\ call' = WithTimer(Goto(p, "done"))
    /\ UNCHANGED <<attempts, commitFailures, caughtUp>>

WelcomeJoin(p) ==
    /\ At(p, "join")
    /\ \E r \in {"already-processed", "obsolete", "joined", "failed"} :
          ProcessWelcome(call[p].epoch, r) /\ Settle(p, r # "failed")

-----------------------------------------------------------------------------
(* ensureGroupReady. *)

\* A slip: the barrier is not consulted, the first design of the method.
EnsureLoopUnguarded(p, f) ==
    /\ \/ st = "READY" /\ call' = [f EXCEPT ![p].pc = "refresh"] /\ Remain /\ UNCHANGED held
       \/ /\ st # "READY"
          /\ held' = held \cup {p}
          /\ Enter("INITIALIZING")
          /\ call' = [f EXCEPT ![p].pc = "check"]
    /\ UNCHANGED <<attempts, commitFailures, caughtUp, storage, server, faults>>

EnsureLoop(p, f) ==
    /\ \/ /\ st = "READY"
          /\ call' = [f EXCEPT ![p].pc = "refresh"]
          /\ Remain /\ UNCHANGED held
       \/ /\ st # "READY" /\ held # {}
          /\ call' = [f EXCEPT ![p].pc = "waiting", ![p].waits = held]
          /\ Remain /\ UNCHANGED held
       \/ /\ st # "READY" /\ held = {} /\ (st = "FAILED" \/ Legal("INITIALIZING"))
          /\ held' = {p}
          /\ Enter("INITIALIZING")
          /\ call' = [f EXCEPT ![p].pc = "check"]
       \/ /\ st # "READY" /\ held = {} /\ ~(st = "FAILED" \/ Legal("INITIALIZING"))
          /\ held' = {p}
          /\ Remain
          /\ call' = [f EXCEPT ![p].pc = "thrown"]
    /\ UNCHANGED <<attempts, commitFailures, caughtUp, storage, server, faults>>

StartEnsure(p) == EnsureLoop(p, Begin(p, "ensure", 0))

EnsureAgain(p) ==
    /\ At(p, "waiting") /\ call[p].kind = "ensure"
    /\ call[p].waits \cap held = {}
    /\ EnsureLoop(p, [call EXCEPT ![p].waits = {}])

(* Already READY: only a catch-up, whose failure the caller sees. *)
EnsureRefresh(p) ==
    /\ At(p, "refresh")
    /\ \E r \in {"current", "applied", "crypto", "failed"} : CatchUp(r)
    /\ call' = Goto(p, "done")
    /\ Remain
    /\ UNCHANGED <<held, attempts, commitFailures, caughtUp>>

(* MlsService.ensureGroupReady: a pending Welcome first ...                *)
EnsureCheck(p) ==
    /\ At(p, "check")
    /\ \E r \in {"none", "already-processed", "obsolete", "joined", "failed"} :
          /\ FetchPendingWelcome(r)
          /\ IF r = "joined" THEN Settle(p, TRUE)
             ELSE /\ call' = Goto(p, "establish")
                  /\ Remain
                  /\ UNCHANGED <<held, attempts, commitFailures, caughtUp>>

(* ... then the commits a member missed ...                                *)
EnsureMember(p) ==
    /\ At(p, "establish") /\ HasState
    /\ \E r \in {"current", "applied", "crypto", "failed"} :
          CatchUp(r) /\ Settle(p, r \in {"current", "applied"})

(* ... or a new group, or an invitation that does not come.                *)
EnsureGenesis(p) ==
    /\ At(p, "establish") /\ ~HasState
    /\ \/ /\ head = 0
          /\ head' = 1
          /\ group' = [epoch |-> 1, forked |-> FALSE]
          /\ Settle(p, TRUE)
          /\ NoFault
       \/ /\ head > 0
          /\ UNCHANGED <<head, group>>
          /\ Settle(p, FALSE)
          /\ NoFault
       \/ /\ UNCHANGED <<head, group>>
          /\ Settle(p, FALSE)
          /\ Fault
    /\ UNCHANGED <<tombstone, digests, invites, row, use>>

(* The user leaves while the invitation is awaited: AbortError. *)
EnsureAbort(p) ==
    /\ At(p, "establish") /\ ~HasState /\ head > 0
    /\ held' = held \ {p}
    /\ IF Legal("EMPTY") THEN Enter("EMPTY") ELSE Remain
    /\ call' = Goto(p, "done")
    /\ UNCHANGED <<attempts, commitFailures, caughtUp, storage, server, faults>>

(* 409 on the genesis commit: the group is cleared and the epochConflict$  *)
(* subscriber runs, then the error is thrown into the method's own catch.  *)
EnsureConflict(p) ==
    /\ At(p, "establish") /\ ~HasState
    /\ Fault
    /\ WipeGroup
    /\ held' = held \ {p}
    /\ Enter("FAILED")
    /\ call' = WithTimer(WithTimer(Goto(p, "done")))
    /\ UNCHANGED <<attempts, commitFailures, caughtUp>>

-----------------------------------------------------------------------------
(* processIncomingCommit and catchUpMissedCommits: trackCommitOutcome. *)

CommitBody(p, ready, f) ==
    /\ IF ready THEN Enter("APPLYING") ELSE Remain
    /\ call' = [f EXCEPT ![p].pc = "apply", ![p].ready = ready]
    /\ UNCHANGED <<held, attempts, commitFailures, caughtUp, storage, server, faults>>

StartCommit(p) ==
    \E e \in 1 .. head - 1 :
        IF st = "UNKNOWN" THEN Wait(p, "commit", e)
        ELSE CommitBody(p, st = "READY", Begin(p, "commit", e))

StartCatchUp(p) ==
    IF st = "UNKNOWN" THEN Wait(p, "catchup", 0)
    ELSE CommitBody(p, st = "READY", Begin(p, "catchup", 0))

(* What follows the method: a decryption that caught up decrypts again,    *)
(* one that could not goes on to its own error.                            *)
AfterSuccess(p) == Goto(p, IF call[p].kind = "decrypt" THEN "retry" ELSE "done")
AfterFailure(p) == IF call[p].kind = "decrypt" THEN [Goto(p, "heal") EXCEPT ![p].counts = caughtUp]
                   ELSE Goto(p, "done")

\* A slip: a failed batch leaves the conversation where it was.
CommitFailedQuietly(p, n, permanent) ==
    /\ commitFailures' = n
    /\ Remain
    /\ call' = AfterFailure(p)

(* Failure number n: FAILED at the limit, otherwise READY again, if that   *)
(* is a legal move.                                                        *)
CommitFailed(p, n, permanent) ==
    /\ commitFailures' = n
    /\ IF n >= MaxCommitFailures \/ permanent
       THEN Enter("FAILED") /\ call' = WithTimer(AfterFailure(p))
       ELSE /\ IF Legal("READY") THEN Enter("READY") ELSE Remain
            /\ call' = AfterFailure(p)

CommitSucceeded(p) ==
    /\ commitFailures' = 0
    /\ IF call[p].ready THEN Enter("READY") ELSE Remain
    /\ call' = AfterSuccess(p)
    /\ caughtUp' = (caughtUp \/ call[p].kind # "commit")

(* caughtUp decides whether an error that is not recognised counts as      *)
(* permanent; a network failure is not recognised, a commit that fails its *)
(* verification may be (PERMANENT_PATTERNS).                               *)
CommitApply(p) ==
    /\ At(p, "apply")
    /\ \E r \in {"current", "applied", "gap", "crypto", "failed"} :
          /\ IF call[p].kind = "commit" THEN ApplyCommit(call[p].epoch, r) ELSE CatchUp(r)
          /\ \/ /\ r \in {"current", "applied"}
                /\ ~call[p].ready \/ Legal("READY")
                /\ CommitSucceeded(p)
             \/ /\ r \in {"current", "applied"}
                /\ call[p].ready /\ ~Legal("READY")
                /\ CommitFailed(p, 1, caughtUp)
                /\ UNCHANGED caughtUp
             \/ /\ r = "gap" /\ call[p].ready
                /\ call' = Goto(p, "gap")
                /\ Remain
                /\ UNCHANGED <<commitFailures, caughtUp>>
             \/ /\ r \in {"crypto", "failed"} /\ call[p].ready
                /\ \E permanent \in {caughtUp, caughtUp \/ r = "crypto"} :
                      CommitFailed(p, commitFailures + 1, permanent)
                /\ UNCHANGED caughtUp
             \/ /\ r \in {"gap", "crypto", "failed"} /\ ~call[p].ready
                /\ call' = AfterFailure(p)
                /\ Remain
                /\ UNCHANGED <<commitFailures, caughtUp>>
    /\ UNCHANGED <<held, attempts>>

(* An EpochGapError: catch up on MlsService directly. *)
CommitGap(p) ==
    /\ At(p, "gap")
    /\ \E r \in {"current", "applied", "crypto", "failed"} :
          /\ CatchUp(r)
          /\ IF r \in {"current", "applied"} /\ Legal("READY")
             THEN /\ commitFailures' = 0
                  /\ Enter("READY")
                  /\ call' = Goto(p, "done")
             ELSE CommitFailed(p, IF r \in {"current", "applied"} THEN 1 ELSE commitFailures + 1, FALSE)
    /\ UNCHANGED <<held, attempts, caughtUp>>

-----------------------------------------------------------------------------
(* decryptMessage. *)

StartDecrypt(p) ==
    \E m \in 1 .. head :
        /\ call' = [Begin(p, "decrypt", m) EXCEPT
                       ![p].pc = IF held = {} THEN "decrypt" ELSE "waiting",
                       ![p].waits = held]
        /\ UNCHANGED <<st, held, attempts, commitFailures, decryptionFailures, caughtUp>>
        /\ UNCHANGED <<storage, server, faults>>

DecryptWake(p) ==
    /\ At(p, "waiting") /\ call[p].kind = "decrypt"
    /\ call[p].waits \cap held = {}
    /\ call' = [call EXCEPT ![p].pc = "decrypt", ![p].waits = {}]
    /\ UNCHANGED <<st, held, attempts, commitFailures, decryptionFailures, caughtUp>>
    /\ UNCHANGED <<storage, server, faults>>

Delivered(p) ==
    /\ Legal("READY")
    /\ st' = "READY"
    /\ decryptionFailures' = 0
    /\ call' = Goto(p, "done")
    /\ UNCHANGED <<held, attempts, commitFailures>>

(* "too old" is permanent and "not ready" transient; the others are        *)
(* permanent once the conversation is known to be caught up.  Permanent    *)
(* errors are counted, except those of the state machine itself.           *)
Heal(p, r) ==
    /\ call' = [Goto(p, "heal") EXCEPT
                  ![p].counts = r = "too old" \/ (r \in {"ahead", "crypto"} /\ caughtUp)]
    /\ Remain
    /\ UNCHANGED <<held, attempts, commitFailures, caughtUp>>

DecryptFirst(p) ==
    /\ At(p, "decrypt")
    /\ \E r \in {"plaintext", "not ready", "ahead", "crypto", "too old"} :
          /\ Decrypt(call[p].epoch, r)
          /\ \/ r = "plaintext" /\ Delivered(p) /\ caughtUp' = TRUE
             \/ r = "plaintext" /\ ~Legal("READY") /\ Heal(p, r)
             \/ /\ r = "ahead"
                /\ caughtUp' = FALSE
                /\ call' = IF st = "UNKNOWN" THEN Goto(p, "derive")
                           ELSE [Goto(p, "apply") EXCEPT ![p].ready = st = "READY"]
                /\ IF st = "READY" THEN Enter("APPLYING") ELSE Remain
                /\ UNCHANGED <<held, attempts, commitFailures>>
             \/ r \in {"not ready", "crypto", "too old"} /\ Heal(p, r)

(* Once more after the catch-up; the error that counts is the first one.   *)
DecryptRetry(p) ==
    /\ At(p, "retry")
    /\ \E r \in {"plaintext", "not ready", "ahead", "crypto", "too old"} :
          /\ Decrypt(call[p].epoch, r)
          /\ IF r = "plaintext" /\ Legal("READY") THEN Delivered(p) /\ UNCHANGED caughtUp
             ELSE Heal(p, "ahead")

(* A pending Welcome may repair the group. *)
DecryptHeal(p) ==
    /\ At(p, "heal")
    /\ \E r \in {"none", "already-processed", "obsolete", "joined", "failed"} :
          /\ FetchPendingWelcome(r)
          /\ IF r = "joined" /\ Legal("READY") THEN Enter("READY") ELSE Remain
          /\ call' = Goto(p, IF r \in {"none", "failed"} \/ (r = "joined" /\ ~Legal("READY"))
                             THEN "verdict" ELSE "again")
    /\ UNCHANGED <<held, attempts, commitFailures, caughtUp>>

DecryptAgain(p) ==
    /\ At(p, "again")
    /\ \E r \in {"plaintext", "not ready", "ahead", "crypto", "too old"} :
          /\ Decrypt(call[p].epoch, r)
          /\ IF r = "plaintext" /\ Legal("READY") THEN Delivered(p)
             ELSE call' = Goto(p, "verdict") /\ Remain /\ UNCHANGED <<held, attempts, commitFailures>>
    /\ UNCHANGED caughtUp

(* Queued, or undecryptable; a historical message is not counted. *)
DecryptVerdict(p) ==
    /\ At(p, "verdict")
    /\ \/ /\ call' = Goto(p, "done")
          /\ Remain
       \/ /\ call[p].counts
          /\ decryptionFailures + 1 < MaxDecryptionFailures
          /\ decryptionFailures' = decryptionFailures + 1
          /\ call' = Goto(p, "done")
          /\ UNCHANGED st
       \/ /\ call[p].counts
          /\ decryptionFailures + 1 >= MaxDecryptionFailures
          /\ st' = "FAILED"
          /\ decryptionFailures' = IF st = "FAILED" THEN decryptionFailures + 1 ELSE 0
          /\ call' = WithTimer(Goto(p, "done"))
    /\ UNCHANGED <<held, attempts, commitFailures, caughtUp, storage, server, faults>>
-----------------------------------------------------------------------------
(* injectRestoredGroupStates: not while the barrier is held, neither when  *)
(* the states are filtered nor when they have been written.                *)

StartRestore(p) ==
    /\ call' = [Begin(p, "restore", 0) EXCEPT ![p].pc = IF held = {} THEN "inject" ELSE "done"]
    /\ UNCHANGED <<st, held, attempts, commitFailures, decryptionFailures, caughtUp>>
    /\ UNCHANGED <<storage, server, faults>>

(* Only where there is no state, and never below the tombstone.  READY is  *)
(* forced, whatever the state was.                                         *)
RestoreInject(p) ==
    /\ At(p, "inject")
    /\ \/ /\ ~HasState
          /\ \E e \in 1 .. head : e >= tombstone /\ group' = [epoch |-> e, forked |-> FALSE]
          /\ IF held = {} THEN Enter("READY") ELSE Remain
       \/ UNCHANGED group /\ Remain
    /\ call' = Goto(p, "done")
    /\ UNCHANGED <<held, attempts, commitFailures, caughtUp, tombstone, digests, server, faults>>

-----------------------------------------------------------------------------
(* clearConversationGroup, called by the user ("Restore encryption") and   *)
(* by a recovery: the history is swept, the group is deleted, the queue is *)
(* turned into placeholders, and only then the state is reset.             *)

StartClear(p) ==
    /\ call' = [Begin(p, "clear", 0) EXCEPT ![p].pc = "sweep"]
    /\ UNCHANGED <<st, held, attempts, commitFailures, decryptionFailures, caughtUp>>
    /\ UNCHANGED <<storage, server, faults>>

(* A recovery that fails starts over after the next delay. *)
GiveUp(p) ==
    IF call[p].kind = "recovery"
    THEN Enter("FAILED") /\ call' = WithTimer(Ended(p))
    ELSE Remain /\ call' = Ended(p)

SweepHistory(p) ==
    /\ At(p, "sweep")
    /\ \/ NoFault /\ Remain /\ call' = Goto(p, "wipe")
       \/ Fault /\ GiveUp(p)
    /\ UNCHANGED <<held, attempts, commitFailures, caughtUp, storage, server>>

Wipe(p) ==
    /\ At(p, "wipe")
    /\ WipeGroup
    /\ NoFault
    /\ Remain
    /\ call' = Goto(p, "reset")
    /\ UNCHANGED <<held, attempts, commitFailures, caughtUp>>

(* A recovery ends in FAILED, through EMPTY: the user is shown the button. *)
Reset(p) ==
    /\ At(p, "reset")
    /\ caughtUp' = FALSE
    /\ IF Legal("EMPTY")
       THEN /\ Enter(IF call[p].kind = "recovery" THEN "FAILED" ELSE "EMPTY")
            /\ call' = Ended(p)
       ELSE GiveUp(p)
    /\ UNCHANGED <<held, attempts, commitFailures, storage, server, faults>>

(* A membership operation answered with 409 clears the group and fires     *)
(* epochConflict$.                                                         *)
StartConflict(p) ==
    /\ HasState
    /\ Fault
    /\ WipeGroup
    /\ Enter("FAILED")
    /\ call' = WithTimer([Begin(p, "conflict", 0) EXCEPT ![p].pc = "done"])
    /\ UNCHANGED <<held, attempts, commitFailures, caughtUp>>

-----------------------------------------------------------------------------
(* recoverFromFailed, when a timer fires. *)

RecoverFromFailed(t) ==
    /\ At(t, "armed")
    /\ \/ /\ st # "FAILED"
          /\ attempts' = 0
          /\ call' = Ended(t)
          /\ Remain
       \/ /\ st = "FAILED"
          /\ attempts' = attempts + 1
          /\ call' = Goto(t, "fetch")
          /\ Enter("JOINING")
    /\ UNCHANGED <<held, commitFailures, caughtUp, storage, server, faults>>

Recovered(t) ==
    /\ Enter("READY")
    /\ attempts' = 0
    /\ call' = Ended(t)

\* A slip: a join is read as no repair at all.
RecoverFetchUnnoticed(t) ==
    /\ At(t, "fetch")
    /\ \E r \in {"none", "already-processed", "obsolete", "joined", "failed"} :
          /\ FetchPendingWelcome(r)
          /\ IF r = "failed" THEN GiveUp(t) ELSE call' = Goto(t, "catchup") /\ Remain
    /\ UNCHANGED <<held, attempts, commitFailures, caughtUp>>

RecoverFetch(t) ==
    /\ At(t, "fetch")
    /\ \E r \in {"none", "already-processed", "obsolete", "joined", "failed"} :
          /\ FetchPendingWelcome(r)
          /\ \/ r = "joined" /\ Legal("READY") /\ Recovered(t)
             \/ /\ r = "failed" \/ (r = "joined" /\ ~Legal("READY"))
                /\ GiveUp(t)
                /\ UNCHANGED attempts
             \/ /\ r \in {"none", "already-processed", "obsolete"}
                /\ call' = Goto(t, "catchup")
                /\ Remain /\ UNCHANGED attempts
    /\ UNCHANGED <<held, commitFailures, caughtUp>>

(* Commits that apply prove the state good; none at all proves nothing,    *)
(* and the group is cleared.                                               *)
RecoverCatchUp(t) ==
    /\ At(t, "catchup")
    /\ \E r \in {"current", "applied", "crypto", "failed"} :
          /\ CatchUp(r)
          /\ \/ r = "applied" /\ Legal("READY") /\ Recovered(t) /\ commitFailures' = 0
             \/ /\ r = "applied" /\ ~Legal("READY")
                /\ GiveUp(t)
                /\ commitFailures' = 0
                /\ UNCHANGED attempts
             \/ /\ r # "applied"
                /\ Enter("FAILED")
                /\ call' = Goto(t, "sweep")
                /\ UNCHANGED <<attempts, commitFailures>>
    /\ UNCHANGED <<held, caughtUp>>

-----------------------------------------------------------------------------
Start(p) ==
    /\ p \in use.calls
    /\ At(p, "off") \/ (use.repeat /\ At(p, "done"))
    /\ \/ "welcome" \in use.kinds[p] /\ StartWelcome(p)
       \/ "ensure" \in use.kinds[p] /\ StartEnsure(p)
       \/ "commit" \in use.kinds[p] /\ StartCommit(p)
       \/ "catchup" \in use.kinds[p] /\ StartCatchUp(p)
       \/ "decrypt" \in use.kinds[p] /\ StartDecrypt(p)
       \/ "restore" \in use.kinds[p] /\ StartRestore(p)
       \/ "clear" \in use.kinds[p] /\ StartClear(p)
       \/ "conflict" \in use.kinds[p] /\ StartConflict(p)

Resume(p) ==
    /\ At(p, "derived")
    /\ IF call[p].kind = "welcome" THEN WelcomeBody(p, call[p].ready, call)
       ELSE CommitBody(p, call[p].ready, call)

Continue(p) ==
    \/ WelcomeIdempotent(p) \/ WelcomeJoin(p)
    \/ EnsureAgain(p) \/ EnsureRefresh(p) \/ EnsureCheck(p)
    \/ EnsureMember(p) \/ EnsureGenesis(p) \/ EnsureAbort(p) \/ EnsureConflict(p)
    \/ CommitApply(p) \/ CommitGap(p)
    \/ DecryptWake(p) \/ DecryptFirst(p) \/ DecryptRetry(p)
    \/ DecryptHeal(p) \/ DecryptAgain(p) \/ DecryptVerdict(p)
    \/ RestoreInject(p)
    \/ SweepHistory(p) \/ Wipe(p) \/ Reset(p)

Recover(t) == RecoverFromFailed(t) \/ RecoverFetch(t) \/ RecoverCatchUp(t)

Resuming == \E p \in Procs : At(p, "derived")

Next ==
    \/ \E p \in Procs : Resume(p)
    \/ /\ ~Resuming
       /\ \/ \E p \in Calls : Start(p)
          \/ \E p \in Procs : Continue(p)
          \/ \E t \in Timers : Recover(t)
          \/ Derive
          \/ OthersCommit
          \/ OthersInvite

Spec == Init /\ [][Next]_vars

(* Fairness: a timer fires and what is awaited comes back or fails.  Calls *)
(* are made by nobody's obligation.                                        *)
Fairness ==
    /\ WF_vars(Derive)
    /\ \A p \in Procs : WF_vars(Resume(p)) /\ WF_vars(~Resuming /\ Continue(p))
    /\ \A t \in Timers : WF_vars(~Resuming /\ Recover(t))

FairSpec == Spec /\ Fairness

-----------------------------------------------------------------------------
(* Properties. *)

States == {"UNKNOWN"} \cup DOMAIN Allowed

Labels == {"off", "armed", "derive", "derived", "waiting", "join", "idempotent", "refresh",
           "check", "establish", "apply", "gap", "decrypt", "retry", "heal", "again",
           "verdict", "inject", "sweep", "wipe", "reset", "fetch", "catchup", "done", "thrown"}

Call == [kind : AllKinds \cup {"none", "recovery"}, pc : Labels, epoch : 0 .. MaxEpoch,
         waits : SUBSET Procs, ready : BOOLEAN, counts : BOOLEAN]

TypeOK ==
    /\ st \in States
    /\ held \subseteq Procs
    /\ call \in [Procs -> Call]
    /\ attempts \in 0 .. MaxAttempts
    /\ commitFailures \in Nat
    /\ decryptionFailures \in Nat
    /\ caughtUp \in BOOLEAN
    /\ group \in [epoch : -1 .. MaxEpoch, forked : BOOLEAN]
    /\ tombstone \in -1 .. MaxEpoch
    /\ digests \subseteq 1 .. MaxEpoch
    /\ head \in 0 .. MaxEpoch
    /\ invites \subseteq 0 .. MaxEpoch
    /\ row \in 0 .. MaxEpoch
    /\ faults \in 0 .. use.faults

(* At most one call establishes the group of the conversation at a time: a *)
(* second genesis would take the first one's unconfirmed state for its own.*)
OneInitialization ==
    \A p, q \in Calls :
        call[p].pc \in {"check", "establish"} /\ call[q].pc \in {"check", "establish"} => p = q

(* A registration of the barrier that nobody is left to release. *)
Leaked(q) == q \in held /\ At(q, "thrown")

(* decryptMessage returns a result, whichever calls it overlaps and        *)
(* however they fail, unless a call whose transition threw before its try  *)
(* has left the barrier held: then it waits for ever, and so does every    *)
(* later one. (waitForInitialization, ensureGroupReady, processWelcome)    *)
DecryptReturns ==
    \A p \in Calls :
        call[p].kind = "decrypt" ~> At(p, "done") \/ \E q \in call[p].waits : Leaked(q)

(* No conversation stays in a transitional state: JOINING, INITIALIZING    *)
(* and APPLYING are always left again, whichever calls overlap.            *)
TransitionsSettle == []<>(st \notin {"JOINING", "INITIALIZING", "APPLYING"})

(* scheduleFailedRecovery deduplicates: a conversation has one timer.      *)
OneTimer == Cardinality({t \in Timers : At(t, "armed")}) <= 1

(* Commits arrive, live or caught up with, one after another.              *)
CommitsInTurn ==
    /\ Cardinality(use.calls) = 1
    /\ \A p \in use.calls : use.kinds[p] \subseteq {"commit", "catchup"}

(* A conversation that is FAILED and still has a group state is being      *)
(* recovered, will be, or has used up its attempts, as long as commits     *)
(* arrive one after another. (scheduleFailedRecovery)                      *)
FailedIsAttended ==
    CommitsInTurn /\ st = "FAILED" /\ HasState =>
        \/ attempts = MaxAttempts
        \/ \E t \in Timers : call[t].pc # "off"

GoodGroup == HasState /\ ~group.forked /\ group.epoch = head /\ Barred = {}

(* As long as every request is answered and commits arrive one after       *)
(* another, a recovery never destroys a group state that is the server's   *)
(* current one: what a Welcome or a catch-up has repaired stays repaired.  *)
RecoverySparesGoodGroups ==
    [][\A t \in Timers :
           At(t, "wipe") /\ call'[t].pc = "reset" /\ faults = 0 /\ CommitsInTurn
               => ~GoodGroup]_vars

(* READY is a promise that there is a group state to encrypt with, but for *)
(* the group that a clear has deleted and is about to reset.               *)
ReadyHasState == st = "READY" => HasState \/ \E p \in Procs : At(p, "reset")

=============================================================================
