--------------------------- MODULE DecryptPipeline ---------------------------
(***************************************************************************)
(* How a received ciphertext becomes a line of the conversation.  MLS      *)
(* decrypts a message once: the ratchet generation is consumed in storage  *)
(* before anything is written to the message cache.  Between the two, and  *)
(* for as long as the group is not ready, the message is carried by one of *)
(* several callers: the page's socket handler, the notification service,   *)
(* loadHistory, the replay of the pending queue, the retry of cached       *)
(* placeholders, and the sweep that precedes clearConversationGroup.       *)
(*                                                                         *)
(* One device and one conversation.  A message is a number, in the order   *)
(* of sending; cache[m] is "none", "plain", "undec" (the [Encrypted]       *)
(* placeholder) or "blank" (an own message stored without its text).       *)
(***************************************************************************)
EXTENDS Integers, FiniteSets

CONSTANTS
    Messages,       \* the messages of the conversation, numbered from 1
    Passes,         \* maintenance passes that may be under way at once
    MaxAttempts,    \* MAX_REPLAY_ATTEMPTS
    Uses            \* what a behaviour may do, one use per behaviour

None == -1

ASSUME ConstantsAssumption ==
    /\ Messages \subseteq Nat \ {0}
    /\ MaxAttempts \in Nat \ {0}
    /\ \A u \in Uses : /\ {u.sent, u.mine, u.later} \subseteq SUBSET Messages
                        /\ u.passes \subseteq Passes
                        /\ u.kinds \subseteq {"load", "replay", "retry", "clear"}
                        /\ {u.overlap, u.fails, u.crashes} \subseteq BOOLEAN

VARIABLES
    use,        \* the messages sent, those of them another device of the user
                \* sent and those of the second epoch; the passes started, as
                \* many as there are of use.passes;
                \* whether a pass waits for what is under way, the coordinator
                \* may mark the conversation FAILED, the app may be killed
    head,       \* the epoch of the group at the server
    group,      \* this device's group state: epochs base .. epoch, stored
    used,       \* generations consumed in that group state, stored
    invited,    \* a Welcome waits at the server
    queue,      \* attempts of each entry of PendingDecryptRepository, stored
    cache,      \* MessageCacheService, stored
    caughtUp,   \* caughtUpConvs holds the conversation
    failed,     \* the conversation is FAILED
    arrived,    \* messages whose messageNew event was delivered
    known,      \* knownIds of the conversation page
    decryption, \* inFlightDecrypts: the shared decryption of each message
    reader,     \* the page's messageNew handler, for each message
    notifier,   \* the notification service, for each message
    echo,       \* what the page is about to store again after a replay
    pass        \* the maintenance passes under way

stored == <<group, used, queue, cache>>
callers == <<reader, notifier, echo, pass>>
vars == <<use, head, group, used, invited, queue, cache, caughtUp, failed, arrived,
          known, decryption, reader, notifier, echo, pass>>

Mine == use.mine
EpochOf == [m \in Messages |-> IF m \in use.later THEN 1 ELSE 0]
LastEpoch == IF use.later = {} THEN 0 ELSE 1
Sent == {m \in use.sent : EpochOf[m] <= head}

First(S) == CHOOSE m \in S : \A n \in S : m <= n

NoGroup == [base |-> None, epoch |-> None]
HasGroup == group # NoGroup
Ready == HasGroup /\ ~failed

Values == {"none", "plain", "undec", "blank"}
NoValues == [m \in Messages |-> "none"]
NoTries == [m \in Messages |-> None]

NoDecryption == [pc |-> "idle", fatal |-> FALSE, tries |-> None]

(* todo: the messages a pass has still to visit, in order; value: what it  *)
(* is about to store; shown: what a replay will hand to the page; caller:  *)
(* the decryption whose catch-up awaits the pass.                          *)
NoPass == [kind |-> "none", pc |-> "idle", todo |-> {}, gap |-> {}, tries |-> NoTries,
           value |-> "none", shown |-> NoValues, caller |-> 0]

Idle(p) == p \in use.passes /\ pass[p] = NoPass
At(p, kind, pc) == pass[p].kind = kind /\ pass[p].pc = pc
Current(p) == First(pass[p].todo)

Init ==
    /\ use \in Uses
    /\ head = 0
    /\ group \in {NoGroup, [base |-> 0, epoch |-> 0]}
    /\ used = {}
    /\ invited = ~HasGroup
    /\ queue = NoTries
    /\ cache = NoValues
    /\ caughtUp = FALSE
    /\ failed = FALSE
    /\ arrived = {}
    /\ known = {}
    /\ decryption = [m \in Messages |-> NoDecryption]
    /\ reader = [m \in Messages |-> "idle"]
    /\ notifier = [m \in Messages |-> "idle"]
    /\ echo = NoValues
    /\ pass = [p \in Passes |-> NoPass]

-----------------------------------------------------------------------------
(* Unless they overlap, no message is in the hands of two callers: a pass  *)
(* waits for the others and for what is being received, a message for the  *)
(* pass that has it, and a lookup in the cache is quicker than a           *)
(* decryption.                                                             *)

Attended(m) == decryption[m] # NoDecryption \/ reader[m] # "idle" \/ notifier[m] # "idle"

MayDeliver(m) ==
    use.overlap \/ \A p \in Passes : pass[p].kind \notin {"load", "clear"} /\ m \notin pass[p].todo

MayBegin ==
    \/ use.overlap
    \/ /\ \A p \in use.passes : Idle(p)
       /\ \A m \in Messages : ~Attended(m) /\ echo[m] = "none"

MayReplay == use.overlap \/ \A p \in Passes : pass[p].kind \in {"none", "load"}

-----------------------------------------------------------------------------
(* One decryption: MlsMessageCryptoService.decryptMessage, in the storage  *)
(* lock.  The generation is consumed when, and only when, it succeeds.     *)

Verdict(m) ==
    CASE ~HasGroup -> "unready"
      [] HasGroup /\ EpochOf[m] > group.epoch -> "ahead"
      [] HasGroup /\ EpochOf[m] < group.base -> "old"
      [] HasGroup /\ EpochOf[m] \in group.base .. group.epoch ->
            IF m \in used THEN "past" ELSE "plain"

\* A slip: the advanced ratchet is stored whatever comes of the decryption.
ConsumeAlways(m) == used' = used \cup {m}

Consume(m) == used' = IF Verdict(m) = "plain" THEN used \cup {m} ELSE used

(* classifyError: not ready is transient, a consumed or forgotten key is   *)
(* permanent, and so is anything unrecognised once the device believes it  *)
(* is caught up.                                                           *)
Fatal(v) ==
    CASE v = "unready" -> FALSE
      [] v \in {"old", "past"} -> TRUE
      [] v \in {"ahead", "plain"} -> caughtUp

-----------------------------------------------------------------------------
(* MlsCoordinatorService.decryptMessage. *)

(* The callers of a message in flight share one promise. *)
Ask(m) ==
    decryption' = IF decryption[m] = NoDecryption
                  THEN [decryption EXCEPT ![m] = [NoDecryption EXCEPT !.pc = "try"]]
                  ELSE decryption

(* What each caller stores on a result. *)

ReaderValue(m, r) ==
    CASE r = "plain" -> "plain"
      [] r = "pending" -> "idle"
      [] r = "undec" -> IF m \in Mine THEN "blank" ELSE "undec"

LoadValue(m, r) ==
    CASE r = "plain" -> "plain"
      [] r = "pending" -> IF m \in Mine THEN "blank" ELSE "none"
      [] r = "undec" -> IF m \in Mine THEN "blank" ELSE "undec"

Answered(p, m, r) ==
    IF At(p, "load", "orphanWait") /\ Current(p) = m
    THEN [pass[p] EXCEPT !.pc = "orphanStore", !.value = IF r = "plain" THEN "plain" ELSE "none"]
    ELSE IF At(p, "load", "gapWait") /\ Current(p) = m
    THEN [pass[p] EXCEPT !.pc = "gapStore", !.value = LoadValue(m, r)]
    ELSE pass[p]

Deliver(m, r) ==
    /\ decryption' = [decryption EXCEPT ![m] = NoDecryption]
    /\ reader' = IF reader[m] = "wait" THEN [reader EXCEPT ![m] = ReaderValue(m, r)] ELSE reader
    /\ notifier' = IF notifier[m] = "wait"
                   THEN [notifier EXCEPT ![m] = IF r = "plain" THEN "plain" ELSE "idle"]
                   ELSE notifier
    /\ pass' = [p \in Passes |-> Answered(p, m, r)]
    /\ UNCHANGED echo

DecryptAt(m, pc) == decryption[m].pc = pc
Proceed(m, pc) == decryption' = [decryption EXCEPT ![m].pc = pc]

(* An attempt that decrypts and cannot enter READY, because the            *)
(* conversation is FAILED, ends like an attempt that failed.               *)
DecryptTry(m) ==
    /\ DecryptAt(m, "try")
    /\ use.overlap \/ reader[m] # "exists"
    /\ Consume(m)
    /\ IF Verdict(m) = "plain" /\ ~failed
       THEN caughtUp' = TRUE /\ Deliver(m, "plain")
       ELSE /\ caughtUp' = (caughtUp /\ Verdict(m) # "ahead")
            /\ decryption' = [decryption EXCEPT
                  ![m].pc = IF Verdict(m) = "ahead" THEN "catchUp" ELSE "heal",
                  ![m].fatal = Fatal(Verdict(m))]
            /\ UNCHANGED callers
    /\ UNCHANGED <<use, head, group, invited, queue, cache, failed, arrived, known>>

(* The catch-up replays the queue before it returns, on a READY            *)
(* conversation; a failed one leaves the original error to be classified.  *)
DecryptCatchUp(m) ==
    /\ DecryptAt(m, "catchUp")
    /\ \/ /\ group' = IF HasGroup THEN [group EXCEPT !.epoch = head] ELSE group
          /\ caughtUp' = TRUE
          /\ IF Ready /\ queue # NoTries
             THEN \E p \in Passes :
                     /\ Idle(p)
                     /\ MayReplay
                     /\ pass' = [pass EXCEPT ![p] = [NoPass EXCEPT !.kind = "replay", !.pc = "next",
                                    !.todo = {n \in Messages : queue[n] # None}, !.tries = queue,
                                    !.caller = m]]
                     /\ Proceed(m, "replaying")
             ELSE Proceed(m, "again") /\ UNCHANGED pass
       \/ /\ decryption' = [decryption EXCEPT ![m].pc = "heal", ![m].fatal = caughtUp]
          /\ UNCHANGED <<group, caughtUp, pass>>
    /\ UNCHANGED <<use, head, used, invited, queue, cache, failed, arrived, known,
                   reader, notifier, echo>>

DecryptAgain(m) ==
    /\ DecryptAt(m, "again")
    /\ Consume(m)
    /\ IF Verdict(m) = "plain" /\ ~failed
       THEN Deliver(m, "plain")
       ELSE /\ decryption' = [decryption EXCEPT ![m].pc = "heal", ![m].fatal = caughtUp]
            /\ UNCHANGED callers
    /\ UNCHANGED <<use, head, group, invited, queue, cache, caughtUp, failed, arrived, known>>

(* fetchAndProcessPendingWelcome: a join starts new ratchets and forgets   *)
(* the earlier epochs.  Entering READY from FAILED throws, after the join. *)
DecryptHeal(m) ==
    /\ DecryptAt(m, "heal")
    /\ \/ /\ invited
          /\ group' = [base |-> head, epoch |-> head]
          /\ used' = {}
          /\ invited' = FALSE
          /\ Proceed(m, IF failed THEN "verdict" ELSE "healed")
       \/ /\ Proceed(m, "verdict")
          /\ UNCHANGED <<group, used, invited>>
    /\ UNCHANGED <<use, head, queue, cache, caughtUp, failed, arrived, known>>
    /\ UNCHANGED callers

DecryptHealed(m) ==
    /\ DecryptAt(m, "healed")
    /\ Consume(m)
    /\ IF Verdict(m) = "plain" /\ ~failed
       THEN Deliver(m, "plain")
       ELSE Proceed(m, "verdict") /\ UNCHANGED callers
    /\ UNCHANGED <<use, head, group, invited, queue, cache, caughtUp, failed, arrived, known>>

(* Undecryptable, or queued: enqueue first reads the entry it replaces. *)
DecryptVerdict(m) ==
    /\ DecryptAt(m, "verdict")
    /\ IF decryption[m].fatal
       THEN Deliver(m, "undec")
       ELSE /\ decryption' = [decryption EXCEPT ![m].pc = "put", ![m].tries = queue[m]]
            /\ UNCHANGED callers
    /\ UNCHANGED <<use, head, invited, caughtUp, failed, arrived, known>>
    /\ UNCHANGED stored

\* A slip: the result says pending, and nothing is queued.
EnqueueNothing(m) == UNCHANGED queue

Enqueue(m) ==
    queue' = [queue EXCEPT ![m] = IF decryption[m].tries = None THEN 0 ELSE decryption[m].tries]

DecryptEnqueue(m) ==
    /\ DecryptAt(m, "put")
    /\ Enqueue(m)
    /\ Deliver(m, "pending")
    /\ UNCHANGED <<use, head, group, used, invited, cache, caughtUp, failed, arrived, known>>

Decrypt(m) ==
    \/ DecryptTry(m) \/ DecryptCatchUp(m) \/ DecryptAgain(m) \/ DecryptHeal(m)
    \/ DecryptHealed(m) \/ DecryptVerdict(m) \/ DecryptEnqueue(m)

-----------------------------------------------------------------------------
(* A messageNew event: the notification service handles the messages of    *)
(* others; the page, when it is open, those it does not know yet.          *)

SocketEvent(m) ==
    /\ m \in Sent \ arrived
    /\ MayDeliver(m)
    /\ arrived' = arrived \cup {m}
    /\ \E open \in BOOLEAN :
          LET reads == open /\ m \notin known
          IN  /\ known' = IF reads THEN known \cup {m} ELSE known
              /\ reader' = IF reads THEN [reader EXCEPT ![m] = "exists"] ELSE reader
              /\ reads \/ m \notin Mine
    /\ IF m \in Mine
       THEN UNCHANGED <<notifier, decryption>>
       ELSE notifier' = [notifier EXCEPT ![m] = "wait"] /\ Ask(m)
    /\ UNCHANGED <<use, head, group, used, invited, queue, cache, caughtUp, failed, echo, pass>>

(* A socket that is down, or a throttled event: the message is only on the *)
(* server.                                                                 *)
LoseEvent(m) ==
    /\ m \in Sent \ arrived
    /\ arrived' = arrived \cup {m}
    /\ UNCHANGED <<use, head, group, used, invited, queue, cache, caughtUp, failed, known,
                   decryption, reader, notifier, echo, pass>>

ReaderChecks(m) ==
    /\ reader[m] = "exists"
    /\ IF cache[m] = "none"
       THEN reader' = [reader EXCEPT ![m] = "wait"] /\ Ask(m)
       ELSE reader' = [reader EXCEPT ![m] = "idle"] /\ UNCHANGED decryption
    /\ UNCHANGED <<use, head, group, used, invited, queue, cache, caughtUp, failed, arrived,
                   known, notifier, echo, pass>>

Store(m, v) == cache' = [cache EXCEPT ![m] = v]

ReaderStores(m) ==
    /\ reader[m] \in Values
    /\ Store(m, reader[m])
    /\ reader' = [reader EXCEPT ![m] = "idle"]
    /\ UNCHANGED <<use, head, group, used, invited, queue, caughtUp, failed, arrived, known,
                   decryption, notifier, echo, pass>>

NotifierStores(m) ==
    /\ notifier[m] = "plain"
    /\ Store(m, "plain")
    /\ notifier' = [notifier EXCEPT ![m] = "idle"]
    /\ UNCHANGED <<use, head, group, used, invited, queue, caughtUp, failed, arrived, known,
                   decryption, reader, echo, pass>>

(* pendingDecryptReplayed$: the page stores every replayed message again. *)
EchoStores(m) ==
    /\ echo[m] # "none"
    /\ Store(m, echo[m])
    /\ echo' = [echo EXCEPT ![m] = "none"]
    /\ UNCHANGED <<use, head, group, used, invited, queue, caughtUp, failed, arrived, known,
                   decryption, reader, notifier, pass>>

-----------------------------------------------------------------------------
(* Maintenance passes.  What a pass does next, and the step of storing.    *)

Remain == UNCHANGED <<use, head, group, used, invited, caughtUp, failed, arrived, known,
                      reader, notifier>>

Turn(p, pc) == pass' = [pass EXCEPT ![p].pc = pc]
Drop(p, pc) == pass' = [pass EXCEPT ![p].pc = pc, ![p].todo = @ \ {Current(p)}, ![p].value = "none"]

Enter(p, kind, pc, todo) ==
    /\ kind \in use.kinds
    /\ Idle(p)
    /\ MayBegin
    /\ pass' = [pass EXCEPT ![p] = [NoPass EXCEPT !.kind = kind, !.pc = pc, !.todo = todo,
                                                  !.tries = queue]]

Begin(p, kind, pc, todo) ==
    /\ Enter(p, kind, pc, todo)
    /\ UNCHANGED <<queue, cache, echo, decryption>>
    /\ Remain

(* loadHistory.  The cached placeholders are listed first, the missing     *)
(* messages once the server has answered; both are decrypted afterwards.   *)
Orphans == {m \in Messages : cache[m] = "undec" \/ (m \in Mine /\ cache[m] = "blank")}

(* A visit opens a page of its own; a Welcome reloads the one shown. *)
LoadBegins(p) ==
    /\ Enter(p, "load", "ids", Orphans)
    /\ known' \in {{}, known}
    /\ UNCHANGED <<use, head, group, used, invited, queue, cache, caughtUp, failed, arrived,
                   decryption, reader, notifier, echo>>

LoadIds(p) ==
    /\ At(p, "load", "ids")
    /\ pass' = [pass EXCEPT ![p].pc = "orphan", ![p].gap = {m \in Sent : cache[m] = "none"}]
    /\ UNCHANGED <<queue, cache, echo, decryption>>
    /\ Remain

(* The cached messages of the server's page become known as well; their    *)
(* events are ignored in any case.                                         *)
LoadMissing(p) ==
    /\ At(p, "load", "orphan")
    /\ pass[p].todo = {}
    /\ pass' = [pass EXCEPT ![p].pc = "gap", ![p].todo = pass[p].gap \ known]
    /\ known' = known \cup pass[p].gap
    /\ UNCHANGED <<use, head, group, used, invited, queue, cache, caughtUp, failed, arrived,
                   decryption, reader, notifier, echo>>

LoadAsks(p) ==
    /\ \/ At(p, "load", "orphan") /\ Turn(p, "orphanWait")
       \/ At(p, "load", "gap") /\ Turn(p, "gapWait")
    /\ pass[p].todo # {}
    /\ Ask(Current(p))
    /\ UNCHANGED <<queue, cache, echo>>
    /\ Remain

LoadStores(p) ==
    /\ \/ At(p, "load", "orphanStore") /\ Drop(p, "orphan")
       \/ At(p, "load", "gapStore") /\ Drop(p, "gap")
    /\ IF pass[p].value = "none" THEN UNCHANGED cache ELSE Store(Current(p), pass[p].value)
    /\ UNCHANGED <<queue, echo, decryption>>
    /\ Remain

(* replayPendingDecrypts. *)
ReplayBegins(p) == Begin(p, "replay", "next", {m \in Messages : queue[m] # None})

\* A slip: an entry is replayed whether or not the message is in the cache.
ReplayChecksNothing(p) ==
    /\ At(p, "replay", "next")
    /\ pass[p].todo # {}
    /\ Turn(p, "decrypt")
    /\ UNCHANGED <<queue, cache, echo, decryption>>
    /\ Remain

ReplayChecks(p) ==
    /\ At(p, "replay", "next")
    /\ pass[p].todo # {}
    /\ IF cache[Current(p)] = "none"
       THEN Turn(p, "decrypt") /\ UNCHANGED queue
       ELSE Drop(p, "next") /\ queue' = [queue EXCEPT ![Current(p)] = None]
    /\ UNCHANGED <<cache, echo, decryption>>
    /\ Remain

BudgetExhausted(p) == pass[p].tries[Current(p)] >= MaxAttempts

(* A message is given up when its error is permanent or its budget spent;  *)
(* an attempt counts only when the conversation was READY.                 *)
ReplayDecrypts(p) ==
    LET m == Current(p)
        v == Verdict(m)
    IN  /\ At(p, "replay", "decrypt")
        /\ Consume(m)
        /\ IF v = "plain" \/ BudgetExhausted(p) \/ Fatal(v)
           THEN pass' = [pass EXCEPT ![p].pc = "store",
                                     ![p].value = IF v = "plain" THEN "plain" ELSE "undec"]
           ELSE IF Ready THEN Turn(p, "mark") ELSE Drop(p, "next")
        /\ UNCHANGED <<use, head, group, invited, queue, cache, caughtUp, failed, arrived, known,
                       decryption, reader, notifier, echo>>

ReplayMarks(p) ==
    LET m == Current(p)
    IN  /\ At(p, "replay", "mark")
        /\ Drop(p, "next")
        /\ queue' = IF queue[m] = None THEN queue ELSE [queue EXCEPT ![m] = @ + 1]
        /\ UNCHANGED <<cache, echo, decryption>>
        /\ Remain

ReplayStores(p) ==
    /\ At(p, "replay", "store")
    /\ Store(Current(p), pass[p].value)
    /\ pass' = [pass EXCEPT ![p].pc = "remove", ![p].shown[Current(p)] = pass[p].value]
    /\ UNCHANGED <<queue, echo, decryption>>
    /\ Remain

ReplayRemoves(p) ==
    /\ At(p, "replay", "remove")
    /\ queue' = [queue EXCEPT ![Current(p)] = None]
    /\ Drop(p, "next")
    /\ UNCHANGED <<cache, echo, decryption>>
    /\ Remain

(* retryUndecryptableFromCache: placeholders, with the ciphertext fetched  *)
(* again.                                                                  *)
RetryBegins(p) ==
    Ready /\ Begin(p, "retry", "next", {m \in Messages : cache[m] = "undec"})

RetryFetches(p) ==
    /\ At(p, "retry", "next")
    /\ pass[p].todo # {}
    /\ Turn(p, "decrypt") \/ Drop(p, "next")
    /\ UNCHANGED <<queue, cache, echo, decryption>>
    /\ Remain

RetryDecrypts(p) ==
    /\ At(p, "retry", "decrypt")
    /\ Consume(Current(p))
    /\ IF Verdict(Current(p)) = "plain"
       THEN pass' = [pass EXCEPT ![p].pc = "store", ![p].value = "plain"]
       ELSE Drop(p, "next")
    /\ UNCHANGED <<use, head, group, invited, queue, cache, caughtUp, failed, arrived, known,
                   decryption, reader, notifier, echo>>

RetryStores(p) ==
    /\ At(p, "retry", "store")
    /\ Store(Current(p), "plain")
    /\ pass' = [pass EXCEPT ![p].pc = "next", ![p].todo = @ \ {Current(p)},
                            ![p].shown[Current(p)] = "plain", ![p].value = "none"]
    /\ UNCHANGED <<queue, echo, decryption>>
    /\ Remain

\* A slip: only messages that are queued are tried.
ClearBeginsQueued(p) == Begin(p, "clear", "sweep", {m \in Sent : cache[m] = "none" /\ queue[m] # None})

(* clearConversationGroup, after recoverMissingHistoryBeforeClear: every   *)
(* message that is not cached is decrypted or becomes a placeholder.       *)
ClearBegins(p) == Begin(p, "clear", "sweep", {m \in Sent : cache[m] = "none"})

SweepDecrypts(p) ==
    /\ At(p, "clear", "sweep")
    /\ pass[p].todo # {}
    /\ Consume(Current(p))
    /\ pass' = [pass EXCEPT ![p].pc = "sweepStore",
                            ![p].value = IF Verdict(Current(p)) = "plain" THEN "plain" ELSE "undec"]
    /\ UNCHANGED <<use, head, group, invited, queue, cache, caughtUp, failed, arrived, known,
                   decryption, reader, notifier, echo>>

SweepStores(p) ==
    /\ At(p, "clear", "sweepStore")
    /\ Store(Current(p), pass[p].value)
    /\ Drop(p, "sweep")
    /\ UNCHANGED <<queue, echo, decryption>>
    /\ Remain

ClearWipes(p) ==
    /\ At(p, "clear", "sweep")
    /\ pass[p].todo = {}
    /\ group' = NoGroup
    /\ used' = {}
    /\ Turn(p, "pending")
    /\ UNCHANGED <<use, head, invited, queue, cache, caughtUp, failed, arrived, known,
                   decryption, reader, notifier, echo>>

ClearReadsPending(p) ==
    /\ At(p, "clear", "pending")
    /\ pass' = [pass EXCEPT ![p].pc = "placeholders", ![p].todo = {m \in Messages : queue[m] # None}]
    /\ UNCHANGED <<queue, cache, echo, decryption>>
    /\ Remain

(* Every entry becomes a placeholder, and the page is told. *)
ClearPlaceholders(p) ==
    /\ At(p, "clear", "placeholders")
    /\ cache' = [m \in Messages |-> IF m \in pass[p].todo THEN "undec" ELSE cache[m]]
    /\ \/ echo' = [m \in Messages |-> IF m \in pass[p].todo THEN "undec" ELSE echo[m]]
       \/ UNCHANGED echo
    /\ Turn(p, "drop")
    /\ UNCHANGED <<queue, decryption>>
    /\ Remain

ClearEnds(p) ==
    /\ At(p, "clear", "drop")
    /\ queue' = NoTries
    /\ caughtUp' = FALSE
    /\ failed' = FALSE
    /\ pass' = [pass EXCEPT ![p] = NoPass]
    /\ UNCHANGED <<use, head, group, used, invited, cache, arrived, known,
                   decryption, reader, notifier, echo>>

(* A replay or a retry hands what it stored to the page, when it is open,  *)
(* and lets the catch-up that awaited it return.                           *)
PassEnds(p) ==
    /\ pass[p].todo = {}
    /\ At(p, "replay", "next") \/ At(p, "retry", "next") \/ At(p, "load", "gap")
    /\ \/ echo' = [m \in Messages |-> IF pass[p].shown[m] = "none" THEN echo[m] ELSE pass[p].shown[m]]
       \/ UNCHANGED echo
    /\ decryption' = [m \in Messages |->
                         IF m = pass[p].caller /\ DecryptAt(m, "replaying")
                         THEN [decryption[m] EXCEPT !.pc = "again"]
                         ELSE decryption[m]]
    /\ pass' = [pass EXCEPT ![p] = NoPass]
    /\ UNCHANGED <<queue, cache>>
    /\ Remain

Load(p) == LoadIds(p) \/ LoadMissing(p) \/ LoadAsks(p) \/ LoadStores(p)
Replay(p) == ReplayChecks(p) \/ ReplayDecrypts(p) \/ ReplayMarks(p) \/ ReplayStores(p) \/ ReplayRemoves(p)
Retry(p) == RetryFetches(p) \/ RetryDecrypts(p) \/ RetryStores(p)
Clear(p) == SweepDecrypts(p) \/ SweepStores(p) \/ ClearWipes(p) \/ ClearReadsPending(p)
            \/ ClearPlaceholders(p) \/ ClearEnds(p)

-----------------------------------------------------------------------------
(* The group, the server and the process. *)

Elsewhere == UNCHANGED <<use, queue, cache, arrived, known, decryption, reader, notifier, echo, pass>>

(* Another device commits: later messages are of the next epoch. *)
OthersCommit ==
    /\ head < LastEpoch
    /\ head' = head + 1
    /\ UNCHANGED <<group, used, invited, caughtUp, failed>>
    /\ Elsewhere

(* A live commit is applied; nothing is replayed, caughtUpConvs stays. *)
FollowCommit ==
    /\ HasGroup
    /\ group.epoch < head
    /\ group' = [group EXCEPT !.epoch = @ + 1]
    /\ UNCHANGED <<head, used, invited, caughtUp, failed>>
    /\ Elsewhere

(* catchUpMissedCommits succeeds; the replay that follows is a pass. *)
CatchUp ==
    /\ HasGroup
    /\ group' = [group EXCEPT !.epoch = head]
    /\ caughtUp' = TRUE
    /\ UNCHANGED <<head, used, invited, failed>>
    /\ Elsewhere

Invite ==
    /\ ~HasGroup
    /\ ~invited
    /\ invited' = TRUE
    /\ UNCHANGED <<head, group, used, caughtUp, failed>>
    /\ Elsewhere

(* processWelcome. *)
Join ==
    /\ invited
    /\ group' = [base |-> head, epoch |-> head]
    /\ used' = {}
    /\ invited' = FALSE
    /\ failed' = FALSE
    /\ UNCHANGED <<head, caughtUp>>
    /\ Elsewhere

(* The coordinator gives the conversation up, and later recovers it. *)
Fail ==
    /\ use.fails
    /\ HasGroup
    /\ failed' = ~failed
    /\ UNCHANGED <<head, group, used, invited, caughtUp>>
    /\ Elsewhere

(* The app is killed; the stores survive. *)
Crash ==
    /\ use.crashes
    /\ caughtUp' = FALSE
    /\ failed' = FALSE
    /\ known' = {}
    /\ decryption' = [m \in Messages |-> NoDecryption]
    /\ reader' = [m \in Messages |-> "idle"]
    /\ notifier' = [m \in Messages |-> "idle"]
    /\ echo' = NoValues
    /\ pass' = [p \in Passes |-> NoPass]
    /\ UNCHANGED <<use, head, group, used, invited, queue, cache, arrived>>

Handle(m) == ReaderChecks(m) \/ ReaderStores(m) \/ NotifierStores(m) \/ EchoStores(m)

Work(p) == Load(p) \/ Replay(p) \/ Retry(p) \/ Clear(p) \/ PassEnds(p)

Next ==
    \/ \E m \in Messages : SocketEvent(m) \/ LoseEvent(m) \/ Handle(m) \/ Decrypt(m)
    \/ \E p \in Passes :
          \/ LoadBegins(p) \/ ReplayBegins(p) \/ RetryBegins(p) \/ ClearBegins(p)
          \/ Work(p)
    \/ OthersCommit \/ FollowCommit \/ CatchUp \/ Invite \/ Join \/ Fail \/ Crash

Spec == Init /\ [][Next]_vars

(* Fairness: a started decryption, pass or store goes on; the device is    *)
(* online from time to time, so it catches up, and the sweeps on reconnect *)
(* and resume and the user's visits come again and again.                  *)
Fairness ==
    /\ \A m \in Messages : WF_vars(Handle(m)) /\ WF_vars(Decrypt(m))
    /\ \A p \in Passes :
          /\ WF_vars(Work(p))
          /\ SF_vars(LoadBegins(p))
          /\ SF_vars(ReplayBegins(p))
          /\ SF_vars(RetryBegins(p) /\ pass'[p].todo # {})
          /\ SF_vars(RetryFetches(p) /\ pass'[p].pc = "decrypt")
    /\ WF_vars(OthersCommit)
    /\ SF_vars(CatchUp)
    /\ WF_vars(Invite) /\ WF_vars(Join)

FairSpec == Spec /\ Fairness

-----------------------------------------------------------------------------
(* Properties. *)

TypeOK ==
    /\ head \in 0 .. LastEpoch
    /\ group \in [base : -1 .. LastEpoch, epoch : -1 .. LastEpoch]
    /\ used \subseteq Messages /\ arrived \subseteq Sent /\ known \subseteq Sent
    /\ {invited, caughtUp, failed} \subseteq BOOLEAN
    /\ queue \in [Messages -> -1 .. MaxAttempts]
    /\ cache \in [Messages -> Values]
    /\ echo \in [Messages -> Values]
    /\ decryption \in [Messages ->
          [pc : {"idle", "try", "catchUp", "replaying", "again", "heal", "healed", "verdict", "put"},
           fatal : BOOLEAN, tries : -1 .. MaxAttempts]]
    /\ reader \in [Messages -> Values \cup {"idle", "exists", "wait"}]
    /\ notifier \in [Messages -> {"idle", "wait", "plain"}]
    /\ \A p \in Passes :
          /\ pass[p].todo \subseteq Sent /\ pass[p].gap \subseteq Sent
          /\ pass[p].value \in Values
          /\ pass[p].value # "none" => pass[p].todo # {}

(* Callers take turns, and the app lives on. *)
Calm == ~use.overlap /\ ~use.crashes

(* The text of a message, once in the cache, is never replaced by a        *)
(* placeholder: no second decryption of the consumed ciphertext, by any    *)
(* caller that takes its turn, ends in the cache.                          *)
TextStays == [][Calm => \A m \in Messages : cache[m] = "plain" => cache'[m] = "plain"]_vars

(* A text for which the key was consumed is in the cache or in the hands   *)
(* of a caller that is about to store it.                                  *)
Carried(m) ==
    \/ cache[m] = "plain"
    \/ reader[m] = "plain"
    \/ notifier[m] = "plain"
    \/ \E p \in Passes : pass[p].value = "plain" /\ Current(p) = m

NothingLost == Calm => \A m \in used : Carried(m)

(* A queued message of another user whose key is still there, or still to  *)
(* come, is not hidden behind a placeholder, which would make the replay   *)
(* drop it unread: only the replay itself stores one, just before it       *)
(* removes the entry.                                                      *)
BeingReplayed(m) ==
    \E p \in Passes : At(p, "replay", "remove") /\ Current(p) = m

QueuedMessagesAreReplayed ==
    Calm => \A m \in Messages \ Mine :
        queue[m] # None /\ cache[m] \in {"undec", "blank"}
            => BeingReplayed(m) \/ Verdict(m) \in {"old", "past"}

(* A replay gives a message up only on evidence: its key is gone, or the   *)
(* budget of READY passes was spent on it.                                 *)
GivenUpOnEvidence ==
    [][\A p \in Passes :
        At(p, "replay", "decrypt") /\ pass'[p].value = "undec"
            => \/ Verdict(Current(p)) \in {"old", "past"}
               \/ queue[Current(p)] = MaxAttempts]_vars

(* Before a clear deletes the keys, every message they still decrypt has   *)
(* been tried (comment at mls-coordinator.service.ts 522).                 *)
ClearTriesEverything ==
    [][\A p \in Passes :
        At(p, "clear", "sweep") /\ HasGroup /\ group' = NoGroup
            => \A m \in Sent : Verdict(m) = "plain" => cache[m] # "none"]_vars

(* Every message sent since this device joined is read in the end, when    *)
(* the user visits the conversation from time to time.                     *)
BeforeJoining(m) == EpochOf[m] < group.base
Visited == Calm /\ "load" \in use.kinds

EveryMessageIsRead ==
    \A m \in Messages :
        <>[](Visited /\ m \in use.sent => cache[m] = "plain" \/ BeforeJoining(m))

(* A message that was queued is read in the end.                           *)
QueuedMessagesAreRead ==
    \A m \in Messages : Calm /\ queue[m] # None ~> cache[m] = "plain" \/ BeforeJoining(m)

=============================================================================
