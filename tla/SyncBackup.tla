------------------------------ MODULE SyncBackup ------------------------------
(***************************************************************************)
(* The encrypted backup of one device (sync.service.ts,                    *)
(* failed-sync-batch.repository.ts, *-secure-local-storage.ts) and the     *)
(* server it talks to.                                                     *)
(*                                                                         *)
(* Texts and group states are encrypted under the account's key (the MBK)  *)
(* and posted by one flush at a time.  A live item is first written to a   *)
(* store of batches; backfill, rebuild and restore are long tasks, which   *)
(* the flush, the rotation of the key by this or another device, and a     *)
(* change of account may meet at any await.                                *)
(***************************************************************************)
EXTENDS Integers, Sequences, FiniteSets, SequencesExt

CONSTANTS
    Accounts,
    NoOne,          \* no account
    Texts,          \* the messages with a text
    Owner,          \* the account each is a message of
    MaxEpoch,       \* bound: group states backed up
    MaxGen,         \* bound: generations of the key
    Apart,          \* bound: whether group states and rotations keep apart
    Faults,         \* how a request fails, of AllFaults
    Intrusions      \* what may happen during another operation, of AllIntrusions

(* A request may not reach the server, be refused by it, or be done with   *)
(* its answer lost.                                                        *)
AllFaults == {"network", "server", "lost"}
AllIntrusions == {"switch", "rotation", "write"}

ASSUME ConstantsAssumption ==
    /\ NoOne \notin Accounts
    /\ Owner \in [Texts -> Accounts]
    /\ Apart \in BOOLEAN /\ MaxEpoch \in Nat /\ MaxGen \in Nat \ {0}
    /\ Faults \subseteq AllFaults /\ Intrusions \subseteq AllIntrusions

VARIABLES
    user,        \* userDid
    mbk,         \* the key in memory
    generation,  \* keyGeneration
    kept,        \* SecureLocalStorage: the key and generation kept for an account
    timer,       \* whether the flush timer runs
    queue,       \* the texts waiting in memory
    batchesOf,   \* the account the batch store was opened for
    batches,     \* FailedSyncBatchRepository: the batches of an account, by savedAt
    writes,      \* the items writeDurable has not saved yet
    flush,       \* currentFlush
    backfill, rebuild, rebuilding,   \* the tasks under way
    keying,      \* the set-up, unlock or rotation of the key under way
    unstored,    \* whether the generation has not its key: the storing failed
    crossed,     \* history: the accounts whose key met a rotation half-way
    cacheOf,     \* MessageCacheService.initializedScope
    texts,       \* the texts in an account's message cache
    epoch,       \* the group state of an account
    blob,        \* server: generation, key under the PIN, key under the recovery key
    backup,      \* server: the entries of an account
    gaps         \* history: the texts whose backup nothing here vouches for

device == <<user, mbk, generation, kept>>
sending == <<timer, queue, batchesOf, batches, writes, flush>>
tasks == <<backfill, rebuild, rebuilding>>
keys == <<keying, unstored, crossed>>
cache == <<cacheOf, texts, epoch>>
server == <<blob, backup>>
vars == <<device, sending, tasks, keys, cache, server, gaps>>

-----------------------------------------------------------------------------
NoKey == [of |-> NoOne, gen |-> 0]
Nothing == [key |-> NoKey, gen |-> 0]
NoEntry == [key |-> NoKey, val |-> 0]
Group == "group-state"
Ids == Texts \union {Group}

(* A message cache holds finitely many texts; an item's id is that of a    *)
(* message or that of a group.                                             *)
ASSUME TextsAssumption == IsFiniteSet(Texts) /\ Group \notin Texts

Idle == [pc |-> "idle", left |-> <<>>, items |-> {}, batch |-> <<>>]
NoBackfill == [pc |-> "idle", have |-> {}]

(* What the user does with the key: its next await, the key, and once it   *)
(* is adopted its generation, the account it is stored for and what        *)
(* follows.  The pages wait for its end before they begin another.         *)
NoKeying == [pc |-> "idle", key |-> NoKey, gen |-> 0, of |-> NoOne, next |-> "loop"]
Keying(pc, key) == [NoKeying EXCEPT !.pc = pc, !.key = key]

(* Without an account no request is taken. *)
Answers == IF user = NoOne THEN {"network"} ELSE {"ok"} \union Faults
Reaches(r) == r \in {"ok", "lost"}

(* encryptItem *)
Encrypted(id, val, key) == [id |-> id, key |-> key, val |-> val]
EncryptedTexts(s, key) == {Encrypted(s[i], 0, key) : i \in DOMAIN s}

(* The server stores the entries of a post, the last one of each id.       *)
Stored(entries, items) ==
    [id \in Ids |->
        IF \E e \in items : e.id = id
        THEN LET e == CHOOSE x \in items : x.id = id
             IN [key |-> e.key, val |-> e.val]
        ELSE entries[id]]

Present(a) == {id \in Ids : backup[a][id] # NoEntry}

May(what) == what \in Intrusions
(* A text on the server, in the queue, in the flush or to be retried. *)
OnItsWay(a) ==
    Present(a) \union ToSet(queue) \union ToSet(flush.batch)
    \union (UNION {{e.id : e \in b} : b \in ToSet(batches[a])})
    \union {e.id : e \in writes}

Quiet == /\ flush.pc = "idle" /\ backfill.pc = "idle" /\ rebuild = "idle"
         /\ keying.pc = "idle" /\ writes = {}

Init ==
    /\ user = NoOne /\ mbk = NoKey /\ generation = 1
    /\ kept = [a \in Accounts |-> Nothing]
    /\ timer = FALSE /\ queue = <<>> /\ batchesOf = NoOne
    /\ batches = [a \in Accounts |-> <<>>]
    /\ writes = {} /\ flush = Idle
    /\ backfill = NoBackfill /\ rebuild = "idle" /\ rebuilding = FALSE
    /\ keying = NoKeying /\ unstored = FALSE /\ crossed = {}
    /\ cacheOf = NoOne
    /\ texts = [a \in Accounts |-> {}]
    /\ epoch = [a \in Accounts |-> 0]
    /\ blob = [a \in Accounts |-> [gen |-> 0, pin |-> NoKey, recovery |-> NoKey]]
    /\ backup = [a \in Accounts |-> [id \in Ids |-> NoEntry]]
    /\ gaps = {}

-----------------------------------------------------------------------------
(* The flush (flush, runFlush).                                            *)

(* flush() called when none runs: it starts, unless there is no key.       *)
FlushBegun == IF mbk = NoKey THEN Idle
              ELSE [Idle EXCEPT !.pc = "retry", !.left = batches[batchesOf]]

(* A task that awaits a flush goes on when the flush ends. *)
Resumed(pc) == CASE pc = "flush1 awaited" -> "flush2"
                 [] pc = "flush2 awaited" -> "check"
                 [] pc = "clear awaited" -> "delete"
                 [] pc = "sent awaited" -> "sync"
                 [] pc = "sync awaited" -> "end"
                 [] OTHER -> pc

FlushEnds ==
    /\ flush' = Idle
    /\ backfill' = [backfill EXCEPT !.pc = Resumed(@)]
    /\ rebuild' = Resumed(rebuild)

(* The timer, the app leaving the foreground, a sweep of another service. *)
TimerFlush ==
    /\ timer /\ flush.pc = "idle" /\ mbk # NoKey
    /\ flush' = FlushBegun
    /\ UNCHANGED <<device, timer, queue, batchesOf, batches, writes, tasks, keys,
                   cache, server, gaps>>

(* The batches of earlier failures and of writeDurable, in the order saved.*)
RetryBatch(r) ==
    /\ flush.pc = "retry" /\ flush.left # <<>>
    /\ LET batch == Head(flush.left) IN
       /\ backup' = IF Reaches(r) THEN [backup EXCEPT ![user] = Stored(@, batch)]
                    ELSE backup
       /\ batches' = IF r = "ok"
                     THEN [batches EXCEPT ![batchesOf] = RemoveFirst(@, batch)]
                     ELSE batches
    /\ IF r \in {"network", "lost"}
       THEN FlushEnds
       ELSE /\ flush' = [flush EXCEPT !.left = Tail(@)]
            /\ UNCHANGED <<backfill, rebuild>>
    /\ UNCHANGED <<device, timer, queue, batchesOf, writes, rebuilding,
                   keys, cache, blob, gaps>>

(* Then the texts in memory, encrypted with the key of the moment. *)
TakeQueue ==
    /\ flush.pc = "retry" /\ flush.left = <<>>
    /\ IF queue = <<>> \/ mbk = NoKey
       THEN FlushEnds /\ UNCHANGED queue
       ELSE /\ flush' = [flush EXCEPT !.pc = "post", !.batch = queue,
                                      !.items = EncryptedTexts(queue, mbk)]
            /\ queue' = <<>>
            /\ UNCHANGED <<backfill, rebuild>>
    /\ UNCHANGED <<device, timer, batchesOf, batches, writes, rebuilding,
                   keys, cache, server, gaps>>

(* A slip: what the network did not take is forgotten. *)
RequeuedNothing == queue

(* What the network did not take goes back to the front of the queue. *)
Requeued == flush.batch \o queue

PostQueue(r) ==
    /\ flush.pc = "post"
    /\ backup' = IF Reaches(r) THEN [backup EXCEPT ![user] = Stored(@, flush.items)]
                 ELSE backup
    /\ IF r \in {"network", "lost"}
       THEN /\ queue' = Requeued
            /\ FlushEnds
            /\ UNCHANGED batches
       ELSE /\ batches' = IF r = "ok" THEN batches
                          ELSE [batches EXCEPT ![batchesOf] = Append(@, flush.items)]
            /\ flush' = [Idle EXCEPT !.pc = "retry"]
            /\ UNCHANGED <<queue, backfill, rebuild>>
    /\ UNCHANGED <<device, timer, batchesOf, writes, rebuilding, keys,
                   cache, blob, gaps>>

-----------------------------------------------------------------------------
(* Live items (enqueue, backupGroupState, writeDurable).                   *)

(* An item is dropped during a rebuild, and without a key.                 *)
Dropped == rebuilding \/ mbk = NoKey

DurablyWritten(id, val) ==
    writes' = IF Dropped THEN writes ELSE writes \union {Encrypted(id, val, mbk)}

(* A message of an open conversation is stored, then backed up. *)
NewText(t) ==
    /\ user = Owner[t] /\ t \notin texts[user] \union OnItsWay(user)
    /\ May("write") \/ writes = {}
    /\ cacheOf' = user
    /\ texts' = [texts EXCEPT ![user] = @ \union {t}]
    /\ DurablyWritten(t, 0)
    /\ gaps' = IF Dropped THEN gaps \union {t} ELSE gaps
    /\ UNCHANGED <<device, timer, queue, batchesOf, batches, flush, tasks, keys,
                   epoch, server>>

(* MlsService reports a new state of a group. *)
BackupGroupState ==
    /\ user # NoOne /\ epoch[user] < MaxEpoch /\ (Apart => blob[user].gen <= 1)
    /\ May("write") \/ writes = {}
    /\ epoch' = [epoch EXCEPT ![user] = @ + 1]
    /\ DurablyWritten(Group, epoch'[user])
    /\ UNCHANGED <<device, timer, queue, batchesOf, batches, flush, tasks, keys,
                   cacheOf, texts, server, gaps>>

(* The item is saved, and a flush follows. *)
SaveWrite(e) ==
    /\ e \in writes
    /\ writes' = writes \ {e}
    /\ batches' = [batches EXCEPT ![batchesOf] = Append(@, {e})]
    /\ flush' = IF flush.pc = "idle" /\ mbk # NoKey
                THEN [Idle EXCEPT !.pc = "retry", !.left = batches'[batchesOf]]
                ELSE flush
    /\ UNCHANGED <<device, timer, queue, batchesOf, tasks, keys, cache, server, gaps>>

-----------------------------------------------------------------------------
(* Restore (restore, doRestore).                                           *)

Cached == IF cacheOf = NoOne THEN {} ELSE texts[cacheOf]
CacheReady == cacheOf' = IF cacheOf = NoOne THEN user ELSE cacheOf

(* What the key decrypts is stored in the cache that is open; the rest is  *)
(* skipped, and group states go to the caller.                             *)
Restored ==
    /\ CacheReady
    /\ texts' = [texts EXCEPT ![cacheOf'] =
                     @ \union {t \in Texts : mbk # NoKey /\ backup[user][t].key = mbk}]

(* A conversation, a group that is not ready, the coordinator, a page.     *)
Restore ==
    /\ user # NoOne /\ mbk # NoKey
    /\ Restored
    /\ UNCHANGED <<device, sending, tasks, keys, epoch, server, gaps>>

-----------------------------------------------------------------------------
(* Backfill and rebuild (doBackfill, doRebuild, doLocalUpload).            *)

(* The local texts the server lacks are put in the queue: those of the     *)
(* open cache that are in conversations of the user.  Without a key        *)
(* pushToQueue drops them.                                                 *)
Unsent(have) == {t \in Cached : Owner[t] = user /\ t \notin have}

LocalUpload(have) ==
    IF mbk = NoKey THEN UNCHANGED <<queue, gaps>>
    ELSE /\ queue' = queue \o SetToSeq(Unsent(have))
         /\ gaps' = gaps \ Unsent(have)

BackfillBegun == [NoBackfill EXCEPT !.pc = "ids"]

FetchServerIds(r) ==
    /\ backfill.pc = "ids"
    /\ CacheReady
    /\ backfill' = IF r = "ok" THEN [pc |-> "upload", have |-> Present(user)]
                   ELSE NoBackfill
    /\ UNCHANGED <<device, sending, rebuild, rebuilding, keys, texts,
                   epoch, server, gaps>>

(* The conversations are listed; each page read is queued and flushed. *)
BackfillUpload(r) ==
    /\ backfill.pc = "upload"
    /\ IF r = "ok"
       THEN /\ LocalUpload(backfill.have)
            /\ backfill' = [backfill EXCEPT !.pc = "flush1"]
       ELSE backfill' = NoBackfill /\ UNCHANGED <<queue, gaps>>
    /\ UNCHANGED <<device, timer, batchesOf, batches, writes, flush, rebuild,
                   rebuilding, keys, cache, server>>

(* await flush(): joins the one that runs; nothing to await without a key. *)
Awaiting(pc) == pc \o " awaited"
FlushJoined(pc) ==
    IF flush.pc = "idle" /\ mbk = NoKey THEN Resumed(Awaiting(pc)) ELSE Awaiting(pc)
FlushCalled == flush' = IF flush.pc = "idle" THEN FlushBegun ELSE flush

BackfillFlush ==
    /\ backfill.pc \in {"flush1", "flush2"}
    /\ backfill' = [backfill EXCEPT !.pc = FlushJoined(@)]
    /\ FlushCalled
    /\ UNCHANGED <<device, timer, queue, batchesOf, batches, writes, rebuild,
                   rebuilding, keys, cache, server, gaps>>

(* The server had something this device lacks: restore it. *)
BackfillCheck(r) ==
    /\ backfill.pc = "check"
    /\ backfill' = NoBackfill
    /\ IF r = "ok" /\ ~(backfill.have \subseteq Cached) THEN Restored
       ELSE UNCHANGED <<cacheOf, texts>>
    /\ UNCHANGED <<device, sending, rebuild, rebuilding, keys, epoch, server, gaps>>

(* A slip: the timer stays as the rebuild left it. *)
RebuildOverUntimed == rebuild' = "idle" /\ rebuilding' = FALSE /\ UNCHANGED timer

(* However it ends, live items are taken again and the timer runs. *)
RebuildOver == rebuild' = "idle" /\ rebuilding' = FALSE /\ timer' = TRUE

(* Without a key a rebuild fails at once. *)
RebuildStarts ==
    IF mbk' = NoKey THEN RebuildOver
    ELSE rebuild' = "count" /\ UNCHANGED <<rebuilding, timer>>

(* The settings page, confirmed twice; one rebuild at a time. *)
StartRebuild ==
    /\ user # NoOne /\ rebuild = "idle" /\ keying.pc = "idle"
    /\ UNCHANGED device
    /\ RebuildStarts
    /\ UNCHANGED <<queue, batchesOf, batches, writes, flush, backfill, keys, cache,
                   server, gaps>>

(* The messages are counted, the timer stopped, and a flush awaited.  The  *)
(* key is not looked at again: it may be gone by then.                     *)
RebuildCount(r) ==
    /\ rebuild = "count"
    /\ CacheReady
    /\ IF r = "ok"
       THEN /\ timer' = FALSE
            /\ rebuild' = FlushJoined("clear")
            /\ FlushCalled
            /\ UNCHANGED rebuilding
       ELSE RebuildOver /\ UNCHANGED flush
    /\ UNCHANGED <<device, queue, batchesOf, batches, writes, backfill,
                   keys, texts, epoch, server, gaps>>

(* The queue is live items are turned away, and the backup goes. *)
RebuildClear ==
    /\ rebuild = "delete"
    /\ rebuilding' = TRUE
    /\ queue' = <<>>
    /\ rebuild' = "deleting"
    /\ gaps' = gaps \union ToSet(queue)
    /\ UNCHANGED <<device, timer, batchesOf, batches, writes, flush, backfill,
                   keys, cache, server>>

DeleteData(r) ==
    /\ rebuild = "deleting"
    /\ IF Reaches(r)
       THEN /\ backup' = [backup EXCEPT ![user] = [id \in Ids |-> NoEntry]]
            /\ gaps' = gaps \union {t \in Texts : Owner[t] = user}
       ELSE UNCHANGED <<backup, gaps>>
    /\ IF r = "ok" THEN rebuild' = "upload" /\ UNCHANGED <<rebuilding, timer>>
       ELSE RebuildOver
    /\ UNCHANGED <<device, queue, batchesOf, batches, writes, flush, backfill,
                   keys, cache, blob>>

RebuildUpload(r) ==
    /\ rebuild = "upload"
    /\ IF r = "ok"
       THEN /\ LocalUpload({})
            /\ rebuild' = "sent"
            /\ UNCHANGED <<rebuilding, timer>>
       ELSE RebuildOver /\ UNCHANGED <<queue, gaps>>
    /\ UNCHANGED <<device, batchesOf, batches, writes, flush, backfill,
                   keys, cache, server>>

(* The page is flushed; then rebuilding ends, and a last flush. *)
RebuildFlush ==
    /\ rebuild \in {"sent", "sync"}
    /\ rebuild' = FlushJoined(rebuild)
    /\ rebuilding' = (rebuilding /\ rebuild = "sent")
    /\ FlushCalled
    /\ UNCHANGED <<device, timer, queue, batchesOf, batches, writes, backfill,
                   keys, cache, server, gaps>>

RebuildEnds ==
    /\ rebuild = "end"
    /\ RebuildOver
    /\ UNCHANGED <<device, queue, batchesOf, batches, writes, flush, backfill,
                   keys, cache, server, gaps>>

-----------------------------------------------------------------------------
(* The key: set up, unlocked, changed, rotated.                            *)

(* A slip: the generation in memory is not brought up to date. *)
AdoptionBegunAsOld(g) ==
    /\ keying' = [keying EXCEPT !.pc = "store", !.gen = g, !.of = user]
    /\ UNCHANGED generation

(* The generation is set, and the key stored for the account open now. *)
AdoptionBegun(g) ==
    /\ keying' = [keying EXCEPT !.pc = "store", !.gen = g, !.of = user]
    /\ generation' = g

(* The storing may fail: the page shows the error, and the generation      *)
(* stays without its key.                                                  *)
StoreKey(stored) ==
    /\ keying.pc = "store"
    /\ IF stored
       THEN /\ kept' = [kept EXCEPT ![keying.of] = [key |-> keying.key, gen |-> keying.gen]]
            /\ keying' = [keying EXCEPT !.pc = "import"]
            /\ UNCHANGED unstored
       ELSE keying' = NoKeying /\ unstored' = (mbk # NoKey) /\ UNCHANGED kept
    /\ UNCHANGED <<user, mbk, generation, sending, tasks, crossed, cache, server, gaps>>

LoopStarts == timer' = TRUE /\ backfill' = BackfillBegun

(* Then the key is used: the sync loop starts, or after a rotation all is  *)
(* encrypted anew.                                                         *)
ImportKey ==
    /\ keying.pc = "import"
    /\ mbk' = keying.key
    /\ keying' = NoKeying /\ unstored' = FALSE
    /\ IF keying.next = "loop" THEN LoopStarts /\ UNCHANGED <<rebuild, rebuilding>>
       ELSE RebuildStarts /\ UNCHANGED backfill
    /\ UNCHANGED <<user, generation, kept, queue, batchesOf, batches, writes, flush,
                   crossed, cache, server, gaps>>

(* Sign-in or session restore: the key kept on the device, else a page    *)
(* asks for a PIN, or sets the backup up.                                  *)
Initialize(a) ==
    /\ user = NoOne /\ (May("switch") \/ Quiet)
    /\ user' = a /\ batchesOf' = a
    /\ IF kept[a] # Nothing
       THEN /\ mbk' = kept[a].key /\ generation' = kept[a].gen
            /\ unstored' = FALSE
            /\ LoopStarts
       ELSE UNCHANGED <<mbk, generation, unstored, timer, backfill>>
    /\ UNCHANGED <<kept, queue, batches, writes, flush, rebuild, rebuilding, keying,
                   crossed, cache, server, gaps>>

(* First-time setup: the two blobs are put one after the other. *)
SetupPin(r) ==
    /\ user # NoOne /\ mbk = NoKey /\ keying.pc = "idle" /\ blob[user].recovery = NoKey
    /\ LET key == [of |-> user, gen |-> 1] IN
       /\ blob' = IF Reaches(r)
                  THEN [blob EXCEPT ![user].gen = 1, ![user].pin = key]
                  ELSE blob
       /\ keying' = IF r = "ok" THEN Keying("recovery", key) ELSE NoKeying
    /\ UNCHANGED <<device, sending, tasks, unstored, crossed, cache, backup, gaps>>

SetupRecovery(r) ==
    /\ keying.pc = "recovery"
    /\ blob' = IF Reaches(r) THEN [blob EXCEPT ![user].recovery = keying.key] ELSE blob
    /\ IF r = "ok" THEN AdoptionBegun(1) ELSE keying' = NoKeying /\ UNCHANGED generation
    /\ UNCHANGED <<user, mbk, kept, sending, tasks, unstored, crossed, cache, backup,
                   gaps>>

(* Unlocking fetches a blob, then the generation it takes it for, of the   *)
(* account that is open by then.                                           *)
FetchBlob(key) ==
    /\ user # NoOne /\ mbk = NoKey /\ keying.pc = "idle" /\ backfill.pc = "idle"
    /\ key \in {blob[user].pin, blob[user].recovery} \ {NoKey}
    /\ keying' = Keying("settings", key)
    /\ UNCHANGED <<device, sending, tasks, unstored, crossed, cache, server, gaps>>

Unlock(r) ==
    /\ keying.pc = "settings"
    /\ IF r = "ok" THEN AdoptionBegun(blob[user].gen)
       ELSE keying' = NoKeying /\ UNCHANGED generation
    /\ UNCHANGED <<user, mbk, kept, sending, tasks, unstored, crossed, cache, server,
                   gaps>>

(* The key kept here, current or not, goes under the new PIN. *)
ChangePin(r) ==
    /\ user # NoOne /\ mbk # NoKey /\ kept[user] # Nothing /\ Reaches(r)
    /\ May("rotation") \/ kept[user].gen = blob[user].gen
    /\ blob' = [blob EXCEPT ![user].pin = kept[user].key]
    /\ crossed' = IF kept[user].gen = blob[user].gen THEN crossed ELSE crossed \union {user}
    /\ UNCHANGED <<device, sending, tasks, keying, unstored, cache, backup, gaps>>

(* Bounds: a rotation during a write is one of the intrusions; with Apart, *)
(* an account has its key rotated or its group states backed up.           *)
MayRotate(a) == (May("rotation") \/ writes = {}) /\ (Apart => epoch[a] = 0)

NewKey == [of |-> user, gen |-> blob[user].gen + 1]
BlobsRotated ==
    blob' = [blob EXCEPT ![user] = [gen |-> NewKey.gen, pin |-> NewKey,
                                    recovery |-> NewKey]]

(* A device was revoked: a new key replaces both blobs, the answer carries *)
(* its generation, the key is adopted and everything encrypted anew.       *)
RotateMbk(r) ==
    /\ user # NoOne /\ 0 < blob[user].gen /\ blob[user].gen < MaxGen
    /\ keying.pc = "idle" /\ rebuild = "idle" /\ Reaches(r)
    /\ MayRotate(user)
    /\ BlobsRotated
    /\ keying' = IF r = "ok" THEN [Keying("answer", NewKey) EXCEPT !.next = "rebuild"]
                 ELSE NoKeying
    /\ UNCHANGED <<device, sending, tasks, unstored, crossed, cache, backup, gaps>>

RotationAnswered ==
    /\ keying.pc = "answer"
    /\ AdoptionBegun(keying.key.gen)
    /\ UNCHANGED <<user, mbk, kept, sending, tasks, unstored, crossed, cache, server,
                   gaps>>

(* Another device of the account rotates the key, and posts anew what it   *)
(* has of the backup.                                                      *)
RemoteRotates(a, has) ==
    /\ 0 < blob[a].gen /\ blob[a].gen < MaxGen
    /\ MayRotate(a) /\ (May("rotation") \/ keying.pc = "idle")
    /\ LET key == [of |-> a, gen |-> blob[a].gen + 1] IN
       /\ blob' = [blob EXCEPT ![a] = [gen |-> key.gen, pin |-> key, recovery |-> key]]
       /\ backup' = [backup EXCEPT ![a] = [id \in Ids |->
                         IF id \in has THEN [backup[a][id] EXCEPT !.key = key] ELSE NoEntry]]
    /\ gaps' = gaps \union {t \in Texts : Owner[t] = a /\ t \notin has}
    /\ crossed' = IF keying.pc \in {"recovery", "settings"} THEN crossed \union {a}
                  ELSE crossed
    /\ UNCHANGED <<device, sending, tasks, keying, unstored, cache>>

(* handleRemoteRotation: a key of an older generation is dropped, when the *)
(* socket says so or the check after a start does.                         *)
RemoteRotation(g) ==
    /\ mbk' = IF g > generation THEN NoKey ELSE mbk
    /\ kept' = IF g > generation THEN [kept EXCEPT ![user] = Nothing] ELSE kept

RotationNoticed ==
    /\ user # NoOne /\ blob[user].gen > generation
    /\ RemoteRotation(blob[user].gen)
    /\ unstored' = FALSE
    /\ UNCHANGED <<user, generation, sending, tasks, keying, crossed, cache, server, gaps>>

(* reset(), before a switch of account; a logout also wipes its data. *)
Reset(wipe) ==
    /\ user # NoOne /\ (May("switch") \/ Quiet)
    /\ wipe \/ Cardinality(Accounts) > 1
    /\ user' = NoOne /\ mbk' = NoKey /\ generation' = 1
    /\ timer' = FALSE /\ queue' = <<>> /\ rebuilding' = FALSE
    /\ unstored' = FALSE
    /\ crossed' = IF keying.pc = "idle" THEN crossed ELSE Accounts
    /\ gaps' = gaps \union ToSet(queue)
    /\ IF wipe
       THEN /\ kept' = [kept EXCEPT ![user] = Nothing]
            /\ texts' = [texts EXCEPT ![user] = {}]
            /\ cacheOf' = IF cacheOf = user THEN NoOne ELSE cacheOf
       ELSE UNCHANGED <<kept, texts, cacheOf>>
    /\ UNCHANGED <<batchesOf, batches, writes, flush, backfill, rebuild,
                   keying, epoch, server>>

(* The app is killed: what was in memory is gone. *)
Crash ==
    /\ user # NoOne
    /\ user' = NoOne /\ mbk' = NoKey /\ generation' = 1
    /\ timer' = FALSE /\ queue' = <<>> /\ writes' = {} /\ flush' = Idle
    /\ backfill' = NoBackfill /\ rebuild' = "idle" /\ rebuilding' = FALSE
    /\ keying' = NoKeying /\ unstored' = FALSE
    /\ cacheOf' = NoOne /\ batchesOf' = NoOne
    /\ gaps' = gaps \union ToSet(queue) \union ToSet(flush.batch)
                    \union ({e.id : e \in writes} \ {Group})
    /\ UNCHANGED <<kept, batches, crossed, texts, epoch, server>>

-----------------------------------------------------------------------------
Flushing(r) == RetryBatch(r) \/ PostQueue(r)
Task(r) == \/ FetchServerIds(r) \/ BackfillUpload(r)
           \/ RebuildCount(r) \/ DeleteData(r) \/ RebuildUpload(r)
           \/ BackfillCheck(r)
TaskStep == \/ BackfillFlush
            \/ RebuildClear \/ RebuildFlush \/ RebuildEnds
Adoption == RotationAnswered \/ ImportKey \/ \E stored \in BOOLEAN : StoreKey(stored)

Next ==
    \/ TimerFlush \/ TakeQueue \/ TaskStep
    \/ \E r \in Answers : Flushing(r) \/ Task(r)
    \/ \E t \in Texts : NewText(t)
    \/ BackupGroupState
    \/ \E e \in writes : SaveWrite(e)
    \/ Restore \/ StartRebuild
    \/ \E a \in Accounts : Initialize(a)
    \/ \E r \in Answers : \/ SetupPin(r) \/ SetupRecovery(r) \/ Unlock(r)
                          \/ ChangePin(r) \/ RotateMbk(r)
    \/ user # NoOne /\ \E key \in {blob[user].pin, blob[user].recovery} : FetchBlob(key)
    \/ Adoption \/ RotationNoticed
    \/ \E a \in Accounts : \E has \in SUBSET Present(a) : RemoteRotates(a, has)
    \/ \E wipe \in BOOLEAN : Reset(wipe)
    \/ Crash

Spec == Init /\ [][Next]_vars

(* The timer fires and the flush goes on, as do the tasks begun; a request *)
(* is answered, and one repeated for ever succeeds again and again.        *)
FlushStep == TimerFlush \/ TakeQueue \/ \E r \in Answers : Flushing(r)
OtherStep == \/ TaskStep \/ Adoption
             \/ \E r \in Answers : Task(r)
             \/ \E e \in writes : SaveWrite(e)

Fairness ==
    WF_vars(FlushStep) /\ WF_vars(OtherStep) /\ SF_vars(user # NoOne /\ RetryBatch("ok"))

FairSpec == Spec /\ Fairness

-----------------------------------------------------------------------------
(* A text of the message cache is on the server or on its way there: in    *)
(* the queue, in the flush, in a batch or being written to one.  gaps has  *)
(* the exceptions the code makes: a text turned away while there is no key *)
(* or during a rebuild, one whose entry a rebuild deleted and has not put  *)
(* back, and one only memory held when the app was killed or reset.        *)
(* (enqueue, writeDurable, runFlush, doBackfill, doRebuild, clearQueue)    *)
TextsAreKept ==
    \A a \in Accounts : \A t \in texts[a] :
        Owner[t] = a /\ t \notin gaps => t \in OnItsWay(a)

(* The backup of a group state is never replaced by an older one.          *)
(* (runFlush retries the batches "FIFO order by savedAt")                  *)
GroupStateAdvances ==
    [][\A a \in Accounts :
          backup'[a][Group] = NoEntry \/ backup'[a][Group].val >= backup[a][Group].val]_vars

(* A saved batch is posted in the end, while its account is open and its   *)
(* key is there: no task keeps the flush from running again.               *)
(* (flush, currentFlush, doRebuild's stopFlushTimer)                       *)
BatchesAreDelivered ==
    \A a \in Accounts :
        batches[a] # <<>> ~> batches[a] = <<>> \/ user # a \/ mbk = NoKey

(* What an account's message cache holds is that account's.                *)
(* (ensureCacheInitialized, initializedScope)                              *)
CacheIsOwn == \A a \in Accounts : \A t \in texts[a] : Owner[t] = a

(* A key goes with its generation: the pair kept on the device is that of  *)
(* one generation, and the key in memory is that of the generation in      *)
(* memory.  The exceptions are those of the code: the generation is set    *)
(* before its key is stored and imported, and stays without it when the    *)
(* storing fails (until a restart takes the pair that was kept); and an    *)
(* account is crossed once another device rotated its key between the two  *)
(* requests of an unlock or a set-up, its old key went under a new PIN, or *)
(* it was left meanwhile.  (setupSync, unlockWithPin, changePin, rotateMbk,*)
(* handleRemoteRotation, initialize)                                       *)
KeyOf(a, g) == [of |-> a, gen |-> g]
Adopting == keying.pc \in {"store", "import"}
KeyIsOfGeneration ==
    /\ \A a \in Accounts \ crossed : kept[a] # Nothing => kept[a].key = KeyOf(a, kept[a].gen)
    /\ user \in Accounts \ crossed /\ mbk # NoKey /\ ~Adopting /\ ~unstored =>
          mbk = KeyOf(user, generation)
=============================================================================
