# Bluvy client: formal models, model checking and proofs

Bluvy is an end-to-end encrypted messenger (Ionic/Angular, `src/src/app`). Its
conversations are MLS groups; its users are AT Protocol identities with several
devices. This directory models the parts of the client where correctness is hard
to see and hard to test: how a conversation gets its group, how devices agree on
the sequence of group commits, how one device drives one conversation through its
life cycle, how a received ciphertext becomes a line of text exactly once and how a
typed one leaves the device, how devices join and leave, whose tokens a request
carries, what the encrypted backup holds, and how notes and preferences reach the
user's repository. Paths below are relative to
`src/src/app/core/` unless they start with `src/`.

Contents: 1 the system · 2 the modules · 3 correspondence with the code · 4 runs,
bounds and fairness · 5 proofs · 6 known deviations · 7 what is not modelled ·
8 plan.

## 1. The system

### Components

| Component | State it keeps | Operations | What is hard | What makes it correct |
|---|---|---|---|---|
| **Commit protocol** `mls/mls-membership`, `mls-commit`, `mls-welcome`, `mls-message-crypto` | `groupStates`, `pendingReprovisions`, `pendingRemovals`, `processedWelcomeDigests`, `lastKnownEpochs` in the encrypted MLS store | provision, reprovision, remove a device; apply and catch up commits; process a Welcome; encrypt, decrypt; clear; recover markers | the new state is stored before the server is asked; requests and answers are lost and repeated; two devices race for one epoch; the app dies in between | no device stays on a state nobody else has; the log is a chain; success is reported for stored commits only; no ratchet generation is used twice |
| **Genesis and session start** `mls/mls.service` | `pendingGenesises`, the first group state | ensureGroupReady (adopt, create, join), reconcileGenesis, recoverPendingGenesises | two founders; crash between marker, state and answer | one founding state per conversation |
| **Coordinator** `mls/coordinator`, `mls/state-machine` | `states`, barrier, `failedRecovery` timers, failure counters, `caughtUpConvs` | processWelcome, ensureGroupReady, commit and catch-up, decryptMessage, clear, restore, conflict, recovery from FAILED | every method awaits and is called from pages, socket handlers, sweeps and timers at once | transitions that always settle; one initialization at a time; the barrier is released; recovery never destroys a good group |
| **Decrypt pipeline** coordinator replay and retry, `mls/repositories/pending-decrypt`, `conversation/message-cache`, `src/src/app/pages/conversation`, `notification` | the pending queue, the message cache, `inFlightDecrypts`, `knownIds` | messageNew handlers, loadHistory, replay, retry of placeholders, sweep before a clear | a ciphertext decrypts once, and six callers compete for it | no text is lost or overwritten; every message is read in the end |
| **Sending and outbox** conversation page, `conversation/outbox` | outbox entries, drafts, pending and failed bubbles | send text or place, retry, load drafts, leave and return | the answer is late or lost, the page goes away, the app is killed | a recorded text is in the outbox until it is in the cache; the page can send again |
| **One message, its reactions and its recovery** conversation page, `message-payload.helper`, `mls/recovery`, `receipts` | a cached record, the list shown, unread counts, resend attempts | react, receive a reaction, load, ask and answer a resend | read-modify-write of one record from four places | the page shows what the messages leave |
| **Message cache stores** `conversation/message-cache`, `conversation/cache/*` | one database and one key per account, `initializedScope` | initialize, read, write, clear | connections, keys and scopes of two accounts | the open store is the account's, clearing ends |
| **Key packages and provisioning** `mls/key-package`, `device/*` | private keys, the server pool, cooldowns, removal markers | ensurePool, reconcile, sweep, revoke | crash between storing and uploading, order of sweeps | every device ends in every conversation, a revoked one in none |
| **Session** `auth/auth.service`, `infrastructure/api-client`, `token.repository`, `auth/oauth.service` | tokens per account, the active account, refresh promises, the OAuth session | login, add, restore, refresh, switch, logout | refreshes in flight while accounts change; single-use tokens | tokens belong to the account they are stored for; every change ends |
| **Key backup and sync** `sync/*`, `backup/*` | queue, saved batches, MBK and its generation | push, flush, rotate, rebuild, backfill, restore, reset | rotation and rebuild beside the queue, kills at any await | a cached text is on the server or on its way |
| **Notes** `notes/*` | the list shown, the local store, records on the PDS | send, edit, delete, push, sync | pushes and a sync beside edits | last written is what stays |
| **Preferences** `services/app-preferences-sync`, `embed/embed-preferences`, `badge/badge-visibility`, the declaration of `mls/key-package` | settings in localStorage, caches, records on the PDS | choose, save, bootstrap, refresh, declare | debounce, failed reads, writes out of order | what was chosen last is what is kept |
| **MLS state storage** `mls/mls-state-storage` | one encrypted blob, a promise chain as lock | load, update | nested update waits for itself | updates are serial and atomic |
| **Transport** `infrastructure/socket`, `connectivity`, `api-client` | the connection | events, requests, retries | lost, throttled and repeated events | consumers tolerate all of it |
| **Typing, presence; journal; push registration; contacts, layout, guards; lookups of display data; secure storage; Android shell** | lists and settings | I/O and presentation | little | |

### How they interact

The conversation page, the socket handlers, the notification service and the
reconnect sweeps call the coordinator; the coordinator calls `MlsService`, a
facade over the commit protocol; all of these write the MLS store through
`MlsStateStorageService.update`, whose promise chain makes one update one atomic
step. The server (not in the repository; `mls/testing/mls-multidevice-harness.ts`
holds the fake the tests use) keeps one commit per epoch and conversation and one
pending Welcome per device and conversation. Failures come back to the
coordinator as exceptions, which it turns into states, counters and timers;
after catch-ups and Welcomes it replays the pending queue into the message
cache, and the page shows what the cache holds. What the page sends and what the
pipeline stores is given to the sync service, which backs it up; a device that has no
state asks the backup, other devices or the server's log for it. The session decides
whose tokens, stores, keys and repository all of these use.

The code runs on one thread: what interleaves is the code between two `await`s.
That is the grain of every module here.

## 2. The modules

| Module | What it is |
|---|---|
| `GroupLog` | Abstract specification: one growing log of commits, every device at a position of it. |
| `MlsCommits` | The commit protocol between any number of devices and the server; its refinement to `GroupLog`. |
| `MlsCommitsProofs` | Theorems about `MlsCommits`, in any environment and in a calm one, where it implements `GroupLog` and no device uses a key twice. |
| `Genesis` | How a conversation gets its first group: initiator, joiners, the crash marker and its recovery. |
| `MlsCoordinator` | One conversation in the coordinator of one device: calls, recoveries and what they observe of the group. |
| `DecryptPipeline` | Received messages of one conversation on one device, from ciphertext to cache. |
| `Sending` | Sent messages of one conversation on one device, from composer through outbox and socket to cache. |
| `Thread` | One message: the reactions to it, the recovery of its text by a resend, the unread count. |
| `MessageStore` | The databases and keys of the message cache, and the accounts they belong to. |
| `Provisioning` | A new device and an old one of the same user: key packages, sweeps, Welcomes, revocation. |
| `Session` | Accounts, tokens and refreshes, and the changes of account. |
| `GenesisProofs` | Theorems about `Genesis`. |
| `ConversationProofs` | Theorems about `MlsCoordinator` (one initialization, recoveries that spare good groups) and `Sending` (no recorded text is lost). |
| `AccountProofs` | Theorems about `Session` (whose tokens) and `Notes` (what is written stays, what is deleted stays away). |
| `MessageProofs` | Theorems about `Thread` (what a page at rest shows) and `SyncBackup` (the key's generation, and what becomes of the texts). |
| `DeviceProofs` | Theorems about `Preferences` (what was chosen is in force) and `Provisioning` (the pool, the Welcomes). |
| `MessageStoreProofs` | Theorems about `MessageStore`. |
| `DecryptPipelineProofs` | Theorems about `DecryptPipeline`: no text is lost or overwritten, a clear tries everything. |
| `SyncBackup` | The encrypted backup of a device: queue, batches, key generations, long tasks. |
| `Notes` | Notes in the list, the local store and the repository. |
| `Preferences` | Settings, embeds and the badge, on the device and in the repository. |
| `MC...` | Instances for TLC, one per module. |

The models are layers. `Genesis` ends where `MlsCommits` begins: with one stored
founding commit. `MlsCommits` looks at the group states themselves and ignores who
calls; `Provisioning` looks at which device calls when and takes one commit of
`MlsCommits` as a post that is stored or not; `MlsCoordinator` takes the operations
of `MlsCommits` as atomic steps with their possible results and looks at the callers;
`DecryptPipeline` takes readiness, epochs and the verdict of a decryption from the two
below and looks at what becomes of the text; `Thread` takes one of its cached records
and looks at what changes it afterwards. `Session` is below all: the other modules
assume one account unless they say otherwise, and where a switch of account meets them
it is an event of theirs (`MessageStore`, `SyncBackup`, `Preferences`). They are not
composed into one module: the product of their states is out of reach, and each
interface is small (an epoch, "forked or not", a result, an account).

A proof module may be about two models; it extends both. The operators one of them shares
by name with the other then carry its name (`NotesInit`, `ThreadNext`, `PreferencesSpec`,
`sendingVars`).

Several definitions are preceded by another one marked `A slip:`. These are
mutated forms of the definition that follows, used to confirm that the
properties notice a wrong line of code; no specification uses them.

Several models take the circumstances of a behaviour from a constant set, of which each
behaviour picks one element at the start and keeps it: `Ways` (`ways`: what may go
wrong or come together), `Uses` (`use`, in `Preferences` `uses`: the calls, messages,
touches and failures there are).
One run then covers several scenarios, each as deep as the bounds allow, without their
product. A property named `...Calmly` states something the code promises only for some
of them, which its definition names; section 6 says what breaks it in the others.

## 3. Correspondence with the code

### Genesis

`call[d]` is the `ensureGroupReady` under way on device `d` (`mls/mls.service.ts` 162-508):
its `pc` names the `await` at which it stands, `solo` and `mine` the two states it holds
in locals, `reply` the server's answer. A group state is an index into `built`, and a
commit is the state it produces.

- *What is there*: `Begin` looks at state and marker; a marker sends the call to the shared
  recovery (`AfterRecovery`), a group to a pending Welcome (`HealFromWelcome`) and then to
  a catch-up (`CatchUpConfirmed`), a solo state to phase 2.
- *Role*: `AskRole` is the server's claim; a joiner goes through `Poll` and `NextRound`.
- *Phase 1*: `Precheck`, `LookAgain`, `CreateSolo`, with the last look outside the storage
  lock and the write inside it. *Phase 2*: `LoadSolo`, `AddParticipants`, whose
  `WriteGenesis` is the compare-and-swap of state and marker, then the post.
- *Outcome*: `Confirm` (any 200 is success, as in the code), `Conflict` (409),
  `Reconcile` followed by `ReconcileWithServer`; `Throw` is every other rejection.
- *Recovery*: `RecoverPendingGenesises` starts the shared recovery, `ResolveMarker` is its
  storage update (rollback by epoch, marker deleted), `RecoverFromServer` its catch-up.

Three constants describe the environment. `Takeover`: the server may give the claim of an
initiator to another device. `CatchUpMayMiss`: the catch-up after a rollback may fail, be
cut off by a crash, or run before the lost request has met its fate (`Landed`).
`CallsMayIntrude`: a call may begin while a recovery asks the server. The code excludes
none of the three; section 6 says what each of them breaks.

### MlsCommits

A commit is an index into `commits`; a group state is named by the commit that
produced it (`head`), because replaying a commit reproduces the bytes its author
wrote. With `head`, a state carries the epochs whose secrets it retains (`keys`),
the generation of its own ratchet (`gen`) and the messages it has decrypted
(`seen`), because the compare-and-swap of a rollback compares the whole stored
state and any of these changes it.

- *Start*: `WriteOptimistic` is one `storage.update()`: build the commit, replace the
  state, leave the marker for the two operations that have one
  (`mls-membership.service.ts` 51, 265, 601), then post.
- *Server*: `Receive` stores the commit that extends the log with its Welcome and answers
  an older epoch with the commit that won it, as in `FakeMlsBackend.postCommit`. It may
  also refuse what it does not hold with a 409: a gap always, a commit that would fit
  because the tests of that branch force it (`*-orphan-clearconversationgroup` specs).
  `LoseRequest`, a lost answer and `RetryPost` model the network and the API client's
  retry.
- *Outcome*: `Confirm`, `LostRace` followed by `Resync`, `Conflict` (409) and
  `ReconcileAfterPostCommitFailure` are the branches after the `await`. Whether the
  answer is one's own is decided as in the code, by sender (`IsMine`).
- *Others*: `ApplyCommit` with the epoch guards, `JoinViaWelcome`/`IgnoreWelcome` with
  digest and epoch guards, `EncryptMessage`, `DecryptMessage`,
  `ClearConversationGroup`.
- *Crash* drops `op` and keeps everything stored; `RecoverOnePendingReprovision` and
  `RecoverOnePendingRemoval` resolve the markers.

Three constants describe the environment. With all three FALSE (`Calm`), a device
starts an operation only when its last one has settled, traffic and Welcomes do not
fall between a write and its outcome, and the app is not killed while
`provisionDevice` is posting. The code guarantees none of the three; it relies on
them. The runs show what holds with them and what survives without them, and
section 6 says what breaks.

### MlsCoordinator

`st` is the entry of the conversation in `states` ("UNKNOWN" before
`getOrDeriveState`), `held` the barrier's registrations, `call[p]` the call `p` and
the `await` at which it stands. `Calls` are the public methods under way, `Timers` the
`setTimeout`s of `scheduleFailedRecovery`; a second timer set for the same
conversation is a second member, as it is in the code, which overwrites the map
entry without clearing the earlier timer. `Enter` is `transitionState`; an illegal
transition throws, and where it throws decides what is skipped, so every action
that transitions has a branch for it. `Resume` gives precedence to a call whose
`getOrDeriveState` has just resolved (microtasks run before anything else).

`use` has the calls that are made, of which kinds, whether each may be made again, how
many requests fail and how many epochs there are. A call whose transition throws between
`barrier.register` and the `try` ends in "thrown" with its registration in `held`: it is
`Leaked`.

The group is what the coordinator can see of it: an epoch, whether it has left the
server's chain, the commits that replaced this device's leaf, and the pending
Welcome.

### DecryptPipeline

`decryption[m]` is the shared promise of `inFlightDecrypts`; `reader`, `notifier` and
`echo` are the subscribers that wait for it and then write the cache; a `pass` is
one loadHistory, replay, retry or clear, at its current `await`. `Verdict` is what
ts-mls answers: no state, a future epoch, an epoch before the join, a consumed
generation, or the text; `Consume` is the ratchet that is stored inside the same lock.
`Fatal` is `classifyError`. A replay marks, demotes or drops entries as
`replayPendingDecrypts` does, with `MaxAttempts` for `MAX_REPLAY_ATTEMPTS`.

`use` has the messages (own or another's, of the first or a later epoch), the passes,
and what goes wrong. `use.overlap` FALSE keeps a message out of the hands of two
callers at once; TRUE lets everything overlap. `Calm` names the uses in which callers
take turns and the app lives.

### Sending

A send is a record of `sends` with the `await` it stands at: `RemoveDrafts`, `Record`
(`outboxRepo.add`), the group made ready and the ciphertext posted, the server's
message (`posts`), the store under the server's id, the removal of the entry, the
replacement of the bubble. `page`, `visit` and `load` are the Ionic page, covered by
another one (`Leave`, `Return`) or destroyed (`Orphaned`: its sends go on without it); a
load shows the cache, fetches a page of the server's messages and stores a placeholder
for own messages the cache lacks (`FillGap`). The composer is the child component with
the text it was given and the text typed since.

### Thread

A reaction is a message of its own: `Toggle` to `ToggleKeep` is the page's own one
(shown, read, stored, sent, kept), `LiveStore`, `LiveGet`, `LivePut` that of another user
as the socket delivers it. `load` is loadHistory at its numbered parts. `record` is the
cached message with its reactions, `sealed` while its text is missing; `RequestResend`,
`Answer`, `ResentGet`, `ResentPut` are the recovery by another device; `attempts` survives
a restart, as in localStorage.

### MessageStore

`scope`, `store`, `keys` are `initializedScope`, `msgStore` and `keyStore` of
`MessageCacheService`; `init` and `clear` are `initialize` and `clearAllForUser` at their
`await`s. `opened` and `others` are the connections that keep a web database from being
deleted; native connections close. A record is its database, its account and its key.
`OpenStore` and `OpenKeys` may each fail: `InitFails` leaves what `initialize` has replaced
by then, the stores, and what it has not, the scope. `broken` and `spoilt` remember it.

### Provisioning

`pool` and `local` are the key packages at the server and their private halves, numbered
as they are generated; `ensure` is one of the callers of `ensureKeyPackagePool` and
`runEnsure`, `sweep` one of the sweeps of the old device ("nudge" by `device:new`,
"connect" on every connection, "revoked" by `device:revoked`) at its `await`. `member` is
what the old device's group states say, `inGroup` what the server's log says, `welcome`
the pending Welcome of each conversation.

### Session

`refresh` is the shared promise `refreshing`, with its reader (`tidy`: whether its caller
clears the session when it fails); `secondary[a]` and `restore[a]` the promises kept for
each account; `change` the login, added account, switch or logout under way; `wiping` the
account that `clearSession` is emptying. Token pairs are numbered by account; the server
accepts the newest refresh token and keeps an access token good until it expires.
`oauth` is the one AT Protocol session. A logout's local part is one step for each of its
awaits; `ClearForDid` is `clearSessionForDid`, which may stay in the deletion of a database
("blocked"). `world` has what may happen in a behaviour: requests that fail, kills,
revocations, a blocked deletion, and a user and timers that act while refreshes and changes
are under way ("intrude"). `crossed` remembers the accounts that became active in the middle
of a refresh.

### SyncBackup

`flush`, `backfill`, `rebuild` and `writes` are `runFlush`, the long tasks and the
`writeDurable` calls, `keying` the set-up, unlock or rotation of the key, each at its
`await`; `queue` is the queue in memory, `batches` the store of saved batches, `backup` and
`blob` the server. A key is adopted as the four places of `sync.service.ts` do it (228, 251,
275, 366): `AdoptionBegun` sets the generation, `StoreKey` keeps key and generation on the
device and may fail, `ImportKey` is where the key in memory changes at last. `unstored` and
`crossed` remember a storing that failed, and the accounts whose key met a rotation, an older
key or a change of account half-way. `Faults` are the ways a request fails; `Intrusions` what
may happen in the middle of another operation (a switch of account, a rotation by another
device or a change of PIN with the older key, a new text).

### Notes

`notes` is the signal, `local` the IndexedDB store, `records` what the PDS has. `pushes` are the
`pushNoteToPds` under way with the item they hold, `deletes` the deletions, `sync` is
`syncWithPds` at its `await` with what it has read. A text is the time it was written.

### Preferences

`settings` is localStorage (one for all accounts), `boot`, `armed` and `saves` are
`bootstrap`, the debounce timer and the writes under way; `enabled`, `cached` and
`visible` the embeds and the badge with their caches, `declared` the declaration on the
PDS, `session` the account of the OAuth session, `kept` the accounts whose session the OAuth
client still has and can restore. A value is the time it was chosen.

## 4. Runs

One run for each module. Each takes between half a minute and three and a half minutes on
two workers.

| Run | Instance | Properties | What it shows |
|---|---|---|---|
| `commits` | 2 members, 2 commits, 1 message, calm, fair | `NoFork`, `SuccessMeansStored`, `OffLogIsOwn`, `NoGenerationReuse`, `ImplementsGroupLog`, `Converges` | lost requests, lost answers, retries, crashes, clears and marker recoveries neither fork the group nor report a commit that was not stored nor reuse a message key; the protocol implements the abstract log; a device that keeps state and leaf reaches its end |
| `genesis` | 2 devices, 5 states, 2 rounds, the three constants FALSE, fair | `ReadyIsStored`, `OneFounder`, `MarkersResolve` | two users open a new conversation at once, with losses, retries, 409s, crashes and recoveries: one of them founds it, success means a stored group, markers come to an end |
| `coordinator` | any 2 calls of the 8 kinds with 1 failing request; an `ensure` between two decryptions; or commits and catch-ups one after another for ever, with 4 failing requests; 2 timers, fair | `OneInitialization`, `RecoverySparesGoodGroups`, `TransitionsSettle`, `DecryptReturns` | overlapping calls settle and establish one group; sequential ones beside recoveries lose none; a decryption returns unless a registration of the barrier leaked, which the three calls reach |
| `pipeline` | 2 messages: own and another's with all passes but the clear; of two epochs with replays and retries; 1 message with clears, failures and kills in any overlap; fair | `NothingLost`, `TextStays`, `ClearTriesEverything`, `EveryMessageIsRead` | every caller of a decryption, in turn or all at once |
| `sending` | 1 text and 1 place, 2 sends, 2 visits, 2 loads, lost acknowledgements and failed loads, kills, fair | `TextsSurvive`, `SendsSettle` | a recorded text is in the outbox until it is in the cache |
| `thread` | 2 own reactions, 3 in all, 2 loads, 1 reconnection or restart; calm, or with answers and failures together | `ReactionsAgreeCalmly`, `RecoveredIsShownCalmly`, `NothingIsUnreadCalmly` | the page at rest shows what the messages leave |
| `message_store` | 2 accounts, 2 tasks, 4 begun, 2 logouts, 1 opening that fails, of the store or of its key store, web and native, fair | `StoreIsOpenCalmly`, `RecordsAreOwnCalmly`, `ClearReturnsNatively` | while idle accounts are left, two accounts' databases stay apart, but for one whose opening failed under the other's scope |
| `provisioning` | 2 conversations, one archived, pool of 2, 2 refillers, 1 failing request; undisturbed, killed and wiped, or revoked; fair | `WelcomesAreJoinableIfKept`, `NewDeviceJoinsCalmly`, `RevokedLeaves` | every Welcome can be taken, the device joins, a revoked one leaves |
| `session` | 2 accounts, 2 token pairs each; blips, kills and revocations, or a user who acts in the middle of everything (until 1 account is crossed) and deletions that block; fair | `TokensAreOwn`, `OneSpend`, `ChangesEnd` | tokens stay with their account through every change, but for the account that became active in the middle of a refresh; changes end, or stay in a blocked deletion |
| `sync_backup` | 1 account, 1 text, 1 group state, 2 key generations, requests that do not arrive, keys that cannot be stored, rotations by another device at any await, kills, fair | `TextsAreKept`, `KeyIsOfGeneration`, `BatchesAreDelivered` | what is cached is backed up or on its way; a key goes with its generation but where the code lets them part |
| `notes` | 2 notes, 3 texts, 2 failures, 1 sync asked for, 1 restart; undisturbed, with failures, with a second device, or hasty; fair | `WrittenIsShownCalmly`, `DeletedIsGoneCalmly`, `TextsStayCalmly` | the last text stays, the deleted one is gone |
| `preferences` | 2 accounts, 3 choices, 1 failure, 2 starts; 12 combinations of what is touched and what goes wrong; fair | `SettingsArriveCalmly`, `EmbedsAreChosenCalmly`, `ChoiceIsDeclaredCalmly` | what was chosen is what is kept, shown and declared, the latter as long as the OAuth session can be restored |

Other properties are stated in the modules and hold on the instances named, but no run
spends its time on them: `LogIsChain`, `NeverBuiltAhead` and `LostRaceReconciles` (`commits`),
`PhantomIsMarked`, `SoloIsUnfounded`, `RecoveryAdopts` and `CallsReturn` (`genesis`),
`FailedIsAttended` (`coordinator` with `Commits`), `GivenUpOnEvidence` (`pipeline` with
clears), `OneEntryPerText` (`sending`), `TextStaysCalmly` and `ResendsAreBounded` (`thread`),
`TasksEnd` (`message_store`), `PoolIsBounded` and `AddedOnce` (`provisioning`), `UserIsActive`
and `WipedIsSignedOut` (`session` without "intrude"), `SyncedIsStored` and `PendingEnds` (`notes`).

### Bounds, and why they are enough

- *Commits* 2: a race needs two commits for one epoch. With 3 (a commit built on a
  loser) and without messages, the safety properties and the refinement also hold,
  on half a million states.
- *States* 5 (`Genesis`): a solo state, its genesis commit, and the second and third of
  each that follow a rollback or a 409. *MaxRounds* 2 for 5: a first and a last round.
- *Messages* 1 (`MlsCommits`): a reuse of a generation takes two encryptions; with one,
  a device that is behind a generation it sent at is seen before the second.
- *Calls* 2, and 3 for what one call does to those after it; *epochs* 2 or 3: an overlap of two; a catch-up with something to
  catch up; a Welcome older and newer than the group. The calls that follow one another
  are unbounded. *Timers* 2: enough to see a duplicate. *faults* 4: more than
  `MAX_COMMIT_FAILURES` (3, as are the other limits).
- *Passes* 2: a pass and the replay that its catch-up starts, or two of them.
  *MaxAttempts* 1 for 5: the budget is counted, compared and exhausted in one step
  fewer.
- `Sending`: two sends may overlap, and two visits make one page outlive another's sends.
- `Thread`: two own reactions undo one another, a third is another user's.
- `MessageStore`: four tasks: one before, one during and one after the change of account, and
  one after the opening that makes up for a failed one.
- `Provisioning`: two conversations, so that a sweep may have done one and not the other;
  *MaxMinted* 6, the pool three times over.
- `Session`: two accounts; two token pairs, so that one is spent and one is good.
  *MaxCrossed* 1: once one account is crossed the user waits again, so that the other one is
  there to be spared. The theorems hold for any number.
- `SyncBackup`: two generations, so that an entry may be of the old one. *Apart*: a
  behaviour has new group states or rotations of the key, not both. With
  `Faults = {"network", "lost"}` (and `MaxEpoch` 2) `TextsAreKept` also holds.
- `Notes`, `Preferences`: three texts or choices, so that one is overtaken and one comes
  back; the failures, restarts and starts there are room for in one day's order.

Deadlock is not checked: commits, messages, calls and choices are bounded and nobody is
obliged to make more, so every model may simply come to rest.

### Fairness, and why the code justifies it

- `Genesis`: a call under way goes on, since every request ends in an answer or a timeout;
  posted commits reach the server or are lost; every connect visits the markers. The
  storage update of a recovery has strong fairness: an app restarted again and again
  lives long enough for one update now and then. Calls are never forced to begin.
- `MlsCommits`: a started operation reaches its outcome, since each `await` ends in an
  answer or a timeout (`api-client.service.ts`); a connected device applies the commits
  it misses (socket events and `catchUpMissedCommits` on reconnect); the reconnect sweep
  visits the markers. Operations, messages, losses and crashes are never forced.
- `MlsCoordinator`: an awaited call returns or fails and a set timer fires. Nobody is
  obliged to call.
- `DecryptPipeline`: a started decryption, store or pass goes on. Visits to the
  conversation, replays, retries and catch-ups recur (strong fairness): they run on
  each reconnect, resume and visit, and cannot be held off for ever by others. The
  retry's fetch is the one request that must succeed now and then, which is why its
  fairness is on reaching "decrypt".
- `Sending`, `MessageStore`, `Session`, `Notes`, `Preferences`: what is awaited is answered
  or times out and the code after it runs; of the user's own actions only reopening the
  notes after a restart is taken for granted. One await of a logout has no timeout, the
  deletion of a database that a connection keeps open: in `Session` it need not be answered
  ("block"), in `MessageStore` it is answered once nothing holds the database.
- `Preferences` adds that hours pass while the app is used, which is when the declaration is
  checked again, and that of these tries to restore the OAuth session one succeeds *if the
  client still has the session* (`kept`): a restore fails for a moment, not for ever. A session
  that was evicted is never restored (`tryRestore` returns null, `auth/oauth.service.ts:26`);
  that the user reconnects is not assumed, and `ChoiceIsDeclaredCalmly` promises nothing until then.
- `SyncBackup`: the same for the timer, the flush and the tasks, and strong fairness for
  the one request that must succeed now and then, the retry of a saved batch.
- `Provisioning`: a device that has something to provide or to remove connects again, and
  the server asks for a refill when the pool is low; kills, losses and the two socket
  events `device:new` and `device:revoked` are not forced.
- `Thread` has no liveness property and no fairness.

## 5. Proofs

What is proved is about all twelve models, from the assumption each makes on its constants
(`ConstantsAssumption`, or one that carries the module's name) and what is named here:

- the commit protocol, for every set of devices and of founders and any number of operations,
  commits and messages;
- genesis, for every finite set of devices, any invitations (`InvitesAssumption`: of other
  devices than one's own, as the code filters the own identity out of the targets) and any
  number of states and rounds;
- the coordinator, for any finite set of calls (`IsFiniteSet(Calls)`, part of its assumption) and
  any timers, limits, epochs and sets of uses;
- the session, for every set of accounts and any number of tokens;
- the notes, for every set of notes, any clock and any number of failures and restarts;
- one message and its reactions, for any set of toggles (numbered by positive numbers) and any
  number of reaction messages, loads, attempts and reconnections;
- the preferences, for every set of accounts, any choices, failures and starts;
- provisioning, for every set of conversations, pages, threshold and target of the pool, and
  any number of faults;
- the backup, its key and its texts, for every set of accounts, every finite set of texts
  (`TextsAssumption`: an item's id is that of a message or that of a group), every way a request
  fails and any number of generations;
- the outbox, for every set of texts and any number of sends, visits and faults;
- the message stores, for every set of accounts and of tasks, on the web and on a phone;
- the pipeline of received messages, for every set of messages and passes, any number of
  attempts from one on (`MAX_REPLAY_ATTEMPTS` is a positive constant of the code) and every
  set of uses.

A hypothesis about the environment (`Calm`, `Takeover`, `Steady`, `May("intrude")`, `NoSwitch`,
`Orderly`, `ClearsInOneEpoch`) is part of the
statement, and so is the condition a property named `...Calmly` carries itself; the other
theorems hold for *every* value of the environment constants. Five properties are about something
the code does break, and say where it does and that it does nowhere else: `TokensAreOwn` and `OneSpend`
but for `crossed` accounts, `KeyIsOfGeneration` but for `crossed` accounts, a key being
adopted and an `unstored` one, `RecordsAreOwnCalmly` but for `spoilt` databases,
`StoreIsOpenCalmly` but while the last opening failed. The stronger forms are violated
(section 6).

| Module | Theorem | Statement |
|---|---|---|
| `MlsCommitsProofs` | `TypeInvariant` | `Spec => []TypeOK` |
| | `OffLogStatesAreOwn` | `Spec => []OffLogIsOwn` |
| | `PhantomsStayLocal` | `Spec => []PhantomsAreNotShared` |
| | `NoForkWhenCalm` | `Calm => (Spec => []NoFork)` |
| | `SuccessIsStored` | `Calm => (Spec => []SuccessMeansStored)` |
| | `LogIsAChain` | `Calm => (Spec => []LogIsChain)` |
| | `NothingBuiltAhead` | `Calm => (Spec => []NeverBuiltAhead)` |
| | `RefinesGroupLog` | `Calm => (Spec => ImplementsGroupLog)` |
| | `NoKeyIsUsedTwice` | `Calm => (Spec => []NoGenerationReuse)` |
| `GenesisProofs` | `TypeCorrect` | `Spec => []TypeOK` |
| | `OneDeviceFounds` | `~Takeover => (Spec => []OneFounder)` |
| | `ReadyMeansStored` | `Steady => (Spec => []ReadyIsStored)` |
| | `PhantomsAreMarked` | `Steady => (Spec => []PhantomIsMarked)` |
| | `SolosAreUnfounded` | `Steady => (Spec => []SoloIsUnfounded)` |
| | `RecoveriesAdopt` | `Steady => (Spec => RecoveryAdopts)` |
| `AccountProofs` | `TypeCorrect` | `Spec => []TypeInv` |
| | `TokensStayOwn` | `Spec => []TokensAreOwn` |
| | `TokensSpentOnce` | `Spec => []OneSpend` |
| | `UserStaysActive` | `Spec => [](~May("intrude") => UserIsActive)` |
| | `WipedStaysSignedOut` | `Spec => [](~May("intrude") => WipedIsSignedOut)` |
| | `SyncedStaysStored` | `NotesSpec => []SyncedIsStored` |
| | `TextsStay` | `NotesSpec => TextsStayCalmly` |
| | `WrittenStaysShown` | `NotesSpec => []WrittenIsShownCalmly` |
| | `DeletedStaysGone` | `NotesSpec => []DeletedIsGoneCalmly` |
| `DeviceProofs` | `SettingsComeThrough` | `PreferencesSpec => []SettingsArriveCalmly` |
| | `EmbedsStayChosen` | `PreferencesSpec => []EmbedsAreChosenCalmly` |
| | `TypeCorrect` | `Spec => []TypeInv` |
| | `PoolStaysBounded` | `Spec => []PoolIsBounded` |
| | `WelcomesStayJoinable` | `Spec => []WelcomesAreJoinableIfKept` |
| `MessageProofs` | `ReactionsComeOut` | `ThreadSpec => []ReactionsAgreeCalmly` |
| | `RecoveredComesOut` | `ThreadSpec => []RecoveredIsShownCalmly` |
| | `ReadWhenShown` | `ThreadSpec => []NothingIsUnreadCalmly` |
| | `TextStaysOpen` | `ThreadSpec => TextStaysCalmly` |
| | `KeyStaysOfGeneration` | `Spec => []KeyIsOfGeneration` |
| | `TextsStayKept` | `NoSwitch => (Spec => []TextsAreKept)` |
| `ConversationProofs` | `TypeCorrect` | `ConstantsAssumption => (Spec => []TypeInv)` |
| | `InitializationIsOne` | `ConstantsAssumption => (Spec => []OneInitialization)` |
| | `RecoveriesSpare` | `ConstantsAssumption => (Spec => RecoverySparesGoodGroups)` |
| | `TextsAlwaysSurvive` | `SendingSpec => []TextsSurvive` |
| `MessageStoreProofs` | `TypeCorrect` | `Spec => []TypeOK` |
| | `StoreStaysOpen` | `Spec => []StoreIsOpenCalmly` |
| | `RecordsStayOwn` | `Spec => []RecordsAreOwnCalmly` |
| `DecryptPipelineProofs` | `TypeCorrect` | `Spec => []TypeInv` |
| | `NothingIsLost` | `Spec /\ Orderly => []NothingLost` |
| | `TextsStay` | `Spec /\ Orderly => TextStays` |
| | `ClearsTryEverything` | `Spec /\ ClearsInOneEpoch => ClearTriesEverything` |

`Calm` is needed: with any one of the three constants TRUE, TLC finds `NoFork` violated on two
members and three commits, and with `EagerStarts` `SuccessMeansStored` too (section 6).

*Argument.* `TypeOK` is not inductive: that a head, a parent, a reply or a marker
refers to a commit already built is needed to type the next step. `TypeInv` adds
exactly these references; one lemma per action (`TypeWrite`, `TypeReceive`,
`TypeLostRace`, ...) shows that it is preserved, `TypeStep` collects them.

`OffLogIsOwn` says that a state outside the log belongs to the device that built it.
A state gets onto a device from a write of its own, from the log, from a Welcome,
or *back* from a marker or a rollback; so `OwnInv` carries the claim to every place
such a state is kept: states, markers, operations under way, and the parents of
commits, together with "a Welcome belongs to a stored commit" (`WelcomesStored`).
`StateFrom`, `MarkerFrom` and `FinishFrom` reduce most actions to the question where a
state came from; `OwnGrows` is the monotonicity of the log that carries old facts
over. `PhantomsAreNotShared` is the conjunct about parents.

*In a calm environment.* `NoFork` alone says nothing of a device in the middle of an
operation, so it is not inductive. `CalmInv` says what is true then:

- `EpochsMatch`, `ParentsInLog`: a commit's place in the log is its epoch, and whatever was
  ever built was built on a state of the log. Two states of the log with one epoch are then
  the same state (`SameEpochSameHead`).
- `MarkersMatch`, `OpsMatch`: where a rollback leads - by a marker or by an operation - is a
  state of the log one epoch back; an answer is for the epoch that was asked for.
- `OneOp`, `OneRequest`: while an operation is posting, the only commit of its device that is
  on its way, or stored for its epoch, is its own. This is why recognising success by the
  sender of the stored commit alone is enough (`ReplyIsMine`).
- `PhantomsExplained`: a state outside the log is the one the operation under way wrote, with
  its marker live if the operation has one; or no operation is posting and some marker is
  live.

A new operation starts from a settled device, which by `PhantomsExplained` is on the log
(`QuietIsNoPhantom`, `SettledStart`). The frame lemmas (`OpsKept`, `StillExplained`,
`CalmKeptBy`) leave one question per action, how the acting device's own state is explained
afterwards; `OwnInv` supplies that a Welcome is for a stored commit. TLC checked `CalmInv`
on instances with two slots and two commits, and with three commits, before it was proved.
`LogIsChain` and `NeverBuiltAhead` follow from `CalmInv` and the type invariant.

*Refinement.* `View` counts a phantom as the position it was built on, so that the write is
invisible (`AbstractWrite`) and the acceptance by the server is `Extend`, which takes the
author along when it still is on its commit (`AbstractReceive`; nobody else can be, by
`OwnInv`). Rollbacks by an answer or a marker undo one commit of the log or none
(`AbstractRollback`), a replayed commit and a Welcome carry a device forward, a clear makes
it leave; `AbstractMove` turns each of these into a step of `GroupLog`.

`NoFork`, `SuccessMeansStored`, `OffLogIsOwn`, `NoGenerationReuse` and `ImplementsGroupLog` are also checked by
the run `commits`, on its instance; `TypeOK`, `LogIsChain`, `NeverBuiltAhead` and
`PhantomsAreNotShared` are left to the proofs.

*Keys.* A device may come to a state of the log again in many ways: it follows the log, is
rolled back by an answer or a marker, is cleared and invited again. `NoGenerationReuse` says
that it never comes to one it has sent from with the ratchet of before. `KeysInv` says why:

- `RemovalsLogged`: whoever was a member at one point of the log and is none at a later one was
  stopped in between (`Blocked`) by a commit that removes its leaf or replaces it, which it
  cannot apply. `MembersMatch` is what a commit does to the members.
- `Spent`: where a device has sent, and where it has built a commit, every Welcome that would
  lead there or to a point before has been processed already, or is blocked on the way.
- `BasesGood`: each state of the log a device is on, *or may be rolled back to*, is `Good`:
  spent, and past every message the device sent (`Past`), which means a later epoch, a later
  generation, or an earlier epoch with the way to the message blocked.
- `MarkersAge`: a marker that is not live names an epoch behind the device and behind whatever
  it may be rolled back to, so it never comes to life again. Without this a marker resolved
  late would undo a state with messages in it.

Following the log keeps `Good` because the commit that blocks the way is one the device cannot
apply (`FollowIsGood`); a Welcome not processed yet leads past what was sent because of `Spent`
(`FreshIsPast`), and a later invitation blocks the way from an earlier one
(`LaterInviteBlocks`). The write of a new commit leaves the old state to be rolled back to,
which is why it is in `BasesGood`, and its author's Welcomes are spent when the server stores it
(`KeysStore`). What the lemmas say about the log they say of heads that do not change
(`EpochStays`, `BlockedStays`, `SpentStays`, `GoodStays`); `StepOfOne` leaves one question per
action, which states its device is on or may be rolled back to. TLC checked `KeysInv` on two and
three devices, up to three commits, two messages and two slots, before it was proved.

*Genesis.* `OneFounder` is about solo states, which are built several steps after the server
chose the device. `FounderInv` therefore speaks of the devices that *bid*: that hold the claim,
are between the answer that gave it to them and the write of the solo state, or have built one.
One device bids (`OneBidder`), and until the log begins every bidder holds the claim
(`BiddersClaim`): so the server, which looks at the claim and at the log only, tells no second
device to initiate. A crash ends a call but releases no claim; the claim is released with the
commit that begins the log, and nobody is told to initiate from then on. `CatchUpMayMiss` and
`CallsMayIntrude` may have any value; with `Takeover` TLC finds two founders.

`ReadyIsStored` compares the end of a call with what the server did with a request that may be
lost, repeated, answered late or answered with another commit. Under `Steady` - the claim is not
given away, the catch-up of a rollback sees the commit the server has, no call begins while a
recovery asks for it; section 6 has the violation for each of the three - `ReadyInv` holds:

- `OneSent`: one commit at most is on its way or stored. Since one device founds (`OneOwner`),
  this follows from when that device posts.
- `Own`: a founder without a state, or with a solo one, has sent nothing, unless it has rolled
  back and not yet asked (`OnTheWay`); a founder with a group has sent nothing else, and if its
  marker is gone the group is stored. So a new commit is built only when nothing was sent.
- `Posting`: any 200 is taken for success, and may be; an answer for the epoch is about this
  call's commit, and after a 409 nothing is on its way.
- `Marked`, `Calling`: with a marker only a posting, an idle or a recovering call is left, and a
  call that takes the group for confirmed found it stored.
- `Reported`: success is of a stored group, or of a solo state that a recovery rolled back under
  the posting call and whose catch-up is still to come.

`AskReady` is the heart: once the request behind a rollback has landed, the catch-up either
leads to the stored commit (`AppliedFacts`) or shows that nothing was sent. `Row` holds what is
said of one device, so that a step of one device needs one question (`LocalStep`), and the
server's steps another (`ServerStep`). TLC checked `ReadyInv` on the instance of `genesis`.
`PhantomIsMarked`, `SoloIsUnfounded` and `RecoveryAdopts` are consequences.

*The coordinator.* `OneInitialization` is about calls that interleave at every await, each of
which may be of any kind. `BarrierInv` says that whoever is about to establish the group holds the
barrier, and is alone in this: a call begins to establish only in a step that finds nobody holding
the barrier and takes it (`Moves`, which every action is shown to obey), and no step
releases the barrier of another call. `RecoverySparesGoodGroups` relates a recovery's last read of
the group to the moment, several awaits later, at which it deletes it. Under `Premise` - every
request is answered and commits arrive one after another; without it the property fails (section
6) - `Recovering` holds: at most one recovery is under way and none has a second timer
(`OneActive`), it stands in FAILED, or in JOINING while it fetches (`TimersStand`), and there no
call can apply a commit (`CallsStand`), so that the group stays as bad as it was when the
conversation failed (`Beyond`). TLC checked both on the instance of `coordinator`.

*Session.* `TokensAreOwn` needs to know what the refreshes under way carry, since a token is
stored by one that was sent earlier, under the account that is active by then. `CrossInv` says
it in any world: while the active account is not crossed, the shared refresh carries a token of
it (`SharedIsOwn`), and the refresh of another account that is not crossed carries one of that
account, which is not active (`OthersAreOwn`). An account that becomes active while either would
fail is crossed by this very step (`ActivateCross`), and a refresh only begins with a token of
the active account, or for one that is not active. `OneSpend` follows: the two tokens are of
two accounts.

In a world without "intrude" `OwnInv` says more: all tokens are own (`AllOwn`), and a login,
switch or logout is alone (`ChangeIsAlone`): no other refresh or restore is under way than the
one it waits for itself. Where a change starts, that follows from the user's waiting
(`UserActsAlone`); between its steps it is the invariant's (`ChangeStepsAlone`). TLC checked
`TypeInv` and `OwnInv` on the instance of `session` first.
`SignedInv` then says who is signed in: outside of the steps of a change the user is the active
account and in the list (`UserStands`); a restore is the active account's own, and waits for its
answer without a user unless a change waits for it (`RestoreStands`); a refresh whose failure
cleans up is under way, and outside of a change (`TidyIsAlone`); and from `setUser(null)` until the
wipe ends, the account stays active without tokens, and no refresh, restore or change is there
that could sign it in again (`WipingStands`). TLC checked `SignedInv` on the same instance.

*Notes.* A text is in the list, in the store, on the PDS, in a push, and in what a sync has read,
and each is replaced by another at its own await. `StoredInv` carries `SyncedIsStored` to all of
these and needs no hypothesis. `TextsStayCalmly` allows requests that fail, restarts included
(`Orderly`). `OrderlyInv` says that pushes, deletions and a sync take turns (`Turns`); that what is
pushed is what the store has (`Pushing`); that a record as new as the stored note by its date, which
is all that the merge compares, is as new by its text (`Ordered`); and that what a sync is about to
store or show is what is stored or was read (`Merging`). When no request fails either, `CalmInv`
adds that what is deleted is gone but for a deletion under way (`Gone`), that a note is pending or
has a record (`Kept`), and that a sync misses none of them (`Seen`). TLC checked each of the three on
the instance of `notes`; what the properties do without their conditions is in section 6.

*Preferences.* The hypothesis is that of the properties: one device whose user waits, and reads that
may fail (`Waits`). `SettingsChosen` says that the settings on the device are those chosen, up to the
language being loaded; that what is being saved is what is on the device; that the record agrees
unless something waits to be saved; and that a bootstrap under way excludes the timer, the saves
and a language being loaded, so that the record it has read is the record there is, and a
read that failed uploads what would be read. `EmbedsChosen` says that memory, the last record, the
cache and the PDS agree unless a choice is under way, and that this excludes a refresh; so a
refresh that could not read keeps the choice, since the last record is there if there was one.
TLC checked both on the instance of `preferences` (974,636 states).

*Provisioning.* `WelcomesAreJoinableIfKept` follows a key package through its life: stored
with its private half by a refill, uploaded to the pool, claimed by a sweep, carried by a
commit, waiting as a Welcome, taken. `KeptInv` says, as long as nothing wiped the device
(`KeptAndTrusted`), that the packages the sweeps have claimed and the Welcomes wait for (`Sent`)
have their private halves (`SentIsKept`), and so have those of the pool (`PoolIsKept`); that
none is in two places (`NoneSentTwice`), since a join deletes the private half, and another
Welcome for the same package would be lost with it; and that a batch about to be stored is
neither pooled nor sent (`BatchIsNew`). A claim takes a package out of the pool, a failed
upload leaves halves without packages, a kill drops a batch: none of them adds to `Sent`
what `local` lacks. `PoolIsBounded` rests on `OneRefill`: the shared promise of the pool lets
one refill run, whose batch and the pool together are at most the target, and everything else
only shrinks the pool. TLC checked `KeptInv` and `BoundInv` on the instance of `provisioning`.

*The backup key.* A key is in many places: in memory, kept on the device, under the PIN and the
recovery key on the server, in a set-up, an unlock or a rotation under way. `KeyInv` says of each,
for accounts that are not crossed, that it goes with its generation (`KeptMatches`,
`WrappedMatches`, `HeldMatches`); of what is under way, that the key it fetched is the one the
server has, and the key it adopts of the generation already in memory (`DoingMatches`); and that
what is adopted is stored for the account it was adopted for (`StoresOwn`). A rotation by another
device (`RotatedMeans`, `ElsewhereRotated`) crosses the account only where a key was fetched and
its generation was not yet; at every other await the invariant survives it.
It has no hypothesis. TLC finds the property violated when any of its
exceptions is taken away (section 6). `SessionKey`, `RequestKey` and `AdoptedKey` go through the
actions; `KeysUntouched` sets aside the other two thirds of them.

*The backed-up texts.* `TextsAreKept` follows a text from the cache through a write, a batch,
the queue and the flush to the server. `TextInv` adds what each place may hold: what waits in
memory is of the account that is signed in and the batches and entries of an account are its own
(`WaitingOK`, `BatchesOK`, `BackupOK`), so that a flush never takes a text to another account's
backup; every item carries a key (`Posts`), so that the server has an entry once it took it; the
flush has an item for each text of its batch (`FlushOK`), so that a post that is refused saves
all of them; and when no account is signed in nothing waits (`AwayOK`). `StillKept` reduces a
step to the question where a text that was on its way is now. `Joined`, `Appended`, `Removed` and
`Listed` say what concatenation, `Append`, `RemoveFirst` and `SetToSeq` do to the elements of a
sequence. No invariant about the list of ids a backfill has fetched is needed: a text is
only taken off `gaps` when it is queued. `NoSwitch` is needed on two accounts (section 6), while
rotations, key changes and further writes may come at any time. TLC checked `TextInv`
before it was proved.

*Reactions.* What a page shows is the result of loads, of the user's own toggles, each of which
reads the record, changes it and stores it again, of the peer's, which do the same on a socket
event, and of a text sent again. `ReactionsAgreeCalmly` compares it with the fold of all the reaction
messages. `ThreadCalmInv` says, when the three do not meet and nothing fails, what the page shows
*during* all this (`PageAgrees`): the peer's part is the fold of the messages heeded so far, the
user's part what the last toggle under way says or, if none is, the fold of what is posted.
The user's calls are in their order (`OwnCalls`), what is handled has been heard (`LiveCalls`), a
reaction message is in the cache, about to be, or not yet heard of (`ReactionsStored`), and a load
holds copies that are still good (`LoadAgrees`, `OneAtATime`). Nobody has reacted to a
sealed message (`SealedIsBare`), so a text sent again comes to a record without reactions.
`TextStaysOpen` needs only `RecordOpen`, and holds with answers during loads and with failures too. Its
first hypothesis is exactly where it ends: with "anytime" TLC finds the text sealed again. TLC checked
`ThreadCalmInv` on the instance of `thread`.

*The outbox.* `TextsSurvive` speaks of what was recorded. `SendingInv` adds the types of the
sends, how far each is (`SendsInv`), and, as `SurvivalInv`, that a recorded text is in an entry
of the outbox or shown by the cache: the entry goes only after the record of the message is
stored (`RemoveKeepsInv`), which it names by the identifier the entry was given, and a load
that stores over a record says so in `blanked`. TLC checked it on 20 million states.

*The message stores.* An opening is one promise shared by all tasks and takes three steps; a
logout closes, deletes and leaves in three more. `TypeInv` adds to the types that a task that got
past the opening, and an opening under way, have a store to speak of (`StoreOK`), which a logout
could take away only if it ran beside them. `CalmInv` is about behaviours in which the user does
not change the account in the middle of a task and logs out of the account the cache is open for
(`ways = {}`, the condition the two properties themselves carry; without it both are violated,
section 6): a logout runs alone (`LogoutIsAlone`), every task and every opening is the signed-in
account's (`TasksAreOwn`, `OpeningIsOwn`), a task past the opening finds its own scope
(`UsersAreReady`), and keys that are there are the store's (`KeysAreOwn`). The last three are what
makes a record own: it is written to the store, under the keys, by a task, and these are three
different variables. An opening that fails, of the store or of its key store, leaves the store
and the keys of one account under the scope of another, and the tasks of that other account go
on to use them. `StoreIsOpen` says of this state, too, whose store is at hand: until an opening
succeeds, that of a `spoilt` account; so what is written to the wrong database is in
one of those (`RecordsAreClean`), and under its own key or none, since store and key store are
replaced together. TLC checked both on the instance of `message_store`.

*The message pipeline.* The hypotheses are about the behaviour, not about the constants: they
speak of its `use`, which Init chooses. `Orderly` asks, of a behaviour whose passes do not
overlap and that is not killed (`Calm`, which the two properties carry themselves), that the
conversation is not marked FAILED, that it is not cleared, and that the page is not opened while
messages of a later epoch arrive. Without any one of the three TLC finds a violation (section 6).
What is left is the ordinary life of a conversation: events in any order, lost ones, both
listeners, shared decryptions with their catch-up and heal, an invitation, the queue and its
attempts, replays and retries over two epochs, or visits of the page.

`NothingLost` says of a consumed key that its text is `Carried`: cached, or held by one of the
five callers that store it. For each that is an obligation over several awaits, during which
another may read the same ciphertext again, be told that the key is gone, and store a placeholder
over the text. `CalmInv` says why none does, per pass and per message:

- `RunsAlone`, `LoadIsAlone`, `TodoIsUnattended`: a pass is the only one, a load has the
  conversation to itself, a replay or a retry the messages on its list.
- `LoadFillsGaps`, `ReplayFills`: what a pass reads, the cache lacks, so that the value it gets
  is the first; a replay counts attempts only where no page is opened.
- `ReaderOK`, `DecryptionOK`: a handler that waits, or holds a placeholder, does so for a message
  whose key is still there; every decryption under way is awaited by somebody.
- `EventOK`: without visits a message is read once, when its event arrives, and is queued only
  after both listeners are done with it (`Settled`); with visits there is one epoch (`OneEpoch`),
  where a decryption that fails needs no second attempt.
- `EchoOK`, `ShownIsCached`: what a replay hands to the page, and the page stores a second time,
  is what the cache has.

`Unheld` and `Delivered` say what the end of a shared decryption does to all who wait for it;
`GoesOn` and `WentOn` what a step of one message leaves of another; `TakenStep` reduces the steps
of a pass to the message it is at. `CalmNext` gives `TextStays` with the next invariant.

`ClearTriesEverything` is proved for every overlap, failure and kill: `SweepInv` says that a clear
that has begun its sweep still has on its list all that is sent and not cached. The sweep's list
is a snapshot, so with a second epoch a message may come after it (section 6), which is
`ClearsInOneEpoch`; within one, `StaysCached` says that a cached message never leaves the cache,
and `GroupIs` that only the clear deletes the group. `TypeInv` has one strengthening, `Shape`:
what a pass holds where. The first message of a list exists since the numbers are well-founded
(`FirstIsIn`). TLC checked `CalmInv` and `SweepInv` on three messages and two passes (1.5 million
states and 541 thousand) before they were proved.

Every invariant and every action property of a run is stated by a theorem. Only model-checked is
what is temporal: `Converges`, `MarkersResolve`,
`TransitionsSettle`, `DecryptReturns`, `EveryMessageIsRead`, `ChangesEnd`,
`BatchesAreDelivered`, `SendsSettle`, `ClearReturnsNatively`, `NewDeviceJoinsCalmly`,
`RevokedLeaves` and `ChoiceIsDeclaredCalmly`, since liveness under fairness is beyond the
prover.

## 6. Known deviations

Where the code does not do what one of its comments promises, or what a reader would
expect of it. Each was reproduced with TLC on the modules as they stand, by the instance
named; the passing runs exclude them by a constant, a use or a `...Calmly`, or check a property
that names them as its exceptions (`crossed`, `Leaked`, `unstored`, `spoilt`, `blocked`, `kept`).

Against a comment of the code:

| Where | Property | Instance | What happens |
|---|---|---|---|
| `mls/mls-membership.service.ts:237` | `LostRaceReconciles` | `commits` with `EagerTraffic` | the comment of line 233 has the winner's commit reconcile "correctly against whatever's actually there". A message encrypted or decrypted between the optimistic write and the answer changes the stored state, so the rollback is skipped; the winner is then skipped as already applied, and the device stays on its fork |
| `mls/mls.service.ts:187` | `ReadyIsStored` | `genesis` with `CallsMayIntrude`, `MaxStates` 3 | the shared recovery is to keep every caller from a mid-flight state (`:596`), but a call joins it only if it finds the marker, and the rollback deletes the marker before the catch-up. A call in between builds a second genesis commit and takes the server's answer, its own first commit, for success |
| `mls/coordinator/mls-coordinator.service.ts:390` | `DecryptReturns` without its exception | `coordinator`, use `Barrier` | `decryptMessage` "Never throws. Returns a DecryptResult" (`:700`). `ensureGroupReady` registers the barrier, then transitions outside its `try`; while a catch-up holds the conversation in ApplyingCommit the transition throws, the barrier is never released, and every later `decryptMessage` waits for ever. `DecryptReturns` exempts just these |
| `mls/coordinator/mls-coordinator.service.ts:549` | `TextStays` | orderly uses with "clear" | the entries still queued at a clear "were never written anywhere visible" (`:532`), but the sweep before it stores the text of queued messages, over which the clear then writes placeholders |
| `auth/auth.service.ts:708` | `BlipsSpareTokens` | `session` | "A transient failure (network blip, timeout) must not wipe otherwise-valid tokens" (`infrastructure/api-client.service.ts:264`). The API client spares them and returns false, which `refreshTokens` takes for final: the proactive refresh meeting a network failure ends the session and clears tokens, MLS state, messages and backup key |
| `sync/sync.service.ts:604` | `CacheIsOwn` | `sync_backup` with two accounts, `"switch"` | the cache's scope is tracked so that "Scope changes (different user or device) trigger full re-initialization" (`conversation/message-cache.service.ts:26`), but `ensureCacheInitialized` initializes only what is not initialized at all: after a switch, a restore stores the texts of one account in the other's cache |
| `conversation/message-cache.service.ts:79` | `StoreIsOpen` | `message_store` with `Ways <- Elsewhere`, native | a clear closes the store whatever account it is open for and resets the scope only if it names the account cleared (`:106`): log out of another account, and the native store of this one stays closed until the app restarts |
| `conversation/message-cache.service.ts:99` | `ClearReturns` | `message_store` with `Ways <- Calmly`, web | "The onblocked handler below is a second layer of defense" (`:77`); the request has no such handler, and the key stores of the cache, the outbox and the pending queue hold connections nothing closes: the deletion, and the logout, wait for ever (`ChangesEnd` of `Session` exempts a logout that does) |
| `conversation/message-cache.service.ts:58` | `RecordsAreOwn`; `StoreIsOpen` where `broken` | `message_store` with `Ways <- Calmly` | "Scope changes (different user or device) trigger full re-initialization" (`:26`), but an opening that rejects, of the store or of the key store, has replaced both and leaves `initializedScope` the old account's: back at that account `initialize` returns at once (`:38`), and its messages are stored in the other's database, under the other's key, until another account is opened or the app restarts |
| `badge/badge-visibility.service.ts:43` | `ChoiceIsDeclared` | `preferences` with `{"badge", "unsent", "revisits"}` | a choice that could not be published "is still picked up by the next KeyPackageService.syncDeclaration() call" (`:58`), unless the page is opened again before: the older declaration read back overwrites the cache |

By changing a constant of a run:

| Property | Instance | What happens |
|---|---|---|
| `ReadyIsStored` | `genesis` with `CatchUpMayMiss` | a catch-up that fails, or a crash before it, leaves the solo state without a marker, so no reconnect sweep looks again (comment `mls.service.ts:547`); the founder founds again and takes its first commit for success |
| `OneFounder`, `ReadyIsStored`, `RecoveryAdopts` | `genesis` with `Takeover` | a commit that lands after the claim has gone to another device makes two founders; the recovery of one cannot adopt the other's genesis, which was not built on its state (comment `mls.service.ts:683`) |
| `SuccessMeansStored` | `commits` with `EagerStarts`, 3 commits | an operation started before the last one was caught up with takes the device's own older commit for its success |
| `NoGenerationReuse` | `commits` with `EagerTraffic` | a marker resolved after traffic rolls the ratchet back; the next message reuses a generation |
| `Converges` | `commits` with `CrashInProvision` | a crash while `provisionDevice` posts leaves a phantom state nobody rolls back |
| `OneTimer` | one `ensure` call, one fault | a 409 on the genesis commit sets two recovery timers |
| `RecoverySparesGoodGroups`, `FailedIsAttended` beyond `Commits` | two `welcome` calls, or two catch-ups, one fault | of two subscribers to one Welcome, one fails and one joins; the recovery of the first deletes what the second joined |
| `ReadyHasState` | `AnyTwo` | `processWelcome` enters READY whatever became of the Welcome, also without a state |
| `TextStays` | one message of a later epoch, loads only | a catch-up inside a decryption replays the queue first; the decryption then fails and writes a placeholder over the text |
| `TextStays` | one message, replays, `overlap` | two replays: the second writes a placeholder over the first one's text |
| `QueuedMessagesAreReplayed` for own messages too | `Reads` | loadHistory stores a blank for a pending own message, and the replay drops it |
| `NothingLost` | one message, no pass, `fails` or `crashes` | a message decrypted while FAILED, or before a kill, consumes its key and loses its text |
| `GivenUpOnEvidence` | `Epochs` | a message of an earlier epoch sets `caughtUpConvs`; a replay then gives up a message of an epoch not yet reached |
| `ClearTriesEverything` | two epochs, clears | a message of a new epoch arrives between the sweep's snapshot and the deletion |
| `DraftsAreShown` | `sending` with `{"unsent"}`, one text, 3 loads | a failed send whose page is left becomes a draft, and the next load gives the composer what it had been given before: the text is taken out of the outbox without having been shown |
| `StoredTextStays` | `sending` | a load that began before the message was stored writes its placeholder over it |
| `ReactionsAgree`, `TextStays`, `RecoveredIsShown`, `NothingIsUnread` of `Thread` | `Ways` with "anytime" | a reaction's read-modify-write of the record overwrites a reaction or a recovered text stored meanwhile (`conversation.page.ts:1456`); what arrives during a load is shown or counted at the next one only |
| `RecoveredIsShown` | `Ways` with "answers" | a text sent again while the page loads is in the cache and not on the page |
| `ReactionsAgree` | `Ways` with "failures" | a reaction whose send failed stays on this device or vanishes at the next load |
| `StoreIsOpen`, `RecordsAreOwn` of `MessageStore` | `Ways` with "intrude" | a logout or a switch in the middle of a task |
| `NewDeviceJoins` | `provisioning` with `Ways <- Dying` | the app dies while it posts: the group state has the device, the server has not, and every later sweep skips it as a member (`device-provisioning.service.ts:236`) |
| `WelcomesAreJoinable` | `Ways` with "wiped" | reconciling does not delete from the server the key packages whose private halves are gone (`RECONCILE_DELETE`) |
| `TokensAreOwn`, `OneSpend` for crossed accounts too | `session` with "intrude" in every world | a switch or logout while a refresh is in flight: `setAccessToken` stores for whichever account is active by then. The damage stays with the account that became active |
| `UserIsActive`, `WipedIsSignedOut` | `session` with "intrude", "kill" | the same, when the user and the timers act during changes |
| `RecordsAreOwn` of `Session`, `OwnRepository` of `Preferences` | two accounts, "switch" | `switchAccount` keeps the OAuth session, so settings, embeds and declaration of the new account go to the repository of the old one (`oauth.service.ts:166`) |
| `KeyIsOfGeneration` for crossed accounts too | `sync_backup`; on two accounts with `"switch"` | a rotation between reading the key and its generation makes the old key pass for the new one, on the device as well; a PIN change wraps a key that was rotated; a key is adopted under the account signed in since |
| `KeyIsOfGeneration` for an `unstored` key too | `sync_backup` | the generation is set before the key is stored (`sync.service.ts:366`); when the storing rejects, the old key stays in memory under the new generation, the echo of the rotation is ignored as one's own (`:393`), and what is backed up until the next start is encrypted with the old key |
| `TextsAreKept` | `sync_backup` with two accounts, `"switch"` | a durable write or a flush that a change of account overtakes goes to the batches or the backup of the account signed in since (`sync.service.ts:464`) |
| `GroupStateAdvances` | `sync_backup` with `Faults = {"network", "server"}`, `MaxEpoch` 2 | a batch refused once is retried after a newer one of the same group |
| `WrittenIsShown`, `DeletedIsGone` of `Notes` | `Ways` with "fails", "hasty" or "peer" | the push of an older text ends after the newer edit; a sync that read a note before it was deleted brings it back |
| `SettingsArrive`, `MutesStay` | `preferences` with "peer" | two devices write the record as a whole; an unmuted conversation is muted again by the other's record |
| `EmbedsAreChosen` | `{"embeds", "unsent"}`, `{"embeds", "hasty"}`, `{"embeds", "switch"}` | a choice whose write failed is shown and forgotten; a refresh that began before the choice replaces it |
| `ChoiceIsDeclared` | `{"badge", "hasty"}`, "switch" | two publishes out of order; the declaration of another repository |
| `ChoiceIsDeclared` | `{"badge", "evicted"}` | an OAuth session the client no longer has is never restored, and the declaration waits until the user reconnects |

Met in reading, with no property of their own: a text sent before the conversation is
loaded is dropped after its drafts have left the outbox (`conversation.page.ts:383`); a send
that timed out and was delivered posts twice when it is retried (`socket.service.ts:268`);
with no backup key a live item is dropped, not queued (`sync.service.ts:871`, comment `:456`);
a rebuild that fails after its deletion leaves the backup empty, and so does one that loses
its key while it counts, since it looks at the key before that (`sync.service.ts:732`); a failed read of the
settings is taken for their absence and the local ones are uploaded
(`app-preferences-sync.service.ts:45`); the removal answered by 403 or 404 leaves no tombstone
(`mls-membership.service.ts:657`); `ensurePool`, the resume sweep and the revoked sweep are
not keyed by account; `setPushEnabled(false)` removes all listeners, and the registration one
never comes back (`push-notification.service.ts:290`).

## 7. What is not modelled

- *Cryptography*: a commit applies only to the state it was built from, and a generation
  decrypts once; nothing else of MLS is used. `retainKeysForEpochs` (50) is beyond the
  bounds and left out. Keys of the backup are their generation.
- `Genesis`: `initializeForSession`, `prepareConversationInitialization`, the matching of
  key packages (`Invites` gives its result), the other devices of the founder that are
  provisioned afterwards, the ratchets.
- `MlsCommits`: the 403/404 branch of a removal, the per-conversation commit lock (it
  only delays a start).
- `MlsCoordinator`: session switches and `clear()`; a storage error inside
  `clearConversationGroup`; the message-key restore inside a decryption's heal (taken
  as locked); the replay after READY (`DecryptPipeline`).
- `DecryptPipeline`: the key backup, peer resends and reactions (`Thread`), older pages, the
  display.
- `Sending`: replies, GIFs and shared posts, which take the path of a place.
- `Thread`: more than one message and emoji, the window of 50 messages, `updateSenderDid`.
- `MessageStore`: queries, and two writers of a first key (`getOrCreateKey` reads, then
  writes).
- `Provisioning`: the sweep on resume, the reprovision of a device that lost its state, the
  lock for commits of one conversation.
- `Session`: the OAuth redirect, sockets, and what a switch does to the other services.
- `SyncBackup`: pages of a backfill or restore, formats of PIN and recovery key; two rebuilds, or
  two key operations, at once (`startRebuild`, `sync.service.ts:377`, has no guard against them:
  the pages wait for one before they offer the next).
- `Notes`: an account switch in the middle of a push (it writes into the other account's
  store), the key kept across a rotation.
- `Preferences`: more than one embed provider.
- The MLS state storage's own lock, the journal, lookups of display data, contacts, layout,
  guards, secure storage and the Android shell: the reason for each is in `PROJECT.json`.

## 8. Plan

1. Done: `GroupLog`, `MlsCommits` with its type invariant and the theorems that need no
   assumption on the environment; `Genesis`; `MlsCoordinator`; `DecryptPipeline`; `Sending`,
   `Thread`, `MessageStore`, `Provisioning`, `Session`, `SyncBackup`, `Notes`, `Preferences`.
2. Done: the inductive invariant of `MlsCommits` in a calm environment, with `NoFork`,
   `LogIsChain`, `SuccessMeansStored`, `NeverBuiltAhead` and `NoGenerationReuse`; the refinement
   of `GroupLog`.
3. Done: the safety properties of all the other models that a run checks. Left: theorems for
   wider hypotheses, where section 6 leaves room (reactions beside answers of other devices,
   settings whose writes fail).
4. Acknowledgement of Welcomes with the removal's missing tombstone; account switches
   through the coordinator.
