------------------------------ MODULE MessageStore ------------------------------
(***************************************************************************)
(* The message cache's stores, and the account they belong to              *)
(* (message-cache.service.ts, cache/*-message-store.ts, cache/*-key-       *)
(* store.ts, the key stores of the outbox and of the pending queue).       *)
(*                                                                         *)
(* One database per account.  MessageCacheService opens that of the        *)
(* account a caller names, once for callers that come together, and keeps  *)
(* it until another is named; logging out closes and deletes it.  On the   *)
(* web a database with an open connection can neither be deleted nor,      *)
(* while its deletion waits, be opened.                                    *)
(***************************************************************************)
EXTENDS Integers, Sequences, FiniteSets

CONSTANTS
    Users,              \* accounts, all signed in at first
    Tasks,              \* what reads or writes the cache
    Platforms,          \* of {"web", "native"}
    MaxTasks,           \* bound: tasks begun
    MaxLogouts,         \* bound: logouts
    MaxFailures,        \* bound: openings that fail
    Ways,               \* what the user may do: sets of AllWays, one per behaviour
    NoUser

(* To log out of an account the cache was not opened for; to log out or to *)
(* switch while tasks are running.                                         *)
AllWays == {"elsewhere", "intrude"}

ASSUME ConstantsAssumption ==
    /\ NoUser \notin Users
    /\ Platforms \subseteq {"web", "native"}
    /\ {MaxTasks, MaxLogouts, MaxFailures} \subseteq Nat
    /\ Ways \subseteq SUBSET AllWays

VARIABLES
    platform, ways,
    accounts,   \* the accounts signed in
    user,       \* currentUser
    scope,      \* initializedScope: its account
    store,      \* msgStore: its account, and whether its connection is open
    keys,       \* keyStore: the account of its scope, once initialize() was called
    opened,     \* web: the account of the connection the keyStore holds
    others,     \* web: those the key stores of the outbox and the pending queue hold
    init,       \* initPromise: the account and how far
    clear,      \* clearAllForUser: the account and how far
    task,       \* the account and the progress of each task
    records,    \* the databases' records: of whose message, under whose key
    tasks, logouts, failures,   \* counters
    broken,     \* history: an opening failed, nothing was opened since
    spoilt      \* history: accounts whose opening failed under another's scope

session == <<accounts, user>>
cache == <<scope, store, keys, opened, init>>
counters == <<tasks, logouts, failures>>
history == <<broken, spoilt>>
given == <<platform, ways>>
vars == <<given, session, cache, others, clear, task, records, counters, history>>

Web == platform = "web"
NoStore == [user |-> NoUser, open |-> FALSE]
NoInit == [user |-> NoUser, pc |-> "idle"]
NoTask == [user |-> NoUser, pc |-> "idle"]
Initializing == init.pc # "idle"
Clearing == clear.pc # "idle"
TaskIs(t, pc) == task[t].pc = pc
TaskGoes(t, pc) == task' = [task EXCEPT ![t].pc = pc]
TaskEnds(t) == task' = [task EXCEPT ![t] = NoTask]

(* The databases a connection is open on; what is unreachable is collected.*)
Held == {opened, others.outbox, others.pending}
        \union (IF store.open THEN {store.user} ELSE {})

(* Opening waits for a deletion asked for before. *)
DeletionPending(u) == Web /\ clear.pc = "delete" /\ clear.user = u

Init ==
    /\ platform \in Platforms /\ ways \in Ways
    /\ accounts = Users /\ user \in Users
    /\ scope = NoUser /\ store = NoStore /\ keys = NoUser /\ opened = NoUser
    /\ others = [outbox |-> NoUser, pending |-> IF Web THEN user ELSE NoUser]
    /\ init = NoInit /\ clear = NoInit
    /\ task = [t \in Tasks |-> NoTask]
    /\ records = {}
    /\ tasks = 0 /\ logouts = 0 /\ failures = 0 /\ broken = FALSE /\ spoilt = {}

-----------------------------------------------------------------------------
(* Tasks: a page that opens, a resend, a restore.                          *)

Begin(t) ==
    /\ TaskIs(t, "idle") /\ user # NoUser /\ tasks < MaxTasks
    /\ "intrude" \in ways \/ ~Clearing
    /\ task' = [task EXCEPT ![t] = [user |-> user, pc |-> "ask"]]
    /\ tasks' = tasks + 1
    /\ UNCHANGED <<given, session, cache, others, clear, records, logouts,
                   failures, history>>

(* initialize(): nothing to do, another's to wait for, or one's own. *)
(* A slip: any scope will do. *)
SomeScope(t) == scope # NoUser

Initialized(t) == scope = task[t].user

Initialize(t) ==
    /\ TaskIs(t, "ask") \/ (TaskIs(t, "wait") /\ ~Initializing)
    /\ IF Initialized(t) \/ Initializing
       THEN TaskGoes(t, IF Initialized(t) THEN "outbox" ELSE "wait") /\ UNCHANGED cache
       ELSE /\ init' = [user |-> task[t].user, pc |-> "store"]
            /\ store' = [user |-> task[t].user, open |-> FALSE]
            /\ keys' = NoUser /\ opened' = NoUser
            /\ TaskGoes(t, "own")
            /\ UNCHANGED scope
    /\ UNCHANGED <<given, session, others, clear, records, counters, history>>

InitEnds == init' = NoInit

(* initialize() throws to those who began it: the stores were replaced, the *)
(* scope was not.                                                          *)
InitFails ==
    /\ failures < MaxFailures /\ failures' = failures + 1
    /\ InitEnds
    /\ task' = [t \in Tasks |-> IF TaskIs(t, "own") THEN NoTask ELSE task[t]]
    /\ broken' = TRUE
    /\ spoilt' = IF scope = NoUser THEN spoilt ELSE spoilt \union {init.user}
    /\ UNCHANGED scope

(* WebMessageStore, NativeMessageStore: initialize(). *)
OpenStore(ok) ==
    /\ init.pc = "store" /\ ~DeletionPending(init.user)
    /\ IF ok THEN /\ store' = [store EXCEPT !.open = TRUE]
                  /\ init' = [init EXCEPT !.pc = "keys"]
                  /\ UNCHANGED <<scope, task, failures, history>>
       ELSE InitFails /\ UNCHANGED store
    /\ UNCHANGED <<given, session, keys, opened, others, clear, records, tasks, logouts>>

(* The key store's, on the web over a connection of its own.  Failed, it   *)
(* has its scope all the same, perhaps its connection, and makes up for the *)
(* rest when it is used.                                                   *)
OpenKeys(ok) ==
    /\ init.pc = "keys" /\ ~DeletionPending(init.user)
    /\ keys' = init.user
    /\ opened' \in IF ~Web THEN {NoUser} ELSE IF ok THEN {init.user} ELSE {init.user, NoUser}
    /\ IF ok THEN /\ InitEnds
                  /\ scope' = init.user
                  /\ task' = [t \in Tasks |-> IF TaskIs(t, "own")
                                              THEN [task[t] EXCEPT !.pc = "outbox"] ELSE task[t]]
                  /\ broken' = FALSE
                  /\ UNCHANGED <<failures, spoilt>>
       ELSE InitFails
    /\ UNCHANGED <<given, session, store, others, clear, records, tasks, logouts>>

(* OutboxRepository.initialize(): a key store on the same database. *)
OpenOutbox(t) ==
    /\ TaskIs(t, "outbox") /\ ~DeletionPending(task[t].user)
    /\ others' = IF Web THEN [others EXCEPT !.outbox = task[t].user] ELSE others
    /\ TaskGoes(t, "use")
    /\ UNCHANGED <<given, session, cache, clear, records, counters, history>>

(* getMessages(): what the key at hand does not open is deleted. *)
Usable == IF Web THEN ~DeletionPending(store.user) ELSE store.open
Reopened == /\ store' = [store EXCEPT !.open = TRUE]
            /\ opened' = IF Web THEN store.user ELSE opened
Unreadable == {r \in records : r.db = store.user /\ r.key # keys}

Read(t) ==
    /\ TaskIs(t, "use") /\ Usable /\ Reopened
    /\ records' = records \ Unreadable
    /\ TaskGoes(t, "write")
    /\ UNCHANGED <<given, session, scope, keys, init, others, clear, counters, history>>

(* store(): whatever account's store there is by now. *)
Write(t) ==
    /\ TaskIs(t, "write") /\ Usable /\ Reopened
    /\ records' = records \union {[db |-> store.user, of |-> task[t].user, key |-> keys]}
    /\ TaskEnds(t)
    /\ UNCHANGED <<given, session, scope, keys, init, others, clear, counters, history>>

(* A native store that was closed throws. *)
Throw(t) ==
    /\ TaskIs(t, "use") \/ TaskIs(t, "write")
    /\ ~Web /\ ~store.open
    /\ TaskEnds(t)
    /\ UNCHANGED <<given, session, cache, others, clear, records, counters, history>>

-----------------------------------------------------------------------------
(* Accounts.                                                               *)

Undisturbed == "intrude" \in ways \/ (~Initializing /\ \A t \in Tasks : TaskIs(t, "idle"))

(* The coordinator opens the pending queue of the account switched to. *)
Becomes(u) ==
    /\ user' = u
    /\ others' = IF Web /\ u # NoUser THEN [others EXCEPT !.pending = u] ELSE others

Switch(u) ==
    /\ u \in accounts \ {user} /\ ~Clearing /\ Undisturbed
    /\ Becomes(u)
    /\ UNCHANGED <<given, accounts, cache, clear, task, records, counters, history>>

SignIn(u) ==
    /\ u \in Users \ accounts /\ ~Clearing /\ Undisturbed
    /\ accounts' = accounts \union {u}
    /\ Becomes(u)
    /\ UNCHANGED <<given, cache, clear, task, records, counters, history>>

Logout ==
    /\ user # NoUser /\ ~Clearing /\ logouts < MaxLogouts
    /\ Undisturbed /\ ("elsewhere" \in ways \/ scope \in {user, NoUser})
    /\ clear' = [user |-> user, pc |-> "close"]
    /\ logouts' = logouts + 1
    /\ UNCHANGED <<given, session, cache, others, task, records, tasks, failures,
                   history>>

(* The store there is is closed, of whatever account. *)
CloseStore ==
    /\ clear.pc = "close"
    /\ store' = [store EXCEPT !.open = FALSE]
    /\ clear' = [clear EXCEPT !.pc = "delete"]
    /\ UNCHANGED <<given, session, scope, keys, opened, init, others, task, records,
                   counters, history>>

(* A slip: the scope stays initialized. *)
ScopeKept == UNCHANGED scope

ScopeCleared == scope' = IF scope = clear.user THEN NoUser ELSE scope

(* A slip: SQLite, too, waits for a connection to be closed. *)
ClosedAnywhere == clear.user \notin Held

(* SQLite closes what it deletes; IndexedDB waits until all is closed. *)
Deletable == Web => clear.user \notin Held

DeleteDatabase ==
    /\ clear.pc = "delete"
    /\ Deletable
    /\ records' = {r \in records : r.db # clear.user}
    /\ store' = IF store.user = clear.user THEN [store EXCEPT !.open = FALSE] ELSE store
    /\ ScopeCleared
    /\ clear' = [clear EXCEPT !.pc = "leave"]
    /\ UNCHANGED <<given, session, keys, opened, init, others, task, counters, history>>

(* The account gone, another of those signed in is switched to. *)
Leave ==
    /\ clear.pc = "leave"
    /\ accounts' = accounts \ {clear.user}
    /\ \E u \in accounts' \union {NoUser} :
          /\ u = NoUser <=> accounts' = {}
          /\ Becomes(u)
    /\ clear' = NoInit
    /\ UNCHANGED <<given, cache, task, records, counters, history>>

(* The app is restarted: the databases are left. *)
Restart ==
    /\ user # NoUser /\ scope # NoUser
    /\ scope' = NoUser /\ store' = NoStore /\ keys' = NoUser /\ opened' = NoUser
    /\ others' = [outbox |-> NoUser, pending |-> IF Web THEN user ELSE NoUser]
    /\ init' = NoInit /\ clear' = NoInit
    /\ task' = [t \in Tasks |-> NoTask]
    /\ broken' = FALSE
    /\ UNCHANGED <<given, session, records, counters, spoilt>>

-----------------------------------------------------------------------------
InitStep == \E ok \in BOOLEAN : OpenStore(ok) \/ OpenKeys(ok)
TaskStep(t) == Initialize(t) \/ OpenOutbox(t) \/ Read(t) \/ Write(t) \/ Throw(t)
ClearStep == CloseStore \/ DeleteDatabase \/ Leave

Next ==
    \/ InitStep \/ ClearStep \/ Logout \/ Restart
    \/ \E t \in Tasks : Begin(t) \/ TaskStep(t)
    \/ \E u \in Users : Switch(u) \/ SignIn(u)

Spec == Init /\ [][Next]_vars

(* Timers and databases answer; nobody need log in, out or restart. *)
Fairness ==
    /\ WF_vars(InitStep) /\ WF_vars(ClearStep)
    /\ \A t \in Tasks : WF_vars(TaskStep(t))
FairSpec == Spec /\ Fairness

-----------------------------------------------------------------------------
TypeOK ==
    /\ accounts \subseteq Users /\ {user, scope, keys, opened} \subseteq Users \union {NoUser}
    /\ store \in [user : Users \union {NoUser}, open : BOOLEAN]
    /\ records \subseteq [db : Users, of : Users, key : Users \union {NoUser}]

(* The store an initialized scope stands for is that account's, and on a   *)
(* phone it is open: nothing opens it again.  Only from an opening that    *)
(* failed until one that succeeds is it the store of the account whose     *)
(* opening failed.  (initialize, clearAllForUser, NativeMessageStore)      *)
StoreIsOpen ==
    scope # NoUser /\ ~Initializing /\ ~Clearing =>
        IF broken THEN store.user \in spoilt \ {scope}
        ELSE store.user = scope /\ (Web \/ store.open)

(* It is so as long as one logs out of, and switches, idle accounts the    *)
(* cache was opened for.                                                   *)
StoreIsOpenCalmly == ways = {} => StoreIsOpen

(* A message is in its account's database, under its key.  (store)         *)
RecordsAreOwn == \A r \in records : r.of = r.db /\ r.key = r.db

(* It is so, as long as one does as above, in the databases of all accounts *)
(* but those whose opening failed while the cache was another's; and in    *)
(* those, too, nothing is under another account's key.                     *)
(* (initialize, store)                                                     *)
RecordsAreOwnCalmly ==
    ways = {} => /\ \A r \in records : r.db \notin spoilt => r.of = r.db /\ r.key = r.db
                 /\ \A r \in records : r.key \in {r.db, NoUser}

(* Every caller of initialize() on a phone gets its answer.                *)
(* (initPromise)                                                           *)
TasksEnd ==
    \A t \in Tasks : (~Web /\ ~TaskIs(t, "idle")) ~> (TaskIs(t, "idle"))

(* A logout deletes the account's messages and comes to its end.           *)
(* (clearAllForUser, logout)                                               *)
ClearReturns == Clearing ~> ~Clearing
ClearReturnsNatively == (~Web /\ Clearing) ~> ~Clearing
=============================================================================
