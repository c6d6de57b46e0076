-------------------------- MODULE MessageStoreProofs --------------------------
(***************************************************************************)
(* Theorems about MessageStore, for any accounts, tasks, platforms and     *)
(* number of failures: the store an initialized cache stands for is its    *)
(* account's and open unless its last opening failed, and a message is     *)
(* written to its own account's database under that account's key but for  *)
(* the databases an opening failed on under another's scope, as long as    *)
(* one logs out of and switches accounts while nothing runs.               *)
(***************************************************************************)
EXTENDS MessageStore, TLAPS

USE ConstantsAssumption

-----------------------------------------------------------------------------
(* Types.  A task that has got past initialize() has a store.              *)

Who == Users \cup {NoUser}
Progress == {"idle", "ask", "wait", "own", "outbox", "use", "write"}
Past == {"own", "outbox", "use", "write"}

SessionOK == user \in Who /\ accounts \subseteq Users /\ ways \in Ways
CacheOK == /\ scope \in Who /\ keys \in Who /\ opened \in Who
           /\ store \in [user : Who, open : BOOLEAN]
           /\ init \in [user : Who, pc : {"idle", "store", "keys"}]
ClearOK == /\ clear \in [user : Who, pc : {"idle", "close", "delete", "leave"}]
           /\ Clearing => clear.user \in Users
TasksOK == task \in [Tasks -> [user : Who, pc : Progress]]
OwnersOK == /\ \A t \in Tasks : ~TaskIs(t, "idle") => task[t].user \in Users
            /\ Initializing => init.user \in Users
StoreOK == Initializing \/ scope # NoUser \/ (\E t \in Tasks : task[t].pc \in Past)
               => store.user \in Users
RecordsOK == records \subseteq [db : Users, of : Users, key : Who]

TypeInv == SessionOK /\ CacheOK /\ ClearOK /\ TasksOK /\ OwnersOK /\ StoreOK /\ RecordsOK

-----------------------------------------------------------------------------
(* With no intrusion every task and every opening is the signed-in         *)
(* account's, and a logout runs alone.                                     *)

LogoutIsAlone == Clearing => ~Initializing /\ \A t \in Tasks : TaskIs(t, "idle")
TasksAreOwn == \A t \in Tasks : ~TaskIs(t, "idle") => task[t].user = user
OpeningIsOwn ==
    Initializing => /\ init.user = user /\ store.user = user /\ scope # user /\ keys = NoUser
                    /\ init.pc = "keys" => store.open
UsersAreReady == \A t \in Tasks : task[t].pc \in {"outbox", "use", "write"} => scope = user
KeysAreOwn == /\ keys \in {NoUser, store.user}
              /\ scope # NoUser /\ ~Initializing /\ ~broken => keys = scope
RecordsAreClean ==
    /\ \A r \in records : r.db \notin spoilt => r.of = r.db /\ r.key = r.db
    /\ \A r \in records : r.key \in {r.db, NoUser}
ScopeGoes == Clearing => /\ scope \in {clear.user, NoUser}
                         /\ clear.pc = "leave" => scope = NoUser

CalmInv ==
    ways = {} => /\ LogoutIsAlone /\ TasksAreOwn /\ OpeningIsOwn /\ UsersAreReady
                 /\ KeysAreOwn /\ ScopeGoes /\ StoreIsOpen /\ RecordsAreClean

LEMMA MovedTask ==
    ASSUME TasksOK, NEW t \in Tasks, NEW pc \in Progress, TaskGoes(t, pc)
    PROVE  /\ TasksOK'
           /\ \A x \in Tasks : /\ task'[x].user = task[x].user
                               /\ task'[x].pc = IF x = t THEN pc ELSE task[x].pc
BY DEF TaskGoes, TasksOK

LEMMA EndedTask ==
    ASSUME TasksOK, NEW t \in Tasks, TaskEnds(t)
    PROVE  /\ TasksOK'
           /\ \A x \in Tasks : task'[x] = IF x = t THEN NoTask ELSE task[x]
BY DEF TaskEnds, TasksOK, NoTask, Who, Progress

LEMMA Constants == NoUser \notin Users /\ NoUser \in Who /\ Users \subseteq Who
BY DEF Who

-----------------------------------------------------------------------------
(* The types are preserved. *)

LEMMA TypeInit == Init => TypeInv
<1> SUFFICES ASSUME Init PROVE TypeInv
    OBVIOUS
<1>1. task \in [Tasks -> [user : Who, pc : Progress]] /\ \A t \in Tasks : task[t].pc = "idle"
    BY DEF Init, NoTask, Who, Progress
<1>2. TasksOK /\ OwnersOK /\ StoreOK
    BY <1>1 DEF Init, TasksOK, OwnersOK, StoreOK, TaskIs, Initializing, NoInit, Past
<1>3. SessionOK /\ CacheOK /\ ClearOK /\ RecordsOK
    BY DEF Init, SessionOK, CacheOK, ClearOK, RecordsOK, Clearing, NoInit, NoStore, Who
<1> QED
    BY <1>2, <1>3 DEF TypeInv

LEMMA TypeTask ==
    ASSUME TypeInv, NEW t \in Tasks, Begin(t) \/ TaskStep(t)
    PROVE  TypeInv'
<1>1. SessionOK' /\ ClearOK'
    BY DEF TypeInv, SessionOK, ClearOK, Clearing, Begin, TaskStep, Initialize, OpenOutbox, Read,
        Write, Throw, given, session
<1>2. CASE Begin(t)
    <2>1. /\ TasksOK' /\ user \in Users
          /\ \A x \in Tasks : task'[x] = IF x = t THEN [user |-> user, pc |-> "ask"] ELSE task[x]
        BY <1>2 DEF Begin, TypeInv, TasksOK, SessionOK, Who, Progress
    <2>2. OwnersOK' /\ StoreOK' /\ CacheOK' /\ RecordsOK'
        BY <1>2, <2>1 DEF Begin, cache, TypeInv, OwnersOK, StoreOK, CacheOK, RecordsOK,
            TaskIs, Initializing, Past
    <2> QED
        BY <1>1, <2>1, <2>2 DEF TypeInv
<1>3. CASE Initialize(t)
    <2>1. task[t].user \in Users /\ UNCHANGED records /\ task[t].pc \in {"ask", "wait"}
        BY <1>3 DEF Initialize, TypeInv, OwnersOK, TaskIs
    <2>2. CASE UNCHANGED cache
        <3>1. PICK pc \in {"outbox", "wait"} :
                  TaskGoes(t, pc) /\ (pc = "outbox" => scope = task[t].user)
            BY <1>3, <2>1, <2>2 DEF Initialize, Initialized, cache, Initializing, TypeInv, CacheOK
        <3>2. /\ TasksOK'
              /\ \A x \in Tasks : /\ task'[x].user = task[x].user
                                  /\ task'[x].pc = IF x = t THEN pc ELSE task[x].pc
            BY <3>1, MovedTask DEF TypeInv, Progress
        <3> QED
            BY <1>1, <2>1, <2>2, <3>1, <3>2, Constants DEF cache, TypeInv, CacheOK, RecordsOK,
                OwnersOK, StoreOK, TaskIs, Initializing, Past
    <2>3. CASE /\ init' = [user |-> task[t].user, pc |-> "store"]
               /\ store' = [user |-> task[t].user, open |-> FALSE]
               /\ keys' = NoUser /\ opened' = NoUser
               /\ TaskGoes(t, "own") /\ UNCHANGED scope
        <3>1. /\ TasksOK'
              /\ \A x \in Tasks : /\ task'[x].user = task[x].user
                                  /\ task'[x].pc = IF x = t THEN "own" ELSE task[x].pc
            BY <2>3, MovedTask DEF TypeInv, Progress
        <3> QED
            BY <1>1, <2>1, <2>3, <3>1, Constants DEF TypeInv, CacheOK, RecordsOK, OwnersOK,
                StoreOK, TaskIs, Initializing
    <2> QED
        BY <1>3, <2>2, <2>3 DEF Initialize
<1>4. CASE OpenOutbox(t)
    <2>1. /\ TasksOK' /\ UNCHANGED <<cache, records>> /\ task[t].pc = "outbox"
          /\ \A x \in Tasks : /\ task'[x].user = task[x].user
                              /\ task'[x].pc = IF x = t THEN "use" ELSE task[x].pc
        BY <1>4, MovedTask DEF OpenOutbox, TaskIs, TypeInv, Progress
    <2> QED
        BY <1>1, <2>1 DEF cache, TypeInv, CacheOK, RecordsOK, OwnersOK, StoreOK, TaskIs,
            Initializing, Past
<1>5. CASE Read(t)
    <2>1. /\ TasksOK' /\ records' \subseteq records /\ task[t].pc = "use"
          /\ UNCHANGED <<scope, keys, init>> /\ store' = [store EXCEPT !.open = TRUE]
          /\ opened' \in {opened, store.user}
          /\ \A x \in Tasks : /\ task'[x].user = task[x].user
                              /\ task'[x].pc = IF x = t THEN "write" ELSE task[x].pc
        BY <1>5, MovedTask DEF Read, Reopened, TaskIs, TypeInv, Progress
    <2> QED
        BY <1>1, <2>1 DEF TypeInv, CacheOK, RecordsOK, OwnersOK, StoreOK, TaskIs, Initializing,
            Past
<1>6. CASE Write(t) \/ Throw(t)
    <2>1. /\ TasksOK' /\ UNCHANGED <<scope, keys, init>> /\ opened' \in {opened, store.user}
          /\ store' = store \/ store' = [store EXCEPT !.open = TRUE]
          /\ \A x \in Tasks : task'[x] = IF x = t THEN NoTask ELSE task[x]
        BY <1>6, EndedTask DEF Write, Throw, Reopened, cache, TypeInv
    <2>2. CacheOK' /\ OwnersOK' /\ StoreOK'
        <3>1. \A x \in Tasks : task'[x].pc = "idle" \/ task'[x] = task[x]
            BY <2>1 DEF NoTask
        <3>2. CacheOK' /\ store'.user = store.user
            BY <2>1 DEF TypeInv, CacheOK
        <3>3. OwnersOK'
            BY <2>1, <3>1 DEF TypeInv, OwnersOK, TaskIs, Initializing
        <3>4. StoreOK'
            BY <2>1, <3>1, <3>2 DEF TypeInv, StoreOK, Initializing, Past
        <3> QED
            BY <3>2, <3>3, <3>4
    <2>3. RecordsOK'
        <3>1. CASE Write(t)
            <4>1. store.user \in Users /\ task[t].user \in Users /\ keys \in Who
                BY <3>1 DEF Write, TypeInv, StoreOK, OwnersOK, CacheOK, TaskIs, Past
            <4>2. [db |-> store.user, of |-> task[t].user, key |-> keys] \in
                      [db : Users, of : Users, key : Who]
                BY <4>1
            <4> QED
                BY <3>1, <4>2 DEF Write, TypeInv, RecordsOK
        <3>2. CASE Throw(t)
            BY <3>2 DEF Throw, TypeInv, RecordsOK
        <3> QED
            BY <1>6, <3>1, <3>2
    <2> QED
        BY <1>1, <2>1, <2>2, <2>3 DEF TypeInv
<1> QED
    BY <1>2, <1>3, <1>4, <1>5, <1>6 DEF TaskStep

LEMMA TypeOpening ==
    ASSUME TypeInv, NEW ok \in BOOLEAN, OpenStore(ok) \/ OpenKeys(ok)
    PROVE  TypeInv'
<1>1. /\ SessionOK' /\ ClearOK' /\ RecordsOK'
      /\ init.user \in Users /\ store.user \in Users
    BY DEF OpenKeys, OpenStore, given, session, TypeInv, SessionOK, ClearOK, Clearing, RecordsOK,
        OwnersOK, StoreOK, Initializing
<1>2. CASE ~ok
    <2>1. /\ UNCHANGED <<store, scope>> /\ init' = NoInit
          /\ keys' \in {keys, init.user} /\ opened' \in {opened, init.user, NoUser}
          /\ task' = [t \in Tasks |-> IF TaskIs(t, "own") THEN NoTask ELSE task[t]]
        BY <1>2 DEF OpenStore, OpenKeys, InitFails, InitEnds
    <2>2. TasksOK' /\ \A x \in Tasks : task'[x] \in {NoTask, task[x]}
        BY <2>1 DEF TypeInv, TasksOK, NoTask, Who, Progress
    <2> QED
        BY <1>1, <2>1, <2>2, Constants DEF TypeInv, CacheOK, OwnersOK, StoreOK, TaskIs,
            Initializing, NoInit, NoTask
<1>3. CASE ok /\ OpenStore(ok)
    BY <1>1, <1>3 DEF OpenStore, TypeInv, CacheOK, TasksOK, OwnersOK, StoreOK, TaskIs,
        Initializing
<1>4. CASE ok /\ OpenKeys(ok)
    <2>1. /\ UNCHANGED store /\ init' = NoInit /\ keys' = init.user /\ scope' = init.user
          /\ opened' \in {init.user, NoUser}
          /\ task' = [t \in Tasks |-> IF TaskIs(t, "own") THEN [task[t] EXCEPT !.pc = "outbox"]
                                      ELSE task[t]]
        BY <1>4 DEF OpenKeys, InitEnds
    <2>2. /\ TasksOK'
          /\ \A x \in Tasks :
                 /\ task'[x].user = task[x].user
                 /\ task'[x].pc = IF TaskIs(x, "own") THEN "outbox" ELSE task[x].pc
        BY <2>1 DEF TypeInv, TasksOK, Progress
    <2> QED
        BY <1>1, <2>1, <2>2, Constants DEF TypeInv, CacheOK, OwnersOK, StoreOK, TaskIs,
            Initializing, NoInit
<1> QED
    BY <1>2, <1>3, <1>4 DEF OpenStore, OpenKeys

LEMMA TypeAccount ==
    ASSUME TypeInv,
           \/ \E u \in Users : Switch(u) \/ SignIn(u)
           \/ Logout \/ ClearStep \/ Restart
    PROVE  TypeInv'
<1>1. CASE \/ \E u \in Users : Switch(u) \/ SignIn(u)
           \/ Leave
    <2>1. /\ UNCHANGED <<given, cache, task, records>> /\ user' \in Who /\ accounts' \subseteq Users
          /\ clear' = clear \/ clear' = NoInit
        BY <1>1 DEF Switch, SignIn, Leave, Becomes, TypeInv, SessionOK, Who
    <2> QED
        BY <2>1, Constants DEF given, cache, TypeInv, SessionOK, CacheOK, ClearOK, TasksOK,
            OwnersOK, StoreOK, RecordsOK, Clearing, NoInit, TaskIs, Initializing
<1>2. CASE Logout
    BY <1>2 DEF Logout, given, session, cache, TypeInv, SessionOK, CacheOK, ClearOK, TasksOK,
        OwnersOK, StoreOK, RecordsOK, Clearing, TaskIs, Initializing, Who
<1>3. CASE CloseStore \/ DeleteDatabase
    <2>1. /\ UNCHANGED <<given, session, keys, opened, init, task>> /\ records' \subseteq records
          /\ store' = store \/ store' = [store EXCEPT !.open = FALSE]
          /\ scope' = scope \/ scope' = NoUser
          /\ Clearing /\ clear' \in {[clear EXCEPT !.pc = "delete"], [clear EXCEPT !.pc = "leave"]}
        BY <1>3 DEF CloseStore, DeleteDatabase, ScopeCleared, Clearing
    <2> QED
        BY <2>1, Constants DEF given, session, TypeInv, SessionOK, CacheOK, ClearOK, TasksOK,
            OwnersOK, StoreOK, RecordsOK, Clearing, TaskIs, Initializing
<1>4. CASE Restart
    <2>1. /\ UNCHANGED <<given, session, records>> /\ scope' = NoUser /\ store' = NoStore
          /\ keys' = NoUser /\ opened' = NoUser /\ init' = NoInit /\ clear' = NoInit
          /\ TasksOK' /\ \A t \in Tasks : task'[t] = NoTask
        BY <1>4 DEF Restart, TasksOK, NoTask, Who, Progress
    <2> QED
        BY <2>1, Constants DEF given, session, TypeInv, SessionOK, CacheOK, ClearOK,
            OwnersOK, StoreOK, RecordsOK, Clearing, TaskIs, Initializing, NoStore, NoInit, NoTask,
            Past
<1> QED
    BY <1>1, <1>2, <1>3, <1>4 DEF ClearStep

LEMMA TypeStep == TypeInv /\ [Next]_vars => TypeInv'
<1> SUFFICES ASSUME TypeInv, [Next]_vars PROVE TypeInv'
    OBVIOUS
<1>1. CASE UNCHANGED vars
    BY <1>1 DEF vars, given, session, cache, TypeInv, SessionOK, CacheOK, ClearOK, TasksOK,
        OwnersOK, StoreOK, RecordsOK, Clearing, TaskIs, Initializing
<1>2. CASE \E t \in Tasks : Begin(t) \/ TaskStep(t)
    BY <1>2, TypeTask
<1>3. CASE InitStep
    BY <1>3, TypeOpening DEF InitStep
<1>4. CASE \/ \E u \in Users : Switch(u) \/ SignIn(u)
           \/ Logout \/ ClearStep \/ Restart
    BY <1>4, TypeAccount
<1> QED
    BY <1>1, <1>2, <1>3, <1>4 DEF Next

(* The accounts, stores and records are of the accounts there are; in      *)
(* particular no task reads or writes a store that was never initialized.  *)
(* (getMessages, store, initialize)                                        *)
THEOREM TypeCorrect == Spec => []TypeOK
<1>1. TypeInv /\ [Next]_vars => TypeInv'
    BY TypeStep
<1>2. TypeInv => TypeOK
    BY DEF TypeInv, SessionOK, CacheOK, RecordsOK, TypeOK, Who
<1> QED
    BY <1>1, <1>2, TypeInit, PTL DEF Spec

-----------------------------------------------------------------------------
(* CalmInv is preserved. *)

LEMMA CalmInit == Init => CalmInv
BY DEF Init, CalmInv, LogoutIsAlone, TasksAreOwn, OpeningIsOwn, UsersAreReady, KeysAreOwn,
    ScopeGoes, StoreIsOpen, RecordsAreClean, Clearing, Initializing, NoInit, NoTask, TaskIs

LEMMA CalmTask ==
    ASSUME TypeInv, CalmInv, ways = {}, NEW t \in Tasks, Begin(t) \/ TaskStep(t)
    PROVE  CalmInv'
<1> USE DEF TaskIs
<1>1. UNCHANGED <<given, session, clear, broken, spoilt>>
    BY DEF history, Begin, TaskStep, Initialize, OpenOutbox, Read, Write, Throw
<1>2. ~Clearing
    BY DEF Begin, TaskStep, Initialize, OpenOutbox, Read, Write, Throw, CalmInv, LogoutIsAlone
<1>3. LogoutIsAlone' /\ ScopeGoes' /\ user' = user /\ ways' = ways /\ platform' = platform
    BY <1>1, <1>2 DEF LogoutIsAlone, ScopeGoes, Clearing, given, session
<1>4. CASE Begin(t)
    <2>1. /\ user \in Users /\ UNCHANGED <<cache, records>>
          /\ \A x \in Tasks : task'[x] = IF x = t THEN [user |-> user, pc |-> "ask"] ELSE task[x]
        BY <1>4 DEF Begin, TypeInv, TasksOK, SessionOK, Who, Progress
    <2> QED
        BY <1>1, <1>2, <1>3, <2>1 DEF cache, CalmInv, TasksAreOwn, OpeningIsOwn, UsersAreReady,
            KeysAreOwn, StoreIsOpen, RecordsAreClean, Initializing, Clearing, Web
<1>5. CASE Initialize(t)
    <2>1. /\ UNCHANGED records /\ task[t].pc \in {"ask", "wait"} /\ task[t].user = user
        BY <1>5 DEF Initialize, CalmInv, TasksAreOwn
    <2>2. CASE UNCHANGED cache
        <3>1. PICK pc \in {"outbox", "wait"} :
                  TaskGoes(t, pc) /\ (pc = "outbox" => scope = user)
            BY <1>5, <2>1, <2>2 DEF Initialize, Initialized, cache, Initializing, TypeInv, CacheOK
        <3>2. \A x \in Tasks : /\ task'[x].user = task[x].user
                               /\ task'[x].pc = IF x = t THEN pc ELSE task[x].pc
            BY <3>1, MovedTask DEF TypeInv, Progress
        <3> QED
            BY <1>1, <1>2, <1>3, <2>1, <2>2, <3>1, <3>2 DEF cache, CalmInv, TasksAreOwn,
                OpeningIsOwn, UsersAreReady, KeysAreOwn, StoreIsOpen, RecordsAreClean, Initializing,
                Clearing, Web
    <2>3. CASE /\ ~Initialized(t) /\ ~Initializing
               /\ init' = [user |-> user, pc |-> "store"]
               /\ store' = [user |-> user, open |-> FALSE]
               /\ keys' = NoUser /\ opened' = NoUser
               /\ TaskGoes(t, "own") /\ UNCHANGED scope
        <3>1. \A x \in Tasks : /\ task'[x].user = task[x].user
                               /\ task'[x].pc = IF x = t THEN "own" ELSE task[x].pc
            BY <2>3, MovedTask DEF TypeInv, Progress
        <3>2. scope # user
            BY <2>1, <2>3 DEF Initialized
        <3> QED
            BY <1>1, <1>2, <1>3, <2>1, <2>3, <3>1, <3>2 DEF CalmInv, TasksAreOwn, OpeningIsOwn,
                UsersAreReady, KeysAreOwn, StoreIsOpen, RecordsAreClean, Initializing, Clearing
    <2> QED
        BY <1>5, <2>1, <2>2, <2>3 DEF Initialize
<1>6. CASE OpenOutbox(t)
    <2>1. /\ UNCHANGED <<cache, records>> /\ task[t].pc = "outbox"
          /\ \A x \in Tasks : /\ task'[x].user = task[x].user
                              /\ task'[x].pc = IF x = t THEN "use" ELSE task[x].pc
        BY <1>6, MovedTask DEF OpenOutbox, TypeInv, Progress
    <2> QED
        BY <1>1, <1>2, <1>3, <2>1 DEF cache, CalmInv, TasksAreOwn, OpeningIsOwn, UsersAreReady,
            KeysAreOwn, StoreIsOpen, RecordsAreClean, Initializing, Clearing, Web
<1>7. CASE Read(t)
    <2>1. /\ records' \subseteq records /\ task[t].pc = "use"
          /\ UNCHANGED <<scope, keys, init>> /\ store' = [store EXCEPT !.open = TRUE]
          /\ \A x \in Tasks : /\ task'[x].user = task[x].user
                              /\ task'[x].pc = IF x = t THEN "write" ELSE task[x].pc
        BY <1>7, MovedTask DEF Read, Reopened, TypeInv, Progress
    <2>2. store'.user = store.user /\ store'.open
        BY <2>1 DEF TypeInv, CacheOK
    <2> QED
        BY <1>1, <1>2, <1>3, <2>1, <2>2 DEF CalmInv, TasksAreOwn, OpeningIsOwn, UsersAreReady,
            KeysAreOwn, StoreIsOpen, RecordsAreClean, Initializing, Clearing, Web
<1>8. CASE Write(t) \/ Throw(t)
    <2>1. /\ UNCHANGED <<scope, keys, init>> /\ task[t].pc \in {"use", "write"}
          /\ store' = store \/ store' = [store EXCEPT !.open = TRUE]
          /\ \A x \in Tasks : task'[x] = IF x = t THEN NoTask ELSE task[x]
        BY <1>8, EndedTask DEF Write, Throw, Reopened, cache, TypeInv
    <2>2. store'.user = store.user /\ (store.open => store'.open)
        BY <2>1 DEF TypeInv, CacheOK
    <2>3. \A x \in Tasks : task'[x].pc = "idle" \/ task'[x] = task[x]
        BY <2>1 DEF NoTask
    <2>4. TasksAreOwn' /\ OpeningIsOwn' /\ UsersAreReady' /\ KeysAreOwn' /\ StoreIsOpen'
        BY <1>1, <1>2, <1>3, <2>1, <2>2, <2>3 DEF CalmInv, TasksAreOwn, OpeningIsOwn,
            UsersAreReady, KeysAreOwn, StoreIsOpen, Initializing, Clearing, Web
    <2>5. RecordsAreClean'
        <3>1. CASE Write(t)
            <4>1. /\ scope = user /\ task[t].user = user /\ user \in Users /\ ~Initializing
                BY <2>1, Constants DEF CalmInv, UsersAreReady, TasksAreOwn, TypeInv, OwnersOK,
                    OpeningIsOwn
            <4>2. /\ keys \in {NoUser, store.user}
                  /\ store.user \notin spoilt => store.user = user /\ keys = user
                BY <1>2, <4>1, Constants DEF CalmInv, KeysAreOwn, StoreIsOpen
            <4>3. records' = records \cup {[db |-> store.user, of |-> user, key |-> keys]}
                BY <3>1, <4>1 DEF Write
            <4> QED
                BY <1>1, <4>2, <4>3 DEF CalmInv, RecordsAreClean
        <3>2. CASE Throw(t)
            BY <1>1, <3>2 DEF Throw, CalmInv, RecordsAreClean
        <3> QED
            BY <1>8, <3>1, <3>2
    <2> QED
        BY <1>3, <2>4, <2>5 DEF CalmInv
<1> QED
    BY <1>4, <1>5, <1>6, <1>7, <1>8 DEF TaskStep

LEMMA CalmOpening ==
    ASSUME TypeInv, CalmInv, ways = {}, NEW ok \in BOOLEAN, OpenStore(ok) \/ OpenKeys(ok)
    PROVE  CalmInv'
<1> USE DEF TaskIs
<1>1. /\ UNCHANGED <<given, session, clear, records>> /\ Initializing /\ ~Clearing
      /\ init.user = user /\ store.user = user /\ scope # user /\ keys = NoUser /\ user \in Users
    BY DEF OpenKeys, OpenStore, Initializing, CalmInv, OpeningIsOwn, LogoutIsAlone, TypeInv,
        OwnersOK
<1>2. /\ ScopeGoes' /\ ~Clearing' /\ LogoutIsAlone'
      /\ user' = user /\ ways' = ways /\ platform' = platform
    BY <1>1 DEF LogoutIsAlone, ScopeGoes, Clearing, given, session
<1>3. CASE ~ok
    <2>1. /\ UNCHANGED <<store, scope>> /\ init' = NoInit /\ broken' /\ keys' \in {NoUser, user}
          /\ spoilt \subseteq spoilt' /\ (scope # NoUser => user \in spoilt')
          /\ task' = [t \in Tasks |-> IF TaskIs(t, "own") THEN NoTask ELSE task[t]]
        BY <1>1, <1>3 DEF OpenStore, OpenKeys, InitFails, InitEnds
    <2>2. \A x \in Tasks : task'[x].pc = "idle" \/ task'[x] = task[x]
        BY <2>1 DEF NoTask
    <2>3. TasksAreOwn' /\ UsersAreReady' /\ RecordsAreClean'
        BY <1>1, <1>2, <2>1, <2>2 DEF CalmInv, TasksAreOwn, UsersAreReady, RecordsAreClean
    <2>4. OpeningIsOwn' /\ KeysAreOwn' /\ StoreIsOpen'
        BY <1>1, <1>2, <2>1 DEF OpeningIsOwn, KeysAreOwn, StoreIsOpen, Initializing, NoInit
    <2> QED
        BY <1>2, <2>3, <2>4 DEF CalmInv
<1>4. CASE ok /\ OpenStore(ok)
    <2>1. /\ UNCHANGED <<scope, keys, task, history>> /\ init'.pc = "keys" /\ init'.user = user
          /\ store'.user = user /\ store'.open
        BY <1>1, <1>4 DEF OpenStore, TypeInv, CacheOK
    <2> QED
        BY <1>1, <1>2, <2>1 DEF history, CalmInv, TasksAreOwn, UsersAreReady, OpeningIsOwn,
            KeysAreOwn, StoreIsOpen, RecordsAreClean, Initializing
<1>5. CASE ok /\ OpenKeys(ok)
    <2>1. /\ UNCHANGED <<store, spoilt>> /\ init' = NoInit /\ keys' = user /\ scope' = user
          /\ store.open /\ ~broken'
          /\ task' = [t \in Tasks |-> IF TaskIs(t, "own") THEN [task[t] EXCEPT !.pc = "outbox"]
                                      ELSE task[t]]
        BY <1>1, <1>5 DEF OpenKeys, InitEnds, CalmInv, OpeningIsOwn
    <2>2. \A x \in Tasks : /\ task'[x].user = task[x].user
                           /\ task'[x].pc = IF TaskIs(x, "own") THEN "outbox" ELSE task[x].pc
        BY <2>1 DEF TypeInv, TasksOK, Progress
    <2>3. TasksAreOwn' /\ UsersAreReady' /\ RecordsAreClean'
        BY <1>1, <1>2, <2>1, <2>2 DEF CalmInv, TasksAreOwn, UsersAreReady, RecordsAreClean
    <2>4. OpeningIsOwn' /\ KeysAreOwn' /\ StoreIsOpen'
        BY <1>1, <1>2, <2>1 DEF OpeningIsOwn, KeysAreOwn, StoreIsOpen, Initializing, NoInit
    <2> QED
        BY <1>2, <2>3, <2>4 DEF CalmInv
<1> QED
    BY <1>3, <1>4, <1>5 DEF OpenStore, OpenKeys

LEMMA CalmAccount ==
    ASSUME TypeInv, CalmInv, ways = {},
           \/ \E u \in Users : Switch(u) \/ SignIn(u)
           \/ Logout \/ ClearStep \/ Restart
    PROVE  CalmInv'
<1> USE DEF TaskIs
<1>1. CASE \/ \E u \in Users : Switch(u) \/ SignIn(u)
           \/ Leave
    <2>1. /\ UNCHANGED <<given, cache, task, records, broken, spoilt>>
          /\ ~Initializing /\ \A t \in Tasks : TaskIs(t, "idle")
          /\ \/ clear' = clear /\ ~Clearing
             \/ clear' = NoInit /\ scope = NoUser
        BY <1>1 DEF history, Switch, SignIn, Leave, Undisturbed, Clearing, CalmInv, LogoutIsAlone,
            ScopeGoes
    <2> QED
        BY <2>1 DEF given, cache, CalmInv, LogoutIsAlone, TasksAreOwn, OpeningIsOwn,
            UsersAreReady, KeysAreOwn, ScopeGoes, StoreIsOpen, RecordsAreClean, Clearing,
            Initializing, NoInit, Web
<1>2. CASE Logout
    <2>1. /\ UNCHANGED <<given, session, cache, task, records, broken, spoilt>>
          /\ ~Initializing /\ \A t \in Tasks : TaskIs(t, "idle")
          /\ clear' = [user |-> user, pc |-> "close"] /\ scope \in {user, NoUser}
        BY <1>2 DEF history, Logout, Undisturbed
    <2> QED
        BY <2>1 DEF given, session, cache, CalmInv, LogoutIsAlone, TasksAreOwn, OpeningIsOwn,
            UsersAreReady, KeysAreOwn, ScopeGoes, StoreIsOpen, RecordsAreClean, Clearing,
            Initializing
<1>3. CASE CloseStore \/ DeleteDatabase
    <2>1. /\ UNCHANGED <<given, session, keys, init, task, broken, spoilt>> /\ records' \subseteq records
          /\ store' = store \/ store' = [store EXCEPT !.open = FALSE]
          /\ Clearing /\ scope \in {clear.user, NoUser}
          /\ \/ scope' = scope /\ clear' = [clear EXCEPT !.pc = "delete"]
             \/ scope' = NoUser /\ clear' = [clear EXCEPT !.pc = "leave"]
        BY <1>3 DEF history, CloseStore, DeleteDatabase, ScopeCleared, Clearing, CalmInv, ScopeGoes
    <2>2. store'.user = store.user /\ clear'.user = clear.user /\ clear'.pc \in {"delete", "leave"}
          /\ (clear'.pc = "leave" => scope' = NoUser)
        BY <2>1 DEF TypeInv, CacheOK, ClearOK
    <2>3. ~Initializing /\ \A t \in Tasks : TaskIs(t, "idle")
        BY <2>1 DEF CalmInv, LogoutIsAlone
    <2> QED
        BY <2>1, <2>2, <2>3 DEF given, session, CalmInv, LogoutIsAlone, TasksAreOwn, OpeningIsOwn,
            UsersAreReady, KeysAreOwn, ScopeGoes, StoreIsOpen, RecordsAreClean, Clearing,
            Initializing
<1>4. CASE Restart
    <2>1. /\ UNCHANGED <<given, session, records, spoilt>> /\ scope' = NoUser /\ keys' = NoUser
          /\ init' = NoInit /\ clear' = NoInit /\ \A t \in Tasks : task'[t] = NoTask
        BY <1>4 DEF Restart
    <2> QED
        BY <2>1 DEF given, session, CalmInv, LogoutIsAlone, TasksAreOwn, OpeningIsOwn,
            UsersAreReady, KeysAreOwn, ScopeGoes, StoreIsOpen, RecordsAreClean, Clearing,
            Initializing, NoInit, NoTask
<1> QED
    BY <1>1, <1>2, <1>3, <1>4 DEF ClearStep

LEMMA CalmStep == TypeInv /\ CalmInv /\ [Next]_vars => CalmInv'
<1> SUFFICES ASSUME TypeInv, CalmInv, [Next]_vars PROVE CalmInv'
    OBVIOUS
<1>1. CASE UNCHANGED vars
    BY <1>1 DEF vars, given, session, cache, history, CalmInv, LogoutIsAlone, TasksAreOwn, OpeningIsOwn,
        UsersAreReady, KeysAreOwn, ScopeGoes, StoreIsOpen, RecordsAreClean, Clearing, Initializing,
        TaskIs, Web
<1>2. CASE ways # {} /\ Next
    <2>1. ways' = ways
        BY <1>2 DEF Next, InitStep, OpenKeys, OpenStore, ClearStep, CloseStore, DeleteDatabase,
            Leave, Logout, Restart, Begin, TaskStep, Initialize, OpenOutbox, Read, Write, Throw,
            Switch, SignIn, given
    <2> QED
        BY <1>2, <2>1 DEF CalmInv
<1>3. CASE ways = {} /\ \E t \in Tasks : Begin(t) \/ TaskStep(t)
    BY <1>3, CalmTask
<1>4. CASE ways = {} /\ InitStep
    BY <1>4, CalmOpening DEF InitStep
<1>5. CASE /\ ways = {}
           /\ \/ \E u \in Users : Switch(u) \/ SignIn(u)
              \/ Logout \/ ClearStep \/ Restart
    BY <1>5, CalmAccount
<1> QED
    BY <1>1, <1>2, <1>3, <1>4, <1>5 DEF Next

LEMMA Invariants == Spec => [](TypeInv /\ CalmInv)
BY TypeInit, TypeStep, CalmInit, CalmStep, PTL DEF Spec

(* As long as the last opening succeeded, a cache initialized for an       *)
(* account uses that account's store, and on a phone that store is open,   *)
(* whenever the app is restarted; once one failed and until one succeeds,  *)
(* the store is that of the account whose opening failed (initialize,      *)
(* clearAllForUser, NativeMessageStore).                                   *)
THEOREM StoreStaysOpen == Spec => []StoreIsOpenCalmly
<1>1. CalmInv => StoreIsOpenCalmly
    BY DEF CalmInv, StoreIsOpenCalmly
<1> QED
    BY <1>1, Invariants, PTL

(* A message is written to its own account's database and under its own    *)
(* account's key, whatever openings fail, of stores or of key stores; only *)
(* in the databases of accounts whose opening failed while the cache was   *)
(* another's may there be another's messages, and there, too, none is      *)
(* under another account's key (initialize, store, StoreEncryption).       *)
THEOREM RecordsStayOwn == Spec => []RecordsAreOwnCalmly
<1>1. CalmInv => RecordsAreOwnCalmly
    BY DEF CalmInv, RecordsAreClean, RecordsAreOwnCalmly
<1> QED
    BY <1>1, Invariants, PTL

=============================================================================
