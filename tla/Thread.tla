------------------------------- MODULE Thread -------------------------------
(***************************************************************************)
(* One message of a conversation, the reactions to it and its recovery     *)
(* (conversation.page.ts, peer-message-recovery.service.ts,                *)
(* receipts.service.ts).                                                   *)
(*                                                                         *)
(* A reaction is a message of its own.  The page applies it to what it     *)
(* shows and to the cached record of the message it is about, which it     *)
(* reads, changes and stores in separate steps; a page that loads computes *)
(* the reactions anew from the cached reaction messages.  The record of a  *)
(* message that could not be decrypted (sealed) is replaced when a later   *)
(* attempt succeeds or when another device sends the text again.           *)
(*                                                                         *)
(* One device, one message, one emoji.  Reaction messages are known by     *)
(* their position in the server's log, which is their order of createdAt.  *)
(***************************************************************************)
EXTENDS Integers, Sequences, FiniteSets

CONSTANTS
    Toggles,        \* reactions of this device's user, numbered from 1
    MaxReactions,   \* bound: reaction messages
    MaxLoads,       \* bound: loads
    MaxAttempts,    \* MAX_ATTEMPTS
    MaxReconnects,  \* bound: reconnections and restarts
    Ways            \* what may come together: sets of AllWays, one per behaviour

(* Reactions while the page loads, or to a message still sealed; a text    *)
(* sent again while the page loads; sends, events and the app that fail.   *)
AllWays == {"anytime", "answers", "failures"}

ASSUME ThreadAssumption ==
    /\ Toggles \subseteq Nat \ {0}
    /\ {MaxReactions, MaxLoads, MaxAttempts, MaxReconnects} \subseteq Nat
    /\ Ways \subseteq SUBSET AllWays

VARIABLES
    ways,
    log,        \* the reaction messages at the server: by whom, added or removed
    heard,      \* how many of them the socket has delivered
    cached,     \* the reaction messages in the message cache
    record,     \* the message's record: sealed or not, reactions
    shown,      \* the page's DisplayMessage, or NotShown
    open,       \* the page is open and subscribed
    known,      \* knownIds
    unread,     \* unread count of the conversation
    own,        \* onToggleReaction calls under way
    live,       \* handleIncomingDecryptedMessage calls under way
    load,       \* loadConversation, loadHistory
    resent,     \* handleResentMessage
    attempts,   \* requestAttempts of the message, persisted
    requests,   \* resend requests that nobody has answered
    asked,      \* history: requests since the budget was last reset
    loads, reconnects   \* counters

threadVars == <<ways, log, heard, cached, record, shown, open, known, unread, own, live,
          load, resent, attempts, requests, asked, loads, reconnects>>

Users == {"me", "peer"}
Positions == 1 .. MaxReactions
Posted == 1 .. Len(log)

NotShown == [sealed |-> FALSE, reactions |-> {"nobody"}]
Records == [sealed : BOOLEAN, reactions : SUBSET Users]

NoCall == [pc |-> "idle", list |-> {}, add |-> FALSE, copy |-> NotShown, at |-> 0]
NoLoad == [pc |-> "idle", copy |-> NotShown, page |-> 0, ids |-> {}]

At(f, t, pc) == f[t].pc = pc
AtRest(f) == \A t \in DOMAIN f : At(f, t, "idle")

(* applyReactionMutation *)
Applied(reactions, u, add) == IF add THEN reactions \union {u} ELSE reactions \ {u}

(* The reactions that the reaction messages at S leave, applied in order. *)
Reacted(S) ==
    {u \in Users : \E i \in S : /\ log[i].by = u /\ log[i].add
                                /\ \A j \in S : log[j].by = u => j <= i}

Readable == {i \in Positions : cached[i] = "text"}
InCache == {i \in Positions : cached[i] # "none"}

ThreadInit ==
    /\ ways \in Ways
    /\ log = <<>> /\ heard = 0
    /\ cached = [i \in Positions |-> "none"]
    /\ record \in {[sealed |-> s, reactions |-> {}] : s \in BOOLEAN}
    /\ shown = NotShown /\ open = FALSE /\ known = {} /\ unread = 1
    /\ own = [t \in Toggles |-> NoCall]
    /\ live = [i \in Positions |-> NoCall]
    /\ load = NoLoad /\ resent = NoCall
    /\ attempts = 0 /\ requests = 0 /\ asked = 0
    /\ loads = 0 /\ reconnects = 0

Reacting == ~AtRest(own) \/ ~AtRest(live)
Loading == load.pc # "idle"
Recovering == resent.pc # "idle"

MayReact == "anytime" \in ways \/ (~Loading /\ ~Recovering /\ ~record.sealed)
MayLoad == "anytime" \in ways \/ (~Reacting /\ ~Recovering /\ heard = Len(log))
MayAnswer ==
    /\ "anytime" \in ways \/ ~Reacting
    /\ "answers" \in ways \/ ~Loading

-----------------------------------------------------------------------------
(* Reactions of the others.                                                *)

PeerReacts ==
    /\ MayReact /\ Len(log) < MaxReactions
    /\ log' = Append(log, [by |-> "peer", add |-> "peer" \notin Reacted(Posted)])
    /\ UNCHANGED <<ways, heard, cached, record, shown, open, known, unread, own, live,
                   load, resent, attempts, requests, asked, loads, reconnects>>

(* messageNew$: an event of one's own is only noted.  While the page is    *)
(* closed the notification service stores what it decrypts.                *)
Counted(i) == unread' = IF log[i].by = "me" THEN unread ELSE unread + 1

Hear ==
    LET i == heard + 1
    IN  /\ i \in Posted /\ MayReact
        /\ heard' = i /\ Counted(i)
        /\ known' = IF open THEN known \union {i} ELSE known
        /\ live' = IF open /\ i \notin known /\ i \notin InCache /\ log[i].by # "me"
                   THEN [live EXCEPT ![i] = [NoCall EXCEPT !.pc = "store"]] ELSE live
        /\ cached' = IF ~open /\ log[i].by # "me" THEN [cached EXCEPT ![i] = "text"] ELSE cached
    /\ UNCHANGED <<ways, log, record, shown, open, own, load, resent, attempts,
                   requests, asked, loads, reconnects>>

LoseEvent ==
    /\ "failures" \in ways /\ heard < Len(log)
    /\ heard' = heard + 1
    /\ UNCHANGED <<ways, log, cached, record, shown, open, known, unread, own, live,
                   load, resent, attempts, requests, asked, loads, reconnects>>

(* handleIncomingDecryptedMessage: the message, decrypted and stored in    *)
(* its turn, is shown, ...                                                 *)
ShownNow(i) ==
    shown' = IF shown = NotShown THEN shown
             ELSE [shown EXCEPT !.reactions = Applied(@, log[i].by, log[i].add)]

LiveStore(i) ==
    /\ At(live, i, "store") /\ \A j \in Positions : j < i => ~At(live, j, "store")
    /\ cached' = [cached EXCEPT ![i] = "text"]
    /\ ShownNow(i)
    /\ live' = [live EXCEPT ![i].pc = "get"]
    /\ UNCHANGED <<ways, log, heard, record, open, known, unread, own, load, resent,
                   attempts, requests, asked, loads, reconnects>>

LiveGet(i) ==
    /\ At(live, i, "get")
    /\ live' = [live EXCEPT ![i].pc = "put", ![i].copy = record]
    /\ UNCHANGED <<ways, log, heard, cached, record, shown, open, known, unread, own,
                   load, resent, attempts, requests, asked, loads, reconnects>>

(* A slip: a reaction is no message to report as read. *)
NotReported == UNCHANGED unread

(* markConversationRead *)
Reported == unread' = 0

(* ... and its record has it. *)
LivePut(i) ==
    /\ At(live, i, "put")
    /\ record' = [live[i].copy EXCEPT !.reactions = Applied(@, log[i].by, log[i].add)]
    /\ Reported
    /\ live' = [live EXCEPT ![i] = NoCall]
    /\ UNCHANGED <<ways, log, heard, cached, shown, open, known, own, load, resent,
                   attempts, requests, asked, loads, reconnects>>

-----------------------------------------------------------------------------
(* onToggleReaction: what the page shows is changed at once.               *)

Current == shown.reactions

Toggle(t) ==
    /\ At(own, t, "idle") /\ own[t].at = 0 /\ \A s \in Toggles : s < t => own[s].at # 0
    /\ MayReact /\ open /\ shown # NotShown
    /\ LET add == "me" \notin Current
           list == Applied(Current, "me", add)
       IN  /\ shown' = [shown EXCEPT !.reactions = list]
           /\ own' = [own EXCEPT ![t] = [NoCall EXCEPT !.pc = "get", !.list = list,
                                                       !.add = add, !.at = 1]]
    /\ UNCHANGED <<ways, log, heard, cached, record, open, known, unread, live, load,
                   resent, attempts, requests, asked, loads, reconnects>>

ToggleGet(t) ==
    /\ At(own, t, "get")
    /\ own' = [own EXCEPT ![t].pc = "put", ![t].copy = record]
    /\ UNCHANGED <<ways, log, heard, cached, record, shown, open, known, unread, live,
                   load, resent, attempts, requests, asked, loads, reconnects>>

TogglePut(t) ==
    /\ At(own, t, "put")
    /\ record' = [own[t].copy EXCEPT !.reactions = own[t].list]
    /\ own' = [own EXCEPT ![t].pc = "send"]
    /\ UNCHANGED <<ways, log, heard, cached, shown, open, known, unread, live, load,
                   resent, attempts, requests, asked, loads, reconnects>>

Done(t) == own' = [own EXCEPT ![t] = [NoCall EXCEPT !.at = 1]]

(* Sends leave in the order of the calls.  One that fails, or whose        *)
(* acknowledgement is lost, is only logged.                                *)
ToggleSend(t) ==
    /\ At(own, t, "send") /\ \A s \in Toggles : s < t => At(own, s, "idle")
    /\ Len(log) < MaxReactions
    /\ \E outcome \in {"sent", "unsent", "unacked"} :
        /\ outcome = "sent" \/ "failures" \in ways
        /\ log' = IF outcome = "unsent" THEN log
                  ELSE Append(log, [by |-> "me", add |-> own[t].add])
        /\ known' = IF outcome = "sent" THEN known \union {Len(log) + 1} ELSE known
        /\ IF outcome = "sent" THEN own' = [own EXCEPT ![t].pc = "keep", ![t].at = Len(log) + 1]
           ELSE Done(t)
    /\ UNCHANGED <<ways, heard, cached, record, shown, open, unread, live, load, resent,
                   attempts, requests, asked, loads, reconnects>>

(* One's reaction message is cached. *)
ToggleKeep(t) ==
    /\ At(own, t, "keep")
    /\ cached' = [cached EXCEPT ![own[t].at] = "text"]
    /\ Done(t)
    /\ UNCHANGED <<ways, log, heard, record, shown, open, known, unread, live, load,
                   resent, attempts, requests, asked, loads, reconnects>>

-----------------------------------------------------------------------------
(* The page.                                                               *)

(* ionViewWillEnter, and a Welcome or a restored encryption later. *)
LoadBegins ==
    /\ ~Loading /\ MayLoad /\ loads < MaxLoads
    /\ open' = TRUE /\ loads' = loads + 1
    /\ load' = [NoLoad EXCEPT !.pc = "read"]
    /\ UNCHANGED <<ways, log, heard, cached, record, shown, known, unread, own, live,
                   resent, attempts, requests, asked, reconnects>>

(* getMessages *)
LoadRead ==
    /\ load.pc = "read"
    /\ load' = [load EXCEPT !.pc = "show", !.copy = record, !.ids = Readable]
    /\ UNCHANGED <<ways, log, heard, cached, record, shown, open, known, unread, own,
                   live, resent, attempts, requests, asked, loads, reconnects>>

(* A slip: reactions are collected whatever their order. *)
Collected(copy, S) ==
    [copy EXCEPT !.reactions = IF S = {} THEN @ ELSE {log[i].by : i \in {j \in S : log[j].add}}]

(* processMessagesAndFilterReactions *)
Processed(copy, S) == [copy EXCEPT !.reactions = IF S = {} THEN @ ELSE Reacted(S)]

LoadShow ==
    /\ load.pc = "show"
    /\ shown' = Processed(load.copy, load.ids)
    /\ load' = [load EXCEPT !.pc = "page"]
    /\ UNCHANGED <<ways, log, heard, cached, record, open, known, unread, own, live,
                   resent, attempts, requests, asked, loads, reconnects>>

(* The server's page, then the ids in the cache. *)
LoadPage ==
    /\ load.pc = "page"
    /\ load' = [load EXCEPT !.pc = "orphan", !.page = Len(log), !.ids = InCache]
    /\ UNCHANGED <<ways, log, heard, cached, record, shown, open, known, unread, own,
                   live, resent, attempts, requests, asked, loads, reconnects>>

(* requestResend *)
RequestResend ==
    IF attempts < MaxAttempts
    THEN attempts' = attempts + 1 /\ asked' = asked + 1 /\ requests' = requests + 1
    ELSE UNCHANGED <<attempts, asked, requests>>

(* A message sealed when the load began is decrypted, or asked for. *)
LoadOrphan(opens) ==
    /\ load.pc = "orphan"
    /\ opens => load.copy.sealed
    /\ IF opens THEN record' = [load.copy EXCEPT !.sealed = FALSE] ELSE UNCHANGED record
    /\ IF load.copy.sealed /\ ~opens THEN RequestResend ELSE UNCHANGED <<attempts, asked, requests>>
    /\ load' = [load EXCEPT !.pc = IF opens THEN "refresh" ELSE "fill"]
    /\ UNCHANGED <<ways, log, heard, cached, shown, open, known, unread, own, live,
                   resent, loads, reconnects>>

(* toDisplayMessage of the cache's record: reactions are not collected. *)
LoadRefresh ==
    /\ load.pc = "refresh"
    /\ shown' = record
    /\ load' = [load EXCEPT !.pc = "fill"]
    /\ UNCHANGED <<ways, log, heard, cached, record, open, known, unread, own, live,
                   resent, attempts, requests, asked, loads, reconnects>>

(* What is missing is decrypted and stored; a reaction among it is not     *)
(* shown, and of one's own messages the text is lost.  markReadIfVisible.  *)
Missing == {i \in 1 .. load.page : i \notin load.ids /\ i \notin known}

LoadFill ==
    /\ load.pc = "fill"
    /\ cached' = [i \in Positions |-> IF i \notin Missing THEN cached[i]
                                     ELSE IF log[i].by = "me" THEN "blank" ELSE "text"]
    /\ known' = known \union (1 .. load.page)
    /\ unread' = 0
    /\ load' = NoLoad
    /\ UNCHANGED <<ways, log, heard, record, shown, open, own, live, resent, attempts,
                   requests, asked, loads, reconnects>>

(* ionViewWillLeave, ngOnDestroy.  A page that is covered loads on and is  *)
(* shown again; one that is gone, at once or later (it is closed at rest), *)
(* begins anew.  What handles a reaction goes on in both.                  *)
Leave(gone) ==
    /\ open \/ gone
    /\ gone => ~Loading
    /\ open' = FALSE
    /\ shown' = IF gone THEN NotShown ELSE shown
    /\ known' = IF gone THEN {} ELSE known
    /\ unread' = IF open /\ shown # NotShown THEN 0 ELSE unread
    /\ UNCHANGED <<ways, log, heard, cached, record, own, live, load, resent, attempts,
                   requests, asked, loads, reconnects>>

-----------------------------------------------------------------------------
(* Peer recovery.                                                          *)

(* Another device that has the text encrypts it again. *)
Answer ==
    /\ requests > 0 /\ ~Recovering /\ MayAnswer
    /\ requests' = requests - 1
    /\ resent' = [NoCall EXCEPT !.pc = "get"]
    /\ UNCHANGED <<ways, log, heard, cached, record, shown, open, known, unread, own,
                   live, load, attempts, asked, loads, reconnects>>

(* handleResentMessage: a record that is not sealed is left alone. *)
ResentGet ==
    /\ resent.pc = "get"
    /\ resent' = IF record.sealed THEN [resent EXCEPT !.pc = "put", !.copy = record] ELSE NoCall
    /\ UNCHANGED <<ways, log, heard, cached, record, shown, open, known, unread, own,
                   live, load, attempts, requests, asked, loads, reconnects>>

(* A slip: the page is not told. *)
NotTold == UNCHANGED shown

(* messageRecovered$ *)
RecoveredShown ==
    shown' = IF open /\ shown # NotShown THEN [resent.copy EXCEPT !.sealed = FALSE] ELSE shown

ResentPut ==
    /\ resent.pc = "put"
    /\ record' = [resent.copy EXCEPT !.sealed = FALSE]
    /\ RecoveredShown
    /\ attempts' = 0 /\ asked' = 0
    /\ resent' = NoCall
    /\ UNCHANGED <<ways, log, heard, cached, open, known, unread, own, live, load,
                   requests, loads, reconnects>>

(* The budget, where any of it was used, is given anew; a request may be   *)
(* lost with the connection.                                               *)
Reconnect ==
    /\ attempts > 0 /\ reconnects < MaxReconnects
    /\ attempts' = 0 /\ asked' = 0 /\ requests' \in {0, requests}
    /\ reconnects' = reconnects + 1
    /\ UNCHANGED <<ways, log, heard, cached, record, shown, open, known, unread, own,
                   live, load, resent, loads>>

Restart ==
    /\ "failures" \in ways /\ reconnects < MaxReconnects
    /\ open' = FALSE /\ shown' = NotShown /\ known' = {} /\ load' = NoLoad
    /\ own' = [t \in Toggles |-> [NoCall EXCEPT !.at = IF own[t].at = 0 THEN 0 ELSE 1]]
    /\ live' = [i \in Positions |-> NoCall]
    /\ resent' = NoCall
    /\ reconnects' = reconnects + 1
    /\ UNCHANGED <<ways, log, heard, cached, record, unread, requests, asked, attempts, loads>>

-----------------------------------------------------------------------------
LoadStep ==
    \/ LoadRead \/ LoadShow \/ LoadPage \/ LoadRefresh \/ LoadFill
    \/ \E opens \in BOOLEAN : LoadOrphan(opens)

ThreadNext ==
    \/ PeerReacts \/ Hear \/ LoseEvent
    \/ \E i \in Positions : LiveStore(i) \/ LiveGet(i) \/ LivePut(i)
    \/ \E t \in Toggles : \/ Toggle(t) \/ ToggleGet(t) \/ TogglePut(t)
                          \/ ToggleSend(t) \/ ToggleKeep(t)
    \/ LoadBegins \/ LoadStep \/ \E gone \in BOOLEAN : Leave(gone)
    \/ Answer \/ ResentGet \/ ResentPut \/ Reconnect \/ Restart

ThreadSpec == ThreadInit /\ [][ThreadNext]_threadVars

-----------------------------------------------------------------------------
TypeOK ==
    /\ cached \in [Positions -> {"none", "text", "blank"}]
    /\ record \in Records /\ shown \in Records \union {NotShown}
    /\ heard \in 0 .. Len(log) /\ attempts \in 0 .. MaxAttempts

Resting == ~Reacting /\ ~Loading /\ ~Recovering /\ heard = Len(log)
Shown == open /\ shown # NotShown

(* A page at rest shows the reactions that the conversation's reaction     *)
(* messages leave, whichever way the user's own and those of the others    *)
(* were interleaved.                                                       *)
(* (onToggleReaction, handleIncomingDecryptedMessage,                      *)
(* processMessagesAndFilterReactions)                                      *)
ReactionsAgree == Resting /\ Shown => shown.reactions = Reacted(Posted)
ReactionsAgreeCalmly == ways = {} => ReactionsAgree

(* A text that was recovered is never sealed again by a record that was    *)
(* read before.  (handleResentMessage, loadHistory [4.5])                  *)
Resealed == ~record.sealed /\ record'.sealed
TextStays == [][~Resealed]_threadVars
TextStaysCalmly == []["anytime" \notin ways => ~Resealed]_threadVars

(* A page at rest shows the text the cache has.  (messageRecovered$)       *)
RecoveredIsShown == Resting /\ Shown /\ ~record.sealed => ~shown.sealed
RecoveredIsShownCalmly == ways = {} => RecoveredIsShown

(* Between two reconnections a device asks for one message no more often   *)
(* than MAX_ATTEMPTS, however often the app is started.                    *)
(* (requestResend, loadAttempts)                                           *)
ResendsAreBounded == asked <= MaxAttempts

(* Nothing is unread in a conversation whose page is open and at rest.     *)
(* (markConversationRead)                                                  *)
NothingIsUnread == Resting /\ Shown => unread = 0
NothingIsUnreadCalmly == ways = {} => NothingIsUnread
=============================================================================
