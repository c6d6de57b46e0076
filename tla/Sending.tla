-------------------------------- MODULE Sending --------------------------------
(***************************************************************************)
(* How a text leaves the composer (conversation.page.ts: sendMessage,      *)
(* sendPlace, retrySendMessage; outbox.repository.ts; socket.service.ts).  *)
(*                                                                         *)
(* One conversation on one device.  A text sent is first recorded in the   *)
(* outbox, then posted over the socket, then stored in the message cache   *)
(* under the id the server gave it, and only then leaves the outbox.  What *)
(* an earlier visit left in the outbox comes back as a draft.  A page may  *)
(* be covered and returned to, or destroyed while a send goes on.          *)
(***************************************************************************)
EXTENDS Integers, Sequences, FiniteSets, SequencesExt

CONSTANTS
    Texts,          \* what the user types, each once
    Places,         \* those picked on a map rather than typed
    MaxSends,       \* bound: outbox entries ever written
    MaxVisits,      \* bound: page instances
    MaxLoads,       \* bound: loads of the page
    Faults          \* of AllFaults

(* The group is not made ready or nothing reaches the server; the message  *)
(* does but not its acknowledgement; a local store fails; a load does.     *)
AllFaults == {"unsent", "unacked", "storage", "load"}

ASSUME SendingAssumption ==
    /\ Places \subseteq Texts
    /\ {MaxSends, MaxVisits, MaxLoads} \subseteq Nat
    /\ Faults \subseteq AllFaults

VARIABLES
    page,       \* "away" or "open"
    visit,      \* the number of the page instance
    loaded,     \* its conversation is loaded
    sending,    \* its sending flag
    bubble,     \* the pending and failed bubbles, by send
    composer,   \* the texts in the composer
    draftText,  \* the draft last given to the composer
    drafts,     \* loadedDrafts
    known,      \* knownIds
    load,       \* the load under way, and what it has read
    loads,      \* loads begun
    sends,      \* the sends ever begun, by localId
    outbox,     \* OutboxRepository: the localIds of its entries
    posts,      \* server: the sends its messages came from; an id is a place here
    cache,      \* MessageCacheService: ids stored, with text or "blank"
    typed,      \* history: the texts typed
    recorded,   \* history: the texts whose last send wrote its record
    blanked     \* history: the texts a placeholder was stored over

view == <<page, visit, loaded, bubble, composer, draftText, drafts, known>>
loading == <<load, loads>>
stores == <<outbox, posts, cache>>
history == <<typed, recorded, blanked>>
sendingVars == <<view, sending, loading, sends, stores, history>>

-----------------------------------------------------------------------------
NoLoad == [pc |-> "idle", page |-> {}, ids |-> {}]

Ids == 1 .. Len(posts)
Cached(i, content) == [id |-> i, content |-> content]
CachedIds == {c.id : c \in cache}
TextsOf(i) == sends[posts[i]].texts
Sent == {t \in Texts : \E c \in cache : c.content = "text" /\ t \in TextsOf(c.id)}

(* store() replaces the record of the same id. *)
StoredAs(i, content) == {c \in cache : c.id # i} \union {Cached(i, content)}

EntryTexts(entries) == UNION {sends[e].texts : e \in entries}

(* Whether a send belongs to the page instance there is. *)
Own(s) == sends[s].own
Running(s) == sends[s].pc \notin {"done", "failed"}

Bubble(s, look) == IF Own(s) /\ s \in DOMAIN bubble
                   THEN [bubble EXCEPT ![s] = look] ELSE bubble

SendingInit ==
    /\ page = "away" /\ visit = 0 /\ loaded = FALSE /\ sending = FALSE
    /\ bubble = <<>> /\ composer = {} /\ draftText = {} /\ drafts = {} /\ known = {}
    /\ load = NoLoad /\ loads = 0
    /\ sends = <<>> /\ outbox = {} /\ posts = <<>> /\ cache = {}
    /\ typed = {} /\ recorded = {} /\ blanked = {}

-----------------------------------------------------------------------------
(* The page comes and goes (ionViewWillEnter, ionViewWillLeave).           *)

LoadBegins ==
    /\ loads < MaxLoads /\ load.pc = "idle"
    /\ load' = [NoLoad EXCEPT !.pc = "conversation"]
    /\ loads' = loads + 1

Fresh == /\ loaded' = FALSE /\ sending' = FALSE /\ bubble' = <<>>
         /\ composer' = {} /\ draftText' = {} /\ drafts' = {} /\ known' = {}

Visit ==
    /\ page = "away" /\ visit < MaxVisits
    /\ page' = "open" /\ visit' = visit + 1
    /\ Fresh /\ LoadBegins
    /\ UNCHANGED <<sends, stores, history>>

(* Leaving takes the loaded drafts out of the outbox, sent or not. *)
DraftsGone == /\ outbox' = outbox \ drafts
              /\ recorded' = recorded \ EntryTexts(drafts)

(* The page is covered by another and returned to: the instance stays, and *)
(* what it sends goes on.                                                  *)
Return ==
    /\ page = "open"
    /\ DraftsGone /\ drafts' = {}
    /\ LoadBegins
    /\ UNCHANGED <<page, visit, loaded, sending, bubble, composer, draftText, known,
                   sends, posts, cache, typed, blanked>>

(* Destroyed, it aborts its ensureGroupReady; the rest of a send goes on.  *)
Orphaned(s) == [sends[s] EXCEPT !.own = FALSE,
                                !.pc = IF Own(s) /\ @ = "group" THEN "abort" ELSE @]

Leave ==
    /\ page = "open"
    /\ DraftsGone
    /\ page' = "away" /\ Fresh
    /\ load' = NoLoad
    /\ sends' = [s \in DOMAIN sends |-> Orphaned(s)]
    /\ UNCHANGED <<visit, loads, posts, cache, typed, blanked>>

-----------------------------------------------------------------------------
(* loadConversation and loadHistory.                                       *)

LoadGoes(pc) == load' = [load EXCEPT !.pc = pc]

LoadConversation(ok) ==
    /\ load.pc = "conversation"
    /\ IF ok THEN loaded' = TRUE /\ LoadGoes("drafts")
       ELSE load' = NoLoad /\ UNCHANGED loaded
    /\ UNCHANGED <<page, visit, bubble, composer, draftText, drafts, known, sending,
                   loads, sends, stores, history>>

RetryLoad ==
    /\ page = "open" /\ ~loaded
    /\ LoadBegins
    /\ UNCHANGED <<view, sending, sends, stores, history>>

(* The entries of the outbox become a draft; the composer takes a draft    *)
(* over only when its input has changed.                                   *)
LoadDrafts ==
    /\ load.pc = "drafts"
    /\ IF outbox = {} THEN UNCHANGED <<composer, draftText, drafts>>
       ELSE /\ drafts' = outbox
            /\ draftText' = EntryTexts(outbox)
            /\ composer' = IF draftText' # draftText THEN draftText' ELSE composer
    /\ LoadGoes("history")
    /\ UNCHANGED <<page, visit, loaded, bubble, known, sending, loads, sends,
                   stores, history>>

(* What the cache holds is displayed: the bubbles of sends are gone. *)
ShowCached ==
    /\ load.pc = "history"
    /\ bubble' = <<>>
    /\ LoadGoes("page")
    /\ UNCHANGED <<page, visit, loaded, composer, draftText, drafts, known, sending,
                   loads, sends, stores, history>>

(* The server's last page, then the ids in the cache. *)
FetchPage(ok) ==
    /\ load.pc = "page"
    /\ load' = IF ok THEN [pc |-> "gap", page |-> Ids, ids |-> CachedIds] ELSE NoLoad
    /\ UNCHANGED <<view, sending, loads, sends, stores, history>>

Filling(missing) ==
    IF missing = {} THEN NoLoad ELSE [NoLoad EXCEPT !.pc = "fill", !.page = missing]

(* What was neither cached nor is known is missing; all is known from here.*)
FindMissing ==
    /\ load.pc = "gap"
    /\ load' = Filling(load.page \ (load.ids \union known))
    /\ known' = known \union load.page
    /\ UNCHANGED <<page, visit, loaded, bubble, composer, draftText, drafts, sending,
                   loads, sends, stores, history>>

(* A device cannot decrypt its own message: a placeholder is stored.       *)
FillGap(i) ==
    /\ load.pc = "fill" /\ i \in load.page
    /\ cache' = StoredAs(i, "blank")
    /\ blanked' = IF Cached(i, "text") \in cache THEN blanked \union TextsOf(i) ELSE blanked
    /\ load' = Filling(load.page \ {i})
    /\ UNCHANGED <<view, sending, loads, sends, outbox, posts, typed, recorded>>

-----------------------------------------------------------------------------
(* Sending.                                                                *)

Type(t) ==
    /\ page = "open" /\ t \notin typed \union Places
    /\ typed' = typed \union {t}
    /\ composer' = composer \union {t}
    /\ UNCHANGED <<page, visit, loaded, bubble, draftText, drafts, known, sending,
                   loading, sends, stores, recorded, blanked>>

SendBegun(texts, pc) == [texts |-> texts, pc |-> pc, own |-> TRUE, post |-> 0]
Bubbling(texts) ==
    /\ sends' = Append(sends, SendBegun(texts, "record"))
    /\ sending' = TRUE
    /\ bubble' = bubble @@ (Len(sends) + 1 :> "pending")

(* The composer empties itself as it hands its text over; the page may     *)
(* still turn it away.                                                     *)
Send ==
    /\ page = "open" /\ composer # {} /\ ~sending
    /\ Len(sends) < MaxSends
    /\ composer' = {}
    /\ IF loaded /\ drafts # {}
       THEN /\ sends' = Append(sends, SendBegun(composer, "drafts"))
            /\ UNCHANGED <<sending, bubble>>
       ELSE IF loaded THEN Bubbling(composer)
       ELSE UNCHANGED <<sends, sending, bubble>>
    /\ UNCHANGED <<page, visit, loaded, draftText, drafts, known,
                   loading, stores, history>>

(* The drafts loaded are removed first, whatever has become of their text. *)
RemoveDrafts(s) ==
    /\ sends[s].pc = "drafts"
    /\ sends' = [sends EXCEPT ![s].pc = "record"]
    /\ IF Own(s)
       THEN /\ DraftsGone /\ drafts' = {}
            /\ sending' = TRUE
            /\ bubble' = bubble @@ (s :> "pending")
       ELSE UNCHANGED <<outbox, recorded, drafts, sending, bubble>>
    /\ UNCHANGED <<page, visit, loaded, composer, draftText, known, loading,
                   posts, cache, typed, blanked>>

(* A place is sent as it is picked; the drafts stay. *)
SendPlace(t) ==
    /\ page = "open" /\ loaded /\ ~sending
    /\ t \in Places \ typed /\ Len(sends) < MaxSends
    /\ typed' = typed \union {t}
    /\ Bubbling({t})
    /\ UNCHANGED <<page, visit, loaded, composer, draftText, drafts, known, loading,
                   stores, recorded, blanked>>

(* The record is written before anything is posted; a failure is ignored.  *)
Record(s, ok) ==
    /\ sends[s].pc = "record"
    /\ IF ok THEN /\ outbox' = outbox \union {s}
                  /\ recorded' = recorded \union sends[s].texts
       ELSE UNCHANGED <<outbox, recorded>>
    /\ sends' = [sends EXCEPT ![s].pc = "group"]
    /\ UNCHANGED <<view, sending, loading, posts, cache, typed, blanked>>

(* A failed bubble is tried again, under the record it had. *)
Retry(s) ==
    /\ page = "open" /\ ~sending /\ s \in DOMAIN bubble
    /\ bubble[s] = "failed"
    /\ Len(posts) < MaxSends
    /\ sends' = [sends EXCEPT ![s].pc = "group"]
    /\ bubble' = [bubble EXCEPT ![s] = "pending"]
    /\ sending' = TRUE
    /\ UNCHANGED <<page, visit, loaded, composer, draftText, drafts, known, loading,
                   stores, history>>

(* A slip: the flag is reset only by a send that succeeds. *)
FinishedLate(s, pc, look) ==
    /\ sends' = [sends EXCEPT ![s].pc = pc]
    /\ bubble' = Bubble(s, look)
    /\ sending' = IF Own(s) THEN (sending /\ pc # "done") ELSE sending

(* However it ends, the page may send again. *)
Finished(s, pc, look) ==
    /\ sends' = [sends EXCEPT ![s].pc = pc]
    /\ bubble' = Bubble(s, look)
    /\ sending' = (sending /\ ~Own(s))

Fails(s) == Finished(s, "failed", "failed")

(* ensureGroupReady, aborted or not, encryptMessage and the socket.  The   *)
(* server tells this device of its own message too, if the page listens.   *)
Post(s, r, heard) ==
    /\ sends[s].pc \in {"group", "abort"} /\ (heard => page = "open" /\ r # "unsent")
    /\ IF r = "unsent" THEN Fails(s) /\ UNCHANGED <<posts, known>>
       ELSE /\ posts' = Append(posts, s)
            /\ known' = IF heard THEN known \union {Len(posts) + 1} ELSE known
            /\ sends' = [sends EXCEPT ![s].pc = IF r = "ok" THEN "store" ELSE "timeout",
                                      ![s].post = Len(posts) + 1]
            /\ UNCHANGED <<bubble, sending>>
    /\ UNCHANGED <<page, visit, loaded, composer, draftText, drafts, loading,
                   outbox, cache, history>>

(* No acknowledgement in time: the page cannot tell it was posted. *)
Timeout(s) ==
    /\ sends[s].pc = "timeout"
    /\ Fails(s)
    /\ UNCHANGED <<page, visit, loaded, composer, draftText, drafts, known, loading,
                   stores, history>>

(* Acknowledged, the message is known, and stored under its id. *)
StoreSent(s, ok) ==
    /\ sends[s].pc = "store"
    /\ IF ok THEN /\ cache' = StoredAs(sends[s].post, "text")
                  /\ sends' = [sends EXCEPT ![s].pc = "remove"]
                  /\ UNCHANGED <<bubble, sending>>
       ELSE Fails(s) /\ UNCHANGED cache
    /\ known' = IF Own(s) THEN known \union {sends[s].post} ELSE known
    /\ UNCHANGED <<page, visit, loaded, composer, draftText, drafts, loading,
                   outbox, posts, history>>

(* A slip: another entry's record is removed. *)
AllRemoved(s) == outbox' = {}

EntryRemoved(s) == outbox' = outbox \ {s}

RemoveEntry(s) ==
    /\ sends[s].pc = "remove"
    /\ EntryRemoved(s)
    /\ Finished(s, "done", "sent")
    /\ UNCHANGED <<page, visit, loaded, composer, draftText, drafts, known, loading,
                   posts, cache, history>>

(* The app is killed: the outbox and the cache are left. *)
Crash ==
    /\ page # "away"
    /\ page' = "away" /\ Fresh
    /\ load' = NoLoad
    /\ sends' = [s \in DOMAIN sends |->
                    [sends[s] EXCEPT !.own = FALSE,
                                     !.pc = IF Running(s) THEN "failed" ELSE @]]
    /\ UNCHANGED <<visit, loads, stores, history>>

-----------------------------------------------------------------------------
May(fault) == {TRUE} \union (IF fault \in Faults THEN {FALSE} ELSE {})

LoadStep ==
    \/ \E ok \in May("load") : LoadConversation(ok) \/ FetchPage(ok)
    \/ LoadDrafts \/ ShowCached \/ FindMissing
    \/ \E i \in load.page : FillGap(i)

Outcomes(s) == {"ok"} \union (Faults \intersect {"unsent", "unacked"})
               \union (IF sends[s].pc = "abort" THEN {"unsent"} ELSE {})

SendStep(s) ==
    \/ RemoveDrafts(s) \/ Timeout(s) \/ RemoveEntry(s)
    \/ \E ok \in May("storage") : Record(s, ok) \/ StoreSent(s, ok)
    \/ \E r \in Outcomes(s), heard \in BOOLEAN : Post(s, r, heard)

SendingNext ==
    \/ Visit \/ Return \/ Leave \/ RetryLoad \/ Send \/ Crash
    \/ LoadStep
    \/ \E t \in Texts : Type(t) \/ SendPlace(t)
    \/ \E s \in DOMAIN sends : SendStep(s) \/ Retry(s)

SendingSpec == SendingInit /\ [][SendingNext]_sendingVars

(* What the page awaits is answered, the socket's acknowledgement by the   *)
(* timer if nothing else.                                                  *)
SendingFairness == WF_sendingVars(LoadStep) /\ WF_sendingVars(\E s \in DOMAIN sends : SendStep(s))
SendingFairSpec == SendingSpec /\ SendingFairness

-----------------------------------------------------------------------------
(* A text whose send wrote its record is in the outbox until it is in the  *)
(* message cache, whatever fails and whenever the app is killed; blanked   *)
(* has those a load stored a placeholder over, and recorded forgets those  *)
(* the page took out of the outbox as drafts.                              *)
(* (sendMessage, retrySendMessage, OutboxRepository)                       *)
TextsSurvive ==
    recorded \ blanked \subseteq EntryTexts(outbox) \union Sent

(* No text is twice in the outbox: what a draft gives the composer back    *)
(* has every text once.  (loadedDrafts)                                    *)
OneEntryPerText ==
    \A e, f \in outbox : e # f => sends[e].texts \intersect sends[f].texts = {}

(* The page never stays unable to send.  (the finally of sendMessage,      *)
(* sendPlace, retrySendMessage; sendMessage's timeout)                     *)
SendsSettle == sending ~> ~sending

(* A draft taken out of the outbox as the page is left was in the          *)
(* composer, for the user to send or to let go.  (draftText, initialText)  *)
DraftsAreShown ==
    [][Leave \/ Return => EntryTexts(outbox \intersect drafts) \subseteq composer]_sendingVars

(* A text in the message cache stays there.  (loadHistory's placeholder    *)
(* for a message of this device)                                           *)
StoredTextStays == [][Sent \subseteq Sent']_sendingVars
=============================================================================
