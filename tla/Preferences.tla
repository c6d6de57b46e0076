----------------------------- MODULE Preferences -----------------------------
(***************************************************************************)
(* What an account keeps in its own repository, on its PDS                 *)
(* (app-preferences-sync.service.ts, embed-preferences.service.ts,         *)
(* badge-visibility.service.ts, the declaration of                         *)
(* key-package.service.ts, atproto-repo.service.ts): the settings of the   *)
(* app, which embeds are loaded, and the declaration with the visibility   *)
(* of the badge.  Each is kept on the device as well, shown at once, read  *)
(* back at a start, and written as a whole.                                *)
(*                                                                         *)
(* A value is the time it was chosen at; 0 is the default.  Requests       *)
(* address the repository of the OAuth session there is when they are      *)
(* sent, and may arrive out of order.                                      *)
(***************************************************************************)
EXTENDS Integers, FiniteSets

CONSTANTS
    Users,          \* accounts signed in
    MaxClock,       \* bound: choices made
    MaxFailures,    \* bound: requests that fail, sessions that are lost
    MaxStarts,      \* bound: restarts, switches and foregrounds
    Uses,           \* what may happen: sets of AllUses, one per behaviour
    NoUser

(* What the user touches; reads and writes fail; the session is not there  *)
(* after a start, for a while or, its store evicted, until the user        *)
(* reconnects; another device writes; the user acts while something is under way, comes back   *)
(* to the badge's page before its choice is declared, switches accounts.   *)
Touched == {"settings", "mutes", "embeds", "badge"}
AllUses == Touched \union {"unread", "unsent", "evicted", "peer", "hasty", "revisits", "switch"}

ASSUME PreferencesAssumption ==
    /\ NoUser \notin Users /\ Users # {}
    /\ {MaxClock, MaxFailures, MaxStarts} \subseteq Nat
    /\ Uses \subseteq SUBSET AllUses

VARIABLES
    uses,
    user,       \* currentUser
    session,    \* the account of the OAuth session
    kept,       \* the accounts whose session the OAuth client can restore
    settings,   \* localStorage: one for all accounts
    loading,    \* the language being loaded
    record,     \* the settings' record on each PDS, if any
    boot,       \* bootstrap: how far (isSyncing), what was read
    armed,      \* saveTimeout
    saves,      \* syncToPdsNow under way
    enabled,    \* embeds: preferences()
    last,       \* lastCachedRecord
    cached,     \* the cache of each account
    embeds,     \* the record on each PDS
    refreshes,  \* refreshFromPds under way
    allows,     \* setAlwaysAllow under way
    visible,    \* badge: the cache of each account
    declared,   \* the declaration on each PDS
    keyed,      \* sessionStorage: accounts whose key has been published
    verified,   \* accounts whose declaration was checked within the hour
    fetch,      \* the badge page's refreshFromPds
    publishing, \* setShowButtonTo under way
    declare,    \* syncDeclaration: how far, for whom, with what
    chosen,     \* history: the latest choices
    clock, failures, starts

general == <<uses, user, session, kept>>
appVars == <<settings, loading, record, boot, armed, saves>>
embedVars == <<enabled, last, cached, embeds, refreshes, allows>>
badgeVars == <<visible, declared, keyed, verified, fetch, publishing, declare>>
counters == <<chosen, clock, failures, starts>>
preferencesVars == <<general, appVars, embedVars, badgeVars, counters>>

None == -1
Times == 0 .. MaxClock
SettingNames == {"look", "tongue", "bell"}
NoBoot == [pc |-> "idle", got |-> {}]
NoFetch == [pc |-> "idle", did |-> NoUser, got |-> None]
NoDeclare == [pc |-> "idle", did |-> NoUser, value |-> 0]

(* Nothing is under way but the timer. *)
Quiet ==
    /\ boot.pc = "idle" /\ saves = {} /\ loading = None
    /\ refreshes = {} /\ allows = {}
    /\ fetch.pc = "idle" /\ publishing = {} /\ declare.pc = "idle"
UserMay(what) == what \in uses /\ ("hasty" \in uses \/ Quiet) /\ clock < MaxClock
Chooses(what) == chosen' = [chosen EXCEPT ![what] = clock + 1] /\ clock' = clock + 1
May(fault) == fault \in uses /\ failures < MaxFailures
Tallies(ok) == failures' = IF ok THEN failures ELSE failures + 1

PreferencesInit ==
    /\ uses \in Uses /\ user \in Users /\ session = user
    /\ kept = IF "switch" \in uses THEN Users ELSE {user}
    /\ settings = [look |-> 0, tongue |-> 0, bell |-> 0, muted |-> FALSE]
    /\ loading = None /\ record = [u \in Users |-> {}]
    /\ boot = [NoBoot EXCEPT !.pc = "read"] /\ armed = FALSE /\ saves = {}
    /\ enabled = 0 /\ last = 0 /\ cached = [u \in Users |-> 0] /\ embeds = cached
    /\ refreshes = {} /\ allows = {}
    /\ visible = cached /\ declared = [u \in Users |-> None]
    /\ keyed = {} /\ verified = {}
    /\ fetch = NoFetch /\ publishing = {} /\ declare = NoDeclare
    /\ chosen = [c \in SettingNames \union {"muted", "embeds", "badge"} |-> 0]
    /\ clock = 0 /\ failures = 0 /\ starts = 0

-----------------------------------------------------------------------------
(* The settings of the app.                                                *)

(* syncToPdsNow: what there is now, to the repository of the session. *)
Saved(s, boots) ==
    IF session = NoUser THEN {} ELSE {[of |-> session, record |-> s, boots |-> boots]}

(* scheduleSave *)
ScheduleSave == armed' = (armed \/ boot.pc = "idle")

(* ThemeService, NotificationService: a setter. *)
Set(f) ==
    /\ f \in {"look", "bell"} /\ UserMay("settings") /\ Chooses(f)
    /\ settings' = [settings EXCEPT ![f] = clock + 1]
    /\ ScheduleSave
    /\ UNCHANGED <<general, loading, record, boot, saves, embedVars, badgeVars, failures, starts>>

(* What the timer has not saved yet would be saved in no order with this.  *)
SetLocale ==
    /\ UserMay("settings") /\ loading = None /\ ("hasty" \in uses \/ ~armed)
    /\ Chooses("tongue")
    /\ loading' = clock + 1
    /\ UNCHANGED <<general, settings, record, boot, armed, saves, embedVars, badgeVars,
                   failures, starts>>

(* toggleMute, blockContact: kept here, saved with something else. *)
ToggleMute ==
    /\ UserMay("mutes") /\ Chooses("muted")
    /\ settings' = [settings EXCEPT !.muted = ~@]
    /\ UNCHANGED <<general, loading, record, boot, armed, saves, embedVars, badgeVars,
                   failures, starts>>

(* A slip: the language is stored on the device only. *)
Unsaved(s) == UNCHANGED saves

SavedNow(s) == saves' = saves \union Saved(s, FALSE)

(* onLangChange *)
LangChange ==
    /\ loading # None
    /\ settings' = [settings EXCEPT !.tongue = loading]
    /\ SavedNow([settings EXCEPT !.tongue = loading])
    /\ loading' = None
    /\ UNCHANGED <<general, record, boot, armed, embedVars, badgeVars, counters>>

SaveTimer ==
    /\ armed /\ armed' = FALSE
    /\ saves' = saves \union Saved(settings, FALSE)
    /\ UNCHANGED <<general, settings, loading, record, boot, embedVars, badgeVars, counters>>

PutAppSettings(s, ok) ==
    /\ s \in saves /\ (ok \/ May("unsent"))
    /\ record' = IF ok THEN [record EXCEPT ![s.of] = {s.record}] ELSE record
    /\ saves' = saves \ {s}
    /\ boot' = IF s.boots THEN NoBoot ELSE boot
    /\ Tallies(ok)
    /\ UNCHANGED <<general, settings, loading, armed, embedVars, badgeVars, chosen, clock, starts>>

(* A record that cannot be read is taken for one that is not there. *)
GetAppSettings(ok) ==
    /\ boot.pc = "read" /\ (ok \/ May("unread"))
    /\ boot' = [pc |-> "apply", got |-> IF ok /\ session # NoUser THEN record[session] ELSE {}]
    /\ Tallies(ok)
    /\ UNCHANGED <<general, settings, loading, record, armed, saves, embedVars, badgeVars,
                   chosen, clock, starts>>

(* Mutes are added, never removed. *)
Applied(r) == [look |-> r.look, tongue |-> settings.tongue, bell |-> r.bell,
               muted |-> settings.muted \/ r.muted]

(* A language already loaded changes at once, in the middle: what is saved *)
(* then has the record's look, but not its notifications and mutes.        *)
Apply(r, atOnce) ==
    /\ r.tongue = settings.tongue => ~atOnce
    /\ settings' = IF atOnce THEN [Applied(r) EXCEPT !.tongue = r.tongue] ELSE Applied(r)
    /\ IF atOnce
       THEN SavedNow([settings EXCEPT !.look = r.look, !.tongue = r.tongue])
       ELSE UNCHANGED saves
    /\ loading' = IF atOnce \/ r.tongue = settings.tongue THEN loading ELSE r.tongue
    /\ boot' = NoBoot

UploadSettings ==
    /\ saves' = saves \union Saved(settings, TRUE)
    /\ boot' = IF session = NoUser THEN NoBoot ELSE [pc |-> "put", got |-> {}]
    /\ UNCHANGED <<settings, loading>>

Bootstrap ==
    /\ boot.pc = "apply"
    /\ IF boot.got = {} THEN UploadSettings
       ELSE \E r \in boot.got, atOnce \in BOOLEAN : Apply(r, atOnce)
    /\ UNCHANGED <<general, record, armed, embedVars, badgeVars, counters>>

-----------------------------------------------------------------------------
(* Embeds.                                                                 *)

(* setAlwaysAllow: shown at once. *)
AlwaysAllow ==
    /\ UserMay("embeds") /\ session # NoUser /\ Chooses("embeds")
    /\ enabled' = clock + 1
    /\ allows' = allows \union {[of |-> session, value |-> clock + 1, stored |-> FALSE]}
    /\ UNCHANGED <<general, appVars, last, cached, embeds, refreshes, badgeVars, failures, starts>>

PutEmbeds(a, ok) ==
    /\ a \in allows /\ ~a.stored /\ (ok \/ May("unsent"))
    /\ embeds' = IF ok THEN [embeds EXCEPT ![a.of] = a.value] ELSE embeds
    /\ allows' = (allows \ {a}) \union (IF ok THEN {[a EXCEPT !.stored = TRUE]} ELSE {})
    /\ Tallies(ok)
    /\ UNCHANGED <<general, appVars, enabled, last, cached, refreshes, badgeVars, chosen,
                   clock, starts>>

(* A slip: the cache is left to the next refresh. *)
CacheLater(did, value) == UNCHANGED <<last, cached>>

CacheEmbeds(did, value) == last' = value /\ cached' = [cached EXCEPT ![did] = value]

Allowed(a) ==
    /\ a \in allows /\ a.stored
    /\ CacheEmbeds(a.of, a.value)
    /\ allows' = allows \ {a}
    /\ UNCHANGED <<general, appVars, enabled, embeds, refreshes, badgeVars, counters>>

RefreshOf(s) == IF s = NoUser THEN {} ELSE {[of |-> s, pc |-> "read", got |-> 0]}
NewRefresh == RefreshOf(session)

GetEmbeds(r, ok) ==
    /\ r \in refreshes /\ r.pc = "read" /\ (ok \/ May("unread"))
    /\ refreshes' = (refreshes \ {r}) \union
           {[r EXCEPT !.pc = "apply", !.got = IF ok THEN embeds[r.of] ELSE 0]}
    /\ Tallies(ok)
    /\ UNCHANGED <<general, appVars, enabled, last, cached, embeds, allows, badgeVars, chosen,
                   clock, starts>>

(* What the last record said stays when none could be read. *)
RefreshFromPds(r) ==
    /\ r \in refreshes /\ r.pc = "apply" /\ refreshes' = refreshes \ {r}
    /\ IF r.got # 0
       THEN /\ enabled' = r.got /\ last' = r.got
            /\ cached' = [cached EXCEPT ![r.of] = r.got]
       ELSE /\ enabled' = IF last # 0 THEN enabled ELSE 0
            /\ UNCHANGED <<last, cached>>
    /\ UNCHANGED <<general, appVars, embeds, allows, badgeVars, counters>>

-----------------------------------------------------------------------------
(* The badge and the declaration.                                          *)

(* ensureSession: the one there is, whosever, or the account's restored;   *)
(* restoring fails without a network, and for ever once the client's own   *)
(* store has lost it. *)
EnsureSession(did, ok) ==
    /\ ok \/ session = NoUser
    /\ ok => session # NoUser \/ did \in kept
    /\ session' = IF session = NoUser /\ ok THEN did ELSE session

(* SettingsBadgePage: what is declared replaces what is cached. *)
OpenBadgePage ==
    /\ "badge" \in uses /\ fetch.pc = "idle" /\ starts < MaxStarts /\ starts' = starts + 1
    /\ "hasty" \in uses \/ (Quiet /\ ("revisits" \in uses \/ declared[user] \in {None, chosen.badge}))
    /\ fetch' = [pc |-> "read", did |-> user, got |-> None]
    /\ UNCHANGED <<general, appVars, embedVars, visible, declared, keyed, verified, publishing,
                   declare, chosen, clock, failures>>

GetDeclaration(ok, restored) ==
    /\ fetch.pc = "read" /\ (ok \/ May("unread"))
    /\ EnsureSession(fetch.did, restored)
    /\ fetch' = [fetch EXCEPT !.pc = "apply",
                     !.got = IF ok /\ session' # NoUser THEN declared[session'] ELSE None]
    /\ Tallies(ok)
    /\ UNCHANGED <<uses, user, kept, appVars, embedVars, visible, declared, keyed, verified,
                   publishing, declare, chosen, clock, starts>>

RefreshBadge ==
    /\ fetch.pc = "apply" /\ fetch' = NoFetch
    /\ visible' = IF fetch.got = None THEN visible ELSE [visible EXCEPT ![fetch.did] = fetch.got]
    /\ UNCHANGED <<general, appVars, embedVars, declared, keyed, verified, publishing, declare,
                   counters>>

(* A slip: a choice is cached once it is declared. *)
NotCached(v) == UNCHANGED visible

ChoiceCached(v) == visible' = [visible EXCEPT ![user] = v]

SetShowButtonTo ==
    /\ UserMay("badge") /\ Chooses("badge")
    /\ ChoiceCached(clock + 1)
    /\ publishing' = publishing \union {[did |-> user, value |-> clock + 1]}
    /\ UNCHANGED <<general, appVars, embedVars, declared, keyed, verified, fetch, declare,
                   failures, starts>>

Declares(value) ==
    declared' = IF session' = NoUser THEN declared ELSE [declared EXCEPT ![session'] = value]

(* A failure is passed over: syncDeclaration will retry. *)
PublishChoice(p, ok, restored) ==
    /\ p \in publishing /\ publishing' = publishing \ {p} /\ (ok \/ May("unsent"))
    /\ EnsureSession(p.did, restored)
    /\ IF ok THEN Declares(p.value) ELSE UNCHANGED declared
    /\ Tallies(ok)
    /\ UNCHANGED <<uses, user, kept, appVars, embedVars, visible, keyed, verified, fetch, declare,
                   chosen, clock, starts>>

(* syncDeclaration, at a start and whenever the conversations are shown:   *)
(* a new key is published, another is checked once an hour.                *)
SyncDeclaration(restored) ==
    /\ declare.pc = "idle" /\ (user \notin keyed \/ user \notin verified)
    /\ EnsureSession(user, restored)
    /\ declare' = IF session' = NoUser THEN NoDeclare
                  ELSE [pc |-> IF user \in keyed THEN "check" ELSE "publish",
                        did |-> user, value |-> visible[user]]
    /\ UNCHANGED <<uses, user, kept, appVars, embedVars, visible, declared, keyed, verified, fetch,
                   publishing, counters>>

(* What cannot be read is published again. *)
CheckDeclaration(ok) ==
    /\ declare.pc = "check" /\ (ok \/ May("unread"))
    /\ IF ok /\ session # NoUser /\ declared[session] = declare.value
       THEN declare' = NoDeclare /\ verified' = verified \union {declare.did}
       ELSE declare' = [declare EXCEPT !.pc = "publish"] /\ UNCHANGED verified
    /\ Tallies(ok)
    /\ UNCHANGED <<general, appVars, embedVars, visible, declared, keyed, fetch, publishing,
                   chosen, clock, starts>>

PublishDeclaration(ok) ==
    /\ declare.pc = "publish" /\ declare' = NoDeclare /\ (ok \/ May("unsent"))
    /\ declared' = IF ok THEN [declared EXCEPT ![session] = declare.value] ELSE declared
    /\ keyed' = IF ok THEN keyed \union {declare.did} ELSE keyed
    /\ verified' = IF ok THEN verified \union {declare.did} ELSE verified
    /\ Tallies(ok)
    /\ UNCHANGED <<general, appVars, embedVars, visible, fetch, publishing, chosen, clock, starts>>

HourPasses ==
    /\ verified # {} /\ verified' = {}
    /\ UNCHANGED <<general, appVars, embedVars, visible, declared, keyed, fetch, publishing,
                   declare, counters>>

-----------------------------------------------------------------------------
(* Starts, accounts and other devices.                                     *)

MayStart == starts < MaxStarts /\ starts' = starts + 1 /\ ("hasty" \in uses \/ (Quiet /\ ~armed))

(* restoreSession: the cached embeds, then both records. *)
Restored(s, shown, before) ==
    /\ enabled' = IF s # NoUser /\ cached[s] # 0 THEN cached[s] ELSE shown
    /\ last' = IF s # NoUser /\ cached[s] # 0 THEN cached[s] ELSE before
    /\ boot' = IF s = NoUser THEN NoBoot ELSE [NoBoot EXCEPT !.pc = "read"]

(* The app restarts.  Its OAuth session may not be there, for now or,      *)
(* evicted, for good; or be that of the account signed in last.  The user  *)
(* who reconnects comes back with one. *)
Restart(s) ==
    /\ MayStart /\ (s # NoUser \/ May("evicted")) /\ Tallies(s # NoUser)
    /\ s \in {user, NoUser} \/ "switch" \in uses
    /\ session' = s
    /\ kept' \in IF s = NoUser THEN {kept, kept \ {user}} ELSE {kept \union {s}}
    /\ Restored(s, 0, 0)
    /\ refreshes' = RefreshOf(s)
    /\ armed' = FALSE /\ saves' = {} /\ loading' = None /\ allows' = {}
    /\ fetch' = NoFetch /\ publishing' = {} /\ declare' = NoDeclare /\ keyed' = {}
    /\ UNCHANGED <<uses, user, settings, record, cached, embeds, visible, declared, verified,
                   chosen, clock>>

(* switchAccount: the OAuth session there is stays, else the account's is  *)
(* restored. *)
Switch(u) ==
    /\ "switch" \in uses /\ u # user /\ MayStart /\ boot.pc = "idle" /\ refreshes = {}
    /\ user' = u
    /\ session' = IF session = NoUser /\ u \in kept THEN u ELSE session
    /\ Restored(session', enabled, last)
    /\ refreshes' = RefreshOf(session')
    /\ UNCHANGED <<uses, kept, settings, loading, record, armed, saves, cached, embeds, allows,
                   badgeVars, chosen, clock, failures>>

(* appStateChange *)
Foreground ==
    /\ MayStart /\ refreshes = {} /\ "embeds" \in uses
    /\ refreshes' = NewRefresh
    /\ UNCHANGED <<general, appVars, enabled, last, cached, embeds, allows, badgeVars, chosen,
                   clock, failures>>

(* Another device of the account saves its settings. *)
PeerSaves(f) ==
    /\ "peer" \in uses /\ clock < MaxClock /\ record[user] # {} /\ Chooses(f)
    /\ record' = [record EXCEPT ![user] = {[r EXCEPT ![f] = clock + 1] : r \in @}]
    /\ UNCHANGED <<general, settings, loading, boot, armed, saves, embedVars, badgeVars, failures,
                   starts>>

-----------------------------------------------------------------------------
AppStep ==
    \/ LangChange \/ SaveTimer \/ Bootstrap
    \/ \E ok \in BOOLEAN : GetAppSettings(ok) \/ \E s \in saves : PutAppSettings(s, ok)
EmbedStep ==
    \/ \E a \in allows : Allowed(a) \/ \E ok \in BOOLEAN : PutEmbeds(a, ok)
    \/ \E r \in refreshes : RefreshFromPds(r) \/ \E ok \in BOOLEAN : GetEmbeds(r, ok)
BadgeStep ==
    \/ RefreshBadge
    \/ \E ok, restored \in BOOLEAN :
          GetDeclaration(ok, restored) \/ \E p \in publishing : PublishChoice(p, ok, restored)
DeclareStep ==
    \/ \E restored \in BOOLEAN : SyncDeclaration(restored)
    \/ \E ok \in BOOLEAN : CheckDeclaration(ok) \/ PublishDeclaration(ok)

PreferencesNext ==
    \/ AppStep \/ EmbedStep \/ BadgeStep \/ DeclareStep \/ HourPasses
    \/ SetLocale \/ ToggleMute \/ AlwaysAllow \/ SetShowButtonTo \/ OpenBadgePage \/ Foreground
    \/ \E f \in SettingNames : Set(f) \/ PeerSaves(f)
    \/ \E s \in Users \union {NoUser} : Restart(s)
    \/ \E u \in Users : Switch(u)

PreferencesSpec == PreferencesInit /\ [][PreferencesNext]_preferencesVars

(* What was begun ends, hours pass, and the conversations are shown again; *)
(* a session the client still has is restored in one of these tries.  That *)
(* the user reconnects is not assumed. *)
PreferencesFairness ==
    /\ WF_preferencesVars(AppStep) /\ WF_preferencesVars(EmbedStep)
    /\ WF_preferencesVars(BadgeStep) /\ WF_preferencesVars(DeclareStep)
    /\ WF_preferencesVars(HourPasses)
PreferencesFairSpec == PreferencesSpec /\ PreferencesFairness

-----------------------------------------------------------------------------
TypeOK ==
    /\ user \in Users /\ session \in Users \union {NoUser} /\ kept \subseteq Users
    /\ settings \in [look : Times, tongue : Times, bell : Times, muted : BOOLEAN]
    /\ \A u \in Users : Cardinality(record[u]) <= 1
    /\ enabled \in Times /\ cached \in [Users -> Times] /\ visible \in [Users -> Times]
    /\ declared \in [Users -> Times \union {None}]

Undisturbed(but) == uses \subseteq Touched \union but

(* When nothing is under way, the settings are the ones last chosen, on    *)
(* the device and in the account's record.                                 *)
(* (scheduleSave, syncToPdsNow, bootstrap)                                 *)
SettingsArrive ==
    Quiet /\ ~armed /\ session # NoUser =>
        \A f \in SettingNames : settings[f] = chosen[f] /\ \A r \in record[session] : r[f] = chosen[f]

(* So it is on one device whose user waits, also when records cannot be    *)
(* read. *)
SettingsArriveCalmly == Undisturbed({"unread"}) => SettingsArrive

(* The embeds loaded are the ones last chosen, whatever is read back and   *)
(* wherever the app restarts; for the same user. (setAlwaysAllow,          *)
(* refreshFromPds, bootstrap)                                              *)
EmbedsAreChosen == Quiet => enabled = chosen.embeds
EmbedsAreChosenCalmly == Undisturbed({"unread"}) => EmbedsAreChosen

(* The visibility the user chose is declared in the end. *)
ChoiceIsDeclared == []<>(declared[user] = chosen.badge)

(* So it is though declaring it failed at first, or the session could not  *)
(* be restored for a while, unless the badge's page is opened again before *)
(* or the client has lost the session: then nothing declares it until the  *)
(* user reconnects. (setShowButtonTo, syncDeclaration, tryRestore)         *)
ChoiceIsDeclaredCalmly ==
    Undisturbed({"unread", "unsent", "evicted"})
        ~> (declared[user] = chosen.badge \/ user \notin kept)

(* A muted conversation and one no longer muted stay so. *)
MutesStay == [][settings'.muted # settings.muted => chosen'.muted # chosen.muted]_preferencesVars

(* What is written for an account goes to that account's repository. *)
OwnRepository == session \in {user, NoUser}
=============================================================================
