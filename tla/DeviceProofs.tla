---------------------------- MODULE DeviceProofs ----------------------------
(***************************************************************************)
(* Theorems about what an account's devices publish, in the account's own  *)
(* repository and on the server.                                           *)
(*                                                                         *)
(* Preferences, for any accounts and any number of choices, restarts and   *)
(* failed reads: the settings and the embeds the user chose are the ones   *)
(* in force when nothing is under way.                                     *)
(*                                                                         *)
(* Provisioning, for any set of conversations and callers and any size of  *)
(* the pool: the server's pool keeps its bound, and the new device holds   *)
(* the private half of every key package it may be sent a Welcome for,     *)
(* whoever is killed and whatever requests fail.                           *)
(***************************************************************************)
EXTENDS Provisioning, Preferences, FiniteSetTheorems, WellFoundedInduction, TLAPS

-----------------------------------------------------------------------------
(* Preferences: types of the settings, the embeds and the sessions.        *)

SettingRec == [look : Nat, tongue : Nat, bell : Nat, muted : BOOLEAN]
SaveRec == [of : Users, record : SettingRec, boots : BOOLEAN]
AllowRec == [of : Users, value : Nat, stored : BOOLEAN]
RefreshRec == [of : Users, pc : {"read", "apply"}, got : Nat]
Named == SettingNames \union {"muted", "embeds", "badge"}

UserOK == user \in Users /\ session \in Users \union {NoUser}
ChosenOK == chosen \in [Named -> Nat] /\ clock \in Nat
SettingsOK ==
    /\ settings \in SettingRec /\ loading \in Nat \union {None} /\ armed \in BOOLEAN
    /\ record \in [Users -> SUBSET SettingRec] /\ saves \subseteq SaveRec
    /\ boot \in [pc : {"idle", "read", "apply", "put"}, got : SUBSET SettingRec]
EmbedsOK ==
    /\ enabled \in Nat /\ last \in Nat /\ cached \in [Users -> Nat] /\ embeds \in [Users -> Nat]
    /\ allows \subseteq AllowRec /\ refreshes \subseteq RefreshRec
BadgeOK == fetch.did \in Users \union {NoUser} /\ \A p \in publishing : p.did \in Users

PreferenceTypes == UserOK /\ ChosenOK /\ SettingsOK /\ EmbedsOK /\ BadgeOK

LEMMA Choosing ==
    ASSUME ChosenOK, NEW what \in Named, Chooses(what)
    PROVE  /\ ChosenOK' /\ chosen'[what] = clock + 1 /\ clock + 1 \in Nat
           /\ \A c \in Named : c # what => chosen'[c] = chosen[c]
BY DEF ChosenOK, Chooses

LEMMA NamesFacts ==
    /\ "look" \in Named /\ "tongue" \in Named /\ "bell" \in Named /\ "muted" \in Named
    /\ "embeds" \in Named /\ "badge" \in Named /\ SettingNames \subseteq Named
    /\ \A f \in SettingNames : f \in {"look", "tongue", "bell"}
BY DEF Named, SettingNames

LEMMA Setting ==
    ASSUME NEW s \in SettingRec, NEW f \in SettingNames, NEW n \in Nat
    PROVE  /\ [s EXCEPT ![f] = n] \in SettingRec
           /\ [s EXCEPT ![f] = n][f] = n
           /\ \A g \in SettingNames : s[g] \in Nat /\ (g # f => [s EXCEPT ![f] = n][g] = s[g])
BY DEF SettingRec, SettingNames

LEMMA TongueSet ==
    ASSUME NEW s \in SettingRec, NEW n \in Nat
    PROVE  /\ [s EXCEPT !.tongue = n] \in SettingRec
           /\ [s EXCEPT !.tongue = n].tongue = n
           /\ [s EXCEPT !.tongue = n].look = s.look /\ [s EXCEPT !.tongue = n].bell = s.bell
BY DEF SettingRec

LEMMA MuteSet ==
    ASSUME NEW s \in SettingRec
    PROVE  /\ [s EXCEPT !.muted = ~@] \in SettingRec
           /\ \A f \in SettingNames : [s EXCEPT !.muted = ~@][f] = s[f]
BY DEF SettingRec, SettingNames

LEMMA SavedTyped ==
    ASSUME UserOK, NEW s \in SettingRec, NEW boots \in BOOLEAN
    PROVE  /\ Saved(s, boots) \subseteq SaveRec
           /\ session \in Users => Saved(s, boots) = {[of |-> session, record |-> s, boots |-> boots]}
BY PreferencesAssumption DEF Saved, UserOK, SaveRec, PreferencesAssumption

LEMMA AppliedTyped ==
    ASSUME NEW r \in SettingRec, settings \in SettingRec
    PROVE  /\ Applied(r) \in SettingRec
           /\ Applied(r).look = r.look /\ Applied(r).bell = r.bell /\ Applied(r).tongue = settings.tongue
BY DEF Applied, SettingRec

LEMMA PreferenceFrames ==
    ASSUME PreferenceTypes
    PROVE  /\ UNCHANGED <<user, session>> => UserOK'
           /\ UNCHANGED <<chosen, clock>> => ChosenOK'
           /\ UNCHANGED appVars => SettingsOK'
           /\ UNCHANGED embedVars => EmbedsOK'
           /\ UNCHANGED <<fetch, publishing>> => BadgeOK'
BY DEF PreferenceTypes, UserOK, ChosenOK, SettingsOK, EmbedsOK, BadgeOK, appVars, embedVars

LEMMA SetTypes ==
    ASSUME PreferenceTypes,
           (\E f \in SettingNames : Set(f) \/ PeerSaves(f)) \/ SetLocale \/ ToggleMute
    PROVE  PreferenceTypes'
<1>1. UNCHANGED <<user, session, fetch, publishing>> /\ UNCHANGED embedVars
    BY DEF Set, PeerSaves, SetLocale, ToggleMute, general, badgeVars
<1>2. PICK what \in Named : Chooses(what)
    BY NamesFacts DEF Set, PeerSaves, SetLocale, ToggleMute
<1>3. ChosenOK' /\ clock + 1 \in Nat
    BY <1>2, Choosing DEF PreferenceTypes
<1>4. settings \in SettingRec
    BY DEF PreferenceTypes, SettingsOK
<1>5. SettingsOK'
    <2>1. ASSUME NEW f \in SettingNames, Set(f) PROVE SettingsOK'
        <3>1. [settings EXCEPT ![f] = clock + 1] \in SettingRec
            BY <1>3, <1>4, Setting
        <3> QED
            BY <2>1, <3>1 DEF Set, ScheduleSave, PreferenceTypes, SettingsOK
    <2>2. ASSUME NEW f \in SettingNames, PeerSaves(f) PROVE SettingsOK'
        <3>1. record[user] \subseteq SettingRec /\ user \in Users
            BY DEF PreferenceTypes, SettingsOK, UserOK
        <3>2. \A r \in record[user] : [r EXCEPT ![f] = clock + 1] \in SettingRec
            BY <3>1, <1>3, Setting
        <3>3. {[r EXCEPT ![f] = clock + 1] : r \in record[user]} \in SUBSET SettingRec
            BY <3>2
        <3>4. record' = [record EXCEPT ![user] = {[r EXCEPT ![f] = clock + 1] : r \in record[user]}]
            BY <2>2 DEF PeerSaves
        <3> HIDE DEF SettingRec
        <3>5. record' \in [Users -> SUBSET SettingRec]
            BY <3>1, <3>3, <3>4 DEF PreferenceTypes, SettingsOK
        <3> QED
            BY <2>2, <3>5 DEF PeerSaves, PreferenceTypes, SettingsOK
    <2>3. CASE SetLocale
        BY <2>3, <1>3 DEF SetLocale, PreferenceTypes, SettingsOK
    <2>4. CASE ToggleMute
        BY <2>4, <1>4, MuteSet DEF ToggleMute, PreferenceTypes, SettingsOK
    <2> QED
        BY <2>1, <2>2, <2>3, <2>4
<1> QED
    BY <1>1, <1>3, <1>5, PreferenceFrames DEF PreferenceTypes

LEMMA AppTypes ==
    ASSUME PreferenceTypes, AppStep
    PROVE  PreferenceTypes'
<1>1. UNCHANGED <<user, session, fetch, publishing, chosen, clock>> /\ UNCHANGED embedVars
    BY DEF AppStep, LangChange, SaveTimer, Bootstrap, GetAppSettings, PutAppSettings, general, badgeVars, counters
<1>2. settings \in SettingRec /\ saves \subseteq SaveRec /\ record \in [Users -> SUBSET SettingRec] /\ UserOK
    BY DEF PreferenceTypes, SettingsOK
<1>3. CASE LangChange
    <2>1. loading \in Nat
        BY <1>3 DEF LangChange, PreferenceTypes, SettingsOK
    <2>2. [settings EXCEPT !.tongue = loading] \in SettingRec
        BY <2>1, <1>2, TongueSet
    <2>3. SettingsOK'
        BY <1>2, <1>3, <2>2, SavedTyped DEF LangChange, SavedNow, PreferenceTypes, SettingsOK
    <2> QED
        BY <2>3, <1>1, PreferenceFrames DEF PreferenceTypes
<1>4. CASE SaveTimer
    <2>1. SettingsOK'
        BY <1>2, <1>4, SavedTyped DEF SaveTimer, PreferenceTypes, SettingsOK
    <2> QED
        BY <2>1, <1>1, PreferenceFrames DEF PreferenceTypes
<1>5. CASE Bootstrap
    <2>1. boot' \in [pc : {"idle", "read", "apply", "put"}, got : SUBSET SettingRec]
        <3>1. boot' = NoBoot \/ boot' = [pc |-> "put", got |-> {}]
            BY <1>5 DEF Bootstrap, Apply, UploadSettings
        <3> QED
            BY <3>1 DEF NoBoot
    <2>2. settings' \in SettingRec /\ saves' \subseteq SaveRec /\ loading' \in Nat \union {None}
        <3>1. CASE boot.got = {}
            BY <3>1, <1>2, <1>5, SavedTyped DEF Bootstrap, UploadSettings, PreferenceTypes, SettingsOK
        <3>2. CASE boot.got # {}
            <4>1. PICK r \in boot.got : \E atOnce \in BOOLEAN : Apply(r, atOnce)
                BY <3>2, <1>5 DEF Bootstrap
            <4>2. PICK atOnce \in BOOLEAN : Apply(r, atOnce)
                BY <4>1
            <4>3. r \in SettingRec /\ r.look \in Nat /\ r.tongue \in Nat
                BY DEF PreferenceTypes, SettingsOK, SettingRec
            <4>4. Applied(r) \in SettingRec
                BY <4>3, <1>2, AppliedTyped
            <4>5. /\ [Applied(r) EXCEPT !.tongue = r.tongue] \in SettingRec
                  /\ [settings EXCEPT !.look = r.look, !.tongue = r.tongue] \in SettingRec
                <5>1. [Applied(r) EXCEPT !.tongue = r.tongue] \in SettingRec
                    BY <4>3, <4>4, TongueSet
                <5>2. [settings EXCEPT !.look = r.look, !.tongue = r.tongue] \in SettingRec
                    BY <4>3, <1>2 DEF SettingRec
                <5> QED
                    BY <5>1, <5>2
            <4>6. Saved([settings EXCEPT !.look = r.look, !.tongue = r.tongue], FALSE) \subseteq SaveRec
                BY <4>5, <1>2, SavedTyped
            <4> QED
                BY <4>2, <4>3, <4>4, <4>5, <4>6 DEF Apply, SavedNow, PreferenceTypes, SettingsOK
        <3> QED
            BY <3>1, <3>2
    <2>3. SettingsOK'
        BY <2>1, <2>2, <1>5 DEF Bootstrap, PreferenceTypes, SettingsOK
    <2> QED
        BY <2>3, <1>1, PreferenceFrames DEF PreferenceTypes
<1>6. ASSUME NEW ok \in BOOLEAN, GetAppSettings(ok) PROVE PreferenceTypes'
    <2>1. session # NoUser => record[session] \in SUBSET SettingRec
        BY <1>2 DEF UserOK
    <2>2. SettingsOK'
        BY <1>6, <2>1 DEF GetAppSettings, PreferenceTypes, SettingsOK
    <2> QED
        BY <2>2, <1>1, PreferenceFrames DEF PreferenceTypes
<1>7. ASSUME NEW ok \in BOOLEAN, NEW s \in saves, PutAppSettings(s, ok) PROVE PreferenceTypes'
    <2>1. s.of \in Users /\ {s.record} \in SUBSET SettingRec
        BY <1>2 DEF SaveRec
    <2>2. record' = record \/ record' = [record EXCEPT ![s.of] = {s.record}]
        BY <1>7 DEF PutAppSettings
    <2>3. record' \in [Users -> SUBSET SettingRec]
        BY <1>2, <2>1, <2>2
    <2>4. boot' = boot \/ boot' = NoBoot
        BY <1>7 DEF PutAppSettings
    <2>5. boot' \in [pc : {"idle", "read", "apply", "put"}, got : SUBSET SettingRec]
        BY <2>4 DEF NoBoot, PreferenceTypes, SettingsOK
    <2>6. SettingsOK'
        BY <1>7, <2>3, <2>5 DEF PutAppSettings, PreferenceTypes, SettingsOK
    <2> QED
        BY <2>6, <1>1, PreferenceFrames DEF PreferenceTypes
<1> QED
    BY <1>3, <1>4, <1>5, <1>6, <1>7 DEF AppStep

LEMMA EmbedTypes ==
    ASSUME PreferenceTypes, EmbedStep \/ AlwaysAllow \/ Foreground
    PROVE  PreferenceTypes'
<1>1. UNCHANGED <<user, session, fetch, publishing>> /\ UNCHANGED appVars
    BY DEF EmbedStep, Allowed, PutEmbeds, RefreshFromPds, GetEmbeds, AlwaysAllow, Foreground, general, badgeVars
<1>2. ChosenOK'
    <2>1. CASE AlwaysAllow
        BY <2>1, NamesFacts, Choosing DEF AlwaysAllow, PreferenceTypes
    <2>2. CASE EmbedStep \/ Foreground
        <3>1. UNCHANGED <<chosen, clock>>
            BY <2>2 DEF EmbedStep, Allowed, PutEmbeds, RefreshFromPds, GetEmbeds, Foreground, counters
        <3> QED
            BY <3>1, PreferenceFrames
    <2> QED
        BY <2>1, <2>2
<1>3. ASSUME NEW a \in allows, Allowed(a) PROVE EmbedsOK'
    <2>1. a.of \in Users /\ a.value \in Nat
        BY DEF PreferenceTypes, EmbedsOK, AllowRec
    <2> QED
        BY <1>3, <2>1 DEF Allowed, CacheEmbeds, PreferenceTypes, EmbedsOK
<1>4. ASSUME NEW a \in allows, NEW ok \in BOOLEAN, PutEmbeds(a, ok) PROVE EmbedsOK'
    <2>1. a.of \in Users /\ a.value \in Nat /\ [a EXCEPT !.stored = TRUE] \in AllowRec
        BY DEF PreferenceTypes, EmbedsOK, AllowRec
    <2> QED
        BY <1>4, <2>1 DEF PutEmbeds, PreferenceTypes, EmbedsOK
<1>5. ASSUME NEW r \in refreshes, RefreshFromPds(r) PROVE EmbedsOK'
    <2>1. r.of \in Users /\ r.got \in Nat
        BY DEF PreferenceTypes, EmbedsOK, RefreshRec
    <2> QED
        BY <1>5, <2>1 DEF RefreshFromPds, PreferenceTypes, EmbedsOK
<1>6. ASSUME NEW r \in refreshes, NEW ok \in BOOLEAN, GetEmbeds(r, ok) PROVE EmbedsOK'
    <2>1. r \in RefreshRec /\ embeds[r.of] \in Nat
        BY DEF PreferenceTypes, EmbedsOK, RefreshRec
    <2>2. [r EXCEPT !.pc = "apply", !.got = IF ok THEN embeds[r.of] ELSE 0] \in RefreshRec
        BY <2>1 DEF RefreshRec
    <2> QED
        BY <1>6, <2>2 DEF GetEmbeds, PreferenceTypes, EmbedsOK
<1>7. ASSUME AlwaysAllow PROVE EmbedsOK'
    <2>1. clock + 1 \in Nat /\ session \in Users
        BY <1>7 DEF AlwaysAllow, PreferenceTypes, ChosenOK, UserOK
    <2>2. [of |-> session, value |-> clock + 1, stored |-> FALSE] \in AllowRec
        BY <2>1 DEF AllowRec
    <2> QED
        <3>1. /\ UNCHANGED <<last, cached, embeds, refreshes>> /\ enabled' = clock + 1
              /\ allows' = allows \union {[of |-> session, value |-> clock + 1, stored |-> FALSE]}
            BY <1>7 DEF AlwaysAllow
        <3>2. allows \subseteq AllowRec /\ last \in Nat /\ cached \in [Users -> Nat] /\ embeds \in [Users -> Nat]
              /\ refreshes \subseteq RefreshRec
            BY DEF PreferenceTypes, EmbedsOK
        <3>3. allows' \subseteq AllowRec
            BY <3>1, <3>2, <2>2
        <3> QED
            BY <3>1, <3>2, <3>3, <2>1 DEF EmbedsOK
<1>8. ASSUME Foreground PROVE EmbedsOK'
    <2>1. NewRefresh \subseteq RefreshRec
        BY DEF NewRefresh, RefreshOf, RefreshRec, PreferenceTypes, UserOK
    <2> QED
        <3>1. UNCHANGED <<enabled, last, cached, embeds, allows>> /\ refreshes' = NewRefresh
            BY <1>8 DEF Foreground
        <3>2. allows \subseteq AllowRec /\ last \in Nat /\ cached \in [Users -> Nat] /\ embeds \in [Users -> Nat]
              /\ enabled \in Nat
            BY DEF PreferenceTypes, EmbedsOK
        <3> QED
            BY <3>1, <3>2, <2>1 DEF EmbedsOK
<1> QED
    BY <1>1, <1>2, <1>3, <1>4, <1>5, <1>6, <1>7, <1>8, PreferenceFrames DEF EmbedStep, PreferenceTypes

LEMMA BadgeTypes ==
    ASSUME PreferenceTypes, BadgeStep \/ DeclareStep \/ HourPasses \/ OpenBadgePage \/ SetShowButtonTo
    PROVE  PreferenceTypes'
<1>1. UNCHANGED user /\ UNCHANGED appVars /\ UNCHANGED embedVars
    BY DEF BadgeStep, DeclareStep, RefreshBadge, GetDeclaration, PublishChoice, OpenBadgePage, SetShowButtonTo,
       SyncDeclaration, CheckDeclaration, PublishDeclaration, HourPasses, general
<1>2. ChosenOK'
    <2>1. CASE SetShowButtonTo
        BY <2>1, NamesFacts, Choosing DEF SetShowButtonTo, PreferenceTypes
    <2>2. CASE ~SetShowButtonTo
        <3>1. UNCHANGED <<chosen, clock>>
            BY <2>2 DEF BadgeStep, DeclareStep, RefreshBadge, GetDeclaration, PublishChoice, OpenBadgePage,
               SyncDeclaration, CheckDeclaration, PublishDeclaration, HourPasses, counters
        <3> QED
            BY <3>1, PreferenceFrames
    <2> QED
        BY <2>1, <2>2
<1>3. UserOK'
    <2>1. UNCHANGED session \/ \E did \in Users \union {NoUser}, ok \in BOOLEAN : EnsureSession(did, ok)
        <3>1. user \in Users /\ fetch.did \in Users \union {NoUser} /\ \A p \in publishing : p.did \in Users
            BY DEF PreferenceTypes, UserOK, BadgeOK
        <3>2. CASE \E ok, restored \in BOOLEAN : GetDeclaration(ok, restored)
            BY <3>1, <3>2 DEF GetDeclaration
        <3>3. CASE \E ok, restored \in BOOLEAN, p \in publishing : PublishChoice(p, ok, restored)
            BY <3>1, <3>3 DEF PublishChoice
        <3>4. CASE \E restored \in BOOLEAN : SyncDeclaration(restored)
            BY <3>1, <3>4 DEF SyncDeclaration
        <3>5. CASE RefreshBadge \/ OpenBadgePage \/ SetShowButtonTo \/ HourPasses
                   \/ \E ok \in BOOLEAN : CheckDeclaration(ok) \/ PublishDeclaration(ok)
            BY <3>5 DEF RefreshBadge, OpenBadgePage, SetShowButtonTo, HourPasses, CheckDeclaration,
               PublishDeclaration, general
        <3> QED
            BY <3>2, <3>3, <3>4, <3>5 DEF BadgeStep, DeclareStep
    <2> QED
        BY <2>1, <1>1 DEF EnsureSession, PreferenceTypes, UserOK
<1>4. BadgeOK'
    <2>1. user \in Users /\ fetch.did \in Users \union {NoUser} /\ \A p \in publishing : p.did \in Users
        BY DEF PreferenceTypes, UserOK, BadgeOK
    <2>2. fetch'.did \in {fetch.did, user, NoUser}
        <3>1. /\ NoFetch.did = NoUser
              /\ [pc |-> "read", did |-> user, got |-> None].did = user
            BY DEF NoFetch
        <3>2. CASE \E ok, restored \in BOOLEAN : GetDeclaration(ok, restored)
            <4>1. \A x, y : [fetch EXCEPT !.pc = x, !.got = y].did = fetch.did
                OBVIOUS
            <4>2. PICK ok \in BOOLEAN, restored \in BOOLEAN : GetDeclaration(ok, restored)
                BY <3>2
            <4> QED
                BY <4>1, <4>2 DEF GetDeclaration
        <3>3. CASE \E ok, restored \in BOOLEAN, p \in publishing : PublishChoice(p, ok, restored)
            BY <3>3 DEF PublishChoice
        <3>4. CASE DeclareStep \/ HourPasses \/ SetShowButtonTo
            BY <3>4 DEF DeclareStep, HourPasses, SetShowButtonTo, SyncDeclaration, CheckDeclaration, PublishDeclaration
        <3>5. CASE RefreshBadge
            BY <3>1, <3>5 DEF RefreshBadge
        <3>6. CASE OpenBadgePage
            BY <3>1, <3>6 DEF OpenBadgePage
        <3> QED
            BY <3>2, <3>3, <3>4, <3>5, <3>6 DEF BadgeStep
    <2>3. \A p \in publishing' : p.did \in Users
        <3>1. publishing' \subseteq publishing \/ publishing' = publishing \union {[did |-> user, value |-> clock + 1]}
            BY DEF BadgeStep, DeclareStep, RefreshBadge, GetDeclaration, PublishChoice, OpenBadgePage, SetShowButtonTo,
               SyncDeclaration, CheckDeclaration, PublishDeclaration, HourPasses
        <3> QED
            BY <3>1, <2>1
    <2> QED
        BY <2>1, <2>2, <2>3 DEF BadgeOK
<1> QED
    BY <1>1, <1>2, <1>3, <1>4, PreferenceFrames DEF PreferenceTypes

LEMMA StartTypes ==
    ASSUME PreferenceTypes,
           (\E s \in Users \union {NoUser} : Restart(s)) \/ (\E u \in Users : Switch(u))
    PROVE  PreferenceTypes'
<1>1. ChosenOK'
    BY PreferenceFrames DEF Restart, Switch
<1>2. UserOK'
    BY DEF Restart, Switch, PreferenceTypes, UserOK
<1>3. ASSUME NEW s \in Users \union {NoUser}, Restart(s) PROVE PreferenceTypes'
    <2>1. enabled' \in Nat /\ last' \in Nat /\ boot' \in [pc : {"idle", "read", "apply", "put"}, got : SUBSET SettingRec]
        BY <1>3 DEF Restart, Restored, NoBoot, PreferenceTypes, EmbedsOK
    <2>2. refreshes' \subseteq RefreshRec
        BY <1>3 DEF Restart, RefreshOf, RefreshRec
    <2>3. EmbedsOK' /\ SettingsOK' /\ BadgeOK'
        BY <1>3, <2>1, <2>2 DEF Restart, PreferenceTypes, EmbedsOK, SettingsOK, BadgeOK, NoFetch
    <2> QED
        BY <1>1, <1>2, <2>3 DEF PreferenceTypes
<1>4. ASSUME NEW u \in Users, Switch(u) PROVE PreferenceTypes'
    <2>1. session' \in Users \union {NoUser}
        BY <1>4 DEF Switch, PreferenceTypes, UserOK
    <2>2. enabled' \in Nat /\ last' \in Nat /\ boot' \in [pc : {"idle", "read", "apply", "put"}, got : SUBSET SettingRec]
        BY <1>4, <2>1 DEF Switch, Restored, NoBoot, PreferenceTypes, EmbedsOK
    <2>3. refreshes' \subseteq RefreshRec
        BY <1>4, <2>1 DEF Switch, RefreshOf, RefreshRec
    <2>4. EmbedsOK' /\ SettingsOK' /\ BadgeOK'
        BY <1>4, <2>2, <2>3 DEF Switch, PreferenceTypes, EmbedsOK, SettingsOK, BadgeOK, badgeVars
    <2> QED
        BY <1>1, <1>2, <2>4 DEF PreferenceTypes
<1> QED
    BY <1>3, <1>4

LEMMA PreferencesStart == PreferencesInit => PreferenceTypes
<1> SUFFICES ASSUME PreferencesInit PROVE PreferenceTypes
    OBVIOUS
<1>1. UserOK /\ BadgeOK
    BY DEF PreferencesInit, UserOK, BadgeOK, NoFetch
<1>2. ChosenOK
    BY DEF PreferencesInit, ChosenOK, Named
<1>3. SettingsOK
    BY DEF PreferencesInit, SettingsOK, SettingRec, NoBoot
<1>4. EmbedsOK
    BY DEF PreferencesInit, EmbedsOK
<1> QED
    BY <1>1, <1>2, <1>3, <1>4 DEF PreferenceTypes

LEMMA PreferenceTypesHold ==
    ASSUME PreferenceTypes, [PreferencesNext]_preferencesVars
    PROVE  PreferenceTypes'
<1>1. CASE UNCHANGED preferencesVars
    BY <1>1, PreferenceFrames DEF preferencesVars, general, badgeVars, counters, PreferenceTypes
<1>2. CASE PreferencesNext
    BY <1>2, SetTypes, AppTypes, EmbedTypes, BadgeTypes, StartTypes DEF PreferencesNext
<1> QED
    BY <1>1, <1>2

-----------------------------------------------------------------------------
(* Preferences: one device whose user waits, and whose reads may fail.     *)
(* What is on the device is what was chosen, up to the language being      *)
(* loaded; what is being saved is what is on the device; and when nothing  *)
(* waits to be saved the record says the same.                             *)

Waits == Undisturbed({"unread"})

SettingsChosen ==
    /\ boot.pc # "idle" => ~armed /\ loading = None
    /\ boot.pc \in {"read", "apply"} => saves = {}
    /\ boot.pc = "apply" => boot.got \subseteq record[user]
    /\ loading # None => ~armed /\ saves = {} /\ loading = chosen.tongue
    /\ settings.look = chosen.look /\ settings.bell = chosen.bell
    /\ loading = None => settings.tongue = chosen.tongue
    /\ \A s \in saves : s.of = user /\ \A f \in SettingNames : s.record[f] = settings[f]
    /\ ~armed /\ saves = {} /\ loading = None =>
           \A r \in record[user] : \A f \in SettingNames : r[f] = chosen[f]

EmbedsChosen ==
    /\ enabled = chosen.embeds
    /\ \A a \in allows : /\ a.of = user /\ a.value = chosen.embeds
                         /\ a.stored => embeds[user] = chosen.embeds
    /\ allows = {} => embeds[user] = chosen.embeds /\ last = chosen.embeds /\ cached[user] = chosen.embeds
    /\ allows = {} \/ refreshes = {}
    /\ \A r \in refreshes : r.of = user /\ (r.pc = "apply" => r.got \in {0, embeds[user]})

AsChosen == session = user /\ SettingsChosen /\ EmbedsChosen
PreferencesCalmInv == Waits => AsChosen

LEMMA WaitsMeans ==
    ASSUME Waits
    PROVE  /\ "hasty" \notin uses /\ "peer" \notin uses /\ "switch" \notin uses
           /\ "unsent" \notin uses /\ "evicted" \notin uses
           /\ ~May("unsent") /\ ~May("evicted")
           /\ \A what : UserMay(what) => Quiet
           /\ MayStart => Quiet /\ ~armed
BY DEF Waits, Undisturbed, Touched, May, UserMay, MayStart

LEMMA WaitsFrames ==
    ASSUME AsChosen, UNCHANGED user
    PROVE  /\ UNCHANGED appVars /\ chosen'.look = chosen.look /\ chosen'.tongue = chosen.tongue
                                /\ chosen'.bell = chosen.bell => SettingsChosen'
           /\ UNCHANGED embedVars /\ chosen'.embeds = chosen.embeds => EmbedsChosen'
<1>1. ASSUME UNCHANGED appVars, chosen'.look = chosen.look, chosen'.tongue = chosen.tongue,
             chosen'.bell = chosen.bell
      PROVE  SettingsChosen'
    <2>1. UNCHANGED <<settings, loading, record, boot, armed, saves>>
        BY <1>1 DEF appVars
    <2>2. \A f \in SettingNames : chosen'[f] = chosen[f]
        BY <1>1 DEF SettingNames
    <2> QED
        BY <1>1, <2>1, <2>2 DEF AsChosen, SettingsChosen
<1>2. ASSUME UNCHANGED embedVars, chosen'.embeds = chosen.embeds
      PROVE  EmbedsChosen'
    BY <1>2 DEF embedVars, AsChosen, EmbedsChosen
<1> QED
    BY <1>1, <1>2

LEMMA QuietSettings ==
    ASSUME Quiet, AsChosen
    PROVE  /\ boot.pc = "idle" /\ saves = {} /\ loading = None /\ allows = {} /\ refreshes = {}
           /\ settings.look = chosen.look /\ settings.bell = chosen.bell /\ settings.tongue = chosen.tongue
BY DEF Quiet, AsChosen, SettingsChosen

LEMMA UserSets ==
    ASSUME PreferenceTypes, Waits, AsChosen,
           (\E f \in SettingNames : Set(f) \/ PeerSaves(f)) \/ SetLocale \/ ToggleMute
    PROVE  AsChosen'
<1>1. UNCHANGED <<user, session>> /\ UNCHANGED embedVars /\ ~(\E f \in SettingNames : PeerSaves(f))
    BY WaitsMeans DEF Set, PeerSaves, SetLocale, ToggleMute, general
<1>2. Quiet
    BY <1>1, WaitsMeans DEF Set, SetLocale, ToggleMute
<1>3. /\ boot.pc = "idle" /\ saves = {} /\ loading = None
      /\ settings.look = chosen.look /\ settings.bell = chosen.bell /\ settings.tongue = chosen.tongue
      /\ settings \in SettingRec /\ ChosenOK
    BY <1>2, QuietSettings DEF PreferenceTypes, SettingsOK
<1>4. ASSUME NEW what \in Named, Chooses(what), what # "embeds"
      PROVE  EmbedsChosen'
    <2>1. chosen'.embeds = chosen.embeds
        BY <1>3, <1>4, Choosing, NamesFacts
    <2> QED
        BY <2>1, <1>1, WaitsFrames
<1>5. ASSUME NEW f \in SettingNames, Set(f) PROVE AsChosen'
    <2>1. f \in {"look", "bell"} /\ f \in Named /\ f # "embeds" /\ Chooses(f)
        BY <1>5, NamesFacts DEF Set
    <2>2. settings' = [settings EXCEPT ![f] = clock + 1] /\ armed' /\ UNCHANGED <<loading, record, boot, saves>>
        BY <1>3, <1>5 DEF Set, ScheduleSave
    <2>3. \A g \in SettingNames : settings'[g] = chosen'[g]
        BY <1>3, <2>1, <2>2, Choosing, Setting, NamesFacts
    <2>4. SettingsChosen'
        BY <1>3, <2>2, <2>3 DEF SettingsChosen, SettingNames
    <2> QED
        BY <1>1, <1>4, <2>1, <2>4 DEF AsChosen
<1>6. CASE SetLocale
    <2>1. Chooses("tongue") /\ loading' = clock + 1 /\ ~armed /\ UNCHANGED <<settings, record, boot, armed, saves>>
        BY <1>6, WaitsMeans DEF SetLocale
    <2>2. chosen'.tongue = clock + 1 /\ chosen'.look = chosen.look /\ chosen'.bell = chosen.bell
          /\ clock + 1 # None
        BY <1>3, <2>1, Choosing, NamesFacts DEF None, ChosenOK
    <2>3. SettingsChosen'
        BY <1>3, <2>1, <2>2 DEF SettingsChosen
    <2> QED
        BY <1>1, <1>4, <2>1, <2>3, NamesFacts DEF AsChosen
<1>7. CASE ToggleMute
    <2>1. Chooses("muted") /\ UNCHANGED <<loading, record, boot, armed, saves>>
          /\ settings' = [settings EXCEPT !.muted = ~@]
        BY <1>7 DEF ToggleMute
    <2>2. \A f \in SettingNames : settings'[f] = settings[f] /\ chosen'[f] = chosen[f]
        BY <1>3, <2>1, MuteSet, Choosing, NamesFacts
    <2>3. settings'.look = settings.look /\ settings'.bell = settings.bell /\ settings'.tongue = settings.tongue
          /\ chosen'.look = chosen.look /\ chosen'.bell = chosen.bell /\ chosen'.tongue = chosen.tongue
        BY <2>2 DEF SettingNames
    <2>4. SettingsChosen'
        BY <1>1, <1>3, <2>1, <2>2, <2>3 DEF AsChosen, SettingsChosen
    <2> QED
        BY <1>1, <1>4, <2>1, <2>4, NamesFacts DEF AsChosen
<1> QED
    BY <1>1, <1>5, <1>6, <1>7

LEMMA SavesNow ==
    ASSUME PreferenceTypes, AsChosen, NEW s \in SettingRec, NEW boots \in BOOLEAN
    PROVE  Saved(s, boots) # {} /\ \A x \in Saved(s, boots) : x.of = user /\ x.record = s
<1>1. UserOK /\ session \in Users
    BY DEF PreferenceTypes, UserOK, AsChosen
<1>2. Saved(s, boots) = {[of |-> user, record |-> s, boots |-> boots]}
    BY <1>1, SavedTyped DEF AsChosen
<1>3. /\ [of |-> user, record |-> s, boots |-> boots].of = user
      /\ [of |-> user, record |-> s, boots |-> boots].record = s
    OBVIOUS
<1> QED
    BY <1>2, <1>3

LEMMA AppKeeps ==
    ASSUME PreferenceTypes, Waits, AsChosen, AppStep
    PROVE  AsChosen'
<1>1. UNCHANGED <<user, session, chosen>> /\ UNCHANGED embedVars
    BY DEF AppStep, LangChange, SaveTimer, Bootstrap, GetAppSettings, PutAppSettings, general, counters
<1>2. EmbedsChosen' /\ session' = user'
    BY <1>1, WaitsFrames DEF AsChosen
<1>3. settings \in SettingRec /\ user \in Users /\ record[user] \subseteq SettingRec
    BY DEF PreferenceTypes, SettingsOK, UserOK
<1>4. CASE LangChange
    <2> DEFINE s == [settings EXCEPT !.tongue = loading]
    <2>1. /\ loading # None /\ loading \in Nat /\ saves = {} /\ ~armed /\ loading = chosen.tongue
          /\ boot.pc = "idle"
        BY <1>4 DEF LangChange, AsChosen, SettingsChosen, PreferenceTypes, SettingsOK
    <2>2. s \in SettingRec /\ s.tongue = loading /\ s.look = settings.look /\ s.bell = settings.bell
        BY <2>1, <1>3, TongueSet
    <2>3. settings' = s /\ loading' = None /\ UNCHANGED <<record, boot, armed>> /\ saves' = saves \union Saved(s, FALSE)
        BY <1>4 DEF LangChange, SavedNow
    <2> HIDE DEF s
    <2>4. Saved(s, FALSE) # {} /\ \A x \in Saved(s, FALSE) : x.of = user /\ x.record = s
        BY <2>2, SavesNow
    <2>5. saves' # {} /\ \A x \in saves' : x.of = user /\ x.record = settings'
        BY <2>1, <2>3, <2>4
    <2>6. settings'.look = chosen.look /\ settings'.bell = chosen.bell /\ settings'.tongue = chosen.tongue
        BY <2>1, <2>2, <2>3 DEF AsChosen, SettingsChosen
    <2>7. SettingsChosen'
        BY <1>1, <2>1, <2>3, <2>5, <2>6 DEF SettingsChosen
    <2> QED
        BY <1>2, <2>7 DEF AsChosen
<1>5. CASE SaveTimer
    <2>1. armed /\ ~armed' /\ saves' = saves \union Saved(settings, FALSE) /\ UNCHANGED <<settings, loading, record, boot>>
        BY <1>5 DEF SaveTimer
    <2>2. Saved(settings, FALSE) # {} /\ \A x \in Saved(settings, FALSE) : x.of = user /\ x.record = settings
        BY <1>3, SavesNow
    <2>3. boot.pc = "idle" /\ loading = None
        BY <2>1 DEF AsChosen, SettingsChosen
    <2>4. saves' # {} /\ \A x \in saves' : x \in saves \/ (x.of = user /\ x.record = settings)
        BY <2>1, <2>2
    <2>5. SettingsChosen'
        BY <1>1, <2>1, <2>3, <2>4 DEF AsChosen, SettingsChosen
    <2> QED
        BY <1>2, <2>5 DEF AsChosen
<1>6. CASE Bootstrap
    <2>1. /\ boot.pc = "apply" /\ ~armed /\ loading = None /\ saves = {} /\ boot.got \subseteq record[user]
          /\ UNCHANGED <<record, armed>>
          /\ settings.look = chosen.look /\ settings.bell = chosen.bell /\ settings.tongue = chosen.tongue
        BY <1>6 DEF Bootstrap, AsChosen, SettingsChosen
    <2>2. CASE boot.got = {}
        <3>1. /\ UNCHANGED <<settings, loading>> /\ saves' = saves \union Saved(settings, TRUE)
              /\ boot' = [pc |-> "put", got |-> {}]
            <4>1. session # NoUser
                BY <1>3, PreferencesAssumption DEF AsChosen, PreferencesAssumption
            <4> QED
                BY <4>1, <2>2, <1>6 DEF Bootstrap, UploadSettings
        <3>4. Saved(settings, TRUE) # {} /\ \A x \in Saved(settings, TRUE) : x.of = user /\ x.record = settings
            BY <1>3, SavesNow
        <3>2. boot'.pc = "put" /\ saves' # {} /\ \A x \in saves' : x.of = user /\ x.record = settings
              /\ UNCHANGED <<settings, loading>>
            BY <2>1, <3>1, <3>4
        <3>3. SettingsChosen'
            BY <1>1, <2>1, <3>2 DEF SettingsChosen
        <3> QED
            BY <1>2, <3>3 DEF AsChosen
    <2>3. CASE boot.got # {}
        <3>1. PICK r \in boot.got : \E atOnce \in BOOLEAN : Apply(r, atOnce)
            BY <2>3, <1>6 DEF Bootstrap
        <3>2. PICK atOnce \in BOOLEAN : Apply(r, atOnce)
            BY <3>1
        <3>3. r \in SettingRec /\ r \in record[user] /\ \A f \in SettingNames : r[f] = chosen[f]
            BY <1>3, <2>1 DEF AsChosen, SettingsChosen
        <3>4. r.look = chosen.look /\ r.bell = chosen.bell /\ r.tongue = settings.tongue
            BY <3>3, <2>1 DEF SettingNames
        <3>5. settings' = Applied(r) /\ UNCHANGED <<saves, loading>> /\ boot' = NoBoot
            BY <3>2, <3>4 DEF Apply
        <3>6. settings'.look = chosen.look /\ settings'.bell = chosen.bell /\ settings'.tongue = chosen.tongue
            BY <1>3, <2>1, <3>3, <3>4, <3>5, AppliedTyped
        <3>7. boot'.pc = "idle"
            BY <3>5 DEF NoBoot
        <3>8. SettingsChosen'
            BY <1>1, <2>1, <3>5, <3>6, <3>7 DEF AsChosen, SettingsChosen
        <3> QED
            BY <1>2, <3>8 DEF AsChosen
    <2> QED
        BY <2>2, <2>3
<1>7. ASSUME NEW ok \in BOOLEAN, GetAppSettings(ok) PROVE AsChosen'
    <2>1. boot.pc = "read" /\ boot'.pc = "apply" /\ boot'.got \in {record[user], {}}
          /\ UNCHANGED <<settings, loading, record, armed, saves>>
        BY <1>7 DEF GetAppSettings, AsChosen
    <2>2. SettingsChosen'
        BY <1>1, <2>1 DEF AsChosen, SettingsChosen
    <2> QED
        BY <1>2, <2>2 DEF AsChosen
<1>8. ASSUME NEW ok \in BOOLEAN, NEW s \in saves, PutAppSettings(s, ok) PROVE AsChosen'
    <2>1. ok
        BY <1>8, WaitsMeans DEF PutAppSettings
    <2>2. /\ s.of = user /\ \A f \in SettingNames : s.record[f] = settings[f]
          /\ loading = None /\ boot.pc \notin {"read", "apply"}
          /\ settings.look = chosen.look /\ settings.bell = chosen.bell /\ settings.tongue = chosen.tongue
        BY DEF AsChosen, SettingsChosen
    <2>3. record' = [record EXCEPT ![user] = {s.record}] /\ record'[user] = {s.record}
          /\ saves' \subseteq saves /\ UNCHANGED <<settings, loading, armed>>
        BY <1>3, <1>8, <2>1, <2>2 DEF PutAppSettings, PreferenceTypes, SettingsOK
    <2>4. boot' = boot \/ boot'.pc = "idle"
        BY <1>8 DEF PutAppSettings, NoBoot
    <2>5. \A f \in SettingNames : s.record[f] = chosen[f]
        BY <2>2 DEF SettingNames
    <2>6. SettingsChosen'
        BY <1>1, <2>2, <2>3, <2>4, <2>5 DEF AsChosen, SettingsChosen
    <2> QED
        BY <1>2, <2>6 DEF AsChosen
<1> QED
    BY <1>4, <1>5, <1>6, <1>7, <1>8 DEF AppStep

LEMMA EmbedsKeep ==
    ASSUME PreferenceTypes, Waits, AsChosen, EmbedStep \/ AlwaysAllow \/ Foreground
    PROVE  AsChosen'
<1>1. UNCHANGED <<user, session>> /\ UNCHANGED appVars /\ user \in Users
      /\ cached \in [Users -> Nat] /\ embeds \in [Users -> Nat]
    BY DEF EmbedStep, Allowed, PutEmbeds, RefreshFromPds, GetEmbeds, AlwaysAllow, Foreground, general,
       PreferenceTypes, UserOK, EmbedsOK
<1>2. SettingsChosen'
    <2>1. chosen'.look = chosen.look /\ chosen'.tongue = chosen.tongue /\ chosen'.bell = chosen.bell
        <3>1. CASE AlwaysAllow
            <4>1. Chooses("embeds") /\ ChosenOK
                BY <3>1 DEF AlwaysAllow, PreferenceTypes
            <4> QED
                BY <4>1, NamesFacts, Choosing
        <3>2. CASE EmbedStep \/ Foreground
            BY <3>2 DEF EmbedStep, Allowed, PutEmbeds, RefreshFromPds, GetEmbeds, Foreground, counters
        <3> QED
            BY <3>1, <3>2
    <2> QED
        BY <2>1, <1>1, WaitsFrames
<1>3. ASSUME NEW a \in allows, Allowed(a) PROVE EmbedsChosen'
    <2>1. a.of = user /\ a.value = chosen.embeds /\ embeds[user] = chosen.embeds /\ refreshes = {}
        BY <1>3 DEF Allowed, AsChosen, EmbedsChosen
    <2>2. /\ last' = chosen.embeds /\ cached' = [cached EXCEPT ![user] = chosen.embeds]
          /\ allows' \subseteq allows /\ UNCHANGED <<chosen, enabled, embeds, refreshes>>
        BY <1>3, <2>1 DEF Allowed, CacheEmbeds, counters
    <2>3. cached'[user] = chosen.embeds
        BY <1>1, <2>2
    <2> QED
        BY <1>1, <2>1, <2>2, <2>3 DEF AsChosen, EmbedsChosen
<1>4. ASSUME NEW a \in allows, NEW ok \in BOOLEAN, PutEmbeds(a, ok) PROVE EmbedsChosen'
    <2>1. ok /\ a.of = user /\ a.value = chosen.embeds /\ refreshes = {} /\ a \in AllowRec
        BY <1>4, WaitsMeans DEF PutEmbeds, AsChosen, EmbedsChosen, PreferenceTypes, EmbedsOK
    <2> DEFINE b == [a EXCEPT !.stored = TRUE]
    <2>2. /\ embeds' = [embeds EXCEPT ![user] = chosen.embeds] /\ UNCHANGED <<chosen, enabled, last, cached, refreshes>>
          /\ allows' = (allows \ {a}) \union {b}
        BY <1>4, <2>1 DEF PutEmbeds
    <2>3. b.of = user /\ b.value = chosen.embeds /\ b.stored
        BY <2>1 DEF AllowRec
    <2>4. embeds'[user] = chosen.embeds
        BY <1>1, <2>2
    <2> HIDE DEF b
    <2>5. allows' # {} /\ \A x \in allows' : x \in allows \/ x = b
        BY <2>2
    <2>6. \A x \in allows' : x.of = user /\ x.value = chosen.embeds
        BY <2>3, <2>5 DEF AsChosen, EmbedsChosen
    <2> QED
        BY <1>1, <2>1, <2>2, <2>4, <2>5, <2>6 DEF AsChosen, EmbedsChosen
<1>5. ASSUME NEW r \in refreshes, RefreshFromPds(r) PROVE EmbedsChosen'
    <2>1. /\ allows = {} /\ embeds[user] = chosen.embeds /\ last = chosen.embeds /\ cached[user] = chosen.embeds
          /\ enabled = chosen.embeds /\ r.of = user /\ r.got \in {0, embeds[user]}
        BY <1>5 DEF RefreshFromPds, AsChosen, EmbedsChosen
    <2>2. enabled' = chosen.embeds /\ last' = chosen.embeds /\ cached'[user] = chosen.embeds
        BY <1>1, <1>5, <2>1 DEF RefreshFromPds
    <2>3. refreshes' \subseteq refreshes /\ UNCHANGED <<chosen, embeds, allows>>
        BY <1>5 DEF RefreshFromPds, counters
    <2> QED
        BY <1>1, <2>1, <2>2, <2>3 DEF AsChosen, EmbedsChosen
<1>6. ASSUME NEW r \in refreshes, NEW ok \in BOOLEAN, GetEmbeds(r, ok) PROVE EmbedsChosen'
    <2> DEFINE q == [r EXCEPT !.pc = "apply", !.got = IF ok THEN embeds[r.of] ELSE 0]
    <2>1. allows = {} /\ r.of = user /\ r \in RefreshRec
        BY DEF AsChosen, EmbedsChosen, PreferenceTypes, EmbedsOK
    <2>2. q.of = user /\ q.got \in {0, embeds[user]}
        BY <2>1 DEF RefreshRec
    <2>3. refreshes' = (refreshes \ {r}) \union {q} /\ UNCHANGED <<chosen, enabled, last, cached, embeds, allows>>
        BY <1>6 DEF GetEmbeds
    <2> HIDE DEF q
    <2>4. \A x \in refreshes' : x.of = user /\ (x.pc = "apply" => x.got \in {0, embeds[user]})
        BY <2>2, <2>3 DEF AsChosen, EmbedsChosen
    <2> QED
        BY <1>1, <2>1, <2>3, <2>4 DEF AsChosen, EmbedsChosen
<1>7. ASSUME AlwaysAllow PROVE EmbedsChosen'
    <2> DEFINE n == [of |-> user, value |-> clock + 1, stored |-> FALSE]
    <2>1. allows = {} /\ refreshes = {} /\ Chooses("embeds")
        BY <1>7, WaitsMeans, QuietSettings DEF AlwaysAllow
    <2>2. chosen'.embeds = clock + 1
        BY <2>1, NamesFacts, Choosing DEF PreferenceTypes
    <2>3. enabled' = clock + 1 /\ allows' = {n} /\ UNCHANGED refreshes
        BY <1>7, <2>1 DEF AlwaysAllow, AsChosen
    <2>4. n.of = user /\ n.value = clock + 1 /\ ~n.stored
        OBVIOUS
    <2> HIDE DEF n
    <2>5. allows' # {} /\ \A x \in allows' : x.of = user' /\ x.value = chosen'.embeds /\ ~x.stored
        BY <1>1, <2>2, <2>3, <2>4
    <2> QED
        BY <2>1, <2>2, <2>3, <2>5 DEF EmbedsChosen
<1>8. ASSUME Foreground PROVE EmbedsChosen'
    <2>1. allows = {} /\ UNCHANGED <<chosen, enabled, last, cached, embeds, allows>> /\ refreshes' = NewRefresh
        BY <1>8, WaitsMeans, QuietSettings DEF Foreground
    <2>2. \A x \in NewRefresh : x.of = user /\ x.pc = "read"
        BY DEF NewRefresh, RefreshOf, AsChosen
    <2> QED
        BY <1>1, <2>1, <2>2 DEF AsChosen, EmbedsChosen
<1> QED
    BY <1>1, <1>2, <1>3, <1>4, <1>5, <1>6, <1>7, <1>8 DEF EmbedStep, AsChosen

LEMMA BadgeKeeps ==
    ASSUME PreferenceTypes, Waits, AsChosen,
           BadgeStep \/ DeclareStep \/ HourPasses \/ OpenBadgePage \/ SetShowButtonTo
    PROVE  AsChosen'
<1>1. UNCHANGED user /\ UNCHANGED appVars /\ UNCHANGED embedVars
    BY DEF BadgeStep, DeclareStep, RefreshBadge, GetDeclaration, PublishChoice, OpenBadgePage, SetShowButtonTo,
       SyncDeclaration, CheckDeclaration, PublishDeclaration, HourPasses, general
<1>2. \A c \in Named : c # "badge" => chosen'[c] = chosen[c]
    <2>1. CASE SetShowButtonTo
        <3>1. Chooses("badge") /\ ChosenOK
            BY <2>1 DEF SetShowButtonTo, PreferenceTypes
        <3> QED
            BY <3>1, NamesFacts, Choosing
    <2>2. CASE ~SetShowButtonTo
        BY <2>2 DEF BadgeStep, DeclareStep, RefreshBadge, GetDeclaration, PublishChoice, OpenBadgePage,
           SyncDeclaration, CheckDeclaration, PublishDeclaration, HourPasses, counters
    <2> QED
        BY <2>1, <2>2
<1>3. session' = session
    <2>1. session # NoUser
        BY PreferencesAssumption DEF AsChosen, PreferenceTypes, UserOK, PreferencesAssumption
    <2>2. session' = session \/ \E did, ok : EnsureSession(did, ok)
        BY DEF BadgeStep, DeclareStep, RefreshBadge, GetDeclaration, PublishChoice, OpenBadgePage, SetShowButtonTo,
           SyncDeclaration, CheckDeclaration, PublishDeclaration, HourPasses, general
    <2> QED
        BY <2>1, <2>2 DEF EnsureSession
<1>4. SettingsChosen' /\ EmbedsChosen'
    BY <1>1, <1>2, WaitsFrames, NamesFacts
<1> QED
    BY <1>1, <1>3, <1>4 DEF AsChosen

LEMMA StartKeeps ==
    ASSUME PreferenceTypes, Waits, AsChosen, NEW s \in Users \union {NoUser}, Restart(s)
    PROVE  AsChosen'
<1>1. s = user /\ session' = user /\ UNCHANGED <<user, settings, record, cached, embeds, chosen>>
    BY WaitsMeans DEF Restart
<1>2. Quiet /\ ~armed /\ s # NoUser
    BY <1>1, WaitsMeans, PreferencesAssumption
    DEF Restart, AsChosen, PreferenceTypes, UserOK, PreferencesAssumption
<1>3. /\ saves = {} /\ loading = None /\ allows = {} /\ settings.look = chosen.look
      /\ settings.bell = chosen.bell /\ settings.tongue = chosen.tongue
    BY <1>2, QuietSettings
<1>4. ~armed' /\ saves' = {} /\ loading' = None /\ allows' = {} /\ boot'.pc = "read"
    BY <1>1, <1>2 DEF Restart, Restored, NoBoot
<1>5. SettingsChosen'
    BY <1>1, <1>2, <1>3, <1>4 DEF AsChosen, SettingsChosen
<1>6. embeds[user] = chosen.embeds /\ cached[user] = chosen.embeds
    BY <1>3 DEF AsChosen, EmbedsChosen
<1>7. enabled' = chosen.embeds /\ last' = chosen.embeds
    BY <1>1, <1>2, <1>6 DEF Restart, Restored
<1>8. \A x \in refreshes' : x.of = user /\ x.pc = "read"
    BY <1>1, <1>2 DEF Restart, RefreshOf
<1>9. EmbedsChosen'
    BY <1>1, <1>4, <1>6, <1>7, <1>8 DEF EmbedsChosen
<1> QED
    BY <1>1, <1>5, <1>9 DEF AsChosen

LEMMA CalmStart == PreferencesInit => PreferencesCalmInv
<1> SUFFICES ASSUME PreferencesInit PROVE AsChosen
    BY DEF PreferencesCalmInv
<1>1. SettingsChosen
    <2>1. \A u \in Users : record[u] = {}
        BY DEF PreferencesInit
    <2>2. chosen.look = 0 /\ chosen.tongue = 0 /\ chosen.bell = 0
        BY DEF PreferencesInit, SettingNames
    <2>3. user \in Users /\ settings.look = 0 /\ settings.tongue = 0 /\ settings.bell = 0
          /\ boot.pc = "read" /\ ~armed /\ loading = None /\ saves = {}
        BY DEF PreferencesInit, NoBoot
    <2> QED
        BY <2>1, <2>2, <2>3 DEF SettingsChosen
<1>2. EmbedsChosen
    BY DEF PreferencesInit, EmbedsChosen
<1> QED
    BY <1>1, <1>2 DEF AsChosen, PreferencesInit

LEMMA UsesStay ==
    ASSUME [PreferencesNext]_preferencesVars
    PROVE  uses' = uses
<1>1. CASE UNCHANGED preferencesVars
    BY <1>1 DEF preferencesVars, general
<1>2. CASE AppStep \/ EmbedStep
    BY <1>2 DEF AppStep, LangChange, SaveTimer, Bootstrap, GetAppSettings, PutAppSettings,
       EmbedStep, Allowed, PutEmbeds, RefreshFromPds, GetEmbeds, general
<1>3. CASE BadgeStep \/ DeclareStep \/ HourPasses
    BY <1>3 DEF BadgeStep, DeclareStep, RefreshBadge, GetDeclaration, PublishChoice,
       SyncDeclaration, CheckDeclaration, PublishDeclaration, HourPasses, general
<1>4. CASE SetLocale \/ ToggleMute \/ AlwaysAllow \/ SetShowButtonTo \/ OpenBadgePage \/ Foreground
           \/ \E f \in SettingNames : Set(f) \/ PeerSaves(f)
    BY <1>4 DEF SetLocale, ToggleMute, AlwaysAllow, SetShowButtonTo, OpenBadgePage, Foreground, Set,
       PeerSaves, general
<1>5. CASE (\E s \in Users \union {NoUser} : Restart(s)) \/ \E u \in Users : Switch(u)
    BY <1>5 DEF Restart, Switch
<1> QED
    BY <1>1, <1>2, <1>3, <1>4, <1>5 DEF PreferencesNext

PreferencesInv == PreferenceTypes /\ PreferencesCalmInv

LEMMA CalmStep ==
    ASSUME PreferencesInv, [PreferencesNext]_preferencesVars
    PROVE  PreferencesInv'
<1>1. PreferenceTypes'
    BY PreferenceTypesHold DEF PreferencesInv
<1>2. ASSUME Waits' PROVE AsChosen'
    <2>1. Waits /\ AsChosen /\ PreferenceTypes
        BY <1>2, UsesStay DEF PreferencesInv, PreferencesCalmInv, Waits, Undisturbed
    <2>2. CASE UNCHANGED preferencesVars
        BY <2>1, <2>2, WaitsFrames DEF preferencesVars, general, counters, AsChosen
    <2>3. CASE PreferencesNext
        <3>1. ~\E u \in Users : Switch(u)
            BY <2>1, WaitsMeans DEF Switch
        <3> QED
            BY <2>1, <2>3, <3>1, UserSets, AppKeeps, EmbedsKeep, BadgeKeeps, StartKeeps DEF PreferencesNext
    <2> QED
        BY <2>2, <2>3
<1> QED
    BY <1>1, <1>2 DEF PreferencesInv, PreferencesCalmInv

LEMMA PreferencesInvariant == PreferencesSpec => []PreferencesInv
<1>1. PreferencesInit => PreferencesInv
    BY PreferencesStart, CalmStart DEF PreferencesInv
<1>2. PreferencesInv /\ [PreferencesNext]_preferencesVars => PreferencesInv'
    BY CalmStep
<1> QED
    BY <1>1, <1>2, PTL DEF PreferencesSpec

(* The settings the user chose are on the device and in the account's      *)
(* record whenever nothing waits to be saved, for any number of choices    *)
(* and restarts and though records cannot be read: what scheduleSave,      *)
(* syncToPdsNow and bootstrap do between them loses none and brings none   *)
(* back. *)
THEOREM SettingsComeThrough == PreferencesSpec => []SettingsArriveCalmly
<1>1. PreferencesInv => SettingsArriveCalmly
    <2> SUFFICES ASSUME PreferenceTypes, PreferencesCalmInv, Waits, Quiet, ~armed,
                        NEW f \in SettingNames
                 PROVE  settings[f] = chosen[f] /\ \A r \in record[session] : r[f] = chosen[f]
        BY DEF PreferencesInv, SettingsArriveCalmly, SettingsArrive, Waits
    <2>1. AsChosen
        BY DEF PreferencesCalmInv
    <2>2. settings[f] = chosen[f]
        BY <2>1, QuietSettings DEF SettingNames
    <2>3. \A r \in record[user] : r[f] = chosen[f]
        BY <2>1, QuietSettings DEF AsChosen, SettingsChosen
    <2> QED
        BY <2>1, <2>2, <2>3 DEF AsChosen
<1> QED
    BY <1>1, PreferencesInvariant, PTL

(* The embeds loaded are the ones the user chose last, whatever            *)
(* refreshFromPds reads or fails to read and wherever the app restarts:    *)
(* setAlwaysAllow stores its choice in all the places a start looks into.  *)
THEOREM EmbedsStayChosen == PreferencesSpec => []EmbedsAreChosenCalmly
<1>1. PreferencesInv => EmbedsAreChosenCalmly
    BY DEF PreferencesInv, PreferencesCalmInv, AsChosen, EmbedsChosen, EmbedsAreChosenCalmly,
       EmbedsAreChosen, Waits
<1> QED
    BY <1>1, PreferencesInvariant, PTL

USE ConstantsAssumption

-----------------------------------------------------------------------------
(* Provisioning: types, one named part per actor. *)

EnsureRec == [pc : {"idle", "check", "refill"}, step : {0, 1, 2}, batch : SUBSET Nat]
SweepRec == [pc : {"idle", "page", "convs", "leaves", "write", "post", "remove"},
             rest : Seq(SUBSET Convs), todo : SUBSET Convs, conv : Convs \cup {"none"},
             kp : Nat]

Refills(e) == EnsureIs(e, "refill")
Holds(s) == SweepIs(s, "write") \/ SweepIs(s, "post")

EnsureOK ==
    /\ ensure \in [Callers -> EnsureRec]
    /\ \A e \in Callers : Refills(e) => ensure[e].step # 0 /\ ensure[e].batch \subseteq 1 .. minted
PackagesOK == minted \in Nat /\ pool \subseteq 1 .. minted /\ local \subseteq Nat
WelcomeOK == welcome \in [Convs -> Nat]
GroupsOK == member \subseteq Convs /\ marked \subseteq Convs /\ inGroup \subseteq Convs
SweepOK ==
    /\ sweep \in [Sweeps -> SweepRec]
    /\ \A s \in Sweeps : sweep[s].pc \in {"write", "post", "remove"} => sweep[s].conv \in Convs

TypeInv == EnsureOK /\ PackagesOK /\ WelcomeOK /\ GroupsOK /\ SweepOK

LEMMA StepsFacts == Len(Steps) = 2 /\ Steps[1] = "store" /\ Steps[2] = "upload"
BY DEF Steps

LEMMA IdleFacts ==
    /\ Idle \in EnsureRec /\ Idle.pc = "idle"
    /\ NoSweep \in SweepRec /\ NoSweep.pc = "idle" /\ NoSweep.kp = 0
<1>1. <<>> \in Seq(SUBSET Convs)
    OBVIOUS
<1> QED
    BY <1>1 DEF Idle, EnsureRec, NoSweep, SweepRec

(* The latest key package of a pool is one of it. *)
LEMMA MaxInSet ==
    ASSUME NEW n \in Nat, NEW S, S \subseteq 1 .. n, S # {}
    PROVE  Max(S) \in S
<1> DEFINE T == {n - x : x \in S}
<1>1. T \subseteq Nat /\ T # {}
    <2>1. \A x \in S : n - x \in Nat
        OBVIOUS
    <2> QED
        BY <2>1
<1> DEFINE R == OpToRel(<, Nat)
<1>2. IsWellFoundedOn(R, Nat)
    BY NatLessThanWellFounded
<1>3. \A x, y \in Nat : x < y => <<x, y>> \in R
    BY DEF OpToRel
<1> HIDE DEF R
<1>4. PICK y \in T : \A z \in T : <<z, y>> \notin R
    BY <1>2, <1>1, WFMin
<1>5. PICK x \in S : y = n - x
    OBVIOUS
<1>6. \A z \in S : x >= z
    <2> SUFFICES ASSUME NEW z \in S, ~(x >= z)
                 PROVE  FALSE
        OBVIOUS
    <2>1. n - z \in Nat /\ y \in Nat /\ n - z < y /\ n - z \in T
        BY <1>5
    <2> QED
        BY <1>3, <1>4, <2>1
<1> QED
    BY <1>6 DEF Max

LEMMA PoolIsFinite ==
    ASSUME TypeInv
    PROVE  IsFiniteSet(pool) /\ Cardinality(pool) \in Nat
<1>1. IsFiniteSet(1 .. minted)
    BY FS_Interval DEF TypeInv, PackagesOK
<1>2. IsFiniteSet(pool)
    BY <1>1, FS_Subset DEF TypeInv, PackagesOK
<1> QED
    BY <1>2, FS_CardinalityType

LEMMA TypeInit == Init => TypeInv
<1> SUFFICES ASSUME Init PROVE TypeInv
    OBVIOUS
<1>1. EnsureOK
    BY IdleFacts DEF Init, EnsureOK, Refills, EnsureIs
<1>2. SweepOK
    BY IdleFacts DEF Init, SweepOK
<1> QED
    BY <1>1, <1>2 DEF Init, TypeInv, PackagesOK, WelcomeOK, GroupsOK

(* A refill goes on, or is over. *)
LEMMA EnsureGoesType ==
    ASSUME TypeInv, NEW e \in Callers, Refills(e), EnsureGoes(e), UNCHANGED minted
    PROVE  EnsureOK'
<1> DEFINE r == [ensure[e] EXCEPT !.step = @ + 1]
<1>1. ensure[e] \in EnsureRec /\ ensure[e].step \in {1, 2}
    BY DEF TypeInv, EnsureOK, EnsureRec
<1>2. ensure[e].step = 1 => r \in EnsureRec /\ r.step = 2 /\ r.batch = ensure[e].batch
    BY <1>1 DEF EnsureRec
<1>3. ensure' = IF ensure[e].step = Len(Steps) THEN [ensure EXCEPT ![e] = Idle]
                                              ELSE [ensure EXCEPT ![e] = r]
    BY DEF EnsureGoes, TypeInv, EnsureOK
<1> HIDE DEF r
<1> QED
    BY <1>1, <1>2, <1>3, IdleFacts, StepsFacts DEF TypeInv, EnsureOK, Refills, EnsureIs

(* Those who are killed are idle again. *)
LEMMA EnsureIdle ==
    ASSUME ensure' = [f \in Callers |-> Idle]
    PROVE  EnsureOK'
BY IdleFacts DEF EnsureOK, Refills, EnsureIs

LEMMA NewDeviceType ==
    ASSUME TypeInv,
           \/ \E e \in Callers : Ensure(e) \/ EnsureStep(e)
           \/ \E c \in Convs : Join(c)
           \/ NewDies \/ NewIsWiped \/ Revoke
    PROVE  TypeInv'
<1>1. ASSUME NEW e \in Callers, Ensure(e)
      PROVE  TypeInv'
    <2>1. EnsureOK'
        BY <1>1 DEF Ensure, TypeInv, EnsureOK, EnsureRec, Refills, EnsureIs
    <2> QED
        BY <1>1, <2>1 DEF Ensure, TypeInv, PackagesOK, WelcomeOK, GroupsOK, SweepOK,
            oldDevice, server
<1>2. ASSUME NEW e \in Callers, NEW ok \in BOOLEAN, Check(e, ok)
      PROVE  TypeInv'
    <2> DEFINE lacking == Target - Cardinality(pool)
               batch == minted + 1 .. minted + lacking
               r == [pc |-> "refill", step |-> 1, batch |-> batch]
    <2>1. IsFiniteSet(pool) /\ Cardinality(pool) \in Nat
        BY PoolIsFinite
    <2>2. CASE ensure' = [ensure EXCEPT ![e] = Idle] /\ UNCHANGED minted
        <3>1. EnsureOK'
            BY <2>2, IdleFacts DEF TypeInv, EnsureOK, Refills, EnsureIs
        <3> QED
            BY <1>2, <2>2, <3>1 DEF Check, TypeInv, PackagesOK, WelcomeOK, GroupsOK,
                SweepOK, oldDevice, server
    <2>3. CASE /\ Cardinality(pool) < Threshold
               /\ ensure' = [ensure EXCEPT ![e] = r]
               /\ minted' = minted + lacking
        <3>1. lacking \in Nat /\ minted \in Nat
            BY <2>1, <2>3 DEF TypeInv, PackagesOK
        <3>2. r \in EnsureRec /\ r.step = 1 /\ r.batch \subseteq 1 .. minted'
            BY <2>3, <3>1 DEF EnsureRec
        <3>3. 1 .. minted \subseteq 1 .. minted'
            BY <2>3, <3>1
        <3> HIDE DEF lacking, r
        <3>4. EnsureOK'
            BY <2>3, <3>2, <3>3 DEF TypeInv, EnsureOK, Refills, EnsureIs
        <3>5. PackagesOK'
            BY <1>2, <2>3, <3>1, <3>3 DEF Check, server, TypeInv, PackagesOK
        <3> QED
            BY <1>2, <3>4, <3>5 DEF Check, TypeInv, WelcomeOK, GroupsOK, SweepOK,
                oldDevice, server
    <2> QED
        BY <1>2, <2>2, <2>3 DEF Check
<1>3. ASSUME NEW e \in Callers, Store(e)
      PROVE  TypeInv'
    <2>1. EnsureOK'
        BY <1>3, EnsureGoesType DEF Store, EnsureAt, Refills
    <2>2. PackagesOK'
        BY <1>3 DEF Store, EnsureAt, server, TypeInv, EnsureOK, EnsureRec, PackagesOK
    <2> QED
        BY <1>3, <2>1, <2>2 DEF Store, TypeInv, WelcomeOK, GroupsOK, SweepOK,
            oldDevice, server
<1>4. ASSUME NEW e \in Callers, NEW ok \in BOOLEAN, Upload(e, ok)
      PROVE  TypeInv'
    <2>1. EnsureOK'
        <3>1. CASE ok
            BY <1>4, <3>1, EnsureGoesType DEF Upload, EnsureAt, Refills
        <3>2. CASE ~ok
            BY <1>4, <3>2, IdleFacts DEF Upload, TypeInv, EnsureOK, Refills, EnsureIs
        <3> QED
            BY <3>1, <3>2
    <2>2. PackagesOK'
        BY <1>4 DEF Upload, EnsureAt, TypeInv, EnsureOK, Refills, PackagesOK
    <2> QED
        BY <1>4, <2>1, <2>2 DEF Upload, TypeInv, WelcomeOK, GroupsOK, SweepOK, oldDevice
<1>5. ASSUME NEW c \in Convs, Join(c)
      PROVE  TypeInv'
    BY <1>5 DEF Join, TypeInv, EnsureOK, Refills, EnsureIs, PackagesOK, WelcomeOK,
        GroupsOK, SweepOK, oldDevice, server
<1>6. CASE NewDies
    BY <1>6, EnsureIdle DEF NewDies, TypeInv, PackagesOK, WelcomeOK, GroupsOK, SweepOK,
        oldDevice, server
<1>7. CASE NewIsWiped
    BY <1>7, EnsureIdle DEF NewIsWiped, TypeInv, PackagesOK, WelcomeOK, GroupsOK, SweepOK,
        oldDevice, server
<1>8. CASE Revoke
    BY <1>8, EnsureIdle DEF Revoke, TypeInv, PackagesOK, WelcomeOK, GroupsOK, SweepOK
<1> QED
    BY <1>1, <1>2, <1>3, <1>4, <1>5, <1>6, <1>7, <1>8 DEF EnsureStep

(* A sweep that goes on keeps the type of the sweeps. *)
LEMMA SweepGoesType ==
    ASSUME TypeInv, NEW s \in Sweeps, NEW r \in SweepRec, SweepGoes(s, r),
           r.pc \in {"write", "post", "remove"} => r.conv \in Convs
    PROVE  SweepOK'
BY DEF TypeInv, SweepOK, SweepGoes

(* What a sweep works through, and what it commits to, is of its account.  *)
LEMMA SweepRecord ==
    ASSUME NEW r \in SweepRec
    PROVE  /\ r.todo \subseteq Convs /\ r.kp \in Nat /\ r.conv \in Convs \cup {"none"}
           /\ \A todo \in SUBSET Convs : [r EXCEPT !.todo = todo] \in SweepRec
           /\ \A pc \in {"page", "convs", "leaves", "post"} : [r EXCEPT !.pc = pc] \in SweepRec
BY DEF SweepRec

LEMMA OldSweepsType ==
    ASSUME TypeInv,
           \/ HandleDeviceNew \/ HandleDeviceRevoked \/ CoolDown
           \/ \E ok \in BOOLEAN : LoadPage(ok) \/ Connect(ok) \/ AskPending(ok)
           \/ \E s \in Sweeps : SweepEnds(s)
           \/ OldDies
    PROVE  TypeInv'
<1> USE IdleFacts
<1>0. ASSUME NEW s \in Sweeps, NEW r \in SweepRec, SweepGoes(s, r),
             r.pc \notin {"write", "post", "remove"},
             UNCHANGED <<newDevice, server>>, GroupsOK'
      PROVE  TypeInv'
    BY <1>0, SweepGoesType DEF TypeInv, EnsureOK, Refills, EnsureIs, PackagesOK,
        WelcomeOK, newDevice, server
<1>1. CASE HandleDeviceNew
    <2> DEFINE r == [NoSweep EXCEPT !.pc = "page", !.rest = Pages]
    <2>1. Pages \in Seq(SUBSET Convs)
        BY DEF Pages
    <2>2. r \in SweepRec /\ r.pc = "page"
        BY <2>1 DEF SweepRec
    <2> HIDE DEF r
    <2> QED
        BY <1>0, <1>1, <2>2 DEF HandleDeviceNew, Sweeps, TypeInv, GroupsOK, server, r
<1>2. CASE HandleDeviceRevoked
    <2> DEFINE r == [NoSweep EXCEPT !.pc = "leaves", !.todo = member]
    <2>1. r \in SweepRec /\ r.pc = "leaves"
        BY DEF SweepRec, TypeInv, GroupsOK
    <2> HIDE DEF r
    <2> QED
        BY <1>0, <1>2, <2>1 DEF HandleDeviceRevoked, Sweeps, TypeInv, GroupsOK, server, r
<1>3. CASE CoolDown
    BY <1>3 DEF CoolDown, TypeInv, EnsureOK, Refills, EnsureIs, PackagesOK, WelcomeOK,
        GroupsOK, SweepOK, newDevice, server
<1>4. ASSUME NEW ok \in BOOLEAN, LoadPage(ok)
      PROVE  TypeInv'
    <2> DEFINE rest == sweep["nudge"].rest
               r == [NoSweep EXCEPT !.pc = "convs", !.rest = Tail(rest),
                                    !.todo = IF ok THEN Head(rest) ELSE {}]
    <2>1. rest \in Seq(SUBSET Convs)
        BY DEF TypeInv, SweepOK, SweepRec, Sweeps
    <2>2. rest # <<>> => Tail(rest) \in Seq(SUBSET Convs) /\ Head(rest) \subseteq Convs
        BY <2>1
    <2>3. rest # <<>> => r \in SweepRec /\ r.pc = "convs"
        BY <2>2 DEF SweepRec
    <2>4. SweepGoes("nudge", IF rest = <<>> THEN NoSweep ELSE r)
        BY <1>4 DEF LoadPage
    <2> HIDE DEF r, rest
    <2> QED
        BY <1>0, <1>4, <2>3, <2>4 DEF LoadPage, Sweeps, TypeInv, GroupsOK, server
<1>5. ASSUME NEW ok \in BOOLEAN, Connect(ok)
      PROVE  TypeInv'
    <2>1. GroupsOK'
        BY <1>5 DEF Connect, Recovered, server, TypeInv, GroupsOK
    <2> DEFINE todo == IF cooled /\ revoked /\ ok THEN member' ELSE {}
               r == [NoSweep EXCEPT !.pc = "leaves", !.todo = todo]
    <2>2. todo \in SUBSET Convs
        BY <2>1 DEF GroupsOK
    <2> HIDE DEF todo
    <2>3. r \in SweepRec /\ r.pc = "leaves"
        BY <2>2 DEF SweepRec
    <2>4. SweepGoes("connect", r)
        BY <1>5 DEF Connect, todo
    <2> HIDE DEF r
    <2> QED
        BY <1>0, <1>5, <2>1, <2>3, <2>4 DEF Connect, Sweeps
<1>6. ASSUME NEW ok \in BOOLEAN, AskPending(ok)
      PROVE  TypeInv'
    <2> DEFINE r == [NoSweep EXCEPT !.pc = "convs", !.todo = Pending]
    <2>1. r \in SweepRec /\ r.pc = "convs"
        BY DEF SweepRec, Pending
    <2>2. SweepGoes("connect", IF ok THEN r ELSE NoSweep)
        BY <1>6 DEF AskPending
    <2> HIDE DEF r
    <2> QED
        BY <1>0, <1>6, <2>1, <2>2 DEF AskPending, Sweeps, TypeInv, GroupsOK, server
<1>7. ASSUME NEW s \in Sweeps, SweepEnds(s)
      PROVE  TypeInv'
    <2> DEFINE r == [sweep[s] EXCEPT !.pc = "page"]
    <2>1. r \in SweepRec /\ r.pc = "page"
        BY DEF TypeInv, SweepOK, SweepRec
    <2>2. SweepGoes(s, IF s = "nudge" THEN r ELSE NoSweep)
        BY <1>7 DEF SweepEnds
    <2> HIDE DEF r
    <2> QED
        BY <1>0, <1>7, <2>1, <2>2 DEF SweepEnds, TypeInv, GroupsOK, server
<1>8. CASE OldDies
    <2>1. SweepOK'
        BY <1>8 DEF OldDies, SweepOK
    <2> QED
        BY <1>8, <2>1 DEF OldDies, TypeInv, EnsureOK, Refills, EnsureIs, PackagesOK,
            WelcomeOK, GroupsOK, newDevice
<1> QED
    BY <1>1, <1>2, <1>3, <1>4, <1>5, <1>6, <1>7, <1>8

LEMMA CommitsType ==
    ASSUME TypeInv, NEW s \in Sweeps,
           \/ Write(s)
           \/ \E c \in Convs : Provision(s, c) \/ RemoveWrite(s, c)
           \/ \E ok \in BOOLEAN : Post(s, ok) \/ RemovePost(s, ok)
    PROVE  TypeInv'
<1>0. sweep[s] \in SweepRec
    BY DEF TypeInv, SweepOK
<1>1. CASE Write(s)
    <2> DEFINE c == sweep[s].conv
               r == [sweep[s] EXCEPT !.pc = IF NotYetMember(c) THEN "post" ELSE "convs"]
    <2>1. c \in Convs
        BY <1>1 DEF Write, SweepIs, TypeInv, SweepOK
    <2>2. r \in SweepRec /\ r.conv = c
        BY <1>0 DEF SweepRec
    <2>3. SweepGoes(s, r)
        BY <1>1 DEF Write
    <2> HIDE DEF r
    <2>4. SweepOK'
        BY <2>1, <2>2, <2>3, SweepGoesType
    <2> QED
        BY <1>1, <2>1, <2>4 DEF Write, TypeInv, EnsureOK, Refills, EnsureIs, PackagesOK,
            WelcomeOK, GroupsOK, newDevice, server
<1>2. ASSUME NEW c \in Convs, Provision(s, c)
      PROVE  TypeInv'
    <2> DEFINE left == [sweep[s] EXCEPT !.todo = @ \ {c}]
               r == [left EXCEPT !.pc = "write", !.conv = c, !.kp = Max(pool)]
    <2>1. left \in SweepRec /\ left.pc = "convs"
        BY <1>0, <1>2 DEF Provision, SweepIs, SweepRec
    <2>2. CASE SweepGoes(s, left) /\ UNCHANGED pool
        <3>1. SweepOK'
            BY <2>1, <2>2, SweepGoesType
        <3> QED
            BY <1>2, <2>2, <3>1 DEF Provision, TypeInv, EnsureOK, Refills, EnsureIs,
                PackagesOK, WelcomeOK, GroupsOK, newDevice
    <2>3. CASE pool # {} /\ pool' = pool \ {Max(pool)} /\ SweepGoes(s, r)
        <3>1. Max(pool) \in Nat
            BY <2>3, MaxInSet DEF TypeInv, PackagesOK
        <3>2. r \in SweepRec /\ r.conv = c
            BY <2>1, <3>1 DEF SweepRec
        <3> HIDE DEF r
        <3>3. SweepOK'
            BY <2>3, <3>2, SweepGoesType
        <3> QED
            BY <1>2, <2>3, <3>3 DEF Provision, TypeInv, EnsureOK, Refills, EnsureIs,
                PackagesOK, WelcomeOK, GroupsOK, newDevice
    <2> QED
        BY <1>2, <2>2, <2>3 DEF Provision
<1>3. ASSUME NEW ok \in BOOLEAN, Post(s, ok)
      PROVE  TypeInv'
    <2> DEFINE r == [sweep[s] EXCEPT !.pc = "convs", !.conv = "none", !.kp = 0]
    <2>1. sweep[s].conv \in Convs /\ sweep[s].kp \in Nat
        BY <1>0, <1>3 DEF Post, SweepIs, TypeInv, SweepOK, SweepRec
    <2>2. r \in SweepRec /\ r.pc = "convs"
        BY <1>0 DEF SweepRec
    <2>3. SweepGoes(s, r)
        BY <1>3 DEF Post, Posted
    <2> HIDE DEF r
    <2>4. SweepOK'
        BY <2>2, <2>3, SweepGoesType
    <2>5. WelcomeOK' /\ GroupsOK'
        BY <1>3, <2>1 DEF Post, RolledBack, TypeInv, WelcomeOK, GroupsOK
    <2> QED
        BY <1>3, <2>4, <2>5 DEF Post, TypeInv, EnsureOK, Refills, EnsureIs, PackagesOK,
            newDevice
<1>4. ASSUME NEW c \in Convs, RemoveWrite(s, c)
      PROVE  TypeInv'
    <2> DEFINE left == [sweep[s] EXCEPT !.todo = @ \ {c}]
               r == [left EXCEPT !.pc = "remove", !.conv = c]
    <2>1. left \in SweepRec /\ left.pc = "leaves"
        BY <1>0, <1>4 DEF RemoveWrite, SweepIs, SweepRec
    <2>2. r \in SweepRec /\ r.conv = c
        BY <2>1 DEF SweepRec
    <2>3. SweepGoes(s, left) \/ SweepGoes(s, r)
        BY <1>4 DEF RemoveWrite
    <2> HIDE DEF left, r
    <2>4. SweepOK'
        BY <2>1, <2>2, <2>3, SweepGoesType
    <2>5. GroupsOK'
        BY <1>4 DEF RemoveWrite, Marked, server, TypeInv, GroupsOK
    <2> QED
        BY <1>4, <2>4, <2>5 DEF RemoveWrite, TypeInv, EnsureOK, Refills, EnsureIs,
            PackagesOK, WelcomeOK, newDevice, server
<1>5. ASSUME NEW ok \in BOOLEAN, RemovePost(s, ok)
      PROVE  TypeInv'
    <2> DEFINE r == [sweep[s] EXCEPT !.pc = "leaves", !.conv = "none", !.kp = 0]
    <2>1. sweep[s].conv \in Convs
        BY <1>5 DEF RemovePost, SweepIs, TypeInv, SweepOK
    <2>2. r \in SweepRec /\ r.pc = "leaves"
        BY <1>0 DEF SweepRec
    <2>3. SweepGoes(s, r)
        BY <1>5 DEF RemovePost, Posted
    <2> HIDE DEF r
    <2>4. SweepOK'
        BY <2>2, <2>3, SweepGoesType
    <2>5. GroupsOK'
        BY <1>5, <2>1 DEF RemovePost, TypeInv, GroupsOK
    <2> QED
        BY <1>5, <2>4, <2>5 DEF RemovePost, TypeInv, EnsureOK, Refills, EnsureIs,
            PackagesOK, WelcomeOK, newDevice
<1> QED
    BY <1>1, <1>2, <1>3, <1>4, <1>5

LEMMA TypeStep ==
    ASSUME TypeInv, [Next]_vars
    PROVE  TypeInv'
<1>1. CASE UNCHANGED vars
    BY <1>1 DEF vars, newDevice, oldDevice, server, TypeInv, EnsureOK, Refills, EnsureIs,
        PackagesOK, WelcomeOK, GroupsOK, SweepOK
<1>2. CASE Next
    BY <1>2, NewDeviceType, OldSweepsType, CommitsType DEF Next, SweepStep
<1> QED
    BY <1>1, <1>2

(* The key packages, the groups and the sweeps keep their types. *)
THEOREM TypeCorrect == Spec => []TypeInv
BY TypeInit, TypeStep, PTL DEF Spec

-----------------------------------------------------------------------------
(* The bound of the server's pool: callers share one refill, and nothing   *)
(* else adds to the pool between its count and its upload.                 *)

OneRefill ==
    \A e, f \in Callers : ~EnsureIs(e, "idle") /\ ~EnsureIs(f, "idle") => e = f
RefillFits ==
    \A e \in Callers : Refills(e) =>
        /\ IsFiniteSet(ensure[e].batch)
        /\ Cardinality(pool) + Cardinality(ensure[e].batch) <= Target

BoundInv == OneRefill /\ RefillFits /\ PoolIsBounded

LEMMA BoundInit == Init => BoundInv
BY FS_EmptySet, IdleFacts DEF Init, BoundInv, OneRefill, RefillFits, PoolIsBounded,
    EnsureIs, Refills

LEMMA BoundFrame ==
    ASSUME TypeInv, BoundInv, UNCHANGED ensure, pool' \subseteq pool
    PROVE  BoundInv'
<1>1. Cardinality(pool') \in Nat /\ Cardinality(pool') <= Cardinality(pool)
    BY PoolIsFinite, FS_Subset, FS_CardinalityType
<1>2. \A e \in Callers : Refills(e) => Cardinality(ensure[e].batch) \in Nat
    BY FS_CardinalityType DEF BoundInv, RefillFits
<1> QED
    BY <1>1, <1>2, PoolIsFinite DEF BoundInv, OneRefill, RefillFits, PoolIsBounded,
        EnsureIs, Refills

(* A caller that gives up, or is done. *)
LEMMA BoundIdle ==
    ASSUME TypeInv, BoundInv, NEW e \in Callers, ensure' = [ensure EXCEPT ![e] = Idle],
           pool' = pool \/ (Refills(e) /\ pool' = pool \cup ensure[e].batch)
    PROVE  BoundInv'
<1>1. OneRefill'
    BY IdleFacts DEF TypeInv, EnsureOK, BoundInv, OneRefill, EnsureIs
<1>2. CASE pool' = pool
    BY <1>1, <1>2, IdleFacts DEF TypeInv, EnsureOK, BoundInv, RefillFits, PoolIsBounded,
        EnsureIs, Refills
<1>3. CASE Refills(e) /\ pool' = pool \cup ensure[e].batch
    <2> DEFINE batch == ensure[e].batch
    <2>1. IsFiniteSet(pool) /\ IsFiniteSet(batch)
        BY <1>3, PoolIsFinite DEF BoundInv, RefillFits
    <2>2. /\ Cardinality(pool \cup batch) =
                 Cardinality(pool) + Cardinality(batch) - Cardinality(pool \cap batch)
          /\ Cardinality(pool) \in Nat /\ Cardinality(batch) \in Nat
          /\ Cardinality(pool \cap batch) \in Nat
        BY <2>1, FS_Union, FS_Intersection, FS_CardinalityType
    <2>3. PoolIsBounded'
        BY <1>3, <2>2 DEF BoundInv, RefillFits, PoolIsBounded
    <2>4. \A f \in Callers : ~Refills(f)'
        BY <1>3, IdleFacts DEF TypeInv, EnsureOK, BoundInv, OneRefill, EnsureIs, Refills
    <2> QED
        BY <1>1, <2>3, <2>4 DEF BoundInv, RefillFits
<1> QED
    BY <1>2, <1>3

(* A refill that goes on. *)
LEMMA EnsureGoesFacts ==
    ASSUME TypeInv, NEW e \in Callers, Refills(e), EnsureGoes(e)
    PROVE  /\ ensure[e].step = 2 => ensure' = [ensure EXCEPT ![e] = Idle]
           /\ ensure[e].step # 2 =>
                 /\ \A f \in Callers \ {e} : ensure'[f] = ensure[f]
                 /\ ensure'[e].batch = ensure[e].batch
                 /\ ensure'[e].pc = "refill" /\ ensure'[e].step = 2
<1>1. ensure[e] \in EnsureRec /\ ensure[e].step \in {1, 2}
    BY DEF TypeInv, EnsureOK, EnsureRec
<1> QED
    BY <1>1, StepsFacts DEF EnsureGoes, TypeInv, EnsureOK, EnsureRec, Refills, EnsureIs

LEMMA BoundStep ==
    ASSUME TypeInv, BoundInv, [Next]_vars
    PROVE  BoundInv'
<1>1. ASSUME NEW e \in Callers, Ensure(e)
      PROVE  BoundInv'
    BY <1>1 DEF Ensure, NoPromise, server, TypeInv, EnsureOK, EnsureRec, BoundInv,
        OneRefill, RefillFits, PoolIsBounded, Refills, EnsureIs
<1>2. ASSUME NEW e \in Callers, NEW ok \in BOOLEAN, Check(e, ok)
      PROVE  BoundInv'
    <2> DEFINE lacking == Target - Cardinality(pool)
               batch == minted + 1 .. minted + lacking
               r == [pc |-> "refill", step |-> 1, batch |-> batch]
    <2>1. CASE ensure' = [ensure EXCEPT ![e] = Idle]
        BY <1>2, <2>1, BoundIdle DEF Check, server
    <2>2. CASE ensure' = [ensure EXCEPT ![e] = r] /\ Cardinality(pool) < Threshold
        <3>1. lacking \in Nat /\ minted \in Nat /\ Cardinality(pool) \in Nat
            BY <2>2, PoolIsFinite DEF TypeInv, PackagesOK
        <3>2. IsFiniteSet(batch) /\ Cardinality(batch) = lacking
            <4> HIDE DEF lacking
            <4>1. PICK a \in Int, b \in Int : a = minted + 1 /\ b = minted + lacking
                BY <3>1
            <4>2. IsFiniteSet(a .. b) /\ Cardinality(a .. b) = IF a > b THEN 0 ELSE b - a + 1
                BY FS_Interval
            <4>3. batch = a .. b
                BY <4>1
            <4> HIDE DEF batch
            <4> QED
                BY <3>1, <4>1, <4>2, <4>3
        <3>3. /\ IsFiniteSet(r.batch) /\ Cardinality(pool) + Cardinality(r.batch) <= Target
              /\ r.pc = "refill"
            BY <3>1, <3>2
        <3> HIDE DEF r
        <3> QED
            BY <1>2, <2>2, <3>3 DEF Check, server, TypeInv, EnsureOK, BoundInv, OneRefill,
                RefillFits, PoolIsBounded, Refills, EnsureIs
    <2> QED
        BY <1>2, <2>1, <2>2 DEF Check
<1>3. ASSUME NEW e \in Callers, Store(e)
      PROVE  BoundInv'
    <2>1. Refills(e) /\ EnsureGoes(e) /\ UNCHANGED pool
        BY <1>3 DEF Store, EnsureAt, Refills, server
    <2>2. CASE ensure[e].step = 2
        BY <2>1, <2>2, EnsureGoesFacts, BoundIdle
    <2>3. CASE ensure[e].step # 2
        BY <2>1, <2>3, EnsureGoesFacts DEF BoundInv, OneRefill, RefillFits, PoolIsBounded,
            Refills, EnsureIs
    <2> QED
        BY <2>2, <2>3
<1>4. ASSUME NEW e \in Callers, NEW ok \in BOOLEAN, Upload(e, ok)
      PROVE  BoundInv'
    <2>1. Refills(e) /\ ensure[e].step = 2
        BY <1>4, StepsFacts DEF Upload, EnsureAt, Refills, TypeInv, EnsureOK, EnsureRec
    <2>2. ensure' = [ensure EXCEPT ![e] = Idle]
        BY <1>4, <2>1, EnsureGoesFacts DEF Upload
    <2> QED
        BY <1>4, <2>1, <2>2, BoundIdle DEF Upload
<1>5. CASE NewDies \/ NewIsWiped
    BY <1>5, IdleFacts DEF NewDies, NewIsWiped, server, BoundInv, OneRefill, RefillFits,
        PoolIsBounded, EnsureIs, Refills
<1>6. CASE Revoke
    BY <1>6, IdleFacts, FS_EmptySet DEF Revoke, BoundInv, OneRefill, RefillFits,
        PoolIsBounded, EnsureIs, Refills
<1>7. ASSUME NEW s \in Sweeps, NEW c \in Convs, Provision(s, c)
      PROVE  BoundInv'
    BY <1>7, BoundFrame DEF Provision, newDevice
<1>8. CASE UNCHANGED <<ensure, pool>>
    BY <1>8, BoundFrame
<1>9. ASSUME NEW s \in Sweeps, NEW ok \in BOOLEAN, Post(s, ok) \/ RemovePost(s, ok)
      PROVE  UNCHANGED <<ensure, pool>>
    BY <1>9 DEF Post, RemovePost, newDevice
<1>10. ASSUME NEW s \in Sweeps, NEW c \in Convs,
              Write(s) \/ RemoveWrite(s, c) \/ SweepEnds(s) \/ Join(c)
       PROVE  UNCHANGED <<ensure, pool>>
    BY <1>10 DEF Write, RemoveWrite, SweepEnds, Join, newDevice, server
<1>11. ASSUME NEW ok \in BOOLEAN,
              \/ LoadPage(ok) \/ Connect(ok) \/ AskPending(ok) \/ CoolDown \/ OldDies
              \/ HandleDeviceNew \/ HandleDeviceRevoked \/ UNCHANGED vars
       PROVE  UNCHANGED <<ensure, pool>>
    BY <1>11 DEF LoadPage, Connect, AskPending, CoolDown, OldDies, HandleDeviceNew,
        HandleDeviceRevoked, newDevice, server, vars
<1>12. CASE \E e \in Callers : Ensure(e) \/ EnsureStep(e)
    BY <1>1, <1>2, <1>3, <1>4, <1>12 DEF EnsureStep
<1>13. CASE \E s \in Sweeps : SweepStep(s)
    <2> PICK s \in Sweeps : SweepStep(s)
        BY <1>13
    <2>1. CASE SweepEnds(s) \/ Write(s)
        BY <2>1, <1>8 DEF SweepEnds, Write, newDevice, server
    <2>2. CASE \E c \in Convs : Provision(s, c) \/ RemoveWrite(s, c)
        BY <2>2, <1>7, <1>8, <1>10
    <2>3. CASE \E ok \in BOOLEAN : Post(s, ok) \/ RemovePost(s, ok)
        BY <2>3, <1>8, <1>9
    <2> QED
        BY <2>1, <2>2, <2>3 DEF SweepStep
<1>14. CASE \E c \in Convs : Join(c)
    BY <1>14, <1>8 DEF Join, server
<1> QED
    BY <1>5, <1>6, <1>8, <1>11, <1>12, <1>13, <1>14 DEF Next

(* The server never holds more of a device's key packages than KP_TARGET,  *)
(* whoever asks for a refill, however uploads fail and are killed          *)
(* (ensureKeyPackagePool, refillPool).                                     *)
THEOREM PoolStaysBounded == Spec => []PoolIsBounded
<1>1. TypeInv /\ BoundInv /\ [Next]_vars => BoundInv'
    BY BoundStep
<1>2. BoundInv => PoolIsBounded
    BY DEF BoundInv
<1> QED
    BY <1>1, <1>2, BoundInit, TypeCorrect, PTL DEF Spec

-----------------------------------------------------------------------------
(* Where a key package is between its generation and its Welcome: in the   *)
(* batch of a refill, in the pool, with a sweep that claimed it, in a      *)
(* Welcome not yet taken.  It is in one of these places only, and from the *)
(* pool on the new device has its private half.                            *)

Open(c) == c \notin joined /\ welcome[c] # 0
Claimed == {sweep[s].kp : s \in {t \in Sweeps : Holds(t)}}
Waiting == {welcome[c] : c \in {d \in Convs : Open(d)}}
Sent == Claimed \cup Waiting

LocalIsMinted == local \subseteq 1 .. minted
PoolIsKept == pool \subseteq local
BatchIsNew ==
    \A e \in Callers : Refills(e) =>
        /\ ensure[e].batch \cap (pool \cup Sent) = {}
        /\ ensure[e].step = 2 => ensure[e].batch \subseteq local
SentIsKept == Sent \subseteq local \ pool
NoneSentTwice ==
    /\ \A s, t \in Sweeps : Holds(s) /\ Holds(t) /\ s # t => sweep[s].kp # sweep[t].kp
    /\ \A c, d \in Convs : Open(c) /\ Open(d) /\ c # d => welcome[c] # welcome[d]
    /\ Claimed \cap Waiting = {}

KeptInv == /\ LocalIsMinted /\ PoolIsKept /\ BatchIsNew /\ SentIsKept /\ NoneSentTwice

(* The storage of the new device is not wiped, and it is not revoked. *)
KeptAndTrusted == "wiped" \notin ways /\ ~revoked

LEMMA KeptInit == Init => KeptInv
BY IdleFacts DEF Init, KeptInv, LocalIsMinted, PoolIsKept, BatchIsNew, SentIsKept,
    NoneSentTwice, Sent, Claimed, Waiting, Open, Holds, SweepIs, Refills, EnsureIs

LEMMA UndisturbedBefore ==
    ASSUME [Next]_vars, KeptAndTrusted'
    PROVE  KeptAndTrusted
<1>1. ASSUME \E e \in Callers : Ensure(e) \/ EnsureStep(e)
      PROVE  UNCHANGED <<ways, revoked>>
    BY <1>1 DEF Ensure, EnsureStep, Check, Store, Upload, server
<1>2. ASSUME \E s \in Sweeps : SweepStep(s)
      PROVE  UNCHANGED <<ways, revoked>>
    BY <1>2 DEF SweepStep, SweepEnds, Write, Provision, RemoveWrite, Post, RemovePost, server
<1>3. ASSUME \/ \E ok \in BOOLEAN : LoadPage(ok) \/ Connect(ok) \/ AskPending(ok)
             \/ HandleDeviceNew \/ HandleDeviceRevoked \/ CoolDown
             \/ NewDies \/ NewIsWiped \/ OldDies
             \/ \E c \in Convs : Join(c)
             \/ UNCHANGED vars
      PROVE  UNCHANGED <<ways, revoked>>
    BY <1>3 DEF LoadPage, Connect, AskPending, HandleDeviceNew, HandleDeviceRevoked,
        CoolDown, NewDies, NewIsWiped, OldDies, Join, server, vars
<1>4. CASE Revoke
    BY <1>4 DEF Revoke, KeptAndTrusted
<1> QED
    BY <1>1, <1>2, <1>3, <1>4 DEF Next, KeptAndTrusted

(* A sweep that goes on, or is killed, without a new key package.          *)
LEMMA SweepsKept ==
    ASSUME KeptInv, UNCHANGED <<newDevice, pool, welcome>>,
           \A s \in Sweeps : Holds(s)' => Holds(s) /\ sweep'[s].kp = sweep[s].kp
    PROVE  KeptInv'
<1>1. Claimed' \subseteq Claimed
    BY DEF Claimed
<1>2. Waiting' = Waiting
    BY DEF Waiting, Open, newDevice
<1>3. NoneSentTwice'
    <2>1. \A s, t \in Sweeps : Holds(s)' /\ Holds(t)' /\ s # t => sweep'[s].kp # sweep'[t].kp
        BY DEF KeptInv, NoneSentTwice
    <2>2. \A c, d \in Convs : Open(c)' /\ Open(d)' /\ c # d => welcome'[c] # welcome'[d]
        BY DEF KeptInv, NoneSentTwice, Open, newDevice
    <2> QED
        BY <1>1, <1>2, <2>1, <2>2 DEF KeptInv, NoneSentTwice
<1>4. Sent' \subseteq Sent
    BY <1>1, <1>2 DEF Sent
<1> QED
    BY <1>3, <1>4 DEF KeptInv, LocalIsMinted, PoolIsKept, BatchIsNew, SentIsKept, Refills,
        EnsureIs, newDevice

LEMMA SweepGoesKept ==
    ASSUME TypeInv, KeptInv, UNCHANGED <<newDevice, pool, welcome>>,
           NEW s \in Sweeps, NEW r, SweepGoes(s, r),
           r.pc \in {"write", "post"} => Holds(s) /\ r.kp = sweep[s].kp
    PROVE  KeptInv'
<1>1. \A t \in Sweeps : Holds(t)' => Holds(t) /\ sweep'[t].kp = sweep[t].kp
    BY DEF SweepGoes, TypeInv, SweepOK, Holds, SweepIs
<1> QED
    BY <1>1, SweepsKept

(* What a refill does, while what is sent stays. *)
LEMMA SentFrame ==
    ASSUME UNCHANGED <<sweep, welcome, joined>>
    PROVE  Sent' = Sent /\ NoneSentTwice' = NoneSentTwice
BY DEF Sent, Claimed, Waiting, Open, Holds, SweepIs, NoneSentTwice

LEMMA EnsureKept ==
    ASSUME TypeInv, BoundInv, KeptInv, NEW e \in Callers, Ensure(e) \/ EnsureStep(e)
    PROVE  KeptInv'
<1>0. Sent' = Sent /\ (NoneSentTwice' <=> NoneSentTwice) /\ Sent \subseteq local \ pool
    BY SentFrame DEF Ensure, EnsureStep, Check, Store, Upload, oldDevice, server, KeptInv,
        SentIsKept
<1>1. CASE Ensure(e)
    <2>1. \A f \in Callers : ~Refills(f)'
        BY <1>1 DEF Ensure, NoPromise, TypeInv, EnsureOK, EnsureRec, Refills, EnsureIs
    <2> QED
        BY <1>0, <1>1, <2>1 DEF Ensure, server, KeptInv, LocalIsMinted, PoolIsKept,
            BatchIsNew, SentIsKept
<1>2. ASSUME NEW ok \in BOOLEAN, Check(e, ok)
      PROVE  KeptInv'
    <2> DEFINE lacking == Target - Cardinality(pool)
               batch == minted + 1 .. minted + lacking
               r == [pc |-> "refill", step |-> 1, batch |-> batch]
    <2>1. \A f \in Callers : ~Refills(f)
        BY <1>2 DEF Check, BoundInv, OneRefill, EnsureIs, Refills
    <2>2. CASE ensure' = [ensure EXCEPT ![e] = Idle] /\ UNCHANGED minted
        <3>1. \A f \in Callers : ~Refills(f)'
            BY <2>1, <2>2, IdleFacts DEF TypeInv, EnsureOK, Refills, EnsureIs
        <3> QED
            BY <1>0, <1>2, <2>2, <3>1 DEF Check, server, KeptInv, LocalIsMinted,
                PoolIsKept, BatchIsNew, SentIsKept
    <2>3. CASE /\ Cardinality(pool) < Threshold
               /\ ensure' = [ensure EXCEPT ![e] = r] /\ minted' = minted + lacking
        <3>1. lacking \in Nat /\ minted \in Nat
            BY <2>3, PoolIsFinite DEF TypeInv, PackagesOK
        <3>2. batch \cap 1 .. minted = {} /\ 1 .. minted \subseteq 1 .. minted'
            BY <2>3, <3>1
        <3>3. r.batch = batch /\ r.step = 1
            OBVIOUS
        <3> HIDE DEF batch, r, lacking
        <3>4. BatchIsNew'
            <4>1. (pool \cup Sent) \subseteq 1 .. minted
                BY <1>0 DEF TypeInv, PackagesOK, KeptInv, LocalIsMinted
            <4>2. ensure'[e] = r /\ \A f \in Callers \ {e} : ~Refills(f)'
                BY <2>1, <2>3 DEF TypeInv, EnsureOK, Refills, EnsureIs
            <4>3. pool' = pool
                BY <1>2 DEF Check, server
            <4> QED
                BY <1>0, <3>2, <3>3, <4>1, <4>2, <4>3 DEF BatchIsNew
        <3> QED
            BY <1>0, <1>2, <3>2, <3>4 DEF Check, server, KeptInv, LocalIsMinted,
                PoolIsKept, SentIsKept
    <2> QED
        BY <1>2, <2>2, <2>3 DEF Check
<1>3. CASE Store(e)
    <2>1. Refills(e) /\ EnsureGoes(e) /\ ensure[e].step = 1
        BY <1>3, StepsFacts DEF Store, EnsureAt, Refills, TypeInv, EnsureOK, EnsureRec
    <2>2. ensure[e].batch \subseteq 1 .. minted /\ ensure[e].batch \cap (pool \cup Sent) = {}
        BY <2>1 DEF TypeInv, EnsureOK, KeptInv, BatchIsNew
    <2>3. /\ ensure'[e].batch = ensure[e].batch
          /\ \A f \in Callers \ {e} : ~Refills(f)'
        BY <2>1, EnsureGoesFacts DEF BoundInv, OneRefill, EnsureIs, Refills
    <2>4. BatchIsNew'
        BY <1>0, <1>3, <2>2, <2>3 DEF Store, server, BatchIsNew
    <2> QED
        BY <1>0, <1>3, <2>2, <2>4 DEF Store, server, KeptInv, LocalIsMinted, PoolIsKept,
            SentIsKept
<1>4. ASSUME NEW ok \in BOOLEAN, Upload(e, ok)
      PROVE  KeptInv'
    <2>1. Refills(e) /\ ensure[e].step = 2
        BY <1>4, StepsFacts DEF Upload, EnsureAt, Refills, TypeInv, EnsureOK, EnsureRec
    <2>2. ensure' = [ensure EXCEPT ![e] = Idle]
        BY <1>4, <2>1, EnsureGoesFacts DEF Upload
    <2>3. \A f \in Callers : ~Refills(f)'
        BY <2>1, <2>2, IdleFacts DEF TypeInv, EnsureOK, BoundInv, OneRefill, Refills, EnsureIs
    <2>4. /\ ensure[e].batch \subseteq local /\ ensure[e].batch \cap Sent = {}
          /\ pool' = pool \/ pool' = pool \cup ensure[e].batch
        BY <1>4, <2>1 DEF Upload, KeptInv, BatchIsNew
    <2> QED
        BY <1>0, <1>4, <2>3, <2>4 DEF Upload, KeptInv, LocalIsMinted, PoolIsKept,
            BatchIsNew, SentIsKept
<1> QED
    BY <1>1, <1>2, <1>3, <1>4 DEF EnsureStep

LEMMA JoinKept ==
    ASSUME TypeInv, KeptInv, NEW c \in Convs, Join(c)
    PROVE  KeptInv'
<1> DEFINE n == welcome[c]
<1>1. Open(c) /\ n \in Sent
    BY DEF Join, KeptInv, LocalIsMinted, Open, Sent, Waiting, TypeInv, PackagesOK
<1>2. Sent' \subseteq Sent \ {n}
    <2>1. Claimed' = Claimed /\ n \notin Claimed
        BY <1>1 DEF Join, oldDevice, KeptInv, NoneSentTwice, Claimed, Waiting, Holds, SweepIs
    <2>2. \A d \in Convs : Open(d)' => Open(d) /\ d # c /\ welcome'[d] = welcome[d]
        BY DEF Join, server, Open
    <2>3. Waiting' \subseteq Waiting \ {n}
        BY <1>1, <2>2 DEF KeptInv, NoneSentTwice, Waiting
    <2> QED
        BY <2>1, <2>3 DEF Sent
<1>3. NoneSentTwice'
    <2>1. Claimed' = Claimed /\ Waiting' \subseteq Waiting
        BY DEF Join, oldDevice, server, Claimed, Waiting, Holds, SweepIs, Open
    <2> QED
        BY <2>1 DEF Join, oldDevice, server, KeptInv, NoneSentTwice, Open, Holds, SweepIs
<1>4. n \notin pool /\ \A e \in Callers : Refills(e) => n \notin ensure[e].batch
    BY <1>1 DEF KeptInv, SentIsKept, BatchIsNew
<1>5. LocalIsMinted' /\ PoolIsKept' /\ SentIsKept'
    BY <1>2, <1>4 DEF Join, server, KeptInv, LocalIsMinted, PoolIsKept, SentIsKept
<1>6. BatchIsNew'
    BY <1>2, <1>4 DEF Join, server, KeptInv, BatchIsNew, Refills, EnsureIs
<1> QED
    BY <1>3, <1>5, <1>6 DEF KeptInv

(* A sweep claims the latest key package of the pool. *)
LEMMA ProvisionKept ==
    ASSUME TypeInv, KeptInv, NEW s \in Sweeps, NEW c \in Convs, Provision(s, c)
    PROVE  KeptInv'
<1> DEFINE left == [sweep[s] EXCEPT !.todo = @ \ {c}]
           n == Max(pool)
           r == [left EXCEPT !.pc = "write", !.conv = c, !.kp = n]
<1>0. sweep[s] \in SweepRec /\ sweep[s].pc = "convs"
    BY DEF Provision, SweepIs, TypeInv, SweepOK
<1>1. left \in SweepRec /\ left.pc = "convs"
    BY <1>0 DEF SweepRec
<1>2. CASE SweepGoes(s, left) /\ UNCHANGED pool
    BY <1>1, <1>2, SweepGoesKept DEF Provision
<1>3. CASE pool # {} /\ pool' = pool \ {n} /\ SweepGoes(s, r)
    <2>1. n \in pool
        BY <1>3, MaxInSet DEF TypeInv, PackagesOK
    <2>2. r.pc = "write" /\ r.kp = n
        BY <1>1 DEF SweepRec
    <2> HIDE DEF left, n, r
    <2>3. sweep'[s] = r /\ \A t \in Sweeps \ {s} : sweep'[t] = sweep[t]
        BY <1>3 DEF SweepGoes, TypeInv, SweepOK
    <2>4. ~Holds(s) /\ \A t \in Sweeps \ {s} : Holds(t)' <=> Holds(t)
        BY <1>0, <2>3 DEF Holds, SweepIs
    <2>5. Claimed' = Claimed \cup {n}
        BY <2>2, <2>3, <2>4 DEF Claimed, Holds, SweepIs
    <2>6. Waiting' = Waiting
        BY DEF Provision, newDevice, Waiting, Open
    <2>7. n \notin Sent /\ n \in local
        BY <2>1 DEF KeptInv, SentIsKept, PoolIsKept
    <2>8. NoneSentTwice'
        <3>1. \A t \in Sweeps \ {s} : Holds(t)' => sweep'[t].kp # n
            BY <2>3, <2>4, <2>7 DEF Sent, Claimed
        <3>2. \A t, u \in Sweeps : Holds(t)' /\ Holds(u)' /\ t # u => sweep'[t].kp # sweep'[u].kp
            BY <2>2, <2>3, <2>4, <3>1 DEF KeptInv, NoneSentTwice
        <3>3. \A d, f \in Convs : Open(d)' /\ Open(f)' /\ d # f => welcome'[d] # welcome'[f]
            BY DEF Provision, newDevice, KeptInv, NoneSentTwice, Open
        <3> QED
            BY <2>5, <2>6, <2>7, <3>2, <3>3 DEF KeptInv, NoneSentTwice, Sent
    <2>9. Sent' = Sent \cup {n}
        BY <2>5, <2>6 DEF Sent
    <2>10. LocalIsMinted' /\ PoolIsKept' /\ SentIsKept'
        BY <1>3, <2>7, <2>9 DEF Provision, newDevice, KeptInv, LocalIsMinted, PoolIsKept,
            SentIsKept
    <2>11. BatchIsNew'
        BY <1>3, <2>1, <2>9 DEF Provision, newDevice, KeptInv, BatchIsNew, Refills, EnsureIs
    <2> QED
        BY <2>8, <2>10, <2>11 DEF KeptInv
<1> QED
    BY <1>2, <1>3 DEF Provision

(* The commit is stored with its Welcome, or not. *)
LEMMA PostKept ==
    ASSUME TypeInv, KeptInv, NEW s \in Sweeps, NEW ok \in BOOLEAN, Post(s, ok)
    PROVE  KeptInv'
<1> DEFINE c == sweep[s].conv
           n == sweep[s].kp
           r == [sweep[s] EXCEPT !.pc = "convs", !.conv = "none", !.kp = 0]
<1>1. sweep[s] \in SweepRec /\ Holds(s) /\ c \in Convs /\ n \in Sent
    BY DEF Post, TypeInv, SweepOK, SweepIs, Holds, Sent, Claimed
<1>2. r.pc = "convs" /\ SweepGoes(s, r)
    BY <1>1 DEF SweepRec, Post, Posted
<1> HIDE DEF c, n, r
<1>3. CASE UNCHANGED welcome
    BY <1>2, <1>3, SweepGoesKept DEF Post
<1>4. CASE welcome' = [welcome EXCEPT ![c] = n]
    <2>1. ~Holds(s)' /\ \A t \in Sweeps \ {s} : sweep'[t] = sweep[t] /\ (Holds(t)' <=> Holds(t))
        BY <1>2 DEF SweepGoes, TypeInv, SweepOK, Holds, SweepIs
    <2>2. Claimed' \subseteq Claimed /\ n \notin Claimed'
        <3>1. \A t \in Sweeps : Holds(t)' =>
                  Holds(t) /\ sweep'[t].kp = sweep[t].kp /\ sweep[t].kp # n
            BY <1>1, <2>1 DEF KeptInv, NoneSentTwice, n
        <3> QED
            BY <3>1 DEF Claimed
    <2>3. \A d \in Convs \ {c} : welcome'[d] = welcome[d] /\ (Open(d)' <=> Open(d))
        BY <1>4 DEF TypeInv, WelcomeOK, Post, newDevice, Open
    <2>4. welcome'[c] = n
        BY <1>1, <1>4 DEF TypeInv, WelcomeOK
    <2>5. n \in Claimed /\ n \notin Waiting
        BY <1>1 DEF Claimed, KeptInv, NoneSentTwice, n
    <2>6. Waiting' \subseteq Waiting \cup {n}
        BY <2>3, <2>4 DEF Waiting
    <2>7. Sent' \subseteq Sent
        BY <1>1, <2>2, <2>6 DEF Sent
    <2>8. NoneSentTwice'
        <3>1. \A t, u \in Sweeps : Holds(t)' /\ Holds(u)' /\ t # u => sweep'[t].kp # sweep'[u].kp
            BY <2>1 DEF KeptInv, NoneSentTwice
        <3>2. \A d \in Convs \ {c} : Open(d)' => welcome'[d] # n
            BY <2>3, <2>5 DEF Waiting
        <3>3. \A d, f \in Convs : Open(d)' /\ Open(f)' /\ d # f => welcome'[d] # welcome'[f]
            BY <2>3, <2>4, <3>2 DEF KeptInv, NoneSentTwice
        <3> QED
            BY <2>2, <2>6, <3>1, <3>3 DEF KeptInv, NoneSentTwice
    <2> QED
        BY <2>7, <2>8 DEF Post, newDevice, KeptInv, LocalIsMinted, PoolIsKept, BatchIsNew,
            SentIsKept, Refills, EnsureIs
<1> QED
    BY <1>3, <1>4 DEF Post, c, n

LEMMA CommitKept ==
    ASSUME TypeInv, KeptInv, NEW s \in Sweeps,
           \/ Write(s)
           \/ \E c \in Convs : RemoveWrite(s, c)
           \/ \E ok \in BOOLEAN : RemovePost(s, ok)
    PROVE  KeptInv'
<1>0. sweep[s] \in SweepRec
    BY DEF TypeInv, SweepOK
<1>1. CASE Write(s)
    <2> DEFINE pc == IF NotYetMember(sweep[s].conv) THEN "post" ELSE "convs"
               r == [sweep[s] EXCEPT !.pc = pc]
    <2>1. r.kp = sweep[s].kp /\ Holds(s) /\ SweepGoes(s, r)
        BY <1>0, <1>1 DEF Write, Holds, SweepRec
    <2> HIDE DEF r
    <2> QED
        BY <1>1, <2>1, SweepGoesKept DEF Write, server
<1>2. ASSUME NEW c \in Convs, RemoveWrite(s, c)
      PROVE  KeptInv'
    <2> DEFINE left == [sweep[s] EXCEPT !.todo = @ \ {c}]
               r == [left EXCEPT !.pc = "remove", !.conv = c]
    <2>1. left \in SweepRec /\ left.pc = "leaves"
        BY <1>0, <1>2 DEF RemoveWrite, SweepIs, SweepRec
    <2>2. r.pc = "remove"
        BY <2>1 DEF SweepRec
    <2>3. SweepGoes(s, left) \/ SweepGoes(s, r)
        BY <1>2 DEF RemoveWrite
    <2> HIDE DEF left, r
    <2> QED
        BY <1>2, <2>1, <2>2, <2>3, SweepGoesKept DEF RemoveWrite, server
<1>3. ASSUME NEW ok \in BOOLEAN, RemovePost(s, ok)
      PROVE  KeptInv'
    <2> DEFINE r == [sweep[s] EXCEPT !.pc = "leaves", !.conv = "none", !.kp = 0]
    <2>1. r.pc = "leaves" /\ SweepGoes(s, r)
        BY <1>0, <1>3 DEF RemovePost, Posted, SweepRec
    <2> HIDE DEF r
    <2> QED
        BY <1>3, <2>1, SweepGoesKept DEF RemovePost
<1> QED
    BY <1>1, <1>2, <1>3

(* The sweeps between their commits, and their end. *)
LEMMA OtherKept ==
    ASSUME TypeInv, KeptInv,
           \/ \E s \in Sweeps : SweepEnds(s)
           \/ HandleDeviceNew \/ HandleDeviceRevoked \/ CoolDown
           \/ \E ok \in BOOLEAN : LoadPage(ok) \/ Connect(ok) \/ AskPending(ok)
           \/ OldDies \/ UNCHANGED vars
    PROVE  KeptInv'
<1> USE IdleFacts
<1>1. ASSUME NEW s \in Sweeps, SweepEnds(s)
      PROVE  KeptInv'
    <2> DEFINE r == [sweep[s] EXCEPT !.pc = "page"]
    <2>1. r.pc = "page"
        BY DEF TypeInv, SweepOK, SweepRec
    <2>2. SweepGoes(s, IF s = "nudge" THEN r ELSE NoSweep)
        BY <1>1 DEF SweepEnds
    <2> HIDE DEF r
    <2> QED
        BY <1>1, <2>1, <2>2, SweepGoesKept DEF SweepEnds, server
<1>2. ASSUME NEW ok \in BOOLEAN, LoadPage(ok)
      PROVE  KeptInv'
    <2> DEFINE r == [NoSweep EXCEPT !.pc = "convs", !.rest = Tail(sweep["nudge"].rest),
                                    !.todo = IF ok THEN Head(sweep["nudge"].rest) ELSE {}]
    <2>1. r.pc = "convs"
        BY DEF SweepRec
    <2>2. "nudge" \in Sweeps /\ (SweepGoes("nudge", NoSweep) \/ SweepGoes("nudge", r))
        BY <1>2 DEF LoadPage, Sweeps
    <2> HIDE DEF r
    <2> QED
        BY <1>2, <2>1, <2>2, SweepGoesKept DEF LoadPage, server
<1>3. ASSUME NEW ok \in BOOLEAN, Connect(ok) \/ AskPending(ok)
      PROVE  KeptInv'
    <2> DEFINE r == [NoSweep EXCEPT !.pc = "leaves",
                                    !.todo = IF cooled /\ revoked /\ ok THEN member' ELSE {}]
               q == [NoSweep EXCEPT !.pc = "convs", !.todo = Pending]
    <2>1. r.pc = "leaves" /\ q.pc = "convs"
        BY DEF SweepRec
    <2>2. /\ "connect" \in Sweeps
          /\ \/ SweepGoes("connect", NoSweep)
             \/ SweepGoes("connect", r)
             \/ SweepGoes("connect", q)
        BY <1>3 DEF Connect, AskPending, Sweeps
    <2> HIDE DEF r, q
    <2> QED
        BY <1>3, <2>1, <2>2, SweepGoesKept DEF Connect, AskPending, server
<1>4. CASE HandleDeviceNew \/ HandleDeviceRevoked
    <2>1. /\ UNCHANGED <<newDevice, server>>
          /\ \E s \in Sweeps, r \in
                 {[NoSweep EXCEPT !.pc = "page", !.rest = Pages],
                  [NoSweep EXCEPT !.pc = "leaves", !.todo = member]} : SweepGoes(s, r)
        BY <1>4 DEF HandleDeviceNew, HandleDeviceRevoked, Sweeps
    <2>2. /\ [NoSweep EXCEPT !.pc = "page", !.rest = Pages].pc = "page"
          /\ [NoSweep EXCEPT !.pc = "leaves", !.todo = member].pc = "leaves"
        BY DEF SweepRec
    <2> QED
        BY <2>1, <2>2, SweepGoesKept DEF server
<1>5. CASE CoolDown \/ UNCHANGED vars
    BY <1>5, SweepsKept DEF CoolDown, vars, oldDevice, server, newDevice, Holds, SweepIs
<1>6. CASE OldDies
    BY <1>6, SweepsKept DEF OldDies, Holds, SweepIs
<1> QED
    BY <1>1, <1>2, <1>3, <1>4, <1>5, <1>6

LEMMA KeptStep ==
    ASSUME TypeInv, BoundInv, KeptAndTrusted => KeptInv, [Next]_vars, KeptAndTrusted'
    PROVE  KeptInv'
<1>1. KeptAndTrusted /\ KeptInv
    BY UndisturbedBefore
<1>2. ~NewIsWiped /\ ~Revoke
    BY <1>1 DEF NewIsWiped, Revoke, KeptAndTrusted
<1>3. CASE NewDies
    <2>1. Sent' = Sent /\ (NoneSentTwice' <=> NoneSentTwice) /\ \A e \in Callers : ~Refills(e)'
        BY <1>3, SentFrame, IdleFacts DEF NewDies, oldDevice, server, Refills, EnsureIs
    <2> QED
        BY <1>1, <1>3, <2>1 DEF NewDies, server, KeptInv, LocalIsMinted, PoolIsKept,
            BatchIsNew, SentIsKept
<1> QED
    BY <1>1, <1>2, <1>3, EnsureKept, JoinKept, ProvisionKept, PostKept, CommitKept,
        OtherKept DEF Next, SweepStep

(* Every Welcome the new device has not taken is for a key package whose   *)
(* private half it holds, whenever either app is killed, requests fail and *)
(* sweeps overlap: until the storage is wiped or the device revoked        *)
(* (refillPool stores before it uploads; a key package is claimed once).   *)
THEOREM WelcomesStayJoinable == Spec => []WelcomesAreJoinableIfKept
<1>1. TypeInv /\ BoundInv /\ (KeptAndTrusted => KeptInv) /\ [Next]_vars
          => (KeptAndTrusted => KeptInv)'
    BY KeptStep DEF KeptAndTrusted
<1>2. TypeInv /\ BoundInv /\ [Next]_vars => BoundInv'
    BY BoundStep
<1>3. Init => (KeptAndTrusted => KeptInv)
    BY KeptInit
<1>4. (KeptAndTrusted => KeptInv) => WelcomesAreJoinableIfKept
    BY DEF KeptAndTrusted, KeptInv, SentIsKept, Sent, Waiting, Open,
        WelcomesAreJoinableIfKept, WelcomesAreJoinable
<1> QED
    BY <1>1, <1>2, <1>3, <1>4, BoundInit, TypeCorrect, PTL DEF Spec

=============================================================================
