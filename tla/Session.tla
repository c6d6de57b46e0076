------------------------------- MODULE Session -------------------------------
(***************************************************************************)
(* The accounts of the app and their credentials (auth.service.ts,         *)
(* api-client.service.ts, token.repository.ts, oauth.service.ts).          *)
(*                                                                         *)
(* One account is active.  Its tokens are refreshed through one shared     *)
(* promise, those of another account through a promise of its own, and a   *)
(* refresh token is spent by its first use.  Restoring a session, switching*)
(* and logging out each take several awaits; the timers go on meanwhile.   *)
(* Next to the app's own tokens there is one AT Protocol (OAuth) session,  *)
(* which the writes to the user's repository go through.                   *)
(***************************************************************************)
EXTENDS Integers, FiniteSets

CONSTANTS
    Accounts,
    NoOne,            \* no account
    MaxTokens,        \* bound: token pairs issued to one account
    MaxCrossed,       \* bound: accounts crossed once which the user waits again
    Worlds            \* what may happen, a set of the following for each world

(* "intrude": the user and the timers act while refreshes and changes are  *)
(* under way; "blip": a request fails without an answer, a bootstrap fails;*)
(* "kill": the app is killed; "revoke": another device ends a session;     *)
(* "block": on the web, the deletion of a database waits for a connection  *)
(* that nobody closes.                                                     *)
Hardships == {"intrude", "blip", "kill", "revoke", "block"}

ASSUME ConstantsAssumption ==
    /\ NoOne \notin Accounts
    /\ MaxTokens \in Nat \ {0} /\ MaxCrossed \in Nat
    /\ Worlds \subseteq SUBSET Hardships

VARIABLES
    stored,     \* auth.accessToken.<did>, auth.refreshToken.<did>
    active,     \* auth.activeDid
    list,       \* auth.accounts
    user,       \* currentUser, set and cleared with isAuthenticated
    adding,     \* add_account_mode
    refresh,    \* ApiClientService.refreshing
    secondary,  \* refreshSecondaryPromises
    restore,    \* restoreSessionPromises
    change,     \* the login, switch or logout under way
    wiping,     \* the account clearSession is wiping
    oauth,      \* OAuthService._session
    granted,    \* the accounts whose OAuth session the library has stored
    issued,     \* server: token pairs issued so far; the last one is good
    expired,    \* server: the accounts whose access token has expired
    revoked,    \* server: the accounts whose session has ended
    crossed,    \* history: the accounts that became active while another one's
                \* token was in the shared refresh, or their own refresh under way
    world       \* what may happen in this behaviour

tokens == <<stored, issued, expired, revoked>>
pds == <<oauth, granted>>
history == <<crossed, world>>
vars == <<tokens, active, list, user, adding, refresh, secondary, restore,
          change, wiping, pds, history>>

May(what) == what \in world
Intrudes == May("intrude") /\ Cardinality(crossed) < MaxCrossed

-----------------------------------------------------------------------------
NoToken == [of |-> NoOne, gen |-> 0]
NoTokens == [access |-> NoToken, refresh |-> NoToken]
NoRefresh == [pc |-> "idle", token |-> NoToken, tidy |-> FALSE]
NoRestore == [pc |-> "idle", token |-> NoToken, last |-> FALSE]
NoChange == [pc |-> "idle", to |-> NoOne, token |-> NoToken, last |-> FALSE]

TokensOf(a) == IF a = NoOne THEN NoTokens ELSE stored[a]

(* The server's verdicts on an access and on a refresh token. *)
Good(t) == t # NoToken /\ t.gen = issued[t.of] /\ t.of \notin revoked
Accepted(t) == Good(t) /\ t.of \notin expired

Refreshing == refresh.pc # "idle" \/ \E a \in Accounts : secondary[a].pc # "idle"
Restoring == \E a \in Accounts : restore[a].pc # "idle"

(* The user acts once the pages have settled. *)
UserMayAct == /\ wiping = NoOne /\ ~Restoring
              /\ \/ change.pc = "idle" /\ ~Refreshing
                 \/ change.pc \in {"idle", "blocked"} /\ Intrudes

(* A timer, the socket, a poll or a page asks for a refresh. *)
MayTrigger == Intrudes \/ (change.pc = "idle" /\ wiping = NoOne)

Init ==
    /\ stored = [a \in Accounts |-> NoTokens]
    /\ active = NoOne
    /\ list = {}
    /\ user = NoOne
    /\ adding = FALSE
    /\ refresh = NoRefresh
    /\ secondary = [a \in Accounts |-> NoRefresh]
    /\ restore = [a \in Accounts |-> NoRestore]
    /\ change = NoChange
    /\ wiping = NoOne
    /\ oauth = NoOne
    /\ granted = {}
    /\ issued = [a \in Accounts |-> 0]
    /\ expired = {}
    /\ revoked = {}
    /\ crossed = {}
    /\ world \in Worlds

(* Account b, or none, becomes the active one. *)
Activate(b) ==
    /\ active' = b
    /\ crossed' = IF \/ refresh.pc # "idle" /\ refresh.token.of \notin {b, NoOne}
                     \/ b \in Accounts /\ secondary[b].pc # "idle"
                  THEN crossed \cup {b} ELSE crossed

-----------------------------------------------------------------------------
(* The shared refresh (ensureRefresh, doRefresh).                          *)

(* The refresh after someone asked for one: joined, or started with the    *)
(* token of the account active now.  tidy says that refreshTokens is among *)
(* those who wait, which cleans up after a failure.                        *)
Ensured(tidy) ==
    IF refresh.pc # "idle"
    THEN [refresh EXCEPT !.tidy = @ \/ tidy]
    ELSE LET t == TokensOf(active).refresh
         IN [pc |-> IF t = NoToken THEN "refused" ELSE "sent",
             token |-> t, tidy |-> tidy]

(* The server answers a refresh (external): the token is spent. *)
Rotated(t) ==
    /\ Good(t) /\ issued[t.of] < MaxTokens
    /\ issued' = [issued EXCEPT ![t.of] = @ + 1]
    /\ expired' = expired \ {t.of}

(* At the bound on tokens the answer is lost, as it may be anywhere. *)
Unanswered(t) == May("blip") \/ (Good(t) /\ issued[t.of] = MaxTokens)

Fresh(t) == [t EXCEPT !.gen = issued[t.of] + 1]

(* The proactive timer, and the socket's UNAUTHORIZED. *)
RefreshTokens ==
    /\ MayTrigger
    /\ user # NoOne
    /\ refresh' = Ensured(TRUE)
    /\ UNCHANGED <<tokens, active, list, user, adding, secondary, restore,
                   change, wiping, pds, history>>

(* A page's or a service's request was answered with a 401. *)
RefreshAfter401 ==
    /\ MayTrigger
    /\ user # NoOne
    /\ ~Accepted(TokensOf(active).access)
    /\ refresh' = Ensured(FALSE)
    /\ UNCHANGED <<tokens, active, list, user, adding, secondary, restore,
                   change, wiping, pds, history>>

RefreshAnswered ==
    /\ refresh.pc = "sent"
    /\ \/ /\ Rotated(refresh.token)
          /\ \/ refresh' = [refresh EXCEPT !.pc = "granted", !.token = Fresh(@)]
             \/ May("blip") /\ refresh' = [refresh EXCEPT !.pc = "blip"]
       \/ /\ ~Good(refresh.token)
          /\ refresh' = [refresh EXCEPT !.pc = "refused"]
          /\ UNCHANGED <<issued, expired>>
       \/ /\ Unanswered(refresh.token)
          /\ refresh' = [refresh EXCEPT !.pc = "blip"]
          /\ UNCHANGED <<issued, expired>>
    /\ UNCHANGED <<stored, revoked, active, list, user, adding, secondary,
                   restore, change, wiping, pds, history>>

(* setAccessToken, under the account active then ... *)
StoreAccess ==
    /\ refresh.pc = "granted"
    /\ refresh' = [refresh EXCEPT !.pc = "half"]
    /\ stored' = IF active = NoOne THEN stored
                 ELSE [stored EXCEPT ![active].access = refresh.token]
    /\ UNCHANGED <<issued, expired, revoked, active, list, user, adding,
                   secondary, restore, change, wiping, pds, history>>

\* A slip: a request that waited for a refresh that failed goes on waiting.
ResumedIfRefreshed(waiter, ok, now) ==
    IF waiter.pc # "await" \/ ~ok THEN waiter
    ELSE [waiter EXCEPT !.pc = "sent", !.token = now, !.last = TRUE]

(* The waiting requests go on: again with the token stored now, or not. *)
Resumed(waiter, ok, now) ==
    IF waiter.pc # "await" THEN waiter
    ELSE IF ok THEN [waiter EXCEPT !.pc = "sent", !.token = now, !.last = TRUE]
    ELSE [waiter EXCEPT !.pc = "failed"]

AllResume(ok, now) ==
    /\ refresh' = NoRefresh
    /\ restore' = [a \in Accounts |-> Resumed(restore[a], ok, now)]
    /\ change' = Resumed(change, ok, now)

(* ... and setRefreshToken likewise. *)
StoreRefresh ==
    /\ refresh.pc = "half"
    /\ stored' = IF active = NoOne THEN stored
                 ELSE [stored EXCEPT ![active].refresh = refresh.token]
    /\ AllResume(TRUE, IF active = NoOne THEN NoToken ELSE stored'[active].access)
    /\ UNCHANGED <<issued, expired, revoked, active, list, user, adding,
                   secondary, wiping, pds, history>>

(* No tokens come: refused ones are cleared.  refreshTokens then ends the  *)
(* session (clearSession), whatever the failure was.                       *)
RefreshFails ==
    LET ends == refresh.tidy /\ user # NoOne
    IN /\ refresh.pc \in {"refused", "blip"}
       /\ AllResume(FALSE, NoToken)
       /\ stored' = IF active # NoOne /\ (refresh.pc = "refused" \/ ends)
                    THEN [stored EXCEPT ![active] = NoTokens] ELSE stored
       /\ wiping' = IF ends THEN user ELSE wiping
       /\ user' = IF ends THEN NoOne ELSE user
       /\ UNCHANGED <<issued, expired, revoked, active, list, adding, secondary, pds, history>>

(* clearSessionForDid, which nothing waits for here. *)
WipeSession ==
    /\ wiping # NoOne
    /\ wiping' = NoOne
    /\ UNCHANGED <<tokens, active, list, user, adding, refresh, secondary, restore,
                   change, pds, history>>

-----------------------------------------------------------------------------
(* The refresh of a linked account whose own token was answered with a 401.*)

\* A slip: the active account is refreshed like any other one.
RefreshAnyDid(a) ==
    /\ MayTrigger
    /\ a \in list
    /\ stored[a].access # NoToken /\ ~Accepted(stored[a].access)
    /\ secondary[a].pc = "idle" /\ stored[a].refresh # NoToken
    /\ secondary' = [secondary EXCEPT ![a] = [@ EXCEPT
                        !.pc = "sent", !.token = stored[a].refresh]]
    /\ UNCHANGED <<tokens, active, list, user, adding, refresh, restore, change,
                   wiping, pds, history>>

RefreshTokensForDid(a) ==
    /\ MayTrigger
    /\ a \in list
    /\ stored[a].access # NoToken /\ ~Accepted(stored[a].access)
    /\ \/ /\ a = active
          /\ refresh' = Ensured(TRUE)
          /\ UNCHANGED secondary
       \/ /\ a # active /\ secondary[a].pc = "idle" /\ stored[a].refresh # NoToken
          /\ secondary' = [secondary EXCEPT ![a] = [@ EXCEPT
                              !.pc = "sent", !.token = stored[a].refresh]]
          /\ UNCHANGED refresh
    /\ UNCHANGED <<tokens, active, list, user, adding, restore, change, wiping, pds, history>>

(* The poll for unread messages asks for every account but the user's. *)
PollBadges(a) == a # user /\ RefreshTokensForDid(a)

(* The push token is sent for every linked account, the active one too. *)
UploadPushToken(a) == RefreshTokensForDid(a)

SecondaryAnswered(a) ==
    /\ secondary[a].pc = "sent"
    /\ \/ /\ Rotated(secondary[a].token)
          /\ \/ secondary' = [secondary EXCEPT ![a].pc = "granted", ![a].token = Fresh(@)]
             \/ May("blip") /\ secondary' = [secondary EXCEPT ![a] = NoRefresh]
       \/ /\ Unanswered(secondary[a].token) \/ ~Good(secondary[a].token)
          /\ secondary' = [secondary EXCEPT ![a] = NoRefresh]
          /\ UNCHANGED <<issued, expired>>
    /\ UNCHANGED <<stored, revoked, active, list, user, adding, refresh,
                   restore, change, wiping, pds, history>>

\* A slip: the tokens are stored without a did, for the active account.
StoreSecondaryUnscoped(a) ==
    /\ secondary[a].pc = "granted"
    /\ stored' = IF active = NoOne THEN stored
                 ELSE [stored EXCEPT ![active] = [access  |-> secondary[a].token,
                                                  refresh |-> secondary[a].token]]
    /\ secondary' = [secondary EXCEPT ![a] = NoRefresh]
    /\ UNCHANGED <<issued, expired, revoked, active, list, user, adding,
                   refresh, restore, change, wiping, pds, history>>

StoreSecondary(a) ==
    /\ secondary[a].pc = "granted"
    /\ stored' = [stored EXCEPT ![a] = [access  |-> secondary[a].token,
                                        refresh |-> secondary[a].token]]
    /\ secondary' = [secondary EXCEPT ![a] = NoRefresh]
    /\ UNCHANGED <<issued, expired, revoked, active, list, user, adding,
                   refresh, restore, change, wiping, pds, history>>

-----------------------------------------------------------------------------
(* restoreSession, shared by its callers for one active account.           *)

(* The restore of account k from its first await on; without a token, or   *)
(* while an account is being added, it fails at once.                      *)
Begun(k) ==
    IF restore[k].pc # "idle" THEN restore[k]
    ELSE IF adding \/ stored[k].access = NoToken THEN [NoRestore EXCEPT !.pc = "failed"]
    ELSE [NoRestore EXCEPT !.pc = "sent", !.token = stored[k].access]

(* A guard, the login page or a notification that was tapped. *)
RestoreSession ==
    /\ UserMayAct
    /\ user = NoOne /\ active # NoOne
    /\ ~adding /\ stored[active].access # NoToken
    /\ restore' = [restore EXCEPT ![active] = Begun(active)]
    /\ UNCHANGED <<tokens, active, list, user, adding, refresh, secondary,
                   change, wiping, pds, history>>

(* tryRestore: the account's stored OAuth session, else the last one used. *)
Reopened(o, a) ==
    IF o # NoOne THEN {o}
    ELSE IF a \in granted THEN {a}
    ELSE IF granted = {} THEN {NoOne} ELSE granted

(* GET /v1/auth/me: the session is that of the token's owner. *)
EnterSession(k) ==
    LET who == restore[k].token.of
    IN /\ restore[k].pc = "sent"
       /\ Accepted(restore[k].token)
       /\ restore' = [restore EXCEPT ![k].pc = "boot"]
       /\ user' = who
       /\ list' = list \cup {who}
       /\ oauth' \in Reopened(oauth, active)
       /\ UNCHANGED <<tokens, active, adding, refresh, secondary, change,
                      wiping, granted, history>>

SessionDenied(k) ==
    /\ restore[k].pc = "sent"
    /\ \/ /\ ~Accepted(restore[k].token) /\ ~restore[k].last
          /\ restore' = [restore EXCEPT ![k].pc = "await"]
          /\ refresh' = Ensured(FALSE)
       \/ /\ May("blip") \/ (~Accepted(restore[k].token) /\ restore[k].last)
          /\ restore' = [restore EXCEPT ![k].pc = "failed"]
          /\ UNCHANGED refresh
    /\ UNCHANGED <<tokens, active, list, user, adding, secondary, change,
                   wiping, pds, history>>

(* initializeForSession and ensureKeyPackagePool, tried four times. *)
Bootstrap(k) ==
    /\ restore[k].pc = "boot"
    /\ \/ /\ restore' = [restore EXCEPT ![k].pc = "restored"]
          /\ UNCHANGED user
       \/ /\ May("blip")
          /\ user' = NoOne
          /\ restore' = [restore EXCEPT ![k].pc = "failed"]
    /\ UNCHANGED <<tokens, active, list, adding, refresh, secondary, change, wiping, pds, history>>

(* The promise settles, and the switch that waits for it goes on. *)
RestoreEnds(k) ==
    /\ restore[k].pc \in {"restored", "failed"}
    /\ restore' = [restore EXCEPT ![k] = NoRestore]
    /\ change' = IF change.pc # "switch" \/ change.to # k THEN change
                 ELSE IF restore[k].pc = "restored" THEN NoChange
                 ELSE [change EXCEPT !.pc = "fallback"]
    /\ UNCHANGED <<tokens, active, list, user, adding, refresh, secondary,
                   wiping, pds, history>>

-----------------------------------------------------------------------------
(* Login, switch and logout.                                               *)

(* The user authorises the app; the session comes with the redirect. *)
SignIn(a) ==
    /\ UserMayAct
    /\ user = NoOne /\ oauth = NoOne
    /\ oauth' = a
    /\ granted' = granted \cup {a}
    /\ UNCHANGED <<tokens, active, list, user, adding, refresh, secondary,
                   restore, change, wiping, history>>

(* The login page consumes the OAuth session there is. *)
LoginWithOAuthSession ==
    /\ UserMayAct
    /\ user = NoOne /\ oauth # NoOne
    /\ issued[oauth] < MaxTokens
    /\ LET t == [of |-> oauth, gen |-> issued[oauth] + 1]
       IN /\ issued' = [issued EXCEPT ![oauth] = @ + 1]
          /\ stored' = [stored EXCEPT ![oauth] = [access |-> t, refresh |-> t]]
    /\ expired' = expired \ {oauth}
    /\ revoked' = revoked \ {oauth}
    /\ Activate(oauth)
    /\ list' = list \cup {oauth}
    /\ user' = oauth
    /\ adding' = FALSE
    /\ change' = [NoChange EXCEPT !.pc = "login", !.to = oauth]
    /\ UNCHANGED <<refresh, secondary, restore, wiping, pds, world>>

(* A login whose bootstrap fails leaves its tokens. *)
LoginBootstrap ==
    /\ change.pc = "login"
    /\ \/ UNCHANGED user
       \/ May("blip") /\ user' = NoOne
    /\ change' = NoChange
    /\ UNCHANGED <<tokens, active, list, adding, refresh, secondary, restore, wiping, pds, history>>

PrepareForAddAccount ==
    /\ UserMayAct
    /\ user # NoOne
    /\ adding' = TRUE
    /\ user' = NoOne
    /\ oauth' = NoOne
    /\ UNCHANGED <<tokens, active, list, refresh, secondary, restore, change,
                   wiping, granted, history>>

(* The active account changes; the user of the session does so later. *)
Switch(b) ==
    /\ Activate(b)
    /\ change' = [NoChange EXCEPT !.pc = "switch", !.to = b]
    /\ restore' = [restore EXCEPT ![b] = Begun(b)]

SwitchAccount(b) ==
    /\ UserMayAct
    /\ user # NoOne /\ b \in list \ {active}
    /\ Switch(b)
    /\ UNCHANGED <<tokens, list, user, adding, refresh, secondary, wiping, pds, world>>

Fallback ==
    /\ change.pc = "fallback"
    /\ list' = list \ {change.to}
    /\ change' = [change EXCEPT !.pc = "next"]
    /\ UNCHANGED <<tokens, active, user, adding, refresh, secondary, restore,
                   wiping, pds, history>>

(* Another account of the list, or none. *)
NextAccount ==
    /\ change.pc = "next"
    /\ \/ /\ list # {}
          /\ \E b \in list : Switch(b)
          /\ UNCHANGED user
       \/ /\ list = {}
          /\ Activate(NoOne)
          /\ user' = NoOne
          /\ change' = NoChange
          /\ UNCHANGED restore
    /\ UNCHANGED <<tokens, list, adding, refresh, secondary, wiping, pds, world>>

(* logout asks the server first, if there is a token. *)
Logout ==
    /\ UserMayAct
    /\ user # NoOne
    /\ LET t == TokensOf(active).access
       IN change' = [pc |-> IF t = NoToken THEN "failed" ELSE "sent",
                     to |-> user, token |-> t, last |-> FALSE]
    /\ UNCHANGED <<tokens, active, list, user, adding, refresh, secondary,
                   restore, wiping, pds, history>>

LogoutAnswered ==
    /\ change.pc = "sent"
    /\ \/ /\ Accepted(change.token)
          /\ revoked' = revoked \cup {change.token.of}
          /\ change' = [change EXCEPT !.pc = "failed"]
          /\ UNCHANGED refresh
       \/ /\ ~Accepted(change.token) /\ ~change.last
          /\ change' = [change EXCEPT !.pc = "await"]
          /\ refresh' = Ensured(FALSE)
          /\ UNCHANGED revoked
       \/ /\ May("blip") \/ (~Accepted(change.token) /\ change.last)
          /\ change' = [change EXCEPT !.pc = "failed"]
          /\ UNCHANGED <<revoked, refresh>>
    /\ UNCHANGED <<stored, issued, expired, active, list, user, adding,
                   secondary, restore, wiping, pds, history>>

(* Answered or not, the account leaves the device: its OAuth session, which*)
(* is waited for five seconds, ... *)
LogoutOAuth ==
    /\ change.pc = "failed"
    /\ \/ granted' = granted \ {change.to} /\ oauth' = NoOne
       \/ May("blip") /\ UNCHANGED <<granted, oauth>>
    /\ change' = [change EXCEPT !.pc = "remove"]
    /\ UNCHANGED <<tokens, active, list, user, adding, refresh, secondary,
                   restore, wiping, history>>

(* ... its place in the list, ... *)
RemoveAccount ==
    /\ change.pc = "remove"
    /\ list' = list \ {change.to}
    /\ change' = [change EXCEPT !.pc = "clear"]
    /\ UNCHANGED <<tokens, active, user, adding, refresh, secondary, restore,
                   wiping, pds, history>>

(* ... its tokens, ... *)
ClearTokens ==
    /\ change.pc = "clear"
    /\ stored' = [stored EXCEPT ![change.to] = NoTokens]
    /\ change' = [change EXCEPT !.pc = "wipe"]
    /\ UNCHANGED <<issued, expired, revoked, active, list, user, adding,
                   refresh, secondary, restore, wiping, pds, history>>

(* ... and what the device keeps for it (clearSessionForDid): there the    *)
(* deletion of a database has no handler for being blocked. *)
ClearForDid ==
    /\ change.pc = "wipe"
    /\ \/ change' = [change EXCEPT !.pc = "next"]
       \/ May("block") /\ change' = [change EXCEPT !.pc = "blocked"]
    /\ UNCHANGED <<tokens, active, list, user, adding, refresh, secondary, restore,
                   wiping, pds, history>>

-----------------------------------------------------------------------------
(* A declaration, preference or note is written for the user, to the       *)
(* repository of the session there is, else of one that can be reopened.   *)
EnsureSession ==
    /\ user # NoOne
    /\ oauth' \in Reopened(oauth, user)
    /\ UNCHANGED <<tokens, active, list, user, adding, refresh, secondary,
                   restore, change, wiping, granted, history>>

(* Time: an access token that is kept here expires (external). *)
Expire(a) ==
    /\ \E b \in Accounts : stored[b].access.of = a /\ Accepted(stored[b].access)
    /\ expired' = expired \cup {a}
    /\ UNCHANGED <<stored, issued, revoked, active, list, user, adding,
                   refresh, secondary, restore, change, wiping, pds, history>>

(* Another device revokes this one (external). *)
Revoke(a) ==
    /\ May("revoke") /\ issued[a] > 0
    /\ revoked' = revoked \cup {a}
    /\ UNCHANGED <<stored, issued, expired, active, list, user, adding,
                   refresh, secondary, restore, change, wiping, pds, history>>

(* The app is killed; at its start the library reopens its last session. *)
Crash ==
    /\ May("kill")
    /\ user' = NoOne
    /\ adding' \in {adding, FALSE}
    /\ refresh' = NoRefresh
    /\ secondary' = [a \in Accounts |-> NoRefresh]
    /\ restore' = [a \in Accounts |-> NoRestore]
    /\ change' = NoChange
    /\ wiping' = NoOne
    /\ oauth' \in Reopened(NoOne, NoOne)
    /\ UNCHANGED <<tokens, active, list, granted, history>>

-----------------------------------------------------------------------------
(* What the code goes on with by itself. *)
RefreshSteps == RefreshAnswered \/ StoreAccess \/ StoreRefresh \/ RefreshFails
SecondarySteps(a) == SecondaryAnswered(a) \/ StoreSecondary(a)
RestoreSteps(a) == EnterSession(a) \/ SessionDenied(a) \/ Bootstrap(a) \/ RestoreEnds(a)
LogoutLocally == LogoutOAuth \/ RemoveAccount \/ ClearTokens \/ ClearForDid
ChangeSteps == LoginBootstrap \/ Fallback \/ NextAccount \/ LogoutAnswered \/ LogoutLocally

Next ==
    \/ RefreshTokens \/ RefreshAfter401 \/ RefreshSteps \/ WipeSession
    \/ \E a \in Accounts : \/ PollBadges(a) \/ UploadPushToken(a) \/ SecondarySteps(a)
                           \/ RestoreSteps(a)
                           \/ SignIn(a) \/ SwitchAccount(a)
                           \/ Expire(a) \/ Revoke(a)
    \/ RestoreSession \/ LoginWithOAuthSession \/ PrepareForAddAccount
    \/ Logout \/ ChangeSteps
    \/ EnsureSession \/ Crash

Spec == Init /\ [][Next]_vars

(* Requests are bounded by the client's timeouts, and promises go on. *)
Fairness ==
    /\ WF_vars(RefreshSteps) /\ WF_vars(WipeSession) /\ WF_vars(ChangeSteps)
    /\ \A a \in Accounts : WF_vars(SecondarySteps(a)) /\ WF_vars(RestoreSteps(a))

FairSpec == Spec /\ Fairness

-----------------------------------------------------------------------------
(* An account's keys hold its own tokens, through every refresh, switch,   *)
(* logout and restart, unless it became active while another one's token   *)
(* was in the shared refresh: setAccessToken and setRefreshToken store for *)
(* the account that is active when they run, and the damage stays there.   *)
Own(a) == {stored[a].access.of, stored[a].refresh.of} \subseteq {a, NoOne}
TokensAreOwn == \A a \in Accounts \ crossed : Own(a)

(* A refresh token is in one request only: it can be spent once, and the   *)
(* second request's refusal clears what the first one brought              *)
(* (ensureRefresh, refreshTokensForDid).  A switch in the middle of a      *)
(* refresh breaks it for the two accounts, and for no other ones.          *)
OneSpend ==
    active \notin crossed =>
        \A a \in Accounts \ crossed : refresh.pc = "sent" /\ secondary[a].pc = "sent"
                                          => refresh.token # secondary[a].token

(* Once nothing is under way the user of the session is the account whose  *)
(* tokens the requests carry (switchAccount, restoreSession, logout), and  *)
(* is in the list the menu shows.                                          *)
UserIsActive ==
    change.pc = "idle" /\ ~Restoring /\ user # NoOne => user = active /\ user \in list

(* An account whose data are wiped has been signed out (clearSession).     *)
WipedIsSignedOut == wiping # NoOne => stored[wiping] = NoTokens /\ user # wiping

(* Every login, switch and logout comes to its end, whatever the server    *)
(* and the network do; only a logout may stay, at the one await that has   *)
(* no bound: the deletion of a database that a connection keeps open on the*)
(* web (clearAllForUser has no onblocked handler).                         *)
ChangesEnd == change.pc # "idle" ~> change.pc \in {"idle", "blocked"}

(* api-client.service.ts says that a transient failure must not wipe       *)
(* otherwise valid tokens: a blip clears no good refresh token.            *)
BlipsSpareTokens ==
    [][refresh.pc = "blip" => \A a \in Accounts :
            Good(stored[a].refresh) => stored'[a].refresh = stored[a].refresh]_vars

(* oauth.service.ts says that ensureSession ensures a session for the did  *)
(* it is given, the user's: what is written for the user goes to the       *)
(* user's own repository.                                                  *)
RecordsAreOwn == [][EnsureSession => oauth' \in {user, NoOne}]_vars
=============================================================================
