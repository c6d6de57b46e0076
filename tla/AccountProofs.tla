---------------------------- MODULE AccountProofs ----------------------------
(***************************************************************************)
(* Theorems about what belongs to the accounts of a device: their tokens   *)
(* (Session) and the personal notes of one of them (Notes).                *)
(*                                                                         *)
(* Session, for any set of accounts and any number of tokens: tokens are   *)
(* stored under the account they belong to and none is spent twice, except *)
(* for accounts that became active in the middle of a refresh; and while   *)
(* the user waits for what is under way, who is signed in is the active    *)
(* account, and not one being wiped.  Notes, for any notes   *)
(* and bounds: what is shown as synced has been on the PDS, and as long as *)
(* one device writes and its user waits no text gets older, and when no    *)
(* request fails either, no note is lost and none comes back.              *)
(***************************************************************************)
EXTENDS Session, Notes, TLAPS

USE ConstantsAssumption

-----------------------------------------------------------------------------
(* Session: types, in one named part per variable or per few that go       *)
(* together.                                                               *)

Pcs == {"idle", "sent", "await", "granted", "half", "refused", "blip", "failed", "boot",
        "restored", "login", "switch", "fallback", "remove", "clear", "wipe", "blocked", "next"}
Account == Accounts \cup {NoOne}
Token == {NoToken} \cup [of : Accounts, gen : Nat]
Refresh == [pc : Pcs, token : Token, tidy : BOOLEAN]
Restore == [pc : Pcs, token : Token, last : BOOLEAN]
Change == [pc : Pcs, to : Account, token : Token, last : BOOLEAN]

StoredOK == stored \in [Accounts -> [access : Token, refresh : Token]]
IssuedOK == issued \in [Accounts -> Nat]
ActiveOK == active \in Account /\ user \in Account /\ wiping \in Account
ListOK == list \subseteq Accounts
RefreshOK == refresh \in Refresh
SecondaryOK == secondary \in [Accounts -> Refresh]
RestoreOK == restore \in [Accounts -> Restore]
ChangeOK == change \in Change
OAuthOK == oauth \in Account /\ granted \subseteq Accounts

TypeInv == /\ StoredOK /\ IssuedOK /\ ActiveOK /\ ListOK /\ RefreshOK
           /\ SecondaryOK /\ RestoreOK /\ ChangeOK /\ OAuthOK

LEMMA TokenFacts ==
    /\ NoToken \in Token /\ NoToken.of = NoOne
    /\ NoTokens \in [access : Token, refresh : Token]
    /\ NoTokens.access = NoToken /\ NoTokens.refresh = NoToken
    /\ \A t \in Token : t # NoToken => t.of \in Accounts /\ t.gen \in Nat
    /\ NoRefresh \in Refresh /\ NoRestore \in Restore /\ NoChange \in Change
    /\ NoRefresh.pc = "idle" /\ NoRestore.pc = "idle" /\ NoChange.pc = "idle"
    /\ NoRefresh.token = NoToken
<1>1. NoToken \in Token /\ NoToken.of = NoOne
    BY DEF Token, NoToken
<1>2. /\ NoTokens \in [access : Token, refresh : Token]
      /\ NoTokens.access = NoToken /\ NoTokens.refresh = NoToken
    BY <1>1 DEF NoTokens
<1>3. \A t \in Token : t # NoToken => t.of \in Accounts /\ t.gen \in Nat
    BY DEF Token
<1>4. NoRefresh \in Refresh /\ NoRefresh.pc = "idle" /\ NoRefresh.token = NoToken
    BY <1>1 DEF NoRefresh, Refresh, Pcs
<1>5. NoRestore \in Restore /\ NoRestore.pc = "idle"
    BY <1>1 DEF NoRestore, Restore, Pcs
<1>6. NoChange \in Change /\ NoChange.pc = "idle"
    BY <1>1 DEF NoChange, Change, Pcs, Account
<1> QED
    BY <1>1, <1>2, <1>3, <1>4, <1>5, <1>6

(* The tokens of an account, or none. *)
LEMMA TokensOfFacts ==
    ASSUME TypeInv
    PROVE  /\ TokensOf(active).access \in Token
           /\ TokensOf(active).refresh \in Token
BY TokenFacts DEF TypeInv, StoredOK, ActiveOK, Account, TokensOf

LEMMA EnsuredFacts ==
    ASSUME TypeInv, NEW tidy \in BOOLEAN
    PROVE  /\ Ensured(tidy) \in Refresh
           /\ Ensured(tidy).pc # "idle"
           /\ Ensured(tidy).token \in {refresh.token, TokensOf(active).refresh}
           /\ refresh.pc # "idle" => /\ Ensured(tidy).token = refresh.token
                                     /\ Ensured(tidy).pc = refresh.pc
           /\ refresh.pc = "idle" =>
                 /\ Ensured(tidy).token = TokensOf(active).refresh
                 /\ Ensured(tidy).pc = "sent" => Ensured(tidy).token # NoToken
<1>1. refresh \in Refresh
    BY DEF TypeInv, RefreshOK
<1>2. CASE refresh.pc # "idle"
    <2> DEFINE tid == refresh.tidy \/ tidy
    <2>1. tid \in BOOLEAN
        OBVIOUS
    <2>2. Ensured(tidy) = [refresh EXCEPT !.tidy = tid]
        BY <1>2 DEF Ensured
    <2> HIDE DEF tid
    <2> QED
        BY <1>1, <1>2, <2>1, <2>2 DEF Refresh
<1>3. CASE refresh.pc = "idle"
    <2> DEFINE t == TokensOf(active).refresh
    <2>1. t \in Token /\ Ensured(tidy) = [pc |-> IF t = NoToken THEN "refused" ELSE "sent",
                                         token |-> t, tidy |-> tidy]
        BY <1>3, TokensOfFacts DEF Ensured
    <2> HIDE DEF t
    <2>2. /\ Ensured(tidy) \in Refresh
          /\ Ensured(tidy).pc # "idle"
          /\ Ensured(tidy).token = t
          /\ Ensured(tidy).pc = "sent" => t # NoToken
        BY <2>1 DEF Refresh, Pcs
    <2> QED
        BY <1>3, <2>2 DEF t
<1> QED
    BY <1>2, <1>3

LEMMA ResumedRestore ==
    ASSUME NEW ok, NEW now \in Token, NEW w \in Restore
    PROVE  /\ Resumed(w, ok, now) \in Restore
           /\ Resumed(w, ok, now).pc = "idle" <=> w.pc = "idle"
<1>1. CASE w.pc # "await"
    BY <1>1 DEF Resumed
<1>2. CASE w.pc = "await" /\ ok
    BY <1>2 DEF Resumed, Restore, Pcs
<1>3. CASE w.pc = "await" /\ ~ok
    BY <1>3 DEF Resumed, Restore, Pcs
<1> QED
    BY <1>1, <1>2, <1>3

LEMMA ResumedChange ==
    ASSUME NEW ok, NEW now \in Token, NEW w \in Change
    PROVE  /\ Resumed(w, ok, now) \in Change
           /\ Resumed(w, ok, now).to = w.to
           /\ Resumed(w, ok, now).pc = "idle" <=> w.pc = "idle"
           /\ w.pc = "switch" <=> Resumed(w, ok, now).pc = "switch"
<1>1. CASE w.pc # "await"
    BY <1>1 DEF Resumed
<1>2. CASE w.pc = "await" /\ ok
    BY <1>2 DEF Resumed, Change, Pcs
<1>3. CASE w.pc = "await" /\ ~ok
    BY <1>3 DEF Resumed, Change, Pcs
<1> QED
    BY <1>1, <1>2, <1>3

LEMMA BegunFacts ==
    ASSUME TypeInv, NEW k \in Accounts
    PROVE  Begun(k) \in Restore /\ Begun(k).pc # "idle"
<1>1. restore[k] \in Restore /\ stored[k].access \in Token
    BY DEF TypeInv, StoredOK, RestoreOK
<1>2. NoRestore \in Restore
    BY TokenFacts
<1>3. CASE restore[k].pc # "idle"
    BY <1>1, <1>3 DEF Begun
<1>4. CASE restore[k].pc = "idle" /\ (adding \/ stored[k].access = NoToken)
    <2>1. Begun(k) = [NoRestore EXCEPT !.pc = "failed"]
        BY <1>4 DEF Begun
    <2> QED
        BY <1>2, <2>1 DEF Restore, Pcs
<1>5. CASE restore[k].pc = "idle" /\ ~(adding \/ stored[k].access = NoToken)
    <2>1. Begun(k) = [NoRestore EXCEPT !.pc = "sent", !.token = stored[k].access]
        BY <1>5 DEF Begun
    <2> QED
        BY <1>1, <1>2, <2>1 DEF Restore, Pcs
<1> QED
    BY <1>3, <1>4, <1>5

LEMMA ReopenedFacts ==
    ASSUME TypeInv, NEW o \in Account, NEW a \in Account
    PROVE  Reopened(o, a) \subseteq Account
BY DEF TypeInv, OAuthOK, Reopened, Account

LEMMA FreshFacts ==
    ASSUME TypeInv, NEW t \in Token, t # NoToken
    PROVE  Fresh(t) \in Token /\ Fresh(t).of = t.of
<1>1. t \in [of : Accounts, gen : Nat] /\ issued[t.of] \in Nat
    BY DEF TypeInv, IssuedOK, Token
<1> QED
    BY <1>1 DEF Fresh, Token

LEMMA GoodFacts ==
    ASSUME TypeInv, NEW t \in Token, Rotated(t)
    PROVE  t # NoToken /\ t.of \in Accounts /\ IssuedOK'
<1>1. t # NoToken /\ t.of \in Accounts
    BY TokenFacts DEF Rotated, Good
<1> QED
    BY <1>1 DEF TypeInv, IssuedOK, Rotated

THEOREM TypeInit == Init => TypeInv
<1> SUFFICES ASSUME Init PROVE TypeInv
    OBVIOUS
<1> QED
    BY TokenFacts DEF Init, TypeInv, StoredOK, IssuedOK, ActiveOK, ListOK, RefreshOK,
        SecondaryOK, RestoreOK, ChangeOK, OAuthOK, Account

(* The waiting ones keep their types when a refresh comes to its end. *)
LEMMA AllResumeType ==
    ASSUME TypeInv, NEW ok, NEW now \in Token, AllResume(ok, now)
    PROVE  RefreshOK' /\ RestoreOK' /\ ChangeOK'
<1>1. refresh' \in Refresh
    BY TokenFacts DEF AllResume
<1>2. change' \in Change
    BY ResumedChange DEF AllResume, TypeInv, ChangeOK
<1>3. restore' \in [Accounts -> Restore]
    BY ResumedRestore DEF AllResume, TypeInv, RestoreOK
<1> QED
    BY <1>1, <1>2, <1>3 DEF RefreshOK, RestoreOK, ChangeOK

LEMMA RefreshType ==
    ASSUME TypeInv, RefreshTokens \/ RefreshAfter401 \/ RefreshSteps \/ WipeSession
    PROVE  TypeInv'
<1>1. CASE RefreshTokens \/ RefreshAfter401
    <2>1. refresh' \in Refresh
        BY <1>1, EnsuredFacts DEF RefreshTokens, RefreshAfter401
    <2> QED
        BY <1>1, <2>1 DEF RefreshTokens, RefreshAfter401, TypeInv, StoredOK, IssuedOK,
            ActiveOK, ListOK, RefreshOK, SecondaryOK, RestoreOK, ChangeOK, OAuthOK,
            tokens, pds, history
<1>2. CASE RefreshAnswered
    <2> DEFINE t == refresh.token
    <2>1. refresh \in Refresh /\ t \in Token
        BY DEF TypeInv, RefreshOK, Refresh
    <2>2. IssuedOK'
        BY <1>2, <2>1, GoodFacts DEF RefreshAnswered, TypeInv, IssuedOK
    <2>3. refresh' \in Refresh
        <3>1. CASE Rotated(t) /\ refresh' = [refresh EXCEPT !.pc = "granted", !.token = Fresh(@)]
            <4>1. Fresh(t) \in Token
                BY <2>1, <3>1, GoodFacts, FreshFacts
            <4>2. refresh' = [refresh EXCEPT !.pc = "granted", !.token = Fresh(t)]
                BY <3>1
            <4> QED
                BY <2>1, <4>1, <4>2 DEF Refresh, Pcs
        <3>2. CASE refresh' = [refresh EXCEPT !.pc = "blip"]
                   \/ refresh' = [refresh EXCEPT !.pc = "refused"]
            BY <2>1, <3>2 DEF Refresh, Pcs
        <3> QED
            BY <1>2, <3>1, <3>2 DEF RefreshAnswered
    <2> QED
        BY <1>2, <2>2, <2>3 DEF RefreshAnswered, TypeInv, StoredOK, ActiveOK, ListOK,
            RefreshOK, SecondaryOK, RestoreOK, ChangeOK, OAuthOK, pds, history
<1>3. CASE StoreAccess
    <2>1. refresh \in Refresh /\ refresh.token \in Token
        BY DEF TypeInv, RefreshOK, Refresh
    <2>2. refresh' \in Refresh
        BY <1>3, <2>1 DEF StoreAccess, Refresh, Pcs
    <2>3. StoredOK'
        BY <1>3, <2>1 DEF StoreAccess, TypeInv, StoredOK, ActiveOK, Account
    <2> QED
        BY <1>3, <2>2, <2>3 DEF StoreAccess, TypeInv, IssuedOK, ActiveOK, ListOK,
            RefreshOK, SecondaryOK, RestoreOK, ChangeOK, OAuthOK, pds, history
<1>4. CASE StoreRefresh
    <2>1. refresh.token \in Token
        BY DEF TypeInv, RefreshOK, Refresh
    <2>2. StoredOK'
        BY <1>4, <2>1 DEF StoreRefresh, TypeInv, StoredOK, ActiveOK, Account
    <2>3. PICK now \in Token : AllResume(TRUE, now)
        BY <1>4, <2>2, TokenFacts DEF StoreRefresh, TypeInv, ActiveOK, Account, StoredOK
    <2>4. RefreshOK' /\ RestoreOK' /\ ChangeOK'
        BY <2>3, AllResumeType
    <2> QED
        BY <1>4, <2>2, <2>4 DEF StoreRefresh, TypeInv, IssuedOK, ActiveOK, ListOK,
            SecondaryOK, OAuthOK, pds, history
<1>5. CASE RefreshFails
    <2>1. StoredOK'
        BY <1>5, TokenFacts DEF RefreshFails, TypeInv, StoredOK, ActiveOK, Account
    <2>2. RefreshOK' /\ RestoreOK' /\ ChangeOK'
        BY <1>5, TokenFacts, AllResumeType DEF RefreshFails
    <2>3. ActiveOK'
        BY <1>5 DEF RefreshFails, TypeInv, ActiveOK, Account
    <2> QED
        BY <1>5, <2>1, <2>2, <2>3 DEF RefreshFails, TypeInv, IssuedOK, ListOK,
            SecondaryOK, OAuthOK, pds, history
<1>6. CASE WipeSession
    BY <1>6 DEF WipeSession, TypeInv, StoredOK, IssuedOK, ActiveOK, ListOK, RefreshOK,
        SecondaryOK, RestoreOK, ChangeOK, OAuthOK, Account, tokens, pds, history
<1> QED
    BY <1>1, <1>2, <1>3, <1>4, <1>5, <1>6 DEF RefreshSteps

LEMMA SecondaryType ==
    ASSUME TypeInv, NEW a \in Accounts,
           PollBadges(a) \/ UploadPushToken(a) \/ SecondarySteps(a)
    PROVE  TypeInv'
<1>0. secondary[a] \in Refresh /\ secondary[a].token \in Token
    BY DEF TypeInv, SecondaryOK, Refresh
<1>1. CASE RefreshTokensForDid(a)
    <2>1. refresh' \in Refresh
        BY <1>1, EnsuredFacts DEF RefreshTokensForDid, TypeInv, RefreshOK
    <2>2. stored[a].refresh \in Token
        BY DEF TypeInv, StoredOK
    <2>3. [secondary[a] EXCEPT !.pc = "sent", !.token = stored[a].refresh] \in Refresh
        BY <1>0, <2>2 DEF Refresh, Pcs
    <2>4. secondary' \in [Accounts -> Refresh]
        BY <1>1, <2>3 DEF RefreshTokensForDid, TypeInv, SecondaryOK
    <2> QED
        BY <1>1, <2>1, <2>4 DEF RefreshTokensForDid, TypeInv, StoredOK, IssuedOK,
            ActiveOK, ListOK, RefreshOK, SecondaryOK, RestoreOK, ChangeOK, OAuthOK,
            tokens, pds, history
<1>2. CASE SecondaryAnswered(a)
    <2> DEFINE t == secondary[a].token
    <2>1. IssuedOK'
        BY <1>0, <1>2, GoodFacts DEF SecondaryAnswered, TypeInv, IssuedOK
    <2>2. secondary' \in [Accounts -> Refresh]
        <3>1. CASE Rotated(t)
                   /\ secondary' = [secondary EXCEPT ![a].pc = "granted", ![a].token = Fresh(@)]
            <4> DEFINE r == [secondary[a] EXCEPT !.pc = "granted", !.token = Fresh(t)]
            <4>1. Fresh(t) \in Token
                BY <1>0, <3>1, GoodFacts, FreshFacts
            <4>2. r \in Refresh
                BY <1>0, <4>1 DEF Refresh, Pcs
            <4>3. secondary' = [secondary EXCEPT ![a] = r]
                BY <3>1 DEF TypeInv, SecondaryOK
            <4> HIDE DEF r
            <4> QED
                BY <4>2, <4>3 DEF TypeInv, SecondaryOK
        <3>2. CASE secondary' = [secondary EXCEPT ![a] = NoRefresh]
            BY <3>2, TokenFacts DEF TypeInv, SecondaryOK
        <3> QED
            BY <1>2, <3>1, <3>2 DEF SecondaryAnswered
    <2> QED
        BY <1>2, <2>1, <2>2 DEF SecondaryAnswered, TypeInv, StoredOK, ActiveOK, ListOK,
            RefreshOK, SecondaryOK, RestoreOK, ChangeOK, OAuthOK, pds, history
<1>3. CASE StoreSecondary(a)
    <2>1. StoredOK'
        BY <1>0, <1>3 DEF StoreSecondary, TypeInv, StoredOK
    <2>2. SecondaryOK'
        BY <1>3, TokenFacts DEF StoreSecondary, TypeInv, SecondaryOK
    <2> QED
        BY <1>3, <2>1, <2>2 DEF StoreSecondary, TypeInv, IssuedOK, ActiveOK, ListOK,
            RefreshOK, RestoreOK, ChangeOK, OAuthOK, pds, history
<1> QED
    BY <1>1, <1>2, <1>3 DEF PollBadges, UploadPushToken, SecondarySteps

LEMMA RestoreType ==
    ASSUME TypeInv, NEW a \in Accounts, RestoreSession \/ RestoreSteps(a)
    PROVE  TypeInv'
<1>0. restore[a] \in Restore /\ restore[a].token \in Token
    BY DEF TypeInv, RestoreOK, Restore
<1>1. CASE RestoreSession
    <2>1. active \in Accounts
        BY <1>1 DEF RestoreSession, TypeInv, ActiveOK, Account
    <2>2. RestoreOK'
        BY <1>1, <2>1, BegunFacts DEF RestoreSession, TypeInv, RestoreOK
    <2> QED
        BY <1>1, <2>2 DEF RestoreSession, TypeInv, StoredOK, IssuedOK, ActiveOK, ListOK,
            RefreshOK, SecondaryOK, ChangeOK, OAuthOK, tokens, pds, history
<1>2. CASE EnterSession(a)
    <2>1. restore[a].token.of \in Accounts
        BY <1>0, <1>2, TokenFacts DEF EnterSession, Accepted, Good
    <2>2. oauth' \in Account
        BY <1>2, ReopenedFacts DEF EnterSession, TypeInv, ActiveOK, OAuthOK
    <2>3. RestoreOK'
        BY <1>0, <1>2 DEF EnterSession, TypeInv, RestoreOK, Restore, Pcs
    <2> QED
        BY <1>2, <2>1, <2>2, <2>3 DEF EnterSession, TypeInv, StoredOK, IssuedOK, ActiveOK,
            ListOK, RefreshOK, SecondaryOK, ChangeOK, OAuthOK, Account, tokens
<1>3. CASE SessionDenied(a)
    <2>1. RefreshOK'
        BY <1>3, EnsuredFacts DEF SessionDenied, TypeInv, RefreshOK
    <2>2. PICK pc \in Pcs : restore' = [restore EXCEPT ![a].pc = pc]
        BY <1>3 DEF SessionDenied, Pcs
    <2>3. [restore[a] EXCEPT !.pc = pc] \in Restore
        BY <1>0 DEF Restore
    <2>4. RestoreOK'
        BY <2>2, <2>3 DEF TypeInv, RestoreOK
    <2> QED
        BY <1>3, <2>1, <2>4 DEF SessionDenied, TypeInv, StoredOK, IssuedOK, ActiveOK,
            ListOK, SecondaryOK, ChangeOK, OAuthOK, tokens, pds, history
<1>4. CASE Bootstrap(a)
    <2>1. RestoreOK'
        BY <1>0, <1>4 DEF Bootstrap, TypeInv, RestoreOK, Restore, Pcs
    <2> QED
        BY <1>4, <2>1 DEF Bootstrap, TypeInv, StoredOK, IssuedOK, ActiveOK, ListOK,
            RefreshOK, SecondaryOK, ChangeOK, OAuthOK, Account, tokens, pds, history
<1>5. CASE RestoreEnds(a)
    <2>1. RestoreOK'
        BY <1>5, TokenFacts DEF RestoreEnds, TypeInv, RestoreOK
    <2>2. ChangeOK'
        BY <1>5, TokenFacts DEF RestoreEnds, TypeInv, ChangeOK, Change, Pcs
    <2> QED
        BY <1>5, <2>1, <2>2 DEF RestoreEnds, TypeInv, StoredOK, IssuedOK, ActiveOK,
            ListOK, RefreshOK, SecondaryOK, OAuthOK, tokens, pds, history
<1> QED
    BY <1>1, <1>2, <1>3, <1>4, <1>5 DEF RestoreSteps

(* A change that starts, or goes on at one of its places. *)
LEMMA ChangeRecord ==
    /\ \A pc \in Pcs, to \in Account : [NoChange EXCEPT !.pc = pc, !.to = to] \in Change
    /\ \A c \in Change, pc \in Pcs : [c EXCEPT !.pc = pc] \in Change
<1>1. NoChange \in Change
    BY TokenFacts
<1> QED
    BY <1>1 DEF Change

LEMMA SwitchType ==
    ASSUME TypeInv, NEW b \in Accounts, Switch(b)
    PROVE  active' \in Account /\ RestoreOK' /\ ChangeOK'
<1>1. active' \in Account
    BY DEF Switch, Activate, Account
<1>2. RestoreOK'
    BY BegunFacts DEF Switch, Activate, TypeInv, RestoreOK
<1>3. ChangeOK'
    BY ChangeRecord DEF Switch, Activate, ChangeOK, Pcs, Account
<1> QED
    BY <1>1, <1>2, <1>3

LEMMA ChangeType ==
    ASSUME TypeInv,
           \/ \E a \in Accounts : SignIn(a) \/ SwitchAccount(a)
           \/ LoginWithOAuthSession \/ PrepareForAddAccount \/ Logout \/ ChangeSteps
    PROVE  TypeInv'
<1>0. change \in Change /\ change.token \in Token /\ change.to \in Account
    BY DEF TypeInv, ChangeOK, Change
<1>1. ASSUME NEW a \in Accounts, SignIn(a)
      PROVE  TypeInv'
    BY <1>1 DEF SignIn, TypeInv, StoredOK, IssuedOK, ActiveOK, ListOK, RefreshOK,
        SecondaryOK, RestoreOK, ChangeOK, OAuthOK, Account, tokens
<1>2. ASSUME NEW a \in Accounts, SwitchAccount(a)
      PROVE  TypeInv'
    <2>1. active' \in Account /\ RestoreOK' /\ ChangeOK'
        BY <1>2, SwitchType DEF SwitchAccount
    <2> QED
        BY <1>2, <2>1 DEF SwitchAccount, TypeInv, StoredOK, IssuedOK, ActiveOK, ListOK,
            RefreshOK, SecondaryOK, OAuthOK, tokens, pds, history
<1>3. CASE LoginWithOAuthSession
    <2> DEFINE t == [of |-> oauth, gen |-> issued[oauth] + 1]
    <2>1. oauth \in Accounts
        BY <1>3 DEF LoginWithOAuthSession, TypeInv, OAuthOK, Account
    <2>2. issued[oauth] \in Nat /\ t \in Token
        BY <2>1 DEF TypeInv, IssuedOK, Token
    <2>3. StoredOK'
        BY <1>3, <2>1, <2>2 DEF LoginWithOAuthSession, TypeInv, StoredOK
    <2>4. IssuedOK'
        BY <1>3, <2>1, <2>2 DEF LoginWithOAuthSession, TypeInv, IssuedOK
    <2>5. ChangeOK'
        BY <1>3, <2>1, ChangeRecord DEF LoginWithOAuthSession, ChangeOK, Pcs, Account
    <2> QED
        BY <1>3, <2>1, <2>3, <2>4, <2>5 DEF LoginWithOAuthSession, Activate, TypeInv, ActiveOK,
            ListOK, RefreshOK, SecondaryOK, RestoreOK, OAuthOK, Account, pds, history
<1>4. CASE PrepareForAddAccount
    BY <1>4 DEF PrepareForAddAccount, TypeInv, StoredOK, IssuedOK, ActiveOK, ListOK,
        RefreshOK, SecondaryOK, RestoreOK, ChangeOK, OAuthOK, Account, tokens
<1>5. CASE Logout
    <2>1. ChangeOK'
        BY <1>5, TokensOfFacts DEF Logout, TypeInv, ActiveOK, ChangeOK, Change, Pcs
    <2> QED
        BY <1>5, <2>1 DEF Logout, TypeInv, StoredOK, IssuedOK, ActiveOK, ListOK,
            RefreshOK, SecondaryOK, RestoreOK, OAuthOK, tokens, pds, history
<1>6. CASE LoginBootstrap
    BY <1>6, TokenFacts DEF LoginBootstrap, TypeInv, StoredOK, IssuedOK, ActiveOK, ListOK,
        RefreshOK, SecondaryOK, RestoreOK, ChangeOK, OAuthOK, Account, tokens, pds, history
<1>7. CASE Fallback
    <2>1. ChangeOK'
        BY <1>0, <1>7, ChangeRecord DEF Fallback, ChangeOK, Pcs
    <2> QED
        BY <1>7, <2>1 DEF Fallback, TypeInv, StoredOK, IssuedOK, ActiveOK, ListOK,
            RefreshOK, SecondaryOK, RestoreOK, OAuthOK, tokens, pds, history
<1>8. CASE NextAccount
    <2>1. active' \in Account /\ user' \in Account /\ RestoreOK' /\ ChangeOK'
        <3>1. ASSUME NEW b \in list, Switch(b), UNCHANGED user
              PROVE  active' \in Account /\ user' \in Account /\ RestoreOK' /\ ChangeOK'
            BY <3>1, SwitchType DEF TypeInv, ListOK, ActiveOK
        <3>2. CASE active' = NoOne /\ user' = NoOne /\ change' = NoChange /\ UNCHANGED restore
            BY <3>2, TokenFacts DEF TypeInv, RestoreOK, ChangeOK, Account
        <3> QED
            BY <1>8, <3>1, <3>2 DEF NextAccount, Activate
    <2> QED
        BY <1>8, <2>1 DEF NextAccount, TypeInv, StoredOK, IssuedOK, ActiveOK, ListOK,
            RefreshOK, SecondaryOK, OAuthOK, tokens, pds, history
<1>9. CASE LogoutAnswered
    <2>1. ChangeOK'
        BY <1>0, <1>9, ChangeRecord DEF LogoutAnswered, ChangeOK, Pcs
    <2>2. RefreshOK'
        BY <1>9, EnsuredFacts DEF LogoutAnswered, TypeInv, RefreshOK
    <2> QED
        BY <1>9, <2>1, <2>2 DEF LogoutAnswered, TypeInv, StoredOK, IssuedOK, ActiveOK,
            ListOK, SecondaryOK, RestoreOK, OAuthOK, pds, history
<1>10. CASE LogoutLocally
    <2>1. ChangeOK'
        BY <1>0, <1>10, ChangeRecord DEF LogoutLocally, LogoutOAuth, RemoveAccount, ClearTokens,
            ClearForDid, ChangeOK, Pcs
    <2>2. StoredOK'
        BY <1>10, TokenFacts DEF LogoutLocally, LogoutOAuth, RemoveAccount, ClearTokens, ClearForDid,
            tokens, TypeInv, StoredOK
    <2> QED
        BY <1>10, <2>1, <2>2 DEF LogoutLocally, LogoutOAuth, RemoveAccount, ClearTokens, ClearForDid,
            TypeInv, IssuedOK, ActiveOK, ListOK, RefreshOK, SecondaryOK, RestoreOK, OAuthOK, Account,
            tokens, pds
<1> QED
    BY <1>1, <1>2, <1>3, <1>4, <1>5, <1>6, <1>7, <1>8, <1>9, <1>10 DEF ChangeSteps

LEMMA WorldType ==
    ASSUME TypeInv,
           \/ EnsureSession \/ Crash
           \/ \E a \in Accounts : Expire(a) \/ Revoke(a)
    PROVE  TypeInv'
<1>1. CASE EnsureSession
    <2>1. oauth' \in Account
        BY <1>1, ReopenedFacts DEF EnsureSession, TypeInv, ActiveOK, OAuthOK
    <2> QED
        BY <1>1, <2>1 DEF EnsureSession, TypeInv, StoredOK, IssuedOK, ActiveOK, ListOK,
            RefreshOK, SecondaryOK, RestoreOK, ChangeOK, OAuthOK, tokens
<1>2. CASE Crash
    <2>1. oauth' \in Account
        BY <1>2, ReopenedFacts DEF Crash, Account
    <2> QED
        BY <1>2, <2>1, TokenFacts DEF Crash, TypeInv, StoredOK, IssuedOK, ActiveOK, ListOK,
            RefreshOK, SecondaryOK, RestoreOK, ChangeOK, OAuthOK, Account, tokens
<1>3. ASSUME NEW a \in Accounts, Expire(a) \/ Revoke(a)
      PROVE  TypeInv'
    BY <1>3 DEF Expire, Revoke, TypeInv, StoredOK, IssuedOK, ActiveOK, ListOK,
        RefreshOK, SecondaryOK, RestoreOK, ChangeOK, OAuthOK, pds, history
<1> QED
    BY <1>1, <1>2, <1>3

LEMMA TypeStep ==
    ASSUME TypeInv, [Next]_vars
    PROVE  TypeInv'
<1>1. CASE UNCHANGED vars
    BY <1>1 DEF vars, tokens, pds, history, TypeInv, StoredOK, IssuedOK, ActiveOK, ListOK,
        RefreshOK, SecondaryOK, RestoreOK, ChangeOK, OAuthOK
<1>2. CASE RestoreSession
    <2>1. active \in Accounts
        BY <1>2 DEF RestoreSession, TypeInv, ActiveOK, Account
    <2> QED
        BY <1>2, <2>1, RestoreType
<1>3. CASE Next /\ ~RestoreSession
    BY <1>3, RefreshType, SecondaryType, RestoreType, ChangeType, WorldType DEF Next
<1> QED
    BY <1>1, <1>2, <1>3

(* The tokens, the promises and the sessions keep their types. *)
THEOREM TypeCorrect == Spec => []TypeInv
BY TypeInit, TypeStep, PTL DEF Spec

-----------------------------------------------------------------------------
(* The inductive invariant. *)

(* The tokens on their way belong where they will be stored. *)
RefreshIsOwn == refresh.pc # "idle" => refresh.token.of \in {active, NoOne}
SecondaryIsOwn ==
    \A a \in Accounts :
        /\ secondary[a].token.of \in {a, NoOne}
        /\ secondary[a].pc # "idle" =>
               secondary[a].token # NoToken /\ a # active /\ change.pc = "idle"
SentIsToken == refresh.pc = "sent" => refresh.token # NoToken

(* A login, a switch or a logout is alone: what else is under way is a     *)
(* part of it, and a refresh then has it waiting.                          *)
ChangeIsAlone ==
    change.pc # "idle" =>
        /\ \A a \in Accounts : restore[a].pc # "idle" => change.pc = "switch" /\ a = change.to
        /\ refresh.pc # "idle" =>
              \/ change.pc = "await"
              \/ change.pc = "switch" /\ change.to \in Accounts
                    /\ restore[change.to].pc = "await"

AllOwn == \A a \in Accounts : Own(a)

(* The user waits for what is under way. *)
Waits == ~May("intrude")

OwnInv == /\ AllOwn /\ RefreshIsOwn /\ SecondaryIsOwn /\ SentIsToken /\ ChangeIsAlone

LEMMA OwnInit == Init => OwnInv
BY TokenFacts DEF Init, OwnInv, AllOwn, Own, RefreshIsOwn, SecondaryIsOwn, SentIsToken,
    ChangeIsAlone

(* What leaves these variables alone leaves the invariant alone. *)
LEMMA OwnFrame ==
    ASSUME OwnInv, UNCHANGED <<stored, active, refresh, secondary, restore, change>>
    PROVE  OwnInv'
BY DEF OwnInv, AllOwn, Own, RefreshIsOwn, SecondaryIsOwn, SentIsToken, ChangeIsAlone

(* The shared refresh carries a token of the active account. *)
LEMMA EnsuredOwn ==
    ASSUME TypeInv, OwnInv, NEW tidy \in BOOLEAN
    PROVE  /\ Ensured(tidy).token.of \in {active, NoOne}
           /\ Ensured(tidy).pc = "sent" => Ensured(tidy).token # NoToken
<1>1. TokensOf(active).refresh.of \in {active, NoOne}
    BY TokenFacts DEF TypeInv, ActiveOK, Account, TokensOf, OwnInv, AllOwn, Own
<1> QED
    BY <1>1, EnsuredFacts DEF OwnInv, RefreshIsOwn, SentIsToken

(* A refresh that is asked for, or joined, outside of a change. *)
LEMMA TriggerOwn ==
    ASSUME TypeInv, OwnInv, Waits, MayTrigger, NEW tidy \in BOOLEAN,
           refresh' = Ensured(tidy),
           UNCHANGED <<stored, active, secondary, restore, change>>
    PROVE  OwnInv'
<1>1. change.pc = "idle"
    BY DEF MayTrigger, Intrudes, Waits
<1> QED
    BY <1>1, EnsuredOwn DEF OwnInv, AllOwn, Own, RefreshIsOwn, SecondaryIsOwn,
        SentIsToken, ChangeIsAlone

(* A refresh that comes to its end leaves nobody waiting. *)
LEMMA AllResumeOwn ==
    ASSUME TypeInv, OwnInv, NEW ok, NEW now \in Token, AllResume(ok, now),
           AllOwn', UNCHANGED <<active, secondary>>
    PROVE  OwnInv'
<1>1. refresh'.pc = "idle"
    BY TokenFacts DEF AllResume
<1>2. \A a \in Accounts : restore'[a].pc = "idle" <=> restore[a].pc = "idle"
    BY ResumedRestore DEF AllResume, TypeInv, RestoreOK
<1>3. /\ change'.to = change.to
      /\ change'.pc = "idle" <=> change.pc = "idle"
      /\ change'.pc = "switch" <=> change.pc = "switch"
    BY ResumedChange DEF AllResume, TypeInv, ChangeOK
<1> QED
    BY <1>1, <1>2, <1>3 DEF OwnInv, RefreshIsOwn, SecondaryIsOwn, SentIsToken,
        ChangeIsAlone

LEMMA RefreshOwn ==
    ASSUME TypeInv, OwnInv, Waits,
           RefreshTokens \/ RefreshAfter401 \/ RefreshSteps \/ WipeSession
    PROVE  OwnInv'
<1>1. CASE RefreshTokens \/ RefreshAfter401
    BY <1>1, TriggerOwn DEF RefreshTokens, RefreshAfter401, tokens
<1>2. CASE RefreshAnswered
    <2> DEFINE t == refresh.token
    <2>1. refresh \in Refresh /\ t \in Token
        BY DEF TypeInv, RefreshOK, Refresh
    <2>2. refresh'.token.of = t.of /\ refresh'.pc \notin {"idle", "sent"}
        <3>1. CASE Rotated(t) /\ refresh' = [refresh EXCEPT !.pc = "granted", !.token = Fresh(@)]
            <4>1. Fresh(t).of = t.of
                BY <2>1, <3>1, GoodFacts, FreshFacts
            <4>2. refresh' = [refresh EXCEPT !.pc = "granted", !.token = Fresh(t)]
                BY <3>1
            <4> QED
                BY <2>1, <4>1, <4>2 DEF Refresh
        <3>2. CASE refresh' = [refresh EXCEPT !.pc = "blip"]
                   \/ refresh' = [refresh EXCEPT !.pc = "refused"]
            BY <2>1, <3>2 DEF Refresh
        <3> QED
            BY <1>2, <3>1, <3>2 DEF RefreshAnswered
    <2> QED
        BY <1>2, <2>2 DEF RefreshAnswered, OwnInv, AllOwn, Own, RefreshIsOwn,
            SecondaryIsOwn, SentIsToken, ChangeIsAlone
<1>3. CASE StoreAccess
    <2>1. refresh \in Refresh /\ refresh.token.of \in {active, NoOne}
        BY <1>3 DEF StoreAccess, TypeInv, RefreshOK, OwnInv, RefreshIsOwn
    <2>2. AllOwn'
        BY <1>3, <2>1 DEF StoreAccess, TypeInv, StoredOK, ActiveOK, Account, OwnInv,
            AllOwn, Own
    <2>3. refresh'.token = refresh.token /\ refresh'.pc = "half"
        BY <1>3, <2>1 DEF StoreAccess, Refresh
    <2> QED
        BY <1>3, <2>2, <2>3 DEF StoreAccess, OwnInv, RefreshIsOwn, SecondaryIsOwn,
            SentIsToken, ChangeIsAlone
<1>4. CASE StoreRefresh
    <2>1. refresh.token \in Token /\ refresh.token.of \in {active, NoOne}
        BY <1>4 DEF StoreRefresh, TypeInv, RefreshOK, Refresh, OwnInv, RefreshIsOwn
    <2>2. StoredOK' /\ AllOwn'
        BY <1>4, <2>1 DEF StoreRefresh, TypeInv, StoredOK, ActiveOK, Account, OwnInv,
            AllOwn, Own
    <2>3. PICK now \in Token : AllResume(TRUE, now)
        BY <1>4, <2>2, TokenFacts DEF StoreRefresh, TypeInv, ActiveOK, Account, StoredOK
    <2> QED
        BY <1>4, <2>2, <2>3, AllResumeOwn DEF StoreRefresh
<1>5. CASE RefreshFails
    <2>1. AllOwn'
        BY <1>5, TokenFacts DEF RefreshFails, TypeInv, StoredOK, ActiveOK, Account, OwnInv,
            AllOwn, Own
    <2> QED
        BY <1>5, <2>1, TokenFacts, AllResumeOwn DEF RefreshFails
<1>6. CASE WipeSession
    BY <1>6, OwnFrame DEF WipeSession, tokens
<1> QED
    BY <1>1, <1>2, <1>3, <1>4, <1>5, <1>6 DEF RefreshSteps

LEMMA SecondaryOwn ==
    ASSUME TypeInv, OwnInv, Waits, NEW a \in Accounts,
           PollBadges(a) \/ UploadPushToken(a) \/ SecondarySteps(a)
    PROVE  OwnInv'
<1>0. secondary[a] \in Refresh /\ secondary[a].token \in Token
    BY DEF TypeInv, SecondaryOK, Refresh
<1>1. CASE RefreshTokensForDid(a)
    <2>1. change.pc = "idle"
        BY <1>1 DEF RefreshTokensForDid, MayTrigger, Intrudes, Waits
    <2>2. CASE refresh' = Ensured(TRUE) /\ UNCHANGED secondary
        BY <1>1, <2>2, TriggerOwn DEF RefreshTokensForDid, tokens
    <2>3. CASE a # active /\ UNCHANGED refresh
        <3> DEFINE r == [secondary[a] EXCEPT !.pc = "sent", !.token = stored[a].refresh]
        <3>1. CASE secondary' = [secondary EXCEPT ![a] = r] /\ stored[a].refresh # NoToken
            <4>1. r.token = stored[a].refresh
                BY <1>0 DEF Refresh
            <4>2. r.token # NoToken /\ r.token.of \in {a, NoOne}
                BY <3>1, <4>1 DEF OwnInv, AllOwn, Own
            <4> HIDE DEF r
            <4>3. SecondaryIsOwn'
                BY <1>1, <2>1, <2>3, <3>1, <4>2 DEF RefreshTokensForDid, tokens, TypeInv,
                    SecondaryOK, OwnInv, SecondaryIsOwn
            <4> QED
                BY <1>1, <2>3, <4>3 DEF RefreshTokensForDid, tokens, OwnInv, AllOwn, Own,
                    RefreshIsOwn, SentIsToken, ChangeIsAlone
        <3> QED
            BY <1>1, <2>2, <2>3, <3>1 DEF RefreshTokensForDid
    <2> QED
        BY <1>1, <2>2, <2>3 DEF RefreshTokensForDid
<1>2. CASE SecondaryAnswered(a)
    <2> DEFINE t == secondary[a].token
    <2>1. PICK r \in Refresh :
              /\ secondary' = [secondary EXCEPT ![a] = r]
              /\ r = NoRefresh \/ (r.token # NoToken /\ r.token.of = t.of)
        <3>1. CASE Rotated(t)
                   /\ secondary' = [secondary EXCEPT ![a].pc = "granted", ![a].token = Fresh(@)]
            <4> DEFINE s == [secondary[a] EXCEPT !.pc = "granted", !.token = Fresh(t)]
            <4>1. Fresh(t) \in Token /\ Fresh(t).of = t.of /\ t.of \in Accounts
                BY <1>0, <3>1, GoodFacts, FreshFacts
            <4>2. Fresh(t) # NoToken
                BY <4>1, TokenFacts
            <4>3. s \in Refresh /\ s.token = Fresh(t)
                BY <1>0, <4>1 DEF Refresh, Pcs
            <4>4. secondary' = [secondary EXCEPT ![a] = s]
                BY <3>1 DEF TypeInv, SecondaryOK
            <4> HIDE DEF s
            <4> QED
                BY <4>1, <4>2, <4>3, <4>4
        <3>2. CASE secondary' = [secondary EXCEPT ![a] = NoRefresh]
            BY <3>2, TokenFacts
        <3> QED
            BY <1>2, <3>1, <3>2 DEF SecondaryAnswered
    <2>2. SecondaryIsOwn'
        BY <1>2, <2>1, TokenFacts DEF SecondaryAnswered, TypeInv, SecondaryOK, OwnInv,
            SecondaryIsOwn
    <2> QED
        BY <1>2, <2>2 DEF SecondaryAnswered, OwnInv, AllOwn, Own, RefreshIsOwn,
            SentIsToken, ChangeIsAlone
<1>3. CASE StoreSecondary(a)
    <2>1. AllOwn'
        BY <1>3 DEF StoreSecondary, TypeInv, StoredOK, OwnInv, SecondaryIsOwn, AllOwn, Own
    <2>2. SecondaryIsOwn'
        BY <1>3, TokenFacts DEF StoreSecondary, TypeInv, SecondaryOK, OwnInv,
            SecondaryIsOwn
    <2> QED
        BY <1>3, <2>1, <2>2 DEF StoreSecondary, OwnInv, RefreshIsOwn, SentIsToken,
            ChangeIsAlone
<1> QED
    BY <1>1, <1>2, <1>3 DEF PollBadges, UploadPushToken, SecondarySteps

(* While a request of a restore is answered, no refresh has it waiting. *)
LEMMA RestoreIsAlone ==
    ASSUME TypeInv, OwnInv, NEW k \in Accounts, restore[k].pc \notin {"idle", "await"}
    PROVE  change.pc # "idle" =>
               change.pc = "switch" /\ change.to = k /\ refresh.pc = "idle"
BY DEF OwnInv, ChangeIsAlone

LEMMA RestoreOwn ==
    ASSUME TypeInv, OwnInv, NEW k \in Accounts, RestoreSteps(k)
    PROVE  OwnInv'
<1>0. restore[k] \in Restore
    BY DEF TypeInv, RestoreOK
<1>1. ASSUME NEW pc \in Pcs, restore' = [restore EXCEPT ![k].pc = pc],
             restore[k].pc \notin {"idle", "await"},
             UNCHANGED <<stored, active, refresh, secondary, change>>
      PROVE  OwnInv'
    <2>1. \A a \in Accounts \ {k} : restore'[a] = restore[a]
        BY <1>1 DEF TypeInv, RestoreOK
    <2> QED
        BY <1>1, <2>1, RestoreIsAlone DEF OwnInv, AllOwn, Own, RefreshIsOwn,
            SecondaryIsOwn, SentIsToken, ChangeIsAlone
<1>2. CASE EnterSession(k)
    BY <1>1, <1>2 DEF EnterSession, tokens, Pcs
<1>3. CASE SessionDenied(k)
    <2>1. CASE restore' = [restore EXCEPT ![k].pc = "failed"] /\ UNCHANGED refresh
        BY <1>1, <1>3, <2>1 DEF SessionDenied, tokens, Pcs
    <2>2. CASE restore' = [restore EXCEPT ![k].pc = "await"] /\ refresh' = Ensured(FALSE)
        <3>1. restore'[k].pc = "await" /\ \A a \in Accounts \ {k} : restore'[a] = restore[a]
            BY <1>0, <2>2 DEF TypeInv, RestoreOK, Restore
        <3> QED
            BY <1>3, <2>2, <3>1, EnsuredOwn, RestoreIsAlone DEF SessionDenied, tokens,
                OwnInv, AllOwn, Own, RefreshIsOwn, SecondaryIsOwn, SentIsToken,
                ChangeIsAlone
    <2> QED
        BY <1>3, <2>1, <2>2 DEF SessionDenied
<1>4. CASE Bootstrap(k)
    BY <1>1, <1>4 DEF Bootstrap, tokens, Pcs
<1>5. CASE RestoreEnds(k)
    <2>1. restore'[k].pc = "idle" /\ \A a \in Accounts \ {k} : restore'[a] = restore[a]
        BY <1>5, TokenFacts DEF RestoreEnds, TypeInv, RestoreOK
    <2>2. CASE change.pc = "switch" /\ change.to = k
        <3>1. change'.pc \in {"idle", "fallback"}
            BY <1>5, <2>2, TokenFacts DEF RestoreEnds, TypeInv, ChangeOK, Change
        <3> QED
            BY <1>5, <2>1, <2>2, <3>1, RestoreIsAlone DEF RestoreEnds, tokens, OwnInv,
                AllOwn, Own, RefreshIsOwn, SecondaryIsOwn, SentIsToken, ChangeIsAlone
    <2>3. CASE change.pc # "switch" \/ change.to # k
        <3>1. change.pc = "idle" /\ change' = change
            BY <1>5, <2>3, RestoreIsAlone DEF RestoreEnds
        <3> QED
            BY <1>5, <2>1, <3>1 DEF RestoreEnds, tokens, OwnInv, AllOwn, Own,
                RefreshIsOwn, SecondaryIsOwn, SentIsToken, ChangeIsAlone
    <2> QED
        BY <2>2, <2>3
<1> QED
    BY <1>2, <1>3, <1>4, <1>5 DEF RestoreSteps

(* Nothing else is under way when the user acts ... *)
AtRest == /\ refresh.pc = "idle" /\ \A a \in Accounts : secondary[a].pc = "idle"
          /\ \A a \in Accounts : restore[a].pc = "idle"

LEMMA UserActsAlone ==
    ASSUME Waits, UserMayAct
    PROVE  AtRest /\ change.pc = "idle"
BY DEF UserMayAct, Refreshing, Restoring, AtRest, Intrudes, Waits

(* ... nor between the steps of a change. *)
LEMMA ChangeStepsAlone ==
    ASSUME TypeInv, OwnInv, change.pc \in {"login", "fallback", "next", "sent", "failed", "remove", "clear",
                                 "wipe"}
    PROVE  AtRest
BY DEF OwnInv, SecondaryIsOwn, ChangeIsAlone, AtRest

(* A step taken alone keeps the invariant if it keeps each account's       *)
(* tokens its own and leaves no more than the restore it waits for.        *)
LEMMA AloneOwn ==
    ASSUME TypeInv, OwnInv, AtRest, AllOwn', UNCHANGED <<refresh, secondary>>,
           \A a \in Accounts : restore'[a].pc # "idle" => change'.pc = "switch" /\ a = change'.to
    PROVE  OwnInv'
BY DEF OwnInv, AtRest, RefreshIsOwn, SecondaryIsOwn, SentIsToken, ChangeIsAlone

LEMMA SwitchOwn ==
    ASSUME TypeInv, OwnInv, AtRest, NEW b \in Accounts, Switch(b),
           UNCHANGED <<stored, refresh, secondary>>
    PROVE  OwnInv'
<1>1. change'.pc = "switch" /\ change'.to = b
    BY DEF Switch, Activate, NoChange
<1>2. \A a \in Accounts \ {b} : restore'[a].pc = "idle"
    BY DEF Switch, Activate, TypeInv, RestoreOK, AtRest
<1>3. AllOwn'
    BY DEF OwnInv, AllOwn, Own
<1> QED
    BY <1>1, <1>2, <1>3, AloneOwn

LEMMA ChangeOwn ==
    ASSUME TypeInv, OwnInv, Waits,
           \/ \E a \in Accounts : SignIn(a) \/ SwitchAccount(a)
           \/ LoginWithOAuthSession \/ PrepareForAddAccount \/ Logout \/ ChangeSteps
    PROVE  OwnInv'
<1>1. ASSUME NEW a \in Accounts, SignIn(a)
      PROVE  OwnInv'
    BY <1>1, OwnFrame DEF SignIn, tokens
<1>2. ASSUME NEW a \in Accounts, SwitchAccount(a)
      PROVE  OwnInv'
    BY <1>2, UserActsAlone, SwitchOwn DEF SwitchAccount, tokens
<1>3. CASE LoginWithOAuthSession
    <2> DEFINE t == [of |-> oauth, gen |-> issued[oauth] + 1]
    <2>1. oauth \in Accounts
        BY <1>3 DEF LoginWithOAuthSession, TypeInv, OAuthOK, Account
    <2>2. AllOwn'
        BY <1>3, <2>1 DEF LoginWithOAuthSession, TypeInv, StoredOK, OwnInv, AllOwn, Own
    <2>3. AtRest
        BY <1>3, UserActsAlone DEF LoginWithOAuthSession
    <2> QED
        BY <1>3, <2>2, <2>3, AloneOwn DEF LoginWithOAuthSession, AtRest
<1>4. CASE PrepareForAddAccount
    BY <1>4, OwnFrame DEF PrepareForAddAccount, tokens
<1>5. CASE Logout
    BY <1>5, UserActsAlone, AloneOwn DEF Logout, tokens, OwnInv, AllOwn, Own, AtRest
<1>6. CASE LoginBootstrap
    BY <1>6, ChangeStepsAlone, AloneOwn DEF LoginBootstrap, tokens, OwnInv, AllOwn, Own,
        AtRest
<1>7. CASE Fallback
    BY <1>7, ChangeStepsAlone, AloneOwn DEF Fallback, tokens, OwnInv, AllOwn, Own, AtRest
<1>8. CASE NextAccount
    <2>1. AtRest
        BY <1>8, ChangeStepsAlone DEF NextAccount
    <2>2. ASSUME NEW b \in list, Switch(b)
          PROVE  OwnInv'
        BY <1>8, <2>1, <2>2, SwitchOwn DEF NextAccount, tokens, TypeInv, ListOK
    <2>3. CASE UNCHANGED restore
        BY <1>8, <2>1, <2>3, AloneOwn DEF NextAccount, tokens, OwnInv, AllOwn, Own, AtRest
    <2> QED
        BY <1>8, <2>2, <2>3 DEF NextAccount
<1>9. CASE LogoutAnswered
    <2>1. AtRest
        BY <1>9, ChangeStepsAlone DEF LogoutAnswered
    <2>2. CASE UNCHANGED refresh
        BY <1>9, <2>1, <2>2, AloneOwn DEF LogoutAnswered, OwnInv, AllOwn, Own, AtRest
    <2>3. CASE change' = [change EXCEPT !.pc = "await"] /\ refresh' = Ensured(FALSE)
        <3>1. change'.pc = "await"
            BY <2>3 DEF TypeInv, ChangeOK, Change
        <3> QED
            BY <1>9, <2>1, <2>3, <3>1, EnsuredOwn DEF LogoutAnswered, AtRest, OwnInv,
                AllOwn, Own, RefreshIsOwn, SecondaryIsOwn, SentIsToken, ChangeIsAlone
    <2> QED
        BY <1>9, <2>2, <2>3 DEF LogoutAnswered
<1>10. CASE LogoutLocally
    <2>1. AtRest
        BY <1>10, ChangeStepsAlone DEF LogoutLocally, LogoutOAuth, RemoveAccount, ClearTokens, ClearForDid
    <2>2. AllOwn'
        BY <1>10, TokenFacts DEF LogoutLocally, LogoutOAuth, RemoveAccount, ClearTokens, ClearForDid,
            tokens, TypeInv, StoredOK, OwnInv, AllOwn, Own, Own
    <2> QED
        BY <1>10, <2>1, <2>2, AloneOwn DEF LogoutLocally, LogoutOAuth, RemoveAccount, ClearTokens,
            ClearForDid, AtRest
<1> QED
    BY <1>1, <1>2, <1>3, <1>4, <1>5, <1>6, <1>7, <1>8, <1>9, <1>10 DEF ChangeSteps

LEMMA WorldOwn ==
    ASSUME TypeInv, OwnInv, Waits,
           \/ EnsureSession \/ Crash \/ RestoreSession
           \/ \E a \in Accounts : Expire(a) \/ Revoke(a)
    PROVE  OwnInv'
<1>1. CASE EnsureSession \/ \E a \in Accounts : Expire(a) \/ Revoke(a)
    BY <1>1, OwnFrame DEF EnsureSession, Expire, Revoke, tokens
<1>2. CASE Crash
    BY <1>2, TokenFacts DEF Crash, tokens, OwnInv, AllOwn, Own, RefreshIsOwn,
        SecondaryIsOwn, SentIsToken, ChangeIsAlone
<1>3. CASE RestoreSession
    BY <1>3, UserActsAlone DEF RestoreSession, tokens, OwnInv, AllOwn, Own,
        RefreshIsOwn, SecondaryIsOwn, SentIsToken, ChangeIsAlone
<1> QED
    BY <1>1, <1>2, <1>3

LEMMA OwnStep ==
    ASSUME Waits, TypeInv, OwnInv, [Next]_vars
    PROVE  OwnInv'
<1>1. CASE UNCHANGED vars
    BY <1>1, OwnFrame DEF vars, tokens
<1>2. CASE Next
    BY <1>2, RefreshOwn, SecondaryOwn, RestoreOwn, ChangeOwn, WorldOwn DEF Next
<1> QED
    BY <1>1, <1>2

(* What a behaviour allows stays. *)
LEMMA WorldStays == [Next]_vars => world' = world
BY DEF Next, vars, history, RefreshTokens, RefreshAfter401, RefreshSteps, RefreshAnswered,
    StoreAccess, StoreRefresh, RefreshFails, WipeSession, PollBadges, UploadPushToken,
    RefreshTokensForDid, SecondarySteps, SecondaryAnswered, StoreSecondary, RestoreSteps,
    EnterSession, SessionDenied, Bootstrap, RestoreEnds, SignIn, SwitchAccount, Expire, Revoke,
    RestoreSession, LoginWithOAuthSession, PrepareForAddAccount, Logout, ChangeSteps,
    LoginBootstrap, Fallback, NextAccount, LogoutAnswered, LogoutLocally, LogoutOAuth,
    RemoveAccount, ClearTokens, ClearForDid, EnsureSession, Crash

LEMMA OwnCorrect == Spec => [](Waits => OwnInv)
<1>1. TypeInv /\ (Waits => OwnInv) /\ [Next]_vars => (Waits => OwnInv)'
    BY OwnStep, WorldStays DEF Waits, May
<1>2. Init => (Waits => OwnInv)
    BY OwnInit
<1> QED
    BY <1>1, <1>2, TypeCorrect, PTL DEF Spec

-----------------------------------------------------------------------------
(* Whoever acts while refreshes are under way: what is on its way to an    *)
(* account that was not crossed belongs to it.                             *)

SharedIsOwn ==
    active \notin crossed /\ refresh.pc # "idle" => refresh.token.of \in {active, NoOne}
OthersAreOwn ==
    \A a \in Accounts \ crossed :
        /\ secondary[a].token.of \in {a, NoOne}
        /\ secondary[a].pc # "idle" => secondary[a].token # NoToken /\ a # active

CrossInv == TokensAreOwn /\ SharedIsOwn /\ OthersAreOwn /\ SentIsToken

LEMMA CrossInit == Init => CrossInv
BY TokenFacts DEF Init, CrossInv, TokensAreOwn, Own, SharedIsOwn, OthersAreOwn, SentIsToken

LEMMA CrossFrame ==
    ASSUME CrossInv, UNCHANGED <<stored, active, crossed, refresh, secondary>>
    PROVE  CrossInv'
BY DEF CrossInv, TokensAreOwn, Own, SharedIsOwn, OthersAreOwn, SentIsToken

(* A refresh that is begun has a token of the active account, and one that *)
(* is joined has what it had.                                              *)
LEMMA EnsuredCross ==
    ASSUME TypeInv, CrossInv, NEW tidy \in BOOLEAN, refresh' = Ensured(tidy),
           UNCHANGED <<stored, active, crossed, secondary>>
    PROVE  CrossInv'
<1>1. active \notin crossed => TokensOf(active).refresh.of \in {active, NoOne}
    BY TokenFacts DEF TypeInv, ActiveOK, Account, TokensOf, CrossInv, TokensAreOwn, Own
<1> QED
    BY <1>1, EnsuredFacts DEF CrossInv, TokensAreOwn, Own, SharedIsOwn, OthersAreOwn, SentIsToken

(* Who becomes active in the middle of another one's refresh, or of its    *)
(* own, is crossed; otherwise nothing of it is under way.                  *)
LEMMA ActivateCross ==
    ASSUME TypeInv, CrossInv, NEW b \in Account, Activate(b),
           \A a \in Accounts \ crossed' : Own(a)', UNCHANGED <<refresh, secondary>>
    PROVE  CrossInv'
<1>1. crossed \subseteq crossed'
    BY DEF Activate
<1>2. ASSUME b \notin crossed'
      PROVE  /\ refresh.pc # "idle" => refresh.token.of \in {b, NoOne}
             /\ b \in Accounts => secondary[b].pc = "idle"
    BY <1>2 DEF Activate
<1>3. SharedIsOwn'
    BY <1>2 DEF Activate, SharedIsOwn
<1>4. OthersAreOwn'
    BY <1>1, <1>2 DEF Activate, CrossInv, OthersAreOwn
<1> QED
    BY <1>3, <1>4 DEF CrossInv, TokensAreOwn, SentIsToken

LEMMA RefreshCross ==
    ASSUME TypeInv, CrossInv, RefreshTokens \/ RefreshAfter401 \/ RefreshSteps \/ WipeSession
    PROVE  CrossInv'
<1>0. refresh \in Refresh /\ refresh.token \in Token
    BY DEF TypeInv, RefreshOK, Refresh
<1>1. CASE RefreshTokens \/ RefreshAfter401
    BY <1>1, EnsuredCross DEF RefreshTokens, RefreshAfter401, tokens, history
<1>2. CASE RefreshAnswered
    <2> DEFINE t == refresh.token
    <2>1. refresh'.token.of = t.of /\ refresh'.pc \notin {"idle", "sent"} /\ refresh.pc # "idle"
        <3>1. CASE Rotated(t) /\ refresh' = [refresh EXCEPT !.pc = "granted", !.token = Fresh(@)]
            <4>1. Fresh(t).of = t.of
                BY <1>0, <3>1, GoodFacts, FreshFacts
            <4>2. refresh' = [refresh EXCEPT !.pc = "granted", !.token = Fresh(t)]
                BY <3>1
            <4> QED
                BY <1>0, <1>2, <4>1, <4>2 DEF Refresh, RefreshAnswered
        <3>2. CASE refresh' = [refresh EXCEPT !.pc = "blip"]
                   \/ refresh' = [refresh EXCEPT !.pc = "refused"]
            BY <1>0, <1>2, <3>2 DEF Refresh, RefreshAnswered
        <3> QED
            BY <1>2, <3>1, <3>2 DEF RefreshAnswered
    <2> QED
        BY <1>2, <2>1 DEF RefreshAnswered, history, CrossInv, TokensAreOwn, Own, SharedIsOwn,
            OthersAreOwn, SentIsToken
<1>3. CASE StoreAccess
    <2>1. refresh'.token = refresh.token /\ refresh'.pc = "half" /\ refresh.pc # "idle"
        BY <1>0, <1>3 DEF StoreAccess, Refresh
    <2>2. TokensAreOwn'
        BY <1>0, <1>3 DEF StoreAccess, history, TypeInv, StoredOK, ActiveOK, Account, CrossInv,
            TokensAreOwn, Own, SharedIsOwn
    <2> QED
        BY <1>3, <2>1, <2>2 DEF StoreAccess, history, CrossInv, SharedIsOwn, OthersAreOwn, SentIsToken
<1>4. CASE StoreRefresh \/ RefreshFails
    <2>1. refresh'.pc = "idle"
        BY <1>4, TokenFacts DEF StoreRefresh, RefreshFails, AllResume
    <2>2. CASE StoreRefresh
        BY <1>0, <2>1, <2>2 DEF StoreRefresh, history, TypeInv, StoredOK, ActiveOK, Account, CrossInv,
            TokensAreOwn, Own, SharedIsOwn, OthersAreOwn, SentIsToken
    <2>3. CASE RefreshFails
        <3>1. \/ stored' = stored
              \/ active \in Accounts /\ stored' = [stored EXCEPT ![active] = NoTokens]
            BY <2>3 DEF RefreshFails, TypeInv, ActiveOK, Account
        <3>2. TokensAreOwn'
            BY <2>3, <3>1, TokenFacts DEF RefreshFails, history, TypeInv, StoredOK, CrossInv,
                TokensAreOwn, Own
        <3> QED
            BY <2>1, <2>3, <3>2 DEF RefreshFails, history, CrossInv, SharedIsOwn, OthersAreOwn,
                SentIsToken
    <2> QED
        BY <1>4, <2>2, <2>3
<1>5. CASE WipeSession
    BY <1>5, CrossFrame DEF WipeSession, tokens, history
<1> QED
    BY <1>1, <1>2, <1>3, <1>4, <1>5 DEF RefreshSteps

LEMMA SecondaryCross ==
    ASSUME TypeInv, CrossInv, NEW a \in Accounts,
           PollBadges(a) \/ UploadPushToken(a) \/ SecondarySteps(a)
    PROVE  CrossInv'
<1>0. secondary[a] \in Refresh /\ secondary[a].token \in Token
    BY DEF TypeInv, SecondaryOK, Refresh
<1>1. ASSUME NEW r \in Refresh, secondary' = [secondary EXCEPT ![a] = r],
             r # NoRefresh /\ a \notin crossed =>
                 r.token # NoToken /\ a # active /\ r.token.of \in {a, NoOne},
             UNCHANGED <<active, crossed, refresh>>, TokensAreOwn'
      PROVE  CrossInv'
    <2>1. OthersAreOwn'
        BY <1>1, TokenFacts DEF TypeInv, SecondaryOK, CrossInv, OthersAreOwn
    <2> QED
        BY <1>1, <2>1 DEF CrossInv, SharedIsOwn, SentIsToken
<1>2. CASE RefreshTokensForDid(a)
    <2>1. CASE refresh' = Ensured(TRUE) /\ UNCHANGED secondary
        BY <1>2, <2>1, EnsuredCross DEF RefreshTokensForDid, tokens, history
    <2>2. CASE a # active /\ stored[a].refresh # NoToken /\ UNCHANGED refresh
               /\ secondary' = [secondary EXCEPT ![a] = [@ EXCEPT
                                   !.pc = "sent", !.token = stored[a].refresh]]
        <3> DEFINE r == [secondary[a] EXCEPT !.pc = "sent", !.token = stored[a].refresh]
        <3>1. stored[a].refresh \in Token
            BY DEF TypeInv, StoredOK
        <3>2. r \in Refresh /\ r.token = stored[a].refresh
            BY <1>0, <3>1 DEF Refresh, Pcs
        <3>3. a \notin crossed => r.token.of \in {a, NoOne}
            BY <3>2 DEF CrossInv, TokensAreOwn, Own
        <3>4. TokensAreOwn'
            BY <1>2 DEF RefreshTokensForDid, tokens, history, CrossInv, TokensAreOwn, Own
        <3>5. secondary' = [secondary EXCEPT ![a] = r]
            BY <2>2
        <3> HIDE DEF r
        <3> QED
            BY <1>1, <1>2, <2>2, <3>2, <3>3, <3>4, <3>5 DEF RefreshTokensForDid, history
    <2> QED
        BY <1>2, <2>1, <2>2 DEF RefreshTokensForDid
<1>3. CASE SecondaryAnswered(a)
    <2> DEFINE t == secondary[a].token
    <2>0. secondary[a].pc = "sent"
        BY <1>3 DEF SecondaryAnswered
    <2>1. TokensAreOwn'
        BY <1>3 DEF SecondaryAnswered, history, CrossInv, TokensAreOwn, Own
    <2>2. CASE Rotated(t)
               /\ secondary' = [secondary EXCEPT ![a].pc = "granted", ![a].token = Fresh(@)]
        <3> DEFINE s == [secondary[a] EXCEPT !.pc = "granted", !.token = Fresh(t)]
        <3>1. Fresh(t) \in Token /\ Fresh(t).of = t.of /\ t.of \in Accounts
            BY <1>0, <2>2, GoodFacts, FreshFacts
        <3>2. Fresh(t) # NoToken
            BY <3>1, TokenFacts
        <3>3. s \in Refresh /\ s.token = Fresh(t)
            BY <1>0, <3>1 DEF Refresh, Pcs
        <3>4. secondary' = [secondary EXCEPT ![a] = s]
            BY <2>2 DEF TypeInv, SecondaryOK
        <3>5. a \notin crossed => t.of \in {a, NoOne} /\ a # active
            BY <2>0 DEF CrossInv, OthersAreOwn
        <3> HIDE DEF s
        <3> QED
            BY <1>1, <1>3, <2>1, <3>1, <3>2, <3>3, <3>4, <3>5 DEF SecondaryAnswered, history
    <2>3. CASE secondary' = [secondary EXCEPT ![a] = NoRefresh]
        BY <1>1, <1>3, <2>1, <2>3, TokenFacts DEF SecondaryAnswered, history
    <2> QED
        BY <1>3, <2>2, <2>3 DEF SecondaryAnswered
<1>4. CASE StoreSecondary(a)
    <2>1. TokensAreOwn'
        BY <1>4 DEF StoreSecondary, history, TypeInv, StoredOK, CrossInv, OthersAreOwn,
            TokensAreOwn, Own
    <2> QED
        BY <1>1, <1>4, <2>1, TokenFacts DEF StoreSecondary, history
<1> QED
    BY <1>2, <1>3, <1>4 DEF PollBadges, UploadPushToken, SecondarySteps

LEMMA RestoreCross ==
    ASSUME TypeInv, CrossInv, NEW k \in Accounts, RestoreSession \/ RestoreSteps(k)
    PROVE  CrossInv'
<1>1. CASE RestoreSession \/ EnterSession(k) \/ Bootstrap(k) \/ RestoreEnds(k)
    BY <1>1, CrossFrame DEF RestoreSession, EnterSession, Bootstrap, RestoreEnds, tokens, history
<1>2. CASE SessionDenied(k)
    BY <1>2, CrossFrame, EnsuredCross DEF SessionDenied, tokens, history
<1> QED
    BY <1>1, <1>2 DEF RestoreSteps

LEMMA ChangeCross ==
    ASSUME TypeInv, CrossInv,
           \/ \E a \in Accounts : SignIn(a) \/ SwitchAccount(a)
           \/ LoginWithOAuthSession \/ PrepareForAddAccount \/ Logout \/ ChangeSteps
    PROVE  CrossInv'
<1>0. list \subseteq Accounts /\ NoOne \in Account /\ Accounts \subseteq Account
    BY DEF TypeInv, ListOK, Account
<1>1. CASE \/ \E a \in Accounts : SignIn(a)
           \/ PrepareForAddAccount \/ Logout \/ LoginBootstrap \/ Fallback
           \/ LogoutOAuth \/ RemoveAccount \/ ClearForDid
    BY <1>1, CrossFrame DEF SignIn, PrepareForAddAccount, Logout, LoginBootstrap, Fallback,
        LogoutOAuth, RemoveAccount, ClearForDid, tokens, history
<1>2. ASSUME NEW b \in Account, Activate(b), UNCHANGED <<stored, refresh, secondary>>
      PROVE  CrossInv'
    <2>1. crossed \subseteq crossed'
        BY <1>2 DEF Activate
    <2>2. \A a \in Accounts \ crossed' : Own(a)'
        BY <1>2, <2>1 DEF CrossInv, TokensAreOwn, Own
    <2> QED
        BY <1>2, <2>2, ActivateCross
<1>3. CASE \/ \E a \in Accounts : SwitchAccount(a)
           \/ NextAccount
    BY <1>0, <1>2, <1>3 DEF SwitchAccount, NextAccount, Switch, tokens
<1>4. CASE LoginWithOAuthSession
    <2> DEFINE t == [of |-> oauth, gen |-> issued[oauth] + 1]
    <2>1. oauth \in Accounts
        BY <1>4 DEF LoginWithOAuthSession, TypeInv, OAuthOK, Account
    <2>2. crossed \subseteq crossed' /\ Activate(oauth) /\ UNCHANGED <<refresh, secondary>>
        BY <1>4 DEF LoginWithOAuthSession, Activate
    <2>3. \A a \in Accounts \ crossed' : Own(a)'
        BY <1>4, <2>1, <2>2 DEF LoginWithOAuthSession, TypeInv, StoredOK, CrossInv, TokensAreOwn, Own
    <2> QED
        BY <1>0, <2>1, <2>2, <2>3, ActivateCross
<1>5. CASE LogoutAnswered
    BY <1>5, CrossFrame, EnsuredCross DEF LogoutAnswered, history
<1>6. CASE ClearTokens
    BY <1>6, TokenFacts DEF ClearTokens, history, TypeInv, StoredOK, CrossInv, TokensAreOwn, Own,
        SharedIsOwn, OthersAreOwn, SentIsToken
<1> QED
    BY <1>1, <1>3, <1>4, <1>5, <1>6 DEF ChangeSteps, LogoutLocally

LEMMA CrossStep == ASSUME TypeInv, CrossInv, [Next]_vars PROVE CrossInv'
<1>1. CASE UNCHANGED vars
    BY <1>1, CrossFrame DEF vars, tokens, history
<1>2. CASE EnsureSession \/ \E a \in Accounts : Expire(a) \/ Revoke(a)
    BY <1>2, CrossFrame DEF EnsureSession, Expire, Revoke, tokens, history
<1>3. CASE Crash
    BY <1>3, TokenFacts DEF Crash, tokens, history, CrossInv, TokensAreOwn, Own, SharedIsOwn,
        OthersAreOwn, SentIsToken
<1>4. CASE RestoreSession
    <2>1. active \in Accounts
        BY <1>4 DEF RestoreSession, TypeInv, ActiveOK, Account
    <2> QED
        BY <1>4, <2>1, RestoreCross
<1> QED
    BY <1>1, <1>2, <1>3, <1>4, RefreshCross, SecondaryCross, RestoreCross, ChangeCross DEF Next

LEMMA CrossCorrect == Spec => []CrossInv
BY CrossInit, CrossStep, TypeCorrect, PTL DEF Spec

(* Whatever the user, the timers, the server and the network do, and at    *)
(* whatever await the app is killed, an account's keys hold its own tokens *)
(* unless it became active in the middle of another one's refresh          *)
(* (setAccessToken and setRefreshToken store under the account active when *)
(* they run).                                                              *)
THEOREM TokensStayOwn == Spec => []TokensAreOwn
<1>1. CrossInv => TokensAreOwn
    BY DEF CrossInv
<1> QED
    BY <1>1, CrossCorrect, PTL

(* And no refresh token is in two requests at once, unless one of the two  *)
(* accounts was crossed: the shared refresh has one of the active account, *)
(* the other refreshes none of it (ensureRefresh, refreshTokensForDid).    *)
THEOREM TokensSpentOnce == Spec => []OneSpend
<1>1. TypeInv /\ CrossInv => OneSpend
    <2> SUFFICES ASSUME TypeInv, CrossInv, active \notin crossed, NEW a \in Accounts \ crossed,
                        refresh.pc = "sent", secondary[a].pc = "sent"
                 PROVE  refresh.token # secondary[a].token
        BY DEF OneSpend
    <2>1. refresh.token # NoToken /\ refresh.token.of \in {active, NoOne}
        BY DEF CrossInv, SharedIsOwn, SentIsToken
    <2>2. secondary[a].token # NoToken /\ a # active /\ secondary[a].token.of \in {a, NoOne}
        BY DEF CrossInv, OthersAreOwn
    <2>3. secondary[a].token.of \in Accounts
        BY <2>2, TokenFacts DEF TypeInv, SecondaryOK, Refresh
    <2> QED
        BY <2>1, <2>2, <2>3
<1> QED
    BY <1>1, TypeCorrect, CrossCorrect, PTL

-----------------------------------------------------------------------------
(* Who is signed in: the user of the session between changes, the restore  *)
(* that will sign one in, the refresh whose failure signs one out, and the *)
(* account that is being wiped.                                            *)

UserStands ==
    change.pc \in {"idle", "login"} /\ user # NoOne => user = active /\ user \in list
RestoreStands ==
    \A k \in Accounts : restore[k].pc # "idle" =>
        /\ k = active /\ restore[k].token.of \in {k, NoOne}
        /\ restore[k].pc \in {"boot", "restored"} => user \in {k, NoOne} /\ k \in list
        /\ restore[k].pc \in {"sent", "await"} /\ change.pc = "idle" => user = NoOne
TidyIsAlone == refresh.tidy => change.pc = "idle" /\ refresh.pc # "idle"
WipingStands ==
    wiping # NoOne =>
        /\ wiping = active /\ user = NoOne /\ stored[wiping] = NoTokens
        /\ change.pc = "idle" /\ refresh.pc = "idle"
        /\ \A k \in Accounts : restore[k].pc \notin {"sent", "await"}

SignedInv == UserStands /\ RestoreStands /\ TidyIsAlone /\ WipingStands

LEMMA SignedInit == Init => SignedInv
BY TokenFacts DEF Init, SignedInv, UserStands, RestoreStands, TidyIsAlone, WipingStands, NoRefresh

LEMMA SignedFrame ==
    ASSUME SignedInv,
           UNCHANGED <<stored, active, list, user, refresh, restore, change, wiping>>
    PROVE  SignedInv'
BY DEF SignedInv, UserStands, RestoreStands, TidyIsAlone, WipingStands

LEMMA NoneIsNoAccount == NoOne \notin Accounts
BY ConstantsAssumption DEF ConstantsAssumption

(* A refresh that somebody asks for. *)
LEMMA TriggerSigned ==
    ASSUME TypeInv, OwnInv, SignedInv, Waits, MayTrigger, NEW tidy \in BOOLEAN,
           refresh' = Ensured(tidy),
           UNCHANGED <<stored, active, list, user, restore, change, wiping>>
    PROVE  SignedInv'
<1>1. change.pc = "idle" /\ wiping = NoOne
    BY DEF MayTrigger, Intrudes, Waits
<1> QED
    BY <1>1, EnsuredFacts DEF SignedInv, UserStands, RestoreStands, TidyIsAlone, WipingStands

(* What is joined or begun by one who does not clean up is not tidy if     *)
(* nothing was under way. *)
LEMMA EnsuredUntidy ==
    ASSUME refresh.pc = "idle"
    PROVE  Ensured(FALSE).tidy = FALSE
BY DEF Ensured

LEMMA ResumedFacts ==
    ASSUME NEW ok \in BOOLEAN, NEW now \in Token, NEW w \in Restore
    PROVE  LET r == Resumed(w, ok, now)
           IN /\ r.pc = "idle" <=> w.pc = "idle"
              /\ r.pc \in {"boot", "restored"} <=> w.pc \in {"boot", "restored"}
              /\ r.pc \in {"sent", "await"} => w.pc \in {"sent", "await"}
              /\ ~ok /\ r.pc \in {"sent", "await"} => w.pc = "sent"
              /\ r.token \in {w.token, now}
              /\ ~ok => r.token = w.token
<1>1. CASE w.pc # "await"
    BY <1>1 DEF Resumed
<1>2. CASE w.pc = "await" /\ ok
    <2>1. Resumed(w, ok, now) = [w EXCEPT !.pc = "sent", !.token = now, !.last = TRUE]
        BY <1>2 DEF Resumed
    <2> QED
        BY <1>2, <2>1 DEF Restore
<1>3. CASE w.pc = "await" /\ ~ok
    <2>1. Resumed(w, ok, now) = [w EXCEPT !.pc = "failed"]
        BY <1>3 DEF Resumed
    <2> QED
        BY <1>3, <2>1 DEF Restore
<1> QED
    BY <1>1, <1>2, <1>3

LEMMA ResumedChanges ==
    ASSUME NEW ok \in BOOLEAN, NEW now \in Token, NEW w \in Change
    PROVE  LET c == Resumed(w, ok, now)
           IN /\ c.pc = "idle" <=> w.pc = "idle"
              /\ c.pc \in {"idle", "login"} <=> w.pc \in {"idle", "login"}
<1>1. CASE w.pc # "await"
    BY <1>1 DEF Resumed
<1>2. CASE w.pc = "await" /\ ok
    BY <1>2 DEF Resumed, Change
<1>3. CASE w.pc = "await" /\ ~ok
    BY <1>3 DEF Resumed, Change
<1> QED
    BY <1>1, <1>2, <1>3

LEMMA RefreshSigned ==
    ASSUME TypeInv, OwnInv, SignedInv, Waits,
           RefreshTokens \/ RefreshAfter401 \/ RefreshSteps \/ WipeSession
    PROVE  SignedInv'
<1>0. refresh \in Refresh /\ restore \in [Accounts -> Restore] /\ change \in Change /\ user \in Account
    BY DEF TypeInv, RefreshOK, RestoreOK, ChangeOK, ActiveOK
<1>1. CASE RefreshTokens \/ RefreshAfter401
    BY <1>1, TriggerSigned DEF RefreshTokens, RefreshAfter401, tokens
<1>2. CASE RefreshAnswered \/ StoreAccess
    <2>1. refresh'.pc # "idle" /\ refresh'.tidy = refresh.tidy /\ refresh.pc # "idle"
        BY <1>0, <1>2 DEF RefreshAnswered, StoreAccess, Refresh
    <2>2. wiping = NoOne
        BY <2>1 DEF SignedInv, WipingStands
    <2>3. UNCHANGED <<active, list, user, restore, change, wiping>>
        BY <1>2 DEF RefreshAnswered, StoreAccess
    <2> QED
        BY <2>1, <2>2, <2>3 DEF SignedInv, UserStands, RestoreStands, TidyIsAlone, WipingStands
<1>3. CASE StoreRefresh
    <2> DEFINE now == IF active = NoOne THEN NoToken ELSE stored'[active].access
    <2>1. TypeInv' /\ AllOwn'
        BY <1>3, TypeStep, RefreshOwn DEF RefreshSteps, Next, OwnInv
    <2>2. now \in Token /\ now.of \in {active, NoOne} /\ UNCHANGED active
        BY <1>3, <2>1, TokenFacts DEF StoreRefresh, TypeInv, StoredOK, ActiveOK, Account, AllOwn, Own
    <2>3. /\ refresh' = NoRefresh /\ restore' = [a \in Accounts |-> Resumed(restore[a], TRUE, now)]
          /\ change' = Resumed(change, TRUE, now)
        BY <1>3 DEF StoreRefresh, AllResume
    <2> HIDE DEF now
    <2>4. wiping = NoOne /\ UNCHANGED <<list, user, wiping>> /\ ~refresh'.tidy
        BY <1>3, <2>3 DEF StoreRefresh, SignedInv, WipingStands, NoRefresh
    <2>5. /\ change'.pc = "idle" <=> change.pc = "idle"
          /\ change'.pc \in {"idle", "login"} <=> change.pc \in {"idle", "login"}
        BY <1>0, <2>2, <2>3, ResumedChanges
    <2>6. \A k \in Accounts :
             /\ restore'[k].pc = "idle" <=> restore[k].pc = "idle"
             /\ restore'[k].pc \in {"boot", "restored"} <=> restore[k].pc \in {"boot", "restored"}
             /\ restore'[k].pc \in {"sent", "await"} => restore[k].pc \in {"sent", "await"}
             /\ restore'[k].token \in {restore[k].token, now}
        BY <1>0, <2>2, <2>3, ResumedFacts
    <2>7. UserStands' /\ TidyIsAlone' /\ WipingStands'
        BY <2>2, <2>4, <2>5 DEF SignedInv, UserStands, TidyIsAlone, WipingStands
    <2>8. RestoreStands'
        BY <2>2, <2>4, <2>5, <2>6 DEF SignedInv, RestoreStands
    <2> QED
        BY <2>7, <2>8 DEF SignedInv
<1>4. CASE RefreshFails
    <2>1. /\ refresh' = NoRefresh /\ restore' = [a \in Accounts |-> Resumed(restore[a], FALSE, NoToken)]
          /\ change' = Resumed(change, FALSE, NoToken) /\ UNCHANGED <<active, list>>
        BY <1>4 DEF RefreshFails, AllResume
    <2>2. wiping = NoOne /\ ~refresh'.tidy /\ refresh'.pc = "idle"
        BY <1>4, <2>1 DEF RefreshFails, SignedInv, WipingStands, NoRefresh
    <2>3. /\ change'.pc = "idle" <=> change.pc = "idle"
          /\ change'.pc \in {"idle", "login"} <=> change.pc \in {"idle", "login"}
        BY <1>0, <2>1, ResumedChanges, TokenFacts
    <2>4. \A k \in Accounts :
             /\ restore'[k].pc = "idle" <=> restore[k].pc = "idle"
             /\ restore'[k].pc \in {"boot", "restored"} <=> restore[k].pc \in {"boot", "restored"}
             /\ restore'[k].pc \in {"sent", "await"} => restore[k].pc = "sent"
             /\ restore'[k].token = restore[k].token
        <3> SUFFICES ASSUME NEW k \in Accounts
                     PROVE  /\ restore'[k].pc = "idle" <=> restore[k].pc = "idle"
                            /\ restore'[k].pc \in {"boot", "restored"} <=> restore[k].pc \in {"boot", "restored"}
                            /\ restore'[k].pc \in {"sent", "await"} => restore[k].pc = "sent"
                            /\ restore'[k].token = restore[k].token
            OBVIOUS
        <3>1. restore'[k] = Resumed(restore[k], FALSE, NoToken) /\ restore[k] \in Restore
            BY <1>0, <2>1
        <3> QED
            BY <3>1 DEF Resumed, Restore
    <2>5. user' \in {user, NoOne}
        BY <1>4 DEF RefreshFails
    <2>6. UserStands' /\ RestoreStands' /\ TidyIsAlone'
        BY <2>1, <2>2, <2>3, <2>4, <2>5 DEF SignedInv, UserStands, RestoreStands, TidyIsAlone
    <2>7. WipingStands'
        <3>1. CASE ~(refresh.tidy /\ user # NoOne)
            <4>1. wiping' = NoOne
                BY <1>4, <2>2, <3>1 DEF RefreshFails
            <4> QED
                BY <4>1 DEF WipingStands
        <3>2. CASE refresh.tidy /\ user # NoOne
            <4>1. change.pc = "idle" /\ user = active /\ user \in Accounts
                BY <1>0, <3>2 DEF SignedInv, TidyIsAlone, UserStands, Account
            <4>2. user' = NoOne /\ wiping' = active /\ stored' = [stored EXCEPT ![active] = NoTokens]
                BY <1>4, <3>2, <4>1 DEF RefreshFails
            <4>3. stored'[active] = NoTokens
                BY <4>1, <4>2 DEF TypeInv, StoredOK
            <4>4. \A k \in Accounts : restore[k].pc # "sent"
                BY <3>2, <4>1 DEF SignedInv, RestoreStands
            <4> QED
                BY <2>1, <2>2, <2>3, <2>4, <4>1, <4>2, <4>3, <4>4 DEF WipingStands
        <3> QED
            BY <3>1, <3>2
    <2> QED
        BY <2>6, <2>7 DEF SignedInv
<1>5. CASE WipeSession
    BY <1>5 DEF WipeSession, tokens, SignedInv, UserStands, RestoreStands, TidyIsAlone, WipingStands
<1> QED
    BY <1>1, <1>2, <1>3, <1>4, <1>5 DEF RefreshSteps

LEMMA SecondarySigned ==
    ASSUME TypeInv, OwnInv, SignedInv, Waits, NEW a \in Accounts,
           PollBadges(a) \/ UploadPushToken(a) \/ SecondarySteps(a)
    PROVE  SignedInv'
<1>1. CASE RefreshTokensForDid(a)
    <2>1. CASE refresh' = Ensured(TRUE)
        BY <1>1, <2>1, TriggerSigned DEF RefreshTokensForDid, tokens
    <2>2. CASE UNCHANGED refresh
        BY <1>1, <2>2, SignedFrame DEF RefreshTokensForDid, tokens
    <2> QED
        BY <1>1, <2>1, <2>2 DEF RefreshTokensForDid
<1>2. CASE SecondaryAnswered(a)
    BY <1>2, SignedFrame DEF SecondaryAnswered
<1>3. CASE StoreSecondary(a)
    <2>1. a # active
        BY <1>3 DEF StoreSecondary, OwnInv, SecondaryIsOwn
    <2>2. \A k \in Accounts : k # a => stored'[k] = stored[k]
        BY <1>3 DEF StoreSecondary, TypeInv, StoredOK
    <2>3. UNCHANGED <<active, list, user, refresh, restore, change, wiping>>
        BY <1>3 DEF StoreSecondary
    <2>4. wiping # NoOne => stored'[wiping] = stored[wiping]
        BY <2>1, <2>2 DEF SignedInv, WipingStands, TypeInv, ActiveOK, Account
    <2> QED
        BY <2>3, <2>4 DEF SignedInv, UserStands, RestoreStands, TidyIsAlone, WipingStands
<1> QED
    BY <1>1, <1>2, <1>3 DEF PollBadges, UploadPushToken, SecondarySteps

LEMMA RestoreSigned ==
    ASSUME TypeInv, OwnInv, SignedInv, Waits, NEW k \in Accounts, RestoreSteps(k)
    PROVE  SignedInv'
<1>0. restore \in [Accounts -> Restore] /\ refresh \in Refresh /\ change \in Change
    BY DEF TypeInv, RefreshOK, RestoreOK, ChangeOK
<1>9. \A j \in Accounts : j # k => restore[j].pc = "idle"
    BY DEF RestoreSteps, EnterSession, SessionDenied, Bootstrap, RestoreEnds, SignedInv, RestoreStands
<1>8. k = active /\ restore[k].token.of \in {k, NoOne}
    BY DEF RestoreSteps, EnterSession, SessionDenied, Bootstrap, RestoreEnds, SignedInv, RestoreStands
<1>7. change.pc \in {"idle", "switch"} /\ (change.pc = "switch" => change.to = k)
    BY DEF RestoreSteps, EnterSession, SessionDenied, Bootstrap, RestoreEnds, OwnInv, ChangeIsAlone
<1>1. CASE EnterSession(k)
    <2>1. restore[k].token.of = k
        <3>1. restore[k].token # NoToken /\ restore[k].token \in Token
            BY <1>0, <1>1 DEF EnterSession, Accepted, Good, Restore
        <3> QED
            BY <3>1, <1>8, TokenFacts, NoneIsNoAccount
    <2>2. /\ user' = k /\ list' = list \union {k} /\ UNCHANGED <<stored, active, refresh, change, wiping>>
          /\ restore' = [restore EXCEPT ![k].pc = "boot"]
        BY <1>1, <2>1 DEF EnterSession, tokens
    <2>3. restore'[k].pc = "boot" /\ restore'[k].token = restore[k].token
          /\ \A j \in Accounts : j # k => restore'[j] = restore[j]
        BY <1>0, <2>2 DEF Restore
    <2>4. wiping = NoOne
        BY <1>1 DEF EnterSession, SignedInv, WipingStands
    <2> QED
        BY <1>8, <1>9, <2>2, <2>3, <2>4 DEF SignedInv, UserStands, RestoreStands, TidyIsAlone, WipingStands
<1>2. CASE SessionDenied(k)
    <2>1. wiping = NoOne /\ restore[k].pc = "sent" /\ UNCHANGED <<active, list, user, change, wiping>>
        BY <1>2 DEF SessionDenied, SignedInv, WipingStands
    <2>2. restore'[k].pc \in {"await", "failed"} /\ restore'[k].token = restore[k].token
          /\ \A j \in Accounts : j # k => restore'[j] = restore[j]
        <3>1. restore' = [restore EXCEPT ![k].pc = "await"] \/ restore' = [restore EXCEPT ![k].pc = "failed"]
            BY <1>2 DEF SessionDenied
        <3> QED
            BY <1>0, <3>1 DEF Restore
    <2>3. TidyIsAlone'
        <3>1. CASE UNCHANGED refresh
            BY <2>1, <3>1 DEF SignedInv, TidyIsAlone
        <3>2. CASE change.pc = "idle" /\ refresh' = Ensured(FALSE)
            BY <2>1, <3>2, EnsuredFacts DEF TidyIsAlone
        <3>3. CASE change.pc = "switch" /\ refresh' = Ensured(FALSE)
            <4>1. refresh.pc = "idle"
                BY <1>7, <2>1, <3>3 DEF OwnInv, ChangeIsAlone
            <4> QED
                BY <3>3, <4>1, EnsuredUntidy DEF TidyIsAlone
        <3> QED
            BY <1>2, <1>7, <3>1, <3>2, <3>3 DEF SessionDenied
    <2> QED
        BY <1>8, <1>9, <2>1, <2>2, <2>3 DEF SignedInv, UserStands, RestoreStands, WipingStands
<1>3. CASE Bootstrap(k)
    <2>1. restore[k].pc = "boot" /\ UNCHANGED <<stored, active, list, refresh, change, wiping>>
          /\ user' \in {user, NoOne}
        BY <1>3 DEF Bootstrap, tokens
    <2>2. restore'[k].pc \in {"restored", "failed"} /\ restore'[k].token = restore[k].token
          /\ \A j \in Accounts : j # k => restore'[j] = restore[j]
        <3>1. restore' = [restore EXCEPT ![k].pc = "restored"] \/ restore' = [restore EXCEPT ![k].pc = "failed"]
            BY <1>3 DEF Bootstrap
        <3> QED
            BY <1>0, <3>1 DEF Restore
    <2> QED
        BY <1>8, <1>9, <2>1, <2>2 DEF SignedInv, UserStands, RestoreStands, TidyIsAlone, WipingStands
<1>4. CASE RestoreEnds(k)
    <2>1. UNCHANGED <<stored, active, list, user, refresh, wiping>> /\ restore' = [restore EXCEPT ![k] = NoRestore]
        BY <1>4 DEF RestoreEnds, tokens
    <2>2. \A j \in Accounts : restore'[j].pc = "idle"
        BY <1>0, <1>9, <2>1, TokenFacts
    <2>3. CASE UNCHANGED change
        BY <2>1, <2>2, <2>3 DEF SignedInv, UserStands, RestoreStands, TidyIsAlone, WipingStands
    <2>4. CASE change.pc = "switch" /\ change' = [change EXCEPT !.pc = "fallback"]
        <3>1. change'.pc = "fallback" /\ wiping = NoOne /\ ~refresh.tidy
            BY <1>0, <2>4 DEF Change, SignedInv, WipingStands, TidyIsAlone
        <3> QED
            BY <2>1, <2>2, <3>1 DEF SignedInv, UserStands, RestoreStands, TidyIsAlone, WipingStands
    <2>5. CASE change.pc = "switch" /\ restore[k].pc = "restored" /\ change' = NoChange
        <3>1. change'.pc = "idle" /\ wiping = NoOne /\ user \in {k, NoOne} /\ k \in list
            BY <2>5, TokenFacts DEF SignedInv, WipingStands, RestoreStands
        <3> QED
            BY <1>8, <2>1, <2>2, <3>1 DEF UserStands, RestoreStands, TidyIsAlone, WipingStands, SignedInv
    <2> QED
        BY <1>4, <2>3, <2>4, <2>5 DEF RestoreEnds
<1> QED
    BY <1>1, <1>2, <1>3, <1>4 DEF RestoreSteps

(* A step taken alone, of a change that goes on. *)
LEMMA ChangingSigned ==
    ASSUME SignedInv, AtRest, wiping = NoOne, UNCHANGED <<refresh, restore, wiping>>,
           change'.pc \notin {"idle", "login"}
    PROVE  SignedInv'
BY DEF AtRest, SignedInv, UserStands, RestoreStands, TidyIsAlone, WipingStands

LEMMA SwitchSigned ==
    ASSUME TypeInv, OwnInv, SignedInv, AtRest, wiping = NoOne, NEW b \in Accounts, Switch(b),
           UNCHANGED <<stored, refresh, wiping>>
    PROVE  SignedInv'
<1>1. change'.pc = "switch" /\ active' = b /\ restore' = [restore EXCEPT ![b] = Begun(b)]
    BY DEF Switch, Activate, NoChange
<1>2. \A k \in Accounts : k # b => restore'[k].pc = "idle"
    BY <1>1 DEF TypeInv, RestoreOK, AtRest
<1>3. restore'[b].pc \in {"sent", "failed"} /\ restore'[b].token \in {NoToken, stored[b].access}
    <2>1. restore'[b] = Begun(b) /\ restore[b].pc = "idle"
        BY <1>1 DEF TypeInv, RestoreOK, AtRest
    <2>2. Begun(b) \in {[NoRestore EXCEPT !.pc = "failed"],
                        [NoRestore EXCEPT !.pc = "sent", !.token = stored[b].access]}
        BY <2>1 DEF Begun
    <2> QED
        BY <2>1, <2>2 DEF NoRestore
<1>4. stored[b].access.of \in {b, NoOne}
    BY DEF OwnInv, AllOwn, Own
<1>5. ~refresh.tidy
    BY DEF AtRest, SignedInv, TidyIsAlone
<1> QED
    BY <1>1, <1>2, <1>3, <1>4, <1>5, TokenFacts
    DEF UserStands, RestoreStands, TidyIsAlone, WipingStands, SignedInv

LEMMA ChangeSigned ==
    ASSUME TypeInv, OwnInv, SignedInv, Waits,
           \/ \E a \in Accounts : SignIn(a) \/ SwitchAccount(a)
           \/ LoginWithOAuthSession \/ PrepareForAddAccount \/ Logout \/ ChangeSteps
    PROVE  SignedInv'
<1>0. change \in Change /\ refresh \in Refresh /\ list \subseteq Accounts
    BY DEF TypeInv, ChangeOK, RefreshOK, ListOK
<1>1. ASSUME NEW a \in Accounts, SignIn(a)
      PROVE  SignedInv'
    BY <1>1, SignedFrame DEF SignIn, tokens
<1>2. ASSUME NEW a \in Accounts, SwitchAccount(a)
      PROVE  SignedInv'
    BY <1>2, UserActsAlone, SwitchSigned DEF SwitchAccount, tokens, UserMayAct
<1>3. CASE LoginWithOAuthSession
    <2>1. AtRest /\ wiping = NoOne /\ ~refresh.tidy
        BY <1>3, UserActsAlone DEF LoginWithOAuthSession, UserMayAct, AtRest, SignedInv, TidyIsAlone
    <2>2. user' = active' /\ user' \in list' /\ UNCHANGED <<refresh, restore, wiping>>
        BY <1>3 DEF LoginWithOAuthSession, Activate
    <2> QED
        BY <2>1, <2>2 DEF AtRest, UserStands, RestoreStands, TidyIsAlone, WipingStands, SignedInv
<1>4. CASE PrepareForAddAccount
    <2>1. wiping = NoOne /\ AtRest /\ user' = NoOne
          /\ UNCHANGED <<active, list, refresh, restore, change, wiping>>
        BY <1>4, UserActsAlone DEF PrepareForAddAccount, UserMayAct
    <2> QED
        BY <2>1 DEF AtRest, UserStands, RestoreStands, TidyIsAlone, WipingStands, SignedInv
<1>5. CASE Logout
    <2>1. change'.pc \in {"failed", "sent"} /\ UNCHANGED <<refresh, restore, wiping>>
        BY <1>5 DEF Logout
    <2> QED
        BY <1>5, <2>1, UserActsAlone, ChangingSigned DEF Logout, UserMayAct
<1>6. ASSUME ChangeSteps PROVE AtRest /\ wiping = NoOne /\ ~refresh.tidy
    <2>1. AtRest
        BY <1>6, ChangeStepsAlone DEF ChangeSteps, LoginBootstrap, Fallback, NextAccount, LogoutAnswered,
           LogoutLocally, LogoutOAuth, RemoveAccount, ClearTokens, ClearForDid
    <2>2. change.pc # "idle"
        BY <1>6 DEF ChangeSteps, LoginBootstrap, Fallback, NextAccount, LogoutAnswered, LogoutLocally,
           LogoutOAuth, RemoveAccount, ClearTokens, ClearForDid
    <2> QED
        BY <2>1, <2>2 DEF SignedInv, WipingStands, TidyIsAlone
<1>7. CASE LoginBootstrap
    <2>1. user' \in {user, NoOne} /\ UNCHANGED <<active, list, refresh, restore, wiping>> /\ change.pc = "login"
        BY <1>7 DEF LoginBootstrap
    <2> QED
        BY <1>6, <1>7, <2>1 DEF ChangeSteps, AtRest, UserStands, RestoreStands, TidyIsAlone, WipingStands,
           SignedInv
<1>8. CASE Fallback \/ LogoutLocally
    <2>1. /\ change'.pc \in {"next", "remove", "clear", "wipe", "blocked"}
          /\ UNCHANGED <<refresh, restore, wiping>>
        BY <1>0, <1>8 DEF Fallback, LogoutLocally, LogoutOAuth, RemoveAccount, ClearTokens, ClearForDid,
           Change
    <2> QED
        BY <1>6, <1>8, <2>1, ChangingSigned DEF ChangeSteps
<1>9. CASE NextAccount
    <2>1. ASSUME NEW b \in list, Switch(b), UNCHANGED <<stored, refresh, wiping>> PROVE SignedInv'
        BY <1>0, <1>6, <1>9, <2>1, SwitchSigned DEF ChangeSteps
    <2>2. ASSUME user' = NoOne, UNCHANGED <<refresh, restore, wiping>> PROVE SignedInv'
        BY <1>6, <1>9, <2>2 DEF ChangeSteps, AtRest, UserStands, RestoreStands, TidyIsAlone, WipingStands,
           SignedInv
    <2> QED
        BY <1>9, <2>1, <2>2 DEF NextAccount, tokens
<1>10. CASE LogoutAnswered
    <2>1. UNCHANGED <<restore, wiping>> /\ change'.pc \in {"failed", "await"}
        BY <1>0, <1>10 DEF LogoutAnswered, Change
    <2>2. CASE UNCHANGED refresh
        BY <1>6, <1>10, <2>1, <2>2, ChangingSigned DEF ChangeSteps
    <2>3. CASE refresh' = Ensured(FALSE)
        <3>1. ~refresh'.tidy
            BY <1>6, <1>10, <2>3, EnsuredUntidy DEF ChangeSteps, AtRest
        <3> QED
            BY <1>6, <1>10, <2>1, <3>1 DEF ChangeSteps, AtRest, UserStands, RestoreStands, TidyIsAlone,
               WipingStands, SignedInv
    <2> QED
        BY <1>10, <2>2, <2>3 DEF LogoutAnswered
<1> QED
    BY <1>1, <1>2, <1>3, <1>4, <1>5, <1>7, <1>8, <1>9, <1>10 DEF ChangeSteps

LEMMA WorldSigned ==
    ASSUME TypeInv, OwnInv, SignedInv, Waits,
           \/ EnsureSession \/ Crash \/ RestoreSession
           \/ \E a \in Accounts : Expire(a) \/ Revoke(a)
    PROVE  SignedInv'
<1>1. CASE EnsureSession \/ \E a \in Accounts : Expire(a) \/ Revoke(a)
    BY <1>1, SignedFrame DEF EnsureSession, Expire, Revoke, tokens
<1>2. CASE Crash
    <2>1. /\ user' = NoOne /\ refresh' = NoRefresh /\ ~refresh'.tidy /\ wiping' = NoOne
          /\ \A k \in Accounts : restore'[k].pc = "idle"
        BY <1>2, TokenFacts DEF Crash, NoRefresh
    <2> QED
        BY <2>1 DEF UserStands, RestoreStands, TidyIsAlone, WipingStands, SignedInv
<1>3. CASE RestoreSession
    <2>1. AtRest /\ change.pc = "idle" /\ wiping = NoOne /\ active \in Accounts /\ user = NoOne
        BY <1>3, UserActsAlone DEF RestoreSession, UserMayAct, TypeInv, ActiveOK, Account
    <2>2. UNCHANGED <<active, list, user, refresh, change, wiping>>
          /\ restore' = [restore EXCEPT ![active] = Begun(active)]
        BY <1>3 DEF RestoreSession
    <2>3. \A k \in Accounts : k # active => restore'[k].pc = "idle"
        BY <2>1, <2>2 DEF TypeInv, RestoreOK, AtRest
    <2>4. restore'[active].pc = "sent" /\ restore'[active].token = stored[active].access
        <3>1. restore'[active] = Begun(active) /\ restore[active].pc = "idle"
            BY <2>1, <2>2 DEF TypeInv, RestoreOK, AtRest
        <3>2. Begun(active) = [NoRestore EXCEPT !.pc = "sent", !.token = stored[active].access]
            BY <1>3, <3>1 DEF Begun, RestoreSession
        <3> QED
            BY <3>1, <3>2 DEF NoRestore
    <2>5. stored[active].access.of \in {active, NoOne}
        BY <2>1 DEF OwnInv, AllOwn, Own
    <2> QED
        BY <2>1, <2>2, <2>3, <2>4, <2>5 DEF UserStands, RestoreStands, TidyIsAlone, WipingStands, SignedInv
<1> QED
    BY <1>1, <1>2, <1>3

LEMMA SignedStep ==
    ASSUME Waits, TypeInv, OwnInv, SignedInv, [Next]_vars
    PROVE  SignedInv'
<1>1. CASE UNCHANGED vars
    BY <1>1, SignedFrame DEF vars, tokens
<1>2. CASE Next
    BY <1>2, RefreshSigned, SecondarySigned, RestoreSigned, ChangeSigned, WorldSigned DEF Next
<1> QED
    BY <1>1, <1>2

LEMMA SignedCorrect == Spec => [](Waits => SignedInv)
<1>1. TypeInv /\ (Waits => OwnInv) /\ (Waits => SignedInv) /\ [Next]_vars => (Waits => SignedInv)'
    BY SignedStep, WorldStays DEF Waits, May
<1>2. Init => (Waits => SignedInv)
    BY SignedInit
<1> QED
    BY <1>1, <1>2, OwnCorrect, TypeCorrect, PTL DEF Spec

(* While the user waits for what is under way, once no login, switch,      *)
(* logout or restore is under way, the user of the session is the account  *)
(* whose tokens the requests carry, and is in the list the menu shows      *)
(* (restoreSession, switchAccount, clearSession). *)
THEOREM UserStaysActive == Spec => [](~May("intrude") => UserIsActive)
<1>1. (Waits => SignedInv) => (~May("intrude") => UserIsActive)
    BY DEF Waits, SignedInv, UserStands, UserIsActive
<1> QED
    BY <1>1, SignedCorrect, PTL

(* And an account whose data are being wiped has no tokens and no session, *)
(* whatever refreshes, restores and answers come while it is wiped         *)
(* (refreshTokens, clearSession). *)
THEOREM WipedStaysSignedOut == Spec => [](~May("intrude") => WipedIsSignedOut)
<1>1. (Waits => SignedInv) => (~May("intrude") => WipedIsSignedOut)
    BY DEF Waits, SignedInv, WipingStands, WipedIsSignedOut
<1> QED
    BY <1>1, SignedCorrect, PTL

-----------------------------------------------------------------------------
(* Notes: types of what the list, the store, the PDS and the tasks hold.   *)

NoteItem == [text : Nat, at : Nat, status : Statuses]
PdsItem == [text : Nat, at : Nat]
PushTask == [note : Ids, item : NoteItem, pc : {"encrypt", "put", "stored", "failed"},
             stamp : Nat]
SyncTask == [pc : {"idle", "list", "read", "save", "show"}, list : [Ids -> PdsItem],
             merged : [Ids -> NoteItem]]

ListsOK == notes \in [Ids -> NoteItem] /\ local \in [Ids -> NoteItem]
PdsOK == records \in [Ids -> PdsItem] /\ put \in [Ids -> SUBSET Nat]
TasksOK == pushes \subseteq PushTask /\ sync \in SyncTask
UserOK == deleted \subseteq Ids /\ clock \in Nat

NoteTypes == ListsOK /\ PdsOK /\ TasksOK /\ UserOK

LEMMA NoneTyped == NoNote \in NoteItem /\ NoRecord \in PdsItem /\ NoSync \in SyncTask
<1>1. NoNote \in NoteItem /\ NoRecord \in PdsItem
    BY DEF NoNote, NoRecord, NoteItem, PdsItem, Statuses
<1> QED
    BY <1>1 DEF NoSync, SyncTask

LEMMA NotesStart == NotesInit => NoteTypes
BY NoneTyped DEF NotesInit, NoteTypes, ListsOK, PdsOK, TasksOK, UserOK

LEMMA OpenTypes == ASSUME NoteTypes, Open \/ SyncNow \/ Restart PROVE NoteTypes'
<1>1. \A n : [NoSync EXCEPT !.pc = "list"] \in SyncTask
    BY NoneTyped DEF SyncTask
<1> QED
    BY <1>1, NoneTyped DEF Open, SyncNow, Restart, NoteTypes, ListsOK, PdsOK, TasksOK, UserOK, counters

LEMMA WriteTypes == ASSUME NoteTypes, NEW n \in Ids, Write(n) PROVE NoteTypes'
<1>1. Note(clock + 1, clock + 1, "pending_upload") \in NoteItem /\ clock + 1 \in Nat
    BY DEF NoteTypes, UserOK, Note, NoteItem, Statuses
<1>2. NewPush(n, Note(clock + 1, clock + 1, "pending_upload")) \in PushTask
    BY <1>1 DEF NewPush, PushTask
<1> QED
    BY <1>1, <1>2 DEF Write, NoteTypes, ListsOK, PdsOK, TasksOK, UserOK

LEMMA DeleteTypes ==
    ASSUME NoteTypes, NEW n \in Ids, NEW ok, Delete(n) \/ DeleteRecord(n, ok)
    PROVE  NoteTypes'
BY NoneTyped DEF Delete, DeleteRecord, Removed, NoteTypes, ListsOK, PdsOK, TasksOK, UserOK, counters

LEMMA PushTypes ==
    ASSUME NoteTypes, NEW p \in pushes, Encrypt(p) \/ PushEnds(p)
    PROVE  NoteTypes'
<1>1. p \in PushTask
    BY DEF NoteTypes, TasksOK
<1>2. [p EXCEPT !.pc = "put", !.stamp = clock] \in PushTask
    BY <1>1 DEF NoteTypes, UserOK, PushTask
<1>3. [p.item EXCEPT !.status = Outcome(p)] \in NoteItem
    BY <1>1 DEF PushTask, NoteItem, Outcome, Statuses
<1>4. p.note \in Ids
    BY <1>1 DEF PushTask
<1>5. CASE Encrypt(p)
    BY <1>2, <1>5 DEF Encrypt, PushGoes, NoteTypes, ListsOK, PdsOK, TasksOK, UserOK, counters
<1>6. CASE PushEnds(p)
    BY <1>3, <1>4, <1>6 DEF PushEnds, NoteTypes, ListsOK, PdsOK, TasksOK, UserOK, counters
<1> QED
    BY <1>5, <1>6

LEMMA PutTypes ==
    ASSUME NoteTypes, NEW p \in pushes, NEW ok \in BOOLEAN, PutRecord(p, ok)
    PROVE  NoteTypes'
<1>1. p \in PushTask
    BY DEF NoteTypes, TasksOK
<1>2. [p EXCEPT !.pc = IF ok THEN "stored" ELSE "failed"] \in PushTask
    BY <1>1 DEF PushTask
<1>3. [text |-> p.item.text, at |-> p.stamp] \in PdsItem /\ p.note \in Ids /\ p.item.text \in Nat
    BY <1>1 DEF PushTask, NoteItem, PdsItem
<1> QED
    BY <1>1, <1>2, <1>3 DEF PutRecord, PutInPds, PushGoes, NoteTypes, ListsOK, PdsOK, TasksOK, UserOK

LEMMA PeerTypes ==
    ASSUME NoteTypes, NEW n \in Ids, PeerWrites(n) \/ PeerDeletes(n)
    PROVE  NoteTypes'
<1>1. [text |-> clock + 1, at |-> clock + 1] \in PdsItem /\ clock + 1 \in Nat
    BY DEF NoteTypes, UserOK, PdsItem
<1> QED
    BY <1>1, NoneTyped DEF PeerWrites, PeerDeletes, PutInPds, NoteTypes, ListsOK, PdsOK, TasksOK, UserOK,
       tasks, counters

LEMMA MergedTyped ==
    ASSUME NoteTypes, NEW n \in Ids
    PROVE  Merged(local[n], sync.list[n]) \in NoteItem
<1>1. local[n] \in NoteItem /\ sync.list[n] \in PdsItem
    BY DEF NoteTypes, ListsOK, TasksOK, SyncTask
<1>2. Note(sync.list[n].text, sync.list[n].at, "synced") \in NoteItem
    BY <1>1 DEF PdsItem, NoteItem, Note, Statuses
<1> QED
    BY <1>1, <1>2, NoneTyped DEF Merged, Unlisted

LEMMA PushedTyped ==
    ASSUME NEW items \in [Ids -> NoteItem]
    PROVE  Pushed(items) \subseteq PushTask
BY DEF Pushed, NewPush, PushTask

LEMMA ListTypes ==
    ASSUME NoteTypes, NEW ok \in BOOLEAN, ListRecords(ok)
    PROVE  NoteTypes'
<1>1. PICK read \in SUBSET Ids :
          sync' = [sync EXCEPT !.pc = "read",
                       !.list = [n \in Ids |-> IF n \in read THEN records[n] ELSE NoRecord]]
    BY DEF ListRecords
<1>2. [n \in Ids |-> IF n \in read THEN records[n] ELSE NoRecord] \in [Ids -> PdsItem]
    BY NoneTyped DEF NoteTypes, PdsOK
<1>3. sync' \in SyncTask
    BY <1>1, <1>2 DEF NoteTypes, TasksOK, SyncTask
<1> QED
    BY <1>3 DEF ListRecords, NoteTypes, ListsOK, PdsOK, TasksOK, UserOK

LEMMA SyncTypes ==
    ASSUME NoteTypes, Reconcile \/ SaveMany \/ ShowMerged
    PROVE  NoteTypes'
<1>1. [n \in Ids |-> Merged(local[n], sync.list[n])] \in [Ids -> NoteItem]
    BY MergedTyped
<1>2. sync.merged \in [Ids -> NoteItem] /\ Pushed(sync.merged) \subseteq PushTask
    BY PushedTyped DEF NoteTypes, TasksOK, SyncTask
<1>3. CASE Reconcile
    BY <1>1, <1>3 DEF Reconcile, NoteTypes, ListsOK, PdsOK, TasksOK, UserOK, SyncTask, counters
<1>4. CASE SaveMany
    BY <1>2, <1>4 DEF SaveMany, NoteTypes, ListsOK, PdsOK, TasksOK, UserOK, SyncTask, counters
<1>5. CASE ShowMerged
    BY <1>2, <1>5, NoneTyped DEF ShowMerged, NoteTypes, ListsOK, PdsOK, TasksOK, UserOK, counters
<1> QED
    BY <1>3, <1>4, <1>5

LEMMA NotesTypesHold == ASSUME NoteTypes, [NotesNext]_notesVars PROVE NoteTypes'
<1>1. CASE UNCHANGED notesVars
    BY <1>1 DEF notesVars, tasks, counters, NoteTypes, ListsOK, PdsOK, TasksOK, UserOK
<1>2. CASE NotesNext
    BY <1>2, OpenTypes, WriteTypes, DeleteTypes, PushTypes, PutTypes, PeerTypes, ListTypes, SyncTypes
        DEF NotesNext, PushStep, SyncStep, DeleteStep
<1> QED
    BY <1>1, <1>2

-----------------------------------------------------------------------------
(* What is taken for synced has been on the PDS: an item with its text, a  *)
(* record that was read, a push that was answered.                         *)

ItemStored(n, item) == item.status = "synced" => item.text \in put[n]
RecordStored(n, r) == r # NoRecord => r.text \in put[n]
PushStored(p) == p.pc = "stored" => p.item.text \in put[p.note]

StoredInv ==
    /\ \A n \in Ids : /\ ItemStored(n, notes[n]) /\ ItemStored(n, local[n])
                      /\ ItemStored(n, sync.merged[n])
                      /\ RecordStored(n, records[n]) /\ RecordStored(n, sync.list[n])
    /\ \A p \in pushes : PushStored(p)

LEMMA NoneStored ==
    \A n \in Ids : /\ ItemStored(n, NoNote) /\ RecordStored(n, NoRecord)
                   /\ NoSync.merged[n] = NoNote /\ NoSync.list[n] = NoRecord
BY DEF ItemStored, RecordStored, NoNote, NoSync

LEMMA StartStored == NotesInit => StoredInv
BY NoneStored DEF NotesInit, StoredInv

LEMMA OpenStored == ASSUME NoteTypes, StoredInv, Open \/ SyncNow \/ Restart PROVE StoredInv'
<1>1. put' = put /\ records' = records
    BY DEF Open, SyncNow, Restart
<1>2. \A n \in Ids : sync'.merged[n] = NoNote /\ sync'.list[n] = NoRecord
    BY NoneStored DEF Open, SyncNow, Restart, NoSync
<1>3. \A n \in Ids : notes'[n] \in {notes[n], local[n], NoNote} /\ local'[n] = local[n]
    BY DEF Open, SyncNow, Restart
<1>4. pushes' \subseteq pushes
    BY DEF Open, SyncNow, Restart
<1> QED
    BY <1>1, <1>2, <1>3, <1>4, NoneStored DEF StoredInv, ItemStored, RecordStored, PushStored

LEMMA WriteStored == ASSUME NoteTypes, StoredInv, NEW n \in Ids, Write(n) PROVE StoredInv'
BY DEF Write, Note, NewPush, NoteTypes, ListsOK, StoredInv, ItemStored, RecordStored, PushStored

LEMMA DeleteStored ==
    ASSUME NoteTypes, StoredInv, NEW n \in Ids, NEW ok, Delete(n) \/ DeleteRecord(n, ok)
    PROVE  StoredInv'
<1>1. CASE Delete(n)
    BY <1>1, NoneStored DEF Delete, NoteTypes, ListsOK, StoredInv, ItemStored, RecordStored, PushStored
<1>2. CASE DeleteRecord(n, ok)
    BY <1>2, NoneStored DEF DeleteRecord, Removed, NoteTypes, PdsOK, StoredInv, ItemStored, RecordStored, PushStored
<1> QED
    BY <1>1, <1>2

LEMMA PushStoredStep ==
    ASSUME NoteTypes, StoredInv, NEW p \in pushes, Encrypt(p) \/ PushEnds(p)
    PROVE  StoredInv'
<1>0. p \in PushTask /\ p.note \in Ids
    BY DEF NoteTypes, TasksOK, PushTask
<1>1. CASE Encrypt(p)
    <2>1. [p EXCEPT !.pc = "put", !.stamp = clock].pc = "put"
        BY <1>0 DEF PushTask
    <2> QED
        BY <2>1, <1>1 DEF Encrypt, PushGoes, StoredInv, ItemStored, RecordStored, PushStored
<1>2. CASE PushEnds(p)
    <2> DEFINE item == [p.item EXCEPT !.status = Outcome(p)]
    <2>1. ItemStored(p.note, item)
        BY <1>0 DEF StoredInv, PushStored, ItemStored, Outcome, PushTask, NoteItem
    <2>2. \A n \in Ids : /\ notes'[n] = notes[n] \/ (n = p.note /\ notes'[n] = item)
                         /\ local'[n] = local[n] \/ (n = p.note /\ local'[n] = item)
        BY <1>2, <1>0 DEF PushEnds, NoteTypes, ListsOK
    <2>3. /\ put' = put /\ records' = records /\ sync' = sync /\ pushes' \subseteq pushes
        BY <1>2 DEF PushEnds
    <2> QED
        BY <2>1, <2>2, <2>3 DEF StoredInv, ItemStored, RecordStored, PushStored
<1> QED
    BY <1>1, <1>2

LEMMA PutStored ==
    ASSUME NoteTypes, StoredInv, NEW n \in Ids, NEW r, PutInPds(n, r)
    PROVE  /\ \A m \in Ids : put[m] \subseteq put'[m]
           /\ r.text \in put'[n]
           /\ \A m \in Ids : records'[m] = IF m = n THEN r ELSE records[m]
BY DEF PutInPds, NoteTypes, PdsOK

LEMMA PutStoredStep ==
    ASSUME NoteTypes, StoredInv, NEW p \in pushes, NEW ok \in BOOLEAN, PutRecord(p, ok)
    PROVE  StoredInv'
<1>1. p \in PushTask /\ p.note \in Ids
    BY DEF NoteTypes, TasksOK, PushTask
<1> DEFINE q == [p EXCEPT !.pc = IF ok THEN "stored" ELSE "failed"]
<1>2. q.note = p.note /\ q.item = p.item /\ (q.pc = "stored" => ok)
    BY <1>1 DEF PushTask
<1> DEFINE r == [text |-> p.item.text, at |-> p.stamp]
<1>3. /\ \A m \in Ids : put[m] \subseteq put'[m]
      /\ ok => p.item.text \in put'[p.note]
      /\ \A m \in Ids : records'[m] = records[m] \/ records'[m].text \in put'[m]
    <2>1. CASE PutInPds(p.note, r)
        BY <2>1, <1>1, PutStored
    <2>2. CASE ~ok /\ UNCHANGED <<records, put>>
        BY <2>2
    <2> QED
        BY <2>1, <2>2 DEF PutRecord
<1>4. \A x \in pushes' : x \in pushes \/ x = q
    BY DEF PutRecord, PushGoes
<1>5. notes' = notes /\ local' = local /\ sync' = sync
    BY DEF PutRecord
<1>6. \A x \in pushes : x.note \in Ids
    BY DEF NoteTypes, TasksOK, PushTask
<1>7. \A x \in pushes' : PushStored(x)'
    BY <1>1, <1>2, <1>3, <1>4, <1>6 DEF StoredInv, PushStored
<1> QED
    BY <1>3, <1>5, <1>7 DEF StoredInv, ItemStored, RecordStored

LEMMA PeerStored ==
    ASSUME NoteTypes, StoredInv, NEW n \in Ids, PeerWrites(n) \/ PeerDeletes(n)
    PROVE  StoredInv'
<1>1. CASE PeerWrites(n)
    <2>1. PutInPds(n, [text |-> clock + 1, at |-> clock + 1])
        BY <1>1 DEF PeerWrites
    <2>2. \A p \in pushes : p.note \in Ids
        BY DEF NoteTypes, TasksOK, PushTask
    <2>3. notes' = notes /\ local' = local /\ sync' = sync /\ pushes' = pushes
        BY <1>1 DEF PeerWrites, tasks
    <2> QED
        BY <2>1, <2>2, <2>3, PutStored DEF StoredInv, ItemStored, RecordStored, PushStored
<1>2. CASE PeerDeletes(n)
    BY <1>2, NoneStored DEF PeerDeletes, tasks, NoteTypes, PdsOK, StoredInv, ItemStored, RecordStored, PushStored
<1> QED
    BY <1>1, <1>2

LEMMA ListStored ==
    ASSUME NoteTypes, StoredInv, NEW ok \in BOOLEAN, ListRecords(ok)
    PROVE  StoredInv'
<1>1. \A n \in Ids : sync'.list[n] \in {records[n], NoRecord} /\ sync'.merged = sync.merged
    BY DEF ListRecords, NoteTypes, TasksOK, SyncTask
<1> QED
    BY <1>1, NoneStored DEF ListRecords, StoredInv, ItemStored, RecordStored, PushStored

LEMMA MergedStored ==
    ASSUME NoteTypes, StoredInv, NEW n \in Ids
    PROVE  ItemStored(n, Merged(local[n], sync.list[n]))
BY NoneStored DEF StoredInv, ItemStored, RecordStored, Merged, Unlisted, Note

LEMMA SyncStored ==
    ASSUME NoteTypes, StoredInv, Reconcile \/ SaveMany \/ ShowMerged
    PROVE  StoredInv'
<1>1. CASE Reconcile
    <2>1. \A n \in Ids : sync'.merged[n] = Merged(local[n], sync.list[n]) /\ sync'.list = sync.list
        BY <1>1 DEF Reconcile, NoteTypes, TasksOK, SyncTask
    <2>2. \A n \in Ids : ItemStored(n, sync'.merged[n])
        BY <2>1, MergedStored
    <2> QED
        BY <1>1, <2>1, <2>2 DEF Reconcile, StoredInv, ItemStored, RecordStored, PushStored
<1>2. CASE SaveMany
    <2>1. sync'.merged = sync.merged /\ sync'.list = sync.list
        BY <1>2 DEF SaveMany, NoteTypes, TasksOK, SyncTask
    <2>2. \A n \in Ids : local'[n] \in {sync.merged[n], local[n]}
        BY <1>2 DEF SaveMany
    <2> QED
        BY <1>2, <2>1, <2>2 DEF SaveMany, StoredInv, ItemStored, RecordStored, PushStored
<1>3. CASE ShowMerged
    <2>1. \A p \in Pushed(sync.merged) : PushStored(p)
        BY DEF Pushed, NewPush, PushStored
    <2>2. \A n \in Ids : sync'.merged[n] = NoNote /\ sync'.list[n] = NoRecord
        BY <1>3, NoneStored DEF ShowMerged
    <2>3. notes' = sync.merged /\ pushes' = pushes \union Pushed(sync.merged)
          /\ put' = put /\ local' = local /\ records' = records
        BY <1>3 DEF ShowMerged
    <2> QED
        BY <2>1, <2>2, <2>3, NoneStored DEF StoredInv, ItemStored, RecordStored, PushStored
<1> QED
    BY <1>1, <1>2, <1>3

LEMMA StoredHolds == ASSUME NoteTypes, StoredInv, [NotesNext]_notesVars PROVE StoredInv'
<1>1. CASE UNCHANGED notesVars
    BY <1>1 DEF notesVars, tasks, StoredInv, ItemStored, RecordStored, PushStored
<1>2. CASE NotesNext
    BY <1>2, OpenStored, WriteStored, DeleteStored, PushStoredStep, PutStoredStep, PeerStored,
       ListStored, SyncStored
        DEF NotesNext, PushStep, SyncStep, DeleteStep
<1> QED
    BY <1>1, <1>2

(* A note shown or stored as synced has been on the PDS with its text, for *)
(* any notes and bounds, whatever fails, is hurried, or is restarted.      *)
(* (pushNoteToPds, syncWithPds)                                            *)
THEOREM SyncedStaysStored == NotesSpec => []SyncedIsStored
<1>1. NotesInit => NoteTypes /\ StoredInv
    BY NotesStart, StartStored
<1>2. NoteTypes /\ StoredInv /\ [NotesNext]_notesVars => (NoteTypes /\ StoredInv)'
    BY NotesTypesHold, StoredHolds
<1>3. StoredInv => SyncedIsStored
    BY DEF StoredInv, ItemStored, SyncedIsStored
<1> QED
    BY <1>1, <1>2, <1>3, PTL DEF NotesSpec

-----------------------------------------------------------------------------
(* One device, whose user waits: at most one of the pushes, the deletions  *)
(* and the sync is under way, so a push still has the note as it is        *)
(* stored, a record that is not older than the note has no older text, and *)
(* a sync has the records and the notes as they are.                       *)

Orderly == ways \subseteq {"fails"}

Turns ==
    /\ pushes # {} => deletes = {} /\ SyncIs("idle")
    /\ deletes # {} => SyncIs("idle")
    /\ ~open => Quiet
    /\ SyncIs("idle") => sync = NoSync

Pushing ==
    /\ \A p \in pushes : /\ local[p.note] = p.item /\ p.item.status = "pending_upload"
                         /\ p.stamp <= clock
    /\ \A p, q \in pushes : p.note = q.note => p = q

InOrder(item, record) ==
    /\ item.at <= clock /\ item.text <= clock
    /\ record.at <= clock /\ record.text <= clock
    /\ item # NoNote => item.text >= 1
    /\ record # NoRecord => record.text >= 1
    /\ record # NoRecord /\ record.at >= item.at => record.text >= item.text

Ordered == \A n \in Ids : InOrder(local[n], records[n])

FromPds(n) ==
    /\ sync.merged[n] = Note(records[n].text, records[n].at, "synced")
    /\ records[n] # NoRecord /\ records[n].text >= local[n].text

Merging ==
    \A n \in Ids :
        /\ SyncIs("read") => sync.list[n] \in {NoRecord, records[n]}
        /\ SyncIs("save") => sync.merged[n] \in {NoNote, local[n]} \/ FromPds(n)
        /\ SyncIs("show") => sync.merged[n] \in {NoNote, local[n]}

InTurn == Turns /\ Pushing /\ Ordered /\ Merging
OrderlyInv == Orderly => InTurn

LEMMA NoneFacts ==
    /\ NoNote.text = 0 /\ NoNote.at = 0 /\ NoNote.status = "none"
    /\ NoRecord.text = 0 /\ NoRecord.at = 0 /\ NoSync.pc = "idle"
    /\ \A n \in Ids : NoSync.merged[n] = NoNote /\ NoSync.list[n] = NoRecord
BY DEF NoNote, NoRecord, NoSync

LEMMA StartInTurn == NotesInit => InTurn
BY NoneFacts DEF NotesInit, InTurn, Turns, Quiet, SyncIs, Pushing, Ordered, InOrder, Merging

LEMMA QuietInTurn ==
    ASSUME NoteTypes, InTurn, UNCHANGED <<local, records, clock>>, pushes' = {}, deletes' = {},
           sync' = NoSync \/ (sync' = [NoSync EXCEPT !.pc = "list"] /\ open')
    PROVE  InTurn'
<1>1. SyncIs("idle")' \/ SyncIs("list")'
    BY NoneFacts DEF SyncIs, NoSync
<1>2. Turns'
    BY NoneFacts DEF Turns, Quiet, SyncIs, NoSync
<1>3. Pushing'
    BY DEF Pushing
<1>4. Ordered'
    BY DEF InTurn, Ordered, InOrder
<1>5. Merging'
    BY <1>1 DEF Merging, SyncIs
<1> QED
    BY <1>2, <1>3, <1>4, <1>5 DEF InTurn

LEMMA OpenInTurn ==
    ASSUME NoteTypes, InTurn, Orderly, Open \/ SyncNow \/ Restart
    PROVE  InTurn'
<1>1. CASE Open
    BY <1>1, QuietInTurn DEF Open, InTurn, Turns, Quiet, counters
<1>2. CASE SyncNow
    BY <1>2, QuietInTurn DEF SyncNow, Orderly, Quiet
<1>3. CASE Restart
    BY <1>3, QuietInTurn DEF Restart, Orderly
<1> QED
    BY <1>1, <1>2, <1>3

LEMMA WriteInTurn == ASSUME NoteTypes, InTurn, Orderly, NEW n \in Ids, Write(n) PROVE InTurn'
<1> DEFINE item == Note(clock + 1, clock + 1, "pending_upload")
<1>1. Quiet /\ open /\ open' = open
    BY DEF Write, UserMay, Orderly
<1>2. /\ pushes' = {NewPush(n, item)} /\ deletes' = {} /\ sync' = sync /\ SyncIs("idle")
      /\ clock' = clock + 1 /\ records' = records
      /\ \A m \in Ids : local'[m] = IF m = n THEN item ELSE local[m]
    BY <1>1 DEF Write, Quiet, NoteTypes, ListsOK
<1>3. Turns'
    BY <1>1, <1>2 DEF InTurn, Turns, SyncIs
<1>4. Pushing'
    BY <1>2 DEF Pushing, NewPush, Note, NoteTypes, UserOK
<1>5. Ordered'
    BY <1>2 DEF InTurn, Ordered, InOrder, Note, NoteTypes, UserOK, ListsOK, PdsOK, NoteItem, PdsItem
<1>6. Merging'
    BY <1>2 DEF Merging, SyncIs
<1> QED
    BY <1>3, <1>4, <1>5, <1>6 DEF InTurn

LEMMA DeleteInTurn ==
    ASSUME NoteTypes, InTurn, Orderly, NEW n \in Ids, NEW ok, Delete(n) \/ DeleteRecord(n, ok)
    PROVE  InTurn'
<1>1. SyncIs("idle") /\ pushes = {} /\ open
    <2>1. CASE Delete(n)
        BY <2>1 DEF Delete, UserMay, Orderly, Quiet
    <2>2. CASE DeleteRecord(n, ok)
        BY <2>2 DEF DeleteRecord, InTurn, Turns, Quiet
    <2> QED
        BY <2>1, <2>2
<1>2. /\ pushes' = pushes /\ sync' = sync /\ open' = open /\ clock' = clock
      /\ \A m \in Ids : local'[m] \in {local[m], NoNote} /\ records'[m] \in {records[m], NoRecord}
    BY DEF Delete, DeleteRecord, Removed, NoteTypes, ListsOK, PdsOK, counters
<1>3. Turns'
    BY <1>1, <1>2 DEF InTurn, Turns, SyncIs
<1>4. Pushing'
    BY <1>1, <1>2 DEF Pushing
<1>5. Ordered'
    <2> SUFFICES ASSUME NEW m \in Ids PROVE InOrder(local[m], records[m])'
        BY DEF Ordered
    <2>1. InOrder(local[m], records[m]) /\ local[m] \in NoteItem /\ records[m] \in PdsItem
        BY DEF InTurn, Ordered, NoteTypes, ListsOK, PdsOK
    <2> QED
        BY <2>1, <1>2, NoneFacts DEF InOrder, NoteTypes, UserOK, NoteItem, PdsItem
<1>6. Merging'
    BY <1>1, <1>2 DEF Merging, SyncIs
<1> QED
    BY <1>3, <1>4, <1>5, <1>6 DEF InTurn

LEMMA PushInTurn ==
    ASSUME NoteTypes, InTurn, NEW p \in pushes,
           Encrypt(p) \/ PushEnds(p) \/ \E ok \in BOOLEAN : PutRecord(p, ok)
    PROVE  InTurn'
<1>1. /\ p \in PushTask /\ p.note \in Ids /\ local[p.note] = p.item
      /\ p.item.status = "pending_upload" /\ p.stamp <= clock
    BY DEF NoteTypes, TasksOK, PushTask, InTurn, Pushing
<1>2. deletes = {} /\ SyncIs("idle") /\ open
    BY DEF InTurn, Turns, Quiet
<1>3. deletes' = deletes /\ sync' = sync /\ open' = open /\ clock' = clock
    BY DEF Encrypt, PushEnds, PutRecord, counters
<1>4. Turns'
    BY <1>2, <1>3 DEF InTurn, Turns, SyncIs
<1>5. Merging'
    BY <1>2, <1>3 DEF Merging, SyncIs
<1>6. ASSUME NEW q, PushGoes(p, q), q.note = p.note, q.item = p.item, q.stamp <= clock,
             local' = local
      PROVE  Pushing'
    BY <1>1, <1>3, <1>6 DEF PushGoes, InTurn, Pushing
<1>7. CASE Encrypt(p)
    <2> DEFINE q == [p EXCEPT !.pc = "put", !.stamp = clock]
    <2>1. q.note = p.note /\ q.item = p.item /\ q.stamp = clock
        BY <1>1 DEF PushTask
    <2>2. PushGoes(p, q) /\ local' = local /\ records' = records
        BY <1>7 DEF Encrypt
    <2>3. q.stamp <= clock
        BY <2>1 DEF NoteTypes, UserOK
    <2>4. Pushing'
        BY <2>1, <2>2, <2>3, <1>6
    <2>5. Ordered'
        BY <2>2, <1>3 DEF InTurn, Ordered, InOrder
    <2> QED
        BY <2>4, <2>5, <1>4, <1>5 DEF InTurn
<1>8. CASE PushEnds(p)
    <2> DEFINE item == [p.item EXCEPT !.status = Outcome(p)]
    <2>1. item.text = p.item.text /\ item.at = p.item.at
        BY <1>1 DEF PushTask, NoteItem
    <2>2. /\ \A m \in Ids : local'[m] = IF m = p.note THEN item ELSE local[m]
          /\ pushes' = pushes \ {p} /\ records' = records
        BY <1>8 DEF PushEnds, NoteTypes, ListsOK
    <2>3. Pushing'
        BY <2>2, <1>3 DEF InTurn, Pushing, NoteTypes, TasksOK, PushTask
    <2>4. Ordered'
        <3> SUFFICES ASSUME NEW m \in Ids PROVE InOrder(local[m], records[m])'
            BY DEF Ordered
        <3>1. InOrder(local[m], records[m])
            BY DEF InTurn, Ordered
        <3>2. /\ local'[m].text = local[m].text /\ local'[m].at = local[m].at
              /\ local'[m] # NoNote => local[m] # NoNote
            BY <2>1, <2>2, <1>1, NoneFacts
        <3> QED
            BY <3>1, <3>2, <2>2, <1>3 DEF InOrder
    <2> QED
        BY <2>3, <2>4, <1>4, <1>5 DEF InTurn
<1>9. ASSUME NEW ok \in BOOLEAN, PutRecord(p, ok) PROVE InTurn'
    <2> DEFINE q == [p EXCEPT !.pc = IF ok THEN "stored" ELSE "failed"]
    <2> DEFINE r == [text |-> p.item.text, at |-> p.stamp]
    <2>1. q.note = p.note /\ q.item = p.item /\ q.stamp = p.stamp
        BY <1>1 DEF PushTask
    <2>2. PushGoes(p, q) /\ local' = local
        BY <1>9 DEF PutRecord
    <2>3. Pushing'
        BY <2>1, <2>2, <1>1, <1>6
    <2>4. \A m \in Ids : records'[m] = records[m] \/ (m = p.note /\ records'[m] = r)
        BY <1>9 DEF PutRecord, PutInPds, NoteTypes, PdsOK
    <2>5. Ordered'
        <3> SUFFICES ASSUME NEW m \in Ids PROVE InOrder(local[m], records[m])'
            BY DEF Ordered
        <3>1. InOrder(local[m], records[m]) /\ local[m] \in NoteItem
            BY DEF InTurn, Ordered, NoteTypes, ListsOK
        <3>2. CASE records'[m] = records[m]
            BY <3>1, <3>2, <2>2, <1>3 DEF InOrder
        <3>3. CASE m = p.note /\ records'[m] = r
            <4>1. r.text = local[m].text /\ r.at <= clock /\ local[m] # NoNote
                BY <3>3, <1>1, NoneFacts
            <4> QED
                BY <4>1, <3>1, <3>3, <2>2, <1>3 DEF InOrder, NoteItem
        <3> QED
            BY <3>2, <3>3, <2>4
    <2> QED
        BY <2>3, <2>5, <1>4, <1>5 DEF InTurn
<1> QED
    BY <1>7, <1>8, <1>9

LEMMA ListInTurn ==
    ASSUME NoteTypes, InTurn, NEW ok \in BOOLEAN, ListRecords(ok)
    PROVE  InTurn'
<1>1. /\ SyncIs("list") /\ SyncIs("read")' /\ pushes = {} /\ deletes = {} /\ open
      /\ \A n \in Ids : sync'.list[n] \in {NoRecord, records[n]}
    BY DEF ListRecords, SyncIs, NoteTypes, TasksOK, SyncTask, InTurn, Turns, Quiet
<1>2. UNCHANGED <<open, local, records, pushes, deletes, clock>>
    BY DEF ListRecords
<1> QED
    BY <1>1, <1>2 DEF InTurn, Turns, SyncIs, Pushing, Ordered, InOrder, Merging

LEMMA ReconcileInTurn == ASSUME NoteTypes, InTurn, Reconcile PROVE InTurn'
<1>1. /\ SyncIs("read") /\ SyncIs("save")' /\ pushes = {} /\ deletes = {} /\ open
      /\ \A n \in Ids : sync'.merged[n] = Merged(local[n], sync.list[n])
    BY DEF Reconcile, SyncIs, NoteTypes, TasksOK, SyncTask, InTurn, Turns, Quiet
<1>2. UNCHANGED <<open, local, records, pushes, deletes, clock>>
    BY DEF Reconcile, counters
<1>3. Turns' /\ Pushing' /\ Ordered'
    BY <1>1, <1>2 DEF InTurn, Turns, SyncIs, Pushing, Ordered, InOrder
<1>4. ASSUME NEW n \in Ids
      PROVE  sync'.merged[n] \in {NoNote, local[n]} \/ FromPds(n)'
    <2>1. InOrder(local[n], records[n]) /\ sync.list[n] \in {NoRecord, records[n]}
        BY <1>1 DEF InTurn, Ordered, Merging
    <2>2. local[n] \in NoteItem /\ records[n] \in PdsItem
        BY DEF NoteTypes, ListsOK, PdsOK
    <2>3. CASE sync.list[n] = NoRecord
        BY <2>3, <1>1 DEF Merged, Unlisted
    <2>4. CASE sync.list[n] # NoRecord /\ local[n] # NoNote /\ LocalWins(local[n], sync.list[n])
        BY <2>4, <1>1 DEF Merged
    <2>5. CASE sync.list[n] # NoRecord /\ ~(local[n] # NoNote /\ LocalWins(local[n], sync.list[n]))
        <3>1. sync.list[n] = records[n] /\ records[n] # NoRecord
            BY <2>5, <2>1
        <3>2. sync'.merged[n] = Note(records[n].text, records[n].at, "synced")
            BY <2>5, <3>1, <1>1 DEF Merged
        <3>3. records[n].text >= local[n].text
            BY <2>1, <2>2, <2>5, <3>1, NoneFacts DEF InOrder, LocalWins, NoteItem, PdsItem
        <3> QED
            BY <3>1, <3>2, <3>3, <1>2 DEF FromPds
    <2> QED
        BY <2>3, <2>4, <2>5
<1>5. Merging'
    BY <1>1, <1>2, <1>4 DEF Merging, SyncIs
<1> QED
    BY <1>3, <1>5 DEF InTurn

LEMMA SaveInTurn == ASSUME NoteTypes, InTurn, SaveMany PROVE InTurn'
<1>1. /\ SyncIs("save") /\ SyncIs("show")' /\ pushes = {} /\ deletes = {} /\ open
      /\ sync'.merged = sync.merged
    BY DEF SaveMany, SyncIs, NoteTypes, TasksOK, SyncTask, InTurn, Turns, Quiet
<1>2. /\ UNCHANGED <<open, records, pushes, deletes, clock>>
      /\ \A n \in Ids : local'[n] = IF sync.merged[n] # NoNote THEN sync.merged[n] ELSE local[n]
    BY DEF SaveMany, counters
<1>3. Turns' /\ Pushing'
    BY <1>1, <1>2 DEF InTurn, Turns, SyncIs, Pushing
<1>4. Ordered'
    <2> SUFFICES ASSUME NEW n \in Ids PROVE InOrder(local[n], records[n])'
        BY DEF Ordered
    <2>1. /\ InOrder(local[n], records[n])
          /\ sync.merged[n] \in {NoNote, local[n]} \/ FromPds(n)
        BY <1>1 DEF InTurn, Ordered, Merging
    <2>2. CASE local'[n] = local[n]
        BY <2>1, <2>2, <1>2 DEF InOrder
    <2>3. CASE FromPds(n) /\ local'[n] = Note(records[n].text, records[n].at, "synced")
        BY <2>1, <2>3, <1>2 DEF InOrder, FromPds, Note, NoteTypes, PdsOK, PdsItem
    <2> QED
        BY <2>1, <2>2, <2>3, <1>2 DEF FromPds
<1>5. Merging'
    BY <1>1, <1>2 DEF Merging, SyncIs
<1> QED
    BY <1>3, <1>4, <1>5 DEF InTurn

LEMMA ShowInTurn == ASSUME NoteTypes, InTurn, ShowMerged PROVE InTurn'
<1>1. /\ SyncIs("show") /\ sync' = NoSync /\ pushes = {} /\ deletes = {} /\ open
    BY DEF ShowMerged, SyncIs, InTurn, Turns, Quiet
<1>2. UNCHANGED <<open, local, records, deletes, clock>> /\ pushes' = Pushed(sync.merged)
    BY <1>1 DEF ShowMerged, counters
<1>3. Turns' /\ Merging'
    BY <1>1, <1>2, NoneFacts DEF Turns, Quiet, SyncIs, Merging
<1>4. \A p \in pushes' : /\ p.note \in Ids /\ p = NewPush(p.note, sync.merged[p.note])
                         /\ sync.merged[p.note].status = "pending_upload"
    BY <1>2 DEF Pushed, NewPush
<1>5. \A n \in Ids : sync.merged[n].status = "pending_upload" => sync.merged[n] = local[n]
    BY <1>1, NoneFacts DEF InTurn, Merging
<1>6. Pushing'
    BY <1>2, <1>4, <1>5 DEF Pushing, NewPush, NoteTypes, UserOK
<1>7. Ordered'
    BY <1>2 DEF InTurn, Ordered, InOrder
<1> QED
    BY <1>3, <1>6, <1>7 DEF InTurn

LEMMA WaysStay == [NotesNext]_notesVars => ways' = ways
BY DEF NotesNext, notesVars, Open, SyncNow, Restart, Write, Delete, PeerWrites, PeerDeletes,
       PushStep, Encrypt, PushEnds, PutRecord, SyncStep, Reconcile, SaveMany, ShowMerged,
       ListRecords, DeleteStep, DeleteRecord

LEMMA OrderlyHolds ==
    ASSUME NoteTypes, OrderlyInv, [NotesNext]_notesVars
    PROVE  OrderlyInv'
<1> SUFFICES ASSUME Orderly' PROVE InTurn'
    BY DEF OrderlyInv
<1>1. Orderly /\ InTurn
    BY WaysStay DEF Orderly, OrderlyInv
<1>2. CASE UNCHANGED notesVars
    BY <1>1, <1>2 DEF notesVars, tasks, counters, InTurn, Turns, Quiet, SyncIs, Pushing, Ordered, InOrder, Merging, FromPds
<1>3. CASE NotesNext
    <2>1. \A n \in Ids : ~PeerWrites(n) /\ ~PeerDeletes(n)
        BY <1>1 DEF PeerWrites, PeerDeletes, Orderly
    <2> QED
        BY <1>1, <1>3, <2>1, OpenInTurn, WriteInTurn, DeleteInTurn, PushInTurn, ListInTurn, ReconcileInTurn,
           SaveInTurn, ShowInTurn
            DEF NotesNext, PushStep, SyncStep, DeleteStep
<1> QED
    BY <1>2, <1>3

(* A step that changes a note stores no older text, unless it deletes it.  *)
LEMMA TextsGrow ==
    ASSUME NoteTypes, InTurn, Orderly, [NotesNext]_notesVars,
           NEW n \in Ids, local'[n] # NoNote
    PROVE  local'[n].text >= local[n].text
<1>0. local[n] \in NoteItem
    BY DEF NoteTypes, ListsOK
<1>1. CASE local'[n] = local[n]
    BY <1>0, <1>1 DEF NoteItem
<1>2. ASSUME NEW m \in Ids, Write(m) PROVE local'[n].text >= local[n].text
    <2>1. local'[n] = IF n = m THEN Note(clock + 1, clock + 1, "pending_upload") ELSE local[n]
        BY <1>2 DEF Write, NoteTypes, ListsOK
    <2>2. local[n].text <= clock
        BY DEF InTurn, Ordered, InOrder
    <2> QED
        BY <2>1, <2>2, <1>0 DEF Note, NoteItem, NoteTypes, UserOK
<1>3. ASSUME NEW m \in Ids, Delete(m) PROVE local'[n] = local[n]
    BY <1>3 DEF Delete, NoteTypes, ListsOK
<1>4. ASSUME NEW p \in pushes, PushEnds(p) PROVE local'[n].text >= local[n].text
    <2>1. p.note \in Ids /\ p.item \in NoteItem /\ local[p.note] = p.item
        BY DEF NoteTypes, TasksOK, PushTask, InTurn, Pushing
    <2>2. local'[n] = IF n = p.note THEN [p.item EXCEPT !.status = Outcome(p)] ELSE local[n]
        BY <1>4, <2>1 DEF PushEnds, NoteTypes, ListsOK
    <2> QED
        BY <2>1, <2>2, <1>0 DEF NoteItem
<1>5. CASE SaveMany
    <2>1. local'[n] = IF sync.merged[n] # NoNote THEN sync.merged[n] ELSE local[n]
        BY <1>5 DEF SaveMany
    <2>2. sync.merged[n] \in {NoNote, local[n]} \/ FromPds(n)
        BY <1>5 DEF SaveMany, InTurn, Merging
    <2> QED
        BY <2>1, <2>2, <1>0 DEF FromPds, Note, NoteItem
<1>6. CASE UNCHANGED local
    BY <1>6, <1>1
<1> QED
    BY <1>1, <1>2, <1>3, <1>4, <1>5, <1>6
        DEF NotesNext, notesVars, Open, SyncNow, Restart, PeerWrites, PeerDeletes,
            PushStep, Encrypt, PutRecord, SyncStep, Reconcile, ShowMerged,
            ListRecords, DeleteStep, DeleteRecord

(* As long as one device writes and its user waits, no text is replaced by *)
(* an older one, for any notes and bounds, whatever requests fail, arrive  *)
(* all the same, or are cut off by a restart.                              *)
(* (syncWithPds: last writer wins)                                         *)
THEOREM TextsStay == NotesSpec => TextsStayCalmly
<1>1. NotesInit => NoteTypes /\ OrderlyInv
    BY NotesStart, StartInTurn DEF OrderlyInv
<1>2. NoteTypes /\ OrderlyInv /\ [NotesNext]_notesVars => (NoteTypes /\ OrderlyInv)'
    BY NotesTypesHold, OrderlyHolds
<1>3. NoteTypes /\ OrderlyInv /\ [NotesNext]_notesVars =>
          [ways \subseteq {"fails"} =>
              \A n \in Ids : local'[n] # NoNote => local'[n].text >= local[n].text]_notesVars
    BY TextsGrow DEF OrderlyInv, Orderly
<1> QED
    BY <1>1, <1>2, <1>3, PTL DEF NotesSpec, TextsStayCalmly

-----------------------------------------------------------------------------
(* When, besides, no request fails: what is deleted is gone but for a      *)
(* deletion under way, a note is pending or has a record, and a sync       *)
(* merges every note with what the PDS has of it.                          *)

Gone ==
    /\ deletes \subseteq deleted
    /\ \A n \in deleted : /\ notes[n] = NoNote /\ local[n] = NoNote
                          /\ n \in deletes \/ records[n] = NoRecord

Kept ==
    /\ \A n \in Ids : \/ local[n] = NoNote \/ local[n].status = "pending_upload"
                      \/ local[n].status = "synced" /\ records[n] # NoRecord
    /\ \A p \in pushes : /\ Shown(p.note) /\ p.pc # "failed"
                         /\ p.pc = "stored" => records[p.note] # NoRecord

Seen ==
    \A n \in Ids :
        /\ SyncIs("read") => sync.list[n] = records[n]
        /\ SyncIs("save") /\ local[n] # NoNote => sync.merged[n] # NoNote
        /\ SyncIs("save") /\ local[n] = NoNote /\ records[n] = NoRecord => sync.merged[n] = NoNote
        /\ SyncIs("show") => sync.merged[n] = local[n]
        /\ SyncIs("idle") /\ open /\ local[n] # NoNote => Shown(n)

Known == Gone /\ Kept /\ Seen
Calm == ways = {}
CalmInv == Calm => Known

LEMMA StartKnown == NotesInit => Known
BY NoneFacts DEF NotesInit, Known, Gone, Kept, Seen, SyncIs

LEMMA OpenKnown ==
    ASSUME NoteTypes, InTurn, Calm, Known, Open \/ SyncNow \/ Restart
    PROVE  Known'
<1>1. deletes = {} /\ (Open \/ SyncNow => pushes = {} /\ SyncIs("list")')
    <2>1. Open \/ SyncNow => Quiet /\ SyncIs("list")'
        BY DEF Open, SyncNow, Calm, InTurn, Turns, SyncIs, NoSync
    <2>2. Restart => deletes = {}
        BY DEF Restart, Calm
    <2> QED
        BY <2>1, <2>2 DEF Quiet
<1>2. Restart => SyncIs("idle")' /\ ~open' /\ pushes' = {}
    BY NoneFacts DEF Restart, SyncIs
<1>3. /\ local' = local /\ records' = records /\ deleted' = deleted /\ deletes' = {}
      /\ pushes' = {}
    BY <1>1, <1>2 DEF Open, SyncNow, Restart
<1>4. \A n \in Ids : notes'[n] \in {notes[n], local[n], NoNote}
    BY DEF Open, SyncNow, Restart
<1>5. deleted \subseteq Ids
    BY DEF NoteTypes, UserOK
<1>6. Gone'
    BY <1>1, <1>3, <1>4, <1>5 DEF Known, Gone
<1>7. Kept'
    BY <1>3 DEF Known, Kept
<1>8. Seen'
    BY <1>1, <1>2 DEF Seen, SyncIs
<1> QED
    BY <1>6, <1>7, <1>8 DEF Known

LEMMA WriteKnown ==
    ASSUME NoteTypes, InTurn, Calm, Known, NEW n \in Ids, Write(n)
    PROVE  Known'
<1> DEFINE item == Note(clock + 1, clock + 1, "pending_upload")
<1>1. pushes = {} /\ deletes = {} /\ SyncIs("idle")
    BY DEF Write, UserMay, Calm, Quiet
<1>2. n \notin deleted
    BY DEF Write, Shown, Used, Known, Gone
<1>3. /\ pushes' = {NewPush(n, item)}
      /\ \A m \in Ids : /\ notes'[m] = IF m = n THEN item ELSE notes[m]
                        /\ local'[m] = IF m = n THEN item ELSE local[m]
      /\ UNCHANGED <<records, deleted, deletes, sync, open>>
    BY <1>1 DEF Write, NoteTypes, ListsOK
<1>4. item.status = "pending_upload" /\ item # NoNote
    BY NoneFacts DEF Note
<1>5. deleted \subseteq Ids
    BY DEF NoteTypes, UserOK
<1>6. Gone'
    BY <1>2, <1>3, <1>5 DEF Known, Gone
<1>7. NewPush(n, item).note = n /\ NewPush(n, item).pc = "encrypt"
    BY DEF NewPush
<1>8. Kept'
    BY <1>3, <1>4, <1>7 DEF Known, Kept, Shown
<1>9. Seen'
    BY <1>1, <1>3, <1>4 DEF Known, Seen, SyncIs, Shown
<1> QED
    BY <1>6, <1>8, <1>9 DEF Known

LEMMA DeleteKnown ==
    ASSUME NoteTypes, InTurn, Calm, Known, NEW n \in Ids, Delete(n)
    PROVE  Known'
<1>1. pushes = {} /\ deletes = {} /\ SyncIs("idle")
    BY DEF Delete, UserMay, Calm, Quiet
<1>2. /\ \A m \in Ids : /\ notes'[m] = IF m = n THEN NoNote ELSE notes[m]
                        /\ local'[m] = IF m = n THEN NoNote ELSE local[m]
      /\ deletes' = {n} /\ deleted' = deleted \union {n}
      /\ UNCHANGED <<records, pushes, sync, open>>
    BY <1>1 DEF Delete, NoteTypes, ListsOK
<1>3. deleted \subseteq Ids
    BY DEF NoteTypes, UserOK
<1>4. Gone'
    BY <1>1, <1>2, <1>3 DEF Known, Gone
<1>5. Kept'
    BY <1>1, <1>2 DEF Known, Kept
<1>6. Seen'
    BY <1>1, <1>2 DEF Known, Seen, SyncIs, Shown
<1> QED
    BY <1>4, <1>5, <1>6 DEF Known

LEMMA DeleteRecordKnown ==
    ASSUME NoteTypes, InTurn, Calm, Known, NEW n \in Ids, NEW ok \in BOOLEAN, DeleteRecord(n, ok)
    PROVE  Known'
<1>1. n \in deletes /\ n \in deleted /\ local[n] = NoNote /\ pushes = {} /\ SyncIs("idle")
    BY DEF DeleteRecord, Known, Gone, InTurn, Turns
<1>2. ok
    BY DEF DeleteRecord, MayFail, Calm
<1>3. /\ \A m \in Ids : records'[m] = IF m = n THEN NoRecord ELSE records[m]
      /\ deletes' = deletes \ {n}
      /\ UNCHANGED <<notes, local, pushes, sync, open, deleted>>
    BY <1>2 DEF DeleteRecord, Removed, NoteTypes, PdsOK
<1>4. deleted \subseteq Ids
    BY DEF NoteTypes, UserOK
<1>5. Gone'
    BY <1>3, <1>4 DEF Known, Gone
<1>6. Kept'
    BY <1>1, <1>3 DEF Known, Kept
<1>7. Seen'
    BY <1>1, <1>3 DEF Known, Seen, SyncIs, Shown
<1> QED
    BY <1>5, <1>6, <1>7 DEF Known

LEMMA PushKnown ==
    ASSUME NoteTypes, InTurn, Calm, Known, NEW p \in pushes,
           Encrypt(p) \/ PushEnds(p) \/ \E ok \in BOOLEAN : PutRecord(p, ok)
    PROVE  Known'
<1>1. /\ p \in PushTask /\ p.note \in Ids /\ local[p.note] = p.item
      /\ p.item.status = "pending_upload" /\ p.item # NoNote
    BY NoneFacts DEF NoteTypes, TasksOK, PushTask, InTurn, Pushing
<1>2. deletes = {} /\ SyncIs("idle") /\ Shown(p.note) /\ p.pc # "failed"
    BY DEF InTurn, Turns, Known, Kept
<1>3. p.note \notin deleted
    BY <1>1 DEF Known, Gone
<1>4. deleted \subseteq Ids /\ \A q \in pushes : q.note \in Ids
    BY DEF NoteTypes, UserOK, TasksOK, PushTask
<1>5. CASE Encrypt(p)
    <2> DEFINE q == [p EXCEPT !.pc = "put", !.stamp = clock]
    <2>1. q.note = p.note /\ q.pc = "put"
        BY <1>1 DEF PushTask
    <2>2. /\ \A x \in pushes' : x \in pushes \/ x = q
          /\ UNCHANGED <<notes, local, records, deletes, deleted, sync, open>>
        BY <1>5 DEF Encrypt, PushGoes
    <2>3. Gone' /\ Seen'
        BY <2>2 DEF Known, Gone, Seen, SyncIs, Shown
    <2>4. Kept'
        BY <2>1, <2>2, <1>2 DEF Known, Kept, Shown
    <2> QED
        BY <2>3, <2>4 DEF Known
<1>6. CASE PushEnds(p)
    <2> DEFINE item == [p.item EXCEPT !.status = Outcome(p)]
    <2>1. p.pc = "stored" /\ records[p.note] # NoRecord
        BY <1>2, <1>6 DEF PushEnds, Known, Kept
    <2>2. item.status = "synced" /\ item # NoNote
        BY <2>1, <1>1, NoneFacts DEF Outcome, PushTask, NoteItem
    <2>3. /\ \A m \in Ids : /\ notes'[m] = IF m = p.note THEN item ELSE notes[m]
                            /\ local'[m] = IF m = p.note THEN item ELSE local[m]
          /\ pushes' \subseteq pushes
          /\ UNCHANGED <<records, deletes, deleted, sync, open>>
        BY <1>1, <1>2, <1>6 DEF PushEnds, NoteTypes, ListsOK
    <2>4. Gone'
        BY <2>3, <1>3, <1>4 DEF Known, Gone
    <2>5. Kept'
        BY <2>1, <2>2, <2>3, <1>4 DEF Known, Kept, Shown
    <2>6. Seen'
        BY <2>2, <2>3, <1>2 DEF Known, Seen, SyncIs, Shown
    <2> QED
        BY <2>4, <2>5, <2>6 DEF Known
<1>7. ASSUME NEW ok \in BOOLEAN, PutRecord(p, ok) PROVE Known'
    <2> DEFINE q == [p EXCEPT !.pc = "stored"]
    <2> DEFINE r == [text |-> p.item.text, at |-> p.stamp]
    <2>1. ok
        BY <1>7 DEF PutRecord, MayFail, Calm
    <2>2. q.note = p.note /\ q.pc = "stored"
        BY <1>1 DEF PushTask
    <2>3. /\ \A x \in pushes' : x \in pushes \/ x = q
          /\ UNCHANGED <<notes, local, deletes, deleted, sync, open>>
        BY <2>1, <1>7 DEF PutRecord, PushGoes
    <2>4. \A m \in Ids : records'[m] = IF m = p.note THEN r ELSE records[m]
        BY <2>1, <1>1, <1>7 DEF PutRecord, PutInPds, NoteTypes, PdsOK
    <2>5. r # NoRecord
        <3>1. local[p.note].text >= 1
            BY <1>1 DEF InTurn, Ordered, InOrder
        <3>2. r.text >= 1
            BY <3>1, <1>1
        <3> QED
            BY <3>2, NoneFacts
    <2>6. Gone'
        BY <2>3, <2>4, <1>3, <1>4 DEF Known, Gone
    <2>7. Kept'
        BY <2>2, <2>3, <2>4, <2>5, <1>2, <1>4 DEF Known, Kept, Shown
    <2>8. Seen'
        BY <2>3, <2>4, <1>2 DEF Known, Seen, SyncIs, Shown
    <2> QED
        BY <2>6, <2>7, <2>8 DEF Known
<1> QED
    BY <1>5, <1>6, <1>7

LEMMA SyncKnown ==
    ASSUME NoteTypes, InTurn, Calm, Known,
           Reconcile \/ SaveMany \/ ShowMerged \/ \E ok \in BOOLEAN : ListRecords(ok)
    PROVE  Known'
<1>1. pushes = {} /\ deletes = {} /\ ~SyncIs("idle")
    BY DEF Reconcile, SaveMany, ShowMerged, ListRecords, InTurn, Turns, SyncIs
<1>2. deleted \subseteq Ids /\ \A n \in deleted : local[n] = NoNote /\ records[n] = NoRecord
    BY <1>1 DEF Known, Gone, NoteTypes, UserOK
<1>3. ASSUME NEW ok \in BOOLEAN, ListRecords(ok) PROVE Known'
    <2>1. ok
        BY <1>3 DEF ListRecords, MayFail, Calm
    <2>2. /\ sync' = [sync EXCEPT !.pc = "read",
                            !.list = [n \in Ids |-> IF n \in Ids THEN records[n] ELSE NoRecord]]
          /\ UNCHANGED <<notes, local, records, pushes, deletes, deleted>>
        BY <2>1, <1>3 DEF ListRecords
    <2>3. SyncIs("read")' /\ \A n \in Ids : sync'.list[n] = records[n]
        BY <2>2 DEF SyncIs, NoteTypes, TasksOK, SyncTask
    <2>4. Gone' /\ Kept'
        BY <2>2 DEF Known, Gone, Kept, Shown
    <2>5. Seen'
        BY <2>2, <2>3 DEF Seen, SyncIs
    <2> QED
        BY <2>4, <2>5 DEF Known
<1>4. CASE Reconcile
    <2>1. /\ SyncIs("read") /\ SyncIs("save")'
          /\ \A n \in Ids : sync'.merged[n] = Merged(local[n], sync.list[n])
          /\ UNCHANGED <<notes, local, records, pushes, deletes, deleted>>
        BY <1>4 DEF Reconcile, SyncIs, NoteTypes, TasksOK, SyncTask
    <2>2. Gone' /\ Kept'
        BY <2>1 DEF Known, Gone, Kept, Shown
    <2>3. ASSUME NEW n \in Ids
          PROVE  /\ local[n] # NoNote => sync'.merged[n] # NoNote
                 /\ local[n] = NoNote /\ records[n] = NoRecord => sync'.merged[n] = NoNote
        <3>1. sync'.merged[n] = Merged(local[n], records[n])
            BY <2>1 DEF Known, Seen
        <3>2. Note(records[n].text, records[n].at, "synced") # NoNote
            BY NoneFacts DEF Note
        <3> QED
            BY <3>1, <3>2, NoneFacts DEF Merged, Unlisted, Known, Kept
    <2>4. Seen'
        BY <2>1, <2>3 DEF Seen, SyncIs
    <2> QED
        BY <2>2, <2>4 DEF Known
<1>5. CASE SaveMany
    <2>1. /\ SyncIs("save") /\ SyncIs("show")' /\ sync'.merged = sync.merged
          /\ \A n \in Ids : local'[n] = IF sync.merged[n] # NoNote THEN sync.merged[n] ELSE local[n]
          /\ UNCHANGED <<notes, records, pushes, deletes, deleted>>
        BY <1>5 DEF SaveMany, SyncIs, NoteTypes, TasksOK, SyncTask
    <2>2. \A n \in Ids : /\ local'[n] = sync.merged[n]
                         /\ local[n] = NoNote /\ records[n] = NoRecord => local'[n] = NoNote
        BY <2>1 DEF Known, Seen
    <2>3. Gone'
        BY <2>1, <2>2, <1>2 DEF Known, Gone
    <2>4. ASSUME NEW n \in Ids
          PROVE  \/ local'[n] = NoNote \/ local'[n].status = "pending_upload"
                 \/ local'[n].status = "synced" /\ records'[n] # NoRecord
        <3>1. local'[n] \in {NoNote, local[n]} \/ FromPds(n)
            BY <2>1, <2>2 DEF InTurn, Merging
        <3> QED
            BY <3>1, <2>1, <2>2 DEF FromPds, Note, Known, Kept
    <2>5. Kept'
        BY <2>1, <2>4, <1>1 DEF Kept
    <2>6. Seen'
        BY <2>1, <2>2 DEF Seen, SyncIs
    <2> QED
        BY <2>3, <2>5, <2>6 DEF Known
<1>6. CASE ShowMerged
    <2>1. /\ SyncIs("show") /\ SyncIs("idle")' /\ \A n \in Ids : notes'[n] = local[n]
          /\ pushes' = Pushed(sync.merged)
          /\ UNCHANGED <<local, records, deletes, deleted>>
        BY <1>1, <1>6, NoneFacts DEF ShowMerged, SyncIs, Known, Seen, NoteTypes, ListsOK, TasksOK, SyncTask
    <2>2. Gone'
        BY <2>1, <1>2 DEF Known, Gone
    <2>3. \A p \in pushes' : /\ p.note \in Ids /\ p.pc = "encrypt"
                             /\ sync.merged[p.note].status = "pending_upload"
        BY <2>1 DEF Pushed, NewPush
    <2>4. \A p \in pushes' : Shown(p.note)'
        BY <2>1, <2>3, NoneFacts DEF Shown, Known, Seen
    <2>5. Kept'
        BY <2>1, <2>3, <2>4 DEF Known, Kept
    <2>6. Seen'
        BY <2>1 DEF Seen, SyncIs, Shown
    <2> QED
        BY <2>2, <2>5, <2>6 DEF Known
<1> QED
    BY <1>3, <1>4, <1>5, <1>6

LEMMA CalmHolds ==
    ASSUME NoteTypes, OrderlyInv, CalmInv, [NotesNext]_notesVars
    PROVE  CalmInv'
<1> SUFFICES ASSUME Calm' PROVE Known'
    BY DEF CalmInv
<1>1. Calm /\ InTurn /\ Known
    BY WaysStay DEF Calm, CalmInv, OrderlyInv, Orderly
<1>2. CASE UNCHANGED notesVars
    BY <1>1, <1>2 DEF notesVars, tasks, Known, Gone, Kept, Seen, SyncIs, Shown
<1>3. CASE NotesNext
    <2>1. \A n \in Ids : ~PeerWrites(n) /\ ~PeerDeletes(n)
        BY <1>1 DEF PeerWrites, PeerDeletes, Calm
    <2> QED
        BY <1>1, <1>3, <2>1, OpenKnown, WriteKnown, DeleteKnown, DeleteRecordKnown, PushKnown, SyncKnown
            DEF NotesNext, PushStep, SyncStep, DeleteStep
<1> QED
    BY <1>2, <1>3

LEMMA NotesInvariant == NotesSpec => [](NoteTypes /\ OrderlyInv /\ CalmInv)
<1>1. NotesInit => NoteTypes /\ OrderlyInv /\ CalmInv
    BY NotesStart, StartInTurn, StartKnown DEF OrderlyInv, CalmInv
<1>2. NoteTypes /\ OrderlyInv /\ CalmInv /\ [NotesNext]_notesVars =>
          (NoteTypes /\ OrderlyInv /\ CalmInv)'
    BY NotesTypesHold, OrderlyHolds, CalmHolds
<1> QED
    BY <1>1, <1>2, PTL DEF NotesSpec

(* When one device writes, its user waits and no request fails, a note     *)
(* that was written and not deleted is in the list whenever no sync is     *)
(* under way, through any number of restarts, for any notes and bounds.    *)
(* (initialize, syncWithPds)                                               *)
THEOREM WrittenStaysShown == NotesSpec => []WrittenIsShownCalmly
<1>1. CalmInv => WrittenIsShownCalmly
    BY DEF CalmInv, Calm, Known, Seen, WrittenIsShownCalmly, WrittenIsShown
<1> QED
    BY <1>1, NotesInvariant, PTL

(* Under the same hypotheses a deleted note never comes back, from the     *)
(* store, the PDS or a push.  (deleteNote)                                 *)
THEOREM DeletedStaysGone == NotesSpec => []DeletedIsGoneCalmly
<1>1. CalmInv => DeletedIsGoneCalmly
    BY DEF CalmInv, Calm, Known, Gone, DeletedIsGoneCalmly, DeletedIsGone
<1> QED
    BY <1>1, NotesInvariant, PTL

=============================================================================
