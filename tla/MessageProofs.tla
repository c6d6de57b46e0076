---------------------------- MODULE MessageProofs ----------------------------
(***************************************************************************)
(* Theorems about one message on a device's pages (Thread) and about the   *)
(* backup of the texts of all (SyncBackup).                                *)
(*                                                                         *)
(* Thread, for any number of reactions, loads and recoveries: a calm page  *)
(* at rest shows the reactions that were sent and the text that is         *)
(* cached, nothing of it is unread, and no recovered text is sealed again. *)
(* SyncBackup, for any accounts, texts, faults and number of rotations:    *)
(* the key kept as that of a generation is that generation's, and so is    *)
(* the one in memory unless its adoption is under way or failed, of every  *)
(* account whose unlock, set-up or change of the PIN met no rotation.  And *)
(* the texts of an account are kept, whatever meets whatever else but a    *)
(* change of account.                                                      *)
(***************************************************************************)
EXTENDS Thread, SyncBackup, FiniteSetTheorems, WellFoundedInduction, TLAPS

-----------------------------------------------------------------------------
(* Thread: types of what the server, the cache and the page hold, and of   *)
(* the calls.                                                              *)

Slips == [by : Users, add : BOOLEAN]
Copies == Records \union {NotShown}
ThreadCall == [pc : {"idle", "store", "get", "put", "send", "keep"}, list : SUBSET Users,
               add : BOOLEAN, copy : Copies, at : Nat]
LoadCall == [pc : {"idle", "read", "show", "page", "orphan", "refresh", "fill"},
             copy : Copies, page : Nat, ids : SUBSET Positions]

PutsRecord(c) == c.pc = "put" => c.copy \in Records

LogOK == log \in Seq(Slips) /\ Len(log) <= MaxReactions /\ heard \in Nat /\ heard <= Len(log)
PageOK == record \in Records /\ shown \in Copies /\ unread \in Nat /\ cached \in [Positions -> {"none", "text", "blank"}]
OwnOK == own \in [Toggles -> ThreadCall] /\ \A t \in Toggles : PutsRecord(own[t]) /\ own[t].at \in {0, 1} \union Posted
LiveOK == live \in [Positions -> ThreadCall] /\ \A i \in Positions : PutsRecord(live[i])
                                               /\ (live[i].pc # "idle" => i \in Posted)
LoadOK == /\ load \in LoadCall /\ load.page <= Len(log)
          /\ load.pc \notin {"idle", "read"} => load.copy \in Records
ResentOK == resent \in ThreadCall /\ PutsRecord(resent)

ThreadTypes == LogOK /\ PageOK /\ OwnOK /\ LiveOK /\ LoadOK /\ ResentOK

LEMMA NoCallTyped ==
    /\ NoCall \in ThreadCall /\ NoLoad \in LoadCall
    /\ NoCall.pc = "idle" /\ NoCall.at = 0 /\ NoLoad.pc = "idle" /\ NoLoad.page = 0
    /\ NotShown \notin Records
    /\ \A x : x \in Records => x.sealed \in BOOLEAN /\ x.reactions \subseteq Users
<1>1. NotShown \in Copies
    BY DEF Copies
<1>2. \A x \in Records : x.sealed \in BOOLEAN /\ x.reactions \subseteq Users
    BY DEF Records
<1>3. NotShown \notin Records
    BY <1>2 DEF NotShown, Users
<1> QED
    BY <1>1, <1>2, <1>3 DEF NoCall, NoLoad, ThreadCall, LoadCall

LEMMA WithReactions ==
    ASSUME NEW r \in Records, NEW S \in SUBSET Users
    PROVE  /\ [r EXCEPT !.reactions = S] \in Records
           /\ [r EXCEPT !.reactions = S].reactions = S
           /\ [r EXCEPT !.reactions = S].sealed = r.sealed
BY DEF Records

LEMMA Unsealed ==
    ASSUME NEW r \in Records
    PROVE  /\ [r EXCEPT !.sealed = FALSE] \in Records
           /\ [r EXCEPT !.sealed = FALSE].reactions = r.reactions
           /\ ~[r EXCEPT !.sealed = FALSE].sealed
BY DEF Records

LEMMA AppliedTyped ==
    ASSUME NEW S \in SUBSET Users, NEW u \in Users, NEW add \in BOOLEAN
    PROVE  /\ Applied(S, u, add) \in SUBSET Users
           /\ \A v : v \in Applied(S, u, add) <=> IF v = u THEN add ELSE v \in S
BY DEF Applied

LEMMA Posting ==
    ASSUME ThreadTypes, NEW u \in Users, NEW add \in BOOLEAN, Len(log) < MaxReactions,
           log' = Append(log, [by |-> u, add |-> add])
    PROVE  /\ log' \in Seq(Slips) /\ Len(log') = Len(log) + 1 /\ Len(log') <= MaxReactions
           /\ \A i \in Posted : log'[i] = log[i]
           /\ log'[Len(log) + 1].by = u /\ log'[Len(log) + 1].add = add
           /\ Posted \subseteq Posted' /\ Len(log) + 1 \in Posted' /\ log' # <<>>
           /\ \A i \in Posted' : i \in Posted \/ i = Len(log) + 1
<1>1. [by |-> u, add |-> add] \in Slips
    BY DEF Slips
<1>2. log \in Seq(Slips)
    BY DEF ThreadTypes, LogOK
<1>3. log' \in Seq(Slips) /\ Len(log') = Len(log) + 1
    BY <1>1, <1>2
<1>4. /\ \A i \in 1 .. Len(log) : log'[i] = log[i]
      /\ log'[Len(log) + 1] = [by |-> u, add |-> add]
    BY <1>1, <1>2
<1> QED
    BY <1>2, <1>3, <1>4, ThreadAssumption DEF Posted, ThreadAssumption

LEMMA PostedFacts ==
    ASSUME ThreadTypes
    PROVE  /\ \A i \in Posted : i \in Positions /\ log[i] \in Slips /\ log[i].by \in Users /\ log[i].add \in BOOLEAN
           /\ \A i : i \in Posted <=> i \in Nat /\ 1 <= i /\ i <= Len(log)
           /\ \A i : i \in Positions <=> i \in Nat /\ 1 <= i /\ i <= MaxReactions
           /\ Len(log) \in Nat /\ MaxReactions \in Nat
           /\ log = <<>> <=> Len(log) = 0
<1>1. log \in Seq(Slips) /\ Len(log) <= MaxReactions /\ MaxReactions \in Nat /\ Len(log) \in Nat
    BY ThreadAssumption DEF ThreadTypes, LogOK, ThreadAssumption
<1>2. \A i \in Posted : log[i] \in Slips
    BY <1>1 DEF Posted
<1> QED
    BY <1>1, <1>2 DEF Posted, Positions, Slips

-----------------------------------------------------------------------------
(* Every step keeps the types.                                             *)

LEMMA OwnSteps ==
    ASSUME ThreadTypes, NEW t \in Toggles, NEW c, c \in ThreadCall, PutsRecord(c),
           c.at \in {0, 1} \union Posted', Posted \subseteq Posted', own' = [own EXCEPT ![t] = c]
    PROVE  OwnOK'
BY DEF ThreadTypes, OwnOK, PutsRecord

LEMMA LiveSteps ==
    ASSUME ThreadTypes, NEW i \in Positions, NEW c, c \in ThreadCall, PutsRecord(c),
           c.pc # "idle" => i \in Posted', Posted \subseteq Posted', live' = [live EXCEPT ![i] = c]
    PROVE  LiveOK'
BY DEF ThreadTypes, LiveOK, PutsRecord

LEMMA PostedStays ==
    ASSUME UNCHANGED log
    PROVE  Posted' = Posted
BY DEF Posted

LEMMA SameTypes ==
    ASSUME ThreadTypes
    PROVE  /\ UNCHANGED <<log, heard>> => LogOK'
           /\ UNCHANGED <<record, shown, unread, cached>> => PageOK'
           /\ Posted \subseteq Posted' /\ UNCHANGED own => OwnOK'
           /\ Posted \subseteq Posted' /\ UNCHANGED live => LiveOK'
           /\ Posted \subseteq Posted' /\ Len(log') >= Len(log) /\ UNCHANGED load => LoadOK'
           /\ UNCHANGED resent => ResentOK'
<1>1. UNCHANGED <<log, heard>> => LogOK'
    BY DEF ThreadTypes, LogOK
<1>2. UNCHANGED <<record, shown, unread, cached>> => PageOK'
    BY DEF ThreadTypes, PageOK
<1>3. Posted \subseteq Posted' /\ UNCHANGED own => OwnOK'
    BY DEF ThreadTypes, OwnOK
<1>4. Posted \subseteq Posted' /\ UNCHANGED live => LiveOK'
    BY DEF ThreadTypes, LiveOK
<1>5. Posted \subseteq Posted' /\ Len(log') >= Len(log) /\ UNCHANGED load => LoadOK'
    BY PostedFacts DEF ThreadTypes, LoadOK, LoadCall, LogOK
<1>6. UNCHANGED resent => ResentOK'
    BY DEF ThreadTypes, ResentOK
<1> QED
    BY <1>1, <1>2, <1>3, <1>4, <1>5, <1>6

LEMMA LengthStays == ASSUME ThreadTypes, UNCHANGED log PROVE Len(log') >= Len(log)
BY PostedFacts

LEMMA PeerReactsTypes == ASSUME ThreadTypes, PeerReacts PROVE ThreadTypes'
<1> DEFINE add == "peer" \notin Reacted(Posted)
<1>1. "peer" \in Users /\ add \in BOOLEAN /\ Len(log) < MaxReactions
      /\ log' = Append(log, [by |-> "peer", add |-> add])
    BY DEF PeerReacts, Users
<1>2. log' \in Seq(Slips) /\ Len(log') = Len(log) + 1 /\ Len(log') <= MaxReactions /\ Posted \subseteq Posted'
    BY <1>1, Posting
<1>3. LogOK' /\ Len(log') >= Len(log)
    BY <1>2, PostedFacts DEF PeerReacts, ThreadTypes, LogOK
<1> QED
    BY <1>2, <1>3, SameTypes DEF PeerReacts, ThreadTypes

LEMMA HearTypes == ASSUME ThreadTypes, Hear \/ LoseEvent PROVE ThreadTypes'
<1>1. UNCHANGED <<log, record, shown, own, load, resent>>
    BY DEF Hear, LoseEvent
<1>2. heard' = heard + 1 /\ heard + 1 \in Posted
    BY PostedFacts DEF Hear, LoseEvent, ThreadTypes, LogOK
<1>3. LogOK'
    BY <1>1, <1>2, PostedFacts DEF ThreadTypes, LogOK
<1>4. live' = live \/ live' = [live EXCEPT ![heard + 1] = [NoCall EXCEPT !.pc = "store"]]
    BY DEF Hear, LoseEvent
<1>5. /\ [NoCall EXCEPT !.pc = "store"] \in ThreadCall
      /\ PutsRecord([NoCall EXCEPT !.pc = "store"])
    BY NoCallTyped DEF ThreadCall, PutsRecord
<1>6. LiveOK'
    BY <1>1, <1>2, <1>4, <1>5, LiveSteps, SameTypes, PostedStays, PostedFacts
<1>7. unread' \in Nat /\ cached' \in [Positions -> {"none", "text", "blank"}]
    BY <1>2, PostedFacts DEF Hear, LoseEvent, Counted, ThreadTypes, PageOK
<1>8. PageOK'
    BY <1>1, <1>7 DEF ThreadTypes, PageOK
<1> QED
    BY <1>1, <1>3, <1>6, <1>8, SameTypes, PostedStays, LengthStays DEF ThreadTypes

LEMMA LiveTypes ==
    ASSUME ThreadTypes, NEW i \in Positions, LiveStore(i) \/ LiveGet(i) \/ LivePut(i)
    PROVE  ThreadTypes'
<1>1. UNCHANGED <<log, heard, own, load, resent>>
    BY DEF LiveStore, LiveGet, LivePut
<1>2. live[i] \in ThreadCall /\ live[i].pc # "idle" /\ i \in Posted /\ PutsRecord(live[i])
    BY DEF LiveStore, LiveGet, LivePut, At, ThreadTypes, LiveOK
<1>3. log[i].by \in Users /\ log[i].add \in BOOLEAN
    BY <1>2, PostedFacts
<1>4. record \in Records /\ shown \in Copies
    BY DEF ThreadTypes, PageOK
<1>5. CASE LiveStore(i)
    <2>1. [live[i] EXCEPT !.pc = "get"] \in ThreadCall /\ PutsRecord([live[i] EXCEPT !.pc = "get"])
        BY <1>2 DEF ThreadCall, PutsRecord
    <2>2. live' = [live EXCEPT ![i] = [live[i] EXCEPT !.pc = "get"]]
        BY <1>5 DEF LiveStore
    <2>3. LiveOK'
        BY <2>1, <2>2, <1>1, <1>2, LiveSteps, PostedStays
    <2>4. shown' \in Copies
        <3>1. CASE shown = NotShown
            BY <3>1, <1>4, <1>5 DEF LiveStore, ShownNow
        <3>2. CASE shown # NotShown
            <4>1. shown \in Records
                BY <3>2, <1>4 DEF Copies
            <4>2. Applied(shown.reactions, log[i].by, log[i].add) \in SUBSET Users
                BY <4>1, <1>3, AppliedTyped, NoCallTyped
            <4>3. shown' = [shown EXCEPT !.reactions = Applied(shown.reactions, log[i].by, log[i].add)]
                BY <3>2, <1>5 DEF LiveStore, ShownNow
            <4> QED
                BY <4>1, <4>2, <4>3, WithReactions DEF Copies
        <3> QED
            BY <3>1, <3>2
    <2>5. PageOK'
        BY <2>4, <1>5 DEF LiveStore, ThreadTypes, PageOK
    <2> QED
        BY <2>3, <2>5, <1>1, SameTypes, PostedStays, LengthStays DEF ThreadTypes
<1>6. CASE LiveGet(i)
    <2> DEFINE c == [live[i] EXCEPT !.pc = "put", !.copy = record]
    <2>1. c \in ThreadCall /\ PutsRecord(c)
        BY <1>2, <1>4 DEF ThreadCall, PutsRecord, Copies
    <2>2. live' = [live EXCEPT ![i] = c]
        BY <1>6 DEF LiveGet
    <2>3. LiveOK'
        BY <2>1, <2>2, <1>1, <1>2, LiveSteps, PostedStays
    <2> QED
        BY <2>3, <1>1, <1>6, SameTypes, PostedStays, LengthStays DEF LiveGet, ThreadTypes
<1>7. CASE LivePut(i)
    <2>1. live' = [live EXCEPT ![i] = NoCall]
        BY <1>7 DEF LivePut
    <2>2. LiveOK'
        BY <2>1, <1>1, LiveSteps, PostedStays, NoCallTyped DEF PutsRecord
    <2>3. live[i].copy \in Records
        BY <1>2, <1>7 DEF LivePut, At, PutsRecord
    <2>4. record' \in Records
        <3>1. Applied(live[i].copy.reactions, log[i].by, log[i].add) \in SUBSET Users
            BY <2>3, <1>3, AppliedTyped, NoCallTyped
        <3>2. record' = [live[i].copy EXCEPT !.reactions =
                            Applied(live[i].copy.reactions, log[i].by, log[i].add)]
            BY <1>7 DEF LivePut
        <3> QED
            BY <2>3, <3>1, <3>2, WithReactions
    <2>5. PageOK'
        BY <2>4, <1>7 DEF LivePut, Reported, ThreadTypes, PageOK
    <2> QED
        BY <2>2, <2>5, <1>1, SameTypes, PostedStays, LengthStays DEF ThreadTypes
<1> QED
    BY <1>5, <1>6, <1>7

LEMMA ToggleTypes ==
    ASSUME ThreadTypes, NEW t \in Toggles, Toggle(t)
    PROVE  ThreadTypes'
<1>1. shown \in Records /\ shown.reactions \subseteq Users
    BY NoCallTyped DEF Toggle, ThreadTypes, PageOK, Copies
<1> DEFINE add == "me" \notin Current
           list == Applied(Current, "me", add)
           c == [NoCall EXCEPT !.pc = "get", !.list = list, !.add = add, !.at = 1]
<1>2. list \in SUBSET Users /\ add \in BOOLEAN
    BY <1>1, AppliedTyped DEF Current, Users
<1>3. c \in ThreadCall /\ PutsRecord(c) /\ c.at = 1
    BY <1>2, NoCallTyped DEF ThreadCall, PutsRecord
<1>4. own' = [own EXCEPT ![t] = c] /\ shown' = [shown EXCEPT !.reactions = list]
    BY DEF Toggle
<1>5. UNCHANGED <<log, heard, cached, record, unread, live, load, resent>>
    BY DEF Toggle
<1>6. OwnOK'
    BY <1>3, <1>4, <1>5, OwnSteps, PostedStays
<1>7. shown' \in Copies
    BY <1>1, <1>2, <1>4, WithReactions DEF Copies
<1>8. PageOK'
    BY <1>5, <1>7 DEF ThreadTypes, PageOK
<1> QED
    BY <1>5, <1>6, <1>8, SameTypes, PostedStays, LengthStays DEF ThreadTypes

LEMMA OwnCallTyped ==
    ASSUME ThreadTypes, NEW t \in Toggles
    PROVE  own[t] \in ThreadCall /\ PutsRecord(own[t]) /\ own[t].at \in {0, 1} \union Posted
BY DEF ThreadTypes, OwnOK

LEMMA DoneTyped ==
    ASSUME ThreadTypes, NEW t \in Toggles, Done(t), Posted \subseteq Posted'
    PROVE  OwnOK'
<1>1. [NoCall EXCEPT !.at = 1] \in ThreadCall /\ PutsRecord([NoCall EXCEPT !.at = 1])
      /\ [NoCall EXCEPT !.at = 1].at = 1
    BY NoCallTyped DEF ThreadCall, PutsRecord
<1> QED
    BY <1>1, OwnSteps DEF Done

LEMMA ToggleGetTypes ==
    ASSUME ThreadTypes, NEW t \in Toggles, ToggleGet(t) \/ TogglePut(t)
    PROVE  ThreadTypes'
<1>1. UNCHANGED <<log, heard, cached, shown, unread, live, load, resent>>
    BY DEF ToggleGet, TogglePut
<1>2. record \in Records
    BY DEF ThreadTypes, PageOK
<1>3. CASE ToggleGet(t)
    <2> DEFINE c == [own[t] EXCEPT !.pc = "put", !.copy = record]
    <2>1. c \in ThreadCall /\ PutsRecord(c) /\ c.at = own[t].at
        BY <1>2, OwnCallTyped DEF ThreadCall, PutsRecord, Copies
    <2>2. own' = [own EXCEPT ![t] = c]
        BY <1>3 DEF ToggleGet
    <2>3. OwnOK'
        BY <2>1, <2>2, <1>1, OwnSteps, OwnCallTyped, PostedStays
    <2> QED
        BY <2>3, <1>1, <1>3, SameTypes, PostedStays, LengthStays DEF ToggleGet, ThreadTypes
<1>4. CASE TogglePut(t)
    <2> DEFINE c == [own[t] EXCEPT !.pc = "send"]
    <2>1. c \in ThreadCall /\ PutsRecord(c) /\ c.at = own[t].at
        BY OwnCallTyped DEF ThreadCall, PutsRecord
    <2>2. own' = [own EXCEPT ![t] = c]
        BY <1>4 DEF TogglePut
    <2>3. OwnOK'
        BY <2>1, <2>2, <1>1, OwnSteps, OwnCallTyped, PostedStays
    <2>4. own[t].copy \in Records /\ own[t].list \in SUBSET Users
        BY <1>4, OwnCallTyped DEF TogglePut, At, PutsRecord, ThreadCall
    <2>5. record' = [own[t].copy EXCEPT !.reactions = own[t].list]
        BY <1>4 DEF TogglePut
    <2>6. record' \in Records
        BY <2>4, <2>5, WithReactions
    <2>7. PageOK'
        BY <2>6, <1>1 DEF ThreadTypes, PageOK
    <2> QED
        BY <2>3, <2>7, <1>1, SameTypes, PostedStays, LengthStays DEF ThreadTypes
<1> QED
    BY <1>3, <1>4

LEMMA ToggleSendTypes ==
    ASSUME ThreadTypes, NEW t \in Toggles, ToggleSend(t)
    PROVE  ThreadTypes'
<1>1. UNCHANGED <<heard, cached, record, shown, unread, live, load, resent>>
    BY DEF ToggleSend
<1>2. own[t].add \in BOOLEAN /\ "me" \in Users
    BY OwnCallTyped DEF ThreadCall, Users
<1>3. CASE log' = log
    <2>1. Done(t)
        <3>1. Len(log) \in Nat /\ log \in Seq(Slips)
            BY PostedFacts DEF ThreadTypes, LogOK
        <3>2. Append(log, [by |-> "me", add |-> own[t].add]) # log
            <4>1. [by |-> "me", add |-> own[t].add] \in Slips
                BY <1>2 DEF Slips
            <4>2. Len(Append(log, [by |-> "me", add |-> own[t].add])) = Len(log) + 1
                BY <3>1, <4>1
            <4> QED
                BY <4>2, <3>1
        <3> QED
            BY <3>2, <1>3 DEF ToggleSend
    <2> QED
        BY <2>1, <1>1, <1>3, DoneTyped, SameTypes, PostedStays, LengthStays DEF ThreadTypes
<1>4. CASE log' = Append(log, [by |-> "me", add |-> own[t].add])
    <2>1. log' \in Seq(Slips) /\ Len(log') = Len(log) + 1 /\ Len(log') <= MaxReactions
          /\ Posted \subseteq Posted' /\ Len(log) + 1 \in Posted'
        BY <1>2, <1>4, Posting DEF ToggleSend
    <2>2. LogOK' /\ Len(log') >= Len(log)
        BY <2>1, <1>1, PostedFacts DEF ThreadTypes, LogOK
    <2> DEFINE c == [own[t] EXCEPT !.pc = "keep", !.at = Len(log) + 1]
    <2>3. c \in ThreadCall /\ PutsRecord(c) /\ c.at = Len(log) + 1
        <3>1. Len(log) + 1 \in Nat
            BY PostedFacts
        <3> QED
            BY <3>1, OwnCallTyped DEF ThreadCall, PutsRecord
    <2>4. own' = [own EXCEPT ![t] = c] \/ Done(t)
        BY DEF ToggleSend
    <2>5. OwnOK'
        BY <2>1, <2>3, <2>4, OwnSteps, DoneTyped
    <2> QED
        BY <2>1, <2>2, <2>5, <1>1, SameTypes DEF ThreadTypes
<1> QED
    BY <1>3, <1>4 DEF ToggleSend

LEMMA ToggleKeepTypes ==
    ASSUME ThreadTypes, NEW t \in Toggles, ToggleKeep(t)
    PROVE  ThreadTypes'
<1>1. UNCHANGED <<log, heard, record, shown, unread, live, load, resent>> /\ Done(t)
    BY DEF ToggleKeep
<1>2. PageOK'
    BY <1>1 DEF ToggleKeep, ThreadTypes, PageOK
<1> QED
    BY <1>1, <1>2, DoneTyped, SameTypes, PostedStays, LengthStays DEF ThreadTypes

LEMMA CalledTypes ==
    ASSUME ThreadTypes, UNCHANGED <<log, heard, record, shown, unread, cached, own, live, resent>>,
           LoadOK'
    PROVE  ThreadTypes'
BY SameTypes, PostedStays, LengthStays DEF ThreadTypes

LEMMA LoadTypes ==
    ASSUME ThreadTypes, LoadBegins \/ LoadRead \/ LoadPage
    PROVE  ThreadTypes'
<1>1. UNCHANGED <<log, heard, record, shown, unread, cached, own, live, resent>>
    BY DEF LoadBegins, LoadRead, LoadPage
<1>2. load \in LoadCall /\ record \in Records /\ Posted' = Posted
    BY <1>1, PostedStays DEF ThreadTypes, LoadOK, PageOK
<1>3. CASE LoadBegins
    <2>1. load' = [NoLoad EXCEPT !.pc = "read"]
        BY <1>3 DEF LoadBegins
    <2>2. load' \in LoadCall /\ load'.pc = "read" /\ load'.page = 0
        BY <2>1, NoCallTyped DEF LoadCall
    <2> QED
        BY <2>2, <1>1, CalledTypes, PostedFacts DEF LoadOK
<1>4. CASE LoadRead
    <2>1. load' = [load EXCEPT !.pc = "show", !.copy = record, !.ids = Readable] /\ load.pc = "read"
        BY <1>4 DEF LoadRead
    <2>2. Readable \subseteq Positions
        BY DEF Readable
    <2>3. load' \in LoadCall /\ load'.pc = "show" /\ load'.page = load.page /\ load'.copy = record
          /\ load'.ids = Readable
        BY <2>1, <2>2, <1>2 DEF LoadCall, Copies
    <2> QED
        BY <2>3, <1>1, <1>2, CalledTypes DEF LoadOK, ThreadTypes
<1>5. CASE LoadPage
    <2>1. load' = [load EXCEPT !.pc = "orphan", !.page = Len(log), !.ids = InCache]
          /\ load.pc = "page" /\ load.copy \in Records
        BY <1>5 DEF LoadPage, ThreadTypes, LoadOK
    <2>2. InCache \subseteq Positions /\ Len(log) \in Nat
        BY PostedFacts DEF InCache
    <2>3. load' \in LoadCall /\ load'.pc = "orphan" /\ load'.page = Len(log) /\ load'.copy = load.copy
        BY <2>1, <2>2, <1>2 DEF LoadCall
    <2> QED
        BY <2>1, <2>2, <2>3, <1>1, <1>2, CalledTypes DEF LoadOK
<1> QED
    BY <1>3, <1>4, <1>5

LEMMA ReactedTyped == Reacted(Posted) \subseteq Users /\ \A S : Reacted(S) \subseteq Users
BY DEF Reacted

LEMMA ProcessedTyped ==
    ASSUME NEW r \in Records, NEW S
    PROVE  /\ Processed(r, S) \in Records /\ Processed(r, S).sealed = r.sealed
           /\ Processed(r, S).reactions = IF S = {} THEN r.reactions ELSE Reacted(S)
<1>1. (IF S = {} THEN r.reactions ELSE Reacted(S)) \in SUBSET Users
    BY ReactedTyped, NoCallTyped
<1>2. Processed(r, S) = [r EXCEPT !.reactions = IF S = {} THEN r.reactions ELSE Reacted(S)]
    BY DEF Processed
<1> QED
    BY <1>1, <1>2, WithReactions

LEMMA ShowTypes ==
    ASSUME ThreadTypes, LoadShow \/ LoadRefresh \/ LoadFill
    PROVE  ThreadTypes'
<1>1. UNCHANGED <<log, heard, record, own, live, resent>>
    BY DEF LoadShow, LoadRefresh, LoadFill
<1>2. load \in LoadCall /\ load.page <= Len(log) /\ record \in Records /\ load.copy \in Records
    BY DEF LoadShow, LoadRefresh, LoadFill, ThreadTypes, LoadOK, PageOK
<1>3. CASE LoadShow
    <2>1. load' = [load EXCEPT !.pc = "page"] /\ shown' = Processed(load.copy, load.ids)
        BY <1>3 DEF LoadShow
    <2>2. load' \in LoadCall /\ load'.pc = "page" /\ load'.page = load.page /\ load'.copy = load.copy
        BY <2>1, <1>2 DEF LoadCall
    <2>3. LoadOK'
        BY <2>2, <1>1, <1>2 DEF LoadOK
    <2>4. PageOK'
        BY <2>1, <1>2, <1>3, ProcessedTyped DEF LoadShow, ThreadTypes, PageOK, Copies
    <2> QED
        BY <2>3, <2>4, <1>1, SameTypes, PostedStays, LengthStays DEF ThreadTypes
<1>4. CASE LoadRefresh
    <2>1. load' = [load EXCEPT !.pc = "fill"] /\ shown' = record
        BY <1>4 DEF LoadRefresh
    <2>2. load' \in LoadCall /\ load'.pc = "fill" /\ load'.page = load.page /\ load'.copy = load.copy
        BY <2>1, <1>2 DEF LoadCall
    <2>3. LoadOK'
        BY <2>2, <1>1, <1>2 DEF LoadOK
    <2>4. PageOK'
        BY <2>1, <1>2, <1>4 DEF LoadRefresh, ThreadTypes, PageOK, Copies
    <2> QED
        BY <2>3, <2>4, <1>1, SameTypes, PostedStays, LengthStays DEF ThreadTypes
<1>5. CASE LoadFill
    <2>1. load' = NoLoad
        BY <1>5 DEF LoadFill
    <2>2. LoadOK'
        BY <2>1, <1>1, NoCallTyped, PostedFacts DEF LoadOK
    <2>3. PageOK'
        BY <1>5 DEF LoadFill, ThreadTypes, PageOK
    <2> QED
        BY <2>2, <2>3, <1>1, SameTypes, PostedStays, LengthStays DEF ThreadTypes
<1> QED
    BY <1>3, <1>4, <1>5

LEMMA OrphanTypes ==
    ASSUME ThreadTypes, NEW opens \in BOOLEAN, LoadOrphan(opens)
    PROVE  ThreadTypes'
<1>1. UNCHANGED <<log, heard, shown, unread, cached, own, live, resent>>
    BY DEF LoadOrphan
<1>2. load \in LoadCall /\ load.page <= Len(log) /\ load.copy \in Records
    BY DEF LoadOrphan, ThreadTypes, LoadOK
<1>3. record' = record \/ record' = [load.copy EXCEPT !.sealed = FALSE]
    BY DEF LoadOrphan
<1>4. PageOK'
    BY <1>1, <1>2, <1>3, Unsealed DEF ThreadTypes, PageOK
<1>5. load' = [load EXCEPT !.pc = IF opens THEN "refresh" ELSE "fill"]
    BY DEF LoadOrphan
<1>6. load' \in LoadCall /\ load'.pc \in {"refresh", "fill"} /\ load'.page = load.page /\ load'.copy = load.copy
    BY <1>2, <1>5 DEF LoadCall
<1>7. LoadOK'
    BY <1>1, <1>2, <1>6 DEF LoadOK
<1> QED
    BY <1>1, <1>4, <1>7, SameTypes, PostedStays, LengthStays DEF ThreadTypes

LEMMA LeaveTypes ==
    ASSUME ThreadTypes, NEW gone \in BOOLEAN, Leave(gone)
    PROVE  ThreadTypes'
<1>1. UNCHANGED <<log, heard, cached, record, own, live, load, resent>>
    BY DEF Leave
<1>2. PageOK'
    BY DEF Leave, ThreadTypes, PageOK, Copies
<1> QED
    BY <1>1, <1>2, SameTypes, PostedStays, LengthStays DEF ThreadTypes

LEMMA RecoveryTypes ==
    ASSUME ThreadTypes, Answer \/ ResentGet \/ ResentPut \/ Reconnect
    PROVE  ThreadTypes'
<1>1. UNCHANGED <<log, heard, cached, unread, own, live, load>>
    BY DEF Answer, ResentGet, ResentPut, Reconnect
<1>2. record \in Records /\ resent \in ThreadCall /\ PutsRecord(resent) /\ shown \in Copies
    BY DEF ThreadTypes, PageOK, ResentOK
<1>3. PageOK'
    <2>1. CASE ResentPut
        <3>1. resent.copy \in Records
            BY <2>1, <1>2 DEF ResentPut, PutsRecord
        <3>2. [resent.copy EXCEPT !.sealed = FALSE] \in Records
            BY <3>1, Unsealed
        <3> QED
            BY <3>2, <2>1, <1>1, <1>2 DEF ResentPut, RecoveredShown, ThreadTypes, PageOK, Copies
    <2>2. CASE ~ResentPut
        BY <2>2, <1>1 DEF Answer, ResentGet, Reconnect, ThreadTypes, PageOK
    <2> QED
        BY <2>1, <2>2
<1>4. ResentOK'
    <2>1. [NoCall EXCEPT !.pc = "get"] \in ThreadCall /\ PutsRecord([NoCall EXCEPT !.pc = "get"])
        BY NoCallTyped DEF ThreadCall, PutsRecord
    <2>2. [resent EXCEPT !.pc = "put", !.copy = record] \in ThreadCall
          /\ PutsRecord([resent EXCEPT !.pc = "put", !.copy = record])
        BY <1>2 DEF ThreadCall, PutsRecord, Copies
    <2>3. resent' \in {resent, NoCall, [NoCall EXCEPT !.pc = "get"], [resent EXCEPT !.pc = "put", !.copy = record]}
        BY DEF Answer, ResentGet, ResentPut, Reconnect
    <2> QED
        BY <2>1, <2>2, <2>3, <1>2, NoCallTyped DEF ResentOK, PutsRecord
<1> QED
    BY <1>1, <1>3, <1>4, SameTypes, PostedStays, LengthStays DEF ThreadTypes

LEMMA RestartTypes == ASSUME ThreadTypes, Restart PROVE ThreadTypes'
<1>1. UNCHANGED <<log, heard, cached, record, unread>> /\ Posted' = Posted
    BY PostedStays DEF Restart
<1>2. \A t \in Toggles : own'[t] = [NoCall EXCEPT !.at = IF own[t].at = 0 THEN 0 ELSE 1]
    BY DEF Restart
<1>3. \A n \in {0, 1} : [NoCall EXCEPT !.at = n] \in ThreadCall /\ PutsRecord([NoCall EXCEPT !.at = n])
                        /\ [NoCall EXCEPT !.at = n].at = n
    BY NoCallTyped DEF ThreadCall, PutsRecord
<1>4. OwnOK'
    BY <1>2, <1>3 DEF Restart, OwnOK
<1>5. LiveOK' /\ ResentOK' /\ LoadOK' /\ PageOK'
    BY <1>1, NoCallTyped, PostedFacts DEF Restart, LiveOK, ResentOK, LoadOK, PutsRecord, ThreadTypes, PageOK, Copies
<1> QED
    BY <1>1, <1>4, <1>5, SameTypes DEF ThreadTypes

LEMMA ThreadStarts == ThreadInit => ThreadTypes
<1> SUFFICES ASSUME ThreadInit PROVE ThreadTypes
    OBVIOUS
<1>1. log = <<>> /\ Len(log) = 0 /\ log \in Seq(Slips) /\ MaxReactions \in Nat
    BY ThreadAssumption DEF ThreadInit, ThreadAssumption
<1>2. record \in Records
    BY DEF ThreadInit, Records
<1> QED
    BY <1>1, <1>2, NoCallTyped DEF ThreadInit, ThreadTypes, LogOK, PageOK, OwnOK, LiveOK, LoadOK, ResentOK, PutsRecord, Copies

LEMMA ThreadTypesHold == ASSUME ThreadTypes, [ThreadNext]_threadVars PROVE ThreadTypes'
<1>1. CASE UNCHANGED threadVars
    BY <1>1, SameTypes, PostedStays, LengthStays DEF threadVars, ThreadTypes
<1>2. CASE ThreadNext
    BY <1>2, PeerReactsTypes, HearTypes, LiveTypes, ToggleTypes, ToggleGetTypes, ToggleSendTypes, ToggleKeepTypes,
       LoadTypes, ShowTypes, OrphanTypes, LeaveTypes, RecoveryTypes, RestartTypes
        DEF ThreadNext, LoadStep
<1> QED
    BY <1>1, <1>2

-----------------------------------------------------------------------------
(* Thread: a calm page.  The inductive invariant; what each conjunct says  *)
(* is said at its name.                                                    *)

UnderWay(t) == own[t].pc \in {"get", "put", "send"}
Untouched == \A t \in Toggles : own[t].at = 0
Heeded == {i \in 1 .. heard : live[i].pc # "store"}

(* The calls of the user's own reactions, in their order. *)
OwnCalls ==
    /\ \A s, t \in Toggles : s < t /\ own[t].at # 0 => own[s].at # 0
    /\ \A t \in Toggles :
        /\ own[t].pc # "store"
        /\ own[t].at = 0 => own[t].pc = "idle"
        /\ own[t].pc = "keep" => own[t].at \in Posted /\ log[own[t].at].by = "me"
        /\ own[t].at # 0 /\ ~UnderWay(t) => Len(log) # 0
        /\ own[t].pc = "put" => ~own[t].copy.sealed

(* What is handled has been heard, from the peer. *)
LiveCalls ==
    \A i \in Positions :
        /\ live[i].pc \in {"idle", "store", "get", "put"}
        /\ live[i].pc # "idle" => i <= heard /\ log[i].by = "peer"
        /\ live[i].pc = "put" => ~live[i].copy.sealed

(* A reaction message is cached, about to be, or not yet heard of. *)
ReactionsStored ==
    /\ \A i \in Posted :
        \/ cached[i] = "text"
        \/ log[i].by = "me" /\ \E t \in Toggles : own[t].pc = "keep" /\ own[t].at = i
        \/ log[i].by = "peer" /\ (i > heard \/ live[i].pc = "store")
    /\ \A i \in Positions :
        i > Len(log) \/ (i > heard /\ log[i].by = "peer") => cached[i] = "none" /\ i \notin known

(* Loads, recoveries and reactions do not meet. *)
OneAtATime ==
    /\ Loading => AtRest(own) /\ AtRest(live) /\ heard = Len(log) /\ ~Recovering
    /\ Recovering => AtRest(own) /\ AtRest(live)
    /\ resent.pc \in {"idle", "get", "put"}
    /\ resent.pc = "put" => resent.copy = record /\ record.sealed

(* Nobody has reacted to a message that is sealed. *)
SealedIsBare ==
    /\ record.sealed => Len(log) = 0 /\ Untouched
    /\ Len(log) = 0 /\ Untouched => record.reactions = {}

LoadAgrees ==
    /\ load.pc \in {"show", "page", "orphan"} => load.copy = record
    /\ load.pc = "show" => load.ids = Posted
    /\ load.pc \in {"page", "orphan", "fill"} =>
           shown \in Records /\ shown.reactions = Reacted(Posted) /\ shown.sealed = record.sealed
    /\ load.pc = "refresh" => Len(log) = 0 /\ record.reactions = {} /\ ~record.sealed
    /\ load.pc \in {"orphan", "refresh", "fill"} => 1 .. load.page \subseteq load.ids

(* The user's last toggle is under way and adds, or all are posted. *)
MineShown ==
    \/ \E t \in Toggles : UnderWay(t) /\ own[t].add /\ \A s \in Toggles : UnderWay(s) => s <= t
    \/ (\A t \in Toggles : ~UnderWay(t)) /\ "me" \in Reacted(Posted)

PageAgrees ==
    open /\ ~Loading =>
        /\ shown \in Records
        /\ "peer" \in shown.reactions <=> "peer" \in Reacted(Heeded)
        /\ "me" \in shown.reactions <=> MineShown
        /\ shown.sealed => record.sealed
        /\ unread = 0 \/ \E i \in Positions : live[i].pc # "idle"
        /\ \A i, j \in Positions :
             live[i].pc = "store" /\ i < j /\ j <= heard /\ log[j].by = "peer" => live[j].pc = "store"

CalmPage == OwnCalls /\ LiveCalls /\ ReactionsStored /\ OneAtATime /\ SealedIsBare /\ LoadAgrees /\ PageAgrees

ThreadCalmInv == ways = {} => CalmPage

(* The reactions that a log leaves depend on each user's own messages. *)
Leaves(l, S) ==
    {u \in Users : \E i \in S : l[i].by = u /\ l[i].add /\ \A j \in S : l[j].by = u => j <= i}

LEMMA ReactedLeaves ==
    ASSUME NEW S
    PROVE  Reacted(S) = Leaves(log, S)
BY DEF Reacted, Leaves

LEMMA SameLeaves ==
    ASSUME NEW l, NEW m, NEW S, NEW T, NEW u \in Users,
           \A i : (i \in S /\ l[i].by = u) <=> (i \in T /\ m[i].by = u),
           \A i \in S : l[i].by = u => l[i] = m[i]
    PROVE  u \in Leaves(l, S) <=> u \in Leaves(m, T)
<1>1. ASSUME u \in Leaves(l, S) PROVE u \in Leaves(m, T)
    <2>1. PICK i \in S : l[i].by = u /\ l[i].add /\ \A j \in S : l[j].by = u => j <= i
        BY <1>1 DEF Leaves
    <2>2. i \in T /\ m[i].by = u /\ m[i].add
        BY <2>1
    <2>3. \A j \in T : m[j].by = u => j <= i
        BY <2>1
    <2> QED
        BY <2>2, <2>3 DEF Leaves
<1>2. ASSUME u \in Leaves(m, T) PROVE u \in Leaves(l, S)
    <2>1. PICK i \in T : m[i].by = u /\ m[i].add /\ \A j \in T : m[j].by = u => j <= i
        BY <1>2 DEF Leaves
    <2>2. i \in S /\ l[i].by = u /\ l[i].add
        BY <2>1
    <2>3. \A j \in S : l[j].by = u => j <= i
        BY <2>1
    <2> QED
        BY <2>2, <2>3 DEF Leaves
<1> QED
    BY <1>1, <1>2

LEMMA LastLeaves ==
    ASSUME NEW l, NEW T, NEW n \in T, n \in Nat, T \subseteq Nat, l[n].by \in Users,
           l[n].add \in BOOLEAN, \A i \in T : l[i].by = l[n].by => i <= n
    PROVE  l[n].by \in Leaves(l, T) <=> l[n].add
<1>1. ASSUME l[n].add PROVE l[n].by \in Leaves(l, T)
    BY <1>1 DEF Leaves
<1>2. ASSUME l[n].by \in Leaves(l, T) PROVE l[n].add
    <2>1. PICK i \in T : l[i].by = l[n].by /\ l[i].add /\ \A j \in T : l[j].by = l[n].by => j <= i
        BY <1>2 DEF Leaves
    <2>2. n <= i /\ i <= n /\ i \in Nat
        BY <2>1
    <2>3. i = n
        BY <2>2
    <2> QED
        BY <2>1, <2>3
<1> QED
    BY <1>1, <1>2

LEMMA NothingLeaves == ASSUME NEW l PROVE Leaves(l, {}) = {}
BY DEF Leaves

(* A log that grows leaves of its old positions what it left before. *)
LEMMA OldLeaves ==
    ASSUME ThreadTypes, NEW S \in SUBSET Posted, \A i \in Posted : log'[i] = log[i]
    PROVE  Leaves(log', S) = Leaves(log, S)
BY DEF Leaves

LEMMA HeededPosted ==
    ASSUME ThreadTypes
    PROVE  Heeded \subseteq Posted /\ Heeded \subseteq Nat /\ Posted \subseteq Nat /\ heard \in Nat
BY PostedFacts DEF Heeded, Posted, ThreadTypes, LogOK

LEMMA CalmWays ==
    ASSUME ways = {}
    PROVE  /\ MayReact <=> ~Loading /\ ~Recovering /\ ~record.sealed
           /\ MayLoad <=> ~Reacting /\ ~Recovering /\ heard = Len(log)
           /\ MayAnswer <=> ~Reacting /\ ~Loading
           /\ "failures" \notin ways
BY DEF MayReact, MayLoad, MayAnswer

LEMMA AtRestMeans ==
    ASSUME ThreadTypes
    PROVE  /\ AtRest(own) <=> \A t \in Toggles : own[t].pc = "idle"
           /\ AtRest(live) <=> \A i \in Positions : live[i].pc = "idle"
           /\ AtRest(own)' <=> \A t \in DOMAIN own' : own'[t].pc = "idle"
           /\ AtRest(live)' <=> \A i \in DOMAIN live' : live'[i].pc = "idle"
BY DEF AtRest, At, ThreadTypes, OwnOK, LiveOK

LEMMA CalmFrames ==
    ASSUME ThreadTypes, CalmPage
    PROVE  /\ UNCHANGED <<log, own>> => OwnCalls'
           /\ UNCHANGED <<log, heard, live>> => LiveCalls'
           /\ UNCHANGED <<log, heard, cached, own, live>> /\ known' \subseteq known => ReactionsStored'
           /\ UNCHANGED <<record, log, own>> => SealedIsBare'
           /\ ~Loading' => LoadAgrees'
           /\ ~Loading' /\ ~Recovering' => OneAtATime'
           /\ UNCHANGED <<open, load, shown, log, heard, live, own, record, unread>> => PageAgrees'
<1>1. UNCHANGED <<log, own>> => OwnCalls'
    BY DEF CalmPage, OwnCalls, UnderWay, Posted
<1>2. UNCHANGED <<log, heard, live>> => LiveCalls'
    BY DEF CalmPage, LiveCalls
<1>3. UNCHANGED <<log, heard, cached, own, live>> /\ known' \subseteq known => ReactionsStored'
    BY DEF CalmPage, ReactionsStored, Posted
<1>4. UNCHANGED <<record, log, own>> => SealedIsBare'
    BY DEF CalmPage, SealedIsBare, Untouched
<1>5. ~Loading' => LoadAgrees'
    BY DEF Loading, LoadAgrees
<1>6. ~Loading' /\ ~Recovering' => OneAtATime'
    BY DEF Loading, Recovering, OneAtATime
<1>7. UNCHANGED <<open, load, shown, log, heard, live, own, record, unread>> => PageAgrees'
    BY DEF CalmPage, PageAgrees, Loading, Reacted, Heeded, MineShown, UnderWay, Posted
<1> QED
    BY <1>1, <1>2, <1>3, <1>4, <1>5, <1>6, <1>7

LEMMA MineStays ==
    ASSUME UNCHANGED own, "me" \in Reacted(Posted)' <=> "me" \in Reacted(Posted)
    PROVE  MineShown' <=> MineShown
BY DEF MineShown, UnderWay

LEMMA CalmPeerReacts ==
    ASSUME ThreadTypes, ways = {}, CalmPage, PeerReacts
    PROVE  CalmPage'
<1> DEFINE add == "peer" \notin Reacted(Posted)
           n == Len(log) + 1
<1>1. ~Loading /\ ~Recovering /\ ~record.sealed
    BY CalmWays DEF PeerReacts
<1>2. UNCHANGED <<heard, cached, record, shown, open, known, unread, own, live, load, resent>>
    BY DEF PeerReacts
<1>3. /\ Len(log') = n /\ n \in Nat /\ n \notin Posted
      /\ \A i \in Posted : log'[i] = log[i]
      /\ log'[n].by = "peer" /\ log'[n].add \in BOOLEAN
      /\ Posted \subseteq Posted' /\ \A i \in Posted' : i \in Posted \/ i = n
    <2>1. "peer" \in Users /\ add \in BOOLEAN /\ Len(log) < MaxReactions
          /\ log' = Append(log, [by |-> "peer", add |-> add])
        BY DEF PeerReacts, Users
    <2> HIDE DEF add
    <2>2. /\ Len(log') = n /\ \A i \in Posted : log'[i] = log[i]
          /\ log'[n].by = "peer" /\ log'[n].add = add
          /\ Posted \subseteq Posted' /\ \A i \in Posted' : i \in Posted \/ i = n
        BY <2>1, Posting
    <2> QED
        BY <2>1, <2>2, PostedFacts
<1>4. ~Loading' /\ ~Recovering'
    BY <1>1, <1>2 DEF Loading, Recovering
<1>5. OwnCalls'
    BY <1>2, <1>3, PostedFacts DEF CalmPage, OwnCalls, UnderWay
<1>6. LiveCalls'
    BY <1>2, <1>3, HeededPosted, PostedFacts DEF CalmPage, LiveCalls, ThreadTypes, LiveOK
<1>7. ReactionsStored'
    <2>1. ASSUME NEW i \in Posted'
          PROVE  \/ cached[i] = "text"
                 \/ log'[i].by = "me" /\ \E t \in Toggles : own[t].pc = "keep" /\ own[t].at = i
                 \/ log'[i].by = "peer" /\ (i > heard \/ live[i].pc = "store")
        <3>1. CASE i \in Posted
            BY <3>1, <1>3 DEF CalmPage, ReactionsStored
        <3>2. CASE i = n
            BY <3>2, <1>3, PostedFacts DEF ThreadTypes, LogOK
        <3> QED
            BY <3>1, <3>2, <1>3
    <2>2. ASSUME NEW i \in Positions, i > n \/ (i > heard /\ log'[i].by = "peer")
          PROVE  cached[i] = "none" /\ i \notin known
        <3>1. i > Len(log) \/ (i > heard /\ log[i].by = "peer")
            <4>1. i \in Nat /\ i >= 1 /\ Len(log) \in Nat
                BY PostedFacts
            <4>2. CASE i > Len(log)
                BY <4>2
            <4>3. CASE i <= Len(log)
                BY <4>1, <4>3, <2>2, <1>3, PostedFacts
            <4> QED
                BY <4>1, <4>2, <4>3
        <3> QED
            BY <3>1 DEF CalmPage, ReactionsStored
    <2> QED
        BY <2>1, <2>2, <1>2, <1>3 DEF ReactionsStored
<1>8. SealedIsBare'
    BY <1>1, <1>2, <1>3, PostedFacts DEF SealedIsBare
<1>9. PageAgrees'
    <2>1. Leaves(log', Heeded) = Leaves(log, Heeded)
        BY <1>3, OldLeaves, HeededPosted
    <2>2. Heeded' = Heeded
        BY <1>2 DEF Heeded
    <2>3. Reacted(Heeded)' = Reacted(Heeded)
        BY <2>1, <2>2 DEF Reacted, Leaves
    <2>4. "me" \in Leaves(log', Posted') <=> "me" \in Leaves(log, Posted)
        <3>1. \A i : (i \in Posted' /\ log'[i].by = "me") <=> (i \in Posted /\ log[i].by = "me")
            BY <1>3
        <3>2. \A i \in Posted' : log'[i].by = "me" => log'[i] = log[i]
            BY <1>3
        <3> QED
            BY <3>1, <3>2, SameLeaves DEF Users
    <2>5. Reacted(Posted)' = Leaves(log', Posted') /\ Reacted(Posted) = Leaves(log, Posted)
        BY DEF Reacted, Leaves
    <2>6. MineShown' <=> MineShown
        BY <2>4, <2>5, <1>2, MineStays
    <2>7. \A j \in Positions : j <= heard => log'[j] = log[j]
        BY <1>3, HeededPosted, PostedFacts DEF ThreadTypes, LogOK
    <2> QED
        BY <2>3, <2>6, <2>7, <1>2 DEF CalmPage, PageAgrees, Loading
<1> QED
    BY <1>4, <1>5, <1>6, <1>7, <1>8, <1>9, CalmFrames DEF CalmPage

LEMMA CalmHear ==
    ASSUME ThreadTypes, ways = {}, CalmPage, Hear
    PROVE  CalmPage'
<1> DEFINE n == heard + 1
<1>1. ~Loading /\ ~Recovering
    BY CalmWays DEF Hear
<1>2. UNCHANGED <<log, record, shown, open, own, load, resent>> /\ heard' = n
    BY DEF Hear
<1>3. n \in Posted /\ n \in Positions /\ n \in Nat /\ heard \in Nat /\ n <= Len(log) /\ Len(log) \in Nat
      /\ log[n].by \in Users /\ Posted' = Posted
    BY <1>2, PostedFacts, PostedStays, HeededPosted DEF Hear
<1>4. live[n].pc = "idle"
    <2>1. ~(n <= heard)
        BY <1>3
    <2> QED
        BY <2>1, <1>3 DEF CalmPage, LiveCalls
<1>5. ~Loading' /\ ~Recovering'
    BY <1>1, <1>2 DEF Loading, Recovering
<1>6. OwnCalls' /\ SealedIsBare'
    BY <1>2, CalmFrames
<1>7. CASE log[n].by = "me"
    <2>1. UNCHANGED <<unread, live, cached>>
        BY <1>7 DEF Hear, Counted
    <2>2. known' \subseteq known \union {n}
        BY DEF Hear
    <2>3. LiveCalls'
        BY <1>2, <1>3, <2>1, PostedFacts DEF CalmPage, LiveCalls, ThreadTypes, LiveOK
    <2>4. ReactionsStored'
        <3>1. \A i \in Posted : i > heard /\ log[i].by = "peer" => i > n
            BY <1>3, <1>7, PostedFacts
        <3>2. \A i \in Positions : i > Len(log) \/ (i > n /\ log[i].by = "peer")
                                  => i # n /\ (i > Len(log) \/ (i > heard /\ log[i].by = "peer"))
            BY <1>3, PostedFacts
        <3> QED
            BY <1>2, <1>3, <2>1, <2>2, <3>1, <3>2 DEF CalmPage, ReactionsStored
    <2>5. PageAgrees'
        <3>1. Heeded' = Heeded \union {n}
            BY <1>2, <1>3, <1>4, <2>1 DEF Heeded
        <3>2. "peer" \in Leaves(log, Heeded \union {n}) <=> "peer" \in Leaves(log, Heeded)
            BY <1>7, SameLeaves DEF Users
        <3>3. "peer" \in Reacted(Heeded)' <=> "peer" \in Reacted(Heeded)
            BY <3>1, <3>2, <1>2 DEF Reacted, Leaves
        <3>4. MineShown' <=> MineShown
            BY <1>2, <1>3, MineStays DEF Reacted
        <3>5. \A j \in Positions : j <= n /\ log[j].by = "peer" => j <= heard
            BY <1>3, <1>7, PostedFacts
        <3> QED
            BY <1>2, <2>1, <3>3, <3>4, <3>5 DEF CalmPage, PageAgrees, Loading
    <2> QED
        BY <1>5, <1>6, <2>3, <2>4, <2>5, CalmFrames DEF CalmPage
<1>8. CASE log[n].by = "peer"
    <2>1. cached[n] = "none" /\ n \notin known
        <3>1. n > heard
            BY <1>3
        <3> QED
            BY <3>1, <1>3, <1>8 DEF CalmPage, ReactionsStored
    <2>2. n \notin InCache /\ log[n].by # "me"
        BY <2>1, <1>8 DEF InCache
    <2>3. open => cached' = cached /\ live' = [live EXCEPT ![n] = [NoCall EXCEPT !.pc = "store"]]
        BY <2>1, <2>2 DEF Hear
    <2>4. ~open => live' = live /\ cached' = [cached EXCEPT ![n] = "text"]
        BY <2>2 DEF Hear
    <2>5. unread' = unread + 1 /\ known' \subseteq known \union {n}
        BY <2>2 DEF Hear, Counted
    <2>6. [NoCall EXCEPT !.pc = "store"].pc = "store"
        BY DEF NoCall
    <2>7. /\ \A i \in Positions : i # n => live'[i] = live[i] /\ cached'[i] = cached[i]
          /\ open => live'[n].pc = "store"
          /\ ~open => live'[n].pc = "idle" /\ cached'[n] = "text"
        BY <2>3, <2>4, <2>6, <1>3, <1>4 DEF ThreadTypes, LiveOK, PageOK
    <2>8. LiveCalls'
        BY <1>2, <1>3, <1>8, <2>7, PostedFacts DEF CalmPage, LiveCalls
    <2>9. ReactionsStored'
        <3>1. \A i \in Posted : i # n => (i > heard <=> i > n)
            BY <1>3, PostedFacts
        <3>2. \A i \in Positions : i > Len(log) \/ (i > n /\ log[i].by = "peer")
                                  => i # n /\ (i > Len(log) \/ (i > heard /\ log[i].by = "peer"))
            BY <1>3, PostedFacts
        <3>3. ASSUME NEW i \in Posted
              PROVE  \/ cached'[i] = "text"
                     \/ log[i].by = "me" /\ \E t \in Toggles : own[t].pc = "keep" /\ own[t].at = i
                     \/ log[i].by = "peer" /\ (i > n \/ live'[i].pc = "store")
            <4>1. i \in Positions
                BY PostedFacts
            <4> QED
                BY <4>1, <1>8, <2>7, <3>1 DEF CalmPage, ReactionsStored
        <3>4. ASSUME NEW i \in Positions, i > Len(log) \/ (i > n /\ log[i].by = "peer")
              PROVE  cached'[i] = "none" /\ i \notin known'
            BY <3>2, <3>4, <2>5, <2>7 DEF CalmPage, ReactionsStored
        <3> QED
            BY <3>3, <3>4, <1>2, <1>3 DEF ReactionsStored
    <2>10. PageAgrees'
        <3> SUFFICES ASSUME open PROVE PageAgrees'
            BY <1>2 DEF PageAgrees
        <3>1. Heeded' = Heeded
            BY <1>2, <1>3, <1>4, <2>7, HeededPosted, PostedFacts DEF Heeded, ThreadTypes, LogOK
        <3>2. Reacted(Heeded)' = Reacted(Heeded)
            BY <3>1, <1>2 DEF Reacted
        <3>3. MineShown' <=> MineShown
            BY <1>2, <1>3, MineStays DEF Reacted
        <3>4. \E i \in Positions : live'[i].pc # "idle"
            BY <1>3, <2>7
        <3>5. ASSUME NEW i \in Positions, NEW j \in Positions,
                     live'[i].pc = "store", i < j, j <= n, log[j].by = "peer"
              PROVE  live'[j].pc = "store"
            <4>1. CASE j = n
                BY <4>1, <2>7
            <4>2. CASE j # n
                <5>1. j <= heard /\ i # n
                    BY <4>2, <3>5, <1>3, PostedFacts
                <5> QED
                    BY <5>1, <4>2, <3>5, <2>7, <1>1 DEF CalmPage, PageAgrees
            <4> QED
                BY <4>1, <4>2
        <3> QED
            BY <1>2, <3>2, <3>3, <3>4, <3>5 DEF CalmPage, PageAgrees, Loading
    <2> QED
        BY <1>5, <1>6, <2>8, <2>9, <2>10, CalmFrames DEF CalmPage
<1> QED
    BY <1>3, <1>7, <1>8 DEF Users

LEMMA CalmLive ==
    ASSUME ThreadTypes, ways = {}, CalmPage, NEW n \in Positions, live[n].pc # "idle"
    PROVE  /\ ~Loading /\ ~Recovering /\ n \in Posted /\ n <= heard /\ log[n].by = "peer"
           /\ Len(log) # 0 /\ ~record.sealed
<1>1. ~AtRest(live)
    BY AtRestMeans
<1>2. n \in Posted /\ n <= heard /\ log[n].by = "peer"
    BY DEF CalmPage, LiveCalls, ThreadTypes, LiveOK
<1> QED
    BY <1>1, <1>2, PostedFacts DEF CalmPage, OneAtATime, SealedIsBare

LEMMA CalmLiveStore ==
    ASSUME ThreadTypes, ways = {}, CalmPage, NEW n \in Positions, LiveStore(n)
    PROVE  CalmPage'
<1>1. live[n].pc = "store" /\ \A j \in Positions : j < n => live[j].pc # "store"
    BY DEF LiveStore, At
<1>2. UNCHANGED <<log, heard, record, open, known, unread, own, load, resent>>
    BY DEF LiveStore
<1>3. ~Loading /\ ~Recovering /\ n \in Posted /\ n <= heard /\ log[n].by = "peer" /\ Posted' = Posted
    BY <1>1, <1>2, CalmLive, PostedStays
<1>4. /\ \A i \in Positions : i # n => live'[i] = live[i] /\ cached'[i] = cached[i]
      /\ live'[n].pc = "get" /\ cached'[n] = "text"
    BY DEF LiveStore, ThreadTypes, LiveOK, PageOK, ThreadCall
<1>5. ~Loading' /\ ~Recovering'
    BY <1>2, <1>3 DEF Loading, Recovering
<1>6. OwnCalls' /\ SealedIsBare'
    BY <1>2, CalmFrames
<1>7. LiveCalls'
    BY <1>2, <1>3, <1>4 DEF CalmPage, LiveCalls
<1>8. ReactionsStored'
    <2>1. ASSUME NEW i \in Positions, i > Len(log) \/ (i > heard /\ log[i].by = "peer")
          PROVE  cached'[i] = "none" /\ i \notin known
        <3>1. i # n
            BY <2>1, <1>3, PostedFacts, HeededPosted
        <3> QED
            BY <3>1, <2>1, <1>4 DEF CalmPage, ReactionsStored
    <2>2. \A i \in Posted : i \in Positions
        BY PostedFacts
    <2> QED
        BY <2>1, <2>2, <1>2, <1>3, <1>4 DEF CalmPage, ReactionsStored
<1>9. PageAgrees'
    <2> SUFFICES ASSUME open PROVE PageAgrees'
        BY <1>2 DEF PageAgrees
    <2>1. shown \in Records /\ shown # NotShown /\ shown.reactions \in SUBSET Users
        BY <1>3, NoCallTyped DEF CalmPage, PageAgrees
    <2>2. shown' = [shown EXCEPT !.reactions = Applied(shown.reactions, log[n].by, log[n].add)]
        BY <2>1 DEF LiveStore, ShownNow
    <2>3. log[n].by \in Users /\ log[n].add \in BOOLEAN
        BY <1>3, PostedFacts
    <2>4. /\ shown' \in Records /\ shown'.sealed = shown.sealed
          /\ \A v : v \in shown'.reactions <=> IF v = "peer" THEN log[n].add ELSE v \in shown.reactions
        BY <2>1, <2>2, <2>3, <1>3, AppliedTyped, WithReactions
    <2>5. Heeded' = Heeded \union {n} /\ n \in Heeded'
        BY <1>1, <1>2, <1>3, <1>4, HeededPosted, PostedFacts DEF Heeded, ThreadTypes, LogOK
    <2>6. \A i \in Heeded : log[i].by = "peer" => i <= n
        <3> SUFFICES ASSUME NEW i \in Heeded, log[i].by = "peer" PROVE i <= n
            OBVIOUS
        <3>1. i \in Nat /\ n \in Nat /\ i <= heard /\ i \in Positions
            BY HeededPosted, PostedFacts DEF Heeded
        <3>2. ~(n < i)
            <4> SUFFICES ASSUME n < i PROVE FALSE
                OBVIOUS
            <4>1. live[i].pc = "store"
                BY <1>1, <1>3, <3>1 DEF CalmPage, PageAgrees
            <4> QED
                BY <4>1 DEF Heeded
        <3> QED
            BY <3>1, <3>2
    <2>7. "peer" \in Leaves(log, Heeded \union {n}) <=> log[n].add
        <3>1. Heeded \union {n} \subseteq Nat /\ n \in Nat
            BY HeededPosted, PostedFacts
        <3>2. \A i \in Heeded \union {n} : log[i].by = log[n].by => i <= n
            BY <2>6, <1>3, <3>1
        <3> QED
            BY <3>1, <3>2, <2>3, <1>3, LastLeaves
    <2>8. "peer" \in Reacted(Heeded)' <=> log[n].add
        BY <2>5, <2>7, <1>2 DEF Reacted, Leaves
    <2>9. MineShown' <=> MineShown
        BY <1>2, <1>3, MineStays DEF Reacted
    <2>10. \E i \in Positions : live'[i].pc # "idle"
        BY <1>4
    <2>11. ASSUME NEW i \in Positions, NEW j \in Positions,
                  live'[i].pc = "store", i < j, j <= heard, log[j].by = "peer"
           PROVE  live'[j].pc = "store"
        <3>1. live[i].pc = "store" /\ i # n
            BY <2>11, <1>4
        <3>2. live[j].pc = "store"
            BY <3>1, <2>11, <1>3 DEF CalmPage, PageAgrees
        <3>3. j # n
            BY <3>1, <2>11, <1>1
        <3> QED
            BY <3>2, <3>3, <1>4
    <2>12. "me" # "peer"
        OBVIOUS
    <2> QED
        BY <1>2, <1>3, <2>4, <2>8, <2>9, <2>10, <2>11, <2>12 DEF CalmPage, PageAgrees, Loading
<1> QED
    BY <1>5, <1>6, <1>7, <1>8, <1>9, CalmFrames DEF CalmPage

LEMMA CalmLiveGet ==
    ASSUME ThreadTypes, ways = {}, CalmPage, NEW n \in Positions, LiveGet(n) \/ LivePut(n)
    PROVE  CalmPage'
<1>1. live[n].pc \in {"get", "put"}
    BY DEF LiveGet, LivePut, At
<1>2. UNCHANGED <<log, heard, cached, shown, open, known, own, load, resent>>
    BY DEF LiveGet, LivePut
<1>3. ~Loading /\ ~Recovering /\ n \in Posted /\ n <= heard /\ log[n].by = "peer" /\ Posted' = Posted
      /\ Len(log) # 0 /\ ~record.sealed
    BY <1>1, <1>2, CalmLive, PostedStays
<1>4. \A i \in Positions : i # n => live'[i] = live[i]
    BY DEF LiveGet, LivePut, ThreadTypes, LiveOK
<1>5. live'[n].pc \in {"idle", "put"} /\ (live'[n].pc = "put" => live'[n].copy = record /\ LiveGet(n))
    BY NoCallTyped DEF LiveGet, LivePut, ThreadTypes, LiveOK, ThreadCall
<1>6. ~record'.sealed /\ Len(log) # 0
    <2>1. CASE LiveGet(n)
        BY <2>1, <1>3 DEF LiveGet
    <2>2. CASE LivePut(n)
        <3>1. live[n].copy \in Records /\ ~live[n].copy.sealed
            BY <2>2 DEF LivePut, At, ThreadTypes, LiveOK, PutsRecord, CalmPage, LiveCalls
        <3>2. log[n].by \in Users /\ log[n].add \in BOOLEAN
            BY <1>3, PostedFacts
        <3>3. Applied(live[n].copy.reactions, log[n].by, log[n].add) \in SUBSET Users
            BY <3>1, <3>2, AppliedTyped, NoCallTyped
        <3>4. record' = [live[n].copy EXCEPT !.reactions =
                            Applied(live[n].copy.reactions, log[n].by, log[n].add)]
            BY <2>2 DEF LivePut
        <3> QED
            BY <3>1, <3>3, <3>4, <1>3, WithReactions
    <2> QED
        BY <2>1, <2>2
<1>7. ~Loading' /\ ~Recovering'
    BY <1>2, <1>3 DEF Loading, Recovering
<1>8. OwnCalls'
    BY <1>2, CalmFrames
<1>9. LiveCalls'
    BY <1>2, <1>3, <1>4, <1>5 DEF CalmPage, LiveCalls
<1>10. ReactionsStored'
    <2>1. \A i \in Positions : live'[i].pc = "store" <=> live[i].pc = "store"
        BY <1>1, <1>4, <1>5
    <2>2. \A i \in Posted : i \in Positions
        BY PostedFacts
    <2> QED
        BY <1>2, <1>3, <2>1, <2>2 DEF CalmPage, ReactionsStored
<1>11. SealedIsBare'
    BY <1>2, <1>6 DEF SealedIsBare
<1>12. PageAgrees'
    <2>1. \A i \in Positions : live'[i].pc = "store" <=> live[i].pc = "store"
        BY <1>1, <1>4, <1>5
    <2>2. Heeded' = Heeded
        <3>1. \A i \in 1 .. heard : i \in Positions
            BY HeededPosted, PostedFacts DEF ThreadTypes, LogOK
        <3> QED
            BY <1>2, <2>1, <3>1 DEF Heeded
    <2>3. Reacted(Heeded)' = Reacted(Heeded)
        BY <2>2, <1>2 DEF Reacted
    <2>4. MineShown' <=> MineShown
        BY <1>2, <1>3, MineStays DEF Reacted
    <2>5. unread' = 0 \/ \E i \in Positions : live'[i].pc # "idle"
        <3>1. LiveGet(n) => live'[n].pc = "put"
            BY DEF LiveGet, ThreadTypes, LiveOK, ThreadCall
        <3>2. LivePut(n) => unread' = 0
            BY DEF LivePut, Reported
        <3> QED
            BY <3>1, <3>2
    <2> QED
        BY <1>2, <1>3, <1>6, <2>1, <2>3, <2>4, <2>5 DEF CalmPage, PageAgrees, Loading
<1> QED
    BY <1>7, <1>8, <1>9, <1>10, <1>11, <1>12, CalmFrames DEF CalmPage

LEMMA CalmOwn ==
    ASSUME ThreadTypes, ways = {}, CalmPage, NEW t \in Toggles, own[t].pc # "idle"
    PROVE  /\ ~Loading /\ ~Recovering /\ ~record.sealed /\ own[t].at # 0
           /\ (open => ~shown.sealed)
<1>1. ~AtRest(own)
    BY AtRestMeans
<1>2. own[t].at # 0
    BY DEF CalmPage, OwnCalls
<1>3. ~record.sealed /\ ~Loading /\ ~Recovering
    BY <1>1, <1>2 DEF CalmPage, OneAtATime, SealedIsBare, Untouched
<1> QED
    BY <1>2, <1>3 DEF CalmPage, PageAgrees

LEMMA OwnStep ==
    ASSUME ThreadTypes, ways = {}, CalmPage, NEW t \in Toggles,
           \A s \in Toggles : s # t => own'[s] = own[s],
           UNCHANGED <<log, heard, cached, open, known, live, load, resent>>,
           own'[t].pc \in {"get", "put", "send"}, own'[t].at # 0, own[t].pc # "keep",
           ~Loading, ~Recovering, ~record'.sealed, ~record.sealed
    PROVE  /\ LiveCalls' /\ ReactionsStored' /\ OneAtATime' /\ SealedIsBare' /\ LoadAgrees'
           /\ Reacted(Heeded)' = Reacted(Heeded) /\ Posted' = Posted
<1>1. ~Loading' /\ ~Recovering'
    BY DEF Loading, Recovering
<1>2. LiveCalls' /\ OneAtATime' /\ LoadAgrees' /\ Posted' = Posted
    BY <1>1, CalmFrames, PostedStays
<1>3. ReactionsStored'
    <2>1. \A s \in Toggles : own[s].pc = "keep" => own'[s] = own[s]
        OBVIOUS
    <2> QED
        BY <2>1, <1>2 DEF CalmPage, ReactionsStored
<1>4. SealedIsBare'
    BY DEF SealedIsBare, Untouched
<1>5. Reacted(Heeded)' = Reacted(Heeded)
    BY DEF Reacted, Heeded
<1> QED
    BY <1>2, <1>3, <1>4, <1>5

LEMMA CalmToggle ==
    ASSUME ThreadTypes, ways = {}, CalmPage, NEW t \in Toggles, Toggle(t)
    PROVE  CalmPage'
<1> DEFINE add == "me" \notin Current
           list == Applied(Current, "me", add)
           c == [NoCall EXCEPT !.pc = "get", !.list = list, !.add = add, !.at = 1]
<1>1. /\ own[t].pc = "idle" /\ own[t].at = 0 /\ \A s \in Toggles : s < t => own[s].at # 0
      /\ open /\ shown \in Records /\ shown.reactions \in SUBSET Users
    BY NoCallTyped DEF Toggle, At, ThreadTypes, PageOK, Copies
<1>2. ~Loading /\ ~Recovering /\ ~record.sealed
    BY CalmWays DEF Toggle
<1>3. UNCHANGED <<log, heard, cached, record, open, known, unread, live, load, resent>>
      /\ own' = [own EXCEPT ![t] = c] /\ shown' = [shown EXCEPT !.reactions = list]
    BY DEF Toggle
<1>4. c.pc = "get" /\ c.at = 1 /\ c.add = add
    BY DEF NoCall
<1>5. add \in BOOLEAN /\ list \in SUBSET Users /\ \A v : v \in list <=> IF v = "me" THEN add ELSE v \in shown.reactions
    BY <1>1, AppliedTyped DEF Current, Users
<1>6. shown' \in Records /\ shown'.reactions = list /\ shown'.sealed = shown.sealed
    BY <1>1, <1>3, <1>5, WithReactions
<1> HIDE DEF add, list, c
<1>7. own'[t] = c /\ \A s \in Toggles : s # t => own'[s] = own[s]
    BY <1>3 DEF ThreadTypes, OwnOK
<1>8. /\ LiveCalls' /\ ReactionsStored' /\ OneAtATime' /\ SealedIsBare' /\ LoadAgrees'
      /\ Reacted(Heeded)' = Reacted(Heeded) /\ Posted' = Posted
    BY <1>1, <1>2, <1>3, <1>4, <1>7, OwnStep
<1>9. OwnCalls'
    <2>1. ASSUME NEW r \in Toggles, NEW s \in Toggles, r < s, own'[s].at # 0
          PROVE  own'[r].at # 0
        BY <2>1, <1>1, <1>4, <1>7 DEF CalmPage, OwnCalls
    <2> QED
        BY <2>1, <1>3, <1>4, <1>7, <1>8 DEF CalmPage, OwnCalls, UnderWay
<1>10. MineShown' <=> add
    <2>1. UnderWay(t)' /\ own'[t].add = add
        BY <1>4, <1>7 DEF UnderWay
    <2>2. \A s \in Toggles : UnderWay(s)' => s <= t
        <3> SUFFICES ASSUME NEW s \in Toggles, UnderWay(s)' PROVE s <= t
            OBVIOUS
        <3>1. CASE s = t
            BY <3>1, ThreadAssumption DEF ThreadAssumption
        <3>2. CASE s # t
            <4>1. own[s].at # 0
                BY <3>2, <1>7 DEF UnderWay, CalmPage, OwnCalls
            <4>2. ~(t < s)
                BY <4>1, <1>1 DEF CalmPage, OwnCalls
            <4> QED
                BY <4>2, ThreadAssumption DEF ThreadAssumption
        <3> QED
            BY <3>1, <3>2
    <2>3. ASSUME add PROVE MineShown'
        BY <2>1, <2>2, <2>3 DEF MineShown
    <2>4. ASSUME MineShown' PROVE add
        <3>1. PICK s \in Toggles : UnderWay(s)' /\ own'[s].add /\ \A r \in Toggles : UnderWay(r)' => r <= s
            BY <2>1, <2>4 DEF MineShown
        <3>2. s <= t /\ t <= s
            BY <2>1, <2>2, <3>1
        <3>3. s = t
            BY <3>2, ThreadAssumption DEF ThreadAssumption
        <3> QED
            BY <2>1, <3>1, <3>3
    <2> QED
        BY <2>3, <2>4
<1>11. PageAgrees'
    BY <1>1, <1>2, <1>3, <1>5, <1>6, <1>8, <1>10 DEF CalmPage, PageAgrees, Loading
<1> QED
    BY <1>8, <1>9, <1>11 DEF CalmPage

LEMMA CalmToggleGet ==
    ASSUME ThreadTypes, ways = {}, CalmPage, NEW t \in Toggles, ToggleGet(t) \/ TogglePut(t)
    PROVE  CalmPage'
<1>1. own[t].pc \in {"get", "put"} /\ own[t] \in ThreadCall
    BY OwnCallTyped DEF ToggleGet, TogglePut, At
<1>2. UNCHANGED <<log, heard, cached, shown, open, known, unread, live, load, resent>>
    BY DEF ToggleGet, TogglePut
<1>3. ~Loading /\ ~Recovering /\ ~record.sealed /\ own[t].at # 0 /\ (open => ~shown.sealed)
    BY <1>1, CalmOwn
<1>4. \A s \in Toggles : s # t => own'[s] = own[s]
    BY DEF ToggleGet, TogglePut, ThreadTypes, OwnOK
<1>5. /\ own'[t].pc \in {"put", "send"} /\ own'[t].at = own[t].at /\ own'[t].add = own[t].add
      /\ own'[t].pc = "put" => own'[t].copy = record
    BY <1>1 DEF ToggleGet, TogglePut, ThreadTypes, OwnOK, ThreadCall
<1>6. ~record'.sealed
    <2>1. CASE ToggleGet(t)
        BY <2>1, <1>3 DEF ToggleGet
    <2>2. CASE TogglePut(t)
        <3>1. own[t].copy \in Records /\ ~own[t].copy.sealed /\ own[t].list \in SUBSET Users
            BY <2>2, <1>1 DEF TogglePut, At, ThreadTypes, OwnOK, PutsRecord, CalmPage, OwnCalls, ThreadCall
        <3>2. record' = [own[t].copy EXCEPT !.reactions = own[t].list]
            BY <2>2 DEF TogglePut
        <3> QED
            BY <3>1, <3>2, WithReactions
    <2> QED
        BY <2>1, <2>2
<1>7. /\ LiveCalls' /\ ReactionsStored' /\ OneAtATime' /\ SealedIsBare' /\ LoadAgrees'
      /\ Reacted(Heeded)' = Reacted(Heeded) /\ Posted' = Posted
    BY <1>1, <1>2, <1>3, <1>4, <1>5, <1>6, OwnStep
<1>8. OwnCalls'
    <2>1. ASSUME NEW r \in Toggles, NEW s \in Toggles, r < s, own'[s].at # 0
          PROVE  own'[r].at # 0
        BY <2>1, <1>3, <1>4, <1>5 DEF CalmPage, OwnCalls
    <2> QED
        BY <2>1, <1>2, <1>3, <1>4, <1>5, <1>7 DEF CalmPage, OwnCalls, UnderWay
<1>9. MineShown' <=> MineShown
    <2>1. \A s \in Toggles : (UnderWay(s)' <=> UnderWay(s)) /\ own'[s].add = own[s].add
        BY <1>1, <1>4, <1>5 DEF UnderWay
    <2>2. Reacted(Posted)' = Reacted(Posted)
        BY <1>2, <1>7 DEF Reacted
    <2> QED
        BY <2>1, <2>2 DEF MineShown
<1>10. PageAgrees'
    BY <1>2, <1>3, <1>6, <1>7, <1>9 DEF CalmPage, PageAgrees, Loading
<1> QED
    BY <1>7, <1>8, <1>10 DEF CalmPage

LEMMA CalmSend ==
    ASSUME ThreadTypes, ways = {}, CalmPage, NEW t \in Toggles, ToggleSend(t)
    PROVE  CalmPage'
<1> DEFINE n == Len(log) + 1
           c == [own[t] EXCEPT !.pc = "keep", !.at = n]
<1>1. own[t].pc = "send" /\ own[t] \in ThreadCall /\ \A s \in Toggles : s < t => own[s].pc = "idle"
    BY OwnCallTyped DEF ToggleSend, At
<1>2. UNCHANGED <<heard, cached, record, shown, open, unread, live, load, resent>>
    BY DEF ToggleSend
<1>3. /\ log' = Append(log, [by |-> "me", add |-> own[t].add])
      /\ known' = known \union {n} /\ own' = [own EXCEPT ![t] = c]
    BY DEF ToggleSend
<1>4. ~Loading /\ ~Recovering /\ ~record.sealed /\ own[t].at # 0
    BY <1>1, CalmOwn
<1>5. /\ Len(log') = n /\ \A i \in Posted : log'[i] = log[i]
      /\ log'[n].by = "me" /\ log'[n].add = own[t].add /\ own[t].add \in BOOLEAN
      /\ Posted \subseteq Posted' /\ n \in Posted' /\ \A i \in Posted' : i \in Posted \/ i = n
    <2>1. "me" \in Users /\ own[t].add \in BOOLEAN /\ Len(log) < MaxReactions
        BY <1>1 DEF ToggleSend, Users, ThreadCall
    <2> QED
        BY <2>1, <1>3, Posting
<1>6. n \in Nat /\ n \notin Posted /\ Len(log) \in Nat /\ n # 0 /\ heard \in Nat /\ heard < n
    BY PostedFacts DEF ThreadTypes, LogOK
<1>7. /\ own'[t] = c /\ c.pc = "keep" /\ c.at = n
      /\ \A s \in Toggles : s # t => own'[s] = own[s]
    BY <1>1, <1>3, <1>6 DEF ThreadTypes, OwnOK, ThreadCall
<1> HIDE DEF c
<1>8. ~Loading' /\ ~Recovering'
    BY <1>2, <1>4 DEF Loading, Recovering
<1>9. OwnCalls'
    <2>1. ASSUME NEW r \in Toggles, NEW s \in Toggles, r < s, own'[s].at # 0
          PROVE  own'[r].at # 0
        BY <2>1, <1>4, <1>6, <1>7 DEF CalmPage, OwnCalls
    <2>2. ASSUME NEW s \in Toggles, own'[s].pc = "keep"
          PROVE  own'[s].at \in Posted' /\ log'[own'[s].at].by = "me"
        <3>1. CASE s = t
            BY <3>1, <1>5, <1>7
        <3>2. CASE s # t
            BY <3>2, <2>2, <1>5, <1>7 DEF CalmPage, OwnCalls
        <3> QED
            BY <3>1, <3>2
    <2>3. Len(log') # 0
        BY <1>5, <1>6
    <2> QED
        BY <2>1, <2>2, <2>3, <1>6, <1>7 DEF CalmPage, OwnCalls, UnderWay
<1>10. LiveCalls'
    BY <1>2, <1>5, HeededPosted, PostedFacts DEF CalmPage, LiveCalls, ThreadTypes, LiveOK
<1>11. ReactionsStored'
    <2>1. ASSUME NEW i \in Posted'
          PROVE  \/ cached[i] = "text"
                 \/ log'[i].by = "me" /\ \E s \in Toggles : own'[s].pc = "keep" /\ own'[s].at = i
                 \/ log'[i].by = "peer" /\ (i > heard \/ live[i].pc = "store")
        <3>1. CASE i \in Posted
            <4>1. \A s \in Toggles : own[s].pc = "keep" => own'[s] = own[s]
                BY <1>1, <1>7
            <4> QED
                BY <3>1, <4>1, <1>5 DEF CalmPage, ReactionsStored
        <3>2. CASE i = n
            BY <3>2, <1>5, <1>7
        <3> QED
            BY <3>1, <3>2, <1>5
    <2>2. ASSUME NEW i \in Positions, i > n \/ (i > heard /\ log'[i].by = "peer")
          PROVE  cached[i] = "none" /\ i \notin known'
        <3>1. i # n
            BY <2>2, <1>5, <1>6
        <3>2. i > Len(log) \/ (i > heard /\ log[i].by = "peer")
            <4>1. i \in Nat /\ i >= 1
                BY PostedFacts
            <4>2. CASE i <= Len(log)
                BY <4>1, <4>2, <2>2, <1>5, <1>6, PostedFacts
            <4> QED
                BY <4>1, <4>2, <1>6
        <3> QED
            BY <3>1, <3>2, <1>3 DEF CalmPage, ReactionsStored
    <2> QED
        BY <2>1, <2>2, <1>2, <1>5 DEF ReactionsStored
<1>12. SealedIsBare'
    BY <1>2, <1>4, <1>5, <1>6 DEF SealedIsBare
<1>13. Reacted(Heeded)' = Reacted(Heeded)
    <2>1. Leaves(log', Heeded) = Leaves(log, Heeded)
        BY <1>5, OldLeaves, HeededPosted
    <2>2. Heeded' = Heeded
        BY <1>2 DEF Heeded
    <2> QED
        BY <2>1, <2>2 DEF Reacted, Leaves
<1>14. MineShown' <=> MineShown
    <2>1. UnderWay(t) /\ ~UnderWay(t)'
        BY <1>1, <1>7 DEF UnderWay
    <2>2. \A s \in Toggles : s # t => (UnderWay(s)' <=> UnderWay(s)) /\ own'[s].add = own[s].add
        BY <1>7 DEF UnderWay
    <2>3. \A s \in Toggles : UnderWay(s) => t <= s
        <3> SUFFICES ASSUME NEW s \in Toggles, UnderWay(s) PROVE t <= s
            OBVIOUS
        <3>1. ~(s < t)
            BY <1>1 DEF UnderWay
        <3> QED
            BY <3>1, ThreadAssumption DEF ThreadAssumption
    <2>4. \A s \in Toggles : s <= s /\ \A r \in Toggles : s <= r /\ r <= s => r = s
        BY ThreadAssumption DEF ThreadAssumption
    <2>5. CASE \E s \in Toggles : UnderWay(s)'
        <3>1. PICK r \in Toggles : UnderWay(r)' /\ UnderWay(r) /\ r # t
            BY <2>1, <2>2, <2>5
        <3>2. ASSUME MineShown PROVE MineShown'
            <4>1. PICK s \in Toggles : UnderWay(s) /\ own[s].add /\ \A q \in Toggles : UnderWay(q) => q <= s
                BY <3>1, <3>2 DEF MineShown
            <4>2. s # t
                BY <4>1, <3>1, <2>3, <2>4
            <4>3. \A q \in Toggles : UnderWay(q)' => q <= s
                BY <4>1, <2>1, <2>2
            <4> QED
                BY <4>1, <4>2, <4>3, <2>2 DEF MineShown
        <3>3. ASSUME MineShown' PROVE MineShown
            <4>1. PICK s \in Toggles : UnderWay(s)' /\ own'[s].add /\ \A q \in Toggles : UnderWay(q)' => q <= s
                BY <2>5, <3>3 DEF MineShown
            <4>2. s # t /\ UnderWay(s) /\ own[s].add
                BY <4>1, <2>1, <2>2
            <4>3. \A q \in Toggles : UnderWay(q) => q <= s
                BY <4>1, <4>2, <2>2, <2>3
            <4> QED
                BY <4>2, <4>3 DEF MineShown
        <3> QED
            BY <3>2, <3>3
    <2>6. CASE \A s \in Toggles : ~UnderWay(s)'
        <3>1. \A s \in Toggles : UnderWay(s) => s = t
            BY <2>2, <2>6
        <3>2. MineShown <=> own[t].add
            <4>1. \A s \in Toggles : UnderWay(s) => s <= t
                BY <3>1, <2>4
            <4> QED
                BY <4>1, <3>1, <2>1 DEF MineShown
        <3>3. Posted' \subseteq Nat /\ \A i \in Posted' : i <= n
            BY <1>5, <1>6 DEF Posted
        <3>4. "me" \in Leaves(log', Posted') <=> own[t].add
            <4>1. \A i \in Posted' : log'[i].by = log'[n].by => i <= n
                BY <3>3
            <4>2. log'[n].by \in Users /\ log'[n].add \in BOOLEAN
                BY <1>5 DEF Users
            <4>3. n \in Posted' /\ n \in Nat /\ Posted' \subseteq Nat
                BY <3>3, <1>5, <1>6
            <4> HIDE DEF n
            <4>4. log'[n].by \in Leaves(log', Posted') <=> log'[n].add
                BY <4>1, <4>2, <4>3, LastLeaves
            <4> QED
                BY <4>4, <1>5
        <3>5. MineShown' <=> "me" \in Leaves(log', Posted')
            BY <2>6 DEF MineShown, Reacted, Leaves
        <3> QED
            BY <3>2, <3>4, <3>5
    <2> QED
        BY <2>5, <2>6
<1>15. \A j \in Positions : j <= heard => log'[j] = log[j]
    BY <1>5, HeededPosted, PostedFacts DEF ThreadTypes, LogOK
<1>16. PageAgrees'
    BY <1>2, <1>4, <1>13, <1>14, <1>15 DEF CalmPage, PageAgrees, Loading
<1> QED
    BY <1>8, <1>9, <1>10, <1>11, <1>12, <1>16, CalmFrames DEF CalmPage

LEMMA CalmKeep ==
    ASSUME ThreadTypes, ways = {}, CalmPage, NEW t \in Toggles, ToggleKeep(t)
    PROVE  CalmPage'
<1> DEFINE n == own[t].at
<1>1. own[t].pc = "keep"
    BY DEF ToggleKeep, At
<1>2. UNCHANGED <<log, heard, record, shown, open, known, unread, live, load, resent>>
    BY DEF ToggleKeep
<1>3. /\ ~Loading /\ ~Recovering /\ ~record.sealed /\ n # 0 /\ n \in Posted /\ log[n].by = "me"
      /\ Len(log) # 0 /\ Posted' = Posted /\ n \in Positions
    BY <1>1, <1>2, CalmOwn, PostedFacts, PostedStays DEF CalmPage, OwnCalls
<1>4. /\ own'[t].pc = "idle" /\ own'[t].at = 1
      /\ \A s \in Toggles : s # t => own'[s] = own[s]
    BY DEF ToggleKeep, Done, ThreadTypes, OwnOK, NoCall
<1>5. cached'[n] = "text" /\ \A i \in Positions : i # n => cached'[i] = cached[i]
    BY <1>3 DEF ToggleKeep, ThreadTypes, PageOK
<1>6. ~Loading' /\ ~Recovering'
    BY <1>2, <1>3 DEF Loading, Recovering
<1>7. OwnCalls'
    <2>1. ASSUME NEW r \in Toggles, NEW s \in Toggles, r < s, own'[s].at # 0
          PROVE  own'[r].at # 0
        BY <2>1, <1>3, <1>4 DEF CalmPage, OwnCalls
    <2> QED
        BY <2>1, <1>2, <1>3, <1>4 DEF CalmPage, OwnCalls, UnderWay
<1>8. LiveCalls'
    BY <1>2, CalmFrames
<1>9. ReactionsStored'
    <2>1. ASSUME NEW i \in Posted
          PROVE  \/ cached'[i] = "text"
                 \/ log[i].by = "me" /\ \E s \in Toggles : own'[s].pc = "keep" /\ own'[s].at = i
                 \/ log[i].by = "peer" /\ (i > heard \/ live[i].pc = "store")
        <3>1. i = n \/ (i # n /\ i \in Positions)
            BY PostedFacts
        <3> QED
            BY <3>1, <1>4, <1>5 DEF CalmPage, ReactionsStored
    <2>2. ASSUME NEW i \in Positions, i > Len(log) \/ (i > heard /\ log[i].by = "peer")
          PROVE  cached'[i] = "none" /\ i \notin known
        <3>1. i # n
            BY <2>2, <1>3, PostedFacts
        <3> QED
            BY <3>1, <2>2, <1>5 DEF CalmPage, ReactionsStored
    <2> QED
        BY <2>1, <2>2, <1>2, <1>3 DEF ReactionsStored
<1>10. SealedIsBare'
    BY <1>2, <1>3 DEF SealedIsBare
<1>11. MineShown' <=> MineShown
    <2>1. \A s \in Toggles : (UnderWay(s)' <=> UnderWay(s)) /\ (UnderWay(s) => own'[s].add = own[s].add)
        BY <1>1, <1>4 DEF UnderWay
    <2>2. Reacted(Posted)' = Reacted(Posted)
        BY <1>2, <1>3 DEF Reacted
    <2> QED
        BY <2>1, <2>2 DEF MineShown
<1>12. PageAgrees'
    <2>1. Reacted(Heeded)' = Reacted(Heeded)
        BY <1>2 DEF Reacted, Heeded
    <2> QED
        BY <2>1, <1>2, <1>3, <1>11 DEF CalmPage, PageAgrees, Loading
<1> QED
    BY <1>6, <1>7, <1>8, <1>9, <1>10, <1>12, CalmFrames DEF CalmPage

LEMMA CalmAtRest ==
    ASSUME ThreadTypes, CalmPage, AtRest(own)
    PROVE  /\ \A t \in Toggles : own[t].pc = "idle" /\ ~UnderWay(t)
           /\ Len(log) = 0 => Untouched /\ record.reactions = {}
<1>1. \A t \in Toggles : own[t].pc = "idle"
    BY AtRestMeans
<1>2. \A t \in Toggles : ~UnderWay(t)
    BY <1>1 DEF UnderWay
<1>3. Len(log) = 0 => Untouched
    BY <1>2 DEF CalmPage, OwnCalls, Untouched
<1> QED
    BY <1>1, <1>2, <1>3 DEF CalmPage, SealedIsBare

LEMMA EmptyLog ==
    ASSUME ThreadTypes, Len(log) = 0
    PROVE  Posted = {} /\ Heeded = {} /\ Reacted(Posted) = {} /\ Reacted(Heeded) = {}
<1>1. Posted = {}
    BY PostedFacts
<1>2. Heeded = {}
    BY <1>1, HeededPosted
<1> QED
    BY <1>1, <1>2 DEF Reacted

(* What a load under way may rely on: nothing else is. *)
LEMMA CalmLoading ==
    ASSUME ThreadTypes, CalmPage, Loading
    PROVE  /\ AtRest(own) /\ AtRest(live) /\ heard = Len(log) /\ ~Recovering
           /\ \A t \in Toggles : own[t].pc = "idle" /\ ~UnderWay(t)
           /\ Len(log) = 0 => Untouched /\ record.reactions = {}
           /\ \A i \in Posted : cached[i] = "text"
           /\ \A i \in Positions : i \notin Posted => cached[i] = "none"
           /\ Heeded = Posted
<1>1. AtRest(own) /\ AtRest(live) /\ heard = Len(log) /\ ~Recovering
    BY DEF CalmPage, OneAtATime
<1>2. \A i \in Positions : live[i].pc = "idle"
    BY <1>1, AtRestMeans
<1>3. \A i \in Posted : cached[i] = "text"
    <2> SUFFICES ASSUME NEW i \in Posted PROVE cached[i] = "text"
        OBVIOUS
    <2>1. i \in Positions /\ ~(i > heard)
        BY <1>1, PostedFacts
    <2> QED
        BY <2>1, <1>1, <1>2, CalmAtRest DEF CalmPage, ReactionsStored
<1>4. \A i \in Positions : i \notin Posted => cached[i] = "none"
    BY PostedFacts DEF CalmPage, ReactionsStored
<1>5. Heeded = Posted
    BY <1>1, <1>2, PostedFacts DEF Heeded, Posted
<1> QED
    BY <1>1, <1>3, <1>4, <1>5, CalmAtRest

LEMMA LoadingStep ==
    ASSUME ThreadTypes, ways = {}, CalmPage, Loading, Loading',
           UNCHANGED <<log, heard, cached, known, own, live, resent>>
    PROVE  OwnCalls' /\ LiveCalls' /\ ReactionsStored' /\ OneAtATime' /\ PageAgrees' /\ Posted' = Posted
           /\ Reacted(Posted)' = Reacted(Posted)
<1>1. OwnCalls' /\ LiveCalls' /\ ReactionsStored' /\ Posted' = Posted
    BY CalmFrames, PostedStays
<1>2. resent'.pc = "idle" /\ AtRest(own)' /\ AtRest(live)' /\ heard' = Len(log') /\ ~Recovering'
    BY CalmLoading, AtRestMeans DEF Recovering, AtRest, At
<1>3. OneAtATime'
    BY <1>2 DEF OneAtATime, Recovering
<1>4. PageAgrees'
    BY DEF PageAgrees
<1>5. Reacted(Posted)' = Reacted(Posted)
    BY <1>1 DEF Reacted
<1> QED
    BY <1>1, <1>3, <1>4, <1>5

LEMMA CalmLoadBegins ==
    ASSUME ThreadTypes, ways = {}, CalmPage, LoadBegins
    PROVE  CalmPage'
<1>1. ~Reacting /\ ~Recovering /\ heard = Len(log)
    BY CalmWays DEF LoadBegins
<1>2. UNCHANGED <<log, heard, cached, record, shown, known, unread, own, live, resent>>
    BY DEF LoadBegins
<1>3. load'.pc = "read"
    BY DEF LoadBegins, NoLoad
<1>4. OwnCalls' /\ LiveCalls' /\ ReactionsStored' /\ SealedIsBare'
    BY <1>2, CalmFrames
<1>5. AtRest(own)' /\ AtRest(live)' /\ resent'.pc = "idle"
    BY <1>1, <1>2 DEF Reacting, Recovering, AtRest, At
<1>6. OneAtATime'
    BY <1>1, <1>2, <1>5 DEF OneAtATime, Recovering
<1>7. LoadAgrees' /\ PageAgrees'
    BY <1>3 DEF LoadAgrees, PageAgrees, Loading
<1> QED
    BY <1>4, <1>6, <1>7 DEF CalmPage

LEMMA CalmLoadRead ==
    ASSUME ThreadTypes, ways = {}, CalmPage, LoadRead
    PROVE  CalmPage'
<1>1. Loading /\ UNCHANGED <<log, heard, cached, record, shown, known, own, live, resent>>
    BY DEF LoadRead, Loading
<1>2. load'.pc = "show" /\ load'.copy = record /\ load'.ids = Readable
    BY DEF LoadRead, ThreadTypes, LoadOK, LoadCall
<1>3. Readable = Posted
    <2>1. \A i \in Posted : i \in Positions
        BY PostedFacts
    <2> QED
        BY <2>1, <1>1, CalmLoading DEF Readable
<1>4. /\ OwnCalls' /\ LiveCalls' /\ ReactionsStored' /\ OneAtATime' /\ PageAgrees' /\ Posted' = Posted
    BY <1>1, <1>2, LoadingStep DEF Loading
<1>5. SealedIsBare'
    BY <1>1, CalmFrames
<1>6. LoadAgrees'
    BY <1>1, <1>2, <1>3, <1>4 DEF LoadAgrees
<1> QED
    BY <1>4, <1>5, <1>6 DEF CalmPage

LEMMA CalmLoadShow ==
    ASSUME ThreadTypes, ways = {}, CalmPage, LoadShow
    PROVE  CalmPage'
<1>1. Loading /\ UNCHANGED <<log, heard, cached, record, known, own, live, resent>>
    BY DEF LoadShow, Loading
<1>2. load'.pc = "page" /\ load'.copy = load.copy
    BY DEF LoadShow, ThreadTypes, LoadOK, LoadCall
<1>3. load.copy = record /\ load.ids = Posted /\ record \in Records
    BY DEF LoadShow, CalmPage, LoadAgrees, ThreadTypes, PageOK
<1>4. /\ OwnCalls' /\ LiveCalls' /\ ReactionsStored' /\ OneAtATime' /\ PageAgrees' /\ Posted' = Posted
      /\ Reacted(Posted)' = Reacted(Posted)
    BY <1>1, <1>2, LoadingStep DEF Loading
<1>5. SealedIsBare'
    BY <1>1, CalmFrames
<1>6. shown' = Processed(record, Posted)
    BY <1>3 DEF LoadShow
<1>7. Posted = {} => record.reactions = {} /\ Reacted(Posted) = {}
    <2>1. Posted = {} => Len(log) = 0
        BY PostedFacts
    <2> QED
        BY <2>1, <1>1, CalmLoading, EmptyLog
<1>8. shown' \in Records /\ shown'.sealed = record.sealed /\ shown'.reactions = Reacted(Posted)
    BY <1>3, <1>6, <1>7, ProcessedTyped
<1>9. LoadAgrees'
    BY <1>1, <1>2, <1>3, <1>4, <1>8 DEF LoadAgrees
<1> QED
    BY <1>4, <1>5, <1>9 DEF CalmPage

LEMMA CalmLoadPage ==
    ASSUME ThreadTypes, ways = {}, CalmPage, LoadPage
    PROVE  CalmPage'
<1>1. Loading /\ UNCHANGED <<log, heard, cached, record, shown, known, own, live, resent>>
    BY DEF LoadPage, Loading
<1>2. load' = [load EXCEPT !.pc = "orphan", !.page = Len(log), !.ids = InCache] /\ load.pc = "page"
    BY DEF LoadPage
<1>3. load'.pc = "orphan" /\ load'.copy = load.copy /\ load'.page = Len(log) /\ load'.ids = InCache
    BY <1>2 DEF ThreadTypes, LoadOK, LoadCall
<1>4. /\ OwnCalls' /\ LiveCalls' /\ ReactionsStored' /\ OneAtATime' /\ PageAgrees' /\ Posted' = Posted
      /\ Reacted(Posted)' = Reacted(Posted)
    BY <1>1, <1>3, LoadingStep DEF Loading
<1>5. SealedIsBare'
    BY <1>1, CalmFrames
<1>6. 1 .. Len(log) \subseteq InCache
    <2>1. \A i \in Posted : i \in Positions /\ cached[i] = "text"
        BY <1>1, CalmLoading, PostedFacts
    <2> QED
        BY <2>1 DEF InCache, Posted
<1>7. LoadAgrees'
    BY <1>1, <1>2, <1>3, <1>4, <1>6 DEF CalmPage, LoadAgrees
<1> QED
    BY <1>4, <1>5, <1>7 DEF CalmPage

LEMMA CalmLoadOrphan ==
    ASSUME ThreadTypes, ways = {}, CalmPage, NEW opens \in BOOLEAN, LoadOrphan(opens)
    PROVE  CalmPage'
<1>1. Loading /\ load.pc = "orphan" /\ UNCHANGED <<log, heard, cached, shown, known, own, live, resent>>
    BY DEF LoadOrphan, Loading
<1>2. load.copy = record /\ record \in Records
    BY <1>1 DEF CalmPage, LoadAgrees, ThreadTypes, PageOK
<1>3. load'.pc = (IF opens THEN "refresh" ELSE "fill") /\ load'.page = load.page /\ load'.ids = load.ids
    BY DEF LoadOrphan, ThreadTypes, LoadOK, LoadCall
<1>4. /\ OwnCalls' /\ LiveCalls' /\ ReactionsStored' /\ OneAtATime' /\ PageAgrees' /\ Posted' = Posted
      /\ Reacted(Posted)' = Reacted(Posted)
    BY <1>1, <1>3, LoadingStep DEF Loading
<1>5. 1 .. load'.page \subseteq load'.ids
    BY <1>1, <1>3 DEF CalmPage, LoadAgrees
<1>6. CASE opens
    <2>1. record' = [record EXCEPT !.sealed = FALSE] /\ record.sealed
        BY <1>2, <1>6 DEF LoadOrphan
    <2>2. Len(log) = 0 /\ record.reactions = {}
        BY <2>1, <1>1, CalmLoading DEF CalmPage, SealedIsBare
    <2>3. ~record'.sealed /\ record'.reactions = {}
        BY <2>1, <2>2, <1>2, Unsealed
    <2>4. SealedIsBare'
        BY <2>3 DEF SealedIsBare
    <2>5. LoadAgrees'
        BY <1>1, <1>3, <1>5, <1>6, <2>2, <2>3 DEF LoadAgrees
    <2> QED
        BY <1>4, <2>4, <2>5 DEF CalmPage
<1>7. CASE ~opens
    <2>1. record' = record
        BY <1>7 DEF LoadOrphan
    <2>2. SealedIsBare'
        BY <2>1, <1>1, CalmFrames
    <2>3. LoadAgrees'
        BY <1>1, <1>3, <1>4, <1>5, <1>7, <2>1 DEF CalmPage, LoadAgrees
    <2> QED
        BY <1>4, <2>2, <2>3 DEF CalmPage
<1> QED
    BY <1>6, <1>7

LEMMA CalmLoadRefresh ==
    ASSUME ThreadTypes, ways = {}, CalmPage, LoadRefresh
    PROVE  CalmPage'
<1>1. Loading /\ load.pc = "refresh" /\ UNCHANGED <<log, heard, cached, record, known, own, live, resent>>
    BY DEF LoadRefresh, Loading
<1>2. load'.pc = "fill" /\ load'.page = load.page /\ load'.ids = load.ids
    BY DEF LoadRefresh, ThreadTypes, LoadOK, LoadCall
<1>3. /\ OwnCalls' /\ LiveCalls' /\ ReactionsStored' /\ OneAtATime' /\ PageAgrees' /\ Posted' = Posted
      /\ Reacted(Posted)' = Reacted(Posted)
    BY <1>1, <1>2, LoadingStep DEF Loading
<1>4. SealedIsBare'
    BY <1>1, CalmFrames
<1>5. shown' = record /\ record \in Records /\ record.reactions = {} /\ Len(log) = 0
    BY <1>1 DEF LoadRefresh, CalmPage, LoadAgrees, ThreadTypes, PageOK
<1>6. Reacted(Posted) = {}
    BY <1>5, EmptyLog
<1>7. LoadAgrees'
    BY <1>1, <1>2, <1>3, <1>5, <1>6 DEF CalmPage, LoadAgrees
<1> QED
    BY <1>3, <1>4, <1>7 DEF CalmPage

LEMMA CalmLoadFill ==
    ASSUME ThreadTypes, ways = {}, CalmPage, LoadFill
    PROVE  CalmPage'
<1>1. Loading /\ load.pc = "fill" /\ UNCHANGED <<log, heard, record, shown, open, own, live, resent>>
    BY DEF LoadFill, Loading
<1>2. load' = NoLoad /\ unread' = 0 /\ known' = known \union (1 .. load.page)
    BY DEF LoadFill
<1>3. cached' = cached
    <2>1. Missing = {}
        BY <1>1 DEF Missing, CalmPage, LoadAgrees
    <2> QED
        BY <2>1 DEF LoadFill, ThreadTypes, PageOK
<1>4. ~Loading' /\ ~Recovering'
    BY <1>1, <1>2, NoCallTyped, CalmLoading DEF Loading, Recovering
<1>5. OwnCalls' /\ LiveCalls' /\ SealedIsBare' /\ OneAtATime' /\ LoadAgrees' /\ Posted' = Posted
    BY <1>1, <1>4, CalmFrames, PostedStays
<1>6. ReactionsStored'
    <2>1. ASSUME NEW i \in Positions, i > Len(log) \/ (i > heard /\ log[i].by = "peer")
          PROVE  cached[i] = "none" /\ i \notin known'
        <3>1. heard = Len(log) /\ load.page \in Nat /\ load.page <= Len(log)
            BY <1>1, CalmLoading DEF ThreadTypes, LoadOK, LoadCall
        <3>2. i \notin 1 .. load.page
            BY <2>1, <3>1, PostedFacts
        <3> QED
            BY <2>1, <3>2, <1>2 DEF CalmPage, ReactionsStored
    <2> QED
        BY <2>1, <1>1, <1>3, <1>5 DEF CalmPage, ReactionsStored
<1>7. PageAgrees'
    <2>1. shown \in Records /\ shown.reactions = Reacted(Posted) /\ shown.sealed = record.sealed
        BY <1>1 DEF CalmPage, LoadAgrees
    <2>2. Reacted(Posted)' = Reacted(Posted) /\ Reacted(Heeded)' = Reacted(Posted)
        <3>1. Heeded' = Posted
            BY <1>1, CalmLoading DEF Heeded
        <3> QED
            BY <3>1, <1>1, <1>5 DEF Reacted
    <2>3. MineShown' <=> "me" \in Reacted(Posted)
        <3>1. \A t \in Toggles : ~UnderWay(t)'
            BY <1>1, CalmLoading DEF UnderWay
        <3> QED
            BY <3>1, <2>2 DEF MineShown
    <2>4. \A i \in Positions : live'[i].pc = "idle"
        BY <1>1, CalmLoading, AtRestMeans
    <2> QED
        BY <2>1, <2>2, <2>3, <2>4, <1>1, <1>2 DEF PageAgrees
<1> QED
    BY <1>5, <1>6, <1>7 DEF CalmPage

LEMMA CalmLeave ==
    ASSUME ThreadTypes, ways = {}, CalmPage, NEW gone \in BOOLEAN, Leave(gone)
    PROVE  CalmPage'
<1>1. UNCHANGED <<log, heard, cached, record, own, live, load, resent>> /\ known' \subseteq known
    BY DEF Leave
<1>2. OwnCalls' /\ LiveCalls' /\ ReactionsStored' /\ SealedIsBare'
    BY <1>1, CalmFrames
<1>3. OneAtATime'
    BY <1>1, AtRestMeans DEF CalmPage, OneAtATime, Loading, Recovering, AtRest, At
<1>4. PageAgrees'
    BY DEF Leave, PageAgrees
<1>5. LoadAgrees'
    <2>1. CASE gone
        BY <2>1, <1>1, CalmFrames DEF Leave, Loading
    <2>2. CASE ~gone
        BY <2>2, <1>1 DEF Leave, CalmPage, LoadAgrees, Posted, Reacted
    <2> QED
        BY <2>1, <2>2
<1> QED
    BY <1>2, <1>3, <1>4, <1>5 DEF CalmPage

LEMMA CalmAnswer ==
    ASSUME ThreadTypes, ways = {}, CalmPage, Answer \/ ResentGet \/ Reconnect
    PROVE  CalmPage'
<1>1. UNCHANGED <<log, heard, cached, record, shown, open, known, unread, own, live, load>>
    BY DEF Answer, ResentGet, Reconnect
<1>2. OwnCalls' /\ LiveCalls' /\ ReactionsStored' /\ SealedIsBare' /\ PageAgrees'
    BY <1>1, CalmFrames
<1>3. LoadAgrees'
    BY <1>1 DEF CalmPage, LoadAgrees, Posted, Reacted
<1>4. OneAtATime'
    <2>1. AtRest(own)' = AtRest(own) /\ AtRest(live)' = AtRest(live)
        BY <1>1 DEF AtRest, At
    <2>2. CASE Answer
        <3>1. ~Reacting /\ ~Loading /\ resent'.pc = "get"
            BY <2>2, CalmWays DEF Answer, NoCall
        <3> QED
            BY <3>1, <2>1, <1>1 DEF OneAtATime, Loading, Recovering, Reacting
    <2>3. CASE ResentGet
        <3>1. \/ resent'.pc = "idle"
              \/ resent'.pc = "put" /\ resent'.copy = record /\ record.sealed
            BY <2>3 DEF ResentGet, NoCall, ThreadTypes, ResentOK, ThreadCall
        <3>2. AtRest(own) /\ AtRest(live) /\ ~Loading
            BY <2>3 DEF ResentGet, CalmPage, OneAtATime, Recovering
        <3> QED
            BY <3>1, <3>2, <2>1, <1>1 DEF OneAtATime, Loading, Recovering
    <2>4. CASE Reconnect
        BY <2>4, <2>1, <1>1 DEF Reconnect, CalmPage, OneAtATime, Loading, Recovering
    <2> QED
        BY <2>2, <2>3, <2>4
<1> QED
    BY <1>2, <1>3, <1>4 DEF CalmPage

LEMMA CalmResentPut ==
    ASSUME ThreadTypes, ways = {}, CalmPage, ResentPut
    PROVE  CalmPage'
<1>1. UNCHANGED <<log, heard, cached, open, known, unread, own, live, load>>
    BY DEF ResentPut
<1>2. /\ AtRest(own) /\ AtRest(live) /\ ~Loading /\ resent.copy = record /\ record.sealed
      /\ record \in Records
    BY DEF ResentPut, CalmPage, OneAtATime, Recovering, ThreadTypes, PageOK
<1>3. Len(log) = 0 /\ record.reactions = {}
    BY <1>2, CalmAtRest DEF CalmPage, SealedIsBare
<1>4. record' = [record EXCEPT !.sealed = FALSE] /\ resent'.pc = "idle"
    BY <1>2 DEF ResentPut, NoCall
<1>5. record' \in Records /\ ~record'.sealed /\ record'.reactions = {}
    BY <1>2, <1>3, <1>4, Unsealed
<1>6. ~Loading' /\ ~Recovering'
    BY <1>1, <1>2, <1>4 DEF Loading, Recovering
<1>7. OwnCalls' /\ LiveCalls' /\ ReactionsStored' /\ OneAtATime' /\ LoadAgrees'
    BY <1>1, <1>6, CalmFrames
<1>8. SealedIsBare'
    BY <1>5 DEF SealedIsBare
<1>9. PageAgrees'
    <2> SUFFICES ASSUME open PROVE PageAgrees'
        BY <1>1 DEF PageAgrees
    <2>1. shown \in Records /\ shown # NotShown
        BY <1>2, NoCallTyped DEF CalmPage, PageAgrees
    <2>2. shown' = record'
        BY <2>1, <1>2, <1>4 DEF ResentPut, RecoveredShown
    <2>3. Reacted(Posted)' = {} /\ Reacted(Heeded)' = {}
        BY <1>1, <1>3, EmptyLog DEF Reacted, Posted, Heeded
    <2>4. ~MineShown'
        BY <1>1, <1>2, <2>3, CalmAtRest DEF MineShown, UnderWay
    <2> QED
        BY <1>1, <1>2, <1>5, <2>2, <2>3, <2>4 DEF CalmPage, PageAgrees
<1> QED
    BY <1>7, <1>8, <1>9 DEF CalmPage

LEMMA CalmStarts == ThreadInit => CalmPage
<1> SUFFICES ASSUME ThreadInit PROVE CalmPage
    OBVIOUS
<1>1. Len(log) = 0 /\ Posted = {} /\ heard = 0 /\ ~open /\ record.reactions = {}
    BY DEF ThreadInit, Posted
<1>2. load.pc = "idle" /\ resent.pc = "idle" /\ Untouched
      /\ (\A t \in Toggles : own[t].pc = "idle" /\ own[t].at = 0)
      /\ (\A i \in Positions : live[i].pc = "idle" /\ cached[i] = "none") /\ known = {}
    BY NoCallTyped DEF ThreadInit, Untouched
<1> QED
    BY <1>1, <1>2 DEF CalmPage, OwnCalls, LiveCalls, ReactionsStored, OneAtATime, SealedIsBare,
       LoadAgrees, PageAgrees, Loading, Recovering, UnderWay

LEMMA CalmStep ==
    ASSUME ThreadTypes, ThreadCalmInv, [ThreadNext]_threadVars
    PROVE  ThreadCalmInv'
<1>1. ways' = ways
    BY DEF ThreadNext, threadVars, LoadStep, PeerReacts, Hear, LoseEvent, LiveStore, LiveGet, LivePut,
       Toggle, ToggleGet, TogglePut, ToggleSend, ToggleKeep, LoadBegins, LoadRead, LoadShow, LoadPage,
       LoadOrphan, LoadRefresh, LoadFill, Leave, Answer, ResentGet, ResentPut, Reconnect, Restart
<1> SUFFICES ASSUME ways = {} PROVE CalmPage'
    BY <1>1 DEF ThreadCalmInv
<1>2. CalmPage /\ "failures" \notin ways
    BY DEF ThreadCalmInv
<1>3. CASE UNCHANGED threadVars
    BY <1>2, <1>3 DEF threadVars, CalmPage, OwnCalls, LiveCalls, ReactionsStored, OneAtATime, SealedIsBare,
       LoadAgrees, PageAgrees, Loading, Recovering, UnderWay, Untouched, Posted, Heeded, Reacted, MineShown,
       AtRest, At
<1>4. CASE ThreadNext
    BY <1>2, <1>4, CalmPeerReacts, CalmHear, CalmLiveStore, CalmLiveGet, CalmToggle, CalmToggleGet, CalmSend,
       CalmKeep, CalmLoadBegins, CalmLoadRead, CalmLoadShow, CalmLoadPage, CalmLoadOrphan, CalmLoadRefresh,
       CalmLoadFill, CalmLeave, CalmAnswer, CalmResentPut
        DEF ThreadNext, LoadStep, LoseEvent, Restart
<1> QED
    BY <1>3, <1>4

LEMMA ThreadStaysCalm == ThreadSpec => [](ThreadTypes /\ ThreadCalmInv)
<1>1. ThreadInit => ThreadTypes /\ ThreadCalmInv
    BY ThreadStarts, CalmStarts DEF ThreadCalmInv
<1>2. ThreadTypes /\ ThreadCalmInv /\ [ThreadNext]_threadVars => (ThreadTypes /\ ThreadCalmInv)'
    BY ThreadTypesHold, CalmStep
<1> QED
    BY <1>1, <1>2, PTL DEF ThreadSpec

LEMMA RestingPage ==
    ASSUME ThreadTypes, CalmPage, Resting, Shown
    PROVE  /\ shown \in Records /\ shown.reactions \subseteq Users
           /\ "peer" \in shown.reactions <=> "peer" \in Reacted(Posted)
           /\ "me" \in shown.reactions <=> "me" \in Reacted(Posted)
           /\ shown.sealed => record.sealed
           /\ unread = 0
<1>1. AtRest(own) /\ AtRest(live) /\ ~Loading /\ heard = Len(log) /\ open
    BY DEF Resting, Reacting, Shown
<1>2. (\A t \in Toggles : ~UnderWay(t)) /\ \A i \in Positions : live[i].pc = "idle"
    BY <1>1, AtRestMeans, CalmAtRest
<1>3. Heeded = Posted
    BY <1>1, <1>2, PostedFacts DEF Heeded, Posted
<1>4. MineShown <=> "me" \in Reacted(Posted)
    BY <1>2 DEF MineShown
<1> QED
    BY <1>1, <1>2, <1>3, <1>4, NoCallTyped DEF CalmPage, PageAgrees

(* A page at rest shows the reactions that the conversation's reaction     *)
(* messages leave, if reactions, loads and recoveries do not meet and      *)
(* nothing fails: for any number of toggles and of messages, whichever way *)
(* the user's and the peer's reactions are interleaved.                    *)
(* (onToggleReaction, handleIncomingDecryptedMessage,                      *)
(* processMessagesAndFilterReactions)                                      *)
THEOREM ReactionsComeOut == ThreadSpec => []ReactionsAgreeCalmly
<1>1. ThreadTypes /\ ThreadCalmInv => ReactionsAgreeCalmly
    <2> SUFFICES ASSUME ThreadTypes, ThreadCalmInv, ways = {}, Resting, Shown
                 PROVE  shown.reactions = Reacted(Posted)
        BY DEF ReactionsAgreeCalmly, ReactionsAgree
    <2>1. CalmPage
        BY DEF ThreadCalmInv
    <2>2. shown.reactions \subseteq Users /\ Reacted(Posted) \subseteq Users
        BY <2>1, RestingPage, ReactedTyped
    <2> QED
        BY <2>1, <2>2, RestingPage DEF Users
<1> QED
    BY <1>1, ThreadStaysCalm, PTL

(* A page at rest shows the text that the cache has, if reactions, loads   *)
(* and recoveries do not meet and nothing fails.  (messageRecovered$)      *)
THEOREM RecoveredComesOut == ThreadSpec => []RecoveredIsShownCalmly
<1>1. ThreadTypes /\ ThreadCalmInv => RecoveredIsShownCalmly
    <2> SUFFICES ASSUME ThreadTypes, ThreadCalmInv, ways = {}, Resting, Shown, ~record.sealed
                 PROVE  ~shown.sealed
        BY DEF RecoveredIsShownCalmly, RecoveredIsShown
    <2> QED
        BY RestingPage DEF ThreadCalmInv
<1> QED
    BY <1>1, ThreadStaysCalm, PTL

(* Nothing is unread in a conversation whose page is open and at rest, if  *)
(* reactions, loads and recoveries do not meet and nothing fails.          *)
(* (markConversationRead)                                                  *)
THEOREM ReadWhenShown == ThreadSpec => []NothingIsUnreadCalmly
<1>1. ThreadTypes /\ ThreadCalmInv => NothingIsUnreadCalmly
    <2> SUFFICES ASSUME ThreadTypes, ThreadCalmInv, ways = {}, Resting, Shown
                 PROVE  unread = 0
        BY DEF NothingIsUnreadCalmly, NothingIsUnread
    <2> QED
        BY RestingPage DEF ThreadCalmInv
<1> QED
    BY <1>1, ThreadStaysCalm, PTL

-----------------------------------------------------------------------------
(* Thread: the text.  Reactions are not handled while the record is        *)
(* sealed, and what they store was read unsealed.                          *)

RecordOpen ==
    /\ \A t \in Toggles : /\ own[t].pc # "idle" => ~record.sealed
                          /\ own[t].pc = "put" => ~own[t].copy.sealed
    /\ \A i \in Positions : /\ live[i].pc # "idle" => ~record.sealed
                            /\ live[i].pc = "put" => ~live[i].copy.sealed

OpenInv == "anytime" \notin ways => RecordOpen

LEMMA OpenFrame ==
    ASSUME RecordOpen, UNCHANGED <<own, live>>, record' = record \/ ~record'.sealed
    PROVE  RecordOpen' /\ ~Resealed
BY DEF RecordOpen, Resealed

LEMMA OpenStep ==
    ASSUME ThreadTypes, RecordOpen, "anytime" \notin ways, ThreadNext
    PROVE  RecordOpen' /\ ~Resealed
<1>1. MayReact => ~record.sealed
    BY DEF MayReact
<1>2. CASE PeerReacts \/ LoseEvent \/ LoadBegins \/ LoadRead \/ LoadShow \/ LoadPage \/ LoadRefresh \/ LoadFill
           \/ (\E gone \in BOOLEAN : Leave(gone)) \/ Answer \/ ResentGet \/ Reconnect
    BY <1>2, OpenFrame DEF PeerReacts, LoseEvent, LoadBegins, LoadRead, LoadShow, LoadPage, LoadRefresh, LoadFill,
       Leave, Answer, ResentGet, Reconnect
<1>3. CASE Hear
    BY <1>1, <1>3, NoCallTyped DEF Hear, RecordOpen, Resealed, ThreadTypes, LiveOK, NoCall
<1>4. ASSUME NEW i \in Positions, LiveStore(i) \/ LiveGet(i) \/ LivePut(i)
      PROVE  RecordOpen' /\ ~Resealed
    <2>1. live[i].pc # "idle" /\ ~record.sealed /\ live[i] \in ThreadCall
        BY <1>4 DEF LiveStore, LiveGet, LivePut, At, RecordOpen, ThreadTypes, LiveOK
    <2>2. own' = own /\ \A j \in Positions : j # i => live'[j] = live[j]
        BY <1>4 DEF LiveStore, LiveGet, LivePut, ThreadTypes, LiveOK
    <2>3. ~record'.sealed
        <3>1. CASE LivePut(i)
            <4>1. live[i].copy \in Records /\ ~live[i].copy.sealed
                BY <3>1 DEF LivePut, At, ThreadTypes, LiveOK, PutsRecord, RecordOpen
            <4> QED
                BY <3>1, <4>1 DEF LivePut, Records
        <3>2. CASE ~LivePut(i)
            BY <3>2, <1>4, <2>1 DEF LiveStore, LiveGet
        <3> QED
            BY <3>1, <3>2
    <2>4. live'[i].pc = "put" => ~live'[i].copy.sealed
        BY <1>4, <2>1, NoCallTyped DEF LiveStore, LiveGet, LivePut, ThreadTypes, LiveOK, ThreadCall
    <2> QED
        BY <2>1, <2>2, <2>3, <2>4 DEF RecordOpen, Resealed
<1>5. ASSUME NEW t \in Toggles, Toggle(t) \/ ToggleGet(t) \/ TogglePut(t) \/ ToggleSend(t) \/ ToggleKeep(t)
      PROVE  RecordOpen' /\ ~Resealed
    <2>1. ~record.sealed /\ own[t] \in ThreadCall
        BY <1>1, <1>5, OwnCallTyped DEF Toggle, ToggleGet, TogglePut, ToggleSend, ToggleKeep, At, RecordOpen
    <2>2. live' = live /\ \A s \in Toggles : s # t => own'[s] = own[s]
        BY <1>5 DEF Toggle, ToggleGet, TogglePut, ToggleSend, ToggleKeep, Done, ThreadTypes, OwnOK
    <2>3. ~record'.sealed
        <3>1. CASE TogglePut(t)
            <4>1. own[t].copy \in Records /\ ~own[t].copy.sealed
                BY <3>1 DEF TogglePut, At, ThreadTypes, OwnOK, PutsRecord, RecordOpen
            <4> QED
                BY <3>1, <4>1 DEF TogglePut, Records
        <3>2. CASE ~TogglePut(t)
            BY <3>2, <1>5, <2>1 DEF Toggle, ToggleGet, ToggleSend, ToggleKeep
        <3> QED
            BY <3>1, <3>2
    <2>4. own'[t].pc = "put" => ~own'[t].copy.sealed
        <3>1. own \in [Toggles -> ThreadCall] /\ DOMAIN own[t] = {"pc", "list", "add", "copy", "at"}
            BY <2>1 DEF ThreadTypes, OwnOK, ThreadCall
        <3>2. CASE ToggleGet(t)
            BY <2>1, <3>1, <3>2 DEF ToggleGet
        <3>3. CASE TogglePut(t) \/ ToggleKeep(t)
            BY <3>1, <3>3 DEF TogglePut, ToggleKeep, Done, NoCall
        <3>5. CASE Toggle(t)
            <4> DEFINE c(list, add) == [NoCall EXCEPT !.pc = "get", !.list = list, !.add = add, !.at = 1]
            <4>1. \A list, add : c(list, add).pc = "get"
                BY DEF NoCall
            <4> HIDE DEF c
            <4>2. PICK list, add : own' = [own EXCEPT ![t] = c(list, add)]
                BY <3>5 DEF Toggle, c
            <4> QED
                BY <3>1, <4>1, <4>2
        <3>4. CASE ToggleSend(t)
            <4>1. own' = [own EXCEPT ![t].pc = "keep", ![t].at = Len(log) + 1] \/ Done(t)
                BY <3>4 DEF ToggleSend
            <4> QED
                BY <3>1, <4>1 DEF Done, NoCall
        <3> QED
            BY <1>5, <3>2, <3>3, <3>4, <3>5
    <2> QED
        BY <2>1, <2>2, <2>3, <2>4 DEF RecordOpen, Resealed
<1>6. ASSUME NEW opens \in BOOLEAN, LoadOrphan(opens)
      PROVE  RecordOpen' /\ ~Resealed
    <2>1. load.copy \in Records
        BY <1>6 DEF LoadOrphan, ThreadTypes, LoadOK
    <2>2. record' = record \/ ~record'.sealed
        BY <1>6, <2>1, Unsealed DEF LoadOrphan
    <2> QED
        BY <1>6, <2>2, OpenFrame DEF LoadOrphan
<1>7. CASE ResentPut
    <2>1. resent.copy \in Records
        BY <1>7 DEF ResentPut, ThreadTypes, ResentOK, PutsRecord
    <2>2. ~record'.sealed
        BY <1>7, <2>1, Unsealed DEF ResentPut
    <2> QED
        BY <1>7, <2>2, OpenFrame DEF ResentPut
<1>8. CASE Restart
    BY <1>8 DEF Restart, RecordOpen, Resealed, NoCall
<1> QED
    BY <1>2, <1>3, <1>4, <1>5, <1>6, <1>7, <1>8 DEF ThreadNext, LoadStep

(* A text that was recovered is never sealed again, unless reactions meet  *)
(* a load or come while the text is sealed; answers may come while the     *)
(* page loads, sends and events may be lost and the app may end.           *)
(* (handleResentMessage, loadHistory [4.5])                                *)
THEOREM TextStaysOpen == ThreadSpec => TextStaysCalmly
<1>1. ThreadInit => ThreadTypes /\ OpenInv
    BY ThreadStarts, NoCallTyped DEF ThreadInit, OpenInv, RecordOpen
<1>2. [ThreadNext]_threadVars => ways' = ways
    BY DEF ThreadNext, threadVars, LoadStep, PeerReacts, Hear, LoseEvent, LiveStore, LiveGet, LivePut,
       Toggle, ToggleGet, TogglePut, ToggleSend, ToggleKeep, LoadBegins, LoadRead, LoadShow, LoadPage,
       LoadOrphan, LoadRefresh, LoadFill, Leave, Answer, ResentGet, ResentPut, Reconnect, Restart
<1>3. ThreadTypes /\ OpenInv /\ [ThreadNext]_threadVars =>
          OpenInv' /\ ["anytime" \notin ways => ~Resealed]_threadVars
    <2> SUFFICES ASSUME ThreadTypes, OpenInv, [ThreadNext]_threadVars
                 PROVE  OpenInv' /\ ["anytime" \notin ways => ~Resealed]_threadVars
        OBVIOUS
    <2>1. CASE UNCHANGED threadVars
        BY <2>1 DEF threadVars, OpenInv, RecordOpen
    <2>2. CASE ThreadNext
        BY <2>2, <1>2, OpenStep DEF OpenInv
    <2> QED
        BY <2>1, <2>2
<1>4. ThreadTypes /\ [ThreadNext]_threadVars => ThreadTypes'
    BY ThreadTypesHold
<1> QED
    BY <1>1, <1>3, <1>4, PTL DEF ThreadSpec, TextStaysCalmly

-----------------------------------------------------------------------------
USE ConstantsAssumption

(* SyncBackup: types of what has to do with the key. *)

Who == Accounts \cup {NoOne}
Key == [of : Who, gen : Nat]
Kept == [key : Key, gen : Nat]
Blob == [gen : Nat, pin : Key, recovery : Key]

Doing == [pc : {"idle", "recovery", "settings", "answer", "store", "import"},
          key : Key, gen : Nat, of : Who, next : {"loop", "rebuild"}]

DeviceOK == user \in Who /\ mbk \in Key /\ generation \in Nat /\ kept \in [Accounts -> Kept]
KeysOK == keying \in Doing /\ crossed \in SUBSET Accounts
BlobOK == blob \in [Accounts -> Blob]

KeyTypeInv == DeviceOK /\ KeysOK /\ BlobOK

LEMMA KeyFacts == NoKey \in Key /\ Nothing \in Kept /\ NoKey.gen = 0 /\ NoKey.of = NoOne
BY DEF NoKey, Nothing, Key, Kept, Who

LEMMA NothingDone == NoKeying \in Doing /\ NoKeying.pc = "idle"
BY KeyFacts DEF NoKeying, Doing, Who

LEMMA KeyInit == Init => KeyTypeInv
BY KeyFacts, NothingDone DEF Init, KeyTypeInv, DeviceOK, KeysOK, BlobOK, Who, Blob

(* An operation begun with a key, and the adoption of that key. *)
LEMMA Begun ==
    ASSUME NEW key \in Key, NEW pc \in {"recovery", "settings", "answer"}
    PROVE  /\ Keying(pc, key) \in Doing
           /\ Keying(pc, key).pc = pc /\ Keying(pc, key).key = key
           /\ [Keying(pc, key) EXCEPT !.next = "rebuild"] \in Doing
           /\ [Keying(pc, key) EXCEPT !.next = "rebuild"].pc = pc
           /\ [Keying(pc, key) EXCEPT !.next = "rebuild"].key = key
BY NothingDone DEF Keying, Doing

LEMMA AdoptionTyped ==
    ASSUME KeyTypeInv, NEW g \in Nat, AdoptionBegun(g), UNCHANGED <<user, mbk, kept>>
    PROVE  /\ DeviceOK' /\ keying' \in Doing
           /\ keying'.pc = "store" /\ keying'.key = keying.key /\ keying'.gen = g
           /\ keying'.of = user
BY DEF AdoptionBegun, KeyTypeInv, DeviceOK, KeysOK, Doing

KeyStep ==
    \/ \E a \in Accounts : Initialize(a)
    \/ \E r \in Answers : \/ SetupPin(r) \/ SetupRecovery(r) \/ Unlock(r)
                          \/ ChangePin(r) \/ RotateMbk(r)
    \/ \E key : FetchBlob(key)
    \/ Adoption \/ RotationNoticed
    \/ \E a \in Accounts : \E has : RemoteRotates(a, has)
    \/ (\E wipe \in BOOLEAN : Reset(wipe)) \/ Crash

(* What is sent, backed up and restored does not touch the keys. *)
LEMMA KeysUntouched ==
    ASSUME [Next]_vars, ~KeyStep
    PROVE  UNCHANGED <<device, keys, blob>>
<1> USE DEF server
<1>1. CASE UNCHANGED vars
    BY <1>1 DEF vars
<1>2. CASE TimerFlush \/ TakeQueue \/ TaskStep \/ Restore \/ StartRebuild \/ BackupGroupState
    BY <1>2 DEF TimerFlush, TakeQueue, TaskStep, BackfillFlush, RebuildClear,
        RebuildFlush, RebuildEnds, Restore, StartRebuild, BackupGroupState
<1>3. ASSUME NEW r \in Answers, Flushing(r) \/ Task(r)
      PROVE  UNCHANGED <<device, keys, blob>>
    BY <1>3 DEF Flushing, RetryBatch, PostQueue, Task, FetchServerIds, BackfillUpload,
        RebuildCount, DeleteData, RebuildUpload, BackfillCheck
<1>4. CASE (\E t \in Texts : NewText(t)) \/ \E e \in writes : SaveWrite(e)
    BY <1>4 DEF NewText, SaveWrite
<1> QED
    BY <1>1, <1>2, <1>3, <1>4 DEF Next, KeyStep

(* The steps that move a wrapped key, told by what they do to the blobs.   *)
LEMMA SetupPinMeans ==
    ASSUME KeyTypeInv, NEW r, SetupPin(r)
    PROVE  /\ user \in Accounts /\ KeyOf(user, 1) \in Key
           /\ UNCHANGED <<device, unstored, crossed>> /\ keying.pc = "idle"
           /\ keying' \in {Keying("recovery", KeyOf(user, 1)), NoKeying}
           /\ \/ blob' = blob /\ keying' = NoKeying
              \/ blob' = [blob EXCEPT ![user] = [gen |-> 1, pin |-> KeyOf(user, 1),
                                                 recovery |-> NoKey]]
<1>1. user \in Accounts /\ blob \in [Accounts -> Blob]
    BY DEF SetupPin, KeyTypeInv, DeviceOK, BlobOK, Who
<1>2. PICK key : key = [of |-> user, gen |-> 1]
    OBVIOUS
<1>3. key = KeyOf(user, 1) /\ key \in Key
    BY <1>1, <1>2 DEF KeyOf, Key, Who
<1>4. /\ UNCHANGED <<device, unstored, crossed>> /\ keying.pc = "idle"
      /\ keying' = (IF r = "ok" THEN Keying("recovery", key) ELSE NoKeying)
      /\ blob' = IF Reaches(r) THEN [blob EXCEPT ![user].gen = 1, ![user].pin = key] ELSE blob
      /\ blob[user].recovery = NoKey
    BY <1>2 DEF SetupPin
<1>5. [blob EXCEPT ![user].gen = 1, ![user].pin = key]
          = [blob EXCEPT ![user] = [gen |-> 1, pin |-> key, recovery |-> NoKey]]
    <2>1. PICK b : b = blob[user] /\ b \in Blob /\ b.recovery = NoKey
        BY <1>1, <1>4
    <2>2. [b EXCEPT !.gen = 1, !.pin = key] = [gen |-> 1, pin |-> key, recovery |-> NoKey]
        <3>1. PICK c : c = [b EXCEPT !.gen = 1, !.pin = key]
            OBVIOUS
        <3>2. c \in Blob /\ c.gen = 1 /\ c.pin = key /\ c.recovery = NoKey
            BY <1>3, <2>1, <3>1 DEF Blob
        <3>3. c = [gen |-> c.gen, pin |-> c.pin, recovery |-> c.recovery]
            BY <3>2 DEF Blob
        <3> QED
            BY <3>1, <3>2, <3>3
    <2>3. [blob EXCEPT ![user].gen = 1, ![user].pin = key]
              = [blob EXCEPT ![user] = [b EXCEPT !.gen = 1, !.pin = key]]
        BY <1>1, <2>1
    <2> QED
        BY <2>2, <2>3
<1> QED
    BY <1>1, <1>3, <1>4, <1>5 DEF Reaches

LEMMA RotatedMeans ==
    ASSUME KeyTypeInv, NEW r, RotateMbk(r)
    PROVE  /\ user \in Accounts /\ NewKey \in Key /\ NewKey = KeyOf(user, NewKey.gen)
           /\ UNCHANGED <<device, unstored, crossed>>
           /\ keying' \in {[Keying("answer", NewKey) EXCEPT !.next = "rebuild"], NoKeying}
           /\ blob' = [blob EXCEPT ![user] = [gen |-> NewKey.gen, pin |-> NewKey,
                                              recovery |-> NewKey]]
BY DEF RotateMbk, BlobsRotated, NewKey, KeyOf, Key, KeyTypeInv, DeviceOK, BlobOK, Blob, Who

LEMMA ElsewhereRotated ==
    ASSUME KeyTypeInv, NEW a \in Accounts, NEW has, RemoteRotates(a, has)
    PROVE  \E g \in Nat :
               /\ KeyOf(a, g) \in Key
               /\ UNCHANGED <<device, keying, unstored>>
               /\ crossed' = IF keying.pc \in {"recovery", "settings"} THEN crossed \union {a}
                             ELSE crossed
               /\ blob' = [blob EXCEPT ![a] = [gen |-> g, pin |-> KeyOf(a, g),
                                               recovery |-> KeyOf(a, g)]]
<1>1. blob[a].gen + 1 \in Nat /\ KeyOf(a, blob[a].gen + 1) \in Key
    BY DEF KeyOf, Key, Who, KeyTypeInv, BlobOK, Blob
<1> QED
    BY <1>1 DEF RemoteRotates, KeyOf

(* What is said of a key's type. *)
LEMMA KeyTypeStep == KeyTypeInv /\ [Next]_vars => KeyTypeInv'
<1> SUFFICES ASSUME KeyTypeInv, [Next]_vars PROVE KeyTypeInv'
    OBVIOUS
<1> USE DEF server
<1>2. ASSUME NEW a \in Accounts, Initialize(a)
      PROVE  KeyTypeInv'
    BY <1>2 DEF Initialize, KeyTypeInv, DeviceOK, KeysOK, BlobOK, Kept, Who
<1>3. ASSUME NEW r \in Answers, SetupPin(r)
      PROVE  KeyTypeInv'
    <2>1. \A b : b = [gen |-> 1, pin |-> KeyOf(user, 1), recovery |-> NoKey] => b \in Blob
        BY <1>3, SetupPinMeans, KeyFacts DEF Blob
    <2>2. keying' \in Doing
        <3>1. Keying("recovery", KeyOf(user, 1)) \in Doing
            BY <1>3, SetupPinMeans, Begun
        <3> QED
            BY <1>3, <3>1, SetupPinMeans, NothingDone
    <2>3. BlobOK'
        BY <1>3, <2>1, SetupPinMeans DEF KeyTypeInv, BlobOK
    <2> QED
        BY <1>3, <2>2, <2>3, SetupPinMeans DEF device, KeyTypeInv, DeviceOK, KeysOK
<1>4. ASSUME NEW r \in Answers, SetupRecovery(r)
      PROVE  KeyTypeInv'
    <2>1. BlobOK' /\ UNCHANGED crossed
        BY <1>4 DEF SetupRecovery, KeyTypeInv, BlobOK, Blob, KeysOK, Doing
    <2>2. CASE AdoptionBegun(1)
        BY <1>4, <2>1, <2>2, AdoptionTyped DEF SetupRecovery, KeyTypeInv, KeysOK
    <2>3. CASE keying' = NoKeying /\ UNCHANGED generation
        BY <1>4, <2>1, <2>3, NothingDone DEF SetupRecovery, KeyTypeInv, DeviceOK, KeysOK
    <2> QED
        BY <1>4, <2>2, <2>3 DEF SetupRecovery
<1>5. ASSUME NEW r \in Answers, Unlock(r)
      PROVE  KeyTypeInv'
    <2>1. UNCHANGED <<blob, crossed, user, mbk, kept>>
        BY <1>5 DEF Unlock
    <2>2. CASE r = "ok"
        <3>1. user \in Accounts /\ blob[user].gen \in Nat
            BY <2>2 DEF Answers, AllFaults, KeyTypeInv, DeviceOK, BlobOK, Blob, Who
        <3> QED
            BY <1>5, <2>1, <2>2, <3>1, AdoptionTyped DEF Unlock, KeyTypeInv, KeysOK, BlobOK
    <2>3. CASE r # "ok"
        BY <1>5, <2>1, <2>3, NothingDone DEF Unlock, KeyTypeInv, DeviceOK, KeysOK, BlobOK
    <2> QED
        BY <2>2, <2>3
<1>6. ASSUME NEW r \in Answers, ChangePin(r)
      PROVE  KeyTypeInv'
    BY <1>6 DEF ChangePin, device, KeyTypeInv, DeviceOK, KeysOK, BlobOK, Blob, Kept, Who
<1>7. ASSUME NEW r \in Answers, RotateMbk(r)
      PROVE  KeyTypeInv'
    <2>1. NewKey.gen \in Nat
        BY <1>7, RotatedMeans DEF Key
    <2>2. \A b : b = [gen |-> NewKey.gen, pin |-> NewKey, recovery |-> NewKey] => b \in Blob
        BY <1>7, <2>1, RotatedMeans DEF Blob
    <2>3. keying' \in Doing
        <3>1. [Keying("answer", NewKey) EXCEPT !.next = "rebuild"] \in Doing
            BY <1>7, RotatedMeans, Begun
        <3> QED
            BY <1>7, <3>1, RotatedMeans, NothingDone
    <2>4. BlobOK'
        BY <1>7, <2>2, RotatedMeans DEF KeyTypeInv, BlobOK
    <2> QED
        BY <1>7, <2>3, <2>4, RotatedMeans DEF device, KeyTypeInv, DeviceOK, KeysOK
<1>8. ASSUME NEW a \in Accounts, NEW has, RemoteRotates(a, has)
      PROVE  KeyTypeInv'
    BY <1>8, ElsewhereRotated DEF device, KeyTypeInv, DeviceOK, KeysOK, BlobOK, Blob
<1>9. CASE Adoption
    <2>1. CASE RotationAnswered
        <3>1. keying.key.gen \in Nat
            BY DEF KeyTypeInv, KeysOK, Doing, Key
        <3> QED
            BY <2>1, <3>1, AdoptionTyped DEF RotationAnswered, KeyTypeInv, KeysOK, BlobOK
    <2>2. ASSUME NEW stored \in BOOLEAN, StoreKey(stored)
          PROVE  KeyTypeInv'
        <3>1. [key |-> keying.key, gen |-> keying.gen] \in Kept
            BY DEF KeyTypeInv, KeysOK, Doing, Kept
        <3>2. /\ UNCHANGED <<user, mbk, generation, crossed, blob>>
              /\ \/ /\ kept' = [kept EXCEPT ![keying.of] =
                                     [key |-> keying.key, gen |-> keying.gen]]
                    /\ keying' = [keying EXCEPT !.pc = "import"]
                 \/ kept' = kept /\ keying' = NoKeying
            BY <2>2 DEF StoreKey
        <3> QED
            BY <3>1, <3>2, NothingDone DEF KeyTypeInv, DeviceOK, KeysOK, BlobOK, Doing
    <2>3. CASE ImportKey
        BY <2>3, NothingDone DEF ImportKey, KeyTypeInv, DeviceOK, KeysOK, BlobOK, Doing
    <2> QED
        BY <1>9, <2>1, <2>2, <2>3 DEF Adoption
<1>10. CASE RotationNoticed
    <2>1. /\ UNCHANGED <<user, generation, keying, crossed, blob>> /\ mbk' \in {mbk, NoKey}
          /\ kept' = kept \/ kept' = [kept EXCEPT ![user] = Nothing]
        BY <1>10 DEF RotationNoticed, RemoteRotation
    <2> QED
        BY <2>1, KeyFacts DEF KeyTypeInv, DeviceOK, KeysOK, BlobOK
<1>11. ASSUME NEW key, FetchBlob(key)
       PROVE  KeyTypeInv'
    <2>1. key \in Key
        BY <1>11 DEF FetchBlob, KeyTypeInv, DeviceOK, BlobOK, Blob, Who
    <2> QED
        BY <1>11, <2>1, Begun DEF FetchBlob, device, KeyTypeInv, DeviceOK, KeysOK, BlobOK
<1>12. ASSUME NEW wipe \in BOOLEAN, Reset(wipe)
       PROVE  KeyTypeInv'
    BY <1>12, KeyFacts DEF Reset, KeyTypeInv, DeviceOK, KeysOK, BlobOK, Who
<1>13. CASE Crash
    BY <1>13, KeyFacts, NothingDone DEF Crash, KeyTypeInv, DeviceOK, KeysOK, BlobOK, Who
<1>14. CASE UNCHANGED <<device, keys, blob>>
    BY <1>14 DEF device, keys, KeyTypeInv, DeviceOK, KeysOK, BlobOK
<1> QED
    BY <1>2, <1>3, <1>4, <1>5, <1>6, <1>7, <1>8, <1>9, <1>10, <1>11, <1>12, <1>13, <1>14,
        KeysUntouched DEF KeyStep

-----------------------------------------------------------------------------
(* A key goes with its account and generation wherever it is: kept on the  *)
(* device, wrapped on the server, fetched by what is under way, and in     *)
(* memory.  An account left while something was under way is crossed, as   *)
(* are all: nothing is claimed of it.                                      *)

KeptMatches ==
    \A a \in Accounts \ crossed : kept[a] # Nothing => kept[a].key = KeyOf(a, kept[a].gen)
WrappedMatches ==
    \A a \in Accounts \ crossed :
        /\ blob[a].pin # NoKey => blob[a].pin = KeyOf(a, blob[a].gen)
        /\ blob[a].recovery # NoKey => blob[a].recovery = KeyOf(a, blob[a].gen)
DoingMatches ==
    user \in Accounts \ crossed =>
        /\ keying.pc \in {"recovery", "settings"} => keying.key = KeyOf(user, blob[user].gen)
        /\ keying.pc = "recovery" => blob[user].gen = 1
        /\ keying.pc = "answer" => keying.key = KeyOf(user, keying.key.gen)
        /\ Adopting => keying.key = KeyOf(user, keying.gen) /\ keying.gen = generation
StoresOwn == Adopting => keying.of = user \/ crossed = Accounts
AwayMatches == user = NoOne => crossed = Accounts \/ (mbk = NoKey /\ keying.pc = "idle")
HeldMatches ==
    user \in Accounts \ crossed /\ mbk # NoKey /\ ~Adopting /\ ~unstored =>
        mbk = KeyOf(user, generation)

KeyInv == /\ KeyTypeInv /\ KeptMatches /\ WrappedMatches /\ DoingMatches
          /\ StoresOwn /\ AwayMatches /\ HeldMatches

LEMMA KeyInvInit == Init => KeyInv
BY KeyInit, KeyFacts, NothingDone DEF Init, KeyInv, KeptMatches, WrappedMatches, DoingMatches,
    StoresOwn, AwayMatches, HeldMatches, Adopting

LEMMA KeyInvKept ==
    ASSUME KeyInv, UNCHANGED <<device, keys, blob>>
    PROVE  KeyInv'
BY DEF device, keys, KeyInv, KeyTypeInv, DeviceOK, KeysOK, BlobOK, KeptMatches,
    WrappedMatches, DoingMatches, StoresOwn, AwayMatches, HeldMatches, Adopting

(* An account is opened, left, or the app killed. *)
LEMMA SessionKey ==
    ASSUME KeyInv, KeyTypeInv',
           \/ \E a \in Accounts : Initialize(a)
           \/ \E wipe \in BOOLEAN : Reset(wipe)
           \/ Crash \/ RotationNoticed
    PROVE  KeyInv'
<1> USE DEF server
<1>1. ASSUME NEW a \in Accounts, Initialize(a)
      PROVE  KeyInv'
    <2>1. /\ UNCHANGED <<kept, blob, keying, crossed>> /\ user = NoOne /\ user' = a
          /\ \/ /\ kept[a] # Nothing /\ mbk' = kept[a].key /\ generation' = kept[a].gen
             \/ UNCHANGED <<mbk, generation, unstored>>
        BY <1>1 DEF Initialize
    <2>2. CASE crossed = Accounts
        BY <2>1, <2>2 DEF KeyInv, KeyTypeInv, DeviceOK, KeysOK, KeptMatches, WrappedMatches,
            DoingMatches, StoresOwn, AwayMatches, HeldMatches
    <2>3. CASE crossed # Accounts
        <3>1. mbk = NoKey /\ keying.pc = "idle"
            BY <2>1, <2>3 DEF KeyInv, AwayMatches
        <3>2. KeptMatches' /\ WrappedMatches' /\ DoingMatches' /\ StoresOwn'
            BY <2>1, <3>1 DEF KeyInv, KeptMatches, WrappedMatches, DoingMatches, StoresOwn,
                Adopting
        <3>3. AwayMatches' /\ HeldMatches'
            BY <2>1, <3>1 DEF KeyInv, KeptMatches, AwayMatches, HeldMatches
        <3> QED
            BY <3>2, <3>3 DEF KeyInv
    <2> QED
        BY <2>2, <2>3
<1>2. ASSUME NEW wipe \in BOOLEAN, Reset(wipe)
      PROVE  KeyInv'
    <2>1. /\ UNCHANGED <<keying, blob>> /\ mbk' = NoKey /\ user' = NoOne
          /\ crossed' = (IF keying.pc = "idle" THEN crossed ELSE Accounts)
          /\ kept' = kept \/ kept' = [kept EXCEPT ![user] = Nothing]
        BY <1>2 DEF Reset
    <2>2. KeptMatches' /\ WrappedMatches'
        BY <2>1 DEF KeyInv, KeyTypeInv, DeviceOK, KeysOK, KeptMatches, WrappedMatches
    <2>3. DoingMatches' /\ StoresOwn' /\ AwayMatches' /\ HeldMatches'
        BY <2>1 DEF DoingMatches, StoresOwn, AwayMatches, HeldMatches, Adopting
    <2> QED
        BY <2>2, <2>3 DEF KeyInv
<1>3. CASE Crash
    <2>1. /\ UNCHANGED <<kept, blob, crossed>> /\ keying' = NoKeying /\ mbk' = NoKey
          /\ user' = NoOne
        BY <1>3 DEF Crash
    <2> QED
        BY <2>1, NothingDone DEF KeyInv, KeptMatches, WrappedMatches, DoingMatches, StoresOwn,
            AwayMatches, HeldMatches, Adopting
<1>4. CASE RotationNoticed
    <2>1. /\ UNCHANGED <<user, generation, keying, crossed, blob>> /\ user # NoOne
          /\ mbk' = NoKey /\ kept' = [kept EXCEPT ![user] = Nothing]
        BY <1>4 DEF RotationNoticed, RemoteRotation
    <2> QED
        BY <2>1 DEF KeyInv, KeyTypeInv, DeviceOK, KeptMatches, WrappedMatches, DoingMatches,
            StoresOwn, AwayMatches, HeldMatches, Adopting
<1> QED
    BY <1>1, <1>2, <1>3, <1>4

(* What begins an operation on the key, or fetches for it. *)
LEMMA RequestKey ==
    ASSUME KeyInv, KeyTypeInv', NEW r \in Answers,
           \/ SetupPin(r) \/ SetupRecovery(r) \/ Unlock(r) \/ ChangePin(r) \/ RotateMbk(r)
           \/ \E key : FetchBlob(key)
    PROVE  KeyInv'
<1> USE DEF server, device
<1>1. CASE SetupPin(r)
    <2>1. /\ user \in Accounts /\ UNCHANGED <<device, unstored, crossed>> /\ keying.pc = "idle"
          /\ \/ blob' = blob /\ keying'.pc = "idle"
             \/ /\ keying'.pc \in {"idle", "recovery"}
                /\ keying'.pc = "recovery" => keying'.key = KeyOf(user, 1)
                /\ blob' = [blob EXCEPT ![user] = [gen |-> 1, pin |-> KeyOf(user, 1),
                                                   recovery |-> NoKey]]
        <3>1. /\ Keying("recovery", KeyOf(user, 1)).pc = "recovery"
              /\ Keying("recovery", KeyOf(user, 1)).key = KeyOf(user, 1)
            BY <1>1, SetupPinMeans, Begun DEF KeyInv
        <3> QED
            BY <1>1, <3>1, SetupPinMeans, NothingDone DEF KeyInv
    <2>2. WrappedMatches' /\ KeptMatches'
        BY <2>1 DEF KeyInv, KeyTypeInv, BlobOK, WrappedMatches, KeptMatches
    <2>3. DoingMatches' /\ StoresOwn'
        BY <2>1 DEF KeyInv, KeyTypeInv, BlobOK, DoingMatches, StoresOwn, Adopting
    <2>4. AwayMatches' /\ HeldMatches'
        BY <2>1 DEF KeyInv, KeyTypeInv, DeviceOK, AwayMatches, HeldMatches, Adopting, Who
    <2> QED
        BY <2>2, <2>3, <2>4 DEF KeyInv
<1>2. CASE SetupRecovery(r)
    <2>1. /\ UNCHANGED <<user, mbk, kept, unstored, crossed>> /\ keying.pc = "recovery"
          /\ blob' = blob \/ blob' = [blob EXCEPT ![user].recovery = keying.key]
          /\ \/ AdoptionBegun(1) /\ user # NoOne
             \/ keying' = NoKeying /\ UNCHANGED generation
        BY <1>2 DEF SetupRecovery, Answers, AllFaults
    <2>2. WrappedMatches' /\ KeptMatches'
        BY <2>1 DEF KeyInv, KeyTypeInv, BlobOK, Blob, WrappedMatches, DoingMatches, KeptMatches
    <2>3. CASE AdoptionBegun(1)
        <3>1. /\ keying'.pc = "store" /\ keying'.key = keying.key /\ keying'.gen = 1
              /\ keying'.of = user /\ generation' = 1
            BY <2>1, <2>3, AdoptionTyped DEF KeyInv, AdoptionBegun
        <3> QED
            BY <2>1, <2>2, <3>1 DEF KeyInv, DoingMatches, StoresOwn, AwayMatches, HeldMatches,
                Adopting
    <2>4. CASE keying' = NoKeying /\ UNCHANGED generation
        BY <2>1, <2>2, <2>4, NothingDone DEF KeyInv, DoingMatches, StoresOwn, AwayMatches,
            HeldMatches, Adopting
    <2> QED
        BY <2>1, <2>3, <2>4
<1>3. CASE Unlock(r)
    <2>1. /\ UNCHANGED <<user, mbk, kept, unstored, crossed, blob>> /\ keying.pc = "settings"
          /\ \/ AdoptionBegun(blob[user].gen) /\ r = "ok"
             \/ keying' = NoKeying /\ UNCHANGED generation
        BY <1>3 DEF Unlock
    <2>2. WrappedMatches' /\ KeptMatches'
        BY <2>1 DEF KeyInv, WrappedMatches, KeptMatches
    <2>3. CASE AdoptionBegun(blob[user].gen) /\ r = "ok"
        <3>1. user \in Accounts /\ blob[user].gen \in Nat
            BY <2>3 DEF Answers, AllFaults, KeyInv, KeyTypeInv, DeviceOK, BlobOK, Blob, Who
        <3>2. /\ keying'.pc = "store" /\ keying'.key = keying.key
              /\ keying'.gen = blob[user].gen
              /\ keying'.of = user /\ generation' = blob[user].gen
            BY <2>1, <2>3, <3>1, AdoptionTyped DEF KeyInv, AdoptionBegun
        <3> QED
            BY <2>1, <2>2, <3>1, <3>2 DEF KeyInv, DoingMatches, StoresOwn, AwayMatches,
                HeldMatches, Adopting
    <2>4. CASE keying' = NoKeying /\ UNCHANGED generation
        BY <2>1, <2>2, <2>4, NothingDone DEF KeyInv, DoingMatches, StoresOwn, AwayMatches,
            HeldMatches, Adopting
    <2> QED
        BY <2>1, <2>3, <2>4
<1>4. CASE ChangePin(r)
    <2>1. /\ UNCHANGED <<device, keying, unstored>> /\ user \in Accounts
          /\ kept[user] # Nothing
          /\ blob' = [blob EXCEPT ![user].pin = kept[user].key]
          /\ crossed' = IF kept[user].gen = blob[user].gen THEN crossed
                        ELSE crossed \union {user}
        BY <1>4 DEF ChangePin, KeyInv, KeyTypeInv, DeviceOK, Who
    <2>2. WrappedMatches' /\ KeptMatches'
        BY <2>1 DEF KeyInv, KeyTypeInv, BlobOK, Blob, WrappedMatches, KeptMatches
    <2>3. \A a \in Accounts : blob'[a].gen = blob[a].gen
        BY <2>1 DEF KeyInv, KeyTypeInv, BlobOK, Blob
    <2>4. crossed \subseteq crossed' /\ crossed' \subseteq Accounts
        BY <2>1 DEF KeyInv, KeyTypeInv, KeysOK
    <2> QED
        BY <2>1, <2>2, <2>3, <2>4 DEF KeyInv, DoingMatches, StoresOwn, AwayMatches, HeldMatches,
            Adopting
<1>5. CASE RotateMbk(r)
    <2>1. /\ user \in Accounts /\ NewKey = KeyOf(user, NewKey.gen)
          /\ UNCHANGED <<device, unstored, crossed>> /\ keying.pc = "idle"
          /\ keying'.pc \in {"idle", "answer"}
          /\ keying'.pc = "answer" => keying'.key = NewKey
          /\ blob' = [blob EXCEPT ![user] = [gen |-> NewKey.gen, pin |-> NewKey,
                                             recovery |-> NewKey]]
        BY <1>5, RotatedMeans, Begun, NothingDone DEF KeyInv, RotateMbk
    <2>2. WrappedMatches' /\ KeptMatches'
        BY <2>1 DEF KeyInv, KeyTypeInv, BlobOK, WrappedMatches, KeptMatches
    <2> QED
        BY <2>1, <2>2 DEF KeyInv, KeyTypeInv, DeviceOK, DoingMatches, StoresOwn, AwayMatches,
            HeldMatches, Adopting, Who
<1>6. ASSUME NEW key, FetchBlob(key)
      PROVE  KeyInv'
    <2>1. /\ UNCHANGED <<device, unstored, crossed, blob>> /\ keying.pc = "idle"
          /\ user \in Accounts /\ key \in {blob[user].pin, blob[user].recovery} \ {NoKey}
          /\ keying' = Keying("settings", key) /\ key \in Key
        BY <1>6 DEF FetchBlob, KeyInv, KeyTypeInv, DeviceOK, BlobOK, Blob, Who
    <2>2. keying'.pc = "settings" /\ keying'.key = key
        BY <2>1, Begun
    <2> QED
        BY <2>1, <2>2 DEF KeyInv, KeyTypeInv, DeviceOK, KeptMatches, WrappedMatches,
            DoingMatches, StoresOwn, AwayMatches, HeldMatches, Adopting, Who
<1> QED
    BY <1>1, <1>2, <1>3, <1>4, <1>5, <1>6

(* The adoption of a key, and a rotation by another device. *)
LEMMA AdoptedKey ==
    ASSUME KeyInv, KeyTypeInv',
           \/ Adoption
           \/ \E a \in Accounts : \E has : RemoteRotates(a, has)
    PROVE  KeyInv'
<1> USE DEF server, device
<1>1. CASE RotationAnswered
    <2>1. /\ UNCHANGED <<user, mbk, kept, unstored, crossed, blob>> /\ keying.pc = "answer"
          /\ AdoptionBegun(keying.key.gen) /\ keying.key.gen \in Nat
        BY <1>1 DEF RotationAnswered, KeyInv, KeyTypeInv, KeysOK, Doing, Key
    <2>2. /\ keying'.pc = "store" /\ keying'.key = keying.key
          /\ keying'.gen = keying.key.gen /\ keying'.of = user /\ generation' = keying.key.gen
        BY <2>1, AdoptionTyped DEF KeyInv, AdoptionBegun
    <2> QED
        BY <2>1, <2>2 DEF KeyInv, KeptMatches, WrappedMatches, DoingMatches, StoresOwn,
            AwayMatches, HeldMatches, Adopting
<1>2. ASSUME NEW stored \in BOOLEAN, StoreKey(stored)
      PROVE  KeyInv'
    <2>1. /\ UNCHANGED <<user, mbk, generation, crossed, blob>> /\ keying.pc = "store"
          /\ \/ /\ kept' = [kept EXCEPT ![keying.of] =
                                 [key |-> keying.key, gen |-> keying.gen]]
                /\ keying' = [keying EXCEPT !.pc = "import"]
             \/ kept' = kept /\ keying' = NoKeying /\ unstored' = (mbk # NoKey)
        BY <1>2 DEF StoreKey
    <2>2. CASE kept' = kept /\ keying' = NoKeying /\ unstored' = (mbk # NoKey)
        BY <2>1, <2>2, NothingDone DEF KeyInv, KeptMatches, WrappedMatches, DoingMatches,
            StoresOwn, AwayMatches, HeldMatches, Adopting
    <2>3. CASE /\ kept' = [kept EXCEPT ![keying.of] =
                               [key |-> keying.key, gen |-> keying.gen]]
               /\ keying' = [keying EXCEPT !.pc = "import"]
        <3>1. /\ keying'.pc = "import" /\ keying'.key = keying.key /\ keying'.gen = keying.gen
              /\ keying'.of = keying.of
            BY <2>3 DEF KeyInv, KeyTypeInv, KeysOK, Doing
        <3>2. \A a \in Accounts : kept'[a] = IF a = keying.of
                                             THEN [key |-> keying.key, gen |-> keying.gen]
                                             ELSE kept[a]
            BY <2>3 DEF KeyInv, KeyTypeInv, DeviceOK
        <3>3. KeptMatches'
            BY <2>1, <3>2 DEF KeyInv, KeyTypeInv, KeysOK, KeptMatches, StoresOwn, DoingMatches,
                Adopting
        <3> QED
            BY <2>1, <3>1, <3>3 DEF KeyInv, WrappedMatches, DoingMatches, StoresOwn,
                AwayMatches, HeldMatches, Adopting
    <2> QED
        BY <2>1, <2>2, <2>3
<1>3. CASE ImportKey
    <2>1. /\ UNCHANGED <<user, generation, kept, crossed, blob>> /\ keying.pc = "import"
          /\ mbk' = keying.key /\ keying' = NoKeying
        BY <1>3 DEF ImportKey
    <2> QED
        BY <2>1, NothingDone DEF KeyInv, KeptMatches, WrappedMatches, DoingMatches, StoresOwn,
            AwayMatches, HeldMatches, Adopting
<1>4. ASSUME NEW a \in Accounts, NEW has, RemoteRotates(a, has)
      PROVE  KeyInv'
    <2>1. PICK g \in Nat :
               /\ UNCHANGED <<device, keying, unstored>>
               /\ crossed' = IF keying.pc \in {"recovery", "settings"} THEN crossed \union {a}
                             ELSE crossed
               /\ blob' = [blob EXCEPT ![a] = [gen |-> g, pin |-> KeyOf(a, g),
                                               recovery |-> KeyOf(a, g)]]
        BY <1>4, ElsewhereRotated DEF KeyInv
    <2>2. crossed \subseteq crossed' /\ crossed' \subseteq Accounts
        BY <2>1 DEF KeyInv, KeyTypeInv, KeysOK
    <2>3. \A c \in Accounts : blob'[c] = IF c = a THEN [gen |-> g, pin |-> KeyOf(a, g),
                                                       recovery |-> KeyOf(a, g)]
                                         ELSE blob[c]
        BY <2>1 DEF KeyInv, KeyTypeInv, BlobOK
    <2>4. WrappedMatches' /\ KeptMatches'
        BY <2>1, <2>2, <2>3 DEF KeyInv, WrappedMatches, KeptMatches
    <2>5. DoingMatches'
        BY <2>1, <2>2, <2>3 DEF KeyInv, DoingMatches, Adopting
    <2> QED
        BY <2>1, <2>2, <2>4, <2>5 DEF KeyInv, StoresOwn, AwayMatches, HeldMatches, Adopting
<1> QED
    BY <1>1, <1>2, <1>3, <1>4 DEF Adoption

LEMMA KeyInvStep == KeyInv /\ [Next]_vars => KeyInv'
<1> SUFFICES ASSUME KeyInv, [Next]_vars PROVE KeyInv'
    OBVIOUS
<1>1. KeyTypeInv'
    BY KeyTypeStep DEF KeyInv
<1>2. CASE KeyStep
    BY <1>1, <1>2, SessionKey, RequestKey, AdoptedKey DEF KeyStep, FetchBlob, Answers
<1>3. CASE ~KeyStep
    BY <1>3, KeysUntouched, KeyInvKept
<1> QED
    BY <1>2, <1>3

(* The key kept on the device under a generation is the key of that        *)
(* generation, and so is the key in memory, but while an adoption stores   *)
(* its key and after one that could not: whatever requests and storings    *)
(* fail, other devices rotate and crashes there are, and whatever meets    *)
(* whom.  Excepted is an account whose unlock or set-up met a rotation     *)
(* half-way, whose PIN was changed with an older key, or that was left     *)
(* meanwhile (unlockWithPin, setupSync, rotateMbk, changePin,              *)
(* handleRemoteRotation).                                                  *)
THEOREM KeyStaysOfGeneration == Spec => []KeyIsOfGeneration
<1>1. KeyInv /\ [Next]_vars => KeyInv'
    BY KeyInvStep
<1>2. KeyInv => KeyIsOfGeneration
    BY DEF KeyInv, KeptMatches, HeldMatches, KeyIsOfGeneration
<1> QED
    BY <1>1, <1>2, KeyInvInit, PTL DEF Spec

-----------------------------------------------------------------------------
(* What the sequences of the flush hold. *)

LEMMA Joined ==
    ASSUME NEW S, NEW s \in Seq(S), NEW t \in Seq(S)
    PROVE  s \o t \in Seq(S) /\ ToSet(s \o t) = ToSet(s) \cup ToSet(t)
<1>1. PICK m : m = Len(s) /\ m \in Nat
    OBVIOUS
<1>2. PICK n : n = Len(t) /\ n \in Nat
    OBVIOUS
<1>3. \A i \in 1 .. m : (s \o t)[i] = s[i]
    BY <1>1
<1>4. \A i \in 1 .. n : (s \o t)[m + i] = t[i]
    BY <1>1, <1>2
<1>5. /\ s \o t \in Seq(S) /\ DOMAIN (s \o t) = 1 .. m + n
      /\ DOMAIN s = 1 .. m /\ DOMAIN t = 1 .. n
    BY <1>1, <1>2
<1>6. ToSet(s) \cup ToSet(t) \subseteq ToSet(s \o t)
    <2>1. \A i \in 1 .. m : i \in 1 .. m + n
        BY <1>1, <1>2
    <2>2. \A i \in 1 .. n : m + i \in 1 .. m + n
        BY <1>1, <1>2
    <2>3. ToSet(s) \subseteq ToSet(s \o t)
        BY <1>5, <1>3, <2>1 DEF ToSet
    <2>4. ToSet(t) \subseteq ToSet(s \o t)
        BY <1>5, <1>4, <2>2 DEF ToSet
    <2> QED
        BY <2>3, <2>4
<1>7. ToSet(s \o t) \subseteq ToSet(s) \cup ToSet(t)
    <2> SUFFICES ASSUME NEW i \in 1 .. m + n
                 PROVE  (s \o t)[i] \in ToSet(s) \cup ToSet(t)
        BY <1>5 DEF ToSet
    <2>1. CASE i <= m
        <3>1. i \in 1 .. m
            BY <2>1, <1>1, <1>2
        <3> QED
            BY <3>1, <1>5, <1>3 DEF ToSet
    <2>2. CASE ~(i <= m)
        <3>1. i - m \in 1 .. n /\ m + (i - m) = i
            BY <2>2, <1>1, <1>2
        <3> QED
            BY <3>1, <1>5, <1>4 DEF ToSet
    <2> QED
        BY <2>1, <2>2
<1> QED
    BY <1>5, <1>6, <1>7

LEMMA Appended ==
    ASSUME NEW S, NEW s \in Seq(S), NEW e \in S
    PROVE  Append(s, e) \in Seq(S) /\ ToSet(Append(s, e)) = ToSet(s) \cup {e}
<1>1. PICK m : m = Len(s) /\ m \in Nat
    OBVIOUS
<1>2. \A i \in 1 .. m : Append(s, e)[i] = s[i]
    BY <1>1
<1>3. Append(s, e)[m + 1] = e
    BY <1>1
<1>4. DOMAIN Append(s, e) = 1 .. m + 1 /\ DOMAIN s = 1 .. m
    BY <1>1
<1>5. 1 .. m + 1 = (1 .. m) \cup {m + 1}
    BY <1>1
<1> QED
    BY <1>2, <1>3, <1>4, <1>5 DEF ToSet

LEMMA Taken ==
    ASSUME NEW S, NEW s \in Seq(S), s # <<>>
    PROVE  Head(s) \in S /\ Tail(s) \in Seq(S)
OBVIOUS

LEMMA Empty == <<>> \in Seq({}) /\ ToSet(<<>>) = {} /\ \A S : <<>> \in Seq(S)
BY DEF ToSet

LEMMA Members == ASSUME NEW S, NEW s \in Seq(S) PROVE ToSet(s) \subseteq S
BY DEF ToSet

(* Removing the first occurrence of a batch leaves all others. *)
LEMMA Removed ==
    ASSUME NEW S, NEW s \in Seq(S), NEW e
    PROVE  /\ RemoveFirst(s, e) \in Seq(S)
           /\ ToSet(s) \ {e} \subseteq ToSet(RemoveFirst(s, e))
<1>1. CASE ~ \E i \in 1 .. Len(s) : s[i] = e
    BY <1>1 DEF RemoveFirst
<1>2. CASE \E i \in 1 .. Len(s) : s[i] = e
    <2> DEFINE I == {i \in 1 .. Len(s) : s[i] = e}
               R == OpToRel(<, Nat)
    <2>1. PICK n : n = Len(s) /\ n \in Nat
        OBVIOUS
    <2>2. I # {} /\ I \subseteq 1 .. n /\ I \subseteq Nat
        BY <1>2, <2>1
    <2>3. SelectInSeq(s, LAMBDA v : v = e) = Min(I)
        BY <2>2 DEF SelectInSeq
    <2>4. Min(I) \in I
        <3>1. IsWellFoundedOn(R, Nat)
            BY NatLessThanWellFounded
        <3>2. \A x, y \in Nat : x < y => <<x, y>> \in R
            BY DEF OpToRel
        <3> HIDE DEF R, I
        <3>3. PICK x \in I : \A y \in I : <<y, x>> \notin R
            BY <2>2, <3>1, WFMin
        <3>4. \A y \in I : x =< y
            <4> SUFFICES ASSUME NEW y \in I, ~(x =< y) PROVE FALSE
                OBVIOUS
            <4>1. x \in Nat /\ y \in Nat /\ y < x
                BY <2>2
            <4> QED
                BY <3>2, <3>3, <4>1
        <3> QED
            BY <3>4 DEF Min
    <2>5. PICK k : k = Min(I) /\ k \in 1 .. n /\ s[k] = e
        BY <2>1, <2>4
    <2> HIDE DEF I
    <2>6. RemoveFirst(s, e) = SubSeq(s, 1, k - 1) \o SubSeq(s, k + 1, n)
        BY <1>2, <2>1, <2>3, <2>5 DEF RemoveFirst, RemoveAt
    <2> DEFINE p == SubSeq(s, 1, k - 1)
               q == SubSeq(s, k + 1, n)
    <2>7. /\ p \in Seq(S) /\ q \in Seq(S)
          /\ DOMAIN p = 1 .. k - 1 /\ \A i \in 1 .. k - 1 : p[i] = s[i]
        BY <2>1, <2>5
    <2>8. DOMAIN q = 1 .. n - k /\ \A i \in 1 .. n - k : q[i] = s[k + i]
        BY <2>1, <2>5
    <2> HIDE DEF p, q
    <2>9. RemoveFirst(s, e) \in Seq(S) /\ ToSet(RemoveFirst(s, e)) = ToSet(p) \cup ToSet(q)
        <3>1. RemoveFirst(s, e) = p \o q
            BY <2>6 DEF p, q
        <3> QED
            BY <3>1, <2>7, Joined
    <2>10. ASSUME NEW i \in 1 .. n, i # k
          PROVE  s[i] \in ToSet(p) \cup ToSet(q)
        <3>1. CASE i < k
            <4>1. i \in 1 .. k - 1
                BY <2>1, <2>5, <3>1
            <4> QED
                BY <4>1, <2>7 DEF ToSet
        <3>2. CASE ~(i < k)
            <4>1. i - k \in 1 .. n - k /\ k + (i - k) = i
                BY <2>1, <2>5, <2>10, <3>2
            <4> QED
                BY <4>1, <2>8 DEF ToSet
        <3> QED
            BY <3>1, <3>2
    <2>11. ToSet(s) \ {e} \subseteq ToSet(p) \cup ToSet(q)
        BY <2>1, <2>5, <2>10 DEF ToSet
    <2> QED
        BY <2>9, <2>11
<1> QED
    BY <1>1, <1>2

(* A finite set put in a sequence. *)
LEMMA Listed ==
    ASSUME NEW S, IsFiniteSet(S)
    PROVE  SetToSeq(S) \in Seq(S) /\ ToSet(SetToSeq(S)) = S
<1>1. PICK n \in Nat : n = Cardinality(S) /\ ExistsBijection(1 .. n, S)
    BY FS_CardinalityType
<1>2. PICK g : g \in Bijection(1 .. n, S)
    BY <1>1 DEF ExistsBijection
<1>3. g \in [1 .. n -> S] /\ IsInjective(g)
    BY <1>2 DEF Bijection, Injection, Surjection, IsInjective
<1>4. PICK f : f = SetToSeq(S) /\ f \in [1 .. n -> S] /\ IsInjective(f)
    BY <1>1, <1>3 DEF SetToSeq
<1>5. f \in Injection(1 .. n, S)
    BY <1>4 DEF Injection, IsInjective
<1>6. Cardinality(1 .. n) = n
    BY FS_Interval
<1>7. f \in Surjection(1 .. n, S)
    BY <1>1, <1>5, <1>6, FS_Injection
<1>8. ToSet(f) = S
    BY <1>4, <1>7 DEF ToSet, Surjection
<1>9. f \in Seq(S)
    BY <1>4
<1> QED
    BY <1>4, <1>8, <1>9

-----------------------------------------------------------------------------
(* Where the texts are.  What waits on the device is of the account that   *)
(* is signed in, the batches and entries of an account are its own, and    *)
(* everything in them is encrypted; nothing waits when no one is signed in.*)

NoSwitch == "switch" \notin Intrusions

Own(a) == {t \in Texts : Owner[t] = a}
Posts(a) == [id : Own(a) \cup {Group}, key : Key \ {NoKey}, val : Nat]
Entries == [Ids -> [key : Key, val : Nat]]

FlushOK(f, a) ==
    /\ f \in [pc : {"idle", "retry", "post"}, left : Seq(SUBSET Posts(a)),
              items : SUBSET Posts(a), batch : Seq(Own(a))]
    /\ f.pc # "post" => f.batch = <<>>
    /\ f.pc = "idle" => f = Idle
    /\ ToSet(f.batch) \subseteq {e.id : e \in f.items}

WaitingOK == queue \in Seq(Own(user)) /\ writes \subseteq Posts(user) /\ FlushOK(flush, user)
BatchesOK == /\ batches = [a \in Accounts |-> batches[a]]
             /\ \A a \in Accounts : batches[a] \in Seq(SUBSET Posts(a))
BackupOK == /\ backup \in [Accounts -> Entries]
            /\ \A a \in Accounts : \A t \in Texts : backup[a][t] # NoEntry => Owner[t] = a
CacheOK == /\ cacheOf \in Who /\ texts \in [Accounts -> SUBSET Texts]
           /\ epoch \in [Accounts -> Nat]
HomeOK == batchesOf \in Who /\ (user # NoOne => batchesOf = user)
AwayOK == user = NoOne => Quiet /\ mbk = NoKey /\ queue = <<>>

TextInv == /\ KeyTypeInv /\ WaitingOK /\ BatchesOK /\ BackupOK /\ CacheOK
           /\ HomeOK /\ AwayOK /\ TextsAreKept

(* Where a text may be. *)
LEMMA InBatches ==
    ASSUME NEW s, NEW t
    PROVE  t \in UNION {{e.id : e \in b} : b \in ToSet(s)} <=>
               \E b \in ToSet(s) : \E e \in b : e.id = t
<1>1. ASSUME NEW b \in ToSet(s), NEW e \in b, e.id = t
      PROVE  t \in {x.id : x \in b}
    BY <1>1
<1> QED
    BY <1>1

LEMMA OnItsWayMeans ==
    \A a, t : t \in OnItsWay(a) <=>
        \/ t \in Ids /\ backup[a][t] # NoEntry
        \/ t \in ToSet(queue) \/ t \in ToSet(flush.batch)
        \/ \E b \in ToSet(batches[a]) : \E e \in b : e.id = t
        \/ \E e \in writes : e.id = t
<1> SUFFICES ASSUME NEW a, NEW t
             PROVE  t \in OnItsWay(a) <=>
                 \/ t \in Ids /\ backup[a][t] # NoEntry
                 \/ t \in ToSet(queue) \/ t \in ToSet(flush.batch)
                 \/ \E b \in ToSet(batches[a]) : \E e \in b : e.id = t
                 \/ \E e \in writes : e.id = t
    OBVIOUS
<1> DEFINE B == UNION {{e.id : e \in b} : b \in ToSet(batches[a])}
           W == {e.id : e \in writes}
           P == {id \in Ids : backup[a][id] # NoEntry}
<1>1. OnItsWay(a) = P \union ToSet(queue) \union ToSet(flush.batch) \union B \union W
    BY DEF OnItsWay, Present
<1>2. t \in B <=> \E b \in ToSet(batches[a]) : \E e \in b : e.id = t
    BY InBatches
<1>3. (t \in W <=> \E e \in writes : e.id = t) /\ (t \in P <=> t \in Ids /\ backup[a][t] # NoEntry)
    OBVIOUS
<1> HIDE DEF B, W, P
<1> QED
    BY <1>1, <1>2, <1>3

LEMMA OnItsWayMeansNext ==
    \A a, t : t \in OnItsWay(a)' <=>
        \/ t \in Ids /\ backup'[a][t] # NoEntry
        \/ t \in ToSet(queue') \/ t \in ToSet(flush'.batch)
        \/ \E b \in ToSet(batches'[a]) : \E e \in b : e.id = t
        \/ \E e \in writes' : e.id = t
<1> SUFFICES ASSUME NEW a, NEW t
             PROVE  t \in OnItsWay(a)' <=>
                 \/ t \in Ids /\ backup'[a][t] # NoEntry
                 \/ t \in ToSet(queue') \/ t \in ToSet(flush'.batch)
                 \/ \E b \in ToSet(batches'[a]) : \E e \in b : e.id = t
                 \/ \E e \in writes' : e.id = t
    OBVIOUS
<1> DEFINE B == UNION {{e.id : e \in b} : b \in ToSet(batches'[a])}
           W == {e.id : e \in writes'}
           P == {id \in Ids : backup'[a][id] # NoEntry}
<1>1. OnItsWay(a)' = P \union ToSet(queue') \union ToSet(flush'.batch) \union B \union W
    BY Zenon DEF OnItsWay, Present, ToSet
<1>2. t \in B <=> \E b \in ToSet(batches'[a]) : \E e \in b : e.id = t
    BY InBatches
<1>3. (t \in W <=> \E e \in writes' : e.id = t) /\ (t \in P <=> t \in Ids /\ backup'[a][t] # NoEntry)
    OBVIOUS
<1> HIDE DEF B, W, P
<1> QED
    BY <1>1, <1>2, <1>3

(* Texts stay kept when what was on its way still is, or is given up.      *)
LEMMA StillKept ==
    ASSUME TextsAreKept, CacheOK, texts' \in [Accounts -> SUBSET Texts],
           \A a \in Accounts : \A t \in Own(a) :
               /\ t \in OnItsWay(a) => t \in OnItsWay(a)' \/ t \in gaps'
               /\ t \in texts'[a] => t \in texts[a] \/ t \in OnItsWay(a)' \/ t \in gaps'
               /\ t \in gaps => t \in gaps' \/ t \in OnItsWay(a)'
    PROVE  TextsAreKept'
BY DEF TextsAreKept, CacheOK, Own

LEMMA TextInit == Init => TextInv
<1> SUFFICES ASSUME Init PROVE TextInv
    OBVIOUS
<1>1. WaitingOK
    BY Empty DEF Init, WaitingOK, FlushOK, Idle, Own, Posts
<1>2. BatchesOK
    BY Empty DEF Init, BatchesOK
<1>3. BackupOK /\ CacheOK
    BY KeyFacts DEF Init, BackupOK, CacheOK, Entries, NoEntry, Ids, Who
<1>4. HomeOK /\ AwayOK /\ TextsAreKept
    BY NothingDone DEF Init, HomeOK, AwayOK, Quiet, TextsAreKept, Who, Idle, NoBackfill
<1> QED
    BY <1>1, <1>2, <1>3, <1>4, KeyInit DEF TextInv

-----------------------------------------------------------------------------
(* What the server stores, what is saved and what a flush begins with. *)

LEMMA StoredEntries ==
    ASSUME NEW a \in Accounts, NEW entries \in Entries, NEW items, items \subseteq Posts(a)
    PROVE  /\ Stored(entries, items) \in Entries
           /\ \A id \in Ids : entries[id] # NoEntry => Stored(entries, items)[id] # NoEntry
           /\ \A e \in items : e.id \in Ids /\ Stored(entries, items)[e.id] # NoEntry
           /\ \A t \in Texts : Stored(entries, items)[t] # NoEntry =>
                                   entries[t] # NoEntry \/ Owner[t] = a
<1> DEFINE new(id) == CHOOSE x \in items : x.id = id
           s == Stored(entries, items)
<1>1. \A e \in items : e.id \in Ids /\ e.key \in Key \ {NoKey} /\ e.val \in Nat
    BY DEF Posts, Own, Ids
<1>2. \A id \in Ids : (\E e \in items : e.id = id) => new(id) \in items /\ new(id).id = id
    OBVIOUS
<1>3. \A id \in Ids : s[id] = IF \E e \in items : e.id = id
                              THEN [key |-> new(id).key, val |-> new(id).val]
                              ELSE entries[id]
    BY Zenon DEF Stored
<1> HIDE DEF new
<1>4. \A id \in Ids : (\E e \in items : e.id = id) =>
          s[id] \in [key : Key, val : Nat] /\ s[id] # NoEntry
    <2> SUFFICES ASSUME NEW id \in Ids, \E e \in items : e.id = id
                 PROVE  s[id] \in [key : Key, val : Nat] /\ s[id] # NoEntry
        OBVIOUS
    <2>1. PICK x : x = new(id) /\ x \in items
        BY <1>2
    <2>2. s[id] = [key |-> x.key, val |-> x.val]
        BY <1>3, <2>1
    <2>3. x.key \in Key \ {NoKey} /\ x.val \in Nat
        BY <1>1, <2>1
    <2> HIDE DEF s
    <2> QED
        BY <2>2, <2>3 DEF NoEntry
<1>5. s \in Entries
    <2>1. \A id \in Ids : s[id] \in [key : Key, val : Nat]
        BY <1>3, <1>4 DEF Entries
    <2>2. s = [id \in Ids |-> s[id]]
        BY DEF Stored
    <2> HIDE DEF s
    <2> QED
        BY <2>1, <2>2 DEF Entries
<1>6. \A t \in Texts : (\E e \in items : e.id = t) => Owner[t] = a
    BY TextsAssumption DEF Posts, Own
<1> HIDE DEF s
<1>7. \A e \in items : s[e.id] # NoEntry
    BY <1>1, <1>4
<1>8. \A t \in Texts : s[t] # NoEntry => entries[t] # NoEntry \/ Owner[t] = a
    BY <1>3, <1>6 DEF Ids
<1> QED
    BY <1>1, <1>3, <1>4, <1>5, <1>7, <1>8 DEF s

LEMMA PostedEntries ==
    ASSUME BackupOK, user \in Accounts, NEW items, items \subseteq Posts(user),
           backup' = [backup EXCEPT ![user] = Stored(@, items)]
    PROVE  /\ BackupOK'
           /\ \A a \in Accounts : \A id \in Ids :
                  backup[a][id] # NoEntry => backup'[a][id] # NoEntry
           /\ \A e \in items : e.id \in Ids /\ backup'[user][e.id] # NoEntry
<1>1. PICK s : s = Stored(backup[user], items)
    OBVIOUS
<1>2. /\ s \in Entries
      /\ \A id \in Ids : backup[user][id] # NoEntry => s[id] # NoEntry
      /\ \A e \in items : e.id \in Ids /\ s[e.id] # NoEntry
      /\ \A t \in Texts : s[t] # NoEntry => backup[user][t] # NoEntry \/ Owner[t] = user
    BY <1>1, StoredEntries DEF BackupOK
<1>3. /\ backup' = [backup EXCEPT ![user] = s]
      /\ \A a \in Accounts : backup'[a] = IF a = user THEN s ELSE backup[a]
    BY <1>1 DEF BackupOK
<1> QED
    BY <1>2, <1>3 DEF BackupOK

LEMMA Saved ==
    ASSUME BatchesOK, NEW a \in Accounts, NEW s \in Seq(SUBSET Posts(a)),
           batches' = [batches EXCEPT ![a] = s]
    PROVE  /\ BatchesOK'
           /\ \A c \in Accounts : batches'[c] = IF c = a THEN s ELSE batches[c]
<1>1. DOMAIN batches = Accounts /\ DOMAIN batches' = Accounts
    BY DEF BatchesOK
<1>2. \A c \in Accounts : batches'[c] = IF c = a THEN s ELSE batches[c]
    BY <1>1
<1>3. batches' = [c \in Accounts |-> batches'[c]]
    BY <1>1
<1> QED
    BY <1>2, <1>3 DEF BatchesOK

LEMMA IdleFlush == \A a : FlushOK(Idle, a) /\ Idle.batch = <<>> /\ Idle.pc = "idle"
BY Empty DEF FlushOK, Idle

LEMMA BegunFlush ==
    ASSUME NEW a, NEW s \in Seq(SUBSET Posts(a))
    PROVE  /\ FlushOK([Idle EXCEPT !.pc = "retry", !.left = s], a)
           /\ [Idle EXCEPT !.pc = "retry", !.left = s].batch = <<>>
<1>1. /\ Idle \in [pc : {"idle", "retry", "post"}, left : Seq(SUBSET Posts(a)),
                     items : SUBSET Posts(a), batch : Seq(Own(a))]
      /\ Idle.batch = <<>> /\ Idle.items = {}
    BY Empty DEF Idle
<1> QED
    BY <1>1, Empty DEF FlushOK

LEMMA FlushBegins ==
    ASSUME TextInv, user \in Accounts
    PROVE  FlushOK(FlushBegun, user) /\ FlushBegun.batch = <<>>
<1>1. CASE mbk = NoKey
    BY <1>1, IdleFlush DEF FlushBegun
<1>2. CASE mbk # NoKey
    <2>1. batches[batchesOf] \in Seq(SUBSET Posts(user))
        BY DEF TextInv, HomeOK, BatchesOK
    <2> QED
        BY <1>2, <2>1, BegunFlush DEF FlushBegun
<1> QED
    BY <1>1, <1>2

-----------------------------------------------------------------------------
(* Steps that leave what is backed up where it is. *)

LEMMA SameTexts ==
    ASSUME TextInv, UNCHANGED texts, gaps \subseteq gaps',
           \A a \in Accounts : \A t \in Own(a) :
               t \in OnItsWay(a) => t \in OnItsWay(a)' \/ t \in gaps'
    PROVE  TextsAreKept'
BY StillKept DEF TextInv, CacheOK

LEMMA Elsewhere ==
    ASSUME TextInv, KeyTypeInv', user \in Accounts,
           UNCHANGED <<user, queue, batchesOf, batches, writes, texts, epoch, backup, gaps>>,
           cacheOf' \in Who,
           FlushOK(flush', user), flush'.batch = flush.batch
    PROVE  TextInv'
<1>1. WaitingOK' /\ BatchesOK' /\ BackupOK' /\ HomeOK' /\ AwayOK'
    BY DEF TextInv, WaitingOK, BatchesOK, BackupOK, HomeOK, AwayOK
<1>2. CacheOK'
    BY DEF TextInv, CacheOK
<1>3. TextsAreKept'
    <2>1. \A a \in Accounts : \A t \in Own(a) : t \in OnItsWay(a) => t \in OnItsWay(a)'
        BY OnItsWayMeans, OnItsWayMeansNext
    <2> QED
        BY <2>1, SameTexts
<1> QED
    BY <1>1, <1>2, <1>3 DEF TextInv

LEMMA FlushUnchanged == TextInv => FlushOK(flush, user)
BY DEF TextInv, WaitingOK

LEMMA SignedIn ==
    ASSUME TextInv,
           mbk # NoKey \/ user # NoOne \/ ~Quiet \/ queue # <<>>
    PROVE  user \in Accounts /\ batchesOf = user
BY DEF TextInv, AwayOK, HomeOK, KeyTypeInv, DeviceOK, Who

LEMMA CalledFlush ==
    ASSUME TextInv, user \in Accounts, FlushCalled
    PROVE  FlushOK(flush', user) /\ flush'.batch = flush.batch
<1>1. CASE flush.pc = "idle"
    BY <1>1, FlushBegins DEF FlushCalled, TextInv, WaitingOK, FlushOK
<1>2. CASE flush.pc # "idle"
    BY <1>2, FlushUnchanged DEF FlushCalled
<1> QED
    BY <1>1, <1>2

LEMMA KeySteps ==
    ASSUME TextInv, KeyTypeInv',
           \/ \E r \in Answers : \/ SetupPin(r) \/ SetupRecovery(r) \/ Unlock(r)
                                 \/ ChangePin(r) \/ RotateMbk(r)
           \/ \E key : FetchBlob(key)
           \/ Adoption \/ RotationNoticed \/ StartRebuild
    PROVE  TextInv'
<1>1. user \in Accounts
    BY SignedIn DEF SetupPin, SetupRecovery, Unlock, ChangePin, RotateMbk, FetchBlob,
        Adoption, RotationAnswered, StoreKey, ImportKey, RotationNoticed, StartRebuild, Quiet
<1>2. UNCHANGED <<user, sending, cache, backup, gaps>>
        \/ (UNCHANGED <<user, queue, batchesOf, batches, writes, flush, cache, backup, gaps>>)
    BY DEF SetupPin, SetupRecovery, Unlock, ChangePin, RotateMbk, FetchBlob,
        Adoption, RotationAnswered, StoreKey, ImportKey, RotationNoticed, StartRebuild,
        device, sending, cache, server
<1> QED
    BY <1>1, <1>2, Elsewhere, FlushUnchanged DEF sending, cache, TextInv, CacheOK

LEMMA TaskFlushes ==
    ASSUME TextInv, KeyTypeInv',
           \/ TimerFlush \/ BackfillFlush \/ RebuildFlush \/ RebuildEnds
           \/ \E r \in Answers : FetchServerIds(r) \/ RebuildCount(r)
    PROVE  TextInv'
<1>1. user \in Accounts
    BY SignedIn DEF TimerFlush, BackfillFlush, RebuildFlush, RebuildEnds, FetchServerIds,
        RebuildCount, Quiet
<1>2. UNCHANGED <<user, queue, batchesOf, batches, writes, texts, epoch, backup, gaps>>
    BY DEF TimerFlush, BackfillFlush, RebuildFlush, RebuildEnds, FetchServerIds, RebuildCount,
        device, sending, cache, server
<1>3. cacheOf' \in Who
    <2>1. cacheOf' = cacheOf \/ CacheReady
        BY DEF TimerFlush, BackfillFlush, RebuildFlush, RebuildEnds, FetchServerIds, RebuildCount,
            cache
    <2> QED
        BY <1>1, <2>1 DEF CacheReady, TextInv, CacheOK, Who
<1>4. FlushOK(flush', user) /\ flush'.batch = flush.batch
    <2>1. CASE flush' = flush
        BY <2>1, FlushUnchanged
    <2>2. CASE FlushCalled
        BY <1>1, <2>2, CalledFlush
    <2>3. CASE TimerFlush
        BY <1>1, <2>3, CalledFlush DEF TimerFlush, FlushCalled
    <2> QED
        BY <2>1, <2>2, <2>3 DEF BackfillFlush, RebuildFlush, RebuildEnds, FetchServerIds,
            RebuildCount, sending
<1> QED
    BY <1>1, <1>2, <1>3, <1>4, Elsewhere

-----------------------------------------------------------------------------
(* The steps of the flush: a text goes from the queue to the flush and     *)
(* from there to the server, a batch or the queue again.                   *)

LEMMA RetryKeeps ==
    ASSUME TextInv, KeyTypeInv', NEW r \in Answers, RetryBatch(r)
    PROVE  TextInv'
<1>1. user \in Accounts /\ batchesOf = user /\ flush.pc = "retry" /\ flush.left # <<>>
    BY SignedIn DEF RetryBatch, Quiet
<1>2. /\ UNCHANGED <<user, queue, batchesOf, writes, texts, cacheOf, epoch, gaps>>
      /\ flush.batch = <<>> /\ flush.left \in Seq(SUBSET Posts(user))
    BY <1>1 DEF RetryBatch, device, cache, TextInv, WaitingOK, FlushOK
<1>3. PICK batch : batch = Head(flush.left) /\ batch \subseteq Posts(user)
                   /\ Tail(flush.left) \in Seq(SUBSET Posts(user))
    <2>1. /\ Head(flush.left) \in SUBSET Posts(user)
          /\ Tail(flush.left) \in Seq(SUBSET Posts(user))
        BY <1>1, <1>2, Taken
    <2> QED
        BY <2>1
<1>4. /\ BackupOK'
      /\ \A a \in Accounts : \A id \in Ids : backup[a][id] # NoEntry => backup'[a][id] # NoEntry
      /\ r = "ok" => \A e \in batch : e.id \in Ids /\ backup'[user][e.id] # NoEntry
    <2>1. CASE Reaches(r)
        <3>1. backup' = [backup EXCEPT ![user] = Stored(@, batch)]
            BY <1>3, <2>1 DEF RetryBatch
        <3> QED
            BY <1>1, <1>3, <3>1, PostedEntries DEF TextInv
    <2>2. CASE ~Reaches(r)
        BY <2>2 DEF RetryBatch, Reaches, TextInv, BackupOK
    <2> QED
        BY <2>1, <2>2
<1>5. /\ BatchesOK'
      /\ \A a \in Accounts : \A b \in ToSet(batches[a]) :
             b \in ToSet(batches'[a]) \/ (r = "ok" /\ a = user /\ b = batch)
    <2>1. CASE r = "ok"
        <3>1. PICK s : s = RemoveFirst(batches[user], batch)
            OBVIOUS
        <3>2. s \in Seq(SUBSET Posts(user)) /\ ToSet(batches[user]) \ {batch} \subseteq ToSet(s)
            BY <1>1, <3>1, Removed DEF TextInv, BatchesOK
        <3>3. batches' = [batches EXCEPT ![user] = s]
            BY <1>1, <1>3, <2>1, <3>1 DEF RetryBatch
        <3>4. /\ BatchesOK'
              /\ \A c \in Accounts : batches'[c] = IF c = user THEN s ELSE batches[c]
            BY <1>1, <3>2, <3>3, Saved DEF TextInv
        <3> QED
            BY <2>1, <3>2, <3>4
    <2>2. CASE r # "ok"
        BY <2>2 DEF RetryBatch, TextInv, BatchesOK
    <2> QED
        BY <2>1, <2>2
<1>6. FlushOK(flush', user) /\ flush'.batch = <<>>
    <2>1. CASE flush' = Idle
        BY <2>1, IdleFlush
    <2>2. CASE flush' = [flush EXCEPT !.left = Tail(@)]
        BY <1>1, <1>2, <1>3, <2>2 DEF TextInv, WaitingOK, FlushOK
    <2> QED
        BY <2>1, <2>2 DEF RetryBatch, FlushEnds
<1>7. WaitingOK' /\ CacheOK' /\ HomeOK' /\ AwayOK'
    BY <1>1, <1>2, <1>6 DEF TextInv, WaitingOK, CacheOK, HomeOK, AwayOK
<1>8. TextsAreKept'
    <2>1. ASSUME NEW a \in Accounts, NEW t \in Own(a), t \in OnItsWay(a)
          PROVE  t \in OnItsWay(a)'
        <3>1. CASE \E b \in ToSet(batches[a]) : \E e \in b : e.id = t
            <4>1. PICK b \in ToSet(batches[a]) : \E e \in b : e.id = t
                BY <3>1
            <4>2. CASE b \in ToSet(batches'[a])
                BY <4>1, <4>2, OnItsWayMeansNext
            <4>3. CASE r = "ok" /\ a = user /\ b = batch
                BY <1>4, <4>1, <4>3, OnItsWayMeansNext
            <4> QED
                BY <1>5, <4>2, <4>3
        <3>2. CASE ~ \E b \in ToSet(batches[a]) : \E e \in b : e.id = t
            BY <1>2, <1>4, <1>6, <2>1, <3>2, OnItsWayMeans, OnItsWayMeansNext
        <3> QED
            BY <3>1, <3>2
    <2> QED
        BY <1>2, <2>1, SameTexts
<1> QED
    BY <1>4, <1>5, <1>7, <1>8 DEF TextInv

LEMMA TakeKeeps ==
    ASSUME TextInv, KeyTypeInv', TakeQueue
    PROVE  TextInv'
<1>1. user \in Accounts /\ flush.pc = "retry" /\ flush.batch = <<>>
    BY SignedIn DEF TakeQueue, Quiet, TextInv, WaitingOK, FlushOK
<1>2. UNCHANGED <<user, batchesOf, batches, writes, texts, cacheOf, epoch, backup, gaps>>
    BY DEF TakeQueue, device, cache, server
<1>3. CASE queue' = queue /\ flush' = Idle
    BY <1>1, <1>2, <1>3, IdleFlush, Elsewhere DEF TextInv, CacheOK
<1>4. CASE /\ mbk # NoKey /\ queue' = <<>>
           /\ flush' = [flush EXCEPT !.pc = "post", !.batch = queue,
                                     !.items = EncryptedTexts(queue, mbk)]
    <2>1. PICK items : items = EncryptedTexts(queue, mbk)
        OBVIOUS
    <2>2. queue \in Seq(Own(user)) /\ ToSet(queue) \subseteq Own(user)
        BY Members DEF TextInv, WaitingOK
    <2>3. items = {Encrypted(t, 0, mbk) : t \in ToSet(queue)}
        BY <2>1 DEF EncryptedTexts, ToSet
    <2>4. items \subseteq Posts(user)
        BY <1>4, <2>2, <2>3 DEF Posts, Encrypted, TextInv, KeyTypeInv, DeviceOK
    <2>5. ToSet(queue) \subseteq {e.id : e \in items}
        <3> SUFFICES ASSUME NEW t \in ToSet(queue) PROVE t \in {e.id : e \in items}
            OBVIOUS
        <3>1. Encrypted(t, 0, mbk) \in items /\ Encrypted(t, 0, mbk).id = t
            BY <2>3 DEF Encrypted
        <3> QED
            BY <3>1
    <2>6. flush'.batch = queue /\ FlushOK(flush', user)
        BY <1>4, <2>1, <2>2, <2>4, <2>5 DEF TextInv, WaitingOK, FlushOK
    <2>7. WaitingOK' /\ CacheOK' /\ HomeOK' /\ AwayOK' /\ BatchesOK' /\ BackupOK'
        BY <1>1, <1>2, <1>4, <2>6, Empty DEF TextInv, WaitingOK, CacheOK, HomeOK, AwayOK,
            BatchesOK, BackupOK
    <2>8. \A a \in Accounts : \A t \in Own(a) : t \in OnItsWay(a) => t \in OnItsWay(a)'
        BY <1>1, <1>2, <2>6, Empty, OnItsWayMeans, OnItsWayMeansNext
    <2> QED
        BY <1>2, <2>7, <2>8, SameTexts DEF TextInv
<1> QED
    BY <1>3, <1>4 DEF TakeQueue, FlushEnds

LEMMA PostKeeps ==
    ASSUME TextInv, KeyTypeInv', NEW r \in Answers, PostQueue(r)
    PROVE  TextInv'
<1>1. user \in Accounts /\ batchesOf = user /\ flush.pc = "post"
    BY SignedIn DEF PostQueue, Quiet
<1>2. /\ UNCHANGED <<user, batchesOf, writes, texts, cacheOf, epoch, gaps>>
      /\ flush.items \subseteq Posts(user) /\ flush.batch \in Seq(Own(user))
      /\ \A t \in ToSet(flush.batch) : \E e \in flush.items : e.id = t
      /\ queue \in Seq(Own(user))
    BY DEF PostQueue, device, cache, TextInv, WaitingOK, FlushOK
<1>3. /\ BackupOK'
      /\ \A a \in Accounts : \A id \in Ids : backup[a][id] # NoEntry => backup'[a][id] # NoEntry
      /\ r = "ok" => \A e \in flush.items : e.id \in Ids /\ backup'[user][e.id] # NoEntry
    <2>1. CASE Reaches(r)
        <3>1. backup' = [backup EXCEPT ![user] = Stored(@, flush.items)]
            BY <2>1 DEF PostQueue
        <3> QED
            BY <1>1, <1>2, <3>1, PostedEntries DEF TextInv
    <2>2. CASE ~Reaches(r)
        BY <2>2 DEF PostQueue, Reaches, TextInv, BackupOK
    <2> QED
        BY <2>1, <2>2
<1>4. /\ FlushOK(flush', user) /\ flush'.batch = <<>>
    <2>1. CASE flush' = Idle
        BY <2>1, IdleFlush
    <2>2. CASE flush' = [Idle EXCEPT !.pc = "retry"]
        BY <2>2, IdleFlush DEF FlushOK
    <2> QED
        BY <2>1, <2>2 DEF PostQueue, FlushEnds
<1>5. CASE r \in {"network", "lost"}
    <2>1. queue' = flush.batch \o queue /\ batches' = batches
        BY <1>5 DEF PostQueue, Requeued
    <2>2. queue' \in Seq(Own(user)) /\ ToSet(queue') = ToSet(flush.batch) \cup ToSet(queue)
        BY <1>2, <2>1, Joined
    <2>3. WaitingOK' /\ CacheOK' /\ HomeOK' /\ AwayOK' /\ BatchesOK'
        BY <1>1, <1>2, <1>4, <2>1, <2>2 DEF TextInv, WaitingOK, CacheOK, HomeOK, AwayOK, BatchesOK
    <2>4. \A a \in Accounts : \A t \in Own(a) : t \in OnItsWay(a) => t \in OnItsWay(a)'
        BY <1>2, <1>3, <2>1, <2>2, OnItsWayMeans, OnItsWayMeansNext
    <2> QED
        BY <1>2, <1>3, <2>3, <2>4, SameTexts DEF TextInv
<1>6. CASE r \notin {"network", "lost"}
    <2>1. queue' = queue
        BY <1>6 DEF PostQueue
    <2>2. /\ BatchesOK' /\ \A a \in Accounts : ToSet(batches[a]) \subseteq ToSet(batches'[a])
          /\ r # "ok" => flush.items \in ToSet(batches'[user])
        <3>1. CASE r = "ok"
            BY <1>6, <3>1 DEF PostQueue, TextInv, BatchesOK
        <3>2. CASE r # "ok"
            <4>1. PICK s : s = Append(batches[user], flush.items)
                OBVIOUS
            <4>2. /\ s \in Seq(SUBSET Posts(user))
                  /\ ToSet(s) = ToSet(batches[user]) \cup {flush.items}
                <5>1. batches[user] \in Seq(SUBSET Posts(user))
                    BY <1>1 DEF TextInv, BatchesOK
                <5>2. flush.items \in SUBSET Posts(user)
                    BY <1>2
                <5> QED
                    BY <4>1, <5>1, <5>2, Appended
            <4>3. batches' = [batches EXCEPT ![user] = s]
                BY <1>1, <1>6, <3>2, <4>1 DEF PostQueue
            <4>4. /\ BatchesOK'
                  /\ \A c \in Accounts : batches'[c] = IF c = user THEN s ELSE batches[c]
                BY <1>1, <4>2, <4>3, Saved DEF TextInv
            <4> QED
                BY <1>1, <4>2, <4>4
        <3> QED
            BY <3>1, <3>2
    <2>3. WaitingOK' /\ CacheOK' /\ HomeOK' /\ AwayOK'
        BY <1>1, <1>2, <1>4, <2>1 DEF TextInv, WaitingOK, CacheOK, HomeOK, AwayOK
    <2>4. ASSUME NEW a \in Accounts, NEW t \in Own(a), t \in OnItsWay(a)
          PROVE  t \in OnItsWay(a)'
        <3>1. CASE t \in ToSet(flush.batch)
            <4>1. a = user
                BY <1>2, <3>1, Members DEF Own
            <4>2. PICK e \in flush.items : e.id = t
                BY <1>2, <3>1
            <4> QED
                BY <1>1, <1>3, <2>2, <4>1, <4>2, OnItsWayMeansNext
        <3>2. CASE t \notin ToSet(flush.batch)
            <4>1. CASE \E b \in ToSet(batches[a]) : \E e \in b : e.id = t
                BY <2>2, <4>1, OnItsWayMeansNext
            <4>2. CASE ~ \E b \in ToSet(batches[a]) : \E e \in b : e.id = t
                BY <1>2, <1>3, <2>1, <2>4, <3>2, <4>2, OnItsWayMeans, OnItsWayMeansNext
            <4> QED
                BY <4>1, <4>2
        <3> QED
            BY <3>1, <3>2
    <2> QED
        BY <1>2, <1>3, <2>2, <2>3, <2>4, SameTexts DEF TextInv
<1> QED
    BY <1>5, <1>6

-----------------------------------------------------------------------------
(* Live items, restores and the uploads of a task: a text comes into the   *)
(* cache with a write or from the server, and goes to the queue.           *)

LEMMA WrittenItem ==
    ASSUME TextInv, user \in Accounts, NEW id \in Own(user) \cup {Group}, NEW val \in Nat,
           DurablyWritten(id, val)
    PROVE  /\ writes' \subseteq Posts(user) /\ writes \subseteq writes'
           /\ ~Dropped => \E e \in writes' : e.id = id
<1>1. ~Dropped => /\ Encrypted(id, val, mbk) \in Posts(user)
                  /\ Encrypted(id, val, mbk).id = id
    BY DEF Dropped, Encrypted, Posts, TextInv, KeyTypeInv, DeviceOK
<1> QED
    BY <1>1 DEF DurablyWritten, TextInv, WaitingOK

LEMMA LiveItemKeeps ==
    ASSUME TextInv, KeyTypeInv', (\E t \in Texts : NewText(t)) \/ BackupGroupState
    PROVE  TextInv'
<1>1. user \in Accounts
    BY SignedIn DEF NewText, BackupGroupState
<1>2. /\ UNCHANGED <<user, queue, batchesOf, batches, flush, backup>>
      /\ writes' \subseteq Posts(user) /\ writes \subseteq writes'
    <2>1. ASSUME NEW t \in Texts, NewText(t)
          PROVE  writes' \subseteq Posts(user) /\ writes \subseteq writes'
        <3>1. t \in Own(user) /\ DurablyWritten(t, 0)
            BY <2>1 DEF NewText, Own
        <3> QED
            BY <1>1, <3>1, WrittenItem
    <2>2. ASSUME BackupGroupState
          PROVE  writes' \subseteq Posts(user) /\ writes \subseteq writes'
        <3>1. PICK val \in Nat : DurablyWritten(Group, val)
            BY <1>1, <2>2 DEF BackupGroupState, TextInv, CacheOK
        <3> QED
            BY <1>1, <3>1, WrittenItem
    <2> QED
        BY <2>1, <2>2 DEF NewText, BackupGroupState, device, server
<1>3. WaitingOK' /\ BatchesOK' /\ BackupOK' /\ HomeOK' /\ AwayOK'
    BY <1>1, <1>2 DEF TextInv, WaitingOK, BatchesOK, BackupOK, HomeOK, AwayOK
<1>4. \A a \in Accounts : \A t \in Own(a) : t \in OnItsWay(a) => t \in OnItsWay(a)'
    BY <1>2, OnItsWayMeans, OnItsWayMeansNext
<1>5. CASE BackupGroupState
    <2>1. CacheOK' /\ UNCHANGED <<texts, gaps>>
        BY <1>1, <1>5 DEF BackupGroupState, TextInv, CacheOK
    <2> QED
        BY <1>3, <1>4, <2>1, SameTexts DEF TextInv
<1>6. ASSUME NEW t \in Texts, NewText(t)
      PROVE  TextInv'
    <2>1. /\ t \in Own(user) /\ DurablyWritten(t, 0) /\ cacheOf' = user /\ UNCHANGED epoch
          /\ texts' = [texts EXCEPT ![user] = @ \cup {t}]
          /\ gaps' = IF Dropped THEN gaps \cup {t} ELSE gaps
        BY <1>6 DEF NewText, Own
    <2>2. CacheOK'
        BY <1>1, <2>1 DEF TextInv, CacheOK, Who
    <2>3. \A a \in Accounts : a = user => t \in OnItsWay(a)' \/ t \in gaps'
        <3>1. CASE Dropped
            BY <2>1, <3>1
        <3>2. CASE ~Dropped
            BY <1>1, <2>1, <3>2, WrittenItem, OnItsWayMeansNext
        <3> QED
            BY <3>1, <3>2
    <2>4. \A a \in Accounts : \A x \in Own(a) :
              x \in texts'[a] => x \in texts[a] \/ x \in OnItsWay(a)' \/ x \in gaps'
        <3>1. \A a \in Accounts : \A x \in texts'[a] : x \in texts[a] \/ (a = user /\ x = t)
            BY <1>1, <2>1 DEF TextInv, CacheOK
        <3> QED
            BY <2>3, <3>1
    <2>5. TextsAreKept'
        BY <1>4, <2>1, <2>2, <2>4, StillKept DEF TextInv, CacheOK
    <2> QED
        BY <1>3, <2>2, <2>5 DEF TextInv
<1> QED
    BY <1>5, <1>6

LEMMA SaveKeeps ==
    ASSUME TextInv, KeyTypeInv', NEW e \in writes, SaveWrite(e)
    PROVE  TextInv'
<1>1. user \in Accounts /\ batchesOf = user
    BY SignedIn DEF Quiet
<1>2. /\ UNCHANGED <<user, queue, batchesOf, texts, cacheOf, epoch, backup, gaps>>
      /\ writes' = writes \ {e} /\ e \in Posts(user)
    BY DEF SaveWrite, device, cache, server, TextInv, WaitingOK
<1>3. PICK s : s = Append(batches[user], {e})
    OBVIOUS
<1>4. s \in Seq(SUBSET Posts(user)) /\ ToSet(s) = ToSet(batches[user]) \cup {{e}}
    <2>1. PICK w \in SUBSET Posts(user) : w = {e}
        BY <1>2
    <2>2. batches[user] \in Seq(SUBSET Posts(user))
        BY <1>1 DEF TextInv, BatchesOK
    <2>3. /\ Append(batches[user], w) \in Seq(SUBSET Posts(user))
          /\ ToSet(Append(batches[user], w)) = ToSet(batches[user]) \cup {w}
        BY <2>2, Appended
    <2> QED
        BY <1>3, <2>1, <2>3
<1>5. BatchesOK' /\ \A a \in Accounts : batches'[a] = IF a = user THEN s ELSE batches[a]
    <2>1. batches' = [batches EXCEPT ![user] = s]
        BY <1>1, <1>3 DEF SaveWrite
    <2> QED
        BY <1>1, <1>4, <2>1, Saved DEF TextInv
<1>6. FlushOK(flush', user) /\ flush'.batch = flush.batch
    <2>1. CASE flush' = flush
        BY <2>1, FlushUnchanged
    <2>2. CASE flush.pc = "idle" /\ flush' = [Idle EXCEPT !.pc = "retry", !.left = s]
        BY <1>4, <2>2, BegunFlush DEF TextInv, WaitingOK, FlushOK
    <2> QED
        BY <1>1, <1>5, <2>1, <2>2 DEF SaveWrite
<1>7. WaitingOK' /\ CacheOK' /\ HomeOK' /\ AwayOK' /\ BackupOK'
    BY <1>1, <1>2, <1>6 DEF TextInv, WaitingOK, CacheOK, HomeOK, AwayOK, BackupOK
<1>8. ASSUME NEW a \in Accounts, NEW t \in Own(a), t \in OnItsWay(a)
      PROVE  t \in OnItsWay(a)'
    <2>1. CASE e.id = t
        <3>1. a = user
            BY <1>2, <2>1, TextsAssumption DEF Posts, Own
        <3>2. {e} \in ToSet(batches'[a]) /\ e \in {e}
            BY <1>4, <1>5, <3>1
        <3> QED
            BY <2>1, <3>2, OnItsWayMeansNext
    <2>2. CASE \E b \in ToSet(batches[a]) : \E x \in b : x.id = t
        <3>1. ToSet(batches[a]) \subseteq ToSet(batches'[a])
            BY <1>4, <1>5
        <3> QED
            BY <2>2, <3>1, OnItsWayMeansNext
    <2>3. CASE e.id # t /\ ~ \E b \in ToSet(batches[a]) : \E x \in b : x.id = t
        BY <1>2, <1>6, <1>8, <2>3, OnItsWayMeans, OnItsWayMeansNext
    <2> QED
        BY <2>1, <2>2, <2>3
<1> QED
    BY <1>2, <1>5, <1>7, <1>8, SameTexts DEF TextInv

LEMMA RestoredKeeps ==
    ASSUME TextInv, KeyTypeInv', user \in Accounts, Restored,
           UNCHANGED <<user, queue, batchesOf, batches, writes, flush, epoch, backup, gaps>>
    PROVE  TextInv'
<1>1. WaitingOK' /\ BatchesOK' /\ BackupOK' /\ HomeOK' /\ AwayOK'
    BY DEF TextInv, WaitingOK, BatchesOK, BackupOK, HomeOK, AwayOK
<1>2. cacheOf' \in Accounts
    BY DEF Restored, CacheReady, TextInv, CacheOK, Who
<1>3. PICK got : got = {t \in Texts : mbk # NoKey /\ backup[user][t].key = mbk}
    OBVIOUS
<1>4. texts' = [texts EXCEPT ![cacheOf'] = @ \cup got]
    BY <1>3 DEF Restored
<1>5. CacheOK'
    BY <1>2, <1>3, <1>4 DEF TextInv, CacheOK, Who
<1>6. \A a \in Accounts : \A t \in Own(a) : t \in OnItsWay(a) => t \in OnItsWay(a)'
    BY OnItsWayMeans, OnItsWayMeansNext
<1>7. \A t \in got : Owner[t] = user /\ t \in OnItsWay(user)'
    <2>1. \A t \in got : backup[user][t] # NoEntry /\ t \in Ids
        BY <1>3 DEF NoEntry, Ids
    <2>2. \A t \in got : Owner[t] = user
        BY <1>3, <2>1 DEF TextInv, BackupOK
    <2> QED
        BY <2>1, <2>2, OnItsWayMeansNext
<1>8. \A a \in Accounts : \A t \in Own(a) :
          t \in texts'[a] => t \in texts[a] \/ t \in OnItsWay(a)' \/ t \in gaps'
    BY <1>4, <1>7 DEF Own, TextInv, CacheOK
<1>9. TextsAreKept'
    BY <1>5, <1>6, <1>8, StillKept DEF TextInv, CacheOK
<1> QED
    BY <1>1, <1>5, <1>9 DEF TextInv

LEMMA UploadKeeps ==
    ASSUME TextInv, KeyTypeInv', user \in Accounts, NEW have, LocalUpload(have),
           UNCHANGED <<user, batchesOf, batches, writes, flush, cache, backup>>
    PROVE  TextInv'
<1> USE DEF cache
<1>1. Unsent(have) \subseteq Own(user) /\ IsFiniteSet(Unsent(have))
    <2>1. Unsent(have) \subseteq Texts
        BY DEF Unsent, Cached, TextInv, CacheOK, Who
    <2> QED
        BY <2>1, TextsAssumption, FS_Subset DEF Unsent, Own
<1>2. PICK s : s = SetToSeq(Unsent(have))
    OBVIOUS
<1>3. s \in Seq(Unsent(have)) /\ ToSet(s) = Unsent(have)
    BY <1>1, <1>2, Listed
<1>4. s \in Seq(Own(user)) /\ queue \in Seq(Own(user))
    BY <1>1, <1>3 DEF TextInv, WaitingOK
<1>5. CASE UNCHANGED <<queue, gaps>>
    BY <1>5, Elsewhere, FlushUnchanged DEF TextInv, CacheOK
<1>6. CASE queue' = queue \o s /\ gaps' = gaps \ Unsent(have)
    <2>1. queue' \in Seq(Own(user)) /\ ToSet(queue') = ToSet(queue) \cup Unsent(have)
        BY <1>3, <1>4, <1>6, Joined
    <2>2. WaitingOK' /\ BatchesOK' /\ BackupOK' /\ HomeOK' /\ AwayOK' /\ CacheOK'
        BY <2>1 DEF TextInv, WaitingOK, BatchesOK, BackupOK, HomeOK, AwayOK, CacheOK
    <2>3. \A a \in Accounts : \A t \in Own(a) :
              /\ t \in OnItsWay(a) => t \in OnItsWay(a)'
              /\ t \in gaps => t \in gaps' \/ t \in OnItsWay(a)'
        BY <1>6, <2>1, OnItsWayMeans, OnItsWayMeansNext
    <2>4. TextsAreKept'
        BY <2>3, StillKept DEF TextInv, CacheOK
    <2> QED
        BY <2>2, <2>4 DEF TextInv
<1> QED
    BY <1>2, <1>5, <1>6 DEF LocalUpload

LEMMA TaskKeeps ==
    ASSUME TextInv, KeyTypeInv',
           \/ Restore \/ \E r \in Answers : BackfillCheck(r)
           \/ \E r \in Answers : BackfillUpload(r) \/ RebuildUpload(r)
    PROVE  TextInv'
<1>1. user \in Accounts
    BY SignedIn DEF Restore, BackfillCheck, BackfillUpload, RebuildUpload, Quiet
<1>2. UNCHANGED <<user, batchesOf, batches, writes, flush, epoch, backup>>
    BY DEF Restore, BackfillCheck, BackfillUpload, RebuildUpload, device, sending, cache, server
<1>3. CASE Restore \/ \E r \in Answers : BackfillCheck(r)
    <2>1. UNCHANGED <<queue, gaps>> /\ (Restored \/ UNCHANGED <<cacheOf, texts>>)
        BY <1>3 DEF Restore, BackfillCheck, sending
    <2>2. CASE Restored
        BY <1>1, <1>2, <2>1, <2>2, RestoredKeeps
    <2>3. CASE UNCHANGED <<cacheOf, texts>>
        BY <1>1, <1>2, <2>1, <2>3, Elsewhere, FlushUnchanged DEF TextInv, CacheOK
    <2> QED
        BY <2>1, <2>2, <2>3
<1>4. CASE \E r \in Answers : BackfillUpload(r) \/ RebuildUpload(r)
    <2>1. UNCHANGED cache /\ (UNCHANGED <<queue, gaps>> \/ \E have : LocalUpload(have))
        BY <1>4 DEF BackfillUpload, RebuildUpload
    <2>2. CASE UNCHANGED <<queue, gaps>>
        BY <1>1, <1>2, <2>1, <2>2, Elsewhere, FlushUnchanged DEF cache, TextInv, CacheOK
    <2>3. CASE \E have : LocalUpload(have)
        BY <1>1, <1>2, <2>1, <2>3, UploadKeeps
    <2> QED
        BY <2>1, <2>2, <2>3
<1> QED
    BY <1>3, <1>4

-----------------------------------------------------------------------------
(* What is given up: by a rebuild, by the rotation of another device, when *)
(* an account is left and when the app is killed.                          *)

LEMMA RebuildKeeps ==
    ASSUME TextInv, KeyTypeInv', RebuildClear \/ \E r \in Answers : DeleteData(r)
    PROVE  TextInv'
<1>1. user \in Accounts
    BY SignedIn DEF RebuildClear, DeleteData, Quiet
<1>2. UNCHANGED <<user, batchesOf, batches, writes, flush, texts, cacheOf, epoch>>
    BY DEF RebuildClear, DeleteData, device, cache
<1>3. BatchesOK' /\ HomeOK' /\ AwayOK' /\ CacheOK'
    BY <1>1, <1>2 DEF TextInv, BatchesOK, HomeOK, AwayOK, CacheOK
<1>4. CASE RebuildClear
    <2>1. queue' = <<>> /\ gaps' = gaps \cup ToSet(queue) /\ UNCHANGED backup
        BY <1>4 DEF RebuildClear, server
    <2>2. WaitingOK' /\ BackupOK'
        BY <1>2, <2>1, Empty DEF TextInv, WaitingOK, BackupOK
    <2>3. \A a \in Accounts : \A t \in Own(a) :
              t \in OnItsWay(a) => t \in OnItsWay(a)' \/ t \in gaps'
        BY <1>2, <2>1, OnItsWayMeans, OnItsWayMeansNext
    <2> QED
        BY <1>2, <1>3, <2>1, <2>2, <2>3, SameTexts DEF TextInv
<1>5. ASSUME NEW r \in Answers, DeleteData(r)
      PROVE  TextInv'
    <2>1. CASE UNCHANGED <<backup, gaps>>
        BY <1>1, <1>2, <1>5, <2>1, Elsewhere, FlushUnchanged DEF DeleteData, TextInv, CacheOK
    <2>2. CASE /\ backup' = [backup EXCEPT ![user] = [id \in Ids |-> NoEntry]]
               /\ gaps' = gaps \cup {t \in Texts : Owner[t] = user}
        <3>1. [id \in Ids |-> NoEntry] \in Entries
            BY KeyFacts DEF Entries, NoEntry
        <3>2. \A a \in Accounts :
                  backup'[a] = IF a = user THEN [id \in Ids |-> NoEntry] ELSE backup[a]
            BY <2>2 DEF TextInv, BackupOK
        <3>3. BackupOK'
            BY <2>2, <3>1, <3>2 DEF TextInv, BackupOK, Ids
        <3>4. WaitingOK' /\ UNCHANGED queue
            BY <1>2, <1>5 DEF DeleteData, TextInv, WaitingOK
        <3>5. \A a \in Accounts : \A t \in Own(a) :
                  t \in OnItsWay(a) => t \in OnItsWay(a)' \/ t \in gaps'
            BY <1>2, <2>2, <3>2, <3>4, OnItsWayMeans, OnItsWayMeansNext DEF Own
        <3> QED
            BY <1>2, <1>3, <2>2, <3>3, <3>4, <3>5, SameTexts DEF TextInv
    <2> QED
        BY <1>5, <2>1, <2>2 DEF DeleteData
<1> QED
    BY <1>4, <1>5

LEMMA RemoteKeeps ==
    ASSUME TextInv, KeyTypeInv', NEW a \in Accounts, NEW has \in SUBSET Present(a),
           RemoteRotates(a, has)
    PROVE  TextInv'
<1>1. UNCHANGED <<device, sending, tasks, keying, cache>>
    BY DEF RemoteRotates
<1>2. WaitingOK' /\ BatchesOK' /\ HomeOK' /\ AwayOK' /\ CacheOK'
    BY <1>1 DEF device, sending, tasks, cache, TextInv, WaitingOK, BatchesOK, HomeOK,
        AwayOK, Quiet, CacheOK
<1>3. PICK key : key = [of |-> a, gen |-> blob[a].gen + 1]
    OBVIOUS
<1>4. key \in Key /\ key # NoKey
    BY <1>3 DEF NoKey, Key, Who, TextInv, KeyTypeInv, BlobOK, Blob
<1>5. PICK s : s = [id \in Ids |-> IF id \in has THEN [backup[a][id] EXCEPT !.key = key]
                                   ELSE NoEntry]
    OBVIOUS
<1>6. backup' = [backup EXCEPT ![a] = s]
    BY <1>3, <1>5 DEF RemoteRotates
<1>7. \A id \in Ids : /\ s[id] \in [key : Key, val : Nat]
                      /\ id \in has => s[id] # NoEntry
                      /\ id \notin has => s[id] = NoEntry
    <2>1. backup[a] \in Entries
        BY DEF TextInv, BackupOK
    <2> QED
        BY <1>4, <1>5, <2>1, KeyFacts DEF Entries, NoEntry
<1>8. \A c \in Accounts : backup'[c] = IF c = a THEN s ELSE backup[c]
    BY <1>6 DEF TextInv, BackupOK
<1>9. BackupOK'
    <2>1. s \in Entries
        BY <1>5, <1>7 DEF Entries
    <2>2. \A t \in Texts : s[t] # NoEntry => Owner[t] = a
        BY <1>7 DEF TextInv, BackupOK, Present, Ids
    <2> QED
        BY <1>6, <1>8, <2>1, <2>2 DEF TextInv, BackupOK
<1>10. ASSUME NEW c \in Accounts, NEW t \in Own(c), t \in OnItsWay(c)
       PROVE  t \in OnItsWay(c)' \/ t \in gaps'
    <2>1. gaps' = gaps \cup {x \in Texts : Owner[x] = a /\ x \notin has}
        BY DEF RemoteRotates
    <2>2. CASE c = a /\ t \in has
        BY <1>7, <1>8, <2>2, OnItsWayMeansNext DEF Own, Ids
    <2>3. CASE c = a /\ t \notin has
        BY <2>1, <2>3 DEF Own
    <2>4. CASE c # a
        BY <1>1, <1>8, <1>10, <2>4, OnItsWayMeans, OnItsWayMeansNext DEF sending
    <2> QED
        BY <2>2, <2>3, <2>4
<1>11. TextsAreKept'
    BY <1>1, <1>10, SameTexts DEF RemoteRotates, cache
<1> QED
    BY <1>2, <1>9, <1>11 DEF TextInv

LEMMA SessionKeeps ==
    ASSUME TextInv, KeyTypeInv', NoSwitch,
           (\E a \in Accounts : Initialize(a)) \/ \E wipe \in BOOLEAN : Reset(wipe)
    PROVE  TextInv'
<1>1. Quiet /\ flush = Idle
    BY DEF Initialize, Reset, May, NoSwitch, Quiet, TextInv, WaitingOK, FlushOK
<1>2. ASSUME NEW a \in Accounts, Initialize(a)
      PROVE  TextInv'
    <2>1. /\ UNCHANGED <<queue, batches, writes, flush, cacheOf, texts, epoch, backup, gaps>>
          /\ user' = a /\ batchesOf' = a /\ queue = <<>> /\ writes = {} /\ a # NoOne
        BY <1>1, <1>2 DEF Initialize, cache, server, Quiet, TextInv, AwayOK
    <2>2. WaitingOK'
        BY <1>1, <2>1, Empty, IdleFlush DEF WaitingOK
    <2>3. BatchesOK' /\ BackupOK' /\ HomeOK' /\ AwayOK' /\ CacheOK'
        BY <2>1 DEF TextInv, BatchesOK, BackupOK, HomeOK, AwayOK, CacheOK, Who
    <2>4. \A c \in Accounts : \A t \in Own(c) : t \in OnItsWay(c) => t \in OnItsWay(c)'
        BY <2>1, OnItsWayMeans, OnItsWayMeansNext
    <2> QED
        BY <2>1, <2>2, <2>3, <2>4, SameTexts DEF TextInv
<1>3. ASSUME NEW wipe \in BOOLEAN, Reset(wipe)
      PROVE  TextInv'
    <2>1. /\ UNCHANGED <<batchesOf, batches, writes, flush, backfill, rebuild, keying, epoch,
                         backup>>
          /\ user \in Accounts /\ user' = NoOne /\ mbk' = NoKey /\ queue' = <<>>
          /\ gaps' = gaps \cup ToSet(queue)
        BY <1>3 DEF Reset, server, TextInv, KeyTypeInv, DeviceOK, Who
    <2>2. WaitingOK'
        BY <1>1, <2>1, Empty, IdleFlush DEF WaitingOK, Quiet
    <2>3. BatchesOK' /\ BackupOK' /\ HomeOK' /\ AwayOK'
        BY <1>1, <2>1 DEF TextInv, BatchesOK, BackupOK, HomeOK, AwayOK, Quiet
    <2>4. texts' = texts \/ texts' = [texts EXCEPT ![user] = {}]
        BY <1>3 DEF Reset
    <2>5. CacheOK'
        BY <1>3, <2>1, <2>4 DEF Reset, TextInv, CacheOK, Who
    <2>6. \A a \in Accounts : texts'[a] \subseteq texts[a]
        BY <2>4 DEF TextInv, CacheOK
    <2>7. \A a \in Accounts : \A t \in Own(a) :
              t \in OnItsWay(a) => t \in OnItsWay(a)' \/ t \in gaps'
        BY <2>1, OnItsWayMeans, OnItsWayMeansNext
    <2>8. TextsAreKept'
        BY <2>1, <2>5, <2>6, <2>7, StillKept DEF TextInv, CacheOK
    <2> QED
        BY <2>2, <2>3, <2>5, <2>8 DEF TextInv
<1> QED
    BY <1>2, <1>3

LEMMA CrashKeeps ==
    ASSUME TextInv, KeyTypeInv', Crash
    PROVE  TextInv'
<1>1. /\ UNCHANGED <<batches, texts, epoch, backup>> /\ user' = NoOne /\ mbk' = NoKey
      /\ queue' = <<>> /\ writes' = {} /\ flush' = Idle /\ backfill' = NoBackfill
      /\ rebuild' = "idle" /\ keying' = NoKeying
      /\ cacheOf' = NoOne /\ batchesOf' = NoOne
      /\ gaps' = gaps \union ToSet(queue) \union ToSet(flush.batch)
                      \union ({e.id : e \in writes} \ {Group})
    BY DEF Crash, server
<1>2. WaitingOK'
    BY <1>1, Empty, IdleFlush DEF WaitingOK
<1>3. BatchesOK' /\ BackupOK' /\ HomeOK' /\ AwayOK' /\ CacheOK'
    BY <1>1, IdleFlush, NothingDone DEF TextInv, BatchesOK, BackupOK, HomeOK, AwayOK, CacheOK,
        Quiet, NoBackfill, Who
<1>4. ASSUME NEW a \in Accounts, NEW t \in Own(a), t \in OnItsWay(a)
      PROVE  t \in OnItsWay(a)' \/ t \in gaps'
    <2>1. t # Group
        BY TextsAssumption DEF Own
    <2>2. CASE \E e \in writes : e.id = t
        BY <1>1, <2>1, <2>2
    <2>3. CASE ~ \E e \in writes : e.id = t
        BY <1>1, <1>4, <2>3, OnItsWayMeans, OnItsWayMeansNext
    <2> QED
        BY <2>2, <2>3
<1>5. TextsAreKept'
    BY <1>1, <1>4, SameTexts
<1> QED
    BY <1>2, <1>3, <1>5 DEF TextInv

LEMMA TextStep == NoSwitch /\ TextInv /\ [Next]_vars => TextInv'
<1> SUFFICES ASSUME NoSwitch, TextInv, [Next]_vars PROVE TextInv'
    OBVIOUS
<1>1. KeyTypeInv'
    BY KeyTypeStep DEF TextInv
<1>2. CASE UNCHANGED vars
    <2>1. WaitingOK' /\ BatchesOK' /\ BackupOK' /\ CacheOK' /\ HomeOK' /\ AwayOK'
        BY <1>2 DEF vars, device, sending, tasks, keys, cache, server, TextInv, WaitingOK,
            BatchesOK, BackupOK, CacheOK, HomeOK, AwayOK, Quiet
    <2>2. TextsAreKept'
        BY <1>2, OnItsWayMeans, OnItsWayMeansNext, SameTexts DEF vars, sending, cache, server
    <2> QED
        BY <1>1, <2>1, <2>2 DEF TextInv
<1>3. CASE \/ \E r \in Answers : Flushing(r)
           \/ TimerFlush \/ TakeQueue
    BY <1>1, <1>3, RetryKeeps, PostKeeps, TakeKeeps, TaskFlushes DEF Flushing
<1>4. CASE TaskStep \/ \E r \in Answers : Task(r)
    BY <1>1, <1>4, TaskFlushes, TaskKeeps, RebuildKeeps DEF Task, TaskStep
<1>5. CASE \/ \E t \in Texts : NewText(t)
           \/ BackupGroupState \/ Restore
           \/ \E e \in writes : SaveWrite(e)
    BY <1>1, <1>5, LiveItemKeeps, SaveKeeps, TaskKeeps
<1>6. CASE \/ \E r \in Answers : \/ SetupPin(r) \/ SetupRecovery(r) \/ Unlock(r)
                                 \/ ChangePin(r) \/ RotateMbk(r)
           \/ \E key : FetchBlob(key)
           \/ Adoption \/ RotationNoticed \/ StartRebuild
    BY <1>1, <1>6, KeySteps
<1>7. CASE \E a \in Accounts : \E has \in SUBSET Present(a) : RemoteRotates(a, has)
    BY <1>1, <1>7, RemoteKeeps
<1>8. CASE \/ \E a \in Accounts : Initialize(a)
           \/ \E wipe \in BOOLEAN : Reset(wipe)
           \/ Crash
    BY <1>1, <1>8, SessionKeeps, CrashKeeps
<1> QED
    BY <1>2, <1>3, <1>4, <1>5, <1>6, <1>7, <1>8 DEF Next

(* A text of the message cache is on the server or waits, in the queue, in *)
(* the flush, in a saved batch or in a write, to be sent there, except for *)
(* those the code itself gives up: whatever requests fail, other devices   *)
(* rotate the key and rebuilds, rotations and crashes meet, provided that  *)
(* an account is only changed when nothing is under way (runFlush,         *)
(* writeDurable, doBackfill, doRebuild, clearQueue).                       *)
THEOREM TextsStayKept == NoSwitch => (Spec => []TextsAreKept)
<1> SUFFICES ASSUME NoSwitch PROVE Spec => []TextsAreKept
    OBVIOUS
<1>1. TextInv /\ [Next]_vars => TextInv'
    BY TextStep
<1>2. TextInv => TextsAreKept
    BY DEF TextInv
<1> QED
    BY <1>1, <1>2, TextInit, PTL DEF Spec

=============================================================================
