-------------------------- MODULE MlsCommitsProofs --------------------------
(***************************************************************************)
(* Theorems about MlsCommits, for any set of devices, any number of        *)
(* operations and any bounds: the first ones in every environment, those   *)
(* from NoForkWhenCalm on in a calm one.  The last part is about keys: in  *)
(* a calm environment no device encrypts twice with the same key, however  *)
(* often it joins, follows the log, is rolled back or cleared.             *)
(***************************************************************************)
EXTENDS MlsCommits, TLAPS

USE ConstantsAssumption DEF AllKinds, MarkerKinds, Heads, CommitIds

-----------------------------------------------------------------------------
(* Types, with every reference to a commit being to one already built.  One *)
(* named part per variable.                                                *)

Built == 1 .. Len(commits)
BuiltOrNone == -1 .. Len(commits)

CommitsOK == /\ commits \in Seq(Commit)
             /\ Len(commits) <= MaxCommits
             /\ \A c \in Built : commits[c].parent < c
LogOK == log \in Seq(CommitIds) /\ \A i \in 1 .. Len(log) : log[i] \in Built
NetOK == net \subseteq Built
WelcomesOK == welcomes \subseteq [to : Devices, commit : Built]
StateOK == /\ state \in [Devices -> Blob]
           /\ \A d \in Devices : state[d].head \in BuiltOrNone
MarkerOK == /\ marker \in [Devices -> [MarkerKinds -> Marker]]
            /\ \A d \in Devices, k \in MarkerKinds : marker[d][k].prev.head \in BuiltOrNone
DigestsOK == digests \in [Devices -> SUBSET CommitIds]
RefsOK(o) == /\ o.reply \in BuiltOrNone
             /\ o.prev.head \in BuiltOrNone
             /\ o.new.head \in BuiltOrNone
             /\ o.pc # "idle" => o.commit \in Built
             /\ o.pc = "lost" => o.reply \in Built
OpOK == /\ op \in [Devices -> [Slots -> Op]]
        /\ \A d \in Devices, s \in Slots : RefsOK(op[d][s])
MessagesOK == /\ messages \in Seq([by : Devices, head : Heads, gen : Nat])
              /\ Len(messages) <= MaxMessages
AckedOK == acked \subseteq Built

TypeInv == /\ CommitsOK /\ LogOK /\ NetOK /\ WelcomesOK /\ StateOK
           /\ MarkerOK /\ DigestsOK /\ OpOK /\ MessagesOK /\ AckedOK

LEMMA BuiltFacts ==
    ASSUME TypeInv
    PROVE  /\ Len(commits) \in Nat
           /\ Built \subseteq CommitIds
           /\ Built \subseteq BuiltOrNone
           /\ 0 \in BuiltOrNone /\ -1 \in BuiltOrNone
           /\ \A h \in BuiltOrNone : h \in Heads \cup {-1}
BY DEF TypeInv, CommitsOK, Built, BuiltOrNone

LEMMA TypeInvImpliesTypeOK == TypeInv => TypeOK
<1> SUFFICES ASSUME TypeInv PROVE TypeOK
    OBVIOUS
<1>1. Built \subseteq CommitIds
    BY BuiltFacts
<1>2. log \in Seq(CommitIds)
    BY DEF TypeInv, LogOK
<1>3. welcomes \subseteq [to : Devices, commit : CommitIds]
    BY <1>1 DEF TypeInv, WelcomesOK
<1> QED
    BY <1>1, <1>2, <1>3 DEF TypeInv, TypeOK, CommitsOK, NetOK, StateOK, MarkerOK,
       DigestsOK, OpOK, MessagesOK, AckedOK

LEMMA BlobFacts ==
    ASSUME NEW b \in Blob, NEW c \in CommitIds
    PROVE  /\ Advanced(b, c) \in Blob
           /\ Advanced(b, c).head = c
           /\ Joined(c) \in Blob
           /\ Joined(c).head = c
           /\ NoGroup \in Blob
           /\ NoGroup.head = -1
BY DEF Blob, Advanced, Joined, NoGroup

LEMMA NoneFacts ==
    /\ NoGroup \in Blob /\ NoGroup.head = -1
    /\ NoMarker \in Marker /\ NoMarker.prev = NoGroup
    /\ NoOp \in Op /\ NoOp.prev = NoGroup /\ NoOp.new = NoGroup
    /\ NoOp.reply = 0 /\ NoOp.pc = "idle"
<1>1. NoGroup \in Blob /\ NoGroup.head = -1
    BY DEF NoGroup, Blob
<1>2. NoMarker \in Marker /\ NoMarker.prev = NoGroup
    BY <1>1 DEF NoMarker, Marker
<1>3. /\ NoOp \in Op /\ NoOp.prev = NoGroup /\ NoOp.new = NoGroup
      /\ NoOp.reply = 0 /\ NoOp.pc = "idle"
    BY <1>1 DEF NoOp, Op
<1> QED
    BY <1>1, <1>2, <1>3

LEMMA EpochFacts ==
    ASSUME TypeInv, NEW h \in 0 .. Len(commits)
    PROVE  EpochAfter(h) \in Nat
<1>1. CASE h = 0
    BY <1>1 DEF EpochAfter
<1>2. CASE h # 0
    <2>1. commits[h] \in Commit
        BY <1>2 DEF TypeInv, CommitsOK
    <2> QED
        BY <1>2, <2>1 DEF EpochAfter, Commit
<1> QED
    BY <1>1, <1>2

LEMMA NoOpRefs == TypeInv => RefsOK(NoOp)
BY NoneFacts, BuiltFacts DEF RefsOK

LEMMA TypeInit == Init => TypeInv
<1> SUFFICES ASSUME Init PROVE TypeInv
    OBVIOUS
<1>1. Founded \in Blob /\ Founded.head = 0
    BY DEF Founded, Blob
<1>2. CommitsOK /\ LogOK /\ NetOK /\ WelcomesOK /\ DigestsOK /\ MessagesOK /\ AckedOK
    BY DEF Init, CommitsOK, LogOK, NetOK, WelcomesOK, DigestsOK, MessagesOK, AckedOK,
       Commit, Built
<1>3. BuiltOrNone = -1 .. 0
    BY DEF Init, BuiltOrNone
<1>4. StateOK
    BY <1>1, <1>3, NoneFacts DEF Init, StateOK
<1>5. MarkerOK
    BY <1>3, NoneFacts DEF Init, MarkerOK
<1>6. OpOK
    BY <1>3, NoneFacts DEF Init, OpOK, RefsOK
<1> QED
    BY <1>2, <1>4, <1>5, <1>6 DEF TypeInv

(* Building a commit. *)
LEMMA TypeWrite ==
    ASSUME TypeInv, NEW d \in Devices, NEW s \in Slots, NEW kind \in AllKinds,
           NEW t \in Devices, NEW members \in SUBSET Devices,
           HasGroup(d), WriteOptimistic(d, s, kind, t, members)
    PROVE  TypeInv'
<1> DEFINE old == state[d]
           c == Len(commits) + 1
           new == Advanced(old, c)
           com == [by |-> d, epoch |-> Epoch(old), parent |-> old.head,
                   kind |-> kind, target |-> t, members |-> members]
           mark == [newEpoch |-> Epoch(old) + 1, prev |-> old]
           o == [pc |-> "posting", kind |-> kind, commit |-> c,
                 prev |-> old, new |-> new, reply |-> 0, retried |-> FALSE]
<1>1. /\ commits' = Append(commits, com)
      /\ state' = [state EXCEPT ![d] = new]
      /\ op' = [op EXCEPT ![d][s] = o]
      /\ net' = net \cup {c}
      /\ UNCHANGED <<log, welcomes, digests, messages, acked>>
    BY DEF WriteOptimistic
<1>0. \/ marker' = marker
      \/ marker' = [marker EXCEPT ![d][kind] = mark] /\ kind \in MarkerKinds
    BY DEF WriteOptimistic
<1>2. c \in CommitIds /\ Len(commits) \in Nat
    BY BuiltFacts DEF WriteOptimistic
<1>3. old \in Blob /\ old.head \in 0 .. Len(commits)
    BY DEF TypeInv, StateOK, HasGroup, BuiltOrNone
<1>4. new \in Blob /\ new.head = c
    BY <1>2, <1>3, BlobFacts
<1>5. Epoch(old) \in Nat
    BY <1>3, EpochFacts DEF Epoch
<1>6. com \in Commit /\ com.parent = old.head
    BY <1>3, <1>5, BuiltFacts DEF Commit, Blob, TypeInv, StateOK
<1>7. mark \in Marker /\ mark.prev = old
    BY <1>3, <1>5 DEF Marker
<1>8. /\ o \in Op /\ o.pc = "posting" /\ o.commit = c /\ o.prev = old
      /\ o.new = new /\ o.reply = 0
    BY <1>2, <1>3, <1>4 DEF Op
<1>9. /\ commits' \in Seq(Commit) /\ Len(commits') = Len(commits) + 1
      /\ commits'[c] = com
      /\ \A i \in Built : commits'[i] = commits[i]
    BY <1>1, <1>6 DEF TypeInv, CommitsOK, Built
<1>10. /\ Built \subseteq Built' /\ BuiltOrNone \subseteq BuiltOrNone'
       /\ c \in Built' /\ c \in BuiltOrNone' /\ 0 \in BuiltOrNone'
       /\ old.head \in BuiltOrNone'
       /\ \A i \in Built' : i = c \/ i \in Built
    BY <1>2, <1>3, <1>9 DEF Built, BuiltOrNone
<1>11. c > old.head /\ c <= MaxCommits /\ Len(commits') = c
    BY <1>2, <1>3, <1>9
<1> HIDE DEF old, c, new, com, mark, o
<1>12. CommitsOK'
    <2>1. \A i \in Built' : commits'[i].parent < i
        <3> TAKE i \in Built'
        <3>1. CASE i = c
            BY <1>3, <1>6, <1>9, <1>11, <3>1
        <3>2. CASE i \in Built
            BY <1>9, <3>2 DEF TypeInv, CommitsOK
        <3> QED
            BY <1>10, <3>1, <3>2
    <2> QED
        BY <1>9, <1>11, <2>1 DEF CommitsOK
<1>13. LogOK' /\ NetOK' /\ WelcomesOK' /\ DigestsOK' /\ MessagesOK' /\ AckedOK'
    BY <1>1, <1>10 DEF TypeInv, LogOK, NetOK, WelcomesOK, DigestsOK, MessagesOK, AckedOK
<1>14. StateOK'
    <2>1. \A e \in Devices : state'[e] = new \/ state'[e] = state[e]
        BY <1>1 DEF TypeInv, StateOK
    <2>2. \A e \in Devices : state'[e].head \in BuiltOrNone'
        BY <1>4, <1>10, <2>1 DEF TypeInv, StateOK
    <2>3. state' \in [Devices -> Blob]
        BY <1>1, <1>4 DEF TypeInv, StateOK
    <2> QED
        BY <2>2, <2>3 DEF StateOK
<1>15. MarkerOK'
    <2>1. CASE marker' = marker
        BY <1>10, <2>1 DEF TypeInv, MarkerOK
    <2>2. CASE marker' = [marker EXCEPT ![d][kind] = mark] /\ kind \in MarkerKinds
        <3>1. marker' \in [Devices -> [MarkerKinds -> Marker]]
            BY <1>7, <2>2 DEF TypeInv, MarkerOK
        <3>2. \A e \in Devices, k \in MarkerKinds : marker'[e][k] = mark \/ marker'[e][k] = marker[e][k]
            BY <2>2 DEF TypeInv, MarkerOK
        <3>3. \A e \in Devices, k \in MarkerKinds : marker'[e][k].prev.head \in BuiltOrNone'
            BY <1>7, <1>10, <3>2 DEF TypeInv, MarkerOK
        <3> QED
            BY <3>1, <3>3 DEF MarkerOK
    <2> QED
        BY <1>0, <2>1, <2>2
<1>16. OpOK'
    <2>1. op' \in [Devices -> [Slots -> Op]]
        BY <1>1, <1>8 DEF TypeInv, OpOK
    <2>2. \A e \in Devices, z \in Slots : op'[e][z] = o \/ op'[e][z] = op[e][z]
        BY <1>1 DEF TypeInv, OpOK
    <2>4. \A e \in Devices, z \in Slots : RefsOK(op[e][z])'
        <3> TAKE e \in Devices, z \in Slots
        <3>1. CASE op'[e][z] = o
            BY <1>4, <1>8, <1>10, <3>1 DEF RefsOK
        <3>2. CASE op'[e][z] = op[e][z]
            BY <1>10, <3>2 DEF TypeInv, OpOK, RefsOK
        <3> QED
            BY <2>2, <3>1, <3>2
    <2> QED
        BY <2>1, <2>4 DEF OpOK
<1> QED
    BY <1>12, <1>13, <1>14, <1>15, <1>16 DEF TypeInv

(* The other actions build no commit and each disturbs a few variables.    *)

LEMMA SameBuilt ==
    ASSUME UNCHANGED commits
    PROVE  /\ Built' = Built /\ BuiltOrNone' = BuiltOrNone
           /\ CommitsOK => CommitsOK'
           /\ LogOK /\ UNCHANGED log => LogOK'
           /\ NetOK /\ UNCHANGED net => NetOK'
           /\ WelcomesOK /\ UNCHANGED welcomes => WelcomesOK'
           /\ StateOK /\ UNCHANGED state => StateOK'
           /\ MarkerOK /\ UNCHANGED marker => MarkerOK'
           /\ DigestsOK /\ UNCHANGED digests => DigestsOK'
           /\ MessagesOK /\ UNCHANGED messages => MessagesOK'
           /\ AckedOK /\ UNCHANGED acked => AckedOK'
<1>1. Built' = Built /\ BuiltOrNone' = BuiltOrNone
    BY DEF Built, BuiltOrNone
<1>2. CommitsOK => CommitsOK'
    BY <1>1 DEF CommitsOK
<1>3. StateOK /\ UNCHANGED state => StateOK'
    BY <1>1 DEF StateOK
<1>4. MarkerOK /\ UNCHANGED marker => MarkerOK'
    BY <1>1 DEF MarkerOK
<1> QED
    BY <1>1, <1>2, <1>3, <1>4 DEF LogOK, NetOK, WelcomesOK, DigestsOK, MessagesOK, AckedOK

LEMMA SameOp ==
    ASSUME OpOK, UNCHANGED <<commits, op>>
    PROVE  OpOK'
<1>1. Built' = Built /\ BuiltOrNone' = BuiltOrNone
    BY DEF Built, BuiltOrNone
<1> QED
    BY <1>1 DEF OpOK, RefsOK

LEMMA SetState ==
    ASSUME TypeInv, UNCHANGED commits, NEW d \in Devices,
           NEW b \in Blob, b.head \in BuiltOrNone, state' = [state EXCEPT ![d] = b]
    PROVE  StateOK'
BY SameBuilt DEF TypeInv, StateOK

LEMMA DropOneMarker ==
    ASSUME TypeInv, UNCHANGED commits, NEW d \in Devices, NEW k \in MarkerKinds,
           marker' = [marker EXCEPT ![d][k] = NoMarker]
    PROVE  MarkerOK'
<1>1. marker' \in [Devices -> [MarkerKinds -> Marker]]
    BY NoneFacts DEF TypeInv, MarkerOK
<1>2. \A e \in Devices, j \in MarkerKinds :
          marker'[e][j] = NoMarker \/ marker'[e][j] = marker[e][j]
    BY DEF TypeInv, MarkerOK
<1>3. -1 \in BuiltOrNone
    BY BuiltFacts
<1> QED
    BY <1>1, <1>2, <1>3, NoneFacts, SameBuilt DEF TypeInv, MarkerOK

LEMMA DropMarkers ==
    ASSUME TypeInv, UNCHANGED commits, NEW d \in Devices,
           marker' = [marker EXCEPT ![d] = [k \in MarkerKinds |-> NoMarker]]
    PROVE  MarkerOK'
<1>1. marker' \in [Devices -> [MarkerKinds -> Marker]]
    BY NoneFacts DEF TypeInv, MarkerOK
<1>2. \A e \in Devices, j \in MarkerKinds :
          marker'[e][j] = NoMarker \/ marker'[e][j] = marker[e][j]
    BY DEF TypeInv, MarkerOK
<1>3. -1 \in BuiltOrNone
    BY BuiltFacts
<1> QED
    BY <1>1, <1>2, <1>3, NoneFacts, SameBuilt DEF TypeInv, MarkerOK

LEMMA SetOp ==
    ASSUME TypeInv, UNCHANGED commits, NEW d \in Devices, NEW s \in Slots,
           NEW o \in Op, RefsOK(o), op' = [op EXCEPT ![d][s] = o]
    PROVE  OpOK'
<1>1. op' \in [Devices -> [Slots -> Op]]
    BY DEF TypeInv, OpOK
<1>2. \A e \in Devices, z \in Slots : op'[e][z] = o \/ op'[e][z] = op[e][z]
    BY DEF TypeInv, OpOK
<1>3. \A e \in Devices, z \in Slots : RefsOK(op'[e][z])
    BY <1>2 DEF TypeInv, OpOK
<1>4. Built' = Built /\ BuiltOrNone' = BuiltOrNone
    BY SameBuilt
<1>5. \A e \in Devices, z \in Slots : RefsOK(op[e][z])'
    BY <1>3, <1>4 DEF RefsOK
<1> QED
    BY <1>1, <1>5 DEF OpOK

LEMMA TypeFinish ==
    ASSUME TypeInv, UNCHANGED commits, NEW d \in Devices, NEW s \in Slots, Finish(d, s)
    PROVE  OpOK'
BY NoneFacts, NoOpRefs, SetOp DEF Finish

(* The answer of the server reaches the slot that posted the request.      *)
LEMMA TypeAnswer ==
    ASSUME TypeInv, UNCHANGED commits, NEW c \in Built, NEW r \in BuiltOrNone, Answer(c, r)
    PROVE  OpOK'
<1> DEFINE answered(d, s) == [op[d][s] EXCEPT !.reply = r]
<1>1. \A d \in Devices, s \in Slots :
          \/ op'[d][s] = op[d][s]
          \/ (op[d][s].pc = "posting" /\ op'[d][s] = answered(d, s))
    BY DEF Answer
<1>2. \A d \in Devices, s \in Slots : op[d][s] \in Op /\ RefsOK(op[d][s])
    BY DEF TypeInv, OpOK
<1>3. r \in Heads \cup {-1}
    BY BuiltFacts
<1>4. \A d \in Devices, s \in Slots :
          op[d][s].pc = "posting" => answered(d, s) \in Op /\ RefsOK(answered(d, s))
    <2> TAKE d \in Devices, s \in Slots
    <2> HAVE op[d][s].pc = "posting"
    <2> DEFINE q == op[d][s]
               a == answered(d, s)
    <2>1. q \in Op /\ RefsOK(q) /\ q.pc = "posting"
        BY <1>2
    <2>2. a = [q EXCEPT !.reply = r]
        OBVIOUS
    <2> HIDE DEF q, a
    <2>3. a \in Op
        BY <1>3, <2>1, <2>2 DEF Op
    <2>4. /\ a.reply = r /\ a.prev = q.prev /\ a.new = q.new
          /\ a.pc = q.pc /\ a.commit = q.commit
        BY <2>1, <2>2 DEF Op
    <2>5. RefsOK(a)
        BY <2>1, <2>4 DEF RefsOK
    <2> QED
        BY <2>3, <2>5 DEF a
<1> HIDE DEF answered
<1>5. \A d \in Devices, s \in Slots : op'[d][s] \in Op /\ RefsOK(op'[d][s])
    BY <1>1, <1>2, <1>4
<1>6. op' \in [Devices -> [Slots -> Op]]
    <2>1. op' = [d \in Devices |-> [s \in Slots |->
                   IF op[d][s].pc = "posting" /\ op[d][s].commit = c
                   THEN answered(d, s) ELSE op[d][s]]]
        BY DEF Answer, answered
    <2>2. \A d \in Devices, s \in Slots :
             (IF op[d][s].pc = "posting" /\ op[d][s].commit = c
              THEN answered(d, s) ELSE op[d][s]) \in Op
        BY <1>2, <1>4
    <2> QED
        BY <2>1, <2>2
<1>7. Built' = Built /\ BuiltOrNone' = BuiltOrNone
    BY SameBuilt
<1>8. \A d \in Devices, s \in Slots : RefsOK(op[d][s])'
    BY <1>5, <1>7 DEF RefsOK
<1> QED
    BY <1>6, <1>8 DEF OpOK

LEMMA TypeReceive ==
    ASSUME TypeInv, NEW c \in net, Receive(c)
    PROVE  TypeInv'
<1>1. c \in Built /\ commits[c] \in Commit /\ UNCHANGED commits
    BY DEF TypeInv, NetOK, CommitsOK, Built, Receive
<1>2. CommitsOK' /\ NetOK' /\ StateOK' /\ MarkerOK' /\ DigestsOK' /\ MessagesOK' /\ AckedOK'
    BY <1>1, SameBuilt DEF Receive, TypeInv, NetOK
<1>3. CASE ServerStore(c)
    <2>1. Answer(c, c) /\ c \in BuiltOrNone
        BY <1>1, <1>3, BuiltFacts DEF ServerStore
    <2>2. OpOK'
        BY <1>1, <2>1, TypeAnswer
    <2>3. LogOK'
        BY <1>1, <1>3, BuiltFacts, SameBuilt DEF ServerStore, TypeInv, LogOK
    <2>4. WelcomesOf(c) \subseteq [to : Devices, commit : Built]
        BY <1>1 DEF WelcomesOf, Commit
    <2>5. WelcomesOK'
        BY <1>1, <1>3, <2>4, SameBuilt DEF ServerStore, TypeInv, WelcomesOK
    <2> QED
        BY <1>2, <2>2, <2>3, <2>5 DEF TypeInv
<1>4. CASE ServerKeepsWinner(c)
    <2>1. commits[c].epoch + 1 \in 1 .. Len(log)
        BY <1>1, <1>4 DEF ServerKeepsWinner, Commit, TypeInv, LogOK
    <2>2. log[commits[c].epoch + 1] \in BuiltOrNone
        BY <2>1, BuiltFacts DEF TypeInv, LogOK
    <2>3. OpOK'
        BY <1>1, <1>4, <2>2, TypeAnswer DEF ServerKeepsWinner
    <2>4. LogOK' /\ WelcomesOK'
        BY <1>1, <1>4, SameBuilt DEF ServerKeepsWinner, TypeInv
    <2> QED
        BY <1>2, <2>3, <2>4 DEF TypeInv
<1>5. CASE ServerRejects(c)
    <2>1. OpOK'
        BY <1>1, <1>5, BuiltFacts, TypeAnswer DEF ServerRejects
    <2>2. LogOK' /\ WelcomesOK'
        BY <1>1, <1>5, SameBuilt DEF ServerRejects, TypeInv
    <2> QED
        BY <1>2, <2>1, <2>2 DEF TypeInv
<1> QED
    BY <1>3, <1>4, <1>5 DEF Receive

LEMMA TypeRetry ==
    ASSUME TypeInv, NEW d \in Devices, NEW s \in Slots, RetryPost(d, s)
    PROVE  TypeInv'
<1> DEFINE q == op[d][s]
           o == [q EXCEPT !.reply = 0, !.retried = TRUE]
<1>1. q \in Op /\ RefsOK(q) /\ q.pc = "posting" /\ UNCHANGED commits
    BY DEF TypeInv, OpOK, RetryPost
<1>2. op' = [op EXCEPT ![d][s] = o]
    BY DEF RetryPost, TypeInv, OpOK
<1>3. net' = net \cup {q.commit} /\ q.commit \in Built
    BY <1>1 DEF RetryPost, RefsOK
<1> HIDE DEF q
<1>4. o \in Op
    <2> DEFINE p == [q EXCEPT !.reply = 0]
    <2>1. 0 \in Heads \cup {-1}
        OBVIOUS
    <2>2. p \in Op
        BY <1>1, <2>1 DEF Op
    <2>3. o = [p EXCEPT !.retried = TRUE]
        BY <1>1 DEF Op
    <2> HIDE DEF p, o
    <2> QED
        BY <2>2, <2>3 DEF Op
<1>5. /\ o.reply = 0 /\ o.prev = q.prev /\ o.new = q.new
      /\ o.pc = q.pc /\ o.commit = q.commit
    BY <1>1 DEF Op
<1> HIDE DEF o
<1>6. RefsOK(o)
    BY <1>1, <1>5, BuiltFacts DEF RefsOK
<1>7. OpOK'
    BY <1>1, <1>2, <1>4, <1>6, SetOp
<1>8. NetOK'
    BY <1>1, <1>3, SameBuilt DEF TypeInv, NetOK
<1> QED
    BY <1>1, <1>7, <1>8, SameBuilt DEF RetryPost, TypeInv

LEMMA TypeConfirm ==
    ASSUME TypeInv, NEW d \in Devices, NEW s \in Slots, Confirm(d, s)
    PROVE  TypeInv'
<1>1. UNCHANGED <<commits, log, net, welcomes, state, digests, messages>> /\ Finish(d, s)
    BY DEF Confirm
<1>2. op[d][s].commit \in Built
    BY DEF Confirm, TypeInv, OpOK, RefsOK
<1>3. AckedOK'
    BY <1>1, <1>2, SameBuilt DEF Confirm, TypeInv, AckedOK
<1>4. MarkerOK'
    <2>1. CASE op[d][s].kind \in MarkerKinds
        BY <1>1, <2>1, DropOneMarker DEF Confirm
    <2>2. CASE op[d][s].kind \notin MarkerKinds
        BY <1>1, <2>2, SameBuilt DEF Confirm, TypeInv
    <2> QED
        BY <2>1, <2>2
<1>5. OpOK'
    BY <1>1, TypeFinish
<1> QED
    BY <1>1, <1>3, <1>4, <1>5, SameBuilt DEF TypeInv

LEMMA TypeLostRace ==
    ASSUME TypeInv, NEW d \in Devices, NEW s \in Slots, LostRace(d, s)
    PROVE  TypeInv'
<1> DEFINE q == op[d][s]
           o == [q EXCEPT !.pc = "lost"]
<1>1. UNCHANGED <<commits, log, net, welcomes, digests, messages, acked>>
    BY DEF LostRace
<1>2. q \in Op /\ RefsOK(q) /\ q.pc = "posting" /\ q.reply > 0
    BY DEF TypeInv, OpOK, LostRace
<1>3. op' = [op EXCEPT ![d][s] = o]
    BY DEF LostRace, TypeInv, OpOK
<1>4. q.prev \in Blob /\ q.prev.head \in BuiltOrNone
    BY <1>2 DEF Op, RefsOK
<1>5. q.reply \in Built
    BY <1>2, BuiltFacts DEF RefsOK, Built, BuiltOrNone
<1>6. StateOK' /\ MarkerOK'
    <2>1. CASE StillOwnWrite(d, s)
        <3>1. StateOK'
            BY <1>1, <1>4, <2>1, SetState DEF LostRace
        <3>2. CASE op[d][s].kind \in MarkerKinds
            BY <1>1, <2>1, <3>1, <3>2, DropOneMarker DEF LostRace
        <3>3. CASE op[d][s].kind \notin MarkerKinds
            BY <1>1, <2>1, <3>1, <3>3, SameBuilt DEF LostRace, TypeInv
        <3> QED
            BY <3>2, <3>3
    <2>2. CASE ~StillOwnWrite(d, s)
        BY <1>1, <2>2, SameBuilt DEF LostRace, TypeInv
    <2> QED
        BY <2>1, <2>2
<1> HIDE DEF q
<1>7. o \in Op
    BY <1>2 DEF Op
<1>8. /\ o.reply = q.reply /\ o.prev = q.prev /\ o.new = q.new
      /\ o.pc = "lost" /\ o.commit = q.commit
    BY <1>2 DEF Op
<1> HIDE DEF o
<1>9. RefsOK(o)
    BY <1>2, <1>5, <1>8 DEF RefsOK
<1>10. OpOK'
    BY <1>1, <1>3, <1>7, <1>9, SetOp
<1> QED
    BY <1>1, <1>6, <1>10, SameBuilt DEF TypeInv

LEMMA TypeCleared ==
    ASSUME TypeInv, UNCHANGED commits, NEW d \in Devices, Cleared(d)
    PROVE  StateOK' /\ MarkerOK'
BY NoneFacts, BuiltFacts, SetState, DropMarkers DEF Cleared

LEMMA TypeConflict ==
    ASSUME TypeInv, NEW d \in Devices, NEW s \in Slots, Conflict(d, s)
    PROVE  TypeInv'
<1>1. /\ UNCHANGED <<commits, log, net, welcomes, digests, messages, acked>>
      /\ Cleared(d) /\ Finish(d, s)
    BY DEF Conflict
<1> QED
    BY <1>1, TypeCleared, TypeFinish, SameBuilt DEF TypeInv

LEMMA TypeReconcile ==
    ASSUME TypeInv, NEW d \in Devices, NEW s \in Slots, ReconcileAfterPostCommitFailure(d, s)
    PROVE  TypeInv'
<1>1. /\ UNCHANGED <<commits, log, net, welcomes, digests, messages, acked>>
      /\ Finish(d, s)
    BY DEF ReconcileAfterPostCommitFailure
<1>2. op[d][s].prev \in Blob /\ op[d][s].prev.head \in BuiltOrNone
    BY DEF TypeInv, OpOK, Op, RefsOK
<1>3. StateOK' /\ MarkerOK'
    <2>1. CASE StillOwnWrite(d, s)
        BY <1>1, <1>2, <2>1, SetState, DropMarkers DEF ReconcileAfterPostCommitFailure
    <2>2. CASE ~StillOwnWrite(d, s)
        BY <1>1, <2>2, SameBuilt DEF ReconcileAfterPostCommitFailure, TypeInv
    <2> QED
        BY <2>1, <2>2
<1> QED
    BY <1>1, <1>3, TypeFinish, SameBuilt DEF TypeInv

LEMMA AdvancedOK ==
    ASSUME TypeInv, NEW d \in Devices, NEW c \in Built
    PROVE  /\ Advanced(state[d], c) \in Blob
           /\ Advanced(state[d], c).head = c
           /\ c \in BuiltOrNone
<1>1. state[d] \in Blob /\ c \in CommitIds /\ c \in BuiltOrNone
    BY BuiltFacts DEF TypeInv, StateOK
<1> QED
    BY <1>1, BlobFacts

LEMMA TypeResync ==
    ASSUME TypeInv, NEW d \in Devices, NEW s \in Slots, Resync(d, s)
    PROVE  TypeInv'
<1>1. /\ UNCHANGED <<commits, log, net, welcomes, marker, digests, messages, acked>>
      /\ Finish(d, s)
    BY DEF Resync
<1>2. op[d][s].reply \in Built
    BY DEF Resync, TypeInv, OpOK, RefsOK
<1>3. StateOK'
    <2>1. CASE CanApply(d, op[d][s].reply)
        BY <1>1, <1>2, <2>1, AdvancedOK, SetState DEF Resync
    <2>2. CASE ~CanApply(d, op[d][s].reply)
        BY <1>1, <2>2, SameBuilt DEF Resync, TypeInv
    <2> QED
        BY <2>1, <2>2
<1> QED
    BY <1>1, <1>3, TypeFinish, SameBuilt DEF TypeInv

LEMMA TypeApply ==
    ASSUME TypeInv, NEW d \in Devices, NEW c \in Built, ApplyCommit(d, c)
    PROVE  TypeInv'
<1>1. UNCHANGED <<commits, log, net, welcomes, marker, digests, op, messages, acked>>
    BY DEF ApplyCommit
<1>2. StateOK'
    BY <1>1, AdvancedOK, SetState DEF ApplyCommit
<1> QED
    BY <1>1, <1>2, SameBuilt, SameOp DEF TypeInv

LEMMA TypeJoin ==
    ASSUME TypeInv, NEW d \in Devices, NEW w \in welcomes, JoinViaWelcome(d, w)
    PROVE  TypeInv'
<1>1. UNCHANGED <<commits, log, net, welcomes, marker, op, messages, acked>>
    BY DEF JoinViaWelcome
<1>2. w.commit \in Built /\ w.commit \in CommitIds /\ w.commit \in BuiltOrNone
    BY BuiltFacts DEF TypeInv, WelcomesOK
<1>3. Joined(w.commit) \in Blob /\ Joined(w.commit).head = w.commit
    BY <1>2, BlobFacts, NoneFacts
<1>4. StateOK'
    BY <1>1, <1>2, <1>3, SetState DEF JoinViaWelcome
<1>5. DigestsOK'
    BY <1>2 DEF JoinViaWelcome, TypeInv, DigestsOK
<1> QED
    BY <1>1, <1>4, <1>5, SameBuilt, SameOp DEF TypeInv

LEMMA TypeIgnore ==
    ASSUME TypeInv, NEW d \in Devices, NEW w \in welcomes, IgnoreWelcome(d, w)
    PROVE  TypeInv'
<1>1. UNCHANGED <<commits, log, net, welcomes, state, marker, op, messages, acked>>
    BY DEF IgnoreWelcome
<1>2. w.commit \in CommitIds
    BY BuiltFacts DEF TypeInv, WelcomesOK
<1>3. DigestsOK'
    BY <1>2 DEF IgnoreWelcome, TypeInv, DigestsOK
<1> QED
    BY <1>1, <1>3, SameBuilt, SameOp DEF TypeInv

LEMMA TypeEncrypt ==
    ASSUME TypeInv, NEW d \in Devices, EncryptMessage(d)
    PROVE  TypeInv'
<1> DEFINE q == state[d]
           b == [q EXCEPT !.gen = @ + 1]
           msg == [by |-> d, head |-> q.head, gen |-> q.gen]
<1>1. UNCHANGED <<commits, log, net, welcomes, marker, digests, op, acked>>
    BY DEF EncryptMessage
<1>2. q \in Blob /\ q.head \in BuiltOrNone /\ q.head # -1
    BY DEF EncryptMessage, HasGroup, TypeInv, StateOK
<1>3. /\ state' = [state EXCEPT ![d] = b] /\ messages' = Append(messages, msg)
      /\ Len(messages) < MaxMessages
    BY DEF EncryptMessage, TypeInv, StateOK
<1> HIDE DEF q
<1>4. b \in Blob /\ b.head = q.head
    BY <1>2 DEF Blob
<1>5. msg \in [by : Devices, head : Heads, gen : Nat]
    BY <1>2 DEF Blob
<1> HIDE DEF b, msg
<1>6. StateOK'
    BY <1>1, <1>2, <1>3, <1>4, SetState
<1>7. MessagesOK'
    BY <1>3, <1>5 DEF TypeInv, MessagesOK
<1> QED
    BY <1>1, <1>6, <1>7, SameBuilt, SameOp DEF TypeInv

LEMMA TypeDecrypt ==
    ASSUME TypeInv, NEW d \in Devices, NEW i \in 1 .. Len(messages), DecryptMessage(d, i)
    PROVE  TypeInv'
<1> DEFINE q == state[d]
           b == [q EXCEPT !.seen = @ \cup {i}]
<1>1. UNCHANGED <<commits, log, net, welcomes, marker, digests, op, messages, acked>>
    BY DEF DecryptMessage
<1>2. q \in Blob /\ q.head \in BuiltOrNone /\ i \in 1 .. MaxMessages
    BY DEF TypeInv, StateOK, MessagesOK
<1>3. state' = [state EXCEPT ![d] = b]
    BY DEF DecryptMessage, TypeInv, StateOK
<1> HIDE DEF q
<1>4. b \in Blob /\ b.head = q.head
    BY <1>2 DEF Blob
<1> HIDE DEF b
<1>5. StateOK'
    BY <1>1, <1>2, <1>3, <1>4, SetState
<1> QED
    BY <1>1, <1>5, SameBuilt, SameOp DEF TypeInv

LEMMA TypeClear ==
    ASSUME TypeInv, NEW d \in Devices, ClearConversationGroup(d)
    PROVE  TypeInv'
<1>1. UNCHANGED <<commits, log, net, welcomes, digests, op, messages, acked>> /\ Cleared(d)
    BY DEF ClearConversationGroup
<1> QED
    BY <1>1, TypeCleared, SameBuilt, SameOp DEF TypeInv

LEMMA TypeCrash ==
    ASSUME TypeInv, NEW d \in Devices, Crash(d)
    PROVE  TypeInv'
<1>1. /\ UNCHANGED <<commits, log, net, welcomes, state, marker, digests, messages, acked>>
      /\ op' = [op EXCEPT ![d] = [s \in Slots |-> NoOp]]
    BY DEF Crash
<1>2. op' \in [Devices -> [Slots -> Op]]
    BY <1>1, NoneFacts DEF TypeInv, OpOK
<1>3. \A e \in Devices, s \in Slots : op'[e][s] = NoOp \/ op'[e][s] = op[e][s]
    BY <1>1 DEF TypeInv, OpOK
<1>4. \A e \in Devices, s \in Slots : RefsOK(op'[e][s])
    BY <1>3, NoOpRefs DEF TypeInv, OpOK
<1>5. Built' = Built /\ BuiltOrNone' = BuiltOrNone
    BY <1>1, SameBuilt
<1>6. \A e \in Devices, s \in Slots : RefsOK(op[e][s])'
    BY <1>4, <1>5 DEF RefsOK
<1>7. OpOK'
    BY <1>2, <1>6 DEF OpOK
<1> QED
    BY <1>1, <1>7, SameBuilt DEF TypeInv

LEMMA TypeResolve ==
    ASSUME TypeInv, NEW d \in Devices, NEW k \in MarkerKinds, ResolveMarker(d, k)
    PROVE  TypeInv'
<1>1. /\ UNCHANGED <<commits, log, net, welcomes, digests, op, messages, acked>>
      /\ marker' = [marker EXCEPT ![d][k] = NoMarker]
    BY DEF ResolveMarker
<1>2. marker[d][k].prev \in Blob /\ marker[d][k].prev.head \in BuiltOrNone
    BY DEF TypeInv, MarkerOK, Marker
<1>3. StateOK'
    <2>1. CASE state' = state
        BY <1>1, <2>1, SameBuilt DEF TypeInv
    <2>2. CASE state' = [state EXCEPT ![d] = marker[d][k].prev]
        BY <1>1, <1>2, <2>2, SetState
    <2> QED
        BY <2>1, <2>2 DEF ResolveMarker
<1> QED
    BY <1>1, <1>3, DropOneMarker, SameBuilt, SameOp DEF TypeInv

LEMMA TypeStutter == TypeInv /\ UNCHANGED vars => TypeInv'
BY SameBuilt, SameOp DEF vars, TypeInv

(* A step is one of the named actions, with its operands in their ranges.  *)
LEMMA TypeStart ==
    ASSUME TypeInv, NEW d \in Devices, NEW s \in Slots, Start(d, s)
    PROVE  /\ HasGroup(d)
           /\ \E kind \in AllKinds, t \in Devices, members \in SUBSET Devices :
                 WriteOptimistic(d, s, kind, t, members)
<1>1. HasGroup(d)
    BY DEF Start, ProvisionDevice, ReprovisionLostStateDevice, RemoveRevokedDevice
<1>2. Members(state[d].head) \in SUBSET Devices
    <2>1. state[d].head = 0 \/ state[d].head \in Built
        BY <1>1 DEF HasGroup, TypeInv, StateOK, BuiltOrNone, Built
    <2>2. \A h \in Built : commits[h] \in Commit
        BY DEF TypeInv, CommitsOK, Built
    <2> QED
        BY <2>1, <2>2 DEF Members, Commit
<1>3. PICK t \in Devices : \/ ProvisionDevice(d, s, t)
                           \/ ReprovisionLostStateDevice(d, s, t)
                           \/ RemoveRevokedDevice(d, s, t)
    BY DEF Start
<1> QED
    BY <1>1, <1>2, <1>3 DEF ProvisionDevice, ReprovisionLostStateDevice, RemoveRevokedDevice

LEMMA TypeStep == TypeInv /\ [Next]_vars => TypeInv'
<1> SUFFICES ASSUME TypeInv, [Next]_vars PROVE TypeInv'
    OBVIOUS
<1>1. ASSUME NEW d \in Devices, NEW s \in Slots, Start(d, s) PROVE TypeInv'
    BY <1>1, TypeStart, TypeWrite
<1>2. ASSUME NEW d \in Devices, NEW s \in Slots, Outcome(d, s) PROVE TypeInv'
    BY <1>2, TypeConfirm, TypeLostRace, TypeConflict, TypeReconcile DEF Outcome
<1>3. ASSUME NEW d \in Devices, Follow(d) PROVE TypeInv'
    BY <1>3, TypeApply DEF Follow, Built
<1>4. ASSUME NEW d \in Devices, TakeWelcome(d) PROVE TypeInv'
    BY <1>4, TypeJoin, TypeIgnore DEF TakeWelcome
<1>5. ASSUME NEW d \in Devices, Traffic(d) PROVE TypeInv'
    BY <1>5, TypeEncrypt, TypeDecrypt DEF Traffic
<1>6. ASSUME NEW d \in Devices, Recover(d) PROVE TypeInv'
    BY <1>6, TypeResolve DEF Recover, RecoverOnePendingReprovision, RecoverOnePendingRemoval
<1>7. ASSUME NEW c \in net, LoseRequest(c) PROVE TypeInv'
    <2>1. UNCHANGED <<commits, log, welcomes, state, marker, digests, op, messages, acked>>
        BY <1>7 DEF LoseRequest
    <2>2. NetOK'
        BY <1>7, <2>1, SameBuilt DEF LoseRequest, TypeInv, NetOK
    <2> QED
        BY <2>1, <2>2, SameBuilt, SameOp DEF TypeInv
<1>8. CASE UNCHANGED vars
    BY <1>8, TypeStutter
<1> QED
    BY <1>1, <1>2, <1>3, <1>4, <1>5, <1>6, <1>7, <1>8, TypeRetry, TypeResync, TypeClear,
       TypeCrash, TypeReceive DEF Next

(* Every variable keeps its type, and every reference to a commit is to    *)
(* one that was built.                                                     *)
THEOREM TypeCorrect == Spec => []TypeInv
<1> QED
    BY TypeInit, TypeStep, PTL DEF Spec

THEOREM TypeInvariant == Spec => []TypeOK
<1> QED
    BY TypeCorrect, TypeInvImpliesTypeOK, PTL

-----------------------------------------------------------------------------
(* What was built and what was stored stays so. *)

LEMMA CommitsGrow ==
    ASSUME TypeInv, [Next]_vars
    PROVE  /\ \A c \in Built : c \in Built' /\ commits'[c] = commits[c]
           /\ Stored \subseteq Stored'
           /\ LogHeads \subseteq LogHeads'
<1>1. ASSUME NEW d \in Devices, NEW s \in Slots, Start(d, s)
      PROVE  UNCHANGED log /\ \E x \in Commit : commits' = Append(commits, x)
    <2>1. PICK kind \in AllKinds, t \in Devices, members \in SUBSET Devices :
              WriteOptimistic(d, s, kind, t, members)
        BY <1>1, TypeStart
    <2>2. HasGroup(d)
        BY <1>1, TypeStart
    <2>3. state[d].head \in 0 .. Len(commits) /\ state[d].head \in Heads
        BY <2>2, BuiltFacts DEF TypeInv, StateOK, HasGroup, BuiltOrNone
    <2>4. Epoch(state[d]) \in Nat
        BY <2>3, EpochFacts DEF Epoch
    <2>5. [by |-> d, epoch |-> Epoch(state[d]), parent |-> state[d].head,
           kind |-> kind, target |-> t, members |-> members] \in Commit
        BY <2>3, <2>4 DEF Commit
    <2> QED
        BY <2>1, <2>5 DEF WriteOptimistic
<1>2. ASSUME NEW c \in net, Receive(c)
      PROVE  UNCHANGED commits /\ (UNCHANGED log \/ \E x \in CommitIds : log' = Append(log, x))
    BY <1>2, BuiltFacts DEF Receive, ServerStore, ServerKeepsWinner, ServerRejects,
       TypeInv, NetOK
<1>3. ASSUME NEW d \in Devices, NEW s \in Slots,
             RetryPost(d, s) \/ Outcome(d, s) \/ Resync(d, s)
      PROVE  UNCHANGED <<commits, log>>
    BY <1>3 DEF RetryPost, Outcome, Confirm, LostRace, Conflict,
       ReconcileAfterPostCommitFailure, Resync
<1>4. ASSUME NEW d \in Devices,
             Follow(d) \/ TakeWelcome(d) \/ Traffic(d)
      PROVE  UNCHANGED <<commits, log>>
    BY <1>4 DEF Follow, ApplyCommit, TakeWelcome, JoinViaWelcome, IgnoreWelcome, Traffic,
       EncryptMessage, DecryptMessage
<1>5. ASSUME NEW d \in Devices,
             ClearConversationGroup(d) \/ Crash(d) \/ Recover(d)
      PROVE  UNCHANGED <<commits, log>>
    BY <1>5 DEF ClearConversationGroup, Crash, Recover, RecoverOnePendingReprovision,
       RecoverOnePendingRemoval, ResolveMarker
<1>6. /\ UNCHANGED commits \/ \E x \in Commit : commits' = Append(commits, x)
      /\ UNCHANGED log \/ \E x \in CommitIds : log' = Append(log, x)
    BY <1>1, <1>2, <1>3, <1>4, <1>5 DEF Next, vars, LoseRequest
<1>7. \A c \in Built : c \in Built' /\ commits'[c] = commits[c]
    BY <1>6 DEF TypeInv, CommitsOK, Built
<1>8. Stored \subseteq Stored'
    BY <1>6 DEF TypeInv, LogOK, Stored
<1> QED
    BY <1>7, <1>8 DEF LogHeads

-----------------------------------------------------------------------------
(* Whatever the environment does, a device strays only onto its own.       *)

Mine(d, h) == h \in LogHeads \cup {-1} \/ (h \in Built /\ commits[h].by = d)

OwnStates == \A d \in Devices : Mine(d, state[d].head)
OwnMarkers == \A d \in Devices, k \in MarkerKinds : Mine(d, marker[d][k].prev.head)
OwnOps == \A d \in Devices, s \in Slots :
              /\ Mine(d, op[d][s].prev.head)
              /\ op[d][s].reply > 0 => op[d][s].reply \in Stored
WelcomesStored == \A w \in welcomes : w.commit \in Stored
OwnParents == \A c \in Built : Mine(commits[c].by, commits[c].parent)

OwnInv == OwnStates /\ OwnMarkers /\ OwnOps /\ WelcomesStored /\ OwnParents

LEMMA OwnGrows ==
    ASSUME TypeInv, [Next]_vars, NEW d \in Devices, NEW h, Mine(d, h)
    PROVE  Mine(d, h)'
BY CommitsGrow DEF Mine

LEMMA OwnWrite ==
    ASSUME TypeInv, OwnInv, [Next]_vars, NEW d \in Devices, NEW s \in Slots, Start(d, s)
    PROVE  OwnInv'
<1>1. PICK kind \in AllKinds, t \in Devices, members \in SUBSET Devices :
          WriteOptimistic(d, s, kind, t, members)
    BY TypeStart
<1> DEFINE old == state[d]
           c == Len(commits) + 1
           new == Advanced(old, c)
           com == [by |-> d, epoch |-> Epoch(old), parent |-> old.head,
                   kind |-> kind, target |-> t, members |-> members]
           mark == [newEpoch |-> Epoch(old) + 1, prev |-> old]
           o == [pc |-> "posting", kind |-> kind, commit |-> c,
                 prev |-> old, new |-> new, reply |-> 0, retried |-> FALSE]
<1>2. /\ commits' = Append(commits, com)
      /\ state' = [state EXCEPT ![d] = new]
      /\ op' = [op EXCEPT ![d][s] = o]
      /\ UNCHANGED <<log, welcomes>>
    BY <1>1 DEF WriteOptimistic
<1>3. marker' = marker \/ marker' = [marker EXCEPT ![d][kind] = mark]
    BY <1>1 DEF WriteOptimistic
<1>4. new.head = c /\ com.by = d /\ com.parent = old.head /\ mark.prev = old
      /\ o.prev = old /\ o.reply = 0
    BY DEF Advanced
<1>5. c \in Built' /\ commits'[c] = com /\ \A i \in Built' : i = c \/ i \in Built
    BY <1>2, BuiltFacts DEF TypeInv, CommitsOK, Built
<1>6. Stored' = Stored /\ LogHeads' = LogHeads
    BY <1>2 DEF Stored, LogHeads
<1>7. Mine(d, old.head)
    BY DEF OwnInv, OwnStates
<1> HIDE DEF old, c, new, com, mark, o
<1>8. \A e \in Devices : Mine(e, state[e].head)'
    <2> TAKE e \in Devices
    <2>1. CASE state'[e] = new /\ e = d
        BY <1>4, <1>5, <2>1 DEF Mine
    <2>2. CASE state'[e] = state[e]
        BY <2>2, CommitsGrow DEF OwnInv, OwnStates, Mine
    <2> QED
        BY <1>2, <2>1, <2>2 DEF TypeInv, StateOK
<1>9. \A e \in Devices, k \in MarkerKinds : Mine(e, marker[e][k].prev.head)'
    <2> TAKE e \in Devices, k \in MarkerKinds
    <2>1. CASE marker'[e][k] = mark /\ e = d
        BY <1>4, <1>7, <2>1, CommitsGrow DEF Mine
    <2>2. CASE marker'[e][k] = marker[e][k]
        BY <2>2, CommitsGrow DEF OwnInv, OwnMarkers, Mine
    <2>3. (marker'[e][k] = mark /\ e = d) \/ marker'[e][k] = marker[e][k]
        BY <1>3 DEF TypeInv, MarkerOK
    <2> QED
        BY <2>1, <2>2, <2>3
<1>10. \A e \in Devices, z \in Slots :
           Mine(e, op[e][z].prev.head)' /\ (op'[e][z].reply > 0 => op'[e][z].reply \in Stored')
    <2> TAKE e \in Devices, z \in Slots
    <2>1. CASE op'[e][z] = o /\ e = d
        BY <1>4, <1>7, <2>1, CommitsGrow DEF Mine
    <2>2. CASE op'[e][z] = op[e][z]
        BY <1>6, <2>2, CommitsGrow DEF OwnInv, OwnOps, Mine
    <2>3. (op'[e][z] = o /\ e = d) \/ op'[e][z] = op[e][z]
        BY <1>2 DEF TypeInv, OpOK
    <2> QED
        BY <2>1, <2>2, <2>3
<1>11. \A i \in Built' : Mine(commits[i].by, commits[i].parent)'
    <2> TAKE i \in Built'
    <2>1. CASE i = c
        BY <1>4, <1>5, <1>7, <2>1, CommitsGrow DEF Mine
    <2>2. CASE i \in Built
        BY <2>2, CommitsGrow DEF OwnInv, OwnParents, Mine
    <2> QED
        BY <1>5, <2>1, <2>2
<1>12. WelcomesStored'
    BY <1>2, <1>6 DEF OwnInv, WelcomesStored
<1> QED
    BY <1>8, <1>9, <1>10, <1>11, <1>12 DEF OwnInv, OwnStates, OwnMarkers, OwnOps, OwnParents

(* A step that builds no commit: where each group state, marker, slot and  *)
(* Welcome of the next state comes from.                                   *)
StatesFrom == \A e \in Devices :
    \/ state'[e].head \in {state[e].head, -1} \cup LogHeads'
    \/ \E s \in Slots : state'[e] = op[e][s].prev
    \/ \E k \in MarkerKinds : state'[e] = marker[e][k].prev
MarkersFrom == \A e \in Devices, k \in MarkerKinds : marker'[e][k] \in {marker[e][k], NoMarker}
OpsFrom == \A e \in Devices, s \in Slots :
    \/ op'[e][s] = NoOp
    \/ /\ op'[e][s].prev = op[e][s].prev
       /\ op'[e][s].reply \in {op[e][s].reply, 0, -1} \cup Stored'
WelcomesFrom == \A w \in welcomes' : w \in welcomes \/ w.commit \in Stored'

LEMMA OwnKept ==
    ASSUME TypeInv, OwnInv, [Next]_vars, UNCHANGED commits,
           StatesFrom, MarkersFrom, OpsFrom, WelcomesFrom
    PROVE  OwnInv'
<1>1. \A e \in Devices : \A h : Mine(e, h) => Mine(e, h)'
    BY OwnGrows
<1>2. \A e \in Devices : \A h \in LogHeads' \cup {-1} : Mine(e, h)'
    BY DEF Mine
<1>3. OwnStates'
    <2> SUFFICES ASSUME NEW e \in Devices PROVE Mine(e, state[e].head)'
        BY DEF OwnStates
    <2>1. CASE state'[e].head \in {state[e].head, -1} \cup LogHeads'
        BY <1>1, <1>2, <2>1 DEF OwnInv, OwnStates, Mine
    <2>2. CASE \E s \in Slots : state'[e] = op[e][s].prev
        BY <1>1, <2>2 DEF OwnInv, OwnOps, Mine
    <2>3. CASE \E k \in MarkerKinds : state'[e] = marker[e][k].prev
        BY <1>1, <2>3 DEF OwnInv, OwnMarkers, Mine
    <2> QED
        BY <2>1, <2>2, <2>3 DEF StatesFrom
<1>4. OwnMarkers'
    <2> SUFFICES ASSUME NEW e \in Devices, NEW k \in MarkerKinds
                 PROVE  Mine(e, marker[e][k].prev.head)'
        BY DEF OwnMarkers
    <2>1. CASE marker'[e][k] = marker[e][k]
        BY <1>1, <2>1 DEF OwnInv, OwnMarkers, Mine
    <2>2. CASE marker'[e][k] = NoMarker
        BY <2>2, NoneFacts DEF Mine
    <2> QED
        BY <2>1, <2>2 DEF MarkersFrom
<1>5. OwnOps'
    <2> SUFFICES ASSUME NEW e \in Devices, NEW s \in Slots
                 PROVE  /\ Mine(e, op[e][s].prev.head)'
                        /\ op'[e][s].reply > 0 => op'[e][s].reply \in Stored'
        BY DEF OwnOps
    <2>1. CASE op'[e][s] = NoOp
        BY <2>1, NoneFacts DEF Mine
    <2>2. CASE /\ op'[e][s].prev = op[e][s].prev
               /\ op'[e][s].reply \in {op[e][s].reply, 0, -1} \cup Stored'
        BY <1>1, <2>2, CommitsGrow DEF OwnInv, OwnOps, Mine
    <2> QED
        BY <2>1, <2>2 DEF OpsFrom
<1>6. WelcomesStored'
    BY CommitsGrow DEF OwnInv, WelcomesStored, WelcomesFrom
<1>7. OwnParents'
    BY CommitsGrow DEF OwnInv, OwnParents, Mine, Built
<1> QED
    BY <1>3, <1>4, <1>5, <1>6, <1>7 DEF OwnInv

LEMMA FromSame ==
    /\ UNCHANGED state => StatesFrom
    /\ UNCHANGED marker => MarkersFrom
    /\ UNCHANGED op => OpsFrom
    /\ UNCHANGED welcomes => WelcomesFrom
BY DEF StatesFrom, MarkersFrom, OpsFrom, WelcomesFrom

(* The rollbacks, the clears and the replays of a stored commit.           *)
LEMMA StateFrom ==
    ASSUME TypeInv, NEW d \in Devices, NEW b, state' = [state EXCEPT ![d] = b],
           \/ b.head \in {-1} \cup LogHeads'
           \/ b.head = state[d].head
           \/ \E s \in Slots : b = op[d][s].prev
           \/ \E k \in MarkerKinds : b = marker[d][k].prev
    PROVE  StatesFrom
<1> SUFFICES ASSUME NEW e \in Devices
             PROVE  \/ state'[e].head \in {state[e].head, -1} \cup LogHeads'
                    \/ \E s \in Slots : state'[e] = op[e][s].prev
                    \/ \E k \in MarkerKinds : state'[e] = marker[e][k].prev
    BY DEF StatesFrom
<1>1. CASE e # d
    BY <1>1 DEF TypeInv, StateOK
<1>2. CASE e = d
    <2>1. state'[e] = b
        BY <1>2 DEF TypeInv, StateOK
    <2> QED
        BY <1>2, <2>1
<1> QED
    BY <1>1, <1>2

LEMMA MarkerFrom ==
    ASSUME TypeInv, NEW d \in Devices,
           \/ UNCHANGED marker
           \/ marker' = [marker EXCEPT ![d] = [k \in MarkerKinds |-> NoMarker]]
           \/ \E k \in MarkerKinds : marker' = [marker EXCEPT ![d][k] = NoMarker]
    PROVE  MarkersFrom
BY DEF MarkersFrom, TypeInv, MarkerOK

LEMMA FinishFrom ==
    ASSUME TypeInv, NEW d \in Devices, NEW s \in Slots, Finish(d, s)
    PROVE  OpsFrom
<1>1. \A e \in Devices, z \in Slots : op'[e][z] = NoOp \/ op'[e][z] = op[e][z]
    BY DEF Finish, TypeInv, OpOK
<1> QED
    BY <1>1 DEF OpsFrom

LEMMA OwnReceive ==
    ASSUME TypeInv, OwnInv, [Next]_vars, NEW c \in net, Receive(c)
    PROVE  OwnInv'
<1>1. UNCHANGED <<commits, state, marker>> /\ c \in Built
    BY DEF Receive, TypeInv, NetOK
<1>2. ASSUME NEW r \in {-1} \cup Stored', Answer(c, r)
      PROVE  OpsFrom
    <2> SUFFICES ASSUME NEW e \in Devices, NEW s \in Slots
                 PROVE  /\ op'[e][s].prev = op[e][s].prev
                        /\ op'[e][s].reply \in {op[e][s].reply, 0, -1} \cup Stored'
        BY DEF OpsFrom
    <2>1. CASE op'[e][s] = op[e][s]
        BY <2>1
    <2>2. CASE op'[e][s] = [op[e][s] EXCEPT !.reply = r]
        <3> DEFINE q == op[e][s]
        <3>1. q \in Op
            BY DEF TypeInv, OpOK
        <3>2. op'[e][s] = [q EXCEPT !.reply = r]
            BY <2>2
        <3> HIDE DEF q
        <3>3. op'[e][s].prev = q.prev /\ op'[e][s].reply = r
            BY <3>1, <3>2 DEF Op
        <3> QED
            BY <3>3 DEF q
    <2> QED
        BY <1>2, <2>1, <2>2 DEF Answer
<1>3. CASE ServerStore(c)
    <2>1. c \in Stored' /\ Answer(c, c)
        BY <1>1, <1>3 DEF ServerStore, Stored, TypeInv, LogOK, Built
    <2>2. WelcomesFrom
        BY <1>3, <2>1 DEF WelcomesFrom, ServerStore, WelcomesOf
    <2> QED
        BY <1>1, <1>2, <2>1, <2>2, FromSame, OwnKept
<1>4. CASE ServerKeepsWinner(c)
    <2>0. commits[c] \in Commit
        BY <1>1 DEF TypeInv, CommitsOK, Built
    <2>1. commits[c].epoch \in Nat
        BY <2>0 DEF Commit
    <2>2. log[commits[c].epoch + 1] \in Stored'
        BY <1>4, <2>1 DEF ServerKeepsWinner, Stored, TypeInv, LogOK
    <2>3. Answer(c, log[commits[c].epoch + 1]) /\ UNCHANGED welcomes
        BY <1>4 DEF ServerKeepsWinner
    <2> QED
        BY <1>1, <1>2, <2>2, <2>3, FromSame, OwnKept
<1>5. CASE ServerRejects(c)
    BY <1>1, <1>2, <1>5, FromSame, OwnKept DEF ServerRejects
<1> QED
    BY <1>3, <1>4, <1>5 DEF Receive

LEMMA OwnOutcome ==
    ASSUME TypeInv, OwnInv, [Next]_vars, NEW d \in Devices, NEW s \in Slots, Outcome(d, s)
    PROVE  OwnInv'
<1>1. UNCHANGED <<commits, log, welcomes>>
    BY DEF Outcome, Confirm, LostRace, Conflict, ReconcileAfterPostCommitFailure
<1>2. MarkersFrom
    BY MarkerFrom DEF Outcome, Confirm, LostRace, Conflict, Cleared,
       ReconcileAfterPostCommitFailure
<1>3. StatesFrom
    <2>1. \/ UNCHANGED state
          \/ state' = [state EXCEPT ![d] = op[d][s].prev]
          \/ state' = [state EXCEPT ![d] = NoGroup]
        BY DEF Outcome, Confirm, LostRace, Conflict, Cleared, ReconcileAfterPostCommitFailure
    <2> QED
        BY <2>1, FromSame, StateFrom, NoneFacts
<1>4. OpsFrom
    <2>1. Finish(d, s) \/ op' = [op EXCEPT ![d][s].pc = "lost"]
        BY DEF Outcome, Confirm, LostRace, Conflict, ReconcileAfterPostCommitFailure
    <2>2. CASE op' = [op EXCEPT ![d][s].pc = "lost"]
        <3> SUFFICES ASSUME NEW e \in Devices, NEW z \in Slots
                     PROVE  /\ op'[e][z].prev = op[e][z].prev
                            /\ op'[e][z].reply = op[e][z].reply
            BY DEF OpsFrom
        <3> DEFINE q == op[e][z]
        <3>1. q \in Op
            BY DEF TypeInv, OpOK
        <3>2. op'[e][z] = q \/ op'[e][z] = [q EXCEPT !.pc = "lost"]
            BY <2>2 DEF TypeInv, OpOK
        <3> HIDE DEF q
        <3>3. op'[e][z].prev = q.prev /\ op'[e][z].reply = q.reply
            BY <3>1, <3>2 DEF Op
        <3> QED
            BY <3>3 DEF q
    <2> QED
        BY <2>1, <2>2, FinishFrom
<1> QED
    BY <1>1, <1>2, <1>3, <1>4, FromSame, OwnKept

LEMMA OwnRetry ==
    ASSUME TypeInv, OwnInv, [Next]_vars, NEW d \in Devices, NEW s \in Slots, RetryPost(d, s)
    PROVE  OwnInv'
<1>1. /\ UNCHANGED <<commits, log, welcomes, state, marker>>
      /\ op' = [op EXCEPT ![d][s].reply = 0, ![d][s].retried = TRUE]
    BY DEF RetryPost
<1>2. OpsFrom
    <2> SUFFICES ASSUME NEW e \in Devices, NEW z \in Slots
                 PROVE  /\ op'[e][z].prev = op[e][z].prev
                        /\ op'[e][z].reply \in {op[e][z].reply, 0}
        BY DEF OpsFrom
    <2> DEFINE q == op[e][z]
    <2>1. q \in Op
        BY DEF TypeInv, OpOK
    <2>2. op'[e][z] = q \/ op'[e][z] = [q EXCEPT !.reply = 0, !.retried = TRUE]
        BY <1>1 DEF TypeInv, OpOK
    <2> HIDE DEF q
    <2>3. op'[e][z].prev = q.prev /\ op'[e][z].reply \in {q.reply, 0}
        BY <2>1, <2>2 DEF Op
    <2> QED
        BY <2>3 DEF q
<1> QED
    BY <1>1, <1>2, FromSame, OwnKept

LEMMA OwnFollow ==
    ASSUME TypeInv, OwnInv, [Next]_vars, NEW d \in Devices,
           \/ \E s \in Slots : Resync(d, s)
           \/ Follow(d)
           \/ TakeWelcome(d)
    PROVE  OwnInv'
<1>1. UNCHANGED <<commits, log, welcomes, marker>>
    BY DEF Resync, Follow, ApplyCommit, TakeWelcome, JoinViaWelcome, IgnoreWelcome
<1>2. Stored \subseteq LogHeads'
    BY CommitsGrow DEF LogHeads
<1>3. CASE \E s \in Slots : Resync(d, s)
    <2>1. PICK s \in Slots : Resync(d, s)
        BY <1>3
    <2>2. op[d][s].reply \in Stored
        <3>1. op[d][s].reply \in Built
            BY <2>1 DEF Resync, TypeInv, OpOK, RefsOK
        <3> QED
            BY <3>1 DEF OwnInv, OwnOps, Built
    <2>3. \/ UNCHANGED state
          \/ state' = [state EXCEPT ![d] = Advanced(state[d], op[d][s].reply)]
        BY <2>1 DEF Resync
    <2>4. Advanced(state[d], op[d][s].reply).head \in LogHeads'
        BY <1>2, <2>2 DEF Advanced
    <2>5. StatesFrom
        BY <2>3, <2>4, FromSame, StateFrom
    <2>6. OpsFrom
        BY <2>1, FinishFrom DEF Resync
    <2> QED
        BY <1>1, <2>5, <2>6, FromSame, OwnKept
<1>4. CASE Follow(d)
    <2>1. PICK c \in 1 .. Len(commits) : ApplyCommit(d, c)
        BY <1>4 DEF Follow
    <2>2. Advanced(state[d], c).head \in LogHeads'
        BY <1>2, <2>1 DEF ApplyCommit, Advanced
    <2>3. StatesFrom
        BY <2>1, <2>2, StateFrom DEF ApplyCommit
    <2> QED
        BY <1>1, <2>1, <2>3, FromSame, OwnKept DEF ApplyCommit
<1>5. CASE TakeWelcome(d)
    <2>1. PICK w \in welcomes : JoinViaWelcome(d, w) \/ IgnoreWelcome(d, w)
        BY <1>5 DEF TakeWelcome
    <2>2. Joined(w.commit).head \in LogHeads'
        BY <1>2 DEF OwnInv, WelcomesStored, Joined
    <2>3. UNCHANGED op /\ (UNCHANGED state \/ state' = [state EXCEPT ![d] = Joined(w.commit)])
        BY <2>1 DEF JoinViaWelcome, IgnoreWelcome
    <2>4. StatesFrom
        BY <2>2, <2>3, FromSame, StateFrom
    <2> QED
        BY <1>1, <2>3, <2>4, FromSame, OwnKept
<1> QED
    BY <1>3, <1>4, <1>5

LEMMA OwnTraffic ==
    ASSUME TypeInv, OwnInv, [Next]_vars, NEW d \in Devices, Traffic(d)
    PROVE  OwnInv'
<1>1. UNCHANGED <<commits, log, welcomes, marker, op>>
    BY DEF Traffic, EncryptMessage, DecryptMessage
<1> DEFINE q == state[d]
<1>2. \/ state' = [state EXCEPT ![d] = [q EXCEPT !.gen = @ + 1]]
      \/ \E i \in 1 .. Len(messages) : state' = [state EXCEPT ![d] = [q EXCEPT !.seen = @ \cup {i}]]
    BY DEF Traffic, EncryptMessage, DecryptMessage, TypeInv, StateOK
<1>3. q \in Blob
    BY DEF TypeInv, StateOK
<1> HIDE DEF q
<1>4. /\ [q EXCEPT !.gen = @ + 1].head = q.head
      /\ \A i : [q EXCEPT !.seen = @ \cup {i}].head = q.head
    BY <1>3 DEF Blob
<1>5. StatesFrom
    BY <1>2, <1>4, StateFrom DEF q
<1> QED
    BY <1>1, <1>5, FromSame, OwnKept

LEMMA OwnLocal ==
    ASSUME TypeInv, OwnInv, [Next]_vars, NEW d \in Devices,
           ClearConversationGroup(d) \/ Crash(d) \/ Recover(d)
    PROVE  OwnInv'
<1>1. CASE ClearConversationGroup(d)
    <2>1. StatesFrom
        BY <1>1, NoneFacts, StateFrom DEF ClearConversationGroup, Cleared
    <2>2. MarkersFrom
        BY <1>1, MarkerFrom DEF ClearConversationGroup, Cleared
    <2> QED
        BY <1>1, <2>1, <2>2, FromSame, OwnKept DEF ClearConversationGroup
<1>2. CASE Crash(d)
    <2>1. \A e \in Devices, s \in Slots : op'[e][s] = NoOp \/ op'[e][s] = op[e][s]
        BY <1>2 DEF Crash, TypeInv, OpOK
    <2>2. OpsFrom
        BY <2>1 DEF OpsFrom
    <2> QED
        BY <1>2, <2>2, FromSame, OwnKept DEF Crash
<1>3. ASSUME NEW k \in MarkerKinds, ResolveMarker(d, k)
      PROVE  OwnInv'
    <2>1. StatesFrom
        BY <1>3, FromSame, StateFrom DEF ResolveMarker
    <2>2. MarkersFrom
        BY <1>3, MarkerFrom DEF ResolveMarker
    <2> QED
        BY <1>3, <2>1, <2>2, FromSame, OwnKept DEF ResolveMarker
<1> QED
    BY <1>1, <1>2, <1>3 DEF Recover, RecoverOnePendingReprovision, RecoverOnePendingRemoval

LEMMA OwnInit == Init => OwnInv
<1> SUFFICES ASSUME Init PROVE OwnInv
    OBVIOUS
<1>1. OwnStates
    BY DEF Init, OwnStates, Mine, LogHeads, Founded, NoGroup
<1>2. OwnMarkers
    BY NoneFacts DEF Init, OwnMarkers, Mine
<1>3. OwnOps
    BY NoneFacts DEF Init, OwnOps, Mine
<1> QED
    BY <1>1, <1>2, <1>3 DEF Init, OwnInv, WelcomesStored, OwnParents, Built

LEMMA OwnStep == TypeInv /\ OwnInv /\ [Next]_vars => OwnInv'
<1> SUFFICES ASSUME TypeInv, OwnInv, [Next]_vars PROVE OwnInv'
    OBVIOUS
<1>1. ASSUME NEW c \in net, LoseRequest(c) PROVE OwnInv'
    BY <1>1, FromSame, OwnKept DEF LoseRequest
<1>2. CASE UNCHANGED vars
    BY <1>2, FromSame, OwnKept DEF vars
<1> QED
    BY <1>1, <1>2, OwnWrite, OwnRetry, OwnOutcome, OwnFollow, OwnTraffic, OwnLocal,
       OwnReceive DEF Next

THEOREM OwnCorrect == Spec => []OwnInv
<1> QED
    BY TypeCorrect, OwnInit, OwnStep, PTL DEF Spec

(* Whatever is lost, retried, crashed or started too early, a device whose *)
(* group state is not of the server's log holds a commit it built itself.  *)
THEOREM OffLogStatesAreOwn == Spec => []OffLogIsOwn
<1>1. TypeInv /\ OwnInv => OffLogIsOwn
    BY DEF OwnInv, OwnStates, Mine, OffLogIsOwn, HasGroup
<1> QED
    BY <1>1, TypeCorrect, OwnCorrect, PTL

(* Nor does any device ever build on the unpublished commit of another.    *)
THEOREM PhantomsStayLocal == Spec => []PhantomsAreNotShared
<1>1. TypeInv /\ OwnInv => PhantomsAreNotShared
    <2> SUFFICES ASSUME TypeInv, OwnInv, NEW c \in Built, commits[c].parent \notin LogHeads
                 PROVE  commits[commits[c].parent].by = commits[c].by
        BY DEF PhantomsAreNotShared, Built
    <2>1. commits[c] \in Commit
        BY DEF TypeInv, CommitsOK, Built
    <2> QED
        BY <2>1 DEF OwnInv, OwnParents, Mine, Commit
<1> QED
    BY <1>1, TypeCorrect, OwnCorrect, PTL

-----------------------------------------------------------------------------
(***************************************************************************)
(* The calm environment: an operation waits until the one before it is     *)
(* settled, messages and Welcomes wait for the operation, and the app does *)
(* not die while provisionDevice is posting.  Requests and answers are     *)
(* still lost, retried, rejected and raced, and the app still crashes in   *)
(* the two operations that leave a marker.                                 *)
(***************************************************************************)

(* The inductive invariant. *)

(* The position of a commit in the log is its epoch, and every commit ever *)
(* built was built on a state of the log.                                  *)
EpochsMatch ==
    /\ \A i \in 1 .. Len(log) : commits[log[i]].epoch = i - 1
    /\ \A c \in Built : commits[c].epoch = EpochAfter(commits[c].parent)
ParentsInLog == \A c \in Built : commits[c].parent \in LogHeads

(* A rollback, from a marker or from an operation, leads back to the log.  *)
MarkersMatch ==
    \A d \in Devices, k \in MarkerKinds : marker[d][k] # NoMarker =>
        /\ marker[d][k].prev.head \in LogHeads
        /\ marker[d][k].newEpoch = Epoch(marker[d][k].prev) + 1
OpsMatch ==
    \A d \in Devices, s \in Slots : op[d][s].pc # "idle" =>
        /\ op[d][s].kind \in AllKinds
        /\ op[d][s].prev.head = commits[op[d][s].commit].parent
        /\ op[d][s].new.head = op[d][s].commit
        /\ commits[op[d][s].commit].by = d
        /\ op[d][s].reply > 0 =>
               /\ op[d][s].reply \in Stored
               /\ commits[op[d][s].reply].epoch = commits[op[d][s].commit].epoch

(* One operation at a time, and nothing older of the same device that the  *)
(* server could take for it.                                               *)
OneOp ==
    \A d \in Devices : \A s, z \in Slots :
        op[d][s].pc # "idle" /\ op[d][z].pc # "idle" => s = z
OneRequest ==
    \A d \in Devices, s \in Slots : op[d][s].pc = "posting" =>
        /\ \A c \in net : commits[c].by = d => c = op[d][s].commit
        /\ \A c \in Stored :
              /\ commits[c].by = d
              /\ commits[c].epoch = commits[op[d][s].commit].epoch
              => c = op[d][s].commit

(* A state that is not of the log is the one the operation under way       *)
(* wrote, or has a live marker to be rolled back by.                       *)
Posting(d, s) == op[d][s].pc = "posting"
Phantom(d) == HasGroup(d) /\ state[d].head \notin LogHeads
Explained(d) == Phantom(d) =>
    /\ \A s \in Slots : Posting(d, s) =>
          /\ state[d] = op[d][s].new
          /\ op[d][s].kind \in MarkerKinds => Live(d, op[d][s].kind)
    /\ (\A s \in Slots : ~Posting(d, s)) => \E k \in MarkerKinds : Live(d, k)
PhantomsExplained == \A d \in Devices : Explained(d)

CalmInv == /\ EpochsMatch /\ ParentsInLog /\ MarkersMatch /\ OpsMatch
           /\ OneOp /\ OneRequest /\ PhantomsExplained /\ SuccessMeansStored

-----------------------------------------------------------------------------
(* Facts about one state. *)

LEMMA StoredBuilt == TypeInv => Stored \subseteq Built
BY DEF TypeInv, LogOK, Stored

(* A state of the log is known by its epoch. *)
LEMMA HeadAt ==
    ASSUME TypeInv, EpochsMatch, NEW h \in LogHeads
    PROVE  \/ h = 0 /\ EpochAfter(h) = 0
           \/ h \in Built /\ EpochAfter(h) \in 1 .. Len(log) /\ h = log[EpochAfter(h)]
<1>1. CASE h = 0
    BY <1>1 DEF EpochAfter
<1>2. CASE h \in Stored
    <2>1. PICK i \in 1 .. Len(log) : h = log[i]
        BY <1>2 DEF Stored
    <2>2. h \in Built /\ h # 0 /\ Len(log) \in Nat
        BY <2>1 DEF TypeInv, LogOK, Built
    <2>3. EpochAfter(h) = (i - 1) + 1
        BY <2>1, <2>2 DEF EpochsMatch, EpochAfter
    <2> QED
        BY <2>1, <2>2, <2>3
<1> QED
    BY <1>1, <1>2 DEF LogHeads

LEMMA SameEpochSameHead ==
    ASSUME TypeInv, EpochsMatch, NEW g \in LogHeads, NEW h \in LogHeads,
           EpochAfter(g) = EpochAfter(h)
    PROVE  g = h
BY HeadAt DEF TypeInv, LogOK

(* A device with nothing unresolved is not on a phantom. *)
LEMMA QuietIsNoPhantom ==
    ASSUME PhantomsExplained, NEW d \in Devices, Quiet(d)
    PROVE  ~Phantom(d)
BY DEF Quiet, PhantomsExplained, Explained, Posting, Phantom

(* Nor is one whose operation no longer owns the group state. *)
LEMMA OverwrittenIsNoPhantom ==
    ASSUME PhantomsExplained, NEW d \in Devices, NEW s \in Slots, Posting(d, s),
           ~StillOwnWrite(d, s)
    PROVE  ~Phantom(d)
BY DEF PhantomsExplained, Explained, StillOwnWrite

-----------------------------------------------------------------------------
(* Steps that build no commit. *)

(* How such a step may change the operations, the requests and the log. *)
OpsFollow ==
    \A d \in Devices, s \in Slots : op'[d][s].pc # "idle" =>
        /\ op[d][s].pc # "idle"
        /\ op'[d][s].pc = "posting" => op[d][s].pc = "posting"
        /\ op'[d][s].kind = op[d][s].kind
        /\ op'[d][s].commit = op[d][s].commit
        /\ op'[d][s].prev = op[d][s].prev
        /\ op'[d][s].new = op[d][s].new
        /\ op'[d][s].reply > 0 =>
               /\ op'[d][s].reply \in Stored'
               /\ commits[op'[d][s].reply].epoch = commits[op[d][s].commit].epoch
RequestsFollow ==
    /\ \A c \in net' :
          c \in net \/ \E d \in Devices, s \in Slots : Posting(d, s) /\ c = op[d][s].commit
    /\ \A c \in Stored' : c \in Stored \/ c \in net

LEMMA OpsKept ==
    ASSUME TypeInv, OpsMatch, OneOp, OneRequest, UNCHANGED commits, OpsFollow, RequestsFollow
    PROVE  OpsMatch' /\ OneOp' /\ OneRequest'
<1>1. OpsMatch'
    BY DEF OpsMatch, OpsFollow
<1>2. OneOp'
    BY DEF OneOp, OpsFollow
<1>3. OneRequest'
    <2> SUFFICES ASSUME NEW d \in Devices, NEW s \in Slots, op'[d][s].pc = "posting"
                 PROVE  /\ \A c \in net' : commits[c].by = d => c = op'[d][s].commit
                        /\ \A c \in Stored' :
                              /\ commits[c].by = d
                              /\ commits[c].epoch = commits[op'[d][s].commit].epoch
                              => c = op'[d][s].commit
        BY DEF OneRequest
    <2>1. Posting(d, s) /\ op'[d][s].commit = op[d][s].commit
        BY DEF OpsFollow, Posting
    <2>2. ASSUME NEW c \in net', commits[c].by = d PROVE c = op[d][s].commit
        <3>1. CASE c \in net
            BY <2>1, <2>2, <3>1 DEF OneRequest, Posting
        <3>2. ASSUME NEW e \in Devices, NEW z \in Slots, Posting(e, z), c = op[e][z].commit
              PROVE  c = op[d][s].commit
            <4>1. e = d
                BY <2>2, <3>2 DEF OpsMatch, Posting
            <4> QED
                BY <2>1, <3>2, <4>1 DEF OneOp, Posting
        <3> QED
            BY <3>1, <3>2 DEF RequestsFollow
    <2>3. ASSUME NEW c \in Stored', commits[c].by = d,
                 commits[c].epoch = commits[op[d][s].commit].epoch
          PROVE  c = op[d][s].commit
        BY <2>1, <2>3 DEF OneRequest, RequestsFollow, Posting
    <2> QED
        BY <2>1, <2>2, <2>3
<1> QED
    BY <1>1, <1>2, <1>3

LEMMA MarkersKept ==
    ASSUME MarkersMatch, UNCHANGED commits, LogHeads \subseteq LogHeads', MarkersFrom
    PROVE  MarkersMatch'
BY DEF MarkersMatch, MarkersFrom, Epoch, EpochAfter

LEMMA HistoryKept ==
    ASSUME EpochsMatch, ParentsInLog, UNCHANGED <<commits, log>>
    PROVE  EpochsMatch' /\ ParentsInLog'
BY DEF EpochsMatch, ParentsInLog, Built, LogHeads, Stored, EpochAfter

(* A phantom that the step does not touch stays explained. *)
LEMMA StillExplained ==
    ASSUME NEW d \in Devices, Explained(d), UNCHANGED commits, LogHeads \subseteq LogHeads',
           state'[d] = state[d], marker'[d] = marker[d],
           \A s \in Slots : /\ Posting(d, s)' <=> Posting(d, s)
                            /\ Posting(d, s) => /\ op'[d][s].new = op[d][s].new
                                                /\ op'[d][s].kind = op[d][s].kind
    PROVE  Explained(d)'
<1>1. Phantom(d)' => Phantom(d)
    BY DEF Phantom, HasGroup
<1>2. \A k : Live(d, k)' <=> Live(d, k)
    BY DEF Live, Epoch, EpochAfter
<1> QED
    BY <1>1, <1>2 DEF Explained, Phantom

LEMMA OthersExplained ==
    ASSUME PhantomsExplained, UNCHANGED commits, LogHeads \subseteq LogHeads',
           NEW d \in Devices, Explained(d)',
           \A e \in Devices \ {d} :
               state'[e] = state[e] /\ marker'[e] = marker[e] /\ op'[e] = op[e]
    PROVE  PhantomsExplained'
<1> SUFFICES ASSUME NEW e \in Devices \ {d} PROVE Explained(e)'
    BY DEF PhantomsExplained
<1>1. \A s \in Slots : Posting(e, s)' <=> Posting(e, s)
    BY DEF Posting
<1> QED
    BY <1>1, StillExplained DEF PhantomsExplained

LEMMA OnLogIsExplained ==
    ASSUME NEW d \in Devices, state'[d].head = -1 \/ state'[d].head \in LogHeads'
    PROVE  Explained(d)'
BY DEF Explained, Phantom, HasGroup

LEMMA OpsFollowSame ==
    ASSUME OpsMatch, UNCHANGED commits, Stored \subseteq Stored',
           \A d \in Devices, s \in Slots : op'[d][s] = NoOp \/ op'[d][s] = op[d][s]
    PROVE  OpsFollow
BY NoneFacts DEF OpsFollow, OpsMatch

LEMMA OpsFollowFinish ==
    ASSUME TypeInv, OpsMatch, UNCHANGED <<commits, log>>, NEW d \in Devices, NEW s \in Slots,
           Finish(d, s)
    PROVE  /\ OpsFollow
           /\ op'[d][s] = NoOp
           /\ \A z \in Slots \ {s} : op'[d][z] = op[d][z]
           /\ \A e \in Devices \ {d} : op'[e] = op[e]
<1>1. /\ op'[d][s] = NoOp
      /\ \A z \in Slots \ {s} : op'[d][z] = op[d][z]
      /\ \A e \in Devices \ {d} : op'[e] = op[e]
    BY DEF Finish, TypeInv, OpOK
<1>2. \A e \in Devices, z \in Slots : op'[e][z] = NoOp \/ op'[e][z] = op[e][z]
    BY <1>1
<1> QED
    BY <1>1, <1>2, OpsFollowSame DEF Stored

LEMMA CalmKept ==
    ASSUME TypeInv, CalmInv, [Next]_vars, UNCHANGED <<commits, log>>,
           OpsFollow, RequestsFollow, MarkersFrom, acked' \subseteq Stored, PhantomsExplained'
    PROVE  CalmInv'
<1>1. EpochsMatch' /\ ParentsInLog'
    BY HistoryKept DEF CalmInv
<1>2. MarkersMatch'
    BY CommitsGrow, MarkersKept DEF CalmInv
<1>3. OpsMatch' /\ OneOp' /\ OneRequest'
    BY OpsKept DEF CalmInv
<1>4. SuccessMeansStored'
    BY DEF SuccessMeansStored, Stored
<1> QED
    BY <1>1, <1>2, <1>3, <1>4 DEF CalmInv

(* Of a step of d alone, only d's own explanation is to be shown. *)
LEMMA CalmKeptBy ==
    ASSUME TypeInv, CalmInv, [Next]_vars, UNCHANGED <<commits, log>>,
           OpsFollow, RequestsFollow, MarkersFrom, acked' \subseteq Stored,
           NEW d \in Devices, Explained(d)',
           \A e \in Devices \ {d} :
               state'[e] = state[e] /\ marker'[e] = marker[e] /\ op'[e] = op[e]
    PROVE  CalmInv'
BY CalmKept, OthersExplained, CommitsGrow DEF CalmInv

-----------------------------------------------------------------------------
(* The answers of the server. *)

(* The answer an operation holds is its own commit, or another device's    *)
(* commit of the same epoch.                                               *)
LEMMA ReplyIsMine ==
    ASSUME CalmInv, NEW d \in Devices, NEW s \in Slots, Posting(d, s),
           op[d][s].reply > 0, IsMine(d, s)
    PROVE  op[d][s].reply = op[d][s].commit /\ op[d][s].commit \in Stored
BY DEF CalmInv, OpsMatch, OneRequest, IsMine, Posting

LEMMA OutcomeFrame ==
    ASSUME TypeInv, NEW d \in Devices, NEW s \in Slots, Outcome(d, s)
    PROVE  /\ UNCHANGED <<commits, log, net, welcomes>>
           /\ \A e \in Devices \ {d} : state'[e] = state[e] /\ marker'[e] = marker[e]
           /\ MarkersFrom
           /\ RequestsFollow
           /\ Posting(d, s)
<1>1. UNCHANGED <<commits, log, net, welcomes>>
    BY DEF Outcome, Confirm, LostRace, Conflict, ReconcileAfterPostCommitFailure
<1>2. MarkersFrom
    BY MarkerFrom DEF Outcome, Confirm, LostRace, Conflict, Cleared,
       ReconcileAfterPostCommitFailure
<1>3. \A e \in Devices \ {d} : state'[e] = state[e]
    BY DEF Outcome, Confirm, LostRace, Conflict, Cleared, ReconcileAfterPostCommitFailure,
       TypeInv, StateOK
<1>4. \A e \in Devices \ {d} : marker'[e] = marker[e]
    BY DEF Outcome, Confirm, LostRace, Conflict, Cleared, ReconcileAfterPostCommitFailure,
       TypeInv, MarkerOK
<1>5. RequestsFollow
    BY <1>1 DEF RequestsFollow, Stored
<1>6. Posting(d, s)
    BY DEF Outcome, Confirm, LostRace, Conflict, ReconcileAfterPostCommitFailure, Posting
<1> QED
    BY <1>1, <1>2, <1>3, <1>4, <1>5, <1>6

LEMMA CalmConfirm ==
    ASSUME TypeInv, CalmInv, [Next]_vars, NEW d \in Devices, NEW s \in Slots, Confirm(d, s)
    PROVE  CalmInv'
<1>1. /\ UNCHANGED <<commits, log, net, welcomes>> /\ MarkersFrom /\ RequestsFollow
      /\ Posting(d, s)
      /\ \A e \in Devices \ {d} : state'[e] = state[e] /\ marker'[e] = marker[e]
    BY OutcomeFrame DEF Outcome
<1>2. OpsFollow /\ \A e \in Devices \ {d} : op'[e] = op[e]
    BY <1>1, OpsFollowFinish DEF Confirm, CalmInv
<1>3. op[d][s].commit \in Stored
    BY <1>1, ReplyIsMine DEF Confirm
<1>4. acked' \subseteq Stored
    BY <1>3 DEF Confirm, CalmInv, SuccessMeansStored
<1>5. ~Phantom(d)
    <2>1. Phantom(d) => state[d].head = op[d][s].commit
        BY <1>1 DEF CalmInv, PhantomsExplained, Explained, OpsMatch, Posting
    <2> QED
        BY <1>3, <2>1 DEF Phantom, LogHeads
<1>6. Explained(d)'
    BY <1>1, <1>5 DEF Confirm, Explained, Phantom, HasGroup, LogHeads, Stored
<1> QED
    BY <1>1, <1>2, <1>4, <1>6, CalmKeptBy

LEMMA CalmLostRace ==
    ASSUME TypeInv, CalmInv, [Next]_vars, NEW d \in Devices, NEW s \in Slots, LostRace(d, s)
    PROVE  CalmInv'
<1>1. /\ UNCHANGED <<commits, log, net, welcomes>> /\ MarkersFrom /\ RequestsFollow
      /\ Posting(d, s)
      /\ \A e \in Devices \ {d} : state'[e] = state[e] /\ marker'[e] = marker[e]
    BY OutcomeFrame DEF Outcome
<1> DEFINE q == op[d][s]
           o == [q EXCEPT !.pc = "lost"]
<1>2. /\ op'[d][s] = o
      /\ \A z \in Slots \ {s} : op'[d][z] = op[d][z]
      /\ \A e \in Devices \ {d} : op'[e] = op[e]
    BY DEF LostRace, TypeInv, OpOK
<1>3. q \in Op
    BY DEF TypeInv, OpOK
<1>4. /\ o.kind = q.kind /\ o.commit = q.commit /\ o.prev = q.prev /\ o.new = q.new
      /\ o.reply = q.reply /\ o.pc = "lost"
    <2> HIDE DEF q
    <2> QED
        BY <1>3 DEF Op
<1>5. OpsFollow
    <2> SUFFICES ASSUME NEW e \in Devices, NEW z \in Slots, op'[e][z].pc # "idle"
                 PROVE  /\ op[e][z].pc # "idle"
                        /\ op'[e][z].pc = "posting" => op[e][z].pc = "posting"
                        /\ op'[e][z].kind = op[e][z].kind
                        /\ op'[e][z].commit = op[e][z].commit
                        /\ op'[e][z].prev = op[e][z].prev
                        /\ op'[e][z].new = op[e][z].new
                        /\ op'[e][z].reply = op[e][z].reply
        BY <1>1 DEF OpsFollow, CalmInv, OpsMatch, Stored
    <2>1. CASE e = d /\ z = s
        BY <1>1, <1>2, <1>4, <2>1 DEF Posting
    <2>2. CASE ~(e = d /\ z = s)
        BY <1>2, <2>2
    <2> QED
        BY <2>1, <2>2
<1>6. Explained(d)'
    <2>1. CASE StillOwnWrite(d, s)
        <3>1. state'[d] = q.prev
            BY <2>1 DEF LostRace, TypeInv, StateOK
        <3>2. q.prev.head \in LogHeads'
            <4>1. q.commit \in Built
                BY <1>1 DEF TypeInv, OpOK, RefsOK, Posting
            <4> QED
                BY <1>1, <4>1, CommitsGrow DEF CalmInv, OpsMatch, ParentsInLog, Posting
        <3> QED
            BY <3>1, <3>2, OnLogIsExplained
    <2>2. CASE ~StillOwnWrite(d, s)
        <3>1. ~Phantom(d) /\ state' = state
            BY <1>1, <2>2, OverwrittenIsNoPhantom DEF LostRace, CalmInv
        <3> QED
            BY <1>1, <3>1 DEF Explained, Phantom, HasGroup, LogHeads, Stored
    <2> QED
        BY <2>1, <2>2
<1> QED
    BY <1>1, <1>2, <1>5, <1>6, CalmKeptBy DEF LostRace, CalmInv, SuccessMeansStored

LEMMA CalmConflict ==
    ASSUME TypeInv, CalmInv, [Next]_vars, NEW d \in Devices, NEW s \in Slots, Conflict(d, s)
    PROVE  CalmInv'
<1>1. /\ UNCHANGED <<commits, log, net, welcomes>> /\ MarkersFrom /\ RequestsFollow
      /\ \A e \in Devices \ {d} : state'[e] = state[e] /\ marker'[e] = marker[e]
    BY OutcomeFrame DEF Outcome
<1>2. OpsFollow /\ \A e \in Devices \ {d} : op'[e] = op[e]
    BY <1>1, OpsFollowFinish DEF Conflict, CalmInv
<1>3. Explained(d)'
    BY NoneFacts, OnLogIsExplained DEF Conflict, Cleared, TypeInv, StateOK
<1> QED
    BY <1>1, <1>2, <1>3, CalmKeptBy DEF Conflict, CalmInv, SuccessMeansStored

LEMMA CalmReconcile ==
    ASSUME TypeInv, CalmInv, [Next]_vars, NEW d \in Devices, NEW s \in Slots,
           ReconcileAfterPostCommitFailure(d, s)
    PROVE  CalmInv'
<1>1. /\ UNCHANGED <<commits, log, net, welcomes>> /\ MarkersFrom /\ RequestsFollow
      /\ Posting(d, s)
      /\ \A e \in Devices \ {d} : state'[e] = state[e] /\ marker'[e] = marker[e]
    BY OutcomeFrame DEF Outcome
<1>2. OpsFollow /\ \A e \in Devices \ {d} : op'[e] = op[e]
    BY <1>1, OpsFollowFinish DEF ReconcileAfterPostCommitFailure, CalmInv
<1>3. Explained(d)'
    <2>1. CASE StillOwnWrite(d, s)
        <3>1. state'[d] = op[d][s].prev
            BY <2>1 DEF ReconcileAfterPostCommitFailure, TypeInv, StateOK
        <3>2. op[d][s].prev.head \in LogHeads'
            <4>1. op[d][s].commit \in Built
                BY <1>1 DEF TypeInv, OpOK, RefsOK, Posting
            <4> QED
                BY <1>1, <4>1, CommitsGrow DEF CalmInv, OpsMatch, ParentsInLog, Posting
        <3> QED
            BY <3>1, <3>2, OnLogIsExplained
    <2>2. CASE ~StillOwnWrite(d, s)
        <3>1. ~Phantom(d) /\ state' = state
            BY <1>1, <2>2, OverwrittenIsNoPhantom DEF ReconcileAfterPostCommitFailure, CalmInv
        <3> QED
            BY <1>1, <3>1 DEF Explained, Phantom, HasGroup, LogHeads, Stored
    <2> QED
        BY <2>1, <2>2
<1> QED
    BY <1>1, <1>2, <1>3, CalmKeptBy DEF ReconcileAfterPostCommitFailure, CalmInv,
       SuccessMeansStored

-----------------------------------------------------------------------------
(* Following the log, Welcomes and traffic. *)

LEMMA SameStateExplained ==
    ASSUME CalmInv, NEW d \in Devices, UNCHANGED <<commits, log>>,
           state'[d] = state[d], marker'[d] = marker[d], op'[d] = op[d]
    PROVE  Explained(d)'
<1>1. LogHeads' = LogHeads /\ \A s \in Slots : Posting(d, s)' <=> Posting(d, s)
    BY DEF LogHeads, Stored, Posting
<1> QED
    BY <1>1, StillExplained DEF CalmInv, PhantomsExplained

LEMMA SameRequests == UNCHANGED <<net, log>> => RequestsFollow
BY DEF RequestsFollow, Stored

LEMMA CalmResync ==
    ASSUME TypeInv, CalmInv, [Next]_vars, NEW d \in Devices, NEW s \in Slots, Resync(d, s)
    PROVE  CalmInv'
<1>1. /\ UNCHANGED <<commits, log, net, welcomes, marker, digests, messages, acked>>
      /\ Finish(d, s) /\ op[d][s].pc = "lost"
    BY DEF Resync
<1>2. /\ OpsFollow /\ op'[d][s] = NoOp /\ \A z \in Slots \ {s} : op'[d][z] = op[d][z]
      /\ \A e \in Devices \ {d} : op'[e] = op[e]
    BY <1>1, OpsFollowFinish DEF CalmInv
<1> DEFINE w == op[d][s].reply
<1>3. w \in Stored
    <2>1. w \in Built
        BY <1>1 DEF TypeInv, OpOK, RefsOK
    <2> QED
        BY <1>1, <2>1 DEF CalmInv, OpsMatch, Built
<1>4. Explained(d)'
    <2>1. CASE CanApply(d, w)
        <3>1. state'[d] = Advanced(state[d], w)
            BY <2>1 DEF Resync, TypeInv, StateOK
        <3> QED
            BY <1>1, <1>3, <3>1, OnLogIsExplained DEF Advanced, LogHeads, Stored
    <2>2. CASE ~CanApply(d, w)
        <3>1. state' = state
            BY <2>2 DEF Resync
        <3>2. \A z \in Slots : /\ Posting(d, z)' <=> Posting(d, z)
                               /\ Posting(d, z) => op'[d][z] = op[d][z]
            BY <1>1, <1>2, NoneFacts DEF Posting
        <3> QED
            BY <1>1, <3>1, <3>2, StillExplained DEF CalmInv, PhantomsExplained, LogHeads, Stored
    <2> QED
        BY <2>1, <2>2
<1>5. \A e \in Devices \ {d} : state'[e] = state[e]
    BY DEF Resync, TypeInv, StateOK
<1> QED
    BY <1>1, <1>2, <1>4, <1>5, CalmKeptBy, FromSame, SameRequests DEF CalmInv, SuccessMeansStored

(* A step that leaves the operations and the markers alone and brings d to *)
(* a state of the log, or leaves it where it was.                          *)
LEMMA CalmMoves ==
    ASSUME TypeInv, CalmInv, [Next]_vars, NEW d \in Devices, NEW b,
           UNCHANGED <<commits, log, net, marker, op, acked>>,
           state' = [state EXCEPT ![d] = b], b.head \in LogHeads \/ b.head = -1
    PROVE  CalmInv'
<1>1. state'[d] = b /\ \A e \in Devices \ {d} : state'[e] = state[e]
    BY DEF TypeInv, StateOK
<1>2. Explained(d)'
    BY <1>1, OnLogIsExplained DEF LogHeads, Stored
<1>3. OpsFollow
    BY OpsFollowSame DEF CalmInv, Stored
<1> QED
    BY <1>1, <1>2, <1>3, CalmKeptBy, FromSame, SameRequests DEF CalmInv, SuccessMeansStored

LEMMA CalmSame ==
    ASSUME TypeInv, CalmInv, [Next]_vars,
           UNCHANGED <<commits, log, marker, op, state, acked>>, net' \subseteq net
    PROVE  CalmInv'
<1>1. OpsFollow /\ RequestsFollow
    BY OpsFollowSame DEF CalmInv, RequestsFollow, Stored
<1>2. PhantomsExplained'
    BY SameStateExplained DEF PhantomsExplained
<1> QED
    BY <1>1, <1>2, CalmKept, FromSame DEF CalmInv, SuccessMeansStored

LEMMA CalmFollow ==
    ASSUME TypeInv, CalmInv, [Next]_vars, NEW d \in Devices, Follow(d)
    PROVE  CalmInv'
<1>1. PICK c \in 1 .. Len(commits) : ApplyCommit(d, c)
    BY DEF Follow
<1>2. Advanced(state[d], c).head \in LogHeads
    BY <1>1 DEF ApplyCommit, Advanced, LogHeads
<1> QED
    BY <1>1, <1>2, CalmMoves DEF ApplyCommit

LEMMA CalmWelcome ==
    ASSUME TypeInv, OwnInv, CalmInv, [Next]_vars, NEW d \in Devices, TakeWelcome(d)
    PROVE  CalmInv'
<1>1. PICK w \in welcomes : JoinViaWelcome(d, w) \/ IgnoreWelcome(d, w)
    BY DEF TakeWelcome
<1>2. CASE JoinViaWelcome(d, w)
    <2>1. Joined(w.commit).head \in LogHeads
        BY DEF OwnInv, WelcomesStored, Joined, LogHeads
    <2> QED
        BY <1>2, <2>1, CalmMoves DEF JoinViaWelcome
<1>3. CASE IgnoreWelcome(d, w)
    BY <1>3, CalmSame DEF IgnoreWelcome
<1> QED
    BY <1>1, <1>2, <1>3

LEMMA CalmTraffic ==
    ASSUME Calm, TypeInv, CalmInv, [Next]_vars, NEW d \in Devices, Traffic(d)
    PROVE  CalmInv'
<1>1. UNCHANGED <<commits, log, net, marker, op, acked>> /\ Quiet(d) /\ HasGroup(d)
    BY DEF Traffic, EncryptMessage, DecryptMessage, MayDisturb, Calm
<1> DEFINE q == state[d]
<1>2. \/ state' = [state EXCEPT ![d] = [q EXCEPT !.gen = @ + 1]]
      \/ \E i \in 1 .. Len(messages) : state' = [state EXCEPT ![d] = [q EXCEPT !.seen = @ \cup {i}]]
    BY DEF Traffic, EncryptMessage, DecryptMessage, TypeInv, StateOK
<1>3. q \in Blob
    BY DEF TypeInv, StateOK
<1>4. q.head \in LogHeads
    BY <1>1, QuietIsNoPhantom DEF CalmInv, Phantom
<1> HIDE DEF q
<1>5. /\ [q EXCEPT !.gen = @ + 1].head = q.head
      /\ \A i : [q EXCEPT !.seen = @ \cup {i}].head = q.head
    BY <1>3 DEF Blob
<1> QED
    BY <1>1, <1>2, <1>4, <1>5, CalmMoves

-----------------------------------------------------------------------------
(* Clearing, crashes, markers. *)

LEMMA CalmClear ==
    ASSUME TypeInv, CalmInv, [Next]_vars, NEW d \in Devices, ClearConversationGroup(d)
    PROVE  CalmInv'
<1>1. /\ UNCHANGED <<commits, log, net, welcomes, digests, op, messages, acked>> /\ Cleared(d)
    BY DEF ClearConversationGroup
<1>2. MarkersFrom
    BY <1>1, MarkerFrom DEF Cleared
<1>3. /\ \A e \in Devices \ {d} : state'[e] = state[e] /\ marker'[e] = marker[e]
      /\ state'[d] = NoGroup
    BY <1>1 DEF Cleared, TypeInv, StateOK, MarkerOK
<1>4. Explained(d)'
    BY <1>3, NoneFacts, OnLogIsExplained
<1>5. OpsFollow
    BY <1>1, OpsFollowSame DEF CalmInv, Stored
<1> QED
    BY <1>1, <1>2, <1>3, <1>4, <1>5, CalmKeptBy, SameRequests DEF CalmInv, SuccessMeansStored

(* The app dies: the marker that was written with the state is live.       *)
LEMMA CalmCrash ==
    ASSUME Calm, TypeInv, CalmInv, [Next]_vars, NEW d \in Devices, Crash(d)
    PROVE  CalmInv'
<1>1. UNCHANGED <<commits, log, net, welcomes, state, marker, digests, messages, acked>>
    BY DEF Crash
<1>2. /\ \A s \in Slots : op'[d][s] = NoOp
      /\ \A e \in Devices \ {d} : op'[e] = op[e]
    BY DEF Crash, TypeInv, OpOK
<1>3. OpsFollow
    <2>1. \A e \in Devices, s \in Slots : op'[e][s] = NoOp \/ op'[e][s] = op[e][s]
        BY <1>2
    <2> QED
        BY <1>1, <2>1, OpsFollowSame DEF CalmInv, Stored
<1>4. Explained(d)'
    <2> SUFFICES ASSUME Phantom(d) PROVE \E k \in MarkerKinds : Live(d, k)'
        BY <1>1, <1>2, NoneFacts DEF Explained, Phantom, HasGroup, LogHeads, Stored, Posting
    <2>1. Explained(d)
        BY DEF CalmInv, PhantomsExplained
    <2>2. \E k \in MarkerKinds : Live(d, k)
        <3>1. ASSUME NEW s \in Slots, Posting(d, s) PROVE op[d][s].kind \in MarkerKinds
            BY <3>1 DEF Crash, Calm, Posting, CalmInv, OpsMatch
        <3> QED
            BY <2>1, <3>1 DEF Explained
    <2> QED
        BY <1>1, <2>2 DEF Live, Epoch, EpochAfter
<1> QED
    BY <1>1, <1>2, <1>3, <1>4, CalmKeptBy, FromSame, SameRequests DEF CalmInv, SuccessMeansStored

LEMMA CalmResolve ==
    ASSUME TypeInv, CalmInv, [Next]_vars, NEW d \in Devices, NEW k \in MarkerKinds,
           ResolveMarker(d, k)
    PROVE  CalmInv'
<1>1. /\ UNCHANGED <<commits, log, net, welcomes, digests, op, messages, acked>>
      /\ marker' = [marker EXCEPT ![d][k] = NoMarker] /\ marker[d][k] # NoMarker
    BY DEF ResolveMarker
<1>2. MarkersFrom
    BY <1>1, MarkerFrom
<1>3. \A e \in Devices \ {d} : state'[e] = state[e] /\ marker'[e] = marker[e]
    BY DEF ResolveMarker, TypeInv, StateOK, MarkerOK
<1>4. OpsFollow
    BY <1>1, OpsFollowSame DEF CalmInv, Stored
<1>5. Explained(d)'
    <2>1. CASE HasGroup(d) /\ Live(d, k)
        <3>1. state'[d] = marker[d][k].prev
            BY <2>1 DEF ResolveMarker, TypeInv, StateOK
        <3>2. marker[d][k].prev.head \in LogHeads'
            BY <1>1, CommitsGrow DEF CalmInv, MarkersMatch
        <3> QED
            BY <3>1, <3>2, OnLogIsExplained
    <2>2. CASE ~(HasGroup(d) /\ Live(d, k))
        <3>1. state' = state
            BY <2>2 DEF ResolveMarker
        <3> SUFFICES ASSUME Phantom(d) PROVE Explained(d)'
            BY <1>1, <3>1 DEF Explained, Phantom, HasGroup, LogHeads, Stored
        <3>2. ~Live(d, k)
            BY <2>2 DEF Phantom
        <3>3. \A j \in MarkerKinds : j # k => marker'[d][j] = marker[d][j]
            BY <1>1 DEF TypeInv, MarkerOK
        <3>4. \A j \in MarkerKinds : Live(d, j) => Live(d, j)'
            BY <1>1, <3>1, <3>2, <3>3 DEF Live, Epoch, EpochAfter
        <3>5. Explained(d) /\ \A s \in Slots : Posting(d, s)' <=> Posting(d, s)
            BY <1>1 DEF CalmInv, PhantomsExplained, Posting
        <3> QED
            BY <1>1, <3>1, <3>4, <3>5 DEF Explained
    <2> QED
        BY <2>1, <2>2
<1> QED
    BY <1>1, <1>2, <1>3, <1>4, <1>5, CalmKeptBy, SameRequests DEF CalmInv, SuccessMeansStored

-----------------------------------------------------------------------------
(* Requests. *)

LEMMA CalmRetry ==
    ASSUME TypeInv, CalmInv, [Next]_vars, NEW d \in Devices, NEW s \in Slots, RetryPost(d, s)
    PROVE  CalmInv'
<1>1. /\ UNCHANGED <<commits, log, welcomes, state, marker, digests, messages, acked>>
      /\ Posting(d, s) /\ net' = net \cup {op[d][s].commit}
    BY DEF RetryPost, Posting
<1> DEFINE q == op[d][s]
           o == [q EXCEPT !.reply = 0, !.retried = TRUE]
<1>2. q \in Op
    BY DEF TypeInv, OpOK
<1>3. /\ op'[d][s] = o
      /\ \A z \in Slots \ {s} : op'[d][z] = op[d][z]
      /\ \A e \in Devices \ {d} : op'[e] = op[e]
    BY DEF RetryPost, TypeInv, OpOK
<1>4. /\ o.pc = q.pc /\ o.kind = q.kind /\ o.commit = q.commit
      /\ o.prev = q.prev /\ o.new = q.new /\ o.reply = 0
    <2> HIDE DEF q
    <2> QED
        BY <1>2 DEF Op
<1> HIDE DEF o
<1>5. OpsFollow
    <2> SUFFICES ASSUME NEW e \in Devices, NEW z \in Slots, op'[e][z].pc # "idle"
                 PROVE  /\ op[e][z].pc = op'[e][z].pc
                        /\ op'[e][z].kind = op[e][z].kind
                        /\ op'[e][z].commit = op[e][z].commit
                        /\ op'[e][z].prev = op[e][z].prev
                        /\ op'[e][z].new = op[e][z].new
                        /\ op'[e][z].reply = op[e][z].reply \/ op'[e][z].reply = 0
        BY <1>1 DEF OpsFollow, CalmInv, OpsMatch, Stored
    <2>1. CASE e = d /\ z = s
        BY <1>3, <1>4, <2>1
    <2>2. CASE ~(e = d /\ z = s)
        BY <1>3, <2>2
    <2> QED
        BY <2>1, <2>2
<1>6. RequestsFollow
    BY <1>1 DEF RequestsFollow, Stored
<1>7. Explained(d)'
    <2>1. \A z \in Slots : /\ Posting(d, z)' <=> Posting(d, z)
                           /\ op'[d][z].new = op[d][z].new /\ op'[d][z].kind = op[d][z].kind
        BY <1>3, <1>4 DEF Posting
    <2> QED
        BY <1>1, <2>1, StillExplained DEF CalmInv, PhantomsExplained, LogHeads, Stored
<1> QED
    BY <1>1, <1>3, <1>5, <1>6, <1>7, CalmKeptBy, FromSame DEF CalmInv, SuccessMeansStored

(* What an answer leaves of the operations. *)
LEMMA AnswerFollows ==
    ASSUME TypeInv, OpsMatch, UNCHANGED commits, Stored \subseteq Stored',
           NEW c \in Built, NEW r, Answer(c, r),
           r > 0 => r \in Stored' /\ commits[r].epoch = commits[c].epoch
    PROVE  /\ OpsFollow
           /\ \A d \in Devices, s \in Slots :
                 /\ Posting(d, s)' <=> Posting(d, s)
                 /\ op'[d][s].new = op[d][s].new
                 /\ op'[d][s].kind = op[d][s].kind
<1> SUFFICES ASSUME NEW d \in Devices, NEW s \in Slots
             PROVE  /\ op'[d][s].pc = op[d][s].pc
                    /\ op'[d][s].kind = op[d][s].kind
                    /\ op'[d][s].commit = op[d][s].commit
                    /\ op'[d][s].prev = op[d][s].prev
                    /\ op'[d][s].new = op[d][s].new
                    /\ \/ op'[d][s].reply = op[d][s].reply
                       \/ op'[d][s].reply = r /\ op[d][s].commit = c
    BY DEF OpsFollow, OpsMatch, Posting
<1> DEFINE q == op[d][s]
<1>1. q \in Op
    BY DEF TypeInv, OpOK
<1>2. op'[d][s] = q \/ (op'[d][s] = [q EXCEPT !.reply = r] /\ q.commit = c)
    BY DEF Answer
<1> HIDE DEF q
<1>3. /\ op'[d][s].pc = q.pc /\ op'[d][s].kind = q.kind /\ op'[d][s].commit = q.commit
      /\ op'[d][s].prev = q.prev /\ op'[d][s].new = q.new
      /\ op'[d][s].reply = q.reply \/ (op'[d][s].reply = r /\ q.commit = c)
    BY <1>1, <1>2 DEF Op
<1> QED
    BY <1>3 DEF q

LEMMA CalmReceive ==
    ASSUME TypeInv, CalmInv, [Next]_vars, NEW c \in net, Receive(c)
    PROVE  CalmInv'
<1>1. /\ UNCHANGED <<commits, state, marker, digests, messages, acked>>
      /\ net' = net \ {c} /\ c \in Built /\ commits[c] \in Commit
    BY DEF Receive, TypeInv, NetOK, CommitsOK, Built
<1>2. \E r \in {-1} \cup Stored' :
         /\ Answer(c, r)
         /\ r > 0 => r \in Stored' /\ commits[r].epoch = commits[c].epoch
    <2>1. CASE ServerStore(c)
        <3>1. c \in Stored' /\ Answer(c, c)
            BY <1>1, <2>1 DEF ServerStore, Stored, TypeInv, LogOK, Built
        <3> QED
            BY <3>1
    <2>2. CASE ServerKeepsWinner(c)
        <3> DEFINE i == commits[c].epoch + 1
        <3>1. i \in 1 .. Len(log) /\ log' = log
            BY <1>1, <2>2 DEF ServerKeepsWinner, Commit, TypeInv, LogOK
        <3>2. log[i] \in Stored' /\ commits[log[i]].epoch = commits[c].epoch
            BY <1>1, <3>1 DEF Stored, CalmInv, EpochsMatch, Commit
        <3> QED
            BY <2>2, <3>2 DEF ServerKeepsWinner
    <2>3. CASE ServerRejects(c)
        BY <2>3 DEF ServerRejects
    <2> QED
        BY <2>1, <2>2, <2>3 DEF Receive
<1>3. /\ OpsFollow
      /\ \A d \in Devices, s \in Slots :
            /\ Posting(d, s)' <=> Posting(d, s)
            /\ op'[d][s].new = op[d][s].new
            /\ op'[d][s].kind = op[d][s].kind
    BY <1>1, <1>2, AnswerFollows, CommitsGrow DEF CalmInv
<1>4. \/ log' = log
      \/ log' = Append(log, c) /\ commits[c].epoch = Len(log)
    BY DEF Receive, ServerStore, ServerKeepsWinner, ServerRejects
<1>5. EpochsMatch'
    <2>1. \A i \in 1 .. Len(log') : commits[log'[i]].epoch = i - 1
        BY <1>4 DEF CalmInv, EpochsMatch, TypeInv, LogOK
    <2> QED
        BY <1>1, <2>1 DEF CalmInv, EpochsMatch, Built, EpochAfter
<1>6. ParentsInLog'
    BY <1>1, CommitsGrow DEF CalmInv, ParentsInLog, Built
<1>7. RequestsFollow
    BY <1>1, <1>4 DEF RequestsFollow, Stored, TypeInv, LogOK
<1>8. MarkersMatch'
    BY <1>1, CommitsGrow, FromSame, MarkersKept DEF CalmInv
<1>9. OpsMatch' /\ OneOp' /\ OneRequest'
    BY <1>1, <1>3, <1>7, OpsKept DEF CalmInv
<1>10. PhantomsExplained'
    BY <1>1, <1>3, CommitsGrow, StillExplained DEF CalmInv, PhantomsExplained
<1>11. SuccessMeansStored'
    BY <1>1, CommitsGrow DEF CalmInv, SuccessMeansStored
<1> QED
    BY <1>5, <1>6, <1>8, <1>9, <1>10, <1>11 DEF CalmInv

-----------------------------------------------------------------------------
(* The optimistic write. *)

(* A settled device builds on the log, and the log holds no commit of its  *)
(* own for the epoch it builds from.                                       *)
LEMMA SettledStart ==
    ASSUME TypeInv, CalmInv, NEW d \in Devices, HasGroup(d), Settled(d)
    PROVE  /\ state[d].head \in LogHeads
           /\ \A s \in Slots : op[d][s].pc = "idle"
           /\ \A x \in net : commits[x].by # d
           /\ \A x \in Stored : commits[x].by = d => commits[x].epoch # Epoch(state[d])
<1>1. state[d].head \in LogHeads
    BY QuietIsNoPhantom DEF Settled, CalmInv, Phantom
<1>2. ASSUME NEW x \in Stored, commits[x].by = d, commits[x].epoch = Epoch(state[d])
      PROVE  FALSE
    <2>1. commits[x].parent \in LogHeads /\ EpochAfter(commits[x].parent) = commits[x].epoch
        BY StoredBuilt DEF CalmInv, ParentsInLog, EpochsMatch
    <2>2. commits[x].parent = state[d].head
        BY <1>1, <1>2, <2>1, SameEpochSameHead DEF CalmInv, Epoch
    <2> QED
        BY <1>2, <2>2 DEF Settled
<1> QED
    BY <1>1, <1>2 DEF Settled, Quiet

LEMMA CalmWrite ==
    ASSUME Calm, TypeInv, CalmInv, [Next]_vars, NEW d \in Devices, NEW s \in Slots, Start(d, s)
    PROVE  CalmInv'
<1>1. PICK kind \in AllKinds, t \in Devices, members \in SUBSET Devices :
          HasGroup(d) /\ WriteOptimistic(d, s, kind, t, members)
    BY TypeStart
<1>0. PICK c \in Nat, old \in Blob, n \in Nat :
          c = Len(commits) + 1 /\ old = state[d] /\ n = Epoch(state[d])
    <2>1. state[d] \in Blob /\ state[d].head \in 0 .. Len(commits) /\ Len(commits) \in Nat
        BY <1>1 DEF TypeInv, StateOK, CommitsOK, HasGroup, BuiltOrNone
    <2>2. Epoch(state[d]) \in Nat
        BY <2>1, EpochFacts DEF Epoch
    <2> QED
        BY <2>1, <2>2
<1> DEFINE new == Advanced(old, c)
           com == [by |-> d, epoch |-> n, parent |-> old.head,
                   kind |-> kind, target |-> t, members |-> members]
           mark == [newEpoch |-> n + 1, prev |-> old]
           o == [pc |-> "posting", kind |-> kind, commit |-> c,
                 prev |-> old, new |-> new, reply |-> 0, retried |-> FALSE]
<1>2. /\ commits' = Append(commits, com)
      /\ state' = [state EXCEPT ![d] = new]
      /\ op' = [op EXCEPT ![d][s] = o]
      /\ net' = net \cup {c}
      /\ marker' = IF kind \in MarkerKinds THEN [marker EXCEPT ![d][kind] = mark] ELSE marker
      /\ UNCHANGED <<log, welcomes, acked>>
    BY <1>0, <1>1 DEF WriteOptimistic
<1>3. /\ old.head \in LogHeads
      /\ \A z \in Slots : op[d][z].pc = "idle"
      /\ \A x \in net : commits[x].by # d
      /\ \A x \in Stored : commits[x].by = d => commits[x].epoch # n
    BY <1>0, <1>1, SettledStart DEF WriteOptimistic, MayStart, Calm
<1>4. /\ new.head = c /\ com.by = d /\ com.epoch = n /\ com.parent = old.head
      /\ mark.prev = old /\ mark.newEpoch = n + 1
      /\ o.pc = "posting" /\ o.kind = kind /\ o.commit = c /\ o.prev = old /\ o.new = new
      /\ o.reply = 0
    BY DEF Advanced
<1>5. /\ c \in Built' /\ c \notin Built /\ c # 0 /\ c # -1 /\ commits'[c] = com
      /\ \A i \in Built' : i = c \/ i \in Built
      /\ \A i \in Built : i \in Built' /\ commits'[i] = commits[i]
    BY <1>0, <1>2, BuiltFacts DEF TypeInv, CommitsOK, Built
<1>6. Stored' = Stored /\ LogHeads' = LogHeads
    BY <1>2 DEF Stored, LogHeads
<1> DEFINE EpochNow(g) == IF g = 0 THEN 0 ELSE commits'[g].epoch + 1
<1>7. /\ \A g \in Built \cup {0} : EpochNow(g) = EpochAfter(g)
      /\ EpochNow(c) = n + 1
    BY <1>4, <1>5 DEF EpochAfter
<1>8. LogHeads \subseteq Built \cup {0}
    BY StoredBuilt DEF LogHeads
<1>9. /\ op'[d][s] = o /\ \A z \in Slots \ {s} : op'[d][z].pc = "idle"
      /\ \A e \in Devices \ {d} : op'[e] = op[e]
    BY <1>2, <1>3 DEF TypeInv, OpOK
<1>10. state'[d] = new /\ \A e \in Devices \ {d} : state'[e] = state[e]
    BY <1>2 DEF TypeInv, StateOK
<1>11. /\ \A e \in Devices \ {d} : marker'[e] = marker[e]
       /\ \A k \in MarkerKinds :
             /\ k = kind => marker'[d][k] = mark
             /\ k # kind => marker'[d][k] = marker[d][k]
    BY <1>2 DEF TypeInv, MarkerOK
<1>12. old.head \in LogHeads /\ EpochNow(old.head) = n
    BY <1>0, <1>3, <1>7, <1>8 DEF Epoch
<1> HIDE DEF new, com, mark, o, EpochNow
<1>14. EpochsMatch'
    <2>1. \A i \in 1 .. Len(log') : commits'[log'[i]].epoch = i - 1
        BY <1>2, <1>5 DEF CalmInv, EpochsMatch, TypeInv, LogOK
    <2>2. ASSUME NEW x \in Built' PROVE commits'[x].epoch = EpochNow(commits'[x].parent)
        <3>1. CASE x = c
            BY <1>4, <1>5, <1>12, <3>1
        <3>2. CASE x \in Built
            <4>1. commits'[x] = commits[x] /\ commits[x].parent \in Built \cup {0}
                BY <1>5, <1>8, <3>2 DEF CalmInv, ParentsInLog
            <4>2. commits[x].epoch = EpochAfter(commits[x].parent)
                BY <3>2 DEF CalmInv, EpochsMatch
            <4> QED
                BY <1>7, <4>1, <4>2
        <3> QED
            BY <1>5, <3>1, <3>2
    <2> QED
        BY <2>1, <2>2 DEF EpochsMatch, EpochAfter, EpochNow
<1>15. ParentsInLog'
    BY <1>4, <1>5, <1>6, <1>12 DEF CalmInv, ParentsInLog
<1>16. MarkersMatch'
    <2> SUFFICES ASSUME NEW e \in Devices, NEW k \in MarkerKinds, marker'[e][k] # NoMarker
                 PROVE  /\ marker'[e][k].prev.head \in LogHeads
                        /\ marker'[e][k].newEpoch = EpochNow(marker'[e][k].prev.head) + 1
        BY <1>6 DEF MarkersMatch, Epoch, EpochAfter, EpochNow
    <2>1. CASE marker'[e][k] = mark
        BY <1>4, <1>12, <2>1
    <2>2. CASE marker'[e][k] = marker[e][k]
        <3>1. /\ marker[e][k].prev.head \in LogHeads
              /\ marker[e][k].newEpoch = EpochAfter(marker[e][k].prev.head) + 1
            BY <2>2 DEF CalmInv, MarkersMatch, Epoch
        <3> QED
            BY <1>7, <1>8, <2>2, <3>1
    <2> QED
        BY <1>11, <2>1, <2>2
<1>17. OpsMatch'
    <2> SUFFICES ASSUME NEW e \in Devices, NEW z \in Slots, op'[e][z].pc # "idle"
                 PROVE  /\ op'[e][z].kind \in AllKinds
                        /\ op'[e][z].prev.head = commits'[op'[e][z].commit].parent
                        /\ op'[e][z].new.head = op'[e][z].commit
                        /\ commits'[op'[e][z].commit].by = e
                        /\ op'[e][z].reply > 0 =>
                               /\ op'[e][z].reply \in Stored
                               /\ commits'[op'[e][z].reply].epoch
                                      = commits'[op'[e][z].commit].epoch
        BY <1>6 DEF OpsMatch
    <2>1. CASE e = d
        <3>1. z = s /\ op'[e][z] = o
            BY <1>9, <2>1
        <3> QED
            BY <1>4, <1>5, <2>1, <3>1
    <2>2. CASE e # d
        <3>1. op'[e][z] = op[e][z] /\ op[e][z].commit \in Built
            BY <1>9, <2>2 DEF TypeInv, OpOK, RefsOK
        <3> QED
            BY <1>5, <3>1, StoredBuilt DEF CalmInv, OpsMatch
    <2> QED
        BY <2>1, <2>2
<1>18. OneOp'
    BY <1>9 DEF CalmInv, OneOp
<1>19. OneRequest'
    <2> SUFFICES ASSUME NEW e \in Devices, NEW z \in Slots, op'[e][z].pc = "posting"
                 PROVE  /\ \A x \in net' : commits'[x].by = e => x = op'[e][z].commit
                        /\ \A x \in Stored :
                              /\ commits'[x].by = e
                              /\ commits'[x].epoch = commits'[op'[e][z].commit].epoch
                              => x = op'[e][z].commit
        BY <1>6 DEF OneRequest
    <2>0. net \subseteq Built /\ Stored \subseteq Built
        BY StoredBuilt DEF TypeInv, NetOK
    <2>1. CASE e = d
        <3>1. op'[e][z].commit = c /\ commits'[c].epoch = n
            BY <1>4, <1>5, <1>9, <2>1
        <3>2. \A x \in net \cup Stored : commits'[x] = commits[x]
            BY <1>5, <2>0
        <3>3. \A x \in net' : commits'[x].by = d => x = c
            BY <1>2, <1>3, <3>2
        <3>4. \A x \in Stored : commits'[x].by = d => commits'[x].epoch # n
            BY <1>3, <3>2
        <3> QED
            BY <2>1, <3>1, <3>3, <3>4
    <2>2. CASE e # d
        <3>1. op'[e][z] = op[e][z] /\ op[e][z].commit \in Built
            BY <1>9, <2>2 DEF TypeInv, OpOK, RefsOK
        <3>2. \A x \in Built : commits'[x] = commits[x]
            BY <1>5
        <3>3. commits'[c].by # e
            BY <1>4, <1>5, <2>2
        <3>4. /\ \A x \in net : commits[x].by = e => x = op[e][z].commit
              /\ \A x \in Stored : /\ commits[x].by = e
                                    /\ commits[x].epoch = commits[op[e][z].commit].epoch
                                    => x = op[e][z].commit
            BY <3>1 DEF CalmInv, OneRequest
        <3>5. \A x \in net' : commits'[x].by = e => x = op'[e][z].commit
            BY <1>2, <2>0, <3>1, <3>2, <3>3, <3>4
        <3> QED
            BY <2>0, <3>1, <3>2, <3>4, <3>5
    <2> QED
        BY <2>1, <2>2
<1>20. PhantomsExplained'
    <2> SUFFICES ASSUME NEW e \in Devices, Phantom(e)' PROVE Explained(e)'
        BY DEF PhantomsExplained, Explained
    <2>1. CASE e = d
        <3>1. Posting(d, s)' /\ \A z \in Slots : Posting(d, z)' => z = s
            BY <1>4, <1>9 DEF Posting
        <3>2. kind \in MarkerKinds => Live(d, kind)'
            <4> SUFFICES ASSUME kind \in MarkerKinds PROVE Live(d, kind)'
                OBVIOUS
            <4>1. marker'[d][kind] = mark /\ mark # NoMarker
                <5>1. mark.newEpoch # NoMarker.newEpoch
                    BY <1>4 DEF NoMarker
                <5> QED
                    BY <1>11, <5>1
            <4>2. Epoch(state[d])' = EpochNow(c)
                BY <1>4, <1>10 DEF Epoch, EpochAfter, EpochNow
            <4> QED
                BY <1>4, <1>7, <4>1, <4>2 DEF Live
        <3> QED
            BY <1>4, <1>9, <1>10, <2>1, <3>1, <3>2 DEF Explained
    <2>2. CASE e # d
        <3>1. /\ state'[e] = state[e] /\ marker'[e] = marker[e] /\ op'[e] = op[e]
              /\ Phantom(e)
            BY <1>6, <1>9, <1>10, <1>11, <2>2 DEF Phantom, HasGroup
        <3>2. state[e].head \in Built \cup {0} /\ Epoch(state[e])' = EpochNow(state[e].head)
            BY <3>1 DEF Phantom, HasGroup, TypeInv, StateOK, Built, BuiltOrNone,
               Epoch, EpochAfter, EpochNow
        <3>3. \A k : Live(e, k)' <=> Live(e, k)
            BY <1>7, <3>1, <3>2 DEF Live, Epoch
        <3> QED
            BY <3>1, <3>3 DEF CalmInv, PhantomsExplained, Explained, Posting
    <2> QED
        BY <2>1, <2>2
<1>21. SuccessMeansStored'
    BY <1>2, <1>6 DEF CalmInv, SuccessMeansStored
<1> QED
    BY <1>14, <1>15, <1>16, <1>17, <1>18, <1>19, <1>20, <1>21 DEF CalmInv

-----------------------------------------------------------------------------
(* The theorems. *)

LEMMA CalmInit == Init => CalmInv
<1> SUFFICES ASSUME Init PROVE CalmInv
    OBVIOUS
<1>1. EpochsMatch /\ ParentsInLog
    BY DEF Init, EpochsMatch, ParentsInLog, Built
<1>2. MarkersMatch
    BY DEF Init, MarkersMatch
<1>3. OpsMatch /\ OneOp /\ OneRequest
    BY NoneFacts DEF Init, OpsMatch, OneOp, OneRequest
<1>4. PhantomsExplained
    BY DEF Init, PhantomsExplained, Explained, Phantom, HasGroup, LogHeads, Founded, NoGroup
<1>5. SuccessMeansStored
    BY DEF Init, SuccessMeansStored
<1> QED
    BY <1>1, <1>2, <1>3, <1>4, <1>5 DEF CalmInv

LEMMA CalmStep == Calm /\ TypeInv /\ OwnInv /\ CalmInv /\ [Next]_vars => CalmInv'
<1> SUFFICES ASSUME Calm, TypeInv, OwnInv, CalmInv, [Next]_vars PROVE CalmInv'
    OBVIOUS
<1>1. ASSUME NEW d \in Devices, NEW s \in Slots, Outcome(d, s) PROVE CalmInv'
    BY <1>1, CalmConfirm, CalmLostRace, CalmConflict, CalmReconcile DEF Outcome
<1>2. ASSUME NEW d \in Devices, Recover(d) PROVE CalmInv'
    BY <1>2, CalmResolve DEF Recover, RecoverOnePendingReprovision, RecoverOnePendingRemoval
<1>3. ASSUME NEW c \in net, LoseRequest(c) PROVE CalmInv'
    BY <1>3, CalmSame DEF LoseRequest
<1>4. CASE UNCHANGED vars
    BY <1>4, CalmSame DEF vars
<1> QED
    BY <1>1, <1>2, <1>3, <1>4, CalmWrite, CalmRetry, CalmResync, CalmFollow, CalmWelcome,
       CalmTraffic, CalmClear, CalmCrash, CalmReceive DEF Next

THEOREM CalmCorrect == Calm => (Spec => []CalmInv)
<1> SUFFICES ASSUME Calm PROVE Spec => []CalmInv
    OBVIOUS
<1>1. TypeInv /\ OwnInv /\ CalmInv /\ [Next]_vars => CalmInv'
    BY CalmStep
<1> QED
    BY <1>1, TypeCorrect, OwnCorrect, CalmInit, PTL DEF Spec

(* In a calm environment a device with nothing unresolved holds a state of *)
(* the server's log, whatever was lost, retried, raced or crashed.         *)
THEOREM NoForkWhenCalm == Calm => (Spec => []NoFork)
<1> SUFFICES ASSUME Calm PROVE Spec => []NoFork
    OBVIOUS
<1>1. CalmInv => NoFork
    BY QuietIsNoPhantom DEF CalmInv, NoFork, Phantom
<1> QED
    BY <1>1, CalmCorrect, PTL

(* A device added or removed with success was really added or removed: the *)
(* server stored the commit.                                               *)
THEOREM SuccessIsStored == Calm => (Spec => []SuccessMeansStored)
<1> SUFFICES ASSUME Calm PROVE Spec => []SuccessMeansStored
    OBVIOUS
<1>1. CalmInv => SuccessMeansStored
    BY DEF CalmInv
<1> QED
    BY <1>1, CalmCorrect, PTL

(* The server's log is a chain, so that whoever follows it can apply every *)
(* commit of it.                                                           *)
THEOREM LogIsAChain == Calm => (Spec => []LogIsChain)
<1> SUFFICES ASSUME Calm PROVE Spec => []LogIsChain
    OBVIOUS
<1>1. TypeInv /\ CalmInv => LogIsChain
    <2> SUFFICES ASSUME TypeInv, CalmInv, NEW i \in 1 .. Len(log)
                 PROVE  commits[log[i]].parent = IF i = 1 THEN 0 ELSE log[i - 1]
        BY DEF LogIsChain
    <2>1. log[i] \in Built /\ Len(log) \in Nat
        BY DEF TypeInv, LogOK
    <2>2. /\ commits[log[i]].parent \in LogHeads
          /\ EpochAfter(commits[log[i]].parent) = i - 1
        BY <2>1 DEF CalmInv, EpochsMatch, ParentsInLog
    <2> QED
        BY <2>1, <2>2, HeadAt DEF CalmInv
<1> QED
    BY <1>1, TypeCorrect, CalmCorrect, PTL

(* No commit is ever posted beyond the next epoch: a 409 is never forced   *)
(* by the state of the device.                                             *)
THEOREM NothingBuiltAhead == Calm => (Spec => []NeverBuiltAhead)
<1> SUFFICES ASSUME Calm PROVE Spec => []NeverBuiltAhead
    OBVIOUS
<1>1. TypeInv /\ CalmInv => NeverBuiltAhead
    <2> SUFFICES ASSUME TypeInv, CalmInv, NEW c \in net PROVE commits[c].epoch <= Len(log)
        BY DEF NeverBuiltAhead
    <2>1. c \in Built /\ Len(log) \in Nat
        BY DEF TypeInv, NetOK, LogOK
    <2>2. /\ commits[c].parent \in LogHeads
          /\ commits[c].epoch = EpochAfter(commits[c].parent)
        BY <2>1 DEF CalmInv, EpochsMatch, ParentsInLog
    <2> QED
        BY <2>1, <2>2, HeadAt DEF CalmInv
<1> QED
    BY <1>1, TypeCorrect, CalmCorrect, PTL

-----------------------------------------------------------------------------
(* The refinement: in a calm environment the commit protocol implements    *)
(* GroupLog.  First, where the views of one state stand.                   *)

LEMMA ViewFacts ==
    ASSUME TypeInv, CalmInv, NEW d \in Devices
    PROVE  /\ Len(log) \in Nat
           /\ ~HasGroup(d) => View(d) = -1
           /\ HasGroup(d) /\ ~Phantom(d) =>
                 /\ state[d].head \in LogHeads
                 /\ View(d) = Epoch(state[d])
                 /\ View(d) \in 0 .. Len(log)
           /\ Phantom(d) =>
                 /\ state[d].head \in Built
                 /\ View(d) = commits[state[d].head].epoch
                 /\ Epoch(state[d]) = View(d) + 1
                 /\ View(d) \in 0 .. Len(log)
<1>1. Len(log) \in Nat
    BY DEF TypeInv, LogOK
<1>2. ASSUME HasGroup(d), ~Phantom(d)
      PROVE  /\ state[d].head \in LogHeads
             /\ View(d) = Epoch(state[d])
             /\ View(d) \in 0 .. Len(log)
    <2>1. state[d].head \in LogHeads
        BY <1>2 DEF Phantom
    <2>2. EpochAfter(state[d].head) \in 0 .. Len(log)
        BY <1>1, <2>1, HeadAt DEF CalmInv
    <2> QED
        BY <1>2, <2>1, <2>2 DEF View, Epoch
<1>3. ASSUME Phantom(d)
      PROVE  /\ state[d].head \in Built
             /\ View(d) = commits[state[d].head].epoch
             /\ Epoch(state[d]) = View(d) + 1
             /\ View(d) \in 0 .. Len(log)
    <2>1. state[d].head \in Built /\ state[d].head # 0
        BY <1>3 DEF Phantom, HasGroup, LogHeads, TypeInv, StateOK, Built, BuiltOrNone
    <2>2. /\ commits[state[d].head].parent \in LogHeads
          /\ commits[state[d].head].epoch = EpochAfter(commits[state[d].head].parent)
        BY <2>1 DEF CalmInv, ParentsInLog, EpochsMatch
    <2>3. commits[state[d].head].epoch \in 0 .. Len(log)
        BY <1>1, <2>2, HeadAt DEF CalmInv
    <2>4. Epoch(state[d]) = commits[state[d].head].epoch + 1
        BY <2>1 DEF Epoch, EpochAfter
    <2>5. View(d) = Epoch(state[d]) - 1
        BY <1>3 DEF View, Phantom
    <2> QED
        BY <2>1, <2>3, <2>4, <2>5
<1>4. ~HasGroup(d) => View(d) = -1
    BY DEF View
<1> QED
    BY <1>1, <1>2, <1>3, <1>4

LEMMA ViewRange ==
    ASSUME TypeInv, CalmInv, NEW d \in Devices
    PROVE  View(d) \in -1 .. Len(log) /\ Len(log) \in Nat
BY ViewFacts

LEMMA SameView ==
    ASSUME NEW d \in Devices, UNCHANGED <<commits, log>>, state'[d].head = state[d].head
    PROVE  View(d)' = View(d)
BY DEF View, HasGroup, LogHeads, Stored, Epoch, EpochAfter

LEMMA SameViews ==
    ASSUME UNCHANGED log, \A d \in Devices : View(d)' = View(d)
    PROVE  UNCHANGED GL!vars
BY DEF GL!vars

(* A step that moves one device alone: it stays, leaves, falls back one    *)
(* commit or is carried forward.                                           *)
LEMMA AbstractMove ==
    ASSUME TypeInv, CalmInv, UNCHANGED <<commits, log>>, NEW d \in Devices,
           \A e \in Devices \ {d} : state'[e] = state[e],
           \/ View(d)' = View(d)
           \/ View(d)' = -1
           \/ View(d) >= 1 /\ View(d)' = View(d) - 1
           \/ View(d)' \in 1 .. Len(log) /\ View(d)' > View(d)
    PROVE  [GL!Next]_(GL!vars)
<1> DEFINE view == [e \in Devices |-> View(e)]
<1>1. \A e \in Devices \ {d} : View(e)' = View(e)
    BY SameView
<1>2. view' = [view EXCEPT ![d] = View(d)']
    BY <1>1
<1>3. CASE View(d)' = View(d)
    BY <1>1, <1>3, SameViews
<1>4. CASE View(d)' = -1 /\ View(d) # -1
    <2>1. GL!Leave(d)
        BY <1>2, <1>4 DEF GL!Leave
    <2> QED
        BY <2>1 DEF GL!Next
<1>5. CASE View(d) >= 1 /\ View(d)' = View(d) - 1
    <2>1. GL!FallBack(d)
        BY <1>2, <1>5 DEF GL!FallBack
    <2> QED
        BY <2>1 DEF GL!Next
<1>6. CASE View(d)' \in 1 .. Len(log) /\ View(d)' > View(d)
    <2>1. GL!Join(d)
        BY <1>2, <1>6 DEF GL!Join
    <2> QED
        BY <2>1 DEF GL!Next
<1> QED
    BY <1>3, <1>4, <1>5, <1>6

-----------------------------------------------------------------------------
(* The steps of one device. *)

LEMMA OnLog ==
    ASSUME TypeInv, CalmInv, NEW d \in Devices, UNCHANGED <<commits, log>>,
           NEW h \in LogHeads, state'[d].head = h
    PROVE  /\ View(d)' = EpochAfter(h)
           /\ View(d)' \in 0 .. Len(log)
           /\ h # 0 => View(d)' \in 1 .. Len(log) /\ View(d)' = commits[h].epoch + 1
<1>1. /\ h = 0 \/ h \in Built
      /\ EpochAfter(h) \in 0 .. Len(log)
      /\ h # 0 => EpochAfter(h) \in 1 .. Len(log)
    BY HeadAt DEF CalmInv, TypeInv, LogOK
<1>2. View(d)' = EpochAfter(h)
    BY <1>1 DEF View, HasGroup, LogHeads, Stored, Epoch, EpochAfter, Built
<1> QED
    BY <1>1, <1>2 DEF EpochAfter

(* A rollback undoes a commit of the log or one that never got there. *)
LEMMA AbstractRollback ==
    ASSUME TypeInv, CalmInv, UNCHANGED <<commits, log>>, NEW d \in Devices,
           \A e \in Devices \ {d} : state'[e] = state[e],
           state[d].head \in Built, state'[d].head = commits[state[d].head].parent
    PROVE  [GL!Next]_(GL!vars)
<1> DEFINE p == commits[state[d].head].parent
<1>1. p \in LogHeads /\ commits[state[d].head].epoch = EpochAfter(p)
    BY DEF CalmInv, ParentsInLog, EpochsMatch
<1>2. View(d)' = EpochAfter(p) /\ EpochAfter(p) \in 0 .. Len(log)
    BY <1>1, OnLog
<1>3. HasGroup(d) /\ Epoch(state[d]) = EpochAfter(p) + 1
    BY <1>1 DEF HasGroup, Built, Epoch, EpochAfter
<1>4. CASE Phantom(d)
    BY <1>1, <1>2, <1>4, AbstractMove, ViewFacts
<1>5. CASE ~Phantom(d)
    <2>1. View(d) = EpochAfter(p) + 1
        BY <1>3, <1>5, ViewFacts
    <2> QED
        BY <1>2, <2>1, AbstractMove
<1> QED
    BY <1>4, <1>5

LEMMA AbstractOutcome ==
    ASSUME TypeInv, CalmInv, NEW d \in Devices, NEW s \in Slots, Outcome(d, s)
    PROVE  [GL!Next]_(GL!vars)
<1>1. /\ UNCHANGED <<commits, log>> /\ Posting(d, s)
      /\ \A e \in Devices \ {d} : state'[e] = state[e]
    BY OutcomeFrame
<1>2. /\ op[d][s].commit \in Built
      /\ op[d][s].new.head = op[d][s].commit
      /\ op[d][s].prev.head = commits[op[d][s].commit].parent
    BY <1>1 DEF CalmInv, OpsMatch, TypeInv, OpOK, RefsOK, Posting
<1>3. \/ UNCHANGED state
      \/ StillOwnWrite(d, s) /\ state' = [state EXCEPT ![d] = op[d][s].prev]
      \/ state' = [state EXCEPT ![d] = NoGroup]
    BY DEF Outcome, Confirm, LostRace, Conflict, Cleared, ReconcileAfterPostCommitFailure
<1>4. CASE UNCHANGED state
    BY <1>1, <1>4, SameView, SameViews
<1>5. CASE StillOwnWrite(d, s) /\ state' = [state EXCEPT ![d] = op[d][s].prev]
    <2>1. state'[d] = op[d][s].prev /\ state[d].head = op[d][s].commit
        BY <1>2, <1>5 DEF StillOwnWrite, TypeInv, StateOK
    <2> QED
        BY <1>1, <1>2, <2>1, AbstractRollback
<1>6. CASE state' = [state EXCEPT ![d] = NoGroup]
    <2>1. View(d)' = -1
        BY <1>6, NoneFacts DEF View, HasGroup, TypeInv, StateOK
    <2> QED
        BY <1>1, <2>1, AbstractMove
<1> QED
    BY <1>3, <1>4, <1>5, <1>6

LEMMA AbstractApply ==
    ASSUME TypeInv, CalmInv, UNCHANGED <<commits, log>>, NEW d \in Devices,
           NEW c \in Stored, CanApply(d, c),
           state' = [state EXCEPT ![d] = Advanced(state[d], c)]
    PROVE  [GL!Next]_(GL!vars)
<1>1. state'[d].head = c /\ \A e \in Devices \ {d} : state'[e] = state[e]
    BY DEF TypeInv, StateOK, Advanced
<1>2. c \in LogHeads /\ c # 0
    BY StoredBuilt DEF LogHeads, Built
<1>3. View(d)' \in 1 .. Len(log) /\ View(d)' = Epoch(state[d]) + 1
    BY <1>1, <1>2, OnLog DEF CanApply
<1>4. View(d) <= Epoch(state[d]) /\ View(d) \in Int /\ Epoch(state[d]) \in Int
    BY ViewFacts DEF CanApply
<1> QED
    BY <1>1, <1>3, <1>4, AbstractMove

LEMMA AbstractFollow ==
    ASSUME TypeInv, CalmInv, NEW d \in Devices,
           Follow(d) \/ \E s \in Slots : Resync(d, s)
    PROVE  [GL!Next]_(GL!vars)
<1>1. CASE Follow(d)
    <2>1. PICK c \in 1 .. Len(commits) : ApplyCommit(d, c)
        BY <1>1 DEF Follow
    <2> QED
        BY <2>1, AbstractApply DEF ApplyCommit
<1>2. CASE \E s \in Slots : Resync(d, s)
    <2>1. PICK s \in Slots : Resync(d, s)
        BY <1>2
    <2>2. op[d][s].reply \in Stored
        <3>1. op[d][s].reply \in Built /\ op[d][s].pc = "lost"
            BY <2>1 DEF Resync, TypeInv, OpOK, RefsOK
        <3> QED
            BY <3>1 DEF CalmInv, OpsMatch, Built
    <2>3. CASE CanApply(d, op[d][s].reply)
        BY <2>1, <2>2, <2>3, AbstractApply DEF Resync
    <2>4. CASE ~CanApply(d, op[d][s].reply)
        BY <2>1, <2>4, SameView, SameViews DEF Resync
    <2> QED
        BY <2>3, <2>4
<1> QED
    BY <1>1, <1>2

LEMMA AbstractWelcome ==
    ASSUME TypeInv, OwnInv, CalmInv, NEW d \in Devices, TakeWelcome(d)
    PROVE  [GL!Next]_(GL!vars)
<1>1. PICK w \in welcomes : JoinViaWelcome(d, w) \/ IgnoreWelcome(d, w)
    BY DEF TakeWelcome
<1>2. CASE JoinViaWelcome(d, w)
    <2>1. /\ UNCHANGED <<commits, log>> /\ state'[d].head = w.commit
          /\ \A e \in Devices \ {d} : state'[e] = state[e]
        BY <1>2 DEF JoinViaWelcome, Joined, TypeInv, StateOK
    <2>2. w.commit \in LogHeads /\ w.commit # 0
        BY StoredBuilt DEF OwnInv, WelcomesStored, LogHeads, Built
    <2>3. View(d)' \in 1 .. Len(log) /\ View(d)' = EpochAfter(w.commit)
        BY <2>1, <2>2, OnLog
    <2>4. View(d)' >= View(d)
        <3>1. CASE ~HasGroup(d)
            BY <2>3, <3>1, ViewFacts
        <3>2. CASE HasGroup(d)
            <4>1. ~(EpochAfter(w.commit) < Epoch(state[d]))
                BY <1>2, <3>2 DEF JoinViaWelcome, Obsolete
            <4>2. View(d) <= Epoch(state[d]) /\ View(d) \in Int /\ Epoch(state[d]) \in Int
                BY <3>2, ViewFacts
            <4> QED
                BY <2>3, <4>1, <4>2
        <3> QED
            BY <3>1, <3>2
    <2> QED
        BY <2>1, <2>3, <2>4, ViewRange, AbstractMove
<1>3. CASE IgnoreWelcome(d, w)
    BY <1>3, SameView, SameViews DEF IgnoreWelcome
<1> QED
    BY <1>1, <1>2, <1>3

LEMMA AbstractTraffic ==
    ASSUME TypeInv, CalmInv, NEW d \in Devices, Traffic(d)
    PROVE  [GL!Next]_(GL!vars)
<1>1. UNCHANGED <<commits, log>>
    BY DEF Traffic, EncryptMessage, DecryptMessage
<1>2. \A e \in Devices : state'[e].head = state[e].head
    <2> SUFFICES ASSUME NEW e \in Devices PROVE state'[e].head = state[e].head
        OBVIOUS
    <2> DEFINE q == state[e]
    <2>1. q \in Blob
        BY DEF TypeInv, StateOK
    <2>2. \/ state'[e] = q
          \/ state'[e] = [q EXCEPT !.gen = @ + 1]
          \/ \E i \in 1 .. Len(messages) : state'[e] = [q EXCEPT !.seen = @ \cup {i}]
        BY DEF Traffic, EncryptMessage, DecryptMessage, TypeInv, StateOK
    <2> HIDE DEF q
    <2>3. state'[e].head = q.head
        BY <2>1, <2>2 DEF Blob
    <2> QED
        BY <2>3 DEF q
<1> QED
    BY <1>1, <1>2, SameView, SameViews

LEMMA AbstractLocal ==
    ASSUME TypeInv, CalmInv, NEW d \in Devices,
           ClearConversationGroup(d) \/ Crash(d) \/ Recover(d)
    PROVE  [GL!Next]_(GL!vars)
<1>1. CASE ClearConversationGroup(d)
    <2>1. /\ UNCHANGED <<commits, log>> /\ state' = [state EXCEPT ![d] = NoGroup]
          /\ \A e \in Devices \ {d} : state'[e] = state[e]
        BY <1>1 DEF ClearConversationGroup, Cleared, TypeInv, StateOK
    <2>2. View(d)' = -1
        BY <2>1, NoneFacts DEF View, HasGroup, TypeInv, StateOK
    <2> QED
        BY <2>1, <2>2, AbstractMove
<1>2. CASE Crash(d)
    BY <1>2, SameView, SameViews DEF Crash
<1>3. ASSUME NEW k \in MarkerKinds, ResolveMarker(d, k) PROVE [GL!Next]_(GL!vars)
    <2>1. UNCHANGED <<commits, log>>
        BY <1>3 DEF ResolveMarker
    <2>2. CASE HasGroup(d) /\ Live(d, k)
        <3> DEFINE p == marker[d][k].prev
        <3>1. state'[d] = p /\ \A e \in Devices \ {d} : state'[e] = state[e]
            BY <1>3, <2>2 DEF ResolveMarker, TypeInv, StateOK
        <3>2. p.head \in LogHeads /\ Epoch(state[d]) = EpochAfter(p.head) + 1
            BY <1>3, <2>2 DEF ResolveMarker, CalmInv, MarkersMatch, Live, Epoch
        <3>3. View(d)' = EpochAfter(p.head) /\ EpochAfter(p.head) \in 0 .. Len(log)
            BY <2>1, <3>1, <3>2, OnLog
        <3>4. View(d) = EpochAfter(p.head) \/ View(d) = EpochAfter(p.head) + 1
            BY <2>2, <3>2, <3>3, ViewFacts
        <3> QED
            BY <2>1, <3>1, <3>3, <3>4, AbstractMove
    <2>3. CASE ~(HasGroup(d) /\ Live(d, k))
        BY <1>3, <2>1, <2>3, SameView, SameViews DEF ResolveMarker
    <2> QED
        BY <2>2, <2>3
<1> QED
    BY <1>1, <1>2, <1>3 DEF Recover, RecoverOnePendingReprovision, RecoverOnePendingRemoval

-----------------------------------------------------------------------------
(* The server and the optimistic write. *)

(* Only the author of a commit can be on it before it is stored. *)
LEMMA PhantomIsAuthor ==
    ASSUME TypeInv, OwnInv, NEW d \in Devices, Phantom(d)
    PROVE  commits[state[d].head].by = d
BY DEF OwnInv, OwnStates, Mine, Phantom, HasGroup

LEMMA AbstractReceive ==
    ASSUME TypeInv, OwnInv, CalmInv, NEW c \in net, Receive(c)
    PROVE  [GL!Next]_(GL!vars)
<1> DEFINE view == [e \in Devices |-> View(e)]
<1>1. UNCHANGED <<commits, state>> /\ c \in Built /\ c \in CommitIds
    BY BuiltFacts DEF Receive, TypeInv, NetOK
<1>2. CASE UNCHANGED log
    BY <1>1, <1>2, SameView, SameViews
<1>3. CASE log' = Append(log, c) /\ commits[c].epoch = Len(log)
    <2>1. Len(log) \in Nat /\ \A i \in 1 .. Len(log) : log[i] # c
        BY <1>3 DEF CalmInv, EpochsMatch, TypeInv, LogOK
    <2>2. LogHeads' = LogHeads \cup {c}
        BY <1>3 DEF LogHeads, Stored, TypeInv, LogOK
    <2>3. ASSUME NEW e \in Devices, state[e].head # c PROVE View(e)' = View(e)
        BY <1>1, <2>2, <2>3 DEF View, HasGroup, Epoch, EpochAfter
    <2>4. ASSUME NEW e \in Devices, state[e].head = c
          PROVE  e = commits[c].by /\ View(e) = Len(log) /\ View(e)' = Len(log) + 1
        <3>1. Phantom(e)
            BY <1>1, <2>1, <2>4 DEF Phantom, HasGroup, LogHeads, Stored, Built
        <3>2. View(e) = Len(log) /\ Epoch(state[e]) = Len(log) + 1
            BY <1>3, <2>4, <3>1, ViewFacts
        <3>3. View(e)' = Epoch(state[e])
            BY <1>1, <2>2, <2>4, <3>1 DEF View, Phantom, HasGroup, Epoch, EpochAfter
        <3> QED
            BY <2>4, <3>1, <3>2, <3>3, PhantomIsAuthor
    <2>5. \/ view' = view
          \/ \E a \in Devices : view[a] = Len(log) /\ view' = [view EXCEPT ![a] = Len(log) + 1]
        <3>1. ASSUME NEW a \in Devices, state[a].head = c
              PROVE  view[a] = Len(log) /\ view' = [view EXCEPT ![a] = Len(log) + 1]
            <4>1. View(a) = Len(log) /\ View(a)' = Len(log) + 1
                BY <2>4, <3>1
            <4>2. \A e \in Devices \ {a} : View(e)' = View(e)
                BY <2>3, <2>4, <3>1
            <4> QED
                BY <4>1, <4>2
        <3>2. CASE \A e \in Devices : state[e].head # c
            BY <2>3, <3>2
        <3> QED
            BY <3>1, <3>2
    <2> HIDE DEF view
    <2>6. GL!Extend
        BY <1>1, <1>3, <2>1, <2>5 DEF GL!Extend, view
    <2> QED
        BY <2>6 DEF GL!Next
<1> QED
    BY <1>2, <1>3 DEF Receive, ServerStore, ServerKeepsWinner, ServerRejects

(* The write itself is invisible: it counts once the server accepts it.    *)
LEMMA AbstractWrite ==
    ASSUME Calm, TypeInv, CalmInv, [Next]_vars, NEW d \in Devices, NEW s \in Slots, Start(d, s)
    PROVE  [GL!Next]_(GL!vars)
<1>1. PICK kind \in AllKinds, t \in Devices, members \in SUBSET Devices :
          HasGroup(d) /\ WriteOptimistic(d, s, kind, t, members)
    BY TypeStart
<1>0. PICK c \in Nat, n \in {Epoch(state[d])} : c = Len(commits) + 1
    BY DEF TypeInv, CommitsOK
<1>2. /\ state'[d].head = c /\ UNCHANGED log
      /\ \A e \in Devices \ {d} : state'[e] = state[e]
    BY <1>0, <1>1 DEF WriteOptimistic, Advanced, TypeInv, StateOK
<1>3. /\ c # 0 /\ c # -1 /\ c \notin Built
      /\ commits'[c].epoch = n
      /\ \A i \in Built : commits'[i] = commits[i]
    <2> DEFINE com == [by |-> d, epoch |-> Epoch(state[d]), parent |-> state[d].head,
                       kind |-> kind, target |-> t, members |-> members]
    <2>1. commits' = Append(commits, com) /\ com.epoch = n
        BY <1>0, <1>1 DEF WriteOptimistic
    <2> HIDE DEF com
    <2> QED
        BY <1>0, <2>1 DEF TypeInv, CommitsOK, Built
<1>4. LogHeads' = LogHeads /\ c \notin LogHeads
    BY <1>2, <1>3, StoredBuilt DEF LogHeads, Stored
<1>5. ~Phantom(d) /\ View(d) = n /\ n \in Nat
    <2>1. ~Phantom(d)
        BY <1>1, SettledStart DEF WriteOptimistic, MayStart, Calm, Phantom
    <2> QED
        BY <1>0, <1>1, <2>1, ViewFacts
<1>6. View(d)' = View(d)
    <2>1. View(d)' = Epoch(state[d])' - 1
        BY <1>2, <1>3, <1>4 DEF View, HasGroup
    <2>2. Epoch(state[d])' = n + 1
        BY <1>2, <1>3 DEF Epoch, EpochAfter
    <2> QED
        BY <1>5, <2>1, <2>2
<1>7. ASSUME NEW e \in Devices \ {d} PROVE View(e)' = View(e)
    <2>1. state[e].head \in Built \cup {0, -1}
        BY DEF TypeInv, StateOK, Built, BuiltOrNone
    <2>2. HasGroup(e) => Epoch(state[e])' = Epoch(state[e])
        BY <1>2, <1>3, <2>1 DEF HasGroup, Epoch, EpochAfter
    <2> QED
        BY <1>2, <1>4, <2>2 DEF View, HasGroup
<1> QED
    BY <1>2, <1>6, <1>7, SameViews

-----------------------------------------------------------------------------
(* The refinement. *)

LEMMA AbstractInit == Init => GL!Init
BY NoneFacts DEF Init, GL!Init, View, HasGroup, LogHeads, Epoch, EpochAfter, Founded

LEMMA AbstractStep ==
    Calm /\ TypeInv /\ OwnInv /\ CalmInv /\ [Next]_vars => [GL!Next]_(GL!vars)
<1> SUFFICES ASSUME Calm, TypeInv, OwnInv, CalmInv, [Next]_vars
             PROVE  [GL!Next]_(GL!vars)
    OBVIOUS
<1>1. ASSUME NEW d \in Devices, NEW s \in Slots, RetryPost(d, s)
      PROVE  [GL!Next]_(GL!vars)
    BY <1>1, SameView, SameViews DEF RetryPost
<1>2. ASSUME NEW c \in net, LoseRequest(c)
      PROVE  [GL!Next]_(GL!vars)
    BY <1>2, SameView, SameViews DEF LoseRequest
<1>3. CASE UNCHANGED vars
    BY <1>3, SameView, SameViews DEF vars
<1> QED
    BY <1>1, <1>2, <1>3, AbstractWrite, AbstractOutcome, AbstractFollow, AbstractWelcome,
       AbstractTraffic, AbstractLocal, AbstractReceive DEF Next

(* In a calm environment the devices and the server behave as one log that *)
(* only grows, with every device at a position of it: whatever is lost,    *)
(* retried, raced or crashed is a fall back by one commit at most.         *)
THEOREM RefinesGroupLog == Calm => (Spec => ImplementsGroupLog)
<1> SUFFICES ASSUME Calm PROVE Spec => ImplementsGroupLog
    OBVIOUS
<1>1. TypeInv /\ OwnInv /\ CalmInv /\ [Next]_vars => [GL!Next]_(GL!vars)
    BY AbstractStep
<1> QED
    BY <1>1, AbstractInit, TypeCorrect, OwnCorrect, CalmCorrect, PTL
       DEF Spec, ImplementsGroupLog, GL!Spec

-----------------------------------------------------------------------------
(* Who is a member, and how the log takes a device out.                    *)

Invites(c, d) == commits[c].target = d /\ commits[c].kind # "removal"

MembersOf(c) == LET m == commits[c] IN
    /\ m.by \in Members(m.parent) /\ m.by # m.target
    /\ m.kind = "provision" => m.target \notin Members(m.parent)
                               /\ m.members = Members(m.parent) \cup {m.target}
    /\ m.kind = "reprovision" => m.target \in Members(m.parent) /\ m.members = Members(m.parent)
    /\ m.kind = "removal" => m.members = Members(m.parent) \ {m.target}
MembersMatch == \A c \in Built : MembersOf(c)

WelcomesMatch == \A w \in welcomes : Invites(w.commit, w.to)

(* A commit of the log that stops d on its way from head a to head h.      *)
Stop(d, x, a, h) == /\ commits[x].target = d /\ commits[x].kind # "provision"
                    /\ EpochAfter(a) <= commits[x].epoch /\ commits[x].epoch < EpochAfter(h)
Blocked(d, a, h) == \E x \in Stored : Stop(d, x, a, h)

(* Whoever was a member and is no longer was removed in between. *)
RemovalsLogged ==
    \A d \in Devices : \A a, h \in LogHeads :
        d \in Members(a) /\ d \notin Members(h) /\ EpochAfter(a) <= EpochAfter(h)
            => Blocked(d, a, h)

-----------------------------------------------------------------------------
(* Head h is spent for d: a Welcome that would take d to h or before it    *)
(* has been processed, or leads d to a commit it cannot follow.            *)
Spent(d, h) ==
    \A c \in Stored : Invites(c, d) /\ EpochAfter(c) <= EpochAfter(h)
        => c \in digests[d] \/ Blocked(d, c, h)

Msg == [by : Devices, head : Heads, gen : Nat]
WasSent(m) == \E i \in 1 .. Len(messages) : messages[i] = m

MessagesSpent == \A m \in Msg : WasSent(m) => m.head \in LogHeads /\ Spent(m.by, m.head)
BuiltOn(d, h) == \E c \in Built : commits[c].by = d /\ commits[c].parent = h
ParentsSpent == \A d \in Devices, h \in Heads : BuiltOn(d, h) => Spent(d, h)

(* On group state b, d is past every message it sent, or cannot come to    *)
(* where it sent it.                                                       *)
Past(d, b, m) ==
    \/ EpochAfter(b.head) > EpochAfter(m.head)
    \/ EpochAfter(b.head) < EpochAfter(m.head) /\ Blocked(d, b.head, m.head)
    \/ b.head = m.head /\ b.gen > m.gen
Good(d, b) == /\ b.head \in LogHeads /\ d \in Members(b.head) /\ Spent(d, b.head)
              /\ \A m \in Msg : WasSent(m) /\ m.by = d => Past(d, b, m)

(* The states of the log a device is on, or may be rolled back to. *)
On(d, b) == HasGroup(d) /\ state[d] = b
Back(d, b) == \/ \E s \in Slots : Posting(d, s) /\ op[d][s].prev = b
              \/ \E k \in MarkerKinds : HasGroup(d) /\ Live(d, k) /\ marker[d][k].prev = b
Base(d, b) == (On(d, b) /\ b.head \in LogHeads) \/ Back(d, b)

BasesGood == \A d \in Devices, b \in Blob : Base(d, b) => Good(d, b)
HoldersMember == \A d \in Devices, b \in Blob : On(d, b) => d \in Members(b.head)

(* A marker that is not live never comes to life again: the epoch it names *)
(* is behind the device and whatever it may be rolled back to.             *)
At(d, e) == EpochAfter(state[d].head) = e
WasAt(d, s, e) == EpochAfter(op[d][s].prev.head) = e
Marked(d, k, n) == marker[d][k] # NoMarker /\ marker[d][k].newEpoch = n

Ages(d) ==
    \A k \in MarkerKinds, n \in Nat : Marked(d, k, n) =>
        /\ HasGroup(d)
        /\ \A e \in Nat : At(d, e) => n <= e
        /\ \A s \in Slots, e \in Nat : Posting(d, s) /\ WasAt(d, s, e) =>
              (k = op[d][s].kind /\ n = e + 1) \/ n < e
        /\ \A j \in MarkerKinds \ {k}, o \in Nat : Marked(d, j, o) /\ At(d, o) => n < o - 1
MarkersAge == \A d \in Devices : Ages(d)

KeysInv == /\ MembersMatch /\ WelcomesMatch /\ RemovalsLogged
           /\ MessagesSpent /\ ParentsSpent
           /\ BasesGood /\ HoldersMember /\ MarkersAge

KeysPre == Calm /\ TypeInv /\ OwnInv /\ CalmInv /\ KeysInv

-----------------------------------------------------------------------------
(* Whatever the step, what is known of heads of the log stays true.        *)

LEMMA NextInvs ==
    ASSUME KeysPre, [Next]_vars
    PROVE  TypeInv' /\ OwnInv' /\ CalmInv'
BY TypeStep, OwnStep, CalmStep DEF KeysPre

LEMMA HeadsBuilt == ASSUME TypeInv PROVE LogHeads \subseteq 0 .. Len(commits)
BY StoredBuilt DEF LogHeads, Built

LEMMA EpochStays ==
    ASSUME TypeInv, [Next]_vars, NEW h \in 0 .. Len(commits)
    PROVE  EpochAfter(h)' = EpochAfter(h) /\ Members(h)' = Members(h)
<1>1. h = 0 \/ h \in Built
    BY DEF Built, TypeInv, CommitsOK
<1> QED
    BY <1>1, CommitsGrow DEF EpochAfter, Members

LEMMA LogStep ==
    ASSUME TypeInv, [Next]_vars
    PROVE  \/ UNCHANGED log
           \/ \E c \in net : ServerStore(c) /\ Receive(c)
<1>1. ASSUME NEW d \in Devices, NEW s \in Slots, Start(d, s)
      PROVE  UNCHANGED log
    BY <1>1, TypeStart DEF WriteOptimistic
<1>2. ASSUME NEW c \in net, Receive(c)
      PROVE  UNCHANGED log \/ ServerStore(c)
    BY <1>2 DEF Receive, ServerKeepsWinner, ServerRejects
<1>3. ASSUME NEW d \in Devices, NEW s \in Slots,
             RetryPost(d, s) \/ Outcome(d, s) \/ Resync(d, s)
      PROVE  UNCHANGED log
    BY <1>3 DEF RetryPost, Outcome, Confirm, LostRace, Conflict,
       ReconcileAfterPostCommitFailure, Resync
<1>4. ASSUME NEW d \in Devices, Follow(d) \/ TakeWelcome(d) \/ Traffic(d)
      PROVE  UNCHANGED log
    BY <1>4 DEF Follow, ApplyCommit, TakeWelcome, JoinViaWelcome, IgnoreWelcome, Traffic,
       EncryptMessage, DecryptMessage
<1>5. ASSUME NEW d \in Devices, ClearConversationGroup(d) \/ Crash(d) \/ Recover(d)
      PROVE  UNCHANGED log
    BY <1>5 DEF ClearConversationGroup, Crash, Recover, RecoverOnePendingReprovision,
       RecoverOnePendingRemoval, ResolveMarker
<1> QED
    BY <1>1, <1>2, <1>3, <1>4, <1>5 DEF Next, vars, LoseRequest

(* A commit that the log gets is of the epoch after all its heads. *)
LEMMA NewerThanHeads ==
    ASSUME KeysPre, [Next]_vars, NEW c \in Stored', c \notin Stored, NEW h \in LogHeads
    PROVE  c \in Built /\ EpochAfter(h) < EpochAfter(c) /\ commits[c].epoch = Len(log)
<1>0. log' # log
    BY DEF Stored
<1>1. PICK n \in net : log' = Append(log, n) /\ commits[n].epoch = Len(log)
    BY <1>0, LogStep DEF ServerStore, KeysPre
<1>2. c = n /\ c \in Built
    BY <1>1 DEF Stored, KeysPre, TypeInv, LogOK, NetOK
<1>3. c # 0 /\ EpochAfter(c) = Len(log) + 1 /\ Len(log) \in Nat
    BY <1>1, <1>2 DEF EpochAfter, Built, KeysPre, TypeInv, LogOK
<1>4. EpochAfter(h) \in 0 .. Len(log)
    BY <1>3, HeadAt DEF KeysPre, CalmInv
<1> QED
    BY <1>1, <1>2, <1>3, <1>4

LEMMA DigestsGrow ==
    ASSUME TypeInv, [Next]_vars, NEW d \in Devices
    PROVE  digests[d] \subseteq digests'[d]
<1>1. ASSUME NEW e \in Devices, NEW s \in Slots, Start(e, s)
      PROVE  UNCHANGED digests
    BY <1>1, TypeStart DEF WriteOptimistic
<1>2. ASSUME NEW c \in net, Receive(c) \/ LoseRequest(c)
      PROVE  UNCHANGED digests
    BY <1>2 DEF Receive, LoseRequest
<1>3. ASSUME NEW e \in Devices, NEW s \in Slots,
             RetryPost(e, s) \/ Outcome(e, s) \/ Resync(e, s)
      PROVE  UNCHANGED digests
    BY <1>3 DEF RetryPost, Outcome, Confirm, LostRace, Conflict,
       ReconcileAfterPostCommitFailure, Resync
<1>4. ASSUME NEW e \in Devices, Follow(e) \/ Traffic(e)
      PROVE  UNCHANGED digests
    BY <1>4 DEF Follow, ApplyCommit, Traffic, EncryptMessage, DecryptMessage
<1>5. ASSUME NEW e \in Devices, ClearConversationGroup(e) \/ Crash(e) \/ Recover(e)
      PROVE  UNCHANGED digests
    BY <1>5 DEF ClearConversationGroup, Crash, Recover, RecoverOnePendingReprovision,
       RecoverOnePendingRemoval, ResolveMarker
<1>6. ASSUME NEW e \in Devices, TakeWelcome(e)
      PROVE  digests[d] \subseteq digests'[d]
    BY <1>6 DEF TakeWelcome, JoinViaWelcome, IgnoreWelcome, TypeInv, DigestsOK
<1> QED
    BY <1>1, <1>2, <1>3, <1>4, <1>5, <1>6 DEF Next, vars

LEMMA BlockedStays ==
    ASSUME KeysPre, [Next]_vars, NEW d, NEW a \in LogHeads, NEW h \in LogHeads, Blocked(d, a, h)
    PROVE  Blocked(d, a, h)'
<1>1. PICK x \in Stored : Stop(d, x, a, h)
    BY DEF Blocked
<1>2. x \in Stored' /\ commits'[x] = commits[x]
    BY CommitsGrow, StoredBuilt DEF KeysPre
<1>3. EpochAfter(a)' = EpochAfter(a) /\ EpochAfter(h)' = EpochAfter(h)
    BY HeadsBuilt, EpochStays DEF KeysPre
<1>4. Stop(d, x, a, h)'
    BY <1>1, <1>2, <1>3 DEF Stop
<1> QED
    BY <1>2, <1>4 DEF Blocked

LEMMA SpentStays ==
    ASSUME KeysPre, [Next]_vars, NEW d \in Devices, NEW h \in LogHeads, Spent(d, h)
    PROVE  Spent(d, h)'
<1> SUFFICES ASSUME NEW c \in Stored', Invites(c, d)', EpochAfter(c)' <= EpochAfter(h)'
             PROVE  c \in digests'[d] \/ Blocked(d, c, h)'
    BY DEF Spent
<1>1. EpochAfter(h)' = EpochAfter(h) /\ EpochAfter(h) \in Nat
    BY HeadsBuilt, EpochStays, EpochFacts DEF KeysPre
<1>2. c \in Stored
    <2> SUFFICES ASSUME c \notin Stored PROVE FALSE
        OBVIOUS
    <2>1. c \in Built /\ EpochAfter(h) < EpochAfter(c)
        BY NewerThanHeads
    <2>2. c \in 0 .. Len(commits) /\ EpochAfter(c)' = EpochAfter(c)
        BY <2>1, EpochStays DEF KeysPre, Built
    <2>3. EpochAfter(c) \in Nat
        BY <2>2, EpochFacts DEF KeysPre
    <2> QED
        BY <1>1, <2>1, <2>2, <2>3
<1>3. c \in Built /\ c \in LogHeads /\ c \in 0 .. Len(commits)
    BY <1>2, StoredBuilt, HeadsBuilt DEF KeysPre, LogHeads
<1>4. Invites(c, d) /\ EpochAfter(c) <= EpochAfter(h)
    BY <1>1, <1>3, EpochStays, CommitsGrow DEF Invites, KeysPre
<1>5. c \in digests[d] \/ Blocked(d, c, h)
    BY <1>2, <1>4 DEF Spent
<1> QED
    BY <1>3, <1>5, DigestsGrow, BlockedStays DEF KeysPre

LEMMA PastStays ==
    ASSUME KeysPre, [Next]_vars, NEW d \in Devices, NEW b \in Blob, NEW m \in Msg,
           b.head \in LogHeads, m.head \in LogHeads, Past(d, b, m)
    PROVE  Past(d, b, m)'
<1> DEFINE a == b.head
           h == m.head
<1>1. EpochAfter(a)' = EpochAfter(a) /\ EpochAfter(h)' = EpochAfter(h)
    BY HeadsBuilt, EpochStays DEF KeysPre
<1>2. Blocked(d, a, h) => Blocked(d, a, h)'
    BY BlockedStays
<1> QED
    BY <1>1, <1>2 DEF Past

LEMMA GoodStays ==
    ASSUME KeysPre, [Next]_vars, NEW d \in Devices, NEW b \in Blob, Good(d, b),
           \A m \in Msg : WasSent(m)' /\ m.by = d => WasSent(m)
    PROVE  Good(d, b)'
<1>1. b.head \in LogHeads' /\ d \in Members(b.head)'
    <2> DEFINE h == b.head
    <2>1. h \in LogHeads /\ h \in LogHeads' /\ h \in 0 .. Len(commits)
        BY HeadsBuilt, CommitsGrow DEF KeysPre, Good
    <2>2. Members(h)' = Members(h)
        BY <2>1, EpochStays DEF KeysPre
    <2> QED
        BY <2>1, <2>2 DEF Good
<1>2. Spent(d, b.head)'
    <2> DEFINE h == b.head
    <2>1. Spent(d, h)'
        BY SpentStays DEF Good
    <2> QED
        BY <2>1
<1>3. ASSUME NEW m \in Msg, WasSent(m)', m.by = d PROVE Past(d, b, m)'
    BY <1>3, PastStays DEF Good, KeysPre, KeysInv, MessagesSpent
<1> QED
    BY <1>1, <1>2, <1>3 DEF Good

-----------------------------------------------------------------------------
(* The parts of the invariant that only the log, the commits and the       *)
(* messages bear on.                                                       *)

LEMMA BuiltOnHead ==
    ASSUME KeysPre, NEW d, NEW h, BuiltOn(d, h)
    PROVE  h \in LogHeads /\ h \in Heads
<1>1. h \in LogHeads
    BY DEF BuiltOn, KeysPre, CalmInv, ParentsInLog
<1> QED
    BY <1>1, HeadsBuilt, BuiltFacts DEF KeysPre, BuiltOrNone

LEMMA ParentsSpentStays ==
    ASSUME KeysPre, [Next]_vars, UNCHANGED commits
    PROVE  ParentsSpent'
<1> SUFFICES ASSUME NEW d \in Devices, NEW h \in Heads, BuiltOn(d, h)' PROVE Spent(d, h)'
    BY DEF ParentsSpent
<1>1. BuiltOn(d, h)
    BY DEF BuiltOn, Built
<1>2. Spent(d, h)
    BY <1>1 DEF KeysPre, KeysInv, ParentsSpent
<1> QED
    BY <1>1, <1>2, BuiltOnHead, SpentStays

LEMMA MessagesSpentStays ==
    ASSUME KeysPre, [Next]_vars, UNCHANGED messages
    PROVE  MessagesSpent'
<1> SUFFICES ASSUME NEW m \in Msg, WasSent(m)'
             PROVE  m.head \in LogHeads' /\ Spent(m.by, m.head)'
    BY DEF MessagesSpent
<1> DEFINE d == m.by
           h == m.head
<1>1. WasSent(m) /\ d \in Devices
    BY DEF WasSent, Msg
<1>2. h \in LogHeads /\ Spent(d, h)
    BY <1>1 DEF KeysPre, KeysInv, MessagesSpent
<1>3. Spent(d, h)'
    BY <1>1, <1>2, SpentStays
<1> QED
    BY <1>2, <1>3, CommitsGrow DEF KeysPre

LEMMA MembersMatchStays ==
    ASSUME KeysPre, [Next]_vars, UNCHANGED commits
    PROVE  MembersMatch'
BY DEF KeysPre, KeysInv, MembersMatch, MembersOf, Members, Built

LEMMA WelcomesMatchStays ==
    ASSUME KeysPre, UNCHANGED <<commits, welcomes>>
    PROVE  WelcomesMatch'
BY DEF KeysPre, KeysInv, WelcomesMatch, Invites

LEMMA RemovalsStay ==
    ASSUME KeysPre, [Next]_vars, UNCHANGED log
    PROVE  RemovalsLogged'
<1> SUFFICES ASSUME NEW d \in Devices, NEW a \in LogHeads', NEW h \in LogHeads',
                    d \in Members(a)', d \notin Members(h)', EpochAfter(a)' <= EpochAfter(h)'
             PROVE  Blocked(d, a, h)'
    BY DEF RemovalsLogged
<1>1. a \in LogHeads /\ h \in LogHeads
    BY DEF LogHeads, Stored
<1>2. a \in 0 .. Len(commits) /\ h \in 0 .. Len(commits)
    BY <1>1, HeadsBuilt DEF KeysPre
<1>3. d \in Members(a) /\ d \notin Members(h) /\ EpochAfter(a) <= EpochAfter(h)
    BY <1>2, EpochStays DEF KeysPre
<1> QED
    BY <1>1, <1>3, BlockedStays DEF KeysPre, KeysInv, RemovalsLogged

(* What is left to show of a step that builds and stores no commit and     *)
(* sends no message.                                                       *)
LEMMA LogPartStays ==
    ASSUME KeysPre, [Next]_vars, UNCHANGED <<commits, log, welcomes, messages>>
    PROVE  MembersMatch' /\ WelcomesMatch' /\ RemovalsLogged' /\ MessagesSpent' /\ ParentsSpent'
BY ParentsSpentStays, MessagesSpentStays, MembersMatchStays, WelcomesMatchStays, RemovalsStay

LEMMA OldBaseGood ==
    ASSUME KeysPre, [Next]_vars, UNCHANGED messages, NEW d \in Devices, NEW b \in Blob, Base(d, b)
    PROVE  Good(d, b)'
<1>1. Good(d, b)
    BY DEF KeysPre, KeysInv, BasesGood
<1>2. \A m : WasSent(m)' => WasSent(m)
    BY DEF WasSent
<1> QED
    BY <1>1, <1>2, GoodStays

LEMMA OldMember ==
    ASSUME KeysPre, [Next]_vars, NEW d \in Devices, NEW b \in Blob, On(d, b) \/ Base(d, b)
    PROVE  d \in Members(b.head)'
<1> DEFINE h == b.head
<1>1. d \in Members(h)
    BY DEF KeysPre, KeysInv, BasesGood, Good, HoldersMember
<1>2. h \in 0 .. Len(commits)
    <2>1. CASE On(d, b)
        BY <2>1 DEF On, HasGroup, KeysPre, TypeInv, StateOK, BuiltOrNone
    <2>2. CASE Base(d, b)
        BY <2>2, HeadsBuilt DEF KeysPre, KeysInv, BasesGood, Good
    <2> QED
        BY <2>1, <2>2
<1>3. Members(h)' = Members(h)
    BY <1>2, EpochStays DEF KeysPre
<1> QED
    BY <1>1, <1>3

(* Steps after which a device is on no state it was not on, or could not   *)
(* go back to, before.                                                     *)
LEMMA NoNewBase ==
    ASSUME KeysPre, [Next]_vars, UNCHANGED <<commits, log, welcomes, messages>>,
           \A d \in Devices, b \in Blob : On(d, b)' => On(d, b) \/ Base(d, b),
           \A d \in Devices, b \in Blob : Back(d, b)' => Base(d, b),
           MarkersAge'
    PROVE  KeysInv'
<1>1. LogHeads' = LogHeads
    BY DEF LogHeads, Stored
<1>2. ASSUME NEW d \in Devices, NEW b \in Blob, Base(d, b)' PROVE Good(d, b)'
    <2>1. Base(d, b)
        BY <1>1, <1>2 DEF Base
    <2> QED
        BY <2>1, OldBaseGood
<1>3. ASSUME NEW d \in Devices, NEW b \in Blob, On(d, b)' PROVE d \in Members(b.head)'
    BY <1>3, OldMember
<1>4. BasesGood' /\ HoldersMember'
    BY <1>2, <1>3 DEF BasesGood, HoldersMember
<1> QED
    BY <1>4, LogPartStays DEF KeysInv

-----------------------------------------------------------------------------
(* Markers and the epochs of the device.                                   *)

LEMMA PrevOnLog ==
    ASSUME KeysPre, NEW d \in Devices, NEW s \in Slots, op[d][s].pc # "idle"
    PROVE  op[d][s].prev.head \in LogHeads
BY DEF KeysPre, CalmInv, OpsMatch, ParentsInLog, TypeInv, OpOK, RefsOK

(* The operations under way are those there were. *)
OpsShrink(d) ==
    \A s \in Slots : Posting(d, s)' =>
        Posting(d, s) /\ op'[d][s].kind = op[d][s].kind /\ op'[d][s].prev = op[d][s].prev

LEMMA WasAtStays ==
    ASSUME KeysPre, [Next]_vars, NEW d \in Devices, NEW s \in Slots, NEW e \in Nat,
           Posting(d, s), op'[d][s].prev = op[d][s].prev, WasAt(d, s, e)'
    PROVE  WasAt(d, s, e)
<1>1. PICK h \in LogHeads : h = op[d][s].prev.head
    BY PrevOnLog DEF Posting
<1>2. EpochAfter(h)' = EpochAfter(h)
    BY <1>1, HeadsBuilt, EpochStays DEF KeysPre
<1> QED
    BY <1>1, <1>2 DEF WasAt, EpochAfter

LEMMA AtStays ==
    ASSUME KeysPre, [Next]_vars, NEW d \in Devices, NEW e \in Nat,
           HasGroup(d), state'[d].head = state[d].head
    PROVE  At(d, e)' <=> At(d, e)
<1>1. PICK h \in 0 .. Len(commits) : h = state[d].head
    BY DEF HasGroup, KeysPre, TypeInv, StateOK, BuiltOrNone
<1>2. EpochAfter(h)' = EpochAfter(h)
    BY EpochStays DEF KeysPre
<1> QED
    BY <1>1, <1>2 DEF At, EpochAfter

LEMMA AgesSame ==
    ASSUME KeysPre, [Next]_vars, NEW d \in Devices, OpsShrink(d),
           state'[d].head = state[d].head,
           \A k \in MarkerKinds, n \in Nat : Marked(d, k, n)' => Marked(d, k, n)
    PROVE  Ages(d)'
<1>1. Ages(d)
    BY DEF KeysPre, KeysInv, MarkersAge
<1> SUFFICES ASSUME NEW k \in MarkerKinds, NEW n \in Nat, Marked(d, k, n)'
             PROVE  /\ HasGroup(d)'
                    /\ \A e \in Nat : At(d, e)' => n <= e
                    /\ \A s \in Slots, e \in Nat : Posting(d, s)' /\ WasAt(d, s, e)' =>
                          (k = op'[d][s].kind /\ n = e + 1) \/ n < e
                    /\ \A j \in MarkerKinds \ {k}, o \in Nat :
                          Marked(d, j, o)' /\ At(d, o)' => n < o - 1
    BY DEF Ages
<1>2. Marked(d, k, n) /\ HasGroup(d)
    BY <1>1 DEF Ages
<1>3. \A e \in Nat : At(d, e)' <=> At(d, e)
    BY <1>2, AtStays
<1>4. ASSUME NEW s \in Slots, NEW e \in Nat, Posting(d, s)', WasAt(d, s, e)'
      PROVE  (k = op'[d][s].kind /\ n = e + 1) \/ n < e
    <2>1. Posting(d, s) /\ op'[d][s].kind = op[d][s].kind /\ op'[d][s].prev = op[d][s].prev
        BY <1>4 DEF OpsShrink
    <2>2. WasAt(d, s, e)
        BY <1>4, <2>1, WasAtStays
    <2> QED
        BY <1>1, <1>2, <2>1, <2>2 DEF Ages
<1> QED
    BY <1>1, <1>2, <1>3, <1>4 DEF Ages, HasGroup

(* The device goes to an epoch past those of the markers that are left. *)
LEMMA AgesBehind ==
    ASSUME KeysPre, [Next]_vars, NEW d \in Devices, OpsShrink(d),
           \A k \in MarkerKinds, n \in Nat : Marked(d, k, n)' =>
               /\ Marked(d, k, n) /\ HasGroup(d)'
               /\ \A e \in Nat : At(d, e)' => n < e
    PROVE  Ages(d)'
<1>1. Ages(d)
    BY DEF KeysPre, KeysInv, MarkersAge
<1> SUFFICES ASSUME NEW k \in MarkerKinds, NEW n \in Nat, Marked(d, k, n)'
             PROVE  /\ HasGroup(d)'
                    /\ \A e \in Nat : At(d, e)' => n <= e
                    /\ \A s \in Slots, e \in Nat : Posting(d, s)' /\ WasAt(d, s, e)' =>
                          (k = op'[d][s].kind /\ n = e + 1) \/ n < e
                    /\ \A j \in MarkerKinds \ {k}, o \in Nat :
                          Marked(d, j, o)' /\ At(d, o)' => n < o - 1
    BY DEF Ages
<1>2. Marked(d, k, n)
    OBVIOUS
<1>4. ASSUME NEW s \in Slots, NEW e \in Nat, Posting(d, s)', WasAt(d, s, e)'
      PROVE  (k = op'[d][s].kind /\ n = e + 1) \/ n < e
    <2>1. Posting(d, s) /\ op'[d][s].kind = op[d][s].kind /\ op'[d][s].prev = op[d][s].prev
        BY <1>4 DEF OpsShrink
    <2>2. WasAt(d, s, e)
        BY <1>4, <2>1, WasAtStays
    <2> QED
        BY <1>1, <1>2, <2>1, <2>2 DEF Ages
<1>5. ASSUME NEW j \in MarkerKinds \ {k}, NEW o \in Nat, Marked(d, j, o)', At(d, o)'
      PROVE  FALSE
    BY <1>5
<1> QED
    BY <1>4, <1>5

LEMMA AgesUnmarked ==
    ASSUME NEW d \in Devices, \A k \in MarkerKinds, n \in Nat : ~Marked(d, k, n)'
    PROVE  Ages(d)'
BY DEF Ages

(* A live marker is one of the epoch of the device. *)
LEMMA LiveIsAt ==
    ASSUME TypeInv, CalmInv, NEW d \in Devices, NEW k \in MarkerKinds, HasGroup(d)
    PROVE  Live(d, k) <=> \E n \in Nat : Marked(d, k, n) /\ At(d, n)
<1>1. EpochAfter(state[d].head) \in Nat
    BY EpochFacts DEF HasGroup, TypeInv, StateOK, BuiltOrNone
<1> QED
    BY <1>1 DEF Live, Marked, At, Epoch

LEMMA LiveNext ==
    ASSUME KeysPre, [Next]_vars, UNCHANGED commits, NEW d \in Devices, NEW k \in MarkerKinds,
           HasGroup(d)', Live(d, k)'
    PROVE  \E n \in Nat : Marked(d, k, n)' /\ At(d, n)'
<1>1. TypeInv'
    BY NextInvs
<1>2. PICK h \in 0 .. Len(commits) : h = state'[d].head
    <2>1. state'[d].head \in -1 .. Len(commits) /\ state'[d].head # -1
        BY <1>1 DEF TypeInv, StateOK, HasGroup, BuiltOrNone
    <2> QED
        BY <2>1 DEF KeysPre, TypeInv, CommitsOK
<1>3. EpochAfter(h)' = EpochAfter(h) /\ EpochAfter(h) \in Nat
    BY EpochStays, EpochFacts DEF KeysPre
<1>4. At(d, EpochAfter(h))'
    BY <1>2, <1>3 DEF At, EpochAfter
<1>5. Marked(d, k, EpochAfter(h))'
    BY <1>2, <1>3 DEF Live, Marked, Epoch, EpochAfter
<1> QED
    BY <1>3, <1>4, <1>5

LEMMA LiveStays ==
    ASSUME KeysPre, [Next]_vars, NEW d \in Devices, NEW k \in MarkerKinds,
           HasGroup(d), state'[d].head = state[d].head, marker'[d][k] = marker[d][k], Live(d, k)'
    PROVE  Live(d, k)
<1>1. PICK h \in 0 .. Len(commits) : h = state[d].head
    BY DEF HasGroup, KeysPre, TypeInv, StateOK, BuiltOrNone
<1>2. EpochAfter(h)' = EpochAfter(h)
    BY EpochStays DEF KeysPre
<1> QED
    BY <1>1, <1>2 DEF Live, Epoch, EpochAfter

(* Markers of d are as they were, or gone. *)
MarkersShrink(d) == \A k \in MarkerKinds : marker'[d][k] = marker[d][k] \/ marker'[d][k] = NoMarker

LEMMA MarkedShrinks ==
    ASSUME NEW d, MarkersShrink(d)
    PROVE  \A k \in MarkerKinds, n \in Nat : Marked(d, k, n)' => Marked(d, k, n)
BY DEF MarkersShrink, Marked

LEMMA BackStays ==
    ASSUME KeysPre, [Next]_vars, NEW d \in Devices, OpsShrink(d), MarkersShrink(d),
           state'[d].head = state[d].head, NEW b, Back(d, b)'
    PROVE  Back(d, b)
<1>1. CASE \E s \in Slots : Posting(d, s)' /\ op'[d][s].prev = b
    BY <1>1 DEF OpsShrink, Back
<1>2. ASSUME NEW k \in MarkerKinds, HasGroup(d)', Live(d, k)', marker'[d][k].prev = b
      PROVE  Back(d, b)
    <2>1. marker'[d][k] = marker[d][k] /\ HasGroup(d)
        BY <1>2 DEF Live, MarkersShrink, HasGroup
    <2> QED
        BY <1>2, <2>1, LiveStays DEF Back
<1> QED
    BY <1>1, <1>2 DEF Back

(* Past its markers, d is rolled back by its operation only. *)
MarkersBehind(d) ==
    \A k \in MarkerKinds, n \in Nat : Marked(d, k, n)' =>
        /\ Marked(d, k, n) /\ HasGroup(d)'
        /\ \A e \in Nat : At(d, e)' => n < e

LEMMA BackBehind ==
    ASSUME KeysPre, [Next]_vars, UNCHANGED commits, NEW d \in Devices, OpsShrink(d),
           MarkersBehind(d), NEW b, Back(d, b)'
    PROVE  \E s \in Slots : Posting(d, s)' /\ Posting(d, s) /\ op[d][s].prev = b
<1>1. ASSUME NEW k \in MarkerKinds, HasGroup(d)', Live(d, k)' PROVE FALSE
    <2>1. PICK n \in Nat : Marked(d, k, n)' /\ At(d, n)'
        BY <1>1, LiveNext
    <2>2. n < n
        BY <2>1 DEF MarkersBehind
    <2> QED
        BY <2>2
<1> QED
    BY <1>1 DEF Back, OpsShrink

LEMMA OthersKeep ==
    ASSUME KeysPre, [Next]_vars, NEW e \in Devices,
           state'[e] = state[e], marker'[e] = marker[e], op'[e] = op[e]
    PROVE  /\ Ages(e)'
           /\ \A b : (On(e, b)' => On(e, b)) /\ (Back(e, b)' => Back(e, b))
<1>1. OpsShrink(e) /\ MarkersShrink(e)
    BY DEF OpsShrink, MarkersShrink, Posting
<1>2. Ages(e)'
    BY <1>1, MarkedShrinks, AgesSame
<1>3. \A b : On(e, b)' => On(e, b)
    BY DEF On, HasGroup
<1>4. \A b : Back(e, b)' => Back(e, b)
    BY <1>1, BackStays
<1> QED
    BY <1>2, <1>3, <1>4

(* A step of d alone that builds and stores no commit and sends nothing. *)
OnlyOf(d) ==
    /\ UNCHANGED <<commits, log, welcomes, messages>>
    /\ \A e \in Devices \ {d} : state'[e] = state[e] /\ marker'[e] = marker[e] /\ op'[e] = op[e]

LEMMA StepOfOne ==
    ASSUME KeysPre, [Next]_vars, NEW d \in Devices, OnlyOf(d), Ages(d)',
           \A b \in Blob : On(d, b)' => On(d, b) \/ Base(d, b) \/ Good(d, b)',
           \A b \in Blob : Back(d, b)' => Base(d, b)
    PROVE  KeysInv'
<1>1. LogHeads' = LogHeads
    BY DEF LogHeads, Stored, OnlyOf
<1>2. ASSUME NEW e \in Devices, NEW b \in Blob, Base(e, b)' PROVE Good(e, b)'
    <2>1. CASE e = d
        <3>1. Base(d, b) \/ Good(d, b)'
            BY <1>1, <1>2, <2>1 DEF Base
        <3> QED
            BY <2>1, <3>1, OldBaseGood DEF OnlyOf
    <2>2. CASE e # d
        <3>1. (On(e, b)' => On(e, b)) /\ (Back(e, b)' => Back(e, b))
            BY <2>2, OthersKeep DEF OnlyOf
        <3> QED
            BY <1>1, <1>2, <3>1, OldBaseGood DEF OnlyOf, Base
    <2> QED
        BY <2>1, <2>2
<1>3. ASSUME NEW e \in Devices, NEW b \in Blob, On(e, b)' PROVE e \in Members(b.head)'
    <2>1. CASE e = d
        BY <1>3, <2>1, OldMember DEF Good
    <2>2. CASE e # d
        BY <1>3, <2>2, OthersKeep, OldMember DEF OnlyOf
    <2> QED
        BY <2>1, <2>2
<1>4. BasesGood' /\ HoldersMember'
    BY <1>2, <1>3 DEF BasesGood, HoldersMember
<1>5. MarkersAge'
    BY OthersKeep DEF MarkersAge, OnlyOf
<1> QED
    BY <1>4, <1>5, LogPartStays DEF KeysInv, OnlyOf

-----------------------------------------------------------------------------
(* Steps that leave the device where it is, or roll it back.               *)

LEMMA SameStep ==
    ASSUME KeysPre, [Next]_vars, NEW d \in Devices, OnlyOf(d), OpsShrink(d), MarkersShrink(d),
           state'[d] = state[d]
    PROVE  KeysInv'
<1>1. Ages(d)'
    BY MarkedShrinks, AgesSame
<1>2. \A b \in Blob : On(d, b)' => On(d, b)
    BY DEF On, HasGroup
<1>3. \A b \in Blob : Back(d, b)' => Base(d, b)
    BY BackStays DEF Base
<1> QED
    BY <1>1, <1>2, <1>3, StepOfOne

LEMMA FinishShrinks ==
    ASSUME NEW d \in Devices, NEW s \in Slots, op'[d][s] = NoOp,
           \A z \in Slots \ {s} : op'[d][z] = op[d][z]
    PROVE  OpsShrink(d)
BY NoneFacts DEF OpsShrink, Posting

LEMMA RollBack ==
    ASSUME KeysPre, [Next]_vars, NEW d \in Devices, OnlyOf(d), OpsShrink(d), MarkersBehind(d),
           NEW p \in Blob, Base(d, p), state'[d] = p
    PROVE  KeysInv'
<1>1. Ages(d)'
    BY AgesBehind DEF MarkersBehind
<1>2. \A b \in Blob : On(d, b)' => Base(d, b)
    BY DEF On
<1>3. UNCHANGED commits
    BY DEF OnlyOf
<1>4. \A b \in Blob : Back(d, b)' => Base(d, b)
    BY <1>3, BackBehind DEF Back, Base
<1> QED
    BY <1>1, <1>2, <1>4, StepOfOne

LEMMA OutcomeOnly ==
    ASSUME KeysPre, NEW d \in Devices, NEW s \in Slots, Outcome(d, s),
           UNCHANGED messages, \A e \in Devices \ {d} : op'[e] = op[e]
    PROVE  OnlyOf(d) /\ MarkersShrink(d) /\ Posting(d, s)
BY OutcomeFrame DEF OnlyOf, MarkersShrink, MarkersFrom, KeysPre

LEMMA KeysConfirm ==
    ASSUME KeysPre, [Next]_vars, NEW d \in Devices, NEW s \in Slots, Confirm(d, s)
    PROVE  KeysInv'
<1>1. UNCHANGED <<commits, log>> /\ Finish(d, s) /\ UNCHANGED <<state, messages>>
    BY DEF Confirm
<1>2. /\ op'[d][s] = NoOp /\ \A z \in Slots \ {s} : op'[d][z] = op[d][z]
      /\ \A e \in Devices \ {d} : op'[e] = op[e]
    BY <1>1, OpsFollowFinish DEF KeysPre, CalmInv
<1>3. OnlyOf(d) /\ MarkersShrink(d) /\ OpsShrink(d)
    BY <1>1, <1>2, OutcomeOnly, FinishShrinks DEF Outcome
<1> QED
    BY <1>1, <1>3, SameStep

(* Back to the state the operation was started on. *)
LEMMA RollBackOp ==
    ASSUME KeysPre, [Next]_vars, NEW d \in Devices, NEW s \in Slots, OnlyOf(d), OpsShrink(d),
           Posting(d, s), state'[d] = op[d][s].prev,
           \A k \in MarkerKinds, n \in Nat :
               Marked(d, k, n)' => Marked(d, k, n) /\ k # op[d][s].kind
    PROVE  KeysInv'
<1>1. PICK p \in Blob : p = op[d][s].prev
    BY DEF KeysPre, TypeInv, OpOK, Op
<1>2. PICK h \in LogHeads : h = p.head
    BY <1>1, PrevOnLog DEF Posting
<1>3. h \in 0 .. Len(commits) /\ EpochAfter(h)' = EpochAfter(h)
    BY HeadsBuilt, EpochStays DEF KeysPre
<1>4. HasGroup(d)'
    <2>1. h # -1
        BY <1>3 DEF KeysPre, TypeInv, CommitsOK
    <2> QED
        BY <1>1, <1>2, <2>1 DEF HasGroup
<1>5. MarkersBehind(d)
    <2> SUFFICES ASSUME NEW k \in MarkerKinds, NEW n \in Nat, Marked(d, k, n)',
                        NEW e \in Nat, At(d, e)'
                 PROVE  n < e
        BY <1>4 DEF MarkersBehind
    <2>1. WasAt(d, s, e)
        BY <1>1, <1>2, <1>3 DEF At, WasAt, EpochAfter
    <2> QED
        BY <2>1 DEF KeysPre, KeysInv, MarkersAge, Ages
<1>6. Base(d, p)
    BY <1>1 DEF Base, Back
<1> QED
    BY <1>1, <1>5, <1>6, RollBack

LEMMA KeysLostRace ==
    ASSUME KeysPre, [Next]_vars, NEW d \in Devices, NEW s \in Slots, LostRace(d, s)
    PROVE  KeysInv'
<1> DEFINE q == op[d][s]
           o == [q EXCEPT !.pc = "lost"]
<1>1. /\ op'[d][s] = o
      /\ \A z \in Slots \ {s} : op'[d][z] = op[d][z]
      /\ \A e \in Devices \ {d} : op'[e] = op[e]
    BY DEF LostRace, KeysPre, TypeInv, OpOK
<1>2. q \in Op
    BY DEF KeysPre, TypeInv, OpOK
<1>3. o.pc # "posting"
    <2> HIDE DEF q
    <2> QED
        BY <1>2 DEF Op
<1>4. OpsShrink(d)
    BY <1>1, <1>3 DEF OpsShrink, Posting
<1>5. OnlyOf(d) /\ MarkersShrink(d) /\ Posting(d, s)
    BY <1>1, OutcomeOnly DEF Outcome, LostRace
<1>6. CASE StillOwnWrite(d, s)
    <2>1. state'[d] = op[d][s].prev
        BY <1>6 DEF LostRace, KeysPre, TypeInv, StateOK
    <2>2. op[d][s].kind \in MarkerKinds => marker'[d][op[d][s].kind] = NoMarker
        BY <1>6 DEF LostRace, KeysPre, TypeInv, MarkerOK
    <2>3. \A k \in MarkerKinds, n \in Nat :
              Marked(d, k, n)' => Marked(d, k, n) /\ k # op[d][s].kind
        BY <1>5, <2>2, MarkedShrinks DEF Marked
    <2> QED
        BY <1>4, <1>5, <2>1, <2>3, RollBackOp
<1>7. CASE ~StillOwnWrite(d, s)
    BY <1>4, <1>5, <1>7, SameStep DEF LostRace
<1> QED
    BY <1>6, <1>7

LEMMA KeysReconcile ==
    ASSUME KeysPre, [Next]_vars, NEW d \in Devices, NEW s \in Slots,
           ReconcileAfterPostCommitFailure(d, s)
    PROVE  KeysInv'
<1>1. UNCHANGED <<commits, log>> /\ Finish(d, s) /\ UNCHANGED messages
    BY DEF ReconcileAfterPostCommitFailure
<1>2. /\ op'[d][s] = NoOp /\ \A z \in Slots \ {s} : op'[d][z] = op[d][z]
      /\ \A e \in Devices \ {d} : op'[e] = op[e]
    BY <1>1, OpsFollowFinish DEF KeysPre, CalmInv
<1>3. OnlyOf(d) /\ MarkersShrink(d) /\ OpsShrink(d) /\ Posting(d, s)
    BY <1>1, <1>2, OutcomeOnly, FinishShrinks DEF Outcome
<1>4. CASE StillOwnWrite(d, s)
    <2>1. state'[d] = op[d][s].prev /\ \A k \in MarkerKinds : marker'[d][k] = NoMarker
        BY <1>4 DEF ReconcileAfterPostCommitFailure, KeysPre, TypeInv, StateOK, MarkerOK
    <2>2. \A k \in MarkerKinds, n \in Nat : ~Marked(d, k, n)'
        BY <2>1 DEF Marked
    <2> QED
        BY <1>3, <2>1, <2>2, RollBackOp
<1>5. CASE ~StillOwnWrite(d, s)
    BY <1>3, <1>5, SameStep DEF ReconcileAfterPostCommitFailure
<1> QED
    BY <1>4, <1>5

LEMMA KeysResolve ==
    ASSUME KeysPre, [Next]_vars, NEW d \in Devices, NEW k \in MarkerKinds, ResolveMarker(d, k)
    PROVE  KeysInv'
<1>1. /\ UNCHANGED <<commits, log, welcomes, op, messages>>
      /\ marker[d][k] # NoMarker /\ marker'[d][k] = NoMarker
      /\ \A j \in MarkerKinds \ {k} : marker'[d][j] = marker[d][j]
      /\ \A e \in Devices \ {d} : state'[e] = state[e] /\ marker'[e] = marker[e]
    BY DEF ResolveMarker, KeysPre, TypeInv, StateOK, MarkerOK
<1>2. OnlyOf(d) /\ MarkersShrink(d) /\ OpsShrink(d)
    BY <1>1 DEF OnlyOf, MarkersShrink, OpsShrink, Posting
<1>3. CASE HasGroup(d) /\ Live(d, k)
    <2>1. PICK p \in Blob : p = marker[d][k].prev
        BY DEF KeysPre, TypeInv, MarkerOK, Marker
    <2>2. state'[d] = p
        BY <1>3, <2>1 DEF ResolveMarker, KeysPre, TypeInv, StateOK
    <2>3. PICK h \in LogHeads : h = p.head
        BY <1>1, <2>1 DEF KeysPre, CalmInv, MarkersMatch
    <2>4. h \in 0 .. Len(commits) /\ EpochAfter(h)' = EpochAfter(h) /\ EpochAfter(h) \in Nat
        BY HeadsBuilt, EpochStays, EpochFacts DEF KeysPre
    <2>5. PICK o \in Nat : Marked(d, k, o) /\ At(d, o)
        BY <1>3, LiveIsAt DEF KeysPre
    <2>6. o = EpochAfter(h) + 1
        BY <1>1, <2>1, <2>3, <2>5 DEF Marked, KeysPre, CalmInv, MarkersMatch, Epoch
    <2>7. HasGroup(d)'
        <3>1. h # -1
            BY <2>4 DEF KeysPre, TypeInv, CommitsOK
        <3> QED
            BY <2>2, <2>3, <3>1 DEF HasGroup
    <2>8. MarkersBehind(d)
        <3> SUFFICES ASSUME NEW j \in MarkerKinds, NEW n \in Nat, Marked(d, j, n)'
                     PROVE  Marked(d, j, n) /\ \A e \in Nat : At(d, e)' => n < e
            BY <2>7 DEF MarkersBehind
        <3>1. j # k /\ Marked(d, j, n)
            BY <1>1 DEF Marked
        <3>2. n < o - 1
            BY <2>5, <3>1 DEF KeysPre, KeysInv, MarkersAge, Ages
        <3>3. \A e \in Nat : At(d, e)' => e = EpochAfter(h)
            BY <2>2, <2>3, <2>4 DEF At, EpochAfter
        <3> QED
            BY <2>4, <2>6, <3>1, <3>2, <3>3
    <2>9. Base(d, p)
        BY <1>3, <2>1 DEF Base, Back
    <2> QED
        BY <1>2, <2>2, <2>8, <2>9, RollBack
<1>4. CASE ~(HasGroup(d) /\ Live(d, k))
    BY <1>2, <1>4, SameStep DEF ResolveMarker
<1> QED
    BY <1>3, <1>4

LEMMA KeysRetry ==
    ASSUME KeysPre, [Next]_vars, NEW d \in Devices, NEW s \in Slots, RetryPost(d, s)
    PROVE  KeysInv'
<1>1. UNCHANGED <<commits, log, welcomes, state, marker, messages>> /\ Posting(d, s)
    BY DEF RetryPost, Posting
<1> DEFINE q == op[d][s]
           o == [q EXCEPT !.reply = 0, !.retried = TRUE]
<1>2. /\ q \in Op /\ op'[d][s] = o
      /\ \A z \in Slots \ {s} : op'[d][z] = op[d][z]
      /\ \A e \in Devices \ {d} : op'[e] = op[e]
    BY DEF RetryPost, KeysPre, TypeInv, OpOK
<1>3. o.pc = q.pc /\ o.kind = q.kind /\ o.prev = q.prev
    <2> HIDE DEF q
    <2> QED
        BY <1>2 DEF Op
<1> HIDE DEF o
<1>4. OpsShrink(d)
    BY <1>1, <1>2, <1>3 DEF OpsShrink, Posting
<1>5. OnlyOf(d) /\ MarkersShrink(d) /\ state'[d] = state[d]
    BY <1>1, <1>2 DEF OnlyOf, MarkersShrink
<1> QED
    BY <1>4, <1>5, SameStep

LEMMA KeysCrash ==
    ASSUME KeysPre, [Next]_vars, NEW d \in Devices, Crash(d)
    PROVE  KeysInv'
<1>1. /\ UNCHANGED <<commits, log, welcomes, state, marker, messages>>
      /\ \A s \in Slots : op'[d][s] = NoOp
      /\ \A e \in Devices \ {d} : op'[e] = op[e]
    BY DEF Crash, KeysPre, TypeInv, OpOK
<1>2. OpsShrink(d)
    BY <1>1, NoneFacts DEF OpsShrink, Posting
<1>3. OnlyOf(d) /\ MarkersShrink(d) /\ state'[d] = state[d]
    BY <1>1 DEF OnlyOf, MarkersShrink
<1> QED
    BY <1>2, <1>3, SameStep

LEMMA KeysIgnore ==
    ASSUME KeysPre, [Next]_vars, NEW d \in Devices, NEW w \in welcomes, IgnoreWelcome(d, w)
    PROVE  KeysInv'
<1>1. UNCHANGED <<commits, log, welcomes, state, marker, op, messages>>
    BY DEF IgnoreWelcome
<1>2. OnlyOf(d) /\ OpsShrink(d) /\ MarkersShrink(d) /\ state'[d] = state[d]
    BY <1>1 DEF OnlyOf, OpsShrink, MarkersShrink, Posting
<1> QED
    BY <1>2, SameStep

LEMMA KeysSame ==
    ASSUME KeysPre, [Next]_vars,
           UNCHANGED <<commits, log, welcomes, state, marker, op, messages>>
    PROVE  KeysInv'
<1>1. ASSUME NEW d \in Devices
      PROVE  Ages(d)' /\ \A b : (On(d, b)' => On(d, b)) /\ (Back(d, b)' => Back(d, b))
    BY OthersKeep
<1>2. MarkersAge'
    BY <1>1 DEF MarkersAge
<1>3. \A d \in Devices, b \in Blob : Back(d, b)' => Base(d, b)
    BY <1>1 DEF Base
<1> QED
    BY <1>1, <1>2, <1>3, NoNewBase

(* Without a group there is nothing to be rolled back to by a marker. *)
LEMMA ClearedStep ==
    ASSUME KeysPre, [Next]_vars, NEW d \in Devices, OnlyOf(d), OpsShrink(d), Cleared(d)
    PROVE  KeysInv'
<1>1. state'[d] = NoGroup /\ \A k \in MarkerKinds : marker'[d][k] = NoMarker
    BY DEF Cleared, KeysPre, TypeInv, StateOK, MarkerOK
<1>2. ~HasGroup(d)'
    BY <1>1, NoneFacts DEF HasGroup
<1>3. Ages(d)'
    BY <1>1, AgesUnmarked DEF Marked
<1>4. \A b \in Blob : ~On(d, b)'
    BY <1>2 DEF On
<1>5. \A b \in Blob : Back(d, b)' => Base(d, b)
    BY <1>2 DEF Back, Base, OpsShrink
<1> QED
    BY <1>3, <1>4, <1>5, StepOfOne

LEMMA KeysConflict ==
    ASSUME KeysPre, [Next]_vars, NEW d \in Devices, NEW s \in Slots, Conflict(d, s)
    PROVE  KeysInv'
<1>1. UNCHANGED <<commits, log>> /\ Finish(d, s) /\ Cleared(d) /\ UNCHANGED messages
    BY DEF Conflict
<1>2. /\ op'[d][s] = NoOp /\ \A z \in Slots \ {s} : op'[d][z] = op[d][z]
      /\ \A e \in Devices \ {d} : op'[e] = op[e]
    BY <1>1, OpsFollowFinish DEF KeysPre, CalmInv
<1>3. OnlyOf(d) /\ OpsShrink(d)
    BY <1>1, <1>2, OutcomeOnly, FinishShrinks DEF Outcome
<1> QED
    BY <1>1, <1>3, ClearedStep

LEMMA KeysClear ==
    ASSUME KeysPre, [Next]_vars, NEW d \in Devices, ClearConversationGroup(d)
    PROVE  KeysInv'
<1>1. /\ UNCHANGED <<commits, log, welcomes, op, messages>> /\ Cleared(d)
      /\ \A e \in Devices \ {d} : state'[e] = state[e] /\ marker'[e] = marker[e]
    BY DEF ClearConversationGroup, Cleared, KeysPre, TypeInv, StateOK, MarkerOK
<1>2. OnlyOf(d) /\ OpsShrink(d)
    BY <1>1 DEF OnlyOf, OpsShrink, Posting
<1> QED
    BY <1>1, <1>2, ClearedStep

-----------------------------------------------------------------------------
(* Following the log.                                                      *)

LEMMA StoredFacts ==
    ASSUME TypeInv, NEW x \in Stored
    PROVE  /\ x \in Built /\ x \in LogHeads /\ x # 0
           /\ commits[x].epoch \in Nat /\ EpochAfter(x) = commits[x].epoch + 1
<1>1. x \in Built /\ x \in LogHeads /\ x # 0
    BY StoredBuilt DEF LogHeads, Built
<1>2. commits[x] \in Commit
    BY <1>1 DEF TypeInv, CommitsOK, Built
<1> QED
    BY <1>1, <1>2 DEF Commit, EpochAfter

(* Advancing over a commit of the log that does not take the leaf away     *)
(* leads past all the device has sent. *)
LEMMA FollowIsGood ==
    ASSUME KeysPre, NEW d \in Devices, NEW b \in Blob, On(d, b), NEW c \in Stored, CanApply(d, c)
    PROVE  Good(d, Advanced(b, c))
<1>1. /\ c \in Built /\ c \in LogHeads /\ c \in CommitIds /\ c # 0
      /\ commits[c] \in Commit /\ EpochAfter(c) = commits[c].epoch + 1
      /\ commits[c].epoch = EpochAfter(b.head) /\ commits[c].parent = b.head
      /\ ~(commits[c].target = d /\ commits[c].kind # "provision")
    BY StoredBuilt, BuiltFacts DEF KeysPre, LogHeads, On, CanApply, Epoch, EpochAfter, Built,
       TypeInv, CommitsOK
<1>2. Advanced(b, c).head = c
    BY <1>1, BlobFacts
<1>3. b.head \in LogHeads
    BY <1>1 DEF KeysPre, CalmInv, ParentsInLog
<1>4. Good(d, b)
    BY <1>3 DEF KeysPre, KeysInv, BasesGood, Base
<1>5. MembersOf(c)
    BY <1>1 DEF KeysPre, KeysInv, MembersMatch
<1>6. d \in Members(c)
    BY <1>1, <1>4, <1>5 DEF MembersOf, Good, Members, Commit
<1>7. EpochAfter(b.head) \in Nat /\ EpochAfter(c) = EpochAfter(b.head) + 1
    BY <1>1, <1>3, HeadsBuilt, EpochFacts DEF KeysPre
(* What stopped d on its way to b.head stops it on its way to c. *)
<1>8. \A a \in LogHeads : Blocked(d, a, b.head) => Blocked(d, a, c)
    <2> SUFFICES ASSUME NEW a \in LogHeads, NEW x \in Stored, Stop(d, x, a, b.head)
                 PROVE  Stop(d, x, a, c)
        BY DEF Blocked
    <2>1. commits[x].epoch \in Nat
        BY StoredFacts DEF KeysPre
    <2> QED
        BY <1>7, <2>1 DEF Stop
(* d is no target of c unless c provisions it, and then it was no member. *)
<1>9. commits[c].target # d
    BY <1>1, <1>4, <1>5 DEF MembersOf, Good, Commit
<1>10. \A x \in Stored : EpochAfter(x) <= EpochAfter(c) => x = c \/ EpochAfter(x) <= EpochAfter(b.head)
    <2> TAKE x \in Stored
    <2>1. x \in LogHeads /\ EpochAfter(x) \in Nat
        BY HeadsBuilt, EpochFacts DEF KeysPre, LogHeads
    <2>2. EpochAfter(x) = EpochAfter(c) => x = c
        BY <1>1, <2>1, SameEpochSameHead DEF KeysPre, CalmInv
    <2> QED
        BY <1>7, <2>1, <2>2
<1>11. Spent(d, c)
    <2> SUFFICES ASSUME NEW x \in Stored, Invites(x, d), EpochAfter(x) <= EpochAfter(c)
                 PROVE  x \in digests[d] \/ Blocked(d, x, c)
        BY DEF Spent
    <2>1. x # c
        BY <1>9 DEF Invites
    <2>2. x \in digests[d] \/ Blocked(d, x, b.head)
        BY <1>4, <1>10, <2>1 DEF Good, Spent
    <2> QED
        BY <1>8, <2>2 DEF LogHeads
<1>12. ASSUME NEW m \in Msg, WasSent(m), m.by = d
       PROVE  Past(d, Advanced(b, c), m)
    <2>1. m.head \in LogHeads
        BY <1>12 DEF KeysPre, KeysInv, MessagesSpent
    <2>2. EpochAfter(m.head) \in Nat
        BY <2>1, HeadsBuilt, EpochFacts DEF KeysPre
    <2>3. Past(d, b, m)
        BY <1>4, <1>12 DEF Good
    <2>4. CASE EpochAfter(b.head) >= EpochAfter(m.head)
        BY <1>2, <1>7, <2>2, <2>4 DEF Past
    <2>5. CASE EpochAfter(b.head) < EpochAfter(m.head)
        <3>1. PICK x \in Stored : Stop(d, x, b.head, m.head)
            BY <1>7, <2>2, <2>3, <2>5 DEF Past, Blocked
        <3>2. commits[x].epoch \in Nat /\ EpochAfter(x) = commits[x].epoch + 1
            BY StoredFacts DEF KeysPre
        <3>3. commits[x].epoch # EpochAfter(b.head)
            <4> SUFFICES ASSUME commits[x].epoch = EpochAfter(b.head) PROVE FALSE
                OBVIOUS
            <4>1. x = c
                BY <1>1, <1>7, <3>2, SameEpochSameHead DEF KeysPre, CalmInv, LogHeads
            <4> QED
                BY <1>9, <3>1, <4>1 DEF Stop
        <3>4. EpochAfter(c) < EpochAfter(m.head) /\ Stop(d, x, c, m.head)
            BY <1>7, <2>2, <3>1, <3>2, <3>3 DEF Stop
        <3> QED
            BY <1>2, <3>4 DEF Past, Blocked
    <2> QED
        BY <1>7, <2>2, <2>4, <2>5
<1> QED
    BY <1>1, <1>2, <1>6, <1>11, <1>12 DEF Good

LEMMA AdvanceStep ==
    ASSUME KeysPre, [Next]_vars, NEW d \in Devices, OnlyOf(d), OpsShrink(d), UNCHANGED marker,
           NEW c \in Stored, CanApply(d, c), state'[d] = Advanced(state[d], c)
    PROVE  KeysInv'
<1>1. PICK b \in Blob : b = state[d]
    BY DEF KeysPre, TypeInv, StateOK
<1>2. On(d, b) /\ c \in CommitIds /\ c \in LogHeads /\ c \in 0 .. Len(commits) /\ c # -1
    BY <1>1, StoredFacts, BuiltFacts, HeadsBuilt DEF CanApply, On, KeysPre, CommitIds
<1>3. PICK g \in Blob : g = Advanced(b, c) /\ g.head = c
    BY <1>2, BlobFacts
<1>4. Good(d, g)
    BY <1>2, <1>3, FollowIsGood
<1>5. Good(d, g)'
    <2>1. \A m : WasSent(m)' => WasSent(m)
        BY DEF OnlyOf, WasSent
    <2> QED
        BY <1>4, <2>1, GoodStays
<1>6. state'[d] = g /\ HasGroup(d)'
    BY <1>1, <1>2, <1>3 DEF HasGroup
<1>7. PICK e0 \in Nat : At(d, e0) /\ EpochAfter(c)' = e0 + 1
    <2>1. EpochAfter(c)' = EpochAfter(c) /\ EpochAfter(c) = commits[c].epoch + 1
        BY <1>2, EpochStays, StoredFacts DEF KeysPre
    <2>2. commits[c].epoch \in Nat /\ At(d, commits[c].epoch)
        BY StoredFacts DEF KeysPre, At, CanApply, Epoch
    <2> QED
        BY <2>1, <2>2
<1>8. MarkersBehind(d)
    <2> SUFFICES ASSUME NEW k \in MarkerKinds, NEW n \in Nat, Marked(d, k, n)'
                 PROVE  Marked(d, k, n) /\ \A e \in Nat : At(d, e)' => n < e
        BY <1>6 DEF MarkersBehind
    <2>1. Marked(d, k, n)
        BY DEF Marked
    <2>2. n <= e0
        BY <1>7, <2>1 DEF KeysPre, KeysInv, MarkersAge, Ages
    <2>3. \A e \in Nat : At(d, e)' => e = e0 + 1
        BY <1>3, <1>6, <1>7 DEF At, EpochAfter
    <2> QED
        BY <2>1, <2>2, <2>3
<1>9. Ages(d)'
    BY <1>8, AgesBehind DEF MarkersBehind
<1>10. UNCHANGED commits
    BY DEF OnlyOf
<1>11. \A x \in Blob : Back(d, x)' => Base(d, x)
    BY <1>8, <1>10, BackBehind DEF Back, Base
<1>12. \A x \in Blob : On(d, x)' => Good(d, x)'
    BY <1>5, <1>6 DEF On
<1> QED
    BY <1>9, <1>11, <1>12, StepOfOne

LEMMA KeysFollow ==
    ASSUME KeysPre, [Next]_vars, NEW d \in Devices, Follow(d)
    PROVE  KeysInv'
<1>1. PICK c \in Stored : ApplyCommit(d, c)
    BY DEF Follow, ApplyCommit
<1>2. /\ UNCHANGED <<commits, log, welcomes, marker, op, messages>> /\ CanApply(d, c)
      /\ state'[d] = Advanced(state[d], c)
      /\ \A e \in Devices \ {d} : state'[e] = state[e]
    BY <1>1 DEF ApplyCommit, KeysPre, TypeInv, StateOK
<1>3. OnlyOf(d) /\ OpsShrink(d)
    BY <1>2 DEF OnlyOf, OpsShrink, Posting
<1> QED
    BY <1>2, <1>3, AdvanceStep

LEMMA KeysResync ==
    ASSUME KeysPre, [Next]_vars, NEW d \in Devices, NEW s \in Slots, Resync(d, s)
    PROVE  KeysInv'
<1>1. UNCHANGED <<commits, log, welcomes, marker, messages>> /\ Finish(d, s) /\ op[d][s].pc = "lost"
    BY DEF Resync
<1>2. /\ op'[d][s] = NoOp /\ \A z \in Slots \ {s} : op'[d][z] = op[d][z]
      /\ \A e \in Devices \ {d} : op'[e] = op[e]
    BY <1>1, OpsFollowFinish DEF KeysPre, CalmInv
<1>3. \A e \in Devices \ {d} : state'[e] = state[e]
    BY DEF Resync, KeysPre, TypeInv, StateOK
<1>4. OnlyOf(d) /\ OpsShrink(d)
    BY <1>1, <1>2, <1>3, FinishShrinks DEF OnlyOf
<1>5. PICK w \in Stored : w = op[d][s].reply
    <2>1. op[d][s].reply \in Built
        BY <1>1 DEF KeysPre, TypeInv, OpOK, RefsOK
    <2> QED
        BY <1>1, <2>1 DEF KeysPre, CalmInv, OpsMatch, Built
<1>6. CASE CanApply(d, w)
    <2>1. state'[d] = Advanced(state[d], w)
        BY <1>5, <1>6 DEF Resync, KeysPre, TypeInv, StateOK
    <2> QED
        BY <1>1, <1>4, <1>6, <2>1, AdvanceStep
<1>7. CASE ~CanApply(d, w)
    <2>1. state'[d] = state[d] /\ MarkersShrink(d)
        BY <1>1, <1>5, <1>7 DEF Resync, MarkersShrink
    <2> QED
        BY <1>4, <2>1, SameStep
<1> QED
    BY <1>6, <1>7

-----------------------------------------------------------------------------
(* Welcomes.                                                               *)

LEMMA InvitedIsMember ==
    ASSUME KeysPre, NEW d \in Devices, NEW x \in Stored, Invites(x, d)
    PROVE  d \in Members(x)
<1>1. x \in Built /\ x # 0 /\ commits[x].kind \in AllKinds
    <2>1. x \in Built /\ x # 0
        BY StoredFacts DEF KeysPre
    <2>2. commits[x] \in Commit
        BY <2>1 DEF KeysPre, TypeInv, CommitsOK, Built
    <2> QED
        BY <2>1, <2>2 DEF Commit
<1>2. MembersOf(x)
    BY <1>1 DEF KeysPre, KeysInv, MembersMatch
<1> QED
    BY <1>1, <1>2 DEF Invites, MembersOf, Members

(* A later invitation blocks the way from an earlier one: it replaces the  *)
(* leaf itself, or the leaf was removed before it.                         *)
LEMMA LaterInviteBlocks ==
    ASSUME KeysPre, NEW d \in Devices, NEW c \in Stored, Invites(c, d),
           NEW x \in Stored, Invites(x, d), EpochAfter(x) <= EpochAfter(c), x # c
    PROVE  Blocked(d, x, c)
<1>1. /\ c \in Built /\ c \in LogHeads /\ c # 0 /\ x \in LogHeads
      /\ commits[c].epoch \in Nat /\ EpochAfter(c) = commits[c].epoch + 1
      /\ EpochAfter(x) \in Nat
    BY StoredFacts DEF KeysPre
<1>2. EpochAfter(x) <= commits[c].epoch
    BY <1>1, SameEpochSameHead DEF KeysPre, CalmInv
<1>3. CASE commits[c].kind # "provision"
    BY <1>1, <1>2, <1>3 DEF Invites, Stop, Blocked
<1>4. CASE commits[c].kind = "provision"
    <2>1. PICK p \in LogHeads : p = commits[c].parent /\ EpochAfter(p) = commits[c].epoch
        BY <1>1 DEF KeysPre, CalmInv, ParentsInLog, EpochsMatch
    <2>2. d \notin Members(p)
        BY <1>1, <1>4, <2>1 DEF Invites, KeysPre, KeysInv, MembersMatch, MembersOf
    <2>3. Blocked(d, x, p)
        BY <1>1, <1>2, <2>1, <2>2, InvitedIsMember DEF KeysPre, KeysInv, RemovalsLogged
    <2>4. PICK y \in Stored : Stop(d, y, x, p)
        BY <2>3 DEF Blocked
    <2>5. Stop(d, y, x, c)
        <3>1. commits[y].epoch \in Nat
            BY StoredFacts DEF KeysPre
        <3> QED
            BY <1>1, <2>1, <2>4, <3>1 DEF Stop
    <2> QED
        BY <2>5 DEF Blocked
<1> QED
    BY <1>3, <1>4

(* A Welcome not processed yet leads past all that was sent, or to where   *)
(* the device cannot follow to it.                                         *)
LEMMA FreshIsPast ==
    ASSUME KeysPre, NEW d \in Devices, NEW c \in Stored, Invites(c, d), c \notin digests[d],
           NEW b \in Blob, b.head = c, NEW m \in Msg, WasSent(m), m.by = d
    PROVE  Past(d, b, m)
<1>1. m.head \in LogHeads /\ Spent(d, m.head)
    BY DEF KeysPre, KeysInv, MessagesSpent
<1>2. EpochAfter(m.head) \in Nat /\ EpochAfter(c) \in Nat
    BY <1>1, HeadsBuilt, EpochFacts, StoredFacts DEF KeysPre
<1>3. CASE EpochAfter(c) > EpochAfter(m.head)
    BY <1>3 DEF Past
<1>4. CASE EpochAfter(c) <= EpochAfter(m.head)
    <2>1. PICK x \in Stored : Stop(d, x, c, m.head)
        BY <1>1, <1>4 DEF Spent, Blocked
    <2>2. EpochAfter(c) < EpochAfter(m.head)
        BY <1>2, <2>1, StoredFacts DEF Stop, KeysPre
    <2> QED
        BY <2>1, <2>2 DEF Past, Blocked
<1> QED
    BY <1>2, <1>3, <1>4

LEMMA KeysJoin ==
    ASSUME KeysPre, [Next]_vars, NEW d \in Devices, NEW w \in welcomes, JoinViaWelcome(d, w)
    PROVE  KeysInv'
<1>1. /\ UNCHANGED <<commits, log, welcomes, marker, op, messages>>
      /\ Quiet(d) /\ w.to = d /\ w.commit \notin digests[d] /\ ~Obsolete(d, w)
      /\ state'[d] = Joined(w.commit) /\ w.commit \in digests'[d]
      /\ \A e \in Devices \ {d} : state'[e] = state[e]
    BY DEF JoinViaWelcome, FreshWelcome, MayDisturb, KeysPre, Calm, TypeInv, StateOK, DigestsOK
<1>2. PICK c \in Stored : c = w.commit /\ Invites(c, d)
    BY <1>1 DEF KeysPre, OwnInv, WelcomesStored, KeysInv, WelcomesMatch
<1>3. /\ c \in Built /\ c \in LogHeads /\ c \in CommitIds /\ c \in 0 .. Len(commits) /\ c # -1
      /\ EpochAfter(c) \in Nat
    BY StoredFacts, BuiltFacts, HeadsBuilt DEF KeysPre, CommitIds
<1>4. PICK g \in Blob : g = Joined(c) /\ g.head = c
    BY <1>3, BlobFacts, NoneFacts
<1>5. OnlyOf(d) /\ OpsShrink(d) /\ UNCHANGED commits /\ LogHeads' = LogHeads
    BY <1>1 DEF OnlyOf, OpsShrink, Posting, LogHeads, Stored
<1>6. Spent(d, c)'
    <2> SUFFICES ASSUME NEW x \in Stored, Invites(x, d), EpochAfter(x) <= EpochAfter(c)
                 PROVE  x \in digests'[d] \/ Blocked(d, x, c)'
        BY <1>1 DEF Spent, Stored, Invites, EpochAfter
    <2>1. CASE x = c
        BY <1>1, <1>2, <2>1
    <2>2. CASE x # c
        BY <1>2, <1>3, <2>2, LaterInviteBlocks, BlockedStays DEF LogHeads
    <2> QED
        BY <2>1, <2>2
<1>7. Good(d, g)'
    <2>1. c \in LogHeads' /\ d \in Members(c)'
        BY <1>2, <1>3, <1>5, InvitedIsMember, EpochStays DEF KeysPre
    <2>2. ASSUME NEW m \in Msg, WasSent(m)', m.by = d PROVE Past(d, g, m)'
        <3>1. WasSent(m)
            BY <1>1, <2>2 DEF WasSent
        <3>2. m.head \in LogHeads
            BY <3>1 DEF KeysPre, KeysInv, MessagesSpent
        <3>3. Past(d, g, m)
            BY <1>1, <1>2, <1>4, <2>2, <3>1, FreshIsPast
        <3> QED
            BY <1>3, <1>4, <3>2, <3>3, PastStays
    <2> QED
        BY <1>4, <1>6, <2>1, <2>2 DEF Good
<1>8. state'[d] = g /\ HasGroup(d)'
    BY <1>1, <1>2, <1>3, <1>4 DEF HasGroup
<1>9. MarkersBehind(d)
    <2> SUFFICES ASSUME NEW k \in MarkerKinds, NEW n \in Nat, Marked(d, k, n)'
                 PROVE  Marked(d, k, n) /\ \A e \in Nat : At(d, e)' => n < e
        BY <1>8 DEF MarkersBehind
    <2>1. Marked(d, k, n) /\ HasGroup(d)
        BY <1>1 DEF Marked, KeysPre, KeysInv, MarkersAge, Ages
    <2>2. EpochAfter(state[d].head) \in Nat
        BY <2>1, EpochFacts DEF HasGroup, KeysPre, TypeInv, StateOK, BuiltOrNone
    <2>3. n <= EpochAfter(state[d].head)
        BY <2>1, <2>2 DEF At, KeysPre, KeysInv, MarkersAge, Ages
    <2>4. n # EpochAfter(state[d].head)
        BY <1>1, <2>1 DEF Quiet, Live, Marked, Epoch
    <2>5. EpochAfter(state[d].head) <= EpochAfter(c)
        BY <1>1, <1>2, <1>3, <2>1, <2>2 DEF Obsolete, Epoch
    <2>6. \A e \in Nat : At(d, e)' => e = EpochAfter(c)
        BY <1>3, <1>4, <1>5, <1>8 DEF At, EpochAfter
    <2> QED
        BY <1>3, <2>1, <2>2, <2>3, <2>4, <2>5, <2>6
<1>10. Ages(d)'
    BY <1>5, <1>9, AgesBehind DEF MarkersBehind
<1>11. \A x \in Blob : Back(d, x)' => Base(d, x)
    BY <1>5, <1>9, BackBehind DEF Back, Base
<1>12. \A x \in Blob : On(d, x)' => Good(d, x)'
    BY <1>7, <1>8 DEF On
<1> QED
    BY <1>5, <1>10, <1>11, <1>12, StepOfOne

-----------------------------------------------------------------------------
(* Traffic.                                                                *)

(* What is good about a state is its head, and how far it has sent. *)
LEMMA GoodLike ==
    ASSUME NEW d, NEW b, NEW g, Good(d, b), g.head = b.head, b.gen \in Nat, g.gen \in Nat,
           g.gen >= b.gen
    PROVE  Good(d, g)
BY DEF Good, Past, Msg

LEMMA KeysDecrypt ==
    ASSUME KeysPre, [Next]_vars, NEW d \in Devices, NEW i, DecryptMessage(d, i)
    PROVE  KeysInv'
<1>1. PICK b \in Blob : b = state[d]
    BY DEF KeysPre, TypeInv, StateOK
<1> DEFINE g0 == [b EXCEPT !.seen = @ \cup {i}]
<1>2. /\ UNCHANGED <<commits, log, welcomes, marker, op, messages>>
      /\ state'[d] = g0 /\ Quiet(d) /\ HasGroup(d)
      /\ \A e \in Devices \ {d} : state'[e] = state[e]
    BY <1>1 DEF DecryptMessage, MayDisturb, KeysPre, Calm, TypeInv, StateOK
<1>3. g0.head = b.head /\ g0.gen = b.gen /\ b.gen \in Nat
    BY DEF Blob
<1> HIDE DEF g0
<1>4. Base(d, b)
    BY <1>1, <1>2, QuietIsNoPhantom DEF Base, On, Phantom, KeysPre, CalmInv
<1>5. Good(d, b)
    BY <1>4 DEF KeysPre, KeysInv, BasesGood
<1>6. ASSUME NEW x \in Blob, On(d, x)' PROVE Good(d, x)'
    <2>1. x = g0
        BY <1>2, <1>6 DEF On
    <2>2. Good(d, x)
        BY <1>3, <1>5, <2>1, GoodLike
    <2>3. \A m : WasSent(m)' => WasSent(m)
        BY <1>2 DEF WasSent
    <2> QED
        BY <2>2, <2>3, GoodStays
<1>7. OnlyOf(d) /\ OpsShrink(d) /\ MarkersShrink(d) /\ state'[d].head = state[d].head
    BY <1>1, <1>2, <1>3 DEF OnlyOf, OpsShrink, MarkersShrink, Posting
<1>8. Ages(d)'
    BY <1>7, MarkedShrinks, AgesSame
<1>9. \A x \in Blob : Back(d, x)' => Base(d, x)
    BY <1>7, BackStays DEF Base
<1> QED
    BY <1>6, <1>7, <1>8, <1>9, StepOfOne

LEMMA KeysEncrypt ==
    ASSUME KeysPre, [Next]_vars, NEW d \in Devices, EncryptMessage(d)
    PROVE  KeysInv'
<1>1. PICK b \in Blob : b = state[d]
    BY DEF KeysPre, TypeInv, StateOK
<1> DEFINE g0 == [b EXCEPT !.gen = @ + 1]
           m0 == [by |-> d, head |-> b.head, gen |-> b.gen]
<1>2. /\ UNCHANGED <<commits, log, welcomes, marker, op>>
      /\ messages' = Append(messages, m0)
      /\ state'[d] = g0 /\ Quiet(d) /\ HasGroup(d)
      /\ \A e \in Devices \ {d} : state'[e] = state[e]
    BY <1>1 DEF EncryptMessage, MayDisturb, KeysPre, Calm, TypeInv, StateOK
<1>3. g0.head = b.head /\ g0.gen = b.gen + 1 /\ b.gen \in Nat
    BY DEF Blob
<1>4. b.head \in LogHeads /\ b.head \in Heads
    <2>1. b.head \in LogHeads
        BY <1>1, <1>2, QuietIsNoPhantom DEF Phantom, KeysPre, CalmInv
    <2> QED
        BY <2>1, HeadsBuilt, BuiltFacts DEF KeysPre, BuiltOrNone
<1>5. m0 \in Msg /\ m0.by = d /\ m0.head = b.head /\ m0.gen = b.gen
    BY <1>3, <1>4 DEF Msg
<1>6. \A m : WasSent(m)' => WasSent(m) \/ m = m0
    BY <1>2 DEF WasSent, KeysPre, TypeInv, MessagesOK
<1> HIDE DEF g0, m0
<1>7. Good(d, b)
    BY <1>1, <1>2, <1>4 DEF Base, On, KeysPre, KeysInv, BasesGood
<1>8. MessagesSpent'
    <2> SUFFICES ASSUME NEW m \in Msg, WasSent(m)'
                 PROVE  m.head \in LogHeads' /\ Spent(m.by, m.head)'
        BY DEF MessagesSpent
    <2>1. PICK e \in Devices, h \in LogHeads : e = m.by /\ h = m.head /\ Spent(e, h)
        <3>1. CASE WasSent(m)
            BY <3>1 DEF Msg, KeysPre, KeysInv, MessagesSpent
        <3>2. CASE m = m0
            BY <1>4, <1>5, <1>7, <3>2 DEF Good
        <3> QED
            BY <1>6, <3>1, <3>2
    <2>2. Spent(e, h)' /\ h \in LogHeads'
        BY <2>1, SpentStays, CommitsGrow DEF KeysPre
    <2> QED
        BY <2>1, <2>2
<1>9. Good(d, g0)'
    <2>1. PICK h \in LogHeads : h = b.head
        BY <1>4
    <2>2. h \in LogHeads' /\ d \in Members(h)' /\ Spent(d, h)'
        BY <1>7, <2>1, HeadsBuilt, EpochStays, SpentStays, CommitsGrow DEF Good, KeysPre
    <2>3. PICK g \in Blob : g = g0
        BY <1>2, NextInvs DEF TypeInv, StateOK
    <2>4. ASSUME NEW m \in Msg, WasSent(m)', m.by = d PROVE Past(d, g, m)'
        <3>1. m.gen \in Nat
            BY DEF Msg
        <3>2. Past(d, g, m) /\ m.head \in LogHeads
            <4>1. CASE WasSent(m)
                BY <1>3, <1>7, <2>3, <2>4, <3>1, <4>1 DEF Good, Past, KeysPre, KeysInv, MessagesSpent
            <4>2. CASE m = m0
                BY <1>3, <1>4, <1>5, <2>3, <4>2 DEF Past
            <4> QED
                BY <1>6, <2>4, <4>1, <4>2
        <3> QED
            BY <1>3, <1>4, <2>3, <3>2, PastStays
    <2> QED
        BY <1>3, <2>1, <2>2, <2>3, <2>4 DEF Good
<1>10. OpsShrink(d) /\ MarkersShrink(d) /\ state'[d].head = state[d].head /\ LogHeads' = LogHeads
    BY <1>1, <1>2, <1>3 DEF OpsShrink, MarkersShrink, Posting, LogHeads, Stored
<1>11. \A x \in Blob : ~Back(d, x)'
    BY <1>2, <1>10, BackStays DEF Back, Quiet, Posting
<1>12. ASSUME NEW e \in Devices \ {d}
       PROVE  Ages(e)' /\ \A x : (On(e, x)' => On(e, x)) /\ (Back(e, x)' => Back(e, x))
    BY <1>2, <1>12, OthersKeep
<1>13. Ages(d)'
    BY <1>10, MarkedShrinks, AgesSame
<1>14. ASSUME NEW e \in Devices, NEW x \in Blob, Base(e, x)' PROVE Good(e, x)'
    <2>1. CASE e = d
        BY <1>2, <1>9, <1>11, <1>14, <2>1 DEF Base, On
    <2>2. CASE e # d
        <3>1. Base(e, x)
            BY <1>10, <1>12, <1>14, <2>2 DEF Base
        <3>2. \A m \in Msg : WasSent(m)' /\ m.by = e => WasSent(m)
            BY <1>5, <1>6, <2>2
        <3> QED
            BY <3>1, <3>2, GoodStays DEF KeysPre, KeysInv, BasesGood
    <2> QED
        BY <2>1, <2>2
<1>15. ASSUME NEW e \in Devices, NEW x \in Blob, On(e, x)' PROVE e \in Members(x.head)'
    <2>1. CASE e = d
        BY <1>2, <1>9, <1>15, <2>1 DEF On, Good
    <2>2. CASE e # d
        BY <1>12, <1>15, <2>2, OldMember
    <2> QED
        BY <2>1, <2>2
<1>16. MembersMatch' /\ WelcomesMatch' /\ RemovalsLogged' /\ ParentsSpent'
    BY <1>2, MembersMatchStays, WelcomesMatchStays, RemovalsStay, ParentsSpentStays
<1>17. BasesGood' /\ HoldersMember' /\ MarkersAge'
    BY <1>12, <1>13, <1>14, <1>15 DEF BasesGood, HoldersMember, MarkersAge
<1> QED
    BY <1>8, <1>16, <1>17 DEF KeysInv

-----------------------------------------------------------------------------
(* The optimistic write.                                                   *)

LEMMA StartFacts ==
    ASSUME TypeInv, NEW d \in Devices, NEW s \in Slots, Start(d, s)
    PROVE  /\ HasGroup(d)
           /\ \E kind \in AllKinds, t \in Devices, members \in SUBSET Devices :
                 /\ WriteOptimistic(d, s, kind, t, members)
                 /\ kind # "provision" => t # d
                 /\ kind = "provision" => t \notin Members(state[d].head)
                                          /\ members = Members(state[d].head) \cup {t}
                 /\ kind = "reprovision" => t \in Members(state[d].head)
                                            /\ members = Members(state[d].head)
                 /\ kind = "removal" => members = Members(state[d].head) \ {t}
<1>1. HasGroup(d)
    BY TypeStart
<1>2. Members(state[d].head) \in SUBSET Devices
    <2>1. state[d].head = 0 \/ state[d].head \in Built
        BY <1>1 DEF HasGroup, TypeInv, StateOK, BuiltOrNone, Built
    <2>2. \A h \in Built : commits[h] \in Commit
        BY DEF TypeInv, CommitsOK, Built
    <2> QED
        BY <2>1, <2>2 DEF Members, Commit
<1>3. PICK t \in Devices : \/ ProvisionDevice(d, s, t)
                           \/ ReprovisionLostStateDevice(d, s, t)
                           \/ RemoveRevokedDevice(d, s, t)
    BY DEF Start
<1>4. CASE ProvisionDevice(d, s, t)
    BY <1>1, <1>2, <1>4 DEF ProvisionDevice
<1>5. CASE ReprovisionLostStateDevice(d, s, t)
    BY <1>1, <1>2, <1>5 DEF ReprovisionLostStateDevice
<1>6. CASE RemoveRevokedDevice(d, s, t)
    BY <1>1, <1>2, <1>6 DEF RemoveRevokedDevice
<1> QED
    BY <1>3, <1>4, <1>5, <1>6

LEMMA KeysWrite ==
    ASSUME KeysPre, [Next]_vars, NEW d \in Devices, NEW s \in Slots, Start(d, s)
    PROVE  KeysInv'
<1>1. PICK kind \in AllKinds, t \in Devices, members \in SUBSET Devices :
          /\ HasGroup(d) /\ WriteOptimistic(d, s, kind, t, members)
          /\ kind # "provision" => t # d
          /\ kind = "provision" => t \notin Members(state[d].head)
                                   /\ members = Members(state[d].head) \cup {t}
          /\ kind = "reprovision" => t \in Members(state[d].head)
                                     /\ members = Members(state[d].head)
          /\ kind = "removal" => members = Members(state[d].head) \ {t}
    BY StartFacts DEF KeysPre
<1>0. PICK c \in Nat, b \in Blob, n \in Nat, h \in LogHeads :
          c = Len(commits) + 1 /\ b = state[d] /\ n = Epoch(state[d]) /\ h = b.head
    <2>1. state[d] \in Blob /\ state[d].head \in 0 .. Len(commits) /\ Len(commits) \in Nat
        BY <1>1 DEF KeysPre, TypeInv, StateOK, CommitsOK, HasGroup, BuiltOrNone
    <2>2. Epoch(state[d]) \in Nat
        BY <2>1, EpochFacts DEF Epoch, KeysPre
    <2>3. state[d].head \in LogHeads
        BY <1>1, SettledStart DEF WriteOptimistic, MayStart, KeysPre, Calm
    <2> QED
        BY <2>1, <2>2, <2>3
<1> DEFINE new == Advanced(b, c)
           com == [by |-> d, epoch |-> n, parent |-> h,
                   kind |-> kind, target |-> t, members |-> members]
           mark == [newEpoch |-> n + 1, prev |-> b]
           o == [pc |-> "posting", kind |-> kind, commit |-> c,
                 prev |-> b, new |-> new, reply |-> 0, retried |-> FALSE]
<1>2. /\ commits' = Append(commits, com)
      /\ state' = [state EXCEPT ![d] = new]
      /\ op' = [op EXCEPT ![d][s] = o]
      /\ marker' = IF kind \in MarkerKinds THEN [marker EXCEPT ![d][kind] = mark] ELSE marker
      /\ UNCHANGED <<log, welcomes, messages>>
    BY <1>0, <1>1 DEF WriteOptimistic
<1>3. Quiet(d)
    BY <1>1 DEF WriteOptimistic, MayStart, Settled, KeysPre, Calm
<1>4. /\ new.head = c
      /\ com.by = d /\ com.epoch = n /\ com.parent = h /\ com.kind = kind
      /\ com.target = t /\ com.members = members
      /\ mark.prev = b /\ mark.newEpoch = n + 1
      /\ o.pc = "posting" /\ o.kind = kind /\ o.prev = b
    BY DEF Advanced
<1>5. /\ c \in Built' /\ c \notin Built /\ c # 0 /\ c # -1 /\ commits'[c] = com
      /\ \A i \in Built' : i = c \/ i \in Built
      /\ \A i \in Built : i \in Built' /\ commits'[i] = commits[i]
    BY <1>0, <1>2, BuiltFacts DEF KeysPre, TypeInv, CommitsOK, Built
<1>6. Stored' = Stored /\ LogHeads' = LogHeads
    BY <1>2 DEF Stored, LogHeads
<1>7. /\ op'[d][s] = o /\ \A z \in Slots \ {s} : op'[d][z].pc = "idle"
      /\ \A e \in Devices \ {d} : op'[e] = op[e]
    BY <1>2, <1>3 DEF KeysPre, TypeInv, OpOK, Quiet
<1>8. state'[d] = new /\ \A e \in Devices \ {d} : state'[e] = state[e]
    BY <1>2 DEF KeysPre, TypeInv, StateOK
<1>9. /\ \A e \in Devices \ {d} : marker'[e] = marker[e]
      /\ \A k \in MarkerKinds :
            /\ k = kind => marker'[d][k] = mark
            /\ k # kind => marker'[d][k] = marker[d][k]
    BY <1>2 DEF KeysPre, TypeInv, MarkerOK
<1>10. h \in 0 .. Len(commits) /\ EpochAfter(h) = n /\ EpochAfter(h)' = n
       /\ Members(h)' = Members(h) /\ d \in Members(h)
    <2>1. h \in 0 .. Len(commits) /\ EpochAfter(h) = n
        BY <1>0, HeadsBuilt DEF Epoch, KeysPre
    <2>2. d \in Members(h)
        BY <1>0, <1>1 DEF KeysPre, KeysInv, HoldersMember, On
    <2> QED
        BY <2>1, <2>2, EpochStays DEF KeysPre
<1>11. EpochAfter(c)' = n + 1 /\ Members(c)' = members
    BY <1>4, <1>5 DEF EpochAfter, Members
<1>12. Base(d, b)
    BY <1>0, <1>1 DEF Base, On
<1> HIDE DEF new, com, mark, o
<1>13. MembersMatch'
    <2> SUFFICES ASSUME NEW x \in Built' PROVE MembersOf(x)'
        BY DEF MembersMatch
    <2>1. CASE x = c
        <3>1. /\ d \in Members(h)' /\ d # t
              /\ kind = "provision" => t \notin Members(h)' /\ members = Members(h)' \cup {t}
              /\ kind = "reprovision" => t \in Members(h)' /\ members = Members(h)'
              /\ kind = "removal" => members = Members(h)' \ {t}
            BY <1>0, <1>1, <1>10
        <3> QED
            BY <1>4, <1>5, <2>1, <3>1 DEF MembersOf, Members
    <2>2. CASE x \in Built
        <3>1. PICK p \in 0 .. Len(commits) : p = commits[x].parent
            BY <2>2, HeadsBuilt DEF KeysPre, CalmInv, ParentsInLog
        <3>2. Members(p)' = Members(p) /\ commits'[x] = commits[x]
            BY <1>5, <2>2, EpochStays DEF KeysPre
        <3>3. MembersOf(x)
            BY <2>2 DEF KeysPre, KeysInv, MembersMatch
        <3> QED
            BY <3>1, <3>2, <3>3 DEF MembersOf, Members
    <2> QED
        BY <1>5, <2>1, <2>2
<1>14. WelcomesMatch'
    <2>1. \A w \in welcomes : w.commit \in Built
        BY DEF KeysPre, TypeInv, WelcomesOK
    <2> QED
        BY <1>2, <1>5, <2>1 DEF KeysPre, KeysInv, WelcomesMatch, Invites
<1>15. RemovalsLogged' /\ MessagesSpent'
    BY <1>2, RemovalsStay, MessagesSpentStays
<1>16. ParentsSpent'
    <2> SUFFICES ASSUME NEW e \in Devices, NEW x \in Heads, BuiltOn(e, x)' PROVE Spent(e, x)'
        BY DEF ParentsSpent
    <2>1. BuiltOn(e, x) \/ (e = d /\ x = h)
        BY <1>4, <1>5 DEF BuiltOn
    <2>2. CASE BuiltOn(e, x)
        BY <2>2, BuiltOnHead, SpentStays DEF KeysPre, KeysInv, ParentsSpent
    <2>3. CASE e = d /\ x = h
        <3>1. Spent(d, h)
            BY <1>0, <1>12 DEF KeysPre, KeysInv, BasesGood, Good
        <3> QED
            BY <2>3, <3>1, SpentStays
    <2> QED
        BY <2>1, <2>2, <2>3
(* The markers there were are of epochs before the one built on. *)
<1>17. ASSUME NEW k \in MarkerKinds \ {kind}, NEW m \in Nat, Marked(d, k, m)'
       PROVE  m < n
    <2>1. Marked(d, k, m)
        BY <1>9, <1>17 DEF Marked
    <2>2. At(d, n)
        BY <1>0 DEF At, Epoch
    <2>3. m <= n
        BY <2>1, <2>2 DEF KeysPre, KeysInv, MarkersAge, Ages
    <2>4. m # n
        BY <1>0, <1>1, <1>3, <2>1 DEF Quiet, Live, Marked
    <2> QED
        BY <2>3, <2>4
<1>18. /\ HasGroup(d)'
       /\ \A e \in Nat : At(d, e)' => e = n + 1
       /\ \A z \in Slots, e \in Nat : Posting(d, z)' /\ WasAt(d, z, e)' => z = s /\ e = n
       /\ \A m \in Nat : kind \in MarkerKinds /\ Marked(d, kind, m)' => m = n + 1
    <2>1. HasGroup(d)'
        BY <1>4, <1>5, <1>8 DEF HasGroup
    <2>2. \A e \in Nat : At(d, e)' => e = n + 1
        BY <1>4, <1>8, <1>11 DEF At, EpochAfter
    <2>3. \A z \in Slots, e \in Nat : Posting(d, z)' /\ WasAt(d, z, e)' => z = s /\ e = n
        BY <1>0, <1>4, <1>7, <1>10 DEF Posting, WasAt, EpochAfter
    <2>4. \A m \in Nat : kind \in MarkerKinds /\ Marked(d, kind, m)' => m = n + 1
        BY <1>4, <1>9 DEF Marked
    <2> QED
        BY <2>1, <2>2, <2>3, <2>4
<1>19. Ages(d)'
    <2> SUFFICES ASSUME NEW k \in MarkerKinds, NEW m \in Nat, Marked(d, k, m)'
                 PROVE  /\ HasGroup(d)'
                        /\ \A e \in Nat : At(d, e)' => m <= e
                        /\ \A z \in Slots, e \in Nat : Posting(d, z)' /\ WasAt(d, z, e)' =>
                              (k = op'[d][z].kind /\ m = e + 1) \/ m < e
                        /\ \A j \in MarkerKinds \ {k}, x \in Nat :
                              Marked(d, j, x)' /\ At(d, x)' => m < x - 1
        BY DEF Ages
    <2>1. CASE k = kind
        <3>1. m = n + 1 /\ op'[d][s].kind = kind
            BY <1>4, <1>7, <1>18, <2>1
        <3>2. \A j \in MarkerKinds \ {k}, x \in Nat : Marked(d, j, x)' => x < n
            BY <1>17, <2>1
        <3>3. \A j \in MarkerKinds \ {k}, x \in Nat : ~(Marked(d, j, x)' /\ At(d, x)')
            BY <1>18, <3>2
        <3> QED
            BY <1>18, <2>1, <3>1, <3>3
    <2>2. CASE k # kind
        <3>1. m < n
            BY <1>17, <2>2
        <3> QED
            BY <1>18, <3>1
    <2> QED
        BY <2>1, <2>2
<1>20. ASSUME NEW x \in Blob, Back(d, x)' PROVE x = b
    <2>1. CASE \E z \in Slots : Posting(d, z)' /\ op'[d][z].prev = x
        BY <1>4, <1>7, <2>1 DEF Posting
    <2>2. ASSUME NEW k \in MarkerKinds, Live(d, k)', marker'[d][k].prev = x PROVE x = b
        <3>1. CASE k = kind
            BY <1>4, <1>9, <2>2, <3>1
        <3>2. CASE k # kind
            <4>1. Marked(d, k, n + 1)'
                BY <1>4, <1>8, <1>11, <2>2 DEF Live, Marked, Epoch, EpochAfter
            <4>2. n + 1 < n
                BY <1>17, <3>2, <4>1
            <4> QED
                BY <4>2
        <3> QED
            BY <3>1, <3>2
    <2> QED
        BY <1>20, <2>1, <2>2 DEF Back
<1>21. ASSUME NEW e \in Devices \ {d}
       PROVE  Ages(e)' /\ \A x : (On(e, x)' => On(e, x)) /\ (Back(e, x)' => Back(e, x))
    BY <1>7, <1>8, <1>9, <1>21, OthersKeep
<1>22. ASSUME NEW e \in Devices, NEW x \in Blob, Base(e, x)' PROVE Good(e, x)'
    <2>1. Base(e, x)
        <3>1. CASE e = d
            <4>1. ~(On(d, x)' /\ x.head \in LogHeads')
                <5>1. c \notin LogHeads
                    BY <1>5, StoredBuilt DEF LogHeads, KeysPre
                <5> QED
                    BY <1>4, <1>6, <1>8, <5>1 DEF On
            <4> QED
                BY <1>12, <1>20, <1>22, <3>1, <4>1 DEF Base
        <3>2. CASE e # d
            BY <1>6, <1>21, <1>22, <3>2 DEF Base
        <3> QED
            BY <3>1, <3>2
    <2> QED
        BY <1>2, <2>1, OldBaseGood
<1>23. ASSUME NEW e \in Devices, NEW x \in Blob, On(e, x)' PROVE e \in Members(x.head)'
    <2>1. CASE e = d
        <3>1. d \in members
            BY <1>0, <1>1, <1>10
        <3>2. x = new
            BY <1>8, <1>23, <2>1 DEF On
        <3> QED
            BY <1>4, <1>11, <2>1, <3>1, <3>2 DEF Members
    <2>2. CASE e # d
        BY <1>21, <1>23, <2>2, OldMember
    <2> QED
        BY <2>1, <2>2
<1>24. BasesGood' /\ HoldersMember' /\ MarkersAge'
    BY <1>19, <1>21, <1>22, <1>23 DEF BasesGood, HoldersMember, MarkersAge
<1> QED
    BY <1>13, <1>14, <1>15, <1>16, <1>24 DEF KeysInv

-----------------------------------------------------------------------------
(* The server.                                                             *)

LEMMA AnswerShrinks ==
    ASSUME TypeInv, NEW c, NEW r, Answer(c, r), NEW d \in Devices
    PROVE  OpsShrink(d)
<1> SUFFICES ASSUME NEW s \in Slots
             PROVE  /\ op'[d][s].pc = op[d][s].pc
                    /\ op'[d][s].kind = op[d][s].kind
                    /\ op'[d][s].prev = op[d][s].prev
    BY DEF OpsShrink, Posting
<1> DEFINE q == op[d][s]
<1>1. q \in Op
    BY DEF TypeInv, OpOK
<1>2. op'[d][s] = q \/ op'[d][s] = [q EXCEPT !.reply = r]
    BY DEF Answer
<1> HIDE DEF q
<1>3. op'[d][s].pc = q.pc /\ op'[d][s].kind = q.kind /\ op'[d][s].prev = q.prev
    BY <1>1, <1>2 DEF Op
<1> QED
    BY <1>3 DEF q

(* After a request has been received every device is where it was. *)
LEMMA ReceiveKeeps ==
    ASSUME KeysPre, [Next]_vars, NEW c \in net, Receive(c)
    PROVE  /\ UNCHANGED <<commits, messages>>
           /\ MarkersAge'
           /\ \A d \in Devices, b \in Blob : /\ On(d, b)' <=> On(d, b)
                                             /\ Back(d, b)' => Back(d, b)
<1>1. UNCHANGED <<commits, state, marker, messages>> /\ \E r : Answer(c, r)
    BY DEF Receive, ServerStore, ServerKeepsWinner, ServerRejects
<1>2. ASSUME NEW d \in Devices PROVE OpsShrink(d) /\ MarkersShrink(d)
    BY <1>1, AnswerShrinks DEF MarkersShrink, KeysPre
<1>3. MarkersAge'
    BY <1>1, <1>2, MarkedShrinks, AgesSame DEF MarkersAge
<1>4. \A d \in Devices, b \in Blob : On(d, b)' <=> On(d, b)
    BY <1>1 DEF On, HasGroup
<1>5. \A d \in Devices, b \in Blob : Back(d, b)' => Back(d, b)
    BY <1>1, <1>2, BackStays
<1> QED
    BY <1>1, <1>3, <1>4, <1>5

(* The commit the log gets, and the state it was built on. *)
LEMMA StoreFacts ==
    ASSUME KeysPre, [Next]_vars, NEW c \in net, ServerStore(c), UNCHANGED commits
    PROVE  /\ Stored' = Stored \cup {c} /\ LogHeads' = LogHeads \cup {c}
           /\ c \in Built /\ c \in 0 .. Len(commits) /\ commits[c] \in Commit
           /\ c \notin Stored /\ c \notin LogHeads
           /\ commits[c].epoch \in Nat /\ EpochAfter(c) = commits[c].epoch + 1
           /\ \E p \in LogHeads :
                 /\ p = commits[c].parent /\ EpochAfter(p) = commits[c].epoch
                 /\ \A h \in LogHeads : EpochAfter(h) \in Nat /\ EpochAfter(h) <= EpochAfter(p)
<1>1. c \in Built /\ c # 0 /\ c \in 0 .. Len(commits) /\ commits[c] \in Commit
    BY DEF KeysPre, TypeInv, NetOK, CommitsOK, Built
<1>2. commits[c].epoch \in Nat /\ EpochAfter(c) = commits[c].epoch + 1
      /\ commits[c].epoch = Len(log) /\ Len(log) \in Nat
    BY <1>1 DEF Commit, EpochAfter, ServerStore, KeysPre, TypeInv, LogOK
<1>3. Stored' = Stored \cup {c}
    BY DEF ServerStore, Stored, KeysPre, TypeInv, LogOK
<1>4. c \notin Stored
    <2> SUFFICES ASSUME NEW i \in 1 .. Len(log), c = log[i] PROVE FALSE
        BY DEF Stored
    <2> QED
        BY <1>2 DEF KeysPre, CalmInv, EpochsMatch
<1>5. PICK p \in LogHeads : p = commits[c].parent /\ EpochAfter(p) = commits[c].epoch
    BY <1>1 DEF KeysPre, CalmInv, ParentsInLog, EpochsMatch
<1>6. \A h \in LogHeads : EpochAfter(h) \in Nat /\ EpochAfter(h) <= EpochAfter(p)
    BY <1>2, <1>5, HeadAt DEF KeysPre, CalmInv
<1> QED
    BY <1>1, <1>2, <1>3, <1>4, <1>5, <1>6 DEF LogHeads

LEMMA KeysStore ==
    ASSUME KeysPre, [Next]_vars, NEW c \in net, Receive(c), ServerStore(c)
    PROVE  KeysInv'
<1>0. UNCHANGED <<commits, messages>> /\ MarkersAge'
    BY ReceiveKeeps
<1>1. /\ Stored' = Stored \cup {c} /\ LogHeads' = LogHeads \cup {c}
      /\ c \in Built /\ c \in 0 .. Len(commits) /\ commits[c] \in Commit
      /\ c \notin Stored /\ c \notin LogHeads
      /\ commits[c].epoch \in Nat /\ EpochAfter(c) = commits[c].epoch + 1
    BY <1>0, StoreFacts
<1>2. PICK p \in LogHeads :
          /\ p = commits[c].parent /\ EpochAfter(p) = commits[c].epoch
          /\ \A h \in LogHeads : EpochAfter(h) \in Nat /\ EpochAfter(h) <= EpochAfter(p)
    BY <1>0, StoreFacts
<1>3. MembersOf(c)
    BY <1>1 DEF KeysPre, KeysInv, MembersMatch
<1>4. \A h \in LogHeads \cup {c} :
          h \in 0 .. Len(commits) /\ EpochAfter(h)' = EpochAfter(h) /\ Members(h)' = Members(h)
    BY <1>1, HeadsBuilt, EpochStays DEF KeysPre
(* What stops d on its way to p stops it on its way to c. *)
<1>5. ASSUME NEW d \in Devices, NEW a \in LogHeads, Blocked(d, a, p) PROVE Blocked(d, a, c)'
    <2>1. PICK x \in Stored : Stop(d, x, a, p)
        BY <1>5 DEF Blocked
    <2>2. commits[x].epoch \in Nat
        BY StoredFacts DEF KeysPre
    <2>3. Stop(d, x, a, c)
        BY <1>1, <1>2, <2>1, <2>2 DEF Stop
    <2>4. Stop(d, x, a, c)'
        BY <1>0, <1>4, <2>3 DEF Stop
    <2> QED
        BY <1>1, <2>4 DEF Blocked
<1>6. WelcomesMatch'
    BY <1>0, <1>1 DEF KeysPre, KeysInv, WelcomesMatch, Invites, ServerStore, WelcomesOf
<1>7. RemovalsLogged'
    <2> SUFFICES ASSUME NEW d \in Devices, NEW a \in LogHeads', NEW h \in LogHeads',
                        d \in Members(a), d \notin Members(h), EpochAfter(a) <= EpochAfter(h)
                 PROVE  Blocked(d, a, h)'
        BY <1>1, <1>4 DEF RemovalsLogged
    <2>1. CASE h \in LogHeads
        <3>1. a \in LogHeads
            BY <1>1, <1>2, <2>1
        <3> QED
            BY <2>1, <3>1, BlockedStays DEF KeysPre, KeysInv, RemovalsLogged
    <2>2. CASE h = c
        <3>1. a \in LogHeads /\ EpochAfter(a) <= EpochAfter(p)
            BY <1>1, <1>2, <2>2
        <3>2. CASE d \notin Members(p)
            BY <1>5, <2>2, <3>1, <3>2 DEF KeysPre, KeysInv, RemovalsLogged
        <3>3. CASE d \in Members(p)
            <4>1. c # 0
                BY <1>1 DEF Built
            <4>2. commits[c].target = d /\ commits[c].kind # "provision"
                BY <1>1, <1>2, <1>3, <2>2, <3>3, <4>1 DEF MembersOf, Members, Commit
            <4>3. Stop(d, c, a, c)
                BY <1>1, <1>2, <3>1, <4>2 DEF Stop
            <4>4. Stop(d, c, a, c)'
                BY <1>0, <1>4, <3>1, <4>3 DEF Stop
            <4> QED
                BY <1>1, <2>2, <4>4 DEF Blocked
        <3> QED
            BY <3>2, <3>3
    <2> QED
        BY <1>1, <2>1, <2>2
(* The author of c, on the state it wrote. *)
<1>8. ASSUME NEW d \in Devices, NEW b \in Blob, On(d, b), b.head = c PROVE Good(d, b)'
    <2>1. commits[c].by = d
        <3>1. Mine(d, c)
            BY <1>8 DEF On, KeysPre, OwnInv, OwnStates
        <3>2. c # -1
            BY <1>1 DEF KeysPre, TypeInv, CommitsOK
        <3> QED
            BY <1>1, <3>1, <3>2 DEF Mine
    <2>2. d \in Members(c)' /\ c \in LogHeads'
        BY <1>1, <1>4, <1>8 DEF KeysPre, KeysInv, HoldersMember
    <2>3. Spent(d, p)
        <3>1. BuiltOn(d, p) /\ p \in Heads
            BY <1>1, <1>2, <2>1, BuiltOnHead DEF BuiltOn
        <3> QED
            BY <3>1 DEF KeysPre, KeysInv, ParentsSpent
    <2>4. Spent(d, c)'
        <3> SUFFICES ASSUME NEW x \in Stored', Invites(x, d), EpochAfter(x)' <= EpochAfter(c)'
                     PROVE  x \in digests'[d] \/ Blocked(d, x, c)'
            BY <1>0 DEF Spent, Invites
        <3>1. x # c
            BY <1>3, <2>1 DEF MembersOf, Invites
        <3>2. x \in Stored /\ x \in LogHeads
            BY <1>1, <3>1 DEF LogHeads
        <3>3. x \in digests[d] \/ Blocked(d, x, p)
            BY <1>2, <2>3, <3>2 DEF Spent
        <3> QED
            BY <1>5, <3>2, <3>3, DigestsGrow DEF KeysPre
    <2>5. ASSUME NEW m \in Msg, WasSent(m)', m.by = d PROVE Past(d, b, m)'
        <3>1. m.head \in LogHeads
            BY <1>0, <2>5 DEF WasSent, KeysPre, KeysInv, MessagesSpent
        <3>2. EpochAfter(c)' > EpochAfter(m.head)'
            BY <1>1, <1>2, <1>4, <3>1
        <3> QED
            BY <1>8, <3>2 DEF Past
    <2> QED
        BY <1>8, <2>2, <2>4, <2>5 DEF Good
<1>9. ASSUME NEW d \in Devices, NEW b \in Blob, Base(d, b)' PROVE Good(d, b)'
    <2>1. Base(d, b) \/ (On(d, b) /\ b.head = c)
        BY <1>1, <1>9, ReceiveKeeps DEF Base
    <2> QED
        BY <1>0, <1>8, <2>1, OldBaseGood
<1>10. HoldersMember'
    <2>1. \A d \in Devices, b \in Blob : On(d, b)' => On(d, b)
        BY ReceiveKeeps
    <2> QED
        BY <2>1, OldMember DEF HoldersMember
<1>11. MembersMatch' /\ MessagesSpent' /\ ParentsSpent' /\ BasesGood'
    BY <1>0, <1>9, MembersMatchStays, MessagesSpentStays, ParentsSpentStays DEF BasesGood
<1> QED
    BY <1>0, <1>6, <1>7, <1>10, <1>11 DEF KeysInv

LEMMA KeysReceive ==
    ASSUME KeysPre, [Next]_vars, NEW c \in net, Receive(c)
    PROVE  KeysInv'
<1>1. CASE ServerStore(c)
    BY <1>1, KeysStore
<1>2. CASE ServerKeepsWinner(c) \/ ServerRejects(c)
    <2>1. UNCHANGED <<log, welcomes>>
        BY <1>2 DEF ServerKeepsWinner, ServerRejects
    <2>2. /\ UNCHANGED <<commits, messages>> /\ MarkersAge'
          /\ \A d \in Devices, b \in Blob : On(d, b)' => On(d, b)
          /\ \A d \in Devices, b \in Blob : Back(d, b)' => Base(d, b)
        BY ReceiveKeeps DEF Base
    <2> QED
        BY <2>1, <2>2, NoNewBase
<1> QED
    BY <1>1, <1>2 DEF Receive

-----------------------------------------------------------------------------
(* The theorem.                                                            *)

LEMMA KeysInit == Init => KeysInv
<1> SUFFICES ASSUME Init PROVE KeysInv
    OBVIOUS
<1>1. Built = {} /\ Stored = {} /\ LogHeads = {0}
    BY DEF Init, Built, Stored, LogHeads
<1>2. \A m : ~WasSent(m)
    BY DEF Init, WasSent
<1>3. MembersMatch /\ WelcomesMatch /\ MessagesSpent /\ ParentsSpent
    BY <1>1, <1>2 DEF Init, MembersMatch, WelcomesMatch, MessagesSpent, ParentsSpent, BuiltOn
<1>4. RemovalsLogged
    BY <1>1 DEF RemovalsLogged
<1>5. \A d \in Devices, b \in Blob : On(d, b) => b = Founded /\ d \in Founders
    BY NoneFacts DEF Init, On, HasGroup
<1>6. Founded.head = 0 /\ Members(0) = Founders
    BY DEF Founded, Members
<1>7. \A d \in Devices, b \in Blob : ~Back(d, b)
    BY NoneFacts DEF Init, Back, Posting, Live
<1>8. ASSUME NEW d \in Founders PROVE Good(d, Founded)
    BY <1>1, <1>2, <1>6 DEF Good, Spent
<1>9. BasesGood /\ HoldersMember
    BY <1>5, <1>6, <1>7, <1>8 DEF BasesGood, HoldersMember, Base
<1>10. MarkersAge
    BY DEF Init, MarkersAge, Ages, Marked
<1> QED
    BY <1>3, <1>4, <1>9, <1>10 DEF KeysInv

LEMMA KeysStep == KeysPre /\ [Next]_vars => KeysInv'
<1> SUFFICES ASSUME KeysPre, [Next]_vars PROVE KeysInv'
    OBVIOUS
<1>1. ASSUME NEW d \in Devices, NEW s \in Slots, Outcome(d, s) PROVE KeysInv'
    BY <1>1, KeysConfirm, KeysLostRace, KeysConflict, KeysReconcile DEF Outcome
<1>2. ASSUME NEW d \in Devices, TakeWelcome(d) PROVE KeysInv'
    BY <1>2, KeysJoin, KeysIgnore DEF TakeWelcome
<1>3. ASSUME NEW d \in Devices, Traffic(d) PROVE KeysInv'
    BY <1>3, KeysEncrypt, KeysDecrypt DEF Traffic
<1>4. ASSUME NEW d \in Devices, Recover(d) PROVE KeysInv'
    BY <1>4, KeysResolve DEF Recover, RecoverOnePendingReprovision, RecoverOnePendingRemoval
<1>5. ASSUME NEW c \in net, LoseRequest(c) PROVE KeysInv'
    BY <1>5, KeysSame DEF LoseRequest
<1>6. CASE UNCHANGED vars
    BY <1>6, KeysSame DEF vars
<1> QED
    BY <1>1, <1>2, <1>3, <1>4, <1>5, <1>6, KeysWrite, KeysRetry, KeysResync, KeysFollow,
       KeysClear, KeysCrash, KeysReceive DEF Next

LEMMA SentFacts ==
    ASSUME TypeInv, NEW i \in 1 .. Len(messages)
    PROVE  messages[i] \in Msg /\ WasSent(messages[i])
<1>1. messages \in Seq(Msg)
    BY DEF TypeInv, MessagesOK, Msg
<1>2. messages[i] \in Msg
    <2> HIDE DEF Msg
    <2> QED
        BY <1>1
<1> QED
    BY <1>2 DEF WasSent

LEMMA KeysAreFresh == TypeInv /\ KeysInv => NoGenerationReuse
<1> SUFFICES ASSUME TypeInv, KeysInv, NEW i \in 1 .. Len(messages),
                    HasGroup(messages[i].by), state[messages[i].by].head = messages[i].head
             PROVE  state[messages[i].by].gen > messages[i].gen
    BY DEF NoGenerationReuse
<1>1. PICK m \in Msg : m = messages[i] /\ WasSent(m)
    BY SentFacts
<1>2. PICK d \in Devices, b \in Blob : d = m.by /\ b = state[d] /\ On(d, b)
    BY <1>1 DEF Msg, On, TypeInv, StateOK
<1>3. b.head = m.head /\ m.head \in LogHeads
    BY <1>1, <1>2 DEF KeysInv, MessagesSpent
<1>4. Past(d, b, m)
    BY <1>1, <1>2, <1>3 DEF KeysInv, BasesGood, Base, Good
<1>5. EpochAfter(m.head) \in Nat
    BY <1>3, HeadsBuilt, EpochFacts
<1>6. b.gen > m.gen
    BY <1>3, <1>4, <1>5 DEF Past
<1> QED
    BY <1>1, <1>2, <1>6

THEOREM KeysCorrect == Calm => (Spec => []KeysInv)
<1> SUFFICES ASSUME Calm PROVE Spec => []KeysInv
    OBVIOUS
<1>1. TypeInv /\ OwnInv /\ CalmInv /\ KeysInv /\ [Next]_vars => KeysInv'
    BY KeysStep DEF KeysPre
<1>2. Spec => []CalmInv
    BY CalmCorrect
<1> QED
    BY <1>1, <1>2, TypeCorrect, OwnCorrect, KeysInit, PTL DEF Spec

(* In a calm environment no device encrypts two messages with one key,     *)
(* whatever it joined, followed, lost, was rolled back from or cleared.    *)
THEOREM NoKeyIsUsedTwice == Calm => (Spec => []NoGenerationReuse)
<1> SUFFICES ASSUME Calm PROVE Spec => []NoGenerationReuse
    OBVIOUS
<1>1. Spec => []KeysInv
    BY KeysCorrect
<1> QED
    BY <1>1, TypeCorrect, KeysAreFresh, PTL

=============================================================================
