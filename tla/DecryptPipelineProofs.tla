------------------------- MODULE DecryptPipelineProofs -------------------------
(***************************************************************************)
(* Theorems about DecryptPipeline, for any messages, passes and number of  *)
(* attempts: a text whose key was consumed is in the cache or in the hands *)
(* of a caller that is about to store it, and a text in the cache stays,   *)
(* as long as the uses are orderly; a clear has tried every message before *)
(* it deletes the keys, whatever else happens.                             *)
(***************************************************************************)
EXTENDS DecryptPipeline, WellFoundedInduction, TLAPS

USE ConstantsAssumption

-----------------------------------------------------------------------------
(* Types, and the shape of a pass: what it has still to visit, and when it *)
(* holds a value.                                                          *)

Pcs == {"idle", "ids", "orphan", "orphanWait", "orphanStore", "gap", "gapWait", "gapStore",
        "next", "decrypt", "mark", "store", "remove",
        "sweep", "sweepStore", "pending", "placeholders", "drop"}
Waiting == {"orphanWait", "gapWait", "decrypt", "mark"}
Storing == {"orphanStore", "gapStore", "store", "remove", "sweepStore"}
Stages == {"idle", "try", "catchUp", "replaying", "again", "heal", "healed", "verdict", "put"}

GroupOK == /\ use \in Uses /\ head \in 0 .. LastEpoch
           /\ group \in [base : Int, epoch : Int]
           /\ caughtUp \in BOOLEAN /\ failed \in BOOLEAN /\ invited \in BOOLEAN
StoredOK == /\ used \subseteq Messages
            /\ queue \in [Messages -> Int]
            /\ cache \in [Messages -> Values]
CallersOK == /\ decryption \in [Messages -> [pc : Stages, fatal : BOOLEAN, tries : Int]]
             /\ reader \in [Messages -> {"idle", "exists", "wait", "plain", "undec", "blank"}]
             /\ notifier \in [Messages -> {"idle", "wait", "plain"}]
             /\ echo \in [Messages -> Values]
             /\ known \subseteq Messages /\ arrived \subseteq Messages
Pass == [kind : {"none", "load", "replay", "retry", "clear"}, pc : Pcs,
         todo : SUBSET Messages, gap : SUBSET Messages, tries : [Messages -> Int],
         value : Values, shown : [Messages -> Values], caller : Messages \cup {0}]
Shape(r) ==
    /\ r.kind = "none" => r = NoPass
    /\ r.pc \in Waiting \cup Storing => r.todo # {}
    /\ r.pc \notin Storing => r.value = "none"
    /\ r.pc \in {"store", "remove", "sweepStore"} => r.value \in {"plain", "undec"}
    /\ r.kind = "retry" => r.value \in {"none", "plain"}
    /\ r.pc = "orphanStore" => r.value \in {"none", "plain"}
PassesOK == pass \in [Passes -> Pass] /\ \A p \in Passes : Shape(pass[p])

TypeInv == GroupOK /\ StoredOK /\ CallersOK /\ PassesOK

-----------------------------------------------------------------------------
(* What makes a behaviour orderly: if its callers take turns, the          *)
(* conversation is not given up, the keys are not deleted, and the page is *)
(* not opened on messages of a later epoch.                                *)

Orderly ==
    Calm => /\ ~use.fails /\ "clear" \notin use.kinds
            /\ use.later = {} \/ "load" \notin use.kinds

(* Without visits a message is tried once when its event arrives, and then *)
(* only by replays and retries; with visits there is one epoch.            *)
Visits == "load" \in use.kinds
Active(p) == pass[p].kind # "none"
Untouched(m) == ~Attended(m) /\ queue[m] = None /\ cache[m] = "none" /\ m \notin used
Settled(m) == ~Visits /\ m \in arrived /\ ~Attended(m)

(* What a replay or a retry tells the page is what is in the cache.        *)
ShownIsCached(f) ==
    \A m \in Messages : f[m] # "none" =>
        cache[m] = f[m] /\ (f[m] = "plain" \/ (f[m] = "undec" /\ Settled(m)))

(* A load that waits for a decryption. *)
AwaitedBy(p, m) ==
    /\ pass[p].kind = "load" /\ pass[p].pc \in {"orphanWait", "gapWait"} /\ Current(p) = m

(* A pass is the only one; a load has the conversation for itself, and     *)
(* takes what the cache lacks; a replay or a retry has its messages for    *)
(* itself.                                                                 *)
RunsAlone(p) ==
    Active(p) => /\ p \in use.passes /\ pass[p].kind # "clear"
                 /\ \A q \in Passes : Active(q) => q = p

LoadIsAlone(p) ==
    pass[p].kind = "load" =>
        /\ Visits
        /\ \A m \in Messages :
              /\ reader[m] = "idle" /\ notifier[m] = "idle" /\ echo[m] = "none"
              /\ decryption[m] # NoDecryption => AwaitedBy(p, m)

LoadFillsGaps(p) ==
    pass[p].kind = "load" =>
        /\ pass[p].shown = NoValues
        /\ \A m \in pass[p].todo :
              cache[m] \in IF pass[p].pc \in {"gap", "gapWait", "gapStore"}
                           THEN {"none"} ELSE {"undec", "blank"}
        /\ pass[p].pc \in {"orphan", "orphanWait", "orphanStore"}
               => \A m \in pass[p].gap : cache[m] = "none"

TodoIsUnattended(p) ==
    pass[p].kind \in {"replay", "retry"} =>
        \A m \in pass[p].todo : ~Attended(m) /\ (Visits \/ m \in arrived)

RetryIsQuiet(p) == pass[p].kind = "retry" => \A m \in Messages : echo[m] = "none"

ReplayFills(p) ==
    pass[p].kind = "replay" =>
        /\ pass[p].pc \in {"decrypt", "mark", "store"} => cache[Current(p)] = "none"
        /\ pass[p].pc = "remove" => cache[Current(p)] = pass[p].value
        /\ Visits => pass[p].pc # "mark" /\ pass[p].value # "undec"

PassInv(p) ==
    /\ RunsAlone(p) /\ LoadIsAlone(p) /\ LoadFillsGaps(p) /\ TodoIsUnattended(p)
    /\ RetryIsQuiet(p) /\ ReplayFills(p) /\ ShownIsCached(pass[p].shown)
    /\ Visits => \A m \in Messages : pass[p].tries[m] <= 0

(* A decryption is awaited; who waits, or holds a placeholder, does so for *)
(* a message that nobody has read; a message is settled before it is       *)
(* queued; a text whose key was consumed is carried.                       *)
DecryptionOK(m) ==
    /\ decryption[m] # NoDecryption
           => reader[m] = "wait" \/ notifier[m] = "wait" \/ \E p \in Passes : AwaitedBy(p, m)
    /\ decryption[m].pc = "idle" => decryption[m] = NoDecryption
    /\ Visits => /\ decryption[m].tries <= 0 /\ queue[m] <= 0
                 /\ decryption[m].pc \notin {"catchUp", "replaying", "again"}

ReaderOK(m) ==
    /\ reader[m] \in Values \/ notifier[m] = "plain" => decryption[m] = NoDecryption
    /\ reader[m] = "wait" => decryption[m] # NoDecryption
    /\ reader[m] = "exists" => notifier[m] # "plain" /\ decryption[m].pc \in {"idle", "try"}
    /\ reader[m] \in {"undec", "blank"} => notifier[m] # "plain"
    /\ reader[m] \in {"wait", "undec", "blank"} => m \notin used /\ cache[m] = "none"

EventOK(m) ==
    /\ m \notin arrived => reader[m] = "idle" /\ notifier[m] = "idle"
    /\ ~Visits /\ m \notin arrived => Untouched(m)
    /\ ~Visits /\ queue[m] # None => Settled(m)

EchoOK(m) ==
    echo[m] # "none" => cache[m] = echo[m] /\ (echo[m] = "plain" \/ (echo[m] = "undec" /\ Settled(m)))

MessageInv(m) ==
    DecryptionOK(m) /\ ReaderOK(m) /\ EventOK(m) /\ EchoOK(m) /\ (m \in used => Carried(m))

OneEpoch == Visits /\ HasGroup => group = [base |-> 0, epoch |-> 0]

CalmInv ==
    Calm => /\ ~failed /\ OneEpoch
            /\ \A p \in Passes : PassInv(p)
            /\ \A m \in Messages : MessageInv(m)

-----------------------------------------------------------------------------
(* What a clear has still to try: all that is not cached.  The argument is *)
(* for clears of a conversation of one epoch, whatever else overlaps.      *)

ClearsInOneEpoch == "clear" \in use.kinds => use.later = {}

SweepInv ==
    /\ HasGroup => group.epoch \in Nat
    /\ \A p \in Passes : pass[p].kind = "clear" =>
          /\ "clear" \in use.kinds
          /\ pass[p].pc \in {"sweep", "sweepStore"} =>
                \A m \in use.sent : cache[m] = "none" => m \in pass[p].todo
-----------------------------------------------------------------------------
(* Operators: the first message of a set, and the steps of a pass.         *)

LEMMA FirstIsIn ==
    ASSUME NEW S \in SUBSET Messages, S # {}
    PROVE  First(S) \in S
<1> DEFINE R == OpToRel(<, Nat)
<1>1. S \subseteq Nat
    OBVIOUS
<1>2. IsWellFoundedOn(R, Nat)
    BY NatLessThanWellFounded
<1>3. \A x, y \in Nat : x < y => <<x, y>> \in R
    BY DEF OpToRel
<1> HIDE DEF R
<1>4. PICK m \in S : \A n \in S : ~(<<n, m>> \in R)
    BY <1>1, <1>2, WFMin
<1>5. \A n \in S : m <= n
    <2> SUFFICES ASSUME NEW n \in S PROVE m <= n
        OBVIOUS
    <2>1. m \in Nat /\ n \in Nat /\ ~(n < m)
        BY <1>1, <1>3, <1>4
    <2> QED
        BY <2>1
<1> QED
    BY <1>5 DEF First

Others(p) == \A q \in Passes \ {p} : pass'[q] = pass[q]
Typed == pass \in [Passes -> Pass]

LEMMA CurrentIsIn ==
    ASSUME Typed, NEW p \in Passes, pass[p].todo # {}
    PROVE  Current(p) \in pass[p].todo /\ Current(p) \in Messages
<1>1. pass[p].todo \in SUBSET Messages
    BY DEF Typed, Pass
<1> QED
    BY <1>1, FirstIsIn DEF Current

LEMMA Changed ==
    ASSUME Typed, NEW p \in Passes, NEW x \in Pass, pass' = [pass EXCEPT ![p] = x]
    PROVE  Typed' /\ Others(p) /\ pass'[p] = x
BY DEF Typed, Others

LEMMA OwnFields ==
    ASSUME Typed, NEW p \in Passes
    PROVE  /\ pass[p].pc \in Pcs /\ pass[p].todo \in SUBSET Messages
           /\ pass[p].gap \in SUBSET Messages /\ pass[p].value \in Values
           /\ pass[p].shown \in [Messages -> Values] /\ pass[p].tries \in [Messages -> Int]
BY DEF Typed, Pass

LEMMA Turned ==
    ASSUME Typed, NEW p \in Passes, NEW pc \in Pcs,
           Turn(p, pc)
    PROVE  /\ Typed' /\ Others(p)
           /\ pass'[p].pc = pc /\ pass'[p].kind = pass[p].kind /\ pass'[p].todo = pass[p].todo
           /\ pass'[p].gap = pass[p].gap /\ pass'[p].tries = pass[p].tries
           /\ pass'[p].value = pass[p].value /\ pass'[p].shown = pass[p].shown
<1>1. PICK r \in Pass : r = pass[p]
    BY DEF Typed
<1>2. PICK x : x = [r EXCEPT !.pc = pc]
    OBVIOUS
<1>3. x \in Pass
    BY <1>1, <1>2 DEF Pass, Values
<1>4. /\ x.pc = pc /\ x.kind = r.kind /\ x.todo = r.todo /\ x.gap = r.gap
      /\ x.tries = r.tries /\ x.value = r.value /\ x.shown = r.shown
    BY <1>1, <1>2 DEF Pass
<1>5. pass' = [pass EXCEPT ![p] = x]
    BY <1>1, <1>2 DEF Turn, Typed
<1>6. Typed' /\ Others(p) /\ pass'[p] = x
    BY <1>3, <1>5, Changed
<1> QED
    BY <1>1, <1>4, <1>6

SetsValue(p, pc, v) == pass' = [pass EXCEPT ![p].pc = pc, ![p].value = v]

LEMMA Valued ==
    ASSUME Typed, NEW p \in Passes, NEW pc \in Pcs, NEW v \in Values,
           SetsValue(p, pc, v)
    PROVE  /\ Typed' /\ Others(p)
           /\ pass'[p].pc = pc /\ pass'[p].kind = pass[p].kind /\ pass'[p].todo = pass[p].todo
           /\ pass'[p].gap = pass[p].gap /\ pass'[p].tries = pass[p].tries
           /\ pass'[p].value = v /\ pass'[p].shown = pass[p].shown
<1>1. PICK r \in Pass : r = pass[p]
    BY DEF Typed
<1>2. PICK x : x = [r EXCEPT !.pc = pc, !.value = v]
    OBVIOUS
<1>3. x \in Pass
    BY <1>1, <1>2 DEF Pass, Values
<1>4. /\ x.pc = pc /\ x.kind = r.kind /\ x.todo = r.todo /\ x.gap = r.gap
      /\ x.tries = r.tries /\ x.value = v /\ x.shown = r.shown
    BY <1>1, <1>2 DEF Pass
<1>5. pass' = [pass EXCEPT ![p] = x]
    BY <1>1, <1>2 DEF Typed, SetsValue
<1>6. Typed' /\ Others(p) /\ pass'[p] = x
    BY <1>3, <1>5, Changed
<1> QED
    BY <1>1, <1>4, <1>6

SetsTodo(p, pc, S) == pass' = [pass EXCEPT ![p].pc = pc, ![p].todo = S]

LEMMA Listed ==
    ASSUME Typed, NEW p \in Passes, NEW pc \in Pcs, NEW S \in SUBSET Messages,
           SetsTodo(p, pc, S)
    PROVE  /\ Typed' /\ Others(p)
           /\ pass'[p].pc = pc /\ pass'[p].kind = pass[p].kind /\ pass'[p].todo = S
           /\ pass'[p].gap = pass[p].gap /\ pass'[p].tries = pass[p].tries
           /\ pass'[p].value = pass[p].value /\ pass'[p].shown = pass[p].shown
<1>1. PICK r \in Pass : r = pass[p]
    BY DEF Typed
<1>2. PICK x : x = [r EXCEPT !.pc = pc, !.todo = S]
    OBVIOUS
<1>3. x \in Pass
    BY <1>1, <1>2 DEF Pass, Values
<1>4. /\ x.pc = pc /\ x.kind = r.kind /\ x.todo = S /\ x.gap = r.gap
      /\ x.tries = r.tries /\ x.value = r.value /\ x.shown = r.shown
    BY <1>1, <1>2 DEF Pass
<1>5. pass' = [pass EXCEPT ![p] = x]
    BY <1>1, <1>2 DEF Typed, SetsTodo
<1>6. Typed' /\ Others(p) /\ pass'[p] = x
    BY <1>3, <1>5, Changed
<1> QED
    BY <1>1, <1>4, <1>6

SetsGap(p, pc, S) == pass' = [pass EXCEPT ![p].pc = pc, ![p].gap = S]

LEMMA Gapped ==
    ASSUME Typed, NEW p \in Passes, NEW pc \in Pcs, NEW S \in SUBSET Messages,
           SetsGap(p, pc, S)
    PROVE  /\ Typed' /\ Others(p)
           /\ pass'[p].pc = pc /\ pass'[p].kind = pass[p].kind /\ pass'[p].todo = pass[p].todo
           /\ pass'[p].gap = S /\ pass'[p].tries = pass[p].tries
           /\ pass'[p].value = pass[p].value /\ pass'[p].shown = pass[p].shown
<1>1. PICK r \in Pass : r = pass[p]
    BY DEF Typed
<1>2. PICK x : x = [r EXCEPT !.pc = pc, !.gap = S]
    OBVIOUS
<1>3. x \in Pass
    BY <1>1, <1>2 DEF Pass, Values
<1>4. /\ x.pc = pc /\ x.kind = r.kind /\ x.todo = r.todo /\ x.gap = S
      /\ x.tries = r.tries /\ x.value = r.value /\ x.shown = r.shown
    BY <1>1, <1>2 DEF Pass
<1>5. pass' = [pass EXCEPT ![p] = x]
    BY <1>1, <1>2 DEF Typed, SetsGap
<1>6. Typed' /\ Others(p) /\ pass'[p] = x
    BY <1>3, <1>5, Changed
<1> QED
    BY <1>1, <1>4, <1>6

LEMMA Dropped ==
    ASSUME Typed, NEW p \in Passes, NEW pc \in Pcs,
           Drop(p, pc)
    PROVE  /\ Typed' /\ Others(p)
           /\ pass'[p].pc = pc /\ pass'[p].kind = pass[p].kind /\ pass'[p].todo = pass[p].todo \ {Current(p)}
           /\ pass'[p].gap = pass[p].gap /\ pass'[p].tries = pass[p].tries
           /\ pass'[p].value = "none" /\ pass'[p].shown = pass[p].shown
<1>1. PICK r \in Pass : r = pass[p]
    BY DEF Typed
<1>0. PICK S \in SUBSET Messages : S = r.todo \ {Current(p)}
    BY <1>1 DEF Pass
<1>2. PICK x : x = [r EXCEPT !.pc = pc, !.todo = S, !.value = "none"]
    OBVIOUS
<1>3. x \in Pass
    BY <1>0, <1>1, <1>2 DEF Pass, Values
<1>4. /\ x.pc = pc /\ x.kind = r.kind /\ x.todo = S /\ x.gap = r.gap
      /\ x.tries = r.tries /\ x.value = "none" /\ x.shown = r.shown
    BY <1>1, <1>2 DEF Pass
<1>5. pass' = [pass EXCEPT ![p] = x]
    BY <1>0, <1>1, <1>2 DEF Drop, Typed
<1>6. Typed' /\ Others(p) /\ pass'[p] = x
    BY <1>3, <1>5, Changed
<1> QED
    BY <1>0, <1>1, <1>4, <1>6

(* A pass that begins. *)
Entrance(k, pc, S, f, c) ==
    [kind |-> k, pc |-> pc, todo |-> S, gap |-> {}, tries |-> f,
     value |-> "none", shown |-> NoValues, caller |-> c]

LEMMA NoPassIsPass == NoPass \in Pass /\ NoPass.kind = "none"
<1>1. /\ NoValues \in [Messages -> Values] /\ "none" \in Values
      /\ NoTries \in [Messages -> Int] /\ "idle" \in Pcs
    BY DEF NoValues, Values, NoTries, None, Pcs
<1> QED
    BY <1>1 DEF NoPass, Pass

LEMMA Left ==
    ASSUME Typed, NEW p \in Passes, pass' = [pass EXCEPT ![p] = NoPass]
    PROVE  Typed' /\ Others(p) /\ pass'[p] = NoPass
BY NoPassIsPass, Changed

(* A replay or a retry has stored what it holds. *)
StoresHere(p, c, v) == pass' = [pass EXCEPT ![p].pc = "remove", ![p].shown[c] = v]

LEMMA StoredHere ==
    ASSUME Typed, NEW p \in Passes, NEW c \in Messages, NEW v \in Values, StoresHere(p, c, v)
    PROVE  /\ Typed' /\ Others(p)
           /\ pass'[p].pc = "remove" /\ pass'[p].kind = pass[p].kind
           /\ pass'[p].todo = pass[p].todo /\ pass'[p].gap = pass[p].gap
           /\ pass'[p].tries = pass[p].tries /\ pass'[p].value = pass[p].value
           /\ pass'[p].shown = [pass[p].shown EXCEPT ![c] = v]
<1>1. PICK r \in Pass : r = pass[p]
    BY DEF Typed
<1>2. PICK f \in [Messages -> Values] : f = [r.shown EXCEPT ![c] = v]
    BY <1>1 DEF Pass
<1>3. PICK x : x = [r EXCEPT !.pc = "remove", !.shown = f]
    OBVIOUS
<1>4. x \in Pass
    BY <1>1, <1>2, <1>3 DEF Pass, Pcs
<1>5. /\ x.pc = "remove" /\ x.kind = r.kind /\ x.todo = r.todo /\ x.gap = r.gap
      /\ x.tries = r.tries /\ x.value = r.value /\ x.shown = f
    BY <1>1, <1>3 DEF Pass
<1>6. PICK y : y = [r EXCEPT !.pc = "remove", !.shown[c] = v]
    OBVIOUS
<1>7. y = x
    BY <1>1, <1>2, <1>3, <1>6 DEF Pass
<1>8. pass'[p] = y
    BY <1>1, <1>6 DEF Typed, StoresHere
<1>9. Others(p)
    BY DEF Typed, Others, StoresHere
<1>12. pass' = [q \in Passes |-> pass'[q]]
    BY ZenonT(60) DEF Typed, StoresHere
<1>13. \A q \in Passes : pass'[q] \in Pass
    BY <1>4, <1>7, <1>8, <1>9 DEF Typed, Others
<1>10. Typed'
    BY <1>12, <1>13 DEF Typed
<1> QED
    BY <1>1, <1>2, <1>5, <1>7, <1>8, <1>9, <1>10

StoresNext(p, c, v) ==
    pass' = [pass EXCEPT ![p].pc = "next", ![p].todo = @ \ {c}, ![p].shown[c] = v, ![p].value = "none"]

LEMMA StoredNext ==
    ASSUME Typed, NEW p \in Passes, NEW c \in Messages, NEW v \in Values, StoresNext(p, c, v)
    PROVE  /\ Typed' /\ Others(p)
           /\ pass'[p].pc = "next" /\ pass'[p].kind = pass[p].kind
           /\ pass'[p].todo = pass[p].todo \ {c} /\ pass'[p].gap = pass[p].gap
           /\ pass'[p].tries = pass[p].tries /\ pass'[p].value = "none"
           /\ pass'[p].shown = [pass[p].shown EXCEPT ![c] = v]
<1>1. PICK r \in Pass : r = pass[p]
    BY DEF Typed
<1>2. PICK f \in [Messages -> Values] : f = [r.shown EXCEPT ![c] = v]
    BY <1>1 DEF Pass
<1>11. PICK S \in SUBSET Messages : S = r.todo \ {c}
    BY <1>1 DEF Pass
<1>3. PICK x : x = [r EXCEPT !.pc = "next", !.todo = S, !.shown = f, !.value = "none"]
    OBVIOUS
<1>4. x \in Pass
    BY ZenonT(60), <1>1, <1>2, <1>3, <1>11 DEF Pass, Pcs, Values
<1>5. /\ x.pc = "next" /\ x.kind = r.kind /\ x.todo = S /\ x.gap = r.gap
      /\ x.tries = r.tries /\ x.value = "none" /\ x.shown = f
    BY <1>1, <1>3 DEF Pass
<1>6. PICK y : y = [r EXCEPT !.pc = "next", !.todo = @ \ {c}, !.shown[c] = v, !.value = "none"]
    OBVIOUS
<1>7. y = x
    BY <1>1, <1>2, <1>3, <1>6, <1>11 DEF Pass
<1>8. pass'[p] = y
    BY <1>1, <1>6 DEF Typed, StoresNext
<1>9. Others(p)
    BY DEF Typed, Others, StoresNext
<1>12. pass' = [q \in Passes |-> pass'[q]]
    BY ZenonT(60) DEF Typed, StoresNext
<1>13. \A q \in Passes : pass'[q] \in Pass
    BY <1>4, <1>7, <1>8, <1>9 DEF Typed, Others
<1>10. Typed'
    BY <1>12, <1>13 DEF Typed
<1> QED
    BY <1>1, <1>2, <1>5, <1>7, <1>8, <1>9, <1>10, <1>11

(* A load that waits for a decryption is answered. *)
Answer(p, m, r) ==
    IF pass[p].pc = "gapWait" THEN LoadValue(m, r) ELSE IF r = "plain" THEN "plain" ELSE "none"

LEMMA PassesAnswered ==
    ASSUME Typed, NEW m \in Messages, NEW r \in {"plain", "pending", "undec"},
           pass' = [p \in Passes |-> Answered(p, m, r)]
    PROVE  /\ Typed'
           /\ \A p \in Passes :
                 IF AwaitedBy(p, m)
                 THEN /\ pass'[p].kind = "load" /\ pass'[p].todo = pass[p].todo
                      /\ pass'[p].gap = pass[p].gap /\ pass'[p].tries = pass[p].tries
                      /\ pass'[p].shown = pass[p].shown
                      /\ pass'[p].pc = IF pass[p].pc = "gapWait" THEN "gapStore" ELSE "orphanStore"
                      /\ pass'[p].value = Answer(p, m, r)
                 ELSE pass'[p] = pass[p]
<1>1. LoadValue(m, r) \in Values /\ {"plain", "none"} \subseteq Values
    BY DEF LoadValue, Values
<1> SUFFICES ASSUME NEW p \in Passes
             PROVE  /\ pass'[p] \in Pass
                    /\ IF AwaitedBy(p, m)
                       THEN /\ pass'[p].kind = "load" /\ pass'[p].todo = pass[p].todo
                            /\ pass'[p].gap = pass[p].gap /\ pass'[p].tries = pass[p].tries
                            /\ pass'[p].shown = pass[p].shown
                            /\ pass'[p].pc = IF pass[p].pc = "gapWait" THEN "gapStore"
                                             ELSE "orphanStore"
                            /\ pass'[p].value = Answer(p, m, r)
                       ELSE pass'[p] = pass[p]
    BY DEF Typed
<1>2. pass'[p] = Answered(p, m, r)
    OBVIOUS
<1>3. PICK a \in Pass : a = pass[p]
    BY DEF Typed
<1>4. CASE ~AwaitedBy(p, m)
    <2>1. Answered(p, m, r) = pass[p]
        BY <1>4 DEF AwaitedBy, Answered, At
    <2> QED
        BY <1>2, <1>3, <1>4, <2>1
<1>5. CASE AwaitedBy(p, m)
    <2>1. PICK v \in Values : v = Answer(p, m, r)
        BY <1>1 DEF Answer
    <2>2. PICK x : x = [a EXCEPT !.pc = IF a.pc = "gapWait" THEN "gapStore" ELSE "orphanStore",
                                 !.value = v]
        OBVIOUS
    <2>3. x \in Pass
        BY ZenonT(60), <1>3, <2>1, <2>2 DEF Pass, Pcs
    <2>4. /\ x.pc = IF a.pc = "gapWait" THEN "gapStore" ELSE "orphanStore"
          /\ x.kind = a.kind /\ x.todo = a.todo /\ x.gap = a.gap
          /\ x.tries = a.tries /\ x.value = v /\ x.shown = a.shown
        BY <1>3, <2>2 DEF Pass
    <2>5. Answered(p, m, r) = x
        <3>1. CASE a.pc = "gapWait"
            BY <1>3, <1>5, <2>1, <2>2, <3>1 DEF AwaitedBy, Answered, Answer, At
        <3>2. CASE a.pc = "orphanWait"
            BY <1>3, <1>5, <2>1, <2>2, <3>2 DEF AwaitedBy, Answered, Answer, At
        <3> QED
            BY <1>3, <1>5, <3>1, <3>2 DEF AwaitedBy
    <2> QED
        BY <1>2, <1>3, <1>5, <2>1, <2>3, <2>4, <2>5 DEF AwaitedBy
<1> QED
    BY <1>4, <1>5


(* A catch-up starts the replay that it awaits. *)
EntersReplay(p, m) ==
    pass' = [pass EXCEPT ![p] = [NoPass EXCEPT !.kind = "replay", !.pc = "next",
                !.todo = {n \in Messages : queue[n] # None}, !.tries = queue, !.caller = m]]

LEMMA ReplayEntered ==
    ASSUME Typed, queue \in [Messages -> Int], NEW p \in Passes, NEW m \in Messages,
           EntersReplay(p, m)
    PROVE  /\ Typed' /\ Others(p)
           /\ pass'[p].pc = "next" /\ pass'[p].kind = "replay"
           /\ pass'[p].todo = {n \in Messages : queue[n] # None} /\ pass'[p].tries = queue
           /\ pass'[p].value = "none" /\ pass'[p].shown = NoValues
<1>1. "next" \in Pcs /\ NoValues \in [Messages -> Values] /\ "none" \in Values
    BY DEF Pcs, NoValues, Values
<1>2. PICK S \in SUBSET Messages : S = {n \in Messages : queue[n] # None}
    OBVIOUS
<1>3. PICK x : x = [NoPass EXCEPT !.kind = "replay", !.pc = "next", !.todo = S,
                                  !.tries = queue, !.caller = m]
    OBVIOUS
<1>4. x = Entrance("replay", "next", S, queue, m)
    BY <1>3 DEF Entrance, NoPass
<1>5. /\ x \in Pass /\ x.pc = "next" /\ x.kind = "replay" /\ x.value = "none"
      /\ x.todo = S /\ x.tries = queue /\ x.shown = NoValues
    BY <1>1, <1>4 DEF Entrance, Pass
<1>6. pass' = [pass EXCEPT ![p] = x]
    BY <1>2, <1>3 DEF EntersReplay
<1>7. Typed' /\ Others(p) /\ pass'[p] = x
    BY <1>5, <1>6, Changed
<1> QED
    BY <1>2, <1>5, <1>7

-----------------------------------------------------------------------------
(* The types are preserved. *)

LEMMA TypeInit == Init => TypeInv
<1> SUFFICES ASSUME Init PROVE TypeInv
    OBVIOUS
<1>1. NoPass \in Pass /\ Shape(NoPass)
    BY NoPassIsPass DEF Shape, NoPass, Waiting, Storing
<1>2. PassesOK
    BY <1>1 DEF Init, PassesOK
<1>3. CallersOK
    BY DEF Init, CallersOK, NoDecryption, NoValues, Values, Stages, None
<1>4. StoredOK
    BY DEF Init, StoredOK, NoValues, Values, NoTries, None
<1>5. GroupOK
    <2>1. group \in [base : Int, epoch : Int]
        BY DEF Init, NoGroup, None
    <2>2. head \in 0 .. LastEpoch
        BY DEF Init, LastEpoch
    <2> QED
        BY <2>1, <2>2 DEF Init, GroupOK, HasGroup
<1> QED
    BY <1>2, <1>3, <1>4, <1>5 DEF TypeInv

Verdicts == {"unready", "ahead", "old", "past", "plain"}

LEMMA VerdictIs ==
    ASSUME GroupOK, NEW m \in Messages
    PROVE  /\ Verdict(m) \in Verdicts
           /\ Verdict(m) = "plain" => HasGroup /\ m \notin used
           /\ Verdict(m) = "past" => m \in used
           /\ Verdict(m) = "unready" <=> ~HasGroup
           /\ HasGroup /\ EpochOf[m] = group.epoch /\ EpochOf[m] = group.base
                  => Verdict(m) \in {"past", "plain"}
<1>1. EpochOf[m] \in Int /\ group.base \in Int /\ group.epoch \in Int
    BY DEF GroupOK, EpochOf
<1>2. PICK e \in Int, b \in Int, h \in Int : e = EpochOf[m] /\ b = group.base /\ h = group.epoch
    BY <1>1
<1> QED
    BY <1>2 DEF Verdict, Verdicts

LEMMA FatalIs ==
    ASSUME GroupOK, NEW v \in Verdicts
    PROVE  Fatal(v) \in BOOLEAN /\ ~Fatal("unready")
BY DEF Fatal, Verdicts, GroupOK

LEMMA Consumed ==
    ASSUME GroupOK, StoredOK, NEW m \in Messages, Consume(m)
    PROVE  used' \subseteq Messages
BY DEF Consume, StoredOK

LEMMA DeliverTypes ==
    ASSUME TypeInv, NEW m \in Messages, NEW r \in {"plain", "pending", "undec"}, Deliver(m, r)
    PROVE  /\ decryption' \in [Messages -> [pc : Stages, fatal : BOOLEAN, tries : Int]]
           /\ reader' \in [Messages -> {"idle", "exists", "wait", "plain", "undec", "blank"}]
           /\ notifier' \in [Messages -> {"idle", "wait", "plain"}]
           /\ echo' \in [Messages -> Values]
           /\ PassesOK'
<1>1. ReaderValue(m, r) \in {"idle", "plain", "undec", "blank"}
    BY DEF ReaderValue
<1>2. NoDecryption \in [pc : Stages, fatal : BOOLEAN, tries : Int]
    BY DEF NoDecryption, Stages, None
<1>3. /\ decryption' \in [Messages -> [pc : Stages, fatal : BOOLEAN, tries : Int]]
      /\ reader' \in [Messages -> {"idle", "exists", "wait", "plain", "undec", "blank"}]
      /\ notifier' \in [Messages -> {"idle", "wait", "plain"}]
      /\ echo' \in [Messages -> Values]
    BY <1>1, <1>2 DEF Deliver, TypeInv, CallersOK
<1>4. Typed /\ \A p \in Passes : Shape(pass[p])
    BY DEF TypeInv, PassesOK, Typed
<1>5. /\ Typed'
      /\ \A p \in Passes :
             IF AwaitedBy(p, m)
             THEN /\ pass'[p].kind = "load" /\ pass'[p].todo = pass[p].todo
                  /\ pass'[p].pc = IF pass[p].pc = "gapWait" THEN "gapStore" ELSE "orphanStore"
                  /\ pass'[p].value = Answer(p, m, r)
             ELSE pass'[p] = pass[p]
    BY <1>4, PassesAnswered DEF Deliver
<1>6. ASSUME NEW p \in Passes PROVE Shape(pass'[p])
    <2>1. CASE ~AwaitedBy(p, m)
        BY <1>4, <1>5, <2>1
    <2>2. CASE AwaitedBy(p, m)
        <3>1. pass[p].todo # {} /\ (pass[p].pc # "gapWait" => Answer(p, m, r) \in {"none", "plain"})
            BY <1>4, <2>2 DEF Shape, AwaitedBy, Waiting, Answer
        <3> QED
            BY <1>5, <2>2, <3>1 DEF Shape, Waiting, Storing
    <2> QED
        BY <2>1, <2>2
<1> QED
    BY <1>3, <1>5, <1>6 DEF Typed, PassesOK

LEMMA TypeDecrypt ==
    ASSUME TypeInv, NEW m \in Messages, Decrypt(m)
    PROVE  TypeInv'
<1>1. Verdict(m) \in Verdicts /\ Fatal(Verdict(m)) \in BOOLEAN /\ caughtUp \in BOOLEAN
    BY VerdictIs, FatalIs DEF TypeInv, GroupOK
<1>2. Typed /\ UNCHANGED <<use, head>>
    BY DEF TypeInv, PassesOK, Typed, Decrypt, DecryptTry, DecryptCatchUp, DecryptAgain,
        DecryptHeal, DecryptHealed, DecryptVerdict, DecryptEnqueue
<1>3. GroupOK'
    <2>1. group \in [base : Int, epoch : Int] /\ head \in Int
        BY DEF TypeInv, GroupOK, LastEpoch
    <2>2. /\ group' \in [base : Int, epoch : Int]
          /\ caughtUp' \in BOOLEAN /\ failed' \in BOOLEAN /\ invited' \in BOOLEAN
        <3>1. CASE DecryptCatchUp(m)
            BY <2>1, <3>1 DEF TypeInv, GroupOK, DecryptCatchUp
        <3>2. CASE DecryptHeal(m)
            <4>1. \/ group' = [base |-> head, epoch |-> head]
                  \/ group' = group
                BY <3>2 DEF DecryptHeal
            <4>2. group' \in [base : Int, epoch : Int]
                BY <2>1, <4>1
            <4>3. (invited' = FALSE \/ invited' = invited) /\ caughtUp' = caughtUp /\ failed' = failed
                BY <3>2 DEF DecryptHeal
            <4> QED
                BY <4>2, <4>3 DEF TypeInv, GroupOK
        <3>3. CASE DecryptTry(m) \/ DecryptAgain(m) \/ DecryptHealed(m) \/ DecryptVerdict(m)
                   \/ DecryptEnqueue(m)
            BY <1>1, <2>1, <3>3 DEF TypeInv, GroupOK, DecryptTry, DecryptAgain, DecryptHealed,
                DecryptVerdict, DecryptEnqueue, stored
        <3> QED
            BY <3>1, <3>2, <3>3 DEF Decrypt
    <2> QED
        BY <1>2, <2>2 DEF TypeInv, GroupOK, LastEpoch
<1>4. StoredOK'
    <2>1. used' \subseteq Messages
        BY Consumed DEF TypeInv, StoredOK, Decrypt, DecryptTry, DecryptCatchUp, DecryptAgain,
            DecryptHeal, DecryptHealed, DecryptVerdict, DecryptEnqueue, stored
    <2>2. queue' \in [Messages -> Int] /\ UNCHANGED cache
        <3>1. CASE DecryptEnqueue(m)
            <4>1. decryption[m].tries \in Int /\ queue \in [Messages -> Int]
                BY DEF TypeInv, StoredOK, CallersOK
            <4> DEFINE n == IF decryption[m].tries = None THEN 0 ELSE decryption[m].tries
            <4>2. n \in Int
                BY <4>1
            <4>3. queue' = [queue EXCEPT ![m] = n] /\ UNCHANGED cache
                BY <3>1 DEF DecryptEnqueue, Enqueue
            <4> QED
                BY <4>1, <4>2, <4>3
        <3>2. CASE ~DecryptEnqueue(m)
            BY <3>2 DEF TypeInv, StoredOK, Decrypt, DecryptTry, DecryptCatchUp, DecryptAgain,
                DecryptHeal, DecryptHealed, DecryptVerdict, stored
        <3> QED
            BY <3>1, <3>2
    <2> QED
        BY <2>1, <2>2 DEF TypeInv, StoredOK
<1>5. CASE \E r \in {"plain", "pending", "undec"} : Deliver(m, r)
    <2>1. UNCHANGED <<known, arrived>>
        BY DEF Decrypt, DecryptTry, DecryptCatchUp, DecryptAgain, DecryptHeal, DecryptHealed,
            DecryptVerdict, DecryptEnqueue
    <2>2. PICK r \in {"plain", "pending", "undec"} : Deliver(m, r)
        BY <1>5
    <2>3. CallersOK' /\ PassesOK'
        BY <2>1, <2>2, DeliverTypes DEF TypeInv, CallersOK
    <2> QED
        BY <1>3, <1>4, <2>3 DEF TypeInv
<1>6. CASE ~(\E r \in {"plain", "pending", "undec"} : Deliver(m, r))
    <2>1. /\ decryption' \in [Messages -> [pc : Stages, fatal : BOOLEAN, tries : Int]]
          /\ UNCHANGED <<reader, notifier, echo, known, arrived>>
        <3>1. CASE DecryptTry(m) \/ DecryptAgain(m) \/ DecryptHealed(m)
            BY <1>1, <1>6, <3>1 DEF TypeInv, CallersOK, Stages, DecryptTry, DecryptAgain,
                DecryptHealed, Proceed, callers
        <3>2. CASE DecryptCatchUp(m) \/ DecryptHeal(m)
            <4>1. /\ \/ \E pc \in Stages : decryption' = [decryption EXCEPT ![m].pc = pc]
                     \/ decryption' = [decryption EXCEPT ![m].pc = "heal", ![m].fatal = caughtUp]
                  /\ UNCHANGED <<reader, notifier, echo, known, arrived>>
                BY <3>2 DEF DecryptCatchUp, DecryptHeal, Proceed, callers, Stages
            <4> QED
                BY <1>1, <4>1 DEF TypeInv, CallersOK, Stages
        <3>3. CASE DecryptVerdict(m) \/ DecryptEnqueue(m)
            BY <1>6, <3>3 DEF TypeInv, CallersOK, StoredOK, Stages, DecryptVerdict,
                DecryptEnqueue, callers
        <3> QED
            BY <3>1, <3>2, <3>3 DEF Decrypt
    <2>2. PassesOK'
        <3>1. CASE UNCHANGED pass
            BY <3>1 DEF TypeInv, PassesOK
        <3>2. CASE ~UNCHANGED pass
            <4>1. PICK p \in Passes : EntersReplay(p, m)
                BY <1>6, <3>2 DEF Decrypt, DecryptTry, DecryptCatchUp, DecryptAgain, DecryptHeal,
                    DecryptHealed, DecryptVerdict, DecryptEnqueue, callers, EntersReplay
            <4>2. /\ Typed' /\ Others(p) /\ pass'[p].pc = "next" /\ pass'[p].kind = "replay"
                  /\ pass'[p].value = "none"
                BY <1>2, <4>1, ReplayEntered DEF TypeInv, StoredOK
            <4> QED
                BY <4>2 DEF TypeInv, PassesOK, Typed, Others, Shape, Waiting, Storing
        <3> QED
            BY <3>1, <3>2
    <2> QED
        BY <1>3, <1>4, <2>1, <2>2 DEF TypeInv, CallersOK
<1> QED
    BY <1>5, <1>6

LEMMA Asked ==
    ASSUME CallersOK, NEW m \in Messages, Ask(m)
    PROVE  /\ decryption' \in [Messages -> [pc : Stages, fatal : BOOLEAN, tries : Int]]
           /\ \A n \in Messages \ {m} : decryption'[n] = decryption[n]
           /\ decryption[m] # NoDecryption => decryption'[m] = decryption[m]
           /\ decryption[m] = NoDecryption
                  => decryption'[m].pc = "try" /\ decryption'[m].tries = None
<1>4. NoDecryption \in [pc : Stages, fatal : BOOLEAN, tries : Int] /\ NoDecryption.tries = None
    BY DEF NoDecryption, Stages, None
<1>0. PICK r \in [pc : Stages, fatal : BOOLEAN, tries : Int] : r = NoDecryption /\ r.tries = None
    BY <1>4
<1>1. PICK x : x = [r EXCEPT !.pc = "try"]
    OBVIOUS
<1>2. /\ x \in [pc : Stages, fatal : BOOLEAN, tries : Int]
      /\ x.pc = "try" /\ x.tries = None
    BY <1>0, <1>1 DEF Stages
<1>3. decryption' = IF decryption[m] = NoDecryption THEN [decryption EXCEPT ![m] = x]
                    ELSE decryption
    BY <1>0, <1>1 DEF Ask
<1> QED
    BY <1>2, <1>3 DEF CallersOK

LEMMA TypeHandle ==
    ASSUME TypeInv, NEW m \in Messages, SocketEvent(m) \/ LoseEvent(m) \/ Handle(m)
    PROVE  TypeInv'
<1>1. UNCHANGED <<use, head, group, used, invited, queue, caughtUp, failed, pass>>
    BY DEF SocketEvent, LoseEvent, Handle, ReaderChecks, ReaderStores, NotifierStores, EchoStores
<1>2. GroupOK' /\ PassesOK'
    BY <1>1 DEF TypeInv, GroupOK, PassesOK, LastEpoch
<1>3. cache' \in [Messages -> Values]
    BY DEF SocketEvent, LoseEvent, Handle, ReaderChecks, ReaderStores, NotifierStores, EchoStores,
        Store, Values, TypeInv, StoredOK, CallersOK
<1>4. decryption' \in [Messages -> [pc : Stages, fatal : BOOLEAN, tries : Int]]
    <2>1. decryption' = decryption \/ Ask(m)
        <3>1. SocketEvent(m) => decryption' = decryption \/ Ask(m)
            BY DEF SocketEvent
        <3>2. ReaderChecks(m) => decryption' = decryption \/ Ask(m)
            BY DEF ReaderChecks
        <3>3. LoseEvent(m) \/ ReaderStores(m) \/ NotifierStores(m) \/ EchoStores(m)
                  => decryption' = decryption
            BY DEF LoseEvent, ReaderStores, NotifierStores, EchoStores
        <3> QED
            BY <3>1, <3>2, <3>3 DEF Handle
    <2> QED
        BY <2>1, Asked DEF TypeInv, CallersOK
<1>6. /\ reader' \in [Messages -> {"idle", "exists", "wait", "plain", "undec", "blank"}]
    BY DEF SocketEvent, LoseEvent, Handle, ReaderChecks, ReaderStores, NotifierStores, EchoStores,
        TypeInv, CallersOK
<1>5. /\ notifier' \in [Messages -> {"idle", "wait", "plain"}]
      /\ echo' \in [Messages -> Values]
      /\ known' \subseteq Messages /\ arrived' \subseteq Messages
    <2>1. /\ \/ notifier' = notifier
             \/ \E v \in {"idle", "wait"} : notifier' = [notifier EXCEPT ![m] = v]
          /\ echo' = echo \/ echo' = [echo EXCEPT ![m] = "none"]
        BY DEF SocketEvent, LoseEvent, Handle, ReaderChecks, ReaderStores, NotifierStores, EchoStores
    <2>2. /\ known' \subseteq known \cup {m} /\ arrived' \subseteq arrived \cup {m}
        BY DEF SocketEvent, LoseEvent, Handle, ReaderChecks, ReaderStores, NotifierStores, EchoStores
    <2> QED
        BY <2>1, <2>2 DEF Values, TypeInv, CallersOK
<1> QED
    BY <1>1, <1>2, <1>3, <1>4, <1>5, <1>6 DEF TypeInv, StoredOK, CallersOK

LEMMA PassKeeps ==
    ASSUME PassesOK, NEW p \in Passes, Typed', Others(p), Shape(pass'[p])
    PROVE  PassesOK'
BY DEF PassesOK, Typed, Others

(* Enter, for any kind of pass. *)
LEMMA Begun ==
    ASSUME Typed, queue \in [Messages -> Int], NEW p \in Passes,
           NEW k \in {"load", "replay", "retry", "clear"},
           NEW pc \in Pcs, NEW S \in SUBSET Messages, Enter(p, k, pc, S)
    PROVE  /\ Typed' /\ Others(p)
           /\ pass'[p].pc = pc /\ pass'[p].kind = k /\ pass'[p].todo = S
           /\ pass'[p].gap = {} /\ pass'[p].tries = queue
           /\ pass'[p].value = "none" /\ pass'[p].shown = NoValues
<1>1. PICK x : x = [NoPass EXCEPT !.kind = k, !.pc = pc, !.todo = S, !.tries = queue]
    OBVIOUS
<1>2. x = Entrance(k, pc, S, queue, 0)
    BY <1>1 DEF Entrance, NoPass
<1>3. NoValues \in [Messages -> Values] /\ "none" \in Values
    BY DEF NoValues, Values
<1>4. /\ x \in Pass /\ x.pc = pc /\ x.kind = k /\ x.todo = S /\ x.gap = {} /\ x.tries = queue
      /\ x.value = "none" /\ x.shown = NoValues
    BY <1>2, <1>3 DEF Entrance, Pass
<1>5. pass' = [pass EXCEPT ![p] = x]
    BY <1>1 DEF Enter
<1>6. Typed' /\ Others(p) /\ pass'[p] = x
    BY <1>4, <1>5, Changed
<1> QED
    BY <1>4, <1>6

Begins(p) == LoadBegins(p) \/ ReplayBegins(p) \/ RetryBegins(p) \/ ClearBegins(p)

LEMMA Beginnings ==
    ASSUME TypeInv, NEW p \in Passes, Begins(p)
    PROVE  /\ Typed' /\ Others(p)
           /\ Idle(p) /\ MayBegin /\ pass'[p].kind \in use.kinds
           /\ pass'[p].gap = {} /\ pass'[p].tries = queue
           /\ pass'[p].value = "none" /\ pass'[p].shown = NoValues
           /\ \/ LoadBegins(p) /\ pass'[p].kind = "load" /\ pass'[p].pc = "ids"
                 /\ pass'[p].todo = Orphans
              \/ ReplayBegins(p) /\ pass'[p].kind = "replay" /\ pass'[p].pc = "next"
                 /\ pass'[p].todo = {m \in Messages : queue[m] # None}
              \/ RetryBegins(p) /\ pass'[p].kind = "retry" /\ pass'[p].pc = "next"
                 /\ pass'[p].todo = {m \in Messages : cache[m] = "undec"}
              \/ ClearBegins(p) /\ pass'[p].kind = "clear" /\ pass'[p].pc = "sweep"
                 /\ pass'[p].todo = {m \in Sent : cache[m] = "none"}
           /\ UNCHANGED <<use, head, group, used, invited, queue, cache, caughtUp, failed, arrived,
                          decryption, reader, notifier, echo>>
           /\ (known' \in {{}, known})
<1>1. Typed /\ queue \in [Messages -> Int]
    BY DEF TypeInv, PassesOK, Typed, StoredOK
<1>2. Sent \subseteq Messages
    BY DEF Sent, TypeInv, GroupOK
<1>3. PICK k \in {"load", "replay", "retry", "clear"}, pc \in {"ids", "next", "sweep"},
          S \in SUBSET Messages :
          /\ Enter(p, k, pc, S)
          /\ \/ LoadBegins(p) /\ k = "load" /\ pc = "ids" /\ S = Orphans
             \/ ReplayBegins(p) /\ k = "replay" /\ pc = "next" /\ S = {m \in Messages : queue[m] # None}
             \/ RetryBegins(p) /\ k = "retry" /\ pc = "next" /\ S = {m \in Messages : cache[m] = "undec"}
             \/ ClearBegins(p) /\ k = "clear" /\ pc = "sweep" /\ S = {m \in Sent : cache[m] = "none"}
    <2>1. CASE LoadBegins(p)
        BY <2>1 DEF LoadBegins, Orphans
    <2>2. CASE ReplayBegins(p)
        BY <2>2 DEF ReplayBegins, Begin
    <2>3. CASE RetryBegins(p)
        BY <2>3 DEF RetryBegins, Begin
    <2>4. CASE ClearBegins(p)
        BY <1>2, <2>4 DEF ClearBegins, Begin
    <2> QED
        BY <2>1, <2>2, <2>3, <2>4 DEF Begins
<1>4. pc \in Pcs
    BY DEF Pcs
<1>5. /\ Typed' /\ Others(p)
      /\ pass'[p].pc = pc /\ pass'[p].kind = k /\ pass'[p].todo = S
      /\ pass'[p].gap = {} /\ pass'[p].tries = queue
      /\ pass'[p].value = "none" /\ pass'[p].shown = NoValues
    BY <1>1, <1>3, <1>4, Begun
<1>6. Idle(p) /\ MayBegin /\ k \in use.kinds
    BY <1>3 DEF Enter
<1>7. /\ UNCHANGED <<use, head, group, used, invited, queue, cache, caughtUp, failed, arrived,
                     decryption, reader, notifier, echo>>
      /\ (known' \in {{}, known})
    BY DEF Begins, LoadBegins, ReplayBegins, RetryBegins, ClearBegins, Begin, Remain
<1> QED
    BY <1>3, <1>5, <1>6, <1>7

LEMMA TypeBegins ==
    ASSUME TypeInv, NEW p \in Passes, Begins(p)
    PROVE  TypeInv'
<1>1. /\ Typed' /\ Others(p) /\ pass'[p].pc \in {"ids", "next", "sweep"}
      /\ pass'[p].value = "none" /\ pass'[p].kind \in {"load", "replay", "retry", "clear"}
      /\ UNCHANGED <<use, head, group, used, invited, queue, cache, caughtUp, failed, arrived,
                     decryption, reader, notifier, echo>>
      /\ known' \subseteq known
    BY Beginnings
<1>2. Shape(pass'[p])
    BY <1>1 DEF Shape, Waiting, Storing
<1>3. PassesOK'
    BY <1>1, <1>2, PassKeeps DEF TypeInv
<1> QED
    BY <1>1, <1>3 DEF TypeInv, GroupOK, StoredOK, CallersOK, LastEpoch

(* The steps of a pass, by what they do to it. *)
Turns(p, pc) == /\ pass'[p].pc = pc /\ pass'[p].kind = pass[p].kind /\ pass'[p].todo = pass[p].todo
                /\ pass'[p].gap = pass[p].gap /\ pass'[p].tries = pass[p].tries
                /\ pass'[p].value = pass[p].value /\ pass'[p].shown = pass[p].shown
Drops(p, pc) == /\ pass'[p].pc = pc /\ pass'[p].kind = pass[p].kind
                /\ pass'[p].todo = pass[p].todo \ {Current(p)}
                /\ pass'[p].gap = pass[p].gap /\ pass'[p].tries = pass[p].tries
                /\ pass'[p].value = "none" /\ pass'[p].shown = pass[p].shown
Takes(p, pc, v) == /\ pass'[p].pc = pc /\ pass'[p].kind = pass[p].kind
                   /\ pass'[p].todo = pass[p].todo
                   /\ pass'[p].gap = pass[p].gap /\ pass'[p].tries = pass[p].tries
                   /\ pass'[p].value = v /\ pass'[p].shown = pass[p].shown

Asking(p) == /\ \/ At(p, "load", "orphan") /\ Turns(p, "orphanWait")
                \/ At(p, "load", "gap") /\ Turns(p, "gapWait")
             /\ pass[p].todo # {}
Filling(p) == \/ At(p, "load", "orphanStore") /\ Drops(p, "orphan")
              \/ At(p, "load", "gapStore") /\ Drops(p, "gap")

LEMMA LoadSteps ==
    ASSUME Typed, GroupOK, NEW p \in Passes, Load(p)
    PROVE  /\ Typed' /\ Others(p)
           /\ UNCHANGED <<use, head, group, used, invited, queue, caughtUp, failed, arrived,
                          reader, notifier, echo>>
           /\ \/ /\ LoadIds(p) /\ pass'[p].pc = "orphan" /\ pass'[p].kind = pass[p].kind
                 /\ pass'[p].todo = pass[p].todo /\ pass'[p].gap = {m \in Sent : cache[m] = "none"}
                 /\ pass'[p].tries = pass[p].tries
                 /\ pass'[p].value = pass[p].value /\ pass'[p].shown = pass[p].shown
              \/ /\ LoadMissing(p) /\ pass'[p].pc = "gap" /\ pass'[p].kind = pass[p].kind
                 /\ pass'[p].todo = pass[p].gap \ known /\ pass'[p].gap = pass[p].gap
                 /\ pass'[p].tries = pass[p].tries
                 /\ pass'[p].value = pass[p].value /\ pass'[p].shown = pass[p].shown
              \/ LoadAsks(p) /\ Asking(p)
              \/ LoadStores(p) /\ Filling(p)
<1>0. {"ids", "orphan", "gap", "orphanWait", "gapWait", "orphanStore", "gapStore"} \subseteq Pcs
    BY DEF Pcs
<1>1. UNCHANGED <<use, head, group, used, invited, queue, caughtUp, failed, arrived,
                  reader, notifier, echo>>
    BY DEF Load, LoadIds, LoadMissing, LoadAsks, LoadStores, Remain
<1>2. CASE LoadIds(p)
    <2>1. PICK S \in SUBSET Messages : S = {m \in Sent : cache[m] = "none"}
        BY DEF Sent, GroupOK
    <2>2. "orphan" \in Pcs /\ SetsGap(p, "orphan", S)
        BY <1>0, <1>2, <2>1 DEF LoadIds, SetsGap
    <2> QED
        BY <1>1, <1>2, <2>1, <2>2, Gapped
<1>3. CASE LoadMissing(p)
    <2>1. PICK S \in SUBSET Messages : S = pass[p].gap \ known
        BY OwnFields
    <2>2. "gap" \in Pcs /\ SetsTodo(p, "gap", S)
        BY <1>0, <1>3, <2>1 DEF LoadMissing, SetsTodo
    <2> QED
        BY <1>1, <1>3, <2>1, <2>2, Listed
<1>4. CASE LoadAsks(p)
    BY <1>0, <1>1, <1>4, Turned DEF LoadAsks, Asking, Turns
<1>5. CASE LoadStores(p)
    BY <1>0, <1>1, <1>5, Dropped DEF LoadStores, Filling, Drops
<1> QED
    BY <1>2, <1>3, <1>4, <1>5 DEF Load

LEMMA ReplaySteps ==
    ASSUME Typed, GroupOK, NEW p \in Passes, Replay(p), pass[p].todo # {}
    PROVE  /\ Typed' /\ Others(p)
           /\ UNCHANGED <<use, head, group, invited, caughtUp, failed, arrived, known,
                          decryption, reader, notifier, echo>>
           /\ \/ ReplayChecks(p) /\ (Turns(p, "decrypt") \/ Drops(p, "next"))
              \/ /\ ReplayDecrypts(p)
                 /\ \/ /\ Verdict(Current(p)) = "plain" \/ BudgetExhausted(p) \/ Fatal(Verdict(Current(p)))
                       /\ Takes(p, "store", IF Verdict(Current(p)) = "plain" THEN "plain" ELSE "undec")
                    \/ /\ Verdict(Current(p)) # "plain"
                       /\ \/ Ready /\ Turns(p, "mark")
                          \/ Drops(p, "next")
              \/ ReplayMarks(p) /\ Drops(p, "next")
              \/ /\ ReplayStores(p) /\ pass'[p].pc = "remove" /\ pass'[p].kind = pass[p].kind
                 /\ pass'[p].todo = pass[p].todo /\ pass'[p].tries = pass[p].tries
                 /\ pass'[p].value = pass[p].value
                 /\ pass'[p].shown = [pass[p].shown EXCEPT ![Current(p)] = pass[p].value]
              \/ ReplayRemoves(p) /\ Drops(p, "next")
<1>0. {"next", "decrypt", "mark", "store", "remove"} \subseteq Pcs
    BY DEF Pcs
<1>1. UNCHANGED <<use, head, group, invited, caughtUp, failed, arrived, known,
                  decryption, reader, notifier, echo>>
    BY DEF Replay, ReplayChecks, ReplayDecrypts, ReplayMarks, ReplayStores, ReplayRemoves, Remain
<1>2. CASE ReplayChecks(p)
    BY <1>0, <1>1, <1>2, Turned, Dropped DEF ReplayChecks, Turns, Drops
<1>3. CASE ReplayDecrypts(p)
    <2>1. {"plain", "undec"} \subseteq Values
        BY DEF Values
    <2>2. CASE Verdict(Current(p)) = "plain" \/ BudgetExhausted(p) \/ Fatal(Verdict(Current(p)))
        <3>1. PICK v \in Values : v = IF Verdict(Current(p)) = "plain" THEN "plain" ELSE "undec"
            BY <2>1
        <3>2. SetsValue(p, "store", v)
            BY <1>3, <2>2, <3>1 DEF ReplayDecrypts, SetsValue
        <3>4. "store" \in Pcs
            BY <1>0
        <3>3. Typed' /\ Others(p) /\ Takes(p, "store", v)
            BY <3>2, <3>4, Valued DEF Takes
        <3> QED
            BY <1>1, <1>3, <2>2, <3>1, <3>3
    <2>3. CASE ~(Verdict(Current(p)) = "plain" \/ BudgetExhausted(p) \/ Fatal(Verdict(Current(p))))
        <3>1. IF Ready THEN Turn(p, "mark") ELSE Drop(p, "next")
            BY <1>3, <2>3 DEF ReplayDecrypts
        <3> QED
            BY <1>0, <1>1, <1>3, <2>3, <3>1, Turned, Dropped DEF Turns, Drops
    <2> QED
        BY <2>2, <2>3
<1>4. CASE ReplayMarks(p)
    BY <1>0, <1>1, <1>4, Dropped DEF ReplayMarks, Drops
<1>5. CASE ReplayStores(p)
    <2>1. Current(p) \in Messages
        BY CurrentIsIn
    <2>2. PICK v \in Values : v = pass[p].value
        BY OwnFields
    <2>3. pass' = [pass EXCEPT ![p].pc = "remove", ![p].shown[Current(p)] = v]
        BY <1>5, <2>2 DEF ReplayStores
    <2>4. PICK c \in Messages : c = Current(p)
        BY <2>1
    <2>5. StoresHere(p, c, v)
        BY <2>3, <2>4 DEF StoresHere
    <2> QED
        BY <1>1, <1>5, <2>2, <2>4, <2>5, StoredHere
<1>6. CASE ReplayRemoves(p)
    BY <1>0, <1>1, <1>6, Dropped DEF ReplayRemoves, Drops
<1> QED
    BY <1>2, <1>3, <1>4, <1>5, <1>6 DEF Replay

LEMMA RetrySteps ==
    ASSUME Typed, GroupOK, NEW p \in Passes, Retry(p), pass[p].todo # {}
    PROVE  /\ Typed' /\ Others(p)
           /\ UNCHANGED <<use, head, group, invited, queue, caughtUp, failed, arrived, known,
                          decryption, reader, notifier, echo>>
           /\ \/ RetryFetches(p) /\ (Turns(p, "decrypt") \/ Drops(p, "next"))
              \/ /\ RetryDecrypts(p)
                 /\ \/ Verdict(Current(p)) = "plain" /\ Takes(p, "store", "plain")
                    \/ Verdict(Current(p)) # "plain" /\ Drops(p, "next")
              \/ /\ RetryStores(p) /\ pass'[p].pc = "next" /\ pass'[p].kind = pass[p].kind
                 /\ pass'[p].todo = pass[p].todo \ {Current(p)} /\ pass'[p].tries = pass[p].tries
                 /\ pass'[p].value = "none"
                 /\ pass'[p].shown = [pass[p].shown EXCEPT ![Current(p)] = "plain"]
<1>0. "next" \in Pcs /\ "decrypt" \in Pcs /\ "store" \in Pcs /\ "plain" \in Values
    BY DEF Pcs, Values
<1>1. UNCHANGED <<use, head, group, invited, queue, caughtUp, failed, arrived, known,
                  decryption, reader, notifier, echo>>
    BY DEF Retry, RetryFetches, RetryDecrypts, RetryStores, Remain
<1>2. CASE RetryFetches(p)
    BY <1>0, <1>1, <1>2, Turned, Dropped DEF RetryFetches, Turns, Drops
<1>3. CASE RetryDecrypts(p)
    <2>1. CASE Verdict(Current(p)) = "plain"
        <3>1. SetsValue(p, "store", "plain")
            BY <1>3, <2>1 DEF RetryDecrypts, SetsValue
        <3>2. Typed' /\ Others(p) /\ Takes(p, "store", "plain")
            BY <1>0, <3>1, Valued DEF Takes
        <3> QED
            BY <1>1, <1>3, <2>1, <3>2
    <2>2. CASE Verdict(Current(p)) # "plain"
        <3>1. Drop(p, "next")
            BY <1>3, <2>2 DEF RetryDecrypts
        <3> QED
            BY <1>0, <1>1, <1>3, <2>2, <3>1, Dropped DEF Drops
    <2> QED
        BY <2>1, <2>2
<1>4. CASE RetryStores(p)
    <2>1. PICK c \in Messages : c = Current(p)
        BY CurrentIsIn
    <2>2. StoresNext(p, c, "plain")
        BY <1>4, <2>1 DEF RetryStores, StoresNext
    <2> QED
        BY <1>0, <1>1, <1>4, <2>1, <2>2, StoredNext
<1> QED
    BY <1>2, <1>3, <1>4 DEF Retry

LEMMA ClearSteps ==
    ASSUME Typed, GroupOK, NEW p \in Passes, Clear(p)
    PROVE  /\ Typed' /\ Others(p)
           /\ UNCHANGED <<use, head, invited, arrived, known, decryption, reader, notifier>>
           /\ \/ /\ SweepDecrypts(p)
                 /\ Takes(p, "sweepStore", IF Verdict(Current(p)) = "plain" THEN "plain" ELSE "undec")
              \/ SweepStores(p) /\ Drops(p, "sweep")
              \/ ClearWipes(p) /\ Turns(p, "pending")
              \/ /\ ClearReadsPending(p) /\ pass'[p].pc = "placeholders"
                 /\ pass'[p].kind = pass[p].kind /\ pass'[p].value = pass[p].value
              \/ ClearPlaceholders(p) /\ Turns(p, "drop")
              \/ ClearEnds(p) /\ pass'[p] = NoPass
<1>0. /\ "sweep" \in Pcs /\ "sweepStore" \in Pcs /\ "pending" \in Pcs /\ "placeholders" \in Pcs
      /\ "drop" \in Pcs /\ "plain" \in Values /\ "undec" \in Values
    BY DEF Pcs, Values
<1>1. UNCHANGED <<use, head, invited, arrived, known, decryption, reader, notifier>>
    BY DEF Clear, SweepDecrypts, SweepStores, ClearWipes, ClearReadsPending, ClearPlaceholders,
        ClearEnds, Remain
<1>2. CASE SweepDecrypts(p)
    <2>1. PICK v \in Values : v = IF Verdict(Current(p)) = "plain" THEN "plain" ELSE "undec"
        BY <1>0
    <2>2. SetsValue(p, "sweepStore", v)
        BY <1>2, <2>1 DEF SweepDecrypts, SetsValue
    <2>3. Typed' /\ Others(p) /\ Takes(p, "sweepStore", v)
        BY <1>0, <2>2, Valued DEF Takes
    <2> QED
        BY <1>1, <1>2, <2>1, <2>3
<1>3. CASE SweepStores(p)
    BY <1>0, <1>1, <1>3, Dropped DEF SweepStores, Drops
<1>4. CASE ClearWipes(p)
    BY <1>0, <1>1, <1>4, Turned DEF ClearWipes, Turns
<1>5. CASE ClearReadsPending(p)
    <2>1. PICK S \in SUBSET Messages : S = {m \in Messages : queue[m] # None}
        OBVIOUS
    <2>2. SetsTodo(p, "placeholders", S)
        BY <1>5, <2>1 DEF ClearReadsPending, SetsTodo
    <2> QED
        BY <1>0, <1>1, <1>5, <2>2, Listed
<1>6. CASE ClearPlaceholders(p)
    BY <1>0, <1>1, <1>6, Turned DEF ClearPlaceholders, Turns
<1>7. CASE ClearEnds(p)
    BY <1>1, <1>7, Left DEF ClearEnds
<1> QED
    BY <1>2, <1>3, <1>4, <1>5, <1>6, <1>7 DEF Clear

LEMMA TypeLoad ==
    ASSUME TypeInv, NEW p \in Passes, Load(p)
    PROVE  TypeInv'
<1>1. Typed /\ GroupOK /\ Shape(pass[p])
    BY DEF TypeInv, PassesOK, Typed
<1>2. /\ Typed' /\ Others(p)
      /\ UNCHANGED <<use, head, group, used, invited, queue, caughtUp, failed, arrived,
                     reader, notifier, echo>>
    BY <1>1, LoadSteps
<1>3. Shape(pass'[p])
    <2>1. CASE LoadIds(p) \/ LoadMissing(p)
        <3>1. pass[p].kind = "load" /\ pass[p].pc \in {"ids", "orphan"}
            BY <2>1 DEF LoadIds, LoadMissing, At
        <3>2. /\ pass'[p].pc \in {"orphan", "gap"} /\ pass'[p].kind = "load"
              /\ pass'[p].value = pass[p].value
            BY <1>1, <2>1, <3>1, LoadSteps DEF LoadIds, LoadMissing, LoadAsks, LoadStores, At
        <3> QED
            BY <1>1, <3>1, <3>2 DEF Shape, Waiting, Storing
    <2>2. CASE Asking(p) \/ Filling(p)
        BY <1>1, <2>2 DEF Asking, Filling, Turns, Drops, At, Shape, Waiting, Storing
    <2> QED
        BY <1>1, <2>1, <2>2, LoadSteps
<1>4. PassesOK'
    BY <1>2, <1>3, PassKeeps DEF TypeInv
<1>5. cache' \in [Messages -> Values]
    <2>1. pass[p].value \in Values
        BY <1>1, OwnFields
    <2> QED
        BY <2>1 DEF Load, LoadIds, LoadMissing, LoadAsks, LoadStores, Store, TypeInv, StoredOK
<1>6. decryption' \in [Messages -> [pc : Stages, fatal : BOOLEAN, tries : Int]]
    <2>1. CASE LoadAsks(p)
        BY <1>1, <2>1, CurrentIsIn, Asked DEF LoadAsks, TypeInv
    <2>2. CASE ~LoadAsks(p)
        BY <2>2 DEF Load, LoadIds, LoadMissing, LoadStores, TypeInv, CallersOK
    <2> QED
        BY <2>1, <2>2
<1>7. known' \subseteq Messages
    <2>1. pass[p].gap \subseteq Messages
        BY <1>1, OwnFields
    <2> QED
        BY <2>1 DEF Load, LoadIds, LoadMissing, LoadAsks, LoadStores, Remain, TypeInv, CallersOK
<1> QED
    BY <1>2, <1>4, <1>5, <1>6, <1>7 DEF TypeInv, GroupOK, StoredOK, CallersOK, LastEpoch

LEMMA BusyPass ==
    ASSUME Typed, NEW p \in Passes, Shape(pass[p]), Replay(p) \/ Retry(p)
    PROVE  /\ pass[p].todo # {} /\ Current(p) \in Messages /\ Current(p) \in pass[p].todo
           /\ pass[p].kind \in {"replay", "retry"}
<1>1. /\ pass[p].todo # {} /\ pass[p].kind \in {"replay", "retry"}
    BY DEF Replay, ReplayChecks, ReplayDecrypts, ReplayMarks, ReplayStores, ReplayRemoves,
        Retry, RetryFetches, RetryDecrypts, RetryStores, At, Shape, Waiting, Storing
<1> QED
    BY <1>1, CurrentIsIn

LEMMA TypeReplay ==
    ASSUME TypeInv, NEW p \in Passes, Replay(p)
    PROVE  TypeInv'
<1>1. Typed /\ GroupOK /\ Shape(pass[p])
    BY DEF TypeInv, PassesOK, Typed
<1>2. pass[p].todo # {} /\ Current(p) \in Messages /\ pass[p].kind = "replay"
    BY <1>1, BusyPass DEF Replay, ReplayChecks, ReplayDecrypts, ReplayMarks, ReplayStores,
        ReplayRemoves, At
<1>3. /\ Typed' /\ Others(p)
      /\ UNCHANGED <<use, head, group, invited, caughtUp, failed, arrived, known,
                     decryption, reader, notifier, echo>>
    BY <1>1, <1>2, ReplaySteps
<1>4. Shape(pass'[p])
    <2>1. CASE ReplayChecks(p) \/ ReplayMarks(p) \/ ReplayRemoves(p)
        <3>1. Turns(p, "decrypt") \/ Drops(p, "next")
            BY <1>1, <1>2, <2>1, ReplaySteps DEF ReplayChecks, ReplayDecrypts, ReplayMarks,
                ReplayStores, ReplayRemoves, At
        <3>2. pass[p].pc = "next" => pass[p].value = "none"
            BY <1>1 DEF Shape, Storing
        <3>3. Turns(p, "decrypt") => pass[p].pc = "next"
            BY <1>1, <1>2, <2>1 DEF ReplayChecks, ReplayMarks, ReplayRemoves, At, Turns, Drop, Typed, Pass
        <3> QED
            BY <1>2, <3>1, <3>2, <3>3 DEF Turns, Drops, Shape, Waiting, Storing
    <2>2. CASE ReplayDecrypts(p)
        <3>1. pass[p].value = "none"
            BY <1>1, <2>2 DEF Shape, Storing, ReplayDecrypts, At
        <3>2. \/ Takes(p, "store", IF Verdict(Current(p)) = "plain" THEN "plain" ELSE "undec")
              \/ Turns(p, "mark") \/ Drops(p, "next")
            BY <1>1, <1>2, <2>2, ReplaySteps DEF ReplayChecks, ReplayDecrypts, ReplayMarks,
                ReplayStores, ReplayRemoves, At
        <3> QED
            BY <1>2, <3>1, <3>2 DEF Takes, Turns, Drops, Shape, Waiting, Storing
    <2>3. CASE ReplayStores(p)
        <3>1. /\ pass'[p].pc = "remove" /\ pass'[p].kind = pass[p].kind
              /\ pass'[p].todo = pass[p].todo /\ pass'[p].value = pass[p].value
            BY <1>1, <1>2, <2>3, ReplaySteps DEF ReplayChecks, ReplayDecrypts, ReplayMarks,
                ReplayStores, ReplayRemoves, At
        <3>2. pass[p].value \in {"plain", "undec"}
            BY <1>1, <2>3 DEF Shape, ReplayStores, At
        <3> QED
            BY <1>2, <3>1, <3>2 DEF Shape, Waiting, Storing
    <2> QED
        BY <2>1, <2>2, <2>3 DEF Replay
<1>5. PassesOK'
    BY <1>3, <1>4, PassKeeps DEF TypeInv
<1>6. StoredOK'
    <2>1. pass[p].value \in Values
        BY <1>1, OwnFields
    <2>2. cache' \in [Messages -> Values]
        BY <1>2, <2>1 DEF Replay, ReplayChecks, ReplayDecrypts, ReplayMarks, ReplayStores,
            ReplayRemoves, Store, TypeInv, StoredOK
    <2>3. used' \subseteq Messages
        BY <1>1, <1>2, Consumed DEF Replay, ReplayChecks, ReplayDecrypts, ReplayMarks,
            ReplayStores, ReplayRemoves, Remain, TypeInv, StoredOK
    <2>4. queue' \in [Messages -> Int]
        BY <1>2 DEF Replay, ReplayChecks, ReplayDecrypts, ReplayMarks, ReplayStores,
            ReplayRemoves, TypeInv, StoredOK, None
    <2> QED
        BY <2>2, <2>3, <2>4 DEF StoredOK
<1> QED
    BY <1>3, <1>5, <1>6 DEF TypeInv, GroupOK, CallersOK, LastEpoch

LEMMA TypeRetry ==
    ASSUME TypeInv, NEW p \in Passes, Retry(p)
    PROVE  TypeInv'
<1>1. Typed /\ GroupOK /\ Shape(pass[p])
    BY DEF TypeInv, PassesOK, Typed
<1>2. pass[p].todo # {} /\ Current(p) \in Messages /\ pass[p].kind = "retry"
    BY <1>1, BusyPass DEF Retry, RetryFetches, RetryDecrypts, RetryStores, At
<1>3. /\ Typed' /\ Others(p)
      /\ UNCHANGED <<use, head, group, invited, queue, caughtUp, failed, arrived, known,
                     decryption, reader, notifier, echo>>
    BY <1>1, <1>2, RetrySteps
<1>4. Shape(pass'[p])
    <2>1. \/ /\ pass[p].pc = "next" /\ Turns(p, "decrypt")
          \/ Drops(p, "next") \/ Takes(p, "store", "plain")
          \/ pass'[p].pc = "next" /\ pass'[p].kind = "retry" /\ pass'[p].value = "none"
        BY <1>1, <1>2, RetrySteps DEF RetryFetches, At
    <2> QED
        BY <1>1, <1>2, <2>1 DEF Turns, Drops, Takes, Shape, Waiting, Storing
<1>5. PassesOK'
    BY <1>3, <1>4, PassKeeps DEF TypeInv
<1>6. StoredOK'
    <2>2. cache' \in [Messages -> Values]
        BY <1>2 DEF Retry, RetryFetches, RetryDecrypts, RetryStores, Store, TypeInv, StoredOK, Values
    <2>3. used' \subseteq Messages
        BY <1>1, <1>2, Consumed DEF Retry, RetryFetches, RetryDecrypts, RetryStores, Remain,
            TypeInv, StoredOK
    <2> QED
        BY <1>3, <2>2, <2>3 DEF TypeInv, StoredOK
<1> QED
    BY <1>3, <1>5, <1>6 DEF TypeInv, GroupOK, CallersOK, LastEpoch

LEMMA TypeClear ==
    ASSUME TypeInv, NEW p \in Passes, Clear(p)
    PROVE  TypeInv'
<1>1. Typed /\ GroupOK /\ Shape(pass[p])
    BY DEF TypeInv, PassesOK, Typed
<1>3. /\ Typed' /\ Others(p)
      /\ UNCHANGED <<use, head, invited, arrived, known, decryption, reader, notifier>>
    BY <1>1, ClearSteps
<1>2. pass[p].kind = "clear"
    BY DEF Clear, SweepDecrypts, SweepStores, ClearWipes, ClearReadsPending, ClearPlaceholders,
        ClearEnds, At
<1>4. Shape(pass'[p])
    <2>1. CASE SweepDecrypts(p)
        <3>1. Takes(p, "sweepStore", IF Verdict(Current(p)) = "plain" THEN "plain" ELSE "undec")
              /\ pass[p].todo # {}
            BY <1>1, <2>1, ClearSteps DEF SweepDecrypts, SweepStores, ClearWipes,
                ClearReadsPending, ClearPlaceholders, ClearEnds, At
        <3> QED
            BY <1>2, <3>1 DEF Takes, Shape, Waiting, Storing
    <2>2. CASE ~SweepDecrypts(p)
        <3>1. \/ Drops(p, "sweep") \/ pass'[p] = NoPass
              \/ /\ pass'[p].pc \in {"pending", "placeholders", "drop"}
                 /\ pass'[p].kind = "clear" /\ pass'[p].value = pass[p].value
                 /\ pass[p].pc \in {"sweep", "pending", "placeholders"}
            BY <1>1, <1>2, <2>2, ClearSteps DEF Turns, ClearWipes, ClearReadsPending,
                ClearPlaceholders, At
        <3>2. Shape(NoPass)
            BY NoPassIsPass DEF Shape, NoPass, Waiting, Storing
        <3> QED
            BY <1>1, <1>2, <3>1, <3>2 DEF Drops, Shape, Waiting, Storing
    <2> QED
        BY <2>1, <2>2
<1>5. PassesOK'
    BY <1>3, <1>4, PassKeeps DEF TypeInv
<1>6. Current(p) \in Messages \/ ~(SweepDecrypts(p) \/ SweepStores(p))
    BY <1>1, CurrentIsIn DEF SweepDecrypts, SweepStores, At, Shape, Storing
<1>7. StoredOK'
    <2>1. pass[p].value \in Values /\ "undec" \in Values
        BY <1>1, OwnFields DEF Values
    <2>2. cache' \in [Messages -> Values]
        BY <1>6, <2>1 DEF Clear, SweepDecrypts, SweepStores, ClearWipes, ClearReadsPending,
            ClearPlaceholders, ClearEnds, Store, TypeInv, StoredOK
    <2>3. used' \subseteq Messages
        BY <1>1, <1>6, Consumed DEF Clear, SweepDecrypts, SweepStores, ClearWipes,
            ClearReadsPending, ClearPlaceholders, ClearEnds, Remain, TypeInv, StoredOK
    <2>4. queue' \in [Messages -> Int]
        BY DEF Clear, SweepDecrypts, SweepStores, ClearWipes, ClearReadsPending,
            ClearPlaceholders, ClearEnds, TypeInv, StoredOK, NoTries, None
    <2> QED
        BY <2>2, <2>3, <2>4 DEF StoredOK
<1>8. GroupOK'
    <2>1. NoGroup \in [base : Int, epoch : Int]
        BY DEF NoGroup, None
    <2>2. /\ group' \in {group, NoGroup} /\ caughtUp' \in {caughtUp, FALSE}
          /\ failed' \in {failed, FALSE}
        BY DEF Clear, SweepDecrypts, SweepStores, ClearWipes, ClearReadsPending,
            ClearPlaceholders, ClearEnds, Remain
    <2> QED
        BY <1>3, <2>1, <2>2 DEF TypeInv, GroupOK, LastEpoch
<1>9. echo' \in [Messages -> Values]
    <2>1. "undec" \in Values
        BY DEF Values
    <2> QED
        BY <2>1 DEF Clear, SweepDecrypts, SweepStores, ClearWipes, ClearReadsPending,
            ClearPlaceholders, ClearEnds, TypeInv, CallersOK
<1> QED
    BY <1>3, <1>5, <1>7, <1>8, <1>9 DEF TypeInv, CallersOK

LEMMA TypeEnds ==
    ASSUME TypeInv, NEW p \in Passes, PassEnds(p)
    PROVE  /\ TypeInv' /\ Others(p) /\ pass'[p] = NoPass
           /\ UNCHANGED <<use, head, group, used, invited, queue, cache, caughtUp, failed,
                          arrived, known, reader, notifier>>
<1>1. Typed
    BY DEF TypeInv, PassesOK, Typed
<1>2. Typed' /\ Others(p) /\ pass'[p] = NoPass
    BY <1>1, Left DEF PassEnds
<1>3. UNCHANGED <<use, head, group, used, invited, queue, cache, caughtUp, failed,
                  arrived, known, reader, notifier>>
    BY DEF PassEnds, Remain
<1>4. Shape(NoPass)
    BY NoPassIsPass DEF Shape, NoPass, Waiting, Storing
<1>5. PassesOK'
    BY <1>2, <1>4, PassKeeps DEF TypeInv
<1>6. echo' \in [Messages -> Values]
    <2>1. pass[p].shown \in [Messages -> Values]
        BY <1>1, OwnFields
    <2> QED
        BY <2>1 DEF PassEnds, TypeInv, CallersOK
<1>7. decryption' \in [Messages -> [pc : Stages, fatal : BOOLEAN, tries : Int]]
    <2>1. \A m \in Messages : decryption[m] \in [pc : Stages, fatal : BOOLEAN, tries : Int]
        BY DEF TypeInv, CallersOK
    <2>2. \A m \in Messages :
              [decryption[m] EXCEPT !.pc = "again"] \in [pc : Stages, fatal : BOOLEAN, tries : Int]
        BY <2>1 DEF Stages
    <2> QED
        BY <2>1, <2>2 DEF PassEnds
<1> QED
    BY <1>2, <1>3, <1>5, <1>6, <1>7 DEF TypeInv, GroupOK, StoredOK, CallersOK, LastEpoch

Outside == OthersCommit \/ FollowCommit \/ CatchUp \/ Invite \/ Join \/ Fail

LEMMA TypeOutside ==
    ASSUME TypeInv, Outside
    PROVE  TypeInv'
<1>1. UNCHANGED <<use, queue, cache, arrived, known, decryption, reader, notifier, echo, pass>>
    BY DEF Outside, OthersCommit, FollowCommit, CatchUp, Invite, Join, Fail, Elsewhere
<1>2. head' \in 0 .. LastEpoch
    BY DEF Outside, OthersCommit, FollowCommit, CatchUp, Invite, Join, Fail, Elsewhere, TypeInv,
        GroupOK, LastEpoch
<1>3. group' \in [base : Int, epoch : Int]
    <2>1. head \in Int /\ group \in [base : Int, epoch : Int]
        BY DEF TypeInv, GroupOK, LastEpoch
    <2> QED
        BY <2>1 DEF Outside, OthersCommit, FollowCommit, CatchUp, Invite, Join, Fail
<1>4. /\ caughtUp' \in {caughtUp, TRUE} /\ invited' \in {invited, TRUE, FALSE}
      /\ failed' \in {failed, FALSE, ~failed} /\ used' \in {used, {}}
    BY DEF Outside, OthersCommit, FollowCommit, CatchUp, Invite, Join, Fail
<1>5. GroupOK'
    BY <1>1, <1>2, <1>3, <1>4 DEF TypeInv, GroupOK, LastEpoch
<1> QED
    BY <1>1, <1>4, <1>5 DEF TypeInv, StoredOK, CallersOK, PassesOK

LEMMA TypeCrash ==
    ASSUME TypeInv, Crash
    PROVE  TypeInv'
<1>1. NoPass \in Pass /\ Shape(NoPass)
    BY NoPassIsPass DEF Shape, NoPass, Waiting, Storing
<1>2. PassesOK'
    BY <1>1 DEF Crash, PassesOK
<1>3. CallersOK'
    BY DEF Crash, TypeInv, CallersOK, NoDecryption, NoValues, Values, Stages, None
<1> QED
    BY <1>2, <1>3 DEF Crash, TypeInv, GroupOK, StoredOK, LastEpoch

LEMMA TypeStep == TypeInv /\ [Next]_vars => TypeInv'
<1> SUFFICES ASSUME TypeInv, [Next]_vars PROVE TypeInv'
    OBVIOUS
<1>1. CASE UNCHANGED vars
    BY <1>1 DEF vars, TypeInv, GroupOK, StoredOK, CallersOK, PassesOK, LastEpoch
<1>2. ASSUME NEW m \in Messages, SocketEvent(m) \/ LoseEvent(m) \/ Handle(m) \/ Decrypt(m)
      PROVE TypeInv'
    BY <1>2, TypeHandle, TypeDecrypt
<1>3. ASSUME NEW p \in Passes, Begins(p) \/ Work(p)
      PROVE TypeInv'
    BY <1>3, TypeBegins, TypeLoad, TypeReplay, TypeRetry, TypeClear, TypeEnds DEF Work
<1>4. CASE Outside \/ Crash
    BY <1>4, TypeOutside, TypeCrash
<1> QED
    BY <1>1, <1>2, <1>3, <1>4 DEF Next, Begins, Outside

(* The group, the queue, the cache, the callers and the passes keep their  *)
(* types in every use, overlaps, failures and kills included; and a pass   *)
(* visits a message while it waits, holds a value only where it is about   *)
(* to store it (Shape): a retry never a placeholder.                       *)
THEOREM TypeCorrect == Spec => []TypeInv
<1> QED
    BY TypeInit, TypeStep, PTL DEF Spec

LEMMA NoPassIsCalm ==
    ASSUME NEW p \in Passes, pass[p] = NoPass
    PROVE  PassInv(p)
<1>1. NoPass.kind = "none" /\ NoPass.todo = {} /\ NoPass.shown = NoValues /\ NoPass.tries = NoTries
    BY DEF NoPass
<1>2. \A m \in Messages : NoValues[m] = "none" /\ NoTries[m] <= 0
    BY DEF NoValues, NoTries, None
<1> QED
    BY <1>1, <1>2 DEF PassInv, RunsAlone, LoadIsAlone, LoadFillsGaps, TodoIsUnattended,
        RetryIsQuiet, ReplayFills, ShownIsCached, Active

LEMMA NoPassAfter ==
    ASSUME NEW p \in Passes, pass'[p] = NoPass
    PROVE  PassInv(p)'
<1>1. NoPass.kind = "none" /\ NoPass.todo = {} /\ NoPass.shown = NoValues /\ NoPass.tries = NoTries
    BY DEF NoPass
<1>2. \A m \in Messages : NoValues[m] = "none" /\ NoTries[m] <= 0
    BY DEF NoValues, NoTries, None
<1> QED
    BY <1>1, <1>2 DEF PassInv, RunsAlone, LoadIsAlone, LoadFillsGaps, TodoIsUnattended,
        RetryIsQuiet, ReplayFills, ShownIsCached, Active

-----------------------------------------------------------------------------
(* CalmInv is preserved by what happens to one message. *)

LEMMA OrderlyUse ==
    ASSUME Orderly, TypeInv, Calm
    PROVE  /\ ~use.fails /\ "clear" \notin use.kinds
           /\ Visits => /\ use.later = {} /\ head = 0
                        /\ \A m \in Messages : EpochOf[m] = 0
<1>1. head \in 0 .. LastEpoch
    BY DEF TypeInv, GroupOK
<1>2. ~use.fails /\ "clear" \notin use.kinds /\ (Visits => use.later = {})
    BY DEF Orderly, Visits
<1>3. use.later = {} => head = 0 /\ \A m \in Messages : EpochOf[m] = 0
    BY <1>1 DEF LastEpoch, EpochOf
<1> QED
    BY <1>2, <1>3

LEMMA CalmInit == Init => CalmInv
<1> SUFFICES ASSUME Init PROVE CalmInv
    OBVIOUS
<1>1. \A p \in Passes : pass[p] = NoPass
    BY DEF Init
<1>2. \A p \in Passes : PassInv(p)
    BY <1>1, NoPassIsCalm
<1>3. \A m \in Messages : MessageInv(m)
    BY DEF Init, MessageInv, DecryptionOK, ReaderOK, EventOK, EchoOK, Untouched, Settled, Attended,
        NoDecryption, NoTries, NoValues, None, Values
<1> QED
    BY <1>2, <1>3 DEF Init, CalmInv, OneEpoch, HasGroup, NoGroup

Same(m) ==
    /\ reader'[m] = reader[m] /\ notifier'[m] = notifier[m] /\ echo'[m] = echo[m]
    /\ decryption'[m] = decryption[m] /\ queue'[m] = queue[m] /\ cache'[m] = cache[m]
    /\ m \in arrived' <=> m \in arrived
    /\ m \in used' => m \in used

IsAwaited(m) == \E p \in Passes : AwaitedBy(p, m)
HeldByPass(m) == \E p \in Passes : pass[p].value = "plain" /\ Current(p) = m

LEMMA MessageKept ==
    ASSUME NEW m \in Messages, MessageInv(m), Same(m), UNCHANGED use,
           IsAwaited(m) => IsAwaited(m)', HeldByPass(m) => HeldByPass(m)'
    PROVE  MessageInv(m)'
<1>1. Visits' = Visits
    BY DEF Visits
<1>2. DecryptionOK(m)'
    BY <1>1 DEF MessageInv, DecryptionOK, Same, IsAwaited
<1>3. ReaderOK(m)'
    BY DEF MessageInv, ReaderOK, Same
<1>4. EventOK(m)' /\ EchoOK(m)'
    BY <1>1 DEF MessageInv, EventOK, EchoOK, Same, Untouched, Settled, Attended
<1>5. m \in used' => Carried(m)'
    BY DEF MessageInv, Carried, Same, HeldByPass
<1> QED
    BY <1>2, <1>3, <1>4, <1>5 DEF MessageInv

LEMMA MessageStep ==
    ASSUME CalmInv, Calm, NEW m \in Messages, UNCHANGED <<use, failed, pass>>, OneEpoch',
           \A n \in Messages \ {m} : Same(n),
           MessageInv(m)', \A p \in Passes : PassInv(p)'
    PROVE  CalmInv'
<1>2. ASSUME NEW n \in Messages, n # m PROVE MessageInv(n)'
    <2>1. IsAwaited(n)' = IsAwaited(n) /\ HeldByPass(n)' = HeldByPass(n)
        BY DEF IsAwaited, HeldByPass, AwaitedBy, Current
    <2> QED
        BY <1>2, <2>1, MessageKept DEF CalmInv
<1> QED
    BY <1>2 DEF CalmInv, Calm

(* What does not touch a pass's messages does not disturb it. *)
LEMMA PassKept ==
    ASSUME TypeInv, NEW p \in Passes, PassInv(p), NEW m \in Messages,
           UNCHANGED use, pass'[p] = pass[p], \A q \in Passes : Active(q)' => Active(q),
           \A n \in Messages \ {m} : Same(n),
           pass[p].kind # "load", m \notin pass[p].todo,
           echo'[m] \in {echo[m], "none"},
           pass[p].shown[m] # "none" =>
               cache'[m] = cache[m] /\ (Settled(m) => Settled(m)')
    PROVE  PassInv(p)'
<1>1. Visits' = Visits /\ Current(p)' = Current(p)
    BY DEF Visits, Current
<1>2. /\ pass[p].pc \in {"decrypt", "mark", "store", "remove"} => Current(p) \in pass[p].todo
      /\ Shape(pass[p]) /\ Typed
      /\ pass[p].todo \subseteq Messages
    BY CurrentIsIn DEF TypeInv, PassesOK, Typed, Shape, Waiting, Storing, Pass
<1>3. RunsAlone(p)' /\ LoadIsAlone(p)' /\ LoadFillsGaps(p)'
    BY <1>1 DEF PassInv, RunsAlone, LoadIsAlone, LoadFillsGaps, Active
<1>4. TodoIsUnattended(p)'
    BY ZenonT(60), <1>1, <1>2 DEF PassInv, TodoIsUnattended, Attended, Same
<1>5. RetryIsQuiet(p)'
    BY <1>1 DEF PassInv, RetryIsQuiet, Same
<1>6. ReplayFills(p)'
    BY <1>1, <1>2 DEF PassInv, ReplayFills, Same
<1>7. ShownIsCached(pass[p].shown)'
    <2> SUFFICES ASSUME NEW n \in Messages, pass[p].shown[n] # "none"
                 PROVE  /\ cache'[n] = pass[p].shown[n]
                        /\ \/ pass[p].shown[n] = "plain"
                           \/ pass[p].shown[n] = "undec" /\ Settled(n)'
        BY <1>1 DEF ShownIsCached
    <2>1. /\ cache[n] = pass[p].shown[n]
          /\ pass[p].shown[n] = "plain" \/ (pass[p].shown[n] = "undec" /\ Settled(n))
        BY DEF PassInv, ShownIsCached
    <2>2. n # m => cache'[n] = cache[n] /\ (Settled(n) => Settled(n)')
        BY <1>1 DEF Same, Settled, Attended
    <2> QED
        BY <2>1, <2>2
<1>8. (Visits => \A n \in Messages : pass[p].tries[n] <= 0)'
    BY <1>1 DEF PassInv
<1> QED
    BY <1>1, <1>3, <1>4, <1>5, <1>6, <1>7, <1>8 DEF PassInv

(* Whoever reads or is notified has a message that no pass touches. *)
LEMMA Spared ==
    ASSUME TypeInv, CalmInv, Calm, NEW m \in Messages,
           reader[m] # "idle" \/ notifier[m] # "idle"
    PROVE  /\ \A p \in Passes : pass[p].kind # "load" /\ m \notin pass[p].todo
           /\ ~HeldByPass(m)
           /\ \A p \in Passes : pass[p].shown[m] \in {"none", "plain"}
<1> SUFFICES ASSUME NEW p \in Passes
             PROVE  /\ pass[p].kind # "load" /\ m \notin pass[p].todo
                    /\ ~(pass[p].value = "plain" /\ Current(p) = m)
                    /\ pass[p].shown[m] \in {"none", "plain"}
    BY DEF HeldByPass
<1>1. PassInv(p) /\ Attended(m) /\ Shape(pass[p]) /\ Typed
    BY DEF CalmInv, Attended, TypeInv, PassesOK, Typed
<1>2. pass[p].kind # "load"
    BY <1>1 DEF PassInv, LoadIsAlone
<1>3. pass[p].kind \in {"none", "replay", "retry"}
    BY <1>1, <1>2 DEF PassInv, RunsAlone, Active, Typed, Pass
<1>4. m \notin pass[p].todo
    <2>1. CASE pass[p].kind = "none"
        BY <1>1, <2>1 DEF Shape, NoPass
    <2>2. CASE pass[p].kind \in {"replay", "retry"}
        BY <1>1, <2>2 DEF PassInv, TodoIsUnattended
    <2> QED
        BY <1>3, <2>1, <2>2
<1>5. ~(pass[p].value = "plain" /\ Current(p) = m)
    BY <1>1, <1>4, CurrentIsIn DEF Shape, Storing
<1>6. pass[p].shown[m] \in {"none", "plain"}
    BY <1>1 DEF PassInv, ShownIsCached, Settled
<1> QED
    BY <1>2, <1>4, <1>5, <1>6

LEMMA PassUntouched ==
    ASSUME TypeInv, NEW p \in Passes, PassInv(p),
           UNCHANGED <<use, pass, decryption, reader, notifier, cache>>,
           \A m \in Messages : echo'[m] \in {echo[m], "none"} /\ (m \in arrived => m \in arrived')
    PROVE  PassInv(p)'
<1>1. Visits' = Visits /\ \A q \in Passes : pass'[q] = pass[q] /\ Current(q)' = Current(q)
    BY DEF Visits, Current
<1>2. pass[p].todo \subseteq Messages
    BY DEF TypeInv, PassesOK, Pass
<1>3. RunsAlone(p)' /\ LoadIsAlone(p)' /\ LoadFillsGaps(p)'
    BY <1>1 DEF PassInv, RunsAlone, LoadIsAlone, LoadFillsGaps, Active, AwaitedBy
<1>4. TodoIsUnattended(p)' /\ RetryIsQuiet(p)' /\ ReplayFills(p)'
    BY <1>1, <1>2 DEF PassInv, TodoIsUnattended, RetryIsQuiet, ReplayFills, Attended
<1>5. ShownIsCached(pass[p].shown)'
    BY <1>1 DEF PassInv, ShownIsCached, Settled, Attended
<1> QED
    BY <1>1, <1>3, <1>4, <1>5 DEF PassInv

LEMMA SameGroup ==
    ASSUME OneEpoch, UNCHANGED <<use, group>>
    PROVE  OneEpoch'
BY DEF OneEpoch, Visits, HasGroup

LEMMA CalmSocket ==
    ASSUME TypeInv, CalmInv, Calm, NEW m \in Messages, SocketEvent(m) \/ LoseEvent(m)
    PROVE  CalmInv'
<1>1. /\ UNCHANGED <<use, head, group, used, invited, queue, cache, caughtUp, failed, echo, pass>>
      /\ m \notin arrived /\ arrived' = arrived \cup {m}
    BY DEF SocketEvent, LoseEvent
<1>2. MessageInv(m) /\ reader[m] = "idle" /\ notifier[m] = "idle"
    BY <1>1 DEF CalmInv, MessageInv, EventOK
<1>3. \/ UNCHANGED <<reader, notifier, decryption>>
      \/ /\ \A p \in Passes : pass[p].kind # "load" /\ m \notin pass[p].todo
         /\ \A n \in Messages \ {m} : /\ reader'[n] = reader[n] /\ notifier'[n] = notifier[n]
                                      /\ decryption'[n] = decryption[n]
         /\ decryption[m] = NoDecryption
         /\ \/ /\ reader'[m] = "exists" /\ notifier'[m] = "idle" /\ decryption'[m] = NoDecryption
            \/ /\ reader'[m] \in {"idle", "exists"} /\ notifier'[m] = "wait"
               /\ decryption'[m].pc = "try" /\ decryption'[m].tries = None
    <2>1. CASE LoseEvent(m)
        BY <2>1 DEF LoseEvent
    <2>2. CASE SocketEvent(m)
        <3>1. \A p \in Passes : pass[p].kind # "load" /\ m \notin pass[p].todo
            BY <2>2 DEF SocketEvent, MayDeliver, Calm
        <3>2. decryption[m] = NoDecryption
            BY <1>2, <3>1 DEF MessageInv, DecryptionOK, AwaitedBy
        <3>3. /\ \A n \in Messages \ {m} : reader'[n] = reader[n] /\ notifier'[n] = notifier[n]
              /\ reader'[m] \in {"idle", "exists"}
            BY <1>2, <2>2 DEF SocketEvent, TypeInv, CallersOK
        <3>4. CASE m \in Mine
            BY <1>2, <2>2, <3>1, <3>2, <3>3, <3>4 DEF SocketEvent, TypeInv, CallersOK
        <3>5. CASE m \notin Mine
            <4>1. notifier'[m] = "wait" /\ Ask(m)
                BY <2>2, <3>5 DEF SocketEvent, TypeInv, CallersOK
            <4>2. /\ \A n \in Messages \ {m} : decryption'[n] = decryption[n]
                  /\ decryption'[m].pc = "try" /\ decryption'[m].tries = None
                BY <3>2, <4>1, Asked DEF TypeInv
            <4> QED
                BY <3>1, <3>2, <3>3, <4>1, <4>2
        <3> QED
            BY <3>4, <3>5
    <2> QED
        BY <2>1, <2>2
<1>4. \A n \in Messages \ {m} : Same(n)
    BY <1>1, <1>3 DEF Same
<1>5. MessageInv(m)'
    <2>1. Visits' = Visits /\ IsAwaited(m)' = IsAwaited(m) /\ HeldByPass(m)' = HeldByPass(m)
        BY <1>1 DEF Visits, IsAwaited, HeldByPass, AwaitedBy, Current
    <2>2. DecryptionOK(m)'
        <3>1. decryption'[m].pc = "try" => decryption'[m] # NoDecryption
            BY DEF NoDecryption
        <3> QED
            BY <1>1, <1>2, <1>3, <2>1, <3>1 DEF MessageInv, DecryptionOK, IsAwaited, NoDecryption, None
    <2>3. ReaderOK(m)'
        BY <1>1, <1>2, <1>3 DEF MessageInv, ReaderOK, DecryptionOK, NoDecryption, Values
    <2>4. EventOK(m)' /\ EchoOK(m)'
        BY <1>1, <1>2, <2>1 DEF MessageInv, EventOK, EchoOK, Settled, Untouched
    <2>5. m \in used' => Carried(m)'
        BY <1>1, <1>2, <1>3, <2>1 DEF MessageInv, Carried, HeldByPass
    <2> QED
        BY <2>2, <2>3, <2>4, <2>5 DEF MessageInv
<1>6. ASSUME NEW p \in Passes PROVE PassInv(p)'
    <2>1. PassInv(p)
        BY DEF CalmInv
    <2>2. pass[p].shown[m] # "none" => cache'[m] = cache[m] /\ (Settled(m) => Settled(m)')
        BY <1>1 DEF Settled
    <2>5. pass'[p] = pass[p] /\ \A q \in Passes : Active(q)' => Active(q)
        BY <1>1 DEF Active
    <2>3. CASE pass[p].kind # "load" /\ m \notin pass[p].todo
        BY <1>1, <1>4, <2>1, <2>2, <2>3, <2>5, PassKept
    <2>4. CASE UNCHANGED <<reader, notifier, decryption>>
        BY <1>1, <2>1, <2>4, PassUntouched
    <2> QED
        BY <1>3, <2>3, <2>4
<1>8. OneEpoch'
    BY <1>1, SameGroup DEF CalmInv
<1> QED
    BY <1>1, <1>4, <1>5, <1>6, <1>8, MessageStep

LEMMA CalmReader ==
    ASSUME TypeInv, CalmInv, Calm, NEW m \in Messages, ReaderChecks(m)
    PROVE  CalmInv'
<1>1. /\ UNCHANGED <<use, head, group, used, invited, queue, cache, caughtUp, failed, arrived,
                     known, notifier, echo, pass>>
      /\ reader[m] = "exists"
    BY DEF ReaderChecks
<1>2. /\ \A p \in Passes : /\ pass[p].kind # "load" /\ m \notin pass[p].todo
                           /\ pass[p].shown[m] \in {"none", "plain"}
      /\ ~HeldByPass(m) /\ MessageInv(m)
    BY <1>1, Spared DEF CalmInv
<1>3. /\ \A n \in Messages \ {m} : reader'[n] = reader[n] /\ decryption'[n] = decryption[n]
      /\ \/ reader'[m] = "idle" /\ decryption'[m] = decryption[m]
         \/ /\ reader'[m] = "wait" /\ cache[m] = "none"
            /\ decryption'[m].pc = "try"
            /\ decryption'[m].tries \in {decryption[m].tries, None}
    <2>1. CASE cache[m] = "none"
        <3>1. Ask(m) /\ reader' = [reader EXCEPT ![m] = "wait"]
            BY <2>1 DEF ReaderChecks
        <3>2. decryption[m] = NoDecryption \/ decryption[m].pc = "try"
            BY <1>1, <1>2 DEF MessageInv, ReaderOK, DecryptionOK
        <3> QED
            BY <2>1, <3>1, <3>2, Asked DEF TypeInv, CallersOK
    <2>2. CASE cache[m] # "none"
        BY <2>2 DEF ReaderChecks, TypeInv, CallersOK
    <2> QED
        BY <2>1, <2>2
<1>4. \A n \in Messages \ {m} : Same(n)
    BY <1>1, <1>3 DEF Same
<1>5. MessageInv(m)'
    <2>1. Visits' = Visits /\ IsAwaited(m)' = IsAwaited(m) /\ HeldByPass(m)' = HeldByPass(m)
        BY <1>1 DEF Visits, IsAwaited, HeldByPass, AwaitedBy, Current
    <2>0. decryption'[m].pc = "try" => decryption'[m] # NoDecryption
        BY DEF NoDecryption
    <2>2. DecryptionOK(m)'
        BY <1>1, <1>2, <1>3, <2>0, <2>1 DEF MessageInv, DecryptionOK, IsAwaited, None
    <2>3. ReaderOK(m)'
        BY <1>1, <1>2, <1>3, <2>0 DEF MessageInv, ReaderOK, Values, Carried, HeldByPass
    <2>4. EventOK(m)' /\ EchoOK(m)'
        <3>1. m \in arrived /\ Attended(m)
            BY <1>1, <1>2 DEF MessageInv, EventOK, Attended
        <3> QED
            BY <1>1, <1>2, <2>1, <3>1 DEF MessageInv, EventOK, EchoOK, Settled, Untouched
    <2>5. m \in used' => Carried(m)'
        BY <1>1, <1>2, <2>1 DEF MessageInv, Carried, HeldByPass
    <2> QED
        BY <2>2, <2>3, <2>4, <2>5 DEF MessageInv
<1>6. ASSUME NEW p \in Passes PROVE PassInv(p)'
    <2>1. ~Settled(m)
        BY <1>1 DEF Settled, Attended
    <2>2. pass'[p] = pass[p] /\ \A q \in Passes : Active(q)' => Active(q)
        BY <1>1 DEF Active
    <2> QED
        BY <1>1, <1>2, <1>4, <2>1, <2>2, PassKept DEF CalmInv
<1>8. OneEpoch'
    BY <1>1, SameGroup DEF CalmInv
<1> QED
    BY <1>1, <1>4, <1>5, <1>6, <1>8, MessageStep

LEMMA CalmStores ==
    ASSUME TypeInv, CalmInv, Calm, NEW m \in Messages,
           ReaderStores(m) \/ NotifierStores(m)
    PROVE  CalmInv' /\ (cache[m] = "plain" => cache'[m] = "plain")
<1>1. /\ UNCHANGED <<use, head, group, used, invited, queue, caughtUp, failed, arrived,
                     known, decryption, echo, pass>>
      /\ reader[m] # "idle" \/ notifier[m] # "idle"
    BY DEF ReaderStores, NotifierStores, Values
<1>2. /\ \A p \in Passes : /\ pass[p].kind # "load" /\ m \notin pass[p].todo
                           /\ pass[p].shown[m] \in {"none", "plain"}
      /\ ~HeldByPass(m) /\ MessageInv(m) /\ \A p \in Passes : ShownIsCached(pass[p].shown)
    BY <1>1, Spared DEF CalmInv, PassInv
<1>3. /\ \A n \in Messages \ {m} : /\ reader'[n] = reader[n] /\ notifier'[n] = notifier[n]
                                   /\ cache'[n] = cache[n]
      /\ \/ /\ reader[m] \in {"plain", "undec", "blank"} /\ cache'[m] = reader[m]
            /\ reader'[m] = "idle" /\ notifier'[m] = notifier[m]
         \/ /\ notifier[m] = "plain" /\ cache'[m] = "plain"
            /\ notifier'[m] = "idle" /\ reader'[m] = reader[m]
    BY DEF ReaderStores, NotifierStores, Values, Store, TypeInv, CallersOK, StoredOK
<1>4. \A n \in Messages \ {m} : Same(n)
    BY <1>1, <1>3 DEF Same
<1>5. cache[m] # "none" => cache'[m] = "plain"
    BY <1>2, <1>3 DEF MessageInv, ReaderOK
<1>6. MessageInv(m)'
    <2>1. Visits' = Visits /\ IsAwaited(m)' = IsAwaited(m) /\ HeldByPass(m)' = HeldByPass(m)
        BY <1>1 DEF Visits, IsAwaited, HeldByPass, AwaitedBy, Current
    <2>2. DecryptionOK(m)'
        BY <1>1, <1>2, <1>3, <2>1 DEF MessageInv, DecryptionOK, ReaderOK, IsAwaited, Values
    <2>3. ReaderOK(m)'
        BY <1>1, <1>2, <1>3, <1>5 DEF MessageInv, ReaderOK, Values
    <2>4. m \in arrived /\ Attended(m)
        BY <1>1, <1>2 DEF MessageInv, EventOK, Attended
    <2>5. EventOK(m)' /\ EchoOK(m)'
        BY <1>1, <1>2, <1>5, <2>1, <2>4 DEF MessageInv, EventOK, EchoOK, Settled, Untouched
    <2>6. m \in used' => Carried(m)'
        BY <1>1, <1>2, <1>3, <1>5, <2>1 DEF MessageInv, ReaderOK, Carried, HeldByPass
    <2> QED
        BY <2>2, <2>3, <2>5, <2>6 DEF MessageInv
<1>7. ASSUME NEW p \in Passes PROVE PassInv(p)'
    <2>1. ~Settled(m)
        BY <1>1 DEF Settled, Attended
    <2>2. pass[p].shown[m] # "none" => cache'[m] = cache[m]
        BY <1>2, <1>5 DEF ShownIsCached
    <2>3. pass'[p] = pass[p] /\ \A q \in Passes : Active(q)' => Active(q)
        BY <1>1 DEF Active
    <2> QED
        BY <1>1, <1>2, <1>4, <2>1, <2>2, <2>3, PassKept DEF CalmInv
<1>8. OneEpoch'
    BY <1>1, SameGroup DEF CalmInv
<1> QED
    BY <1>1, <1>4, <1>5, <1>6, <1>7, <1>8, MessageStep

LEMMA CalmEcho ==
    ASSUME TypeInv, CalmInv, Calm, NEW m \in Messages, EchoStores(m)
    PROVE  CalmInv' /\ cache' = cache
<1>1. /\ UNCHANGED <<use, head, group, used, invited, queue, caughtUp, failed, arrived,
                     known, decryption, reader, notifier, pass>>
      /\ echo[m] # "none" /\ echo' = [echo EXCEPT ![m] = "none"]
    BY DEF EchoStores
<1>2. cache' = cache /\ MessageInv(m)
    <2>1. cache[m] = echo[m] /\ MessageInv(m)
        BY <1>1 DEF CalmInv, MessageInv, EchoOK
    <2> QED
        BY <2>1 DEF EchoStores, Store, TypeInv, StoredOK
<1>3. /\ \A n \in Messages \ {m} : Same(n)
      /\ echo'[m] = "none"
    BY <1>1, <1>2 DEF Same, TypeInv, CallersOK
<1>4. MessageInv(m)'
    <2>1. Visits' = Visits /\ IsAwaited(m)' = IsAwaited(m) /\ HeldByPass(m)' = HeldByPass(m)
        BY <1>1 DEF Visits, IsAwaited, HeldByPass, AwaitedBy, Current
    <2> QED
        BY <1>1, <1>2, <1>3, <2>1 DEF MessageInv, DecryptionOK, IsAwaited, ReaderOK, EventOK, EchoOK,
            Settled, Untouched, Attended, Carried, HeldByPass
<1>5. ASSUME NEW p \in Passes PROVE PassInv(p)'
    BY <1>1, <1>2, <1>3, PassUntouched DEF CalmInv, Same
<1>8. OneEpoch'
    BY <1>1, SameGroup DEF CalmInv
<1> QED
    BY <1>1, <1>2, <1>3, <1>4, <1>5, <1>8, MessageStep

(* A message that is being decrypted is in the hands of its callers only. *)
LEMMA Unheld ==
    ASSUME TypeInv, CalmInv, Calm, NEW m \in Messages, decryption[m] # NoDecryption
    PROVE  /\ ~HeldByPass(m) /\ MessageInv(m)
           /\ \A p \in Passes : /\ PassInv(p)
                                /\ pass[p].kind = "load" => AwaitedBy(p, m)
                                /\ pass[p].kind # "load" => m \notin pass[p].todo
                                /\ pass[p].shown[m] \in {"none", "plain"}
           /\ reader[m] \in {"idle", "exists", "wait"} /\ notifier[m] \in {"idle", "wait"}
           /\ echo[m] \in {"none", "plain"}
           /\ ~Visits => m \in arrived /\ queue[m] = None
<1>1. MessageInv(m) /\ \A p \in Passes : PassInv(p) /\ Shape(pass[p])
    BY DEF CalmInv, TypeInv, PassesOK
<1>2. Attended(m) /\ ~Settled(m)
    BY DEF Attended, Settled
<1>3. ASSUME NEW p \in Passes
      PROVE  /\ pass[p].kind = "load" => AwaitedBy(p, m)
             /\ pass[p].kind # "load" => m \notin pass[p].todo
             /\ pass[p].shown[m] \in {"none", "plain"}
             /\ ~(pass[p].value = "plain" /\ Current(p) = m)
    <2>1. pass[p].kind = "load" => AwaitedBy(p, m)
        BY <1>1 DEF PassInv, LoadIsAlone
    <2>2. Typed /\ pass[p].kind \in {"none", "load", "replay", "retry"}
        BY <1>1 DEF TypeInv, PassesOK, Typed, Pass, PassInv, RunsAlone, Active
    <2>3. pass[p].kind # "load" => m \notin pass[p].todo
        <3>1. CASE pass[p].kind = "none"
            BY <1>1, <3>1 DEF Shape, NoPass
        <3>2. CASE pass[p].kind \in {"replay", "retry"}
            BY <1>1, <1>2, <3>2 DEF PassInv, TodoIsUnattended
        <3> QED
            BY <2>2, <3>1, <3>2
    <2>4. pass[p].shown[m] \in {"none", "plain"}
        BY <1>1, <1>2 DEF PassInv, ShownIsCached
    <2>5. ~(pass[p].value = "plain" /\ Current(p) = m)
        <3>1. CASE AwaitedBy(p, m)
            BY <1>1, <3>1 DEF AwaitedBy, Shape, Storing
        <3>2. CASE m \notin pass[p].todo
            BY <1>1, <2>2, <3>2, CurrentIsIn DEF Shape, Storing
        <3> QED
            BY <2>1, <2>3, <3>1, <3>2
    <2> QED
        BY <2>1, <2>3, <2>4, <2>5
<1>4. reader[m] \in {"idle", "exists", "wait"} /\ notifier[m] \in {"idle", "wait"}
    BY <1>1 DEF MessageInv, ReaderOK, Values, TypeInv, CallersOK
<1>5. echo[m] \in {"none", "plain"}
    BY <1>1, <1>2 DEF MessageInv, EchoOK
<1>6. ~Visits => m \in arrived /\ queue[m] = None
    BY <1>1, <1>2 DEF MessageInv, EventOK, Untouched
<1> QED
    BY <1>1, <1>3, <1>4, <1>5, <1>6 DEF HeldByPass

(* The result reaches everyone who waited. *)
LEMMA Delivered ==
    ASSUME TypeInv, CalmInv, Calm, NEW m \in Messages, NEW r \in {"plain", "pending", "undec"},
           decryption[m] # NoDecryption, reader[m] # "exists", Deliver(m, r),
           UNCHANGED <<use, failed, cache, arrived>>, OneEpoch',
           \A n \in Messages \ {m} : (n \in used' => n \in used) /\ queue'[n] = queue[n],
           m \in used' => r = "plain" \/ m \in used,
           r # "pending" => queue'[m] = queue[m],
           Visits => queue'[m] <= 0
    PROVE  CalmInv'
<1>1. /\ ~HeldByPass(m) /\ MessageInv(m)
      /\ \A p \in Passes : /\ PassInv(p)
                           /\ pass[p].kind = "load" => AwaitedBy(p, m)
                           /\ pass[p].kind # "load" => m \notin pass[p].todo
                           /\ pass[p].shown[m] \in {"none", "plain"}
      /\ reader[m] \in {"idle", "wait"} /\ notifier[m] \in {"idle", "wait"}
      /\ echo[m] \in {"none", "plain"}
      /\ ~Visits => m \in arrived /\ queue[m] = None
    BY Unheld
<1>2. /\ \A n \in Messages \ {m} : /\ reader'[n] = reader[n] /\ notifier'[n] = notifier[n]
                                   /\ decryption'[n] = decryption[n]
      /\ decryption'[m] = NoDecryption /\ echo' = echo
      /\ reader'[m] = IF reader[m] = "wait" THEN ReaderValue(m, r) ELSE reader[m]
      /\ notifier'[m] = IF notifier[m] = "wait" /\ r = "plain" THEN "plain" ELSE "idle"
    BY <1>1 DEF Deliver, TypeInv, CallersOK
<1>3. ReaderValue(m, r) \in {"idle", "plain", "undec", "blank"}
      /\ (ReaderValue(m, r) = "idle" <=> r = "pending") /\ (ReaderValue(m, r) = "plain" <=> r = "plain")
    BY DEF ReaderValue
<1>4. Typed /\ \A p \in Passes : Shape(pass[p])
    BY DEF TypeInv, PassesOK, Typed
<1>5. \A p \in Passes :
          IF AwaitedBy(p, m)
          THEN /\ pass'[p].kind = "load" /\ pass'[p].todo = pass[p].todo
               /\ pass'[p].gap = pass[p].gap /\ pass'[p].tries = pass[p].tries
               /\ pass'[p].shown = pass[p].shown
               /\ pass'[p].pc = IF pass[p].pc = "gapWait" THEN "gapStore" ELSE "orphanStore"
               /\ pass'[p].value = Answer(p, m, r)
          ELSE pass'[p] = pass[p]
    BY <1>4, PassesAnswered DEF Deliver
<1>6. \A p \in Passes : Current(p)' = Current(p) /\ pass'[p].kind = pass[p].kind
    BY <1>5 DEF Current, AwaitedBy
<1>7. Visits' = Visits /\ \A p \in Passes : Active(p)' = Active(p)
    BY <1>6 DEF Visits, Active
<1>8. \A n \in Messages \ {m} : Same(n)
    BY <1>2 DEF Same
<1>9. ASSUME NEW n \in Messages, n # m PROVE MessageInv(n)'
    <2>1. IsAwaited(n) => IsAwaited(n)'
        BY <1>5, <1>6, <1>9 DEF IsAwaited, AwaitedBy
    <2>2. HeldByPass(n) => HeldByPass(n)'
        BY <1>5, <1>6, <1>9 DEF HeldByPass, AwaitedBy
    <2> QED
        BY <1>8, <1>9, <2>1, <2>2, MessageKept DEF CalmInv
<1>10. MessageInv(m)'
    <2>1. DecryptionOK(m)'
        BY <1>1, <1>2, <1>7 DEF MessageInv, DecryptionOK, NoDecryption, None
    <2>2. ReaderOK(m)'
        BY <1>1, <1>2, <1>3 DEF MessageInv, ReaderOK, NoDecryption
    <2>3. EventOK(m)'
        <3>1. m \notin arrived => reader[m] = "idle" /\ notifier[m] = "idle"
            BY <1>1 DEF MessageInv, EventOK
        <3>2. r = "pending" => ~Attended(m)'
            BY <1>1, <1>2, <1>3 DEF Attended
        <3>3. ~Visits /\ queue'[m] # None => Settled(m)'
            BY <1>1, <1>7, <3>2 DEF Settled
        <3> QED
            BY <1>1, <1>2, <1>7, <3>1, <3>3 DEF EventOK
    <2>4. EchoOK(m)'
        BY <1>1, <1>2 DEF MessageInv, EchoOK
    <2>5. m \in used' => Carried(m)'
        <3>1. CASE m \in used
            BY <1>1, <1>2, <3>1 DEF MessageInv, Carried, HeldByPass
        <3>2. CASE r = "plain"
            <4>1. reader[m] = "wait" \/ notifier[m] = "wait" \/ IsAwaited(m)
                BY <1>1 DEF MessageInv, DecryptionOK, IsAwaited
            <4>2. CASE IsAwaited(m)
                <5>1. PICK p \in Passes : AwaitedBy(p, m)
                    BY <4>2 DEF IsAwaited
                <5>2. pass'[p].value = "plain" /\ Current(p)' = m
                    BY <1>5, <1>6, <3>2, <5>1 DEF Answer, LoadValue, AwaitedBy
                <5> QED
                    BY <5>2 DEF Carried
            <4> QED
                BY <1>2, <1>3, <3>2, <4>1, <4>2 DEF Carried
        <3> QED
            BY <3>1, <3>2
    <2> QED
        BY <2>1, <2>2, <2>3, <2>4, <2>5 DEF MessageInv
<1>11. ASSUME NEW p \in Passes PROVE PassInv(p)'
    <2>1. CASE AwaitedBy(p, m)
        <3>1. pass[p].kind = "load" /\ pass[p].pc \in {"orphanWait", "gapWait"} /\ Current(p) = m
            BY <2>1 DEF AwaitedBy
        <3>2. RunsAlone(p)'
            BY <1>1, <1>6, <1>7 DEF PassInv, RunsAlone
        <3>3. LoadIsAlone(p)'
            <4>1. \A n \in Messages \ {m} : decryption[n] = NoDecryption
                BY <1>1, <3>1 DEF PassInv, LoadIsAlone, AwaitedBy
            <4> QED
                BY <1>1, <1>2, <1>7, <3>1, <4>1 DEF PassInv, LoadIsAlone
        <3>4. LoadFillsGaps(p)'
            BY <1>1, <1>5, <2>1, <3>1 DEF PassInv, LoadFillsGaps
        <3>5. TodoIsUnattended(p)' /\ RetryIsQuiet(p)' /\ ReplayFills(p)'
            BY <1>6, <3>1 DEF TodoIsUnattended, RetryIsQuiet, ReplayFills
        <3>6. ShownIsCached(pass[p].shown)'
            <4>1. pass'[p].shown = NoValues
                BY <1>1, <1>5, <2>1, <3>1 DEF PassInv, LoadFillsGaps
            <4> QED
                BY <4>1 DEF ShownIsCached, NoValues
        <3>7. (Visits => \A n \in Messages : pass[p].tries[n] <= 0)'
            BY <1>1, <1>5, <1>7, <2>1 DEF PassInv
        <3> QED
            BY <3>2, <3>3, <3>4, <3>5, <3>6, <3>7 DEF PassInv
    <2>2. CASE ~AwaitedBy(p, m)
        <3>1. pass'[p] = pass[p] /\ pass[p].kind # "load" /\ m \notin pass[p].todo
            BY <1>1, <1>5, <2>2
        <3>2. ~Settled(m) /\ (\A q \in Passes : Active(q)' => Active(q)) /\ echo'[m] \in {echo[m], "none"}
            BY <1>2, <1>7 DEF Settled, Attended
        <3> QED
            BY <1>1, <1>8, <3>1, <3>2, PassKept
    <2> QED
        BY <2>1, <2>2
<1> QED
    BY <1>9, <1>10, <1>11 DEF CalmInv, Calm

(* A decryption goes on to its next stage. *)
GoesOn(m) ==
    /\ UNCHANGED <<use, failed, queue, cache, arrived, reader, notifier, echo>>
    /\ used' \subseteq used
    /\ \A n \in Messages \ {m} : decryption'[n] = decryption[n]
    /\ decryption'[m].pc \notin {"idle", "try"}
    /\ Visits => /\ decryption'[m].tries <= 0
                 /\ decryption'[m].pc \notin {"catchUp", "replaying", "again"}

LEMMA MessagesGoOn ==
    ASSUME CalmInv, Calm, NEW m \in Messages, decryption[m] # NoDecryption, reader[m] # "exists",
           GoesOn(m),
           \A n \in Messages : /\ IsAwaited(n) => IsAwaited(n)'
                               /\ HeldByPass(n) => HeldByPass(n)'
    PROVE  /\ \A n \in Messages : MessageInv(n)'
           /\ \A n \in Messages : decryption'[n] = NoDecryption <=> decryption[n] = NoDecryption
<1>1. Visits' = Visits /\ decryption'[m] # NoDecryption
    BY DEF GoesOn, Visits, NoDecryption
<1>2. ASSUME NEW n \in Messages, n # m PROVE MessageInv(n)'
    BY <1>2, MessageKept DEF CalmInv, GoesOn, Same
<1>3. MessageInv(m)'
    <2>0. MessageInv(m)
        BY DEF CalmInv
    <2>1. DecryptionOK(m)'
        BY <1>1, <2>0 DEF GoesOn, MessageInv, DecryptionOK, IsAwaited
    <2>2. ReaderOK(m)'
        BY <1>1, <2>0 DEF GoesOn, MessageInv, ReaderOK
    <2>3. EventOK(m)' /\ EchoOK(m)'
        BY <1>1, <2>0 DEF GoesOn, MessageInv, EventOK, EchoOK, Untouched, Settled, Attended
    <2>4. m \in used' => Carried(m)'
        BY <2>0 DEF GoesOn, MessageInv, Carried, HeldByPass
    <2> QED
        BY <2>1, <2>2, <2>3, <2>4 DEF MessageInv
<1> QED
    BY <1>1, <1>2, <1>3 DEF GoesOn

LEMMA PassSees ==
    ASSUME TypeInv, NEW p \in Passes, PassInv(p),
           UNCHANGED <<use, pass, reader, notifier, echo, cache, arrived>>,
           \A n \in Messages : decryption'[n] = NoDecryption <=> decryption[n] = NoDecryption
    PROVE  PassInv(p)'
<1>1. Visits' = Visits /\ \A q \in Passes : pass'[q] = pass[q] /\ Current(q)' = Current(q)
    BY DEF Visits, Current
<1>2. pass[p].todo \subseteq Messages
    BY DEF TypeInv, PassesOK, Pass
<1>3. RunsAlone(p)' /\ LoadIsAlone(p)' /\ LoadFillsGaps(p)'
    BY <1>1 DEF PassInv, RunsAlone, LoadIsAlone, LoadFillsGaps, Active, AwaitedBy
<1>4. TodoIsUnattended(p)' /\ RetryIsQuiet(p)' /\ ReplayFills(p)'
    BY <1>1, <1>2 DEF PassInv, TodoIsUnattended, RetryIsQuiet, ReplayFills, Attended
<1>5. ShownIsCached(pass[p].shown)'
    BY <1>1 DEF PassInv, ShownIsCached, Settled, Attended
<1> QED
    BY <1>1, <1>3, <1>4, <1>5 DEF PassInv

LEMMA WentOn ==
    ASSUME TypeInv, CalmInv, Calm, NEW m \in Messages, decryption[m] # NoDecryption,
           reader[m] # "exists", GoesOn(m), UNCHANGED pass, OneEpoch'
    PROVE  CalmInv'
<1>1. \A n \in Messages : IsAwaited(n)' = IsAwaited(n) /\ HeldByPass(n)' = HeldByPass(n)
    BY DEF IsAwaited, HeldByPass, AwaitedBy, Current
<1>2. /\ \A n \in Messages : MessageInv(n)'
      /\ \A n \in Messages : decryption'[n] = NoDecryption <=> decryption[n] = NoDecryption
    BY <1>1, MessagesGoOn
<1>3. \A p \in Passes : PassInv(p)'
    BY <1>2, PassSees DEF CalmInv, GoesOn
<1> QED
    BY <1>2, <1>3 DEF CalmInv, GoesOn

(* Before a decryption: what its stage says. *)
LEMMA AtStage ==
    ASSUME TypeInv, CalmInv, Calm, NEW m \in Messages, ~DecryptAt(m, "idle")
    PROVE  /\ decryption[m] # NoDecryption /\ MessageInv(m)
           /\ reader[m] = "exists" => DecryptAt(m, "try")
           /\ Visits => /\ decryption[m].tries <= 0 /\ queue[m] <= 0
                        /\ decryption[m].pc \notin {"catchUp", "replaying", "again"}
           /\ decryption[m] \in [pc : Stages, fatal : BOOLEAN, tries : Int]
           /\ ~failed
<1>1. decryption[m] # NoDecryption /\ MessageInv(m) /\ ~failed
    BY DEF DecryptAt, NoDecryption, CalmInv
<1>2. decryption[m] \in [pc : Stages, fatal : BOOLEAN, tries : Int]
    BY DEF TypeInv, CallersOK
<1> QED
    BY <1>1, <1>2 DEF MessageInv, ReaderOK, DecryptionOK, DecryptAt

(* With visits there is one epoch, and no message is ahead of the group.   *)
LEMMA NotAhead ==
    ASSUME Orderly, TypeInv, CalmInv, Calm, NEW m \in Messages
    PROVE  /\ Verdict(m) \in Verdicts /\ (Verdict(m) = "plain" => m \notin used)
           /\ Verdict(m) = "past" => m \in used
           /\ Visits => Verdict(m) \in {"unready", "plain", "past"}
<1>1. GroupOK
    BY DEF TypeInv
<1>2. Visits /\ HasGroup => EpochOf[m] = 0 /\ group.epoch = 0 /\ group.base = 0
    BY OrderlyUse DEF CalmInv, OneEpoch
<1> QED
    BY <1>1, <1>2, VerdictIs

LEMMA CalmAttempt ==
    ASSUME Orderly, TypeInv, CalmInv, Calm, NEW m \in Messages,
           DecryptTry(m) \/ DecryptAgain(m) \/ DecryptHealed(m)
    PROVE  CalmInv' /\ cache' = cache
<1>1. /\ UNCHANGED <<use, head, group, invited, queue, cache, failed, arrived, known>>
      /\ Consume(m) /\ ~DecryptAt(m, "idle")
      /\ DecryptAt(m, "try") => reader[m] # "exists"
    BY DEF DecryptTry, DecryptAgain, DecryptHealed, DecryptAt, Calm
<1>2. /\ decryption[m] # NoDecryption /\ reader[m] # "exists" /\ ~failed
      /\ decryption[m] \in [pc : Stages, fatal : BOOLEAN, tries : Int]
      /\ Visits => /\ decryption[m].tries <= 0 /\ queue[m] <= 0
                   /\ decryption[m].pc \notin {"catchUp", "replaying", "again"}
    BY <1>1, AtStage
<1>3. OneEpoch'
    BY <1>1, SameGroup DEF CalmInv
<1>4. Visits' = Visits
    BY <1>1 DEF Visits
<1>5. CASE Verdict(m) = "plain"
    <2>1. Deliver(m, "plain") /\ used' = used \cup {m}
        BY <1>1, <1>2, <1>5 DEF DecryptTry, DecryptAgain, DecryptHealed, Consume
    <2>2. /\ \A n \in Messages \ {m} : (n \in used' => n \in used) /\ queue'[n] = queue[n]
          /\ queue'[m] = queue[m]
        BY <1>1, <2>1
    <2> QED
        BY <1>1, <1>2, <1>3, <1>4, <2>1, <2>2, Delivered
<1>6. CASE Verdict(m) # "plain"
    <2>1. used' = used /\ UNCHANGED callers
        BY <1>1, <1>6 DEF DecryptTry, DecryptAgain, DecryptHealed, Consume
    <2>2. /\ \A n \in Messages \ {m} : decryption'[n] = decryption[n]
          /\ decryption'[m].tries = decryption[m].tries
          /\ \/ decryption'[m].pc \in {"heal", "verdict"}
             \/ decryption'[m].pc = "catchUp" /\ Verdict(m) = "ahead"
        <3>1. CASE DecryptTry(m)
            BY <1>2, <1>6, <3>1 DEF DecryptTry, TypeInv, CallersOK
        <3>2. CASE DecryptAgain(m)
            BY <1>2, <1>6, <3>2 DEF DecryptAgain, TypeInv, CallersOK
        <3>3. CASE DecryptHealed(m)
            BY <1>2, <1>6, <3>3 DEF DecryptHealed, Proceed, TypeInv, CallersOK
        <3> QED
            BY <3>1, <3>2, <3>3
    <2>3. GoesOn(m)
        <3>1. Visits => Verdict(m) # "ahead"
            BY NotAhead
        <3> QED
            BY <1>1, <1>2, <2>1, <2>2, <3>1 DEF GoesOn, callers
    <2> QED
        BY <1>1, <1>2, <1>3, <2>1, <2>3, WentOn DEF callers
<1> QED
    BY <1>1, <1>5, <1>6

LEMMA CalmHeal ==
    ASSUME Orderly, TypeInv, CalmInv, Calm, NEW m \in Messages, DecryptHeal(m)
    PROVE  CalmInv' /\ cache' = cache
<1>1. /\ UNCHANGED <<use, head, queue, cache, failed, arrived, known, reader, notifier, echo, pass>>
      /\ ~DecryptAt(m, "idle") /\ ~DecryptAt(m, "try")
    BY DEF DecryptHeal, DecryptAt, callers
<1>2. /\ decryption[m] # NoDecryption /\ reader[m] # "exists" /\ ~failed
      /\ decryption[m] \in [pc : Stages, fatal : BOOLEAN, tries : Int]
      /\ Visits => decryption[m].tries <= 0
    BY <1>1, AtStage
<1>3. OneEpoch'
    <2>1. \/ group' = group
          \/ group' = [base |-> head, epoch |-> head]
        BY DEF DecryptHeal
    <2>2. Visits' = Visits /\ (Visits => head = 0)
        BY <1>1, OrderlyUse DEF Visits
    <2> QED
        BY <2>1, <2>2 DEF OneEpoch, CalmInv, HasGroup
<1>4. /\ used' \subseteq used
      /\ \A n \in Messages \ {m} : decryption'[n] = decryption[n]
      /\ decryption'[m].tries = decryption[m].tries
      /\ decryption'[m].pc \in {"healed", "verdict"}
    <2>1. PICK pc \in {"healed", "verdict"} : Proceed(m, pc)
        BY DEF DecryptHeal
    <2>2. used' \subseteq used
        BY DEF DecryptHeal
    <2> QED
        BY <1>2, <2>1, <2>2 DEF Proceed, TypeInv, CallersOK
<1>5. GoesOn(m)
    BY <1>1, <1>2, <1>4 DEF GoesOn
<1> QED
    BY <1>1, <1>2, <1>3, <1>5, WentOn

LEMMA CalmEnqueue ==
    ASSUME TypeInv, CalmInv, Calm, NEW m \in Messages,
           DecryptVerdict(m) \/ DecryptEnqueue(m)
    PROVE  CalmInv' /\ cache' = cache
<1>1. /\ UNCHANGED <<use, head, group, used, invited, cache, failed, arrived, known>>
      /\ ~DecryptAt(m, "idle") /\ ~DecryptAt(m, "try")
    BY DEF DecryptVerdict, DecryptEnqueue, DecryptAt, stored
<1>2. /\ decryption[m] # NoDecryption /\ reader[m] # "exists" /\ ~failed
      /\ decryption[m] \in [pc : Stages, fatal : BOOLEAN, tries : Int]
      /\ Visits => decryption[m].tries <= 0 /\ queue[m] <= 0
    BY <1>1, AtStage
<1>3. OneEpoch' /\ Visits' = Visits
    BY <1>1, SameGroup DEF CalmInv, Visits
<1>4. CASE DecryptVerdict(m)
    <2>0. UNCHANGED queue
        BY <1>4 DEF DecryptVerdict, stored
    <2>1. CASE Deliver(m, "undec")
        BY <1>1, <1>2, <1>3, <2>0, <2>1, Delivered
    <2>2. CASE ~Deliver(m, "undec")
        <3>1. /\ decryption' = [decryption EXCEPT ![m].pc = "put", ![m].tries = queue[m]]
              /\ UNCHANGED callers
            BY <1>4, <2>2 DEF DecryptVerdict
        <3>2. /\ \A n \in Messages \ {m} : decryption'[n] = decryption[n]
              /\ decryption'[m].tries = queue[m] /\ decryption'[m].pc = "put"
            BY <1>2, <3>1 DEF TypeInv, CallersOK
        <3>3. GoesOn(m)
            BY <1>1, <1>2, <2>0, <3>1, <3>2 DEF GoesOn, callers
        <3> QED
            BY <1>1, <1>2, <1>3, <3>1, <3>3, WentOn DEF callers
    <2> QED
        BY <2>1, <2>2
<1>5. CASE DecryptEnqueue(m)
    <2>1. Deliver(m, "pending") /\ Enqueue(m)
        BY <1>5 DEF DecryptEnqueue
    <2>2. /\ \A n \in Messages \ {m} : queue'[n] = queue[n]
          /\ Visits => queue'[m] <= 0
        BY <1>2, <2>1 DEF Enqueue, TypeInv, StoredOK
    <2> QED
        BY <1>1, <1>2, <1>3, <2>1, <2>2, Delivered
<1> QED
    BY <1>1, <1>4, <1>5

LEMMA CalmCatchUp ==
    ASSUME TypeInv, CalmInv, Calm, NEW m \in Messages, DecryptCatchUp(m)
    PROVE  CalmInv' /\ cache' = cache
<1>1. /\ UNCHANGED <<use, head, used, invited, queue, cache, failed, arrived, known,
                     reader, notifier, echo>>
      /\ DecryptAt(m, "catchUp")
    BY DEF DecryptCatchUp
<1>2. /\ decryption[m] # NoDecryption /\ reader[m] # "exists" /\ ~failed
      /\ decryption[m] \in [pc : Stages, fatal : BOOLEAN, tries : Int]
      /\ ~Visits
    BY <1>1, AtStage DEF DecryptAt
<1>3. Visits' = Visits
    BY <1>1 DEF Visits
<1>4. OneEpoch'
    BY <1>2, <1>3 DEF OneEpoch
<1>5. /\ \A n \in Messages \ {m} : decryption'[n] = decryption[n]
      /\ decryption'[m].pc \notin {"idle", "try"}
    <2>1. \/ \E pc \in {"replaying", "again"} : Proceed(m, pc)
          \/ decryption' = [decryption EXCEPT ![m].pc = "heal", ![m].fatal = caughtUp]
        BY DEF DecryptCatchUp
    <2> QED
        BY <1>2, <2>1 DEF Proceed, TypeInv, CallersOK
<1>6. GoesOn(m)
    BY <1>1, <1>2, <1>5 DEF GoesOn
<1>7. CASE UNCHANGED pass
    BY <1>1, <1>2, <1>4, <1>6, <1>7, WentOn
<1>8. CASE ~UNCHANGED pass
    <2>1. PICK p \in Passes : Idle(p) /\ MayReplay /\ EntersReplay(p, m)
        BY <1>8 DEF DecryptCatchUp, EntersReplay
    <2>2. /\ Typed /\ Others(p)
          /\ pass'[p].pc = "next" /\ pass'[p].kind = "replay"
          /\ pass'[p].todo = {n \in Messages : queue[n] # None} /\ pass'[p].tries = queue
          /\ pass'[p].value = "none" /\ pass'[p].shown = NoValues
        BY <2>1, ReplayEntered DEF TypeInv, PassesOK, Typed, StoredOK
    <2>3. \A q \in Passes : pass[q] = NoPass
        <3>1. ASSUME NEW q \in Passes PROVE pass[q].kind = "none"
            <4>1. pass[q].kind \in {"none", "load"}
                BY <2>1 DEF MayReplay, Calm
            <4>2. pass[q].kind # "load"
                BY <1>2 DEF CalmInv, PassInv, LoadIsAlone
            <4> QED
                BY <4>1, <4>2
        <3> QED
            BY <3>1 DEF TypeInv, PassesOK, Shape
    <2>4. NoPass.kind = "none" /\ NoPass.value = "none"
        BY DEF NoPass
    <2>5. \A n \in Messages : ~IsAwaited(n) /\ ~HeldByPass(n)
        BY <2>3, <2>4 DEF IsAwaited, HeldByPass, AwaitedBy
    <2>6. /\ \A n \in Messages : MessageInv(n)'
          /\ \A n \in Messages : decryption'[n] = NoDecryption <=> decryption[n] = NoDecryption
        BY <1>2, <1>6, <2>5, MessagesGoOn
    <2>7. ASSUME NEW q \in Passes, q # p PROVE PassInv(q)'
        <3>1. pass'[q] = NoPass
            BY <2>2, <2>3, <2>7 DEF Others
        <3> QED
            BY <3>1, NoPassAfter
    <2>8. PassInv(p)'
        <3>1. RunsAlone(p)'
            BY <1>1, <2>1, <2>2, <2>3, <2>4 DEF RunsAlone, Active, Others, Idle
        <3>2. LoadIsAlone(p)' /\ LoadFillsGaps(p)' /\ RetryIsQuiet(p)' /\ ReplayFills(p)'
            BY <1>2, <1>3, <2>2 DEF LoadIsAlone, LoadFillsGaps, RetryIsQuiet, ReplayFills
        <3>3. TodoIsUnattended(p)'
            <4>1. \A n \in Messages : queue[n] # None => Settled(n)
                BY <1>2 DEF CalmInv, MessageInv, EventOK
            <4> QED
                BY <1>1, <2>2, <2>6, <4>1 DEF TodoIsUnattended, Settled, Attended
        <3>4. ShownIsCached(pass[p].shown)'
            BY <2>2 DEF ShownIsCached, NoValues
        <3> QED
            BY <1>2, <1>3, <3>1, <3>2, <3>3, <3>4 DEF PassInv
    <2> QED
        BY <1>1, <1>2, <1>4, <2>6, <2>7, <2>8 DEF CalmInv
<1> QED
    BY <1>1, <1>7, <1>8

LEMMA CalmDecrypt ==
    ASSUME Orderly, TypeInv, CalmInv, Calm, NEW m \in Messages, Decrypt(m)
    PROVE  CalmInv' /\ cache' = cache
BY CalmAttempt, CalmHeal, CalmEnqueue, CalmCatchUp DEF Decrypt

-----------------------------------------------------------------------------
(* CalmInv is preserved by the passes. *)

TextsKept == \A m \in Messages : cache[m] = "plain" => cache'[m] = "plain"

LEMMA Alone ==
    ASSUME TypeInv, CalmInv, Calm, NEW p \in Passes, Active(p)
    PROVE  /\ p \in use.passes /\ pass[p].kind \in {"load", "replay", "retry"}
           /\ \A q \in Passes \ {p} : pass[q] = NoPass
           /\ PassInv(p) /\ Shape(pass[p]) /\ Typed
           /\ \A m \in Messages : /\ IsAwaited(m) => AwaitedBy(p, m)
                                  /\ HeldByPass(m) => pass[p].value = "plain" /\ Current(p) = m
<1>1. PassInv(p) /\ RunsAlone(p) /\ Typed /\ \A q \in Passes : Shape(pass[q])
    BY DEF CalmInv, PassInv, TypeInv, PassesOK, Typed
<1>2. p \in use.passes /\ pass[p].kind \in {"load", "replay", "retry"}
    BY <1>1 DEF RunsAlone, Active, Typed, Pass
<1>3. \A q \in Passes \ {p} : pass[q] = NoPass
    BY <1>1 DEF RunsAlone, Active, Shape
<1>4. NoPass.kind = "none" /\ NoPass.value = "none"
    BY DEF NoPass
<1>5. \A m \in Messages : /\ IsAwaited(m) => AwaitedBy(p, m)
                          /\ HeldByPass(m) => pass[p].value = "plain" /\ Current(p) = m
    BY <1>3, <1>4 DEF IsAwaited, AwaitedBy, HeldByPass
<1> QED
    BY <1>1, <1>2, <1>3, <1>5

LEMMA PassStep ==
    ASSUME CalmInv, Calm, NEW p \in Passes, \A q \in Passes \ {p} : pass[q] = NoPass,
           Others(p), UNCHANGED <<use, failed>>, OneEpoch',
           PassInv(p)', \A m \in Messages : MessageInv(m)'
    PROVE  CalmInv'
<1>1. \A q \in Passes \ {p} : PassInv(q)'
    BY NoPassAfter DEF Others
<1> QED
    BY <1>1 DEF CalmInv

LEMMA StillAlone ==
    ASSUME CalmInv, NEW p \in Passes, p \in use.passes, \A q \in Passes \ {p} : pass[q] = NoPass,
           Others(p), UNCHANGED use, pass'[p].kind # "clear"
    PROVE  RunsAlone(p)'
<1>1. NoPass.kind = "none"
    BY DEF NoPass
<1> QED
    BY <1>1 DEF RunsAlone, Active, Others

LEMMA CalmBegins ==
    ASSUME Orderly, TypeInv, CalmInv, Calm, NEW p \in Passes, Begins(p)
    PROVE  CalmInv' /\ TextsKept
<1>1. /\ Typed /\ Typed' /\ Others(p)
      /\ Idle(p) /\ MayBegin /\ pass'[p].kind \in use.kinds
      /\ pass'[p].gap = {} /\ pass'[p].tries = queue
      /\ pass'[p].value = "none" /\ pass'[p].shown = NoValues
      /\ \/ pass'[p].kind = "load" /\ pass'[p].pc = "ids" /\ pass'[p].todo = Orphans
         \/ /\ pass'[p].kind = "replay" /\ pass'[p].pc = "next"
            /\ pass'[p].todo = {m \in Messages : queue[m] # None}
         \/ /\ pass'[p].kind = "retry" /\ pass'[p].pc = "next"
            /\ pass'[p].todo = {m \in Messages : cache[m] = "undec"}
         \/ pass'[p].kind = "clear"
      /\ UNCHANGED <<use, head, group, used, invited, queue, cache, caughtUp, failed, arrived,
                     decryption, reader, notifier, echo>>
    BY Beginnings DEF TypeInv, PassesOK, Typed
<1>2. pass'[p].kind # "clear"
    BY <1>1, OrderlyUse
<1>3. /\ \A q \in Passes : pass[q] = NoPass
      /\ \A m \in Messages : ~Attended(m) /\ echo[m] = "none"
    <2>1. /\ \A q \in use.passes : Idle(q)
          /\ \A m \in Messages : ~Attended(m) /\ echo[m] = "none"
        BY <1>1 DEF MayBegin, Calm
    <2>2. ASSUME NEW q \in Passes PROVE pass[q] = NoPass
        BY <2>1 DEF CalmInv, PassInv, RunsAlone, Active, Idle, TypeInv, PassesOK, Shape
    <2> QED
        BY <2>1, <2>2
<1>4. NoPass.kind = "none" /\ NoPass.value = "none"
    BY DEF NoPass
<1>5. \A m \in Messages : ~IsAwaited(m) /\ ~HeldByPass(m) /\ Same(m) /\ MessageInv(m)
    BY <1>1, <1>3, <1>4 DEF IsAwaited, HeldByPass, AwaitedBy, Same, CalmInv
<1>6. \A m \in Messages : MessageInv(m)'
    BY <1>1, <1>5, MessageKept
<1>7. Visits' = Visits /\ OneEpoch'
    BY <1>1, SameGroup DEF Visits, CalmInv
<1>8. PassInv(p)'
    <2>1. RunsAlone(p)'
        BY <1>1, <1>2, <1>3, StillAlone DEF Idle
    <2>2. LoadIsAlone(p)'
        BY <1>1, <1>3, <1>7 DEF LoadIsAlone, Visits, Attended
    <2>3. LoadFillsGaps(p)'
        BY <1>1 DEF LoadFillsGaps, Orphans
    <2>4. TodoIsUnattended(p)'
        <3>1. ASSUME NEW m \in Messages, ~Visits, queue[m] # None \/ cache[m] = "undec"
              PROVE  m \in arrived
            BY <1>5, <3>1 DEF MessageInv, EventOK, Untouched
        <3>2. \A m \in Messages : ~Attended(m)'
            BY <1>1, <1>3 DEF Attended
        <3> QED
            BY <1>1, <1>2, <1>7, <3>1, <3>2 DEF TodoIsUnattended
    <2>5. RetryIsQuiet(p)' /\ ReplayFills(p)'
        BY <1>1, <1>3 DEF RetryIsQuiet, ReplayFills
    <2>6. ShownIsCached(pass[p].shown)'
        BY <1>1 DEF ShownIsCached, NoValues
    <2>7. (Visits => \A m \in Messages : pass[p].tries[m] <= 0)'
        BY <1>1, <1>5, <1>7 DEF MessageInv, DecryptionOK
    <2> QED
        BY <2>1, <2>2, <2>3, <2>4, <2>5, <2>6, <2>7 DEF PassInv
<1>9. TextsKept
    BY <1>1 DEF TextsKept
<1> QED
    BY <1>1, <1>3, <1>6, <1>7, <1>8, <1>9, PassStep

LEMMA SameKept ==
    ASSUME TypeInv, CalmInv, Calm, NEW p \in Passes, Active(p), NEW m \in Messages, Same(m),
           UNCHANGED use, AwaitedBy(p, m) => IsAwaited(m)',
           pass[p].value = "plain" /\ Current(p) = m => HeldByPass(m)'
    PROVE  MessageInv(m)'
BY Alone, MessageKept DEF CalmInv

LEMMA CalmLoad ==
    ASSUME TypeInv, CalmInv, Calm, NEW p \in Passes, Load(p)
    PROVE  CalmInv' /\ TextsKept
<1>1. pass[p].kind = "load" /\ Active(p)
    BY DEF Load, LoadIds, LoadMissing, LoadAsks, LoadStores, At, Active
<1>2. /\ p \in use.passes /\ \A q \in Passes \ {p} : pass[q] = NoPass
      /\ PassInv(p) /\ Shape(pass[p]) /\ Typed /\ GroupOK
    BY <1>1, Alone DEF TypeInv
<1>3. /\ Others(p)
      /\ UNCHANGED <<use, head, group, used, invited, queue, caughtUp, failed, arrived,
                     reader, notifier, echo>>
    BY <1>2, LoadSteps
<1>4. Visits /\ Visits' = Visits /\ OneEpoch'
    BY <1>1, <1>2, <1>3, SameGroup DEF CalmInv, PassInv, LoadIsAlone, Visits
<1>5. /\ pass[p].shown = NoValues /\ (\A m \in Messages : pass[p].tries[m] <= 0)
      /\ \A m \in Messages : /\ reader[m] = "idle" /\ notifier[m] = "idle" /\ echo[m] = "none"
                             /\ decryption[m] # NoDecryption => AwaitedBy(p, m)
      /\ pass[p].todo \subseteq Messages /\ pass[p].gap \subseteq Messages
    BY <1>1, <1>2, <1>4, OwnFields DEF PassInv, LoadIsAlone, LoadFillsGaps
<1>6. ASSUME pass'[p].kind = "load", pass'[p].shown = pass[p].shown, pass'[p].tries = pass[p].tries,
             LoadFillsGaps(p)',
             \A m \in Messages : decryption'[m] # NoDecryption => AwaitedBy(p, m)'
      PROVE  PassInv(p)'
    <2>1. RunsAlone(p)'
        BY <1>2, <1>3, <1>6, StillAlone
    <2>2. LoadIsAlone(p)'
        BY <1>3, <1>4, <1>5, <1>6 DEF LoadIsAlone
    <2>3. TodoIsUnattended(p)' /\ RetryIsQuiet(p)' /\ ReplayFills(p)'
        BY <1>6 DEF TodoIsUnattended, RetryIsQuiet, ReplayFills
    <2>4. ShownIsCached(pass[p].shown)'
        BY <1>5, <1>6 DEF ShownIsCached, NoValues
    <2> QED
        BY <1>5, <1>6, <2>1, <2>2, <2>3, <2>4 DEF PassInv
<1>7. CASE LoadIds(p) \/ LoadMissing(p)
    <2>1. /\ pass'[p].kind = pass[p].kind /\ pass'[p].value = pass[p].value
          /\ pass'[p].shown = pass[p].shown /\ pass'[p].tries = pass[p].tries
          /\ \/ /\ pass[p].pc = "ids" /\ pass'[p].pc = "orphan"
                /\ pass'[p].todo = pass[p].todo
                /\ pass'[p].gap = {m \in Sent : cache[m] = "none"}
             \/ /\ pass[p].pc = "orphan" /\ pass'[p].pc = "gap"
                /\ pass'[p].todo = pass[p].gap \ known
        <3>1. CASE LoadIds(p)
            BY <1>2, <3>1, LoadSteps DEF Load, LoadIds, LoadMissing, LoadAsks, LoadStores, At
        <3>2. CASE LoadMissing(p)
            BY <1>2, <3>2, LoadSteps DEF Load, LoadIds, LoadMissing, LoadAsks, LoadStores, At
        <3> QED
            BY <1>7, <3>1, <3>2
    <2>2. UNCHANGED <<cache, decryption>>
        BY <1>7 DEF LoadIds, LoadMissing
    <2>3. pass[p].value = "none" /\ \A m \in Messages : ~AwaitedBy(p, m)
        BY <1>2, <2>1 DEF Shape, Storing, AwaitedBy
    <2>4. \A m \in Messages : MessageInv(m)'
        BY <1>1, <1>3, <2>2, <2>3, SameKept DEF Same
    <2>5. LoadFillsGaps(p)'
        BY <1>1, <1>2, <2>1, <2>2, <1>5 DEF PassInv, LoadFillsGaps
    <2>6. PassInv(p)'
        BY <1>1, <1>5, <1>6, <2>1, <2>2, <2>3, <2>5
    <2> QED
        BY <1>2, <1>3, <1>4, <2>2, <2>4, <2>6, PassStep DEF TextsKept
<1>8. CASE LoadAsks(p)
    <2>1. Asking(p) /\ UNCHANGED cache
        BY <1>2, <1>8, LoadSteps DEF Load, LoadIds, LoadMissing, LoadAsks, LoadStores, At
    <2>2. PICK c \in Messages : c = Current(p) /\ Ask(c)
        BY <1>2, <1>8, CurrentIsIn DEF LoadAsks
    <2>3. /\ pass'[p].kind = "load" /\ pass'[p].todo = pass[p].todo /\ pass'[p].gap = pass[p].gap
          /\ pass'[p].tries = pass[p].tries /\ pass'[p].value = pass[p].value
          /\ pass'[p].shown = pass[p].shown
          /\ \/ pass[p].pc = "orphan" /\ pass'[p].pc = "orphanWait"
             \/ pass[p].pc = "gap" /\ pass'[p].pc = "gapWait"
          /\ Current(p)' = c
        BY <2>1, <2>2 DEF Asking, Turns, At, Current
    <2>4. pass[p].value = "none" /\ \A m \in Messages : ~AwaitedBy(p, m)
        BY <1>2, <2>3 DEF Shape, Storing, AwaitedBy
    <2>5. /\ \A m \in Messages \ {c} : decryption'[m] = decryption[m]
          /\ decryption'[c].pc = "try" /\ decryption'[c].tries = None
        BY <1>5, <2>2, <2>4, Asked DEF TypeInv
    <2>6. AwaitedBy(p, c)'
        BY <2>3 DEF AwaitedBy
    <2>7. ASSUME NEW m \in Messages, m # c PROVE MessageInv(m)'
        BY <1>1, <1>3, <2>1, <2>4, <2>5, <2>7, SameKept DEF Same
    <2>8. MessageInv(c)'
        <3>1. MessageInv(c)
            BY DEF CalmInv
        <3>2. DecryptionOK(c)'
            BY <1>3, <1>4, <2>5, <2>6, <3>1 DEF MessageInv, DecryptionOK, None
        <3>3. ReaderOK(c)'
            BY <1>3, <1>5 DEF ReaderOK, Values
        <3>4. EventOK(c)' /\ EchoOK(c)'
            BY <1>3, <1>4, <1>5 DEF EventOK, EchoOK
        <3>5. c \in used' => Carried(c)'
            <4>1. c \in used => cache[c] = "plain"
                BY <1>1, <1>5, <2>4, <3>1, Alone DEF MessageInv, Carried, HeldByPass
            <4> QED
                BY <1>3, <2>1, <4>1 DEF Carried
        <3> QED
            BY <3>2, <3>3, <3>4, <3>5 DEF MessageInv
    <2>9. LoadFillsGaps(p)'
        BY <1>1, <1>2, <2>1, <2>3, <1>5 DEF PassInv, LoadFillsGaps
    <2>10. PassInv(p)'
        BY <1>5, <1>6, <2>3, <2>4, <2>5, <2>6, <2>9
    <2> QED
        BY <1>2, <1>3, <1>4, <2>1, <2>7, <2>8, <2>10, PassStep DEF TextsKept
<1>9. CASE LoadStores(p)
    <2>1. Filling(p) /\ UNCHANGED decryption
        BY <1>2, <1>9, LoadSteps DEF Load, LoadIds, LoadMissing, LoadAsks, LoadStores, At
    <2>2. PICK c \in Messages : c = Current(p) /\ c \in pass[p].todo
        BY <1>2, <2>1, CurrentIsIn DEF Filling, At, Shape, Storing
    <2>3. /\ pass'[p].kind = "load" /\ pass'[p].todo = pass[p].todo \ {c}
          /\ pass'[p].gap = pass[p].gap
          /\ pass'[p].tries = pass[p].tries /\ pass'[p].shown = pass[p].shown
          /\ \/ pass[p].pc = "orphanStore" /\ pass'[p].pc = "orphan"
             \/ pass[p].pc = "gapStore" /\ pass'[p].pc = "gap"
        BY <2>1, <2>2 DEF Filling, Drops, At
    <2>4. /\ \A m \in Messages \ {c} : cache'[m] = cache[m]
          /\ cache'[c] = IF pass[p].value = "none" THEN cache[c] ELSE pass[p].value
        BY <1>9, <2>2 DEF LoadStores, Store, TypeInv, StoredOK
    <2>5. cache[c] # "plain"
        BY <1>1, <1>2, <2>2 DEF PassInv, LoadFillsGaps
    <2>6. \A m \in Messages : ~AwaitedBy(p, m) /\ decryption[m] = NoDecryption
        BY <1>5, <2>3 DEF AwaitedBy
    <2>7. ASSUME NEW m \in Messages, m # c PROVE MessageInv(m)'
        BY <1>1, <1>3, <2>1, <2>2, <2>4, <2>6, <2>7, SameKept DEF Same
    <2>8. MessageInv(c)'
        <3>1. MessageInv(c)
            BY DEF CalmInv
        <3>2. DecryptionOK(c)'
            BY <1>3, <1>4, <2>1, <2>6, <3>1 DEF MessageInv, DecryptionOK, NoDecryption, None
        <3>3. ReaderOK(c)' /\ EventOK(c)' /\ EchoOK(c)'
            BY <1>3, <1>4, <1>5 DEF ReaderOK, EventOK, EchoOK, Values
        <3>4. c \in used' => Carried(c)'
            <4>1. c \in used => pass[p].value = "plain"
                BY <1>1, <1>5, <2>5, <3>1, Alone DEF MessageInv, Carried, HeldByPass
            <4> QED
                BY <1>3, <2>4, <4>1 DEF Carried
        <3> QED
            BY <3>2, <3>3, <3>4 DEF MessageInv
    <2>9. LoadFillsGaps(p)'
        <3>1. /\ \A m \in pass[p].todo :
                    cache[m] \in IF pass[p].pc = "gapStore" THEN {"none"} ELSE {"undec", "blank"}
              /\ pass[p].pc = "orphanStore" => \A m \in pass[p].gap : cache[m] = "none"
            BY <1>1, <1>2, <2>3 DEF PassInv, LoadFillsGaps
        <3>2. pass[p].pc = "orphanStore" => c \notin pass[p].gap
            BY <2>2, <3>1
        <3>3. pass'[p].shown = NoValues /\ \A m \in pass'[p].todo : m # c /\ cache'[m] = cache[m]
            BY <1>5, <2>3, <2>4
        <3>4. CASE pass[p].pc = "orphanStore"
            <4>1. \A m \in pass'[p].gap : cache'[m] = "none"
                BY ZenonT(60), <1>5, <2>3, <2>4, <3>1, <3>2, <3>4
            <4> QED
                BY <2>3, <3>1, <3>3, <3>4, <4>1 DEF LoadFillsGaps
        <3>5. CASE pass[p].pc = "gapStore"
            BY <2>3, <3>1, <3>3, <3>5 DEF LoadFillsGaps
        <3> QED
            BY <2>3, <3>4, <3>5
    <2>10. PassInv(p)'
        BY <1>6, <2>1, <2>3, <2>6, <2>9
    <2>11. TextsKept
        BY <2>4, <2>5 DEF TextsKept
    <2> QED
        BY <1>2, <1>3, <1>4, <2>7, <2>8, <2>10, <2>11, PassStep
<1> QED
    BY <1>7, <1>8, <1>9 DEF Load

(* The message a replay or a retry has taken is in nobody else's hands. *)
LEMMA Taken ==
    ASSUME TypeInv, CalmInv, Calm, NEW p \in Passes, pass[p].kind \in {"replay", "retry"},
           NEW c \in Messages, c = Current(p), c \in pass[p].todo
    PROVE  /\ reader[c] = "idle" /\ notifier[c] = "idle" /\ decryption[c] = NoDecryption
           /\ ~Visits => c \in arrived
           /\ c \in used => cache[c] = "plain" \/ pass[p].value = "plain"
           /\ Visits => queue[c] <= 0
<1>1. Active(p) /\ PassInv(p) /\ MessageInv(c)
    BY DEF Active, CalmInv
<1>2. ~Attended(c) /\ (Visits \/ c \in arrived)
    BY <1>1 DEF PassInv, TodoIsUnattended
<1>3. c \in used => cache[c] = "plain" \/ HeldByPass(c)
    BY <1>1, <1>2 DEF MessageInv, Carried, Attended, HeldByPass
<1>4. HeldByPass(c) => pass[p].value = "plain"
    BY <1>1, Alone
<1>5. Visits => queue[c] <= 0
    BY <1>1 DEF MessageInv, DecryptionOK
<1> QED
    BY <1>2, <1>3, <1>4, <1>5 DEF Attended

LEMMA TakenStep ==
    ASSUME TypeInv, CalmInv, Calm, NEW p \in Passes, pass[p].kind \in {"replay", "retry"},
           NEW c \in Messages, c = Current(p), c \in pass[p].todo,
           Others(p),
           UNCHANGED <<use, group, failed, arrived, decryption, reader, notifier, echo>>,
           pass'[p].kind = pass[p].kind, pass'[p].tries = pass[p].tries,
           pass'[p].todo \subseteq pass[p].todo,
           \A m \in Messages \ {c} : /\ cache'[m] = cache[m] /\ queue'[m] = queue[m]
                                     /\ m \in used' => m \in used,
           Visits => queue'[c] <= 0,
           c \in used' => Carried(c)',
           cache'[c] = cache[c] \/ echo[c] = "none",
           ReplayFills(p)', ShownIsCached(pass[p].shown)'
    PROVE  CalmInv'
<1>1. Active(p) /\ PassInv(p) /\ MessageInv(c)
    BY DEF Active, CalmInv
<1>2. p \in use.passes /\ \A q \in Passes \ {p} : pass[q] = NoPass
    BY <1>1, Alone
<1>3. Visits' = Visits /\ OneEpoch'
    BY SameGroup DEF CalmInv, Visits
<1>4. /\ reader[c] = "idle" /\ notifier[c] = "idle" /\ decryption[c] = NoDecryption
      /\ ~Visits => c \in arrived
    BY Taken
<1>5. NoDecryption.tries = None /\ NoDecryption.pc = "idle"
    BY DEF NoDecryption
<1>6. PassInv(p)'
    <2>1. RunsAlone(p)'
        BY <1>2, StillAlone
    <2>2. LoadIsAlone(p)' /\ LoadFillsGaps(p)'
        BY DEF LoadIsAlone, LoadFillsGaps
    <2>3. TodoIsUnattended(p)'
        <3>1. pass[p].todo \subseteq Messages
            BY DEF TypeInv, PassesOK, Pass
        <3> QED
            BY <1>1, <1>3, <3>1 DEF PassInv, TodoIsUnattended, Attended
    <2>4. RetryIsQuiet(p)'
        BY <1>1 DEF PassInv, RetryIsQuiet
    <2>5. (Visits => \A m \in Messages : pass[p].tries[m] <= 0)'
        BY <1>1, <1>3 DEF PassInv
    <2> QED
        BY <2>1, <2>2, <2>3, <2>4, <2>5 DEF PassInv
<1>7. MessageInv(c)'
    <2>1. DecryptionOK(c)'
        BY <1>3, <1>4, <1>5 DEF DecryptionOK, None
    <2>2. ReaderOK(c)'
        BY <1>4 DEF ReaderOK, Values
    <2>3. EventOK(c)' /\ EchoOK(c)'
        BY <1>1, <1>3, <1>4 DEF MessageInv, EventOK, EchoOK, Settled, Attended
    <2> QED
        BY <2>1, <2>2, <2>3 DEF MessageInv
<1>8. ASSUME NEW m \in Messages, m # c PROVE MessageInv(m)'
    <2>1. ~AwaitedBy(p, m) /\ Same(m)
        BY <1>8 DEF AwaitedBy, Same
    <2> QED
        BY <1>1, <1>8, <2>1, SameKept
<1> QED
    BY <1>2, <1>3, <1>6, <1>7, <1>8, PassStep

LEMMA CalmReplay ==
    ASSUME Orderly, TypeInv, CalmInv, Calm, NEW p \in Passes, Replay(p)
    PROVE  CalmInv' /\ TextsKept
<1>1. pass[p].kind = "replay" /\ Active(p)
    BY DEF Replay, ReplayChecks, ReplayDecrypts, ReplayMarks, ReplayStores, ReplayRemoves, At, Active
<1>2. Typed /\ GroupOK /\ Shape(pass[p]) /\ PassInv(p) /\ pass[p].todo \subseteq Messages
    BY <1>1, Alone, OwnFields DEF TypeInv
<1>3. PICK c \in Messages : c = Current(p) /\ c \in pass[p].todo
    BY <1>2, BusyPass
<1>4. /\ Others(p)
      /\ UNCHANGED <<use, head, group, invited, caughtUp, failed, arrived, known,
                     decryption, reader, notifier, echo>>
    BY <1>2, <1>3, ReplaySteps
<1>5. /\ reader[c] = "idle" /\ notifier[c] = "idle" /\ decryption[c] = NoDecryption
      /\ ~Visits => c \in arrived
      /\ c \in used => cache[c] = "plain" \/ pass[p].value = "plain"
      /\ Visits => queue[c] <= 0
    BY <1>1, <1>3, Taken
<1>6. /\ ShownIsCached(pass[p].shown) /\ Visits' = Visits
      /\ pass[p].shown \in [Messages -> Values]
      /\ \A m \in Messages : Settled(m)' <=> Settled(m)
    BY <1>2, <1>4, OwnFields DEF PassInv, Visits, Settled, Attended
<1>7. CASE ReplayChecks(p)
    <2>1. /\ UNCHANGED <<cache, used>> /\ pass[p].pc = "next"
          /\ \/ cache[c] = "none" /\ Turns(p, "decrypt") /\ UNCHANGED queue
             \/ Drops(p, "next") /\ queue' = [queue EXCEPT ![c] = None]
        <3>1. UNCHANGED <<cache, used>> /\ pass[p].pc = "next"
            BY <1>7 DEF ReplayChecks, Remain, At
        <3>2. CASE cache[c] = "none"
            <4>1. Turn(p, "decrypt") /\ UNCHANGED queue /\ "decrypt" \in Pcs
                BY <1>3, <1>7, <3>2 DEF ReplayChecks, Pcs
            <4> QED
                BY <1>2, <3>1, <3>2, <4>1, Turned DEF Turns
        <3>3. CASE cache[c] # "none"
            <4>1. Drop(p, "next") /\ queue' = [queue EXCEPT ![c] = None] /\ "next" \in Pcs
                BY <1>3, <1>7, <3>3 DEF ReplayChecks, Pcs
            <4> QED
                BY <1>2, <3>1, <4>1, Dropped DEF Drops
        <3> QED
            BY <3>2, <3>3
    <2>2. pass[p].value = "none"
        BY <1>2, <2>1 DEF Shape, Storing
    <2>3. /\ \A m \in Messages \ {c} : queue'[m] = queue[m]
          /\ Visits => queue'[c] <= 0
        BY <1>5, <2>1 DEF TypeInv, StoredOK, None
    <2>4. /\ pass'[p].kind = pass[p].kind /\ pass'[p].tries = pass[p].tries
          /\ pass'[p].todo \subseteq pass[p].todo /\ pass'[p].shown = pass[p].shown
          /\ pass'[p].value = "none"
          /\ \/ pass'[p].pc = "next"
             \/ pass'[p].pc = "decrypt" /\ Current(p)' = c /\ cache[c] = "none"
        BY <1>3, <2>1, <2>2 DEF Turns, Drops, Current
    <2>5. ReplayFills(p)'
        BY <2>1, <2>4 DEF ReplayFills
    <2>6. ShownIsCached(pass[p].shown)'
        BY <1>6, <2>1, <2>4 DEF ShownIsCached
    <2>7. c \in used' => Carried(c)'
        BY <1>5, <2>1, <2>2 DEF Carried
    <2> QED
        BY <1>1, <1>3, <1>4, <2>1, <2>3, <2>4, <2>5, <2>6, <2>7, TakenStep DEF TextsKept
<1>8. CASE ReplayDecrypts(p)
    <2>1. /\ UNCHANGED <<queue, cache>> /\ pass[p].pc = "decrypt" /\ Consume(c)
        BY <1>3, <1>8 DEF ReplayDecrypts, At
    <2>2. pass[p].value = "none" /\ cache[c] = "none" /\ c \notin used
        BY <1>1, <1>2, <1>3, <1>5, <2>1 DEF Shape, Storing, PassInv, ReplayFills
    <2>3. Verdict(c) \in Verdicts /\ Verdict(c) # "past"
          /\ (Visits => Verdict(c) \in {"unready", "plain"})
        BY <2>2, NotAhead
    <2>4. /\ \A m \in Messages \ {c} : m \in used' => m \in used
          /\ c \in used' => Verdict(c) = "plain"
        BY <2>1, <2>2 DEF Consume
    <2>5. /\ pass'[p].kind = pass[p].kind /\ pass'[p].tries = pass[p].tries
          /\ pass'[p].todo \subseteq pass[p].todo /\ pass'[p].shown = pass[p].shown
          /\ \/ Verdict(c) = "plain" /\ pass'[p].pc = "store" /\ pass'[p].value = "plain" /\ Current(p)' = c
             \/ /\ BudgetExhausted(p) \/ Fatal(Verdict(c))
                /\ pass'[p].pc = "store" /\ pass'[p].value = "undec" /\ Current(p)' = c
                /\ Verdict(c) # "plain"
             \/ /\ Verdict(c) # "plain" /\ Ready
                /\ pass'[p].pc = "mark" /\ pass'[p].value = "none" /\ Current(p)' = c
             \/ Verdict(c) # "plain" /\ pass'[p].pc = "next" /\ pass'[p].value = "none"
        <3>1. \/ /\ Verdict(c) = "plain" \/ BudgetExhausted(p) \/ Fatal(Verdict(c))
                 /\ Takes(p, "store", IF Verdict(c) = "plain" THEN "plain" ELSE "undec")
              \/ /\ Verdict(c) # "plain"
                 /\ (Ready /\ Turns(p, "mark")) \/ Drops(p, "next")
            <4>1. ~ReplayChecks(p) /\ ~ReplayMarks(p) /\ ~ReplayStores(p) /\ ~ReplayRemoves(p)
                BY <2>1 DEF ReplayChecks, ReplayMarks, ReplayStores, ReplayRemoves, At
            <4> QED
                BY <1>2, <1>3, <1>8, <4>1, ReplaySteps
        <3> QED
            BY <1>3, <2>2, <3>1 DEF Takes, Turns, Drops, Current
    <2>6. Visits => pass'[p].pc # "mark" /\ pass'[p].value # "undec"
        <3>1. Visits => ~BudgetExhausted(p)
            <4>1. Visits => pass[p].tries[c] <= 0
                BY <1>2 DEF PassInv
            <4>2. pass[p].tries[c] \in Int /\ MaxAttempts \in Nat \ {0}
                BY <1>2, OwnFields, ConstantsAssumption
            <4> QED
                BY <1>3, <4>1, <4>2 DEF BudgetExhausted
        <3>2. Verdict(c) = "unready" => ~Ready /\ ~Fatal(Verdict(c))
            BY <1>2, VerdictIs, FatalIs DEF Ready, Verdicts
        <3> QED
            BY <2>3, <2>5, <3>1, <3>2
    <2>7. ReplayFills(p)'
        BY <1>6, <2>1, <2>2, <2>5, <2>6 DEF ReplayFills
    <2>8. ShownIsCached(pass[p].shown)'
        BY <1>6, <2>1, <2>5 DEF ShownIsCached
    <2>9. c \in used' => Carried(c)'
        <3>1. Verdict(c) = "plain" => pass'[p].value = "plain" /\ Current(p)' = c
            BY <2>5
        <3> QED
            BY <2>4, <3>1 DEF Carried
    <2> QED
        BY <1>1, <1>3, <1>4, <1>5, <2>1, <2>4, <2>5, <2>7, <2>8, <2>9, TakenStep DEF TextsKept
<1>9. CASE ReplayMarks(p)
    <2>1. /\ UNCHANGED <<cache, used>> /\ pass[p].pc = "mark"
          /\ queue' = IF queue[c] = None THEN queue ELSE [queue EXCEPT ![c] = @ + 1]
        BY <1>3, <1>9 DEF ReplayMarks, Remain, At
    <2>2. pass[p].value = "none" /\ ~Visits
        BY <1>1, <1>2, <2>1 DEF Shape, Storing, PassInv, ReplayFills
    <2>3. \A m \in Messages \ {c} : queue'[m] = queue[m]
        BY <2>1 DEF TypeInv, StoredOK
    <2>4. /\ pass'[p].kind = pass[p].kind /\ pass'[p].tries = pass[p].tries
          /\ pass'[p].todo \subseteq pass[p].todo /\ pass'[p].shown = pass[p].shown
          /\ pass'[p].value = "none" /\ pass'[p].pc = "next"
        <3>1. Drop(p, "next") /\ "next" \in Pcs
            BY <1>9 DEF ReplayMarks, Pcs
        <3> QED
            BY <1>2, <3>1, Dropped
    <2>5. ReplayFills(p)'
        BY <2>4 DEF ReplayFills
    <2>6. ShownIsCached(pass[p].shown)'
        BY <1>6, <2>1, <2>4 DEF ShownIsCached
    <2>7. c \in used' => Carried(c)'
        BY <1>5, <2>1, <2>2 DEF Carried
    <2> QED
        BY <1>1, <1>3, <1>4, <2>1, <2>2, <2>3, <2>4, <2>5, <2>6, <2>7, TakenStep DEF TextsKept
<1>10. CASE ReplayStores(p)
    <2>1. /\ UNCHANGED <<queue, used>> /\ pass[p].pc = "store"
          /\ cache' = [cache EXCEPT ![c] = pass[p].value]
        BY <1>3, <1>10 DEF ReplayStores, Store, Remain, At
    <2>2. /\ cache[c] = "none" /\ pass[p].value \in {"plain", "undec"}
          /\ Visits => pass[p].value = "plain"
          /\ cache'[c] = pass[p].value /\ \A m \in Messages \ {c} : cache'[m] = cache[m]
        BY <1>1, <1>2, <1>3, <2>1 DEF Shape, PassInv, ReplayFills, TypeInv, StoredOK
    <2>3. echo[c] = "none"
        BY <2>2 DEF CalmInv, MessageInv, EchoOK
    <2>4. /\ pass'[p].kind = pass[p].kind /\ pass'[p].tries = pass[p].tries
          /\ pass'[p].todo = pass[p].todo /\ pass'[p].value = pass[p].value
          /\ pass'[p].shown = [pass[p].shown EXCEPT ![c] = pass[p].value]
          /\ pass'[p].pc = "remove" /\ Current(p)' = c
        <3>1. ~ReplayChecks(p) /\ ~ReplayMarks(p) /\ ~ReplayDecrypts(p) /\ ~ReplayRemoves(p)
            BY <2>1 DEF ReplayChecks, ReplayMarks, ReplayDecrypts, ReplayRemoves, At
        <3> QED
            BY <1>2, <1>3, <1>10, <3>1, ReplaySteps DEF Current
    <2>5. ReplayFills(p)'
        BY <1>6, <2>2, <2>4 DEF ReplayFills
    <2>6. ShownIsCached(pass[p].shown)'
        <3>1. /\ pass'[p].shown[c] = pass[p].value
              /\ \A m \in Messages \ {c} : pass'[p].shown[m] = pass[p].shown[m]
            BY <1>6, <2>4
        <3>2. pass[p].value = "undec" => Settled(c)
            BY <1>5, <2>2 DEF Settled, Attended
        <3> QED
            BY <1>6, <2>2, <3>1, <3>2 DEF ShownIsCached
    <2>7. c \in used' => Carried(c)'
        BY <1>5, <2>1, <2>2 DEF Carried
    <2> QED
        BY <1>1, <1>3, <1>4, <1>5, <2>1, <2>2, <2>3, <2>4, <2>5, <2>6, <2>7, TakenStep DEF TextsKept
<1>11. CASE ReplayRemoves(p)
    <2>1. /\ UNCHANGED <<cache, used>> /\ pass[p].pc = "remove"
          /\ queue' = [queue EXCEPT ![c] = None]
        BY <1>3, <1>11 DEF ReplayRemoves, Remain, At
    <2>2. cache[c] = pass[p].value
        BY <1>1, <1>2, <1>3, <2>1 DEF PassInv, ReplayFills
    <2>3. (\A m \in Messages \ {c} : queue'[m] = queue[m]) /\ queue'[c] <= 0
        BY <2>1 DEF TypeInv, StoredOK, None
    <2>4. /\ pass'[p].kind = pass[p].kind /\ pass'[p].tries = pass[p].tries
          /\ pass'[p].todo \subseteq pass[p].todo /\ pass'[p].shown = pass[p].shown
          /\ pass'[p].value = "none" /\ pass'[p].pc = "next"
        <3>1. Drop(p, "next") /\ "next" \in Pcs
            BY <1>11 DEF ReplayRemoves, Pcs
        <3> QED
            BY <1>2, <3>1, Dropped
    <2>5. ReplayFills(p)'
        BY <2>4 DEF ReplayFills
    <2>6. ShownIsCached(pass[p].shown)'
        BY <1>6, <2>1, <2>4 DEF ShownIsCached
    <2>7. c \in used' => Carried(c)'
        BY <1>5, <2>1, <2>2 DEF Carried
    <2> QED
        BY <1>1, <1>3, <1>4, <2>1, <2>3, <2>4, <2>5, <2>6, <2>7, TakenStep DEF TextsKept
<1> QED
    BY <1>7, <1>8, <1>9, <1>10, <1>11 DEF Replay

LEMMA CalmRetry ==
    ASSUME Orderly, TypeInv, CalmInv, Calm, NEW p \in Passes, Retry(p)
    PROVE  CalmInv' /\ TextsKept
<1>1. pass[p].kind = "retry" /\ Active(p)
    BY DEF Retry, RetryFetches, RetryDecrypts, RetryStores, At, Active
<1>2. Typed /\ GroupOK /\ Shape(pass[p]) /\ PassInv(p)
    BY <1>1, Alone DEF TypeInv
<1>3. PICK c \in Messages : c = Current(p) /\ c \in pass[p].todo
    BY <1>2, BusyPass
<1>4. /\ Others(p)
      /\ UNCHANGED <<use, head, group, invited, queue, caughtUp, failed, arrived, known,
                     decryption, reader, notifier, echo>>
    BY <1>2, <1>3, RetrySteps
<1>5. /\ c \in used => cache[c] = "plain" \/ pass[p].value = "plain"
      /\ Visits => queue'[c] <= 0
    BY <1>1, <1>3, <1>4, Taken
<1>6. /\ ShownIsCached(pass[p].shown) /\ pass[p].shown \in [Messages -> Values]
      /\ \A m \in Messages : Settled(m)' <=> Settled(m)
    BY <1>2, <1>4, OwnFields DEF PassInv, Visits, Settled, Attended
<1>7. pass'[p].kind = pass[p].kind => ReplayFills(p)'
    BY <1>1 DEF ReplayFills
<1>8. CASE RetryFetches(p)
    <2>1. UNCHANGED <<cache, used>> /\ pass[p].pc = "next"
        BY <1>8 DEF RetryFetches, Remain, At
    <2>2. Turns(p, "decrypt") \/ Drops(p, "next")
        <3>1. ~RetryDecrypts(p) /\ ~RetryStores(p)
            BY <2>1 DEF RetryDecrypts, RetryStores, At
        <3> QED
            BY <1>2, <1>3, <1>8, <3>1, RetrySteps
    <2>3. pass[p].value = "none"
        BY <1>2, <2>1 DEF Shape, Storing
    <2>4. /\ pass'[p].kind = pass[p].kind /\ pass'[p].tries = pass[p].tries
          /\ pass'[p].todo \subseteq pass[p].todo /\ pass'[p].shown = pass[p].shown
        BY <2>2 DEF Turns, Drops
    <2>5. ShownIsCached(pass[p].shown)'
        BY <1>6, <2>1, <2>4 DEF ShownIsCached
    <2>6. c \in used' => Carried(c)'
        BY <1>5, <2>1, <2>3 DEF Carried
    <2> QED
        BY <1>1, <1>3, <1>4, <1>5, <1>7, <2>1, <2>4, <2>5, <2>6, TakenStep DEF TextsKept
<1>9. CASE RetryDecrypts(p)
    <2>1. /\ UNCHANGED cache /\ pass[p].pc = "decrypt" /\ Consume(c)
        BY <1>3, <1>9 DEF RetryDecrypts, At
    <2>2. pass[p].value = "none"
        BY <1>2, <2>1 DEF Shape, Storing
    <2>3. \/ Verdict(c) = "plain" /\ Takes(p, "store", "plain")
          \/ Verdict(c) # "plain" /\ Drops(p, "next")
        <3>1. ~RetryFetches(p) /\ ~RetryStores(p)
            BY <2>1 DEF RetryFetches, RetryStores, At
        <3> QED
            BY <1>2, <1>3, <1>9, <3>1, RetrySteps
    <2>4. /\ \A m \in Messages \ {c} : m \in used' => m \in used
          /\ c \in used' => Verdict(c) = "plain" \/ c \in used
        BY <2>1 DEF Consume
    <2>5. /\ pass'[p].kind = pass[p].kind /\ pass'[p].tries = pass[p].tries
          /\ pass'[p].todo \subseteq pass[p].todo /\ pass'[p].shown = pass[p].shown
          /\ Verdict(c) = "plain" => pass'[p].value = "plain" /\ Current(p)' = c
        BY <1>3, <2>3 DEF Takes, Drops, Current
    <2>6. ShownIsCached(pass[p].shown)'
        BY <1>6, <2>1, <2>5 DEF ShownIsCached
    <2>7. c \in used' => Carried(c)'
        BY <1>5, <2>1, <2>2, <2>4, <2>5 DEF Carried
    <2> QED
        BY <1>1, <1>3, <1>4, <1>5, <1>7, <2>1, <2>4, <2>5, <2>6, <2>7, TakenStep DEF TextsKept
<1>10. CASE RetryStores(p)
    <2>1. UNCHANGED used /\ pass[p].pc = "store" /\ cache' = [cache EXCEPT ![c] = "plain"]
        BY <1>3, <1>10 DEF RetryStores, Store, Remain, At
    <2>2. cache'[c] = "plain" /\ \A m \in Messages \ {c} : cache'[m] = cache[m]
        BY <2>1 DEF TypeInv, StoredOK
    <2>3. echo[c] = "none"
        BY <1>1, <1>2 DEF PassInv, RetryIsQuiet
    <2>4. /\ pass'[p].kind = pass[p].kind /\ pass'[p].tries = pass[p].tries
          /\ pass'[p].todo \subseteq pass[p].todo
          /\ pass'[p].shown = [pass[p].shown EXCEPT ![c] = "plain"]
        <3>1. ~RetryFetches(p) /\ ~RetryDecrypts(p)
            BY <2>1 DEF RetryFetches, RetryDecrypts, At
        <3> QED
            BY <1>2, <1>3, <1>10, <3>1, RetrySteps
    <2>5. ShownIsCached(pass[p].shown)'
        <3>1. pass'[p].shown[c] = "plain" /\ \A m \in Messages \ {c} : pass'[p].shown[m] = pass[p].shown[m]
            BY <1>6, <2>4
        <3> QED
            BY <1>6, <2>2, <3>1 DEF ShownIsCached
    <2>6. c \in used' => Carried(c)'
        BY <2>2 DEF Carried
    <2> QED
        BY <1>1, <1>3, <1>4, <1>5, <1>7, <2>1, <2>2, <2>3, <2>4, <2>5, <2>6, TakenStep DEF TextsKept
<1> QED
    BY <1>8, <1>9, <1>10 DEF Retry

LEMMA CalmEnds ==
    ASSUME TypeInv, CalmInv, Calm, NEW p \in Passes, PassEnds(p)
    PROVE  CalmInv' /\ TextsKept
<1>1. /\ UNCHANGED <<use, head, group, used, invited, queue, cache, caughtUp, failed, arrived,
                     known, reader, notifier>>
      /\ Active(p) /\ pass[p].pc \in {"next", "gap"}
      /\ pass' = [pass EXCEPT ![p] = NoPass]
    BY DEF PassEnds, Remain, At, Active
<1>2. /\ \A q \in Passes \ {p} : pass[q] = NoPass
      /\ PassInv(p) /\ Shape(pass[p]) /\ Typed
      /\ \A m \in Messages : /\ IsAwaited(m) => AwaitedBy(p, m)
                             /\ HeldByPass(m) => pass[p].value = "plain" /\ Current(p) = m
    BY <1>1, Alone
<1>3. \A m \in Messages : ~IsAwaited(m) /\ ~HeldByPass(m)
    BY <1>1, <1>2 DEF AwaitedBy, Shape, Storing
<1>4. Others(p) /\ pass'[p] = NoPass
    BY <1>1, <1>2, Left
<1>5. Visits' = Visits /\ OneEpoch'
    BY <1>1, SameGroup DEF CalmInv, Visits
<1>6. ASSUME NEW m \in Messages
      PROVE  /\ echo'[m] = echo[m] \/ (echo'[m] = pass[p].shown[m] /\ pass[p].shown[m] # "none")
             /\ \/ decryption'[m] = decryption[m]
                \/ /\ decryption[m].pc = "replaying" /\ decryption'[m].pc = "again"
                   /\ decryption'[m].tries = decryption[m].tries
    <2>1. decryption[m] \in [pc : Stages, fatal : BOOLEAN, tries : Int]
        BY DEF TypeInv, CallersOK
    <2>2. \/ decryption'[m] = decryption[m]
          \/ decryption[m].pc = "replaying" /\ decryption'[m] = [decryption[m] EXCEPT !.pc = "again"]
        BY DEF PassEnds, DecryptAt
    <2>3. echo'[m] = echo[m] \/ (echo'[m] = pass[p].shown[m] /\ pass[p].shown[m] # "none")
        BY DEF PassEnds
    <2> QED
        BY <2>1, <2>2, <2>3
<1>7. ASSUME NEW m \in Messages PROVE MessageInv(m)'
    <2>0. MessageInv(m) /\ ShownIsCached(pass[p].shown)
        BY <1>2 DEF CalmInv, PassInv
    <2>1. /\ decryption'[m] = NoDecryption <=> decryption[m] = NoDecryption
          /\ decryption'[m].pc = "idle" <=> decryption[m].pc = "idle"
          /\ decryption[m].pc = "try" => decryption'[m] = decryption[m]
          /\ Visits => decryption'[m] = decryption[m]
        BY <1>6, <2>0 DEF NoDecryption, MessageInv, DecryptionOK
    <2>2. Settled(m)' = Settled(m)
        BY <1>1, <1>5, <2>1 DEF Settled, Attended
    <2>3. DecryptionOK(m)'
        BY <1>1, <1>3, <1>5, <2>0, <2>1 DEF MessageInv, DecryptionOK, IsAwaited
    <2>4. ReaderOK(m)'
        BY <1>1, <2>0, <2>1 DEF MessageInv, ReaderOK
    <2>5. EventOK(m)'
        BY <1>1, <1>5, <2>0, <2>1, <2>2 DEF MessageInv, EventOK, Untouched, Attended
    <2>6. EchoOK(m)'
        BY <1>1, <1>6, <2>0, <2>2 DEF MessageInv, EchoOK, ShownIsCached
    <2>7. m \in used' => Carried(m)'
        BY <1>1, <1>3, <2>0 DEF MessageInv, Carried, HeldByPass
    <2> QED
        BY <2>3, <2>4, <2>5, <2>6, <2>7 DEF MessageInv
<1>8. PassInv(p)'
    BY <1>4, NoPassAfter
<1> QED
    BY <1>1, <1>2, <1>4, <1>5, <1>7, <1>8, PassStep DEF TextsKept

-----------------------------------------------------------------------------
(* CalmInv is inductive, and the theorems. *)

LEMMA CalmOutside ==
    ASSUME Orderly, TypeInv, CalmInv, Calm, Outside
    PROVE  CalmInv' /\ TextsKept
<1>1. UNCHANGED <<use, queue, cache, arrived, decryption, reader, notifier, echo, pass>>
    BY DEF Outside, OthersCommit, FollowCommit, CatchUp, Invite, Join, Fail, Elsewhere
<1>2. ~Fail /\ ~failed
    BY OrderlyUse DEF Fail, CalmInv
<1>3. ~failed' /\ used' \subseteq used
    BY <1>2 DEF Outside, OthersCommit, FollowCommit, CatchUp, Invite, Join
<1>4. OneEpoch'
    <2> SUFFICES ASSUME Visits, HasGroup' PROVE group' = [base |-> 0, epoch |-> 0]
        BY <1>1 DEF OneEpoch, Visits
    <2>1. head = 0 /\ (HasGroup => group = [base |-> 0, epoch |-> 0])
        BY OrderlyUse DEF CalmInv, OneEpoch
    <2>2. \/ group' = group
          \/ HasGroup /\ group' = [group EXCEPT !.epoch = head]
          \/ group' = [base |-> head, epoch |-> head]
        BY <1>2, <2>1 DEF Outside, OthersCommit, FollowCommit, CatchUp, Invite, Join
    <2> QED
        BY <2>1, <2>2 DEF HasGroup
<1>5. \A m \in Messages : IsAwaited(m)' = IsAwaited(m) /\ HeldByPass(m)' = HeldByPass(m) /\ Same(m)
    BY <1>1, <1>3 DEF IsAwaited, HeldByPass, AwaitedBy, Current, Same
<1>6. \A m \in Messages : MessageInv(m)'
    BY <1>1, <1>5, MessageKept DEF CalmInv
<1>7. \A p \in Passes : PassInv(p)'
    BY <1>1, PassUntouched DEF CalmInv
<1> QED
    BY <1>1, <1>3, <1>4, <1>6, <1>7 DEF CalmInv, TextsKept

LEMMA UseStays ==
    ASSUME TypeInv, [Next]_vars
    PROVE  use' = use
<1>1. CASE UNCHANGED vars
    BY <1>1 DEF vars
<1>2. ASSUME NEW m \in Messages, SocketEvent(m) \/ LoseEvent(m) \/ Handle(m) \/ Decrypt(m)
      PROVE  use' = use
    BY <1>2 DEF SocketEvent, LoseEvent, Handle, ReaderChecks, ReaderStores, NotifierStores, EchoStores,
        Decrypt, DecryptTry, DecryptCatchUp, DecryptAgain, DecryptHeal, DecryptHealed,
        DecryptVerdict, DecryptEnqueue
<1>3. ASSUME NEW p \in Passes, Begins(p) \/ Work(p)
      PROVE  use' = use
    <2>1. CASE Begins(p)
        BY <2>1, Beginnings
    <2>2. CASE Work(p)
        BY <2>2 DEF Work, Load, LoadIds, LoadMissing, LoadAsks, LoadStores, Replay, ReplayChecks,
            ReplayDecrypts, ReplayMarks, ReplayStores, ReplayRemoves, Retry, RetryFetches,
            RetryDecrypts, RetryStores, Clear, SweepDecrypts, SweepStores, ClearWipes,
            ClearReadsPending, ClearPlaceholders, ClearEnds, PassEnds, Remain
    <2> QED
        BY <1>3, <2>1, <2>2
<1>4. CASE Outside \/ Crash
    BY <1>4 DEF Outside, OthersCommit, FollowCommit, CatchUp, Invite, Join, Fail, Crash, Elsewhere
<1> QED
    BY <1>1, <1>2, <1>3, <1>4 DEF Next, Begins, Outside

LEMMA CalmNext ==
    ASSUME Orderly, TypeInv, CalmInv, Calm, [Next]_vars
    PROVE  CalmInv' /\ TextsKept
<1>1. CASE UNCHANGED vars
    <2>1. \A m \in Messages : IsAwaited(m)' = IsAwaited(m) /\ HeldByPass(m)' = HeldByPass(m) /\ Same(m)
        BY <1>1 DEF vars, IsAwaited, HeldByPass, AwaitedBy, Current, Same
    <2>2. UNCHANGED <<use, group, failed, pass, decryption, reader, notifier, cache, echo, arrived>>
        BY <1>1 DEF vars
    <2>3. \A m \in Messages : MessageInv(m)'
        BY <2>1, <2>2, MessageKept DEF CalmInv
    <2>4. \A p \in Passes : PassInv(p)'
        BY <2>2, PassUntouched DEF CalmInv
    <2>5. OneEpoch'
        BY <2>2, SameGroup DEF CalmInv
    <2> QED
        BY <2>2, <2>3, <2>4, <2>5 DEF CalmInv, TextsKept
<1>2. ASSUME NEW m \in Messages, SocketEvent(m) \/ LoseEvent(m) \/ Handle(m) \/ Decrypt(m)
      PROVE  CalmInv' /\ TextsKept
    <2>1. CASE SocketEvent(m) \/ LoseEvent(m)
        BY <2>1, CalmSocket DEF SocketEvent, LoseEvent, TextsKept
    <2>2. CASE ReaderChecks(m)
        BY <2>2, CalmReader DEF ReaderChecks, TextsKept
    <2>3. CASE ReaderStores(m) \/ NotifierStores(m)
        <3>1. CalmInv' /\ (cache[m] = "plain" => cache'[m] = "plain")
            BY <2>3, CalmStores
        <3>2. \A n \in Messages \ {m} : cache'[n] = cache[n]
            BY <2>3 DEF ReaderStores, NotifierStores, Store, TypeInv, StoredOK
        <3> QED
            BY <3>1, <3>2 DEF TextsKept
    <2>4. CASE EchoStores(m)
        BY <2>4, CalmEcho DEF TextsKept
    <2>5. CASE Decrypt(m)
        BY <2>5, CalmDecrypt DEF TextsKept
    <2> QED
        BY <1>2, <2>1, <2>2, <2>3, <2>4, <2>5 DEF Handle
<1>3. ASSUME NEW p \in Passes, Begins(p) \/ Work(p)
      PROVE  CalmInv' /\ TextsKept
    <2>1. ~Clear(p)
        BY OrderlyUse DEF CalmInv, PassInv, RunsAlone, Active, Clear, SweepDecrypts, SweepStores,
            ClearWipes, ClearReadsPending, ClearPlaceholders, ClearEnds, At
    <2> QED
        BY <1>3, <2>1, CalmBegins, CalmLoad, CalmReplay, CalmRetry, CalmEnds DEF Work
<1>4. CASE Outside
    BY <1>4, CalmOutside
<1>5. ~Crash
    BY DEF Calm, Crash
<1> QED
    BY <1>1, <1>2, <1>3, <1>4, <1>5 DEF Next, Begins, Outside

LEMMA CalmStep ==
    ASSUME Orderly, TypeInv, CalmInv, [Next]_vars
    PROVE  Orderly' /\ CalmInv'
<1>1. Orderly' /\ (Calm' <=> Calm)
    BY UseStays DEF Orderly, Calm
<1>2. CASE Calm
    BY <1>1, <1>2, CalmNext
<1>3. CASE ~Calm
    BY <1>1, <1>3 DEF CalmInv
<1> QED
    BY <1>1, <1>2, <1>3

LEMMA Invariant == Spec /\ Orderly => [](TypeInv /\ CalmInv /\ Orderly)
<1>1. Init => TypeInv /\ CalmInv
    BY TypeInit, CalmInit
<1>2. TypeInv /\ CalmInv /\ Orderly /\ [Next]_vars => (TypeInv /\ CalmInv /\ Orderly)'
    BY TypeStep, CalmStep
<1> QED
    BY <1>1, <1>2, PTL DEF Spec

(* In an orderly behaviour a text whose key MLS consumed is in the cache,  *)
(* or with a caller that is about to store it, whatever the interleaving   *)
(* of events, decryptions, visits, replays and retries (decryptMessage,    *)
(* and the five callers that write the message cache).                     *)
THEOREM NothingIsLost == Spec /\ Orderly => []NothingLost
<1>1. TypeInv /\ CalmInv /\ Orderly => NothingLost
    BY DEF NothingLost, CalmInv, MessageInv, TypeInv, StoredOK
<1> QED
    BY <1>1, Invariant, PTL

(* In an orderly behaviour a text in the cache stays there: no second      *)
(* decryption of a ciphertext whose key was consumed, by the page, the     *)
(* notification service, a replay or a retry, puts a placeholder over it.  *)
THEOREM TextsStay == Spec /\ Orderly => TextStays
<1>1. TypeInv /\ CalmInv /\ Orderly /\ [Next]_vars
          => [Calm => \A m \in Messages : cache[m] = "plain" => cache'[m] = "plain"]_vars
    BY CalmNext DEF TextsKept
<1> QED
    BY <1>1, Invariant, PTL DEF Spec, TextStays

-----------------------------------------------------------------------------
(* A clear tries every message before it deletes the keys. *)

LEMMA StaysCached ==
    ASSUME TypeInv, [Next]_vars, NEW m \in Messages, cache[m] # "none"
    PROVE  cache'[m] # "none"
<1>0. cache \in [Messages -> Values]
    BY DEF TypeInv, StoredOK
<1>1. CASE UNCHANGED vars
    BY <1>1 DEF vars
<1>2. ASSUME NEW n \in Messages, SocketEvent(n) \/ LoseEvent(n) \/ Handle(n) \/ Decrypt(n)
      PROVE  cache'[m] # "none"
    <2>1. reader[n] # "none"
        BY DEF TypeInv, CallersOK
    <2>2. UNCHANGED cache \/ \E v \in Values \ {"none"} : Store(n, v)
        <3>1. CASE SocketEvent(n) \/ LoseEvent(n) \/ ReaderChecks(n)
            BY <3>1 DEF SocketEvent, LoseEvent, ReaderChecks
        <3>2. CASE ReaderStores(n) \/ NotifierStores(n)
            BY <2>1, <3>2 DEF ReaderStores, NotifierStores, Values
        <3>3. CASE EchoStores(n)
            BY <3>3 DEF EchoStores, TypeInv, CallersOK
        <3>4. CASE Decrypt(n)
            BY <3>4 DEF Decrypt, DecryptTry, DecryptCatchUp, DecryptAgain, DecryptHeal,
                DecryptHealed, DecryptVerdict, DecryptEnqueue, stored
        <3> QED
            BY <1>2, <3>1, <3>2, <3>3, <3>4 DEF Handle
    <2> QED
        BY <1>0, <2>2 DEF Store
<1>3. ASSUME NEW p \in Passes, Begins(p) \/ Work(p)
      PROVE  cache'[m] # "none"
    <2>1. Shape(pass[p]) /\ Typed /\ pass[p].value \in Values
        BY OwnFields DEF TypeInv, PassesOK, Typed
    <2>2. \/ UNCHANGED cache
          \/ \E v \in Values \ {"none"} : Store(Current(p), v)
          \/ ClearPlaceholders(p)
        <3>1. CASE Begins(p)
            BY <3>1, Beginnings
        <3>2. CASE Load(p)
            BY <2>1, <3>2 DEF Load, LoadIds, LoadMissing, LoadAsks, LoadStores
        <3>3. CASE Replay(p)
            BY <2>1, <3>3 DEF Replay, ReplayChecks, ReplayDecrypts, ReplayMarks, ReplayStores,
                ReplayRemoves, At, Shape
        <3>4. CASE Retry(p)
            BY <3>4 DEF Retry, RetryFetches, RetryDecrypts, RetryStores, Values
        <3>5. CASE Clear(p) \/ PassEnds(p)
            BY <2>1, <3>5 DEF Clear, SweepDecrypts, SweepStores, ClearWipes, ClearReadsPending,
                ClearEnds, PassEnds, At, Shape
        <3> QED
            BY <1>3, <3>1, <3>2, <3>3, <3>4, <3>5 DEF Work
    <2>3. ClearPlaceholders(p) => cache'[m] # "none"
        BY DEF ClearPlaceholders
    <2> QED
        BY <1>0, <2>2, <2>3 DEF Store
<1>4. CASE Outside \/ Crash
    BY <1>4 DEF Outside, OthersCommit, FollowCommit, CatchUp, Invite, Join, Fail, Crash, Elsewhere
<1> QED
    BY <1>1, <1>2, <1>3, <1>4 DEF Next, Begins, Outside

(* What a step makes of a clear. *)
Cleared(p) ==
    \/ /\ pass[p].kind = "clear" /\ pass'[p].pc = pass[p].pc /\ pass'[p].todo = pass[p].todo
    \/ /\ "clear" \in use.kinds /\ pass'[p].todo = {m \in Sent : cache[m] = "none"}
       /\ cache' = cache
    \/ /\ pass[p].kind = "clear" /\ pass[p].pc = "sweep" /\ pass'[p].todo = pass[p].todo
    \/ /\ pass[p].kind = "clear" /\ pass[p].pc = "sweepStore"
       /\ pass'[p].todo = pass[p].todo \ {Current(p)}
       /\ Current(p) \in Messages => cache'[Current(p)] # "none"
    \/ /\ pass[p].kind = "clear" /\ pass'[p].pc \notin {"sweep", "sweepStore"}

LEMMA ClearIs ==
    ASSUME TypeInv, [Next]_vars, NEW p \in Passes, pass'[p].kind = "clear"
    PROVE  Cleared(p)
<1>0. Typed /\ GroupOK /\ \A q \in Passes : Shape(pass[q])
    BY DEF TypeInv, PassesOK, Typed
<1>1. CASE pass'[p] = pass[p]
    BY <1>1 DEF Cleared
<1>2. CASE UNCHANGED vars
    BY <1>1, <1>2 DEF vars
<1>3. ASSUME NEW m \in Messages, SocketEvent(m) \/ LoseEvent(m) \/ Handle(m) \/ Decrypt(m)
      PROVE  Cleared(p)
    <2>1. CASE \E r \in {"plain", "pending", "undec"} : Deliver(m, r)
        <3>1. AwaitedBy(p, m) => pass'[p].kind = "load"
            BY <1>0, <2>1, PassesAnswered DEF Deliver
        <3> QED
            BY <1>0, <1>1, <2>1, <3>1, PassesAnswered DEF Deliver
    <2>2. CASE UNCHANGED pass
        BY <1>1, <2>2
    <2>3. ASSUME NEW q \in Passes, EntersReplay(q, m) PROVE Cleared(p)
        <3>1. pass'[q].kind = "replay" /\ Others(q)
            BY <1>0, <2>3, ReplayEntered DEF TypeInv, StoredOK
        <3> QED
            BY <1>1, <3>1 DEF Others
    <2>4. \/ \E r \in {"plain", "pending", "undec"} : Deliver(m, r)
          \/ UNCHANGED pass
          \/ \E q \in Passes : EntersReplay(q, m)
        <3>1. CASE Decrypt(m)
            BY <3>1 DEF Decrypt, DecryptTry, DecryptCatchUp, DecryptAgain, DecryptHeal,
                DecryptHealed, DecryptVerdict, DecryptEnqueue, callers, EntersReplay
        <3>2. CASE ~Decrypt(m)
            BY <1>3, <3>2 DEF SocketEvent, LoseEvent, Handle, ReaderChecks, ReaderStores,
                NotifierStores, EchoStores
        <3> QED
            BY <3>1, <3>2
    <2> QED
        BY <2>1, <2>2, <2>3, <2>4
<1>4. ASSUME NEW q \in Passes, Begins(q) \/ Work(q)
      PROVE  Cleared(p)
    <2>1. Others(q)
        <3>1. Begins(q) => Others(q)
            BY Beginnings
        <3>2. Load(q) => Others(q)
            BY <1>0, LoadSteps
        <3>3. Replay(q) \/ Retry(q) => Others(q)
            BY <1>0, BusyPass, ReplaySteps, RetrySteps
        <3>4. Clear(q) => Others(q)
            BY <1>0, ClearSteps
        <3>5. PassEnds(q) => Others(q)
            BY <1>0, Left DEF PassEnds
        <3> QED
            BY <1>4, <3>1, <3>2, <3>3, <3>4, <3>5 DEF Work
    <2>2. CASE q # p
        BY <1>1, <2>1, <2>2 DEF Others
    <2>3. CASE q = p
        <3>1. CASE Begins(p)
            BY <3>1, Beginnings DEF Cleared
        <3>2. ~Load(p)
            <4>1. Load(p) => pass[p].kind = "load"
                BY DEF Load, LoadIds, LoadMissing, LoadAsks, LoadStores, At
            <4>2. Load(p) => pass'[p].kind = "load"
                BY <1>0, <4>1, LoadSteps DEF Asking, Filling, Turns, Drops
            <4> QED
                BY <4>2
        <3>3. ~Replay(p)
            <4>1. Replay(p) => pass[p].kind = "replay"
                BY DEF Replay, ReplayChecks, ReplayDecrypts, ReplayMarks, ReplayStores, ReplayRemoves, At
            <4>2. Replay(p) => pass'[p].kind = "replay"
                BY <1>0, <4>1, BusyPass, ReplaySteps DEF Takes, Turns, Drops
            <4> QED
                BY <4>2
        <3>4. ~Retry(p)
            <4>1. Retry(p) => pass[p].kind = "retry"
                BY DEF Retry, RetryFetches, RetryDecrypts, RetryStores, At
            <4>2. Retry(p) => pass'[p].kind = "retry"
                BY <1>0, <4>1, BusyPass, RetrySteps DEF Takes, Turns, Drops
            <4> QED
                BY <4>2
        <3>5. NoPass.kind = "none"
            BY DEF NoPass
        <3>6. ~PassEnds(p)
            BY <1>0, <3>5, Left DEF PassEnds
        <3>7. CASE Clear(p)
            <4>1. pass[p].kind = "clear"
                BY <3>7 DEF Clear, SweepDecrypts, SweepStores, ClearWipes, ClearReadsPending,
                    ClearPlaceholders, ClearEnds, At
            <4>2. \/ pass[p].pc = "sweep" /\ Takes(p, "sweepStore", IF Verdict(Current(p)) = "plain" THEN "plain" ELSE "undec")
                  \/ SweepStores(p) /\ Drops(p, "sweep")
                  \/ Turns(p, "pending") \/ pass'[p].pc = "placeholders"
                  \/ Turns(p, "drop") \/ pass'[p] = NoPass
                BY <1>0, <3>7, ClearSteps DEF SweepDecrypts, At
            <4>3. SweepStores(p) => /\ pass[p].pc = "sweepStore"
                                    /\ Current(p) \in Messages => cache'[Current(p)] # "none"
                BY <1>0 DEF SweepStores, At, Store, Shape, TypeInv, StoredOK
            <4> QED
                BY <3>5, <4>1, <4>2, <4>3 DEF Takes, Drops, Turns, Cleared
        <3> QED
            BY <1>4, <2>3, <3>1, <3>2, <3>3, <3>4, <3>6, <3>7 DEF Work
    <2> QED
        BY <2>2, <2>3
<1>5. CASE Outside
    BY <1>1, <1>5 DEF Outside, OthersCommit, FollowCommit, CatchUp, Invite, Join, Fail, Elsewhere
<1>6. CASE Crash
    <2>1. pass'[p].kind = "none"
        BY <1>6, NoPassIsPass DEF Crash
    <2> QED
        BY <2>1
<1> QED
    BY <1>2, <1>3, <1>4, <1>5, <1>6 DEF Next, Begins, Outside

(* Only a clear that has nothing left to try deletes the keys. *)
LEMMA GroupIs ==
    ASSUME TypeInv, SweepInv, [Next]_vars
    PROVE  /\ HasGroup' => group'.epoch \in Nat
           /\ HasGroup /\ group' = NoGroup => \E p \in Passes : ClearWipes(p)
<1>0. /\ group \in [base : Int, epoch : Int] /\ head \in Nat
      /\ HasGroup => group.epoch \in Nat
      /\ NoGroup.epoch = -1
    BY DEF TypeInv, GroupOK, SweepInv, LastEpoch, NoGroup, None
<1>1. \/ group' = group
      \/ HasGroup /\ group' = [group EXCEPT !.epoch = head]
      \/ HasGroup /\ group' = [group EXCEPT !.epoch = @ + 1]
      \/ group' = [base |-> head, epoch |-> head]
      \/ group' = NoGroup /\ \E p \in Passes : ClearWipes(p)
    <2>1. CASE UNCHANGED vars
        BY <2>1 DEF vars
    <2>2. ASSUME NEW m \in Messages, SocketEvent(m) \/ LoseEvent(m) \/ Handle(m) \/ Decrypt(m)
          PROVE  \/ group' = group
                 \/ HasGroup /\ group' = [group EXCEPT !.epoch = head]
                 \/ group' = [base |-> head, epoch |-> head]
        BY <2>2 DEF SocketEvent, LoseEvent, Handle, ReaderChecks, ReaderStores, NotifierStores,
            EchoStores, Decrypt, DecryptTry, DecryptCatchUp, DecryptAgain, DecryptHeal, DecryptHealed,
            DecryptVerdict, DecryptEnqueue, stored
    <2>3. ASSUME NEW p \in Passes, Begins(p) \/ Work(p)
          PROVE  group' = group \/ (group' = NoGroup /\ ClearWipes(p))
        <3>1. CASE Begins(p)
            BY <3>1, Beginnings
        <3>2. CASE Work(p)
            BY <3>2 DEF Work, Load, LoadIds, LoadMissing, LoadAsks, LoadStores, Replay, ReplayChecks,
                ReplayDecrypts, ReplayMarks, ReplayStores, ReplayRemoves, Retry, RetryFetches,
                RetryDecrypts, RetryStores, Clear, SweepDecrypts, SweepStores, ClearWipes,
                ClearReadsPending, ClearPlaceholders, ClearEnds, PassEnds, Remain
        <3> QED
            BY <2>3, <3>1, <3>2
    <2>4. CASE Outside \/ Crash
        BY <2>4 DEF Outside, OthersCommit, FollowCommit, CatchUp, Invite, Join, Fail, Crash, Elsewhere
    <2> QED
        BY <2>1, <2>2, <2>3, <2>4 DEF Next, Begins, Outside
<1>2. HasGroup' <=> group' # NoGroup
    BY DEF HasGroup, NoGroup
<1> QED
    BY <1>0, <1>1, <1>2 DEF HasGroup

LEMMA SweepStep ==
    ASSUME TypeInv, ClearsInOneEpoch, SweepInv, [Next]_vars
    PROVE  ClearsInOneEpoch' /\ SweepInv'
<1>1. use' = use /\ (HasGroup' => group'.epoch \in Nat)
    BY UseStays, GroupIs
<1>2. ASSUME NEW p \in Passes, pass'[p].kind = "clear"
      PROVE  /\ "clear" \in use.kinds
             /\ pass'[p].pc \in {"sweep", "sweepStore"} =>
                   \A m \in use.sent : cache'[m] = "none" => m \in pass'[p].todo
    <2>1. Cleared(p)
        BY <1>2, ClearIs
    <2>2. use.sent \subseteq Messages /\ use \in Uses /\ head \in Nat
        BY ConstantsAssumption DEF TypeInv, GroupOK, LastEpoch
    <2>3. "clear" \in use.kinds => Sent = use.sent
        BY <2>2 DEF ClearsInOneEpoch, Sent, EpochOf
    <2>4. \A m \in use.sent : cache'[m] = "none" => cache[m] = "none"
        BY <2>2, StaysCached
    <2> QED
        BY <2>1, <2>2, <2>3, <2>4 DEF Cleared, SweepInv
<1> QED
    BY <1>1, <1>2 DEF ClearsInOneEpoch, SweepInv

LEMMA SweepInit == Init => SweepInv
<1> SUFFICES ASSUME Init PROVE SweepInv
    OBVIOUS
<1>1. \A p \in Passes : pass[p].kind = "none"
    BY NoPassIsPass DEF Init
<1>2. HasGroup => group.epoch \in Nat
    BY DEF Init, HasGroup
<1> QED
    BY <1>1, <1>2 DEF SweepInv

(* Before a clear deletes the keys of a conversation of one epoch, every   *)
(* message they still decrypt is in the cache, whatever overlaps with it,  *)
(* fails or is killed (clearConversationGroup).                            *)
THEOREM ClearsTryEverything == Spec /\ ClearsInOneEpoch => ClearTriesEverything
<1> DEFINE Tried == \A p \in Passes :
                        At(p, "clear", "sweep") /\ HasGroup /\ group' = NoGroup
                            => \A m \in Sent : Verdict(m) = "plain" => cache[m] # "none"
<1>1. TypeInv /\ ClearsInOneEpoch /\ SweepInv /\ [Next]_vars
          => (TypeInv /\ ClearsInOneEpoch /\ SweepInv)'
    BY TypeStep, SweepStep
<1>2. TypeInv /\ ClearsInOneEpoch /\ SweepInv /\ [Next]_vars => [Tried]_vars
    <2> SUFFICES ASSUME TypeInv, SweepInv, [Next]_vars, HasGroup, group' = NoGroup,
                        NEW m \in Sent
                 PROVE  cache[m] # "none"
        OBVIOUS
    <2>1. PICK p \in Passes : ClearWipes(p)
        BY GroupIs
    <2>2. pass[p].kind = "clear" /\ pass[p].pc = "sweep" /\ pass[p].todo = {} /\ m \in use.sent
        BY <2>1 DEF ClearWipes, At, Sent
    <2> QED
        BY <2>2 DEF SweepInv
<1>3. Init => TypeInv /\ SweepInv
    BY TypeInit, SweepInit
<1> QED
    BY <1>1, <1>2, <1>3, PTL DEF Spec, ClearTriesEverything

=============================================================================
