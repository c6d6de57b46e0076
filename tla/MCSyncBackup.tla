----------------------------- MODULE MCSyncBackup -----------------------------
(* SyncBackup with model values: texts 1 and 2 are a's, text 3 is b's. *)
EXTENDS SyncBackup, TLC

CONSTANTS a, b, t1, t2, u

OneAccount == {a}
TwoAccounts == {a, b}
OneText == {t1}
TwoTexts == {t1, t2}
TextsOfBoth == {t1, u}
OwnedBy == [t \in Texts |-> IF t = u THEN b ELSE a]
=============================================================================
