------------------------------- MODULE MCSending -------------------------------
(* Sending with one or two texts, one of which may be a place. *)
EXTENDS Sending

CONSTANTS t1, t2

OneText == {t1}
TwoTexts == {t1, t2}
PlaceToo == {t2}
=============================================================================
