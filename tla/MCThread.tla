------------------------------- MODULE MCThread -------------------------------
(* A calm page; and one whose text is sent again while it loads, with      *)
(* sends, events and the app that fail.                                    *)
EXTENDS Thread

TwoToggles == {1, 2}
CalmOrNot == {{}, {"answers", "failures"}}
=============================================================================
