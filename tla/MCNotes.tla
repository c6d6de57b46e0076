------------------------------ MODULE MCNotes -------------------------------
(* Two notes, and one thing at a time that disturbs a calm user. *)
EXTENDS Notes

CONSTANTS list, idea

TwoNotes == {list, idea}
OneAtATime == {{}, {"fails"}, {"peer"}, {"hasty"}}
=============================================================================
