---------------------------- MODULE MCPreferences ----------------------------
(* Instances of Preferences for TLC: what the user touches and what goes    *)
(* wrong in one behaviour.                                                  *)
EXTENDS Preferences

CONSTANTS ann, bob

Both == {ann, bob}
Calm == {{"settings"}, {"settings", "unread"}, {"embeds", "unread"}, {"badge", "unread"},
         {"badge", "unsent"}, {"badge", "evicted"}}
Some == Calm \union {{"settings", "mutes", "peer"}, {"settings", "switch"}, {"embeds", "switch"},
                     {"embeds", "unsent"}, {"embeds", "hasty"}, {"badge", "unsent", "revisits"}}
=============================================================================
