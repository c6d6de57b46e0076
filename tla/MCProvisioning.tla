--------------------------- MODULE MCProvisioning ---------------------------
(* Two conversations, one archived. *)
EXTENDS Provisioning

CONSTANTS chat, group

TwoConvs == {chat, group}
OneArchived == {group}
Harm == {{}, {"dies", "wiped"}, {"revoked"}}
Dying == {{"dies"}}
=============================================================================
