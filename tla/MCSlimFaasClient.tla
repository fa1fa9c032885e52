------------------------- MODULE MCSlimFaasClient -------------------------
(* Small instances of SlimFaasClient for TLC. *)
EXTENDS SlimFaasClient

MCReturnCodes == {200, 202}
MCManualCodes == {200}
MCNoise == {"BadJson", "BadShape"}
MCNoNoise == {}
====
