-------------------------- MODULE MCFirmwareUpdate --------------------------
(* Two releases, one after the other or one again, in the device's two slots. *)
EXTENDS FirmwareUpdate
=============================================================================
