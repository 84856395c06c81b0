----------------------------- MODULE MCUsbMass -----------------------------
(* Model checking of the mass storage device and its host. *)
EXTENDS UsbMass
=============================================================================
