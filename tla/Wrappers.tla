------------------------------- MODULE Wrappers -------------------------------
(***************************************************************************)
(* The libraries that stand in front of a vendor's, side by side: that of  *)
(* the camera (CameraWrapper), and those of the sensors, the lights and    *)
(* the Wi-Fi address (VendorHelpers).  They share no state.                *)
(***************************************************************************)
EXTENDS CameraWrapper, VendorHelpers

WrappersSpec == CameraSpec /\ HelpersSpec

\* Cameras that are used one after the other, and devices that are opened once, work
\* and are given back; what is cancelled, lit or asked for is there.
WrappersInv == CameraInv /\ HelpersInv
=============================================================================
