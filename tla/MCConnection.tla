---------------------------- MODULE MCConnection ----------------------------
(***************************************************************************)
(* What lives and dies with a client's connection: the client itself, its  *)
(* device, callbacks and peer file on the server, and the USB devices that *)
(* the peer file teleports.  They share no state: one run explores each of *)
(* them from its own initial states.                                       *)
(***************************************************************************)
EXTENDS MCSession, Usb

VARIABLE part   \* the component that moves

connectionVars == <<part, vars, usbVars>>

ConnectionInit == part \in {"session", "usb"} /\ Init /\ UsbInit

ConnectionNext ==
  /\ \/ part = "session" /\ Next /\ UNCHANGED usbVars
     \/ part = "usb" /\ UsbNext /\ UNCHANGED vars
  /\ part' = part

\* Each component under its own fairness.
ConnectionSpec ==
  /\ ConnectionInit /\ [][ConnectionNext]_connectionVars
  /\ \/ part = "session" /\ Fairness
     \/ part = "usb" /\ UsbFairness
=============================================================================
