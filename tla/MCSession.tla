------------------------------ MODULE MCSession ------------------------------
(* Small instances of the client lifecycle. *)
EXTENDS Session, TLC

Symmetry == Permutations(Conns)

\* A machine with USB devices and one without a MAC, which may connect twice.
OneWithUsb ==
  {[mac |-> "m1", ip |-> "i1", usb |-> TRUE],
   [mac |-> "zero", ip |-> "i2", usb |-> FALSE]}

\* The same, both with USB devices.
NoMac ==
  {[mac |-> "m1", ip |-> "i1", usb |-> TRUE],
   [mac |-> "zero", ip |-> "i2", usb |-> TRUE]}
=============================================================================
