----------------------------- MODULE MCDevices -----------------------------
(***************************************************************************)
(* The parts of the servers that act on another machine's or session's     *)
(* devices: the default audio output, the monitor layout and the inputs of *)
(* the desktop, and the HID gadget of the KVM server.  They share no       *)
(* state: one run explores each of them from its own initial states.       *)
(***************************************************************************)
EXTENDS Audio, Layout, Input, Hid

VARIABLE part   \* the component that moves

devicesVars == <<part, audioVars, layoutVars, inputVars, hidVars>>

MCDevSets == {{"KEYBOARD", "GAMEPAD"}, {"POINTER"}, {"MOUSE"}}
MCLayouts == {[x |-> 0, w |-> 3, ext |-> 5], [x |-> 2, w |-> 2, ext |-> 4]}

\* No action of module Hid tells one key from another.
KeySymmetry == Permutations(Keys)

Init ==
  /\ part \in {"audio", "layout", "input", "hid"}
  /\ AudioInit /\ LayoutInit /\ InputInit /\ HidInit
  /\ part # "audio" => pw.def = Unset
  /\ part # "input" => layout = NoLayout

Next ==
  /\ \/ part = "audio" /\ AudioNext /\ UNCHANGED <<layoutVars, inputVars, hidVars>>
     \/ part = "layout" /\ LayoutNext /\ UNCHANGED <<audioVars, inputVars, hidVars>>
     \/ part = "input" /\ InputNext /\ UNCHANGED <<audioVars, layoutVars, hidVars>>
     \/ part = "hid" /\ HidNext /\ UNCHANGED <<audioVars, layoutVars, inputVars>>
  /\ part' = part

Spec == Init /\ [][Next]_devicesVars

\* The two mirrors of mutter's monitors, the layout's and the pointer's, are never left behind:
\* whatever order calls, replies and signals come in, a refresh that is still due is under way.
RefreshArmed == RestoreArmed /\ LayoutCurrent

\* Every variable of the four components keeps to its type.
TypeOK == AudioTypeOK /\ LayoutTypeOK /\ InputTypeOK /\ HidTypeOK
=============================================================================
