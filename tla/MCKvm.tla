------------------------------- MODULE MCKvm -------------------------------
(***************************************************************************)
(* The picture of the KVM server: its capture, and the hardware encoder    *)
(* that the transmit path calls.  They share no state: one run explores    *)
(* each from its own initial states.                                       *)
(***************************************************************************)
EXTENDS Kvm, Encoder

VARIABLE part   \* the component that moves

kvmPartVars == <<part, kvmVars, encoderVars>>

Init ==
  /\ part \in {"capture", "encoder"}
  /\ KvmInit /\ EncoderInit
  /\ part # "capture" => conf = [geometry |-> "client", resize |-> "scale"]

Next ==
  /\ \/ part = "capture" /\ KvmNext /\ UNCHANGED encoderVars
     \/ part = "encoder" /\ EncoderNext /\ UNCHANGED kvmVars
  /\ part' = part

Spec == Init /\ [][Next]_kvmPartVars /\ (part = "capture" => KvmFairness)

\* Every variable of the two components keeps to its type.
TypeOK == KvmTypeOK /\ EncoderTypeOK
=============================================================================
