------------------------------- MODULE MCEvdi -------------------------------
(***************************************************************************)
(* The plug gate and the card tracker of the EVDI server.  They share no   *)
(* state: one run explores each of them from its own initial states.       *)
(***************************************************************************)
EXTENDS PlugGate, Cards, TLC

VARIABLE part   \* the component that moves

evdiVars == <<part, gateVars, cardsVars>>

Symmetry == Permutations(Clients)
FirstNums == 1 .. 3

Init ==
  /\ part \in {"gate", "cards"} /\ GateInit /\ CardsInit
  /\ part # "cards" => cards = {}

Next ==
  /\ \/ part = "gate" /\ GateNext /\ UNCHANGED cardsVars
     \/ part = "cards" /\ CardsNext /\ UNCHANGED gateVars
  /\ part' = part

Spec == Init /\ [][Next]_evdiVars

\* Every variable of the two components keeps to its type.
TypeOK == GateTypeOK /\ CardsTypeOK
=============================================================================
