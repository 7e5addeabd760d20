------------------------------ MODULE MCStream ------------------------------
(***************************************************************************)
(* The two ends of a stream: the transmit path of a server, and the viewer *)
(* that decodes and shows what it gets.  They share no state: one run      *)
(* explores each of them from its own initial states.                      *)
(***************************************************************************)
EXTENDS MCXmit, View

VARIABLE part   \* the component that moves

streamVars == <<part, vars, viewVars>>

\* A long stream; one that comes back; or a user and a stream that comes and goes.
StreamOrUser ==
  {[msgs |-> 4, conns |-> 1, keys |-> 0, fails |-> 1],
   [msgs |-> 3, conns |-> 2, keys |-> 0, fails |-> 1],
   [msgs |-> 1, conns |-> 2, keys |-> 5, fails |-> 0]}

StreamInit ==
  /\ part \in {"transmit", "viewer"} /\ Init /\ ViewInit
  /\ part # "viewer" => left = CHOOSE b \in Budgets : TRUE

StreamNext ==
  /\ \/ part = "transmit" /\ Next /\ UNCHANGED viewVars
     \/ part = "viewer" /\ ViewNext /\ UNCHANGED vars
  /\ part' = part

\* Each component under its own fairness.
StreamSpec ==
  /\ StreamInit /\ [][StreamNext]_streamVars
  /\ \/ part = "transmit" /\ Fairness
     \/ part = "viewer" /\ ViewFairness
=============================================================================
