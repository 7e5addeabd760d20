------------------------------- MODULE MCXmit -------------------------------
(***************************************************************************)
(* Instances of Xmit for TLC.                                              *)
(***************************************************************************)
EXTENDS Xmit

\* The top row, everything, and the bottom row with a part off the screen.
Bands ==
  {[x1 |-> 0, y1 |-> 0, x2 |-> W, y2 |-> 1],
   [x1 |-> 0, y1 |-> 0, x2 |-> W, y2 |-> H],
   [x1 |-> -1, y1 |-> H - 1, x2 |-> W, y2 |-> H + 1]}

\* On a screen of one row every rectangle is this one, once clamped.
Whole == {[x1 |-> -1, y1 |-> 0, x2 |-> W, y2 |-> H + 1]}

(***************************************************************************)
(* The control run.  To keep it small a lost client is torn down at once,  *)
(* no ping waits together with a BLANK or UNBLANK, and DPMS and failures   *)
(* of the encoder come before the mode set in mid-stream, not after it.    *)
(***************************************************************************)
PowerQueued(d) == {"BLANK", "UNBLANK"} \cap {d.outq[i] : i \in DOMAIN d.outq} # {}

ControlOnly ==
  /\ c.lost => c'.state = "GONE"
  /\ PowerQueued(c') => c'.pings = 0
  /\ remodes' > 0 => dpms /\ dpms' /\ ~c'.h264_failed

=============================================================================
