----------------------------- MODULE EncoderApi -----------------------------
(***************************************************************************)
(* What the transmit path expects of an encoder, whichever one is linked   *)
(* (sremfb_enc_encode in server/core/core.h): one frame at a time goes in, *)
(* and either the unit of that frame comes out, which is the caller's      *)
(* until its next call, or the encoder fails and is never called again.    *)
(***************************************************************************)
EXTENDS Naturals

VARIABLES
  phase,     \* "idle", "busy", "lent" (the caller has a unit) or "failed"
  frame,     \* number of the frame put in last
  unit       \* the frames the unit the caller has is made of

apiVars == <<phase, frame, unit>>

ApiInit == phase = "idle" /\ frame = 0 /\ unit = {}

Submit ==
  /\ phase = "idle"
  /\ phase' = "busy" /\ frame' = frame + 1 /\ unit' = {}

Return ==
  /\ phase = "busy"
  /\ phase' = "lent" /\ unit' = {frame} /\ frame' = frame

Done ==
  /\ phase = "lent"
  /\ phase' = "idle" /\ unit' = {} /\ frame' = frame

GiveUp ==
  /\ phase \in {"idle", "busy"}
  /\ phase' = "failed" /\ unit' = {} /\ frame' = frame

ApiNext == Submit \/ Return \/ Done \/ GiveUp

ApiSpec == ApiInit /\ [][ApiNext]_apiVars
=============================================================================
