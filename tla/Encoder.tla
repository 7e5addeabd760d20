------------------------------- MODULE Encoder -------------------------------
(***************************************************************************)
(* The hardware encoder of the KVM server, server/kvm/encoder_v4l2.c: one  *)
(* call hands a frame to the firmware in an OUTPUT buffer and waits for    *)
(* its access unit, which comes in one CAPTURE buffer or in several, with  *)
(* headers apart, or amid refuse.  The unit stays in its buffer until the  *)
(* next call, while the core is sending it.  A piece is a kind and the     *)
(* timestamp of its frame; bytes are left out, and of headers all but that *)
(* they were pasted in.                                                    *)
(***************************************************************************)
EXTENDS Naturals, Sequences, SequencesExt

CONSTANTS
  CapBufs,       \* CAPTURE buffers
  NoCap,
  OutBufs,       \* OUTPUT buffers (ENC_OUT_NBUF)
  MaxFrames,     \* bound on frames encoded
  MaxRefuse      \* bound on buffers of refuse from the firmware

ASSUME EncoderAssumption ==
  /\ NoCap \notin CapBufs
  /\ {MaxFrames, MaxRefuse} \subseteq Nat

VARIABLES
  enc,           \* struct SremfbEncoder: seq, held, the queued flags; failed
  call,          \* the locals of the sremfb_enc_encode under way
  au,            \* the unit the core has: pieces, buffer, being sent
  firmware,      \* pieces still to come, and inputs it has not given back
  capq,          \* filled CAPTURE buffers, oldest first
  late,          \* history: this unit was cut short by a pause of the firmware
  refuse         \* bound only

encoderVars == <<enc, call, au, firmware, capq, late, refuse>>

Piece(ts, kind, full, idr) == [ts |-> ts, kind |-> kind, full |-> full, idr |-> idr]

\* What the firmware makes of frame n: a slice that fits its buffer, one that
\* fills it with or without a rest, or headers of their own with any stamp.
Shapes(n, idr) ==
  {<<Piece(n, "slice", FALSE, idr)>>,
   <<Piece(n, "slice", TRUE, idr)>>,
   <<Piece(n, "slice", TRUE, idr), Piece(n, "rest", FALSE, FALSE)>>}
  \cup {<<Piece(ts, "headers", FALSE, FALSE), Piece(n, "slice", FALSE, idr)>> : ts \in {0, n}}

Pieces ==
  [ts : 0 .. MaxFrames, kind : {"slice", "rest", "headers", "empty", "error"},
   full : BOOLEAN, idr : BOOLEAN]

\* The slices of a unit, which is what the picture is made of.
Body(sh) == IF sh[1].kind = "headers" THEN Tail(sh) ELSE sh

\* pieces: something was taken; got: the slices taken.
NoCall == [on |-> FALSE, force |-> FALSE, idr |-> FALSE, vcl |-> FALSE,
           pieces |-> FALSE, got |-> <<>>]
NoUnit == [of |-> 0, force |-> FALSE, got |-> <<>>, buf |-> NoCap, sending |-> FALSE]

EncoderTypeOK ==
  /\ enc \in [seq : 0 .. MaxFrames, held : CapBufs \cup {NoCap}, cap : SUBSET CapBufs,
              out : SUBSET OutBufs, failed : BOOLEAN]
  /\ call \in [on : BOOLEAN, force : BOOLEAN, idr : BOOLEAN, vcl : BOOLEAN,
               pieces : BOOLEAN, got : Seq(Pieces)]
  /\ au \in [of : 0 .. MaxFrames, force : BOOLEAN, got : Seq(Pieces),
             buf : CapBufs \cup {NoCap}, sending : BOOLEAN]
  /\ firmware \in [todo : Seq([out : OutBufs, left : Seq(Pieces)]), whole : Seq(Pieces), back : SUBSET OutBufs]
  /\ capq \in Seq([buf : CapBufs, piece : Pieces])
  /\ late \in BOOLEAN /\ refuse \in 0 .. MaxRefuse

\* sremfb_enc_open: every CAPTURE buffer is queued, both streams are on.
EncoderInit ==
  /\ enc = [seq |-> 0, held |-> NoCap, cap |-> CapBufs, out |-> {}, failed |-> FALSE]
  /\ call = NoCall /\ au = NoUnit
  /\ firmware = [todo |-> <<>>, whole |-> <<>>, back |-> {}]
  /\ capq = <<>> /\ late = FALSE /\ refuse = 0

-----------------------------------------------------------------------------
(* sremfb_enc_encode. *)

\* reclaim_out.
Reclaimed(e) == [e EXCEPT !.out = @ \ firmware.back]

\* The core goes back to RAW for the rest of the connection.
Fails(e) ==
  /\ enc' = [Reclaimed(e) EXCEPT !.failed = TRUE]
  /\ firmware' = [firmware EXCEPT !.back = {}]
  /\ call' = NoCall

\* The call begins: the buffer lent to the core goes back to the driver, the
\* frame goes into a free OUTPUT buffer.  Without one the call fails, as it does
\* when the driver refuses the key frame or the buffer.  sh and idr are the
\* firmware's.
EncodeStart(force, idr, sh) ==
  /\ ~call.on /\ ~enc.failed /\ ~au.sending
  /\ enc.seq < MaxFrames
  /\ sh \in Shapes(enc.seq + 1, idr)
  /\ LET e == Reclaimed([enc EXCEPT !.cap = (@ \cup {enc.held}) \ {NoCap}, !.held = NoCap])
         b == CHOOSE x \in OutBufs \ e.out : TRUE
     IN  \/ Fails(e)
         \/ /\ OutBufs \ e.out # {}
            /\ enc' = [e EXCEPT !.seq = @ + 1, !.out = @ \cup {b}]
            /\ call' = [NoCall EXCEPT !.on = TRUE, !.force = force]
            /\ firmware' = [todo |-> Append(firmware.todo, [out |-> b, left |-> sh]),
                             whole |-> Body(sh), back |-> {}]
  /\ au' = NoUnit /\ late' = FALSE
  /\ UNCHANGED <<capq, refuse>>

\* Mutant: the buffer goes back to the driver at once.
FinishQueued(e, c, buf) ==
  /\ enc' = [Reclaimed(e) EXCEPT !.cap = (@ \cup {buf}) \ {NoCap},
                                 !.failed = c.force /\ ~c.idr]
  /\ firmware' = [firmware EXCEPT !.back = {}]
  /\ call' = NoCall
  /\ au' = [of |-> enc.seq, force |-> c.force, got |-> c.got, buf |-> buf,
            sending |-> TRUE]

\* A unit goes to the core: from its one buffer without a copy, or pasted up.
Finish(e, c, buf) ==
  /\ enc' = [Reclaimed(e) EXCEPT !.held = buf, !.failed = c.force /\ ~c.idr]
  /\ firmware' = [firmware EXCEPT !.back = {}]
  /\ call' = NoCall
  /\ au' = IF c.force /\ ~c.idr THEN NoUnit
           ELSE [of |-> enc.seq, force |-> c.force, got |-> c.got, buf |-> buf,
                 sending |-> TRUE]

\* Mutant: the stamp is not looked at.
StrangeAny(p) == p.kind = "empty"

\* A buffer that is empty, or of another frame unless it holds headers alone.
Strange(p) == p.kind = "empty" \/ (p.ts # enc.seq /\ (call.vcl \/ p.kind # "headers"))

\* A slice was seen and the buffer is not full.
Complete(vcl, p) == vcl /\ ~p.full

\* One buffer from DQBUF.
Dequeue ==
  /\ call.on /\ capq # <<>>
  /\ capq' = Tail(capq)
  /\ LET b == Head(capq).buf
         p == Head(capq).piece
         back == [enc EXCEPT !.cap = @ \cup {b}]
         vcl == call.vcl \/ p.kind = "slice"
         c == [call EXCEPT !.vcl = vcl, !.idr = @ \/ p.idr, !.pieces = TRUE,
                              !.got = IF p.kind = "headers" THEN @ ELSE Append(@, p)]
     IN  IF p.kind = "error" THEN Fails(back) /\ UNCHANGED au
         ELSE IF Strange(p) THEN enc' = back /\ UNCHANGED <<call, au, firmware>>
         ELSE IF Complete(vcl, p) /\ ~call.pieces THEN Finish(enc, c, b)
         ELSE IF Complete(vcl, p) THEN Finish(back, c, NoCap)
         ELSE enc' = back /\ call' = c /\ UNCHANGED <<au, firmware>>
  /\ UNCHANGED <<late, refuse>>

\* 50 ms after a full buffer the unit is taken as it is; 200 ms without a slice
\* and the call fails.
Expire ==
  /\ call.on
  /\ IF call.vcl
     THEN Finish(enc, call, NoCap) /\ late' = (call.got # firmware.whole)
     ELSE Fails(enc) /\ UNCHANGED <<au, late>>
  /\ UNCHANGED <<capq, refuse>>

\* The core has sent the unit; no call is made before (out_active).
UnitSent ==
  /\ au.sending
  /\ au' = NoUnit
  /\ UNCHANGED <<enc, call, firmware, capq, late, refuse>>

-----------------------------------------------------------------------------
(* The firmware: external. *)

Emit(b) ==
  /\ b \in enc.cap
  /\ firmware.todo # <<>>
  /\ enc' = [enc EXCEPT !.cap = @ \ {b}]
  /\ LET unit == Head(firmware.todo)
     IN  /\ capq' = Append(capq, [buf |-> b, piece |-> Head(unit.left)])
         /\ firmware' =
              IF Len(unit.left) = 1
              THEN [firmware EXCEPT !.todo = Tail(@), !.back = @ \cup {unit.out}]
              ELSE [firmware EXCEPT !.todo[1].left = Tail(@)]
  /\ UNCHANGED <<call, au, late, refuse>>

\* Refuse with no stamp, an empty buffer, or one marked as an error.
EmitRefuse(b, kind) ==
  /\ refuse < MaxRefuse /\ refuse' = refuse + 1
  /\ b \in enc.cap
  /\ enc' = [enc EXCEPT !.cap = @ \ {b}]
  /\ capq' = Append(capq, [buf |-> b, piece |-> Piece(0, kind, FALSE, FALSE)])
  /\ UNCHANGED <<call, au, firmware, late>>

EncoderNext ==
  \/ \E force, idr \in BOOLEAN : \E sh \in Shapes(enc.seq + 1, idr) :
       EncodeStart(force, idr, sh)
  \/ Dequeue \/ Expire \/ UnitSent
  \/ \E b \in CapBufs : Emit(b) \/ \E k \in {"slice", "empty", "error"} : EmitRefuse(b, k)

EncoderSpec == EncoderInit /\ [][EncoderNext]_encoderVars

-----------------------------------------------------------------------------
(* Properties. *)

\* The unit a call returns is the one of its frame, whole and in order, with no
\* piece of another, however late the other pieces of the frame before come;
\* and it opens an episode when it has to.  Exempt is the unit that a pause of
\* the firmware cut.
UnitExact ==
  au.sending /\ ~late =>
    /\ au.got = firmware.whole
    /\ \A i \in DOMAIN au.got : au.got[i].ts = au.of
    /\ au.force => \E i \in DOMAIN au.got : au.got[i].idr

\* The driver never writes a buffer whose unit is being sent, and no buffer is
\* lost to it between two calls on any path through the loop.
BufferLent ==
  /\ au.sending => au.buf \notin enc.cap
  /\ CapBufs = enc.cap \cup {x.buf : x \in ToSet(capq)} \cup ({enc.held} \ {NoCap})

\* The unit the core sends is exact, and stays so until it is sent.
UnitLent == UnitExact /\ BufferLent

ApiPhase ==
  IF call.on THEN "busy" ELSE IF au.sending THEN "lent"
  ELSE IF enc.failed THEN "failed" ELSE "idle"
ApiUnit == IF au.sending THEN {p.ts : p \in ToSet(au.got)} ELSE {}
Api == INSTANCE EncoderApi WITH phase <- ApiPhase, frame <- enc.seq, unit <- ApiUnit

\* The encoder implements what the transmit path expects of one: the unit the
\* core is given is made of slices of the frame it put in, and of no other,
\* whatever the firmware sends amid them.
EncoderImplements == Api!ApiSpec

=============================================================================
