--------------------------- MODULE XmitWireProofs ---------------------------
(***************************************************************************)
(* Proofs about what Xmit puts on the wire and what the far end makes of   *)
(* it.                                                                     *)
(***************************************************************************)
EXTENDS XmitProofs, FiniteSetTheorems, SequenceTheorems

(***************************************************************************)
(* The inductive invariants.  The peer is looked at once the frame in      *)
(* flight is out: q stands for DeliverFrame(peer, c.out).                  *)
(***************************************************************************)
Queued(d, m) == \E i \in DOMAIN d.outq : d.outq[i] = m

\* Pending work is armed.
Armed(d) ==
  d.state = "STREAMING" /\ ~d.lost /\ ~d.h264_failed /\ Pending(d) => d.out_watch \/ d.out_retry

\* Before and after a connection streams, nothing is pending.
Idle(d, p) ==
  d.state # "STREAMING" =>
    /\ d.outq = <<>> /\ d.out = NoFrame /\ d.dirty = <<>> /\ ~d.dirty_all
    /\ ~p.greeted /\ ~p.episode /\ ~p.misordered

\* Hello is the first message, and comes once.
Greeting(d, q) ==
  d.state = "STREAMING" /\ ~d.lost =>
    /\ ~q.misordered
    /\ \A i \in DOMAIN d.outq : d.outq[i] = "HELLO" => i = 1 /\ ~q.greeted
    /\ ~q.greeted => d.outq # <<>> /\ d.outq[1] = "HELLO"

\* An episode begins with an IDR and ends with an EOS.
Episodes(d, q) ==
  d.state = "STREAMING" /\ ~d.lost =>
    /\ d.xmit_mode = "RAW" => (q.episode => Queued(d, "EOS"))
    /\ d.xmit_mode = "H264" => d.force_idr \/ (q.episode /\ ~Queued(d, "EOS"))

\* Outside the pending region the panel holds what shadowbuf says, and in RAW
\* mode nothing of it came out of the decoder, save what the server cannot know.
Shown(d, q) ==
  d.state = "STREAMING" =>
    \A x \in Cells \ (Region(d) \cup q.blind) :
      /\ d.shadowbuf[x] = q.screen[x]
      /\ d.xmit_mode = "RAW" => x \in q.exact

\* The last power message queued is the state of the connector; with none, a
\* panel that was sent something to show is on.
Dark(q) == \A x \in Cells \ q.blind : q.screen[x] = Black

Powers == {"BLANK", "UNBLANK"}
Lit(d, q, on) ==
  d.state = "STREAMING" /\ ~d.lost =>
    /\ \A i \in DOMAIN d.outq :
         d.outq[i] \in Powers /\ (\A j \in DOMAIN d.outq : j > i => d.outq[j] \notin Powers)
         => (d.outq[i] = "UNBLANK" <=> on)
    /\ on /\ (\A i \in DOMAIN d.outq : d.outq[i] \notin Powers) =>
         ~q.blank \/ Dark(q)

\* A connection starts with a black panel, save what the panel kept.
Fresh(d, p) ==
  d.state # "STREAMING" => Dark(p) /\ Cells \ p.blind \subseteq p.exact

Wire(d, p) ==
  /\ ~p.garbled /\ Idle(d, p)
  /\ Greeting(d, DeliverFrame(p, d.out)) /\ Episodes(d, DeliverFrame(p, d.out))

Panel(d, p, on) ==
  /\ Fresh(d, p)
  /\ Shown(d, DeliverFrame(p, d.out)) /\ Lit(d, DeliverFrame(p, d.out), on)

WireInv == FirstMode => Wire(c, peer)
PanelInv == FirstMode => Panel(c, peer, dpms)

(***************************************************************************)
(* What the operators do, field by field.                                  *)
(***************************************************************************)
\* The fields the controller leaves alone; the other three only go up.
Base(d, e) ==
  /\ e.state = d.state /\ e.lost = d.lost /\ e.out = d.out /\ e.pings = d.pings
  /\ e.shadowbuf = d.shadowbuf
  /\ d.out_watch => e.out_watch
  /\ d.out_retry => e.out_retry
  /\ d.h264_failed => e.h264_failed

SameWork(d, e) ==
  /\ e.outq = d.outq /\ e.dirty = d.dirty /\ e.dirty_all = d.dirty_all
  /\ e.xmit_mode = d.xmit_mode /\ e.force_idr = d.force_idr

ToH264(d, e) ==
  /\ e.outq = d.outq /\ e.dirty = <<>> /\ (e.dirty_all <=> d.dirty # <<>> \/ d.dirty_all)
  /\ e.xmit_mode = "H264" /\ e.force_idr

ToRaw(d, e) ==
  /\ e.outq = (IF d.lost THEN d.outq ELSE Append(d.outq, "EOS"))
  /\ e.dirty = <<>> /\ e.dirty_all
  /\ e.xmit_mode = "RAW" /\ (~d.lost => e.out_watch)

\* Only a client that streams changes its mode.
CtlStep(d, e) ==
  /\ Base(d, e)
  /\ \/ SameWork(d, e)
     \/ d.state = "STREAMING" /\ (ToH264(d, e) \/ ToRaw(d, e))

LEMMA KickStep ==
  ASSUME NEW d \in ClientType
  PROVE  /\ Kick(d) \in ClientType /\ Base(d, Kick(d)) /\ SameWork(d, Kick(d))
         /\ ~d.lost /\ Pending(d) => Kick(d).out_watch
         /\ Armed(Kick(d))
<1> DEFINE e == [d EXCEPT !.out_watch = TRUE]
<1>1. /\ e \in ClientType /\ Base(d, e) /\ SameWork(d, e) /\ e.out_watch
  BY DEF ClientType, Base, SameWork
<1>2. Base(d, d) /\ SameWork(d, d)
  BY DEF Base, SameWork
<1> HIDE DEF e
<1>3. CASE d.lost \/ ~Pending(d)
  BY <1>2, <1>3 DEF Kick, Armed
<1>4. CASE ~(d.lost \/ ~Pending(d))
  <2>1. Kick(d) = e
    BY <1>4 DEF Kick, e
  <2> QED
    BY <2>1, <1>1 DEF Armed
<1> QED
  BY <1>3, <1>4

\* sremfb_xmit_ctrl queues the message and arms the watch, unless the client
\* is lost.
LEMMA XmitCtrlStep ==
  ASSUME NEW d \in ClientType, NEW m \in Ctrls, NEW e, e = XmitCtrl(d, m)
  PROVE  /\ e \in ClientType /\ Base(d, e)
         /\ e.outq = (IF d.lost THEN d.outq ELSE Append(d.outq, m))
         /\ e.dirty = d.dirty /\ e.dirty_all = d.dirty_all
         /\ e.xmit_mode = d.xmit_mode /\ e.force_idr = d.force_idr
         /\ ~d.lost => e.out_watch
<1>1. CASE d.lost
  BY <1>1 DEF XmitCtrl, Base
<1>2. CASE ~d.lost
  <2> DEFINE s == Append(d.outq, m)
             g == [d EXCEPT !.outq = s]
  <2>1. d.outq \in Seq(Ctrls)
    BY DEF ClientType
  <2>2. s \in Seq(Ctrls) /\ s # <<>>
    BY <2>1, AppendProperties
  <2>3. e = Kick(g)
    BY <1>2 DEF XmitCtrl
  <2> HIDE DEF s
  <2>4. /\ g \in ClientType /\ Base(d, g) /\ g.outq = s /\ g.dirty = d.dirty /\ g.dirty_all = d.dirty_all
        /\ g.xmit_mode = d.xmit_mode /\ g.force_idr = d.force_idr /\ g.lost = d.lost
    BY <2>2 DEF ClientType, Base
  <2> HIDE DEF g
  <2>5. Pending(g)
    BY <2>2, <2>4 DEF Pending
  <2>6. /\ e \in ClientType /\ Base(g, e) /\ SameWork(g, e) /\ e.out_watch
    BY <2>3, <2>4, <2>5, <1>2, KickStep
  <2> QED
    BY <2>4, <2>6, <1>2 DEF Base, SameWork, s
<1> QED
  BY <1>1, <1>2

LEMMA SetModeRawStep ==
  ASSUME NEW d \in ClientType, NEW e, e = SetModeRaw(d)
  PROVE  /\ e \in ClientType
         /\ d.state # "STREAMING" \/ d.xmit_mode = "RAW" => e = d
         /\ d.state = "STREAMING" /\ d.xmit_mode = "H264" => Base(d, e) /\ ToRaw(d, e)
<1>1. CASE d.state # "STREAMING" \/ d.xmit_mode = "RAW"
  BY <1>1 DEF SetModeRaw
<1>2. CASE d.state = "STREAMING" /\ d.xmit_mode # "RAW"
  <2> DEFINE d1 == [d EXCEPT !.xmit_mode = "RAW"]
             d2 == XmitCtrl(d1, "EOS")
             d3 == [d2 EXCEPT !.dirty = <<>>, !.dirty_all = TRUE]
  <2>1. e = Kick(d3)
    BY <1>2 DEF SetModeRaw
  <2>2. /\ d1 \in ClientType /\ Base(d, d1) /\ d1.outq = d.outq /\ d1.xmit_mode = "RAW"
    BY DEF ClientType, Base
  <2> HIDE DEF d1
  <2>3. /\ d2 \in ClientType /\ Base(d1, d2) /\ d2.xmit_mode = "RAW"
        /\ d2.outq = (IF d1.lost THEN d1.outq ELSE Append(d1.outq, "EOS"))
    <3>1. "EOS" \in Ctrls
      BY DEF Ctrls
    <3>2. /\ d2 \in ClientType /\ Base(d1, d2) /\ d2.xmit_mode = d1.xmit_mode
          /\ d2.outq = (IF d1.lost THEN d1.outq ELSE Append(d1.outq, "EOS"))
      BY <3>1, <2>2, XmitCtrlStep
    <3> QED
      BY <3>2, <2>2
  <2> HIDE DEF d2
  <2>4. /\ d3 \in ClientType /\ Base(d2, d3) /\ d3.xmit_mode = "RAW"
        /\ d3.outq = d2.outq /\ d3.dirty = <<>> /\ d3.dirty_all
    BY <2>3, EmptyDirty DEF ClientType, Base
  <2> HIDE DEF d3
  <2>5. Pending(d3)
    BY <2>4 DEF Pending
  <2>6. /\ e \in ClientType /\ Base(d3, e) /\ SameWork(d3, e) /\ (~d3.lost => e.out_watch)
    BY <2>1, <2>4, <2>5, KickStep
  <2> QED
    BY <2>2, <2>3, <2>4, <2>6, <1>2 DEF Base, SameWork, ToRaw
<1>3. d.xmit_mode \in {"RAW", "H264"}
  BY DEF ClientType
<1> QED
  BY <1>1, <1>2, <1>3

LEMMA SetModeH264Step ==
  ASSUME NEW d \in ClientType, NEW e \in SetModeH264(d)
  PROVE  /\ e \in ClientType /\ Base(d, e)
         /\ SameWork(d, e) \/ (d.state = "STREAMING" /\ ToH264(d, e))
<1> DEFINE all == d.dirty # <<>> \/ d.dirty_all
           sw == [d EXCEPT !.enc = TRUE, !.force_idr = TRUE, !.xmit_mode = "H264",
                           !.dirty = <<>>, !.dirty_all = all]
           failed == [d EXCEPT !.h264_failed = TRUE]
<1>1. e = d \/ (e = sw /\ d.state = "STREAMING") \/ e = failed
  BY DEF SetModeH264
<1>2. Base(d, d) /\ SameWork(d, d)
  BY DEF Base, SameWork
<1>3. failed \in ClientType /\ Base(d, failed) /\ SameWork(d, failed)
  BY DEF ClientType, Base, SameWork
<1>4. all \in BOOLEAN
  BY DEF ClientType
<1>5. (all <=> d.dirty # <<>> \/ d.dirty_all)
  OBVIOUS
<1> HIDE DEF all
<1>6. sw \in ClientType /\ Base(d, sw) /\ ToH264(d, sw)
  BY <1>4, <1>5, EmptyDirty, ZenonT(30) DEF ClientType, Base, ToH264
<1> QED
  BY <1>1, <1>2, <1>3, <1>6

LEMMA CtlEvaluateStep ==
  ASSUME NEW d \in ClientType, NEW e \in CtlEvaluate(d)
  PROVE  e \in ClientType /\ CtlStep(d, e)
<1> DEFINE CtlStates == {"RAW_STEADY", "RAW_SUSPECT", "H264_ACTIVE", "H264_COOLDOWN"}
<1>1. ASSUME NEW g \in ClientType, NEW s \in CtlStates, NEW h, h = [g EXCEPT !.ctl_state = s]
      PROVE  h \in ClientType /\ Base(g, h) /\ SameWork(g, h)
  BY <1>1 DEF ClientType, Base, SameWork
<1>2. Base(d, d) /\ SameWork(d, d)
  BY DEF Base, SameWork
<1>3. CASE e = d
  BY <1>2, <1>3 DEF CtlStep
<1>4. CASE e \in EnterH264(d)
  <2>1. PICK g \in SetModeH264(d), s \in CtlStates : e = [g EXCEPT !.ctl_state = s]
    BY <1>4 DEF EnterH264
  <2>2. /\ g \in ClientType /\ Base(d, g)
        /\ SameWork(d, g) \/ (d.state = "STREAMING" /\ ToH264(d, g))
    BY SetModeH264Step
  <2>3. e \in ClientType /\ Base(g, e) /\ SameWork(g, e)
    BY <2>1, <2>2, <1>1
  <2> QED
    BY <2>2, <2>3 DEF CtlStep, Base, SameWork, ToH264
<1>5. CASE e \in LeaveH264(d)
  <2> DEFINE g == SetModeRaw(d)
  <2>1. e = [g EXCEPT !.ctl_state = "RAW_STEADY"]
    BY <1>5 DEF LeaveH264
  <2>2. g \in ClientType /\ (g = d \/ (d.state = "STREAMING" /\ Base(d, g) /\ ToRaw(d, g)))
    <3>1. d.xmit_mode \in {"RAW", "H264"}
      BY DEF ClientType
    <3> QED
      BY <3>1, SetModeRawStep
  <2> HIDE DEF g
  <2>3. e \in ClientType /\ Base(g, e) /\ SameWork(g, e)
    BY <2>1, <2>2, <1>1
  <2> QED
    BY <2>2, <2>3 DEF CtlStep, Base, SameWork, ToRaw
<1>6. CASE \E m \in CtlMoves : e = [d EXCEPT !.ctl_state = m[2]]
  <2>1. PICK m \in CtlMoves : e = [d EXCEPT !.ctl_state = m[2]]
    BY <1>6
  <2>2. m[2] \in CtlStates
    BY DEF CtlMoves
  <2> QED
    BY <2>1, <2>2, <1>1 DEF CtlStep
<1> QED
  BY <1>3, <1>4, <1>5, <1>6 DEF CtlEvaluate

(***************************************************************************)
(* The parts of the invariants, as the fields they look at change.         *)
(***************************************************************************)
LEMMA Appended ==
  ASSUME NEW q \in Seq(Ctrls), NEW m \in Ctrls, NEW r, r = Append(q, m)
  PROVE  /\ r \in Seq(Ctrls) /\ r # <<>> /\ DOMAIN r = DOMAIN q \cup {Len(q) + 1}
         /\ Len(q) + 1 \notin DOMAIN q /\ r[Len(q) + 1] = m /\ Len(q) \in Nat
         /\ \A i \in DOMAIN q : r[i] = q[i] /\ i \in Nat /\ i < Len(q) + 1
         /\ q = <<>> => Len(q) + 1 = 1
         /\ q # <<>> => 1 \in DOMAIN q
         /\ 1 \in DOMAIN r
<1>1. /\ r \in Seq(Ctrls) /\ r # <<>> /\ Len(r) = Len(q) + 1 /\ Len(q) \in Nat
      /\ \A i \in 1 .. Len(q) : r[i] = q[i]
      /\ r[Len(q) + 1] = m
  BY AppendProperties
<1>2. DOMAIN r = 1 .. Len(q) + 1 /\ DOMAIN q = 1 .. Len(q)
  BY <1>1
<1>3. q # <<>> => Len(q) # 0
  BY EmptySeq
<1>4. q = <<>> => Len(q) = 0
  OBVIOUS
<1> QED
  BY <1>1, <1>2, <1>3, <1>4

LEMMA GreetingKept ==
  ASSUME NEW d \in ClientType, NEW e, NEW q, Greeting(d, q),
         e.state = d.state, e.lost = d.lost,
         \/ e.outq = d.outq
         \/ \E m \in Ctrls \ {"HELLO"} : e.outq = Append(d.outq, m)
  PROVE  Greeting(e, q)
<1>1. CASE e.outq = d.outq
  BY <1>1 DEF Greeting
<1>2. CASE \E m \in Ctrls \ {"HELLO"} : e.outq = Append(d.outq, m)
  <2>1. PICK m \in Ctrls \ {"HELLO"} : e.outq = Append(d.outq, m)
    BY <1>2
  <2>2. d.outq \in Seq(Ctrls)
    BY DEF ClientType
  <2>3. /\ e.outq # <<>> /\ DOMAIN e.outq = DOMAIN d.outq \cup {Len(d.outq) + 1}
        /\ e.outq[Len(d.outq) + 1] = m /\ \A i \in DOMAIN d.outq : e.outq[i] = d.outq[i]
        /\ d.outq # <<>> => 1 \in DOMAIN d.outq
    BY <2>1, <2>2, Appended
  <2> QED
    BY <2>1, <2>3 DEF Greeting
<1> QED
  BY <1>1, <1>2

LEMMA QueuedAppended ==
  ASSUME NEW d \in ClientType, NEW e, NEW m \in Ctrls, e.outq = Append(d.outq, m), NEW k
  PROVE  Queued(e, k) <=> Queued(d, k) \/ m = k
<1>1. d.outq \in Seq(Ctrls)
  BY DEF ClientType
<1>2. /\ DOMAIN e.outq = DOMAIN d.outq \cup {Len(d.outq) + 1}
      /\ e.outq[Len(d.outq) + 1] = m /\ \A i \in DOMAIN d.outq : e.outq[i] = d.outq[i]
  BY <1>1, Appended
<1> QED
  BY <1>2 DEF Queued

\* The mode stays as it is, or it changes the way the controller changes it.
LEMMA EpisodesKept ==
  ASSUME NEW d \in ClientType, NEW e \in ClientType, NEW q, Episodes(d, q),
         e.state = d.state, e.lost = d.lost,
         \/ /\ e.xmit_mode = d.xmit_mode /\ e.force_idr = d.force_idr
            /\ \/ e.outq = d.outq
               \/ \E m \in Ctrls \ {"EOS"} : e.outq = Append(d.outq, m)
         \/ e.xmit_mode = "H264" /\ e.force_idr
         \/ e.xmit_mode = "RAW" /\ e.outq = (IF d.lost THEN d.outq ELSE Append(d.outq, "EOS"))
  PROVE  Episodes(e, q)
<1>1. CASE e.xmit_mode = d.xmit_mode /\ e.force_idr = d.force_idr /\ e.outq = d.outq
  BY <1>1 DEF Episodes, Queued
<1>2. CASE /\ e.xmit_mode = d.xmit_mode /\ e.force_idr = d.force_idr
           /\ \E m \in Ctrls \ {"EOS"} : e.outq = Append(d.outq, m)
  <2>1. PICK m \in Ctrls \ {"EOS"} : e.outq = Append(d.outq, m)
    BY <1>2
  <2>2. Queued(e, "EOS") <=> Queued(d, "EOS")
    BY <2>1, QueuedAppended
  <2> QED
    BY <2>2, <1>2 DEF Episodes
<1>3. CASE e.xmit_mode = "H264" /\ e.force_idr
  BY <1>3 DEF Episodes
<1>4. CASE e.xmit_mode = "RAW" /\ e.outq = (IF d.lost THEN d.outq ELSE Append(d.outq, "EOS"))
  <2>1. CASE d.lost
    BY <2>1 DEF Episodes
  <2>2. CASE ~d.lost
    <3>1. "EOS" \in Ctrls /\ e.outq = Append(d.outq, "EOS")
      BY <2>2, <1>4 DEF Ctrls
    <3>2. Queued(e, "EOS")
      BY <3>1, QueuedAppended
    <3> QED
      BY <3>2, <1>4 DEF Episodes
  <2> QED
    BY <2>1, <2>2
<1> QED
  BY <1>1, <1>2, <1>3, <1>4

LEMMA ShownKept ==
  ASSUME NEW d \in ClientType, NEW e, NEW q, Shown(d, q),
         e.state = d.state, e.shadowbuf = d.shadowbuf,
         \/ e.xmit_mode \in {d.xmit_mode, "H264"} /\ Region(d) \subseteq Region(e)
         \/ Region(e) = Cells
  PROVE  Shown(e, q)
BY DEF Shown

LEMMA LitKept ==
  ASSUME NEW d \in ClientType, NEW e, NEW q, NEW on \in BOOLEAN, Lit(d, q, on),
         e.state = d.state, e.lost = d.lost,
         \/ e.outq = d.outq
         \/ \E m \in Ctrls \ Powers : e.outq = Append(d.outq, m)
  PROVE  Lit(e, q, on)
<1>1. CASE e.outq = d.outq
  BY <1>1 DEF Lit
<1>2. CASE \E m \in Ctrls \ Powers : e.outq = Append(d.outq, m)
  <2>1. PICK m \in Ctrls \ Powers : e.outq = Append(d.outq, m)
    BY <1>2
  <2>2. d.outq \in Seq(Ctrls)
    BY DEF ClientType
  <2>3. /\ DOMAIN e.outq = DOMAIN d.outq \cup {Len(d.outq) + 1}
        /\ e.outq[Len(d.outq) + 1] = m /\ \A i \in DOMAIN d.outq : e.outq[i] = d.outq[i]
    BY <2>1, <2>2, Appended
  <2> QED
    BY <2>1, <2>3 DEF Lit
<1> QED
  BY <1>1, <1>2

\* The power message of a connector event is the last one.
LEMMA LitPower ==
  ASSUME NEW d \in ClientType, NEW e, NEW q, NEW on \in BOOLEAN,
         e.outq = Append(d.outq, IF on THEN "UNBLANK" ELSE "BLANK")
  PROVE  Lit(e, q, on)
<1> DEFINE m == IF on THEN "UNBLANK" ELSE "BLANK"
<1>1. m \in Ctrls /\ m \in Powers /\ (m = "UNBLANK" <=> on)
  BY DEF Ctrls, Powers
<1>2. d.outq \in Seq(Ctrls)
  BY DEF ClientType
<1> HIDE DEF m
<1>3. e.outq = Append(d.outq, m)
  BY DEF m
<1>4. /\ DOMAIN e.outq = DOMAIN d.outq \cup {Len(d.outq) + 1}
      /\ e.outq[Len(d.outq) + 1] = m
      /\ \A i \in DOMAIN d.outq : Len(d.outq) + 1 > i
  BY <1>1, <1>2, <1>3, Appended
<1> QED
  BY <1>1, <1>4 DEF Lit

(***************************************************************************)
(* Steps of the server that send nothing.                                  *)
(***************************************************************************)
\* More becomes pending, or the client is given up.
LEMMA WireQuiet ==
  ASSUME NEW d \in ClientType, NEW e \in ClientType, NEW p, Wire(d, p),
         e.state = d.state, e.lost = d.lost \/ e.lost, e.out = d.out, e.outq = d.outq,
         e.xmit_mode = d.xmit_mode, e.force_idr = d.force_idr,
         d.state = "STREAMING" \/ (e.dirty = d.dirty /\ e.dirty_all = d.dirty_all)
  PROVE  Wire(e, p)
<1> DEFINE q == DeliverFrame(p, d.out)
<1>1. ~p.garbled /\ Idle(d, p) /\ Greeting(d, q) /\ Episodes(d, q)
  BY DEF Wire
<1> HIDE DEF q
<1>2. Greeting(e, q) /\ Episodes(e, q)
  <2>1. CASE e.lost
    BY <2>1 DEF Greeting, Episodes
  <2>2. CASE e.lost = d.lost
    BY <2>2, <1>1, GreetingKept, EpisodesKept
  <2> QED
    BY <2>1, <2>2
<1>3. Idle(e, p)
  BY <1>1 DEF Idle
<1> QED
  BY <1>1, <1>2, <1>3 DEF Wire, q

LEMMA PanelQuiet ==
  ASSUME NEW d \in ClientType, NEW e \in ClientType, NEW p, NEW on \in BOOLEAN, Panel(d, p, on),
         e.state = d.state, e.lost = d.lost \/ e.lost, e.out = d.out, e.outq = d.outq,
         e.xmit_mode = d.xmit_mode, e.shadowbuf = d.shadowbuf, Region(d) \subseteq Region(e)
  PROVE  Panel(e, p, on)
<1> DEFINE q == DeliverFrame(p, d.out)
<1>1. Fresh(d, p) /\ Shown(d, q) /\ Lit(d, q, on)
  BY DEF Panel
<1> HIDE DEF q
<1>2. Lit(e, q, on)
  <2>1. CASE e.lost
    BY <2>1 DEF Lit
  <2>2. CASE e.lost = d.lost
    BY <2>2, <1>1, LitKept
  <2> QED
    BY <2>1, <2>2
<1>3. Shown(e, q)
  BY <1>1, ShownKept
<1>4. Fresh(e, p)
  BY <1>1 DEF Fresh
<1> QED
  BY <1>2, <1>3, <1>4 DEF Panel, q

LEMMA RegionInCells ==
  ASSUME NEW d
  PROVE  Region(d) \subseteq Cells
BY DEF Region, CellsOf

LEMMA ArmedCtl ==
  ASSUME NEW d \in ClientType, NEW e \in ClientType, CtlStep(d, e), Armed(d)
  PROVE  Armed(e)
<1>1. CASE SameWork(d, e)
  BY <1>1 DEF CtlStep, Base, SameWork, Armed, Pending
<1>2. CASE ToH264(d, e)
  BY <1>2 DEF CtlStep, Base, ToH264, Armed, Pending
<1>3. CASE ToRaw(d, e)
  BY <1>3 DEF CtlStep, Base, ToRaw, Armed
<1> QED
  BY <1>1, <1>2, <1>3 DEF CtlStep

LEMMA WireCtl ==
  ASSUME NEW d \in ClientType, NEW e \in ClientType, CtlStep(d, e), NEW p, Wire(d, p)
  PROVE  Wire(e, p)
<1> DEFINE q == DeliverFrame(p, d.out)
<1>1. ~p.garbled /\ Idle(d, p) /\ Greeting(d, q) /\ Episodes(d, q)
  BY DEF Wire
<1>2. e.state = d.state /\ e.lost = d.lost /\ e.out = d.out
  BY DEF CtlStep, Base
<1> HIDE DEF q
<1>3. CASE SameWork(d, e)
  BY <1>2, <1>3, WireQuiet DEF SameWork
<1>4. CASE d.state = "STREAMING" /\ ToH264(d, e)
  <2>1. Greeting(e, q)
    BY <1>1, <1>2, <1>4, GreetingKept DEF ToH264
  <2>2. Episodes(e, q)
    BY <1>1, <1>2, <1>4, EpisodesKept DEF ToH264
  <2> QED
    BY <2>1, <2>2, <1>1, <1>2, <1>4 DEF Wire, Idle, q
<1>5. CASE d.state = "STREAMING" /\ ToRaw(d, e)
  <2>1. "EOS" \in Ctrls \ {"HELLO"}
    BY DEF Ctrls
  <2>2. Greeting(e, q)
    BY <2>1, <1>1, <1>2, <1>5, GreetingKept DEF ToRaw
  <2>3. Episodes(e, q)
    BY <1>1, <1>2, <1>5, EpisodesKept DEF ToRaw
  <2> QED
    BY <2>2, <2>3, <1>1, <1>2, <1>5 DEF Wire, Idle, q
<1> QED
  BY <1>3, <1>4, <1>5 DEF CtlStep

LEMMA PanelCtl ==
  ASSUME NEW d \in ClientType, NEW e \in ClientType, CtlStep(d, e), NEW p,
         NEW on \in BOOLEAN, Panel(d, p, on)
  PROVE  Panel(e, p, on)
<1> DEFINE q == DeliverFrame(p, d.out)
<1>1. Fresh(d, p) /\ Shown(d, q) /\ Lit(d, q, on)
  BY DEF Panel
<1>2. e.state = d.state /\ e.lost = d.lost /\ e.out = d.out /\ e.shadowbuf = d.shadowbuf
  BY DEF CtlStep, Base
<1> HIDE DEF q
<1>3. CASE SameWork(d, e)
  <2>1. Region(d) = Region(e)
    BY <1>3 DEF SameWork, Region
  <2> QED
    BY <2>1, <1>2, <1>3, PanelQuiet DEF SameWork
<1>4. CASE ToH264(d, e)
  <2>1. Region(d) \subseteq Region(e)
    <3>1. CASE e.dirty_all
      BY <3>1, RegionInCells DEF Region
    <3>2. CASE ~e.dirty_all
      BY <3>2, <1>4 DEF ToH264, Region
    <3> QED
      BY <3>1, <3>2
  <2>2. Shown(e, q)
    BY <2>1, <1>1, <1>2, <1>4, ShownKept DEF ToH264
  <2>3. Lit(e, q, on)
    BY <1>1, <1>2, <1>4, LitKept DEF ToH264
  <2> QED
    BY <2>2, <2>3, <1>1, <1>2 DEF Panel, Fresh, q
<1>5. CASE ToRaw(d, e)
  <2>1. "EOS" \in Ctrls \ Powers
    BY DEF Ctrls, Powers
  <2>2. Shown(e, q)
    <3>1. Region(e) = Cells
      BY <1>5 DEF ToRaw, Region
    <3> QED
      BY <3>1, <1>1, <1>2, ShownKept
  <2>3. e.outq = d.outq \/ e.outq = Append(d.outq, "EOS")
    BY <1>5 DEF ToRaw
  <2>4. Lit(e, q, on)
    BY <2>1, <2>3, <1>1, <1>2, LitKept
  <2> QED
    BY <2>2, <2>4, <1>1, <1>2 DEF Panel, Fresh, q
<1> QED
  BY <1>3, <1>4, <1>5 DEF CtlStep

\* sremfb_xmit_ctrl of a message that is neither hello nor the end of an
\* episode; a power message comes with the connector's new state.
LEMMA WireCtrl ==
  ASSUME NEW d \in ClientType, NEW m \in {"PING", "BLANK", "UNBLANK"}, NEW e, e = XmitCtrl(d, m),
         NEW p, Wire(d, p), d.state = "STREAMING"
  PROVE  Wire(e, p)
<1> DEFINE q == DeliverFrame(p, d.out)
<1>1. ~p.garbled /\ Idle(d, p) /\ Greeting(d, q) /\ Episodes(d, q)
  BY DEF Wire
<1>2. m \in Ctrls /\ m # "HELLO" /\ m # "EOS"
  BY DEF Ctrls
<1>3. /\ e \in ClientType /\ Base(d, e)
      /\ e.outq = (IF d.lost THEN d.outq ELSE Append(d.outq, m))
      /\ e.xmit_mode = d.xmit_mode /\ e.force_idr = d.force_idr
  BY <1>2, XmitCtrlStep
<1>4. e.state = d.state /\ e.lost = d.lost /\ e.out = d.out
  BY <1>3 DEF Base
<1> HIDE DEF q
<1>5. e.outq = d.outq \/ e.outq = Append(d.outq, m)
  BY <1>3
<1>6. Greeting(e, q)
  BY <1>1, <1>2, <1>4, <1>5, GreetingKept
<1>7. Episodes(e, q)
  BY <1>1, <1>2, <1>3, <1>4, <1>5, EpisodesKept
<1> QED
  BY <1>1, <1>4, <1>6, <1>7 DEF Wire, Idle, q

LEMMA PanelCtrl ==
  ASSUME NEW d \in ClientType, NEW e, NEW p, NEW on \in BOOLEAN, NEW was \in BOOLEAN,
         Panel(d, p, was), NEW m \in {"PING", "BLANK", "UNBLANK"}, e = XmitCtrl(d, m),
         IF m = "PING" THEN on = was ELSE m = (IF on THEN "UNBLANK" ELSE "BLANK")
  PROVE  Panel(e, p, on)
<1> DEFINE q == DeliverFrame(p, d.out)
<1>1. Fresh(d, p) /\ Shown(d, q) /\ Lit(d, q, was)
  BY DEF Panel
<1>2. m \in Ctrls
  BY DEF Ctrls
<1>3. /\ e \in ClientType /\ Base(d, e)
      /\ e.outq = (IF d.lost THEN d.outq ELSE Append(d.outq, m))
      /\ e.dirty = d.dirty /\ e.dirty_all = d.dirty_all
      /\ e.xmit_mode = d.xmit_mode
  BY <1>2, XmitCtrlStep
<1>4. /\ e.state = d.state /\ e.lost = d.lost /\ e.out = d.out /\ e.shadowbuf = d.shadowbuf
      /\ Region(e) = Region(d)
  BY <1>3 DEF Base, Region
<1> HIDE DEF q
<1>5. Shown(e, q)
  BY <1>1, <1>3, <1>4, ShownKept
<1>7. Lit(e, q, on)
  <2>1. CASE d.lost
    BY <2>1, <1>4 DEF Lit
  <2>2. CASE ~d.lost /\ m = "PING"
    <3>1. m \in Ctrls \ Powers
      BY <2>2, <1>2 DEF Powers
    <3> QED
      BY <3>1, <2>2, <1>1, <1>3, <1>4, LitKept
  <2>3. CASE ~d.lost /\ m # "PING"
    BY <2>3, <1>3, LitPower
  <2> QED
    BY <2>1, <2>2, <2>3
<1> QED
  BY <1>1, <1>4, <1>5, <1>7 DEF Panel, Fresh, q

\* sremfb_xmit_damage, for a client that streams.
LEMMA DamageKept ==
  ASSUME NEW d, WellFormed(d), NEW r1 \in DamageRects, NEW r2 \in DamageRects,
         NEW f \in XmitDamage(d, r1, r2), NEW p, NEW on \in BOOLEAN, d.state = "STREAMING"
  PROVE  /\ f \in ClientType /\ f.pings = d.pings
         /\ \/ f.outq = d.outq
            \/ f.outq = Append(d.outq, "EOS")
         /\ f.out = d.out /\ f.lost = d.lost
         /\ Armed(d) => Armed(f)
         /\ Wire(d, p) => Wire(f, p)
         /\ Panel(d, p, on) => Panel(f, p, on)
<1> DEFINE d1 == AddDamage(d, r1)
           d2 == AddDamage(d1, r2)
<1>1. WellFormed(d1) /\ SameButDirty(d, d1) /\ Region(d) \subseteq Region(d1)
  BY AddDamageCovers
<1>2. f = d \/ \E g \in CtlEvaluate(d2) : f = Kick(g)
  BY DEF XmitDamage
<1> HIDE DEF d1
<1>3. WellFormed(d2) /\ SameButDirty(d1, d2) /\ Region(d1) \subseteq Region(d2)
  BY <1>1, AddDamageCovers
<1> HIDE DEF d2
<1>4. d \in ClientType /\ d2 \in ClientType /\ SameButDirty(d, d2) /\ Region(d) \subseteq Region(d2)
  BY <1>1, <1>3 DEF WellFormed, SameButDirty
<1>5. CASE f = d
  BY <1>4, <1>5
<1>6. CASE \E g \in CtlEvaluate(d2) : f = Kick(g)
  <2>1. PICK g \in CtlEvaluate(d2) : f = Kick(g)
    BY <1>6
  <2>2. g \in ClientType /\ CtlStep(d2, g)
    BY <1>4, CtlEvaluateStep
  <2>3. f \in ClientType /\ CtlStep(g, f) /\ Armed(f) /\ Base(g, f) /\ SameWork(g, f)
    BY <2>1, <2>2, KickStep DEF CtlStep
  <2>4. Wire(d, p) => Wire(f, p)
    <3>1. Wire(d, p) => Wire(d2, p)
      BY <1>4, WireQuiet DEF SameButDirty
    <3> QED
      BY <3>1, <2>2, <2>3, <1>4, WireCtl
  <2>5. Panel(d, p, on) => Panel(f, p, on)
    <3>1. Panel(d, p, on) => Panel(d2, p, on)
      BY <1>4, PanelQuiet DEF SameButDirty
    <3> QED
      BY <3>1, <2>2, <2>3, <1>4, PanelCtl
  <2>6. /\ f.pings = d.pings /\ f.out = d.out /\ f.lost = d.lost
        /\ f.outq = d.outq \/ f.outq = Append(d.outq, "EOS")
    BY <2>2, <2>3, <1>4 DEF SameButDirty, CtlStep, Base, SameWork, ToH264, ToRaw
  <2> QED
    BY <2>3, <2>4, <2>5, <2>6
<1> QED
  BY <1>2, <1>5, <1>6

(***************************************************************************)
(* A pass of on_out_ready that comes to build_next.                        *)
(***************************************************************************)
\* A frame that starts: what it does to the client.
Started(d, g, f) ==
  /\ f \in Frames /\ g.out = f
  /\ g.state = d.state /\ g.lost = d.lost /\ g.outq = d.outq /\ g.pings = d.pings
  /\ g.out_watch = d.out_watch /\ g.xmit_mode = d.xmit_mode
  /\ g.shadowbuf = ShadowUpdate(d, f.rect) /\ f.rect \in Rect
  /\ \A x \in CellsOf(f.rect) : f.pix[x] = d.grabbuf[x]
  /\ Region(d) \subseteq Region(g) \cup CellsOf(f.rect)
  /\ IF d.xmit_mode = "RAW"
     THEN f.encoding = "RAW" /\ g.force_idr = d.force_idr
     ELSE f.encoding = "H264" /\ CellsOf(f.rect) = Cells /\ ~g.force_idr
          /\ (f.idr <=> d.force_idr)

\* An encode that fails.
EncodeFails(d, e) ==
  /\ e.state = d.state /\ e.lost = d.lost /\ e.out = d.out /\ e.pings = d.pings
  /\ d.xmit_mode = "H264" /\ ToRaw(d, e) /\ e.h264_failed

LEMMA BuildRawStep ==
  ASSUME NEW d \in ClientType, NEW k \in ClientType, NEW r \in Rect, NEW e \in BuildRawRect(k, r),
         d.xmit_mode = "RAW", Region(d) \subseteq Region(k) \cup CellsOf(r),
         k.state = d.state, k.lost = d.lost, k.outq = d.outq, k.pings = d.pings,
         k.out_watch = d.out_watch, k.xmit_mode = d.xmit_mode, k.force_idr = d.force_idr,
         k.grabbuf = d.grabbuf, k.shadowbuf = d.shadowbuf
  PROVE  e \in ClientType /\ \E g \in ClientType, f \in Frames : Started(d, g, f) /\ CtlStep(g, e)
<1> DEFINE shown == ShadowUpdate(k, r)
           f == [encoding |-> "RAW", rect |-> r, pix |-> shown, idr |-> FALSE]
           g == [k EXCEPT !.shadowbuf = shown, !.out = f, !.out_off = FALSE]
<1>1. shown \in Image
  BY ShadowUpdateType
<1>2. shown = ShadowUpdate(d, r) /\ \A x \in CellsOf(r) : shown[x] = d.grabbuf[x]
  BY DEF ShadowUpdate, CellsOf
<1>3. e \in CtlEvaluate(g)
  BY DEF BuildRawRect, FrameStart
<1> HIDE DEF shown
<1>4. f \in Frames /\ f.encoding = "RAW" /\ f.rect = r /\ f.pix = shown
  BY <1>1 DEF Frames
<1> HIDE DEF f
<1>5. /\ g \in ClientType /\ g.shadowbuf = shown /\ g.out = f
      /\ g.state = k.state /\ g.lost = k.lost /\ g.outq = k.outq /\ g.pings = k.pings
      /\ g.out_watch = k.out_watch /\ g.xmit_mode = k.xmit_mode /\ g.force_idr = k.force_idr
      /\ g.dirty = k.dirty /\ g.dirty_all = k.dirty_all
  BY <1>1, <1>4 DEF ClientType
<1> HIDE DEF g
<1>6. Region(g) = Region(k)
  BY <1>5 DEF Region
<1>7. Started(d, g, f)
  BY <1>2, <1>4, <1>5, <1>6 DEF Started
<1>8. e \in ClientType /\ CtlStep(g, e)
  BY <1>3, <1>5, CtlEvaluateStep
<1> QED
  BY <1>4, <1>5, <1>7, <1>8

LEMMA BuildH264Step ==
  ASSUME NEW d \in ClientType, NEW k \in ClientType, NEW e \in BuildH264Frame(k),
         d.xmit_mode = "H264", d.state = "STREAMING", d.out = NoFrame, k.out = d.out,
         k.state = d.state, k.lost = d.lost, k.outq = d.outq, k.pings = d.pings,
         k.out_watch = d.out_watch, k.xmit_mode = d.xmit_mode, k.force_idr = d.force_idr,
         k.grabbuf = d.grabbuf, k.shadowbuf = d.shadowbuf
  PROVE  /\ e \in ClientType
         /\ \/ EncodeFails(d, e)
            \/ \E g \in ClientType, f \in Frames : Started(d, g, f) /\ CtlStep(g, e)
<1> DEFINE pic == ShadowUpdate(k, FullRect)
           s == [k EXCEPT !.shadowbuf = pic, !.force_idr = FALSE]
           f == [encoding |-> "H264", rect |-> FullRect, pix |-> k.grabbuf, idr |-> k.force_idr]
           g == [s EXCEPT !.out = f, !.out_off = FALSE]
           t == [s EXCEPT !.h264_failed = TRUE]
<1>1. pic \in Image /\ FullRect \in Rect /\ CellsOf(FullRect) = Cells
  BY ShadowUpdateType, FullRectCovers
<1>2. pic = ShadowUpdate(d, FullRect)
  BY DEF ShadowUpdate
<1>3. e \in CtlEvaluate(g) \/ e = SetModeRaw(t)
  BY DEF BuildH264Frame, FrameStart
<1> HIDE DEF pic
<1>4. /\ s \in ClientType /\ s.shadowbuf = pic /\ ~s.force_idr /\ s.out = k.out
      /\ s.state = k.state /\ s.lost = k.lost /\ s.outq = k.outq /\ s.pings = k.pings
      /\ s.out_watch = k.out_watch /\ s.xmit_mode = k.xmit_mode
  BY <1>1 DEF ClientType
<1>5. /\ f \in Frames /\ f.encoding = "H264" /\ f.rect = FullRect /\ f.pix = k.grabbuf
      /\ f.idr = k.force_idr
  BY <1>1 DEF Frames, ClientType
<1> HIDE DEF s, f
<1>6. CASE e \in CtlEvaluate(g)
  <2>1. /\ g \in ClientType /\ g.shadowbuf = pic /\ g.out = f /\ ~g.force_idr
        /\ g.state = k.state /\ g.lost = k.lost /\ g.outq = k.outq /\ g.pings = k.pings
        /\ g.out_watch = k.out_watch /\ g.xmit_mode = k.xmit_mode
    BY <1>4, <1>5 DEF ClientType
  <2> HIDE DEF g
  <2>2. Started(d, g, f)
    BY <2>1, <1>1, <1>2, <1>5, RegionInCells DEF Started
  <2>3. e \in ClientType /\ CtlStep(g, e)
    BY <2>1, <1>6, CtlEvaluateStep
  <2> QED
    BY <2>1, <2>2, <2>3, <1>5
<1>7. CASE e = SetModeRaw(t)
  <2>1. /\ t \in ClientType /\ t.h264_failed /\ t.out = k.out
        /\ t.state = k.state /\ t.lost = k.lost /\ t.outq = k.outq /\ t.pings = k.pings
        /\ t.xmit_mode = k.xmit_mode
    BY <1>4 DEF ClientType
  <2> HIDE DEF t
  <2>2. e \in ClientType /\ Base(t, e) /\ ToRaw(t, e)
    BY <2>1, <1>7, SetModeRawStep
  <2>3. EncodeFails(d, e)
    BY <2>1, <2>2 DEF EncodeFails, Base, ToRaw
  <2> QED
    BY <2>2, <2>3
<1> QED
  BY <1>3, <1>6, <1>7

\* build_next, when no frame is in flight.
LEMMA BuildNextStep ==
  ASSUME NEW d \in ClientType, d.out = NoFrame, NEW e \in BuildNext(d)
  PROVE  /\ e \in ClientType
         /\ \/ e = d /\ (d.state # "STREAMING" \/ (d.dirty = <<>> /\ ~d.dirty_all))
            \/ Base(d, e) /\ SameWork(d, e) /\ e.out_retry
            \/ /\ d.state = "STREAMING"
               /\ \/ EncodeFails(d, e)
                  \/ \E g \in ClientType, f \in Frames : Started(d, g, f) /\ CtlStep(g, e)
<1> DEFINE clean == [d EXCEPT !.dirty = <<>>, !.dirty_all = FALSE]
           retry == [d EXCEPT !.out_retry = TRUE]
           rest == [d EXCEPT !.dirty = Tail(@)]
<1>1. /\ clean \in ClientType /\ clean.out = d.out
      /\ clean.state = d.state /\ clean.lost = d.lost /\ clean.outq = d.outq
      /\ clean.pings = d.pings /\ clean.out_watch = d.out_watch
      /\ clean.xmit_mode = d.xmit_mode /\ clean.force_idr = d.force_idr
      /\ clean.grabbuf = d.grabbuf /\ clean.shadowbuf = d.shadowbuf
  BY EmptyDirty DEF ClientType
<1>2. d.xmit_mode \in {"RAW", "H264"} /\ d.dirty \in Seq(Rect) /\ d.dirty_all \in BOOLEAN
  BY DEF ClientType
<1>3. \/ e = d /\ (d.state # "STREAMING" \/ (d.dirty = <<>> /\ ~d.dirty_all))
      \/ e = retry
      \/ d.state = "STREAMING" /\ d.xmit_mode = "H264" /\ e \in BuildH264Frame(clean)
      \/ /\ d.state = "STREAMING" /\ d.xmit_mode = "RAW" /\ d.dirty_all
         /\ e \in BuildRawRect(clean, FullRect)
      \/ /\ d.state = "STREAMING" /\ d.xmit_mode = "RAW" /\ ~d.dirty_all /\ d.dirty # <<>>
         /\ e \in BuildRawRect(rest, Head(d.dirty))
  BY <1>2 DEF BuildNext
<1>4. CASE e = retry
  BY <1>4 DEF ClientType, Base, SameWork
<1>5. CASE d.state = "STREAMING" /\ d.xmit_mode = "H264" /\ e \in BuildH264Frame(clean)
  <2> HIDE DEF clean
  <2> QED
    BY <1>1, <1>5, BuildH264Step
<1>6. CASE /\ d.state = "STREAMING" /\ d.xmit_mode = "RAW" /\ d.dirty_all
           /\ e \in BuildRawRect(clean, FullRect)
  <2> HIDE DEF clean
  <2>1. FullRect \in Rect /\ Region(d) \subseteq Region(clean) \cup CellsOf(FullRect)
    BY FullRectCovers, RegionInCells
  <2> QED
    BY <2>1, <1>1, <1>6, BuildRawStep
<1>7. CASE /\ d.state = "STREAMING" /\ d.xmit_mode = "RAW" /\ ~d.dirty_all /\ d.dirty # <<>>
           /\ e \in BuildRawRect(rest, Head(d.dirty))
  <2> DEFINE t == Tail(d.dirty)
             r == Head(d.dirty)
  <2>1. r \in Rect /\ t \in Seq(Rect) /\ r = d.dirty[1]
    BY <1>2, <1>7
  <2>2. \A i \in DOMAIN d.dirty : i = 1 \/ (i - 1 \in DOMAIN t /\ t[i - 1] = d.dirty[i])
    BY <1>2, <1>7
  <2> HIDE DEF t, r
  <2>3. /\ rest \in ClientType /\ rest.dirty = t /\ rest.dirty_all = d.dirty_all
        /\ rest.state = d.state /\ rest.lost = d.lost /\ rest.outq = d.outq
        /\ rest.pings = d.pings /\ rest.out_watch = d.out_watch
        /\ rest.xmit_mode = d.xmit_mode /\ rest.force_idr = d.force_idr
        /\ rest.grabbuf = d.grabbuf /\ rest.shadowbuf = d.shadowbuf
    BY <2>1 DEF ClientType, t
  <2>4. e \in BuildRawRect(rest, r)
    BY <1>7 DEF r
  <2> HIDE DEF rest
  <2>5. Region(d) \subseteq Region(rest) \cup CellsOf(r)
    BY <1>7, <2>1, <2>2, <2>3 DEF Region
  <2> QED
    BY <2>1, <2>3, <2>4, <2>5, <1>7, BuildRawStep
<1> QED
  BY <1>3, <1>4, <1>5, <1>6, <1>7

\* A frame lands on the panel.
LEMMA Delivered ==
  ASSUME NEW p \in PeerType, ~p.garbled, NEW f \in Frames, NEW q, q = DeliverFrame(p, f)
  PROVE  /\ q \in PeerType /\ ~q.garbled /\ q.greeted = p.greeted /\ q.pongs = p.pongs
         /\ ~q.blank /\ (q.episode <=> f.encoding = "H264")
         /\ q.blind = p.blind \ CellsOf(f.rect)
         /\ \A x \in Cells : q.screen[x] = IF x \in CellsOf(f.rect) THEN f.pix[x] ELSE p.screen[x]
         /\ f.encoding # "H264" => q.exact = p.exact \cup CellsOf(f.rect)
         /\ q.misordered <=> \/ p.misordered \/ ~p.greeted
                             \/ IF f.encoding = "H264" THEN ~p.episode /\ ~f.idr ELSE p.episode
<1>1. f # NoFrame /\ f \in Frames \cup {NoFrame}
  BY DEF Frames, NoFrame
<1>2. q \in PeerType
  BY <1>1, DeliverFrameType
<1> DEFINE wrong == IF f.encoding = "H264" THEN ~p.episode /\ ~f.idr ELSE p.episode
           area == CellsOf(f.rect)
           shown == [x \in Cells |-> IF x \in area THEN f.pix[x] ELSE p.screen[x]]
           bad == p.misordered \/ ~p.greeted \/ wrong
           au == f.encoding = "H264"
           ex == IF au THEN p.exact \ area ELSE p.exact \cup area
           bl == p.blind \ area
<1>3. q = [p EXCEPT !.misordered = bad, !.episode = au, !.screen = shown,
                    !.blank = FALSE, !.blind = bl, !.exact = ex]
  BY <1>1 DEF DeliverFrame
<1>4. \A x \in Cells : shown[x] = IF x \in area THEN f.pix[x] ELSE p.screen[x]
  OBVIOUS
<1>5. (f.encoding # "H264" => ex = p.exact \cup area) /\ (bad <=> p.misordered \/ ~p.greeted \/ wrong)
      /\ (au <=> f.encoding = "H264") /\ bl = p.blind \ CellsOf(f.rect)
  OBVIOUS
<1> HIDE DEF bad, au, shown, ex, bl
<1>6. /\ q.blind = bl /\ q.misordered = bad /\ q.episode = au /\ q.screen = shown /\ q.blank = FALSE /\ q.exact = ex
      /\ q.greeted = p.greeted /\ q.pongs = p.pongs /\ q.garbled = p.garbled
  BY <1>3 DEF PeerType
<1> QED
  BY <1>2, <1>4, <1>5, <1>6

LEMMA NothingDelivered ==
  ASSUME NEW p
  PROVE  DeliverFrame(p, NoFrame) = p
BY DEF DeliverFrame

\* A frame starts: it comes at the right place in the episode.
LEMMA WireStarted ==
  ASSUME NEW d \in ClientType, NEW g \in ClientType, NEW f \in Frames, Started(d, g, f),
         d.out = NoFrame, d.outq = <<>>, d.state = "STREAMING",
         NEW p \in PeerType, Wire(d, p)
  PROVE  Wire(g, p)
<1> DEFINE q == DeliverFrame(p, f)
<1>1. ~p.garbled /\ Greeting(d, p) /\ Episodes(d, p)
  BY NothingDelivered DEF Wire
<1>2. /\ q.greeted = p.greeted /\ (q.episode <=> f.encoding = "H264")
      /\ q.misordered <=> \/ p.misordered \/ ~p.greeted
                          \/ IF f.encoding = "H264" THEN ~p.episode /\ ~f.idr ELSE p.episode
  BY <1>1, Delivered
<1> HIDE DEF q
<1>3. /\ g.state = d.state /\ g.lost = d.lost /\ g.outq = <<>> /\ g.out = f
      /\ g.xmit_mode = d.xmit_mode
      /\ IF d.xmit_mode = "RAW" THEN f.encoding = "RAW"
         ELSE f.encoding = "H264" /\ (f.idr <=> d.force_idr)
  BY DEF Started
<1>4. ~Queued(d, "EOS") /\ ~Queued(g, "EOS") /\ DOMAIN g.outq = {}
  BY <1>3 DEF Queued
<1>5. d.xmit_mode \in {"RAW", "H264"}
  BY DEF ClientType
<1>6. Greeting(g, q)
  BY <1>1, <1>2, <1>3, <1>4, <1>5 DEF Greeting, Episodes
<1>7. Episodes(g, q)
  BY <1>2, <1>3, <1>4 DEF Episodes
<1> QED
  BY <1>1, <1>3, <1>6, <1>7 DEF Wire, Idle, q

LEMMA PanelStarted ==
  ASSUME NEW d \in ClientType, NEW g \in ClientType, NEW f \in Frames, Started(d, g, f),
         d.out = NoFrame, d.outq = <<>>, d.state = "STREAMING",
         NEW p \in PeerType, ~p.garbled, NEW on \in BOOLEAN, Panel(d, p, on)
  PROVE  Panel(g, p, on)
<1> DEFINE q == DeliverFrame(p, f)
<1>1. Fresh(d, p) /\ Shown(d, p) /\ Lit(d, p, on)
  BY NothingDelivered DEF Panel
<1>2. /\ ~q.blank /\ q.blind = p.blind \ CellsOf(f.rect)
      /\ \A x \in Cells : q.screen[x] = IF x \in CellsOf(f.rect) THEN f.pix[x] ELSE p.screen[x]
      /\ f.encoding # "H264" => q.exact = p.exact \cup CellsOf(f.rect)
  BY Delivered
<1> HIDE DEF q
<1>3. /\ g.state = d.state /\ g.lost = d.lost /\ g.outq = <<>> /\ g.out = f
      /\ g.xmit_mode = d.xmit_mode /\ g.shadowbuf = ShadowUpdate(d, f.rect)
      /\ d.xmit_mode = "RAW" => f.encoding = "RAW"
      /\ \A x \in CellsOf(f.rect) : f.pix[x] = d.grabbuf[x]
      /\ Region(d) \subseteq Region(g) \cup CellsOf(f.rect)
  BY DEF Started
<1>4. \A x \in Cells :
        g.shadowbuf[x] = IF x \in CellsOf(f.rect) THEN d.grabbuf[x] ELSE d.shadowbuf[x]
  BY <1>3 DEF ShadowUpdate
<1>5. ASSUME NEW x \in Cells \ (Region(g) \cup q.blind)
      PROVE  g.shadowbuf[x] = q.screen[x] /\ (g.xmit_mode = "RAW" => x \in q.exact)
  <2>1. CASE x \in CellsOf(f.rect)
    BY <2>1, <1>2, <1>3, <1>4
  <2>2. CASE x \notin CellsOf(f.rect)
    <3>1. x \in Cells \ (Region(d) \cup p.blind)
      BY <2>2, <1>2, <1>3, <1>5
    <3> QED
      BY <3>1, <2>2, <1>1, <1>2, <1>3, <1>4 DEF Shown
  <2> QED
    BY <2>1, <2>2
<1>6. Shown(g, q)
  BY <1>5 DEF Shown
<1>7. Lit(g, q, on)
  BY <1>2, <1>3 DEF Lit
<1> QED
  BY <1>1, <1>3, <1>6, <1>7 DEF Panel, Fresh, q

\* Step 3 of on_out_ready, with the queue empty: build, and disarm when no
\* frame came of it.
LEMMA BuildOrDisarmKept ==
  ASSUME NEW d \in ClientType, d.out = NoFrame, d.outq = <<>>, d.out_watch,
         NEW e \in BuildOrDisarm(d), NEW p \in PeerType, NEW on \in BOOLEAN
  PROVE  /\ e \in ClientType /\ Armed(e) /\ e.pings = d.pings
         /\ e.outq = d.outq \/ e.outq = Append(d.outq, "EOS")
         /\ Wire(d, p) => Wire(e, p)
         /\ Wire(d, p) /\ Panel(d, p, on) => Panel(e, p, on)
<1> DEFINE Off(g) == [g EXCEPT !.out_watch = FALSE]
<1>1. PICK f \in BuildNext(d) : e = IF f.out # NoFrame THEN f ELSE Off(f)
  BY DEF BuildOrDisarm
<1>2. ASSUME NEW g \in ClientType, NEW h, h = Off(g)
      PROVE  /\ h \in ClientType /\ h.state = g.state /\ h.lost = g.lost /\ h.out = g.out
             /\ h.outq = g.outq /\ h.xmit_mode = g.xmit_mode /\ h.force_idr = g.force_idr
             /\ h.dirty = g.dirty /\ h.dirty_all = g.dirty_all /\ h.shadowbuf = g.shadowbuf
             /\ h.pings = g.pings /\ h.out_retry = g.out_retry /\ h.h264_failed = g.h264_failed
             /\ Region(h) = Region(g)
  <2>1. /\ h \in ClientType /\ h.state = g.state /\ h.lost = g.lost /\ h.out = g.out
        /\ h.outq = g.outq /\ h.xmit_mode = g.xmit_mode /\ h.force_idr = g.force_idr
        /\ h.dirty = g.dirty /\ h.dirty_all = g.dirty_all /\ h.shadowbuf = g.shadowbuf
        /\ h.pings = g.pings /\ h.out_retry = g.out_retry /\ h.h264_failed = g.h264_failed
    BY <1>2, ZenonT(30) DEF ClientType
  <2>2. Region(h) = Region(g)
    BY <2>1 DEF Region
  <2> QED
    BY <2>1, <2>2
<1>3. ASSUME NEW g \in ClientType, NEW h, h = Off(g)
      PROVE  /\ h \in ClientType
             /\ Wire(g, p) => Wire(h, p)
             /\ Panel(g, p, on) => Panel(h, p, on)
             /\ h.pings = g.pings /\ h.outq = g.outq
  BY <1>2, <1>3, WireQuiet, PanelQuiet
<1> HIDE DEF Off
<1>4. /\ f \in ClientType
      /\ \/ f = d /\ (d.state # "STREAMING" \/ (d.dirty = <<>> /\ ~d.dirty_all))
         \/ Base(d, f) /\ SameWork(d, f) /\ f.out_retry
         \/ /\ d.state = "STREAMING"
            /\ \/ EncodeFails(d, f)
               \/ \E g \in ClientType, fr \in Frames : Started(d, g, fr) /\ CtlStep(g, f)
  BY BuildNextStep
<1>5. Wire(d, p) => ~p.garbled /\ Idle(d, p) /\ Greeting(d, p) /\ Episodes(d, p)
  BY NothingDelivered DEF Wire
<1>6. CASE f = d /\ (d.state # "STREAMING" \/ (d.dirty = <<>> /\ ~d.dirty_all))
  <2>1. e = Off(d)
    BY <1>1, <1>6
  <2>2. Armed(e)
    BY <2>1, <1>2, <1>6 DEF Armed, Pending
  <2> QED
    BY <2>1, <2>2, <1>3
<1>7. CASE Base(d, f) /\ SameWork(d, f) /\ f.out_retry
  <2>1. e = Off(f) /\ f.pings = d.pings /\ f.outq = d.outq
    BY <1>1, <1>7 DEF Base, SameWork
  <2>2. Armed(e)
    BY <2>1, <1>2, <1>4, <1>7 DEF Armed
  <2>3. CtlStep(d, f)
    BY <1>7 DEF CtlStep
  <2>4. (Wire(d, p) => Wire(f, p)) /\ (Panel(d, p, on) => Panel(f, p, on))
    BY <2>3, <1>4, WireCtl, PanelCtl
  <2> QED
    BY <2>1, <2>2, <2>4, <1>3, <1>4
<1>8. CASE d.state = "STREAMING" /\ EncodeFails(d, f)
  <2>1. /\ e = Off(f) /\ f.pings = d.pings /\ f.h264_failed /\ f.state = d.state
        /\ f.lost = d.lost /\ f.out = d.out /\ ToRaw(d, f)
    BY <1>1, <1>8 DEF EncodeFails
  <2>2. f.outq = d.outq \/ f.outq = Append(d.outq, "EOS")
    BY <2>1 DEF ToRaw
  <2>3. Armed(e)
    BY <2>1, <1>2, <1>4 DEF Armed
  <2>4. "EOS" \in Ctrls \ {"HELLO"} /\ "EOS" \in Ctrls \ Powers
    BY DEF Ctrls, Powers
  <2>5. Wire(d, p) => Wire(f, p)
    <3> SUFFICES ASSUME Wire(d, p) PROVE Wire(f, p)
      OBVIOUS
    <3>1. Greeting(f, p)
      BY <2>1, <2>2, <2>4, <1>5, GreetingKept
    <3>2. Episodes(f, p)
      BY <2>1, <1>4, <1>5, EpisodesKept DEF ToRaw
    <3> QED
      BY <3>1, <3>2, <2>1, <1>5, <1>8, NothingDelivered DEF Wire, Idle
  <2>6. Panel(d, p, on) => Panel(f, p, on)
    <3> SUFFICES ASSUME Panel(d, p, on) PROVE Panel(f, p, on)
      OBVIOUS
    <3>1. Fresh(d, p) /\ Shown(d, p) /\ Lit(d, p, on)
      BY NothingDelivered DEF Panel
    <3>2. Shown(f, p)
      BY <2>1 DEF ToRaw, Region, Shown
    <3>3. Lit(f, p, on)
      BY <2>1, <2>2, <2>4, <3>1, LitKept
    <3> QED
      BY <3>1, <3>2, <3>3, <2>1, NothingDelivered DEF Panel, Fresh
  <2> QED
    BY <2>1, <2>2, <2>3, <2>5, <2>6, <1>3, <1>4
<1>9. CASE /\ d.state = "STREAMING"
           /\ \E g \in ClientType, fr \in Frames : Started(d, g, fr) /\ CtlStep(g, f)
  <2>1. PICK g \in ClientType, fr \in Frames : Started(d, g, fr) /\ CtlStep(g, f)
    BY <1>9
  <2>2. /\ g.out = fr /\ g.out_watch /\ g.pings = d.pings /\ g.outq = d.outq
    BY <2>1 DEF Started
  <2>3. /\ f.out = fr /\ f.out_watch /\ f.pings = d.pings
        /\ f.outq = d.outq \/ f.outq = Append(d.outq, "EOS")
    BY <2>1, <2>2 DEF CtlStep, Base, SameWork, ToH264, ToRaw
  <2>4. fr # NoFrame
    BY DEF Frames, NoFrame
  <2>5. e = f
    BY <2>3, <2>4, <1>1
  <2>6. Wire(d, p) => Wire(f, p)
    BY <2>1, <1>4, <1>9, WireStarted, WireCtl
  <2>7. Wire(d, p) /\ Panel(d, p, on) => Panel(f, p, on)
    BY <2>1, <1>4, <1>5, <1>9, PanelStarted, PanelCtl
  <2> QED
    BY <2>3, <2>5, <2>6, <2>7, <1>4 DEF Armed
<1> QED
  BY <1>4, <1>6, <1>7, <1>8, <1>9

(***************************************************************************)
(* A control message goes out, behind the frame that was in flight.        *)
(***************************************************************************)
LEMMA Shortened ==
  ASSUME NEW s \in Seq(Ctrls), s # <<>>, NEW t, t = Tail(s), NEW m, m = Head(s)
  PROVE  /\ t \in Seq(Ctrls) /\ m \in Ctrls /\ 1 \in DOMAIN s /\ s[1] = m
         /\ \A i \in DOMAIN t : i \in Nat /\ i + 1 \in DOMAIN s /\ i + 1 # 1 /\ t[i] = s[i + 1]
         /\ \A j \in DOMAIN s :
              j \in Nat /\ (j = 1 \/ (j - 1 \in DOMAIN t /\ t[j - 1] = s[j] /\ (j - 1) + 1 = j))
<1>1. /\ m \in Ctrls /\ t \in Seq(Ctrls) /\ Len(t) = Len(s) - 1 /\ m = s[1]
      /\ \A i \in 1 .. Len(t) : t[i] = s[i + 1]
  BY HeadTailProperties
<1>2. Len(s) \in Nat /\ Len(s) # 0
  BY EmptySeq, LenProperties
<1>3. DOMAIN s = 1 .. Len(s) /\ DOMAIN t = 1 .. Len(t)
  BY <1>1
<1> QED
  BY <1>1, <1>2, <1>3

LEMMA QueuedShortened ==
  ASSUME NEW d \in ClientType, NEW e, d.outq # <<>>, e.outq = Tail(d.outq), NEW k, Queued(e, k)
  PROVE  Queued(d, k)
<1>1. d.outq \in Seq(Ctrls)
  BY DEF ClientType
<1>2. \A i \in DOMAIN e.outq : i + 1 \in DOMAIN d.outq /\ e.outq[i] = d.outq[i + 1]
  BY <1>1, Shortened
<1>3. PICK i \in DOMAIN e.outq : e.outq[i] = k
  BY DEF Queued
<1>4. i + 1 \in DOMAIN d.outq /\ d.outq[i + 1] = k
  BY <1>2, <1>3
<1> QED
  BY <1>4 DEF Queued

\* What switching the panel off or on does to it.
LEMMA SetBlankFields ==
  ASSUME NEW p \in PeerType, NEW on \in BOOLEAN, NEW s, s = SetBlank(p, on)
  PROVE  /\ s \in PeerType /\ s.blank = on
         /\ s.misordered = p.misordered /\ s.greeted = p.greeted /\ s.episode = p.episode
         /\ s.pongs = p.pongs /\ s.garbled = p.garbled
         /\ ~on => s.screen = p.screen /\ s.exact = p.exact /\ s.blind = p.blind
         /\ p.blind \subseteq s.blind
         /\ \A x \in Cells \ s.blind : s.screen[x] = p.screen[x] /\ (x \in p.exact => x \in s.exact)
<1> DEFINE b == p.blind \cup Diff(p.screen, BlackImage)
<1>1. s \in PeerType
  BY SetBlankType
<1>2. /\ p.blind \subseteq b /\ b \in SUBSET Cells
      /\ \A x \in Cells \ b : p.screen[x] = BlackImage[x]
  BY DEF Diff, PeerType
<1>3. \/ s = [p EXCEPT !.blank = on]
      \/ on /\ s = [p EXCEPT !.blank = on, !.screen = BlackImage, !.exact = Cells, !.blind = b]
  BY DEF SetBlank
<1> HIDE DEF b
<1>4. CASE s = [p EXCEPT !.blank = on]
  BY <1>1, <1>4 DEF PeerType
<1>5. CASE on /\ s = [p EXCEPT !.blank = on, !.screen = BlackImage, !.exact = Cells, !.blind = b]
  <2>1. /\ s.blank = on /\ s.screen = BlackImage /\ s.exact = Cells /\ s.blind = b
        /\ s.misordered = p.misordered /\ s.greeted = p.greeted /\ s.episode = p.episode
        /\ s.pongs = p.pongs /\ s.garbled = p.garbled
    BY <1>5 DEF PeerType
  <2> QED
    BY <2>1, <1>1, <1>2, <1>5
<1> QED
  BY <1>3, <1>4, <1>5

\* What the far end makes of a control message.
LEMMA CtrlDelivered ==
  ASSUME NEW q \in PeerType, ~q.garbled, NEW m \in Ctrls, NEW r, r = Deliver(q, m)
  PROVE  /\ r \in PeerType /\ ~r.garbled
         /\ r.misordered <=> q.misordered \/ (m = "HELLO" <=> q.greeted)
         /\ r.greeted <=> q.greeted \/ m = "HELLO"
         /\ r.episode <=> q.episode /\ m # "EOS"
         /\ r.pongs = IF m = "PING" THEN q.pongs + 1 ELSE q.pongs
         /\ m \notin Powers => r.blank = q.blank
         /\ m = "UNBLANK" => ~r.blank
         /\ m # "BLANK" => r.screen = q.screen /\ r.exact = q.exact /\ r.blind = q.blind
         /\ q.blind \subseteq r.blind
         /\ \A x \in Cells \ r.blind : r.screen[x] = q.screen[x] /\ (x \in q.exact => x \in r.exact)
<1> DEFINE b == q.misordered \/ ((m = "HELLO") = q.greeted)
           g == [q EXCEPT !.misordered = b]
<1>1. b \in BOOLEAN /\ (b <=> q.misordered \/ (m = "HELLO" <=> q.greeted))
  BY DEF PeerType
<1>2. /\ m = "HELLO" => r = [g EXCEPT !.greeted = TRUE]
      /\ m = "PING" => r = [g EXCEPT !.pongs = @ + 1]
      /\ m = "EOS" => r = [g EXCEPT !.episode = FALSE]
      /\ m \in Powers => r = SetBlank(g, m = "BLANK")
  BY DEF Deliver, Powers
<1> HIDE DEF b
<1>3. /\ g \in PeerType /\ g.misordered = b /\ g.greeted = q.greeted /\ g.episode = q.episode
      /\ g.pongs = q.pongs /\ g.blank = q.blank /\ g.screen = q.screen /\ g.exact = q.exact
      /\ g.garbled = q.garbled /\ g.blind = q.blind
  BY <1>1 DEF PeerType
<1> HIDE DEF g
<1>4. r \in PeerType
  BY DeliverType
<1>5. CASE m = "HELLO"
  <2>1. /\ r.misordered = g.misordered /\ r.greeted /\ r.episode = g.episode /\ r.pongs = g.pongs
        /\ r.blank = g.blank /\ r.screen = g.screen /\ r.exact = g.exact /\ r.garbled = g.garbled
        /\ r.blind = g.blind
    BY <1>2, <1>3, <1>5 DEF PeerType
  <2> QED
    BY <2>1, <1>1, <1>3, <1>4, <1>5 DEF Powers, PeerType
<1>6. CASE m = "PING"
  <2>1. /\ r.misordered = g.misordered /\ r.greeted = g.greeted /\ r.episode = g.episode
        /\ r.pongs = g.pongs + 1
        /\ r.blank = g.blank /\ r.screen = g.screen /\ r.exact = g.exact /\ r.garbled = g.garbled
        /\ r.blind = g.blind
    BY <1>2, <1>3, <1>6 DEF PeerType
  <2> QED
    BY <2>1, <1>1, <1>3, <1>4, <1>6 DEF Powers
<1>7. CASE m = "EOS"
  <2>1. /\ r.misordered = g.misordered /\ r.greeted = g.greeted /\ ~r.episode /\ r.pongs = g.pongs
        /\ r.blank = g.blank /\ r.screen = g.screen /\ r.exact = g.exact /\ r.garbled = g.garbled
        /\ r.blind = g.blind
    BY <1>2, <1>3, <1>7 DEF PeerType
  <2> QED
    BY <2>1, <1>1, <1>3, <1>4, <1>7 DEF Powers
<1>8. CASE m \in Powers
  <2>1. /\ r.misordered = g.misordered /\ r.greeted = g.greeted /\ r.episode = g.episode
        /\ r.pongs = g.pongs /\ r.garbled = g.garbled /\ r.blank = (m = "BLANK")
        /\ m # "BLANK" => r.screen = g.screen /\ r.exact = g.exact /\ r.blind = g.blind
        /\ g.blind \subseteq r.blind
        /\ \A x \in Cells \ r.blind : r.screen[x] = g.screen[x] /\ (x \in g.exact => x \in r.exact)
    <3> DEFINE off == m = "BLANK"
    <3>1. off \in BOOLEAN /\ r = SetBlank(g, off) /\ (off <=> m = "BLANK")
      BY <1>2, <1>8
    <3> HIDE DEF off
    <3>2. /\ r.blank = off
          /\ r.misordered = g.misordered /\ r.greeted = g.greeted /\ r.episode = g.episode
          /\ r.pongs = g.pongs /\ r.garbled = g.garbled
          /\ ~off => r.screen = g.screen /\ r.exact = g.exact /\ r.blind = g.blind
          /\ g.blind \subseteq r.blind
          /\ \A x \in Cells \ r.blind : r.screen[x] = g.screen[x] /\ (x \in g.exact => x \in r.exact)
      BY <3>1, <1>3, SetBlankFields
    <3> QED
      BY <3>1, <3>2 DEF off
  <2>2. m # "HELLO" /\ m # "PING" /\ m # "EOS"
    BY <1>8 DEF Powers
  <2> QED
    BY <2>1, <2>2, <1>1, <1>3, <1>4, <1>8
<1> QED
  BY <1>5, <1>6, <1>7, <1>8 DEF Ctrls, Powers

\* The fields that sending leaves alone.
Sent(d, e) ==
  /\ e.state = d.state /\ e.lost = d.lost /\ e.out = NoFrame /\ e.pings = d.pings
  /\ e.xmit_mode = d.xmit_mode /\ e.force_idr = d.force_idr /\ e.h264_failed = d.h264_failed
  /\ e.dirty = d.dirty /\ e.dirty_all = d.dirty_all /\ e.shadowbuf = d.shadowbuf
  /\ e.out_watch = d.out_watch /\ e.out_retry = d.out_retry

\* The far end once the frame in flight is out.
LEMMA FrameLanded ==
  ASSUME NEW d \in ClientType, NEW p \in PeerType, ~p.garbled, NEW q, q = DeliverFrame(p, d.out)
  PROVE  /\ q \in PeerType /\ ~q.garbled /\ DeliverFrame(q, NoFrame) = q /\ q.pongs = p.pongs
         /\ q = p \/ ~q.blank
<1>1. d.out \in Frames \cup {NoFrame}
  BY DEF ClientType
<1>2. CASE d.out = NoFrame
  BY <1>2, NothingDelivered
<1>3. CASE d.out \in Frames
  BY <1>3, Delivered, NothingDelivered
<1> QED
  BY <1>1, <1>2, <1>3

LEMMA WireFrameOut ==
  ASSUME NEW d \in ClientType, NEW e \in ClientType, Sent(d, e), e.outq = d.outq,
         NEW p \in PeerType, Wire(d, p), NEW q, q = DeliverFrame(p, d.out)
  PROVE  Wire(e, q)
<1>1. ~p.garbled /\ Idle(d, p) /\ Greeting(d, q) /\ Episodes(d, q)
  BY DEF Wire
<1>2. ~q.garbled /\ DeliverFrame(q, NoFrame) = q /\ e.out = NoFrame
  BY <1>1, FrameLanded DEF Sent
<1>3. Greeting(e, q) /\ Episodes(e, q)
  BY <1>1, GreetingKept, EpisodesKept DEF Sent
<1>4. Idle(e, q)
  <2>1. CASE d.state = "STREAMING"
    BY <2>1 DEF Sent, Idle
  <2>2. CASE d.state # "STREAMING"
    <3>1. d.out = NoFrame
      BY <2>2, <1>1 DEF Idle
    <3>2. q = p
      BY <3>1, NothingDelivered
    <3> QED
      BY <3>1, <3>2, <1>1 DEF Idle, Sent
  <2> QED
    BY <2>1, <2>2
<1> QED
  BY <1>2, <1>3, <1>4 DEF Wire

LEMMA PanelFrameOut ==
  ASSUME NEW d \in ClientType, NEW e \in ClientType, Sent(d, e), e.outq = d.outq,
         NEW p \in PeerType, Wire(d, p), NEW q, q = DeliverFrame(p, d.out),
         NEW on \in BOOLEAN, Panel(d, p, on)
  PROVE  Panel(e, q, on)
<1>1. Fresh(d, p) /\ Shown(d, q) /\ Lit(d, q, on)
  BY DEF Panel
<1>2. ~p.garbled /\ Idle(d, p)
  BY DEF Wire
<1>3. (q = p \/ ~q.blank) /\ DeliverFrame(q, NoFrame) = q /\ e.out = NoFrame
  BY <1>2, FrameLanded DEF Sent
<1>5. Shown(e, q)
  BY <1>1 DEF Sent, Shown, Region
<1>6. Lit(e, q, on)
  BY <1>1, LitKept DEF Sent
<1>7. Fresh(e, q)
  <2>1. CASE d.state = "STREAMING"
    BY <2>1 DEF Sent, Fresh
  <2>2. CASE d.state # "STREAMING"
    <3>1. q = p
      BY <2>2, <1>2, NothingDelivered DEF Idle
    <3> QED
      BY <3>1, <1>1 DEF Fresh, Sent
  <2> QED
    BY <2>1, <2>2
<1> QED
  BY <1>3, <1>5, <1>6, <1>7 DEF Panel

\* The head of the queue reaches the far end.
LEMMA WireCtrlOut ==
  ASSUME NEW d \in ClientType, NEW e \in ClientType, d.out = NoFrame, d.outq # <<>>,
         Sent(d, e), e.outq = Tail(d.outq),
         NEW q \in PeerType, Wire(d, q), NEW r, r = Deliver(q, Head(d.outq))
  PROVE  Wire(e, r)
<1> DEFINE m == Head(d.outq)
           t == Tail(d.outq)
<1>1. ~q.garbled /\ Idle(d, q) /\ Greeting(d, q) /\ Episodes(d, q)
  BY NothingDelivered DEF Wire
<1>2. d.outq \in Seq(Ctrls)
  BY DEF ClientType
<1>3. /\ t \in Seq(Ctrls) /\ m \in Ctrls /\ 1 \in DOMAIN d.outq /\ d.outq[1] = m
      /\ \A i \in DOMAIN t : i \in Nat /\ i + 1 \in DOMAIN d.outq /\ i + 1 # 1 /\ t[i] = d.outq[i + 1]
      /\ \A j \in DOMAIN d.outq : j = 1 \/ (j - 1 \in DOMAIN t /\ t[j - 1] = d.outq[j])
  BY <1>2, Shortened
<1>4. /\ ~r.garbled
      /\ r.misordered <=> q.misordered \/ (m = "HELLO" <=> q.greeted)
      /\ r.greeted <=> q.greeted \/ m = "HELLO"
      /\ r.episode <=> q.episode /\ m # "EOS"
  BY <1>1, <1>3, CtrlDelivered
<1> HIDE DEF m, t
<1>5. e.outq = t /\ e.out = NoFrame /\ e.state = d.state /\ e.lost = d.lost
      /\ e.xmit_mode = d.xmit_mode /\ e.force_idr = d.force_idr
  BY DEF Sent, t
<1>6. d.state = "STREAMING"
  BY <1>1 DEF Idle
<1>7. Greeting(e, r)
  <2> SUFFICES ASSUME ~d.lost
               PROVE  /\ ~r.misordered
                      /\ \A i \in DOMAIN e.outq : e.outq[i] = "HELLO" => i = 1 /\ ~r.greeted
                      /\ ~r.greeted => e.outq # <<>> /\ e.outq[1] = "HELLO"
    BY <1>5 DEF Greeting
  <2>1. /\ ~q.misordered
        /\ \A i \in DOMAIN d.outq : d.outq[i] = "HELLO" => i = 1 /\ ~q.greeted
        /\ ~q.greeted => d.outq[1] = "HELLO"
    BY <1>1, <1>6 DEF Greeting
  <2>2. m = "HELLO" <=> ~q.greeted
    BY <2>1, <1>3
  <2>3. \A i \in DOMAIN t : t[i] # "HELLO"
    BY <2>1, <1>3
  <2>4. ~r.misordered /\ r.greeted
    BY <2>1, <2>2, <1>4
  <2> QED
    BY <2>3, <2>4, <1>5
<1>8. Episodes(e, r)
  <2>1. Queued(e, "EOS") => Queued(d, "EOS")
    BY QueuedShortened
  <2>2. Queued(d, "EOS") => m = "EOS" \/ Queued(e, "EOS")
    BY <1>3, <1>5, ZenonT(30) DEF Queued
  <2>3. m = "EOS" => Queued(d, "EOS")
    BY <1>3 DEF Queued
  <2> QED
    BY <2>1, <2>2, <2>3, <1>1, <1>4, <1>5 DEF Episodes
<1> QED
  BY <1>4, <1>5, <1>6, <1>7, <1>8, NothingDelivered DEF Wire, Idle

LEMMA PanelCtrlOut ==
  ASSUME NEW d \in ClientType, NEW e \in ClientType, d.out = NoFrame, d.outq # <<>>,
         Sent(d, e), e.outq = Tail(d.outq),
         NEW q \in PeerType, Wire(d, q), NEW r, r = Deliver(q, Head(d.outq)),
         NEW on \in BOOLEAN, Panel(d, q, on)
  PROVE  Panel(e, r, on)
<1> DEFINE m == Head(d.outq)
           t == Tail(d.outq)
<1>1. Shown(d, q) /\ Lit(d, q, on)
  BY NothingDelivered DEF Panel
<1>2. ~q.garbled /\ d.state = "STREAMING" /\ d.outq \in Seq(Ctrls)
  BY DEF Wire, Idle, ClientType
<1>3. /\ t \in Seq(Ctrls) /\ m \in Ctrls /\ 1 \in DOMAIN d.outq /\ d.outq[1] = m
      /\ \A i \in DOMAIN t : i \in Nat /\ i + 1 \in DOMAIN d.outq /\ t[i] = d.outq[i + 1]
      /\ \A j \in DOMAIN d.outq :
           j \in Nat /\ (j = 1 \/ (j - 1 \in DOMAIN t /\ t[j - 1] = d.outq[j] /\ (j - 1) + 1 = j))
  BY <1>2, Shortened
<1>4. /\ m \notin Powers => r.blank = q.blank
      /\ m = "UNBLANK" => ~r.blank
      /\ m # "BLANK" => r.screen = q.screen /\ r.exact = q.exact /\ r.blind = q.blind
      /\ q.blind \subseteq r.blind
      /\ \A x \in Cells \ r.blind : r.screen[x] = q.screen[x] /\ (x \in q.exact => x \in r.exact)
  BY <1>2, <1>3, CtrlDelivered
<1> HIDE DEF m, t
<1>5. /\ e.outq = t /\ e.out = NoFrame /\ e.state = d.state /\ e.lost = d.lost
      /\ e.xmit_mode = d.xmit_mode /\ e.dirty = d.dirty /\ e.dirty_all = d.dirty_all
      /\ e.shadowbuf = d.shadowbuf
  BY DEF Sent, t
<1>9. Shown(e, r)
  <2>1. Region(e) = Region(d)
    BY <1>5 DEF Region
  <2> QED
    BY <2>1, <1>1, <1>4, <1>5 DEF Shown
<1>10. Lit(e, r, on)
  <2> SUFFICES ASSUME ~d.lost
               PROVE  /\ \A i \in DOMAIN t :
                           t[i] \in Powers /\ (\A j \in DOMAIN t : j > i => t[j] \notin Powers)
                           => (t[i] = "UNBLANK" <=> on)
                      /\ on /\ (\A i \in DOMAIN t : t[i] \notin Powers) =>
                           ~r.blank \/ Dark(r)
    BY <1>5 DEF Lit
  <2>1. /\ \A i \in DOMAIN d.outq :
             d.outq[i] \in Powers /\ (\A j \in DOMAIN d.outq : j > i => d.outq[j] \notin Powers)
             => (d.outq[i] = "UNBLANK" <=> on)
        /\ on /\ (\A i \in DOMAIN d.outq : d.outq[i] \notin Powers) =>
             ~q.blank \/ Dark(q)
    BY <1>1, <1>2 DEF Lit
  <2>2. ASSUME NEW i \in DOMAIN t, t[i] \in Powers,
               \A j \in DOMAIN t : j > i => t[j] \notin Powers
        PROVE  t[i] = "UNBLANK" <=> on
    <3>1. i + 1 \in DOMAIN d.outq /\ d.outq[i + 1] = t[i] /\ i \in Nat /\ i # 0
      BY <1>3
    <3>2. \A j \in DOMAIN d.outq : j > i + 1 => d.outq[j] \notin Powers
      <4> TAKE j \in DOMAIN d.outq
      <4> HAVE j > i + 1
      <4>1. j # 1 /\ j - 1 \in DOMAIN t /\ t[j - 1] = d.outq[j] /\ j - 1 > i
        BY <3>1, <1>3
      <4> QED
        BY <4>1, <2>2
    <3> QED
      BY <3>1, <3>2, <2>1, <2>2
  <2>3. ASSUME on, \A i \in DOMAIN t : t[i] \notin Powers
        PROVE  ~r.blank \/ Dark(r)
    <3>1. \A j \in DOMAIN d.outq : j = 1 \/ d.outq[j] \notin Powers
      BY <1>3, <2>3
    <3>2. CASE m \in Powers
      <4>1. \A j \in DOMAIN d.outq : j > 1 => d.outq[j] \notin Powers
        BY <3>1, <1>3
      <4>2. m = "UNBLANK"
        BY <4>1, <3>2, <2>1, <2>3, <1>3
      <4> QED
        BY <4>2, <1>4
    <3>3. CASE m \notin Powers
      <4>1. \A j \in DOMAIN d.outq : d.outq[j] \notin Powers
        BY <3>1, <3>3, <1>3
      <4> QED
        BY <4>1, <3>3, <2>1, <2>3, <1>4 DEF Dark, Powers
    <3> QED
      BY <3>2, <3>3
  <2> QED
    BY <2>2, <2>3
<1> QED
  BY <1>2, <1>5, <1>9, <1>10, NothingDelivered DEF Panel, Fresh

(***************************************************************************)
(* The actions.                                                            *)
(***************************************************************************)
\* Echoes do not matter to the wire or to the panel.
LEMMA PongsApart ==
  ASSUME NEW d \in ClientType, NEW p \in PeerType, NEW n \in Nat, NEW s, s = [p EXCEPT !.pongs = n],
         NEW on \in BOOLEAN
  PROVE  /\ Wire(d, p) => Wire(d, s)
         /\ Panel(d, p, on) => Panel(d, s, on)
<1> DEFINE q == DeliverFrame(p, d.out)
           u == DeliverFrame(s, d.out)
<1>1. /\ s.greeted = p.greeted /\ s.episode = p.episode /\ s.blank = p.blank /\ s.screen = p.screen
      /\ s.exact = p.exact /\ s.misordered = p.misordered /\ s.garbled = p.garbled
      /\ s.blind = p.blind /\ s \in PeerType
  BY DEF PeerType
<1>2. /\ u.greeted = q.greeted /\ u.episode = q.episode /\ u.blank = q.blank /\ u.screen = q.screen
      /\ u.exact = q.exact /\ u.blind = q.blind /\ u.misordered = q.misordered
  <2>1. CASE p.garbled \/ d.out = NoFrame
    BY <2>1, <1>1 DEF DeliverFrame
  <2>2. CASE ~p.garbled /\ d.out # NoFrame
    <3> DEFINE f == d.out
               wrong == IF f.encoding = "H264" THEN ~p.episode /\ ~f.idr ELSE p.episode
               area == CellsOf(f.rect)
               shown == [x \in Cells |-> IF x \in area THEN f.pix[x] ELSE p.screen[x]]
               bad == p.misordered \/ ~p.greeted \/ wrong
               au == f.encoding = "H264"
               ex == IF au THEN p.exact \ area ELSE p.exact \cup area
               bl == p.blind \ area
    <3>1. q = [p EXCEPT !.misordered = bad, !.episode = au, !.screen = shown,
                        !.blank = FALSE, !.blind = bl, !.exact = ex]
      BY <2>2 DEF DeliverFrame
    <3>2. u = [s EXCEPT !.misordered = bad, !.episode = au, !.screen = shown,
                        !.blank = FALSE, !.blind = bl, !.exact = ex]
      BY <2>2, <1>1 DEF DeliverFrame
    <3> HIDE DEF bad, au, shown, ex, bl
    <3>3. /\ q.misordered = bad /\ q.episode = au /\ q.screen = shown /\ q.blank = FALSE
          /\ q.exact = ex /\ q.blind = bl /\ q.greeted = p.greeted
      BY <3>1 DEF PeerType
    <3>4. /\ u.misordered = bad /\ u.episode = au /\ u.screen = shown /\ u.blank = FALSE
          /\ u.exact = ex /\ u.blind = bl /\ u.greeted = s.greeted
      BY <3>2, <1>1 DEF PeerType
    <3> QED
      BY <3>3, <3>4, <1>1
  <2> QED
    BY <2>1, <2>2
<1> HIDE DEF q, u
<1>3. (Greeting(d, q) => Greeting(d, u)) /\ (Episodes(d, q) => Episodes(d, u))
  BY <1>2 DEF Greeting, Episodes
<1>4. (Shown(d, q) => Shown(d, u)) /\ (Lit(d, q, on) => Lit(d, u, on))
  BY <1>2 DEF Shown, Lit, Dark
<1>5. (Idle(d, p) => Idle(d, s)) /\ (Fresh(d, p) => Fresh(d, s))
  BY <1>1 DEF Idle, Fresh, Dark
<1> QED
  BY <1>1, <1>3, <1>4, <1>5 DEF Wire, Panel, q, u

\* on_mode_changed rebuilds the client: nothing is pending.
LEMMA RebuiltStep ==
  ASSUME NEW d \in ClientType, NEW resized \in BOOLEAN, NEW junk \in Image,
         NEW e, e = Rebuilt(d, resized, junk)
  PROVE  /\ e \in ClientType /\ e.state = d.state /\ e.lost = d.lost
         /\ e.out = NoFrame /\ e.outq = <<>> /\ e.dirty = <<>> /\ ~e.dirty_all /\ e.pings = 0
         /\ e.shadowbuf = BlackImage
<1> DEFINE a == Reset(d)
           b == [a EXCEPT !.grabbuf = junk, !.shadowbuf = BlackImage, !.grabbed = FALSE]
           f == [b EXCEPT !.enc = FALSE, !.xmit_mode = "RAW"]
<1>1. <<>> \in Seq(Ctrls) /\ <<>> \in Seq(Rect) /\ 0 \in Nat
  OBVIOUS
<1>2. /\ a \in ClientType /\ a.state = d.state /\ a.lost = d.lost /\ a.out = NoFrame
      /\ a.outq = <<>> /\ a.dirty = <<>> /\ ~a.dirty_all /\ a.pings = 0
  BY <1>1 DEF Reset, ClientType
<1>3. e = b \/ e = f
  BY DEF Rebuilt
<1> HIDE DEF a
<1>4. /\ b \in ClientType /\ b.state = d.state /\ b.lost = d.lost /\ b.out = NoFrame
      /\ b.outq = <<>> /\ b.dirty = <<>> /\ ~b.dirty_all /\ b.pings = 0
      /\ b.shadowbuf = BlackImage
  BY <1>2, BlackImageType DEF ClientType
<1> HIDE DEF b
<1>5. /\ f \in ClientType /\ f.state = d.state /\ f.lost = d.lost /\ f.out = NoFrame
      /\ f.outq = <<>> /\ f.dirty = <<>> /\ ~f.dirty_all /\ f.pings = 0
      /\ f.shadowbuf = BlackImage
  BY <1>4 DEF ClientType
<1> QED
  BY <1>3, <1>4, <1>5

LEMMA HelloQueued ==
  ASSUME NEW d \in ClientType, NEW junk \in Image,
         NEW b, b = Rebuilt(d, FALSE, junk), NEW e, e = XmitCtrl(b, "HELLO")
  PROVE  /\ e \in ClientType /\ e.lost = d.lost /\ e.out = NoFrame /\ e.shadowbuf = BlackImage
         /\ e.outq = (IF d.lost THEN <<>> ELSE Append(<<>>, "HELLO"))
         /\ ~d.lost => e.out_watch
<1>1. /\ b \in ClientType /\ b.lost = d.lost /\ b.out = NoFrame /\ b.outq = <<>>
      /\ b.shadowbuf = BlackImage
  BY RebuiltStep
<1>2. "HELLO" \in Ctrls
  BY DEF Ctrls
<1>3. /\ e \in ClientType /\ Base(b, e)
      /\ e.outq = (IF b.lost THEN b.outq ELSE Append(b.outq, "HELLO"))
      /\ ~b.lost => e.out_watch
  <2>1. b \in ClientType
    BY <1>1
  <2> QED
    BY <2>1, <1>2, XmitCtrlStep
<1> QED
  BY <1>1, <1>3 DEF Base

LEMMA ModeSetFields ==
  ASSUME NEW e \in ClientType,
         NEW f, f = [e EXCEPT !.state = "STREAMING", !.xmit_mode = "RAW",
                              !.ctl_state = "RAW_STEADY", !.pings = 0]
  PROVE  /\ f \in ClientType /\ f.state = "STREAMING" /\ f.xmit_mode = "RAW" /\ f.pings = 0
         /\ f.lost = e.lost /\ f.out = e.out /\ f.outq = e.outq
         /\ f.shadowbuf = e.shadowbuf /\ f.out_watch = e.out_watch
BY DEF ClientType

LEMMA ModeSetStep ==
  ASSUME NEW d \in ClientType, d.state = "MODE_WAIT", NEW p \in PeerType, NEW on \in BOOLEAN,
         NEW f \in ClientType, f.state = "STREAMING", f.xmit_mode = "RAW",
         f.lost = d.lost, f.out = NoFrame, f.shadowbuf = BlackImage,
         f.outq = (IF d.lost THEN <<>> ELSE Append(<<>>, "HELLO")),
         ~d.lost => f.out_watch
  PROVE  /\ Armed(f)
         /\ Wire(d, p) => Wire(f, p)
         /\ Panel(d, p, on) => Panel(f, p, TRUE)
<1>1. "HELLO" \notin Powers
  BY DEF Powers
<1>2. /\ f.state = "STREAMING" /\ f.xmit_mode = "RAW"
      /\ f.lost = d.lost /\ f.out = NoFrame /\ f.shadowbuf = BlackImage
      /\ f.outq = (IF d.lost THEN <<>> ELSE Append(<<>>, "HELLO"))
      /\ ~d.lost => f.out_watch
  OBVIOUS
<1> DEFINE one == Append(<<>>, "HELLO")
<1>3. one # <<>> /\ DOMAIN one = {1} /\ one[1] = "HELLO"
  OBVIOUS
<1> HIDE DEF one
<1>4. f.outq = <<>> \/ f.outq = one
  BY <1>2 DEF one
<1>5. \A i \in DOMAIN f.outq : i = 1 /\ f.outq[i] = "HELLO"
  <2>1. CASE f.outq = one
    BY <2>1, <1>3
  <2>2. CASE f.outq = <<>>
    <3>1. DOMAIN <<>> = {}
      OBVIOUS
    <3>2. DOMAIN f.outq = {}
      BY <3>1, <2>2, Zenon
    <3> QED
      BY <3>2
  <2> QED
    BY <2>1, <2>2, <1>4
<1>6. ~d.lost => f.outq # <<>> /\ f.outq[1] = "HELLO"
  BY <1>2, <1>3 DEF one
<1>7. Wire(d, p) => Wire(f, p)
  <2> SUFFICES ASSUME Wire(d, p) PROVE Wire(f, p)
    OBVIOUS
  <2>1. ~p.garbled /\ ~p.greeted /\ ~p.episode /\ ~p.misordered
    BY DEF Wire, Idle
  <2>2. Greeting(f, p) /\ Episodes(f, p)
    BY <2>1, <1>2, <1>5, <1>6 DEF Greeting, Episodes
  <2> QED
    BY <2>1, <2>2, <1>2, NothingDelivered DEF Wire, Idle
<1>8. Panel(d, p, on) => Panel(f, p, TRUE)
  <2> SUFFICES ASSUME Panel(d, p, on) PROVE Panel(f, p, TRUE)
    OBVIOUS
  <2>1. Dark(p) /\ Cells \ p.blind \subseteq p.exact
    BY DEF Panel, Fresh
  <2>2. \A x \in Cells : f.shadowbuf[x] = Black
    BY <1>2 DEF BlackImage
  <2>3. Shown(f, p)
    BY <2>1, <2>2 DEF Shown, Dark
  <2>4. Lit(f, p, TRUE)
    BY <2>1, <1>1, <1>5 DEF Lit
  <2> QED
    BY <2>3, <2>4, <1>2, NothingDelivered DEF Panel, Fresh
<1> QED
  BY <1>2, <1>7, <1>8 DEF Armed

\* The connection ends: the panel is switched off.
LEMMA LostStep ==
  ASSUME NEW d \in ClientType, NEW p \in PeerType, NEW on \in BOOLEAN,
         NEW e, e = [NewClient EXCEPT !.state = "GONE"],
         NEW s, s = [SetBlank(p, TRUE) EXCEPT !.greeted = FALSE, !.episode = FALSE, !.pongs = 0,
                                              !.garbled = FALSE, !.misordered = FALSE,
                                              !.blind = Leftover(SetBlank(p, TRUE))]
  PROVE  Wire(e, s) /\ Panel(e, s, on) /\ Armed(e) /\ e.pings = 0
<1> DEFINE b == SetBlank(p, TRUE)
           l == Leftover(b)
<1>1. /\ e.state = "GONE" /\ e.outq = <<>> /\ e.out = NoFrame /\ e.dirty = <<>> /\ ~e.dirty_all
      /\ e.pings = 0
  BY DEF NewClient
<1>2. b \in PeerType
  BY SetBlankType
<1> HIDE DEF b
<1>3. /\ l \in SUBSET Cells /\ Cells \ l \subseteq b.exact
      /\ \A x \in Cells \ l : b.screen[x] = Black
  BY <1>2 DEF Leftover, Diff, BlackImage, PeerType
<1> HIDE DEF l
<1>4. /\ ~s.greeted /\ ~s.episode /\ ~s.garbled /\ ~s.misordered
      /\ s.screen = b.screen /\ s.exact = b.exact /\ s.blind = l
  BY <1>2, <1>3 DEF PeerType, b, l
<1>5. Wire(e, s) /\ Armed(e)
  BY <1>1, <1>4 DEF Wire, Idle, Greeting, Episodes, Armed
<1>6. Fresh(e, s)
  BY <1>3, <1>4 DEF Fresh, Dark
<1> QED
  BY <1>1, <1>5, <1>6 DEF Panel, Shown, Lit

LEMMA WireNext ==
  ASSUME Inv, Armed(c), FirstMode => Wire(c, peer), [Next]_vars
  PROVE  /\ Armed(c')
         /\ remodes' = 0 => Wire(c', peer')
         /\ remodes' = 0 /\ Panel(c, peer, dpms) => Panel(c', peer', dpms')
<1> DEFINE Goal == /\ Armed(c')
                   /\ remodes' = 0 => Wire(c', peer')
                   /\ remodes' = 0 /\ Panel(c, peer, dpms)
                        => Panel(c', peer', dpms')
<1>1. /\ c \in ClientType /\ WellFormed(c) /\ peer \in PeerType /\ dpms \in BOOLEAN
      /\ remodes \in Nat
  BY InvSound, BoundAssumption DEF Sound, WellFormed
<1>2. remodes = 0 => Wire(c, peer)
  BY DEF FirstMode
<1>3. ASSUME NEW e \in ClientType, c' = e, peer' = peer, dpms' = dpms, remodes' = remodes,
             Armed(e), Wire(c, peer) => Wire(e, peer),
             Wire(c, peer) /\ Panel(c, peer, dpms) => Panel(e, peer, dpms)
      PROVE  Goal
  BY <1>2, <1>3
<1>4. ASSUME NEW junk \in Image, ModeSet(junk)
      PROVE  Goal
  <2> DEFINE e == XmitCtrl(Rebuilt(c, FALSE, junk), "HELLO")
             f == [e EXCEPT !.state = "STREAMING", !.xmit_mode = "RAW",
                            !.ctl_state = "RAW_STEADY", !.pings = 0]
  <2>1. c.state = "MODE_WAIT" /\ c' = f /\ peer' = peer /\ remodes' = remodes /\ dpms' = TRUE
    BY <1>4 DEF ModeSet
  <2>2. /\ e \in ClientType /\ e.lost = c.lost /\ e.out = NoFrame /\ e.shadowbuf = BlackImage
        /\ e.outq = (IF c.lost THEN <<>> ELSE Append(<<>>, "HELLO"))
        /\ ~c.lost => e.out_watch
    BY <1>1, HelloQueued
  <2>3. /\ f \in ClientType /\ f.state = "STREAMING" /\ f.xmit_mode = "RAW" /\ f.pings = 0
        /\ f.lost = e.lost /\ f.out = e.out /\ f.outq = e.outq
        /\ f.shadowbuf = e.shadowbuf /\ f.out_watch = e.out_watch
    <3> HIDE DEF e
    <3> QED
      BY <2>2, ModeSetFields
  <2> HIDE DEF e, f
  <2>4. /\ Armed(f)
        /\ Wire(c, peer) => Wire(f, peer)
        /\ Panel(c, peer, dpms) => Panel(f, peer, TRUE)
    <3>1. /\ f.lost = c.lost /\ f.out = NoFrame /\ f.shadowbuf = BlackImage
          /\ f.outq = (IF c.lost THEN <<>> ELSE Append(<<>>, "HELLO"))
          /\ ~c.lost => f.out_watch
      BY <2>2, <2>3
    <3>2. c.state = "MODE_WAIT"
      BY <2>1
    <3> QED
      BY <3>1, <3>2, <2>3, <1>1, ModeSetStep
  <2> QED
    BY <2>1, <2>4, <1>2
<1>5. ASSUME NEW resized \in BOOLEAN, NEW junk \in Image, Remode(resized, junk)
      PROVE  Goal
  <2>1. c' = Rebuilt(c, resized, junk) /\ remodes' = remodes + 1
    BY <1>5 DEF Remode
  <2>2. remodes' # 0
    BY <2>1, <1>1
  <2>3. /\ c'.out = NoFrame /\ c'.outq = <<>> /\ c'.dirty = <<>> /\ ~c'.dirty_all
    BY <2>1, <1>1, RebuiltStep
  <2> QED
    BY <2>2, <2>3 DEF Armed, Pending
<1>6. ASSUME NEW r1 \in DamageRects, NEW r2 \in DamageRects, NEW d, NEW e \in XmitDamage(d, r1, r2),
             WellFormed(d), c.state = "STREAMING",
             d.state = c.state, d.lost = c.lost, d.out = c.out, d.outq = c.outq,
             d.xmit_mode = c.xmit_mode, d.force_idr = c.force_idr,
             d.dirty = c.dirty, d.dirty_all = c.dirty_all, d.shadowbuf = c.shadowbuf,
             d.out_watch = c.out_watch, d.out_retry = c.out_retry,
             d.h264_failed = c.h264_failed,
             c' = e, peer' = peer, dpms' = dpms, remodes' = remodes
      PROVE  Goal
  <2>1. d \in ClientType
    BY <1>6 DEF WellFormed
  <2>2. Armed(d)
    BY <1>6 DEF Armed, Pending
  <2>3. Wire(c, peer) => Wire(d, peer)
    BY <2>1, <1>1, <1>6, WireQuiet
  <2>4. Panel(c, peer, dpms) => Panel(d, peer, dpms)
    <3>1. Region(c) \subseteq Region(d)
      BY <1>6 DEF Region
    <3> QED
      BY <3>1, <2>1, <1>1, <1>6, PanelQuiet
  <2>5. /\ e \in ClientType
        /\ Armed(d) => Armed(e)
        /\ Wire(d, peer) => Wire(e, peer)
        /\ Panel(d, peer, dpms) => Panel(e, peer, dpms)
    BY <1>1, <1>6, DamageKept
  <2> QED
    BY <2>2, <2>3, <2>4, <2>5, <1>3, <1>6
<1>7. ASSUME NEW r1 \in DamageRects, NEW r2 \in DamageRects, NEW image \in Image,
             Grab(r1, r2, image) \/ CursorRepaint(r1, r2, image)
      PROVE  Goal
  <2>1. PICK g \in BOOLEAN : c' \in XmitDamage([c EXCEPT !.grabbuf = image, !.grabbed = g], r1, r2)
    <3>1. CASE Grab(r1, r2, image)
      BY <3>1 DEF Grab
    <3>2. CASE CursorRepaint(r1, r2, image)
      <4>1. c.grabbed \in BOOLEAN /\ [c EXCEPT !.grabbuf = image]
              = [c EXCEPT !.grabbuf = image, !.grabbed = c.grabbed]
        BY <1>1 DEF ClientType
      <4> QED
        BY <3>2, <4>1 DEF CursorRepaint
    <3> QED
      BY <1>7, <3>1, <3>2
  <2>2. c.state = "STREAMING" /\ peer' = peer /\ dpms' = dpms /\ remodes' = remodes
    BY <1>7 DEF Grab, CursorRepaint
  <2> DEFINE d == [c EXCEPT !.grabbuf = image, !.grabbed = g]
  <2>3. /\ d \in ClientType /\ d.pings = c.pings
        /\ d.state = c.state /\ d.lost = c.lost /\ d.out = c.out /\ d.outq = c.outq
        /\ d.xmit_mode = c.xmit_mode /\ d.force_idr = c.force_idr
        /\ d.dirty = c.dirty /\ d.dirty_all = c.dirty_all /\ d.shadowbuf = c.shadowbuf
        /\ d.out_watch = c.out_watch /\ d.out_retry = c.out_retry
        /\ d.h264_failed = c.h264_failed
    BY <1>1 DEF ClientType
  <2> HIDE DEF d
  <2>4. WellFormed(d)
    BY <2>3, <1>1 DEF WellFormed
  <2>5. c' \in XmitDamage(d, r1, r2)
    BY <2>1 DEF d
  <2> QED
    BY <2>2, <2>3, <2>4, <2>5, <1>6
<1>8. ASSUME NEW on \in BOOLEAN, Dpms(on)
      PROVE  Goal
  <2> DEFINE m == IF on THEN "UNBLANK" ELSE "BLANK"
             e == XmitCtrl(c, m)
  <2>1. /\ "dpms" \in Env /\ c.state = "STREAMING" /\ dpms' = on /\ c' = e
        /\ peer' = peer /\ remodes' = remodes
    BY <1>8 DEF Dpms
  <2>2. m \in {"PING", "BLANK", "UNBLANK"} /\ m # "PING" /\ m \in Ctrls
    BY DEF Ctrls
  <2>3. m = IF on THEN "UNBLANK" ELSE "BLANK"
    OBVIOUS
  <2>4. e = XmitCtrl(c, m)
    OBVIOUS
  <2> HIDE DEF m, e
  <2>5. /\ Base(c, e) /\ ~c.lost => e.out_watch
    BY <2>2, <2>4, <1>1, XmitCtrlStep
  <2>6. Armed(e)
    BY <2>2, <2>4, <1>1, XmitCtrlStep DEF Armed, Base
  <2>7. Wire(c, peer) => Wire(e, peer)
    BY <2>1, <2>2, <2>4, <1>1, WireCtrl
  <2>8. Panel(c, peer, dpms) => Panel(e, peer, on)
    BY <2>2, <2>3, <2>4, <1>1, PanelCtrl
  <2> QED
    BY <2>1, <2>6, <2>7, <2>8, <1>2
<1>9. CASE FrameBlocked
  <2>1. /\ c' = [c EXCEPT !.out_off = TRUE]
        /\ peer' = peer /\ dpms' = dpms /\ remodes' = remodes
    BY <1>9 DEF FrameBlocked
  <2>2. /\ c' \in ClientType /\ Base(c, c') /\ SameWork(c, c') /\ CtlStep(c, c')
    BY <2>1, <1>1 DEF ClientType, Base, SameWork, CtlStep
  <2>3. /\ Armed(c')
        /\ Wire(c, peer) => Wire(c', peer)
        /\ Panel(c, peer, dpms) => Panel(c', peer, dpms)
    BY <2>2, <1>1, ArmedCtl, WireCtl, PanelCtl
  <2> QED
    BY <2>1, <2>3, <1>2
<1>10. ASSUME NEW partial \in BOOLEAN, CtrlBlocked(partial)
       PROVE  Goal
  <2> DEFINE q == DeliverFrame(peer, c.out)
  <2>1. /\ c.out_watch /\ c' = [FrameOut(c) EXCEPT !.outq_off = @ \/ partial]
        /\ peer' = q /\ dpms' = dpms /\ remodes' = remodes
    BY <1>10 DEF CtrlBlocked
  <2>2. c' \in ClientType /\ Sent(c, c') /\ c'.outq = c.outq
    <3> DEFINE f == FrameOut(c)
               b == f.outq_off \/ partial
    <3>1. f \in ClientType /\ Sent(c, f) /\ f.outq = c.outq
      BY <1>1 DEF FrameOut, ClientType, Sent
    <3> HIDE DEF f
    <3>2. b \in BOOLEAN /\ c' = [f EXCEPT !.outq_off = b]
      BY <3>1, <2>1 DEF ClientType, f
    <3> HIDE DEF b
    <3> QED
      BY <3>1, <3>2 DEF ClientType, Sent
  <2> HIDE DEF q
  <2>3. Armed(c')
    BY <2>1, <2>2 DEF Sent, Armed
  <2>4. Wire(c, peer) => Wire(c', q)
    BY <2>2, <1>1, WireFrameOut DEF q
  <2>5. Wire(c, peer) /\ Panel(c, peer, dpms) => Panel(c', q, dpms)
    BY <2>2, <1>1, PanelFrameOut DEF q
  <2> QED
    BY <2>1, <2>3, <2>4, <2>5, <1>2
<1>11. CASE CtrlSent
  <2> DEFINE q == DeliverFrame(peer, c.out)
             f == FrameOut(c)
             d == [f EXCEPT !.outq = Tail(@), !.outq_off = FALSE]
             r == Deliver(q, Head(c.outq))
  <2>1. /\ c.out_watch /\ c.outq # <<>> /\ c' \in IF d.outq # <<>> THEN {d} ELSE BuildOrDisarm(d)
        /\ peer' = r /\ dpms' = dpms /\ remodes' = remodes
    BY <1>11 DEF CtrlSent
  <2>2. f \in ClientType /\ Sent(c, f) /\ f.outq = c.outq
    BY <1>1 DEF FrameOut, ClientType, Sent
  <2> HIDE DEF f
  <2>3. c.outq \in Seq(Ctrls)
    BY <1>1 DEF ClientType
  <2>4. Tail(c.outq) \in Seq(Ctrls) /\ Head(c.outq) \in Ctrls
    BY <2>1, <2>3, HeadTailProperties
  <2>5. d \in ClientType /\ Sent(f, d) /\ d.outq = Tail(f.outq)
    <3> DEFINE t == Tail(f.outq)
    <3>1. t \in Seq(Ctrls) /\ d = [f EXCEPT !.outq = t, !.outq_off = FALSE] /\ f.out = NoFrame
      BY <2>2, <2>4 DEF Sent
    <3> HIDE DEF t, d
    <3>2. d \in ClientType /\ Sent(f, d) /\ d.outq = t
      BY <3>1, <2>2 DEF ClientType, Sent
    <3> QED
      BY <3>2 DEF t
  <2> HIDE DEF d
  <2>6. f.out = NoFrame /\ f.outq # <<>> /\ d.out = NoFrame /\ d.out_watch
    BY <2>1, <2>2, <2>5 DEF Sent
  <2>7. q \in PeerType /\ r \in PeerType
    <3>1. c.out \in Frames \cup {NoFrame}
      BY <1>1 DEF ClientType
    <3>2. q \in PeerType
      BY <3>1, <1>1, DeliverFrameType
    <3> HIDE DEF q
    <3> QED
      BY <3>2, <2>4, DeliverType
  <2>8. Wire(c, peer) => Wire(f, q) /\ (Panel(c, peer, dpms) => Panel(f, q, dpms))
    BY <2>2, <1>1, WireFrameOut, PanelFrameOut
  <2> HIDE DEF q
  <2>9. r = Deliver(q, Head(f.outq))
    BY <2>2
  <2> HIDE DEF r
  <2>10. Wire(f, q) => Wire(d, r) /\ (Panel(f, q, dpms) => Panel(d, r, dpms))
    BY <2>2, <2>5, <2>6, <2>7, <2>9, <1>1, WireCtrlOut, PanelCtrlOut
  <2>11. CASE d.outq # <<>>
    <3>1. c' = d
      BY <2>1, <2>11
    <3>2. Armed(d)
      BY <2>6 DEF Armed
    <3> QED
      BY <3>1, <3>2, <2>1, <2>8, <2>10, <1>2
  <2>12. CASE d.outq = <<>>
    <3>1. c' \in BuildOrDisarm(d)
      BY <2>1, <2>12
    <3>2. /\ Armed(c')
          /\ Wire(d, r) => Wire(c', r)
          /\ Wire(d, r) /\ Panel(d, r, dpms) => Panel(c', r, dpms)
      BY <3>1, <2>5, <2>6, <2>7, <2>12, <1>1, BuildOrDisarmKept
    <3> QED
      BY <3>2, <2>1, <2>8, <2>10, <1>2
  <2> QED
    BY <2>11, <2>12
<1>12. CASE FrameSent
  <2> DEFINE q == DeliverFrame(peer, c.out)
             f == FrameOut(c)
  <2>1. /\ c.out_watch /\ c.outq = <<>> /\ c' \in BuildOrDisarm(f)
        /\ peer' = q /\ dpms' = dpms /\ remodes' = remodes
    BY <1>12 DEF FrameSent
  <2>2. f \in ClientType /\ Sent(c, f) /\ f.outq = c.outq
    BY <1>1 DEF FrameOut, ClientType, Sent
  <2> HIDE DEF f
  <2>3. q \in PeerType
    <3>1. c.out \in Frames \cup {NoFrame}
      BY <1>1 DEF ClientType
    <3> QED
      BY <3>1, <1>1, DeliverFrameType
  <2>4. Wire(c, peer) => Wire(f, q) /\ (Panel(c, peer, dpms) => Panel(f, q, dpms))
    BY <2>2, <1>1, WireFrameOut, PanelFrameOut
  <2> HIDE DEF q
  <2>5. f.out = NoFrame /\ f.out_watch /\ f.outq = <<>>
    BY <2>1, <2>2 DEF Sent
  <2>6. /\ Armed(c')
        /\ Wire(f, q) => Wire(c', q)
        /\ Wire(f, q) /\ Panel(f, q, dpms) => Panel(c', q, dpms)
    BY <2>1, <2>2, <2>3, <2>5, <1>1, BuildOrDisarmKept
  <2> QED
    BY <2>1, <2>4, <2>6, <1>2
<1>13. CASE SendFailed \/ PingDead
  <2>1. /\ c' = [c EXCEPT !.out_watch = FALSE, !.lost = TRUE] \/ c' = [c EXCEPT !.lost = TRUE]
        /\ peer' = peer /\ dpms' = dpms /\ remodes' = remodes
    BY <1>13 DEF SendFailed, PingDead
  <2>2. /\ c' \in ClientType /\ c'.lost /\ c'.state = c.state /\ c'.out = c.out /\ c'.outq = c.outq
        /\ c'.xmit_mode = c.xmit_mode /\ c'.force_idr = c.force_idr /\ c'.shadowbuf = c.shadowbuf
        /\ c'.dirty = c.dirty /\ c'.dirty_all = c.dirty_all
    <3>1. CASE c' = [c EXCEPT !.out_watch = FALSE, !.lost = TRUE]
      BY <3>1, <1>1 DEF ClientType
    <3>2. CASE c' = [c EXCEPT !.lost = TRUE]
      BY <3>2, <1>1 DEF ClientType
    <3> QED
      BY <2>1, <3>1, <3>2
  <2>3. Region(c) \subseteq Region(c')
    BY <2>2 DEF Region
  <2>4. Wire(c, peer) => Wire(c', peer)
    BY <2>2, <1>1, WireQuiet
  <2>5. Panel(c, peer, dpms) => Panel(c', peer, dpms)
    BY <2>2, <2>3, <1>1, PanelQuiet
  <2> QED
    BY <2>1, <2>2, <2>4, <2>5, <1>2 DEF Armed
<1>14. CASE RetryCb
  <2> DEFINE d == [c EXCEPT !.out_retry = FALSE]
  <2>1. c' = Kick(d) /\ peer' = peer /\ dpms' = dpms /\ remodes' = remodes
    BY <1>14 DEF RetryCb
  <2>2. /\ d \in ClientType /\ d.state = c.state /\ d.lost = c.lost /\ d.out = c.out
        /\ d.outq = c.outq /\ d.xmit_mode = c.xmit_mode /\ d.force_idr = c.force_idr
        /\ d.shadowbuf = c.shadowbuf /\ d.dirty = c.dirty /\ d.dirty_all = c.dirty_all
    BY <1>1 DEF ClientType
  <2> HIDE DEF d
  <2>3. Region(c) \subseteq Region(d)
    BY <2>2 DEF Region
  <2>4. /\ Wire(c, peer) => Wire(d, peer)
        /\ Panel(c, peer, dpms) => Panel(d, peer, dpms)
    BY <2>2, <2>3, <1>1, WireQuiet, PanelQuiet
  <2>5. c' \in ClientType /\ CtlStep(d, c') /\ Armed(c')
    BY <2>1, <2>2, KickStep DEF CtlStep
  <2>6. /\ Wire(d, peer) => Wire(c', peer)
        /\ Panel(d, peer, dpms) => Panel(c', peer, dpms)
    BY <2>2, <2>5, <1>1, WireCtl, PanelCtl
  <2> QED
    BY <2>1, <2>4, <2>5, <2>6, <1>2
<1>15. ASSUME NEW d \in ClientType, d.state = "STREAMING", NEW e, e = SendPing(d), Armed(d)
       PROVE  /\ e \in ClientType /\ Armed(e)
              /\ Wire(d, peer) => Wire(e, peer)
              /\ Panel(d, peer, dpms) => Panel(e, peer, dpms)
  <2> DEFINE x == XmitCtrl(d, "PING")
  <2>1. "PING" \in Ctrls /\ "PING" \in {"PING", "BLANK", "UNBLANK"}
    BY DEF Ctrls
  <2>2. x \in ClientType /\ Base(d, x) /\ (~d.lost => x.out_watch)
    BY <2>1, <1>15, XmitCtrlStep
  <2>3. /\ Wire(d, peer) => Wire(x, peer)
        /\ Panel(d, peer, dpms) => Panel(x, peer, dpms)
    BY <2>1, <1>1, <1>15, WireCtrl, PanelCtrl
  <2>4. e = [x EXCEPT !.pings = @ + 1]
    BY <1>15 DEF SendPing
  <2> HIDE DEF x
  <2>5. x.pings + 1 \in Nat
    BY <2>2 DEF ClientType
  <2>6. /\ e \in ClientType /\ e.state = x.state /\ e.lost = x.lost /\ e.out = x.out
        /\ e.outq = x.outq /\ e.xmit_mode = x.xmit_mode /\ e.force_idr = x.force_idr
        /\ e.shadowbuf = x.shadowbuf /\ e.dirty = x.dirty /\ e.dirty_all = x.dirty_all
        /\ e.out_watch = x.out_watch
    BY <2>2, <2>4, <2>5 DEF ClientType
  <2>7. Armed(e)
    BY <2>2, <2>6, <1>15 DEF Base, Armed
  <2>8. Region(x) \subseteq Region(e)
    BY <2>6 DEF Region
  <2>9. /\ Wire(x, peer) => Wire(e, peer)
        /\ Panel(x, peer, dpms) => Panel(e, peer, dpms)
    BY <2>2, <2>6, <2>8, <1>1, WireQuiet, PanelQuiet
  <2> QED
    BY <2>3, <2>6, <2>7, <2>9
<1>16. CASE PingTickBusy
  <2>1. c.state = "STREAMING" /\ c' = SendPing(c) /\ peer' = peer /\ dpms' = dpms /\ remodes' = remodes
    BY <1>16 DEF PingTickBusy, PingsRun
  <2>2. /\ Armed(c')
        /\ Wire(c, peer) => Wire(c', peer)
        /\ Panel(c, peer, dpms) => Panel(c', peer, dpms)
    BY <2>1, <1>1, <1>15
  <2> QED
    BY <2>1, <2>2, <1>2
<1>17. ASSUME NEW beat \in BOOLEAN, PingTickIdle(beat)
       PROVE  Goal
  <2>1. PICK d \in CtlEvaluate(c) : c' = d \/ c' = SendPing(d)
    BY <1>17 DEF PingTickIdle
  <2>2. c.state = "STREAMING" /\ peer' = peer /\ dpms' = dpms /\ remodes' = remodes
    BY <1>17 DEF PingTickIdle, PingsRun
  <2>3. d \in ClientType /\ CtlStep(c, d)
    BY <1>1, CtlEvaluateStep
  <2>4. /\ Armed(d) /\ d.state = "STREAMING"
        /\ Wire(c, peer) => Wire(d, peer)
        /\ Panel(c, peer, dpms) => Panel(d, peer, dpms)
    <3>1. d.state = "STREAMING"
      BY <2>2, <2>3 DEF CtlStep, Base
    <3> QED
      BY <3>1, <2>3, <1>1, ArmedCtl, WireCtl, PanelCtl
  <2>5. /\ Armed(c')
        /\ Wire(d, peer) => Wire(c', peer)
        /\ Panel(d, peer, dpms) => Panel(c', peer, dpms)
    BY <2>1, <2>3, <2>4, <1>15
  <2> QED
    BY <2>2, <2>4, <2>5, <1>2
<1>18. CASE Pong
  <2> DEFINE n == IF c.pings > 0 THEN c.pings - 1 ELSE 0
             d == [c EXCEPT !.pings = n]
             s == [peer EXCEPT !.pongs = peer.pongs - 1]
  <2>1. c' \in CtlEvaluate(d) /\ peer' = s /\ dpms' = dpms /\ remodes' = remodes /\ peer.pongs > 0
    BY <1>18 DEF Pong
  <2>2. n \in Nat
    BY <1>1 DEF ClientType
  <2> HIDE DEF n
  <2>3. /\ d \in ClientType /\ d.state = c.state /\ d.lost = c.lost /\ d.out = c.out
        /\ d.outq = c.outq /\ d.xmit_mode = c.xmit_mode /\ d.force_idr = c.force_idr
        /\ d.shadowbuf = c.shadowbuf /\ d.dirty = c.dirty /\ d.dirty_all = c.dirty_all
        /\ d.out_watch = c.out_watch /\ d.out_retry = c.out_retry /\ d.h264_failed = c.h264_failed
    BY <2>2, <1>1 DEF ClientType
  <2> HIDE DEF d
  <2>4. Region(c) \subseteq Region(d)
    BY <2>3 DEF Region
  <2>5. /\ Armed(d)
        /\ Wire(c, peer) => Wire(d, peer)
        /\ Panel(c, peer, dpms) => Panel(d, peer, dpms)
    <3>1. Armed(d)
      BY <2>3 DEF Armed, Pending
    <3> QED
      BY <3>1, <2>3, <2>4, <1>1, WireQuiet, PanelQuiet
  <2>6. c' \in ClientType /\ CtlStep(d, c')
    BY <2>1, <2>3, CtlEvaluateStep
  <2>7. /\ Armed(c')
        /\ Wire(d, peer) => Wire(c', peer)
        /\ Panel(d, peer, dpms) => Panel(c', peer, dpms)
    BY <2>3, <2>5, <2>6, <1>1, ArmedCtl, WireCtl, PanelCtl
  <2>8. /\ Wire(c', peer) => Wire(c', s)
        /\ Panel(c', peer, dpms) => Panel(c', s, dpms)
    <3>1. peer.pongs - 1 \in Nat
      BY <2>1, <1>1 DEF PeerType
    <3> QED
      BY <3>1, <2>6, <1>1, PongsApart
  <2> HIDE DEF s
  <2> QED
    BY <2>1, <2>5, <2>7, <2>8, <1>2
<1>19. CASE ClientLost
  <2>1. /\ c' = [NewClient EXCEPT !.state = "GONE"]
        /\ peer' = [SetBlank(peer, TRUE) EXCEPT !.greeted = FALSE, !.episode = FALSE, !.pongs = 0,
                                                !.garbled = FALSE, !.misordered = FALSE,
                                                !.blind = Leftover(SetBlank(peer, TRUE))]
        /\ dpms' = dpms
    BY <1>19 DEF ClientLost
  <2>2. Wire(c', peer') /\ Panel(c', peer', dpms) /\ Armed(c')
    BY <2>1, <1>1, LostStep
  <2> QED
    BY <2>1, <2>2
<1>20. CASE Connect
  <2>1. /\ "reconnect" \in Env /\ c.state = "GONE" /\ c' = NewClient
        /\ peer' = peer /\ dpms' = dpms /\ remodes' = remodes
    BY <1>20 DEF Connect, Live
  <2>2. /\ c'.state = "MODE_WAIT" /\ c'.outq = <<>> /\ c'.out = NoFrame
        /\ c'.dirty = <<>> /\ ~c'.dirty_all
    BY <2>1 DEF NewClient
  <2>3. Armed(c')
    BY <2>2 DEF Armed
  <2>4. Wire(c, peer) => Wire(c', peer)
    BY <2>1, <2>2 DEF Wire, Idle, Greeting, Episodes
  <2>5. Panel(c, peer, dpms) => Panel(c', peer, dpms)
    BY <2>1, <2>2 DEF Panel, Fresh, Shown, Lit
  <2> QED
    BY <2>1, <2>3, <2>4, <2>5, <1>2
<1>21. CASE UNCHANGED vars
  BY <1>2, <1>21 DEF vars
<1> QED
  BY <1>4, <1>5, <1>7, <1>8, <1>9, <1>10, <1>11, <1>12, <1>13, <1>14, <1>16, <1>17, <1>18,
     <1>19, <1>20, <1>21 DEF Next

(***************************************************************************)
(* Pings.                                                                  *)
(***************************************************************************)
\* Where the queue holds a ping, and that those waited for can be answered.
PingsOf(s) == {i \in DOMAIN s : s[i] = "PING"}

Answerable(n, s, p) == p.garbled \/ n <= Cardinality(PingsOf(s)) + p.pongs

LEMMA PingsFinite ==
  ASSUME NEW s \in Seq(Ctrls)
  PROVE  IsFiniteSet(PingsOf(s)) /\ Cardinality(PingsOf(s)) \in Nat
<1>1. Len(s) \in Nat /\ DOMAIN s = 1 .. Len(s)
  BY LenProperties
<1>2. IsFiniteSet(1 .. Len(s))
  BY <1>1, FS_Interval
<1>3. PingsOf(s) \in SUBSET (1 .. Len(s))
  BY <1>1 DEF PingsOf
<1>4. IsFiniteSet(PingsOf(s))
  BY <1>2, <1>3, FS_Subset
<1> QED
  BY <1>4, FS_CardinalityType

LEMMA PingsAppended ==
  ASSUME NEW s \in Seq(Ctrls), NEW m \in Ctrls, NEW t, t = Append(s, m)
  PROVE  Cardinality(PingsOf(t)) = Cardinality(PingsOf(s)) + (IF m = "PING" THEN 1 ELSE 0)
<1>1. /\ DOMAIN t = DOMAIN s \cup {Len(s) + 1} /\ Len(s) + 1 \notin DOMAIN s
      /\ t[Len(s) + 1] = m /\ \A i \in DOMAIN s : t[i] = s[i]
  BY Appended
<1>2. IsFiniteSet(PingsOf(s)) /\ Cardinality(PingsOf(s)) \in Nat /\ Len(s) + 1 \notin PingsOf(s)
  BY <1>1, PingsFinite DEF PingsOf
<1>3. CASE m = "PING"
  <2>1. PingsOf(t) = PingsOf(s) \cup {Len(s) + 1}
    BY <1>1, <1>3 DEF PingsOf
  <2> QED
    BY <2>1, <1>2, <1>3, FS_AddElement
<1>4. CASE m # "PING"
  <2>1. PingsOf(t) = PingsOf(s)
    BY <1>1, <1>4 DEF PingsOf
  <2> QED
    BY <2>1, <1>2, <1>4
<1> QED
  BY <1>3, <1>4

\* Every ping but the one that goes out has its place in the rest.
LEMMA PingsShortened ==
  ASSUME NEW s \in Seq(Ctrls), s # <<>>, NEW t, t = Tail(s), NEW m, m = Head(s)
  PROVE  Cardinality(PingsOf(s)) <= Cardinality(PingsOf(t)) + (IF m = "PING" THEN 1 ELSE 0)
<1>1. /\ t \in Seq(Ctrls) /\ m \in Ctrls /\ 1 \in DOMAIN s /\ s[1] = m
      /\ \A j \in DOMAIN s : j \in Nat /\ (j = 1 \/ (j - 1 \in DOMAIN t /\ t[j - 1] = s[j]))
  BY Shortened
<1> DEFINE S == PingsOf(s) \ {1}
           T == PingsOf(t)
           f == [j \in S |-> j - 1]
<1>2. /\ IsFiniteSet(PingsOf(s)) /\ Cardinality(PingsOf(s)) \in Nat
      /\ IsFiniteSet(T) /\ Cardinality(T) \in Nat
  BY <1>1, PingsFinite
<1>3. \A j \in S : j \in Nat /\ j - 1 \in T
  BY <1>1 DEF PingsOf
<1>4. /\ f \in [S -> T] /\ \A a, b \in S : f[a] = f[b] => a = b
  <2> HIDE DEF S, T
  <2> QED
    BY <1>3
<1>5. f \in Injection(S, T)
  <2> HIDE DEF S, T, f
  <2> QED
    BY <1>4 DEF Injection, IsInjective
<1>6. Cardinality(S) <= Cardinality(T)
  <2> HIDE DEF S, T, f
  <2> QED
    BY <1>2, <1>5, FS_Injection
<1>7. Cardinality(S) = IF 1 \in PingsOf(s) THEN Cardinality(PingsOf(s)) - 1 ELSE Cardinality(PingsOf(s))
  BY <1>2, FS_RemoveElement
<1>8. 1 \in PingsOf(s) <=> m = "PING"
  BY <1>1 DEF PingsOf
<1> HIDE DEF S, T
<1> QED
  BY <1>2, <1>6, <1>7, <1>8 DEF T

\* The queue stays, or grows by a message that need not be a ping.
LEMMA AnswerableKept ==
  ASSUME NEW s \in Seq(Ctrls), NEW t, NEW m \in Ctrls, NEW n \in Nat, NEW k \in Nat,
         NEW p \in PeerType, Answerable(n, s, p),
         \/ k <= n /\ (t = s \/ t = Append(s, m))
         \/ k <= n + 1 /\ t = Append(s, m) /\ m = "PING"
  PROVE  Answerable(k, t, p)
<1>1. Cardinality(PingsOf(s)) \in Nat /\ p.pongs \in Nat
  BY PingsFinite DEF PeerType
<1>2. CASE t = s /\ k <= n
  BY <1>1, <1>2 DEF Answerable
<1>3. CASE t = Append(s, m)
  <2>1. Cardinality(PingsOf(t)) = Cardinality(PingsOf(s)) + (IF m = "PING" THEN 1 ELSE 0)
    BY <1>3, PingsAppended
  <2> QED
    BY <2>1, <1>1 DEF Answerable
<1> QED
  BY <1>2, <1>3

LEMMA PingsNext ==
  ASSUME Inv, Inv', [Next]_vars, Answerable(c.pings, c.outq, peer)
  PROVE  Answerable(c'.pings, c'.outq, peer')
<1> DEFINE Goal == Answerable(c'.pings, c'.outq, peer')
<1>1. /\ c \in ClientType /\ WellFormed(c) /\ peer \in PeerType /\ dpms \in BOOLEAN
      /\ c.outq \in Seq(Ctrls) /\ c.pings \in Nat
  <2>1. c \in ClientType /\ WellFormed(c) /\ peer \in PeerType /\ dpms \in BOOLEAN
    BY InvSound DEF Sound, WellFormed
  <2> QED
    BY <2>1 DEF ClientType
<1>2. c' \in ClientType /\ peer' \in PeerType
  BY DEF Inv, TypeOK
<1>3. c'.outq \in Seq(Ctrls) /\ c'.pings \in Nat /\ peer'.pongs \in Nat
  BY <1>2 DEF ClientType, PeerType
<1>4. CASE c'.pings = 0
  BY <1>3, <1>4, PingsFinite DEF Answerable
<1>5. "EOS" \in Ctrls /\ "PING" \in Ctrls /\ "BLANK" \in Ctrls /\ "UNBLANK" \in Ctrls
  BY DEF Ctrls
<1>6. ASSUME NEW d \in ClientType, NEW e \in ClientType, CtlStep(d, e)
      PROVE  e.pings = d.pings /\ (e.outq = d.outq \/ e.outq = Append(d.outq, "EOS"))
  BY <1>6 DEF CtlStep, Base, SameWork, ToH264, ToRaw
<1>7. CASE /\ peer' = peer /\ c'.pings = c.pings
           /\ \E m \in Ctrls : c'.outq = c.outq \/ c'.outq = Append(c.outq, m)
  <2>1. PICK m \in Ctrls : c'.outq = c.outq \/ c'.outq = Append(c.outq, m)
    BY <1>7
  <2>2. c'.pings <= c.pings
    BY <1>1, <1>7
  <2>3. Answerable(c'.pings, c'.outq, peer)
    BY <2>1, <2>2, <1>1, <1>3, AnswerableKept
  <2> QED
    BY <2>3, <1>7
<1>8. ASSUME NEW junk \in Image, ModeSet(junk)
      PROVE  Goal
  <2> DEFINE e == XmitCtrl(Rebuilt(c, FALSE, junk), "HELLO")
  <2>1. c' = [e EXCEPT !.state = "STREAMING", !.xmit_mode = "RAW",
                       !.ctl_state = "RAW_STEADY", !.pings = 0]
    BY <1>8 DEF ModeSet
  <2>2. e \in ClientType
    BY <1>1, HelloQueued
  <2> HIDE DEF e
  <2>3. c'.pings = 0
    BY <2>1, <2>2, ModeSetFields
  <2> QED
    BY <2>3, <1>4
<1>9. ASSUME NEW resized \in BOOLEAN, NEW junk \in Image, Remode(resized, junk)
      PROVE  Goal
  <2>1. c'.pings = 0
    BY <1>1, <1>9, RebuiltStep DEF Remode
  <2> QED
    BY <2>1, <1>4
<1>10. ASSUME NEW r1 \in DamageRects, NEW r2 \in DamageRects, NEW image \in Image,
              Grab(r1, r2, image) \/ CursorRepaint(r1, r2, image)
       PROVE  Goal
  <2>1. PICK g \in BOOLEAN : c' \in XmitDamage([c EXCEPT !.grabbuf = image, !.grabbed = g], r1, r2)
    <3>1. CASE Grab(r1, r2, image)
      BY <3>1 DEF Grab
    <3>2. CASE CursorRepaint(r1, r2, image)
      <4>1. c.grabbed \in BOOLEAN /\ [c EXCEPT !.grabbuf = image]
              = [c EXCEPT !.grabbuf = image, !.grabbed = c.grabbed]
        BY <1>1 DEF ClientType
      <4> QED
        BY <3>2, <4>1 DEF CursorRepaint
    <3> QED
      BY <1>10, <3>1, <3>2
  <2>2. c.state = "STREAMING" /\ peer' = peer
    BY <1>10 DEF Grab, CursorRepaint
  <2> DEFINE d == [c EXCEPT !.grabbuf = image, !.grabbed = g]
  <2>3. d \in ClientType /\ d.pings = c.pings /\ d.state = c.state /\ d.outq = c.outq /\ d.dirty = c.dirty
    BY <1>1 DEF ClientType
  <2>4. c' \in XmitDamage(d, r1, r2)
    BY <2>1
  <2> HIDE DEF d
  <2>5. WellFormed(d)
    BY <2>3, <1>1 DEF WellFormed
  <2>6. /\ c'.pings = d.pings /\ (c'.outq = d.outq \/ c'.outq = Append(d.outq, "EOS"))
        /\ Wire(d, peer) => Wire(c', peer)
        /\ Panel(d, peer, dpms) => Panel(c', peer, dpms)
    BY <2>2, <2>3, <2>4, <2>5, <1>1, DamageKept
  <2> QED
    BY <2>2, <2>3, <2>6, <1>5, <1>7
<1>11. ASSUME NEW on \in BOOLEAN, Dpms(on)
       PROVE  Goal
  <2> DEFINE m == IF on THEN "UNBLANK" ELSE "BLANK"
  <2>1. c' = XmitCtrl(c, m) /\ peer' = peer /\ m \in Ctrls
    BY <1>5, <1>11 DEF Dpms
  <2> HIDE DEF m
  <2>2. Base(c, c') /\ c'.outq = (IF c.lost THEN c.outq ELSE Append(c.outq, m))
    BY <2>1, <1>1, XmitCtrlStep
  <2>3. c'.pings = c.pings /\ (c'.outq = c.outq \/ c'.outq = Append(c.outq, m))
    BY <2>2 DEF Base
  <2> QED
    BY <2>1, <2>3, <1>7
<1>12. CASE FrameBlocked \/ SendFailed \/ PingDead
  <2>1. peer' = peer /\ c'.pings = c.pings /\ c'.outq = c.outq
    BY <1>1, <1>12 DEF FrameBlocked, SendFailed, PingDead, ClientType
  <2> QED
    BY <2>1, <1>5, <1>7
<1>13. CASE RetryCb
  <2> DEFINE d == [c EXCEPT !.out_retry = FALSE]
  <2>1. c' = Kick(d) /\ peer' = peer
    BY <1>13 DEF RetryCb
  <2>2. d \in ClientType /\ d.pings = c.pings /\ d.outq = c.outq
    BY <1>1 DEF ClientType
  <2> HIDE DEF d
  <2>3. c'.pings = d.pings /\ c'.outq = d.outq
    BY <2>1, <2>2, KickStep DEF Base, SameWork
  <2> QED
    BY <2>1, <2>2, <2>3, <1>5, <1>7
\* The frame in flight says nothing of pings.
<1>14. ASSUME NEW q, q = DeliverFrame(peer, c.out)
       PROVE  /\ q \in PeerType /\ q.garbled = peer.garbled /\ q.pongs = peer.pongs
  <2>1. c.out \in Frames \cup {NoFrame} /\ peer.garbled \in BOOLEAN
    BY <1>1 DEF ClientType, PeerType
  <2>2. q \in PeerType
    BY <2>1, <1>1, <1>14, DeliverFrameType
  <2>3. CASE peer.garbled
    BY <2>2, <2>3, <1>14 DEF DeliverFrame
  <2>4. CASE ~peer.garbled
    <3>1. ~q.garbled /\ q.garbled \in BOOLEAN
      BY <2>2, <2>4, <1>1, <1>14, FrameLanded DEF PeerType
    <3>2. q.pongs = peer.pongs
      BY <2>4, <1>1, <1>14, FrameLanded
    <3> QED
      BY <3>1, <3>2, <2>1, <2>2, <2>4
  <2> QED
    BY <2>3, <2>4
<1>15. ASSUME NEW partial \in BOOLEAN, CtrlBlocked(partial)
       PROVE  Goal
  <2> DEFINE f == FrameOut(c)
             b == f.outq_off \/ partial
  <2>1. c' = [f EXCEPT !.outq_off = b] /\ peer' = DeliverFrame(peer, c.out)
    BY <1>15 DEF CtrlBlocked
  <2>2. f \in ClientType /\ f.pings = c.pings /\ f.outq = c.outq
    BY <1>1 DEF FrameOut, ClientType
  <2> HIDE DEF f, b
  <2>3. c'.pings = c.pings /\ c'.outq = c.outq
    BY <2>1, <2>2 DEF ClientType
  <2>4. peer'.garbled = peer.garbled /\ peer'.pongs = peer.pongs
    BY <2>1, <1>14
  <2> QED
    BY <2>3, <2>4 DEF Answerable
<1>16. ASSUME NEW d \in ClientType, d.out = NoFrame, d.outq = <<>>, d.out_watch,
              NEW e \in BuildOrDisarm(d), NEW p \in PeerType, Answerable(d.pings, d.outq, p)
       PROVE  Answerable(e.pings, e.outq, p)
  <2>1. e \in ClientType /\ e.pings = d.pings /\ (e.outq = d.outq \/ e.outq = Append(d.outq, "EOS"))
    BY <1>1, <1>16, BuildOrDisarmKept
  <2>2. d.outq \in Seq(Ctrls) /\ d.pings \in Nat
    BY DEF ClientType
  <2> QED
    <3>1. e.pings <= d.pings /\ e.pings \in Nat
      BY <2>1, <2>2
    <3> QED
      BY <3>1, <2>1, <2>2, <1>5, <1>16, AnswerableKept
<1>17. CASE CtrlSent
  <2> DEFINE q == DeliverFrame(peer, c.out)
             f == FrameOut(c)
             t == Tail(c.outq)
             m == Head(c.outq)
             d == [f EXCEPT !.outq = t, !.outq_off = FALSE]
             r == Deliver(q, m)
  <2>1. f \in ClientType /\ f.outq = c.outq /\ f.pings = c.pings /\ f.out = NoFrame
        /\ f.out_watch = c.out_watch
    BY <1>1 DEF FrameOut, ClientType
  <2>2. /\ c.out_watch /\ c.outq # <<>> /\ c' \in IF d.outq # <<>> THEN {d} ELSE BuildOrDisarm(d)
        /\ peer' = r
    BY <2>1, <1>17 DEF CtrlSent
  <2>3. t \in Seq(Ctrls) /\ m \in Ctrls
    BY <2>2, <1>1, HeadTailProperties
  <2>4. Cardinality(PingsOf(c.outq)) <= Cardinality(PingsOf(t)) + (IF m = "PING" THEN 1 ELSE 0)
    BY <2>2, <1>1, PingsShortened
  <2> HIDE DEF f, t, m
  <2>5. /\ d \in ClientType /\ d.outq = t /\ d.pings = c.pings /\ d.out = NoFrame /\ d.out_watch
    BY <2>1, <2>2, <2>3 DEF ClientType
  <2> HIDE DEF d
  <2>6. q \in PeerType /\ q.garbled = peer.garbled /\ q.pongs = peer.pongs
    BY <1>14
  <2> HIDE DEF q
  <2>7. r \in PeerType
    BY <2>3, <2>6, DeliverType
  <2>8. Answerable(d.pings, d.outq, r)
    <3>1. CASE q.garbled
      BY <3>1 DEF Deliver, Answerable
    <3>2. CASE ~q.garbled
      <4>1. r.pongs = IF m = "PING" THEN q.pongs + 1 ELSE q.pongs
        BY <3>2, <2>3, <2>6, CtrlDelivered
      <4>2. /\ Cardinality(PingsOf(c.outq)) \in Nat /\ Cardinality(PingsOf(t)) \in Nat
            /\ q.pongs \in Nat
        BY <2>3, <2>6, <1>1, PingsFinite DEF PeerType
      <4>3. c.pings <= Cardinality(PingsOf(c.outq)) + q.pongs
        BY <3>2, <2>6 DEF Answerable
      <4>4. c.pings <= Cardinality(PingsOf(t)) + r.pongs
        BY <4>1, <4>2, <4>3, <2>4, <1>1
      <4> QED
        BY <4>4, <2>5 DEF Answerable
    <3> QED
      BY <3>1, <3>2
  <2> HIDE DEF r
  <2>9. CASE d.outq # <<>>
    BY <2>2, <2>8, <2>9
  <2>10. CASE d.outq = <<>>
    BY <2>2, <2>5, <2>7, <2>8, <2>10, <1>16
  <2> QED
    BY <2>9, <2>10
<1>18. CASE FrameSent
  <2> DEFINE q == DeliverFrame(peer, c.out)
             f == FrameOut(c)
  <2>1. /\ c.out_watch /\ c.outq = <<>> /\ c' \in BuildOrDisarm(f) /\ peer' = q
    BY <1>18 DEF FrameSent
  <2>2. f \in ClientType /\ f.outq = c.outq /\ f.pings = c.pings /\ f.out = NoFrame
        /\ f.out_watch = c.out_watch
    BY <1>1 DEF FrameOut, ClientType
  <2> HIDE DEF f
  <2>3. q \in PeerType /\ q.garbled = peer.garbled /\ q.pongs = peer.pongs
    BY <1>14
  <2> HIDE DEF q
  <2>4. Answerable(f.pings, f.outq, q)
    BY <2>2, <2>3 DEF Answerable
  <2> QED
    BY <2>1, <2>2, <2>3, <2>4, <1>16
<1>19. ASSUME NEW d \in ClientType, ~d.lost, d.pings = c.pings, NEW e, e = SendPing(d),
              Answerable(d.pings, d.outq, peer), e \in ClientType
       PROVE  Answerable(e.pings, e.outq, peer)
  <2> DEFINE x == XmitCtrl(d, "PING")
  <2>1. x \in ClientType /\ x.pings = d.pings /\ x.outq = Append(d.outq, "PING")
    <3>1. x \in ClientType /\ Base(d, x) /\ x.outq = (IF d.lost THEN d.outq ELSE Append(d.outq, "PING"))
      BY <1>5, XmitCtrlStep
    <3> QED
      BY <3>1, <1>19 DEF Base
  <2>2. e = [x EXCEPT !.pings = x.pings + 1]
    BY <1>19 DEF SendPing
  <2> HIDE DEF x
  <2>3. e.pings = d.pings + 1 /\ e.outq = Append(d.outq, "PING")
    BY <2>1, <2>2 DEF ClientType
  <2>4. d.outq \in Seq(Ctrls) /\ d.pings \in Nat /\ e.pings \in Nat
    BY <1>19 DEF ClientType
  <2> QED
    <3>1. e.pings <= d.pings + 1
      BY <2>3, <2>4
    <3>2. Answerable(d.pings, d.outq, peer) /\ e.outq = Append(d.outq, "PING")
      BY <2>3, <1>19
    <3> QED
      BY <3>1, <3>2, <2>4, <1>1, <1>5, AnswerableKept
<1>20. CASE PingTickBusy
  <2>1. ~c.lost /\ c' = SendPing(c) /\ peer' = peer
    BY <1>20 DEF PingTickBusy, PingsRun
  <2> QED
    BY <2>1, <1>1, <1>2, <1>19
<1>21. ASSUME NEW beat \in BOOLEAN, PingTickIdle(beat)
       PROVE  Goal
  <2>1. PICK d \in CtlEvaluate(c) : c' = d \/ c' = SendPing(d)
    BY <1>21 DEF PingTickIdle
  <2>2. ~c.lost /\ peer' = peer
    BY <1>21 DEF PingTickIdle, PingsRun
  <2>3. d \in ClientType /\ CtlStep(c, d)
    BY <1>1, CtlEvaluateStep
  <2>4. d.pings = c.pings /\ (d.outq = c.outq \/ d.outq = Append(c.outq, "EOS")) /\ ~d.lost
    BY <2>2, <2>3, <1>1, <1>6 DEF CtlStep, Base
  <2>5. Answerable(d.pings, d.outq, peer)
    BY <2>4, <1>1, <1>5, AnswerableKept
  <2> QED
    BY <2>1, <2>2, <2>3, <2>4, <2>5, <1>2, <1>19
<1>22. CASE Pong
  <2> DEFINE n == IF c.pings > 0 THEN c.pings - 1 ELSE 0
             d == [c EXCEPT !.pings = n]
  <2>1. /\ c' \in CtlEvaluate(d) /\ peer' = [peer EXCEPT !.pongs = peer.pongs - 1]
        /\ peer.pongs > 0
    BY <1>22 DEF Pong
  <2>2. n \in Nat /\ ((c.pings = 0 /\ n = 0) \/ n = c.pings - 1)
    BY <1>1
  <2> HIDE DEF n
  <2>3. d \in ClientType /\ d.outq = c.outq /\ d.pings = n
    BY <2>2, <1>1 DEF ClientType
  <2> HIDE DEF d
  <2>4. peer'.garbled = peer.garbled /\ peer'.pongs = peer.pongs - 1 /\ peer.pongs \in Nat
    BY <2>1, <1>1 DEF PeerType
  <2>5. Answerable(n, c.outq, peer')
    BY <2>1, <2>2, <2>4, <1>1, PingsFinite DEF Answerable
  <2>6. c'.pings = n /\ (c'.outq = c.outq \/ c'.outq = Append(c.outq, "EOS"))
    BY <2>1, <2>3, <1>6, CtlEvaluateStep
  <2> QED
    BY <2>2, <2>5, <2>6, <1>1, <1>2, <1>5, AnswerableKept, SMTT(30)
<1>23. CASE ClientLost \/ Connect
  <2>1. c'.pings = 0
    BY <1>23 DEF ClientLost, Connect, NewClient
  <2> QED
    BY <2>1, <1>4
<1>24. CASE UNCHANGED vars
  BY <1>24 DEF vars
<1> QED
  BY <1>8, <1>9, <1>10, <1>11, <1>12, <1>13, <1>15, <1>17, <1>18, <1>20, <1>21, <1>22, <1>23,
     <1>24 DEF Next

(***************************************************************************)
(* The theorems.                                                           *)
(***************************************************************************)
WireAll == Inv /\ Armed(c) /\ WireInv

PanelAll == WireAll /\ PanelInv

LEMMA WireInit == Init => WireAll /\ PanelInv
<1> SUFFICES ASSUME Init PROVE WireAll /\ PanelInv
  OBVIOUS
<1>1. /\ c.state = "MODE_WAIT" /\ c.outq = <<>> /\ c.out = NoFrame /\ c.dirty = <<>> /\ ~c.dirty_all
  BY DEF Init, NewClient
<1>2. /\ ~peer.greeted /\ ~peer.episode /\ ~peer.misordered /\ ~peer.garbled
      /\ Dark(peer) /\ Cells \ peer.blind \subseteq peer.exact
  BY DEF Init, NewPeer, Dark, BlackImage
<1>3. Inv /\ Armed(c)
  BY <1>1, InvInit DEF Armed
<1>4. Wire(c, peer)
  BY <1>1, <1>2 DEF Wire, Idle, Greeting, Episodes
<1>6. Panel(c, peer, dpms)
  BY <1>1, <1>2 DEF Panel, Fresh, Shown, Lit
<1> QED
  BY <1>3, <1>4, <1>6 DEF WireAll, WireInv, PanelInv

LEMMA WireStep == WireAll /\ [Next]_vars => WireAll'
<1> SUFFICES ASSUME WireAll, [Next]_vars PROVE WireAll'
  OBVIOUS
<1>1. Inv'
  BY InvNext DEF WireAll
<1>2. Armed(c') /\ (remodes' = 0 => Wire(c', peer'))
  BY WireNext DEF WireAll, WireInv
<1> QED
  BY <1>1, <1>2 DEF WireAll, WireInv, FirstMode

LEMMA PanelStep == PanelAll /\ [Next]_vars => PanelAll'
<1> SUFFICES ASSUME PanelAll, [Next]_vars PROVE PanelAll'
  OBVIOUS
<1>1. WireAll'
  BY WireStep DEF PanelAll
<1>2. remodes' = 0 /\ Panel(c, peer, dpms) => Panel(c', peer', dpms')
  BY WireNext DEF PanelAll, WireAll, WireInv
<1>3. remodes' = 0 => remodes = 0
  <2>1. remodes \in Nat
    BY BoundAssumption DEF PanelAll, WireAll, Inv, TypeOK
  <2>2. ASSUME NEW resized \in BOOLEAN, NEW junk \in Image, Remode(resized, junk)
        PROVE  remodes' = remodes + 1
    BY <2>2 DEF Remode
  <2>3. ASSUME NEW junk \in Image, ModeSet(junk)
        PROVE  remodes' = remodes
    BY <2>3 DEF ModeSet
  <2>4. ASSUME NEW r1, NEW r2, NEW image, Grab(r1, r2, image) \/ CursorRepaint(r1, r2, image)
        PROVE  remodes' = remodes
    BY <2>4 DEF Grab, CursorRepaint
  <2>5. ASSUME NEW b, Dpms(b) \/ CtrlBlocked(b) \/ PingTickIdle(b)
        PROVE  remodes' = remodes
    BY <2>5 DEF Dpms, CtrlBlocked, PingTickIdle
  <2>6. CASE FrameBlocked \/ CtrlSent \/ FrameSent \/ SendFailed \/ RetryCb
    BY <2>6 DEF FrameBlocked, CtrlSent, FrameSent, SendFailed, RetryCb
  <2>7. CASE PingTickBusy \/ PingDead \/ Pong \/ ClientLost \/ Connect
    BY <2>7 DEF PingTickBusy, PingDead, Pong, ClientLost, Connect
  <2>8. CASE UNCHANGED vars
    BY <2>8 DEF vars
  <2> QED
    BY <2>1, <2>2, <2>3, <2>4, <2>5, <2>6, <2>7, <2>8 DEF Next
<1> QED
  BY <1>1, <1>2, <1>3 DEF PanelAll, PanelInv, FirstMode

\* Until an encode or the opening of the encoder fails, pending work is never
\* left without a wake-up, whatever else happens (sremfb_xmit_kick, the disarm
\* of on_out_ready, retry_cb).
THEOREM AlwaysArmed == Spec => []ArmedUntilFailure
<1>1. WireAll => ArmedUntilFailure
  BY DEF WireAll, Armed, ArmedUntilFailure, WorkArmed
<1> QED
  BY WireInit, WireStep, <1>1, PTL DEF Spec

\* Until a mode set in mid-stream the wire keeps to PROTOCOL.md: one hello,
\* before everything else, episodes from an IDR to an EOS, for queues of any
\* length and however the controller switches.
THEOREM AlwaysInOrder == Spec => []GreetedInOrder
<1>1. WireAll => GreetedInOrder
  <2> SUFFICES ASSUME WireAll, FirstMode PROVE GreetedInOrder
    BY DEF GreetedInOrder, WireOrder, HelloKept
  <2> DEFINE q == DeliverFrame(peer, c.out)
  <2>1. Wire(c, peer)
    BY DEF WireAll, WireInv
  <2>2. ~peer.garbled /\ Idle(c, peer) /\ Greeting(c, q)
    BY <2>1 DEF Wire
  <2>3. c.out \in Frames \cup {NoFrame} /\ peer \in PeerType /\ c.outq \in Seq(Ctrls)
    BY DEF WireAll, Inv, TypeOK, ClientType
  <2>4. q.greeted = peer.greeted /\ (peer.misordered => q.misordered)
    <3>1. CASE c.out = NoFrame
      BY <3>1, NothingDelivered
    <3>2. CASE c.out \in Frames
      BY <3>2, <2>2, <2>3, Delivered
    <3> QED
      BY <3>1, <3>2, <2>3
  <2> HIDE DEF q
  <2>5. WireOrder
    BY <2>2, <2>4 DEF WireOrder, Idle, Greeting
  <2>6. HelloKept
    <3> SUFFICES ASSUME c.state = "STREAMING", ~c.lost, ~peer.greeted
                 PROVE  \E i \in DOMAIN c.outq : c.outq[i] = "HELLO"
      BY DEF HelloKept
    <3>1. c.outq # <<>> /\ c.outq[1] = "HELLO"
      BY <2>2, <2>4 DEF Greeting
    <3>2. 1 \in DOMAIN c.outq
      BY <3>1, <2>3, Shortened
    <3> QED
      BY <3>1, <3>2
  <2> QED
    BY <2>5, <2>6 DEF GreetedInOrder
<1> QED
  BY WireInit, WireStep, <1>1, PTL DEF Spec

\* Every ping the watchdog of ping_tick counts on is queued or on its way
\* back, through mode sets, failures and reconnections: sremfb_xmit_reset
\* forgets the pings it drops.
THEOREM AlwaysAnswerable == Spec => []PingsAnswerable
<1>1. PingsAnswerable <=> Answerable(c.pings, c.outq, peer)
  BY DEF PingsAnswerable, Answerable, PingsOf
<1>2. Init => Inv /\ PingsAnswerable
  <2> SUFFICES ASSUME Init PROVE PingsAnswerable
    BY InvInit
  <2>1. c.pings = 0 /\ c.outq \in Seq(Ctrls) /\ peer.pongs \in Nat
    BY DEF Init, NewClient, NewPeer
  <2> QED
    BY <2>1, <1>1, PingsFinite DEF Answerable
<1>3. Inv /\ PingsAnswerable /\ [Next]_vars => (Inv /\ PingsAnswerable)'
  <2> SUFFICES ASSUME Inv, PingsAnswerable, [Next]_vars PROVE Inv' /\ PingsAnswerable'
    OBVIOUS
  <2>1. Inv'
    BY InvNext
  <2>2. Answerable(c'.pings, c'.outq, peer')
    BY <2>1, <1>1, PingsNext
  <2> QED
    BY <2>1, <2>2 DEF PingsAnswerable, Answerable, PingsOf
<1> QED
  BY <1>2, <1>3, PTL DEF Spec

\* What a drained client looks like.
LEMMA WhenDrained ==
  ASSUME PanelAll, FirstMode, Drained
  PROVE  /\ c.grabbed => /\ Diff(peer.screen, c.grabbuf) \subseteq peer.blind
                         /\ Diff(peer.screen, c.shadowbuf) \subseteq peer.blind
         /\ c.xmit_mode = "RAW" => Cells \ peer.exact \subseteq peer.blind
         /\ dpms /\ ~c.lost /\ peer.blank => Diff(peer.screen, BlackImage) \subseteq peer.blind
<1>1. /\ c.state = "STREAMING" /\ c.out = NoFrame /\ c.outq = <<>> /\ c.dirty = <<>>
      /\ ~c.dirty_all
  BY DEF Drained, Pending
<1>2. Shown(c, peer) /\ Lit(c, peer, dpms)
  BY <1>1, NothingDelivered DEF PanelAll, PanelInv, Panel
<1>3. Region(c) = {}
  BY <1>1 DEF Region
<1>4. \A x \in Cells \ peer.blind :
        c.shadowbuf[x] = peer.screen[x] /\ (c.xmit_mode = "RAW" => x \in peer.exact)
  BY <1>1, <1>2, <1>3 DEF Shown
<1>5. c.grabbed => \A x \in Cells : c.grabbuf[x] = c.shadowbuf[x]
  BY <1>3 DEF PanelAll, WireAll, Inv, DamageCovered, Diff
<1>6. dpms /\ ~c.lost /\ peer.blank => Dark(peer)
  BY <1>1, <1>2 DEF Lit
<1> QED
  BY <1>4, <1>5, <1>6 DEF Dark, Diff, BlackImage

\* Once everything is sent the panel shows the desktop, to the pixel in RAW
\* mode, for every geometry, queue and history of modes (sremfb_xmit_damage,
\* build_next, sremfb_xmit_set_mode), save the pixels that a panel without power
\* control painted black, or that it kept from an earlier connection (peer.blind).
THEOREM AlwaysPixelExact == Spec => []PixelExact
<1>1. Init => PanelAll
  BY WireInit DEF PanelAll
<1>2. PanelAll => PixelExact
  BY WhenDrained DEF PixelExact
<1> QED
  BY <1>1, <1>2, PanelStep, PTL DEF Spec

\* shadowbuf is what the client last got (core.h): whenever nothing is on its
\* way, the panel holds it, save the pixels in peer.blind.
THEOREM ShadowAlwaysScreen == Spec => []ShadowIsScreen
<1>1. Init => PanelAll
  BY WireInit DEF PanelAll
<1>2. PanelAll => ShadowIsScreen
  BY WhenDrained DEF ShadowIsScreen
<1> QED
  BY <1>1, <1>2, PanelStep, PTL DEF Spec

\* A drained client is lit when its connector is, and shows the desktop
\* (on_dpms, set_blank, build_h264_frame after a failed encode), save the pixels
\* in peer.blind.
THEOREM PanelAlwaysRight == Spec => []PanelRight
<1>1. Init => PanelAll
  BY WireInit DEF PanelAll
<1>2. PanelAll => PanelRight
  BY WhenDrained DEF PanelRight, PanelOn, PixelExact
<1> QED
  BY <1>1, <1>2, PanelStep, PTL DEF Spec
=============================================================================
