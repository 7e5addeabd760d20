-------------------------------- MODULE Xmit --------------------------------
(***************************************************************************)
(* The per-client transmit path of the server: server/core/xmit.c, with    *)
(* the callers that drive it: the EVDI source (grabs, cursor, mode sets,   *)
(* DPMS), the pressure controller (pings, mode switches) and the teardown. *)
(*                                                                         *)
(* The server is a single-threaded GLib loop, so one action is one         *)
(* dispatched callback.  The fields of struct SremfbClient that xmit.c     *)
(* touches form the record c, and the C functions the callbacks call are   *)
(* operators from such a record to a record, or to the set of records the  *)
(* call may leave behind when it takes a decision (a threshold, a timer,   *)
(* the outcome of a library call) that the model leaves open.              *)
(*                                                                         *)
(* peer is the far end of the TCP stream: what the client shows once it    *)
(* has applied every byte the socket accepted (client/sremfb-client.c,     *)
(* frame_loop).  TCP keeps the order, so nothing is lost by applying a     *)
(* message when its last byte is accepted.                                 *)
(***************************************************************************)
EXTENDS Integers, Sequences, FiniteSetsExt

CONSTANTS
  W, H,          \* stream geometry in pixels (c->geom)
  Pix,           \* pixel values
  Black,         \* the all-zero pixel
  DamageRects,   \* rectangles the source may report, clamped or not
  DirtyMax,      \* XMIT_DIRTY_MAX (16 in the code)
  PingsMax,      \* PINGS_MAX_FLIGHT (4 in the code)
  MaxQueue,      \* bound: no new BLANK, UNBLANK or EOS beyond this queue
  MaxRemodes,    \* bound on mode sets that arrive while streaming
  Env,           \* which of "dpms", "reconnect" the environment does
  Feedback,      \* the client echoes pings (hello flag)
  H264Cap,       \* the client decodes H.264 and SREMFB_NO_H264 is unset
  EncResults,    \* what sremfb_enc_encode may return: "AU", "error" (a
                 \* zero-latency x264 never returns an empty access unit)
  BlankClears    \* the panel cannot power down: blanking paints it black

ASSUME GeomAssumption == W \in Nat \ {0} /\ H \in Nat \ {0}
ASSUME PixAssumption == Black \in Pix
ASSUME RectsAssumption ==
  DamageRects \subseteq [x1 : Int, y1 : Int, x2 : Int, y2 : Int]
ASSUME BoundAssumption ==
  /\ DirtyMax \in Nat \ {0}
  /\ PingsMax \in Nat \ {0}
  /\ MaxQueue \in Nat \ {0}
  /\ MaxRemodes \in Nat
ASSUME FlagAssumption ==
  /\ Feedback \in BOOLEAN
  /\ H264Cap \in BOOLEAN
  /\ BlankClears \in BOOLEAN
  /\ EncResults \subseteq {"AU", "error"}
  /\ Env \subseteq {"dpms", "reconnect"}

VARIABLES
  c,             \* the client's transmit state (struct SremfbClient)
  peer,          \* the client at the other end of the stream
  dpms,          \* the compositor's power state of the connector
  remodes        \* mode sets seen while streaming

vars == <<c, peer, dpms, remodes>>

(***************************************************************************)
(* Rectangles: [x1,x2) x [y1,y2), struct sremfb_rect.                      *)
(***************************************************************************)
Cells == (0 .. W - 1) \X (0 .. H - 1)

Rect == [x1 : 0 .. W, y1 : 0 .. H, x2 : 0 .. W, y2 : 0 .. H]

\* The pixels of a rectangle.
CellsOf(r) ==
  {p \in Cells : /\ r.x1 <= p[1] /\ p[1] < r.x2
                 /\ r.y1 <= p[2] /\ p[2] < r.y2}

FullRect == [x1 |-> 0, y1 |-> 0, x2 |-> W, y2 |-> H]

\* Both sides of the comparison are inclusive: adjacent rectangles touch.
RectsTouch(a, b) ==
  /\ a.x1 <= b.x2 /\ b.x1 <= a.x2
  /\ a.y1 <= b.y2 /\ b.y1 <= a.y2

RectUnion(a, b) ==
  [x1 |-> Min({a.x1, b.x1}), y1 |-> Min({a.y1, b.y1}),
   x2 |-> Max({a.x2, b.x2}), y2 |-> Max({a.y2, b.y2})]

\* Mutant: the box leaves out the rectangle that overflowed the list.
BoundingBoxOld(dirty, r) ==
  LET rs == {dirty[i] : i \in DOMAIN dirty}
  IN  [x1 |-> Min({s.x1 : s \in rs}), y1 |-> Min({s.y1 : s \in rs}),
       x2 |-> Max({s.x2 : s \in rs}), y2 |-> Max({s.y2 : s \in rs})]

\* The overflow path: one box around all the rectangles kept, and r.
BoundingBox(dirty, r) ==
  LET rs == {dirty[i] : i \in DOMAIN dirty} \cup {r}
  IN  [x1 |-> Min({s.x1 : s \in rs}), y1 |-> Min({s.y1 : s \in rs}),
       x2 |-> Max({s.x2 : s \in rs}), y2 |-> Max({s.y2 : s \in rs})]

Clamp(v, hi) == IF v < 0 THEN 0 ELSE IF v > hi THEN hi ELSE v

ClampRect(r) ==
  [x1 |-> Clamp(r.x1, W), y1 |-> Clamp(r.y1, H),
   x2 |-> Clamp(r.x2, W), y2 |-> Clamp(r.y2, H)]

(***************************************************************************)
(* State.                                                                  *)
(***************************************************************************)
Ctrls == {"HELLO", "PING", "BLANK", "UNBLANK", "EOS"}

Image == [Cells -> Pix]

BlackImage == [p \in Cells |-> Black]

Frames ==
  [encoding : {"RAW", "H264"}, rect : Rect, pix : Image, idr : BOOLEAN]

NoFrame ==
  [encoding |-> "none", rect |-> FullRect, pix |-> BlackImage, idr |-> FALSE]

\* out # NoFrame is out_active; out_off and outq_off are TRUE once some, but
\* not all, bytes of the frame (of the head of outq) went out.  lost,
\* out_watch and out_retry stand for lost_id, out_watch_id and out_retry_id
\* being set.  enc says that the encoder is open, grabbed that the source
\* filled the present grabbuf (it is malloc'ed, not cleared, on a mode set).
ClientType ==
  [state : {"GONE", "MODE_WAIT", "STREAMING"},
   lost : BOOLEAN, out_watch : BOOLEAN, out_retry : BOOLEAN,
   outq : Seq(Ctrls), outq_off : BOOLEAN,
   out : Frames \cup {NoFrame}, out_off : BOOLEAN,
   dirty : Seq(Rect), dirty_all : BOOLEAN,
   xmit_mode : {"RAW", "H264"}, enc : BOOLEAN,
   h264_failed : BOOLEAN, force_idr : BOOLEAN,
   ctl_state : {"RAW_STEADY", "RAW_SUSPECT", "H264_ACTIVE", "H264_COOLDOWN"},
   pings : Nat, grabbuf : Image, shadowbuf : Image, grabbed : BOOLEAN]

\* screen is what the panel memory holds, exact the pixels that did not come
\* out of the lossy decoder, episode that the decoder is being fed, pongs the
\* echoes on their way back.  misordered records a breach of the ordering
\* rules of PROTOCOL.md, garbled a message cut short in mid-stream, blind the
\* pixels the panel painted black, or kept from an earlier connection, when no
\* frame has come for them since: the server is told of neither.
PeerType ==
  [greeted : BOOLEAN, episode : BOOLEAN, blank : BOOLEAN, pongs : Nat,
   screen : Image, exact : SUBSET Cells, blind : SUBSET Cells,
   misordered : BOOLEAN, garbled : BOOLEAN]

\* g_new0(SremfbClient) plus sremfb_evdi_plug: the connector waits for a mode.
NewClient ==
  [state |-> "MODE_WAIT", lost |-> FALSE,
   out_watch |-> FALSE, out_retry |-> FALSE,
   outq |-> <<>>, outq_off |-> FALSE, out |-> NoFrame, out_off |-> FALSE,
   dirty |-> <<>>, dirty_all |-> FALSE,
   xmit_mode |-> "RAW", enc |-> FALSE,
   h264_failed |-> FALSE, force_idr |-> FALSE,
   ctl_state |-> "RAW_STEADY", pings |-> 0,
   grabbuf |-> BlackImage, shadowbuf |-> BlackImage, grabbed |-> FALSE]

\* The client process starts with a cleared, blanked panel.
NewPeer ==
  [greeted |-> FALSE, episode |-> FALSE, blank |-> TRUE, pongs |-> 0,
   screen |-> BlackImage, exact |-> Cells, blind |-> {},
   misordered |-> FALSE, garbled |-> FALSE]

(***************************************************************************)
(* Arming, the control queue and the dirty region.                         *)
(***************************************************************************)
Pending(d) ==
  d.out # NoFrame \/ d.outq # <<>> \/ d.dirty # <<>> \/ d.dirty_all

Kick(d) ==
  IF d.lost \/ ~Pending(d) THEN d ELSE [d EXCEPT !.out_watch = TRUE]

\* Mutant: the message is queued but nobody is woken.
XmitCtrlNoKick(d, m) ==
  IF d.lost THEN d ELSE [d EXCEPT !.outq = Append(@, m)]

XmitCtrl(d, m) ==
  IF d.lost THEN d ELSE Kick([d EXCEPT !.outq = Append(@, m)])

\* Mutant: <= for < in the room test of the array.
DirtyAddOverfull(d, r) ==
  LET touching == {i \in DOMAIN d.dirty : RectsTouch(d.dirty[i], r)}
  IN  CASE d.dirty_all -> d
        [] ~d.dirty_all /\ touching # {} ->
             [d EXCEPT !.dirty[Min(touching)] = RectUnion(@, r)]
        [] ~d.dirty_all /\ touching = {} /\ Len(d.dirty) <= DirtyMax ->
             [d EXCEPT !.dirty = Append(@, r)]
        [] OTHER -> [d EXCEPT !.dirty = <<BoundingBox(@, r)>>]

DirtyAdd(d, r) ==
  LET touching == {i \in DOMAIN d.dirty : RectsTouch(d.dirty[i], r)}
  IN  CASE d.dirty_all -> d
        [] ~d.dirty_all /\ touching # {} ->
             [d EXCEPT !.dirty[Min(touching)] = RectUnion(@, r)]
        [] ~d.dirty_all /\ touching = {} /\ Len(d.dirty) < DirtyMax ->
             [d EXCEPT !.dirty = Append(@, r)]
        [] OTHER -> [d EXCEPT !.dirty = <<BoundingBox(@, r)>>]

\* The rows of r in which grabbuf differs from shadowbuf.
ChangedRows(d, r) ==
  {y \in 0 .. H - 1 :
     \E p \in CellsOf(r) : p[2] = y /\ d.grabbuf[p] # d.shadowbuf[p]}

\* Mutant: the last changed row is cut off.
RectTrimShort(d, r) ==
  [r EXCEPT !.y1 = Min(ChangedRows(d, r)), !.y2 = Max(ChangedRows(d, r))]

\* rect_trim: r from its first to its last changed row.
RectTrim(d, r) ==
  [r EXCEPT !.y1 = Min(ChangedRows(d, r)), !.y2 = Max(ChangedRows(d, r)) + 1]

\* One turn of the loop of sremfb_xmit_damage.  A rectangle the clamp
\* empties has no changed row either.
AddDamage(d, raw) ==
  LET r == ClampRect(raw)
  IN  CASE ChangedRows(d, r) = {} -> d
        [] ChangedRows(d, r) # {} /\ d.xmit_mode = "H264" ->
             [d EXCEPT !.dirty_all = TRUE]
        [] OTHER -> DirtyAdd(d, RectTrim(d, r))

(***************************************************************************)
(* Mode switches and the controller that asks for them.                    *)
(***************************************************************************)
H264Allowed(d) == H264Cap /\ Feedback /\ ~d.h264_failed

\* Mutant: the new episode does not ask for an IDR.
SetModeH264NoIdr(d) ==
  IF d.state # "STREAMING" \/ d.xmit_mode = "H264" THEN {d}
  ELSE {[d EXCEPT !.enc = TRUE, !.xmit_mode = "H264", !.dirty = <<>>,
                  !.dirty_all = d.dirty # <<>> \/ d.dirty_all]}

\* sremfb_xmit_set_mode(H264).  Opening the encoder may fail.
SetModeH264(d) ==
  LET switched == [d EXCEPT !.enc = TRUE, !.force_idr = TRUE,
                            !.xmit_mode = "H264", !.dirty = <<>>,
                            !.dirty_all = d.dirty # <<>> \/ d.dirty_all]
      failed == [d EXCEPT !.h264_failed = TRUE]
  IN  IF d.state # "STREAMING" \/ d.xmit_mode = "H264" THEN {d}
      ELSE IF d.enc THEN {switched} ELSE {switched, failed}

\* sremfb_xmit_set_mode(RAW): EOS, then a full snapshot.
SetModeRaw(d) ==
  IF d.state # "STREAMING" \/ d.xmit_mode = "RAW" THEN d
  ELSE Kick([XmitCtrl([d EXCEPT !.xmit_mode = "RAW"], "EOS")
               EXCEPT !.dirty = <<>>, !.dirty_all = TRUE])

\* The steps of ctl_evaluate that switch nothing.
CtlMoves ==
  {<<"RAW_STEADY", "RAW_SUSPECT">>, <<"RAW_SUSPECT", "RAW_STEADY">>,
   <<"H264_ACTIVE", "H264_COOLDOWN">>, <<"H264_COOLDOWN", "H264_ACTIVE">>}

EnterH264(d) ==
  IF d.ctl_state = "RAW_SUSPECT" /\ H264Allowed(d)
  THEN {[e EXCEPT !.ctl_state = IF e.xmit_mode = "H264"
                                THEN "H264_ACTIVE" ELSE "RAW_STEADY"] :
          e \in SetModeH264(d)}
  ELSE {}

LeaveH264(d) ==
  IF d.ctl_state = "H264_COOLDOWN" /\ Len(d.outq) < MaxQueue
  THEN {[SetModeRaw(d) EXCEPT !.ctl_state = "RAW_STEADY"]}
  ELSE {}

\* ctl_evaluate, for a client with feedback: delays, rates and calm streaks
\* are left out, so every decision it could take is possible.
CtlEvaluate(d) ==
  IF ~Feedback THEN {d}
  ELSE {d} \cup EnterH264(d) \cup LeaveH264(d)
       \cup {[d EXCEPT !.ctl_state = m[2]] :
               m \in {n \in CtlMoves : n[1] = d.ctl_state}}

(***************************************************************************)
(* Frame builds.                                                           *)
(***************************************************************************)
ShadowUpdate(d, r) ==
  [p \in Cells |-> IF p \in CellsOf(r) THEN d.grabbuf[p] ELSE d.shadowbuf[p]]

\* frame_start: the controller hears of the delivery and may switch modes.
FrameStart(d, f) == CtlEvaluate([d EXCEPT !.out = f, !.out_off = FALSE])

\* Mutant: shadow_update is forgotten.
BuildRawRectUnnoted(d, r) ==
  FrameStart(d, [encoding |-> "RAW", rect |-> r, pix |-> ShadowUpdate(d, r), idr |-> FALSE])

\* The payload is the part of pix inside rect, the one shadow_update copies.
BuildRawRect(d, r) ==
  LET shown == ShadowUpdate(d, r)
  IN  FrameStart([d EXCEPT !.shadowbuf = shown],
                 [encoding |-> "RAW", rect |-> r, pix |-> shown, idr |-> FALSE])

\* shadowbuf is updated before the encoder is asked, whatever it answers.
BuildH264Frame(d) ==
  LET shown == [d EXCEPT !.shadowbuf = ShadowUpdate(d, FullRect),
                         !.force_idr = FALSE]
      au == [encoding |-> "H264", rect |-> FullRect, pix |-> d.grabbuf,
             idr |-> d.force_idr]
  IN  (IF "AU" \in EncResults THEN FrameStart(shown, au) ELSE {})
      \cup (IF "error" \in EncResults
            THEN {SetModeRaw([shown EXCEPT !.h264_failed = TRUE])} ELSE {})

\* build_next.  Under pressure sremfb_ctl_skip_encode defers an encode to
\* retry_cb; without feedback there is no delay estimate and no skip.
BuildNext(d) ==
  LET clean == [d EXCEPT !.dirty = <<>>, !.dirty_all = FALSE]
  IN  CASE d.state # "STREAMING" \/ (d.dirty = <<>> /\ ~d.dirty_all) -> {d}
        [] d.state = "STREAMING" /\ d.xmit_mode = "H264"
             /\ (d.dirty # <<>> \/ d.dirty_all) ->
             {[d EXCEPT !.out_retry = TRUE]} \cup BuildH264Frame(clean)
        [] d.state = "STREAMING" /\ d.xmit_mode = "RAW" /\ d.dirty_all ->
             BuildRawRect(clean, FullRect)
        [] OTHER -> BuildRawRect([d EXCEPT !.dirty = Tail(@)], Head(d.dirty))

\* Step 3 of on_out_ready: one build per pass, disarm when none is due.
BuildOrDisarm(d) ==
  {IF e.out # NoFrame THEN e ELSE [e EXCEPT !.out_watch = FALSE] :
     e \in BuildNext(d)}

\* Mutant: the pings of the dropped queue stay outstanding.
ResetKeepsPings(d) ==
  [d EXCEPT !.out_watch = FALSE, !.out_retry = FALSE,
            !.outq = <<>>, !.outq_off = FALSE,
            !.out = NoFrame, !.out_off = FALSE,
            !.dirty = <<>>, !.dirty_all = FALSE]

\* Mutant: the watch goes, the dirty region stays.
ResetKeepsDirty(d) ==
  [d EXCEPT !.out_watch = FALSE, !.out_retry = FALSE,
            !.outq = <<>>, !.outq_off = FALSE,
            !.out = NoFrame, !.out_off = FALSE, !.pings = 0]

\* sremfb_xmit_reset.
Reset(d) ==
  [d EXCEPT !.out_watch = FALSE, !.out_retry = FALSE,
            !.outq = <<>>, !.outq_off = FALSE,
            !.out = NoFrame, !.out_off = FALSE,
            !.dirty = <<>>, !.dirty_all = FALSE, !.pings = 0]

(***************************************************************************)
(* The far end: one turn of frame_loop on a complete message.              *)
(***************************************************************************)
\* Pixels that differ between two images.
Diff(a, b) == {p \in Cells : a[p] # b[p]}

\* set_blank: nothing happens when the panel already is in that state.
SetBlank(p, on) ==
  IF on /\ ~p.blank /\ BlankClears
  THEN [p EXCEPT !.blank = on, !.screen = BlackImage, !.exact = Cells,
                 !.blind = @ \cup Diff(p.screen, BlackImage)]
  ELSE [p EXCEPT !.blank = on]

\* What a panel that loses its server keeps of the picture.
Leftover(p) == Diff(p.screen, BlackImage) \cup (Cells \ p.exact)

Deliver(p, m) ==
  LET q == [p EXCEPT !.misordered = @ \/ ((m = "HELLO") = p.greeted)]
  IN  CASE p.garbled -> p
        [] ~p.garbled /\ m = "HELLO" -> [q EXCEPT !.greeted = TRUE]
        [] ~p.garbled /\ m = "PING" -> [q EXCEPT !.pongs = @ + 1]
        [] ~p.garbled /\ m = "EOS" -> [q EXCEPT !.episode = FALSE]
        [] OTHER -> SetBlank(q, m = "BLANK")

\* A rectangle lands on the panel, which is switched on.  An access unit
\* must start its episode with an IDR; a RAW rectangle must not cut one.
DeliverFrame(p, f) ==
  LET wrong == IF f.encoding = "H264" THEN ~p.episode /\ ~f.idr ELSE p.episode
      area == CellsOf(f.rect)
      shown == [x \in Cells |-> IF x \in area THEN f.pix[x] ELSE p.screen[x]]
  IN  IF p.garbled \/ f = NoFrame THEN p
      ELSE [p EXCEPT !.misordered = @ \/ ~p.greeted \/ wrong,
                     !.episode = f.encoding = "H264",
                     !.screen = shown, !.blank = FALSE, !.blind = @ \ area,
                     !.exact = IF f.encoding = "H264" THEN @ \ area
                               ELSE @ \cup area]

(***************************************************************************)
(* The EVDI source.                                                        *)
(***************************************************************************)
Live == c.state # "GONE"

\* on_mode_changed before the frame arrives: everything in flight is
\* dropped, the buffers are rebuilt; grabbuf holds whatever malloc returned.
Rebuilt(d, resized, junk) ==
  LET e == [Reset(d) EXCEPT !.grabbuf = junk, !.shadowbuf = BlackImage,
                            !.grabbed = FALSE]
  IN  IF resized /\ e.enc THEN [e EXCEPT !.enc = FALSE, !.xmit_mode = "RAW"]
      ELSE e

\* The first mode set of a connection: hello, then STREAMING (ctl_start).
ModeSet(junk) ==
  /\ c.state = "MODE_WAIT"
  /\ c' = [XmitCtrl(Rebuilt(c, FALSE, junk), "HELLO")
             EXCEPT !.state = "STREAMING", !.xmit_mode = "RAW",
                    !.ctl_state = "RAW_STEADY", !.pings = 0]
  /\ dpms' = TRUE
  /\ UNCHANGED <<peer, remodes>>

\* A mode set while streaming (a wake-up from power save sets the same mode
\* again): no hello, and a message half on the wire stays half sent.
Remode(resized, junk) ==
  /\ c.state = "STREAMING"
  /\ remodes < MaxRemodes
  /\ c' = Rebuilt(c, resized, junk)
  /\ peer' = [peer EXCEPT !.garbled = @ \/ c.out_off \/ c.outq_off]
  /\ remodes' = remodes + 1
  /\ UNCHANGED dpms

\* sremfb_xmit_damage for two rectangles (MAX_GRAB_RECTS is larger; more
\* rectangles repeat AddDamage), once grabbuf has been written.
XmitDamage(d, r1, r2) ==
  LET e == AddDamage(AddDamage(d, r1), r2)
      changed == ChangedRows(d, ClampRect(r1)) \cup ChangedRows(d, ClampRect(r2))
  IN  IF changed = {} THEN {d} ELSE {Kick(f) : f \in CtlEvaluate(e)}

\* grab_and_send: the kernel rewrites the rectangles it reports, and reports
\* the whole screen first after a mode set.
Grab(r1, r2, image) ==
  /\ c.state = "STREAMING"
  /\ ~c.grabbed => CellsOf(ClampRect(r1)) = Cells
  /\ c.grabbed => Diff(c.grabbuf, image) \subseteq
                    CellsOf(ClampRect(r1)) \cup CellsOf(ClampRect(r2))
  /\ c' \in XmitDamage([c EXCEPT !.grabbuf = image, !.grabbed = TRUE], r1, r2)
  /\ UNCHANGED <<peer, dpms, remodes>>

\* cursor_repaint: the cursor is lifted from r1 and drawn in r2, on top of
\* whatever grabbuf holds; nothing is reported for a client about to go.
CursorRepaint(r1, r2, image) ==
  /\ c.state = "STREAMING" /\ ~c.lost
  /\ Diff(c.grabbuf, image) \subseteq
       CellsOf(ClampRect(r1)) \cup CellsOf(ClampRect(r2))
  /\ c' \in XmitDamage([c EXCEPT !.grabbuf = image], r1, r2)
  /\ UNCHANGED <<peer, dpms, remodes>>

\* Mutant: a power event is not queued behind another message.
DpmsUnqueued(on) ==
  /\ "dpms" \in Env
  /\ c.state = "STREAMING"
  /\ dpms # on
  /\ dpms' = on
  /\ c' = IF c.outq # <<>> THEN c
          ELSE XmitCtrl(c, IF on THEN "UNBLANK" ELSE "BLANK")
  /\ UNCHANGED <<peer, remodes>>

\* on_dpms and send_ctrl, which ignores a client that does not stream yet: a
\* mode set powers the connector on.
Dpms(on) ==
  /\ "dpms" \in Env
  /\ c.state = "STREAMING"
  /\ dpms # on
  /\ Len(c.outq) < MaxQueue
  /\ dpms' = on
  /\ c' = XmitCtrl(c, IF on THEN "UNBLANK" ELSE "BLANK")
  /\ UNCHANGED <<peer, remodes>>

(***************************************************************************)
(* on_out_ready, split where the socket may stop taking bytes: a pass that *)
(* sends several messages is several steps, between which EAGAIN could     *)
(* have ended it in the same state.                                        *)
(***************************************************************************)
\* Step 1 completed: the frame in flight, if any, is out.
FrameOut(d) == [d EXCEPT !.out = NoFrame, !.out_off = FALSE]

\* EAGAIN inside the frame.
FrameBlocked ==
  /\ c.out_watch /\ c.out # NoFrame
  /\ c' = [c EXCEPT !.out_off = TRUE]
  /\ UNCHANGED <<peer, dpms, remodes>>

\* The frame is out, EAGAIN inside the next control message.
CtrlBlocked(partial) ==
  /\ c.out_watch /\ c.outq # <<>>
  /\ c' = [FrameOut(c) EXCEPT !.outq_off = @ \/ partial]
  /\ peer' = DeliverFrame(peer, c.out)
  /\ UNCHANGED <<dpms, remodes>>

\* A control message is out; after the last one, a frame is built.
CtrlSent ==
  /\ c.out_watch /\ c.outq # <<>>
  /\ LET d == [FrameOut(c) EXCEPT !.outq = Tail(@), !.outq_off = FALSE]
     IN  c' \in IF d.outq # <<>> THEN {d} ELSE BuildOrDisarm(d)
  /\ peer' = Deliver(DeliverFrame(peer, c.out), Head(c.outq))
  /\ UNCHANGED <<dpms, remodes>>

\* Nothing queued: the frame is out and the next one is built.
FrameSent ==
  /\ c.out_watch /\ c.outq = <<>>
  /\ c' \in BuildOrDisarm(FrameOut(c))
  /\ peer' = DeliverFrame(peer, c.out)
  /\ UNCHANGED <<dpms, remodes>>

\* ERR, HUP or a failed send: xmit_fail, sremfb_schedule_client_lost.
SendFailed ==
  /\ c.out_watch
  /\ c' = [c EXCEPT !.out_watch = FALSE, !.lost = TRUE]
  /\ UNCHANGED <<peer, dpms, remodes>>

RetryCb ==
  /\ c.out_retry
  /\ c' = Kick([c EXCEPT !.out_retry = FALSE])
  /\ UNCHANGED <<peer, dpms, remodes>>

(***************************************************************************)
(* Pings.                                                                  *)
(***************************************************************************)
SendPing(d) == [XmitCtrl(d, "PING") EXCEPT !.pings = @ + 1]

\* The guard of ping_tick, and of its timer.
PingsRun == Feedback /\ c.state = "STREAMING" /\ ~c.lost

\* ping_tick with something on the wire since the last ping.
PingTickBusy ==
  /\ PingsRun /\ c.pings < PingsMax
  /\ c' = SendPing(c)
  /\ UNCHANGED <<peer, dpms, remodes>>

\* ping_tick on a silent link: the estimates decay, a heartbeat may be due.
PingTickIdle(beat) ==
  /\ PingsRun
  /\ \E d \in CtlEvaluate(c) :
       c' = IF beat /\ d.pings < PingsMax THEN SendPing(d) ELSE d
  /\ UNCHANGED <<peer, dpms, remodes>>

\* The watchdog of ping_tick: pings in flight and no echo for PONG_DEAD_US.
PingDead ==
  /\ PingsRun /\ c.pings > 0
  /\ c' = [c EXCEPT !.lost = TRUE]
  /\ UNCHANGED <<peer, dpms, remodes>>

\* sremfb_ctl_on_pong.
Pong ==
  /\ Live /\ peer.pongs > 0
  /\ peer' = [peer EXCEPT !.pongs = @ - 1]
  /\ c' \in CtlEvaluate([c EXCEPT !.pings = IF @ > 0 THEN @ - 1 ELSE 0])
  /\ UNCHANGED <<dpms, remodes>>

(***************************************************************************)
(* Connections.                                                            *)
(***************************************************************************)
\* sremfb_client_lost: the deferred teardown, or EOF seen by on_client_io.
ClientLost ==
  /\ Live
  /\ c' = [NewClient EXCEPT !.state = "GONE"]
  /\ LET off == SetBlank(peer, TRUE)
     IN  peer' = [off EXCEPT !.greeted = FALSE, !.episode = FALSE, !.pongs = 0,
                             !.garbled = FALSE, !.misordered = FALSE,
                             !.blind = Leftover(off)]
  /\ UNCHANGED <<dpms, remodes>>

\* The client reconnects; its panel memory is not cleared.
Connect ==
  /\ "reconnect" \in Env
  /\ ~Live
  /\ c' = NewClient
  /\ UNCHANGED <<peer, dpms, remodes>>

Init ==
  /\ c = NewClient
  /\ peer = NewPeer
  /\ dpms = TRUE
  /\ remodes = 0

Next ==
  \/ \E junk \in Image : ModeSet(junk)
  \/ \E resized \in BOOLEAN, junk \in Image : Remode(resized, junk)
  \/ \E r1, r2 \in DamageRects, image \in Image :
       Grab(r1, r2, image) \/ CursorRepaint(r1, r2, image)
  \/ \E on \in BOOLEAN : Dpms(on)
  \/ FrameBlocked
  \/ \E partial \in BOOLEAN : CtrlBlocked(partial)
  \/ CtrlSent
  \/ FrameSent
  \/ SendFailed
  \/ RetryCb
  \/ PingTickBusy
  \/ \E beat \in BOOLEAN : PingTickIdle(beat)
  \/ PingDead
  \/ Pong
  \/ ClientLost
  \/ Connect

Spec == Init /\ [][Next]_vars

\* A pass of on_out_ready that comes to step 3 and builds what is due.  The
\* alternative there, sremfb_ctl_skip_encode, holds for at most 1/FPS_MIN s.
BuildPass ==
  /\ FrameSent \/ (CtrlSent /\ Len(c.outq) = 1)
  /\ c'.out # NoFrame \/ ~Pending(c')

\* The client keeps reading and echoing (one that does not is dropped by the
\* watchdog); a pass empties the queue as long as the socket takes bytes,
\* and pings are too few to keep it filled; timers and watches run.
Fairness ==
  /\ WF_vars(CtrlSent)
  /\ SF_vars(BuildPass)
  /\ WF_vars(RetryCb)
  /\ WF_vars(PingTickBusy)
  /\ WF_vars(Pong)

FairSpec == Spec /\ Fairness

(***************************************************************************)
(* Properties.                                                             *)
(***************************************************************************)
Drained == c.state = "STREAMING" /\ ~Pending(c)

\* The pixels some pending rectangle will repaint.
Region(d) ==
  IF d.dirty_all THEN Cells
  ELSE UNION {CellsOf(d.dirty[i]) : i \in DOMAIN d.dirty}

\* The fields of the client and of the peer keep their types, the dirty list
\* its capacity (the array dirty[16]) and the pings their cap.
TypeOK ==
  /\ c \in ClientType
  /\ Len(c.dirty) <= DirtyMax
  /\ c.pings <= PingsMax
  /\ peer \in PeerType
  /\ dpms \in BOOLEAN
  /\ remodes \in 0 .. MaxRemodes

\* No damage is forgotten (xmit_damage, rect_trim, dirty_add, build_next): a
\* pixel of grabbuf that differs from what was last sent is in the pending
\* region, whatever was trimmed, merged or collapsed meanwhile.
DamageCovered ==
  c.grabbed => Diff(c.grabbuf, c.shadowbuf) \subseteq Region(c)

\* A mode set in mid-stream drops the queue and forgets what the client shows,
\* and no hello follows; what it breaks is left out below by FirstMode.
FirstMode == remodes = 0

\* Once the queue is empty the panel shows the desktop, and in RAW mode no
\* pixel of it is left over from the lossy decoder (sremfb_xmit_set_mode:
\* the snapshot after an episode makes the screen pixel-exact), save what the
\* panel itself painted black or kept over a reconnection.
PixelExact ==
  FirstMode /\ Drained /\ c.grabbed =>
    /\ Diff(peer.screen, c.grabbuf) \subseteq peer.blind
    /\ c.xmit_mode = "RAW" => Cells \ peer.exact \subseteq peer.blind

\* shadowbuf is "what the client last got" (core.h): when nothing is on its
\* way, it is what the panel holds, save the same pixels.
ShadowIsScreen ==
  FirstMode /\ Drained /\ c.grabbed => Diff(peer.screen, c.shadowbuf) \subseteq peer.blind

\* Work is never left without a wake-up (out_watch_id: "armed while work
\* pends"): a G_IO_OUT watch or the encode retry will run.
WorkArmed ==
  c.state = "STREAMING" /\ ~c.lost /\ Pending(c) => c.out_watch \/ c.out_retry

\* Until the encoder fails to open or to encode, pending work is always armed, whatever a
\* mode set drops.
ArmedUntilFailure == ~c.h264_failed => WorkArmed

\* The ordering rules of PROTOCOL.md hold on the wire: hello first and once,
\* an episode starts with an IDR, no RAW rectangle before its EOS.  A client
\* already scheduled for teardown gets no EOS (sremfb_xmit_ctrl).
WireOrder ==
  FirstMode /\ peer.misordered => c.lost

\* A client that streams was greeted, or its hello is still queued.
HelloKept ==
  FirstMode /\ c.state = "STREAMING" /\ ~c.lost /\ ~peer.greeted =>
    \E i \in DOMAIN c.outq : c.outq[i] = "HELLO"

\* Until a mode set in mid-stream, a streaming client was greeted or will be, and the wire
\* keeps to the order of hello, IDR, EOS and RAW.
GreetedInOrder == WireOrder /\ HelloKept

\* Messages are never cut short: the client reads header and payload to the
\* end before the next header (frame_loop).
FramingIntact == ~peer.garbled

\* Every ping the watchdog waits for can still be answered: it is queued, or
\* its echo is on the way back (ping_tick, sremfb_xmit_reset).
PingsAnswerable ==
  peer.garbled \/
  c.pings <= Cardinality({i \in DOMAIN c.outq : c.outq[i] = "PING"}) + peer.pongs

\* With the connector powered and everything sent, a panel that was sent
\* something to show is on (on_dpms, set_blank).
PanelOn ==
  FirstMode /\ Drained /\ dpms /\ ~c.lost /\ peer.blank =>
    Diff(peer.screen, BlackImage) \subseteq peer.blind

\* A drained client is lit when the connector is, and then shows the desktop, also after a
\* failed encode.
PanelRight == PanelOn /\ PixelExact

\* A lit panel shows the desktop once everything is sent, whatever happened
\* before: damage is trimmed against shadowbuf, "what the client last got"
\* (core.h), so that must be what the client has.
PictureRight ==
  Drained /\ c.grabbed /\ dpms /\ ~peer.blank => peer.screen = c.grabbuf

\* When the desktop stops changing, its last state gets to the panel, or the
\* client is dropped: no frame stays behind for want of a wake-up, however
\* the controller switches modes meanwhile and even if an encode fails.
Converges ==
  <>[][c'.grabbuf = c.grabbuf]_vars =>
    []<>(c.state # "STREAMING" \/ c.lost \/ ~c.grabbed \/ peer.screen = c.grabbuf)

=============================================================================
