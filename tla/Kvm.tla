--------------------------------- MODULE Kvm ---------------------------------
(***************************************************************************)
(* The capture of the KVM server, server/kvm/capture.c and diff.c: frames  *)
(* of the target machine come in V4L2 buffers, each is compared with the   *)
(* one before, which is kept out of the driver, and what changed goes      *)
(* through the master image into the picture of every client.  The mode    *)
(* of the target comes and goes; a change is announced, looked for by a    *)
(* delayed probe, and by a poll while there is no signal.                  *)
(* A picture is its tiles; a pixel is tagged with the mode it belongs to.  *)
(* The transmit path is Xmit: here what is dirty goes out whole, some time *)
(* after the control messages, which overtake it, and lights the panel.    *)
(***************************************************************************)
EXTENDS Naturals, Sequences, SequencesExt

CONSTANTS
  Clients, Modes,
  NoMode,        \* no signal, or a fit made without one
  Bufs,          \* V4L2 buffers (SREMFB_KVM_NBUF)
  NoBuf,
  Tiles,         \* tiles of the source
  Bar,           \* the part of a client's picture that a letterbox leaves black
  Black,
  MaxChanges,    \* bound on changes of the target's mode
  MaxDraws,      \* bound on changes of the target's picture
  MaxFails       \* bound on streams that do not start and on DQBUF errors

ASSUME KvmAssumption ==
  /\ NoMode \notin Modes /\ NoBuf \notin Bufs /\ Bar \notin Tiles /\ Tiles # {}
  /\ {MaxChanges, MaxDraws, MaxFails} \subseteq Nat

VARIABLES
  conf,          \* SREMFB_KVM_GEOMETRY and SREMFB_KVM_RESIZE
  source,        \* the target: its mode, its picture, the event it raised
  st,            \* SremfbKvmState
  driver,        \* driver: the buffers it may write
  ready,         \* driver: filled buffers, oldest first
  content,       \* what the buffers hold
  master,        \* st->master
  kc,            \* SremfbKvmClient and the buffers of each client
  screen,        \* what the client draws, and whether it is lit
  changes, draws, fails  \* bounds only

kvmVars == <<conf, source, st, driver, ready, content, master, kc, screen,
             changes, draws, fails>>

Pixels == (Modes \X {0, 1}) \cup {Black}
Pictures(m) == [Tiles -> {<<m, 0>>, <<m, 1>>}]
NoPicture == [t \in Tiles |-> Black]
NoGrab == [r \in Tiles \cup {Bar} |-> Black]
Edge == CHOOSE t \in Tiles : TRUE  \* what covers Bar when nothing is letterboxed

NoClient == [streaming |-> FALSE, lost |-> FALSE, geom |-> NoMode, fit |-> NoMode,
             repaint |-> FALSE, grab |-> NoGrab, dirty |-> FALSE]
NoScreen == [lit |-> TRUE, pic |-> NoGrab]

KvmTypeOK ==
  /\ source \in [mode : Modes \cup {NoMode}, pic : [Tiles -> Pixels], event : BOOLEAN]
  /\ st \in [streaming : BOOLEAN, signal : BOOLEAN, mode : Modes \cup {NoMode},
             prev : Bufs \cup {NoBuf}, watch : BOOLEAN, poll : BOOLEAN,
             debounce : BOOLEAN]
  /\ driver \subseteq Bufs /\ ready \in Seq(Bufs)
  /\ content \in [Bufs -> [Tiles -> Pixels]]
  /\ master \in [Tiles -> Pixels]
  /\ kc \in [Clients -> [streaming : BOOLEAN, lost : BOOLEAN,
                         geom : Modes \cup {NoMode}, fit : Modes \cup {NoMode},
                         repaint : BOOLEAN, grab : [Tiles \cup {Bar} -> Pixels],
                         dirty : BOOLEAN]]
  /\ screen \in [Clients -> [lit : BOOLEAN, pic : [Tiles \cup {Bar} -> Pixels]]]

\* What a picture is for a client whose stream has geometry g.
Fitted(pic, m, g) ==
  [r \in Tiles \cup {Bar} |-> IF r # Bar THEN pic[r]
                              ELSE IF m = g THEN pic[Edge] ELSE Black]

-----------------------------------------------------------------------------
(* The clients' pictures.  k is a client's record, m the image it is made of. *)

\* blit_rect: nothing when the fit is for another mode.
Blit(k, rects, m, mode) ==
  IF k.fit # mode THEN k
  ELSE [k EXCEPT !.grab = [r \in Tiles \cup {Bar} |->
                             IF r \in rects THEN m[r]
                             ELSE IF r = Bar /\ k.geom = mode /\ Edge \in rects THEN m[Edge]
                             ELSE k.grab[r]]]

\* send_ctrl: not to a client that is being lost.
Ctrl(sc, k, on) == IF k.streaming /\ ~k.lost THEN [sc EXCEPT !.lit = on] ELSE sc

\* repaint_client with the image there.
Repainted(k, m, mode) ==
  LET j == IF k.geom # mode THEN [k EXCEPT !.grab = NoGrab] ELSE k
  IN  [Blit(j, Tiles, m, mode) EXCEPT !.repaint = FALSE, !.dirty = TRUE]

\* fanout: to every client, the whole image where it was missing.
Fanout(rects, m, mode) ==
  /\ kc' = [c \in Clients |->
       IF ~kc[c].streaming THEN kc[c]
       ELSE IF kc[c].repaint THEN Repainted(kc[c], m, mode)
       ELSE IF rects = {} \/ kc[c].fit # mode THEN kc[c]
       ELSE [Blit(kc[c], rects, m, mode) EXCEPT !.dirty = TRUE]]
  /\ screen' = [c \in Clients |->
       IF kc[c].repaint THEN Ctrl(screen[c], kc[c], TRUE) ELSE screen[c]]

\* blank_all.
BlankAll ==
  /\ kc' = [c \in Clients |-> [kc[c] EXCEPT !.repaint = FALSE]]
  /\ screen' = [c \in Clients |-> Ctrl(screen[c], kc[c], FALSE)]

\* apply_resize: a new fit and an empty picture, or the client is cut.
ApplyResize(mode) ==
  kc' = [c \in Clients |->
    IF ~kc[c].streaming THEN kc[c]
    ELSE IF kc[c].geom # mode /\ conf = [resize |-> "reconnect", geometry |-> "source"]
    THEN [kc[c] EXCEPT !.lost = TRUE]
    ELSE [kc[c] EXCEPT !.fit = mode, !.grab = NoGrab, !.repaint = TRUE]]

-----------------------------------------------------------------------------
(* The signal. *)

Stopped(s) ==
  [s EXCEPT !.streaming = FALSE, !.signal = FALSE, !.prev = NoBuf, !.watch = FALSE]

\* Mutant: nothing looks for the signal to come back.
SignalLostUnpolled(s) ==
  /\ st' = [Stopped(s) EXCEPT !.mode = NoMode]
  /\ driver' = {} /\ ready' = <<>> /\ content' = [b \in Bufs |-> NoPicture]
  /\ IF st.mode # NoMode \/ st.streaming THEN BlankAll ELSE UNCHANGED <<kc, screen>>
  /\ UNCHANGED master

\* signal_lost: the stream stops, the clients go dark, the poll looks for it.
SignalLost(s) ==
  /\ st' = [Stopped(s) EXCEPT !.mode = NoMode, !.poll = TRUE]
  /\ driver' = {} /\ ready' = <<>> /\ content' = [b \in Bufs |-> NoPicture]
  /\ IF st.mode # NoMode \/ st.streaming THEN BlankAll ELSE UNCHANGED <<kc, screen>>
  /\ UNCHANGED master

\* probe_signal on a mode that is not the one streamed: start_stream, v4l2_start.
Restream(s, m) ==
  /\ st' = [Stopped(s) EXCEPT !.streaming = TRUE, !.signal = TRUE, !.mode = m,
                              !.watch = TRUE, !.poll = FALSE]
  /\ driver' = Bufs /\ ready' = <<>> /\ content' = [b \in Bufs |-> NoPicture]
  /\ master' = NoPicture
  /\ ApplyResize(m)
  /\ UNCHANGED screen

Streams(m) == st.streaming /\ st.signal /\ st.mode = m

\* probe_signal, from the delayed probe (debounce_cb) or the poll (poll_cb),
\* with s the state once the timer that ran is off.
Probe(timer) ==
  /\ st[timer]
  /\ LET s == [st EXCEPT ![timer] = FALSE]
     IN  \/ /\ source.mode = NoMode
            /\ SignalLost(s)
            /\ UNCHANGED fails
         \/ /\ source.mode # NoMode /\ Streams(source.mode)
            /\ st' = s
            /\ UNCHANGED <<driver, ready, content, master, kc, screen, fails>>
         \/ /\ source.mode # NoMode /\ ~Streams(source.mode)
            /\ Restream(s, source.mode)
            /\ UNCHANGED fails
         \/ /\ source.mode # NoMode /\ ~Streams(source.mode)
            /\ fails < MaxFails /\ fails' = fails + 1
            /\ SignalLost(s)
  /\ UNCHANGED <<conf, source, changes, draws>>

\* on_event, sremfb_kvm_source_changed.
OnEvent ==
  /\ source.event
  /\ source' = [source EXCEPT !.event = FALSE]
  /\ st' = [st EXCEPT !.debounce = TRUE]
  /\ UNCHANGED <<conf, driver, ready, content, master, kc, screen, changes, draws, fails>>

-----------------------------------------------------------------------------
(* Frames. *)

\* Mutant: the frame itself goes back to the driver, not the one before.
ReleasedWrong(b) == driver \cup {b}

\* release_buf of the previous frame, b taking its place.
Released(b) == (driver \cup {st.prev}) \ {b, NoBuf}

\* sremfb_kvm_diff and sremfb_kvm_rects: the rectangles cover the dirty tiles,
\* and more of them when they are merged.
Damage(b) ==
  LET dirty == {t \in Tiles : st.prev = NoBuf \/ content[b][t] # content[st.prev][t]}
  IN  IF dirty = {} THEN {{}} ELSE {rects \in SUBSET Tiles : dirty \subseteq rects}

\* on_frame_ready with a whole frame, sremfb_kvm_frame; a truncated one goes
\* straight back and changes nothing.
Frame ==
  /\ st.watch
  /\ ready # <<>>
  /\ LET b == Head(ready)
     IN  \E rects \in Damage(b) :
           /\ master' = [t \in Tiles |-> IF t \in rects THEN content[b][t] ELSE master[t]]
           /\ Fanout(rects, master', st.mode)
           /\ driver' = Released(b)
           /\ st' = [st EXCEPT !.prev = b]
  /\ ready' = Tail(ready)
  /\ UNCHANGED <<conf, source, content, changes, draws, fails>>

\* on_frame_ready when DQBUF fails: the probe decides.
FrameError ==
  /\ st.watch
  /\ fails < MaxFails /\ fails' = fails + 1
  /\ st' = [st EXCEPT !.watch = FALSE, !.signal = FALSE, !.debounce = TRUE]
  /\ UNCHANGED <<conf, source, driver, ready, content, master, kc, screen, changes, draws>>

\* The driver fills a buffer: external.
Fill(b) ==
  /\ b \in driver
  /\ st.streaming /\ source.mode = st.mode
  /\ content' = [content EXCEPT ![b] = source.pic]
  /\ driver' = driver \ {b}
  /\ ready' = Append(ready, b)
  /\ UNCHANGED <<conf, source, st, master, kc, screen, changes, draws, fails>>

\* The target machine: external.
TargetMode(m) ==
  /\ changes < MaxChanges /\ changes' = changes + 1
  /\ m # source.mode
  /\ source' = [mode |-> m, event |-> TRUE,
                pic |-> [t \in Tiles |-> IF m = NoMode THEN Black ELSE <<m, 0>>]]
  /\ UNCHANGED <<conf, st, driver, ready, content, master, kc, screen, draws, fails>>

TargetDraws(pic) ==
  /\ draws < MaxDraws /\ draws' = draws + 1
  /\ pic # source.pic
  /\ source' = [source EXCEPT !.pic = pic]
  /\ UNCHANGED <<conf, st, driver, ready, content, master, kc, screen, changes, fails>>

-----------------------------------------------------------------------------
(* The source operations of the core, and the core. *)

\* kvm_acquire for a client whose own mode is m.
KvmAcquire(c, m) ==
  /\ ~kc[c].streaming
  /\ LET mode == IF st.signal THEN st.mode ELSE NoMode
         geom == IF conf.geometry = "source" /\ mode # NoMode THEN mode ELSE m
         new == [NoClient EXCEPT !.streaming = TRUE, !.geom = geom, !.fit = mode]
         now == mode # NoMode /\ st.prev # NoBuf
     IN  /\ kc' = [kc EXCEPT ![c] = IF now THEN Repainted(new, master, mode)
                                    ELSE [new EXCEPT !.repaint = mode # NoMode]]
         /\ screen' = [screen EXCEPT ![c] = [NoScreen EXCEPT !.lit = mode # NoMode]]
  /\ UNCHANGED <<conf, source, st, driver, ready, content, master, changes, draws, fails>>

\* kvm_release: the client is cut or leaves.
KvmRelease(c) ==
  /\ kc[c].streaming
  /\ kc' = [kc EXCEPT ![c] = NoClient]
  /\ screen' = [screen EXCEPT ![c] = NoScreen]
  /\ UNCHANGED <<conf, source, st, driver, ready, content, master, changes, draws, fails>>

\* sremfb_xmit_kick, up to the client's panel: a frame lights it (set_blank).
Deliver(c) ==
  /\ kc[c].streaming /\ kc[c].dirty
  /\ screen' = [screen EXCEPT ![c] = [lit |-> TRUE, pic |-> kc[c].grab]]
  /\ kc' = [kc EXCEPT ![c].dirty = FALSE]
  /\ UNCHANGED <<conf, source, st, driver, ready, content, master, changes, draws, fails>>

\* sremfb_xmit_set_mode, back to raw rectangles: the whole picture once more.
Snapshot(c) ==
  /\ kc[c].streaming
  /\ kc' = [kc EXCEPT ![c].dirty = TRUE]
  /\ UNCHANGED <<conf, source, st, driver, ready, content, master, screen, changes, draws, fails>>

\* sremfb_kvm_start, its first probe done: a target that is on is found by the
\* next one.
KvmInit ==
  /\ conf \in [geometry : {"source", "client"}, resize : {"scale", "reconnect"}]
  /\ source = [mode |-> NoMode, pic |-> NoPicture, event |-> FALSE]
  /\ st = [streaming |-> FALSE, signal |-> FALSE, mode |-> NoMode, prev |-> NoBuf,
           watch |-> FALSE, poll |-> TRUE, debounce |-> FALSE]
  /\ driver = {} /\ ready = <<>> /\ content = [b \in Bufs |-> NoPicture]
  /\ master = NoPicture
  /\ kc = [c \in Clients |-> NoClient] /\ screen = [c \in Clients |-> NoScreen]
  /\ changes = 0 /\ draws = 0 /\ fails = 0

KvmNext ==
  \/ Probe("debounce") \/ Probe("poll") \/ OnEvent
  \/ Frame \/ FrameError
  \/ \E b \in Bufs : Fill(b)
  \/ \E m \in Modes \cup {NoMode} : TargetMode(m)
  \/ \E pic \in Pictures(source.mode) : source.mode # NoMode /\ TargetDraws(pic)
  \/ \E c \in Clients : \/ \E m \in Modes : KvmAcquire(c, m)
                        \/ KvmRelease(c) \/ Deliver(c) \/ Snapshot(c)

\* Timers fire and descriptors that are ready are served; a target that shows
\* a picture sends frames; a client that is cut is let go.
KvmFairness ==
  /\ WF_kvmVars(Probe("debounce")) /\ WF_kvmVars(Probe("poll")) /\ WF_kvmVars(OnEvent)
  /\ WF_kvmVars(Frame)
  /\ WF_kvmVars(\E b \in Bufs : Fill(b))
  /\ \A c \in Clients : WF_kvmVars(Deliver(c)) /\ WF_kvmVars(kc[c].lost /\ KvmRelease(c))

KvmSpec == KvmInit /\ [][KvmNext]_kvmVars /\ KvmFairness

-----------------------------------------------------------------------------
(* Properties. *)

\* The frame that the next one is compared with is intact: it is not the
\* driver's, and the master image is that frame, tile for tile.
PreviousKept ==
  st.prev # NoBuf =>
    /\ st.prev \notin driver /\ st.prev \notin ToSet(ready)
    /\ master = content[st.prev]

\* A client's picture is the master image, letterboxed, unless it waits for a
\* repaint or is being cut (fanout, apply_resize, kvm_acquire).  Without a
\* signal the panel is dark, or a frame that left after the BLANK has lit it
\* again; then it shows what the client's buffer holds, never half a picture
\* or one of another connection (blank_all).
PictureTrue ==
  \A c \in Clients : kc[c].streaming /\ ~kc[c].lost =>
    /\ st.signal /\ ~kc[c].repaint =>
         /\ kc[c].grab = Fitted(master, st.mode, kc[c].geom)
         /\ screen[c].lit
    /\ st.mode = NoMode => ~screen[c].lit \/ screen[c].pic = kc[c].grab

\* The reference frame is intact, and so is every picture made from it.
PictureKept == PreviousKept /\ PictureTrue

\* What doc/SPEC-kvm-backend.md:282-283 says of a target without a signal, "BLANK
\* a tous les clients streaming (pas de signal = ecran eteint)".  blank_all
\* leaves what is dirty in place, and its frame lights the panel again.
DarkWithoutSignal ==
  \A c \in Clients :
    kc[c].streaming /\ ~kc[c].lost /\ st.mode = NoMode => ~screen[c].lit

\* What client c ought to show.
Shows(c) ==
  IF source.mode = NoMode THEN ~screen[c].lit \/ screen[c].pic = kc[c].grab
  ELSE screen[c] = [lit |-> TRUE, pic |-> Fitted(source.pic, source.mode, kc[c].geom)]

\* Once the target rests, a client that stays comes to show its picture for
\* good: no order of events, probes, polls, frames and arrivals leaves it with
\* an old one.  When the target rests without a signal the panel ends dark, or
\* with the last picture whole.
TargetShown ==
  \A c \in Clients : <>[](kc[c].streaming) => <>[]Shows(c)

=============================================================================
