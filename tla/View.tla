-------------------------------- MODULE View --------------------------------
(***************************************************************************)
(* The desktop viewer (view/net.c, view/sremfb-view.c).  The network       *)
(* thread decodes the stream into the shared picture FB and wakes the main *)
(* thread with at most one pending event; the main thread uploads what was *)
(* damaged to its texture, presents it, and sends the user's input on the  *)
(* connection of the moment.  A step is what one thread does under a lock  *)
(* or with one atomic, so the threads interleave as they do in the code.   *)
(*                                                                         *)
(* A picture has rows 1 .. Rows and a rectangle is a range of rows.        *)
(***************************************************************************)
EXTENDS Integers, Sequences, FiniteSets, FiniteSetsExt

CONSTANTS
  Rows,          \* rows of the picture
  Colours,       \* what a row may show
  Clear,         \* the colour of a fresh buffer and of an empty window
  DamageMax,     \* VIEW_DAMAGE_MAX
  SilentMax,     \* AU_SILENT_MAX
  Budgets        \* bounds, as records: messages, connections, user events, failed pushes

ASSUME ViewAssumption ==
  /\ Rows \in Nat \ {0} /\ DamageMax \in Nat \ {0} /\ SilentMax \in Nat \ {0}
  /\ Clear \in Colours
  /\ Budgets \subseteq [msgs : Nat, conns : Nat, keys : Nat, fails : Nat]

VARIABLES
  fb,      \* struct view_fb: gen, connected, input, blanked, pixels, damage, damage_all
  net,     \* the network thread: where it is, its socket, the open batch, its decoder
  wake,    \* wake_pending, the wake events in SDL's queue, whether a push failed last
  main,    \* the main thread: where it is and D
  screen,  \* what the window shows
  hand,    \* I, and what the user holds: keys and buttons, the host key, the focus
  srv,     \* the server: what it sent, whether as H.264, what this connection holds down,
           \* and whether a message to it was lost
  left     \* what the bounds leave

viewVars == <<fb, net, wake, main, screen, hand, srv, left>>

None == <<>>                     \* no texture, no buffer, no picture
Blurred == "blurred"             \* a texture that was never filled
Pictures == [1 .. Rows -> Colours]
Spans == {s \in (1 .. Rows) \X (1 .. Rows) : s[1] <= s[2]}
Plain(c) == [r \in 1 .. Rows |-> c]

Spend(what) == left[what] > 0 /\ left' = [left EXCEPT ![what] = @ - 1]

ViewInit ==
  /\ fb = [gen |-> 0, input |-> FALSE, blanked |-> FALSE, pixels |-> None,
           damage |-> <<>>, all |-> FALSE]
  /\ net = [pc |-> "down", next |-> "down", fd |-> FALSE, input |-> FALSE, batch |-> FALSE,
            h264 |-> TRUE, late |-> None, silent |-> 0]
  /\ wake = [pending |-> FALSE, queued |-> 0, missed |-> FALSE]
  /\ main = [pc |-> "wait", gen |-> -1, tex |-> None, up |-> FALSE, blanked |-> FALSE,
             input |-> FALSE]
  /\ screen = Plain(Clear)
  /\ hand = [down |-> {}, host |-> FALSE, rctrl |-> FALSE, combo |-> FALSE,
             captured |-> FALSE, focus |-> TRUE]
  /\ srv = [sent |-> None, h264 |-> FALSE, held |-> {}, cut |-> FALSE]
  /\ left \in Budgets

-----------------------------------------------------------------------------
(* The network thread. *)

\* n->wake() after the lock is released, then on with `next'.
Woken(n, next) == [n EXCEPT !.pc = "wake", !.next = next]

\* fb_set_stream: a fresh picture, or none; everything is to be uploaded.
SetStream(pixels, input) ==
  fb' = [gen |-> fb.gen + 1, input |-> input, blanked |-> FALSE, pixels |-> pixels,
         damage |-> <<>>, all |-> TRUE]

\* tcp_connect, hello_exchange, stream_loop up to its first message: the server may confirm
\* INPUT or not, and H.264 is offered unless the decoder failed before.
Reconnect(confirms) ==
  /\ net.pc = "down" /\ Spend("conns")
  /\ SetStream(Plain(Clear), confirms)
  /\ net' = [Woken(net, "open") EXCEPT !.input = confirms, !.batch = FALSE,
                                       !.late = None, !.silent = 0]
  /\ srv' = [sent |-> Plain(Clear), h264 |-> FALSE, held |-> {}, cut |-> FALSE]
  /\ UNCHANGED <<wake, main, screen, hand>>

\* n->fd = n->sock: from here on messages go upstream.
Open ==
  /\ net.pc = "open"
  /\ net' = [net EXCEPT !.pc = "loop", !.fd = TRUE]
  /\ UNCHANGED <<fb, wake, main, screen, hand, srv, left>>

\* batch_flush_unless, or the publication before a control message.
Publish ==
  /\ net.pc = "loop" /\ net.batch
  /\ net' = [Woken(net, "loop") EXCEPT !.batch = FALSE]
  /\ UNCHANGED <<fb, wake, main, screen, hand, srv, left>>

Hull(spans) == <<Min({s[1] : s \in spans}), Max({s[2] : s \in spans})>>
Recorded == {fb.damage[i] : i \in DOMAIN fb.damage}

\* The overflow forgets what was pending (mutant).
DamageAddForgets(s) ==
  IF fb.all THEN fb.damage
  ELSE IF Len(fb.damage) = DamageMax THEN <<s>>
  ELSE Append(fb.damage, s)

\* damage_add: a full list collapses to the bounding box of everything pending.
DamageAdd(s) ==
  IF fb.all THEN fb.damage
  ELSE IF Len(fb.damage) = DamageMax THEN <<Hull(Recorded \cup {s})>>
  ELSE Append(fb.damage, s)

Painted(picture, s, c) == [r \in 1 .. Rows |-> IF s[1] <= r /\ r <= s[2] THEN c ELSE picture[r]]

\* RAW or LZ4, which the server sends outside of an H.264 episode: fb_put_rect; the main
\* thread is not woken yet.
PutRect(s, c) ==
  /\ net.pc = "loop" /\ ~srv.h264 /\ Spend("msgs")
  /\ fb' = [fb EXCEPT !.pixels = Painted(@, s, c), !.damage = DamageAdd(s)]
  /\ srv' = [srv EXCEPT !.sent = Painted(@, s, c)]
  /\ net' = [net EXCEPT !.batch = TRUE]
  /\ UNCHANGED <<wake, main, screen, hand>>

\* BLANK, UNBLANK: the open batch was published first.
Blank(b) ==
  /\ net.pc = "loop" /\ ~net.batch /\ Spend("msgs")
  /\ fb' = [fb EXCEPT !.blanked = b]
  /\ net' = Woken(net, "loop")
  /\ UNCHANGED <<wake, main, screen, hand, srv>>

\* h264_show: the whole picture, published at once.
Show(picture) ==
  /\ fb' = [fb EXCEPT !.pixels = picture, !.all = TRUE, !.damage = <<>>]
  /\ net' = [Woken(net, "loop") EXCEPT !.late = None, !.silent = 0]

\* h264_au: the decoder gives the picture.
Unit(c) ==
  /\ net.pc = "loop" /\ ~net.batch /\ net.h264 /\ Spend("msgs")
  /\ Show(Plain(c))
  /\ srv' = [srv EXCEPT !.sent = Plain(c), !.h264 = TRUE]
  /\ UNCHANGED <<wake, main, screen, hand>>

\* h264_failed: the connection ends, and the next hello does not offer H.264.
Failed(n) == [n EXCEPT !.pc = "shut", !.h264 = FALSE]

\* h264_au: the decoder keeps the picture for now, or fails, or was silent too often.
UnitSilent(c) ==
  /\ net.pc = "loop" /\ ~net.batch /\ net.h264 /\ Spend("msgs")
  /\ srv' = [srv EXCEPT !.sent = Plain(c), !.h264 = TRUE]
  /\ \/ net' = Failed(net)
     \/ net.silent + 1 < SilentMax /\ net' = [net EXCEPT !.late = Plain(c), !.silent = @ + 1]
  /\ UNCHANGED <<fb, wake, main, screen, hand>>

\* h264_au: the decoder is one picture behind, and keeps this one for that.
UnitBehind(c) ==
  /\ net.pc = "loop" /\ ~net.batch /\ net.h264 /\ net.late # None /\ Spend("msgs")
  /\ srv' = [srv EXCEPT !.sent = Plain(c), !.h264 = TRUE]
  /\ fb' = [fb EXCEPT !.pixels = net.late, !.all = TRUE, !.damage = <<>>]
  /\ net' = [Woken(net, "loop") EXCEPT !.late = Plain(c), !.silent = 0]
  /\ UNCHANGED <<wake, main, screen, hand>>

\* The decoder is flushed and not drained (mutant).
EosFlushed ==
  /\ net.pc = "loop" /\ ~net.batch /\ net.h264 /\ srv.h264 /\ Spend("msgs")
  /\ fb' = fb /\ net' = [net EXCEPT !.late = None, !.silent = 0]
  /\ srv' = [srv EXCEPT !.h264 = FALSE]
  /\ UNCHANGED <<wake, main, screen, hand>>

\* h264_eos: drains the decoder before anything that follows; it may fail here too.
Eos ==
  /\ net.pc = "loop" /\ ~net.batch /\ net.h264 /\ srv.h264 /\ Spend("msgs")
  /\ \/ net.late # None /\ Show(net.late)
     \/ fb' = fb /\ net' = Failed(net)
     \/ net.late = None /\ fb' = fb /\ net' = [net EXCEPT !.silent = 0]
  /\ srv' = [srv EXCEPT !.h264 = FALSE]
  /\ UNCHANGED <<wake, main, screen, hand>>

\* The connection ends: silence, a closed socket, a message that does not parse.
Drop ==
  /\ net.pc = "loop" /\ Spend("msgs")
  /\ net' = [net EXCEPT !.pc = "shut"]
  /\ UNCHANGED <<fb, wake, main, screen, hand, srv>>

\* n->fd = -1; the server releases what the connection held.
Shut ==
  /\ net.pc = "shut"
  /\ net' = [net EXCEPT !.pc = "gone", !.fd = FALSE]
  /\ srv' = [srv EXCEPT !.held = {}, !.cut = FALSE]
  /\ UNCHANGED <<fb, wake, main, screen, hand, left>>

\* fb_set_stream without a picture.
NoSignal ==
  /\ net.pc = "gone"
  /\ SetStream(None, FALSE)
  /\ net' = Woken(net, "down")
  /\ srv' = [srv EXCEPT !.sent = None]
  /\ UNCHANGED <<wake, main, screen, hand, left>>

-----------------------------------------------------------------------------
(* wake_main, by the network thread. *)

\* atomic_exchange(&wake_pending, 1).
WakeExchange ==
  /\ net.pc = "wake"
  /\ wake' = [wake EXCEPT !.pending = TRUE]
  /\ net' = [net EXCEPT !.pc = IF wake.pending THEN net.next ELSE "push"]
  /\ UNCHANGED <<fb, main, screen, hand, srv, left>>

\* SDL_PushEvent.
WakePush ==
  /\ net.pc = "push"
  /\ wake' = [wake EXCEPT !.queued = @ + 1, !.missed = FALSE]
  /\ net' = [net EXCEPT !.pc = net.next]
  /\ UNCHANGED <<fb, main, screen, hand, srv, left>>

\* SDL_PushEvent fails: the next wake tries again.
WakePushFails ==
  /\ net.pc = "push" /\ Spend("fails")
  /\ wake' = [wake EXCEPT !.pending = FALSE, !.missed = TRUE]
  /\ net' = [net EXCEPT !.pc = net.next]
  /\ UNCHANGED <<fb, main, screen, hand, srv>>

-----------------------------------------------------------------------------
(* The main thread: pictures. *)

\* The event loop drains SDL's queue and notes that it has to pull.
TakeWake ==
  /\ main.pc = "wait" /\ wake.queued > 0
  /\ wake' = [wake EXCEPT !.queued = 0]
  /\ main' = [main EXCEPT !.pc = "pull"]
  /\ UNCHANGED <<fb, net, screen, hand, srv, left>>

\* The flag is left for the end of the refresh (for the mutant MainThreadLate).
ClearWakeNot ==
  /\ main.pc = "pull"
  /\ main' = [main EXCEPT !.pc = "upload"]
  /\ UNCHANGED <<fb, net, wake, screen, hand, srv, left>>

\* refresh: atomic_store(&wake_pending, 0), before the lock.
ClearWake ==
  /\ main.pc = "pull"
  /\ wake' = [wake EXCEPT !.pending = FALSE]
  /\ main' = [main EXCEPT !.pc = "upload"]
  /\ UNCHANGED <<fb, net, screen, hand, srv, left>>

\* texture_rebuild, with a stream of a new generation.
Texture ==
  IF fb.gen = main.gen THEN main.tex
  ELSE IF fb.pixels = None THEN None ELSE Plain(Blurred)

Covered(r) == \E s \in Recorded : s[1] <= r /\ r <= s[2]

\* refresh: what FB.lock protects.
Uploaded ==
  IF Texture = None \/ fb.pixels = None THEN Texture
  ELSE IF fb.all \/ fb.gen # main.gen THEN fb.pixels
  ELSE [r \in 1 .. Rows |-> IF Covered(r) THEN fb.pixels[r] ELSE Texture[r]]

\* input_state_changed: the capture ends when INPUT was withdrawn.
InputStateChanged == hand' = [hand EXCEPT !.captured = @ /\ (fb.input \/ ~main.input)]

\* refresh: the whole critical section.
Pull ==
  /\ main.pc = "upload"
  /\ main' = [pc |-> "present", gen |-> fb.gen, tex |-> Uploaded, up |-> fb.pixels # None,
              blanked |-> fb.blanked, input |-> fb.input]
  /\ fb' = [fb EXCEPT !.all = FALSE, !.damage = <<>>]
  /\ InputStateChanged
  /\ UNCHANGED <<net, wake, screen, srv, left>>

Visible(up, blanked, tex) == IF up /\ ~blanked /\ tex # None THEN tex ELSE Plain(Clear)
Rendered == Visible(main.up, main.blanked, main.tex)

\* refresh: clear, draw, present.
Present ==
  /\ main.pc = "present"
  /\ screen' = Rendered
  /\ main' = [main EXCEPT !.pc = "wait"]
  /\ UNCHANGED <<fb, net, wake, hand, srv, left>>

\* The flag is cleared at the end of the refresh (for the mutant MainThreadLate).
PresentClears ==
  /\ main.pc = "present"
  /\ screen' = Rendered
  /\ wake' = [wake EXCEPT !.pending = FALSE]
  /\ main' = [main EXCEPT !.pc = "wait"]
  /\ UNCHANGED <<fb, net, hand, srv, left>>

\* An expose or a resize repaints and pulls nothing.
Expose ==
  /\ main.pc = "wait" /\ Spend("keys")
  /\ screen' = Rendered
  /\ UNCHANGED <<fb, net, wake, main, hand, srv>>

-----------------------------------------------------------------------------
(* The main thread: input. *)

\* Events are handled before the refresh that the same round asked for.
Handling == main.pc \in {"wait", "pull"} /\ Spend("keys")

\* in_flush, view_net_send: on the connection of the moment; a server that did not confirm
\* INPUT ignores it, and what cannot be sent is lost, without a connection or because the
\* send times out on a live one.
Flush(held) ==
  \/ srv' = [srv EXCEPT !.held = IF main.input /\ net.fd /\ net.input THEN held ELSE @]
  \/ main.input /\ net.fd /\ srv' = [srv EXCEPT !.cut = TRUE]

\* The device a button goes to.
Device == IF hand.captured THEN "MOUSE" ELSE "POINTER"

\* input_event: a key goes down.  With the host key it is a combo and stays here.
KeyDown ==
  /\ Handling /\ hand.focus /\ "KEY" \notin hand.down
  /\ hand' = [hand EXCEPT !.down = @ \cup {"KEY"},
                          !.combo = @ \/ (main.input /\ hand.rctrl)]
  /\ Flush(IF hand.rctrl THEN srv.held ELSE srv.held \cup {"KEY"})
  /\ UNCHANGED <<fb, net, wake, main, screen>>

\* input_event: a key goes up, and stays here too while the host key is down.
KeyUp ==
  /\ Handling /\ "KEY" \in hand.down
  /\ hand' = [hand EXCEPT !.down = @ \ {"KEY"}]
  /\ Flush(IF hand.rctrl THEN srv.held ELSE srv.held \ {"KEY"})
  /\ UNCHANGED <<fb, net, wake, main, screen>>

\* input_event: a mouse button, on the device of the mode.
ButtonDown ==
  /\ Handling /\ hand.focus /\ "BUTTON" \notin hand.down
  /\ hand' = [hand EXCEPT !.down = @ \cup {"BUTTON"}]
  /\ Flush(srv.held \cup {Device})
  /\ UNCHANGED <<fb, net, wake, main, screen>>

ButtonUp ==
  /\ Handling /\ "BUTTON" \in hand.down
  /\ hand' = [hand EXCEPT !.down = @ \ {"BUTTON"}]
  /\ Flush(srv.held \ {Device})
  /\ UNCHANGED <<fb, net, wake, main, screen>>

\* pad_button, and pad_neutral when the gamepad is unplugged.
PadButton ==
  /\ Handling /\ hand.focus /\ "PAD" \notin hand.down
  /\ hand' = [hand EXCEPT !.down = @ \cup {"PAD"}]
  /\ Flush(srv.held \cup {"PAD"})
  /\ UNCHANGED <<fb, net, wake, main, screen>>

PadNeutral ==
  /\ Handling /\ "PAD" \in hand.down
  /\ hand' = [hand EXCEPT !.down = @ \ {"PAD"}]
  /\ Flush(srv.held \ {"PAD"})
  /\ UNCHANGED <<fb, net, wake, main, screen>>

\* input_event: the host key goes down.  It is known only while INPUT is confirmed.
HostDown ==
  /\ Handling /\ hand.focus /\ ~hand.host
  /\ hand' = [hand EXCEPT !.host = TRUE,
                          !.rctrl = @ \/ main.input,
                          !.combo = @ /\ ~main.input]
  /\ UNCHANGED <<fb, net, wake, main, screen, srv>>

\* input_event: the host key goes up; a tap toggles the capture, and leaving it releases all.
HostUp ==
  /\ Handling /\ hand.host
  /\ LET tap == main.input /\ hand.rctrl /\ ~hand.combo IN
     /\ hand' = [hand EXCEPT !.host = FALSE,
                             !.rctrl = @ /\ ~main.input,
                             !.captured = IF tap THEN ~@ ELSE @]
     /\ Flush(IF tap /\ hand.captured THEN {} ELSE srv.held)
  /\ UNCHANGED <<fb, net, wake, main, screen>>

\* The capture alone is left (mutant).
FocusLostQuiet ==
  /\ Handling /\ hand.focus
  /\ hand' = [hand EXCEPT !.down = {}, !.host = FALSE, !.rctrl = FALSE, !.focus = FALSE,
                          !.captured = @ /\ ~main.input]
  /\ Flush(IF hand.captured THEN {} ELSE srv.held)
  /\ UNCHANGED <<fb, net, wake, main, screen>>

\* input_event: the focus is lost; the window hears of no key that goes up from here on.
FocusLost ==
  /\ Handling /\ hand.focus
  /\ hand' = [hand EXCEPT !.down = {}, !.host = FALSE, !.rctrl = FALSE, !.focus = FALSE,
                          !.captured = @ /\ ~main.input]
  /\ Flush({})
  /\ UNCHANGED <<fb, net, wake, main, screen>>

FocusGained ==
  /\ Handling /\ ~hand.focus
  /\ hand' = [hand EXCEPT !.focus = TRUE]
  /\ UNCHANGED <<fb, net, wake, main, screen, srv>>

-----------------------------------------------------------------------------
Stream ==
  \/ \E b \in BOOLEAN : Reconnect(b)
  \/ \E s \in Spans, c \in Colours : PutRect(s, c)
  \/ \E b \in BOOLEAN : Blank(b)
  \/ \E c \in Colours : Unit(c) \/ UnitSilent(c) \/ UnitBehind(c)
  \/ Eos \/ Drop

NetThread ==
  Open \/ Publish \/ Shut \/ NoSignal \/ WakeExchange \/ WakePush \/ WakePushFails

\* wake_pending is cleared after the lock and not before it (mutant).
MainThreadLate == TakeWake \/ ClearWakeNot \/ Pull \/ PresentClears

MainThread == TakeWake \/ ClearWake \/ Pull \/ Present

User ==
  \/ KeyDown \/ KeyUp \/ ButtonDown \/ ButtonUp \/ PadButton \/ PadNeutral
  \/ HostDown \/ HostUp \/ FocusLost \/ FocusGained \/ Expose

ViewNext == Stream \/ NetThread \/ MainThread \/ User

\* Both threads run when they can: neither waits for the other except for a lock that is
\* held for the length of a copy.
ViewFairness == WF_viewVars(NetThread) /\ WF_viewVars(MainThread)

ViewSpec == ViewInit /\ [][ViewNext]_viewVars /\ ViewFairness

-----------------------------------------------------------------------------
Held == {"KEY", "MOUSE", "POINTER", "PAD"}

\* Every variable keeps to its type, and at most one wake event is in SDL's queue.
ViewTypeOK ==
  /\ fb.gen \in Nat /\ fb.pixels \in Pictures \cup {None} /\ Len(fb.damage) <= DamageMax
  /\ Recorded \subseteq Spans
  /\ net.pc \in {"down", "open", "loop", "wake", "push", "shut", "gone"}
  /\ net.late \in Pictures \cup {None} /\ net.silent < SilentMax
  /\ wake.queued \in 0 .. 1
  /\ main.pc \in {"wait", "pull", "upload", "present"}
  /\ main.tex \in Pictures \cup {None} /\ screen \in Pictures
  /\ hand.down \subseteq {"KEY", "BUTTON", "PAD"} /\ srv.held \subseteq Held

\* The texture is the shared picture wherever no damage is pending, whatever the order in
\* which rectangles, whole pictures, reconnections and refreshes happen: an upload of the
\* damage alone never leaves an old row behind.  (net.c:376, sremfb-view.c:281)
TextureTrue ==
  main.gen = fb.gen /\ main.tex # None /\ ~fb.all
    => \A r \in 1 .. Rows : main.tex[r] = fb.pixels[r] \/ Covered(r)

\* Between two messages the shared picture is what the server sent, pictures of H.264 and
\* rectangles in their order, unless the decoder still keeps one: a PONG says "applied", and
\* the snapshot after an EOS lands on top.  (net.c:472, net.c:655)
Applied ==
  net.pc = "loop" /\ net.late = None => fb.pixels = srv.sent

\* A window without the focus holds nothing down on the remote side, across reconnections
\* that the main thread has not seen yet and servers that confirm INPUT or do not, unless a
\* message was lost on this connection, which nothing repeats.  (sremfb-view.c:680, net.c:182)
FocusReleases == ~hand.focus => srv.held = {} \/ srv.cut

\* Once the stream is quiet the window shows it, or the dark of a stream that is gone or
\* blanked: no wake is lost between the flag, the event and the lock, unless SDL refused
\* the last event, or the decoder still keeps the last picture, which only the next unit or
\* the end of the episode brings out.  (sremfb-view.c:86, sremfb-view.c:270, net.c:636)
LatestShown ==
  <>[](screen = Visible(fb.pixels # None, fb.blanked, fb.pixels) \/ wake.missed
       \/ net.late # None)

\* Nothing stays held down that the user does not hold (README, the viewer's input).
NothingHeld ==
  hand.down = {} /\ ~hand.host => srv.held = {}

\* Input goes only to a connection whose hello confirmed it.
InputConfirmed == main.input /\ net.fd => net.input
=============================================================================
