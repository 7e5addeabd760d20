# sRemFB: TLA+ models and proofs

sRemFB turns small computers with a screen into monitors of a GNOME desktop:
the server (`server/`) gives every client a virtual connector of the `evdi`
kernel module, grabs its pixels and streams them over TCP (RAW rectangles, LZ4,
or H.264 under pressure); the client (`client/`) puts them on a framebuffer or
DRM panel. `view/` is a desktop client, `server/kvm/` a server that captures
HDMI instead of evdi, `systemd/` holds the units and the root-side USB attach
script.

This directory models the parts of the programs that keep state across events,
checks them with TLC on small instances, and proves the central ones with
TLAPS for every size.

## 1. Inventory

| Part | State | Operations | Works with |
|---|---|---|---|
| Transmit path `core/xmit.c` | dirty list, control queue, frame in flight, `shadowbuf`, out watch, retry timer | damage, control message, mode switch, writable socket, reset | source, controller, socket |
| Pressure controller `core/control.c` | `ctl_state`, pings in flight, delay estimates | ping tick, pong, evaluate, skip | transmit path |
| EVDI frames `evdi/evdi.c` | `grabbuf`, cursor, update in flight | mode set, update ready, cursor events, DPMS | transmit path, compositor |
| Client lifecycle `core/session.c` | client array, GLib sources, USB peer files | accept, replace, lose, schedule loss, start, stop | every other part |
| Device pool and mode timer `evdi/evdi.c` | pool of open devices, owner, quarantine, grace | acquire, release, self-heal, mode timeout, park | lifecycle, gate, cards |
| Plug gate `evdi/evdi.c` | history of plugs, lit connectors, failures | prune, record, gate, admit | pool |
| Card tracker and reset `evdi/evdi.c`, `main-evdi.c` | `K`, file of known numbers, reset marker | load, save, add one, add usable, reset | kernel, compositor |
| Audio `core/audio.c` | `A`: default output, what it replaced, live outputs, a file | take, hand over, give back, recover | PipeWire, lifecycle |
| Layout `core/layout.c` | `Y`: call under way, clients that wait, last connectors | refresh, reply, restore, client gone | mutter over D-Bus |
| Input replay `core/input.c` | uinput devices, held keys, mirror of mutter's monitors | start, stop, event, release all, refresh | kernel, mutter |
| KVM capture `kvm/capture.c`, `kvm/diff.c` | V4L2 buffers, reference frame, master image, each client's fit | frame, probe, poll, debounce, acquire, release | transmit path, V4L2 |
| KVM encoder `kvm/encoder_v4l2.c` | two queues of buffers, the one lent to the core | encode | transmit path, firmware |
| KVM HID `kvm/input_hid.c` | reports, dirty nodes, one holder | start, stop, event, flush | gadget of the target |
| Client `client/sremfb-client.c` | connection, panel, decoder, input grab | frame loop, reconnect, watchdog | outputs, decoder, USB export |
| Client outputs and decoder | panel power, DRM flips, V4L2 buffers | blank, flip, queue | client |
| USB export `client/usbexport.c` | devices bound to usbip-host, the list of them | scan, bind, reclaim, give back | client, kernel |
| USB attach `systemd/sremfb-usb-attach` and units | vhci ports, records | purge, list, attach, detach all | peer files, usbipd |
| Viewer `view/net.c`, `view/sremfb-view.c` | shared picture and damage, wake flag, texture, host key and capture | receive, decode, wake, refresh, present, forward input | protocol, SDL |
| Viewer audio `view/audio.c` | jitter buffer | receive, play | protocol |

What is hard here is order. The servers have one thread, but it is a GLib loop
in which the compositor, sockets, timers, D-Bus replies and idle callbacks come
in any order, and most handlers change state that others hold ids or pointers
into. A mode set may come in the middle of a frame, a reconnect in the middle
of a teardown, a timer just after the session woke up. PipeWire, mutter, the
kernel and the firmware of an encoder answer late, and what the code knows of
them is a copy that may be old. Processes and machines die and restart while
the compositor, cards, stubs, records and files in `/run` live on. The viewer
has two threads that share a picture, a flag and an event. `PROJECT.json` lists
the hazards line by line with the properties that would catch them.

What makes each part correct:

- transmit path: no damage is lost, the panel ends up showing the desktop,
  the wire obeys PROTOCOL.md, work is never left without a wake-up;
- lifecycle and pool: each client owns one device, nothing calls back into a
  freed client, a peer file stands for a live client, everyone is answered;
- gate: the caps and the backoff hold whatever the order of events, and the
  pruned history decides as the whole one would;
- cards: a card trusted by the server is one the compositor drives, across
  restarts; a restart takes no driven card away;
- audio: the default output never stays on a client that is gone, and what the
  user chose last comes back;
- layout: only the layout meant for the present monitors is applied, and a
  client that waits for it is not forgotten;
- input and HID: the other side holds exactly what the client holds; a pointer
  lands on the pixel aimed at; no short tap vanishes;
- KVM: a frame is compared with an intact one, clients end up with the target's
  picture, the core gets whole units of the frame it put in;
- USB: devices end up imported over a live connection or not at all, and a
  clean shutdown leaves none held;
- viewer: the window ends on the last picture, nothing stays held remotely when
  the focus goes.

## 2. Modules

| Module | Models | Instances |
|---|---|---|
| `Xmit` | `core/xmit.c` with its callers and the far end of the stream | `MCXmit`, `MCStream` |
| `XmitProofs`, `XmitWireProofs` | theorems on `Xmit`: the pending region; queue, wire and panel | |
| `Session` | `core/session.c`, device pool, mode timer, self-heal | `MCSession`, `MCConnection` |
| `SessionProofs` | theorems on `Session` | |
| `PlugGate` | the plug gate | `MCEvdi` |
| `Cards` | card tracker, `evdi_add_usable`, `sremfb_evdi_reset`, start-up of `main` | `MCEvdi` |
| `EvdiProofs` | theorems on `PlugGate` and `Cards` | |
| `Audio` | `core/audio.c` and PipeWire's default output | `MCDevices` |
| `Layout` | `core/layout.c` and mutter's monitors | `MCDevices` |
| `Input` | `core/input.c`, uinput and mutter's monitors | `MCDevices` |
| `Hid` | `kvm/input_hid.c` and the target that reads the reports | `MCDevices` |
| `DevicesProofs` | theorems on `Hid`, `Input`, `Layout` and `Audio` | |
| `Kvm` | `kvm/capture.c`, `kvm/diff.c`, the target and the V4L2 driver | `MCKvm` |
| `Encoder` | `sremfb_enc_encode` of `kvm/encoder_v4l2.c` and the firmware | `MCKvm` |
| `EncoderApi` | what the transmit path expects of an encoder | refined by `Encoder` |
| `KvmProofs` | theorems on `Kvm` and `Encoder`, and that `Encoder` implements `EncoderApi` | |
| `Usb` | `client/usbexport.c`, the peer file, the attach script and units, usbip | `MCConnection` |
| `UsbProofs` | theorems on `Usb` | |
| `View` | `view/net.c` and `view/sremfb-view.c`: two threads, the user and the server | `MCStream` |
| `ViewProofs` | theorems on `View` | |

One action is one dispatched callback, with everything it calls; where the code
sleeps, drops a lock or may be stopped by EAGAIN, the action ends there.
Operators whose comment says mutant are plausible wrong versions of the
definition after them; nothing in a next-state relation uses them.

An MC module that extends several components (`MCConnection`, `MCStream`,
`MCDevices`, `MCEvdi`, `MCKvm`) adds a variable `part`, chosen at the start: the
components share no state, so one run explores each by itself from its own
initial states and under its own fairness, and never their product.

### Xmit

`c` is the record of the fields of `struct SremfbClient` the transmit path
touches; C functions are operators from record to record, or to a set of records
where they decide something the model leaves open (the controller's
thresholds, the result of an encode). `peer` is the client with every accepted
byte applied: TCP keeps the order, so a message is applied when its last byte
is accepted. `dpms` is the connector's power, `remodes` counts mode sets in
mid-stream.

| Action | Code |
|---|---|
| `ModeSet`, `Remode` | `on_mode_changed`, first and later |
| `Grab`, `CursorRepaint` | `grab_and_send`, `cursor_repaint` into `sremfb_xmit_damage` |
| `Dpms` | `on_dpms` |
| `FrameBlocked`, `CtrlBlocked`, `CtrlSent`, `FrameSent`, `SendFailed` | the ways a pass of `on_out_ready` goes |
| `RetryCb` | `retry_cb` after `sremfb_ctl_skip_encode` |
| `PingTickBusy`, `PingTickIdle`, `PingDead`, `Pong` | `ping_tick`, `sremfb_ctl_on_pong` |
| `ClientLost`, `Connect` | `sremfb_client_lost`, the client's reconnect |

Data is abstracted to what the properties see: an image is a function from
cells to a few pixel values, a frame carries the picture of its rectangle, the
lossy decoder is the set `exact` of cells that did not come out of it, an
access unit is an IDR or not. LZ4 and conversion change no control. `grabbuf`
starts as arbitrary memory after a mode set, as `g_malloc` leaves it.

A panel changes its picture behind the server's back in two ways: one that has
no power control is painted black on BLANK (`fb_blank`), and a client that loses
its server keeps in panel memory what it had, for a server that starts the next
connection from black. `peer.blind` is history: the pixels to which this
happened and that no frame has covered since. `PixelExact`, `ShadowIsScreen` and
`PanelOn` speak of all other pixels, for both kinds of panel, with DPMS and
reconnections in any combination.

### Session

`cl` holds the clients by connection object (the address `g_new0` returns, so
that a freed object may come back), `sources` the GLib sources that may call
back with one, `pool` the open devices, `files` the USB peer files. `Accept`,
`RefuseEarly` and `RefuseNoDevice` are the ways through `on_listen_ready`, with
the replacement of the same MAC in each. The gate may be open or closed at
every accept (`PlugGate` says when). A card may refuse to open at any attempt, now
or always (`AcquireExisting`), a self-heal may make a card or fail (`SelfHeal`),
and a client for whom nothing opens is refused with the card left behind. The
dead placeholders that `evdi_add_usable` makes on its way (up to 23 of the 24
cards of a call) no client can get; they are left to `Cards`. The 10 s mode timer
ticks at any moment and any time late: `quiet` is the time since a tick saw
power save, in ticks, and a tick adds at least one and as much more as the loop
was kept busy (`Quiets`). `sremfb_mode_wait_verdict` compares it with the two
graces (15 s and 60 s: 1 and 5 ticks; 1 and 2 here).

### PlugGate

The clock is a counter; `ev` is the pruned history of the code, `hist` the whole
one since the present gnome-shell, kept only for the properties. `Plug` takes
up to `AddTime` between the gate's verdict and the plug, as `evdi_add_usable`
does.

### Cards

`K` and `file` are the tracker and its file, `marker` the reset marker, `job`
the position of the server in `main`, `sremfb_evdi_reset` or
`evdi_add_usable`. The compositor is external: `known` are the numbers it ever
saw, `held` the cards it drives; a hotplug of a known number is ignored, as the
comment in `evdi.c` reports of mutter. `unsure` is the set of numbers whose
check the code gives up on or that a crash, a removal, a late pick-up or a node
that did not appear in time (`AddUnseen`) disturbed; the properties exempt exactly
these. `remove_all` may be refused in a reset that goes on (`ResetDone`).

### Audio

`A` is the static struct of `audio.c` with the requests it has sent, `pw`
PipeWire with the events under way to the server, `wish` the user's last choice.
`AudioReady` and `AudioStop` are `on_state` and `sremfb_audio_stop`;
`MdProperty`, `MdBind`, `MdGone` and `CoreError` the callbacks of the metadata
and the core; `Crash` and `Shutdown` end with the next start. Requests and events
are under way at any time, also while the user chooses, an output comes up, a
client leaves or the metadata goes. A stop that is decided on a lagging
`cur_default` is an ordinary step: mostly the late event repairs it, by way of
the recovery in `on_md_property`. Where it does not is recorded in the history
`past`, which no action looks at. `adrift` are outputs that keep the default: they
were reported after their client had left while another was connected (the
recovery does not look then) or after the file had been used up by an earlier
recovery (`spent`), or the request to move the default was lost with the
connection. `crossed` is set when a choice of the user crossed a request, or was
not what the server remembers as the default to put back. `NotOrphaned` exempts
`adrift` only, `ChoiceComesBack` both.

### Layout and Input

Both keep a mirror of mutter's monitors over `GetCurrentState`, with one call
under way, a flag to ask again and the signal `MonitorsChanged`; `bus` and
`calls` (in `Input`: `wire` and `call`) are what is under way. A call that times
out may still be answered: its reply (`Late`, in `Input` `Overdue`) is dropped by
GDBus when it comes (`StateLate`, `LayoutOverdue`). In `Layout` a
configuration is the set of pairs of screen and connector it was saved for,
`OnState` gives every waiting client whose connector the reply names its one
attempt, whichever screen the reply has there (`restore_for` compares the
connector only), and `MutterApply` refuses an old serial. In `Input` a device has what is held (`down`) and what the
desktop was shown (`seen`), which part until the frame ends; `LayoutMap` is the
arithmetic of `layout_map`, checked against the pixel libinput makes of it.

### Hid

`in` is `SremfbInput` (six key slots and modifiers, buttons, dirty nodes),
`target` what the target last read and which nodes went stale because a write
failed. Every write takes one of the outcomes of `node_write`: taken, refused
for now, or the node is closed; the empty reports of `release_all` have one outcome
for each node. `unseen` is history: the keys pressed since the last report, however
often and whatever that report shows.

### Kvm, Encoder and EncoderApi

`Kvm` follows a buffer from the driver through the comparison to its next turn
as the reference, and a change of mode through event, debounce, probe, poll and
restart. The pictures of clients are made of tiles that are tagged with their
mode, so that a stale one shows. The transmit path is cut down to its effect on
the panel: BLANK and UNBLANK overtake a picture that waits (`Ctrl`), a picture that
goes out lights the panel (`Deliver`, `set_blank(0)` of the client), and the end of
an H.264 episode sends the whole picture once more at any time (`Snapshot`).
`Encoder` is one call of `sremfb_enc_encode` as
its loop over `DQBUF`; the firmware splits a unit into pieces of any of the
shapes the code provides for, sends refuse, and finishes a frame after the call
gave up on it. `EncoderApi` is the abstract encoder: a frame in, the unit of
that frame out, lent until the next call, or failed for good. `Encoder` ends with
the refinement mapping (`ApiPhase`, `ApiUnit`); the run `kvm` checks it and
`KvmProofs` proves it (`EncoderImplements`).

### Usb

The scan, the guards and the bind are steps of their own, as are the two loops
of a pass of the attach script and each attach. `held` are the stubs usbip-host
reports as used: a server that dies leaves them held for nobody. Faults are
deaths of the client, of `sremfb-server`, of the server's machine, lost links,
refused binds and a regular shutdown with its three stages.

### View

The network thread's position is `net.pc`, the main thread's `main.pc`; a step is
what one of them does under `FB.lock` or `wlock`, or one atomic operation, so
`wake_main` is two steps (exchange, push) and `refresh` three (clear the flag,
the critical section, present). `srv` is the server: what it sent, and what
this connection holds down on the remote side; `srv.cut` says that a message was
lost on it, because a send timed out while the connection stayed. The decoder
gives the picture, keeps it, is one picture behind or fails, at a unit or at the
EOS. The user's keys, mouse and pad are one of each; `hand` is `I` and what is
physically held. An event of the
queue is handled before the refresh of the same round.

## 3. Runs

| Run | Checks |
|---|---|
| `xmit_pixels` | three rows, a dirty list of one: merging, trimming and the overflow collapse lose nothing (`DamageCovered`), a drained panel shows the desktop (`PixelExact`), `shadowbuf` is what the panel holds (`ShadowIsScreen`), with reconnects of a client that paints its panel black |
| `xmit_control` | pings, BLANK and UNBLANK amid H.264 episodes that may fail, a mode set in mid-stream, and reconnects of a panel that keeps its picture while it is off: `ArmedUntilFailure` (`WorkArmed`), `GreetedInOrder` (`WireOrder`, `HelloKept`), `PingsAnswerable`, `PanelRight` (`PanelOn`, `PixelExact`) |
| `stream` | `Converges`: when the desktop rests, the panel gets its last state; the viewer: `TextureTrue`, `Applied`, `FocusReleases`, `LatestShown` |
| `connection` | three connection objects for two places, a machine without MAC, cards that do not open, a crash: `NothingDangles` (owners, MACs and GLib sources), `UsbFileBacked`, `UsbAnnounced`, and `Answered` under fairness; USB: `CleanShutdown`, `Teleported`, `Detached` |
| `evdi` | gate, two clients over two windows: `PruneInvisible`, `CapsKept`, `UntilHonest`, `BackoffKept`; cards, three numbers, two shells, a removal, a crash: `UsableLights`, `RestartSafe` |
| `devices` | `NotOrphaned`, `ChoiceComesBack` (audio), `LayoutMeant`, `RefreshArmed` (layout and input), `DeskFollows`, `PointerHits` (input), `TargetFollows`, `TapShown` (HID) |
| `kvm` | `PictureKept`, `TargetShown` (capture), `UnitLent`, `EncoderImplements` (encoder) |
| `xmit_cut_frame`, `session_usb_shared`, `gate_fails_cap`, `audio_previous`, `kvm_dark` | expected violations, see below |

Every property of a passing run has a mutant in `PROJECT.json` that breaks it.
Type invariants other than that of `Xmit` are stated in their modules for the
proofs; `TypeOK` of `MCDevices`, `MCEvdi` and `MCKvm` joins those of a run.

**Bounds.** `xmit_*`: two pixel values and one to three rows tell apart
changed, unchanged and merged rows; a dirty list of one overflows with the
second rectangle; one ping and two queued messages give every order of
control messages. One row is enough where the control is the subject. One mode
set in mid-stream shows everything one can do. `xmit_control` is cut down further
by an action constraint: a lost client is torn down at once, no ping waits
together with a BLANK or UNBLANK, and DPMS and failures of the encoder come
before the mode set, not after it. `connection`, lifecycle: two places and three
objects give replacement, refusal and reuse of an object; two cards, one of the
boot and one of a self-heal, either of which may refuse. `evdi`: a window of three ticks in a run of seven
lets everything age out, five events let a run of failures pass both caps; the
list limit (1024 in the code) is not reached, as
60 plugs, their outcomes and the failures of a run do not reach it in an hour.
With `IgnoreMax` 2 and `Attempts` 3 both ways out of the loop of
`evdi_add_usable` occur. `devices`: two outputs of ours and two of the desktop
give hand-over and choice; two screens on three connectors let one move while
the other stays; a pointer range of 32 over three pixels does not divide; one
key slot overflows with the second key, and the two keys, which no action tells
apart, are symmetric. `kvm`: two buffers are the least with
which one can be kept back, two modes and no signal, three frames let the
remains of one fall into the next two. `connection`, USB: two devices, a list of one,
three faults: a server that dies, comes back and dies again, or dies together
with its client. `stream`, viewer: three rows, a damage list of one, four messages
over one connection or three over two without a user, or five user events with a
stream that comes and goes; the network's messages and the user's events are
budgets of the initial state.

**Fairness.** `Xmit`: watches, timers and the echo of pings run (a client that
does not read or echo is dropped by the watchdog, which the property allows).
A pass that builds is strongly fair, because `sremfb_ctl_skip_encode` holds an
encode back for at most one frame time and the queue is emptied faster than
pings refill it. `Session`: the mode timer and the idle source run. `Kvm`:
timers fire, ready descriptors are served, a target with a picture sends
frames, a client that is cut is let go. `Usb`: the client's loop and its
two-second tick, the 15 s timer of the reconciler and the machine's restart;
`Disconnect` is strongly fair because every turn of the frame loop reads the
socket between two scans. `View`: both threads run; they wait for each other
only for a lock held during a copy. Nothing is assumed of clients, users, the
compositor or the network. Deadlock is not checked where the bounded behaviour
ends (budgets of events or faults, no reconnect).

### Where the code and its documentation part

With a run that shows it:

- `xmit_cut_frame`: a mode set while streaming (GNOME sets the mode again on
  wake-up) forgets a message that is half on the wire; the client takes the
  next header for payload.
- `session_usb_shared`: peer files are named by address, so the late teardown
  of an old connection without MAC removes the file of the new one.
- `gate_fails_cap` (`PlugGate.FailsCapped`): "whatever the path, at most
  FAILS_PER_HOUR mode timeouts" per sliding hour (`evdi.c:766-767`). Clients that
  were let in one failure below the cap may all time out. What holds instead is
  `FailsBounded`: the cap less one, plus one for each client.
- `audio_previous` (`Audio.PreviousComesBack`): "the previous default comes back
  when the client leaves (unless the user picked another output in the
  meantime)" (`audio.c:9-12`). A client that leaves before the event of its own
  request is taken for one whose user chose another output; if another client is
  connected when the event comes, nothing moves the default away any more. With
  choices of the user (`MaxPicks` above 0) there are two more ways: `saved` is not
  cleared when the last client leaves after the user chose another output, so
  that the session after it gives back the older one; and a request overwrites
  a choice it crosses.
- `kvm_dark` (`Kvm.DarkWithoutSignal`): without a signal the screen is off
  (`doc/SPEC-kvm-backend.md:282-283`). `blank_all` drops no pending damage, and a
  frame that leaves after the BLANK, or the snapshot at the end of an H.264
  episode, lights the panel again; it then keeps the last picture, whole
  (`PictureTrue`, `TargetShown`).

Stated as a definition of its module and not met; to see the trace, put the
definition in the INVARIANTS of the run named:

- `Xmit.PictureRight` (constants of `XmitCutFrame.cfg`): the same mode set zeroes
  `shadowbuf`, "what the client last got" (`core.h`), but the client keeps its
  picture: rows that are black in the new picture are trimmed away.
- `Session.GraceGiven` (`connection`): "A session that just woke up gets
  SREMFB_PS_GRACE_US to modeset" (`evdi.h:80-85`). The grace is compared with the
  time since a tick saw power save, not since the wake-up: a tick that comes late,
  behind an accept that sleeps in `evdi_add_usable`, finds it used up.
- `Hid.EveryTapShown` (`devices`): "émettre l'appui d'abord, sinon la cible ne
  verrait rien" (`input_hid.c:410-411`). A key that the last report shows, released,
  pressed and released again within one frame, passes for sent; two taps reach
  the target as one. `TapShown` is what holds: no key goes by unnoticed.
- `Usb.GivenBack` (`connection`): `usb_export_stop` gives back what is on a list of 16,
  and a device plugged in again takes a second place; what no longer fits stays
  with usbip-host.
- `Usb.InUseUntouched` (`connection`): a mount that falls between the guards and the
  bind is torn away; the code has no lock to prevent it.
- `View.NothingHeld` (`stream`): "Nothing stays held down" (README). A key that went
  down before Right Ctrl and goes up while it is down stays held on the remote
  side, and so does a button pressed before the capture is switched on, as its
  release goes to the other device. The next loss of focus releases both.
- `View.InputConfirmed` (`stream`): after a reconnection that the main thread has
  not seen yet, input goes to a connection whose hello did not confirm it; the
  server ignores it.

Others bound what the passing runs say:

- a second mode set before the hello has drained drops the hello, and none
  follows although `xmit.c` says so (`FirstMode` in `HelloKept`);
- a failed encode queues EOS and a snapshot while the watch is being disarmed:
  `WorkArmed` fails with `"error"` in `EncResults`; the next ping or damage
  repairs it, which is what `Converges` shows;
- a panel that is switched off rather than painted black keeps its picture over
  a reconnect, and rows that are black on the desktop are trimmed away
  (`peer.blind`);
- BLANK overtakes pending damage, and the frame built after it lights the panel
  again;
- a panel that is painted black for want of power control stays black after
  UNBLANK until something changes (`peer.blind`);
- a recovery of the default output that falls into a session in which `saved`
  stays set uses up the file, and no take writes it again (`past.spent`); after
  that "The default we replaced survives a crash of ours" (`audio.c:178`) fails;
- a client for whom no card opens is refused with neither a failure nor a plug on
  record, and while the budget lasts each retry may make another card (up to 24
  in one call): nothing bounds them over time, so no bound is stated;
- an input message that the viewer could not send on a live connection is not
  repeated: a key may stay held until the connection ends (`srv.cut`);
- a wake event that SDL refuses is made up for by the next publication only:
  `LatestShown` allows for it (`wake.missed`);
- a unit that the firmware interrupts for more than 50 ms at a full buffer is
  handed over as it is (`late` in `UnitExact`).

## 4. Proofs

Every theorem holds for every value of the constants that the named assumptions
of its module allow; the run of the same property shows it on an instance.

| Module | Theorem | States |
|---|---|---|
| `XmitProofs` | `TypeCorrect` | `Spec => []TypeOK` |
| | `DamageNeverForgotten` | `Spec => []DamageCovered` |
| `XmitWireProofs` | `AlwaysArmed` | `Spec => []ArmedUntilFailure` |
| | `AlwaysInOrder` | `Spec => []GreetedInOrder` |
| | `AlwaysAnswerable` | `Spec => []PingsAnswerable` |
| | `AlwaysPixelExact` | `Spec => []PixelExact` |
| | `ShadowAlwaysScreen` | `Spec => []ShadowIsScreen` |
| | `PanelAlwaysRight` | `Spec => []PanelRight` |
| `SessionProofs` | `SessionTyped` | `Spec => []TypeOK` |
| | `SessionHoldsTogether` | `Spec => []NothingDangles` |
| | `SessionFilesBacked` | `Spec => []UsbFileBacked` |
| | `SessionFilesThere` | `Spec => []UsbAnnounced`, if `OwnAddress` |
| `EvdiProofs` | `CardsTypeCorrect` | `CardsSpec => []CardsTypeOK` |
| | `UsableAlwaysLights` | `CardsSpec => []UsableLights` |
| | `RestartAlwaysSafe` | `CardsSpec => RestartSafe` |
| | `GateTypeCorrect` | `GateSpec => []GateTypeOK` |
| | `UntilAlwaysHonest` | `GateSpec => []UntilHonest` |
| | `PruneAlwaysInvisible` | `GateSpec /\ []Fits => []PruneInvisible` |
| | `CapsAlwaysKept` | `GateSpec /\ []Fits => []CapsKept` |
| | `BackoffAlwaysKept` | `GateSpec /\ []Fits => BackoffKept` |
| `DevicesProofs` | `HidTypeCorrect` | `HidSpec => []HidTypeOK` |
| | `TargetAlwaysFollows` | `HidSpec => []TargetFollows` |
| | `TapAlwaysShown` | `HidSpec => []TapShown` |
| | `InputTypeCorrect` | `InputSpec => []InputTypeOK`, if `FineEnough` |
| | `DeskAlwaysFollows` | `InputSpec => []DeskFollows` |
| | `PointerAlwaysHits` | `InputSpec => []PointerHits`, if `FineEnough` |
| | `LayoutAlwaysCurrent` | `InputSpec => []LayoutCurrent` |
| | `LayoutTypeCorrect` | `LayoutSpec => []LayoutTypeOK` |
| | `LayoutAlwaysMeant` | `LayoutSpec => []LayoutMeant` |
| | `RestoreAlwaysArmed` | `LayoutSpec => []RestoreArmed` |
| | `RefreshAlwaysArmed` | `Spec => []RefreshArmed` |
| | `AudioTypeCorrect` | `AudioSpec => []AudioTypeOK` |
| | `NeverOrphaned` | `AudioSpec => []NotOrphaned` |
| | `ChoiceAlwaysBack` | `AudioSpec => []ChoiceComesBack` |
| `KvmProofs` | `EncoderTypeCorrect` | `EncoderSpec => []EncoderTypeOK` |
| | `UnitAlwaysLent` | `EncoderSpec => []UnitLent` |
| | `EncoderRefines` | `EncoderSpec => EncoderImplements` |
| | `KvmTypeCorrect` | `KvmSpec => []KvmTypeOK` |
| | `PictureAlwaysKept` | `KvmSpec => []PictureKept` |
| `UsbProofs` | `UsbTypeCorrect` | `UsbSpec => []UsbTypeOK` |
| | `ShutdownAlwaysClean` | `UsbSpec => []CleanShutdown` |
| `ViewProofs` | `ViewTypeCorrect` | `ViewSpec => []ViewTypeOK` |
| | `TextureAlwaysTrue` | `ViewSpec => []TextureTrue` |
| | `AlwaysApplied` | `ViewSpec => []Applied` |
| | `FocusAlwaysReleases` | `ViewSpec => []FocusReleases` |

**`XmitProofs`.** The assumptions are those of `Xmit` on its constants: a
non-empty geometry, black is a pixel, rectangles have integer corners,
capacities are positive. The inductive invariant is `TypeOK /\ DamageCovered`.
The types are needed because the argument is about functions on cells and
sequences of rectangles. It goes operator by operator: a lemma for each helper
says that the pixels in which `grabbuf` differs from `shadowbuf` stay inside the
pending region. The steps are that union and bounding box cover their
arguments, that `RectTrim` keeps every changed row, that `DirtyAdd` covers the
old region and the new rectangle in each of its four cases, that building a
frame removes from the region only what it copies into `shadowbuf`, and that a
switch to H.264 trades rectangles for the whole screen. Then each action
preserves the invariant, one step each, and PTL joins them.

**`XmitWireProofs`.** The properties speak of moments at which everything is
sent; what carries them from one such moment to the next is what is queued.
`WireAll` says where in the queue things may be: a hello is at its front or
gone (`Greeting`), in RAW mode an episode that is open at the client has its
EOS queued, in H.264 mode the next unit is an IDR unless the client is in an
episode that no queued EOS ends (`Episodes`), and work is armed until the encoder
fails (`Armed`). `PanelAll` adds the picture: `shadowbuf` is the client's
screen with the frame in flight painted over it, outside the pending region and
the pixels in `blind` (`Shown`), the last BLANK or UNBLANK in the queue agrees with
the connector (`Lit`), and a new connection finds a panel that is black but for
`blind` (`Fresh`, `Dark`). For an empty queue these give the properties. That
`blind` is exactly what a panel may change by itself makes the theorems hold of
every kind of panel and every environment, with no hypothesis on either.
`AlwaysAnswerable` counts the places of PING in the queue and has an invariant of
its own (`Answerable`). `FirstMode` is part of the properties because
`xmit_cut_frame` shows what a second mode set does.

**`SessionProofs`.** A hello may tear down the old connection of its machine and
take the new one in within one callback, and only the two together are a step.
So the parts of `SessionInv` are operators on a client table, sources, pool and
files, and the lemmas are about the teardown (`LostKeeps`), the device it frees
(`ReleaseFields`), the device a new client gets (`AcquireGives`) and its entry
(`TakenKeeps`), each of any such tables that are in order (`Books`). `Owned` says
that the two directions of ownership agree and that no client has two devices,
`OneEach` is one connection for a MAC, `Called` ties sources to clients,
`Stocked` the pool to the cards, `Backed` files to clients while the server
runs. The hypothesis `OwnAddress` of `SessionFilesThere`, an address and a MAC for
each machine with USB devices, holds in `connection`; `session_usb_shared` shows
that the property fails without it.

**`EvdiProofs`: Cards.** `CardsInv` relates four copies of the truth: what the kernel
has, what gnome-shell drives and knows, the tracker in memory and its file. A pid
is never used twice, so a record of an older shell never fits (`Pids`); what is in
memory for the present shell is what is in the file (`Mirror`), across crashes
because every change is saved in the step that makes it; a number on record is
one the shell has seen (`Seen`); a dead one is dark (`DeadDark`), and so is the
card under judgement if its number is on record (`Judging`), which is why the
verdict never turns a card that is driven into a dead one. `Lights` is
`UsableLights` of the record rather than of the file. `Remembered` and
`ResetSpares` then hold of each action.

**`EvdiProofs`: PlugGate.** The list and the history are different sequences
with the same verdict, and `Shadow` says why: there is an increasing map from the
places of the list to places of the history with the same events, it reaches
everything a rule may still look at (`Keep`: the window and the failures of the
present run), and if it reaches anything from before the last lit connector it
reaches that event too, so that a run is cut at the same place in both. Time,
pruning and appending keep it (`LaterShadow`, `PruneShadow`, `AppendShadow`).
Counts are compared through the map (`PartSame`) rather than by induction over
the sequences: the n-th of a set of places exists because ranks differ and there
are as many as places (`NthIs`). `FreeAfter` is the meaning of `window_free_at`:
it is later than x exactly if the hour that ends at x has `cap` events or more.
From this follow that the gate is open exactly if no backoff runs and both
counts are below their caps (`GateOpens`), that `until` is the moment at which
it opens (`UntilOf`, for any list in order, also one cut at its limit), and
that equal counts give equal verdicts (`GateSame`). `CapsKept` is then inductive
with `Mirrored`. The hypothesis `Fits` is that what the rules still look at has
room in the list: beyond PLUG_EVENTS_MAX `plug_prune` drops the oldest events
although they count. 60 plugs an hour with their outcomes are far from 1024; a
run of failures, at most two an hour once the backoff has grown to half an hour,
takes weeks to get there. `GateAssumption` gained two facts with the proof: there
are finitely many clients, and BACKOFF_MIN_S doubled 16 times is past
BACKOFF_MAX_S (60 s and 1800 s in the code), so that the cap on the exponent
shortens no backoff (`BackoffIs`).

**`DevicesProofs`: Hid.** `HidInv` separates two distances that `TargetFollows` closes
at once: what the target shows is the last report unless a write of that node
failed (`KbdShown`, `BtnShown`), and the last report is the present state unless
the node is dirty (`KbdSent`, `BtnSent`). A key has one slot or one bit
(`Held`); a key pressed since the last report is still down or in that report
(`Unshown`). `release_all` is three flushes in a row, each of which may fail by
itself, so the lemmas are about one flush of any state that is `Sound`.

**`DevicesProofs`: Input.** `DeskInv` adds to `DeskFollows` that only devices
that exist have keys down or anything to report (`Open`), and none does without a
client (`OffClean`). The mirror of the monitors is right because of order:
there is one call at a time (`OneCall`), a reply that tells an old layout has
the signal of the change behind it on the connection (`Announced`), and a
mirror at rest is mutter's layout or the signal is still to come (`InUse`).
Where the pointer lands is arithmetic: `MapHits` shows that the rounding of
`layout_map` stays inside the pixel if the axis has at least two steps for each
pixel of the stream. That is `FineEnough`, a hypothesis of the theorem; with the
32768 steps of the code and a stream as wide as its monitor it holds for stages
of up to 16384 pixels, and the instance satisfies it.

**`DevicesProofs`: Layout.** `RestoreInv` dates what is under way by mutter's
serial. A reply that tells old monitors has the signal of the change behind it
(`Told`); no reply has a serial yet to come, and one with the present serial tells
the present monitors (`Dated`); an apply with the present serial asks for a
configuration of these monitors but for one connector, and none is saved for
exactly these (`AllMeant`): mutter refuses every other apply. A client that
waits has a monitor (`Waits`), so its turn comes with the next reply.

**`DevicesProofs`: Audio.** Both properties speak of a moment at which nothing
is under way; `AudioInv` speaks of what PipeWire will come to when all the
requests sent so far are done (`Coming`), which no event in between changes.
Requests exist only while connected. `Kept` holds in every history: only live
outputs were made the default, with the default before them remembered, in
memory and, until it is spent, in the file; with nothing remembered, no output
of ours is coming but one adrift; the events under way end in the default, so
that the server's copy, however old, will come to it; and with nothing under way
an output of ours that has the default was made so and is there, or is adrift.
That a stop decided on the lagging copy is harmless then follows from the last
two: the default is reported once more, after the stop, and is recovered from
the file, or joins `adrift`. Unless a choice was crossed, `ChoiceMeant` adds that
the default is, and is asked to be, the user's wish or an output of ours, and
that what is remembered, in memory and in the file, is that wish.

**`KvmProofs`: Encoder.** `EncoderInv` keeps every buffer in one place (`OnePlace`),
ties the call to the unit under way (`Control`, `InCall`, `Sending`), bounds the
stamps (`Stamps`) and orders the pieces of the present frame over what the call
has, what is queued and what the firmware still holds (`Order`): a first slice
before its rest, and no second of either. Late pieces of earlier frames may be
anywhere, and carry an older stamp. The refinement maps a call under way to
`busy`, a unit being sent to `lent`; each action of the loop is then one step of
`EncoderApi` or none.

**`KvmProofs`: Kvm.** `KvmInv` keeps every buffer in one place, with the driver,
filled once, or kept as the previous frame (`BufferOnePlace`), and the master image
equal to that frame (`MasterIsPrevious`). The damage holds every tile that
differs from the previous frame, so copying it turns the master image into the
new one, and blitting it turns a client's picture that was the old image into
the new one (`BlitTrue`). That argument needs `Fits`, which the property does
not say: with a signal, a client that is not being cut has its fit for the mode
in force; a blit with another fit draws nothing, and a picture would stay old.
Without a signal a panel is dark or shows what the client's buffer holds
(`Pictured`): the blank makes it dark, nothing draws into the buffer until there
is a signal again, and a late frame brings all of it.
`Watching` (frames only with a signal, a signal has a mode) closes the gap
between a failed dequeue and the probe that follows it. The assumption that a
source has at least one tile is new with the proof.

**`UsbProofs`.** `CleanShutdown` needs two facts of each other's scripts: a port
in use has its record (`Recorded`), or `--detach-all` would not find it, and no
pass of the reconciler runs once the system is stopping (`Quiet`), or it would
attach again.

**`ViewProofs`.** Two threads share the picture, the wake flag and the
connection, and `ViewInv` says who has what. `Token`: a set wake_pending is a
token that the thread about to push, SDL's queue or the main thread about to
pull has, and only one of them. `Generations`: the texture belongs to a
generation and there is one for as long as there is a picture. `Decoded`: a unit
the decoder keeps is the last one sent, in an episode that is not over, also when
the decoder is one picture behind, and otherwise the shared picture is what was
sent. `Holds`: only an open connection
whose hello confirmed INPUT and which the main thread has seen holds anything.
The network thread may stand before its wake after any of its steps; `At` is
where it will be after it. For the damage list the lemmas are that a hull covers
its spans and that `DamageAdd` forgets no row when the list is full.

Only model-checked: liveness (`Converges`, `Answered`, `TargetShown`,
`Teleported`, `Detached`, `LatestShown`). Liveness under fairness, `ENABLED` and
what a recursion computes for every input are out of the prover's reach; no
module here is recursive.

## 5. Plan

All modules of the plan are written, and every safety property a passing run
checks is stated by a theorem. What would say more is `PlugGate` past the limit of
its list: the verdict should still be that of the whole history, because the
backoff is at its maximum long before; that would replace `Fits` by a bound on
PLUG_EVENTS_MAX.

## 6. Not modelled

- Socket accept, hello reading and allowlist (`core/net.c`), pixel conversion
  and EDID bytes, x264 and LZ4 (their results are inputs), option parsing,
  packaging and the latency tools: I/O or arithmetic without protocol state.
- Controller: the rates, delays and AIMD of `ctl_evaluate`; `Xmit` lets it move
  at any moment, so its safety does not depend on them. The upstream byte
  parser and the client's silence timeout.
- Client: DRM page flips and the V4L2 decoder.
- EVDI: an event the kernel queued for the previous owner of a device;
  `Session` lets a mode set arrive at any time after a plug. The cursor is
  arbitrary damage.
- Audio: the UDP packets, their token and sequence numbers, on both sides.
- Layout: XML, modes, scales, transforms; D-Bus errors other than a time-out.
- KVM: a failing QBUF, capture devices without SOURCE_CHANGE, rounding in
  `blit_rect`, EDID programming, the test source.
- USB: usbip's own errors while a device is in use, ports without a record.
- Viewer: pointer positions and the wheel, window modes, statistics, dumps and
  scripted tests, reconnection delays, a texture that cannot be created, a
  socket that takes only part of an input message.

Simplifications inside the modules, and why the properties stand:

- `Session.SourcesCleared` removes the sources of a client at once; the code
  removes each by its id, all within the teardown. The quarantine and the
  placeholders of `evdi_add_usable` are seen from `Session` as one card more or
  none.
- `Usb.ReclaimHello`: a stub that cannot be released, and the unbind and bind that
  the client then tries, are left out: the reclaim is taken to work. The hello
  and the peer file it leads to are one step.
- `View.PutRect` is enabled outside an H.264 episode only: a server whose mode set
  drops the EOS (`xmit_cut_frame` has such a mode set) would send a rectangle inside
  one. The server releases what a connection held in the step that closes it on
  the viewer's side; over TCP it learns of it a little later, or by its watchdog.
- `Xmit.BuildH264Frame`: an encoder that returns no bytes without an error is left
  out ("shouldn't happen", `xmit.c:335`; neither encoder does it). `CursorRepaint` is disabled for a client being lost,
  whose buffers nobody reads any more.
- `Encoder.Expire`: a unit that the deadline ends is exempt from `UnitExact`, as the
  code hands over what it has; `EncoderImplements` still says that it holds pieces
  of its own frame only.
- `Kvm.SignalLost` blanks when a mode or a stream was there; after a restart that
  failed the code may send one more BLANK to panels that are dark.
