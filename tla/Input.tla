------------------------------- MODULE Input -------------------------------
(***************************************************************************)
(* Input replay, server/core/input.c: the four uinput devices of a client, *)
(* what the desktop has seen of them at the last SYN, and the layout of    *)
(* the compositor that places the absolute pointer.  The layout is read    *)
(* from mutter by a call whose reply, like the signal MonitorsChanged, is  *)
(* under way for a while.  One client: two share nothing but the layout.   *)
(* The pointer is modelled along one axis, the other is alike.             *)
(***************************************************************************)
EXTENDS Integers, Sequences, SequencesExt, FiniteSetsExt

CONSTANTS
  DevSets,       \* the sets of devices that may come to be at a start
  PointerMax,    \* ABS_POINTER_MAX (32767)
  Width,         \* c->geom.width
  Layouts,       \* layouts of the desktop: [x, w, ext] of the client's monitor
  NoLayout,      \* a layout, or a reading of it, without the monitor
  MaxMoves,      \* bound on changes of the layout
  MaxLosses      \* bound on calls that fail

ASSUME InputAssumption ==
  /\ DevSets \subseteq SUBSET {"KEYBOARD", "MOUSE", "POINTER", "GAMEPAD"}
  /\ {PointerMax, Width} \subseteq Nat \ {0}
  /\ NoLayout \notin Layouts
  /\ Layouts \subseteq [x : Nat, w : Nat \ {0}, ext : Nat]
  /\ \A m \in Layouts : m.x + m.w <= m.ext
  /\ {MaxMoves, MaxLosses} \subseteq Nat

VARIABLES
  dev,           \* c->input->dev: created devices, keys down, off centre, dirty
  placed,        \* c->input->abs_placed
  on,            \* c->input is there
  seen,          \* desktop: the keys of each device at its last SYN
  shown,         \* desktop: the gamepad is off centre
  L,             \* the static struct L: pending, again, mons
  layout,        \* mutter: the layout in force
  call,          \* GetCurrentState is under way to mutter
  wire,          \* replies and signals under way to the server
  blind,         \* the last call failed and no other was asked for
  shot,          \* history: the last absolute event replayed since a SYN
  moves, losses  \* bounds only

desk == <<seen, shown>>
reading == <<L, layout, call, wire, blind, moves, losses>>
inputVars == <<dev, placed, on, seen, shown, L, layout, call, wire, blind, shot,
               moves, losses>>

Devs == {"KEYBOARD", "MOUSE", "POINTER", "GAMEPAD"}

\* The key codes each device declares, one for all of its like.
Codes == [d \in Devs |-> IF d = "KEYBOARD" THEN {"KEY"}
                         ELSE IF d = "GAMEPAD" THEN {"BTN_A"} ELSE {"BTN_LEFT"}]

Readings == Layouts \cup {NoLayout}
Signal == [msg |-> "changed"]
Reply(m) == [msg |-> "state", mons |-> m]
Overdue == [msg |-> "overdue"]   \* the reply to a call that has failed
NoShot == [aim |-> 0, out |-> 0, lay |-> NoLayout]
AllUp == [d \in Devs |-> {}]
\* The devices fds, with nothing down.
Idle(fds) == [fd |-> fds, down |-> AllUp, dirty |-> {}, tilted |-> FALSE]

InputTypeOK ==
  /\ dev \in [fd : SUBSET Devs, down : [Devs -> SUBSET UNION {Codes[d] : d \in Devs}],
              dirty : SUBSET Devs, tilted : BOOLEAN]
  /\ \A d \in Devs : dev.down[d] \subseteq Codes[d] /\ (d \notin dev.fd => dev.down[d] = {})
  /\ {placed, on, shown, call, blind} \subseteq BOOLEAN
  /\ L \in [pending : BOOLEAN, again : BOOLEAN, mons : Readings]
  /\ layout \in Readings
  /\ wire \in Seq({Signal, Overdue} \cup {Reply(m) : m \in Readings})
  /\ shot \in [aim : -1 .. Width, out : 0 .. PointerMax, lay : Readings]

InputInit ==
  /\ dev = Idle({}) /\ placed = FALSE /\ on = FALSE
  /\ seen = AllUp /\ shown = FALSE
  /\ L = [pending |-> FALSE, again |-> FALSE, mons |-> NoLayout]
  /\ layout \in Readings
  /\ call = FALSE /\ wire = <<>> /\ blind = FALSE
  /\ shot = NoShot
  /\ moves = 0 /\ losses = 0

-----------------------------------------------------------------------------
(* The layout. *)

\* layout_refresh from l: a second one waits for the reply of the first.
LayoutRefresh(l) ==
  /\ L' = IF l.pending THEN [l EXCEPT !.again = TRUE] ELSE [l EXCEPT !.pending = TRUE]
  /\ call' = (call \/ ~l.pending)
  /\ blind' = FALSE

\* The end of on_layout_reply, with layout_parse done.
LayoutAnswered(l, failed) ==
  IF l.again THEN LayoutRefresh([l EXCEPT !.pending = FALSE, !.again = FALSE])
  ELSE L' = [l EXCEPT !.pending = FALSE] /\ call' = FALSE /\ blind' = failed

LayoutReply ==
  /\ wire # <<>> /\ Head(wire).msg = "state"
  /\ wire' = Tail(wire)
  /\ LayoutAnswered([L EXCEPT !.mons = Head(wire).mons], FALSE)
  /\ UNCHANGED <<dev, placed, on, desk, layout, shot, moves, losses>>

\* The call fails after 5 s; its reply, if there ever is one, comes too late.
LayoutFailed ==
  /\ L.pending
  /\ losses < MaxLosses /\ losses' = losses + 1
  /\ wire' = [i \in DOMAIN wire |-> IF wire[i].msg = "state" THEN Overdue ELSE wire[i]]
  /\ LayoutAnswered(L, TRUE)
  /\ UNCHANGED <<dev, placed, on, desk, layout, shot, moves>>

\* GDBus drops the reply to a call that has timed out.
LayoutOverdue ==
  /\ wire # <<>> /\ Head(wire) = Overdue
  /\ wire' = Tail(wire)
  /\ UNCHANGED <<dev, placed, on, desk, L, layout, call, blind, shot, moves, losses>>

\* on_monitors_changed.
MonitorsChanged ==
  /\ wire # <<>> /\ Head(wire) = Signal
  /\ wire' = Tail(wire)
  /\ LayoutRefresh(L)
  /\ UNCHANGED <<dev, placed, on, desk, layout, shot, moves, losses>>

\* mutter: external.
MutterReplies ==
  /\ call
  /\ call' = FALSE
  /\ wire' = Append(wire, Reply(layout))
  /\ UNCHANGED <<dev, placed, on, desk, L, layout, blind, shot, moves, losses>>

MutterMoves(m) ==
  /\ moves < MaxMoves /\ moves' = moves + 1
  /\ m # layout
  /\ layout' = m
  /\ wire' = Append(wire, Signal)
  /\ UNCHANGED <<dev, placed, on, desk, L, call, blind, shot, losses>>

\* Mutant: the left edge of the pixel and no clamp.
LayoutMapEdge(m, v) == ((m.x * Width + v * m.w) * (PointerMax + 1)) \div (Width * m.ext)

\* layout_map: the middle of the pixel, over the whole stage.
LayoutMap(m, v) ==
  LET c == Max({0, Min({v, Width - 1})})
      g == 2 * m.x * Width + (2 * c + 1) * m.w
  IN  Min({PointerMax, (g * (PointerMax + 1)) \div (2 * Width * m.ext)})

-----------------------------------------------------------------------------
(* The devices. *)

\* sremfb_input_start: some of the devices may not come to be.
InputStart(fds) ==
  /\ ~on
  /\ fds # {}
  /\ on' = TRUE
  /\ dev' = Idle(fds)
  /\ placed' = FALSE
  /\ LayoutRefresh(L)
  /\ UNCHANGED <<desk, layout, wire, shot, moves, losses>>

\* A SYN on the devices ds: the desktop acts on what it was told.
Report(ds) ==
  /\ seen' = [d \in Devs |-> IF d \in ds THEN dev'.down[d] ELSE seen[d]]
  /\ shown' = IF "GAMEPAD" \in ds THEN dev'.tilted ELSE shown

\* Mutant: the releases are not closed by a SYN.
ReleaseAllOpen(fds) ==
  /\ dev' = [Idle(fds) EXCEPT !.dirty = dev.dirty]
  /\ UNCHANGED desk

\* input_release_all, indev_release: fds are the devices left open.
InputReleaseAll(fds) ==
  /\ dev' = Idle(fds)
  /\ Report({d \in dev.fd : dev.down[d] # {} \/ d \in dev.dirty \/ d = "GAMEPAD"})

InputStop ==
  /\ on
  /\ on' = FALSE
  /\ placed' = FALSE
  /\ InputReleaseAll({})
  /\ shot' = NoShot
  /\ UNCHANGED reading

\* sremfb_input_msg, one action per kind of event.
MsgAll ==
  /\ on
  /\ InputReleaseAll(dev.fd)
  /\ shot' = NoShot
  /\ UNCHANGED <<placed, on, reading>>

MsgSyn(d) ==
  /\ on /\ d \in dev.fd
  /\ dev' = [dev EXCEPT !.dirty = @ \ {d}]
  /\ Report({d})
  /\ shot' = IF d = "POINTER" THEN NoShot ELSE shot
  /\ UNCHANGED <<placed, on, reading>>

MsgPress(d, k) ==
  /\ on /\ d \in dev.fd
  /\ d = "POINTER" => placed
  /\ k \notin dev.down[d]
  /\ dev' = [dev EXCEPT !.down[d] = @ \cup {k}, !.dirty = @ \cup {d}]
  /\ UNCHANGED <<placed, on, desk, reading, shot>>

MsgRelease(d, k) ==
  /\ on /\ d \in dev.fd
  /\ k \in dev.down[d]
  /\ dev' = [dev EXCEPT !.down[d] = @ \ {k}, !.dirty = @ \cup {d}]
  /\ UNCHANGED <<placed, on, desk, reading, shot>>

MsgRel(d) ==
  /\ on /\ d \in dev.fd \cap {"MOUSE", "POINTER"}
  /\ dev' = [dev EXCEPT !.dirty = @ \cup {d}]
  /\ UNCHANGED <<placed, on, desk, reading, shot>>

MsgStick(away) ==
  /\ on /\ "GAMEPAD" \in dev.fd
  /\ dev' = [dev EXCEPT !.tilted = away, !.dirty = @ \cup {"GAMEPAD"}]
  /\ UNCHANGED <<placed, on, desk, reading, shot>>

MsgAbs(v) ==
  /\ on /\ "POINTER" \in dev.fd
  /\ L.mons # NoLayout
  /\ placed' = TRUE
  /\ dev' = [dev EXCEPT !.dirty = @ \cup {"POINTER"}]
  /\ shot' = [aim |-> v, out |-> LayoutMap(L.mons, v),
              lay |-> IF L.mons = layout THEN layout ELSE NoLayout]
  /\ UNCHANGED <<on, desk, reading>>

MsgAbsDropped ==
  /\ on /\ "POINTER" \in dev.fd
  /\ L.mons = NoLayout
  /\ LayoutRefresh(L)
  /\ UNCHANGED <<dev, placed, on, desk, layout, wire, shot, moves, losses>>

InputNext ==
  \/ LayoutReply \/ LayoutFailed \/ LayoutOverdue \/ MonitorsChanged \/ MutterReplies
  \/ \E m \in Readings : MutterMoves(m)
  \/ \E fds \in DevSets : InputStart(fds)
  \/ InputStop \/ MsgAll \/ MsgAbsDropped
  \/ \E d \in Devs : \/ MsgSyn(d) \/ MsgRel(d)
                     \/ \E k \in Codes[d] : MsgPress(d, k) \/ MsgRelease(d, k)
  \/ \E away \in BOOLEAN : MsgStick(away)
  \/ \E v \in -1 .. Width : MsgAbs(v)

InputSpec == InputInit /\ [][InputNext]_inputVars

-----------------------------------------------------------------------------
(* Properties. *)

\* The desktop holds what the client holds once its frame is complete, and
\* nothing once the client has let go of all or is gone: no dropped link leaves
\* a key down (indev_release, sremfb_input_stop).
DeskFollows ==
  \A d \in Devs : d \notin dev.dirty =>
    seen[d] = dev.down[d] /\ (d = "GAMEPAD" => shown = dev.tilted)

\* With nothing under way the layout the pointer is placed on is mutter's,
\* unless the last call failed (layout_refresh and its two flags).
LayoutCurrent ==
  on /\ ~L.pending /\ wire = <<>> /\ ~blind => L.mons = layout

\* Half a pixel of every monitor is at least one step of the absolute axis wide.
FineEnough == \A m \in Layouts : 2 * Width * m.ext <= m.w * (PointerMax + 1)

\* An absolute event placed by the layout in force puts the cursor in the part
\* of the stage that shows the pixel it was aimed at; libinput reads value v as
\* v * extent / (max + 1) (layout_map).
PointerHits ==
  shot.lay # NoLayout =>
    LET m == shot.lay
        v == Max({0, Min({shot.aim, Width - 1})})
        at == shot.out * m.ext * Width
        left == (m.x * Width + v * m.w) * (PointerMax + 1)
    IN  left <= at /\ at < left + m.w * (PointerMax + 1)

=============================================================================
