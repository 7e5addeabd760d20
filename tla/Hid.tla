--------------------------------- MODULE Hid ---------------------------------
(***************************************************************************)
(* The inputs of the KVM server, server/kvm/input_hid.c: evdev events of   *)
(* one client become reports of a USB keyboard, mouse and absolute pointer *)
(* that the target machine reads.  A report takes effect at SYN, carries   *)
(* the whole state, and is lost when the target does not read.             *)
(* Positions and wheels are left out: a report that carries them is a      *)
(* report.                                                                 *)
(***************************************************************************)
EXTENDS Naturals, Sequences, SequencesExt

CONSTANTS
  Holders,       \* clients that may take the inputs
  NoHolder,
  Keys,          \* evdev codes with a usage of their own in the key array
  Mods,          \* evdev codes of modifiers
  Buttons,       \* mouse buttons
  Slots          \* keys a boot protocol report has room for (6)

ASSUME HidAssumption ==
  /\ NoHolder \notin Holders
  /\ Keys \cap Mods = {}
  /\ Slots \in Nat \ {0}

VARIABLES
  H,             \* the static struct H: holder and open nodes
  in,            \* struct SremfbInput of the holder
  target         \* the target: what the last report of each node showed

hidVars == <<H, in, target>>

HidNodes == {"KEYBOARD", "MOUSE", "POINTER"}
Pointers == {"MOUSE", "POINTER"}

\* sremfb_hid_kbd_report.
KbdReports == [mods : SUBSET Mods, keys : Seq(Keys)]
NoKbd == [mods |-> {}, keys |-> <<>>]

Gadgets == [owner : Holders \cup {NoHolder}, open : SUBSET HidNodes]
Inputs ==
  [kbd : KbdReports, down : SUBSET (Keys \cup Mods), last_kbd : KbdReports,
   buttons : [Pointers -> SUBSET Buttons],
   last_btn : [Pointers -> SUBSET Buttons],
   dirty : SUBSET HidNodes, abs_placed : BOOLEAN, unseen : SUBSET (Keys \cup Mods)]
Targets ==
  [kbd : KbdReports, btn : [Pointers -> SUBSET Buttons], stale : SUBSET HidNodes]

HidTypeOK ==
  /\ H \in Gadgets /\ in \in Inputs /\ target \in Targets
  /\ Len(in.kbd.keys) <= Slots

NoButtons == [d \in Pointers |-> {}]

\* What g_new0 gives the new holder; unseen is history: the keys that were
\* pressed since the last report, however often and whatever it showed.
NewInput ==
  [kbd |-> NoKbd, down |-> {}, last_kbd |-> NoKbd,
   buttons |-> NoButtons, last_btn |-> NoButtons,
   dirty |-> {}, abs_placed |-> FALSE, unseen |-> {}]

HidInit ==
  /\ H = [owner |-> NoHolder, open |-> {}]
  /\ in = NewInput
  /\ target = [kbd |-> NoKbd, btn |-> NoButtons, stale |-> {}]

-----------------------------------------------------------------------------
(* Reports.  s is the record of the three variables. *)

State == [H |-> H, in |-> in, target |-> target]

Becomes(s) == H' = s.H /\ in' = s.in /\ target' = s.target

\* The ways a write ends: read, lost while the target sleeps, or the node is
\* gone, which closes it.
Writes == {"ok", "lost", "gone"}

\* node_write of what node d shows now.
NodeWrite(s, d, w) ==
  IF d \notin s.H.open \/ w # "ok"
  THEN [s EXCEPT !.H.open = IF w = "gone" THEN @ \ {d} ELSE @,
                 !.target.stale = @ \cup {d}]
  ELSE [s EXCEPT !.target.stale = @ \ {d},
                 !.target.kbd = IF d = "KEYBOARD" THEN s.in.last_kbd ELSE @,
                 !.target.btn = IF d = "KEYBOARD" THEN @
                                ELSE [@ EXCEPT ![d] = s.in.last_btn[d]]]

KbdFlush(s, w) ==
  NodeWrite([s EXCEPT !.in.last_kbd = s.in.kbd,
                      !.in.dirty = @ \ {"KEYBOARD"},
                      !.in.unseen = {}],
            "KEYBOARD", w)

\* mouse_flush, ptr_flush.
ButtonFlush(s, d, w) ==
  NodeWrite([s EXCEPT !.in.last_btn[d] = s.in.buttons[d],
                      !.in.dirty = @ \ {d}], d, w)

DevFlush(s, d, w) ==
  CASE d = "KEYBOARD" -> KbdFlush(s, w)
    [] d = "MOUSE" \/ (d = "POINTER" /\ s.in.abs_placed) -> ButtonFlush(s, d, w)
    [] OTHER -> s

\* The memsets of release_all: nothing is held, so no press is waited for.
Cleared(s) ==
  [s EXCEPT !.in.kbd = NoKbd, !.in.down = {}, !.in.unseen = {},
            !.in.buttons = NoButtons]

\* Mutant: the state is cleared, the keyboard's empty report is not sent.
ReleaseAllQuiet(s, w) ==
  [DevFlush(DevFlush(Cleared(s), "MOUSE", w["MOUSE"]), "POINTER", w["POINTER"])
     EXCEPT !.in.dirty = {}]

\* release_all: an empty report on every node, each with an outcome of its own.
ReleaseAll(s, w) ==
  [DevFlush(DevFlush(DevFlush(Cleared(s), "KEYBOARD", w["KEYBOARD"]),
                     "MOUSE", w["MOUSE"]), "POINTER", w["POINTER"])
     EXCEPT !.in.dirty = @ \ {"POINTER"}]

-----------------------------------------------------------------------------
(* Keys and buttons. *)

\* sremfb_hid_kbd_key with a press: a modifier is a bit, a key takes a slot.
KbdPress(s, k) ==
  IF k \in s.in.down THEN s
  ELSE IF k \in Mods
  THEN [s EXCEPT !.in.kbd.mods = @ \cup {k}, !.in.down = @ \cup {k}]
  ELSE IF Len(s.in.kbd.keys) < Slots
  THEN [s EXCEPT !.in.kbd.keys = Append(@, k), !.in.down = @ \cup {k}]
  ELSE s

\* The slot of a key that has one.
SlotOf(keys, k) == CHOOSE i \in DOMAIN keys : keys[i] = k

\* The same with a release; the keys behind it move up.
KbdRelease(s, k) ==
  IF k \notin s.in.down THEN s
  ELSE IF k \in Mods
  THEN [s EXCEPT !.in.kbd.mods = @ \ {k}, !.in.down = @ \ {k}]
  ELSE [s EXCEPT !.in.kbd.keys = IF k \in ToSet(@) THEN RemoveAt(@, SlotOf(@, k)) ELSE @,
                 !.in.down = @ \ {k}]

\* kbd_usage_sent.
Shown(rep) == rep.mods \cup ToSet(rep.keys)
Sent(s, k) == k \in Shown(s.in.last_kbd)

\* on_key with a press.
KeyDown(s, k) ==
  LET t == KbdPress(s, k)
  IN  IF t = s THEN s
      ELSE [t EXCEPT !.in.dirty = @ \cup {"KEYBOARD"},
                     !.in.unseen = @ \cup {k}]

\* Mutant: a press is not sent ahead of a release in the same frame.
KeyUpMerged(s, k, w) ==
  LET t == KbdRelease(s, k)
  IN  IF t = s THEN s ELSE [t EXCEPT !.in.dirty = @ \cup {"KEYBOARD"}]

\* on_key with a release: a press the target has not seen goes out first.
KeyUp(s, k, w) ==
  LET t == IF k \in s.in.down /\ ~Sent(s, k) THEN KbdFlush(s, w) ELSE s
      u == KbdRelease(t, k)
  IN  IF u = t THEN t ELSE [u EXCEPT !.in.dirty = @ \cup {"KEYBOARD"}]

\* on_button with a press: not before the pointer has a position.
ButtonDown(s, d, b) ==
  IF b \in s.in.buttons[d] \/ (d = "POINTER" /\ ~s.in.abs_placed) THEN s
  ELSE [s EXCEPT !.in.buttons[d] = @ \cup {b}, !.in.dirty = @ \cup {d}]

\* on_button with a release.
ButtonUp(s, d, b, w) ==
  IF b \notin s.in.buttons[d] THEN s
  ELSE LET t == IF b \notin s.in.last_btn[d] THEN DevFlush(s, d, w) ELSE s
       IN  [t EXCEPT !.in.buttons[d] = @ \ {b}, !.in.dirty = @ \cup {d}]

-----------------------------------------------------------------------------
(* sremfb_input_msg, one action per kind of event. *)

\* One outcome for each node; a closed one takes no write.
Outcomes == {w \in [HidNodes -> Writes] : \A d \in HidNodes \ H.open : w[d] = "lost"}

Heard(d) == H.owner # NoHolder /\ d \in H.open

Syn(d, w) == Heard(d) /\ d \in in.dirty /\ Becomes(DevFlush(State, d, w))

Key(k, w) ==
  /\ Heard("KEYBOARD")
  /\ Becomes(KeyDown(State, k)) \/ Becomes(KeyUp(State, k, w))

Button(d, b, w) ==
  /\ Heard(d)
  /\ Becomes(ButtonDown(State, d, b)) \/ Becomes(ButtonUp(State, d, b, w))

\* REL: motion or wheel.
Rel(d) ==
  /\ Heard(d)
  /\ Becomes([State EXCEPT !.in.dirty = @ \cup {d}])

Abs ==
  /\ Heard("POINTER")
  /\ Becomes([State EXCEPT !.in.abs_placed = TRUE, !.in.dirty = @ \cup {"POINTER"}])

\* SREMFB_INDEV_ALL.
All(w) == H.owner # NoHolder /\ Becomes(ReleaseAll(State, w))

\* sremfb_input_start: the first client that asks holds the gadget; some nodes
\* may be missing.
HidStart(c, nodes) ==
  /\ H.owner = NoHolder
  /\ nodes # {}
  /\ H' = [owner |-> c, open |-> nodes]
  /\ in' = NewInput
  /\ UNCHANGED target

\* sremfb_input_stop, whenever the holder is lost.
HidStop(w) ==
  /\ H.owner # NoHolder
  /\ target' = ReleaseAll(State, w).target
  /\ H' = [owner |-> NoHolder, open |-> {}]
  /\ in' = NewInput

HidNext ==
  \/ \E w \in Writes :
       \/ \E d \in HidNodes : Syn(d, w)
       \/ \E k \in Keys \cup Mods : Key(k, w)
       \/ \E d \in Pointers, b \in Buttons : Button(d, b, w)
  \/ \E w \in Outcomes : All(w) \/ HidStop(w)
  \/ \E d \in Pointers : Rel(d)
  \/ Abs
  \/ \E c \in Holders, nodes \in SUBSET HidNodes : HidStart(c, nodes)

HidSpec == HidInit /\ [][HidNext]_hidVars

-----------------------------------------------------------------------------
(* Properties. *)

\* A target that has read its reports sees exactly the keys and buttons the
\* client holds once the frame is complete, and none once the inputs are
\* given back, over every path of on_key, on_button and release_all.
TargetFollows ==
  /\ "KEYBOARD" \in in.dirty \cup target.stale
     \/ /\ target.kbd = in.kbd
        /\ in.down = in.kbd.mods \cup ToSet(in.kbd.keys)
  /\ \A d \in Pointers :
       d \in in.dirty \cup target.stale \/ target.btn[d] = in.buttons[d]

\* A key that goes down and up in one frame does not go by unnoticed (on_key):
\* of the keys pressed since the last report, each one is either still down,
\* so that the next report shows it, or in the last report already, so that
\* the next one shows its release.
TapShown == in.unseen \subseteq in.down \cup Shown(in.last_kbd)

\* What input_hid.c:410-411 says, "appui et relachement dans la meme trame :
\* emettre l'appui d'abord, sinon la cible ne verrait rien", does not hold for
\* a second tap: a key that the last report shows, released, pressed and
\* released again within one frame, satisfies kbd_usage_sent and gets no
\* report of its own.  The two taps reach the target as one.
EveryTapShown == in.unseen \subseteq in.down

=============================================================================
