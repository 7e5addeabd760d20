--------------------------- MODULE DevicesProofs ---------------------------
(***************************************************************************)
(* Theorems on the parts of the servers that act on the devices of another *)
(* machine or session: Hid, the HID gadget; Input, the desktop's devices   *)
(* and the layout its pointer is placed on; Layout, the restore of a       *)
(* remembered configuration; Audio, the default output.                    *)
(***************************************************************************)
EXTENDS MCDevices, SequenceTheorems, FiniteSetTheorems, WellFoundedInduction, TLAPS

(***************************************************************************)
(* Queues of messages.                                                     *)
(***************************************************************************)
\* The first message leaves a queue.
LEMMA WireTail ==
  ASSUME NEW M, NEW w \in Seq(M), w # <<>>
  PROVE  /\ Head(w) = w[1] /\ Head(w) \in M /\ 1 \in DOMAIN w
         /\ Tail(w) \in Seq(M)
         /\ \A i \in DOMAIN Tail(w) : i \in Nat /\ i + 1 \in DOMAIN w /\ Tail(w)[i] = w[i + 1]
         /\ \A i \in DOMAIN w \ {1} : i - 1 \in DOMAIN Tail(w) /\ Tail(w)[i - 1] = w[i]
                                      /\ i \in Nat
<1>1. /\ Head(w) = w[1] /\ Head(w) \in M /\ Tail(w) \in Seq(M)
      /\ Len(w) \in Nat \ {0} /\ Len(Tail(w)) = Len(w) - 1
      /\ \A i \in 1 .. Len(Tail(w)) : Tail(w)[i] = w[i + 1]
  BY HeadTailProperties, EmptySeq
<1>2. DOMAIN w = 1 .. Len(w) /\ DOMAIN Tail(w) = 1 .. Len(w) - 1
  BY <1>1, LenProperties
<1>3. \A i \in DOMAIN Tail(w) : i \in Nat /\ i + 1 \in DOMAIN w /\ Tail(w)[i] = w[i + 1]
  BY <1>1, <1>2
<1>4. \A i \in DOMAIN w \ {1} : i - 1 \in DOMAIN Tail(w) /\ i \in Nat /\ (i - 1) + 1 = i
  BY <1>1, <1>2
<1>5. \A i \in DOMAIN w \ {1} : Tail(w)[i - 1] = w[i]
  BY <1>3, <1>4
<1> QED BY <1>1, <1>2, <1>3, <1>4, <1>5

\* One more message joins it.
LEMMA WireAppend ==
  ASSUME NEW M, NEW w \in Seq(M), NEW x \in M
  PROVE  /\ Append(w, x) \in Seq(M)
         /\ Len(w) + 1 \in DOMAIN Append(w, x) /\ Append(w, x)[Len(w) + 1] = x
         /\ \A i \in DOMAIN w : /\ i \in DOMAIN Append(w, x) /\ Append(w, x)[i] = w[i]
                                /\ Len(w) + 1 > i
         /\ \A i \in DOMAIN Append(w, x) : i \in DOMAIN w \/ i = Len(w) + 1
<1>1. /\ Append(w, x) \in Seq(M) /\ Len(Append(w, x)) = Len(w) + 1 /\ Len(w) \in Nat
      /\ \A i \in 1 .. Len(w) : Append(w, x)[i] = w[i]
      /\ Append(w, x)[Len(w) + 1] = x
  BY AppendProperties, LenProperties
<1>2. DOMAIN w = 1 .. Len(w) /\ DOMAIN Append(w, x) = 1 .. Len(w) + 1
  BY <1>1, LenProperties
<1> QED BY <1>1, <1>2

LEMMA InSet ==
  ASSUME NEW M, NEW w \in Seq(M), NEW x
  PROVE  x \in ToSet(w) <=> \E i \in DOMAIN w : w[i] = x
BY DEF ToSet

(***************************************************************************)
(* Hid: the inductive invariant, over the record of its three variables.   *)
(***************************************************************************)
HidStates == [H : Gadgets, in : Inputs, target : Targets]

\* The bits of struct sremfb_hid_kbd and its slots tell the same keys, and no
\* key has two slots.
Held(i) ==
  /\ i.down = Shown(i.kbd)
  /\ Len(i.kbd.keys) <= Slots
  /\ \A a, b \in DOMAIN i.kbd.keys : i.kbd.keys[a] = i.kbd.keys[b] => a = b

\* The target shows the report that was made last, or has lost one.
KbdShown(s) == "KEYBOARD" \in s.target.stale \/ s.target.kbd = s.in.last_kbd
BtnShown(s, d) == d \in s.target.stale \/ s.target.btn[d] = s.in.last_btn[d]

\* The report made last tells the state, or another is due.
KbdSent(s) == "KEYBOARD" \in s.in.dirty \/ s.in.last_kbd = s.in.kbd
BtnSent(s, d) == d \in s.in.dirty \/ s.in.last_btn[d] = s.in.buttons[d]

\* No button of the absolute pointer before its first position.
Placed(i) == i.abs_placed \/ (i.buttons["POINTER"] = {} /\ i.last_btn["POINTER"] = {})

\* A press since the last report is still down, or of a key that report shows.
Unshown(i) == i.unseen \subseteq i.down \cup Shown(i.last_kbd)

Reported(s) ==
  /\ s \in HidStates
  /\ Held(s.in) /\ Placed(s.in) /\ Unshown(s.in)
  /\ KbdShown(s) /\ \A d \in Pointers : BtnShown(s, d)

Sound(s) == Reported(s) /\ KbdSent(s) /\ \A d \in Pointers : BtnSent(s, d)

HidInv == Sound(State) /\ (H.owner = NoHolder => in = NewInput)

(***************************************************************************)
(* Reports.                                                                *)
(***************************************************************************)
\* A written report shows what the node has, and disturbs no other node.
LEMMA NodeWriteShows ==
  ASSUME NEW s \in HidStates, NEW d \in HidNodes, NEW w \in Writes
  PROVE  LET t == NodeWrite(s, d, w)
         IN  /\ t \in HidStates
             /\ t.in = s.in /\ t.H.owner = s.H.owner
             /\ d \in t.target.stale
                \/ IF d = "KEYBOARD" THEN t.target.kbd = s.in.last_kbd
                   ELSE t.target.btn[d] = s.in.last_btn[d]
             /\ d # "KEYBOARD" => /\ t.target.kbd = s.target.kbd
             /\ \A e \in HidNodes \ {d} : e \in t.target.stale <=> e \in s.target.stale
             /\ \A e \in Pointers \ {d} : t.target.btn[e] = s.target.btn[e]
<1> DEFINE t == NodeWrite(s, d, w)
<1>1. s.H \in Gadgets /\ s.in \in Inputs /\ s.target \in Targets
  BY DEF HidStates
<1>2. CASE d \notin s.H.open \/ w # "ok"
  <2> DEFINE o == IF w = "gone" THEN s.H.open \ {d} ELSE s.H.open
             g == [s.H EXCEPT !.open = o]
             r == [s.target EXCEPT !.stale = @ \cup {d}]
  <2>1. t = [s EXCEPT !.H = g, !.target = r]
    BY <1>2, <1>1 DEF NodeWrite, HidStates, Gadgets, Targets
  <2>2. g \in Gadgets /\ g.owner = s.H.owner
    BY <1>1 DEF Gadgets
  <2>3. r \in Targets /\ r.stale = s.target.stale \cup {d} /\ r.kbd = s.target.kbd /\ r.btn = s.target.btn
    BY <1>1 DEF Targets
  <2> HIDE DEF g, r, t
  <2>4. t \in HidStates /\ t.in = s.in /\ t.H = g /\ t.target = r
    BY <2>1, <2>2, <2>3, <1>1 DEF HidStates
  <2> QED
    BY <2>4, <2>2, <2>3 DEF t
<1>3. CASE ~(d \notin s.H.open \/ w # "ok")
  <2> DEFINE r == [s.target EXCEPT !.stale = @ \ {d},
                      !.kbd = IF d = "KEYBOARD" THEN s.in.last_kbd ELSE @,
                      !.btn = IF d = "KEYBOARD" THEN @
                              ELSE [@ EXCEPT ![d] = s.in.last_btn[d]]]
  <2>1. t = [s EXCEPT !.target = r]
    BY <1>3, <1>1 DEF NodeWrite, HidStates, Gadgets, Targets
  <2>2. /\ r \in Targets /\ r.stale = s.target.stale \ {d}
        /\ r.kbd = IF d = "KEYBOARD" THEN s.in.last_kbd ELSE s.target.kbd
        /\ r.btn = IF d = "KEYBOARD" THEN s.target.btn
                   ELSE [s.target.btn EXCEPT ![d] = s.in.last_btn[d]]
    BY <1>1 DEF Targets, Inputs, HidNodes, Pointers
  <2>3. /\ d # "KEYBOARD" => r.btn[d] = s.in.last_btn[d]
        /\ \A e \in Pointers \ {d} : r.btn[e] = s.target.btn[e]
    BY <2>2, <1>1 DEF Targets, HidNodes, Pointers
  <2> HIDE DEF r, t
  <2>4. t \in HidStates /\ t.in = s.in /\ t.H = s.H /\ t.target = r
    BY <2>1, <2>2, <1>1 DEF HidStates
  <2> QED
    BY <2>4, <2>2, <2>3 DEF t
<1> QED
  BY <1>2, <1>3

\* A flush of a node sends what the node has: the report made last tells the
\* state of its device, and the other devices keep theirs.
LEMMA DevFlushReports ==
  ASSUME NEW s, Reported(s), NEW d \in HidNodes, NEW w \in Writes
  PROVE  LET t == DevFlush(s, d, w)
         IN  /\ Reported(t)
             /\ t.H.owner = s.H.owner
             /\ t.in.kbd = s.in.kbd /\ t.in.down = s.in.down
             /\ t.in.buttons = s.in.buttons /\ t.in.abs_placed = s.in.abs_placed
             /\ t.in.dirty = s.in.dirty \ {d} \/ (d = "POINTER" /\ t = s)
             /\ IF d = "KEYBOARD"
                THEN t.in.last_kbd = s.in.kbd /\ t.in.unseen = {}
                ELSE t.in.last_kbd = s.in.last_kbd /\ t.in.unseen = s.in.unseen
             /\ d \in Pointers => t.in.last_btn[d] = s.in.buttons[d]
             /\ \A e \in Pointers \ {d} : t.in.last_btn[e] = s.in.last_btn[e]
<1>1. s \in HidStates /\ s.H \in Gadgets /\ s.in \in Inputs /\ s.target \in Targets
  BY DEF HidStates, Reported
<1>2. CASE d = "KEYBOARD"
  <2> DEFINE i == [s.in EXCEPT !.last_kbd = s.in.kbd, !.dirty = @ \ {"KEYBOARD"},
                               !.unseen = {}]
             r == [s EXCEPT !.in = i]
             t == NodeWrite(r, "KEYBOARD", w)
  <2>1. DevFlush(s, d, w) = t
    <3>1. [s EXCEPT !.in.last_kbd = s.in.kbd, !.in.dirty = @ \ {"KEYBOARD"},
                    !.in.unseen = {}] = r
      BY <1>1 DEF HidStates, Inputs
    <3>2. DevFlush(s, d, w) = KbdFlush(s, w)
      BY <1>2 DEF DevFlush
    <3> QED
      BY <3>1, <3>2, Zenon DEF KbdFlush
  <2>2. /\ i \in Inputs /\ i.kbd = s.in.kbd /\ i.down = s.in.down /\ i.last_kbd = s.in.kbd
        /\ i.buttons = s.in.buttons /\ i.last_btn = s.in.last_btn
        /\ i.dirty = s.in.dirty \ {"KEYBOARD"} /\ i.abs_placed = s.in.abs_placed
        /\ i.unseen = {}
    BY <1>1 DEF Inputs
  <2>3. r \in HidStates /\ r.in = i /\ r.H = s.H /\ r.target = s.target
    BY <1>1, <2>2 DEF HidStates
  <2>4. i.unseen = {}
    BY <2>2
  <2> HIDE DEF i, r, t
  <2>5. /\ t \in HidStates /\ t.in = i /\ t.H.owner = s.H.owner
        /\ "KEYBOARD" \in t.target.stale \/ t.target.kbd = i.last_kbd
        /\ \A e \in Pointers : e \in t.target.stale <=> e \in s.target.stale
        /\ \A e \in Pointers : t.target.btn[e] = s.target.btn[e]
    <3>1. "KEYBOARD" \in HidNodes /\ \A e \in Pointers : e \in HidNodes \ {"KEYBOARD"}
      BY DEF HidNodes, Pointers
    <3>2. \A e \in Pointers : e \in Pointers \ {"KEYBOARD"}
      BY DEF Pointers
    <3> QED
      BY <2>3, <3>1, <3>2, NodeWriteShows DEF t
  <2>6. Held(i) /\ Placed(i) /\ Unshown(i)
    BY <2>2, <2>4 DEF Reported, Held, Placed, Unshown
  <2>7. KbdShown(t) /\ \A e \in Pointers : BtnShown(t, e)
    BY <2>5, <2>2 DEF KbdShown, BtnShown, Reported
  <2> QED
    BY <2>1, <2>2, <2>4, <2>5, <2>6, <2>7, <1>2 DEF Reported, Pointers
<1>3. CASE d \in Pointers /\ (d = "MOUSE" \/ s.in.abs_placed)
  <2> DEFINE i == [s.in EXCEPT !.last_btn = [@ EXCEPT ![d] = s.in.buttons[d]],
                               !.dirty = @ \ {d}]
             r == [s EXCEPT !.in = i]
             t == NodeWrite(r, d, w)
  <2>1. DevFlush(s, d, w) = t
    <3>1. DevFlush(s, d, w) = ButtonFlush(s, d, w)
      BY <1>3 DEF DevFlush, Pointers
    <3> QED
      BY <3>1, <1>1 DEF ButtonFlush, HidStates, Inputs
  <2>2. /\ i \in Inputs /\ i.kbd = s.in.kbd /\ i.down = s.in.down
        /\ i.last_kbd = s.in.last_kbd /\ i.unseen = s.in.unseen
        /\ i.buttons = s.in.buttons /\ i.last_btn[d] = s.in.buttons[d]
        /\ \A e \in Pointers \ {d} : i.last_btn[e] = s.in.last_btn[e]
        /\ i.dirty = s.in.dirty \ {d} /\ i.abs_placed = s.in.abs_placed
    BY <1>1, <1>3 DEF Inputs
  <2>3. r \in HidStates /\ r.in = i /\ r.H = s.H /\ r.target = s.target
    BY <1>1, <2>2 DEF HidStates
  <2> HIDE DEF i, r, t
  <2>4. /\ t \in HidStates /\ t.in = i /\ t.H.owner = s.H.owner
        /\ d \in t.target.stale \/ t.target.btn[d] = i.last_btn[d]
        /\ t.target.kbd = s.target.kbd
        /\ \A e \in HidNodes \ {d} : e \in t.target.stale <=> e \in s.target.stale
        /\ \A e \in Pointers \ {d} : t.target.btn[e] = s.target.btn[e]
    BY <2>3, <1>3, NodeWriteShows, SMTT(30) DEF t, HidNodes, Pointers
  <2>5. Held(i) /\ Unshown(i)
    BY <2>2 DEF Reported, Held, Unshown
  <2>6. Placed(i)
    BY <2>2, <1>3 DEF Reported, Placed, Pointers
  <2>7. KbdShown(t)
    BY <2>4, <2>2, <1>3 DEF KbdShown, Reported, HidNodes, Pointers
  <2>8. ASSUME NEW e \in Pointers PROVE BtnShown(t, e)
    BY <2>4, <2>2 DEF BtnShown, Reported, HidNodes, Pointers
  <2> QED
    BY <2>1, <2>2, <2>4, <2>5, <2>6, <2>7, <2>8, <1>3 DEF Reported, Pointers
<1>4. CASE d = "POINTER" /\ ~s.in.abs_placed
  <2>1. DevFlush(s, d, w) = s
    BY <1>4 DEF DevFlush
  <2>2. s.in.last_btn[d] = s.in.buttons[d]
    BY <1>4 DEF Reported, Placed
  <2> QED
    BY <2>1, <2>2, <1>4, Zenon
<1> QED
  BY <1>2, <1>3, <1>4 DEF HidNodes, Pointers

\* What a flush leaves due was due before.
LEMMA DevFlushSound ==
  ASSUME NEW s, Sound(s), NEW d \in HidNodes, NEW w \in Writes
  PROVE  Sound(DevFlush(s, d, w))
<1> DEFINE t == DevFlush(s, d, w)
<1> HIDE DEF t
<1>1. /\ Reported(t)
      /\ t.in.kbd = s.in.kbd /\ t.in.buttons = s.in.buttons
      /\ t.in.dirty = s.in.dirty \ {d} \/ t = s
      /\ IF d = "KEYBOARD" THEN t.in.last_kbd = s.in.kbd
         ELSE t.in.last_kbd = s.in.last_kbd
      /\ d \in Pointers => t.in.last_btn[d] = s.in.buttons[d]
      /\ \A e \in Pointers \ {d} : t.in.last_btn[e] = s.in.last_btn[e]
  BY DevFlushReports DEF Sound, t
<1>2. KbdSent(t)
  BY <1>1 DEF Sound, KbdSent
<1>3. ASSUME NEW e \in Pointers PROVE BtnSent(t, e)
  BY <1>1 DEF Sound, BtnSent
<1> QED
  BY <1>1, <1>2, <1>3 DEF Sound, t

\* release_all clears the client's state and shows it on every node.
LEMMA ReleaseAllSound ==
  ASSUME NEW s, Sound(s), NEW w, \A d \in HidNodes : w[d] \in Writes
  PROVE  LET t == ReleaseAll(s, w)
         IN  /\ Sound(t) /\ t.H.owner = s.H.owner
             /\ t.in.kbd = NoKbd /\ t.in.buttons = NoButtons
             /\ t.in.last_kbd = NoKbd
             /\ \A d \in Pointers : t.in.last_btn[d] = {}
<1> DEFINE i == [s.in EXCEPT !.kbd = NoKbd, !.down = {}, !.unseen = {},
                             !.buttons = NoButtons]
           r == [s EXCEPT !.in = i]
           wk == w["KEYBOARD"]
           wm == w["MOUSE"]
           wp == w["POINTER"]
           a == DevFlush(r, "KEYBOARD", wk)
           b == DevFlush(a, "MOUSE", wm)
           c == DevFlush(b, "POINTER", wp)
           j == [c.in EXCEPT !.dirty = @ \ {"POINTER"}]
           t == [c EXCEPT !.in = j]
<1>1. s \in HidStates /\ s.in \in Inputs
  BY DEF HidStates, Reported, Sound
<1>2. r = [s EXCEPT !.in.kbd = NoKbd, !.in.down = {}, !.in.unseen = {},
                    !.in.buttons = NoButtons]
  BY <1>1 DEF HidStates, Inputs
<1>3. ReleaseAll(s, w) = [c EXCEPT !.in.dirty = @ \ {"POINTER"}]
  BY <1>2, Zenon DEF ReleaseAll, Cleared
<1>w. wk \in Writes /\ wm \in Writes /\ wp \in Writes
  BY DEF HidNodes
<1>4. NoKbd \in KbdReports /\ NoButtons \in [Pointers -> SUBSET Buttons] /\ Shown(NoKbd) = {}
  BY DEF NoKbd, KbdReports, NoButtons, Shown, ToSet
<1>5. /\ i \in Inputs /\ i.kbd = NoKbd /\ i.down = {} /\ i.unseen = {}
      /\ i.buttons = NoButtons /\ i.last_btn = s.in.last_btn /\ i.last_kbd = s.in.last_kbd
      /\ i.abs_placed = s.in.abs_placed
  BY <1>1, <1>4 DEF Inputs
<1> HIDE DEF i
<1>6. r \in HidStates /\ r.in = i /\ r.H = s.H /\ r.target = s.target
  BY <1>1, <1>5 DEF HidStates
<1> HIDE DEF r
<1>7. Held(i)
  <2>1. NoKbd.keys = <<>> /\ Len(NoKbd.keys) <= Slots
    BY HidAssumption DEF NoKbd
  <2> QED
    BY <2>1, <1>4, <1>5 DEF Held
<1>8. Placed(i)
  BY <1>5 DEF Placed, Sound, Reported, NoButtons, Pointers
<1>9. Unshown(i)
  BY <1>5 DEF Unshown
<1>10. Reported(r)
  BY <1>6, <1>7, <1>8, <1>9, <1>5 DEF Reported, Sound, KbdShown, BtnShown
<1> HIDE DEF a, b, c, wk, wm, wp
<1>11. /\ Reported(a) /\ a.H.owner = s.H.owner /\ a.in.kbd = NoKbd
       /\ a.in.buttons = NoButtons /\ a.in.last_kbd = NoKbd
  <2>1. "KEYBOARD" \in HidNodes
    BY DEF HidNodes
  <2> QED
    BY <2>1, <1>10, <1>6, <1>5, <1>w, DevFlushReports DEF a
<1>12. /\ Reported(b) /\ b.H.owner = s.H.owner /\ b.in.kbd = NoKbd
       /\ b.in.buttons = NoButtons /\ b.in.last_kbd = NoKbd
       /\ b.in.last_btn["MOUSE"] = NoButtons["MOUSE"]
  <2>1. "MOUSE" \in HidNodes /\ "MOUSE" \in Pointers
    BY DEF HidNodes, Pointers
  <2> QED
    BY <2>1, <1>11, <1>w, DevFlushReports DEF b
<1>13. /\ Reported(c) /\ c.H.owner = s.H.owner /\ c.in.kbd = NoKbd
       /\ c.in.buttons = NoButtons /\ c.in.last_kbd = NoKbd
       /\ c.in.last_btn["MOUSE"] = NoButtons["MOUSE"]
       /\ c.in.last_btn["POINTER"] = NoButtons["POINTER"]
  <2>1. "POINTER" \in HidNodes /\ "POINTER" \in Pointers /\ "MOUSE" \in Pointers
    BY DEF HidNodes, Pointers
  <2> QED
    BY <2>1, <1>12, <1>w, DevFlushReports DEF c
<1>14. c \in HidStates /\ c.in \in Inputs
  BY <1>13 DEF Reported, HidStates
<1>15. ReleaseAll(s, w) = t
  BY <1>3, <1>14 DEF HidStates, Inputs
<1>16. /\ j \in Inputs /\ j.kbd = c.in.kbd /\ j.down = c.in.down /\ j.unseen = c.in.unseen
       /\ j.buttons = c.in.buttons /\ j.last_btn = c.in.last_btn
       /\ j.last_kbd = c.in.last_kbd /\ j.abs_placed = c.in.abs_placed
  BY <1>14 DEF Inputs
<1> HIDE DEF j
<1>17. t \in HidStates /\ t.in = j /\ t.H = c.H /\ t.target = c.target
  BY <1>14, <1>16 DEF HidStates
<1> HIDE DEF t
<1>18. Reported(t)
  BY <1>13, <1>16, <1>17 DEF Reported, Held, Placed, Unshown, KbdShown, BtnShown
<1>19. \A d \in Pointers : t.in.last_btn[d] = {} /\ t.in.buttons[d] = {}
  BY <1>13, <1>16, <1>17 DEF NoButtons, Pointers
<1>20. KbdSent(t) /\ \A d \in Pointers : BtnSent(t, d)
  BY <1>13, <1>16, <1>17, <1>19 DEF KbdSent, BtnSent
<1> QED
  BY <1>13, <1>15, <1>16, <1>17, <1>18, <1>19, <1>20 DEF Sound

(***************************************************************************)
(* Keys and buttons.                                                       *)
(***************************************************************************)
\* The memmove of sremfb_hid_kbd_key: the key leaves its slot, the others
\* keep theirs in order and none doubles.
LEMMA SlotFreed ==
  ASSUME NEW ks \in Seq(Keys), NEW k \in ToSet(ks),
         \A a, b \in DOMAIN ks : ks[a] = ks[b] => a = b
  PROVE  LET r == RemoveAt(ks, SlotOf(ks, k))
         IN  /\ r \in Seq(Keys) /\ Len(r) < Len(ks)
             /\ ToSet(r) = ToSet(ks) \ {k}
             /\ \A a, b \in DOMAIN r : r[a] = r[b] => a = b
<1> DEFINE i == SlotOf(ks, k)
           r == RemoveAt(ks, i)
           n == Len(ks)
<1>1. i \in DOMAIN ks /\ ks[i] = k
  <2>1. \E x \in DOMAIN ks : ks[x] = k
    BY DEF ToSet
  <2> QED
    BY <2>1 DEF SlotOf
<1> HIDE DEF i
<1>2. n \in Nat /\ DOMAIN ks = 1 .. n /\ i \in 1 .. n /\ \A x \in 1 .. n : ks[x] \in Keys
  BY <1>1
<1>3. /\ r \in Seq(Keys) /\ Len(r) = n - 1
      /\ \A x \in 1 .. n - 1 : r[x] = IF x < i THEN ks[x] ELSE ks[x + 1]
  <2> DEFINE u == SubSeq(ks, 1, i - 1)
             v == SubSeq(ks, i + 1, n)
  <2>1. u \in Seq(Keys) /\ Len(u) = i - 1 /\ \A x \in 1 .. i - 1 : u[x] = ks[x]
    BY <1>2
  <2>2. v \in Seq(Keys) /\ Len(v) = n - i /\ \A x \in 1 .. n - i : v[x] = ks[x + i]
    <3>1. i + 1 \in Int /\ n \in Int /\ \A x \in i + 1 .. n : ks[x] \in Keys
      BY <1>2
    <3> HIDE DEF n
    <3>2. /\ v \in Seq(Keys) /\ Len(v) = IF i + 1 <= n THEN n - (i + 1) + 1 ELSE 0
          /\ \A x \in 1 .. n - (i + 1) + 1 : v[x] = ks[i + 1 + x - 1]
      <4> DEFINE m == i + 1
      <4> HIDE DEF m
      <4>1. m \in Int /\ n \in Int /\ \A x \in m .. n : ks[x] \in Keys
        BY <3>1 DEF m
      <4>2. /\ SubSeq(ks, m, n) \in Seq(Keys)
            /\ Len(SubSeq(ks, m, n)) = IF m <= n THEN n - m + 1 ELSE 0
            /\ \A x \in 1 .. n - m + 1 : SubSeq(ks, m, n)[x] = ks[m + x - 1]
        BY <4>1, SubSeqProperties
      <4> QED
        BY <4>2 DEF m
    <3> HIDE DEF v
    <3>3. n - (i + 1) + 1 = n - i /\ \A x \in 1 .. n - i : i + 1 + x - 1 = x + i
      BY <1>2
    <3> QED
      BY <3>2, <3>3, <1>2
  <2>3. r = u \o v
    BY DEF RemoveAt
  <2> HIDE DEF u, v, r
  <2>4. r \in Seq(Keys) /\ Len(r) = n - 1
    BY <2>1, <2>2, <2>3, <1>2
  <2>5. ASSUME NEW x \in 1 .. n - 1 PROVE r[x] = IF x < i THEN ks[x] ELSE ks[x + 1]
    <3>1. CASE x < i
      BY <3>1, <2>1, <2>2, <2>3, <1>2
    <3>2. CASE x >= i
      <4>1. r[x] = v[x - (i - 1)]
        BY <3>2, <2>1, <2>2, <2>3, <1>2
      <4>2. x - (i - 1) \in 1 .. n - i /\ x - (i - 1) + i = x + 1
        BY <3>2, <1>2
      <4> QED
        BY <4>1, <4>2, <2>2, <3>2, <1>2
    <3> QED
      BY <3>1, <3>2, <1>2
  <2> QED
    BY <2>4, <2>5
<1> HIDE DEF r
<1>4. DOMAIN r = 1 .. n - 1
  BY <1>3, <1>2
<1>5. \A a, b \in DOMAIN r : r[a] = r[b] => a = b
  BY <1>2, <1>3, <1>4, SMTT(30)
<1>6. ToSet(r) \subseteq ToSet(ks) \ {k}
  <2> SUFFICES ASSUME NEW x \in DOMAIN r PROVE r[x] \in ToSet(ks) /\ r[x] # k
    BY DEF ToSet
  <2>1. PICK y \in DOMAIN ks : y # i /\ r[x] = ks[y]
    BY <1>2, <1>3, <1>4
  <2> QED
    BY <2>1, <1>1 DEF ToSet
<1>7. ToSet(ks) \ {k} \subseteq ToSet(r)
  <2> SUFFICES ASSUME NEW y \in DOMAIN ks, ks[y] # k PROVE ks[y] \in ToSet(r)
    BY DEF ToSet
  <2>1. y # i
    BY <1>1
  <2>2. CASE y < i
    BY <2>2, <1>2, <1>3, <1>4 DEF ToSet
  <2>3. CASE y > i
    <3>1. y - 1 \in DOMAIN r /\ r[y - 1] = ks[y]
      BY <2>3, <1>2, <1>3, <1>4
    <3> QED
      BY <3>1 DEF ToSet
  <2> QED
    BY <2>1, <2>2, <2>3, <1>2
<1> QED
  BY <1>2, <1>3, <1>5, <1>6, <1>7 DEF r, i

\* A press takes a bit or a free slot; the report is due unless nothing changed.
LEMMA KeyDownSound ==
  ASSUME NEW s, Sound(s), NEW k \in Keys \cup Mods
  PROVE  Sound(KeyDown(s, k)) /\ KeyDown(s, k).H.owner = s.H.owner
<1>1. s \in HidStates /\ s.in \in Inputs /\ s.in.kbd \in KbdReports
  BY DEF HidStates, Reported, Sound, Inputs
<1>2. CASE KbdPress(s, k) = s
  BY <1>2 DEF KeyDown
<1>3. ASSUME NEW rep \in KbdReports, Len(rep.keys) <= Slots,
             \A a, b \in DOMAIN rep.keys : rep.keys[a] = rep.keys[b] => a = b,
             Shown(rep) = s.in.down \cup {k},
             KbdPress(s, k) = [s EXCEPT !.in.kbd = rep, !.in.down = @ \cup {k}],
             KbdPress(s, k) # s
      PROVE  Sound(KeyDown(s, k)) /\ KeyDown(s, k).H.owner = s.H.owner
  <2> DEFINE un == s.in.unseen \cup {k}
             i == [s.in EXCEPT !.kbd = rep, !.down = @ \cup {k},
                               !.dirty = @ \cup {"KEYBOARD"}, !.unseen = un]
             t == [s EXCEPT !.in = i]
  <2>1. KeyDown(s, k) = [[s EXCEPT !.in.kbd = rep, !.in.down = @ \cup {k}] EXCEPT
                           !.in.dirty = @ \cup {"KEYBOARD"},
                           !.in.unseen = @ \cup {k}]
    BY <1>3, Zenon DEF KeyDown
  <2>2. KeyDown(s, k) = t
    BY <2>1, <1>1 DEF HidStates, Inputs
  <2>3. un \in SUBSET (Keys \cup Mods)
    BY <1>1 DEF Inputs
  <2>4. un \subseteq (s.in.down \cup {k}) \cup Shown(s.in.last_kbd)
    BY DEF Sound, Reported, Unshown
  <2> HIDE DEF un
  <2>5. /\ i \in Inputs /\ i.kbd = rep /\ i.down = s.in.down \cup {k} /\ i.unseen = un
        /\ i.last_kbd = s.in.last_kbd /\ i.buttons = s.in.buttons
        /\ i.last_btn = s.in.last_btn /\ i.abs_placed = s.in.abs_placed
        /\ i.dirty = s.in.dirty \cup {"KEYBOARD"}
    BY <1>1, <1>3, <2>3 DEF Inputs, HidNodes
  <2> HIDE DEF i
  <2>6. t \in HidStates /\ t.in = i /\ t.H = s.H /\ t.target = s.target
    BY <1>1, <2>5 DEF HidStates
  <2> HIDE DEF t
  <2>7. Held(i) /\ Placed(i) /\ Unshown(i)
    BY <1>3, <2>4, <2>5 DEF Held, Placed, Unshown, Sound, Reported
  <2>8. KbdShown(t) /\ KbdSent(t) /\ \A d \in Pointers : BtnShown(t, d) /\ BtnSent(t, d)
    BY <2>5, <2>6 DEF KbdShown, KbdSent, BtnShown, BtnSent, Sound, Reported
  <2> QED
    BY <2>2, <2>6, <2>7, <2>8 DEF Sound, Reported
<1>4. CASE KbdPress(s, k) # s /\ k \in Mods
  <2> DEFINE rep == [s.in.kbd EXCEPT !.mods = @ \cup {k}]
  <2>1. rep \in KbdReports /\ rep.keys = s.in.kbd.keys /\ rep.mods = s.in.kbd.mods \cup {k}
    BY <1>1, <1>4 DEF KbdReports
  <2>2. k \notin s.in.down
    BY <1>4 DEF KbdPress
  <2>3. KbdPress(s, k) = [s EXCEPT !.in.kbd.mods = @ \cup {k}, !.in.down = @ \cup {k}]
    BY <2>2, <1>4 DEF KbdPress
  <2>4. KbdPress(s, k) = [s EXCEPT !.in.kbd = rep, !.in.down = @ \cup {k}]
    BY <2>3, <1>1 DEF HidStates, Inputs, KbdReports
  <2> HIDE DEF rep
  <2>5. /\ Shown(rep) = s.in.down \cup {k} /\ Len(rep.keys) <= Slots
        /\ \A a, b \in DOMAIN rep.keys : rep.keys[a] = rep.keys[b] => a = b
    BY <2>1 DEF Shown, Sound, Reported, Held
  <2> QED
    BY <1>3, <1>4, <2>1, <2>4, <2>5, Zenon
<1>5. CASE KbdPress(s, k) # s /\ k \notin Mods
  <2> DEFINE ks == s.in.kbd.keys
             rep == [s.in.kbd EXCEPT !.keys = Append(@, k)]
  <2>1. k \in Keys /\ k \notin s.in.down /\ Len(ks) < Slots
    BY <1>5 DEF KbdPress
  <2>2. KbdPress(s, k) = [s EXCEPT !.in.kbd.keys = Append(@, k), !.in.down = @ \cup {k}]
    BY <2>1, <1>5 DEF KbdPress
  <2>3. KbdPress(s, k) = [s EXCEPT !.in.kbd = rep, !.in.down = @ \cup {k}]
    BY <2>2, <1>1 DEF HidStates, Inputs, KbdReports
  <2>4. ks \in Seq(Keys) /\ Append(ks, k) \in Seq(Keys)
    BY <1>1, <2>1 DEF KbdReports
  <2>5. rep \in KbdReports /\ rep.mods = s.in.kbd.mods /\ rep.keys = Append(ks, k)
    BY <1>1, <2>4 DEF KbdReports
  <2>6. k \notin ToSet(ks)
    BY <2>1 DEF Sound, Reported, Held, Shown
  <2>7. ToSet(Append(ks, k)) = ToSet(ks) \cup {k}
    <3> HIDE DEF ks
    <3>1. DOMAIN Append(ks, k) = DOMAIN ks \cup {Len(ks) + 1}
      BY <2>4
    <3>2. Append(ks, k)[Len(ks) + 1] = k /\ \A a \in DOMAIN ks : Append(ks, k)[a] = ks[a]
      BY <2>4
    <3> QED
      BY <3>1, <3>2, Zenon DEF ToSet
  <2>8. \A a, b \in DOMAIN ks : ks[a] = ks[b] => a = b
    BY DEF Sound, Reported, Held
  <2> HIDE DEF rep, ks
  <2>9. \A a, b \in DOMAIN Append(ks, k) : Append(ks, k)[a] = Append(ks, k)[b] => a = b
    BY <2>4, <2>6, <2>8 DEF ToSet
  <2>10. Len(Append(ks, k)) <= Slots
    BY <2>1, <2>4, HidAssumption
  <2>11. Shown(rep) = s.in.down \cup {k}
    BY <2>5, <2>7 DEF Shown, Sound, Reported, Held, ks
  <2> QED
    BY <1>3, <1>5, <2>3, <2>5, <2>9, <2>10, <2>11, Zenon
<1> QED
  BY <1>2, <1>4, <1>5

\* A release frees the bit or the slot, and makes a report due.
LEMMA KbdReleaseSound ==
  ASSUME NEW s, Sound(s), NEW k \in Keys \cup Mods,
         k \in s.in.unseen => k \in Shown(s.in.last_kbd),
         NEW u, u = KbdRelease(s, k)
  PROVE  /\ u.H.owner = s.H.owner
         /\ u # s => Sound([u EXCEPT !.in.dirty = @ \cup {"KEYBOARD"}])
         /\ u # s => [u EXCEPT !.in.dirty = @ \cup {"KEYBOARD"}].H.owner = s.H.owner
<1>1. s \in HidStates /\ s.in \in Inputs /\ s.in.kbd \in KbdReports
  BY DEF HidStates, Reported, Sound, Inputs
<1>2. CASE k \notin s.in.down
  BY <1>2 DEF KbdRelease
<1>3. ASSUME NEW rep \in KbdReports, Len(rep.keys) <= Slots,
             \A a, b \in DOMAIN rep.keys : rep.keys[a] = rep.keys[b] => a = b,
             Shown(rep) = s.in.down \ {k},
             u = [s EXCEPT !.in.kbd = rep, !.in.down = @ \ {k}]
      PROVE  /\ u.H.owner = s.H.owner
             /\ Sound([u EXCEPT !.in.dirty = @ \cup {"KEYBOARD"}])
             /\ [u EXCEPT !.in.dirty = @ \cup {"KEYBOARD"}].H.owner = s.H.owner
  <2> DEFINE i == [s.in EXCEPT !.kbd = rep, !.down = @ \ {k},
                               !.dirty = @ \cup {"KEYBOARD"}]
             t == [s EXCEPT !.in = i]
  <2>1. [u EXCEPT !.in.dirty = @ \cup {"KEYBOARD"}] = t /\ u.H = s.H
    BY <1>3, <1>1, ZenonT(60) DEF HidStates, Inputs
  <2>2. /\ i \in Inputs /\ i.kbd = rep /\ i.down = s.in.down \ {k}
        /\ i.unseen = s.in.unseen
        /\ i.last_kbd = s.in.last_kbd /\ i.buttons = s.in.buttons
        /\ i.last_btn = s.in.last_btn /\ i.abs_placed = s.in.abs_placed
        /\ i.dirty = s.in.dirty \cup {"KEYBOARD"}
    BY <1>1, <1>3 DEF Inputs, HidNodes
  <2> HIDE DEF i
  <2>3. t \in HidStates /\ t.in = i /\ t.H = s.H /\ t.target = s.target
    BY <1>1, <2>2 DEF HidStates
  <2> HIDE DEF t
  <2>4. Held(i) /\ Placed(i) /\ Unshown(i)
    BY <1>3, <2>2 DEF Held, Placed, Unshown, Sound, Reported
  <2>5. KbdShown(t) /\ KbdSent(t) /\ \A d \in Pointers : BtnShown(t, d) /\ BtnSent(t, d)
    BY <2>2, <2>3 DEF KbdShown, KbdSent, BtnShown, BtnSent, Sound, Reported
  <2> QED
    BY <2>1, <2>3, <2>4, <2>5 DEF Sound, Reported
<1>4. CASE k \in s.in.down /\ k \in Mods
  <2> DEFINE rep == [s.in.kbd EXCEPT !.mods = @ \ {k}]
  <2>1. rep \in KbdReports /\ rep.keys = s.in.kbd.keys /\ rep.mods = s.in.kbd.mods \ {k}
    BY <1>1 DEF KbdReports
  <2>2. u = [s EXCEPT !.in.kbd.mods = @ \ {k}, !.in.down = @ \ {k}]
    BY <1>4 DEF KbdRelease
  <2>3. u = [s EXCEPT !.in.kbd = rep, !.in.down = @ \ {k}]
    BY <2>2, <1>1 DEF HidStates, Inputs, KbdReports
  <2>4. k \notin ToSet(s.in.kbd.keys)
    BY <1>1, <1>4, HidAssumption DEF KbdReports, ToSet
  <2> HIDE DEF rep
  <2>5. /\ Shown(rep) = s.in.down \ {k} /\ Len(rep.keys) <= Slots
        /\ \A a, b \in DOMAIN rep.keys : rep.keys[a] = rep.keys[b] => a = b
    BY <2>1, <2>4 DEF Shown, Sound, Reported, Held
  <2> QED
    BY <1>3, <2>1, <2>3, <2>5, Zenon
<1>5. CASE k \in s.in.down /\ k \notin Mods
  <2> DEFINE ks == s.in.kbd.keys
             r == RemoveAt(ks, SlotOf(ks, k))
             rep == [s.in.kbd EXCEPT !.keys = r]
  <2>1. ks \in Seq(Keys) /\ s.in.kbd.mods \subseteq Mods
    BY <1>1 DEF KbdReports
  <2>2. k \in ToSet(ks)
    BY <1>5, <2>1 DEF Shown, Sound, Reported, Held
  <2>3. \A a, b \in DOMAIN ks : ks[a] = ks[b] => a = b
    BY DEF Sound, Reported, Held
  <2>4. /\ r \in Seq(Keys) /\ Len(r) < Len(ks) /\ ToSet(r) = ToSet(ks) \ {k}
        /\ \A a, b \in DOMAIN r : r[a] = r[b] => a = b
    BY <2>1, <2>2, <2>3, SlotFreed
  <2>5. u = [s EXCEPT !.in.kbd.keys = IF k \in ToSet(@) THEN RemoveAt(@, SlotOf(@, k)) ELSE @,
                      !.in.down = @ \ {k}]
    BY <1>5 DEF KbdRelease
  <2>6. u = [s EXCEPT !.in.kbd.keys = r, !.in.down = @ \ {k}]
    BY <2>5, <2>2, <1>1 DEF HidStates, Inputs, KbdReports
  <2> HIDE DEF r
  <2>7. u = [s EXCEPT !.in.kbd = rep, !.in.down = @ \ {k}]
    BY <2>6, <1>1 DEF HidStates, Inputs, KbdReports
  <2>8. rep \in KbdReports /\ rep.mods = s.in.kbd.mods /\ rep.keys = r
    BY <1>1, <2>4 DEF KbdReports
  <2> HIDE DEF rep
  <2>9. Len(r) <= Slots
    <3>1. Len(ks) <= Slots /\ Len(ks) \in Nat /\ Len(r) \in Nat
      BY <2>1, <2>4 DEF Sound, Reported, Held
    <3> QED
      BY <3>1, <2>4, HidAssumption
  <2>10. Shown(rep) = s.in.down \ {k}
    BY <2>8, <2>4, <2>1, <1>5 DEF Shown, Sound, Reported, Held
  <2> QED
    BY <1>3, <2>4, <2>7, <2>8, <2>9, <2>10, Zenon
<1> QED
  BY <1>2, <1>4, <1>5

\* on_key with a release: the press that no report has shown goes first.
LEMMA KeyUpSound ==
  ASSUME NEW s, Sound(s), NEW k \in Keys \cup Mods, NEW w \in Writes
  PROVE  Sound(KeyUp(s, k, w)) /\ KeyUp(s, k, w).H.owner = s.H.owner
<1> DEFINE t == IF k \in s.in.down /\ ~Sent(s, k) THEN KbdFlush(s, w) ELSE s
           u == KbdRelease(t, k)
<1>1. /\ Sound(t) /\ t.H.owner = s.H.owner
      /\ k \in t.in.unseen => k \in Shown(t.in.last_kbd)
  <2>1. CASE k \in s.in.down /\ ~Sent(s, k)
    <3>1. t = DevFlush(s, "KEYBOARD", w)
      BY <2>1 DEF DevFlush
    <3> HIDE DEF t
    <3>2. "KEYBOARD" \in HidNodes /\ Reported(s)
      BY DEF HidNodes, Sound
    <3>3. Sound(t)
      BY <3>1, <3>2, DevFlushSound
    <3>4. t.H.owner = s.H.owner /\ t.in.unseen = {}
      BY <3>1, <3>2, DevFlushReports
    <3> QED
      BY <3>3, <3>4
  <2>2. CASE ~(k \in s.in.down /\ ~Sent(s, k))
    <3>1. t = s
      BY <2>2
    <3>2. k \in s.in.unseen => k \in Shown(s.in.last_kbd)
      BY <2>2 DEF Sound, Reported, Unshown, Sent
    <3> QED
      BY <3>1, <3>2, Zenon
  <2> QED
    BY <2>1, <2>2
<1>2. KeyUp(s, k, w) = IF u = t THEN t ELSE [u EXCEPT !.in.dirty = @ \cup {"KEYBOARD"}]
  BY DEF KeyUp
<1> HIDE DEF t
<1>3. /\ u # t => Sound([u EXCEPT !.in.dirty = @ \cup {"KEYBOARD"}])
      /\ u # t => [u EXCEPT !.in.dirty = @ \cup {"KEYBOARD"}].H.owner = t.H.owner
  BY <1>1, KbdReleaseSound
<1> HIDE DEF u
<1> QED
  BY <1>1, <1>2, <1>3

\* What a change of the buttons of one pointer keeps.
LEMMA ButtonsChanged ==
  ASSUME NEW s, Sound(s), NEW d \in Pointers, NEW bs \in SUBSET Buttons,
         d = "POINTER" /\ ~s.in.abs_placed => bs = {},
         NEW t, t = [s EXCEPT !.in.buttons[d] = bs, !.in.dirty = @ \cup {d}]
  PROVE  Sound(t) /\ t.H.owner = s.H.owner
<1> DEFINE i == [s.in EXCEPT !.buttons = [@ EXCEPT ![d] = bs], !.dirty = @ \cup {d}]
<1>1. s \in HidStates /\ s.in \in Inputs
  BY DEF HidStates, Reported, Sound
<1>2. t = [s EXCEPT !.in = i]
  BY <1>1 DEF HidStates, Inputs
<1>3. /\ i \in Inputs /\ i.kbd = s.in.kbd /\ i.down = s.in.down
      /\ i.last_kbd = s.in.last_kbd /\ i.unseen = s.in.unseen
      /\ i.last_btn = s.in.last_btn /\ i.buttons[d] = bs
      /\ \A e \in Pointers \ {d} : i.buttons[e] = s.in.buttons[e]
      /\ i.dirty = s.in.dirty \cup {d} /\ i.abs_placed = s.in.abs_placed
  BY <1>1 DEF Inputs, HidNodes, Pointers
<1> HIDE DEF i
<1>4. t \in HidStates /\ t.in = i /\ t.H = s.H /\ t.target = s.target
  BY <1>1, <1>2, <1>3 DEF HidStates
<1>5. Held(i) /\ Unshown(i)
  BY <1>3 DEF Held, Unshown, Sound, Reported
<1>6. Placed(i)
  BY <1>3 DEF Placed, Sound, Reported, Pointers
<1>7. KbdShown(t) /\ KbdSent(t)
  BY <1>3, <1>4 DEF KbdShown, KbdSent, Sound, Reported
<1>8. ASSUME NEW e \in Pointers PROVE BtnShown(t, e) /\ BtnSent(t, e)
  BY <1>3, <1>4 DEF BtnShown, BtnSent, Sound, Reported
<1> QED
  BY <1>4, <1>5, <1>6, <1>7, <1>8 DEF Sound, Reported

\* on_button, both ways.
LEMMA ButtonSound ==
  ASSUME NEW s, Sound(s), NEW d \in Pointers, NEW b \in Buttons, NEW w \in Writes
  PROVE  /\ Sound(ButtonDown(s, d, b)) /\ ButtonDown(s, d, b).H.owner = s.H.owner
         /\ Sound(ButtonUp(s, d, b, w)) /\ ButtonUp(s, d, b, w).H.owner = s.H.owner
<1>1. s \in HidStates /\ s.in \in Inputs /\ Reported(s)
  BY DEF HidStates, Reported, Sound
<1>2. Sound(ButtonDown(s, d, b)) /\ ButtonDown(s, d, b).H.owner = s.H.owner
  <2> DEFINE bs == s.in.buttons[d] \cup {b}
  <2>1. CASE b \in s.in.buttons[d] \/ (d = "POINTER" /\ ~s.in.abs_placed)
    BY <2>1 DEF ButtonDown
  <2>2. CASE ~(b \in s.in.buttons[d] \/ (d = "POINTER" /\ ~s.in.abs_placed))
    <3>1. bs \in SUBSET Buttons
      BY <1>1 DEF Inputs
    <3> DEFINE t == ButtonDown(s, d, b)
    <3>2. t = [s EXCEPT !.in.buttons[d] = bs, !.in.dirty = @ \cup {d}]
      BY <2>2 DEF ButtonDown
    <3>3. d = "POINTER" /\ ~s.in.abs_placed => bs = {}
      BY <2>2
    <3> HIDE DEF bs, t
    <3>4. Sound(t) /\ t.H.owner = s.H.owner
      BY <3>1, <3>2, <3>3, ButtonsChanged, ZenonT(60)
    <3> QED
      BY <3>4 DEF t
  <2> QED
    BY <2>1, <2>2
<1>3. Sound(ButtonUp(s, d, b, w)) /\ ButtonUp(s, d, b, w).H.owner = s.H.owner
  <2> DEFINE t == IF b \notin s.in.last_btn[d] THEN DevFlush(s, d, w) ELSE s
             bs == t.in.buttons[d] \ {b}
  <2>1. CASE b \notin s.in.buttons[d]
    BY <2>1 DEF ButtonUp
  <2>2. CASE b \in s.in.buttons[d]
    <3>1. ButtonUp(s, d, b, w) = [t EXCEPT !.in.buttons[d] = bs, !.in.dirty = @ \cup {d}]
      BY <2>2 DEF ButtonUp
    <3>2. Sound(t) /\ t.H.owner = s.H.owner /\ t.in.abs_placed = s.in.abs_placed
      <4>1. d \in HidNodes
        BY DEF HidNodes, Pointers
      <4>2. CASE b \notin s.in.last_btn[d]
        BY <4>1, <4>2, <1>1, DevFlushSound, DevFlushReports
      <4>3. CASE b \in s.in.last_btn[d]
        BY <4>3
      <4> QED
        BY <4>2, <4>3
    <3>3. ~(d = "POINTER" /\ ~s.in.abs_placed)
      BY <2>2, <1>1 DEF Reported, Placed
    <3> HIDE DEF t
    <3>4. bs \in SUBSET Buttons
      BY <3>2 DEF Sound, Reported, HidStates, Inputs
    <3> HIDE DEF bs
    <3> QED
      BY <3>1, <3>2, <3>3, <3>4, ButtonsChanged
  <2> QED
    BY <2>1, <2>2
<1> QED
  BY <1>2, <1>3

(***************************************************************************)
(* The steps.                                                              *)
(***************************************************************************)
\* What an event of the client leaves behind is again sound.
LEMMA BecomesSound ==
  ASSUME NEW s, Sound(s), s.H.owner # NoHolder, Becomes(s)
  PROVE  HidInv'
<1>1. State' = [H |-> s.H, in |-> s.in, target |-> s.target]
  BY DEF State, Becomes
<1>2. State' = s
  BY <1>1 DEF Sound, Reported, HidStates
<1> QED
  BY <1>2 DEF HidInv, Becomes

LEMMA HidInvInit ==
  ASSUME HidInit
  PROVE  HidInv
<1> DEFINE s == State
<1>1. s.H = H /\ s.in = NewInput /\ s.target = target /\ s = [H |-> H, in |-> in, target |-> target]
  BY DEF State, HidInit
<1>2. NoKbd \in KbdReports /\ NoButtons \in [Pointers -> SUBSET Buttons] /\ Shown(NoKbd) = {}
  BY DEF NoKbd, KbdReports, NoButtons, Shown, ToSet
<1>3. NewInput \in Inputs
  BY <1>2 DEF NewInput, Inputs
<1>4. H \in Gadgets /\ target \in Targets
  BY <1>2 DEF HidInit, Gadgets, Targets
<1>5. s \in HidStates
  BY <1>1, <1>3, <1>4 DEF HidStates, HidInit
<1>6. Held(NewInput) /\ Placed(NewInput) /\ Unshown(NewInput)
  <2>1. NoKbd.keys = <<>> /\ Len(NoKbd.keys) <= Slots
    BY HidAssumption DEF NoKbd
  <2> QED
    BY <2>1, <1>2 DEF NewInput, Held, Placed, Unshown, NoButtons, Pointers
<1>7. /\ target.kbd = NoKbd /\ target.btn = NoButtons
      /\ NewInput.kbd = NoKbd /\ NewInput.last_kbd = NoKbd
      /\ NewInput.buttons = NoButtons /\ NewInput.last_btn = NoButtons
  BY DEF HidInit, NewInput
<1> HIDE DEF s
<1>8. KbdShown(s) /\ KbdSent(s) /\ \A d \in Pointers : BtnShown(s, d) /\ BtnSent(s, d)
  BY <1>1, <1>7 DEF KbdShown, KbdSent, BtnShown, BtnSent
<1> QED
  BY <1>1, <1>5, <1>6, <1>8 DEF HidInv, Sound, Reported, HidInit, s

\* The inputs are given back with nothing held, and taken with nothing held.
LEMMA HidStopSound ==
  ASSUME HidInv, NEW w \in [HidNodes -> Writes], HidStop(w)
  PROVE  HidInv'
<1> DEFINE t == ReleaseAll(State, w)
           s == [H |-> [owner |-> NoHolder, open |-> {}], in |-> NewInput,
                 target |-> t.target]
<1>1. /\ Sound(t) /\ t.in.last_kbd = NoKbd
      /\ \A d \in Pointers : t.in.last_btn[d] = {}
  BY ReleaseAllSound DEF HidInv
<1> HIDE DEF t
<1>2. s.H = [owner |-> NoHolder, open |-> {}] /\ s.in = NewInput /\ s.target = t.target
  OBVIOUS
<1>3. NoKbd \in KbdReports /\ NoButtons \in [Pointers -> SUBSET Buttons] /\ Shown(NoKbd) = {}
  BY DEF NoKbd, KbdReports, NoButtons, Shown, ToSet
<1>4. NewInput \in Inputs
  BY <1>3 DEF NewInput, Inputs
<1>5. s \in HidStates
  BY <1>1, <1>4 DEF HidStates, Sound, Reported, Gadgets
<1>6. Held(NewInput) /\ Placed(NewInput) /\ Unshown(NewInput)
  <2>1. NoKbd.keys = <<>> /\ Len(NoKbd.keys) <= Slots
    BY HidAssumption DEF NoKbd
  <2> QED
    BY <2>1, <1>3 DEF NewInput, Held, Placed, Unshown, NoButtons, Pointers
<1>7. /\ NewInput.kbd = NoKbd /\ NewInput.last_kbd = NoKbd
      /\ \A d \in Pointers : NewInput.buttons[d] = {} /\ NewInput.last_btn[d] = {}
  BY DEF NewInput, NoButtons
<1> HIDE DEF s
<1>8. KbdShown(s) /\ KbdSent(s)
  BY <1>1, <1>2, <1>7 DEF KbdShown, KbdSent, Sound, Reported
<1>9. ASSUME NEW d \in Pointers PROVE BtnShown(s, d) /\ BtnSent(s, d)
  BY <1>1, <1>2, <1>7 DEF BtnShown, BtnSent, Sound, Reported
<1>10. State' = s
  BY DEF HidStop, State, s, t
<1> QED
  BY <1>2, <1>5, <1>6, <1>8, <1>9, <1>10 DEF HidInv, Sound, Reported, HidStop

LEMMA HidInvNext ==
  ASSUME HidInv, [HidNext]_hidVars
  PROVE  HidInv'
<1>1. /\ State \in HidStates /\ Sound(State) /\ State.H = H /\ State.in = in
      /\ State.target = target /\ H \in Gadgets /\ in \in Inputs /\ target \in Targets
  BY DEF HidInv, Sound, Reported, State, HidStates
<1>2. ASSUME NEW d \in HidNodes, NEW w \in Writes, Syn(d, w) PROVE HidInv'
  <2>1. Sound(DevFlush(State, d, w)) /\ DevFlush(State, d, w).H.owner = H.owner
    BY <1>1, DevFlushSound, DevFlushReports DEF Sound
  <2> QED
    BY <2>1, <1>2, BecomesSound DEF Syn, Heard
<1>3. ASSUME NEW k \in Keys \cup Mods, NEW w \in Writes, Key(k, w) PROVE HidInv'
  <2>1. CASE Becomes(KeyDown(State, k))
    <3>1. Sound(KeyDown(State, k)) /\ KeyDown(State, k).H.owner = H.owner
      BY <1>1, KeyDownSound
    <3> QED
      BY <3>1, <2>1, <1>3, BecomesSound DEF Key, Heard
  <2>2. CASE Becomes(KeyUp(State, k, w))
    <3>1. Sound(KeyUp(State, k, w)) /\ KeyUp(State, k, w).H.owner = H.owner
      BY <1>1, KeyUpSound
    <3> QED
      BY <3>1, <2>2, <1>3, BecomesSound DEF Key, Heard
  <2> QED
    BY <2>1, <2>2, <1>3 DEF Key
<1>4. ASSUME NEW d \in Pointers, NEW b \in Buttons, NEW w \in Writes, Button(d, b, w)
      PROVE  HidInv'
  <2>1. /\ Sound(ButtonDown(State, d, b)) /\ ButtonDown(State, d, b).H.owner = H.owner
        /\ Sound(ButtonUp(State, d, b, w)) /\ ButtonUp(State, d, b, w).H.owner = H.owner
    BY <1>1, ButtonSound
  <2> QED
    BY <2>1, <1>4, BecomesSound DEF Button, Heard
<1>5. ASSUME NEW w \in [HidNodes -> Writes], All(w) PROVE HidInv'
  <2>1. Sound(ReleaseAll(State, w)) /\ ReleaseAll(State, w).H.owner = H.owner
    BY <1>1, ReleaseAllSound
  <2> QED
    BY <2>1, <1>5, BecomesSound DEF All
<1>6. ASSUME NEW w \in [HidNodes -> Writes], HidStop(w) PROVE HidInv'
  BY <1>6, HidStopSound
<1>7. ASSUME NEW d \in Pointers, Rel(d) PROVE HidInv'
  <2> DEFINE i == [in EXCEPT !.dirty = @ \cup {d}]
             s == [State EXCEPT !.in = i]
  <2>1. s = [State EXCEPT !.in.dirty = @ \cup {d}]
    BY <1>1
  <2>2. /\ i \in Inputs /\ i.kbd = in.kbd /\ i.down = in.down /\ i.last_kbd = in.last_kbd
        /\ i.buttons = in.buttons /\ i.last_btn = in.last_btn /\ i.unseen = in.unseen
        /\ i.abs_placed = in.abs_placed /\ i.dirty = in.dirty \cup {d}
    BY <1>1 DEF Inputs, HidNodes, Pointers
  <2> HIDE DEF i
  <2>3. s \in HidStates /\ s.in = i /\ s.H = H /\ s.target = target
    BY <1>1, <2>2 DEF HidStates
  <2> HIDE DEF s
  <2>4. Sound(s)
    BY <1>1, <2>2, <2>3 DEF Sound, Reported, Held, Placed, Unshown, KbdShown, KbdSent, BtnShown, BtnSent
  <2> QED
    BY <2>1, <2>3, <2>4, <1>7, BecomesSound DEF Rel, Heard
<1>8. ASSUME Abs PROVE HidInv'
  <2> DEFINE i == [in EXCEPT !.abs_placed = TRUE, !.dirty = @ \cup {"POINTER"}]
             s == [State EXCEPT !.in = i]
  <2>1. s = [State EXCEPT !.in.abs_placed = TRUE, !.in.dirty = @ \cup {"POINTER"}]
    BY <1>1 DEF HidStates, Inputs
  <2>2. /\ i \in Inputs /\ i.kbd = in.kbd /\ i.down = in.down /\ i.last_kbd = in.last_kbd
        /\ i.buttons = in.buttons /\ i.last_btn = in.last_btn /\ i.unseen = in.unseen
        /\ i.abs_placed = TRUE /\ i.dirty = in.dirty \cup {"POINTER"}
    BY <1>1 DEF Inputs, HidNodes
  <2> HIDE DEF i
  <2>3. s \in HidStates /\ s.in = i /\ s.H = H /\ s.target = target
    BY <1>1, <2>2 DEF HidStates
  <2> HIDE DEF s
  <2>4. Sound(s)
    BY <1>1, <2>2, <2>3 DEF Sound, Reported, Held, Placed, Unshown, KbdShown, KbdSent, BtnShown, BtnSent
  <2> QED
    BY <2>1, <2>3, <2>4, <1>8, BecomesSound DEF Abs, Heard
<1>9. ASSUME NEW c \in Holders, NEW nodes \in SUBSET HidNodes, HidStart(c, nodes)
      PROVE  HidInv'
  <2>1. in = NewInput /\ in' = in /\ target' = target /\ H' = [owner |-> c, open |-> nodes]
    BY <1>9 DEF HidStart, HidInv
  <2>2. H' \in Gadgets /\ H'.owner # NoHolder
    BY <2>1, HidAssumption DEF Gadgets
  <2> DEFINE s == [H |-> H', in |-> in, target |-> target]
  <2>3. s \in HidStates /\ s.in = in /\ s.target = target /\ State' = s
    BY <2>1, <2>2, <1>1 DEF HidStates, State
  <2> HIDE DEF s
  <2>4. Sound(s)
    BY <1>1, <2>3 DEF Sound, Reported, KbdShown, KbdSent, BtnShown, BtnSent
  <2> QED
    BY <2>2, <2>3, <2>4 DEF HidInv
<1>10. CASE UNCHANGED hidVars
  BY <1>10 DEF hidVars, HidInv, State
<1> QED
  BY <1>2, <1>3, <1>4, <1>5, <1>6, <1>7, <1>8, <1>9, <1>10 DEF HidNext, Outcomes

LEMMA HidInvImplies ==
  ASSUME HidInv
  PROVE  HidTypeOK /\ TargetFollows /\ TapShown
<1>1. /\ Reported(State) /\ State.H = H /\ State.in = in /\ State.target = target
      /\ KbdSent(State) /\ \A d \in Pointers : BtnSent(State, d)
  BY DEF HidInv, Sound, State
<1>2. HidTypeOK
  BY <1>1 DEF Reported, HidStates, HidTypeOK, Held
<1>3. TargetFollows
  BY <1>1 DEF Reported, TargetFollows, KbdSent, KbdShown, BtnSent, BtnShown, Held, Shown
<1>4. TapShown
  BY <1>1 DEF Reported, TapShown, Unshown
<1> QED
  BY <1>2, <1>3, <1>4

\* The report state of input_hid.c keeps its types, and a report never has
\* more keys than slots.
THEOREM HidTypeCorrect == HidSpec => []HidTypeOK
<1>1. HidInit => HidInv
  BY HidInvInit
<1>2. HidInv /\ [HidNext]_hidVars => HidInv'
  BY HidInvNext
<1>3. HidInv => HidTypeOK
  BY HidInvImplies
<1> QED
  BY <1>1, <1>2, <1>3, PTL DEF HidSpec

\* For every number of slots, keys and buttons: a target that has read its
\* reports sees exactly what the client holds once the frame is complete, and
\* nothing once the inputs are given back (on_key, on_button, release_all).
THEOREM TargetAlwaysFollows == HidSpec => []TargetFollows
<1>1. HidInit => HidInv
  BY HidInvInit
<1>2. HidInv /\ [HidNext]_hidVars => HidInv'
  BY HidInvNext
<1>3. HidInv => TargetFollows
  BY HidInvImplies
<1> QED
  BY <1>1, <1>2, <1>3, PTL DEF HidSpec

\* For every number of slots, keys and buttons: no key that was pressed since
\* the last report goes by unnoticed, it is down still or the last report has
\* it (on_key).  That a second tap within a frame is merged with the first is
\* left open here: EveryTapShown says it is not, and does not hold.
THEOREM TapAlwaysShown == HidSpec => []TapShown
<1>1. HidInit => HidInv
  BY HidInvInit
<1>2. HidInv /\ [HidNext]_hidVars => HidInv'
  BY HidInvNext
<1>3. HidInv => TapShown
  BY HidInvImplies
<1> QED
  BY <1>1, <1>2, <1>3, PTL DEF HidSpec

(***************************************************************************)
(* Input: the devices and what the desktop has seen of them.               *)
(***************************************************************************)
AllCodes == UNION {Codes[d] : d \in Devs}
DevTypes == [fd : SUBSET Devs, down : [Devs -> SUBSET AllCodes], dirty : SUBSET Devs,
             tilted : BOOLEAN]

\* A device that did not come to be has no key down and nothing to report.
Open(v) ==
  /\ v \in DevTypes
  /\ \A d \in Devs : v.down[d] \subseteq Codes[d] /\ (d \notin v.fd => v.down[d] = {})
  /\ v.dirty \subseteq v.fd
  /\ "GAMEPAD" \notin v.fd => ~v.tilted

\* No client, no device.
OffClean == ~on => dev = Idle({})

DeskInv == Open(dev) /\ OffClean /\ DeskFollows

LEMMA UpTyped == AllUp \in [Devs -> SUBSET AllCodes] /\ \A d \in Devs : AllUp[d] = {}
BY DEF AllUp

LEMMA IdleOpen ==
  ASSUME NEW fds \in SUBSET Devs
  PROVE  /\ Open(Idle(fds)) /\ Idle(fds).down = AllUp
         /\ Idle(fds).dirty = {} /\ Idle(fds).tilted = FALSE
<1>1. FALSE \in BOOLEAN /\ {} \in SUBSET Devs
  OBVIOUS
<1>2. Idle(fds) \in DevTypes
  BY <1>1, UpTyped DEF DevTypes, Idle
<1> QED BY <1>2, UpTyped DEF Open, Idle

\* The end of every event on the devices: they stay in order, and the desktop
\* has seen what is not dirty.
LEMMA DevChanged ==
  ASSUME DeskInv, on, on' = on, Open(dev'), UNCHANGED <<seen, shown>>,
         \A d \in Devs : d \notin dev'.dirty =>
            /\ d \notin dev.dirty /\ dev'.down[d] = dev.down[d]
            /\ d = "GAMEPAD" => dev'.tilted = dev.tilted
  PROVE  DeskInv'
BY DEF DeskInv, OffClean, DeskFollows

\* indev_release on every device closes what it sends with a SYN.
LEMMA ReleaseKeeps ==
  ASSUME DeskInv, NEW fds \in SUBSET Devs, InputReleaseAll(fds),
         on' \/ fds = {}
  PROVE  DeskInv'
<1> DEFINE ds == {d \in dev.fd : dev.down[d] # {} \/ d \in dev.dirty \/ d = "GAMEPAD"}
<1>1. dev' = Idle(fds)
  BY DEF InputReleaseAll
<1>2. /\ Open(dev') /\ dev'.down = AllUp /\ dev'.tilted = FALSE
      /\ dev'.dirty = {}
  BY <1>1, IdleOpen
<1>3. /\ seen' = [d \in Devs |-> IF d \in ds THEN dev'.down[d] ELSE seen[d]]
      /\ shown' = IF "GAMEPAD" \in ds THEN dev'.tilted ELSE shown
  BY DEF InputReleaseAll, Report
<1>4. ASSUME NEW d \in Devs
      PROVE  seen'[d] = dev'.down[d]
  <2>1. CASE d \in ds
    BY <1>3, <2>1
  <2>2. CASE d \notin ds
    <3>1. d \notin dev.dirty /\ dev.down[d] = {}
      BY <2>2 DEF DeskInv, Open
    <3>2. seen[d] = {}
      BY <3>1 DEF DeskInv, DeskFollows
    <3> QED BY <1>2, <1>3, <2>2, <3>2, UpTyped
  <2> QED BY <2>1, <2>2
<1>5. shown' = dev'.tilted
  <2>1. CASE "GAMEPAD" \in ds
    BY <1>3, <2>1
  <2>2. CASE "GAMEPAD" \notin ds
    <3>1. "GAMEPAD" \in Devs /\ "GAMEPAD" \notin dev.fd
      BY <2>2 DEF Devs
    <3>2. "GAMEPAD" \notin dev.dirty /\ dev.tilted = FALSE
      BY <3>1 DEF DeskInv, Open, DevTypes
    <3>3. shown = FALSE
      BY <3>1, <3>2 DEF DeskInv, DeskFollows
    <3> QED BY <1>2, <1>3, <2>2, <3>3
  <2> QED BY <2>1, <2>2
<1>6. OffClean'
  BY <1>1 DEF OffClean
<1> QED BY <1>2, <1>4, <1>5, <1>6 DEF DeskInv, DeskFollows

LEMMA StartKeeps ==
  ASSUME DeskInv, NEW fds \in DevSets, InputStart(fds)
  PROVE  DeskInv'
<1>1. fds \in SUBSET Devs
  BY InputAssumption DEF Devs
<1>2. /\ dev = Idle({}) /\ dev' = Idle(fds) /\ on'
      /\ UNCHANGED <<seen, shown>>
  BY DEF InputStart, DeskInv, OffClean, desk
<1>3. /\ Open(dev') /\ dev'.down = AllUp /\ dev'.tilted = FALSE
  BY <1>1, <1>2, IdleOpen
<1>4. /\ dev.down = AllUp /\ dev.tilted = FALSE /\ dev.dirty = {}
  BY <1>2 DEF Idle
<1> QED BY <1>2, <1>3, <1>4 DEF DeskInv, DeskFollows, OffClean

\* SYN: what the client held at it is what the desktop sees.
LEMMA SynKeeps ==
  ASSUME DeskInv, NEW e \in Devs, MsgSyn(e)
  PROVE  DeskInv'
<1>1. dev \in DevTypes /\ on /\ on'
  BY DEF DeskInv, Open, MsgSyn
<1>2. dev' = [dev EXCEPT !.dirty = dev.dirty \ {e}]
  BY DEF MsgSyn
<1>3. /\ dev' \in DevTypes /\ dev'.down = dev.down /\ dev'.fd = dev.fd
      /\ dev'.tilted = dev.tilted /\ dev'.dirty = dev.dirty \ {e}
  BY <1>1, <1>2 DEF DevTypes
<1>4. Open(dev')
  BY <1>3 DEF DeskInv, Open
<1>5. /\ seen' = [d \in Devs |-> IF d \in {e} THEN dev'.down[d] ELSE seen[d]]
      /\ shown' = IF "GAMEPAD" \in {e} THEN dev'.tilted ELSE shown
  BY DEF MsgSyn, Report
<1>6. ASSUME NEW d \in Devs, d \notin dev'.dirty
      PROVE  seen'[d] = dev'.down[d] /\ (d = "GAMEPAD" => shown' = dev'.tilted)
  <2>1. CASE d = e
    BY <1>5, <2>1
  <2>2. CASE d # e
    BY <1>3, <1>5, <1>6, <2>2 DEF DeskInv, DeskFollows
  <2> QED BY <2>1, <2>2
<1> QED BY <1>1, <1>4, <1>6 DEF DeskInv, DeskFollows, OffClean

\* A key or button goes down or up.
LEMMA KeyKeeps ==
  ASSUME DeskInv, NEW e \in Devs, NEW k \in Codes[e], MsgPress(e, k) \/ MsgRelease(e, k)
  PROVE  DeskInv'
<1>1. /\ dev \in DevTypes /\ on /\ e \in dev.fd
      /\ \A d \in Devs : dev.down[d] \subseteq Codes[d] /\ (d \notin dev.fd => dev.down[d] = {})
      /\ dev.dirty \subseteq dev.fd /\ ("GAMEPAD" \notin dev.fd => ~dev.tilted)
  BY DEF DeskInv, Open, MsgPress, MsgRelease
<1>2. UNCHANGED <<on, seen, shown>>
  BY DEF MsgPress, MsgRelease, desk
<1>3. PICK ks \in SUBSET Codes[e] :
        dev' = [dev EXCEPT !.down = [dev.down EXCEPT ![e] = ks], !.dirty = dev.dirty \cup {e}]
  <2>1. CASE MsgPress(e, k)
    <3>1. dev' = [dev EXCEPT !.down = [dev.down EXCEPT ![e] = dev.down[e] \cup {k}],
                             !.dirty = dev.dirty \cup {e}]
      BY <2>1 DEF MsgPress
    <3> QED BY <1>1, <3>1
  <2>2. CASE MsgRelease(e, k)
    <3>1. dev' = [dev EXCEPT !.down = [dev.down EXCEPT ![e] = dev.down[e] \ {k}],
                             !.dirty = dev.dirty \cup {e}]
      BY <2>2 DEF MsgRelease
    <3> QED BY <1>1, <3>1
  <2> QED BY <2>1, <2>2
<1>4. ks \subseteq AllCodes
  BY DEF AllCodes
<1>5. /\ dev.down \in [Devs -> SUBSET AllCodes]
      /\ [dev.down EXCEPT ![e] = ks] \in [Devs -> SUBSET AllCodes]
  BY <1>1, <1>4 DEF DevTypes
<1>6. /\ dev' \in DevTypes /\ dev'.fd = dev.fd /\ dev'.tilted = dev.tilted
      /\ dev'.dirty = dev.dirty \cup {e} /\ dev'.down = [dev.down EXCEPT ![e] = ks]
  BY <1>1, <1>3, <1>5 DEF DevTypes
<1>7. \A d \in Devs : dev'.down[d] = IF d = e THEN ks ELSE dev.down[d]
  BY <1>5, <1>6
<1>8. Open(dev')
  BY <1>1, <1>6, <1>7 DEF Open
<1> QED BY <1>1, <1>2, <1>6, <1>7, <1>8, DevChanged

\* A motion or a stick: the device is dirty, and no key has moved.
LEMMA MotionKeeps ==
  ASSUME DeskInv, on, NEW e \in dev.fd, NEW b \in BOOLEAN,
         b # dev.tilted => e = "GAMEPAD",
         dev' = [dev EXCEPT !.tilted = b, !.dirty = dev.dirty \cup {e}],
         UNCHANGED <<on, seen, shown>>
  PROVE  DeskInv'
<1>1. /\ dev \in DevTypes /\ e \in Devs
      /\ \A d \in Devs : dev.down[d] \subseteq Codes[d] /\ (d \notin dev.fd => dev.down[d] = {})
      /\ dev.dirty \subseteq dev.fd /\ ("GAMEPAD" \notin dev.fd => ~dev.tilted)
  BY DEF DeskInv, Open, DevTypes
<1>2. /\ dev' \in DevTypes /\ dev'.fd = dev.fd /\ dev'.tilted = b
      /\ dev'.dirty = dev.dirty \cup {e} /\ dev'.down = dev.down
  BY <1>1 DEF DevTypes
<1>3. "GAMEPAD" \notin dev'.fd => ~dev'.tilted
  BY <1>1, <1>2
<1>4. Open(dev')
  BY <1>1, <1>2, <1>3 DEF Open
<1> QED BY <1>2, <1>4, DevChanged

LEMMA DeskStep == DeskInv /\ [InputNext]_inputVars => DeskInv'
<1> SUFFICES ASSUME DeskInv, [InputNext]_inputVars
             PROVE  DeskInv'
  OBVIOUS
<1>1. ASSUME UNCHANGED <<dev, on, seen, shown>>
      PROVE  DeskInv'
  BY <1>1 DEF DeskInv, Open, OffClean, DeskFollows
<1>2. CASE UNCHANGED inputVars
  BY <1>1, <1>2 DEF inputVars
<1>3. CASE \/ LayoutReply \/ LayoutFailed \/ LayoutOverdue \/ MonitorsChanged
           \/ MutterReplies \/ (\E m \in Readings : MutterMoves(m)) \/ MsgAbsDropped
  BY <1>1, <1>3 DEF LayoutReply, LayoutFailed, LayoutOverdue, MonitorsChanged,
       MutterReplies, MutterMoves, MsgAbsDropped, desk
<1>4. ASSUME NEW fds \in DevSets, InputStart(fds)
      PROVE  DeskInv'
  BY <1>4, StartKeeps
<1>5. CASE InputStop
  <2>1. InputReleaseAll({}) /\ {} \in SUBSET Devs
    BY <1>5 DEF InputStop
  <2> QED BY <2>1, ReleaseKeeps
<1>6. CASE MsgAll
  <2>1. InputReleaseAll(dev.fd) /\ on' /\ dev.fd \in SUBSET Devs
    BY <1>6 DEF MsgAll, DeskInv, Open, DevTypes
  <2> QED BY <2>1, ReleaseKeeps
<1>7. ASSUME NEW d \in Devs, MsgSyn(d)
      PROVE  DeskInv'
  BY <1>7, SynKeeps
<1>8. ASSUME NEW d \in Devs, NEW k \in Codes[d], MsgPress(d, k) \/ MsgRelease(d, k)
      PROVE  DeskInv'
  BY <1>8, KeyKeeps
<1>9. dev \in DevTypes /\ dev.tilted \in BOOLEAN
  BY DEF DeskInv, Open, DevTypes
<1>10. ASSUME NEW d \in Devs, MsgRel(d)
       PROVE  DeskInv'
  <2>1. /\ on /\ d \in dev.fd /\ dev' = [dev EXCEPT !.dirty = dev.dirty \cup {d}]
        /\ UNCHANGED <<on, seen, shown>>
    BY <1>10 DEF MsgRel, desk
  <2>2. dev' = [dev EXCEPT !.tilted = dev.tilted, !.dirty = dev.dirty \cup {d}]
    BY <1>9, <2>1 DEF DevTypes
  <2> QED BY <1>9, <2>1, <2>2, MotionKeeps
<1>11. ASSUME NEW away \in BOOLEAN, MsgStick(away)
       PROVE  DeskInv'
  <2>1. /\ on /\ "GAMEPAD" \in dev.fd
        /\ dev' = [dev EXCEPT !.tilted = away, !.dirty = dev.dirty \cup {"GAMEPAD"}]
        /\ UNCHANGED <<on, seen, shown>>
    BY <1>11 DEF MsgStick, desk
  <2> QED BY <2>1, MotionKeeps
<1>12. ASSUME NEW v \in -1 .. Width, MsgAbs(v)
       PROVE  DeskInv'
  <2>1. /\ on /\ "POINTER" \in dev.fd
        /\ dev' = [dev EXCEPT !.dirty = dev.dirty \cup {"POINTER"}]
        /\ UNCHANGED <<on, seen, shown>>
    BY <1>12 DEF MsgAbs, desk
  <2>2. dev' = [dev EXCEPT !.tilted = dev.tilted, !.dirty = dev.dirty \cup {"POINTER"}]
    BY <1>9, <2>1 DEF DevTypes
  <2> QED BY <1>9, <2>1, <2>2, MotionKeeps
<1> QED
  BY <1>2, <1>3, <1>4, <1>5, <1>6, <1>7, <1>8, <1>10, <1>11, <1>12 DEF InputNext

LEMMA DeskStart == InputInit => DeskInv
<1> SUFFICES ASSUME InputInit
             PROVE  DeskInv
  OBVIOUS
<1>1. {} \in SUBSET Devs
  OBVIOUS
<1>2. Open(Idle({})) /\ Idle({}).down = AllUp /\ Idle({}).tilted = FALSE
  BY <1>1, IdleOpen
<1> QED BY <1>2 DEF InputInit, DeskInv, OffClean, DeskFollows

\* The desktop holds what the client held at its last SYN, and nothing of a
\* client that is gone, whatever devices came to be at its start
\* (sremfb_input_msg, indev_release, sremfb_input_stop).
THEOREM DeskAlwaysFollows == InputSpec => []DeskFollows
<1>1. DeskInv => DeskFollows
  BY DEF DeskInv
<1> QED BY <1>1, DeskStart, DeskStep, PTL DEF InputSpec

(***************************************************************************)
(* Input: the layout the absolute pointer is placed on.                    *)
(***************************************************************************)
Messages == {Signal, Overdue} \cup {Reply(m) : m \in Readings}
LTypes == [pending : BOOLEAN, again : BOOLEAN, mons : Readings]

IsReply(x) == x.msg = "state"

LayoutTyped ==
  /\ L \in LTypes /\ layout \in Readings /\ wire \in Seq(Messages)
  /\ call \in BOOLEAN /\ blind \in BOOLEAN

\* One call at a time: it is at mutter, or its reply is under way.
OneCall ==
  /\ call => L.pending
  /\ L.again => L.pending
  /\ \A i \in DOMAIN wire : IsReply(wire[i]) => L.pending /\ ~call
  /\ \A i, j \in DOMAIN wire : IsReply(wire[i]) /\ IsReply(wire[j]) => i = j

\* A reply that tells an old layout has the signal of the change behind it.
Announced ==
  \A i \in DOMAIN wire : IsReply(wire[i]) =>
    \/ wire[i].mons = layout
    \/ \E j \in DOMAIN wire : j > i /\ wire[j] = Signal

\* The layout in use is mutter's, or its change is still to be heard of.
InUse ==
  on /\ ~L.pending /\ ~blind =>
    \/ L.mons = layout
    \/ \E j \in DOMAIN wire : wire[j] = Signal

MirrorInv == LayoutTyped /\ OneCall /\ Announced /\ InUse

LEMMA MessageKinds ==
  /\ Signal \in Messages /\ Overdue \in Messages
  /\ ~IsReply(Signal) /\ ~IsReply(Overdue) /\ Overdue # Signal
  /\ \A m \in Readings : Reply(m) \in Messages /\ IsReply(Reply(m)) /\ Reply(m).mons = m
                         /\ Reply(m) # Signal
  /\ \A x \in Messages : IsReply(x) => x.mons \in Readings
<1>1. Signal.msg = "changed" /\ Overdue.msg = "overdue"
  BY DEF Signal, Overdue
<1>2. \A m \in Readings : Reply(m).msg = "state" /\ Reply(m).mons = m
  BY DEF Reply
<1> QED BY <1>1, <1>2 DEF Messages, IsReply

\* A message leaves the wire and the layout stays: what is announced is so still.
LEMMA AnnouncedTail ==
  ASSUME MirrorInv, wire # <<>>, wire' = Tail(wire), layout' = layout
  PROVE  /\ Announced'
         /\ \A i \in DOMAIN wire' : i \in Nat /\ i + 1 \in DOMAIN wire /\ wire'[i] = wire[i + 1]
         /\ (\E j \in DOMAIN wire : j # 1 /\ wire[j] = Signal)
               => \E j \in DOMAIN wire' : wire'[j] = Signal
         /\ wire' \in Seq(Messages)
<1>1. wire \in Seq(Messages)
  BY DEF MirrorInv, LayoutTyped
<1>2. /\ wire' \in Seq(Messages)
      /\ \A i \in DOMAIN wire' : i \in Nat /\ i + 1 \in DOMAIN wire /\ wire'[i] = wire[i + 1]
      /\ \A i \in DOMAIN wire \ {1} : i - 1 \in DOMAIN wire' /\ wire'[i - 1] = wire[i] /\ i \in Nat
  BY <1>1, WireTail
<1>3. ASSUME NEW i \in DOMAIN wire', IsReply(wire'[i]), wire'[i].mons # layout
      PROVE  \E j \in DOMAIN wire' : j > i /\ wire'[j] = Signal
  <2>1. i \in Nat /\ i + 1 \in DOMAIN wire /\ wire'[i] = wire[i + 1]
    BY <1>2
  <2>2. PICK j \in DOMAIN wire : j > i + 1 /\ wire[j] = Signal
    BY <1>3, <2>1 DEF MirrorInv, Announced
  <2>3. j \in DOMAIN wire \ {1}
    BY <2>1, <2>2
  <2>4. j - 1 \in DOMAIN wire' /\ wire'[j - 1] = Signal /\ j - 1 > i
    BY <1>2, <2>1, <2>2, <2>3
  <2> QED BY <2>4
<1>4. Announced'
  BY <1>3 DEF Announced
<1> QED BY <1>2, <1>4

\* layout_refresh asks, or notes that it has to ask again.
LEMMA RefreshAsks ==
  ASSUME NEW l \in LTypes, LayoutRefresh(l)
  PROVE  /\ L' \in LTypes /\ L'.pending /\ L'.mons = l.mons
         /\ ~blind' /\ blind' \in BOOLEAN
         /\ call' = (call \/ ~l.pending)
<1>1. TRUE \in BOOLEAN
  OBVIOUS
<1> QED BY <1>1 DEF LayoutRefresh, LTypes

\* The end of on_layout_reply.
LEMMA AnsweredIs ==
  ASSUME NEW l \in LTypes, NEW failed \in BOOLEAN, LayoutAnswered(l, failed)
  PROVE  /\ L' \in LTypes /\ L'.mons = l.mons
         /\ blind' \in BOOLEAN /\ call' \in BOOLEAN
         /\ call' => L'.pending
         /\ L'.again => L'.pending
         /\ ~L'.pending => blind' = failed
<1>1. TRUE \in BOOLEAN /\ FALSE \in BOOLEAN
  OBVIOUS
<1>2. CASE l.again
  <2> DEFINE k == [l EXCEPT !.pending = FALSE, !.again = FALSE]
  <2>1. k \in LTypes /\ k.mons = l.mons /\ ~k.pending
    BY <1>1 DEF LTypes
  <2>2. LayoutRefresh(k)
    BY <1>2 DEF LayoutAnswered
  <2> HIDE DEF k
  <2>3. L' \in LTypes /\ L'.pending /\ L'.mons = l.mons /\ blind' \in BOOLEAN /\ call' = TRUE
    BY <2>1, <2>2, RefreshAsks
  <2> QED BY <2>3, <1>1
<1>3. CASE ~l.again
  <2>1. L' = [l EXCEPT !.pending = FALSE] /\ call' = FALSE /\ blind' = failed
    BY <1>3 DEF LayoutAnswered
  <2> QED BY <1>1, <1>3, <2>1 DEF LTypes
<1> QED BY <1>2, <1>3

LEMMA ReplyKeeps ==
  ASSUME MirrorInv, LayoutReply
  PROVE  MirrorInv'
<1> DEFINE l == [L EXCEPT !.mons = Head(wire).mons]
<1>1. /\ wire \in Seq(Messages) /\ wire # <<>> /\ IsReply(Head(wire)) /\ wire' = Tail(wire)
      /\ L \in LTypes /\ layout \in Readings /\ layout' = layout /\ on' = on
  BY DEF MirrorInv, LayoutTyped, LayoutReply, IsReply
<1>2. Head(wire) = wire[1] /\ 1 \in DOMAIN wire /\ Head(wire).mons \in Readings
  BY <1>1, WireTail, MessageKinds
<1>3. l \in LTypes /\ l.mons = Head(wire).mons
  BY <1>1, <1>2 DEF LTypes
<1>4. LayoutAnswered(l, FALSE) /\ FALSE \in BOOLEAN
  BY DEF LayoutReply
<1> HIDE DEF l
<1>5. /\ L' \in LTypes /\ L'.mons = Head(wire).mons
      /\ blind' \in BOOLEAN /\ call' \in BOOLEAN
      /\ call' => L'.pending
      /\ L'.again => L'.pending
  BY <1>3, <1>4, AnsweredIs
<1>6. /\ Announced' /\ wire' \in Seq(Messages)
      /\ \A i \in DOMAIN wire' : i \in Nat /\ i + 1 \in DOMAIN wire /\ wire'[i] = wire[i + 1]
      /\ (\E j \in DOMAIN wire : j # 1 /\ wire[j] = Signal)
            => \E j \in DOMAIN wire' : wire'[j] = Signal
  BY <1>1, AnnouncedTail
<1>7. \A i \in DOMAIN wire' : ~IsReply(wire'[i])
  <2> SUFFICES ASSUME NEW i \in DOMAIN wire', IsReply(wire'[i])
               PROVE  FALSE
    OBVIOUS
  <2>1. i \in Nat /\ i + 1 \in DOMAIN wire /\ IsReply(wire[i + 1]) /\ IsReply(wire[1])
    BY <1>1, <1>2, <1>6
  <2>2. i + 1 = 1
    BY <1>2, <2>1 DEF MirrorInv, OneCall
  <2>3. i = 0 /\ 0 \notin DOMAIN wire'
    BY <1>6, <2>1, <2>2, LenProperties
  <2> QED BY <2>3
<1>8. Head(wire).mons = layout \/ \E j \in DOMAIN wire' : wire'[j] = Signal
  <2> SUFFICES ASSUME Head(wire).mons # layout
               PROVE  \E j \in DOMAIN wire' : wire'[j] = Signal
    OBVIOUS
  <2>1. PICK j \in DOMAIN wire : j > 1 /\ wire[j] = Signal
    BY <1>1, <1>2 DEF MirrorInv, Announced
  <2>2. j # 1
    BY <2>1
  <2> QED BY <1>6, <2>1, <2>2
<1>9. LayoutTyped'
  BY <1>1, <1>5, <1>6 DEF LayoutTyped
<1>10. OneCall'
  BY <1>5, <1>7 DEF OneCall
<1>11. InUse'
  BY <1>1, <1>5, <1>8 DEF InUse
<1> QED BY <1>6, <1>9, <1>10, <1>11 DEF MirrorInv

LEMMA FailedKeeps ==
  ASSUME MirrorInv, LayoutFailed
  PROVE  MirrorInv'
<1>1. /\ wire \in Seq(Messages) /\ L \in LTypes /\ layout \in Readings /\ layout' = layout
      /\ wire' = [i \in DOMAIN wire |-> IF wire[i].msg = "state" THEN Overdue ELSE wire[i]]
  BY DEF MirrorInv, LayoutTyped, LayoutFailed
<1>2. LayoutAnswered(L, TRUE) /\ TRUE \in BOOLEAN
  BY DEF LayoutFailed
<1>3. /\ L' \in LTypes /\ blind' \in BOOLEAN /\ call' \in BOOLEAN
      /\ call' => L'.pending
      /\ L'.again => L'.pending
      /\ ~L'.pending => blind'
  BY <1>1, <1>2, AnsweredIs
<1>4. DOMAIN wire = 1 .. Len(wire) /\ Len(wire) \in Nat /\ \A i \in DOMAIN wire : wire[i] \in Messages
  BY <1>1, LenProperties, ElementOfSeq
<1>5. \A i \in DOMAIN wire : (IF wire[i].msg = "state" THEN Overdue ELSE wire[i]) \in Messages
  BY <1>4, MessageKinds
<1>6. wire' \in [1 .. Len(wire) -> Messages]
  BY <1>1, <1>4, <1>5
<1>7. wire' \in Seq(Messages)
  BY <1>4, <1>6, SeqDef
<1>8. \A i \in DOMAIN wire' : ~IsReply(wire'[i])
  BY <1>1, MessageKinds DEF IsReply
<1>9. LayoutTyped'
  BY <1>1, <1>3, <1>7 DEF LayoutTyped
<1>10. OneCall' /\ Announced'
  BY <1>3, <1>8 DEF OneCall, Announced
<1>11. InUse'
  BY <1>3 DEF InUse
<1> QED BY <1>9, <1>10, <1>11 DEF MirrorInv

LEMMA OverdueKeeps ==
  ASSUME MirrorInv, LayoutOverdue
  PROVE  MirrorInv'
<1>1. /\ wire \in Seq(Messages) /\ wire # <<>> /\ Head(wire) = Overdue /\ wire' = Tail(wire)
      /\ UNCHANGED <<L, layout, call, blind, on>>
  BY DEF MirrorInv, LayoutTyped, LayoutOverdue
<1>2. wire[1] = Overdue
  BY <1>1, WireTail
<1>3. /\ Announced' /\ wire' \in Seq(Messages)
      /\ \A i \in DOMAIN wire' : i \in Nat /\ i + 1 \in DOMAIN wire /\ wire'[i] = wire[i + 1]
      /\ (\E j \in DOMAIN wire : j # 1 /\ wire[j] = Signal)
            => \E j \in DOMAIN wire' : wire'[j] = Signal
  BY <1>1, AnnouncedTail
<1>4. LayoutTyped'
  BY <1>1, <1>3 DEF MirrorInv, LayoutTyped
<1>5. ASSUME NEW i \in DOMAIN wire', NEW j \in DOMAIN wire', IsReply(wire'[i]), IsReply(wire'[j])
      PROVE  i = j
  <2>1. i + 1 = j + 1 /\ i \in Nat /\ j \in Nat
    BY <1>3, <1>5 DEF MirrorInv, OneCall
  <2> QED BY <2>1
<1>6. OneCall'
  BY <1>1, <1>3, <1>5 DEF MirrorInv, OneCall
<1>7. (\E j \in DOMAIN wire : wire[j] = Signal) => \E j \in DOMAIN wire' : wire'[j] = Signal
  BY <1>2, <1>3, MessageKinds
<1>8. InUse'
  BY <1>1, <1>7 DEF MirrorInv, InUse
<1> QED BY <1>3, <1>4, <1>6, <1>8 DEF MirrorInv

LEMMA ChangedKeeps ==
  ASSUME MirrorInv, MonitorsChanged
  PROVE  MirrorInv'
<1>1. /\ wire \in Seq(Messages) /\ wire # <<>> /\ wire' = Tail(wire)
      /\ L \in LTypes /\ layout \in Readings /\ layout' = layout /\ call \in BOOLEAN
      /\ LayoutRefresh(L)
  BY DEF MirrorInv, LayoutTyped, MonitorsChanged
<1>2. /\ L' \in LTypes /\ L'.pending /\ ~blind' /\ blind' \in BOOLEAN
      /\ call' = (call \/ ~L.pending)
  BY <1>1, RefreshAsks
<1>3. /\ Announced' /\ wire' \in Seq(Messages)
      /\ \A i \in DOMAIN wire' : i \in Nat /\ i + 1 \in DOMAIN wire /\ wire'[i] = wire[i + 1]
  BY <1>1, AnnouncedTail
<1>4. call' \in BOOLEAN
  BY <1>2
<1>5. LayoutTyped'
  BY <1>1, <1>2, <1>3, <1>4 DEF LayoutTyped
<1>6. ASSUME NEW i \in DOMAIN wire', NEW j \in DOMAIN wire', IsReply(wire'[i]), IsReply(wire'[j])
      PROVE  i = j
  <2>1. i + 1 = j + 1 /\ i \in Nat /\ j \in Nat
    BY <1>3, <1>6 DEF MirrorInv, OneCall
  <2> QED BY <2>1
<1>7. ASSUME NEW i \in DOMAIN wire', IsReply(wire'[i])
      PROVE  ~call'
  BY <1>2, <1>3, <1>7 DEF MirrorInv, OneCall
<1>8. OneCall'
  BY <1>2, <1>6, <1>7 DEF OneCall
<1>9. InUse'
  BY <1>2 DEF InUse
<1> QED BY <1>3, <1>5, <1>8, <1>9 DEF MirrorInv

LEMMA RepliesKeeps ==
  ASSUME MirrorInv, MutterReplies
  PROVE  MirrorInv'
<1> DEFINE x == Reply(layout)
           n == Len(wire) + 1
<1>1. /\ wire \in Seq(Messages) /\ wire' = Append(wire, x) /\ call /\ call' = FALSE
      /\ UNCHANGED <<L, layout, blind, on>> /\ layout \in Readings
  BY DEF MirrorInv, LayoutTyped, MutterReplies
<1>2. x \in Messages /\ IsReply(x) /\ x.mons = layout /\ x # Signal
  BY <1>1, MessageKinds
<1> HIDE DEF x
<1>3. /\ wire' \in Seq(Messages) /\ n \in DOMAIN wire' /\ wire'[n] = x
      /\ \A i \in DOMAIN wire : i \in DOMAIN wire' /\ wire'[i] = wire[i] /\ n > i
      /\ \A i \in DOMAIN wire' : i \in DOMAIN wire \/ i = n
  BY <1>1, <1>2, WireAppend
<1> HIDE DEF n
<1>4. \A i \in DOMAIN wire : ~IsReply(wire[i])
  BY <1>1 DEF MirrorInv, OneCall
<1>5. LayoutTyped'
  BY <1>1, <1>3 DEF MirrorInv, LayoutTyped
<1>6. \A i \in DOMAIN wire' : IsReply(wire'[i]) => i = n
  BY <1>3, <1>4
<1>7. OneCall'
  BY <1>1, <1>6 DEF MirrorInv, OneCall
<1>8. Announced'
  BY <1>1, <1>2, <1>3, <1>6 DEF Announced
<1>9. InUse'
  BY <1>1 DEF MirrorInv, InUse, OneCall
<1> QED BY <1>5, <1>7, <1>8, <1>9 DEF MirrorInv

LEMMA MovesKeeps ==
  ASSUME MirrorInv, NEW m \in Readings, MutterMoves(m)
  PROVE  MirrorInv'
<1> DEFINE n == Len(wire) + 1
<1>1. /\ wire \in Seq(Messages) /\ wire' = Append(wire, Signal) /\ layout' = m
      /\ UNCHANGED <<L, call, blind, on>>
  BY DEF MirrorInv, LayoutTyped, MutterMoves
<1>2. Signal \in Messages /\ ~IsReply(Signal)
  BY MessageKinds
<1>3. /\ wire' \in Seq(Messages) /\ n \in DOMAIN wire' /\ wire'[n] = Signal
      /\ \A i \in DOMAIN wire : i \in DOMAIN wire' /\ wire'[i] = wire[i] /\ n > i
      /\ \A i \in DOMAIN wire' : i \in DOMAIN wire \/ i = n
  BY <1>1, <1>2, WireAppend
<1> HIDE DEF n
<1>4. LayoutTyped'
  BY <1>1, <1>3 DEF MirrorInv, LayoutTyped
<1>5. \A i \in DOMAIN wire' : IsReply(wire'[i]) => i \in DOMAIN wire /\ IsReply(wire[i])
  BY <1>2, <1>3
<1>6. OneCall'
  BY <1>1, <1>5 DEF MirrorInv, OneCall
<1>7. Announced'
  BY <1>3, <1>5 DEF Announced
<1>8. InUse'
  BY <1>3 DEF InUse
<1> QED BY <1>4, <1>6, <1>7, <1>8 DEF MirrorInv

\* A refresh that leaves the wire alone: at a start, or for a pointer without a layout.
LEMMA AskingKeeps ==
  ASSUME MirrorInv, LayoutRefresh(L), UNCHANGED <<layout, wire>>
  PROVE  MirrorInv'
<1>1. L \in LTypes /\ call \in BOOLEAN
  BY DEF MirrorInv, LayoutTyped
<1>2. /\ L' \in LTypes /\ L'.pending /\ ~blind' /\ blind' \in BOOLEAN
      /\ call' = (call \/ ~L.pending)
  BY <1>1, RefreshAsks
<1>3. call' \in BOOLEAN
  BY <1>2
<1>4. LayoutTyped'
  BY <1>2, <1>3 DEF MirrorInv, LayoutTyped
<1>5. OneCall'
  BY <1>2 DEF MirrorInv, OneCall
<1>6. Announced'
  BY DEF MirrorInv, Announced
<1>7. InUse'
  BY <1>2 DEF InUse
<1> QED BY <1>4, <1>5, <1>6, <1>7 DEF MirrorInv

LEMMA MirrorStep == MirrorInv /\ [InputNext]_inputVars => MirrorInv'
<1> SUFFICES ASSUME MirrorInv, [InputNext]_inputVars
             PROVE  MirrorInv'
  OBVIOUS
<1>1. ASSUME UNCHANGED <<L, layout, call, wire, blind>>, on' => on
      PROVE  MirrorInv'
  BY <1>1 DEF MirrorInv, LayoutTyped, OneCall, Announced, InUse
<1>2. CASE UNCHANGED inputVars
  BY <1>1, <1>2 DEF inputVars
<1>3. CASE LayoutReply \/ LayoutFailed \/ LayoutOverdue \/ MonitorsChanged \/ MutterReplies
  BY <1>3, ReplyKeeps, FailedKeeps, OverdueKeeps, ChangedKeeps, RepliesKeeps
<1>4. CASE \E m \in Readings : MutterMoves(m)
  BY <1>4, MovesKeeps
<1>5. CASE (\E fds \in DevSets : InputStart(fds)) \/ MsgAbsDropped
  BY <1>5, AskingKeeps DEF InputStart, MsgAbsDropped
<1>6. CASE InputStop \/ MsgAll
  BY <1>1, <1>6 DEF InputStop, MsgAll, reading
<1>7. CASE \E d \in Devs : \/ MsgSyn(d) \/ MsgRel(d)
                           \/ \E k \in Codes[d] : MsgPress(d, k) \/ MsgRelease(d, k)
  BY <1>1, <1>7 DEF MsgSyn, MsgRel, MsgPress, MsgRelease, reading
<1>8. CASE (\E away \in BOOLEAN : MsgStick(away)) \/ (\E v \in -1 .. Width : MsgAbs(v))
  BY <1>1, <1>8 DEF MsgStick, MsgAbs, reading
<1> QED BY <1>2, <1>3, <1>4, <1>5, <1>6, <1>7, <1>8 DEF InputNext

LEMMA MirrorCurrent == MirrorInv => LayoutCurrent
<1> SUFFICES ASSUME MirrorInv
             PROVE  LayoutCurrent
  OBVIOUS
<1>1. wire = <<>> => DOMAIN wire = {}
  OBVIOUS
<1> QED BY <1>1 DEF MirrorInv, InUse, LayoutCurrent

LEMMA MirrorStart == InputInit => MirrorInv
<1> SUFFICES ASSUME InputInit
             PROVE  MirrorInv
  OBVIOUS
<1>1. TRUE \in BOOLEAN /\ FALSE \in BOOLEAN /\ NoLayout \in Readings
  BY DEF Readings
<1>2. wire = <<>> /\ wire \in Seq(Messages) /\ DOMAIN wire = {}
  BY DEF InputInit
<1>3. LayoutTyped
  BY <1>1, <1>2 DEF InputInit, LayoutTyped, LTypes
<1> QED BY <1>2, <1>3 DEF InputInit, MirrorInv, OneCall, Announced, InUse

\* With nothing under way, the layout on which layout_map places the pointer is
\* the one mutter has, or the last call for it failed: the two flags of
\* layout_refresh lose no change.
THEOREM LayoutAlwaysCurrent == InputSpec => []LayoutCurrent
BY MirrorStart, MirrorStep, MirrorCurrent, PTL DEF InputSpec

(***************************************************************************)
(* Input: where the absolute pointer lands.                                *)
(***************************************************************************)
LEMMA Division ==
  ASSUME NEW n \in Nat, NEW d \in Nat \ {0}
  PROVE  /\ n \div d \in Nat
         /\ d * (n \div d) <= n /\ n < d * (n \div d) + d
OBVIOUS

LEMMA LesserOf ==
  ASSUME NEW a \in Int, NEW b \in Int
  PROVE  Min({a, b}) = IF a <= b THEN a ELSE b
BY DEF Min

LEMMA GreaterOf ==
  ASSUME NEW a \in Int, NEW b \in Int
  PROVE  Max({a, b}) = IF a >= b THEN a ELSE b
BY DEF Max

\* layout_map keeps to the pixels of the client.
LEMMA Clamped ==
  ASSUME NEW v \in Int, NEW W \in Nat \ {0}
  PROVE  Max({0, Min({v, W - 1})}) \in 0 .. W - 1
<1>1. Min({v, W - 1}) = IF v <= W - 1 THEN v ELSE W - 1
  BY LesserOf
<1>2. Min({v, W - 1}) \in Int /\ Min({v, W - 1}) <= W - 1
  BY <1>1
<1>3. Max({0, Min({v, W - 1})}) = IF 0 >= Min({v, W - 1}) THEN 0 ELSE Min({v, W - 1})
  BY <1>2, GreaterOf
<1> QED BY <1>2, <1>3

\* The middle of a pixel of the monitor, doubled, is inside the stage.
LEMMA InStage ==
  ASSUME NEW x \in Nat, NEW w \in Nat \ {0}, NEW W \in Nat \ {0}, NEW c \in 0 .. W - 1,
         NEW ext \in Nat, x + w <= ext
  PROVE  2 * x * W + (2 * c + 1) * w < 2 * W * ext
<1>1. (2 * c + 1) * w < 2 * W * w
  OBVIOUS
<1>2. 2 * W * (x + w) <= 2 * W * ext
  OBVIOUS
<1>3. 2 * W * (x + w) = 2 * x * W + 2 * W * w
  OBVIOUS
<1> QED BY <1>1, <1>2, <1>3

\* The value sent for the middle of a pixel is not past the end, and what it
\* stands for is inside the pixel, as long as half a pixel is wider than one step.
LEMMA MiddleHits ==
  ASSUME NEW x \in Nat, NEW w \in Nat \ {0}, NEW W \in Nat \ {0}, NEW c \in 0 .. W - 1,
         NEW ext \in Nat, NEW K \in Nat \ {0}, x + w <= ext,
         2 * W * ext <= w * K
  PROVE  LET q == ((2 * x * W + (2 * c + 1) * w) * K) \div (2 * W * ext)
             left == (x * W + c * w) * K
         IN  /\ q \in 0 .. K - 1
             /\ left <= q * ext * W /\ q * ext * W < left + w * K
<1> DEFINE g == 2 * x * W + (2 * c + 1) * w
           D == 2 * W * ext
           N == g * K
           q == N \div D
           left == (x * W + c * w) * K
<1>1. g \in Nat /\ D \in Nat /\ N \in Nat /\ left \in Nat /\ w * K \in Nat
  OBVIOUS
<1>2. g < D
  BY InStage
<1>3. N = 2 * left + w * K
  OBVIOUS
<1>4. D <= w * K
  OBVIOUS
<1>5. D * K \in Nat /\ N < D * K
  <2> HIDE DEF g, D
  <2> QED BY <1>1, <1>2
<1> HIDE DEF g, N, left
<1>6. q \in Nat /\ D * q \in Nat /\ D * q <= N /\ N < D * q + D
  <2>1. D \in Nat \ {0}
    BY <1>1, <1>2
  <2> HIDE DEF D
  <2>2. q \in Nat /\ D * q <= N /\ N < D * q + D
    BY <1>1, <2>1, Division
  <2> HIDE DEF q
  <2> QED BY <1>1, <2>2
<1> HIDE DEF q
<1>7. 2 * (q * ext * W) = D * q /\ q * ext * W \in Nat
  BY <1>6
<1>8. q < K
  <2>1. D * q < D * K
    <3> HIDE DEF D
    <3> QED BY <1>1, <1>5, <1>6
  <2> HIDE DEF D
  <2> QED BY <1>1, <1>6, <2>1
<1> DEFINE at == q * ext * W
           wk == w * K
<1>9. 2 * at = D * q /\ at \in Nat /\ N = 2 * left + wk /\ D <= wk /\ wk \in Nat
  BY <1>1, <1>3, <1>4, <1>7
<1> HIDE DEF D, at, wk
<1>10. left <= at /\ at < left + wk
  BY <1>1, <1>6, <1>9
<1> QED BY <1>6, <1>8, <1>10 DEF g, D, N, q, left, at, wk

ShotTypes == [aim : -1 .. Width, out : 0 .. PointerMax, lay : Readings]

\* The last absolute event is a value of the device, and hit its pixel.
ShotInv == shot \in ShotTypes /\ PointerHits

LEMMA MapHits ==
  ASSUME FineEnough, NEW m \in Layouts, NEW v \in -1 .. Width
  PROVE  LET c == Max({0, Min({v, Width - 1})})
             at == LayoutMap(m, v) * m.ext * Width
             left == (m.x * Width + c * m.w) * (PointerMax + 1)
         IN  /\ LayoutMap(m, v) \in 0 .. PointerMax
             /\ left <= at /\ at < left + m.w * (PointerMax + 1)
<1> DEFINE c == Max({0, Min({v, Width - 1})})
           K == PointerMax + 1
           q == ((2 * m.x * Width + (2 * c + 1) * m.w) * K) \div (2 * Width * m.ext)
           left == (m.x * Width + c * m.w) * K
<1>1. /\ Width \in Nat \ {0} /\ PointerMax \in Nat \ {0}
      /\ m.x \in Nat /\ m.w \in Nat \ {0} /\ m.ext \in Nat /\ m.x + m.w <= m.ext
  BY InputAssumption
<1>2. c \in 0 .. Width - 1
  BY <1>1, Clamped
<1>3. K \in Nat \ {0} /\ 2 * Width * m.ext <= m.w * K
  BY <1>1 DEF FineEnough
<1>4. LayoutMap(m, v) = Min({PointerMax, q})
  BY DEF LayoutMap
<1> HIDE DEF c
<1>5. q \in 0 .. K - 1 /\ left <= q * m.ext * Width /\ q * m.ext * Width < left + m.w * K
  BY <1>1, <1>2, <1>3, MiddleHits
<1> HIDE DEF q, left
<1>6. q \in 0 .. PointerMax
  BY <1>1, <1>5
<1>7. LayoutMap(m, v) = q
  BY <1>1, <1>4, <1>6, LesserOf
<1> QED BY <1>5, <1>6, <1>7 DEF c, left

LEMMA NoShotHits == NoShot \in ShotTypes /\ NoShot.lay = NoLayout
<1>1. Width \in Nat /\ PointerMax \in Nat
  BY InputAssumption
<1> QED BY <1>1 DEF NoShot, ShotTypes, Readings

LEMMA ShotStep ==
  ASSUME FineEnough, MirrorInv, ShotInv, [InputNext]_inputVars
  PROVE  ShotInv'
<1>1. ASSUME shot' = shot
      PROVE  ShotInv'
  BY <1>1 DEF ShotInv, PointerHits
<1>2. ASSUME shot' = NoShot
      PROVE  ShotInv'
  BY <1>2, NoShotHits DEF ShotInv, PointerHits
<1>3. CASE UNCHANGED inputVars
  BY <1>1, <1>3 DEF inputVars
<1>4. CASE \/ LayoutReply \/ LayoutFailed \/ LayoutOverdue \/ MonitorsChanged
           \/ MutterReplies \/ (\E m \in Readings : MutterMoves(m)) \/ MsgAbsDropped
           \/ (\E fds \in DevSets : InputStart(fds)) \/ (\E away \in BOOLEAN : MsgStick(away))
  BY <1>1, <1>4 DEF LayoutReply, LayoutFailed, LayoutOverdue, MonitorsChanged,
       MutterReplies, MutterMoves, MsgAbsDropped, InputStart, MsgStick
<1>5. CASE InputStop \/ MsgAll
  BY <1>2, <1>5 DEF InputStop, MsgAll
<1>6. CASE \E d \in Devs : \/ MsgSyn(d) \/ MsgRel(d)
                           \/ \E k \in Codes[d] : MsgPress(d, k) \/ MsgRelease(d, k)
  BY <1>1, <1>2, <1>6 DEF MsgSyn, MsgRel, MsgPress, MsgRelease
<1>7. ASSUME NEW v \in -1 .. Width, MsgAbs(v)
      PROVE  ShotInv'
  <2> DEFINE m == L.mons
             lay == IF m = layout THEN layout ELSE NoLayout
             out == LayoutMap(m, v)
  <2>1. /\ L \in LTypes /\ layout \in Readings /\ m # NoLayout
        /\ shot' = [aim |-> v, out |-> out, lay |-> lay]
    BY <1>7 DEF MirrorInv, LayoutTyped, MsgAbs
  <2>2. m \in Layouts
    BY <2>1 DEF LTypes, Readings
  <2>3. lay \in Readings /\ (lay # NoLayout => lay = m)
    BY <2>1 DEF Readings
  <2> HIDE DEF m, lay
  <2> DEFINE c == Max({0, Min({v, Width - 1})})
             at == out * m.ext * Width
             left == (m.x * Width + c * m.w) * (PointerMax + 1)
  <2>4. out \in 0 .. PointerMax /\ left <= at /\ at < left + m.w * (PointerMax + 1)
    BY <2>2, MapHits
  <2> HIDE DEF out
  <2>5. shot' \in ShotTypes /\ shot'.aim = v /\ shot'.out = out /\ shot'.lay = lay
    BY <2>1, <2>3, <2>4 DEF ShotTypes
  <2>6. PointerHits'
    BY <2>3, <2>4, <2>5 DEF PointerHits
  <2> QED BY <2>5, <2>6 DEF ShotInv
<1> QED BY <1>3, <1>4, <1>5, <1>6, <1>7 DEF InputNext

\* Where half a pixel of the monitor is wider than one step of the absolute
\* axis, every event that layout_map places by the layout in force lands in the
\* pixel it was aimed at, at every edge of the monitor and of the stage, and the
\* clamp to ABS_POINTER_MAX never moves it.
THEOREM PointerAlwaysHits ==
  ASSUME FineEnough
  PROVE  InputSpec => []PointerHits
<1>1. InputInit => ShotInv
  BY NoShotHits DEF InputInit, ShotInv, PointerHits
<1>2. MirrorInv /\ ShotInv /\ [InputNext]_inputVars => ShotInv'
  BY ShotStep
<1>3. ShotInv => PointerHits
  BY DEF ShotInv
<1> QED BY <1>1, <1>2, <1>3, MirrorStart, MirrorStep, PTL DEF InputSpec

\* Every variable of the input replay keeps to its type: keys that are down are
\* codes of a device that came to be, and the pointer's values are those of its
\* axis.
THEOREM InputTypeCorrect ==
  ASSUME FineEnough
  PROVE  InputSpec => []InputTypeOK
<1> DEFINE Flags == {placed, shown} \subseteq BOOLEAN /\ on \in BOOLEAN
<1>1. InputInit => Flags /\ DeskInv /\ ShotInv
  <2> SUFFICES ASSUME InputInit
               PROVE  Flags /\ DeskInv /\ ShotInv
    OBVIOUS
  <2>1. Flags
    BY DEF InputInit
  <2>2. DeskInv
    BY DeskStart
  <2>3. ShotInv
    BY NoShotHits DEF InputInit, ShotInv, PointerHits
  <2> QED BY <2>1, <2>2, <2>3
<1>2. Flags /\ DeskInv /\ DeskInv' /\ [InputNext]_inputVars => Flags'
  <2> SUFFICES ASSUME Flags, DeskInv, DeskInv', [InputNext]_inputVars
               PROVE  Flags'
    OBVIOUS
  <2>1. dev'.tilted \in BOOLEAN
    BY DEF DeskInv, Open, DevTypes
  <2>2. CASE UNCHANGED inputVars
    BY <2>2 DEF inputVars
  <2>3. CASE \/ LayoutReply \/ LayoutFailed \/ LayoutOverdue \/ MonitorsChanged
             \/ MutterReplies \/ (\E m \in Readings : MutterMoves(m)) \/ MsgAbsDropped
    BY <2>3 DEF LayoutReply, LayoutFailed, LayoutOverdue, MonitorsChanged,
         MutterReplies, MutterMoves, MsgAbsDropped, desk
  <2>4. CASE \/ (\E fds \in DevSets : InputStart(fds)) \/ (\E away \in BOOLEAN : MsgStick(away))
             \/ (\E v \in -1 .. Width : MsgAbs(v))
             \/ (\E d \in Devs : MsgRel(d) \/ \E k \in Codes[d] : MsgPress(d, k) \/ MsgRelease(d, k))
    BY <2>4 DEF InputStart, MsgStick, MsgAbs, MsgRel, MsgPress, MsgRelease, desk
  <2>5. CASE InputStop \/ MsgAll \/ (\E d \in Devs : MsgSyn(d))
    <3>1. (shown' = dev'.tilted \/ shown' = shown) /\ (placed' = FALSE \/ placed' = placed)
          /\ (on' = FALSE \/ on' = on)
      BY <2>5 DEF InputStop, MsgAll, MsgSyn, InputReleaseAll, Report
    <3> QED BY <2>1, <3>1
  <2> QED BY <2>2, <2>3, <2>4, <2>5 DEF InputNext
<1>3. Flags /\ DeskInv /\ MirrorInv /\ ShotInv => InputTypeOK
  <2> SUFFICES ASSUME Flags, DeskInv, MirrorInv, ShotInv
               PROVE  InputTypeOK
    OBVIOUS
  <2>1. /\ dev \in DevTypes
        /\ \A d \in Devs : dev.down[d] \subseteq Codes[d] /\ (d \notin dev.fd => dev.down[d] = {})
    BY DEF DeskInv, Open
  <2>2. LayoutTyped /\ shot \in ShotTypes
    BY DEF MirrorInv, ShotInv
  <2>3. {placed, on, shown, call, blind} \subseteq BOOLEAN
    BY <2>2 DEF LayoutTyped
  <2> QED BY <2>1, <2>2, <2>3
          DEF InputTypeOK, DevTypes, AllCodes, LayoutTyped, LTypes, Messages, ShotTypes
<1>4. MirrorInv /\ ShotInv /\ [InputNext]_inputVars => ShotInv'
  BY ShotStep
<1> QED BY <1>1, <1>2, <1>3, <1>4, DeskStep, MirrorStart, MirrorStep, PTL DEF InputSpec

(***************************************************************************)
(* Layout: the restore of a remembered configuration.                      *)
(***************************************************************************)
CallSet == {Get, Stale} \cup {Apply(n, c) : n \in Nat, c \in Configs}
StateSet == [msg : {"state"}, serial : Nat, mons : Configs]
BusSet == {Changed, Late} \cup StateSet
YTypes == [pending : BOOLEAN, again : BOOLEAN]
MutterTypes == [mons : Configs, serial : Nat, shows : Configs]

IsState(x) == x.msg = "state"
IsApply(x) == x.call = "apply"

RestoreTyped ==
  /\ Y \in YTypes
  /\ conn \in [Screens -> Connectors \cup {NoConnector}]
  /\ waiting \subseteq Screens /\ known \subseteq Screens \X Screens
  /\ last \in [Screens -> Connectors \cup {NoConnector}]
  /\ xml \in Seq(Configs)
  /\ mutter \in MutterTypes
  /\ calls \in Seq(CallSet)
  /\ bus \in Seq(BusSet)
  /\ missed \in BOOLEAN

\* Two configurations that differ at most in the connector of s.
Near(cfg, mons, s) == Others(cfg, s) = Others(mons, s) /\ Has(cfg, s) /\ Has(mons, s)

\* A client that waits streams on a monitor mutter has.
Waits == \A s \in waiting : <<s, conn[s]>> \in mutter.mons

\* A reply that tells old monitors has the signal of the change behind it.
Told ==
  \A i \in DOMAIN bus : IsState(bus[i]) =>
    \/ bus[i].mons = mutter.mons
    \/ \E j \in DOMAIN bus : j > i /\ bus[j] = Changed

\* The serial dates a reply: the present one tells the present monitors.
Dated ==
  \A i \in DOMAIN bus : IsState(bus[i]) =>
    /\ bus[i].serial <= mutter.serial
    /\ bus[i].serial = mutter.serial => bus[i].mons = mutter.mons

\* What is asked of mutter with the present serial is meant for the present
\* monitors, and no configuration is saved for exactly these.
Meant(x) ==
  /\ x.serial <= mutter.serial
  /\ x.serial = mutter.serial => /\ mutter.mons \notin ToSet(xml)
                                 /\ \E s \in Screens : Near(x.cfg, mutter.mons, s)
AllMeant(c) == \A i \in DOMAIN c : IsApply(c[i]) => Meant(c[i])

RestoreInv ==
  RestoreTyped /\ Waits /\ Told /\ Dated /\ AllMeant(calls) /\ RestoreArmed /\ LayoutMeant

-----------------------------------------------------------------------------
LEMMA CallKinds ==
  /\ Get \in CallSet /\ Stale \in CallSet /\ ~IsApply(Get) /\ ~IsApply(Stale)
  /\ \A n \in Nat, c \in Configs : /\ Apply(n, c) \in CallSet /\ IsApply(Apply(n, c))
                                   /\ Apply(n, c).serial = n /\ Apply(n, c).cfg = c
  /\ \A x \in CallSet : IsApply(x) => x.serial \in Nat /\ x.cfg \in Configs
  /\ \A x \in CallSet : x.call \in {"get", "stale", "apply"}
<1>1. Get.call = "get" /\ Stale.call = "stale"
  BY DEF Get, Stale
<1>2. \A n, c : Apply(n, c).call = "apply" /\ Apply(n, c).serial = n /\ Apply(n, c).cfg = c
  BY DEF Apply
<1> QED BY <1>1, <1>2 DEF CallSet, IsApply

LEMMA BusKinds ==
  /\ Changed \in BusSet /\ Late \in BusSet /\ ~IsState(Changed) /\ ~IsState(Late)
  /\ Changed # Late
  /\ \A x \in StateSet : x \in BusSet /\ IsState(x) /\ x # Changed
  /\ \A x \in BusSet : IsState(x) => x \in StateSet
  /\ \A x \in BusSet : x.msg \in {"changed", "state", "late"}
  /\ \A x \in StateSet : x.serial \in Nat /\ x.mons \in Configs
<1>1. Changed.msg = "changed" /\ Late.msg = "late"
  BY DEF Changed, Late
<1>2. \A x \in StateSet : x.msg = "state" /\ x.serial \in Nat /\ x.mons \in Configs
  BY DEF StateSet
<1> QED BY <1>1, <1>2 DEF BusSet, IsState

\* Every set of naturals with a member has a least one.
LEMMA LeastExists ==
  ASSUME NEW S, S \subseteq Nat, S # {}
  PROVE  \E x \in S : \A y \in S : x <= y
<1> DEFINE R == OpToRel(<, Nat)
<1>1. IsWellFoundedOn(R, Nat)
  BY NatLessThanWellFounded
<1>2. \A x, y \in Nat : <<y, x>> \in R <=> y < x
  BY DEF OpToRel
<1> HIDE DEF R
<1>3. PICK x \in S : \A y \in S : ~(<<y, x>> \in R)
  BY <1>1, WFMin
<1>4. ASSUME NEW y \in S
      PROVE  x <= y
  <2>1. x \in Nat /\ y \in Nat /\ ~(<<y, x>> \in R)
    BY <1>3
  <2>2. ~(y < x)
    BY <1>2, <2>1
  <2> QED BY <2>1, <2>2
<1> QED BY <1>4

LEMMA MinIn ==
  ASSUME NEW S, S \subseteq Nat, S # {}
  PROVE  Min(S) \in S
<1>1. \E x \in S : \A y \in S : x =< y
  BY LeastExists
<1> QED BY <1>1 DEF Min

LEMMA MaxIn ==
  ASSUME NEW n \in Nat, NEW S, S \subseteq 1 .. n, S # {}
  PROVE  Max(S) \in S
<1> DEFINE D == {k \in Nat : n - k \in S}
<1>1. D \subseteq Nat
  OBVIOUS
<1>2. D # {}
  <2>1. PICK x \in S : TRUE
    OBVIOUS
  <2>2. x \in Nat /\ n - x \in Nat /\ n - (n - x) = x
    BY <2>1
  <2> QED BY <2>1, <2>2
<1>3. PICK d \in D : \A e \in D : d <= e
  BY <1>1, <1>2, LeastExists
<1>4. n - d \in S /\ d \in Nat
  BY <1>3
<1>5. \A y \in S : n - d >= y
  <2> SUFFICES ASSUME NEW y \in S
               PROVE  n - d >= y
    OBVIOUS
  <2>1. y \in Nat /\ n - y \in Nat /\ n - (n - y) = y
    OBVIOUS
  <2>2. n - y \in D
    BY <2>1
  <2>3. d <= n - y
    BY <1>3, <2>2
  <2> QED BY <1>4, <2>1, <2>3
<1> QED BY <1>4, <1>5 DEF Max

\* The first message leaves the bus and mutter stands still.
LEMMA BusTail ==
  ASSUME bus \in Seq(BusSet), Told, Dated, bus # <<>>, bus' = Tail(bus), mutter' = mutter
  PROVE  /\ bus' \in Seq(BusSet) /\ Told' /\ Dated'
         /\ Head(bus) = bus[1] /\ 1 \in DOMAIN bus /\ Head(bus) \in BusSet
         /\ \A j \in DOMAIN bus \ {1} : bus[j] = Changed => Changed \in ToSet(bus')
<1>1. /\ bus' \in Seq(BusSet) /\ Head(bus) = bus[1] /\ 1 \in DOMAIN bus /\ Head(bus) \in BusSet
      /\ \A i \in DOMAIN bus' : i \in Nat /\ i + 1 \in DOMAIN bus /\ bus'[i] = bus[i + 1]
      /\ \A i \in DOMAIN bus \ {1} : i - 1 \in DOMAIN bus' /\ bus'[i - 1] = bus[i] /\ i \in Nat
  BY WireTail
<1>2. ASSUME NEW i \in DOMAIN bus', IsState(bus'[i]), bus'[i].mons # mutter.mons
      PROVE  \E j \in DOMAIN bus' : j > i /\ bus'[j] = Changed
  <2>1. i \in Nat /\ i + 1 \in DOMAIN bus /\ bus'[i] = bus[i + 1]
    BY <1>1
  <2>2. PICK j \in DOMAIN bus : j > i + 1 /\ bus[j] = Changed
    BY <1>2, <2>1 DEF Told
  <2>3. j \in DOMAIN bus \ {1}
    BY <2>1, <2>2
  <2>4. j - 1 \in DOMAIN bus' /\ bus'[j - 1] = Changed /\ j - 1 > i
    BY <1>1, <2>1, <2>2, <2>3
  <2> QED BY <2>4
<1>3. Told'
  BY <1>2 DEF Told
<1>4. Dated'
  BY <1>1 DEF Dated
<1>5. \A j \in DOMAIN bus \ {1} : bus[j] = Changed => Changed \in ToSet(bus')
  BY <1>1, InSet
<1> QED BY <1>1, <1>3, <1>4, <1>5

\* mutter bumps its serial and signals: no reply under way tells the present.
LEMMA BusSignal ==
  ASSUME bus \in Seq(BusSet), Dated, bus' = Append(bus, Changed),
         mutter.serial \in Nat, mutter'.serial = mutter.serial + 1
  PROVE  bus' \in Seq(BusSet) /\ Told' /\ Dated' /\ Changed \in ToSet(bus')
<1> DEFINE n == Len(bus) + 1
<1>1. Changed \in BusSet /\ ~IsState(Changed)
  BY BusKinds
<1>2. /\ bus' \in Seq(BusSet) /\ n \in DOMAIN bus' /\ bus'[n] = Changed
      /\ \A i \in DOMAIN bus : i \in DOMAIN bus' /\ bus'[i] = bus[i] /\ n > i
      /\ \A i \in DOMAIN bus' : i \in DOMAIN bus \/ i = n
  BY <1>1, WireAppend
<1> HIDE DEF n
<1>3. Told'
  BY <1>1, <1>2 DEF Told
<1>4. ASSUME NEW i \in DOMAIN bus', IsState(bus'[i])
      PROVE  /\ bus'[i].serial <= mutter'.serial
             /\ bus'[i].serial # mutter'.serial
  <2>1. i \in DOMAIN bus /\ bus'[i] = bus[i]
    BY <1>1, <1>2, <1>4
  <2>2. bus[i] \in StateSet
    BY <1>4, <2>1, BusKinds, LenProperties, ElementOfSeq
  <2>3. bus[i].serial \in Nat /\ bus[i].serial <= mutter.serial
    BY <1>4, <2>1, <2>2, BusKinds DEF Dated
  <2> QED BY <2>1, <2>3
<1>5. Dated'
  BY <1>4 DEF Dated
<1> QED BY <1>2, <1>3, <1>5, InSet

\* What was asked with an older serial mutter refuses.
LEMMA CallsOutdated ==
  ASSUME calls \in Seq(CallSet), AllMeant(calls), NEW c \in Seq(CallSet),
         \A i \in DOMAIN c : \E j \in DOMAIN calls : c[i] = calls[j],
         calls' = c, mutter.serial \in Nat, mutter'.serial = mutter.serial + 1
  PROVE  AllMeant(calls)'
<1> SUFFICES ASSUME NEW i \in DOMAIN c, IsApply(c[i])
             PROVE  Meant(c[i])'
  BY DEF AllMeant
<1>1. PICK j \in DOMAIN calls : c[i] = calls[j]
  OBVIOUS
<1>2. calls[j] \in CallSet /\ Meant(calls[j])
  BY <1>1, LenProperties, ElementOfSeq DEF AllMeant
<1>3. c[i].serial \in Nat /\ c[i].serial <= mutter.serial
  BY <1>1, <1>2, CallKinds DEF Meant
<1>4. c[i].serial <= mutter'.serial /\ c[i].serial # mutter'.serial
  BY <1>3
<1> QED BY <1>4 DEF Meant

\* While mutter and the file stand still, calls that are meant stay so.
LEMMA CallsSame ==
  ASSUME NEW c, AllMeant(c), UNCHANGED <<mutter, xml>>, calls' = c
  PROVE  AllMeant(calls)'
BY DEF AllMeant, Meant, Near, Others, Has

LEMMA GetMeant ==
  ASSUME NEW c \in Seq(CallSet), AllMeant(c)
  PROVE  Append(c, Get) \in Seq(CallSet) /\ AllMeant(Append(c, Get))
<1>1. Get \in CallSet /\ ~IsApply(Get)
  BY CallKinds
<1>2. /\ Append(c, Get) \in Seq(CallSet) /\ Append(c, Get)[Len(c) + 1] = Get
      /\ \A i \in DOMAIN c : Append(c, Get)[i] = c[i]
      /\ \A i \in DOMAIN Append(c, Get) : i \in DOMAIN c \/ i = Len(c) + 1
  BY <1>1, WireAppend
<1>3. ASSUME NEW i \in DOMAIN Append(c, Get), IsApply(Append(c, Get)[i])
      PROVE  Meant(Append(c, Get)[i])
  <2>1. i \in DOMAIN c /\ Append(c, Get)[i] = c[i]
    BY <1>1, <1>2, <1>3
  <2> QED BY <1>3, <2>1 DEF AllMeant
<1> QED BY <1>2, <1>3 DEF AllMeant

\* refresh asks, or notes that it has to, for whoever waits.
LEMMA RefreshWakes ==
  ASSUME NEW y \in YTypes, NEW c \in Seq(CallSet), AllMeant(c), NEW w, Asks(Refresh(y, c, w))
  PROVE  /\ Y' \in YTypes /\ (w # {} => Y'.pending)
         /\ calls' \in Seq(CallSet)
         /\ UNCHANGED <<mutter, xml>> => AllMeant(calls)'
<1>1. TRUE \in BOOLEAN
  OBVIOUS
<1>2. CASE w = {}
  <2>1. Refresh(y, c, w) = <<y, c>>
    BY <1>2 DEF Refresh
  <2>2. Y' = y /\ calls' = c
    BY <2>1 DEF Asks
  <2> QED BY <1>2, <2>2, CallsSame
<1>3. CASE w # {} /\ y.pending
  <2>1. Refresh(y, c, w) = <<[y EXCEPT !.again = TRUE], c>>
    BY <1>3 DEF Refresh
  <2>2. Y' = [y EXCEPT !.again = TRUE] /\ calls' = c
    BY <2>1 DEF Asks
  <2>3. Y' \in YTypes /\ Y'.pending
    BY <1>1, <1>3, <2>2 DEF YTypes
  <2> QED BY <2>2, <2>3, CallsSame
<1>4. CASE w # {} /\ ~y.pending
  <2>1. Refresh(y, c, w) = <<[y EXCEPT !.pending = TRUE], Append(c, Get)>>
    BY <1>4 DEF Refresh
  <2>2. Y' = [y EXCEPT !.pending = TRUE] /\ calls' = Append(c, Get)
    BY <2>1 DEF Asks
  <2>3. Y' \in YTypes /\ Y'.pending
    BY <1>1, <2>2 DEF YTypes
  <2> QED BY <2>2, <2>3, GetMeant, CallsSame
<1> QED BY <1>2, <1>3, <1>4

\* The end of on_state asks again if that was noted.
LEMMA AnswerWakes ==
  ASSUME NEW y \in YTypes, NEW c \in Seq(CallSet), AllMeant(c), NEW w, Asks(Answer(y, c, w))
  PROVE  /\ Y' \in YTypes /\ (y.again /\ w # {} => Y'.pending)
         /\ calls' \in Seq(CallSet)
         /\ UNCHANGED <<mutter, xml>> => AllMeant(calls)'
<1>1. FALSE \in BOOLEAN
  OBVIOUS
<1>2. CASE y.again
  <2> DEFINE z == [pending |-> FALSE, again |-> FALSE]
  <2>1. z \in YTypes
    BY <1>1 DEF YTypes
  <2>2. Asks(Refresh(z, c, w))
    BY <1>2 DEF Answer
  <2> HIDE DEF z
  <2> QED BY <2>1, <2>2, RefreshWakes
<1>3. CASE ~y.again
  <2>1. Answer(y, c, w) = <<[y EXCEPT !.pending = FALSE], c>>
    BY <1>3 DEF Answer
  <2>2. Y' = [y EXCEPT !.pending = FALSE] /\ calls' = c
    BY <2>1 DEF Asks
  <2>3. Y' \in YTypes
    BY <1>1, <2>2 DEF YTypes
  <2> QED BY <1>3, <2>2, <2>3, CallsSame
<1> QED BY <1>2, <1>3

\* The configuration of choice is one of those that match.
LEMMA BestFits ==
  ASSUME xml \in Seq(Configs), NEW mons, NEW s, Matches(mons, s, 1) # {}
  PROVE  \E i \in DOMAIN xml : Best(mons, s) = xml[i] /\ ConfigMatch(xml[i], mons, s) = 1
<1> DEFINE fits == Matches(mons, s, 1)
           noted == {i \in fits : ConnectorOf(xml[i], s) = last[s]}
           k == IF noted # {} THEN Min(noted) ELSE Max(fits)
<1>1. Len(xml) \in Nat /\ DOMAIN xml = 1 .. Len(xml)
  BY LenProperties
<1>2. fits \subseteq 1 .. Len(xml) /\ fits # {} /\ noted \subseteq fits
  BY <1>1 DEF Matches
<1>3. noted \subseteq Nat
  BY <1>1, <1>2
<1>4. k \in fits
  <2> HIDE DEF fits, noted
  <2> QED BY <1>1, <1>2, <1>3, MinIn, MaxIn
<1>5. Best(mons, s) = xml[k]
  BY DEF Best
<1>6. k \in DOMAIN xml /\ ConfigMatch(xml[k], mons, s) = 1
  BY <1>4 DEF Matches
<1> QED BY <1>5, <1>6

LEMMA Matching ==
  ASSUME NEW cfg, NEW mons, NEW s
  PROVE  /\ ConfigMatch(cfg, mons, s) = 1 => Near(cfg, mons, s)
         /\ ConfigMatch(cfg, mons, s) = 2 <=> cfg = mons
BY DEF ConfigMatch, Near

\* The connector of a screen that a configuration has.
LEMMA ConnectorIn ==
  ASSUME NEW cfg, NEW s, Has(cfg, s)
  PROVE  ConnectorOf(cfg, s) \in Connectors /\ <<s, ConnectorOf(cfg, s)>> \in cfg
BY DEF Has, ConnectorOf

\* restore_for asks for a remembered configuration that is near the one it was
\* told of, and only when that one itself is not remembered.
LEMMA RestoreMeant ==
  ASSUME xml \in Seq(Configs), last \in [Screens -> Connectors \cup {NoConnector}],
         NEW s \in Screens, NEW st \in StateSet, Has(st.mons, s), NEW fit \in BOOLEAN
  PROVE  /\ RestoreFor(s, st, fit).last \in Connectors \cup {NoConnector}
         /\ \A a \in RestoreFor(s, st, fit).asks :
              /\ st.mons \notin ToSet(xml)
              /\ \E i \in DOMAIN xml : a = Apply(st.serial, xml[i]) /\ Near(xml[i], st.mons, s)
<1> DEFINE r == RestoreFor(s, st, fit)
<1>1. CASE Matches(st.mons, s, 2) # {}
  <2>1. r = [last |-> ConnectorOf(st.mons, s), asks |-> {}]
    BY <1>1 DEF RestoreFor
  <2>2. r.last = ConnectorOf(st.mons, s) /\ r.asks = {}
    BY <2>1
  <2>3. ConnectorOf(st.mons, s) \in Connectors
    BY ConnectorIn
  <2> QED BY <2>2, <2>3
<1>2. CASE Matches(st.mons, s, 2) = {} /\ Matches(st.mons, s, 1) # {} /\ fit
  <2>1. r = [last |-> ConnectorOf(Best(st.mons, s), s),
             asks |-> {Apply(st.serial, Best(st.mons, s))}]
    BY <1>2 DEF RestoreFor
  <2>2. r.last = ConnectorOf(Best(st.mons, s), s) /\ r.asks = {Apply(st.serial, Best(st.mons, s))}
    BY <2>1
  <2>3. PICK i \in DOMAIN xml : Best(st.mons, s) = xml[i] /\ ConfigMatch(xml[i], st.mons, s) = 1
    BY <1>2, BestFits
  <2>4. Near(xml[i], st.mons, s)
    BY <2>3, Matching
  <2>5. Has(Best(st.mons, s), s)
    BY <2>3, <2>4 DEF Near
  <2>6. \A j \in DOMAIN xml : xml[j] # st.mons
    BY <1>2, Matching DEF Matches
  <2>7. st.mons \notin ToSet(xml)
    BY <2>6, InSet
  <2>8. ConnectorOf(Best(st.mons, s), s) \in Connectors
    BY <2>5, ConnectorIn
  <2> QED BY <2>2, <2>3, <2>4, <2>7, <2>8
<1>3. CASE Matches(st.mons, s, 2) = {} /\ ~(Matches(st.mons, s, 1) # {} /\ fit)
  <2>1. r = [last |-> last[s], asks |-> {}]
    BY <1>3 DEF RestoreFor
  <2>2. r.last = last[s] /\ r.asks = {}
    BY <2>1
  <2> QED BY <2>2
<1> QED BY <1>1, <1>2, <1>3

\* What is asked for in one on_state are finitely many configurations of the
\* file: the calls are a sequence of them.
LEMMA AskedSeq ==
  ASSUME xml \in Seq(Configs), NEW n \in Nat, NEW asks,
         \A a \in asks : \E i \in DOMAIN xml : a = Apply(n, xml[i]),
         NEW asked \in SetToSeqs(asks)
  PROVE  asked \in Seq(CallSet) /\ \A i \in DOMAIN asked : asked[i] \in asks
<1> DEFINE T == {Apply(n, xml[i]) : i \in DOMAIN xml}
           f == [i \in DOMAIN xml |-> Apply(n, xml[i])]
<1>1. Len(xml) \in Nat /\ DOMAIN xml = 1 .. Len(xml) /\ \A i \in DOMAIN xml : xml[i] \in Configs
  BY LenProperties, ElementOfSeq
<1>2. f \in Surjection(1 .. Len(xml), T)
  BY <1>1 DEF Surjection
<1>3. IsFiniteSet(T)
  BY <1>1, <1>2, FS_NatSurjection DEF ExistsSurjection
<1>4. asks \in SUBSET T
  OBVIOUS
<1>5. T \subseteq CallSet
  BY <1>1, CallKinds
<1> HIDE DEF T, f
<1>6. IsFiniteSet(asks)
  BY <1>3, <1>4, FS_Subset
<1>7. Cardinality(asks) \in Nat
  BY <1>6, FS_CardinalityType
<1>8. asked \in [1 .. Cardinality(asks) -> asks]
  BY DEF SetToSeqs
<1>9. asked \in [1 .. Cardinality(asks) -> CallSet]
  BY <1>4, <1>5, <1>8
<1>10. asked \in Seq(CallSet)
  BY <1>7, <1>9, SeqDef
<1> QED BY <1>8, <1>10

-----------------------------------------------------------------------------
\* A client begins to stream, or a signal comes: refresh asks for it.
LEMMA StreamKeeps ==
  ASSUME RestoreInv, NEW s \in Screens, Stream(s)
  PROVE  RestoreInv'
<1>1. /\ Y \in YTypes /\ calls \in Seq(CallSet) /\ AllMeant(calls)
      /\ conn \in [Screens -> Connectors \cup {NoConnector}] /\ waiting \subseteq Screens
  BY DEF RestoreInv, RestoreTyped
<1>2. /\ Has(mutter.mons, s) /\ conn' = [conn EXCEPT ![s] = ConnectorOf(mutter.mons, s)]
      /\ waiting' = waiting \cup {s} /\ Asks(Refresh(Y, calls, waiting'))
      /\ missed' = (missed /\ ~Y'.pending)
      /\ UNCHANGED <<known, last, xml, mutter, bus>>
  BY DEF Stream
<1>3. /\ Y' \in YTypes /\ Y'.pending /\ calls' \in Seq(CallSet) /\ AllMeant(calls)'
  <2>1. waiting' # {} /\ Asks(Refresh(Y, calls, waiting')) /\ UNCHANGED <<mutter, xml>>
    BY <1>2
  <2>2. Y \in YTypes /\ calls \in Seq(CallSet) /\ AllMeant(calls)
    BY <1>1
  <2> QED BY <2>1, <2>2, RefreshWakes
<1>4. ConnectorOf(mutter.mons, s) \in Connectors /\ <<s, ConnectorOf(mutter.mons, s)>> \in mutter.mons
  BY <1>2, ConnectorIn
<1>5. conn' \in [Screens -> Connectors \cup {NoConnector}] /\ waiting' \subseteq Screens
  BY <1>1, <1>2, <1>4
<1>6. missed' \in BOOLEAN
  BY <1>2
<1>7. RestoreTyped'
  BY <1>2, <1>3, <1>5, <1>6 DEF RestoreInv, RestoreTyped
<1>8. Waits'
  <2> SUFFICES ASSUME NEW t \in waiting'
               PROVE  <<t, conn'[t]>> \in mutter.mons
    BY <1>2 DEF Waits
  <2>1. CASE t = s
    BY <1>1, <1>2, <1>4, <2>1
  <2>2. CASE t # s
    BY <1>1, <1>2, <2>2 DEF RestoreInv, Waits
  <2> QED BY <2>1, <2>2
<1>9. Told' /\ Dated' /\ LayoutMeant'
  BY <1>2 DEF RestoreInv, Told, Dated, LayoutMeant, Others, Has
<1>10. RestoreArmed'
  BY <1>3 DEF RestoreArmed
<1> QED BY <1>3, <1>7, <1>8, <1>9, <1>10 DEF RestoreInv

LEMMA SignalKeeps ==
  ASSUME RestoreInv, SignalChanged
  PROVE  RestoreInv'
<1>1. /\ Y \in YTypes /\ calls \in Seq(CallSet) /\ AllMeant(calls) /\ bus \in Seq(BusSet)
      /\ Told /\ Dated
  BY DEF RestoreInv, RestoreTyped
<1>2. /\ bus # <<>> /\ bus' = Tail(bus) /\ Asks(Refresh(Y, calls, waiting))
      /\ missed' = (missed /\ ~Y'.pending)
      /\ UNCHANGED <<conn, waiting, known, last, xml, mutter>>
  BY DEF SignalChanged
<1>3. /\ Y' \in YTypes /\ (waiting # {} => Y'.pending)
      /\ calls' \in Seq(CallSet) /\ AllMeant(calls)'
  BY <1>1, <1>2, RefreshWakes
<1>4. bus' \in Seq(BusSet) /\ Told' /\ Dated'
  BY <1>1, <1>2, BusTail
<1>5. missed' \in BOOLEAN
  BY <1>2
<1>6. RestoreTyped'
  BY <1>2, <1>3, <1>4, <1>5 DEF RestoreInv, RestoreTyped
<1>7. Waits' /\ LayoutMeant'
  BY <1>2 DEF RestoreInv, Waits, LayoutMeant, Others, Has
<1>8. RestoreArmed'
  BY <1>2, <1>3 DEF RestoreArmed
<1> QED BY <1>3, <1>4, <1>6, <1>7, <1>8 DEF RestoreInv

\* A reply: whoever it does not tell of waits for a signal that is behind it.
LEMMA OnStateKeeps ==
  ASSUME RestoreInv, NEW fit \in BOOLEAN, OnState(fit)
  PROVE  RestoreInv'
<1> DEFINE st == Head(bus)
           ours == {p \in waiting \X Screens : <<p[2], conn[p[1]]>> \in st.mons}
           told == {p[2] : p \in ours}
           asks == UNION {RestoreFor(m, st, fit).asks : m \in told}
<1>1. /\ Y \in YTypes /\ calls \in Seq(CallSet) /\ AllMeant(calls) /\ bus \in Seq(BusSet)
      /\ Told /\ Dated /\ xml \in Seq(Configs) /\ mutter \in MutterTypes /\ waiting \subseteq Screens
      /\ last \in [Screens -> Connectors \cup {NoConnector}] /\ known \subseteq Screens \X Screens
      /\ Waits
  BY DEF RestoreInv, RestoreTyped
<1>2. /\ bus # <<>> /\ IsState(st) /\ bus' = Tail(bus)
      /\ waiting' = waiting \ {p[1] : p \in ours} /\ known' = known \cup ours
      /\ last' = [m \in Screens |-> IF m \in told THEN RestoreFor(m, st, fit).last ELSE last[m]]
      /\ UNCHANGED <<conn, xml, mutter, missed>>
  BY DEF OnState, IsState
<1>3. PICK asked \in SetToSeqs(asks) : Asks(Answer(Y, calls \o asked, waiting'))
  BY DEF OnState
<1>4. /\ bus' \in Seq(BusSet) /\ Told' /\ Dated' /\ st = bus[1] /\ 1 \in DOMAIN bus /\ st \in BusSet
      /\ \A j \in DOMAIN bus \ {1} : bus[j] = Changed => Changed \in ToSet(bus')
  BY <1>1, <1>2, BusTail
<1>5. st \in StateSet /\ st.serial \in Nat /\ st.mons \in Configs /\ mutter.serial \in Nat
  BY <1>1, <1>2, <1>4, BusKinds DEF MutterTypes
<1>6. ours \subseteq Screens \X Screens /\ \A m \in told : m \in Screens /\ Has(st.mons, m)
  <2>1. ours \subseteq Screens \X Screens
    BY <1>1
  <2>2. ASSUME NEW m \in told
        PROVE  m \in Screens /\ Has(st.mons, m)
    <3>1. PICK p \in ours : m = p[2]
      OBVIOUS
    <3>2. m \in Screens /\ <<m, conn[p[1]]>> \in st.mons
      BY <2>1, <3>1
    <3>3. conn[p[1]] \in Connectors
      BY <1>5, <3>2 DEF Configs
    <3> QED BY <3>2, <3>3 DEF Has
  <2> QED BY <2>1, <2>2
<1>7. \A s \in told :
        /\ RestoreFor(s, st, fit).last \in Connectors \cup {NoConnector}
        /\ \A a \in RestoreFor(s, st, fit).asks :
             /\ st.mons \notin ToSet(xml)
             /\ \E i \in DOMAIN xml : a = Apply(st.serial, xml[i]) /\ Near(xml[i], st.mons, s)
  BY <1>1, <1>5, <1>6, RestoreMeant
<1>8. \A a \in asks : /\ st.mons \notin ToSet(xml)
                      /\ \E s \in Screens, i \in DOMAIN xml :
                           a = Apply(st.serial, xml[i]) /\ Near(xml[i], st.mons, s)
  <2> SUFFICES ASSUME NEW a \in asks
               PROVE  /\ st.mons \notin ToSet(xml)
                      /\ \E s \in Screens, i \in DOMAIN xml :
                           a = Apply(st.serial, xml[i]) /\ Near(xml[i], st.mons, s)
    OBVIOUS
  <2>1. PICK m \in told : a \in RestoreFor(m, st, fit).asks
    OBVIOUS
  <2> HIDE DEF asks, told
  <2> QED BY <1>6, <1>7, <2>1
<1>9. (\E s \in waiting' : TRUE) => Changed \in ToSet(bus')
  <2> SUFFICES ASSUME NEW s \in waiting'
               PROVE  Changed \in ToSet(bus')
    OBVIOUS
  <2>1. <<s, conn[s]>> \in mutter.mons /\ <<s, conn[s]>> \notin st.mons
    <3>1. s \in waiting /\ s \in Screens /\ \A p \in ours : p[1] # s
      BY <1>1, <1>2
    <3>2. <<s, s>> \notin ours
      BY <3>1
    <3> QED BY <1>1, <3>1, <3>2 DEF Waits
  <2>2. st.mons # mutter.mons
    BY <2>1
  <2>3. PICK j \in DOMAIN bus : j > 1 /\ bus[j] = Changed
    BY <1>1, <1>2, <1>4, <2>2 DEF Told
  <2>4. j # 1
    BY <2>3
  <2> QED BY <1>4, <2>3, <2>4
<1>10. /\ last' \in [Screens -> Connectors \cup {NoConnector}] /\ waiting' \subseteq Screens
       /\ known' \subseteq Screens \X Screens
  BY <1>1, <1>2, <1>6, <1>7
<1> HIDE DEF asks, ours, told
<1>11. asked \in Seq(CallSet) /\ \A i \in DOMAIN asked : asked[i] \in asks
  BY <1>1, <1>5, <1>8, AskedSeq
<1>12. ASSUME NEW a \in asks
       PROVE  Meant(a)
  <2>1. PICK s \in Screens, i \in DOMAIN xml : a = Apply(st.serial, xml[i]) /\ Near(xml[i], st.mons, s)
    BY <1>8
  <2>2. xml[i] \in Configs
    BY <1>1, LenProperties, ElementOfSeq
  <2>3. a.serial = st.serial /\ a.cfg = xml[i]
    BY <1>5, <2>1, <2>2, CallKinds
  <2>4. st.serial <= mutter.serial /\ (st.serial = mutter.serial => st.mons = mutter.mons)
    BY <1>1, <1>2, <1>4 DEF Dated
  <2> QED BY <1>8, <2>1, <2>3, <2>4 DEF Meant
<1>13. calls \o asked \in Seq(CallSet) /\ AllMeant(calls \o asked)
  <2>1. /\ Len(calls) \in Nat /\ Len(asked) \in Nat
        /\ DOMAIN calls = 1 .. Len(calls) /\ DOMAIN asked = 1 .. Len(asked)
    BY <1>1, <1>11, LenProperties
  <2>2. /\ calls \o asked \in Seq(CallSet)
        /\ DOMAIN (calls \o asked) = 1 .. Len(calls) + Len(asked)
        /\ \A i \in 1 .. Len(calls) + Len(asked) :
             (calls \o asked)[i] = IF i <= Len(calls) THEN calls[i] ELSE asked[i - Len(calls)]
    BY <1>1, <1>11, ConcatProperties, LenProperties
  <2>3. ASSUME NEW i \in DOMAIN (calls \o asked), IsApply((calls \o asked)[i])
        PROVE  Meant((calls \o asked)[i])
    <3>1. CASE i <= Len(calls)
      <4>1. i \in DOMAIN calls /\ (calls \o asked)[i] = calls[i]
        BY <2>1, <2>2, <3>1
      <4> QED BY <1>1, <2>3, <4>1 DEF AllMeant
    <3>2. CASE i > Len(calls)
      <4>1. i - Len(calls) \in DOMAIN asked /\ (calls \o asked)[i] = asked[i - Len(calls)]
        BY <2>1, <2>2, <3>2
      <4> QED BY <1>11, <1>12, <4>1
    <3> QED BY <2>1, <2>2, <3>1, <3>2
  <2> QED BY <2>2, <2>3 DEF AllMeant
<1>14. /\ Y' \in YTypes /\ calls' \in Seq(CallSet) /\ AllMeant(calls)'
  BY <1>1, <1>2, <1>3, <1>13, AnswerWakes
<1>15. RestoreTyped'
  BY <1>2, <1>4, <1>10, <1>14 DEF RestoreInv, RestoreTyped
<1>16. Waits' /\ LayoutMeant'
  BY <1>2 DEF RestoreInv, Waits, LayoutMeant, Others, Has
<1>17. RestoreArmed'
  BY <1>9 DEF RestoreArmed
<1> QED BY <1>4, <1>14, <1>15, <1>16, <1>17 DEF RestoreInv

\* No reply in time: nothing else is asked for, or the call is made again.
LEMMA TimeoutKeeps ==
  ASSUME RestoreInv, Timeout
  PROVE  RestoreInv'
<1> DEFINE c == [i \in DOMAIN calls |-> IF calls[i] = Get THEN Stale ELSE calls[i]]
<1>1. /\ Y \in YTypes /\ calls \in Seq(CallSet) /\ AllMeant(calls) /\ bus \in Seq(BusSet)
      /\ Told /\ Dated /\ RestoreArmed /\ missed \in BOOLEAN
  BY DEF RestoreInv, RestoreTyped
<1>2. /\ bus' = [i \in DOMAIN bus |-> IF bus[i].msg = "state" THEN Late ELSE bus[i]]
      /\ Asks(Answer(Y, c, waiting)) /\ missed' = ~Y.again
      /\ UNCHANGED <<conn, waiting, known, last, xml, mutter>>
  BY DEF Timeout
<1>3. /\ Len(calls) \in Nat /\ DOMAIN calls = 1 .. Len(calls)
      /\ \A i \in DOMAIN calls : calls[i] \in CallSet
      /\ Len(bus) \in Nat /\ DOMAIN bus = 1 .. Len(bus)
      /\ \A i \in DOMAIN bus : bus[i] \in BusSet
  BY <1>1, LenProperties, ElementOfSeq
<1>4. c \in [1 .. Len(calls) -> CallSet] /\ bus' \in [1 .. Len(bus) -> BusSet]
  BY <1>2, <1>3, CallKinds, BusKinds
<1>5. c \in Seq(CallSet) /\ bus' \in Seq(BusSet)
  BY <1>3, <1>4, SeqDef
<1>6. \A i \in DOMAIN c : IsApply(c[i]) => i \in DOMAIN calls /\ c[i] = calls[i]
  BY CallKinds
<1> HIDE DEF c
<1>7. AllMeant(c)
  BY <1>1, <1>6 DEF AllMeant
<1>8. /\ Y' \in YTypes /\ (Y.again /\ waiting # {} => Y'.pending)
      /\ calls' \in Seq(CallSet) /\ AllMeant(calls)'
  BY <1>1, <1>2, <1>5, <1>7, AnswerWakes
<1>9. \A i \in DOMAIN bus' : ~IsState(bus'[i])
  BY <1>2, BusKinds DEF IsState
<1>10. Told' /\ Dated'
  BY <1>9 DEF Told, Dated
<1>11. missed' \in BOOLEAN
  BY <1>2
<1>12. RestoreTyped'
  BY <1>2, <1>5, <1>8, <1>11 DEF RestoreInv, RestoreTyped
<1>13. Waits' /\ LayoutMeant'
  BY <1>2 DEF RestoreInv, Waits, LayoutMeant, Others, Has
<1>14. RestoreArmed'
  BY <1>2, <1>8 DEF RestoreArmed
<1> QED BY <1>8, <1>10, <1>12, <1>13, <1>14 DEF RestoreInv

LEMMA LateKeeps ==
  ASSUME RestoreInv, StateLate
  PROVE  RestoreInv'
<1>1. /\ AllMeant(calls) /\ bus \in Seq(BusSet) /\ Told /\ Dated
  BY DEF RestoreInv, RestoreTyped
<1>2. /\ bus # <<>> /\ Head(bus) = Late /\ bus' = Tail(bus)
      /\ UNCHANGED <<Y, conn, waiting, known, last, xml, mutter, calls, missed>>
  BY DEF StateLate
<1>3. /\ bus' \in Seq(BusSet) /\ Told' /\ Dated' /\ bus[1] = Late
      /\ \A j \in DOMAIN bus \ {1} : bus[j] = Changed => Changed \in ToSet(bus')
  BY <1>1, <1>2, BusTail
<1>4. Changed \in ToSet(bus) => Changed \in ToSet(bus')
  BY <1>1, <1>3, InSet, BusKinds
<1>5. AllMeant(calls)'
  BY <1>1, <1>2, CallsSame
<1>6. RestoreTyped'
  BY <1>2, <1>3 DEF RestoreInv, RestoreTyped
<1>7. Waits' /\ LayoutMeant'
  BY <1>2 DEF RestoreInv, Waits, LayoutMeant, Others, Has
<1>8. RestoreArmed'
  BY <1>2, <1>4 DEF RestoreInv, RestoreArmed
<1> QED BY <1>3, <1>5, <1>6, <1>7, <1>8 DEF RestoreInv

\* mutter's monitors change: what is under way is outdated, and says so.
LEMMA RemonitorKeeps ==
  ASSUME RestoreInv, NEW mons \in Configs, NEW cfgs \in Seq(Configs), Remonitor(mons, cfgs),
         xml' = cfgs, calls' = calls, Y' = Y, missed' = missed,
         waiting' \subseteq Screens, known' \subseteq Screens \X Screens,
         conn' \in [Screens -> Connectors \cup {NoConnector}],
         last' \in [Screens -> Connectors \cup {NoConnector}],
         \A s \in waiting' : <<s, conn'[s]>> \in mons
  PROVE  RestoreInv'
<1>1. /\ calls \in Seq(CallSet) /\ AllMeant(calls) /\ bus \in Seq(BusSet) /\ Dated
      /\ mutter \in MutterTypes
  BY DEF RestoreInv, RestoreTyped
<1>2. mutter.serial \in Nat /\ Default \in Configs
  BY <1>1 DEF MutterTypes, Default, Configs
<1>3. /\ mutter' \in MutterTypes /\ mutter'.mons = mons /\ mutter'.serial = mutter.serial + 1
      /\ mutter'.shows = (IF mons \in ToSet(cfgs) THEN mons ELSE Default)
      /\ bus' = Append(bus, Changed)
  BY <1>2 DEF Remonitor, MutterTypes
<1>4. bus' \in Seq(BusSet) /\ Told' /\ Dated' /\ Changed \in ToSet(bus')
  BY <1>1, <1>2, <1>3, BusSignal
<1>5. AllMeant(calls)'
  BY <1>1, <1>2, <1>3, CallsOutdated
<1>6. RestoreTyped'
  BY <1>3, <1>4 DEF RestoreInv, RestoreTyped
<1>7. Waits'
  BY <1>3 DEF Waits
<1>8. RestoreArmed'
  BY <1>4 DEF RestoreArmed
<1>9. LayoutMeant'
  BY <1>3 DEF LayoutMeant
<1> QED BY <1>4, <1>5, <1>6, <1>7, <1>8, <1>9 DEF RestoreInv

LEMMA GoneKeeps ==
  ASSUME RestoreInv, NEW s \in Screens, Gone(s)
  PROVE  RestoreInv'
<1>1. /\ xml \in Seq(Configs) /\ mutter.mons \in Configs
      /\ conn \in [Screens -> Connectors \cup {NoConnector}]
      /\ last \in [Screens -> Connectors \cup {NoConnector}]
      /\ waiting \subseteq Screens /\ known \subseteq Screens \X Screens /\ Waits
  BY DEF RestoreInv, RestoreTyped, MutterTypes
<1>2. /\ conn' = [conn EXCEPT ![s] = NoConnector]
      /\ waiting' = waiting \ {s} /\ known' = Others(known, s)
      /\ Remonitor(Others(mutter.mons, s), xml)
      /\ UNCHANGED <<Y, xml, calls, missed>>
      /\ last' = [m \in Screens |->
                    IF <<s, m>> \in known /\ \E i \in DOMAIN xml : <<m, conn[s]>> \in xml[i]
                    THEN conn[s] ELSE last[m]]
  BY DEF Gone
<1>3. Others(mutter.mons, s) \in Configs
  BY <1>1 DEF Others, Configs
<1>4. /\ conn' \in [Screens -> Connectors \cup {NoConnector}]
      /\ last' \in [Screens -> Connectors \cup {NoConnector}]
      /\ waiting' \subseteq Screens /\ known' \subseteq Screens \X Screens
  BY <1>1, <1>2 DEF Others
<1>5. ASSUME NEW t \in waiting'
      PROVE  <<t, conn'[t]>> \in Others(mutter.mons, s)
  <2>1. t # s /\ t \in waiting /\ t \in Screens /\ conn'[t] = conn[t]
    BY <1>1, <1>2
  <2>2. <<t, conn[t]>> \in mutter.mons
    BY <1>1, <2>1 DEF Waits
  <2> QED BY <2>1, <2>2 DEF Others
<1> QED BY <1>1, <1>2, <1>3, <1>4, <1>5, RemonitorKeeps

LEMMA HotplugKeeps ==
  ASSUME RestoreInv, NEW s \in Screens, NEW k \in Connectors, Hotplug(s, k)
  PROVE  RestoreInv'
<1> DEFINE mons == mutter.mons \cup {<<s, k>>}
<1>1. /\ xml \in Seq(Configs) /\ mutter.mons \in Configs
      /\ conn \in [Screens -> Connectors \cup {NoConnector}]
      /\ last \in [Screens -> Connectors \cup {NoConnector}]
      /\ waiting \subseteq Screens /\ known \subseteq Screens \X Screens /\ Waits
  BY DEF RestoreInv, RestoreTyped, MutterTypes
<1>2. /\ Remonitor(mons, xml)
      /\ UNCHANGED <<Y, conn, waiting, known, last, xml, calls, missed>>
  BY DEF Hotplug
<1>3. mons \in Configs
  BY <1>1 DEF Configs
<1>4. \A t \in waiting' : <<t, conn'[t]>> \in mons
  BY <1>1, <1>2 DEF Waits
<1> HIDE DEF mons
<1> QED BY <1>1, <1>2, <1>3, <1>4, RemonitorKeeps

LEMMA SavesKeeps ==
  ASSUME RestoreInv, UserSaves
  PROVE  RestoreInv'
<1>1. /\ xml \in Seq(Configs) /\ mutter.mons \in Configs
      /\ conn \in [Screens -> Connectors \cup {NoConnector}]
      /\ last \in [Screens -> Connectors \cup {NoConnector}]
      /\ waiting \subseteq Screens /\ known \subseteq Screens \X Screens /\ Waits
  BY DEF RestoreInv, RestoreTyped, MutterTypes
<1>2. /\ Remonitor(mutter.mons, xml')
      /\ UNCHANGED <<Y, conn, waiting, known, last, calls, missed>>
      /\ xml' = xml \/ \E i \in 1 .. Len(xml) + 1 : xml' = InsertAt(xml, i, mutter.mons)
  BY DEF UserSaves
<1>3. ASSUME NEW i \in 1 .. Len(xml) + 1
      PROVE  InsertAt(xml, i, mutter.mons) \in Seq(Configs)
  <2>1. Len(xml) \in Nat /\ \A j \in 1 .. Len(xml) : xml[j] \in Configs
    BY <1>1, LenProperties, ElementOfSeq
  <2>2. SubSeq(xml, 1, i - 1) \in Seq(Configs)
    <3>1. \A j \in 1 .. i - 1 : xml[j] \in Configs
      BY <2>1
    <3>2. 1 \in Int /\ i - 1 \in Int
      BY <2>1
    <3> QED BY <3>1, <3>2, SubSeqProperties
  <2>3. SubSeq(xml, i, Len(xml)) \in Seq(Configs)
    <3>1. \A j \in i .. Len(xml) : xml[j] \in Configs
      BY <2>1
    <3>2. i \in Int /\ Len(xml) \in Int
      BY <2>1
    <3> QED BY <3>1, <3>2, SubSeqProperties
  <2>4. <<mutter.mons>> \in Seq(Configs)
    BY <1>1
  <2> QED BY <2>2, <2>3, <2>4, ConcatProperties DEF InsertAt
<1>4. xml' \in Seq(Configs)
  BY <1>1, <1>2, <1>3
<1>5. \A t \in waiting' : <<t, conn'[t]>> \in mutter.mons
  BY <1>1, <1>2 DEF Waits
<1> QED BY <1>1, <1>2, <1>4, <1>5, RemonitorKeeps

\* A call reaches mutter.
LEMMA CallTaken ==
  ASSUME calls \in Seq(CallSet), AllMeant(calls), calls # <<>>
  PROVE  /\ Tail(calls) \in Seq(CallSet) /\ AllMeant(Tail(calls))
         /\ \A i \in DOMAIN Tail(calls) : \E j \in DOMAIN calls : Tail(calls)[i] = calls[j]
         /\ Head(calls) \in CallSet
         /\ IsApply(Head(calls)) => Meant(Head(calls))
<1>1. /\ Head(calls) = calls[1] /\ Head(calls) \in CallSet /\ 1 \in DOMAIN calls
      /\ Tail(calls) \in Seq(CallSet)
      /\ \A i \in DOMAIN Tail(calls) : i + 1 \in DOMAIN calls /\ Tail(calls)[i] = calls[i + 1]
  BY WireTail
<1>2. AllMeant(Tail(calls))
  BY <1>1 DEF AllMeant
<1> QED BY <1>1, <1>2 DEF AllMeant

LEMMA GetKeeps ==
  ASSUME RestoreInv, MutterGet
  PROVE  RestoreInv'
<1> DEFINE x == IF Head(calls) = Get THEN StateReply ELSE Late
           n == Len(bus) + 1
<1>1. /\ calls \in Seq(CallSet) /\ AllMeant(calls) /\ bus \in Seq(BusSet) /\ Told /\ Dated
      /\ mutter \in MutterTypes
  BY DEF RestoreInv, RestoreTyped
<1>2. /\ calls # <<>> /\ calls' = Tail(calls) /\ bus' = Append(bus, x)
      /\ UNCHANGED <<Y, conn, waiting, known, last, xml, mutter, missed>>
  BY DEF MutterGet
<1>3. calls' \in Seq(CallSet) /\ AllMeant(calls)'
  BY <1>1, <1>2, CallTaken, CallsSame
<1>4. /\ mutter.serial \in Nat /\ mutter.mons \in Configs
      /\ StateReply \in StateSet /\ StateReply.mons = mutter.mons
      /\ StateReply.serial = mutter.serial
  BY <1>1 DEF MutterTypes, StateReply, StateSet
<1>5. /\ x \in BusSet
      /\ IsState(x) => x.mons = mutter.mons /\ x.serial = mutter.serial
  BY <1>4, BusKinds
<1> HIDE DEF x
<1>6. /\ bus' \in Seq(BusSet) /\ n \in DOMAIN bus' /\ bus'[n] = x
      /\ \A i \in DOMAIN bus : i \in DOMAIN bus' /\ bus'[i] = bus[i] /\ n > i
      /\ \A i \in DOMAIN bus' : i \in DOMAIN bus \/ i = n
  BY <1>1, <1>2, <1>5, WireAppend
<1> HIDE DEF n
<1>7. Told'
  <2> SUFFICES ASSUME NEW i \in DOMAIN bus', IsState(bus'[i]), bus'[i].mons # mutter.mons
               PROVE  \E j \in DOMAIN bus' : j > i /\ bus'[j] = Changed
    BY <1>2 DEF Told
  <2>1. i \in DOMAIN bus /\ bus'[i] = bus[i]
    BY <1>5, <1>6
  <2>2. PICK j \in DOMAIN bus : j > i /\ bus[j] = Changed
    BY <1>1, <2>1 DEF Told
  <2> QED BY <1>6, <2>2
<1>8. Dated'
  <2> SUFFICES ASSUME NEW i \in DOMAIN bus', IsState(bus'[i])
               PROVE  /\ bus'[i].serial <= mutter.serial
                      /\ bus'[i].serial = mutter.serial => bus'[i].mons = mutter.mons
    BY <1>2 DEF Dated
  <2>1. CASE i \in DOMAIN bus
    BY <1>1, <1>6, <2>1 DEF Dated
  <2>2. CASE i = n
    BY <1>4, <1>5, <1>6, <2>2
  <2> QED BY <1>6, <2>1, <2>2
<1>9. Changed \in ToSet(bus) => Changed \in ToSet(bus')
  BY <1>1, <1>6, InSet
<1>10. RestoreTyped'
  BY <1>2, <1>3, <1>6 DEF RestoreInv, RestoreTyped
<1>11. Waits' /\ LayoutMeant'
  BY <1>2 DEF RestoreInv, Waits, LayoutMeant, Others, Has
<1>12. RestoreArmed'
  BY <1>2, <1>9 DEF RestoreInv, RestoreArmed
<1> QED BY <1>3, <1>7, <1>8, <1>10, <1>11, <1>12 DEF RestoreInv

\* ApplyMonitorsConfig: what mutter takes was asked for these very monitors.
LEMMA ApplyKeeps ==
  ASSUME RestoreInv, MutterApply
  PROVE  RestoreInv'
<1>1. /\ calls \in Seq(CallSet) /\ AllMeant(calls) /\ bus \in Seq(BusSet) /\ Told /\ Dated
      /\ mutter \in MutterTypes /\ mutter.serial \in Nat
  BY DEF RestoreInv, RestoreTyped, MutterTypes
<1>2. /\ calls # <<>> /\ IsApply(Head(calls)) /\ calls' = Tail(calls)
      /\ UNCHANGED <<Y, conn, waiting, known, last, xml, missed>>
  BY DEF MutterApply, IsApply
<1>3. /\ Tail(calls) \in Seq(CallSet) /\ AllMeant(Tail(calls))
      /\ \A i \in DOMAIN Tail(calls) : \E j \in DOMAIN calls : Tail(calls)[i] = calls[j]
      /\ Head(calls).cfg \in Configs /\ Meant(Head(calls))
  BY <1>1, <1>2, CallTaken, CallKinds
<1>4. CASE Head(calls).serial = mutter.serial
  <2>1. /\ mutter' = [mutter EXCEPT !.serial = mutter.serial + 1, !.shows = Head(calls).cfg]
        /\ bus' = Append(bus, Changed)
    BY <1>4 DEF MutterApply
  <2>2. /\ mutter' \in MutterTypes /\ mutter'.serial = mutter.serial + 1
        /\ mutter'.mons = mutter.mons /\ mutter'.shows = Head(calls).cfg
    <3> DEFINE k == mutter.serial + 1
               cfg == Head(calls).cfg
    <3>1. /\ k \in Nat /\ cfg \in Configs /\ mutter \in MutterTypes
          /\ mutter' = [mutter EXCEPT !.serial = k, !.shows = cfg]
      BY <1>1, <1>3, <2>1
    <3> HIDE DEF k, cfg
    <3>2. /\ mutter' \in MutterTypes /\ mutter'.serial = k
          /\ mutter'.mons = mutter.mons /\ mutter'.shows = cfg
      BY <3>1 DEF MutterTypes
    <3> QED BY <3>2 DEF k, cfg
  <2>3. bus' \in Seq(BusSet) /\ Told' /\ Dated' /\ Changed \in ToSet(bus')
    BY <1>1, <2>1, <2>2, BusSignal
  <2>4. AllMeant(calls)'
    BY <1>1, <1>2, <1>3, <2>2, CallsOutdated
  <2>5. RestoreTyped'
    BY <1>2, <1>3, <2>2, <2>3 DEF RestoreInv, RestoreTyped
  <2>6. Waits'
    BY <1>2, <2>2 DEF RestoreInv, Waits
  <2>7. RestoreArmed'
    BY <2>3 DEF RestoreArmed
  <2>8. LayoutMeant'
    BY <1>2, <1>3, <1>4, <2>2 DEF Meant, Near, LayoutMeant
  <2> QED BY <2>3, <2>4, <2>5, <2>6, <2>7, <2>8 DEF RestoreInv
<1>5. CASE Head(calls).serial # mutter.serial
  <2>1. UNCHANGED <<mutter, bus>>
    BY <1>5 DEF MutterApply
  <2>2. AllMeant(calls)'
    BY <1>2, <1>3, <2>1, CallsSame
  <2>3. RestoreTyped'
    BY <1>2, <1>3, <2>1 DEF RestoreInv, RestoreTyped
  <2>4. Waits' /\ Told' /\ Dated' /\ RestoreArmed' /\ LayoutMeant'
    BY <1>2, <2>1 DEF RestoreInv, Waits, Told, Dated, RestoreArmed, LayoutMeant, Others, Has
  <2> QED BY <2>2, <2>3, <2>4 DEF RestoreInv
<1> QED BY <1>4, <1>5

LEMMA RestoreStep == RestoreInv /\ [LayoutNext]_layoutVars => RestoreInv'
<1> SUFFICES ASSUME RestoreInv, [LayoutNext]_layoutVars
             PROVE  RestoreInv'
  OBVIOUS
<1>1. CASE UNCHANGED layoutVars
  BY <1>1 DEF layoutVars, RestoreInv, RestoreTyped, Waits, Told, Dated, AllMeant, Meant, Near,
       RestoreArmed, LayoutMeant, Others, Has
<1>2. ASSUME NEW s \in Screens, Stream(s) \/ Gone(s)
      PROVE  RestoreInv'
  BY <1>2, StreamKeeps, GoneKeeps
<1>3. ASSUME NEW s \in Screens, NEW k \in Connectors, Hotplug(s, k)
      PROVE  RestoreInv'
  BY <1>3, HotplugKeeps
<1>4. ASSUME NEW fit \in BOOLEAN, OnState(fit)
      PROVE  RestoreInv'
  BY <1>4, OnStateKeeps
<1>5. CASE SignalChanged \/ Timeout \/ StateLate
  BY <1>5, SignalKeeps, TimeoutKeeps, LateKeeps
<1>6. CASE UserSaves \/ MutterGet \/ MutterApply
  BY <1>6, SavesKeeps, GetKeeps, ApplyKeeps
<1> QED BY <1>1, <1>2, <1>3, <1>4, <1>5, <1>6 DEF LayoutNext

LEMMA RestoreStart == LayoutInit => RestoreInv
<1> SUFFICES ASSUME LayoutInit
             PROVE  RestoreInv
  OBVIOUS
<1>1. FALSE \in BOOLEAN /\ {} \in Configs
  BY DEF Configs
<1>2. Y \in YTypes /\ mutter \in MutterTypes /\ mutter.shows = {} /\ mutter.mons = {}
  BY <1>1 DEF LayoutInit, YTypes, MutterTypes, Default
<1>3. /\ xml = <<>> /\ calls = <<>> /\ bus = <<>> /\ xml \in Seq(Configs)
      /\ calls \in Seq(CallSet) /\ bus \in Seq(BusSet)
  BY EmptySeq DEF LayoutInit
<1>4. RestoreTyped
  BY <1>1, <1>2, <1>3 DEF LayoutInit, RestoreTyped
<1>5. \A i \in DOMAIN calls : FALSE
  BY <1>3
<1>6. \A i \in DOMAIN bus : FALSE
  BY <1>3
<1>7. Told /\ Dated /\ AllMeant(calls)
  BY <1>5, <1>6 DEF Told, Dated, AllMeant
<1>8. Waits /\ RestoreArmed
  BY DEF LayoutInit, Waits, RestoreArmed
<1>9. \A i \in DOMAIN xml : FALSE
  BY <1>3
<1>10. LayoutMeant
  BY <1>2, <1>3, <1>9, InSet DEF LayoutMeant, Default
<1> QED BY <1>4, <1>7, <1>8, <1>10 DEF RestoreInv

\* Every variable of the restore keeps to its type: what mutter is asked for
\* and what it tells are well formed, whatever comes between.
THEOREM LayoutTypeCorrect == LayoutSpec => []LayoutTypeOK
<1>1. RestoreInv => LayoutTypeOK
  <2> SUFFICES ASSUME RestoreInv
               PROVE  LayoutTypeOK
    OBVIOUS
  <2>1. /\ \A i \in DOMAIN xml : xml[i] \in Configs
        /\ \A i \in DOMAIN calls : calls[i] \in CallSet
        /\ \A i \in DOMAIN bus : bus[i] \in BusSet
    BY LenProperties, ElementOfSeq DEF RestoreInv, RestoreTyped
  <2> QED BY <2>1, CallKinds, BusKinds
        DEF RestoreInv, RestoreTyped, YTypes, MutterTypes, LayoutTypeOK
<1> QED BY <1>1, RestoreStart, RestoreStep, PTL DEF LayoutSpec

\* mutter never shows a remembered configuration that was saved for other
\* monitors, and never in place of the one saved for exactly these: whatever
\* is hot-plugged between the reply and the call, the serial the call carries
\* is then an old one (restore_for, apply_config).
THEOREM LayoutAlwaysMeant == LayoutSpec => []LayoutMeant
<1>1. RestoreInv => LayoutMeant
  BY DEF RestoreInv
<1> QED BY <1>1, RestoreStart, RestoreStep, PTL DEF LayoutSpec

\* A client whose attempt is still to come is never forgotten: a call, its
\* reply or a signal is under way (refresh, on_state, on_monitors_changed).
THEOREM RestoreAlwaysArmed == LayoutSpec => []RestoreArmed
<1>1. RestoreInv => RestoreArmed
  BY DEF RestoreInv
<1> QED BY <1>1, RestoreStart, RestoreStep, PTL DEF LayoutSpec

(***************************************************************************)
(* Audio: the default output.                                              *)
(***************************************************************************)
Files == Outputs \cup {Unset, NoFile}
ATypes == [core : {"up", "broken", "none"}, md : BOOLEAN, cur : Defaults,
           saved : BOOLEAN, orig : Outputs \cup {Unset},
           live : Seq(Nodes), announced : SUBSET Nodes, made : SUBSET Nodes,
           out : Seq(Defaults), file : Files]
PwTypes == [def : Defaults, events : Seq(Defaults)]

Connected(s) == s.md /\ s.core = "up"

\* The default PipeWire will have when it has read every request.
Coming(d, out) == Last(<<d>> \o out)

\* What the server has in mind fits what PipeWire has and comes to: only live
\* outputs were made the default, with the default before them remembered; the
\* file has it unless it was spent; with nothing remembered the default comes to
\* no output of ours but one adrift; the events under way end in the default;
\* and with nothing under way an output of ours has it only while it is there,
\* or is adrift.
Kept(s, p, h) ==
  /\ s.made \subseteq ToSet(s.live)
  /\ s.made # {} => s.saved
  /\ s.saved /\ ~h.spent => s.file # NoFile
  /\ s.saved /\ s.file # NoFile => s.file = s.orig
  /\ ~s.saved /\ Coming(p.def, s.out) \in Nodes => Coming(p.def, s.out) \in h.adrift
  /\ Connected(s) => p.def = Coming(s.cur, p.events) \/ (p.def = Unset /\ p.events = <<>>)
  /\ Connected(s) /\ s.out = <<>> /\ p.events = <<>> /\ p.def \in Nodes =>
       p.def \in s.made \cup h.adrift

\* Every choice of the user was seen in time: the default is, and is asked to
\* be, the wish w or an output of ours; and unless the user has just chosen,
\* what is remembered is the wish.
ChoiceMeant(s, p, w) ==
  /\ \A v \in {p.def} \cup ToSet(s.out) : v \in Nodes \/ v = w
  /\ s.saved /\ (s.out # <<>> \/ p.def \notin Outputs) => s.orig = w
  /\ s.file # NoFile /\ (s.out # <<>> \/ p.def \notin Outputs) => s.file = w

PastTypes == [spent : BOOLEAN, adrift : SUBSET Nodes, crossed : BOOLEAN]

AudioTyped ==
  /\ A \in ATypes /\ pw \in PwTypes
  /\ wish \in Outputs \cup {Unset} /\ past \in PastTypes
  /\ picks \in 0 .. MaxPicks /\ faults \in 0 .. MaxFaults

AudioInv ==
  /\ AudioTyped
  /\ ~Connected(A) => A.out = <<>> /\ pw.events = <<>>
  /\ Kept(A, pw, past)
  /\ ~past.crossed => ChoiceMeant(A, pw, wish)

-----------------------------------------------------------------------------
LEMMA Kinds ==
  /\ Nodes \subseteq Defaults /\ Unset \in Defaults /\ Outputs \subseteq Defaults
  /\ Outputs \cup {Unset} \subseteq Defaults
  /\ Unset \notin Nodes /\ NoFile \notin Nodes /\ Unset # NoFile
  /\ \A v \in Outputs : v \notin Nodes /\ v # Unset /\ v # NoFile
  /\ \A v \in Defaults : v \notin Nodes => v \in Outputs \cup {Unset}
BY AudioAssumption DEF Defaults

\* The queue of requests, and what it comes to.
LEMMA ComingIs ==
  ASSUME NEW d \in Defaults, NEW q \in Seq(Defaults)
  PROVE  /\ Coming(d, q) \in Defaults
         /\ q = <<>> => Coming(d, q) = d
         /\ q # <<>> => Coming(d, q) = q[Len(q)]
         /\ Coming(d, q) \in {d} \cup ToSet(q)
<1>1. <<d>> \in Seq(Defaults) /\ Len(<<d>>) = 1 /\ <<d>>[1] = d
  OBVIOUS
<1>2. /\ <<d>> \o q \in Seq(Defaults) /\ Len(<<d>> \o q) = 1 + Len(q)
      /\ \A i \in 1 .. 1 + Len(q) : (<<d>> \o q)[i] = IF i <= 1 THEN <<d>>[i] ELSE q[i - 1]
  BY <1>1, ConcatProperties
<1>3. Len(q) \in Nat /\ (q # <<>> => Len(q) # 0) /\ (q = <<>> => Len(q) = 0)
  BY LenProperties, EmptySeq
<1>4. Coming(d, q) = (<<d>> \o q)[1 + Len(q)]
  BY <1>2 DEF Coming, Last
<1>5. 1 + Len(q) \in 1 .. 1 + Len(q) /\ (1 + Len(q)) - 1 = Len(q)
  BY <1>3
<1>6. Coming(d, q) = IF 1 + Len(q) <= 1 THEN d ELSE q[Len(q)]
  BY <1>1, <1>2, <1>4, <1>5
<1>7. q # <<>> => q[Len(q)] \in Defaults
  BY <1>3, ElementOfSeq
<1>8. q # <<>> => q[Len(q)] \in ToSet(q)
  <2>1. q # <<>> => Len(q) \in DOMAIN q
    BY <1>3, LenProperties
  <2> QED BY <2>1 DEF ToSet
<1> QED BY <1>3, <1>6, <1>7, <1>8

LEMMA ComingAppend ==
  ASSUME NEW d \in Defaults, NEW q \in Seq(Defaults), NEW v \in Defaults
  PROVE  /\ Append(q, v) \in Seq(Defaults) /\ Append(q, v) # <<>>
         /\ Coming(d, Append(q, v)) = v /\ Last(Append(q, v)) = v
         /\ ToSet(Append(q, v)) = ToSet(q) \cup {v}
<1>1. /\ Append(q, v) \in Seq(Defaults) /\ Len(Append(q, v)) = Len(q) + 1
      /\ \A i \in 1 .. Len(q) : Append(q, v)[i] = q[i]
      /\ Append(q, v)[Len(q) + 1] = v
      /\ Len(q) \in Nat
  BY AppendProperties, LenProperties
<1>2. Append(q, v) # <<>>
  BY <1>1, EmptySeq
<1>3. DOMAIN q = 1 .. Len(q) /\ DOMAIN Append(q, v) = 1 .. Len(q) + 1
  BY <1>1, LenProperties
<1>4. ToSet(Append(q, v)) = ToSet(q) \cup {v}
  BY <1>1, <1>3 DEF ToSet
<1>5. Coming(d, Append(q, v)) = Append(q, v)[Len(Append(q, v))]
  BY <1>1, <1>2, ComingIs
<1>6. Last(Append(q, v)) = Append(q, v)[Len(Append(q, v))]
  BY DEF Last
<1> QED BY <1>1, <1>2, <1>4, <1>5, <1>6

LEMMA NoneThere == ToSet(<<>>) = {} /\ <<>> \in Seq(Defaults) /\ <<>> \in Seq(Nodes)
BY DEF ToSet

LEMMA NoneComing == ASSUME NEW d \in Defaults PROVE Coming(d, <<>>) = d
<1> DEFINE q == <<>>
<1>1. q \in Seq(Defaults)
  BY NoneThere
<1>2. q = <<>> => Coming(d, q) = d
  <2> HIDE DEF q
  <2> QED BY <1>1, ComingIs
<1> QED BY <1>2

LEMMA OneComing ==
  ASSUME NEW d \in Defaults, NEW v \in Defaults
  PROVE  Coming(d, Append(<<>>, v)) = v
<1> DEFINE q == <<>>
<1>1. q \in Seq(Defaults)
  BY NoneThere
<1>2. Coming(d, Append(q, v)) = v
  <2> HIDE DEF q
  <2> QED BY <1>1, ComingAppend
<1> QED BY <1>2

\* PipeWire reads the first request.
LEMMA ComingTail ==
  ASSUME NEW d \in Defaults, NEW q \in Seq(Defaults), q # <<>>
  PROVE  /\ Head(q) \in Defaults /\ Tail(q) \in Seq(Defaults)
         /\ Coming(Head(q), Tail(q)) = Coming(d, q)
         /\ ToSet(q) = {Head(q)} \cup ToSet(Tail(q))
<1>1. /\ Head(q) \in Defaults /\ Tail(q) \in Seq(Defaults) /\ Head(q) = q[1]
      /\ Len(Tail(q)) = Len(q) - 1
      /\ \A i \in 1 .. Len(q) - 1 : Tail(q)[i] = q[i + 1]
      /\ Len(q) \in Nat \ {0}
  BY HeadTailProperties, EmptySeq
<1>2. DOMAIN q = 1 .. Len(q) /\ DOMAIN Tail(q) = 1 .. Len(q) - 1
  BY <1>1, LenProperties
<1>3. ToSet(q) = {Head(q)} \cup ToSet(Tail(q))
  <2>1. \A i \in DOMAIN q : i = 1 \/ (i - 1 \in DOMAIN Tail(q) /\ q[i] = Tail(q)[i - 1])
    BY <1>1, <1>2
  <2>2. \A i \in DOMAIN Tail(q) : i + 1 \in DOMAIN q /\ q[i + 1] = Tail(q)[i]
    BY <1>1, <1>2
  <2>3. 1 \in DOMAIN q
    BY <1>1, <1>2
  <2>4. \A x : x \in ToSet(q) <=> \E i \in DOMAIN q : q[i] = x
    BY DEF ToSet
  <2>5. \A x : x \in ToSet(Tail(q)) <=> \E i \in DOMAIN Tail(q) : Tail(q)[i] = x
    BY DEF ToSet
  <2>6. ToSet(q) \subseteq {Head(q)} \cup ToSet(Tail(q))
    BY <1>1, <2>1, <2>4, <2>5
  <2>7. {Head(q)} \cup ToSet(Tail(q)) \subseteq ToSet(q)
    BY <1>1, <2>2, <2>3, <2>4, <2>5
  <2> QED BY <2>6, <2>7
<1>4. Coming(d, q) = q[Len(q)]
  BY ComingIs
<1>5. CASE Tail(q) = <<>>
  <2>1. Len(q) - 1 = 0
    BY <1>1, <1>5
  <2>2. Len(q) = 1
    <3>1. Len(q) \in Nat
      BY <1>1
    <3> QED BY <2>1, <3>1
  <2> QED BY <1>1, <1>3, <1>4, <1>5, <2>2, ComingIs
<1>6. CASE Tail(q) # <<>>
  <2>1. Len(q) - 1 \in 1 .. Len(q) - 1 /\ (Len(q) - 1) + 1 = Len(q)
    BY <1>1, <1>6, EmptySeq
  <2>2. Coming(Head(q), Tail(q)) = Tail(q)[Len(Tail(q))]
    BY <1>1, <1>6, ComingIs
  <2> QED BY <1>1, <1>3, <1>4, <2>1, <2>2
<1> QED BY <1>5, <1>6

\* A client leaves the list of the live ones.
LEMMA FirstGone ==
  ASSUME NEW q \in Seq(Nodes), NEW n
  PROVE  /\ RemoveFirst(q, n) \in Seq(Nodes)
         /\ ToSet(q) \ {n} \subseteq ToSet(RemoveFirst(q, n))
<1>1. CASE ~ \E i \in 1 .. Len(q) : q[i] = n
  BY <1>1 DEF RemoveFirst
<1>2. CASE \E i \in 1 .. Len(q) : q[i] = n
  <2> DEFINE I == {i \in 1 .. Len(q) : q[i] = n}
             k == SelectInSeq(q, LAMBDA v : v = n)
             a == SubSeq(q, 1, k - 1)
             b == SubSeq(q, k + 1, Len(q))
  <2>1. k \in I
    <3>1. I # {} /\ I \subseteq Nat
      BY <1>2, LenProperties
    <3>2. k = Min(I)
      BY <3>1 DEF SelectInSeq
    <3> QED BY <3>1, <3>2, MinIn
  <2>2. RemoveFirst(q, n) = a \o b
    BY <1>2 DEF RemoveFirst, RemoveAt
  <2> HIDE DEF k
  <2>3. Len(q) \in Nat /\ k \in 1 .. Len(q) /\ q[k] = n /\ DOMAIN q = 1 .. Len(q)
    BY <2>1, LenProperties
  <2>4. /\ a \in Seq(Nodes) /\ Len(a) = k - 1
        /\ \A i \in 1 .. k - 1 : a[i] = q[i]
    <3>1. \A i \in 1 .. k - 1 : q[i] \in Nodes
      BY <2>3, ElementOfSeq
    <3>2. 1 \in Int /\ k - 1 \in Int
      BY <2>3
    <3>3. /\ a \in Seq(Nodes) /\ Len(a) = IF 1 <= k - 1 THEN (k - 1) - 1 + 1 ELSE 0
          /\ \A i \in 1 .. (k - 1) - 1 + 1 : a[i] = q[1 + i - 1]
      BY <3>1, <3>2, SubSeqProperties
    <3> HIDE DEF a
    <3> QED BY <2>3, <3>3
  <2>5. /\ b \in Seq(Nodes) /\ Len(b) = Len(q) - k
        /\ \A i \in 1 .. Len(q) - k : b[i] = q[k + i]
    <3>1. \A i \in k + 1 .. Len(q) : q[i] \in Nodes
      BY <2>3, ElementOfSeq
    <3>2. Len(q) \in Int /\ k + 1 \in Int
      BY <2>3
    <3>3. /\ b \in Seq(Nodes) /\ Len(b) = IF k + 1 <= Len(q) THEN Len(q) - (k + 1) + 1 ELSE 0
          /\ \A i \in 1 .. Len(q) - (k + 1) + 1 : b[i] = q[(k + 1) + i - 1]
      BY <3>1, <3>2, SubSeqProperties
    <3> HIDE DEF b
    <3>4. Len(b) = Len(q) - k
      <4>1. Len(b) = IF k + 1 <= Len(q) THEN Len(q) - (k + 1) + 1 ELSE 0
        BY <3>3
      <4>2. Len(q) \in Nat /\ k \in Nat /\ 1 <= k /\ k <= Len(q)
        BY <2>3
      <4> QED BY <4>1, <4>2
    <3>5. ASSUME NEW i \in 1 .. Len(q) - k PROVE b[i] = q[k + i]
      <4>1. i \in 1 .. Len(q) - (k + 1) + 1 /\ (k + 1) + i - 1 = k + i
        BY <2>3
      <4> QED BY <3>3, <4>1
    <3> QED BY <3>3, <3>4, <3>5
  <2> HIDE DEF a, b
  <2>6. /\ a \o b \in Seq(Nodes) /\ Len(a \o b) = Len(a) + Len(b)
        /\ \A i \in 1 .. Len(a) + Len(b) : (a \o b)[i] = IF i <= Len(a) THEN a[i] ELSE b[i - Len(a)]
    BY <2>4, <2>5, ConcatProperties
  <2>7. DOMAIN (a \o b) = 1 .. Len(a \o b)
    BY <2>6, LenProperties
  <2>8. ASSUME NEW i \in DOMAIN q, q[i] # n
        PROVE  \E j \in DOMAIN (a \o b) : (a \o b)[j] = q[i]
    <3>1. CASE i < k
      <4>1. i \in 1 .. Len(a) + Len(b) /\ i <= Len(a) /\ i \in 1 .. k - 1
        BY <2>3, <2>4, <2>5, <3>1
      <4>2. (a \o b)[i] = q[i]
        BY <2>4, <2>6, <4>1
      <4> QED BY <2>6, <2>7, <4>1, <4>2
    <3>2. CASE i > k
      <4>1. /\ i - 1 \in 1 .. Len(a) + Len(b) /\ ~(i - 1 <= Len(a)) /\ i - k \in 1 .. Len(q) - k
            /\ (i - 1) - Len(a) = i - k /\ k + (i - k) = i
        BY <2>3, <2>4, <2>5, <3>2
      <4>2. (a \o b)[i - 1] = q[i]
        BY <2>5, <2>6, <4>1
      <4> QED BY <2>6, <2>7, <4>1, <4>2
    <3> QED BY <2>3, <2>8, <3>1, <3>2
  <2> QED BY <2>2, <2>6, <2>8 DEF ToSet
<1> QED BY <1>1, <1>2

-----------------------------------------------------------------------------
(* The operators of audio.c, field by field. *)

\* A request is sent if there is somebody to send it to.
LEMMA SetFields ==
  ASSUME NEW s \in ATypes, NEW v \in Defaults
  PROVE  LET t == DefaultSet(s, v)
         IN  /\ t \in ATypes
             /\ t.out = IF Connected(s) THEN Append(s.out, v) ELSE s.out
             /\ t.core = s.core /\ t.md = s.md /\ t.cur = s.cur /\ t.saved = s.saved
             /\ t.orig = s.orig /\ t.live = s.live /\ t.made = s.made /\ t.file = s.file
<1> DEFINE q == Append(s.out, v)
<1>1. s.out \in Seq(Defaults) /\ q \in Seq(Defaults)
  BY AppendProperties DEF ATypes
<1>2. DefaultSet(s, v) = IF Connected(s) THEN [s EXCEPT !.out = q] ELSE s
  BY DEF DefaultSet, Connected
<1> HIDE DEF q
<1>3. [s EXCEPT !.out = q] \in ATypes
  BY <1>1 DEF ATypes
<1> QED BY <1>2, <1>3 DEF ATypes, q

LEMMA RememberFields ==
  ASSUME NEW s \in ATypes
  PROVE  LET t == Remember(s)
         IN  /\ t \in ATypes /\ t.saved
             /\ s.saved => t.orig = s.orig /\ t.file = s.file
             /\ ~s.saved => t.file = t.orig /\ t.orig = IF s.cur \in Nodes THEN Unset ELSE s.cur
             /\ t.core = s.core /\ t.md = s.md /\ t.cur = s.cur
             /\ t.out = s.out /\ t.live = s.live /\ t.made = s.made
<1> DEFINE v == IF s.cur \in Nodes THEN Unset ELSE s.cur
<1>1. v \in Outputs \cup {Unset} /\ v \in Files /\ TRUE \in BOOLEAN
  BY Kinds DEF ATypes, Files
<1>2. Remember(s) = IF s.saved THEN s ELSE [s EXCEPT !.orig = v, !.saved = TRUE, !.file = v]
  BY DEF Remember
<1> HIDE DEF v
<1>3. [s EXCEPT !.orig = v, !.saved = TRUE, !.file = v] \in ATypes
  BY <1>1 DEF ATypes
<1>4. /\ Remember(s) \in ATypes /\ Remember(s).saved
      /\ s.saved => Remember(s).orig = s.orig /\ Remember(s).file = s.file
      /\ ~s.saved => Remember(s).file = v /\ Remember(s).orig = v
      /\ Remember(s).core = s.core /\ Remember(s).md = s.md /\ Remember(s).cur = s.cur
      /\ Remember(s).out = s.out /\ Remember(s).live = s.live /\ Remember(s).made = s.made
  BY <1>2, <1>3 DEF ATypes
<1> QED BY <1>4 DEF v

LEMMA TakeFields ==
  ASSUME NEW s \in ATypes, NEW n \in Nodes, s.md
  PROVE  LET t == TakeDefault(s, n)
         IN  /\ t \in ATypes /\ t.saved
             /\ s.saved => t.orig = s.orig /\ t.file = s.file
             /\ ~s.saved => t.file = t.orig /\ t.orig = IF s.cur \in Nodes THEN Unset ELSE s.cur
             /\ t.core = s.core /\ t.md = s.md /\ t.cur = s.cur
             /\ t.out = IF Connected(s) THEN Append(s.out, n) ELSE s.out
             /\ t.live = s.live /\ t.made = s.made \cup {n}
<1> DEFINE r == Remember(s)
           m == r.made \cup {n}
           u == [r EXCEPT !.made = m]
<1>1. TakeDefault(s, n) = DefaultSet(u, n)
  BY DEF TakeDefault
<1>2. /\ r \in ATypes /\ r.saved
      /\ s.saved => r.orig = s.orig /\ r.file = s.file
      /\ ~s.saved => r.file = r.orig /\ r.orig = IF s.cur \in Nodes THEN Unset ELSE s.cur
      /\ r.core = s.core /\ r.md = s.md /\ r.cur = s.cur
      /\ r.out = s.out /\ r.live = s.live /\ r.made = s.made
  BY RememberFields
<1> HIDE DEF r
<1>3. m \in SUBSET Nodes /\ m = s.made \cup {n}
  BY <1>2 DEF ATypes
<1> HIDE DEF m
<1>4. /\ u \in ATypes /\ u.made = m /\ u.core = r.core /\ u.md = r.md /\ u.cur = r.cur
      /\ u.saved = r.saved /\ u.orig = r.orig /\ u.file = r.file
      /\ u.out = r.out /\ u.live = r.live
  BY <1>2, <1>3 DEF ATypes
<1> HIDE DEF u
<1>5. Connected(u) = Connected(s) /\ n \in Defaults
  BY <1>2, <1>4, Kinds DEF Connected
<1> DEFINE z == DefaultSet(u, n)
<1>6. /\ z \in ATypes /\ z.out = IF Connected(s) THEN Append(u.out, n) ELSE u.out
      /\ z.core = u.core /\ z.md = u.md /\ z.saved = u.saved /\ z.cur = u.cur
      /\ z.orig = u.orig /\ z.live = u.live /\ z.made = u.made /\ z.file = u.file
  BY <1>4, <1>5, SetFields
<1> HIDE DEF z
<1>7. TakeDefault(s, n) = z
  BY <1>1 DEF z
<1> QED BY <1>2, <1>3, <1>4, <1>6, <1>7

\* A client that leaves gives the default back, hands it on, or does nothing.
LEMMA GiveBackFields ==
  ASSUME NEW s \in ATypes, NEW n \in Nodes
  PROVE  LET t == GiveBackDefault(s, n)
         IN  /\ t \in ATypes /\ t.core = s.core /\ t.md = s.md /\ t.live = s.live
             /\ t.cur = s.cur
             /\ ~(n \in s.made /\ s.md) => t = s
             /\ n \in s.made /\ s.md /\ s.cur \notin {Unset, n} =>
                  /\ t.made = s.made \ {n} /\ t.out = s.out
                  /\ t.saved = s.saved /\ t.orig = s.orig /\ t.file = s.file
             /\ n \in s.made /\ s.md /\ s.cur \in {Unset, n} /\ s.live # <<>> =>
                  /\ t.made = (s.made \ {n}) \cup {Head(s.live)} /\ t.saved
                  /\ t.out = IF Connected(s) THEN Append(s.out, Head(s.live)) ELSE s.out
                  /\ s.saved => t.orig = s.orig /\ t.file = s.file
             /\ n \in s.made /\ s.md /\ s.cur \in {Unset, n} /\ s.live = <<>> =>
                  /\ t.made = s.made \ {n} /\ ~t.saved /\ t.file = NoFile
                  /\ t.out = IF Connected(s) THEN Append(s.out, s.orig) ELSE s.out
<1> DEFINE m == s.made \ {n}
           t == [s EXCEPT !.made = m]
           h == Head(s.live)
           k == TakeDefault(t, h)
           d == DefaultSet(t, t.orig)
           g == [d EXCEPT !.orig = Unset, !.saved = FALSE, !.file = NoFile]
<1>1. GiveBackDefault(s, n) =
        IF n \notin s.made \/ ~s.md THEN s
        ELSE IF s.cur # Unset /\ s.cur # n THEN t
        ELSE IF s.live # <<>> THEN k ELSE g
  BY DEF GiveBackDefault
<1>2. m \in SUBSET Nodes
  BY DEF ATypes
<1> HIDE DEF m
<1>3. /\ t \in ATypes /\ t.made = m /\ t.core = s.core /\ t.md = s.md
      /\ t.saved = s.saved /\ t.orig = s.orig /\ t.file = s.file
      /\ t.out = s.out /\ t.live = s.live /\ t.cur = s.cur
  BY <1>2 DEF ATypes
<1> HIDE DEF t
<1>4. t.orig \in Defaults
  BY <1>3, Kinds DEF ATypes
<1>5. /\ d \in ATypes
      /\ d.out = IF Connected(s) THEN Append(s.out, s.orig) ELSE s.out
      /\ d.core = s.core /\ d.md = s.md /\ d.live = s.live /\ d.made = m /\ d.cur = s.cur
  BY <1>3, <1>4, SetFields DEF Connected
<1> HIDE DEF d
<1>6. Unset \in Outputs \cup {Unset} /\ FALSE \in BOOLEAN /\ NoFile \in Files
  BY DEF Files
<1>7. /\ g \in ATypes /\ g.out = d.out /\ g.core = d.core /\ g.md = d.md /\ g.cur = d.cur
      /\ g.live = d.live /\ g.made = d.made /\ ~g.saved /\ g.file = NoFile
  BY <1>5, <1>6 DEF ATypes
<1> HIDE DEF g
<1>8. s.live # <<>> /\ s.md =>
        /\ k \in ATypes /\ k.saved
        /\ s.saved => k.orig = s.orig /\ k.file = s.file
        /\ k.core = s.core /\ k.md = s.md /\ k.cur = s.cur
        /\ k.out = IF Connected(s) THEN Append(s.out, h) ELSE s.out
        /\ k.live = s.live /\ k.made = m \cup {h}
  <2>1. s.live \in Seq(Nodes)
    BY DEF ATypes
  <2>2. s.live # <<>> => h \in Nodes
    BY <2>1, HeadTailProperties
  <2>3. Connected(s) = Connected(t)
    BY <1>3 DEF Connected
  <2> SUFFICES ASSUME s.live # <<>>, s.md
               PROVE  /\ k \in ATypes /\ k.saved
                      /\ s.saved => k.orig = s.orig /\ k.file = s.file
                      /\ k.core = s.core /\ k.md = s.md /\ k.cur = s.cur
                      /\ k.out = IF Connected(s) THEN Append(s.out, h) ELSE s.out
                      /\ k.live = s.live /\ k.made = m \cup {h}
    OBVIOUS
  <2>4. h \in Nodes /\ t.md
    BY <1>3, <2>2
  <2> HIDE DEF h
  <2>5. /\ k \in ATypes /\ k.saved
        /\ t.saved => k.orig = t.orig /\ k.file = t.file
        /\ k.core = t.core /\ k.md = t.md /\ k.cur = t.cur
        /\ k.out = IF Connected(t) THEN Append(t.out, h) ELSE t.out
        /\ k.live = t.live /\ k.made = t.made \cup {h}
    BY <1>3, <2>4, TakeFields
  <2> HIDE DEF k
  <2> QED BY <1>3, <2>3, <2>5
<1> HIDE DEF k
<1>9. CASE ~(n \in s.made /\ s.md)
  BY <1>1, <1>9
<1>10. CASE n \in s.made /\ s.md
  <2>1. CASE s.cur # Unset /\ s.cur # n
    BY <1>1, <1>3, <1>10, <2>1 DEF m
  <2>2. CASE ~(s.cur # Unset /\ s.cur # n) /\ s.live # <<>>
    BY <1>1, <1>8, <1>10, <2>2 DEF m
  <2>3. CASE ~(s.cur # Unset /\ s.cur # n) /\ s.live = <<>>
    BY <1>1, <1>5, <1>7, <1>10, <2>3 DEF m
  <2> QED BY <2>1, <2>2, <2>3
<1> QED BY <1>9, <1>10

\* Recovery: nothing, or the file is put back.
LEMMA RecoverFields ==
  ASSUME NEW s \in ATypes
  PROVE  LET t == Recover(s)
         IN  /\ t \in ATypes /\ t.core = s.core /\ t.md = s.md /\ t.live = s.live
             /\ t.made = s.made /\ t.saved = s.saved /\ t.orig = s.orig /\ t.cur = s.cur
             /\ ~(s.live = <<>> /\ s.cur \in Nodes /\ s.file # NoFile) => t = s
             /\ s.live = <<>> /\ s.cur \in Nodes /\ s.file # NoFile =>
                  /\ t.file = NoFile
                  /\ t.out = IF Connected(s) THEN Append(s.out, s.file) ELSE s.out
<1> DEFINE d == DefaultSet(s, s.file)
           r == [d EXCEPT !.file = NoFile]
<1>1. CASE s.live = <<>> /\ s.cur \in Nodes /\ s.file # NoFile
  <2>1. s.file \in Defaults
    BY <1>1, Kinds DEF ATypes, Files
  <2>2. /\ d \in ATypes
        /\ d.out = IF Connected(s) THEN Append(s.out, s.file) ELSE s.out
        /\ d.core = s.core /\ d.md = s.md /\ d.saved = s.saved /\ d.cur = s.cur
        /\ d.orig = s.orig /\ d.live = s.live /\ d.made = s.made
    BY <2>1, SetFields
  <2>3. Recover(s) = r
    BY <1>1 DEF Recover
  <2> HIDE DEF d
  <2>4. NoFile \in Files
    BY DEF Files
  <2>5. /\ r \in ATypes /\ r.out = d.out /\ r.core = d.core /\ r.md = d.md
        /\ r.saved = d.saved /\ r.orig = d.orig /\ r.live = d.live /\ r.made = d.made
        /\ r.cur = d.cur /\ r.file = NoFile
    BY <2>2, <2>4 DEF ATypes
  <2> QED BY <1>1, <2>2, <2>3, <2>5
<1>2. CASE ~(s.live = <<>> /\ s.cur \in Nodes /\ s.file # NoFile)
  BY <1>2 DEF Recover
<1> QED BY <1>1, <1>2

\* A start with the file f and the default v.
LEMMA BootFields ==
  ASSUME NEW f \in Files, NEW v \in Defaults
  PROVE  LET t == Boot(f, v)
         IN  /\ t \in ATypes /\ Connected(t) /\ t.live = <<>> /\ t.made = {} /\ ~t.saved
             /\ t.cur = v
             /\ ~(v \in Nodes /\ f # NoFile) => t.out = <<>> /\ t.file = f
             /\ v \in Nodes /\ f # NoFile => t.out = Append(<<>>, f) /\ t.file = NoFile
<1> DEFINE b == [core |-> "up", md |-> TRUE, cur |-> v, saved |-> FALSE, orig |-> Unset,
                 live |-> <<>>, announced |-> {}, made |-> {}, out |-> <<>>, file |-> f]
<1>1. <<>> \in Seq(Nodes) /\ <<>> \in Seq(Defaults) /\ {} \in SUBSET Nodes
      /\ Unset \in Outputs \cup {Unset}
  OBVIOUS
<1>2. /\ b \in ATypes /\ Connected(b) /\ b.live = <<>> /\ b.made = {} /\ b.saved = FALSE
      /\ b.cur = v /\ b.out = <<>> /\ b.file = f /\ b.core = "up" /\ b.md = TRUE
  BY <1>1 DEF ATypes, Connected
<1>3. Boot(f, v) = Recover(b)
  BY DEF Boot
<1> HIDE DEF b
<1> DEFINE t == Recover(b)
<1>4. /\ t \in ATypes /\ t.core = b.core /\ t.md = b.md /\ t.live = b.live
      /\ t.made = b.made /\ t.saved = b.saved /\ t.cur = b.cur
      /\ ~(b.live = <<>> /\ b.cur \in Nodes /\ b.file # NoFile) => t = b
      /\ b.live = <<>> /\ b.cur \in Nodes /\ b.file # NoFile =>
           /\ t.file = NoFile
           /\ t.out = IF Connected(b) THEN Append(b.out, b.file) ELSE b.out
  BY <1>2, RecoverFields
<1> HIDE DEF t
<1>5. Boot(f, v) = t
  BY <1>3 DEF t
<1>6. Connected(t)
  BY <1>2, <1>4 DEF Connected
<1> QED BY <1>2, <1>4, <1>5, <1>6

LEMMA AudioStarts == AudioInit => AudioInv
<1> SUFFICES ASSUME AudioInit
             PROVE  AudioInv
  OBVIOUS
<1>1. PICK v \in Outputs \cup {Unset} :
        pw = [def |-> v, events |-> <<>>] /\ wish = v /\ A = Boot(NoFile, v)
  BY DEF AudioInit
<1>2. v \in Defaults /\ v \notin Nodes /\ NoFile \in Files /\ pw.def = v /\ pw.events = <<>>
  BY <1>1, Kinds DEF Files
<1>3. /\ A \in ATypes /\ Connected(A) /\ A.live = <<>> /\ A.made = {} /\ ~A.saved
      /\ A.out = <<>> /\ A.file = NoFile /\ A.cur = v
  BY <1>1, <1>2, BootFields
<1>4. pw \in PwTypes
  BY <1>1, <1>2, EmptySeq DEF PwTypes
<1>5. Coming(pw.def, A.out) = v /\ Coming(A.cur, pw.events) = v
  BY <1>2, <1>3, NoneComing
<1>6. past = [spent |-> FALSE, adrift |-> {}, crossed |-> FALSE] /\ {} \in SUBSET Nodes
      /\ FALSE \in BOOLEAN
  BY DEF AudioInit
<1>7. past \in PastTypes
  BY <1>6 DEF PastTypes
<1>8. Kept(A, pw, past)
  BY <1>2, <1>3, <1>5 DEF Kept
<1>9. ChoiceMeant(A, pw, wish)
  BY <1>1, <1>2, <1>3, NoneThere DEF ChoiceMeant
<1>10. AudioTyped
  <2>1. picks = 0 /\ faults = 0 /\ 0 \in 0 .. MaxPicks /\ 0 \in 0 .. MaxFaults
    BY AudioAssumption DEF AudioInit
  <2> QED BY <1>1, <1>3, <1>4, <1>7, <2>1 DEF AudioTyped
<1> QED BY <1>3, <1>8, <1>9, <1>10 DEF AudioInv

-----------------------------------------------------------------------------
(* Each action keeps the invariant. *)

\* An event is heard.  An output of ours is recovered if it is nobody's and
\* the last thing under way.
LEMMA HearStep == AudioInv /\ MdProperty => AudioInv'
<1> SUFFICES ASSUME AudioInv, MdProperty
             PROVE  AudioInv'
  OBVIOUS
<1> DEFINE v == Head(pw.events)
           s == [A EXCEPT !.cur = v]
           t == Recover(s)
           p == [pw EXCEPT !.events = Tail(pw.events)]
           c == t.file # A.file
           x == past.spent \/ (c /\ A.saved)
           y == past.adrift \cup Unmoved(A, v)
           z == past.crossed \/ (c /\ pw.def \in Outputs)
           h == [spent |-> x, adrift |-> y, crossed |-> z]
           R == A.live = <<>> /\ v \in Nodes /\ A.file # NoFile
<1>1. /\ A' = t /\ pw' = p /\ pw.events # <<>> /\ wish' = wish /\ past' = h
      /\ picks' = picks /\ faults' = faults
  BY DEF MdProperty, Unseen
<1>2. /\ A \in ATypes /\ pw \in PwTypes /\ pw.events \in Seq(Defaults) /\ pw.def \in Defaults
      /\ A.out \in Seq(Defaults) /\ A.cur \in Defaults /\ past \in PastTypes
      /\ wish \in Outputs \cup {Unset} /\ A.file \in Files
  BY DEF AudioInv, AudioTyped, PwTypes, ATypes
<1>3. /\ v \in Defaults /\ Tail(pw.events) \in Seq(Defaults)
      /\ Coming(v, Tail(pw.events)) = Coming(A.cur, pw.events)
  BY <1>1, <1>2, ComingTail
<1>4. p \in PwTypes /\ p.def = pw.def /\ p.events = Tail(pw.events)
  BY <1>2, <1>3 DEF PwTypes
<1> HIDE DEF v, p
<1>5. /\ s \in ATypes /\ s.cur = v /\ s.core = A.core /\ s.md = A.md /\ s.live = A.live
      /\ s.made = A.made /\ s.saved = A.saved /\ s.orig = A.orig /\ s.file = A.file
      /\ s.out = A.out
  BY <1>2, <1>3 DEF ATypes
<1> HIDE DEF s
<1>6. Connected(A) /\ Connected(s)
  BY <1>1, <1>5 DEF AudioInv, Connected
<1>7. /\ t \in ATypes /\ t.core = A.core /\ t.md = A.md /\ t.live = A.live
      /\ t.made = A.made /\ t.saved = A.saved /\ t.orig = A.orig /\ t.cur = v
      /\ ~R => t.out = A.out /\ t.file = A.file
      /\ R => t.file = NoFile /\ t.out = Append(A.out, A.file)
  BY <1>5, <1>6, RecoverFields
<1> HIDE DEF t
<1>8. c <=> R
  BY <1>7
<1> HIDE DEF c
<1>9. x \in BOOLEAN /\ z \in BOOLEAN /\ y \in SUBSET Nodes
  <2>1. Unmoved(A, v) \in SUBSET Nodes
    BY DEF Unmoved
  <2> QED BY <1>2, <2>1 DEF PastTypes
<1>10. /\ (x <=> past.spent \/ (R /\ A.saved)) /\ past.adrift \subseteq y
       /\ (z <=> past.crossed \/ (R /\ pw.def \in Outputs))
       /\ (v \in Nodes \ A.made /\ (A.live # <<>> \/ past.spent) => v \in y)
  BY <1>8 DEF Unmoved
<1> HIDE DEF x, y, z
<1>11. h \in PastTypes /\ h.spent = x /\ h.adrift = y /\ h.crossed = z
  BY <1>9 DEF PastTypes
<1> HIDE DEF h
<1>12. Kept(A, pw, past) /\ (~past.crossed => ChoiceMeant(A, pw, wish))
  BY DEF AudioInv
<1>13. R => /\ A.file \in Defaults /\ A.file \notin Nodes /\ t.out # <<>>
            /\ Coming(pw.def, t.out) = A.file /\ ToSet(t.out) = ToSet(A.out) \cup {A.file}
  <2>1. R => A.file \in Defaults /\ A.file \notin Nodes
    BY <1>2, Kinds DEF Files
  <2> HIDE DEF R
  <2>2. ASSUME A.file \in Defaults
        PROVE  /\ Append(A.out, A.file) # <<>>
               /\ Coming(pw.def, Append(A.out, A.file)) = A.file
               /\ ToSet(Append(A.out, A.file)) = ToSet(A.out) \cup {A.file}
    BY <1>2, <2>2, ComingAppend
  <2> QED BY <1>7, <2>1, <2>2
<1>14. Kept(t, p, h)
  <2>1. t.made \subseteq ToSet(t.live) /\ (t.made # {} => t.saved)
    BY <1>7, <1>12 DEF Kept
  <2>2. t.saved /\ ~h.spent => t.file # NoFile
    BY <1>7, <1>10, <1>11, <1>12 DEF Kept
  <2>3. t.saved /\ t.file # NoFile => t.file = t.orig
    BY <1>7, <1>12 DEF Kept
  <2>4. ~t.saved /\ Coming(p.def, t.out) \in Nodes => Coming(p.def, t.out) \in h.adrift
    BY <1>4, <1>7, <1>10, <1>11, <1>12, <1>13 DEF Kept
  <2>5. p.def = Coming(t.cur, p.events)
    BY <1>1, <1>3, <1>4, <1>6, <1>7, <1>12 DEF Kept
  <2>6. ASSUME t.out = <<>>, p.events = <<>>, p.def \in Nodes
        PROVE  p.def \in t.made \cup h.adrift
    <3>1. ~R /\ A.out = <<>>
      BY <1>7, <1>13, <2>6
    <3>2. Coming(v, p.events) = v
      BY <1>3, <2>6, NoneComing
    <3>3. v = p.def
      BY <1>7, <2>5, <3>2
    <3>4. CASE v \in A.made \/ A.live # <<>> \/ past.spent
      BY <1>7, <1>10, <1>11, <2>6, <3>3, <3>4
    <3>5. CASE A.live = <<>> /\ ~past.spent
      <4>1. A.file = NoFile /\ ~A.saved
        BY <1>12, <2>6, <3>1, <3>3, <3>5 DEF Kept
      <4>2. Coming(pw.def, A.out) = pw.def
        BY <1>2, <3>1, NoneComing
      <4> QED BY <1>4, <1>10, <1>11, <1>12, <2>6, <4>1, <4>2 DEF Kept
    <3> QED BY <3>4, <3>5
  <2> QED BY <2>1, <2>2, <2>3, <2>4, <2>5, <2>6 DEF Kept
<1>15. ASSUME ~h.crossed PROVE ChoiceMeant(t, p, wish)
  <2>1. ~past.crossed /\ ~(R /\ pw.def \in Outputs) /\ ChoiceMeant(A, pw, wish)
    BY <1>10, <1>11, <1>12, <1>15
  <2>2. CASE R
    <3>1. A.file = wish /\ (A.saved => A.orig = wish)
      BY <2>1, <2>2 DEF ChoiceMeant
    <3> QED BY <1>4, <1>7, <1>13, <2>1, <2>2, <3>1 DEF ChoiceMeant
  <2>3. CASE ~R
    BY <1>4, <1>7, <2>1, <2>3 DEF ChoiceMeant
  <2> QED BY <2>2, <2>3
<1>16. Connected(t)
  BY <1>6, <1>7 DEF Connected
<1> QED BY <1>1, <1>2, <1>4, <1>7, <1>11, <1>14, <1>15, <1>16 DEF AudioInv, AudioTyped

\* PipeWire reads a request: what it comes to is the same.
LEMMA ApplyStep == AudioInv /\ PwApply => AudioInv'
<1> SUFFICES ASSUME AudioInv, PwApply
             PROVE  AudioInv'
  OBVIOUS
<1> DEFINE h == Head(A.out)
           q == Tail(A.out)
           e == Append(pw.events, h)
           s == [A EXCEPT !.out = q]
           p == [def |-> h, events |-> e]
<1>1. /\ A' = s /\ pw' = p /\ A.out # <<>> /\ wish' = wish /\ past' = past
      /\ picks' = picks /\ faults' = faults
  BY DEF PwApply
<1>2. /\ A \in ATypes /\ A.out \in Seq(Defaults) /\ A.cur \in Defaults
      /\ pw \in PwTypes /\ pw.events \in Seq(Defaults) /\ pw.def \in Defaults
  BY DEF AudioInv, AudioTyped, PwTypes, ATypes
<1>3. /\ h \in Defaults /\ q \in Seq(Defaults) /\ Coming(h, q) = Coming(pw.def, A.out)
      /\ ToSet(A.out) = {h} \cup ToSet(q)
  BY <1>1, <1>2, ComingTail
<1> HIDE DEF h, q
<1>4. e \in Seq(Defaults) /\ e # <<>> /\ Coming(A.cur, e) = h
  BY <1>2, <1>3, ComingAppend
<1> HIDE DEF e
<1>5. p \in PwTypes /\ p.def = h /\ p.events = e
  BY <1>3, <1>4 DEF PwTypes
<1> HIDE DEF p
<1>6. /\ s \in ATypes /\ s.out = q /\ s.core = A.core /\ s.md = A.md /\ s.live = A.live
      /\ s.made = A.made /\ s.saved = A.saved /\ s.orig = A.orig /\ s.file = A.file
      /\ s.cur = A.cur
  BY <1>2, <1>3 DEF ATypes
<1> HIDE DEF s
<1>7. Connected(s)
  BY <1>1, <1>6 DEF AudioInv, Connected
<1>8. Kept(s, p, past)
  BY <1>3, <1>4, <1>5, <1>6 DEF Kept, AudioInv
<1>9. ~past.crossed => ChoiceMeant(s, p, wish)
  BY <1>1, <1>3, <1>5, <1>6 DEF ChoiceMeant, AudioInv
<1> QED BY <1>1, <1>5, <1>6, <1>7, <1>8, <1>9 DEF AudioInv, AudioTyped

\* The connection is not there, before and after: the default stays where it is.
LEMMA ApartStep ==
  ASSUME AudioInv, A' \in ATypes, ~Connected(A'), A'.out = <<>>,
         A'.made = A.made, A'.saved = A.saved, A'.orig = A.orig, A'.file = A.file,
         ToSet(A.live) \subseteq ToSet(A'.live),
         pw' \in PwTypes, pw'.def = pw.def, pw'.events = <<>>,
         wish' = wish, past' \in PastTypes, past'.spent = past.spent,
         past'.crossed = past.crossed, past.adrift \subseteq past'.adrift,
         A.out # <<>> /\ pw.def \in Nodes => pw.def \in past'.adrift,
         picks' = picks, faults' \in 0 .. MaxFaults
  PROVE  AudioInv'
<1>1. pw.def \in Defaults /\ A.out \in Seq(Defaults)
  BY DEF AudioInv, AudioTyped, PwTypes, ATypes
<1>2. Coming(pw.def, <<>>) = pw.def /\ ToSet(<<>>) = {}
  BY <1>1, NoneComing, NoneThere
<1>3. Kept(A', pw', past')
  BY <1>2 DEF AudioInv, Kept
<1>4. ~past.crossed => ChoiceMeant(A', pw', wish)
  BY <1>2 DEF AudioInv, ChoiceMeant
<1> QED BY <1>3, <1>4 DEF AudioInv, AudioTyped

LEMMA BindStep == AudioInv /\ MdBind => AudioInv'
<1> SUFFICES ASSUME AudioInv, MdBind
             PROVE  AudioInv'
  OBVIOUS
<1> DEFINE e == IF pw.def = Unset THEN <<>> ELSE <<pw.def>>
<1>1. /\ A' = [A EXCEPT !.md = TRUE] /\ pw' = [pw EXCEPT !.events = e]
      /\ wish' = wish /\ past' = past /\ picks' = picks /\ faults' = faults
      /\ A.core = "up"
  BY DEF MdBind
<1>2. /\ A \in ATypes /\ pw \in PwTypes /\ pw.def \in Defaults /\ A.out = <<>>
      /\ A.cur \in Defaults
  BY DEF AudioInv, AudioTyped, PwTypes, ATypes, MdBind, Connected
<1>3. /\ e \in Seq(Defaults) /\ (pw.def # Unset => e # <<>> /\ Coming(A.cur, e) = pw.def)
      /\ (pw.def = Unset => e = <<>>)
  <2> DEFINE q == <<pw.def>>
  <2>1. q \in Seq(Defaults) /\ q # <<>> /\ Len(q) = 1 /\ q[1] = pw.def
    BY <1>2
  <2>2. e = IF pw.def = Unset THEN <<>> ELSE q
    OBVIOUS
  <2> HIDE DEF q
  <2>3. Coming(A.cur, q) = pw.def
    BY <1>2, <2>1, ComingIs
  <2> HIDE DEF e
  <2> QED BY <2>1, <2>2, <2>3, NoneThere
<1> HIDE DEF e
<1>4. pw' \in PwTypes /\ pw'.def = pw.def /\ pw'.events = e
  BY <1>1, <1>2, <1>3 DEF PwTypes
<1>5. TRUE \in BOOLEAN
  OBVIOUS
<1>6. /\ A' \in ATypes /\ A'.out = A.out /\ A'.made = A.made /\ A'.saved = A.saved
      /\ A'.orig = A.orig /\ A'.file = A.file /\ A'.live = A.live /\ A'.cur = A.cur
      /\ A'.core = "up" /\ A'.md
  BY <1>1, <1>2, <1>5 DEF ATypes
<1>7. Kept(A', pw', past)
  BY <1>3, <1>4, <1>6, Kinds DEF AudioInv, Kept
<1>8. ~past.crossed => ChoiceMeant(A', pw', wish)
  BY <1>4, <1>6 DEF AudioInv, ChoiceMeant
<1> QED BY <1>1, <1>4, <1>6, <1>7, <1>8 DEF AudioInv, AudioTyped, Connected

\* The metadata or PipeWire goes away, with what was under way.
LEMMA LossStep == AudioInv /\ (MdGone \/ CoreError) => AudioInv'
<1> SUFFICES ASSUME AudioInv, MdGone \/ CoreError
             PROVE  AudioInv'
  OBVIOUS
<1> DEFINE y == past.adrift \cup LostIf(A.out # <<>>)
           a == ToSet(A.live)
<1>1. /\ A' \in {[A EXCEPT !.md = FALSE, !.out = <<>>],
                 [A EXCEPT !.core = "broken", !.out = <<>>, !.announced = a]}
      /\ pw' = [pw EXCEPT !.events = <<>>] /\ past' = [past EXCEPT !.adrift = y]
      /\ wish' = wish /\ picks' = picks
      /\ faults < MaxFaults /\ faults' = faults + 1
  BY DEF MdGone, CoreError
<1>2. A \in ATypes /\ pw \in PwTypes /\ faults \in 0 .. MaxFaults /\ past \in PastTypes
  BY DEF AudioInv, AudioTyped
<1>3. faults' \in 0 .. MaxFaults
  BY <1>1, <1>2, AudioAssumption
<1>4. pw' \in PwTypes /\ pw'.def = pw.def /\ pw'.events = <<>>
  BY <1>1, <1>2, NoneThere DEF PwTypes
<1>5. FALSE \in BOOLEAN /\ a \in SUBSET Nodes
  <2>1. A.live \in Seq(Nodes)
    BY <1>2 DEF ATypes
  <2>2. \A i \in DOMAIN A.live : A.live[i] \in Nodes
    BY <2>1, ElementOfSeq, LenProperties
  <2> QED BY <2>2 DEF ToSet
<1> HIDE DEF a
<1>6. /\ A' \in ATypes /\ A'.out = <<>> /\ A'.made = A.made /\ A'.saved = A.saved
      /\ A'.orig = A.orig /\ A'.file = A.file /\ A'.live = A.live /\ ~Connected(A')
  <2>1. CASE A' = [A EXCEPT !.md = FALSE, !.out = <<>>]
    BY <1>2, <1>5, <2>1, NoneThere DEF ATypes, Connected
  <2>2. CASE A' = [A EXCEPT !.core = "broken", !.out = <<>>, !.announced = a]
    BY <1>2, <1>5, <2>2, NoneThere DEF ATypes, Connected
  <2> QED BY <1>1, <2>1, <2>2
<1>7. /\ y \in SUBSET Nodes /\ past.adrift \subseteq y
      /\ A.out # <<>> /\ pw.def \in Nodes => pw.def \in y
  BY <1>2 DEF LostIf, PastTypes
<1> HIDE DEF y
<1>8. past' \in PastTypes /\ past'.adrift = y /\ past'.spent = past.spent
      /\ past'.crossed = past.crossed
  BY <1>1, <1>2, <1>7 DEF PastTypes
<1> QED BY <1>1, <1>3, <1>4, <1>6, <1>7, <1>8, ApartStep

\* A client comes, with or without PipeWire.
LEMMA StartStep ==
  ASSUME NEW n \in Nodes, AudioInv, AudioStart(n)
  PROVE  AudioInv'
<1> DEFINE c == PwConnect(A)
           l == Append(c.live, n)
<1>1. /\ A' = [c EXCEPT !.live = l]
      /\ pw' = IF A.core = "up" THEN pw ELSE [pw EXCEPT !.events = <<>>]
      /\ wish' = wish /\ past' = past /\ picks' = picks /\ faults' = faults
  BY DEF AudioStart
<1>2. A \in ATypes /\ pw \in PwTypes /\ pw.def \in Defaults /\ Unset \in Defaults
      /\ FALSE \in BOOLEAN /\ past \in PastTypes /\ faults \in 0 .. MaxFaults
  BY Kinds DEF AudioInv, AudioTyped, PwTypes
<1>3. /\ c \in ATypes /\ c.live = A.live /\ c.out = A.out /\ c.made = A.made
      /\ c.saved = A.saved /\ c.orig = A.orig /\ c.file = A.file
      /\ (A.core = "up" => c = A) /\ (A.core # "up" => ~c.md)
  BY <1>2 DEF PwConnect, ATypes
<1>4. l \in Seq(Nodes) /\ ToSet(A.live) \subseteq ToSet(l)
  <2>1. A.live \in Seq(Nodes)
    BY <1>2 DEF ATypes
  <2>2. /\ l \in Seq(Nodes) /\ Len(l) = Len(A.live) + 1 /\ Len(A.live) \in Nat
        /\ \A i \in 1 .. Len(A.live) : l[i] = A.live[i]
    BY <1>3, <2>1, AppendProperties, LenProperties
  <2>3. DOMAIN l = 1 .. Len(A.live) + 1 /\ DOMAIN A.live = 1 .. Len(A.live)
    BY <2>1, <2>2, LenProperties
  <2> QED BY <2>2, <2>3 DEF ToSet
<1> HIDE DEF c, l
<1>5. /\ A' \in ATypes /\ A'.live = l /\ A'.out = A.out /\ A'.made = A.made
      /\ A'.saved = A.saved /\ A'.orig = A.orig /\ A'.file = A.file
      /\ A'.core = c.core /\ A'.md = c.md /\ A'.cur = c.cur
  BY <1>1, <1>3, <1>4 DEF ATypes
<1>6. CASE A.core = "up"
  <2>1. pw' = pw /\ Connected(A') = Connected(A) /\ A'.cur = A.cur
    BY <1>1, <1>3, <1>5, <1>6 DEF Connected
  <2>2. Kept(A', pw, past)
    BY <1>4, <1>5, <2>1 DEF AudioInv, Kept
  <2>3. ~past.crossed => ChoiceMeant(A', pw, wish)
    BY <1>5 DEF AudioInv, ChoiceMeant
  <2> QED BY <1>1, <1>5, <2>1, <2>2, <2>3 DEF AudioInv, AudioTyped
<1>7. CASE A.core # "up"
  <2>1. A.out = <<>> /\ ~Connected(A')
    BY <1>3, <1>5, <1>7 DEF AudioInv, Connected
  <2>2. pw' \in PwTypes /\ pw'.def = pw.def /\ pw'.events = <<>>
    BY <1>1, <1>2, <1>7, NoneThere DEF PwTypes
  <2> QED BY <1>1, <1>2, <1>4, <1>5, <2>1, <2>2, ApartStep
<1> QED BY <1>6, <1>7

LEMMA StartFailsStep ==
  ASSUME NEW n \in Nodes, AudioInv, AudioStartFails(n)
  PROVE  AudioInv'
<1>1. /\ A' = [A EXCEPT !.core = "none", !.md = FALSE, !.cur = Unset]
      /\ pw' = [pw EXCEPT !.events = <<>>]
      /\ wish' = wish /\ past' = past /\ picks' = picks /\ faults' = faults
  BY DEF AudioStartFails
<1>2. A \in ATypes /\ pw \in PwTypes /\ Unset \in Defaults /\ FALSE \in BOOLEAN
      /\ past \in PastTypes /\ faults \in 0 .. MaxFaults
  BY Kinds DEF AudioInv, AudioTyped
<1>3. A.out = <<>>
  BY DEF AudioInv, Connected, AudioStartFails
<1>4. /\ A' \in ATypes /\ A'.live = A.live /\ A'.out = A.out /\ A'.made = A.made
      /\ A'.saved = A.saved /\ A'.orig = A.orig /\ A'.file = A.file /\ ~Connected(A')
  BY <1>1, <1>2 DEF ATypes, Connected
<1>5. pw' \in PwTypes /\ pw'.def = pw.def /\ pw'.events = <<>>
  BY <1>1, <1>2, NoneThere DEF PwTypes
<1> QED BY <1>1, <1>2, <1>3, <1>4, <1>5, ApartStep

\* An output is ready and becomes the default: what it replaces is remembered.
LEMMA ReadyStep ==
  ASSUME NEW n \in Nodes, AudioInv, AudioReady(n)
  PROVE  AudioInv'
<1> DEFINE a == A.announced \cup {n}
           s == [A EXCEPT !.announced = a]
           t == TakeDefault(s, n)
           y == past.adrift \ {n}
           z == past.crossed \/ Outdated(A)
<1>1. /\ A' = t /\ pw' = pw /\ wish' = wish
      /\ past' = IF ~A.md THEN past ELSE [past EXCEPT !.adrift = y, !.crossed = z]
      /\ picks' = picks /\ faults' = faults /\ A.core = "up" /\ n \in ToSet(A.live)
  BY DEF AudioReady
<1>2. /\ A \in ATypes /\ pw \in PwTypes /\ pw.def \in Defaults /\ past \in PastTypes
      /\ wish \in Outputs \cup {Unset} /\ Kept(A, pw, past)
  BY DEF AudioInv, AudioTyped, PwTypes
<1>3. a \in SUBSET Nodes
  BY <1>2 DEF ATypes
<1> HIDE DEF a
<1>4. /\ s \in ATypes /\ s.live = A.live /\ s.out = A.out /\ s.made = A.made
      /\ s.saved = A.saved /\ s.orig = A.orig /\ s.file = A.file
      /\ s.core = A.core /\ s.md = A.md /\ s.cur = A.cur
  BY <1>2, <1>3 DEF ATypes
<1> HIDE DEF s
<1>5. CASE ~A.md
  <2>1. A' = s /\ past' = past
    BY <1>1, <1>4, <1>5 DEF TakeDefault
  <2>2. Kept(A', pw', past')
    BY <1>1, <1>2, <1>4, <1>5, <2>1 DEF Kept, Connected
  <2>3. ~past.crossed => ChoiceMeant(A', pw', wish)
    BY <1>1, <1>4, <2>1 DEF AudioInv, ChoiceMeant
  <2>4. ~Connected(A') => A'.out = <<>> /\ pw'.events = <<>>
    BY <1>1, <1>4, <2>1 DEF AudioInv, Connected
  <2> QED BY <1>1, <1>4, <2>1, <2>2, <2>3, <2>4 DEF AudioInv, AudioTyped
<1>6. CASE A.md
  <2>1. Connected(s) /\ s.md
    BY <1>1, <1>4, <1>6 DEF Connected
  <2>2. /\ t \in ATypes /\ t.saved
        /\ A.saved => t.orig = A.orig /\ t.file = A.file
        /\ ~A.saved => t.file = t.orig /\ t.orig = IF A.cur \in Nodes THEN Unset ELSE A.cur
        /\ t.core = A.core /\ t.md = A.md /\ t.cur = A.cur
        /\ t.out = Append(A.out, n)
        /\ t.live = A.live /\ t.made = A.made \cup {n}
    <3>1. /\ t \in ATypes /\ t.saved
          /\ s.saved => t.orig = s.orig /\ t.file = s.file
          /\ ~s.saved => t.file = t.orig /\ t.orig = IF s.cur \in Nodes THEN Unset ELSE s.cur
          /\ t.core = s.core /\ t.md = s.md /\ t.cur = s.cur
          /\ t.out = IF Connected(s) THEN Append(s.out, n) ELSE s.out
          /\ t.live = s.live /\ t.made = s.made \cup {n}
      BY <1>4, <2>1, TakeFields
    <3> HIDE DEF t
    <3> QED BY <1>4, <2>1, <3>1
  <2> HIDE DEF t
  <2>3. A.out \in Seq(Defaults) /\ n \in Defaults
    BY <1>2, Kinds DEF ATypes
  <2>4. t.out # <<>> /\ ToSet(t.out) = ToSet(A.out) \cup {n}
    BY <1>2, <2>2, <2>3, ComingAppend
  <2>5. y \in SUBSET Nodes /\ z \in BOOLEAN /\ (z <=> past.crossed \/ Outdated(A))
    BY <1>2 DEF PastTypes, Outdated
  <2> HIDE DEF y, z
  <2>6. /\ past' \in PastTypes /\ past'.spent = past.spent /\ past'.adrift = y
        /\ past'.crossed = z
    BY <1>1, <1>2, <1>6, <2>5 DEF PastTypes
  <2>7. Kept(t, pw, past')
    <3>1. t.made \subseteq ToSet(t.live)
      BY <1>1, <1>2, <2>2 DEF Kept
    <3>2. t.file \in Files /\ t.orig \in Outputs \cup {Unset} /\ t.orig # NoFile
      BY <2>2, Kinds DEF ATypes
    <3>3. /\ t.saved /\ ~past'.spent => t.file # NoFile
          /\ t.saved /\ t.file # NoFile => t.file = t.orig
      BY <1>2, <2>2, <2>6, <3>2 DEF Kept
    <3>4. pw.def = Coming(t.cur, pw.events) \/ (pw.def = Unset /\ pw.events = <<>>)
      BY <1>1, <1>2, <1>6, <2>2 DEF Kept, Connected
    <3> QED BY <2>2, <2>4, <3>1, <3>3, <3>4 DEF Kept
  <2>8. ASSUME ~z PROVE ChoiceMeant(t, pw, wish)
    <3>1. ChoiceMeant(A, pw, wish) /\ wish = IF A.saved THEN A.orig ELSE A.cur
      BY <2>5, <2>8 DEF AudioInv, Outdated
    <3>2. t.orig = wish
      BY <1>2, <2>2, <3>1, Kinds
    <3>3. t.file # NoFile => t.file = wish
      BY <1>2, <2>2, <3>1, <3>2 DEF Kept
    <3> QED BY <2>4, <3>1, <3>2, <3>3 DEF ChoiceMeant
  <2>9. Connected(t)
    BY <1>1, <1>6, <2>2 DEF Connected
  <2> QED BY <1>1, <1>2, <2>2, <2>6, <2>7, <2>8, <2>9 DEF AudioInv, AudioTyped
<1> QED BY <1>5, <1>6

\* A client goes.
LEMMA StopStep ==
  ASSUME NEW n \in Nodes, AudioInv, AudioStop(n)
  PROVE  AudioInv'
<1> DEFINE l == RemoveFirst(A.live, n)
           a == A.announced \ {n}
           s == [A EXCEPT !.live = l, !.announced = a]
           g == GiveBackDefault(s, n)
           m == g.made \ {n}
           t == [g EXCEPT !.made = m]
           c == n \in A.made /\ A.md /\ A.cur \in {n, Unset}
           x == past.spent /\ t.saved
           y == past.adrift \cup LostIf(c /\ A.core # "up")
           z == past.crossed \/ (c /\ pw.def \in Outputs)
           h == [spent |-> x, adrift |-> y, crossed |-> z]
<1>1. /\ A' = t /\ pw' = pw /\ wish' = wish /\ past' = h
      /\ picks' = picks /\ faults' = faults
  BY DEF AudioStop, Unseen
<1>2. /\ A \in ATypes /\ pw \in PwTypes /\ pw.def \in Defaults /\ past \in PastTypes
      /\ A.live \in Seq(Nodes) /\ A.out \in Seq(Defaults) /\ wish \in Outputs \cup {Unset}
      /\ Kept(A, pw, past) /\ A.orig \in Outputs \cup {Unset} /\ A.cur \in Defaults
      /\ (~Connected(A) => A.out = <<>> /\ pw.events = <<>>)
  BY DEF AudioInv, AudioTyped, PwTypes, ATypes
<1>3. a \in SUBSET Nodes /\ l \in Seq(Nodes) /\ ToSet(A.live) \ {n} \subseteq ToSet(l)
  BY <1>2, FirstGone DEF ATypes
<1> HIDE DEF a, l
<1>4. /\ s \in ATypes /\ s.live = l /\ s.out = A.out /\ s.made = A.made /\ s.cur = A.cur
      /\ s.saved = A.saved /\ s.orig = A.orig /\ s.file = A.file
      /\ s.core = A.core /\ s.md = A.md /\ Connected(s) = Connected(A)
  BY <1>2, <1>3 DEF ATypes, Connected
<1> HIDE DEF s
<1>5. /\ g \in ATypes /\ g.core = s.core /\ g.md = s.md /\ g.live = s.live /\ g.cur = s.cur
      /\ ~(n \in s.made /\ s.md) => g = s
      /\ n \in s.made /\ s.md /\ s.cur \notin {Unset, n} =>
           /\ g.made = s.made \ {n} /\ g.out = s.out
           /\ g.saved = s.saved /\ g.orig = s.orig /\ g.file = s.file
      /\ n \in s.made /\ s.md /\ s.cur \in {Unset, n} /\ s.live # <<>> =>
           /\ g.made = (s.made \ {n}) \cup {Head(s.live)} /\ g.saved
           /\ g.out = IF Connected(s) THEN Append(s.out, Head(s.live)) ELSE s.out
           /\ s.saved => g.orig = s.orig /\ g.file = s.file
      /\ n \in s.made /\ s.md /\ s.cur \in {Unset, n} /\ s.live = <<>> =>
           /\ g.made = s.made \ {n} /\ ~g.saved /\ g.file = NoFile
           /\ g.out = IF Connected(s) THEN Append(s.out, s.orig) ELSE s.out
  BY <1>4, GiveBackFields
<1> HIDE DEF g
<1>6. m \in SUBSET Nodes
  BY <1>5 DEF ATypes
<1> HIDE DEF m
<1>7. /\ t \in ATypes /\ t.made = m /\ t.core = A.core /\ t.md = A.md /\ t.live = l
      /\ t.cur = A.cur /\ t.saved = g.saved /\ t.orig = g.orig /\ t.file = g.file
      /\ t.out = g.out /\ Connected(t) = Connected(A)
  BY <1>4, <1>5, <1>6 DEF ATypes, Connected
<1> HIDE DEF t
<1>8. /\ x \in BOOLEAN /\ z \in BOOLEAN /\ y \in SUBSET Nodes /\ past.adrift \subseteq y
      /\ (x <=> past.spent /\ t.saved) /\ (z <=> past.crossed \/ (c /\ pw.def \in Outputs))
      /\ (c /\ A.core # "up" /\ pw.def \in Nodes => pw.def \in y)
  BY <1>2 DEF PastTypes, LostIf
<1> HIDE DEF x, y, z
<1>9. h \in PastTypes /\ h.spent = x /\ h.adrift = y /\ h.crossed = z
  BY <1>8 DEF PastTypes
<1> HIDE DEF h
<1>10. A.made \ {n} \subseteq ToSet(l)
  BY <1>2, <1>3 DEF Kept
<1>11. ASSUME ~z PROVE ChoiceMeant(A, pw, wish) /\ (c => pw.def \notin Outputs)
  BY <1>8, <1>11 DEF AudioInv
<1>12. CASE ~c
  <2>1. /\ t.made = A.made \ {n} /\ t.out = A.out /\ t.saved = A.saved
        /\ t.orig = A.orig /\ t.file = A.file
    <3>1. CASE ~(n \in s.made /\ s.md)
      BY <1>4, <1>5, <1>7, <3>1 DEF m
    <3>2. CASE n \in s.made /\ s.md
      <4>1. s.cur \notin {Unset, n}
        BY <1>4, <1>12, <3>2
      <4> QED BY <1>4, <1>5, <1>7, <3>2, <4>1 DEF m
    <3> QED BY <3>1, <3>2
  <2>2. ASSUME Connected(A), A.out = <<>>, pw.events = <<>>, pw.def \in Nodes
        PROVE  pw.def \in t.made \cup y
    <3>1. pw.def \in A.made \cup past.adrift
      BY <1>2, <2>2 DEF Kept
    <3>2. pw.def = A.cur
      <4>1. pw.def # Unset /\ Coming(A.cur, pw.events) = A.cur
        BY <1>2, <2>2, Kinds, NoneComing
      <4> QED BY <1>2, <2>2, <4>1 DEF Kept
    <3>3. pw.def \in A.made => pw.def # n
      BY <1>12, <2>2, <3>2 DEF Connected
    <3> QED BY <1>8, <2>1, <3>1, <3>3
  <2>3. t.made \subseteq ToSet(t.live) /\ (t.made # {} => t.saved)
    BY <1>2, <1>7, <1>10, <2>1 DEF Kept
  <2>4. Kept(t, pw, h)
    BY <1>2, <1>7, <1>8, <1>9, <2>1, <2>2, <2>3 DEF Kept
  <2>5. ~z => ChoiceMeant(t, pw, wish)
    BY <1>11, <2>1 DEF ChoiceMeant
  <2> QED BY <1>1, <1>2, <1>7, <1>9, <2>1, <2>4, <2>5 DEF AudioInv, AudioTyped
<1>13. CASE c /\ l # <<>>
  <2> DEFINE k == Head(l)
  <2>1. k \in Nodes /\ k \in Defaults /\ k \in ToSet(l)
    <3>1. k \in Nodes /\ k = l[1] /\ Len(l) \in Nat \ {0}
      BY <1>3, <1>13, HeadTailProperties, EmptySeq
    <3>2. 1 \in DOMAIN l
      BY <1>3, <3>1, LenProperties
    <3> QED BY <3>1, <3>2, Kinds DEF ToSet
  <2> HIDE DEF k
  <2>2. A.saved
    BY <1>2, <1>13 DEF Kept
  <2>3. /\ t.made = ((A.made \ {n}) \cup {k}) \ {n} /\ t.saved
        /\ t.out = (IF Connected(A) THEN Append(A.out, k) ELSE A.out)
        /\ t.orig = A.orig /\ t.file = A.file
    BY <1>4, <1>5, <1>7, <1>13, <2>2 DEF m, k
  <2>4. Connected(A) => t.out # <<>> /\ ToSet(t.out) = ToSet(A.out) \cup {k}
    BY <1>2, <2>1, <2>3, ComingAppend
  <2>5. t.made \subseteq ToSet(t.live)
    BY <1>7, <1>10, <2>1, <2>3
  <2>6. Kept(t, pw, h)
    BY <1>2, <1>7, <1>8, <1>9, <2>2, <2>3, <2>4, <2>5 DEF Kept
  <2>7. ASSUME ~z PROVE ChoiceMeant(t, pw, wish)
    <3>1. ChoiceMeant(A, pw, wish) /\ pw.def \notin Outputs
      BY <1>11, <1>13, <2>7
    <3>2. \A v \in ToSet(t.out) : v \in ToSet(A.out) \/ v \in Nodes
      BY <2>1, <2>3, <2>4
    <3> QED BY <2>2, <2>3, <3>1, <3>2 DEF ChoiceMeant
  <2>8. ~Connected(t) => t.out = <<>> /\ pw.events = <<>>
    BY <1>2, <1>7, <2>3
  <2> QED BY <1>1, <1>2, <1>7, <1>9, <2>6, <2>7, <2>8 DEF AudioInv, AudioTyped
<1>14. CASE c /\ l = <<>>
  <2>1. A.saved /\ A.made \ {n} = {}
    BY <1>2, <1>10, <1>14, NoneThere DEF Kept
  <2>2. /\ t.made = {} /\ ~t.saved /\ t.file = NoFile
        /\ t.out = (IF Connected(A) THEN Append(A.out, A.orig) ELSE A.out)
    BY <1>4, <1>5, <1>7, <1>14, <2>1 DEF m
  <2>3. A.orig \in Defaults /\ A.orig \notin Nodes
    BY <1>2, Kinds
  <2>4. Connected(A) => /\ t.out # <<>> /\ ToSet(t.out) = ToSet(A.out) \cup {A.orig}
                        /\ Coming(pw.def, t.out) = A.orig
    BY <1>2, <2>2, <2>3, ComingAppend
  <2>5. ~Connected(A) => t.out = <<>> /\ A.out = <<>> /\ Coming(pw.def, t.out) = pw.def
                         /\ A.core # "up"
    BY <1>2, <1>14, <2>2, NoneComing DEF Connected
  <2>6. Kept(t, pw, h)
    BY <1>2, <1>7, <1>8, <1>9, <1>14, <2>2, <2>3, <2>4, <2>5 DEF Kept
  <2>7. ASSUME ~z PROVE ChoiceMeant(t, pw, wish)
    <3>1. ChoiceMeant(A, pw, wish) /\ pw.def \notin Outputs
      BY <1>11, <1>14, <2>7
    <3>2. A.orig = wish
      BY <2>1, <3>1 DEF ChoiceMeant
    <3>3. \A v \in ToSet(t.out) : v \in ToSet(A.out) \/ v = wish
      BY <2>4, <2>5, <3>2
    <3> QED BY <2>2, <3>1, <3>3 DEF ChoiceMeant
  <2>8. ~Connected(t) => t.out = <<>> /\ pw.events = <<>>
    BY <1>2, <1>7, <2>5
  <2> QED BY <1>1, <1>2, <1>7, <1>9, <2>6, <2>7, <2>8 DEF AudioInv, AudioTyped
<1> QED BY <1>12, <1>13, <1>14

\* The user chooses an output.
LEMMA PickStep ==
  ASSUME NEW v \in Outputs, AudioInv, UserPicks(v)
  PROVE  AudioInv'
<1> DEFINE e == IF A.md /\ A.core = "up" THEN Append(pw.events, v) ELSE pw.events
           z == (past.crossed /\ ~(Settled /\ A.live = <<>> /\ ~A.saved)) \/ A.out # <<>>
<1>1. /\ A' = A /\ pw' = [def |-> v, events |-> e] /\ wish' = v
      /\ past' = [past EXCEPT !.crossed = z]
      /\ picks < MaxPicks /\ picks' = picks + 1 /\ faults' = faults
  BY DEF UserPicks
<1>2. /\ A \in ATypes /\ pw \in PwTypes /\ picks \in 0 .. MaxPicks /\ past \in PastTypes
      /\ A.cur \in Defaults /\ A.out \in Seq(Defaults) /\ pw.events \in Seq(Defaults)
      /\ pw.def \in Defaults /\ Kept(A, pw, past)
      /\ (~Connected(A) => A.out = <<>> /\ pw.events = <<>>)
  BY DEF AudioInv, AudioTyped, ATypes, PwTypes
<1>3. v \in Defaults /\ v \notin Nodes /\ v # Unset
  BY Kinds
<1>4. /\ e \in Seq(Defaults) /\ (Connected(A) => e # <<>> /\ Coming(A.cur, e) = v)
      /\ (~Connected(A) => e = pw.events)
  <2>1. /\ Append(pw.events, v) \in Seq(Defaults) /\ Append(pw.events, v) # <<>>
        /\ Coming(A.cur, Append(pw.events, v)) = v
    BY <1>2, <1>3, ComingAppend
  <2> QED BY <1>2, <2>1 DEF Connected
<1> HIDE DEF e
<1>5. pw' \in PwTypes /\ pw'.def = v /\ pw'.events = e
  BY <1>1, <1>3, <1>4 DEF PwTypes
<1>6. picks' \in 0 .. MaxPicks
  BY <1>1, <1>2, AudioAssumption
<1>7. z \in BOOLEAN /\ (~z => A.out = <<>>)
  BY <1>2 DEF PastTypes
<1> HIDE DEF z
<1>8. past' \in PastTypes /\ past'.spent = past.spent /\ past'.adrift = past.adrift
      /\ past'.crossed = z
  BY <1>1, <1>2, <1>7 DEF PastTypes
<1>9. Coming(v, A.out) \in Nodes => Coming(v, A.out) = Coming(pw.def, A.out)
  <2>1. CASE A.out = <<>>
    BY <1>3, <2>1, NoneComing
  <2>2. CASE A.out # <<>>
    BY <1>2, <1>3, <2>2, ComingIs
  <2> QED BY <2>1, <2>2
<1>10. Kept(A, pw', past')
  BY <1>2, <1>3, <1>4, <1>5, <1>8, <1>9 DEF Kept
<1>11. ~z => ChoiceMeant(A, pw', v)
  BY <1>5, <1>7, NoneThere DEF ChoiceMeant
<1>12. ~Connected(A) => A.out = <<>> /\ pw'.events = <<>>
  BY <1>2, <1>4, <1>5
<1> QED BY <1>1, <1>2, <1>5, <1>6, <1>8, <1>10, <1>11, <1>12 DEF AudioInv, AudioTyped

\* The server ends, in order or not, and is started again.
LEMMA AgainStep == AudioInv /\ (Shutdown \/ Crash) => AudioInv'
<1> SUFFICES ASSUME AudioInv, Shutdown \/ Crash
             PROVE  AudioInv'
  OBVIOUS
<1> DEFINE v == Coming(pw.def, A.out)
           y == past.adrift \cup (IF past.spent THEN {v} \cap Nodes ELSE {})
<1>1. /\ A \in ATypes /\ pw \in PwTypes /\ pw.def \in Defaults /\ A.out \in Seq(Defaults)
      /\ A.file \in Files /\ wish \in Outputs \cup {Unset} /\ faults \in 0 .. MaxFaults
      /\ past \in PastTypes /\ Kept(A, pw, past) /\ (~Connected(A) => A.out = <<>>)
  BY DEF AudioInv, AudioTyped, PwTypes, ATypes
<1>2. /\ v \in Defaults /\ v \in {pw.def} \cup ToSet(A.out)
      /\ v = IF A.out = <<>> THEN pw.def ELSE Last(A.out)
  <2>1. A.out # <<>> => v = Last(A.out)
    BY <1>1, ComingIs DEF Last
  <2> QED BY <1>1, <2>1, ComingIs
<1>3. /\ A' = Boot(A.file, v) /\ pw' = [def |-> v, events |-> <<>>]
      /\ past' = [past EXCEPT !.spent = FALSE, !.adrift = y]
  <2>1. CASE Crash
    BY <1>2, <2>1 DEF Crash, Restarted
  <2>2. CASE Shutdown
    <3>1. A.out = <<>>
      BY <1>1, <2>2 DEF Shutdown, Connected
    <3> QED BY <1>2, <2>2, <3>1 DEF Shutdown, Restarted
  <2> QED BY <2>1, <2>2
<1>4. wish' = wish /\ picks' = picks /\ faults' \in 0 .. MaxFaults
  BY <1>1, AudioAssumption DEF Shutdown, Crash
<1> HIDE DEF v
<1>5. /\ y \in SUBSET Nodes /\ past.adrift \subseteq y
      /\ (past.spent /\ v \in Nodes => v \in y) /\ FALSE \in BOOLEAN
  BY <1>1 DEF PastTypes
<1> HIDE DEF y
<1>6. past' \in PastTypes /\ past'.adrift = y /\ past'.crossed = past.crossed
  BY <1>1, <1>3, <1>5 DEF PastTypes
<1>7. pw' \in PwTypes /\ pw'.def = v /\ pw'.events = <<>>
  BY <1>2, <1>3, NoneThere DEF PwTypes
<1>8. /\ A' \in ATypes /\ Connected(A') /\ A'.live = <<>> /\ A'.made = {} /\ ~A'.saved
      /\ A'.cur = v
      /\ ~(v \in Nodes /\ A.file # NoFile) => A'.out = <<>> /\ A'.file = A.file
      /\ v \in Nodes /\ A.file # NoFile => A'.out = Append(<<>>, A.file) /\ A'.file = NoFile
  BY <1>1, <1>2, <1>3, BootFields
<1>9. v \in Nodes /\ A.file # NoFile =>
        /\ A'.out # <<>> /\ A.file \notin Nodes /\ Coming(v, A'.out) = A.file
        /\ ToSet(A'.out) = {A.file}
  <2> SUFFICES ASSUME v \in Nodes, A.file # NoFile
               PROVE  /\ A'.out # <<>> /\ A.file \notin Nodes /\ Coming(v, A'.out) = A.file
                      /\ ToSet(A'.out) = {A.file}
    OBVIOUS
  <2> DEFINE q == <<>>
  <2>1. q \in Seq(Defaults) /\ ToSet(q) = {} /\ A'.out = Append(q, A.file)
    BY <1>8, NoneThere
  <2>2. A.file \in Defaults /\ A.file \notin Nodes
    BY <1>1, Kinds DEF Files
  <2> HIDE DEF q
  <2>3. /\ Append(q, A.file) # <<>> /\ Coming(v, Append(q, A.file)) = A.file
        /\ ToSet(Append(q, A.file)) = ToSet(q) \cup {A.file}
    BY <1>2, <2>1, <2>2, ComingAppend
  <2> QED BY <2>1, <2>2, <2>3
<1>10. v \in Nodes /\ A.file = NoFile => v \in y
  BY <1>1, <1>5 DEF Kept, v
<1>11. A'.out = <<>> => Coming(v, A'.out) = v
  BY <1>2, NoneComing
<1>12. Coming(v, pw'.events) = v
  BY <1>2, <1>7, NoneComing
<1>13. Kept(A', pw', past')
  BY <1>6, <1>7, <1>8, <1>9, <1>10, <1>11, <1>12 DEF Kept
<1>14. ASSUME ~past.crossed PROVE ChoiceMeant(A', pw', wish)
  <2>1. ChoiceMeant(A, pw, wish)
    BY <1>14 DEF AudioInv
  <2>2. v \in Nodes \/ v = wish
    BY <1>2, <2>1 DEF ChoiceMeant
  <2>3. v \notin Outputs => A.out # <<>> \/ pw.def \notin Outputs
    BY <1>2
  <2>4. A.file # NoFile /\ v \notin Outputs => A.file = wish
    BY <2>1, <2>3 DEF ChoiceMeant
  <2>5. v \in Nodes => v \notin Outputs
    BY Kinds
  <2>6. CASE v \in Nodes /\ A.file # NoFile
    BY <1>7, <1>8, <1>9, <2>2, <2>4, <2>5, <2>6 DEF ChoiceMeant
  <2>7. CASE ~(v \in Nodes /\ A.file # NoFile)
    BY <1>7, <1>8, <2>2, <2>4, <2>7, NoneThere DEF ChoiceMeant
  <2> QED BY <2>6, <2>7
<1> QED BY <1>1, <1>4, <1>6, <1>7, <1>8, <1>13, <1>14 DEF AudioInv, AudioTyped

LEMMA AudioStep == AudioInv /\ [AudioNext]_audioVars => AudioInv'
<1> SUFFICES ASSUME AudioInv, [AudioNext]_audioVars
             PROVE  AudioInv'
  OBVIOUS
<1>1. CASE UNCHANGED audioVars
  BY <1>1 DEF audioVars, AudioInv, AudioTyped
<1>2. CASE AudioNext
  BY <1>2, HearStep, ApplyStep, BindStep, LossStep, StartStep, StartFailsStep, ReadyStep,
     StopStep, PickStep, AgainStep DEF AudioNext
<1> QED BY <1>1, <1>2

\* Every variable of the audio part keeps to its type.
THEOREM AudioTypeCorrect == AudioSpec => []AudioTypeOK
<1>1. AudioInv => AudioTypeOK
  BY DEF AudioInv, AudioTyped, AudioTypeOK, ATypes, PwTypes, PastTypes, Files
<1> QED BY <1>1, AudioStarts, AudioStep, PTL DEF AudioSpec

\* The default never stays on an output whose client is gone, however takes,
\* departures, the user's choices, losses of PipeWire and the late events of all
\* of them interleave, but for the outputs whose history says why they are
\* adrift (audio_give_back_default, on_md_property).
THEOREM NeverOrphaned == AudioSpec => []NotOrphaned
<1>1. AudioInv => NotOrphaned
  BY DEF AudioInv, Kept, NotOrphaned, Settled, Connected
<1> QED BY <1>1, AudioStarts, AudioStep, PTL DEF AudioSpec

\* When the last client has left, the desktop has the output the user chose
\* last, or one adrift, as long as every choice was seen in time, for any number
\* of clients and requests under way (sremfb_audio_stop, audio_take_default).
THEOREM ChoiceAlwaysBack == AudioSpec => []ChoiceComesBack
<1>1. AudioInv => ChoiceComesBack
  <2> SUFFICES ASSUME AudioInv, Settled, A.live = <<>>, ~past.crossed
               PROVE  pw.def \in {wish} \cup past.adrift
    BY DEF ChoiceComesBack
  <2>1. ToSet(A.live) = {} /\ Kept(A, pw, past) /\ ChoiceMeant(A, pw, wish)
    BY NoneThere DEF AudioInv
  <2> QED BY <2>1 DEF Kept, ChoiceMeant, Settled, Connected
<1> QED BY <1>1, AudioStarts, AudioStep, PTL DEF AudioSpec

(***************************************************************************)
(* The components side by side.                                            *)
(***************************************************************************)
\* A step of one component is a step or a stutter of each of the others.
LEMMA DevicesStep ==
  [Next]_devicesVars => [LayoutNext]_layoutVars /\ [InputNext]_inputVars
BY DEF Next, devicesVars

\* The restore and the pointer each keep a mirror of mutter's monitors, and
\* neither is ever left behind: a refresh that is due is under way (refresh
\* and on_state of layout.c, layout_refresh and on_layout_reply of input.c).
THEOREM RefreshAlwaysArmed == Spec => []RefreshArmed
<1>1. Init => RestoreInv /\ MirrorInv
  BY RestoreStart, MirrorStart DEF Init
<1>2. RestoreInv /\ MirrorInv /\ [Next]_devicesVars => RestoreInv' /\ MirrorInv'
  BY DevicesStep, RestoreStep, MirrorStep
<1>3. RestoreInv /\ MirrorInv => RefreshArmed
  BY MirrorCurrent DEF RestoreInv, RefreshArmed
<1> QED BY <1>1, <1>2, <1>3, PTL DEF Spec
=============================================================================
