----------------------------- MODULE ViewProofs -----------------------------
(***************************************************************************)
(* Proofs about View, for every picture, every length of the damage list   *)
(* and every patience with the decoder, and for any number of messages,    *)
(* connections, user events and failed pushes.                             *)
(***************************************************************************)
EXTENDS View, FiniteSetTheorems, SequenceTheorems, WellFoundedInduction, TLAPS

(***************************************************************************)
(* The inductive invariant.                                                *)
(***************************************************************************)
Frames == Pictures \cup {None}
FbStates ==
  [gen : Nat, input : BOOLEAN, blanked : BOOLEAN, pixels : Frames, damage : Seq(Spans),
   all : BOOLEAN]
NetStates ==
  [pc : {"down", "open", "loop", "wake", "push", "shut", "gone"},
   next : {"down", "open", "loop"}, fd : BOOLEAN, input : BOOLEAN, batch : BOOLEAN,
   h264 : BOOLEAN, late : Frames, silent : Nat]
WakeStates == [pending : BOOLEAN, queued : {0, 1}, missed : BOOLEAN]
MainStates ==
  [pc : {"wait", "pull", "upload", "present"}, gen : Int, tex : Frames, up : BOOLEAN,
   blanked : BOOLEAN, input : BOOLEAN]
HandStates ==
  [down : SUBSET {"KEY", "BUTTON", "PAD"}, host : BOOLEAN, rctrl : BOOLEAN, combo : BOOLEAN,
   captured : BOOLEAN, focus : BOOLEAN]
SrvStates == [sent : Frames, h264 : BOOLEAN, held : SUBSET Held, cut : BOOLEAN]

Typed ==
  /\ fb \in FbStates /\ net \in NetStates /\ wake \in WakeStates /\ main \in MainStates
  /\ hand \in HandStates /\ srv \in SrvStates /\ screen \in Pictures
  /\ Len(fb.damage) <= DamageMax /\ net.silent < SilentMax

\* wake_pending is a token: whoever is about to push, the event in SDL's queue and the main
\* thread on its way to clear the flag each have it, and there is one.
Token ==
  /\ net.pc = "push" \/ wake.queued = 1 \/ main.pc = "pull" => wake.pending
  /\ net.pc = "push" => wake.queued = 0 /\ main.pc # "pull"
  /\ wake.queued = 1 => main.pc # "pull"

\* Where the network thread is, or will be once it has woken the main thread.
At == IF net.pc \in {"wake", "push"} THEN net.next ELSE net.pc
Streaming == At \in {"open", "loop"}

\* A texture is of its generation of the picture, and there is one if there is a picture.
Generations ==
  /\ main.gen <= fb.gen
  /\ main.gen = fb.gen => (main.tex = None <=> fb.pixels = None)

\* A unit the decoder keeps is the last the server sent, in an episode that is not over.
Decoded ==
  /\ Streaming => fb.pixels # None /\ srv.sent # None
  /\ Streaming /\ net.late = None => fb.pixels = srv.sent
  /\ Streaming /\ net.late # None => net.late = srv.sent /\ srv.h264

\* Only an open connection whose hello confirmed INPUT holds anything, and the main thread
\* has seen that hello.
Holds ==
  /\ net.fd => At \in {"loop", "shut"}
  /\ At \in {"open", "loop", "shut"} => fb.input = net.input
  /\ srv.held # {} => net.fd /\ net.input /\ main.input

ViewInv ==
  Typed /\ Token /\ Generations /\ TextureTrue /\ Decoded /\ Holds /\ FocusReleases

-----------------------------------------------------------------------------
(* Rows, pictures and damage. *)

LEMMA LeastIn ==
  ASSUME NEW S \in SUBSET Nat, S # {}
  PROVE  Min(S) \in S /\ \A y \in S : Min(S) <= y
<1>1. PICK x \in S : \A y \in S : ~(<<y, x>> \in OpToRel(<, Nat))
  BY NatLessThanWellFounded, WFMin
<1>2. \A y \in S : ~(y < x)
  BY <1>1 DEF OpToRel
<1>3. \A y \in S : x <= y
  BY <1>2
<1> QED
  BY <1>3 DEF Min

\* The largest of some rows: counted from the last row it is the least.
LEMMA GreatestIn ==
  ASSUME NEW S \in SUBSET (1 .. Rows), S # {}
  PROVE  Max(S) \in S /\ \A y \in S : Max(S) >= y
<1> DEFINE T == {Rows - y : y \in S}
<1>1. Rows \in Nat
  BY ViewAssumption
<1>2. T \in SUBSET Nat /\ T # {}
  <2>1. \A y \in S : Rows - y \in Nat
    BY <1>1
  <2> QED
    BY <2>1
<1>3. PICK m \in T : \A y \in T : m <= y
  BY <1>2, LeastIn
<1>4. PICK x \in S : m = Rows - x
  BY <1>3
<1>5. ASSUME NEW y \in S PROVE x >= y
  <2>1. Rows - x <= Rows - y
    BY <1>3, <1>4
  <2> QED
    BY <2>1, <1>1
<1> QED
  BY <1>5 DEF Max

LEMMA NotNone ==
  ASSUME NEW f, DOMAIN f = 1 .. Rows
  PROVE  f # None
<1>1. 1 \in 1 .. Rows
  BY ViewAssumption
<1>2. DOMAIN None = {}
  BY DEF None
<1> QED
  BY <1>1, <1>2

LEMMA PicturesReal == \A p \in Pictures : p # None
  BY NotNone DEF Pictures

LEMMA PlainReal ==
  /\ \A c \in Colours : Plain(c) \in Pictures /\ Plain(c) # None
  /\ Plain(Blurred) # None
<1>1. \A c : DOMAIN Plain(c) = 1 .. Rows
  BY DEF Plain
<1> QED
  BY <1>1, NotNone DEF Plain, Pictures

Inside(s, r) == s[1] <= r /\ r <= s[2]

LEMMA HullCovers ==
  ASSUME NEW S \in SUBSET Spans, S # {}
  PROVE  Hull(S) \in Spans /\ \A t \in S : \A r \in 1 .. Rows : Inside(t, r) => Inside(Hull(S), r)
<1> DEFINE A == {s[1] : s \in S}
<1> DEFINE B == {s[2] : s \in S}
<1>1. \A s \in S : s[1] \in 1 .. Rows /\ s[2] \in 1 .. Rows /\ s[1] <= s[2]
  BY DEF Spans
<1>2. A \in SUBSET Nat /\ A # {} /\ B \in SUBSET (1 .. Rows) /\ B # {}
  BY <1>1
<1>3. Min(A) \in A /\ \A y \in A : Min(A) <= y
  BY <1>2, LeastIn
<1>4. Max(B) \in B /\ \A y \in B : Max(B) >= y
  BY <1>2, GreatestIn
<1>5. Hull(S) = <<Min(A), Max(B)>>
  BY DEF Hull
<1>6. Min(A) \in 1 .. Rows /\ Max(B) \in 1 .. Rows
  BY <1>1, <1>3, <1>4
<1>7. ASSUME NEW t \in S
      PROVE  Min(A) <= t[1] /\ t[2] <= Max(B)
  BY <1>3, <1>4
<1> HIDE DEF A, B
<1>8. Min(A) <= Max(B)
  BY <1>1, <1>6, <1>7
<1>9. Hull(S) \in Spans
  BY <1>5, <1>6, <1>8 DEF Spans
<1>10. ASSUME NEW t \in S, NEW r \in 1 .. Rows, Inside(t, r)
       PROVE  Inside(Hull(S), r)
  <2>1. Hull(S)[1] = Min(A) /\ Hull(S)[2] = Max(B)
    BY <1>5
  <2> QED
    BY <2>1, <1>1, <1>6, <1>7, <1>10 DEF Inside
<1> QED
  BY <1>9, <1>10

\* Row r is to be uploaded, by the list d.
Listed(d, r) == \E i \in DOMAIN d : Inside(d[i], r)

LEMMA CoveredListed ==
  /\ \A r : Covered(r) <=> Listed(fb.damage, r)
  /\ \A r : Covered(r)' <=> Listed(fb'.damage, r)
  BY DEF Covered, Listed, Inside, Recorded

\* damage_add loses no row.
LEMMA DamageAddKeeps ==
  ASSUME fb \in FbStates, Len(fb.damage) <= DamageMax, NEW s \in Spans
  PROVE  /\ DamageAdd(s) \in Seq(Spans) /\ Len(DamageAdd(s)) <= DamageMax
         /\ ~fb.all => \A r \in 1 .. Rows :
              Listed(fb.damage, r) \/ Inside(s, r) => Listed(DamageAdd(s), r)
<1> DEFINE d == fb.damage
<1>1. d \in Seq(Spans) /\ Len(d) \in Nat /\ DamageMax \in Nat /\ DamageMax >= 1
  BY ViewAssumption DEF FbStates
<1>2. CASE fb.all
  BY <1>1, <1>2 DEF DamageAdd
<1>3. CASE ~fb.all /\ Len(d) = DamageMax
  <2> DEFINE S == Recorded \cup {s}
  <2>1. S \in SUBSET Spans /\ S # {}
    BY <1>1 DEF Recorded
  <2>2. DamageAdd(s) = <<Hull(S)>>
    BY <1>3 DEF DamageAdd
  <2>3. Hull(S) \in Spans /\ \A t \in S : \A r \in 1 .. Rows : Inside(t, r) => Inside(Hull(S), r)
    BY <2>1, HullCovers
  <2>4. \A i \in DOMAIN d : d[i] \in S
    BY DEF Recorded
  <2> HIDE DEF S
  <2>5. DamageAdd(s) \in Seq(Spans) /\ Len(DamageAdd(s)) = 1 /\ DamageAdd(s)[1] = Hull(S)
        /\ DOMAIN DamageAdd(s) = {1}
    BY <2>2, <2>3
  <2>6. s \in S
    BY DEF S
  <2>7. ASSUME NEW r \in 1 .. Rows, Listed(d, r) \/ Inside(s, r)
        PROVE  Listed(DamageAdd(s), r)
    <3>1. Inside(Hull(S), r)
      BY <2>3, <2>4, <2>6, <2>7 DEF Listed
    <3> QED
      BY <3>1, <2>5 DEF Listed
  <2> QED
    BY <2>5, <2>7, <1>1
<1>4. CASE ~fb.all /\ Len(d) # DamageMax
  <2>1. DamageAdd(s) = Append(d, s)
    BY <1>4 DEF DamageAdd
  <2>2. /\ DamageAdd(s) \in Seq(Spans) /\ Len(DamageAdd(s)) = Len(d) + 1
        /\ DOMAIN DamageAdd(s) = 1 .. Len(d) + 1
        /\ DamageAdd(s)[Len(d) + 1] = s
        /\ \A i \in 1 .. Len(d) : DamageAdd(s)[i] = d[i]
    BY <2>1, <1>1
  <2>3. DOMAIN d = 1 .. Len(d) /\ Len(d) + 1 \in 1 .. Len(d) + 1 /\ 1 .. Len(d) \subseteq 1 .. Len(d) + 1
    BY <1>1
  <2>4. ASSUME NEW r \in 1 .. Rows, Listed(d, r) \/ Inside(s, r)
        PROVE  Listed(DamageAdd(s), r)
    BY <2>2, <2>3, <2>4 DEF Listed
  <2>5. Len(DamageAdd(s)) <= DamageMax
    BY <2>2, <1>1, <1>4
  <2> QED
    BY <2>2, <2>4, <2>5
<1> QED
  BY <1>2, <1>3, <1>4

-----------------------------------------------------------------------------
(* The parts of the invariant that a step leaves alone. *)

\* Neither the picture, nor its damage, nor the texture changes.
LEMMA PicturesStay ==
  ASSUME Generations, TextureTrue,
         fb'.gen = fb.gen, fb'.pixels = fb.pixels, fb'.damage = fb.damage, fb'.all = fb.all,
         main'.gen = main.gen, main'.tex = main.tex
  PROVE  Generations' /\ TextureTrue'
<1>1. \A r : Covered(r)' <=> Covered(r)
  BY CoveredListed
<1>2. Generations'
  BY DEF Generations
<1>3. TextureTrue'
  BY <1>1 DEF TextureTrue
<1> QED
  BY <1>2, <1>3

\* The network thread stays with the stream, or stays away from it.
LEMMA DecodedStays ==
  ASSUME Decoded, Streaming' => Streaming,
         fb'.pixels = fb.pixels, net'.late = net.late, srv'.sent = srv.sent, srv'.h264 = srv.h264
  PROVE  Decoded'
  BY DEF Decoded

LEMMA HoldsStays ==
  ASSUME Holds, FocusReleases, net'.fd = net.fd, net'.input = net.input, fb'.input = fb.input,
         main'.input = main.input, srv'.held = srv.held, srv'.cut = srv.cut,
         hand'.focus = hand.focus,
         At' = At \/ (At = "loop" /\ At' = "shut")
  PROVE  Holds' /\ FocusReleases'
  BY DEF Holds, FocusReleases

\* The user's hand: nothing changes but what is held, and that only over a connection.
LEMMA HandKeeps ==
  ASSUME ViewInv, UNCHANGED <<fb, net, wake, main>>, hand' \in HandStates, screen' \in Pictures,
         srv' \in SrvStates, srv'.sent = srv.sent, srv'.h264 = srv.h264,
         srv'.held = srv.held \/ (main.input /\ net.fd /\ net.input),
         ~hand'.focus => srv'.held = {} \/ srv'.cut
  PROVE  ViewInv'
<1>1. Typed'
  BY DEF ViewInv, Typed
<1>2. Token'
  BY DEF ViewInv, Token
<1>3. Generations' /\ TextureTrue'
  BY PicturesStay DEF ViewInv
<1>4. Decoded'
  BY DecodedStays DEF ViewInv, Streaming, At
<1>5. Holds'
  BY DEF ViewInv, Holds, At
<1>6. FocusReleases'
  BY DEF FocusReleases
<1> QED
  BY <1>1, <1>2, <1>3, <1>4, <1>5, <1>6 DEF ViewInv

\* in_flush sends what is held to a connection that takes it, or the message is lost on it.
LEMMA FlushGives ==
  ASSUME ViewInv, NEW held \in SUBSET Held, Flush(held)
  PROVE  /\ srv' \in SrvStates /\ srv'.sent = srv.sent /\ srv'.h264 = srv.h264
         /\ srv'.held = srv.held \/ (main.input /\ net.fd /\ net.input)
         /\ srv.cut => srv'.cut
         /\ held = {} => srv'.held = {} \/ srv'.cut
<1>1. srv \in SrvStates
  BY DEF ViewInv, Typed
<1>2. srv.held # {} => net.fd /\ net.input /\ main.input
  BY DEF ViewInv, Holds
<1>3. CASE srv' = [srv EXCEPT !.held = IF main.input /\ net.fd /\ net.input THEN held ELSE srv.held]
  <2>1. /\ srv'.sent = srv.sent /\ srv'.h264 = srv.h264 /\ srv'.cut = srv.cut
        /\ srv'.held = IF main.input /\ net.fd /\ net.input THEN held ELSE srv.held
        /\ srv' \in SrvStates
    BY <1>1, <1>3 DEF SrvStates
  <2> QED
    BY <2>1, <1>2
<1>4. CASE srv' = [srv EXCEPT !.cut = TRUE]
  <2>1. TRUE \in BOOLEAN
    OBVIOUS
  <2>2. /\ srv'.sent = srv.sent /\ srv'.h264 = srv.h264 /\ srv'.cut
        /\ srv'.held = srv.held /\ srv' \in SrvStates
    BY <2>1, <1>1, <1>4 DEF SrvStates
  <2> QED
    BY <2>2
<1> QED
  BY <1>3, <1>4 DEF Flush

-----------------------------------------------------------------------------
(* The user. *)

LEMMA HandFields ==
  ASSUME ViewInv
  PROVE  /\ hand \in HandStates /\ hand.down \in SUBSET {"KEY", "BUTTON", "PAD"}
         /\ srv.held \in SUBSET Held /\ srv \in SrvStates /\ main.input \in BOOLEAN
         /\ Device \in Held /\ screen \in Pictures /\ Rendered \in Pictures
         /\ (~hand.focus => srv.held = {} \/ srv.cut)
<1>1. hand \in HandStates /\ srv \in SrvStates /\ main \in MainStates /\ screen \in Pictures
  BY DEF ViewInv, Typed
<1>2. Device \in Held
  BY DEF Device, Held
<1>3. Rendered \in Pictures
  <2>1. main.tex \in Pictures \cup {None} /\ Plain(Clear) \in Pictures
    BY <1>1, PlainReal, ViewAssumption DEF MainStates, Frames
  <2> QED
    BY <2>1 DEF Rendered, Visible
<1> QED
  BY <1>1, <1>2, <1>3 DEF ViewInv, FocusReleases, HandStates, SrvStates, MainStates

LEMMA UserKeeps ==
  ASSUME ViewInv, User
  PROVE  ViewInv'
<1> DEFINE Sent(held) == Flush(held) /\ held \in SUBSET Held /\ (~hand'.focus => held = {} \/ srv.cut)
<1>1. /\ hand \in HandStates /\ srv.held \in SUBSET Held /\ srv \in SrvStates
      /\ main.input \in BOOLEAN /\ Device \in Held
      /\ (~hand.focus => srv.held = {} \/ srv.cut)
  BY HandFields
<1>2. ASSUME NEW held, Sent(held), UNCHANGED <<fb, net, wake, main, screen>>, hand' \in HandStates
      PROVE  ViewInv'
  <2>1. /\ srv' \in SrvStates /\ srv'.sent = srv.sent /\ srv'.h264 = srv.h264
        /\ srv'.held = srv.held \/ (main.input /\ net.fd /\ net.input)
        /\ srv.cut => srv'.cut
        /\ held = {} => srv'.held = {} \/ srv'.cut
    BY <1>2, FlushGives
  <2>2. screen' \in Pictures
    BY <1>2, HandFields
  <2> QED
    BY <1>2, <2>1, <2>2, HandKeeps
<1>3. ASSUME UNCHANGED <<fb, net, wake, main, srv>>, hand' \in HandStates, screen' \in Pictures,
             hand'.focus \/ ~hand.focus
      PROVE  ViewInv'
  BY <1>1, <1>3, HandKeeps
<1>4. "KEY" \in Held /\ "PAD" \in Held /\ {} \in SUBSET Held
  BY DEF Held
<1> HIDE DEF Sent
<1>5. CASE KeyDown
  <2> DEFINE held == IF hand.rctrl THEN srv.held ELSE srv.held \cup {"KEY"}
  <2>1. /\ Flush(held) /\ hand.focus /\ UNCHANGED <<fb, net, wake, main, screen>>
        /\ hand' = [hand EXCEPT !.down = hand.down \cup {"KEY"},
                                !.combo = hand.combo \/ (main.input /\ hand.rctrl)]
    BY <1>5 DEF KeyDown
  <2>2. hand'.focus = hand.focus /\ hand' \in HandStates
    BY <2>1, <1>1 DEF HandStates
  <2>3. held \in SUBSET Held
    BY <1>1, <1>4
  <2>4. Sent(held)
    BY <2>1, <2>2, <2>3 DEF Sent
  <2> HIDE DEF held
  <2> QED
    BY <2>1, <2>2, <2>4, <1>2
<1>6. CASE KeyUp
  <2> DEFINE held == IF hand.rctrl THEN srv.held ELSE srv.held \ {"KEY"}
  <2>1. /\ Flush(held) /\ UNCHANGED <<fb, net, wake, main, screen>>
        /\ hand' = [hand EXCEPT !.down = hand.down \ {"KEY"}]
    BY <1>6 DEF KeyUp
  <2>2. hand'.focus = hand.focus /\ hand' \in HandStates
    BY <2>1, <1>1 DEF HandStates
  <2>3. held \in SUBSET Held /\ (~hand'.focus => held = {} \/ srv.cut)
    BY <1>1, <2>2
  <2>4. Sent(held)
    BY <2>1, <2>3 DEF Sent
  <2> HIDE DEF held
  <2> QED
    BY <2>1, <2>2, <2>4, <1>2
<1>7. CASE ButtonDown
  <2> DEFINE held == srv.held \cup {Device}
  <2>1. /\ Flush(held) /\ hand.focus /\ UNCHANGED <<fb, net, wake, main, screen>>
        /\ hand' = [hand EXCEPT !.down = hand.down \cup {"BUTTON"}]
    BY <1>7 DEF ButtonDown
  <2>2. hand'.focus = hand.focus /\ hand' \in HandStates
    BY <2>1, <1>1 DEF HandStates
  <2>3. held \in SUBSET Held
    BY <1>1
  <2>4. Sent(held)
    BY <2>1, <2>2, <2>3 DEF Sent
  <2> HIDE DEF held
  <2> QED
    BY <2>1, <2>2, <2>4, <1>2
<1>8. CASE ButtonUp
  <2> DEFINE held == srv.held \ {Device}
  <2>1. /\ Flush(held) /\ UNCHANGED <<fb, net, wake, main, screen>>
        /\ hand' = [hand EXCEPT !.down = hand.down \ {"BUTTON"}]
    BY <1>8 DEF ButtonUp
  <2>2. hand'.focus = hand.focus /\ hand' \in HandStates
    BY <2>1, <1>1 DEF HandStates
  <2>3. held \in SUBSET Held /\ (~hand'.focus => held = {} \/ srv.cut)
    BY <1>1, <2>2
  <2>4. Sent(held)
    BY <2>1, <2>3 DEF Sent
  <2> HIDE DEF held
  <2> QED
    BY <2>1, <2>2, <2>4, <1>2
<1>9. CASE PadButton
  <2> DEFINE held == srv.held \cup {"PAD"}
  <2>1. /\ Flush(held) /\ hand.focus /\ UNCHANGED <<fb, net, wake, main, screen>>
        /\ hand' = [hand EXCEPT !.down = hand.down \cup {"PAD"}]
    BY <1>9 DEF PadButton
  <2>2. hand'.focus = hand.focus /\ hand' \in HandStates
    BY <2>1, <1>1 DEF HandStates
  <2>3. held \in SUBSET Held
    BY <1>1, <1>4
  <2>4. Sent(held)
    BY <2>1, <2>2, <2>3 DEF Sent
  <2> HIDE DEF held
  <2> QED
    BY <2>1, <2>2, <2>4, <1>2
<1>10. CASE PadNeutral
  <2> DEFINE held == srv.held \ {"PAD"}
  <2>1. /\ Flush(held) /\ UNCHANGED <<fb, net, wake, main, screen>>
        /\ hand' = [hand EXCEPT !.down = hand.down \ {"PAD"}]
    BY <1>10 DEF PadNeutral
  <2>2. hand'.focus = hand.focus /\ hand' \in HandStates
    BY <2>1, <1>1 DEF HandStates
  <2>3. held \in SUBSET Held /\ (~hand'.focus => held = {} \/ srv.cut)
    BY <1>1, <2>2
  <2>4. Sent(held)
    BY <2>1, <2>3 DEF Sent
  <2> HIDE DEF held
  <2> QED
    BY <2>1, <2>2, <2>4, <1>2
<1>11. CASE HostDown
  <2>1. /\ hand' = [hand EXCEPT !.host = TRUE, !.rctrl = hand.rctrl \/ main.input,
                                !.combo = hand.combo /\ ~main.input]
        /\ UNCHANGED <<fb, net, wake, main, screen, srv>> /\ hand.focus
    BY <1>11 DEF HostDown
  <2>2. hand'.focus = hand.focus /\ hand' \in HandStates
    BY <2>1, <1>1 DEF HandStates
  <2>3. screen' \in Pictures
    BY <2>1, HandFields
  <2> QED
    BY <2>1, <2>2, <2>3, <1>3
<1>12. CASE HostUp
  <2> DEFINE tap == main.input /\ hand.rctrl /\ ~hand.combo
  <2> DEFINE held == IF tap /\ hand.captured THEN {} ELSE srv.held
  <2>1. /\ Flush(held) /\ UNCHANGED <<fb, net, wake, main, screen>>
        /\ hand' = [hand EXCEPT !.host = FALSE, !.rctrl = hand.rctrl /\ ~main.input,
                                !.captured = IF tap THEN ~hand.captured ELSE hand.captured]
    BY <1>12 DEF HostUp
  <2>2. hand'.focus = hand.focus /\ hand' \in HandStates
    BY <2>1, <1>1 DEF HandStates
  <2>3. held \in SUBSET Held /\ (~hand'.focus => held = {} \/ srv.cut)
    BY <1>1, <1>4, <2>2
  <2>4. Sent(held)
    BY <2>1, <2>3 DEF Sent
  <2> HIDE DEF held
  <2> QED
    BY <2>1, <2>2, <2>4, <1>2
<1>13. CASE FocusLost
  <2>1. /\ Flush({}) /\ UNCHANGED <<fb, net, wake, main, screen>>
        /\ hand' = [hand EXCEPT !.down = {}, !.host = FALSE, !.rctrl = FALSE, !.focus = FALSE,
                                !.captured = hand.captured /\ ~main.input]
    BY <1>13 DEF FocusLost
  <2>2. hand' \in HandStates
    BY <2>1, <1>1 DEF HandStates
  <2>3. Sent({})
    BY <2>1, <1>4 DEF Sent
  <2> QED
    BY <2>1, <2>2, <2>3, <1>2
<1>14. CASE FocusGained
  <2>1. hand' = [hand EXCEPT !.focus = TRUE] /\ UNCHANGED <<fb, net, wake, main, screen, srv>>
    BY <1>14 DEF FocusGained
  <2>2. hand'.focus /\ hand' \in HandStates
    BY <2>1, <1>1 DEF HandStates
  <2>3. screen' \in Pictures
    BY <2>1, HandFields
  <2> QED
    BY <2>1, <2>2, <2>3, <1>3
<1>15. CASE Expose
  <2>1. screen' = Rendered /\ UNCHANGED <<fb, net, wake, main, hand, srv>>
    BY <1>15 DEF Expose
  <2>2. screen' \in Pictures
    BY <2>1, HandFields
  <2> QED
    BY <2>1, <2>2, <1>1, <1>3
<1> QED
  BY <1>5, <1>6, <1>7, <1>8, <1>9, <1>10, <1>11, <1>12, <1>13, <1>14, <1>15 DEF User

-----------------------------------------------------------------------------
(* The main thread. *)

LEMMA TakeWakeKeeps ==
  ASSUME ViewInv, TakeWake
  PROVE  ViewInv'
<1>1. Typed /\ wake \in WakeStates /\ main \in MainStates
  BY DEF ViewInv, Typed
<1>2. /\ main.pc = "wait" /\ wake.queued = 1
      /\ wake' = [wake EXCEPT !.queued = 0] /\ main' = [main EXCEPT !.pc = "pull"]
      /\ UNCHANGED <<fb, net, screen, hand, srv>>
  BY <1>1 DEF TakeWake, WakeStates
<1>3. /\ wake'.queued = 0 /\ wake'.pending = wake.pending /\ wake' \in WakeStates
      /\ main'.pc = "pull" /\ main'.gen = main.gen /\ main'.tex = main.tex
      /\ main'.input = main.input /\ main' \in MainStates
  BY <1>1, <1>2 DEF WakeStates, MainStates
<1>4. Typed'
  BY <1>1, <1>2, <1>3 DEF Typed
<1>5. Token'
  BY <1>2, <1>3 DEF ViewInv, Token
<1>6. Generations' /\ TextureTrue'
  BY <1>2, <1>3, PicturesStay DEF ViewInv
<1>7. Decoded'
  BY <1>2, <1>3, DecodedStays DEF ViewInv, Streaming, At
<1>8. Holds' /\ FocusReleases'
  BY <1>2, <1>3, HoldsStays DEF ViewInv, At
<1> QED
  BY <1>4, <1>5, <1>6, <1>7, <1>8 DEF ViewInv

LEMMA ClearWakeKeeps ==
  ASSUME ViewInv, ClearWake
  PROVE  ViewInv'
<1>1. Typed /\ wake \in WakeStates /\ main \in MainStates
  BY DEF ViewInv, Typed
<1>2. /\ main.pc = "pull"
      /\ wake' = [wake EXCEPT !.pending = FALSE] /\ main' = [main EXCEPT !.pc = "upload"]
      /\ UNCHANGED <<fb, net, screen, hand, srv>>
  BY DEF ClearWake
<1>3. /\ wake'.queued = wake.queued /\ wake' \in WakeStates
      /\ main'.pc = "upload" /\ main'.gen = main.gen /\ main'.tex = main.tex
      /\ main'.input = main.input /\ main' \in MainStates
  BY <1>1, <1>2 DEF WakeStates, MainStates
<1>4. Typed'
  BY <1>1, <1>2, <1>3 DEF Typed
<1>5. Token'
  BY <1>1, <1>2, <1>3 DEF ViewInv, Token
<1>6. Generations' /\ TextureTrue'
  BY <1>2, <1>3, PicturesStay DEF ViewInv
<1>7. Decoded'
  BY <1>2, <1>3, DecodedStays DEF ViewInv, Streaming, At
<1>8. Holds' /\ FocusReleases'
  BY <1>2, <1>3, HoldsStays DEF ViewInv, At
<1> QED
  BY <1>4, <1>5, <1>6, <1>7, <1>8 DEF ViewInv

\* The upload makes the texture the picture, row by row or as a whole.
LEMMA UploadTrue ==
  ASSUME ViewInv
  PROVE  /\ Uploaded \in Frames
         /\ Uploaded = None <=> fb.pixels = None
         /\ Uploaded # None => \A r \in 1 .. Rows : Uploaded[r] = fb.pixels[r]
<1>1. /\ fb.pixels \in Pictures \cup {None} /\ main.tex \in Pictures \cup {None}
      /\ fb.all \in BOOLEAN
  BY DEF ViewInv, Typed, FbStates, MainStates, Frames
<1>2. CASE fb.gen # main.gen
  <2>1. Texture = IF fb.pixels = None THEN None ELSE Plain(Blurred)
    BY <1>2 DEF Texture
  <2>2. Uploaded = fb.pixels
    BY <2>1, <1>2, PlainReal DEF Uploaded
  <2> QED
    BY <2>2, <1>1 DEF Frames
<1>3. CASE fb.gen = main.gen
  <2>1. Texture = main.tex /\ (main.tex = None <=> fb.pixels = None)
    BY <1>3 DEF Texture, ViewInv, Generations
  <2>2. CASE fb.pixels = None
    BY <2>1, <2>2 DEF Uploaded, Frames
  <2>3. CASE fb.pixels # None /\ fb.all
    <3>1. Uploaded = fb.pixels
      BY <2>1, <2>3 DEF Uploaded
    <3> QED
      BY <3>1, <1>1 DEF Frames
  <2>4. CASE fb.pixels # None /\ ~fb.all
    <3>1. Uploaded = [r \in 1 .. Rows |-> IF Covered(r) THEN fb.pixels[r] ELSE main.tex[r]]
      BY <2>1, <2>4, <1>3 DEF Uploaded
    <3>2. \A r \in 1 .. Rows : main.tex[r] = fb.pixels[r] \/ Covered(r)
      BY <2>1, <2>4, <1>3 DEF ViewInv, TextureTrue
    <3>3. \A r \in 1 .. Rows : Uploaded[r] = fb.pixels[r]
      BY <3>1, <3>2
    <3>4. Uploaded \in Pictures
      <4>1. \A r \in 1 .. Rows : fb.pixels[r] \in Colours
        BY <1>1, <2>4 DEF Pictures
      <4>2. Uploaded = [r \in 1 .. Rows |-> Uploaded[r]]
        BY <3>1
      <4> QED
        BY <4>1, <4>2, <3>3 DEF Pictures
    <3> QED
      BY <2>4, <3>3, <3>4, PicturesReal DEF Frames
  <2> QED
    BY <1>1, <2>2, <2>3, <2>4
<1> QED
  BY <1>2, <1>3

LEMMA PullKeeps ==
  ASSUME ViewInv, Pull
  PROVE  ViewInv'
<1>1. /\ Typed /\ fb \in FbStates /\ hand \in HandStates /\ main \in MainStates
      /\ fb.gen \in Nat /\ fb.blanked \in BOOLEAN /\ fb.input \in BOOLEAN
      /\ fb.all \in BOOLEAN /\ main.input \in BOOLEAN /\ hand.captured \in BOOLEAN
  BY DEF ViewInv, Typed, FbStates, MainStates, HandStates
<1>2. /\ main.pc = "upload"
      /\ main' = [pc |-> "present", gen |-> fb.gen, tex |-> Uploaded, up |-> fb.pixels # None,
                  blanked |-> fb.blanked, input |-> fb.input]
      /\ fb' = [fb EXCEPT !.all = FALSE, !.damage = <<>>]
      /\ hand' = [hand EXCEPT !.captured = hand.captured /\ (fb.input \/ ~main.input)]
      /\ UNCHANGED <<net, wake, screen, srv>>
  BY DEF Pull, InputStateChanged
<1>3. /\ Uploaded \in Frames
      /\ Uploaded = None <=> fb.pixels = None
      /\ Uploaded # None => \A r \in 1 .. Rows : Uploaded[r] = fb.pixels[r]
  BY UploadTrue
<1>4. /\ fb'.gen = fb.gen /\ fb'.pixels = fb.pixels /\ fb'.input = fb.input
      /\ fb'.damage = <<>> /\ fb' \in FbStates
  <2>1. <<>> \in Seq(Spans) /\ FALSE \in BOOLEAN
    OBVIOUS
  <2>2. /\ fb'.gen = fb.gen /\ fb'.pixels = fb.pixels /\ fb'.input = fb.input
        /\ fb'.damage = <<>>
    BY <1>1, <1>2 DEF FbStates
  <2>3. fb' \in FbStates
    BY <2>1, <1>1, <1>2 DEF FbStates
  <2> QED
    BY <2>2, <2>3
<1>5. hand'.focus = hand.focus /\ hand' \in HandStates
  BY <1>1, <1>2 DEF HandStates
<1>6. /\ main'.pc = "present" /\ main'.gen = fb.gen /\ main'.tex = Uploaded
      /\ main'.input = fb.input
  BY <1>2
<1>7. main' \in MainStates
  <2>1. (fb.pixels # None) \in BOOLEAN /\ fb.gen \in Int
    BY <1>1
  <2> QED
    BY <2>1, <1>1, <1>2, <1>3 DEF MainStates
<1>8. Typed'
  <2>1. Len(fb'.damage) <= DamageMax
    BY <1>4, ViewAssumption
  <2> QED
    BY <2>1, <1>1, <1>2, <1>4, <1>5, <1>7 DEF Typed
<1>9. Token'
  BY <1>2, <1>6 DEF ViewInv, Token
<1>10. Generations' /\ TextureTrue'
  <2>1. Generations'
    BY <1>1, <1>3, <1>4, <1>6 DEF Generations
  <2>2. TextureTrue'
    BY <1>3, <1>4, <1>6 DEF TextureTrue
  <2> QED
    BY <2>1, <2>2
<1>11. Decoded'
  BY <1>2, <1>4, DecodedStays DEF ViewInv, Streaming, At
<1>12. Holds' /\ FocusReleases'
  <2>1. At' = At
    BY <1>2 DEF At
  <2>2. srv.held # {} => fb.input
    BY DEF ViewInv, Holds
  <2>3. Holds'
    BY <2>1, <2>2, <1>2, <1>4, <1>6 DEF ViewInv, Holds
  <2>4. FocusReleases'
    BY <1>2, <1>5 DEF ViewInv, FocusReleases
  <2> QED
    BY <2>3, <2>4
<1> QED
  BY <1>8, <1>9, <1>10, <1>11, <1>12 DEF ViewInv

LEMMA PresentKeeps ==
  ASSUME ViewInv, Present
  PROVE  ViewInv'
<1>1. Typed /\ main \in MainStates
  BY DEF ViewInv, Typed
<1>2. /\ main.pc = "present" /\ main' = [main EXCEPT !.pc = "wait"] /\ screen' = Rendered
      /\ UNCHANGED <<fb, net, wake, hand, srv>>
  BY DEF Present
<1>3. /\ main'.pc = "wait" /\ main'.gen = main.gen /\ main'.tex = main.tex
      /\ main'.input = main.input /\ main' \in MainStates
  BY <1>1, <1>2 DEF MainStates
<1>4. Typed'
  BY <1>1, <1>2, <1>3, HandFields DEF Typed
<1>5. Token'
  BY <1>2, <1>3 DEF ViewInv, Token
<1>6. Generations' /\ TextureTrue'
  BY <1>2, <1>3, PicturesStay DEF ViewInv
<1>7. Decoded'
  BY <1>2, <1>3, DecodedStays DEF ViewInv, Streaming, At
<1>8. Holds' /\ FocusReleases'
  BY <1>2, <1>3, HoldsStays DEF ViewInv, At
<1> QED
  BY <1>4, <1>5, <1>6, <1>7, <1>8 DEF ViewInv

-----------------------------------------------------------------------------
(* The network thread. *)

\* A step of the network thread that touches neither the picture nor what is held.
LEMMA NetKeeps ==
  ASSUME ViewInv, UNCHANGED <<fb, main, screen, hand, srv>>, net' \in NetStates,
         wake' \in WakeStates, Token', net'.silent = net.silent, net'.late = net.late,
         net'.input = net.input, net'.fd = net.fd,
         At' = At \/ (At = "loop" /\ At' = "shut")
  PROVE  ViewInv'
<1>1. Typed'
  BY DEF ViewInv, Typed
<1>2. Generations' /\ TextureTrue'
  BY PicturesStay DEF ViewInv
<1>3. Decoded'
  <2>1. Streaming' => Streaming
    BY DEF Streaming
  <2> QED
    BY <2>1, DecodedStays DEF ViewInv
<1>4. Holds' /\ FocusReleases'
  BY HoldsStays DEF ViewInv
<1> QED
  BY <1>1, <1>2, <1>3, <1>4 DEF ViewInv

LEMMA WakeKeeps ==
  ASSUME ViewInv, WakeExchange \/ WakePush \/ WakePushFails
  PROVE  ViewInv'
<1>1. net \in NetStates /\ wake \in WakeStates /\ main \in MainStates
  BY DEF ViewInv, Typed
<1>2. net.next \in {"down", "open", "loop"} /\ wake.pending \in BOOLEAN /\ wake.queued \in {0, 1}
  BY <1>1 DEF NetStates, WakeStates
<1>3. CASE WakeExchange
  <2>1. /\ net.pc = "wake" /\ wake' = [wake EXCEPT !.pending = TRUE]
        /\ net' = [net EXCEPT !.pc = IF wake.pending THEN net.next ELSE "push"]
        /\ UNCHANGED <<fb, main, screen, hand, srv>>
    BY <1>3 DEF WakeExchange
  <2>2. /\ wake'.pending = TRUE /\ wake'.queued = wake.queued /\ wake' \in WakeStates
    BY <2>1, <1>1 DEF WakeStates
  <2>3. /\ net'.pc = IF wake.pending THEN net.next ELSE "push"
        /\ net'.next = net.next /\ net'.silent = net.silent /\ net'.late = net.late
        /\ net'.input = net.input /\ net'.fd = net.fd /\ net' \in NetStates
    BY <2>1, <1>1, <1>2 DEF NetStates
  <2>4. At' = At
    BY <2>1, <2>3, <1>2 DEF At
  <2>5. Token'
    BY <2>1, <2>2, <2>3, <1>2 DEF ViewInv, Token
  <2> QED
    BY <2>1, <2>2, <2>3, <2>4, <2>5, NetKeeps
<1>4. CASE WakePush
  <2>1. /\ net.pc = "push" /\ wake' = [wake EXCEPT !.queued = wake.queued + 1, !.missed = FALSE]
        /\ net' = [net EXCEPT !.pc = net.next]
        /\ UNCHANGED <<fb, main, screen, hand, srv>>
    BY <1>4 DEF WakePush
  <2>2. wake.queued = 0 /\ wake.pending /\ main.pc # "pull"
    BY <2>1 DEF ViewInv, Token
  <2>3. wake'.pending = wake.pending /\ wake'.queued = 1 /\ wake' \in WakeStates
    <3>1. wake' = [wake EXCEPT !.queued = 1, !.missed = FALSE]
      BY <2>1, <2>2
    <3> QED
      BY <3>1, <1>1 DEF WakeStates
  <2>4. /\ net'.pc = net.next
        /\ net'.next = net.next /\ net'.silent = net.silent /\ net'.late = net.late
        /\ net'.input = net.input /\ net'.fd = net.fd /\ net' \in NetStates
    BY <2>1, <1>1, <1>2 DEF NetStates
  <2>5. At' = At
    BY <2>1, <2>4, <1>2 DEF At
  <2>6. Token'
    BY <2>1, <2>2, <2>3, <2>4, <1>2 DEF Token
  <2> QED
    BY <2>1, <2>3, <2>4, <2>5, <2>6, NetKeeps
<1>5. CASE WakePushFails
  <2>1. /\ net.pc = "push" /\ wake' = [wake EXCEPT !.pending = FALSE, !.missed = TRUE]
        /\ net' = [net EXCEPT !.pc = net.next]
        /\ UNCHANGED <<fb, main, screen, hand, srv>>
    BY <1>5 DEF WakePushFails
  <2>2. wake.queued = 0 /\ wake.pending /\ main.pc # "pull"
    BY <2>1 DEF ViewInv, Token
  <2>3. wake'.queued = wake.queued /\ wake' \in WakeStates
    BY <2>1, <1>1 DEF WakeStates
  <2>4. /\ net'.pc = net.next
        /\ net'.next = net.next /\ net'.silent = net.silent /\ net'.late = net.late
        /\ net'.input = net.input /\ net'.fd = net.fd /\ net' \in NetStates
    BY <2>1, <1>1, <1>2 DEF NetStates
  <2>5. At' = At
    BY <2>1, <2>4, <1>2 DEF At
  <2>6. Token'
    BY <2>1, <2>2, <2>3, <2>4, <1>2 DEF Token
  <2> QED
    BY <2>1, <2>3, <2>4, <2>5, <2>6, NetKeeps
<1> QED
  BY <1>3, <1>4, <1>5

\* No wake is on its way while the thread is elsewhere.
LEMMA TokenStays ==
  ASSUME Token, wake' = wake, main' = main, net'.pc # "push"
  PROVE  Token'
  BY DEF Token

LEMMA PublishDropKeeps ==
  ASSUME ViewInv, Publish \/ Drop
  PROVE  ViewInv'
<1>1. net \in NetStates /\ wake \in WakeStates
  BY DEF ViewInv, Typed
<1>2. CASE Publish
  <2>1. /\ net.pc = "loop"
        /\ net' = [net EXCEPT !.pc = "wake", !.next = "loop", !.batch = FALSE]
        /\ UNCHANGED <<fb, wake, main, screen, hand, srv>>
    BY <1>1, <1>2 DEF Publish, Woken, NetStates
  <2>2. /\ net'.pc = "wake"
        /\ net'.next = "loop" /\ net'.silent = net.silent /\ net'.late = net.late
        /\ net'.input = net.input /\ net'.fd = net.fd /\ net' \in NetStates
    BY <2>1, <1>1 DEF NetStates
  <2>3. At' = At
    BY <2>1, <2>2 DEF At
  <2>4. Token'
    BY <2>1, <2>2, TokenStays DEF ViewInv
  <2> QED
    BY <2>1, <2>2, <2>3, <2>4, <1>1, NetKeeps
<1>3. CASE Drop
  <2>1. /\ net.pc = "loop" /\ net' = [net EXCEPT !.pc = "shut"]
        /\ UNCHANGED <<fb, wake, main, screen, hand, srv>>
    BY <1>3 DEF Drop
  <2>2. /\ net'.pc = "shut" /\ net'.silent = net.silent /\ net'.late = net.late
        /\ net'.input = net.input /\ net'.fd = net.fd /\ net' \in NetStates
    BY <2>1, <1>1 DEF NetStates
  <2>3. At = "loop" /\ At' = "shut"
    BY <2>1, <2>2 DEF At
  <2>4. Token'
    BY <2>1, <2>2, TokenStays DEF ViewInv
  <2> QED
    BY <2>1, <2>2, <2>3, <2>4, <1>1, NetKeeps
<1> QED
  BY <1>2, <1>3

\* A connection comes up, opens, is shut and leaves no picture behind.
LEMMA ConnectionKeeps ==
  ASSUME ViewInv, (\E b \in BOOLEAN : Reconnect(b)) \/ Open \/ Shut \/ NoSignal
  PROVE  ViewInv'
<1>1. /\ Typed /\ net \in NetStates /\ fb \in FbStates /\ srv \in SrvStates /\ fb.gen \in Nat
      /\ main.gen \in Int
  BY DEF ViewInv, Typed, FbStates, MainStates
<1>2. /\ <<>> \in Seq(Spans) /\ FALSE \in BOOLEAN /\ TRUE \in BOOLEAN /\ None \in Frames
      /\ {} \in SUBSET Held /\ fb.gen + 1 \in Nat /\ Len(<<>>) <= DamageMax /\ 0 < SilentMax
  BY <1>1, ViewAssumption DEF Frames
<1>3. Plain(Clear) \in Frames /\ Plain(Clear) # None
  BY PlainReal, ViewAssumption DEF Frames
\* fb_set_stream starts a generation: there is no texture of it yet.
<1>4. ASSUME fb'.gen = fb.gen + 1, main' = main
      PROVE  Generations' /\ TextureTrue'
  <2>1. main'.gen <= fb'.gen /\ main'.gen # fb'.gen
    BY <1>1, <1>4 DEF ViewInv, Generations
  <2> QED
    BY <2>1 DEF Generations, TextureTrue
<1>5. ASSUME NEW b \in BOOLEAN, Reconnect(b)
      PROVE  ViewInv'
  <2>1. /\ net.pc = "down"
        /\ fb' = [gen |-> fb.gen + 1, input |-> b, blanked |-> FALSE, pixels |-> Plain(Clear),
                  damage |-> <<>>, all |-> TRUE]
        /\ net' = [net EXCEPT !.pc = "wake", !.next = "open", !.input = b, !.batch = FALSE,
                              !.late = None, !.silent = 0]
        /\ srv' = [sent |-> Plain(Clear), h264 |-> FALSE, held |-> {}, cut |-> FALSE]
        /\ UNCHANGED <<wake, main, screen, hand>>
    BY <1>1, <1>5 DEF Reconnect, SetStream, Woken, NetStates
  <2>2. /\ fb' \in FbStates /\ fb'.gen = fb.gen + 1 /\ fb'.pixels = Plain(Clear)
        /\ fb'.input = b /\ fb'.damage = <<>>
    BY <2>1, <1>2, <1>3 DEF FbStates
  <2>3. /\ net'.pc = "wake" /\ net'.next = "open" /\ net'.input = b /\ net'.late = None
        /\ net'.silent = 0 /\ net'.fd = net.fd /\ net' \in NetStates
    BY <2>1, <1>1, <1>2 DEF NetStates
  <2>4. srv' \in SrvStates /\ srv'.sent = Plain(Clear) /\ srv'.held = {}
    BY <2>1, <1>2, <1>3 DEF SrvStates
  <2>5. At = "down" /\ At' = "open" /\ ~net.fd
    BY <2>1, <2>3 DEF At, ViewInv, Holds
  <2>6. Typed'
    BY <2>1, <2>2, <2>3, <2>4, <1>1, <1>2 DEF Typed
  <2>7. Token'
    BY <2>1, <2>3, TokenStays DEF ViewInv
  <2>8. Generations' /\ TextureTrue'
    BY <2>1, <2>2, <1>4
  <2>9. Decoded'
    BY <2>2, <2>3, <2>4, <1>3 DEF Decoded
  <2>10. Holds' /\ FocusReleases'
    BY <2>2, <2>3, <2>4, <2>5 DEF Holds, FocusReleases
  <2> QED
    BY <2>6, <2>7, <2>8, <2>9, <2>10 DEF ViewInv
<1>6. CASE Open
  <2>1. /\ net.pc = "open" /\ net' = [net EXCEPT !.pc = "loop", !.fd = TRUE]
        /\ UNCHANGED <<fb, wake, main, screen, hand, srv>>
    BY <1>6 DEF Open
  <2>2. /\ net'.pc = "loop" /\ net'.fd /\ net'.input = net.input /\ net'.late = net.late
        /\ net'.silent = net.silent /\ net' \in NetStates
    BY <2>1, <1>1 DEF NetStates
  <2>3. At = "open" /\ At' = "loop"
    BY <2>1, <2>2 DEF At
  <2>4. Typed'
    BY <2>1, <2>2, <1>1 DEF Typed
  <2>5. Token'
    BY <2>1, <2>2, TokenStays DEF ViewInv
  <2>6. Generations' /\ TextureTrue'
    BY <2>1, PicturesStay DEF ViewInv
  <2>7. Decoded'
    BY <2>1, <2>2, <2>3, DecodedStays DEF ViewInv, Streaming
  <2>8. Holds' /\ FocusReleases'
    BY <2>1, <2>2, <2>3 DEF ViewInv, Holds, FocusReleases
  <2> QED
    BY <2>4, <2>5, <2>6, <2>7, <2>8 DEF ViewInv
<1>7. CASE Shut
  <2>1. /\ net.pc = "shut" /\ net' = [net EXCEPT !.pc = "gone", !.fd = FALSE]
        /\ srv' = [srv EXCEPT !.held = {}, !.cut = FALSE]
        /\ UNCHANGED <<fb, wake, main, screen, hand>>
    BY <1>7 DEF Shut
  <2>2. /\ net'.pc = "gone" /\ ~net'.fd /\ net'.input = net.input /\ net'.late = net.late
        /\ net'.silent = net.silent /\ net' \in NetStates
    BY <2>1, <1>1 DEF NetStates
  <2>3. srv'.held = {} /\ srv' \in SrvStates
    BY <2>1, <1>1, <1>2 DEF SrvStates
  <2>4. At' = "gone"
    BY <2>2 DEF At
  <2>5. Typed'
    BY <2>1, <2>2, <2>3, <1>1 DEF Typed
  <2>6. Token'
    BY <2>1, <2>2, TokenStays DEF ViewInv
  <2>7. Generations' /\ TextureTrue'
    BY <2>1, PicturesStay DEF ViewInv
  <2>8. Decoded'
    BY <2>4 DEF Decoded, Streaming
  <2>9. Holds' /\ FocusReleases'
    BY <2>2, <2>3, <2>4 DEF Holds, FocusReleases
  <2> QED
    BY <2>5, <2>6, <2>7, <2>8, <2>9 DEF ViewInv
<1>8. CASE NoSignal
  <2>1. /\ net.pc = "gone"
        /\ fb' = [gen |-> fb.gen + 1, input |-> FALSE, blanked |-> FALSE, pixels |-> None,
                  damage |-> <<>>, all |-> TRUE]
        /\ net' = [net EXCEPT !.pc = "wake", !.next = "down"]
        /\ srv' = [srv EXCEPT !.sent = None]
        /\ UNCHANGED <<wake, main, screen, hand>>
    BY <1>8 DEF NoSignal, SetStream, Woken
  <2>2. fb' \in FbStates /\ fb'.gen = fb.gen + 1 /\ fb'.damage = <<>>
    BY <2>1, <1>2 DEF FbStates
  <2>3. /\ net'.pc = "wake" /\ net'.next = "down" /\ net'.fd = net.fd
        /\ net'.silent = net.silent /\ net' \in NetStates
    BY <2>1, <1>1 DEF NetStates
  <2>4. srv' \in SrvStates /\ srv'.held = srv.held
    BY <2>1, <1>1, <1>2 DEF SrvStates
  <2>5. At = "gone" /\ At' = "down" /\ ~net.fd /\ srv.held = {}
    BY <2>1, <2>3 DEF At, ViewInv, Holds
  <2>6. Typed'
    BY <2>1, <2>2, <2>3, <2>4, <1>1, <1>2 DEF Typed
  <2>7. Token'
    BY <2>1, <2>3, TokenStays DEF ViewInv
  <2>8. Generations' /\ TextureTrue'
    BY <2>1, <2>2, <1>4
  <2>9. Decoded'
    BY <2>5 DEF Decoded, Streaming
  <2>10. Holds' /\ FocusReleases'
    BY <2>3, <2>4, <2>5 DEF Holds, FocusReleases
  <2> QED
    BY <2>6, <2>7, <2>8, <2>9, <2>10 DEF ViewInv
<1> QED
  BY <1>5, <1>6, <1>7, <1>8

\* A message of the stream: the connection and what is held stay.
LEMMA MessageKeeps ==
  ASSUME ViewInv, net.pc = "loop", UNCHANGED <<wake, main, screen, hand>>,
         fb' \in FbStates, net' \in NetStates, srv' \in SrvStates,
         Len(fb'.damage) <= DamageMax, net'.silent < SilentMax,
         Generations', TextureTrue', Decoded',
         fb'.input = fb.input, net'.input = net.input, net'.fd = net.fd, srv'.held = srv.held,
         srv'.cut = srv.cut,
         net'.pc \in {"loop", "shut"} \/ (net'.pc = "wake" /\ net'.next = "loop")
  PROVE  ViewInv'
<1>1. At = "loop" /\ At' \in {"loop", "shut"}
  BY DEF At
<1>2. Typed'
  BY DEF ViewInv, Typed
<1>3. Token'
  BY TokenStays DEF ViewInv
<1>4. Holds' /\ FocusReleases'
  BY <1>1, HoldsStays DEF ViewInv
<1> QED
  BY <1>2, <1>3, <1>4 DEF ViewInv

\* h264_show: the whole picture is new.
LEMMA ShowKeeps ==
  ASSUME ViewInv, net.pc = "loop", UNCHANGED <<wake, main, screen, hand>>,
         NEW picture \in Pictures, Show(picture),
         srv' \in SrvStates, srv'.sent = picture, srv'.held = srv.held,
         srv'.cut = srv.cut
  PROVE  ViewInv'
<1>1. fb \in FbStates /\ net \in NetStates
  BY DEF ViewInv, Typed
<1>2. /\ <<>> \in Seq(Spans) /\ FALSE \in BOOLEAN /\ TRUE \in BOOLEAN /\ None \in Frames
      /\ picture \in Frames /\ picture # None /\ Len(<<>>) <= DamageMax /\ 0 < SilentMax
      /\ 0 \in Nat
  BY PicturesReal, ViewAssumption DEF Frames
<1>3. /\ fb' = [fb EXCEPT !.pixels = picture, !.all = TRUE, !.damage = <<>>]
      /\ net' = [net EXCEPT !.pc = "wake", !.next = "loop", !.late = None, !.silent = 0]
  BY <1>1 DEF Show, Woken, NetStates
<1>4. /\ fb'.pixels = picture /\ fb'.all = TRUE /\ fb'.damage = <<>> /\ fb'.gen = fb.gen
      /\ fb'.input = fb.input
  BY <1>1, <1>3 DEF FbStates
<1>5. fb' \in FbStates
  BY <1>1, <1>2, <1>3 DEF FbStates
<1>6. /\ net'.pc = "wake" /\ net'.next = "loop" /\ net'.late = None /\ net'.silent = 0
      /\ net'.input = net.input /\ net'.fd = net.fd /\ net' \in NetStates
  BY <1>1, <1>2, <1>3 DEF NetStates
<1>7. fb.pixels # None
  BY DEF ViewInv, Decoded, Streaming, At
<1>8. Generations'
  BY <1>2, <1>4, <1>7 DEF ViewInv, Generations
<1>9. TextureTrue'
  BY <1>4 DEF TextureTrue
<1>10. Decoded'
  BY <1>2, <1>4, <1>6 DEF Decoded
<1> QED
  BY <1>2, <1>4, <1>5, <1>6, <1>8, <1>9, <1>10, MessageKeeps

\* h264_failed: the connection is about to end, whatever the decoder still keeps.
LEMMA FailedKeeps ==
  ASSUME ViewInv, net.pc = "loop", UNCHANGED <<fb, wake, main, screen, hand>>,
         net' = [net EXCEPT !.pc = "shut", !.h264 = FALSE],
         srv' \in SrvStates, srv'.held = srv.held, srv'.cut = srv.cut
  PROVE  ViewInv'
<1>1. net \in NetStates /\ FALSE \in BOOLEAN
  BY DEF ViewInv, Typed
<1>2. /\ net'.pc = "shut" /\ net'.silent = net.silent
      /\ net'.input = net.input /\ net'.fd = net.fd /\ net' \in NetStates
  BY <1>1 DEF NetStates
<1>3. Generations' /\ TextureTrue'
  BY PicturesStay DEF ViewInv
<1>4. Decoded'
  BY <1>2 DEF Decoded, Streaming, At
<1>5. Len(fb'.damage) <= DamageMax /\ net'.silent < SilentMax /\ fb' \in FbStates
      /\ fb'.input = fb.input
  BY <1>2 DEF ViewInv, Typed
<1> QED
  BY <1>2, <1>3, <1>4, <1>5, MessageKeeps

LEMMA PutRectKeeps ==
  ASSUME ViewInv, NEW s \in Spans, NEW c \in Colours, PutRect(s, c)
  PROVE  ViewInv'
<1>1. fb \in FbStates /\ net \in NetStates /\ srv \in SrvStates /\ Len(fb.damage) <= DamageMax
  BY DEF ViewInv, Typed
<1>2. /\ net.pc = "loop" /\ ~srv.h264
      /\ fb' = [fb EXCEPT !.pixels = Painted(fb.pixels, s, c), !.damage = DamageAdd(s)]
      /\ srv' = [srv EXCEPT !.sent = Painted(srv.sent, s, c)]
      /\ net' = [net EXCEPT !.batch = TRUE]
      /\ UNCHANGED <<wake, main, screen, hand>>
  BY DEF PutRect
<1>3. net.late = None /\ fb.pixels = srv.sent /\ fb.pixels # None /\ fb.pixels \in Pictures
  <2>1. Streaming
    BY <1>2 DEF Streaming, At
  <2> QED
    BY <2>1, <1>1, <1>2 DEF ViewInv, Decoded, FbStates, Frames
<1> DEFINE new == Painted(fb.pixels, s, c)
<1>4. /\ \A r \in 1 .. Rows : new[r] = IF Inside(s, r) THEN c ELSE fb.pixels[r]
      /\ new \in Pictures
  BY <1>3 DEF Painted, Inside, Pictures
<1>5. new # None /\ new \in Frames
  BY <1>4, PicturesReal DEF Frames
<1>6. /\ DamageAdd(s) \in Seq(Spans) /\ Len(DamageAdd(s)) <= DamageMax
      /\ ~fb.all => \A r \in 1 .. Rows :
           Listed(fb.damage, r) \/ Inside(s, r) => Listed(DamageAdd(s), r)
  BY <1>1, DamageAddKeeps
<1>7. fb' = [fb EXCEPT !.pixels = new, !.damage = DamageAdd(s)] /\ srv' = [srv EXCEPT !.sent = new]
  BY <1>2, <1>3
<1> HIDE DEF new
<1>8. /\ fb'.pixels = new /\ fb'.damage = DamageAdd(s) /\ fb'.gen = fb.gen /\ fb'.all = fb.all
      /\ fb'.input = fb.input /\ fb' \in FbStates
  BY <1>1, <1>5, <1>6, <1>7 DEF FbStates
<1>9. srv'.sent = new /\ srv'.held = srv.held /\ srv'.cut = srv.cut /\ srv' \in SrvStates
  BY <1>1, <1>5, <1>7 DEF SrvStates
<1>10. /\ net'.pc = "loop" /\ net'.late = net.late /\ net'.silent = net.silent
       /\ net'.input = net.input /\ net'.fd = net.fd /\ net' \in NetStates
  BY <1>1, <1>2 DEF NetStates
<1>11. Generations'
  BY <1>2, <1>3, <1>5, <1>8 DEF ViewInv, Generations
<1>12. TextureTrue'
  <2> SUFFICES ASSUME main.gen = fb.gen, main.tex # None, ~fb.all, NEW r \in 1 .. Rows
               PROVE  main.tex[r] = new[r] \/ Covered(r)'
    BY <1>2, <1>8 DEF TextureTrue
  <2>1. main.tex[r] = fb.pixels[r] \/ Listed(fb.damage, r)
    BY CoveredListed DEF ViewInv, TextureTrue
  <2>2. CASE Listed(fb.damage, r) \/ Inside(s, r)
    BY <2>2, <1>6, <1>8, CoveredListed
  <2>3. CASE main.tex[r] = fb.pixels[r] /\ ~Inside(s, r)
    BY <2>3, <1>4
  <2> QED
    BY <2>1, <2>2, <2>3
<1>13. Decoded'
  BY <1>3, <1>5, <1>8, <1>9, <1>10 DEF Decoded
<1>14. net'.silent < SilentMax
  BY <1>10 DEF ViewInv, Typed
<1> QED
  BY <1>2, <1>6, <1>8, <1>9, <1>10, <1>11, <1>12, <1>13, <1>14, MessageKeeps

LEMMA BlankKeeps ==
  ASSUME ViewInv, NEW b \in BOOLEAN, Blank(b)
  PROVE  ViewInv'
<1>1. fb \in FbStates /\ net \in NetStates /\ srv \in SrvStates
  BY DEF ViewInv, Typed
<1>2. /\ net.pc = "loop" /\ fb' = [fb EXCEPT !.blanked = b]
      /\ net' = [net EXCEPT !.pc = "wake", !.next = "loop"]
      /\ UNCHANGED <<wake, main, screen, hand, srv>>
  BY DEF Blank, Woken
<1>3. /\ fb'.pixels = fb.pixels /\ fb'.damage = fb.damage /\ fb'.gen = fb.gen /\ fb'.all = fb.all
      /\ fb'.input = fb.input /\ fb' \in FbStates
  BY <1>1, <1>2 DEF FbStates
<1>4. /\ net'.pc = "wake" /\ net'.next = "loop" /\ net'.late = net.late
      /\ net'.silent = net.silent
      /\ net'.input = net.input /\ net'.fd = net.fd /\ net' \in NetStates
  BY <1>1, <1>2 DEF NetStates
<1>5. Generations' /\ TextureTrue'
  BY <1>2, <1>3, PicturesStay DEF ViewInv
<1>6. Decoded'
  <2>1. Streaming
    BY <1>2 DEF Streaming, At
  <2> QED
    BY <2>1, <1>2, <1>3, <1>4, DecodedStays DEF ViewInv
<1>7. Len(fb'.damage) <= DamageMax /\ net'.silent < SilentMax
  BY <1>3, <1>4 DEF ViewInv, Typed
<1> QED
  BY <1>1, <1>2, <1>3, <1>4, <1>5, <1>6, <1>7, MessageKeeps

LEMMA UnitKeeps ==
  ASSUME ViewInv, NEW c \in Colours, Unit(c) \/ UnitSilent(c) \/ UnitBehind(c)
  PROVE  ViewInv'
<1>1. fb \in FbStates /\ net \in NetStates /\ srv \in SrvStates /\ net.silent \in Nat
  BY DEF ViewInv, Typed, NetStates
<1>2. /\ Plain(c) \in Pictures /\ Plain(c) # None /\ Plain(c) \in Frames
      /\ TRUE \in BOOLEAN /\ FALSE \in BOOLEAN /\ SilentMax \in Nat
  BY PlainReal, ViewAssumption DEF Frames
<1>3. /\ net.pc = "loop" /\ srv' = [srv EXCEPT !.sent = Plain(c), !.h264 = TRUE]
      /\ UNCHANGED <<wake, main, screen, hand>>
  BY DEF Unit, UnitSilent, UnitBehind
<1>4. /\ srv'.sent = Plain(c) /\ srv'.h264 /\ srv'.held = srv.held /\ srv'.cut = srv.cut
      /\ srv' \in SrvStates
  BY <1>1, <1>2, <1>3 DEF SrvStates
<1>5. CASE Unit(c)
  BY <1>2, <1>3, <1>4, <1>5, ShowKeeps DEF Unit
<1>6. CASE UnitSilent(c)
  <2>1. /\ fb' = fb
        /\ \/ net' = [net EXCEPT !.pc = "shut", !.h264 = FALSE]
           \/ net.silent + 1 < SilentMax
              /\ net' = [net EXCEPT !.late = Plain(c), !.silent = net.silent + 1]
    BY <1>6 DEF UnitSilent, Failed
  <2>2. Generations' /\ TextureTrue'
    BY <2>1, <1>3, PicturesStay DEF ViewInv
  <2>3. CASE net' = [net EXCEPT !.pc = "shut", !.h264 = FALSE]
    BY <1>3, <1>4, <2>1, <2>3, FailedKeeps
  <2>4. CASE /\ net.silent + 1 < SilentMax
             /\ net' = [net EXCEPT !.late = Plain(c), !.silent = net.silent + 1]
    <3>1. net.silent + 1 \in Nat
      BY <1>1
    <3>2. /\ net'.pc = "loop" /\ net'.silent = net.silent + 1 /\ net'.late = Plain(c)
          /\ net'.input = net.input /\ net'.fd = net.fd /\ net' \in NetStates
      BY <3>1, <2>4, <1>1, <1>2, <1>3 DEF NetStates
    <3>3. Decoded'
      <4>1. fb.pixels # None
        BY <1>3 DEF ViewInv, Decoded, Streaming, At
      <4> QED
        BY <4>1, <2>1, <3>2, <1>2, <1>4 DEF Decoded
    <3>4. net'.silent < SilentMax
      BY <3>2, <2>4
    <3>5. Len(fb'.damage) <= DamageMax /\ fb' \in FbStates /\ fb'.input = fb.input
      BY <2>1 DEF ViewInv, Typed
    <3> QED
      BY <1>3, <1>4, <2>2, <3>2, <3>3, <3>4, <3>5, MessageKeeps
  <2> QED
    BY <2>1, <2>3, <2>4
<1>7. CASE UnitBehind(c)
  <2>1. /\ net.late # None
        /\ fb' = [fb EXCEPT !.pixels = net.late, !.all = TRUE, !.damage = <<>>]
        /\ net' = [net EXCEPT !.pc = "wake", !.next = "loop", !.late = Plain(c), !.silent = 0]
    BY <1>1, <1>7 DEF UnitBehind, Woken, NetStates
  <2>2. /\ <<>> \in Seq(Spans) /\ Len(<<>>) <= DamageMax /\ 0 < SilentMax /\ 0 \in Nat
        /\ net.late \in Frames
    BY <1>1, ViewAssumption DEF NetStates
  <2>3. /\ fb'.pixels = net.late /\ fb'.all = TRUE /\ fb'.damage = <<>> /\ fb'.gen = fb.gen
        /\ fb'.input = fb.input
    BY <1>1, <2>1 DEF FbStates
  <2>4. fb' \in FbStates
    BY <1>1, <1>2, <2>1, <2>2 DEF FbStates
  <2>5. /\ net'.pc = "wake" /\ net'.next = "loop" /\ net'.late = Plain(c) /\ net'.silent = 0
        /\ net'.input = net.input /\ net'.fd = net.fd /\ net' \in NetStates
    BY <1>1, <1>2, <2>1, <2>2 DEF NetStates
  <2>6. fb.pixels # None
    BY <1>3 DEF ViewInv, Decoded, Streaming, At
  <2>7. Generations'
    BY <1>3, <2>1, <2>3, <2>6 DEF ViewInv, Generations
  <2>8. TextureTrue'
    BY <2>3 DEF TextureTrue
  <2>9. Decoded'
    BY <1>2, <1>4, <2>1, <2>3, <2>5 DEF Decoded
  <2> QED
    BY <1>3, <1>4, <2>2, <2>3, <2>4, <2>5, <2>7, <2>8, <2>9, MessageKeeps
<1> QED
  BY <1>5, <1>6, <1>7

LEMMA EosKeeps ==
  ASSUME ViewInv, Eos
  PROVE  ViewInv'
<1>1. fb \in FbStates /\ net \in NetStates /\ srv \in SrvStates
  BY DEF ViewInv, Typed
<1>2. /\ net.pc = "loop" /\ srv' = [srv EXCEPT !.h264 = FALSE]
      /\ UNCHANGED <<wake, main, screen, hand>>
  BY DEF Eos
<1>3. srv'.sent = srv.sent /\ srv'.held = srv.held /\ srv'.cut = srv.cut /\ srv' \in SrvStates
  BY <1>1, <1>2 DEF SrvStates
<1>4. Streaming
  BY <1>2 DEF Streaming, At
<1>5. CASE net.late # None /\ Show(net.late)
  <2>1. net.late = srv.sent /\ net.late \in Pictures
    BY <1>1, <1>4, <1>5 DEF ViewInv, Decoded, NetStates, Frames
  <2> QED
    BY <2>1, <1>2, <1>3, <1>5, ShowKeeps
<1>6. CASE net.late = None /\ fb' = fb /\ net' = [net EXCEPT !.silent = 0]
  <2>1. /\ net'.pc = "loop" /\ net'.silent = 0 /\ net'.late = None
        /\ net'.input = net.input /\ net'.fd = net.fd /\ net' \in NetStates
    BY <1>1, <1>2, <1>6 DEF NetStates
  <2>2. Generations' /\ TextureTrue'
    BY <1>2, <1>6, PicturesStay DEF ViewInv
  <2>3. Decoded'
    BY <1>3, <1>4, <1>6, <2>1 DEF ViewInv, Decoded
  <2>4. Len(fb'.damage) <= DamageMax /\ fb' \in FbStates /\ fb'.input = fb.input
    BY <1>6 DEF ViewInv, Typed
  <2>5. net'.silent < SilentMax
    BY <2>1, ViewAssumption
  <2> QED
    BY <1>2, <1>3, <2>1, <2>2, <2>3, <2>4, <2>5, MessageKeeps
<1>7. CASE fb' = fb /\ net' = [net EXCEPT !.pc = "shut", !.h264 = FALSE]
  BY <1>2, <1>3, <1>7, FailedKeeps
<1> QED
  BY <1>5, <1>6, <1>7 DEF Eos, Failed

-----------------------------------------------------------------------------
(* Theorems. *)

LEMMA ViewStart ==
  ASSUME ViewInit
  PROVE  ViewInv
<1>1. /\ <<>> \in Seq(Spans) /\ FALSE \in BOOLEAN /\ TRUE \in BOOLEAN /\ None \in Frames
      /\ {} \in SUBSET Held /\ Len(<<>>) <= DamageMax /\ 0 < SilentMax /\ 0 \in Nat
      /\ -1 \in Int
  BY ViewAssumption DEF Frames
<1>2. /\ fb \in FbStates /\ net \in NetStates /\ wake \in WakeStates /\ main \in MainStates
      /\ hand \in HandStates /\ srv \in SrvStates
  BY <1>1 DEF ViewInit, FbStates, NetStates, WakeStates, MainStates, HandStates, SrvStates
<1>3. screen \in Pictures
  BY PlainReal, ViewAssumption DEF ViewInit
<1>4. Typed
  BY <1>1, <1>2, <1>3 DEF ViewInit, Typed
<1>5. Token
  BY DEF ViewInit, Token
<1>6. Generations /\ TextureTrue
  BY DEF ViewInit, Generations, TextureTrue
<1>7. At = "down"
  BY DEF ViewInit, At
<1>8. Decoded
  BY <1>7 DEF Decoded, Streaming
<1>9. Holds /\ FocusReleases
  BY <1>7 DEF ViewInit, Holds, FocusReleases
<1> QED
  BY <1>4, <1>5, <1>6, <1>8, <1>9 DEF ViewInv

LEMMA ViewStep ==
  ASSUME ViewInv, [ViewNext]_viewVars
  PROVE  ViewInv'
<1>1. CASE Stream
  BY <1>1, ConnectionKeeps, PutRectKeeps, BlankKeeps, UnitKeeps, EosKeeps, PublishDropKeeps
     DEF Stream
<1>2. CASE NetThread
  BY <1>2, ConnectionKeeps, PublishDropKeeps, WakeKeeps DEF NetThread
<1>3. CASE MainThread
  BY <1>3, TakeWakeKeeps, ClearWakeKeeps, PullKeeps, PresentKeeps DEF MainThread
<1>4. CASE User
  BY <1>4, UserKeeps
<1>5. CASE UNCHANGED viewVars
  <2>1. UNCHANGED <<fb, net, wake, main, hand, screen, srv>>
    BY <1>5 DEF viewVars
  <2>2. hand' \in HandStates /\ screen' \in Pictures /\ srv' \in SrvStates
        /\ (~hand'.focus => srv'.held = {} \/ srv'.cut)
    BY <2>1 DEF ViewInv, Typed, FocusReleases
  <2> QED
    BY <2>1, <2>2, HandKeeps
<1> QED
  BY <1>1, <1>2, <1>3, <1>4, <1>5 DEF ViewNext

LEMMA ViewHolds == ViewSpec => []ViewInv
  BY ViewStart, ViewStep, PTL DEF ViewSpec

\* The state of both threads keeps to its types: the damage list never has more than
\* VIEW_DAMAGE_MAX rectangles (damage_add), h264_failed comes before AU_SILENT_MAX silent
\* units, and wake_main never has two wake events in SDL's queue.
THEOREM ViewTypeCorrect == ViewSpec => []ViewTypeOK
<1>1. ViewInv => ViewTypeOK
  <2> SUFFICES ASSUME ViewInv PROVE ViewTypeOK
    OBVIOUS
  <2>1. /\ fb \in FbStates /\ net \in NetStates /\ wake \in WakeStates /\ main \in MainStates
        /\ hand \in HandStates /\ srv \in SrvStates /\ screen \in Pictures
        /\ Len(fb.damage) <= DamageMax /\ net.silent < SilentMax
    BY DEF ViewInv, Typed
  <2>2. Recorded \subseteq Spans
    BY <2>1 DEF Recorded, FbStates
  <2>3. wake.queued \in 0 .. 1
    BY <2>1 DEF WakeStates
  <2> QED
    BY <2>1, <2>2, <2>3
       DEF ViewTypeOK, FbStates, NetStates, MainStates, HandStates, SrvStates, Frames
<1> QED
  BY <1>1, ViewHolds, PTL

\* refresh uploads the damage alone and still never leaves an old row in the texture,
\* however fb_put_rect, h264_show and fb_set_stream come between two refreshes and however
\* often the damage list overflows.
THEOREM TextureAlwaysTrue == ViewSpec => []TextureTrue
<1>1. ViewInv => TextureTrue
  BY DEF ViewInv
<1> QED
  BY <1>1, ViewHolds, PTL

\* Between two messages of stream_loop the shared picture is what the server sent, unless
\* the decoder keeps a unit: h264_eos drains it before any rectangle that follows.
THEOREM AlwaysApplied == ViewSpec => []Applied
<1>1. ViewInv => Applied
  BY DEF ViewInv, Decoded, Applied, Streaming, At
<1> QED
  BY <1>1, ViewHolds, PTL

\* A window that lost the focus (input_event) holds nothing down on the remote side, over
\* any number of reconnections that the main thread has or has not seen, unless a message of
\* view_net_send was lost on the connection of the moment.
THEOREM FocusAlwaysReleases == ViewSpec => []FocusReleases
<1>1. ViewInv => FocusReleases
  BY DEF ViewInv
<1> QED
  BY <1>1, ViewHolds, PTL

=============================================================================
