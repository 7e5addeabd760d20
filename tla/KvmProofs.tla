----------------------------- MODULE KvmProofs -----------------------------
(***************************************************************************)
(* Theorems on the picture of the KVM server.  Encoder: the unit it lends  *)
(* is that of its frame, and it implements EncoderApi.  Kvm: the frame the *)
(* next one is compared with, and every client's picture made from it, are *)
(* intact.                                                                 *)
(***************************************************************************)
EXTENDS MCKvm, SequenceTheorems, TLAPS

(***************************************************************************)
(* Kvm: the inductive invariant.                                           *)
(***************************************************************************)

\* Frames are looked at only with a signal, and a signal has a mode.
Watching == (st.watch => st.signal) /\ (st.signal => st.mode # NoMode)

\* A buffer is in one place: with the driver, filled once, or kept as the
\* previous frame.
BufferOnePlace ==
  /\ driver \cap ToSet(ready) = {}
  /\ \A i, j \in DOMAIN ready : ready[i] = ready[j] => i = j
  /\ st.prev \notin driver \cup ToSet(ready)

\* The master image is the previous frame.
MasterIsPrevious == st.prev # NoBuf => master = content[st.prev]

\* A client k that is not being cut, with the screen sc, under the state s and
\* the master image m: its fit is for the mode in force, ...
Fits(k, s) == k.streaming /\ ~k.lost /\ s.signal => k.fit = s.mode

\* ... its picture is the master image unless it waits for all of it, and its
\* screen without a mode is dark, or shows that picture.
Pictured(k, sc, s, m) ==
  k.streaming /\ ~k.lost =>
    /\ s.signal /\ ~k.repaint => k.grab = Fitted(m, s.mode, k.geom) /\ sc.lit
    /\ s.mode = NoMode => ~sc.lit \/ sc.pic = k.grab

ClientsTrue == \A c \in Clients : Fits(kc[c], st) /\ Pictured(kc[c], screen[c], st, master)

KvmInv == KvmTypeOK /\ Watching /\ BufferOnePlace /\ MasterIsPrevious /\ ClientsTrue

-----------------------------------------------------------------------------
(* Types. *)

ClientTypes == [streaming : BOOLEAN, lost : BOOLEAN,
                geom : Modes \cup {NoMode}, fit : Modes \cup {NoMode},
                repaint : BOOLEAN, grab : [Tiles \cup {Bar} -> Pixels], dirty : BOOLEAN]
ScreenTypes == [lit : BOOLEAN, pic : [Tiles \cup {Bar} -> Pixels]]
StateTypes == [streaming : BOOLEAN, signal : BOOLEAN, mode : Modes \cup {NoMode},
               prev : Bufs \cup {NoBuf}, watch : BOOLEAN, poll : BOOLEAN,
               debounce : BOOLEAN]
SourceTypes == [mode : Modes \cup {NoMode}, pic : [Tiles -> Pixels], event : BOOLEAN]
Images == [Tiles -> Pixels]
Grabs == [Tiles \cup {Bar} -> Pixels]

LEMMA TypeParts ==
  KvmTypeOK <=>
    /\ source \in SourceTypes /\ st \in StateTypes
    /\ driver \subseteq Bufs /\ ready \in Seq(Bufs)
    /\ content \in [Bufs -> Images] /\ master \in Images
    /\ kc \in [Clients -> ClientTypes] /\ screen \in [Clients -> ScreenTypes]
BY DEF KvmTypeOK, SourceTypes, StateTypes, Images, ClientTypes, ScreenTypes

LEMMA TypesNext ==
  ASSUME source' \in SourceTypes, st' \in StateTypes,
         driver' \subseteq Bufs, ready' \in Seq(Bufs),
         content' \in [Bufs -> Images], master' \in Images,
         kc' \in [Clients -> ClientTypes], screen' \in [Clients -> ScreenTypes]
  PROVE  KvmTypeOK'
BY DEF KvmTypeOK, SourceTypes, StateTypes, Images, ClientTypes, ScreenTypes

LEMMA EdgeIn == Edge \in Tiles
BY KvmAssumption DEF Edge

LEMMA BlackTyped == NoPicture \in Images /\ NoGrab \in Grabs
BY DEF NoPicture, NoGrab, Images, Grabs, Pixels

LEMMA NoBufTyped == NoClient \in ClientTypes /\ NoScreen \in ScreenTypes
<1>1. TRUE \in BOOLEAN /\ FALSE \in BOOLEAN
  OBVIOUS
<1> QED BY <1>1, BlackTyped DEF NoClient, NoScreen, ClientTypes, ScreenTypes, Grabs

-----------------------------------------------------------------------------
(* A client's picture. *)

\* The picture that blit_rect leaves.
Blitted(k, rects, m, mode) ==
  [r \in Tiles \cup {Bar} |->
     IF r \in rects THEN m[r]
     ELSE IF r = Bar /\ k.geom = mode /\ Edge \in rects THEN m[Edge]
     ELSE k.grab[r]]

\* It writes pixels of the image, and nothing but the picture.
LEMMA BlitTyped ==
  ASSUME NEW k \in ClientTypes, NEW rects \in SUBSET Tiles, NEW m \in Images, NEW mode
  PROVE  /\ Blit(k, rects, m, mode) \in ClientTypes
         /\ k.fit = mode => Blit(k, rects, m, mode).grab = Blitted(k, rects, m, mode)
         /\ Blit(k, rects, m, mode).streaming = k.streaming
         /\ Blit(k, rects, m, mode).lost = k.lost
         /\ Blit(k, rects, m, mode).geom = k.geom
         /\ Blit(k, rects, m, mode).fit = k.fit
         /\ Blit(k, rects, m, mode).repaint = k.repaint
<1> DEFINE g == Blitted(k, rects, m, mode)
<1>1. k.grab \in Grabs
  BY DEF ClientTypes, Grabs
<1>2. g \in Grabs
  BY <1>1, EdgeIn DEF Images, Grabs, Blitted
<1>3. Blit(k, rects, m, mode) = IF k.fit # mode THEN k ELSE [k EXCEPT !.grab = g]
  BY DEF Blit, Blitted
<1> HIDE DEF g
<1>4. [k EXCEPT !.grab = g] \in ClientTypes
  BY <1>2 DEF ClientTypes, Grabs
<1>5. /\ [k EXCEPT !.grab = g].grab = g
      /\ [k EXCEPT !.grab = g].streaming = k.streaming
      /\ [k EXCEPT !.grab = g].lost = k.lost
      /\ [k EXCEPT !.grab = g].geom = k.geom
      /\ [k EXCEPT !.grab = g].fit = k.fit
      /\ [k EXCEPT !.grab = g].repaint = k.repaint
  BY DEF ClientTypes
<1>6. k.fit = mode => Blit(k, rects, m, mode).grab = g
  BY <1>3, <1>5
<1> QED BY <1>3, <1>4, <1>5, <1>6 DEF g

\* j is the client k with the whole image m, letterboxed, in its picture.
Whole(j, k, m, mode) ==
  /\ j \in ClientTypes
  /\ j.streaming = k.streaming /\ j.lost = k.lost
  /\ j.geom = k.geom /\ j.fit = k.fit
  /\ j.repaint = FALSE
  /\ k.fit = mode => j.grab = Fitted(m, mode, k.geom)

\* repaint_client leaves the whole image in the client's picture.
LEMMA RepaintedTrue ==
  ASSUME NEW k \in ClientTypes, NEW m \in Images, NEW mode
  PROVE  Whole(Repainted(k, m, mode), k, m, mode)
<1> DEFINE j == IF k.geom # mode THEN [k EXCEPT !.grab = NoGrab] ELSE k
           b == Blit(j, Tiles, m, mode)
<1>1. /\ j \in ClientTypes /\ j.streaming = k.streaming /\ j.lost = k.lost
      /\ j.geom = k.geom /\ j.fit = k.fit
      /\ k.geom # mode => j.grab = NoGrab
  BY BlackTyped DEF ClientTypes, Grabs
<1>2. Repainted(k, m, mode) = [b EXCEPT !.repaint = FALSE, !.dirty = TRUE]
  BY DEF Repainted
<1> HIDE DEF j
<1>8. Tiles \in SUBSET Tiles
  OBVIOUS
<1>3. /\ b \in ClientTypes /\ b.streaming = k.streaming /\ b.lost = k.lost
      /\ b.geom = k.geom /\ b.fit = k.fit
  BY <1>1, <1>8, BlitTyped
<1>4. ASSUME k.fit = mode
      PROVE  b.grab = Fitted(m, mode, k.geom)
  <2>1. b.grab = Blitted(j, Tiles, m, mode)
    BY <1>1, <1>4, <1>8, BlitTyped
  <2>2. k.geom # mode => j.grab[Bar] = Black
    BY <1>1 DEF NoGrab
  <2> QED BY <1>1, <2>1, <2>2, EdgeIn, KvmAssumption DEF Fitted, Blitted
<1> HIDE DEF b
<1>5. TRUE \in BOOLEAN /\ FALSE \in BOOLEAN
  OBVIOUS
<1>6. [b EXCEPT !.repaint = FALSE, !.dirty = TRUE] \in ClientTypes
  BY <1>3, <1>5 DEF ClientTypes
<1>7. /\ [b EXCEPT !.repaint = FALSE, !.dirty = TRUE].grab = b.grab
      /\ [b EXCEPT !.repaint = FALSE, !.dirty = TRUE].streaming = b.streaming
      /\ [b EXCEPT !.repaint = FALSE, !.dirty = TRUE].lost = b.lost
      /\ [b EXCEPT !.repaint = FALSE, !.dirty = TRUE].geom = b.geom
      /\ [b EXCEPT !.repaint = FALSE, !.dirty = TRUE].fit = b.fit
      /\ [b EXCEPT !.repaint = FALSE, !.dirty = TRUE].repaint = FALSE
  BY <1>3 DEF ClientTypes
<1> QED BY <1>2, <1>3, <1>4, <1>6, <1>7 DEF Whole

\* A picture that was the old image is the new one once the rectangles in which
\* the two differ are blitted.
LEMMA BlitTrue ==
  ASSUME NEW k \in ClientTypes, NEW rects \in SUBSET Tiles,
         NEW m \in Images, NEW n \in Images, NEW mode,
         k.fit = mode, k.grab = Fitted(m, mode, k.geom),
         \A t \in Tiles \ rects : n[t] = m[t]
  PROVE  Blit(k, rects, n, mode).grab = Fitted(n, mode, k.geom)
<1>1. Blit(k, rects, n, mode).grab = Blitted(k, rects, n, mode)
  BY BlitTyped
<1>2. \A r \in Tiles : Fitted(m, mode, k.geom)[r] = m[r] /\ Fitted(n, mode, k.geom)[r] = n[r]
  BY KvmAssumption DEF Fitted
<1>3. /\ Fitted(m, mode, k.geom)[Bar] = IF mode = k.geom THEN m[Edge] ELSE Black
      /\ Fitted(n, mode, k.geom)[Bar] = IF mode = k.geom THEN n[Edge] ELSE Black
  BY DEF Fitted
<1>4. Fitted(n, mode, k.geom) = [r \in Tiles \cup {Bar} |-> Fitted(n, mode, k.geom)[r]]
  BY DEF Fitted
<1>5. \A r \in Tiles \cup {Bar} :
        (IF r \in rects THEN n[r]
         ELSE IF r = Bar /\ k.geom = mode /\ Edge \in rects THEN n[Edge]
         ELSE k.grab[r]) = Fitted(n, mode, k.geom)[r]
  BY <1>2, <1>3, EdgeIn, KvmAssumption
<1> QED BY <1>1, <1>4, <1>5 DEF Blitted

LEMMA CtrlTyped ==
  ASSUME NEW sc \in ScreenTypes, NEW k \in ClientTypes, NEW on \in BOOLEAN
  PROVE  /\ Ctrl(sc, k, on) \in ScreenTypes
         /\ k.streaming /\ ~k.lost => Ctrl(sc, k, on).lit = on
BY DEF Ctrl, ScreenTypes

-----------------------------------------------------------------------------
(* All clients at once. *)

\* fanout: when the new image n differs from the old m only in the rectangles,
\* every client that was true to m is true to n.
LEMMA FanoutTrue ==
  ASSUME KvmTypeOK, NEW rects \in SUBSET Tiles, NEW n \in Images,
         Fanout(rects, n, st.mode), ClientsTrue, st.signal, st.mode # NoMode,
         st.prev # NoBuf => \A t \in Tiles \ rects : n[t] = master[t],
         st.prev = NoBuf => rects = Tiles,
         NEW s, s.signal = st.signal, s.mode = st.mode
  PROVE  /\ kc' \in [Clients -> ClientTypes] /\ screen' \in [Clients -> ScreenTypes]
         /\ \A c \in Clients : Fits(kc'[c], s) /\ Pictured(kc'[c], screen'[c], s, n)
<1>1. /\ kc \in [Clients -> ClientTypes] /\ screen \in [Clients -> ScreenTypes]
      /\ master \in Images
  BY TypeParts
<1>2. \A t \in Tiles \ rects : n[t] = master[t]
  OBVIOUS
<1>3. ASSUME NEW c \in Clients
      PROVE  /\ kc'[c] \in ClientTypes /\ screen'[c] \in ScreenTypes
             /\ Fits(kc'[c], s) /\ Pictured(kc'[c], screen'[c], s, n)
  <2> DEFINE k == kc[c]
             sc == screen[c]
             b == Blit(k, rects, n, st.mode)
  <2>1. k \in ClientTypes /\ sc \in ScreenTypes
    BY <1>1
  <2>2. Fits(k, st) /\ Pictured(k, sc, st, master)
    BY DEF ClientsTrue
  <2>3. kc'[c] = IF ~k.streaming THEN k
                 ELSE IF k.repaint THEN Repainted(k, n, st.mode)
                 ELSE IF rects = {} \/ k.fit # st.mode THEN k
                 ELSE [b EXCEPT !.dirty = TRUE]
    BY DEF Fanout
  <2>4. screen'[c] = IF k.repaint THEN Ctrl(sc, k, TRUE) ELSE sc
    BY DEF Fanout
  <2> HIDE DEF k, sc
  <2>5. /\ b \in ClientTypes /\ b.streaming = k.streaming /\ b.lost = k.lost
        /\ b.geom = k.geom /\ b.fit = k.fit /\ b.repaint = k.repaint
    BY <2>1, BlitTyped
  <2>6. ASSUME k.streaming, ~k.lost, ~k.repaint
        PROVE  /\ k.fit = st.mode /\ k.grab = Fitted(master, st.mode, k.geom) /\ sc.lit
               /\ b.grab = Fitted(n, st.mode, k.geom)
    <3>1. k.fit = st.mode /\ k.grab = Fitted(master, st.mode, k.geom) /\ sc.lit
      BY <2>2, <2>6 DEF Fits, Pictured
    <3>2. b.grab = Fitted(n, st.mode, k.geom)
      BY <1>1, <1>2, <2>1, <3>1, BlitTrue
    <3> QED BY <3>1, <3>2
  <2> HIDE DEF b
  <2>7. CASE ~k.streaming
    <3>1. kc'[c] = k
      BY <2>3, <2>7
    <3>2. screen'[c] \in ScreenTypes
      BY <2>1, <2>4, CtrlTyped
    <3> QED BY <2>1, <2>7, <3>1, <3>2 DEF Fits, Pictured
  <2>8. CASE k.streaming /\ k.repaint
    <3>1. kc'[c] = Repainted(k, n, st.mode) /\ screen'[c] = Ctrl(sc, k, TRUE)
      BY <2>3, <2>4, <2>8
    <3>2. screen'[c] \in ScreenTypes /\ (~k.lost => screen'[c].lit)
      BY <2>1, <2>8, <3>1, CtrlTyped
    <3>5. Whole(kc'[c], k, n, st.mode)
      BY <2>1, <3>1, RepaintedTrue
    <3>3. /\ kc'[c] \in ClientTypes /\ kc'[c].lost = k.lost
          /\ kc'[c].geom = k.geom /\ kc'[c].fit = k.fit
          /\ k.fit = st.mode => kc'[c].grab = Fitted(n, st.mode, k.geom)
      BY <3>5 DEF Whole
    <3>4. ~k.lost => k.fit = st.mode
      BY <2>2, <2>8 DEF Fits
    <3> QED BY <3>2, <3>3, <3>4 DEF Fits, Pictured
  <2>9. CASE k.streaming /\ ~k.repaint /\ (rects = {} \/ k.fit # st.mode)
    <3>1. kc'[c] = k /\ screen'[c] = sc
      BY <2>3, <2>4, <2>9
    <3>2. CASE k.lost
      BY <2>1, <3>1, <3>2 DEF Fits, Pictured
    <3>3. CASE ~k.lost
      <4>1. k.fit = st.mode /\ k.grab = Fitted(master, st.mode, k.geom) /\ sc.lit
        BY <2>6, <2>9, <3>3
      <4>2. n = master
        BY <1>1, <1>2, <2>9, <4>1 DEF Images
      <4> QED BY <2>1, <3>1, <4>1, <4>2 DEF Fits, Pictured
    <3> QED BY <3>2, <3>3
  <2>10. CASE k.streaming /\ ~k.repaint /\ ~(rects = {} \/ k.fit # st.mode)
    <3>1. kc'[c] = [b EXCEPT !.dirty = TRUE] /\ screen'[c] = sc
      BY <2>3, <2>4, <2>10
    <3>2. /\ kc'[c] \in ClientTypes /\ kc'[c].lost = k.lost /\ kc'[c].geom = k.geom
          /\ kc'[c].fit = k.fit /\ kc'[c].grab = b.grab
      BY <2>5, <3>1 DEF ClientTypes
    <3>3. CASE k.lost
      BY <2>1, <3>1, <3>2, <3>3 DEF Fits, Pictured
    <3>4. CASE ~k.lost
      <4>1. k.fit = st.mode /\ sc.lit /\ b.grab = Fitted(n, st.mode, k.geom)
        BY <2>6, <2>10, <3>4
      <4> QED BY <2>1, <3>1, <3>2, <4>1 DEF Fits, Pictured
    <3> QED BY <3>3, <3>4
  <2> QED BY <2>7, <2>8, <2>9, <2>10
<1>4. /\ kc' = [c \in Clients |-> kc'[c]]
      /\ screen' = [c \in Clients |-> screen'[c]]
  BY DEF Fanout
<1> QED BY <1>3, <1>4

\* blank_all: every client that is not being cut is dark.
LEMMA BlankTyped ==
  ASSUME KvmTypeOK, BlankAll
  PROVE  /\ kc' \in [Clients -> ClientTypes] /\ screen' \in [Clients -> ScreenTypes]
         /\ \A c \in Clients : kc'[c].streaming /\ ~kc'[c].lost => ~screen'[c].lit
<1>1. kc \in [Clients -> ClientTypes] /\ screen \in [Clients -> ScreenTypes]
  BY TypeParts
<1>2. ASSUME NEW c \in Clients
      PROVE  /\ kc'[c] \in ClientTypes /\ screen'[c] \in ScreenTypes
             /\ kc'[c].streaming /\ ~kc'[c].lost => ~screen'[c].lit
  <2>1. kc[c] \in ClientTypes /\ screen[c] \in ScreenTypes
    BY <1>1
  <2>2. kc'[c] = [kc[c] EXCEPT !.repaint = FALSE] /\ screen'[c] = Ctrl(screen[c], kc[c], FALSE)
    BY DEF BlankAll
  <2>3. FALSE \in BOOLEAN
    OBVIOUS
  <2>4. /\ kc'[c] \in ClientTypes
        /\ kc'[c].streaming = kc[c].streaming /\ kc'[c].lost = kc[c].lost
    BY <2>1, <2>2, <2>3 DEF ClientTypes
  <2>5. /\ screen'[c] \in ScreenTypes
        /\ kc[c].streaming /\ ~kc[c].lost => ~screen'[c].lit
    BY <2>1, <2>2, <2>3, CtrlTyped
  <2> QED BY <2>4, <2>5
<1>3. /\ kc' = [c \in Clients |-> kc'[c]]
      /\ screen' = [c \in Clients |-> screen'[c]]
  BY DEF BlankAll
<1> QED BY <1>2, <1>3

\* apply_resize: every client that is not cut has the new fit and waits for the
\* whole image.
LEMMA ResizeTyped ==
  ASSUME KvmTypeOK, NEW mode \in Modes, ApplyResize(mode)
  PROVE  /\ kc' \in [Clients -> ClientTypes]
         /\ \A c \in Clients : kc'[c].streaming /\ ~kc'[c].lost =>
              kc'[c].fit = mode /\ kc'[c].repaint
<1>1. kc \in [Clients -> ClientTypes]
  BY TypeParts
<1>2. ASSUME NEW c \in Clients
      PROVE  /\ kc'[c] \in ClientTypes
             /\ kc'[c].streaming /\ ~kc'[c].lost => kc'[c].fit = mode /\ kc'[c].repaint
  <2> DEFINE k == kc[c]
  <2>1. k \in ClientTypes
    BY <1>1
  <2>2. \/ ~k.streaming /\ kc'[c] = k
        \/ kc'[c] = [k EXCEPT !.lost = TRUE]
        \/ kc'[c] = [k EXCEPT !.fit = mode, !.grab = NoGrab, !.repaint = TRUE]
    BY DEF ApplyResize
  <2> HIDE DEF k
  <2>3. TRUE \in BOOLEAN
    OBVIOUS
  <2> QED BY <2>1, <2>2, <2>3, BlackTyped DEF ClientTypes, Grabs
<1>3. kc' = [c \in Clients |-> kc'[c]]
  BY DEF ApplyResize
<1> QED BY <1>2, <1>3

-----------------------------------------------------------------------------
(* Buffers. *)

LEMMA HeadTail ==
  ASSUME NEW s \in Seq(Bufs), s # <<>>,
         \A i, j \in DOMAIN s : s[i] = s[j] => i = j
  PROVE  /\ Head(s) \in Bufs /\ Head(s) \in ToSet(s)
         /\ Tail(s) \in Seq(Bufs)
         /\ ToSet(Tail(s)) \subseteq ToSet(s) \ {Head(s)}
         /\ \A i, j \in DOMAIN Tail(s) : Tail(s)[i] = Tail(s)[j] => i = j
<1>1. /\ Head(s) = s[1] /\ Head(s) \in Bufs /\ Tail(s) \in Seq(Bufs)
      /\ Len(s) \in Nat \ {0} /\ Len(Tail(s)) = Len(s) - 1
      /\ \A i \in 1 .. Len(Tail(s)) : Tail(s)[i] = s[i + 1]
  BY HeadTailProperties, EmptySeq
<1>2. DOMAIN s = 1 .. Len(s) /\ DOMAIN Tail(s) = 1 .. Len(Tail(s))
  BY <1>1, LenProperties
<1>3. \A i \in DOMAIN Tail(s) : i + 1 \in DOMAIN s /\ i + 1 # 1 /\ i \in Nat
  BY <1>1, <1>2
<1>4. 1 \in DOMAIN s
  BY <1>1, <1>2
<1>5. Head(s) \in ToSet(s)
  BY <1>1, <1>4 DEF ToSet
<1>6. ASSUME NEW x \in ToSet(Tail(s))
      PROVE  x \in ToSet(s) /\ x # Head(s)
  <2> PICK i \in DOMAIN Tail(s) : x = Tail(s)[i]
    BY DEF ToSet
  <2>1. x = s[i + 1] /\ i + 1 \in DOMAIN s /\ i + 1 # 1
    BY <1>1, <1>2, <1>3
  <2> QED BY <1>1, <1>4, <2>1 DEF ToSet
<1>7. ASSUME NEW i \in DOMAIN Tail(s), NEW j \in DOMAIN Tail(s), Tail(s)[i] = Tail(s)[j]
      PROVE  i = j
  <2>1. s[i + 1] = s[j + 1]
    BY <1>1, <1>2, <1>7
  <2>2. i + 1 = j + 1
    BY <1>3, <2>1
  <2> QED BY <1>3, <2>2
<1> QED BY <1>1, <1>5, <1>6, <1>7

LEMMA AppendNew ==
  ASSUME NEW s \in Seq(Bufs), NEW b \in Bufs, b \notin ToSet(s),
         \A i, j \in DOMAIN s : s[i] = s[j] => i = j
  PROVE  /\ Append(s, b) \in Seq(Bufs)
         /\ ToSet(Append(s, b)) = ToSet(s) \cup {b}
         /\ \A i, j \in DOMAIN Append(s, b) : Append(s, b)[i] = Append(s, b)[j] => i = j
<1> DEFINE a == Append(s, b)
<1>1. /\ a \in Seq(Bufs) /\ Len(a) = Len(s) + 1 /\ Len(s) \in Nat
      /\ \A i \in 1 .. Len(s) : a[i] = s[i]
      /\ a[Len(s) + 1] = b
  BY AppendProperties, LenProperties
<1>2. DOMAIN s = 1 .. Len(s) /\ DOMAIN a = 1 .. Len(s) + 1
  BY <1>1, LenProperties
<1> HIDE DEF a
<1>3. \A i \in DOMAIN a : \/ i \in DOMAIN s /\ a[i] = s[i]
                          \/ i = Len(s) + 1 /\ a[i] = b
  BY <1>1, <1>2
<1>4. \A i \in DOMAIN s : i \in DOMAIN a /\ a[i] = s[i]
  BY <1>1, <1>2
<1>5. Len(s) + 1 \in DOMAIN a /\ a[Len(s) + 1] = b
  BY <1>1, <1>2
<1>6. ToSet(a) = ToSet(s) \cup {b}
  BY <1>3, <1>4, <1>5 DEF ToSet
<1>7. \A i \in DOMAIN s : s[i] # b
  BY DEF ToSet
<1>8. \A i, j \in DOMAIN a : a[i] = a[j] => i = j
  BY <1>3, <1>7
<1> QED BY <1>1, <1>6, <1>8 DEF a

LEMMA NoneReady == <<>> \in Seq(Bufs) /\ ToSet(<<>>) = {} /\ DOMAIN <<>> = {}
BY DEF ToSet

\* All buffers are the driver's, or none is.
LEMMA PlacedAnew ==
  ASSUME ready' = <<>>, st'.prev = NoBuf, driver' \subseteq Bufs
  PROVE  BufferOnePlace' /\ MasterIsPrevious'
BY NoneReady, KvmAssumption DEF BufferOnePlace, MasterIsPrevious

-----------------------------------------------------------------------------
(* The signal. *)

LEMMA StoppedIs ==
  ASSUME NEW s \in StateTypes
  PROVE  /\ Stopped(s) \in StateTypes
         /\ ~Stopped(s).streaming /\ ~Stopped(s).signal /\ ~Stopped(s).watch
         /\ Stopped(s).prev = NoBuf
<1>1. FALSE \in BOOLEAN
  OBVIOUS
<1> QED BY <1>1 DEF Stopped, StateTypes

LEMMA TimerOff ==
  ASSUME st \in StateTypes, NEW timer \in {"debounce", "poll"}
  PROVE  /\ [st EXCEPT ![timer] = FALSE] \in StateTypes
         /\ [st EXCEPT ![timer] = FALSE].signal = st.signal
         /\ [st EXCEPT ![timer] = FALSE].mode = st.mode
         /\ [st EXCEPT ![timer] = FALSE].watch = st.watch
         /\ [st EXCEPT ![timer] = FALSE].prev = st.prev
<1>1. FALSE \in BOOLEAN
  OBVIOUS
<1>2. CASE timer = "debounce"
  BY <1>1, <1>2 DEF StateTypes
<1>3. CASE timer = "poll"
  BY <1>1, <1>3 DEF StateTypes
<1> QED BY <1>2, <1>3

\* Black buffers are typed.
LEMMA CleanBuffers == [b \in Bufs |-> NoPicture] \in [Bufs -> Images]
BY BlackTyped

\* signal_lost: nothing is compared with anything, and nobody is lit who was
\* not lit again since the signal went.
LEMMA LostKeeps ==
  ASSUME KvmInv, NEW s \in StateTypes, s.mode = st.mode, SignalLost(s),
         UNCHANGED source
  PROVE  KvmInv'
<1>1. /\ source \in SourceTypes /\ master \in Images
      /\ kc \in [Clients -> ClientTypes] /\ screen \in [Clients -> ScreenTypes]
  BY TypeParts DEF KvmInv
<1>2. st' = [Stopped(s) EXCEPT !.mode = NoMode, !.poll = TRUE]
  BY DEF SignalLost
<1>3. TRUE \in BOOLEAN
  OBVIOUS
<1>4. /\ st' \in StateTypes /\ ~st'.signal /\ ~st'.watch /\ st'.prev = NoBuf
      /\ st'.mode = NoMode
  BY <1>2, <1>3, StoppedIs DEF StateTypes
<1>5. driver' = {} /\ ready' = <<>> /\ content' \in [Bufs -> Images] /\ master' = master
  BY CleanBuffers DEF SignalLost
<1>6. /\ kc' \in [Clients -> ClientTypes] /\ screen' \in [Clients -> ScreenTypes]
      /\ \A c \in Clients : kc'[c].streaming /\ ~kc'[c].lost =>
           ~screen'[c].lit \/ screen'[c].pic = kc'[c].grab
  <2>1. CASE BlankAll
    BY <2>1, BlankTyped DEF KvmInv
  <2>2. CASE UNCHANGED <<kc, screen>> /\ st.mode = NoMode
    BY <1>1, <2>2 DEF KvmInv, ClientsTrue, Pictured
  <2> QED BY <2>1, <2>2 DEF SignalLost
<1>7. KvmTypeOK'
  BY <1>1, <1>4, <1>5, <1>6, TypesNext, NoneReady
<1>8. Watching'
  BY <1>4 DEF Watching
<1>9. BufferOnePlace' /\ MasterIsPrevious'
  BY <1>4, <1>5, PlacedAnew
<1>10. ClientsTrue'
  BY <1>4, <1>6 DEF ClientsTrue, Fits, Pictured
<1> QED BY <1>7, <1>8, <1>9, <1>10 DEF KvmInv

\* start_stream: every client that stays waits for the first frame.
LEMMA RestreamKeeps ==
  ASSUME KvmInv, NEW s \in StateTypes, NEW m \in Modes, Restream(s, m),
         UNCHANGED source
  PROVE  KvmInv'
<1>1. source \in SourceTypes /\ screen \in [Clients -> ScreenTypes]
  BY TypeParts DEF KvmInv
<1>2. st' = [Stopped(s) EXCEPT !.streaming = TRUE, !.signal = TRUE, !.mode = m,
                               !.watch = TRUE, !.poll = FALSE]
  BY DEF Restream
<1>3. TRUE \in BOOLEAN /\ FALSE \in BOOLEAN
  OBVIOUS
<1>4. st' \in StateTypes /\ st'.signal /\ st'.prev = NoBuf /\ st'.mode = m
  BY <1>2, <1>3, StoppedIs DEF StateTypes
<1>5. /\ driver' = Bufs /\ ready' = <<>> /\ content' \in [Bufs -> Images]
      /\ master' \in Images /\ screen' = screen
  BY CleanBuffers, BlackTyped DEF Restream
<1>6. /\ kc' \in [Clients -> ClientTypes]
      /\ \A c \in Clients : kc'[c].streaming /\ ~kc'[c].lost =>
           kc'[c].fit = m /\ kc'[c].repaint
  BY ResizeTyped DEF KvmInv, Restream
<1>7. KvmTypeOK'
  BY <1>1, <1>4, <1>5, <1>6, TypesNext, NoneReady
<1>8. m # NoMode
  BY KvmAssumption
<1>9. Watching'
  BY <1>4, <1>8 DEF Watching
<1>10. BufferOnePlace' /\ MasterIsPrevious'
  BY <1>4, <1>5, PlacedAnew
<1>11. ClientsTrue'
  BY <1>4, <1>6, <1>8 DEF ClientsTrue, Fits, Pictured
<1> QED BY <1>7, <1>9, <1>10, <1>11 DEF KvmInv

\* A step that leaves alone what is compared, and the clients.
LEMMA StateStays ==
  ASSUME KvmInv, UNCHANGED <<driver, ready, content, master, kc, screen>>,
         source' \in SourceTypes, st' \in StateTypes, st'.prev = st.prev,
         st'.mode = st.mode, st'.watch => st.watch, st'.watch => st'.signal,
         st'.signal => st.signal
  PROVE  KvmInv'
<1>1. KvmTypeOK'
  <2>1. /\ driver \subseteq Bufs /\ ready \in Seq(Bufs)
        /\ content \in [Bufs -> Images] /\ master \in Images
        /\ kc \in [Clients -> ClientTypes] /\ screen \in [Clients -> ScreenTypes]
    BY TypeParts DEF KvmInv
  <2> QED BY <2>1, TypesNext
<1>2. Watching'
  BY DEF KvmInv, Watching
<1>3. BufferOnePlace' /\ MasterIsPrevious'
  BY DEF KvmInv, BufferOnePlace, MasterIsPrevious
<1>4. ClientsTrue'
  BY DEF KvmInv, ClientsTrue, Fits, Pictured
<1> QED BY <1>1, <1>2, <1>3, <1>4 DEF KvmInv

LEMMA ProbeKeeps ==
  ASSUME KvmInv, NEW timer \in {"debounce", "poll"}, Probe(timer)
  PROVE  KvmInv'
<1> DEFINE s == [st EXCEPT ![timer] = FALSE]
<1>1. st \in StateTypes /\ source \in SourceTypes
  BY TypeParts DEF KvmInv
<1>2. /\ s \in StateTypes /\ s.signal = st.signal /\ s.mode = st.mode
      /\ s.watch = st.watch /\ s.prev = st.prev
  BY <1>1, TimerOff
<1>3. /\ source' = source
      /\ \/ SignalLost(s)
         \/ st' = s /\ UNCHANGED <<driver, ready, content, master, kc, screen>>
         \/ source.mode # NoMode /\ Restream(s, source.mode)
  BY DEF Probe
<1> HIDE DEF s
<1>4. CASE SignalLost(s)
  BY <1>2, <1>3, <1>4, LostKeeps
<1>5. CASE st' = s /\ UNCHANGED <<driver, ready, content, master, kc, screen>>
  <2>1. st.watch => st.signal
    BY DEF KvmInv, Watching
  <2> QED BY <1>1, <1>2, <1>3, <1>5, <2>1, StateStays
<1>6. CASE source.mode # NoMode /\ Restream(s, source.mode)
  <2>1. source.mode \in Modes
    BY <1>1, <1>6 DEF SourceTypes
  <2> QED BY <1>2, <1>3, <1>6, <2>1, RestreamKeeps
<1> QED BY <1>3, <1>4, <1>5, <1>6

-----------------------------------------------------------------------------
(* Frames. *)

\* sremfb_kvm_frame: the rectangles hold every tile in which the frame differs
\* from the one before, so the master image becomes the frame.
LEMMA FrameKeeps ==
  ASSUME KvmInv, Frame
  PROVE  KvmInv'
<1> DEFINE b == Head(ready)
           image(rects) == [t \in Tiles |-> IF t \in rects THEN content[b][t] ELSE master[t]]
<1>1. /\ source \in SourceTypes /\ st \in StateTypes
      /\ driver \subseteq Bufs /\ ready \in Seq(Bufs)
      /\ content \in [Bufs -> Images] /\ master \in Images
  BY TypeParts DEF KvmInv
<1>2. /\ driver \cap ToSet(ready) = {}
      /\ \A i, j \in DOMAIN ready : ready[i] = ready[j] => i = j
      /\ st.prev \notin driver /\ st.prev \notin ToSet(ready)
      /\ st.prev # NoBuf => master = content[st.prev]
  BY DEF KvmInv, BufferOnePlace, MasterIsPrevious
<1>3. st.watch /\ st.signal /\ st.mode # NoMode
  BY DEF KvmInv, Watching, Frame
<1>4. ready # <<>>
  BY DEF Frame
<1>5. PICK rects \in Damage(b) :
        /\ master' = image(rects)
        /\ Fanout(rects, master', st.mode)
        /\ driver' = Released(b)
        /\ st' = [st EXCEPT !.prev = b]
  BY DEF Frame
<1>6. ready' = Tail(ready) /\ content' = content /\ source' = source
  BY DEF Frame
<1> HIDE DEF b
<1>7. /\ b \in Bufs /\ b \in ToSet(ready) /\ ready' \in Seq(Bufs)
      /\ ToSet(ready') \subseteq ToSet(ready) \ {b}
      /\ \A i, j \in DOMAIN ready' : ready'[i] = ready'[j] => i = j
  BY <1>1, <1>2, <1>4, <1>6, HeadTail DEF b
<1>8. content[b] \in Images /\ b # NoBuf /\ b # st.prev
  BY <1>1, <1>2, <1>7, KvmAssumption
<1>9. /\ rects \in SUBSET Tiles
      /\ \A t \in Tiles : t \in rects \/ (st.prev # NoBuf /\ content[b][t] = content[st.prev][t])
  <2> DEFINE dirty == {t \in Tiles : st.prev = NoBuf \/ content[b][t] # content[st.prev][t]}
  <2>1. rects \in SUBSET Tiles /\ dirty \subseteq rects
    BY <1>5 DEF Damage
  <2> QED BY <2>1
<1>10. master' \in Images
  BY <1>1, <1>5, <1>8 DEF Images
<1>11. \A t \in Tiles \ rects : master'[t] = master[t]
  BY <1>5, <1>9
<1>12. master' = content[b]
  <2>1. \A t \in Tiles : master'[t] = content[b][t]
    BY <1>2, <1>5, <1>9
  <2> QED BY <1>8, <1>10, <2>1 DEF Images
<1>13. st.prev = NoBuf => rects = Tiles
  BY <1>9
<1>14. /\ st' \in StateTypes /\ st'.prev = b /\ st'.mode = st.mode
       /\ st'.signal = st.signal /\ st'.watch = st.watch
  BY <1>1, <1>5, <1>7 DEF StateTypes
<1>15. /\ kc' \in [Clients -> ClientTypes] /\ screen' \in [Clients -> ScreenTypes]
       /\ \A c \in Clients : Fits(kc'[c], st') /\ Pictured(kc'[c], screen'[c], st', master')
  <2>1. KvmTypeOK /\ ClientsTrue
    BY DEF KvmInv
  <2> QED BY <1>3, <1>5, <1>9, <1>10, <1>11, <1>13, <1>14, <2>1, FanoutTrue
<1>16. driver' = (driver \cup {st.prev}) \ {b, NoBuf}
  BY <1>5 DEF Released
<1>17. st.prev \in Bufs \cup {NoBuf}
  BY <1>1 DEF StateTypes
<1>18. driver' \subseteq Bufs
  BY <1>1, <1>16, <1>17
<1>19. KvmTypeOK'
  BY <1>1, <1>6, <1>7, <1>10, <1>14, <1>15, <1>18, TypesNext
<1>20. Watching'
  BY <1>3, <1>14 DEF Watching
<1>21. BufferOnePlace'
  <2>1. driver' \cap ToSet(ready') = {}
    BY <1>2, <1>7, <1>16
  <2>2. st'.prev \notin driver' \cup ToSet(ready')
    BY <1>7, <1>14, <1>16
  <2> QED BY <1>7, <2>1, <2>2 DEF BufferOnePlace
<1>22. MasterIsPrevious'
  BY <1>6, <1>12, <1>14 DEF MasterIsPrevious
<1>23. ClientsTrue'
  BY <1>15 DEF ClientsTrue
<1> QED BY <1>19, <1>20, <1>21, <1>22, <1>23 DEF KvmInv

\* The driver writes its own buffers only.
LEMMA FillKeeps ==
  ASSUME KvmInv, NEW b \in Bufs, Fill(b)
  PROVE  KvmInv'
<1>1. /\ source \in SourceTypes /\ st \in StateTypes
      /\ driver \subseteq Bufs /\ ready \in Seq(Bufs)
      /\ content \in [Bufs -> Images] /\ master \in Images
      /\ kc \in [Clients -> ClientTypes] /\ screen \in [Clients -> ScreenTypes]
  BY TypeParts DEF KvmInv
<1>2. /\ driver \cap ToSet(ready) = {}
      /\ \A i, j \in DOMAIN ready : ready[i] = ready[j] => i = j
      /\ st.prev \notin driver /\ st.prev \notin ToSet(ready)
      /\ st.prev # NoBuf => master = content[st.prev]
  BY DEF KvmInv, BufferOnePlace, MasterIsPrevious
<1>3. /\ b \in driver /\ driver' = driver \ {b} /\ ready' = Append(ready, b)
      /\ content' = [content EXCEPT ![b] = source.pic]
      /\ UNCHANGED <<source, st, master, kc, screen>>
  BY DEF Fill
<1>4. b \notin ToSet(ready)
  BY <1>2, <1>3
<1>5. /\ ready' \in Seq(Bufs) /\ ToSet(ready') = ToSet(ready) \cup {b}
      /\ \A i, j \in DOMAIN ready' : ready'[i] = ready'[j] => i = j
  BY <1>1, <1>2, <1>3, <1>4, AppendNew
<1>6. source.pic \in Images
  BY <1>1 DEF SourceTypes, Images
<1>7. content' \in [Bufs -> Images]
  BY <1>1, <1>3, <1>6
<1>8. KvmTypeOK'
  BY <1>1, <1>3, <1>5, <1>7, TypesNext
<1>9. Watching'
  BY <1>3 DEF KvmInv, Watching
<1>10. BufferOnePlace'
  BY <1>2, <1>3, <1>5 DEF BufferOnePlace
<1>11. MasterIsPrevious'
  <2>1. st.prev # NoBuf => st.prev \in Bufs /\ st.prev # b
    BY <1>1, <1>2, <1>3 DEF StateTypes
  <2>2. st.prev # NoBuf => content'[st.prev] = content[st.prev]
    BY <1>1, <1>3, <2>1
  <2> QED BY <1>2, <1>3, <2>2 DEF MasterIsPrevious
<1>12. ClientsTrue'
  BY <1>3 DEF KvmInv, ClientsTrue
<1> QED BY <1>8, <1>9, <1>10, <1>11, <1>12 DEF KvmInv

LEMMA FrameErrorKeeps ==
  ASSUME KvmInv, FrameError
  PROVE  KvmInv'
<1>1. st \in StateTypes /\ source \in SourceTypes
  BY TypeParts DEF KvmInv
<1>2. TRUE \in BOOLEAN /\ FALSE \in BOOLEAN
  OBVIOUS
<1>3. /\ st' = [st EXCEPT !.watch = FALSE, !.signal = FALSE, !.debounce = TRUE]
      /\ UNCHANGED <<source, driver, ready, content, master, kc, screen>>
  BY DEF FrameError
<1>4. /\ st' \in StateTypes /\ st'.prev = st.prev /\ st'.mode = st.mode
      /\ ~st'.watch /\ ~st'.signal
  BY <1>1, <1>2, <1>3 DEF StateTypes
<1> QED BY <1>1, <1>3, <1>4, StateStays

LEMMA OnEventKeeps ==
  ASSUME KvmInv, OnEvent
  PROVE  KvmInv'
<1>1. st \in StateTypes /\ source \in SourceTypes
  BY TypeParts DEF KvmInv
<1>2. TRUE \in BOOLEAN /\ FALSE \in BOOLEAN
  OBVIOUS
<1>3. /\ source' = [source EXCEPT !.event = FALSE] /\ st' = [st EXCEPT !.debounce = TRUE]
      /\ UNCHANGED <<driver, ready, content, master, kc, screen>>
  BY DEF OnEvent
<1>4. source' \in SourceTypes
  BY <1>1, <1>2, <1>3 DEF SourceTypes
<1>5. /\ st' \in StateTypes /\ st'.prev = st.prev /\ st'.mode = st.mode
      /\ st'.watch = st.watch /\ st'.signal = st.signal
  BY <1>1, <1>2, <1>3 DEF StateTypes
<1>6. st.watch => st.signal
  BY DEF KvmInv, Watching
<1> QED BY <1>3, <1>4, <1>5, <1>6, StateStays

\* The target moves: nothing of the server does.
LEMMA TargetKeeps ==
  ASSUME KvmInv, source' \in SourceTypes,
         UNCHANGED <<st, driver, ready, content, master, kc, screen>>
  PROVE  KvmInv'
<1>1. st \in StateTypes
  BY TypeParts DEF KvmInv
<1>2. st.watch => st.signal
  BY DEF KvmInv, Watching
<1> QED BY <1>1, <1>2, StateStays

LEMMA TargetModeKeeps ==
  ASSUME KvmInv, NEW m \in Modes \cup {NoMode}, TargetMode(m)
  PROVE  KvmInv'
<1> DEFINE pic == [t \in Tiles |-> IF m = NoMode THEN Black ELSE <<m, 0>>]
<1>1. /\ source' = [mode |-> m, event |-> TRUE, pic |-> pic]
      /\ UNCHANGED <<st, driver, ready, content, master, kc, screen>>
  BY DEF TargetMode
<1>2. pic \in [Tiles -> Pixels]
  BY DEF Pixels
<1>3. TRUE \in BOOLEAN
  OBVIOUS
<1> HIDE DEF pic
<1>4. source' \in SourceTypes
  BY <1>1, <1>2, <1>3 DEF SourceTypes
<1> QED BY <1>1, <1>4, TargetKeeps

LEMMA TargetDrawsKeeps ==
  ASSUME KvmInv, source.mode # NoMode,
         NEW pic \in Pictures(source.mode), TargetDraws(pic)
  PROVE  KvmInv'
<1>1. source \in SourceTypes
  BY TypeParts DEF KvmInv
<1>2. source.mode \in Modes
  BY <1>1 DEF SourceTypes
<1>3. pic \in [Tiles -> Pixels]
  BY <1>2 DEF Pictures, Pixels
<1>4. /\ source' = [source EXCEPT !.pic = pic]
      /\ UNCHANGED <<st, driver, ready, content, master, kc, screen>>
  BY DEF TargetDraws
<1>5. source' \in SourceTypes
  BY <1>1, <1>3, <1>4 DEF SourceTypes
<1> QED BY <1>4, <1>5, TargetKeeps

-----------------------------------------------------------------------------
(* Clients. *)

\* A step that changes one client.
LEMMA OneClient ==
  ASSUME KvmInv, NEW c \in Clients, NEW k \in ClientTypes, NEW sc \in ScreenTypes,
         kc' = [kc EXCEPT ![c] = k], screen' = [screen EXCEPT ![c] = sc],
         Fits(k, st), Pictured(k, sc, st, master),
         UNCHANGED <<source, st, driver, ready, content, master>>
  PROVE  KvmInv'
<1>1. /\ source \in SourceTypes /\ st \in StateTypes
      /\ driver \subseteq Bufs /\ ready \in Seq(Bufs)
      /\ content \in [Bufs -> Images] /\ master \in Images
      /\ kc \in [Clients -> ClientTypes] /\ screen \in [Clients -> ScreenTypes]
  BY TypeParts DEF KvmInv
<1>2. kc' \in [Clients -> ClientTypes] /\ screen' \in [Clients -> ScreenTypes]
  BY <1>1
<1>3. KvmTypeOK'
  BY <1>1, <1>2, TypesNext
<1>4. Watching' /\ BufferOnePlace' /\ MasterIsPrevious'
  BY DEF KvmInv, Watching, BufferOnePlace, MasterIsPrevious
<1>5. ASSUME NEW e \in Clients
      PROVE  Fits(kc'[e], st) /\ Pictured(kc'[e], screen'[e], st, master)
  <2>1. CASE e = c
    BY <1>1, <2>1
  <2>2. CASE e # c
    <3>1. kc'[e] = kc[e] /\ screen'[e] = screen[e]
      BY <1>1, <2>2
    <3> QED BY <3>1 DEF KvmInv, ClientsTrue
  <2> QED BY <2>1, <2>2
<1>6. ClientsTrue'
  BY <1>5 DEF ClientsTrue
<1> QED BY <1>3, <1>4, <1>6 DEF KvmInv

\* kvm_acquire: a client that comes gets the image at once when there is one,
\* and waits for it otherwise.
LEMMA AcquireKeeps ==
  ASSUME KvmInv, NEW c \in Clients, NEW m \in Modes, KvmAcquire(c, m)
  PROVE  KvmInv'
<1> DEFINE mode == IF st.signal THEN st.mode ELSE NoMode
           geom == IF conf.geometry = "source" /\ mode # NoMode THEN mode ELSE m
           new == [NoClient EXCEPT !.streaming = TRUE, !.geom = geom, !.fit = mode]
           now == mode # NoMode /\ st.prev # NoBuf
           wait == mode # NoMode
           k == IF now THEN Repainted(new, master, mode) ELSE [new EXCEPT !.repaint = wait]
           sc == [NoScreen EXCEPT !.lit = wait]
<1>1. st \in StateTypes /\ master \in Images
  BY TypeParts DEF KvmInv
<1>2. /\ kc' = [kc EXCEPT ![c] = k] /\ screen' = [screen EXCEPT ![c] = sc]
      /\ UNCHANGED <<source, st, driver, ready, content, master>>
  BY DEF KvmAcquire
<1>3. mode \in Modes \cup {NoMode}
  BY <1>1 DEF StateTypes
<1>4. geom \in Modes \cup {NoMode}
  BY <1>3
<1>5. wait \in BOOLEAN /\ TRUE \in BOOLEAN
  OBVIOUS
<1>6. st.signal => wait /\ mode = st.mode
  BY DEF KvmInv, Watching
<1>7. ~st.signal => ~wait
  OBVIOUS
<1>13. st.mode = NoMode => ~st.signal
  BY DEF KvmInv, Watching
<1> HIDE DEF mode, geom
<1>8. /\ new \in ClientTypes /\ new.streaming /\ ~new.lost
      /\ new.geom = geom /\ new.fit = mode
  BY <1>3, <1>4, <1>5, NoBufTyped DEF ClientTypes, NoClient
<1>9. sc \in ScreenTypes /\ sc.lit = wait
  BY <1>5, NoBufTyped DEF ScreenTypes
<1> HIDE DEF new, sc
<1>10. CASE now
  <2>1. k = Repainted(new, master, mode) /\ wait
    BY <1>10
  <2> HIDE DEF k
  <2>2. Whole(k, new, master, mode)
    BY <1>1, <1>8, <2>1, RepaintedTrue
  <2>3. k \in ClientTypes /\ k.fit = mode /\ k.grab = Fitted(master, mode, k.geom)
    BY <1>8, <2>2 DEF Whole
  <2>4. st.signal
    BY <1>7, <2>1
  <2>5. Fits(k, st) /\ Pictured(k, sc, st, master)
    BY <1>6, <1>9, <1>13, <2>1, <2>3, <2>4 DEF Fits, Pictured
  <2> QED BY <1>2, <1>9, <2>3, <2>5, OneClient
<1>11. CASE ~now
  <2>1. k = [new EXCEPT !.repaint = wait]
    BY <1>11
  <2> HIDE DEF k, wait
  <2>2. k \in ClientTypes /\ k.fit = mode /\ k.repaint = wait
    BY <1>5, <1>8, <2>1 DEF ClientTypes
  <2>3. Fits(k, st) /\ Pictured(k, sc, st, master)
    BY <1>6, <1>7, <1>9, <1>13, <2>2 DEF Fits, Pictured
  <2> QED BY <1>2, <1>9, <2>2, <2>3, OneClient
<1> QED BY <1>10, <1>11

LEMMA ReleaseKeeps ==
  ASSUME KvmInv, NEW c \in Clients, KvmRelease(c)
  PROVE  KvmInv'
<1>1. Fits(NoClient, st) /\ Pictured(NoClient, NoScreen, st, master)
  BY DEF NoClient, Fits, Pictured
<1> QED BY <1>1, NoBufTyped, OneClient DEF KvmRelease

LEMMA DeliverKeeps ==
  ASSUME KvmInv, NEW c \in Clients, Deliver(c)
  PROVE  KvmInv'
<1> DEFINE k == [kc[c] EXCEPT !.dirty = FALSE]
           sc == [lit |-> TRUE, pic |-> kc[c].grab]
<1>1. kc[c] \in ClientTypes /\ screen[c] \in ScreenTypes
  BY TypeParts DEF KvmInv
<1>2. TRUE \in BOOLEAN /\ FALSE \in BOOLEAN
  OBVIOUS
<1>3. /\ kc' = [kc EXCEPT ![c] = k] /\ screen' = [screen EXCEPT ![c] = sc]
      /\ UNCHANGED <<source, st, driver, ready, content, master>>
  BY DEF Deliver
<1>4. /\ k \in ClientTypes /\ k.streaming = kc[c].streaming /\ k.lost = kc[c].lost
      /\ k.fit = kc[c].fit /\ k.repaint = kc[c].repaint /\ k.grab = kc[c].grab
      /\ k.geom = kc[c].geom
  BY <1>1, <1>2 DEF ClientTypes
<1>5. sc \in ScreenTypes /\ sc.lit /\ sc.pic = kc[c].grab
  BY <1>1, <1>2 DEF ClientTypes, ScreenTypes
<1> HIDE DEF k, sc
<1>6. Fits(kc[c], st) /\ Pictured(kc[c], screen[c], st, master)
  BY DEF KvmInv, ClientsTrue
<1>7. Fits(k, st) /\ Pictured(k, sc, st, master)
  BY <1>4, <1>5, <1>6 DEF Fits, Pictured
<1> QED BY <1>3, <1>4, <1>5, <1>7, OneClient

LEMMA SnapshotKeeps ==
  ASSUME KvmInv, NEW c \in Clients, Snapshot(c)
  PROVE  KvmInv'
<1> DEFINE k == [kc[c] EXCEPT !.dirty = TRUE]
           sc == screen[c]
<1>1. kc[c] \in ClientTypes /\ sc \in ScreenTypes /\ screen \in [Clients -> ScreenTypes]
  BY TypeParts DEF KvmInv
<1>2. TRUE \in BOOLEAN
  OBVIOUS
<1>3. /\ kc' = [kc EXCEPT ![c] = k] /\ screen' = [screen EXCEPT ![c] = sc]
      /\ UNCHANGED <<source, st, driver, ready, content, master>>
  BY <1>1 DEF Snapshot
<1>4. /\ k \in ClientTypes /\ k.streaming = kc[c].streaming /\ k.lost = kc[c].lost
      /\ k.fit = kc[c].fit /\ k.repaint = kc[c].repaint /\ k.grab = kc[c].grab
      /\ k.geom = kc[c].geom
  BY <1>1, <1>2 DEF ClientTypes
<1> HIDE DEF k
<1>5. Fits(kc[c], st) /\ Pictured(kc[c], sc, st, master)
  BY DEF KvmInv, ClientsTrue
<1> HIDE DEF sc
<1>6. Fits(k, st) /\ Pictured(k, sc, st, master)
  BY <1>4, <1>5 DEF Fits, Pictured
<1> QED BY <1>1, <1>3, <1>4, <1>6, OneClient

-----------------------------------------------------------------------------
LEMMA KvmStart == KvmInit => KvmInv
<1> SUFFICES ASSUME KvmInit
             PROVE  KvmInv
  OBVIOUS
<1>1. TRUE \in BOOLEAN /\ FALSE \in BOOLEAN
  OBVIOUS
<1>2. source \in SourceTypes /\ st \in StateTypes
  BY <1>1, BlackTyped DEF KvmInit, SourceTypes, StateTypes, Images
<1>3. kc \in [Clients -> ClientTypes] /\ screen \in [Clients -> ScreenTypes]
  BY NoBufTyped DEF KvmInit
<1>4. KvmTypeOK
  BY <1>2, <1>3, TypeParts, BlackTyped, CleanBuffers, NoneReady DEF KvmInit
<1>5. Watching /\ BufferOnePlace /\ MasterIsPrevious
  BY NoneReady DEF KvmInit, Watching, BufferOnePlace, MasterIsPrevious
<1>6. ClientsTrue
  BY DEF KvmInit, ClientsTrue, NoClient, Fits, Pictured
<1> QED BY <1>4, <1>5, <1>6 DEF KvmInv

LEMMA KvmStep == KvmInv /\ [KvmNext]_kvmVars => KvmInv'
<1> SUFFICES ASSUME KvmInv, [KvmNext]_kvmVars
             PROVE  KvmInv'
  OBVIOUS
<1>1. CASE UNCHANGED kvmVars
  <2>1. UNCHANGED <<source, st, driver, ready, content, master, kc, screen>>
    BY <1>1 DEF kvmVars
  <2>2. source \in SourceTypes
    BY TypeParts DEF KvmInv
  <2> QED BY <2>1, <2>2, TargetKeeps
<1>2. CASE Probe("debounce") \/ Probe("poll")
  BY <1>2, ProbeKeeps
<1>3. CASE OnEvent \/ Frame \/ FrameError
  BY <1>3, OnEventKeeps, FrameKeeps, FrameErrorKeeps
<1>4. CASE \E b \in Bufs : Fill(b)
  BY <1>4, FillKeeps
<1>5. CASE \E m \in Modes \cup {NoMode} : TargetMode(m)
  BY <1>5, TargetModeKeeps
<1>6. CASE \E pic \in Pictures(source.mode) : source.mode # NoMode /\ TargetDraws(pic)
  BY <1>6, TargetDrawsKeeps
<1>7. CASE \E c \in Clients : \/ \E m \in Modes : KvmAcquire(c, m)
                              \/ KvmRelease(c) \/ Deliver(c) \/ Snapshot(c)
  BY <1>7, AcquireKeeps, ReleaseKeeps, DeliverKeeps, SnapshotKeeps
<1> QED BY <1>1, <1>2, <1>3, <1>4, <1>5, <1>6, <1>7 DEF KvmNext

LEMMA KvmHolds == KvmSpec => []KvmInv
BY KvmStart, KvmStep, PTL DEF KvmSpec

\* Types are kept: the reference frame is a buffer of the stream in force, and
\* what a client draws is made of pixels the target showed, or black.
THEOREM KvmTypeCorrect == KvmSpec => []KvmTypeOK
<1>1. KvmInv => KvmTypeOK
  BY DEF KvmInv
<1> QED BY <1>1, KvmHolds, PTL

\* Under every order of frames, probes, polls, failed dequeues, arrivals and
\* mode changes, with any number of buffers, tiles and clients, the frame kept
\* for the comparison is not the driver's and is the master image, and every
\* client that is not being cut has that image, letterboxed, or waits for all of
\* it; without a signal its panel is dark, or a frame that left after the BLANK
\* has lit it again and it shows what the client's buffer holds
\* (sremfb_kvm_frame, fanout, apply_resize, kvm_acquire, blank_all, set_blank).
THEOREM PictureAlwaysKept == KvmSpec => []PictureKept
<1>1. KvmInv => PictureKept
  <2> SUFFICES ASSUME KvmInv
               PROVE  PictureKept
    OBVIOUS
  <2>1. PreviousKept
    BY DEF KvmInv, BufferOnePlace, MasterIsPrevious, PreviousKept
  <2>2. PictureTrue
    BY DEF KvmInv, ClientsTrue, Pictured, PictureTrue
  <2> QED BY <2>1, <2>2 DEF PictureKept
<1> QED BY <1>1, KvmHolds, PTL

(***************************************************************************)
(* Encoder: the inductive invariant.                                       *)
(***************************************************************************)
\* Between two calls there is nothing of one; a call finds the last unit sent.
Control ==
  /\ IF call.on THEN ~enc.failed /\ ~au.sending /\ enc.held = NoCap /\ enc.seq > 0
     ELSE call = NoCall
  /\ IF au.sending THEN ~enc.failed /\ au.buf = enc.held /\ au.of = enc.seq
     ELSE au = NoUnit

\* A CAPTURE buffer is in one place: with the driver, filled, or lent.
OnePlace ==
  /\ enc.held \notin enc.cap
  /\ \A i \in DOMAIN capq : capq[i].buf \notin enc.cap /\ capq[i].buf # enc.held
  /\ \A i, j \in DOMAIN capq : capq[i].buf = capq[j].buf => i = j
  /\ CapBufs = enc.cap \cup {capq[i].buf : i \in DOMAIN capq} \cup ({enc.held} \ {NoCap})

\* No piece comes before its frame, and only slices open an episode.
Stamped(n, p) == p.ts <= n /\ (p.idr => p.kind = "slice")
StampsOf(n, q, todo) ==
  /\ \A i \in DOMAIN q : Stamped(n, q[i].piece)
  /\ \A k \in DOMAIN todo :
       /\ Len(todo[k].left) \in {1, 2}
       /\ \A m \in DOMAIN todo[k].left : Stamped(n, todo[k].left[m])

\* The whole unit of frame n.
WholeUnit(n, w) ==
  /\ Len(w) \in {1, 2}
  /\ w[1].kind = "slice" /\ w[1].ts = n
  /\ Len(w) = 2 => w[1].full /\ w[2].kind = "rest" /\ w[2].ts = n /\ ~w[2].full

\* What call c has is the beginning of the unit, and ends in a full buffer.
Begun(w, c) ==
  \/ c.got = <<>> /\ ~c.vcl /\ ~c.idr
  \/ c.got = <<w[1]>> /\ c.vcl /\ w[1].full /\ (c.idr => w[1].idr)

\* A piece with the stamp of the frame belongs to the unit; headers of their
\* own go with a unit of one buffer.
Belongs(n, w, p) ==
  p.ts = n => /\ p.kind = "slice" => p = w[1]
              /\ p.kind = "rest" => Len(w) = 2 /\ p = w[2]
              /\ p.kind = "headers" => ~w[1].full

\* The places of the pieces of frame n and one kind, in the queue and in a unit.
AtQ(q, n, kind) == {i \in DOMAIN q : q[i].piece.ts = n /\ q[i].piece.kind = kind}
AtL(left, n, kind) == {m \in DOMAIN left : left[m].ts = n /\ left[m].kind = kind}

\* The pieces of the unit pass in order: first what the call has, then what is
\* queued, then what is left in the firmware.
Order(n, got, q, left) ==
  /\ \A i, j \in AtQ(q, n, "slice") : i = j
  /\ \A i, j \in AtQ(q, n, "rest") : i = j
  /\ \A i \in AtQ(q, n, "slice"), j \in AtQ(q, n, "rest") : i < j
  /\ AtQ(q, n, "slice") # {} => got = <<>>
  /\ AtQ(q, n, "rest") # {} /\ got = <<>> => AtQ(q, n, "slice") # {}
  /\ \A i, j \in AtL(left, n, "slice") : i = j
  /\ \A i \in AtL(left, n, "slice"), j \in AtL(left, n, "rest") : i < j
  /\ \A i \in AtL(left, n, "rest") : i = Len(left)
  /\ AtL(left, n, "slice") # {} =>
       got = <<>> /\ AtQ(q, n, "slice") = {} /\ AtQ(q, n, "rest") = {}
  /\ AtL(left, n, "rest") # {} =>
       /\ AtQ(q, n, "rest") = {}
       /\ got = <<>> => AtQ(q, n, "slice") # {} \/ AtL(left, n, "slice") # {}

LastLeft(todo) == IF todo = <<>> THEN <<>> ELSE todo[Len(todo)].left

Flows(n, w, got, q, todo) ==
  /\ \A i \in DOMAIN q : Belongs(n, w, q[i].piece)
  /\ \A m \in DOMAIN LastLeft(todo) : Belongs(n, w, LastLeft(todo)[m])
  /\ \A k \in DOMAIN todo : k < Len(todo) =>
       \A m \in DOMAIN todo[k].left : todo[k].left[m].ts < n
  /\ Order(n, got, q, LastLeft(todo))

Stamps == StampsOf(enc.seq, capq, firmware.todo)

InCall ==
  call.on => /\ WholeUnit(enc.seq, firmware.whole) /\ Begun(firmware.whole, call)
             /\ Flows(enc.seq, firmware.whole, call.got, capq, firmware.todo)

\* A unit that is being sent.
Sending ==
  au.sending =>
    /\ au.got # <<>> /\ \A i \in DOMAIN au.got : au.got[i].ts = enc.seq
    /\ au.force => \E i \in DOMAIN au.got : au.got[i].idr
    /\ ~late => au.got = firmware.whole

EncoderInv == EncoderTypeOK /\ Control /\ OnePlace /\ Stamps /\ InCall /\ Sending

(***************************************************************************)
(* Types.                                                                  *)
(***************************************************************************)
Encs == [seq : 0 .. MaxFrames, held : CapBufs \cup {NoCap}, cap : SUBSET CapBufs,
         out : SUBSET OutBufs, failed : BOOLEAN]
Calls == [on : BOOLEAN, force : BOOLEAN, idr : BOOLEAN, vcl : BOOLEAN,
          pieces : BOOLEAN, got : Seq(Pieces)]
Units == [of : 0 .. MaxFrames, force : BOOLEAN, got : Seq(Pieces),
          buf : CapBufs \cup {NoCap}, sending : BOOLEAN]
Todos == [out : OutBufs, left : Seq(Pieces)]
Firmwares == [todo : Seq(Todos), whole : Seq(Pieces), back : SUBSET OutBufs]
Fills == [buf : CapBufs, piece : Pieces]

LEMMA Typed ==
  EncoderTypeOK <=>
    /\ enc \in Encs /\ call \in Calls /\ au \in Units /\ firmware \in Firmwares
    /\ capq \in Seq(Fills) /\ late \in BOOLEAN /\ refuse \in 0 .. MaxRefuse
BY DEF EncoderTypeOK, Encs, Calls, Units, Todos, Firmwares, Fills

LEMMA NoneTyped ==
  NoCall \in Calls /\ NoUnit \in Units
<1>1. <<>> \in Seq(Pieces) /\ 0 \in 0 .. MaxFrames
  BY EncoderAssumption
<1> QED
  BY <1>1 DEF NoCall, NoUnit, Calls, Units

\* Sequences of one and of two elements.
LEMMA OneSeq ==
  ASSUME NEW S, NEW a \in S
  PROVE  <<a>> \in Seq(S) /\ Len(<<a>>) = 1 /\ <<a>>[1] = a /\ DOMAIN <<a>> = {1}
OBVIOUS

LEMMA SamePair ==
  ASSUME NEW S, NEW s \in Seq(S), NEW t \in Seq(S), Len(s) = 2, Len(t) = 2,
         s[1] = t[1], s[2] = t[2]
  PROVE  s = t
BY SeqEqual

LEMMA TwoSeq ==
  ASSUME NEW S, NEW a \in S, NEW b \in S
  PROVE  /\ <<a, b>> \in Seq(S) /\ Len(<<a, b>>) = 2 /\ <<a, b>>[1] = a /\ <<a, b>>[2] = b
         /\ DOMAIN <<a, b>> = {1, 2} /\ Tail(<<a, b>>) = <<b>>
OBVIOUS

LEMMA AppendSecond ==
  ASSUME NEW a \in Pieces, NEW b \in Pieces
  PROVE  Append(<<a>>, b) = <<a, b>>
<1>1. <<a>> \in Seq(Pieces) /\ Len(<<a>>) = 1 /\ <<a>>[1] = a
  OBVIOUS
<1>2. <<a, b>> \in Seq(Pieces) /\ Len(<<a, b>>) = 2 /\ <<a, b>>[1] = a /\ <<a, b>>[2] = b
  OBVIOUS
<1>3. Append(<<a>>, b) \in Seq(Pieces) /\ Len(Append(<<a>>, b)) = 2
      /\ Append(<<a>>, b)[1] = a /\ Append(<<a>>, b)[2] = b
  BY <1>1, AppendProperties
<1> QED
  BY <1>2, <1>3, SamePair, Zenon

\* A shape is a unit of one or two pieces of its frame.
LEMMA ShapeOfFrame ==
  ASSUME NEW n \in 1 .. MaxFrames, NEW idr \in BOOLEAN, NEW sh \in Shapes(n, idr)
  PROVE  /\ sh \in Seq(Pieces) /\ Body(sh) \in Seq(Pieces)
         /\ Len(sh) \in {1, 2} /\ Len(Body(sh)) \in {1, 2}
         /\ \A m \in DOMAIN sh : sh[m].ts <= n /\ (sh[m].idr => sh[m].kind = "slice")
         /\ Body(sh)[1].kind = "slice" /\ Body(sh)[1].ts = n
         /\ \/ /\ Len(sh) = 1 /\ Body(sh) = sh
            \/ /\ Len(sh) = 2 /\ Body(sh) = sh /\ sh[1].full
               /\ sh[2].kind = "rest" /\ sh[2].ts = n /\ ~sh[2].full
            \/ /\ Len(sh) = 2 /\ Len(Body(sh)) = 1 /\ Body(sh)[1] = sh[2]
               /\ sh[1].kind = "headers" /\ ~sh[2].full
<1>1. \A ts \in 0 .. MaxFrames : \A full \in BOOLEAN :
        /\ Piece(ts, "slice", full, idr) \in Pieces
        /\ Piece(ts, "rest", full, FALSE) \in Pieces
        /\ Piece(ts, "headers", full, FALSE) \in Pieces
  BY DEF Piece, Pieces
<1>2. n \in 0 .. MaxFrames /\ 0 \in 0 .. MaxFrames /\ n \in Nat
  BY EncoderAssumption
<1>4. CASE \E a \in Pieces : sh = <<a>> /\ a.kind = "slice" /\ a.ts = n
  <2> PICK a \in Pieces : sh = <<a>> /\ a.kind = "slice" /\ a.ts = n
    BY <1>4
  <2>1. sh \in Seq(Pieces) /\ Len(sh) = 1 /\ sh[1] = a /\ DOMAIN sh = {1}
    BY OneSeq
  <2>2. Body(sh) = sh
    BY <2>1 DEF Body
  <2>3. \A m \in DOMAIN sh : sh[m].ts <= n /\ (sh[m].idr => sh[m].kind = "slice")
    BY <2>1, <1>2
  <2>4. Len(sh) \in {1, 2} /\ sh[1].kind = "slice" /\ sh[1].ts = n
    BY <2>1
  <2> QED
    BY <2>1, <2>2, <2>3, <2>4, Zenon
<1>5. CASE \E a, b \in Pieces :
             /\ sh = <<a, b>> /\ a.kind = "slice" /\ a.ts = n /\ a.full
             /\ b.kind = "rest" /\ b.ts = n /\ ~b.full /\ ~b.idr
  <2> PICK a \in Pieces, b \in Pieces :
             /\ sh = <<a, b>> /\ a.kind = "slice" /\ a.ts = n /\ a.full
             /\ b.kind = "rest" /\ b.ts = n /\ ~b.full /\ ~b.idr
    BY <1>5
  <2>1. sh \in Seq(Pieces) /\ Len(sh) = 2 /\ sh[1] = a /\ sh[2] = b /\ DOMAIN sh = {1, 2}
    BY TwoSeq
  <2>2. Body(sh) = sh
    BY <2>1 DEF Body
  <2>3. \A m \in DOMAIN sh : sh[m].ts <= n /\ (sh[m].idr => sh[m].kind = "slice")
    BY <2>1, <1>2
  <2>4. Len(sh) \in {1, 2} /\ sh[1].kind = "slice" /\ sh[1].ts = n
    BY <2>1
  <2> QED
    BY <2>1, <2>2, <2>3, <2>4, Zenon
<1>6. CASE \E a, b \in Pieces :
             /\ sh = <<a, b>> /\ a.kind = "headers" /\ a.ts \in {0, n} /\ ~a.idr
             /\ b.kind = "slice" /\ b.ts = n /\ ~b.full
  <2> PICK a \in Pieces, b \in Pieces :
             /\ sh = <<a, b>> /\ a.kind = "headers" /\ a.ts \in {0, n} /\ ~a.idr
             /\ b.kind = "slice" /\ b.ts = n /\ ~b.full
    BY <1>6
  <2>1. sh \in Seq(Pieces) /\ Len(sh) = 2 /\ sh[1] = a /\ sh[2] = b /\ DOMAIN sh = {1, 2}
    BY TwoSeq
  <2>2. Body(sh) = <<b>>
    BY <2>1, TwoSeq DEF Body
  <2>3. Body(sh) \in Seq(Pieces) /\ Len(Body(sh)) = 1 /\ Body(sh)[1] = b
    BY <2>2, OneSeq
  <2> QED
    BY <2>1, <2>3, <1>2
<1>7. \/ \E full \in BOOLEAN : sh = <<Piece(n, "slice", full, idr)>>
      \/ sh = <<Piece(n, "slice", TRUE, idr), Piece(n, "rest", FALSE, FALSE)>>
      \/ \E ts \in {0, n} : sh = <<Piece(ts, "headers", FALSE, FALSE), Piece(n, "slice", FALSE, idr)>>
  BY DEF Shapes
<1>8. CASE \E full \in BOOLEAN : sh = <<Piece(n, "slice", full, idr)>>
  BY <1>1, <1>2, <1>4, <1>8 DEF Piece
<1>9. CASE sh = <<Piece(n, "slice", TRUE, idr), Piece(n, "rest", FALSE, FALSE)>>
  <2>1. /\ Piece(n, "slice", TRUE, idr).kind = "slice" /\ Piece(n, "slice", TRUE, idr).ts = n
        /\ Piece(n, "slice", TRUE, idr).full
        /\ Piece(n, "rest", FALSE, FALSE).kind = "rest" /\ Piece(n, "rest", FALSE, FALSE).ts = n
        /\ ~Piece(n, "rest", FALSE, FALSE).full /\ ~Piece(n, "rest", FALSE, FALSE).idr
    BY DEF Piece
  <2> QED
    BY <1>1, <1>2, <1>5, <1>9, <2>1
<1>10. CASE \E ts \in {0, n} :
              sh = <<Piece(ts, "headers", FALSE, FALSE), Piece(n, "slice", FALSE, idr)>>
  <2> PICK ts \in {0, n} :
              sh = <<Piece(ts, "headers", FALSE, FALSE), Piece(n, "slice", FALSE, idr)>>
    BY <1>10
  <2>1. /\ Piece(ts, "headers", FALSE, FALSE).kind = "headers"
        /\ Piece(ts, "headers", FALSE, FALSE).ts = ts
        /\ ~Piece(ts, "headers", FALSE, FALSE).idr
        /\ Piece(n, "slice", FALSE, idr).kind = "slice" /\ Piece(n, "slice", FALSE, idr).ts = n
        /\ ~Piece(n, "slice", FALSE, idr).full
    BY DEF Piece
  <2> QED
    BY <1>1, <1>2, <1>6, <2>1
<1> QED
  BY <1>7, <1>8, <1>9, <1>10

(***************************************************************************)
(* The steps.                                                              *)
(***************************************************************************)
LEMMA EncoderInvInit ==
  ASSUME EncoderInit
  PROVE  EncoderInv
<1>1. /\ enc = [seq |-> 0, held |-> NoCap, cap |-> CapBufs, out |-> {}, failed |-> FALSE]
      /\ call = NoCall /\ au = NoUnit /\ capq = <<>> /\ late = FALSE /\ refuse = 0
      /\ firmware = [todo |-> <<>>, whole |-> <<>>, back |-> {}]
  BY DEF EncoderInit
<1>2. EncoderTypeOK
  <2>1. enc \in Encs
    BY <1>1, EncoderAssumption DEF Encs
  <2>2. firmware \in Firmwares /\ capq \in Seq(Fills)
    BY <1>1 DEF Firmwares
  <2>3. call \in Calls /\ au \in Units /\ late \in BOOLEAN
    BY <1>1, NoneTyped
  <2>4. refuse \in 0 .. MaxRefuse
    BY <1>1, EncoderAssumption
  <2> QED
    BY <2>1, <2>2, <2>3, <2>4, Typed
<1>3. Control
  BY <1>1 DEF Control, NoCall, NoUnit
<1>4. OnePlace
  BY <1>1, EncoderAssumption DEF OnePlace
<1>5. Stamps /\ InCall /\ Sending
  BY <1>1 DEF Stamps, StampsOf, InCall, Sending, NoCall, NoUnit
<1> QED
  BY <1>2, <1>3, <1>4, <1>5 DEF EncoderInv

\* The core is done with the unit.
LEMMA UnitSentStep ==
  ASSUME EncoderInv, UnitSent
  PROVE  EncoderInv'
<1>1. /\ au.sending /\ au' = NoUnit /\ enc' = enc /\ call' = call /\ firmware' = firmware
      /\ capq' = capq /\ late' = late /\ refuse' = refuse
  BY DEF UnitSent
<1>2. EncoderTypeOK'
  BY <1>1, NoneTyped DEF EncoderInv, EncoderTypeOK, Units
<1>3. Control'
  BY <1>1 DEF EncoderInv, Control, NoUnit
<1>4. OnePlace' /\ Stamps'
  BY <1>1 DEF EncoderInv, OnePlace, Stamps
<1>5. InCall'
  BY <1>1 DEF EncoderInv, InCall, Control
<1>6. Sending'
  BY <1>1 DEF Sending, NoUnit
<1> QED
  BY <1>2, <1>3, <1>4, <1>5, <1>6 DEF EncoderInv

\* A call that fails: nothing of the unit goes to the core.
LEMMA FailsStep ==
  ASSUME EncoderInv, NEW e \in Encs, Fails(e), ~au.sending, au' = au,
         e.seq = enc.seq, capq' \in Seq(Fills),
         late' \in BOOLEAN, refuse' = refuse,
         e.held \notin e.cap,
         \A i \in DOMAIN capq' : capq'[i].buf \notin e.cap /\ capq'[i].buf # e.held,
         \A i, j \in DOMAIN capq' : capq'[i].buf = capq'[j].buf => i = j,
         CapBufs = e.cap \cup {capq'[i].buf : i \in DOMAIN capq'} \cup ({e.held} \ {NoCap}),
         \A i \in DOMAIN capq' : \E j \in DOMAIN capq : capq'[i].piece = capq[j].piece
  PROVE  EncoderInv'
<1>1. /\ enc' = [[e EXCEPT !.out = @ \ firmware.back] EXCEPT !.failed = TRUE]
      /\ firmware' = [firmware EXCEPT !.back = {}] /\ call' = NoCall
  BY DEF Fails, Reclaimed
<1>2. /\ enc' \in Encs /\ enc'.seq = enc.seq /\ enc'.held = e.held /\ enc'.cap = e.cap
  BY <1>1 DEF Encs
<1>3. firmware \in Firmwares
  BY Typed DEF EncoderInv
<1>4. firmware' \in Firmwares /\ firmware'.todo = firmware.todo /\ firmware'.whole = firmware.whole
  BY <1>1, <1>3 DEF Firmwares
<1>5. EncoderTypeOK'
  BY <1>1, <1>2, <1>4, NoneTyped, Typed DEF EncoderInv, EncoderTypeOK, Encs, Calls, Units, Firmwares, Todos, Fills
<1>6. Control'
  BY <1>1 DEF EncoderInv, Control, NoCall
<1>7. OnePlace'
  BY <1>2 DEF OnePlace
<1>8. Stamps'
  BY <1>2, <1>4 DEF EncoderInv, Stamps, StampsOf
<1>9. InCall' /\ Sending'
  BY <1>1 DEF InCall, Sending, NoCall
<1> QED
  BY <1>5, <1>6, <1>7, <1>8, <1>9 DEF EncoderInv

(***************************************************************************)
(* The queue and the unit in the firmware.                                 *)
(***************************************************************************)
\* A filled buffer joins the queue at its end.
LEMMA QueueGrows ==
  ASSUME NEW q \in Seq(Fills), NEW x \in Fills, NEW n \in Nat, NEW r, r = Append(q, x)
  PROVE  /\ r \in Seq(Fills) /\ DOMAIN r = DOMAIN q \cup {Len(q) + 1}
         /\ Len(q) + 1 \notin DOMAIN q /\ r[Len(q) + 1] = x
         /\ \A i \in DOMAIN q : r[i] = q[i] /\ i \in Nat /\ i < Len(q) + 1
         /\ \A kind : AtQ(r, n, kind) =
              AtQ(q, n, kind) \cup (IF x.piece.ts = n /\ x.piece.kind = kind
                                   THEN {Len(q) + 1} ELSE {})
<1>1. /\ r \in Seq(Fills) /\ DOMAIN r = DOMAIN q \cup {Len(q) + 1}
      /\ Len(q) + 1 \notin DOMAIN q /\ r[Len(q) + 1] = x
      /\ \A i \in DOMAIN q : r[i] = q[i] /\ i \in Nat /\ i < Len(q) + 1
  OBVIOUS
<1>2. ASSUME NEW kind
      PROVE  AtQ(r, n, kind) = AtQ(q, n, kind) \cup (IF x.piece.ts = n /\ x.piece.kind = kind
                                                    THEN {Len(q) + 1} ELSE {})
  BY <1>1 DEF AtQ
<1> QED
  BY <1>1, <1>2

\* The oldest buffer leaves it.
LEMMA QueueShrinks ==
  ASSUME NEW q \in Seq(Fills), q # <<>>, NEW n \in Nat, NEW r, r = Tail(q)
  PROVE  /\ r \in Seq(Fills) /\ 1 \in DOMAIN q /\ Head(q) = q[1] /\ q[1] \in Fills
         /\ \A i \in DOMAIN r : i \in Nat /\ i + 1 \in DOMAIN q /\ i + 1 # 1 /\ r[i] = q[i + 1]
         /\ \A i \in DOMAIN q : i # 1 => i \in Nat /\ i - 1 \in DOMAIN r /\ r[i - 1] = q[i]
<1>1. /\ r \in Seq(Fills) /\ 1 \in DOMAIN q /\ Head(q) = q[1] /\ q[1] \in Fills
      /\ DOMAIN q = 1 .. Len(q) /\ DOMAIN r = 1 .. Len(q) - 1 /\ Len(q) \in Nat
      /\ \A i \in DOMAIN r : r[i] = q[i + 1]
  BY HeadTailProperties
<1>2. \A i \in DOMAIN r : i \in Nat /\ i + 1 \in DOMAIN q /\ i + 1 # 1 /\ r[i] = q[i + 1]
  BY <1>1
<1>3. \A i \in DOMAIN q : i # 1 => i \in Nat /\ i - 1 \in DOMAIN r /\ r[i - 1] = q[i]
  BY <1>1
<1> QED
  BY <1>1, <1>2, <1>3

LEMMA PlacesShrink ==
  ASSUME NEW q \in Seq(Fills), q # <<>>, NEW n \in Nat, NEW kind
  PROVE  AtQ(Tail(q), n, kind) = {i - 1 : i \in AtQ(q, n, kind) \ {1}}
<1> DEFINE r == Tail(q)
<1>1. /\ \A i \in DOMAIN r : i \in Nat /\ i + 1 \in DOMAIN q /\ i + 1 # 1 /\ r[i] = q[i + 1]
      /\ \A i \in DOMAIN q : i # 1 => i \in Nat /\ i - 1 \in DOMAIN r /\ r[i - 1] = q[i]
  BY QueueShrinks
<1> HIDE DEF r
<1>2. ASSUME NEW i \in AtQ(r, n, kind)
      PROVE  \E j \in AtQ(q, n, kind) \ {1} : i = j - 1
  <2>1. i \in DOMAIN r /\ i + 1 \in AtQ(q, n, kind) \ {1} /\ i = (i + 1) - 1
    BY <1>1, <1>2 DEF AtQ
  <2> QED
    BY <2>1
<1>3. ASSUME NEW j \in AtQ(q, n, kind) \ {1}
      PROVE  j - 1 \in AtQ(r, n, kind)
  BY <1>1, <1>3 DEF AtQ
<1>4. AtQ(r, n, kind) = {i - 1 : i \in AtQ(q, n, kind) \ {1}}
  BY <1>2, <1>3
<1> QED
  BY <1>4 DEF r

\* The first piece of a unit leaves the firmware.
LEMMA LeftShrinks ==
  ASSUME NEW left \in Seq(Pieces), Len(left) \in {1, 2}, NEW n \in Nat, NEW r, r = Tail(left)
  PROVE  /\ r \in Seq(Pieces) /\ Len(r) = Len(left) - 1
         /\ Head(left) = left[1] /\ left[1] \in Pieces /\ 1 \in DOMAIN left
         /\ Len(left) = 1 => r = <<>>
         /\ \A m \in DOMAIN r : m = 1 /\ 2 \in DOMAIN left /\ Len(left) = 2 /\ r[1] = left[2]
         /\ \A kind : AtL(r, n, kind) = IF 2 \in AtL(left, n, kind) THEN {1} ELSE {}
<1>1. left # <<>>
  BY EmptySeq
<1>2. /\ r \in Seq(Pieces) /\ Len(r) = Len(left) - 1
      /\ Head(left) = left[1] /\ left[1] \in Pieces /\ 1 \in DOMAIN left
      /\ DOMAIN r = 1 .. Len(left) - 1 /\ DOMAIN left = 1 .. Len(left)
      /\ \A i \in DOMAIN r : r[i] = left[i + 1]
  BY <1>1, HeadTailProperties
<1>3. CASE Len(left) = 1
  <2>1. DOMAIN r = {} /\ 2 \notin DOMAIN left
    BY <1>2, <1>3
  <2>2. r = <<>>
    BY <2>1, <1>2, <1>3, EmptySeq
  <2> QED
    BY <2>1, <2>2, <1>2, <1>3 DEF AtL
<1>4. CASE Len(left) = 2
  <2>1. DOMAIN r = {1} /\ 2 \in DOMAIN left /\ r[1] = left[2]
    BY <1>2, <1>4
  <2> QED
    BY <2>1, <1>2, <1>4 DEF AtL
<1> QED
  BY <1>3, <1>4

\* A piece that is not of the frame changes nothing for the unit.
LEMMA OrderOther ==
  ASSUME NEW n \in Nat, NEW got, NEW q \in Seq(Fills), NEW left, NEW x \in Fills,
         Order(n, got, q, left),
         x.piece.ts # n \/ x.piece.kind \notin {"slice", "rest"}
  PROVE  Order(n, got, Append(q, x), left)
<1> DEFINE r == Append(q, x)
<1>1. AtQ(r, n, "slice") = AtQ(q, n, "slice") /\ AtQ(r, n, "rest") = AtQ(q, n, "rest")
  <2>1. /\ AtQ(r, n, "slice") = AtQ(q, n, "slice") \cup
             (IF x.piece.ts = n /\ x.piece.kind = "slice" THEN {Len(q) + 1} ELSE {})
        /\ AtQ(r, n, "rest") = AtQ(q, n, "rest") \cup
             (IF x.piece.ts = n /\ x.piece.kind = "rest" THEN {Len(q) + 1} ELSE {})
    BY QueueGrows DEF AtQ
  <2> HIDE DEF r
  <2> QED
    BY <2>1
<1> HIDE DEF r
<1>2. Order(n, got, r, left)
  BY <1>1 DEF Order
<1> QED
  BY <1>2 DEF r

\* The firmware hands over the first piece of the last unit.
LEMMA OrderEmit ==
  ASSUME NEW n \in Nat, NEW got, NEW q \in Seq(Fills),
         NEW left \in Seq(Pieces), Len(left) \in {1, 2},
         NEW x \in Fills, x.piece = left[1], Order(n, got, q, left)
  PROVE  Order(n, got, Append(q, x), Tail(left))
<1> DEFINE r == Append(q, x)
           l == Tail(left)
           new == Len(q) + 1
           S == AtQ(q, n, "slice")
           R == AtQ(q, n, "rest")
           Ls == AtL(left, n, "slice")
           Lr == AtL(left, n, "rest")
<1>1. /\ AtQ(r, n, "slice") = S \cup (IF x.piece.ts = n /\ x.piece.kind = "slice" THEN {new} ELSE {})
      /\ AtQ(r, n, "rest") = R \cup (IF x.piece.ts = n /\ x.piece.kind = "rest" THEN {new} ELSE {})
      /\ \A i \in DOMAIN q : i \in Nat /\ i < new
      /\ S \subseteq DOMAIN q /\ R \subseteq DOMAIN q
  BY QueueGrows DEF AtQ
<1>2. /\ AtL(l, n, "slice") = IF 2 \in Ls THEN {1} ELSE {}
      /\ AtL(l, n, "rest") = IF 2 \in Lr THEN {1} ELSE {}
      /\ Len(l) = Len(left) - 1 /\ 1 \in DOMAIN left
  BY LeftShrinks
<1>3. /\ 1 \in Ls <=> x.piece.ts = n /\ x.piece.kind = "slice"
      /\ 1 \in Lr <=> x.piece.ts = n /\ x.piece.kind = "rest"
      /\ Ls \subseteq {1, 2} /\ Lr \subseteq {1, 2}
      /\ 2 \in Ls \cup Lr => Len(left) = 2
  <2>1. DOMAIN left \subseteq {1, 2} /\ (2 \in DOMAIN left => Len(left) = 2)
    OBVIOUS
  <2> QED
    BY <1>2, <2>1 DEF AtL
<1>4. /\ \A i, j \in S : i = j
      /\ \A i, j \in R : i = j
      /\ \A i \in S, j \in R : i < j
      /\ S # {} => got = <<>>
      /\ R # {} /\ got = <<>> => S # {}
      /\ \A i, j \in Ls : i = j
      /\ \A i \in Ls, j \in Lr : i < j
      /\ \A i \in Lr : i = Len(left)
      /\ Ls # {} => got = <<>> /\ S = {} /\ R = {}
      /\ Lr # {} => R = {} /\ (got = <<>> => S # {} \/ Ls # {})
  BY DEF Order
<1>5. new \in Nat
  OBVIOUS
<1> DEFINE S2 == AtQ(r, n, "slice")
           R2 == AtQ(r, n, "rest")
           L2 == AtL(l, n, "slice")
           M2 == AtL(l, n, "rest")
<1> HIDE DEF S, R, Ls, Lr, new, S2, R2, L2, M2, r, l
<1>6. CASE 1 \in Ls
  <2>1. S2 = {new} /\ R2 = {} /\ L2 = {} /\ got = <<>> /\ 1 \notin Lr
    BY <1>1, <1>2, <1>3, <1>4, <1>6 DEF S2, R2, L2
  <2>2. \A i \in M2 : i = Len(l)
    BY <1>2, <1>3 DEF M2
  <2>3. Order(n, got, r, l)
    BY <2>1, <2>2 DEF Order, S2, R2, L2, M2
  <2> QED
    BY <2>3 DEF r, l
<1>7. CASE 1 \in Lr
  <2>1. /\ S2 = S /\ R2 = {new} /\ R = {} /\ Ls = {} /\ L2 = {} /\ M2 = {}
        /\ got = <<>> => S # {}
    <3>1. R = {} /\ x.piece.kind = "rest" /\ x.piece.ts = n
      BY <1>3, <1>4, <1>7
    <3>2. S2 = S /\ R2 = {new}
      BY <3>1, <1>1 DEF S2, R2
    <3>3. Ls = {}
      BY <1>3, <1>4, <1>7
    <3>4. 2 \notin Lr
      BY <1>4, <1>7
    <3> QED
      BY <3>1, <3>2, <3>3, <3>4, <1>2, <1>4, <1>7 DEF L2, M2
  <2>2. \A i \in S : i < new
    BY <1>1
  <2>3. Order(n, got, r, l)
    BY <2>1, <2>2, <1>4 DEF Order, S2, R2, L2, M2
  <2> QED
    BY <2>3 DEF r, l
<1>8. CASE 1 \notin Ls /\ 1 \notin Lr
  <2>1. S2 = S /\ R2 = R
    BY <1>1, <1>3, <1>8 DEF S2, R2
  <2>2. L2 = (IF Ls = {} THEN {} ELSE {1}) /\ M2 = (IF Lr = {} THEN {} ELSE {1})
    BY <1>2, <1>3, <1>8 DEF L2, M2
  <2>3. Ls = {} \/ Lr = {}
    BY <1>3, <1>4, <1>8
  <2>4. \A i \in M2 : i = Len(l)
    BY <1>2, <1>3 DEF M2
  <2>5. Order(n, got, r, l)
    BY <2>1, <2>2, <2>3, <2>4, <1>4 DEF Order, S2, R2, L2, M2
  <2> QED
    BY <2>5 DEF r, l
<1> QED
  BY <1>6, <1>7, <1>8

(***************************************************************************)
(* The firmware's steps.                                                   *)
(***************************************************************************)
\* A buffer of the driver is filled.
LEMMA FillStep ==
  ASSUME EncoderInv, NEW b \in enc.cap, NEW p \in Pieces, NEW x, x = [buf |-> b, piece |-> p],
         enc' = [enc EXCEPT !.cap = @ \ {b}], capq' = Append(capq, x)
  PROVE  /\ enc' \in Encs /\ enc'.seq = enc.seq /\ enc'.held = enc.held
         /\ enc'.failed = enc.failed /\ enc'.cap = enc.cap \ {b}
         /\ x \in Fills /\ x.piece = p /\ OnePlace'
         /\ enc.seq \in Nat /\ capq \in Seq(Fills)
<1>1. enc \in Encs /\ capq \in Seq(Fills) /\ b \in CapBufs /\ enc.seq \in Nat
  BY Typed DEF EncoderInv, Encs
<1>2. /\ enc' \in Encs /\ enc'.seq = enc.seq /\ enc'.held = enc.held
      /\ enc'.failed = enc.failed /\ enc'.cap = enc.cap \ {b}
  BY <1>1 DEF Encs
<1> DEFINE n == Len(capq) + 1
<1>3. x \in Fills /\ x.buf = b /\ x.piece = p
  BY <1>1 DEF Fills
<1>4. /\ DOMAIN capq' = DOMAIN capq \cup {n} /\ n \notin DOMAIN capq
      /\ capq'[n] = x /\ \A i \in DOMAIN capq : capq'[i] = capq[i]
  BY <1>1, <1>3, QueueGrows
<1> HIDE DEF n
<1>5. OnePlace'
  <2>1. enc'.held \notin enc'.cap
    BY <1>2 DEF EncoderInv, OnePlace
  <2>2. \A i \in DOMAIN capq' : capq'[i].buf \notin enc'.cap /\ capq'[i].buf # enc'.held
    BY <1>2, <1>3, <1>4 DEF EncoderInv, OnePlace
  <2>3. \A i, j \in DOMAIN capq' : capq'[i].buf = capq'[j].buf => i = j
    BY <1>2, <1>3, <1>4 DEF EncoderInv, OnePlace
  <2>4. {capq'[i].buf : i \in DOMAIN capq'} = {capq[i].buf : i \in DOMAIN capq} \cup {b}
    BY <1>3, <1>4
  <2>5. CapBufs = enc'.cap \cup {capq'[i].buf : i \in DOMAIN capq'} \cup ({enc'.held} \ {NoCap})
    BY <1>1, <1>2, <2>4 DEF EncoderInv, OnePlace
  <2> QED
    BY <2>1, <2>2, <2>3, <2>5 DEF OnePlace
<1> QED
  BY <1>1, <1>2, <1>3, <1>5

\* What a filled buffer means for the pieces as a whole.
LEMMA FillStamps ==
  ASSUME NEW n \in Nat, NEW q \in Seq(Fills), NEW x \in Fills, NEW todo, NEW w,
         StampsOf(n, q, todo), Stamped(n, x.piece)
  PROVE  /\ StampsOf(n, Append(q, x), todo)
         /\ (\A i \in DOMAIN q : Belongs(n, w, q[i].piece)) /\ Belongs(n, w, x.piece)
            => \A i \in DOMAIN Append(q, x) : Belongs(n, w, Append(q, x)[i].piece)
<1> DEFINE r == Append(q, x)
<1>1. /\ DOMAIN r = DOMAIN q \cup {Len(q) + 1} /\ r[Len(q) + 1] = x
      /\ \A i \in DOMAIN q : r[i] = q[i]
  BY QueueGrows
<1> HIDE DEF r
<1>2. StampsOf(n, r, todo)
  BY <1>1 DEF StampsOf
<1>3. (\A i \in DOMAIN q : Belongs(n, w, q[i].piece)) /\ Belongs(n, w, x.piece)
            => \A i \in DOMAIN r : Belongs(n, w, r[i].piece)
  BY <1>1
<1> QED
  BY <1>2, <1>3 DEF r

\* Refuse has no stamp: it changes nothing for the unit of a call.
LEMMA EmitRefuseStep ==
  ASSUME EncoderInv, NEW b \in CapBufs, NEW k \in {"slice", "empty", "error"}, EmitRefuse(b, k)
  PROVE  EncoderInv'
<1> DEFINE p == Piece(0, k, FALSE, FALSE)
           x == [buf |-> b, piece |-> p]
<1>1. p \in Pieces /\ p.ts = 0 /\ ~p.idr
  BY EncoderAssumption DEF Piece, Pieces
<1>2. /\ b \in enc.cap /\ enc' = [enc EXCEPT !.cap = @ \ {b}] /\ call' = call /\ au' = au
      /\ capq' = Append(capq, x) /\ firmware' = firmware /\ late' = late
      /\ refuse < MaxRefuse /\ refuse' = refuse + 1
  BY DEF EmitRefuse
<1> HIDE DEF p
<1>3. /\ enc' \in Encs /\ enc'.seq = enc.seq /\ enc'.held = enc.held
      /\ enc'.failed = enc.failed /\ enc'.cap = enc.cap \ {b}
      /\ x \in Fills /\ x.piece = p /\ OnePlace'
      /\ enc.seq \in Nat /\ capq \in Seq(Fills)
  BY <1>1, <1>2, FillStep
<1> HIDE DEF x
<1>4. Stamped(enc.seq, x.piece)
  BY <1>1, <1>3 DEF Stamped
<1>5. EncoderTypeOK'
  <2>1. refuse' \in 0 .. MaxRefuse
    BY <1>2, EncoderAssumption DEF EncoderInv, EncoderTypeOK
  <2>2. capq' \in Seq(Fills)
    BY <1>2, <1>3
  <2> QED
    BY <1>2, <1>3, <2>1, <2>2 DEF EncoderInv, EncoderTypeOK, Encs, Fills
<1>6. Control'
  BY <1>2, <1>3 DEF EncoderInv, Control
<1>7. Stamps'
  <2>1. StampsOf(enc.seq, capq, firmware.todo)
    BY DEF EncoderInv, Stamps
  <2>2. StampsOf(enc.seq, Append(capq, x), firmware.todo)
    BY <2>1, <1>3, <1>4, FillStamps
  <2> QED
    BY <2>2, <1>2, <1>3 DEF Stamps
<1>8. InCall'
  <2> SUFFICES ASSUME call.on
               PROVE  Flows(enc.seq, firmware.whole, call.got, capq', firmware.todo)
    BY <1>2, <1>3 DEF InCall, EncoderInv
  <2>1. Flows(enc.seq, firmware.whole, call.got, capq, firmware.todo) /\ enc.seq > 0
    BY DEF EncoderInv, InCall, Control
  <2>2. x.piece.ts # enc.seq /\ Belongs(enc.seq, firmware.whole, x.piece)
    BY <1>1, <1>3, <2>1 DEF Belongs
  <2>3. \A i \in DOMAIN capq' : Belongs(enc.seq, firmware.whole, capq'[i].piece)
    BY <1>2, <1>3, <1>4, <2>1, <2>2, FillStamps DEF Flows, EncoderInv, Stamps
  <2>4. Order(enc.seq, call.got, capq', LastLeft(firmware.todo))
    BY <1>2, <1>3, <2>1, <2>2, OrderOther DEF Flows
  <2> QED
    BY <2>1, <2>3, <2>4 DEF Flows
<1>9. Sending'
  BY <1>2, <1>3 DEF EncoderInv, Sending
<1> QED
  BY <1>3, <1>5, <1>6, <1>7, <1>8, <1>9 DEF EncoderInv

\* What is to do once the first piece is out.
After(todo) ==
  IF Len(todo[1].left) = 1 THEN Tail(todo)
  ELSE [todo EXCEPT ![1] = [todo[1] EXCEPT !.left = Tail(todo[1].left)]]

LEMMA AfterFlows ==
  ASSUME NEW n \in Nat, NEW w, NEW got, NEW q \in Seq(Fills), NEW todo \in Seq(Todos),
         todo # <<>>, StampsOf(n, q, todo), NEW x \in Fills, x.piece = todo[1].left[1]
  PROVE  /\ After(todo) \in Seq(Todos) /\ Stamped(n, x.piece)
         /\ StampsOf(n, Append(q, x), After(todo))
         /\ Flows(n, w, got, q, todo) => Flows(n, w, got, Append(q, x), After(todo))
<1> DEFINE left == todo[1].left
           t2 == After(todo)
           N == Len(todo)
           l2 == Tail(left)
           r == Append(q, x)
<1>1. N \in Nat /\ N >= 1 /\ DOMAIN todo = 1 .. N /\ 1 \in DOMAIN todo
      /\ \A i \in 1 .. N : todo[i] \in Todos /\ todo[i].left \in Seq(Pieces)
  <2>1. N \in Nat /\ N # 0 /\ DOMAIN todo = 1 .. N /\ \A i \in 1 .. N : todo[i] \in Todos
    BY EmptySeq
  <2>2. \A u \in Todos : u.left \in Seq(Pieces)
    BY DEF Todos
  <2> QED
    BY <2>1, <2>2
<1>2. left \in Seq(Pieces) /\ Len(left) \in {1, 2} /\ x.piece = left[1]
  BY <1>1 DEF StampsOf
<1>3. /\ l2 \in Seq(Pieces) /\ Len(l2) = Len(left) - 1 /\ 1 \in DOMAIN left
      /\ Len(left) = 1 => l2 = <<>>
      /\ \A m \in DOMAIN l2 : m = 1 /\ 2 \in DOMAIN left /\ Len(left) = 2 /\ l2[1] = left[2]
  BY <1>2, LeftShrinks, ZenonT(30)
<1>4. Stamped(n, x.piece)
  BY <1>1, <1>2, <1>3 DEF StampsOf
<1>5. \A m \in DOMAIN l2 : Stamped(n, l2[m])
  BY <1>1, <1>3 DEF StampsOf
<1> HIDE DEF l2
<1>6. CASE Len(left) = 1
  <2>1. t2 = Tail(todo) /\ l2 = <<>>
    BY <1>3, <1>6 DEF After
  <2>2. /\ t2 \in Seq(Todos) /\ Len(t2) = N - 1 /\ DOMAIN t2 = 1 .. N - 1
        /\ \A k \in 1 .. N - 1 : t2[k] = todo[k + 1] /\ k + 1 \in 1 .. N
    BY <2>1, <1>1, HeadTailProperties
  <2> HIDE DEF t2
  <2>3. StampsOf(n, q, t2)
    BY <2>2, <1>1 DEF StampsOf
  <2>4. StampsOf(n, r, t2)
    BY <2>3, <1>4, FillStamps
  <2>5. ASSUME Flows(n, w, got, q, todo) PROVE Flows(n, w, got, r, t2)
    <3>1. \A k \in DOMAIN t2 : k < Len(t2) => \A m \in DOMAIN t2[k].left : t2[k].left[m].ts < n
      <4> SUFFICES ASSUME NEW k \in DOMAIN t2, k < Len(t2)
                   PROVE  \A m \in DOMAIN t2[k].left : t2[k].left[m].ts < n
        OBVIOUS
      <4>1. t2[k] = todo[k + 1] /\ k + 1 \in DOMAIN todo /\ k + 1 < N
        BY <2>2, <1>1
      <4> QED
        BY <4>1, <2>5 DEF Flows
    <3>2. CASE N = 1
      <4>1. t2 = <<>> /\ LastLeft(t2) = l2 /\ LastLeft(todo) = left
        BY <2>1, <2>2, <3>2, <1>1, EmptySeq DEF LastLeft
      <4>2. Order(n, got, r, l2)
        BY <4>1, <2>5, <1>2, OrderEmit DEF Flows, l2
      <4>3. Belongs(n, w, x.piece)
        BY <4>1, <2>5, <1>2, <1>3 DEF Flows
      <4>4. \A i \in DOMAIN r : Belongs(n, w, r[i].piece)
        BY <4>3, <2>5, <1>4, FillStamps DEF Flows
      <4>5. \A m \in DOMAIN l2 : Belongs(n, w, l2[m])
        BY <2>1
      <4> QED
        BY <3>1, <4>1, <4>2, <4>4, <4>5 DEF Flows
    <3>3. CASE N > 1
      <4>1. t2 # <<>> /\ LastLeft(t2) = LastLeft(todo)
        <5>1. t2[N - 1] = todo[N] /\ t2 # <<>>
          BY <2>2, <3>3, <1>1, EmptySeq
        <5> QED
          BY <5>1, <2>2 DEF LastLeft
      <4>2. x.piece.ts < n
        BY <2>5, <3>3, <1>1, <1>2, <1>3 DEF Flows
      <4>3. x.piece.ts # n /\ Belongs(n, w, x.piece)
        BY <4>2 DEF Belongs
      <4>4. Order(n, got, r, LastLeft(todo))
        BY <4>3, <2>5, OrderOther DEF Flows
      <4>5. \A i \in DOMAIN r : Belongs(n, w, r[i].piece)
        BY <4>3, <2>5, <1>4, FillStamps DEF Flows
      <4> QED
        BY <3>1, <4>1, <4>4, <4>5, <2>5 DEF Flows
    <3> QED
      BY <3>2, <3>3, <1>1
  <2> QED
    BY <2>2, <2>4, <2>5, <1>4 DEF t2
<1>7. CASE Len(left) = 2
  <2> DEFINE u == [todo[1] EXCEPT !.left = l2]
  <2>1. u \in Todos /\ u.left = l2
    BY <1>1, <1>3 DEF Todos
  <2>2. t2 = [todo EXCEPT ![1] = u]
    BY <1>7 DEF After, l2
  <2> HIDE DEF u
  <2>3. /\ t2 \in Seq(Todos) /\ Len(t2) = N /\ DOMAIN t2 = 1 .. N
        /\ t2[1] = u /\ \A k \in 1 .. N : k # 1 => t2[k] = todo[k]
    BY <2>1, <2>2, <1>1
  <2> HIDE DEF t2
  <2>4. StampsOf(n, q, t2)
    <3>1. ASSUME NEW k \in DOMAIN t2
          PROVE  Len(t2[k].left) \in {1, 2} /\ \A m \in DOMAIN t2[k].left : Stamped(n, t2[k].left[m])
      <4>1. CASE k = 1
        BY <4>1, <2>1, <2>3, <1>3, <1>5, <1>7
      <4>2. CASE k # 1
        BY <4>2, <2>3, <1>1 DEF StampsOf
      <4> QED
        BY <4>1, <4>2
    <3> QED
      BY <3>1 DEF StampsOf
  <2>5. StampsOf(n, r, t2)
    BY <2>4, <1>4, FillStamps
  <2>6. ASSUME Flows(n, w, got, q, todo) PROVE Flows(n, w, got, r, t2)
    <3>1. todo # <<>> /\ t2 # <<>> /\ LastLeft(todo) = todo[N].left /\ LastLeft(t2) = t2[N].left
      BY <2>3, <1>1, EmptySeq DEF LastLeft
    <3>2. CASE N = 1
      <4>1. LastLeft(t2) = l2 /\ LastLeft(todo) = left
        BY <3>1, <3>2, <2>1, <2>3
      <4>2. Order(n, got, r, l2)
        BY <4>1, <2>6, <1>2, OrderEmit DEF Flows, l2
      <4>3. Belongs(n, w, x.piece)
        BY <4>1, <2>6, <1>2, <1>3 DEF Flows
      <4>4. \A i \in DOMAIN r : Belongs(n, w, r[i].piece)
        BY <4>3, <2>6, <1>4, FillStamps DEF Flows
      <4>5. \A m \in DOMAIN l2 : Belongs(n, w, l2[m])
        BY <4>1, <2>6, <1>3 DEF Flows
      <4>6. \A k \in DOMAIN t2 : k < Len(t2) => \A m \in DOMAIN t2[k].left : t2[k].left[m].ts < n
        BY <2>3, <3>2
      <4> QED
        BY <4>1, <4>2, <4>4, <4>5, <4>6 DEF Flows
    <3>3. CASE N > 1
      <4>1. LastLeft(t2) = LastLeft(todo)
        BY <3>1, <3>3, <2>3, <1>1
      <4>2. \A m \in DOMAIN left : left[m].ts < n
        BY <2>6, <3>3, <1>1 DEF Flows
      <4>3. x.piece.ts # n /\ Belongs(n, w, x.piece)
        <5>1. x.piece.ts < n /\ x.piece.ts \in Int
          BY <4>2, <1>2, <1>3 DEF Fills, Pieces
        <5> QED
          BY <5>1 DEF Belongs
      <4>4. Order(n, got, r, LastLeft(todo))
        BY <4>3, <2>6, OrderOther DEF Flows
      <4>5. \A i \in DOMAIN r : Belongs(n, w, r[i].piece)
        BY <4>3, <2>6, <1>4, FillStamps DEF Flows
      <4>6. ASSUME NEW k \in DOMAIN t2, k < Len(t2), NEW m \in DOMAIN t2[k].left
            PROVE  t2[k].left[m].ts < n
        <5>1. CASE k = 1
          BY <5>1, <4>2, <4>6, <2>1, <2>3, <1>3
        <5>2. CASE k # 1
          BY <5>2, <4>6, <2>3, <2>6, <1>1 DEF Flows
        <5> QED
          BY <5>1, <5>2
      <4> QED
        BY <4>1, <4>4, <4>5, <4>6, <2>6 DEF Flows
    <3> QED
      BY <3>2, <3>3, <1>1
  <2> QED
    BY <2>3, <2>5, <2>6, <1>4 DEF t2
<1> QED
  BY <1>2, <1>6, <1>7

\* A piece from the firmware comes in its turn.
LEMMA EmitStep ==
  ASSUME EncoderInv, NEW b \in CapBufs, Emit(b)
  PROVE  EncoderInv'
<1> DEFINE todo == firmware.todo
           p == todo[1].left[1]
           x == [buf |-> b, piece |-> p]
           n == enc.seq
<1>1. /\ firmware \in Firmwares /\ todo \in Seq(Todos) /\ firmware.whole \in Seq(Pieces)
      /\ firmware.back \subseteq OutBufs
  BY Typed DEF EncoderInv, Firmwares
<1>2. /\ b \in enc.cap /\ todo # <<>> /\ enc' = [enc EXCEPT !.cap = @ \ {b}]
      /\ call' = call /\ au' = au /\ late' = late /\ refuse' = refuse
  BY DEF Emit
<1>3. /\ Head(todo) = todo[1] /\ todo[1] \in Todos /\ 1 \in DOMAIN todo
      /\ todo[1].left \in Seq(Pieces) /\ todo[1].out \in OutBufs
  <2>1. Head(todo) = todo[1] /\ todo[1] \in Todos /\ 1 \in DOMAIN todo
    BY <1>1, <1>2, EmptySeq
  <2> QED
    BY <2>1 DEF Todos
<1>4. /\ Len(todo[1].left) \in {1, 2} /\ p \in Pieces /\ Head(todo[1].left) = p
  <2>1. Len(todo[1].left) \in {1, 2}
    BY <1>3 DEF EncoderInv, Stamps, StampsOf
  <2> QED
    BY <2>1, <1>3
<1>5. capq' = Append(capq, x)
  BY <1>3, <1>4 DEF Emit
<1>6. firmware' \in Firmwares /\ firmware'.todo = After(todo) /\ firmware'.whole = firmware.whole
  <2>1. After(todo) \in Seq(Todos)
    <3>1. CASE Len(todo[1].left) = 1
      BY <3>1, <1>1, <1>2 DEF After
    <3>2. CASE Len(todo[1].left) # 1
      <4>1. [todo[1] EXCEPT !.left = Tail(todo[1].left)] \in Todos
        BY <1>3, <1>4, <3>2 DEF Todos
      <4> QED
        BY <4>1, <3>2, <1>1, <1>3 DEF After
    <3> QED
      BY <3>1, <3>2
  <2>2. CASE Len(todo[1].left) = 1
    <3>1. firmware' = [firmware EXCEPT !.todo = Tail(@), !.back = @ \cup {todo[1].out}]
      BY <2>2, <1>3 DEF Emit
    <3> QED
      BY <3>1, <2>1, <2>2, <1>1, <1>3 DEF Firmwares, After
  <2>3. CASE Len(todo[1].left) # 1
    <3>1. firmware' = [firmware EXCEPT !.todo[1].left = Tail(@)]
      BY <2>3, <1>3 DEF Emit
    <3>2. firmware' = [firmware EXCEPT !.todo = After(todo)]
      BY <3>1, <2>3, <1>1, <1>3 DEF Firmwares, After
    <3> QED
      BY <3>2, <2>1, <1>1 DEF Firmwares
  <2> QED
    BY <2>2, <2>3
<1> HIDE DEF p, todo
<1>7. /\ enc' \in Encs /\ enc'.seq = n /\ enc'.held = enc.held
      /\ enc'.failed = enc.failed /\ enc'.cap = enc.cap \ {b}
      /\ x \in Fills /\ x.piece = p /\ OnePlace'
      /\ n \in Nat /\ capq \in Seq(Fills)
  BY <1>2, <1>4, <1>5, FillStep
<1> HIDE DEF x
<1>8. StampsOf(n, capq, todo)
  BY DEF EncoderInv, Stamps, todo
<1>9. /\ After(todo) \in Seq(Todos) /\ Stamped(n, x.piece)
      /\ StampsOf(n, Append(capq, x), After(todo))
      /\ Flows(n, firmware.whole, call.got, capq, todo)
         => Flows(n, firmware.whole, call.got, Append(capq, x), After(todo))
  BY <1>1, <1>2, <1>7, <1>8, AfterFlows DEF p
<1>10. EncoderTypeOK'
  <2>1. capq' \in Seq(Fills)
    BY <1>5, <1>7
  <2> QED
    BY <1>2, <1>6, <1>7, <2>1
       DEF EncoderInv, EncoderTypeOK, Encs, Fills, Firmwares, Todos
<1>11. Control'
  BY <1>2, <1>7 DEF EncoderInv, Control
<1>12. Stamps'
  BY <1>5, <1>6, <1>7, <1>9 DEF Stamps
<1>13. InCall'
  BY <1>2, <1>5, <1>6, <1>7, <1>9 DEF EncoderInv, InCall, todo
<1>14. Sending'
  BY <1>2, <1>6, <1>7 DEF EncoderInv, Sending
<1> QED
  BY <1>7, <1>10, <1>11, <1>12, <1>13, <1>14 DEF EncoderInv

(***************************************************************************)
(* The call's steps.                                                       *)
(***************************************************************************)
\* The oldest buffer is taken from the queue: a slice opens the unit, a rest
\* never comes first, and another piece changes nothing.
LEMMA OrderDequeue ==
  ASSUME NEW n \in Nat, NEW got, NEW got2, NEW q \in Seq(Fills), q # <<>>, NEW left,
         Order(n, got, q, left)
  PROVE  /\ 1 \notin AtQ(q, n, "slice") /\ 1 \notin AtQ(q, n, "rest")
            => Order(n, got, Tail(q), left)
         /\ 1 \in AtQ(q, n, "slice") => got = <<>>
         /\ 1 \in AtQ(q, n, "slice") /\ got2 # <<>> => Order(n, got2, Tail(q), left)
         /\ 1 \in AtQ(q, n, "rest") => got # <<>>
<1> DEFINE r == Tail(q)
           S == AtQ(q, n, "slice")
           R == AtQ(q, n, "rest")
           S2 == AtQ(r, n, "slice")
           R2 == AtQ(r, n, "rest")
<1>1. S2 = {i - 1 : i \in S \ {1}} /\ R2 = {i - 1 : i \in R \ {1}}
  BY PlacesShrink, Zenon
<1>2. S \subseteq Nat \ {0} /\ R \subseteq Nat \ {0}
  BY DEF AtQ
<1>3. /\ \A i, j \in S : i = j
      /\ \A i, j \in R : i = j
      /\ \A i \in S, j \in R : i < j
      /\ S # {} => got = <<>>
      /\ R # {} /\ got = <<>> => S # {}
      /\ AtL(left, n, "slice") # {} => got = <<>> /\ S = {} /\ R = {}
      /\ AtL(left, n, "rest") # {} =>
           R = {} /\ (got = <<>> => S # {} \/ AtL(left, n, "slice") # {})
  BY DEF Order
<1>4. /\ \A i, j \in AtL(left, n, "slice") : i = j
      /\ \A i \in AtL(left, n, "slice"), j \in AtL(left, n, "rest") : i < j
      /\ \A i \in AtL(left, n, "rest") : i = Len(left)
  BY DEF Order
<1> HIDE DEF S, R, S2, R2, r
<1>5. ASSUME 1 \notin S, 1 \notin R PROVE Order(n, got, r, left)
  <2>1. S2 = {} <=> S = {}
    BY <1>1, <1>5
  <2>2. R2 = {} <=> R = {}
    BY <1>1, <1>5
  <2>3. \A i, j \in S2 : i = j
    BY <1>1, <1>3
  <2>4. \A i, j \in R2 : i = j
    BY <1>1, <1>3
  <2>5. \A i \in S2, j \in R2 : i < j
    BY <1>1, <1>2, <1>3
  <2> QED
    BY <2>1, <2>2, <2>3, <2>4, <2>5, <1>3, <1>4 DEF Order, S2, R2
<1>6. ASSUME 1 \in S PROVE got = <<>>
  BY <1>3, <1>6
<1>7. ASSUME 1 \in S, got2 # <<>> PROVE Order(n, got2, r, left)
  <2>1. S2 = {} /\ AtL(left, n, "slice") = {}
    BY <1>1, <1>3, <1>7
  <2>2. \A i, j \in R2 : i = j
    BY <1>1, <1>3
  <2>3. R = {} => R2 = {}
    BY <1>1
  <2> QED
    BY <2>1, <2>2, <2>3, <1>3, <1>4, <1>7 DEF Order, S2, R2
<1>8. ASSUME 1 \in R PROVE got # <<>>
  <2> SUFFICES ASSUME got = <<>> PROVE FALSE
    OBVIOUS
  <2>1. PICK i \in S : i < 1
    BY <1>3, <1>8
  <2> QED
    BY <2>1, <1>2
<1> QED
  BY <1>5, <1>6, <1>7, <1>8 DEF r, S, R

\* Where the buffers are once the oldest one is out of the queue.
LEMMA DequeueBuffers ==
  ASSUME EncoderInv, call.on, capq # <<>>, NEW r, r = Tail(capq), NEW b, b = capq[1].buf
  PROVE  /\ b \in CapBufs /\ b \notin enc.cap /\ enc.held = NoCap
         /\ \A i \in DOMAIN r : r[i].buf \in CapBufs /\ r[i].buf \notin enc.cap /\ r[i].buf # b
         /\ \A i, j \in DOMAIN r : r[i].buf = r[j].buf => i = j
         /\ CapBufs = enc.cap \cup {b} \cup {r[i].buf : i \in DOMAIN r}
         /\ \A i \in DOMAIN r : \E j \in DOMAIN capq : r[i].piece = capq[j].piece
<1>1. capq \in Seq(Fills) /\ enc.held = NoCap /\ enc.cap \subseteq CapBufs
  BY Typed DEF EncoderInv, Control, Encs
<1>2. /\ r \in Seq(Fills) /\ 1 \in DOMAIN capq /\ capq[1] \in Fills
      /\ \A i \in DOMAIN r : i \in Nat /\ i + 1 \in DOMAIN capq /\ i + 1 # 1 /\ r[i] = capq[i + 1]
      /\ \A i \in DOMAIN capq : i # 1 => i \in Nat /\ i - 1 \in DOMAIN r /\ r[i - 1] = capq[i]
  BY <1>1, QueueShrinks
<1>3. /\ \A i \in DOMAIN capq : capq[i].buf \notin enc.cap /\ capq[i].buf \in CapBufs
      /\ \A i, j \in DOMAIN capq : capq[i].buf = capq[j].buf => i = j
      /\ CapBufs = enc.cap \cup {capq[i].buf : i \in DOMAIN capq}
  <2>1. \A i \in DOMAIN capq : capq[i].buf \in CapBufs
    <3>1. \A i \in DOMAIN capq : capq[i] \in Fills
      BY <1>1
    <3>2. \A f \in Fills : f.buf \in CapBufs
      BY DEF Fills
    <3> QED
      BY <3>1, <3>2
  <2> QED
    BY <2>1, <1>1 DEF EncoderInv, OnePlace
<1>4. b \in CapBufs /\ b \notin enc.cap
  BY <1>2, <1>3
<1>5. \A i \in DOMAIN r : r[i].buf \in CapBufs /\ r[i].buf \notin enc.cap /\ r[i].buf # b
  BY <1>2, <1>3
<1>6. \A i, j \in DOMAIN r : r[i].buf = r[j].buf => i = j
  <2> SUFFICES ASSUME NEW i \in DOMAIN r, NEW j \in DOMAIN r, r[i].buf = r[j].buf PROVE i = j
    OBVIOUS
  <2>1. i + 1 = j + 1
    BY <1>2, <1>3
  <2> QED
    BY <2>1, <1>2
<1>7. {capq[i].buf : i \in DOMAIN capq} = {b} \cup {r[i].buf : i \in DOMAIN r}
  <2>1. ASSUME NEW i \in DOMAIN capq PROVE capq[i].buf \in {b} \cup {r[j].buf : j \in DOMAIN r}
    BY <1>2
  <2>2. ASSUME NEW i \in DOMAIN r PROVE r[i].buf \in {capq[j].buf : j \in DOMAIN capq}
    BY <1>2
  <2> QED
    BY <2>1, <2>2, <1>2
<1>8. \A i \in DOMAIN r : \E j \in DOMAIN capq : r[i].piece = capq[j].piece
  BY <1>2
<1> QED
  BY <1>1, <1>3, <1>4, <1>5, <1>6, <1>7, <1>8

\* A unit is handed to the core, unless it had to open an episode and does not.
LEMMA FinishStep ==
  ASSUME EncoderInv, call.on, NEW e \in Encs, NEW c \in Calls, NEW buf \in CapBufs \cup {NoCap},
         Finish(e, c, buf), e.seq = enc.seq, capq' \in Seq(Fills),
         late' \in BOOLEAN, refuse' = refuse,
         buf \notin e.cap,
         \A i \in DOMAIN capq' : capq'[i].buf \notin e.cap /\ capq'[i].buf # buf,
         \A i, j \in DOMAIN capq' : capq'[i].buf = capq'[j].buf => i = j,
         CapBufs = e.cap \cup {capq'[i].buf : i \in DOMAIN capq'} \cup ({buf} \ {NoCap}),
         \A i \in DOMAIN capq' : \E j \in DOMAIN capq : capq'[i].piece = capq[j].piece,
         c.got # <<>>, \A i \in DOMAIN c.got : c.got[i].ts = enc.seq,
         c.idr => \E i \in DOMAIN c.got : c.got[i].idr,
         ~late' => c.got = firmware.whole
  PROVE  EncoderInv'
<1> DEFINE bad == c.force /\ ~c.idr
<1>1. /\ enc' = [[e EXCEPT !.out = @ \ firmware.back] EXCEPT !.held = buf, !.failed = bad]
      /\ firmware' = [firmware EXCEPT !.back = {}] /\ call' = NoCall
      /\ au' = IF bad THEN NoUnit
               ELSE [of |-> enc.seq, force |-> c.force, got |-> c.got, buf |-> buf,
                     sending |-> TRUE]
  BY DEF Finish, Reclaimed
<1>2. bad \in BOOLEAN
  OBVIOUS
<1>3. enc' \in Encs /\ enc'.seq = enc.seq /\ enc'.held = buf /\ enc'.cap = e.cap
      /\ (enc'.failed <=> bad)
  BY <1>1, <1>2 DEF Encs
<1>4. firmware \in Firmwares /\ enc \in Encs
  BY Typed DEF EncoderInv
<1>5. firmware' \in Firmwares /\ firmware'.todo = firmware.todo /\ firmware'.whole = firmware.whole
  BY <1>1, <1>4 DEF Firmwares
<1>6. CASE bad
  <2>1. au' = NoUnit
    BY <1>1, <1>6
  <2>2. EncoderTypeOK'
    BY <2>1, <1>1, <1>3, <1>5, NoneTyped, Typed
       DEF EncoderInv, EncoderTypeOK, Encs, Calls, Units, Firmwares, Todos, Fills
  <2>3. Control'
    BY <2>1, <1>1 DEF Control, NoCall, NoUnit
  <2>4. Sending'
    BY <2>1 DEF Sending, NoUnit
  <2>5. OnePlace'
    BY <1>3 DEF OnePlace
  <2>6. Stamps'
    BY <1>3, <1>5 DEF EncoderInv, Stamps, StampsOf
  <2>7. InCall'
    BY <1>1 DEF InCall, NoCall
  <2> QED
    BY <2>2, <2>3, <2>4, <2>5, <2>6, <2>7 DEF EncoderInv
<1>7. CASE ~bad
  <2>1. /\ au'.of = enc.seq /\ (au'.force <=> c.force) /\ au'.got = c.got /\ au'.buf = buf /\ au'.sending
        /\ au' \in Units
    <3>1. au' = [of |-> enc.seq, force |-> c.force, got |-> c.got, buf |-> buf, sending |-> TRUE]
      BY <1>1, <1>7
    <3>2. enc.seq \in 0 .. MaxFrames /\ c.force \in BOOLEAN /\ c.got \in Seq(Pieces)
      BY <1>4 DEF Encs, Calls
    <3> QED
      BY <3>1, <3>2 DEF Units
  <2>2. EncoderTypeOK'
    BY <2>1, <1>1, <1>3, <1>5, NoneTyped, Typed
       DEF EncoderInv, EncoderTypeOK, Encs, Calls, Units, Firmwares, Todos, Fills
  <2>3. Control'
    BY <2>1, <1>1, <1>3, <1>7 DEF Control, NoCall
  <2>4. Sending'
    <3>1. au'.force => \E i \in DOMAIN au'.got : au'.got[i].idr
      BY <2>1, <1>7
    <3> QED
      BY <3>1, <2>1, <1>3, <1>5 DEF Sending
  <2>5. OnePlace'
    BY <1>3 DEF OnePlace
  <2>6. Stamps'
    BY <1>3, <1>5 DEF EncoderInv, Stamps, StampsOf
  <2>7. InCall'
    BY <1>1 DEF InCall, NoCall
  <2> QED
    BY <2>2, <2>3, <2>4, <2>5, <2>6, <2>7 DEF EncoderInv
<1> QED
  BY <1>6, <1>7

LEMMA Dequeued ==
  ASSUME EncoderInv, call.on, capq # <<>>, capq' = Tail(capq)
  PROVE  /\ capq[1].buf \in CapBufs /\ capq[1].buf \notin enc.cap /\ enc.held = NoCap
         /\ \A i \in DOMAIN capq' : /\ capq'[i].buf \in CapBufs /\ capq'[i].buf \notin enc.cap
                                    /\ capq'[i].buf # capq[1].buf
         /\ \A i, j \in DOMAIN capq' : capq'[i].buf = capq'[j].buf => i = j
         /\ CapBufs = enc.cap \cup {capq[1].buf} \cup {capq'[i].buf : i \in DOMAIN capq'}
         /\ \A i \in DOMAIN capq' : \E j \in DOMAIN capq : capq'[i].piece = capq[j].piece
BY DequeueBuffers

\* A buffer goes straight back to the driver and the call goes on.
LEMMA GoOnStep ==
  ASSUME EncoderInv, call.on, capq # <<>>, NEW c \in Calls, c.on,
         enc' = [enc EXCEPT !.cap = @ \cup {capq[1].buf}], call' = c,
         capq' = Tail(capq), au' = au, firmware' = firmware, late' = late, refuse' = refuse,
         Begun(firmware.whole, c),
         Order(enc.seq, c.got, Tail(capq), LastLeft(firmware.todo))
  PROVE  EncoderInv'
<1> DEFINE b == capq[1].buf
<1>1. /\ b \in CapBufs /\ b \notin enc.cap /\ enc.held = NoCap
      /\ \A i \in DOMAIN capq' : capq'[i].buf \in CapBufs /\ capq'[i].buf \notin enc.cap /\ capq'[i].buf # b
      /\ \A i, j \in DOMAIN capq' : capq'[i].buf = capq'[j].buf => i = j
      /\ CapBufs = enc.cap \cup {b} \cup {capq'[i].buf : i \in DOMAIN capq'}
      /\ \A i \in DOMAIN capq' : \E j \in DOMAIN capq : capq'[i].piece = capq[j].piece
  BY Dequeued
<1>2. enc \in Encs /\ capq \in Seq(Fills)
  BY Typed DEF EncoderInv
<1> HIDE DEF b
<1>3. /\ enc' \in Encs /\ enc'.seq = enc.seq /\ enc'.held = enc.held
      /\ enc'.failed = enc.failed /\ enc'.cap = enc.cap \cup {b}
  BY <1>1, <1>2 DEF Encs, b
<1>4. capq' \in Seq(Fills)
  BY <1>2, QueueShrinks
<1>5. EncoderTypeOK'
  BY <1>3, <1>4 DEF EncoderInv, EncoderTypeOK, Encs, Calls, Fills
<1>6. Control'
  BY <1>3 DEF EncoderInv, Control
<1>7. OnePlace'
  BY <1>1, <1>3, EncoderAssumption DEF OnePlace
<1>8. Stamps'
  BY <1>1, <1>3 DEF EncoderInv, Stamps, StampsOf
<1>9. InCall'
  <2>1. /\ WholeUnit(enc.seq, firmware.whole)
        /\ Flows(enc.seq, firmware.whole, call.got, capq, firmware.todo)
    BY DEF EncoderInv, InCall
  <2>2. Flows(enc.seq, firmware.whole, c.got, Tail(capq), firmware.todo)
    BY <2>1, <1>1 DEF Flows
  <2> QED
    BY <2>1, <2>2, <1>3 DEF InCall
<1>10. Sending'
  BY <1>3 DEF EncoderInv, Sending
<1> QED
  BY <1>5, <1>6, <1>7, <1>8, <1>9, <1>10 DEF EncoderInv

\* The unit is complete with the buffer that was taken, which is lent to the
\* core when it is the only one.
LEMMA CompleteStep ==
  ASSUME EncoderInv, call.on, capq # <<>>, NEW c \in Calls,
         \/ Finish(enc, c, capq[1].buf)
         \/ Finish([enc EXCEPT !.cap = @ \cup {capq[1].buf}], c, NoCap),
         capq' = Tail(capq), late' = late, refuse' = refuse,
         c.got # <<>>, \A i \in DOMAIN c.got : c.got[i].ts = enc.seq,
         c.idr => \E i \in DOMAIN c.got : c.got[i].idr,
         c.got = firmware.whole
  PROVE  EncoderInv'
<1> DEFINE b == capq[1].buf
           back == [enc EXCEPT !.cap = @ \cup {b}]
<1>1. /\ b \in CapBufs /\ b \notin enc.cap /\ enc.held = NoCap
      /\ \A i \in DOMAIN capq' : capq'[i].buf \in CapBufs /\ capq'[i].buf \notin enc.cap /\ capq'[i].buf # b
      /\ \A i, j \in DOMAIN capq' : capq'[i].buf = capq'[j].buf => i = j
      /\ CapBufs = enc.cap \cup {b} \cup {capq'[i].buf : i \in DOMAIN capq'}
      /\ \A i \in DOMAIN capq' : \E j \in DOMAIN capq : capq'[i].piece = capq[j].piece
  BY Dequeued
<1>2. enc \in Encs /\ capq \in Seq(Fills) /\ late' \in BOOLEAN
  BY Typed DEF EncoderInv
<1>3. capq' \in Seq(Fills)
  BY <1>2, QueueShrinks
<1> HIDE DEF b
<1>4. CASE Finish(enc, c, b)
  <2>1. CapBufs = enc.cap \cup {capq'[i].buf : i \in DOMAIN capq'} \cup ({b} \ {NoCap})
    BY <1>1, EncoderAssumption
  <2> QED
    BY <2>1, <1>1, <1>2, <1>3, <1>4, FinishStep
<1>5. CASE Finish(back, c, NoCap)
  <2>1. back \in Encs /\ back.seq = enc.seq /\ back.cap = enc.cap \cup {b}
    BY <1>1, <1>2 DEF Encs
  <2> HIDE DEF back
  <2>2. CapBufs = back.cap \cup {capq'[i].buf : i \in DOMAIN capq'} \cup ({NoCap} \ {NoCap})
    BY <2>1, <1>1
  <2>3. /\ NoCap \notin back.cap
        /\ \A i \in DOMAIN capq' : capq'[i].buf \notin back.cap /\ capq'[i].buf # NoCap
    BY <2>1, <1>1, EncoderAssumption
  <2> QED
    BY <2>1, <2>2, <2>3, <1>1, <1>2, <1>3, <1>5, FinishStep
<1> QED
  BY <1>4, <1>5 DEF b

\* One buffer is taken from the queue.
LEMMA DequeueStep ==
  ASSUME EncoderInv, Dequeue
  PROVE  EncoderInv'
<1> DEFINE n == enc.seq
           w == firmware.whole
           left == LastLeft(firmware.todo)
           b == capq[1].buf
           p == capq[1].piece
           back == [enc EXCEPT !.cap = @ \cup {b}]
           vcl == call.vcl \/ p.kind = "slice"
           c == [call EXCEPT !.vcl = vcl, !.idr = @ \/ p.idr, !.pieces = TRUE,
                             !.got = IF p.kind = "headers" THEN @ ELSE Append(@, p)]
<1>1. /\ enc \in Encs /\ call \in Calls /\ capq \in Seq(Fills) /\ w \in Seq(Pieces)
      /\ late \in BOOLEAN
  BY Typed DEF EncoderInv, Firmwares
<1>2. call.on /\ capq # <<>> /\ capq' = Tail(capq) /\ late' = late /\ refuse' = refuse
  BY DEF Dequeue
<1>3. /\ capq' \in Seq(Fills) /\ 1 \in DOMAIN capq /\ Head(capq) = capq[1]
      /\ b \in CapBufs /\ p \in Pieces /\ n \in Nat
  <2>1. capq' \in Seq(Fills) /\ 1 \in DOMAIN capq /\ Head(capq) = capq[1] /\ capq[1] \in Fills
    BY <1>1, <1>2, QueueShrinks
  <2> QED
    BY <2>1, <1>1 DEF Fills, Encs
<1>4. IF p.kind = "error" THEN Fails(back) /\ UNCHANGED au
      ELSE IF Strange(p) THEN enc' = back /\ UNCHANGED <<call, au, firmware>>
      ELSE IF Complete(vcl, p) /\ ~call.pieces THEN Finish(enc, c, b)
      ELSE IF Complete(vcl, p) THEN Finish(back, c, NoCap)
      ELSE enc' = back /\ call' = c /\ UNCHANGED <<au, firmware>>
  BY <1>3 DEF Dequeue
<1>5. /\ WholeUnit(n, w) /\ Begun(w, call) /\ Flows(n, w, call.got, capq, firmware.todo)
      /\ Stamped(n, p)
  BY <1>2, <1>3 DEF EncoderInv, InCall, Stamps, StampsOf
<1>6. Belongs(n, w, p) /\ Order(n, call.got, capq, left)
  BY <1>3, <1>5 DEF Flows
<1>7. /\ 1 \in AtQ(capq, n, "slice") <=> p.ts = n /\ p.kind = "slice"
      /\ 1 \in AtQ(capq, n, "rest") <=> p.ts = n /\ p.kind = "rest"
  BY <1>3 DEF AtQ
<1>8. /\ c \in Calls /\ c.on /\ (c.force <=> call.force) /\ c.vcl = vcl
      /\ (c.idr <=> call.idr \/ p.idr)
      /\ c.got = IF p.kind = "headers" THEN call.got ELSE Append(call.got, p)
  <2>1. vcl \in BOOLEAN /\ (call.idr \/ p.idr) \in BOOLEAN
    OBVIOUS
  <2>2. call.got \in Seq(Pieces) /\ Append(call.got, p) \in Seq(Pieces)
    BY <1>1, <1>3 DEF Calls
  <2> HIDE DEF p, vcl
  <2> QED
    BY <2>1, <2>2, <1>1, <1>2 DEF Calls
<1> HIDE DEF c, p
<1>9. p.kind \in {"slice", "rest", "headers", "empty", "error"}
  BY <1>3 DEF Pieces
<1>10. CASE p.kind = "error"
  <2>1. Fails(back) /\ au' = au /\ ~au.sending
    BY <1>2, <1>4, <1>10 DEF EncoderInv, Control
  <2>2. /\ b \in CapBufs /\ b \notin enc.cap /\ enc.held = NoCap
        /\ \A i \in DOMAIN capq' : capq'[i].buf \in CapBufs /\ capq'[i].buf \notin enc.cap /\ capq'[i].buf # b
        /\ \A i, j \in DOMAIN capq' : capq'[i].buf = capq'[j].buf => i = j
        /\ CapBufs = enc.cap \cup {b} \cup {capq'[i].buf : i \in DOMAIN capq'}
        /\ \A i \in DOMAIN capq' : \E j \in DOMAIN capq : capq'[i].piece = capq[j].piece
    BY <1>2, Dequeued
  <2> HIDE DEF b
  <2>3. back \in Encs /\ back.seq = enc.seq /\ back.cap = enc.cap \cup {b} /\ back.held = NoCap
    BY <2>2, <1>1 DEF Encs
  <2> HIDE DEF back
  <2>4. /\ back.held \notin back.cap
        /\ \A i \in DOMAIN capq' : capq'[i].buf \notin back.cap /\ capq'[i].buf # back.held
        /\ CapBufs = back.cap \cup {capq'[i].buf : i \in DOMAIN capq'} \cup ({back.held} \ {NoCap})
    BY <2>2, <2>3, EncoderAssumption
  <2> QED
    BY <2>1, <2>2, <2>3, <2>4, <1>1, <1>2, <1>3, FailsStep
<1>11. CASE p.kind # "error" /\ Strange(p)
  <2>1. enc' = back /\ call' = call /\ au' = au /\ firmware' = firmware
    BY <1>4, <1>11
  <2>2. Order(n, call.got, Tail(capq), left)
    <3>1. 1 \notin AtQ(capq, n, "slice") /\ 1 \notin AtQ(capq, n, "rest")
      BY <1>7, <1>11 DEF Strange
    <3> QED
      BY <3>1, <1>1, <1>2, <1>3, <1>6, OrderDequeue
  <2> QED
    BY <2>1, <2>2, <1>1, <1>2, <1>5, GoOnStep
<1>12. CASE ~Strange(p) /\ p.kind = "slice"
  <2>1. p.ts = n /\ p = w[1] /\ call.got = <<>>
    <3>1. p.ts = n /\ p = w[1]
      BY <1>6, <1>12 DEF Strange, Belongs
    <3> QED
      BY <3>1, <1>12, <1>1, <1>2, <1>3, <1>6, <1>7, OrderDequeue
  <2>2. c.got = <<p>> /\ c.vcl /\ (c.idr <=> p.idr)
    <3>1. Append(<<>>, p) = <<p>>
      BY <1>3
    <3>2. ~call.idr
      BY <2>1, <1>5 DEF Begun
    <3> QED
      BY <3>1, <3>2, <2>1, <1>8, <1>12
  <2>3. CASE p.full
    <3>1. enc' = back /\ call' = c /\ au' = au /\ firmware' = firmware
      BY <2>3, <1>4, <1>12 DEF Complete
    <3>2. c.got # <<>>
      BY <2>2
    <3>3. Order(n, c.got, Tail(capq), left)
      BY <3>2, <2>1, <1>1, <1>2, <1>3, <1>6, <1>7, <1>12, OrderDequeue
    <3>4. Begun(w, c)
      BY <2>1, <2>2, <2>3 DEF Begun
    <3> QED
      BY <3>1, <3>3, <3>4, <1>2, <1>8, GoOnStep
  <2>4. CASE ~p.full
    <3>1. Len(w) = 1
      BY <2>1, <2>4, <1>5 DEF WholeUnit
    <3>2. w = <<p>>
      BY <3>1, <2>1, <1>1
    <3>3. /\ c.got # <<>> /\ c.got = w
          /\ \A i \in DOMAIN c.got : c.got[i].ts = enc.seq
          /\ c.idr => \E i \in DOMAIN c.got : c.got[i].idr
      <4>1. DOMAIN c.got = {1} /\ c.got[1] = p /\ c.got # <<>>
        BY <2>2
      <4> QED
        BY <4>1, <3>2, <2>1, <2>2
    <3>4. Finish(enc, c, b) \/ Finish(back, c, NoCap)
      BY <2>4, <1>4, <1>12 DEF Complete
    <3> QED
      BY <3>3, <3>4, <1>2, <1>8, CompleteStep
  <2> QED
    BY <2>3, <2>4
<1>13. CASE ~Strange(p) /\ p.kind = "rest"
  <2>1. p.ts = n /\ Len(w) = 2 /\ p = w[2] /\ call.got # <<>>
    <3>1. p.ts = n /\ Len(w) = 2 /\ p = w[2]
      BY <1>6, <1>13 DEF Strange, Belongs
    <3> QED
      BY <3>1, <1>13, <1>1, <1>2, <1>3, <1>6, <1>7, OrderDequeue
  <2>2. /\ call.got = <<w[1]>> /\ call.vcl /\ (call.idr => w[1].idr)
        /\ w[1].ts = n /\ ~p.full /\ ~p.idr /\ w[1] \in Pieces
    <3>1. call.got = <<w[1]>> /\ call.vcl /\ (call.idr => w[1].idr)
      BY <2>1, <1>5 DEF Begun
    <3>2. w[1].ts = n /\ ~p.full
      BY <2>1, <1>5 DEF WholeUnit
    <3>3. ~p.idr
      BY <1>5, <1>13 DEF Stamped
    <3> QED
      BY <3>1, <3>2, <3>3, <2>1, <1>1
  <2>3. c.got = <<w[1], p>> /\ w = <<w[1], p>>
    <3>1. Append(<<w[1]>>, p) = <<w[1], p>>
      <4>1. w[1] \in Pieces /\ p \in Pieces
        BY <2>2, <1>3
      <4> QED
        BY <4>1, AppendSecond, Zenon
    <3>2. w = <<w[1], p>>
      BY <2>1, <2>2, <1>1
    <3> QED
      BY <3>1, <3>2, <2>2, <1>8, <1>13
  <2>4. /\ c.got # <<>> /\ c.got = w
        /\ \A i \in DOMAIN c.got : c.got[i].ts = enc.seq
        /\ c.idr => \E i \in DOMAIN c.got : c.got[i].idr
    <3>1. DOMAIN c.got = {1, 2} /\ c.got[1] = w[1] /\ c.got[2] = p /\ c.got # <<>>
      BY <2>2, <2>3, <1>3, TwoSeq
    <3>2. c.idr => w[1].idr
      BY <2>2, <1>8
    <3> QED
      BY <3>1, <3>2, <2>1, <2>2, <2>3
  <2>5. Finish(enc, c, b) \/ Finish(back, c, NoCap)
    BY <2>2, <1>4, <1>13 DEF Complete
  <2> QED
    BY <2>4, <2>5, <1>2, <1>8, CompleteStep
<1>14. CASE ~Strange(p) /\ p.kind = "headers"
  <2>1. ~call.vcl
    <3>1. CASE p.ts = n
      BY <3>1, <1>5, <1>6, <1>14 DEF Begun, Belongs
    <3>2. CASE p.ts # n
      BY <3>2, <1>14 DEF Strange
    <3> QED
      BY <3>1, <3>2
  <2>2. ~vcl /\ ~p.idr
    BY <2>1, <1>5, <1>14 DEF Stamped
  <2>3. enc' = back /\ call' = c /\ au' = au /\ firmware' = firmware
    BY <2>2, <1>4, <1>14 DEF Complete
  <2>4. c.got = call.got /\ Begun(w, c)
    BY <2>1, <2>2, <1>5, <1>8, <1>14 DEF Begun
  <2>5. Order(n, c.got, Tail(capq), left)
    BY <2>4, <1>1, <1>2, <1>3, <1>6, <1>7, <1>14, OrderDequeue
  <2> QED
    BY <2>3, <2>4, <2>5, <1>2, <1>8, GoOnStep
<1>15. p.kind = "empty" => Strange(p)
  BY DEF Strange
<1> QED
  BY <1>9, <1>10, <1>11, <1>12, <1>13, <1>14, <1>15

\* The wait is over: the unit is taken as it is, or the call fails.
LEMMA ExpireStep ==
  ASSUME EncoderInv, Expire
  PROVE  EncoderInv'
<1>1. /\ enc \in Encs /\ call \in Calls /\ capq \in Seq(Fills) /\ late \in BOOLEAN
      /\ firmware.whole \in Seq(Pieces)
  BY Typed DEF EncoderInv, Firmwares
<1>2. call.on /\ capq' = capq /\ refuse' = refuse
  BY DEF Expire
<1>3. /\ ~au.sending /\ enc.held = NoCap
      /\ WholeUnit(enc.seq, firmware.whole) /\ Begun(firmware.whole, call)
  BY <1>2 DEF EncoderInv, Control, InCall
<1>4. /\ enc.held \notin enc.cap
      /\ \A i \in DOMAIN capq' : capq'[i].buf \notin enc.cap /\ capq'[i].buf # enc.held
      /\ \A i, j \in DOMAIN capq' : capq'[i].buf = capq'[j].buf => i = j
      /\ CapBufs = enc.cap \cup {capq'[i].buf : i \in DOMAIN capq'} \cup ({enc.held} \ {NoCap})
      /\ \A i \in DOMAIN capq' : \E j \in DOMAIN capq : capq'[i].piece = capq[j].piece
  BY <1>2 DEF EncoderInv, OnePlace
<1>5. CASE call.vcl
  <2>1. Finish(enc, call, NoCap) /\ late' = (call.got # firmware.whole)
    BY <1>5 DEF Expire
  <2>2. /\ call.got = <<firmware.whole[1]>> /\ (call.idr => firmware.whole[1].idr)
        /\ firmware.whole[1].ts = enc.seq
    BY <1>3, <1>5 DEF Begun, WholeUnit
  <2>3. /\ call.got # <<>> /\ \A i \in DOMAIN call.got : call.got[i].ts = enc.seq
        /\ call.idr => \E i \in DOMAIN call.got : call.got[i].idr
    <3>1. DOMAIN call.got = {1} /\ call.got[1] = firmware.whole[1] /\ call.got # <<>>
      BY <2>2
    <3> QED
      BY <3>1, <2>2
  <2>4. late' \in BOOLEAN /\ (~late' => call.got = firmware.whole)
    BY <2>1
  <2> QED
    BY <2>1, <2>3, <2>4, <1>1, <1>2, <1>3, <1>4, FinishStep
<1>6. CASE ~call.vcl
  BY <1>1, <1>2, <1>3, <1>4, <1>6, FailsStep DEF Expire
<1> QED
  BY <1>5, <1>6

\* A shape that goes into the firmware is a unit that flows.
LEMMA ShapeFlows ==
  ASSUME NEW n \in 1 .. MaxFrames, NEW idr \in BOOLEAN, NEW sh \in Shapes(n, idr),
         NEW q \in Seq(Fills), \A i \in DOMAIN q : q[i].piece.ts # n
  PROVE  /\ WholeUnit(n, Body(sh))
         /\ \A m \in DOMAIN sh : Belongs(n, Body(sh), sh[m])
         /\ Order(n, <<>>, q, sh)
<1> DEFINE w == Body(sh)
<1>1. /\ sh \in Seq(Pieces) /\ w \in Seq(Pieces) /\ Len(sh) \in {1, 2} /\ Len(w) \in {1, 2}
      /\ w[1].kind = "slice" /\ w[1].ts = n
      /\ \/ /\ Len(sh) = 1 /\ w = sh
         \/ /\ Len(sh) = 2 /\ w = sh /\ sh[1].full
            /\ sh[2].kind = "rest" /\ sh[2].ts = n /\ ~sh[2].full
         \/ /\ Len(sh) = 2 /\ Len(w) = 1 /\ w[1] = sh[2]
            /\ sh[1].kind = "headers" /\ ~sh[2].full
  BY ShapeOfFrame
<1> HIDE DEF w
<1>2. WholeUnit(n, w)
  BY <1>1 DEF WholeUnit
<1>3. AtQ(q, n, "slice") = {} /\ AtQ(q, n, "rest") = {}
  BY DEF AtQ
<1>4. CASE Len(sh) = 1
  <2>1. w = sh /\ DOMAIN sh = {1}
    BY <1>1, <1>4
  <2>2. AtL(sh, n, "slice") = {1} /\ AtL(sh, n, "rest") = {}
    BY <2>1, <1>1 DEF AtL
  <2>3. \A m \in DOMAIN sh : Belongs(n, w, sh[m])
    BY <2>1, <1>1 DEF Belongs
  <2>4. Order(n, <<>>, q, sh)
    BY <2>2, <1>3, <1>4 DEF Order
  <2> QED
    BY <2>3, <2>4, <1>2 DEF w
<1>5. CASE Len(sh) = 2 /\ w = sh /\ sh[2].kind = "rest"
  <2>1. DOMAIN sh = {1, 2} /\ sh[2].ts = n
    BY <1>1, <1>5
  <2>2. AtL(sh, n, "slice") = {1} /\ AtL(sh, n, "rest") = {2}
    BY <2>1, <1>1, <1>5 DEF AtL
  <2>3. \A m \in DOMAIN sh : Belongs(n, w, sh[m])
    BY <2>1, <1>1, <1>5 DEF Belongs
  <2>4. Order(n, <<>>, q, sh)
    BY <2>2, <1>3, <1>5, SMTT(30) DEF Order
  <2> QED
    BY <2>3, <2>4, <1>2 DEF w
<1>6. CASE Len(sh) = 2 /\ w[1] = sh[2] /\ sh[1].kind = "headers" /\ ~sh[2].full
  <2>1. DOMAIN sh = {1, 2} /\ sh[2].ts = n /\ sh[2].kind = "slice"
    BY <1>1, <1>6
  <2>2. AtL(sh, n, "slice") = {2} /\ AtL(sh, n, "rest") = {}
    BY <2>1, <1>1, <1>6 DEF AtL
  <2>3. \A m \in DOMAIN sh : Belongs(n, w, sh[m])
    BY <2>1, <1>1, <1>6 DEF Belongs
  <2>4. Order(n, <<>>, q, sh)
    BY <2>2, <1>3, <1>6 DEF Order
  <2> QED
    BY <2>3, <2>4, <1>2 DEF w
<1> QED
  BY <1>1, <1>4, <1>5, <1>6

\* A call begins, or fails for want of an OUTPUT buffer or of the driver's consent.
LEMMA EncodeStartStep ==
  ASSUME EncoderInv, NEW force \in BOOLEAN, NEW idr \in BOOLEAN,
         NEW sh \in Shapes(enc.seq + 1, idr), EncodeStart(force, idr, sh)
  PROVE  EncoderInv'
<1> DEFINE n == enc.seq + 1
           todo == firmware.todo
           e == [[enc EXCEPT !.cap = (@ \cup {enc.held}) \ {NoCap}, !.held = NoCap]
                 EXCEPT !.out = @ \ firmware.back]
           free == OutBufs \ e.out
           b == CHOOSE x \in free : TRUE
<1>1. /\ enc \in Encs /\ firmware \in Firmwares /\ todo \in Seq(Todos) /\ capq \in Seq(Fills)
      /\ firmware.back \subseteq OutBufs
  BY Typed DEF EncoderInv, Firmwares
<1>2. /\ ~call.on /\ ~enc.failed /\ ~au.sending /\ enc.seq < MaxFrames /\ au' = NoUnit /\ late' = FALSE
      /\ capq' = capq /\ refuse' = refuse
      /\ \/ Fails(e)
         \/ /\ free # {}
            /\ enc' = [e EXCEPT !.seq = @ + 1, !.out = @ \cup {b}]
            /\ call' = [NoCall EXCEPT !.on = TRUE, !.force = force]
            /\ firmware' = [todo |-> Append(todo, [out |-> b, left |-> sh]),
                             whole |-> Body(sh), back |-> {}]
  BY DEF EncodeStart, Reclaimed
<1>3. /\ e \in Encs /\ e.seq = enc.seq /\ e.held = NoCap /\ ~e.failed
      /\ e.cap = (enc.cap \cup {enc.held}) \ {NoCap}
  BY <1>1, <1>2 DEF Encs
<1>4. au = NoUnit
  BY <1>2 DEF EncoderInv, Control
<1> HIDE DEF e
<1>5. /\ e.held \notin e.cap
      /\ \A i \in DOMAIN capq' : capq'[i].buf \notin e.cap /\ capq'[i].buf # e.held
      /\ \A i, j \in DOMAIN capq' : capq'[i].buf = capq'[j].buf => i = j
      /\ CapBufs = e.cap \cup {capq'[i].buf : i \in DOMAIN capq'} \cup ({e.held} \ {NoCap})
      /\ \A i \in DOMAIN capq' : \E j \in DOMAIN capq : capq'[i].piece = capq[j].piece
  <2>1. \A i \in DOMAIN capq : capq[i].buf \in CapBufs
    <3>1. \A i \in DOMAIN capq : capq[i] \in Fills
      BY <1>1
    <3>2. \A f \in Fills : f.buf \in CapBufs
      BY DEF Fills
    <3> QED
      BY <3>1, <3>2
  <2>2. /\ \A i \in DOMAIN capq : capq[i].buf \notin enc.cap /\ capq[i].buf # enc.held
        /\ \A i, j \in DOMAIN capq : capq[i].buf = capq[j].buf => i = j
        /\ CapBufs = enc.cap \cup {capq[i].buf : i \in DOMAIN capq} \cup ({enc.held} \ {NoCap})
    BY DEF EncoderInv, OnePlace
  <2>3. CapBufs = e.cap \cup {capq[i].buf : i \in DOMAIN capq} \cup ({e.held} \ {NoCap})
    BY <2>2, <1>3, EncoderAssumption
  <2> QED
    BY <2>1, <2>2, <2>3, <1>2, <1>3, EncoderAssumption
<1>6. CASE Fails(e)
  BY <1>6, <1>1, <1>2, <1>3, <1>4, <1>5, FailsStep
<1>7. CASE free # {} /\ ~Fails(e)
  <2>1. b \in OutBufs
    BY <1>7
  <2> HIDE DEF b, free
  <2> DEFINE u == [out |-> b, left |-> sh]
             todo2 == Append(todo, u)
  <2>2. /\ enc' = [e EXCEPT !.seq = @ + 1, !.out = @ \cup {b}]
        /\ call' = [NoCall EXCEPT !.on = TRUE, !.force = force]
        /\ firmware' = [todo |-> todo2, whole |-> Body(sh), back |-> {}]
    BY <1>2, <1>7
  <2>3. enc.seq \in Nat /\ n \in 1 .. MaxFrames /\ n \in 0 .. MaxFrames /\ n \in Nat
    BY <1>1, <1>2, EncoderAssumption DEF Encs
  <2>4. /\ sh \in Seq(Pieces) /\ Body(sh) \in Seq(Pieces) /\ Len(sh) \in {1, 2}
        /\ \A m \in DOMAIN sh : sh[m].ts <= n /\ (sh[m].idr => sh[m].kind = "slice")
    BY <2>3, ShapeOfFrame
  <2>5. /\ enc' \in Encs /\ enc'.seq = n /\ enc'.held = e.held /\ enc'.cap = e.cap /\ ~enc'.failed
    BY <2>1, <2>2, <2>3, <1>3 DEF Encs
  <2>6. /\ call' \in Calls /\ call'.on /\ call'.got = <<>> /\ ~call'.vcl /\ ~call'.idr
    BY <2>2, NoneTyped DEF NoCall, Calls
  <2>7. u \in Todos /\ u.left = sh
    BY <2>1, <2>4 DEF Todos
  <2> HIDE DEF u
  <2>8. /\ todo2 \in Seq(Todos) /\ Len(todo2) = Len(todo) + 1 /\ todo2[Len(todo2)] = u
        /\ todo2 # <<>> /\ Len(todo) \in Nat
        /\ \A k \in DOMAIN todo2 : k \in Nat /\ (k < Len(todo2) => k \in DOMAIN todo /\ todo2[k] = todo[k])
        /\ \A k \in DOMAIN todo2 : k < Len(todo2) \/ k = Len(todo2)
    BY <2>7, <1>1, AppendProperties
  <2> HIDE DEF todo2
  <2>9. firmware' \in Firmwares /\ firmware'.todo = todo2 /\ firmware'.whole = Body(sh)
    BY <2>2, <2>4, <2>8 DEF Firmwares
  <2>10. /\ \A i \in DOMAIN capq : Stamped(n, capq[i].piece) /\ capq[i].piece.ts # n
    <3>1. \A i \in DOMAIN capq : Stamped(enc.seq, capq[i].piece) /\ capq[i] \in Fills
      BY <1>1 DEF EncoderInv, Stamps, StampsOf
    <3>2. \A f \in Fills : f.piece.ts \in Nat
      BY DEF Fills, Pieces
    <3> QED
      BY <3>1, <3>2, <2>3 DEF Stamped
  <2>11. \A k \in DOMAIN todo :
           /\ Len(todo[k].left) \in {1, 2}
           /\ \A m \in DOMAIN todo[k].left : Stamped(n, todo[k].left[m]) /\ todo[k].left[m].ts < n
    <3>1. ASSUME NEW k \in DOMAIN todo
          PROVE  /\ Len(todo[k].left) \in {1, 2} /\ todo[k].left \in Seq(Pieces)
                 /\ \A m \in DOMAIN todo[k].left : Stamped(enc.seq, todo[k].left[m])
      <4>1. todo[k] \in Todos
        BY <1>1
      <4> QED
        BY <4>1 DEF EncoderInv, Stamps, StampsOf, Todos
    <3>2. \A f \in Pieces : f.ts \in Nat
      BY DEF Pieces
    <3>3. ASSUME NEW k \in DOMAIN todo, NEW m \in DOMAIN todo[k].left
          PROVE  Stamped(n, todo[k].left[m]) /\ todo[k].left[m].ts < n
      <4>1. todo[k].left[m] \in Pieces /\ Stamped(enc.seq, todo[k].left[m])
        BY <3>1, <3>3
      <4> QED
        BY <4>1, <3>2, <2>3 DEF Stamped
    <3> QED
      BY <3>1, <3>3
  <2>12. EncoderTypeOK'
    <3>1. au' \in Units /\ late' \in BOOLEAN
      BY <1>2, NoneTyped
    <3> QED
      BY <3>1, <2>5, <2>6, <2>9, <1>1, <1>2
         DEF EncoderInv, EncoderTypeOK, Encs, Calls, Units, Firmwares, Todos, Fills
  <2>13. Control'
    BY <2>3, <2>5, <2>6, <1>2, <1>3 DEF Control, NoUnit
  <2>14. OnePlace'
    BY <2>5, <1>5 DEF OnePlace
  <2>15. StampsOf(n, capq, todo2)
    <3>1. ASSUME NEW k \in DOMAIN todo2
          PROVE  /\ Len(todo2[k].left) \in {1, 2}
                 /\ \A m \in DOMAIN todo2[k].left : Stamped(n, todo2[k].left[m])
      <4>1. CASE k = Len(todo2)
        BY <4>1, <2>4, <2>7, <2>8 DEF Stamped
      <4>2. CASE k < Len(todo2)
        BY <4>2, <2>8, <2>11
      <4> QED
        BY <4>1, <4>2, <2>8
    <3> QED
      BY <3>1, <2>10 DEF StampsOf
  <2>16. Stamps'
    BY <2>5, <2>9, <2>15, <1>2 DEF Stamps
  <2>17. InCall'
    <3>1. /\ WholeUnit(n, Body(sh)) /\ \A m \in DOMAIN sh : Belongs(n, Body(sh), sh[m])
          /\ Order(n, <<>>, capq, sh)
      BY <2>3, <2>10, <1>1, ShapeFlows
    <3>2. LastLeft(todo2) = sh
      BY <2>7, <2>8 DEF LastLeft
    <3>3. \A k \in DOMAIN todo2 : k < Len(todo2) =>
            \A m \in DOMAIN todo2[k].left : todo2[k].left[m].ts < n
      BY <2>8, <2>11
    <3>4. \A i \in DOMAIN capq : Belongs(n, Body(sh), capq[i].piece)
      BY <2>10 DEF Belongs
    <3>5. Flows(n, Body(sh), <<>>, capq, todo2)
      BY <3>1, <3>2, <3>3, <3>4 DEF Flows
    <3>6. Begun(Body(sh), call')
      BY <2>6 DEF Begun
    <3> QED
      BY <3>1, <3>5, <3>6, <2>5, <2>6, <2>9, <1>2 DEF InCall
  <2>18. Sending'
    BY <1>2 DEF Sending, NoUnit
  <2> QED
    BY <2>12, <2>13, <2>14, <2>16, <2>17, <2>18 DEF EncoderInv
<1> QED
  BY <1>2, <1>6, <1>7

LEMMA EncoderInvNext ==
  ASSUME EncoderInv, [EncoderNext]_encoderVars
  PROVE  EncoderInv'
<1>1. ASSUME NEW force \in BOOLEAN, NEW idr \in BOOLEAN, NEW sh \in Shapes(enc.seq + 1, idr),
             EncodeStart(force, idr, sh)
      PROVE  EncoderInv'
  BY <1>1, EncodeStartStep
<1>2. CASE Dequeue
  BY <1>2, DequeueStep
<1>3. CASE Expire
  BY <1>3, ExpireStep
<1>4. CASE UnitSent
  BY <1>4, UnitSentStep
<1>5. ASSUME NEW b \in CapBufs, Emit(b) PROVE EncoderInv'
  BY <1>5, EmitStep
<1>6. ASSUME NEW b \in CapBufs, NEW k \in {"slice", "empty", "error"}, EmitRefuse(b, k)
      PROVE  EncoderInv'
  BY <1>6, EmitRefuseStep
<1>7. CASE UNCHANGED encoderVars
  <2>1. /\ enc' = enc /\ call' = call /\ au' = au /\ firmware' = firmware
        /\ capq' = capq /\ late' = late /\ refuse' = refuse
    BY <1>7 DEF encoderVars
  <2> QED
    BY <2>1 DEF EncoderInv, EncoderTypeOK, Control, OnePlace, Stamps, InCall, Sending
<1> QED
  BY <1>1, <1>2, <1>3, <1>4, <1>5, <1>6, <1>7 DEF EncoderNext

LEMMA EncoderInvHolds == EncoderSpec => []EncoderInv
<1>1. EncoderInit => EncoderInv
  BY EncoderInvInit
<1>2. EncoderInv /\ [EncoderNext]_encoderVars => EncoderInv'
  BY EncoderInvNext
<1> QED
  BY <1>1, <1>2, PTL DEF EncoderSpec

(***************************************************************************)
(* The theorems.                                                           *)
(***************************************************************************)
\* Every variable of the encoder keeps its type; in particular the frame
\* number never passes the bound that stamps are drawn from.
THEOREM EncoderTypeCorrect == EncoderSpec => []EncoderTypeOK
<1>1. EncoderInv => EncoderTypeOK
  BY DEF EncoderInv
<1> QED
  BY <1>1, EncoderInvHolds, PTL

\* The unit the core sends is that of its frame, whole and in order, opens an
\* episode when it has to, and lies in a buffer the driver does not have, and
\* no buffer is ever lost: for any number of buffers and frames, and however
\* late and mixed the pieces come.
THEOREM UnitAlwaysLent == EncoderSpec => []UnitLent
<1>1. EncoderInv => UnitLent
  <2> SUFFICES ASSUME EncoderInv PROVE UnitLent
    OBVIOUS
  <2>1. UnitExact
    BY DEF EncoderInv, Control, Sending, UnitExact
  <2>2. {x.buf : x \in ToSet(capq)} = {capq[i].buf : i \in DOMAIN capq}
    BY DEF ToSet
  <2>3. BufferLent
    BY <2>2 DEF EncoderInv, Control, OnePlace, BufferLent
  <2> QED
    BY <2>1, <2>3 DEF UnitLent
<1> QED
  BY <1>1, EncoderInvHolds, PTL

(***************************************************************************)
(* The encoder implements EncoderApi.                                      *)
(***************************************************************************)
\* All pieces of a unit are of one frame.
LEMMA OneFrame ==
  ASSUME NEW got \in Seq(Pieces), got # <<>>, NEW n, \A i \in DOMAIN got : got[i].ts = n
  PROVE  {p.ts : p \in ToSet(got)} = {n}
<1>1. 1 \in DOMAIN got
  BY EmptySeq
<1>2. ToSet(got) = {got[i] : i \in DOMAIN got}
  BY DEF ToSet
<1>3. got[1] \in ToSet(got) /\ \A p \in ToSet(got) : p.ts = n
  BY <1>1, <1>2
<1> QED
  BY <1>3

LEMMA UnitOfFrame ==
  ASSUME EncoderInv
  PROVE  ApiUnit = IF au.sending THEN {enc.seq} ELSE {}
<1>1. CASE au.sending
  <2>1. au.got \in Seq(Pieces) /\ au.got # <<>> /\ \A i \in DOMAIN au.got : au.got[i].ts = enc.seq
    BY <1>1, Typed DEF EncoderInv, Sending, Units
  <2> QED
    BY <2>1, <1>1, OneFrame DEF ApiUnit
<1>2. CASE ~au.sending
  BY <1>2 DEF ApiUnit
<1> QED
  BY <1>1, <1>2

LEMMA UnitOfFrameNext ==
  ASSUME EncoderInv'
  PROVE  ApiUnit' = IF au'.sending THEN {enc'.seq} ELSE {}
<1>1. CASE au'.sending
  <2>1. /\ au'.got \in Seq(Pieces) /\ au'.got # <<>>
        /\ \A i \in DOMAIN au'.got : au'.got[i].ts = enc'.seq
    BY <1>1 DEF EncoderInv, EncoderTypeOK, Sending
  <2>2. {p.ts : p \in ToSet(au'.got)} = {enc'.seq}
    BY <2>1, OneFrame
  <2>3. ApiUnit' = {p.ts : p \in ToSet(au'.got)}
    BY <1>1 DEF ApiUnit
  <2> QED
    BY <2>2, <2>3, <1>1
<1>2. CASE ~au'.sending
  BY <1>2 DEF ApiUnit
<1> QED
  BY <1>1, <1>2

LEMMA ApiStep ==
  ASSUME EncoderInv, EncoderInv', [EncoderNext]_encoderVars
  PROVE  [Api!ApiNext]_(Api!apiVars)
<1>1. /\ ApiUnit = IF au.sending THEN {enc.seq} ELSE {}
      /\ ApiUnit' = IF au'.sending THEN {enc'.seq} ELSE {}
  BY UnitOfFrame, UnitOfFrameNext
<1>2. /\ call.on => ~enc.failed /\ ~au.sending
      /\ call'.on => ~enc'.failed /\ ~au'.sending
      /\ au.sending => ~enc.failed
  BY DEF EncoderInv, Control
<1>3. enc \in Encs /\ call \in Calls
  BY Typed DEF EncoderInv
<1>4. ASSUME NEW e \in Encs, e.seq = enc.seq, Fails(e), ~au'.sending, ~au.sending, call.on \/ ~enc.failed
      PROVE  Api!GiveUp
  <2>1. enc'.failed /\ enc'.seq = enc.seq /\ ~call'.on
    BY <1>4 DEF Fails, Reclaimed, Encs, NoCall
  <2> QED
    BY <2>1, <1>1, <1>4 DEF Api!GiveUp, ApiPhase
<1>5. ASSUME NEW e \in Encs, NEW c, NEW buf, e.seq = enc.seq, Finish(e, c, buf), call.on
      PROVE  Api!GiveUp \/ Api!Return
  <2>1. /\ enc'.seq = enc.seq /\ ~call'.on /\ (enc'.failed <=> c.force /\ ~c.idr)
    BY <1>5 DEF Finish, Reclaimed, Encs, NoCall
  <2>2. au'.sending <=> ~(c.force /\ ~c.idr)
    BY <1>5 DEF Finish, NoUnit
  <2> QED
    BY <2>1, <2>2, <1>1, <1>2, <1>5 DEF Api!GiveUp, Api!Return, ApiPhase
<1>6. ASSUME NEW force \in BOOLEAN, NEW idr \in BOOLEAN, NEW sh \in Shapes(enc.seq + 1, idr),
             EncodeStart(force, idr, sh)
      PROVE  Api!ApiNext
  <2> DEFINE e == [[enc EXCEPT !.cap = (@ \cup {enc.held}) \ {NoCap}, !.held = NoCap]
                   EXCEPT !.out = @ \ firmware.back]
             b == CHOOSE x \in OutBufs \ e.out : TRUE
  <2>1. /\ ~call.on /\ ~enc.failed /\ ~au.sending /\ au' = NoUnit
        /\ \/ Fails(e)
           \/ /\ enc' = [e EXCEPT !.seq = @ + 1, !.out = @ \cup {b}]
              /\ call' = [NoCall EXCEPT !.on = TRUE, !.force = force]
    BY <1>6 DEF EncodeStart, Reclaimed
  <2>2. e \in Encs /\ e.seq = enc.seq
    BY <1>3 DEF Encs
  <2>3. ~au'.sending
    BY <2>1 DEF NoUnit
  <2> HIDE DEF e, b
  <2>4. CASE Fails(e)
    BY <2>1, <2>2, <2>3, <2>4, <1>4 DEF Api!ApiNext
  <2>5. CASE /\ enc' = [e EXCEPT !.seq = @ + 1, !.out = @ \cup {b}]
             /\ call' = [NoCall EXCEPT !.on = TRUE, !.force = force]
    <3>1. enc'.seq = enc.seq + 1 /\ call'.on
      BY <2>2, <2>5 DEF Encs, NoCall
    <3> QED
      BY <3>1, <2>1, <2>3, <1>1 DEF Api!ApiNext, Api!Submit, ApiPhase
  <2> QED
    BY <2>1, <2>4, <2>5
<1>7. CASE Dequeue
  <2> DEFINE b == Head(capq).buf
             p == Head(capq).piece
             back == [enc EXCEPT !.cap = @ \cup {b}]
             vcl == call.vcl \/ p.kind = "slice"
             c == [call EXCEPT !.vcl = vcl, !.idr = @ \/ p.idr, !.pieces = TRUE,
                               !.got = IF p.kind = "headers" THEN @ ELSE Append(@, p)]
  <2>1. /\ call.on
        /\ \/ Fails(back) /\ au' = au
           \/ enc' = back /\ call' = call /\ au' = au
           \/ Finish(enc, c, b)
           \/ Finish(back, c, NoCap)
           \/ enc' = back /\ call' = c /\ au' = au
    BY <1>7 DEF Dequeue
  <2>2. back \in Encs /\ back.seq = enc.seq
    <3>1. capq # <<>> /\ capq \in Seq(Fills)
      BY <1>7, Typed DEF Dequeue, EncoderInv
    <3>2. Head(capq) \in Fills
      BY <3>1
    <3>3. b \in CapBufs
      BY <3>2 DEF Fills
    <3> QED
      BY <3>3, <1>3 DEF Encs
  <2>3. c.on
    BY <2>1, <1>3 DEF Calls
  <2> HIDE DEF back, c, b
  <2>4. CASE Fails(back) /\ au' = au
    BY <2>1, <2>2, <2>4, <1>2, <1>4 DEF Api!ApiNext
  <2>5. CASE Finish(enc, c, b) \/ Finish(back, c, NoCap)
    BY <2>1, <2>2, <2>5, <1>3, <1>5 DEF Api!ApiNext
  <2>6. CASE enc' = back /\ (call' = call \/ call' = c) /\ au' = au
    BY <2>1, <2>2, <2>3, <2>6, <1>1 DEF Api!apiVars, ApiPhase
  <2> QED
    BY <2>1, <2>4, <2>5, <2>6
<1>8. CASE Expire
  <2>1. call.on /\ (Finish(enc, call, NoCap) \/ (Fails(enc) /\ au' = au))
    BY <1>8 DEF Expire
  <2> QED
    BY <2>1, <1>2, <1>3, <1>4, <1>5 DEF Api!ApiNext
<1>9. CASE UnitSent
  <2>1. au.sending /\ ~au'.sending /\ enc' = enc /\ call' = call
    BY <1>9 DEF UnitSent, NoUnit
  <2> QED
    BY <2>1, <1>1, <1>2 DEF Api!ApiNext, Api!Done, ApiPhase
<1>10. ASSUME enc'.seq = enc.seq, enc'.failed = enc.failed, call' = call, au' = au
       PROVE  UNCHANGED Api!apiVars
  BY <1>1, <1>10 DEF Api!apiVars, ApiPhase
<1>11. ASSUME NEW b \in CapBufs, NEW k \in {"slice", "empty", "error"}, Emit(b) \/ EmitRefuse(b, k)
       PROVE  UNCHANGED Api!apiVars
  <2>1. enc' = [enc EXCEPT !.cap = @ \ {b}] /\ call' = call /\ au' = au
    BY <1>11 DEF Emit, EmitRefuse
  <2> QED
    BY <2>1, <1>3, <1>10 DEF Encs
<1>12. CASE UNCHANGED encoderVars
  BY <1>10, <1>12 DEF encoderVars
<1>13. CASE EncoderNext
  <2>1. ASSUME NEW b \in CapBufs, Emit(b) PROVE UNCHANGED Api!apiVars
    BY <2>1, <1>11
  <2> QED
    BY <2>1, <1>6, <1>7, <1>8, <1>9, <1>11, <1>13 DEF EncoderNext
<1> QED
  BY <1>12, <1>13

\* The hardware encoder does what the transmit path expects of any encoder:
\* each step is a call, its answer, the end of a loan, a failure for good, or
\* none of the caller's business.
THEOREM EncoderRefines == EncoderSpec => EncoderImplements
<1>1. EncoderInit => Api!ApiInit
  BY DEF EncoderInit, Api!ApiInit, ApiPhase, ApiUnit, NoCall, NoUnit
<1>2. EncoderInv /\ EncoderInv' /\ [EncoderNext]_encoderVars => [Api!ApiNext]_(Api!apiVars)
  BY ApiStep
<1> QED
  BY <1>1, <1>2, EncoderInvHolds, PTL DEF EncoderSpec, EncoderImplements, Api!ApiSpec
=============================================================================
