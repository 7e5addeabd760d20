----------------------------- MODULE XmitProofs -----------------------------
(***************************************************************************)
(* Proofs about Xmit, for every geometry, pixel set, capacity and          *)
(* environment.                                                            *)
(***************************************************************************)
EXTENDS Xmit, WellFoundedInduction, TLAPS

(***************************************************************************)
(* Smallest and largest elements.                                          *)
(***************************************************************************)
\* Min of a non-empty set of naturals is its least element.
LEMMA MinExists ==
  ASSUME NEW S \in SUBSET Nat, S # {}
  PROVE  Min(S) \in S /\ \A y \in S : Min(S) <= y
<1> DEFINE R == {ss \in Nat \X Nat : ss[1] < ss[2]}
<1>1. OpToRel(<, Nat) = R
  BY Zenon DEF OpToRel
<1>2. \E x \in S : \A y \in S : <<y, x>> \notin R
  BY <1>1, NatLessThanWellFounded, WFMin, Zenon
<1>3. \A x, y \in Nat : <<y, x>> \notin R => x <= y
  OBVIOUS
<1> HIDE DEF R
<1>4. \E x \in S : \A y \in S : x <= y
  BY <1>2, <1>3
<1> QED
  BY <1>4, Zenon DEF Min

\* Max of a non-empty set of bounded naturals is its greatest element.
LEMMA MaxExists ==
  ASSUME NEW n \in Nat, NEW S \in SUBSET (0 .. n), S # {}
  PROVE  Max(S) \in S /\ \A y \in S : Max(S) >= y
<1> DEFINE T == {n - x : x \in S}
<1>1. T \in SUBSET Nat /\ T # {}
  <2>1. \A x \in S : n - x \in Nat
    OBVIOUS
  <2> QED
    BY <2>1
<1>2. Min(T) \in T /\ \A y \in T : Min(T) <= y
  BY <1>1, MinExists
<1>3. PICK x \in S : Min(T) = n - x
  BY <1>2
<1>4. \A y \in S : x >= y
  <2> TAKE y \in S
  <2>1. n - y \in T
    OBVIOUS
  <2> HIDE DEF T
  <2>2. n - x <= n - y
    BY <2>1, <1>2, <1>3
  <2> QED
    BY <2>2
<1> QED
  BY <1>4, Zenon DEF Max

(***************************************************************************)
(* Rectangles.                                                             *)
(***************************************************************************)
\* rect_union covers both rectangles and stays on the screen.
LEMMA RectUnionCovers ==
  ASSUME NEW a \in Rect, NEW b \in Rect
  PROVE  /\ RectUnion(a, b) \in Rect
         /\ CellsOf(a) \cup CellsOf(b) \subseteq CellsOf(RectUnion(a, b))
<1> USE GeomAssumption
<1>1. /\ a.x1 \in 0 .. W /\ a.x2 \in 0 .. W /\ a.y1 \in 0 .. H /\ a.y2 \in 0 .. H
      /\ b.x1 \in 0 .. W /\ b.x2 \in 0 .. W /\ b.y1 \in 0 .. H /\ b.y2 \in 0 .. H
  BY DEF Rect
<1>2. \A u, v \in Nat : /\ Min({u, v}) \in {u, v}
                        /\ Min({u, v}) <= u /\ Min({u, v}) <= v
  <2> TAKE u, v \in Nat
  <2>1. {u, v} \in SUBSET Nat /\ {u, v} # {} /\ u \in {u, v} /\ v \in {u, v}
    OBVIOUS
  <2> QED
    BY <2>1, MinExists, Zenon
<1>3. \A n \in Nat : \A u, v \in 0 .. n :
        /\ Max({u, v}) \in {u, v}
        /\ Max({u, v}) >= u /\ Max({u, v}) >= v
  <2> TAKE n \in Nat
  <2> TAKE u, v \in 0 .. n
  <2>1. {u, v} \in SUBSET (0 .. n) /\ {u, v} # {} /\ u \in {u, v} /\ v \in {u, v}
    OBVIOUS
  <2> QED
    BY <2>1, MaxExists, Zenon
<1> DEFINE q == RectUnion(a, b)
<1>4. /\ q.x1 \in 0 .. W /\ q.x1 <= a.x1 /\ q.x1 <= b.x1
      /\ q.y1 \in 0 .. H /\ q.y1 <= a.y1 /\ q.y1 <= b.y1
  BY <1>1, <1>2 DEF RectUnion
<1>5. /\ q.x2 \in 0 .. W /\ q.x2 >= a.x2 /\ q.x2 >= b.x2
      /\ q.y2 \in 0 .. H /\ q.y2 >= a.y2 /\ q.y2 >= b.y2
  BY <1>1, <1>3 DEF RectUnion
<1>6. q \in Rect
  BY <1>4, <1>5 DEF RectUnion, Rect
<1> HIDE DEF q
<1>7. CellsOf(a) \cup CellsOf(b) \subseteq CellsOf(q)
  BY <1>1, <1>4, <1>5 DEF CellsOf, Cells
<1> QED
  BY <1>6, <1>7 DEF q

\* The overflow box covers every rectangle it replaces, and the new one.
LEMMA BoundingBoxCovers ==
  ASSUME NEW dirty \in Seq(Rect), NEW r \in Rect
  PROVE  /\ BoundingBox(dirty, r) \in Rect
         /\ CellsOf(r) \subseteq CellsOf(BoundingBox(dirty, r))
         /\ \A i \in DOMAIN dirty :
              CellsOf(dirty[i]) \subseteq CellsOf(BoundingBox(dirty, r))
<1> USE GeomAssumption
<1> DEFINE rs == {dirty[i] : i \in DOMAIN dirty} \cup {r}
           q == BoundingBox(dirty, r)
<1>1. rs \in SUBSET Rect /\ r \in rs /\ \A i \in DOMAIN dirty : dirty[i] \in rs
  OBVIOUS
<1>2. q = [x1 |-> Min({s.x1 : s \in rs}), y1 |-> Min({s.y1 : s \in rs}),
           x2 |-> Max({s.x2 : s \in rs}), y2 |-> Max({s.y2 : s \in rs})]
  BY DEF BoundingBox
<1> HIDE DEF rs, q
<1>3. \A s \in rs : /\ s.x1 \in 0 .. W /\ s.x2 \in 0 .. W
                    /\ s.y1 \in 0 .. H /\ s.y2 \in 0 .. H
  BY <1>1 DEF Rect
<1>4. q.x1 \in 0 .. W /\ \A s \in rs : q.x1 <= s.x1
  <2> DEFINE S == {s.x1 : s \in rs}
  <2>1. S \in SUBSET Nat /\ S \in SUBSET (0 .. W) /\ r.x1 \in S
    BY <1>1, <1>3
  <2>2. Min(S) \in S /\ \A y \in S : Min(S) <= y
    BY <2>1, MinExists
  <2> QED
    BY <2>1, <2>2, <1>2
<1>5. q.y1 \in 0 .. H /\ \A s \in rs : q.y1 <= s.y1
  <2> DEFINE S == {s.y1 : s \in rs}
  <2>1. S \in SUBSET Nat /\ S \in SUBSET (0 .. H) /\ r.y1 \in S
    BY <1>1, <1>3
  <2>2. Min(S) \in S /\ \A y \in S : Min(S) <= y
    BY <2>1, MinExists
  <2> QED
    BY <2>1, <2>2, <1>2
<1>6. q.x2 \in 0 .. W /\ \A s \in rs : q.x2 >= s.x2
  <2> DEFINE S == {s.x2 : s \in rs}
  <2>1. S \in SUBSET (0 .. W) /\ r.x2 \in S
    BY <1>1, <1>3
  <2>2. Max(S) \in S /\ \A y \in S : Max(S) >= y
    BY <2>1, MaxExists
  <2> QED
    BY <2>1, <2>2, <1>2
<1>7. q.y2 \in 0 .. H /\ \A s \in rs : q.y2 >= s.y2
  <2> DEFINE S == {s.y2 : s \in rs}
  <2>1. S \in SUBSET (0 .. H) /\ r.y2 \in S
    BY <1>1, <1>3
  <2>2. Max(S) \in S /\ \A y \in S : Max(S) >= y
    BY <2>1, MaxExists
  <2> QED
    BY <2>1, <2>2, <1>2
<1>8. q \in Rect
  BY <1>2, <1>4, <1>5, <1>6, <1>7 DEF Rect
<1>9. ASSUME NEW s \in rs, NEW p \in CellsOf(s)
      PROVE  p \in CellsOf(q)
  <2>1. /\ q.x1 <= s.x1 /\ q.y1 <= s.y1 /\ q.x2 >= s.x2 /\ q.y2 >= s.y2
        /\ q.x1 \in Int /\ q.y1 \in Int /\ q.x2 \in Int /\ q.y2 \in Int
        /\ s.x1 \in Int /\ s.y1 \in Int /\ s.x2 \in Int /\ s.y2 \in Int
    BY <1>3, <1>4, <1>5, <1>6, <1>7
  <2>2. /\ p \in Cells
        /\ s.x1 <= p[1] /\ p[1] < s.x2 /\ s.y1 <= p[2] /\ p[2] < s.y2
    BY DEF CellsOf
  <2>3. p[1] \in Int /\ p[2] \in Int
    BY <2>2 DEF Cells
  <2>4. q.x1 <= p[1] /\ p[1] < q.x2 /\ q.y1 <= p[2] /\ p[2] < q.y2
    BY <2>1, <2>2, <2>3, SMTT(30)
  <2> QED
    BY <2>2, <2>4 DEF CellsOf
<1> QED
  BY <1>1, <1>8, <1>9 DEF q

\* The clamp of sremfb_xmit_damage yields a rectangle of the screen.
LEMMA ClampRectType ==
  ASSUME NEW r \in DamageRects
  PROVE  ClampRect(r) \in Rect
<1>1. r.x1 \in Int /\ r.y1 \in Int /\ r.x2 \in Int /\ r.y2 \in Int
  BY RectsAssumption
<1>2. \A hi \in Nat : \A v \in Int : Clamp(v, hi) \in 0 .. hi
  BY DEF Clamp
<1>3. W \in Nat /\ H \in Nat
  BY GeomAssumption
<1> QED
  BY <1>1, <1>2, <1>3 DEF ClampRect, Rect

(***************************************************************************)
(* The operators on the client record.  Each lemma says that an operator   *)
(* keeps the record well formed and the damage covered.                    *)
(***************************************************************************)
WellFormed(d) ==
  /\ d \in ClientType
  /\ Len(d.dirty) <= DirtyMax
  /\ d.pings <= PingsMax

Covered(d) ==
  d.grabbed => Diff(d.grabbuf, d.shadowbuf) \subseteq Region(d)

Sound(d) == WellFormed(d) /\ Covered(d)

\* A record that differs in none of the fields Sound looks at.
LEMMA SoundFrame ==
  ASSUME NEW d, NEW e, Sound(d), e \in ClientType,
         e.dirty = d.dirty, e.dirty_all = d.dirty_all, e.pings <= PingsMax,
         e.grabbed = d.grabbed, e.grabbuf = d.grabbuf,
         e.shadowbuf = d.shadowbuf
  PROVE  Sound(e)
BY DEF Sound, WellFormed, Covered, Region

\* With everything pending, any picture is covered.
LEMMA SoundAll ==
  ASSUME NEW e \in ClientType, Len(e.dirty) <= DirtyMax, e.pings <= PingsMax,
         e.dirty_all
  PROVE  Sound(e)
BY DEF Sound, WellFormed, Covered, Region, Diff

LEMMA EmptyDirty == <<>> \in Seq(Rect) /\ Len(<<>>) <= DirtyMax
BY BoundAssumption

LEMMA KickSound ==
  ASSUME NEW d, Sound(d)
  PROVE  Sound(Kick(d))
<1> DEFINE e == [d EXCEPT !.out_watch = TRUE]
<1>1. Kick(d) = d \/ Kick(d) = e
  BY DEF Kick
<1>2. d \in ClientType /\ d.pings <= PingsMax
  BY DEF Sound, WellFormed
<1>3. Sound(e)
  BY <1>2, SoundFrame DEF ClientType
<1> QED
  BY <1>1, <1>3

LEMMA XmitCtrlSound ==
  ASSUME NEW d, Sound(d), NEW m \in Ctrls
  PROVE  Sound(XmitCtrl(d, m))
<1> DEFINE e == [d EXCEPT !.outq = Append(@, m)]
<1>1. XmitCtrl(d, m) = d \/ XmitCtrl(d, m) = Kick(e)
  BY DEF XmitCtrl
<1>2. d \in ClientType /\ d.pings <= PingsMax
  BY DEF Sound, WellFormed
<1>3. d.outq \in Seq(Ctrls) /\ Append(d.outq, m) \in Seq(Ctrls)
  <2>1. d.outq \in Seq(Ctrls)
    BY <1>2 DEF ClientType
  <2> QED
    BY <2>1
<1>4. e \in ClientType
  BY <1>2, <1>3 DEF ClientType
<1>5. /\ e.dirty = d.dirty /\ e.dirty_all = d.dirty_all /\ e.pings = d.pings
      /\ e.grabbed = d.grabbed /\ e.grabbuf = d.grabbuf
      /\ e.shadowbuf = d.shadowbuf
  BY <1>2 DEF ClientType
<1> HIDE DEF e
<1>6. Sound(e)
  BY <1>2, <1>4, <1>5, SoundFrame
<1> QED
  BY <1>1, <1>6, KickSound

LEMMA SetModeRawSound ==
  ASSUME NEW d, Sound(d)
  PROVE  Sound(SetModeRaw(d))
<1> DEFINE d1 == [d EXCEPT !.xmit_mode = "RAW"]
           d2 == XmitCtrl(d1, "EOS")
           d3 == [d2 EXCEPT !.dirty = <<>>, !.dirty_all = TRUE]
<1>1. SetModeRaw(d) = d \/ SetModeRaw(d) = Kick(d3)
  BY DEF SetModeRaw
<1>2. d \in ClientType /\ d.pings <= PingsMax
  BY DEF Sound, WellFormed
<1>3. Sound(d1)
  BY <1>2, SoundFrame DEF ClientType
<1>4. Sound(d2)
  BY <1>3, XmitCtrlSound DEF Ctrls
<1> HIDE DEF d2
<1>5. d2 \in ClientType /\ d2.pings <= PingsMax
  BY <1>4 DEF Sound, WellFormed
<1>6. d3 \in ClientType /\ d3.pings = d2.pings /\ d3.dirty_all /\ d3.dirty = <<>>
  BY <1>5, EmptyDirty DEF ClientType
<1> HIDE DEF d3
<1>7. Sound(d3)
  BY <1>5, <1>6, SoundAll, EmptyDirty
<1> QED
  BY <1>1, <1>7, KickSound

LEMMA SetModeH264Sound ==
  ASSUME NEW d, Sound(d), NEW e \in SetModeH264(d)
  PROVE  Sound(e)
<1> DEFINE sw == [d EXCEPT !.enc = TRUE, !.force_idr = TRUE,
                           !.xmit_mode = "H264", !.dirty = <<>>,
                           !.dirty_all = d.dirty # <<>> \/ d.dirty_all]
           failed == [d EXCEPT !.h264_failed = TRUE]
<1>1. e \in {d, sw, failed}
  BY DEF SetModeH264
<1>2. d \in ClientType /\ d.pings <= PingsMax /\ Covered(d)
  BY DEF Sound, WellFormed
<1>3. Sound(failed)
  BY <1>2, SoundFrame DEF ClientType
<1>4. Sound(sw)
  <2>1. sw \in ClientType
    <3> DEFINE all == d.dirty # <<>> \/ d.dirty_all
    <3>1. all \in BOOLEAN
      BY <1>2 DEF ClientType
    <3> HIDE DEF all
    <3>2. [d EXCEPT !.enc = TRUE, !.force_idr = TRUE, !.xmit_mode = "H264",
                    !.dirty = <<>>, !.dirty_all = all] \in ClientType
      BY <1>2, <3>1, EmptyDirty DEF ClientType
    <3> QED
      BY <3>2 DEF all
  <2>2. /\ sw.pings = d.pings /\ sw.dirty = <<>>
        /\ sw.grabbed = d.grabbed /\ sw.grabbuf = d.grabbuf
        /\ sw.shadowbuf = d.shadowbuf
        /\ sw.dirty_all = (d.dirty # <<>> \/ d.dirty_all)
    BY <1>2 DEF ClientType
  <2> HIDE DEF sw
  <2>3. CASE sw.dirty_all
    BY <2>1, <2>2, <2>3, <1>2, SoundAll, EmptyDirty
  <2>4. CASE ~sw.dirty_all
    <3>1. sw.dirty = d.dirty /\ sw.dirty_all = d.dirty_all
      <4>1. d.dirty_all \in BOOLEAN
        BY <1>2 DEF ClientType
      <4> QED
        BY <2>2, <2>4, <4>1
    <3> QED
      BY <2>1, <2>2, <3>1, <1>2, SoundFrame
  <2> QED
    BY <2>3, <2>4
<1> QED
  BY <1>1, <1>3, <1>4

LEMMA CtlEvaluateSound ==
  ASSUME NEW d, Sound(d), NEW e \in CtlEvaluate(d)
  PROVE  Sound(e)
<1> DEFINE CtlStates ==
      {"RAW_STEADY", "RAW_SUSPECT", "H264_ACTIVE", "H264_COOLDOWN"}
<1>1. ASSUME NEW f, Sound(f), NEW s \in CtlStates
      PROVE  Sound([f EXCEPT !.ctl_state = s])
  <2>1. f \in ClientType /\ f.pings <= PingsMax
    BY <1>1 DEF Sound, WellFormed
  <2> QED
    BY <1>1, <2>1, SoundFrame DEF ClientType
<1>2. CASE e = d
  BY <1>2
<1>3. CASE e \in EnterH264(d)
  <2>1. PICK f \in SetModeH264(d) :
          e = [f EXCEPT !.ctl_state = IF f.xmit_mode = "H264"
                                      THEN "H264_ACTIVE" ELSE "RAW_STEADY"]
    BY <1>3 DEF EnterH264
  <2>2. Sound(f)
    BY SetModeH264Sound
  <2> QED
    BY <1>1, <2>1, <2>2
<1>4. CASE e \in LeaveH264(d)
  BY <1>1, <1>4, SetModeRawSound DEF LeaveH264
<1>5. CASE \E m \in CtlMoves : e = [d EXCEPT !.ctl_state = m[2]]
  <2>1. PICK m \in CtlMoves : e = [d EXCEPT !.ctl_state = m[2]]
    BY <1>5
  <2>2. m[2] \in CtlStates
    BY DEF CtlMoves
  <2> QED
    BY <1>1, <2>1, <2>2
<1> QED
  BY <1>2, <1>3, <1>4, <1>5 DEF CtlEvaluate

(***************************************************************************)
(* Frame builds.                                                           *)
(***************************************************************************)
LEMMA FullRectCovers == FullRect \in Rect /\ CellsOf(FullRect) = Cells
<1> USE GeomAssumption
<1>1. FullRect \in Rect
  BY DEF FullRect, Rect
<1>2. ASSUME NEW p \in Cells
      PROVE  p \in CellsOf(FullRect)
  BY DEF FullRect, CellsOf, Cells
<1>3. CellsOf(FullRect) \subseteq Cells
  BY DEF CellsOf
<1> QED
  BY <1>1, <1>2, <1>3

\* frame_start keeps what it is given sound.
LEMMA FrameStartSound ==
  ASSUME NEW d, Sound(d), NEW f \in Frames, NEW e \in FrameStart(d, f)
  PROVE  Sound(e)
<1> DEFINE g == [d EXCEPT !.out = f, !.out_off = FALSE]
<1>1. d \in ClientType /\ d.pings <= PingsMax
  BY DEF Sound, WellFormed
<1>2. g \in ClientType
  BY <1>1 DEF ClientType
<1>3. /\ g.dirty = d.dirty /\ g.dirty_all = d.dirty_all /\ g.pings = d.pings
      /\ g.grabbed = d.grabbed /\ g.grabbuf = d.grabbuf
      /\ g.shadowbuf = d.shadowbuf
  BY <1>1 DEF ClientType
<1>4. e \in CtlEvaluate(g)
  BY DEF FrameStart
<1> HIDE DEF g
<1>5. Sound(g)
  BY <1>1, <1>2, <1>3, SoundFrame
<1> QED
  BY <1>4, <1>5, CtlEvaluateSound

\* shadow_update: the pixels of r now count as sent, the others as before.
LEMMA ShadowUpdateType ==
  ASSUME NEW d \in ClientType, NEW r \in Rect
  PROVE  /\ ShadowUpdate(d, r) \in Image
         /\ Diff(d.grabbuf, ShadowUpdate(d, r))
              = Diff(d.grabbuf, d.shadowbuf) \ CellsOf(r)
<1>1. d.grabbuf \in Image /\ d.shadowbuf \in Image
  BY DEF ClientType
<1>2. ShadowUpdate(d, r) \in Image
  BY <1>1 DEF ShadowUpdate, Image
<1>3. \A p \in Cells : ShadowUpdate(d, r)[p]
        = IF p \in CellsOf(r) THEN d.grabbuf[p] ELSE d.shadowbuf[p]
  BY DEF ShadowUpdate
<1>4. Diff(d.grabbuf, ShadowUpdate(d, r))
        = Diff(d.grabbuf, d.shadowbuf) \ CellsOf(r)
  BY <1>3 DEF Diff
<1> QED
  BY <1>2, <1>4

\* Building a rectangle: what it covers need not be pending any more.
LEMMA BuildRawRectSound ==
  ASSUME NEW d, WellFormed(d), NEW r \in Rect,
         d.grabbed => Diff(d.grabbuf, d.shadowbuf)
                        \subseteq Region(d) \cup CellsOf(r),
         NEW e \in BuildRawRect(d, r)
  PROVE  Sound(e)
<1> DEFINE shown == ShadowUpdate(d, r)
           g == [d EXCEPT !.shadowbuf = shown]
           f == [encoding |-> "RAW", rect |-> r, pix |-> shown, idr |-> FALSE]
<1>1. e \in FrameStart(g, f)
  BY DEF BuildRawRect
<1>2. /\ d \in ClientType /\ d.pings <= PingsMax /\ Len(d.dirty) <= DirtyMax
      /\ shown \in Image
      /\ Diff(d.grabbuf, shown) = Diff(d.grabbuf, d.shadowbuf) \ CellsOf(r)
  BY ShadowUpdateType DEF WellFormed
<1> HIDE DEF shown
<1>3. f \in Frames
  BY <1>2 DEF Frames
<1>4. g \in ClientType
  BY <1>2 DEF ClientType
<1>5. /\ g.dirty = d.dirty /\ g.dirty_all = d.dirty_all /\ g.pings = d.pings
      /\ g.grabbed = d.grabbed /\ g.grabbuf = d.grabbuf /\ g.shadowbuf = shown
  BY <1>2 DEF ClientType
<1> HIDE DEF g, f
<1>6. Region(g) = Region(d)
  BY <1>5 DEF Region
<1>7. Sound(g)
  BY <1>2, <1>4, <1>5, <1>6 DEF Sound, WellFormed, Covered
<1> QED
  BY <1>1, <1>3, <1>7, FrameStartSound

LEMMA BuildH264FrameSound ==
  ASSUME NEW d, WellFormed(d), NEW e \in BuildH264Frame(d)
  PROVE  Sound(e)
<1> DEFINE pic == ShadowUpdate(d, FullRect)
           shown == [d EXCEPT !.shadowbuf = pic, !.force_idr = FALSE]
           au == [encoding |-> "H264", rect |-> FullRect, pix |-> d.grabbuf,
                  idr |-> d.force_idr]
           failed == [shown EXCEPT !.h264_failed = TRUE]
<1>1. e \in FrameStart(shown, au) \/ e = SetModeRaw(failed)
  BY DEF BuildH264Frame
<1>2. /\ d \in ClientType /\ d.pings <= PingsMax /\ Len(d.dirty) <= DirtyMax
      /\ pic \in Image
      /\ Diff(d.grabbuf, pic) = {}
  BY ShadowUpdateType, FullRectCovers DEF WellFormed, Diff
<1> HIDE DEF pic
<1>3. au \in Frames
  BY <1>2, FullRectCovers DEF Frames, ClientType
<1>4. shown \in ClientType
  BY <1>2 DEF ClientType
<1>5. /\ shown.dirty = d.dirty /\ shown.pings = d.pings
      /\ shown.grabbuf = d.grabbuf /\ shown.shadowbuf = pic
  BY <1>2 DEF ClientType
<1> HIDE DEF shown, au
<1>6. Sound(shown)
  BY <1>2, <1>4, <1>5 DEF Sound, WellFormed, Covered
<1>7. Sound(failed)
  BY <1>2, <1>4, <1>5, <1>6, SoundFrame DEF ClientType
<1> HIDE DEF failed
<1> QED
  BY <1>1, <1>3, <1>6, <1>7, FrameStartSound, SetModeRawSound

LEMMA BuildNextSound ==
  ASSUME NEW d, Sound(d), NEW e \in BuildNext(d)
  PROVE  Sound(e)
<1> DEFINE clean == [d EXCEPT !.dirty = <<>>, !.dirty_all = FALSE]
           retry == [d EXCEPT !.out_retry = TRUE]
           rest == [d EXCEPT !.dirty = Tail(@)]
<1>1. d \in ClientType /\ d.pings <= PingsMax /\ Len(d.dirty) <= DirtyMax
  BY DEF Sound, WellFormed
<1>2. \/ e \in {d, retry}
      \/ e \in BuildH264Frame(clean)
      \/ d.dirty_all /\ e \in BuildRawRect(clean, FullRect)
      \/ ~d.dirty_all /\ d.dirty # <<>> /\ e \in BuildRawRect(rest, Head(d.dirty))
  <2>1. d.xmit_mode \in {"RAW", "H264"} /\ d.dirty_all \in BOOLEAN
    BY <1>1 DEF ClientType
  <2> QED
    BY <2>1 DEF BuildNext
<1>3. Sound(retry)
  BY <1>1, SoundFrame DEF ClientType
<1>4. WellFormed(clean)
  <2>1. clean \in ClientType /\ clean.pings = d.pings /\ clean.dirty = <<>>
    BY <1>1, EmptyDirty DEF ClientType
  <2> HIDE DEF clean
  <2> QED
    BY <2>1, <1>1, EmptyDirty DEF WellFormed
<1>5. CASE e \in BuildRawRect(clean, FullRect)
  <2> HIDE DEF clean
  <2>1. Diff(clean.grabbuf, clean.shadowbuf) \subseteq CellsOf(FullRect)
    BY FullRectCovers DEF Diff
  <2> QED
    BY <1>4, <1>5, <2>1, FullRectCovers, BuildRawRectSound
<1>6. CASE ~d.dirty_all /\ d.dirty # <<>> /\ e \in BuildRawRect(rest, Head(d.dirty))
  <2> DEFINE t == Tail(d.dirty)
             r == Head(d.dirty)
  <2>1. d.dirty \in Seq(Rect)
    BY <1>1 DEF ClientType
  <2>2. r \in Rect /\ t \in Seq(Rect) /\ Len(t) = Len(d.dirty) - 1
        /\ Len(d.dirty) \in Nat \ {0}
    BY <1>6, <2>1
  <2>3. \A i \in DOMAIN d.dirty : i = 1 \/ (i - 1 \in DOMAIN t /\ t[i - 1] = d.dirty[i])
    BY <1>6, <2>1
  <2>4. r = d.dirty[1]
    BY <1>6, <2>1
  <2> HIDE DEF t, r
  <2>5. rest \in ClientType /\ rest.pings = d.pings /\ rest.dirty = t
        /\ rest.dirty_all = d.dirty_all /\ rest.grabbed = d.grabbed
        /\ rest.grabbuf = d.grabbuf /\ rest.shadowbuf = d.shadowbuf
    BY <1>1, <2>2 DEF ClientType, t
  <2> HIDE DEF rest
  <2>6. Region(d) \subseteq Region(rest) \cup CellsOf(r)
    BY <1>6, <2>3, <2>4, <2>5 DEF Region
  <2>7. Len(t) <= DirtyMax
    BY <2>2, <1>1, BoundAssumption
  <2>8. WellFormed(rest)
    BY <2>5, <2>7, <1>1 DEF WellFormed
  <2>9. rest.grabbed => Diff(rest.grabbuf, rest.shadowbuf)
                        \subseteq Region(rest) \cup CellsOf(r)
    BY <2>5, <2>6 DEF Sound, Covered
  <2> QED
    BY <1>6, <2>2, <2>8, <2>9, BuildRawRectSound DEF r
<1> HIDE DEF clean, retry, rest
<1> QED
  BY <1>2, <1>3, <1>4, <1>5, <1>6, BuildH264FrameSound

LEMMA BuildOrDisarmSound ==
  ASSUME NEW d, Sound(d), NEW e \in BuildOrDisarm(d)
  PROVE  Sound(e)
<1>1. PICK f \in BuildNext(d) : e = f \/ e = [f EXCEPT !.out_watch = FALSE]
  BY DEF BuildOrDisarm
<1>2. Sound(f)
  BY BuildNextSound
<1>3. f \in ClientType /\ f.pings <= PingsMax
  BY <1>2 DEF Sound, WellFormed
<1>4. Sound([f EXCEPT !.out_watch = FALSE])
  BY <1>2, <1>3, SoundFrame DEF ClientType
<1> QED
  BY <1>1, <1>2, <1>4

(***************************************************************************)
(* Damage.                                                                 *)
(***************************************************************************)
\* The fields that dirty_add leaves alone.
SameButDirty(d, e) ==
  /\ e.pings = d.pings /\ e.grabbed = d.grabbed
  /\ e.grabbuf = d.grabbuf /\ e.shadowbuf = d.shadowbuf
  /\ e.xmit_mode = d.xmit_mode /\ e.state = d.state /\ e.lost = d.lost
  /\ e.out_watch = d.out_watch /\ e.out_retry = d.out_retry
  /\ e.outq = d.outq /\ e.outq_off = d.outq_off
  /\ e.out = d.out /\ e.out_off = d.out_off
  /\ e.h264_failed = d.h264_failed /\ e.force_idr = d.force_idr

\* dirty_add never loses a pixel: neither of the old region nor of the new
\* rectangle, and never overruns the array.
LEMMA DirtyAddCovers ==
  ASSUME NEW d, WellFormed(d), NEW r \in Rect
  PROVE  /\ WellFormed(DirtyAdd(d, r))
         /\ SameButDirty(d, DirtyAdd(d, r))
         /\ Region(d) \cup CellsOf(r) \subseteq Region(DirtyAdd(d, r))
<1> DEFINE touching == {i \in DOMAIN d.dirty : RectsTouch(d.dirty[i], r)}
           n == Min(touching)
           u == RectUnion(d.dirty[n], r)
           merged == [d.dirty EXCEPT ![n] = u]
           box == BoundingBox(d.dirty, r)
<1>1. /\ d \in ClientType /\ d.pings <= PingsMax /\ Len(d.dirty) <= DirtyMax
      /\ DirtyMax \in Nat \ {0}
  BY BoundAssumption DEF WellFormed
<1>2. d.dirty \in Seq(Rect) /\ d.dirty_all \in BOOLEAN
  BY <1>1 DEF ClientType
<1>3. ASSUME NEW s \in Seq(Rect), Len(s) <= DirtyMax, ~d.dirty_all,
             DirtyAdd(d, r) = [d EXCEPT !.dirty = s],
             \A i \in DOMAIN d.dirty :
               \E j \in DOMAIN s : CellsOf(d.dirty[i]) \subseteq CellsOf(s[j]),
             \E j \in DOMAIN s : CellsOf(r) \subseteq CellsOf(s[j])
      PROVE  /\ WellFormed(DirtyAdd(d, r))
             /\ SameButDirty(d, DirtyAdd(d, r))
             /\ Region(d) \cup CellsOf(r) \subseteq Region(DirtyAdd(d, r))
  <2> DEFINE e == [d EXCEPT !.dirty = s]
  <2>1. e \in ClientType /\ SameButDirty(d, e)
        /\ e.dirty = s /\ e.dirty_all = d.dirty_all
    BY <1>1, <1>3 DEF ClientType, SameButDirty
  <2> HIDE DEF e
  <2>2. WellFormed(e)
    BY <2>1, <1>1, <1>3 DEF WellFormed, SameButDirty
  <2>3. Region(d) \cup CellsOf(r) \subseteq Region(e)
    <3>1. /\ Region(d) = UNION {CellsOf(d.dirty[i]) : i \in DOMAIN d.dirty}
          /\ Region(e) = UNION {CellsOf(s[i]) : i \in DOMAIN s}
      BY <2>1, <1>3 DEF Region
    <3>2. CellsOf(r) \subseteq Region(e)
      BY <3>1, <1>3
    <3>3. ASSUME NEW i \in DOMAIN d.dirty
          PROVE  CellsOf(d.dirty[i]) \subseteq Region(e)
      BY <3>1, <1>3
    <3> QED
      BY <3>1, <3>2, <3>3
  <2> QED
    BY <2>1, <2>2, <2>3, <1>3 DEF e
<1>4. CASE d.dirty_all
  <2>1. DirtyAdd(d, r) = d
    BY <1>4, <1>2 DEF DirtyAdd
  <2> QED
    BY <2>1, <1>4 DEF Region, CellsOf, SameButDirty
<1>5. CASE ~d.dirty_all /\ touching # {}
  <2>1. touching \in SUBSET Nat
    BY <1>2
  <2>2. n \in touching
    BY <1>5, <2>1, MinExists
  <2>3. n \in DOMAIN d.dirty /\ d.dirty[n] \in Rect
    <3>1. \A i \in touching : i \in DOMAIN d.dirty
      OBVIOUS
    <3> HIDE DEF touching, n
    <3>2. n \in DOMAIN d.dirty
      BY <2>2, <3>1
    <3> QED
      BY <3>2, <1>2
  <2>4. DirtyAdd(d, r) = [d EXCEPT !.dirty = merged]
    <3>1. DirtyAdd(d, r) = [d EXCEPT !.dirty[n] = RectUnion(@, r)]
      BY <1>5, <1>2 DEF DirtyAdd
    <3> QED
      BY <3>1
  <2> HIDE DEF n, touching
  <2>5. u \in Rect /\ CellsOf(d.dirty[n]) \cup CellsOf(r) \subseteq CellsOf(u)
    BY <2>3, RectUnionCovers
  <2> HIDE DEF u
  <2>6. /\ merged \in Seq(Rect) /\ Len(merged) = Len(d.dirty)
        /\ DOMAIN merged = DOMAIN d.dirty /\ merged[n] = u
        /\ \A i \in DOMAIN d.dirty : i # n => merged[i] = d.dirty[i]
    BY <1>2, <2>3, <2>5
  <2> HIDE DEF merged
  <2>7. \A i \in DOMAIN d.dirty :
          \E j \in DOMAIN merged : CellsOf(d.dirty[i]) \subseteq CellsOf(merged[j])
    <3> TAKE i \in DOMAIN d.dirty
    <3>1. CellsOf(d.dirty[i]) \subseteq CellsOf(merged[i])
      BY <2>5, <2>6
    <3> QED
      BY <3>1, <2>6
  <2>8. \E j \in DOMAIN merged : CellsOf(r) \subseteq CellsOf(merged[j])
    BY <2>3, <2>5, <2>6
  <2>9. Len(merged) <= DirtyMax
    BY <2>6, <1>1
  <2> QED
    BY <1>3, <1>5, <2>4, <2>6, <2>7, <2>8, <2>9
<1>6. CASE ~d.dirty_all /\ touching = {} /\ Len(d.dirty) < DirtyMax
  <2> DEFINE s == Append(d.dirty, r)
  <2>1. DirtyAdd(d, r) = [d EXCEPT !.dirty = s]
    BY <1>6, <1>2 DEF DirtyAdd
  <2>2. /\ s \in Seq(Rect) /\ Len(s) = Len(d.dirty) + 1
        /\ Len(s) \in DOMAIN s /\ s[Len(s)] = r
        /\ \A i \in DOMAIN d.dirty : i \in DOMAIN s /\ s[i] = d.dirty[i]
    BY <1>2
  <2> HIDE DEF s
  <2>3. Len(s) <= DirtyMax
    BY <1>1, <1>2, <1>6, <2>2
  <2> QED
    BY <1>3, <1>6, <2>1, <2>2, <2>3
<1>7. CASE ~d.dirty_all /\ touching = {} /\ ~(Len(d.dirty) < DirtyMax)
  <2> DEFINE s == <<box>>
  <2>1. DirtyAdd(d, r) = [d EXCEPT !.dirty = s]
    BY <1>7, <1>2 DEF DirtyAdd
  <2>2. /\ box \in Rect /\ CellsOf(r) \subseteq CellsOf(box)
        /\ \A i \in DOMAIN d.dirty : CellsOf(d.dirty[i]) \subseteq CellsOf(box)
    BY <1>2, BoundingBoxCovers
  <2> HIDE DEF box
  <2>3. s \in Seq(Rect) /\ Len(s) = 1 /\ 1 \in DOMAIN s /\ s[1] = box
    BY <2>2
  <2> HIDE DEF s
  <2>4. Len(s) <= DirtyMax
    BY <1>1, <2>3
  <2> QED
    BY <1>3, <1>7, <2>1, <2>2, <2>3, <2>4
<1> QED
  BY <1>4, <1>5, <1>6, <1>7

\* rect_trim keeps every pixel that differs, and stays on the screen.
LEMMA RectTrimCovers ==
  ASSUME NEW d, NEW r \in Rect, ChangedRows(d, r) # {}
  PROVE  /\ RectTrim(d, r) \in Rect
         /\ Diff(d.grabbuf, d.shadowbuf) \cap CellsOf(r)
              \subseteq CellsOf(RectTrim(d, r))
<1> USE GeomAssumption
<1> DEFINE rows == ChangedRows(d, r)
           lo == Min(rows)
           hi == Max(rows)
           t == RectTrim(d, r)
<1>1. rows \in SUBSET Nat /\ rows \in SUBSET (0 .. H - 1) /\ H - 1 \in Nat
  BY DEF ChangedRows
<1>2. lo \in 0 .. H - 1 /\ \A y \in rows : lo <= y
  BY <1>1, MinExists
<1>3. hi \in 0 .. H - 1 /\ \A y \in rows : y <= hi
  BY <1>1, MaxExists
<1>4. t = [r EXCEPT !.y1 = lo, !.y2 = hi + 1]
  BY DEF RectTrim
<1>5. \A p \in Diff(d.grabbuf, d.shadowbuf) \cap CellsOf(r) : p[2] \in rows
  BY DEF ChangedRows, Diff, CellsOf, Cells
<1> HIDE DEF rows, lo, hi, t
<1>6. t \in Rect
  <2>1. lo \in 0 .. H /\ hi + 1 \in 0 .. H
    BY <1>2, <1>3
  <2> QED
    BY <1>4, <2>1 DEF Rect
<1>7. t.x1 = r.x1 /\ t.x2 = r.x2 /\ t.y1 = lo /\ t.y2 = hi + 1
  BY <1>4 DEF Rect
<1>8. ASSUME NEW p \in Diff(d.grabbuf, d.shadowbuf) \cap CellsOf(r)
      PROVE  p \in CellsOf(t)
  <2>1. p \in Cells /\ lo <= p[2] /\ p[2] <= hi /\ p[2] \in Int
    BY <1>2, <1>3, <1>5 DEF CellsOf, Cells
  <2> QED
    BY <2>1, <1>3, <1>7 DEF CellsOf
<1> QED
  BY <1>6, <1>8 DEF t

\* A rectangle without changed rows has no pixel that differs.
LEMMA NoChangedRows ==
  ASSUME NEW d, NEW r, ChangedRows(d, r) = {}
  PROVE  Diff(d.grabbuf, d.shadowbuf) \cap CellsOf(r) = {}
<1>1. ASSUME NEW p \in Diff(d.grabbuf, d.shadowbuf) \cap CellsOf(r)
      PROVE  FALSE
  <2>1. p \in Cells /\ d.grabbuf[p] # d.shadowbuf[p] /\ p[2] \in 0 .. H - 1
    BY DEF Diff, Cells
  <2>2. p[2] \in ChangedRows(d, r)
    BY <2>1 DEF ChangedRows
  <2> QED
    BY <2>2
<1> QED
  BY <1>1

\* One turn of the loop of sremfb_xmit_damage: what differs inside the
\* reported rectangle is pending afterwards, and so is what was before.
LEMMA AddDamageCovers ==
  ASSUME NEW d, WellFormed(d), NEW raw \in DamageRects
  PROVE  LET e == AddDamage(d, raw)
         IN  /\ WellFormed(e) /\ SameButDirty(d, e)
             /\ Region(d) \subseteq Region(e)
             /\ Diff(d.grabbuf, d.shadowbuf) \cap CellsOf(ClampRect(raw))
                  \subseteq Region(e)
<1> DEFINE r == ClampRect(raw)
           e == AddDamage(d, raw)
           all == [d EXCEPT !.dirty_all = TRUE]
<1>1. r \in Rect
  BY ClampRectType
<1>2. d \in ClientType /\ d.pings <= PingsMax /\ Len(d.dirty) <= DirtyMax
  BY DEF WellFormed
<1> SUFFICES /\ WellFormed(e) /\ SameButDirty(d, e)
             /\ Region(d) \subseteq Region(e)
             /\ Diff(d.grabbuf, d.shadowbuf) \cap CellsOf(r) \subseteq Region(e)
  OBVIOUS
<1>3. CASE ChangedRows(d, r) = {}
  <2>1. e = d
    BY <1>3 DEF AddDamage
  <2> HIDE DEF e, r
  <2> QED
    BY <1>3, <2>1, NoChangedRows DEF SameButDirty
<1>4. CASE ChangedRows(d, r) # {} /\ d.xmit_mode = "H264"
  <2>1. e = all
    BY <1>4 DEF AddDamage
  <2>2. /\ all \in ClientType /\ SameButDirty(d, all)
        /\ all.dirty = d.dirty /\ all.dirty_all = TRUE
    BY <1>2 DEF ClientType, SameButDirty
  <2> HIDE DEF e, r, all
  <2>3. WellFormed(all)
    BY <1>2, <2>2 DEF WellFormed, SameButDirty
  <2>4. Region(all) = Cells /\ Region(d) \subseteq Cells
    BY <2>2 DEF Region, CellsOf
  <2> QED
    BY <2>1, <2>2, <2>3, <2>4 DEF Diff
<1>5. CASE ChangedRows(d, r) # {} /\ d.xmit_mode # "H264"
  <2>1. e = DirtyAdd(d, RectTrim(d, r))
    BY <1>5 DEF AddDamage
  <2> HIDE DEF e, r
  <2>2. /\ RectTrim(d, r) \in Rect
        /\ Diff(d.grabbuf, d.shadowbuf) \cap CellsOf(r)
             \subseteq CellsOf(RectTrim(d, r))
    BY <1>1, <1>5, RectTrimCovers
  <2>3. /\ WellFormed(e) /\ SameButDirty(d, e)
        /\ Region(d) \cup CellsOf(RectTrim(d, r)) \subseteq Region(e)
    BY <2>1, <2>2, DirtyAddCovers
  <2> QED
    BY <2>2, <2>3
<1> QED
  BY <1>3, <1>4, <1>5

\* sremfb_xmit_damage: if the source reports all it rewrote, nothing is
\* forgotten.
LEMMA XmitDamageSound ==
  ASSUME NEW d, WellFormed(d), NEW r1 \in DamageRects, NEW r2 \in DamageRects,
         d.grabbed => Diff(d.grabbuf, d.shadowbuf)
                        \subseteq Region(d) \cup CellsOf(ClampRect(r1))
                                  \cup CellsOf(ClampRect(r2)),
         NEW f \in XmitDamage(d, r1, r2)
  PROVE  Sound(f)
<1> DEFINE d1 == AddDamage(d, r1)
           d2 == AddDamage(d1, r2)
           A == CellsOf(ClampRect(r1))
           B == CellsOf(ClampRect(r2))
           D == Diff(d.grabbuf, d.shadowbuf)
<1>1. /\ WellFormed(d1) /\ SameButDirty(d, d1)
      /\ Region(d) \subseteq Region(d1) /\ D \cap A \subseteq Region(d1)
  BY AddDamageCovers
<1> HIDE DEF d1
<1>2. /\ WellFormed(d2) /\ SameButDirty(d1, d2)
      /\ Region(d1) \subseteq Region(d2)
      /\ Diff(d1.grabbuf, d1.shadowbuf) \cap B \subseteq Region(d2)
  BY <1>1, AddDamageCovers
<1> HIDE DEF d2, A, B
<1>3. CASE f = d /\ ChangedRows(d, ClampRect(r1)) = {}
                 /\ ChangedRows(d, ClampRect(r2)) = {}
  <2>1. D \cap A = {} /\ D \cap B = {}
    BY <1>3, NoChangedRows DEF A, B
  <2>2. Covered(d)
    BY <2>1 DEF Covered, A, B
  <2> QED
    BY <1>3, <2>2 DEF Sound
<1>4. CASE \E g \in CtlEvaluate(d2) : f = Kick(g)
  <2>1. d2.grabbed = d.grabbed /\ Diff(d2.grabbuf, d2.shadowbuf) = D
        /\ Diff(d1.grabbuf, d1.shadowbuf) = D
    BY <1>1, <1>2 DEF SameButDirty
  <2>2. d.grabbed => D \subseteq Region(d) \cup A \cup B
    BY DEF A, B
  <2> HIDE DEF D
  <2>3. Covered(d2)
    BY <1>1, <1>2, <2>1, <2>2 DEF Covered
  <2>4. Sound(d2)
    BY <1>2, <2>3 DEF Sound
  <2> QED
    BY <1>4, <2>4, CtlEvaluateSound, KickSound
<1> QED
  BY <1>3, <1>4 DEF XmitDamage, d1, d2

(***************************************************************************)
(* Connections, mode sets and the far end.                                 *)
(***************************************************************************)
LEMMA BlackImageType == BlackImage \in Image
BY PixAssumption DEF BlackImage, Image

\* Nothing was grabbed: nothing to cover.
LEMMA SoundNotGrabbed ==
  ASSUME NEW e \in ClientType, Len(e.dirty) <= DirtyMax, e.pings <= PingsMax,
         ~e.grabbed
  PROVE  Sound(e)
BY DEF Sound, WellFormed, Covered

LEMMA NewClientSound ==
  Sound(NewClient) /\ Sound([NewClient EXCEPT !.state = "GONE"])
<1> DEFINE e == [NewClient EXCEPT !.state = "GONE"]
<1>1. <<>> \in Seq(Ctrls) /\ <<>> \in Seq(Rect) /\ 0 \in Nat /\ 0 <= PingsMax
  BY BoundAssumption
<1>2. NewClient \in ClientType /\ e \in ClientType
  BY <1>1, BlackImageType DEF NewClient, ClientType
<1>3. /\ NewClient.dirty = <<>> /\ NewClient.pings = 0 /\ ~NewClient.grabbed
      /\ e.dirty = <<>> /\ e.pings = 0 /\ ~e.grabbed
  BY DEF NewClient
<1> HIDE DEF e
<1> QED
  BY <1>1, <1>2, <1>3, EmptyDirty, SoundNotGrabbed DEF e

\* After the reset of on_mode_changed nothing has been grabbed yet.
LEMMA RebuiltSound ==
  ASSUME NEW d, WellFormed(d), NEW resized \in BOOLEAN, NEW junk \in Image
  PROVE  Sound(Rebuilt(d, resized, junk))
<1> DEFINE e == [Reset(d) EXCEPT !.grabbuf = junk, !.shadowbuf = BlackImage,
                                 !.grabbed = FALSE]
           f == [e EXCEPT !.enc = FALSE, !.xmit_mode = "RAW"]
<1>1. d \in ClientType
  BY DEF WellFormed
<1>2. <<>> \in Seq(Ctrls) /\ <<>> \in Seq(Rect) /\ 0 \in Nat /\ 0 <= PingsMax
  BY BoundAssumption
<1>3. Reset(d) \in ClientType /\ Reset(d).dirty = <<>> /\ Reset(d).pings = 0
  BY <1>1, <1>2 DEF Reset, ClientType
<1>4. e \in ClientType /\ e.dirty = <<>> /\ e.pings = 0 /\ ~e.grabbed
  BY <1>3, BlackImageType DEF ClientType
<1> HIDE DEF e
<1>5. f \in ClientType /\ f.dirty = <<>> /\ f.pings = 0 /\ ~f.grabbed
  BY <1>4 DEF ClientType
<1> HIDE DEF f
<1>6. Sound(e) /\ Sound(f)
  BY <1>2, <1>4, <1>5, EmptyDirty, SoundNotGrabbed
<1> QED
  BY <1>6 DEF Rebuilt, e, f

LEMMA SetBlankType ==
  ASSUME NEW p \in PeerType, NEW on \in BOOLEAN
  PROVE  SetBlank(p, on) \in PeerType
<1> DEFINE b == p.blind \cup Diff(p.screen, BlackImage)
<1>1. b \in SUBSET Cells
  BY DEF PeerType, Diff
<1>2. \/ SetBlank(p, on) = [p EXCEPT !.blank = on]
      \/ SetBlank(p, on) = [p EXCEPT !.blank = on, !.screen = BlackImage, !.exact = Cells, !.blind = b]
  BY DEF SetBlank
<1> HIDE DEF b
<1> QED
  BY <1>1, <1>2, BlackImageType DEF PeerType

LEMMA DeliverType ==
  ASSUME NEW p \in PeerType, NEW m \in Ctrls
  PROVE  Deliver(p, m) \in PeerType
<1> DEFINE b == p.misordered \/ ((m = "HELLO") = p.greeted)
           q == [p EXCEPT !.misordered = @ \/ ((m = "HELLO") = p.greeted)]
<1>1. q = [p EXCEPT !.misordered = b] /\ b \in BOOLEAN
  BY DEF PeerType
<1> HIDE DEF b
<1>2. q \in PeerType
  BY <1>1 DEF PeerType
<1>3. /\ [q EXCEPT !.greeted = TRUE] \in PeerType
      /\ [q EXCEPT !.episode = FALSE] \in PeerType
  BY <1>2, ZenonT(30) DEF PeerType
<1>4. [q EXCEPT !.pongs = @ + 1] \in PeerType
  <2> HIDE DEF q
  <2>1. q.pongs + 1 \in Nat
    BY <1>2 DEF PeerType
  <2> QED
    BY <1>2, <2>1 DEF PeerType
<1>5. (m = "BLANK") \in BOOLEAN
  OBVIOUS
<1>6. SetBlank(q, m = "BLANK") \in PeerType
  BY <1>2, <1>5, SetBlankType
<1>7. p.garbled \in BOOLEAN
  BY DEF PeerType
<1> QED
  BY <1>2, <1>3, <1>4, <1>6, <1>7 DEF Deliver

LEMMA DeliverFrameType ==
  ASSUME NEW p \in PeerType, NEW f \in Frames \cup {NoFrame}
  PROVE  DeliverFrame(p, f) \in PeerType
<1> DEFINE wrong == IF f.encoding = "H264" THEN ~p.episode /\ ~f.idr ELSE p.episode
           area == CellsOf(f.rect)
           shown == [x \in Cells |-> IF x \in area THEN f.pix[x] ELSE p.screen[x]]
           bad == p.misordered \/ ~p.greeted \/ wrong
           au == f.encoding = "H264"
           ex == IF au THEN p.exact \ area ELSE p.exact \cup area
           bl == p.blind \ area
           q == [p EXCEPT !.misordered = bad, !.episode = au, !.screen = shown,
                          !.blank = FALSE, !.blind = bl, !.exact = ex]
<1>1. CASE p.garbled \/ f = NoFrame
  BY <1>1 DEF DeliverFrame
<1>2. CASE ~p.garbled /\ f # NoFrame
  <2>1. f \in Frames
    BY <1>2
  <2>2. DeliverFrame(p, f) = q
    BY <1>2 DEF DeliverFrame
  <2>3. bad \in BOOLEAN /\ au \in BOOLEAN
    BY DEF PeerType
  <2>4. shown \in Image
    <3>1. f.pix \in Image /\ p.screen \in Image
      BY <2>1 DEF Frames, PeerType
    <3> QED
      BY <3>1 DEF Image
  <2>5. ex \in SUBSET Cells /\ bl \in SUBSET Cells
    BY DEF PeerType, CellsOf
  <2> HIDE DEF bad, au, shown, ex, bl
  <2>6. q \in PeerType
    BY <2>3, <2>4, <2>5 DEF PeerType
  <2> QED
    BY <2>2, <2>6
<1> QED
  BY <1>1, <1>2

(***************************************************************************)
(* The invariant.  Type correctness and coverage are proved together: the  *)
(* capacity of the dirty list and the type of the rectangles are what the  *)
(* geometry of the coverage argument needs.                                *)
(***************************************************************************)
Inv == TypeOK /\ DamageCovered

LEMMA InvSound ==
  Inv <=> /\ Sound(c) /\ peer \in PeerType /\ dpms \in BOOLEAN
          /\ remodes \in 0 .. MaxRemodes
BY Zenon DEF Inv, TypeOK, DamageCovered, Sound, WellFormed, Covered

LEMMA InvInit == Init => Inv
<1> SUFFICES ASSUME Init PROVE Inv
  OBVIOUS
<1>1. Sound(c)
  BY NewClientSound DEF Init
<1>2. peer \in PeerType
  BY BlackImageType DEF Init, NewPeer, PeerType
<1>3. dpms \in BOOLEAN /\ remodes \in 0 .. MaxRemodes
  BY BoundAssumption DEF Init
<1> QED
  BY <1>1, <1>2, <1>3, InvSound

\* Every step of the server and of its environment keeps the invariant.
LEMMA InvNext ==
  ASSUME Inv, [Next]_vars
  PROVE  Inv'
<1>1. /\ Sound(c) /\ peer \in PeerType /\ dpms \in BOOLEAN
      /\ remodes \in 0 .. MaxRemodes
  BY InvSound
<1>2. /\ c \in ClientType /\ Len(c.dirty) <= DirtyMax /\ c.pings <= PingsMax
      /\ WellFormed(c) /\ c.out \in Frames \cup {NoFrame}
      /\ c.outq \in Seq(Ctrls) /\ c.pings \in Nat
  <2>1. c \in ClientType /\ Len(c.dirty) <= DirtyMax /\ c.pings <= PingsMax
        /\ WellFormed(c)
    BY <1>1 DEF Sound, WellFormed
  <2> QED
    BY <2>1 DEF ClientType
<1> SUFFICES /\ Sound(c') /\ peer' \in PeerType /\ dpms' \in BOOLEAN
             /\ remodes' \in 0 .. MaxRemodes
  BY Zenon DEF Inv, TypeOK, DamageCovered, Sound, WellFormed, Covered, Region, Diff
<1>3. ASSUME NEW junk \in Image, ModeSet(junk)
      PROVE  /\ Sound(c') /\ peer' \in PeerType /\ dpms' \in BOOLEAN
             /\ remodes' \in 0 .. MaxRemodes
  <2> DEFINE d == XmitCtrl(Rebuilt(c, FALSE, junk), "HELLO")
             e == [d EXCEPT !.state = "STREAMING", !.xmit_mode = "RAW",
                            !.ctl_state = "RAW_STEADY", !.pings = 0]
  <2>1. Sound(d)
    BY <1>2, RebuiltSound, XmitCtrlSound DEF Ctrls
  <2> HIDE DEF d
  <2>2. d \in ClientType /\ 0 <= PingsMax
    BY <2>1, BoundAssumption DEF Sound, WellFormed
  <2>3. e \in ClientType
    BY <2>2 DEF ClientType
  <2>4. /\ e.dirty = d.dirty /\ e.dirty_all = d.dirty_all /\ e.pings = 0
        /\ e.grabbed = d.grabbed /\ e.grabbuf = d.grabbuf
        /\ e.shadowbuf = d.shadowbuf
    BY <2>2 DEF ClientType
  <2>5. c' = e
    BY <1>3 DEF ModeSet, d
  <2> HIDE DEF e
  <2>6. Sound(e)
    BY <2>1, <2>2, <2>3, <2>4, SoundFrame
  <2> QED
    BY <1>1, <1>3, <2>5, <2>6 DEF ModeSet
<1>4. ASSUME NEW resized \in BOOLEAN, NEW junk \in Image, Remode(resized, junk)
      PROVE  /\ Sound(c') /\ peer' \in PeerType /\ dpms' \in BOOLEAN
             /\ remodes' \in 0 .. MaxRemodes
  <2>1. Sound(c')
    BY <1>2, <1>4, RebuiltSound DEF Remode
  <2>2. peer' \in PeerType
    <3> DEFINE b == peer.garbled \/ c.out_off \/ c.outq_off
    <3>1. peer' = [peer EXCEPT !.garbled = b] /\ b \in BOOLEAN
      BY <1>1, <1>2, <1>4 DEF Remode, ClientType, PeerType
    <3> HIDE DEF b
    <3> QED
      BY <1>1, <3>1 DEF PeerType
  <2>3. dpms' \in BOOLEAN /\ remodes' \in 0 .. MaxRemodes
    BY <1>1, <1>4, BoundAssumption DEF Remode
  <2> QED
    BY <2>1, <2>2, <2>3
<1>5. ASSUME NEW r1 \in DamageRects, NEW r2 \in DamageRects, NEW image \in Image,
             Grab(r1, r2, image)
      PROVE  /\ Sound(c') /\ peer' \in PeerType /\ dpms' \in BOOLEAN
             /\ remodes' \in 0 .. MaxRemodes
  <2> DEFINE d == [c EXCEPT !.grabbuf = image, !.grabbed = TRUE]
             A == CellsOf(ClampRect(r1))
             B == CellsOf(ClampRect(r2))
  <2>1. d \in ClientType
    BY <1>2 DEF ClientType
  <2>2. /\ d.dirty = c.dirty /\ d.dirty_all = c.dirty_all /\ d.pings = c.pings
        /\ d.grabbuf = image /\ d.shadowbuf = c.shadowbuf
    BY <1>2 DEF ClientType
  <2>3. c' \in XmitDamage(d, r1, r2)
    BY <1>5 DEF Grab
  <2> HIDE DEF d
  <2>4. WellFormed(d) /\ Region(d) = Region(c)
    BY <1>2, <2>1, <2>2 DEF WellFormed, Region
  <2>5. Diff(image, c.shadowbuf) \subseteq Region(c) \cup A \cup B
    <3>1. CASE ~c.grabbed
      BY <1>5, <3>1 DEF Grab, Diff
    <3>2. CASE c.grabbed
      <4>1. /\ Diff(c.grabbuf, image) \subseteq A \cup B
            /\ Diff(c.grabbuf, c.shadowbuf) \subseteq Region(c)
        BY <1>1, <1>5, <3>2 DEF Grab, Sound, Covered
      <4> QED
        BY <4>1 DEF Diff
    <3> QED
      BY <3>1, <3>2
  <2>6. Sound(c')
    BY <2>2, <2>3, <2>4, <2>5, XmitDamageSound
  <2> QED
    BY <1>1, <1>5, <2>6 DEF Grab
<1>6. ASSUME NEW r1 \in DamageRects, NEW r2 \in DamageRects, NEW image \in Image,
             CursorRepaint(r1, r2, image)
      PROVE  /\ Sound(c') /\ peer' \in PeerType /\ dpms' \in BOOLEAN
             /\ remodes' \in 0 .. MaxRemodes
  <2> DEFINE d == [c EXCEPT !.grabbuf = image]
             A == CellsOf(ClampRect(r1))
             B == CellsOf(ClampRect(r2))
  <2>1. d \in ClientType
    BY <1>2 DEF ClientType
  <2>2. /\ d.dirty = c.dirty /\ d.dirty_all = c.dirty_all /\ d.pings = c.pings
        /\ d.grabbuf = image /\ d.shadowbuf = c.shadowbuf
        /\ d.grabbed = c.grabbed
    BY <1>2 DEF ClientType
  <2>3. c' \in XmitDamage(d, r1, r2)
    BY <1>6 DEF CursorRepaint
  <2> HIDE DEF d
  <2>4. WellFormed(d) /\ Region(d) = Region(c)
    BY <1>2, <2>1, <2>2 DEF WellFormed, Region
  <2>5. c.grabbed => Diff(image, c.shadowbuf) \subseteq Region(c) \cup A \cup B
    <3>1. c.grabbed => /\ Diff(c.grabbuf, image) \subseteq A \cup B
                       /\ Diff(c.grabbuf, c.shadowbuf) \subseteq Region(c)
      BY <1>1, <1>6 DEF CursorRepaint, Sound, Covered
    <3> QED
      BY <3>1 DEF Diff
  <2>6. Sound(c')
    BY <2>2, <2>3, <2>4, <2>5, XmitDamageSound
  <2> QED
    BY <1>1, <1>6, <2>6 DEF CursorRepaint
<1>7. ASSUME NEW on \in BOOLEAN, Dpms(on)
      PROVE  /\ Sound(c') /\ peer' \in PeerType /\ dpms' \in BOOLEAN
             /\ remodes' \in 0 .. MaxRemodes
  <2>1. c' = XmitCtrl(c, "UNBLANK") \/ c' = XmitCtrl(c, "BLANK")
    BY <1>7 DEF Dpms
  <2>2. Sound(c')
    BY <1>1, <2>1, XmitCtrlSound DEF Ctrls
  <2> QED
    BY <1>1, <1>7, <2>2 DEF Dpms
<1>8. ASSUME NEW e, e \in ClientType, e.dirty = c.dirty,
             e.dirty_all = c.dirty_all, e.pings = c.pings,
             e.grabbed = c.grabbed, e.grabbuf = c.grabbuf,
             e.shadowbuf = c.shadowbuf
      PROVE  Sound(e)
  BY <1>1, <1>2, <1>8, SoundFrame
<1>9. CASE FrameBlocked
  <2>1. Sound([c EXCEPT !.out_off = TRUE])
    BY <1>2, <1>8 DEF ClientType
  <2> QED
    BY <1>1, <1>9, <2>1 DEF FrameBlocked
<1>10. ASSUME NEW partial \in BOOLEAN, CtrlBlocked(partial)
       PROVE  /\ Sound(c') /\ peer' \in PeerType /\ dpms' \in BOOLEAN
              /\ remodes' \in 0 .. MaxRemodes
  <2> DEFINE b == c.outq_off \/ partial
             e == [c EXCEPT !.out = NoFrame, !.out_off = FALSE, !.outq_off = b]
  <2>1. c' = e /\ b \in BOOLEAN
    BY <1>2, <1>10 DEF CtrlBlocked, FrameOut, ClientType
  <2> HIDE DEF b
  <2>2. Sound(e)
    BY <1>2, <1>8, <2>1 DEF ClientType
  <2>3. peer' \in PeerType
    BY <1>1, <1>2, <1>10, DeliverFrameType DEF CtrlBlocked
  <2> QED
    BY <1>1, <1>10, <2>1, <2>2, <2>3 DEF CtrlBlocked
<1>11. CASE CtrlSent
  <2> DEFINE t == Tail(c.outq)
             d == [c EXCEPT !.out = NoFrame, !.out_off = FALSE,
                            !.outq = t, !.outq_off = FALSE]
  <2>1. c.outq # <<>>
    BY <1>11 DEF CtrlSent
  <2>2. t \in Seq(Ctrls) /\ Head(c.outq) \in Ctrls
    BY <1>2, <2>1
  <2>3. d = [FrameOut(c) EXCEPT !.outq = Tail(@), !.outq_off = FALSE]
    BY <1>2 DEF FrameOut, ClientType
  <2>4. c' = d \/ c' \in BuildOrDisarm(d)
    BY <1>11, <2>3 DEF CtrlSent
  <2> HIDE DEF t
  <2>5. Sound(d)
    <3>1. d \in ClientType
      BY <1>2, <2>2 DEF ClientType
    <3>2. /\ d.dirty = c.dirty /\ d.dirty_all = c.dirty_all
          /\ d.pings = c.pings /\ d.grabbed = c.grabbed
          /\ d.grabbuf = c.grabbuf /\ d.shadowbuf = c.shadowbuf
      BY <1>2 DEF ClientType
    <3> HIDE DEF d
    <3> QED
      BY <1>8, <3>1, <3>2
  <2> HIDE DEF d
  <2>6. Sound(c')
    BY <2>4, <2>5, BuildOrDisarmSound
  <2>7. peer' \in PeerType
    <3>1. DeliverFrame(peer, c.out) \in PeerType
      BY <1>1, <1>2, DeliverFrameType
    <3> QED
      BY <1>11, <2>2, <3>1, DeliverType DEF CtrlSent
  <2> QED
    BY <1>1, <1>11, <2>6, <2>7 DEF CtrlSent
<1>12. CASE FrameSent
  <2>1. Sound(FrameOut(c))
    BY <1>2, <1>8 DEF ClientType, FrameOut
  <2>2. Sound(c')
    BY <1>12, <2>1, BuildOrDisarmSound DEF FrameSent
  <2>3. peer' \in PeerType
    BY <1>1, <1>2, <1>12, DeliverFrameType DEF FrameSent
  <2> QED
    BY <1>1, <1>12, <2>2, <2>3 DEF FrameSent
<1>13. CASE SendFailed
  <2>1. Sound([c EXCEPT !.out_watch = FALSE, !.lost = TRUE])
    BY <1>2, <1>8 DEF ClientType
  <2> QED
    BY <1>1, <1>13, <2>1 DEF SendFailed
<1>14. CASE RetryCb
  <2>1. Sound([c EXCEPT !.out_retry = FALSE])
    BY <1>2, <1>8 DEF ClientType
  <2> QED
    BY <1>1, <1>14, <2>1, KickSound DEF RetryCb
<1>15. ASSUME NEW d, Sound(d), d.pings < PingsMax
       PROVE  Sound(SendPing(d))
  <2> DEFINE e == XmitCtrl(d, "PING")
             f == [e EXCEPT !.pings = @ + 1]
  <2>1. d \in ClientType /\ d.pings \in Nat
    BY <1>15 DEF Sound, WellFormed, ClientType
  <2>2. Sound(e)
    BY <1>15, XmitCtrlSound DEF Ctrls
  <2>3. e.pings = d.pings
    BY <2>1 DEF XmitCtrl, Kick, ClientType
  <2> HIDE DEF e
  <2>4. e \in ClientType /\ e.pings + 1 \in Nat /\ e.pings + 1 <= PingsMax
    BY <1>15, <2>1, <2>2, <2>3, BoundAssumption DEF Sound, WellFormed
  <2>5. f \in ClientType
    BY <2>4 DEF ClientType
  <2>6. /\ f.dirty = e.dirty /\ f.dirty_all = e.dirty_all
        /\ f.pings = e.pings + 1 /\ f.grabbed = e.grabbed
        /\ f.grabbuf = e.grabbuf /\ f.shadowbuf = e.shadowbuf
    BY <2>4 DEF ClientType
  <2> HIDE DEF f
  <2>7. Sound(f)
    BY <2>2, <2>4, <2>5, <2>6, SoundFrame
  <2> QED
    BY <2>7 DEF SendPing, e, f
<1>16. CASE PingTickBusy
  BY <1>1, <1>15, <1>16 DEF PingTickBusy
<1>17. ASSUME NEW beat \in BOOLEAN, PingTickIdle(beat)
       PROVE  /\ Sound(c') /\ peer' \in PeerType /\ dpms' \in BOOLEAN
              /\ remodes' \in 0 .. MaxRemodes
  <2>1. PICK d \in CtlEvaluate(c) :
          c' = IF beat /\ d.pings < PingsMax THEN SendPing(d) ELSE d
    BY <1>17 DEF PingTickIdle
  <2>2. Sound(d)
    BY <1>1, CtlEvaluateSound
  <2> QED
    BY <1>1, <1>15, <1>17, <2>1, <2>2 DEF PingTickIdle
<1>18. CASE PingDead
  <2>1. Sound([c EXCEPT !.lost = TRUE])
    BY <1>2, <1>8 DEF ClientType
  <2> QED
    BY <1>1, <1>18, <2>1 DEF PingDead
<1>19. CASE Pong
  <2> DEFINE n == IF c.pings > 0 THEN c.pings - 1 ELSE 0
             e == [c EXCEPT !.pings = n]
  <2>1. n \in Nat /\ n <= PingsMax
    BY <1>2, BoundAssumption
  <2>2. c' \in CtlEvaluate(e)
    BY <1>19 DEF Pong
  <2> HIDE DEF n
  <2>3. e \in ClientType
    BY <1>2, <2>1 DEF ClientType
  <2>4. /\ e.dirty = c.dirty /\ e.dirty_all = c.dirty_all /\ e.pings = n
        /\ e.grabbed = c.grabbed /\ e.grabbuf = c.grabbuf
        /\ e.shadowbuf = c.shadowbuf
    BY <1>2 DEF ClientType
  <2> HIDE DEF e
  <2>5. Sound(c')
    BY <1>1, <2>1, <2>2, <2>3, <2>4, SoundFrame, CtlEvaluateSound
  <2>6. peer' \in PeerType
    <3>1. peer.pongs - 1 \in Nat
      BY <1>1, <1>19 DEF Pong, PeerType
    <3> QED
      BY <1>1, <1>19, <3>1 DEF Pong, PeerType
  <2> QED
    BY <1>1, <1>19, <2>5, <2>6 DEF Pong
<1>20. CASE ClientLost
  <2>1. Sound(c')
    BY <1>20, NewClientSound DEF ClientLost
  <2>2. peer' \in PeerType
    <3> DEFINE off == SetBlank(peer, TRUE)
               l == Leftover(off)
    <3>1. off \in PeerType
      BY <1>1, SetBlankType
    <3>2. peer' = [off EXCEPT !.greeted = FALSE, !.episode = FALSE, !.pongs = 0,
                              !.garbled = FALSE, !.misordered = FALSE, !.blind = l]
      BY <1>20 DEF ClientLost
    <3>3. l \in SUBSET Cells
      BY DEF Leftover, Diff
    <3> HIDE DEF off, l
    <3> QED
      BY <3>1, <3>2, <3>3 DEF PeerType
  <2> QED
    BY <1>1, <1>20, <2>1, <2>2 DEF ClientLost
<1>21. CASE Connect
  BY <1>1, <1>21, NewClientSound DEF Connect
<1>22. CASE UNCHANGED vars
  BY <1>1, <1>22 DEF vars
<1> QED
  BY <1>3, <1>4, <1>5, <1>6, <1>7, <1>9, <1>10, <1>11, <1>12, <1>13, <1>14,
     <1>16, <1>17, <1>18, <1>19, <1>20, <1>21, <1>22 DEF Next

\* Every field keeps its type, the dirty list never overruns dirty[16] and
\* never more than PINGS_MAX_FLIGHT pings are in flight, in any behaviour.
THEOREM TypeCorrect == Spec => []TypeOK
<1>1. Inv => TypeOK
  BY DEF Inv
<1> QED
  BY InvInit, InvNext, <1>1, PTL DEF Spec

\* No damage is ever forgotten: whatever sremfb_xmit_damage trims, merges or
\* collapses and build_next takes out, a pixel that differs from what was
\* last sent is in the pending region.
THEOREM DamageNeverForgotten == Spec => []DamageCovered
<1>1. Inv => DamageCovered
  BY DEF Inv
<1> QED
  BY InvInit, InvNext, <1>1, PTL DEF Spec
=============================================================================
