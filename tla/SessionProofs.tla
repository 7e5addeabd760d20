---------------------------- MODULE SessionProofs ----------------------------
(***************************************************************************)
(* Proofs about Session, for every set of machines and connection objects, *)
(* every number of places and cards, and every budget and grace.           *)
(***************************************************************************)
EXTENDS Session, FiniteSetTheorems, SequenceTheorems, WellFoundedInduction, TLAPS

(***************************************************************************)
(* The inductive invariant, as operators on the client table c, the        *)
(* sources ss, the pool ps and the peer files fs: the teardown of a        *)
(* replaced connection and the acceptance of the new one are two such      *)
(* steps in one callback.                                                  *)
(***************************************************************************)
Live(c) == {k \in Conns : c[k].state # "FREE"}

Joined ==
  [state : {"MODE_WAIT", "STREAMING"}, peer : Peers, quiet : 0 .. Never, usb_early : BOOLEAN]
Tables == [Conns -> Joined \cup {NoClient}]
Devices == [card : 1 .. MaxCards, owner : Conns \cup {NoConn}, suspect : BOOLEAN]

Kept(c, ss, ps) ==
  c \in Tables /\ ss \subseteq Conns \X SourceKinds /\ ps \in Seq(Devices)

\* Each client has a device and each device at most one client.
Owned(c, ps) ==
  /\ \A k \in Live(c) : \E i \in DOMAIN ps : ps[i].owner = k
  /\ \A i \in DOMAIN ps : ps[i].owner # NoConn => ps[i].owner \in Live(c)
  /\ \A i, j \in DOMAIN ps : ps[i].owner = ps[j].owner /\ ps[i].owner # NoConn => i = j

Called(c, ss) == \A s \in ss : s[1] \in Live(c)

OneEach(c) ==
  \A j, k \in Live(c) : c[j].peer.mac = c[k].peer.mac /\ j # k => c[j].peer.mac = ZeroMac

Books(c, ss, ps) == Kept(c, ss, ps) /\ Owned(c, ps) /\ Called(c, ss) /\ OneEach(c)

\* The peer file of client k is due.
Due(c, k) == c[k].peer.usb /\ (c[k].state = "STREAMING" \/ c[k].usb_early)

Backed(c, fs) == \A f \in fs : \E k \in Live(c) : Due(c, k) /\ c[k].peer.ip = f

Announced(c, fs) == \A k \in Live(c) : Due(c, k) => c[k].peer.ip \in fs

\* The pool is made of cards that exist, and cards stay.
Stocked(ps, cs) ==
  /\ BootCards \subseteq cs /\ cs \subseteq 1 .. MaxCards
  /\ \A i \in DOMAIN ps : ps[i].card \in cs

SessionInv ==
  /\ Books(cl, sources, pool)
  /\ Stocked(pool, cards)
  /\ Cardinality(Live(cl)) <= MaxClients
  /\ fail_run \in 0 .. Budget + 1
  /\ power \in {"on", "save", "unknown"}
  /\ up \in BOOLEAN
  /\ IF up THEN Backed(cl, files) ELSE Live(cl) = {}

\* A machine with USB devices has a MAC and an address of its own.
OwnAddress ==
  \A p, q \in Peers : p.usb /\ q.usb /\ p.ip = q.ip => p.mac = q.mac /\ p.mac # ZeroMac

-----------------------------------------------------------------------------
(* Numbers. *)

\* A non-empty set of naturals has a least member.
LEMMA MinIn ==
  ASSUME NEW S \in SUBSET Nat, S # {}
  PROVE  Min(S) \in S /\ \A y \in S : Min(S) <= y
<1>1. PICK x \in S : \A y \in S : ~(<<y, x>> \in OpToRel(<, Nat))
  BY NatLessThanWellFounded, WFMin
<1>2. \A y \in S : ~(y < x)
  BY <1>1 DEF OpToRel
<1>3. \A y \in S : x <= y
  BY <1>2
<1> QED
  BY <1>3 DEF Min

LEMMA MinOfTwo ==
  ASSUME NEW a \in Int, NEW b \in Int
  PROVE  Min({a, b}) = IF a <= b THEN a ELSE b
<1>1. CASE a <= b
  BY <1>1 DEF Min
<1>2. CASE ~(a <= b)
  <2>1. \A x \in {a, b} : (\A y \in {a, b} : x <= y) <=> x = b
    BY <1>2
  <2> QED
    BY <1>2, <2>1 DEF Min
<1> QED
  BY <1>1, <1>2

LEMMA Numbers ==
  /\ MaxClients \in Nat /\ Budget \in Nat /\ MaxCards \in Nat /\ Graceful \in Nat
  /\ GraceUnknown \in Nat /\ Never \in Nat /\ Graceful >= 1 /\ GraceUnknown >= Graceful
  BY SessionAssumption DEF Never

-----------------------------------------------------------------------------
(* Teardown. *)

Without(c, k) == [c EXCEPT ![k] = NoClient]

\* Pool qs is ps without the owner k.
Freed(ps, k, qs) ==
  /\ qs \in Seq(Devices) /\ DOMAIN qs = DOMAIN ps
  /\ \A i \in DOMAIN ps : qs[i].owner = IF ps[i].owner = k THEN NoConn ELSE ps[i].owner

\* What sremfb_client_lost leaves behind is in order again.
LEMMA LostKeeps ==
  ASSUME NEW c, NEW ss, NEW ps, NEW fs, Books(c, ss, ps), NEW k \in Live(c),
         NEW d, d = Without(c, k),
         NEW qs, Freed(ps, k, qs)
  PROVE  /\ Books(d, SourcesCleared(ss, k), qs)
         /\ Live(d) = Live(c) \ {k}
         /\ \A j \in Live(d) : d[j] = c[j]
         /\ Backed(c, fs) => Backed(d, UsbPeerRemove(fs, c[k].peer))
         /\ OwnAddress /\ Announced(c, fs) => Announced(d, UsbPeerRemove(fs, c[k].peer))
<1>1. c \in Tables /\ ss \subseteq Conns \X SourceKinds /\ ps \in Seq(Devices) /\ k \in Conns
  BY DEF Books, Kept, Live
<1>2. \A j \in Conns : d[j] = IF j = k THEN NoClient ELSE c[j]
  BY <1>1 DEF Tables, Without
<1>3. d \in Tables
  BY <1>1 DEF Tables, Without
<1>4. Live(d) = Live(c) \ {k}
  BY <1>2 DEF Live, NoClient
<1>5. \A j \in Live(d) : d[j] = c[j]
  BY <1>2, <1>4 DEF Live
<1>6. Kept(d, SourcesCleared(ss, k), qs)
  BY <1>1, <1>3 DEF Kept, SourcesCleared, Freed
<1>7. Owned(d, qs)
  <2>1. k # NoConn
    BY <1>1, SessionAssumption
  <2> QED
    BY <1>4, <2>1 DEF Books, Owned, Freed
<1>8. Called(d, SourcesCleared(ss, k))
  BY <1>4 DEF Books, Called, SourcesCleared
<1>9. OneEach(d)
  BY <1>4, <1>5 DEF Books, OneEach
<1>10. ASSUME Backed(c, fs)
       PROVE  Backed(d, UsbPeerRemove(fs, c[k].peer))
  <2> SUFFICES ASSUME NEW f \in UsbPeerRemove(fs, c[k].peer)
               PROVE  \E j \in Live(d) : Due(d, j) /\ d[j].peer.ip = f
    BY DEF Backed
  <2>1. f \in fs /\ (c[k].peer.usb => f # c[k].peer.ip)
    BY DEF UsbPeerRemove
  <2>2. PICK j \in Live(c) : Due(c, j) /\ c[j].peer.ip = f
    BY <2>1, <1>10 DEF Backed
  <2>3. j # k
    BY <2>1, <2>2 DEF Due
  <2> QED
    BY <2>2, <2>3, <1>4, <1>5 DEF Due
<1>11. ASSUME OwnAddress, Announced(c, fs)
       PROVE  Announced(d, UsbPeerRemove(fs, c[k].peer))
  <2> SUFFICES ASSUME NEW j \in Live(d), Due(d, j)
               PROVE  d[j].peer.ip \in UsbPeerRemove(fs, c[k].peer)
    BY DEF Announced
  <2>1. j \in Live(c) /\ j # k /\ d[j] = c[j]
    BY <1>4, <1>5
  <2>2. Due(c, j)
    BY <2>1 DEF Due
  <2>3. c[j].peer.ip \in fs /\ c[j].peer.usb
    BY <2>1, <2>2, <1>11 DEF Announced, Due
  <2>4. c[j].peer \in Peers /\ c[k].peer \in Peers
    BY <2>1, <1>1 DEF Live, Tables, Joined, NoClient
  <2>5. c[k].peer.usb => c[k].peer.ip # c[j].peer.ip
    BY <2>1, <2>3, <2>4, <1>11 DEF OwnAddress, Books, OneEach
  <2> QED
    BY <2>1, <2>3, <2>5 DEF UsbPeerRemove
<1> QED
  BY <1>4, <1>5, <1>6, <1>7, <1>8, <1>9, <1>10, <1>11 DEF Books

\* Pools ps and qs differ at most in their owners.
SameCards(ps, qs) ==
  /\ DOMAIN qs = DOMAIN ps
  /\ \A i \in DOMAIN ps : qs[i].card = ps[i].card /\ qs[i].suspect = ps[i].suspect

LEMMA ReleaseFields ==
  ASSUME NEW ps \in Seq(Devices), NEW k \in Conns, NEW qs, qs = PoolRelease(ps, k)
  PROVE  /\ qs \in Seq(Devices) /\ DOMAIN qs = DOMAIN ps
         /\ \A i \in DOMAIN ps :
              /\ qs[i].owner = IF ps[i].owner = k THEN NoConn ELSE ps[i].owner
              /\ qs[i].card = ps[i].card /\ qs[i].suspect = ps[i].suspect
<1>1. DOMAIN ps = 1 .. Len(ps) /\ Len(ps) \in Nat /\ \A i \in DOMAIN ps : ps[i] \in Devices
  OBVIOUS
<1>2. DOMAIN qs = DOMAIN ps
  BY DEF PoolRelease
<1>3. ASSUME NEW i \in DOMAIN ps
      PROVE  /\ qs[i] \in Devices
             /\ qs[i].owner = IF ps[i].owner = k THEN NoConn ELSE ps[i].owner
             /\ qs[i].card = ps[i].card /\ qs[i].suspect = ps[i].suspect
  <2>1. qs[i] = IF ps[i].owner = k THEN [ps[i] EXCEPT !.owner = NoConn] ELSE ps[i]
    BY DEF PoolRelease
  <2> QED
    BY <2>1, <1>1 DEF Devices
<1>4. qs \in Seq(Devices)
  <2>1. qs = [i \in 1 .. Len(ps) |-> qs[i]]
    BY <1>1 DEF PoolRelease
  <2> QED
    BY <2>1, <1>1, <1>3, IsASeq
<1> QED
  BY <1>2, <1>3, <1>4

\* No connection of that machine is left.
Unheard(c, p) == \A j \in Live(c) : p.mac # ZeroMac => c[j].peer.mac # p.mac

\* A hello with a MAC finds no other connection of that machine afterwards.
LEMMA ReplaceKeeps ==
  ASSUME Books(cl, sources, pool), NEW p \in Peers, NEW s, s = AfterReplace(p)
  PROVE  /\ Books(s.cl, s.sources, s.pool)
         /\ Live(s.cl) \subseteq Live(cl)
         /\ Unheard(s.cl, p)
         /\ Backed(cl, files) => Backed(s.cl, s.files)
         /\ OwnAddress /\ Announced(cl, files) => Announced(s.cl, s.files)
         /\ SameCards(pool, s.pool)
<1>1. Replaced(p) = {k \in Live(cl) : p.mac # ZeroMac /\ cl[k].peer.mac = p.mac}
  BY DEF Replaced, Clients, Live
<1>2. CASE Replaced(p) = {}
  <2>1. s.cl = cl /\ s.sources = sources /\ s.pool = pool /\ s.files = files
    BY <1>2 DEF AfterReplace
  <2> QED
    BY <2>1, <1>1, <1>2 DEF SameCards, Unheard
<1>3. CASE Replaced(p) # {}
  <2> DEFINE k == CHOOSE j \in Replaced(p) : TRUE
  <2>1. k \in Live(cl) /\ p.mac # ZeroMac /\ cl[k].peer.mac = p.mac
    BY <1>1, <1>3
  <2>2. s = ClientLost(k)
    BY <1>3 DEF AfterReplace
  <2> HIDE DEF k
  <2>3. /\ s.cl = Without(cl, k) /\ s.sources = SourcesCleared(sources, k)
        /\ s.pool = PoolRelease(pool, k) /\ s.files = UsbPeerRemove(files, cl[k].peer)
    BY <2>2 DEF ClientLost, Without
  <2>4. pool \in Seq(Devices) /\ k \in Conns
    BY <2>1 DEF Books, Kept, Live
  <2>5. /\ s.pool \in Seq(Devices) /\ DOMAIN s.pool = DOMAIN pool
        /\ \A i \in DOMAIN pool :
             /\ s.pool[i].owner = IF pool[i].owner = k THEN NoConn ELSE pool[i].owner
             /\ s.pool[i].card = pool[i].card /\ s.pool[i].suspect = pool[i].suspect
    BY <2>3, <2>4, ReleaseFields
  <2>8. Freed(pool, k, s.pool) /\ SameCards(pool, s.pool)
    BY <2>5 DEF Freed, SameCards
  <2>6. /\ Books(s.cl, SourcesCleared(sources, k), s.pool)
        /\ Live(s.cl) = Live(cl) \ {k}
        /\ \A j \in Live(s.cl) : s.cl[j] = cl[j]
        /\ Backed(cl, files) => Backed(s.cl, UsbPeerRemove(files, cl[k].peer))
        /\ OwnAddress /\ Announced(cl, files)
             => Announced(s.cl, UsbPeerRemove(files, cl[k].peer))
    BY <2>1, <2>3, <2>8, LostKeeps
  <2>7. Unheard(s.cl, p)
    BY <2>1, <2>6 DEF Books, OneEach, Unheard
  <2> QED
    BY <2>3, <2>6, <2>7, <2>8
<1> QED
  BY <1>2, <1>3

-----------------------------------------------------------------------------
(* Devices. *)

\* Pool qs is ps with a device for k: a free one, or a card opened for it.
Given(ps, k, qs) ==
  \E i \in DOMAIN qs :
    /\ DOMAIN qs = DOMAIN ps \cup {i}
    /\ qs[i].owner = k
    /\ \A j \in DOMAIN ps \ {i} : qs[j] = ps[j]
    /\ i \in DOMAIN ps => ps[i].owner = NoConn

Watched(ss, k) == ss \cup {<<k, "mode_timer">>, <<k, "io">>}
Entered(c, k, p) ==
  [c EXCEPT ![k] = [state |-> "MODE_WAIT", peer |-> p, quiet |-> Never, usb_early |-> FALSE]]

\* The new client with its device, its mode timer and its watch.
LEMMA TakenKeeps ==
  ASSUME NEW c, NEW ss, NEW ps, NEW fs, Books(c, ss, ps),
         NEW p \in Peers, Unheard(c, p),
         NEW k \in Conns, c[k].state = "FREE",
         NEW qs \in Seq(Devices), Given(ps, k, qs)
  PROVE  /\ Books(Entered(c, k, p), Watched(ss, k), qs)
         /\ Live(Entered(c, k, p)) = Live(c) \cup {k} /\ k \notin Live(c)
         /\ Backed(c, fs) => Backed(Entered(c, k, p), fs)
         /\ Announced(c, fs) => Announced(Entered(c, k, p), fs)
<1> DEFINE d == Entered(c, k, p)
           tt == Watched(ss, k)
<1> DEFINE new == [state |-> "MODE_WAIT", peer |-> p, quiet |-> Never, usb_early |-> FALSE]
<1>1. c \in Tables /\ ss \subseteq Conns \X SourceKinds
  BY DEF Books, Kept
<1>2. new \in Joined /\ new.state = "MODE_WAIT" /\ new.peer = p /\ ~new.usb_early
  BY Numbers DEF Joined
<1>3. \A j \in Conns : d[j] = IF j = k THEN new ELSE c[j]
  BY <1>1 DEF Tables, Entered
<1>4. d \in Tables
  BY <1>1, <1>2 DEF Tables, Entered
<1> HIDE DEF new, d
<1>5. Live(d) = Live(c) \cup {k} /\ k \notin Live(c)
  BY <1>2, <1>3 DEF Live
<1>6. \A j \in Live(c) : d[j] = c[j]
  BY <1>3, <1>5 DEF Live
<1>7. Kept(d, tt, qs)
  BY <1>1, <1>4 DEF Kept, SourceKinds, Watched
<1> HIDE DEF tt
<1>8. Owned(d, qs)
  <2>1. PICK i \in DOMAIN qs :
          /\ DOMAIN qs = DOMAIN ps \cup {i}
          /\ qs[i].owner = k
          /\ \A j \in DOMAIN ps \ {i} : qs[j] = ps[j]
          /\ i \in DOMAIN ps => ps[i].owner = NoConn
    BY DEF Given
  <2>2. Owned(c, ps) /\ NoConn \notin Conns /\ Live(c) \subseteq Conns
    BY SessionAssumption DEF Books, Live
  <2>3. \A j \in Live(d) : \E x \in DOMAIN qs : qs[x].owner = j
    BY <2>1, <2>2, <1>5 DEF Owned
  <2>4. \A x \in DOMAIN qs : qs[x].owner # NoConn => qs[x].owner \in Live(d)
    BY <2>1, <2>2, <1>5 DEF Owned
  <2>5. \A x, y \in DOMAIN qs : qs[x].owner = qs[y].owner /\ qs[x].owner # NoConn => x = y
    BY <2>1, <2>2, <1>5 DEF Owned
  <2> QED
    BY <2>3, <2>4, <2>5 DEF Owned
<1>9. Called(d, tt)
  <2>1. ASSUME NEW s \in tt
        PROVE  s[1] \in Live(c) \cup {k}
    <3>1. s \in ss \/ s = <<k, "mode_timer">> \/ s = <<k, "io">>
      BY DEF tt, Watched
    <3> QED
      BY <3>1 DEF Books, Called
  <2> QED
    BY <2>1, <1>5 DEF Called
<1>10. OneEach(d)
  <2>1. d[k].peer = p
    BY <1>2, <1>3
  <2> QED
    BY <2>1, <1>5, <1>6 DEF Books, OneEach, Unheard
<1>11. Backed(c, fs) => Backed(d, fs)
  BY <1>5, <1>6 DEF Backed, Due
<1>12. Announced(c, fs) => Announced(d, fs)
  <2>1. ~Due(d, k)
    BY <1>2, <1>3 DEF Due
  <2> QED
    BY <2>1, <1>5, <1>6 DEF Announced, Due
<1>13. Books(d, tt, qs)
  BY <1>7, <1>8, <1>9, <1>10 DEF Books
<1> QED
  BY <1>5, <1>11, <1>12, <1>13, Zenon DEF d, tt

\* What acquire_pooled hands out was free; the pool's cards and quarantine stay.
LEMMA PooledGives ==
  ASSUME NEW ps \in Seq(Devices), NEW k \in Conns, NEW suspects \in BOOLEAN,
         FreeInPool(ps, suspects) # {}, NEW qs, qs = Pooled(ps, k, suspects)
  PROVE  qs \in Seq(Devices) /\ Given(ps, k, qs) /\ SameCards(ps, qs)
<1>1. DOMAIN ps = 1 .. Len(ps) /\ Len(ps) \in Nat /\ \A i \in DOMAIN ps : ps[i] \in Devices
  OBVIOUS
<1> DEFINE m == Min(FreeInPool(ps, suspects))
<1>2. m \in FreeInPool(ps, suspects)
  <2>1. FreeInPool(ps, suspects) \in SUBSET Nat
    BY <1>1 DEF FreeInPool
  <2> QED
    BY <2>1, MinIn
<1>3. qs = [ps EXCEPT ![m].owner = k]
  BY DEF Pooled
<1> HIDE DEF m
<1>4. m \in DOMAIN ps /\ ps[m].owner = NoConn
  BY <1>2 DEF FreeInPool
<1>5. DOMAIN qs = DOMAIN ps /\ \A j \in DOMAIN ps \ {m} : qs[j] = ps[j]
  BY <1>3, <1>4
<1>6. qs[m] = [ps[m] EXCEPT !.owner = k]
  BY <1>3, <1>4
<1>7. /\ qs[m] \in Devices /\ qs[m].owner = k
      /\ qs[m].card = ps[m].card /\ qs[m].suspect = ps[m].suspect
  BY <1>6, <1>4, <1>1 DEF Devices
<1>8. qs \in Seq(Devices)
  <2>1. qs = [i \in 1 .. Len(ps) |-> qs[i]]
    BY <1>1, <1>3
  <2>2. \A i \in 1 .. Len(ps) : qs[i] \in Devices
    BY <1>1, <1>5, <1>7
  <2> QED
    BY <2>1, <2>2, <1>1, IsASeq
<1>9. Given(ps, k, qs)
  BY <1>4, <1>5, <1>7 DEF Given
<1>10. SameCards(ps, qs)
  BY <1>5, <1>7 DEF SameCards
<1> QED
  BY <1>8, <1>9, <1>10

\* Pool qs is ps with card n, just opened, at its end.
Grown(ps, n, qs) ==
  /\ Len(ps) + 1 \notin DOMAIN ps /\ DOMAIN qs = DOMAIN ps \cup {Len(ps) + 1}
  /\ \A i \in DOMAIN ps : qs[i] = ps[i]
  /\ qs[Len(ps) + 1].card = n /\ ~qs[Len(ps) + 1].suspect

LEMMA OpenedGives ==
  ASSUME NEW ps \in Seq(Devices), NEW k \in Conns, NEW n \in 1 .. MaxCards,
         NEW qs, qs = Opened(ps, k, n)
  PROVE  qs \in Seq(Devices) /\ Given(ps, k, qs) /\ Grown(ps, n, qs)
<1> DEFINE dev == [card |-> n, owner |-> k, suspect |-> FALSE]
<1>1. dev \in Devices /\ dev.owner = k /\ dev.card = n /\ ~dev.suspect
  BY DEF Devices
<1>2. qs = Append(ps, dev)
  BY DEF Opened
<1> HIDE DEF dev
<1>3. /\ qs \in Seq(Devices) /\ Len(ps) \in Nat /\ DOMAIN ps = 1 .. Len(ps)
      /\ DOMAIN qs = 1 .. Len(ps) + 1
  BY <1>1, <1>2
<1>4. (\A i \in DOMAIN ps : qs[i] = ps[i]) /\ qs[Len(ps) + 1] = dev
  BY <1>1, <1>2, <1>3
<1>5. Len(ps) + 1 \notin DOMAIN ps /\ DOMAIN qs = DOMAIN ps \cup {Len(ps) + 1}
  BY <1>3
<1>6. Given(ps, k, qs)
  BY <1>1, <1>4, <1>5 DEF Given
<1> QED
  BY <1>1, <1>3, <1>4, <1>5, <1>6 DEF Grown

\* What an acquisition gives: a device if it succeeds, and cards that stay.
Acquired(ps, k, a) ==
  /\ a.ok \in BOOLEAN /\ a.pool \in Seq(Devices)
  /\ IF a.ok THEN Given(ps, k, a.pool) ELSE a.pool = ps
  /\ Stocked(a.pool, a.cards) /\ cards \subseteq a.cards

LEMMA ExistingAcquired ==
  ASSUME NEW ps \in Seq(Devices), NEW k \in Conns,
         NEW cs, Stocked(ps, cs), cards \subseteq cs, NEW a \in AcquireExisting(ps, k, cs)
  PROVE  Acquired(ps, k, a)
<1>0. TRUE \in BOOLEAN
  OBVIOUS
<1>1. \/ \E n \in Openable(ps, cs) : a = [ok |-> TRUE, cards |-> cs, pool |-> Opened(ps, k, n)]
      \/ a = [ok |-> FreeInPool(ps, TRUE) # {}, cards |-> cs,
              pool |-> IF FreeInPool(ps, TRUE) # {} THEN Pooled(ps, k, TRUE) ELSE ps]
  BY DEF AcquireExisting
<1>2. ASSUME NEW n \in Openable(ps, cs), a = [ok |-> TRUE, cards |-> cs, pool |-> Opened(ps, k, n)]
      PROVE  Acquired(ps, k, a)
  <2>1. n \in 1 .. MaxCards /\ n \in cs
    BY DEF Openable, Stocked
  <2>2. a.ok = TRUE /\ a.cards = cs /\ a.pool = Opened(ps, k, n)
    BY <1>2
  <2>3. a.pool \in Seq(Devices) /\ Given(ps, k, a.pool) /\ Grown(ps, n, a.pool)
    BY <2>1, <2>2, OpenedGives, Zenon
  <2>4. Stocked(a.pool, a.cards)
    BY <2>1, <2>2, <2>3 DEF Stocked, Grown
  <2> QED
    BY <2>2, <2>3, <2>4 DEF Acquired
<1>3. ASSUME a = [ok |-> FreeInPool(ps, TRUE) # {}, cards |-> cs,
                  pool |-> IF FreeInPool(ps, TRUE) # {} THEN Pooled(ps, k, TRUE) ELSE ps]
      PROVE  Acquired(ps, k, a)
  <2>1. CASE FreeInPool(ps, TRUE) # {}
    <3>1. a.ok = TRUE /\ a.cards = cs /\ a.pool = Pooled(ps, k, TRUE)
      BY <1>3, <2>1
    <3>2. a.pool \in Seq(Devices) /\ Given(ps, k, a.pool) /\ SameCards(ps, a.pool)
      BY <2>1, <3>1, <1>0, PooledGives, Zenon
    <3> QED
      BY <3>1, <3>2 DEF Acquired, Stocked, SameCards
  <2>2. CASE FreeInPool(ps, TRUE) = {}
    <3>1. a.ok = FALSE /\ a.cards = cs /\ a.pool = ps
      BY <1>3, <2>2
    <3> QED
      BY <3>1 DEF Acquired
  <2> QED
    BY <2>1, <2>2
<1> QED
  BY <1>1, <1>2, <1>3

\* Every way through sremfb_evdi_acquire.
LEMMA AcquireGives ==
  ASSUME NEW ps \in Seq(Devices), NEW k \in Conns, Stocked(ps, cards), NEW a \in Acquire(ps, k)
  PROVE  Acquired(ps, k, a)
<1>1. CASE FreeInPool(ps, FALSE) # {}
  <2>1. a = [ok |-> TRUE, cards |-> cards, pool |-> Pooled(ps, k, FALSE)]
    BY <1>1 DEF Acquire
  <2>2. a.ok = TRUE /\ a.cards = cards /\ a.pool = Pooled(ps, k, FALSE) /\ FALSE \in BOOLEAN
    BY <2>1
  <2>3. a.pool \in Seq(Devices) /\ Given(ps, k, a.pool) /\ SameCards(ps, a.pool)
    BY <1>1, <2>2, PooledGives, Zenon
  <2> QED
    BY <2>2, <2>3 DEF Acquired, Stocked, SameCards
<1>2. CASE FreeInPool(ps, FALSE) = {}
  <2>1. PICK new \in SelfHeal(cards) \cup {{}} : a \in AcquireExisting(ps, k, cards \cup new)
    BY <1>2 DEF Acquire
  <2>2. new \subseteq 1 .. MaxCards
    <3> DEFINE rest == (1 .. MaxCards) \ cards
    <3>1. rest \in SUBSET Nat
      <4>1. 1 .. MaxCards \subseteq Nat
        BY Numbers
      <4> QED
        BY <4>1
    <3>2. rest # {} => Min(rest) \in rest
      BY <3>1, MinIn
    <3>3. new = {} \/ (rest # {} /\ new = {Min(rest)})
      BY DEF SelfHeal
    <3> QED
      BY <3>2, <3>3
  <2>3. Stocked(ps, cards \cup new)
    BY <2>2 DEF Stocked
  <2> QED
    BY <2>1, <2>3, ExistingAcquired
<1> QED
  BY <1>1, <1>2

-----------------------------------------------------------------------------
(* Counting clients. *)

LEMMA LiveFinite ==
  ASSUME NEW c
  PROVE  IsFiniteSet(Live(c)) /\ Cardinality(Live(c)) \in Nat
<1>1. Live(c) \subseteq Conns /\ IsFiniteSet(Conns)
  BY SessionAssumption DEF Live
<1> QED
  BY <1>1, FS_Subset, FS_CardinalityType

LEMMA LiveFewer ==
  ASSUME NEW c, NEW d, Live(d) \subseteq Live(c)
  PROVE  Cardinality(Live(d)) <= Cardinality(Live(c))
  BY LiveFinite, FS_Subset

-----------------------------------------------------------------------------
(* The steps. *)

LEMMA ClientsLive == Clients = Live(cl)
  BY DEF Clients, Live

Changed(c, k, new) == [c EXCEPT ![k] = new]

\* The peer file of k is written when it becomes due, and only then.
Filed(c, d, k, fs, gs) ==
  /\ Due(c, k) => Due(d, k)
  /\ gs = fs \/ (gs = UsbPeerAdd(fs, c[k].peer) /\ (c[k].peer.usb => Due(d, k)))
  /\ Due(d, k) /\ ~Due(c, k) => c[k].peer.ip \in gs

\* A client that goes on keeps its device, its sources and its machine; a peer
\* file that is written is due.
LEMMA UpdateKeeps ==
  ASSUME NEW c, NEW ss, NEW ps, Books(c, ss, ps), NEW k \in Live(c),
         NEW new \in Joined, new.peer = c[k].peer,
         NEW d, d = Changed(c, k, new),
         NEW fs, NEW gs, Filed(c, d, k, fs, gs)
  PROVE  /\ d \in Tables /\ Owned(d, ps) /\ Called(d, ss) /\ OneEach(d) /\ Live(d) = Live(c)
         /\ Backed(c, fs) => Backed(d, gs)
         /\ Announced(c, fs) => Announced(d, gs)
<1>1. c \in Tables /\ k \in Conns
  BY DEF Books, Kept, Live
<1>2. \A j \in Conns : d[j] = IF j = k THEN new ELSE c[j]
  BY <1>1 DEF Tables, Changed
<1>3. d \in Tables
  BY <1>1 DEF Tables, Changed
<1>4. new.state # "FREE"
  BY DEF Joined
<1>5. Live(d) = Live(c)
  BY <1>2, <1>4 DEF Live
<1>6. \A j \in Live(c) : d[j].peer = c[j].peer /\ (j # k => d[j] = c[j])
  BY <1>2 DEF Live
<1>7. \A j \in Live(c) : j # k => (Due(d, j) <=> Due(c, j))
  BY <1>6 DEF Due
<1>8. Owned(d, ps) /\ Called(d, ss) /\ OneEach(d)
  <2>1. Owned(c, ps) /\ Called(c, ss) /\ OneEach(c)
    BY DEF Books
  <2>2. Owned(d, ps)
    BY <2>1, <1>5 DEF Owned
  <2>3. Called(d, ss)
    BY <2>1, <1>5 DEF Called
  <2>4. OneEach(d)
    BY <2>1, <1>5, <1>6 DEF OneEach
  <2> QED
    BY <2>2, <2>3, <2>4
<1>9. fs \subseteq gs /\ (Due(d, k) => d[k].peer.usb)
  BY DEF UsbPeerAdd, Due, Filed
<1>10. ASSUME Backed(c, fs)
       PROVE  Backed(d, gs)
  <2> SUFFICES ASSUME NEW f \in gs
               PROVE  \E j \in Live(d) : Due(d, j) /\ d[j].peer.ip = f
    BY DEF Backed
  <2>1. CASE f \in fs
    <3>1. PICK j \in Live(c) : Due(c, j) /\ c[j].peer.ip = f
      BY <2>1, <1>10 DEF Backed
    <3> QED
      BY <3>1, <1>5, <1>6, <1>7 DEF Filed
  <2>2. CASE f \notin fs
    <3>1. c[k].peer.usb /\ f = c[k].peer.ip /\ Due(d, k)
      BY <2>2 DEF UsbPeerAdd, Filed
    <3> QED
      BY <3>1, <1>5, <1>6
  <2> QED
    BY <2>1, <2>2
<1>11. ASSUME Announced(c, fs)
       PROVE  Announced(d, gs)
  <2> SUFFICES ASSUME NEW j \in Live(d), Due(d, j)
               PROVE  d[j].peer.ip \in gs
    BY DEF Announced
  <2> QED
    BY <1>5, <1>6, <1>7, <1>9, <1>11 DEF Announced, Filed
<1> QED
  BY <1>3, <1>5, <1>8, <1>10, <1>11

LEMMA SessionInit ==
  ASSUME Init
  PROVE  SessionInv /\ Announced(cl, files)
<1>1. \A k \in Conns : cl[k] = NoClient
  BY DEF Init
<1>2. Live(cl) = {}
  BY <1>1 DEF Live, NoClient
<1>3. cl \in Tables
  BY DEF Init, Tables
<1>4. pool = <<>> /\ pool \in Seq(Devices) /\ DOMAIN pool = {}
  BY DEF Init
<1>5. Books(cl, sources, pool)
  BY <1>2, <1>3, <1>4 DEF Books, Kept, Owned, Called, OneEach, Init
<1>6. Stocked(pool, cards)
  BY <1>4, SessionAssumption DEF Stocked, Init
<1>7. Cardinality(Live(cl)) = 0
  BY <1>2, FS_EmptySet
<1>8. SessionInv
  BY <1>2, <1>5, <1>6, <1>7, Numbers DEF SessionInv, Init, Backed
<1> QED
  BY <1>2, <1>8 DEF Announced

\* What a callback of a client may do to it: it goes.
LEMMA GoneKeeps ==
  ASSUME SessionInv, NEW k \in Live(cl), cl' = Without(cl, k),
         sources' = SourcesCleared(sources, k), files' = UsbPeerRemove(files, cl[k].peer),
         Freed(pool, k, pool'), \A i \in DOMAIN pool : pool'[i].card = pool[i].card,
         cards' = cards, power' = power, up' = up, fail_run' \in 0 .. Budget + 1
  PROVE  /\ SessionInv'
         /\ OwnAddress /\ Announced(cl, files) => Announced(cl', files')
<1>1. Books(cl, sources, pool) /\ Stocked(pool, cards)
  BY DEF SessionInv
<1>7. /\ Books(cl', SourcesCleared(sources, k), pool')
      /\ Live(cl') = Live(cl) \ {k}
      /\ Backed(cl, files) => Backed(cl', UsbPeerRemove(files, cl[k].peer))
      /\ OwnAddress /\ Announced(cl, files)
           => Announced(cl', UsbPeerRemove(files, cl[k].peer))
  BY <1>1, LostKeeps
<1>2. /\ Books(cl', sources', pool')
      /\ Live(cl') = Live(cl) \ {k}
      /\ Backed(cl, files) => Backed(cl', files')
      /\ OwnAddress /\ Announced(cl, files) => Announced(cl', files')
  BY <1>7
<1>3. Stocked(pool', cards')
  BY <1>1 DEF Stocked, Freed
<1>4. Cardinality(Live(cl')) <= MaxClients
  <2>1. /\ Cardinality(Live(cl')) <= Cardinality(Live(cl)) /\ Cardinality(Live(cl)) \in Nat
        /\ Cardinality(Live(cl')) \in Nat
    BY <1>2, LiveFewer, LiveFinite
  <2> QED
    BY <2>1, Numbers DEF SessionInv
<1>5. IF up' THEN Backed(cl', files') ELSE Live(cl') = {}
  BY <1>2 DEF SessionInv
<1>6. power' \in {"on", "save", "unknown"} /\ up' \in BOOLEAN
  BY DEF SessionInv
<1> QED
  BY <1>2, <1>3, <1>4, <1>5, <1>6 DEF SessionInv

\* The process is gone, and with it every client.
LEMMA DownKeeps ==
  ASSUME SessionInv, Gone
  PROVE  SessionInv' /\ Announced(cl', files')
<1>1. \A k \in Conns : cl'[k] = NoClient
  BY DEF Gone
<1>2. Live(cl') = {}
  BY <1>1 DEF Live, NoClient
<1>3. cl' \in Tables
  BY DEF Gone, Tables
<1>4. pool' \in Seq(Devices) /\ DOMAIN pool' = {} /\ sources' = {}
  BY DEF Gone
<1>5. Books(cl', sources', pool')
  BY <1>2, <1>3, <1>4 DEF Books, Kept, Owned, Called, OneEach
<1>6. Stocked(pool', cards')
  BY <1>4 DEF Stocked, SessionInv, Gone
<1>7. Cardinality(Live(cl')) <= MaxClients
  <2>1. Cardinality(Live(cl')) = 0
    BY <1>2, FS_EmptySet
  <2> QED
    BY <2>1, Numbers
<1>8. /\ fail_run' \in 0 .. Budget + 1 /\ power' \in {"on", "save", "unknown"}
  BY Numbers DEF Gone, SessionInv
<1>10. up' = FALSE
  BY DEF Gone
<1>11. up' \in BOOLEAN /\ ~up'
  BY <1>10
<1>9. SessionInv'
  BY <1>2, <1>5, <1>6, <1>7, <1>8, <1>11 DEF SessionInv
<1> QED
  BY <1>2, <1>9 DEF Announced

\* A hello that is refused; the machine's last connection is gone all the same.
LEMMA RefusedKeeps ==
  ASSUME SessionInv, NEW p \in Peers, NEW s, s = AfterReplace(p), up,
         cl' = s.cl, sources' = s.sources, pool' = s.pool, files' = s.files,
         BootCards \subseteq cards', cards \subseteq cards', cards' \subseteq 1 .. MaxCards,
         power' = power, up' = up, fail_run' = fail_run
  PROVE  /\ SessionInv'
         /\ OwnAddress /\ Announced(cl, files) => Announced(cl', files')
<1>1. Books(cl, sources, pool) /\ Stocked(pool, cards)
  BY DEF SessionInv
<1>2. /\ Books(cl', sources', pool')
      /\ Live(cl') \subseteq Live(cl)
      /\ Backed(cl, files) => Backed(cl', files')
      /\ OwnAddress /\ Announced(cl, files) => Announced(cl', files')
      /\ SameCards(pool, pool')
  BY <1>1, ReplaceKeeps
<1>3. Stocked(pool', cards')
  BY <1>1, <1>2 DEF Stocked, SameCards
<1>4. Cardinality(Live(cl')) <= MaxClients
  <2>1. /\ Cardinality(Live(cl')) <= Cardinality(Live(cl)) /\ Cardinality(Live(cl)) \in Nat
        /\ Cardinality(Live(cl')) \in Nat
    BY <1>2, LiveFewer, LiveFinite
  <2> QED
    BY <2>1, Numbers DEF SessionInv
<1>5. /\ fail_run' \in 0 .. Budget + 1 /\ power' \in {"on", "save", "unknown"}
      /\ up' \in BOOLEAN /\ up' /\ Backed(cl', files')
  BY <1>2 DEF SessionInv
<1>6. SessionInv'
  BY <1>2, <1>3, <1>4, <1>5 DEF SessionInv
<1> QED
  BY <1>2, <1>6

\* A hello that is accepted.
LEMMA AcceptKeeps ==
  ASSUME SessionInv, NEW p \in Peers, NEW k \in Conns, Accept(p, k)
  PROVE  /\ SessionInv'
         /\ OwnAddress /\ Announced(cl, files) => Announced(cl', files')
<1> DEFINE s == AfterReplace(p)
<1>1. /\ up /\ s.cl[k].state = "FREE" /\ HasRoom(s)
      /\ cl' = Entered(s.cl, k, p)
      /\ sources' = Watched(s.sources, k)
      /\ files' = s.files
      /\ up' = up /\ fail_run' = fail_run /\ power' = power
  BY DEF Accept, Entered, Watched
<1>2. PICK a \in Acquire(s.pool, k) : a.ok /\ pool' = a.pool /\ cards' = a.cards
  BY DEF Accept
<1>3. Books(cl, sources, pool) /\ Stocked(pool, cards)
  BY DEF SessionInv
<1> HIDE DEF s
<1>4. /\ Books(s.cl, s.sources, s.pool)
      /\ Live(s.cl) \subseteq Live(cl)
      /\ Unheard(s.cl, p)
      /\ Backed(cl, files) => Backed(s.cl, s.files)
      /\ OwnAddress /\ Announced(cl, files) => Announced(s.cl, s.files)
      /\ SameCards(pool, s.pool)
  BY <1>3, ReplaceKeeps DEF s
<1>5. s.pool \in Seq(Devices) /\ Stocked(s.pool, cards)
  BY <1>3, <1>4 DEF Stocked, SameCards, Books, Kept
<1>6. /\ pool' \in Seq(Devices) /\ Given(s.pool, k, pool') /\ Stocked(pool', cards')
  BY <1>2, <1>5, AcquireGives DEF Acquired
<1>11. Books(s.cl, s.sources, s.pool) /\ Unheard(s.cl, p) /\ s.cl[k].state = "FREE"
  BY <1>1, <1>4
<1>12. /\ Books(Entered(s.cl, k, p), Watched(s.sources, k), pool')
       /\ Live(Entered(s.cl, k, p)) = Live(s.cl) \cup {k} /\ k \notin Live(s.cl)
  BY <1>11, <1>6, TakenKeeps
<1>13. /\ Backed(s.cl, files') => Backed(Entered(s.cl, k, p), files')
       /\ Announced(s.cl, files') => Announced(Entered(s.cl, k, p), files')
  BY <1>11, <1>6, TakenKeeps
<1>7. /\ Books(cl', sources', pool')
      /\ Live(cl') = Live(s.cl) \cup {k} /\ k \notin Live(s.cl)
      /\ Backed(s.cl, files') => Backed(cl', files')
      /\ Announced(s.cl, files') => Announced(cl', files')
  BY <1>1, <1>12, <1>13
<1>8. Cardinality(Live(cl')) <= MaxClients
  <2>1. Cardinality(Live(s.cl)) < MaxClients
    BY <1>1 DEF HasRoom, Live
  <2>2. Cardinality(Live(cl')) = Cardinality(Live(s.cl)) + 1
    BY <1>7, LiveFinite, FS_AddElement
  <2> QED
    BY <2>1, <2>2, LiveFinite, Numbers
<1>9. Backed(cl', files')
  BY <1>1, <1>4, <1>7 DEF SessionInv
<1>10. SessionInv'
  BY <1>1, <1>6, <1>7, <1>8, <1>9 DEF SessionInv
<1> QED
  BY <1>1, <1>4, <1>7, <1>10

LEMMA QuietType ==
  ASSUME SessionInv, NEW k \in Live(cl)
  PROVE  cl[k] \in Joined /\ k \in Conns /\ Quiets(k) \subseteq 0 .. Never
<1>1. k \in Conns /\ cl[k] \in Joined
  BY DEF SessionInv, Books, Kept, Tables, Live, NoClient
<1> QED
  BY <1>1, Numbers DEF Quiets

\* on_mode_changed and a tick that parks: the client goes on.
LEMMA OnwardKeeps ==
  ASSUME SessionInv, NEW k \in Live(cl), NEW new \in Joined, new.peer = cl[k].peer,
         cl' = [cl EXCEPT ![k] = new], files' = Announce(k),
         new.state = "STREAMING" \/ new.usb_early, cl[k].usb_early => new.usb_early,
         cl[k].state = "STREAMING" => new.state = "STREAMING",
         sources' \subseteq Conns \X SourceKinds,
         \A s \in sources' : s[1] \in Live(cl), pool' \in Seq(Devices), DOMAIN pool' = DOMAIN pool,
         \A i \in DOMAIN pool : pool'[i].owner = pool[i].owner /\ pool'[i].card = pool[i].card,
         cards' = cards, power' = power, up' = up, fail_run' \in 0 .. Budget + 1
  PROVE  SessionInv' /\ (Announced(cl, files) => Announced(cl', files'))
<1>1. Books(cl, sources, pool) /\ Stocked(pool, cards) /\ cl \in Tables /\ k \in Conns
  BY DEF SessionInv, Books, Kept, Live
<1>2. cl'[k] = new
  BY <1>1 DEF Tables
<1>3. cl[k].peer.usb <=> Due(cl', k)
  BY <1>2 DEF Due
<1>4. Due(cl, k) => Due(cl', k)
  BY <1>3 DEF Due
<1>5. \/ files' = files
      \/ files' = UsbPeerAdd(files, cl[k].peer) /\ (cl[k].peer.usb => Due(cl', k))
  BY <1>3 DEF Announce
<1>6. Due(cl', k) /\ ~Due(cl, k) => cl[k].peer.ip \in files'
  BY <1>3 DEF Due, Announce, UsbPeerAdd
<1>13. Filed(cl, cl', k, files, files') /\ cl' = Changed(cl, k, new)
  BY <1>4, <1>5, <1>6 DEF Filed, Changed
<1>7. /\ cl' \in Tables /\ Owned(cl', pool) /\ Called(cl', sources) /\ OneEach(cl')
      /\ Live(cl') = Live(cl)
      /\ Backed(cl, files) => Backed(cl', files')
      /\ Announced(cl, files) => Announced(cl', files')
  BY <1>1, <1>13, UpdateKeeps
<1>8. Books(cl', sources', pool')
  <2>1. Kept(cl', sources', pool')
    BY <1>7 DEF Kept
  <2>2. Owned(cl', pool')
    BY <1>7 DEF Owned
  <2>3. Called(cl', sources')
    BY <1>7 DEF Called
  <2> QED
    BY <2>1, <2>2, <2>3, <1>7 DEF Books
<1>9. Stocked(pool', cards')
  BY <1>1 DEF Stocked
<1>10. IF up' THEN Backed(cl', files') ELSE Live(cl') = {}
  BY <1>7 DEF SessionInv
<1>11. power' \in {"on", "save", "unknown"} /\ up' \in BOOLEAN
  BY DEF SessionInv
<1>12. Cardinality(Live(cl')) <= MaxClients
  BY <1>7 DEF SessionInv
<1> QED
  BY <1>7, <1>8, <1>9, <1>10, <1>11, <1>12 DEF SessionInv

LEMMA ModeChangedKeeps ==
  ASSUME SessionInv, NEW k \in Conns, ModeChanged(k)
  PROVE  SessionInv' /\ (Announced(cl, files) => Announced(cl', files'))
<1> DEFINE new == [cl[k] EXCEPT !.state = "STREAMING"]
<1>1. cl \in Tables /\ sources \subseteq Conns \X SourceKinds /\ pool \in Seq(Devices)
  BY DEF SessionInv, Books, Kept
<1>2. k \in Live(cl)
  BY DEF ModeChanged, Waiting, Live
<1>3. cl[k] \in Joined
  BY <1>2, QuietType
<1>4. /\ new \in Joined /\ new.peer = cl[k].peer /\ new.state = "STREAMING"
      /\ new.usb_early = cl[k].usb_early
  BY <1>3 DEF Joined
<1>5. cl' = [cl EXCEPT ![k] = new]
  BY <1>1 DEF ModeChanged, Tables
<1> HIDE DEF new
<1>6. /\ sources' \subseteq Conns \X SourceKinds
      /\ \A s \in sources' : s[1] \in Live(cl)
  <2>1. sources' = (sources \ {<<k, "mode_timer">>}) \cup {<<k, "out">>, <<k, "ping">>}
    BY DEF ModeChanged
  <2>2. ASSUME NEW s \in sources'
        PROVE  s \in Conns \X SourceKinds /\ s[1] \in Live(cl)
    <3>1. s \in sources \/ s = <<k, "out">> \/ s = <<k, "ping">>
      BY <2>1
    <3> QED
      BY <3>1, <1>1, <1>2 DEF SessionInv, Books, Called, SourceKinds
  <2> QED
    BY <2>2
<1>7. /\ pool' \in Seq(Devices) /\ DOMAIN pool' = DOMAIN pool
      /\ \A i \in DOMAIN pool : pool'[i].owner = pool[i].owner /\ pool'[i].card = pool[i].card
  <2>1. pool' = [i \in DOMAIN pool |-> IF pool[i].owner = k
                                       THEN [pool[i] EXCEPT !.suspect = FALSE] ELSE pool[i]]
    BY DEF ModeChanged
  <2>2. DOMAIN pool = 1 .. Len(pool) /\ Len(pool) \in Nat /\ \A i \in DOMAIN pool : pool[i] \in Devices
    BY <1>1
  <2>3. DOMAIN pool' = DOMAIN pool
    BY <2>1
  <2>4. ASSUME NEW i \in DOMAIN pool
        PROVE  /\ pool'[i] \in Devices
               /\ pool'[i].owner = pool[i].owner /\ pool'[i].card = pool[i].card
    <3>1. pool'[i] = IF pool[i].owner = k THEN [pool[i] EXCEPT !.suspect = FALSE] ELSE pool[i]
      BY <2>1
    <3> QED
      BY <3>1, <2>2 DEF Devices
  <2>5. pool' = [i \in 1 .. Len(pool) |-> pool'[i]]
    BY <2>1, <2>2
  <2>6. pool' \in Seq(Devices)
    BY <2>2, <2>4, <2>5, IsASeq
  <2> QED
    BY <2>3, <2>4, <2>6
<1>8. /\ files' = Announce(k) /\ cards' = cards /\ power' = power /\ up' = up
      /\ fail_run' \in 0 .. Budget + 1
  BY Numbers DEF ModeChanged
<1> QED
  BY <1>2, <1>4, <1>5, <1>6, <1>7, <1>8, OnwardKeeps

LEMMA ParkKeeps ==
  ASSUME SessionInv, NEW k \in Conns, Park(k)
  PROVE  SessionInv' /\ (Announced(cl, files) => Announced(cl', files'))
<1>0. PICK q \in Quiets(k) : cl' = [cl EXCEPT ![k].quiet = q, ![k].usb_early = TRUE]
  BY DEF Park
<1> DEFINE new == [cl[k] EXCEPT !.quiet = q, !.usb_early = TRUE]
<1>1. cl \in Tables /\ sources \subseteq Conns \X SourceKinds /\ pool \in Seq(Devices)
  BY DEF SessionInv, Books, Kept
<1>2. k \in Live(cl)
  <2>1. <<k, "mode_timer">> \in sources
    BY DEF Park
  <2> QED
    BY <2>1 DEF SessionInv, Books, Called
<1>3. cl[k] \in Joined /\ q \in 0 .. Never
  BY <1>2, QuietType
<1>4. /\ new \in Joined /\ new.peer = cl[k].peer /\ new.usb_early
      /\ new.state = cl[k].state
  BY <1>3 DEF Joined
<1>5. cl' = [cl EXCEPT ![k] = new]
  BY <1>0, <1>1, <1>3 DEF Tables, Joined
<1> HIDE DEF new
<1>6. /\ sources' \subseteq Conns \X SourceKinds
      /\ \A s \in sources' : s[1] \in Live(cl)
  BY <1>1 DEF Park, SessionInv, Books, Called
<1>7. /\ pool' \in Seq(Devices) /\ DOMAIN pool' = DOMAIN pool
      /\ \A i \in DOMAIN pool : pool'[i].owner = pool[i].owner /\ pool'[i].card = pool[i].card
  BY <1>1 DEF Park
<1>8. /\ files' = Announce(k) /\ cards' = cards /\ power' = power /\ up' = up
      /\ fail_run' \in 0 .. Budget + 1
  BY DEF Park, SessionInv
<1> QED
  BY <1>2, <1>4, <1>5, <1>6, <1>7, <1>8, OnwardKeeps

\* on_client_io and client_lost_idle.
LEMMA TornKeeps ==
  ASSUME SessionInv, NEW k \in Live(cl), Torn(k),
         cards' = cards, power' = power, up' = up, fail_run' = fail_run
  PROVE  /\ SessionInv' /\ SameCards(pool, pool')
         /\ OwnAddress /\ Announced(cl, files) => Announced(cl', files')
<1>1. /\ cl' = Without(cl, k) /\ sources' = SourcesCleared(sources, k)
      /\ pool' = PoolRelease(pool, k) /\ files' = UsbPeerRemove(files, cl[k].peer)
  BY DEF Torn, ClientLost, Without
<1>2. pool \in Seq(Devices) /\ k \in Conns /\ fail_run' \in 0 .. Budget + 1
  BY DEF SessionInv, Books, Kept, Live
<1>3. Freed(pool, k, pool') /\ SameCards(pool, pool')
  BY <1>1, <1>2, ReleaseFields DEF Freed, SameCards
<1>4. \A i \in DOMAIN pool : pool'[i].card = pool[i].card
  BY <1>3 DEF SameCards
<1> QED
  BY <1>1, <1>2, <1>3, <1>4, GoneKeeps

\* on_mode_timeout: the device of the client that goes is put in quarantine.
LEMMA TimeoutPool ==
  ASSUME SessionInv, NEW k \in Live(cl), ModeTimeout(k)
  PROVE  /\ Freed(pool, k, pool') /\ DOMAIN pool' = DOMAIN pool
         /\ \A i \in DOMAIN pool :
              /\ pool'[i].card = pool[i].card
              /\ pool'[i].suspect = IF pool[i].owner = k THEN TRUE ELSE pool[i].suspect
<1>1. pool \in Seq(Devices) /\ k \in Conns
  BY DEF SessionInv, Books, Kept, Live
<1>2. pool' = [i \in DOMAIN pool |->
                 IF pool[i].owner = k
                 THEN [pool[i] EXCEPT !.suspect = TRUE, !.owner = NoConn] ELSE pool[i]]
  BY DEF ModeTimeout
<1>3. DOMAIN pool = 1 .. Len(pool) /\ Len(pool) \in Nat /\ \A i \in DOMAIN pool : pool[i] \in Devices
  BY <1>1
<1>4. DOMAIN pool' = DOMAIN pool
  BY <1>2
<1>5. ASSUME NEW i \in DOMAIN pool
      PROVE  /\ pool'[i] \in Devices /\ pool'[i].card = pool[i].card
             /\ pool'[i].owner = IF pool[i].owner = k THEN NoConn ELSE pool[i].owner
             /\ pool'[i].suspect = IF pool[i].owner = k THEN TRUE ELSE pool[i].suspect
  <2>1. pool'[i] = IF pool[i].owner = k
                   THEN [pool[i] EXCEPT !.suspect = TRUE, !.owner = NoConn] ELSE pool[i]
    BY <1>2
  <2> QED
    BY <2>1, <1>3 DEF Devices
<1>6. pool' = [i \in 1 .. Len(pool) |-> pool'[i]]
  BY <1>2, <1>3
<1>7. pool' \in Seq(Devices)
  <2>1. \A i \in 1 .. Len(pool) : pool'[i] \in Devices
    BY <1>3, <1>5
  <2> QED
    BY <2>1, <1>3, <1>6, IsASeq
<1> QED
  BY <1>4, <1>5, <1>7 DEF Freed

LEMMA Timed ==
  ASSUME SessionInv, NEW k \in Conns, NEW kind, <<k, kind>> \in sources
  PROVE  k \in Live(cl)
  BY DEF SessionInv, Books, Called

LEMMA FailRun ==
  ASSUME SessionInv
  PROVE  Min({fail_run + 1, Budget + 1}) = IF fail_run <= Budget THEN fail_run + 1 ELSE Budget + 1
<1>1. fail_run \in 0 .. Budget + 1 /\ Budget \in Nat
  BY Numbers DEF SessionInv
<1> QED
  BY <1>1, MinOfTwo

LEMMA SessionNext ==
  ASSUME SessionInv, [Next]_vars
  PROVE  /\ SessionInv'
         /\ OwnAddress /\ Announced(cl, files) => Announced(cl', files')
<1> DEFINE Goal == /\ SessionInv'
                   /\ OwnAddress /\ Announced(cl, files) => Announced(cl', files')
<1>1. ASSUME NEW p \in Peers, RefuseEarly(p)
      PROVE  Goal
  <2>1. /\ up /\ cl' = AfterReplace(p).cl /\ sources' = AfterReplace(p).sources
        /\ pool' = AfterReplace(p).pool /\ files' = AfterReplace(p).files
        /\ up' = up /\ cards' = cards /\ power' = power /\ fail_run' = fail_run
    BY <1>1 DEF RefuseEarly
  <2>2. BootCards \subseteq cards' /\ cards \subseteq cards' /\ cards' \subseteq 1 .. MaxCards
    BY <2>1 DEF SessionInv, Stocked
  <2> QED
    BY <2>1, <2>2, RefusedKeeps
<1>2. ASSUME NEW p \in Peers, NEW k \in Conns, RefuseNoDevice(p, k)
      PROVE  Goal
  <2>1. /\ up /\ cl' = AfterReplace(p).cl /\ sources' = AfterReplace(p).sources
        /\ pool' = AfterReplace(p).pool /\ files' = AfterReplace(p).files
        /\ up' = up /\ power' = power /\ fail_run' = fail_run
    BY <1>2 DEF RefuseNoDevice
  <2>2. PICK a \in Acquire(AfterReplace(p).pool, k) : cards' = a.cards
    BY <1>2 DEF RefuseNoDevice
  <2>4. Books(cl, sources, pool) /\ Stocked(pool, cards)
    BY DEF SessionInv
  <2>5. /\ Books(AfterReplace(p).cl, AfterReplace(p).sources, AfterReplace(p).pool)
        /\ SameCards(pool, AfterReplace(p).pool)
    BY <2>4, ReplaceKeeps
  <2>6. AfterReplace(p).pool \in Seq(Devices) /\ Stocked(AfterReplace(p).pool, cards)
    BY <2>4, <2>5 DEF Stocked, SameCards, Books, Kept
  <2>7. Acquired(AfterReplace(p).pool, k, a)
    BY <2>2, <2>6, AcquireGives
  <2>8. BootCards \subseteq cards' /\ cards \subseteq cards' /\ cards' \subseteq 1 .. MaxCards
    BY <2>2, <2>7 DEF Acquired, Stocked
  <2> QED
    BY <2>1, <2>8, RefusedKeeps
<1>3. ASSUME NEW p \in Peers, NEW k \in Conns, Accept(p, k)
      PROVE  Goal
  BY <1>3, AcceptKeeps
<1>4. ASSUME NEW k \in Conns, ModeChanged(k)
      PROVE  Goal
  BY <1>4, ModeChangedKeeps
<1>5. ASSUME NEW k \in Conns, Park(k)
      PROVE  Goal
  BY <1>5, ParkKeeps
<1>6. ASSUME NEW k \in Conns, ModeTimeout(k)
      PROVE  Goal
  <2>1. k \in Live(cl)
    BY <1>6, Timed DEF ModeTimeout
  <2>2. /\ cl' = Without(cl, k) /\ sources' = SourcesCleared(sources, k)
        /\ files' = UsbPeerRemove(files, cl[k].peer)
        /\ up' = up /\ cards' = cards /\ power' = power
    BY <1>6 DEF ModeTimeout, ClientLost, Without
  <2>3. fail_run' \in 0 .. Budget + 1
    <3>1. fail_run \in 0 .. Budget + 1 /\ fail_run' = Min({fail_run + 1, Budget + 1})
      BY <1>6 DEF ModeTimeout, SessionInv
    <3> QED
      BY <3>1, FailRun, Numbers
  <2>4. Freed(pool, k, pool') /\ \A i \in DOMAIN pool : pool'[i].card = pool[i].card
    BY <2>1, <1>6, TimeoutPool
  <2> QED
    BY <2>1, <2>2, <2>3, <2>4, GoneKeeps
<1>7. ASSUME NEW k \in Conns, ClientIo(k) \/ LostIdle(k)
      PROVE  Goal
  <2>1. k \in Live(cl)
    BY <1>7, Timed DEF ClientIo, LostIdle
  <2>2. Torn(k) /\ up' = up /\ cards' = cards /\ power' = power /\ fail_run' = fail_run
    BY <1>7 DEF ClientIo, LostIdle
  <2> QED
    BY <2>1, <2>2, TornKeeps
<1>8. ASSUME NEW k \in Conns, Schedule(k)
      PROVE  Goal
  <2>1. k \in Live(cl)
    BY <1>8, Timed DEF Schedule
  <2>2. /\ sources' = sources \cup {<<k, "lost">>}
        /\ UNCHANGED <<up, cl, pool, cards, fail_run, files, power>>
    BY <1>8 DEF Schedule
  <2>3. ASSUME NEW s \in sources'
        PROVE  s \in Conns \X SourceKinds /\ s[1] \in Live(cl)
    <3>1. s \in sources \/ s = <<k, "lost">>
      BY <2>2
    <3> QED
      BY <3>1, <2>1 DEF SessionInv, Books, Kept, Called, SourceKinds
  <2>4. Books(cl', sources', pool')
    BY <2>2, <2>3 DEF SessionInv, Books, Kept, Called
  <2> QED
    BY <2>2, <2>4 DEF SessionInv
<1>9. ASSUME NEW v \in Powers, PowerSave(v)
      PROVE  Goal
  <2>1. power' \in {"on", "save", "unknown"} /\ UNCHANGED <<up, cl, sources, pool, cards, fail_run, files>>
    BY <1>9, SessionAssumption DEF PowerSave
  <2> QED
    BY <2>1 DEF SessionInv
<1>10. ASSUME ShellChange
       PROVE  Goal
  <2>1. /\ fail_run' \in 0 .. Budget + 1
        /\ UNCHANGED <<up, cl, sources, pool, cards, power, files>>
    BY <1>10, Numbers DEF ShellChange
  <2> QED
    BY <2>1 DEF SessionInv
<1>11. ASSUME Crash \/ Shutdown
       PROVE  Goal
  BY <1>11, DownKeeps DEF Crash, Shutdown
<1>12. ASSUME Start
       PROVE  Goal
  <2>1. up' = TRUE /\ files' = {} /\ UNCHANGED <<cl, sources, pool, cards, power, fail_run>> /\ ~up
    BY <1>12 DEF Start
  <2>2. Live(cl') = {}
    BY <2>1 DEF SessionInv
  <2>3. Backed(cl', files') /\ Announced(cl', files')
    BY <2>1, <2>2 DEF Backed, Announced
  <2>4. up' \in BOOLEAN
    BY <2>1
  <2> QED
    BY <2>1, <2>3, <2>4 DEF SessionInv
<1>13. ASSUME UNCHANGED vars
       PROVE  Goal
  BY <1>13 DEF vars, SessionInv
<1> HIDE DEF Goal
<1>14. Goal
  BY <1>1, <1>2, <1>3, <1>4, <1>5, <1>6, <1>7, <1>8, <1>9, <1>10, <1>11, <1>12, <1>13 DEF Next
<1> QED
  BY <1>14 DEF Goal

-----------------------------------------------------------------------------
(* Theorems. *)

LEMMA Established == Spec => []SessionInv
<1>1. Init => SessionInv
  BY SessionInit
<1>2. SessionInv /\ [Next]_vars => SessionInv'
  BY SessionNext
<1> QED
  BY <1>1, <1>2, PTL DEF Spec

\* The tables of the server are well formed: the cards are cards the kernel can
\* number, the pool holds cards that exist, a source belongs to a connection
\* object, and on_listen_ready never takes in more than SREMFB_MAX_CLIENTS.
THEOREM SessionTyped == Spec => []TypeOK
<1>1. SessionInv => TypeOK
  <2> SUFFICES ASSUME SessionInv PROVE TypeOK
    OBVIOUS
  <2>1. Cardinality(Clients) <= MaxClients
    BY ClientsLive DEF SessionInv
  <2> QED
    BY <2>1 DEF SessionInv, TypeOK, Books, Kept, Stocked
<1> QED
  BY <1>1, Established, PTL

\* Whatever way sremfb_client_lost is reached (on_client_io, client_lost_idle,
\* on_mode_timeout, the replacement in on_listen_ready, the end of the process),
\* each client owns one device, no device has an owner that is gone, a machine
\* has one connection, and no GLib source is left for a freed SremfbClient.
THEOREM SessionHoldsTogether == Spec => []NothingDangles
<1>1. SessionInv => NothingDangles
  <2> SUFFICES ASSUME SessionInv PROVE NothingDangles
    OBVIOUS
  <2>1. Owned(cl, pool) /\ Called(cl, sources) /\ OneEach(cl) /\ NoConn \notin Live(cl)
    BY SessionAssumption DEF SessionInv, Books, Live
  <2>2. ASSUME NEW k \in Live(cl)
        PROVE  Cardinality({i \in DOMAIN pool : pool[i].owner = k}) = 1
    <3>1. PICK x \in DOMAIN pool : pool[x].owner = k
      BY <2>1 DEF Owned
    <3>2. {i \in DOMAIN pool : pool[i].owner = k} = {x}
      BY <3>1, <2>1 DEF Owned
    <3> QED
      BY <3>2, FS_Singleton
  <2>3. OwnersAgree
    BY <2>1, <2>2, ClientsLive DEF OwnersAgree, Owned
  <2>4. OnePerMac
    BY <2>1, ClientsLive DEF OnePerMac, OneEach
  <2>5. NoDanglingSource
    BY <2>1, ClientsLive DEF NoDanglingSource, Called
  <2> QED
    BY <2>3, <2>4, <2>5 DEF NothingDangles
<1> QED
  BY <1>1, Established, PTL

\* A file under /run/sremfb that usb_peer_add wrote stands, while the server
\* runs, for a client that streams or is parked, also after a crash
\* (usb_peers_clear) and when the client is replaced before it streams.
THEOREM SessionFilesBacked == Spec => []UsbFileBacked
<1>1. SessionInv => UsbFileBacked
  <2> SUFFICES ASSUME SessionInv, up, NEW f \in files
               PROVE  \E k \in Clients : /\ cl[k].peer.usb /\ cl[k].peer.ip = f
                                         /\ cl[k].state = "STREAMING" \/ cl[k].usb_early
    BY DEF UsbFileBacked
  <2>1. PICK k \in Live(cl) : Due(cl, k) /\ cl[k].peer.ip = f
    BY DEF SessionInv, Backed
  <2> QED
    BY <2>1, ClientsLive DEF Due
<1> QED
  BY <1>1, Established, PTL

\* Where machines with USB devices have a MAC and an address of their own, a
\* client that streams or is parked has its file (usb_peer_add): no teardown of
\* another connection takes it away.  Two machines behind one address are
\* outside: usb_peer_remove of the one removes the file of the other.
THEOREM SessionFilesThere ==
  ASSUME OwnAddress
  PROVE  Spec => []UsbAnnounced
<1>1. Init => SessionInv /\ Announced(cl, files)
  BY SessionInit
<1>2. SessionInv /\ Announced(cl, files) /\ [Next]_vars => (SessionInv /\ Announced(cl, files))'
  BY SessionNext
<1>3. SessionInv /\ Announced(cl, files) => UsbAnnounced
  BY ClientsLive DEF Announced, Due, UsbAnnounced
<1> QED
  BY <1>1, <1>2, <1>3, PTL DEF Spec

=============================================================================
