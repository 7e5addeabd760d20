------------------------------- MODULE Session -------------------------------
(***************************************************************************)
(* Client lifecycle: server/core/session.c (accept, replacement, teardown, *)
(* USB peer files) with the device pool, the mode timer and the self-heal  *)
(* of server/evdi/evdi.c.  The plug gate is left open or closed at will    *)
(* here (PlugGate computes it); what a streaming client sends is Xmit.     *)
(*                                                                         *)
(* One action is one callback of the GLib loop.                            *)
(***************************************************************************)
EXTENDS Integers, Sequences, FiniteSetsExt

CONSTANTS
  Conns,         \* connection objects: addresses g_new0(SremfbClient) returns
  Peers,         \* the hellos that may arrive: [mac, ip, usb]
  ZeroMac,       \* the MAC a client sends when it has none
  MaxClients,    \* SREMFB_MAX_CLIENTS
  Budget,        \* SELFHEAL_BUDGET
  BootCards,     \* evdi cards at start
  Busy,          \* cards flocked by another process
  MaxCards,      \* bound on card numbers, the kernel's limit on devices
  Powers,        \* the values PowerSaveMode takes: "on", "save", "unknown"
  Graceful,      \* intervals of the mode timer since a power save that are grace
  GraceUnknown,  \* the same while mutter does not answer
  MaxCrashes     \* bound on crashes of the server

NoConn == "none"

ASSUME SessionAssumption ==
  /\ {MaxClients, Budget, MaxCards, Graceful, GraceUnknown, MaxCrashes} \subseteq Nat
  /\ 1 <= Graceful /\ Graceful <= GraceUnknown
  /\ IsFiniteSet(Conns) /\ NoConn \notin Conns
  /\ BootCards \subseteq 1 .. MaxCards /\ Busy \subseteq BootCards
  /\ Powers \subseteq {"on", "save", "unknown"}

VARIABLES
  up,            \* the server process runs
  cl,            \* srv->clients, by connection object
  sources,       \* GLib sources that will call back with a connection object
  pool,          \* EVS(srv)->devices
  cards,         \* evdi cards the kernel has, dead placeholders apart
  wedge_seen,
  fail_run,      \* failures since the last lit connector, up to Budget + 1
  files,         \* /run/sremfb/usb-<ip>
  power,         \* mutter's PowerSaveMode
  crashes        \* bound only

vars == <<up, cl, sources, pool, cards, wedge_seen, fail_run, files, power, crashes>>

\* quiet: intervals of the mode timer since a tick saw power save; Never: none
\* did, or longer ago than any grace.
Never == GraceUnknown + 1

NoClient == [state |-> "FREE"]

Clients == {k \in Conns : cl[k].state # "FREE"}

Waiting(k) == cl[k].state = "MODE_WAIT"

\* A source is in sources when it may be armed.  out: the sources of the
\* transmit path, which sremfb_xmit_reset clears, and the kick of the next
\* update; a streaming client arms and disarms them all the time.
SourceKinds == {"io", "lost", "mode_timer", "out", "ping"}

(***************************************************************************)
(* USB peer files, keyed by the address of the peer.                       *)
(***************************************************************************)
UsbPeerAdd(fs, p) == IF p.usb THEN fs \cup {p.ip} ELSE fs

UsbPeerRemove(fs, p) == IF p.usb THEN fs \ {p.ip} ELSE fs

(***************************************************************************)
(* Teardown: the state sremfb_client_lost leaves behind.                   *)
(***************************************************************************)
\* Mutant: the device keeps its owner.
PoolReleaseKeeps(devs, k) == devs

PoolRelease(devs, k) ==
  [i \in DOMAIN devs |->
     IF devs[i].owner = k THEN [devs[i] EXCEPT !.owner = NoConn] ELSE devs[i]]

\* lost_id and watch_id here, out_* in sremfb_xmit_reset, the ping timer in
\* sremfb_ctl_stop, the mode timer in sremfb_evdi_unplug.
SourcesCleared(ss, k) == {s \in ss : s[1] # k}

ClientLost(k) ==
  [cl |-> [cl EXCEPT ![k] = NoClient],
   sources |-> SourcesCleared(sources, k),
   pool |-> PoolRelease(pool, k),
   files |-> UsbPeerRemove(files, cl[k].peer)]

Torn(k) ==
  /\ cl' = ClientLost(k).cl
  /\ sources' = ClientLost(k).sources
  /\ pool' = ClientLost(k).pool
  /\ files' = ClientLost(k).files

(***************************************************************************)
(* Devices.                                                                *)
(***************************************************************************)
\* What acquire_pooled may hand out; it takes the first.
FreeInPool(devs, suspects) ==
  {i \in DOMAIN devs : devs[i].owner = NoConn /\ (devs[i].suspect => suspects)}

Pooled(devs, k, suspects) ==
  [devs EXCEPT ![Min(FreeInPool(devs, suspects))].owner = k]

\* acquire_card: our own cards and other processes' are flocked.
Openable(devs, existing) ==
  (existing \ Busy) \ {devs[i].card : i \in DOMAIN devs}

Opened(devs, k, card) ==
  Append(devs, [card |-> card, owner |-> k, suspect |-> FALSE])

\* acquire_card over the cards in turn, else a quarantined device.  A card may
\* refuse to open, now or always, so any of them may be the first that does.
AcquireExisting(devs, k, existing) ==
  {[ok |-> TRUE, cards |-> existing, pool |-> Opened(devs, k, n)] :
      n \in Openable(devs, existing)}
  \cup {[ok |-> FreeInPool(devs, TRUE) # {}, cards |-> existing,
         pool |-> IF FreeInPool(devs, TRUE) # {} THEN Pooled(devs, k, TRUE) ELSE devs]}

\* self_heal_add: nothing once the budget is spent.  evdi_add_usable may make
\* many cards, but leaves at most one that is not a dead placeholder.
SelfHeal(existing) ==
  IF fail_run <= Budget /\ (1 .. MaxCards) \ existing # {}
  THEN {{}, {Min((1 .. MaxCards) \ existing)}} ELSE {{}}

\* sremfb_evdi_acquire on the pool devs.
Acquire(devs, k) ==
  IF FreeInPool(devs, FALSE) # {}
  THEN {[ok |-> TRUE, cards |-> cards, pool |-> Pooled(devs, k, FALSE)]}
  ELSE UNION {AcquireExisting(devs, k, cards \cup new) :
                new \in IF wedge_seen THEN SelfHeal(cards) ELSE {{}}}

(***************************************************************************)
(* on_listen_ready.                                                        *)
(***************************************************************************)
\* The connection a hello with this MAC replaces.
Replaced(p) ==
  {k \in Clients : p.mac # ZeroMac /\ cl[k].peer.mac = p.mac}

\* srv, once the replaced connection is torn down.
AfterReplace(p) ==
  IF Replaced(p) = {}
  THEN [cl |-> cl, sources |-> sources, pool |-> pool, files |-> files]
  ELSE ClientLost(CHOOSE k \in Replaced(p) : TRUE)

HasRoom(s) == Cardinality({j \in Conns : s.cl[j].state # "FREE"}) < MaxClients

\* SREMFB_MAX_CLIENTS are connected, or the gate is closed: the hello is
\* answered with a status, the replaced connection is gone all the same.
RefuseEarly(p) ==
  LET s == AfterReplace(p)
  IN  /\ up
      /\ cl' = s.cl /\ sources' = s.sources /\ pool' = s.pool
      /\ files' = s.files
      /\ UNCHANGED <<up, cards, wedge_seen, fail_run, power, crashes>>

\* No device could be acquired for the new object k, which is freed again.
RefuseNoDevice(p, k) ==
  LET s == AfterReplace(p)
  IN  /\ up
      /\ s.cl[k].state = "FREE"
      /\ HasRoom(s)
      /\ \E a \in Acquire(s.pool, k) :
           /\ ~a.ok
           /\ cards' = a.cards
      /\ cl' = s.cl /\ sources' = s.sources /\ pool' = s.pool
      /\ files' = s.files
      /\ UNCHANGED <<up, wedge_seen, fail_run, power, crashes>>

\* The client is taken in: a device, the EDID plug and the mode timer.
Accept(p, k) ==
  LET s == AfterReplace(p)
  IN  /\ up
      /\ s.cl[k].state = "FREE"
      /\ HasRoom(s)
      /\ \E a \in Acquire(s.pool, k) :
           /\ a.ok
           /\ pool' = a.pool /\ cards' = a.cards
      /\ cl' = [s.cl EXCEPT ![k] =
                  [state |-> "MODE_WAIT", peer |-> p, quiet |-> Never,
                   usb_early |-> FALSE]]
      /\ sources' = s.sources \cup {<<k, "mode_timer">>, <<k, "io">>}
      /\ files' = s.files
      /\ UNCHANGED <<up, wedge_seen, fail_run, power, crashes>>

(***************************************************************************)
(* Callbacks of a client.                                                  *)
(***************************************************************************)
\* Mutant: nothing is announced while the compositor sleeps.
AnnounceAwake(k) ==
  IF cl[k].usb_early \/ power # "on" THEN files
  ELSE UsbPeerAdd(files, cl[k].peer)

\* The peer file is written once: when parked, else when streaming.
Announce(k) ==
  IF cl[k].usb_early THEN files ELSE UsbPeerAdd(files, cl[k].peer)

\* on_mode_changed of a waiting client: hello, ping timer, plug_lit.
ModeChanged(k) ==
  /\ Waiting(k)
  /\ cl' = [cl EXCEPT ![k].state = "STREAMING"]
  /\ sources' = (sources \ {<<k, "mode_timer">>})
                  \cup {<<k, "out">>, <<k, "ping">>}
  /\ pool' = [i \in DOMAIN pool |->
                IF pool[i].owner = k THEN [pool[i] EXCEPT !.suspect = FALSE]
                ELSE pool[i]]
  /\ files' = Announce(k)
  /\ fail_run' = 0
  /\ UNCHANGED <<up, cards, wedge_seen, power, crashes>>

\* Mutant: a compositor that does not answer is waited for without end.
ParksUnanswered(quiet) == power # "on" \/ quiet <= Graceful

\* sremfb_mode_wait_verdict, quiet counting the present tick.
Parks(quiet) ==
  \/ power = "save"
  \/ power = "unknown" /\ quiet <= GraceUnknown
  \/ power = "on" /\ quiet <= Graceful

\* The time since power save was seen, at this tick: at least one interval
\* more than at the last, and as much more as the loop was kept busy (an accept
\* sleeps in evdi_add_usable).
Quiets(k) ==
  IF power = "save" THEN {0} ELSE {q \in 1 .. Never : q > cl[k].quiet \/ q = Never}

\* on_mode_timeout, parked: the USB devices are announced, once.
Park(k) ==
  /\ <<k, "mode_timer">> \in sources
  /\ \E q \in Quiets(k) :
       Parks(q) /\ cl' = [cl EXCEPT ![k].quiet = q, ![k].usb_early = TRUE]
  /\ files' = Announce(k)
  /\ UNCHANGED <<up, sources, pool, cards, wedge_seen, fail_run, power, crashes>>

\* on_mode_timeout, failed: quarantine, then the teardown.
ModeTimeout(k) ==
  /\ <<k, "mode_timer">> \in sources
  /\ \E q \in Quiets(k) : ~Parks(q)
  /\ wedge_seen' = TRUE
  /\ fail_run' = Min({fail_run + 1, Budget + 1})
  /\ cl' = ClientLost(k).cl /\ sources' = ClientLost(k).sources
  /\ files' = ClientLost(k).files
  /\ pool' = [i \in DOMAIN pool |->
                IF pool[i].owner = k
                THEN [pool[i] EXCEPT !.suspect = TRUE, !.owner = NoConn]
                ELSE pool[i]]
  /\ UNCHANGED <<up, cards, power, crashes>>

\* on_client_io: EOF or an error on the socket.
ClientIo(k) ==
  /\ <<k, "io">> \in sources
  /\ Torn(k)
  /\ UNCHANGED <<up, cards, wedge_seen, fail_run, power, crashes>>

\* sremfb_schedule_client_lost: a failed send, the ping watchdog, garbage
\* upstream.
Schedule(k) ==
  /\ \E s \in {"out", "ping", "io"} : <<k, s>> \in sources
  /\ sources' = sources \cup {<<k, "lost">>}
  /\ UNCHANGED <<up, cl, pool, cards, wedge_seen, fail_run, files, power, crashes>>

\* client_lost_idle.
LostIdle(k) ==
  /\ <<k, "lost">> \in sources
  /\ Torn(k)
  /\ UNCHANGED <<up, cards, wedge_seen, fail_run, power, crashes>>

(***************************************************************************)
(* The compositor and the process.                                         *)
(***************************************************************************)
PowerSave(v) ==
  /\ power # v
  /\ power' = v
  /\ UNCHANGED <<up, cl, sources, pool, cards, wedge_seen, fail_run, files, crashes>>

\* Another gnome-shell: plug_prune forgets the failures of the last one.
ShellChange ==
  /\ up /\ fail_run # 0
  /\ fail_run' = 0
  /\ UNCHANGED <<up, cl, sources, pool, cards, wedge_seen, files, power, crashes>>

\* Everything the process held goes; cards and peer files stay.
Gone ==
  /\ up' = FALSE
  /\ cl' = [k \in Conns |-> NoClient]
  /\ sources' = {}
  /\ pool' = <<>>
  /\ wedge_seen' = FALSE /\ fail_run' = 0
  /\ UNCHANGED <<cards, power>>

Crash ==
  /\ up /\ crashes < MaxCrashes
  /\ crashes' = crashes + 1
  /\ Gone
  /\ UNCHANGED files

\* SIGTERM: sremfb_serve tears every client down, then the devices close.
Shutdown ==
  /\ up /\ crashes < MaxCrashes
  /\ crashes' = crashes + 1
  /\ Gone
  /\ files' = files \ {cl[k].peer.ip : k \in {j \in Clients : cl[j].peer.usb}}

\* Mutant: stale peer files are kept.
StartKeeps ==
  /\ ~up
  /\ up' = TRUE
  /\ UNCHANGED <<cl, sources, pool, cards, wedge_seen, fail_run, files, power, crashes>>

\* sremfb_serve: usb_peers_clear, then listen.
Start ==
  /\ ~up
  /\ up' = TRUE
  /\ files' = {}
  /\ UNCHANGED <<cl, sources, pool, cards, wedge_seen, fail_run, power, crashes>>

Init ==
  /\ up = TRUE
  /\ cl = [k \in Conns |-> NoClient]
  /\ sources = {}
  /\ pool = <<>>
  /\ cards = BootCards
  /\ wedge_seen = FALSE
  /\ fail_run = 0
  /\ files = {}
  /\ power = "on"
  /\ crashes = 0

Next ==
  \/ \E p \in Peers :
       \/ RefuseEarly(p)
       \/ \E k \in Conns : Accept(p, k) \/ RefuseNoDevice(p, k)
  \/ \E k \in Conns :
       \/ ModeChanged(k)
       \/ Park(k)
       \/ ModeTimeout(k)
       \/ ClientIo(k)
       \/ Schedule(k)
       \/ LostIdle(k)
  \/ \E v \in Powers : PowerSave(v)
  \/ ShellChange
  \/ Crash
  \/ Shutdown
  \/ Start

Spec == Init /\ [][Next]_vars

\* The mode timer and the idle source run; nothing is assumed of clients or
\* of the compositor.
Fairness ==
  /\ \A k \in Conns : WF_vars(Park(k) \/ ModeTimeout(k))
  /\ \A k \in Conns : WF_vars(LostIdle(k))
  /\ WF_vars(Start)

FairSpec == Spec /\ Fairness

(***************************************************************************)
(* Properties.                                                             *)
(***************************************************************************)
TypeOK ==
  /\ cards \subseteq 1 .. MaxCards
  /\ fail_run \in 0 .. Budget + 1
  /\ sources \subseteq Conns \X SourceKinds
  /\ Cardinality(Clients) <= MaxClients
  /\ \A i \in DOMAIN pool : pool[i].card \in cards

\* dev->owner and EV(c)->dev agree through every replacement, timeout and
\* teardown: each connected client owns exactly one device, a free object none.
OwnersAgree ==
  /\ \A k \in Clients : Cardinality({i \in DOMAIN pool : pool[i].owner = k}) = 1
  /\ \A i \in DOMAIN pool : pool[i].owner # NoConn => pool[i].owner \in Clients

\* No source outlives its client (g_free at the end of sremfb_client_lost): a
\* callback never runs on freed memory or on the object's next user.
NoDanglingSource == \A s \in sources : s[1] \in Clients

\* One connection per client machine (find_client_by_mac).
OnePerMac ==
  \A j, k \in Clients :
    cl[j].peer.mac = cl[k].peer.mac /\ j # k => cl[j].peer.mac = ZeroMac

\* Clients, devices and MACs agree on who owns what, and no source calls back
\* with a connection that is gone, whatever way sremfb_client_lost was reached.
NothingDangles == OwnersAgree /\ OnePerMac /\ NoDanglingSource

\* While the server runs, a peer file stands for a client that streams or is
\* parked (session.c), also after a crash left files behind.
UsbFileBacked ==
  up => \A f \in files : \E k \in Clients :
          /\ cl[k].peer.usb /\ cl[k].peer.ip = f
          /\ cl[k].state = "STREAMING" \/ cl[k].usb_early

\* A client with USB devices that streams, or is parked in power save, has its
\* peer file ("materializes this client is streaming", session.c).
UsbAnnounced ==
  \A k \in Clients :
    cl[k].peer.usb /\ (cl[k].state = "STREAMING" \/ cl[k].usb_early) =>
      cl[k].peer.ip \in files

\* Nobody waits forever on a compositor that is awake: a waiting client ends
\* up streaming or gone unless power save comes back again and again.
Answered ==
  \A k \in Conns :
    <>[](power # "save") => []<>(~Waiting(k))

\* What evdi.h says of the mode timer, and the code does not keep when a tick
\* comes late: a session that just woke up gets its grace, so a client whose
\* last tick saw power save is not failed at the next one.
GraceGiven ==
  [][\A k \in Conns : ModeTimeout(k) => cl[k].quiet # 0]_vars

=============================================================================
