------------------------------- MODULE Usb -------------------------------
(***************************************************************************)
(* USB teleport from end to end: the client's export of its devices        *)
(* (client/usbexport.c, called from the main loop of sremfb-client.c), the *)
(* peer file the server keeps while the client streams (server/core/       *)
(* session.c) and the root reconciler that makes the vhci ports agree with *)
(* it (systemd/sremfb-usb-attach and its units).                           *)
(*                                                                         *)
(* A device is named by its busid.  Its stub on the client is "held" from  *)
(* the moment a server imports it until the connection is closed: a server *)
(* that dies without detaching leaves it held for a connection that no     *)
(* longer exists, and usbipd announces only stubs that are not held.       *)
(***************************************************************************)
EXTENDS Naturals, Sequences, SequencesExt

CONSTANTS
    Devices,    \* busids of the client
    Excluded,   \* those that are hubs, denied by id, or of no eligible class
    NoDevice,   \* the scan is not about to bind anything
    MaxBound,   \* MAX_BOUND, busids the client remembers having bound
    MaxPlugs,   \* bound: devices plugged in
    MaxMounts,  \* bound: devices the client's own system starts to use
    MaxFaults   \* bound: crashes, restarts, lost links and refused binds

ASSUME UsbAssumption ==
    /\ Excluded \subseteq Devices
    /\ NoDevice \notin Devices
    /\ MaxBound \in Nat \ {0}
    /\ {MaxPlugs, MaxMounts, MaxFaults} \subseteq Nat

VARIABLES
    drv,        \* [Devices -> "out", "usb" or "stub"], the driver that has it
    held,       \* the stubs usbip-host reports as used or in error
    inuse,      \* the devices with a mounted filesystem or an active NIC
    prog,       \* the client program: "off", "idle", "conn" or "stream"
    link,       \* its connection to sremfb-server has both ends
    bound,      \* U.bound, the busids bound by this run of the client
    mine,       \* history: the devices this run of the client has bound
    torn,       \* history: the devices bound while they were in use
    todo,       \* the devices the running scan has still to look at
    cand,       \* the device that has passed the guards, before its bind
    server,     \* "up", "stopping", "detached" or "down"
    peer,       \* /run/sremfb/usb-<ip> is there
    port,       \* the devices imported by a vhci port (sta 6)
    rec,        \* the devices with a record in /var/run/vhci_hcd
    pass,       \* the reconciler: "idle", "purged" or "attach"
    listed,     \* what usbip list has told it and it has not attached yet
    budget      \* [plugs, mounts, faults |-> what the environment may do]

devVars == <<drv, held, inuse>>
progVars == <<prog, link, bound, mine, torn, todo, cand>>
hostVars == <<server, peer, port, rec>>
passVars == <<pass, listed>>
usbVars == <<devVars, progVars, hostVars, passVars, budget>>

UsbTypeOK ==
    /\ drv \in [Devices -> {"out", "usb", "stub"}]
    /\ held \subseteq {d \in Devices : drv[d] = "stub"}
    /\ inuse \subseteq Devices
    /\ prog \in {"off", "idle", "conn", "stream"} /\ link \in BOOLEAN
    /\ bound \in Seq(Devices) /\ Len(bound) <= MaxBound
    /\ mine \subseteq Devices /\ torn \subseteq Devices
    /\ todo \subseteq Devices
    /\ cand \in Devices \cup {NoDevice}
    /\ server \in {"up", "stopping", "detached", "down"}
    /\ peer \in BOOLEAN
    /\ port \subseteq Devices /\ rec \subseteq Devices
    /\ pass \in {"idle", "purged", "attach"}
    /\ listed \subseteq Devices

UsbInit ==
    /\ drv = [d \in Devices |-> "out"]
    /\ held = {} /\ inuse = {}
    /\ prog = "off" /\ link = FALSE /\ bound = <<>> /\ mine = {} /\ torn = {} /\ todo = {} /\ cand = NoDevice
    /\ server = "up" /\ peer = FALSE /\ port = {} /\ rec = {}
    /\ pass = "idle" /\ listed = {}
    /\ budget = [plugs |-> MaxPlugs, mounts |-> MaxMounts, faults |-> MaxFaults]

Allowed(what) ==
    /\ budget[what] > 0
    /\ budget' = [budget EXCEPT ![what] = @ - 1]

----------------------------------------------------------------------------
(* The client: usbexport.c                                                *)

\* hubs, the built-in and configured deny lists, an active NIC, a mount
PolicyExcluded(d) == d \in Excluded \/ d \in inuse

\* the single-threaded client is between two calls of scan_and_bind
ScanDone == todo = {} /\ cand = NoDevice

\* usb_export_init: the policy is read and everything present is scanned
UsbExportInit ==
    /\ prog = "off"
    /\ prog' = "idle" /\ bound' = <<>> /\ mine' = {}
    /\ todo' = Devices /\ cand' = NoDevice
    /\ UNCHANGED <<devVars, link, torn, hostVars, passVars, budget>>

\* usb_export_tick, every two seconds of the frame loop
UsbExportTick ==
    /\ prog = "stream" /\ ScanDone
    /\ todo' = Devices
    /\ UNCHANGED <<devVars, prog, link, bound, mine, torn, cand, hostVars, passVars, budget>>

\* One turn of scan_and_bind's loop, up to the bind: a device on usbip-host is
\* skipped, and so is one that the policy excludes.
ScanLook(d) ==
    /\ prog # "off" /\ cand = NoDevice /\ d \in todo
    /\ todo' = todo \ {d}
    /\ cand' = IF drv[d] = "usb" /\ ~PolicyExcluded(d) THEN d ELSE NoDevice
    /\ UNCHANGED <<devVars, prog, link, bound, mine, torn, hostVars, passVars, budget>>

\* The list of what was bound, as long as there is room for one more
Remember(d) == IF Len(bound) < MaxBound THEN Append(bound, d) ELSE bound

\* bind_device succeeds: the generic driver loses the device to usbip-host, and
\* with it go the disk or interface through which it was used
BindDevice ==
    /\ prog # "off" /\ cand # NoDevice
    /\ drv[cand] = "usb"
    /\ drv' = [drv EXCEPT ![cand] = "stub"]
    /\ bound' = Remember(cand)
    /\ mine' = mine \cup {cand}
    /\ torn' = torn \cup (inuse \cap {cand}) /\ inuse' = inuse \ {cand}
    /\ cand' = NoDevice
    /\ UNCHANGED <<held, prog, link, todo, hostVars, passVars, budget>>

\* bind_device fails and puts everything back: the device has been pulled out
\* since the guards looked at it, or the kernel refuses
BindFails ==
    /\ prog # "off" /\ cand # NoDevice
    /\ IF drv[cand] = "out" THEN UNCHANGED budget ELSE Allowed("faults")
    /\ cand' = NoDevice
    /\ UNCHANGED <<devVars, prog, link, bound, mine, torn, todo, hostVars, passVars>>

\* main loop: the TCP connection to the server is there
TcpConnect ==
    /\ prog = "idle" /\ ScanDone /\ server = "up"
    /\ prog' = "conn" /\ link' = TRUE
    /\ UNCHANGED <<devVars, bound, mine, torn, todo, cand, hostVars, passVars, budget>>

\* Mutant: stubs are taken as they are.
OrphanedNone == {}

\* the stubs usb_export_reclaim gives back: held, and not left to whoever bound
\* a device the policy excludes
Orphaned == {d \in held : ~PolicyExcluded(d)}

\* usb_export_reclaim, then hello_exchange, which fails on a dead connection; on
\* the server the peer file of the client that streams from now on
ReclaimHello ==
    /\ prog = "conn"
    /\ held' = held \ Orphaned
    /\ prog' = IF link THEN "stream" ELSE "idle"
    /\ peer' = (peer \/ link)
    /\ UNCHANGED <<drv, inuse, link, bound, mine, torn, todo, cand,
                   server, port, rec, passVars, budget>>

\* the connection is lost on the way, or the server drops the client
LinkLost ==
    /\ link
    /\ Allowed("faults")
    /\ link' = FALSE
    /\ UNCHANGED <<devVars, prog, bound, mine, torn, todo, cand, hostVars, passVars>>

\* The frame loop ends on an error or after six seconds of silence, and the
\* client goes back to its connect loop
Disconnect ==
    /\ prog = "stream" /\ ScanDone /\ ~link
    /\ prog' = "idle"
    /\ UNCHANGED <<devVars, link, bound, mine, torn, todo, cand, hostVars, passVars, budget>>

\* usb_export_stop: every busid of the list is given back
UsbExportStop ==
    /\ prog \in {"idle", "stream"} /\ ScanDone
    /\ Allowed("faults")
    /\ LET back == {d \in ToSet(bound) : drv[d] = "stub"}
       IN  /\ drv' = [d \in Devices |-> IF d \in back THEN "usb" ELSE drv[d]]
           /\ held' = held \ back
    /\ prog' = "off" /\ link' = FALSE /\ bound' = <<>>
    /\ UNCHANGED <<inuse, mine, torn, todo, cand, hostVars, passVars>>

\* the client dies: its stubs stay with usbip-host, the list is lost
ClientDies ==
    /\ prog # "off"
    /\ Allowed("faults")
    /\ prog' = "off" /\ link' = FALSE /\ bound' = <<>> /\ mine' = {} /\ todo' = {} /\ cand' = NoDevice
    /\ UNCHANGED <<devVars, torn, hostVars, passVars>>

----------------------------------------------------------------------------
(* The server's peer file and the vhci ports                              *)

\* sremfb_client_lost: the server notices that the client has gone
PeerGone ==
    /\ server = "up" /\ peer /\ ~(prog = "stream" /\ link)
    /\ peer' = FALSE
    /\ UNCHANGED <<devVars, progVars, server, port, rec, passVars, budget>>

\* vhci-hcd (external): a port whose connection the client has closed goes down
PortDown(d) ==
    /\ d \in port \ held
    /\ port' = port \ {d}
    /\ UNCHANGED <<devVars, progVars, server, peer, rec, passVars, budget>>

\* Mutant: the records go, the ports stay.
PurgeRecordsOnly ==
    /\ server = "up" /\ pass = "idle"
    /\ rec' = IF peer THEN rec ELSE {}
    /\ pass' = "purged"
    /\ UNCHANGED <<devVars, progVars, server, peer, port, listed, budget>>

\* The reconciler's first loop: records of ports that are down are dropped, and
\* ports whose peer has gone are detached, which closes their connection.  The
\* script does nothing while the system is stopping.
ReconcilePurge ==
    /\ server = "up" /\ pass = "idle"
    /\ LET detach == IF peer THEN {} ELSE rec \cap port
       IN  /\ port' = port \ detach
           /\ rec' = (rec \cap port) \ detach
           /\ held' = held \ detach
    /\ pass' = "purged"
    /\ UNCHANGED <<drv, inuse, progVars, server, peer, listed, budget>>

\* usbip list -r <ip>: usbipd announces the stubs nobody holds
ReconcileList ==
    /\ pass = "purged"
    /\ listed' = IF peer THEN {d \in Devices : drv[d] = "stub" /\ d \notin held}
                         ELSE {}
    /\ pass' = "attach"
    /\ UNCHANGED <<devVars, progVars, hostVars, budget>>

\* one busid of the list: nothing to do when it has a record, or the import
\* fails because the stub has gone or is held by now
ReconcileAttach(d) ==
    /\ pass = "attach" /\ d \in listed
    /\ listed' = listed \ {d}
    /\ IF d \notin rec /\ drv[d] = "stub" /\ d \notin held
       THEN /\ port' = port \cup {d} /\ rec' = rec \cup {d} /\ held' = held \cup {d}
       ELSE UNCHANGED <<port, rec, held>>
    /\ UNCHANGED <<drv, inuse, progVars, server, peer, pass, budget>>

ReconcileEnd ==
    /\ pass = "attach" /\ listed = {}
    /\ pass' = "idle"
    /\ UNCHANGED <<devVars, progVars, hostVars, listed, budget>>

\* Mutant: a pass that is under way goes on.
ShutdownMidPass ==
    /\ server = "up"
    /\ Allowed("faults")
    /\ server' = "stopping" /\ peer' = FALSE /\ link' = FALSE
    /\ UNCHANGED <<devVars, prog, bound, mine, torn, todo, cand, port, rec, passVars>>

\* The system is shut down: sremfb-usb.service is stopped first, a pass that is
\* under way with it ...
ShutdownBegins ==
    /\ server = "up"
    /\ Allowed("faults")
    /\ server' = "stopping" /\ peer' = FALSE /\ link' = FALSE
    /\ pass' = "idle" /\ listed' = {}
    /\ UNCHANGED <<devVars, prog, bound, mine, torn, todo, cand, port, rec>>

\* ... then sremfb-usb-detach.service detaches every port that has a record ...
DetachAll ==
    /\ server = "stopping"
    /\ server' = "detached"
    /\ port' = port \ rec /\ rec' = {}
    /\ held' = held \ (port \cap rec)
    /\ UNCHANGED <<drv, inuse, progVars, peer, passVars, budget>>

\* ... and the network goes.  /run, and with it the records, is lost.
NetworkCut ==
    /\ server = "detached"
    /\ server' = "down"
    /\ peer' = FALSE /\ link' = FALSE /\ port' = {} /\ rec' = {} /\ pass' = "idle" /\ listed' = {}
    /\ UNCHANGED <<devVars, prog, bound, mine, torn, todo, cand, budget>>

\* the machine dies without detaching: the stubs are held for nobody
HostDies ==
    /\ server \in {"up", "stopping", "detached"}
    /\ Allowed("faults")
    /\ server' = "down"
    /\ peer' = FALSE /\ link' = FALSE /\ port' = {} /\ rec' = {} /\ pass' = "idle" /\ listed' = {}
    /\ UNCHANGED <<devVars, prog, bound, mine, torn, todo, cand>>

HostBoots ==
    /\ server = "down"
    /\ server' = "up"
    /\ UNCHANGED <<devVars, progVars, peer, port, rec, passVars, budget>>

\* sremfb-server alone is restarted: usb_peers_clear drops every peer file
ServerRestarts ==
    /\ server = "up"
    /\ Allowed("faults")
    /\ peer' = FALSE /\ link' = FALSE
    /\ UNCHANGED <<devVars, prog, bound, mine, torn, todo, cand, server, port, rec, passVars>>

----------------------------------------------------------------------------
(* The client's machine (external)                                        *)

Plug(d) ==
    /\ drv[d] = "out"
    /\ Allowed("plugs")
    /\ drv' = [drv EXCEPT ![d] = "usb"]
    /\ UNCHANGED <<held, inuse, progVars, hostVars, passVars>>

Unplug(d) ==
    /\ drv[d] # "out"
    /\ drv' = [drv EXCEPT ![d] = "out"]
    /\ held' = held \ {d} /\ inuse' = inuse \ {d}
    /\ UNCHANGED <<progVars, hostVars, passVars, budget>>

Mount(d) ==
    /\ drv[d] = "usb" /\ d \notin inuse
    /\ Allowed("mounts")
    /\ inuse' = inuse \cup {d}
    /\ UNCHANGED <<drv, held, progVars, hostVars, passVars>>

Unmount(d) ==
    /\ d \in inuse
    /\ inuse' = inuse \ {d}
    /\ UNCHANGED <<drv, held, progVars, hostVars, passVars, budget>>

----------------------------------------------------------------------------
ScanStep == BindDevice \/ BindFails \/ \E d \in Devices : ScanLook(d)
PassStep ==
    \/ ReconcilePurge \/ ReconcileList \/ ReconcileEnd
    \/ \E d \in Devices : ReconcileAttach(d)
HostStep == ShutdownBegins \/ DetachAll \/ NetworkCut \/ HostDies \/ HostBoots
            \/ ServerRestarts
EnvStep == \E d \in Devices : Plug(d) \/ Unplug(d) \/ Mount(d) \/ Unmount(d)

UsbNext ==
    \/ UsbExportInit \/ UsbExportTick \/ ScanStep
    \/ TcpConnect \/ ReclaimHello \/ LinkLost \/ Disconnect \/ UsbExportStop \/ ClientDies
    \/ PeerGone \/ (\E d \in Devices : PortDown(d))
    \/ PassStep \/ HostStep \/ EnvStep

(* The client's loop and its two-second tick keep turning and every turn of  *)
(* it looks at the connection (hence SF of Disconnect), the server's        *)
(* machine comes back, a closed connection is noticed at the other end, and *)
(* the 15 s timer keeps starting passes of the reconciler, each of which    *)
(* runs to its end.  Nothing is assumed of users, mounts and faults.        *)
UsbFairness ==
    /\ WF_usbVars(ScanStep) /\ WF_usbVars(UsbExportTick)
    /\ WF_usbVars(TcpConnect) /\ WF_usbVars(ReclaimHello)
    /\ SF_usbVars(Disconnect)
    /\ WF_usbVars(PeerGone) /\ WF_usbVars(PassStep)
    /\ WF_usbVars(DetachAll) /\ WF_usbVars(NetworkCut) /\ WF_usbVars(HostBoots)
    /\ \A d \in Devices : WF_usbVars(PortDown(d))

UsbSpec == UsbInit /\ [][UsbNext]_usbVars /\ UsbFairness

----------------------------------------------------------------------------
(* A clean shutdown leaves no stub held for a dead connection: once        *)
(* --detach-all has run, nothing imports a device again before the network *)
(* goes, whatever pass of the reconciler was under way or is triggered     *)
(* meanwhile by the timer or by the peer files being removed.              *)
CleanShutdown == server = "detached" => port = {}

(* Teleport: once faults have stopped, every eligible device that stays    *)
(* plugged and unused while its client streams ends up imported by the     *)
(* server over a connection that is alive - after a server that died       *)
(* without detaching, a client killed and restarted, a link lost and found *)
(* again, in any order and at any moment of a scan or of a pass.           *)
Wanted(d) ==
    /\ d \notin Excluded /\ d \notin inuse /\ drv[d] # "out"
    /\ prog = "stream" /\ server = "up"
Teleported == \A d \in Devices : <>[](Wanted(d) => d \in port \cap held)

(* The other half of the reconciler's promise: a port whose client has     *)
(* gone does not stay attached.                                            *)
Detached == \A d \in Devices : <>[](server = "up" /\ ~peer => d \notin port)

(* usb_export_stop gives back every device this run of the client bound.   *)
GivenBack == prog = "off" => \A d \in mine : drv[d] # "stub"

(* A device that the client's own system uses is never taken from it: the  *)
(* comment of the guards says they always win.                             *)
InUseUntouched == torn = {}
=============================================================================
