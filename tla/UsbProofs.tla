----------------------------- MODULE UsbProofs -----------------------------
(***************************************************************************)
(* Theorems on Usb: its types, with the two that relate client and server  *)
(* (a held device is a stub, the list of bound devices has its places),    *)
(* and that a clean shutdown leaves nothing imported.                      *)
(***************************************************************************)
EXTENDS Usb, SequenceTheorems, TLAPS

-----------------------------------------------------------------------------
(* Types. *)

\* scan_and_bind remembers a busid only while the list has a place for it.
LEMMA BoundGrows ==
    ASSUME UsbTypeOK, NEW d \in Devices
    PROVE  Remember(d) \in Seq(Devices) /\ Len(Remember(d)) <= MaxBound
<1> USE UsbAssumption
<1>1. CASE Len(bound) < MaxBound
  <2>1. Remember(d) = Append(bound, d)
    BY <1>1 DEF Remember
  <2>2. bound \in Seq(Devices)
    BY DEF UsbTypeOK
  <2>3. Append(bound, d) \in Seq(Devices) /\ Len(Append(bound, d)) = Len(bound) + 1
    BY <2>2, AppendProperties
  <2>4. Len(bound) \in Nat
    BY <2>2, LenProperties
  <2> QED BY <1>1, <2>1, <2>3, <2>4
<1>2. CASE ~(Len(bound) < MaxBound)
  BY <1>2 DEF Remember, UsbTypeOK
<1> QED BY <1>1, <1>2

LEMMA EmptyBound == <<>> \in Seq(Devices) /\ Len(<<>>) <= MaxBound
BY UsbAssumption

\* The client's steps.
LEMMA ClientTyped ==
    ASSUME UsbTypeOK,
           \/ UsbExportInit \/ UsbExportTick \/ ScanStep \/ TcpConnect
           \/ ReclaimHello \/ LinkLost \/ Disconnect \/ UsbExportStop \/ ClientDies
    PROVE  UsbTypeOK'
<1> USE UsbAssumption
<1>1. CASE UsbExportInit
  BY <1>1, EmptyBound DEF UsbTypeOK, UsbExportInit, devVars, hostVars, passVars
<1>2. CASE UsbExportTick
  BY <1>2 DEF UsbTypeOK, UsbExportTick, devVars, hostVars, passVars
<1>3. CASE BindDevice
  <2>1. cand \in Devices
    BY <1>3 DEF BindDevice, UsbTypeOK
  <2>2. bound' \in Seq(Devices) /\ Len(bound') <= MaxBound
    BY <1>3, <2>1, BoundGrows DEF BindDevice
  <2>3. drv' \in [Devices -> {"out", "usb", "stub"}]
    BY <1>3 DEF BindDevice, UsbTypeOK
  <2>4. held' \subseteq {d \in Devices : drv'[d] = "stub"}
    BY <1>3 DEF BindDevice, UsbTypeOK
  <2> QED BY <1>3, <2>1, <2>2, <2>3, <2>4 DEF UsbTypeOK, BindDevice, hostVars, passVars
<1>4. CASE BindFails
  BY <1>4 DEF UsbTypeOK, BindFails, devVars, hostVars, passVars
<1>5. ASSUME NEW d \in Devices, ScanLook(d)
      PROVE  UsbTypeOK'
  BY <1>5 DEF UsbTypeOK, ScanLook, devVars, hostVars, passVars
<1>6. CASE TcpConnect
  BY <1>6 DEF UsbTypeOK, TcpConnect, devVars, hostVars, passVars
<1>7. CASE ReclaimHello
  <2>1. peer' \in BOOLEAN /\ prog' \in {"off", "idle", "conn", "stream"}
    BY <1>7 DEF ReclaimHello, UsbTypeOK
  <2>2. held' \subseteq held
    BY <1>7 DEF ReclaimHello
  <2> QED BY <1>7, <2>1, <2>2 DEF UsbTypeOK, ReclaimHello, passVars
<1>8. CASE LinkLost
  BY <1>8 DEF UsbTypeOK, LinkLost, devVars, hostVars, passVars
<1>9. CASE Disconnect
  BY <1>9 DEF UsbTypeOK, Disconnect, devVars, hostVars, passVars
<1>10. CASE UsbExportStop
  <2> DEFINE back == {d \in ToSet(bound) : drv[d] = "stub"}
  <2>1. /\ drv' = [d \in Devices |-> IF d \in back THEN "usb" ELSE drv[d]]
        /\ held' = held \ back
    BY <1>10 DEF UsbExportStop
  <2>2. drv' \in [Devices -> {"out", "usb", "stub"}]
    BY <2>1 DEF UsbTypeOK
  <2>3. held' \subseteq {d \in Devices : drv'[d] = "stub"}
    BY <2>1 DEF UsbTypeOK
  <2> HIDE DEF back
  <2> QED BY <1>10, <2>2, <2>3, EmptyBound DEF UsbTypeOK, UsbExportStop, hostVars, passVars
<1>11. CASE ClientDies
  BY <1>11, EmptyBound DEF UsbTypeOK, ClientDies, devVars, hostVars, passVars
<1> QED
  BY <1>1, <1>2, <1>3, <1>4, <1>5, <1>6, <1>7, <1>8, <1>9, <1>10, <1>11 DEF ScanStep

\* The steps of the server's machine.
LEMMA HostTyped ==
    ASSUME UsbTypeOK,
           PeerGone \/ (\E d \in Devices : PortDown(d)) \/ PassStep \/ HostStep
    PROVE  UsbTypeOK'
<1> USE UsbAssumption
<1>1. CASE PeerGone
  BY <1>1 DEF UsbTypeOK, PeerGone, devVars, progVars, passVars
<1>2. ASSUME NEW d \in Devices, PortDown(d)
      PROVE  UsbTypeOK'
  BY <1>2 DEF UsbTypeOK, PortDown, devVars, progVars, passVars
<1>3. CASE ReconcilePurge
  <2>1. held' \subseteq held /\ port' \subseteq port /\ rec' \subseteq rec
    BY <1>3 DEF ReconcilePurge
  <2> QED BY <1>3, <2>1 DEF UsbTypeOK, ReconcilePurge, progVars
<1>4. CASE ReconcileList
  <2>1. listed' \subseteq Devices
    BY <1>4 DEF ReconcileList
  <2> QED BY <1>4, <2>1 DEF UsbTypeOK, ReconcileList, devVars, progVars, hostVars
<1>5. CASE ReconcileEnd
  BY <1>5 DEF UsbTypeOK, ReconcileEnd, devVars, progVars, hostVars
<1>6. ASSUME NEW d \in Devices, ReconcileAttach(d)
      PROVE  UsbTypeOK'
  <2>1. /\ held' \subseteq {e \in Devices : drv[e] = "stub"}
        /\ port' \subseteq Devices /\ rec' \subseteq Devices
    BY <1>6 DEF ReconcileAttach, UsbTypeOK
  <2> QED BY <1>6, <2>1 DEF UsbTypeOK, ReconcileAttach, progVars
<1>7. CASE ShutdownBegins
  BY <1>7 DEF UsbTypeOK, ShutdownBegins, devVars
<1>8. CASE DetachAll
  BY <1>8 DEF UsbTypeOK, DetachAll, progVars, passVars
<1>9. CASE NetworkCut
  BY <1>9 DEF UsbTypeOK, NetworkCut, devVars
<1>10. CASE HostDies
  BY <1>10 DEF UsbTypeOK, HostDies, devVars
<1>11. CASE HostBoots
  BY <1>11 DEF UsbTypeOK, HostBoots, devVars, progVars, passVars
<1>12. CASE ServerRestarts
  BY <1>12 DEF UsbTypeOK, ServerRestarts, devVars, passVars
<1> QED
  BY <1>1, <1>2, <1>3, <1>4, <1>5, <1>6, <1>7, <1>8, <1>9, <1>10, <1>11, <1>12
  DEF PassStep, HostStep

\* The steps of the client's machine.
LEMMA EnvTyped ==
    ASSUME UsbTypeOK, EnvStep
    PROVE  UsbTypeOK'
<1> USE UsbAssumption
<1> PICK d \in Devices : Plug(d) \/ Unplug(d) \/ Mount(d) \/ Unmount(d)
  BY DEF EnvStep
<1>1. CASE Plug(d)
  BY <1>1 DEF UsbTypeOK, Plug, progVars, hostVars, passVars
<1>2. CASE Unplug(d)
  BY <1>2 DEF UsbTypeOK, Unplug, progVars, hostVars, passVars
<1>3. CASE Mount(d)
  BY <1>3 DEF UsbTypeOK, Mount, progVars, hostVars, passVars
<1>4. CASE Unmount(d)
  BY <1>4 DEF UsbTypeOK, Unmount, progVars, hostVars, passVars
<1> QED BY <1>1, <1>2, <1>3, <1>4

\* Types are kept: a device that usbip-host reports as held is on usbip-host,
\* through every rebind, pull and detach (usbexport.c, sremfb-usb-attach), and
\* scan_and_bind never writes past the list of bound devices.
THEOREM UsbTypeCorrect == UsbSpec => []UsbTypeOK
<1>1. UsbInit => UsbTypeOK
  BY EmptyBound DEF UsbInit, UsbTypeOK
<1>2. UsbTypeOK /\ [UsbNext]_usbVars => UsbTypeOK'
  <2> SUFFICES ASSUME UsbTypeOK, [UsbNext]_usbVars
               PROVE  UsbTypeOK'
    OBVIOUS
  <2>1. CASE UNCHANGED usbVars
    BY <2>1 DEF UsbTypeOK, usbVars, devVars, progVars, hostVars, passVars
  <2> QED BY <2>1, ClientTyped, HostTyped, EnvTyped DEF UsbNext
<1> QED BY <1>1, <1>2, PTL DEF UsbSpec

-----------------------------------------------------------------------------
(* A clean shutdown. *)

\* A port in use has its record, so that --detach-all finds it.
Recorded == port \subseteq rec

\* No pass of the reconciler runs once the system is stopping.
Quiet == server # "up" => pass = "idle"

ShutdownInv == Recorded /\ Quiet /\ CleanShutdown

LEMMA ShutdownStep == ShutdownInv /\ [UsbNext]_usbVars => ShutdownInv'
<1> SUFFICES ASSUME ShutdownInv, [UsbNext]_usbVars
             PROVE  ShutdownInv'
  OBVIOUS
<1> USE DEF ShutdownInv, Recorded, Quiet, CleanShutdown
<1>1. ASSUME UNCHANGED <<server, port, rec, pass>>
      PROVE  ShutdownInv'
  BY <1>1
<1>2. CASE \/ UsbExportInit \/ UsbExportTick \/ ScanStep \/ TcpConnect
           \/ ReclaimHello \/ LinkLost \/ Disconnect \/ UsbExportStop \/ ClientDies
  <2>1. UNCHANGED <<server, port, rec, pass>>
    BY <1>2 DEF UsbExportInit, UsbExportTick, ScanStep, BindDevice, BindFails, ScanLook,
         TcpConnect, ReclaimHello, LinkLost, Disconnect, UsbExportStop, ClientDies,
         hostVars, passVars
  <2> QED BY <1>1, <2>1
<1>3. CASE EnvStep \/ PeerGone \/ ServerRestarts \/ UNCHANGED usbVars
  <2>1. UNCHANGED <<server, port, rec, pass>>
    BY <1>3 DEF EnvStep, Plug, Unplug, Mount, Unmount, PeerGone, ServerRestarts,
         usbVars, hostVars, passVars
  <2> QED BY <1>1, <2>1
<1>4. ASSUME NEW d \in Devices, PortDown(d)
      PROVE  ShutdownInv'
  BY <1>4 DEF PortDown, passVars
<1>5. CASE ReconcilePurge
  <2>1. port' \subseteq rec'
    BY <1>5 DEF ReconcilePurge
  <2> QED BY <1>5, <2>1 DEF ReconcilePurge
<1>6. CASE ReconcileList \/ ReconcileEnd
  BY <1>6 DEF ReconcileList, ReconcileEnd, hostVars
<1>7. ASSUME NEW d \in Devices, ReconcileAttach(d)
      PROVE  ShutdownInv'
  <2>1. server = "up" /\ server' = "up"
    BY <1>7 DEF ReconcileAttach
  <2>2. port' \subseteq rec'
    BY <1>7 DEF ReconcileAttach
  <2> QED BY <2>1, <2>2
<1>8. CASE ShutdownBegins
  BY <1>8 DEF ShutdownBegins
<1>9. CASE DetachAll
  BY <1>9 DEF DetachAll, passVars
<1>10. CASE NetworkCut \/ HostDies
  BY <1>10 DEF NetworkCut, HostDies
<1>11. CASE HostBoots
  BY <1>11 DEF HostBoots, passVars
<1> QED
  BY <1>2, <1>3, <1>4, <1>5, <1>6, <1>7, <1>8, <1>9, <1>10, <1>11
  DEF UsbNext, PassStep, HostStep

\* Once sremfb-usb-detach.service has run, nothing is imported until the network
\* goes, whatever the reconciler was doing when the shutdown began: no device of
\* a client stays held for a connection that dies with the machine.
THEOREM ShutdownAlwaysClean == UsbSpec => []CleanShutdown
<1>1. UsbInit => ShutdownInv
  BY DEF UsbInit, ShutdownInv, Recorded, Quiet, CleanShutdown
<1>2. ShutdownInv => CleanShutdown
  BY DEF ShutdownInv
<1> QED BY <1>1, <1>2, ShutdownStep, PTL DEF UsbSpec
=============================================================================
