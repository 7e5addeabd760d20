------------------------------- MODULE Layout -------------------------------
(***************************************************************************)
(* Layout restore, server/core/layout.c, against mutter.  mutter keys what *)
(* it remembers by the connectors of all monitors; a client keeps its      *)
(* identity but not its connector.  Once per connection the server looks   *)
(* for a remembered configuration in which only the connector of that      *)
(* client differs and asks mutter to apply it.  Calls, replies and the     *)
(* signal MonitorsChanged are under way on the bus, in order each way;     *)
(* a configuration is the set of <<screen, connector>> it was saved for.   *)
(* XML, modes, scales and transforms are left out: fit says whether the    *)
(* stored modes still exist.                                               *)
(***************************************************************************)
EXTENDS Naturals, Sequences, SequencesExt, FiniteSetsExt

CONSTANTS
  Screens,       \* identities (product and serial) of the clients' screens
  Connectors,    \* connector names of evdi cards
  NoConnector,
  MaxChanges,    \* bound on hotplugs and configurations saved by the user
  MaxTimeouts    \* bound on calls that time out

ASSUME LayoutAssumption ==
  /\ NoConnector \notin Connectors
  /\ {MaxChanges, MaxTimeouts} \subseteq Nat

VARIABLES
  Y,             \* the static struct Y: pending, again
  conn,          \* c->connector of the streaming clients
  waiting,       \* clients with layout_pending
  known,         \* <<client, screen>> : layout_serial and layout_product are set
  last,          \* last-connectors
  xml,           \* the configurations in monitors.xml
  mutter,        \* its monitors, serial and the configuration it shows
  calls,         \* method calls under way to mutter
  bus,           \* replies and signals under way to the server
  missed,        \* a call failed and nothing else was asked for
  changes, timeouts  \* bounds only

layoutVars == <<Y, conn, waiting, known, last, xml, mutter, calls, bus, missed,
                changes, timeouts>>

Configs == SUBSET (Screens \X Connectors)
Default == {}    \* mutter's fallback layout

Get == [call |-> "get"]
Stale == [call |-> "stale"]   \* a Get whose caller has given up
Apply(serial, cfg) == [call |-> "apply", serial |-> serial, cfg |-> cfg]
Changed == [msg |-> "changed"]
Late == [msg |-> "late"]      \* the reply to such a call
StateReply == [msg |-> "state", serial |-> mutter.serial, mons |-> mutter.mons]

LayoutTypeOK ==
  /\ Y \in [pending : BOOLEAN, again : BOOLEAN]
  /\ conn \in [Screens -> Connectors \cup {NoConnector}]
  /\ waiting \subseteq Screens /\ known \subseteq Screens \X Screens
  /\ last \in [Screens -> Connectors \cup {NoConnector}]
  /\ \A i \in DOMAIN xml : xml[i] \in Configs
  /\ mutter \in [mons : Configs, serial : Nat, shows : Configs]
  /\ \A i \in DOMAIN calls : calls[i].call \in {"get", "stale", "apply"}
  /\ \A i \in DOMAIN bus : bus[i].msg \in {"changed", "state", "late"}
  /\ missed \in BOOLEAN

LayoutInit ==
  /\ Y = [pending |-> FALSE, again |-> FALSE]
  /\ conn = [s \in Screens |-> NoConnector]
  /\ waiting = {} /\ known = {}
  /\ last = [s \in Screens |-> NoConnector]
  /\ xml = <<>>
  /\ mutter = [mons |-> {}, serial |-> 0, shows |-> Default]
  /\ calls = <<>> /\ bus = <<>>
  /\ missed = FALSE
  /\ changes = 0 /\ timeouts = 0

-----------------------------------------------------------------------------
(* Matching. *)

\* spec_is without and with the connector, over one configuration.
Has(cfg, s) == \E k \in Connectors : <<s, k>> \in cfg
Others(cfg, s) == {p \in cfg : p[1] # s}
ConnectorOf(cfg, s) == CHOOSE k \in Connectors : <<s, k>> \in cfg

\* Mutant: the other monitors need not match.
MatchLoose(cfg, mons, s) ==
  CASE cfg = mons -> 2
    [] cfg # mons /\ Has(cfg, s) /\ Has(mons, s) -> 1
    [] OTHER -> 0

\* config_match: 2 exact, 1 but for the connector of s, 0 no.
ConfigMatch(cfg, mons, s) ==
  CASE cfg = mons -> 2
    [] cfg # mons /\ Has(cfg, s) /\ Has(mons, s) /\ Others(cfg, s) = Others(mons, s) -> 1
    [] OTHER -> 0

\* The places in monitors.xml of the configurations that match so.
Matches(mons, s, kind) == {i \in DOMAIN xml : ConfigMatch(xml[i], mons, s) = kind}

\* The configuration of the connector used last, else the last in the file.
Best(mons, s) ==
  LET fits == Matches(mons, s, 1)
      noted == {i \in fits : ConnectorOf(xml[i], s) = last[s]}
  IN  xml[IF noted # {} THEN Min(noted) ELSE Max(fits)]

\* restore_for: what it notes and what it asks of mutter.
RestoreFor(s, st, fit) ==
  CASE Matches(st.mons, s, 2) # {} ->
         [last |-> ConnectorOf(st.mons, s), asks |-> {}]
    [] Matches(st.mons, s, 2) = {} /\ Matches(st.mons, s, 1) # {} /\ fit ->
         [last |-> ConnectorOf(Best(st.mons, s), s),
          asks |-> {Apply(st.serial, Best(st.mons, s))}]
    [] OTHER -> [last |-> last[s], asks |-> {}]

-----------------------------------------------------------------------------
(* The driver. *)

\* refresh, with w the clients that wait: <<Y, calls>> after it.
Refresh(y, c, w) ==
  CASE w = {} -> <<y, c>>
    [] w # {} /\ y.pending -> <<[y EXCEPT !.again = TRUE], c>>
    [] OTHER -> <<[y EXCEPT !.pending = TRUE], Append(c, Get)>>

\* Mutant: the flag is dropped with the reply.
AnswerForgets(y, c, w) == <<[pending |-> FALSE, again |-> FALSE], c>>

\* The end of on_state: pending is cleared, again asks once more.
Answer(y, c, w) ==
  IF y.again THEN Refresh([pending |-> FALSE, again |-> FALSE], c, w)
  ELSE <<[y EXCEPT !.pending = FALSE], c>>

Asks(r) == Y' = r[1] /\ calls' = r[2]

\* sremfb_layout_client: a client begins to stream on the monitor mutter set.
Stream(s) ==
  /\ conn[s] = NoConnector
  /\ Has(mutter.mons, s)
  /\ conn' = [conn EXCEPT ![s] = ConnectorOf(mutter.mons, s)]
  /\ waiting' = waiting \cup {s}
  /\ Asks(Refresh(Y, calls, waiting'))
  /\ missed' = (missed /\ ~Y'.pending)
  /\ UNCHANGED <<known, last, xml, mutter, bus, changes, timeouts>>

\* on_monitors_changed.
SignalChanged ==
  /\ bus # <<>> /\ Head(bus) = Changed
  /\ bus' = Tail(bus)
  /\ Asks(Refresh(Y, calls, waiting))
  /\ missed' = (missed /\ ~Y'.pending)
  /\ UNCHANGED <<conn, waiting, known, last, xml, mutter, changes, timeouts>>

\* on_state with a reply: every waiting client whose connector is in it gets its
\* one attempt, in the order of the list of clients; no two ask for the same.
\* Only the connector is compared: an old reply may name another screen there.
OnState(fit) ==
  /\ bus # <<>> /\ Head(bus).msg = "state"
  /\ bus' = Tail(bus)
  /\ LET st == Head(bus)
         ours == {p \in waiting \X Screens : <<p[2], conn[p[1]]>> \in st.mons}
         told == {p[2] : p \in ours}
         asks == UNION {RestoreFor(m, st, fit).asks : m \in told}
     IN  /\ waiting' = waiting \ {p[1] : p \in ours}
         /\ known' = known \cup ours
         /\ last' = [m \in Screens |-> IF m \in told THEN RestoreFor(m, st, fit).last
                                       ELSE last[m]]
         /\ \E asked \in SetToSeqs(asks) : Asks(Answer(Y, calls \o asked, waiting'))
  /\ UNCHANGED <<conn, xml, mutter, missed, changes, timeouts>>

\* on_state without a reply within 5 s: a reply that comes later is not for it.
Timeout ==
  /\ Y.pending
  /\ timeouts < MaxTimeouts /\ timeouts' = timeouts + 1
  /\ bus' = [i \in DOMAIN bus |-> IF bus[i].msg = "state" THEN Late ELSE bus[i]]
  /\ Asks(Answer(Y, [i \in DOMAIN calls |-> IF calls[i] = Get THEN Stale ELSE calls[i]],
                 waiting))
  /\ missed' = ~Y.again
  /\ UNCHANGED <<conn, waiting, known, last, xml, mutter, changes>>

\* GDBus drops the reply to a call that has timed out.
StateLate ==
  /\ bus # <<>> /\ Head(bus) = Late
  /\ bus' = Tail(bus)
  /\ UNCHANGED <<Y, conn, waiting, known, last, xml, mutter, calls, missed, changes, timeouts>>

\* mutter's monitors become mons: it takes an exact match by itself.
Remonitor(mons, cfgs) ==
  /\ mutter' = [mons |-> mons, serial |-> mutter.serial + 1,
                shows |-> IF mons \in ToSet(cfgs) THEN mons ELSE Default]
  /\ bus' = Append(bus, Changed)

\* sremfb_layout_client_gone, and the monitor goes with the client: a
\* configuration saved for the screen it was told of, on the present
\* connector, is the latest.
Gone(s) ==
  /\ conn[s] # NoConnector
  /\ last' = [m \in Screens |->
                IF <<s, m>> \in known /\ \E i \in DOMAIN xml : <<m, conn[s]>> \in xml[i]
                THEN conn[s] ELSE last[m]]
  /\ conn' = [conn EXCEPT ![s] = NoConnector]
  /\ waiting' = waiting \ {s} /\ known' = Others(known, s)
  /\ Remonitor(Others(mutter.mons, s), xml)
  /\ UNCHANGED <<Y, xml, calls, missed, changes, timeouts>>

-----------------------------------------------------------------------------
(* mutter and the user: external. *)

Hotplug(s, k) ==
  /\ changes < MaxChanges /\ changes' = changes + 1
  /\ ~Has(mutter.mons, s) /\ \A p \in mutter.mons : p[2] # k
  /\ Remonitor(mutter.mons \cup {<<s, k>>}, xml)
  /\ UNCHANGED <<Y, conn, waiting, known, last, xml, calls, missed, timeouts>>

\* Settings stores the layout of the present monitors; the order of the file
\* is that of a hash table.
UserSaves ==
  /\ changes < MaxChanges /\ changes' = changes + 1
  /\ mutter.mons # {}
  /\ IF mutter.mons \in ToSet(xml) THEN xml' = xml
     ELSE \E i \in 1 .. Len(xml) + 1 : xml' = InsertAt(xml, i, mutter.mons)
  /\ Remonitor(mutter.mons, xml')
  /\ UNCHANGED <<Y, conn, waiting, known, last, calls, missed, timeouts>>

MutterGet ==
  /\ calls # <<>> /\ Head(calls).call \in {"get", "stale"}
  /\ calls' = Tail(calls)
  /\ bus' = Append(bus, IF Head(calls) = Get THEN StateReply ELSE Late)
  /\ UNCHANGED <<Y, conn, waiting, known, last, xml, mutter, missed, changes, timeouts>>

\* ApplyMonitorsConfig: refused when the serial is not the present one.
MutterApply ==
  /\ calls # <<>> /\ Head(calls).call = "apply"
  /\ calls' = Tail(calls)
  /\ IF Head(calls).serial = mutter.serial
     THEN /\ mutter' = [mutter EXCEPT !.serial = @ + 1, !.shows = Head(calls).cfg]
          /\ bus' = Append(bus, Changed)
     ELSE UNCHANGED <<mutter, bus>>
  /\ UNCHANGED <<Y, conn, waiting, known, last, xml, missed, changes, timeouts>>

LayoutNext ==
  \/ \E s \in Screens : Stream(s) \/ Gone(s)
  \/ \E s \in Screens, k \in Connectors : Hotplug(s, k)
  \/ \E fit \in BOOLEAN : OnState(fit)
  \/ SignalChanged \/ Timeout \/ StateLate \/ UserSaves \/ MutterGet \/ MutterApply

LayoutSpec == LayoutInit /\ [][LayoutNext]_layoutVars

-----------------------------------------------------------------------------
(* Properties. *)

\* A client whose one attempt is still to come has something under way that
\* will wake it: a call, its reply or a signal, unless the last call failed
\* (refresh, on_state and the two flags).
RestoreArmed ==
  waiting # {} => Y.pending \/ Changed \in ToSet(bus) \/ missed

\* mutter shows a remembered configuration only for the monitors it was saved
\* for, but for one screen's connector, and never in place of the one saved
\* for exactly the present monitors (restore_for and the serial it passes).
LayoutMeant ==
  IF mutter.mons \in ToSet(xml) THEN mutter.shows = mutter.mons
  ELSE mutter.shows # Default =>
         \E s \in Screens : /\ Others(mutter.shows, s) = Others(mutter.mons, s)
                            /\ Has(mutter.shows, s) /\ Has(mutter.mons, s)

=============================================================================
