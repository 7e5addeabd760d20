------------------------------ MODULE PlugGate ------------------------------
(***************************************************************************)
(* The plug gate of the EVDI backend (server/evdi/evdi.c): every EDID plug *)
(* is a hotplug for the compositor, and one that no longer lights          *)
(* connectors leaks memory at each.  Whether a client may plug is computed *)
(* afresh from a pruned history of timestamps.                             *)
(*                                                                         *)
(* Time is a counter; hist is the whole history, which the code does not   *)
(* keep, for the properties to compare with.                               *)
(***************************************************************************)
EXTENDS Integers, Sequences, FiniteSets, FiniteSetsExt

CONSTANTS
  Clients,       \* at most SREMFB_MAX_CLIENTS
  Budget,        \* SELFHEAL_BUDGET
  BackoffMin,    \* BACKOFF_MIN_S
  BackoffMax,    \* BACKOFF_MAX_S
  FailsPerHour,  \* FAILS_PER_HOUR
  PlugsPerHour,  \* PLUGS_PER_HOUR
  Window,        \* PLUG_WINDOW_US
  EventsMax,     \* PLUG_EVENTS_MAX
  ModeTimeout,   \* the 10 s of the mode timer
  AddTime,       \* the longest evdi_add_usable sleeps
  MaxTime,       \* bound on the clock
  MaxEvents,     \* bound on the history
  MaxShells      \* bound on the gnome-shell processes of a behaviour

ASSUME GateAssumption ==
  /\ IsFiniteSet(Clients)
  /\ {Budget, BackoffMin, BackoffMax, FailsPerHour, PlugsPerHour, Window,
      EventsMax, ModeTimeout, AddTime, MaxTime, MaxEvents,
      MaxShells} \subseteq Nat
  /\ 0 < BackoffMin /\ BackoffMin <= BackoffMax /\ BackoffMax <= BackoffMin * 2 ^ 16
  /\ 0 < FailsPerHour /\ 0 < PlugsPerHour /\ 0 < EventsMax /\ 0 < MaxTime
  /\ BackoffMax < Window

VARIABLES
  now,           \* g_get_monotonic_time
  shell,         \* compositor_pid(), as the number of shells so far
  ev,            \* plug_events
  plug_shell,    \* the shell ev refers to
  since,         \* per client, when its connector was plugged; 0: not waiting
  hist           \* every event since the present shell started

gateVars == <<now, shell, ev, plug_shell, since, hist>>

Kinds == {"PLUG", "LIT", "FAIL"}

Event == [t : 1 .. MaxTime, kind : Kinds]

InWindow(e, at) == e.t >= at - Window

(***************************************************************************)
(* Pruning and recording.                                                  *)
(***************************************************************************)
LastLit(es) == Max({0} \cup {i \in DOMAIN es : es[i].kind = "LIT"})

\* The failures since the last connector that lit up.
FailRun(es) == {i \in DOMAIN es : i > LastLit(es) /\ es[i].kind = "FAIL"}

\* The n-th of a set of positions.
Nth(S, n) == CHOOSE i \in S : Cardinality({j \in S : j <= i}) = n

\* The events of es at the positions in S, in order.
Select(es, S) == [n \in 1 .. Cardinality(S) |-> es[Nth(S, n)]]

\* Mutant: the failures of the run age out like everything else.
KeepWindowOnly(es, at) == {i \in DOMAIN es : InWindow(es[i], at)}

Keep(es, at) == {i \in DOMAIN es : InWindow(es[i], at)} \cup FailRun(es)

\* What plug_prune leaves of ev.
Pruned(at) ==
  LET kept == Select(ev, Keep(ev, at))
      surplus == Len(kept) - EventsMax
  IN  IF shell # plug_shell THEN <<>>
      ELSE IF surplus > 0 THEN SubSeq(kept, surplus + 1, Len(kept)) ELSE kept

\* plug_record.
Record(kind, at) ==
  /\ Len(hist) < MaxEvents
  /\ ev' = Append(Pruned(at), [t |-> at, kind |-> kind])
  /\ plug_shell' = shell
  /\ hist' = Append(hist, [t |-> at, kind |-> kind])

\* plug_prune alone, the side effect of asking the gate.
PruneOnly ==
  /\ ev' = Pruned(now)
  /\ plug_shell' = shell
  /\ UNCHANGED hist

(***************************************************************************)
(* The gate.                                                               *)
(***************************************************************************)
\* Mutant: the newest event has to age out, not the one that frees a place.
WindowFreeAtNewest(es, kind, at, cap) ==
  LET S == {i \in DOMAIN es : es[i].kind = kind /\ InWindow(es[i], at)}
  IN  IF Cardinality(S) < cap THEN 0 ELSE es[Max(S)].t + Window

\* window_free_at: when the count of kind in the window drops below cap.
WindowFreeAt(es, kind, at, cap) ==
  LET S == {i \in DOMAIN es : es[i].kind = kind /\ InWindow(es[i], at)}
      n == Cardinality(S)
  IN  IF n < cap THEN 0 ELSE es[Nth(S, n - cap + 1)].t + Window

\* Mutant: no delay after the first failure past the budget.
BackoffLate(run) ==
  IF run = Budget + 1 THEN 0
  ELSE Min({BackoffMin * 2 ^ Min({run - Budget - 2, 16}), BackoffMax})

Backoff(run) == Min({BackoffMin * 2 ^ Min({run - Budget - 1, 16}), BackoffMax})

\* A rule closes the gate until t if that is later than what is in force.
Tighten(g, verdict, t, at) ==
  IF t > at /\ t > g.until THEN [verdict |-> verdict, until |-> t] ELSE g

\* plug_gate, after its prune.
Gate(es, at) ==
  LET run == Cardinality(FailRun(es))
      backoff == IF run > Budget
                 THEN es[Max(FailRun(es))].t + Backoff(run) ELSE 0
      open == [verdict |-> "OPEN", until |-> 0]
      g1 == Tighten(open, "BACKOFF", backoff, at)
      g2 == Tighten(g1, "FAIL_CAP", WindowFreeAt(es, "FAIL", at, FailsPerHour), at)
  IN  Tighten(g2, "PLUG_CAP", WindowFreeAt(es, "PLUG", at, PlugsPerHour), at)

GateOpen == Gate(Pruned(now), now).verdict = "OPEN"

(***************************************************************************)
(* The clients.                                                            *)
(***************************************************************************)
GateInit ==
  /\ now = 1
  /\ shell = 0
  /\ ev = <<>>
  /\ plug_shell = 0
  /\ since = [k \in Clients |-> 0]
  /\ hist = <<>>

Tick ==
  /\ now < MaxTime
  /\ now' = now + 1
  /\ UNCHANGED <<shell, ev, plug_shell, since, hist>>

\* The session is logged in again, or the shell restarts.
ShellChange ==
  /\ shell < MaxShells
  /\ shell' = shell + 1
  /\ hist' = <<>>
  /\ UNCHANGED <<now, ev, plug_shell, since>>

\* Mutant: the gate is not asked on the way to the plug.
PlugUngated(k, wait) ==
  /\ since[k] = 0 /\ now + wait <= MaxTime
  /\ now' = now + wait
  /\ Record("PLUG", now')
  /\ since' = [since EXCEPT ![k] = now']
  /\ UNCHANGED shell

\* on_listen_ready, admitted: evdi_source_acquire asks again, then claims or
\* creates a device, which may take a while, and plugs.
Plug(k, wait) ==
  /\ since[k] = 0 /\ now + wait <= MaxTime
  /\ GateOpen
  /\ now' = now + wait
  /\ Record("PLUG", now')
  /\ since' = [since EXCEPT ![k] = now']
  /\ UNCHANGED shell

\* on_listen_ready, turned away by evdi_source_admit, or no device is left.
Refuse(k) ==
  /\ since[k] = 0
  /\ PruneOnly
  /\ UNCHANGED <<now, shell, since>>

\* on_mode_changed of a waiting client: plug_lit.
Lit(k) ==
  /\ since[k] # 0
  /\ Record("LIT", now)
  /\ since' = [since EXCEPT ![k] = 0]
  /\ UNCHANGED <<now, shell>>

\* on_mode_timeout gives up on the compositor; a client parked in power save
\* stays longer than the first 10 s.
Fail(k) ==
  /\ since[k] # 0 /\ now >= since[k] + ModeTimeout
  /\ Record("FAIL", now)
  /\ since' = [since EXCEPT ![k] = 0]
  /\ UNCHANGED <<now, shell>>

\* The client goes before its connector lit up.
Leave(k) ==
  /\ since[k] # 0
  /\ since' = [since EXCEPT ![k] = 0]
  /\ UNCHANGED <<now, shell, ev, plug_shell, hist>>

GateNext ==
  \/ Tick
  \/ ShellChange
  \/ \E k \in Clients :
       \/ \E wait \in 0 .. AddTime : Plug(k, wait)
       \/ Refuse(k)
       \/ Lit(k)
       \/ Fail(k)
       \/ Leave(k)

GateSpec == GateInit /\ [][GateNext]_gateVars

(***************************************************************************)
(* Properties.                                                             *)
(***************************************************************************)
\* Events of a kind in the sliding hour that ends now.
Recent(kind) ==
  {i \in DOMAIN hist : hist[i].kind = kind /\ hist[i].t > now - Window}

\* Types; the events are kept in chronological order (evdi.h).
GateTypeOK ==
  /\ now \in 1 .. MaxTime
  /\ ev \in Seq(Event)
  /\ \A i, j \in DOMAIN ev : i <= j => ev[i].t <= ev[j].t
  /\ plug_shell \in 0 .. shell
  /\ since \in [Clients -> 0 .. now]

\* Pruning is invisible (plug_prune): the gate says what it would say of the
\* whole history of the present gnome-shell.
PruneInvisible == Gate(Pruned(now), now) = Gate(hist, now)

\* At most PLUGS_PER_HOUR plugs per sliding hour, however long a device takes
\* to appear between the verdict and the plug.
PlugsCapped == Cardinality(Recent("PLUG")) <= PlugsPerHour

\* What the comment of the gate says of mode timeouts: "whatever the path, at most
\* FAILS_PER_HOUR" per sliding hour.  The code does not keep it: the connectors that were
\* plugged while the gate was open may all time out once it is shut.  (evdi.c:766)
FailsCapped == Cardinality(Recent("FAIL")) <= FailsPerHour

\* What the code does keep: the failures of a sliding hour and those still possible exceed
\* the cap by less than one a client.
FailsBounded ==
  Cardinality(Recent("FAIL")) + Cardinality({k \in Clients : since[k] # 0})
    <= FailsPerHour - 1 + Cardinality(Clients)

\* Over every sliding hour the cap on plugs holds, however late a device appears, and the
\* cap on mode timeouts is exceeded by those of clients plugged together at most
\* (plug_gate); that it is exceeded at all is FailsCapped.
CapsKept == PlugsCapped /\ FailsBounded

\* The journal says until when clients are refused (evdi_source_admit): if
\* nothing else happens the gate is open then, and not one tick earlier.
UntilHonest ==
  LET es == Pruned(now)
      g == Gate(es, now)
  IN  g.verdict # "OPEN" =>
        /\ now < g.until /\ g.until <= now + Window
        /\ Gate(es, g.until).verdict = "OPEN"
        /\ Gate(es, g.until - 1).verdict # "OPEN"

\* Once the self-heal budget is spent, nobody plugs before the backoff since
\* the last failure is over: the k-th failure past the budget keeps the gate
\* shut for BACKOFF_MIN_S * 2^(k-1), up to BACKOFF_MAX_S.
BackoffKept ==
  [][\A k \in Clients :
       LET run == FailRun(hist)
           past == Cardinality(run) - Budget
       IN  since[k] = 0 /\ since'[k] # 0 /\ past > 0 =>
             now' >= hist[Max(run)].t + Min({BackoffMin * 2 ^ (past - 1), BackoffMax})]_gateVars

=============================================================================
