-------------------------------- MODULE Audio --------------------------------
(***************************************************************************)
(* The default output of the desktop and server/core/audio.c: each client  *)
(* with audio is an output of the PipeWire graph that becomes the default  *)
(* while the client is there.  The default lives in PipeWire's metadata;   *)
(* the server writes it by requests and knows it by events, both in        *)
(* flight for a while, and keeps what it replaced in memory and in a file. *)
(* The UDP packets carry no state that the default depends on.             *)
(***************************************************************************)
EXTENDS Naturals, Sequences, SequencesExt

CONSTANTS
  Nodes,         \* our outputs: the names "sremfb.<mac>", one per client
  Outputs,       \* the outputs the desktop has of its own
  Unset,         \* no default is configured
  NoFile,        \* sremfb-audio-default does not exist
  MaxFlight,     \* bound on requests and events under way
  MaxPicks,      \* bound on the user's choices of an output
  MaxFaults      \* bound on crashes and on losses of the metadata or PipeWire

ASSUME AudioAssumption ==
  /\ Nodes \cap (Outputs \cup {Unset, NoFile}) = {}
  /\ Outputs \cap {Unset, NoFile} = {} /\ Unset # NoFile
  /\ {MaxFlight, MaxPicks, MaxFaults} \subseteq Nat

VARIABLES
  A,             \* the static struct A of the server, and its file
  pw,            \* PipeWire: the default and the events under way to us
  wish,          \* the output the user chose last
  past,          \* history the properties speak of; no action looks at it
  picks, faults  \* bounds only

audioVars == <<A, pw, wish, past, picks, faults>>

Defaults == Nodes \cup Outputs \cup {Unset}

AudioTypeOK ==
  /\ A \in [core : {"up", "broken", "none"}, md : BOOLEAN, cur : Defaults,
            saved : BOOLEAN, orig : Outputs \cup {Unset},
            live : Seq(Nodes), announced : SUBSET Nodes, made : SUBSET Nodes,
            out : Seq(Defaults), file : Outputs \cup {Unset, NoFile}]
  /\ pw \in [def : Defaults, events : Seq(Defaults)]
  /\ wish \in Outputs \cup {Unset}
  /\ past \in [spent : BOOLEAN, adrift : SUBSET Nodes, crossed : BOOLEAN]
  /\ picks \in 0 .. MaxPicks /\ faults \in 0 .. MaxFaults

-----------------------------------------------------------------------------
(* The default output. *)

\* A request on a connection that is lost goes nowhere.
DefaultSet(s, v) ==
  IF s.md /\ s.core = "up" THEN [s EXCEPT !.out = Append(@, v)] ELSE s

\* The first of ours remembers what the desktop had, never one of our own.
Remember(s) ==
  LET v == IF s.cur \in Nodes THEN Unset ELSE s.cur
  IN  IF s.saved THEN s
      ELSE [s EXCEPT !.orig = v, !.saved = TRUE, !.file = v]

TakeDefault(s, n) ==
  IF ~s.md THEN s
  ELSE DefaultSet([Remember(s) EXCEPT !.made = @ \cup {n}], n)

\* Mutant: what was remembered is cleared before it is put back.
GiveBackCleared(s, n) ==
  IF n \notin s.made \/ ~s.md THEN s
  ELSE LET t == [s EXCEPT !.made = @ \ {n}]
       IN  IF s.cur # Unset /\ s.cur # n THEN t
           ELSE IF s.live # <<>> THEN TakeDefault(t, Head(s.live))
           ELSE [DefaultSet(t, Unset) EXCEPT !.orig = Unset, !.saved = FALSE,
                                             !.file = NoFile]

\* audio_give_back_default, after n has left live.
GiveBackDefault(s, n) ==
  IF n \notin s.made \/ ~s.md THEN s
  ELSE LET t == [s EXCEPT !.made = @ \ {n}]
       IN  IF s.cur # Unset /\ s.cur # n THEN t
           ELSE IF s.live # <<>> THEN TakeDefault(t, Head(s.live))
           ELSE [DefaultSet(t, t.orig) EXCEPT !.orig = Unset, !.saved = FALSE,
                                              !.file = NoFile]

\* Mutant: no recovery from a crash.
RecoverNot(s) == s

\* A default of ours with nobody streaming was left by a crash.
Recover(s) ==
  IF s.live = <<>> /\ s.cur \in Nodes /\ s.file # NoFile
  THEN [DefaultSet(s, s.file) EXCEPT !.file = NoFile]
  ELSE s

\* sremfb_audio_init finds file f and default v.  It connects at once, long
\* before a client can have a mode: the metadata is bound and read here.
Boot(f, v) ==
  Recover([core |-> "up", md |-> TRUE, cur |-> v, saved |-> FALSE, orig |-> Unset,
           live |-> <<>>, announced |-> {}, made |-> {}, out |-> <<>>, file |-> f])

-----------------------------------------------------------------------------
(* What the history records.                                               *)
(*   spent    a recovery used up the file, while saved stays set: the takes *)
(*            that follow write no new one                                  *)
(*   adrift   outputs that have the default, or are about to, when nothing  *)
(*            will move it away: reported after their client left while    *)
(*            another was connected (the recovery does not look) or the    *)
(*            file was spent, or the request to move it was lost            *)
(*   crossed  a choice of the user was not seen in time: it was made with a *)
(*            request under way, a request was sent before its event came, *)
(*            or one of ours became the default while the memory of the    *)
(*            server (saved earlier, or to be saved now) was another one   *)

\* v is reported as the default to server s.
Unmoved(s, v) ==
  IF s.live # <<>> \/ past.spent THEN {v} \cap (Nodes \ s.made) ELSE {}

\* A request to move the default is lost if c: it stays where it is.
LostIf(c) == IF c THEN {pw.def} \cap Nodes ELSE {}

\* What server s would put back is not what the user chose last.
Outdated(s) == (IF s.saved THEN s.orig ELSE s.cur) # wish

\* The server sends a request that the user's unseen choice crosses.
Unseen(sends) == sends /\ pw.def \in Outputs

-----------------------------------------------------------------------------

AudioInit ==
  /\ \E v \in Outputs \cup {Unset} :
       pw = [def |-> v, events |-> <<>>] /\ wish = v /\ A = Boot(NoFile, v)
  /\ past = [spent |-> FALSE, adrift |-> {}, crossed |-> FALSE]
  /\ picks = 0 /\ faults = 0

\* on_md_property.
MdProperty ==
  /\ pw.events # <<>>
  /\ A' = Recover([A EXCEPT !.cur = Head(pw.events)])
  /\ pw' = [pw EXCEPT !.events = Tail(@)]
  /\ LET recovers == A'.file # A.file
     IN  past' = [spent |-> past.spent \/ (recovers /\ A.saved),
                  adrift |-> past.adrift \cup Unmoved(A, Head(pw.events)),
                  crossed |-> past.crossed \/ Unseen(recovers)]
  /\ UNCHANGED <<wish, picks, faults>>

-----------------------------------------------------------------------------
(* The clients. *)

\* pw_connect: a broken connection is given up for a new one.
PwConnect(s) ==
  IF s.core = "up" THEN s
  ELSE [s EXCEPT !.core = "up", !.md = FALSE, !.cur = Unset]

\* sremfb_audio_start.
AudioStart(n) ==
  /\ n \notin ToSet(A.live)
  /\ A' = [PwConnect(A) EXCEPT !.live = Append(@, n)]
  /\ pw' = IF A.core = "up" THEN pw ELSE [pw EXCEPT !.events = <<>>]
  /\ UNCHANGED <<wish, past, picks, faults>>

\* sremfb_audio_start when PipeWire is not there.
AudioStartFails(n) ==
  /\ n \notin ToSet(A.live)
  /\ A.core # "up"
  /\ A' = [A EXCEPT !.core = "none", !.md = FALSE, !.cur = Unset]
  /\ pw' = [pw EXCEPT !.events = <<>>]
  /\ UNCHANGED <<wish, past, picks, faults>>

Room == Len(A.out) + Len(pw.events) < MaxFlight

\* on_state: the output is in the graph, at any time after the start: before
\* or after an event about the default that is under way.
AudioReady(n) ==
  /\ n \in ToSet(A.live) \ A.announced
  /\ Room
  /\ A.core = "up"
  /\ A' = TakeDefault([A EXCEPT !.announced = @ \cup {n}], n)
  /\ past' = IF ~A.md THEN past
             ELSE [past EXCEPT !.adrift = @ \ {n}, !.crossed = @ \/ Outdated(A)]
  /\ UNCHANGED <<pw, wish, picks, faults>>

\* sremfb_audio_stop; made_default goes with the output.
AudioStop(n) ==
  /\ n \in ToSet(A.live)
  /\ Room
  /\ LET left == [A EXCEPT !.live = RemoveFirst(@, n), !.announced = @ \ {n}]
         gives == n \in A.made /\ A.md /\ A.cur \in {n, Unset}
     IN  /\ A' = [GiveBackDefault(left, n) EXCEPT !.made = @ \ {n}]
         /\ past' = [spent |-> past.spent /\ A'.saved,
                     adrift |-> past.adrift \cup LostIf(gives /\ A.core # "up"),
                     crossed |-> past.crossed \/ Unseen(gives)]
  /\ UNCHANGED <<pw, wish, picks, faults>>

-----------------------------------------------------------------------------
(* PipeWire, the user and faults: external. *)

\* PipeWire carries out a request and reports the value.
PwApply ==
  /\ A.out # <<>>
  /\ A' = [A EXCEPT !.out = Tail(@)]
  /\ pw' = [def |-> Head(A.out), events |-> Append(pw.events, Head(A.out))]
  /\ UNCHANGED <<wish, past, picks, faults>>

\* on_global: the metadata is bound and reports the value it has.
MdBind ==
  /\ A.core = "up" /\ ~A.md
  /\ A' = [A EXCEPT !.md = TRUE]
  /\ pw' = [pw EXCEPT !.events = IF pw.def = Unset THEN <<>> ELSE <<pw.def>>]
  /\ UNCHANGED <<wish, past, picks, faults>>

\* on_global_remove: the session manager restarts, and what was under way to it
\* is lost.
MdGone ==
  /\ faults < MaxFaults /\ faults' = faults + 1
  /\ A.core = "up" /\ A.md
  /\ A' = [A EXCEPT !.md = FALSE, !.out = <<>>]
  /\ pw' = [pw EXCEPT !.events = <<>>]
  /\ past' = [past EXCEPT !.adrift = @ \cup LostIf(A.out # <<>>)]
  /\ UNCHANGED <<wish, picks>>

\* on_core_error: PipeWire restarts.  The outputs made on the lost connection
\* report nothing any more.
CoreError ==
  /\ faults < MaxFaults /\ faults' = faults + 1
  /\ A.core = "up"
  /\ A' = [A EXCEPT !.core = "broken", !.out = <<>>, !.announced = ToSet(A.live)]
  /\ pw' = [pw EXCEPT !.events = <<>>]
  /\ past' = [past EXCEPT !.adrift = @ \cup LostIf(A.out # <<>>)]
  /\ UNCHANGED <<wish, picks>>

\* Settled: nothing is under way between the server and PipeWire.
Settled == A.core = "up" /\ A.md /\ A.out = <<>> /\ pw.events = <<>>

\* The user chooses an output, with requests and events under way or not.  With
\* nobody connected and nothing remembered, the choice opens a new history.
UserPicks(v) ==
  /\ picks < MaxPicks /\ picks' = picks + 1
  /\ Room
  /\ v # pw.def
  /\ pw' = [def |-> v, events |-> IF A.md /\ A.core = "up" THEN Append(pw.events, v)
                                  ELSE pw.events]
  /\ wish' = v
  /\ LET afresh == Settled /\ A.live = <<>> /\ ~A.saved
     IN  past' = [past EXCEPT !.crossed = (@ /\ ~afresh) \/ A.out # <<>>]
  /\ UNCHANGED <<A, faults>>

\* The next start reads default v.
Restarted(v) ==
  /\ A' = Boot(A.file, v)
  /\ pw' = [def |-> v, events |-> <<>>]
  /\ past' = [past EXCEPT !.spent = FALSE,
                          !.adrift = @ \cup (IF past.spent THEN {v} \cap Nodes ELSE {})]

\* sremfb_audio_shutdown, once every client has been stopped: the sync lets
\* the requests through; then the next start.
Shutdown ==
  /\ A.live = <<>>
  /\ A.core = "up" => A.out = <<>>
  /\ Restarted(pw.def)
  /\ UNCHANGED <<wish, picks, faults>>

\* The server dies and is started again; PipeWire still reads the requests
\* that were sent.
Crash ==
  /\ faults < MaxFaults /\ faults' = faults + 1
  /\ A.live # <<>>
  /\ Restarted(IF A.out = <<>> THEN pw.def ELSE Last(A.out))
  /\ UNCHANGED <<wish, picks>>

AudioNext ==
  \/ MdProperty \/ PwApply \/ MdBind \/ MdGone \/ CoreError
  \/ \E n \in Nodes : \/ AudioStart(n) \/ AudioStartFails(n)
                      \/ AudioReady(n) \/ AudioStop(n)
  \/ \E v \in Outputs : UserPicks(v)
  \/ Shutdown \/ Crash

AudioSpec == AudioInit /\ [][AudioNext]_audioVars

-----------------------------------------------------------------------------
(* Properties. *)

\* The default never stays on an output whose client is gone, however takes,
\* departures, choices, restarts and their late events interleave
\* (audio_give_back_default, on_md_property): it is handed over, given back or
\* recovered.  The outputs that the code does leave behind are named by
\* past.adrift, each with the event that left it there.
NotOrphaned == Settled /\ pw.def \in Nodes => pw.def \in ToSet(A.live) \cup past.adrift

\* When the last client has left, the desktop has the output the user chose
\* last, the one before the session or one picked meanwhile, however late the
\* server learns of its own requests.  Exempt are an output left adrift and a
\* history in which the user's choice was not seen in time (past.crossed).
ChoiceComesBack ==
  Settled /\ A.live = <<>> /\ ~past.crossed => pw.def \in {wish} \cup past.adrift

\* What audio.c says (lines 9-12): "the previous default comes back when the client
\* leaves (unless the user picked another output in the meantime)".
PreviousComesBack == Settled /\ A.live = <<>> => pw.def = wish

=============================================================================
