-------------------------------- MODULE Cards --------------------------------
(***************************************************************************)
(* The evdi card tracker and the reset of server/evdi/evdi.c: which        *)
(* /dev/dri/card<n> the server may trust.  mutter never forgets a card     *)
(* number and ignores a new card that reuses one, the kernel hands out     *)
(* freed numbers again, and what mutter has seen is kept in a file because *)
(* the server restarts more often than gnome-shell.                        *)
(*                                                                         *)
(* evdi_add_usable sleeps between its steps, so the compositor, other      *)
(* users of evdi and a crash of the server come between them.              *)
(***************************************************************************)
EXTENDS Integers, FiniteSetsExt

CONSTANTS
  Nums,          \* card numbers: EVDI_MAX_CARDS in the code
  Count,         \* devices the reset makes: initial_device_count
  Attempts,      \* cards evdi_add_usable makes at most (24)
  IgnoreMax,     \* cards in a row gnome-shell may ignore (3)
  Watchable,     \* /proc/<pid>/fd of gnome-shell can be read
  MaxSessions,   \* bound on gnome-shell processes
  MaxRemovals,   \* bound on remove_all by others
  MaxCrashes     \* bound on deaths of the server

ASSUME CardsAssumption ==
  /\ {MaxRemovals, MaxCrashes} \subseteq Nat
  /\ {Count, Attempts, IgnoreMax, MaxSessions} \subseteq Nat \ {0}
  /\ Nums \subseteq Nat /\ Nums # {}
  /\ Watchable \in BOOLEAN

VARIABLES
  cards,         \* the cards that exist
  shell_pid,     \* the gnome-shell that runs, 0: none
  known,         \* numbers it has ever seen
  held,          \* cards it drives
  uevents,       \* cards whose hotplug it has not processed yet
  K,             \* the static struct K
  file,          \* $XDG_RUNTIME_DIR/sremfb-evdi-cards
  marker,        \* $XDG_RUNTIME_DIR/sremfb-evdi-reset exists
  job,           \* where the server is
  unsure,        \* numbers of the present shell whose check did not happen or
                 \* was disturbed: blind trust, a late pick-up, a late
                 \* node, a crash, a removal in the middle of it
  bound          \* counters of the bounds

cardsVars == <<cards, shell_pid, known, held, uevents, K, file, marker, job, unsure,
               bound>>

Verdicts == {"UNKNOWN", "OK", "DEAD"}

NoStates == [n \in Nums |-> "UNKNOWN"]

(***************************************************************************)
(* The tracker.                                                            *)
(***************************************************************************)
NotLoaded ==
  [loaded |-> FALSE, shell |-> 0, state |-> NoStates, no_verify |-> FALSE]

\* Mutant: the file is not read.
CardsLoadMemory ==
  IF K.loaded /\ K.shell = shell_pid THEN K
  ELSE [loaded |-> TRUE, shell |-> shell_pid, no_verify |-> FALSE,
        state |-> NoStates]

\* K after cards_load.
CardsLoad ==
  IF K.loaded /\ K.shell = shell_pid THEN K
  ELSE [loaded |-> TRUE, shell |-> shell_pid, no_verify |-> FALSE,
        state |-> IF shell_pid # 0 /\ file.shell = shell_pid THEN file.state
                  ELSE NoStates]

\* A verdict on card n, and cards_save.
CardsSave(k, n, verdict) ==
  /\ K' = [k EXCEPT !.state[n] = verdict]
  /\ file' = [shell |-> k.shell, state |-> [k.state EXCEPT ![n] = verdict]]

(***************************************************************************)
(* The server's position.  at: "down", "reset" (main), "probe" (the wait   *)
(* for a device), "idle" (the main loop), "add" (top of the loop of        *)
(* evdi_add_usable), "judge" (card was just made).  left counts the calls  *)
(* the reset still has to make, 0 in a self-heal.                          *)
(***************************************************************************)
At(where) == [at |-> where, card |-> 0, attempt |-> 0, ignored |-> 0, left |-> 0]

AddUsable(left) == [At("add") EXCEPT !.left = left]

\* evdi_add_usable returns, to self_heal_add or to the loop of the reset.
Return ==
  /\ job' = IF job.left > 1 THEN AddUsable(job.left - 1)
            ELSE IF job.left = 1 THEN At("probe") ELSE At("idle")
  /\ marker' = (marker \/ job.left = 1)

\* The next turn of its loop, or the end of it.
Again(ignored) ==
  IF job.attempt + 1 = Attempts THEN Return
  ELSE /\ job' = [job EXCEPT !.at = "add", !.card = 0, !.ignored = ignored,
                             !.attempt = @ + 1]
       /\ UNCHANGED marker

(***************************************************************************)
(* evdi_add_usable.                                                        *)
(***************************************************************************)
\* evdi_add_one: the kernel gives the lowest free number.
AddOne ==
  LET n == Min(Nums \ cards)
  IN  /\ job.at = "add" /\ Nums \ cards # {}
      /\ cards' = cards \cup {n}
      /\ uevents' = IF shell_pid = 0 THEN uevents ELSE uevents \cup {n}
      /\ K' = IF job.attempt = 0 THEN CardsLoad ELSE K
      /\ job' = [job EXCEPT !.at = "judge", !.card = n]
      /\ UNCHANGED <<shell_pid, known, held, file, marker, unsure, bound>>

\* evdi_add_one fails: no permission.
AddFailed ==
  /\ job.at = "add"
  /\ K' = IF job.attempt = 0 THEN CardsLoad ELSE K
  /\ Return
  /\ UNCHANGED <<cards, shell_pid, known, held, uevents, file, unsure, bound>>

\* evdi_add_one fails although the kernel made the card: its node does not appear in time,
\* and nobody will judge it.
AddUnseen ==
  LET n == Min(Nums \ cards)
  IN  /\ job.at = "add" /\ Nums \ cards # {}
      /\ cards' = cards \cup {n}
      /\ uevents' = IF shell_pid = 0 THEN uevents ELSE uevents \cup {n}
      /\ K' = IF job.attempt = 0 THEN CardsLoad ELSE K
      /\ Return
      /\ unsure' = unsure \cup {n}
      /\ UNCHANGED <<shell_pid, known, held, file, bound>>

\* Mutant: a number that was fine before is fine again.
ReusedTrusted ==
  /\ job.at = "judge" /\ K.state[job.card] # "UNKNOWN"
  /\ IF K.state[job.card] = "OK" THEN Return ELSE Again(job.ignored)
  /\ UNCHANGED <<cards, shell_pid, known, held, uevents, K, file, unsure, bound>>

\* A number the compositor knows: dead on arrival.
Reused ==
  /\ job.at = "judge" /\ K.state[job.card] # "UNKNOWN"
  /\ CardsSave(K, job.card, "DEAD")
  /\ Again(job.ignored)
  /\ UNCHANGED <<cards, shell_pid, known, held, uevents, unsure, bound>>

\* The number is new and has to be seen with the compositor.
Verifying ==
  /\ job.at = "judge" /\ K.state[job.card] = "UNKNOWN"
  /\ K.shell # 0 /\ ~K.no_verify

\* compositor_holds can tell: the process K was loaded for still runs.
CanTell == Watchable /\ K.shell = shell_pid

\* No compositor, or no checking any more.
Blind ==
  /\ job.at = "judge" /\ K.state[job.card] = "UNKNOWN"
  /\ K.shell = 0 \/ K.no_verify
  /\ CardsSave(K, job.card, "OK")
  /\ Return
  /\ unsure' = unsure \cup {job.card}
  /\ UNCHANGED <<cards, shell_pid, known, held, uevents, bound>>

\* gnome-shell opened it.
PickedUp ==
  /\ Verifying /\ CanTell /\ job.card \in held
  /\ CardsSave(K, job.card, "OK")
  /\ Return
  /\ UNCHANGED <<cards, shell_pid, known, held, uevents, unsure, bound>>

CannotTell ==
  /\ Verifying /\ ~CanTell
  /\ CardsSave([K EXCEPT !.no_verify = TRUE], job.card, "OK")
  /\ Return
  /\ unsure' = unsure \cup {job.card}
  /\ UNCHANGED <<cards, shell_pid, known, held, uevents, bound>>

\* The 1.5 s are over, and gnome-shell may have refused the card or only be
\* slow; after IgnoreMax of these the checking stops.
Ignored ==
  /\ Verifying /\ CanTell /\ job.card \notin held
  /\ CardsSave([K EXCEPT !.no_verify = job.ignored + 1 >= IgnoreMax],
            job.card, "DEAD")
  /\ Again(job.ignored + 1)
  /\ unsure' = unsure \cup ({job.card} \cap uevents)
  /\ UNCHANGED <<cards, shell_pid, known, held, uevents, bound>>

(***************************************************************************)
(* main and sremfb_evdi_reset.                                             *)
(***************************************************************************)
\* The cards that may be handed to a client: card_dead is not among them.
Usable(k) == {n \in cards : k.state[n] # "DEAD"}

\* A restart in the same session, another process on a card, or no write
\* access to /sys/devices/evdi.
ResetSkipped ==
  /\ job.at = "reset"
  /\ K' = CardsLoad
  /\ job' = At("probe")
  /\ UNCHANGED <<cards, shell_pid, known, held, uevents, file, marker, unsure, bound>>

\* remove_all, which may be refused, then the additions one by one.
ResetDone ==
  /\ job.at = "reset"
  /\ ~(marker /\ Usable(CardsLoad) # {})
  /\ K' = CardsLoad
  /\ \/ cards' = {} /\ held' = {} /\ uevents' = {}
     \/ UNCHANGED <<cards, held, uevents>>
  /\ job' = AddUsable(Count)
  /\ UNCHANGED <<shell_pid, known, file, marker, unsure, bound>>

\* The loop of main: serve, or reset again while there is no device.
Probed ==
  /\ job.at = "probe"
  /\ job' = IF cards # {} THEN At("idle") ELSE At("reset")
  /\ UNCHANGED <<cards, shell_pid, known, held, uevents, K, file, marker, unsure,
                 bound>>

\* main gives up on it and exits.
GiveUp ==
  /\ job.at = "probe" /\ cards = {}
  /\ job' = At("down")
  /\ K' = NotLoaded
  /\ UNCHANGED <<cards, shell_pid, known, held, uevents, file, marker, unsure, bound>>

\* self_heal_add, for a client whose device has to be a new one.
SelfHeal ==
  /\ job.at = "idle"
  /\ job' = AddUsable(0)
  /\ UNCHANGED <<cards, shell_pid, known, held, uevents, K, file, marker, unsure,
                 bound>>

\* card_dead, when sremfb_evdi_acquire looks through the cards.
Look ==
  /\ job.at = "idle" /\ K # CardsLoad
  /\ K' = CardsLoad
  /\ UNCHANGED <<cards, shell_pid, known, held, uevents, file, marker, job, unsure,
                 bound>>

Start ==
  /\ job.at = "down"
  /\ job' = At("reset")
  /\ UNCHANGED <<cards, shell_pid, known, held, uevents, K, file, marker, unsure,
                 bound>>

\* The server dies, with a card it has made and not judged perhaps.
Crash ==
  /\ job.at # "down" /\ bound.crashes < MaxCrashes
  /\ bound' = [bound EXCEPT !.crashes = @ + 1]
  /\ job' = At("down")
  /\ K' = NotLoaded
  /\ unsure' = IF job.at = "judge" THEN unsure \cup {job.card} ELSE unsure
  /\ UNCHANGED <<cards, shell_pid, known, held, uevents, file, marker>>

(***************************************************************************)
(* The compositor and other users of evdi (external).                      *)
(***************************************************************************)
\* mutter processes a hotplug: a number it knows is a duplicate.
Hotplug(n) ==
  /\ shell_pid # 0 /\ n \in uevents
  /\ uevents' = uevents \ {n}
  /\ known' = known \cup {n}
  /\ held' = IF n \in known THEN held ELSE held \cup {n}
  /\ UNCHANGED <<cards, shell_pid, K, file, marker, job, unsure, bound>>

\* A session starts and opens every card there is.
ShellStarts ==
  /\ shell_pid = 0 /\ bound.shells < MaxSessions
  /\ bound' = [bound EXCEPT !.shells = @ + 1]
  /\ shell_pid' = bound.shells + 1
  /\ known' = cards /\ held' = cards /\ uevents' = {}
  /\ UNCHANGED <<cards, K, file, marker, job, unsure>>

\* It ends; $XDG_RUNTIME_DIR may go with it.
ShellStops(wiped) ==
  /\ shell_pid # 0
  /\ shell_pid' = 0
  /\ known' = {} /\ held' = {} /\ uevents' = {} /\ unsure' = {}
  /\ marker' = (marker /\ ~wiped)
  /\ file' = IF wiped THEN [shell |-> 0, state |-> NoStates] ELSE file
  /\ UNCHANGED <<cards, K, job, bound>>

\* remove_all by a game mode or an administrator.
RemoveAll ==
  /\ cards # {} /\ bound.removals < MaxRemovals
  /\ bound' = [bound EXCEPT !.removals = @ + 1]
  /\ cards' = {} /\ held' = {} /\ uevents' = {}
  /\ unsure' = IF job.at = "judge" THEN unsure \cup {job.card} ELSE unsure
  /\ UNCHANGED <<shell_pid, known, K, file, marker, job>>

CardsInit ==
  /\ cards \in SUBSET Nums
  /\ shell_pid = 1 /\ known = cards /\ held = cards /\ uevents = {}
  /\ K = NotLoaded
  /\ file = [shell |-> 0, state |-> NoStates]
  /\ marker = FALSE
  /\ job = At("down")
  /\ unsure = {}
  /\ bound = [shells |-> 1, removals |-> 0, crashes |-> 0]

CardsNext ==
  \/ Start \/ ResetSkipped \/ ResetDone \/ Probed \/ GiveUp
  \/ SelfHeal \/ Look
  \/ AddOne \/ AddFailed \/ AddUnseen
  \/ Reused \/ Blind \/ PickedUp \/ CannotTell \/ Ignored
  \/ Crash
  \/ \E n \in Nums : Hotplug(n)
  \/ ShellStarts
  \/ \E wiped \in BOOLEAN : ShellStops(wiped)
  \/ RemoveAll

CardsSpec == CardsInit /\ [][CardsNext]_cardsVars

(***************************************************************************)
(* Properties.                                                             *)
(***************************************************************************)
\* Types; what is driven exists and is known, and evdi_add_usable ends.
CardsTypeOK ==
  /\ cards \subseteq Nums /\ held \subseteq cards \cap known
  /\ uevents \subseteq cards /\ known \subseteq Nums
  /\ shell_pid \in 0 .. MaxSessions
  /\ K.state \in [Nums -> Verdicts] /\ file.state \in [Nums -> Verdicts]
  /\ job.attempt < Attempts /\ job.left <= Count

\* A card on record as usable lights up: unless the server had to trust it
\* blindly, the compositor drives every such card that exists, through resets,
\* removals by others, crashes and reused numbers (evdi_add_usable).
UsableLights ==
  shell_pid # 0 /\ file.shell = shell_pid =>
    \A n \in cards : file.state[n] = "OK" =>
      n \in held \cup unsure \/ (job.at = "judge" /\ n = job.card)

\* The record lives as long as gnome-shell: a number it holds stays recorded,
\* and a dead one stays dead, over restarts of the server (cards_load).
Remembered ==
  [][shell_pid' = shell_pid /\ shell_pid # 0 /\ file.shell = shell_pid =>
       /\ file'.shell = shell_pid
       /\ \A n \in Nums :
            /\ file.state[n] # "UNKNOWN" => file'.state[n] # "UNKNOWN"
            /\ file.state[n] = "DEAD" => file'.state[n] = "DEAD"]_cardsVars

\* Once the session's reset is done, no start of the server takes a card away
\* that the compositor drives (sremfb_evdi_reset: "must NOT run on a
\* mid-session restart"), except one whose check was disturbed.
ResetSpares ==
  [][ResetDone /\ marker => held \subseteq unsure]_cardsVars

\* A restart neither forgets a number the compositor holds nor takes its card away.
RestartSafe == Remembered /\ ResetSpares

=============================================================================
