----------------------------- MODULE EvdiProofs -----------------------------
(***************************************************************************)
(* Theorems on Cards and PlugGate, for every number of cards and clients   *)
(* and every bound: what is on record as usable lights up, the record      *)
(* lives as long as gnome-shell, a restart takes no card away that it      *)
(* drives; the gate's list follows the history, the caps and the backoff   *)
(* are kept, and the time until which clients are refused is right.        *)
(***************************************************************************)
EXTENDS Cards, PlugGate, SequenceTheorems, FiniteSetTheorems, WellFoundedInduction, TLAPS

(***************************************************************************)
(* The inductive invariant.                                                *)
(***************************************************************************)
Places == {"down", "reset", "probe", "idle", "add", "judge"}
States == [Nums -> Verdicts]
TrackerTypes == [loaded : BOOLEAN, shell : Nat, state : States, no_verify : BOOLEAN]
FileTypes == [shell : Nat, state : States]
JobTypes == [at : Places, card : Nat, attempt : Nat, ignored : Nat, left : Nat]
BoundTypes == [shells : Nat, removals : Nat, crashes : Nat]

JobOk(j) ==
  /\ j \in JobTypes
  /\ j.attempt < Attempts /\ j.left <= Count
  /\ j.at = "judge" => j.card \in Nums

CardsTyped ==
  /\ cards \subseteq Nums /\ known \subseteq Nums
  /\ K \in TrackerTypes /\ file \in FileTypes /\ bound \in BoundTypes
  /\ JobOk(job)

\* A gnome-shell has a pid of its own: a record of an older one never fits.
Pids ==
  /\ shell_pid \in {0, bound.shells} /\ bound.shells <= MaxSessions
  /\ file.shell <= bound.shells /\ K.shell <= bound.shells

\* What gnome-shell drives exists and is known; it has seen every card, or
\* its hotplug is under way.
Driven ==
  /\ held \subseteq cards \cap known /\ uevents \subseteq cards
  /\ shell_pid = 0 => held = {}
  /\ shell_pid # 0 => cards \subseteq known \cup uevents

\* The record for the present gnome-shell.
Recorded == IF file.shell = shell_pid THEN file.state ELSE NoStates

\* The server has loaded the record before it uses it.
Loaded == job.at \in {"probe", "idle", "add", "judge"} => K.loaded

\* What it has in memory for the present gnome-shell is what is in the file.
Mirror ==
  shell_pid # 0 /\ K.loaded =>
    /\ K.shell = shell_pid => K.state = Recorded
    /\ file.shell = shell_pid => K.shell = shell_pid

\* gnome-shell knows the numbers on record: it will refuse them.
Seen ==
  shell_pid # 0 => \A n \in Nums : Recorded[n] # "UNKNOWN" => n \in known \cup unsure

\* It drives none of the dead ones.
DeadDark ==
  shell_pid # 0 => \A n \in held : Recorded[n] = "DEAD" => n \in unsure

\* The card under judgement is there, and dark if its number is on record.
Judging ==
  job.at = "judge" /\ shell_pid # 0 =>
    /\ K.shell = shell_pid => job.card \in cards \cup unsure
    /\ Recorded[job.card] # "UNKNOWN" => job.card \notin held \/ job.card \in unsure

\* UsableLights, of the record.
Lights ==
  shell_pid # 0 =>
    \A n \in cards : Recorded[n] = "OK" =>
      n \in held \cup unsure \/ (job.at = "judge" /\ n = job.card)

CardsInv ==
  CardsTyped /\ Pids /\ Driven /\ Loaded /\ Mirror /\ Seen /\ DeadDark /\ Judging /\ Lights

-----------------------------------------------------------------------------
(* Lemmas. *)

LEMMA LowestFree ==
  ASSUME NEW S, S \subseteq Nat, S # {}
  PROVE  Min(S) \in S
<1> DEFINE R == OpToRel(<, Nat)
<1>1. IsWellFoundedOn(R, Nat)
  BY NatLessThanWellFounded
<1>2. \A x, y \in Nat : <<y, x>> \in R <=> y < x
  BY DEF OpToRel
<1> HIDE DEF R
<1>3. PICK x \in S : \A y \in S : ~(<<y, x>> \in R)
  BY <1>1, WFMin
<1>4. ASSUME NEW y \in S
      PROVE  x =< y
  <2>1. x \in Nat /\ y \in Nat /\ ~(<<y, x>> \in R)
    BY <1>3
  <2>2. ~(y < x)
    BY <1>2, <2>1
  <2> QED BY <2>1, <2>2
<1> QED BY <1>3, <1>4 DEF Min

LEMMA NoStatesTyped == NoStates \in States /\ \A n \in Nums : NoStates[n] = "UNKNOWN"
BY DEF NoStates, States, Verdicts

LEMMA NotLoadedTyped ==
  NotLoaded \in TrackerTypes /\ ~NotLoaded.loaded /\ NotLoaded.shell = 0
<1>1. FALSE \in BOOLEAN
  OBVIOUS
<1> QED BY <1>1, NoStatesTyped DEF NotLoaded, TrackerTypes

LEMMA AtOk ==
  ASSUME NEW where \in Places, where # "judge"
  PROVE  JobOk(At(where)) /\ At(where).at = where
BY CardsAssumption DEF At, JobOk, JobTypes

LEMMA AddOk ==
  ASSUME NEW left \in Nat, left <= Count
  PROVE  JobOk(AddUsable(left)) /\ AddUsable(left).at = "add"
BY CardsAssumption DEF AddUsable, At, JobOk, JobTypes, Places

\* Whatever evdi_add_usable does next, it is not judging.
LEMMA ReturnOk ==
  ASSUME JobOk(job), Return
  PROVE  JobOk(job') /\ job'.at \in {"add", "probe", "idle"}
<1>1. job.left \in Nat /\ job.left <= Count /\ Count \in Nat
  BY CardsAssumption DEF JobOk, JobTypes
<1>2. CASE job.left > 1
  <2>1. job' = AddUsable(job.left - 1) /\ job.left - 1 \in Nat /\ job.left - 1 <= Count
    BY <1>1, <1>2 DEF Return
  <2> QED BY <2>1, AddOk
<1>3. CASE job.left = 1
  BY <1>3, AtOk DEF Return, Places
<1>4. CASE job.left = 0
  BY <1>4, AtOk DEF Return, Places
<1> QED BY <1>1, <1>2, <1>3, <1>4

LEMMA AgainOk ==
  ASSUME JobOk(job), NEW i \in Nat, Again(i)
  PROVE  JobOk(job') /\ job'.at \in {"add", "probe", "idle"}
<1>1. CASE job.attempt + 1 = Attempts
  BY <1>1, ReturnOk DEF Again
<1>2. CASE job.attempt + 1 # Attempts
  <2>1. /\ job \in JobTypes /\ job.attempt \in Nat /\ job.attempt + 1 < Attempts
        /\ job.left <= Count /\ Attempts \in Nat
    BY <1>2, CardsAssumption DEF JobOk, JobTypes
  <2>2. job' = [job EXCEPT !.at = "add", !.card = 0, !.ignored = i, !.attempt = job.attempt + 1]
    BY <1>2 DEF Again
  <2> DEFINE k == job.attempt + 1
  <2>3. k \in Nat /\ k < Attempts /\ "add" \in Places /\ 0 \in Nat
    BY <2>1 DEF Places
  <2>4. job' = [job EXCEPT !.at = "add", !.card = 0, !.ignored = i, !.attempt = k]
    BY <2>2
  <2> HIDE DEF k
  <2>5. job' \in JobTypes /\ job'.at = "add" /\ job'.attempt = k /\ job'.left = job.left
    BY <2>1, <2>3, <2>4 DEF JobTypes
  <2> QED BY <2>1, <2>3, <2>5 DEF JobOk
<1> QED BY <1>1, <1>2

\* cards_load: what the server has in memory then is what is on record.
LEMMA LoadIs ==
  ASSUME CardsInv
  PROVE  /\ CardsLoad \in TrackerTypes /\ CardsLoad.loaded /\ CardsLoad.shell = shell_pid
         /\ shell_pid # 0 => CardsLoad.state = Recorded
<1>1. K \in TrackerTypes /\ file \in FileTypes /\ shell_pid \in Nat
  BY DEF CardsInv, CardsTyped, Pids, BoundTypes
<1>2. CASE K.loaded /\ K.shell = shell_pid
  BY <1>1, <1>2 DEF CardsLoad, CardsInv, Mirror
<1>3. CASE ~(K.loaded /\ K.shell = shell_pid)
  <2> DEFINE sts == IF shell_pid # 0 /\ file.shell = shell_pid THEN file.state ELSE NoStates
  <2>1. CardsLoad = [loaded |-> TRUE, shell |-> shell_pid, no_verify |-> FALSE, state |-> sts]
    BY <1>3 DEF CardsLoad
  <2>2. sts \in States /\ TRUE \in BOOLEAN /\ FALSE \in BOOLEAN
    BY <1>1, NoStatesTyped DEF FileTypes
  <2>3. shell_pid # 0 => sts = Recorded
    BY DEF Recorded
  <2> HIDE DEF sts
  <2> QED BY <1>1, <2>1, <2>2, <2>3 DEF TrackerTypes
<1> QED BY <1>2, <1>3

-----------------------------------------------------------------------------
(* evdi_add_usable. *)

\* A verdict, and cards_save: the record changes at the card judged, and only
\* if gnome-shell is still the one the record was loaded for.
LEMMA SaveIs ==
  ASSUME CardsInv, job.at = "judge", NEW k \in TrackerTypes, k.loaded,
         k.shell = K.shell, k.state = K.state, NEW v \in Verdicts,
         CardsSave(k, job.card, v), UNCHANGED shell_pid
  PROVE  /\ K' \in TrackerTypes /\ file' \in FileTypes /\ K'.loaded
         /\ K'.shell = K.shell /\ file'.shell = K.shell
         /\ K'.state = file'.state
         /\ shell_pid # 0 => Recorded' = IF K.shell = shell_pid
                                         THEN [Recorded EXCEPT ![job.card] = v] ELSE Recorded
<1> DEFINE sts == [K.state EXCEPT ![job.card] = v]
<1>1. /\ K \in TrackerTypes /\ file \in FileTypes /\ job.card \in Nums /\ K.loaded
      /\ K.state \in States /\ Mirror
  BY DEF CardsInv, CardsTyped, JobOk, Loaded, TrackerTypes
<1>2. sts \in States
  BY <1>1 DEF States
<1>3. K' = [k EXCEPT !.state = sts] /\ file' = [shell |-> k.shell, state |-> sts]
  <2>1. k.state = K.state /\ k \in TrackerTypes
    OBVIOUS
  <2>2. K' = [k EXCEPT !.state = [k.state EXCEPT ![job.card] = v]]
    BY DEF CardsSave
  <2>3. file' = [shell |-> k.shell, state |-> [k.state EXCEPT ![job.card] = v]]
    BY DEF CardsSave
  <2> QED BY <2>1, <2>2, <2>3
<1>4. shell_pid # 0 /\ K.shell = shell_pid => sts = [Recorded EXCEPT ![job.card] = v]
  BY <1>1 DEF Mirror
<1>5. shell_pid # 0 /\ K.shell # shell_pid => Recorded = NoStates
  BY <1>1 DEF Mirror, Recorded
<1> HIDE DEF sts
<1>6. /\ K' \in TrackerTypes /\ file' \in FileTypes /\ K'.loaded
      /\ K'.shell = K.shell /\ file'.shell = K.shell
      /\ K'.state = sts /\ file'.state = sts
  BY <1>1, <1>2, <1>3 DEF TrackerTypes, FileTypes
<1>7. Recorded' = IF file'.shell = shell_pid THEN file'.state ELSE NoStates
  BY DEF Recorded
<1> QED BY <1>4, <1>5, <1>6, <1>7

LEMMA RecordedTyped ==
  ASSUME CardsInv
  PROVE  Recorded \in States
BY NoStatesTyped DEF CardsInv, CardsTyped, FileTypes, Recorded

\* A verdict that fits what gnome-shell does with the card.
LEMMA VerdictKeeps ==
  ASSUME CardsInv, job.at = "judge", NEW k \in TrackerTypes, k.loaded,
         k.shell = K.shell, k.state = K.state, NEW v \in {"OK", "DEAD"},
         CardsSave(k, job.card, v),
         JobOk(job'), job'.at \in {"add", "probe", "idle"},
         UNCHANGED <<cards, shell_pid, known, held, uevents, bound>>,
         unsure \subseteq unsure',
         shell_pid # 0 /\ K.shell = shell_pid =>
            /\ job.card \in known \cup unsure'
            /\ v = "OK" => job.card \in held \cup unsure'
            /\ v = "DEAD" => job.card \notin held \/ job.card \in unsure'
  PROVE  CardsInv'
<1> DEFINE c == job.card
<1>1. v \in Verdicts
  BY DEF Verdicts
<1>2. /\ K' \in TrackerTypes /\ file' \in FileTypes /\ K'.loaded
      /\ K'.shell = K.shell /\ file'.shell = K.shell
      /\ K'.state = file'.state
      /\ shell_pid # 0 => Recorded' = IF K.shell = shell_pid
                                      THEN [Recorded EXCEPT ![c] = v] ELSE Recorded
  BY <1>1, SaveIs
<1>3. Recorded \in States /\ c \in Nums /\ held \subseteq Nums /\ cards \subseteq Nums
  BY RecordedTyped DEF CardsInv, CardsTyped, JobOk, Driven
<1>4. ASSUME shell_pid # 0, NEW n \in Nums
      PROVE  \/ Recorded'[n] = Recorded[n] /\ (n = c => K.shell # shell_pid)
             \/ n = c /\ Recorded'[n] = v /\ K.shell = shell_pid
  BY <1>2, <1>3, <1>4 DEF States
<1>5. CardsTyped'
  BY <1>2 DEF CardsInv, CardsTyped
<1>6. Pids' /\ Driven'
  BY <1>2 DEF CardsInv, Pids, Driven
<1>7. Loaded' /\ Judging'
  BY <1>2 DEF Loaded, Judging
<1>8. Mirror'
  BY <1>2 DEF Mirror, Recorded
<1>9. Seen'
  BY <1>4 DEF CardsInv, Seen
<1>10. DeadDark'
  BY <1>3, <1>4 DEF CardsInv, DeadDark
<1>11. Lights'
  <2> SUFFICES ASSUME shell_pid # 0, NEW n \in cards, Recorded'[n] = "OK"
               PROVE  n \in held \cup unsure'
    BY DEF Lights
  <2>1. CASE n = c /\ Recorded'[n] = v /\ K.shell = shell_pid
    BY <2>1
  <2>2. CASE Recorded'[n] = Recorded[n] /\ n # c
    BY <2>2 DEF CardsInv, Lights
  <2>3. CASE Recorded'[n] = Recorded[n] /\ n = c /\ K.shell # shell_pid
    <3>1. K.loaded
      BY DEF CardsInv, Loaded
    <3>2. Recorded = NoStates
      BY <2>3, <3>1 DEF CardsInv, Mirror, Recorded
    <3> QED BY <1>3, <2>3, <3>2, NoStatesTyped
  <2> QED BY <1>3, <1>4, <2>1, <2>2, <2>3
<1> QED BY <1>5, <1>6, <1>7, <1>8, <1>9, <1>10, <1>11 DEF CardsInv

\* Nobody judges and the record stands: only the server's place, and what it
\* has loaded, change.
LEMMA MovesKeeps ==
  ASSUME CardsInv, JobOk(job'), job'.at # "judge", job.at # "judge" \/ shell_pid = 0,
         K' = K \/ K' = CardsLoad, job'.at \in {"probe", "idle", "add"} => K'.loaded,
         UNCHANGED <<cards, shell_pid, known, held, uevents, file, unsure, bound>>
  PROVE  CardsInv'
<1>1. /\ CardsLoad \in TrackerTypes /\ CardsLoad.loaded /\ CardsLoad.shell = shell_pid
      /\ shell_pid # 0 => CardsLoad.state = Recorded
  BY LoadIs
<1>2. /\ K' \in TrackerTypes /\ K'.shell \in {K.shell, shell_pid}
  BY <1>1 DEF CardsInv, CardsTyped
<1>3. shell_pid \in Nat /\ shell_pid <= bound.shells
  BY DEF CardsInv, CardsTyped, Pids, BoundTypes
<1>4. CardsTyped' /\ Pids' /\ Driven'
  BY <1>2, <1>3 DEF CardsInv, CardsTyped, Pids, Driven
<1>5. Loaded' /\ Judging'
  BY DEF Loaded, Judging
<1>6. Recorded' = Recorded
  BY DEF Recorded
<1>7. Mirror'
  BY <1>1, <1>6 DEF CardsInv, Mirror
<1>8. Seen' /\ DeadDark'
  BY <1>6 DEF CardsInv, Seen, DeadDark
<1>9. Lights'
  BY <1>6 DEF CardsInv, Lights
<1> QED BY <1>4, <1>5, <1>7, <1>8, <1>9 DEF CardsInv

\* evdi_add_one: the number is new, and its hotplug is on its way.
LEMMA AddOneKeeps ==
  ASSUME CardsInv, AddOne
  PROVE  CardsInv'
<1> DEFINE n == Min(Nums \ cards)
<1>1. /\ job.at = "add" /\ Nums \ cards # {} /\ cards' = cards \cup {n}
      /\ uevents' = (IF shell_pid = 0 THEN uevents ELSE uevents \cup {n})
      /\ K' = K \/ K' = CardsLoad
      /\ job' = [job EXCEPT !.at = "judge", !.card = n]
      /\ UNCHANGED <<shell_pid, known, held, file, unsure, bound>>
  BY DEF AddOne
<1>2. n \in Nums \ cards
  BY <1>1, LowestFree, CardsAssumption
<1>3. n \in Nat
  BY <1>2, CardsAssumption
<1> HIDE DEF n
<1>4. /\ JobOk(job') /\ job'.at = "judge" /\ job'.card = n
  BY <1>1, <1>2, <1>3 DEF CardsInv, CardsTyped, JobOk, JobTypes, Places
<1>5. /\ CardsLoad \in TrackerTypes /\ CardsLoad.loaded /\ CardsLoad.shell = shell_pid
      /\ shell_pid # 0 => CardsLoad.state = Recorded
  BY LoadIs
<1>6. K' \in TrackerTypes /\ K'.shell \in {K.shell, shell_pid} /\ K'.loaded
  BY <1>1, <1>5 DEF CardsInv, CardsTyped, Loaded
<1>7. shell_pid \in Nat /\ shell_pid <= bound.shells
  BY DEF CardsInv, CardsTyped, Pids, BoundTypes
<1>8. CardsTyped'
  BY <1>1, <1>2, <1>4, <1>6 DEF CardsInv, CardsTyped
<1>9. Pids'
  BY <1>1, <1>6, <1>7 DEF CardsInv, Pids
<1>10. Driven'
  BY <1>1 DEF CardsInv, Driven
<1>11. Recorded' = Recorded
  BY <1>1 DEF Recorded
<1>12. Loaded'
  BY <1>6 DEF Loaded
<1>13. Mirror'
  BY <1>1, <1>5, <1>11 DEF CardsInv, Mirror
<1>14. Seen' /\ DeadDark'
  BY <1>1, <1>11 DEF CardsInv, Seen, DeadDark
<1>15. Judging'
  BY <1>1, <1>2, <1>4 DEF CardsInv, Driven, Judging
<1>16. Lights'
  BY <1>1, <1>4, <1>11 DEF CardsInv, Lights
<1> QED BY <1>8, <1>9, <1>10, <1>12, <1>13, <1>14, <1>15, <1>16 DEF CardsInv

\* The card is there and nobody judges it.
LEMMA AddUnseenKeeps ==
  ASSUME CardsInv, AddUnseen
  PROVE  CardsInv'
<1> DEFINE n == Min(Nums \ cards)
<1>1. /\ job.at = "add" /\ Nums \ cards # {} /\ cards' = cards \cup {n}
      /\ uevents' = (IF shell_pid = 0 THEN uevents ELSE uevents \cup {n})
      /\ K' = K \/ K' = CardsLoad
      /\ Return /\ unsure' = unsure \cup {n}
      /\ UNCHANGED <<shell_pid, known, held, file, bound>>
  BY DEF AddUnseen
<1>2. n \in Nums \ cards
  BY <1>1, LowestFree, CardsAssumption
<1> HIDE DEF n
<1>3. JobOk(job') /\ job'.at \in {"add", "probe", "idle"}
  BY <1>1, ReturnOk DEF CardsInv, CardsTyped
<1>4. /\ CardsLoad \in TrackerTypes /\ CardsLoad.loaded /\ CardsLoad.shell = shell_pid
      /\ shell_pid # 0 => CardsLoad.state = Recorded
  BY LoadIs
<1>5. K' \in TrackerTypes /\ K'.shell \in {K.shell, shell_pid} /\ K'.loaded
  BY <1>1, <1>4 DEF CardsInv, CardsTyped, Loaded
<1>6. shell_pid \in Nat /\ shell_pid <= bound.shells
  BY DEF CardsInv, CardsTyped, Pids, BoundTypes
<1>7. CardsTyped'
  BY <1>1, <1>2, <1>3, <1>5 DEF CardsInv, CardsTyped
<1>8. Pids'
  BY <1>1, <1>5, <1>6 DEF CardsInv, Pids
<1>9. Driven'
  BY <1>1 DEF CardsInv, Driven
<1>10. Recorded' = Recorded
  BY <1>1 DEF Recorded
<1>11. Loaded' /\ Judging'
  BY <1>3, <1>5 DEF Loaded, Judging
<1>12. Mirror'
  BY <1>1, <1>4, <1>10 DEF CardsInv, Mirror
<1>13. Seen' /\ DeadDark'
  BY <1>1, <1>10 DEF CardsInv, Seen, DeadDark
<1>14. Lights'
  BY <1>1, <1>10 DEF CardsInv, Lights
<1> QED BY <1>7, <1>8, <1>9, <1>11, <1>12, <1>13, <1>14 DEF CardsInv

\* A number on record is dark, and becomes dead.
LEMMA ReusedKeeps ==
  ASSUME CardsInv, Reused
  PROVE  CardsInv'
<1>1. /\ job.at = "judge" /\ K.state[job.card] # "UNKNOWN" /\ CardsSave(K, job.card, "DEAD")
      /\ Again(job.ignored)
      /\ UNCHANGED <<cards, shell_pid, known, held, uevents, unsure, bound>>
  BY DEF Reused
<1>2. /\ K \in TrackerTypes /\ K.loaded /\ job.card \in Nums /\ job.ignored \in Nat /\ JobOk(job)
  BY <1>1 DEF CardsInv, CardsTyped, Loaded, JobOk, JobTypes
<1>3. JobOk(job') /\ job'.at \in {"add", "probe", "idle"}
  BY <1>1, <1>2, AgainOk
<1>4. shell_pid # 0 /\ K.shell = shell_pid =>
        /\ job.card \in known \cup unsure
        /\ job.card \notin held \/ job.card \in unsure
  BY <1>1, <1>2 DEF CardsInv, Mirror, Seen, Judging
<1> QED BY <1>1, <1>2, <1>3, <1>4, VerdictKeeps

\* No compositor, no checking any more, or no way to tell: blind trust.
LEMMA TrustKeeps ==
  ASSUME CardsInv, Blind \/ CannotTell
  PROVE  CardsInv'
<1>1. /\ job.at = "judge" /\ Return /\ unsure' = unsure \cup {job.card}
      /\ UNCHANGED <<cards, shell_pid, known, held, uevents, bound>>
  BY DEF Blind, CannotTell, Verifying
<1>2. K \in TrackerTypes /\ K.loaded /\ JobOk(job) /\ TRUE \in BOOLEAN
  BY <1>1 DEF CardsInv, CardsTyped, Loaded
<1>3. JobOk(job') /\ job'.at \in {"add", "probe", "idle"}
  BY <1>1, <1>2, ReturnOk
<1>4. PICK k \in TrackerTypes : /\ k.loaded /\ k.shell = K.shell /\ k.state = K.state
                                /\ CardsSave(k, job.card, "OK")
  <2>1. CASE Blind
    BY <1>2, <2>1 DEF Blind
  <2>2. CASE CannotTell
    <3> DEFINE k == [K EXCEPT !.no_verify = TRUE]
    <3>1. k \in TrackerTypes /\ k.loaded /\ k.shell = K.shell /\ k.state = K.state
      BY <1>2 DEF TrackerTypes
    <3>2. CardsSave(k, job.card, "OK")
      BY <2>2 DEF CannotTell
    <3> QED BY <3>1, <3>2
  <2> QED BY <2>1, <2>2
<1> QED BY <1>1, <1>3, <1>4, VerdictKeeps

LEMMA PickedUpKeeps ==
  ASSUME CardsInv, PickedUp
  PROVE  CardsInv'
<1>1. /\ job.at = "judge" /\ Return /\ job.card \in held /\ CardsSave(K, job.card, "OK")
      /\ UNCHANGED <<cards, shell_pid, known, held, uevents, unsure, bound>>
  BY DEF PickedUp, Verifying
<1>2. K \in TrackerTypes /\ K.loaded /\ JobOk(job)
  BY <1>1 DEF CardsInv, CardsTyped, Loaded
<1>3. JobOk(job') /\ job'.at \in {"add", "probe", "idle"}
  BY <1>1, <1>2, ReturnOk
<1>4. job.card \in known
  BY <1>1 DEF CardsInv, Driven
<1> QED BY <1>1, <1>2, <1>3, <1>4, VerdictKeeps

\* gnome-shell has refused the card, or its hotplug is still under way and
\* the verdict unsure.
LEMMA IgnoredKeeps ==
  ASSUME CardsInv, Ignored
  PROVE  CardsInv'
<1> DEFINE b == job.ignored + 1 >= IgnoreMax
           k == [K EXCEPT !.no_verify = b]
<1>1. /\ job.at = "judge" /\ job.card \notin held /\ K.shell = shell_pid
      /\ CardsSave(k, job.card, "DEAD") /\ Again(job.ignored + 1)
      /\ unsure' = unsure \cup ({job.card} \cap uevents)
      /\ UNCHANGED <<cards, shell_pid, known, held, uevents, bound>>
  BY DEF Ignored, Verifying, CanTell
<1>2. /\ K \in TrackerTypes /\ K.loaded /\ JobOk(job) /\ b \in BOOLEAN
      /\ job.ignored + 1 \in Nat
  BY <1>1 DEF CardsInv, CardsTyped, Loaded, JobOk, JobTypes
<1> HIDE DEF b
<1>3. k \in TrackerTypes /\ k.loaded /\ k.shell = K.shell /\ k.state = K.state
  BY <1>2 DEF TrackerTypes
<1>4. JobOk(job') /\ job'.at \in {"add", "probe", "idle"}
  BY <1>1, <1>2, AgainOk
<1>5. shell_pid # 0 => job.card \in known \cup unsure'
  BY <1>1 DEF CardsInv, Judging, Driven
<1> HIDE DEF k
<1> QED BY <1>1, <1>3, <1>4, <1>5, VerdictKeeps

-----------------------------------------------------------------------------
(* main, the reset, and the other processes. *)

\* The server starts, waits for a device, serves or looks through the cards.
LEMMA LoopKeeps ==
  ASSUME CardsInv,
         ResetSkipped \/ Probed \/ SelfHeal \/ Look \/ Start \/ AddFailed
  PROVE  CardsInv'
<1>1. /\ job.at # "judge" /\ JobOk(job)
      /\ UNCHANGED <<cards, shell_pid, known, held, uevents, file, unsure, bound>>
      /\ K' = K \/ K' = CardsLoad
  BY DEF CardsInv, CardsTyped, ResetSkipped, Probed, SelfHeal, Look, Start, AddFailed
<1>2. CardsLoad.loaded
  BY LoadIs
<1>3. CASE ResetSkipped
  BY <1>1, <1>2, <1>3, AtOk, MovesKeeps DEF ResetSkipped, Places
<1>4. CASE Probed
  <2>1. K.loaded
    BY <1>4 DEF Probed, CardsInv, Loaded
  <2>2. JobOk(job') /\ job'.at \in {"idle", "reset"}
    BY <1>4, AtOk DEF Probed, Places
  <2>3. K' = K
    BY <1>4 DEF Probed
  <2> QED BY <1>1, <2>1, <2>2, <2>3, MovesKeeps
<1>5. CASE SelfHeal
  <2>1. K.loaded /\ K' = K /\ job' = AddUsable(0)
    BY <1>5 DEF SelfHeal, CardsInv, Loaded
  <2>2. JobOk(job') /\ job'.at = "add"
    BY <2>1, AddOk, CardsAssumption
  <2> QED BY <1>1, <2>1, <2>2, MovesKeeps
<1>6. CASE Look
  BY <1>1, <1>2, <1>6, MovesKeeps DEF Look
<1>7. CASE Start
  <2>1. JobOk(job') /\ job'.at = "reset"
    BY <1>7, AtOk DEF Start, Places
  <2> QED BY <1>1, <2>1, MovesKeeps
<1>8. CASE AddFailed
  <2>1. JobOk(job') /\ job'.at \in {"add", "probe", "idle"}
    BY <1>1, <1>8, ReturnOk DEF AddFailed
  <2>2. K'.loaded
    BY <1>1, <1>2, <1>8 DEF AddFailed, CardsInv, Loaded
  <2> QED BY <1>1, <2>1, <2>2, MovesKeeps
<1> QED BY <1>3, <1>4, <1>5, <1>6, <1>7, <1>8

\* The server ends: it leaves the file, and a card it had not judged.
LEMMA EndKeeps ==
  ASSUME CardsInv, GiveUp \/ Crash
  PROVE  CardsInv'
<1>1. /\ K' = NotLoaded /\ job' = At("down")
      /\ UNCHANGED <<cards, shell_pid, known, held, uevents, file>>
      /\ unsure \subseteq unsure' /\ (job.at = "judge" => job.card \in unsure')
  BY DEF GiveUp, Crash
<1>2. bound' \in BoundTypes /\ bound'.shells = bound.shells
  <2>1. bound \in BoundTypes
    BY DEF CardsInv, CardsTyped
  <2>2. CASE GiveUp
    BY <2>1, <2>2 DEF GiveUp
  <2>3. CASE Crash
    BY <2>1, <2>3 DEF Crash, BoundTypes
  <2> QED BY <2>2, <2>3
<1>3. JobOk(job') /\ job'.at = "down"
  BY <1>1, AtOk DEF Places
<1>4. K' \in TrackerTypes /\ ~K'.loaded /\ K'.shell = 0
  BY <1>1, NotLoadedTyped
<1>5. CardsTyped' /\ Driven'
  BY <1>1, <1>2, <1>3, <1>4 DEF CardsInv, CardsTyped, Driven
<1>6. Pids'
  BY <1>1, <1>2, <1>4 DEF CardsInv, Pids, BoundTypes
<1>7. Loaded' /\ Judging' /\ Mirror'
  BY <1>3, <1>4 DEF Loaded, Judging, Mirror
<1>8. Recorded' = Recorded
  BY <1>1 DEF Recorded
<1>9. Seen' /\ DeadDark'
  BY <1>1, <1>8 DEF CardsInv, Seen, DeadDark
<1>10. Lights'
  BY <1>1, <1>8 DEF CardsInv, Lights
<1> QED BY <1>5, <1>6, <1>7, <1>9, <1>10 DEF CardsInv

\* remove_all is refused: the cards stay, and more are made.
LEMMA RefusedKeeps ==
  ASSUME CardsInv, ResetDone, UNCHANGED <<cards, held, uevents>>
  PROVE  CardsInv'
<1>1. /\ job.at = "reset" /\ K' = CardsLoad /\ job' = AddUsable(Count)
      /\ UNCHANGED <<shell_pid, known, file, unsure, bound>>
  BY DEF ResetDone
<1>2. JobOk(job') /\ job'.at = "add"
  BY <1>1, AddOk, CardsAssumption
<1>3. CardsLoad.loaded
  BY LoadIs
<1> QED BY <1>1, <1>2, <1>3, MovesKeeps

\* All cards go at once.
LEMMA EmptiedKeeps ==
  ASSUME CardsInv, ResetDone \/ RemoveAll, cards' = {}, held' = {}, uevents' = {}
  PROVE  CardsInv'
<1>1. /\ cards' = {} /\ held' = {} /\ uevents' = {} /\ unsure \subseteq unsure'
      /\ UNCHANGED <<shell_pid, known, file>>
  BY DEF ResetDone, RemoveAll
<1>2. /\ CardsLoad \in TrackerTypes /\ CardsLoad.loaded /\ CardsLoad.shell = shell_pid
      /\ shell_pid # 0 => CardsLoad.state = Recorded
  BY LoadIs
<1>3. bound' \in BoundTypes /\ bound'.shells = bound.shells
  <2>1. bound \in BoundTypes
    BY DEF CardsInv, CardsTyped
  <2>2. CASE ResetDone
    BY <2>1, <2>2 DEF ResetDone
  <2>3. CASE RemoveAll
    BY <2>1, <2>3 DEF RemoveAll, BoundTypes
  <2> QED BY <2>2, <2>3
<1>4. /\ JobOk(job') /\ K' \in {K, CardsLoad} /\ (K' # K => K' = CardsLoad)
      /\ job'.at \in {"probe", "idle", "add", "judge"} => K'.loaded
      /\ job'.at = "judge" => job' = job /\ job.card \in unsure' /\ K' = K
  <2>1. CASE ResetDone
    <3>1. JobOk(job') /\ job'.at = "add" /\ K' = CardsLoad
      BY <2>1, AddOk, CardsAssumption DEF ResetDone
    <3> QED BY <1>2, <3>1
  <2>2. CASE RemoveAll
    BY <2>2 DEF RemoveAll, CardsInv, CardsTyped, Loaded
  <2> QED BY <2>1, <2>2
<1>5. K' \in TrackerTypes /\ K'.shell \in {K.shell, shell_pid}
  BY <1>2, <1>4 DEF CardsInv, CardsTyped
<1>6. CardsTyped'
  BY <1>1, <1>3, <1>4, <1>5 DEF CardsInv, CardsTyped
<1>7. Pids'
  BY <1>1, <1>3, <1>5 DEF CardsInv, CardsTyped, BoundTypes, Pids
<1>8. Driven' /\ Loaded' /\ DeadDark' /\ Lights'
  BY <1>1, <1>4 DEF Driven, Loaded, DeadDark, Lights
<1>9. Recorded' = Recorded
  BY <1>1 DEF Recorded
<1>10. Mirror'
  BY <1>1, <1>2, <1>4, <1>9 DEF CardsInv, Mirror
<1>11. Seen'
  BY <1>1, <1>9 DEF CardsInv, Seen
<1>12. Judging'
  BY <1>1, <1>4 DEF Judging
<1> QED BY <1>6, <1>7, <1>8, <1>10, <1>11, <1>12 DEF CardsInv

\* mutter processes a hotplug: it refuses a number on record.
LEMMA HotplugKeeps ==
  ASSUME CardsInv, NEW n \in Nums, Hotplug(n)
  PROVE  CardsInv'
<1>1. /\ shell_pid # 0 /\ n \in uevents /\ uevents' = uevents \ {n} /\ known' = known \cup {n}
      /\ held' = (IF n \in known THEN held ELSE held \cup {n})
      /\ UNCHANGED <<cards, shell_pid, K, file, job, unsure, bound>>
  BY DEF Hotplug
<1>2. CardsTyped' /\ Pids' /\ Loaded'
  BY <1>1 DEF CardsInv, CardsTyped, Pids, Loaded
<1>3. Driven'
  BY <1>1 DEF CardsInv, Driven
<1>4. Recorded' = Recorded
  BY <1>1 DEF Recorded
<1>5. n \in held' => n \in held \/ n \in unsure \/ Recorded[n] = "UNKNOWN"
  BY <1>1 DEF CardsInv, Seen
<1>6. Mirror' /\ Seen'
  BY <1>1, <1>4 DEF CardsInv, Mirror, Seen
<1>7. DeadDark'
  BY <1>1, <1>4, <1>5 DEF CardsInv, DeadDark
<1>8. Judging'
  BY <1>1, <1>4, <1>5 DEF CardsInv, Judging
<1>9. Lights'
  BY <1>1, <1>4 DEF CardsInv, Lights
<1> QED BY <1>2, <1>3, <1>6, <1>7, <1>8, <1>9 DEF CardsInv

\* A new gnome-shell: nothing on record is about it.
LEMMA ShellStartsKeeps ==
  ASSUME CardsInv, ShellStarts
  PROVE  CardsInv'
<1> DEFINE p == bound.shells + 1
<1>1. /\ bound \in BoundTypes /\ bound.shells \in Nat /\ MaxSessions \in Nat
      /\ file.shell \in Nat /\ K.shell \in Nat
      /\ file.shell <= bound.shells /\ K.shell <= bound.shells
  BY CardsAssumption DEF CardsInv, CardsTyped, Pids, BoundTypes, FileTypes, TrackerTypes
<1>2. /\ bound' = [bound EXCEPT !.shells = p] /\ shell_pid' = p
      /\ known' = cards /\ held' = cards /\ uevents' = {}
      /\ bound.shells < MaxSessions
      /\ UNCHANGED <<cards, K, file, job, unsure>>
  BY DEF ShellStarts
<1>3. p \in Nat /\ p # 0 /\ p # file.shell /\ p # K.shell /\ p <= MaxSessions
      /\ file.shell <= p /\ K.shell <= p
  BY <1>1, <1>2
<1> HIDE DEF p
<1>4. bound' \in BoundTypes /\ bound'.shells = p
  BY <1>1, <1>2, <1>3 DEF BoundTypes
<1>5. CardsTyped' /\ Pids' /\ Driven' /\ Loaded'
  BY <1>2, <1>3, <1>4 DEF CardsInv, CardsTyped, Pids, Driven, Loaded
<1>6. Recorded' = NoStates
  BY <1>2, <1>3 DEF Recorded
<1>7. Mirror'
  BY <1>2, <1>3 DEF Mirror
<1>8. job.at = "judge" => job.card \in Nums
  BY DEF CardsInv, CardsTyped, JobOk
<1>9. Seen' /\ DeadDark' /\ Judging' /\ Lights'
  <2>1. cards \subseteq Nums
    BY DEF CardsInv, CardsTyped
  <2> QED BY <1>2, <1>3, <1>6, <1>8, <2>1, NoStatesTyped DEF Seen, DeadDark, Judging, Lights
<1> QED BY <1>5, <1>7, <1>9 DEF CardsInv

LEMMA ShellStopsKeeps ==
  ASSUME CardsInv, NEW wiped \in BOOLEAN, ShellStops(wiped)
  PROVE  CardsInv'
<1>1. /\ shell_pid' = 0 /\ known' = {} /\ held' = {} /\ uevents' = {}
      /\ UNCHANGED <<cards, K, job, bound>>
      /\ file' = file \/ file' = [shell |-> 0, state |-> NoStates]
  BY DEF ShellStops
<1>2. file' \in FileTypes /\ file'.shell \in {0, file.shell}
  BY <1>1, NoStatesTyped DEF CardsInv, CardsTyped, FileTypes
<1>3. CardsTyped' /\ Pids' /\ Driven' /\ Loaded'
  BY <1>1, <1>2 DEF CardsInv, CardsTyped, Pids, Driven, Loaded, BoundTypes
<1>4. Mirror' /\ Seen' /\ DeadDark' /\ Judging' /\ Lights'
  BY <1>1 DEF Mirror, Seen, DeadDark, Judging, Lights
<1> QED BY <1>3, <1>4 DEF CardsInv

LEMMA CardsStep == CardsInv /\ [CardsNext]_cardsVars => CardsInv'
<1> SUFFICES ASSUME CardsInv, [CardsNext]_cardsVars
             PROVE  CardsInv'
  OBVIOUS
<1>1. CASE UNCHANGED cardsVars
  BY <1>1 DEF cardsVars, CardsInv, CardsTyped, Pids, Driven, Loaded, Mirror, Seen, DeadDark,
       Judging, Lights, Recorded
<1>2. CASE ResetSkipped \/ Probed \/ SelfHeal \/ Look \/ Start \/ AddFailed
  BY <1>2, LoopKeeps
<1>3. CASE AddOne \/ AddUnseen
  BY <1>3, AddOneKeeps, AddUnseenKeeps
<1>4. CASE Reused \/ Blind \/ CannotTell \/ PickedUp \/ Ignored
  BY <1>4, ReusedKeeps, TrustKeeps, PickedUpKeeps, IgnoredKeeps
<1>5. CASE GiveUp \/ Crash
  BY <1>5, EndKeeps
<1>6. CASE ResetDone \/ RemoveAll
  <2>1. CASE cards' = {} /\ held' = {} /\ uevents' = {}
    BY <1>6, <2>1, EmptiedKeeps
  <2>2. CASE ResetDone /\ UNCHANGED <<cards, held, uevents>>
    BY <2>2, RefusedKeeps
  <2> QED BY <1>6, <2>1, <2>2 DEF ResetDone, RemoveAll
<1>7. ASSUME NEW n \in Nums, Hotplug(n)
      PROVE  CardsInv'
  BY <1>7, HotplugKeeps
<1>8. CASE ShellStarts
  BY <1>8, ShellStartsKeeps
<1>9. ASSUME NEW wiped \in BOOLEAN, ShellStops(wiped)
      PROVE  CardsInv'
  BY <1>9, ShellStopsKeeps
<1> QED BY <1>1, <1>2, <1>3, <1>4, <1>5, <1>6, <1>7, <1>8, <1>9 DEF CardsNext

LEMMA CardsStart == CardsInit => CardsInv
<1> SUFFICES ASSUME CardsInit
             PROVE  CardsInv
  OBVIOUS
<1>1. /\ K \in TrackerTypes /\ ~K.loaded /\ K.shell = 0
  BY NotLoadedTyped DEF CardsInit
<1>2. JobOk(job) /\ job.at = "down"
  BY AtOk DEF CardsInit, Places
<1>3. file \in FileTypes /\ file.shell = 0
  BY NoStatesTyped DEF CardsInit, FileTypes
<1>4. bound \in BoundTypes /\ bound.shells = 1
  BY DEF CardsInit, BoundTypes
<1>5. shell_pid = 1 /\ known = cards /\ held = cards /\ uevents = {} /\ cards \subseteq Nums
  BY DEF CardsInit
<1>6. CardsTyped /\ Pids /\ Driven
  BY <1>1, <1>2, <1>3, <1>4, <1>5, CardsAssumption DEF CardsTyped, Pids, Driven
<1>7. Recorded = NoStates
  BY <1>3, <1>5 DEF Recorded
<1>8. Loaded /\ Mirror /\ Judging
  BY <1>1, <1>2 DEF Loaded, Mirror, Judging
<1>9. Seen /\ DeadDark /\ Lights
  BY <1>5, <1>7, NoStatesTyped DEF Seen, DeadDark, Lights
<1> QED BY <1>6, <1>8, <1>9 DEF CardsInv

-----------------------------------------------------------------------------
(* The theorems. *)

\* Types; what gnome-shell drives exists and is known, and evdi_add_usable
\* makes no more cards than its loop allows, in the reset and in a self-heal.
THEOREM CardsTypeCorrect == CardsSpec => []CardsTypeOK
<1>1. CardsInv => CardsTypeOK
  <2> SUFFICES ASSUME CardsInv
               PROVE  CardsTypeOK
    OBVIOUS
  <2>1. shell_pid \in 0 .. MaxSessions
    BY CardsAssumption DEF CardsInv, CardsTyped, Pids, BoundTypes
  <2>2. K.state \in [Nums -> Verdicts] /\ file.state \in [Nums -> Verdicts]
    BY DEF CardsInv, CardsTyped, TrackerTypes, FileTypes, States
  <2> QED BY <2>1, <2>2 DEF CardsInv, CardsTyped, JobOk, Driven, CardsTypeOK
<1> QED BY <1>1, CardsStart, CardsStep, PTL DEF CardsSpec

\* A card on record as usable is driven by gnome-shell, unless the server had
\* to trust it blindly, through resets, removals, crashes, restarts and reused
\* numbers (evdi_add_usable, cards_load, cards_save).
THEOREM UsableAlwaysLights == CardsSpec => []UsableLights
<1>1. CardsInv => UsableLights
  BY DEF CardsInv, Lights, Recorded, UsableLights
<1> QED BY <1>1, CardsStart, CardsStep, PTL DEF CardsSpec

\* As long as gnome-shell lives, a number on record stays so and a dead one
\* stays dead.
LEMMA RecordStays ==
  ASSUME CardsInv, [CardsNext]_cardsVars,
         shell_pid' = shell_pid, shell_pid # 0, file.shell = shell_pid
  PROVE  /\ file'.shell = shell_pid
         /\ \A n \in Nums :
              /\ file.state[n] # "UNKNOWN" => file'.state[n] # "UNKNOWN"
              /\ file.state[n] = "DEAD" => file'.state[n] = "DEAD"
<1>1. ASSUME file' = file
      PROVE  /\ file'.shell = shell_pid
             /\ \A n \in Nums :
                  /\ file.state[n] # "UNKNOWN" => file'.state[n] # "UNKNOWN"
                  /\ file.state[n] = "DEAD" => file'.state[n] = "DEAD"
  BY <1>1
<1>2. ASSUME job.at = "judge", NEW k \in TrackerTypes, k.loaded, k.shell = K.shell,
             k.state = K.state, NEW v \in {"OK", "DEAD"}, CardsSave(k, job.card, v),
             v = "OK" => K.state[job.card] = "UNKNOWN"
      PROVE  /\ file'.shell = shell_pid
             /\ \A n \in Nums :
                  /\ file.state[n] # "UNKNOWN" => file'.state[n] # "UNKNOWN"
                  /\ file.state[n] = "DEAD" => file'.state[n] = "DEAD"
  <2>1. K.loaded /\ K.state \in States /\ job.card \in Nums
    BY <1>2 DEF CardsInv, CardsTyped, Loaded, JobOk, TrackerTypes
  <2>2. K.shell = shell_pid /\ K.state = file.state
    BY <2>1 DEF CardsInv, Mirror, Recorded
  <2>3. file' = [shell |-> k.shell, state |-> [k.state EXCEPT ![job.card] = v]]
    BY <1>2 DEF CardsSave
  <2>4. file'.shell = shell_pid /\ file'.state = [file.state EXCEPT ![job.card] = v]
    BY <1>2, <2>2, <2>3
  <2>5. \A n \in Nums : file'.state[n] = IF n = job.card THEN v ELSE file.state[n]
    BY <2>1, <2>2, <2>4 DEF States
  <2> QED BY <1>2, <2>2, <2>4, <2>5
<1>3. K \in TrackerTypes /\ TRUE \in BOOLEAN
  BY DEF CardsInv, CardsTyped
<1>4. job.at = "judge" => K.loaded
  BY DEF CardsInv, Loaded
<1>5. CASE Reused
  BY <1>2, <1>3, <1>4, <1>5 DEF Reused
<1>6. CASE Blind \/ PickedUp
  BY <1>2, <1>3, <1>4, <1>6 DEF Blind, PickedUp, Verifying
<1>7. CASE CannotTell
  <2> DEFINE k == [K EXCEPT !.no_verify = TRUE]
  <2>1. k \in TrackerTypes /\ k.loaded = K.loaded /\ k.shell = K.shell /\ k.state = K.state
    BY <1>3 DEF TrackerTypes
  <2>2. CardsSave(k, job.card, "OK") /\ job.at = "judge" /\ K.state[job.card] = "UNKNOWN"
    BY <1>7 DEF CannotTell, Verifying
  <2> HIDE DEF k
  <2> QED BY <1>2, <1>4, <2>1, <2>2
<1>8. CASE Ignored
  <2> DEFINE b == job.ignored + 1 >= IgnoreMax
             k == [K EXCEPT !.no_verify = b]
  <2>1. b \in BOOLEAN
    OBVIOUS
  <2>2. CardsSave(k, job.card, "DEAD") /\ job.at = "judge"
    BY <1>8 DEF Ignored, Verifying
  <2> HIDE DEF b
  <2>3. k \in TrackerTypes /\ k.loaded = K.loaded /\ k.shell = K.shell /\ k.state = K.state
    BY <1>3, <2>1 DEF TrackerTypes
  <2> HIDE DEF k
  <2> QED BY <1>2, <1>4, <2>2, <2>3
<1>9. CASE UNCHANGED cardsVars
  BY <1>1, <1>9 DEF cardsVars
<1>10. CASE \/ Start \/ ResetSkipped \/ ResetDone \/ Probed \/ GiveUp \/ SelfHeal \/ Look
            \/ AddOne \/ AddFailed \/ AddUnseen \/ Crash \/ (\E n \in Nums : Hotplug(n)) \/ ShellStarts
            \/ RemoveAll
  BY <1>1, <1>10 DEF Start, ResetSkipped, ResetDone, Probed, GiveUp, SelfHeal, Look, AddOne,
       AddFailed, AddUnseen, Crash, Hotplug, ShellStarts, RemoveAll
<1>11. CASE \E wiped \in BOOLEAN : ShellStops(wiped)
  BY <1>11 DEF ShellStops
<1> QED
  BY <1>5, <1>6, <1>7, <1>8, <1>9, <1>10, <1>11 DEF CardsNext

\* A reset with the marker set finds only dead cards, and gnome-shell drives
\* none of these.
LEMMA ResetFindsDead ==
  ASSUME CardsInv, ResetDone, marker
  PROVE  held \subseteq unsure
<1>1. Usable(CardsLoad) = {}
  BY DEF ResetDone
<1>2. \A n \in cards : CardsLoad.state[n] = "DEAD"
  BY <1>1 DEF Usable
<1>3. held \subseteq cards /\ (shell_pid = 0 => held = {})
  BY DEF CardsInv, Driven
<1>4. shell_pid # 0 => CardsLoad.state = Recorded
  BY LoadIs
<1> QED BY <1>2, <1>3, <1>4 DEF CardsInv, DeadDark

\* A restart of the server forgets no number gnome-shell has seen and takes no
\* card away that it drives, over crashes at any step (cards_load, cards_save,
\* sremfb_evdi_reset).
THEOREM RestartAlwaysSafe == CardsSpec => RestartSafe
<1> DEFINE Stays == shell_pid' = shell_pid /\ shell_pid # 0 /\ file.shell = shell_pid =>
             /\ file'.shell = shell_pid
             /\ \A n \in Nums :
                  /\ file.state[n] # "UNKNOWN" => file'.state[n] # "UNKNOWN"
                  /\ file.state[n] = "DEAD" => file'.state[n] = "DEAD"
           Spares == ResetDone /\ marker => held \subseteq unsure
<1>1. CardsInv /\ [CardsNext]_cardsVars => Stays
  BY RecordStays
<1>2. CardsInv /\ [CardsNext]_cardsVars => Spares
  BY ResetFindsDead
<1>3. CardsInv /\ [CardsNext]_cardsVars => [Stays]_cardsVars /\ [Spares]_cardsVars
  BY <1>1, <1>2
<1> QED BY <1>3, CardsStart, CardsStep, PTL DEF CardsSpec, RestartSafe, Remembered, ResetSpares

(***************************************************************************)
(* PlugGate: positions in a history.                                       *)
(***************************************************************************)
UpTo(S, i) == {j \in S : j <= i}

LEMMA PlacesFinite ==
  ASSUME NEW m \in Nat, NEW S, S \subseteq 1 .. m
  PROVE  IsFiniteSet(S) /\ Cardinality(S) \in Nat /\ Cardinality(S) <= m
<1>1. IsFiniteSet(1 .. m) /\ Cardinality(1 .. m) = IF 1 > m THEN 0 ELSE m - 1 + 1
  BY FS_Interval
<1>2. Cardinality(1 .. m) = m
  BY <1>1
<1>3. IsFiniteSet(S) /\ Cardinality(S) <= Cardinality(1 .. m)
  BY <1>1, FS_Subset
<1> QED BY <1>2, <1>3, FS_CardinalityType

\* A part of a finite set is smaller, unless it is all of it.
LEMMA PartSmaller ==
  ASSUME NEW S, IsFiniteSet(S), NEW T, T \subseteq S
  PROVE  /\ IsFiniteSet(T) /\ Cardinality(T) \in Nat /\ Cardinality(S) \in Nat
         /\ Cardinality(T) <= Cardinality(S)
         /\ T # S => Cardinality(T) < Cardinality(S)
<1>1. /\ IsFiniteSet(T) /\ Cardinality(T) <= Cardinality(S)
      /\ Cardinality(S) = Cardinality(T) => S = T
  BY FS_Subset
<1>2. Cardinality(T) \in Nat /\ Cardinality(S) \in Nat
  BY <1>1, FS_CardinalityType
<1> QED BY <1>1, <1>2

LEMMA RankLess ==
  ASSUME NEW m \in Nat, NEW S, S \subseteq 1 .. m, NEW i \in S, NEW j \in S, i < j
  PROVE  Cardinality(UpTo(S, i)) < Cardinality(UpTo(S, j))
<1>1. UpTo(S, i) \subseteq UpTo(S, j) /\ j \in UpTo(S, j) /\ j \notin UpTo(S, i)
  <2>1. \A x \in S : x \in Nat
    OBVIOUS
  <2>2. i \in Nat /\ j \in Nat
    BY <2>1
  <2>3. (\A x \in S : x <= i => x <= j) /\ j <= j /\ ~(j <= i)
    BY <2>1, <2>2
  <2> QED BY <2>3 DEF UpTo
<1>2. IsFiniteSet(UpTo(S, j))
  BY PlacesFinite DEF UpTo
<1> QED BY <1>1, <1>2, PartSmaller

LEMMA RankRange ==
  ASSUME NEW m \in Nat, NEW S, S \subseteq 1 .. m, NEW i \in S
  PROVE  Cardinality(UpTo(S, i)) \in 1 .. Cardinality(S)
<1>1. IsFiniteSet(S) /\ Cardinality(S) \in Nat
  BY PlacesFinite
<1>2. UpTo(S, i) \subseteq S /\ {} \subseteq UpTo(S, i) /\ i \in UpTo(S, i)
  BY DEF UpTo
<1>3. /\ IsFiniteSet(UpTo(S, i)) /\ Cardinality(UpTo(S, i)) \in Nat
      /\ Cardinality(UpTo(S, i)) <= Cardinality(S)
  BY <1>1, <1>2, PartSmaller
<1>4. Cardinality(UpTo(S, i)) # 0
  BY <1>2, <1>3, FS_EmptySet
<1> QED BY <1>1, <1>3, <1>4

LEMMA RanksDiffer ==
  ASSUME NEW m \in Nat, NEW S, S \subseteq 1 .. m, NEW i \in S, NEW j \in S,
         Cardinality(UpTo(S, i)) = Cardinality(UpTo(S, j))
  PROVE  i = j
<1>1. i \in Nat /\ j \in Nat
  OBVIOUS
<1>2. Cardinality(UpTo(S, i)) \in Nat /\ Cardinality(UpTo(S, j)) \in Nat
  <2>1. Cardinality(UpTo(S, i)) \in 1 .. Cardinality(S)
    BY RankRange
  <2> QED BY <2>1
<1>3. ASSUME i < j PROVE FALSE
  <2>1. Cardinality(UpTo(S, i)) < Cardinality(UpTo(S, j))
    BY <1>3, RankLess
  <2> QED BY <1>2, <2>1
<1>4. ASSUME j < i PROVE FALSE
  <2>1. Cardinality(UpTo(S, j)) < Cardinality(UpTo(S, i))
    BY <1>4, RankLess
  <2> QED BY <1>2, <2>1
<1> QED BY <1>1, <1>3, <1>4

\* Ranks are different, and as many as there are places for them: each is taken.
LEMMA NthIs ==
  ASSUME NEW m \in Nat, NEW S, S \subseteq 1 .. m, NEW n \in 1 .. Cardinality(S)
  PROVE  Nth(S, n) \in S /\ Cardinality(UpTo(S, Nth(S, n))) = n
<1> DEFINE r == [i \in S |-> Cardinality(UpTo(S, i))]
           c == Cardinality(S)
           T == (1 .. c) \ {n}
<1>1. IsFiniteSet(S) /\ c \in Nat
  BY PlacesFinite
<1>2. \E i \in S : Cardinality(UpTo(S, i)) = n
  <2> SUFFICES ASSUME \A i \in S : Cardinality(UpTo(S, i)) # n
               PROVE  FALSE
    OBVIOUS
  <2>1. \A i \in S : r[i] \in 1 .. c /\ r[i] # n
    BY RankRange
  <2>2. r \in [S -> T]
    BY <2>1
  <2>3. IsFiniteSet(1 .. c) /\ Cardinality(1 .. c) = c
    BY <1>1, FS_Interval
  <2>4. IsFiniteSet(T) /\ Cardinality(T) = c - 1
    BY <2>3, FS_RemoveElement
  <2>5. Cardinality(T) < Cardinality(S)
    BY <1>1, <2>4
  <2>6. PICK i, j \in S : i # j /\ r[i] = r[j]
    <3> HIDE DEF r, T
    <3> QED BY <1>1, <2>2, <2>4, <2>5, FS_PigeonHole
  <2>7. Cardinality(UpTo(S, i)) = Cardinality(UpTo(S, j))
    BY <2>6
  <2> QED BY <2>6, <2>7, RanksDiffer
<1>3. Nth(S, n) = CHOOSE i \in S : Cardinality(UpTo(S, i)) = n
  BY DEF Nth, UpTo
<1> QED BY <1>2, <1>3

LEMMA NthOrder ==
  ASSUME NEW m \in Nat, NEW S, S \subseteq 1 .. m,
         NEW n \in 1 .. Cardinality(S), NEW k \in 1 .. Cardinality(S), n < k
  PROVE  Nth(S, n) < Nth(S, k)
<1>1. /\ Nth(S, n) \in S /\ Cardinality(UpTo(S, Nth(S, n))) = n
      /\ Nth(S, k) \in S /\ Cardinality(UpTo(S, Nth(S, k))) = k
  BY NthIs
<1>2. Nth(S, n) \in Nat /\ Nth(S, k) \in Nat
  <2>1. \A x \in S : x \in Nat
    OBVIOUS
  <2> QED BY <1>1, <2>1
<1>3. n \in Nat /\ k \in Nat
  BY PlacesFinite
<1>4. Nth(S, n) # Nth(S, k)
  BY <1>1, <1>3
<1>5. ASSUME Nth(S, k) < Nth(S, n) PROVE FALSE
  <2>1. k < n
    BY <1>1, <1>5, RankLess
  <2> QED BY <1>3, <2>1
<1> QED BY <1>2, <1>4, <1>5

LEMMA NthOnto ==
  ASSUME NEW m \in Nat, NEW S, S \subseteq 1 .. m, NEW i \in S
  PROVE  \E n \in 1 .. Cardinality(S) : Nth(S, n) = i
<1> DEFINE n == Cardinality(UpTo(S, i))
<1>1. n \in 1 .. Cardinality(S)
  BY RankRange
<1> HIDE DEF n
<1>2. Nth(S, n) \in S /\ Cardinality(UpTo(S, Nth(S, n))) = n
  BY <1>1, NthIs
<1>3. Nth(S, n) = i
  BY <1>2, RanksDiffer DEF n
<1> QED BY <1>1, <1>3

\* Two ways to count the same.
LEMMA SameCount ==
  ASSUME NEW S, IsFiniteSet(S), NEW T, NEW f \in [S -> T],
         \A a, b \in S : f[a] = f[b] => a = b,
         \A t \in T : \E s \in S : f[s] = t
  PROVE  IsFiniteSet(T) /\ Cardinality(T) = Cardinality(S)
<1>1. f \in Bijection(S, T)
  BY DEF Bijection, Injection, Surjection, IsInjective
<1> QED BY <1>1, FS_Bijection DEF ExistsBijection

LEMMA LeastExists ==
  ASSUME NEW S, S \subseteq Nat, S # {}
  PROVE  \E x \in S : \A y \in S : x <= y
<1> DEFINE R == OpToRel(<, Nat)
<1>1. IsWellFoundedOn(R, Nat)
  BY NatLessThanWellFounded
<1>2. \A x, y \in Nat : <<y, x>> \in R <=> y < x
  BY DEF OpToRel
<1> HIDE DEF R
<1>3. PICK x \in S : \A y \in S : ~(<<y, x>> \in R)
  BY <1>1, WFMin
<1>4. ASSUME NEW y \in S
      PROVE  x <= y
  <2>1. x \in Nat /\ y \in Nat /\ ~(<<y, x>> \in R)
    BY <1>3
  <2>2. ~(y < x)
    BY <1>2, <2>1
  <2> QED BY <2>1, <2>2
<1> QED BY <1>4

LEMMA MaxIs ==
  ASSUME NEW m \in Nat, NEW S, S \subseteq 0 .. m, S # {}
  PROVE  Max(S) \in S /\ \A y \in S : y <= Max(S)
<1> DEFINE D == {k \in Nat : m - k \in S}
<1>1. D \subseteq Nat
  OBVIOUS
<1>2. D # {}
  <2>1. PICK x \in S : TRUE
    OBVIOUS
  <2>2. x \in Nat /\ m - x \in Nat /\ m - (m - x) = x
    BY <2>1
  <2> QED BY <2>1, <2>2
<1>3. PICK d \in D : \A e \in D : d <= e
  BY <1>1, <1>2, LeastExists
<1>4. m - d \in S /\ d \in Nat
  BY <1>3
<1>5. \A y \in S : m - d >= y
  <2> SUFFICES ASSUME NEW y \in S
               PROVE  m - d >= y
    OBVIOUS
  <2>1. y \in Nat /\ m - y \in Nat /\ m - (m - y) = y
    OBVIOUS
  <2>2. m - y \in D
    BY <2>1
  <2>3. d <= m - y
    BY <1>3, <2>2
  <2> QED BY <1>4, <2>1, <2>3
<1>6. Max(S) \in S /\ \A y \in S : Max(S) >= y
  BY <1>4, <1>5 DEF Max
<1>7. \A y \in S : y \in Nat
  OBVIOUS
<1> QED BY <1>6, <1>7

-----------------------------------------------------------------------------
(* Histories. *)

LEMMA EventPlaces ==
  ASSUME NEW es \in Seq(Event)
  PROVE  /\ Len(es) \in Nat /\ DOMAIN es = 1 .. Len(es)
         /\ \A i \in DOMAIN es : i \in Nat /\ i # 0 /\ es[i] \in Event
                                 /\ es[i].t \in Nat /\ es[i].kind \in Kinds
<1>1. Len(es) \in Nat /\ DOMAIN es = 1 .. Len(es)
  BY LenProperties
<1>2. \A i \in DOMAIN es : i \in Nat /\ i # 0
  BY <1>1
<1>3. \A i \in DOMAIN es : es[i] \in Event
  BY <1>1, ElementOfSeq
<1>4. \A e \in Event : e.t \in Nat /\ e.kind \in Kinds
  BY GateAssumption DEF Event
<1> QED BY <1>1, <1>2, <1>3, <1>4

LEMMA LastLitIs ==
  ASSUME NEW es \in Seq(Event)
  PROVE  /\ LastLit(es) \in Nat
         /\ LastLit(es) # 0 => LastLit(es) \in DOMAIN es /\ es[LastLit(es)].kind = "LIT"
         /\ \A i \in DOMAIN es : es[i].kind = "LIT" => i <= LastLit(es)
<1> DEFINE S == {0} \cup {i \in DOMAIN es : es[i].kind = "LIT"}
<1>1. Len(es) \in Nat /\ DOMAIN es = 1 .. Len(es)
  BY EventPlaces
<1>2. S \subseteq 0 .. Len(es) /\ S # {}
  BY <1>1
<1>3. LastLit(es) = Max(S)
  BY DEF LastLit
<1>4. Max(S) \in S /\ \A y \in S : y <= Max(S)
  <2> HIDE DEF S
  <2> QED BY <1>1, <1>2, MaxIs
<1>5. \A i \in DOMAIN es : es[i].kind = "LIT" => i \in S
  OBVIOUS
<1>6. Max(S) \in Nat
  BY <1>1, <1>2, <1>4
<1>7. Max(S) # 0 => Max(S) \in DOMAIN es /\ es[Max(S)].kind = "LIT"
  BY <1>4
<1> QED BY <1>3, <1>4, <1>5, <1>6, <1>7

\* A history in order, up to the time at.
Sorted(es, at) ==
  /\ \A i, j \in DOMAIN es : i <= j => es[i].t <= es[j].t
  /\ \A i \in DOMAIN es : es[i].t <= at

LEMMA SelectIs ==
  ASSUME NEW es \in Seq(Event), NEW S, S \subseteq DOMAIN es
  PROVE  /\ Select(es, S) \in Seq(Event) /\ Cardinality(S) \in Nat
         /\ Len(Select(es, S)) = Cardinality(S) /\ Cardinality(S) <= Len(es)
         /\ DOMAIN Select(es, S) = 1 .. Cardinality(S)
         /\ \A n \in 1 .. Cardinality(S) : Nth(S, n) \in S /\ Select(es, S)[n] = es[Nth(S, n)]
<1>1. Len(es) \in Nat /\ S \subseteq 1 .. Len(es)
  BY EventPlaces
<1>2. Cardinality(S) \in Nat /\ Cardinality(S) <= Len(es)
  BY <1>1, PlacesFinite
<1>3. \A n \in 1 .. Cardinality(S) : Nth(S, n) \in S
  BY <1>1, NthIs
<1>4. \A n \in 1 .. Cardinality(S) : es[Nth(S, n)] \in Event
  BY <1>3, EventPlaces
<1>5. Select(es, S) \in Seq(Event)
  BY <1>2, <1>4, IsASeq DEF Select
<1>6. DOMAIN Select(es, S) = 1 .. Cardinality(S)
  BY DEF Select
<1>7. Len(Select(es, S)) = Cardinality(S)
  BY <1>2, <1>5, <1>6, LenProperties
<1>8. \A n \in 1 .. Cardinality(S) : Select(es, S)[n] = es[Nth(S, n)]
  BY DEF Select
<1> QED BY <1>2, <1>3, <1>5, <1>6, <1>7, <1>8

LEMMA SelectSorted ==
  ASSUME NEW es \in Seq(Event), NEW S, S \subseteq DOMAIN es, NEW at, Sorted(es, at)
  PROVE  Sorted(Select(es, S), at)
<1> DEFINE c == Cardinality(S)
<1>1. /\ DOMAIN Select(es, S) = 1 .. c /\ c \in Nat
      /\ \A n \in 1 .. c : Nth(S, n) \in S /\ Select(es, S)[n] = es[Nth(S, n)]
  BY SelectIs
<1>2. Len(es) \in Nat /\ S \subseteq 1 .. Len(es) /\ \A i \in S : i \in Nat
  BY EventPlaces
<1>3. ASSUME NEW i \in 1 .. c, NEW j \in 1 .. c, i <= j
      PROVE  Select(es, S)[i].t <= Select(es, S)[j].t
  <2>1. i \in Nat /\ j \in Nat
    BY <1>1
  <2>2. Nth(S, i) <= Nth(S, j)
    <3>1. CASE i = j
      BY <1>1, <1>2, <3>1
    <3>2. CASE i < j
      <4>1. Nth(S, i) < Nth(S, j)
        BY <1>2, <3>2, NthOrder
      <4>2. Nth(S, i) \in Nat /\ Nth(S, j) \in Nat
        BY <1>1, <1>2
      <4> QED BY <4>1, <4>2
    <3> QED BY <1>3, <2>1, <3>1, <3>2
  <2> QED BY <1>1, <2>2 DEF Sorted
<1>4. \A i \in 1 .. c : Select(es, S)[i].t <= at
  BY <1>1 DEF Sorted
<1> QED BY <1>1, <1>3, <1>4 DEF Sorted

-----------------------------------------------------------------------------
(* The pruned history es follows the whole history hs. *)

\* m says where each event of es is in hs.
Follows(m, es, hs) ==
  /\ m \in [DOMAIN es -> DOMAIN hs]
  /\ \A i, j \in DOMAIN es : i < j => m[i] < m[j]
  /\ \A i \in DOMAIN es : es[i] = hs[m[i]]

\* Nothing is missing that a rule looks at from the time at on; and where
\* something from before the last lit connector is left, so is that event.
Covers(m, es, hs, at) ==
  /\ \A x \in Keep(hs, at) : \E i \in DOMAIN es : m[i] = x
  /\ \A i \in DOMAIN es : m[i] <= LastLit(hs) => \E k \in DOMAIN es : m[k] = LastLit(hs)

Shadow(es, hs, at) ==
  \E m \in [DOMAIN es -> DOMAIN hs] : Follows(m, es, hs) /\ Covers(m, es, hs, at)

\* The order of two events is the same in both.
LEMMA SameOrder ==
  ASSUME NEW es \in Seq(Event), NEW hs \in Seq(Event), NEW m, Follows(m, es, hs),
         NEW i \in DOMAIN es, NEW j \in DOMAIN es
  PROVE  /\ m[i] \in DOMAIN hs /\ m[i] \in Nat /\ m[j] \in Nat
         /\ i < j <=> m[i] < m[j]
         /\ m[i] = m[j] => i = j
         /\ i <= j => m[i] <= m[j]
<1>1. /\ m[i] \in DOMAIN hs /\ m[j] \in DOMAIN hs
      /\ i < j => m[i] < m[j]
      /\ j < i => m[j] < m[i]
  BY DEF Follows
<1>2. i \in Nat /\ j \in Nat /\ m[i] \in Nat /\ m[j] \in Nat
  BY <1>1, EventPlaces
<1> QED BY <1>1, <1>2

LEMMA RunSame ==
  ASSUME NEW es \in Seq(Event), NEW hs \in Seq(Event), NEW at, NEW m,
         Follows(m, es, hs), Covers(m, es, hs, at), NEW i \in DOMAIN es
  PROVE  i \in FailRun(es) <=> m[i] \in FailRun(hs)
<1>1. /\ LastLit(es) \in Nat
      /\ LastLit(es) # 0 => LastLit(es) \in DOMAIN es /\ es[LastLit(es)].kind = "LIT"
      /\ \A k \in DOMAIN es : es[k].kind = "LIT" => k <= LastLit(es)
  BY LastLitIs
<1>2. /\ LastLit(hs) \in Nat
      /\ LastLit(hs) # 0 => LastLit(hs) \in DOMAIN hs /\ hs[LastLit(hs)].kind = "LIT"
      /\ \A k \in DOMAIN hs : hs[k].kind = "LIT" => k <= LastLit(hs)
  BY LastLitIs
<1>3. /\ m[i] \in DOMAIN hs /\ m[i] \in Nat /\ i \in Nat /\ m[i] # 0 /\ i # 0
      /\ es[i] = hs[m[i]]
  <2>1. m[i] \in DOMAIN hs /\ es[i] = hs[m[i]]
    BY DEF Follows
  <2> QED BY <2>1, EventPlaces
<1>4. ASSUME i > LastLit(es), m[i] <= LastLit(hs)
      PROVE  FALSE
  <2>1. PICK k \in DOMAIN es : m[k] = LastLit(hs)
    BY <1>4 DEF Covers
  <2>2. LastLit(hs) # 0
    BY <1>2, <1>3, <1>4
  <2>3. es[k].kind = "LIT"
    BY <1>2, <2>1, <2>2 DEF Follows
  <2>4. k <= LastLit(es) /\ k \in Nat
    BY <1>1, <2>3, EventPlaces
  <2>5. k < i
    BY <1>1, <1>3, <1>4, <2>4
  <2>6. m[k] < m[i]
    BY <2>5, SameOrder
  <2> QED BY <1>2, <1>3, <1>4, <2>1, <2>6
<1>5. ASSUME m[i] > LastLit(hs), i <= LastLit(es)
      PROVE  FALSE
  <2> DEFINE k == LastLit(es)
  <2>1. k # 0
    BY <1>1, <1>3, <1>5
  <2>2. k \in DOMAIN es /\ es[k].kind = "LIT"
    BY <1>1, <2>1
  <2>3. m[k] \in DOMAIN hs /\ hs[m[k]].kind = "LIT"
    BY <2>2 DEF Follows
  <2> HIDE DEF k
  <2>4. m[k] <= LastLit(hs) /\ m[k] \in Nat
    BY <1>2, <2>3, EventPlaces
  <2>5. m[i] <= m[k]
    BY <1>5, <2>2, SameOrder DEF k
  <2> QED BY <1>2, <1>3, <1>5, <2>4, <2>5
<1>6. (i > LastLit(es)) <=> (m[i] > LastLit(hs))
  BY <1>1, <1>2, <1>3, <1>4, <1>5
<1> QED BY <1>3, <1>6 DEF FailRun

\* Pruning drops nothing that is still looked at.
LEMMA PruneShadow ==
  ASSUME NEW es \in Seq(Event), NEW hs \in Seq(Event), NEW at \in Int,
         Sorted(hs, at), Shadow(es, hs, at)
  PROVE  Shadow(Select(es, Keep(es, at)), hs, at)
<1> DEFINE S == Keep(es, at)
           c == Cardinality(S)
           t == Select(es, S)
<1>1. PICK m \in [DOMAIN es -> DOMAIN hs] : Follows(m, es, hs) /\ Covers(m, es, hs, at)
  BY DEF Shadow
<1>2. S \subseteq DOMAIN es
  BY DEF Keep, FailRun
<1>3. /\ t \in Seq(Event) /\ DOMAIN t = 1 .. c
      /\ \A n \in 1 .. c : Nth(S, n) \in S /\ t[n] = es[Nth(S, n)]
  BY <1>2, SelectIs
<1>4. Len(es) \in Nat /\ S \subseteq 1 .. Len(es) /\ c \in Nat
  BY <1>2, EventPlaces, PlacesFinite
<1> DEFINE f == [n \in 1 .. c |-> m[Nth(S, n)]]
<1> HIDE DEF S, t, c
<1>5. \A i \in S : \E n \in 1 .. c : Nth(S, n) = i
  BY <1>4, NthOnto DEF c
<1>6. \A n \in 1 .. c : Nth(S, n) \in DOMAIN es /\ f[n] = m[Nth(S, n)] /\ f[n] \in DOMAIN hs
  BY <1>2, <1>3
<1>7. f \in [DOMAIN t -> DOMAIN hs]
  BY <1>3, <1>6
<1> HIDE DEF f
<1>8. Follows(f, t, hs)
  <2>1. ASSUME NEW i \in 1 .. c, NEW j \in 1 .. c, i < j
        PROVE  f[i] < f[j]
    <3>1. Nth(S, i) < Nth(S, j)
      BY <1>4, <2>1, NthOrder DEF c
    <3> QED BY <1>1, <1>6, <3>1 DEF Follows
  <2>2. \A i \in 1 .. c : t[i] = hs[f[i]]
    BY <1>1, <1>3, <1>6 DEF Follows
  <2> QED BY <1>3, <1>7, <2>1, <2>2 DEF Follows
<1>9. ASSUME NEW x \in Keep(hs, at)
      PROVE  \E n \in DOMAIN t : f[n] = x
  <2>1. PICK i \in DOMAIN es : m[i] = x
    BY <1>1 DEF Covers
  <2>2. i \in S
    <3>1. es[i] = hs[x] /\ (i \in FailRun(es) <=> x \in FailRun(hs))
      BY <1>1, <2>1, RunSame DEF Follows
    <3> QED BY <2>1, <3>1 DEF S, Keep
  <2>3. PICK n \in 1 .. c : Nth(S, n) = i
    BY <1>5, <2>2
  <2> QED BY <1>3, <1>6, <2>1, <2>3
<1>10. ASSUME NEW n \in DOMAIN t, f[n] <= LastLit(hs)
       PROVE  \E k \in DOMAIN t : f[k] = LastLit(hs)
  <2> DEFINE i == Nth(S, n)
  <2>1. i \in S /\ i \in DOMAIN es /\ f[n] = m[i]
    BY <1>3, <1>6
  <2> HIDE DEF i
  <2>2. PICK k \in DOMAIN es : m[k] = LastLit(hs)
    BY <1>1, <1>10, <2>1 DEF Covers
  <2>3. m[i] \in Nat /\ m[k] \in Nat /\ m[i] \in DOMAIN hs /\ m[k] \in DOMAIN hs
    BY <1>1, <2>1, SameOrder
  <2>4. i \notin FailRun(es)
    <3>1. m[i] \notin FailRun(hs)
      BY <1>10, <2>1, <2>2, <2>3 DEF FailRun
    <3> QED BY <1>1, <2>1, <3>1, RunSame
  <2>5. es[i].t >= at - Window
    BY <2>1, <2>4 DEF S, Keep, InWindow
  <2>6. es[i] = hs[m[i]] /\ es[k] = hs[m[k]]
    BY <1>1, <2>1 DEF Follows
  <2>7. hs[m[i]].t <= hs[m[k]].t
    BY <1>10, <2>1, <2>2, <2>3 DEF Sorted
  <2>8. es[k].t >= at - Window
    <3>1. es[k].t \in Nat /\ es[i].t \in Nat /\ Window \in Nat
      BY <2>1, EventPlaces, GateAssumption
    <3> QED BY <2>5, <2>6, <2>7, <3>1
  <2>9. k \in S
    BY <2>8 DEF S, Keep, InWindow
  <2>10. PICK q \in 1 .. c : Nth(S, q) = k
    BY <1>5, <2>9
  <2> QED BY <1>3, <1>6, <2>2, <2>10
<1>11. Covers(f, t, hs, at)
  BY <1>9, <1>10 DEF Covers
<1> QED BY <1>7, <1>8, <1>11 DEF Shadow, t, S

LEMMA LaterShadow ==
  ASSUME NEW es \in Seq(Event), NEW hs \in Seq(Event), NEW at \in Int, NEW later \in Int,
         at <= later, Shadow(es, hs, at)
  PROVE  Shadow(es, hs, later)
<1>1. Keep(hs, later) \subseteq Keep(hs, at)
  <2>1. \A i \in DOMAIN hs : hs[i].t \in Nat
    BY EventPlaces
  <2>2. Window \in Nat
    BY GateAssumption
  <2> QED BY <2>1, <2>2 DEF Keep, InWindow
<1> QED BY <1>1 DEF Shadow, Covers

LEMMA AppendIs ==
  ASSUME NEW es \in Seq(Event), NEW e \in Event
  PROVE  /\ Append(es, e) \in Seq(Event) /\ Len(es) \in Nat
         /\ Len(Append(es, e)) = Len(es) + 1
         /\ DOMAIN Append(es, e) = DOMAIN es \cup {Len(es) + 1}
         /\ Len(es) + 1 \notin DOMAIN es
         /\ Append(es, e)[Len(es) + 1] = e
         /\ \A i \in DOMAIN es : i <= Len(es) /\ Append(es, e)[i] = es[i]
<1>1. Len(es) \in Nat /\ DOMAIN es = 1 .. Len(es)
  BY EventPlaces
<1>2. /\ Append(es, e) \in Seq(Event)
      /\ Len(Append(es, e)) = Len(es) + 1
      /\ \A i \in 1 .. Len(es) : Append(es, e)[i] = es[i]
      /\ Append(es, e)[Len(es) + 1] = e
  BY AppendProperties
<1>3. DOMAIN Append(es, e) = 1 .. Len(es) + 1
  BY <1>2, LenProperties
<1>4. 1 .. Len(es) + 1 = (1 .. Len(es)) \cup {Len(es) + 1} /\ Len(es) + 1 \notin 1 .. Len(es)
  BY <1>1
<1> QED BY <1>1, <1>2, <1>3, <1>4

LEMMA AppendSorted ==
  ASSUME NEW es \in Seq(Event), NEW at \in Int, Sorted(es, at), NEW e \in Event,
         at <= e.t
  PROVE  Sorted(Append(es, e), e.t)
<1> DEFINE E == Append(es, e)
           n == Len(es) + 1
<1>1. /\ DOMAIN E = DOMAIN es \cup {n} /\ E[n] = e /\ Len(es) \in Nat
      /\ \A i \in DOMAIN es : i <= Len(es) /\ E[i] = es[i]
  BY AppendIs
<1>2. e.t \in Nat /\ \A i \in DOMAIN es : es[i].t \in Nat /\ i \in Nat
  <2>1. e.t \in Nat
    BY GateAssumption DEF Event
  <2> QED BY <2>1, EventPlaces
<1>3. \A i \in DOMAIN es : es[i].t <= e.t
  BY <1>2 DEF Sorted
<1> HIDE DEF E
<1>4. ASSUME NEW i \in DOMAIN E, NEW j \in DOMAIN E, i <= j
      PROVE  E[i].t <= E[j].t
  <2>1. CASE j = n
    BY <1>1, <1>2, <1>3, <2>1
  <2>2. CASE j \in DOMAIN es
    <3>1. i \in DOMAIN es
      BY <1>1, <1>2, <1>4, <2>2
    <3> QED BY <1>1, <1>4, <2>2, <3>1 DEF Sorted
  <2> QED BY <1>1, <2>1, <2>2
<1>5. \A i \in DOMAIN E : E[i].t <= e.t
  BY <1>1, <1>2, <1>3
<1> QED BY <1>4, <1>5 DEF Sorted, E

\* A connector that lit up ends the run of failures, everything else leaves it.
LEMMA AppendRun ==
  ASSUME NEW hs \in Seq(Event), NEW e \in Event
  PROVE  /\ e.kind = "LIT" => /\ LastLit(Append(hs, e)) = Len(hs) + 1
                              /\ FailRun(Append(hs, e)) = {}
         /\ e.kind # "LIT" => /\ LastLit(Append(hs, e)) = LastLit(hs)
                              /\ FailRun(Append(hs, e)) \subseteq FailRun(hs) \cup {Len(hs) + 1}
<1> DEFINE H == Append(hs, e)
           n == Len(hs) + 1
           a == LastLit(H)
           b == LastLit(hs)
<1>1. /\ H \in Seq(Event) /\ Len(hs) \in Nat /\ DOMAIN H = DOMAIN hs \cup {n}
      /\ H[n] = e /\ \A i \in DOMAIN hs : i <= Len(hs) /\ H[i] = hs[i]
  BY AppendIs
<1>2. /\ a \in Nat
      /\ a # 0 => a \in DOMAIN H /\ H[a].kind = "LIT"
      /\ \A i \in DOMAIN H : H[i].kind = "LIT" => i <= a
  BY <1>1, LastLitIs
<1>3. /\ b \in Nat
      /\ b # 0 => b \in DOMAIN hs /\ hs[b].kind = "LIT"
      /\ \A i \in DOMAIN hs : hs[i].kind = "LIT" => i <= b
  BY LastLitIs
<1>4. \A i \in DOMAIN hs : i \in Nat /\ i # 0
  BY EventPlaces
<1> HIDE DEF H, a, b
<1>5. CASE e.kind = "LIT"
  <2>1. n <= a
    BY <1>1, <1>2, <1>5
  <2>2. \A i \in DOMAIN H : i <= n
    BY <1>1, <1>4
  <2>3. a = n
    BY <1>1, <1>2, <2>1, <2>2
  <2>4. \A i \in DOMAIN H : ~(i > a)
    BY <1>1, <1>4, <2>2, <2>3
  <2> QED BY <1>5, <2>3, <2>4 DEF FailRun, a, H
<1>6. CASE e.kind # "LIT"
  <2>1. a <= b
    <3>1. CASE a = 0
      BY <1>3, <3>1
    <3>2. CASE a # 0
      BY <1>1, <1>2, <1>3, <1>6, <3>2
    <3> QED BY <3>1, <3>2
  <2>2. b <= a
    <3>1. CASE b = 0
      BY <1>2, <3>1
    <3>2. CASE b # 0
      BY <1>1, <1>2, <1>3, <3>2
    <3> QED BY <3>1, <3>2
  <2>3. a = b
    BY <1>2, <1>3, <2>1, <2>2
  <2>4. \A i \in DOMAIN H : i > a /\ H[i].kind = "FAIL"
                            => i = n \/ (i \in DOMAIN hs /\ i > b /\ hs[i].kind = "FAIL")
    BY <1>1, <2>3
  <2> QED BY <1>6, <2>3, <2>4 DEF FailRun, a, b, H
<1> QED BY <1>5, <1>6

LEMMA AppendShadow ==
  ASSUME NEW es \in Seq(Event), NEW hs \in Seq(Event), NEW at \in Int, NEW e \in Event,
         Shadow(es, hs, at)
  PROVE  Shadow(Append(es, e), Append(hs, e), at)
<1> DEFINE E == Append(es, e)
           H == Append(hs, e)
           n == Len(es) + 1
           z == Len(hs) + 1
<1>1. PICK m \in [DOMAIN es -> DOMAIN hs] : Follows(m, es, hs) /\ Covers(m, es, hs, at)
  BY DEF Shadow
<1>2. /\ E \in Seq(Event) /\ Len(es) \in Nat /\ DOMAIN E = DOMAIN es \cup {n} /\ n \notin DOMAIN es
      /\ E[n] = e /\ \A i \in DOMAIN es : i <= Len(es) /\ E[i] = es[i]
  BY AppendIs
<1>3. /\ H \in Seq(Event) /\ Len(hs) \in Nat /\ DOMAIN H = DOMAIN hs \cup {z} /\ z \notin DOMAIN hs
      /\ H[z] = e /\ \A i \in DOMAIN hs : i <= Len(hs) /\ H[i] = hs[i]
  BY AppendIs
<1>4. /\ \A i \in DOMAIN es : i \in Nat
      /\ \A i \in DOMAIN hs : i \in Nat
  BY EventPlaces
<1> DEFINE f == [i \in DOMAIN E |-> IF i = n THEN z ELSE m[i]]
<1>5. f[n] = z /\ \A i \in DOMAIN es : f[i] = m[i] /\ f[i] \in DOMAIN hs
  BY <1>1, <1>2
<1>6. f \in [DOMAIN E -> DOMAIN H]
  BY <1>1, <1>2, <1>3
<1> HIDE DEF f, E, H
<1>7. Follows(f, E, H)
  <2>1. ASSUME NEW i \in DOMAIN E, NEW j \in DOMAIN E, i < j
        PROVE  f[i] < f[j]
    <3>1. i \in DOMAIN es
      BY <1>2, <1>4, <2>1
    <3>2. CASE j = n
      BY <1>3, <1>4, <1>5, <3>1, <3>2
    <3>3. CASE j \in DOMAIN es
      BY <1>1, <1>5, <2>1, <3>1, <3>3 DEF Follows
    <3> QED BY <1>2, <3>2, <3>3
  <2>2. \A i \in DOMAIN E : E[i] = H[f[i]]
    BY <1>1, <1>2, <1>3, <1>5 DEF Follows
  <2> QED BY <1>6, <2>1, <2>2 DEF Follows
<1>8. /\ e.kind = "LIT" => LastLit(H) = z /\ FailRun(H) = {}
      /\ e.kind # "LIT" => LastLit(H) = LastLit(hs) /\ FailRun(H) \subseteq FailRun(hs) \cup {z}
  BY AppendRun DEF H
<1>9. ASSUME NEW x \in Keep(H, at)
      PROVE  \E i \in DOMAIN E : f[i] = x
  <2>1. x \in DOMAIN H /\ (x \in FailRun(H) \/ InWindow(H[x], at))
    BY DEF Keep, FailRun
  <2>2. CASE x = z
    BY <1>2, <1>5, <2>2
  <2>3. CASE x # z
    <3>1. x \in DOMAIN hs /\ H[x] = hs[x]
      BY <1>3, <2>1, <2>3
    <3>2. x \in FailRun(hs) \/ InWindow(hs[x], at)
      BY <1>8, <2>1, <2>3, <3>1
    <3>3. PICK i \in DOMAIN es : m[i] = x
      BY <1>1, <3>1, <3>2 DEF Covers, Keep
    <3> QED BY <1>2, <1>5, <3>3
  <2> QED BY <2>2, <2>3
<1>10. ASSUME NEW i \in DOMAIN E, f[i] <= LastLit(H)
       PROVE  \E k \in DOMAIN E : f[k] = LastLit(H)
  <2>1. CASE e.kind = "LIT"
    BY <1>2, <1>5, <1>8, <2>1
  <2>2. CASE e.kind # "LIT"
    <3>1. LastLit(H) = LastLit(hs) /\ LastLit(hs) \in Nat /\ LastLit(hs) <= Len(hs)
      <4>1. LastLit(hs) \in Nat /\ (LastLit(hs) # 0 => LastLit(hs) \in DOMAIN hs)
        BY LastLitIs
      <4> QED BY <1>3, <1>8, <2>2, <4>1
    <3>2. i # n
      BY <1>3, <1>5, <1>10, <3>1
    <3>3. i \in DOMAIN es /\ m[i] <= LastLit(hs)
      BY <1>2, <1>5, <1>10, <3>1, <3>2
    <3>4. PICK k \in DOMAIN es : m[k] = LastLit(hs)
      BY <1>1, <3>3 DEF Covers
    <3> QED BY <1>2, <1>5, <3>1, <3>4
  <2> QED BY <2>1, <2>2
<1>11. Covers(f, E, H, at)
  BY <1>9, <1>10 DEF Covers
<1> QED BY <1>6, <1>7, <1>11 DEF Shadow, E, H

-----------------------------------------------------------------------------
(* What the gate counts. *)

\* The events of a kind in the sliding hour that ends at x.
After(es, kind, x) == {i \in DOMAIN es : es[i].kind = kind /\ es[i].t > x - Window}

LEMMA PartCount ==
  ASSUME NEW es \in Seq(Event), NEW S, S \subseteq DOMAIN es
  PROVE  IsFiniteSet(S) /\ Cardinality(S) \in Nat
<1>1. Len(es) \in Nat /\ S \subseteq 1 .. Len(es)
  BY EventPlaces
<1> QED BY <1>1, PlacesFinite

\* A part of the whole history that pruning has left counts the same.
LEMMA PartSame ==
  ASSUME NEW es \in Seq(Event), NEW hs \in Seq(Event), NEW m, Follows(m, es, hs),
         NEW S, S \subseteq DOMAIN es, NEW T, T \subseteq DOMAIN hs,
         \A i \in DOMAIN es : i \in S <=> m[i] \in T,
         \A x \in T : \E i \in DOMAIN es : m[i] = x
  PROVE  Cardinality(S) = Cardinality(T)
<1> DEFINE f == [i \in S |-> m[i]]
<1>1. \A i \in S : f[i] = m[i] /\ m[i] \in T
  OBVIOUS
<1>2. f \in [S -> T]
  BY <1>1
<1> HIDE DEF f
<1>3. \A a, b \in S : f[a] = f[b] => a = b
  BY <1>1, SameOrder
<1>4. \A t \in T : \E s \in S : f[s] = t
  BY <1>1
<1>5. IsFiniteSet(S)
  BY PartCount
<1> QED BY <1>2, <1>3, <1>4, <1>5, SameCount

LEMMA CountSame ==
  ASSUME NEW es \in Seq(Event), NEW hs \in Seq(Event), NEW at \in Int, Shadow(es, hs, at),
         NEW kind, NEW x \in Int, at <= x + 1
  PROVE  Cardinality(After(es, kind, x)) = Cardinality(After(hs, kind, x))
<1>1. PICK m \in [DOMAIN es -> DOMAIN hs] : Follows(m, es, hs) /\ Covers(m, es, hs, at)
  BY DEF Shadow
<1>2. After(es, kind, x) \subseteq DOMAIN es /\ After(hs, kind, x) \subseteq DOMAIN hs
  BY DEF After
<1>3. \A i \in DOMAIN es : i \in After(es, kind, x) <=> m[i] \in After(hs, kind, x)
  BY <1>1 DEF After, Follows
<1>4. ASSUME NEW y \in After(hs, kind, x)
      PROVE  \E i \in DOMAIN es : m[i] = y
  <2>1. y \in DOMAIN hs /\ hs[y].t > x - Window
    BY DEF After
  <2>2. hs[y].t \in Nat /\ Window \in Nat
    BY <2>1, EventPlaces, GateAssumption
  <2>3. hs[y].t >= at - Window
    BY <2>1, <2>2
  <2>4. y \in Keep(hs, at)
    BY <2>1, <2>3 DEF Keep, InWindow
  <2> QED BY <1>1, <2>4 DEF Covers
<1> QED BY <1>1, <1>2, <1>3, <1>4, PartSame

\* The run of failures is as long, and ends with the same one.
LEMMA RunCount ==
  ASSUME NEW es \in Seq(Event), NEW hs \in Seq(Event), NEW at \in Int, Shadow(es, hs, at)
  PROVE  /\ Cardinality(FailRun(es)) = Cardinality(FailRun(hs))
         /\ FailRun(es) # {} => es[Max(FailRun(es))] = hs[Max(FailRun(hs))]
<1>1. PICK m \in [DOMAIN es -> DOMAIN hs] : Follows(m, es, hs) /\ Covers(m, es, hs, at)
  BY DEF Shadow
<1>2. FailRun(es) \subseteq DOMAIN es /\ FailRun(hs) \subseteq DOMAIN hs
  BY DEF FailRun
<1>3. \A i \in DOMAIN es : i \in FailRun(es) <=> m[i] \in FailRun(hs)
  BY <1>1, RunSame
<1>4. \A y \in FailRun(hs) : \E i \in DOMAIN es : m[i] = y
  BY <1>1 DEF Covers, Keep
<1>5. Cardinality(FailRun(es)) = Cardinality(FailRun(hs))
  <2> DEFINE S == FailRun(es)
             T == FailRun(hs)
  <2>1. /\ S \subseteq DOMAIN es /\ T \subseteq DOMAIN hs
        /\ \A i \in DOMAIN es : i \in S <=> m[i] \in T
        /\ \A y \in T : \E i \in DOMAIN es : m[i] = y
    BY <1>2, <1>3, <1>4
  <2> HIDE DEF S, T
  <2>2. Cardinality(S) = Cardinality(T)
    BY <1>1, <2>1, PartSame
  <2> QED BY <2>2 DEF S, T
<1>6. ASSUME FailRun(es) # {}
      PROVE  es[Max(FailRun(es))] = hs[Max(FailRun(hs))]
  <2> DEFINE i == Max(FailRun(es))
             y == Max(FailRun(hs))
  <2>1. /\ Len(es) \in Nat /\ DOMAIN es \subseteq 0 .. Len(es)
        /\ Len(hs) \in Nat /\ DOMAIN hs \subseteq 0 .. Len(hs)
    BY EventPlaces
  <2>2. i \in FailRun(es) /\ \A j \in FailRun(es) : j <= i
    BY <1>2, <1>6, <2>1, MaxIs
  <2>3. m[i] \in FailRun(hs)
    BY <1>2, <1>3, <2>2
  <2>4. y \in FailRun(hs) /\ \A j \in FailRun(hs) : j <= y
    BY <1>2, <2>1, <2>3, MaxIs
  <2> HIDE DEF i, y
  <2>5. PICK j \in DOMAIN es : m[j] = y
    BY <1>4, <2>4
  <2>6. j \in FailRun(es)
    BY <1>3, <2>4, <2>5
  <2>7. m[j] <= m[i] /\ m[j] \in Nat /\ m[i] \in Nat
    BY <1>1, <1>2, <2>2, <2>6, SameOrder
  <2>8. m[i] <= y
    BY <2>3, <2>4
  <2>9. m[i] = y
    BY <2>5, <2>7, <2>8
  <2>10. es[i] = hs[y]
    BY <1>1, <1>2, <2>2, <2>9 DEF Follows
  <2> QED BY <2>10 DEF i, y
<1> QED BY <1>5, <1>6

\* window_free_at is right: past x, there are too many until it.
LEMMA FreeAfter ==
  ASSUME NEW es \in Seq(Event), NEW top \in Nat, Sorted(es, top), NEW kind, NEW at \in Int,
         NEW cap \in Nat, cap # 0
  PROVE  /\ WindowFreeAt(es, kind, at, cap) \in Nat
         /\ WindowFreeAt(es, kind, at, cap) = 0 \/ WindowFreeAt(es, kind, at, cap) >= at
         /\ WindowFreeAt(es, kind, at, cap) <= top + Window
         /\ \A x \in Nat : at <= x + 1 =>
              (WindowFreeAt(es, kind, at, cap) > x
                 <=> Cardinality(After(es, kind, x)) >= cap)
<1> DEFINE S == {i \in DOMAIN es : es[i].kind = kind /\ InWindow(es[i], at)}
           n == Cardinality(S)
           w == WindowFreeAt(es, kind, at, cap)
<1>1. w = IF n < cap THEN 0 ELSE es[Nth(S, n - cap + 1)].t + Window
  BY DEF WindowFreeAt
<1>2. S \subseteq DOMAIN es /\ \A i \in S : i \in Nat /\ es[i].t \in Nat /\ es[i].t >= at - Window
  BY EventPlaces DEF InWindow
<1>3. IsFiniteSet(S) /\ n \in Nat /\ Len(es) \in Nat /\ S \subseteq 1 .. Len(es)
  BY <1>2, PartCount, EventPlaces
<1>4. Window \in Nat
  BY GateAssumption
<1>5. ASSUME NEW x \in Nat, at <= x + 1
      PROVE  /\ After(es, kind, x) \subseteq S
             /\ IsFiniteSet(After(es, kind, x)) /\ Cardinality(After(es, kind, x)) \in Nat
             /\ Cardinality(After(es, kind, x)) <= n
  <2>1. ASSUME NEW i \in After(es, kind, x)
        PROVE  i \in S
    <3>1. i \in DOMAIN es /\ es[i].kind = kind /\ es[i].t > x - Window /\ es[i].t \in Nat
      BY EventPlaces DEF After
    <3>2. es[i].t >= at - Window
      BY <1>4, <1>5, <3>1
    <3> QED BY <3>1, <3>2 DEF InWindow
  <2> QED BY <1>3, <2>1, PartSmaller
<1> HIDE DEF S, n, w
<1>6. CASE n < cap
  <2>1. w = 0
    BY <1>1, <1>6
  <2>2. ASSUME NEW x \in Nat, at <= x + 1
        PROVE  ~(w > x) /\ ~(Cardinality(After(es, kind, x)) >= cap)
    BY <1>3, <1>5, <1>6, <2>1, <2>2
  <2> QED BY <1>4, <2>1, <2>2 DEF w
<1>7. CASE ~(n < cap)
  <2> DEFINE q == n - cap + 1
             p == Nth(S, q)
             B == UpTo(S, p)
             R == S \ B
  <2>1. q \in 1 .. n
    BY <1>3, <1>7
  <2> HIDE DEF q
  <2>2. p \in S /\ Cardinality(B) = q
    BY <1>3, <2>1, NthIs DEF n
  <2>3. w = es[p].t + Window
    BY <1>1, <1>7 DEF q
  <2> HIDE DEF p
  <2>4. p \in Nat /\ es[p].t \in Nat /\ es[p].t >= at - Window /\ p \in DOMAIN es /\ es[p].t <= top
    BY <1>2, <2>2 DEF Sorted
  <2>5. B \subseteq S /\ p \in B
    BY <2>2, <2>4 DEF UpTo
  <2>6. IsFiniteSet(R) /\ Cardinality(R) = n - q
    <3>1. S \cap B = B
      BY <2>5
    <3> QED BY <1>3, <2>2, <3>1, FS_Difference DEF n
  <2>7. n - q = cap - 1
    BY <1>3 DEF q
  <2>8. \A i \in S : i \in R <=> i > p
    BY <1>2, <2>4 DEF UpTo
  <2>9. ASSUME NEW x \in Nat, at <= x + 1, es[p].t > x - Window
        PROVE  Cardinality(After(es, kind, x)) >= cap
    <3>1. ASSUME NEW i \in R \cup {p}
          PROVE  i \in After(es, kind, x)
      <4>1. i \in S /\ p <= i
        BY <1>2, <2>2, <2>4, <2>8
      <4>2. es[p].t <= es[i].t
        BY <1>2, <2>4, <4>1 DEF Sorted
      <4>3. es[i].t > x - Window
        BY <1>2, <1>4, <2>4, <2>9, <4>1, <4>2
      <4>4. i \in DOMAIN es /\ es[i].kind = kind
        BY <4>1 DEF S
      <4> QED BY <4>3, <4>4 DEF After
    <3>2. Cardinality(R \cup {p}) = cap
      <4>1. p \notin R
        BY <2>5
      <4> HIDE DEF R
      <4>2. Cardinality(R \cup {p}) = Cardinality(R) + 1
        BY <2>6, <4>1, FS_AddElement
      <4> QED BY <2>6, <2>7, <4>2
    <3>3. R \cup {p} \subseteq After(es, kind, x)
      BY <3>1
    <3> HIDE DEF R
    <3>4. Cardinality(R \cup {p}) <= Cardinality(After(es, kind, x))
      BY <1>5, <2>9, <3>3, PartSmaller
    <3> QED BY <1>5, <2>9, <3>2, <3>4
  <2>10. ASSUME NEW x \in Nat, at <= x + 1, ~(es[p].t > x - Window)
         PROVE  ~(Cardinality(After(es, kind, x)) >= cap)
    <3>1. ASSUME NEW i \in After(es, kind, x)
          PROVE  i \in R
      <4>1. i \in S /\ es[i].t > x - Window
        BY <1>5, <2>10 DEF After
      <4>2. ~(es[i].t <= es[p].t)
        BY <1>2, <1>4, <2>4, <2>10, <4>1
      <4>3. ~(i <= p)
        BY <1>2, <2>4, <4>1, <4>2 DEF Sorted
      <4>4. i > p
        BY <1>2, <2>4, <4>1, <4>3
      <4> QED BY <2>8, <4>1, <4>4
    <3>2. After(es, kind, x) \subseteq R
      BY <3>1
    <3> HIDE DEF R
    <3>3. Cardinality(After(es, kind, x)) <= Cardinality(R)
      BY <2>6, <3>2, PartSmaller
    <3> QED BY <1>5, <2>6, <2>7, <2>10, <3>3
  <2>11. ASSUME NEW x \in Nat, at <= x + 1
         PROVE  (w > x) <=> Cardinality(After(es, kind, x)) >= cap
    <3>1. (w > x) <=> es[p].t > x - Window
      BY <1>4, <2>3, <2>4
    <3> QED BY <2>9, <2>10, <2>11, <3>1
  <2>12. w \in Nat /\ w >= at /\ w <= top + Window
    BY <1>4, <2>3, <2>4
  <2> QED BY <2>11, <2>12 DEF w
<1> QED BY <1>6, <1>7

-----------------------------------------------------------------------------
(* The verdict. *)

LEMMA MinTwo ==
  ASSUME NEW a \in Int, NEW b \in Int
  PROVE  Min({a, b}) = IF a <= b THEN a ELSE b
<1> DEFINE S == {a, b}
           c == IF a <= b THEN a ELSE b
<1>1. c \in S /\ \A y \in S : c <= y
  OBVIOUS
<1>2. Min(S) \in S /\ \A y \in S : Min(S) <= y
  BY <1>1 DEF Min
<1>3. Min(S) <= c /\ c <= Min(S) /\ Min(S) \in Int
  BY <1>1, <1>2
<1> QED BY <1>3

LEMMA TwoTo ==
  ASSUME NEW k \in Nat
  PROVE  2 ^ k \in Nat /\ (16 <= k => 2 ^ 16 <= 2 ^ k)
<1> DEFINE A == 1 .. k
           B == 1 .. 16
<1>1. IsFiniteSet(A) /\ Cardinality(A) = k /\ IsFiniteSet(B) /\ Cardinality(B) = 16
  <2>1. \A n \in Nat : Cardinality(1 .. n) = n /\ IsFiniteSet(1 .. n)
    <3> SUFFICES ASSUME NEW n \in Nat
                 PROVE  Cardinality(1 .. n) = n /\ IsFiniteSet(1 .. n)
      OBVIOUS
    <3>1. IsFiniteSet(1 .. n) /\ Cardinality(1 .. n) = IF 1 > n THEN 0 ELSE n - 1 + 1
      BY FS_Interval
    <3> QED BY <3>1
  <2>2. 16 \in Nat
    OBVIOUS
  <2> QED BY <2>1, <2>2
<1>2. 16 <= k => B \subseteq A
  OBVIOUS
<1> HIDE DEF A, B
<1>3. /\ IsFiniteSet(SUBSET A) /\ Cardinality(SUBSET A) = 2 ^ k
      /\ IsFiniteSet(SUBSET B) /\ Cardinality(SUBSET B) = 2 ^ 16
  BY <1>1, FS_SUBSET
<1>4. 2 ^ k \in Nat
  BY <1>3, FS_CardinalityType
<1>5. ASSUME 16 <= k
      PROVE  2 ^ 16 <= 2 ^ k
  <2>1. SUBSET B \subseteq SUBSET A
    BY <1>2, <1>5
  <2>2. Cardinality(SUBSET B) <= Cardinality(SUBSET A)
    BY <1>3, <2>1, PartSmaller
  <2> QED BY <1>3, <2>2
<1> QED BY <1>4, <1>5

\* The cap on the exponent shows nowhere.
LEMMA BackoffIs ==
  ASSUME NEW run \in Nat, run > Budget
  PROVE  /\ Backoff(run) \in Nat /\ Backoff(run) <= BackoffMax
         /\ Backoff(run) = Min({BackoffMin * 2 ^ (run - Budget - 1), BackoffMax})
<1> DEFINE k == run - Budget - 1
           c == Min({k, 16})
<1>1. /\ Budget \in Nat /\ BackoffMin \in Nat /\ BackoffMax \in Nat
      /\ BackoffMax <= BackoffMin * 2 ^ 16
  BY GateAssumption
<1>2. k \in Nat
  BY <1>1
<1>3. c = IF k <= 16 THEN k ELSE 16
  BY <1>2, MinTwo
<1>4. Backoff(run) = Min({BackoffMin * 2 ^ c, BackoffMax})
  BY DEF Backoff
<1> HIDE DEF k, c
<1> DEFINE u == 2 ^ c
           v == 2 ^ k
           p == BackoffMin * u
           r == BackoffMin * v
<1>5. u \in Nat /\ v \in Nat
  BY <1>2, <1>3, TwoTo
<1>6. p \in Nat /\ r \in Nat
  BY <1>1, <1>5
<1>7. c = k \/ (BackoffMax <= p /\ BackoffMax <= r)
  <2>1. CASE k <= 16
    BY <1>3, <2>1
  <2>2. CASE ~(k <= 16)
    <3>1. c = 16 /\ 16 <= k
      BY <1>2, <1>3, <2>2
    <3>2. u = 2 ^ 16 /\ u <= v
      BY <1>2, <3>1, TwoTo
    <3>3. BackoffMax <= BackoffMin * u
      BY <1>1, <3>2
    <3> HIDE DEF u, v
    <3>4. BackoffMin * u <= BackoffMin * v
      BY <1>1, <1>5, <3>2
    <3> QED BY <1>1, <1>6, <3>3, <3>4
  <2> QED BY <2>1, <2>2
<1>8. c = k => p = r
  OBVIOUS
<1> HIDE DEF u, v, p, r
<1>9. /\ Min({p, BackoffMax}) = IF p <= BackoffMax THEN p ELSE BackoffMax
      /\ Min({r, BackoffMax}) = IF r <= BackoffMax THEN r ELSE BackoffMax
  BY <1>1, <1>6, MinTwo
<1>10. Min({p, BackoffMax}) = Min({r, BackoffMax}) /\ Min({p, BackoffMax}) \in Nat
       /\ Min({p, BackoffMax}) <= BackoffMax
  BY <1>1, <1>6, <1>7, <1>8, <1>9
<1> QED BY <1>4, <1>10 DEF p, r, u, v, k

\* The three rules, given when each of them lets go.
GateOf(b, f, p, at) ==
  Tighten(Tighten(Tighten([verdict |-> "OPEN", until |-> 0], "BACKOFF", b, at),
                  "FAIL_CAP", f, at), "PLUG_CAP", p, at)

LEMMA GateOfIs ==
  ASSUME NEW b \in Nat, NEW f \in Nat, NEW p \in Nat, NEW at \in Nat
  PROVE  /\ GateOf(b, f, p, at).verdict = "OPEN" <=> b <= at /\ f <= at /\ p <= at
         /\ GateOf(b, f, p, at).verdict # "OPEN" =>
              /\ GateOf(b, f, p, at).until \in {b, f, p}
              /\ at < GateOf(b, f, p, at).until
              /\ b <= GateOf(b, f, p, at).until
              /\ f <= GateOf(b, f, p, at).until
              /\ p <= GateOf(b, f, p, at).until
<1> DEFINE g0 == [verdict |-> "OPEN", until |-> 0]
           g1 == Tighten(g0, "BACKOFF", b, at)
           g2 == Tighten(g1, "FAIL_CAP", f, at)
           g3 == Tighten(g2, "PLUG_CAP", p, at)
<1>1. /\ b > at => g1.verdict = "BACKOFF" /\ g1.until = b
      /\ ~(b > at) => g1.verdict = "OPEN" /\ g1.until = 0
  BY DEF Tighten
<1> HIDE DEF g1
<1>2. /\ f > at /\ f > g1.until => g2.verdict = "FAIL_CAP" /\ g2.until = f
      /\ ~(f > at /\ f > g1.until) => g2 = g1
  BY DEF Tighten
<1> HIDE DEF g2
<1>3. /\ p > at /\ p > g2.until => g3.verdict = "PLUG_CAP" /\ g3.until = p
      /\ ~(p > at /\ p > g2.until) => g3 = g2
  BY DEF Tighten
<1> HIDE DEF g3
<1>4. /\ g3.verdict = "OPEN" <=> b <= at /\ f <= at /\ p <= at
      /\ g3.verdict # "OPEN" =>
           g3.until \in {b, f, p} /\ at < g3.until /\ b <= g3.until /\ f <= g3.until /\ p <= g3.until
  <2>1. g1.until \in Nat
    BY <1>1
  <2>2. /\ g2.verdict = "OPEN" <=> b <= at /\ f <= at
        /\ g2.verdict = "OPEN" => g2.until = 0
        /\ g2.verdict # "OPEN" => g2.until \in {b, f} /\ at < g2.until /\ b <= g2.until /\ f <= g2.until
    BY <1>1, <1>2, <2>1
  <2> QED BY <1>3, <2>2
<1>5. g3 = GateOf(b, f, p, at)
  BY DEF GateOf, g3, g2, g1
<1> QED BY <1>4, <1>5

LEMMA GateOfOpen ==
  ASSUME NEW b \in Nat, NEW f \in Nat, NEW p \in Nat, NEW at \in Nat
  PROVE  (GateOf(b, f, p, at).verdict = "OPEN") <=> (b <= at /\ f <= at /\ p <= at)
BY GateOfIs

\* When the backoff of the present run is over.
BackoffEnd(es) ==
  LET run == Cardinality(FailRun(es))
  IN  IF run > Budget THEN es[Max(FailRun(es))].t + Backoff(run) ELSE 0

LEMMA BackoffEndIs ==
  ASSUME NEW es \in Seq(Event), NEW top \in Nat, Sorted(es, top)
  PROVE  BackoffEnd(es) \in Nat /\ BackoffEnd(es) <= top + Window
<1> DEFINE run == Cardinality(FailRun(es))
<1>1. FailRun(es) \subseteq DOMAIN es
  BY DEF FailRun
<1>2. IsFiniteSet(FailRun(es)) /\ run \in Nat
  BY <1>1, PartCount
<1>3. Window \in Nat /\ BackoffMax \in Nat /\ BackoffMax < Window /\ Budget \in Nat
  BY GateAssumption
<1>4. CASE run > Budget
  <2>1. FailRun(es) # {}
    <3>1. run # 0
      BY <1>2, <1>3, <1>4
    <3> QED BY <3>1, FS_EmptySet
  <2>2. Len(es) \in Nat /\ FailRun(es) \subseteq 0 .. Len(es)
    BY <1>1, EventPlaces
  <2>3. Max(FailRun(es)) \in DOMAIN es
    BY <1>1, <2>1, <2>2, MaxIs
  <2>4. es[Max(FailRun(es))].t \in Nat /\ es[Max(FailRun(es))].t <= top
    BY <2>3, EventPlaces DEF Sorted
  <2>5. Backoff(run) \in Nat /\ Backoff(run) <= BackoffMax
    BY <1>2, <1>4, BackoffIs
  <2>6. BackoffEnd(es) = es[Max(FailRun(es))].t + Backoff(run)
    BY <1>4 DEF BackoffEnd
  <2> HIDE DEF run
  <2> QED BY <1>3, <2>4, <2>5, <2>6
<1>5. CASE ~(run > Budget)
  <2>1. BackoffEnd(es) = 0
    BY <1>5 DEF BackoffEnd
  <2> QED BY <1>3, <2>1
<1> QED BY <1>4, <1>5

LEMMA GateIs ==
  ASSUME NEW es, NEW at
  PROVE  Gate(es, at) = GateOf(BackoffEnd(es), WindowFreeAt(es, "FAIL", at, FailsPerHour),
                               WindowFreeAt(es, "PLUG", at, PlugsPerHour), at)
BY DEF Gate, GateOf, BackoffEnd

\* The gate is open exactly when no backoff runs and both counts are below
\* their caps.
LEMMA GateOpens ==
  ASSUME NEW es \in Seq(Event), NEW top \in Nat, Sorted(es, top), NEW x \in Nat
  PROVE  Gate(es, x).verdict = "OPEN"
           <=> /\ BackoffEnd(es) <= x
               /\ ~(Cardinality(After(es, "FAIL", x)) >= FailsPerHour)
               /\ ~(Cardinality(After(es, "PLUG", x)) >= PlugsPerHour)
<1> DEFINE f == WindowFreeAt(es, "FAIL", x, FailsPerHour)
           p == WindowFreeAt(es, "PLUG", x, PlugsPerHour)
<1>1. FailsPerHour \in Nat /\ PlugsPerHour \in Nat /\ FailsPerHour # 0 /\ PlugsPerHour # 0
  BY GateAssumption
<1>2. f \in Nat /\ (f > x <=> Cardinality(After(es, "FAIL", x)) >= FailsPerHour)
  BY <1>1, FreeAfter
<1>3. p \in Nat /\ (p > x <=> Cardinality(After(es, "PLUG", x)) >= PlugsPerHour)
  BY <1>1, FreeAfter
<1>4. BackoffEnd(es) \in Nat
  BY BackoffEndIs
<1>5. Gate(es, x) = GateOf(BackoffEnd(es), f, p, x)
  BY GateIs
<1> DEFINE b == BackoffEnd(es)
           g == Gate(es, x)
<1> HIDE DEF f, p, b, g
<1>6. g.verdict = "OPEN" <=> b <= x /\ f <= x /\ p <= x
  <2>1. b \in Nat /\ f \in Nat /\ p \in Nat
    BY <1>2, <1>3, <1>4 DEF b
  <2>2. g = GateOf(b, f, p, x)
    BY <1>5 DEF g, b
  <2>3. (GateOf(b, f, p, x).verdict = "OPEN") <=> (b <= x /\ f <= x /\ p <= x)
    BY <2>1, GateOfOpen, Zenon
  <2> QED BY <2>2, <2>3
<1> QED BY <1>2, <1>3, <1>6 DEF b, g

\* When the gate says until when it is shut, it opens then and not before.
LEMMA UntilOf ==
  ASSUME NEW es \in Seq(Event), NEW at \in Nat, Sorted(es, at),
         Gate(es, at).verdict # "OPEN"
  PROVE  LET u == Gate(es, at).until IN
         /\ at < u /\ u <= at + Window
         /\ Gate(es, u).verdict = "OPEN" /\ Gate(es, u - 1).verdict # "OPEN"
<1> DEFINE b == BackoffEnd(es)
           f == WindowFreeAt(es, "FAIL", at, FailsPerHour)
           p == WindowFreeAt(es, "PLUG", at, PlugsPerHour)
           u == Gate(es, at).until
<1>1. FailsPerHour \in Nat /\ PlugsPerHour \in Nat /\ FailsPerHour # 0 /\ PlugsPerHour # 0
  BY GateAssumption
<1>2. /\ f \in Nat /\ f <= at + Window
      /\ \A x \in Nat : at <= x + 1 =>
           (f > x <=> Cardinality(After(es, "FAIL", x)) >= FailsPerHour)
  BY <1>1, FreeAfter
<1>3. /\ p \in Nat /\ p <= at + Window
      /\ \A x \in Nat : at <= x + 1 =>
           (p > x <=> Cardinality(After(es, "PLUG", x)) >= PlugsPerHour)
  BY <1>1, FreeAfter
<1>4. b \in Nat /\ b <= at + Window
  BY BackoffEndIs
<1>5. Gate(es, at) = GateOf(b, f, p, at)
  BY GateIs
<1>6. \A x \in Nat : Gate(es, x).verdict = "OPEN"
                       <=> /\ b <= x
                           /\ ~(Cardinality(After(es, "FAIL", x)) >= FailsPerHour)
                           /\ ~(Cardinality(After(es, "PLUG", x)) >= PlugsPerHour)
  BY GateOpens
<1> HIDE DEF b, f, p
<1>7. u \in {b, f, p} /\ at < u /\ b <= u /\ f <= u /\ p <= u
  <2> DEFINE g == Gate(es, at)
  <2>1. g = GateOf(b, f, p, at) /\ g.verdict # "OPEN" /\ u = g.until
    BY <1>5
  <2>2. b \in Nat /\ f \in Nat /\ p \in Nat
    BY <1>2, <1>3, <1>4
  <2> HIDE DEF g, u
  <2>3. g.until \in {b, f, p} /\ at < g.until /\ b <= g.until /\ f <= g.until /\ p <= g.until
    BY <2>1, <2>2, GateOfIs
  <2> QED BY <2>1, <2>3
<1> HIDE DEF u
<1>8. u \in Nat /\ u - 1 \in Nat /\ at <= u + 1 /\ at <= (u - 1) + 1
  BY <1>2, <1>3, <1>4, <1>7
<1>9. Gate(es, u).verdict = "OPEN"
  <2>1. ~(f > u) /\ ~(p > u)
    BY <1>2, <1>3, <1>7, <1>8
  <2> QED BY <1>2, <1>3, <1>6, <1>7, <1>8, <2>1
<1>10. Gate(es, u - 1).verdict # "OPEN"
  <2> DEFINE v == u - 1
  <2>1. v \in Nat /\ at <= v + 1 /\ (b > v \/ f > v \/ p > v)
    BY <1>2, <1>3, <1>4, <1>7, <1>8
  <2> HIDE DEF v
  <2>2. Gate(es, v).verdict # "OPEN"
    BY <1>2, <1>3, <1>4, <1>6, <2>1
  <2> QED BY <2>2 DEF v
<1>11. u <= at + Window
  BY <1>2, <1>3, <1>4, <1>7
<1> QED BY <1>7, <1>9, <1>10, <1>11 DEF u

LEMMA FreeSame ==
  ASSUME NEW es \in Seq(Event), NEW hs \in Seq(Event), NEW at \in Nat, at # 0,
         Sorted(es, at), Sorted(hs, at), Shadow(es, hs, at),
         NEW kind, NEW cap \in Nat, cap # 0
  PROVE  WindowFreeAt(es, kind, at, cap) = WindowFreeAt(hs, kind, at, cap)
<1> DEFINE v == WindowFreeAt(es, kind, at, cap)
           w == WindowFreeAt(hs, kind, at, cap)
<1>1. /\ v \in Nat /\ (v = 0 \/ v >= at)
      /\ \A x \in Nat : at <= x + 1 => (v > x <=> Cardinality(After(es, kind, x)) >= cap)
  BY FreeAfter
<1>2. /\ w \in Nat /\ (w = 0 \/ w >= at)
      /\ \A x \in Nat : at <= x + 1 => (w > x <=> Cardinality(After(hs, kind, x)) >= cap)
  BY FreeAfter
<1>3. \A x \in Nat : at <= x + 1
        => Cardinality(After(es, kind, x)) = Cardinality(After(hs, kind, x))
  BY CountSame
<1> HIDE DEF v, w
<1>4. \A x \in Nat : at <= x + 1 => (v > x <=> w > x)
  BY <1>1, <1>2, <1>3
<1>5. v \in Nat /\ w \in Nat /\ (v = 0 \/ v >= at) /\ (w = 0 \/ w >= at)
  BY <1>1, <1>2
<1>6. ASSUME v # 0 PROVE v <= w
  <2>1. v - 1 \in Nat /\ at <= (v - 1) + 1 /\ v > v - 1
    BY <1>5, <1>6
  <2>2. w > v - 1
    BY <1>4, <2>1
  <2> QED BY <1>5, <2>2
<1>7. ASSUME w # 0 PROVE w <= v
  <2>1. w - 1 \in Nat /\ at <= (w - 1) + 1 /\ w > w - 1
    BY <1>5, <1>7
  <2>2. v > w - 1
    BY <1>4, <2>1
  <2> QED BY <1>5, <2>2
<1>8. v = w
  BY <1>5, <1>6, <1>7
<1> QED BY <1>8 DEF v, w

LEMMA BackoffSame ==
  ASSUME NEW es \in Seq(Event), NEW hs \in Seq(Event), NEW at \in Int, Shadow(es, hs, at)
  PROVE  BackoffEnd(es) = BackoffEnd(hs)
<1>1. /\ Cardinality(FailRun(es)) = Cardinality(FailRun(hs))
      /\ FailRun(es) # {} => es[Max(FailRun(es))] = hs[Max(FailRun(hs))]
  BY RunCount
<1>2. Budget \in Nat
  BY GateAssumption
<1>3. ASSUME Cardinality(FailRun(es)) > Budget PROVE FailRun(es) # {}
  <2> SUFFICES ASSUME FailRun(es) = {} PROVE FALSE
    OBVIOUS
  <2>1. Cardinality(FailRun(es)) = 0
    BY FS_EmptySet
  <2> QED BY <1>2, <1>3, <2>1
<1> QED BY <1>1, <1>3 DEF BackoffEnd

\* What is left after pruning makes the same verdict as the whole history.
LEMMA GateSame ==
  ASSUME NEW es \in Seq(Event), NEW hs \in Seq(Event), NEW at \in Nat, at # 0,
         Sorted(es, at), Sorted(hs, at), Shadow(es, hs, at)
  PROVE  Gate(es, at) = Gate(hs, at)
<1>1. FailsPerHour \in Nat /\ PlugsPerHour \in Nat /\ FailsPerHour # 0 /\ PlugsPerHour # 0
  BY GateAssumption
<1>2. WindowFreeAt(es, "FAIL", at, FailsPerHour) = WindowFreeAt(hs, "FAIL", at, FailsPerHour)
  BY <1>1, FreeSame
<1>3. WindowFreeAt(es, "PLUG", at, PlugsPerHour) = WindowFreeAt(hs, "PLUG", at, PlugsPerHour)
  BY <1>1, FreeSame
<1>4. BackoffEnd(es) = BackoffEnd(hs)
  BY BackoffSame
<1> QED BY <1>2, <1>3, <1>4, GateIs

-----------------------------------------------------------------------------
(* The inductive invariants. *)

GateTyped ==
  /\ now \in 1 .. MaxTime /\ shell \in Nat /\ plug_shell \in 0 .. shell
  /\ ev \in Seq(Event) /\ Sorted(ev, now)
  /\ since \in [Clients -> 0 .. now]

\* What is kept follows the history of the present gnome-shell.
Mirrored ==
  /\ hist \in Seq(Event) /\ Sorted(hist, now)
  /\ plug_shell = shell => Shadow(ev, hist, now)
  /\ plug_shell # shell => hist = <<>>

\* What the rules still look at fits the list (PLUG_EVENTS_MAX).
Fits == Cardinality(Keep(hist, now)) <= EventsMax

LEMMA SortedLater ==
  ASSUME NEW es \in Seq(Event), NEW at \in Int, NEW later \in Int, at <= later, Sorted(es, at)
  PROVE  Sorted(es, later)
<1>1. \A i \in DOMAIN es : es[i].t \in Nat
  BY EventPlaces
<1> QED BY <1>1 DEF Sorted

LEMMA EmptyHistory ==
  ASSUME NEW at
  PROVE  /\ <<>> \in Seq(Event) /\ Len(<<>>) = 0 /\ DOMAIN <<>> = {}
         /\ Sorted(<<>>, at) /\ Shadow(<<>>, <<>>, at)
<1> DEFINE q == <<>>
<1>1. q \in Seq(Event) /\ Len(q) = 0
  BY EmptySeq
<1>2. DOMAIN q = {}
  BY <1>1, LenProperties
<1> HIDE DEF q
<1>3. Sorted(q, at)
  BY <1>2 DEF Sorted
<1>4. Follows(q, q, q) /\ q \in [DOMAIN q -> DOMAIN q]
  <2>1. q \in [DOMAIN q -> DOMAIN q]
    BY <1>1, <1>2
  <2> QED BY <1>2, <2>1 DEF Follows
<1>5. Covers(q, q, q, at)
  BY <1>2 DEF Covers, Keep, FailRun
<1>6. Shadow(q, q, at)
  BY <1>4, <1>5 DEF Shadow
<1> QED BY <1>1, <1>2, <1>3, <1>6 DEF q

\* plug_prune keeps the order.
LEMMA PrunedIs ==
  ASSUME GateTyped, NEW at \in Int, now <= at
  PROVE  Pruned(at) \in Seq(Event) /\ Sorted(Pruned(at), now)
<1> DEFINE kept == Select(ev, Keep(ev, at))
           k == Len(kept)
           s == k - EventsMax
           cut == SubSeq(kept, s + 1, k)
<1>1. Pruned(at) = IF shell # plug_shell THEN <<>> ELSE IF s > 0 THEN cut ELSE kept
  BY DEF Pruned
<1>2. Keep(ev, at) \subseteq DOMAIN ev
  BY DEF Keep, FailRun
<1>3. kept \in Seq(Event) /\ Sorted(kept, now)
  BY <1>2, SelectIs, SelectSorted DEF GateTyped
<1> HIDE DEF kept
<1>4. k \in Nat /\ DOMAIN kept = 1 .. k
  BY <1>3, EventPlaces
<1>5. EventsMax \in Nat /\ 0 < EventsMax
  BY GateAssumption
<1>6. ASSUME s > 0
      PROVE  cut \in Seq(Event) /\ Sorted(cut, now)
  <2> HIDE DEF k
  <2>1. s \in Nat /\ s + 1 \in 1 .. k + 1 /\ s <= k
    BY <1>4, <1>5, <1>6
  <2> HIDE DEF s
  <2>2. \A i \in (s + 1) .. k : kept[i] \in Event
    BY <1>3, <1>4, <2>1, EventPlaces
  <2>3. /\ cut \in Seq(Event) /\ Len(cut) = k - s
        /\ \A i \in 1 .. k - s : cut[i] = kept[s + i]
    <3> DEFINE m == s + 1
    <3>1. m \in Int /\ k \in Int /\ \A i \in m .. k : kept[i] \in Event
      BY <1>4, <2>1, <2>2
    <3>2. m <= k /\ k - m + 1 = k - s /\ \A i \in 1 .. k - s : m + i - 1 = s + i
      BY <1>4, <1>5, <1>6, <2>1 DEF s
    <3>3. cut = SubSeq(kept, m, k)
      OBVIOUS
    <3> HIDE DEF m, cut
    <3>4. /\ cut \in Seq(Event)
          /\ Len(cut) = IF m <= k THEN k - m + 1 ELSE 0
          /\ \A i \in 1 .. k - m + 1 : cut[i] = kept[m + i - 1]
      BY <3>1, <3>3, SubSeqProperties
    <3>5. Len(cut) = k - s
      BY <3>2, <3>4
    <3>6. ASSUME NEW i \in 1 .. k - s
          PROVE  cut[i] = kept[s + i]
      <4>1. i \in 1 .. k - m + 1 /\ m + i - 1 = s + i
        BY <3>2
      <4> QED BY <3>4, <4>1
    <3> QED BY <3>4, <3>5, <3>6
  <2> HIDE DEF cut
  <2>4. DOMAIN cut = 1 .. k - s
    BY <2>3, EventPlaces
  <2>5. \A i \in 1 .. k - s : s + i \in DOMAIN kept
    BY <1>4, <2>1
  <2>6. ASSUME NEW i \in 1 .. k - s, NEW j \in 1 .. k - s, i <= j
        PROVE  cut[i].t <= cut[j].t
    <3>1. s + i <= s + j
      BY <1>4, <2>1, <2>6
    <3>2. kept[s + i].t <= kept[s + j].t
      BY <1>3, <2>5, <3>1 DEF Sorted
    <3> QED BY <2>3, <3>2
  <2>7. \A i \in 1 .. k - s : cut[i].t <= now
    BY <1>3, <2>3, <2>5 DEF Sorted
  <2> QED BY <2>3, <2>4, <2>6, <2>7 DEF Sorted
<1>7. CASE shell # plug_shell
  BY <1>1, <1>7, EmptyHistory
<1>8. CASE ~(shell # plug_shell) /\ s > 0
  BY <1>1, <1>6, <1>8
<1>9. CASE ~(shell # plug_shell) /\ ~(s > 0)
  BY <1>1, <1>3, <1>9
<1> QED BY <1>7, <1>8, <1>9

\* Pruning keeps as many events as it would of the whole history.
LEMMA KeepSame ==
  ASSUME NEW es \in Seq(Event), NEW hs \in Seq(Event), NEW at \in Int, Shadow(es, hs, at)
  PROVE  Cardinality(Keep(es, at)) = Cardinality(Keep(hs, at))
<1> DEFINE S == Keep(es, at)
           T == Keep(hs, at)
<1>1. PICK m \in [DOMAIN es -> DOMAIN hs] : Follows(m, es, hs) /\ Covers(m, es, hs, at)
  BY DEF Shadow
<1>2. S \subseteq DOMAIN es /\ T \subseteq DOMAIN hs
  BY DEF Keep, FailRun
<1>3. ASSUME NEW i \in DOMAIN es
      PROVE  i \in S <=> m[i] \in T
  <2>1. m[i] \in DOMAIN hs /\ es[i] = hs[m[i]]
    BY <1>1 DEF Follows
  <2>2. i \in FailRun(es) <=> m[i] \in FailRun(hs)
    BY <1>1, RunSame
  <2> QED BY <2>1, <2>2 DEF Keep
<1>4. \A y \in T : \E i \in DOMAIN es : m[i] = y
  BY <1>1 DEF Covers
<1> HIDE DEF S, T
<1>5. Cardinality(S) = Cardinality(T)
  BY <1>1, <1>2, <1>3, <1>4, PartSame
<1> QED BY <1>5 DEF S, T

LEMMA KeepLater ==
  ASSUME NEW hs \in Seq(Event), NEW at \in Int, NEW later \in Int, at <= later
  PROVE  /\ Cardinality(Keep(hs, later)) <= Cardinality(Keep(hs, at))
         /\ Cardinality(Keep(hs, later)) \in Nat /\ Cardinality(Keep(hs, at)) \in Nat
<1>1. \A i \in DOMAIN hs : hs[i].t \in Nat
  BY EventPlaces
<1>2. Window \in Nat
  BY GateAssumption
<1>3. Keep(hs, later) \subseteq Keep(hs, at)
  BY <1>1, <1>2 DEF Keep, InWindow
<1>4. Keep(hs, at) \subseteq DOMAIN hs
  BY DEF Keep, FailRun
<1>5. IsFiniteSet(Keep(hs, at))
  BY <1>4, PartCount
<1> QED BY <1>3, <1>5, PartSmaller

\* As long as the list does not fill up, it loses nothing that counts.
LEMMA PrunedFollows ==
  ASSUME Fits, GateTyped, Mirrored, NEW at \in Int, now <= at
  PROVE  Shadow(Pruned(at), hist, at)
<1> DEFINE kept == Select(ev, Keep(ev, at))
           k == Len(kept)
           s == k - EventsMax
<1>1. Pruned(at) = IF shell # plug_shell THEN <<>>
                   ELSE IF s > 0 THEN SubSeq(kept, s + 1, k) ELSE kept
  BY DEF Pruned
<1>2. now \in Int /\ ev \in Seq(Event) /\ hist \in Seq(Event)
  BY GateAssumption DEF GateTyped, Mirrored
<1>3. CASE shell # plug_shell
  <2>1. hist = <<>> /\ Pruned(at) = <<>>
    BY <1>1, <1>3 DEF Mirrored
  <2> QED BY <2>1, EmptyHistory
<1>4. CASE shell = plug_shell
  <2>1. Shadow(ev, hist, at) /\ Sorted(hist, at)
    BY <1>2, <1>4, LaterShadow, SortedLater DEF Mirrored
  <2>2. Shadow(kept, hist, at)
    BY <1>2, <2>1, PruneShadow
  <2>3. Keep(ev, at) \subseteq DOMAIN ev
    BY DEF Keep, FailRun
  <2>4. k = Cardinality(Keep(ev, at)) /\ k \in Nat
    BY <1>2, <2>3, SelectIs
  <2>5. k = Cardinality(Keep(hist, at))
    BY <1>2, <2>1, <2>4, KeepSame
  <2>6. EventsMax \in Nat
    BY GateAssumption
  <2> HIDE DEF k
  <2>7. k <= EventsMax
    <3>1. /\ Cardinality(Keep(hist, at)) <= Cardinality(Keep(hist, now))
          /\ Cardinality(Keep(hist, now)) \in Nat
      BY <1>2, KeepLater
    <3> QED BY <2>4, <2>5, <2>6, <3>1 DEF Fits
  <2>8. ~(s > 0)
    BY <2>4, <2>6, <2>7
  <2> QED BY <1>1, <1>4, <2>2, <2>8
<1> QED BY <1>3, <1>4

LEMMA NowIs ==
  ASSUME GateTyped
  PROVE  now \in Nat /\ now # 0 /\ MaxTime \in Nat /\ now <= MaxTime
BY GateAssumption DEF GateTyped

LEMMA RecordTyped ==
  ASSUME GateTyped, NEW at \in now .. MaxTime, NEW kind \in Kinds, Record(kind, at)
  PROVE  ev' \in Seq(Event) /\ Sorted(ev', at) /\ plug_shell' = shell
<1> DEFINE e == [t |-> at, kind |-> kind]
<1>1. now \in Nat /\ now # 0 /\ MaxTime \in Nat
  BY NowIs
<1>2. at \in Int /\ now <= at /\ at \in 1 .. MaxTime
  BY <1>1
<1>3. e \in Event /\ e.t = at
  BY <1>2 DEF Event
<1>4. Pruned(at) \in Seq(Event) /\ Sorted(Pruned(at), now)
  BY <1>2, PrunedIs
<1>5. ev' = Append(Pruned(at), e) /\ plug_shell' = shell
  BY DEF Record
<1> HIDE DEF e
<1>6. Sorted(Append(Pruned(at), e), at)
  BY <1>1, <1>2, <1>3, <1>4, AppendSorted
<1> QED BY <1>3, <1>4, <1>5, <1>6, AppendIs

\* Types are kept by every step.
LEMMA GateTypedKept ==
  ASSUME GateTyped, [GateNext]_gateVars
  PROVE  GateTyped'
<1> USE DEF GateTyped
<1>1. now \in Nat /\ now # 0 /\ MaxTime \in Nat /\ AddTime \in Nat /\ now <= MaxTime
  BY NowIs, GateAssumption
<1>2. shell \in 0 .. shell
  OBVIOUS
<1>3. ASSUME NEW at \in now .. MaxTime, NEW kind \in Kinds, Record(kind, at), now' = at,
             shell' = shell, NEW k \in Clients, NEW v \in {0, at},
             since' = [since EXCEPT ![k] = v]
      PROVE  GateTyped'
  <2>1. ev' \in Seq(Event) /\ Sorted(ev', at) /\ plug_shell' = shell
    BY <1>3, RecordTyped
  <2>2. since' \in [Clients -> 0 .. now']
    BY <1>1, <1>3
  <2>3. now' \in 1 .. MaxTime
    BY <1>1, <1>3
  <2>4. Sorted(ev', now')
    BY <1>3, <2>1
  <2> QED BY <1>2, <1>3, <2>1, <2>2, <2>3, <2>4 DEF Sorted
<1>4. CASE Tick
  <2>1. now' \in 1 .. MaxTime /\ now <= now' /\ now' \in Int
    BY <1>1, <1>4 DEF Tick
  <2>2. Sorted(ev, now')
    BY <1>1, <2>1, SortedLater
  <2>3. since' \in [Clients -> 0 .. now']
    BY <1>1, <1>4, <2>1 DEF Tick
  <2> QED BY <1>4, <2>1, <2>2, <2>3 DEF Tick, Sorted
<1>5. CASE ShellChange
  BY <1>5 DEF ShellChange, Sorted
<1>6. ASSUME NEW k \in Clients, NEW wait \in 0 .. AddTime, Plug(k, wait)
      PROVE  GateTyped'
  <2> DEFINE at == now + wait
  <2>1. at \in now .. MaxTime /\ now' = at /\ Record("PLUG", at)
    BY <1>1, <1>6 DEF Plug
  <2>2. since' = [since EXCEPT ![k] = at] /\ shell' = shell
    BY <1>6 DEF Plug
  <2>3. "PLUG" \in Kinds /\ at \in {0, at}
    BY DEF Kinds
  <2> HIDE DEF at
  <2> QED BY <1>3, <2>1, <2>2, <2>3
<1>7. ASSUME NEW k \in Clients, Refuse(k)
      PROVE  GateTyped'
  <2>1. Pruned(now) \in Seq(Event) /\ Sorted(Pruned(now), now)
    BY <1>1, PrunedIs
  <2>2. ev' = Pruned(now) /\ plug_shell' = shell /\ UNCHANGED <<now, shell, since>>
    BY <1>7 DEF Refuse, PruneOnly
  <2> QED BY <1>2, <2>1, <2>2 DEF Sorted
<1>8. ASSUME NEW k \in Clients, Lit(k) \/ Fail(k)
      PROVE  GateTyped'
  <2>1. PICK kind \in Kinds : Record(kind, now)
    BY <1>8 DEF Lit, Fail, Kinds
  <2>2. since' = [since EXCEPT ![k] = 0] /\ now' = now /\ shell' = shell
    BY <1>8 DEF Lit, Fail
  <2>3. now \in now .. MaxTime /\ 0 \in {0, now}
    BY <1>1
  <2> QED BY <1>3, <2>1, <2>2, <2>3
<1>9. ASSUME NEW k \in Clients, Leave(k)
      PROVE  GateTyped'
  BY <1>1, <1>9 DEF Leave, Sorted
<1>10. CASE UNCHANGED gateVars
  BY <1>10 DEF gateVars, Sorted
<1> QED BY <1>4, <1>5, <1>6, <1>7, <1>8, <1>9, <1>10 DEF GateNext

LEMMA GateTypedFirst ==
  ASSUME GateInit
  PROVE  GateTyped
<1>1. ev = <<>> /\ now = 1 /\ shell = 0 /\ plug_shell = 0 /\ since = [k \in Clients |-> 0]
  BY DEF GateInit
<1>2. <<>> \in Seq(Event) /\ Sorted(<<>>, now)
  BY EmptyHistory
<1>3. 1 \in 1 .. MaxTime
  BY GateAssumption
<1>4. since \in [Clients -> 0 .. now]
  BY <1>1
<1> QED BY <1>1, <1>2, <1>3, <1>4 DEF GateTyped

\* Every variable of the gate keeps to its type, and the events are kept in
\* chronological order, whatever pruning drops and however late a plug is.
THEOREM GateTypeCorrect == GateSpec => []GateTypeOK
<1>1. GateInit => GateTyped
  BY GateTypedFirst
<1>2. GateTyped /\ [GateNext]_gateVars => GateTyped'
  BY GateTypedKept
<1>3. GateTyped => GateTypeOK
  BY DEF GateTyped, GateTypeOK, Sorted
<1> QED BY <1>1, <1>2, <1>3, PTL DEF GateSpec

\* The time until which clients are refused is the time at which the gate
\* opens (plug_gate, window_free_at), also when the list has filled up.
THEOREM UntilAlwaysHonest == GateSpec => []UntilHonest
<1>1. GateInit => GateTyped
  BY GateTypedFirst
<1>2. GateTyped /\ [GateNext]_gateVars => GateTyped'
  BY GateTypedKept
<1>3. ASSUME GateTyped
      PROVE  UntilHonest
  <2> DEFINE es == Pruned(now)
             u == Gate(es, now).until
  <2>1. now \in Nat /\ now \in Int /\ now <= now
    BY <1>3, NowIs
  <2>2. es \in Seq(Event) /\ Sorted(es, now)
    BY <1>3, <2>1, PrunedIs
  <2> HIDE DEF es
  <2>3. ASSUME Gate(es, now).verdict # "OPEN"
        PROVE  /\ now < u /\ u <= now + Window
               /\ Gate(es, u).verdict = "OPEN" /\ Gate(es, u - 1).verdict # "OPEN"
    BY <2>1, <2>2, <2>3, UntilOf
  <2> QED BY <2>3 DEF UntilHonest, es
<1> QED BY <1>1, <1>2, <1>3, PTL DEF GateSpec

-----------------------------------------------------------------------------
(* As long as the list does not fill up. *)

LEMMA RecordMirrored ==
  ASSUME Fits, GateTyped, Mirrored, NEW at \in now .. MaxTime, NEW kind \in Kinds,
         Record(kind, at)
  PROVE  hist' \in Seq(Event) /\ Sorted(hist', at) /\ Shadow(ev', hist', at)
<1> DEFINE e == [t |-> at, kind |-> kind]
<1>1. now \in Nat /\ now # 0 /\ MaxTime \in Nat
  BY NowIs
<1>2. at \in Int /\ now <= at /\ at \in 1 .. MaxTime
  BY <1>1
<1>3. e \in Event /\ e.t = at
  BY <1>2 DEF Event
<1>4. /\ ev' = Append(Pruned(at), e) /\ hist' = Append(hist, e)
      /\ hist \in Seq(Event) /\ Sorted(hist, now) /\ Pruned(at) \in Seq(Event)
  BY <1>2, PrunedIs DEF Record, Mirrored
<1>5. Shadow(Pruned(at), hist, at)
  BY <1>2, PrunedFollows
<1> HIDE DEF e
<1>6. hist' \in Seq(Event) /\ Sorted(hist', at)
  BY <1>1, <1>2, <1>3, <1>4, AppendSorted, AppendIs
<1>7. Shadow(ev', hist', at)
  BY <1>2, <1>3, <1>4, <1>5, AppendShadow
<1> QED BY <1>6, <1>7

LEMMA MirroredKept ==
  ASSUME Fits, GateTyped, Mirrored, [GateNext]_gateVars
  PROVE  Mirrored'
<1> USE DEF Mirrored
<1>1. /\ now \in Nat /\ now # 0 /\ MaxTime \in Nat /\ AddTime \in Nat /\ now <= MaxTime
      /\ ev \in Seq(Event) /\ plug_shell <= shell /\ shell \in Nat /\ plug_shell \in Nat
  BY NowIs, GateAssumption DEF GateTyped
<1>2. ASSUME NEW at \in now .. MaxTime, NEW kind \in Kinds, Record(kind, at), now' = at,
             shell' = shell
      PROVE  Mirrored'
  <2>1. hist' \in Seq(Event) /\ Sorted(hist', at) /\ Shadow(ev', hist', at)
    BY <1>2, RecordMirrored
  <2>2. plug_shell' = shell'
    BY <1>2 DEF Record
  <2>3. Sorted(hist', now') /\ Shadow(ev', hist', now')
    BY <1>2, <2>1
  <2> QED BY <2>1, <2>2, <2>3 DEF Sorted, Shadow
<1>3. CASE Tick
  <2>1. now' \in Int /\ now <= now' /\ UNCHANGED <<shell, ev, plug_shell, hist>>
    BY <1>1, <1>3 DEF Tick
  <2>2. Sorted(hist, now')
    BY <1>1, <2>1, SortedLater
  <2>3. plug_shell = shell => Shadow(ev, hist, now')
    BY <1>1, <2>1, LaterShadow
  <2> QED BY <2>1, <2>2, <2>3
<1>4. CASE ShellChange
  <2>1. hist' = <<>> /\ plug_shell' # shell' /\ now' = now
    BY <1>1, <1>4 DEF ShellChange
  <2>2. <<>> \in Seq(Event) /\ Sorted(<<>>, now)
    BY EmptyHistory
  <2> QED BY <2>1, <2>2
<1>5. ASSUME NEW k \in Clients, NEW wait \in 0 .. AddTime, Plug(k, wait)
      PROVE  Mirrored'
  <2> DEFINE at == now + wait
  <2>1. at \in now .. MaxTime /\ now' = at /\ Record("PLUG", at) /\ shell' = shell
    BY <1>1, <1>5 DEF Plug
  <2>2. "PLUG" \in Kinds
    BY DEF Kinds
  <2> HIDE DEF at
  <2> QED BY <1>2, <2>1, <2>2
<1>6. ASSUME NEW k \in Clients, Refuse(k)
      PROVE  Mirrored'
  <2>1. ev' = Pruned(now) /\ plug_shell' = shell' /\ UNCHANGED <<now, shell, since, hist>>
    BY <1>6 DEF Refuse, PruneOnly
  <2>2. Shadow(Pruned(now), hist, now)
    BY <1>1, PrunedFollows
  <2> QED BY <2>1, <2>2
<1>7. ASSUME NEW k \in Clients, Lit(k) \/ Fail(k)
      PROVE  Mirrored'
  <2>1. PICK kind \in Kinds : Record(kind, now)
    BY <1>7 DEF Lit, Fail, Kinds
  <2>2. now' = now /\ shell' = shell
    BY <1>7 DEF Lit, Fail
  <2>3. now \in now .. MaxTime
    BY <1>1
  <2> QED BY <1>2, <2>1, <2>2, <2>3
<1>8. ASSUME NEW k \in Clients, Leave(k)
      PROVE  Mirrored'
  BY <1>8 DEF Leave
<1>9. CASE UNCHANGED gateVars
  BY <1>9 DEF gateVars
<1> QED BY <1>3, <1>4, <1>5, <1>6, <1>7, <1>8, <1>9 DEF GateNext

LEMMA MirroredFirst ==
  ASSUME GateInit
  PROVE  Mirrored
<1>1. ev = <<>> /\ hist = <<>> /\ plug_shell = shell
  BY DEF GateInit
<1>2. <<>> \in Seq(Event) /\ Sorted(<<>>, now) /\ Shadow(<<>>, <<>>, now)
  BY EmptyHistory
<1> QED BY <1>1, <1>2 DEF Mirrored

\* What the gate says of the list is what it would say of the history.
LEMMA PruneHides ==
  ASSUME Fits, GateTyped, Mirrored
  PROVE  Gate(Pruned(now), now) = Gate(hist, now)
<1>1. now \in Nat /\ now # 0 /\ now \in Int /\ now <= now
  BY NowIs
<1>2. Pruned(now) \in Seq(Event) /\ Sorted(Pruned(now), now)
  BY <1>1, PrunedIs
<1>3. hist \in Seq(Event) /\ Sorted(hist, now)
  BY DEF Mirrored
<1>4. Shadow(Pruned(now), hist, now)
  BY <1>1, PrunedFollows
<1> QED BY <1>1, <1>2, <1>3, <1>4, GateSame

\* So an open gate speaks about the whole history.
LEMMA OpenMeans ==
  ASSUME Fits, GateTyped, Mirrored, GateOpen
  PROVE  /\ BackoffEnd(hist) <= now
         /\ ~(Cardinality(After(hist, "FAIL", now)) >= FailsPerHour)
         /\ ~(Cardinality(After(hist, "PLUG", now)) >= PlugsPerHour)
<1>1. now \in Nat
  BY NowIs
<1>2. Gate(hist, now).verdict = "OPEN"
  BY PruneHides DEF GateOpen
<1>3. hist \in Seq(Event) /\ Sorted(hist, now)
  BY DEF Mirrored
<1> QED BY <1>1, <1>2, <1>3, GateOpens

\* Pruning is invisible (plug_prune) as long as the list does not fill up: the
\* gate says of it what it would say of every event of the present gnome-shell.
THEOREM PruneAlwaysInvisible == GateSpec /\ []Fits => []PruneInvisible
<1>1. GateInit => GateTyped /\ Mirrored
  BY GateTypedFirst, MirroredFirst
<1>2. GateTyped /\ Mirrored /\ Fits /\ [GateNext]_gateVars => (GateTyped /\ Mirrored)'
  BY GateTypedKept, MirroredKept
<1>3. GateTyped /\ Mirrored /\ Fits => PruneInvisible
  BY PruneHides DEF PruneInvisible
<1> QED BY <1>1, <1>2, <1>3, PTL DEF GateSpec

-----------------------------------------------------------------------------
(* The caps and the backoff. *)

LEMMA AfterIs ==
  ASSUME NEW hs \in Seq(Event), NEW kind, NEW x
  PROVE  IsFiniteSet(After(hs, kind, x)) /\ Cardinality(After(hs, kind, x)) \in Nat
<1>1. After(hs, kind, x) \subseteq DOMAIN hs
  BY DEF After
<1> QED BY <1>1, PartCount

\* Time only takes events out of the hour.
LEMMA AfterLater ==
  ASSUME NEW hs \in Seq(Event), NEW kind, NEW x \in Int, NEW y \in Int, x <= y
  PROVE  Cardinality(After(hs, kind, y)) <= Cardinality(After(hs, kind, x))
<1>1. Window \in Nat /\ \A i \in DOMAIN hs : hs[i].t \in Nat
  BY EventPlaces, GateAssumption
<1>2. After(hs, kind, y) \subseteq After(hs, kind, x)
  BY <1>1 DEF After
<1> QED BY <1>2, AfterIs, PartSmaller

\* An event counts once, and only for its own kind.
LEMMA AfterAppend ==
  ASSUME NEW hs \in Seq(Event), NEW e \in Event, NEW kind, NEW x
  PROVE  /\ Cardinality(After(Append(hs, e), kind, x)) <= Cardinality(After(hs, kind, x)) + 1
         /\ e.kind # kind =>
              Cardinality(After(Append(hs, e), kind, x)) <= Cardinality(After(hs, kind, x))
<1> DEFINE H == Append(hs, e)
           n == Len(hs) + 1
           A == After(hs, kind, x)
           B == After(H, kind, x)
<1>1. /\ DOMAIN H = DOMAIN hs \cup {n} /\ n \notin DOMAIN hs /\ H[n] = e
      /\ \A i \in DOMAIN hs : H[i] = hs[i]
  BY AppendIs
<1>2. B \subseteq A \cup {n} /\ (e.kind # kind => B \subseteq A) /\ n \notin A
  <2> HIDE DEF H
  <2> QED BY <1>1 DEF After
<1>3. IsFiniteSet(A) /\ Cardinality(A) \in Nat
  BY AfterIs
<1> HIDE DEF A, B
<1>4. IsFiniteSet(A \cup {n}) /\ Cardinality(A \cup {n}) = Cardinality(A) + 1
  BY <1>2, <1>3, FS_AddElement
<1>5. Cardinality(B) <= Cardinality(A \cup {n})
  BY <1>2, <1>4, PartSmaller
<1>6. e.kind # kind => Cardinality(B) <= Cardinality(A)
  BY <1>2, <1>3, PartSmaller
<1> QED BY <1>4, <1>5, <1>6 DEF A, B

LEMMA RecordCounts ==
  ASSUME GateTyped, Mirrored, NEW at \in now .. MaxTime, NEW kd \in Kinds, Record(kd, at),
         NEW kind
  PROVE  /\ Cardinality(After(hist', kind, at)) <= Cardinality(After(hist, kind, now)) + 1
         /\ kd # kind => Cardinality(After(hist', kind, at)) <= Cardinality(After(hist, kind, now))
         /\ Cardinality(After(hist', kind, at)) \in Nat
<1> DEFINE e == [t |-> at, kind |-> kd]
           H == Append(hist, e)
<1>1. now \in Nat /\ now # 0 /\ MaxTime \in Nat
  BY NowIs
<1>2. at \in Int /\ now <= at /\ at \in 1 .. MaxTime
  BY <1>1
<1>3. e \in Event /\ e.kind = kd
  BY <1>2 DEF Event
<1>4. hist' = H /\ hist \in Seq(Event)
  BY DEF Record, Mirrored
<1> HIDE DEF e
<1>5. H \in Seq(Event)
  BY <1>3, <1>4, AppendIs
<1>6. /\ Cardinality(After(H, kind, at)) <= Cardinality(After(hist, kind, at)) + 1
      /\ kd # kind => Cardinality(After(H, kind, at)) <= Cardinality(After(hist, kind, at))
  BY <1>3, <1>4, AfterAppend
<1> HIDE DEF H
<1>7. Cardinality(After(hist, kind, at)) <= Cardinality(After(hist, kind, now))
  BY <1>1, <1>2, <1>4, AfterLater
<1>8. /\ Cardinality(After(hist, kind, at)) \in Nat /\ Cardinality(After(hist, kind, now)) \in Nat
      /\ Cardinality(After(H, kind, at)) \in Nat
  BY <1>4, <1>5, AfterIs
<1>9. /\ Cardinality(After(H, kind, at)) <= Cardinality(After(hist, kind, now)) + 1
      /\ kd # kind => Cardinality(After(H, kind, at)) <= Cardinality(After(hist, kind, now))
  BY <1>6, <1>7, <1>8
<1> QED BY <1>4, <1>8, <1>9

Plugs == Cardinality(After(hist, "PLUG", now))
Fails == Cardinality(After(hist, "FAIL", now))
Waiting == {k \in Clients : since[k] # 0}

LEMMA CapsAre ==
  /\ CapsKept <=> /\ Plugs <= PlugsPerHour
                  /\ Fails + Cardinality(Waiting) <= FailsPerHour - 1 + Cardinality(Clients)
  /\ CapsKept' <=> /\ Plugs' <= PlugsPerHour
                   /\ Fails' + Cardinality(Waiting') <= FailsPerHour - 1 + Cardinality(Clients)
BY DEF CapsKept, PlugsCapped, FailsBounded, Recent, Plugs, Fails, Waiting, After

LEMMA WaitingIs ==
  /\ IsFiniteSet(Waiting) /\ Cardinality(Waiting) \in Nat
  /\ Cardinality(Waiting') \in Nat /\ Cardinality(Waiting') <= Cardinality(Clients)
  /\ Cardinality(Waiting) <= Cardinality(Clients) /\ Cardinality(Clients) \in Nat
<1>1. IsFiniteSet(Clients)
  BY GateAssumption
<1>2. Waiting \subseteq Clients /\ Waiting' \subseteq Clients
  BY DEF Waiting
<1> QED BY <1>1, <1>2, PartSmaller

\* A connector that lit up, timed out or was left is no longer waited for.
LEMMA WaitingLess ==
  ASSUME GateTyped, NEW k \in Clients, since[k] # 0, since' = [since EXCEPT ![k] = 0]
  PROVE  Cardinality(Waiting') = Cardinality(Waiting) - 1
<1>1. k \in Waiting
  BY DEF Waiting
<1>2. Waiting' = Waiting \ {k}
  BY DEF Waiting, GateTyped
<1> QED BY <1>1, <1>2, WaitingIs, FS_RemoveElement

LEMMA CapsKeptOn ==
  ASSUME Fits, GateTyped, Mirrored, CapsKept, [GateNext]_gateVars
  PROVE  CapsKept'
<1>1. /\ now \in Nat /\ now # 0 /\ MaxTime \in Nat /\ AddTime \in Nat /\ now <= MaxTime
      /\ PlugsPerHour \in Nat /\ FailsPerHour \in Nat /\ hist \in Seq(Event)
      /\ 0 < PlugsPerHour /\ 0 < FailsPerHour
  BY NowIs, GateAssumption DEF Mirrored
<1>2. Plugs \in Nat /\ Fails \in Nat
  BY <1>1, AfterIs DEF Plugs, Fails
<1>3. /\ Plugs <= PlugsPerHour
      /\ Fails + Cardinality(Waiting) <= FailsPerHour - 1 + Cardinality(Clients)
  BY CapsAre
<1>4. /\ Cardinality(Waiting) \in Nat
      /\ Cardinality(Waiting') \in Nat /\ Cardinality(Waiting') <= Cardinality(Clients)
      /\ Cardinality(Waiting) <= Cardinality(Clients) /\ Cardinality(Clients) \in Nat
  BY WaitingIs
<1>5. ASSUME NEW at \in now .. MaxTime, NEW kd \in Kinds, Record(kd, at), now' = at
      PROVE  /\ Plugs' \in Nat /\ Fails' \in Nat
             /\ Plugs' <= Plugs + 1 /\ (kd # "PLUG" => Plugs' <= Plugs)
             /\ Fails' <= Fails + 1 /\ (kd # "FAIL" => Fails' <= Fails)
  <2>1. Plugs' = Cardinality(After(hist', "PLUG", at)) /\ Fails' = Cardinality(After(hist', "FAIL", at))
    BY <1>5 DEF Plugs, Fails, After
  <2> QED BY <1>5, <2>1, RecordCounts DEF Plugs, Fails
<1>6. ASSUME Plugs' \in Nat, Fails' \in Nat, Plugs' <= Plugs, Fails' <= Fails,
             Cardinality(Waiting') <= Cardinality(Waiting)
      PROVE  CapsKept'
  BY <1>1, <1>2, <1>3, <1>4, <1>6, CapsAre
<1>7. CASE Tick
  <2>1. now' \in Int /\ now <= now' /\ hist' = hist /\ since' = since
    BY <1>1, <1>7 DEF Tick
  <2>2. Plugs' = Cardinality(After(hist, "PLUG", now')) /\ Fails' = Cardinality(After(hist, "FAIL", now'))
    BY <2>1 DEF Plugs, Fails, After
  <2>3. Waiting' = Waiting
    BY <2>1 DEF Waiting
  <2>4. Plugs' <= Plugs /\ Fails' <= Fails /\ Plugs' \in Nat /\ Fails' \in Nat
    BY <1>1, <2>1, <2>2, AfterLater, AfterIs DEF Plugs, Fails
  <2> QED BY <1>4, <1>6, <2>3, <2>4
<1>8. CASE ShellChange
  <2>1. hist' = <<>> /\ since' = since
    BY <1>8 DEF ShellChange
  <2>2. DOMAIN <<>> = {}
    BY EmptyHistory
  <2>3. Plugs' = Cardinality({}) /\ Fails' = Cardinality({}) /\ Waiting' = Waiting
    BY <2>1, <2>2 DEF Plugs, Fails, After, Waiting
  <2>4. Plugs' = 0 /\ Fails' = 0
    BY <2>3, FS_EmptySet
  <2>5. Plugs' \in Nat /\ Fails' \in Nat /\ Plugs' <= Plugs /\ Fails' <= Fails
    BY <1>2, <2>4
  <2> QED BY <1>4, <1>6, <2>3, <2>5
<1>9. ASSUME NEW k \in Clients, NEW wait \in 0 .. AddTime, Plug(k, wait)
      PROVE  CapsKept'
  <2> DEFINE at == now + wait
  <2>1. at \in now .. MaxTime /\ now' = at /\ Record("PLUG", at) /\ GateOpen
    BY <1>1, <1>9 DEF Plug
  <2>2. "PLUG" \in Kinds /\ "PLUG" # "FAIL"
    BY DEF Kinds
  <2> HIDE DEF at
  <2>3. ~(Plugs >= PlugsPerHour) /\ ~(Fails >= FailsPerHour)
    BY <2>1, OpenMeans DEF Plugs, Fails
  <2>4. Plugs' \in Nat /\ Fails' \in Nat /\ Plugs' <= Plugs + 1 /\ Fails' <= Fails
    BY <1>5, <2>1, <2>2
  <2> QED BY <1>1, <1>2, <1>4, <2>3, <2>4, CapsAre
<1>10. ASSUME NEW k \in Clients, Refuse(k)
       PROVE  CapsKept'
  <2>1. UNCHANGED <<now, since, hist>>
    BY <1>10 DEF Refuse, PruneOnly
  <2> QED BY <2>1 DEF CapsKept, PlugsCapped, FailsBounded, Recent
<1>11. ASSUME NEW k \in Clients, Lit(k)
       PROVE  CapsKept'
  <2>1. now \in now .. MaxTime /\ "LIT" \in Kinds /\ "LIT" # "FAIL" /\ "LIT" # "PLUG"
    BY <1>1 DEF Kinds
  <2>2. /\ Record("LIT", now) /\ now' = now
        /\ since[k] # 0 /\ since' = [since EXCEPT ![k] = 0]
    BY <1>11 DEF Lit
  <2>3. Plugs' \in Nat /\ Fails' \in Nat /\ Plugs' <= Plugs /\ Fails' <= Fails
    BY <1>5, <2>1, <2>2
  <2>4. Cardinality(Waiting') = Cardinality(Waiting) - 1
    BY <2>2, WaitingLess
  <2>5. Cardinality(Waiting') <= Cardinality(Waiting)
    BY <1>4, <2>4
  <2> QED BY <1>6, <2>3, <2>5
<1>12. ASSUME NEW k \in Clients, Fail(k)
       PROVE  CapsKept'
  <2>1. now \in now .. MaxTime /\ "FAIL" \in Kinds /\ "FAIL" # "PLUG"
    BY <1>1 DEF Kinds
  <2>2. /\ Record("FAIL", now) /\ now' = now
        /\ since[k] # 0 /\ since' = [since EXCEPT ![k] = 0]
    BY <1>12 DEF Fail
  <2>3. Plugs' \in Nat /\ Fails' \in Nat /\ Plugs' <= Plugs /\ Fails' <= Fails + 1
    BY <1>5, <2>1, <2>2
  <2>4. Cardinality(Waiting') = Cardinality(Waiting) - 1
    BY <2>2, WaitingLess
  <2> QED BY <1>1, <1>2, <1>3, <1>4, <2>3, <2>4, CapsAre
<1>13. ASSUME NEW k \in Clients, Leave(k)
       PROVE  CapsKept'
  <2>1. /\ UNCHANGED <<now, hist>> /\ since[k] # 0 /\ since' = [since EXCEPT ![k] = 0]
    BY <1>13 DEF Leave
  <2>2. Plugs' = Plugs /\ Fails' = Fails
    BY <2>1 DEF Plugs, Fails, After
  <2>3. Cardinality(Waiting') = Cardinality(Waiting) - 1
    BY <2>1, WaitingLess
  <2>4. Cardinality(Waiting') <= Cardinality(Waiting)
    BY <1>4, <2>3
  <2>5. Plugs' \in Nat /\ Fails' \in Nat /\ Plugs' <= Plugs /\ Fails' <= Fails
    BY <1>2, <2>2
  <2> QED BY <1>6, <2>4, <2>5
<1>14. CASE UNCHANGED gateVars
  <2>1. UNCHANGED <<now, since, hist>>
    BY <1>14 DEF gateVars
  <2> QED BY <2>1 DEF CapsKept, PlugsCapped, FailsBounded, Recent
<1> QED BY <1>7, <1>8, <1>9, <1>10, <1>11, <1>12, <1>13, <1>14 DEF GateNext

LEMMA CapsFirst ==
  ASSUME GateInit
  PROVE  CapsKept
<1>1. hist = <<>> /\ now = 1
  BY DEF GateInit
<1>2. DOMAIN <<>> = {}
  BY EmptyHistory
<1>3. Waiting = {} /\ Plugs = Cardinality({}) /\ Fails = Cardinality({})
  BY <1>1, <1>2 DEF Plugs, Fails, After, Waiting, GateInit
<1>4. Plugs = 0 /\ Fails = 0 /\ Cardinality(Waiting) = 0
  BY <1>3, FS_EmptySet
<1>5. Cardinality(Clients) \in Nat
  BY WaitingIs
<1>6. PlugsPerHour \in Nat /\ FailsPerHour \in Nat /\ 0 < FailsPerHour
  BY GateAssumption
<1> QED BY <1>4, <1>5, <1>6, CapsAre

\* Both caps hold over every sliding hour (plug_gate), as long as the list does
\* not fill up, for any number of clients and however late a device appears.
THEOREM CapsAlwaysKept == GateSpec /\ []Fits => []CapsKept
<1> DEFINE Inv == GateTyped /\ Mirrored /\ CapsKept
<1>1. GateInit => Inv
  BY GateTypedFirst, MirroredFirst, CapsFirst
<1>2. Inv /\ Fits /\ [GateNext]_gateVars => Inv'
  BY GateTypedKept, MirroredKept, CapsKeptOn
<1>3. Inv => CapsKept
  OBVIOUS
<1> QED BY <1>1, <1>2, <1>3, PTL DEF GateSpec

\* Nobody plugs before the backoff since the last failure is over (plug_gate),
\* as long as the list does not fill up, whatever pruning has dropped.
THEOREM BackoffAlwaysKept == GateSpec /\ []Fits => BackoffKept
<1> DEFINE Inv == GateTyped /\ Mirrored
           run == FailRun(hist)
           past == Cardinality(run) - Budget
           Waits == \A k \in Clients : since[k] = 0 /\ since'[k] # 0 /\ past > 0 =>
                      now' >= hist[Max(run)].t + Min({BackoffMin * 2 ^ (past - 1), BackoffMax})
<1>1. GateInit => Inv
  BY GateTypedFirst, MirroredFirst
<1>2. Inv /\ Fits /\ [GateNext]_gateVars => Inv'
  BY GateTypedKept, MirroredKept
<1>3. ASSUME Inv, Fits, [GateNext]_gateVars
      PROVE  Waits
  <2> SUFFICES ASSUME NEW k \in Clients, since[k] = 0, since'[k] # 0, past > 0
               PROVE  now' >= hist[Max(run)].t + Min({BackoffMin * 2 ^ (past - 1), BackoffMax})
    OBVIOUS
  <2>1. PICK wait \in 0 .. AddTime : Plug(k, wait)
    <3>1. since' # since
      OBVIOUS
    <3>2. \A c \in Clients : c # k => \A v : [since EXCEPT ![c] = v][k] = since[k]
      BY <1>3 DEF GateTyped
    <3>3. [since EXCEPT ![k] = 0][k] = 0
      BY <1>3 DEF GateTyped
    <3>4. ~Tick /\ ~ShellChange /\ ~UNCHANGED gateVars
      BY <3>1 DEF Tick, ShellChange, gateVars
    <3>5. ASSUME NEW c \in Clients
          PROVE  ~Refuse(c) /\ ~Lit(c) /\ ~Fail(c) /\ ~Leave(c)
      BY <3>1, <3>2, <3>3 DEF Refuse, Lit, Fail, Leave
    <3>6. ASSUME NEW c \in Clients, NEW w \in 0 .. AddTime, Plug(c, w)
          PROVE  c = k
      BY <3>2, <3>6 DEF Plug
    <3> QED BY <1>3, <3>4, <3>5, <3>6 DEF GateNext
  <2>2. GateOpen /\ now' = now + wait /\ wait \in Nat
    BY <2>1, GateAssumption DEF Plug
  <2>3. BackoffEnd(hist) <= now
    BY <1>3, <2>2, OpenMeans
  <2>4. now \in Nat /\ hist \in Seq(Event) /\ Sorted(hist, now) /\ Budget \in Nat
    BY <1>3, NowIs, GateAssumption DEF Mirrored
  <2>5. Cardinality(run) \in Nat
    <3>1. run \subseteq DOMAIN hist
      BY DEF FailRun
    <3> QED BY <2>4, <3>1, PartCount
  <2>6. Cardinality(run) > Budget
    BY <2>4, <2>5
  <2>7. BackoffEnd(hist) = hist[Max(run)].t + Backoff(Cardinality(run))
    BY <2>6 DEF BackoffEnd
  <2>8. Backoff(Cardinality(run)) = Min({BackoffMin * 2 ^ (past - 1), BackoffMax})
    BY <2>5, <2>6, BackoffIs
  <2>9. BackoffEnd(hist) \in Nat
    BY <2>4, BackoffEndIs
  <2>10. now' >= BackoffEnd(hist)
    BY <2>2, <2>3, <2>4, <2>9
  <2> QED BY <2>7, <2>8, <2>10
<1>4. Inv /\ Fits /\ [GateNext]_gateVars => [Waits]_gateVars
  BY <1>3
<1> HIDE DEF Inv
<1> QED BY <1>1, <1>2, <1>4, PTL DEF GateSpec, BackoffKept

=============================================================================
