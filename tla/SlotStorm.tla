------------------------------ MODULE SlotStorm ------------------------------
(* tools/slot_storm.py: one command to several devices at the same instant, *)
(* with the caps of every entry raised and scanners switched off, and the   *)
(* undoing of all that.  Home Assistant's answers may be lost.              *)
EXTENDS BenchLock, FiniteSets

CONSTANTS
    Entries,     \* the integration's config entries
    Scanners,    \* the Pi and the other scanners a storm is told to silence
    Switches,    \* the entities commanded
    Enabled, On, \* the scanners and the switches that are so to begin with
    UsualCap,    \* the cap of each entry to begin with
    StormCap,
    RowsTellOptions \* whether Home Assistant's list of entries holds their options

ASSUME HostAssumption ==
    /\ Enabled \subseteq Scanners /\ On \subseteq Switches
    /\ UsualCap \in [Entries -> Nat] /\ StormCap \in Nat
    /\ RowsTellOptions \in BOOLEAN

VARIABLES
    caps,     \* by entry: max_connections
    scanning, \* the scanners that are enabled
    on,       \* the switches that are on
    storm,    \* by agent: the step of its script and what it keeps
    notUndone \* an answer, an undoing or a whole script was lost

host == <<caps, scanning, on>>
storms == <<host, storm, notUndone>>

(* What is restored where the list says nothing of the cap. *)
FallbackCap == 2

NoStorm == [step |-> "over", caps |-> [e \in Entries |-> FallbackCap],
            raised |-> {}, silenced |-> {}, before |-> {}]

StormInit ==
    /\ caps = UsualCap
    /\ scanning = Enabled
    /\ on = On
    /\ storm = [a \in Agents |-> NoStorm]
    /\ notUndone = FALSE

Now(a, step) == storm[a].step = step

(* What an entry's row in the list comes to as its cap. *)
Listed(e) == IF RowsTellOptions THEN caps[e] ELSE FallbackCap

(* What is to be put back is read before anything is changed. *)
StormBegins(a) ==
    /\ Now(a, "over")
    /\ storm' = [storm EXCEPT ![a] = [step |-> "raise", raised |-> {},
                                      caps |-> [e \in Entries |-> Listed(e)],
                                      silenced |-> scanning, before |-> on]]
    /\ UNCHANGED <<host, notUndone>>

(* Fault: the cap kept is the one the storm sets. *)
RaiseAndForget(a) ==
    /\ Now(a, "raise")
    /\ \E e \in Entries \ storm[a].raised :
          /\ caps' = [caps EXCEPT ![e] = StormCap]
          /\ storm' = [storm EXCEPT ![a].raised = @ \cup {e}, ![a].caps = caps']
    /\ UNCHANGED <<scanning, on, notUndone>>

(* set_cap of one entry; an entry is noted as raised once it has answered. *)
RaiseACap(a) ==
    /\ Now(a, "raise")
    /\ \E e \in Entries \ storm[a].raised :
          /\ caps' = [caps EXCEPT ![e] = StormCap]
          /\ \/ storm' = [storm EXCEPT ![a].raised = @ \cup {e}] /\ UNCHANGED notUndone
             \/ storm' = [storm EXCEPT ![a].step = "undo"] /\ notUndone' = TRUE
    /\ UNCHANGED <<scanning, on>>

SilenceOne(a) ==
    /\ Now(a, "raise") /\ storm[a].raised = Entries
    /\ \E s \in storm[a].silenced \cap scanning : scanning' = scanning \ {s}
    /\ UNCHANGED <<caps, on, storm, notUndone>>

(* The commands, each applied or not; one that was given up may still come. *)
Command(a) ==
    /\ Now(a, "raise") /\ storm[a].raised = Entries
    /\ storm[a].silenced \cap scanning = {}
    /\ on' \in SUBSET Switches
    /\ storm' = [storm EXCEPT ![a].step = "undo"]
    /\ UNCHANGED <<caps, scanning, notUndone>>

(* An exception anywhere in the try. *)
StormBreaks(a) ==
    /\ Now(a, "raise")
    /\ storm' = [storm EXCEPT ![a].step = "undo"]
    /\ UNCHANGED <<host, notUndone>>

(* The finally reads the states first: without them it undoes nothing. *)
StatesAreLost(a) ==
    /\ Now(a, "undo")
    /\ storm' = [storm EXCEPT ![a] = NoStorm]
    /\ notUndone' = TRUE
    /\ UNCHANGED host

(* The switches and then the scanners, each call suppressing its failure. *)
PutBack(a) ==
    /\ Now(a, "undo")
    /\ storm' = [storm EXCEPT ![a].step = "lower"]
    /\ \/ /\ on' = storm[a].before
          /\ scanning' = scanning \cup storm[a].silenced
          /\ UNCHANGED notUndone
       \/ /\ on' \in SUBSET Switches
          /\ \E some \in SUBSET storm[a].silenced : scanning' = scanning \cup some
          /\ notUndone' = TRUE
    /\ UNCHANGED caps

LowerACap(a) ==
    /\ Now(a, "lower")
    /\ \E e \in storm[a].raised :
          /\ storm' = [storm EXCEPT ![a].raised = @ \ {e}]
          /\ \/ caps' = [caps EXCEPT ![e] = storm[a].caps[e]] /\ UNCHANGED notUndone
             \/ notUndone' = TRUE /\ UNCHANGED caps
    /\ UNCHANGED <<scanning, on>>

StormEnds(a) ==
    /\ Now(a, "lower") /\ storm[a].raised = {}
    /\ storm' = [storm EXCEPT ![a] = NoStorm]
    /\ UNCHANGED <<host, notUndone>>

StormIsKilled(a) ==
    /\ storm' = [storm EXCEPT ![a] = NoStorm]
    /\ notUndone' = (notUndone \/ ~Now(a, "over"))
    /\ UNCHANGED host

StormStep(a) ==
    \/ RaiseACap(a) \/ SilenceOne(a) \/ Command(a) \/ StormBreaks(a)
    \/ StatesAreLost(a) \/ PutBack(a) \/ LowerACap(a) \/ StormEnds(a)
=============================================================================
