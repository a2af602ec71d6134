------------------------------- MODULE MCBench -------------------------------
(* Two agents; a sketch that needs a module which needs another and one the *)
(* firmware has, while the board may hold a third; files of two chunks; a   *)
(* sketch of three blocks for an input of two lines; an entry with the cap  *)
(* of the fallback and one with another.                                    *)
EXTENDS Bench, TLC

CONSTANTS a1, a2, bthome, writable, ccm, storageModule, e1, e2, pi, esphome, lamp, jolt

MCRequires == (Sketch :> {writable, storageModule}) @@ (writable :> {ccm, storageModule})
              @@ (ccm :> {}) @@ (bthome :> {}) @@ (storageModule :> {})
AgentsAreAlike == Permutations(Agents)
MCBlocks == <<1, 2, 1>>
MCUsualCap == (e1 :> 2) @@ (e2 :> 4)

(* Where the properties say nothing any more, a state is looked at and not  *)
(* gone on from: scripts under way when a lease has been overridden, and a  *)
(* host that was not put back.  A storm and a load touch nothing that a     *)
(* deployment does: they are run before one only, and where a storm left an *)
(* entry another cap, further storms alone.                                 *)
WorthGoingOn ==
    /\ overridden => \A a \in Agents : job[a] = "none"
    /\ notUndone => \E a \in Agents : job[a] = "storm"
    /\ (\E a \in Agents : job[a] \in {"storm", "load"}) =>
          \A f, g \in Files : storage[f] = storage[g]
    /\ load.exit # "none" => \A a \in Agents : job[a] \in {"none", "load"}
    /\ (\A a \in Agents : job[a] # "storm") /\ caps # UsualCap =>
          \A a \in Agents : job[a] = "none"
=============================================================================
