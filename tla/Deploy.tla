-------------------------------- MODULE Deploy --------------------------------
(* tools/espruino_deploy.py: the modules a sketch needs, transitively, are  *)
(* written into a board's Storage over a console that has no flow control,  *)
(* each read back by its CRC; then the sketch is run.  A statement sent may *)
(* be lost on the way or arrive damaged.                                    *)
EXTENDS BenchLock, FiniteSets

CONSTANTS
    Sketch,        \* the application, and its name in Storage when it is stored
    Modules,       \* the modules there are
    BuiltIn,       \* those the firmware has
    Requires,      \* by name, what its source requires
    Chunks,        \* statements it takes to write a file
    WriteAttempts, ConnectAttempts,
    Absent, Old    \* no file; what a file held before

(* A module requires modules, and none is called as the sketch is. *)
ASSUME ModulesAssumption ==
    /\ Sketch \notin Modules
    /\ Requires \in [Modules \cup {Sketch} -> SUBSET Modules]
ASSUME StatementsAssumption == Chunks \in Nat /\ WriteAttempts \in Nat /\ ConnectAttempts \in Nat

VARIABLES
    storage, \* by name: Absent, or what each chunk of the file holds
    runs,    \* the sketch in RAM
    link,    \* the agent connected to the board, or Absent
    deploy   \* by agent: the step of its script and what it keeps

board == <<storage, runs, link, deploy>>

Files == Modules \cup {Sketch}
Idle == [step |-> "over", exit |-> "none", pending |-> {}, files |-> {}, stored |-> {},
         now |-> Sketch, next |-> 0, tries |-> 0]

DeployInit ==
    /\ storage = [f \in Files |-> Absent]
    /\ runs = Old
    /\ link = Absent
    /\ deploy = [a \in Agents |-> Idle]

At(a, step) == deploy[a].step = step
Becomes(a, changed) == deploy' = [deploy EXCEPT ![a] = changed]
Whole(a, name) == storage[name] = [c \in 1 .. Chunks |-> a]

(* One turn of collect's loop over the names still to be looked at. *)
Collect(a) ==
    /\ At(a, "collect")
    /\ \E name \in deploy[a].pending :
          Becomes(a, IF name \in deploy[a].files \cup BuiltIn
                     THEN [deploy[a] EXCEPT !.pending = @ \ {name}]
                     ELSE [deploy[a] EXCEPT !.pending = (@ \ {name}) \cup Requires[name],
                                            !.files = @ \cup {name}])
    /\ UNCHANGED <<storage, runs, link>>

DeployBegins(a) ==
    /\ At(a, "over")
    /\ Becomes(a, [Idle EXCEPT !.step = "collect", !.pending = Requires[Sketch]])
    /\ UNCHANGED <<storage, runs, link>>

(* A board with a central attached cannot be connected to by another. *)
DeployConnects(a) ==
    /\ At(a, "collect") /\ deploy[a].pending = {}
    /\ \/ link = Absent /\ link' = a
          /\ \E flash \in BOOLEAN : Becomes(a, [deploy[a] EXCEPT !.step = "choose", !.tries = 0,
                         !.files = IF flash THEN @ \cup {Sketch} ELSE @])
       \/ /\ Becomes(a, IF deploy[a].tries + 1 = ConnectAttempts
                        THEN [Idle EXCEPT !.exit = "failed"]
                        ELSE [deploy[a] EXCEPT !.tries = @ + 1])
          /\ UNCHANGED link
    /\ UNCHANGED <<storage, runs>>

(* The next file; the sketch, when it is to be stored, comes last. *)
StoreNext(a) ==
    /\ At(a, "choose")
    /\ \E name \in deploy[a].files \ deploy[a].stored :
          /\ name = Sketch => deploy[a].files \ deploy[a].stored = {Sketch}
          /\ Becomes(a, [deploy[a] EXCEPT !.step = "write", !.now = name, !.next = 0, !.tries = 1])
    /\ UNCHANGED <<storage, runs, link>>

(* What the n-th statement of write_statements leaves of a file: the first  *)
(* erases it, the second declares its size with its first chunk, and flash  *)
(* takes a chunk where it is erased.                                        *)
Executed(content, n, chunk) ==
    CASE n = 0 -> Absent
      [] n = 1 /\ content = Absent -> [c \in 1 .. Chunks |-> IF c = 1 THEN chunk ELSE Absent]
      [] n > 0 /\ content # Absent -> [content EXCEPT ![n] = IF @ = Absent THEN chunk ELSE @]
      [] OTHER -> content

SendStatement(a) ==
    /\ At(a, "write") /\ deploy[a].next <= Chunks
    /\ LET was == storage[deploy[a].now]
       IN  \E content \in {was, Executed(was, deploy[a].next, a), Executed(was, deploy[a].next, Old)} : storage' = [storage EXCEPT ![deploy[a].now] = content]
    /\ Becomes(a, [deploy[a] EXCEPT !.next = @ + 1])
    /\ UNCHANGED <<runs, link>>

(* Fault: a file is taken as stored when the board answers at all. *)
AskWhetherItIsThere(a) ==
    /\ At(a, "write") /\ deploy[a].next > Chunks
    /\ Becomes(a, IF storage[deploy[a].now] # Absent
                  THEN [deploy[a] EXCEPT !.step = "choose", !.stored = @ \cup {deploy[a].now}]
                  ELSE [deploy[a] EXCEPT !.next = 0, !.tries = @ + 1])
    /\ UNCHANGED <<storage, runs, link>>

(* The CRC of what is stored, whose answer may not come. *)
AskTheCRC(a) ==
    /\ At(a, "write") /\ deploy[a].next > Chunks
    /\ \/ Whole(a, deploy[a].now) /\ UNCHANGED link
          /\ Becomes(a, [deploy[a] EXCEPT !.step = "choose", !.stored = @ \cup {deploy[a].now}])
       \/ deploy[a].tries < WriteAttempts /\ UNCHANGED link
          /\ Becomes(a, [deploy[a] EXCEPT !.next = 0, !.tries = @ + 1])
       \/ deploy[a].tries = WriteAttempts /\ link' = Absent
          /\ Becomes(a, [Idle EXCEPT !.exit = "failed"])
    /\ UNCHANGED <<storage, runs>>

(* The sketch that boots from flash, once the device restarts; what it says *)
(* is not looked at.                                                        *)
Boot(a) ==
    /\ At(a, "choose") /\ deploy[a].stored = deploy[a].files /\ Sketch \in deploy[a].files
    /\ runs' \in {runs, a}
    /\ link' = Absent
    /\ Becomes(a, [Idle EXCEPT !.exit = "ok"])
    /\ UNCHANGED storage

(* The sketch sent to RAM: the erasing of .bootcde may be lost unseen, and  *)
(* so may a line; a line that arrives damaged is complained of.             *)
RunFromRAM(a) ==
    /\ At(a, "choose") /\ deploy[a].stored = deploy[a].files /\ Sketch \notin deploy[a].files
    /\ storage' \in {storage, [storage EXCEPT ![Sketch] = Absent]}
    /\ \/ runs' \in {Old, a} /\ link' = Absent /\ Becomes(a, [Idle EXCEPT !.exit = "ok"])
       \/ runs' = Old /\ link' = Absent /\ Becomes(a, [Idle EXCEPT !.exit = "failed"])

(* The link is lost, or the script is killed; its link goes with it. *)
DeployBreaks(a) ==
    /\ ~At(a, "over")
    /\ link' = IF link = a THEN Absent ELSE link
    /\ Becomes(a, [Idle EXCEPT !.exit = "failed"])
    /\ UNCHANGED <<storage, runs>>

DeployStep(a) ==
    \/ Collect(a) \/ DeployConnects(a) \/ StoreNext(a) \/ SendStatement(a)
    \/ AskTheCRC(a) \/ Boot(a) \/ RunFromRAM(a) \/ DeployBreaks(a)

(* --------------------------- a reference --------------------------- *)

(* What a sketch needs: the least set that holds what it requires, and what *)
(* its members require.                                                     *)
Needed ==
    LET Closed(S) == Requires[Sketch] \cup UNION {Requires[m] : m \in S} \subseteq S \cup BuiltIn
        closed == {S \in SUBSET (Modules \ BuiltIn) : Closed(S)}
    IN  CHOOSE S \in closed : \A T \in closed : S \subseteq T
=============================================================================
