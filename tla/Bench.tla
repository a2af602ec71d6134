-------------------------------- MODULE Bench --------------------------------
(* The bench of tools/: agents that take its lock, and the scripts they run *)
(* while they believe they hold it.  The scripts do not look at the lock;   *)
(* one board and one Home Assistant are shared by all of them.              *)
EXTENDS SlotStorm, Deploy, ConsoleLoad

VARIABLE job   \* by agent: the script it is running

bench == <<lock, storms, board, console, job>>

Init ==
    /\ LockInit /\ StormInit /\ DeployInit /\ ConsoleInit
    /\ job = [a \in Agents |-> "none"]

Begins(a, script) ==
    /\ holds[a] /\ job[a] = "none" /\ doing[a] = "nothing"
    /\ job' = [job EXCEPT ![a] = script]
    /\ UNCHANGED lock

BeginsStorm(a) == Begins(a, "storm") /\ StormBegins(a) /\ UNCHANGED <<board, console>>
BeginsDeploy(a) == Begins(a, "deploy") /\ DeployBegins(a) /\ UNCHANGED <<storms, console>>
BeginsLoad(a) ==
    /\ link = Absent /\ link' = a
    /\ Begins(a, "load") /\ (LoadBegins \/ UploadBegins)
    /\ runs' = Old
    /\ UNCHANGED <<storms, storage, deploy>>

Ends(a, over) ==
    /\ job' = IF over THEN [job EXCEPT ![a] = "none"] ELSE job
    /\ UNCHANGED lock

StormRuns(a) ==
    /\ job[a] = "storm" /\ StormStep(a)
    /\ Ends(a, storm'[a].step = "over")
    /\ UNCHANGED <<board, console>>

DeployRuns(a) ==
    /\ job[a] = "deploy" /\ DeployStep(a)
    /\ Ends(a, deploy'[a].step = "over")
    /\ UNCHANGED <<storms, console>>

LoadRuns(a) ==
    /\ job[a] = "load" /\ ConsoleStep
    /\ Ends(a, load'.step = "over")
    /\ link' = IF load'.step = "over" THEN Absent ELSE link
    /\ UNCHANGED <<storms, storage, runs, deploy>>

(* Between two scripts an agent may give the bench back, or renew its lease. *)
Locks(a) ==
    /\ job[a] = "none" /\ LockCommand(a)
    /\ deploy' = IF holds[a] /\ ~holds'[a] THEN [deploy EXCEPT ![a] = Idle] ELSE deploy
    /\ UNCHANGED <<storms, storage, runs, link, console, job>>

(* The agent's process is killed, with whatever it was running. *)
Crash(a) ==
    /\ Forgets(a) /\ StormIsKilled(a)
    /\ holds[a] \/ doing[a] # "nothing"
    /\ job[a] # "load"
    /\ job' = [job EXCEPT ![a] = "none"]
    /\ deploy' = [deploy EXCEPT ![a] = Idle]
    /\ link' = IF link = a THEN Absent ELSE link
    /\ UNCHANGED <<storage, runs, console>>

TimePasses == LeaseRunsOut /\ UNCHANGED <<storms, board, console, job>>

Next ==
    \/ TimePasses
    \/ \E a \in Agents :
          \/ Locks(a) \/ Crash(a)
          \/ BeginsStorm(a) \/ StormRuns(a)
          \/ BeginsDeploy(a) \/ DeployRuns(a)
          \/ BeginsLoad(a) \/ LoadRuns(a)

Spec == Init /\ [][Next]_bench

(* ------------------------------ properties ------------------------------ *)

(* "the first one's test still passes -- against code it did not write"     *)
(* (tools/bench_lock.py:7): an agent that was told its deployment succeeded *)
(* finds, as long as it holds the lock and no lease was overridden, every   *)
(* module its sketch needs on the board, whole and as it sent it, whatever  *)
(* the console lost.                                                        *)
TestsRunOnTheirOwnCode ==
    \A a \in Agents : holds[a] /\ ~overridden /\ deploy[a].exit = "ok" =>
        \A m \in Needed : Whole(a, m)

(* What a storm may leave as an entry's cap: the entry's own, or the        *)
(* fallback where the list of entries does not hold it.                     *)
MayBeLeft(e) == {UsualCap[e]} \cup (IF RowsTellOptions THEN {} ELSE {FallbackCap})

(* slot_storm.py:12 promises to undo what it does "on every way out": when  *)
(* no script is running, no lease was overridden and nothing was lost, Home *)
(* Assistant has the scanners and switches it had, a scanner that was       *)
(* already off included, and no entry is left at a cap of a storm's.  But   *)
(* it is not always its own cap that an entry has again: the list of        *)
(* entries does not hold the options, and the storm leaves 2 wherever it    *)
(* raised a cap (slot_storm.py:317).  A storm whose states cannot be read   *)
(* at the end undoes nothing, and a cap whose answer was lost is not taken  *)
(* back: both are excepted by notUndone.                                    *)
TheHostIsPutBack ==
    (~overridden /\ ~notUndone /\ \A a \in Agents : storm[a].step = "over") =>
        /\ \A e \in Entries : caps[e] \in MayBeLeft(e)
        /\ scanning = Enabled /\ on = On
=============================================================================
