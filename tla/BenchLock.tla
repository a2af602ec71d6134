------------------------------ MODULE BenchLock ------------------------------
(* The lock of the bench, tools/bench_lock.py: one file on a share, read    *)
(* and written by agents that do not see each other.  A command reads the   *)
(* file and then acts on what it read; open("x") creates it in one step and *)
(* open("w") empties it before it is written, so that it is unreadable in   *)
(* between.  Time is the one step LeaseRunsOut.                             *)
EXTENDS Naturals

CONSTANTS Agents, NoLock, Unreadable

Leases == [holder : Agents, lapsed : BOOLEAN]

ASSUME LockAssumption == NoLock # Unreadable /\ NoLock \notin Leases /\ Unreadable \notin Leases

VARIABLES
    file,       \* the lock file: NoLock, Unreadable or a lease
    doing,      \* by agent: what its command is about to do to the file
    holds,      \* by agent: it was told that the bench is its own
    overridden  \* a lease has run out, or was taken away with --force

lock == <<file, doing, holds, overridden>>

Lease(a) == [holder |-> a, lapsed |-> FALSE]
Readable == file \notin {NoLock, Unreadable}
IsMine(a) == Readable /\ file.holder = a
HasLapsed == Readable /\ file.lapsed

LockInit ==
    /\ file = NoLock
    /\ doing = [a \in Agents |-> "nothing"]
    /\ holds = [a \in Agents |-> FALSE]
    /\ overridden = FALSE

Turn(a, from, to) == doing[a] = from /\ doing' = [doing EXCEPT ![a] = to]

(* One turn of cmd_acquire's loop.  A bench that is busy changes nothing:   *)
(* the command polls again, or gives up.                                    *)
Acquire(a) ==
    /\ \/ (IsMine(a) \/ HasLapsed) /\ Turn(a, "nothing", "overwrite")
       \/ file = NoLock /\ Turn(a, "nothing", "create")
    /\ UNCHANGED <<file, holds, overridden>>

Renew(a) ==
    /\ IsMine(a)
    /\ Turn(a, "nothing", "overwrite")
    /\ UNCHANGED <<file, holds, overridden>>

(* An agent that was told --force takes another's lock away. *)
Release(a) ==
    /\ file # NoLock
    /\ Turn(a, "nothing", "remove")
    /\ overridden' = (overridden \/ ~IsMine(a))
    /\ UNCHANGED <<file, holds>>

(* Fault: open("w") where the file is to be new. *)
CreateAnyway(a) ==
    /\ Turn(a, "create", "fill")
    /\ file' = Unreadable
    /\ UNCHANGED <<holds, overridden>>

Create(a) ==
    /\ \/ file = NoLock /\ file' = Unreadable /\ Turn(a, "create", "fill")
       \/ file # NoLock /\ Turn(a, "create", "nothing") /\ UNCHANGED file
    /\ UNCHANGED <<holds, overridden>>

Overwrite(a) ==
    /\ Turn(a, "overwrite", "fill")
    /\ file' = Unreadable
    /\ UNCHANGED <<holds, overridden>>

(* Two writers of one file leave the text of the last one, or a mixture; a *)
(* file removed under its writer stays removed.                             *)
Fill(a) ==
    /\ Turn(a, "fill", "nothing")
    /\ \/ file = NoLock /\ UNCHANGED file
       \/ file # NoLock /\ file' = Lease(a)
       \/ Readable /\ file' = Unreadable
    /\ holds' = [holds EXCEPT ![a] = TRUE]
    /\ UNCHANGED overridden

Remove(a) ==
    /\ Turn(a, "remove", "nothing")
    /\ file' = NoLock
    /\ holds' = [holds EXCEPT ![a] = FALSE]
    /\ UNCHANGED overridden

LeaseRunsOut ==
    /\ Readable /\ ~file.lapsed
    /\ file' = [file EXCEPT !.lapsed = TRUE]
    /\ overridden' = TRUE
    /\ UNCHANGED <<doing, holds>>

(* The agent's process is gone; the file is not. *)
Forgets(a) ==
    /\ doing' = [doing EXCEPT ![a] = "nothing"]
    /\ holds' = [holds EXCEPT ![a] = FALSE]
    /\ UNCHANGED <<file, overridden>>

LockCommand(a) ==
    Acquire(a) \/ Renew(a) \/ Release(a) \/ Create(a) \/ Overwrite(a) \/ Fill(a) \/ Remove(a)

(* ------------------------------ properties ------------------------------ *)

(* Nobody works on the bench beside somebody else (tools/bench_lock.py:12): *)
(* until a lease runs out or is taken by force, one agent at most was told  *)
(* that the bench is its own, and no other has its name in the file.  Past  *)
(* that point two agents that read the same lapsed lock are both told so.   *)
OneAgentAtATime ==
    overridden \/ \A a \in Agents : holds[a] =>
        /\ file # NoLock /\ (Readable => IsMine(a))
        /\ \A b \in Agents \ {a} : ~holds[b] /\ doing[b] # "fill"
=============================================================================
