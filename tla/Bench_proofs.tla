----------------------------- MODULE Bench_proofs -----------------------------
(***************************************************************************)
(* For any agents, sketches, modules, entries and inputs: one agent at a   *)
(* time is on the bench, and what the scripts say and undo is true.        *)
(***************************************************************************)
EXTENDS Bench, TLAPS

----------------------------------------------------------------------------
\* The lock, the scripts and who runs them.

LockTypeOK ==
  /\ file \in {NoLock, Unreadable} \cup Leases
  /\ doing \in [Agents -> {"nothing", "create", "overwrite", "fill", "remove"}]
  /\ holds \in [Agents -> BOOLEAN]
  /\ overridden \in BOOLEAN

\* Of the agents at the file, who is about to write over it or to remove it has
\* its own name there, and who is writing it is the only one at work.
LockIsOnes ==
  /\ Readable => file.lapsed = FALSE
  /\ \A a \in Agents :
       /\ doing[a] \in {"overwrite", "remove"} => Readable /\ IsMine(a)
       /\ doing[a] = "fill" =>
            /\ file = Unreadable
            /\ \A b \in Agents \ {a} : doing[b] # "fill" /\ ~holds[b]
       /\ holds[a] =>
            /\ doing[a] = "fill" \/ (Readable /\ IsMine(a))
            /\ \A b \in Agents \ {a} : ~holds[b]

LockInv == LockTypeOK /\ (overridden \/ LockIsOnes)

\* Who runs a script was told that the bench is its own, and is not at the lock.
JobsAreHeld ==
  /\ job \in [Agents -> {"none", "storm", "deploy", "load"}]
  /\ \A a \in Agents :
       /\ job[a] # "none" => holds[a] /\ doing[a] = "nothing"
       /\ storm[a].step # "over" => job[a] = "storm"
       /\ deploy[a].step # "over" => job[a] = "deploy"
       /\ deploy[a].exit = "ok" => holds[a] /\ deploy[a].step = "over"

----------------------------------------------------------------------------
\* The storm.

Caps == [Entries -> Nat]

\* Caps a storm may leave, and may keep for later.
MayBeTheCaps(c) == \A e \in Entries : c[e] \in MayBeLeft(e)

Storms == [step : {"over", "raise", "undo", "lower"}, caps : Caps, raised : SUBSET Entries,
           silenced : SUBSET Scanners, before : SUBSET Switches]

StormTypeOK ==
  /\ caps \in Caps /\ scanning \subseteq Scanners /\ on \subseteq Switches
  /\ storm \in [Agents -> Storms]
  /\ notUndone \in BOOLEAN

\* A storm keeps what it found, and has moved nothing but what it knows.
StormRemembers(a) ==
  /\ MayBeTheCaps(storm[a].caps)
  /\ storm[a].silenced = Enabled /\ storm[a].before = On
  /\ \A e \in Entries \ storm[a].raised : caps[e] \in MayBeLeft(e)
  /\ scanning \subseteq Enabled
  /\ storm[a].step = "lower" => scanning = Enabled /\ on = On

HostIsKnown ==
  /\ \A a \in Agents : storm[a].step # "over" => StormRemembers(a)
  /\ (\A a \in Agents : storm[a].step = "over") =>
       MayBeTheCaps(caps) /\ scanning = Enabled /\ on = On

StormInv == StormTypeOK /\ (overridden \/ notUndone \/ HostIsKnown)

----------------------------------------------------------------------------
\* The deployment.

Contents == {Absent} \cup [1 .. Chunks -> Agents \cup {Absent, Old}]

Deployments ==
  [step : {"over", "collect", "choose", "write"}, exit : {"none", "ok", "failed"},
   pending : SUBSET Modules, files : SUBSET Files, stored : SUBSET Files, now : Files,
   next : Nat, tries : Nat]

DeployTypeOK == storage \in [Files -> Contents] /\ deploy \in [Agents -> Deployments]

\* What a file that was looked at requires was looked at, is to be, or is there.
Collected(d) ==
  /\ d.files \cap BuiltIn \subseteq {Sketch}
  /\ Requires[Sketch] \subseteq d.files \cup BuiltIn \cup d.pending
  /\ \A m \in d.files \cap Modules : Requires[m] \subseteq d.files \cup BuiltIn \cup d.pending
  /\ d.step # "collect" => d.pending = {}
  /\ d.stored \subseteq d.files
  /\ d.step = "write" => d.now \in d.files \ d.stored

StoredIsWhole ==
  \A a \in Agents :
    /\ deploy[a].step # "over" => \A f \in deploy[a].stored : Whole(a, f)
    /\ deploy[a].exit = "ok" => \A m \in Needed : Whole(a, m)

DeployInv ==
  /\ DeployTypeOK
  /\ \A a \in Agents : deploy[a].step # "over" => Collected(deploy[a])
  /\ overridden \/ StoredIsWhole

----------------------------------------------------------------------------
\* The console.

ConsoleTypeOK ==
  /\ load \in [step : {"over", "send", "wait", "ask", "listen", "paste", "settle"},
               by : {"prompts", "cable", "radio"}, block : Nat \ {0}, line : Nat, wanted : Nat,
               exit : {"none", "ok", "complained", "unanswered", "stalled"}]
  /\ heard \in [prompts : Nat, complained : BOOLEAN, lately : BOOLEAN, answered : BOOLEAN,
                flowing : BOOLEAN]
  /\ input \in Seq({"line", "question"}) /\ Len(input) <= Room
  /\ saying \in Seq({"prompt", "complaint", "answer"} \cup Signals)
  /\ spoilt \in BOOLEAN
  /\ load.step \in {"send", "wait", "ask", "listen"} => load.by = "prompts"
  /\ load.step \in {"paste", "settle"} => load.by \in {"cable", "radio"}
  /\ load.step # "over" => load.exit = "none"

\* Of a sequence of messages: what is not in it, that a complaint is in it before
\* any answer, and that its last signal is the leave to send.
Without(s, what) == \A i \in 1..Len(s) : s[i] \notin what
ComplaintFirst(s) ==
  \E i \in 1..Len(s) : s[i] = "complaint" /\ \A j \in 1..i : s[j] # "answer"
LastIsLeave(s) ==
  \E i \in 1..Len(s) : s[i] = "xon" /\ \A j \in 1..Len(s) : j > i => s[j] \notin Signals

\* Nobody has asked before the whole sketch was sent, so that nothing answers.
NothingAsked ==
  load.step \in {"send", "wait", "ask"} =>
    ~heard.answered /\ Without(input, {"question"}) /\ Without(saying, {"answer"})

\* A complaint of a line that was lost has arrived, or arrives before an answer.
ComplaintComesFirst ==
  load.step \in {"send", "wait", "ask", "listen"} /\ spoilt =>
    heard.complained \/ (~heard.answered /\ ComplaintFirst(saying))

\* The last signal on its way, or the one that came, allows what has room.
LeaveMeansRoom ==
  /\ load.step = "paste" /\ load.by = "cable"
  /\ LastIsLeave(saying) \/ (heard.flowing /\ Without(saying, Signals))
  => Len(input) < Room

ConsoleInv ==
  /\ ConsoleTypeOK /\ NothingAsked /\ ComplaintComesFirst /\ LeaveMeansRoom
  /\ LoadedIsWhole

BenchInv == LockInv /\ JobsAreHeld /\ StormInv /\ DeployInv /\ ConsoleInv

----------------------------------------------------------------------------
\* The lock.

LEMMA LockBegins == Init => LockInv
<1> SUFFICES ASSUME Init PROVE LockInv
  OBVIOUS
<1>1. /\ file = NoLock /\ doing = [a \in Agents |-> "nothing"]
      /\ holds = [a \in Agents |-> FALSE] /\ overridden = FALSE
  BY DEF Init, LockInit
<1>2. LockTypeOK
  BY <1>1 DEF LockTypeOK
<1>3. ~Readable
  BY <1>1 DEF Readable
<1>4. LockIsOnes
  BY <1>1, <1>3 DEF LockIsOnes
<1> QED
  BY <1>2, <1>4 DEF LockInv

LEMMA LeaseIsALease ==
  ASSUME NEW a \in Agents
  PROVE  /\ Lease(a) \in Leases /\ Lease(a) # NoLock /\ Lease(a) # Unreadable
         /\ Lease(a).holder = a /\ Lease(a).lapsed = FALSE
<1>1. Lease(a) \in Leases
  BY DEF Lease, Leases
<1>2. Lease(a).holder = a
  BY DEF Lease
<1>3. Lease(a).lapsed = FALSE
  BY DEF Lease
<1> QED
  BY <1>1, <1>2, <1>3, LockAssumption

\* Reading the file, at the beginning of a command.
LEMMA CommandBeginsKeepsLock ==
  ASSUME LockInv, NEW a \in Agents, Acquire(a) \/ Renew(a) \/ Release(a)
  PROVE  LockInv' /\ holds' = holds
<1>1. PICK to \in {"create", "overwrite", "remove"} :
        /\ doing[a] = "nothing" /\ doing' = [doing EXCEPT ![a] = to]
        /\ UNCHANGED <<file, holds>>
        /\ to = "create" => UNCHANGED overridden
        /\ to = "overwrite" => (IsMine(a) \/ HasLapsed) /\ UNCHANGED overridden
        /\ to = "remove" => overridden' = (overridden \/ ~IsMine(a))
  BY DEF Acquire, Renew, Release, Turn
<1>2. LockTypeOK' /\ overridden' \in BOOLEAN
  BY <1>1, Zenon DEF LockInv, LockTypeOK
<1>3. ASSUME ~overridden' PROVE LockIsOnes'
  <2>1. ~overridden /\ LockIsOnes
    BY <1>1, <1>3 DEF LockInv, LockTypeOK
  <2>2. to \in {"overwrite", "remove"} => Readable /\ IsMine(a)
    BY <1>1, <1>3, <2>1 DEF LockIsOnes, IsMine, HasLapsed
  <2>3. doing \in [Agents -> {"nothing", "create", "overwrite", "fill", "remove"}]
    BY DEF LockInv, LockTypeOK
  <2>4. doing'[a] = to /\ \A b \in Agents \ {a} : doing'[b] = doing[b]
    BY <1>1, <2>3
  <2>5. file' = file /\ holds' = holds
    BY <1>1
  <2> QED
    BY <1>1, <2>1, <2>2, <2>4, <2>5 DEF LockIsOnes, Readable, IsMine
<1> QED
  BY <1>1, <1>2, <1>3 DEF LockInv, LockTypeOK

\* Opening the file to write it: open("x") creates it, open("w") empties it.
LEMMA OpeningKeepsLock ==
  ASSUME LockInv, NEW a \in Agents, Create(a) \/ Overwrite(a)
  PROVE  LockInv' /\ holds' = holds
<1>1. UNCHANGED <<holds, overridden>>
  BY DEF Create, Overwrite
<1>2. doing \in [Agents -> {"nothing", "create", "overwrite", "fill", "remove"}]
  BY DEF LockInv, LockTypeOK
<1>3. \/ /\ doing[a] = "create" \/ doing[a] = "overwrite"
         /\ doing[a] = "create" => file = NoLock
         /\ file' = Unreadable /\ doing' = [doing EXCEPT ![a] = "fill"]
      \/ file' = file /\ doing[a] = "create" /\ doing' = [doing EXCEPT ![a] = "nothing"]
  BY DEF Create, Overwrite, Turn
<1>4. LockTypeOK'
  BY <1>1, <1>3 DEF LockInv, LockTypeOK
<1>5. ASSUME ~overridden' PROVE LockIsOnes'
  <2>1. LockIsOnes /\ holds' = holds
    BY <1>1, <1>5 DEF LockInv
  <2>2. CASE file' = file /\ doing[a] = "create" /\ doing' = [doing EXCEPT ![a] = "nothing"]
    <3>1. doing'[a] = "nothing" /\ \A b \in Agents \ {a} : doing'[b] = doing[b]
      BY <1>2, <2>2
    <3>2. file' = file /\ doing[a] = "create"
      BY <2>2
    <3> QED
      BY <2>1, <3>1, <3>2 DEF LockIsOnes, Readable, IsMine
  <2>3. CASE /\ doing[a] = "create" \/ doing[a] = "overwrite"
             /\ doing[a] = "create" => file = NoLock
             /\ file' = Unreadable /\ doing' = [doing EXCEPT ![a] = "fill"]
    <3>1. doing'[a] = "fill" /\ \A b \in Agents \ {a} : doing'[b] = doing[b]
      BY <1>2, <2>3
    <3>2. file' = Unreadable /\ ~Readable'
      BY <2>3 DEF Readable
    <3>3. file = NoLock \/ (Readable /\ IsMine(a))
      BY <2>1, <2>3 DEF LockIsOnes
    <3>4. file # Unreadable
      BY <3>3, LockAssumption DEF Readable
    <3>5. \A b \in Agents \ {a} : doing[b] # "fill" /\ ~holds[b]
          /\ doing[b] \notin {"overwrite", "remove"}
      BY <2>1, <3>3, <3>4 DEF LockIsOnes, Readable, IsMine
    <3> QED
      BY <2>1, <3>1, <3>2, <3>5 DEF LockIsOnes
  <2> QED
    BY <1>3, <2>2, <2>3
<1> QED
  BY <1>1, <1>4, <1>5 DEF LockInv

\* Writing it, which is when an agent is told that the bench is its own.
LEMMA FillKeepsLock ==
  ASSUME LockInv, NEW a \in Agents, Fill(a)
  PROVE  LockInv' /\ \A b \in Agents \ {a} : holds'[b] = holds[b]
<1>1. /\ doing[a] = "fill" /\ doing' = [doing EXCEPT ![a] = "nothing"]
      /\ file' = file \/ file' = Lease(a) \/ file' = Unreadable
      /\ holds' = [holds EXCEPT ![a] = TRUE] /\ overridden' = overridden
  BY DEF Fill, Turn
<1>2. /\ doing \in [Agents -> {"nothing", "create", "overwrite", "fill", "remove"}]
      /\ holds \in [Agents -> BOOLEAN] /\ file \in {NoLock, Unreadable} \cup Leases
      /\ overridden \in BOOLEAN
  BY DEF LockInv, LockTypeOK
<1>3. /\ doing'[a] = "nothing" /\ \A b \in Agents \ {a} : doing'[b] = doing[b]
      /\ holds'[a] = TRUE /\ \A b \in Agents \ {a} : holds'[b] = holds[b]
  BY <1>1, <1>2
<1>4. LockTypeOK'
  <2>1. file' \in {NoLock, Unreadable} \cup Leases
    BY <1>1, <1>2, LeaseIsALease
  <2>2. holds' \in [Agents -> BOOLEAN]
    BY <1>1, <1>2, Zenon
  <2>3. doing' \in [Agents -> {"nothing", "create", "overwrite", "fill", "remove"}]
    BY <1>1, <1>2
  <2> QED
    BY <1>1, <1>2, <2>1, <2>2, <2>3 DEF LockTypeOK
<1>5. ASSUME ~overridden' PROVE LockIsOnes'
  <2>1. LockIsOnes
    BY <1>1, <1>5 DEF LockInv
  <2>2. file = Unreadable /\ \A b \in Agents \ {a} : doing[b] # "fill" /\ ~holds[b]
    BY <1>1, <2>1 DEF LockIsOnes
  <2>3. file' = Lease(a)
    BY <2>2, LockAssumption DEF Fill, Readable
  <2>4. Readable' /\ IsMine(a)' /\ file'.lapsed = FALSE
    BY <2>3, LeaseIsALease DEF Readable, IsMine
  <2>5. \A b \in Agents \ {a} : doing'[b] \notin {"fill", "overwrite", "remove"} /\ ~holds'[b]
    BY <1>3, <2>1, <2>2 DEF LockIsOnes, Readable
  <2> QED
    BY <1>3, <2>4, <2>5 DEF LockIsOnes
<1> QED
  BY <1>1, <1>3, <1>4, <1>5 DEF LockInv

LEMMA RemoveKeepsLock ==
  ASSUME LockInv, NEW a \in Agents, Remove(a)
  PROVE  LockInv' /\ \A b \in Agents \ {a} : holds'[b] = holds[b]
<1>1. /\ doing[a] = "remove" /\ doing' = [doing EXCEPT ![a] = "nothing"]
      /\ file' = NoLock /\ holds' = [holds EXCEPT ![a] = FALSE] /\ overridden' = overridden
  BY DEF Remove, Turn
<1>2. /\ doing \in [Agents -> {"nothing", "create", "overwrite", "fill", "remove"}]
      /\ holds \in [Agents -> BOOLEAN] /\ overridden \in BOOLEAN
  BY DEF LockInv, LockTypeOK
<1>3. /\ doing'[a] = "nothing" /\ \A b \in Agents \ {a} : doing'[b] = doing[b]
      /\ ~holds'[a] /\ \A b \in Agents \ {a} : holds'[b] = holds[b]
  BY <1>1, <1>2
<1>4. LockTypeOK'
  <2>1. holds' \in [Agents -> BOOLEAN]
    BY <1>1, <1>2, Zenon
  <2>2. doing' \in [Agents -> {"nothing", "create", "overwrite", "fill", "remove"}]
    BY <1>1, <1>2
  <2> QED
    BY <1>1, <1>2, <2>1, <2>2 DEF LockTypeOK
<1>5. ASSUME ~overridden' PROVE LockIsOnes'
  <2>1. LockIsOnes
    BY <1>1, <1>5 DEF LockInv
  <2>2. Readable /\ IsMine(a) /\ file # Unreadable
    BY <1>1, <2>1 DEF LockIsOnes, Readable
  <2>3. \A b \in Agents \ {a} : doing'[b] \notin {"fill", "overwrite", "remove"} /\ ~holds'[b]
    BY <1>3, <2>1, <2>2 DEF LockIsOnes, Readable, IsMine
  <2>4. ~Readable'
    BY <1>1 DEF Readable
  <2> QED
    BY <1>3, <2>3, <2>4 DEF LockIsOnes
<1> QED
  BY <1>1, <1>3, <1>4, <1>5 DEF LockInv

LEMMA LapseKeepsLock == LockInv /\ LeaseRunsOut => LockInv'
<1> SUFFICES ASSUME LockInv, LeaseRunsOut PROVE LockInv'
  OBVIOUS
<1>1. file \in Leases /\ file' = [file EXCEPT !.lapsed = TRUE] /\ overridden' = TRUE
      /\ doing' = doing /\ holds' = holds
  BY DEF LeaseRunsOut, Readable, LockInv, LockTypeOK
<1>2. file' \in Leases
  BY <1>1 DEF Leases
<1> QED
  BY <1>1, <1>2 DEF LockInv, LockTypeOK

LEMMA ForgettingKeepsLock ==
  ASSUME LockInv, NEW a \in Agents, Forgets(a)
  PROVE  LockInv' /\ \A b \in Agents \ {a} : holds'[b] = holds[b]
<1>1. /\ doing' = [doing EXCEPT ![a] = "nothing"] /\ holds' = [holds EXCEPT ![a] = FALSE]
      /\ file' = file /\ overridden' = overridden
  BY DEF Forgets
<1>2. /\ doing \in [Agents -> {"nothing", "create", "overwrite", "fill", "remove"}]
      /\ holds \in [Agents -> BOOLEAN] /\ overridden \in BOOLEAN
  BY DEF LockInv, LockTypeOK
<1>3. /\ doing'[a] = "nothing" /\ \A b \in Agents \ {a} : doing'[b] = doing[b]
      /\ ~holds'[a] /\ \A b \in Agents \ {a} : holds'[b] = holds[b]
  BY <1>1, <1>2
<1>4. LockTypeOK'
  <2>1. holds' \in [Agents -> BOOLEAN]
    BY <1>1, <1>2, Zenon
  <2>2. doing' \in [Agents -> {"nothing", "create", "overwrite", "fill", "remove"}]
    BY <1>1, <1>2
  <2> QED
    BY <1>1, <2>1, <2>2 DEF LockTypeOK, LockInv
<1>5. ASSUME ~overridden' PROVE LockIsOnes'
  <2>1. LockIsOnes
    BY <1>1, <1>5 DEF LockInv
  <2> QED
    BY <1>1, <1>3, <2>1 DEF LockIsOnes, Readable, IsMine
<1> QED
  BY <1>1, <1>3, <1>4, <1>5 DEF LockInv

----------------------------------------------------------------------------
\* The storm.

LEMMA NoStormFacts ==
  /\ NoStorm \in Storms /\ NoStorm.step = "over"
  /\ UsualCap \in Caps /\ MayBeTheCaps(UsualCap)
<1> DEFINE fallbacks == [e \in Entries |-> FallbackCap]
<1>1. fallbacks \in Caps
  BY DEF Caps, FallbackCap
<1>2. NoStorm = [step |-> "over", caps |-> fallbacks, raised |-> {}, silenced |-> {},
                 before |-> {}]
  BY DEF NoStorm
<1> HIDE DEF fallbacks
<1>3. NoStorm \in Storms /\ NoStorm.step = "over"
  BY <1>1, <1>2 DEF Storms
<1>4. UsualCap \in Caps /\ MayBeTheCaps(UsualCap)
  BY HostAssumption DEF Caps, MayBeTheCaps, MayBeLeft
<1> QED
  BY <1>3, <1>4

\* What the list comes to may be left, if what there is may be.
LEMMA ListedMayBeLeft ==
  ASSUME caps \in Caps
  PROVE  /\ [e \in Entries |-> Listed(e)] \in Caps
         /\ MayBeTheCaps(caps) => MayBeTheCaps([e \in Entries |-> Listed(e)])
<1>1. \A e \in Entries : Listed(e) \in Nat
  BY DEF Listed, Caps, FallbackCap
<1>2. \A e \in Entries : caps[e] \in MayBeLeft(e) => Listed(e) \in MayBeLeft(e)
  BY DEF Listed, MayBeLeft
<1> QED
  BY <1>1, <1>2 DEF Caps, MayBeTheCaps

\* One agent's storm moves, and no other's.
LEMMA StormMoves ==
  ASSUME StormTypeOK, NEW a \in Agents, NEW s \in Storms, storm' = [storm EXCEPT ![a] = s]
  PROVE  /\ storm' \in [Agents -> Storms] /\ storm'[a] = s
         /\ \A b \in Agents \ {a} : storm'[b] = storm[b]
BY DEF StormTypeOK

LEMMA StormBegun ==
  ASSUME StormTypeOK, NEW a \in Agents, StormBegins(a)
  PROVE  /\ storm' \in [Agents -> Storms] /\ \A b \in Agents \ {a} : storm'[b] = storm[b]
         /\ storm'[a] = [step |-> "raise", raised |-> {},
                         caps |-> [e \in Entries |-> Listed(e)],
                         silenced |-> scanning, before |-> on]
<1> DEFINE listed == [e \in Entries |-> Listed(e)]
           s == [step |-> "raise", raised |-> {}, caps |-> listed, silenced |-> scanning,
                 before |-> on]
<1>1. s \in Storms
  <2>1. listed \in Caps
    BY ListedMayBeLeft DEF StormTypeOK
  <2> HIDE DEF listed
  <2> QED
    BY <2>1 DEF StormTypeOK, Storms
<1>2. storm' = [storm EXCEPT ![a] = s]
  BY DEF StormBegins
<1> HIDE DEF s
<1>3. /\ storm' \in [Agents -> Storms] /\ storm'[a] = s
      /\ \A b \in Agents \ {a} : storm'[b] = storm[b]
  BY <1>1, <1>2, StormMoves
<1> QED
  BY <1>3 DEF s

\* What a step of a storm does to what it keeps: the state it leaves, of its own
\* and of the host.
LEMMA StormStepFacts ==
  ASSUME StormTypeOK, NEW a \in Agents, StormStep(a)
  PROVE  /\ StormTypeOK' /\ \A b \in Agents \ {a} : storm'[b] = storm[b]
         /\ notUndone => notUndone'
         /\ storm[a].step # "over"
         /\ (storm[a].step # "over" => StormRemembers(a)) /\ ~notUndone' =>
              \/ storm'[a].step # "over" /\ StormRemembers(a)'
              \/ /\ storm'[a].step = "over" /\ MayBeTheCaps(caps')
                 /\ scanning' = Enabled /\ on' = On
<1>0. /\ storm[a] \in Storms /\ caps \in Caps /\ scanning \subseteq Scanners
      /\ on \subseteq Switches /\ notUndone \in BOOLEAN /\ storm \in [Agents -> Storms]
  BY DEF StormTypeOK
<1> DEFINE Keeps ==
      (storm[a].step # "over" => StormRemembers(a)) /\ ~notUndone' =>
        \/ storm'[a].step # "over" /\ StormRemembers(a)'
        \/ /\ storm'[a].step = "over" /\ MayBeTheCaps(caps')
           /\ scanning' = Enabled /\ on' = On
      Facts == /\ StormTypeOK' /\ \A b \in Agents \ {a} : storm'[b] = storm[b]
               /\ notUndone => notUndone'
               /\ storm[a].step # "over"
               /\ Keeps
<1>1. CASE RaiseACap(a)
  <2>1. PICK e \in Entries :
          /\ caps' = [caps EXCEPT ![e] = StormCap] /\ UNCHANGED <<scanning, on>>
          /\ \/ storm' = [storm EXCEPT ![a].raised = @ \cup {e}] /\ UNCHANGED notUndone
             \/ storm' = [storm EXCEPT ![a].step = "undo"] /\ notUndone' = TRUE
    BY <1>1 DEF RaiseACap
  <2>2. storm[a].step = "raise"
    BY <1>1 DEF RaiseACap, Now
  <2>3. caps' \in Caps /\ \A d \in Entries \ {e} : caps'[d] = caps[d]
    BY <1>0, <2>1, HostAssumption DEF Caps
  <2>4. CASE storm' = [storm EXCEPT ![a].raised = @ \cup {e}] /\ UNCHANGED notUndone
    <3>1. PICK s : s = [storm[a] EXCEPT !.raised = @ \cup {e}]
      OBVIOUS
    <3>2. /\ s \in Storms /\ s.step = "raise" /\ s.raised = storm[a].raised \cup {e}
          /\ s.caps = storm[a].caps /\ s.silenced = storm[a].silenced
          /\ s.before = storm[a].before
      BY <1>0, <2>2, <3>1 DEF Storms
    <3>3. storm' = [storm EXCEPT ![a] = s]
      BY <2>4, <3>1
    <3>4. /\ storm' \in [Agents -> Storms] /\ storm'[a] = s
          /\ \A b \in Agents \ {a} : storm'[b] = storm[b]
      BY <3>2, <3>3, StormMoves
    <3>5. Keeps
      BY <2>1, <2>2, <2>3, <3>2, <3>4 DEF StormRemembers
    <3> QED
      BY <1>0, <2>1, <2>2, <2>3, <2>4, <3>4, <3>5 DEF StormTypeOK
  <2>5. CASE storm' = [storm EXCEPT ![a].step = "undo"] /\ notUndone' = TRUE
    <3>1. PICK s : s = [storm[a] EXCEPT !.step = "undo"]
      OBVIOUS
    <3>2. s \in Storms
      BY <1>0, <3>1 DEF Storms
    <3>3. storm' = [storm EXCEPT ![a] = s]
      BY <2>5, <3>1
    <3>4. storm' \in [Agents -> Storms] /\ \A b \in Agents \ {a} : storm'[b] = storm[b]
      BY <3>2, <3>3, StormMoves
    <3> QED
      BY <1>0, <2>1, <2>2, <2>3, <2>5, <3>4 DEF StormTypeOK
  <2> QED
    BY <2>1, <2>4, <2>5
<1>2. CASE SilenceOne(a)
  <2>1. PICK x : scanning' = scanning \ {x}
    BY <1>2 DEF SilenceOne
  <2>2. storm[a].step = "raise" /\ UNCHANGED <<caps, on, storm, notUndone>>
    BY <1>2 DEF SilenceOne, Now
  <2> QED
    BY <1>0, <2>1, <2>2 DEF StormTypeOK, StormRemembers
<1>3. CASE Command(a) \/ StormBreaks(a)
  <2>1. /\ storm' = [storm EXCEPT ![a].step = "undo"] /\ UNCHANGED <<caps, scanning, notUndone>>
        /\ storm[a].step = "raise" /\ on' \subseteq Switches
    BY <1>0, <1>3 DEF Command, StormBreaks, Now, host
  <2>2. PICK s : s = [storm[a] EXCEPT !.step = "undo"]
    OBVIOUS
  <2>3. /\ s \in Storms /\ s.step = "undo" /\ s.raised = storm[a].raised
        /\ s.caps = storm[a].caps /\ s.silenced = storm[a].silenced /\ s.before = storm[a].before
    BY <1>0, <2>2 DEF Storms
  <2>4. storm' = [storm EXCEPT ![a] = s]
    BY <2>1, <2>2
  <2>5. /\ storm' \in [Agents -> Storms] /\ storm'[a] = s
        /\ \A b \in Agents \ {a} : storm'[b] = storm[b]
    BY <2>3, <2>4, StormMoves
  <2>6. Keeps
    BY <2>1, <2>3, <2>5 DEF StormRemembers
  <2> QED
    BY <1>0, <2>1, <2>5, <2>6 DEF StormTypeOK
<1>4. CASE StatesAreLost(a)
  <2>1. /\ storm' = [storm EXCEPT ![a] = NoStorm] /\ notUndone' = TRUE
        /\ storm[a].step = "undo" /\ UNCHANGED <<caps, scanning, on>>
    BY <1>4 DEF StatesAreLost, Now, host
  <2>2. storm' \in [Agents -> Storms] /\ \A b \in Agents \ {a} : storm'[b] = storm[b]
    BY <2>1, NoStormFacts, StormMoves
  <2> QED
    BY <1>0, <2>1, <2>2 DEF StormTypeOK
<1>5. CASE PutBack(a)
  <2>1. /\ storm' = [storm EXCEPT ![a].step = "lower"] /\ storm[a].step = "undo"
        /\ \/ /\ on' = storm[a].before /\ scanning' = scanning \cup storm[a].silenced
              /\ UNCHANGED notUndone
           \/ /\ on' \in SUBSET Switches
              /\ \E some \in SUBSET storm[a].silenced : scanning' = scanning \cup some
              /\ notUndone' = TRUE
        /\ UNCHANGED caps
    BY <1>5 DEF PutBack, Now
  <2>2. PICK s : s = [storm[a] EXCEPT !.step = "lower"]
    OBVIOUS
  <2>3. /\ s \in Storms /\ s.step = "lower" /\ s.raised = storm[a].raised
        /\ s.caps = storm[a].caps /\ s.silenced = storm[a].silenced /\ s.before = storm[a].before
    BY <1>0, <2>2 DEF Storms
  <2>4. storm' = [storm EXCEPT ![a] = s]
    BY <2>1, <2>2
  <2>5. /\ storm' \in [Agents -> Storms] /\ storm'[a] = s
        /\ \A b \in Agents \ {a} : storm'[b] = storm[b]
    BY <2>3, <2>4, StormMoves
  <2>6. storm[a].silenced \subseteq Scanners /\ storm[a].before \subseteq Switches
    BY <1>0 DEF Storms
  <2>7. scanning' \subseteq Scanners /\ on' \subseteq Switches /\ notUndone' \in BOOLEAN
    BY <1>0, <2>1, <2>6
  <2>8. Keeps
    BY <2>1, <2>3, <2>5 DEF StormRemembers
  <2> QED
    BY <1>0, <2>1, <2>5, <2>7, <2>8 DEF StormTypeOK
<1>6. CASE LowerACap(a)
  <2>1. PICK e \in storm[a].raised :
          /\ storm' = [storm EXCEPT ![a].raised = @ \ {e}]
          /\ \/ caps' = [caps EXCEPT ![e] = storm[a].caps[e]] /\ UNCHANGED notUndone
             \/ notUndone' = TRUE /\ UNCHANGED caps
          /\ storm[a].step = "lower" /\ UNCHANGED <<scanning, on>>
    BY <1>6 DEF LowerACap, Now
  <2>2. PICK s : s = [storm[a] EXCEPT !.raised = @ \ {e}]
    OBVIOUS
  <2>3. /\ s \in Storms /\ s.step = "lower" /\ s.raised = storm[a].raised \ {e}
        /\ s.caps = storm[a].caps /\ s.silenced = storm[a].silenced /\ s.before = storm[a].before
    BY <1>0, <2>1, <2>2 DEF Storms
  <2>4. storm' = [storm EXCEPT ![a] = s]
    BY <2>1, <2>2
  <2>5. /\ storm' \in [Agents -> Storms] /\ storm'[a] = s
        /\ \A b \in Agents \ {a} : storm'[b] = storm[b]
    BY <2>3, <2>4, StormMoves
  <2>6. e \in Entries /\ storm[a].caps \in Caps
    BY <1>0 DEF Storms
  <2>7. caps' \in Caps
    BY <1>0, <2>1, <2>6 DEF Caps
  <2>8. ~notUndone' => caps'[e] = storm[a].caps[e] /\ \A d \in Entries \ {e} : caps'[d] = caps[d]
    BY <1>0, <2>1, <2>6 DEF Caps
  <2>9. MayBeTheCaps(storm[a].caps) => storm[a].caps[e] \in MayBeLeft(e)
    BY <2>6 DEF MayBeTheCaps
  <2>10. Keeps
    BY <2>1, <2>3, <2>5, <2>8, <2>9 DEF StormRemembers
  <2> QED
    BY <1>0, <2>1, <2>5, <2>7, <2>10 DEF StormTypeOK
<1>7. CASE StormEnds(a)
  <2>1. /\ storm' = [storm EXCEPT ![a] = NoStorm] /\ storm[a].step = "lower"
        /\ storm[a].raised = {} /\ UNCHANGED <<caps, scanning, on, notUndone>>
    BY <1>7 DEF StormEnds, Now, host
  <2>2. /\ storm' \in [Agents -> Storms] /\ storm'[a] = NoStorm
        /\ \A b \in Agents \ {a} : storm'[b] = storm[b]
    BY <2>1, NoStormFacts, StormMoves
  <2>3. (\A e \in Entries \ storm[a].raised : caps[e] \in MayBeLeft(e)) => MayBeTheCaps(caps)
    BY <2>1 DEF MayBeTheCaps
  <2>4. Keeps
    BY <2>1, <2>2, <2>3, NoStormFacts DEF StormRemembers
  <2> QED
    BY <1>0, <2>1, <2>2, <2>4 DEF StormTypeOK
<1> QED
  BY <1>1, <1>2, <1>3, <1>4, <1>5, <1>6, <1>7 DEF StormStep

----------------------------------------------------------------------------
\* The deployment.

\* The least set of modules there is: what every set that is closed under
\* requiring has.
LEMMA NeededIsLeast ==
  ASSUME NEW S \in SUBSET (Modules \ BuiltIn),
         Requires[Sketch] \subseteq S \cup BuiltIn,
         \A m \in S : Requires[m] \subseteq S \cup BuiltIn
  PROVE  Needed \subseteq S
<1> DEFINE Closed(T) == Requires[Sketch] \cup UNION {Requires[m] : m \in T} \subseteq T \cup BuiltIn
           closed == {T \in SUBSET (Modules \ BuiltIn) : Closed(T)}
           least == {m \in Modules \ BuiltIn : \A T \in closed : m \in T}
<1>1. Requires[Sketch] \subseteq Modules /\ \A m \in Modules : Requires[m] \subseteq Modules
  BY ModulesAssumption
<1>2. Requires[Sketch] \subseteq least \cup BuiltIn
  <2> SUFFICES ASSUME NEW x \in Requires[Sketch], x \notin BuiltIn PROVE x \in least
    OBVIOUS
  <2>1. \A T \in closed : x \in T
    OBVIOUS
  <2> QED
    BY <1>1, <2>1
<1>3. ASSUME NEW m \in least PROVE Requires[m] \subseteq least \cup BuiltIn
  <2> SUFFICES ASSUME NEW x \in Requires[m], x \notin BuiltIn PROVE x \in least
    OBVIOUS
  <2>1. ASSUME NEW T \in closed PROVE x \in T
    <3>1. m \in T
      BY <1>3
    <3> QED
      BY <3>1
  <2> QED
    BY <1>1, <1>3, <2>1
<1>4. least \in closed
  BY <1>2, <1>3
<1>5. \A T \in closed : least \subseteq T
  OBVIOUS
<1>6. Needed = CHOOSE T \in closed : \A U \in closed : T \subseteq U
  BY DEF Needed
<1>7. S \in closed
  OBVIOUS
<1> HIDE DEF closed, least
<1>8. Needed \in closed /\ \A U \in closed : Needed \subseteq U
  BY <1>4, <1>5, <1>6
<1> QED
  BY <1>7, <1>8

\* When nothing is left to be looked at, all that is needed is to be stored.
LEMMA CollectedIsNeeded ==
  ASSUME NEW d \in Deployments, Collected(d), d.pending = {}
  PROVE  Needed \subseteq d.files \cap Modules
<1> DEFINE S == d.files \cap Modules
<1>1. Requires[Sketch] \subseteq Modules /\ \A m \in Modules : Requires[m] \subseteq Modules
  BY ModulesAssumption
<1>2. S \in SUBSET (Modules \ BuiltIn)
  BY ModulesAssumption DEF Collected
<1>3. Requires[Sketch] \subseteq S \cup BuiltIn
  BY <1>1 DEF Collected
<1>4. \A m \in S : Requires[m] \subseteq S \cup BuiltIn
  BY <1>1 DEF Collected
<1> HIDE DEF S
<1>5. Needed \subseteq S
  BY <1>2, <1>3, <1>4, NeededIsLeast
<1> QED
  BY <1>5 DEF S

LEMMA ExecutedIsContent ==
  ASSUME NEW content \in Contents, NEW n \in Nat, n <= Chunks,
         NEW chunk \in Agents \cup {Old}
  PROVE  Executed(content, n, chunk) \in Contents
<1>1. CASE n = 0
  BY <1>1 DEF Executed, Contents
<1>2. CASE n = 1 /\ content = Absent
  <2>1. [c \in 1 .. Chunks |-> IF c = 1 THEN chunk ELSE Absent]
          \in [1 .. Chunks -> Agents \cup {Absent, Old}]
    OBVIOUS
  <2> QED
    BY <1>2, <2>1 DEF Executed, Contents
<1>3. CASE n > 0 /\ content # Absent
  <2>1. content \in [1 .. Chunks -> Agents \cup {Absent, Old}]
    BY <1>3 DEF Contents
  <2>2. [content EXCEPT ![n] = IF @ = Absent THEN chunk ELSE @]
          \in [1 .. Chunks -> Agents \cup {Absent, Old}]
    BY <2>1
  <2> QED
    BY <1>3, <2>2 DEF Executed, Contents
<1>4. CASE n # 0 /\ ~(n = 1 /\ content = Absent) /\ ~(n > 0 /\ content # Absent)
  <2>1. Executed(content, n, chunk) = content
    BY <1>4 DEF Executed
  <2> QED
    BY <2>1
<1> QED
  BY <1>1, <1>2, <1>3, <1>4

LEMMA DeployMoves ==
  ASSUME DeployTypeOK, NEW a \in Agents, NEW d \in Deployments, Becomes(a, d)
  PROVE  /\ deploy' \in [Agents -> Deployments] /\ deploy'[a] = d
         /\ \A b \in Agents \ {a} : deploy'[b] = deploy[b]
BY DEF DeployTypeOK, Becomes

LEMMA IdleFacts ==
  /\ Idle \in Deployments /\ Idle.step = "over" /\ Idle.exit = "none"
  /\ \A x \in {"ok", "failed"} :
       /\ [Idle EXCEPT !.exit = x] \in Deployments
       /\ [Idle EXCEPT !.exit = x].step = "over" /\ [Idle EXCEPT !.exit = x].exit = x
BY DEF Idle, Deployments, Files

\* A step of a deployment leads to d: it keeps what its collection promises, it
\* writes no file that was checked, and it ends well with all that is needed.
Leads(a, d) ==
  /\ d \in Deployments /\ Becomes(a, d) /\ storage' \in [Files -> Contents]
  /\ d.step # "over" => d.exit # "ok" /\ Collected(d)
  /\ d.step # "over" /\ (\A f \in deploy[a].stored : Whole(a, f)) =>
       \A f \in d.stored : storage'[f] = [c \in 1 .. Chunks |-> a]
  /\ d.exit = "ok" /\ (\A f \in deploy[a].stored : Whole(a, f)) =>
       \A m \in Needed : storage'[m] = [c \in 1 .. Chunks |-> a]

LEMMA DeployLeads ==
  ASSUME DeployTypeOK, NEW a \in Agents, DeployStep(a),
         deploy[a].exit = "ok" => deploy[a].step = "over",
         deploy[a].step # "over" => Collected(deploy[a])
  PROVE  deploy[a].step # "over" /\ \E d : Leads(a, d)
<1>0. deploy[a] \in Deployments /\ storage \in [Files -> Contents]
  BY DEF DeployTypeOK
<1>1. deploy[a].step # "over"
  BY DEF DeployStep, Collect, DeployConnects, StoreNext, SendStatement, AskTheCRC, Boot,
         RunFromRAM, DeployBreaks, At
<1> SUFFICES \E d : Leads(a, d)
  BY <1>1
<1>2. deploy[a].exit # "ok" /\ Collected(deploy[a])
  BY <1>1
<1>3. /\ deploy[a].pending \subseteq Modules /\ deploy[a].files \subseteq Files
      /\ deploy[a].stored \subseteq Files /\ deploy[a].now \in Files
      /\ deploy[a].next \in Nat /\ deploy[a].tries \in Nat
  BY <1>0 DEF Deployments
<1> DEFINE now == deploy[a]
<1>4. ASSUME NEW x \in {"ok", "failed"}, Becomes(a, [Idle EXCEPT !.exit = x]),
             storage' \in [Files -> Contents],
             x = "ok" => /\ now.pending = {} /\ now.stored = now.files
                         /\ \A m \in Modules : storage'[m] = storage[m]
      PROVE  \E d : Leads(a, d)
  <2>1. PICK d : d = [Idle EXCEPT !.exit = x]
    OBVIOUS
  <2>2. d \in Deployments /\ d.step = "over" /\ d.exit = x /\ Becomes(a, d)
    BY <1>4, <2>1, IdleFacts
  <2>3. x = "ok" => Needed \subseteq now.stored \cap Modules
    BY <1>0, <1>2, <1>4, CollectedIsNeeded
  <2>4. Leads(a, d)
    BY <1>4, <2>2, <2>3 DEF Leads, Whole
  <2> QED
    BY <2>4
<1>5. ASSUME NEW d \in Deployments, Becomes(a, d), UNCHANGED storage,
             d.exit = now.exit, Collected(d), d.stored = now.stored
      PROVE  Leads(a, d)
  BY <1>0, <1>2, <1>5 DEF Leads, Whole
<1>6. CASE Collect(a)
  <2>1. PICK name \in now.pending :
          /\ Becomes(a, IF name \in now.files \cup BuiltIn
                        THEN [now EXCEPT !.pending = @ \ {name}]
                        ELSE [now EXCEPT !.pending = (@ \ {name}) \cup Requires[name],
                                         !.files = @ \cup {name}])
          /\ now.step = "collect" /\ UNCHANGED storage
    BY <1>6 DEF Collect, At
  <2>2. name \in Modules /\ name \in Files /\ Requires[name] \subseteq Modules
    BY <1>3, <2>1, ModulesAssumption DEF Files
  <2>3. CASE name \in now.files \cup BuiltIn
    <3>1. PICK d : d = [now EXCEPT !.pending = @ \ {name}]
      OBVIOUS
    <3>2. /\ d \in Deployments /\ d.step = "collect" /\ d.exit = now.exit
          /\ d.pending = now.pending \ {name} /\ d.files = now.files
          /\ d.stored = now.stored /\ Becomes(a, d)
      BY <1>0, <2>1, <2>3, <3>1 DEF Deployments
    <3>3. Collected(d)
      BY <1>2, <2>3, <3>2 DEF Collected
    <3> QED
      BY <1>5, <2>1, <3>2, <3>3
  <2>4. CASE name \notin now.files \cup BuiltIn
    <3>1. PICK d : d = [now EXCEPT !.pending = (@ \ {name}) \cup Requires[name],
                                   !.files = @ \cup {name}]
      OBVIOUS
    <3>2. /\ d \in Deployments /\ d.step = "collect" /\ d.exit = now.exit
          /\ d.pending = (now.pending \ {name}) \cup Requires[name]
          /\ d.files = now.files \cup {name} /\ d.stored = now.stored /\ Becomes(a, d)
      BY <1>0, <2>1, <2>2, <2>4, <3>1 DEF Deployments
    <3>3. Collected(d)
      BY <1>2, <2>2, <2>4, <3>2 DEF Collected
    <3> QED
      BY <1>5, <2>1, <3>2, <3>3
  <2> QED
    BY <2>3, <2>4
<1>7. CASE DeployConnects(a)
  <2>1. now.step = "collect" /\ now.pending = {} /\ UNCHANGED storage
    BY <1>7 DEF DeployConnects, At
  <2>2. CASE \E flash \in BOOLEAN : Becomes(a, [now EXCEPT !.step = "choose", !.tries = 0,
                         !.files = IF flash THEN @ \cup {Sketch} ELSE @])
    <3>1. PICK some \in SUBSET {Sketch} :
            Becomes(a, [now EXCEPT !.step = "choose", !.tries = 0, !.files = @ \cup some])
      <4>1. PICK flash \in BOOLEAN : Becomes(a, [now EXCEPT !.step = "choose", !.tries = 0,
                         !.files = IF flash THEN @ \cup {Sketch} ELSE @])
        BY <2>2
      <4>2. CASE flash
        BY <4>1, <4>2
      <4>3. CASE ~flash
        <5>1. now.files \cup {} = now.files
          OBVIOUS
        <5> QED
          BY <4>1, <4>3, <5>1
      <4> QED
        BY <4>2, <4>3
    <3>2. PICK d : d = [now EXCEPT !.step = "choose", !.tries = 0, !.files = @ \cup some]
      OBVIOUS
    <3>3. /\ d \in Deployments /\ d.step = "choose" /\ d.exit = now.exit /\ d.pending = {}
          /\ d.files = now.files \cup some /\ d.stored = now.stored /\ Becomes(a, d)
      BY <1>0, <2>1, <3>1, <3>2 DEF Deployments, Files
    <3>4. Collected(d)
      BY <1>2, <2>1, <3>3, ModulesAssumption DEF Collected
    <3> QED
      BY <1>5, <2>1, <3>3, <3>4
  <2>3. CASE Becomes(a, [Idle EXCEPT !.exit = "failed"])
    BY <1>0, <1>4, <2>1, <2>3
  <2>4. CASE Becomes(a, [now EXCEPT !.tries = @ + 1])
    <3>1. PICK d : d = [now EXCEPT !.tries = @ + 1]
      OBVIOUS
    <3>2. /\ d \in Deployments /\ d.step = "collect" /\ d.exit = now.exit
          /\ d.pending = {} /\ d.files = now.files /\ d.stored = now.stored /\ Becomes(a, d)
      BY <1>0, <2>1, <2>4, <3>1 DEF Deployments
    <3>3. Collected(d)
      BY <1>2, <2>1, <3>2 DEF Collected
    <3> QED
      BY <1>5, <2>1, <3>2, <3>3
  <2> QED
    BY <1>7, <2>2, <2>3, <2>4 DEF DeployConnects
<1>8. CASE StoreNext(a)
  <2>1. PICK name \in now.files \ now.stored :
          /\ Becomes(a, [now EXCEPT !.step = "write", !.now = name, !.next = 0, !.tries = 1])
          /\ now.step = "choose" /\ UNCHANGED storage
    BY <1>8 DEF StoreNext, At
  <2>2. PICK d : d = [now EXCEPT !.step = "write", !.now = name, !.next = 0, !.tries = 1]
    OBVIOUS
  <2>3. /\ d \in Deployments /\ d.step = "write" /\ d.exit = now.exit /\ d.now = name
        /\ d.pending = now.pending /\ d.files = now.files /\ d.stored = now.stored
        /\ Becomes(a, d)
    BY <1>0, <1>3, <2>1, <2>2 DEF Deployments
  <2>4. Collected(d)
    BY <1>2, <2>1, <2>3 DEF Collected
  <2> QED
    BY <1>5, <2>1, <2>3, <2>4
<1>9. CASE SendStatement(a)
  <2>1. PICK content :
          /\ content \in {storage[now.now], Executed(storage[now.now], now.next, a),
                          Executed(storage[now.now], now.next, Old)}
          /\ storage' = [storage EXCEPT ![now.now] = content]
          /\ Becomes(a, [now EXCEPT !.next = @ + 1])
          /\ now.step = "write" /\ now.next <= Chunks
    BY <1>9 DEF SendStatement, At
  <2>2. content \in Contents
    BY <1>0, <1>3, <2>1, ExecutedIsContent
  <2>3. storage' \in [Files -> Contents] /\ \A f \in Files \ {now.now} : storage'[f] = storage[f]
    BY <1>0, <2>1, <2>2
  <2>4. PICK d : d = [now EXCEPT !.next = @ + 1]
    OBVIOUS
  <2>5. /\ d \in Deployments /\ d.step = "write" /\ d.exit = now.exit /\ d.now = now.now
        /\ d.pending = now.pending /\ d.files = now.files /\ d.stored = now.stored
        /\ Becomes(a, d)
    BY <1>0, <1>3, <2>1, <2>4 DEF Deployments
  <2>6. Collected(d)
    BY <1>2, <2>1, <2>5 DEF Collected
  <2>7. now.now \notin d.stored /\ d.stored \subseteq Files
    BY <1>2, <1>3, <2>1, <2>5 DEF Collected
  <2>8. Leads(a, d)
    BY <1>2, <2>3, <2>5, <2>6, <2>7 DEF Leads, Whole
  <2> QED
    BY <2>8
<1>10. CASE AskTheCRC(a)
  <2>1. now.step = "write" /\ UNCHANGED storage
    BY <1>10 DEF AskTheCRC, At
  <2>2. CASE /\ Whole(a, now.now)
             /\ Becomes(a, [now EXCEPT !.step = "choose", !.stored = @ \cup {now.now}])
    <3>1. PICK d : d = [now EXCEPT !.step = "choose", !.stored = @ \cup {now.now}]
      OBVIOUS
    <3>2. /\ d \in Deployments /\ d.step = "choose" /\ d.exit = now.exit
          /\ d.pending = now.pending /\ d.files = now.files
          /\ d.stored = now.stored \cup {now.now} /\ Becomes(a, d)
      BY <1>0, <1>3, <2>1, <2>2, <3>1 DEF Deployments
    <3>3. Collected(d)
      BY <1>2, <2>1, <3>2 DEF Collected
    <3>4. Leads(a, d)
      BY <1>0, <1>2, <2>1, <2>2, <3>2, <3>3 DEF Leads, Whole
    <3> QED
      BY <3>4
  <2>3. CASE Becomes(a, [now EXCEPT !.next = 0, !.tries = @ + 1])
    <3> DEFINE more == now.tries + 1
    <3>0. more \in Nat /\ 0 \in Nat
      BY <1>3
    <3>1. PICK d : d = [now EXCEPT !.next = 0, !.tries = more]
      OBVIOUS
    <3>2. /\ d.step = now.step /\ d.exit = now.exit /\ d.now = now.now
          /\ d.pending = now.pending /\ d.files = now.files /\ d.stored = now.stored
      BY <1>0, <3>1 DEF Deployments
    <3>4. Becomes(a, d)
      BY <2>3, <3>1
    <3>5. d \in Deployments
      <4> HIDE DEF more
      <4> QED
        BY <1>0, <3>0, <3>1 DEF Deployments
    <3>3. Collected(d)
      BY <1>2, <2>1, <3>2 DEF Collected
    <3> QED
      BY <1>5, <2>1, <3>2, <3>3, <3>4, <3>5
  <2>4. CASE Becomes(a, [Idle EXCEPT !.exit = "failed"])
    BY <1>0, <1>4, <2>1, <2>4
  <2> QED
    BY <1>10, <2>2, <2>3, <2>4 DEF AskTheCRC
<1>11. CASE Boot(a)
  <2>1. /\ now.step = "choose" /\ now.stored = now.files /\ UNCHANGED storage
        /\ Becomes(a, [Idle EXCEPT !.exit = "ok"])
    BY <1>11 DEF Boot, At
  <2>2. now.pending = {}
    BY <1>2, <2>1 DEF Collected
  <2> QED
    BY <1>0, <1>4, <2>1, <2>2
<1>12. CASE RunFromRAM(a)
  <2>1. /\ now.step = "choose" /\ now.stored = now.files
        /\ storage' \in {storage, [storage EXCEPT ![Sketch] = Absent]}
        /\ \E x \in {"ok", "failed"} : Becomes(a, [Idle EXCEPT !.exit = x])
    BY <1>12 DEF RunFromRAM, At
  <2>2. now.pending = {}
    BY <1>2, <2>1 DEF Collected
  <2>3. Absent \in Contents
    BY DEF Contents
  <2>4. storage' \in [Files -> Contents] /\ \A m \in Modules : storage'[m] = storage[m]
    BY <1>0, <2>1, <2>3, ModulesAssumption DEF Files
  <2> QED
    BY <1>4, <2>1, <2>2, <2>4
<1>13. CASE DeployBreaks(a)
  BY <1>0, <1>4, <1>13 DEF DeployBreaks
<1> QED
  BY <1>6, <1>7, <1>8, <1>9, <1>10, <1>11, <1>12, <1>13 DEF DeployStep

----------------------------------------------------------------------------
\* The agents at work, and what each of their steps does to all of that.

LEMMA NobodyBeside ==
  ASSUME LockInv, JobsAreHeld, ~overridden, NEW a \in Agents, holds[a]
  PROVE  \A b \in Agents \ {a} :
           /\ ~holds[b] /\ job[b] = "none" /\ storm[b].step = "over"
           /\ deploy[b].step = "over" /\ deploy[b].exit # "ok"
<1> SUFFICES ASSUME NEW b \in Agents \ {a}
             PROVE  /\ ~holds[b] /\ job[b] = "none" /\ storm[b].step = "over"
                    /\ deploy[b].step = "over" /\ deploy[b].exit # "ok"
  OBVIOUS
<1>1. ~holds[b]
  BY DEF LockInv, LockIsOnes
<1> QED
  BY <1>1 DEF JobsAreHeld

LEMMA WhatIsLeftAlone ==
  /\ LockInv /\ UNCHANGED lock => LockInv'
  /\ StormInv /\ UNCHANGED storms /\ (overridden => overridden') => StormInv'
  /\ DeployInv /\ UNCHANGED <<storage, deploy>> /\ (overridden => overridden') => DeployInv'
  /\ ConsoleInv /\ UNCHANGED console => ConsoleInv'
<1>1. LockInv /\ UNCHANGED lock => LockInv'
  BY DEF LockInv, LockTypeOK, LockIsOnes, lock, Readable, IsMine
<1>2. StormInv /\ UNCHANGED storms /\ (overridden => overridden') => StormInv'
  BY DEF StormInv, StormTypeOK, HostIsKnown, StormRemembers, storms, host
<1>3. DeployInv /\ UNCHANGED <<storage, deploy>> /\ (overridden => overridden') => DeployInv'
  BY DEF DeployInv, DeployTypeOK, StoredIsWhole, Collected, Whole
<1>4. ConsoleInv /\ UNCHANGED console => ConsoleInv'
  BY DEF ConsoleInv, ConsoleTypeOK, NothingAsked, ComplaintComesFirst, LeaveMeansRoom,
         Without, ComplaintFirst, LastIsLeave, LoadedIsWhole, console
<1> QED
  BY <1>1, <1>2, <1>3, <1>4

LEMMA LockCommandFacts ==
  ASSUME LockInv, NEW a \in Agents, LockCommand(a)
  PROVE  /\ LockInv' /\ (overridden => overridden')
         /\ \A b \in Agents \ {a} : holds'[b] = holds[b] /\ doing'[b] = doing[b]
<1>1. LockInv' /\ \A b \in Agents \ {a} : holds'[b] = holds[b]
  BY CommandBeginsKeepsLock, OpeningKeepsLock, FillKeepsLock, RemoveKeepsLock DEF LockCommand
<1>2. overridden => overridden'
  BY DEF LockCommand, Acquire, Renew, Release, Create, Overwrite, Fill, Remove
<1>3. doing \in [Agents -> {"nothing", "create", "overwrite", "fill", "remove"}]
  BY DEF LockInv, LockTypeOK
<1>4. \E to : doing' = [doing EXCEPT ![a] = to]
  BY DEF LockCommand, Acquire, Renew, Release, Create, Overwrite, Fill, Remove, Turn
<1>5. \A b \in Agents \ {a} : doing'[b] = doing[b]
  BY <1>3, <1>4
<1> QED
  BY <1>1, <1>2, <1>5

\* An agent that is no longer sure of the bench has no deployment that went well.
LEMMA DeployForgets ==
  ASSUME DeployInv, NEW a \in Agents, deploy' = [deploy EXCEPT ![a] = Idle],
         UNCHANGED storage, overridden => overridden'
  PROVE  /\ DeployInv' /\ deploy'[a] = Idle /\ \A b \in Agents \ {a} : deploy'[b] = deploy[b]
<1>1. DeployTypeOK
  BY DEF DeployInv
<1>2. /\ deploy' \in [Agents -> Deployments] /\ deploy'[a] = Idle
      /\ \A b \in Agents \ {a} : deploy'[b] = deploy[b]
  BY <1>1, IdleFacts DEF DeployTypeOK
<1>3. DeployTypeOK'
  BY <1>1, <1>2 DEF DeployTypeOK
<1>4. \A b \in Agents : deploy'[b].step # "over" => Collected(deploy'[b])
  BY <1>2, IdleFacts DEF DeployInv
<1>5. StoredIsWhole => StoredIsWhole'
  BY <1>2, IdleFacts DEF StoredIsWhole, Whole
<1> QED
  BY <1>2, <1>3, <1>4, <1>5 DEF DeployInv

LEMMA LocksKeeps ==
  ASSUME BenchInv, NEW a \in Agents, Locks(a)
  PROVE  BenchInv'
<1> USE DEF BenchInv
<1>1. /\ LockInv' /\ (overridden => overridden')
      /\ \A b \in Agents \ {a} : holds'[b] = holds[b] /\ doing'[b] = doing[b]
  BY LockCommandFacts DEF Locks
<1>2. /\ job[a] = "none" /\ UNCHANGED <<storms, storage, console, job>>
      /\ deploy' = IF holds[a] /\ ~holds'[a] THEN [deploy EXCEPT ![a] = Idle] ELSE deploy
  BY DEF Locks
<1>3. StormInv' /\ ConsoleInv'
  BY <1>1, <1>2, WhatIsLeftAlone
<1>4. DeployInv' /\ \A b \in Agents \ {a} : deploy'[b] = deploy[b]
  BY <1>1, <1>2, WhatIsLeftAlone, DeployForgets
<1>5. \/ deploy'[a] = Idle
      \/ deploy'[a] = deploy[a] /\ (holds[a] => holds'[a])
  BY <1>1, <1>2, DeployForgets
<1>6. JobsAreHeld'
  <2>1. storm' = storm /\ job' = job
    BY <1>2 DEF storms
  <2>2. ASSUME NEW b \in Agents \ {a}
        PROVE  /\ job'[b] # "none" => holds'[b] /\ doing'[b] = "nothing"
               /\ deploy'[b].step # "over" => job'[b] = "deploy"
               /\ deploy'[b].exit = "ok" => holds'[b] /\ deploy'[b].step = "over"
    BY <1>1, <1>4, <2>1 DEF JobsAreHeld
  <2>3. /\ deploy'[a].step # "over" => job'[a] = "deploy"
        /\ deploy'[a].exit = "ok" => holds'[a] /\ deploy'[a].step = "over"
    BY <1>5, <2>1, IdleFacts DEF JobsAreHeld
  <2> QED
    BY <1>2, <2>1, <2>2, <2>3 DEF JobsAreHeld
<1> QED
  BY <1>1, <1>3, <1>4, <1>6

LEMMA CrashKeeps ==
  ASSUME BenchInv, NEW a \in Agents, Crash(a)
  PROVE  BenchInv'
<1> USE DEF BenchInv
<1>1. /\ doing' = [doing EXCEPT ![a] = "nothing"] /\ holds' = [holds EXCEPT ![a] = FALSE]
      /\ overridden' = overridden
      /\ storm' = [storm EXCEPT ![a] = NoStorm]
      /\ notUndone' = (notUndone \/ storm[a].step # "over") /\ UNCHANGED <<caps, scanning, on>>
      /\ job' = [job EXCEPT ![a] = "none"] /\ deploy' = [deploy EXCEPT ![a] = Idle]
      /\ UNCHANGED <<storage, console>>
  BY DEF Crash, Forgets, StormIsKilled, host, Now
<1>2. LockInv' /\ \A b \in Agents \ {a} : holds'[b] = holds[b]
  BY ForgettingKeepsLock DEF Crash
<1>3. ConsoleInv'
  BY <1>1, WhatIsLeftAlone
<1>4. /\ DeployInv' /\ deploy'[a] = Idle /\ \A b \in Agents \ {a} : deploy'[b] = deploy[b]
  BY <1>1, DeployForgets
<1>5. StormTypeOK /\ notUndone \in BOOLEAN
  BY DEF StormInv, StormTypeOK
<1>6. /\ storm' \in [Agents -> Storms] /\ storm'[a] = NoStorm
      /\ \A b \in Agents \ {a} : storm'[b] = storm[b]
  BY <1>1, <1>5, NoStormFacts, StormMoves
<1>7. StormInv'
  <2>1. StormTypeOK'
    BY <1>1, <1>5, <1>6 DEF StormTypeOK
  <2>2. ASSUME ~overridden', ~notUndone' PROVE HostIsKnown'
    <3>1. HostIsKnown /\ storm[a].step = "over"
      BY <1>1, <2>2 DEF StormInv
    <3> QED
      BY <1>1, <1>6, <3>1, NoStormFacts DEF HostIsKnown, StormRemembers
  <2> QED
    BY <2>1, <2>2 DEF StormInv
<1>8. JobsAreHeld'
  <2>1. /\ doing \in [Agents -> {"nothing", "create", "overwrite", "fill", "remove"}]
        /\ job \in [Agents -> {"none", "storm", "deploy", "load"}]
    BY DEF LockInv, LockTypeOK, JobsAreHeld
  <2>2. /\ job' \in [Agents -> {"none", "storm", "deploy", "load"}] /\ job'[a] = "none"
        /\ \A b \in Agents \ {a} : job'[b] = job[b] /\ doing'[b] = doing[b]
    BY <1>1, <2>1
  <2> QED
    BY <1>2, <1>4, <1>6, <2>2, IdleFacts, NoStormFacts DEF JobsAreHeld
<1> QED
  BY <1>2, <1>3, <1>4, <1>7, <1>8

LEMMA TimeKeeps ==
  ASSUME BenchInv, TimePasses
  PROVE  BenchInv'
<1> USE DEF BenchInv
<1>1. LeaseRunsOut /\ UNCHANGED <<storms, board, console, job>>
  BY DEF TimePasses
<1>2. overridden' = TRUE /\ doing' = doing /\ holds' = holds
  BY <1>1 DEF LeaseRunsOut
<1>3. UNCHANGED <<storage, deploy, storm, job, storms, console>>
  BY <1>1 DEF storms, board
<1>4. LockInv' /\ StormInv' /\ DeployInv' /\ ConsoleInv'
  BY <1>1, <1>2, <1>3, LapseKeepsLock, WhatIsLeftAlone
<1>5. JobsAreHeld'
  BY <1>2, <1>3 DEF JobsAreHeld
<1> QED
  BY <1>4, <1>5

\* A script is begun by an agent that was told that the bench is its own.
LEMMA BeginsFacts ==
  ASSUME BenchInv, NEW a \in Agents, NEW script \in {"storm", "deploy", "load"},
         Begins(a, script)
  PROVE  /\ LockInv' /\ UNCHANGED <<file, doing, holds, overridden>>
         /\ holds[a] /\ doing[a] = "nothing"
         /\ storm[a].step = "over" /\ deploy[a].step = "over"
         /\ job' \in [Agents -> {"none", "storm", "deploy", "load"}] /\ job'[a] = script
         /\ \A b \in Agents \ {a} : job'[b] = job[b]
<1> USE DEF BenchInv
<1>1. /\ holds[a] /\ job[a] = "none" /\ doing[a] = "nothing"
      /\ job' = [job EXCEPT ![a] = script] /\ UNCHANGED lock
  BY DEF Begins
<1>2. LockInv' /\ UNCHANGED <<file, doing, holds, overridden>>
  BY <1>1, WhatIsLeftAlone DEF lock
<1>3. storm[a].step = "over" /\ deploy[a].step = "over"
  BY <1>1 DEF JobsAreHeld
<1>4. job \in [Agents -> {"none", "storm", "deploy", "load"}]
  BY DEF JobsAreHeld
<1>5. /\ job' \in [Agents -> {"none", "storm", "deploy", "load"}] /\ job'[a] = script
      /\ \A b \in Agents \ {a} : job'[b] = job[b]
  BY <1>1, <1>4
<1> QED
  BY <1>1, <1>2, <1>3, <1>5

\* A script goes on, or ends, in the hands of an agent that was told so.
LEMMA EndsFacts ==
  ASSUME BenchInv, NEW a \in Agents, job[a] # "none", NEW over \in BOOLEAN, Ends(a, over)
  PROVE  /\ LockInv' /\ UNCHANGED <<file, doing, holds, overridden>>
         /\ holds[a] /\ doing[a] = "nothing"
         /\ job' \in [Agents -> {"none", "storm", "deploy", "load"}]
         /\ job'[a] = IF over THEN "none" ELSE job[a]
         /\ \A b \in Agents \ {a} : job'[b] = job[b]
<1> USE DEF BenchInv
<1>1. /\ job' = (IF over THEN [job EXCEPT ![a] = "none"] ELSE job) /\ UNCHANGED lock
  BY DEF Ends
<1>2. LockInv' /\ UNCHANGED <<file, doing, holds, overridden>>
  BY <1>1, WhatIsLeftAlone DEF lock
<1>3. holds[a] /\ doing[a] = "nothing"
  BY DEF JobsAreHeld
<1>4. job \in [Agents -> {"none", "storm", "deploy", "load"}]
  BY DEF JobsAreHeld
<1>5. CASE over
  BY <1>1, <1>2, <1>3, <1>4, <1>5
<1>6. CASE ~over
  BY <1>1, <1>2, <1>3, <1>4, <1>6
<1> QED
  BY <1>5, <1>6

LEMMA BeginsStormKeeps ==
  ASSUME BenchInv, NEW a \in Agents, BeginsStorm(a)
  PROVE  BenchInv'
<1> USE DEF BenchInv
<1>1. /\ LockInv' /\ UNCHANGED <<file, doing, holds, overridden>>
      /\ holds[a] /\ doing[a] = "nothing"
      /\ storm[a].step = "over" /\ deploy[a].step = "over"
      /\ job' \in [Agents -> {"none", "storm", "deploy", "load"}] /\ job'[a] = "storm"
      /\ \A b \in Agents \ {a} : job'[b] = job[b]
  BY BeginsFacts DEF BeginsStorm
<1>2. UNCHANGED <<caps, scanning, on, notUndone, storage, deploy, console>>
  BY DEF BeginsStorm, StormBegins, host, board
<1>3. StormTypeOK
  BY DEF StormInv
<1>4. /\ storm' \in [Agents -> Storms] /\ \A b \in Agents \ {a} : storm'[b] = storm[b]
      /\ storm'[a] = [step |-> "raise", raised |-> {},
                      caps |-> [e \in Entries |-> Listed(e)],
                      silenced |-> scanning, before |-> on]
  BY <1>3, StormBegun DEF BeginsStorm
<1>5. DeployInv' /\ ConsoleInv'
  BY <1>1, <1>2, WhatIsLeftAlone
<1>6. StormInv'
  <2>1. StormTypeOK'
    BY <1>2, <1>3, <1>4 DEF StormTypeOK
  <2>2. ASSUME ~overridden', ~notUndone' PROVE HostIsKnown'
    <3>1. HostIsKnown /\ \A b \in Agents : storm[b].step = "over"
      BY <1>1, <1>2, <2>2, NobodyBeside DEF StormInv
    <3>2. MayBeTheCaps(caps) /\ scanning = Enabled /\ on = On
      BY <3>1 DEF HostIsKnown
    <3>3. \A e \in Entries : caps[e] \in MayBeLeft(e)
      BY <3>2 DEF MayBeTheCaps
    <3>4. /\ storm'[a].step = "raise" /\ MayBeTheCaps(storm'[a].caps)
          /\ storm'[a].silenced = scanning /\ storm'[a].before = on
      BY <1>3, <1>4, <3>2, ListedMayBeLeft DEF StormTypeOK
    <3>5. StormRemembers(a)'
      BY <1>2, <3>2, <3>3, <3>4 DEF StormRemembers
    <3>6. \A b \in Agents \ {a} : storm'[b].step = "over"
      BY <1>4, <3>1
    <3> QED
      BY <3>4, <3>5, <3>6 DEF HostIsKnown
  <2> QED
    BY <2>1, <2>2 DEF StormInv
<1>7. JobsAreHeld'
  BY <1>1, <1>2, <1>4 DEF JobsAreHeld
<1> QED
  BY <1>1, <1>5, <1>6, <1>7

LEMMA StormRunsKeeps ==
  ASSUME BenchInv, NEW a \in Agents, StormRuns(a)
  PROVE  BenchInv'
<1> USE DEF BenchInv
<1>1. job[a] = "storm" /\ StormStep(a) /\ UNCHANGED <<board, console>>
  BY DEF StormRuns
<1> DEFINE over == storm'[a].step = "over"
<1>2. /\ LockInv' /\ UNCHANGED <<file, doing, holds, overridden>>
      /\ holds[a] /\ doing[a] = "nothing"
      /\ job' \in [Agents -> {"none", "storm", "deploy", "load"}]
      /\ job'[a] = IF over THEN "none" ELSE job[a]
      /\ \A b \in Agents \ {a} : job'[b] = job[b]
  <2>1. Ends(a, over) /\ over \in BOOLEAN
    BY DEF StormRuns
  <2> HIDE DEF over
  <2> QED
    BY <1>1, <2>1, EndsFacts
<1>3. UNCHANGED <<storage, deploy, console>>
  BY <1>1 DEF board
<1>4. DeployInv' /\ ConsoleInv'
  BY <1>2, <1>3, WhatIsLeftAlone
<1>5. StormTypeOK
  BY DEF StormInv
<1>6. /\ StormTypeOK' /\ \A b \in Agents \ {a} : storm'[b] = storm[b]
      /\ notUndone => notUndone'
      /\ storm[a].step # "over"
      /\ (storm[a].step # "over" => StormRemembers(a)) /\ ~notUndone' =>
           \/ storm'[a].step # "over" /\ StormRemembers(a)'
           \/ /\ storm'[a].step = "over" /\ MayBeTheCaps(caps')
              /\ scanning' = Enabled /\ on' = On
  BY <1>1, <1>5, StormStepFacts
<1>7. StormInv'
  <2>1. ASSUME ~overridden', ~notUndone' PROVE HostIsKnown'
    <3>1. HostIsKnown /\ \A b \in Agents \ {a} : storm[b].step = "over"
      BY <1>2, <1>6, <2>1, NobodyBeside DEF StormInv
    <3>2. \/ storm'[a].step # "over" /\ StormRemembers(a)'
          \/ /\ storm'[a].step = "over" /\ MayBeTheCaps(caps')
             /\ scanning' = Enabled /\ on' = On
      BY <1>6, <2>1, <3>1 DEF HostIsKnown
    <3>3. \A b \in Agents \ {a} : storm'[b].step = "over"
      BY <1>6, <3>1
    <3> QED
      BY <3>2, <3>3 DEF HostIsKnown
  <2> QED
    BY <1>6, <2>1 DEF StormInv
<1>8. JobsAreHeld'
  <2>1. deploy[a].step = "over"
    BY <1>1 DEF JobsAreHeld
  <2> QED
    BY <1>1, <1>2, <1>3, <1>6, <2>1 DEF JobsAreHeld
<1> QED
  BY <1>2, <1>4, <1>7, <1>8

LEMMA BeginsDeployKeeps ==
  ASSUME BenchInv, NEW a \in Agents, BeginsDeploy(a)
  PROVE  BenchInv'
<1> USE DEF BenchInv
<1>1. /\ LockInv' /\ UNCHANGED <<file, doing, holds, overridden>>
      /\ holds[a] /\ doing[a] = "nothing"
      /\ storm[a].step = "over" /\ deploy[a].step = "over"
      /\ job' \in [Agents -> {"none", "storm", "deploy", "load"}] /\ job'[a] = "deploy"
      /\ \A b \in Agents \ {a} : job'[b] = job[b]
  BY BeginsFacts DEF BeginsDeploy
<1>2. UNCHANGED <<storms, storm, storage, console>>
  BY DEF BeginsDeploy, DeployBegins, storms
<1>3. StormInv' /\ ConsoleInv'
  BY <1>1, <1>2, WhatIsLeftAlone
<1>4. DeployTypeOK
  BY DEF DeployInv
<1>5. PICK d : d = [Idle EXCEPT !.step = "collect", !.pending = Requires[Sketch]]
  OBVIOUS
<1>6. Requires[Sketch] \subseteq Modules
  BY ModulesAssumption
<1>7. /\ d \in Deployments /\ d.step = "collect" /\ d.exit = "none" /\ d.files = {}
      /\ d.stored = {} /\ d.pending = Requires[Sketch]
  BY <1>5, <1>6, IdleFacts DEF Idle, Deployments
<1>8. Becomes(a, d)
  BY <1>5 DEF BeginsDeploy, DeployBegins
<1>9. /\ deploy' \in [Agents -> Deployments] /\ deploy'[a] = d
      /\ \A b \in Agents \ {a} : deploy'[b] = deploy[b]
  BY <1>4, <1>7, <1>8, DeployMoves
<1>10. Collected(d)
  BY <1>7 DEF Collected
<1>11. DeployInv'
  <2>1. DeployTypeOK'
    BY <1>2, <1>4, <1>9 DEF DeployTypeOK
  <2>2. \A b \in Agents : deploy'[b].step # "over" => Collected(deploy'[b])
    BY <1>9, <1>10 DEF DeployInv
  <2>3. StoredIsWhole => StoredIsWhole'
    BY <1>2, <1>7, <1>9 DEF StoredIsWhole, Whole
  <2> QED
    BY <1>1, <2>1, <2>2, <2>3 DEF DeployInv
<1>12. JobsAreHeld'
  BY <1>1, <1>2, <1>7, <1>9 DEF JobsAreHeld
<1> QED
  BY <1>1, <1>3, <1>11, <1>12

LEMMA DeployRunsKeeps ==
  ASSUME BenchInv, NEW a \in Agents, DeployRuns(a)
  PROVE  BenchInv'
<1> USE DEF BenchInv
<1>1. job[a] = "deploy" /\ DeployStep(a) /\ UNCHANGED <<storms, storm, console>>
  BY DEF DeployRuns, storms
<1> DEFINE over == deploy'[a].step = "over"
<1>2. /\ LockInv' /\ UNCHANGED <<file, doing, holds, overridden>>
      /\ holds[a] /\ doing[a] = "nothing"
      /\ job' \in [Agents -> {"none", "storm", "deploy", "load"}]
      /\ job'[a] = IF over THEN "none" ELSE job[a]
      /\ \A b \in Agents \ {a} : job'[b] = job[b]
  <2>1. Ends(a, over) /\ over \in BOOLEAN
    BY DEF DeployRuns
  <2> HIDE DEF over
  <2> QED
    BY <1>1, <2>1, EndsFacts
<1>3. StormInv' /\ ConsoleInv'
  BY <1>1, <1>2, WhatIsLeftAlone
<1>4. DeployTypeOK /\ (deploy[a].step # "over" => Collected(deploy[a]))
      /\ (deploy[a].exit = "ok" => deploy[a].step = "over")
  BY DEF DeployInv, JobsAreHeld
<1>5. deploy[a].step # "over" /\ \E d : Leads(a, d)
  BY <1>1, <1>4, DeployLeads
<1>6. PICK d : Leads(a, d)
  BY <1>5
<1>7. /\ deploy' \in [Agents -> Deployments] /\ deploy'[a] = d
      /\ \A b \in Agents \ {a} : deploy'[b] = deploy[b]
  BY <1>4, <1>6, DeployMoves DEF Leads
<1>8. DeployInv'
  <2>1. DeployTypeOK'
    BY <1>6, <1>7 DEF DeployTypeOK, Leads
  <2>2. \A b \in Agents : deploy'[b].step # "over" => Collected(deploy'[b])
    BY <1>6, <1>7 DEF DeployInv, Leads
  <2>3. ASSUME ~overridden' PROVE StoredIsWhole'
    <3>1. \A f \in deploy[a].stored : Whole(a, f)
      BY <1>2, <1>5, <2>3 DEF DeployInv, StoredIsWhole
    <3>2. \A b \in Agents \ {a} : deploy'[b].step = "over" /\ deploy'[b].exit # "ok"
      BY <1>2, <1>7, <2>3, NobodyBeside
    <3>3. /\ deploy'[a].step # "over" => \A f \in deploy'[a].stored : Whole(a, f)'
          /\ deploy'[a].exit = "ok" => \A m \in Needed : Whole(a, m)'
      BY <1>6, <1>7, <3>1 DEF Leads, Whole
    <3> QED
      BY <3>2, <3>3 DEF StoredIsWhole, Whole
  <2> QED
    BY <2>1, <2>2, <2>3 DEF DeployInv
<1>9. JobsAreHeld'
  <2>1. storm[a].step = "over" /\ storm' = storm
    BY <1>1 DEF JobsAreHeld
  <2>2. d.exit = "ok" => d.step = "over"
    BY <1>6 DEF Leads
  <2> QED
    BY <1>1, <1>2, <1>7, <2>1, <2>2 DEF JobsAreHeld
<1> QED
  BY <1>2, <1>3, <1>8, <1>9

----------------------------------------------------------------------------
\* The console.

LEMMA OneMore ==
  ASSUME NEW S, NEW s \in Seq(S), NEW x \in S
  PROVE  /\ Append(s, x) \in Seq(S) /\ Len(Append(s, x)) = Len(s) + 1
         /\ Without(Append(s, x), {"question"}) <=> Without(s, {"question"}) /\ x # "question"
         /\ Without(Append(s, x), {"answer"}) <=> Without(s, {"answer"}) /\ x # "answer"
         /\ Without(Append(s, x), Signals) <=> Without(s, Signals) /\ x \notin Signals
         /\ ComplaintFirst(s) => ComplaintFirst(Append(s, x))
         /\ x = "complaint" /\ Without(s, {"answer"}) => ComplaintFirst(Append(s, x))
         /\ LastIsLeave(Append(s, x)) => x = "xon" \/ (x \notin Signals /\ LastIsLeave(s))
<1> DEFINE t == Append(s, x)
           n == Len(s)
<1>1. /\ t \in Seq(S) /\ Len(t) = n + 1 /\ n \in Nat
      /\ t[n + 1] = x /\ \A i \in 1..n : t[i] = s[i]
  OBVIOUS
<1> HIDE DEF t
<1>2. ASSUME NEW W PROVE Without(t, W) <=> Without(s, W) /\ x \notin W
  BY <1>1 DEF Without
<1>3. ComplaintFirst(s) => ComplaintFirst(t)
  <2> SUFFICES ASSUME ComplaintFirst(s) PROVE ComplaintFirst(t)
    OBVIOUS
  <2>1. PICK i \in 1..n : s[i] = "complaint" /\ \A j \in 1..i : s[j] # "answer"
    BY DEF ComplaintFirst
  <2>2. i \in 1..Len(t) /\ t[i] = "complaint" /\ \A j \in 1..i : t[j] # "answer"
    BY <1>1, <2>1
  <2> QED
    BY <2>2 DEF ComplaintFirst
<1>4. x = "complaint" /\ Without(s, {"answer"}) => ComplaintFirst(t)
  <2> SUFFICES ASSUME x = "complaint", Without(s, {"answer"}) PROVE ComplaintFirst(t)
    OBVIOUS
  <2>1. n + 1 \in 1..Len(t) /\ t[n + 1] = "complaint" /\ \A j \in 1..(n + 1) : t[j] # "answer"
    BY <1>1 DEF Without
  <2> QED
    BY <2>1 DEF ComplaintFirst
<1>5. LastIsLeave(t) => x = "xon" \/ (x \notin Signals /\ LastIsLeave(s))
  <2> SUFFICES ASSUME LastIsLeave(t), x # "xon" PROVE x \notin Signals /\ LastIsLeave(s)
    OBVIOUS
  <2>1. PICK i \in 1..(n + 1) :
          t[i] = "xon" /\ \A j \in 1..(n + 1) : j > i => t[j] \notin Signals
    BY <1>1 DEF LastIsLeave
  <2>2. i # n + 1 /\ i \in 1..n /\ n + 1 > i
    BY <1>1, <2>1
  <2>3. x \notin Signals
    BY <1>1, <2>1, <2>2
  <2>4. s[i] = "xon" /\ \A j \in 1..n : j > i => s[j] \notin Signals
    BY <1>1, <2>1, <2>2
  <2> QED
    BY <2>2, <2>3, <2>4 DEF LastIsLeave
<1> QED
  BY <1>1, <1>2, <1>3, <1>4, <1>5 DEF t

LEMMA OneLess ==
  ASSUME NEW S, NEW s \in Seq(S), s # <<>>
  PROVE  /\ Tail(s) \in Seq(S) /\ Len(Tail(s)) = Len(s) - 1 /\ Len(s) > 0 /\ Head(s) \in S
         /\ Without(s, {"question"}) => Without(Tail(s), {"question"}) /\ Head(s) # "question"
         /\ Without(s, {"answer"}) => Without(Tail(s), {"answer"}) /\ Head(s) # "answer"
         /\ Without(Tail(s), Signals) =>
              IF Head(s) \in Signals THEN Head(s) # "xon" \/ LastIsLeave(s)
              ELSE Without(s, Signals)
         /\ ComplaintFirst(s) =>
              Head(s) # "answer" /\ (Head(s) = "complaint" \/ ComplaintFirst(Tail(s)))
         /\ LastIsLeave(Tail(s)) => LastIsLeave(s)
<1> DEFINE t == Tail(s)
           n == Len(s)
<1>1. /\ t \in Seq(S) /\ n \in Nat /\ n > 0 /\ Len(t) = n - 1
      /\ Head(s) = s[1] /\ s[1] \in S /\ \A i \in 1..(n - 1) : t[i] = s[i + 1]
  OBVIOUS
<1>2. /\ 1 \in 1..n
      /\ \A i \in 1..(n - 1) : i + 1 \in 1..n
      /\ \A i \in 1..n : i = 1 \/ (i - 1 \in 1..(n - 1) /\ (i - 1) + 1 = i)
  BY <1>1
<1> HIDE DEF t, n
<1>3. ASSUME NEW W PROVE Without(s, W) <=> Without(t, W) /\ Head(s) \notin W
  BY <1>1, <1>2 DEF Without, n
<1>4. Without(t, Signals) /\ Head(s) = "xon" => LastIsLeave(s)
  <2> SUFFICES ASSUME Without(t, Signals), Head(s) = "xon" PROVE LastIsLeave(s)
    OBVIOUS
  <2>1. ASSUME NEW j \in 1..n, j > 1 PROVE s[j] \notin Signals
    <3>1. j - 1 \in 1..(n - 1) /\ (j - 1) + 1 = j
      BY <1>1, <2>1
    <3>2. t[j - 1] \notin Signals
      BY <1>1, <3>1 DEF Without
    <3> QED
      BY <1>1, <3>1, <3>2
  <2> QED
    BY <1>1, <1>2, <2>1 DEF LastIsLeave, n
<1>5. ComplaintFirst(s) =>
        Head(s) # "answer" /\ (Head(s) = "complaint" \/ ComplaintFirst(t))
  <2> SUFFICES ASSUME ComplaintFirst(s), Head(s) # "complaint"
               PROVE  Head(s) # "answer" /\ ComplaintFirst(t)
    BY DEF ComplaintFirst
  <2>1. PICK i \in 1..n : s[i] = "complaint" /\ \A j \in 1..i : s[j] # "answer"
    BY DEF ComplaintFirst, n
  <2>2. i # 1 /\ i - 1 \in 1..(n - 1) /\ (i - 1) + 1 = i
    BY <1>1, <1>2, <2>1
  <2>3. t[i - 1] = "complaint"
    BY <1>1, <2>1, <2>2
  <2>4. \A j \in 1..(i - 1) : j \in 1..(n - 1) /\ j + 1 \in 1..i
    BY <1>1, <2>1, <2>2
  <2>5. \A j \in 1..(i - 1) : t[j] # "answer"
    BY <1>1, <2>1, <2>4
  <2>6. s[1] # "answer"
    BY <2>1
  <2> QED
    BY <1>1, <2>2, <2>3, <2>5, <2>6 DEF ComplaintFirst
<1>6. LastIsLeave(t) => LastIsLeave(s)
  <2> SUFFICES ASSUME LastIsLeave(t) PROVE LastIsLeave(s)
    OBVIOUS
  <2>1. PICK i \in 1..(n - 1) :
          t[i] = "xon" /\ \A j \in 1..(n - 1) : j > i => t[j] \notin Signals
    BY <1>1 DEF LastIsLeave
  <2>2. i + 1 \in 1..n /\ s[i + 1] = "xon"
    BY <1>1, <1>2, <2>1
  <2>3. ASSUME NEW j \in 1..n, j > i + 1 PROVE s[j] \notin Signals
    <3>1. j - 1 \in 1..(n - 1) /\ j - 1 > i /\ (j - 1) + 1 = j
      BY <1>1, <2>1, <2>3
    <3> QED
      BY <1>1, <2>1, <3>1
  <2> QED
    BY <2>2, <2>3 DEF LastIsLeave, n
<1>7. /\ Without(s, {"question"}) => Without(t, {"question"}) /\ Head(s) # "question"
      /\ Without(s, {"answer"}) => Without(t, {"answer"}) /\ Head(s) # "answer"
      /\ Without(t, Signals) => IF Head(s) \in Signals THEN Head(s) # "xon" \/ LastIsLeave(s)
                                ELSE Without(s, Signals)
  BY <1>3, <1>4
<1> QED
  BY <1>1, <1>5, <1>6, <1>7 DEF t, n

Loads == [step : {"over", "send", "wait", "ask", "listen", "paste", "settle"},
          by : {"prompts", "cable", "radio"}, block : Nat \ {0}, line : Nat, wanted : Nat,
          exit : {"none", "ok", "complained", "unanswered", "stalled"}]
Hearing == [prompts : Nat, complained : BOOLEAN, lately : BOOLEAN, answered : BOOLEAN,
            flowing : BOOLEAN]
Sayings == {"prompt", "complaint", "answer"} \cup Signals

LEMMA ConsoleFacts ==
  /\ Silence \in Hearing /\ ~Silence.complained /\ ~Silence.answered
  /\ \A x \in BOOLEAN : /\ [Silence EXCEPT !.complained = x] \in Hearing
                        /\ ~[Silence EXCEPT !.complained = x].answered
  /\ Unloaded \in Loads /\ Unloaded.step = "over" /\ Unloaded.by = "prompts"
  /\ Unloaded.exit = "none"
  /\ <<>> \in Seq(Sayings) /\ <<"prompt">> \in Seq(Sayings) /\ <<"complaint">> \in Seq(Sayings)
  /\ <<>> \in Seq({"line", "question"})
  /\ \A what : Without(<<>>, what)
  /\ Without(<<"prompt">>, {"answer"}) /\ Without(<<"complaint">>, {"answer"})
  /\ Room \in Nat /\ 0 < Room
<1>1. /\ Silence \in Hearing /\ ~Silence.complained /\ ~Silence.answered
      /\ \A x \in BOOLEAN : /\ [Silence EXCEPT !.complained = x] \in Hearing
                            /\ ~[Silence EXCEPT !.complained = x].answered
  BY DEF Silence, Hearing
<1>2. /\ Unloaded \in Loads /\ Unloaded.step = "over" /\ Unloaded.by = "prompts"
      /\ Unloaded.exit = "none"
  BY DEF Unloaded, Loads
<1>3. /\ <<>> \in Seq(Sayings) /\ <<"prompt">> \in Seq(Sayings)
      /\ <<"complaint">> \in Seq(Sayings) /\ <<>> \in Seq({"line", "question"})
  BY DEF Sayings
<1>4. /\ \A what : Without(<<>>, what)
      /\ Without(<<"prompt">>, {"answer"}) /\ Without(<<"complaint">>, {"answer"})
  BY DEF Without
<1>5. Room \in Nat /\ 0 < Room
  BY ConsoleAssumption
<1> QED
  BY <1>1, <1>2, <1>3, <1>4, <1>5

\* A load begins or is over: nothing is said of the sketch before it is sent.
LEMMA LoadBegun ==
  ASSUME ConsoleInv, LoadBegins \/ UploadBegins
  PROVE  ConsoleInv'
<1>1. CASE LoadBegins
  <2>1. PICK x \in BOOLEAN : heard' = [Silence EXCEPT !.complained = x]
    BY <1>1 DEF LoadBegins
  <2>2. /\ load' = [Unloaded EXCEPT !.step = "send"]
        /\ saying' \in {<<>>, <<"prompt">>, <<"complaint">>} /\ input' = <<>> /\ spoilt' = FALSE
    BY <1>1 DEF LoadBegins
  <2>3. /\ load' \in Loads /\ load'.step = "send" /\ load'.by = "prompts" /\ load'.exit = "none"
    BY <2>2, ConsoleFacts DEF Loads
  <2>4. heard' \in Hearing /\ ~heard'.answered
    BY <2>1, ConsoleFacts
  <2>5. saying' \in Seq(Sayings) /\ Without(saying', {"answer"})
    BY <2>2, ConsoleFacts
  <2>6. input' \in Seq({"line", "question"}) /\ Len(input') <= Room /\ Without(input', {"question"})
    BY <2>2, ConsoleFacts
  <2>7. ConsoleTypeOK'
    BY <2>2, <2>3, <2>4, <2>5, <2>6 DEF ConsoleTypeOK, Loads, Hearing, Sayings
  <2> QED
    BY <2>2, <2>3, <2>4, <2>5, <2>6, <2>7
    DEF ConsoleInv, NothingAsked, ComplaintComesFirst, LeaveMeansRoom, LoadedIsWhole
<1>2. CASE UploadBegins
  <2>1. PICK by \in {"cable", "radio"} : load' = [Unloaded EXCEPT !.step = "paste", !.by = by]
    BY <1>2 DEF UploadBegins
  <2>2. /\ heard' = Silence /\ saying' \in {<<>>, <<"complaint">>} /\ input' = <<>>
        /\ spoilt' = FALSE
    BY <1>2 DEF UploadBegins
  <2>3. load' \in Loads /\ load'.step = "paste" /\ load'.by = by /\ load'.exit = "none"
    BY <2>1, ConsoleFacts DEF Loads
  <2>4. heard' \in Hearing /\ saying' \in Seq(Sayings)
    BY <2>2, ConsoleFacts
  <2>5. input' \in Seq({"line", "question"}) /\ Len(input') < Room /\ Len(input') <= Room
    BY <2>2, ConsoleFacts
  <2>6. ConsoleTypeOK'
    BY <2>1, <2>2, <2>3, <2>4, <2>5 DEF ConsoleTypeOK, Loads, Hearing, Sayings
  <2> QED
    BY <2>2, <2>3, <2>5, <2>6
    DEF ConsoleInv, NothingAsked, ComplaintComesFirst, LeaveMeansRoom, LoadedIsWhole
<1> QED
  BY <1>1, <1>2

LEMMA LoadIsOver ==
  ASSUME ConsoleInv, load' \in Loads, load'.step = "over",
         heard' = Silence, saying' = <<>>, input' = <<>>, UNCHANGED spoilt,
         load'.by = "cable" \/ (load'.by = "prompts" /\ load'.exit = "ok") => ~spoilt
  PROVE  ConsoleInv'
<1>1. /\ heard' \in Hearing /\ saying' \in Seq(Sayings) /\ input' \in Seq({"line", "question"})
      /\ Len(input') <= Room /\ spoilt' \in BOOLEAN
  BY ConsoleFacts DEF ConsoleInv, ConsoleTypeOK
<1>2. ConsoleTypeOK'
  BY <1>1 DEF ConsoleTypeOK, Loads, Hearing, Sayings
<1> QED
  BY <1>2 DEF ConsoleInv, NothingAsked, ComplaintComesFirst, LeaveMeansRoom, LoadedIsWhole

\* A line finds room, or is complained of after all that was said before.
LEMMA ReceivesFacts ==
  ASSUME ConsoleInv, load.step \in {"send", "ask"}, NEW what \in {"line", "question"},
         Receives(what)
  PROVE  /\ input' \in Seq({"line", "question"}) /\ Len(input') <= Room
         /\ saying' \in Seq(Sayings) /\ spoilt' \in BOOLEAN
         /\ what = "line" => Without(input', {"question"})
         /\ Without(saying', {"answer"}) /\ ~heard.answered
         /\ spoilt' => heard.complained \/ ComplaintFirst(saying')
<1>1. /\ input \in Seq({"line", "question"}) /\ Len(input) <= Room /\ Len(input) \in Nat
      /\ saying \in Seq(Sayings) /\ spoilt \in BOOLEAN
      /\ ~heard.answered /\ Without(input, {"question"}) /\ Without(saying, {"answer"})
      /\ spoilt => heard.complained \/ ComplaintFirst(saying)
  BY DEF ConsoleInv, ConsoleTypeOK, NothingAsked, ComplaintComesFirst, Sayings
<1>2. Room \in Nat
  BY ConsoleAssumption
<1>3. CASE Len(input) < Room
  <2>1. input' = Append(input, what) /\ UNCHANGED <<saying, spoilt>>
    BY <1>3 DEF Receives
  <2>2. /\ Append(input, what) \in Seq({"line", "question"})
        /\ Len(Append(input, what)) = Len(input) + 1
        /\ Without(Append(input, what), {"question"})
             <=> Without(input, {"question"}) /\ what # "question"
    BY <1>1, OneMore
  <2> QED
    BY <1>1, <1>2, <1>3, <2>1, <2>2
<1>4. CASE ~(Len(input) < Room)
  <2>1. saying' = Append(saying, "complaint") /\ spoilt' = TRUE /\ UNCHANGED input
    BY <1>4 DEF Receives
  <2>2. "complaint" \in Sayings
    BY DEF Sayings
  <2>3. /\ Append(saying, "complaint") \in Seq(Sayings)
        /\ Without(Append(saying, "complaint"), {"answer"})
        /\ ComplaintFirst(Append(saying, "complaint"))
    BY <1>1, <2>2, OneMore
  <2> QED
    BY <1>1, <2>1, <2>3
<1> QED
  BY <1>3, <1>4

LEMMA SendLineKeeps == ConsoleInv /\ SendLine => ConsoleInv'
<1> SUFFICES ASSUME ConsoleInv, SendLine PROVE ConsoleInv'
  OBVIOUS
<1>1. /\ load.step = "send" /\ load.block <= Len(Blocks) /\ Receives("line") /\ UNCHANGED heard
      /\ load' = [load EXCEPT !.line = @ + 1,
                     !.wanted = IF load.line = 1 THEN heard.prompts + Blocks[load.block] ELSE @,
                     !.step = IF load.line = Blocks[load.block] THEN "wait" ELSE @]
  BY DEF SendLine
<1>2. /\ load \in Loads /\ heard \in Hearing /\ load.by = "prompts" /\ load.exit = "none"
  BY <1>1 DEF ConsoleInv, ConsoleTypeOK, Loads, Hearing
<1>3. /\ input' \in Seq({"line", "question"}) /\ Len(input') <= Room
      /\ saying' \in Seq(Sayings) /\ spoilt' \in BOOLEAN
      /\ Without(input', {"question"})
      /\ Without(saying', {"answer"}) /\ ~heard.answered
      /\ spoilt' => heard.complained \/ ComplaintFirst(saying')
  BY <1>1, ReceivesFacts
<1>4. load.block \in 1..Len(Blocks) /\ Blocks[load.block] \in Nat
  <2>1. load.block \in Nat \ {0} /\ Len(Blocks) \in Nat
    BY <1>2, ConsoleAssumption DEF Loads
  <2>2. load.block \in 1..Len(Blocks)
    BY <1>1, <2>1
  <2> QED
    BY <2>2, ConsoleAssumption
<1>5. PICK n \in Nat : n = load.line + 1
  BY <1>2 DEF Loads
<1>6. PICK w \in Nat :
        w = IF load.line = 1 THEN heard.prompts + Blocks[load.block] ELSE load.wanted
  BY <1>2, <1>4 DEF Loads, Hearing
<1>7. PICK s \in {"send", "wait"} : s = IF load.line = Blocks[load.block] THEN "wait" ELSE load.step
  BY <1>1
<1>8. load' = [load EXCEPT !.line = n, !.wanted = w, !.step = s]
  BY <1>1, <1>5, <1>6, <1>7
<1>9. load' \in Loads /\ load'.step = s /\ load'.by = "prompts" /\ load'.exit = "none"
  BY <1>2, <1>8 DEF Loads
<1>10. ConsoleTypeOK'
  BY <1>1, <1>2, <1>3, <1>9 DEF ConsoleTypeOK, Loads, Hearing, Sayings
<1> QED
  BY <1>1, <1>3, <1>9, <1>10
  DEF ConsoleInv, NothingAsked, ComplaintComesFirst, LeaveMeansRoom, LoadedIsWhole

LEMMA PacedKeeps == ConsoleInv /\ Paced => ConsoleInv'
<1> SUFFICES ASSUME ConsoleInv, Paced PROVE ConsoleInv'
  OBVIOUS
<1>1. /\ load.step = "wait" /\ UNCHANGED <<heard, input, saying, spoilt>>
      /\ load' = IF heard.prompts < load.wanted /\ heard.lately
                 THEN [load EXCEPT !.step = "ask"]
                 ELSE [load EXCEPT !.block = @ + 1, !.line = 1,
                                   !.step = IF load.block = Len(Blocks) THEN "ask" ELSE "send"]
  BY DEF Paced
<1>2. load \in Loads /\ load.by = "prompts" /\ load.exit = "none"
  BY <1>1 DEF ConsoleInv, ConsoleTypeOK, Loads
<1>3. PICK n \in Nat \ {0} : n = load.block + 1
  BY <1>2 DEF Loads
<1>4. PICK s \in {"ask", "send"} : s = IF load.block = Len(Blocks) THEN "ask" ELSE "send"
  OBVIOUS
<1>5. PICK one \in Nat : one = 1
  OBVIOUS
<1>6. \/ load' = [load EXCEPT !.step = "ask"]
      \/ load' = [load EXCEPT !.block = n, !.line = one, !.step = s]
  BY <1>1, <1>3, <1>4, <1>5
<1>7. load' \in Loads /\ load'.step \in {"ask", "send"} /\ load'.by = "prompts"
      /\ load'.exit = "none"
  BY <1>2, <1>6 DEF Loads
<1>8. ConsoleTypeOK'
  BY <1>1, <1>7 DEF ConsoleInv, ConsoleTypeOK, Loads
<1> QED
  BY <1>1, <1>7, <1>8
  DEF ConsoleInv, NothingAsked, ComplaintComesFirst, LeaveMeansRoom, LoadedIsWhole

LEMMA AskKeeps == ConsoleInv /\ Ask => ConsoleInv'
<1> SUFFICES ASSUME ConsoleInv, Ask PROVE ConsoleInv'
  OBVIOUS
<1>1. /\ load.step = "ask" /\ Receives("question") /\ UNCHANGED heard
      /\ load' = [load EXCEPT !.step = "listen"]
  BY DEF Ask
<1>2. load \in Loads /\ heard \in Hearing /\ load.by = "prompts" /\ load.exit = "none"
  BY <1>1 DEF ConsoleInv, ConsoleTypeOK, Loads, Hearing
<1>3. /\ input' \in Seq({"line", "question"}) /\ Len(input') <= Room
      /\ saying' \in Seq(Sayings) /\ spoilt' \in BOOLEAN /\ ~heard.answered
      /\ spoilt' => heard.complained \/ ComplaintFirst(saying')
  BY <1>1, ReceivesFacts
<1>4. load' \in Loads /\ load'.step = "listen" /\ load'.by = "prompts" /\ load'.exit = "none"
  BY <1>1, <1>2 DEF Loads
<1>5. ConsoleTypeOK'
  BY <1>1, <1>2, <1>3, <1>4 DEF ConsoleTypeOK, Loads, Hearing, Sayings
<1> QED
  BY <1>1, <1>3, <1>4, <1>5
  DEF ConsoleInv, NothingAsked, ComplaintComesFirst, LeaveMeansRoom, LoadedIsWhole

\* The board answers a question only, and gives leave to send with room to spare.
LEMMA BoardExecutesKeeps == ConsoleInv /\ BoardExecutes => ConsoleInv'
<1> SUFFICES ASSUME ConsoleInv, BoardExecutes PROVE ConsoleInv'
  OBVIOUS
<1>1. input # <<>> /\ input' = Tail(input) /\ UNCHANGED <<load, heard, spoilt>>
  BY DEF BoardExecutes
<1>2. /\ input \in Seq({"line", "question"}) /\ saying \in Seq(Sayings) /\ Len(input) <= Room
      /\ Len(input) \in Nat /\ Room \in Nat
  BY ConsoleFacts DEF ConsoleInv, ConsoleTypeOK, Sayings
<1>3. PICK x : /\ saying' = saying \/ (x \in Sayings /\ saying' = Append(saying, x))
               /\ x # "xoff"
               /\ load.by = "prompts" => x # "xon"
               /\ load.by # "prompts" => x = "xon" /\ (saying' = saying \/ Len(input) = Room)
               /\ x = "answer" => Head(input) # "line"
  <2>1. saying' \in
          IF load.by # "prompts"
          THEN {IF Len(input) = Room THEN Append(saying, "xon") ELSE saying}
          ELSE IF Head(input) = "line" THEN {saying, Append(saying, "prompt")}
          ELSE {Append(saying, "answer"), Append(saying, "prompt")}
    BY DEF BoardExecutes
  <2>2. "xon" \in Sayings /\ "prompt" \in Sayings /\ "answer" \in Sayings
    BY DEF Sayings, Signals
  <2> QED
    BY <2>1, <2>2
<1>4. /\ Tail(input) \in Seq({"line", "question"}) /\ Len(Tail(input)) = Len(input) - 1
      /\ Head(input) \in {"line", "question"}
      /\ Without(input, {"question"}) =>
           Without(Tail(input), {"question"}) /\ Head(input) # "question"
  BY <1>1, <1>2, OneLess
<1>5. /\ saying' \in Seq(Sayings)
      /\ Without(saying, {"answer"}) /\ x # "answer" => Without(saying', {"answer"})
      /\ ComplaintFirst(saying) => ComplaintFirst(saying')
  <2>1. CASE saying' = saying
    BY <1>2, <2>1 DEF Without, ComplaintFirst
  <2>2. CASE x \in Sayings /\ saying' = Append(saying, x)
    <3>1. /\ Append(saying, x) \in Seq(Sayings)
          /\ Without(Append(saying, x), {"answer"}) <=> Without(saying, {"answer"}) /\ x # "answer"
          /\ ComplaintFirst(saying) => ComplaintFirst(Append(saying, x))
      BY <1>2, <2>2, OneMore
    <3> QED
      BY <2>2, <3>1
  <2> QED
    BY <1>3, <2>1, <2>2
<1>6. /\ input' \in Seq({"line", "question"}) /\ Len(input') <= Room /\ Len(input') < Room
  BY <1>1, <1>2, <1>4
<1>7. ConsoleTypeOK'
  BY <1>1, <1>5, <1>6 DEF ConsoleInv, ConsoleTypeOK, Sayings
<1>8. NothingAsked'
  BY <1>1, <1>3, <1>4, <1>5 DEF ConsoleInv, NothingAsked
<1>9. ComplaintComesFirst'
  BY <1>1, <1>5 DEF ConsoleInv, ComplaintComesFirst
<1> QED
  BY <1>1, <1>6, <1>7, <1>8, <1>9 DEF ConsoleInv, LeaveMeansRoom, LoadedIsWhole

\* What arrives is the oldest of what was said.
LEMMA ArrivesKeeps == ConsoleInv /\ Arrives => ConsoleInv'
<1> SUFFICES ASSUME ConsoleInv, Arrives PROVE ConsoleInv'
  OBVIOUS
<1>1. /\ saying # <<>> /\ saying' = Tail(saying) /\ UNCHANGED <<load, input, spoilt>>
  BY DEF Arrives
<1>2. saying \in Seq(Sayings) /\ heard \in Hearing
  BY DEF ConsoleInv, ConsoleTypeOK, Sayings, Hearing
<1>3. /\ Tail(saying) \in Seq(Sayings) /\ Head(saying) \in Sayings
      /\ Without(saying, {"answer"}) => Without(Tail(saying), {"answer"}) /\ Head(saying) # "answer"
      /\ Without(Tail(saying), Signals) =>
           IF Head(saying) \in Signals THEN Head(saying) # "xon" \/ LastIsLeave(saying)
           ELSE Without(saying, Signals)
      /\ ComplaintFirst(saying) =>
           Head(saying) # "answer" /\ (Head(saying) = "complaint" \/ ComplaintFirst(Tail(saying)))
      /\ LastIsLeave(Tail(saying)) => LastIsLeave(saying)
  BY <1>1, <1>2, OneLess
<1>4. /\ heard' \in Hearing
      /\ heard'.complained = (heard.complained \/ Head(saying) = "complaint")
      /\ heard'.answered = (heard.answered \/ Head(saying) = "answer")
      /\ heard'.flowing = IF Head(saying) \in Signals THEN Head(saying) = "xon" ELSE heard.flowing
  <2>1. CASE Head(saying) = "prompt"
    <3>1. heard' = [heard EXCEPT !.prompts = @ + 1]
      BY <2>1, Zenon DEF Arrives, Signals
    <3>2. PICK n \in Nat : n = heard.prompts + 1
      BY <1>2 DEF Hearing
    <3>3. heard' = [heard EXCEPT !.prompts = n]
      BY <3>1, <3>2
    <3> QED
      BY <1>2, <2>1, <3>3 DEF Hearing, Signals
  <2>2. CASE Head(saying) = "complaint"
    <3>1. heard' = [heard EXCEPT !.complained = TRUE, !.lately = TRUE]
      BY <2>2, Zenon DEF Arrives, Signals
    <3> QED
      BY <1>2, <2>2, <3>1 DEF Hearing, Signals
  <2>3. CASE Head(saying) = "answer"
    <3>1. heard' = [heard EXCEPT !.answered = TRUE]
      BY <2>3, Zenon DEF Arrives, Signals
    <3> QED
      BY <1>2, <2>3, <3>1 DEF Hearing, Signals
  <2>4. CASE Head(saying) \in Signals
    <3>1. heard' = [heard EXCEPT !.flowing = (Head(saying) = "xon")]
      BY <2>4 DEF Arrives, Signals
    <3> QED
      BY <1>2, <2>4, <3>1 DEF Hearing, Signals
  <2> QED
    BY <1>3, <2>1, <2>2, <2>3, <2>4 DEF Sayings
<1>5. ConsoleTypeOK'
  BY <1>1, <1>3, <1>4 DEF ConsoleInv, ConsoleTypeOK, Sayings, Hearing
<1>6. NothingAsked'
  BY <1>1, <1>3, <1>4 DEF ConsoleInv, NothingAsked
<1>7. ComplaintComesFirst'
  BY <1>1, <1>3, <1>4 DEF ConsoleInv, ComplaintComesFirst
<1>8. LeaveMeansRoom'
  BY <1>1, <1>3, <1>4 DEF ConsoleInv, LeaveMeansRoom
<1> QED
  BY <1>1, <1>5, <1>6, <1>7, <1>8 DEF ConsoleInv, LoadedIsWhole

\* By cable a chunk is sent when the last the board said allows it.
LEMMA SendChunkKeeps == ConsoleInv /\ SendChunk => ConsoleInv'
<1> SUFFICES ASSUME ConsoleInv, SendChunk PROVE ConsoleInv'
  OBVIOUS
<1>1. /\ load.step = "paste" /\ heard.flowing /\ TakesChunk /\ UNCHANGED heard
      /\ load.by = "cable" => Without(saying, Signals)
      /\ load' = [load EXCEPT !.block = @ + 1,
                              !.step = IF load.block = Len(Blocks) THEN "settle" ELSE @]
  BY DEF SendChunk, Without
<1>2. /\ load \in Loads /\ heard \in Hearing /\ load.by \in {"cable", "radio"}
      /\ load.exit = "none" /\ (load.by = "cable" => ~spoilt)
      /\ input \in Seq({"line", "question"}) /\ saying \in Seq(Sayings) /\ spoilt \in BOOLEAN
      /\ Len(input) <= Room /\ Len(input) \in Nat /\ Room \in Nat
  BY <1>1, ConsoleFacts DEF ConsoleInv, ConsoleTypeOK, Loads, Hearing, Sayings, LoadedIsWhole
<1>3. load.by = "cable" => Len(input) < Room
  BY <1>1 DEF ConsoleInv, LeaveMeansRoom
<1>4. PICK n \in Nat \ {0} : n = load.block + 1
  BY <1>2 DEF Loads
<1>5. PICK s \in {"paste", "settle"} : s = IF load.block = Len(Blocks) THEN "settle" ELSE load.step
  BY <1>1
<1>6. load' = [load EXCEPT !.block = n, !.step = s]
  BY <1>1, <1>4, <1>5
<1>7. load' \in Loads /\ load'.step = s /\ load'.by = load.by /\ load'.exit = "none"
  BY <1>2, <1>6 DEF Loads
<1>8. CASE Len(input) < Room
  <2>1. /\ input' = Append(input, "line") /\ UNCHANGED spoilt
        /\ saying' = IF Len(input) + 1 = Room THEN Append(saying, "xoff") ELSE saying
    BY <1>1, <1>8 DEF TakesChunk
  <2>2. input' \in Seq({"line", "question"}) /\ Len(input') = Len(input) + 1
    BY <1>2, <2>1, OneMore
  <2>3. "xoff" \in Sayings /\ "xoff" \in Signals
    BY DEF Sayings, Signals
  <2>4. /\ Append(saying, "xoff") \in Seq(Sayings)
        /\ ~Without(Append(saying, "xoff"), Signals) /\ ~LastIsLeave(Append(saying, "xoff"))
    BY <1>2, <2>3, OneMore
  <2>5. saying' \in Seq(Sayings) /\ Len(input') <= Room
    BY <1>2, <1>8, <2>1, <2>2, <2>4
  <2>6. LastIsLeave(saying') \/ Without(saying', Signals) => Len(input') < Room
    BY <1>2, <1>8, <2>1, <2>2, <2>4
  <2>7. ConsoleTypeOK'
    BY <1>1, <1>2, <1>7, <2>1, <2>2, <2>5 DEF ConsoleTypeOK, Loads, Hearing, Sayings
  <2> QED
    BY <1>1, <1>2, <1>7, <2>1, <2>6, <2>7
    DEF ConsoleInv, NothingAsked, ComplaintComesFirst, LeaveMeansRoom, LoadedIsWhole
<1>9. CASE ~(Len(input) < Room)
  <2>1. /\ saying' \in {saying, Append(saying, "complaint")} /\ spoilt' = TRUE
        /\ UNCHANGED input /\ load.by = "radio"
    BY <1>1, <1>2, <1>3, <1>9 DEF TakesChunk
  <2>2. "complaint" \in Sayings
    BY DEF Sayings
  <2>3. saying' \in Seq(Sayings)
    BY <1>2, <2>1, <2>2, OneMore
  <2>4. ConsoleTypeOK'
    BY <1>1, <1>2, <1>7, <2>1, <2>3 DEF ConsoleTypeOK, Loads, Hearing, Sayings
  <2> QED
    BY <1>7, <2>1, <2>4
    DEF ConsoleInv, NothingAsked, ComplaintComesFirst, LeaveMeansRoom, LoadedIsWhole
<1> QED
  BY <1>8, <1>9

LEMMA ConsoleStepKeeps == ConsoleInv /\ ConsoleStep => ConsoleInv'
<1> SUFFICES ASSUME ConsoleInv, ConsoleStep PROVE ConsoleInv'
  OBVIOUS
<1>1. ASSUME NEW exit \in {"ok", "complained", "unanswered", "stalled"},
             NEW l, l = [Unloaded EXCEPT !.exit = exit]
      PROVE  l \in Loads /\ l.step = "over" /\ l.by = "prompts" /\ l.exit = exit
  BY <1>1, ConsoleFacts DEF Loads
<1>2. ASSUME LoadEnds PROVE ConsoleInv'
  <2>1. /\ load.step = "listen" /\ heard' = Silence /\ saying' = <<>> /\ input' = <<>>
        /\ UNCHANGED spoilt /\ load' = [Unloaded EXCEPT !.exit = Verdict]
    BY <1>2 DEF LoadEnds
  <2>2. Verdict \in {"ok", "complained", "unanswered", "stalled"}
    BY DEF Verdict
  <2>3. Verdict = "ok" => ~spoilt
    BY <2>1 DEF Verdict, ConsoleInv, ComplaintComesFirst
  <2>4. /\ load' \in Loads /\ load'.step = "over" /\ load'.by = "prompts"
        /\ load'.exit = Verdict
    BY <1>1, <2>1, <2>2
  <2> QED
    BY <2>1, <2>3, <2>4, LoadIsOver
<1>3. ASSUME UploadStalls PROVE ConsoleInv'
  <2>1. /\ heard' = Silence /\ saying' = <<>> /\ input' = <<>>
        /\ UNCHANGED spoilt /\ load' = [Unloaded EXCEPT !.exit = "stalled"]
    BY <1>3 DEF UploadStalls
  <2>2. /\ load' \in Loads /\ load'.step = "over" /\ load'.by = "prompts"
        /\ load'.exit = "stalled"
    BY <1>1, <2>1
  <2> QED
    BY <2>1, <2>2, LoadIsOver
<1>4. ASSUME UploadEnds PROVE ConsoleInv'
  <2>1. /\ load.step = "settle" /\ heard' = Silence /\ saying' = <<>> /\ input' = <<>>
        /\ UNCHANGED spoilt
    BY <1>4 DEF UploadEnds
  <2>2. load.by \in {"cable", "radio"} /\ (load.by = "cable" => ~spoilt)
    BY <2>1 DEF ConsoleInv, ConsoleTypeOK, LoadedIsWhole
  <2>3. PICK exit \in {"ok", "complained", "unanswered", "stalled"},
             by \in {"prompts", "cable", "radio"} :
          by = load.by /\ load' = [Unloaded EXCEPT !.by = by, !.exit = exit]
    BY <1>4, <2>2 DEF UploadEnds
  <2>4. load' \in Loads /\ load'.step = "over" /\ load'.by = by
    BY <2>3, ConsoleFacts DEF Loads
  <2> QED
    BY <2>1, <2>2, <2>3, <2>4, LoadIsOver
<1> QED
  BY <1>2, <1>3, <1>4, SendLineKeeps, PacedKeeps, AskKeeps, BoardExecutesKeeps, ArrivesKeeps,
     SendChunkKeeps DEF ConsoleStep

----------------------------------------------------------------------------
\* The bench.

LEMMA LoadsKeep ==
  ASSUME BenchInv, NEW a \in Agents, BeginsLoad(a) \/ LoadRuns(a)
  PROVE  BenchInv'
<1> USE DEF BenchInv
<1>1. UNCHANGED <<storms, storm, storage, deploy>>
  BY DEF BeginsLoad, LoadRuns, storms
<1>2. ConsoleInv'
  BY LoadBegun, ConsoleStepKeeps DEF BeginsLoad, LoadRuns
<1>3. /\ LockInv' /\ UNCHANGED <<file, doing, holds, overridden>>
      /\ holds[a] /\ doing[a] = "nothing" /\ storm[a].step = "over" /\ deploy[a].step = "over"
      /\ job' \in [Agents -> {"none", "storm", "deploy", "load"}]
      /\ \A b \in Agents \ {a} : job'[b] = job[b]
  <2>1. CASE BeginsLoad(a)
    BY <2>1, BeginsFacts DEF BeginsLoad
  <2>2. CASE LoadRuns(a)
    <3> DEFINE over == load'.step = "over"
    <3>1. job[a] = "load" /\ Ends(a, over) /\ over \in BOOLEAN
      BY <2>2 DEF LoadRuns
    <3>2. storm[a].step = "over" /\ deploy[a].step = "over"
      BY <3>1 DEF JobsAreHeld
    <3> HIDE DEF over
    <3> QED
      BY <3>1, <3>2, EndsFacts
  <2> QED
    BY <2>1, <2>2
<1>4. StormInv' /\ DeployInv'
  BY <1>1, <1>3, WhatIsLeftAlone
<1>5. JobsAreHeld'
  BY <1>1, <1>3 DEF JobsAreHeld
<1> QED
  BY <1>2, <1>3, <1>4, <1>5

LEMMA BenchBegins == Init => BenchInv
<1> SUFFICES ASSUME Init PROVE BenchInv
  OBVIOUS
<1>1. LockInit /\ StormInit /\ DeployInit /\ ConsoleInit /\ job = [a \in Agents |-> "none"]
  BY DEF Init
<1>2. LockInv
  BY LockBegins
<1>3. storm = [a \in Agents |-> NoStorm] /\ caps = UsualCap /\ scanning = Enabled /\ on = On
      /\ notUndone = FALSE
  BY <1>1 DEF StormInit
<1>4. StormInv
  BY <1>3, NoStormFacts, HostAssumption DEF StormInv, StormTypeOK, HostIsKnown
<1>5. storage = [f \in Files |-> Absent] /\ deploy = [a \in Agents |-> Idle]
  BY <1>1 DEF DeployInit
<1>6. DeployInv
  BY <1>5, IdleFacts DEF DeployInv, DeployTypeOK, StoredIsWhole, Contents
<1>7. JobsAreHeld
  BY <1>1, <1>3, <1>5, NoStormFacts, IdleFacts DEF JobsAreHeld
<1>8. load = Unloaded /\ heard = Silence /\ input = <<>> /\ saying = <<>> /\ spoilt = FALSE
  BY <1>1 DEF ConsoleInit
<1>9. ConsoleTypeOK
  <2>1. /\ load \in Loads /\ heard \in Hearing /\ input \in Seq({"line", "question"})
        /\ saying \in Seq(Sayings) /\ spoilt \in BOOLEAN /\ load.step = "over"
    BY <1>8, ConsoleFacts
  <2>2. Len(input) <= Room
    BY <1>8, ConsoleFacts
  <2> QED
    BY <2>1, <2>2 DEF ConsoleTypeOK, Loads, Hearing, Sayings
<1>10. ConsoleInv
  BY <1>8, <1>9, ConsoleFacts
  DEF ConsoleInv, NothingAsked, ComplaintComesFirst, LeaveMeansRoom, LoadedIsWhole
<1> QED
  BY <1>2, <1>4, <1>6, <1>7, <1>10 DEF BenchInv

LEMMA BenchKeeps == BenchInv /\ [Next]_bench => BenchInv'
<1> SUFFICES ASSUME BenchInv, [Next]_bench PROVE BenchInv'
  OBVIOUS
<1>1. CASE UNCHANGED bench
  <2>1. UNCHANGED <<lock, storms, board, console, job>>
    BY <1>1 DEF bench
  <2>2. UNCHANGED <<doing, holds, overridden, storm, storage, deploy, job>>
    BY <2>1 DEF lock, storms, board
  <2>3. JobsAreHeld'
    BY <2>2 DEF BenchInv, JobsAreHeld
  <2> QED
    BY <2>1, <2>2, <2>3, WhatIsLeftAlone DEF BenchInv
<1> QED
  BY <1>1, TimeKeeps, LocksKeeps, CrashKeeps, BeginsStormKeeps, StormRunsKeeps,
     BeginsDeployKeeps, DeployRunsKeeps, LoadsKeep DEF Next

LEMMA BenchAlways == Spec => []BenchInv
BY BenchBegins, BenchKeeps, PTL DEF Spec

\* Whatever the agents run and whichever of them dies, until a lease runs out or
\* is taken by force one at most was told that the bench is its own, and it is
\* its name that is in the file (cmd_acquire, cmd_renew and cmd_release).
THEOREM TheBenchIsOnes == Spec => []OneAgentAtATime
<1>1. BenchInv => OneAgentAtATime
  <2> SUFFICES ASSUME BenchInv, ~overridden, NEW a \in Agents, holds[a]
               PROVE  /\ file # NoLock /\ (Readable => IsMine(a))
                      /\ \A b \in Agents \ {a} : ~holds[b] /\ doing[b] # "fill"
    BY DEF OneAgentAtATime
  <2>1. LockIsOnes
    BY DEF BenchInv, LockInv
  <2>2. \A b \in Agents \ {a} : ~holds[b] /\ doing[b] # "fill"
    BY <2>1 DEF LockIsOnes
  <2>3. CASE doing[a] = "fill"
    BY <2>1, <2>2, <2>3, LockAssumption DEF LockIsOnes, Readable
  <2>4. CASE Readable /\ IsMine(a)
    BY <2>2, <2>4 DEF Readable
  <2> QED
    BY <2>1, <2>3, <2>4 DEF LockIsOnes
<1> QED
  BY <1>1, BenchAlways, PTL

\* Whatever a storm was doing when it ended, Home Assistant has its scanners and
\* its switches back, and each entry its cap or the fallback of 2, unless
\* something is known to have been lost (the finally of slot_storm.py).
THEOREM TheHostIsRestored == Spec => []TheHostIsPutBack
<1>1. BenchInv => TheHostIsPutBack
  BY DEF BenchInv, StormInv, HostIsKnown, TheHostIsPutBack, MayBeTheCaps
<1> QED
  BY <1>1, BenchAlways, PTL

\* A deployment that ended well left every module its sketch needs whole on the
\* board, for any graph of modules, any number of statements and attempts, and
\* any loss on the console (collect, store and run of espruino_deploy.py).
THEOREM DeployedMeansWhole == Spec => []TestsRunOnTheirOwnCode
<1>1. BenchInv => TestsRunOnTheirOwnCode
  BY DEF BenchInv, DeployInv, StoredIsWhole, TestsRunOnTheirOwnCode
<1> QED
  BY <1>1, BenchAlways, PTL

\* No load of any sketch into an input of any size is called a success with a
\* line lost, and by cable none is ever lost (espruino_ble.py, espruino_upload.py).
THEOREM LoadsAreVerified == Spec => []LoadedIsWhole
<1>1. BenchInv => LoadedIsWhole
  BY DEF BenchInv, ConsoleInv
<1> QED
  BY <1>1, BenchAlways, PTL
=============================================================================
