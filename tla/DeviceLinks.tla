------------------------------ MODULE DeviceLinks ------------------------------
(***************************************************************************)
(* The links of all devices (coordinator.py, _link): a task that wants to  *)
(* connect takes its device's turn first and a slot of the host second,    *)
(* and gives both back on every way out.  A turn is an asyncio.Lock: first *)
(* come, first served, whatever the task wants the link for.               *)
(*                                                                         *)
(* A caller of the slots is a task with a link to make; one that stands in *)
(* its device's line without being its head has not asked for a slot yet.  *)
(***************************************************************************)
EXTENDS ConnectionSlots

CONSTANTS
  Devices,   \* the devices of this host
  DeviceOf   \* DeviceOf[c]: the device that task c connects to

ASSUME DevicesAssumption == DeviceOf \in [Callers -> Devices]

VARIABLE turn   \* turn[d]: the line for d's _device lock, its holder first

linkVars == <<vars, turn>>

InLine(c) == \E i \in 1..Len(turn[DeviceOf[c]]) : turn[DeviceOf[c]][i] = c

HasTheTurn(c) == turn[DeviceOf[c]] # <<>> /\ Head(turn[DeviceOf[c]]) = c

LinkInit == Init /\ turn = [d \in Devices |-> <<>>]

JoinTheLine(c) == turn' = [turn EXCEPT ![DeviceOf[c]] = Append(@, c)]

\* Fault: the turn is never given back.
LeaveAndKeepTheTurn(c) == UNCHANGED turn

\* The turn ends when the task is back from the slots, whichever way.
LeaveTheTurn(c) ==
  turn' = IF pc'[c] = "away" THEN [turn EXCEPT ![DeviceOf[c]] = Tail(@)] ELSE turn

\* Fault: the host's slot first, and the device's turn after it.
AskAtOnce(c) == ~InLine(c) /\ JoinTheLine(c) /\ Acquire(c)

\* _link: a device nobody is connected to gives its turn at once, and the
\* slot is asked for in the same step; otherwise the task waits in line.
Ask(c) ==
  /\ ~InLine(c)
  /\ JoinTheLine(c)
  /\ IF turn[DeviceOf[c]] = <<>> THEN Acquire(c) ELSE UNCHANGED vars

\* The lock comes to a task that waited for it.
GetTheTurn(c) == /\ pc[c] = "away" /\ HasTheTurn(c)
                 /\ Acquire(c)
                 /\ UNCHANGED turn

\* Cancelled in the line, the head that has not run yet included.
LeaveTheLine(c) ==
  /\ pc[c] = "away" /\ InLine(c)
  /\ turn' = [turn EXCEPT ![DeviceOf[c]] = Without(@, c)]
  /\ UNCHANGED vars

\* A task on its way through the slots, in and out.
MovesOn(c) == /\ HasTheTurn(c)
              /\ Wake(c) \/ Return(c) \/ LeaveQueue(c) \/ HandOn(c)
              /\ LeaveTheTurn(c)

IsCancelled(c) == HasTheTurn(c) /\ Cancel(c) /\ LeaveTheTurn(c)

\* The link is closed, or was never opened; _connect tells the host when it
\* found no connection free.
Disconnects(c) == HasTheTurn(c) /\ Release(c) /\ LeaveTheTurn(c)
ConnectFindsTheHostFull(c) == HasTheTurn(c) /\ HostIsFull(c) /\ LeaveTheTurn(c)

\* The caps the options form takes.
OptionsForm == 1..MaxLimit

HostMoves ==
  /\ \/ HoldOffEnds \/ Resume
     \/ \E e \in Entries : WithdrawRequest(e) \/ \E l \in OptionsForm : RegisterRequest(e, l)
  /\ UNCHANGED turn

LinkNext ==
  \/ \E c \in Callers : \/ Ask(c) \/ GetTheTurn(c) \/ LeaveTheLine(c) \/ MovesOn(c)
                        \/ IsCancelled(c) \/ Disconnects(c) \/ ConnectFindsTheHostFull(c)
  \/ HostMoves

LinkSpec == LinkInit /\ [][LinkNext]_linkVars

\* The event loop runs every task that is ready, the clock moves, timers
\* fire, and a connection that is open is closed some day.  Nobody is
\* obliged to ask for a connection, to cancel, to fail or to reconfigure.
LinkFairness ==
  /\ \A c \in Callers : /\ WF_linkVars(GetTheTurn(c)) /\ WF_linkVars(MovesOn(c))
                        /\ WF_linkVars(Disconnects(c) \/ ConnectFindsTheHostFull(c))
  /\ WF_linkVars(HoldOffEnds /\ UNCHANGED turn) /\ WF_linkVars(Resume /\ UNCHANGED turn)

FairLinkSpec == LinkSpec /\ LinkFairness

----------------------------------------------------------------------------
\* Two locks, always in this order (coordinator.py:755): whoever waits for a
\* slot, or has one, has its device's turn, so that no slot is held for a
\* device somebody else is connected to.
SlotsGoToWhoeverHasTheTurn == \A c \in Callers : pc[c] # "away" => HasTheTurn(c)

\* Housekeeping has the turn of c's device and waits for a slot behind
\* commands for other devices (decisions.md:8817).
BehindHousekeeping(c) ==
  LET h == Head(turn[DeviceOf[c]])
  IN InLine(c) /\ h \notin Commands /\ pc[h] = "waiting" /\ urgent # <<>>

\* Whoever has the turn of c's device waits until the host is said to have
\* connections again, which others may find it has not.
HostIsSaidFull(c) ==
  LET h == Head(turn[DeviceOf[c]]) IN InLine(c) /\ pc[h] = "cooling"

\* A command that wants a link gets one, or is cancelled: nobody waits for
\* each other, and nothing keeps it waiting but a full host, or housekeeping
\* of its own device that commands for other devices go before.
CommandsAreLinked ==
  \A c \in Commands :
    InLine(c) /\ pc[c] # "holding" ~>
      ~InLine(c) \/ pc[c] = "holding" \/ BehindHousekeeping(c) \/ HostIsSaidFull(c)
=============================================================================
