----------------------------- MODULE ConsoleLoad -----------------------------
(* A sketch sent to a board's console, and the verdict on it, which rests   *)
(* on what the console said.  tools/espruino_ble.py sends it a block at a   *)
(* time, paced by the prompts the board writes, or by patience.             *)
(* tools/espruino_upload.py sends it in chunks, held back by XOFF and XON,  *)
(* by cable or by radio.  What the board says arrives in order and late,    *)
(* and not at all once the link is closed.                                  *)
EXTENDS Naturals, Sequences

CONSTANTS
    Blocks,  \* the sketch, as the number of lines of each of its blocks; an
             \* upload sends as many chunks as there are blocks
    Room     \* the lines the board's input holds

ASSUME ConsoleAssumption == Room \in Nat \ {0} /\ Blocks \in Seq(Nat \ {0})

VARIABLES
    load,    \* the sender: its step, block and line, the prompts it waits for
    heard,   \* what it has heard: prompts, a complaint, the answer it expects,
             \* whether it may send
    input,   \* what the board has received and not executed
    saying,  \* what it has said that has not arrived
    spoilt   \* a line of this load found no room

console == <<load, heard, input, saying, spoilt>>

Silence == [prompts |-> 0, complained |-> FALSE, lately |-> FALSE, answered |-> FALSE,
            flowing |-> TRUE]
Unloaded == [step |-> "over", by |-> "prompts", block |-> 1, line |-> 1, wanted |-> 0, exit |-> "none"]

ConsoleInit ==
    /\ load = Unloaded
    /\ heard = Silence
    /\ input = <<>>
    /\ saying = <<>>
    /\ spoilt = FALSE

(* run() up to the load: the console may still hold a prompt, or what       *)
(* another sketch complained of, sooner or later than the load begins.      *)
LoadBegins ==
    /\ load.step = "over"
    /\ load' = [Unloaded EXCEPT !.step = "send"]
    /\ \E earlier \in BOOLEAN : heard' = [Silence EXCEPT !.complained = earlier]
    /\ saying' \in {<<>>, <<"prompt">>, <<"complaint">>}
    /\ input' = <<>>
    /\ spoilt' = FALSE

Receives(what) ==
    IF Len(input) < Room
    THEN input' = Append(input, what) /\ UNCHANGED <<saying, spoilt>>
    ELSE saying' = Append(saying, "complaint") /\ spoilt' = TRUE /\ UNCHANGED input

SendLine ==
    /\ load.step = "send" /\ load.block <= Len(Blocks)
    /\ Receives("line")
    /\ load' = [load EXCEPT !.line = @ + 1,
                            !.wanted = IF load.line = 1 THEN heard.prompts + Blocks[load.block] ELSE @,
                            !.step = IF load.line = Blocks[load.block] THEN "wait" ELSE @]
    /\ UNCHANGED heard

(* The next block, once the prompts of this one have come or patience ends; *)
(* a complaint stops the sending.                                           *)
Paced ==
    /\ load.step = "wait"
    /\ load' = IF heard.prompts < load.wanted /\ heard.lately
               THEN [load EXCEPT !.step = "ask"]
               ELSE [load EXCEPT !.block = @ + 1, !.line = 1,
                                 !.step = IF load.block = Len(Blocks) THEN "ask" ELSE "send"]
    /\ UNCHANGED <<heard, input, saying, spoilt>>

Ask ==
    /\ load.step = "ask"
    /\ Receives("question")
    /\ load' = [load EXCEPT !.step = "listen"]
    /\ UNCHANGED heard

(* The prompt comes when a statement is complete; the answer to a question  *)
(* may be the one expected though a part of the sketch is missing.          *)
BoardExecutes ==
    /\ input # <<>>
    /\ input' = Tail(input)
    /\ saying' \in
          IF load.by # "prompts"
          THEN {IF Len(input) = Room THEN Append(saying, "xon") ELSE saying}
          ELSE IF Head(input) = "line" THEN {saying, Append(saying, "prompt")}
          ELSE {Append(saying, "answer"), Append(saying, "prompt")}
    /\ UNCHANGED <<load, heard, spoilt>>

Signals == {"xoff", "xon"}

Arrives ==
    /\ saying # <<>> /\ load.step # "over"
    /\ saying' = Tail(saying)
    /\ heard' = CASE Head(saying) = "prompt"    -> [heard EXCEPT !.prompts = @ + 1]
                  [] Head(saying) = "complaint" -> [heard EXCEPT !.complained = TRUE, !.lately = TRUE]
                  [] Head(saying) = "answer"    -> [heard EXCEPT !.answered = TRUE]
                  [] Head(saying) \in Signals   -> [heard EXCEPT !.flowing = (Head(saying) = "xon")]
    /\ UNCHANGED <<load, input, spoilt>>

(* Fault: the complaints are those that stopped the sending. *)
VerdictWhileSending ==
    IF ~heard.answered THEN "unanswered"
    ELSE IF load.block <= Len(Blocks) THEN "complained" ELSE "ok"

(* What run() returns, with --expect. *)
Verdict ==
    IF ~heard.answered THEN "unanswered" ELSE IF heard.complained THEN "complained" ELSE "ok"

LoadEnds ==
    /\ load.step = "listen"
    /\ load' = [Unloaded EXCEPT !.exit = Verdict]
    /\ heard' = Silence /\ saying' = <<>> /\ input' = <<>>
    /\ UNCHANGED spoilt

(* send_sketch up to the sketch itself: the board is interrupted and reset, *)
(* the console cleared.                                                     *)
UploadBegins ==
    /\ load.step = "over"
    /\ \E by \in {"cable", "radio"} : load' = [Unloaded EXCEPT !.step = "paste", !.by = by]
    /\ heard' = Silence
    /\ saying' \in {<<>>, <<"complaint">>}
    /\ input' = <<>>
    /\ spoilt' = FALSE

(* The board holds the sender back once its input is full.  A chunk that is *)
(* lost may or may not be complained of in words that main() looks for.     *)
TakesChunk ==
    IF Len(input) < Room
    THEN /\ input' = Append(input, "line") /\ UNCHANGED spoilt
         /\ saying' = IF Len(input) + 1 = Room THEN Append(saying, "xoff") ELSE saying
    ELSE /\ saying' \in {saying, Append(saying, "complaint")} /\ spoilt' = TRUE
         /\ UNCHANGED input

(* By cable the console is read before each chunk, and a signal is there at *)
(* once; by radio it comes when it comes.                                   *)
SendChunk ==
    /\ load.step = "paste" /\ heard.flowing
    /\ load.by = "cable" => \A i \in 1..Len(saying) : saying[i] \notin Signals
    /\ TakesChunk
    /\ load' = [load EXCEPT !.block = @ + 1,
                            !.step = IF load.block = Len(Blocks) THEN "settle" ELSE @]
    /\ UNCHANGED heard

(* Thirty seconds without leave to send. *)
UploadStalls ==
    /\ load.step = "paste" /\ ~heard.flowing
    /\ load' = [Unloaded EXCEPT !.exit = "stalled"]
    /\ heard' = Silence /\ saying' = <<>> /\ input' = <<>>
    /\ UNCHANGED spoilt

(* What main() returns: nothing is asked, so a complaint may still be on    *)
(* its way.                                                                 *)
UploadEnds ==
    /\ load.step = "settle"
    /\ load' = [Unloaded EXCEPT !.by = load.by,
                                !.exit = IF heard.complained THEN "complained" ELSE "ok"]
    /\ heard' = Silence /\ saying' = <<>> /\ input' = <<>>
    /\ UNCHANGED spoilt

ConsoleStep == SendLine \/ Paced \/ Ask \/ BoardExecutes \/ Arrives \/ LoadEnds
               \/ SendChunk \/ UploadStalls \/ UploadEnds

(* ------------------------------ properties ------------------------------ *)

(* "A load is verified or it is nothing" (tools/espruino_ble.py:31): when   *)
(* the command succeeds, no line of the sketch was lost -- though the       *)
(* sender runs on past its patience, prompts it did not provoke count for   *)
(* its own, and a complaint may come after the last block, because what the *)
(* board says arrives in the order it says it.  An upload proves nothing in *)
(* the end, but by cable it never outruns the board.                        *)
LoadedIsWhole ==
    /\ load.exit = "ok" /\ load.by = "prompts" => ~spoilt
    /\ load.by = "cable" => ~spoilt
=============================================================================
