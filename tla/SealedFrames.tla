----------------------------- MODULE SealedFrames -----------------------------
(***************************************************************************)
(* Sealed payloads (protocol.py, gen_test_vectors.py): one framing, cipher *)
(* text || counter || MIC, for three directions that only the nonce tells  *)
(* apart.  The cipher is taken for what AES-CCM promises: a frame opens    *)
(* under the key and the nonce it was sealed with, and no others, and not  *)
(* when it was changed on the way.                                         *)
(***************************************************************************)
EXTENDS Integers, Sequences, SequencesExt

Write == 255
Read == 254

Nonce(mac, info, counter) == <<mac, info, counter>>

\* seal: what is sealed, and the counter in clear beside it.
Seal(plain, key, mac, info, counter) ==
  [plain |-> plain, key |-> key, nonce |-> Nonce(mac, info, counter),
   counter |-> counter, whole |-> TRUE]

\* A payload too short for its framing, or changed on the way.
Spoilt(frame) == [frame EXCEPT !.whole = FALSE]

\* _open: whether a frame authenticates, read under a direction.
Opens(frame, key, mac, info) ==
  frame.whole /\ frame.key = key /\ frame.nonce = Nonce(mac, info, frame.counter)

\* Fault: the address in the packet is taken in the order it travels.
AddressAsTransmitted(carried, heardFrom) ==
  IF carried = <<>> THEN heardFrom ELSE carried

\* nonce_address: the one in the packet, which travels backwards, or the one
\* the packet was heard from.
NonceAddress(carried, heardFrom) ==
  IF carried = <<>> THEN heardFrom ELSE Reverse(carried)

\* open_counter_report: the answer to this challenge, and to no other.
CounterReported(frame, key, mac, challenge, none) ==
  IF /\ Opens(frame, key, mac, Read)
     /\ Len(frame.plain) = Len(challenge) + 1
     /\ SubSeq(frame.plain, 1, Len(challenge)) = challenge
  THEN frame.plain[Len(frame.plain)]
  ELSE none
=============================================================================
