------------------------------ MODULE Storage -------------------------------
(***************************************************************************)
(* What may become of a payload between the encoder and the decoder: it is *)
(* stored intact, cut, extended by one digit, or one digit is changed.     *)
(***************************************************************************)
EXTENDS CoderConstants

Truncated(bytes) == { SubSeq(bytes, 1, n) : n \in 0 .. Len(bytes) - 1 }
Extended(bytes)  == { Append(bytes, d) : d \in Digit }
Changed(bytes)   == { [bytes EXCEPT ![i] = d] : i \in DOMAIN bytes, d \in Digit }
Delivered(bytes) == {bytes} \cup Truncated(bytes) \cup Extended(bytes) \cup Changed(bytes)
=============================================================================
