------------------------------ MODULE MCStream ------------------------------
(* Instances of Stream for TLC: bytes are small numbers, 9 is the newline.   *)
EXTENDS Stream

\* Writes shorter than and longer than a buffer of 2, and with newlines at the
\* front, inside and at the end.
MCTwoInputs == {<<5>>, <<6, 5, 9>>}
MCInputs == MCTwoInputs \cup {<<9, 6>>}
MCOneByte == <<1>>
MCTwoBytes == <<1, 2>>
\* To the front, to where the stream is, and beyond.
MCOffsets == {-1, 0, 2}
=============================================================================
