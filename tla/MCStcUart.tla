------------------------------ MODULE MCStcUart ------------------------------
(* Instances of StcUart with short frames, the shortest in mode 0, and a    *)
(* BRT of two values.                                                       *)
EXTENDS StcUart

ShortFrames == [m \in 0..3 |-> IF m = 0 THEN 1 ELSE 2]

=============================================================================
