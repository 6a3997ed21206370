----------------------------- MODULE MCAtClient -----------------------------
(* Two callers, one that waits for OK and one that asks for one line with a  *)
(* smaller buffer.  One answer has a line that fits into neither response    *)
(* in front of lines that do, so that the larger one may be left with a hole *)
(* in the answer.  Lengths and sizes are to scale: the shortest line is 1.   *)
EXTENDS AtClient

CONSTANTS a, b

OkOrOne == [c \in Callers |-> IF c = a THEN 0 ELSE 1]
Sizes == [c \in Callers |-> IF c = a THEN 4 ELSE 2]
Answered == {<<4, 1, 1>>}
Lengths == [kind \in {"ok", "error", "urc", "other"} |-> IF kind = "error" THEN 2 ELSE 1]
=============================================================================
