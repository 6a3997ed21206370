----------------------------- MODULE MCBootEnv -----------------------------
(* Command lines by what they do: "boot -p <address>", the "boot" that is    *)
(* left of it, an empty line, which msh_exec takes for success, and a        *)
(* command with a void handler, whose result is whatever a register holds.   *)
EXTENDS BootEnv

CONSTANTS bootAt, boot, empty, printenv

MCCmd == {bootAt, boot, empty, printenv}
MCFirstWord == [c \in MCCmd |-> IF c = bootAt THEN boot ELSE c]
MCResult == [c \in MCCmd |->
  CASE c = bootAt -> {"jump"}
    [] c = boot -> {"error"}
    [] c = empty -> {"return"}
    [] c = printenv -> {"error", "return"}]
MCDelay == {-1, 0, 2}
=============================================================================
