------------------------------- MODULE Editor -------------------------------
(***************************************************************************)
(* What the shell of rt-thread/components/finsh/shell.c shows its user: a  *)
(* line of text with a cursor, edited, completed, recalled and run, and    *)
(* the last few commands that were run.                                    *)
(***************************************************************************)
EXTENDS Naturals, Sequences, SequencesExt

CONSTANTS
  Char,   \* what can be typed
  Names,  \* the command names, for completion
  Size,   \* a line of this many characters is discarded
  Past    \* the number of commands remembered

VARIABLES
  text, cursor,
  past,   \* the commands remembered, oldest first
  behind  \* how many of them lie before the one the up key steps back from

vars == <<text, cursor, past, behind>>

Init == text = << >> /\ cursor = 0 /\ past = << >> /\ behind = 0

Insert(ch) ==
  LET longer == InsertAt(text, cursor + 1, ch) IN
  /\ text' = IF Len(longer) < Size THEN longer ELSE << >>
  /\ cursor' = IF Len(longer) < Size THEN cursor + 1 ELSE 0
  /\ UNCHANGED <<past, behind>>

Erase ==
  /\ cursor > 0
  /\ text' = RemoveAt(text, cursor)
  /\ cursor' = cursor - 1
  /\ UNCHANGED <<past, behind>>

Left == cursor > 0 /\ cursor' = cursor - 1 /\ UNCHANGED <<text, past, behind>>
Right == cursor < Len(text) /\ cursor' = cursor + 1 /\ UNCHANGED <<text, past, behind>>

\* To the longest common beginning of the names that begin with the text.
Complete ==
  LET matches == {n \in Names : IsPrefix(text, n)} IN
  /\ text' = IF text = << >> \/ matches = {} THEN text
             ELSE LongestCommonPrefix(matches)
  /\ cursor' = Len(text')
  /\ UNCHANGED <<past, behind>>

Recall(i) ==
  /\ behind' = i
  /\ text' = past[i + 1] /\ cursor' = Len(text')
  /\ UNCHANGED past

\* One command back, or forward; behind the last one the last one stays.
Older == behind > 0 /\ Recall(behind - 1)
Newer ==
  /\ past # << >>
  /\ Recall(IF behind + 1 < Len(past) THEN behind + 1 ELSE Len(past) - 1)

Remembered(t) ==
  LET p == Append(past, t) IN IF Len(p) > Past THEN Tail(p) ELSE p

\* A command that is repeated need not be remembered twice; it may be when it
\* was typed where a discarded line had been.
Run ==
  /\ text' = << >> /\ cursor' = 0
  /\ \/ text # << >> /\ past' = Remembered(text)
     \/ /\ text = << >> \/ (past # << >> /\ Last(past) = text)
        /\ past' = past
  /\ behind' = Len(past')

Next ==
  \/ \E ch \in Char : Insert(ch)
  \/ Erase \/ Left \/ Right
  \/ Complete \/ Older \/ Newer \/ Run

Spec == Init /\ [][Next]_vars
=============================================================================
