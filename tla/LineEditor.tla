----------------------------- MODULE LineEditor -----------------------------
(***************************************************************************)
(* The line editor of the shell: finsh_thread_entry of                     *)
(* rt-thread/components/finsh/shell.c with its command history and the     *)
(* completion of msh.c.  In this tree the shell thread handles one         *)
(* character per dispatch and returns, so everything an unfinished line    *)
(* needs is in struct finsh_shell, and a character is one step.            *)
(*                                                                         *)
(* The shell is modelled after its first prompt.  What it prints is left   *)
(* out.                                                                    *)
(***************************************************************************)
EXTENDS Naturals, Sequences, FiniteSets, SequencesExt

CONSTANTS
  Size,   \* FINSH_CMD_SIZE
  Lines,  \* FINSH_HISTORY_LINES
  Char,   \* the characters of a line; the final ones of the arrow keys may be
          \* among them
  Names,  \* the names of the commands
  Nul

ASSUME LineEditorAssumption ==
  /\ Size \in Nat \ {0, 1} /\ Lines \in Nat \ {0}
  /\ Nul \notin Char
  /\ \A n \in Names : n \in Seq(Char) /\ 0 < Len(n) /\ Len(n) < Size

VARIABLES
  \* struct finsh_shell
  stat, line, line_position, line_curpos,
  cmd_history, history_count, current_history,
  \* history
  discarded,  \* a line that became too long is still in the buffer
  lost        \* the editor has read past the end of its buffer

shell == <<line, line_position, line_curpos>>
commands == <<cmd_history, history_count, current_history>>
shellVars == <<stat, shell, commands, discarded, lost>>

Cells == 0 .. Size - 1
Empty == [i \in Cells |-> Nul]

EditorInit ==
  /\ stat = "WAIT_NORMAL"
  /\ line = Empty /\ line_position = 0 /\ line_curpos = 0
  /\ cmd_history = [i \in 0 .. Lines - 1 |-> Empty]
  /\ history_count = 0 /\ current_history = 0
  /\ discarded = FALSE /\ lost = FALSE

Holes(l) == {i \in Cells : l[i] = Nul}
Bounded(l) == Holes(l) # {}
\* strlen; it runs on behind a buffer without a NUL.
StrLen(l) == CHOOSE i \in Holes(l) : \A j \in Holes(l) : i <= j
Text(l, n) == [i \in 1..n |-> l[i - 1]]

-----------------------------------------------------------------------------
(* Escape sequences.                                                       *)

Arrows == {"A", "B", "C", "D"}

Escape ==
  /\ stat' = "WAIT_SPEC_KEY"
  /\ UNCHANGED <<shell, commands, discarded, lost>>

Bracket ==
  /\ stat = "WAIT_SPEC_KEY"
  /\ stat' = "WAIT_FUNC_KEY"
  /\ UNCHANGED <<shell, commands, discarded, lost>>

\* Any other character ends the sequence and counts as itself.
Itself(ch) ==
  /\ ~(stat = "WAIT_SPEC_KEY" /\ ch = "[")
  /\ ~(stat = "WAIT_FUNC_KEY" /\ ch \in Arrows)
  /\ stat' = "WAIT_NORMAL"

Arrow == stat = "WAIT_FUNC_KEY" /\ stat' = "WAIT_NORMAL"

\* NUL, which is also what finsh_getchar returns when no character has come, and
\* 0xFF.
Ignored == Itself(Nul) /\ UNCHANGED <<shell, commands, discarded, lost>>

ShowHistory(i) ==
  /\ current_history' = i
  /\ line' = cmd_history[i]
  /\ line_position' = StrLen(line') /\ line_curpos' = line_position'
  /\ discarded' = FALSE
  /\ UNCHANGED <<cmd_history, history_count, lost>>

Up ==
  /\ Arrow
  /\ \/ current_history > 0 /\ ShowHistory(current_history - 1)
     \/ current_history = 0 /\ UNCHANGED <<shell, commands, discarded, lost>>

Down ==
  /\ Arrow
  /\ \/ /\ history_count # 0
        /\ ShowHistory(IF current_history < history_count - 1
                         THEN current_history + 1 ELSE history_count - 1)
     \/ history_count = 0 /\ UNCHANGED <<shell, commands, discarded, lost>>

MoveCursor(n) ==
  /\ line_curpos' = n
  /\ UNCHANGED <<line, line_position, commands, discarded, lost>>

Left ==
  /\ Arrow
  /\ MoveCursor(IF line_curpos > 0 THEN line_curpos - 1 ELSE 0)

Right ==
  /\ Arrow
  /\ MoveCursor(IF line_curpos < line_position THEN line_curpos + 1 ELSE line_curpos)

-----------------------------------------------------------------------------
(* Editing.                                                                *)

\* msh_auto_complete writes the longest common beginning of the names that
\* begin with the line over it, and no NUL behind.
Completed ==
  LET typed == Text(line, IF Bounded(line) THEN StrLen(line) ELSE Size)
      matches == {n \in Names : IsPrefix(typed, n)}
      name == LongestCommonPrefix(matches)
  IN IF typed = << >> \/ matches = {} THEN line
     ELSE [i \in Cells |-> IF i < Len(name) THEN name[i + 1] ELSE line[i]]

\* The tab key.  When no NUL is left in the buffer the positions become
\* whatever follows it in memory, and the model ends.
Tab ==
  /\ Itself("TAB")
  /\ line' = Completed
  /\ \/ /\ Bounded(line')
        /\ line_position' = StrLen(line') /\ line_curpos' = line_position'
        /\ UNCHANGED lost
     \/ /\ ~Bounded(line')
        /\ lost' = TRUE
        /\ UNCHANGED <<line_position, line_curpos>>
  /\ UNCHANGED <<commands, discarded>>

Backspace ==
  LET position == line_position - 1
      curpos == line_curpos - 1
  IN /\ Itself("BS") /\ line_curpos > 0
     /\ line_position' = position /\ line_curpos' = curpos
     /\ line' = [i \in Cells |->
                   IF i = position THEN Nul
                   ELSE IF curpos <= i /\ i < position THEN line[i + 1]
                   ELSE line[i]]
     /\ UNCHANGED <<commands, discarded, lost>>

BackspaceAtStart ==
  Itself("BS") /\ line_curpos = 0 /\ UNCHANGED <<shell, commands, discarded, lost>>

Padded == [i \in Cells |-> IF i < line_position THEN line[i] ELSE Nul]

\* Variant: with the history full, the oldest command is overwritten in place.
BadPushHistory ==
  /\ cmd_history' =
       IF history_count < Lines THEN [cmd_history EXCEPT ![history_count] = Padded]
       ELSE [cmd_history EXCEPT ![0] = Padded]
  /\ history_count' = IF history_count < Lines THEN history_count + 1 ELSE Lines
  /\ current_history' = history_count'

\* shell_push_history: the whole buffer is compared, the text is stored.
PushHistory ==
  LET full == history_count >= Lines
      latest == IF full THEN Lines - 1 ELSE history_count - 1
      new == line_position # 0 /\ (history_count = 0 \/ cmd_history[latest] # line)
  IN
  /\ cmd_history' =
       IF ~new THEN cmd_history
       ELSE IF full
         THEN [i \in 0 .. Lines - 1 |->
                 IF i = Lines - 1 THEN Padded ELSE cmd_history[i + 1]]
         ELSE [cmd_history EXCEPT ![history_count] = Padded]
  /\ history_count' = IF new /\ ~full THEN history_count + 1 ELSE history_count
  /\ current_history' = history_count'

\* Variant: only the positions are reset.
BadEnter ==
  /\ Itself("CR")
  /\ PushHistory
  /\ line_position' = 0 /\ line_curpos' = 0
  /\ discarded' = FALSE /\ UNCHANGED <<line, lost>>

\* The command is remembered, run, and the buffer cleared.
Enter ==
  /\ Itself("CR")
  /\ PushHistory
  /\ line' = Empty /\ line_position' = 0 /\ line_curpos' = 0
  /\ discarded' = FALSE /\ UNCHANGED lost

\* Variant: the line is discarded one character later.
BadTooLong(position) == position > Size

TooLong(position) == position >= Size

\* A character goes in at the cursor.  A line that fills the buffer is
\* discarded by setting the positions back; the buffer keeps it.
Type(ch) ==
  /\ Itself(ch)
  /\ line' = IF line_curpos < line_position
               THEN [i \in Cells |->
                       IF i = line_curpos THEN ch
                       ELSE IF line_curpos < i /\ i <= line_position THEN line[i - 1]
                       ELSE line[i]]
               ELSE [line EXCEPT ![line_position] = ch]
  /\ IF TooLong(line_position + 1)
       THEN line_position' = 0 /\ line_curpos' = 0 /\ discarded' = TRUE
       ELSE /\ line_position' = line_position + 1
            /\ line_curpos' = line_curpos + 1
            /\ UNCHANGED discarded
  /\ UNCHANGED <<commands, lost>>

EditorNext ==
  /\ ~lost
  /\ \/ Escape \/ Bracket \/ Ignored
     \/ Up \/ Down \/ Left \/ Right
     \/ Tab \/ Backspace \/ BackspaceAtStart \/ Enter
     \/ \E ch \in Char : Type(ch)

EditorSpec == EditorInit /\ [][EditorNext]_shellVars

-----------------------------------------------------------------------------
(* Properties.                                                             *)

\* The cursor is in the text and the text in the buffer, with room for the
\* character shell.c:565-589 stores next, whatever is typed, completed and
\* recalled; history_count and current_history index cmd_history.
ShellTypeOK ==
  /\ stat \in {"WAIT_NORMAL", "WAIT_SPEC_KEY", "WAIT_FUNC_KEY"}
  /\ line \in [Cells -> Char \cup {Nul}]
  /\ line_position \in Cells /\ line_curpos \in 0 .. line_position
  /\ cmd_history \in [0 .. Lines - 1 -> [Cells -> Char \cup {Nul}]]
  /\ history_count \in 0 .. Lines /\ current_history \in 0 .. history_count
  /\ discarded \in BOOLEAN /\ lost \in BOOLEAN

\* Nothing but the rest of a line that was discarded takes the NUL out of the
\* buffer that strlen at shell.c:488 looks for: running a command and
\* recalling one make the editor safe again.
LostOnlyByDiscard == lost \/ ~Bounded(line) => discarded

\* What the user sees, and the commands he can recall.
Shown == Text(line, line_position)
Recallable ==
  [i \in 1 .. history_count |-> Text(cmd_history[i - 1], StrLen(cmd_history[i - 1]))]

Screen == INSTANCE Editor
  WITH text <- Shown, cursor <- line_curpos,
       past <- Recallable, behind <- current_history, Past <- Lines

\* The buffer, its positions and the history implement the line the user sees
\* and the commands he can recall, also behind a discarded line.
IsEditor == Screen!Spec
=============================================================================
