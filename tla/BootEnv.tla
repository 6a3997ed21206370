------------------------------ MODULE BootEnv ------------------------------
(***************************************************************************)
(* The boot loader of Project/STM32F1_STD: the environment kept in one page *)
(* of flash (func/mem.c over drv_flash.c), the countdown of                 *)
(* applications/main.c, and the shell commands that change either.  The     *)
(* board may be reset, or lose power, at any step.                          *)
(*                                                                         *)
(* A field of the image stands for its words, in the order of the           *)
(* structure: bootdelay, bootcmd, magic and the rest of the page.  A page   *)
(* erase either happens or does not; a field whose programming is cut short *)
(* holds Torn, which is no value of that field.                             *)
(***************************************************************************)
EXTENDS Integers, Sequences

CONSTANTS
  Delay,          \* the countdowns considered, in seconds
  Cmd,            \* the command lines considered
  DefaultDelay,
  DefaultCmd,
  FirstWord,      \* a command line after msh has cut it into arguments
  Result,         \* what running a command line may do: "jump", "error", "return"
  Magic, Erased, Torn,
  MaxResets       \* bound on the resets in a behaviour

ASSUME BootAssumption ==
  /\ Delay \subseteq Int /\ DefaultDelay \in Delay
  /\ DefaultCmd \in Cmd
  /\ FirstWord \in [Cmd -> Cmd]
  /\ Result \in [Cmd -> SUBSET {"jump", "error", "return"}]
  /\ Erased # Magic /\ Torn # Magic
  /\ MaxResets \in Nat

VARIABLES
  flash,     \* the page at FLASH_SAVE_ADDR
  g,         \* g_param
  pc,        \* what the processor is doing
  pos,       \* the field being programmed
  ret,       \* where mem_param_update returns to: "count" or "shell"
  left,      \* bootdelay of main_loop
  firmware,  \* whether there is an application to jump to
  resets,
  known,     \* history: the environments the page may hold
  saved,     \* history: the last saveenv stored all of its image
  asked,     \* history: the command line last set or loaded
  cut        \* history: msh_exec has cut it since

vars == <<flash, g, pc, pos, ret, left, firmware, resets, known, saved, asked, cut>>

\* The magic word in front of the fields, and a length that ends before it.
BadLayout == <<"magic", "delay", "cmd", "rest">>
BadLength == <<"delay", "cmd">>

Layout == <<"delay", "cmd", "magic", "rest">>
Env == [delay : Delay, cmd : Cmd]
EnvOf(image) == [delay |-> image.delay, cmd |-> image.cmd]

\* No check of the magic word.
BadLoadable(image) == TRUE

Loadable(image) == image.magic = Magic
Blank == [delay |-> Erased, cmd |-> Erased, magic |-> Erased, rest |-> Erased]
Defaults == [delay |-> DefaultDelay, cmd |-> DefaultCmd]

Page == [delay : Delay \cup {Erased, Torn}, cmd : Cmd \cup {Erased, Torn},
         magic : {Magic, Erased, Torn}, rest : {Erased, Torn}]

BootInit ==
  /\ flash = Blank
  /\ g = Blank
  /\ pc = "load" /\ pos = 1 /\ ret = "count" /\ left = 0
  /\ firmware \in BOOLEAN
  /\ resets = 0
  /\ known = {} /\ saved = FALSE
  /\ asked = DefaultCmd /\ cut = FALSE

\* The countdown is not set.
BadWithDefaults(image) == [image EXCEPT !.cmd = DefaultCmd, !.magic = Magic]

\* mem_param_default_init leaves the rest of the page as it was read.
WithDefaults(image) ==
  [image EXCEPT !.delay = DefaultDelay, !.cmd = DefaultCmd, !.magic = Magic]

\* Entering mem_param_update with image in g_param.
StartUpdate(image, caller) ==
  /\ pc' = "erase"
  /\ ret' = caller
  /\ known' = {EnvOf(image)} \cup IF Loadable(flash) THEN {EnvOf(flash)} ELSE {}

\* mem_param_init.
LoadSaved ==
  /\ pc = "load"
  /\ Loadable(flash)
  /\ g' = flash
  /\ asked' = flash.cmd /\ cut' = FALSE
  /\ pc' = "count" /\ left' = flash.delay
  /\ UNCHANGED <<flash, pos, ret, firmware, resets, known, saved>>

LoadDefaults ==
  /\ pc = "load"
  /\ ~ Loadable(flash)
  /\ g' = WithDefaults(flash)
  /\ asked' = DefaultCmd /\ cut' = FALSE
  /\ StartUpdate(WithDefaults(flash), "count")
  /\ UNCHANGED <<flash, pos, left, firmware, resets, saved>>

\* mem_param_update returns, whatever happened, to the boot or to the shell.
Return ==
  /\ pc' = ret
  /\ left' = IF ret = "count" THEN g.delay ELSE 0

\* stm32_flash_erase of the page.
ErasePage ==
  /\ pc = "erase"
  /\ flash' = Blank
  /\ pc' = "program" /\ pos' = 1
  /\ UNCHANGED <<g, ret, left, firmware, resets, known, saved, asked, cut>>

\* The flash controller reports an error, with or without having erased.
EraseFails ==
  /\ pc = "erase"
  /\ flash' \in {flash, Blank}
  /\ Return
  /\ UNCHANGED <<g, pos, ret, firmware, resets, known, saved, asked, cut>>

\* stm32_flash_write of the next field.
Program ==
  /\ pc = "program"
  /\ flash' = [flash EXCEPT ![Layout[pos]] = g[Layout[pos]]]
  /\ IF pos < Len(Layout)
       THEN /\ pos' = pos + 1
            /\ UNCHANGED <<pc, left, known, saved>>
       ELSE /\ Return
            /\ pos' = 1
            /\ known' = {EnvOf(g)} /\ saved' = TRUE
  /\ UNCHANGED <<g, ret, firmware, resets, asked, cut>>

\* The controller reports an error, or the word does not read back.
ProgramFails ==
  /\ pc = "program"
  /\ \E v \in {flash[Layout[pos]], g[Layout[pos]], Torn} :
       flash' = [flash EXCEPT ![Layout[pos]] = v]
  /\ Return
  /\ pos' = 1
  /\ UNCHANGED <<g, ret, firmware, resets, known, saved, asked, cut>>

\* main_loop: a negative delay asks for no key.
NoCountdown ==
  /\ pc = "count"
  /\ left < 0
  /\ pc' = "run"
  /\ UNCHANGED <<flash, g, pos, ret, left, firmware, resets, known, saved, asked, cut>>

\* The countdown is not counted down.
BadSecond ==
  /\ pc = "count"
  /\ left >= 0
  /\ pc' = IF left = 0 THEN "run" ELSE "count"
  /\ UNCHANGED <<flash, g, pos, ret, left, firmware, resets, known, saved, asked, cut>>

\* A second, or the single look at the console of a zero delay, without CTRL+C.
Second ==
  /\ pc = "count"
  /\ left >= 0
  /\ left' = IF left = 0 THEN 0 ELSE left - 1
  /\ pc' = IF left' = 0 THEN "run" ELSE "count"
  /\ UNCHANGED <<flash, g, pos, ret, firmware, resets, known, saved, asked, cut>>

CtrlC ==
  /\ pc = "count"
  /\ left >= 0
  /\ pc' = "shell" /\ left' = 0
  /\ UNCHANGED <<flash, g, pos, ret, firmware, resets, known, saved, asked, cut>>

\* msh_exec cuts bootcmd where it is; boot without firmware is an error.
RunJumps ==
  /\ pc = "run"
  /\ "jump" \in Result[g.cmd] /\ firmware
  /\ pc' = "app"
  /\ UNCHANGED <<flash, g, pos, ret, left, firmware, resets, known, saved, asked, cut>>

RunComesBack ==
  /\ pc = "run"
  /\ g' = [g EXCEPT !.cmd = FirstWord[g.cmd]]
  /\ cut' = TRUE
  /\ \/ /\ "error" \in Result[g.cmd] \/ ("jump" \in Result[g.cmd] /\ ~ firmware)
        /\ pc' = "shell" /\ left' = 0
     \/ /\ "return" \in Result[g.cmd]
        /\ pc' = "hung" /\ left' = 0
  /\ UNCHANGED <<flash, pos, ret, firmware, resets, known, saved, asked>>

\* setenv.
SetDelay(d) ==
  /\ pc = "shell"
  /\ g' = [g EXCEPT !.delay = d]
  /\ UNCHANGED <<flash, pc, pos, ret, left, firmware, resets, known, saved, asked, cut>>

\* Variant: setenv takes its third argument and does not join the rest.
BadSetCmd(c) ==
  /\ pc = "shell"
  /\ g' = [g EXCEPT !.cmd = FirstWord[c]]
  /\ asked' = c /\ cut' = FALSE
  /\ UNCHANGED <<flash, pc, pos, ret, left, firmware, resets, known, saved>>

SetCmd(c) ==
  /\ pc = "shell"
  /\ g' = [g EXCEPT !.cmd = c]
  /\ asked' = c /\ cut' = FALSE
  /\ UNCHANGED <<flash, pc, pos, ret, left, firmware, resets, known, saved>>

\* saveenv.
SaveEnv ==
  /\ pc = "shell"
  /\ StartUpdate(g, "shell")
  /\ saved' = FALSE
  /\ UNCHANGED <<flash, g, pos, left, firmware, resets, asked, cut>>

\* ymodem_ota writes above the environment page and leaves an application or not.
Ota ==
  /\ pc = "shell"
  /\ firmware' \in BOOLEAN
  /\ UNCHANGED <<flash, g, pc, pos, ret, left, resets, known, saved, asked, cut>>

BootByHand ==
  /\ pc = "shell"
  /\ firmware
  /\ pc' = "app"
  /\ UNCHANGED <<flash, g, pos, ret, left, firmware, resets, known, saved, asked, cut>>

\* A reset or a power loss: the memory is gone, a word may be half programmed.
Reset ==
  /\ pc # "load" /\ resets < MaxResets
  /\ resets' = resets + 1
  /\ \/ UNCHANGED flash
     \/ pc = "program" /\ flash' = [flash EXCEPT ![Layout[pos]] = Torn]
  /\ g' = Blank /\ asked' = DefaultCmd /\ cut' = FALSE
  /\ pc' = "load" /\ pos' = 1 /\ ret' = "count" /\ left' = 0
  /\ UNCHANGED <<firmware, known, saved>>

Loader ==
  \/ LoadSaved \/ LoadDefaults
  \/ ErasePage \/ EraseFails \/ Program \/ ProgramFails
  \/ NoCountdown \/ Second \/ RunJumps \/ RunComesBack

User ==
  \/ \E d \in Delay : SetDelay(d)
  \/ \E c \in Cmd : SetCmd(c)
  \/ CtrlC \/ SaveEnv \/ Ota \/ BootByHand

BootNext == Loader \/ User \/ Reset

\* The processor executes; nobody has to type, and resets are not promised.
BootSpec == BootInit /\ [][BootNext]_vars /\ WF_vars(Loader)

-----------------------------------------------------------------------------
TypeOK ==
  /\ flash \in Page
  /\ g \in Page
  /\ pc \in {"load", "erase", "program", "count", "run", "shell", "app", "hung"}
  /\ pos \in 1..Len(Layout)
  /\ ret \in {"count", "shell"}
  /\ left \in Int
  /\ firmware \in BOOLEAN
  /\ resets \in 0..MaxResets
  /\ known \subseteq Env
  /\ saved \in BOOLEAN
  /\ asked \in Cmd /\ cut \in BOOLEAN

\* The magic word, programmed after the fields it vouches for, is never found
\* over a mixture: a page it accepts is all of the environment being saved or
\* all of the one there before (mem.c:84, mem.c:20).
CommitWord == Loadable(flash) => EnvOf(flash) \in known

\* After a saveenv that stored its image, and until the next one is typed, no
\* reset, failed boot or OTA loses it: mem_param_init never replaces it by
\* the defaults (mem.c:88).
SavedIsKept == saved => Loadable(flash) /\ known = {EnvOf(flash)}

\* The countdown and the command of a boot come from one environment, the last
\* one saved or the one an interrupted save started from or was writing
\* (main.c:9, main.c:11).
BootsKnown == pc = "count" => EnvOf(g) \in known

\* Neither the page nor a boot ever mixes two environments.
WholeEnvironment == CommitWord /\ BootsKnown

\* The processor always gets to the application, to the shell, or to the
\* while(1) after a boot command that returned (main.c:51): no save, reset or
\* flash error keeps it in the loader.
BootDecides == []<>(pc \in {"app", "shell", "hung"})

\* What saveenv stores is the command line that was set or loaded (mem.c:36
\* "save param to flash"), in one case cut to its first word: msh_exec has run
\* it from g_param.bootcmd and come back (main.c:49), and nobody has set it
\* again.
SavesWhatWasSet ==
  pc \in {"erase", "program"} => g.cmd = IF cut THEN FirstWord[asked] ELSE asked
=============================================================================
