------------------------------ MODULE AtClient ------------------------------
(***************************************************************************)
(* The AT client of rt-thread/components/net/at/src/at_client.c, with the  *)
(* command line mode of at_cli.c.  This tree's version does not block: a   *)
(* caller polls at_obj_exec_cmd until it returns something else than       *)
(* -RT_EBUSY, the steps of a command are counted in a static variable, and *)
(* the parser is a thread that reads at most one character per dispatch.   *)
(* Threads are cooperative, so a call is one step.                         *)
(*                                                                         *)
(* A line of the modem is one message; at_recv_readline hands it to        *)
(* client_parser whole, unless it is longer than its own buffer and is     *)
(* dropped there.  A line has its length, and a byte of a response buffer   *)
(* is the byte of a line: its place in that line, the last place being the *)
(* NUL that ends it.                                                       *)
(***************************************************************************)
EXTENDS Naturals, Sequences, FiniteSets

CONSTANTS
  Callers,   \* the threads that execute commands, each with a response object
  LineNum,   \* the line_num of each caller's response
  BufSize,   \* and its buf_size
  Timeout,   \* the timeout of every response, in ticks
  Data,      \* the data a modem sends in front of its OK, as lengths of lines
  Length,    \* the length of the modem's other lines, by their kind
  MaxCmds,   \* bound: commands per caller
  MaxNoise,  \* bound: unsolicited lines
  MaxCli,    \* bound: lines typed in command line mode, which is not entered
             \* again afterwards
  None

ASSUME AtClientAssumption ==
  /\ LineNum \in [Callers -> Nat] /\ BufSize \in [Callers -> Nat \ {0}]
  /\ Timeout \in Nat \ {0}
  /\ Data \subseteq Seq(Nat \ {0})
  /\ Length \in [{"ok", "error", "urc", "other"} -> Nat \ {0}]
  /\ {MaxCmds, MaxNoise, MaxCli} \subseteq Nat
  /\ None \notin Callers \cup Nat

VARIABLES
  \* struct at_client
  mode,         \* status: "INITIALIZED", or "CLI" while at_cli has the client
  lock, resp, resp_notice, resp_status,
  \* static variables
  exec_step,    \* of at_obj_exec_cmd
  line_counts, resp_buf_len,  \* of client_parser
  saved,        \* client_odev_status of client_cli_parser
  \* the response objects: buf, line_counts, and the ticks left of timeout_tick
  obj,
  \* the callers: the command in execution or None, and how many there were
  cmd, count,
  \* the modem and the line: what is on its way to the client
  wire, noise, typed,
  \* history
  asked,        \* the caller that sent the last command
  answer,       \* what the modem sends for it
  excess,       \* when it was sent the parser held more lines of a command that
                \* was given up than the buffer of its response had ended ones
  strange       \* something but the answer to that command is or may be on the
                \* wire or in the parser, or another caller took a step of it

client == <<mode, lock, resp, resp_notice, resp_status, exec_step, saved>>
callers == <<cmd, count>>
modem == <<noise, typed>>
parser == <<line_counts, resp_buf_len>>
history == <<answer, asked, excess, strange>>
vars == <<client, parser, obj, callers, wire, modem, history>>

\* A line: the command it answers, its place in that answer, its kind, and its
\* cur_recv_len.
Line(of, i, kind, len) == [of |-> of, at |-> i, kind |-> kind, len |-> len]
KindLine(of, i, kind) == Line(of, i, kind, Length[kind])

\* The bytes of a buffer, and which of them are NUL; a cleared one is.
Bytes(c) == 0 .. BufSize[c] - 1
Byte(line, j) == <<line, j>>
Zero == Byte(Line(None, 0, "data", 1), 1)
IsNul(byte) == byte[2] = byte[1].len

\* at_create_resp clears the object it allocates; one that was deleted looks
\* the same here.
Unused(c) == [buf |-> [i \in Bytes(c) |-> Zero], counts |-> 0, left |-> Timeout]

\* What a modem may answer: data lines and OK, an error, or nothing.
Answers(of) ==
  {[i \in 1 .. Len(d) + 1 |->
      IF i > Len(d) THEN KindLine(of, i, "ok") ELSE Line(of, i, "data", d[i])] : d \in Data}
    \cup {<<KindLine(of, 1, "error")>>, << >>}

AtInit ==
  /\ mode = "INITIALIZED" /\ saved = "INITIALIZED"
  /\ lock = FALSE /\ resp = None /\ resp_notice = FALSE /\ resp_status = "OK"
  /\ exec_step = 0
  /\ line_counts = 0 /\ resp_buf_len = 0
  /\ obj = [c \in Callers |-> Unused(c)]
  /\ cmd = [c \in Callers |-> None]
  /\ count = [c \in Callers |-> 0]
  /\ wire = << >> /\ noise = 0 /\ typed = 0
  /\ answer = << >> /\ asked = None /\ excess = FALSE /\ strange = FALSE

-----------------------------------------------------------------------------
(* at_obj_exec_cmd, called by c with its own response object.              *)

\* The caller has a command to execute and creates a response for it.
Call(c) ==
  /\ cmd[c] = None /\ count[c] < MaxCmds
  /\ cmd' = [cmd EXCEPT ![c] = count[c]]
  /\ count' = [count EXCEPT ![c] = @ + 1]
  /\ UNCHANGED <<client, parser, obj, wire, modem, history>>

\* The ends of lines in front of place n of a response buffer.
Nuls(buf, n) == {i \in DOMAIN buf : i < n /\ IsNul(buf[i])}

\* Step 0: take the lock and send the command.
Send(c) ==
  /\ cmd[c] # None /\ mode # "CLI" /\ exec_step = 0 /\ ~lock
  /\ lock' = TRUE /\ resp' = c /\ resp_notice' = FALSE /\ resp_status' = "OK"
  /\ obj' = [obj EXCEPT ![c].left = Timeout]
  /\ exec_step' = 1
  /\ \E a \in Answers(<<c, cmd[c]>>) :
       /\ wire' = wire \o a
       /\ answer' = a
  /\ asked' = c
  /\ excess' = (line_counts > Cardinality(Nuls(obj[c].buf, resp_buf_len)))
  /\ strange' = (strange \/ \E i \in DOMAIN wire : wire[i].kind # "urc")
  /\ UNCHANGED <<mode, saved, parser, callers, modem>>

Expired(c) == obj[c].left = 0

\* Variant: the timeout is not looked at once lines have been received.
BadNotice(c) ==
  /\ cmd[c] # None /\ mode # "CLI" /\ exec_step = 1
  /\ resp_notice \/ (Expired(c) /\ line_counts = 0)
  /\ resp_status' = IF resp_notice THEN resp_status ELSE "TIMEOUT"
  /\ exec_step' = 2
  /\ strange' = (strange \/ ~resp_notice \/ asked # c)
  /\ UNCHANGED <<mode, saved, lock, resp, resp_notice, parser, obj,
                 callers, wire, modem, answer, asked, excess>>

\* Step 1: the answer is complete or the time of c's response is over.  The
\* result of the timeout is a local variable and does not reach step 2.
Notice(c) ==
  /\ cmd[c] # None /\ mode # "CLI" /\ exec_step = 1
  /\ resp_notice \/ Expired(c)
  /\ resp_status' = IF resp_notice THEN resp_status ELSE "TIMEOUT"
  /\ exec_step' = 2
  /\ strange' = (strange \/ ~resp_notice \/ asked # c)
  /\ UNCHANGED <<mode, saved, lock, resp, resp_notice, parser, obj,
                 callers, wire, modem, answer, asked, excess>>

\* Variant: the response stays known to the parser after a failure.
BadFinish(c) ==
  /\ cmd[c] # None /\ mode # "CLI" /\ exec_step = 2
  /\ cmd' = [cmd EXCEPT ![c] = None]
  /\ obj' = [obj EXCEPT ![c] = Unused(c)]
  /\ resp' = IF resp_status = "OK" THEN None ELSE resp
  /\ lock' = FALSE /\ exec_step' = 0
  /\ UNCHANGED <<mode, saved, resp_notice, resp_status, parser, count,
                 wire, modem, history>>

\* Step 2: give the client back and return 0 if resp_status is OK, or else
\* -RT_ERROR.  The caller reads its response and deletes it.
Finish(c) ==
  /\ cmd[c] # None /\ mode # "CLI" /\ exec_step = 2
  /\ cmd' = [cmd EXCEPT ![c] = None]
  /\ obj' = [obj EXCEPT ![c] = Unused(c)]
  /\ lock' = FALSE /\ exec_step' = 0 /\ resp' = None
  /\ strange' = (strange /\ ~(wire = << >> /\ line_counts = 0))
  /\ UNCHANGED <<mode, saved, resp_notice, resp_status, parser, count,
                 wire, modem, answer, asked, excess>>

Poll(c) == Send(c) \/ Notice(c) \/ Finish(c)

Counting(c) == cmd[c] # None /\ ~Expired(c)

\* The tick that timeout_tick is compared with.
Tick ==
  /\ \E c \in Callers : Counting(c)
  /\ obj' = [c \in Callers |->
               IF Counting(c) THEN [obj[c] EXCEPT !.left = @ - 1] ELSE obj[c]]
  /\ UNCHANGED <<client, parser, callers, wire, modem, history>>

-----------------------------------------------------------------------------
(* client_parser, for the first line on the wire.                          *)

Received(kind) == wire # << >> /\ Head(wire).kind = kind /\ wire' = Tail(wire)

\* A line of the URC table goes to its function.
ParseUrc ==
  /\ Received("urc")
  /\ UNCHANGED <<client, parser, obj, callers, modem, history>>

\* Variant: every line is copied to the response.
BadFits(line) == TRUE

\* Whether the line is copied: a long one may not fit where a later one does.
Fits(line) == resp_buf_len + line.len < BufSize[resp]

\* The buffer with the line behind resp_buf_len.
Copy(buf, line) ==
  LET new == resp_buf_len .. resp_buf_len + line.len - 1
  IN [i \in DOMAIN buf \cup new |->
        IF i \in new THEN Byte(line, i - resp_buf_len + 1) ELSE buf[i]]

\* How the response ends with the n-th line, if it does.
Ends(line, n) ==
  IF line.kind = "ok" /\ LineNum[resp] = 0 THEN {"OK"}
  ELSE IF line.kind = "error" THEN {"ERROR"}
  ELSE IF n = LineNum[resp] /\ LineNum[resp] # 0 THEN {"OK"} ELSE {}

\* A line of the response: it is copied and counted if it fits; the last one
\* gives the response back to the caller, whatever was lost.
ParseResponse ==
  LET line == Head(wire)
      n == IF Fits(line) THEN line_counts + 1 ELSE line_counts
      end == Ends(line, n)
      copied == IF Fits(line) THEN [obj EXCEPT ![resp].buf = Copy(@, line)] ELSE obj
  IN
  /\ wire # << >> /\ line.kind # "urc" /\ resp # None
  /\ wire' = Tail(wire)
  /\ \/ /\ end = {}
        /\ obj' = copied /\ line_counts' = n
        /\ resp_buf_len' = IF Fits(line) THEN resp_buf_len + line.len ELSE resp_buf_len
        /\ resp_status' = IF Fits(line) THEN resp_status ELSE "BUFF_FULL"
        /\ UNCHANGED <<resp, resp_notice>>
     \/ /\ resp_status' \in end
        /\ obj' = [copied EXCEPT ![resp].counts = n]
        /\ line_counts' = 0 /\ resp_buf_len' = 0
        /\ resp' = None /\ resp_notice' = TRUE
  /\ UNCHANGED <<mode, saved, lock, exec_step, callers, modem, history>>

\* Variant: an unexpected line does not end the response before it.
BadParseUnknown ==
  /\ wire # << >> /\ Head(wire).kind # "urc" /\ resp = None
  /\ wire' = Tail(wire)
  /\ strange' = (strange /\ ~(wire' = << >> /\ exec_step = 0))
  /\ UNCHANGED <<client, parser, obj, callers, modem, answer, asked, excess>>

\* A line nobody waits for.
ParseUnknown ==
  /\ wire # << >> /\ Head(wire).kind # "urc" /\ resp = None
  /\ wire' = Tail(wire)
  /\ line_counts' = 0 /\ resp_buf_len' = 0
  /\ strange' = (strange /\ ~(wire' = << >> /\ exec_step = 0))
  /\ UNCHANGED <<client, obj, callers, modem, answer, asked, excess>>

Parse == ParseUrc \/ ParseResponse \/ ParseUnknown

\* The modem sends a line by itself, in the URC table or not.
Noise(kind) ==
  /\ noise < MaxNoise
  /\ noise' = noise + 1
  /\ wire' = Append(wire, KindLine(None, 0, kind))
  /\ strange' = (strange \/ (kind # "urc" /\ exec_step # 0))
  /\ UNCHANGED <<client, parser, obj, callers, typed, answer, asked, excess>>

-----------------------------------------------------------------------------
(* Command line mode: client_cli_parser takes the client over.             *)

EnterCli ==
  /\ mode # "CLI" /\ typed < MaxCli
  /\ saved' = mode /\ mode' = "CLI"
  /\ strange' = (strange \/ exec_step # 0)
  /\ UNCHANGED <<lock, resp, resp_notice, resp_status, exec_step, parser,
                 obj, callers, wire, modem, answer, asked, excess>>

\* client_getchar_rx_ind takes what arrives; at_client_entry prints it.  A line
\* that is already in the buffer of the device still goes to the parser.
CliPrint ==
  /\ mode = "CLI" /\ wire # << >>
  /\ wire' = Tail(wire)
  /\ UNCHANGED <<client, parser, obj, callers, modem, history>>

\* The user sends a line: at_obj_exec_cmd without a response resets the steps
\* and the lock, whoever holds it, and returns at once.
CliSend ==
  /\ mode = "CLI" /\ typed < MaxCli
  /\ typed' = typed + 1
  /\ exec_step' = 0 /\ lock' = FALSE
  /\ resp' = None /\ resp_notice' = FALSE /\ resp_status' = "OK"
  /\ \E a \in Answers(None) : wire' = wire \o a
  /\ UNCHANGED <<mode, saved, parser, obj, callers, noise, history>>

ExitCli ==
  /\ mode = "CLI"
  /\ mode' = saved
  /\ UNCHANGED <<saved, lock, resp, resp_notice, resp_status, exec_step,
                 parser, obj, callers, wire, modem, history>>

Cli == EnterCli \/ CliPrint \/ CliSend \/ ExitCli

AtNext ==
  \/ \E c \in Callers : Call(c) \/ Poll(c)
  \/ Tick
  \/ Parse
  \/ \E kind \in {"urc", "other"} : Noise(kind)
  \/ Cli

AtSpec == AtInit /\ [][AtNext]_vars

\* The scheduler runs every caller and the clock interrupt goes on; a modem
\* need not answer, and nobody need leave the command line mode.
AtFairSpec ==
  AtSpec /\ WF_vars(Tick) /\ \A c \in Callers : WF_vars(Poll(c))

-----------------------------------------------------------------------------
(* Properties.                                                             *)

\* at_client.c:725-731 writes the response at an offset that survives commands
\* which were given up; it must never leave the buffer, that of a smaller
\* response included.
TypeOK ==
  /\ mode \in {"INITIALIZED", "CLI"} /\ saved \in {"INITIALIZED", "CLI"}
  /\ lock \in BOOLEAN /\ resp_notice \in BOOLEAN
  /\ resp \in Callers \cup {None}
  /\ resp_status \in {"OK", "ERROR", "TIMEOUT", "BUFF_FULL"}
  /\ exec_step \in 0..2
  /\ resp_buf_len \in Nat /\ line_counts \in 0..resp_buf_len
  /\ \A c \in Callers :
       /\ DOMAIN obj[c].buf = Bytes(c)
       /\ obj[c].counts \in Nat
       /\ obj[c].left \in 0..Timeout

\* The parser writes into a response only while its caller is waiting for it:
\* a caller may delete the response as soon as at_obj_exec_cmd has returned,
\* after a timeout, an error, a step taken by another caller or a session in
\* command line mode as after an answer (at_client.c:302, 346, 762).
RespIsWaited == resp # None => cmd[resp] # None

\* at_resp_get_line walks over as many ends of lines as the parser counted: they
\* are there, in the buffer, whatever lines were received for whichever command
\* (at_client.c:118-150, 757).  Excepted is a command sent while the parser held
\* lines of one that was given up, more than its buffer has ended lines for: a
\* smaller response is then read behind its end.
LinesInside ==
  exec_step = 2 /\ resp_notice /\ ~excess =>
    obj[asked].counts <= Cardinality(Nuls(obj[asked].buf, BufSize[asked]))

\* In the response of c line i of its answer is kept if it fits behind those
\* that were, and at[i] is where the lines up to it end.
Kept(c, i, at) == at[i - 1] + answer[i].len < BufSize[c]
Laid(c, n, at) ==
  /\ at[0] = 0
  /\ \A i \in 1 .. n :
       IF Kept(c, i, at)
         THEN /\ at[i] = at[i - 1] + answer[i].len
              /\ \A j \in 1 .. answer[i].len :
                   obj[c].buf[at[i - 1] + j - 1] = Byte(answer[i], j)
         ELSE at[i] = at[i - 1]
KeptOf(c, n, at) == {i \in 1 .. n : Kept(c, i, at)}

\* The n-th line of its answer ends the response of c.
EndedBy(c, n, at) ==
  IF answer[n].kind = "error" THEN resp_status = "ERROR"
  ELSE /\ resp_status = "OK"
       /\ IF LineNum[c] = 0 THEN answer[n].kind = "ok"
          ELSE Kept(c, n, at) /\ Cardinality(KeptOf(c, n, at)) = LineNum[c]

\* The response a caller is about to be handed is the answer to its own
\* command up to its end: its lines in order, one behind the other, each that
\* fits behind those kept before it, as many as are counted, with the status of
\* the last one (at_client.c:725-761).  A line that is lost is not told from
\* the status.  Excepted is what is strange; the client recovers from it by
\* itself as soon as the line has fallen silent and the parser holds no lines
\* of a command that was given up.
AnswerWhole ==
  exec_step = 2 /\ ~strange =>
    \E n \in DOMAIN answer : \E at \in [0 .. n -> Bytes(asked)] :
      /\ Laid(asked, n, at)
      /\ obj[asked].counts = Cardinality(KeptOf(asked, n, at))
      /\ EndedBy(asked, n, at)

\* Both together: what a caller reads is there, and is its own.
AnswerIsOwn == LinesInside /\ AnswerWhole

\* A command never keeps the client for good: whether the modem answers, is
\* late or silent, the steps return to 0 and the next command can be sent
\* (at_client.c:326-353), unless the command line mode keeps being used.
LockReleased ==
  <>[](mode # "CLI") => (exec_step # 0 ~> (exec_step = 0 /\ ~lock))
=============================================================================
