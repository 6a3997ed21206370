------------------------------- MODULE Ymodem -------------------------------
(***************************************************************************)
(* The YMODEM receiver of components/utilities/ymodem/ymodem.c with the     *)
(* callbacks of applications/ymodem_ota.c, against a sender on a serial     *)
(* line that loses, damages and delays.  The receiver is the code; the      *)
(* sender, outside the repository, behaves as the code expects: it waits    *)
(* for each answer and sends again what is not acknowledged (the comment    *)
(* in _rym_trans_data).                                                     *)
(*                                                                         *)
(* A packet is its kind and a number: the file of a header, the block of a  *)
(* data packet.  Sequence bytes, checksums and lengths are what tells a     *)
(* damaged packet from an intact one.                                       *)
(***************************************************************************)
EXTENDS Naturals, Sequences, SequencesExt

CONSTANTS
  Blocks,      \* the files of the batch, as their numbers of blocks
  PageBlocks,  \* blocks in a page of flash
  MaxTries,    \* handshake_timeout
  MaxFaults    \* bound on what the line and the flash do wrong

ASSUME YmodemAssumption ==
  /\ Blocks \in Seq(Nat) /\ Blocks # << >>
  /\ PageBlocks \in Nat \ {0} /\ MaxTries \in Nat \ {0} /\ MaxFaults \in Nat

VARIABLES
  rx,      \* where the receiver is
  fresh,   \* ctx->stage is RYM_STAGE_ESTABLISHED
  tries,   \* i of _rym_do_handshake
  got,     \* the blocks written for the current file, update_file_cur_size of them
  erased,  \* blocks erased for it
  tx,      \* where the sender is
  file,    \* the file it is sending
  block,   \* and the block
  toRx, toTx,  \* the line in both directions
  faults,  \* losses, damages, stray bytes and flash errors so far
  gone,    \* history: the line swallowed a whole packet
  late     \* history: the receiver gave up while the sender had an answer to read

rxVars == <<rx, fresh, tries, got, erased>>
txVars == <<tx, file, block>>
vars == <<rxVars, txVars, toRx, toTx, faults, gone, late>>

Pkt(kind, n) == [kind |-> kind, n |-> n]
Eot == Pkt("eot", 0)
Null == Pkt("null", 0)
Junk == Pkt("junk", 0)
Packet == {Pkt("head", f) : f \in DOMAIN Blocks} \cup
          {Pkt("data", k) : k \in UNION {1 .. Blocks[f] : f \in DOMAIN Blocks}} \cup
          {Eot, Null, Junk}
Code == {"C", "ACK", "NAK", "CAN", "noise"}

YmodemInit ==
  /\ rx = "handshake" /\ fresh = FALSE /\ tries = 1
  /\ got = << >> /\ erased = 0
  /\ tx = "start" /\ file = 1 /\ block = 0
  /\ toRx = << >> /\ toTx = <<"C">>
  /\ faults = 0 /\ gone = FALSE /\ late = FALSE

-----------------------------------------------------------------------------
(* The receiver.  It reads a packet and answers.                            *)

Answer(codes) == toTx' = toTx \o codes

Abort == rx' = "failed" /\ UNCHANGED <<fresh, tries, got, erased, toTx>>

\* The data callback fails: the sender is told.
Refuse == rx' = "failed" /\ Answer(<<"CAN">>) /\ UNCHANGED got

\* The next rounds of the handshake loop, each with its C, or its end.
TryAgain(rounds) ==
  IF tries + rounds > MaxTries THEN Abort
  ELSE /\ tries' = tries + rounds
       /\ Answer([i \in 1 .. rounds |-> "C"])
       /\ UNCHANGED <<rx, fresh, got, erased>>

\* Variant: whole pages, rounded down.
BadRoundUp(n) == (n \div PageBlocks) * PageBlocks

\* Whole pages are erased.
RoundUp(n) == ((n + PageBlocks - 1) \div PageBlocks) * PageBlocks

\* ymodem_on_begin accepts a file of n blocks, and _rym_do_trans starts.
Begin(n) ==
  /\ rx' = "trans" /\ fresh' = TRUE
  /\ got' = << >> /\ erased' = RoundUp(n)
  /\ Answer(<<"ACK", "C">>)
  /\ UNCHANGED tries

\* _rym_do_handshake.  A damaged packet is an error or, without its first
\* byte, a round for each byte that follows.  An empty name is accepted here.
Handshake(p) ==
  /\ rx = "handshake"
  /\ CASE p.kind = "head" -> Begin(Blocks[p.n])
       [] p.kind = "null" -> Begin(0)
       [] p.kind = "junk" -> Abort \/ \E rounds \in 1 .. MaxTries : TryAgain(rounds)
       [] p.kind = "eot" -> TryAgain(1)
       [] OTHER -> Abort

\* What a packet leaves in flash: its block, or a header taken for data.
Written(p) == IF p.kind = "data" THEN p.n ELSE 0

\* ymodem_on_data knows no end of the file.  Behind the erased pages a block
\* reads back as written if the flash happens to be blank there; if it is not,
\* or ends, the write fails.
Write(p) ==
  \/ /\ got' = Append(got, Written(p))
     /\ Answer(<<"ACK">>)
     /\ UNCHANGED rx
  \/ Len(got) >= erased /\ Refuse

\* Variant: takes a repeated first packet for data.
BadIgnored(p) == FALSE

\* A first packet sent again is ignored until data has come, before its
\* checksum is looked at.
Ignored(p) == fresh /\ p.kind \in {"head", "null", "junk"}

\* _rym_do_trans: a data packet is written whatever its number is.
Trans(p) ==
  /\ rx = "trans"
  /\ \/ Ignored(p) /\ UNCHANGED <<rxVars, toTx>>
     \/ /\ ~ Ignored(p) /\ p.kind \in {"head", "null", "data"}
        /\ fresh' = FALSE
        /\ Write(p)
        /\ UNCHANGED <<tries, erased>>
     \/ /\ p.kind = "eot"
        /\ rx' = "eot" /\ fresh' = FALSE
        /\ Answer(<<"NAK">>)
        /\ UNCHANGED <<tries, got, erased>>
     \/ p.kind = "junk" /\ Abort

\* _rym_do_fin, the second EOT and then a header or the empty one.
SecondEot(p) ==
  /\ rx = "eot"
  /\ IF p = Eot
       THEN /\ rx' = "next"
            /\ Answer(<<"ACK", "C">>)
            /\ UNCHANGED <<fresh, tries, got, erased>>
       ELSE Abort

\* Variant: the last packet is acknowledged before it is checked.
BadNextFile(p) ==
  /\ rx = "next"
  /\ IF p.kind = "head" THEN Begin(Blocks[p.n])
     ELSE /\ rx' = IF p.kind = "null" THEN "done" ELSE "failed"
          /\ Answer(<<"ACK">>)
          /\ UNCHANGED <<fresh, tries, got, erased>>

NextFile(p) ==
  /\ rx = "next"
  /\ CASE p.kind = "head" -> Begin(Blocks[p.n])
       [] p.kind = "null" -> /\ rx' = "done"
                             /\ Answer(<<"ACK">>)
                             /\ UNCHANGED <<fresh, tries, got, erased>>
       [] OTHER -> Abort

Ended(end) == end \in {"done", "failed"}

Receive ==
  /\ toRx # << >>
  /\ toRx' = Tail(toRx)
  /\ LET p == Head(toRx) IN Handshake(p) \/ Trans(p) \/ SecondEot(p) \/ NextFile(p)
  /\ UNCHANGED <<txVars, faults, gone, late>>

\* Variant: waits for the next packet without a timeout.
BadTimeout ==
  /\ toRx = << >> /\ rx = "handshake"
  /\ TryAgain(1)
  /\ late' = (rx' = "failed" /\ toTx # << >>)
  /\ UNCHANGED <<txVars, toRx, faults, gone>>

\* Variant: a silence after the handshake is taken for the end of the batch.
BadTimeoutEnds ==
  /\ toRx = << >> /\ ~ Ended(rx)
  /\ IF rx = "handshake" THEN TryAgain(1)
     ELSE rx' = "done" /\ UNCHANGED <<fresh, tries, got, erased, toTx>>
  /\ late' = (rx' = "failed" /\ toTx # << >>)
  /\ UNCHANGED <<txVars, toRx, faults, gone>>

\* _rym_read_code or _rym_read_data finds nothing for three seconds.
Timeout ==
  /\ toRx = << >> /\ ~ Ended(rx)
  /\ IF rx = "handshake" THEN TryAgain(1) ELSE Abort
  /\ late' = (rx' = "failed" /\ toTx # << >>)
  /\ UNCHANGED <<txVars, toRx, faults, gone>>

\* stm32_flash_erase or stm32_flash_write reports an error.
FlashFails ==
  /\ faults < MaxFaults /\ toRx # << >>
  /\ \/ rx \in {"handshake", "next"} /\ Head(toRx).kind = "head" /\ Abort
     \/ /\ rx = "trans" /\ ~ Ignored(Head(toRx))
        /\ Head(toRx).kind \in {"head", "null", "data"}
        /\ Refuse
        /\ fresh' = FALSE
        /\ UNCHANGED <<tries, erased>>
  /\ toRx' = Tail(toRx)
  /\ faults' = faults + 1
  /\ UNCHANGED <<txVars, gone, late>>

-----------------------------------------------------------------------------
(* The sender                                                              *)

Sends(p) == toRx' = Append(toRx, p)

\* What it sends again: the packet that waits for its acknowledgement.
Current ==
  CASE tx = "head" -> Pkt("head", file)
    [] tx = "data" -> Pkt("data", block)
    [] tx = "eot" -> Eot
    [] tx = "null" -> Null

\* After a header or a block: the next block, or the end of the file.
SendNext ==
  IF block < Blocks[file]
    THEN /\ tx' = "data" /\ block' = block + 1
         /\ Sends(Pkt("data", block + 1))
         /\ UNCHANGED file
    ELSE /\ tx' = "eot"
         /\ Sends(Eot)
         /\ UNCHANGED <<file, block>>

SendHead(f) ==
  /\ tx' = "head" /\ file' = f /\ block' = 0
  /\ Sends(Pkt("head", f))

Quiet == UNCHANGED <<tx, file, block, toRx>>

OnAck ==
  CASE tx = "head" -> tx' = "go" /\ UNCHANGED <<file, block, toRx>>
    [] tx = "data" -> SendNext
    [] tx = "eot" -> tx' = "over" /\ UNCHANGED <<file, block, toRx>>
    [] tx = "null" -> tx' = "done" /\ UNCHANGED <<file, block, toRx>>
    [] OTHER -> Quiet

OnC ==
  CASE tx = "start" -> SendHead(1)
    [] tx = "go" -> SendNext
    [] tx = "over" /\ file < Len(Blocks) -> SendHead(file + 1)
    [] tx = "over" /\ file = Len(Blocks) ->
         tx' = "null" /\ Sends(Null) /\ UNCHANGED <<file, block>>
    [] OTHER -> Sends(Current) /\ UNCHANGED txVars

\* A NAK, and anything it cannot read, asks for the packet again.
OnNak ==
  IF tx \in {"head", "data", "eot", "null"}
    THEN Sends(Current) /\ UNCHANGED txVars
    ELSE Quiet

SenderReads ==
  /\ toTx # << >> /\ ~ Ended(tx)
  /\ toTx' = Tail(toTx)
  /\ CASE Head(toTx) = "ACK" -> OnAck
       [] Head(toTx) = "C" -> OnC
       [] Head(toTx) \in {"NAK", "noise"} -> OnNak
       [] Head(toTx) = "CAN" -> tx' = "failed" /\ UNCHANGED <<file, block, toRx>>
  /\ UNCHANGED <<rxVars, faults, gone, late>>

\* Its patience, ten seconds and more, outlasts the receiver's three.
SenderGivesUp ==
  /\ ~ Ended(tx) /\ toTx = << >> /\ Ended(rx)
  /\ tx' = "failed"
  /\ UNCHANGED <<rxVars, file, block, toRx, toTx, faults, gone, late>>

-----------------------------------------------------------------------------
(* The line                                                                *)

Loses ==
  \/ \E i \in DOMAIN toRx : toRx' = RemoveAt(toRx, i) /\ gone' = TRUE /\ UNCHANGED toTx
  \/ \E i \in DOMAIN toTx : toTx' = RemoveAt(toTx, i) /\ UNCHANGED <<toRx, gone>>

Damages ==
  /\ \/ \E i \in DOMAIN toRx : toRx' = [toRx EXCEPT ![i] = Junk] /\ UNCHANGED toTx
     \/ \E i \in DOMAIN toTx : toTx' = [toTx EXCEPT ![i] = "noise"] /\ UNCHANGED toRx
  /\ UNCHANGED gone

Invents ==
  /\ \/ toRx' = Append(toRx, Junk) /\ UNCHANGED toTx
     \/ toTx' = Append(toTx, "noise") /\ UNCHANGED toRx
  /\ UNCHANGED gone

Fault ==
  /\ faults < MaxFaults /\ ~ (Ended(rx) /\ Ended(tx))
  /\ Loses \/ Damages \/ Invents
  /\ faults' = faults + 1
  /\ UNCHANGED <<rxVars, txVars, late>>

YmodemNext == Receive \/ Timeout \/ FlashFails \/ SenderReads \/ SenderGivesUp \/ Fault

(* Both ends are programs that run; time passes. *)
YmodemSpec ==
  /\ YmodemInit /\ [][YmodemNext]_vars
  /\ WF_vars(Receive) /\ WF_vars(Timeout)
  /\ WF_vars(SenderReads) /\ WF_vars(SenderGivesUp)

-----------------------------------------------------------------------------
Types ==
  /\ rx \in {"handshake", "trans", "eot", "next", "done", "failed"}
  /\ fresh \in BOOLEAN /\ tries \in 1 .. MaxTries
  /\ got \in Seq(Nat) /\ erased \in Nat
  /\ tx \in {"start", "head", "go", "data", "eot", "over", "null", "done", "failed"}
  /\ file \in DOMAIN Blocks /\ block \in 0 .. Blocks[file]
  /\ toRx \in Seq(Packet) /\ toTx \in Seq(Code)
  /\ faults \in 0 .. MaxFaults /\ {gone, late} \subseteq BOOLEAN

\* The types, and how far writing may go: ymodem_on_data compares no length, so
\* repeated blocks can run on behind the pages that were erased for the file
\* (ymodem_ota.c:69-75), but by no more blocks than there were errors.
TypeOK == Types /\ Len(got) <= erased + faults

\* Unless the line swallows a packet whole, the blocks in flash are those of
\* the file in their order, none missing, although nothing compares sequence
\* numbers: any other loss, damage or stray byte, of a packet or of an answer,
\* stops the receiver or repeats a block (ymodem.c:186-218).  On a line without
\* errors each is written once, however many C the receiver sent before the
\* sender answered the first (ymodem.c:196-204).
WrittenInOrder ==
  /\ ~ gone => \A i \in DOMAIN got :
                 IF i = 1 THEN got[i] = 1 ELSE got[i] \in {got[i - 1], got[i - 1] + 1}
  /\ faults = 0 => got = [i \in DOMAIN got |-> i]

\* A transfer that returns RT_EOK has written its last file to the end, with
\* the same exception (ymodem_ota.c:112).
SuccessIsWhole ==
  rx = "done" /\ ~ gone => IF Last(Blocks) = 0 THEN got = << >>
                           ELSE got # << >> /\ Last(got) = Last(Blocks)

\* A sender that reports success is right.
SenderNotFooled == tx = "done" => rx = "done"

\* Neither end waits for ever, whatever is lost.
SessionEnds == <>(Ended(rx) /\ Ended(tx))

\* Without errors, and if no wait is too long, the batch gets through.
CleanSucceeds == <>(faults > 0 \/ late \/ (rx = "done" /\ tx = "done"))
=============================================================================
