--------------------------- MODULE AtClientProofs ---------------------------
(***************************************************************************)
(* Where the parser may write and whose answer a caller is handed, for any *)
(* number of callers and commands, any answers, buffers, timeouts and use  *)
(* of the command line mode.  That a response is still wanted when a line  *)
(* is written into it rests on every way out of at_obj_exec_cmd taking the *)
(* response away from the parser, and on the lock: no command is sent      *)
(* while another one is in progress.  That the lines counted are there     *)
(* rests on every line that is copied ending behind the ones before it.    *)
(* That the answer is the caller's own rests on a division of it: the      *)
(* first lines have been received, and those that fit are in the response, *)
(* the others are on the wire, in order, with only unsolicited lines       *)
(* around.                                                                 *)
(***************************************************************************)
EXTENDS AtClient, FiniteSetTheorems, TLAPS

Lines == [of : (Callers \X Nat) \cup {None}, at : Nat,
          kind : {"data", "ok", "error", "urc", "other"}, len : Nat \ {0}]

\* Every response object is a record of its three fields, each in its range.
ObjShape ==
  obj = [c \in Callers |-> [buf |-> obj[c].buf, counts |-> obj[c].counts,
                            left |-> obj[c].left]]
Objects ==
  /\ ObjShape
  /\ \A c \in Callers : /\ DOMAIN obj[c].buf = Bytes(c)
                        /\ obj[c].counts \in Nat
                        /\ obj[c].left \in 0..Timeout

Steps ==
  /\ mode \in {"INITIALIZED", "CLI"} /\ saved \in {"INITIALIZED", "CLI"}
  /\ resp \in Callers \cup {None}
  /\ resp_status \in {"OK", "ERROR", "TIMEOUT", "BUFF_FULL"}
  /\ exec_step \in 0..2

\* A line that is counted takes at least one byte, and one that takes bytes is
\* counted.
Held ==
  /\ resp_buf_len \in Nat /\ line_counts \in 0..resp_buf_len
  /\ line_counts = 0 => resp_buf_len = 0

OnWire == wire \in Seq(Lines)

Waiting ==
  /\ cmd \in [Callers -> Nat \cup {None}]
  /\ count \in [Callers -> Nat]
  /\ RespIsWaited

\* The lock is held exactly while a command is in progress.
Flags ==
  /\ lock \in BOOLEAN /\ resp_notice \in BOOLEAN
  /\ lock <=> exec_step # 0

AtInv == Objects /\ Steps /\ Held /\ OnWire /\ Waiting /\ Flags

USE AtClientAssumption

-----------------------------------------------------------------------------
\* An answer ends with its only OK, or is an error and nothing else.
GoodAnswer(a) ==
  /\ a \in Seq(Lines)
  /\ \A i \in 1 .. Len(a) :
       /\ a[i].kind \in {"data", "ok", "error"}
       /\ a[i].kind = "ok" => i = Len(a)
       /\ a[i].kind = "error" => Len(a) = 1

\* A line with a length is a line.
LEMMA LineIs ==
  ASSUME NEW of \in (Callers \X Nat) \cup {None}, NEW i \in Nat,
         NEW kind \in {"data", "ok", "error", "urc", "other"}, NEW len \in Nat \ {0}
  PROVE  Line(of, i, kind, len) \in Lines /\ Line(of, i, kind, len).kind = kind
BY DEF Line, Lines

\* So is one whose length is that of its kind.
LEMMA KindLineIs ==
  ASSUME NEW of \in (Callers \X Nat) \cup {None}, NEW i \in Nat,
         NEW kind \in {"ok", "error", "urc", "other"}
  PROVE  KindLine(of, i, kind) \in Lines /\ KindLine(of, i, kind).kind = kind
<1>1. PICK len \in Nat \ {0} : len = Length[kind]
  OBVIOUS
<1>2. KindLine(of, i, kind) = Line(of, i, kind, len)
  BY <1>1 DEF KindLine
<1>3. kind \in {"data", "ok", "error", "urc", "other"}
  OBVIOUS
<1>4. Line(of, i, kind, len) \in Lines /\ Line(of, i, kind, len).kind = kind
  BY <1>3 DEF Line, Lines
<1>. QED  BY <1>2, <1>4

\* Whatever a modem answers is a good answer.
LEMMA AnswersGood ==
  ASSUME NEW of \in (Callers \X Nat) \cup {None}, NEW a \in Answers(of)
  PROVE  GoodAnswer(a) /\ a \in Seq(Lines)
<1>. DEFINE Long(d) == [i \in 1 .. Len(d) + 1 |->
                          IF i > Len(d) THEN KindLine(of, i, "ok")
                                        ELSE Line(of, i, "data", d[i])]
<1>2. CASE \E d \in Data : a = Long(d)
  <2>1. PICK d \in Data : a = Long(d)
    BY <1>2
  <2>2. d \in Seq(Nat \ {0}) /\ Len(d) \in Nat
    OBVIOUS
  <2>3. \A i \in 1 .. Len(d) : i \in Nat /\ d[i] \in Nat \ {0}
    BY <2>2
  <2>4. \A i \in 1 .. Len(d) + 1 :
          a[i] = IF i > Len(d) THEN KindLine(of, i, "ok") ELSE Line(of, i, "data", d[i])
    BY <2>1, <2>2
  <2>5. ASSUME NEW i \in 1 .. Len(d) + 1
        PROVE  a[i] \in Lines /\ a[i].kind = IF i > Len(d) THEN "ok" ELSE "data"
    <3>0. i \in Nat
      BY <2>2
    <3>1. CASE i > Len(d)
      <4>1. KindLine(of, i, "ok") \in Lines /\ KindLine(of, i, "ok").kind = "ok"
        BY <3>0, KindLineIs
      <4>. QED  BY <2>4, <3>1, <4>1
    <3>2. CASE ~(i > Len(d))
      <4>1. i \in 1 .. Len(d)
        BY <2>2, <3>2
      <4>2. a[i] = Line(of, i, "data", d[i])
        BY <2>4, <3>2
      <4>3. PICK len \in Nat \ {0} : len = d[i]
        BY <2>3, <4>1
      <4>4. Line(of, i, "data", len) \in Lines /\ Line(of, i, "data", len).kind = "data"
        BY <3>0 DEF Line, Lines
      <4>. QED  BY <3>2, <4>2, <4>3, <4>4
    <3>. QED  BY <3>1, <3>2
  <2>6. DOMAIN a = 1 .. Len(d) + 1 /\ a = [i \in 1 .. Len(d) + 1 |-> a[i]]
    BY <2>1
  <2>7. a \in [1 .. Len(d) + 1 -> Lines] /\ Len(d) + 1 \in Nat
    BY <2>2, <2>5, <2>6
  <2>8. a \in Seq(Lines) /\ Len(a) = Len(d) + 1
    BY <2>7
  <2>9. PICK n \in Nat : n = Len(d)
    BY <2>2
  <2>10. \A i \in 1 .. n + 1 : /\ a[i].kind \in {"data", "ok"}
                               /\ a[i].kind = "ok" => i = n + 1
    BY <2>5, <2>9
  <2>11. "error" \notin {"data", "ok"}
    OBVIOUS
  <2>. HIDE DEF Long
  <2>. QED  BY <2>8, <2>9, <2>10, <2>11 DEF GoodAnswer
<1>3. CASE a = <<KindLine(of, 1, "error")>>
  <2>1. PICK x : x = KindLine(of, 1, "error")
    OBVIOUS
  <2>2. x \in Lines /\ x.kind = "error"
    BY <2>1, KindLineIs
  <2>. QED  BY <1>3, <2>1, <2>2 DEF GoodAnswer
<1>4. CASE a = << >>
  BY <1>4 DEF GoodAnswer
<1>. QED  BY <1>2, <1>3, <1>4 DEF Answers

\* The next line has a length, and what follows it is a line as well.
LEMMA NextLine ==
  ASSUME AtInv, wire # << >>
  PROVE  Head(wire) \in Lines /\ Head(wire).len \in Nat \ {0} /\ Tail(wire) \in Seq(Lines)
<1>1. Head(wire) \in Lines /\ Tail(wire) \in Seq(Lines)
  BY DEF AtInv, OnWire
<1>. QED  BY <1>1 DEF Lines
-----------------------------------------------------------------------------
\* The objects after c's response has been cleared.
LEMMA ClearedObj ==
  ASSUME AtInv, NEW c \in Callers, obj' = [obj EXCEPT ![c] = Unused(c)]
  PROVE  /\ Objects'
         /\ \A d \in Callers : obj'[d] = IF d = c THEN Unused(c) ELSE obj[d]
<1>1. \A d \in Callers : obj'[d] = IF d = c THEN Unused(c) ELSE obj[d]
  BY DEF AtInv, Objects, ObjShape
<1>2. obj' = [d \in Callers |-> obj'[d]]
  BY DEF AtInv, Objects, ObjShape
<1>3. \A d \in Callers : obj'[d] = [buf |-> obj'[d].buf, counts |-> obj'[d].counts,
                                    left |-> obj'[d].left]
  BY <1>1 DEF AtInv, Objects, ObjShape, Unused
<1>4. ObjShape'
  BY <1>2, <1>3 DEF ObjShape
<1>5. /\ DOMAIN Unused(c).buf = Bytes(c) /\ Unused(c).counts = 0
      /\ Unused(c).left = Timeout
  BY DEF Unused
<1>6. \A d \in Callers : /\ DOMAIN obj'[d].buf = Bytes(d)
                         /\ obj'[d].counts \in Nat /\ obj'[d].left \in 0..Timeout
  BY <1>1, <1>5 DEF AtInv, Objects
<1>7. Objects'
  BY <1>4, <1>6 DEF Objects, Bytes
<1>. QED  BY <1>1, <1>7

\* The objects after the tick, or after a new timeout for c.
LEMMA TimedObj ==
  ASSUME AtInv, NEW left \in [Callers -> 0..Timeout],
         obj' = [d \in Callers |-> [obj[d] EXCEPT !.left = left[d]]]
  PROVE  /\ Objects'
         /\ \A d \in Callers : obj'[d].buf = obj[d].buf /\ obj'[d].counts = obj[d].counts
<1>1. \A d \in Callers : obj'[d] = [buf |-> obj[d].buf, counts |-> obj[d].counts,
                                    left |-> left[d]]
  BY DEF AtInv, Objects, ObjShape
<1>2. obj' = [d \in Callers |-> [buf |-> obj'[d].buf, counts |-> obj'[d].counts,
                                 left |-> obj'[d].left]]
  BY <1>1
<1>. QED  BY <1>1, <1>2 DEF AtInv, Objects, ObjShape, Bytes

\* The lines counted after the next one.
Came == IF Fits(Head(wire)) THEN line_counts + 1 ELSE line_counts

\* A line for the response: the others are left alone, the bytes behind those
\* held become those of the line if it fits, and the number of lines is noted
\* when the response ends.
LEMMA ResponseObj ==
  ASSUME AtInv, ParseResponse
  PROVE  /\ Objects' /\ resp \in Callers
         /\ \A d \in Callers : d # resp => obj'[d] = obj[d]
         /\ obj'[resp].counts = IF resp' = None THEN Came ELSE obj[resp].counts
         /\ IF Fits(Head(wire))
              THEN \A i \in Bytes(resp) :
                     obj'[resp].buf[i] =
                       IF resp_buf_len <= i /\ i < resp_buf_len + Head(wire).len
                         THEN Byte(Head(wire), i - resp_buf_len + 1)
                         ELSE obj[resp].buf[i]
              ELSE obj'[resp].buf = obj[resp].buf
<1>. DEFINE line == Head(wire)
            old == obj[resp]
            copied == IF Fits(line) THEN [obj EXCEPT ![resp].buf = Copy(@, line)] ELSE obj
<1>1. resp \in Callers /\ resp # None /\ wire # << >>
  BY DEF ParseResponse, AtInv, Steps
<1>2. line.len \in Nat \ {0} /\ resp_buf_len \in Nat /\ line_counts \in Nat
      /\ BufSize[resp] \in Nat \ {0}
  BY <1>1, NextLine DEF AtInv, Held
<1>3. /\ DOMAIN obj = Callers /\ DOMAIN old.buf = Bytes(resp)
      /\ \A d \in Callers : obj[d] = [buf |-> obj[d].buf, counts |-> obj[d].counts,
                                      left |-> obj[d].left]
      /\ obj = [d \in Callers |-> obj[d]]
  BY <1>1 DEF AtInv, Objects, ObjShape
<1>. DEFINE b == IF Fits(line) THEN Copy(old.buf, line) ELSE old.buf
<1>4. /\ DOMAIN b = Bytes(resp)
      /\ Fits(line) =>
           \A i \in Bytes(resp) :
             b[i] = IF resp_buf_len <= i /\ i < resp_buf_len + line.len
                      THEN Byte(line, i - resp_buf_len + 1) ELSE old.buf[i]
  <2>1. CASE Fits(line)
    <3>0. PICK x \in Nat, y \in Nat \ {0}, z \in Nat \ {0} :
            x = resp_buf_len /\ y = line.len /\ z = BufSize[resp] /\ x + y < z
      BY <1>2, <2>1 DEF Fits
    <3>00. x + y < z
      BY <3>0
    <3>01. \A i \in x .. x + y - 1 : i \in 0 .. z - 1
      BY <3>00
    <3>1. \A i \in resp_buf_len .. resp_buf_len + line.len - 1 : i \in Bytes(resp)
      BY <3>0, <3>01 DEF Bytes
    <3>2. Bytes(resp) \cup (resp_buf_len .. resp_buf_len + line.len - 1) = Bytes(resp)
      BY <3>1
    <3>3. b = [i \in Bytes(resp) |->
                 IF i \in resp_buf_len .. resp_buf_len + line.len - 1
                   THEN Byte(line, i - resp_buf_len + 1) ELSE old.buf[i]]
      BY <1>3, <2>1, <3>2 DEF Copy
    <3>4. \A i \in Bytes(resp) : i \in resp_buf_len .. resp_buf_len + line.len - 1
             <=> resp_buf_len <= i /\ i < resp_buf_len + line.len
      BY <1>2 DEF Bytes
    <3>. HIDE DEF b, line
    <3>. QED  BY <3>3, <3>4
  <2>2. CASE ~Fits(line)
    BY <1>3, <2>2
  <2>. QED  BY <2>1, <2>2
<1>5. PICK m, r : /\ m = IF resp' = None THEN Came ELSE old.counts
                  /\ r = [buf |-> b, counts |-> m, left |-> old.left]
                  /\ obj' = [d \in Callers |-> IF d = resp THEN r ELSE obj[d]]
  <2>0. copied = [d \in Callers |-> IF d = resp THEN [buf |-> b, counts |-> old.counts,
                                                      left |-> old.left]
                                                ELSE obj[d]]
    <3>0. PICK q : q = Copy(old.buf, line)
      OBVIOUS
    <3>1. CASE Fits(line)
      <4>1. copied = [obj EXCEPT ![resp].buf = q]
        BY <3>0, <3>1
      <4>2. copied = [d \in Callers |-> IF d = resp THEN [old EXCEPT !.buf = q] ELSE obj[d]]
        BY <1>3, <4>1
      <4>3. old = [buf |-> old.buf, counts |-> old.counts, left |-> old.left]
        BY <1>1, <1>3
      <4>. HIDE DEF old, copied, b
      <4>4. [old EXCEPT !.buf = q] = [buf |-> q, counts |-> old.counts, left |-> old.left]
        <5>1. PICK f, g, h : old = [buf |-> f, counts |-> g, left |-> h]
          BY <4>3
        <5>. QED  BY <5>1
      <4>5. q = b
        BY <3>0, <3>1 DEF b
      <4>. QED  BY <4>2, <4>4, <4>5
    <3>2. CASE ~Fits(line)
      <4>1. copied = obj /\ b = old.buf
        BY <3>2
      <4>2. old = [buf |-> old.buf, counts |-> old.counts, left |-> old.left]
        BY <1>1, <1>3
      <4>. HIDE DEF copied, b
      <4>. QED  BY <1>3, <4>1, <4>2
    <3>. QED  BY <3>1, <3>2
  <2>1. \/ obj' = copied /\ resp' = resp
        \/ obj' = [copied EXCEPT ![resp].counts = Came] /\ resp' = None
    BY DEF ParseResponse, Came
  <2>. HIDE DEF copied, b
  <2>2. CASE obj' = copied /\ resp' = resp
    BY <1>1, <2>0, <2>2
  <2>3. CASE obj' = [copied EXCEPT ![resp].counts = Came] /\ resp' = None
    <3>. DEFINE q == [buf |-> b, counts |-> old.counts, left |-> old.left]
    <3>1. [q EXCEPT !.counts = Came] = [buf |-> b, counts |-> Came, left |-> old.left]
      OBVIOUS
    <3>2. copied[resp] = q /\ DOMAIN copied = Callers
          /\ \A d \in Callers : d # resp => copied[d] = obj[d]
      BY <1>1, <2>0
    <3>. HIDE DEF q
    <3>3. obj' = [d \in Callers |-> IF d = resp THEN [q EXCEPT !.counts = Came] ELSE obj[d]]
      BY <2>3, <3>2
    <3>4. PICK r : r = [q EXCEPT !.counts = Came]
      OBVIOUS
    <3>5. r = [buf |-> b, counts |-> Came, left |-> old.left]
      BY <3>1, <3>4 DEF q
    <3>6. obj' = [d \in Callers |-> IF d = resp THEN r ELSE obj[d]]
      BY <3>3, <3>4
    <3>7. Came = IF resp' = None THEN Came ELSE old.counts
      BY <2>3
    <3>. HIDE DEF old
    <3>. WITNESS Came, r
    <3>. QED  BY <3>5, <3>6, <3>7
  <2>. QED  BY <2>1, <2>2, <2>3
<1>. HIDE DEF b, line, old, copied
<1>6. \A d \in Callers : obj'[d] = IF d = resp THEN r ELSE obj[d]
  BY <1>5
<1>7. r.buf = b /\ r.counts = m /\ r.left = old.left
      /\ r = [buf |-> r.buf, counts |-> r.counts, left |-> r.left]
  BY <1>5
<1>8. obj' = [d \in Callers |-> [buf |-> obj'[d].buf, counts |-> obj'[d].counts,
                                 left |-> obj'[d].left]]
  BY <1>3, <1>5, <1>6, <1>7
<1>9. m \in Nat
  <2>1. Came \in Nat
    BY <1>2 DEF Came
  <2>2. old.counts \in Nat
    BY <1>1 DEF AtInv, Objects, old
  <2>. QED  BY <1>5, <2>1, <2>2
<1>10. Objects'
  <2>1. ObjShape'
    BY <1>8 DEF ObjShape
  <2>2. \A d \in Callers : /\ DOMAIN obj'[d].buf = Bytes(d)
                           /\ obj'[d].counts \in Nat /\ obj'[d].left \in 0..Timeout
    BY <1>1, <1>4, <1>6, <1>7, <1>9 DEF AtInv, Objects, old
  <2>. QED  BY <2>1, <2>2 DEF Objects, Bytes
<1>11. obj'[resp] = r
  BY <1>1, <1>6
<1>12. obj'[resp].counts = IF resp' = None THEN Came ELSE obj[resp].counts
  BY <1>5, <1>7, <1>11 DEF old
<1>13. IF Fits(line)
         THEN \A i \in Bytes(resp) :
                obj'[resp].buf[i] = IF resp_buf_len <= i /\ i < resp_buf_len + line.len
                                      THEN Byte(line, i - resp_buf_len + 1)
                                      ELSE obj[resp].buf[i]
         ELSE obj'[resp].buf = obj[resp].buf
  <2>1. obj'[resp].buf = b
    BY <1>7, <1>11
  <2>2. ~Fits(line) => b = old.buf
    BY DEF b
  <2>. QED  BY <1>4, <2>1, <2>2 DEF old
<1>. QED  BY <1>1, <1>6, <1>10, <1>12, <1>13 DEF line
-----------------------------------------------------------------------------
\* A step that leaves the objects alone.
LEMMA SameObj ==
  ASSUME AtInv, obj' = obj
  PROVE  Objects'
BY DEF AtInv, Objects, ObjShape, Bytes

\* No response object is in use at the start.
LEMMA InvInit == AtInit => AtInv
<1> SUFFICES ASSUME AtInit PROVE AtInv
  OBVIOUS
<1>1. \A c \in Callers : obj[c] = Unused(c)
  BY DEF AtInit
<1>2. Objects
  BY <1>1 DEF AtInit, Objects, ObjShape, Unused
<1>3. Steps /\ Waiting /\ Held /\ OnWire
  BY DEF AtInit, Steps, Waiting, RespIsWaited, Held, OnWire
<1>4. Flags
  BY Zenon DEF AtInit, Flags
<1>. QED  BY <1>2, <1>3, <1>4 DEF AtInv

\* Who waits for what: only Call and Finish change it, and only Send and the
\* end of a command change what the parser writes into.
LEMMA WaitingStep == AtInv /\ [AtNext]_vars => Waiting'
<1> SUFFICES ASSUME AtInv, [AtNext]_vars PROVE Waiting'
  OBVIOUS
<1>. USE DEF AtInv, Waiting, RespIsWaited, client, callers
<1>1. ASSUME NEW c \in Callers, Call(c) PROVE Waiting'
  BY <1>1 DEF Call
<1>2. ASSUME NEW c \in Callers, Send(c) PROVE Waiting'
  BY <1>2 DEF Send
<1>3. ASSUME NEW c \in Callers, Notice(c) PROVE Waiting'
  BY <1>3 DEF Notice
<1>4. ASSUME NEW c \in Callers, Finish(c) PROVE Waiting'
  BY <1>4 DEF Finish
<1>5. CASE Tick
  BY <1>5 DEF Tick
<1>6. CASE Parse
  <2>1. CASE ParseUrc
    BY <2>1 DEF ParseUrc
  <2>2. CASE ParseResponse
    BY <2>2 DEF ParseResponse
  <2>3. CASE ParseUnknown
    BY <2>3 DEF ParseUnknown
  <2>. QED  BY <1>6, <2>1, <2>2, <2>3 DEF Parse
<1>7. ASSUME NEW kind, Noise(kind) PROVE Waiting'
  BY <1>7 DEF Noise
<1>8. CASE Cli
  BY <1>8 DEF Cli, EnterCli, CliPrint, CliSend, ExitCli
<1>9. CASE UNCHANGED vars
  BY <1>9 DEF vars
<1>. QED
  BY <1>1, <1>2, <1>3, <1>4, <1>5, <1>6, <1>7, <1>8, <1>9 DEF AtNext, Poll

\* The response objects.
LEMMA ObjectsStep == AtInv /\ [AtNext]_vars => Objects'
<1> SUFFICES ASSUME AtInv, [AtNext]_vars PROVE Objects'
  OBVIOUS
<1>1. ASSUME NEW c \in Callers, Call(c) PROVE Objects'
  BY <1>1, SameObj DEF Call
<1>2. ASSUME NEW c \in Callers, Send(c) PROVE Objects'
  <2> DEFINE left == [d \in Callers |-> IF d = c THEN Timeout ELSE obj[d].left]
  <2>1. left \in [Callers -> 0..Timeout]
    BY DEF AtInv, Objects
  <2>2. obj' = [obj EXCEPT ![c].left = Timeout]
    BY <1>2 DEF Send
  <2>3. obj' = [d \in Callers |-> [obj[d] EXCEPT !.left = left[d]]]
    <3>1. obj = [d \in Callers |-> obj[d]]
      BY DEF AtInv, Objects, ObjShape
    <3>2. obj' = [d \in Callers |-> IF d = c THEN [obj[d] EXCEPT !.left = Timeout]
                                              ELSE obj[d]]
      BY <2>2, <3>1
    <3>3. \A d \in Callers : obj[d] = [obj[d] EXCEPT !.left = obj[d].left]
      BY DEF AtInv, Objects, ObjShape
    <3>. QED  BY <3>2, <3>3
  <2>. HIDE DEF left
  <2>. QED  BY <2>1, <2>3, TimedObj
<1>3. ASSUME NEW c \in Callers, Notice(c) PROVE Objects'
  BY <1>3, SameObj DEF Notice
<1>4. ASSUME NEW c \in Callers, Finish(c) PROVE Objects'
  BY <1>4, ClearedObj DEF Finish
<1>5. CASE Tick
  <2> DEFINE left == [d \in Callers |-> IF Counting(d) THEN obj[d].left - 1 ELSE obj[d].left]
  <2>1. \A d \in Callers : obj[d].left \in 0..Timeout
    BY DEF AtInv, Objects
  <2>2. left \in [Callers -> 0..Timeout]
    <3>1. ASSUME NEW x \in 0..Timeout, x # 0  PROVE x - 1 \in 0..Timeout
      BY <3>1
    <3>2. \A d \in Callers : Counting(d) => obj[d].left # 0
      BY DEF Counting, Expired
    <3>3. \A d \in Callers : (IF Counting(d) THEN obj[d].left - 1 ELSE obj[d].left) \in 0..Timeout
      BY <2>1, <3>1, <3>2
    <3>. QED  BY <3>3
  <2>3. \A d \in Callers : obj[d] = [obj[d] EXCEPT !.left = obj[d].left]
    BY DEF AtInv, Objects, ObjShape
  <2>4. obj' = [d \in Callers |-> [obj[d] EXCEPT !.left = left[d]]]
    BY <1>5, <2>3 DEF Tick
  <2>. HIDE DEF left
  <2>. QED  BY <2>2, <2>4, TimedObj
<1>6. CASE ParseUrc
  BY <1>6, SameObj DEF ParseUrc
<1>7. CASE ParseResponse
  BY <1>7, ResponseObj
<1>8. CASE ParseUnknown
  BY <1>8, SameObj DEF ParseUnknown
<1>9. ASSUME NEW kind, Noise(kind) PROVE Objects'
  BY <1>9, SameObj DEF Noise
<1>10. CASE Cli
  BY <1>10, SameObj DEF Cli, EnterCli, CliPrint, CliSend, ExitCli
<1>11. CASE UNCHANGED vars
  BY <1>11, SameObj DEF vars
<1>. QED
  BY <1>1, <1>2, <1>3, <1>4, <1>5, <1>6, <1>7, <1>8, <1>9, <1>10, <1>11
     DEF AtNext, Poll, Parse

\* The steps of a command.
LEMMA StepsStep == AtInv /\ [AtNext]_vars => Steps'
<1> SUFFICES ASSUME AtInv, [AtNext]_vars PROVE Steps'
  OBVIOUS
<1>. USE DEF AtInv, Steps, client
<1>1. ASSUME NEW c \in Callers, Call(c) PROVE Steps'
  BY <1>1 DEF Call
<1>2. ASSUME NEW c \in Callers, Send(c) PROVE Steps'
  BY <1>2 DEF Send
<1>3. ASSUME NEW c \in Callers, Notice(c) PROVE Steps'
  BY <1>3 DEF Notice
<1>4. ASSUME NEW c \in Callers, Finish(c) PROVE Steps'
  BY <1>4 DEF Finish
<1>5. CASE Tick
  BY <1>5 DEF Tick
<1>6. CASE ParseUrc
  BY <1>6 DEF ParseUrc
<1>7. CASE ParseResponse
  <2> DEFINE line == Head(wire)
  <2>1. Ends(line, Came) \subseteq {"OK", "ERROR"}
    BY DEF Ends
  <2>2. resp' \in {resp, None}
    BY <1>7 DEF ParseResponse
  <2>3. resp_status' \in {resp_status, "BUFF_FULL"} \cup Ends(line, Came)
    BY <1>7 DEF ParseResponse, Came
  <2>4. UNCHANGED <<mode, saved, exec_step>>
    BY <1>7 DEF ParseResponse
  <2>. HIDE DEF line
  <2>. QED  BY <2>1, <2>2, <2>3, <2>4
<1>8. CASE ParseUnknown
  BY <1>8 DEF ParseUnknown
<1>9. ASSUME NEW kind, Noise(kind) PROVE Steps'
  BY <1>9 DEF Noise
<1>10. CASE Cli
  BY <1>10 DEF Cli, EnterCli, CliPrint, CliSend, ExitCli
<1>11. CASE UNCHANGED vars
  BY <1>11 DEF vars
<1>. QED
  BY <1>1, <1>2, <1>3, <1>4, <1>5, <1>6, <1>7, <1>8, <1>9, <1>10, <1>11
     DEF AtNext, Poll, Parse

\* The lock goes with exec_step, whoever gives a command up.
LEMMA FlagsStep == AtInv /\ [AtNext]_vars => Flags'
<1> SUFFICES ASSUME AtInv, [AtNext]_vars PROVE Flags'
  OBVIOUS
<1>. USE DEF AtInv, Flags, client
<1>0. 1 # 0 /\ 2 # 0
  OBVIOUS
<1>1. ASSUME NEW c \in Callers, Call(c) PROVE Flags'
  BY <1>1, Zenon DEF Call
<1>2. ASSUME NEW c \in Callers, Send(c) PROVE Flags'
  BY <1>0, <1>2, Zenon DEF Send
<1>3. ASSUME NEW c \in Callers, Notice(c) PROVE Flags'
  BY <1>0, <1>3, Zenon DEF Notice
<1>4. ASSUME NEW c \in Callers, Finish(c) PROVE Flags'
  BY <1>4, Zenon DEF Finish
<1>5. CASE Tick
  BY <1>5, Zenon DEF Tick
<1>6. CASE ParseUrc
  BY <1>6, Zenon DEF ParseUrc
<1>7. CASE ParseResponse
  BY <1>7, Zenon DEF ParseResponse
<1>8. CASE ParseUnknown
  BY <1>8, Zenon DEF ParseUnknown
<1>9. ASSUME NEW kind, Noise(kind) PROVE Flags'
  BY <1>9, Zenon DEF Noise
<1>10. CASE Cli
  <2>1. CASE EnterCli
    BY <2>1, Zenon DEF EnterCli
  <2>2. CASE CliPrint
    BY <2>2, Zenon DEF CliPrint
  <2>3. CASE CliSend
    BY <2>3, Zenon DEF CliSend
  <2>4. CASE ExitCli
    BY <2>4, Zenon DEF ExitCli
  <2>. QED  BY <1>10, <2>1, <2>2, <2>3, <2>4 DEF Cli
<1>11. CASE UNCHANGED vars
  BY <1>11, Zenon DEF vars
<1>. QED
  BY <1>1, <1>2, <1>3, <1>4, <1>5, <1>6, <1>7, <1>8, <1>9, <1>10, <1>11
     DEF AtNext, Poll, Parse

\* What the parser holds grows by a line and by at least one byte.
LEMMA HeldStep == AtInv /\ [AtNext]_vars => Held'
<1> SUFFICES ASSUME AtInv, [AtNext]_vars PROVE Held'
  OBVIOUS
<1>1. ASSUME UNCHANGED parser  PROVE Held'
  BY <1>1 DEF AtInv, Held, parser
<1>2. CASE ParseResponse
  <2>1. Head(wire).len \in Nat \ {0} /\ resp_buf_len \in Nat /\ line_counts \in 0..resp_buf_len
    BY <1>2, NextLine DEF ParseResponse, AtInv, Held
  <2>2. \/ line_counts' = 0 /\ resp_buf_len' = 0
        \/ UNCHANGED parser
        \/ line_counts' = line_counts + 1 /\ resp_buf_len' = resp_buf_len + Head(wire).len
    BY <1>2 DEF ParseResponse, parser
  <2>. QED  BY <1>1, <2>1, <2>2 DEF Held
<1>3. CASE ParseUnknown
  BY <1>3 DEF ParseUnknown, Held
<1>4. \/ UNCHANGED parser \/ ParseResponse \/ ParseUnknown
  BY DEF AtNext, Call, Poll, Send, Notice, Finish, Tick, Parse, ParseUrc, Noise, Cli,
         EnterCli, CliPrint, CliSend, ExitCli, vars
<1>. QED  BY <1>1, <1>2, <1>3, <1>4

\* What is on the wire stays a sequence of lines.
LEMMA OnWireStep == AtInv /\ [AtNext]_vars => OnWire'
<1> SUFFICES ASSUME AtInv, [AtNext]_vars PROVE OnWire'
  OBVIOUS
<1>0. wire \in Seq(Lines)
  BY DEF AtInv, OnWire
<1>1. ASSUME wire' = wire \/ (wire # << >> /\ wire' = Tail(wire))  PROVE OnWire'
  BY <1>0, <1>1, NextLine DEF OnWire
<1>2. ASSUME NEW c \in Callers, Send(c)  PROVE OnWire'
  <2>1. PICK a \in Answers(<<c, cmd[c]>>) : wire' = wire \o a
    BY <1>2 DEF Send
  <2>2. <<c, cmd[c]>> \in (Callers \X Nat) \cup {None}
    BY <1>2 DEF Send, AtInv, Waiting
  <2>3. a \in Seq(Lines)
    BY <2>2, AnswersGood
  <2>. QED  BY <1>0, <2>1, <2>3 DEF OnWire
<1>3. ASSUME NEW kind \in {"urc", "other"}, Noise(kind)  PROVE OnWire'
  <2>1. PICK x : x = KindLine(None, 0, kind)
    OBVIOUS
  <2>2. x \in Lines
    BY <2>1, KindLineIs
  <2>3. wire' = Append(wire, x)
    BY <1>3, <2>1 DEF Noise
  <2>. QED  BY <1>0, <2>2, <2>3 DEF OnWire
<1>4. CASE CliSend
  <2>1. PICK a \in Answers(None) : wire' = wire \o a
    BY <1>4 DEF CliSend
  <2>2. a \in Seq(Lines)
    BY AnswersGood
  <2>. QED  BY <1>0, <2>1, <2>2 DEF OnWire
<1>5. \/ wire' = wire \/ (wire # << >> /\ wire' = Tail(wire))
      \/ CliSend
      \/ \E c \in Callers : Send(c)
      \/ \E kind \in {"urc", "other"} : Noise(kind)
  BY DEF AtNext, Call, Poll, Notice, Finish, Tick, Parse, ParseUrc, ParseResponse,
         ParseUnknown, Received, Cli, EnterCli, CliPrint, ExitCli, vars
<1>. QED  BY <1>1, <1>2, <1>3, <1>4, <1>5

\* Every step of the callers, the parser and the modem keeps AtInv.
LEMMA InvStep == AtInv /\ [AtNext]_vars => AtInv'
BY ObjectsStep, StepsStep, HeldStep, OnWireStep, WaitingStep, FlagsStep DEF AtInv

\* AtInv is an invariant.
LEMMA InvAlways == AtSpec => []AtInv
BY InvInit, InvStep, PTL DEF AtSpec

-----------------------------------------------------------------------------
\* The type invariant: above all, the offset at which at_client.c:725-731
\* writes a line never leaves the buffer of the response, however large that
\* is, whatever was given up with the offset in a larger one.
THEOREM TypeCorrect == AtSpec => []TypeOK
<1>1. AtInv => TypeOK
  BY DEF AtInv, Objects, Steps, Held, Flags, TypeOK
<1>. QED  BY <1>1, InvAlways, PTL

\* The parser never writes into a response whose caller has returned and may
\* have deleted it.
THEOREM NoWriteAfterReturn == AtSpec => []RespIsWaited
<1>1. AtInv => RespIsWaited
  BY DEF AtInv, Waiting
<1>. QED  BY <1>1, InvAlways, PTL
-----------------------------------------------------------------------------
(* Whose lines a response holds.                                           *)

HIDE AtClientAssumption

\* On the line w are p unsolicited lines, then what is left of the answer a
\* behind its first k lines, then unsolicited lines again.
Remains(w, a, k, p) ==
  /\ p + (Len(a) - k) <= Len(w)
  /\ \A i \in 1 .. Len(w) :
       \/ (i <= p \/ p + (Len(a) - k) < i) /\ w[i].kind = "urc"
       \/ p < i /\ i <= p + (Len(a) - k) /\ w[i] = a[k + (i - p)]

\* Line i of the answer a fits behind those kept before it in a buffer of size
\* bytes, where at[i] is the end of the lines up to i.
Keeps(size, a, i, at) == at[i - 1] + a[i].len < size
KeptIn(size, a, n, at) == {i \in 1 .. n : Keeps(size, a, i, at)}

\* The first n lines of a are in the buffer b, those that fit.
LaidIn(b, size, a, n, at) ==
  /\ at[0] = 0
  /\ \A i \in 1 .. n :
       IF Keeps(size, a, i, at)
         THEN /\ at[i] = at[i - 1] + a[i].len
              /\ \A j \in 1 .. a[i].len : b[at[i - 1] + j - 1] = Byte(a[i], j)
         ELSE at[i] = at[i - 1]

\* The buffer holds the first k lines of the answer that fit, which are n and
\* end in front of off.
CopiedAt(b, size, a, n, off, k, at) ==
  /\ at \in [0 .. k -> 0 .. size - 1]
  /\ LaidIn(b, size, a, k, at)
  /\ at[k] = off
  /\ \A i \in 0 .. k : at[i] <= off
  /\ n = Cardinality(KeptIn(size, a, k, at))
Copied(b, size, a, n, off, k) == \E at : CopiedAt(b, size, a, n, off, k, at)

\* The n-th line of the answer ends the response of c with the status.
EndsIt(c, a, n, at, status) ==
  IF a[n].kind = "error" THEN status = "ERROR"
  ELSE /\ status = "OK"
       /\ IF LineNum[c] = 0 THEN a[n].kind = "ok"
          ELSE /\ Keeps(BufSize[c], a, n, at)
               /\ Cardinality(KeptIn(BufSize[c], a, n, at)) = LineNum[c]

\* What a caller is about to be handed: r is the answer a to its command.
IsAnswer(c, r, a, status) ==
  \E n \in DOMAIN a : \E at \in [0 .. n -> Bytes(c)] :
    /\ LaidIn(r.buf, BufSize[c], a, n, at)
    /\ r.counts = Cardinality(KeptIn(BufSize[c], a, n, at))
    /\ EndsIt(c, a, n, at, status)

Handed == IsAnswer(asked, obj[asked], answer, resp_status)

Receiving ==
  /\ resp = asked
  /\ LineNum[asked] # 0 => line_counts # LineNum[asked]
  /\ \E k \in 0 .. Len(answer), p \in 0 .. Len(wire) :
       /\ Remains(wire, answer, k, p)
       /\ Copied(obj[asked].buf, BufSize[asked], answer, line_counts, resp_buf_len, k)

Answered == resp = None /\ line_counts = 0 /\ Handed

Own ==
  /\ GoodAnswer(answer)
  /\ resp_notice => resp = None
  /\ exec_step = 0 => resp = None /\ (~strange => line_counts = 0)
  /\ exec_step # 0 /\ ~strange => mode # "CLI" /\ asked \in Callers
  /\ exec_step = 1 /\ ~strange => Receiving \/ (resp_notice /\ Answered)
  /\ exec_step = 2 /\ ~strange => Answered

\* A command is sent behind unsolicited lines.
LEMMA SentBehind ==
  ASSUME NEW w \in Seq(Lines), \A i \in 1 .. Len(w) : w[i].kind = "urc",
         NEW a \in Seq(Lines)
  PROVE  Remains(w \o a, a, 0, Len(w)) /\ Len(w) \in 0 .. Len(w \o a)
<1>1. Len(w \o a) = Len(w) + Len(a) /\ Len(w) \in Nat /\ Len(a) \in Nat
  OBVIOUS
<1>2. \A i \in 1 .. Len(w) + Len(a) :
        (w \o a)[i] = IF i <= Len(w) THEN w[i] ELSE a[i - Len(w)]
  OBVIOUS
<1>. QED  BY <1>1, <1>2 DEF Remains

\* The modem adds an unsolicited line.
LEMMA NoiseBehind ==
  ASSUME NEW w \in Seq(Lines), NEW a \in Seq(Lines), NEW k \in 0 .. Len(a),
         NEW p \in 0 .. Len(w), Remains(w, a, k, p),
         NEW x \in Lines, x.kind = "urc"
  PROVE  Remains(Append(w, x), a, k, p) /\ p \in 0 .. Len(Append(w, x))
<1>1. Len(Append(w, x)) = Len(w) + 1 /\ Len(w) \in Nat /\ Len(a) \in Nat
  OBVIOUS
<1>2. \A i \in 1 .. Len(w) + 1 : Append(w, x)[i] = IF i <= Len(w) THEN w[i] ELSE x
  OBVIOUS
<1>3. p + (Len(a) - k) <= Len(w) /\ p + (Len(a) - k) \in Nat
  BY <1>1 DEF Remains
<1>4. ASSUME NEW i \in 1 .. Len(w) + 1
      PROVE  \/ (i <= p \/ p + (Len(a) - k) < i) /\ Append(w, x)[i].kind = "urc"
             \/ /\ p < i /\ i <= p + (Len(a) - k)
                /\ Append(w, x)[i] = a[k + (i - p)]
  <2>1. CASE i <= Len(w)
    BY <1>1, <1>2, <2>1 DEF Remains
  <2>2. CASE i = Len(w) + 1
    BY <1>1, <1>2, <1>3, <2>2
  <2>. QED  BY <1>1, <2>1, <2>2
<1>5. p + (Len(a) - k) <= Len(Append(w, x))
  BY <1>1, <1>3
<1>. QED  BY <1>1, <1>4, <1>5 DEF Remains

\* The parser takes an unsolicited line.
LEMMA UrcTaken ==
  ASSUME NEW w \in Seq(Lines), w # << >>, NEW a, GoodAnswer(a),
         NEW k \in 0 .. Len(a), NEW p \in 0 .. Len(w), Remains(w, a, k, p),
         Head(w).kind = "urc"
  PROVE  \E q \in 0 .. Len(Tail(w)) : Remains(Tail(w), a, k, q)
<1>1. /\ Len(Tail(w)) = Len(w) - 1 /\ Len(w) \in Nat /\ Len(a) \in Nat
      /\ Len(w) >= 1 /\ Head(w) = w[1]
  BY DEF GoodAnswer
<1>2. \A i \in 1 .. Len(w) - 1 : Tail(w)[i] = w[i + 1]
  OBVIOUS
<1>3. p = 0 => k = Len(a)
  <2>. SUFFICES ASSUME p = 0, k < Len(a)  PROVE FALSE
    BY <1>1
  <2>1. w[1] = a[k + 1]
    BY <1>1 DEF Remains
  <2>2. a[k + 1].kind # "urc"
    BY <1>1 DEF GoodAnswer
  <2>. QED  BY <1>1, <2>1, <2>2
<1>4. CASE p > 0
  <2>1. Remains(Tail(w), a, k, p - 1)
    BY <1>1, <1>2, <1>4 DEF Remains
  <2>. QED  BY <1>1, <1>4, <2>1
<1>5. CASE p = 0
  <2>1. Remains(Tail(w), a, k, 0)
    BY <1>1, <1>2, <1>3, <1>5 DEF Remains
  <2>. QED  BY <1>1, <2>1
<1>. QED  BY <1>4, <1>5

\* The parser takes a line of the answer, and it is the next one.
LEMMA LineTaken ==
  ASSUME NEW w \in Seq(Lines), w # << >>, NEW a, GoodAnswer(a),
         NEW k \in 0 .. Len(a), NEW p \in 0 .. Len(w), Remains(w, a, k, p),
         Head(w).kind # "urc"
  PROVE  /\ k + 1 \in 0 .. Len(a) /\ Head(w) = a[k + 1]
         /\ Remains(Tail(w), a, k + 1, 0)
<1>1. /\ Len(Tail(w)) = Len(w) - 1 /\ Len(w) \in Nat /\ Len(a) \in Nat
      /\ Len(w) >= 1 /\ Head(w) = w[1]
  BY DEF GoodAnswer
<1>2. \A i \in 1 .. Len(w) - 1 : Tail(w)[i] = w[i + 1]
  OBVIOUS
<1>3. p = 0 /\ 1 <= Len(a) - k /\ w[1] = a[k + 1]
  BY <1>1 DEF Remains
<1>4. Remains(Tail(w), a, k + 1, 0)
  <2>1. 0 + (Len(a) - (k + 1)) <= Len(Tail(w))
    BY <1>1, <1>3 DEF Remains
  <2>2. ASSUME NEW i \in 1 .. Len(Tail(w))
        PROVE  \/ Len(a) - (k + 1) < i /\ Tail(w)[i].kind = "urc"
               \/ /\ i <= Len(a) - (k + 1)
                  /\ Tail(w)[i] = a[(k + 1) + i]
    <3>1. i + 1 \in 1 .. Len(w) /\ Tail(w)[i] = w[i + 1] /\ i \in Nat
      BY <1>1, <1>2
    <3>2. \/ Len(a) - k < i + 1 /\ w[i + 1].kind = "urc"
          \/ i + 1 <= Len(a) - k /\ w[i + 1] = a[k + (i + 1)]
      BY <1>1, <1>3, <3>1 DEF Remains
    <3>3. k + (i + 1) = (k + 1) + i
      BY <3>1
    <3>. QED  BY <1>1, <3>1, <3>2, <3>3
  <2>3. \A i \in 1 .. Len(Tail(w)) : i - 0 = i /\ 0 < i
    OBVIOUS
  <2>. QED  BY <1>1, <2>1, <2>2, <2>3 DEF Remains
<1>. QED  BY <1>1, <1>3, <1>4

\* Lines that fit are numbered from one.
LEMMA KeptFinite ==
  ASSUME NEW size, NEW a, NEW n \in Nat, NEW at
  PROVE  IsFiniteSet(KeptIn(size, a, n, at)) /\ Cardinality(KeptIn(size, a, n, at)) \in Nat
<1>1. IsFiniteSet(1 .. n)
  BY FS_Interval
<1>2. KeptIn(size, a, n, at) \subseteq 1 .. n
  BY DEF KeptIn
<1>. QED  BY <1>1, <1>2, FS_Subset, FS_CardinalityType

\* Before the first line nothing is in the buffer.
LEMMA NoneCopied ==
  ASSUME NEW b, NEW size \in Nat \ {0}, NEW a
  PROVE  Copied(b, size, a, 0, 0, 0)
<1>. DEFINE at == [i \in 0 .. 0 |-> 0]
<1>1. at \in [0 .. 0 -> 0 .. size - 1] /\ at[0] = 0 /\ \A i \in 0 .. 0 : at[i] <= 0
  OBVIOUS
<1>. HIDE DEF at
<1>2. KeptIn(size, a, 0, at) = {} /\ \A i \in 1 .. 0 : FALSE
  BY DEF KeptIn
<1>3. Cardinality(KeptIn(size, a, 0, at)) = 0
  BY <1>2, FS_EmptySet
<1>4. LaidIn(b, size, a, 0, at)
  BY <1>1, <1>2 DEF LaidIn
<1>5. CopiedAt(b, size, a, 0, 0, 0, at)
  BY <1>1, <1>3, <1>4 DEF CopiedAt
<1>. QED  BY <1>5 DEF Copied

\* A line for a buffer with n lines in it that end in front of off: the buffer,
\* the number and the end afterwards.
Appended(size, line, b, n, off, b2, n2, off2) ==
  IF off + line.len < size
    THEN /\ n2 = n + 1 /\ off2 = off + line.len
         /\ \A i \in 0 .. size - 1 :
              b2[i] = IF off <= i /\ i < off + line.len THEN Byte(line, i - off + 1) ELSE b[i]
    ELSE n2 = n /\ off2 = off /\ b2 = b

\* The next line of the answer: if it fits it is written where the last one
\* that did ended, and nothing of those is lost.
LEMMA NextCopied ==
  ASSUME NEW size \in Nat \ {0}, NEW a, GoodAnswer(a), NEW k \in Nat, k + 1 <= Len(a),
         NEW b, NEW n \in Nat, NEW off \in Nat, Copied(b, size, a, n, off, k),
         NEW b2, NEW n2, NEW off2, Appended(size, a[k + 1], b, n, off, b2, n2, off2)
  PROVE  \E at : /\ CopiedAt(b2, size, a, n2, off2, k + 1, at)
                 /\ Keeps(size, a, k + 1, at) <=> n2 # n
<1>0. PICK len \in Nat \ {0} : len = a[k + 1].len
  <2>1. Len(a) \in Nat /\ k + 1 \in 1 .. Len(a)
    BY DEF GoodAnswer
  <2>2. a[k + 1] \in Lines
    BY <2>1 DEF GoodAnswer
  <2>. QED  BY <2>2 DEF Lines
<1>01. /\ off + len < size =>
            /\ n2 = n + 1 /\ off2 = off + len
            /\ \A i \in 0 .. size - 1 :
                 b2[i] = IF off <= i /\ i < off + len THEN Byte(a[k + 1], i - off + 1) ELSE b[i]
       /\ ~(off + len < size) => n2 = n /\ off2 = off /\ b2 = b
  BY <1>0 DEF Appended
<1>1. PICK at : CopiedAt(b, size, a, n, off, k, at)
  BY DEF Copied
<1>. DEFINE at2 == [i \in 0 .. k + 1 |-> IF i <= k THEN at[i] ELSE off2]
<1>2. /\ \A i \in 0 .. k : at[i] \in 0 .. size - 1 /\ at[i] <= off
      /\ at[k] = off /\ at[0] = 0
      /\ n = Cardinality(KeptIn(size, a, k, at))
      /\ off <= size - 1
  <2>1. k \in 0 .. k
    OBVIOUS
  <2>2. /\ \A i \in 0 .. k : at[i] \in 0 .. size - 1 /\ at[i] <= off
        /\ at[k] = off /\ at[0] = 0
        /\ n = Cardinality(KeptIn(size, a, k, at))
    BY <1>1 DEF CopiedAt, LaidIn
  <2>. QED  BY <2>1, <2>2
<1>3. off2 \in 0 .. size - 1 /\ off <= off2
  BY <1>01, <1>2
<1>4. /\ \A i \in 0 .. k : at2[i] = at[i]
      /\ at2[k + 1] = off2
      /\ at2 \in [0 .. k + 1 -> 0 .. size - 1]
  BY <1>2, <1>3
<1>. HIDE DEF at2
<1>5. \A i \in 1 .. k : i - 1 \in 0 .. k /\ i \in 0 .. k
  OBVIOUS
<1>6. \A i \in 1 .. k : Keeps(size, a, i, at2) <=> Keeps(size, a, i, at)
  BY <1>4, <1>5 DEF Keeps
<1>7. Keeps(size, a, k + 1, at2) <=> off + len < size
  <2>1. at2[k] = off
    BY <1>2, <1>4
  <2>2. (k + 1) - 1 = k
    OBVIOUS
  <2>3. Keeps(size, a, k + 1, at2) <=> at2[(k + 1) - 1] + a[k + 1].len < size
    BY DEF Keeps
  <2>. QED  BY <1>0, <2>1, <2>2, <2>3
<1>8. n2 = Cardinality(KeptIn(size, a, k + 1, at2))
  <2>. DEFINE S == KeptIn(size, a, k, at)
              T == KeptIn(size, a, k + 1, at2)
  <2>1. IsFiniteSet(S) /\ Cardinality(S) = n
    BY <1>2, KeptFinite
  <2>2. k + 1 \notin S
    BY DEF KeptIn
  <2>3. \A i \in 1 .. k + 1 : i \in 1 .. k \/ i = k + 1
    OBVIOUS
  <2>4. CASE off + len < size
    <3>1. T = S \cup {k + 1}
      BY <1>6, <1>7, <2>3, <2>4 DEF KeptIn
    <3>. HIDE DEF S, T
    <3>2. Cardinality(T) = n + 1
      BY <2>1, <2>2, <3>1, FS_AddElement
    <3>. QED  BY <1>01, <2>4, <3>2 DEF T
  <2>5. CASE ~(off + len < size)
    <3>1. T = S
      BY <1>6, <1>7, <2>3, <2>5 DEF KeptIn
    <3>. QED  BY <1>01, <2>1, <2>5, <3>1
  <2>. QED  BY <2>4, <2>5
<1>9. \A i \in 0 .. k + 1 : at2[i] <= off2
  <2>1. ASSUME NEW i \in 0 .. k  PROVE at2[i] <= off2
    <3>1. at2[i] = at[i] /\ at[i] \in 0 .. size - 1 /\ at[i] <= off
      BY <1>2, <1>4
    <3>. QED  BY <1>3, <3>1
  <2>2. at2[k + 1] <= off2
    BY <1>3, <1>4
  <2>3. \A i \in 0 .. k + 1 : i \in 0 .. k \/ i = k + 1
    OBVIOUS
  <2>. QED  BY <2>1, <2>2, <2>3
<1>10. LaidIn(b2, size, a, k + 1, at2)
  <2>1. at2[0] = 0
    BY <1>2, <1>4
  <2>2. \A i \in 1 .. k + 1 : i \in 1 .. k \/ i = k + 1
    OBVIOUS
  <2>3. ASSUME NEW i \in 1 .. k
        PROVE  IF Keeps(size, a, i, at2)
                 THEN /\ at2[i] = at2[i - 1] + a[i].len
                      /\ \A j \in 1 .. a[i].len : b2[at2[i - 1] + j - 1] = Byte(a[i], j)
                 ELSE at2[i] = at2[i - 1]
    <3>1. at2[i] = at[i] /\ at2[i - 1] = at[i - 1]
      BY <1>4, <1>5
    <3>2. IF Keeps(size, a, i, at)
            THEN /\ at[i] = at[i - 1] + a[i].len
                 /\ \A j \in 1 .. a[i].len : b[at[i - 1] + j - 1] = Byte(a[i], j)
            ELSE at[i] = at[i - 1]
      BY <1>1 DEF CopiedAt, LaidIn
    <3>3. CASE ~Keeps(size, a, i, at)
      BY <1>6, <3>1, <3>2, <3>3
    <3>4. CASE Keeps(size, a, i, at)
      <4>1. a[i].len \in Nat
        <5>1. i \in 1 .. Len(a)
          <6>1. Len(a) \in Nat
            BY DEF GoodAnswer
          <6>. QED  BY <6>1
        <5>2. a[i] \in Lines
          BY <5>1 DEF GoodAnswer
        <5>. QED  BY <5>2 DEF Lines
      <4>2. PICK x \in Nat, y \in Nat : x = at[i - 1] /\ y = a[i].len
        BY <1>2, <1>5, <4>1
      <4>3. x + y <= off
        <5>1. at[i] = x + y
          BY <3>2, <3>4, <4>2
        <5>. QED  BY <1>2, <1>5, <5>1
      <4>4. ASSUME NEW j \in 1 .. y  PROVE b2[x + j - 1] = b[x + j - 1]
        <5>1. x + j - 1 < off /\ x + j - 1 \in 0 .. size - 1
          BY <1>2, <4>3
        <5>2. CASE off + len < size
          BY <1>01, <5>1, <5>2
        <5>3. CASE ~(off + len < size)
          BY <1>01, <5>3
        <5>. QED  BY <5>2, <5>3
      <4>5. at2[i] = at2[i - 1] + a[i].len
        BY <3>1, <3>2, <3>4
      <4>6. \A j \in 1 .. y : b2[x + j - 1] = Byte(a[i], j)
        BY <3>2, <3>4, <4>2, <4>4
      <4>7. Keeps(size, a, i, at2)
        BY <1>6, <3>4
      <4>. QED  BY <3>1, <4>2, <4>5, <4>6, <4>7
    <3>. QED  BY <3>3, <3>4
  <2>4. IF Keeps(size, a, k + 1, at2)
          THEN /\ at2[k + 1] = at2[(k + 1) - 1] + a[k + 1].len
               /\ \A j \in 1 .. a[k + 1].len :
                    b2[at2[(k + 1) - 1] + j - 1] = Byte(a[k + 1], j)
          ELSE at2[k + 1] = at2[(k + 1) - 1]
    <3>1. at2[(k + 1) - 1] = off /\ at2[k + 1] = off2
      <4>1. (k + 1) - 1 = k
        OBVIOUS
      <4>. QED  BY <1>2, <1>4, <4>1
    <3>2. CASE off + len < size
      <4>1. ASSUME NEW j \in 1 .. len  PROVE b2[off + j - 1] = Byte(a[k + 1], j)
        <5>1. PICK i : i = off + j - 1
          OBVIOUS
        <5>2. i \in 0 .. size - 1 /\ off <= i /\ i < off + len /\ i - off + 1 = j
          BY <3>2, <5>1
        <5>3. b2[i] = Byte(a[k + 1], i - off + 1)
          BY <1>01, <3>2, <5>2
        <5>. QED  BY <5>1, <5>2, <5>3
      <4>2. off2 = off + len
        BY <1>01, <3>2
      <4>. QED  BY <1>0, <1>7, <3>1, <3>2, <4>1, <4>2
    <3>3. CASE ~(off + len < size)
      BY <1>01, <1>7, <3>1, <3>3
    <3>. QED  BY <3>2, <3>3
  <2>5. PICK m : m = k + 1
    OBVIOUS
  <2>6. \A i \in 1 .. m : IF Keeps(size, a, i, at2)
                            THEN /\ at2[i] = at2[i - 1] + a[i].len
                                 /\ \A j \in 1 .. a[i].len :
                                      b2[at2[i - 1] + j - 1] = Byte(a[i], j)
                            ELSE at2[i] = at2[i - 1]
    <3>1. ASSUME NEW i \in 1 .. m
          PROVE  IF Keeps(size, a, i, at2)
                   THEN /\ at2[i] = at2[i - 1] + a[i].len
                        /\ \A j \in 1 .. a[i].len :
                             b2[at2[i - 1] + j - 1] = Byte(a[i], j)
                   ELSE at2[i] = at2[i - 1]
      <4>1. CASE i \in 1 .. k
        BY <2>3, <4>1
      <4>2. CASE i = m
        BY <2>4, <2>5, <4>2
      <4>. QED  BY <2>2, <2>5, <4>1, <4>2
    <3>. QED  BY <3>1
  <2>. QED  BY <2>1, <2>5, <2>6 DEF LaidIn
<1>11. CopiedAt(b2, size, a, n2, off2, k + 1, at2)
  BY <1>4, <1>8, <1>9, <1>10 DEF CopiedAt
<1>12. off + len < size <=> n2 # n
  BY <1>01
<1>. QED  BY <1>7, <1>11, <1>12

\* When the line taken ends the response, the response is the answer.
LEMMA EndHanded ==
  ASSUME NEW c \in Callers, NEW a, GoodAnswer(a), NEW k \in 1 .. Len(a), NEW r, NEW n, NEW off,
         NEW at, CopiedAt(r.buf, BufSize[c], a, n, off, k, at), r.counts = n,
         NEW status, EndsIt(c, a, k, at, status)
  PROVE  IsAnswer(c, r, a, status)
<1>1. k \in DOMAIN a
  BY DEF GoodAnswer
<1>2. /\ at \in [0 .. k -> Bytes(c)] /\ LaidIn(r.buf, BufSize[c], a, k, at)
      /\ r.counts = Cardinality(KeptIn(BufSize[c], a, k, at))
  BY DEF CopiedAt, Bytes
<1>. QED  BY <1>1, <1>2 DEF IsAnswer

\* An answer is one by the response's lines and their number.
LEMMA IsAnswerSame ==
  ASSUME NEW c, NEW a, NEW status, NEW r, NEW s, s.buf = r.buf, s.counts = r.counts
  PROVE  IsAnswer(c, r, a, status) => IsAnswer(c, s, a, status)
BY DEF IsAnswer

\* So is what a caller is handed.
LEMMA HandedSame ==
  ASSUME asked' = asked, answer' = answer, resp_status' = resp_status,
         obj'[asked].buf = obj[asked].buf, obj'[asked].counts = obj[asked].counts
  PROVE  Handed => Handed'
<1>1. PICK c, a, status, r, s :
        /\ c = asked /\ a = answer /\ status = resp_status
        /\ r = obj[asked] /\ s = obj'[asked]
  OBVIOUS
<1>2. IsAnswer(c, r, a, status) => IsAnswer(c, s, a, status)
  BY <1>1, IsAnswerSame
<1>. QED  BY <1>1, <1>2 DEF Handed

\* An answer being received is about these variables only.
LEMMA ReceivingSame ==
  ASSUME asked' = asked, answer' = answer, resp' = resp,
         line_counts' = line_counts, resp_buf_len' = resp_buf_len,
         obj'[asked].buf = obj[asked].buf, wire' = wire
  PROVE  Receiving => Receiving'
BY DEF Receiving

\* A command is sent: nothing of an earlier answer is on the wire or in the
\* parser, or it is called strange.
LEMMA OwnSend ==
  ASSUME AtInv, Own, NEW c \in Callers, Send(c)
  PROVE  Own'
<1>1. PICK a \in Answers(<<c, cmd[c]>>) : wire' = wire \o a /\ answer' = a
  BY DEF Send
<1>2. <<c, cmd[c]>> \in (Callers \X Nat) \cup {None}
  BY DEF Send, AtInv, Waiting
<1>3. GoodAnswer(a) /\ a \in Seq(Lines)
  BY <1>1, <1>2, AnswersGood
<1>4. GoodAnswer(answer')
  BY <1>1, <1>3
<1>5. ~strange' => ~strange /\ \A i \in DOMAIN wire : wire[i].kind = "urc"
  <2>1. strange' = (strange \/ \E i \in DOMAIN wire : wire[i].kind # "urc")
    BY DEF Send
  <2>. QED  BY <2>1, Zenon
<1>6. /\ exec_step = 0 /\ exec_step' = 1 /\ resp' = c /\ asked' = c /\ mode # "CLI"
      /\ mode' = mode /\ line_counts' = line_counts /\ resp_buf_len' = resp_buf_len
  BY DEF Send, parser
<1>7. ~resp_notice'
  BY Zenon DEF Send
<1>8. ASSUME ~strange'  PROVE Receiving'
  <2>1. line_counts = 0 /\ \A i \in 1 .. Len(wire) : wire[i].kind = "urc"
    BY <1>5, <1>6, <1>8 DEF Own, AtInv, OnWire
  <2>2. Remains(wire', a, 0, Len(wire)) /\ Len(wire) \in 0 .. Len(wire')
    BY <1>1, <1>3, <2>1, SentBehind DEF AtInv, OnWire
  <2>3. resp_buf_len = 0
    BY <2>1 DEF AtInv, Held
  <2>4. PICK b : b = obj'[c].buf
    OBVIOUS
  <2>5. Copied(b, BufSize[c], a, 0, 0, 0)
    <3>1. BufSize[c] \in Nat \ {0}
      BY AtClientAssumption
    <3>. QED  BY <3>1, NoneCopied
  <2>6. Copied(obj'[c].buf, BufSize[c], a, line_counts', resp_buf_len', 0)
    BY <1>6, <2>1, <2>3, <2>4, <2>5
  <2>7. 0 \in 0 .. Len(a)
    BY <1>3
  <2>8. LineNum[c] # 0 => line_counts' # LineNum[c]
    BY <1>6, <2>1
  <2>. QED  BY <1>1, <1>6, <2>2, <2>6, <2>7, <2>8 DEF Receiving
<1>. QED  BY <1>4, <1>6, <1>7, <1>8 DEF Own

\* A line for the response in progress.
LEMMA OwnResponse ==
  ASSUME AtInv, Own, ParseResponse
  PROVE  Own'
<1>. DEFINE line == Head(wire)
            end == Ends(line, Came)
<1>1. /\ wire # << >> /\ line.kind # "urc" /\ resp # None /\ wire' = Tail(wire)
      /\ UNCHANGED <<mode, exec_step, answer, asked>>
  BY DEF ParseResponse, history
<1>2. strange' = strange
  BY DEF ParseResponse, history
<1>3. \/ /\ end = {} /\ line_counts' = Came /\ resp' = resp /\ resp_notice' = resp_notice
         /\ resp_buf_len' = IF Fits(line) THEN resp_buf_len + line.len ELSE resp_buf_len
      \/ /\ resp_status' \in end /\ line_counts' = 0 /\ resp' = None
  BY DEF ParseResponse, Came
<1>4. (resp_notice' => resp' = None) /\ (resp' = None => resp_notice')
  <2>1. ~resp_notice
    BY <1>1, Zenon DEF Own
  <2>2. CASE UNCHANGED <<resp, resp_notice>>
    BY <1>1, <2>1, <2>2, Zenon
  <2>3. CASE resp' = None /\ resp_notice' = TRUE
    BY <2>3, Zenon
  <2>. QED  BY <2>2, <2>3 DEF ParseResponse
<1>5. resp \in Callers /\ exec_step \in 0..2 /\ exec_step # 0
  BY <1>1 DEF AtInv, Steps, Own
<1>6. GoodAnswer(answer')
  BY <1>1 DEF Own
<1>7. ASSUME ~strange'
      PROVE  exec_step' = 1 /\ (Receiving' \/ (resp_notice' /\ Answered'))
  <2>1. exec_step = 1 /\ Receiving
    BY <1>1, <1>2, <1>5, <1>7 DEF Own, Answered
  <2>2. PICK k \in 0 .. Len(answer), p \in 0 .. Len(wire) :
          /\ Remains(wire, answer, k, p)
          /\ Copied(obj[asked].buf, BufSize[asked], answer, line_counts, resp_buf_len, k)
    BY <2>1 DEF Receiving
  <2>3. resp = asked /\ GoodAnswer(answer) /\ k \in Nat
    BY <2>1 DEF Receiving, Own
  <2>4. /\ k + 1 \in 0 .. Len(answer) /\ line = answer[k + 1]
        /\ Remains(wire', answer, k + 1, 0)
    BY <1>1, <2>2, <2>3, LineTaken DEF AtInv, OnWire
  <2>5. /\ \A i \in Bytes(resp) : Fits(line) =>
             obj'[resp].buf[i] = IF resp_buf_len <= i /\ i < resp_buf_len + line.len
                                   THEN Byte(line, i - resp_buf_len + 1)
                                   ELSE obj[resp].buf[i]
        /\ ~Fits(line) => obj'[resp].buf = obj[resp].buf
        /\ obj'[resp].counts = IF resp' = None THEN Came ELSE obj[resp].counts
    BY ResponseObj
  <2>6. line.len \in Nat \ {0} /\ resp_buf_len \in Nat /\ line_counts \in Nat
    BY <1>1, NextLine DEF AtInv, Held
  <2>. HIDE DEF line
  <2>7. PICK a, c, b, b2, n2, off2 :
          /\ a = answer /\ c = resp /\ b = obj[resp].buf /\ b2 = obj'[resp].buf
          /\ n2 = Came
          /\ off2 = (IF Fits(line) THEN resp_buf_len + line.len ELSE resp_buf_len)
    OBVIOUS
  <2>8. PICK size \in Nat \ {0}, n \in Nat, off \in Nat :
          size = BufSize[resp] /\ n = line_counts /\ off = resp_buf_len
    BY <1>5, <2>6, AtClientAssumption
  <2>9. Fits(line) <=> off + a[k + 1].len < size
    BY <2>4, <2>7, <2>8 DEF Fits
  <2>10. Appended(size, a[k + 1], b, n, off, b2, n2, off2)
    <3>1. PICK x : x = a[k + 1]
      OBVIOUS
    <3>2. line = x
      BY <2>4, <2>7, <3>1
    <3>3. CASE Fits(line)
      BY <2>5, <2>7, <2>8, <2>9, <3>1, <3>2, <3>3 DEF Appended, Came, Bytes, line
    <3>4. CASE ~Fits(line)
      BY <2>5, <2>7, <2>8, <2>9, <3>1, <3>2, <3>4 DEF Appended, Came, line
    <3>. QED  BY <3>3, <3>4
  <2>11. Copied(b, size, a, n, off, k)
    BY <2>2, <2>3, <2>7, <2>8
  <2>12. GoodAnswer(a) /\ k + 1 <= Len(a)
    BY <2>3, <2>4, <2>7
  <2>13. PICK at : /\ CopiedAt(b2, size, a, n2, off2, k + 1, at)
                   /\ Keeps(size, a, k + 1, at) <=> n2 # n
    <3>1. k \in Nat
      BY <2>3
    <3>. QED  BY <2>10, <2>11, <2>12, <3>1, NextCopied
  <2>14. (LineNum[c] # 0 => n # LineNum[c]) /\ LineNum[c] \in Nat
    BY <1>5, <2>1, <2>3, <2>7, <2>8, AtClientAssumption DEF Receiving
  <2>15. CASE end = {}
    <3>1. line_counts' = n2 /\ resp' = resp /\ resp_buf_len' = off2
      <4>1. resp_status' \notin end
        BY <2>15
      <4>. QED  BY <1>3, <2>7, <4>1 DEF line
    <3>2. Copied(obj'[asked].buf, BufSize[asked], answer', line_counts', resp_buf_len', k + 1)
      BY <1>1, <2>3, <2>7, <2>8, <2>13, <3>1 DEF Copied
    <3>3. LineNum[asked'] # 0 => line_counts' # LineNum[asked']
      <4>1. ~(n2 = LineNum[c] /\ LineNum[c] # 0)
        BY <2>7, <2>15 DEF Ends
      <4>. QED  BY <1>1, <2>3, <2>7, <3>1, <4>1
    <3>4. resp' = asked' /\ 0 \in 0 .. Len(wire')
      <4>1. wire' \in Seq(Lines)
        BY <1>1, NextLine
      <4>. QED  BY <1>1, <2>3, <3>1, <4>1
    <3>5. Receiving'
      BY <1>1, <2>4, <3>2, <3>3, <3>4 DEF Receiving
    <3>. QED  BY <1>1, <2>1, <3>5
  <2>16. CASE end # {}
    <3>1. resp_status' \in end /\ line_counts' = 0 /\ resp' = None
      BY <1>3, <2>16
    <3>2. obj'[resp].counts = n2
      BY <2>5, <2>7, <3>1
    <3>3. PICK r, status : r = obj'[resp] /\ status = resp_status'
      OBVIOUS
    <3>4. EndsIt(c, a, k + 1, at, status)
      <4>1. status \in Ends(line, n2) /\ line = a[k + 1] /\ c = resp
        BY <2>4, <2>7, <3>1, <3>3
      <4>2. n2 = Cardinality(KeptIn(BufSize[c], a, k + 1, at))
        BY <2>7, <2>8, <2>13 DEF CopiedAt
      <4>3. n2 = LineNum[c] /\ LineNum[c] # 0 => Keeps(BufSize[c], a, k + 1, at)
        BY <2>7, <2>8, <2>13, <2>14
      <4>4. /\ a[k + 1].kind = "ok" /\ LineNum[c] = 0 => a[k + 1].kind # "error"
        OBVIOUS
      <4>5. CASE a[k + 1].kind = "ok" /\ LineNum[c] = 0
        BY <4>1, <4>4, <4>5 DEF Ends, EndsIt
      <4>6. CASE a[k + 1].kind = "error"
        BY <4>1, <4>4, <4>6 DEF Ends, EndsIt
      <4>7. CASE ~(a[k + 1].kind = "ok" /\ LineNum[c] = 0) /\ a[k + 1].kind # "error"
        <5>1. status = "OK" /\ n2 = LineNum[c] /\ LineNum[c] # 0
          BY <4>1, <4>7 DEF Ends
        <5>. QED  BY <4>2, <4>3, <4>7, <5>1 DEF EndsIt
      <4>. QED  BY <4>5, <4>6, <4>7
    <3>5. Handed'
      <4>1. PICK j : j = k + 1
        OBVIOUS
      <4>2. j \in 1 .. Len(a) /\ c \in Callers
        BY <1>5, <2>3, <2>4, <2>7, <4>1
      <4>3. CopiedAt(r.buf, BufSize[c], a, n2, off2, j, at) /\ r.counts = n2
        BY <2>7, <2>8, <2>13, <3>2, <3>3, <4>1
      <4>4. EndsIt(c, a, j, at, status)
        BY <3>4, <4>1
      <4>5. IsAnswer(c, r, a, status)
        BY <2>12, <4>2, <4>3, <4>4, EndHanded
      <4>. QED  BY <1>1, <2>3, <2>7, <3>3, <4>5 DEF Handed
    <3>6. resp_notice'
      BY <1>4, <3>1, Zenon
    <3>. QED  BY <1>1, <2>1, <3>1, <3>5, <3>6 DEF Answered
  <2>. QED  BY <2>15, <2>16
<1>8. ~strange' => mode' # "CLI" /\ asked' \in Callers
  BY <1>1, <1>2, <1>5 DEF Own
<1>9. exec_step' # 0
  BY <1>1, <1>5
<1>10. exec_step' = 1 => exec_step' # 2
  OBVIOUS
<1>. QED  BY <1>4, <1>6, <1>7, <1>8, <1>9, <1>10, Zenon DEF Own
\* The time is over, the answer is complete, or a caller gives the client back.
LEMMA OwnPoll ==
  ASSUME AtInv, Own, NEW c \in Callers, Notice(c) \/ Finish(c)
  PROVE  Own'
<1>1. CASE Notice(c)
  <2>1. /\ exec_step = 1 /\ exec_step' = 2 /\ mode # "CLI"
        /\ UNCHANGED <<mode, resp, line_counts, obj, wire, answer, asked>>
    BY <1>1 DEF Notice, parser
  <2>2. resp_notice' = resp_notice
    BY <1>1 DEF Notice
  <2>3. ~strange' => ~strange /\ resp_notice /\ asked = c
    <3>1. strange' = (strange \/ ~resp_notice \/ asked # c)
      BY <1>1 DEF Notice
    <3>. QED  BY <3>1, Zenon
  <2>4. resp_notice => resp_status' = resp_status
    BY <1>1 DEF Notice
  <2>5. resp_notice' => resp' = None
    BY <2>1, <2>2, Zenon DEF Own
  <2>6. ~strange' => Answered
    <3>1. resp_notice => resp = None
      BY Zenon DEF Own
    <3>2. resp = None => ~Receiving \/ asked \notin Callers
      BY AtClientAssumption DEF Receiving
    <3>3. ~strange => Receiving \/ Answered
      BY <2>1 DEF Own
    <3>4. ~strange' => ~Receiving
      BY <2>3, <3>1, <3>2
    <3>. QED  BY <2>3, <3>3, <3>4, Zenon
  <2>7. ~strange' => Answered'
    <3>1. ~strange' => (Handed => Handed')
      BY <2>1, <2>3, <2>4, HandedSame
    <3>. QED  BY <2>1, <2>6, <3>1 DEF Answered
  <2>8. GoodAnswer(answer')
    BY <2>1 DEF Own
  <2>9. ~strange' => mode' # "CLI" /\ asked' \in Callers
    BY <2>1, <2>3
  <2>10. exec_step' # 0 /\ exec_step' # 1
    BY <2>1
  <2>. QED  BY <2>5, <2>7, <2>8, <2>9, <2>10, Zenon DEF Own
<1>2. CASE Finish(c)
  <2>1. /\ exec_step = 2 /\ exec_step' = 0 /\ resp' = None
        /\ UNCHANGED <<line_counts, wire, answer>>
    BY <1>2 DEF Finish, parser
  <2>2. ~strange' => ~strange \/ line_counts = 0
    <3>1. strange' = (strange /\ ~(wire = << >> /\ line_counts = 0))
      BY <1>2 DEF Finish
    <3>. QED  BY <3>1, Zenon
  <2>3. ~strange' => line_counts' = 0
    BY <2>1, <2>2 DEF Own, Answered
  <2>4. GoodAnswer(answer')
    BY <2>1 DEF Own
  <2>5. exec_step' # 1 /\ exec_step' # 2
    BY <2>1
  <2>. QED  BY <2>1, <2>3, <2>4, <2>5, Zenon DEF Own
<1>. QED  BY <1>1, <1>2

\* Time passes for the callers that wait; their buffers stay as they are.
LEMMA TickObj ==
  ASSUME AtInv, Tick
  PROVE  \A d \in Callers : obj'[d].buf = obj[d].buf /\ obj'[d].counts = obj[d].counts
BY DEF Tick, AtInv, Objects, ObjShape

\* So what the caller has been handed stays.
LEMMA OwnTick ==
  ASSUME AtInv, Own, Tick
  PROVE  Own'
<1>1. UNCHANGED <<mode, resp, resp_notice, resp_status, exec_step, line_counts,
                  resp_buf_len, wire, answer, asked, strange>>
  BY DEF Tick, client, history, parser
<1>2. \A d \in Callers : obj'[d].buf = obj[d].buf /\ obj'[d].counts = obj[d].counts
  BY TickObj
<1>3. asked \in Callers => (Handed => Handed') /\ (Receiving => Receiving')
  BY <1>1, <1>2, HandedSame, ReceivingSame
<1>4. asked \in Callers =>
        (Receiving => Receiving') /\ (Answered => Answered')
  BY <1>1, <1>3 DEF Answered
<1>5. /\ GoodAnswer(answer')
      /\ exec_step' = 0 => resp' = None /\ (~strange' => line_counts' = 0)
      /\ exec_step' # 0 /\ ~strange' => mode' # "CLI" /\ asked' \in Callers
  BY <1>1 DEF Own
<1>6. resp_notice' => resp' = None
  BY <1>1, Zenon DEF Own
<1>7. exec_step = 1 => exec_step # 0
  OBVIOUS
<1>8. exec_step = 2 => exec_step # 0
  OBVIOUS
<1>9. exec_step' = 1 /\ ~strange' => Receiving' \/ (resp_notice' /\ Answered')
  BY <1>1, <1>4, <1>7, Zenon DEF Own
<1>10. exec_step' = 2 /\ ~strange' => Answered'
  BY <1>1, <1>4, <1>8, Zenon DEF Own
<1>. QED  BY <1>5, <1>6, <1>9, <1>10, Zenon DEF Own

\* The wire changes, but the answer on it stays where the caller expects it.
LEMMA OwnWire ==
  ASSUME AtInv, Own, line_counts' \in {line_counts, 0},
         UNCHANGED <<resp, resp_notice, resp_status, exec_step, obj,
                     answer, asked>>,
         exec_step # 0 /\ ~strange' => ~strange /\ mode' # "CLI",
         exec_step = 0 /\ ~strange' => line_counts' = 0,
         exec_step = 1 /\ ~strange' => (Receiving => Receiving')
  PROVE  Own'
<1>1. exec_step # 0 /\ ~strange' => (Answered => Answered')
  <2>1. exec_step # 0 /\ ~strange' => asked \in Callers
    BY DEF Own
  <2>2. exec_step # 0 /\ ~strange' => (Handed => Handed')
    BY <2>1, HandedSame
  <2>. QED  BY <2>2 DEF Answered
<1>2. /\ GoodAnswer(answer')
      /\ exec_step' = 0 => resp' = None
      /\ exec_step' # 0 /\ ~strange' => asked' \in Callers
  BY DEF Own
<1>3. resp_notice' => resp' = None
  BY Zenon DEF Own
<1>4. (exec_step = 1 => exec_step # 0) /\ (exec_step = 2 => exec_step # 0)
  OBVIOUS
<1>5. exec_step' = 1 /\ ~strange' => Receiving' \/ (resp_notice' /\ Answered')
  BY <1>1, <1>4, Zenon DEF Own
<1>6. exec_step' = 2 /\ ~strange' => Answered'
  BY <1>1, <1>4, Zenon DEF Own
<1>. QED  BY <1>2, <1>3, <1>5, <1>6, Zenon DEF Own
\* What only reads from the line or adds to it.
LEMMA OwnLine ==
  ASSUME AtInv, Own, NEW kind \in {"urc", "other"},
         ParseUrc \/ ParseUnknown \/ Noise(kind) \/ CliPrint
  PROVE  Own'
<1>1. wire \in Seq(Lines) /\ GoodAnswer(answer) /\ answer \in Seq(Lines)
  BY DEF Own, GoodAnswer, AtInv, OnWire
<1>2. CASE ParseUrc
  <2>1. /\ wire # << >> /\ Head(wire).kind = "urc" /\ wire' = Tail(wire)
        /\ UNCHANGED <<mode, resp, resp_notice, resp_status, exec_step, obj,
                       parser, answer, asked, strange>>
    BY <1>2 DEF ParseUrc, Received, client, history
  <2>3. ASSUME Receiving  PROVE Receiving'
    <3>1. PICK k \in 0 .. Len(answer), p \in 0 .. Len(wire) :
            /\ Remains(wire, answer, k, p)
            /\ Copied(obj[asked].buf, BufSize[asked], answer, line_counts, resp_buf_len, k)
      BY <2>3 DEF Receiving
    <3>2. \E q \in 0 .. Len(wire') : Remains(wire', answer, k, q)
      BY <1>1, <2>1, <3>1, UrcTaken
    <3>. QED  BY <2>1, <2>3, <3>1, <3>2 DEF Receiving, parser
  <2>4. /\ exec_step # 0 /\ ~strange' => ~strange /\ mode' # "CLI"
        /\ exec_step = 0 /\ ~strange' => line_counts' = 0
    BY <2>1 DEF Own, parser
  <2>. QED  BY <2>1, <2>3, <2>4, OwnWire DEF parser
<1>3. CASE ParseUnknown
  <2>1. /\ wire # << >> /\ resp = None /\ wire' = Tail(wire) /\ line_counts' = 0
        /\ UNCHANGED <<mode, resp, resp_notice, resp_status, exec_step, obj,
                       answer, asked>>
    BY <1>3 DEF ParseUnknown, client
  <2>2. exec_step # 0 /\ ~strange' => ~strange
    <3>1. strange' = (strange /\ ~(wire' = << >> /\ exec_step = 0))
      BY <1>3 DEF ParseUnknown
    <3>. QED  BY <3>1, Zenon
  <2>3. exec_step # 0 /\ ~strange' => mode' # "CLI" /\ asked \in Callers
    BY <2>1, <2>2 DEF Own
  <2>4. exec_step = 1 /\ ~strange' => ~Receiving
    BY <2>1, <2>3, AtClientAssumption DEF Receiving
  <2>. QED  BY <2>1, <2>2, <2>3, <2>4, OwnWire
<1>4. CASE Noise(kind)
  <2>1. PICK x : x = KindLine(None, 0, kind)
    OBVIOUS
  <2>2. x \in Lines /\ x.kind = kind
    BY <2>1, KindLineIs
  <2>3. /\ wire' = Append(wire, x)
        /\ UNCHANGED <<mode, resp, resp_notice, resp_status, exec_step, obj,
                       parser, answer, asked>>
    BY <1>4, <2>1 DEF Noise, client
  <2>4. ~strange' => ~strange /\ (exec_step # 0 => kind = "urc")
    <3>1. strange' = (strange \/ (kind # "urc" /\ exec_step # 0))
      BY <1>4 DEF Noise
    <3>. QED  BY <3>1, Zenon
  <2>6. ASSUME Receiving, kind = "urc"  PROVE Receiving'
    <3>1. PICK k \in 0 .. Len(answer), p \in 0 .. Len(wire) :
            /\ Remains(wire, answer, k, p)
            /\ Copied(obj[asked].buf, BufSize[asked], answer, line_counts, resp_buf_len, k)
      BY <2>6 DEF Receiving
    <3>2. Remains(wire', answer, k, p) /\ p \in 0 .. Len(wire')
      BY <1>1, <2>2, <2>3, <2>6, <3>1, NoiseBehind
    <3>. QED  BY <2>3, <2>6, <3>1, <3>2 DEF Receiving, parser
  <2>7. /\ exec_step # 0 /\ ~strange' => ~strange /\ mode' # "CLI"
        /\ exec_step = 0 /\ ~strange' => line_counts' = 0
    BY <2>3, <2>4 DEF Own, parser
  <2>8. exec_step = 1 /\ ~strange' => (Receiving => Receiving')
    BY <2>4, <2>6
  <2>. QED  BY <2>3, <2>7, <2>8, OwnWire DEF parser
<1>5. CASE CliPrint
  <2>1. /\ mode = "CLI" /\ wire # << >> /\ wire' = Tail(wire)
        /\ UNCHANGED <<mode, resp, resp_notice, resp_status, exec_step, obj,
                       parser, answer, asked, strange>>
    BY <1>5 DEF CliPrint, client, history
  <2>2. /\ exec_step # 0 => strange
        /\ exec_step = 0 /\ ~strange' => line_counts' = 0
    BY <2>1 DEF Own, parser
  <2>4. exec_step = 1 => exec_step # 0
    OBVIOUS
  <2>. QED  BY <2>1, <2>2, <2>4, OwnWire DEF parser
<1>. QED  BY <1>2, <1>3, <1>4, <1>5

\* The command line mode: a command it interrupts is strange from then on.
LEMMA OwnCli ==
  ASSUME AtInv, Own, EnterCli \/ CliSend \/ ExitCli
  PROVE  Own'
<1>1. CASE EnterCli
  <2>1. UNCHANGED <<wire, resp, resp_notice, resp_status, exec_step, obj,
                    parser, answer, asked>>
    BY <1>1 DEF EnterCli
  <2>2. ~strange' => ~strange /\ exec_step = 0
    <3>1. strange' = (strange \/ exec_step # 0)
      BY <1>1 DEF EnterCli
    <3>. QED  BY <3>1, Zenon
  <2>3. exec_step = 0 /\ ~strange' => line_counts' = 0
    BY <2>1, <2>2 DEF Own, parser
  <2>4. exec_step = 1 => exec_step # 0
    OBVIOUS
  <2>. QED  BY <2>1, <2>2, <2>3, <2>4, OwnWire DEF parser
<1>2. CASE CliSend
  <2>2. GoodAnswer(answer')
    BY <1>2 DEF Own, CliSend, history
  <2>3. /\ exec_step' = 0 /\ resp' = None /\ mode = "CLI"
        /\ line_counts' = line_counts /\ strange' = strange
    BY <1>2 DEF CliSend, history, parser
  <2>4. ~strange' => line_counts' = 0
    BY <2>3 DEF Own
  <2>5. exec_step' # 1 /\ exec_step' # 2
    BY <2>3
  <2>. QED  BY <2>2, <2>3, <2>4, <2>5, Zenon DEF Own
<1>3. CASE ExitCli
  <2>1. /\ mode = "CLI"
        /\ UNCHANGED <<wire, resp, resp_notice, resp_status, exec_step, obj,
                       parser, answer, asked, strange>>
    BY <1>3 DEF ExitCli, history
  <2>2. /\ exec_step # 0 => strange
        /\ exec_step = 0 /\ ~strange' => line_counts' = 0
    BY <2>1 DEF Own, parser
  <2>3. exec_step = 1 => exec_step # 0
    OBVIOUS
  <2>. QED  BY <2>1, <2>2, <2>3, OwnWire DEF parser
<1>. QED  BY <1>1, <1>2, <1>3

\* At the start nothing was asked and nothing is on the wire.
LEMMA OwnInit == AtInit => Own
<1>. SUFFICES ASSUME AtInit  PROVE Own
  OBVIOUS
<1>1. GoodAnswer(answer)
  BY DEF AtInit, GoodAnswer
<1>2. /\ exec_step = 0 /\ resp = None /\ line_counts = 0
      /\ exec_step # 1 /\ exec_step # 2
  BY DEF AtInit
<1>. QED  BY <1>1, <1>2, Zenon DEF Own

\* Every step keeps what is known of the answer being received.
LEMMA OwnStep == AtInv /\ Own /\ [AtNext]_vars => Own'
<1>. SUFFICES ASSUME AtInv, Own, [AtNext]_vars  PROVE Own'
  OBVIOUS
<1>1. ASSUME UNCHANGED <<client, parser, obj, wire, history>>  PROVE Own'
  <2>1. UNCHANGED <<mode, wire, resp, resp_notice, resp_status, exec_step, obj,
                    line_counts, resp_buf_len, answer, asked, strange>>
    BY <1>1 DEF client, parser, history
  <2>2. /\ exec_step # 0 /\ ~strange' => ~strange /\ mode' # "CLI"
        /\ exec_step = 0 /\ ~strange' => line_counts' = 0
    BY <2>1 DEF Own
  <2>3. Receiving => Receiving'
    BY <2>1, ReceivingSame
  <2>. QED  BY <2>1, <2>2, <2>3, OwnWire
<1>2. ASSUME NEW c \in Callers, Call(c) \/ Poll(c)  PROVE Own'
  BY <1>1, <1>2, OwnSend, OwnPoll DEF Call, Poll
<1>3. CASE Tick
  BY <1>3, OwnTick
<1>4. CASE Parse
  BY <1>4, OwnLine, OwnResponse DEF Parse
<1>5. ASSUME NEW kind \in {"urc", "other"}, Noise(kind)  PROVE Own'
  BY <1>5, OwnLine
<1>6. CASE Cli
  BY <1>6, OwnLine, OwnCli DEF Cli
<1>7. CASE UNCHANGED vars
  BY <1>1, <1>7 DEF vars
<1>. QED  BY <1>2, <1>3, <1>4, <1>5, <1>6, <1>7 DEF AtNext

\* The last part of the claim: what a caller is handed is its own answer.
LEMMA OwnWhole == Own => AnswerWhole
<1>. SUFFICES ASSUME Own, exec_step = 2, ~strange
              PROVE  \E n \in DOMAIN answer : \E at \in [0 .. n -> Bytes(asked)] :
                       /\ Laid(asked, n, at)
                       /\ obj[asked].counts = Cardinality(KeptOf(asked, n, at))
                       /\ EndedBy(asked, n, at)
  BY Zenon DEF AnswerWhole
<1>1. Handed
  BY DEF Own, Answered
<1>2. PICK n \in DOMAIN answer : \E at \in [0 .. n -> Bytes(asked)] :
        /\ LaidIn(obj[asked].buf, BufSize[asked], answer, n, at)
        /\ obj[asked].counts = Cardinality(KeptIn(BufSize[asked], answer, n, at))
        /\ EndsIt(asked, answer, n, at, resp_status)
  BY <1>1 DEF Handed, IsAnswer
<1>3. PICK at \in [0 .. n -> Bytes(asked)] :
        /\ LaidIn(obj[asked].buf, BufSize[asked], answer, n, at)
        /\ obj[asked].counts = Cardinality(KeptIn(BufSize[asked], answer, n, at))
        /\ EndsIt(asked, answer, n, at, resp_status)
  BY <1>2
<1>4. \A i \in 1 .. n : Kept(asked, i, at) <=> Keeps(BufSize[asked], answer, i, at)
  BY DEF Kept, Keeps
<1>5. KeptOf(asked, n, at) = KeptIn(BufSize[asked], answer, n, at)
  BY <1>4 DEF KeptOf, KeptIn
<1>6. Laid(asked, n, at)
  BY <1>3, <1>4 DEF Laid, LaidIn
<1>7. EndedBy(asked, n, at)
  BY <1>3, <1>5 DEF EndedBy, EndsIt, Kept, Keeps
<1>. QED  BY <1>3, <1>5, <1>6, <1>7
-----------------------------------------------------------------------------
(* The lines counted are in the buffer.                                    *)

Backed ==
  /\ resp # None => resp = asked
  /\ resp # None /\ ~excess =>
       line_counts <= Cardinality(Nuls(obj[resp].buf, resp_buf_len))
  /\ resp_notice /\ ~excess =>
       /\ asked \in Callers
       /\ obj[asked].counts <= Cardinality(Nuls(obj[asked].buf, BufSize[asked]))

\* The ends of lines in a buffer are finitely many, and those in front of a
\* place are among those in front of a later one.
LEMMA NulsFinite ==
  ASSUME NEW size \in Nat \ {0}, NEW b, DOMAIN b = 0 .. size - 1, NEW m \in Nat
  PROVE  /\ IsFiniteSet(Nuls(b, m)) /\ Cardinality(Nuls(b, m)) \in Nat
         /\ IsFiniteSet(Nuls(b, size))
         /\ Cardinality(Nuls(b, m)) <= Cardinality(Nuls(b, size))
<1>1. IsFiniteSet(0 .. size - 1)
  BY FS_Interval
<1>2. Nuls(b, m) \subseteq Nuls(b, size) /\ Nuls(b, size) \subseteq 0 .. size - 1
  BY DEF Nuls
<1>3. IsFiniteSet(Nuls(b, size))
  BY <1>1, <1>2, FS_Subset
<1>. QED  BY <1>2, <1>3, FS_Subset, FS_CardinalityType

\* A line copied behind the others adds an end.
LEMMA NulAdded ==
  ASSUME NEW size \in Nat \ {0}, NEW b, DOMAIN b = 0 .. size - 1,
         NEW b2, DOMAIN b2 = 0 .. size - 1,
         NEW off \in Nat, NEW line, NEW len \in Nat \ {0}, len = line.len, off + len < size,
         \A i \in 0 .. size - 1 :
           b2[i] = IF off <= i /\ i < off + len THEN Byte(line, i - off + 1) ELSE b[i]
  PROVE  Cardinality(Nuls(b2, off + len)) >= Cardinality(Nuls(b, off)) + 1
<1>1. PICK last : last = off + len - 1
  OBVIOUS
<1>2. last \in 0 .. size - 1 /\ off <= last /\ last < off + len /\ last - off + 1 = len
  BY <1>1
<1>3. b2[last] = Byte(line, len)
  BY <1>2
<1>4. IsNul(b2[last])
  BY <1>3 DEF IsNul, Byte
<1>5. last \in Nuls(b2, off + len)
  BY <1>2, <1>4 DEF Nuls
<1>6. \A i \in Nuls(b, off) : i \in Nuls(b2, off + len)
  <2>1. ASSUME NEW i \in Nuls(b, off)  PROVE i \in Nuls(b2, off + len)
    <3>1. i \in 0 .. size - 1 /\ i < off /\ IsNul(b[i])
      BY DEF Nuls
    <3>2. b2[i] = b[i] /\ i < off + len
      BY <3>1
    <3>. QED  BY <3>1, <3>2 DEF Nuls
  <2>. QED  BY <2>1
<1>7. last \notin Nuls(b, off)
  BY <1>2 DEF Nuls
<1>8. off + len \in Nat
  OBVIOUS
<1>9. /\ IsFiniteSet(Nuls(b, off)) /\ Cardinality(Nuls(b, off)) \in Nat
      /\ IsFiniteSet(Nuls(b2, off + len)) /\ Cardinality(Nuls(b2, off + len)) \in Nat
  BY <1>8, NulsFinite
<1>10. PICK S, T : S = Nuls(b, off) /\ T = Nuls(b2, off + len)
  OBVIOUS
<1>11. Cardinality(S \cup {last}) = Cardinality(S) + 1 /\ IsFiniteSet(S \cup {last})
  BY <1>7, <1>9, <1>10, FS_AddElement
<1>12. S \cup {last} \subseteq T
  BY <1>5, <1>6, <1>10
<1>13. Cardinality(S \cup {last}) <= Cardinality(T)
  BY <1>9, <1>10, <1>12, FS_Subset
<1>. QED  BY <1>9, <1>10, <1>11, <1>13

\* A line for the response keeps the lines counted in it.
LEMMA BackedResponse ==
  ASSUME AtInv, Own, Backed, ParseResponse
  PROVE  Backed'
<1>. DEFINE line == Head(wire)
<1>1. /\ wire # << >> /\ resp # None /\ asked' = asked /\ excess' = excess /\ resp \in Callers
  BY DEF ParseResponse, history, AtInv, Steps
<1>2. resp = asked /\ ~resp_notice
  BY <1>1, Zenon DEF Backed, Own
<1>3. /\ line.len \in Nat \ {0} /\ resp_buf_len \in Nat /\ line_counts \in Nat
      /\ BufSize[resp] \in Nat \ {0}
  BY <1>1, NextLine, AtClientAssumption DEF AtInv, Held
<1>4. /\ Objects'
      /\ obj'[resp].counts = IF resp' = None THEN Came ELSE obj[resp].counts
      /\ \A i \in Bytes(resp) : Fits(line) =>
           obj'[resp].buf[i] = IF resp_buf_len <= i /\ i < resp_buf_len + line.len
                                 THEN Byte(line, i - resp_buf_len + 1)
                                 ELSE obj[resp].buf[i]
      /\ ~Fits(line) => obj'[resp].buf = obj[resp].buf
  BY ResponseObj
<1>. DEFINE next == IF Fits(line) THEN resp_buf_len + line.len ELSE resp_buf_len
<1>5. \/ /\ resp' = resp /\ UNCHANGED resp_notice
         /\ line_counts' = Came /\ resp_buf_len' = next
      \/ resp' = None /\ resp_notice'
  <2>1. CASE UNCHANGED <<resp, resp_notice>>
    BY <2>1 DEF ParseResponse, Came
  <2>2. CASE resp' = None /\ resp_notice' = TRUE
    BY <2>2, Zenon
  <2>. QED  BY <2>1, <2>2 DEF ParseResponse
<1>. HIDE DEF line
<1>6. PICK size \in Nat \ {0}, off \in Nat, len \in Nat \ {0}, n \in Nat,
          b \in {obj[resp].buf}, b2 \in {obj'[resp].buf}, n2 \in {Came},
          off2 \in {next} :
        /\ size = BufSize[resp] /\ off = resp_buf_len /\ len = line.len
        /\ n = line_counts /\ b = obj[resp].buf /\ b2 = obj'[resp].buf
        /\ n2 = Came /\ off2 = next
  BY <1>3
<1>7. DOMAIN b = 0 .. size - 1 /\ DOMAIN b2 = 0 .. size - 1
  <2>1. DOMAIN obj[resp].buf = Bytes(resp)
    BY <1>1 DEF AtInv, Objects
  <2>2. DOMAIN obj'[resp].buf = Bytes(resp)
    BY <1>1, <1>4 DEF Objects, Bytes
  <2>. QED  BY <1>6, <2>1, <2>2 DEF Bytes
<1>8. Fits(line) <=> off + len < size
  BY <1>6 DEF Fits
<1>9. ASSUME ~excess  PROVE off2 \in Nat /\ n2 \in Nat /\ n2 <= Cardinality(Nuls(b2, off2))
  <2>1. n <= Cardinality(Nuls(b, off))
    BY <1>1, <1>6, <1>9, Zenon DEF Backed
  <2>2. Cardinality(Nuls(b, off)) \in Nat
    BY <1>7, NulsFinite
  <2>3. CASE off + len < size
    <3>1. n2 = n + 1 /\ off2 = off + len
      BY <1>6, <1>8, <2>3 DEF Came, line
    <3>2. \A i \in 0 .. size - 1 :
            b2[i] = IF off <= i /\ i < off + len THEN Byte(line, i - off + 1) ELSE b[i]
      BY <1>4, <1>6, <1>8, <2>3 DEF Bytes
    <3>3. Cardinality(Nuls(b2, off + len)) >= Cardinality(Nuls(b, off)) + 1
      BY <1>6, <1>7, <2>3, <3>2, NulAdded
    <3>4. Cardinality(Nuls(b2, off + len)) \in Nat
      <4>1. off + len \in Nat
        OBVIOUS
      <4>. QED  BY <1>7, <4>1, NulsFinite
    <3>5. n + 1 <= Cardinality(Nuls(b2, off + len))
      BY <2>1, <2>2, <3>3, <3>4
    <3>. QED  BY <3>1, <3>5
  <2>4. CASE ~(off + len < size)
    <3>1. n2 = n /\ off2 = off /\ b2 = b
      BY <1>4, <1>6, <1>8, <2>4 DEF Came, line
    <3>. QED  BY <2>1, <3>1
  <2>. QED  BY <2>3, <2>4
<1>10. ASSUME ~excess  PROVE n2 <= Cardinality(Nuls(b2, size))
  <2>1. PICK x \in Nat, y \in Nat, m \in Nat, k \in Nat :
          x = n2 /\ y = Cardinality(Nuls(b2, off2)) /\ m = Cardinality(Nuls(b2, size)) /\ k = off2
    <3>1. off2 \in Nat /\ n2 \in Nat
      BY <1>9, <1>10
    <3>2. Cardinality(Nuls(b2, off2)) \in Nat /\ Cardinality(Nuls(b2, size)) \in Nat
      BY <1>7, <3>1, NulsFinite
    <3>. QED  BY <3>1, <3>2
  <2>2. x <= y
    BY <1>9, <1>10, <2>1
  <2>3. y <= m
    BY <1>7, <2>1, NulsFinite
  <2>4. x <= m
    BY <2>2, <2>3
  <2>. QED  BY <2>1, <2>4
<1>. HIDE DEF next
<1>11. CASE /\ resp' = resp /\ UNCHANGED resp_notice
            /\ line_counts' = Came /\ resp_buf_len' = next
  <2>1. ~resp_notice' /\ resp' = asked'
    BY <1>1, <1>2, <1>11, Zenon
  <2>2. ~excess' => line_counts' <= Cardinality(Nuls(obj'[resp'].buf, resp_buf_len'))
    <3>1. ASSUME ~excess
          PROVE  line_counts' <= Cardinality(Nuls(obj'[resp'].buf, resp_buf_len'))
      BY <1>6, <1>9, <1>11, <3>1
    <3>. QED  BY <1>1, <3>1, Zenon
  <2>3. ~excess' => line_counts' <= Cardinality(Nuls(obj[resp].buf, resp_buf_len)')
    BY <2>2 DEF Nuls, IsNul
  <2>. QED  BY <2>1, <2>3, Zenon DEF Backed
<1>12. CASE resp' = None /\ resp_notice'
  <2>1. ASSUME ~excess
        PROVE  obj'[asked'].counts <= Cardinality(Nuls(obj'[asked'].buf, BufSize[asked']))
    <3>1. obj'[resp].counts = n2
      BY <1>4, <1>6, <1>12
    <3>. QED  BY <1>1, <1>2, <1>6, <1>10, <2>1, <3>1
  <2>2. asked' \in Callers
    BY <1>1, <1>2
  <2>3. ~excess' =>
          obj'[asked'].counts <= Cardinality(Nuls(obj[asked].buf, BufSize[asked])')
    <3>1. ~excess' => obj'[asked'].counts <= Cardinality(Nuls(obj'[asked'].buf, BufSize[asked']))
      BY <1>1, <2>1, Zenon
    <3>. QED  BY <3>1 DEF Nuls, IsNul
  <2>. QED  BY <1>12, <2>2, <2>3, Zenon DEF Backed
<1>. QED  BY <1>5, <1>11, <1>12

\* Every step keeps the lines counted in the buffer: a command that is sent
\* with lines in the parser its buffer has no ends for is excepted.
LEMMA BackedStep == AtInv /\ Own /\ Backed /\ [AtNext]_vars => Backed'
<1>. SUFFICES ASSUME AtInv, Own, Backed, [AtNext]_vars  PROVE Backed'
  OBVIOUS
<1>1. ASSUME UNCHANGED <<asked, excess>>, parser' = parser \/ resp' = None,
             resp' \in {resp, None}, resp_notice' => resp_notice,
             resp' # None => obj'[resp].buf = obj[resp].buf,
             asked \in Callers /\ resp_notice' =>
               \/ obj'[asked].counts = 0 /\ DOMAIN obj'[asked].buf = Bytes(asked)
               \/ obj'[asked].counts = obj[asked].counts /\ obj'[asked].buf = obj[asked].buf
      PROVE  Backed'
  <2>1. (resp # None => resp = asked)'
    BY <1>1 DEF Backed
  <2>2. resp' # None /\ ~excess' =>
          line_counts' <= Cardinality(Nuls(obj'[resp'].buf, resp_buf_len'))
    BY <1>1 DEF Backed, parser
  <2>3. ASSUME resp_notice', ~excess'
        PROVE  /\ asked \in Callers
               /\ obj'[asked].counts <= Cardinality(Nuls(obj'[asked].buf, BufSize[asked]))
    <3>1. resp_notice /\ ~excess
      BY <1>1, <2>3, Zenon
    <3>2. asked \in Callers /\ obj[asked].counts <= Cardinality(Nuls(obj[asked].buf, BufSize[asked]))
      BY <3>1, Zenon DEF Backed
    <3>3. CASE obj'[asked].counts = 0 /\ DOMAIN obj'[asked].buf = Bytes(asked)
      <4>1. BufSize[asked] \in Nat \ {0}
        BY <3>2, AtClientAssumption
      <4>2. PICK size \in Nat \ {0}, b \in {obj'[asked].buf} :
              size = BufSize[asked] /\ b = obj'[asked].buf
        BY <4>1
      <4>3. DOMAIN b = 0 .. size - 1 /\ size \in Nat
        BY <3>3, <4>2 DEF Bytes
      <4>4. Cardinality(Nuls(b, size)) \in Nat
        BY <4>3, NulsFinite
      <4>5. 0 <= Cardinality(Nuls(b, size))
        BY <4>4
      <4>. QED  BY <3>2, <3>3, <4>2, <4>5
    <3>4. CASE obj'[asked].counts = obj[asked].counts /\ obj'[asked].buf = obj[asked].buf
      BY <3>2, <3>4
    <3>. QED  BY <1>1, <2>3, <3>2, <3>3, <3>4
  <2>4. resp' # None /\ ~excess' =>
          line_counts' <= Cardinality(Nuls(obj[resp].buf, resp_buf_len)')
    BY <2>2 DEF Nuls, IsNul
  <2>5. resp_notice' /\ ~excess' =>
          /\ asked' \in Callers
          /\ obj'[asked'].counts <= Cardinality(Nuls(obj[asked].buf, BufSize[asked])')
    <3>1. resp_notice' /\ ~excess' =>
            /\ asked' \in Callers
            /\ obj'[asked'].counts <= Cardinality(Nuls(obj'[asked'].buf, BufSize[asked']))
      BY <1>1, <2>3
    <3>. QED  BY <3>1 DEF Nuls, IsNul
  <2>. QED  BY <2>1, <2>4, <2>5, Zenon DEF Backed
<1>2. ASSUME NEW c \in Callers, Send(c)  PROVE Backed'
  <2>1. /\ resp' = c /\ asked' = c /\ parser' = parser
        /\ excess' = (line_counts > Cardinality(Nuls(obj[c].buf, resp_buf_len)))
        /\ obj' = [obj EXCEPT ![c].left = Timeout]
    BY <1>2 DEF Send
  <2>2. ~resp_notice'
    BY <1>2, Zenon DEF Send
  <2>3. obj'[c].buf = obj[c].buf
    BY <2>1 DEF AtInv, Objects, ObjShape
  <2>4. ASSUME ~excess'  PROVE line_counts <= Cardinality(Nuls(obj[c].buf, resp_buf_len))
    <3>1. PICK size \in Nat \ {0}, b \in {obj[c].buf} :
            size = BufSize[c] /\ b = obj[c].buf
      BY AtClientAssumption
    <3>2. DOMAIN b = 0 .. size - 1
      BY <3>1 DEF AtInv, Objects, Bytes
    <3>3. resp_buf_len \in Nat /\ line_counts \in Nat
      BY DEF AtInv, Held
    <3>4. Cardinality(Nuls(b, resp_buf_len)) \in Nat
      BY <3>2, <3>3, NulsFinite
    <3>5. ~(line_counts > Cardinality(Nuls(b, resp_buf_len)))
      BY <2>1, <2>4, <3>1
    <3>6. line_counts <= Cardinality(Nuls(b, resp_buf_len))
      BY <3>3, <3>4, <3>5
    <3>. QED  BY <3>1, <3>6
  <2>5. ~excess' => line_counts' <= Cardinality(Nuls(obj'[resp'].buf, resp_buf_len'))
    BY <2>1, <2>3, <2>4 DEF parser
  <2>6. ~excess' => line_counts' <= Cardinality(Nuls(obj[resp].buf, resp_buf_len)')
    BY <2>5 DEF Nuls, IsNul
  <2>7. resp' = asked'
    BY <2>1
  <2>. QED  BY <2>2, <2>6, <2>7, Zenon DEF Backed
<1>3. ASSUME NEW c \in Callers, Finish(c)  PROVE Backed'
  <2>1. /\ resp' = None /\ UNCHANGED <<asked, excess>> /\ obj' = [obj EXCEPT ![c] = Unused(c)]
    BY <1>3 DEF Finish
  <2>2. resp_notice' => resp_notice
    BY <1>3, Zenon DEF Finish
  <2>3. \A d \in Callers : obj'[d] = IF d = c THEN Unused(c) ELSE obj[d]
    BY <2>1, ClearedObj
  <2>4. Unused(c).counts = 0 /\ DOMAIN Unused(c).buf = Bytes(c)
    BY DEF Unused
  <2>. QED  BY <1>1, <2>1, <2>2, <2>3, <2>4
<1>4. CASE Tick
  <2>1. UNCHANGED <<asked, excess, resp>> /\ parser' = parser
    BY <1>4 DEF Tick, history, client
  <2>2. resp_notice' => resp_notice
    BY <1>4, Zenon DEF Tick, client
  <2>3. resp # None => resp \in Callers
    BY DEF AtInv, Steps
  <2>. QED  BY <1>1, <1>4, <2>1, <2>2, <2>3, TickObj
<1>5. CASE ParseResponse
  BY <1>5, BackedResponse
<1>6. CASE ParseUnknown
  <2>1. resp' = None /\ UNCHANGED <<asked, excess, obj>>
    BY <1>6 DEF ParseUnknown, client
  <2>2. resp_notice' => resp_notice
    BY <1>6, Zenon DEF ParseUnknown, client
  <2>. QED  BY <1>1, <2>1, <2>2
<1>7. CASE CliSend
  <2>1. resp' = None /\ UNCHANGED <<asked, excess, obj>>
    BY <1>7 DEF CliSend, history
  <2>2. resp_notice' => resp_notice
    BY <1>7, Zenon DEF CliSend
  <2>. QED  BY <1>1, <2>1, <2>2
<1>8. ASSUME UNCHANGED <<asked, excess, obj, resp, resp_notice, parser>>  PROVE Backed'
  <2>1. resp_notice' => resp_notice
    BY <1>8, Zenon
  <2>. QED  BY <1>1, <1>8, <2>1
<1>9. \/ UNCHANGED <<asked, excess, obj, resp, resp_notice, parser>>
      \/ Tick \/ ParseResponse \/ ParseUnknown \/ CliSend
      \/ \E c \in Callers : Send(c) \/ Finish(c)
  BY DEF AtNext, Call, Poll, Notice, Parse, ParseUrc, Noise, Cli, EnterCli, CliPrint,
         ExitCli, vars, client, history
<1>. QED  BY <1>2, <1>3, <1>4, <1>5, <1>6, <1>7, <1>8, <1>9

\* At the start nothing is counted.
LEMMA BackedInit == AtInit => Backed
<1>. SUFFICES ASSUME AtInit  PROVE Backed
  OBVIOUS
<1>1. resp = None
  BY DEF AtInit
<1>2. ~resp_notice
  BY Zenon DEF AtInit
<1>. QED  BY <1>1, <1>2, Zenon DEF Backed

\* What was received is there and is the caller's own.  As many ends of lines
\* are in the response as at_resp_get_line will walk over, unless the command
\* was sent with more in the parser than its buffer holds; and the lines are
\* those of the answer to the caller's own command up to its end, each that
\* fits behind those kept before it, with the status of the last one: whatever
\* is left of commands that were given up or typed in command line mode, and
\* wherever unsolicited lines come in.
THEOREM AnswerIsOwnHolds == AtSpec => []AnswerIsOwn
<1>1. Backed => LinesInside
  <2>. SUFFICES ASSUME Backed, resp_notice, ~excess
                PROVE  obj[asked].counts <= Cardinality(Nuls(obj[asked].buf, BufSize[asked]))
    BY Zenon DEF LinesInside
  <2>. QED  BY Zenon DEF Backed
<1>2. Own /\ Backed => AnswerIsOwn
  BY <1>1, OwnWhole DEF AnswerIsOwn
<1>. QED  BY <1>2, InvAlways, OwnInit, OwnStep, BackedInit, BackedStep, PTL DEF AtSpec
=============================================================================
