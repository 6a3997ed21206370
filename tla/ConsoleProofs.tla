--------------------------- MODULE ConsoleProofs ---------------------------
(***************************************************************************)
(* What holds at the console, where a user types lines and the boot command*)
(* is set.                                                                 *)
(*                                                                         *)
(* The line editor implements Editor, for any sizes, characters and command*)
(* names.  Its invariant ShellInv says of the buffer what the positions do *)
(* not: before the end of the text there are only characters, and behind it*)
(* no character comes before a NUL (Shaped), also when the rest of a       *)
(* discarded line lies there.  So the first NUL, if there is one, ends the *)
(* text, and comparing a whole buffer with a stored command at             *)
(* shell_push_history compares their texts.                                *)
(*                                                                         *)
(* The environment page, for any commands, delays and number of resets.    *)
(* The invariants of BootEnv are not inductive: that a page the magic word *)
(* accepts is whole rests on the order in which its fields are programmed, *)
(* which Programmed records, and on the image in memory being complete     *)
(* while it is saved.  That saveenv stores the command which was set rests *)
(* on CmdInv: nothing has cut it before it is run.                         *)
(***************************************************************************)
EXTENDS LineEditor, BootEnv, WellFoundedInduction, TLAPS

-----------------------------------------------------------------------------
(* The line editor                                                         *)

\* Before the end of the text the buffer holds characters, and behind it no
\* character comes before a NUL.
Shaped(l, p) ==
  /\ l \in [Cells -> Char \cup {Nul}]
  /\ p \in Cells
  /\ \A i \in Cells : i < p => l[i] \in Char
  /\ \A i, j \in Cells : p <= i /\ i <= j /\ l[j] = Nul => l[i] = Nul

\* Behind the text nothing.
Clear(l, p) == \A i \in Cells : p <= i => l[i] = Nul

\* Every line of the history is a text and nothing behind.
Stored(h) ==
  \A k \in 0 .. Lines - 1 : \E q \in Cells : Shaped(h[k], q) /\ Clear(h[k], q)

Buffers == [Cells -> Char \cup {Nul}]
Histories == [0 .. Lines - 1 -> Buffers]
Stats == {"WAIT_NORMAL", "WAIT_SPEC_KEY", "WAIT_FUNC_KEY"}

LineInv ==
  /\ stat \in Stats
  /\ Shaped(line, line_position) /\ line_curpos \in 0 .. line_position
  /\ discarded \/ Clear(line, line_position)
  /\ discarded \in BOOLEAN /\ lost \in BOOLEAN /\ (lost => discarded)

HistoryInv ==
  /\ cmd_history \in Histories /\ Stored(cmd_history)
  /\ history_count \in 0 .. Lines /\ current_history \in 0 .. history_count

ShellInv == LineInv /\ HistoryInv

-----------------------------------------------------------------------------
(* Sequences                                                               *)

\* The constants.
LEMMA SizeFacts ==
  /\ Size \in Nat /\ 1 < Size /\ Lines \in Nat /\ 0 < Lines
  /\ Nul \notin Char /\ 0 \in Cells
  /\ \A i : i \in Cells <=> i \in Nat /\ i < Size
  /\ \A n \in Names : n \in Seq(Char) /\ 0 < Len(n) /\ Len(n) < Size
<1>1. Size \in Nat /\ 1 < Size /\ Lines \in Nat /\ 0 < Lines
  BY LineEditorAssumption
<1>2. \A i : i \in Cells <=> i \in Nat /\ i < Size
  BY <1>1 DEF Cells
<1>. QED  BY <1>1, <1>2, LineEditorAssumption

\* Sequences that agree everywhere are one.
LEMMA SameText ==
  ASSUME NEW S, NEW s \in Seq(S), NEW t \in Seq(S), Len(s) = Len(t),
         \A k \in 1..Len(s) : s[k] = t[k]
  PROVE  s = t
OBVIOUS

\* A part of a sequence.
LEMMA PartOf ==
  ASSUME NEW S, NEW s \in Seq(S), NEW m \in Nat \ {0}, NEW n \in Nat, m <= n + 1, n <= Len(s)
  PROVE  /\ SubSeq(s, m, n) \in Seq(S) /\ Len(SubSeq(s, m, n)) = n - m + 1
         /\ \A j \in 1..(n - m + 1) : SubSeq(s, m, n)[j] = s[m + j - 1]
OBVIOUS

\* Two sequences joined.
LEMMA JoinOf ==
  ASSUME NEW S, NEW s \in Seq(S), NEW t \in Seq(S)
  PROVE  /\ s \o t \in Seq(S) /\ Len(s \o t) = Len(s) + Len(t)
         /\ \A k \in 1..(Len(s) + Len(t)) :
              (s \o t)[k] = IF k <= Len(s) THEN s[k] ELSE t[k - Len(s)]
OBVIOUS

\* A prefix agrees with the sequence as far as it goes.
LEMMA PrefixIs ==
  ASSUME NEW S, NEW s \in Seq(S), NEW t \in Seq(S)
  PROVE  IsPrefix(s, t) <=> Len(s) <= Len(t) /\ \A k \in 1..Len(s) : s[k] = t[k]
<1>1. PICK n \in Nat : n = Len(s)
  OBVIOUS
<1>2. CASE n <= Len(t)
  <2>1. /\ SubSeq(s, 1, n) \in Seq(S) /\ Len(SubSeq(s, 1, n)) = n
        /\ \A j \in 1..n : SubSeq(s, 1, n)[j] = s[j]
    <3>1. /\ SubSeq(s, 1, n) \in Seq(S) /\ Len(SubSeq(s, 1, n)) = n - 1 + 1
          /\ \A j \in 1..(n - 1 + 1) : SubSeq(s, 1, n)[j] = s[1 + j - 1]
      BY <1>1, PartOf
    <3>. QED  BY <3>1
  <2>2. /\ SubSeq(t, 1, n) \in Seq(S) /\ Len(SubSeq(t, 1, n)) = n
        /\ \A j \in 1..n : SubSeq(t, 1, n)[j] = t[j]
    <3>1. /\ SubSeq(t, 1, n) \in Seq(S) /\ Len(SubSeq(t, 1, n)) = n - 1 + 1
          /\ \A j \in 1..(n - 1 + 1) : SubSeq(t, 1, n)[j] = t[1 + j - 1]
      BY <1>2, PartOf
    <3>. QED  BY <3>1
  <2>3. SubSeq(s, 1, n) = SubSeq(t, 1, n) <=> \A k \in 1..n : s[k] = t[k]
    <3>1. ASSUME \A k \in 1..n : s[k] = t[k]
          PROVE  SubSeq(s, 1, n) = SubSeq(t, 1, n)
      BY <2>1, <2>2, <3>1, SameText
    <3>. QED  BY <2>1, <2>2, <3>1
  <2>. QED  BY <1>1, <1>2, <2>3 DEF IsPrefix
<1>3. CASE ~ (n <= Len(t))
  BY <1>1, <1>3 DEF IsPrefix
<1>. QED  BY <1>2, <1>3

\* A nonempty set of numbers that stay below n has a greatest.
LEMMA Greatest ==
  ASSUME NEW S \in SUBSET Nat, S # {}, NEW n \in Nat, \A x \in S : x <= n
  PROVE  \E m \in S : \A x \in S : x <= m
<1>. DEFINE Less == {ss \in Nat \X Nat : ss[1] < ss[2]}
            D == {n - x : x \in S}
<1>1. IsWellFoundedOn(Less, Nat)
  BY NatLessThanWellFounded, Zenon DEF OpToRel
<1>2. \A x, y \in Nat : x < y => <<x, y>> \in Less
  OBVIOUS
<1>3. D \in SUBSET Nat /\ D # {}
  <2>1. \A x \in S : x \in Nat /\ x <= n
    OBVIOUS
  <2>2. \A x \in S : n - x \in Nat
    BY <2>1
  <2>. QED  BY <2>2
<1>4. PICK d \in D : \A x \in D : <<x, d>> \notin Less
  <2>. HIDE DEF Less, D
  <2>. QED  BY <1>1, <1>3, WFMin
<1>5. PICK m \in S : d = n - m
  BY <1>4
<1>6. ASSUME NEW x \in S PROVE x <= m
  <2>1. n - x \in D /\ n - x \in Nat /\ d \in Nat
    BY <1>3, <1>4
  <2>2. ~ (n - x < d)
    <3>. HIDE DEF Less, D
    <3>. QED  BY <1>2, <1>4, <2>1
  <2>3. x \in Nat /\ m \in Nat /\ d = n - m
    BY <1>5
  <2>. QED  BY <2>2, <2>3
<1>. QED  BY <1>6

\* The longest common beginning of names that all begin with t begins with t,
\* and is no longer than a name.
LEMMA LongestIs ==
  ASSUME NEW M \in SUBSET Names, M # {}, NEW t \in Seq(Char),
         \A m \in M : IsPrefix(t, m)
  PROVE  LET name == LongestCommonPrefix(M)
         IN /\ name \in Seq(Char) /\ Len(t) <= Len(name) /\ Len(name) < Size
            /\ \A k \in 1..Len(t) : name[k] = t[k]
<1>. DEFINE C == CommonPrefixes(M)
<1>1. PICK m \in M : m \in Names /\ m \in Seq(Char) /\ Len(m) \in Nat /\ Len(m) < Size
  BY SizeFacts
<1>2. \A x \in C : IsPrefix(x, m)
  BY <1>1 DEF CommonPrefixes
<1>3. ASSUME NEW x \in C
      PROVE  x \in Seq(Char)
  <2>1. PICK s \in M : x \in Prefixes(s)
    BY DEF CommonPrefixes
  <2>2. s \in Seq(Char)
    BY SizeFacts
  <2>3. PICK l \in 0..Len(s) : x = SubSeq(s, 1, l)
    BY <2>1 DEF Prefixes
  <2>4. l \in Nat /\ 1 <= l + 1 /\ l <= Len(s)
    BY <2>2, <2>3
  <2>. QED  BY <2>2, <2>3, <2>4, PartOf
<1>4. ASSUME NEW x \in C
      PROVE  /\ x \in Seq(Char) /\ Len(x) \in Nat /\ Len(x) <= Len(m)
             /\ \A k \in 1..Len(x) : x[k] = m[k]
  <2>1. x \in Seq(Char) /\ IsPrefix(x, m)
    BY <1>2, <1>3
  <2>. QED  BY <1>1, <2>1, PrefixIs
<1>5. t \in C
  <2>1. Len(t) \in Nat /\ Len(t) <= Len(m) /\ \A k \in 1..Len(t) : t[k] = m[k]
    BY <1>1, PrefixIs
  <2>2. /\ SubSeq(m, 1, Len(t)) \in Seq(Char) /\ Len(SubSeq(m, 1, Len(t))) = Len(t) - 1 + 1
        /\ \A j \in 1..(Len(t) - 1 + 1) : SubSeq(m, 1, Len(t))[j] = m[1 + j - 1]
    BY <1>1, <2>1, PartOf
  <2>3. t = SubSeq(m, 1, Len(t))
    BY <2>1, <2>2, SameText
  <2>4. t \in Prefixes(m)
    <3>1. Len(t) \in 0..Len(m)
      BY <1>1, <2>1
    <3>. QED  BY <2>3, <3>1, Zenon DEF Prefixes
  <2>. QED  BY <1>1, <2>4 DEF CommonPrefixes
<1>. DEFINE Lens == {Len(x) : x \in C}
<1>6. PICK y \in C : \A x \in C : Len(x) <= Len(y)
  <2>1. Lens \in SUBSET Nat /\ Lens # {} /\ \A n \in Lens : n <= Len(m)
    <3>. HIDE DEF C
    <3>. QED  BY <1>4, <1>5
  <2>2. PICK n \in Lens : \A x \in Lens : x <= n
    <3>. HIDE DEF Lens
    <3>. QED  BY <1>1, <2>1, Greatest
  <2>. QED  BY <2>2
<1>7. /\ LongestCommonPrefix(M) \in C
      /\ \A x \in C : Len(x) <= Len(LongestCommonPrefix(M))
  BY <1>6 DEF LongestCommonPrefix
<1>8. PICK name : name = LongestCommonPrefix(M)
  OBVIOUS
<1>. HIDE DEF C
<1>9. /\ name \in Seq(Char) /\ Len(name) \in Nat /\ Len(name) <= Len(m) /\ Len(t) <= Len(name)
      /\ \A k \in 1..Len(name) : name[k] = m[k]
  BY <1>4, <1>5, <1>7, <1>8
<1>10. Len(t) \in Nat /\ \A k \in 1..Len(t) : t[k] = m[k]
  BY <1>4, <1>5
<1>11. \A k \in 1..Len(t) : name[k] = t[k]
  BY <1>9, <1>10
<1>12. Len(name) < Size
  BY <1>1, <1>9, SizeFacts
<1>. QED  BY <1>8, <1>9, <1>11, <1>12, Zenon

-----------------------------------------------------------------------------
(* The buffer                                                              *)

\* strlen stops at the first NUL.
LEMMA StrLenIs ==
  ASSUME NEW l, NEW n \in Cells, l[n] = Nul, \A i \in Cells : i < n => l[i] # Nul
  PROVE  Bounded(l) /\ StrLen(l) = n
<1>1. n \in Holes(l) /\ \A j \in Holes(l) : j \in Nat /\ n <= j
  BY SizeFacts DEF Holes
<1>2. \A i \in Holes(l) : (\A j \in Holes(l) : i <= j) => i = n
  BY <1>1
<1>. QED  BY <1>1, <1>2 DEF Bounded, StrLen

\* The text in front of n.
LEMMA TextIs ==
  ASSUME NEW l, NEW n \in Nat, n <= Size, \A i \in Cells : i < n => l[i] \in Char
  PROVE  /\ Text(l, n) \in Seq(Char) /\ Len(Text(l, n)) = n
         /\ \A k \in 1..n : Text(l, n)[k] = l[k - 1]
<1>1. \A k \in 1..n : l[k - 1] \in Char
  <2>. SUFFICES ASSUME NEW k \in 1..n PROVE l[k - 1] \in Char
    OBVIOUS
  <2>1. k - 1 \in Cells /\ k - 1 < n
    BY SizeFacts
  <2>. QED  BY <2>1
<1>2. Text(l, n) \in [1..n -> Char]
  BY <1>1 DEF Text
<1>3. \A f \in [1..n -> Char] : f \in Seq(Char) /\ Len(f) = n
  OBVIOUS
<1>. QED  BY <1>2, <1>3 DEF Text

\* A NUL that is left stands behind the text.
LEMMA ShapedEnd ==
  ASSUME NEW l, NEW p, Shaped(l, p), Bounded(l)
  PROVE  StrLen(l) = p /\ l[p] = Nul
<1>1. PICK j \in Cells : l[j] = Nul
  BY DEF Bounded, Holes
<1>2. p \in Cells /\ p <= j
  BY <1>1, SizeFacts DEF Shaped
<1>3. l[p] = Nul
  BY <1>1, <1>2, SizeFacts DEF Shaped
<1>4. \A i \in Cells : i < p => l[i] # Nul
  BY SizeFacts DEF Shaped
<1>. QED  BY <1>2, <1>3, <1>4, StrLenIs

\* A buffer with nothing behind its text has a NUL.
LEMMA ClearBounded ==
  ASSUME NEW l, NEW p, Shaped(l, p), Clear(l, p)
  PROVE  Bounded(l)
<1>1. p \in Cells /\ p <= p
  BY SizeFacts DEF Shaped
<1>. QED  BY <1>1 DEF Clear, Bounded, Holes

\* The text of a buffer.
LEMMA ShapedText ==
  ASSUME NEW l, NEW p, Shaped(l, p)
  PROVE  /\ Text(l, p) \in Seq(Char) /\ Len(Text(l, p)) = p
         /\ \A k \in 1..p : Text(l, p)[k] = l[k - 1]
<1>1. p \in Nat /\ p <= Size /\ \A i \in Cells : i < p => l[i] \in Char
  BY SizeFacts DEF Shaped
<1>. QED  BY <1>1, TextIs

-----------------------------------------------------------------------------
(* What an operation makes of the buffer                                   *)

\* ch goes in at c, and the text behind it moves up by one cell.
Inserted(l2, l, p, c, ch) ==
  /\ l2 \in [Cells -> Char \cup {Nul}]
  /\ \A i \in Cells :
       l2[i] = IF i < c THEN l[i] ELSE IF i = c THEN ch
               ELSE IF i <= p THEN l[i - 1] ELSE l[i]

\* The two branches of finsh_thread_entry that store a character do the same.
LEMMA InsertedIs ==
  ASSUME NEW l, NEW p, Shaped(l, p), NEW c \in 0..p, NEW ch \in Char, NEW l2,
         l2 = IF c < p
                THEN [i \in Cells |-> IF i = c THEN ch
                                      ELSE IF c < i /\ i <= p THEN l[i - 1] ELSE l[i]]
                ELSE [l EXCEPT ![p] = ch]
  PROVE  Inserted(l2, l, p, c, ch)
<1>1. p \in Nat /\ p < Size /\ c \in Nat /\ c <= p /\ p \in Cells
  BY SizeFacts DEF Shaped
<1>2. \A i \in Cells : l[i] \in Char \cup {Nul} /\ i \in Nat /\ i < Size
  BY SizeFacts DEF Shaped
<1>3. \A i \in Cells : c < i /\ i <= p => i - 1 \in Cells
  BY <1>1, SizeFacts
<1>4. CASE c < p
  <2>1. \A i \in Cells : l2[i] = IF i = c THEN ch
                                 ELSE IF c < i /\ i <= p THEN l[i - 1] ELSE l[i]
    BY <1>4
  <2>2. DOMAIN l2 = Cells /\ l2 = [i \in Cells |-> l2[i]]
    BY <1>4
  <2>3. \A i \in Cells : l2[i] \in Char \cup {Nul}
    BY <1>2, <1>3, <2>1
  <2>4. l2 \in [Cells -> Char \cup {Nul}]
    BY <2>2, <2>3
  <2>5. \A i \in Cells : i < c \/ i = c \/ c < i
    BY <1>1, <1>2
  <2>6. \A i \in Cells : i < c => ~ (i = c) /\ ~ (c < i)
    BY <1>1, <1>2
  <2>7. \A i \in Cells : i = c => ~ (i < c)
    BY <1>1, <1>2
  <2>8. \A i \in Cells : c < i => ~ (i < c) /\ ~ (i = c)
    BY <1>1, <1>2
  <2>. QED  BY <2>1, <2>4, <2>5, <2>6, <2>7, <2>8 DEF Inserted
<1>5. CASE ~ (c < p)
  <2>1. c = p
    BY <1>1, <1>5
  <2>2. l2 = [l EXCEPT ![p] = ch]
    BY <1>5
  <2>3. l2 \in [Cells -> Char \cup {Nul}]
    BY <1>1, <2>2 DEF Shaped
  <2>4. \A i \in Cells : l2[i] = IF i = p THEN ch ELSE l[i]
    BY <1>1, <2>2 DEF Shaped
  <2>5. \A i \in Cells : i < p \/ i = p \/ ~ (i <= p)
    BY <1>1, <1>2
  <2>6. \A i \in Cells : (i < p => ~ (i = p)) /\ (i = p => ~ (i < p))
                         /\ (~ (i <= p) => ~ (i < p) /\ ~ (i = p))
    BY <1>1, <1>2
  <2>. QED  BY <2>1, <2>3, <2>4, <2>5, <2>6 DEF Inserted
<1>. QED  BY <1>4, <1>5

\* With room left the text is one longer; without, no NUL is left.
LEMMA InsertedShape ==
  ASSUME NEW l, NEW p, Shaped(l, p), NEW c \in 0..p, NEW ch \in Char, NEW l2,
         Inserted(l2, l, p, c, ch)
  PROVE  /\ p + 1 < Size => /\ Shaped(l2, p + 1)
                            /\ Clear(l, p) => Clear(l2, p + 1)
         /\ ~ (p + 1 < Size) => Shaped(l2, 0)
<1>1. p \in Nat /\ p < Size /\ c \in Nat /\ c <= p /\ Size \in Nat /\ 0 \in Cells
  BY SizeFacts DEF Shaped
<1>2. \A i \in Cells : i \in Nat /\ i < Size
  BY SizeFacts
<1>3. ASSUME NEW i \in Cells, i <= p
      PROVE  l2[i] \in Char
  <2>1. CASE i < c
    <3>1. i < p /\ l2[i] = l[i]
      BY <1>1, <1>2, <2>1 DEF Inserted
    <3>. QED  BY <3>1 DEF Shaped
  <2>2. CASE i = c
    BY <1>1, <2>2 DEF Inserted
  <2>3. CASE c < i
    <3>1. i \in Nat /\ i - 1 \in Cells /\ i - 1 < p
      BY <1>1, <1>2, <1>3, <2>3, SizeFacts
    <3>2. ~ (i < c) /\ ~ (i = c)
      BY <1>1, <2>3, <3>1
    <3>3. l2[i] = l[i - 1]
      BY <1>3, <3>2 DEF Inserted
    <3>. QED  BY <3>1, <3>3 DEF Shaped
  <2>. QED  BY <1>1, <1>2, <2>1, <2>2, <2>3
<1>4. ASSUME NEW i \in Cells, p + 1 <= i
      PROVE  l2[i] = l[i] /\ p <= i
  <2>1. ~ (i < c) /\ ~ (i = c) /\ ~ (i <= p) /\ p <= i
    BY <1>1, <1>2, <1>4
  <2>. QED  BY <2>1 DEF Inserted
<1>5. l2 \in [Cells -> Char \cup {Nul}]
  BY DEF Inserted
<1>6. CASE p + 1 < Size
  <2>1. p + 1 \in Cells
    BY <1>1, <1>6, SizeFacts
  <2>2. \A i \in Cells : i < p + 1 => l2[i] \in Char
    <3>1. \A i \in Cells : i < p + 1 => i <= p
      BY <1>1, <1>2
    <3>. QED  BY <1>3, <3>1
  <2>3. ASSUME NEW i \in Cells, NEW j \in Cells, p + 1 <= i, i <= j, l2[j] = Nul
        PROVE  l2[i] = Nul
    <3>1. p + 1 <= j
      BY <1>1, <1>2, <2>3
    <3>2. l2[i] = l[i] /\ p <= i /\ l2[j] = l[j]
      BY <1>4, <2>3, <3>1
    <3>. QED  BY <2>3, <3>2 DEF Shaped
  <2>4. Shaped(l2, p + 1)
    BY <1>5, <2>1, <2>2, <2>3 DEF Shaped
  <2>5. Clear(l, p) => Clear(l2, p + 1)
    BY <1>4 DEF Clear
  <2>. QED  BY <1>6, <2>4, <2>5
<1>7. CASE ~ (p + 1 < Size)
  <2>1. \A i \in Cells : i <= p
    BY <1>1, <1>2, <1>7
  <2>2. \A i \in Cells : l2[i] # Nul
    BY <1>3, <2>1, SizeFacts
  <2>3. \A i \in Cells : i < 0 => l2[i] \in Char
    BY <1>2
  <2>4. Shaped(l2, 0)
    BY <1>1, <1>5, <2>2, <2>3 DEF Shaped
  <2>. QED  BY <1>7, <2>4
<1>. QED  BY <1>6, <1>7

\* InsertAt, element by element.
LEMMA InsertAtIs ==
  ASSUME NEW t \in Seq(Char), NEW c \in Nat, c <= Len(t), NEW ch \in Char
  PROVE  /\ InsertAt(t, c + 1, ch) \in Seq(Char)
         /\ Len(InsertAt(t, c + 1, ch)) = Len(t) + 1
         /\ \A k \in 1..(Len(t) + 1) : InsertAt(t, c + 1, ch)[k] =
              IF k <= c THEN t[k] ELSE IF k = c + 1 THEN ch ELSE t[k - 1]
<1>1. PICK p \in Nat : p = Len(t)
  OBVIOUS
<1>2. PICK a : a = SubSeq(t, 1, c)
  OBVIOUS
<1>3. PICK b : b = SubSeq(t, c + 1, p)
  OBVIOUS
<1>4. a \in Seq(Char) /\ Len(a) = c /\ \A k \in 1..c : a[k] = t[k]
  <2>1. /\ a \in Seq(Char) /\ Len(a) = c - 1 + 1
        /\ \A j \in 1..(c - 1 + 1) : a[j] = t[1 + j - 1]
    BY <1>1, <1>2, PartOf
  <2>. QED  BY <2>1
<1>5. b \in Seq(Char) /\ Len(b) = p - c /\ \A k \in 1..(p - c) : b[k] = t[c + k]
  <2>0. c + 1 \in Nat \ {0} /\ c + 1 <= p + 1
    BY <1>1
  <2>1. /\ b \in Seq(Char) /\ Len(b) = p - (c + 1) + 1
        /\ \A j \in 1..(p - (c + 1) + 1) : b[j] = t[c + 1 + j - 1]
    BY <1>1, <1>3, <2>0, PartOf
  <2>2. p - (c + 1) + 1 = p - c /\ \A j \in 1..(p - c) : c + 1 + j - 1 = c + j
    BY <1>1
  <2>. QED  BY <2>1, <2>2
<1>6. <<ch>> \in Seq(Char) /\ Len(<<ch>>) = 1 /\ <<ch>>[1] = ch
  OBVIOUS
<1>7. PICK x : x = a \o <<ch>>
  OBVIOUS
<1>8. /\ x \in Seq(Char) /\ Len(x) = c + 1
      /\ \A k \in 1..(c + 1) : x[k] = IF k <= c THEN t[k] ELSE ch
  <2>1. /\ x \in Seq(Char) /\ Len(x) = c + 1
        /\ \A k \in 1..(c + 1) : x[k] = IF k <= c THEN a[k] ELSE <<ch>>[k - c]
    BY <1>4, <1>6, <1>7, JoinOf
  <2>2. ASSUME NEW k \in 1..(c + 1)
        PROVE  x[k] = IF k <= c THEN t[k] ELSE ch
    <3>1. CASE k <= c
      <4>1. k \in 1..c
        BY <3>1
      <4>. QED  BY <1>4, <2>1, <3>1, <4>1
    <3>2. CASE ~ (k <= c)
      <4>1. k - c = 1
        BY <3>2
      <4>2. x[k] = <<ch>>[k - c]
        BY <2>1, <3>2
      <4>. QED  BY <1>6, <3>2, <4>1, <4>2
    <3>. QED  BY <3>1, <3>2
  <2>. QED  BY <2>1, <2>2
<1>9. PICK y : y = x \o b
  OBVIOUS
<1>10. y = InsertAt(t, c + 1, ch)
  <2>1. PICK i : i = c + 1
    OBVIOUS
  <2>2. SubSeq(t, 1, i - 1) = a /\ SubSeq(t, i, Len(t)) = b
    BY <1>1, <1>2, <1>3, <2>1
  <2>3. InsertAt(t, i, ch) = (SubSeq(t, 1, i - 1) \o <<ch>>) \o SubSeq(t, i, Len(t))
    BY DEF InsertAt
  <2>. QED  BY <1>7, <1>9, <2>1, <2>2, <2>3
<1>11. /\ y \in Seq(Char) /\ Len(y) = (c + 1) + (p - c)
       /\ \A k \in 1..((c + 1) + (p - c)) :
            y[k] = IF k <= c + 1 THEN x[k] ELSE b[k - (c + 1)]
  BY <1>5, <1>8, <1>9, JoinOf
<1>12. (c + 1) + (p - c) = p + 1
  BY <1>1
<1>13. ASSUME NEW k \in 1..(p + 1)
       PROVE  y[k] = IF k <= c THEN t[k] ELSE IF k = c + 1 THEN ch ELSE t[k - 1]
  <2>1. y[k] = IF k <= c + 1 THEN x[k] ELSE b[k - (c + 1)]
    BY <1>11, <1>12
  <2>2. CASE k <= c + 1
    <3>1. k \in 1..(c + 1) /\ (~ (k <= c) => k = c + 1)
      BY <2>2
    <3>. QED  BY <1>8, <2>1, <2>2, <3>1
  <2>3. CASE ~ (k <= c + 1)
    <3>1. k - (c + 1) \in 1..(p - c) /\ c + (k - (c + 1)) = k - 1 /\ ~ (k <= c) /\ k # c + 1
      BY <1>1, <2>3
    <3>2. b[k - (c + 1)] = t[k - 1]
      BY <1>5, <3>1
    <3>. QED  BY <2>1, <2>3, <3>1, <3>2
  <2>. QED  BY <2>2, <2>3
<1>. QED  BY <1>1, <1>10, <1>11, <1>12, <1>13

\* The text with the character in it.
LEMMA InsertedText ==
  ASSUME NEW l, NEW p, Shaped(l, p), NEW c \in 0..p, NEW ch \in Char, NEW l2,
         Inserted(l2, l, p, c, ch)
  PROVE  /\ Len(InsertAt(Text(l, p), c + 1, ch)) = p + 1
         /\ p + 1 < Size => Text(l2, p + 1) = InsertAt(Text(l, p), c + 1, ch)
<1>1. PICK t : t = Text(l, p)
  OBVIOUS
<1>2. t \in Seq(Char) /\ Len(t) = p /\ \A k \in 1..p : t[k] = l[k - 1]
  BY <1>1, ShapedText
<1>3. p \in Nat /\ c \in Nat /\ c <= p /\ p < Size
  BY SizeFacts DEF Shaped
<1>4. PICK s : s = InsertAt(t, c + 1, ch)
  OBVIOUS
<1>5. /\ s \in Seq(Char) /\ Len(s) = p + 1
      /\ \A k \in 1..(p + 1) : s[k] =
           IF k <= c THEN t[k] ELSE IF k = c + 1 THEN ch ELSE t[k - 1]
  BY <1>2, <1>3, <1>4, InsertAtIs
<1>6. ASSUME p + 1 < Size
      PROVE  Text(l2, p + 1) = s
  <2>1. Shaped(l2, p + 1)
    BY <1>6, InsertedShape
  <2>2. /\ Text(l2, p + 1) \in Seq(Char) /\ Len(Text(l2, p + 1)) = p + 1
        /\ \A k \in 1..(p + 1) : Text(l2, p + 1)[k] = l2[k - 1]
    BY <2>1, ShapedText
  <2>3. ASSUME NEW k \in 1..(p + 1)
        PROVE  l2[k - 1] = s[k]
    <3>1. k - 1 \in Cells
      BY <1>3, SizeFacts
    <3>2. l2[k - 1] = IF k - 1 < c THEN l[k - 1] ELSE IF k - 1 = c THEN ch
                      ELSE IF k - 1 <= p THEN l[k - 1 - 1] ELSE l[k - 1]
      BY <3>1 DEF Inserted
    <3>3. CASE k <= c
      <4>1. k - 1 < c /\ k \in 1..p
        BY <1>3, <3>3
      <4>. QED  BY <1>2, <1>5, <3>2, <3>3, <4>1
    <3>4. CASE k = c + 1
      <4>1. ~ (k - 1 < c) /\ k - 1 = c /\ ~ (k <= c)
        BY <1>3, <3>4
      <4>. QED  BY <1>5, <3>2, <3>4, <4>1
    <3>5. CASE k > c + 1
      <4>1. /\ ~ (k - 1 < c) /\ k - 1 # c /\ ~ (k <= c) /\ k # c + 1
            /\ k - 1 <= p /\ k - 1 \in 1..p
        BY <1>3, <3>5
      <4>2. t[k - 1] = l[k - 1 - 1]
        BY <1>2, <4>1
      <4>3. s[k] = t[k - 1]
        BY <1>5, <4>1
      <4>4. l2[k - 1] = l[k - 1 - 1]
        BY <3>2, <4>1
      <4>. QED  BY <4>2, <4>3, <4>4
    <3>. QED  BY <1>3, <3>3, <3>4, <3>5
  <2>. QED  BY <1>5, <2>2, <2>3, SameText
<1>. QED  BY <1>1, <1>4, <1>5, <1>6

\* The character before c goes, and the text behind it moves down.
Removed(l2, l, p, c) ==
  /\ l2 \in [Cells -> Char \cup {Nul}]
  /\ \A i \in Cells :
       l2[i] = IF i = p - 1 THEN Nul
               ELSE IF c - 1 <= i /\ i < p - 1 THEN l[i + 1] ELSE l[i]

\* So does the memmove of the backspace key with the NUL behind it.
LEMMA ErasedIs ==
  ASSUME NEW l, NEW p, Shaped(l, p), NEW c \in 0..p, 0 < c, NEW l2,
         l2 = [i \in Cells |-> IF i = p - 1 THEN Nul
                               ELSE IF c - 1 <= i /\ i < p - 1 THEN l[i + 1] ELSE l[i]]
  PROVE  Removed(l2, l, p, c)
<1>1. p \in Nat /\ p < Size /\ c \in Nat /\ c <= p /\ p \in Cells
  BY SizeFacts DEF Shaped
<1>2. \A i \in Cells : l[i] \in Char \cup {Nul} /\ i \in Nat /\ i < Size
  BY SizeFacts DEF Shaped
<1>3. \A i \in Cells : i < p - 1 => i + 1 \in Cells
  BY <1>1, SizeFacts
<1>4. \A i \in Cells : l2[i] = IF i = p - 1 THEN Nul
                               ELSE IF c - 1 <= i /\ i < p - 1 THEN l[i + 1] ELSE l[i]
  OBVIOUS
<1>5. l2 = [i \in Cells |-> l2[i]]
  OBVIOUS
<1>6. \A i \in Cells : l2[i] \in Char \cup {Nul}
  BY <1>2, <1>3, <1>4
<1>7. l2 \in [Cells -> Char \cup {Nul}]
  BY <1>5, <1>6
<1>. QED  BY <1>4, <1>7 DEF Removed

\* The text is one shorter.
LEMMA ErasedShape ==
  ASSUME NEW l, NEW p, Shaped(l, p), NEW c \in 0..p, 0 < c, NEW l2, Removed(l2, l, p, c)
  PROVE  Shaped(l2, p - 1) /\ (Clear(l, p) => Clear(l2, p - 1))
<1>1. p \in Nat /\ p < Size /\ c \in Nat /\ c <= p /\ Size \in Nat /\ 1 <= p
  BY SizeFacts DEF Shaped
<1>2. \A i \in Cells : i \in Nat /\ i < Size
  BY SizeFacts
<1>3. ASSUME NEW i \in Cells, i < p - 1
      PROVE  l2[i] \in Char
  <2>1. i # p - 1 /\ i + 1 \in Cells /\ i + 1 < p /\ i < p
    BY <1>1, <1>2, <1>3, SizeFacts
  <2>2. l2[i] = l[i + 1] \/ l2[i] = l[i]
    BY <2>1 DEF Removed
  <2>. QED  BY <2>1, <2>2 DEF Shaped
<1>4. ASSUME NEW i \in Cells, p - 1 <= i
      PROVE  (i = p - 1 /\ l2[i] = Nul) \/ (p <= i /\ l2[i] = l[i])
  <2>1. CASE i = p - 1
    BY <2>1 DEF Removed
  <2>2. CASE i # p - 1
    <3>1. p <= i /\ ~ (i < p - 1)
      BY <1>1, <1>2, <1>4, <2>2
    <3>2. l2[i] = l[i]
      BY <2>2, <3>1 DEF Removed
    <3>. QED  BY <3>1, <3>2
  <2>. QED  BY <2>1, <2>2
<1>5. p - 1 \in Cells
  BY <1>1, SizeFacts
<1>6. ASSUME NEW i \in Cells, NEW j \in Cells, p - 1 <= i, i <= j, l2[j] = Nul
      PROVE  l2[i] = Nul
  <2>1. CASE i = p - 1 /\ l2[i] = Nul
    BY <2>1
  <2>2. CASE p <= i /\ l2[i] = l[i]
    <3>1. p <= j /\ j # p - 1 /\ p - 1 <= j
      BY <1>1, <1>2, <1>6, <2>2
    <3>2. l2[j] = l[j]
      BY <1>4, <3>1
    <3>. QED  BY <1>6, <2>2, <3>1, <3>2 DEF Shaped
  <2>. QED  BY <1>4, <1>6, <2>1, <2>2
<1>7. Shaped(l2, p - 1)
  BY <1>3, <1>5, <1>6 DEF Shaped, Removed
<1>8. Clear(l, p) => Clear(l2, p - 1)
  BY <1>4 DEF Clear
<1>. QED  BY <1>7, <1>8

\* RemoveAt, element by element.
LEMMA RemoveAtIs ==
  ASSUME NEW t \in Seq(Char), NEW c \in Nat, 0 < c, c <= Len(t)
  PROVE  /\ RemoveAt(t, c) \in Seq(Char) /\ Len(RemoveAt(t, c)) = Len(t) - 1
         /\ \A k \in 1..(Len(t) - 1) : RemoveAt(t, c)[k] = IF k < c THEN t[k] ELSE t[k + 1]
<1>1. PICK p \in Nat : p = Len(t)
  OBVIOUS
<1>2. PICK a : a = SubSeq(t, 1, c - 1)
  OBVIOUS
<1>3. PICK b : b = SubSeq(t, c + 1, p)
  OBVIOUS
<1>4. a \in Seq(Char) /\ Len(a) = c - 1 /\ \A k \in 1..(c - 1) : a[k] = t[k]
  <2>0. PICK d \in Nat : d = c - 1 /\ 1 <= d + 1 /\ d <= p
    BY <1>1
  <2>1. /\ a \in Seq(Char) /\ Len(a) = d - 1 + 1
        /\ \A j \in 1..(d - 1 + 1) : a[j] = t[1 + j - 1]
    BY <1>1, <1>2, <2>0, PartOf
  <2>. QED  BY <2>0, <2>1
<1>5. b \in Seq(Char) /\ Len(b) = p - c /\ \A k \in 1..(p - c) : b[k] = t[c + k]
  <2>0. c + 1 \in Nat \ {0} /\ c + 1 <= p + 1
    BY <1>1
  <2>1. /\ b \in Seq(Char) /\ Len(b) = p - (c + 1) + 1
        /\ \A j \in 1..(p - (c + 1) + 1) : b[j] = t[c + 1 + j - 1]
    BY <1>1, <1>3, <2>0, PartOf
  <2>2. p - (c + 1) + 1 = p - c /\ \A j \in 1..(p - c) : c + 1 + j - 1 = c + j
    BY <1>1
  <2>. QED  BY <2>1, <2>2
<1>6. PICK y : y = a \o b
  OBVIOUS
<1>7. y = RemoveAt(t, c)
  BY <1>1, <1>2, <1>3, <1>6 DEF RemoveAt
<1>8. /\ y \in Seq(Char) /\ Len(y) = (c - 1) + (p - c)
      /\ \A k \in 1..((c - 1) + (p - c)) :
           y[k] = IF k <= c - 1 THEN a[k] ELSE b[k - (c - 1)]
  <2>0. c - 1 \in Nat /\ p - c \in Nat
    BY <1>1
  <2>1. PICK d \in Nat, e \in Nat : d = c - 1 /\ e = p - c
    BY <2>0
  <2>2. a \in Seq(Char) /\ b \in Seq(Char) /\ Len(a) = d /\ Len(b) = e
    BY <1>4, <1>5, <2>1
  <2>3. /\ y \in Seq(Char) /\ Len(y) = d + e
        /\ \A k \in 1..(d + e) : y[k] = IF k <= d THEN a[k] ELSE b[k - d]
    BY <1>6, <2>2, JoinOf
  <2>. QED  BY <2>1, <2>3
<1>9. (c - 1) + (p - c) = p - 1
  BY <1>1
<1>10. ASSUME NEW k \in 1..(p - 1)
       PROVE  y[k] = IF k < c THEN t[k] ELSE t[k + 1]
  <2>1. y[k] = IF k <= c - 1 THEN a[k] ELSE b[k - (c - 1)]
    BY <1>8, <1>9
  <2>2. CASE k < c
    <3>1. k \in 1..(c - 1) /\ k <= c - 1
      BY <2>2
    <3>. QED  BY <1>4, <2>1, <2>2, <3>1
  <2>3. CASE ~ (k < c)
    <3>1. k - (c - 1) \in 1..(p - c) /\ c + (k - (c - 1)) = k + 1 /\ ~ (k <= c - 1)
      BY <1>1, <2>3
    <3>2. b[k - (c - 1)] = t[k + 1]
      BY <1>5, <3>1
    <3>. QED  BY <2>1, <2>3, <3>1, <3>2
  <2>. QED  BY <2>2, <2>3
<1>. QED  BY <1>1, <1>7, <1>8, <1>9, <1>10

\* The text without the character.
LEMMA ErasedText ==
  ASSUME NEW l, NEW p, Shaped(l, p), NEW c \in 0..p, 0 < c, NEW l2, Removed(l2, l, p, c)
  PROVE  Text(l2, p - 1) = RemoveAt(Text(l, p), c)
<1>1. PICK t : t = Text(l, p)
  OBVIOUS
<1>2. t \in Seq(Char) /\ Len(t) = p /\ \A k \in 1..p : t[k] = l[k - 1]
  BY <1>1, ShapedText
<1>3. p \in Nat /\ c \in Nat /\ c <= p /\ p < Size
  BY SizeFacts DEF Shaped
<1>4. PICK s : s = RemoveAt(t, c)
  OBVIOUS
<1>5. /\ s \in Seq(Char) /\ Len(s) = p - 1
      /\ \A k \in 1..(p - 1) : s[k] = IF k < c THEN t[k] ELSE t[k + 1]
  BY <1>2, <1>3, <1>4, RemoveAtIs
<1>6. Shaped(l2, p - 1)
  BY ErasedShape
<1>7. /\ Text(l2, p - 1) \in Seq(Char) /\ Len(Text(l2, p - 1)) = p - 1
      /\ \A k \in 1..(p - 1) : Text(l2, p - 1)[k] = l2[k - 1]
  BY <1>6, ShapedText
<1>8. ASSUME NEW k \in 1..(p - 1)
      PROVE  l2[k - 1] = s[k]
  <2>1. k - 1 \in Cells /\ k - 1 # p - 1
    BY <1>3, SizeFacts
  <2>2. l2[k - 1] = IF c - 1 <= k - 1 /\ k - 1 < p - 1 THEN l[k - 1 + 1] ELSE l[k - 1]
    BY <2>1 DEF Removed
  <2>3. CASE k < c
    <3>1. ~ (c - 1 <= k - 1) /\ k \in 1..p
      BY <1>3, <2>3
    <3>. QED  BY <1>2, <1>5, <2>2, <2>3, <3>1
  <2>4. CASE ~ (k < c)
    <3>1. /\ c - 1 <= k - 1 /\ k - 1 < p - 1 /\ k - 1 + 1 = k
          /\ k + 1 \in 1..p /\ k + 1 - 1 = k
      BY <1>3, <2>4
    <3>2. t[k + 1] = l[k]
      BY <1>2, <3>1
    <3>3. s[k] = t[k + 1]
      BY <1>5, <2>4
    <3>4. l2[k - 1] = l[k]
      BY <2>2, <3>1
    <3>. QED  BY <3>2, <3>3, <3>4
  <2>. QED  BY <2>3, <2>4
<1>. QED  BY <1>1, <1>4, <1>5, <1>7, <1>8, SameText

\* The text of l up to p, and nothing behind it: what is remembered.
LEMMA PaddedIs ==
  ASSUME NEW l, NEW p, Shaped(l, p), NEW h,
         h = [i \in Cells |-> IF i < p THEN l[i] ELSE Nul]
  PROVE  /\ Shaped(h, p) /\ Clear(h, p)
         /\ Text(h, StrLen(h)) = Text(l, p)
<1>1. p \in Cells /\ p \in Nat /\ p < Size
  BY SizeFacts DEF Shaped
<1>2. \A i \in Cells : i \in Nat /\ i < Size
  BY SizeFacts
<1>3. \A i \in Cells : h[i] = IF i < p THEN l[i] ELSE Nul
  OBVIOUS
<1>4. \A i \in Cells : p <= i => ~ (i < p)
  BY <1>1, <1>2
<1>5. Clear(h, p)
  BY <1>3, <1>4 DEF Clear
<1>6. h \in [Cells -> Char \cup {Nul}] /\ \A i \in Cells : i < p => h[i] \in Char
  BY <1>3 DEF Shaped
<1>7. Shaped(h, p)
  BY <1>1, <1>5, <1>6 DEF Shaped, Clear
<1>8. StrLen(h) = p
  BY <1>5, <1>7, ClearBounded, ShapedEnd
<1>9. Text(h, p) = Text(l, p)
  <2>1. /\ Text(h, p) \in Seq(Char) /\ Len(Text(h, p)) = p
        /\ \A k \in 1..p : Text(h, p)[k] = h[k - 1]
    BY <1>7, ShapedText
  <2>2. /\ Text(l, p) \in Seq(Char) /\ Len(Text(l, p)) = p
        /\ \A k \in 1..p : Text(l, p)[k] = l[k - 1]
    BY ShapedText
  <2>3. ASSUME NEW k \in 1..p PROVE h[k - 1] = l[k - 1]
    <3>1. k - 1 \in Cells /\ k - 1 < p
      BY <1>1, SizeFacts
    <3>. QED  BY <1>3, <3>1
  <2>. QED  BY <2>1, <2>2, <2>3, SameText
<1>. QED  BY <1>5, <1>7, <1>8, <1>9

\* name over the beginning of the buffer.
Over(l2, l, name) ==
  l2 = [i \in Cells |-> IF i < Len(name) THEN name[i + 1] ELSE l[i]]

\* A name over a text it begins with: the text is the name, and if no NUL is
\* left the part up to the old end is what it was.
LEMMA OverShape ==
  ASSUME NEW l, NEW p, Shaped(l, p), NEW name \in Seq(Char), p <= Len(name), Len(name) < Size,
         \A k \in 1..p : name[k] = Text(l, p)[k], NEW l2, Over(l2, l, name)
  PROVE  /\ Shaped(l2, Len(name)) /\ (Clear(l, p) => Clear(l2, Len(name)))
         /\ Text(l2, Len(name)) = name /\ Text(l2, p) = Text(l, p)
         /\ ~ Bounded(l2) => Shaped(l2, p)
<1>1. PICK q \in Nat : q = Len(name)
  OBVIOUS
<1>2. p \in Nat /\ p < Size /\ Size \in Nat /\ p <= q /\ q < Size /\ p \in Cells
  BY <1>1, SizeFacts DEF Shaped
<1>3. \A i \in Cells : i \in Nat /\ i < Size
  BY SizeFacts
<1>4. \A k \in 1..q : name[k] \in Char
  BY <1>1
<1>5. \A i \in Cells : i < q => i + 1 \in 1..q
  BY <1>2, <1>3
<1>6. \A i \in Cells : l2[i] = IF i < q THEN name[i + 1] ELSE l[i]
  BY <1>1 DEF Over
<1>7. \A i \in Cells : i < q => l2[i] \in Char
  BY <1>4, <1>5, <1>6
<1>8. \A i \in Cells : q <= i => l2[i] = l[i] /\ p <= i
  <2>1. \A i \in Cells : q <= i => (~ (i < q)) /\ (p <= i)
    <3>. SUFFICES ASSUME NEW i \in Cells, q <= i PROVE (~ (i < q)) /\ (p <= i)
      OBVIOUS
    <3>. QED  BY <1>2, <1>3
  <2>. QED  BY <1>6, <2>1
<1>9. l2 \in [Cells -> Char \cup {Nul}]
  <2>1. \A i \in Cells : l[i] \in Char \cup {Nul}
    BY DEF Shaped
  <2>2. ASSUME NEW i \in Cells PROVE i < q \/ q <= i
    <3>1. i \in Nat /\ q \in Nat
      BY <1>3
    <3>. QED  BY <3>1
  <2>3. \A i \in Cells : l2[i] \in Char \cup {Nul}
    BY <1>7, <1>8, <2>1, <2>2
  <2>4. l2 = [i \in Cells |-> l2[i]]
    BY DEF Over
  <2>. QED  BY <2>3, <2>4
<1>10. q \in Cells
  BY <1>2, SizeFacts
<1>11. ASSUME NEW i \in Cells, NEW j \in Cells, q <= i, i <= j, l2[j] = Nul
       PROVE  l2[i] = Nul
  <2>1. q <= j
    BY <1>2, <1>3, <1>11
  <2>2. l2[i] = l[i] /\ p <= i /\ l2[j] = l[j]
    BY <1>8, <1>11, <2>1
  <2>. QED  BY <1>11, <2>2 DEF Shaped
<1>12. Shaped(l2, q)
  BY <1>7, <1>9, <1>10, <1>11 DEF Shaped
<1>13. Clear(l, p) => Clear(l2, q)
  BY <1>8 DEF Clear
<1>14. /\ Text(l2, q) \in Seq(Char) /\ Len(Text(l2, q)) = q
       /\ \A k \in 1..q : Text(l2, q)[k] = l2[k - 1]
  BY <1>12, ShapedText
<1>15. ASSUME NEW k \in 1..q
       PROVE  l2[k - 1] = name[k]
  <2>1. k - 1 \in Cells /\ k - 1 < q /\ k - 1 + 1 = k
    BY <1>2, SizeFacts
  <2>. QED  BY <1>6, <2>1
<1>16. Text(l2, q) = name
  BY <1>1, <1>14, <1>15, SameText
<1>17. \A i \in Cells : i < p => l2[i] \in Char
  <2>1. \A i \in Cells : i < p => i < q
    BY <1>2, <1>3
  <2>. QED  BY <1>7, <2>1
<1>18. Text(l2, p) = Text(l, p)
  <2>1. p <= Size
    BY <1>2
  <2>2. /\ Text(l2, p) \in Seq(Char) /\ Len(Text(l2, p)) = p
        /\ \A k \in 1..p : Text(l2, p)[k] = l2[k - 1]
    BY <1>2, <1>17, <2>1, TextIs
  <2>3. Text(l, p) \in Seq(Char) /\ Len(Text(l, p)) = p
    BY ShapedText
  <2>4. \A k \in 1..p : l2[k - 1] = Text(l, p)[k]
    <3>1. \A k \in 1..p : k \in 1..q
      BY <1>2
    <3>. QED  BY <1>15, <3>1
  <2>. QED  BY <2>2, <2>3, <2>4, SameText
<1>19. ~ Bounded(l2) => Shaped(l2, p)
  <2>1. ~ Bounded(l2) => \A j \in Cells : l2[j] # Nul
    BY DEF Bounded, Holes
  <2>. QED  BY <1>2, <1>9, <1>17, <2>1 DEF Shaped
<1>. QED  BY <1>1, <1>12, <1>13, <1>16, <1>18, <1>19

\* What the tab key writes: nothing behind a buffer without a NUL, since no name
\* is that long, and otherwise a name that begins with the text.
LEMMA CompletedIs ==
  ASSUME Shaped(line, line_position)
  PROVE  LET t == Text(line, line_position)
             M == {n \in Names : IsPrefix(t, n)}
             name == LongestCommonPrefix(M)
         IN /\ ~ Bounded(line) => Completed = line
            /\ Bounded(line) /\ (t = << >> \/ M = {}) => Completed = line
            /\ Bounded(line) /\ ~ (t = << >> \/ M = {}) =>
                 /\ Over(Completed, line, name)
                 /\ name \in Seq(Char) /\ line_position <= Len(name) /\ Len(name) < Size
                 /\ \A k \in 1..line_position : name[k] = t[k]
<1>1. PICK l, p : l = line /\ p = line_position
  OBVIOUS
<1>2. Shaped(l, p)
  BY <1>1
<1>3. PICK s : s = Text(l, IF Bounded(l) THEN StrLen(l) ELSE Size)
  OBVIOUS
<1>4. PICK M : M = {n \in Names : IsPrefix(s, n)}
  OBVIOUS
<1>5. PICK name : name = LongestCommonPrefix(M)
  OBVIOUS
<1>6. Completed = IF s = << >> \/ M = {} THEN l
                  ELSE [i \in Cells |-> IF i < Len(name) THEN name[i + 1] ELSE l[i]]
  BY <1>1, <1>3, <1>4, <1>5 DEF Completed
<1>7. CASE ~ Bounded(l)
  <2>1. \A i \in Cells : l[i] \in Char
    BY <1>2, <1>7 DEF Shaped, Bounded, Holes
  <2>2. s \in Seq(Char) /\ Len(s) = Size
    <3>1. Size \in Nat /\ Size <= Size
      BY SizeFacts
    <3>. QED  BY <1>3, <1>7, <2>1, <3>1, TextIs
  <2>3. ASSUME NEW n \in Names PROVE ~ IsPrefix(s, n)
    <3>1. n \in Seq(Char) /\ Len(n) < Size /\ Len(n) \in Nat /\ Size \in Nat
      BY SizeFacts
    <3>2. ~ (Len(s) <= Len(n))
      BY <2>2, <3>1
    <3>. QED  BY <3>2 DEF IsPrefix
  <2>4. M = {}
    BY <1>4, <2>3
  <2>. QED  BY <1>1, <1>6, <1>7, <2>4
<1>8. CASE Bounded(l)
  <2>1. s = Text(l, p)
    BY <1>2, <1>3, <1>8, ShapedEnd
  <2>2. s \in Seq(Char) /\ Len(s) = p
    BY <1>2, <2>1, ShapedText
  <2>3. CASE s = << >> \/ M = {}
    BY <1>1, <1>4, <1>6, <1>8, <2>1, <2>3
  <2>4. CASE ~ (s = << >> \/ M = {})
    <3>1. Over(Completed, l, name)
      BY <1>6, <2>4 DEF Over
    <3>2. M \in SUBSET Names /\ M # {} /\ \A m \in M : IsPrefix(s, m)
      BY <1>4, <2>4
    <3>3. /\ name \in Seq(Char) /\ Len(s) <= Len(name) /\ Len(name) < Size
          /\ \A k \in 1..Len(s) : name[k] = s[k]
      BY <1>5, <2>2, <3>2, LongestIs
    <3>. QED  BY <1>1, <1>4, <1>5, <1>8, <2>1, <2>2, <2>4, <3>1, <3>3
  <2>. QED  BY <2>3, <2>4
<1>. QED  BY <1>1, <1>7, <1>8

-----------------------------------------------------------------------------
(* The history                                                             *)

\* The texts of the first n lines of h.
PastOf(h, n) == [i \in 1 .. n |-> Text(h[i - 1], StrLen(h[i - 1]))]

\* The text of a line of the history.
LEMMA StoredText ==
  ASSUME NEW h, Stored(h), NEW k \in 0 .. Lines - 1
  PROVE  /\ Shaped(h[k], StrLen(h[k])) /\ Clear(h[k], StrLen(h[k]))
         /\ Text(h[k], StrLen(h[k])) \in Seq(Char)
         /\ Len(Text(h[k], StrLen(h[k]))) = StrLen(h[k])
<1>1. PICK q \in Cells : Shaped(h[k], q) /\ Clear(h[k], q)
  BY DEF Stored
<1>2. StrLen(h[k]) = q
  BY <1>1, ClearBounded, ShapedEnd
<1>. QED  BY <1>1, <1>2, ShapedText

\* The texts of the history are a list.
LEMMA PastIs ==
  ASSUME NEW h, Stored(h), NEW n \in 0 .. Lines
  PROVE  /\ PastOf(h, n) \in Seq(Seq(Char)) /\ Len(PastOf(h, n)) = n
         /\ \A k \in 1..n : /\ PastOf(h, n)[k] = Text(h[k - 1], StrLen(h[k - 1]))
                            /\ PastOf(h, n)[k] \in Seq(Char)
<1>1. n \in Nat /\ n <= Lines /\ Lines \in Nat
  BY SizeFacts
<1>2. \A k \in 1..n : k - 1 \in 0 .. Lines - 1
  BY <1>1
<1>3. \A k \in 1..n : Text(h[k - 1], StrLen(h[k - 1])) \in Seq(Char)
  BY <1>2, StoredText
<1>4. \A k \in 1..n : PastOf(h, n)[k] = Text(h[k - 1], StrLen(h[k - 1]))
  BY DEF PastOf
<1>5. PastOf(h, n) \in [1..n -> Seq(Char)]
  BY <1>3 DEF PastOf
<1>6. \A S : \A f \in [1..n -> S] : f \in Seq(S) /\ Len(f) = n
  BY <1>1
<1>. QED  BY <1>3, <1>4, <1>5, <1>6

\* A line that has been stored at the end of a history with room.
LEMMA AppendedPast ==
  ASSUME NEW h, Stored(h), NEW n \in 0 .. Lines, n < Lines,
         NEW x, NEW q, Shaped(x, q), Clear(x, q),
         NEW h2, \A k \in 0 .. Lines - 1 : h2[k] = IF k = n THEN x ELSE h[k]
  PROVE  /\ Stored(h2)
         /\ PastOf(h2, n + 1) = Append(PastOf(h, n), Text(x, StrLen(x)))
<1>1. n \in Nat /\ Lines \in Nat /\ n + 1 \in 0 .. Lines /\ n \in 0 .. Lines - 1
  BY SizeFacts
<1>2. q \in Cells
  BY DEF Shaped
<1>3. Stored(h2)
  BY <1>2 DEF Stored
<1>4. PICK s : s = PastOf(h, n)
  OBVIOUS
<1>5. PICK u : u = PastOf(h2, n + 1)
  OBVIOUS
<1>6. PICK t : t = Text(x, StrLen(x))
  OBVIOUS
<1>7. h2[n] = x
  BY <1>1
<1>8. t \in Seq(Char)
  BY <1>1, <1>3, <1>6, <1>7, StoredText
<1>9. /\ s \in Seq(Seq(Char)) /\ Len(s) = n
      /\ \A k \in 1..n : s[k] = Text(h[k - 1], StrLen(h[k - 1]))
  BY <1>4, PastIs
<1>10. /\ u \in Seq(Seq(Char)) /\ Len(u) = n + 1
       /\ \A k \in 1..(n + 1) : u[k] = Text(h2[k - 1], StrLen(h2[k - 1]))
  BY <1>1, <1>3, <1>5, PastIs
<1>11. /\ Append(s, t) \in Seq(Seq(Char)) /\ Len(Append(s, t)) = n + 1
       /\ \A k \in 1..(n + 1) : Append(s, t)[k] = IF k <= n THEN s[k] ELSE t
  BY <1>1, <1>8, <1>9
<1>12. ASSUME NEW k \in 1..(n + 1)
       PROVE  u[k] = Append(s, t)[k]
  <2>1. CASE k <= n
    <3>1. k \in 1..n /\ k - 1 \in 0 .. Lines - 1 /\ k - 1 # n
      BY <1>1, <2>1
    <3>2. h2[k - 1] = h[k - 1]
      BY <3>1
    <3>3. s[k] = Text(h[k - 1], StrLen(h[k - 1]))
      BY <1>9, <3>1
    <3>4. u[k] = Text(h2[k - 1], StrLen(h2[k - 1]))
      BY <1>10
    <3>5. Append(s, t)[k] = s[k]
      BY <1>11, <2>1
    <3>. QED  BY <3>2, <3>3, <3>4, <3>5
  <2>2. CASE ~ (k <= n)
    <3>1. k = n + 1 /\ k - 1 = n
      BY <1>1, <2>2
    <3>2. u[k] = t
      BY <1>6, <1>7, <1>10, <3>1
    <3>. QED  BY <1>11, <2>2, <3>2
  <2>. QED  BY <2>1, <2>2
<1>13. u = Append(s, t)
  BY <1>10, <1>11, <1>12, SameText
<1>. QED  BY <1>3, <1>4, <1>5, <1>6, <1>13

\* A full history that has moved down by one line.
LEMMA ShiftedPast ==
  ASSUME NEW h, Stored(h), NEW x, NEW q, Shaped(x, q), Clear(x, q),
         NEW h2, \A k \in 0 .. Lines - 1 : h2[k] = IF k = Lines - 1 THEN x ELSE h[k + 1]
  PROVE  /\ Stored(h2)
         /\ PastOf(h2, Lines) = Tail(Append(PastOf(h, Lines), Text(x, StrLen(x))))
<1>1. Lines \in Nat /\ 0 < Lines /\ Lines \in 0 .. Lines /\ Lines - 1 \in 0 .. Lines - 1
  BY SizeFacts
<1>2. q \in Cells
  BY DEF Shaped
<1>3. Stored(h2)
  <2>1. ASSUME NEW k \in 0 .. Lines - 1
        PROVE  \E r \in Cells : Shaped(h2[k], r) /\ Clear(h2[k], r)
    <3>1. CASE k = Lines - 1
      BY <1>2, <3>1
    <3>2. CASE k # Lines - 1
      <4>1. k + 1 \in 0 .. Lines - 1
        BY <1>1, <3>2
      <4>2. h2[k] = h[k + 1]
        BY <3>2
      <4>. QED  BY <4>1, <4>2 DEF Stored
    <3>. QED  BY <3>1, <3>2
  <2>. QED  BY <2>1 DEF Stored
<1>4. PICK s : s = PastOf(h, Lines)
  OBVIOUS
<1>5. PICK u : u = PastOf(h2, Lines)
  OBVIOUS
<1>6. PICK t : t = Text(x, StrLen(x))
  OBVIOUS
<1>7. h2[Lines - 1] = x
  BY <1>1
<1>8. t \in Seq(Char)
  BY <1>1, <1>3, <1>6, <1>7, StoredText
<1>9. /\ s \in Seq(Seq(Char)) /\ Len(s) = Lines
      /\ \A k \in 1..Lines : s[k] = Text(h[k - 1], StrLen(h[k - 1]))
  BY <1>1, <1>4, PastIs
<1>10. /\ u \in Seq(Seq(Char)) /\ Len(u) = Lines
       /\ \A k \in 1..Lines : u[k] = Text(h2[k - 1], StrLen(h2[k - 1]))
  BY <1>1, <1>3, <1>5, PastIs
<1>11. PICK v : v = Append(s, t)
  OBVIOUS
<1>12. /\ v \in Seq(Seq(Char)) /\ Len(v) = Lines + 1
       /\ \A k \in 1..(Lines + 1) : v[k] = IF k <= Lines THEN s[k] ELSE t
  BY <1>1, <1>8, <1>9, <1>11
<1>13. v # << >>
  BY <1>1, <1>12
<1>14. /\ Tail(v) \in Seq(Seq(Char)) /\ Len(Tail(v)) = Lines
       /\ \A k \in 1..Lines : Tail(v)[k] = v[k + 1]
  BY <1>1, <1>12, <1>13
<1>15. ASSUME NEW k \in 1..Lines
       PROVE  u[k] = Tail(v)[k]
  <2>0. k \in Nat /\ k + 1 \in 1..(Lines + 1) /\ k - 1 \in 0 .. Lines - 1
    BY <1>1
  <2>1. CASE k < Lines
    <3>1. k + 1 <= Lines /\ k + 1 \in 1..Lines /\ k - 1 # Lines - 1
      BY <1>1, <2>1
    <3>2. h2[k - 1] = h[k - 1 + 1] /\ k - 1 + 1 = k
      BY <2>0, <3>1
    <3>3. s[k + 1] = Text(h[k + 1 - 1], StrLen(h[k + 1 - 1])) /\ k + 1 - 1 = k
      BY <1>9, <3>1
    <3>4. u[k] = Text(h2[k - 1], StrLen(h2[k - 1]))
      BY <1>10
    <3>5. Tail(v)[k] = s[k + 1]
      BY <1>12, <1>14, <2>0, <3>1
    <3>. QED  BY <3>2, <3>3, <3>4, <3>5
  <2>2. CASE ~ (k < Lines)
    <3>1. k = Lines /\ k - 1 = Lines - 1 /\ ~ (k + 1 <= Lines)
      BY <1>1, <2>2
    <3>2. u[k] = t
      BY <1>6, <1>7, <1>10, <3>1
    <3>3. Tail(v)[k] = t
      BY <1>12, <1>14, <2>0, <3>1
    <3>. QED  BY <3>2, <3>3
  <2>. QED  BY <2>1, <2>2
<1>16. u = Tail(v)
  BY <1>10, <1>14, <1>15, SameText
<1>. QED  BY <1>3, <1>4, <1>5, <1>6, <1>11, <1>16

\* The operators on sequences that Editor takes from the library are those of
\* the line editor.
LEMMA ScreenOps ==
  /\ \A s, i, e : Screen!InsertAt(s, i, e) = InsertAt(s, i, e)
  /\ \A s, i : Screen!RemoveAt(s, i) = RemoveAt(s, i)
  /\ \A s, t : Screen!IsPrefix(s, t) = IsPrefix(s, t)
  /\ \A s : Screen!LongestCommonPrefix(s) = LongestCommonPrefix(s)
  /\ \A s : Screen!Last(s) = Last(s)
BY DEF Screen!InsertAt, InsertAt, Screen!RemoveAt, RemoveAt, Screen!IsPrefix, IsPrefix,
       Screen!LongestCommonPrefix, LongestCommonPrefix, Screen!CommonPrefixes,
       CommonPrefixes, Screen!Prefixes, Prefixes, Screen!Last, Last

-----------------------------------------------------------------------------
(* Steps                                                                   *)

\* What the user sees, as a function of the buffer and of the history.
LEMMA Views ==
  /\ Shown = Text(line, line_position)
  /\ Shown' = Text(line', line_position')
  /\ Recallable = PastOf(cmd_history, history_count)
  /\ Recallable' = PastOf(cmd_history', history_count')
BY DEF Shown, Recallable, PastOf, Text, StrLen, Holes

\* The states of an escape sequence.
LEMMA StatIs ==
  ASSUME ShellInv
  PROVE  /\ Escape => stat' \in Stats
         /\ Bracket => stat' \in Stats
         /\ Arrow => stat' \in Stats
         /\ \A ch : Itself(ch) => stat' \in Stats
BY DEF Escape, Bracket, Arrow, Itself, Stats

Kept == UNCHANGED <<cmd_history, history_count, current_history>>

\* A step that leaves the history alone.
LEMMA KeptHistory ==
  ASSUME HistoryInv, Kept
  PROVE  HistoryInv' /\ Recallable' = Recallable /\ current_history' = current_history
<1>1. /\ cmd_history' = cmd_history /\ history_count' = history_count
      /\ current_history' = current_history
  BY DEF Kept
<1>2. HistoryInv'
  BY <1>1 DEF HistoryInv
<1>. QED  BY <1>1, <1>2, Views

\* A key that changes nothing.
LEMMA Idle ==
  ASSUME ShellInv, UNCHANGED <<shell, commands, discarded, lost>>,
         stat' \in Stats
  PROVE  ShellInv' /\ UNCHANGED Screen!vars
<1>1. /\ line' = line /\ line_position' = line_position /\ line_curpos' = line_curpos
      /\ discarded' = discarded /\ lost' = lost /\ Kept
  BY DEF shell, commands, Kept
<1>2. LineInv'
  BY <1>1 DEF ShellInv, LineInv
<1>3. HistoryInv' /\ Recallable' = Recallable /\ current_history' = current_history
  BY <1>1, KeptHistory DEF ShellInv
<1>4. Shown' = Shown
  BY <1>1, Views
<1>. QED  BY <1>1, <1>2, <1>3, <1>4 DEF Screen!vars, ShellInv

\* The cursor keys.
LEMMA MoveStep ==
  ASSUME ShellInv, Left \/ Right
  PROVE  ShellInv' /\ [Screen!Left \/ Screen!Right]_(Screen!vars)
<1>1. PICK c, p : c = line_curpos /\ p = line_position
  OBVIOUS
<1>0. c \in Nat /\ p \in Nat /\ c <= p
  BY <1>1, SizeFacts DEF ShellInv, LineInv, Shaped
<1>2. /\ line' = line /\ line_position' = line_position
      /\ discarded' = discarded /\ lost' = lost /\ Kept /\ Arrow
  BY DEF Left, Right, MoveCursor, commands, Kept
<1>3. \/ 0 < c /\ line_curpos' = c - 1
      \/ c < p /\ line_curpos' = c + 1
      \/ line_curpos' = c
  <2>1. CASE Left
    BY <1>0, <1>1, <2>1 DEF Left, MoveCursor
  <2>2. CASE Right
    BY <1>0, <1>1, <2>2 DEF Right, MoveCursor
  <2>. QED  BY <2>1, <2>2
<1>4. line_curpos' \in 0 .. line_position'
  BY <1>0, <1>1, <1>2, <1>3
<1>5. /\ Shaped(line', line_position')
      /\ discarded' \/ Clear(line', line_position')
      /\ discarded' \in BOOLEAN /\ lost' \in BOOLEAN /\ (lost' => discarded')
  BY <1>2, Zenon DEF ShellInv, LineInv
<1>6. LineInv'
  <2>1. stat' \in Stats
    BY <1>2, StatIs
  <2>. QED  BY <1>4, <1>5, <2>1, Zenon DEF LineInv
<1>8. HistoryInv' /\ Recallable' = Recallable /\ current_history' = current_history
  BY <1>2, KeptHistory DEF ShellInv
<1>7. Shown' = Shown /\ Len(Shown) = p
  BY <1>1, <1>2, Views, ShapedText DEF ShellInv, LineInv
<1>. QED  BY <1>0, <1>1, <1>3, <1>6, <1>7, <1>8 DEF Screen!vars, Screen!Left, Screen!Right, ShellInv

\* A character.
LEMMA TypeStep ==
  ASSUME ShellInv, NEW ch \in Char, Type(ch)
  PROVE  ShellInv' /\ Screen!Insert(ch)
<1>1. PICK l, c, p : l = line /\ c = line_curpos /\ p = line_position
  OBVIOUS
<1>2. /\ Shaped(l, p) /\ c \in 0..p /\ p \in Nat /\ p < Size /\ Size \in Nat
      /\ c \in Nat /\ 0 <= p + 1
  <2>1. Shaped(l, p) /\ c \in 0..p
    BY <1>1 DEF ShellInv, LineInv
  <2>. QED  BY <2>1, SizeFacts DEF Shaped
<1>3. PICK l2 : l2 = line'
  OBVIOUS
<1>4. l2 = IF c < p
             THEN [i \in Cells |-> IF i = c THEN ch
                                   ELSE IF c < i /\ i <= p THEN l[i - 1] ELSE l[i]]
             ELSE [l EXCEPT ![p] = ch]
  BY <1>1, <1>3 DEF Type
<1>5. Inserted(l2, l, p, c, ch)
  BY <1>2, <1>4, InsertedIs
<1>6. /\ p + 1 < Size => Shaped(l2, p + 1) /\ (Clear(l, p) => Clear(l2, p + 1))
      /\ ~ (p + 1 < Size) => Shaped(l2, 0)
  BY <1>2, <1>5, InsertedShape
<1>7. /\ Len(InsertAt(Text(l, p), c + 1, ch)) = p + 1
      /\ p + 1 < Size => Text(l2, p + 1) = InsertAt(Text(l, p), c + 1, ch)
  BY <1>2, <1>5, InsertedText
<1>8. Kept /\ lost' = lost /\ Itself(ch)
  BY DEF Type, commands, Kept
<1>9. stat' \in Stats
  BY <1>8, StatIs
<1>10. CASE p + 1 < Size
  <2>1. line_position' = p + 1 /\ line_curpos' = c + 1 /\ discarded' = discarded
    BY <1>1, <1>2, <1>10 DEF Type, TooLong
  <2>2. Shaped(line', line_position') /\ line_curpos' \in 0 .. line_position'
    BY <1>2, <1>3, <1>6, <1>10, <2>1
  <2>3. /\ discarded' \/ Clear(line', line_position')
        /\ discarded' \in BOOLEAN /\ lost' \in BOOLEAN /\ (lost' => discarded')
    BY <1>1, <1>3, <1>6, <1>8, <1>10, <2>1, Zenon DEF ShellInv, LineInv
  <2>4. ShellInv' /\ Recallable' = Recallable /\ current_history' = current_history
    <3>1. LineInv'
      BY <1>9, <2>2, <2>3, Zenon DEF LineInv
    <3>2. HistoryInv' /\ Recallable' = Recallable /\ current_history' = current_history
      BY <1>8, KeptHistory DEF ShellInv
    <3>. QED  BY <3>1, <3>2 DEF ShellInv
  <2>5. Shown' = InsertAt(Shown, line_curpos + 1, ch) /\ Len(InsertAt(Shown, line_curpos + 1, ch)) < Size
    BY <1>1, <1>3, <1>7, <1>10, <2>1, Views
  <2>. QED  BY <1>1, <2>1, <2>4, <2>5, ScreenOps DEF Screen!Insert
<1>11. CASE ~ (p + 1 < Size)
  <2>1. line_position' = 0 /\ line_curpos' = 0 /\ discarded' = TRUE
    BY <1>1, <1>2, <1>11 DEF Type, TooLong
  <2>2. Shaped(line', line_position') /\ line_curpos' \in 0 .. line_position'
    BY <1>3, <1>6, <1>11, <2>1
  <2>3. /\ discarded' \/ Clear(line', line_position')
        /\ discarded' \in BOOLEAN /\ lost' \in BOOLEAN /\ (lost' => discarded')
    BY <1>8, <2>1, Zenon DEF ShellInv, LineInv
  <2>4. ShellInv' /\ Recallable' = Recallable /\ current_history' = current_history
    <3>1. LineInv'
      BY <1>9, <2>2, <2>3, Zenon DEF LineInv
    <3>2. HistoryInv' /\ Recallable' = Recallable /\ current_history' = current_history
      BY <1>8, KeptHistory DEF ShellInv
    <3>. QED  BY <3>1, <3>2 DEF ShellInv
  <2>5. ~ (Len(InsertAt(Shown, line_curpos + 1, ch)) < Size)
    BY <1>1, <1>7, <1>11, Views
  <2>6. Shown' = << >>
    <3>1. Text(line', 0) \in Seq(Char) /\ Len(Text(line', 0)) = 0
      BY <2>1, <2>2, ShapedText
    <3>. QED  BY <2>1, <3>1, Views
  <2>. QED  BY <2>1, <2>4, <2>5, <2>6, ScreenOps DEF Screen!Insert
<1>. QED  BY <1>10, <1>11

\* The backspace key.
LEMMA BackspaceStep ==
  ASSUME ShellInv, Backspace
  PROVE  ShellInv' /\ Screen!Erase
<1>1. PICK l, c, p : l = line /\ c = line_curpos /\ p = line_position
  OBVIOUS
<1>2. /\ Shaped(l, p) /\ c \in 0..p /\ p \in Nat /\ c \in Nat /\ 0 < c
  <2>1. Shaped(l, p) /\ c \in 0..p /\ c > 0
    BY <1>1 DEF ShellInv, LineInv, Backspace
  <2>. QED  BY <2>1, SizeFacts DEF Shaped
<1>3. PICK l2 : l2 = line'
  OBVIOUS
<1>4. l2 = [i \in Cells |-> IF i = p - 1 THEN Nul
                            ELSE IF c - 1 <= i /\ i < p - 1 THEN l[i + 1] ELSE l[i]]
  BY <1>1, <1>3 DEF Backspace
<1>5. Removed(l2, l, p, c)
  BY <1>2, <1>4, ErasedIs
<1>6. Shaped(l2, p - 1) /\ (Clear(l, p) => Clear(l2, p - 1))
  BY <1>2, <1>5, ErasedShape
<1>7. Text(l2, p - 1) = RemoveAt(Text(l, p), c)
  BY <1>2, <1>5, ErasedText
<1>8. /\ Kept /\ lost' = lost /\ discarded' = discarded /\ Itself("BS")
      /\ line_position' = p - 1 /\ line_curpos' = c - 1
  BY <1>1 DEF Backspace, commands, Kept
<1>9. stat' \in Stats
  BY <1>8, StatIs
<1>10. Shaped(line', line_position') /\ line_curpos' \in 0 .. line_position'
  BY <1>2, <1>3, <1>6, <1>8
<1>11. /\ discarded' \/ Clear(line', line_position')
       /\ discarded' \in BOOLEAN /\ lost' \in BOOLEAN /\ (lost' => discarded')
  BY <1>1, <1>3, <1>6, <1>8, Zenon DEF ShellInv, LineInv
<1>12. ShellInv' /\ Recallable' = Recallable /\ current_history' = current_history
  BY <1>8, <1>9, <1>10, <1>11, KeptHistory DEF ShellInv, LineInv
<1>13. Shown' = RemoveAt(Shown, line_curpos)
  BY <1>1, <1>3, <1>7, <1>8, Views
<1>. QED  BY <1>1, <1>2, <1>8, <1>12, <1>13, ScreenOps DEF Screen!Erase

\* A command is recalled.
LEMMA RecallStep ==
  ASSUME ShellInv, ~ lost, NEW i \in 0 .. history_count - 1, ShowHistory(i), Arrow
  PROVE  ShellInv' /\ Screen!Recall(i)
<1>1. PICK h, n : h = cmd_history /\ n = history_count
  OBVIOUS
<1>2. Stored(h) /\ n \in 0 .. Lines /\ i \in 0 .. n - 1 /\ h \in Histories
  BY <1>1 DEF ShellInv, HistoryInv
<1>3. n \in Nat /\ n <= Lines /\ Lines \in Nat /\ i \in Nat /\ i + 1 \in 1..n /\ i + 1 - 1 = i
      /\ i \in 0 .. Lines - 1 /\ i \in 0 .. n
  BY <1>2, SizeFacts
<1>4. PICK x, q : x = h[i] /\ q = StrLen(h[i])
  OBVIOUS
<1>5. /\ Shaped(x, q) /\ Clear(x, q) /\ Text(x, q) \in Seq(Char) /\ Len(Text(x, q)) = q
  BY <1>2, <1>3, <1>4, StoredText
<1>6. /\ current_history' = i /\ line' = x /\ line_position' = q /\ line_curpos' = q
      /\ discarded' = FALSE /\ cmd_history' = h /\ history_count' = n /\ lost' = lost
  BY <1>1, <1>4 DEF ShowHistory, StrLen, Holes
<1>7. stat' \in Stats
  BY StatIs
<1>8. Shaped(line', line_position') /\ Clear(line', line_position')
  BY <1>5, <1>6
<1>9. line_curpos' \in 0 .. line_position'
  <2>1. q \in Nat
    BY <1>5, SizeFacts DEF Shaped
  <2>. QED  BY <1>6, <2>1
<1>10. /\ discarded' \in BOOLEAN /\ lost' \in BOOLEAN /\ (lost' => discarded')
  BY <1>6, Zenon DEF ShellInv, LineInv
<1>11. LineInv'
  BY <1>7, <1>8, <1>9, <1>10, Zenon DEF LineInv
<1>12. HistoryInv'
  BY <1>1, <1>2, <1>3, <1>6 DEF HistoryInv
<1>13. Recallable' = Recallable
  BY <1>1, <1>6, Views
<1>14. Recallable = PastOf(h, n) /\ PastOf(h, n)[i + 1] = Text(h[i], StrLen(h[i]))
  <2>1. PICK k \in 1..n : k = i + 1 /\ k - 1 = i
    BY <1>3
  <2>2. PastOf(h, n)[k] = Text(h[k - 1], StrLen(h[k - 1]))
    BY <1>2, <2>1, PastIs
  <2>. QED  BY <1>1, <2>1, <2>2, Views
<1>15. Shown' = Recallable[i + 1] /\ line_curpos' = Len(Shown')
  BY <1>3, <1>4, <1>5, <1>6, <1>14, Views
<1>. QED  BY <1>6, <1>11, <1>12, <1>13, <1>15 DEF ShellInv, Screen!Recall

\* The tab key.
LEMMA TabStep ==
  ASSUME ShellInv, ~ lost, Tab
  PROVE  ShellInv' /\ [Screen!Complete]_(Screen!vars)
<1>1. PICK l, p : l = line /\ p = line_position
  OBVIOUS
<1>2. Shaped(l, p) /\ line_curpos \in 0 .. p /\ (discarded \/ Clear(l, p))
  BY <1>1 DEF ShellInv, LineInv
<1>3. PICK t : t = Text(l, p)
  OBVIOUS
<1>4. PICK M : M = {n \in Names : IsPrefix(t, n)}
  OBVIOUS
<1>5. PICK name : name = LongestCommonPrefix(M)
  OBVIOUS
<1>6. PICK l2 : l2 = Completed
  OBVIOUS
<1>7. /\ ~ Bounded(l) => l2 = l
      /\ Bounded(l) /\ (t = << >> \/ M = {}) => l2 = l
      /\ Bounded(l) /\ ~ (t = << >> \/ M = {}) =>
           /\ Over(l2, l, name)
           /\ name \in Seq(Char) /\ p <= Len(name) /\ Len(name) < Size
           /\ \A k \in 1..p : name[k] = t[k]
  BY <1>1, <1>2, <1>3, <1>4, <1>5, <1>6, CompletedIs
<1>8. /\ Kept /\ Itself("TAB") /\ line' = l2 /\ discarded' = discarded
      /\ \/ Bounded(l2) /\ line_position' = StrLen(l2) /\ line_curpos' = StrLen(l2)
            /\ lost' = lost
         \/ ~ Bounded(l2) /\ lost' = TRUE /\ line_position' = line_position
            /\ line_curpos' = line_curpos
  BY <1>6 DEF Tab, Kept, commands, Bounded, Holes, StrLen
<1>9. stat' \in Stats
  BY <1>8, StatIs
<1>10. HistoryInv' /\ Recallable' = Recallable /\ current_history' = current_history
  BY <1>8, KeptHistory DEF ShellInv
<1>11. \E q, u : /\ q \in Cells /\ Shaped(l2, q) /\ (Clear(l, p) => Clear(l2, q))
                 /\ u = Text(l2, q) /\ Len(u) = q
                 /\ (Bounded(l2) => u = IF t = << >> \/ M = {} THEN t ELSE name)
                 /\ Text(l2, p) = t
                 /\ ~ Bounded(l2) => Shaped(l2, p)
  <2>1. CASE l2 = l
    <3>1. p \in Cells /\ Len(t) = p
      BY <1>2, <1>3, ShapedText DEF Shaped
    <3>2. Bounded(l2) => t = IF t = << >> \/ M = {} THEN t ELSE name
      <4>1. CASE ~ Bounded(l)
        BY <2>1, <4>1
      <4>2. CASE Bounded(l) /\ (t = << >> \/ M = {})
        BY <4>2
      <4>3. CASE Bounded(l) /\ ~ (t = << >> \/ M = {})
        <5>1. /\ Over(l2, l, name) /\ name \in Seq(Char) /\ p <= Len(name) /\ Len(name) < Size
              /\ \A k \in 1..p : name[k] = Text(l, p)[k]
          BY <1>3, <1>7, <4>3
        <5>2. Shaped(l2, Len(name)) /\ Text(l2, Len(name)) = name
          BY <1>2, <5>1, OverShape
        <5>3. CASE Bounded(l2)
          <6>1. Len(name) = p
            BY <1>2, <2>1, <5>2, <5>3, ShapedEnd
          <6>. QED  BY <1>3, <2>1, <4>3, <5>2, <6>1
        <5>. QED  BY <5>3
      <4>. QED  BY <4>1, <4>2, <4>3
    <3>. QED  BY <1>2, <1>3, <2>1, <3>1, <3>2
  <2>2. CASE l2 # l
    <3>1. /\ ~ (t = << >> \/ M = {})
          /\ Over(l2, l, name) /\ name \in Seq(Char) /\ p <= Len(name) /\ Len(name) < Size
          /\ \A k \in 1..p : name[k] = Text(l, p)[k]
      BY <1>3, <1>7, <2>2
    <3>2. /\ Shaped(l2, Len(name)) /\ (Clear(l, p) => Clear(l2, Len(name)))
          /\ Text(l2, Len(name)) = name /\ Text(l2, p) = Text(l, p)
          /\ ~ Bounded(l2) => Shaped(l2, p)
      BY <1>2, <3>1, OverShape
    <3>3. Len(name) \in Cells
      BY <3>2 DEF Shaped
    <3>. QED  BY <1>3, <3>1, <3>2, <3>3
  <2>. QED  BY <2>1, <2>2
<1>12. PICK q, u : /\ q \in Cells /\ Shaped(l2, q) /\ (Clear(l, p) => Clear(l2, q))
                   /\ u = Text(l2, q) /\ Len(u) = q
                   /\ (Bounded(l2) => u = IF t = << >> \/ M = {} THEN t ELSE name)
                   /\ Text(l2, p) = t
                   /\ ~ Bounded(l2) => Shaped(l2, p)
  BY <1>11
<1>13. CASE Bounded(l2)
  <2>1. line_position' = q /\ line_curpos' = q /\ lost' = lost
    BY <1>8, <1>12, <1>13, ShapedEnd
  <2>2. Shaped(line', line_position') /\ line_curpos' \in 0 .. line_position'
    <3>1. q \in Nat
      BY <1>12, SizeFacts
    <3>. QED  BY <1>8, <1>12, <2>1, <3>1
  <2>3. /\ discarded' \/ Clear(line', line_position')
        /\ discarded' \in BOOLEAN /\ lost' \in BOOLEAN /\ (lost' => discarded')
    BY <1>1, <1>8, <1>12, <2>1, Zenon DEF ShellInv, LineInv
  <2>4. LineInv'
    BY <1>9, <2>2, <2>3, Zenon DEF LineInv
  <2>5. /\ Shown' = IF Shown = << >> \/ {n \in Names : IsPrefix(Shown, n)} = {} THEN Shown
                    ELSE LongestCommonPrefix({n \in Names : IsPrefix(Shown, n)})
        /\ line_curpos' = Len(Shown')
    <3>1. Shown = t /\ Shown' = u
      BY <1>1, <1>3, <1>8, <1>12, <2>1, Views
    <3>. QED  BY <1>4, <1>5, <1>12, <1>13, <2>1, <3>1
  <2>6. {n \in Names : Screen!IsPrefix(Shown, n)} = {n \in Names : IsPrefix(Shown, n)}
    BY ScreenOps
  <2>. QED  BY <1>10, <2>4, <2>5, <2>6, ScreenOps DEF ShellInv, Screen!Complete
<1>14. CASE ~ Bounded(l2)
  <2>1. line_position' = p /\ line_curpos' = line_curpos /\ lost' = TRUE
    BY <1>1, <1>8, <1>14
  <2>2. Shaped(line', line_position') /\ line_curpos' \in 0 .. line_position'
    BY <1>2, <1>8, <1>12, <1>14, <2>1
  <2>3. discarded
    <3>1. ~ Clear(l2, q)
      BY <1>12, <1>14, ClearBounded
    <3>. QED  BY <1>2, <1>12, <3>1
  <2>4. /\ discarded' \/ Clear(line', line_position')
        /\ discarded' \in BOOLEAN /\ lost' \in BOOLEAN /\ (lost' => discarded')
    BY <1>8, <2>1, <2>3, Zenon DEF ShellInv, LineInv
  <2>5. LineInv'
    BY <1>9, <2>2, <2>4, Zenon DEF LineInv
  <2>6. Shown' = Shown
    BY <1>1, <1>3, <1>8, <1>12, <2>1, Views
  <2>. QED  BY <1>10, <2>1, <2>5, <2>6 DEF ShellInv, Screen!vars
<1>. QED  BY <1>13, <1>14

\* A line that equals a stored one has the same text.
LEMMA SameAsStored ==
  ASSUME NEW l, NEW p, Shaped(l, p), NEW h, Stored(h), NEW k \in 0 .. Lines - 1, h[k] = l
  PROVE  Text(h[k], StrLen(h[k])) = Text(l, p)
<1>1. Bounded(l) /\ StrLen(l) = StrLen(h[k])
  BY StoredText, ClearBounded
<1>2. StrLen(l) = p
  BY <1>1, ShapedEnd
<1>. QED  BY <1>1, <1>2

\* What shell_push_history does to the history, seen by the user.
LEMMA PushIs ==
  ASSUME ShellInv, PushHistory
  PROVE  /\ HistoryInv' /\ current_history' = Len(Recallable')
         /\ \/ Shown # << >> /\ Recallable' = Screen!Remembered(Shown)
            \/ /\ Shown = << >> \/ (Recallable # << >> /\ Last(Recallable) = Shown)
               /\ Recallable' = Recallable
<1>1. PICK h, n, l, p, t : /\ h = cmd_history /\ n = history_count
                           /\ l = line /\ p = line_position /\ t = Text(l, p)
  OBVIOUS
<1>2. Stored(h) /\ n \in 0 .. Lines /\ h \in Histories /\ Shaped(l, p)
  BY <1>1 DEF ShellInv, HistoryInv, LineInv
<1>3. n \in Nat /\ n <= Lines /\ Lines \in Nat /\ 0 < Lines
  BY <1>2, SizeFacts
<1>4. PICK h2, m, x : h2 = cmd_history' /\ m = history_count' /\ x = Padded
  OBVIOUS
<1>5. /\ Shaped(x, p) /\ Clear(x, p) /\ Text(x, StrLen(x)) = t
  <2>1. x = [i \in Cells |-> IF i < p THEN l[i] ELSE Nul]
    BY <1>1, <1>4 DEF Padded
  <2>. QED  BY <1>1, <1>2, <2>1, PaddedIs
<1>6. x \in Buffers
  BY <1>5 DEF Shaped, Buffers
<1>7. PICK latest : latest = IF n >= Lines THEN Lines - 1 ELSE n - 1
  OBVIOUS
<1>8. PICK new : new = (p # 0 /\ (n = 0 \/ h[latest] # l))
  OBVIOUS
<1>9. /\ h2 = IF ~ new THEN h
             ELSE IF n >= Lines
               THEN [i \in 0 .. Lines - 1 |-> IF i = Lines - 1 THEN x ELSE h[i + 1]]
               ELSE [h EXCEPT ![n] = x]
      /\ m = IF new /\ ~ (n >= Lines) THEN n + 1 ELSE n
      /\ current_history' = m
  BY <1>1, <1>4, <1>7, <1>8 DEF PushHistory
<1>10. /\ Recallable = PastOf(h, n) /\ Recallable' = PastOf(h2, m) /\ Shown = t
  BY <1>1, <1>4, Views
<1>11. t \in Seq(Char) /\ Len(t) = p
  BY <1>1, <1>2, ShapedText
<1>12. PICK s : s = PastOf(h, n)
  OBVIOUS
<1>13. s \in Seq(Seq(Char)) /\ Len(s) = n
  BY <1>2, <1>12, PastIs
<1>14. CASE ~ new
  <2>1. h2 = h /\ m = n
    BY <1>9, <1>14
  <2>2. HistoryInv'
    BY <1>2, <1>3, <1>4, <1>9, <2>1 DEF HistoryInv
  <2>3. Recallable' = Recallable /\ current_history' = Len(Recallable')
    BY <1>9, <1>10, <1>12, <1>13, <2>1
  <2>4. Shown = << >> \/ (Recallable # << >> /\ Last(Recallable) = Shown)
    <3>1. CASE p = 0
      BY <1>10, <1>11, <3>1
    <3>2. CASE p # 0
      <4>1. n # 0 /\ h[latest] = l
        BY <1>8, <1>14, <3>2
      <4>2. latest = n - 1 /\ latest \in 0 .. Lines - 1 /\ n \in 1..n
        BY <1>3, <1>7, <4>1
      <4>3. Text(h[latest], StrLen(h[latest])) = t
        BY <1>1, <1>2, <4>1, <4>2, SameAsStored
      <4>4. s[n] = Text(h[n - 1], StrLen(h[n - 1]))
        BY <1>2, <1>12, <4>2, PastIs
      <4>5. s # << >> /\ s[n] = t
        BY <1>3, <1>13, <4>1, <4>2, <4>3, <4>4
      <4>. QED  BY <1>10, <1>12, <1>13, <4>5 DEF Last
    <3>. QED  BY <3>1, <3>2
  <2>. QED  BY <2>2, <2>3, <2>4
<1>15. CASE new /\ n >= Lines
  <2>1. /\ h2 = [i \in 0 .. Lines - 1 |-> IF i = Lines - 1 THEN x ELSE h[i + 1]]
        /\ m = n /\ n = Lines
    BY <1>3, <1>9, <1>15
  <2>2. \A k \in 0 .. Lines - 1 : h2[k] = IF k = Lines - 1 THEN x ELSE h[k + 1]
    BY <2>1
  <2>3. /\ Stored(h2)
        /\ PastOf(h2, Lines) = Tail(Append(PastOf(h, Lines), Text(x, StrLen(x))))
    BY <1>2, <1>5, <2>2, ShiftedPast
  <2>4. h2 \in Histories
    <3>1. \A k \in 0 .. Lines - 1 : k = Lines - 1 \/ k + 1 \in 0 .. Lines - 1
      BY <1>3
    <3>2. \A k \in 0 .. Lines - 1 : h[k] \in Buffers
      BY <1>2 DEF Histories
    <3>3. \A k \in 0 .. Lines - 1 : h2[k] \in Buffers
      BY <1>6, <2>2, <3>1, <3>2
    <3>4. h2 = [k \in 0 .. Lines - 1 |-> h2[k]]
      BY <2>1
    <3>. QED  BY <3>3, <3>4 DEF Histories
  <2>5. HistoryInv'
    BY <1>2, <1>3, <1>4, <1>9, <2>1, <2>3, <2>4 DEF HistoryInv
  <2>6. PastOf(h2, m) = Tail(Append(s, t)) /\ Len(Append(s, t)) > Lines
    <3>1. Len(Append(s, t)) = n + 1
      BY <1>11, <1>13
    <3>2. Len(Append(s, t)) > Lines
      BY <1>3, <2>1, <3>1
    <3>. QED  BY <1>5, <1>12, <2>1, <2>3, <3>2
  <2>7. Recallable' = Screen!Remembered(Shown)
    BY <1>10, <1>12, <2>6 DEF Screen!Remembered
  <2>8. Len(PastOf(h2, m)) = m
    BY <1>2, <2>1, <2>3, PastIs
  <2>9. Shown # << >>
    <3>1. p # 0
      BY <1>8, <1>15, Zenon
    <3>2. t # << >>
      BY <1>11, <3>1
    <3>. QED  BY <1>10, <3>2
  <2>. QED  BY <1>9, <1>10, <2>5, <2>7, <2>8, <2>9
<1>16. CASE new /\ ~ (n >= Lines)
  <2>1. h2 = [h EXCEPT ![n] = x] /\ m = n + 1 /\ n < Lines /\ n \in 0 .. Lines - 1
        /\ m \in 0 .. Lines
    BY <1>3, <1>9, <1>16
  <2>2. h2 \in Histories /\ \A k \in 0 .. Lines - 1 : h2[k] = IF k = n THEN x ELSE h[k]
    BY <1>2, <1>6, <2>1 DEF Histories
  <2>3. /\ Stored(h2)
        /\ PastOf(h2, n + 1) = Append(PastOf(h, n), Text(x, StrLen(x)))
    <3>1. n < Lines /\ \A k \in 0 .. Lines - 1 : h2[k] = IF k = n THEN x ELSE h[k]
      BY <2>1, <2>2
    <3>. QED  BY <1>2, <1>5, <3>1, AppendedPast
  <2>4. HistoryInv'
    BY <1>3, <1>4, <1>9, <2>1, <2>2, <2>3 DEF HistoryInv
  <2>5. PastOf(h2, m) = Append(s, t) /\ ~ (Len(Append(s, t)) > Lines)
    <3>1. Len(Append(s, t)) = n + 1
      BY <1>11, <1>13
    <3>2. ~ (Len(Append(s, t)) > Lines)
      BY <1>3, <2>1, <3>1
    <3>. QED  BY <1>5, <1>12, <2>1, <2>3, <3>2
  <2>6. Recallable' = Screen!Remembered(Shown)
    BY <1>10, <1>12, <2>5 DEF Screen!Remembered
  <2>7. Len(PastOf(h2, m)) = m
    BY <2>1, <2>3, PastIs
  <2>8. Shown # << >>
    <3>1. p # 0
      BY <1>8, <1>16, Zenon
    <3>2. t # << >>
      BY <1>11, <3>1
    <3>. QED  BY <1>10, <3>2
  <2>. QED  BY <1>9, <1>10, <2>4, <2>6, <2>7, <2>8
<1>. QED  BY <1>14, <1>15, <1>16

\* The empty buffer.
LEMMA EmptyIs == Shaped(Empty, 0) /\ Clear(Empty, 0) /\ Text(Empty, 0) = << >>
<1>1. 0 \in Cells /\ \A i \in Cells : i \in Nat /\ ~ (i < 0)
  BY SizeFacts
<1>2. Empty \in [Cells -> Char \cup {Nul}] /\ \A i \in Cells : Empty[i] = Nul
  BY DEF Empty
<1>3. Shaped(Empty, 0) /\ Clear(Empty, 0)
  BY <1>1, <1>2 DEF Shaped, Clear
<1>4. Text(Empty, 0) \in Seq(Char) /\ Len(Text(Empty, 0)) = 0
  BY <1>3, ShapedText
<1>. QED  BY <1>3, <1>4

\* The return key.
LEMMA EnterStep ==
  ASSUME ShellInv, ~ lost, Enter
  PROVE  ShellInv' /\ Screen!Run
<1>1. /\ Itself("CR") /\ PushHistory /\ line' = Empty /\ line_position' = 0
      /\ line_curpos' = 0 /\ discarded' = FALSE /\ lost' = lost
  BY DEF Enter
<1>2. stat' \in Stats
  BY <1>1, StatIs
<1>3. Shaped(line', line_position') /\ Clear(line', line_position')
  BY <1>1, EmptyIs
<1>4. line_curpos' \in 0 .. line_position'
  BY <1>1
<1>5. discarded' \in BOOLEAN /\ lost' \in BOOLEAN /\ (lost' => discarded')
  BY <1>1, Zenon DEF ShellInv, LineInv
<1>6. LineInv'
  BY <1>2, <1>3, <1>4, <1>5, Zenon DEF LineInv
<1>7. Shown' = << >>
  BY <1>1, EmptyIs, Views
<1>. QED  BY <1>1, <1>6, <1>7, PushIs, ScreenOps DEF ShellInv, Screen!Run

\* Every key keeps the invariant and is a key of the user's editor, or none.
LEMMA ShellStep ==
  ASSUME ShellInv, [EditorNext]_shellVars
  PROVE  ShellInv' /\ [Screen!Next]_(Screen!vars)
<1>1. CASE UNCHANGED shellVars
  <2>1. UNCHANGED <<shell, commands, discarded, lost>> /\ stat' = stat
    BY <1>1 DEF shellVars
  <2>2. stat' \in Stats
    BY <2>1 DEF ShellInv, LineInv
  <2>. QED  BY <2>1, <2>2, Idle
<1>2. CASE EditorNext
  <2>0. ~ lost
    BY <1>2 DEF EditorNext
  <2>1. CASE Escape \/ Bracket \/ Ignored \/ BackspaceAtStart
    <3>1. UNCHANGED <<shell, commands, discarded, lost>> /\ stat' \in Stats
      BY <2>1, StatIs DEF Escape, Bracket, Ignored, BackspaceAtStart
    <3>. QED  BY <3>1, Idle
  <2>2. CASE Up
    <3>1. CASE current_history = 0
      <4>1. UNCHANGED <<shell, commands, discarded, lost>> /\ stat' \in Stats
        BY <2>2, <3>1, StatIs DEF Up
      <4>. QED  BY <4>1, Idle
    <3>2. CASE current_history # 0
      <4>1. current_history > 0 /\ current_history - 1 \in 0 .. history_count - 1
        BY <3>2, SizeFacts DEF ShellInv, HistoryInv
      <4>2. ShowHistory(current_history - 1) /\ Arrow
        BY <2>2, <3>2 DEF Up
      <4>3. ShellInv' /\ Screen!Recall(current_history - 1)
        BY <2>0, <4>1, <4>2, RecallStep
      <4>. QED  BY <4>1, <4>3 DEF Screen!Next, Screen!Older
    <3>. QED  BY <3>1, <3>2
  <2>3. CASE Down
    <3>1. CASE history_count = 0
      <4>1. UNCHANGED <<shell, commands, discarded, lost>> /\ stat' \in Stats
        BY <2>3, <3>1, StatIs DEF Down
      <4>. QED  BY <4>1, Idle
    <3>2. CASE history_count # 0
      <4>1. PICK n, k, i : /\ n = history_count /\ k = current_history
                           /\ i = IF k < n - 1 THEN k + 1 ELSE n - 1
        OBVIOUS
      <4>2. n \in Nat /\ k \in Nat /\ k <= n /\ n # 0
        BY <3>2, <4>1, SizeFacts DEF ShellInv, HistoryInv
      <4>3. i \in 0 .. history_count - 1 /\ i = IF k + 1 < n THEN k + 1 ELSE n - 1
        BY <4>1, <4>2
      <4>4. ShowHistory(i) /\ Arrow
        BY <2>3, <3>2, <4>1 DEF Down
      <4>5. ShellInv' /\ Screen!Recall(i)
        BY <2>0, <4>3, <4>4, RecallStep
      <4>6. Len(Recallable) = n
        BY <4>1, Views, PastIs DEF ShellInv, HistoryInv
      <4>7. Recallable # << >>
        BY <4>2, <4>6
      <4>. QED  BY <4>1, <4>3, <4>5, <4>6, <4>7 DEF Screen!Next, Screen!Newer
    <3>. QED  BY <3>1, <3>2
  <2>4. CASE Left \/ Right
    BY <2>4, MoveStep DEF Screen!Next
  <2>5. CASE Tab
    BY <2>0, <2>5, TabStep DEF Screen!Next
  <2>6. CASE Backspace
    BY <2>6, BackspaceStep DEF Screen!Next
  <2>7. CASE Enter
    BY <2>0, <2>7, EnterStep DEF Screen!Next
  <2>8. CASE \E ch \in Char : Type(ch)
    BY <2>8, TypeStep DEF Screen!Next
  <2>. QED  BY <1>2, <2>1, <2>2, <2>3, <2>4, <2>5, <2>6, <2>7, <2>8 DEF EditorNext
<1>. QED  BY <1>1, <1>2

\* The first prompt.
LEMMA ShellStart ==
  ASSUME EditorInit
  PROVE  ShellInv /\ Screen!Init
<1>1. LineInv
  <2>1. stat \in Stats /\ line_curpos \in 0 .. line_position
    BY DEF EditorInit, Stats
  <2>2. Shaped(line, line_position) /\ Clear(line, line_position)
    BY EmptyIs DEF EditorInit
  <2>3. discarded \in BOOLEAN /\ lost \in BOOLEAN /\ (lost => discarded)
    BY Zenon DEF EditorInit
  <2>. QED  BY <2>1, <2>2, <2>3, Zenon DEF LineInv
<1>2. PICK h : h = cmd_history
  OBVIOUS
<1>3. \A k \in 0 .. Lines - 1 : h[k] = Empty
  BY <1>2 DEF EditorInit
<1>4. Empty \in Buffers /\ 0 \in Cells
  BY EmptyIs DEF Shaped, Buffers
<1>5. h \in Histories
  BY <1>2, <1>4 DEF EditorInit, Histories
<1>6. Stored(h)
  BY <1>3, <1>4, EmptyIs DEF Stored
<1>7. 0 \in 0 .. Lines /\ 0 \in 0 .. 0
  BY SizeFacts
<1>8. HistoryInv
  BY <1>2, <1>5, <1>6, <1>7 DEF EditorInit, HistoryInv
<1>9. Shown = << >>
  BY EmptyIs, Views DEF EditorInit
<1>10. Recallable = << >>
  <2>1. PastOf(h, 0) \in Seq(Seq(Char)) /\ Len(PastOf(h, 0)) = 0
    BY <1>6, <1>7, PastIs
  <2>2. Recallable = PastOf(h, 0)
    BY <1>2, Views DEF EditorInit
  <2>. QED  BY <2>1, <2>2
<1>. QED  BY <1>1, <1>8, <1>9, <1>10 DEF ShellInv, EditorInit, Screen!Init

\* The invariant.
LEMMA ShellInvHolds == EditorSpec => []ShellInv
BY ShellStart, ShellStep, PTL DEF EditorSpec

\* The cursor is in the text and the text leaves room in the buffer for the
\* character shell.c:565-589 stores, and the counts index the history, for every
\* buffer size, history length, set of characters and set of commands.
THEOREM ShellTyped == EditorSpec => []ShellTypeOK
<1>1. ShellInv => ShellTypeOK
  <2>1. LineInv => /\ stat \in {"WAIT_NORMAL", "WAIT_SPEC_KEY", "WAIT_FUNC_KEY"}
                   /\ line \in [Cells -> Char \cup {Nul}]
                   /\ line_position \in Cells /\ line_curpos \in 0 .. line_position
                   /\ discarded \in BOOLEAN /\ lost \in BOOLEAN
    BY Zenon DEF LineInv, Shaped, Stats
  <2>2. HistoryInv => /\ cmd_history \in [0 .. Lines - 1 -> [Cells -> Char \cup {Nul}]]
                      /\ history_count \in 0 .. Lines
                      /\ current_history \in 0 .. history_count
    BY Zenon DEF HistoryInv, Histories, Buffers
  <2>. QED  BY <2>1, <2>2, Zenon DEF ShellInv, ShellTypeOK
<1>. QED  BY <1>1, ShellInvHolds, PTL

\* The NUL that strlen looks for at shell.c:488 is missing only while the rest of
\* a discarded line is in the buffer, and only then can the tab key run past it.
THEOREM LostOnlyByDiscardHolds == EditorSpec => []LostOnlyByDiscard
<1>1. ShellInv => LostOnlyByDiscard
  <2>1. ASSUME ShellInv, ~ Bounded(line) PROVE discarded
    BY <2>1, ClearBounded DEF ShellInv, LineInv
  <2>2. ASSUME ShellInv, lost PROVE discarded
    BY <2>2, Zenon DEF ShellInv, LineInv
  <2>. QED  BY <2>1, <2>2, Zenon DEF LostOnlyByDiscard
<1>. QED  BY <1>1, ShellInvHolds, PTL

(* The buffer with its positions and the history implement the editor the   *)
(* user sees, for every size: a character, a backspace, a completion, a     *)
(* recall and a return are one operation of Editor each, behind a discarded *)
(* line too, and no other key changes what is seen.                         *)
THEOREM IsEditorHolds == EditorSpec => IsEditor
<1>1. EditorInit => ShellInv /\ Screen!Init
  BY ShellStart
<1>2. ShellInv /\ [EditorNext]_shellVars => ShellInv' /\ [Screen!Next]_(Screen!vars)
  BY ShellStep
<1>. QED  BY <1>1, <1>2, PTL DEF EditorSpec, IsEditor, Screen!Spec

-----------------------------------------------------------------------------
(* The environment page                                                    *)

USE DEF Env, EnvOf, Loadable, Blank, Page

\* After mem_param_init g_param is an environment with its magic word.
GIsWhole == pc # "load" => g.magic = Magic /\ EnvOf(g) \in Env

\* While it is being saved it is one the page may come to hold, and the page
\* is not promised to hold another.
Updating == pc \in {"erase", "program"} => EnvOf(g) \in known /\ ~ saved

\* The fields before pos are programmed, the others erased.
Programmed ==
  pc = "program" =>
    /\ flash.delay = IF pos > 1 THEN g.delay ELSE Erased
    /\ flash.cmd = IF pos > 2 THEN g.cmd ELSE Erased
    /\ flash.magic = IF pos > 3 THEN g.magic ELSE Erased

BootInv ==
  /\ TypeOK /\ CommitWord /\ SavedIsKept /\ BootsKnown
  /\ GIsWhole /\ Updating /\ Programmed

\* What programming v into the field at pos makes of the page, field by field.
LEMMA ProgramField ==
  ASSUME flash \in Page, pos \in 1..Len(Layout), NEW v
  PROVE  flash' = [flash EXCEPT ![Layout[pos]] = v] =>
           /\ flash'.delay = IF pos = 1 THEN v ELSE flash.delay
           /\ flash'.cmd = IF pos = 2 THEN v ELSE flash.cmd
           /\ flash'.magic = IF pos = 3 THEN v ELSE flash.magic
           /\ flash'.rest = IF pos = 4 THEN v ELSE flash.rest
           /\ flash' = [delay |-> flash'.delay, cmd |-> flash'.cmd,
                        magic |-> flash'.magic, rest |-> flash'.rest]
<1>1. pos \in 1..4  BY DEF Layout
<1>2. flash = [delay |-> flash.delay, cmd |-> flash.cmd,
               magic |-> flash.magic, rest |-> flash.rest]
  OBVIOUS
<1>3. CASE pos = 1
  <2>1. [flash EXCEPT ![Layout[pos]] = v] = [flash EXCEPT !.delay = v]
    BY <1>3 DEF Layout
  <2>2. [flash EXCEPT !.delay = v]
          = [delay |-> v, cmd |-> flash.cmd, magic |-> flash.magic, rest |-> flash.rest]
    BY <1>2
  <2>. QED  BY <1>3, <2>1, <2>2
<1>4. CASE pos = 2
  <2>1. [flash EXCEPT ![Layout[pos]] = v] = [flash EXCEPT !.cmd = v]
    BY <1>4 DEF Layout
  <2>2. [flash EXCEPT !.cmd = v]
          = [delay |-> flash.delay, cmd |-> v, magic |-> flash.magic, rest |-> flash.rest]
    BY <1>2
  <2>. QED  BY <1>4, <2>1, <2>2
<1>5. CASE pos = 3
  <2>1. [flash EXCEPT ![Layout[pos]] = v] = [flash EXCEPT !.magic = v]
    BY <1>5 DEF Layout
  <2>2. [flash EXCEPT !.magic = v]
          = [delay |-> flash.delay, cmd |-> flash.cmd, magic |-> v, rest |-> flash.rest]
    BY <1>2
  <2>. QED  BY <1>5, <2>1, <2>2
<1>6. CASE pos = 4
  <2>1. [flash EXCEPT ![Layout[pos]] = v] = [flash EXCEPT !.rest = v]
    BY <1>6 DEF Layout
  <2>2. [flash EXCEPT !.rest = v]
          = [delay |-> flash.delay, cmd |-> flash.cmd, magic |-> flash.magic, rest |-> v]
    BY <1>2
  <2>. QED  BY <1>6, <2>1, <2>2
<1>. QED  BY <1>1, <1>3, <1>4, <1>5, <1>6

\* The word of g_param for the field at pos.
LEMMA FieldAtPos ==
  ASSUME pos \in 1..Len(Layout)
  PROVE  /\ pos \in 1..4
         /\ g[Layout[pos]] = IF pos = 1 THEN g.delay ELSE IF pos = 2 THEN g.cmd
                             ELSE IF pos = 3 THEN g.magic ELSE g.rest
         /\ flash[Layout[pos]] = IF pos = 1 THEN flash.delay ELSE IF pos = 2 THEN flash.cmd
                             ELSE IF pos = 3 THEN flash.magic ELSE flash.rest
BY DEF Layout

\* Before the first boot the page is blank and nothing is saved.
LEMMA InitInv == BootInit => BootInv
<1>. SUFFICES ASSUME BootInit PROVE BootInv  OBVIOUS
<1>1. TypeOK
  <2>1. flash \in Page /\ g \in Page  BY DEF BootInit
  <2>2. pos \in 1..Len(Layout)  BY DEF BootInit, Layout
  <2>3. resets \in 0..MaxResets  BY BootAssumption DEF BootInit
  <2>4. saved \in BOOLEAN /\ firmware \in BOOLEAN /\ cut \in BOOLEAN  BY Zenon DEF BootInit
  <2>5. /\ pc \in {"load", "erase", "program", "count", "run", "shell", "app", "hung"}
        /\ ret \in {"count", "shell"} /\ left \in Int
        /\ known \subseteq Env /\ asked \in Cmd
    BY BootAssumption DEF BootInit
  <2>. QED  BY <2>1, <2>2, <2>3, <2>4, <2>5 DEF TypeOK
<1>2. CommitWord  BY BootAssumption DEF BootInit, CommitWord
<1>. QED  BY <1>1, <1>2
     DEF BootInit, BootInv, SavedIsKept, BootsKnown, GIsWhole, Updating, Programmed

\* A page whose magic is whole is loaded as it was saved.
LEMMA LoadSavedInv == BootInv /\ LoadSaved => BootInv'
<1>. SUFFICES ASSUME BootInv, LoadSaved PROVE BootInv'  OBVIOUS
<1>1. EnvOf(flash) \in Env  BY DEF BootInv, TypeOK, CommitWord, LoadSaved
<1>2. EnvOf(flash) \in known  BY DEF BootInv, CommitWord, LoadSaved
<1>3. flash.delay \in Int /\ flash.cmd \in Cmd  BY <1>1, BootAssumption
<1>4. TypeOK'  BY <1>3 DEF BootInv, TypeOK, LoadSaved
<1>. QED  BY <1>1, <1>2, <1>4
     DEF BootInv, LoadSaved, CommitWord, SavedIsKept, BootsKnown, GIsWhole, Updating, Programmed

\* Any other page gives the defaults, which are then to be saved.
LEMMA LoadDefaultsInv == BootInv /\ LoadDefaults => BootInv'
<1>. SUFFICES ASSUME BootInv, LoadDefaults PROVE BootInv'  OBVIOUS
<1>1. g' \in Page /\ EnvOf(g') = Defaults /\ g'.magic = Magic
  BY BootAssumption DEF BootInv, TypeOK, LoadDefaults, WithDefaults, Defaults
<1>2. Defaults \in Env  BY BootAssumption DEF Defaults
<1>3. known' = {Defaults}
  BY DEF LoadDefaults, StartUpdate, WithDefaults, Defaults, BootInv, TypeOK
<1>4. ~ saved /\ saved' = saved /\ flash' = flash /\ pc' = "erase"
  BY DEF BootInv, SavedIsKept, LoadDefaults, StartUpdate
<1>5. TypeOK'
  BY <1>1, <1>2, <1>3, BootAssumption DEF BootInv, TypeOK, LoadDefaults, StartUpdate
<1>6. CommitWord'  BY <1>4 DEF CommitWord, LoadDefaults
<1>. QED  BY <1>1, <1>2, <1>3, <1>4, <1>5, <1>6
     DEF BootInv, SavedIsKept, BootsKnown, GIsWhole, Updating, Programmed

\* While the page is erased, the environment is whole in RAM and known.
LEMMA EraseInv == BootInv /\ (ErasePage \/ EraseFails) => BootInv'
<1>. SUFFICES ASSUME BootInv, ErasePage \/ EraseFails PROVE BootInv'  OBVIOUS
<1>1. /\ EnvOf(g) \in known /\ EnvOf(g) \in Env /\ g.magic = Magic /\ ~ saved
      /\ g.delay \in Int
  BY BootAssumption DEF BootInv, Updating, GIsWhole, ErasePage, EraseFails
<1>2. CASE ErasePage
  <2>1. TypeOK'  BY <1>2 DEF BootInv, TypeOK, Layout, ErasePage
  <2>2. CommitWord'  BY <1>2, BootAssumption DEF CommitWord, ErasePage
  <2>. QED  BY <1>1, <1>2, <2>1, <2>2
       DEF BootInv, ErasePage, SavedIsKept, BootsKnown, GIsWhole, Updating, Programmed
<1>3. CASE EraseFails
  <2>1. TypeOK'  BY <1>1, <1>3 DEF BootInv, TypeOK, EraseFails, Return
  <2>2. CommitWord'  BY <1>3, BootAssumption DEF BootInv, CommitWord, EraseFails
  <2>3. pc' \in {"count", "shell"}  BY <1>3 DEF BootInv, TypeOK, EraseFails, Return
  <2>. QED  BY <1>1, <1>3, <2>1, <2>2, <2>3
       DEF BootInv, EraseFails, SavedIsKept, BootsKnown, GIsWhole, Updating, Programmed
<1>. QED  BY <1>2, <1>3

\* The magic word follows the fields it vouches for: until then the page is not loadable.
LEMMA ProgramInv == BootInv /\ Program => BootInv'
<1>. SUFFICES ASSUME BootInv, Program PROVE BootInv'  OBVIOUS
<1>1. /\ EnvOf(g) \in known /\ EnvOf(g) \in Env /\ g.magic = Magic /\ ~ saved
      /\ g.delay \in Int /\ g' = g /\ pc = "program"
  BY BootAssumption DEF BootInv, Updating, GIsWhole, Program
<1>2. /\ flash'.delay = IF pos = 1 THEN g[Layout[pos]] ELSE flash.delay
      /\ flash'.cmd = IF pos = 2 THEN g[Layout[pos]] ELSE flash.cmd
      /\ flash'.magic = IF pos = 3 THEN g[Layout[pos]] ELSE flash.magic
      /\ flash'.rest = IF pos = 4 THEN g[Layout[pos]] ELSE flash.rest
      /\ flash' = [delay |-> flash'.delay, cmd |-> flash'.cmd,
                   magic |-> flash'.magic, rest |-> flash'.rest]
  BY ProgramField DEF BootInv, TypeOK, Program
<1>3. /\ pos \in 1..4
      /\ g[Layout[pos]] = IF pos = 1 THEN g.delay ELSE IF pos = 2 THEN g.cmd
                          ELSE IF pos = 3 THEN g.magic ELSE g.rest
  BY FieldAtPos DEF BootInv, TypeOK
<1>4. /\ flash'.delay = g.delay
      /\ flash'.cmd = IF pos >= 2 THEN g.cmd ELSE Erased
      /\ flash'.magic = IF pos >= 3 THEN Magic ELSE Erased
  BY <1>1, <1>2, <1>3 DEF BootInv, Programmed
<1>5. flash' \in Page
  <2>1. flash'.delay \in Delay \cup {Erased, Torn} /\ flash'.cmd \in Cmd \cup {Erased, Torn}
    BY <1>1, <1>4
  <2>2. flash'.magic \in {Magic, Erased, Torn}  BY <1>4
  <2>3. flash'.rest \in {Erased, Torn}  BY <1>2, <1>3 DEF BootInv, TypeOK
  <2>. QED  BY <1>2, <2>1, <2>2, <2>3
<1>6. Len(Layout) = 4  BY DEF Layout
<1>7. CASE pos < 4
  <2>1. pc' = pc /\ pos' = pos + 1 /\ left' = left /\ known' = known /\ saved' = saved
    BY <1>6, <1>7 DEF Program
  <2>2. TypeOK'  BY <1>1, <1>3, <1>5, <1>6, <1>7, <2>1 DEF BootInv, TypeOK, Program
  <2>3. CommitWord'  BY <1>1, <1>3, <1>4, <2>1, BootAssumption DEF CommitWord
  <2>4. Programmed'  BY <1>1, <1>3, <1>4, <1>7, <2>1 DEF Programmed
  <2>. QED  BY <1>1, <2>1, <2>2, <2>3, <2>4
       DEF BootInv, SavedIsKept, BootsKnown, GIsWhole, Updating
<1>8. CASE pos = 4
  <2>1. /\ pc' = ret /\ left' = (IF ret = "count" THEN g.delay ELSE 0)
        /\ pos' = 1 /\ known' = {EnvOf(g)} /\ saved'
    BY <1>6, <1>8 DEF Program, Return
  <2>2. pc' \in {"count", "shell"}  BY <2>1 DEF BootInv, TypeOK
  <2>3. left' \in Int  BY <1>1, <2>1
  <2>4. TypeOK'  BY <1>1, <1>5, <1>6, <2>1, <2>2, <2>3 DEF BootInv, TypeOK, Program
  <2>5. EnvOf(flash') = EnvOf(g) /\ flash'.magic = Magic  BY <1>4, <1>8
  <2>. QED  BY <1>1, <2>1, <2>2, <2>4, <2>5
       DEF BootInv, CommitWord, SavedIsKept, BootsKnown, GIsWhole, Updating, Programmed
<1>. QED  BY <1>3, <1>7, <1>8
\* A word that fails ends the update; a page that is loadable all the same holds g.
LEMMA ProgramFailsInv == BootInv /\ ProgramFails => BootInv'
<1>. SUFFICES ASSUME BootInv, ProgramFails PROVE BootInv'  OBVIOUS
<1>1. /\ EnvOf(g) \in known /\ EnvOf(g) \in Env /\ g.magic = Magic /\ ~ saved
      /\ g.delay \in Int /\ g' = g /\ pc = "program"
  BY BootAssumption DEF BootInv, Updating, GIsWhole, ProgramFails
<1>2. PICK v \in {flash[Layout[pos]], g[Layout[pos]], Torn} :
        flash' = [flash EXCEPT ![Layout[pos]] = v]
  BY DEF ProgramFails
<1>3. /\ flash'.delay = IF pos = 1 THEN v ELSE flash.delay
      /\ flash'.cmd = IF pos = 2 THEN v ELSE flash.cmd
      /\ flash'.magic = IF pos = 3 THEN v ELSE flash.magic
      /\ flash'.rest = IF pos = 4 THEN v ELSE flash.rest
      /\ flash' = [delay |-> flash'.delay, cmd |-> flash'.cmd,
                   magic |-> flash'.magic, rest |-> flash'.rest]
  BY <1>2, ProgramField DEF BootInv, TypeOK
<1>4. /\ pos \in 1..4
      /\ pos = 1 => v \in {flash.delay, g.delay, Torn}
      /\ pos = 2 => v \in {flash.cmd, g.cmd, Torn}
      /\ pos = 3 => v \in {flash.magic, g.magic, Torn}
      /\ pos = 4 => v \in {flash.rest, g.rest, Torn}
  BY <1>2, FieldAtPos DEF BootInv, TypeOK
<1>5. flash' \in Page
  <2>1. flash'.delay \in Delay \cup {Erased, Torn}  BY <1>3, <1>4 DEF BootInv, TypeOK
  <2>2. flash'.cmd \in Cmd \cup {Erased, Torn}  BY <1>3, <1>4 DEF BootInv, TypeOK
  <2>3. flash'.magic \in {Magic, Erased, Torn}  BY <1>3, <1>4 DEF BootInv, TypeOK
  <2>4. flash'.rest \in {Erased, Torn}  BY <1>3, <1>4 DEF BootInv, TypeOK
  <2>. QED  BY <1>3, <2>1, <2>2, <2>3, <2>4
<1>6. Loadable(flash') => EnvOf(flash') = EnvOf(g)
  <2>1. flash'.magic = Magic => pos \in {3, 4}
    BY <1>3, <1>4, BootAssumption DEF BootInv, Programmed, ProgramFails
  <2>. QED  BY <1>3, <2>1 DEF BootInv, Programmed, ProgramFails
<1>7. TypeOK'  BY <1>1, <1>5 DEF BootInv, TypeOK, ProgramFails, Return, Layout
<1>8. pc' \in {"count", "shell"}  BY DEF BootInv, TypeOK, ProgramFails, Return
<1>9. known' = known /\ saved' = saved  BY DEF ProgramFails
<1>. QED  BY <1>1, <1>6, <1>7, <1>8, <1>9
     DEF BootInv, CommitWord, SavedIsKept, BootsKnown, GIsWhole, Updating, Programmed

\* The countdown, the boot command and what is typed leave the page alone.
LEMMA RunInv ==
  BootInv /\ (NoCountdown \/ Second \/ CtrlC \/ RunJumps \/ RunComesBack) => BootInv'
<1>. SUFFICES ASSUME BootInv, NoCountdown \/ Second \/ CtrlC \/ RunJumps \/ RunComesBack
     PROVE BootInv'
  OBVIOUS
<1>1. /\ flash' = flash /\ known' = known /\ saved' = saved
      /\ pc \in {"count", "run"} /\ pc' \in {"count", "run", "shell", "app", "hung"}
      /\ pc' = "count" => pc = "count" /\ g' = g
  BY DEF NoCountdown, Second, CtrlC, RunJumps, RunComesBack
<1>2. g.magic = Magic /\ EnvOf(g) \in Env  BY <1>1 DEF BootInv, GIsWhole
<1>3. g' \in Page /\ g'.magic = Magic /\ EnvOf(g') \in Env
  <2>1. CASE RunComesBack
    <3>1. FirstWord[g.cmd] \in Cmd  BY <1>2, BootAssumption
    <3>. QED  BY <1>2, <2>1, <3>1 DEF BootInv, TypeOK, RunComesBack
  <2>2. CASE NoCountdown \/ Second \/ CtrlC \/ RunJumps
    BY <1>2, <2>2 DEF BootInv, TypeOK, NoCountdown, Second, CtrlC, RunJumps
  <2>. QED  BY <2>1, <2>2
<1>4. cut' = cut \/ cut' = TRUE
  BY DEF NoCountdown, Second, CtrlC, RunJumps, RunComesBack
<1>5. cut' \in BOOLEAN  BY <1>4, Zenon DEF BootInv, TypeOK
<1>6. TypeOK'
  BY <1>1, <1>3, <1>5 DEF BootInv, TypeOK, NoCountdown, Second, CtrlC, RunJumps, RunComesBack
<1>. QED  BY <1>1, <1>3, <1>6
     DEF BootInv, CommitWord, SavedIsKept, BootsKnown, GIsWhole, Updating, Programmed

\* The commands of the shell leave the page alone; saveenv starts an update of it.
LEMMA UserInv ==
  ASSUME BootInv,
         (\E d \in Delay : SetDelay(d)) \/ (\E c \in Cmd : SetCmd(c)) \/ SaveEnv \/ Ota \/ BootByHand
  PROVE  BootInv'
<1>1. /\ flash' = flash /\ pc = "shell" /\ pc' \in {"shell", "erase", "app"}
      /\ g.magic = Magic /\ EnvOf(g) \in Env
  BY DEF BootInv, GIsWhole, SetDelay, SetCmd, SaveEnv, StartUpdate, Ota, BootByHand
<1>2. CASE SaveEnv
  <2>1. /\ known' = {EnvOf(g)} \cup IF Loadable(flash) THEN {EnvOf(flash)} ELSE {}
        /\ ~ saved' /\ g' = g /\ pc' = "erase"
    BY <1>2 DEF SaveEnv, StartUpdate
  <2>2. known' \subseteq Env  BY <1>1, <2>1 DEF BootInv, CommitWord, TypeOK
  <2>3. TypeOK'  BY <1>2, <2>1, <2>2 DEF BootInv, TypeOK, SaveEnv, StartUpdate
  <2>. QED  BY <1>1, <2>1, <2>3
       DEF BootInv, CommitWord, SavedIsKept, BootsKnown, GIsWhole, Updating, Programmed
<1>3. CASE ~ SaveEnv
  <2>1. known' = known /\ saved' = saved /\ pc' \in {"shell", "app"}
    BY <1>1, <1>3 DEF SetDelay, SetCmd, Ota, BootByHand
  <2>2. g' \in Page /\ g'.magic = Magic /\ EnvOf(g') \in Env
    BY <1>1, <1>3 DEF BootInv, TypeOK, SetDelay, SetCmd, Ota, BootByHand
  <2>3. TypeOK'
    BY <1>3, <2>1, <2>2 DEF BootInv, TypeOK, SetDelay, SetCmd, Ota, BootByHand
  <2>. QED  BY <1>1, <2>1, <2>2, <2>3
       DEF BootInv, CommitWord, SavedIsKept, BootsKnown, GIsWhole, Updating, Programmed
<1>. QED  BY <1>2, <1>3

\* A reset, wherever it falls, at most tears the word being programmed.
LEMMA ResetInv == BootInv /\ Reset => BootInv'
<1>. SUFFICES ASSUME BootInv, Reset PROVE BootInv'  OBVIOUS
<1>1. known' = known /\ saved' = saved /\ pc' = "load"  BY DEF Reset
<1>2. TypeOK' /\ CommitWord' /\ SavedIsKept' <=> BootInv'
  BY <1>1 DEF BootInv, BootsKnown, GIsWhole, Updating, Programmed
<1>3. ASSUME flash' \in Page PROVE TypeOK'
  <2>1. cut' \in BOOLEAN  BY Zenon DEF Reset
  <2>. QED  BY <1>3, <2>1, BootAssumption DEF BootInv, TypeOK, Reset, Layout
<1>4. CASE UNCHANGED flash
  BY <1>1, <1>2, <1>3, <1>4 DEF BootInv, TypeOK, CommitWord, SavedIsKept
<1>5. CASE pc = "program" /\ flash' = [flash EXCEPT ![Layout[pos]] = Torn]
  <2>1. /\ flash'.delay = IF pos = 1 THEN Torn ELSE flash.delay
        /\ flash'.cmd = IF pos = 2 THEN Torn ELSE flash.cmd
        /\ flash'.magic = IF pos = 3 THEN Torn ELSE flash.magic
        /\ flash'.rest = IF pos = 4 THEN Torn ELSE flash.rest
        /\ flash' = [delay |-> flash'.delay, cmd |-> flash'.cmd,
                     magic |-> flash'.magic, rest |-> flash'.rest]
    BY <1>5, ProgramField DEF BootInv, TypeOK
  <2>2. flash' \in Page  BY <2>1 DEF BootInv, TypeOK
  <2>3. flash'.magic = Magic => EnvOf(flash') = EnvOf(g)
    BY <1>5, <2>1, FieldAtPos, BootAssumption DEF BootInv, TypeOK, Programmed
  <2>4. EnvOf(g) \in known /\ ~ saved  BY <1>5 DEF BootInv, Updating
  <2>. QED  BY <1>1, <1>2, <1>3, <2>2, <2>3, <2>4 DEF CommitWord, SavedIsKept
<1>. QED  BY <1>4, <1>5 DEF Reset

\* BootInv is about the variables only.
LEMMA StutterInv == BootInv /\ UNCHANGED vars => BootInv'
BY DEF BootInv, vars, TypeOK, CommitWord, SavedIsKept, BootsKnown, GIsWhole, Updating,
       Programmed

\* Every step keeps BootInv.
LEMMA StepInv == BootInv /\ [BootNext]_vars => BootInv'
<1>. SUFFICES ASSUME BootInv, [BootNext]_vars PROVE BootInv'  OBVIOUS
<1>1. CASE LoadSaved \/ LoadDefaults  BY <1>1, LoadSavedInv, LoadDefaultsInv
<1>2. CASE ErasePage \/ EraseFails  BY <1>2, EraseInv
<1>3. CASE Program \/ ProgramFails  BY <1>3, ProgramInv, ProgramFailsInv
<1>4. CASE NoCountdown \/ Second \/ CtrlC \/ RunJumps \/ RunComesBack  BY <1>4, RunInv
<1>5. CASE \/ \E d \in Delay : SetDelay(d)
           \/ \E c \in Cmd : SetCmd(c)
           \/ SaveEnv \/ Ota \/ BootByHand
  BY <1>5, UserInv
<1>6. CASE Reset  BY <1>6, ResetInv
<1>7. CASE UNCHANGED vars  BY <1>7, StutterInv
<1>. QED  BY <1>1, <1>2, <1>3, <1>4, <1>5, <1>6, <1>7 DEF BootNext, Loader, User

\* BootInv is an invariant.
LEMMA Invariance == BootSpec => []BootInv
BY InitInv, StepInv, PTL DEF BootSpec

-----------------------------------------------------------------------------
(* The command line.  It is cut only when a boot has failed, so not between *)
(* loading it and running it, nor in an update that the load has started.   *)
CmdInv ==
  /\ pc # "load" => g.cmd = IF cut THEN FirstWord[asked] ELSE asked
  /\ pc \in {"count", "run"} \/ (pc \in {"erase", "program"} /\ ret = "count") => ~ cut

\* The command line is cut only by running it.
LEMMA CmdStep == BootInv /\ CmdInv /\ [BootNext]_vars => CmdInv'
<1>. SUFFICES ASSUME BootInv, CmdInv, [BootNext]_vars PROVE CmdInv'  OBVIOUS
<1>0. flash \in Page /\ g \in Page /\ ret \in {"count", "shell"}  BY DEF BootInv, TypeOK
<1>1. CASE LoadSaved  BY <1>1 DEF LoadSaved, CmdInv
<1>2. CASE LoadDefaults
  <2>1. g'.cmd = DefaultCmd  BY <1>0, <1>2 DEF LoadDefaults, WithDefaults
  <2>. QED  BY <1>2, <2>1 DEF LoadDefaults, StartUpdate, CmdInv
<1>3. CASE ErasePage \/ EraseFails
  BY <1>0, <1>3 DEF ErasePage, EraseFails, Return, CmdInv
<1>4. CASE Program \/ ProgramFails
  <2>1. g' = g /\ ret' = ret /\ asked' = asked /\ cut' = cut /\ pc = "program"
    BY <1>4 DEF Program, ProgramFails
  <2>2. pc' = "program" \/ pc' = ret
    BY <1>4 DEF Program, ProgramFails, Return
  <2>. QED  BY <1>0, <2>1, <2>2 DEF CmdInv
<1>5. CASE NoCountdown \/ Second \/ CtrlC \/ RunJumps
  BY <1>5 DEF NoCountdown, Second, CtrlC, RunJumps, CmdInv
<1>6. CASE RunComesBack
  <2>1. g.cmd = asked  BY <1>6 DEF RunComesBack, CmdInv
  <2>2. g'.cmd = FirstWord[asked]  BY <1>0, <1>6, <2>1 DEF RunComesBack
  <2>. QED  BY <1>6, <2>2 DEF RunComesBack, CmdInv
<1>7. ASSUME NEW d \in Delay, SetDelay(d) PROVE CmdInv'
  <2>1. g'.cmd = g.cmd  BY <1>0, <1>7 DEF SetDelay
  <2>. QED  BY <1>7, <2>1 DEF SetDelay, CmdInv
<1>8. ASSUME NEW c \in Cmd, SetCmd(c) PROVE CmdInv'
  <2>1. g'.cmd = c  BY <1>0, <1>8 DEF SetCmd
  <2>. QED  BY <1>8, <2>1 DEF SetCmd, CmdInv
<1>9. CASE SaveEnv \/ Ota \/ BootByHand
  BY <1>9 DEF SaveEnv, StartUpdate, Ota, BootByHand, CmdInv
<1>10. CASE Reset  BY <1>10 DEF Reset, CmdInv
<1>11. CASE UNCHANGED vars  BY <1>11 DEF vars, CmdInv
<1>. QED
  BY <1>1, <1>2, <1>3, <1>4, <1>5, <1>6, <1>7, <1>8, <1>9, <1>10, <1>11
  DEF BootNext, Loader, User

-----------------------------------------------------------------------------
\* Every field keeps its type, for any commands, delays and resets.
THEOREM TypeCorrect == BootSpec => []TypeOK
<1>1. BootInv => TypeOK  BY DEF BootInv
<1>. QED  BY Invariance, <1>1, PTL

\* The magic word never vouches for a mixture of two environments, and a boot
\* counts down and runs one environment, for every choice of commands, delays,
\* boot results and number of resets (mem.c:20, mem.c:84, main.c:9).
THEOREM BootKeepsEnvironment == BootSpec => []WholeEnvironment
<1>1. BootInv => WholeEnvironment  BY DEF BootInv, WholeEnvironment
<1>. QED  BY Invariance, <1>1, PTL

\* A stored environment outlives every reset, failed boot and update until the
\* next saveenv (mem.c:88).
THEOREM SavedStays == BootSpec => []SavedIsKept
<1>1. BootInv => SavedIsKept  BY DEF BootInv
<1>. QED  BY Invariance, <1>1, PTL

\* saveenv stores the command line that was set, or after a failed boot its
\* first word (mem.c:36, main.c:49).
THEOREM CommandStored == BootSpec => []SavesWhatWasSet
<1>1. BootInit => CmdInv  BY DEF BootInit, CmdInv
<1>2. CmdInv => SavesWhatWasSet  BY DEF CmdInv, SavesWhatWasSet
<1>. QED  BY Invariance, CmdStep, <1>1, <1>2, PTL DEF BootSpec
=============================================================================
