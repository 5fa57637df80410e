-------------------------- MODULE LogPollingProofs --------------------------
(***************************************************************************)
(* Proofs about the line-diff logging of update_job (LogPolling), for     *)
(* every bound on the runner's output.                                     *)
(*                                                                         *)
(* Neither property is inductive alone.  What makes them hold is that a    *)
(* poll reads a text that extends, line by line, the text read at the     *)
(* previous poll: the runner only appends.  IInv records it twice: the     *)
(* lines of remote_error are extended by those of stderr.txt, and the      *)
(* lines logged are extended by those of remote_error.                    *)
(***************************************************************************)
EXTENDS LogPolling, SequenceTheorems, TLAPS

IInv ==
    /\ TypeOK
    /\ LoggedOncePerLine
    /\ LinesExtend(logged, SplitLines(remoteError))
    /\ LinesExtend(SplitLines(remoteError), SplitLines(stderr))

-----------------------------------------------------------------------------
(* Lemmas about the operators on texts and lines.                          *)

\* str.splitlines() of a text is a list of line lengths.
LEMMA SplitLinesType ==
    ASSUME NEW t \in Texts
    PROVE  SplitLines(t) \in Seq(Nat)
  BY AppendProperties DEF Texts, SplitLines

\* The runner's writes only extend the lines of stderr.txt: a letter
\* lengthens the unterminated line (making it a line if it was empty), a
\* newline ends it.
LEMMA WriteCharExtends ==
    ASSUME NEW t \in Texts
    PROVE  LinesExtend(SplitLines(t), SplitLines([t EXCEPT !.cur = @ + 1]))
  <1> DEFINE u == [t EXCEPT !.cur = @ + 1]
  <1>1. u.done = t.done /\ u.cur = t.cur + 1
    BY DEF Texts
  <1>2. SplitLines(u) = Append(t.done, t.cur + 1)
    BY <1>1 DEF Texts, SplitLines
  <1>3. CASE t.cur > 0
    BY <1>2, <1>3, AppendProperties DEF Texts, SplitLines, LinesExtend
  <1>4. CASE t.cur = 0
    BY <1>2, <1>4, AppendProperties DEF Texts, SplitLines, LinesExtend
  <1>5. QED
    BY <1>3, <1>4 DEF Texts

\* The texts the runner's writes make are texts.
LEMMA WriteCharType ==
    ASSUME NEW t \in Texts
    PROVE  [t EXCEPT !.cur = @ + 1] \in Texts
  <1>1. [t EXCEPT !.cur = @ + 1] = [done |-> t.done, cur |-> t.cur + 1]
    BY DEF Texts
  <1>2. QED
    BY <1>1 DEF Texts

LEMMA WriteNewlineExtends ==
    ASSUME NEW t \in Texts
    PROVE  LinesExtend(SplitLines(t),
                       SplitLines([done |-> Append(t.done, t.cur), cur |-> 0]))
  <1>1. SplitLines([done |-> Append(t.done, t.cur), cur |-> 0])
          = Append(t.done, t.cur)
    BY DEF SplitLines
  <1>2. QED
    BY <1>1, AppendProperties DEF Texts, SplitLines, LinesExtend

LEMMA ExtendRefl ==
    ASSUME NEW a \in Seq(Nat)
    PROVE  LinesExtend(a, a)
  BY DEF LinesExtend

LEMMA ExtendTrans ==
    ASSUME NEW a \in Seq(Nat), NEW b \in Seq(Nat), NEW c \in Seq(Nat),
           LinesExtend(a, b), LinesExtend(b, c)
    PROVE  LinesExtend(a, c)
  <1>1. Len(a) <= Len(c)
    BY LenProperties DEF LinesExtend
  <1>2. ASSUME NEW i \in 1..Len(a) PROVE a[i] <= c[i]
    <2>1. i \in 1..Len(b) /\ i \in 1..Len(c)
      BY LenProperties DEF LinesExtend
    <2>2. a[i] \in Nat /\ b[i] \in Nat /\ c[i] \in Nat
      BY <2>1, ElementOfSeq
    <2>3. a[i] <= b[i] /\ b[i] <= c[i]
      BY <2>1 DEF LinesExtend
    <2>4. QED
      BY <2>2, <2>3
  <1>3. QED
    BY <1>1, <1>2 DEF LinesExtend

\* One poll: `log` holds one entry per line of the previous text `r`, each a
\* prefix of it; the lines of the text read now, `s`, extend those of `r`.
\* Appending the lines of `s` past Len(r) gives one entry per line of `s`,
\* each a prefix of it.
LEMMA PollExtends ==
    ASSUME NEW lg \in Seq(Nat), NEW r \in Seq(Nat), NEW s \in Seq(Nat),
           Len(lg) = Len(r), LinesExtend(lg, r), LinesExtend(r, s)
    PROVE  /\ lg \o SubSeq(s, Len(r) + 1, Len(s)) \in Seq(Nat)
           /\ Len(lg \o SubSeq(s, Len(r) + 1, Len(s))) = Len(s)
           /\ LinesExtend(lg \o SubSeq(s, Len(r) + 1, Len(s)), s)
  <1> DEFINE rest == SubSeq(s, Len(r) + 1, Len(s))
             ext == lg \o rest
  <1> HIDE DEF rest, ext
  <1>1. Len(lg) \in Nat /\ Len(r) \in Nat /\ Len(s) \in Nat
        /\ Len(r) <= Len(s)
    BY LenProperties DEF LinesExtend
  <1>2. /\ rest \in Seq(Nat)
        /\ Len(rest) = Len(s) - Len(r)
        /\ \A i \in 1..Len(s) - Len(r) : rest[i] = s[Len(r) + i]
    <2>1. \A i \in Len(r) + 1..Len(s) : s[i] \in Nat
      BY <1>1, ElementOfSeq
    <2>2. /\ rest \in Seq(Nat)
          /\ Len(rest) = IF Len(r) + 1 <= Len(s) THEN Len(s) - Len(r) ELSE 0
          /\ \A i \in 1..Len(s) - Len(r) : rest[i] = s[Len(r) + 1 + i - 1]
      BY <1>1, <2>1, SubSeqProperties DEF rest
    <2>3. QED
      BY <1>1, <2>2
  <1>3. /\ ext \in Seq(Nat)
        /\ Len(ext) = Len(lg) + Len(rest)
        /\ \A i \in 1..Len(lg) + Len(rest) : ext[i] =
                 IF i <= Len(lg) THEN lg[i] ELSE rest[i - Len(lg)]
    BY <1>2, ConcatProperties DEF ext
  <1>4. Len(ext) = Len(s)
    BY <1>1, <1>2, <1>3
  <1>5. ASSUME NEW i \in 1..Len(s) PROVE ext[i] <= s[i]
    <2>1. CASE i <= Len(lg)
      <3>1. ext[i] = lg[i]
        BY <1>1, <1>3, <1>4, <2>1
      <3>2. lg[i] \in Nat /\ r[i] \in Nat /\ s[i] \in Nat
        BY <1>1, <2>1, ElementOfSeq
      <3>3. lg[i] <= r[i] /\ r[i] <= s[i]
        BY <1>1, <2>1 DEF LinesExtend
      <3>4. QED
        BY <3>1, <3>2, <3>3
    <2>2. CASE ~(i <= Len(lg))
      <3>1. ext[i] = rest[i - Len(lg)]
        BY <1>1, <1>3, <1>4, <2>2
      <3>2. i - Len(lg) \in 1..Len(s) - Len(r) /\ Len(r) + (i - Len(lg)) = i
        BY <1>1, <2>2
      <3>3. rest[i - Len(lg)] = s[i]
        BY <1>2, <3>2
      <3>4. QED
        BY <3>1, <3>3, <1>1, ElementOfSeq
    <2>3. QED
      BY <2>1, <2>2
  <1>6. ext = lg \o SubSeq(s, Len(r) + 1, Len(s))
    BY DEF ext, rest
  <1>7. ext \in Seq(Nat) /\ Len(ext) = Len(s) /\ LinesExtend(ext, s)
    BY <1>3, <1>4, <1>5 DEF LinesExtend
  <1>8. QED
    BY <1>6, <1>7

-----------------------------------------------------------------------------
(* The inductive invariant.                                                *)

LEMMA InitIInv == Init => IInv
  <1> SUFFICES ASSUME Init PROVE IInv
    OBVIOUS
  <1>1. SplitLines(EmptyText) = <<>>
    BY DEF SplitLines, EmptyText
  <1>2. EmptyText \in Texts
    BY DEF EmptyText, Texts
  <1>3. QED
    BY <1>1, <1>2, ExtendRefl
    DEF Init, IInv, TypeOK, LoggedOncePerLine, LinesExtend

\* A write of the runner leaves the logged lines and remote_error alone and
\* only extends the lines of stderr.txt.
LEMMA WriteIInv ==
    ASSUME IInv, WriteChar \/ WriteNewline
    PROVE  IInv'
  <1> USE DEF IInv, TypeOK
  <1>1. stderr' \in Texts
        /\ LinesExtend(SplitLines(stderr), SplitLines(stderr'))
    <2>1. CASE WriteChar
      <3>1. stderr' = [stderr EXCEPT !.cur = @ + 1]
        BY <2>1 DEF WriteChar
      <3>2. stderr' \in Texts
        BY <3>1, WriteCharType
      <3>3. QED
        BY <3>1, <3>2, WriteCharExtends
    <2>2. CASE WriteNewline
      BY <2>2, WriteNewlineExtends, AppendProperties DEF WriteNewline, Texts
    <2>3. QED
      BY <2>1, <2>2
  <1>2. UNCHANGED <<running, remoteError, logged>>
    BY DEF WriteChar, WriteNewline
  <1>3. LinesExtend(SplitLines(remoteError), SplitLines(stderr'))
    BY <1>1, SplitLinesType, ExtendTrans
  <1>4. QED
    BY <1>1, <1>2, <1>3 DEF LoggedOncePerLine

\* A poll appends to the log the lines of stderr.txt past the count of
\* remote_error's, and stores the text read.
LEMMA UpdateJobLogIInv ==
    ASSUME IInv, UpdateJobLog
    PROVE  IInv'
  <1> USE DEF IInv, TypeOK
  <1>1. /\ SplitLines(remoteError) \in Seq(Nat)
        /\ SplitLines(stderr) \in Seq(Nat)
    BY SplitLinesType
  <1>2. /\ logged' \in Seq(Nat)
        /\ Len(logged') = Len(SplitLines(stderr))
        /\ LinesExtend(logged', SplitLines(stderr))
    <2>1. logged' = logged \o SubSeq(SplitLines(stderr),
                                     Len(SplitLines(remoteError)) + 1,
                                     Len(SplitLines(stderr)))
      BY DEF UpdateJobLog, NewLines
    <2>2. QED
      BY <1>1, <2>1, PollExtends DEF LoggedOncePerLine
  <1>3. remoteError' = stderr /\ UNCHANGED <<stderr, running>>
    BY DEF UpdateJobLog
  <1>4. QED
    BY <1>1, <1>2, <1>3, ExtendRefl DEF LoggedOncePerLine

LEMMA NextIInv == IInv /\ [Next]_vars => IInv'
  <1> SUFFICES ASSUME IInv, [Next]_vars PROVE IInv'
    OBVIOUS
  <1>1. CASE WriteChar \/ WriteNewline
    BY <1>1, WriteIInv
  <1>2. CASE RunnerExit
    BY <1>2 DEF RunnerExit, IInv, TypeOK, LoggedOncePerLine
  <1>3. CASE UpdateJobLog
    BY <1>3, UpdateJobLogIInv
  <1>4. CASE UNCHANGED vars
    BY <1>4 DEF vars, IInv, TypeOK, LoggedOncePerLine
  <1>5. QED
    BY <1>1, <1>2, <1>3, <1>4 DEF Next

LEMMA SpecIInv == Spec => []IInv
  BY InitIInv, NextIInv, PTL DEF Spec

-----------------------------------------------------------------------------
(* The properties the logpolling run checks, for every MaxChars.          *)

\* update_job logs each line of remote_error exactly once, however the polls
\* fall between the runner's writes: the count of lines in remote_error is
\* the right offset into the text read next.
THEOREM LoggedOncePerLineHolds == Spec => []LoggedOncePerLine
  <1>1. IInv => LoggedOncePerLine
    BY DEF IInv
  <1>2. QED
    BY <1>1, SpecIInv, PTL

\* A line update_job passes to job.debug is at worst cut short: it is a
\* prefix of the runner's line at its position in stderr.txt.
THEOREM LoggedLinesPrefixHolds == Spec => []LoggedLinesPrefixOfRunner
  <1>1. IInv => LoggedLinesPrefixOfRunner
    <2> SUFFICES ASSUME IInv PROVE LoggedLinesPrefixOfRunner
      OBVIOUS
    <2>1. /\ SplitLines(remoteError) \in Seq(Nat)
          /\ SplitLines(stderr) \in Seq(Nat)
          /\ logged \in Seq(Nat)
      BY SplitLinesType DEF IInv, TypeOK
    <2>2. QED
      BY <2>1, ExtendTrans DEF IInv, LoggedLinesPrefixOfRunner
  <1>2. QED
    BY <1>1, SpecIInv, PTL
=============================================================================
