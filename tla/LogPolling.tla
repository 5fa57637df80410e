----------------------------- MODULE LogPolling -----------------------------
(***************************************************************************)
(* The stderr half of RemoteJobFiles.update_job (remote_job_files.py): at  *)
(* every poll the runner's stderr.txt is read, the lines beyond as many as *)
(* job.remote_error already had are passed to job.debug, and the text      *)
(* read becomes job.remote_error.  The runner appends to stderr.txt        *)
(* between polls, one character at a time.                                 *)
(*                                                                         *)
(* A text is kept as what str.splitlines() makes of it: the completed      *)
(* lines and the length of the unterminated last one.  With a one-letter   *)
(* alphabet a line is its length.                                          *)
(***************************************************************************)
EXTENDS Naturals, Sequences

CONSTANT MaxChars   \* bound on the characters the runner writes

ASSUME MaxCharsAssumption == MaxChars \in Nat

\* A text: completed lines (lengths) and the unterminated tail's length.
Texts == [done : Seq(Nat), cur : Nat]
EmptyText == [done |-> <<>>, cur |-> 0]

\* str.splitlines(): an unterminated tail is a line when it is non-empty.
SplitLines(t) == IF t.cur > 0 THEN Append(t.done, t.cur) ELSE t.done

\* len(text) > 0
NonEmpty(t) == t.done # <<>> \/ t.cur > 0

VARIABLES
    stderr,       \* the runner's stderr.txt
    running,      \* the runner is still writing
    remoteError,  \* job.remote_error: the text read at the last poll
    logged        \* the lines passed to job.debug so far, in order

vars == <<stderr, running, remoteError, logged>>

TypeOK ==
    /\ stderr \in Texts
    /\ running \in BOOLEAN
    /\ remoteError \in Texts
    /\ logged \in Seq(Nat)

Init ==
    /\ stderr = EmptyText
    /\ running = TRUE
    /\ remoteError = EmptyText
    /\ logged = <<>>

\* The runner writes one letter.
WriteChar ==
    /\ running
    /\ Len(stderr.done) + stderr.cur < MaxChars
    /\ stderr' = [stderr EXCEPT !.cur = @ + 1]
    /\ UNCHANGED <<running, remoteError, logged>>

\* The runner writes a newline.
WriteNewline ==
    /\ running
    /\ Len(stderr.done) + stderr.cur < MaxChars
    /\ stderr' = [done |-> Append(stderr.done, stderr.cur), cur |-> 0]
    /\ UNCHANGED <<running, remoteError, logged>>

RunnerExit ==
    /\ running
    /\ running' = FALSE
    /\ UNCHANGED <<stderr, remoteError, logged>>

\* The lines of `log` past the first `n`: lines[first_new_line:].
NewLines(log, n) == SubSeq(SplitLines(log), n + 1, Len(SplitLines(log)))

\* Mutation: first_new_line one short, re-logging the last line seen.
UpdateJobLogOffByOne ==
    /\ NonEmpty(stderr)
    /\ LET n == Len(SplitLines(remoteError)) IN
       logged' = logged \o NewLines(stderr, IF n > 0 THEN n - 1 ELSE 0)
    /\ remoteError' = stderr
    /\ UNCHANGED <<stderr, running>>

\* update_job, stderr part: if the file is non-empty, log the lines beyond
\* the count of lines in remote_error, then store the text read.
UpdateJobLog ==
    /\ NonEmpty(stderr)
    /\ logged' = logged \o NewLines(stderr, Len(SplitLines(remoteError)))
    /\ remoteError' = stderr
    /\ UNCHANGED <<stderr, running>>

Next == WriteChar \/ WriteNewline \/ RunnerExit \/ UpdateJobLog

Spec == Init /\ [][Next]_vars

(***************************************************************************)
(* Properties.                                                             *)
(***************************************************************************)

\* Polling logs each line of remote_error exactly once: as many lines have
\* gone to job.debug as remote_error has, however the polls fall between
\* the runner's writes.
LoggedOncePerLine ==
    Len(logged) = Len(SplitLines(remoteError))

\* Line by line, the lines `b` extend the lines `a`: `b` has at least as
\* many, and each line of `a` is a prefix of the line of `b` at its place
\* (with a one-letter alphabet, no longer).
LinesExtend(a, b) ==
    /\ Len(a) <= Len(b)
    /\ \A i \in 1..Len(a) : a[i] <= b[i]

\* A line passed to job.debug is wrong at most by being cut short: it is a
\* prefix of the runner's line at that position, however often update_job
\* polled while the runner was writing it.
LoggedLinesPrefixOfRunner == LinesExtend(logged, SplitLines(stderr))

\* Every line passed to job.debug is the runner's line at that position:
\* a line the runner had only partly written at a poll is not logged cut
\* short.
LoggedLinesMatchRunner ==
    \A i \in 1..Len(logged) :
        i <= Len(SplitLines(stderr)) /\ logged[i] = SplitLines(stderr)[i]
=============================================================================
