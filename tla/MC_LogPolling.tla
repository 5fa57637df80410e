--------------------------- MODULE MC_LogPolling ---------------------------
(* Model-checking instance of LogPolling. *)
EXTENDS LogPolling, TLC

\* Four characters: enough for two lines with a poll inside the second.
MCMaxChars == 4
=============================================================================
