----------------------------- MODULE MCMcpServer ------------------------------
(* An instance of McpServer for TLC.  Two bytes and a newline are the      *)
(* longest line that fits; bufio returns at most two bytes at a time.      *)
EXTENDS McpServer

Line(lengths, contents, newlines) ==
  [length : lengths, holds : contents, newline : newlines]

ClientLines ==
       Line({2, 3}, {"call"}, BOOLEAN)
  \cup Line({1}, {"other"}, {TRUE})
  \cup Line({1}, {"junk"}, {TRUE})
  \cup Line({0, 3}, {"blank"}, BOOLEAN)

(* While a call runs the reader is looked at only after a single line: it  *)
(* shares nothing with the call but the end of the session.                *)
Sequential ==
  handler # "none" =>
    /\ at = Len(written) /\ buf = << >>
    /\ input = "open" \/ at = 1
=============================================================================
