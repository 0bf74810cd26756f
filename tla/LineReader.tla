----------------------------- MODULE LineReader -------------------------------
(***************************************************************************)
(* boundedLineReader of internal/mcpserver/server.go: the protocol's       *)
(* framing, enforced before the MCP SDK sees a byte of stdin.  A physical  *)
(* line must be one complete JSON value of at most Limit bytes; the first  *)
(* line that is not ends the session, and so does the end of the input.    *)
(*                                                                         *)
(* A line is its length without the newline, what it holds, and whether a  *)
(* newline ends it; its bytes are numbered.                                *)
(***************************************************************************)
EXTENDS Integers, Sequences, SequencesExt, FiniteSetsExt

CONSTANTS
  Lines,     \* the lines the client may write
  MaxLines,  \* bound on the lines of a run
  Limit,     \* MaxRequestBytes
  Buffer,    \* the size of bufio's buffer, the most ReadSlice returns
  Piece      \* the most the SDK asks for in one Read

Contents == {"call", "other", "junk", "blank"}

ASSUME LineAssumption ==
  /\ Lines \subseteq [length : Nat, holds : Contents, newline : BOOLEAN]
  /\ MaxLines \in Nat
  /\ Limit \in Nat
  /\ {Buffer, Piece} \subseteq Nat \ {0}

VARIABLES
  written,  \* every line the client wrote
  input,    \* the client's end of the pipe: "open", "closed" or "broken"
  at,       \* how many lines nextLine has finished with
  line,     \* how many bytes of the next one it has accumulated
  buf,      \* what is left of a validated line
  failed,   \* the error every further read returns, or "no"
  served    \* every byte the SDK was given

lineVars == <<written, input, at, line, buf, failed, served>>

-----------------------------------------------------------------------------
LineInit ==
  /\ written = << >>
  /\ input = "open"
  /\ at = 0
  /\ line = 0
  /\ buf = << >>
  /\ failed = "no"
  /\ served = << >>

(* The newline counts: it is part of the slice and of the served line.     *)
Size(l) == l.length + (IF l.newline THEN 1 ELSE 0)

Bytes(i) == [k \in 1 .. Size(written[i]) |-> <<i, k>>]

TooLongWithBuffer(bytes) == bytes > Limit + Buffer

TooLong(bytes) == bytes > Limit + 1

(* Only the last line of an input may lack its newline.                    *)
ClientWrites ==
  /\ input = "open"
  /\ Len(written) < MaxLines
  /\ written # << >> => Last(written).newline
  /\ \E l \in Lines : written' = Append(written, l)
  /\ UNCHANGED <<input, at, line, buf, failed, served>>

ClientStops ==
  /\ input = "open"
  /\ input' \in {"closed", "broken"}
  /\ UNCHANGED <<written, at, line, buf, failed, served>>

NeedsLineAgain == buf = << >>

(* Read asks for a new line only once the last one is used up, and never   *)
(* after a failure.                                                        *)
NeedsLine == failed = "no" /\ buf = << >>

Current == written[at + 1]

Unread == Size(Current) - line

ReadSlice ==
  /\ NeedsLine
  /\ at < Len(written)
  /\ Unread > 0
  /\ line' = line + Min({Unread, Buffer})
  /\ failed' = IF TooLong(line') THEN "tooLarge" ELSE "no"
  /\ UNCHANGED <<written, input, at, buf, served>>

(* A whole line was read and is short enough.                              *)
LineEnds ==
  /\ NeedsLine
  /\ at < Len(written)
  /\ Current.newline /\ Unread = 0
  /\ at' = at + 1
  /\ line' = 0
  /\ buf' = IF Current.holds \in {"call", "other"} THEN Bytes(at + 1) ELSE << >>
  /\ failed' = IF Current.holds = "junk" THEN "framing" ELSE "no"
  /\ UNCHANGED <<written, input, served>>

(* What is left of the input: nothing, or a line without its newline.      *)
Remainder == SubSeq(written, at + 1, Len(written))

InputEnds ==
  /\ NeedsLine
  /\ input # "open"
  /\ at < Len(written) => ~ Current.newline /\ Unread = 0
  /\ failed' = IF input = "broken" THEN "readError"
                ELSE IF \A l \in ToSet(Remainder) : l.holds = "blank" THEN "eof" ELSE "framing"
  /\ UNCHANGED <<written, input, at, line, buf, served>>

Serve ==
  /\ failed = "no"
  /\ buf # << >>
  /\ LET n == Min({Piece, Len(buf)}) IN
       /\ served' = served \o SubSeq(buf, 1, n)
       /\ buf' = SubSeq(buf, n + 1, Len(buf))
  /\ UNCHANGED <<written, input, at, line, failed>>

LineNext == ClientWrites \/ ClientStops \/ ReadSlice \/ LineEnds \/ InputEnds \/ Serve

-----------------------------------------------------------------------------
LineTypeOK ==
  /\ written \in Seq(Lines) /\ Len(written) <= MaxLines
  /\ input \in {"open", "closed", "broken"}
  /\ at \in 0 .. Len(written)
  /\ line \in 0 .. Limit + 1 + Buffer
  /\ failed = "no" => line <= Limit + 1
  /\ buf \in Seq(Nat \X Nat)
  /\ failed \in {"no", "tooLarge", "framing", "eof", "readError"}
  /\ served \in Seq(Nat \X Nat)

Good(l) == l.newline /\ l.holds # "junk" /\ ~ TooLong(Size(l))

(* The lines before the first one that breaks the framing, blank ones      *)
(* left out.                                                               *)
Wanted ==
  LET bad == {i \in DOMAIN written : ~ Good(written[i])}
      stop == Min(bad \cup {Len(written) + 1})
      kept == {i \in 1 .. stop - 1 : written[i].holds # "blank"}
  IN FlattenSeq([i \in 1 .. stop - 1 |-> IF i \in kept THEN Bytes(i) ELSE << >>])

(* The SDK is given the bytes of the valid lines in order, whole and       *)
(* nothing else: nothing of a line that is too long, unframed or           *)
(* unterminated, nothing behind one, and no failure before everything      *)
(* ahead of it was given (boundedLineReader.Read).                         *)
ServedLines ==
  /\ IsPrefix(served, Wanted)
  /\ failed # "no" => served = Wanted
=============================================================================
