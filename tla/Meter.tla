------------------------------- MODULE Meter -------------------------------
(***************************************************************************)
(* The context meter of `cxpeer list` and `cxpeer status` (context.py):    *)
(* how large a peer's prompt is, by the last usage record in the tail of   *)
(* a transcript that Claude Code or Codex is appending to at the time.     *)
(*                                                                         *)
(* The reader asks for the size of the file first and reads from           *)
(* TAIL_BYTES before that to wherever the file ends by then.  A line of    *)
(* the transcript is where it starts, where the next one starts, the       *)
(* tokens of its usage record (0: it has none), and whether its text has   *)
(* a character in it at which str.splitlines breaks lines though JSON      *)
(* does not (U+2028, U+0085): then neither part of it is JSON.             *)
(***************************************************************************)
EXTENDS Naturals, Sequences

CONSTANTS
    TailBytes,  \* TAIL_BYTES
    LineSizes,  \* how long lines are
    UsageSizes, \* the token counts of usage records
    Unknown,    \* no meter: "ctx=?"
    MaxLines    \* bound: lines of the transcript

ASSUME MeterAssumption ==
    /\ TailBytes \in Nat \ {0} /\ MaxLines \in Nat
    /\ LineSizes \subseteq Nat \ {0} /\ UsageSizes \subseteq Nat \ {0}
    /\ Unknown \notin Nat

VARIABLES
    lines,   \* the complete lines of the transcript
    half,    \* how much of the next line is there
    reader,  \* where the command is
    size,    \* _tail_lines' local of that name
    shown    \* the tokens it prints, or Unknown

meterVars == <<lines, half, reader, size, shown>>

Lines == [from : Nat, to : Nat, tokens : UsageSizes \cup {0}, broken : BOOLEAN]
EndOfLines == IF lines = <<>> THEN 0 ELSE lines[Len(lines)].to
FileSize == EndOfLines + half

MeterInit ==
    /\ lines = <<>> /\ half = 0
    /\ reader = "idle" /\ size = 0 /\ shown = Unknown

-----------------------------------------------------------------------------
\* A tool writes the beginning of a line, and the rest of it.
BeginLine ==
    /\ half = 0 /\ Len(lines) < MaxLines
    /\ half' = 1
    /\ UNCHANGED <<lines, reader, size, shown>>

\* Mutant: what has been written of the line is counted twice.
EndLine_Gap(n, t, b) ==
    /\ half = 1
    /\ lines' = Append(lines, [from |-> FileSize, to |-> FileSize + n,
                               tokens |-> t, broken |-> b])
    /\ half' = 0
    /\ UNCHANGED <<reader, size, shown>>

EndLine(n, t, b) ==
    /\ half = 1
    /\ lines' = Append(lines, [from |-> EndOfLines, to |-> EndOfLines + n,
                               tokens |-> t, broken |-> b])
    /\ half' = 0
    /\ UNCHANGED <<reader, size, shown>>

\* path.stat()
Stat ==
    /\ reader = "idle" /\ reader' = "sized"
    /\ size' = FileSize
    /\ UNCHANGED <<lines, half, shown>>

\* Mutant: the first line is dropped however short the file is.
InTail_Always(n) == lines[n].from + TailBytes > size /\ lines[n].from > 0

\* _tail_lines: a long file is read from its middle on, and the first line of
\* that is dropped, be it cut or not.
InTail(n) == size > TailBytes => lines[n].from + TailBytes > size

\* claude_context, codex_context: the last record with a usage counts; lines
\* that are not JSON, the last one if it is half written, do not.
Metered ==
    LET used == {n \in DOMAIN lines : InTail(n) /\ lines[n].tokens > 0 /\ ~lines[n].broken}
    IN  IF used = {} THEN Unknown
        ELSE lines[CHOOSE n \in used : \A k \in used : k <= n].tokens

ReadTail ==
    /\ reader = "sized" /\ reader' = "done"
    /\ shown' = Metered
    /\ UNCHANGED <<lines, half, size>>

\* The next command.
Again ==
    /\ reader = "done" /\ reader' = "idle"
    /\ size' = 0 /\ shown' = Unknown
    /\ UNCHANGED <<lines, half>>

MeterNext ==
    \/ BeginLine
    \/ \E n \in LineSizes, t \in UsageSizes \cup {0}, b \in BOOLEAN : EndLine(n, t, b)
    \/ Stat \/ ReadTail \/ Again

MeterSpec == MeterInit /\ [][MeterNext]_meterVars

-----------------------------------------------------------------------------
\* Every variable holds a value the program can give it; lines follow each
\* other without a gap.
MeterTypeOK ==
    /\ lines \in Seq(Lines) /\ half \in {0, 1}
    /\ \A n \in DOMAIN lines :
          /\ lines[n].to > lines[n].from
          /\ lines[n].from = IF n = 1 THEN 0 ELSE lines[n - 1].to
    /\ reader \in {"idle", "sized", "done"}
    /\ size \in Nat /\ size <= FileSize
    /\ shown \in UsageSizes \cup {Unknown}

\* A usage record that can be read.
IsUsage(n) == lines[n].tokens > 0 /\ ~lines[n].broken

\* "prompt size of the last turn": what is shown is the last usage record that
\* can be read, by the time the file is read and not when its size was taken.
\* There is nothing to show only if that record starts before the last
\* TailBytes of a long file.
ShownIsLast ==
    [][\A n \in DOMAIN lines :
          /\ ReadTail /\ IsUsage(n)
          /\ \A k \in DOMAIN lines : k > n => ~IsUsage(k)
          => \/ shown' = lines[n].tokens
             \/ /\ shown' = Unknown /\ FileSize > TailBytes
                /\ lines[n].from + TailBytes <= FileSize]_meterVars
=============================================================================
