------------------------------- MODULE JsonLines -------------------------------
(***************************************************************************)
(* What a reader makes of a JSONL file (jsonl.py).  A file is a sequence   *)
(* of lines; a reader keeps some of them, in order.                        *)
(***************************************************************************)
EXTENDS Integers, Sequences

\* For each n, what is kept of the first n lines.
KeptUpTo(ls, positions) ==
  LET kept[n \in 0 .. Len(ls)] ==
        IF n = 0 THEN <<>>
        ELSE IF n \in positions THEN Append(kept[n - 1], ls[n])
        ELSE kept[n - 1]
  IN  kept

\* The lines at these positions, in order.
Kept(ls, positions) == KeptUpTo(ls, positions)[Len(ls)]

\* _parse: whatever json.loads refuses, which reads as bad, is skipped.
Parse(ls, bad) == Kept(ls, {n \in 1 .. Len(ls) : ls[n] # bad})
================================================================================
