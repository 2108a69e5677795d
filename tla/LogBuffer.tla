----------------------------- MODULE LogBuffer -----------------------------
(***************************************************************************)
(* diagnostics.LogBuffer: the newest lines of the request log.  Append     *)
(* holds the mutex throughout, so it is an operator on the kept lines.     *)
(***************************************************************************)
EXTENDS Integers, Sequences

CONSTANT MaxLogLines  \* DEBUG_LOG_LIMIT

ASSUME LogAssumption == MaxLogLines \in Int

\* NewLogBuffer takes a limit that is no positive number for 100.
Cap == IF MaxLogLines <= 0 THEN 100 ELSE MaxLogLines

\* Mutants of AppendLine: the buffer holds one line too many; the newest goes.
AppendLineLate(data, entry) ==
    IF Len(data) > Cap THEN Append(Tail(data), entry) ELSE Append(data, entry)

AppendLineIfRoom(data, entry) ==
    IF Len(data) >= Cap THEN data ELSE Append(data, entry)

AppendLine(data, entry) ==
    IF Len(data) >= Cap THEN Append(Tail(data), entry) ELSE Append(data, entry)

\* The last n elements of s, or all of them.
Newest(s, n) == IF Len(s) <= n THEN s ELSE SubSeq(s, Len(s) - n + 1, Len(s))
=============================================================================
