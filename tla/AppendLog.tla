------------------------------ MODULE AppendLog ------------------------------
(***************************************************************************)
(* What the Audit trail promises its readers: a sequence of entries that   *)
(* only ever grows, one entry at a time, at its end.                       *)
(***************************************************************************)
EXTENDS Sequences

CONSTANT Body
VARIABLE log

Init == log = <<>>
Add(b) == log' = Append(log, b)
Next == \E b \in Body : Add(b)
Spec == Init /\ [][Next]_log
=============================================================================
