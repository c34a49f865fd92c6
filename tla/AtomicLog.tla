----------------------------- MODULE AtomicLog -----------------------------
(***************************************************************************)
(* What collecting the workers' access logs promises: a log is extended by *)
(* whole lines of one worker at a time, the next ones that worker wrote.   *)
(***************************************************************************)
EXTENDS Integers, Sequences, FiniteSets

CONSTANTS Workers, MaxLines

VARIABLE log   \* a sequence of halves of lines, <<worker, number, half>>

Halves(w, m, n) ==
    [i \in 1 .. 2 * (n - m + 1) |->
        <<w, m + (i - 1) \div 2, IF i % 2 = 1 THEN "head" ELSE "tail">>]

Count(w) == Cardinality({i \in DOMAIN log : log[i][1] = w}) \div 2

Init == log = <<>>

Add(w) == \E n \in Count(w) + 1 .. MaxLines : log' = log \o Halves(w, Count(w) + 1, n)

Next == \E w \in Workers : Add(w)

Spec == Init /\ [][Next]_log
=============================================================================
