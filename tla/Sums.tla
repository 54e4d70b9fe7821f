--------------------------------- MODULE Sums ---------------------------------
(* The sum of a sequence of numbers, and how many of a sequence are in a set. *)
EXTENDS Integers, Sequences

Total(s) ==
    LET sum[i \in 0..Len(s)] == IF i = 0 THEN 0 ELSE sum[i - 1] + s[i]
    IN  sum[Len(s)]

HowMany(s, S) == Total([k \in DOMAIN s |-> IF s[k] \in S THEN 1 ELSE 0])
=============================================================================
