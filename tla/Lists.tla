--------------------------------- MODULE Lists ---------------------------------
(***************************************************************************)
(* What the code has from its language and its database: an array filtered *)
(* or sorted, and a column added up.  They are said here by what they come *)
(* to, for SelectSeq and SortSeq are built into the provers, which know    *)
(* nothing of them.                                                        *)
(***************************************************************************)
EXTENDS Integers, FiniteSets, SequencesExt

\* The elements of a finite set in the strict order before, a set of pairs: each after as
\* many as there are before it.
Listed(S, before) ==
    [k \in 1..Cardinality(S) |->
        CHOOSE x \in S : Cardinality({y \in S : <<y, x>> \in before}) = k - 1]

Ascending(S) == Listed(S, {p \in S \X S : p[1] < p[2]})

\* Array.filter: the entries of a sequence at some of its places.
Picked(seq, places) ==
    LET order == Ascending(places)
    IN  [k \in DOMAIN order |-> seq[order[k]]]

\* The sum of a column, over some of its rows.
SumOf(column, rows) == MapThenSumSet(LAMBDA i : column[i], rows)
================================================================================
