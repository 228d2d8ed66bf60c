------------------------------ MODULE Numbers ------------------------------
(***************************************************************************)
(* The numbers of the host's Python: min, max, sum and round.  What Python *)
(* keeps as a float is kept here as a whole number of hundredths or        *)
(* thousandths.                                                            *)
(***************************************************************************)
EXTENDS Integers, FiniteSets, Functions

NULL == -1    \* None

Least(S) == CHOOSE x \in S : \A y \in S : x <= y
Largest(S) == CHOOSE x \in S : \A y \in S : x >= y

\* round(a / b): a half goes to the even neighbour.
Round(a, b) ==
  LET q == a \div b
      twice == 2 * (a % b)
  IN  IF twice > b \/ (twice = b /\ q % 2 = 1) THEN q + 1 ELSE q

\* The elements of S in the order R, a set of pairs <<earlier or same, later>>.
Listed(S, R) ==
  LET Place == [x \in S |-> Cardinality({y \in S : <<y, x>> \in R})]
  IN  [n \in 1..Cardinality(S) |-> CHOOSE x \in S : Place[x] = n]

\* The elements of the sequence q at the indices in S.
AtIndices(q, S) ==
  LET order == Listed(S, {s \in S \X S : s[1] <= s[2]})
  IN  [n \in DOMAIN order |-> q[order[n]]]

Total(f) == FoldFunction(LAMBDA x, y : x + y, 0, f)
=============================================================================
