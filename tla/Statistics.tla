----------------------------- MODULE Statistics -----------------------------
(***************************************************************************)
(* The numbers the laboratory tools share, on sequences of integers: order *)
(* statistics and the smooth step their references move by.                *)
(***************************************************************************)
EXTENDS Integers, Sequences, FiniteSets, SequencesExt

Smallest(seq) == Min(ToSet(seq))
Largest(seq) == Max(ToSet(seq))

\* sorted: the k-th value is the least that k samples do not exceed.
Sorted(seq) ==
  [k \in DOMAIN seq |->
     Min({v \in ToSet(seq) : Cardinality({i \in DOMAIN seq : seq[i] <= v}) >= k})]

\* Twice the median, to stay within the integers.
TwiceMedian(seq) ==
  LET s == Sorted(seq) n == Len(seq)
  IN  IF n % 2 = 1 THEN 2 * s[n \div 2 + 1] ELSE s[n \div 2] + s[n \div 2 + 1]

\* 100 times the percentile, linear between the neighbours.
Percentile(seq, pct) ==
  LET s == Sorted(seq)
      x == pct * (Len(seq) - 1)
      lo == x \div 100  w == x % 100
  IN  IF w = 0 THEN 100 * s[lo + 1] ELSE s[lo + 1] * (100 - w) + s[lo + 2] * w

\* u^2 (3 - 2u) for u = k/n, times n^3.
Smooth(k, n) == k * k * (3 * n - 2 * k)
=============================================================================
