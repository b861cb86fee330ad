------------------------------ MODULE RangeSet ------------------------------
(***************************************************************************)
(* The set of ledger versions a server has, kept as a sequence of ranges   *)
(* <<first, last>> (src/src/common/rangeset.js).                           *)
(***************************************************************************)
EXTENDS Integers, SequencesExt, Sorting

(* Mutant of Touches: neighbouring ranges stay apart.                      *)
Overlaps(range, last) == range[1] <= last[2]
(* A range that overlaps the last one or is its neighbour.                 *)
Touches(range, last) == range[1] <= last[2] + 1

(* One step of mergeIntervals: the stack is never empty there, thanks to   *)
(* its first range, which nothing touches and slice(1) drops.              *)
Push(stack, range) ==
  IF stack # <<>> /\ Touches(range, Last(stack))
  THEN Append(Front(stack),
              <<Last(stack)[1], Max({range[2], Last(stack)[2]})>>)
  ELSE Append(stack, range)

(* By the first of each range; _.sortBy is stable.                         *)
sortByFirst(ranges) ==
  LET all == 1 .. Len(ranges)
      before == {p \in all \X all :
                   \/ ranges[p[1]][1] < ranges[p[2]][1]
                   \/ ranges[p[1]][1] = ranges[p[2]][1] /\ p[1] < p[2]}
      places == InOrder(all, before)
  IN [i \in all |-> ranges[places[i]]]

mergeIntervals(ranges) == FoldLeft(Push, <<>>, sortByFirst(ranges))

addRange(ranges, first, last) == mergeIntervals(Append(ranges, <<first, last>>))

addValue(ranges, value) == addRange(ranges, value, value)

(* The string is a sequence of ranges, added in its order.                 *)
parseAndAddRanges(ranges, added) ==
  FoldLeft(LAMBDA rs, r : addRange(rs, r[1], r[2]), ranges, added)

containsRange(ranges, first, last) ==
  \E i \in DOMAIN ranges : ranges[i][1] <= first /\ ranges[i][2] >= last

(* The versions that the ranges stand for.                                 *)
Denotes(ranges) == UNION {ranges[i][1] .. ranges[i][2] : i \in DOMAIN ranges}

(* The ranges of a set of versions, as a server lists them.                *)
RangesOf(S) ==
  LET starts == {v \in S : v - 1 \notin S}
      ordered == InOrder(starts, {p \in starts \X starts : p[1] < p[2]})
      last(v) == Min({w \in S : w >= v /\ w + 1 \notin S})
  IN [i \in 1 .. Cardinality(starts) |-> <<ordered[i], last(ordered[i])>>]

=============================================================================
