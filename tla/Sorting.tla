------------------------------ MODULE Sorting ------------------------------
(***************************************************************************)
(* std::stable_sort, and picking elements of a sequence in their order.    *)
(* What is sorted are places; the relation "before" is the comparator on   *)
(* them, a set of pairs.  SelectSeq and SortSeq of the libraries would do  *)
(* for TLC, but the one is recursive and the other has another algorithm.  *)
(***************************************************************************)
EXTENDS Integers, Sequences, FiniteSets

\* Places in ascending order.
Ascending(places) ==
    [k \in 1 .. Cardinality(places) |->
        CHOOSE p \in places : Cardinality({q \in places : q <= p}) = k]

\* The elements at some places, in the order of the places.
Picked(s, places) == [k \in DOMAIN places |-> s[places[k]]]

\* The elements that pass a test, in their order.
Selected(s, Passes(_)) == Picked(s, Ascending({k \in DOMAIN s : Passes(s[k])}))

-----------------------------------------------------------------------------
\* An element goes in front of all if it is before the first, otherwise behind
\* the last that it is not before.
InsertionPlace(sorted, x, before) ==
    LET notAfter == {k \in DOMAIN sorted : <<x, sorted[k]>> \notin before}
    IN  IF sorted = << >> \/ <<x, sorted[1]>> \in before THEN 0
        ELSE CHOOSE k \in notAfter : \A l \in notAfter : l <= k

Inserted(sorted, x, before) ==
    LET k == InsertionPlace(sorted, x, before)
    IN  SubSeq(sorted, 1, k) \o (<<x>> \o SubSeq(sorted, k + 1, Len(sorted)))

InsertionSort(s, before) ==
    LET sorted[k \in 0 .. Len(s)] ==
            IF k = 0 THEN << >> ELSE Inserted(sorted[k - 1], s[k], before)
    IN  sorted[Len(s)]

MergedForward(a, b, before) ==
    LET from[p \in (1 .. Len(a) + 1) \X (1 .. Len(b) + 1)] ==
            IF p[1] > Len(a) \/ p[2] > Len(b)
            THEN SubSeq(a, p[1], Len(a)) \o SubSeq(b, p[2], Len(b))
            ELSE IF <<b[p[2]], a[p[1]]>> \in before
            THEN <<b[p[2]]>> \o from[<<p[1], p[2] + 1>>]
            ELSE <<a[p[1]]>> \o from[<<p[1] + 1, p[2]>>]
    IN  from[<<1, 1>>]

MergedBackward(a, b, before) ==
    LET upTo[p \in (0 .. Len(a)) \X (0 .. Len(b))] ==
            IF p[1] = 0 \/ p[2] = 0
            THEN SubSeq(a, 1, p[1]) \o SubSeq(b, 1, p[2])
            ELSE IF <<b[p[2]], a[p[1]]>> \in before
            THEN upTo[<<p[1] - 1, p[2]>>] \o <<a[p[1]]>>
            ELSE upTo[<<p[1], p[2] - 1>>] \o <<b[p[2]]>>
    IN  upTo[<<Len(a), Len(b)>>]

\* From the back if the first is longer.
Merged(a, b, before) ==
    IF Len(a) <= Len(b) THEN MergedForward(a, b, before) ELSE MergedBackward(a, b, before)

\* The places 1 .. n as libstdc++ sorts up to 14 elements, also where before is
\* no strict weak order: two halves are sorted by insertion and merged.
SortedPlaces(n, before) ==
    LET half == (n + 1) \div 2
    IN  Merged(InsertionSort([k \in 1 .. half |-> k], before),
               InsertionSort([k \in 1 .. n - half |-> half + k], before), before)

StableSort(s, Before(_, _)) ==
    Picked(s, SortedPlaces(Len(s), {p \in (DOMAIN s) \X (DOMAIN s) : Before(s[p[1]], s[p[2]])}))
=============================================================================
