------------------------------ MODULE MCVolume ------------------------------
(* A disk of twelve addresses, each holding its own number; the window is    *)
(* 2 .. 9 of them.                                                           *)
EXTENDS SharedVolume

CONSTANTS w1, w2

TheDisk == [a \in 0 .. DiskLen - 1 |-> a]

StartsOf(lengths) ==
  LET at[k \in 1 .. Len(lengths) + 1] ==
        IF k = 1 THEN 0 ELSE at[k - 1] + lengths[k - 1] * ClusterSize
  IN  at

RunList(lcns, lengths) == [n |-> Len(lcns), lcn |-> lcns, length |-> lengths,
                           start |-> StartsOf(lengths)]

TwoLists == {RunList(<<2, Zero, 0>>, <<1, 1, 1>>),   \* backwards, with a hole
             RunList(<<3, 1>>, <<2, 1>>)}            \* runs out of the window
=============================================================================
