------------------------------- MODULE MCUsn --------------------------------
(* Instances of the journal readers: what journals are made of.             *)
EXTENDS UsnCarver

MinLengths == [v \in 2 .. 4 |-> CASE v = 2 -> 4 [] v = 3 -> 5 [] v = 4 -> 3]

Gap == <<0, 0>>
Healthy == {Gap,
            <<4, 2, 7, 7>>,            \* version 2
            <<5, 2, 0, 0, 1, 0>>,      \* version 2, length not a multiple of 8
            <<6, 3, 0, 0, 0, 0>>,      \* version 3, as long as the buffer
            <<3, 4, 1, 0>>}            \* version 4

Damaged == {Gap,
            <<4, 2, 7, 7>>,
            <<6, 3, 4, 2, 7, 7>>,      \* a record that holds what looks like one
            <<9, 2>>,                  \* a length no record has
            <<3, 2>>,                  \* a record shorter than any
            <<4, 9, 1, 0>>,            \* a version no record has
            <<6, 2>>}                  \* a record without its end

SmallJournals == BoundedSeq(Healthy, 2)
HealthyAndDamaged == BoundedSeq(Healthy, 4) \cup BoundedSeq(Damaged, 4)
=============================================================================
