------------------------------- MODULE MCLive -------------------------------
EXTENDS LiveReaders

MCAlias == [n \in {"a", "longer name"} |-> IF n = "a" THEN "a" ELSE "LONGER~1"]
MCFold == [n \in {"a", "A", "longer name", "LONGER~1"} |-> IF n = "A" THEN "a" ELSE n]
MCMarkSets == {{}, {"reparse", "ads"}}
MCBufOrder == <<"b1", "b2">>
MCBlock == Blocks
MCContent == Contents
=============================================================================
