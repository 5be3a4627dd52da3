---------------------------- MODULE AtomicBlock ----------------------------
(***************************************************************************)
(* What a reader of multi-sector blocks (MFT records, index buffers, log   *)
(* record pages) is promised: a block shows the content it last had, or    *)
(* it is refused; no content is ever shown that was not written whole.     *)
(***************************************************************************)
CONSTANTS Block, Content,
          Unreadable,          \* what a refused block shows
          None                 \* no write is going on

VARIABLES shown,               \* what a reader gets from each block
          writing              \* the content on its way to each block

vars == <<shown, writing>>

Init == /\ shown \in [Block -> Content]
        /\ writing = [b \in Block |-> None]

Begin(b) ==
  /\ writing[b] = None
  /\ writing'[b] \in Content
  /\ writing' = [writing EXCEPT ![b] = writing'[b]]
  /\ UNCHANGED shown

(***************************************************************************)
(* A write that has begun and not ended: the block is refused.             *)
(***************************************************************************)
Disturb(b) ==
  /\ writing[b] # None
  /\ shown' = [shown EXCEPT ![b] = Unreadable]
  /\ UNCHANGED writing

Finish(b) ==
  /\ writing[b] # None
  /\ shown' = [shown EXCEPT ![b] = writing[b]]
  /\ writing' = [writing EXCEPT ![b] = None]

(***************************************************************************)
(* Power is lost: what was on its way is gone, what is shown stays.        *)
(***************************************************************************)
Crash == /\ writing' = [b \in Block |-> None]
         /\ UNCHANGED shown

Next == \/ \E b \in Block : Begin(b) \/ Disturb(b) \/ Finish(b)
        \/ Crash

Spec == Init /\ [][Next]_vars
=============================================================================
