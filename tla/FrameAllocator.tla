--------------------------- MODULE FrameAllocator ---------------------------
(***************************************************************************)
(* What a frame allocator promises: once it has a pool, every frame it     *)
(* grants comes from the pool and belongs to nobody else, it refuses only  *)
(* when the whole pool is granted, and what is given back can be granted   *)
(* again.                                                                  *)
(***************************************************************************)
CONSTANTS Frames, NoFrame

VARIABLES
  ready, pool, owned,
  result, turn  \* the last answer, and a bit that flips with each answer

vars == <<ready, pool, owned, result, turn>>

Init == ready = FALSE /\ owned = {} /\ result = NoFrame /\ turn = FALSE

Open ==
  /\ ~ready /\ ready' = TRUE
  /\ pool' \in SUBSET Frames
  /\ UNCHANGED <<owned, result, turn>>

Grant ==
  /\ ready
  /\ \E f \in pool \ owned : owned' = owned \cup {f} /\ result' = f
  /\ turn' = ~turn
  /\ UNCHANGED <<ready, pool>>

Refuse ==
  /\ ready /\ pool \subseteq owned
  /\ result' = NoFrame
  /\ turn' = ~turn
  /\ UNCHANGED <<ready, pool, owned>>

GiveBack ==
  /\ \E f \in owned : owned' = owned \ {f}
  /\ UNCHANGED <<ready, pool, result, turn>>

Next == Open \/ Grant \/ Refuse \/ GiveBack

Spec == Init /\ [][Next]_vars
=============================================================================
