------------------------------ MODULE Transfer ------------------------------
(***************************************************************************)
(* What a block request promises its caller, without registers, drives or  *)
(* interrupts: it is accepted when none was accepted before, fills the     *)
(* buffer sector by sector in order, ends at most once, and ends well only *)
(* when every sector was moved.  It may fail at any time; whether it ends  *)
(* at all is not part of this contract.                                    *)
(***************************************************************************)
EXTENDS Integers

CONSTANTS
  Requests,     \* the requests that can be made: records with a count

  Allowed(_, _, _) \* Allowed(r, i, c): may cell i hold c once request r moved it?

VARIABLES phase, request, moved, mem

vars == <<phase, request, moved, mem>>

Init == phase = "idle" /\ moved = 0

Accept ==
  /\ phase = "idle" /\ phase' = "active"
  /\ request' \in Requests
  /\ moved' = 0
  /\ UNCHANGED mem

Move ==
  /\ phase = "active" /\ moved < request.count
  /\ Allowed(request, moved, mem'[moved])
  /\ mem' = [mem EXCEPT ![moved] = mem'[moved]]
  /\ moved' = moved + 1
  /\ UNCHANGED <<phase, request>>

Complete ==
  /\ phase = "active" /\ moved = request.count
  /\ phase' = "done"
  /\ UNCHANGED <<request, moved, mem>>

Fail ==
  /\ phase = "active"
  /\ phase' = "failed"
  /\ UNCHANGED <<request, moved, mem>>

Next == Accept \/ Move \/ Complete \/ Fail

Spec == Init /\ [][Next]_vars
=============================================================================
