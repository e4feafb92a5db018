----------------------------- MODULE TagStream ------------------------------
(***************************************************************************)
(* What the sequential writer of a tree promises: memory reservations,     *)
(* then tags, then the end; each accepted call appends one of them and no  *)
(* call changes what earlier calls have written.                           *)
(***************************************************************************)
EXTENDS Naturals, Sequences

CONSTANT Tags    (* what the caller may write                             *)

VARIABLES
  phase,       (* what is written                                          *)
  reserves,    (* the number of reservations                               *)
  tags,        (* what a reader will find                                  *)
  answer       (* to the last call                                         *)

vars == <<phase, reserves, tags, answer>>

Init == phase \in {"none", "memrsv"} /\ reserves = 0 /\ tags = <<>>

Reserve ==
  /\ phase = "memrsv" /\ answer' = "none"
  /\ reserves' = reserves + 1
  /\ UNCHANGED <<phase, tags>>

BeginTags ==
  /\ phase = "memrsv" /\ answer' = "none"
  /\ phase' = "struct"
  /\ UNCHANGED <<reserves, tags>>

Write ==
  /\ phase = "struct" /\ answer' = "none"
  /\ \E t \in Tags : tags' = Append(tags, t)
  /\ UNCHANGED <<phase, reserves>>

Complete ==
  /\ phase = "struct" /\ answer' = "none"
  /\ phase' = "complete"
  /\ tags' = Append(tags, [tag |-> "END"])
  /\ UNCHANGED reserves

(* A call in another state, or without room; a move.                       *)
KeepAll == UNCHANGED <<phase, reserves, tags>>

Next == KeepAll \/ Reserve \/ BeginTags \/ Write \/ Complete

Spec == Init /\ [][Next]_vars
=============================================================================
