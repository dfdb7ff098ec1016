------------------------------ MODULE MCMatch ------------------------------
(* Instances of Match for TLC. *)
EXTENDS Match, TLC

\* The names occur only as values, so they are interchangeable.
Symmetry == Permutations(Name)

\* Bound: everybody lets the clocks run out.
QuietMatch ==
    /\ game.phase = "PROMPT"  => game.round.submitted = {}
    /\ game.phase = "REWRITE" => game.round.rewritten = {}
    /\ game.phase = "VOTING"  => game.round.voted = {}

\* Bound: another match follows only one that nobody has left.
FullHouse == game.phase = "OVER" => game.connected = Slot
============================================================================
