----------------------------- MODULE MatchFlow -----------------------------
(***************************************************************************)
(* What a match promises its players, whatever they do: the phases of      *)
(* README.md in their order, round after round.  A match leaves a phase    *)
(* for the next one or is broken off; it never skips the titles or the     *)
(* vote, never repeats or skips a round, and plays TotalRounds of them     *)
(* unless it is broken off.                                                *)
(***************************************************************************)
EXTENDS Naturals

CONSTANT TotalRounds

VARIABLES phase, roundNumber

flowVars == <<phase, roundNumber>>

Init == phase = "LOBBY" /\ roundNumber = 0

Open(n) == phase' = "PROMPT" /\ roundNumber' = n

\* A first match, or another one once the last is over.
StartMatch == phase \in {"LOBBY", "OVER"} /\ Open(1)

Succ == [PROMPT |-> "REWRITE", REWRITE |-> "VOTING", VOTING |-> "RESULTS"]

NextPhase ==
    /\ phase \in DOMAIN Succ
    /\ phase' = Succ[phase]
    /\ UNCHANGED roundNumber

NextRound ==
    /\ phase = "RESULTS" /\ roundNumber < TotalRounds
    /\ Open(roundNumber + 1)

\* The last round is over, or the match is broken off.
End ==
    /\ phase \notin {"LOBBY", "OVER"}
    /\ phase' = "OVER"
    /\ UNCHANGED roundNumber

\* A round that loses its players while it is being opened.
OpenAndEnd ==
    /\ \/ phase \in {"LOBBY", "OVER"} /\ roundNumber' = 1
       \/ phase = "RESULTS" /\ roundNumber < TotalRounds /\ roundNumber' = roundNumber + 1
    /\ phase' = "OVER"

\* Another match that could not start leaves the server in its lobby.
BackToLobby == phase = "OVER" /\ phase' = "LOBBY" /\ roundNumber' = 0

Next == StartMatch \/ NextPhase \/ NextRound \/ End \/ OpenAndEnd \/ BackToLobby

Spec == Init /\ [][Next]_flowVars
============================================================================
