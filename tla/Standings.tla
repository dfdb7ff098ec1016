----------------------------- MODULE Standings ------------------------------
(***************************************************************************)
(* game_view.c: the scoreboard and, after the last round, the winners, as  *)
(* the loops that compute them between broadcasts.                         *)
(*                                                                         *)
(* Sending a line may find connections broken, and their players are no    *)
(* longer connected when the next line is composed.  Scores do not change: *)
(* a player who leaves a running match keeps name and score.  The label's  *)
(* and the lines' wording is left out.                                     *)
(***************************************************************************)
EXTENDS Protocol, Integers

CONSTANT Score    \* the scores a player may have
ASSUME ScoreAssumption == Score \subseteq Nat

VARIABLES
    score,       \* of each player record
    connected,   \* the players for whom game_view_player_is_active holds
    final,       \* whether the winners are to follow
    stage,       \* the loop that runs
    i, j,        \* its loop variables
    order,       \* player_order
    best,        \* best_score
    count,       \* winner_count
    named        \* the winners named so far

boardVars == <<score, connected, final, stage, i, j, order, best, count, named>>

BoardInit ==
    /\ score \in [Slot -> Score]
    /\ connected \in SUBSET Slot
    /\ final \in BOOLEAN
    /\ stage = "label" /\ i = 1 /\ j = 1
    /\ order = <<>> /\ best = -1 /\ count = 0 /\ named = <<>>

Goto(s) == stage' = s /\ i' = 1

\* Lines are sent to everybody, and some turn out to have gone.
Send == connected' \in SUBSET connected

Label ==
    /\ stage = "label"
    /\ Send /\ Goto("collect")
    /\ UNCHANGED <<score, final, j, order, best, count, named>>

\* Mistake: one record too many is looked at.
CollectPast ==
    /\ stage = "collect" /\ i <= MaxPlayers + 1
    /\ order' = IF i \in connected THEN Append(order, i) ELSE order
    /\ i' = i + 1
    /\ UNCHANGED <<score, connected, final, stage, j, best, count, named>>

Collect ==
    /\ stage = "collect" /\ i <= MaxPlayers
    /\ order' = IF i \in connected THEN Append(order, i) ELSE order
    /\ i' = i + 1
    /\ UNCHANGED <<score, connected, final, stage, j, best, count, named>>

Collected ==
    /\ stage = "collect" /\ i > MaxPlayers
    /\ Goto("sort") /\ j' = 2
    /\ UNCHANGED <<score, connected, final, order, best, count, named>>

Exchanged(o, a, b) == [o EXCEPT ![a] = o[b], ![b] = o[a]]

\* Whoever is better than the player on place i takes the place.
Compare ==
    /\ stage = "sort" /\ i <= Len(order) /\ j <= Len(order)
    /\ order' = IF score[order[j]] > score[order[i]]
                THEN Exchanged(order, i, j) ELSE order
    /\ j' = j + 1
    /\ UNCHANGED <<score, connected, final, stage, i, best, count, named>>

\* Mistake: the first comparison of each place is skipped.
NextPlaceSkipping ==
    /\ stage = "sort" /\ i <= Len(order) /\ j > Len(order)
    /\ i' = i + 1 /\ j' = i + 3
    /\ UNCHANGED <<score, connected, final, stage, order, best, count, named>>

NextPlace ==
    /\ stage = "sort" /\ i <= Len(order) /\ j > Len(order)
    /\ i' = i + 1 /\ j' = i + 2
    /\ UNCHANGED <<score, connected, final, stage, order, best, count, named>>

Sorted ==
    /\ stage = "sort" /\ i > Len(order)
    /\ Goto("show")
    /\ UNCHANGED <<score, connected, final, j, order, best, count, named>>

\* The line of place i.
Show ==
    /\ stage = "show" /\ i <= Len(order)
    /\ Send /\ i' = i + 1
    /\ UNCHANGED <<score, final, stage, j, order, best, count, named>>

Shown ==
    /\ stage = "show" /\ i > Len(order)
    /\ Goto(IF final THEN "best" ELSE "done")
    /\ UNCHANGED <<score, connected, final, j, order, best, count, named>>

ScanBest ==
    /\ stage = "best" /\ i <= MaxPlayers
    /\ best' = IF i \in connected /\ score[i] > best THEN score[i] ELSE best
    /\ i' = i + 1
    /\ UNCHANGED <<score, connected, final, stage, j, order, count, named>>

BestKnown ==
    /\ stage = "best" /\ i > MaxPlayers
    /\ Goto("count")
    /\ UNCHANGED <<score, connected, final, j, order, best, count, named>>

\* Mistake: those who have left are looked at too.
IsWinnerGone(p) == score[p] = best

IsWinner(p) == p \in connected /\ score[p] = best

CountWinner ==
    /\ stage = "count" /\ i <= MaxPlayers
    /\ count' = IF IsWinner(i) THEN count + 1 ELSE count
    /\ i' = i + 1
    /\ UNCHANGED <<score, connected, final, stage, j, order, best, named>>

Counted ==
    /\ stage = "count" /\ i > MaxPlayers
    /\ Goto("name")
    /\ UNCHANGED <<score, connected, final, j, order, best, count, named>>

NameWinner ==
    /\ stage = "name" /\ i <= MaxPlayers
    /\ named' = IF IsWinner(i) THEN Append(named, i) ELSE named
    /\ i' = i + 1
    /\ UNCHANGED <<score, connected, final, stage, j, order, best, count>>

\* The line is complete: "Final winner" or, if count > 1, "Co-winners".
Announce ==
    /\ stage = "name" /\ i > MaxPlayers
    /\ Send /\ Goto("done")
    /\ UNCHANGED <<score, final, j, order, best, count, named>>

BoardNext ==
    \/ Label \/ Collect \/ Collected \/ Compare \/ NextPlace \/ Sorted
    \/ Show \/ Shown
    \/ ScanBest \/ BestKnown \/ CountWinner \/ Counted \/ NameWinner \/ Announce

BoardSpec == BoardInit /\ [][BoardNext]_boardVars

----------------------------------------------------------------------------
(* Properties.                                                             *)

BoardTypeOK ==
    /\ score \in [Slot -> Score]
    /\ connected \subseteq Slot
    /\ final \in BOOLEAN
    /\ stage \in {"label", "collect", "sort", "show", "best", "count", "name", "done"}
    /\ i \in 1 .. MaxPlayers + 1 /\ j \in 1 .. MaxPlayers + 2
    /\ order \in Seq(Slot) /\ Len(order) <= MaxPlayers
    /\ best \in Score \cup {-1}
    /\ count \in 0 .. MaxPlayers
    /\ named \in Seq(Slot)

Later == {"show", "best", "count", "name", "done"}

\* From the first line shown on, whoever leaves meanwhile: nobody has two
\* places, nobody who is connected has none, and no place is above a better
\* score.
Ranked ==
    stage \in Later =>
      /\ \A a, b \in 1 .. Len(order) : order[a] = order[b] => a = b
      /\ \A p \in connected : \E a \in 1 .. Len(order) : order[a] = p
      /\ \A a, b \in 1 .. Len(order) :
           a < b => score[order[a]] >= score[order[b]]

\* When the winners are announced they are those of the connected players
\* whom no connected player beats, the line says "Co-winners" only if it
\* names several, and the scoreboard shown before has none of the other
\* connected players above them.
WinnersLead ==
    stage = "name" /\ i > MaxPlayers =>
      LET winners == {named[n] : n \in 1 .. Len(named)} IN
      /\ winners = {p \in connected : \A q \in connected : score[p] >= score[q]}
      /\ count = Len(named)
      /\ \A a, b \in 1 .. Len(order) :
           order[a] \in winners /\ order[b] \in connected \ winners => a < b
=============================================================================
