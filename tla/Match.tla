------------------------------- MODULE Match -------------------------------
(***************************************************************************)
(* The match engine: game.c and round.c as server.c drives them.  An       *)
(* action is one handler's use of the engine: the game_* calls it makes    *)
(* for one line, one disconnect or one expired timer.  Which clock fires   *)
(* and when the prompts are shown is Server's subject; here a window may   *)
(* open, and time may pass, at any moment the phase allows.                *)
(***************************************************************************)
EXTENDS Game

CONSTANT MaxId        \* bound: player ids handed out

ASSUME MaxIdAssumption == MaxId \in Nat

VARIABLES
    game,             \* server->game
    live,             \* ids of the connections that have joined
    nextId            \* next_player_id

vars == <<game, live, nextId>>

Init == game = GameReset /\ live = {} /\ nextId = 1

\* Mistake: an id is used up by a player that has one.
JoinCounting(id, n) ==
    /\ id \in live \/ (id = nextId /\ Cardinality(live) < MaxPlayers)
    /\ id <= MaxId
    /\ JoinResult(game, id, n) = "ok"
    /\ game' = HandleJoin(game, id, n)
    /\ live' = live \cup {id}
    /\ nextId' = nextId + 1

\* A connection without an id is offered the next one, and keeps it only if
\* the game takes the player; the server seats MaxPlayers connections.
Join(id, n) ==
    /\ id \in live \/ (id = nextId /\ Cardinality(live) < MaxPlayers)
    /\ id <= MaxId
    /\ JoinResult(game, id, n) = "ok"
    /\ game' = HandleJoin(game, id, n)
    /\ live' = live \cup {id}
    /\ nextId' = IF id = nextId THEN nextId + 1 ELSE nextId

\* A READY that is accepted tries to start the game.
Ready(id) ==
    /\ id \in live
    /\ CanReady(game, id)
    /\ game' \in Start(HandleReady(game, id))
    /\ UNCHANGED <<live, nextId>>

\* An accepted answer, title or vote moves the phase on if it was the last.
Settle(taken) ==
    /\ taken # game
    /\ game' \in AdvancePhaseIfReady(taken)
    /\ UNCHANGED <<live, nextId>>

Submit(id) == id \in live /\ Settle(HandleSubmit(game, id))

Rewrite(id) == id \in live /\ Settle(HandleRewrite(game, id))

Vote(id, option) ==
    id \in live /\ Settle(HandleVote(game, id, VoteTargetId(game, option)))

\* The prompts of a phase are shown and its clock starts.
OpenWindow ==
    /\ game.phase \in Window /\ PhaseDeadline(game) = "off"
    /\ game' = StartWindow(game, game.phase)
    /\ UNCHANGED <<live, nextId>>

Elapse ==
    /\ PhaseDeadline(game) = "running"
    /\ game' = SetDeadline(game, game.phase, "due")
    /\ UNCHANGED <<live, nextId>>

Timeout ==
    /\ PhaseDeadline(game) = "due"
    /\ game' \in ApplyPhaseTimeout(game)
    /\ UNCHANGED <<live, nextId>>

\* After the scoreboard: the next round, the end of the game, or its end
\* because the next round could not be set up.
Finish ==
    /\ game.phase = "RESULTS"
    /\ \E g \in FinishRound(game) :
         game' = IF g.phase = "RESULTS" THEN EndGame(g) ELSE g
    /\ UNCHANGED <<live, nextId>>

\* Mistake: nobody looks whether the leaver was the last one awaited.
DisconnectOnly(id) ==
    /\ id \in live
    /\ game' = HandleDisconnect(game, id)
    /\ live' = live \ {id}
    /\ UNCHANGED nextId

Disconnect(id) ==
    /\ id \in live
    /\ game' \in AdvancePhaseIfReady(HandleDisconnect(game, id))
    /\ live' = live \ {id}
    /\ UNCHANGED nextId

ReplayChoice(id, wish) ==
    /\ id \in live
    /\ CanChooseReplay(game, id)
    /\ game' = HandleReplayChoice(game, id, wish)
    /\ UNCHANGED <<live, nextId>>

PlayAgain ==
    /\ game.phase = "OVER" /\ ReplayCount(game) >= MinPlayers
    /\ game' \in Start(PrepareReplay(game))
    /\ UNCHANGED <<live, nextId>>

Next ==
    \/ \E id \in live \cup {nextId}, n \in Name : Join(id, n)
    \/ \E id \in live : Ready(id) \/ Submit(id) \/ Rewrite(id) \/ Disconnect(id)
    \/ \E id \in live, option \in Slot : Vote(id, option)
    \/ \E id \in live, wish \in BOOLEAN : ReplayChoice(id, wish)
    \/ OpenWindow \/ Elapse \/ Timeout \/ Finish \/ PlayAgain

Spec == Init /\ [][Next]_vars

----------------------------------------------------------------------------
(* Properties.                                                             *)

TypeOK ==
    /\ game \in GameState
    /\ live \subseteq 1 .. MaxId
    /\ nextId \in 1 .. MaxId + 1

\* A running match never has fewer players than the minimum: a player may
\* leave in any phase, and the one whose leaving makes them too few ends the
\* match in the same step (game_handle_disconnect).
Quorum == game.phase \in InGame => JoinedCount(game) >= MinPlayers

\* The round's members are the players still here, and participant_count,
\* which is kept by hand as they come and go, is their number.
RoundMembers ==
    game.phase \in InGame =>
        /\ game.round.on
        /\ game.round.active = Joined(game)
        /\ game.round.participants = Cardinality(game.round.active)

\* Nobody titles its own entry, no two players title the same one, and no
\* player who still owes a title is without an entry to write it for, however
\* many have left since the titles were dealt.
TitlesDealt ==
    LET r == game.round
    IN  game.phase \in {"REWRITE", "VOTING", "RESULTS"} =>
          \A p \in r.active :
            /\ r.target[p] \in r.submitted \ {p}
            /\ \A q \in r.active : r.target[p] = r.target[q] => p = q

\* The votes counted for an entry are the votes cast for it, those of players
\* who have left since included; nobody counts twice, votes for an entry that
\* was not shown or for the one it titled.
VotesTally ==
    LET r == game.round
    IN  game.phase \in {"VOTING", "RESULTS"} =>
          /\ \A o \in Slot : r.totals[o] = Cardinality({v \in Slot : r.votedFor[v] = o})
          /\ \A v \in Slot : r.votedFor[v] # NoSlot =>
               v \in r.voted /\ r.votedFor[v] \in r.reveal
          /\ \A v \in r.active : r.votedFor[v] = NoSlot \/ r.votedFor[v] # r.target[v]

\* No phase outlives its last missing answer: whoever supplied it, left
\* without it or ran out of time, the match has moved on.
AnswerOutstanding ==
    LET r == game.round
    IN  /\ game.phase = "PROMPT"  => \E p \in r.active : p \notin r.submitted
        /\ game.phase = "REWRITE" => \E p \in r.active : p \notin r.rewritten
        /\ game.phase = "VOTING"  => \E p \in r.active : p \notin r.voted

\* In a running match the only clock that runs is the current phase's: no
\* deadline of an earlier phase or round is left behind.
OwnClockOnly ==
    game.phase \in InGame =>
        \A w \in Window : game.round.deadline[w] # "off" => w = game.phase

\* Seated players have different names (game_username_is_unique), whatever
\* matches they sat through before.
UniqueNames == \A p, q \in game.joined : game.name[p] = game.name[q] => p = q

\* A connection that has joined keeps its player's record until it leaves:
\* server.c:690, 750 and 797 call it a "server state error" if it has none.
RecordsKept == \A id \in live : SlotOf(game, id) # NoSlot

\* The player table and the connections agree: a connected slot belongs to
\* one live connection, and no two of them to the same one.
SeatsDistinct ==
    /\ \A p \in game.connected : game.pid[p] \in live
    /\ \A p, q \in game.connected : game.pid[p] = game.pid[q] => p = q

\* Every match starts level: when round 1 opens, nobody carries points, an
\* answer or a replay choice over from an earlier match.
LevelStart ==
    game.phase = "PROMPT" /\ game.roundNumber = 1 =>
        /\ \A p \in Slot : game.score[p] = 0
        /\ game.decided = {} /\ game.wants = {}

\* The running sums of a function on slots.
Sums(f) ==
    LET s[n \in 0 .. MaxPlayers] == IF n = 0 THEN 0 ELSE s[n - 1] + f[n]
    IN  s

TotalScore(g) == Sums(g.score)[MaxPlayers]
VotesCast(g)  == {v \in Slot : g.round.votedFor[v] # NoSlot}
VotesTitled(g) ==
    {v \in VotesCast(g) :
       \E w \in g.round.active : g.round.target[w] = g.round.votedFor[v]}

\* Points are handed out once a round, when the vote closes, and every vote
\* pays exactly one answer and, if its title's writer is still here, one
\* title.  No other step of a running match moves a score.
PointsPaidOnce ==
    [][game.phase \in InGame =>
         IF game.phase = "VOTING" /\ game'.phase = "RESULTS"
         THEN TotalScore(game') = TotalScore(game)
                + Cardinality(VotesCast(game')) * AnswerPoints
                + Cardinality(VotesTitled(game')) * TitlePoints
         ELSE game'.score = game.score]_vars

Flow == INSTANCE MatchFlow WITH phase <- game.phase, roundNumber <- game.roundNumber

\* The engine implements the flow of a match.
FlowSpec == Flow!Spec
============================================================================
