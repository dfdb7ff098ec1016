------------------------------- MODULE Server -------------------------------
(***************************************************************************)
(* server.c: the connections, the timers and the handlers that drive the   *)
(* game.                                                                   *)
(*                                                                         *)
(* server_state_t is one record, and a function of server.c that may       *)
(* change it is an operator from a state to the set of states it may       *)
(* leave: rand() and the prompt bank leave several, and so does sending.   *)
(* A send to a connection that is going bad (its peer gone, or its output  *)
(* buffer full) may fail, and a failed send removes the client right       *)
(* there, in the middle of whatever the server was doing; the removal      *)
(* broadcasts in its turn.  Consecutive sends with no state change between *)
(* them are one Broadcast, which already lets any of them fail; what this  *)
(* leaves out are some orders in which several bad connections fail.       *)
(*                                                                         *)
(* Lines arrive whole; bytes, buffers and texts are left out.  Time is two *)
(* clocks, the pending action's and the phase's, that run and become due.  *)
(***************************************************************************)
EXTENDS Game

CONSTANTS
    MaxId,       \* bound: player ids handed out
    MaxFlaky     \* bound: connections going bad at a time

ASSUME MaxIdAssumption == MaxId \in Nat /\ MaxFlaky \in Nat

VARIABLE server

vars == <<server>>

Prompts == {"QUESTION_PROMPT", "TITLE_PROMPT", "VOTING_PROMPT"}
Boards  == {"ROUND_RESULTS", "SCOREBOARD", "FINAL_SCOREBOARD"}
Pending == Prompts \cup Boards \cup {"NONE", "GAME_OVER", "REPLAY_START"}

ServerState ==
    [game     : GameState,
     open     : SUBSET Slot,         \* client slots in use
     cid      : [Slot -> Nat],       \* client's player_id, 0 before its JOIN
     flaky    : SUBSET Slot,         \* connections on which sends may fail
     nextId   : Nat,
     pending  : Pending,
     clock    : Timer,               \* pending_action_at
     shutdown : BOOLEAN,             \* shutdown_requested
     running  : BOOLEAN]             \* the select loop has not returned

Boot ==
    [game     |-> GameReset,
     open     |-> {},
     cid      |-> [c \in Slot |-> 0],
     flaky    |-> {},
     nextId   |-> 1,
     pending  |-> "NONE",
     clock    |-> "off",
     shutdown |-> FALSE,
     running  |-> TRUE]

\* A call after a call: F in every state the first one may leave.
Then(S, F(_)) == UNION {F(s) : s \in S}

----------------------------------------------------------------------------
(* Timers.                                                                 *)

Schedule(s, action) == [s EXCEPT !.pending = action, !.clock = "running"]

ClearPending(s) == [s EXCEPT !.pending = "NONE", !.clock = "off"]

CancelCountdown(s) == IF s.pending = "REPLAY_START" THEN ClearPending(s) ELSE s

----------------------------------------------------------------------------
(* Sending.  What a failed send leads to is a parameter: removal[t][c] is   *)
(* the set of states that the removal of client c from state t may leave.  *)

\* Clients are served in slot order; the joined ones get the message.
BroadcastBy(removal, s) ==
    LET served[c \in 0 .. MaxPlayers] ==
          IF c = 0 THEN {s}
          ELSE UNION {{t} \cup (IF c \in t.open \cap t.flaky /\ t.cid[c] > 0
                                THEN removal[t][c] ELSE {}) : t \in served[c - 1]}
    IN  served[MaxPlayers]

\* A phase that has just begun is announced and its prompts are scheduled.
HandlePhaseChangeBy(removal, s) ==
    CASE s.game.phase = "REWRITE" ->
           {Schedule(t, "TITLE_PROMPT") : t \in BroadcastBy(removal, s)}
      [] s.game.phase = "VOTING" ->
           {Schedule(t, "VOTING_PROMPT") : t \in BroadcastBy(removal, s)}
      [] s.game.phase = "RESULTS" -> {Schedule(s, "ROUND_RESULTS")}
      [] OTHER -> {s}

AdvanceIfReadyBy(removal, s) ==
    UNION {LET t == [s EXCEPT !.game = g]
           IN  IF g.phase = s.game.phase THEN {t} ELSE HandlePhaseChangeBy(removal, t) :
             g \in AdvancePhaseIfReady(s.game)}

----------------------------------------------------------------------------
(* Starting and restarting.                                                *)

\* What follows game_start: an event if it failed, else the round's intro and
\* the wait for its questions.
AfterStartBy(removal, s) ==
    IF s.game.phase = "LOBBY" THEN BroadcastBy(removal, s)
    ELSE {Schedule(t, "QUESTION_PROMPT") : t \in BroadcastBy(removal, s)}

TryStartReplayBy(removal, s) ==
    IF ReplayCount(s.game) < MinPlayers
    THEN BroadcastBy(removal, s)
    ELSE UNION {AfterStartBy(removal, [s EXCEPT !.game = g]) :
                  g \in Start(PrepareReplay(s.game))}

CloseReplayLobbyBy(removal, s) ==
    {[t EXCEPT !.shutdown = TRUE] : t \in BroadcastBy(removal, CancelCountdown(s))}

\* Mistakes: a countdown that has lost its players runs on; the lobby closes
\* while just enough players are left.
ReplayUncancelled(removal, s) ==
    IF s.game.phase # "OVER" THEN {s}
    ELSE IF PossibleReplayCount(s.game) < MinPlayers THEN CloseReplayLobbyBy(removal, s)
    ELSE IF ReplayCount(s.game) < MinPlayers THEN {s}
    ELSE IF AllWantReplay(s.game) THEN TryStartReplayBy(removal, CancelCountdown(s))
    ELSE IF s.pending = "REPLAY_START" THEN {s}
    ELSE {Schedule(t, "REPLAY_START") : t \in BroadcastBy(removal, s)}

ReplayClosedEarly(removal, s) ==
    IF s.game.phase # "OVER" THEN {s}
    ELSE IF PossibleReplayCount(s.game) <= MinPlayers THEN CloseReplayLobbyBy(removal, s)
    ELSE IF ReplayCount(s.game) < MinPlayers THEN {CancelCountdown(s)}
    ELSE IF AllWantReplay(s.game) THEN TryStartReplayBy(removal, CancelCountdown(s))
    ELSE IF s.pending = "REPLAY_START" THEN {s}
    ELSE {Schedule(t, "REPLAY_START") : t \in BroadcastBy(removal, s)}

MaybeScheduleReplayBy(removal, s) ==
    IF s.game.phase # "OVER" THEN {s}
    ELSE IF PossibleReplayCount(s.game) < MinPlayers THEN CloseReplayLobbyBy(removal, s)
    ELSE IF ReplayCount(s.game) < MinPlayers THEN {CancelCountdown(s)}
    ELSE IF AllWantReplay(s.game) THEN TryStartReplayBy(removal, CancelCountdown(s))
    ELSE IF s.pending = "REPLAY_START" THEN {s}
    ELSE {Schedule(t, "REPLAY_START") : t \in BroadcastBy(removal, s)}

----------------------------------------------------------------------------
(* Removing.                                                               *)

\* Mistake: the slot keeps its player_id.
CloseSlotKeepingId(s, c) == [s EXCEPT !.open = @ \ {c}, !.flaky = @ \ {c}]

\* Mistake: the player_id is reset as the descriptor is.
CloseSlotMinusOne(s, c) ==
    [s EXCEPT !.open = @ \ {c}, !.flaky = @ \ {c}, !.cid[c] = -1]

\* server_reset_client_slot
CloseSlot(s, c) ==
    [s EXCEPT !.open = @ \ {c}, !.flaky = @ \ {c}, !.cid[c] = 0]

\* Mistake: those left behind in the play-again lobby are not looked at.
RemoveClientOnly(removal, s, c) ==
    LET id     == s.cid[c]
        before == s.game.phase
        t      == [CloseSlot(s, c) EXCEPT !.game = HandleDisconnect(@, id)]
    IN  IF id = 0 THEN {CloseSlot(s, c)}
        ELSE IF before \in InGame /\ t.game.phase = "OVER"
        THEN BroadcastBy(removal, ClearPending(t))
        ELSE IF before = "OVER" THEN BroadcastBy(removal, t)
        ELSE AdvanceIfReadyBy(removal, t)

\* The slot is free before the game hears of it; what follows depends on the
\* phase the player left in.
RemoveClientBy(removal, s, c) ==
    LET id     == s.cid[c]
        before == s.game.phase
        t      == [CloseSlot(s, c) EXCEPT !.game = HandleDisconnect(@, id)]
        told   == IF SlotOf(t.game, id) = NoSlot THEN {t} ELSE BroadcastBy(removal, t)
    IN  IF id = 0 THEN {CloseSlot(s, c)}
        ELSE IF before \in InGame /\ t.game.phase = "OVER"
        THEN BroadcastBy(removal, ClearPending(t))
        ELSE IF before = "OVER"
        THEN Then(Then(told, LAMBDA u : MaybeScheduleReplayBy(removal, u)),
                  LAMBDA u : AdvanceIfReadyBy(removal, u))
        ELSE AdvanceIfReadyBy(removal, t)

\* A removal within a removal, n deep.  Each one first frees a slot that was
\* open, so that more than MaxPlayers are never within each other.
Removals[n \in 0 .. MaxPlayers] ==
    [s \in ServerState |-> [c \in Slot |->
       IF n = 0 THEN {} ELSE RemoveClientBy(Removals[n - 1], s, c)]]

Removal == Removals[MaxPlayers]

\* server_remove_client, and what else sends, as its other callers see it.
RemoveClient(s, c) == RemoveClientBy(Removal, s, c)
Broadcast(s) == BroadcastBy(Removal, s)
HandlePhaseChange(s) == HandlePhaseChangeBy(Removal, s)
AdvanceIfReady(s) == AdvanceIfReadyBy(Removal, s)
AfterStart(s) == AfterStartBy(Removal, s)
TryStartReplay(s) == TryStartReplayBy(Removal, s)
MaybeScheduleReplay(s) == MaybeScheduleReplayBy(Removal, s)

\* One message to one client: a closed slot has no socket to send on.
SendTo(s, c) ==
    IF c \notin s.open THEN RemoveClient(s, c)
    ELSE {s} \cup (IF c \in s.flaky THEN RemoveClient(s, c) ELSE {})

MaybeStartGame(s) ==
    IF CanStart(s.game)
    THEN UNION {AfterStart([s EXCEPT !.game = g]) : g \in Start(s.game)}
    ELSE {s}

----------------------------------------------------------------------------
(* Pending actions: what is shown when the wait is over, and what then.    *)

\* Banner, then the clock, then the prompts.
QuestionPrompt(s) ==
    Then({[t EXCEPT !.game = StartWindow(@, "PROMPT")] : t \in Broadcast(s)},
         Broadcast)

TitlePrompt(s) == Broadcast([s EXCEPT !.game = StartWindow(@, "REWRITE")])

\* Mistake: the ballot is shown and its clock never starts.
VotingPromptOnly(s) == Broadcast(s)

VotingPrompt(s) ==
    {[t EXCEPT !.game = StartWindow(@, "VOTING")] : t \in Broadcast(s)}

RoundResults(s) ==
    {Schedule(t, IF IsFinalRound(t.game) THEN "FINAL_SCOREBOARD"
                 ELSE "SCOREBOARD") : t \in Broadcast(s)}

\* The next round, or the end of the game if it cannot be set up.
NextRoundOrEnd(s) ==
    UNION {LET t == [s EXCEPT !.game = g]
           IN  IF s.game.phase = "RESULTS" /\ g.phase # "RESULTS"
               THEN {Schedule(u, "QUESTION_PROMPT") : u \in Broadcast(t)}
               ELSE {[u EXCEPT !.game = EndGame(@)] : u \in Broadcast(t)} :
             g \in FinishRound(s.game)}

Scoreboard(s) == Then(Broadcast(s), NextRoundOrEnd)

FinalScoreboard(s) ==
    {Schedule(u, "GAME_OVER") :
       u \in Then(UNION {{[t EXCEPT !.game = g] : g \in FinishRound(t.game)} :
                           t \in Broadcast(s)},
                  Broadcast)}

RunPending(s) ==
    LET t == ClearPending(s)
    IN  CASE s.pending = "QUESTION_PROMPT"  -> QuestionPrompt(t)
          [] s.pending = "TITLE_PROMPT"     -> TitlePrompt(t)
          [] s.pending = "VOTING_PROMPT"    -> VotingPrompt(t)
          [] s.pending = "ROUND_RESULTS"    -> RoundResults(t)
          [] s.pending = "SCOREBOARD"       -> Scoreboard(t)
          [] s.pending = "FINAL_SCOREBOARD" -> FinalScoreboard(t)
          [] s.pending = "GAME_OVER"        -> Broadcast(t)
          [] s.pending = "REPLAY_START"     -> TryStartReplay(t)

RunPendingIfDue(s) ==
    IF s.pending # "NONE" /\ s.clock # "running" THEN RunPending(s) ELSE {s}

\* Mistake: the phase a timeout leads to is not announced.
EnforceDeadlineOnly(s) ==
    UNION {Broadcast([s EXCEPT !.game = g]) : g \in ApplyPhaseTimeout(s.game)}

\* The engine has moved on by the time the event goes out; the new phase is
\* announced even if removals have moved it on again.
EnforceDeadline(s) ==
    IF PhaseDeadline(s.game) # "due" THEN {s}
    ELSE UNION {Then(Broadcast([s EXCEPT !.game = g]),
                     LAMBDA t : IF t.game.phase # s.game.phase
                                THEN HandlePhaseChange(t) ELSE {t}) :
                  g \in ApplyPhaseTimeout(s.game)}

\* Both timers, in this order, before every line and in every idle select().
RunTimers(s) == Then(RunPendingIfDue(s), EnforceDeadline)

----------------------------------------------------------------------------
(* Lines.                                                                  *)

\* A malformed JOIN closes the connection; any other line the server cannot
\* use is answered with an error.
Message ==
    [type : {"JOIN"}, name : Name]
    \cup [type : {"REPLAY"}, wish : BOOLEAN]
    \cup [type : {"VOTE"}, option : Slot]
    \cup [type : {"READY", "SUBMIT", "TITLE", "BAD_JOIN", "OTHER"}]

HandleJoinLine(s, c, n) ==
    LET id     == IF s.cid[c] = 0 THEN s.nextId ELSE s.cid[c]
        seated == [s EXCEPT !.game = HandleJoin(@, id, n),
                            !.cid[c] = id,
                            !.nextId = IF id = @ THEN @ + 1 ELSE @]
    IN  CASE JoinResult(s.game, id, n) = "ok" ->
               Then(SendTo(seated, c),
                    LAMBDA t : IF t.cid[c] = id THEN Broadcast(t) ELSE {t})
          [] JoinResult(s.game, id, n) = "invalid_state" -> RemoveClient(s, c)
          [] OTHER -> SendTo(s, c)

HandleReadyLine(s, c) ==
    IF s.cid[c] = 0 \/ ~CanReady(s.game, s.cid[c]) THEN SendTo(s, c)
    ELSE Then(Broadcast([s EXCEPT !.game = HandleReady(@, s.cid[c])]),
              MaybeStartGame)

HandleReplayLine(s, c, wish) ==
    IF s.cid[c] = 0 \/ ~CanChooseReplay(s.game, s.cid[c]) THEN SendTo(s, c)
    ELSE Then(Broadcast([s EXCEPT !.game = HandleReplayChoice(@, s.cid[c], wish)]),
              MaybeScheduleReplay)

\* An accepted answer, title or vote, or the error reply to another.
Answered(s, c, g) ==
    IF g = s.game THEN SendTo(s, c) ELSE AdvanceIfReady([s EXCEPT !.game = g])

Dispatch(s, c, m) ==
    CASE m.type = "JOIN"   -> HandleJoinLine(s, c, m.name)
      [] m.type = "READY"  -> HandleReadyLine(s, c)
      [] m.type = "REPLAY" -> HandleReplayLine(s, c, m.wish)
      [] m.type = "SUBMIT" -> Answered(s, c, HandleSubmit(s.game, s.cid[c]))
      [] m.type = "TITLE"  -> Answered(s, c, HandleRewrite(s.game, s.cid[c]))
      [] m.type = "VOTE"   ->
           Answered(s, c, HandleVote(s.game, s.cid[c],
                                     VoteTargetId(s.game, m.option)))
      [] m.type = "BAD_JOIN" -> RemoveClient(s, c)
      [] m.type = "OTHER"  -> SendTo(s, c)

\* Mistake: the timers run after the line.
HandleLineFirst(s, c, m) == Then(Dispatch(s, c, m), RunTimers)

HandleLine(s, c, m) == Then(RunTimers(s), LAMBDA t : Dispatch(t, c, m))

----------------------------------------------------------------------------
(* The select loop.                                                        *)

Init == server = Boot

\* Mistake: a full table is not noticed.
AcceptFull ==
    /\ server.running /\ ~server.shutdown
    /\ server.game.phase = "LOBBY"
    /\ server' = [server EXCEPT !.open = @ \cup {FirstSlot(Slot \ @)}]

\* A connection is taken only in the lobby and while a slot is free; a
\* refused one leaves no trace.
Accept ==
    /\ server.running /\ ~server.shutdown
    /\ server.game.phase = "LOBBY" /\ server.open # Slot
    /\ server' = [server EXCEPT !.open = @ \cup {FirstSlot(Slot \ @)}]

\* After shutdown_requested the pass over the ready clients may still handle
\* lines and hang-ups before the loop returns.
Line(c, m) ==
    /\ server.running /\ c \in server.open
    /\ m.type = "JOIN" => server.nextId <= MaxId
    /\ server' \in HandleLine(server, c, m)

\* End of file, a socket error, an invalid byte or an overlong line.
HangUp(c) ==
    /\ server.running /\ c \in server.open
    /\ server' \in RemoveClient(server, c)

Idle ==
    /\ server.running /\ ~server.shutdown
    /\ \/ server.pending # "NONE" /\ server.clock = "due"
       \/ PhaseDeadline(server.game) = "due"
    /\ server' \in RunTimers(server)

Stop ==
    /\ server.running /\ server.shutdown
    /\ server' = [server EXCEPT !.running = FALSE]

\* The environment: time passes, connections go bad.
PendingComesDue ==
    /\ server.running /\ server.clock = "running"
    /\ server' = [server EXCEPT !.clock = "due"]

DeadlineComesDue ==
    /\ server.running /\ PhaseDeadline(server.game) = "running"
    /\ server' = [server EXCEPT !.game = SetDeadline(@, server.game.phase, "due")]

GoBad(c) ==
    /\ server.running /\ c \in server.open \ server.flaky
    /\ Cardinality(server.flaky) < MaxFlaky
    /\ server' = [server EXCEPT !.flaky = @ \cup {c}]

Next ==
    \/ Accept \/ Idle \/ Stop \/ PendingComesDue \/ DeadlineComesDue
    \/ \E c \in Slot : HangUp(c) \/ GoBad(c)
    \/ \E c \in Slot, m \in Message : Line(c, m)

Spec == Init /\ [][Next]_vars

----------------------------------------------------------------------------
(* Properties.                                                             *)

TypeOK == server \in ServerState

g0 == server.game

\* What may be waiting in each phase of a match while its clock is not set.
Stage(phase) ==
    CASE phase = "PROMPT"  -> {"QUESTION_PROMPT"}
      [] phase = "REWRITE" -> {"TITLE_PROMPT"}
      [] phase = "VOTING"  -> {"VOTING_PROMPT"}
      [] phase = "RESULTS" -> Boards

\* A running match always has one clock that will move it on, and it is the
\* right one: the phase's own pending action or, once that has run, the
\* phase's deadline.  Nothing from an earlier phase, round or match is left
\* to fire in its place.
OneClock ==
    server.running /\ g0.phase \in InGame =>
      IF PhaseDeadline(g0) = "off"
      THEN server.pending \in Stage(g0.phase) /\ server.clock # "off"
      ELSE server.pending = "NONE"

\* The same once the round's answers are in, which holds without a condition:
\* whichever sends fail, and however often the match is played again.
OneClockOnceAnswered == g0.phase # "PROMPT" => OneClock

\* README.md, Gameplay: "Each player receives a prompt and submits an
\* answer."  The questions of a round that has begun are on their way until
\* they have been shown and the answer window is open.
QuestionsComing ==
    server.running /\ g0.phase = "PROMPT" /\ PhaseDeadline(g0) = "off" =>
        server.pending = "QUESTION_PROMPT"

\* The client table and the player table agree: a connected player is one
\* open connection's, and a seated player has not lost its connection
\* outside a match.
TablesAgree ==
    /\ \A p \in g0.connected :
         Cardinality({c \in server.open : server.cid[c] = g0.pid[p]}) = 1
    /\ \A c, d \in server.open :
         server.cid[c] = server.cid[d] /\ server.cid[c] # 0 => c = d
    /\ \A c \in Slot \ server.open : server.cid[c] = 0
    /\ g0.phase = "LOBBY" => g0.joined \subseteq g0.connected

\* Once the match is over, whoever wants to play again is not kept waiting:
\* as soon as enough do, the countdown runs (and if nobody else is connected
\* they are already playing).
EnoughWantCountdown ==
    server.running /\ ~server.shutdown /\ g0.phase = "OVER"
      /\ ReplayCount(g0) >= MinPlayers =>
        /\ server.pending = "REPLAY_START" /\ server.clock # "off"
        /\ ~AllWantReplay(g0)

\* The countdown never outlives the wish to play again: when too few are left
\* who want to, it has been cancelled.
CountdownWanted ==
    server.pending = "REPLAY_START" =>
        g0.phase = "OVER" /\ ReplayCount(g0) >= MinPlayers

\* A vote that arrives after the deadline does not count, even if the server
\* reads it before it has noticed the deadline: the timers run before every
\* line, and by the time the vote is looked at the phase is over.
LateVotesDropped ==
    [][g0.phase = "VOTING" /\ PhaseDeadline(g0) = "due" =>
         server'.game.round.totals = g0.round.totals]_vars

\* Whose answer to the play-again question stands at no.
Refused(g) == {p \in g.connected : p \in g.decided \ g.wants}

Hopeless(g) == g.phase = "OVER" /\ PossibleReplayCount(g) < MinPlayers

\* Who has said no takes it back.
LateYes(c) ==
    /\ Line(c, [type |-> "REPLAY", wish |-> TRUE])
    /\ \E p \in Refused(g0) : g0.pid[p] = server.cid[c]

\* The server shuts down only after a match, when those who may still want to
\* play again have become too few: whoever leaves, refuses or is dropped by a
\* failed send.  The one exception is the line of a player who changes its
\* mind, if the timers that run before it have just closed the lobby.
ShutdownJustified ==
    [][server'.shutdown /\ ~server.shutdown =>
         Hopeless(server'.game) \/ \E c \in Slot : LateYes(c)]_vars

Flow == INSTANCE MatchFlow WITH phase <- g0.phase, roundNumber <- g0.roundNumber

\* The server as a whole plays matches in the order MatchFlow promises.
FlowSpec == Flow!Spec

\* Time passes, and the loop gets round to its timers: select() is given the
\* nearest deadline as its timeout, and every complete line runs them too.
Fairness ==
    /\ WF_vars(Idle) /\ WF_vars(Stop)
    /\ WF_vars(PendingComesDue) /\ WF_vars(DeadlineComesDue)

\* Whatever the players do or fail to do, a match comes to its end.
MatchEnds == (g0.phase \in InGame) ~> (g0.phase \notin InGame \/ ~server.running)

\* README.md, How to Start a Match, step 5: "Once enough players have joined
\* and everyone is ready, the game begins."
ReadyLobbyStarts == CanStart(g0) ~> (g0.phase # "LOBBY")
============================================================================
