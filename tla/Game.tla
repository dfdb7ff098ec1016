------------------------------- MODULE Game --------------------------------
(***************************************************************************)
(* game.c: the authoritative game state, as operators on a game record.    *)
(*                                                                         *)
(* The record holds the player table (sets of slots for its booleans) and  *)
(* the current round.  An operator returns the new record, or the set of   *)
(* records the call may produce where rand() or the prompt bank decides.   *)
(* A call the code rejects leaves the record alone, so the result code     *)
(* shows as a guard (CanX) or, for JOIN, as JoinResult.                    *)
(***************************************************************************)
EXTENDS Round

CONSTANTS
    Name,          \* the user names players type
    NoName,        \* the empty user name
    MinPlayers,    \* PROTOCOL_MIN_PLAYERS
    TotalRounds,   \* GAME_TOTAL_ROUNDS
    Categories,    \* rounds that have a prompt category
    TitlePoints,   \* GAME_FIRST_TITLE_POINTS
    AnswerPoints   \* GAME_FIRST_ANSWER_POINTS

ASSUME NameAssumption == NoName \notin Name
ASSUME MinPlayersAssumption == MinPlayers \in Nat /\ MinPlayers >= 2
ASSUME RoundsAssumption ==
    /\ TotalRounds \in Nat \ {0} /\ Categories \in Nat
    /\ TotalRounds <= Categories
ASSUME PointsAssumption == TitlePoints \in Nat /\ AnswerPoints \in Nat

Phase == {"LOBBY", "PROMPT", "REWRITE", "VOTING", "RESULTS", "OVER"}
InGame == Phase \ {"LOBBY", "OVER"}

GameState ==
    [phase       : Phase,
     roundNumber : Nat,
     pid         : [Slot -> Nat],              \* player_id, 0 in an unused slot
     name        : [Slot -> Name \cup {NoName}],
     score       : [Slot -> Nat],
     connected   : SUBSET Slot,
     joined      : SUBSET Slot,
     ready       : SUBSET Slot,
     decided     : SUBSET Slot,                \* replay_decided
     wants       : SUBSET Slot,                \* wants_replay
     round       : RoundState]

GameReset ==
    [phase       |-> "LOBBY",
     roundNumber |-> 0,
     pid         |-> [p \in Slot |-> 0],
     name        |-> [p \in Slot |-> NoName],
     score       |-> [p \in Slot |-> 0],
     connected   |-> {},
     joined      |-> {},
     ready       |-> {},
     decided     |-> {},
     wants       |-> {},
     round       |-> RoundReset]

----------------------------------------------------------------------------
(* Queries.                                                                *)

Joined(g) == g.joined \cap g.connected
JoinedCount(g) == Cardinality(Joined(g))
ReplayCount(g) == Cardinality(g.connected \cap g.wants)
PossibleReplayCount(g) ==
    Cardinality({p \in g.connected : p \notin g.decided \/ p \in g.wants})
AllWantReplay(g) ==
    g.connected # {} /\ g.connected \subseteq (g.decided \cap g.wants)

CanStart(g) ==
    /\ g.phase = "LOBBY"
    /\ JoinedCount(g) >= MinPlayers /\ JoinedCount(g) <= MaxPlayers
    /\ Cardinality(Joined(g) \cap g.ready) = JoinedCount(g)

IsFinalRound(g) == g.roundNumber >= TotalRounds

\* The first slot of S, NoSlot if S has none.
FirstSlot(S) ==
    IF \E p \in S : \A q \in S : p <= q
    THEN CHOOSE p \in S : \A q \in S : p <= q
    ELSE NoSlot

\* The slot with this player_id, used or not; an id of 0 names nobody.
SlotOf(g, id) == FirstSlot({p \in Slot : id # 0 /\ g.pid[p] = id})

\* A player who may act: known, joined and still connected.
IsPlayer(g, id) == SlotOf(g, id) \in g.joined \cap g.connected

----------------------------------------------------------------------------
(* Lobby.                                                                  *)

\* A returning player keeps its slot, a new one gets the first open slot.
JoinSlot(g, id) ==
    IF SlotOf(g, id) # NoSlot THEN SlotOf(g, id) ELSE FirstSlot(Slot \ g.joined)

JoinResult(g, id, n) ==
    IF g.phase # "LOBBY" THEN "invalid_state"
    ELSE IF SlotOf(g, id) \in g.joined THEN "already_joined"
    ELSE IF \E p \in g.joined : g.name[p] = n THEN "username_in_use"
    ELSE IF JoinSlot(g, id) = NoSlot THEN "invalid_state"
    ELSE "ok"

HandleJoin(g, id, n) ==
    LET p == JoinSlot(g, id)
    IN  IF JoinResult(g, id, n) # "ok"
        THEN g
        ELSE [g EXCEPT !.pid[p] = id,
                       !.name[p] = n,
                       !.score[p] = 0,
                       !.connected = @ \cup {p},
                       !.joined = @ \cup {p},
                       !.ready = @ \ {p},
                       !.decided = @ \ {p},
                       !.wants = @ \ {p}]

CanReady(g, id) ==
    IsPlayer(g, id) /\ g.phase = "LOBBY" /\ SlotOf(g, id) \notin g.ready

HandleReady(g, id) ==
    IF CanReady(g, id) THEN [g EXCEPT !.ready = @ \cup {SlotOf(g, id)}] ELSE g

\* The outcomes of game_begin_round: the next round's PROMPT phase, or the
\* old phase with the round wiped if no prompts could be dealt.
BeginRound(g) ==
    LET fresh == RoundBegin(Joined(g))
        begun == [g EXCEPT !.round = AssignPrompts(fresh),
                           !.roundNumber = @ + 1,
                           !.phase = "PROMPT"]
        wiped == [g EXCEPT !.round = RoundReset]
    IN  IF g.phase \notin {"LOBBY", "RESULTS"} \/ g.roundNumber + 1 > Categories
        THEN {g}
        ELSE {h \in {begun} : PromptsMayLoad(fresh)}
             \cup {h \in {wiped} : PromptsMayFail(fresh)}

\* game_start; the phase tells whether it succeeded.
Start(g) == IF CanStart(g) THEN BeginRound(g) ELSE {g}
----------------------------------------------------------------------------
(* Answers, titles and votes.                                              *)

HandleSubmit(g, id) ==
    IF g.phase = "PROMPT" /\ IsPlayer(g, id) /\ CanSubmit(g.round, SlotOf(g, id))
    THEN [g EXCEPT !.round = RecordSubmission(@, SlotOf(g, id))]
    ELSE g

HandleRewrite(g, id) ==
    IF g.phase = "REWRITE" /\ IsPlayer(g, id) /\ CanRewrite(g.round, SlotOf(g, id))
    THEN [g EXCEPT !.round = RecordRewrite(@, SlotOf(g, id))]
    ELSE g

\* The player_id behind a revealed entry, 0 when the option shows nothing.
VoteTargetId(g, option) == IF option \in g.round.reveal THEN g.pid[option] ELSE 0

VoteAccepted(g, id, targetId) ==
    LET o == SlotOf(g, targetId)
    IN  /\ targetId # 0
        /\ g.phase = "VOTING"
        /\ IsPlayer(g, id)
        /\ o \in g.joined
        /\ CanVote(g.round, SlotOf(g, id), o)

HandleVote(g, id, targetId) ==
    IF VoteAccepted(g, id, targetId)
    THEN [g EXCEPT !.round = RecordVote(@, SlotOf(g, id), SlotOf(g, targetId))]
    ELSE g

\* Mistake: the two kinds of points change places.
RoundPaySwapped(r, p) ==
    (IF p \in r.reveal THEN r.totals[p] * TitlePoints ELSE 0) +
    (IF r.target[p] \in r.reveal /\ TitleWriter(r, r.target[p]) = p
     THEN r.totals[r.target[p]] * AnswerPoints
     ELSE 0)

\* What a round pays a player: its own entry's votes, and those of the entry
\* it titled.  A player titles at most one entry, so the code's loop over
\* the reveal adds to each score at most these two terms.
RoundPay(r, p) ==
    (IF p \in r.reveal THEN r.totals[p] * AnswerPoints ELSE 0) +
    (IF r.target[p] \in r.reveal /\ TitleWriter(r, r.target[p]) = p
     THEN r.totals[r.target[p]] * TitlePoints
     ELSE 0)

ApplyRoundScores(g) ==
    [g EXCEPT !.score = [p \in Slot |-> @[p] + RoundPay(g.round, p)]]

----------------------------------------------------------------------------
(* Phases.                                                                 *)

\* The windows' deadlines are set through round_set_*_deadline.
SetDeadline(g, w, t) == [g EXCEPT !.round.deadline[w] = t]

AdvanceFromPrompt(g) ==
    LET dealt == AssignRewriteTargets(g.round)
    IN  IF dealt = {}
        THEN {[g EXCEPT !.phase = "RESULTS"]}
        ELSE {SetDeadline([g EXCEPT !.round = r, !.phase = "REWRITE"],
                          "REWRITE", "off") : r \in dealt}

AdvanceFromRewrite(g) ==
    IF CanPrepareVoting(g.round)
    THEN SetDeadline([g EXCEPT !.round = PrepareVoting(@), !.phase = "VOTING"],
                     "VOTING", "off")
    ELSE [g EXCEPT !.phase = "RESULTS"]

AdvanceFromVoting(g) == [ApplyRoundScores(g) EXCEPT !.phase = "RESULTS"]

\* Mistake: the phase is left with its deadline still set.
AdvanceClockRunning(g) ==
    CASE g.phase = "PROMPT" /\ AllSubmitted(g.round) -> AdvanceFromPrompt(g)
      [] g.phase = "REWRITE" /\ AllRewritten(g.round) -> {AdvanceFromRewrite(g)}
      [] g.phase = "VOTING" /\ AllVoted(g.round) -> {AdvanceFromVoting(g)}
      [] OTHER -> {g}

\* game_advance_phase_if_ready: one phase at most; it returns true exactly
\* when the phase of the outcome differs.
AdvancePhaseIfReady(g) ==
    CASE g.phase = "PROMPT" /\ AllSubmitted(g.round) ->
           AdvanceFromPrompt(SetDeadline(g, "PROMPT", "off"))
      [] g.phase = "REWRITE" /\ AllRewritten(g.round) ->
           {AdvanceFromRewrite(SetDeadline(g, "REWRITE", "off"))}
      [] g.phase = "VOTING" /\ AllVoted(g.round) ->
           {AdvanceFromVoting(SetDeadline(g, "VOTING", "off"))}
      [] OTHER -> {g}

EndGame(g) == [g EXCEPT !.phase = "OVER"]

\* game_finish_round; it fails exactly when the outcome is still in RESULTS
\* or was never there.
FinishRound(g) ==
    IF g.phase # "RESULTS" THEN {g}
    ELSE IF IsFinalRound(g) THEN {EndGame(g)}
    ELSE BeginRound(g)

\* game_start_prompt_window, game_start_title_window, game_start_vote_window.
StartWindow(g, w) == IF g.phase = w THEN SetDeadline(g, w, "running") ELSE g

PhaseDeadline(g) ==
    IF g.phase \in Window THEN g.round.deadline[g.phase] ELSE "off"

FillMissing(g) ==
    CASE g.phase = "PROMPT"  -> [g EXCEPT !.round = ApplyMissingFallbacks(@)]
      [] g.phase = "REWRITE" -> [g EXCEPT !.round = ApplyMissingRewrites(@)]
      [] g.phase = "VOTING"  -> [g EXCEPT !.round = ApplyMissingVotes(@)]

\* An expired window is closed first, then filled, then left.
ApplyPhaseTimeout(g) ==
    IF PhaseDeadline(g) = "due"
    THEN AdvancePhaseIfReady(FillMissing(SetDeadline(g, g.phase, "off")))
    ELSE {g}

----------------------------------------------------------------------------
(* Leaving and playing again.                                              *)

\* Mistake: the slot stays connected.
ResetPlayerConnected(g, p) ==
    [g EXCEPT !.pid[p] = 0,
              !.name[p] = NoName,
              !.score[p] = 0,
              !.joined = @ \ {p},
              !.ready = @ \ {p},
              !.decided = @ \ {p},
              !.wants = @ \ {p}]

\* game_reset_player: the slot forgets its player.
ResetPlayer(g, p) ==
    [g EXCEPT !.pid[p] = 0,
              !.name[p] = NoName,
              !.score[p] = 0,
              !.connected = @ \ {p},
              !.joined = @ \ {p},
              !.ready = @ \ {p},
              !.decided = @ \ {p},
              !.wants = @ \ {p}]

\* Mistake: a match goes on with whoever is left.
LeaveMatchOn(g, p) ==
    [g EXCEPT !.connected = @ \ {p},
              !.ready = @ \ {p},
              !.decided = @ \ {p},
              !.wants = @ \ {p},
              !.round = IF @.on THEN Deactivate(@, p) ELSE @]

\* Outside the lobby the slot stays with the player who left, which ends the
\* game once too few are left to go on.
LeaveMatch(g, p) ==
    LET left == [g EXCEPT !.connected = @ \ {p},
                          !.ready = @ \ {p},
                          !.decided = @ \ {p},
                          !.wants = @ \ {p},
                          !.round = IF @.on THEN Deactivate(@, p) ELSE @]
    IN  IF left.phase # "OVER" /\ JoinedCount(left) < MinPlayers
        THEN EndGame(left)
        ELSE left

HandleDisconnect(g, id) ==
    LET p == SlotOf(g, id)
    IN  IF p = NoSlot THEN g
        ELSE IF g.phase = "LOBBY" THEN ResetPlayer(g, p)
        ELSE LeaveMatch(g, p)

CanChooseReplay(g, id) == g.phase = "OVER" /\ SlotOf(g, id) \in g.connected

HandleReplayChoice(g, id, wish) ==
    LET p == SlotOf(g, id)
    IN  IF CanChooseReplay(g, id)
        THEN [g EXCEPT !.decided = @ \cup {p},
                       !.wants = IF wish THEN @ \cup {p} ELSE @ \ {p}]
        ELSE g

\* Mistakes: the scores, or the round number, are kept.
PrepareReplayScored(g) ==
    LET again == g.connected \cap g.wants
    IN  [g EXCEPT !.phase = "LOBBY",
                  !.roundNumber = 0,
                  !.round = RoundReset,
                  !.joined = again,
                  !.ready = again,
                  !.decided = {},
                  !.wants = {}]

PrepareReplayCounting(g) ==
    LET again == g.connected \cap g.wants
    IN  [g EXCEPT !.phase = "LOBBY",
                  !.round = RoundReset,
                  !.score = [p \in Slot |-> 0],
                  !.joined = again,
                  !.ready = again,
                  !.decided = {},
                  !.wants = {}]

\* Back to the lobby with those who want to play seated and ready; ids,
\* names and connections stay.
PrepareReplay(g) ==
    LET again == g.connected \cap g.wants
    IN  [g EXCEPT !.phase = "LOBBY",
                  !.roundNumber = 0,
                  !.round = RoundReset,
                  !.score = [p \in Slot |-> 0],
                  !.joined = again,
                  !.ready = again,
                  !.decided = {},
                  !.wants = {}]
============================================================================
