---------------------------- MODULE MatchProofs ----------------------------
(***************************************************************************)
(* Theorems about the match engine for any number of players, rounds and   *)
(* points: its types, its membership and titles, that it implements the    *)
(* flow of a match, that no clock of an earlier phase or round is left     *)
(* running and no phase outlives its last missing answer; who sits where,  *)
(* that a match starts level, and that every vote is counted and paid      *)
(* once.  All rest on one inductive invariant, IInv, those on clocks on    *)
(* OnTime and those on seats and scores on SInv besides.  What a round     *)
(* pays is a sum over all players and needs induction on their number:     *)
(* CountUp derives it from the least-element principle of the library.     *)
(***************************************************************************)
EXTENDS Match, GameLemmas

IInv ==
    /\ GameInv(game)
    /\ live \subseteq 1 .. MaxId
    /\ nextId \in 1 .. MaxId + 1

FlowStep == [Flow!Next]_(Flow!flowVars)

\* A step that keeps phase and round, and one to the next phase, are steps of
\* the flow.
LEMMA MovesFlow ==
    ASSUME Moves(game, game')
    PROVE  FlowStep
<1>1. CASE game'.phase = game.phase
    BY <1>1 DEF Moves, FlowStep, Flow!flowVars
<1>2. CASE game'.phase # game.phase
  <2>1. Flow!NextPhase
    BY <1>2 DEF Moves, Flow!NextPhase, Flow!Succ
  <2> QED
    BY <2>1 DEF FlowStep, Flow!Next
<1> QED
    BY <1>1, <1>2

LEMMA KeepsMoves ==
    ASSUME NEW g, NEW h, Keeps(g, h)
    PROVE  Moves(g, h)
    BY DEF Keeps, Moves

----------------------------------------------------------------------------
(* The actions, one by one: each keeps the invariant and is a step of the  *)
(* flow.                                                                   *)

LEMMA JoinStep ==
    ASSUME IInv, NEW id \in live \cup {nextId}, NEW n \in Name, Join(id, n)
    PROVE  IInv' /\ FlowStep
<1>1. id \in 1 .. MaxId /\ id \in Nat
    BY MaxIdAssumption DEF IInv, Join
<1>2. Keeps(game, game')
    BY <1>1, JoinKeeps DEF Join, IInv
<1>3. live' \subseteq 1 .. MaxId
    BY <1>1 DEF Join, IInv
<1>4. nextId' \in 1 .. MaxId + 1
    BY <1>1, MaxIdAssumption DEF Join, IInv
<1> QED
    BY <1>2, <1>3, <1>4, KeepsMoves, MovesFlow DEF IInv, Keeps

LEMMA ReadyStep ==
    ASSUME IInv, NEW id, Ready(id)
    PROVE  IInv' /\ FlowStep
<1> DEFINE g == HandleReady(game, id)
<1>1. Keeps(game, g) /\ game.phase = "LOBBY"
    BY ReadyKeeps DEF IInv, Ready, CanReady
<1>2. game' \in Start(g) /\ UNCHANGED <<live, nextId>>
    BY DEF Ready
<1> HIDE DEF g
<1>3. /\ GameInv(game')
      /\ \/ game'.phase = "PROMPT" /\ game'.roundNumber = 1
         \/ game'.phase = "LOBBY" /\ game'.roundNumber = 0
    BY <1>1, <1>2, StartOutcome DEF Keeps
<1>4. IInv'
    BY <1>2, <1>3 DEF IInv
<1>5. CASE game'.phase = "PROMPT" /\ game'.roundNumber = 1
    BY <1>1, <1>4, <1>5
       DEF FlowStep, Flow!Next, Flow!StartMatch, Flow!Open, Keeps
<1>6. CASE game'.phase = "LOBBY" /\ game'.roundNumber = 0
    BY <1>1, <1>4, <1>6 DEF FlowStep, Flow!flowVars, IInv, GameInv
<1> QED
    BY <1>3, <1>5, <1>6

LEMMA SettleStep ==
    ASSUME IInv, NEW taken, Keeps(game, taken), Settle(taken)
    PROVE  IInv' /\ FlowStep
<1>1. game' \in AdvancePhaseIfReady(taken) /\ UNCHANGED <<live, nextId>>
    BY DEF Settle
<1>2. Moves(taken, game')
    BY <1>1, AdvanceMoves DEF Keeps
<1>3. Moves(game, game')
    BY <1>2 DEF Moves, Keeps
<1> QED
    BY <1>1, <1>3, MovesFlow DEF IInv, Moves

LEMMA AnswerStep ==
    ASSUME IInv, NEW id, NEW option,
           Submit(id) \/ Rewrite(id) \/ Vote(id, option)
    PROVE  IInv' /\ FlowStep
<1>1. CASE Submit(id)
    BY <1>1, SubmitKeeps, SettleStep DEF Submit, IInv
<1>2. CASE Rewrite(id)
    BY <1>2, RewriteKeeps, SettleStep DEF Rewrite, IInv
<1>3. CASE Vote(id, option)
    BY <1>3, VoteKeeps, SettleStep DEF Vote, IInv
<1> QED
    BY <1>1, <1>2, <1>3

LEMMA ClockStep ==
    ASSUME IInv, OpenWindow \/ Elapse \/ Timeout
    PROVE  IInv' /\ FlowStep
<1>1. Moves(game, game')
  <2>1. CASE OpenWindow
    BY <2>1, StartWindowKeeps, KeepsMoves DEF OpenWindow, IInv
  <2>2. CASE Elapse
    <3>1. game.phase \in Window
      BY <2>2 DEF Elapse, PhaseDeadline
    <3> QED
      BY <2>2, <3>1, SetDeadlineInv DEF Elapse, IInv, Moves, Timer
  <2>3. CASE Timeout
    BY <2>3, TimeoutMoves DEF Timeout, IInv
  <2> QED
    BY <2>1, <2>2, <2>3
<1>2. UNCHANGED <<live, nextId>>
    BY DEF OpenWindow, Elapse, Timeout
<1> QED
    BY <1>1, <1>2, MovesFlow DEF IInv, Moves

LEMMA FinishStep ==
    ASSUME IInv, Finish
    PROVE  IInv' /\ FlowStep
<1>1. PICK g \in FinishRound(game) :
        game' = IF g.phase = "RESULTS" THEN EndGame(g) ELSE g
    BY DEF Finish
<1>2. game.phase = "RESULTS" /\ UNCHANGED <<live, nextId>>
    BY DEF Finish
<1>3. /\ g \in GameState
      /\ \/ g.phase = "OVER" /\ GameInv(g) /\ g.roundNumber = game.roundNumber
         \/ /\ g.phase = "PROMPT" /\ GameInv(g)
            /\ game.roundNumber < TotalRounds
            /\ g.roundNumber = game.roundNumber + 1
         \/ g.phase = "RESULTS" /\ g.roundNumber = game.roundNumber
    BY <1>2, FinishOutcome, MembersEnough DEF IInv, GameInv, InGame, Phase
<1>4. /\ GameInv(game')
      /\ \/ game'.phase = "OVER" /\ game'.roundNumber = game.roundNumber
         \/ /\ game'.phase = "PROMPT" /\ game.roundNumber < TotalRounds
            /\ game'.roundNumber = game.roundNumber + 1
    BY <1>1, <1>3, EndGameInv
<1>5. FlowStep
    BY <1>2, <1>4
       DEF FlowStep, Flow!Next, Flow!End, Flow!NextRound, Flow!Open
<1> QED
    BY <1>2, <1>4, <1>5 DEF IInv

LEMMA DisconnectStep ==
    ASSUME IInv, NEW id, Disconnect(id)
    PROVE  IInv' /\ FlowStep
<1> DEFINE g == HandleDisconnect(game, id)
<1>1. /\ GameInv(g)
      /\ \/ g.phase = game.phase
         \/ game.phase # "LOBBY" /\ g.phase = "OVER"
      /\ g.roundNumber = game.roundNumber
    BY DisconnectOutcome DEF IInv
<1>2. game' \in AdvancePhaseIfReady(g)
    BY DEF Disconnect
<1> HIDE DEF g
<1>3. Moves(g, game')
    BY <1>1, <1>2, AdvanceMoves
<1>4. IInv'
    BY <1>3 DEF IInv, Moves, Disconnect
<1>5. CASE g.phase = game.phase
    BY <1>1, <1>3, <1>4, <1>5, MovesFlow DEF Moves
<1>6. CASE game.phase \notin {"LOBBY", "OVER"} /\ g.phase = "OVER"
  <2>1. game'.phase = "OVER" /\ game'.roundNumber = game.roundNumber
    BY <1>1, <1>3, <1>6 DEF Moves
  <2> QED
    BY <1>4, <1>6, <2>1 DEF FlowStep, Flow!Next, Flow!End
<1> QED
    BY <1>1, <1>5, <1>6

LEMMA ReplayChoiceStep ==
    ASSUME IInv, NEW id, NEW wish, ReplayChoice(id, wish)
    PROVE  IInv' /\ FlowStep
<1>1. Keeps(game, game')
    BY ReplayChoiceKeeps DEF ReplayChoice, IInv
<1> QED
    BY <1>1, KeepsMoves, MovesFlow DEF ReplayChoice, IInv, Keeps

LEMMA PlayAgainStep ==
    ASSUME IInv, PlayAgain
    PROVE  IInv' /\ FlowStep
<1> DEFINE g == PrepareReplay(game)
<1>1. GameInv(g) /\ g.phase = "LOBBY"
    BY PrepareReplayInv DEF IInv
<1>2. game' \in Start(g) /\ game.phase = "OVER" /\ UNCHANGED <<live, nextId>>
    BY DEF PlayAgain
<1> HIDE DEF g
<1>3. /\ GameInv(game')
      /\ \/ game'.phase = "PROMPT" /\ game'.roundNumber = 1
         \/ game'.phase = "LOBBY" /\ game'.roundNumber = 0
    BY <1>1, <1>2, StartOutcome
<1>4. FlowStep
    BY <1>2, <1>3
       DEF FlowStep, Flow!Next, Flow!StartMatch, Flow!BackToLobby, Flow!Open
<1> QED
    BY <1>2, <1>3, <1>4 DEF IInv

----------------------------------------------------------------------------
(* The invariant. *)

LEMMA InitInv == Init => IInv
<1> SUFFICES ASSUME Init PROVE IInv
    OBVIOUS
<1>1. GameInv(game)
    BY GameResetInv DEF Init
<1>2. live \subseteq 1 .. MaxId /\ nextId \in 1 .. MaxId + 1
    BY MaxIdAssumption DEF Init
<1> QED
    BY <1>1, <1>2 DEF IInv

LEMMA NextInv == IInv /\ [Next]_vars => IInv' /\ FlowStep
<1> SUFFICES ASSUME IInv, [Next]_vars PROVE IInv' /\ FlowStep
    OBVIOUS
<1>1. ASSUME NEW id \in live \cup {nextId}, NEW n \in Name, Join(id, n)
      PROVE  IInv' /\ FlowStep
    BY <1>1, JoinStep
<1>2. ASSUME NEW id \in live, Ready(id)
      PROVE  IInv' /\ FlowStep
    BY <1>2, ReadyStep
<1>3. ASSUME NEW id \in live, NEW option,
             Submit(id) \/ Rewrite(id) \/ Vote(id, option)
      PROVE  IInv' /\ FlowStep
    BY <1>3, AnswerStep
<1>4. ASSUME NEW id \in live, Disconnect(id)
      PROVE  IInv' /\ FlowStep
    BY <1>4, DisconnectStep
<1>5. ASSUME NEW id \in live, NEW wish \in BOOLEAN, ReplayChoice(id, wish)
      PROVE  IInv' /\ FlowStep
    BY <1>5, ReplayChoiceStep
<1>6. CASE OpenWindow \/ Elapse \/ Timeout
    BY <1>6, ClockStep
<1>7. CASE Finish
    BY <1>7, FinishStep
<1>8. CASE PlayAgain
    BY <1>8, PlayAgainStep
<1>9. CASE UNCHANGED vars
    BY <1>9 DEF vars, IInv, FlowStep, Flow!flowVars
<1> QED
    BY <1>1, <1>2, <1>3, <1>4, <1>5, <1>6, <1>7, <1>8, <1>9 DEF Next

LEMMA Invariance == Spec => []IInv
<1> QED
    BY InitInv, NextInv, PTL DEF Spec

----------------------------------------------------------------------------
(* The clocks, action by action. *)

LEMMA LobbyAndReplayOnTime ==
    ASSUME IInv, NEW id, NEW n, NEW wish,
           \/ id \in live \cup {nextId} /\ n \in Name /\ Join(id, n)
           \/ Ready(id) \/ ReplayChoice(id, wish) \/ PlayAgain
    PROVE  OnTime(game')
<1>1. CASE id \in live \cup {nextId} /\ n \in Name /\ Join(id, n)
  <2>1. id \in Nat /\ game.phase = "LOBBY"
    BY <1>1, MaxIdAssumption DEF IInv, Join, JoinResult
  <2>2. game'.phase = "LOBBY"
    BY <1>1, <2>1, JoinKeeps DEF Join, IInv, Keeps
  <2> QED
    BY <2>2, IdleOnTime
<1>2. CASE Ready(id)
  <2>1. /\ GameInv(HandleReady(game, id))
        /\ HandleReady(game, id).phase = "LOBBY"
    BY <1>2, ReadyKeeps DEF Ready, CanReady, IInv, Keeps
  <2> QED
    BY <1>2, <2>1, StartOnTime DEF Ready
<1>3. CASE ReplayChoice(id, wish)
  <2>1. game'.phase = "OVER"
    BY <1>3, ReplayChoiceKeeps DEF ReplayChoice, CanChooseReplay, IInv, Keeps
  <2> QED
    BY <2>1, IdleOnTime
<1>4. CASE PlayAgain
  <2>1. GameInv(PrepareReplay(game)) /\ PrepareReplay(game).phase = "LOBBY"
    BY PrepareReplayInv DEF IInv
  <2> QED
    BY <1>4, <2>1, StartOnTime DEF PlayAgain
<1> QED
    BY <1>1, <1>2, <1>3, <1>4

LEMMA AnswerOnTime ==
    ASSUME IInv, OnTime(game), NEW id, NEW option,
           Submit(id) \/ Rewrite(id) \/ Vote(id, option)
    PROVE  OnTime(game')
<1> DEFINE target == VoteTargetId(game, option)
<1>1. PICK taken \in {HandleSubmit(game, id), HandleRewrite(game, id),
                      HandleVote(game, id, target)} : Settle(taken)
    BY DEF Submit, Rewrite, Vote
<1>2. GameInv(taken)
    BY <1>1, SubmitKeeps, RewriteKeeps, VoteKeeps DEF IInv, Keeps
<1>3. Owned(taken)
  <2>1. SameClocks(game, taken)
    BY <1>1, AnswerSameClocks DEF IInv, GameInv
  <2> QED
    BY <2>1, SameClocksOwned DEF OnTime
<1> QED
    BY <1>1, <1>2, <1>3, AdvanceOnTime DEF Settle

LEMMA ClockOnTime ==
    ASSUME IInv, OnTime(game), OpenWindow \/ Elapse \/ Timeout
    PROVE  OnTime(game')
<1>1. game \in GameState
    BY DEF IInv, GameInv
<1>2. CASE OpenWindow \/ Elapse
  <2>1. PICK t \in Timer : /\ game.phase \in Window
                           /\ game' = SetDeadline(game, game.phase, t)
    BY <1>2 DEF OpenWindow, Elapse, StartWindow, PhaseDeadline, Timer
  <2>2. Owned(game')
    BY <1>1, <2>1, SetDeadlineClocks DEF OnTime, Owned
  <2>3. StillMissing(game')
    BY <1>1, <2>1, SetDeadlineClocks DEF OnTime, StillMissing
  <2> QED
    BY <2>2, <2>3 DEF OnTime
<1>3. CASE Timeout
  <2> DEFINE c == SetDeadline(game, game.phase, "off")
             f == FillMissing(c)
  <2>1. game.phase \in Window
    BY <1>3 DEF Timeout, PhaseDeadline
  <2>2. GameInv(c) /\ c.phase = game.phase /\ AllOff(c)
    BY <2>1, CloseWindow DEF IInv, OnTime
  <2>3. game' \in AdvancePhaseIfReady(f)
    BY <1>3 DEF Timeout, ApplyPhaseTimeout
  <2> HIDE DEF c
  <2>4. GameInv(f) /\ SameClocks(c, f)
    BY <2>1, <2>2, FillMissingKeeps, FillSameClocks DEF Keeps, GameInv
  <2>5. Owned(f)
    BY <2>2, <2>4, AllOffOwned, SameClocksOwned
  <2> HIDE DEF f
  <2> QED
    BY <2>3, <2>4, <2>5, AdvanceOnTime
<1> QED
    BY <1>2, <1>3

LEMMA FinishOnTime ==
    ASSUME IInv, Finish
    PROVE  OnTime(game')
<1>1. PICK g \in FinishRound(game) :
        game' = IF g.phase = "RESULTS" THEN EndGame(g) ELSE g
    BY DEF Finish
<1>2. game.phase = "RESULTS" /\ game \in GameState
    BY DEF Finish, IInv, GameInv
<1>3. /\ g \in GameState
      /\ g.phase \in {"OVER", "RESULTS"} \/ (g.phase = "PROMPT" /\ GameInv(g))
    BY <1>2, FinishOutcome, MembersEnough DEF IInv, GameInv, InGame, Phase
<1>4. CASE g.phase \in {"OVER", "RESULTS"}
  <2>1. game'.phase = "OVER"
    BY <1>1, <1>3, <1>4, EndGameInv
  <2> QED
    BY <2>1, IdleOnTime
<1>5. CASE g.phase = "PROMPT" /\ GameInv(g)
  <2>1. g \in BeginRound(game)
    BY <1>2, <1>5, EndGameInv DEF FinishRound
  <2> QED
    BY <1>1, <1>2, <1>5, <2>1, BeginRoundOnTime
<1> QED
    BY <1>3, <1>4, <1>5

LEMMA DisconnectOnTime ==
    ASSUME IInv, OnTime(game), NEW id, Disconnect(id)
    PROVE  OnTime(game')
<1>1. GameInv(HandleDisconnect(game, id)) /\ Owned(HandleDisconnect(game, id))
    BY DisconnectOutcome, DisconnectOwned DEF IInv, OnTime
<1> QED
    BY <1>1, AdvanceOnTime DEF Disconnect

LEMMA OnTimeInvariance == Spec => [](IInv /\ OnTime(game))
<1>1. Init => OnTime(game)
    BY IdleOnTime DEF Init, GameReset
<1>2. IInv /\ OnTime(game) /\ [Next]_vars => OnTime(game')
  <2> SUFFICES ASSUME IInv, OnTime(game), [Next]_vars PROVE OnTime(game')
    OBVIOUS
  <2>1. ASSUME NEW id \in live \cup {nextId}, NEW n \in Name, Join(id, n)
        PROVE  OnTime(game')
    BY <2>1, LobbyAndReplayOnTime
  <2>2. ASSUME NEW id \in live,
               \/ Ready(id) \/ \E wish \in BOOLEAN : ReplayChoice(id, wish)
        PROVE  OnTime(game')
    BY <2>2, LobbyAndReplayOnTime
  <2>3. ASSUME NEW id \in live,
               \/ Submit(id) \/ Rewrite(id)
               \/ \E option \in Slot : Vote(id, option)
        PROVE  OnTime(game')
    BY <2>3, AnswerOnTime
  <2>4. ASSUME NEW id \in live, Disconnect(id)
        PROVE  OnTime(game')
    BY <2>4, DisconnectOnTime
  <2>5. CASE OpenWindow \/ Elapse \/ Timeout
    BY <2>5, ClockOnTime
  <2>6. CASE Finish
    BY <2>6, FinishOnTime
  <2>7. CASE PlayAgain
    BY <2>7, LobbyAndReplayOnTime
  <2>8. CASE UNCHANGED vars
    BY <2>8 DEF vars, OnTime, Owned, StillMissing
  <2> QED
    BY <2>1, <2>2, <2>3, <2>4, <2>5, <2>6, <2>7, <2>8 DEF Next
<1>3. IInv /\ OnTime(game) /\ [Next]_vars => (IInv /\ OnTime(game))'
  <2>1. IInv /\ [Next]_vars => IInv'
    BY NextInv
  <2>2. OnTime(game)' <=> OnTime(game')
    BY DEF OnTime, Owned, StillMissing
  <2> QED
    BY <1>2, <2>1, <2>2
<1> QED
    BY <1>1, <1>3, InitInv, PTL DEF Spec

----------------------------------------------------------------------------
(* The theorems. *)

\* Every reachable state of the engine is well typed.
THEOREM TypeCorrect == Spec => []TypeOK
<1>1. IInv => TypeOK
    BY DEF IInv, GameInv, TypeOK
<1> QED
    BY <1>1, Invariance, PTL

\* A running match never has fewer players than the minimum, however many
\* leave and whenever they do.
THEOREM QuorumHolds == Spec => []Quorum
<1>1. IInv => Quorum
    BY DEF IInv, GameInv, Members, Quorum, JoinedCount
<1> QED
    BY <1>1, Invariance, PTL

\* The round's members are the connected players, and participant_count
\* their number, in every reachable state.
THEOREM MembersHold == Spec => []RoundMembers
<1>1. IInv => RoundMembers
    BY DEF IInv, GameInv, Members, RoundMembers
<1> QED
    BY <1>1, Invariance, PTL

\* Every member of a round past its answers holds an entry of somebody else,
\* and no two hold the same.
THEOREM TitlesHold == Spec => []TitlesDealt
<1>1. IInv => TitlesDealt
    BY DEF IInv, GameInv, Dealt, TitlesDealt
<1> QED
    BY <1>1, Invariance, PTL

\* The engine implements MatchFlow: no phase or round is skipped, repeated or
\* taken out of order.
THEOREM ImplementsFlow == Spec => FlowSpec
<1>1. Init => Flow!Init
    BY DEF Init, GameReset, Flow!Init
<1> QED
    BY <1>1, Invariance, NextInv, PTL DEF Spec, FlowSpec, Flow!Spec, FlowStep

\* In a running match the only clock that runs is the current phase's.
THEOREM OwnClockHolds == Spec => []OwnClockOnly
<1>1. OnTime(game) => OwnClockOnly
    BY DEF OnTime, Owned, OwnClockOnly
<1> QED
    BY <1>1, OnTimeInvariance, PTL

\* No phase outlives its last missing answer, whoever supplied it or left
\* without it, and whenever the clock ran out.
THEOREM AnswerOutstandingHolds == Spec => []AnswerOutstanding
<1>1. OnTime(game) => AnswerOutstanding
    BY DEF OnTime, StillMissing, AnswerOutstanding
<1> QED
    BY <1>1, OnTimeInvariance, PTL

----------------------------------------------------------------------------
(* Sums. *)

\* The running sums exist: they can be written down one after another.
LEMMA SumsExist ==
    ASSUME NEW f \in [Slot -> Nat]
    PROVE  \E s \in [0 .. MaxPlayers -> Nat] :
             s = [n \in 0 .. MaxPlayers |-> IF n = 0 THEN 0 ELSE s[n - 1] + f[n]]
<1> DEFINE Upto(m, s) == s[0] = 0 /\ \A n \in 1 .. m : s[n] = s[n - 1] + f[n]
           Some(m) == m <= MaxPlayers => \E s \in [0 .. m -> Nat] : Upto(m, s)
           T == {m \in Nat : Some(m)}
<1>1. Some(0)
  <2>1. [n \in 0 .. 0 |-> 0] \in [0 .. 0 -> Nat] /\ Upto(0, [n \in 0 .. 0 |-> 0])
    OBVIOUS
  <2> QED
    BY <2>1
<1>2. ASSUME NEW m \in Nat, Some(m) PROVE Some(m + 1)
  <2> SUFFICES ASSUME m + 1 <= MaxPlayers
               PROVE  \E s \in [0 .. m + 1 -> Nat] : Upto(m + 1, s)
    OBVIOUS
  <2>1. PICK s \in [0 .. m -> Nat] : Upto(m, s)
    BY <1>2, MaxPlayersAssumption
  <2> DEFINE t == [n \in 0 .. m + 1 |-> IF n = m + 1 THEN s[m] + f[m + 1] ELSE s[n]]
  <2>2. f[m + 1] \in Nat /\ s[m] \in Nat
    BY MaxPlayersAssumption DEF Slot
  <2>3. t \in [0 .. m + 1 -> Nat]
    BY <2>2
  <2>4. Upto(m + 1, t)
    <3>1. t[0] = 0
      BY <2>1
    <3>2. ASSUME NEW n \in 1 .. m
          PROVE  t[n] = t[n - 1] + f[n]
      BY <2>1
    <3>3. t[m + 1] = t[m] + f[m + 1] /\ (m + 1) - 1 = m
      OBVIOUS
    <3>4. \A n \in 1 .. m + 1 : n \in 1 .. m \/ n = m + 1
      OBVIOUS
    <3> HIDE DEF t
    <3>5. \A n \in 1 .. m + 1 : t[n] = t[n - 1] + f[n]
      BY <3>2, <3>3, <3>4
    <3> QED
      BY <3>1, <3>5
  <2> HIDE DEF t, Upto
  <2> QED
    BY <2>3, <2>4
<1> HIDE DEF Some
<1>3. T = Nat
  <2>1. T \in SUBSET Nat /\ 0 \in T /\ \A m \in T : m + 1 \in T
    BY <1>1, <1>2
  <2> HIDE DEF T
  <2> QED
    BY <2>1, CountUp
<1>4. Some(MaxPlayers)
    BY <1>3, MaxPlayersAssumption
<1>5. PICK s \in [0 .. MaxPlayers -> Nat] : Upto(MaxPlayers, s)
    BY <1>4, MaxPlayersAssumption DEF Some
<1>6. s = [n \in 0 .. MaxPlayers |-> IF n = 0 THEN 0 ELSE s[n - 1] + f[n]]
    BY <1>5, MaxPlayersAssumption
<1> QED
    BY <1>6

LEMMA SumsStep ==
    ASSUME NEW f \in [Slot -> Nat]
    PROVE  /\ Sums(f) \in [0 .. MaxPlayers -> Nat]
           /\ Sums(f)[0] = 0
           /\ \A n \in Slot : Sums(f)[n] = Sums(f)[n - 1] + f[n]
<1> DEFINE s == Sums(f)
           Def(u) == u = [n \in 0 .. MaxPlayers |->
                            IF n = 0 THEN 0 ELSE u[n - 1] + f[n]]
<1>1. s = CHOOSE u : Def(u)
    BY DEF Sums
<1>2. PICK t \in [0 .. MaxPlayers -> Nat] : Def(t)
    BY SumsExist
<1>3. Def(s)
  <2> HIDE DEF Def, s
  <2> QED
    BY <1>1, <1>2
<1> HIDE DEF s
<1>4. s[0] = 0 /\ \A n \in Slot : s[n] = s[n - 1] + f[n]
    BY <1>3, MaxPlayersAssumption DEF Slot
<1>5. \A n \in 0 .. MaxPlayers : s[n] = t[n]
  <2> DEFINE T == {n \in Nat : n <= MaxPlayers => s[n] = t[n]}
  <2>1. 0 \in T
    BY <1>2, <1>4, MaxPlayersAssumption
  <2>2. ASSUME NEW n \in T PROVE n + 1 \in T
    <3> SUFFICES ASSUME n + 1 <= MaxPlayers PROVE s[n + 1] = t[n + 1]
      OBVIOUS
    <3>1. n <= MaxPlayers /\ n + 1 \in Slot /\ (n + 1) - 1 = n
      BY MaxPlayersAssumption DEF Slot
    <3>2. t[n + 1] = t[n] + f[n + 1]
      BY <1>2, <3>1, MaxPlayersAssumption DEF Slot
    <3> QED
      BY <1>4, <2>2, <3>1, <3>2
  <2> HIDE DEF T
  <2>3. T \in SUBSET Nat
    BY DEF T
  <2>4. T = Nat
    BY <2>1, <2>2, <2>3, CountUp
  <2> QED
    BY <2>4, MaxPlayersAssumption DEF T
<1>6. s \in [0 .. MaxPlayers -> Nat]
    BY <1>3, <1>5
<1> QED
    BY <1>4, <1>6 DEF s

----------------------------------------------------------------------------
(* Paying votes. *)

VotesFor(r, p) == {v \in Slot : r.votedFor[v] = p}
VotesTitledBy(r, p) ==
    {v \in Slot : r.votedFor[v] # NoSlot /\ p \in r.active
                    /\ r.target[p] = r.votedFor[v]}

\* No two players title the same entry, so its writer is whoever titled it.
LEMMA WriterIs ==
    ASSUME NEW r \in RoundState, Dealt(r), NEW p \in r.active
    PROVE  TitleWriter(r, r.target[p]) = p
<1> DEFINE writers == {q \in r.active : r.target[q] = r.target[p]}
<1>1. writers = {p}
    BY DEF Dealt
<1>2. p \in Nat
    BY DEF RoundState, Slot
<1> QED
    BY <1>1, <1>2 DEF TitleWriter

\* What a player is paid, in votes.
LEMMA PayIs ==
    ASSUME NEW r \in RoundState, VotesCounted(r), Dealt(r), NEW p \in Slot
    PROVE  RoundPay(r, p) = Cardinality(VotesFor(r, p)) * AnswerPoints
                          + Cardinality(VotesTitledBy(r, p)) * TitlePoints
<1> DEFINE a == IF p \in r.reveal THEN r.totals[p] * AnswerPoints ELSE 0
           t == IF r.target[p] \in r.reveal /\ TitleWriter(r, r.target[p]) = p
                THEN r.totals[r.target[p]] * TitlePoints
                ELSE 0
<1>1. /\ r.active \in SUBSET Slot /\ r.reveal \in SUBSET Slot
      /\ r.target[p] \in Slot \cup {NoSlot}
    BY DEF RoundState
<1>2. \A q \in Slot : r.totals[q] = Cardinality(VotesFor(r, q))
    BY DEF VotesCounted, VotesFor
<1>3. \A q \in Slot : q \notin r.reveal => VotesFor(r, q) = {}
    BY NoSlotIsNone DEF VotesCounted, VotesFor
<1>4. a = Cardinality(VotesFor(r, p)) * AnswerPoints
  <2>1. CASE p \in r.reveal
    BY <1>2, <2>1
  <2>2. CASE p \notin r.reveal
    BY <1>3, <2>2, FS_EmptySet, PointsAssumption
  <2> QED
    BY <2>1, <2>2
<1>5. t = Cardinality(VotesTitledBy(r, p)) * TitlePoints
  <2>1. CASE p \in r.active
    <3>1. TitleWriter(r, r.target[p]) = p /\ r.target[p] \in Slot
      BY <1>1, <2>1, WriterIs DEF Dealt, RoundState
    <3>2. VotesTitledBy(r, p) = VotesFor(r, r.target[p])
      BY <2>1, <3>1, NoSlotIsNone DEF VotesTitledBy, VotesFor
    <3>3. CASE r.target[p] \in r.reveal
      BY <1>2, <3>1, <3>2, <3>3
    <3>4. CASE r.target[p] \notin r.reveal
      BY <1>3, <3>1, <3>2, <3>4, FS_EmptySet, PointsAssumption
    <3> QED
      BY <3>3, <3>4
  <2>2. CASE p \notin r.active
    <3>1. VotesTitledBy(r, p) = {}
      BY <2>2 DEF VotesTitledBy
    <3>2. TitleWriter(r, r.target[p]) # p
      BY <1>1, <2>2, NoSlotIsNone DEF TitleWriter
    <3> QED
      BY <3>1, <3>2, FS_EmptySet, PointsAssumption
  <2> QED
    BY <2>1, <2>2
<1> HIDE DEF a, t
<1>6. RoundPay(r, p) = a + t
    BY DEF RoundPay, a, t
<1> QED
    BY <1>4, <1>5, <1>6

\* The votes for the first n entries, and those whose title is by one of the
\* first n players.
CastTo(r, n) == {v \in Slot : r.votedFor[v] \in 1 .. n}
TitledTo(r, n) ==
    {v \in Slot : r.votedFor[v] # NoSlot
                    /\ \E w \in r.active : w <= n /\ r.target[w] = r.votedFor[v]}

LEMMA CountUnion ==
    ASSUME NEW S \in SUBSET Slot, NEW T \in SUBSET Slot, S \cap T = {}
    PROVE  Cardinality(S \cup T) = Cardinality(S) + Cardinality(T)
<1>1. /\ IsFiniteSet(S) /\ Cardinality(S) \in Nat
      /\ IsFiniteSet(T) /\ Cardinality(T) \in Nat
    BY SlotsFinite
<1>2. Cardinality(S \cap T) = 0
    BY FS_EmptySet
<1>3. Cardinality(S \cup T)
        = Cardinality(S) + Cardinality(T) - Cardinality(S \cap T)
    BY <1>1, FS_Union
<1> QED
    BY <1>1, <1>2, <1>3

\* Each player adds the votes of its own.
LEMMA VotesAdd ==
    ASSUME NEW r \in RoundState, Dealt(r), NEW n \in Slot
    PROVE  /\ Cardinality(CastTo(r, n))
                = Cardinality(CastTo(r, n - 1)) + Cardinality(VotesFor(r, n))
           /\ Cardinality(TitledTo(r, n))
                = Cardinality(TitledTo(r, n - 1)) + Cardinality(VotesTitledBy(r, n))
<1>1. /\ r.active \in SUBSET Slot /\ r.votedFor \in [Slot -> Slot \cup {NoSlot}]
      /\ Slot \subseteq Nat /\ n \in Nat /\ n >= 1
    BY DEF RoundState, Slot
<1>2. /\ CastTo(r, n) = CastTo(r, n - 1) \cup VotesFor(r, n)
      /\ CastTo(r, n - 1) \cap VotesFor(r, n) = {}
    BY <1>1 DEF CastTo, VotesFor, NoSlot
<1>3. /\ TitledTo(r, n) = TitledTo(r, n - 1) \cup VotesTitledBy(r, n)
      /\ TitledTo(r, n - 1) \cap VotesTitledBy(r, n) = {}
  <2>1. \A w \in Nat : (w <= n) <=> (w <= n - 1 \/ w = n)
    BY <1>1
  <2>2. \A w \in Nat : w <= n - 1 => w # n
    BY <1>1
  <2>3. TitledTo(r, n) = TitledTo(r, n - 1) \cup VotesTitledBy(r, n)
    BY <1>1, <2>1 DEF TitledTo, VotesTitledBy
  <2>4. TitledTo(r, n - 1) \cap VotesTitledBy(r, n) = {}
    BY <1>1, <2>2 DEF TitledTo, VotesTitledBy, Dealt
  <2> QED
    BY <2>3, <2>4
<1>4. /\ CastTo(r, n - 1) \in SUBSET Slot /\ VotesFor(r, n) \in SUBSET Slot
      /\ TitledTo(r, n - 1) \in SUBSET Slot /\ VotesTitledBy(r, n) \in SUBSET Slot
    BY DEF CastTo, VotesFor, TitledTo, VotesTitledBy
<1> QED
    BY <1>2, <1>3, <1>4, CountUnion

\* The closing of a vote pays every vote cast once, and once more the votes
\* for entries whose title's writer is still there.
LEMMA RoundPays ==
    ASSUME NEW r \in RoundState, VotesCounted(r), Dealt(r),
           NEW before \in [Slot -> Nat],
           NEW after \in [Slot -> Nat],
           \A p \in Slot : after[p] = before[p] + RoundPay(r, p)
    PROVE  Sums(after)[MaxPlayers] = Sums(before)[MaxPlayers]
             + Cardinality(CastTo(r, MaxPlayers)) * AnswerPoints
             + Cardinality(TitledTo(r, MaxPlayers)) * TitlePoints
<1> DEFINE C(n) == Cardinality(CastTo(r, n))
           U(n) == Cardinality(TitledTo(r, n))
           PaidTo(n) == Sums(after)[n] =
                        Sums(before)[n] + C(n) * AnswerPoints + U(n) * TitlePoints
           T == {n \in Nat : n <= MaxPlayers => PaidTo(n)}
<1>1. \A n \in Nat : C(n) \in Nat /\ U(n) \in Nat
    BY SlotsFinite DEF CastTo, TitledTo
<1>2. 0 \in T
  <2>1. CastTo(r, 0) = {}
    BY DEF CastTo
  <2>2. TitledTo(r, 0) = {}
    BY DEF TitledTo, RoundState, Slot
  <2>3. C(0) = 0 /\ U(0) = 0
    BY <2>1, <2>2, FS_EmptySet
  <2>4. Sums(after)[0] = 0 /\ Sums(before)[0] = 0
    BY SumsStep
  <2> HIDE DEF C, U
  <2> QED
    BY <2>3, <2>4, PointsAssumption
<1>3. ASSUME NEW n \in T PROVE n + 1 \in T
  <2> SUFFICES ASSUME n + 1 <= MaxPlayers PROVE PaidTo(n + 1)
    OBVIOUS
  <2>1. n \in Nat /\ n + 1 \in Slot /\ (n + 1) - 1 = n /\ PaidTo(n)
    BY MaxPlayersAssumption DEF Slot
  <2> DEFINE c == Cardinality(VotesFor(r, n + 1))
             u == Cardinality(VotesTitledBy(r, n + 1))
  <2>2. c \in Nat /\ u \in Nat
    BY SlotsFinite DEF VotesFor, VotesTitledBy
  <2>3. C(n + 1) = C(n) + c /\ U(n + 1) = U(n) + u
    BY <2>1, VotesAdd
  <2>4. RoundPay(r, n + 1) = c * AnswerPoints + u * TitlePoints
    BY <2>1, PayIs
  <2>5. /\ Sums(after)[n + 1] = Sums(after)[n] + after[n + 1]
        /\ Sums(before)[n + 1] = Sums(before)[n] + before[n + 1]
        /\ Sums(before)[n] \in Nat /\ before[n + 1] \in Nat
    <3>1. n \in 0 .. MaxPlayers
      BY <2>1, MaxPlayersAssumption
    <3> QED
      BY <2>1, <3>1, SumsStep
  <2>6. C(n) \in Nat /\ U(n) \in Nat
    BY <1>1, <2>1
  <2> HIDE DEF C, U, c, u
  <2>7. /\ (C(n) + c) * AnswerPoints = C(n) * AnswerPoints + c * AnswerPoints
        /\ (U(n) + u) * TitlePoints = U(n) * TitlePoints + u * TitlePoints
    BY <2>2, <2>6, PointsAssumption
  <2>8. /\ C(n) * AnswerPoints \in Nat /\ c * AnswerPoints \in Nat
        /\ U(n) * TitlePoints \in Nat /\ u * TitlePoints \in Nat
    BY <2>2, <2>6, PointsAssumption
  <2>9. Sums(after)[n + 1] =
          (Sums(before)[n] + C(n) * AnswerPoints + U(n) * TitlePoints)
          + (before[n + 1] + (c * AnswerPoints + u * TitlePoints))
    BY <2>1, <2>4, <2>5
  <2> QED
    BY <2>3, <2>5, <2>7, <2>8, <2>9
<1>4. MaxPlayers \in T
  <2> HIDE DEF T
  <2>1. T \in SUBSET Nat
    BY DEF T
  <2> QED
    BY <1>2, <1>3, <2>1, CountUp, MaxPlayersAssumption
<1> QED
    BY <1>4, MaxPlayersAssumption

----------------------------------------------------------------------------
(* The actions. *)

SInv ==
    /\ IInv
    /\ SeatInv(game, live, nextId)
    /\ ScoreInv(game)

PointsStep ==
    game.phase \in InGame =>
      IF game.phase = "VOTING" /\ game'.phase = "RESULTS"
      THEN TotalScore(game') = TotalScore(game)
             + Cardinality(VotesCast(game')) * AnswerPoints
             + Cardinality(VotesTitled(game')) * TitlePoints
      ELSE game'.score = game.score

\* What closing the vote pays is what PointsPaidOnce says.
LEMMA ScoredPays ==
    ASSUME NEW g, NEW h, GameInv(g), Scored(g, h),
           g.phase = "VOTING", h.phase = "RESULTS"
    PROVE  TotalScore(h) = TotalScore(g)
             + Cardinality(VotesCast(h)) * AnswerPoints
             + Cardinality(VotesTitled(h)) * TitlePoints
<1>1. /\ g.score \in [Slot -> Nat] /\ h.score \in [Slot -> Nat]
      /\ h.round \in RoundState /\ Dealt(h.round) /\ VotesCounted(h.round)
    BY DEF Scored, ScoreInv, BallotInv, GameInv, GameState
<1>2. \A p \in Slot : h.score[p] = g.score[p] + RoundPay(h.round, p)
    BY DEF Scored, Paid
<1>3. VotesCast(h) = CastTo(h.round, MaxPlayers)
    BY <1>1, NoSlotIsNone DEF VotesCast, CastTo, RoundState, Slot, NoSlot
<1>4. VotesTitled(h) = TitledTo(h.round, MaxPlayers)
  <2>1. \A w \in h.round.active : w <= MaxPlayers
    BY <1>1, MaxPlayersAssumption DEF RoundState, Slot
  <2> QED
    BY <2>1 DEF VotesTitled, VotesCast, TitledTo
<1> QED
    BY <1>1, <1>2, <1>3, <1>4, RoundPays DEF TotalScore

LEMMA ScoredStep ==
    ASSUME SInv, IInv', Scored(game, game'), UNCHANGED <<live, nextId>>
    PROVE  SInv' /\ PointsStep
<1>1. SeatInv(game', live, nextId)
    BY SameTableSeats DEF SInv, Scored
<1>2. SInv'
    BY <1>1 DEF SInv, Scored, SeatInv, ScoreInv, LevelInv, BallotInv
<1>3. PointsStep
  <2>1. CASE game.phase = "VOTING" /\ game'.phase = "RESULTS"
    BY <2>1, ScoredPays DEF PointsStep, SInv, IInv
  <2>2. CASE ~(game.phase = "VOTING" /\ game'.phase = "RESULTS")
    BY <2>2 DEF PointsStep, Scored, Paid
  <2> QED
    BY <2>1, <2>2
<1> QED
    BY <1>2, <1>3

LEMMA JoinScore ==
    ASSUME SInv, NEW id \in live \cup {nextId}, NEW n \in Name, Join(id, n)
    PROVE  SInv' /\ PointsStep
<1>1. IInv'
    BY JoinStep DEF SInv
<1>2. live \in SUBSET Nat /\ nextId \in Nat /\ id # 0
    BY MaxIdAssumption DEF SInv, IInv
<1>3. /\ SeatInv(game', live', nextId') /\ ScoreInv(game')
      /\ game.phase = "LOBBY"
    BY <1>2, JoinSeats DEF SInv, IInv, Join, JoinResult
<1>4. SInv'
    BY <1>1, <1>3 DEF SInv, SeatInv, ScoreInv, LevelInv, BallotInv
<1> QED
    BY <1>3, <1>4 DEF PointsStep, InGame

LEMMA ReadyScore ==
    ASSUME SInv, NEW id, Ready(id)
    PROVE  SInv' /\ PointsStep
<1> DEFINE g == HandleReady(game, id)
<1>1. IInv' /\ game.phase = "LOBBY" /\ GameInv(g)
    BY ReadyStep, ReadyKeeps DEF SInv, Ready, CanReady, IInv, Keeps
<1>2. SameTable(game, g) /\ ScoreInv(g) /\ g.phase = "LOBBY"
    BY <1>1, ReadyTable DEF SInv, IInv
<1>3. game' \in Start(g) /\ UNCHANGED <<live, nextId>>
    BY DEF Ready
<1> HIDE DEF g
<1>4. SameTable(g, game') /\ ScoreInv(game')
    BY <1>1, <1>2, <1>3, StartTable
<1>5. SeatInv(game', live, nextId)
    BY <1>2, <1>4, SameTableSeats DEF SInv
<1>6. SInv'
    BY <1>1, <1>3, <1>4, <1>5 DEF SInv, SeatInv, ScoreInv, LevelInv, BallotInv
<1> QED
    BY <1>1, <1>6 DEF PointsStep, InGame

LEMMA AnswerScore ==
    ASSUME SInv, NEW id, NEW option,
           Submit(id) \/ Rewrite(id) \/ Vote(id, option)
    PROVE  SInv' /\ PointsStep
<1> DEFINE target == VoteTargetId(game, option)
<1>1. IInv'
    BY AnswerStep DEF SInv
<1>2. PICK taken \in {HandleSubmit(game, id), HandleRewrite(game, id),
                      HandleVote(game, id, target)} : Settle(taken)
    BY DEF Submit, Rewrite, Vote
<1>3. Recorded(game, taken)
    BY <1>2, SubmitRecorded, RewriteRecorded, VoteRecorded
       DEF SInv, IInv, ScoreInv
<1>4. Scored(game, game') /\ UNCHANGED <<live, nextId>>
    BY <1>2, <1>3, SettleScored DEF Settle, SInv, ScoreInv
<1> QED
    BY <1>1, <1>4, ScoredStep

LEMMA ClockScore ==
    ASSUME SInv, OpenWindow \/ Elapse \/ Timeout
    PROVE  SInv' /\ PointsStep
<1>1. IInv' /\ UNCHANGED <<live, nextId>>
    BY ClockStep DEF SInv, OpenWindow, Elapse, Timeout
<1>2. GameInv(game) /\ ScoreInv(game)
    BY DEF SInv, IInv
<1>3. CASE OpenWindow \/ Elapse
  <2>1. PICK t \in Timer : /\ game.phase \in Window
                           /\ game' = SetDeadline(game, game.phase, t)
    BY <1>3 DEF OpenWindow, Elapse, StartWindow, PhaseDeadline, Timer
  <2>2. Recorded(game, game')
    BY <1>2, <2>1, DeadlineRecorded DEF ScoreInv
  <2>3. Moves(game, game') /\ Paid(game, game')
    BY <2>2 DEF Recorded, Keeps, Moves, Paid
  <2>4. Scored(game, game')
    BY <1>2, <2>2, <2>3, MovesScored DEF Recorded, ScoreInv
  <2> QED
    BY <1>1, <2>4, ScoredStep
<1>4. CASE Timeout
  <2>1. Scored(game, game')
    BY <1>2, <1>4, TimeoutScored DEF Timeout
  <2> QED
    BY <1>1, <2>1, ScoredStep
<1> QED
    BY <1>3, <1>4

LEMMA FinishScore ==
    ASSUME SInv, Finish
    PROVE  SInv' /\ PointsStep
<1>1. PICK g \in FinishRound(game) :
        game' = IF g.phase = "RESULTS" THEN EndGame(g) ELSE g
    BY DEF Finish
<1>2. /\ game.phase = "RESULTS" /\ UNCHANGED <<live, nextId>> /\ IInv'
      /\ game \in GameState /\ GameInv(game) /\ game.roundNumber \in Nat
    BY FinishStep DEF Finish, SInv, IInv, GameInv, GameState
<1>3. /\ g \in GameState
      /\ \/ g.phase \in {"OVER", "RESULTS"}
         \/ g.phase = "PROMPT" /\ g.roundNumber = game.roundNumber + 1
    BY <1>2, FinishOutcome, MembersEnough DEF InGame, Phase
<1>4. SameTable(game, g) /\ g.score = game.score
    BY <1>2, BeginTable, EndTable DEF FinishRound
<1>5. SameTable(game, game') /\ game'.score = game.score /\ ScoreInv(game')
  <2>1. CASE g.phase = "RESULTS"
    BY <1>1, <1>3, <1>4, <2>1, EndTable DEF SameTable
  <2>2. CASE g.phase = "OVER"
    BY <1>1, <1>4, <2>2 DEF ScoreInv, LevelInv, BallotInv, InGame
  <2>3. CASE g.phase = "PROMPT" /\ g.roundNumber = game.roundNumber + 1
    <3>1. game.roundNumber >= 1 /\ game.decided = {} /\ game.wants = {}
      BY <1>2 DEF SInv, ScoreInv, LevelInv, InGame, Phase
    <3>2. g.roundNumber # 1 /\ g.roundNumber >= 1
      BY <1>2, <2>3, <3>1
    <3>3. ScoreInv(g)
      BY <1>4, <2>3, <3>1, <3>2 DEF ScoreInv, LevelInv, BallotInv, SameTable
    <3> QED
      BY <1>1, <1>4, <2>3, <3>3
  <2> QED
    BY <1>3, <2>1, <2>2, <2>3
<1>6. SeatInv(game', live, nextId)
    BY <1>5, SameTableSeats DEF SInv
<1>7. SInv'
    BY <1>2, <1>5, <1>6 DEF SInv, SeatInv, ScoreInv, LevelInv, BallotInv
<1> QED
    BY <1>2, <1>5, <1>7 DEF PointsStep

LEMMA DisconnectScore ==
    ASSUME SInv, NEW id \in live, Disconnect(id)
    PROVE  SInv' /\ PointsStep
<1> DEFINE g == HandleDisconnect(game, id)
<1>1. /\ live \in SUBSET Nat /\ nextId \in Nat \ {0} /\ id \in live \ {0}
      /\ GameInv(game) /\ IInv'
    BY MaxIdAssumption, DisconnectStep DEF SInv, IInv
<1>2. /\ SeatInv(g, live \ {id}, nextId) /\ ScoreInv(g)
      /\ game.phase \in InGame => g.score = game.score
    BY <1>1, DisconnectTable DEF SInv, GameInv
<1>3. GameInv(g) /\ (g.phase = game.phase \/ g.phase = "OVER")
    BY <1>1, DisconnectOutcome
<1>4. game' \in AdvancePhaseIfReady(g) /\ live' = live \ {id} /\ nextId' = nextId
    BY DEF Disconnect
<1> HIDE DEF g
<1>5. Scored(g, game')
    BY <1>2, <1>3, <1>4, RecordedSelf, SettleScored DEF ScoreInv
<1>6. SeatInv(game', live', nextId')
    BY <1>2, <1>4, <1>5, SameTableSeats DEF Scored
<1>7. SInv'
    BY <1>1, <1>5, <1>6
       DEF SInv, SeatInv, Scored, ScoreInv, LevelInv, BallotInv
<1>8. PointsStep
  <2>1. CASE g.phase = game.phase
    <3>1. CASE game.phase = "VOTING" /\ game'.phase = "RESULTS"
      <4>1. g.score = game.score
        BY <1>2, <3>1 DEF InGame, Phase
      <4> QED
        BY <1>3, <1>5, <2>1, <3>1, <4>1, ScoredPays DEF PointsStep, TotalScore
    <3>2. CASE ~(game.phase = "VOTING" /\ game'.phase = "RESULTS")
      BY <1>2, <1>5, <2>1, <3>2 DEF PointsStep, Scored, Paid
    <3> QED
      BY <3>1, <3>2
  <2>2. CASE g.phase = "OVER"
    <3>1. game'.phase = "OVER"
      BY <1>3, <1>4, <2>2, AdvanceMoves DEF Moves
    <3> QED
      BY <1>2, <1>5, <2>2, <3>1 DEF PointsStep, Scored, Paid
  <2> QED
    BY <1>3, <2>1, <2>2
<1> QED
    BY <1>7, <1>8

LEMMA ReplayScore ==
    ASSUME SInv, NEW id, NEW wish, ReplayChoice(id, wish) \/ PlayAgain
    PROVE  SInv' /\ PointsStep
<1>1. /\ IInv' /\ game.phase = "OVER" /\ GameInv(game)
      /\ UNCHANGED <<live, nextId>>
    BY ReplayChoiceStep, PlayAgainStep
       DEF SInv, IInv, ReplayChoice, PlayAgain, CanChooseReplay
<1>2. game'.pid = game.pid /\ game'.connected = game.connected /\ ScoreInv(game')
  <2>1. CASE ReplayChoice(id, wish)
    BY <1>1, <2>1, ReplayChoiceTable DEF ReplayChoice, SInv
  <2>2. CASE PlayAgain
    <3>1. GameInv(PrepareReplay(game)) /\ PrepareReplay(game).phase = "LOBBY"
      BY <1>1, PrepareReplayInv
    <3> QED
      BY <1>1, <2>2, <3>1, PrepareTable, StartTable DEF PlayAgain, SameTable
  <2> QED
    BY <2>1, <2>2
<1>3. SeatInv(game', live, nextId)
    BY <1>2 DEF SInv, SeatInv
<1>4. SInv'
    BY <1>1, <1>2, <1>3 DEF SInv, SeatInv, ScoreInv, LevelInv, BallotInv
<1> QED
    BY <1>1, <1>4 DEF PointsStep, InGame

----------------------------------------------------------------------------
(* The invariant. *)

LEMMA InitScore == Init => SInv
<1> SUFFICES ASSUME Init PROVE SInv
    OBVIOUS
<1>1. IInv
    BY InitInv
<1>2. /\ game.phase = "LOBBY" /\ game.connected = {} /\ live = {} /\ nextId = 1
      /\ \A p \in Slot : game.pid[p] = 0 /\ game.score[p] = 0
      /\ game.decided = {} /\ game.wants = {}
    BY DEF Init, GameReset
<1> QED
    BY <1>1, <1>2
       DEF SInv, SeatInv, ScoreInv, LevelInv, BallotInv, InGame

LEMMA NextScore == SInv /\ [Next]_vars => SInv' /\ [PointsStep]_vars
<1> SUFFICES ASSUME SInv, [Next]_vars PROVE SInv' /\ [PointsStep]_vars
    OBVIOUS
<1>1. ASSUME NEW id \in live \cup {nextId}, NEW n \in Name, Join(id, n)
      PROVE  SInv' /\ PointsStep
    BY <1>1, JoinScore
<1>2. ASSUME NEW id \in live, Ready(id)
      PROVE  SInv' /\ PointsStep
    BY <1>2, ReadyScore
<1>3. ASSUME NEW id \in live, NEW option,
             Submit(id) \/ Rewrite(id) \/ Vote(id, option)
      PROVE  SInv' /\ PointsStep
    BY <1>3, AnswerScore
<1>4. ASSUME NEW id \in live, Disconnect(id)
      PROVE  SInv' /\ PointsStep
    BY <1>4, DisconnectScore
<1>5. ASSUME NEW id \in live, NEW wish \in BOOLEAN, ReplayChoice(id, wish)
      PROVE  SInv' /\ PointsStep
    BY <1>5, ReplayScore
<1>6. CASE OpenWindow \/ Elapse \/ Timeout
    BY <1>6, ClockScore
<1>7. CASE Finish
    BY <1>7, FinishScore
<1>8. CASE PlayAgain
    BY <1>8, ReplayScore
<1>9. CASE UNCHANGED vars
  <2>1. IInv'
    BY <1>9, NextInv DEF SInv
  <2> QED
    BY <1>9, <2>1
       DEF vars, SInv, SeatInv, ScoreInv, LevelInv, BallotInv, VotesCounted
<1> QED
    BY <1>1, <1>2, <1>3, <1>4, <1>5, <1>6, <1>7, <1>8, <1>9 DEF Next

LEMMA ScoreInvariance == Spec => []SInv
<1> QED
    BY InitScore, NextScore, PTL DEF Spec

----------------------------------------------------------------------------
(* The theorems. *)

\* A connected seat belongs to one live connection, and no two to the same
\* one, whoever comes, goes or takes over a spectator's slot.
THEOREM SeatsHold == Spec => []SeatsDistinct
<1>1. SInv => SeatsDistinct
  <2> SUFFICES ASSUME SInv PROVE SeatsDistinct
    OBVIOUS
  <2>1. game.connected \in SUBSET Slot /\ live \subseteq 1 .. MaxId
    BY DEF SInv, IInv, GameInv, GameState
  <2>2. \A p \in game.connected : game.pid[p] \in live /\ game.pid[p] # 0
    BY <2>1 DEF SInv, SeatInv
  <2> QED
    BY <2>1, <2>2 DEF SInv, SeatInv, SeatsDistinct
<1> QED
    BY <1>1, ScoreInvariance, PTL

\* Every match starts level, however many were played before and whoever
\* left or joined in between.
THEOREM LevelHolds == Spec => []LevelStart
<1>1. SInv => LevelStart
    BY DEF SInv, ScoreInv, LevelInv, LevelStart
<1> QED
    BY <1>1, ScoreInvariance, PTL

\* The votes counted are the votes cast, each once, for an entry that was
\* shown and is not the voter's own title.
THEOREM TallyHolds == Spec => []VotesTally
<1>1. SInv => VotesTally
    BY DEF SInv, ScoreInv, BallotInv, VotesCounted, VotesTally
<1> QED
    BY <1>1, ScoreInvariance, PTL

\* Closing a vote raises the total of all scores by what its votes are worth,
\* and nothing else in a match moves a score.
THEOREM PointsHold == Spec => PointsPaidOnce
<1>1. PointsPaidOnce <=> [][PointsStep]_vars
    BY DEF PointsPaidOnce, PointsStep
<1> QED
    BY <1>1, InitScore, NextScore, PTL DEF Spec
============================================================================
