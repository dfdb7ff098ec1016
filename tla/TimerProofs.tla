---------------------------- MODULE TimerProofs ----------------------------
(***************************************************************************)
(* Theorems about how the server moves a match on, for any number of       *)
(* players, rounds, connections and of these going bad at once: that it    *)
(* always has the one clock that does, that the clocks of the play-again   *)
(* lobby are wanted, that matches keep the order MatchFlow promises, that  *)
(* late votes never count, and when the server may stop.                   *)
(*                                                                         *)
(* They need what ServerProofs leaves open: where a match may be after     *)
(* something that sends.  Course says it of one call, whatever removals it *)
(* contains, and Leads adds it to Follows.  Handled says it of a line's    *)
(* handler, Passes and Ticks of a timer, Turns of a step of the loop.      *)
(* What carries them is that a phase begins Fresh, with nobody's answer    *)
(* in: of all that a step may bring about only one thing moves the match   *)
(* on, because what comes after finds it Fresh.  TimerInv, the invariant,  *)
(* says that a phase whose clock is not set has its own action pending.    *)
(* The last section is about the shutdown and needs ServerProofs only.     *)
(***************************************************************************)
EXTENDS ServerProofs

----------------------------------------------------------------------------
(* Phases.                                                                 *)

NextOf == [PROMPT |-> "REWRITE", REWRITE |-> "VOTING", VOTING |-> "RESULTS"]

\* Nobody has done yet what the phase asks for, nobody in the lobby is still
\* to get ready: nothing but a new answer can move it on.
Fresh(g) ==
    /\ g.phase = "LOBBY"   => g.joined \subseteq g.ready
    /\ g.phase = "PROMPT"  => g.round.active \cap g.round.submitted = {}
    /\ g.phase = "REWRITE" => g.round.active \cap g.round.rewritten = {}
    /\ g.phase = "VOTING"  => g.round.active \cap g.round.voted = {}

\* Every member has a question, and with it a fallback answer.
Asked(g) == g.phase = "PROMPT" => g.round.active \subseteq g.round.prompted

Sound(g) == Owned(g) /\ Asked(g)

\* A phase at its start.
Begun(g) == Fresh(g) /\ AllOff(g) /\ Asked(g)

\* The next phase, at its start.
Advanced(g, h) ==
    /\ g.phase \in Window /\ h.phase = NextOf[g.phase]
    /\ h.roundNumber = g.roundNumber
    /\ Begun(h)
    /\ g.phase # "REWRITE" => h.round.totals = g.round.totals

LEMMA BegunSound ==
    ASSUME NEW g, Begun(g)
    PROVE  Sound(g)
    BY AllOffOwned DEF Begun, Sound

LEMMA FreshStays ==
    ASSUME NEW g, Fresh(g), g.phase \in Window => GameInv(g)
    PROVE  AdvancePhaseIfReady(g) = {g}
<1>1. CASE g.phase \in Window
  <2>1. g.round.active # {}
    BY <1>1, MembersExist DEF Window, InGame, Phase
  <2> QED
    BY <1>1, <2>1 DEF AdvancePhaseIfReady, Fresh, AllSubmitted, AllRewritten,
                      AllVoted, Window
<1>2. CASE g.phase \notin Window
    BY <1>2 DEF AdvancePhaseIfReady, Window
<1> QED
    BY <1>1, <1>2

LEMMA PromptBegins ==
    ASSUME NEW g, GameInv(g), g.phase = "PROMPT", AllOff(g),
           g.round.active \subseteq g.round.submitted,
           NEW h \in AdvanceFromPrompt(g)
    PROVE  Advanced(g, h)
<1>1. g \in GameState /\ g.round \in RoundState /\ g.round.active # {}
    BY MembersExist DEF GameInv, GameState, InGame, Phase
<1>2. h.phase = "REWRITE" /\ h.roundNumber = g.roundNumber
    BY PromptMoves
<1>3. PICK r \in AssignRewriteTargets(g.round) :
        h = SetDeadline([g EXCEPT !.round = r, !.phase = "REWRITE"],
                        "REWRITE", "off")
    BY <1>1, <1>2 DEF AdvanceFromPrompt, GameState
<1>4. /\ r \in RoundState /\ r.active = g.round.active
      /\ r.deadline = g.round.deadline
      /\ r.rewritten = g.round.rewritten \ (g.round.active \cap g.round.submitted)
    BY <1>1, TargetsDealt
<1>5. r.totals = g.round.totals
    BY <1>1 DEF AssignRewriteTargets, RoundState
<1> DEFINE d == [g EXCEPT !.round = r, !.phase = "REWRITE"]
<1>6. d \in GameState /\ d.round = r
    BY <1>1, <1>4 DEF GameState, Phase
<1>7. h = SetDeadline(d, "REWRITE", "off")
    BY <1>3
<1> HIDE DEF d
<1>8. /\ h.round.active = r.active /\ h.round.rewritten = r.rewritten
      /\ h.round.deadline["REWRITE"] = "off"
      /\ \A u \in Window \ {"REWRITE"} : h.round.deadline[u] = r.deadline[u]
    BY <1>6, <1>7, SetDeadlineClocks DEF Window, Timer
<1>9. h.round.totals = r.totals
    BY <1>6, <1>7, SetDeadlineTable DEF Window, Timer, SameVotes
<1>10. AllOff(h)
    BY <1>4, <1>8 DEF AllOff
<1>11. Fresh(h) /\ Asked(h)
    BY <1>2, <1>4, <1>8 DEF Fresh, Asked
<1> QED
    BY <1>2, <1>5, <1>9, <1>10, <1>11 DEF Advanced, Begun, NextOf, Window

LEMMA RewriteBegins ==
    ASSUME NEW g, GameInv(g), g.phase = "REWRITE", AllOff(g)
    PROVE  Advanced(g, AdvanceFromRewrite(g))
<1> DEFINE h == AdvanceFromRewrite(g)
           r == PrepareVoting(g.round)
           d == [g EXCEPT !.round = r, !.phase = "VOTING"]
<1>1. g \in GameState /\ g.round \in RoundState
    BY DEF GameInv, GameState
<1>2. h.phase = "VOTING" /\ h.roundNumber = g.roundNumber
    BY RewriteMoves
<1>3. h = SetDeadline(d, "VOTING", "off")
  <2>1. CASE CanPrepareVoting(g.round)
    BY <2>1 DEF AdvanceFromRewrite
  <2>2. CASE ~CanPrepareVoting(g.round)
    BY <1>1, <1>2, <2>2 DEF AdvanceFromRewrite, GameState
  <2> QED
    BY <2>1, <2>2
<1>4. /\ r \in RoundState /\ r.deadline = g.round.deadline /\ r.voted = {}
    BY <1>1 DEF PrepareVoting, RoundState
<1> HIDE DEF r
<1>5. d \in GameState /\ d.round = r
    BY <1>1, <1>4 DEF GameState, Phase
<1> HIDE DEF d
<1>6. /\ h.round.voted = r.voted
      /\ h.round.deadline["VOTING"] = "off"
      /\ \A u \in Window \ {"VOTING"} : h.round.deadline[u] = r.deadline[u]
    BY <1>3, <1>5, SetDeadlineClocks DEF Window, Timer
<1> HIDE DEF h
<1>7. AllOff(h)
    BY <1>4, <1>6 DEF AllOff
<1>8. Fresh(h) /\ Asked(h)
    BY <1>2, <1>4, <1>6 DEF Fresh, Asked
<1>9. Advanced(g, h)
    BY <1>2, <1>7, <1>8 DEF Advanced, Begun, NextOf, Window
<1> QED
    BY <1>9 DEF h

LEMMA VotingBegins ==
    ASSUME NEW g, GameInv(g), g.phase = "VOTING", AllOff(g)
    PROVE  Advanced(g, AdvanceFromVoting(g))
<1> DEFINE h == AdvanceFromVoting(g)
<1>1. h.phase = "RESULTS" /\ h.roundNumber = g.roundNumber
    BY VotingMoves
<1>2. h.round = g.round
    BY DEF AdvanceFromVoting, ApplyRoundScores, GameInv, GameState
<1> HIDE DEF h
<1>3. Advanced(g, h)
    BY <1>1, <1>2 DEF Advanced, Begun, Fresh, Asked, AllOff, NextOf, Window
<1> QED
    BY <1>3 DEF h

\* The game's own clock is taken away and the rest is as it was.
LEMMA CloseWindowKeeps ==
    ASSUME NEW g, GameInv(g), Owned(g), g.phase \in Window
    PROVE  LET c == SetDeadline(g, g.phase, "off")
           IN  /\ GameInv(c) /\ AllOff(c)
               /\ c.phase = g.phase /\ c.roundNumber = g.roundNumber
               /\ c.round.totals = g.round.totals
               /\ c.round.active = g.round.active
               /\ c.round.submitted = g.round.submitted
<1>1. g \in GameState
    BY DEF GameInv
<1> QED
    BY <1>1, CloseWindow, SetDeadlineInv, SetDeadlineTable DEF SameVotes, Timer

LEMMA CompleteBegins ==
    ASSUME NEW g, GameInv(g), Owned(g), NEW h \in AdvancePhaseIfReady(g),
           \/ g.phase = "PROMPT" /\ AllSubmitted(g.round)
           \/ g.phase = "REWRITE" /\ AllRewritten(g.round)
           \/ g.phase = "VOTING" /\ AllVoted(g.round)
    PROVE  Advanced(g, h)
<1> DEFINE c == SetDeadline(g, g.phase, "off")
<1>1. /\ GameInv(c) /\ AllOff(c)
      /\ c.phase = g.phase /\ c.roundNumber = g.roundNumber
      /\ c.round.totals = g.round.totals
      /\ c.round.active = g.round.active
      /\ c.round.submitted = g.round.submitted
    BY CloseWindowKeeps DEF Window
<1>2. CASE g.phase = "PROMPT" /\ AllSubmitted(g.round)
  <2>1. h \in AdvanceFromPrompt(c)
    BY <1>2 DEF AdvancePhaseIfReady
  <2> HIDE DEF c
  <2>2. Advanced(c, h)
    BY <1>1, <1>2, <2>1, PromptBegins DEF AllSubmitted
  <2> QED
    BY <1>1, <2>2 DEF Advanced
<1>3. CASE g.phase = "REWRITE" /\ AllRewritten(g.round)
  <2>1. h = AdvanceFromRewrite(c)
    BY <1>3 DEF AdvancePhaseIfReady
  <2> HIDE DEF c
  <2>2. Advanced(c, h)
    BY <1>1, <1>3, <2>1, RewriteBegins
  <2> QED
    BY <1>1, <2>2 DEF Advanced
<1>4. CASE g.phase = "VOTING" /\ AllVoted(g.round)
  <2>1. h = AdvanceFromVoting(c)
    BY <1>4 DEF AdvancePhaseIfReady
  <2> HIDE DEF c
  <2>2. Advanced(c, h)
    BY <1>1, <1>4, <2>1, VotingBegins
  <2> QED
    BY <1>1, <2>2 DEF Advanced
<1> QED
    BY <1>2, <1>3, <1>4

\* A phase moves on from its last answer to the start of the next phase.
LEMMA AdvanceBegins ==
    ASSUME NEW g, g.phase \in Window => GameInv(g), Owned(g),
           NEW h \in AdvancePhaseIfReady(g)
    PROVE  h = g \/ (~Fresh(g) /\ Advanced(g, h))
<1>1. CASE h # g
  <2>1. ~Fresh(g)
    BY <1>1, FreshStays
  <2>2. \/ g.phase = "PROMPT" /\ AllSubmitted(g.round)
        \/ g.phase = "REWRITE" /\ AllRewritten(g.round)
        \/ g.phase = "VOTING" /\ AllVoted(g.round)
    BY <1>1 DEF AdvancePhaseIfReady
  <2>3. Advanced(g, h)
    BY <2>2, CompleteBegins DEF Window
  <2> QED
    BY <2>1, <2>3
<1> QED
    BY <1>1

\* Filled in, a phase is complete.
LEMMA FillCompletes ==
    ASSUME NEW g, GameInv(g), Asked(g), g.phase \in Window
    PROVE  LET h == FillMissing(g)
           IN  /\ GameInv(h) /\ h.phase = g.phase
               /\ h.roundNumber = g.roundNumber
               /\ h.round.deadline = g.round.deadline
               /\ h.round.totals = g.round.totals
               /\ \/ h.phase = "PROMPT" /\ AllSubmitted(h.round)
                  \/ h.phase = "REWRITE" /\ AllRewritten(h.round)
                  \/ h.phase = "VOTING" /\ AllVoted(h.round)
<1> DEFINE h == FillMissing(g)
<1>1. GameInv(h) /\ h.phase = g.phase /\ h.roundNumber = g.roundNumber
    BY FillMissingKeeps DEF Keeps
<1>2. g \in GameState /\ g.round \in RoundState /\ g.round.on
    BY MembersExist DEF GameInv, GameState, Window, InGame, Phase
<1>3. h.round.deadline = g.round.deadline
    BY <1>2, FillSameClocks DEF SameClocks
<1>4. h.round.on /\ h.round.participants # 0
    BY <1>1, MembersExist DEF Window, InGame, Phase
<1>5. CASE g.phase = "PROMPT"
  <2>1. h.round = ApplyMissingFallbacks(g.round)
    BY <1>2, <1>5 DEF FillMissing, GameState
  <2>2. /\ h.round.totals = g.round.totals
        /\ h.round.active \subseteq h.round.submitted
    BY <1>2, <1>5, <2>1 DEF ApplyMissingFallbacks, RoundState, CanSubmit, Asked
  <2> QED
    BY <1>1, <1>3, <1>4, <1>5, <2>2 DEF AllSubmitted
<1>6. CASE g.phase = "REWRITE"
  <2>1. h.round = ApplyMissingRewrites(g.round)
    BY <1>2, <1>6 DEF FillMissing, GameState
  <2>2. \A p \in g.round.active : p \in Slot /\ g.round.target[p] # NoSlot
    BY <1>2, <1>6, NoSlotIsNone DEF GameInv, Dealt, RoundState
  <2>3. /\ h.round.totals = g.round.totals
        /\ h.round.active \subseteq h.round.rewritten
    BY <1>2, <2>1, <2>2 DEF ApplyMissingRewrites, RoundState, CanRewrite
  <2> QED
    BY <1>1, <1>3, <1>4, <1>6, <2>3 DEF AllRewritten
<1>7. CASE g.phase = "VOTING"
  <2>1. h.round = ApplyMissingVotes(g.round)
    BY <1>2, <1>7 DEF FillMissing, GameState
  <2>2. /\ h.round.totals = g.round.totals
        /\ h.round.active \subseteq h.round.voted
    BY <1>2, <2>1 DEF ApplyMissingVotes, RoundState
  <2> QED
    BY <1>1, <1>3, <1>4, <1>7, <2>2 DEF AllVoted
<1> QED
    BY <1>5, <1>6, <1>7 DEF Window

\* A deadline that has passed always ends its phase.
LEMMA TimeoutBegins ==
    ASSUME NEW g, GameInv(g), Sound(g), PhaseDeadline(g) = "due",
           NEW h \in ApplyPhaseTimeout(g)
    PROVE  Advanced(g, h)
<1> DEFINE c == SetDeadline(g, g.phase, "off")
           f == FillMissing(c)
<1>1. g.phase \in Window /\ g \in GameState
    BY DEF PhaseDeadline, GameInv
<1>2. /\ GameInv(c) /\ AllOff(c)
      /\ c.phase = g.phase /\ c.roundNumber = g.roundNumber
      /\ c.round.totals = g.round.totals
      /\ c.round.active = g.round.active
    BY <1>1, CloseWindowKeeps DEF Sound
<1>3. Asked(c)
  <2>1. c.round.prompted = g.round.prompted
    BY <1>1 DEF SetDeadline, GameState, RoundState
  <2> QED
    BY <1>2, <2>1 DEF Asked, Sound
<1>4. h \in AdvancePhaseIfReady(f)
    BY DEF ApplyPhaseTimeout
<1> HIDE DEF c
<1>5. /\ GameInv(f) /\ f.phase = c.phase
      /\ f.roundNumber = c.roundNumber
      /\ f.round.deadline = c.round.deadline
      /\ f.round.totals = c.round.totals
      /\ \/ f.phase = "PROMPT" /\ AllSubmitted(f.round)
         \/ f.phase = "REWRITE" /\ AllRewritten(f.round)
         \/ f.phase = "VOTING" /\ AllVoted(f.round)
    BY <1>1, <1>2, <1>3, FillCompletes
<1> HIDE DEF f
<1>6. Owned(f)
    BY <1>2, <1>5 DEF AllOff, Owned
<1>7. Advanced(f, h)
    BY <1>4, <1>5, <1>6, CompleteBegins
<1> QED
    BY <1>2, <1>5, <1>7 DEF Advanced

\* What a player who leaves changes of the match's progress: nothing.
LEMMA LeaverKeepsTime ==
    ASSUME NEW g \in GameState, NEW id
    PROVE  LET h == HandleDisconnect(g, id)
           IN  /\ h.roundNumber = g.roundNumber
               /\ h.round.deadline = g.round.deadline
               /\ h.round.totals = g.round.totals
               /\ h.phase \in {g.phase, "OVER"}
               /\ Sound(g) => Sound(h)
               /\ Fresh(g) => Fresh(h)
<1> DEFINE p == SlotOf(g, id)
           h == HandleDisconnect(g, id)
<1>1. g.round \in RoundState
    BY DEF GameState
<1>2. CASE p = NoSlot
    BY <1>2 DEF HandleDisconnect
<1>3. CASE p # NoSlot /\ g.phase = "LOBBY"
  <2>1. h = ResetPlayer(g, p)
    BY <1>3 DEF HandleDisconnect
  <2> HIDE DEF h, p
  <2>2. /\ h.phase = g.phase /\ h.roundNumber = g.roundNumber
        /\ h.round = g.round
        /\ h.joined = g.joined \ {p} /\ h.ready = g.ready \ {p}
    BY <2>1 DEF ResetPlayer, GameState
  <2> QED
    BY <1>3, <2>2 DEF Sound, Owned, Asked, Fresh, h
<1>4. CASE p # NoSlot /\ g.phase # "LOBBY"
  <2> DEFINE r == IF g.round.on THEN Deactivate(g.round, p) ELSE g.round
             left == [g EXCEPT !.connected = @ \ {p},
                               !.ready = @ \ {p},
                               !.decided = @ \ {p},
                               !.wants = @ \ {p},
                               !.round = r]
  <2>1. h \in {left, EndGame(left)}
    BY <1>4 DEF HandleDisconnect, LeaveMatch
  <2> HIDE DEF h, p
  <2>2. /\ r.deadline = g.round.deadline /\ r.totals = g.round.totals
        /\ r.active \subseteq g.round.active
        /\ r.prompted = g.round.prompted /\ r.submitted = g.round.submitted
        /\ r.rewritten = g.round.rewritten /\ r.voted = g.round.voted
    BY <1>1 DEF Deactivate, RoundState
  <2> HIDE DEF r
  <2>3. /\ left.phase = g.phase /\ left.round = r
        /\ left.roundNumber = g.roundNumber
    BY DEF GameState
  <2>4. /\ EndGame(left).phase = "OVER" /\ EndGame(left).round = r
        /\ EndGame(left).roundNumber = g.roundNumber
    BY DEF EndGame, GameState
  <2> HIDE DEF left
  <2>5. /\ h.phase \in {g.phase, "OVER"} /\ h.round = r
        /\ h.roundNumber = g.roundNumber
    BY <2>1, <2>3, <2>4
  <2>6. Sound(g) => Sound(h)
    BY <2>2, <2>5 DEF Sound, Owned, Asked, InGame
  <2>7. Fresh(g) => Fresh(h)
    BY <1>4, <2>2, <2>5 DEF Fresh
  <2> QED
    BY <2>2, <2>5, <2>6, <2>7 DEF h
<1> QED
    BY <1>2, <1>3, <1>4

----------------------------------------------------------------------------
(* Rounds and matches that begin. *)

LEMMA RoundBegins ==
    ASSUME NEW g \in GameState, NEW h \in BeginRound(g)
    PROVE  \/ h.phase = "PROMPT" /\ Begun(h)
           \/ /\ h.phase = g.phase /\ h.joined = g.joined /\ h.ready = g.ready
              /\ h.round = g.round \/ h.round = RoundReset
<1> DEFINE fresh == RoundBegin(Joined(g))
           begun == [g EXCEPT !.round = AssignPrompts(fresh),
                              !.roundNumber = @ + 1,
                              !.phase = "PROMPT"]
           wiped == [g EXCEPT !.round = RoundReset]
<1>1. h \in {g, begun, wiped}
    BY DEF BeginRound
<1>2. CASE h = begun
  <2>1. h.phase = "PROMPT" /\ h.round = AssignPrompts(fresh)
    BY <1>2 DEF GameState
  <2>2. /\ h.round.submitted = {} /\ h.round.prompted = h.round.active
        /\ h.round.deadline = [w \in Window |-> "off"]
    BY <2>1 DEF AssignPrompts, RoundBegin, RoundReset
  <2> QED
    BY <2>1, <2>2 DEF Begun, Fresh, AllOff, Asked
<1>3. CASE h = wiped
    BY <1>3 DEF GameState
<1> QED
    BY <1>1, <1>2, <1>3

LEMMA ResetSound ==
    ASSUME NEW g, g.round = RoundReset
    PROVE  Sound(g)
    BY DEF Sound, Owned, Asked, RoundReset

LEMMA StartBegins ==
    ASSUME NEW g, GameInv(g), g.phase = "LOBBY", NEW h \in Start(g)
    PROVE  \/ h.phase = "PROMPT" /\ h.roundNumber = 1 /\ Begun(h)
           \/ /\ h.phase = "LOBBY" /\ h.roundNumber = 0
              /\ Sound(h) /\ (Fresh(g) => Fresh(h))
<1>1. g \in GameState
    BY DEF GameInv
<1>2. \/ h.phase = "PROMPT" /\ h.roundNumber = 1
      \/ h.phase = "LOBBY" /\ h.roundNumber = 0
    BY StartOutcome
<1>3. CASE h = g
    BY <1>2, <1>3 DEF Sound, Owned, Asked, InGame
<1>4. CASE h \in BeginRound(g)
    BY <1>1, <1>2, <1>4, RoundBegins DEF Sound, Owned, Asked, Fresh, InGame
<1> QED
    BY <1>3, <1>4 DEF Start

LEMMA FinishBegins ==
    ASSUME NEW g \in GameState, g.phase = "RESULTS", Sound(g),
           JoinedCount(g) >= MinPlayers, NEW h \in FinishRound(g)
    PROVE  \/ h.phase = "OVER" /\ h.roundNumber = g.roundNumber
           \/ /\ h.phase = "PROMPT" /\ g.roundNumber < TotalRounds
              /\ h.roundNumber = g.roundNumber + 1 /\ Begun(h)
           \/ /\ h.phase = "RESULTS" /\ h.roundNumber = g.roundNumber
              /\ ~IsFinalRound(g) /\ Sound(h)
<1>1. CASE IsFinalRound(g)
    BY <1>1 DEF FinishRound, EndGame, GameState
<1>2. CASE ~IsFinalRound(g)
  <2>1. h \in BeginRound(g)
    BY <1>2 DEF FinishRound
  <2>2. \/ h.phase = "OVER" /\ h.roundNumber = g.roundNumber
        \/ /\ h.phase = "PROMPT" /\ g.roundNumber < TotalRounds
           /\ h.roundNumber = g.roundNumber + 1
        \/ h.phase = "RESULTS" /\ h.roundNumber = g.roundNumber
    BY FinishOutcome
  <2>3. h.phase = "RESULTS" /\ (h.round = g.round \/ h.round = RoundReset) => Sound(h)
    BY ResetSound DEF Sound, Owned, Asked
  <2> QED
    BY <1>2, <2>1, <2>2, <2>3, RoundBegins
<1> QED
    BY <1>1, <1>2

LEMMA ReplayFresh ==
    ASSUME NEW g \in GameState
    PROVE  Fresh(PrepareReplay(g))
    BY DEF PrepareReplay, Fresh, GameState

\* Those who want another match are seated and ready, so with a bank that
\* loads it begins.
LEMMA ReplayBegins ==
    ASSUME NEW g, GameInv(g), ReplayCount(g) >= MinPlayers,
           FALSE \notin BankOutcomes, NEW h \in Start(PrepareReplay(g))
    PROVE  h.phase = "PROMPT"
<1> DEFINE r == PrepareReplay(g)
           again == g.connected \cap g.wants
<1>1. g \in GameState
    BY DEF GameInv
<1>2. again \in SUBSET Slot /\ IsFiniteSet(again) /\ Cardinality(again) \in Nat
  <2>1. again \in SUBSET Slot
    BY <1>1 DEF GameState
  <2> QED
    BY <2>1, SlotsFinite
<1>3. Cardinality(again) >= MinPlayers
    BY DEF ReplayCount
<1>4. Cardinality(again) <= MaxPlayers
  <2>1. IsFiniteSet(Slot) /\ Cardinality(Slot) = MaxPlayers
    BY FS_Interval, MaxPlayersAssumption DEF Slot
  <2> HIDE DEF again
  <2> QED
    BY <1>2, <2>1, FS_Subset
<1>5. /\ r.phase = "LOBBY" /\ r.roundNumber = 0
      /\ Joined(r) = again /\ r.ready = again
    BY <1>1 DEF PrepareReplay, GameState, Joined
<1> HIDE DEF r, again
<1>6. JoinedCount(r) = Cardinality(again) /\ Joined(r) \cap r.ready = again
    BY <1>5 DEF JoinedCount
<1>7. CanStart(r)
    BY <1>2, <1>3, <1>4, <1>5, <1>6 DEF CanStart
<1>8. h \in BeginRound(r)
    BY <1>7 DEF Start, r
<1> DEFINE fresh == RoundBegin(Joined(r))
<1>9. ~PromptsMayFail(fresh)
  <2>1. fresh.on /\ fresh.participants = Cardinality(again)
    BY <1>5 DEF RoundBegin, RoundReset
  <2>2. fresh.participants # 0
    BY <1>2, <1>3, <2>1, MinPlayersAssumption
  <2> QED
    BY <2>1, <2>2 DEF PromptsMayFail
<1>10. 0 + 1 <= Categories
    BY RoundsAssumption
<1>11. h = [r EXCEPT !.round = AssignPrompts(fresh),
                     !.roundNumber = @ + 1,
                     !.phase = "PROMPT"]
  <2> HIDE DEF fresh
  <2>1. ~(r.phase \notin {"LOBBY", "RESULTS"} \/ r.roundNumber + 1 > Categories)
    BY <1>5, <1>10, RoundsAssumption
  <2> QED
    BY <1>8, <1>9, <2>1 DEF BeginRound, fresh
<1>12. r \in GameState
    BY PrepareReplayInv DEF GameInv, r
<1> HIDE DEF fresh
<1> QED
    BY <1>11, <1>12 DEF GameState

----------------------------------------------------------------------------
(* Answers. *)

\* What an accepted answer, title or vote leaves alone.
AnswerKept(g, h) ==
    /\ h.phase = g.phase /\ h.roundNumber = g.roundNumber
    /\ h.round.deadline = g.round.deadline
    /\ Sound(g) => Sound(h)
    /\ g.phase # "VOTING" => h.round.totals = g.round.totals
    /\ GameInv(g) /\ Fresh(g) => AdvancePhaseIfReady(h) = {h}

LEMMA OneOfMany ==
    ASSUME NEW S \in SUBSET Slot, Cardinality(S) >= MinPlayers, NEW p
    PROVE  \E q \in S : q # p
<1>1. IsFiniteSet(S) /\ Cardinality(S) \in Nat
    BY SlotsFinite
<1>2. CASE S \subseteq {p}
  <2>1. IsFiniteSet({p}) /\ Cardinality({p}) = 1
    BY FS_Singleton
  <2>2. Cardinality(S) <= 1
    BY <1>2, <2>1, FS_Subset
  <2> QED
    BY <1>1, <2>2, MinPlayersAssumption
<1> QED
    BY <1>2

LEMMA ManyMembers ==
    ASSUME NEW g, GameInv(g), g.phase \in Window, NEW p
    PROVE  \E q \in g.round.active : q # p
<1>1. /\ g.round.active \in SUBSET Slot
      /\ Cardinality(g.round.active) >= MinPlayers
    BY DEF GameInv, Members, GameState, RoundState, Window, InGame, Phase
<1> QED
    BY <1>1, OneOfMany

LEMMA IgnoredKept ==
    ASSUME NEW g
    PROVE  AnswerKept(g, g)
    BY FreshStays DEF AnswerKept

\* A round in which p has answered and nothing else has changed.
LEMMA AnsweredKept ==
    ASSUME NEW g \in GameState, g.phase \in Window, NEW r, NEW p,
           r.active = g.round.active, r.prompted = g.round.prompted,
           r.deadline = g.round.deadline,
           g.phase # "VOTING" => r.totals = g.round.totals,
           g.phase = "PROMPT"  => r.submitted \subseteq g.round.submitted \cup {p},
           g.phase = "REWRITE" => r.rewritten \subseteq g.round.rewritten \cup {p},
           g.phase = "VOTING"  => r.voted \subseteq g.round.voted \cup {p}
    PROVE  AnswerKept(g, [g EXCEPT !.round = r])
<1> DEFINE h == [g EXCEPT !.round = r]
<1>1. h.phase = g.phase /\ h.roundNumber = g.roundNumber /\ h.round = r
    BY DEF GameState
<1> HIDE DEF h
<1>2. Sound(g) => Sound(h)
    BY <1>1 DEF Sound, Owned, Asked
<1>3. ASSUME GameInv(g), Fresh(g) PROVE AdvancePhaseIfReady(h) = {h}
  <2>1. PICK q \in g.round.active : q # p
    BY <1>3, ManyMembers
  <2>2. CASE g.phase = "PROMPT"
    BY <1>1, <1>3, <2>1, <2>2 DEF Fresh, AllSubmitted, AdvancePhaseIfReady
  <2>3. CASE g.phase = "REWRITE"
    BY <1>1, <1>3, <2>1, <2>3 DEF Fresh, AllRewritten, AdvancePhaseIfReady
  <2>4. CASE g.phase = "VOTING"
    BY <1>1, <1>3, <2>1, <2>4 DEF Fresh, AllVoted, AdvancePhaseIfReady
  <2> QED
    BY <2>2, <2>3, <2>4 DEF Window
<1>4. AnswerKept(g, h)
    BY <1>1, <1>2, <1>3 DEF AnswerKept
<1> QED
    BY <1>4 DEF h

LEMMA SubmitKept ==
    ASSUME NEW g \in GameState, NEW id
    PROVE  AnswerKept(g, HandleSubmit(g, id))
<1> DEFINE p == SlotOf(g, id)
           r == RecordSubmission(g.round, p)
<1>1. CASE HandleSubmit(g, id) = g
    BY <1>1, IgnoredKept
<1>2. CASE /\ g.phase = "PROMPT"
           /\ HandleSubmit(g, id) = [g EXCEPT !.round = RecordSubmission(@, p)]
  <2>1. HandleSubmit(g, id) = [g EXCEPT !.round = r]
    BY <1>2 DEF GameState
  <2>2. /\ r.active = g.round.active /\ r.prompted = g.round.prompted
        /\ r.deadline = g.round.deadline /\ r.totals = g.round.totals
        /\ r.submitted = g.round.submitted \cup {p}
    BY DEF RecordSubmission, GameState, RoundState
  <2> HIDE DEF r
  <2>3. AnswerKept(g, [g EXCEPT !.round = r])
    BY <1>2, <2>2, AnsweredKept DEF Window
  <2> QED
    BY <2>1, <2>3
<1> QED
    BY <1>1, <1>2 DEF HandleSubmit

LEMMA RewriteKept ==
    ASSUME NEW g \in GameState, NEW id
    PROVE  AnswerKept(g, HandleRewrite(g, id))
<1> DEFINE p == SlotOf(g, id)
           r == RecordRewrite(g.round, p)
<1>1. CASE HandleRewrite(g, id) = g
    BY <1>1, IgnoredKept
<1>2. CASE /\ g.phase = "REWRITE"
           /\ HandleRewrite(g, id) = [g EXCEPT !.round = RecordRewrite(@, p)]
  <2>1. HandleRewrite(g, id) = [g EXCEPT !.round = r]
    BY <1>2 DEF GameState
  <2>2. /\ r.active = g.round.active /\ r.prompted = g.round.prompted
        /\ r.deadline = g.round.deadline /\ r.totals = g.round.totals
        /\ r.rewritten = g.round.rewritten \cup {p}
    BY DEF RecordRewrite, GameState, RoundState
  <2> HIDE DEF r
  <2>3. AnswerKept(g, [g EXCEPT !.round = r])
    BY <1>2, <2>2, AnsweredKept DEF Window
  <2> QED
    BY <2>1, <2>3
<1> QED
    BY <1>1, <1>2 DEF HandleRewrite

LEMMA VoteKept ==
    ASSUME NEW g \in GameState, NEW id, NEW other
    PROVE  AnswerKept(g, HandleVote(g, id, other))
<1> DEFINE p == SlotOf(g, id)
           r == RecordVote(g.round, p, SlotOf(g, other))
<1>1. CASE HandleVote(g, id, other) = g
    BY <1>1, IgnoredKept
<1>2. CASE /\ g.phase = "VOTING"
           /\ HandleVote(g, id, other)
                = [g EXCEPT !.round = RecordVote(@, p, SlotOf(g, other))]
  <2>1. HandleVote(g, id, other) = [g EXCEPT !.round = r]
    BY <1>2 DEF GameState
  <2>2. /\ r.active = g.round.active /\ r.prompted = g.round.prompted
        /\ r.deadline = g.round.deadline
        /\ r.voted = g.round.voted \cup {p}
    BY DEF RecordVote, GameState, RoundState
  <2> HIDE DEF r
  <2>3. AnswerKept(g, [g EXCEPT !.round = r])
    BY <1>2, <2>2, AnsweredKept DEF Window
  <2> QED
    BY <2>1, <2>3
<1> QED
    BY <1>1, <1>2 DEF HandleVote, VoteAccepted

----------------------------------------------------------------------------
(* Where a match may be after anything that sends. *)

\* The prompts, or the board, that a phase begins with.
Titles == [REWRITE |-> "TITLE_PROMPT",
           VOTING  |-> "VOTING_PROMPT",
           RESULTS |-> "ROUND_RESULTS"]

\* The match is where it was.
Kept(s, t) ==
    /\ t.game.phase = s.game.phase /\ t.game.roundNumber = s.game.roundNumber
    /\ t.game.round.deadline = s.game.round.deadline
    /\ t.pending = s.pending
    /\ Fresh(s.game) => Fresh(t.game)

\* Over in the same round: just broken off, or over before.
Over(s, t) ==
    t.game.phase = "OVER" /\ t.game.roundNumber = s.game.roundNumber

\* Who left was the last one the phase waited for.
Moved(s, t) ==
    /\ s.game.phase \in Window /\ ~Fresh(s.game)
    /\ t.game.phase = NextOf[s.game.phase]
    /\ t.game.roundNumber = s.game.roundNumber
    /\ Fresh(t.game) /\ AllOff(t.game)
    /\ t.pending = Titles[t.game.phase]

\* Who left was the last one who did not want another match: it has begun,
\* it has begun and is broken off, or the prompts could not be loaded.
Again(s, t) ==
    /\ ReplayCount(s.game) >= MinPlayers /\ Fresh(t.game)
    /\ \/ /\ t.game.phase = "PROMPT" /\ t.game.roundNumber = 1
          /\ AllOff(t.game)
          /\ \/ t.pending = "QUESTION_PROMPT"
             \/ t.pending = "REPLAY_START" /\ s.flaky # {}
       \/ t.game.phase = "OVER" /\ t.game.roundNumber = 1 /\ t.game.wants = {}
       \/ t.game.phase = "LOBBY" /\ FALSE \in BankOutcomes

\* Votes change only when one is taken and when a ballot is opened.
VotesKept(s, t) ==
    s.game.phase \in {"VOTING", "RESULTS", "OVER"}
      /\ ReplayCount(s.game) < MinPlayers =>
        t.game.round.totals = s.game.round.totals

\* The countdown runs for players who want another match only.
Awake(s) == s.pending = "REPLAY_START" => ReplayCount(s.game) >= MinPlayers

\* Whoever leaves cannot set off another send that fails, or nobody is there
\* to begin another match.
Steady(s) == s.flaky = {} \/ ReplayCount(s.game) < MinPlayers

Course(s, t) ==
    /\ t.flaky \subseteq s.flaky
    /\ Sound(t.game)
    /\ s.game.phase = "LOBBY" => Kept(s, t)
    /\ s.game.phase \in InGame => Kept(s, t) \/ Over(s, t) \/ Moved(s, t)
    /\ s.game.phase = "OVER" => Over(s, t) \/ Again(s, t)
    /\ VotesKept(s, t)

Leads(s, t) ==
    /\ Follows(s, t)
    /\ Sound(s.game) => Course(s, t) /\ (Steady(s) /\ Awake(s) => Awake(t))

LEMMA KeptSelf ==
    ASSUME NEW s, NEW t, t.game = s.game, t.pending = s.pending
    PROVE  Kept(s, t)
    BY DEF Kept

\* A change outside the match.
LEMMA CourseSame ==
    ASSUME NEW s, NEW t, t.game = s.game, Sound(s.game),
           t.flaky \subseteq s.flaky,
           s.game.phase = "OVER" \/ t.pending = s.pending
    PROVE  Course(s, t)
    BY KeptSelf DEF Course, Over, VotesKept, InGame

LEMMA LeadsSelf ==
    ASSUME NEW s, Sane(s)
    PROVE  Leads(s, s)
    BY FollowsSelf, CourseSame DEF Leads

LEMMA HeldFacts ==
    ASSUME NEW s, Held(s)
    PROVE  /\ s.game \in GameState /\ s.game.phase \in Phase
           /\ ReplayCount(s.game) \in Nat
           /\ s.game.phase \in Window => GameInv(s.game)
           /\ s.game.phase # "OVER" => ReplayCount(s.game) < MinPlayers
<1>1. s.game \in GameState
    BY DEF Held, Fits, Safe
<1>2. s.game.phase \in Window => GameInv(s.game)
    BY DEF Held, Fits, Safe, Wiped, Window
<1>3. s.game.phase # "OVER" => ReplayCount(s.game) < MinPlayers
    BY NoWishBeforeOver, NoWishNoCount, MinPlayersAssumption
<1> QED
    BY <1>1, <1>2, <1>3, CountIsNat DEF GameState

\* Fewer players want another match, and fewer connections are bad.
LEMMA SteadyFollows ==
    ASSUME NEW s, Held(s), NEW t, Follows(s, t)
    PROVE  /\ ReplayCount(s.game) < MinPlayers => ReplayCount(t.game) < MinPlayers
           /\ Steady(s) /\ t.flaky \subseteq s.flaky => Steady(t)
           /\ s.game.wants = {} => t.game.wants = {}
<1>1. s.game \in GameState /\ t.game \in GameState /\ Shrinks(s.game, t.game)
    BY DEF Follows, Sane, Held, Fits, Safe
<1>2. /\ ReplayCount(t.game) \in Nat /\ ReplayCount(s.game) \in Nat
      /\ ReplayCount(t.game) <= ReplayCount(s.game)
    BY <1>1, ReplayCountShrinks
<1> QED
    BY <1>1, <1>2, MinPlayersAssumption DEF Steady, Shrinks

LEMMA CourseTrans ==
    ASSUME NEW s, Held(s), NEW t, Follows(s, t), NEW u, Follows(t, u),
           Course(s, t), Course(t, u)
    PROVE  Course(s, u)
<1>1. /\ s.game.phase \in Phase /\ t.game.phase \in Phase
      /\ ReplayCount(s.game) \in Nat /\ ReplayCount(t.game) \in Nat
      /\ s.game.phase # "OVER" => ReplayCount(s.game) < MinPlayers
      /\ ReplayCount(s.game) < MinPlayers => ReplayCount(t.game) < MinPlayers
      /\ Sane(t)
    BY HeldFacts, SteadyFollows DEF Follows, Sane
<1>2. ReplayCount(t.game) >= MinPlayers => ReplayCount(s.game) >= MinPlayers
    BY <1>1, MinPlayersAssumption
<1>3. u.flaky \subseteq s.flaky /\ Sound(u.game)
    BY DEF Course
<1>4. CASE s.game.phase = "LOBBY"
  <2>1. Kept(s, t) /\ Kept(t, u)
    BY <1>4 DEF Course, Kept
  <2>2. Kept(s, u)
    BY <2>1 DEF Kept
  <2> QED
    BY <1>3, <1>4, <2>2 DEF Course, InGame, VotesKept
<1>5. CASE s.game.phase \in InGame
  <2>1. Kept(s, u) \/ Over(s, u) \/ Moved(s, u)
    <3>1. CASE Kept(s, t)
      <4>1. t.game.phase \in InGame
        BY <1>5, <3>1 DEF Kept
      <4>2. Kept(t, u) \/ Over(t, u) \/ Moved(t, u)
        BY <4>1 DEF Course
      <4> QED
        BY <3>1, <4>2 DEF Kept, Over, Moved
    <3>2. CASE Over(s, t)
      <4>1. ~(ReplayCount(t.game) >= MinPlayers)
        BY <1>1, <1>5, MinPlayersAssumption DEF InGame
      <4>2. Over(t, u)
        BY <3>2, <4>1 DEF Course, Again, Over
      <4> QED
        BY <3>2, <4>2 DEF Over
    <3>3. CASE Moved(s, t)
      <4>1. t.game.phase \in InGame /\ Fresh(t.game)
        BY <3>3 DEF Moved, Window, NextOf, InGame, Phase
      <4>2. Kept(t, u) \/ Over(t, u)
        BY <4>1 DEF Course, Moved
      <4> QED
        BY <3>3, <4>1, <4>2 DEF Kept, Over, Moved, AllOff
    <3> QED
      BY <1>5, <3>1, <3>2, <3>3 DEF Course
  <2>2. VotesKept(s, u)
    <3> SUFFICES ASSUME s.game.phase \in {"VOTING", "RESULTS"}
                 PROVE  u.game.round.totals = s.game.round.totals
      BY <1>5 DEF VotesKept, InGame
    <3>1. t.game.phase \in {"VOTING", "RESULTS", "OVER"}
      BY <1>5 DEF Course, Kept, Over, Moved, NextOf, Window
    <3>2. ReplayCount(s.game) < MinPlayers /\ ReplayCount(t.game) < MinPlayers
      BY <1>1, <1>5 DEF InGame
    <3> QED
      BY <3>1, <3>2 DEF Course, VotesKept
  <2> QED
    BY <1>3, <1>5, <2>1, <2>2 DEF Course, InGame
<1>6. CASE s.game.phase = "OVER"
  <2>1. Over(s, u) \/ Again(s, u)
    <3>1. CASE Over(s, t)
      <4>1. Over(t, u) \/ Again(t, u)
        BY <3>1 DEF Course, Over
      <4>2. t.flaky # {} => s.flaky # {}
        BY DEF Course
      <4> QED
        BY <1>2, <3>1, <4>1, <4>2 DEF Over, Again
    <3>2. CASE Again(s, t) /\ t.game.phase = "PROMPT"
      <4>1. Kept(t, u) \/ Over(t, u)
        BY <3>2 DEF Course, Moved, Again, InGame, Phase
      <4>2. t.game.wants = {} /\ u.game.wants = {}
        <5>1. t.game.wants = {}
          BY <1>1, <3>2, NoWishBeforeOver DEF Sane
        <5> QED
          BY <1>1, <5>1, SteadyFollows DEF Sane
      <4>3. CASE Kept(t, u)
        BY <3>2, <4>3 DEF Kept, Again, AllOff
      <4>4. CASE Over(t, u)
        BY <3>2, <4>2, <4>4 DEF Over, Again, Fresh
      <4> QED
        BY <4>1, <4>3, <4>4
    <3>3. CASE Again(s, t) /\ t.game.phase = "OVER"
      <4>1. t.game.wants = {} /\ u.game.wants = {}
        <5>1. t.game.wants = {}
          BY <3>3 DEF Again
        <5> QED
          BY <1>1, <5>1, SteadyFollows DEF Sane
      <4>2. Over(t, u)
        <5>1. ~(ReplayCount(t.game) >= MinPlayers)
          BY <4>1, NoWishNoCount
        <5> QED
          BY <3>3, <5>1 DEF Course, Again
      <4> QED
        BY <3>3, <4>1, <4>2 DEF Over, Again, Fresh
    <3>4. CASE Again(s, t) /\ t.game.phase = "LOBBY"
      <4>1. Kept(t, u)
        BY <3>4 DEF Course
      <4> QED
        BY <3>4, <4>1 DEF Kept, Again
    <3> QED
      BY <1>6, <3>1, <3>2, <3>3, <3>4 DEF Course, Again
  <2>2. VotesKept(s, u)
    <3> SUFFICES ASSUME ReplayCount(s.game) < MinPlayers
                 PROVE  u.game.round.totals = s.game.round.totals
      BY <1>6 DEF VotesKept
    <3>1. ~(ReplayCount(s.game) >= MinPlayers) /\ ReplayCount(t.game) < MinPlayers
      BY <1>1, MinPlayersAssumption
    <3>2. t.game.phase = "OVER"
      BY <1>6, <3>1 DEF Course, Again, Over
    <3> QED
      BY <1>6, <3>1, <3>2 DEF Course, VotesKept
  <2> QED
    BY <1>3, <1>6, <2>1, <2>2 DEF Course, InGame
<1> QED
    BY <1>1, <1>4, <1>5, <1>6 DEF InGame

LEMMA LeadsTrans ==
    ASSUME NEW s, Sane(s), NEW t, NEW u, Leads(s, t), Leads(t, u)
    PROVE  Leads(s, u)
<1>1. Follows(s, t) /\ Follows(t, u) /\ Follows(s, u)
    BY FollowsTrans DEF Leads
<1>2. ASSUME Sound(s.game) PROVE Course(s, u) /\ (Steady(s) /\ Awake(s) => Awake(u))
  <2>1. Course(s, t) /\ (Steady(s) /\ Awake(s) => Awake(t))
    BY <1>2 DEF Leads
  <2>2. Course(t, u) /\ (Steady(t) /\ Awake(t) => Awake(u))
    BY <2>1 DEF Leads, Course
  <2>3. Steady(s) => Steady(t)
    BY <1>1, <2>1, SteadyFollows DEF Course, Sane
  <2> QED
    BY <1>1, <2>1, <2>2, <2>3, CourseTrans DEF Sane
<1> QED
    BY <1>1, <1>2 DEF Leads

DoesLead(removal) ==
    \A s \in SaneState, c \in Slot : \A t \in removal[s][c] : Leads(s, t)

LEMMA LeadsFollow ==
    ASSUME NEW removal, DoesLead(removal)
    PROVE  DoesFollow(removal)
    BY DEF DoesLead, DoesFollow, Leads

LEMMA BroadcastLeads ==
    ASSUME NEW removal, DoesLead(removal), NEW s, Sane(s),
           NEW t \in BroadcastBy(removal, s)
    PROVE  Leads(s, t) /\ (s.flaky = {} => t = s)
<1>1. Leads(s, t)
  <2> DEFINE X == {u \in SaneState : Leads(s, u)}
  <2>1. s \in X
    BY LeadsSelf DEF SaneState, Sane, Held
  <2>2. ASSUME NEW u \in X, NEW c \in u.open \cap u.flaky \cap Slot
        PROVE  removal[u][c] \subseteq X
    <3> SUFFICES ASSUME NEW v \in removal[u][c] PROVE v \in X
      OBVIOUS
    <3>1. u \in SaneState /\ c \in Slot
      OBVIOUS
    <3>2. Leads(u, v)
      BY <3>1 DEF DoesLead
    <3>3. Leads(s, v)
      BY <3>2, LeadsTrans
    <3> QED
      BY <3>3 DEF Leads, Follows, SaneState, Sane, Held
  <2> HIDE DEF X
  <2>3. BroadcastBy(removal, s) \subseteq X
    BY <2>1, <2>2, BroadcastStays
  <2> QED
    BY <2>3 DEF X
<1>2. ASSUME s.flaky = {} PROVE t = s
  <2> DEFINE X == {s}
  <2>1. \A u \in X : \A c \in u.open \cap u.flaky \cap Slot : removal[u][c] \subseteq X
    BY <1>2
  <2>2. s \in X
    OBVIOUS
  <2> HIDE DEF X
  <2>3. BroadcastBy(removal, s) \subseteq X
    BY <2>1, <2>2, BroadcastStays
  <2> QED
    BY <2>3 DEF X
<1> QED
    BY <1>1, <1>2

----------------------------------------------------------------------------
(* What sends, while every removal it may bring about leads where it should. *)

\* A phase at its start, announced.
Announced(s, t) ==
    /\ t.flaky \subseteq s.flaky
    /\ Sound(t.game)
    /\ \/ Over(s, t)
       \/ /\ t.game.phase = s.game.phase
          /\ t.game.roundNumber = s.game.roundNumber
          /\ Fresh(t.game) /\ AllOff(t.game)
    /\ VotesKept(s, t)

LEMMA BegunLeads ==
    ASSUME NEW s, Begun(s.game), s.game.phase \in InGame, NEW t, Leads(s, t)
    PROVE  Announced(s, t)
<1>1. Course(s, t)
    BY BegunSound DEF Leads
<1>2. Kept(s, t) \/ Over(s, t)
    BY <1>1 DEF Course, Moved, Begun
<1> QED
    BY <1>1, <1>2 DEF Announced, Course, Kept, Begun, AllOff

LEMMA AnnouncedSchedule ==
    ASSUME NEW s, NEW t, Sane(t), Announced(s, t), NEW a \in Pending \ {"NONE"}
    PROVE  Announced(s, Schedule(t, a)) /\ Schedule(t, a).pending = a
<1> DEFINE u == Schedule(t, a)
<1>1. u.game = t.game /\ u.pending = a /\ u.flaky = t.flaky
    BY ScheduleIs
<1> HIDE DEF u
<1>2. Announced(s, u)
    BY <1>1 DEF Announced, Over, VotesKept
<1> QED
    BY <1>1, <1>2 DEF u

LEMMA PhaseChangeLeads ==
    ASSUME NEW removal, DoesLead(removal), NEW s, Sane(s), Begun(s.game),
           s.game.phase \in {"REWRITE", "VOTING", "RESULTS"},
           NEW t \in HandlePhaseChangeBy(removal, s)
    PROVE  Announced(s, t) /\ t.pending = Titles[s.game.phase]
<1>1. PICK u \in BroadcastBy(removal, s) \cup {s} :
        t = Schedule(u, Titles[s.game.phase])
    BY DEF HandlePhaseChangeBy, Titles
<1>2. Leads(s, u)
    BY <1>1, BroadcastLeads, LeadsSelf
<1>3. Sane(u) /\ Announced(s, u)
    BY <1>2, BegunLeads DEF InGame, Phase, Leads, Follows
<1>4. Titles[s.game.phase] \in Pending \ {"NONE"}
    BY DEF Titles, Pending, Prompts, Boards
<1> QED
    BY <1>1, <1>3, <1>4, AnnouncedSchedule

LEMMA AdvanceLeads ==
    ASSUME NEW removal, DoesLead(removal), NEW s, Sane(s),
           NEW t \in AdvanceIfReadyBy(removal, s)
    PROVE  Leads(s, t)
<1>1. Follows(s, t)
    BY LeadsFollow, AdvanceFollows
<1>2. ASSUME Sound(s.game)
      PROVE  Course(s, t) /\ (Steady(s) /\ Awake(s) => Awake(t))
  <2>1. PICK g \in AdvancePhaseIfReady(s.game) :
          t \in LET u == [s EXCEPT !.game = g]
                IN  IF g.phase = s.game.phase THEN {u}
                    ELSE HandlePhaseChangeBy(removal, u)
    BY DEF AdvanceIfReadyBy
  <2> DEFINE u == [s EXCEPT !.game = g]
  <2>2. g = s.game \/ (~Fresh(s.game) /\ Advanced(s.game, g))
    BY <1>2, HeldFacts, AdvanceBegins DEF Sound, Sane
  <2>3. Fits(g, Ids(s), s.nextId)
    BY AdvanceFits DEF Sane, Held
  <2>4. Sane(u) /\ u.game = g /\ u.pending = s.pending /\ u.flaky = s.flaky
    BY <2>3, GameChange
  <2>5. t \in IF g.phase = s.game.phase THEN {u} ELSE HandlePhaseChangeBy(removal, u)
    BY <2>1
  <2> HIDE DEF u
  <2>6. CASE g = s.game
    <3>1. t = u
      BY <2>5, <2>6
    <3> QED
      BY <1>2, <2>4, <2>6, <3>1, CourseSame DEF Awake
  <2>7. CASE ~Fresh(s.game) /\ Advanced(s.game, g)
    <3>1. /\ s.game.phase \in Window /\ g.phase = NextOf[s.game.phase]
          /\ g.phase \in {"REWRITE", "VOTING", "RESULTS"} /\ g.phase # s.game.phase
          /\ g.roundNumber = s.game.roundNumber /\ Begun(g)
          /\ s.game.phase = "VOTING" => g.round.totals = s.game.round.totals
      BY <2>7 DEF Advanced, NextOf, Window
    <3>2. Announced(u, t) /\ t.pending = Titles[g.phase]
      BY <2>4, <2>5, <3>1, PhaseChangeLeads
    <3>3. Over(s, t) \/ Moved(s, t)
      BY <2>4, <2>7, <3>1, <3>2 DEF Announced, Over, Moved
    <3>4. ReplayCount(u.game) < MinPlayers
      BY <2>4, <3>1, HeldFacts DEF Sane
    <3>5. VotesKept(s, t)
      BY <2>4, <3>1, <3>2, <3>4 DEF Announced, VotesKept, Window, NextOf
    <3>6. Course(s, t)
      BY <2>4, <3>1, <3>2, <3>3, <3>5 DEF Course, Announced, Window, InGame, Phase
    <3>7. Awake(t)
      BY <3>1, <3>2 DEF Awake, Titles
    <3> QED
      BY <3>6, <3>7
  <2> QED
    BY <2>2, <2>6, <2>7
<1> QED
    BY <1>1, <1>2 DEF Leads

LEMMA AfterStartLeads ==
    ASSUME NEW removal, DoesLead(removal), NEW s, Sane(s),
           s.game.phase = "PROMPT", Begun(s.game),
           NEW t \in AfterStartBy(removal, s)
    PROVE  Announced(s, t) /\ t.pending = "QUESTION_PROMPT"
<1>1. PICK u \in BroadcastBy(removal, s) : t = Schedule(u, "QUESTION_PROMPT")
    BY DEF AfterStartBy
<1>2. Leads(s, u)
    BY <1>1, BroadcastLeads
<1>3. Sane(u) /\ Announced(s, u)
    BY <1>2, BegunLeads DEF InGame, Phase, Leads, Follows
<1>4. "QUESTION_PROMPT" \in Pending \ {"NONE"}
    BY DEF Pending, Prompts
<1> QED
    BY <1>1, <1>3, <1>4, AnnouncedSchedule

LEMMA TryStartLeads ==
    ASSUME NEW removal, DoesLead(removal), NEW s, Sane(s),
           s.pending # "REPLAY_START",
           NEW t \in TryStartReplayBy(removal, s)
    PROVE  Leads(s, t)
<1>1. s.game \in GameState /\ Fits(s.game, Ids(s), s.nextId) /\ ReplayCount(s.game) \in Nat
    BY HeldFacts DEF Sane, Held
<1>2. CASE ReplayCount(s.game) < MinPlayers
    BY <1>2, BroadcastLeads DEF TryStartReplayBy
<1>3. CASE ~(ReplayCount(s.game) < MinPlayers)
  <2>1. s.game.phase = "OVER" /\ ReplayCount(s.game) >= MinPlayers
    BY <1>1, <1>3, EnoughMeansOver, MinPlayersAssumption DEF Sane
  <2>2. PICK g \in Start(PrepareReplay(s.game)) :
          t \in AfterStartBy(removal, [s EXCEPT !.game = g])
    BY <1>3 DEF TryStartReplayBy
  <2> DEFINE h == PrepareReplay(s.game)
             u == [s EXCEPT !.game = g]
  <2>3. Fits(h, Ids(s), s.nextId) /\ h.phase = "LOBBY" /\ GameInv(h) /\ Fresh(h)
    BY <1>1, <2>1, PrepareFits, ReplayFresh
  <2>4. g.phase = "LOBBY" => FALSE \in BankOutcomes
    <3>1. GameInv(s.game)
      BY <1>1, <2>1 DEF Fits, Safe, Wiped
    <3> QED
      BY <2>1, <2>2, <3>1, ReplayBegins
  <2> HIDE DEF h
  <2>5. /\ Fits(g, Ids(s), s.nextId) /\ g.wants = {}
        /\ \/ g.phase = "PROMPT" /\ g.roundNumber = 1 /\ Begun(g)
           \/ g.phase = "LOBBY" /\ Sound(g) /\ Fresh(g)
    BY <2>2, <2>3, StartFits, StartBegins DEF h
  <2>6. /\ Sane(u) /\ u.game = g /\ u.pending = s.pending /\ u.flaky = s.flaky
    BY <2>5, GameChange
  <2>7. t \in AfterStartBy(removal, u)
    BY <2>2
  <2> HIDE DEF u
  <2>8. Follows(s, t)
    BY LeadsFollow, TryStartFollows
  <2>9. t.game.wants = {}
    <3>1. Follows(u, t)
      BY <2>5, <2>6, <2>7, LeadsFollow, AfterStartFollows
    <3> QED
      BY <2>5, <2>6, <3>1, SteadyFollows DEF Sane
  <2>10. VotesKept(s, t)
    BY <1>3 DEF VotesKept
  <2>11. CASE g.phase = "PROMPT"
    <3>1. Announced(u, t) /\ t.pending = "QUESTION_PROMPT"
      BY <2>5, <2>6, <2>7, <2>11, AfterStartLeads
    <3>2. Again(s, t)
      BY <2>1, <2>5, <2>6, <2>9, <2>11, <3>1 DEF Announced, Over, Again, Fresh
    <3>3. Course(s, t) /\ Awake(t)
      BY <2>1, <2>6, <2>10, <3>1, <3>2 DEF Course, Announced, Awake, InGame
    <3> QED
      BY <2>8, <3>3 DEF Leads
  <2>12. CASE g.phase = "LOBBY"
    <3>1. Leads(u, t)
      BY <2>6, <2>7, <2>12, BroadcastLeads DEF AfterStartBy
    <3>2. Steady(u) /\ Awake(u)
      BY <2>6, <2>12, HeldFacts DEF Steady, Awake, Sane
    <3>3. Course(u, t) /\ Awake(t)
      BY <2>5, <2>6, <2>12, <3>1, <3>2 DEF Leads
    <3>4. Again(s, t)
      BY <2>1, <2>4, <2>5, <2>6, <2>12, <3>3 DEF Course, Kept, Again
    <3>5. Course(s, t)
      BY <2>1, <2>6, <2>10, <3>3, <3>4 DEF Course, InGame
    <3> QED
      BY <2>8, <3>3, <3>5 DEF Leads
  <2> QED
    BY <2>5, <2>11, <2>12
<1> QED
    BY <1>2, <1>3

\* What comes of a finished match depends on the game and on the connections
\* only.
LEMMA CourseFrom ==
    ASSUME NEW s, NEW v, v.game = s.game, v.flaky = s.flaky,
           s.game.phase = "OVER", NEW t, Course(v, t)
    PROVE  Course(s, t)
    BY DEF Course, Over, Again, VotesKept, InGame

LEMMA CloseLobbyLeads ==
    ASSUME NEW removal, DoesLead(removal), NEW s, Sane(s),
           s.game.phase = "OVER", PossibleReplayCount(s.game) < MinPlayers,
           NEW t \in CloseReplayLobbyBy(removal, s)
    PROVE  Leads(s, t) /\ (Sound(s.game) => Awake(t))
<1> DEFINE v == CancelCountdown(s)
<1>1. PICK u \in BroadcastBy(removal, v) : t = [u EXCEPT !.shutdown = TRUE]
    BY DEF CloseReplayLobbyBy
<1>2. /\ Sane(v) /\ v.game = s.game /\ v.flaky = s.flaky
      /\ v.pending # "REPLAY_START"
    BY CancelIs
<1> HIDE DEF v
<1>3. Leads(v, u)
    BY <1>1, <1>2, BroadcastLeads
<1>4. t.game = u.game /\ t.pending = u.pending /\ t.flaky = u.flaky
    BY <1>1, <1>3, ShutdownIs DEF Leads, Follows
<1>5. Follows(s, t)
    BY LeadsFollow, CloseLobbyFollows
<1>6. ASSUME Sound(s.game) PROVE Course(s, t) /\ Awake(t)
  <2>1. ReplayCount(s.game) < MinPlayers
    BY HeldFacts, WishersMayReplay, MinPlayersAssumption DEF Sane
  <2>2. Awake(v) /\ Steady(v)
    BY <1>2, <2>1 DEF Awake, Steady
  <2>3. Course(v, u) /\ Awake(u)
    BY <1>2, <1>3, <1>6, <2>2 DEF Leads
  <2>4. Course(s, u)
    BY <1>2, <2>3, CourseFrom
  <2> QED
    BY <1>4, <2>3, <2>4 DEF Course, Kept, Over, Moved, Again, VotesKept, Awake
<1> QED
    BY <1>5, <1>6 DEF Leads

LEMMA MaybeScheduleLeads ==
    ASSUME NEW removal, DoesLead(removal), NEW s, Sane(s),
           NEW t \in MaybeScheduleReplayBy(removal, s)
    PROVE  /\ Leads(s, t)
           /\ Sound(s.game) /\ s.game.phase = "OVER" /\ Steady(s) => Awake(t)
<1> DEFINE v == CancelCountdown(s)
<1>1. /\ Sane(v) /\ v.game = s.game /\ v.flaky = s.flaky
      /\ v.pending # "REPLAY_START"
    BY CancelIs
<1>2. Follows(s, t)
    BY LeadsFollow, MaybeScheduleFollows
<1>3. CASE s.game.phase # "OVER"
    BY <1>3, LeadsSelf DEF MaybeScheduleReplayBy
<1>4. ReplayCount(s.game) \in Nat
    BY HeldFacts DEF Sane
<1>5. CASE s.game.phase = "OVER"
  <2>1. CASE /\ t \in CloseReplayLobbyBy(removal, s)
             /\ PossibleReplayCount(s.game) < MinPlayers
    BY <1>5, <2>1, CloseLobbyLeads
  <2>2. CASE t = v
    <3> HIDE DEF v
    <3>1. Awake(t)
      BY <1>1, <2>2 DEF Awake
    <3>2. Sound(s.game) => Course(s, t)
      BY <1>1, <1>5, <2>2, CourseSame
    <3> QED
      BY <1>2, <3>1, <3>2 DEF Leads
  <2>3. CASE t \in TryStartReplayBy(removal, v)
    <3> HIDE DEF v
    <3>1. Leads(v, t)
      BY <1>1, <2>3, TryStartLeads
    <3>2. Steady(s) => Steady(v) /\ Awake(v)
      BY <1>1 DEF Steady, Awake
    <3>3. Sound(s.game) => Course(s, t) /\ (Steady(s) => Awake(t))
      BY <1>1, <1>5, <3>1, <3>2, CourseFrom DEF Leads
    <3> QED
      BY <1>2, <3>3 DEF Leads
  <2>4. CASE t = s /\ ~(ReplayCount(s.game) < MinPlayers)
    <3>1. Awake(t)
      BY <1>4, <2>4, MinPlayersAssumption DEF Awake
    <3> QED
      BY <2>4, <3>1, LeadsSelf
  <2>5. CASE /\ ~(ReplayCount(s.game) < MinPlayers)
             /\ \E u \in BroadcastBy(removal, s) : t = Schedule(u, "REPLAY_START")
    <3>1. PICK u \in BroadcastBy(removal, s) : t = Schedule(u, "REPLAY_START")
      BY <2>5
    <3>2. Leads(s, u) /\ (s.flaky = {} => u = s)
      BY <3>1, BroadcastLeads
    <3>3. "REPLAY_START" \in Pending \ {"NONE"}
      BY DEF Pending
    <3>4. t.game = u.game /\ t.pending = "REPLAY_START" /\ t.flaky = u.flaky
      BY <3>1, <3>2, <3>3, ScheduleIs DEF Leads, Follows
    <3>5. ASSUME Sound(s.game) PROVE Course(s, t)
      <4>1. Course(s, u)
        BY <3>2, <3>5 DEF Leads
      <4>2. Over(s, t) \/ Again(s, t)
        <5>1. CASE s.flaky = {}
          BY <1>5, <3>2, <3>4, <5>1 DEF Over
        <5>2. CASE s.flaky # {}
          BY <1>5, <3>4, <4>1, <5>2 DEF Course, Over, Again
        <5> QED
          BY <5>1, <5>2
      <4> QED
        BY <1>5, <3>4, <4>1, <4>2 DEF Course, VotesKept, InGame
    <3>6. Steady(s) => Awake(t)
      BY <1>4, <2>5, <3>2, <3>4, MinPlayersAssumption DEF Steady, Awake
    <3> QED
      BY <1>2, <3>5, <3>6 DEF Leads
  <2> HIDE DEF v
  <2> QED
    BY <1>5, <2>1, <2>2, <2>3, <2>4, <2>5 DEF MaybeScheduleReplayBy, v
<1> QED
    BY <1>3, <1>5

\* The slot of a client that is removed is freed, and its player has left.
LEMMA RemoveLeadsHeld ==
    ASSUME NEW removal, DoesLead(removal), NEW s, Held(s), NEW c \in Slot,
           \A d \in Slot \ (s.open \cup {c}) : s.cid[d] = 0,
           NEW t \in RemoveClientBy(removal, s, c)
    PROVE  Leads(s, t)
<1> DEFINE id == s.cid[c]
           g == HandleDisconnect(s.game, id)
           u == Closed(s, c, g)
<1>1. /\ s \in ServerState /\ s.game \in GameState
      /\ Fits(s.game, Ids(s), s.nextId) /\ s.nextId \in Nat \ {0}
      /\ Ids(s) \in SUBSET Nat /\ id \in Nat
    BY DEF Held, Fits, Safe, ServerState, Ids
<1>2. u = [CloseSlot(s, c) EXCEPT !.game = HandleDisconnect(@, id)]
    BY <1>1 DEF Closed, CloseSlot, ServerState
<1>3. Follows(s, t)
    BY LeadsFollow, RemoveFollowsHeld
<1>4. CASE id = 0
  <2>1. t = CloseSlot(s, c)
    BY <1>4 DEF RemoveClientBy
  <2>2. t.game = s.game /\ t.pending = s.pending /\ t.flaky \subseteq s.flaky
    BY <1>1, <2>1 DEF CloseSlot, ServerState
  <2> HIDE DEF id, g, u
  <2>3. Sound(s.game) => Course(s, t)
    BY <2>2, CourseSame
  <2> QED
    BY <1>3, <2>2, <2>3 DEF Leads, Awake
<1>5. CASE id # 0
  <2>1. id \in Ids(s) \ {0}
    BY <1>5 DEF Ids
  <2>2. /\ Fits(g, Ids(s) \ {id}, s.nextId) /\ Shrinks(s.game, g)
        /\ g.phase = s.game.phase \/ (s.game.phase # "LOBBY" /\ g.phase = "OVER")
    BY <1>1, <2>1, DisconnectSafe DEF Fits
  <2>3. /\ g.roundNumber = s.game.roundNumber
        /\ g.round.deadline = s.game.round.deadline
        /\ g.round.totals = s.game.round.totals
        /\ Sound(s.game) => Sound(g)
        /\ Fresh(s.game) => Fresh(g)
    BY <1>1, LeaverKeepsTime
  <2> HIDE DEF g
  <2>4. /\ Sane(u) /\ u.game = g /\ u.nextId = s.nextId
        /\ u.running = s.running /\ u.shutdown = s.shutdown
        /\ u.pending = s.pending /\ u.flaky \subseteq s.flaky
    <3>1. Fits(g, Ids(s) \ {s.cid[c]}, s.nextId)
      BY <2>2
    <3> QED
      BY <3>1, CloseIs
  <2> DEFINE told == IF SlotOf(u.game, id) = NoSlot THEN {u} ELSE BroadcastBy(removal, u)
             F(w) == MaybeScheduleReplayBy(removal, w)
             A(w) == AdvanceIfReadyBy(removal, w)
  <2>5. t \in IF s.game.phase \in InGame /\ u.game.phase = "OVER"
              THEN BroadcastBy(removal, ClearPending(u))
              ELSE IF s.game.phase = "OVER" THEN Then(Then(told, F), A)
              ELSE AdvanceIfReadyBy(removal, u)
    <3> HIDE DEF u
    <3> QED
      BY <1>2, <1>5 DEF RemoveClientBy
  <2> HIDE DEF u, id
  <2>6. /\ ReplayCount(s.game) \in Nat /\ ReplayCount(u.game) \in Nat
        /\ s.game.phase \in Phase
        /\ ReplayCount(u.game) <= ReplayCount(s.game)
        /\ s.game.phase # "OVER" => ReplayCount(s.game) < MinPlayers
    <3>1. u.game \in GameState
      BY <2>4, HeldFacts DEF Sane
    <3> QED
      BY <1>1, <2>2, <2>4, <3>1, HeldFacts, ReplayCountShrinks
  <2>7. ReplayCount(s.game) < MinPlayers => ReplayCount(u.game) < MinPlayers
    BY <2>6, MinPlayersAssumption
  <2> SUFFICES ASSUME Sound(s.game)
               PROVE  Course(s, t) /\ (Steady(s) /\ Awake(s) => Awake(t))
    BY <1>3 DEF Leads
  <2>8. CASE s.game.phase \in InGame /\ u.game.phase = "OVER"
    <3> DEFINE v == ClearPending(u)
    <3>1. /\ Sane(v) /\ v.game = u.game /\ v.pending = "NONE" /\ v.flaky = u.flaky
      BY <2>4, ClearIs
    <3>2. t \in BroadcastBy(removal, v)
      BY <2>5, <2>8
    <3> HIDE DEF v
    <3>3. Leads(v, t)
      BY <3>1, <3>2, BroadcastLeads
    <3>4. ReplayCount(s.game) < MinPlayers /\ ReplayCount(v.game) < MinPlayers
      BY <2>6, <2>7, <2>8, <3>1 DEF InGame
    <3>5. ~(ReplayCount(v.game) >= MinPlayers)
      BY <2>6, <3>1, <3>4, MinPlayersAssumption
    <3>6. Course(v, t) /\ Awake(t)
      BY <2>3, <2>4, <3>1, <3>3, <3>4 DEF Leads, Steady, Awake
    <3>7. Over(v, t)
      BY <2>8, <3>1, <3>5, <3>6 DEF Course, Again
    <3>8. Over(s, t) /\ VotesKept(s, t)
      BY <2>3, <2>4, <2>8, <3>1, <3>4, <3>6, <3>7 DEF Over, Course, VotesKept
    <3> QED
      BY <2>4, <2>8, <3>1, <3>6, <3>8 DEF Course, InGame
  <2>9. CASE s.game.phase = "OVER"
    <3>1. t \in Then(Then(told, F), A)
      BY <2>5, <2>9 DEF InGame
    <3>2. PICK w \in Then(told, F) : t \in A(w)
      BY <3>1 DEF Then
    <3>3. PICK v \in told : w \in F(v)
      BY <3>2 DEF Then
    <3>4. u.game.phase = "OVER" /\ Sound(u.game)
      BY <2>2, <2>3, <2>4, <2>9
    <3>5. Leads(u, v) /\ (u.flaky = {} => v = u)
      BY <2>4, <3>3, BroadcastLeads, LeadsSelf
    <3>6. Sane(v)
      BY <3>5 DEF Leads, Follows
    <3>7. Leads(v, w) /\ (Sound(v.game) /\ v.game.phase = "OVER" /\ Steady(v) => Awake(w))
      BY <3>3, <3>6, MaybeScheduleLeads
    <3>8. Sane(w) /\ Leads(w, t)
      BY <3>2, <3>7, AdvanceLeads DEF Leads, Follows
    <3>9. Leads(u, w)
      BY <2>4, <3>5, <3>7, LeadsTrans
    <3>10. Leads(u, t)
      BY <2>4, <3>8, <3>9, LeadsTrans
    <3>11. Course(u, t)
      BY <3>4, <3>10 DEF Leads
    <3>12. Course(s, t)
      <4>1. Over(s, t) \/ Again(s, t)
        <5>1. CASE Over(u, t)
          BY <2>3, <2>4, <5>1 DEF Over
        <5>2. CASE Again(u, t)
          <6>1. ReplayCount(s.game) >= MinPlayers
            BY <2>6, <5>2, MinPlayersAssumption DEF Again
          <6>2. u.flaky # {} => s.flaky # {}
            BY <2>4
          <6> QED
            BY <5>2, <6>1, <6>2 DEF Again
        <5> QED
          BY <3>4, <3>11, <5>1, <5>2 DEF Course
      <4>2. VotesKept(s, t)
        BY <2>3, <2>4, <2>7, <3>4, <3>11 DEF Course, VotesKept
      <4> QED
        BY <2>4, <2>9, <3>11, <4>1, <4>2 DEF Course, InGame
    <3>13. ASSUME Steady(s) PROVE Awake(t)
      <4>1. Steady(u)
        BY <2>4, <2>7, <3>13 DEF Steady
      <4>2. Course(u, v) /\ Course(v, w) /\ Sound(v.game) /\ Sound(w.game)
        BY <3>4, <3>5, <3>7 DEF Leads, Course
      <4>3. v.game.phase = "OVER"
        <5>1. CASE u.flaky = {}
          BY <3>4, <3>5, <5>1
        <5>2. CASE u.flaky # {}
          <6>1. ~(ReplayCount(u.game) >= MinPlayers)
            BY <2>6, <4>1, <5>2, MinPlayersAssumption DEF Steady
          <6> QED
            BY <3>4, <4>2, <6>1 DEF Course, Over, Again
        <5> QED
          BY <5>1, <5>2
      <4>4. Steady(v)
        BY <2>4, <3>5, <4>1, <4>2, SteadyFollows DEF Leads, Course, Sane
      <4>5. Awake(w)
        BY <3>7, <4>2, <4>3, <4>4
      <4>6. Steady(w)
        BY <3>6, <3>7, <4>2, <4>4, SteadyFollows DEF Leads, Course, Sane
      <4> QED
        BY <3>8, <4>2, <4>5, <4>6 DEF Leads
    <3> QED
      BY <3>12, <3>13
  <2>10. CASE s.game.phase # "OVER" /\ ~(s.game.phase \in InGame /\ u.game.phase = "OVER")
    <3>1. t \in AdvanceIfReadyBy(removal, u)
      BY <2>5, <2>10
    <3>2. Leads(u, t)
      BY <2>4, <3>1, AdvanceLeads
    <3>3. u.game.phase = s.game.phase /\ Sound(u.game)
      BY <2>2, <2>3, <2>4, <2>6, <2>10 DEF InGame
    <3>4. Course(s, u)
      BY <2>3, <2>4, <2>10, <3>3 DEF Course, Kept, VotesKept
    <3>5. s.game.wants = {} /\ u.game.wants = {}
      BY <2>2, <2>4, <2>10, NoWishBeforeOver DEF Shrinks
    <3>6. Follows(s, u)
      BY <2>2, <2>4, <3>5, NoWishSettled, SettledFollows
    <3>7. Follows(u, t) /\ Course(u, t)
      BY <3>2, <3>3 DEF Leads
    <3>8. Course(s, t)
      BY <3>4, <3>6, <3>7, CourseTrans
    <3>9. Awake(s) => Awake(t)
      <4>1. ReplayCount(u.game) < MinPlayers /\ ReplayCount(s.game) < MinPlayers
        BY <2>6, <2>7, <2>10
      <4>2. ~(ReplayCount(s.game) >= MinPlayers)
        BY <2>6, <4>1, MinPlayersAssumption
      <4> QED
        BY <2>4, <3>2, <3>3, <4>1, <4>2 DEF Leads, Steady, Awake
    <3> QED
      BY <3>8, <3>9
  <2> QED
    BY <2>8, <2>9, <2>10
<1> QED
    BY <1>4, <1>5

LEMMA RemoveLeads ==
    ASSUME NEW removal, DoesLead(removal), NEW s, Sane(s), NEW c \in Slot,
           NEW t \in RemoveClientBy(removal, s, c)
    PROVE  Leads(s, t)
    BY RemoveLeadsHeld DEF Sane

LEMMA RemovalLeads == DoesLead(Removal)
<1> DEFINE Rel == {st \in SaneState \X SaneState : Leads(st[1], st[2])}
<1>1. SaneState \in SUBSET ServerState
    BY DEF SaneState
<1>2. \A s \in SaneState : Sane(s)
    BY DEF SaneState
<1>3. \A s \in SaneState : \A t : Leads(s, t) <=> <<s, t>> \in Rel
  <2> TAKE s \in SaneState
  <2> TAKE t
  <2>1. Leads(s, t) => t \in SaneState
    BY DEF Leads, Follows, Sane, Held, SaneState
  <2> QED
    BY <2>1
<1> HIDE DEF Rel
<1>4. ASSUME NEW removal,
             \A s \in SaneState, c \in Slot : \A t \in removal[s][c] : <<s, t>> \in Rel
      PROVE  \A s \in SaneState, c \in Slot :
               \A t \in RemoveClientBy(removal, s, c) : <<s, t>> \in Rel
  <2>1. DoesLead(removal)
    BY <1>3, <1>4 DEF DoesLead
  <2> QED
    BY <1>2, <1>3, <2>1, RemoveLeads
<1>5. \A s \in SaneState, c \in Slot : \A t \in Removal[s][c] : <<s, t>> \in Rel
    BY <1>1, <1>4, RemovalDoes
<1> QED
    BY <1>3, <1>5 DEF DoesLead

----------------------------------------------------------------------------
(* Between two handlers: one clock. *)

\* A running match waits for its own pending action or for its deadline.  A
\* match that began while a connection was going bad may be left without
\* either, or with a countdown that is none of its business.
Timed(s) ==
    /\ Sound(s.game)
    /\ s.game.phase \in InGame =>
         IF PhaseDeadline(s.game) = "off"
         THEN \/ s.pending \in Stage(s.game.phase)
              \/ s.game.phase = "PROMPT" /\ s.pending \in {"NONE", "REPLAY_START"}
         ELSE s.pending = "NONE"
    /\ s.game.phase = "RESULTS" /\ s.pending = "FINAL_SCOREBOARD" =>
         IsFinalRound(s.game)

\* No such match, and no such countdown.
Punctual(s) ==
    /\ Awake(s)
    /\ s.game.phase = "PROMPT" /\ PhaseDeadline(s.game) = "off" =>
         s.pending = "QUESTION_PROMPT"

\* In the play-again lobby no connection is going bad, or nobody has asked for
\* another match.
Quiet(s) == s.game.phase = "OVER" => s.flaky = {} \/ s.game.wants = {}

\* The flow of a match, on two states of the game.
SameStage(g, h) == h.phase = g.phase /\ h.roundNumber = g.roundNumber

Opens(g, h) ==
    \/ g.phase \in {"LOBBY", "OVER"} /\ h.roundNumber = 1
    \/ /\ g.phase = "RESULTS" /\ g.roundNumber < TotalRounds
       /\ h.roundNumber = g.roundNumber + 1

FlowsTo(g, h) ==
    \/ h.phase = "PROMPT" /\ Opens(g, h)
    \/ /\ g.phase \in Window /\ h.phase = NextOf[g.phase]
       /\ h.roundNumber = g.roundNumber
    \/ g.phase \in InGame /\ h.phase = "OVER" /\ h.roundNumber = g.roundNumber
    \/ h.phase = "OVER" /\ Opens(g, h)
    \/ g.phase = "OVER" /\ h.phase = "LOBBY" /\ h.roundNumber = 0

FlowsOn(g, h) == SameStage(g, h) \/ FlowsTo(g, h)

\* At most broken off.
Tame(g, h) ==
    SameStage(g, h)
      \/ (g.phase \in InGame /\ h.phase = "OVER" /\ h.roundNumber = g.roundNumber)

LEMMA FlowTame ==
    ASSUME NEW g, NEW h, NEW k, FlowsTo(g, h), Tame(h, k)
    PROVE  FlowsTo(g, k)
    BY DEF FlowsTo, Tame, SameStage, Opens, InGame, Phase, Window, NextOf

\* The server is back in its lobby only if the bank has failed.
NoReturn(s, t) ==
    t.game.phase = "LOBBY" => s.game.phase = "LOBBY" \/ FALSE \in BankOutcomes

\* What it waits for in the lobby it waited for there before.
Stays(s, t) ==
    t.game.phase = "LOBBY" =>
      (s.game.phase = "LOBBY" /\ t.pending = s.pending) \/ FALSE \in BankOutcomes

\* What a handler does, from the start of a phase or from anywhere else.
Handled(s, t) ==
    /\ t.flaky \subseteq s.flaky
    /\ Timed(t)
    /\ FlowsOn(s.game, t.game)
    /\ Fresh(s.game) /\ (s.game.phase = "OVER" => s.game.wants = {}) =>
         Tame(s.game, t.game)
    /\ Quiet(s) /\ Punctual(s) => Punctual(t)
    /\ s.game.phase \in {"RESULTS", "OVER"} /\ s.game.wants = {} =>
         t.game.round.totals = s.game.round.totals
    /\ Stays(s, t)

LEMMA CourseStays ==
    ASSUME NEW s, Held(s), NEW t, Course(s, t)
    PROVE  Stays(s, t) /\ NoReturn(s, t)
<1>1. s.game.phase \in Phase
    BY HeldFacts
<1>2. CASE Kept(s, t)
    BY <1>2 DEF Kept, Stays, NoReturn
<1>3. CASE Over(s, t)
    BY <1>3 DEF Over, Stays, NoReturn
<1>4. CASE Moved(s, t)
  <2>1. t.game.phase # "LOBBY"
    BY <1>4 DEF Moved, NextOf, Window
  <2> QED
    BY <2>1 DEF Stays, NoReturn
<1>5. CASE Again(s, t)
    BY <1>5 DEF Again, Stays, NoReturn
<1> QED
    BY <1>1, <1>2, <1>3, <1>4, <1>5 DEF Course, InGame, Phase

LEMMA QuietSteady ==
    ASSUME NEW s, Held(s), Quiet(s)
    PROVE  Steady(s)
    BY HeldFacts, NoWishNoCount, MinPlayersAssumption DEF Quiet, Steady

LEMMA LobbyRound ==
    ASSUME NEW s, Held(s), s.game.phase = "LOBBY"
    PROVE  s.game.roundNumber = 0
    BY DEF Held, Fits, Safe, GameInv, Wiped

LEMMA AllOffNow ==
    ASSUME NEW g, AllOff(g)
    PROVE  PhaseDeadline(g) = "off"
    BY DEF AllOff, PhaseDeadline

LEMMA TitlesStaged ==
    ASSUME NEW phase \in {"REWRITE", "VOTING", "RESULTS"}
    PROVE  /\ Titles[phase] \in Stage(phase)
           /\ Titles[phase] \notin {"REPLAY_START", "FINAL_SCOREBOARD", "NONE"}
    BY DEF Titles, Stage, Boards

\* A phase that has begun and is announced.
LEMMA BegunTimed ==
    ASSUME NEW s, AllOff(s.game), Asked(s.game),
           \/ s.game.phase = "PROMPT" /\ s.pending = "QUESTION_PROMPT"
           \/ /\ s.game.phase \in {"REWRITE", "VOTING", "RESULTS"}
              /\ s.pending = Titles[s.game.phase]
    PROVE  Timed(s) /\ Punctual(s)
<1>1. Owned(s.game) /\ PhaseDeadline(s.game) = "off"
    BY AllOffOwned, AllOffNow
<1>2. CASE s.game.phase = "PROMPT" /\ s.pending = "QUESTION_PROMPT"
    BY <1>1, <1>2 DEF Timed, Punctual, Awake, Sound, Stage
<1>3. CASE /\ s.game.phase \in {"REWRITE", "VOTING", "RESULTS"}
           /\ s.pending = Titles[s.game.phase]
    BY <1>1, <1>3, TitlesStaged DEF Timed, Punctual, Awake, Sound
<1> QED
    BY <1>2, <1>3

\* Outside a match there is nothing to wait for.
LEMMA IdleTimed ==
    ASSUME NEW s, Sound(s.game), s.game.phase \in {"LOBBY", "OVER"}
    PROVE  Timed(s) /\ (Awake(s) => Punctual(s))
    BY DEF Timed, Punctual, InGame

LEMMA KeptTimed ==
    ASSUME NEW s, Timed(s), NEW t, Kept(s, t), Sound(t.game)
    PROVE  Timed(t) /\ (Awake(t) /\ Punctual(s) => Punctual(t))
<1>1. PhaseDeadline(t.game) = PhaseDeadline(s.game)
    BY DEF Kept, PhaseDeadline
<1> QED
    BY <1>1 DEF Timed, Punctual, Kept, IsFinalRound

LEMMA CourseHandled ==
    ASSUME NEW s, Sane(s), Timed(s), NEW t, Leads(s, t)
    PROVE  Handled(s, t)
<1>1. /\ Held(s) /\ Held(t) /\ Sane(t) /\ Sound(s.game)
      /\ s.game.phase \in Phase
      /\ s.game.phase # "OVER" => ReplayCount(s.game) < MinPlayers
    BY HeldFacts DEF Sane, Leads, Follows, Timed
<1>2. Course(s, t) /\ (Steady(s) /\ Awake(s) => Awake(t))
    BY <1>1 DEF Leads
<1>3. s.game.wants = {} =>
        ReplayCount(s.game) < MinPlayers /\ ~(ReplayCount(s.game) >= MinPlayers)
    BY NoWishNoCount, MinPlayersAssumption
<1>4. Quiet(s) /\ Punctual(s) => Awake(t)
    BY <1>1, <1>2, QuietSteady DEF Punctual
<1>5. s.game.phase \in {"RESULTS", "OVER"} /\ s.game.wants = {} =>
        t.game.round.totals = s.game.round.totals
    BY <1>2, <1>3 DEF Course, VotesKept
<1>6. t.flaky \subseteq s.flaky /\ Sound(t.game) /\ Stays(s, t)
    BY <1>1, <1>2, CourseStays DEF Course
<1>7. CASE Kept(s, t) /\ s.game.phase # "OVER"
  <2>1. SameStage(s.game, t.game)
    BY <1>7 DEF Kept, SameStage
  <2>2. Timed(t) /\ (Awake(t) /\ Punctual(s) => Punctual(t))
    BY <1>6, <1>7, KeptTimed
  <2> QED
    BY <1>4, <1>5, <1>6, <2>1, <2>2 DEF Handled, FlowsOn, Tame
<1>8. CASE Over(s, t) /\ s.game.phase # "LOBBY"
  <2>1. Timed(t) /\ (Awake(t) => Punctual(t))
    BY <1>6, <1>8, IdleTimed DEF Over
  <2>2. FlowsOn(s.game, t.game) /\ Tame(s.game, t.game)
    BY <1>1, <1>8 DEF Over, FlowsOn, FlowsTo, SameStage, Tame, InGame
  <2> QED
    BY <1>4, <1>5, <1>6, <2>1, <2>2 DEF Handled
<1>9. CASE Moved(s, t) /\ s.game.phase \in InGame
  <2>1. t.game.phase \in {"REWRITE", "VOTING", "RESULTS"}
    BY <1>9 DEF Moved, NextOf, Window
  <2>2. Timed(t) /\ Punctual(t)
    BY <1>6, <1>9, <2>1, BegunTimed DEF Moved, Sound
  <2>3. FlowsOn(s.game, t.game) /\ ~Fresh(s.game)
    BY <1>9 DEF Moved, FlowsOn, FlowsTo
  <2> QED
    BY <1>5, <1>6, <2>2, <2>3 DEF Handled
<1>10. CASE Again(s, t) /\ s.game.phase = "OVER"
  <2>1. s.game.wants # {}
    BY <1>3, <1>10 DEF Again
  <2>2. Quiet(s) => s.flaky = {}
    BY <1>10, <2>1 DEF Quiet
  <2>3. Timed(t) /\ (Quiet(s) /\ Punctual(s) => Punctual(t))
    <3>1. CASE t.game.phase = "PROMPT"
      <4>1. PhaseDeadline(t.game) = "off"
        BY <1>10, <3>1, AllOffNow DEF Again
      <4> QED
        BY <1>4, <1>6, <1>10, <2>2, <3>1, <4>1 DEF Again, Timed, Punctual, Stage
    <3>2. CASE t.game.phase \in {"LOBBY", "OVER"}
      BY <1>4, <1>6, <3>2, IdleTimed
    <3> QED
      BY <1>10, <3>1, <3>2 DEF Again
  <2>4. FlowsOn(s.game, t.game)
    BY <1>1, <1>10, LobbyRound DEF Again, FlowsOn, FlowsTo, Opens
  <2> QED
    BY <1>5, <1>6, <1>10, <2>1, <2>3, <2>4 DEF Handled
<1> QED
  <2>1. s.game.phase \in InGame \/ s.game.phase \in {"LOBBY", "OVER"}
    BY <1>1 DEF InGame
  <2> QED
    BY <1>2, <1>7, <1>8, <1>9, <1>10, <2>1 DEF Course, InGame

----------------------------------------------------------------------------
(* Lines. *)

\* In the lobby nothing is waited for but players.
LEMMA LobbyHandled ==
    ASSUME NEW s, Held(s), s.game.phase = "LOBBY",
           NEW t, Held(t), t.flaky \subseteq s.flaky, Sound(t.game),
           SameStage(s.game, t.game), t.pending = s.pending
    PROVE  Handled(s, t)
<1>1. t.game.phase = "LOBBY"
    BY DEF SameStage
<1>2. Punctual(s) => Awake(t)
  <2>1. ReplayCount(s.game) \in Nat /\ ~(ReplayCount(s.game) >= MinPlayers)
    BY HeldFacts, MinPlayersAssumption
  <2> QED
    BY <2>1 DEF Punctual, Awake
<1> QED
    BY <1>1, <1>2, IdleTimed DEF Handled, FlowsOn, Tame, Stays

LEMMA RemoveHandled ==
    ASSUME NEW s, Sane(s), Timed(s), NEW c \in Slot, NEW t \in RemoveClient(s, c)
    PROVE  Handled(s, t)
    BY RemovalLeads, RemoveLeads, CourseHandled DEF RemoveClient

LEMMA SendHandled ==
    ASSUME NEW s, Sane(s), Timed(s), NEW c \in Slot, NEW t \in SendTo(s, c)
    PROVE  Handled(s, t)
<1>1. CASE t = s
    BY <1>1, LeadsSelf, CourseHandled
<1>2. CASE t \in RemoveClient(s, c)
    BY <1>2, RemoveHandled
<1> QED
    BY <1>1, <1>2 DEF SendTo

LEMMA SeatingKept ==
    ASSUME NEW g \in GameState, NEW id, NEW n, Sound(g)
    PROVE  /\ SameStage(g, HandleJoin(g, id, n)) /\ Sound(HandleJoin(g, id, n))
           /\ SameStage(g, HandleReady(g, id)) /\ Sound(HandleReady(g, id))
<1>1. HandleJoin(g, id, n).round = g.round /\ HandleReady(g, id).round = g.round
    BY DEF HandleJoin, HandleReady, GameState
<1>2. SameStage(g, HandleJoin(g, id, n)) /\ SameStage(g, HandleReady(g, id))
    BY DEF HandleJoin, HandleReady, GameState, SameStage
<1> QED
    BY <1>1, <1>2 DEF SameStage, Sound, Owned, Asked

LEMMA JoinHandled ==
    ASSUME NEW s, Good(s), Timed(s), NEW c \in Slot, NEW n \in Name,
           NEW t \in HandleJoinLine(s, c, n)
    PROVE  Handled(s, t)
<1> DEFINE u == Admitted(s, c, n)
           R == JoinResult(s.game, JoinId(s, c), n)
<1>0. Sane(s)
    BY DEF Good
<1>1. CASE R = "ok"
  <2>1. t \in Then(SendTo(u, c), LAMBDA v : IF v.cid[c] = JoinId(s, c)
                                            THEN Broadcast(v) ELSE {v})
    BY <1>1 DEF HandleJoinLine, Admitted, JoinId
  <2>2. /\ Held(u) /\ u.game = HandleJoin(s.game, JoinId(s, c), n)
        /\ u.game.phase = "LOBBY" /\ u.flaky = s.flaky /\ u.pending = s.pending
        /\ \A d \in Slot \ (u.open \cup {c}) : u.cid[d] = 0
    BY <1>0, <1>1, AdmitIs
  <2>3. SameStage(s.game, u.game) /\ Sound(u.game)
    <3> DEFINE old == s.game
               h == HandleJoin(old, JoinId(s, c), n)
    <3>1. old \in GameState /\ Sound(old)
      BY <1>0, HeldFacts DEF Sane, Timed
    <3>2. u.game = h
      BY <2>2
    <3>3. SameStage(old, h) /\ Sound(h)
      <4> HIDE DEF old
      <4> QED
        BY <3>1, SeatingKept
    <3> HIDE DEF h, u
    <3> QED
      BY <3>2, <3>3
  <2> HIDE DEF u
  <2>4. PICK v \in SendTo(u, c) : t \in Broadcast(v) \cup {v}
    BY <2>1 DEF Then
  <2>5. Sane(v) /\ v.flaky \subseteq u.flaky /\ Kept(u, v) /\ Sound(v.game)
    <3>1. CASE c \in u.open /\ v = u
      BY <2>2, <2>3, <3>1, KeptSelf DEF Sane
    <3>2. CASE v \in RemoveClient(u, c)
      <4>1. Leads(u, v)
        BY <2>2, <3>2, RemovalLeads, RemoveLeadsHeld DEF RemoveClient
      <4> QED
        BY <2>2, <2>3, <4>1 DEF Leads, Course, Follows
    <3> QED
      BY <2>4, <3>1, <3>2 DEF SendTo
  <2>6. Sane(t) /\ t.flaky \subseteq v.flaky /\ Kept(v, t) /\ Sound(t.game)
    <3>1. Leads(v, t)
      BY <2>4, <2>5, RemovalLeads, BroadcastLeads, LeadsSelf DEF Broadcast
    <3>2. v.game.phase = "LOBBY"
      BY <2>2, <2>5 DEF Kept
    <3> QED
      BY <2>5, <3>1, <3>2 DEF Leads, Course, Follows
  <2>7. SameStage(s.game, t.game) /\ t.pending = s.pending
    BY <2>2, <2>3, <2>5, <2>6 DEF Kept, SameStage
  <2>8. s.game.phase = "LOBBY"
    BY <2>2, <2>3 DEF SameStage
  <2> QED
    BY <1>0, <2>2, <2>5, <2>6, <2>7, <2>8, LobbyHandled DEF Sane
<1>2. CASE R = "invalid_state"
  <2>1. t \in RemoveClient(s, c)
    BY <1>2 DEF HandleJoinLine, JoinId
  <2> QED
    BY <1>0, <2>1, RemoveHandled
<1>3. CASE R \notin {"ok", "invalid_state"}
  <2>1. t \in SendTo(s, c)
    BY <1>3 DEF HandleJoinLine, JoinId
  <2> QED
    BY <1>0, <2>1, SendHandled
<1> QED
    BY <1>1, <1>2, <1>3

\* The first round begins, or cannot be set up.
LEMMA StartHandled ==
    ASSUME NEW s, Sane(s), s.game.phase = "LOBBY", Sound(s.game),
           NEW t \in MaybeStartGame(s)
    PROVE  /\ Timed(t)
           /\ s.pending # "REPLAY_START" => Punctual(t)
           /\ t.flaky \subseteq s.flaky
           /\ \/ SameStage(s.game, t.game) /\ t.pending = s.pending
              \/ t.game.phase \in {"PROMPT", "OVER"} /\ t.game.roundNumber = 1
<1>1. CASE t = s
    BY <1>1, IdleTimed DEF SameStage, Awake
<1>2. CASE \E g \in Start(s.game) : t \in AfterStart([s EXCEPT !.game = g])
  <2>1. PICK g \in Start(s.game) : t \in AfterStart([s EXCEPT !.game = g])
    BY <1>2
  <2> DEFINE u == [s EXCEPT !.game = g]
  <2>2. Fits(s.game, Ids(s), s.nextId) /\ GameInv(s.game)
    BY DEF Sane, Held, Fits, Safe, Wiped
  <2>3. Fits(g, Ids(s), s.nextId) /\ g.wants = {}
    BY <2>2, StartFits
  <2>4. \/ g.phase = "PROMPT" /\ g.roundNumber = 1 /\ Begun(g)
        \/ g.phase = "LOBBY" /\ g.roundNumber = 0 /\ Sound(g)
    BY <2>2, StartBegins
  <2>5. /\ Sane(u) /\ u.game = g /\ u.flaky = s.flaky
        /\ u.pending = s.pending
    BY <2>3, GameChange
  <2>6. t \in AfterStartBy(Removal, u)
    BY <2>1 DEF AfterStart
  <2> HIDE DEF u
  <2>7. CASE g.phase = "PROMPT"
    <3>1. Announced(u, t) /\ t.pending = "QUESTION_PROMPT" /\ Sane(t)
      <4>1. Follows(u, t)
        BY <2>3, <2>5, <2>6, RemovalFollows, AfterStartFollows
      <4> QED
        BY <2>4, <2>5, <2>6, <2>7, <4>1, RemovalLeads, AfterStartLeads DEF Follows
    <3>2. CASE t.game.phase = "OVER"
      BY <2>4, <2>5, <2>7, <3>1, <3>2, IdleTimed DEF Announced, Over, Awake
    <3>3. CASE t.game.phase = "PROMPT" /\ AllOff(t.game)
      BY <2>4, <2>5, <2>7, <3>1, <3>3, BegunTimed DEF Announced, Over, Sound
    <3> QED
      BY <2>5, <2>7, <3>1, <3>2, <3>3 DEF Announced, Over
  <2>8. CASE g.phase = "LOBBY"
    <3>1. t \in BroadcastBy(Removal, u)
      BY <2>5, <2>6, <2>8 DEF AfterStartBy
    <3>2. Leads(u, t)
      BY <2>5, <3>1, RemovalLeads, BroadcastLeads
    <3>3. Sane(t) /\ Kept(u, t) /\ Sound(t.game) /\ t.flaky \subseteq u.flaky
      BY <2>4, <2>5, <2>8, <3>2 DEF Leads, Course, Follows
    <3>4. SameStage(s.game, t.game)
      BY <2>4, <2>5, <2>8, <3>3, LobbyRound DEF Kept, SameStage, Sane
    <3> QED
      BY <2>5, <2>8, <3>3, <3>4, IdleTimed DEF Kept, Awake
  <2> QED
    BY <2>4, <2>7, <2>8
<1> QED
    BY <1>1, <1>2 DEF MaybeStartGame

LEMMA ReadyHandled ==
    ASSUME NEW s, Good(s), Timed(s), NEW c \in Slot, NEW t \in HandleReadyLine(s, c)
    PROVE  Handled(s, t)
<1>0. Sane(s) /\ s.game \in GameState
    BY HeldFacts DEF Good, Sane
<1>1. CASE t \in SendTo(s, c)
    BY <1>0, <1>1, SendHandled
<1>2. CASE /\ CanReady(s.game, s.cid[c])
           /\ t \in Then(Broadcast([s EXCEPT !.game = HandleReady(@, s.cid[c])]),
                         MaybeStartGame)
  <2> DEFINE g == HandleReady(s.game, s.cid[c])
             u == [s EXCEPT !.game = g]
  <2>1. s.game.phase = "LOBBY" /\ Fits(s.game, Ids(s), s.nextId)
    BY <1>0, <1>2 DEF CanReady, Sane, Held
  <2>2. ~Fresh(s.game)
    BY <1>2, <2>1 DEF CanReady, IsPlayer, Fresh
  <2>3. Fits(g, Ids(s), s.nextId) /\ g.phase = "LOBBY"
    BY <2>1, ReadyFits
  <2>4. SameStage(s.game, g) /\ Sound(g)
    BY <1>0, SeatingKept DEF Timed
  <2>5. u = [s EXCEPT !.game = HandleReady(@, s.cid[c])]
    BY <1>0 DEF Sane, Held, ServerState
  <2> HIDE DEF g
  <2>6. /\ Sane(u) /\ u.game = g /\ u.flaky = s.flaky
        /\ u.pending = s.pending
    BY <1>0, <2>3, GameChange
  <2> HIDE DEF u
  <2>7. PICK v \in Broadcast(u) : t \in MaybeStartGame(v)
    BY <1>2, <2>5 DEF Then
  <2>8. Leads(u, v)
    BY <2>6, <2>7, RemovalLeads, BroadcastLeads DEF Broadcast
  <2>9. Sane(v) /\ Kept(u, v) /\ Sound(v.game) /\ v.flaky \subseteq u.flaky
    BY <2>3, <2>4, <2>6, <2>8 DEF Leads, Course, Follows
  <2>10. SameStage(s.game, v.game) /\ v.pending = s.pending
    BY <2>4, <2>6, <2>9 DEF Kept, SameStage
  <2>11. /\ Timed(t) /\ t.flaky \subseteq v.flaky
         /\ v.pending # "REPLAY_START" => Punctual(t)
         /\ \/ SameStage(v.game, t.game) /\ t.pending = v.pending
            \/ t.game.phase \in {"PROMPT", "OVER"} /\ t.game.roundNumber = 1
    BY <2>1, <2>7, <2>9, <2>10, StartHandled DEF SameStage
  <2>12. FlowsOn(s.game, t.game)
    BY <2>1, <2>10, <2>11 DEF FlowsOn, FlowsTo, SameStage, Opens
  <2>13. Punctual(s) => s.pending # "REPLAY_START"
    <3>1. ReplayCount(s.game) \in Nat /\ ~(ReplayCount(s.game) >= MinPlayers)
      BY <1>0, <2>1, HeldFacts, MinPlayersAssumption DEF Sane
    <3> QED
      BY <3>1 DEF Punctual, Awake
  <2> QED
    BY <2>1, <2>2, <2>6, <2>9, <2>10, <2>11, <2>12, <2>13 DEF Handled, Stays
<1> QED
    BY <1>1, <1>2 DEF HandleReadyLine

LEMMA WishKept ==
    ASSUME NEW g \in GameState, NEW id, NEW wish
    PROVE  LET h == HandleReplayChoice(g, id, wish)
           IN  /\ SameStage(g, h) /\ h.round = g.round
               /\ g.wants = {} => ReplayCount(h) < MinPlayers
<1> DEFINE h == HandleReplayChoice(g, id, wish)
           p == SlotOf(g, id)
<1>1. SameStage(g, h) /\ h.round = g.round
    BY DEF HandleReplayChoice, GameState, SameStage
<1>2. ASSUME g.wants = {} PROVE ReplayCount(h) < MinPlayers
  <2>1. h.wants \subseteq {p}
    BY <1>2 DEF HandleReplayChoice, GameState
  <2> HIDE DEF h, p
  <2>2. h.connected \cap h.wants \subseteq {p}
    BY <2>1
  <2>3. IsFiniteSet({p}) /\ Cardinality({p}) = 1
    BY FS_Singleton
  <2>4. /\ Cardinality(h.connected \cap h.wants) \in Nat
        /\ Cardinality(h.connected \cap h.wants) <= 1
    BY <2>2, <2>3, FS_Subset, FS_CardinalityType
  <2> QED
    BY <2>4, MinPlayersAssumption DEF ReplayCount
<1> QED
    BY <1>1, <1>2

\* A wish may begin the next match at once, or start or stop the countdown.
LEMMA WishHandled ==
    ASSUME NEW s, Good(s), Timed(s), NEW c \in Slot, NEW wish,
           NEW t \in HandleReplayLine(s, c, wish)
    PROVE  Handled(s, t)
<1>0. Sane(s) /\ s.game \in GameState /\ Sound(s.game)
    BY HeldFacts DEF Good, Sane, Timed
<1>1. CASE t \in SendTo(s, c)
    BY <1>0, <1>1, SendHandled
<1>2. CASE /\ CanChooseReplay(s.game, s.cid[c])
           /\ t \in Then(Broadcast([s EXCEPT !.game =
                                      HandleReplayChoice(@, s.cid[c], wish)]),
                         MaybeScheduleReplay)
  <2> DEFINE g == HandleReplayChoice(s.game, s.cid[c], wish)
             u == [s EXCEPT !.game = g]
  <2>1. s.game.phase = "OVER"
    BY <1>2 DEF CanChooseReplay
  <2>2. Fits(g, Ids(s), s.nextId)
    BY <1>0, <1>2, WishFits DEF Sane, Held
  <2>3. /\ SameStage(s.game, g) /\ g.round = s.game.round
        /\ s.game.wants = {} => ReplayCount(g) < MinPlayers
    BY <1>0, WishKept
  <2>4. u = [s EXCEPT !.game = HandleReplayChoice(@, s.cid[c], wish)]
    BY <1>0 DEF Sane, Held, ServerState
  <2> HIDE DEF g
  <2>5. /\ Sane(u) /\ u.game = g /\ u.flaky = s.flaky
        /\ u.pending = s.pending
    BY <1>0, <2>2, GameChange
  <2> HIDE DEF u
  <2>6. Sound(g) /\ g.phase = "OVER"
    BY <1>0, <2>1, <2>3 DEF SameStage, Sound, Owned, Asked, InGame
  <2>7. PICK v \in BroadcastBy(Removal, u) : t \in MaybeScheduleReplayBy(Removal, v)
    BY <1>2, <2>4 DEF Then, Broadcast, MaybeScheduleReplay
  <2>8. Leads(u, v) /\ (u.flaky = {} => v = u) /\ Sane(v)
    BY <2>5, <2>7, RemovalLeads, BroadcastLeads DEF Leads, Follows
  <2>9. /\ Leads(v, t)
        /\ Sound(v.game) /\ v.game.phase = "OVER" /\ Steady(v) => Awake(t)
    BY <2>7, <2>8, RemovalLeads, MaybeScheduleLeads
  <2>10. Leads(u, t)
    BY <2>5, <2>8, <2>9, LeadsTrans
  <2>11. Course(u, v) /\ Course(u, t)
    BY <2>5, <2>6, <2>8, <2>10 DEF Leads
  <2>12. Handled(u, t)
    <3>1. Timed(u)
      BY <2>5, <2>6, IdleTimed
    <3> QED
      BY <2>5, <2>10, <3>1, CourseHandled
  <2>13. ASSUME ReplayCount(u.game) < MinPlayers
         PROVE  /\ SameStage(s.game, t.game) /\ t.game.phase = "OVER"
                /\ t.game.round.totals = s.game.round.totals
                /\ Awake(t)
    <3>1. ~(ReplayCount(u.game) >= MinPlayers)
      BY <2>5, <2>13, HeldFacts, MinPlayersAssumption DEF Sane
    <3>2. Over(u, t) /\ Over(u, v)
      BY <2>5, <2>6, <2>11, <3>1 DEF Course, Again
    <3>3. Steady(v)
      BY <2>5, <2>8, <2>13, SteadyFollows DEF Steady, Leads, Sane
    <3> QED
      BY <2>3, <2>5, <2>6, <2>9, <2>11, <2>13, <3>2, <3>3
         DEF Over, Course, VotesKept, SameStage
  <2>14. ASSUME u.flaky = {} PROVE Punctual(t)
    <3>1. Awake(t)
      BY <2>5, <2>6, <2>8, <2>9, <2>14 DEF Steady
    <3>2. CASE t.game.phase \in {"LOBBY", "OVER"}
      BY <2>11, <3>1, <3>2, IdleTimed DEF Course
    <3>3. CASE t.game.phase = "PROMPT" /\ t.pending = "QUESTION_PROMPT"
      BY <3>1, <3>3 DEF Punctual
    <3> QED
      BY <2>5, <2>6, <2>11, <2>14, <3>2, <3>3 DEF Course, Over, Again
  <2>15. Quiet(s) => Punctual(t)
    <3>1. CASE s.flaky = {}
      BY <2>5, <2>14, <3>1
    <3>2. CASE s.game.wants = {}
      BY <2>3, <2>5, <2>11, <2>13, <3>2, IdleTimed DEF Course
    <3> QED
      BY <2>1, <3>1, <3>2 DEF Quiet
  <2>16. s.game.wants = {} =>
           /\ Tame(s.game, t.game)
           /\ t.game.round.totals = s.game.round.totals
    BY <2>3, <2>5, <2>13 DEF Tame
  <2>17. FlowsOn(s.game, t.game)
    BY <2>3, <2>5, <2>12 DEF Handled, FlowsOn, FlowsTo, SameStage, Opens
  <2> QED
    BY <2>1, <2>5, <2>6, <2>12, <2>15, <2>16, <2>17 DEF Handled, Stays
<1> QED
    BY <1>1, <1>2 DEF HandleReplayLine

\* An answer that is taken may be the last one the phase waits for.
LEMMA AnswerHandled ==
    ASSUME NEW s, Good(s), Timed(s), NEW c \in Slot, NEW g, AnswerKept(s.game, g),
           g = s.game \/ (s.game.phase \in Window /\ Recorded(s.game, g)),
           NEW t \in Answered(s, c, g)
    PROVE  Handled(s, t)
<1>0. Sane(s) /\ Sound(s.game)
    BY DEF Good, Timed
<1>1. CASE g = s.game
    BY <1>0, <1>1, SendHandled DEF Answered
<1>2. CASE g # s.game
  <2> DEFINE u == [s EXCEPT !.game = g]
  <2>1. s.game.phase \in Window /\ Recorded(s.game, g)
    BY <1>2
  <2>2. Fits(g, Ids(s), s.nextId)
    BY <1>0, <2>1, RecordedFits DEF Sane, Held, Window
  <2>3. /\ Sane(u) /\ u.game = g /\ u.flaky = s.flaky
        /\ u.pending = s.pending
    BY <1>0, <2>2, GameChange
  <2>4. t \in AdvanceIfReadyBy(Removal, u)
    BY <1>2 DEF Answered, AdvanceIfReady
  <2> HIDE DEF u
  <2>5. Fresh(s.game) => t = u
    <3> SUFFICES ASSUME Fresh(s.game) PROVE t = u
      OBVIOUS
    <3>1. GameInv(s.game)
      BY <1>0, <2>1, HeldFacts DEF Sane
    <3>2. AdvancePhaseIfReady(u.game) = {u.game}
      BY <2>3, <3>1 DEF AnswerKept
    <3>3. [u EXCEPT !.game = u.game] = u
      BY <2>3 DEF Sane, Held, ServerState
    <3> QED
      BY <2>4, <3>2, <3>3 DEF AdvanceIfReadyBy
  <2>6. SameStage(s.game, u.game) /\ Sound(u.game)
    BY <1>0, <2>3 DEF AnswerKept, SameStage
  <2>7. PhaseDeadline(u.game) = PhaseDeadline(s.game)
    BY <2>3 DEF AnswerKept, PhaseDeadline
  <2>8. Timed(u)
    BY <2>1, <2>3, <2>6, <2>7 DEF Timed, SameStage, Window
  <2>9. Handled(u, t)
    BY <2>3, <2>4, <2>8, RemovalLeads, AdvanceLeads, CourseHandled
  <2>10. Punctual(s) => Punctual(u) /\ Quiet(u)
    <3>1. ReplayCount(s.game) \in Nat /\ ~(ReplayCount(s.game) >= MinPlayers)
      BY <1>0, <2>1, HeldFacts, MinPlayersAssumption DEF Sane, Window
    <3> QED
      BY <2>1, <2>3, <2>6, <2>7, <3>1 DEF Punctual, Awake, SameStage, Quiet, Window
  <2>11. FlowsOn(s.game, t.game) /\ (Fresh(s.game) => Tame(s.game, t.game))
    BY <2>5, <2>6, <2>9 DEF Handled, FlowsOn, FlowsTo, SameStage, Opens, Tame
  <2> QED
    BY <2>1, <2>3, <2>6, <2>9, <2>10, <2>11 DEF Handled, Window, Stays, SameStage
<1> QED
    BY <1>1, <1>2

LEMMA DispatchHandled ==
    ASSUME NEW s, Good(s), Timed(s), NEW c \in Slot, NEW m \in Message,
           NEW t \in Dispatch(s, c, m)
    PROVE  Handled(s, t)
<1>0. Sane(s) /\ s.game \in GameState
    BY HeldFacts DEF Good, Sane
<1>1. CASE m.type = "JOIN"
  <2>1. m.name \in Name
    BY <1>1 DEF Message
  <2> QED
    BY <1>1, <2>1, JoinHandled DEF Dispatch
<1>2. CASE m.type = "READY"
    BY <1>2, ReadyHandled DEF Dispatch
<1>3. CASE m.type = "REPLAY"
    BY <1>3, WishHandled DEF Dispatch
<1>4. CASE m.type \in {"SUBMIT", "TITLE", "VOTE"}
  <2>1. PICK g \in {HandleSubmit(s.game, s.cid[c]), HandleRewrite(s.game, s.cid[c]),
                    HandleVote(s.game, s.cid[c], VoteTargetId(s.game, m.option))} :
          t \in Answered(s, c, g)
    BY <1>4 DEF Dispatch
  <2>2. g = s.game \/ (s.game.phase \in Window /\ Recorded(s.game, g))
    BY AnswersRecorded
  <2>3. AnswerKept(s.game, g)
    BY <1>0, <2>1, SubmitKept, RewriteKept, VoteKept
  <2> QED
    BY <2>1, <2>2, <2>3, AnswerHandled
<1>5. CASE m.type = "BAD_JOIN"
    BY <1>0, <1>5, RemoveHandled DEF Dispatch
<1>6. CASE m.type = "OTHER"
    BY <1>0, <1>6, SendHandled DEF Dispatch
<1>7. m.type \in {"JOIN", "READY", "REPLAY", "SUBMIT", "TITLE", "VOTE", "BAD_JOIN", "OTHER"}
    BY DEF Message
<1> QED
    BY <1>1, <1>2, <1>3, <1>4, <1>5, <1>6, <1>7

----------------------------------------------------------------------------
(* Timers. *)

\* Nothing but a new answer can move the match on, and nobody has asked for
\* another one.
Still(s) == Fresh(s.game) /\ (s.game.phase = "OVER" => s.game.wants = {})

\* At most one step of the flow, and one only from where the match is still.
Strides(s, t) ==
    /\ SameStage(s.game, t.game) \/ (FlowsTo(s.game, t.game) /\ Still(t))
    /\ Still(s) => Tame(s.game, t.game) /\ Still(t)

Undue(s) == PhaseDeadline(s.game) # "due"

\* What a timer leaves: its own clock and no other is set.
InTime(s) == Timed(s) /\ Punctual(s) /\ Undue(s)

\* What a timer does.
Passes(s, t) ==
    /\ t.flaky \subseteq s.flaky
    /\ t.game.wants \subseteq s.game.wants
    /\ NoReturn(s, t)
    /\ Strides(s, t)

LEMMA StridesTrans ==
    ASSUME NEW s, NEW t, NEW u, Strides(s, t), Strides(t, u)
    PROVE  Strides(s, u)
<1>1. ASSUME SameStage(s.game, t.game), FlowsTo(t.game, u.game)
      PROVE  FlowsTo(s.game, u.game)
    BY <1>1 DEF SameStage, FlowsTo, Opens
<1>2. ASSUME SameStage(s.game, t.game), SameStage(t.game, u.game)
      PROVE  SameStage(s.game, u.game)
    BY <1>2 DEF SameStage
<1>3. ASSUME Tame(s.game, t.game), Tame(t.game, u.game)
      PROVE  Tame(s.game, u.game)
    BY <1>3 DEF Tame, SameStage, InGame
<1> QED
    BY <1>1, <1>2, <1>3, FlowTame DEF Strides

LEMMA PassesTrans ==
    ASSUME NEW s, NEW t, NEW u, Passes(s, t), Passes(t, u)
    PROVE  Passes(s, u)
    BY StridesTrans DEF Passes, NoReturn

\* Whatever changes neither the phase nor the players.
LEMMA PassesSame ==
    ASSUME NEW s, NEW t, t.flaky = s.flaky, SameStage(s.game, t.game),
           t.game.wants = s.game.wants, Fresh(s.game) => Fresh(t.game)
    PROVE  Passes(s, t)
    BY DEF Passes, Strides, Tame, Still, SameStage, NoReturn

LEMMA CourseStrides ==
    ASSUME NEW s, Held(s), NEW t, Follows(s, t), Course(s, t)
    PROVE  /\ Passes(s, t)
           /\ Undue(s) => Undue(t)
<1>1. /\ s.game.phase \in Phase /\ t.game.wants \subseteq s.game.wants
      /\ s.game.phase # "OVER" => s.game.wants = {}
      /\ s.game.wants = {} => ~(ReplayCount(s.game) >= MinPlayers)
      /\ NoReturn(s, t)
    BY HeldFacts, NoWishBeforeOver, NoWishNoCount, CourseStays DEF Follows, Shrinks
<1>2. CASE Kept(s, t)
    BY <1>1, <1>2 DEF Kept, Course, Passes, Strides, Still, SameStage, Tame,
                      Undue, PhaseDeadline
<1>3. CASE Over(s, t) /\ s.game.phase # "LOBBY"
  <2>1. Fresh(t.game) /\ Undue(t)
    BY <1>3 DEF Over, Fresh, Undue, PhaseDeadline, Window
  <2>2. SameStage(s.game, t.game) \/ s.game.phase \in InGame
    BY <1>1, <1>3 DEF Over, SameStage, InGame
  <2>3. s.game.phase \in InGame => t.game.wants = {}
    BY <1>1 DEF InGame
  <2> QED
    BY <1>1, <1>3, <2>1, <2>2, <2>3
       DEF Over, Course, Passes, Strides, Still, FlowsTo, Tame
<1>4. CASE Moved(s, t)
  <2>1. t.game.phase # "OVER" /\ Undue(t)
    BY <1>4, AllOffNow DEF Moved, NextOf, Window, Undue
  <2> QED
    BY <1>1, <1>4, <2>1 DEF Moved, Course, Passes, Strides, Still, FlowsTo
<1>5. CASE Again(s, t) /\ s.game.phase = "OVER"
  <2>1. ~Still(s)
    BY <1>1, <1>5 DEF Again, Still
  <2>2. Undue(t) /\ Still(t)
    BY <1>5, AllOffNow DEF Again, Undue, PhaseDeadline, Window, Still
  <2>3. FlowsTo(s.game, t.game)
    BY <1>5, LobbyRound DEF Again, FlowsTo, Opens, Follows, Sane
  <2> QED
    BY <1>1, <2>1, <2>2, <2>3 DEF Course, Passes, Strides
<1> QED
    BY <1>1, <1>2, <1>3, <1>4, <1>5 DEF Course, InGame, Phase

\* A timer that finds nobody waiting for another match leaves the clock that
\* is due next, and sends after it do not change that.
LEMMA CalmOnTime ==
    ASSUME NEW s, Calm(s), InTime(s), NEW t, Leads(s, t)
    PROVE  Calm(t) /\ InTime(t) /\ Passes(s, t)
<1>1. /\ Sane(s) /\ Held(s) /\ Sound(s.game) /\ Follows(s, t) /\ Steady(s)
      /\ Awake(s)
    BY DEF Calm, InTime, Timed, Punctual, Leads, Sane, Steady
<1>2. Course(s, t) /\ Awake(t) /\ Calm(t)
    BY <1>1, CalmFollows DEF Leads
<1>3. Passes(s, t) /\ Undue(t)
    BY <1>1, <1>2, CourseStrides DEF InTime
<1>4. ~Again(s, t)
  <2>1. ~(ReplayCount(s.game) >= MinPlayers)
    BY <1>1, HeldFacts, MinPlayersAssumption DEF Calm
  <2> QED
    BY <2>1 DEF Again
<1>5. CASE Kept(s, t)
    BY <1>2, <1>3, <1>5, KeptTimed DEF InTime, Course
<1>6. CASE Over(s, t)
    BY <1>2, <1>3, <1>6, IdleTimed DEF InTime, Course, Over
<1>7. CASE Moved(s, t)
  <2>1. t.game.phase \in {"REWRITE", "VOTING", "RESULTS"}
    BY <1>7 DEF Moved, NextOf, Window
  <2> QED
    BY <1>2, <1>3, <1>7, <2>1, BegunTimed DEF InTime, Course, Moved, Sound
<1> QED
  <2>1. s.game.phase \in Phase
    BY <1>1, HeldFacts
  <2> QED
    BY <1>2, <1>3, <1>4, <1>5, <1>6, <1>7, <2>1 DEF Course, InGame, Phase

LEMMA CalmSends ==
    ASSUME NEW s, Calm(s), InTime(s), NEW t \in Broadcast(s)
    PROVE  Calm(t) /\ InTime(t) /\ Passes(s, t)
    BY CalmOnTime, RemovalLeads, BroadcastLeads DEF Broadcast, Calm

\* While a pending action runs, nothing is pending.
LEMMA ActionBegins ==
    ASSUME NEW s, Good(s), Timed(s), s.pending \notin {"NONE", "REPLAY_START"}
    PROVE  LET u == ClearPending(s)
           IN  /\ Calm(u) /\ Sound(u.game) /\ Undue(u)
               /\ u.game = s.game /\ u.pending = "NONE"
               /\ u.game.phase \in InGame => s.pending \in Stage(u.game.phase)
               /\ u.game.phase \notin InGame => InTime(u)
               /\ Passes(s, u)
<1> DEFINE u == ClearPending(s)
<1>1. Sane(u) /\ u.game = s.game /\ u.pending = "NONE" /\ u.flaky = s.flaky
    BY ClearIs DEF Good
<1> HIDE DEF u
<1>2. Calm(u)
    BY <1>1, GoodCalm DEF Calm
<1>3. /\ s.game.phase \in InGame =>
           PhaseDeadline(s.game) = "off" /\ s.pending \in Stage(s.game.phase)
      /\ Sound(s.game)
    BY DEF Timed
<1>4. s.game.phase \notin InGame =>
        s.game.phase \in {"LOBBY", "OVER"} /\ PhaseDeadline(s.game) = "off"
  <2>1. s.game.phase \in Phase
    BY HeldFacts DEF Good, Sane
  <2> QED
    BY <2>1 DEF InGame, PhaseDeadline, Phase, Window
<1>5. u.game.phase \notin InGame => InTime(u)
    BY <1>1, <1>3, <1>4, IdleTimed DEF InTime, Undue, Awake
<1>6. Undue(u)
    BY <1>1, <1>3, <1>4 DEF Undue
<1>7. Passes(s, u)
    BY <1>1, PassesSame DEF SameStage
<1> QED
    BY <1>1, <1>2, <1>3, <1>5, <1>6, <1>7 DEF u

\* The first send of an action: the match stays where it is, or it is on time.
LEMMA ActionSends ==
    ASSUME NEW u, Calm(u), Sound(u.game), Undue(u), u.pending = "NONE",
           NEW v \in Broadcast(u)
    PROVE  /\ Calm(v) /\ Sound(v.game) /\ Undue(v) /\ Passes(u, v)
           /\ v.game.phase = "LOBBY" => u.game.phase = "LOBBY"
           /\ \/ /\ SameStage(u.game, v.game) /\ v.pending = "NONE"
                 /\ v.game.phase \in InGame
              \/ InTime(v) /\ v.game.phase \notin InGame
              \/ /\ InTime(v) /\ u.game.phase \in Window
                 /\ v.game.phase = NextOf[u.game.phase]
<1>1. /\ Sane(u) /\ Held(u) /\ Steady(u) /\ Awake(u)
      /\ u.game.phase \in Phase
      /\ ~(ReplayCount(u.game) >= MinPlayers)
    BY HeldFacts, MinPlayersAssumption DEF Calm, Sane, Steady, Awake
<1>2. Leads(u, v)
    BY <1>1, RemovalLeads, BroadcastLeads DEF Broadcast
<1>3. Course(u, v) /\ Awake(v) /\ Follows(u, v) /\ Sound(v.game)
    BY <1>1, <1>2 DEF Leads, Course
<1>4. Calm(v) /\ Passes(u, v) /\ Undue(v)
    BY <1>1, <1>3, CalmFollows, CourseStrides
<1>5. v.game.phase = "LOBBY" => u.game.phase = "LOBBY"
  <2>1. ~Again(u, v)
    BY <1>1 DEF Again
  <2>2. Moved(u, v) => v.game.phase # "LOBBY"
    BY DEF Moved, NextOf, Window
  <2> QED
    BY <1>1, <1>3, <2>1, <2>2 DEF Course, Kept, Over, InGame
<1>6. CASE v.game.phase \in {"LOBBY", "OVER"}
    BY <1>3, <1>4, <1>6, <1>5, IdleTimed DEF InTime, InGame
<1>7. CASE v.game.phase \notin {"LOBBY", "OVER"} /\ Kept(u, v)
  <2>1. v.game.phase \in Phase
    BY <1>4, HeldFacts DEF Calm, Sane
  <2> QED
    BY <1>3, <1>4, <1>7, <1>5, <2>1 DEF Kept, SameStage, InGame
<1>8. CASE v.game.phase \notin {"LOBBY", "OVER"} /\ Moved(u, v)
  <2>1. v.game.phase \in {"REWRITE", "VOTING", "RESULTS"}
    BY <1>8 DEF Moved, NextOf, Window
  <2> QED
    BY <1>3, <1>4, <1>8, <2>1, BegunTimed DEF InTime, Moved, Sound
<1> QED
    BY <1>1, <1>3, <1>4, <1>6, <1>7, <1>8, <1>5 DEF Course, Over, Again, InGame, Phase

\* A window opens on time, or its phase is over by then.
LEMMA WindowOnTime ==
    ASSUME NEW v, Calm(v), Sound(v.game), NEW w \in Window,
           v.game.phase = w => v.pending = "NONE",
           v.game.phase # w => InTime(v)
    PROVE  LET x == [v EXCEPT !.game = StartWindow(v.game, w)]
           IN  Calm(x) /\ InTime(x) /\ Passes(v, x)
<1> DEFINE g == StartWindow(v.game, w)
           x == [v EXCEPT !.game = g]
<1>1. v \in ServerState /\ v.game \in GameState /\ v.game.round \in RoundState
    BY DEF Calm, Sane, Held, ServerState, GameState
<1>2. Calm(x)
    BY CalmWindow
<1>3. CASE v.game.phase # w
  <2>1. x = v
    BY <1>1, <1>3 DEF StartWindow, ServerState
  <2> QED
    BY <1>2, <1>3, <2>1, PassesSame DEF SameStage
<1>4. CASE v.game.phase = w
  <2>1. g = SetDeadline(v.game, w, "running")
    BY <1>4 DEF StartWindow
  <2>2. /\ SameStage(v.game, g) /\ g.wants = v.game.wants
        /\ g.round.deadline = [v.game.round.deadline EXCEPT ![w] = "running"]
        /\ Fresh(v.game) => Fresh(g)
        /\ Asked(v.game) => Asked(g)
    BY <1>1, <2>1 DEF SetDeadline, SameStage, GameState, RoundState, Fresh, Asked
  <2>3. PhaseDeadline(g) = "running" /\ Owned(g)
    BY <1>1, <1>4, <2>2
       DEF PhaseDeadline, Owned, Sound, SameStage, RoundState, Window
  <2> HIDE DEF g
  <2>4. x.game = g /\ x.pending = "NONE" /\ x.flaky = v.flaky
    BY <1>1, <1>4 DEF ServerState
  <2> HIDE DEF x
  <2>5. InTime(x)
    BY <1>4, <2>2, <2>3, <2>4
       DEF InTime, Timed, Punctual, Awake, Undue, Sound, SameStage
  <2> QED
    BY <1>2, <2>2, <2>4, <2>5, PassesSame DEF x, g
<1> QED
    BY <1>3, <1>4

LEMMA PromptsOnTime ==
    ASSUME NEW s, Good(s), Timed(s), s.pending \in Prompts, NEW t \in RunPending(s)
    PROVE  InTime(t) /\ Passes(s, t)
<1> DEFINE u == ClearPending(s)
<1>1. s.pending \notin {"NONE", "REPLAY_START"}
    BY DEF Prompts
<1>2. /\ Calm(u) /\ Sound(u.game) /\ Undue(u) /\ u.pending = "NONE"
      /\ u.game.phase \in InGame => s.pending \in Stage(u.game.phase)
      /\ u.game.phase \notin InGame => InTime(u)
      /\ Passes(s, u)
    BY <1>1, ActionBegins
<1>3. t \in CASE s.pending = "QUESTION_PROMPT" -> QuestionPrompt(u)
              [] s.pending = "TITLE_PROMPT"    -> TitlePrompt(u)
              [] s.pending = "VOTING_PROMPT"   -> VotingPrompt(u)
    BY DEF RunPending, Prompts
<1> HIDE DEF u
\* The prompt and the phase it belongs to.
<1>4. ASSUME NEW w \in Window, u.game.phase \in InGame => u.game.phase = w,
             NEW v \in Broadcast(u), NEW x,
             x = [v EXCEPT !.game = StartWindow(@, w)]
      PROVE  Calm(x) /\ InTime(x) /\ Passes(u, x)
  <2>1. /\ Calm(v) /\ Sound(v.game) /\ Undue(v) /\ Passes(u, v)
        /\ \/ /\ SameStage(u.game, v.game) /\ v.pending = "NONE"
              /\ v.game.phase \in InGame
           \/ InTime(v) /\ v.game.phase \notin InGame
           \/ /\ InTime(v) /\ u.game.phase \in Window
              /\ v.game.phase = NextOf[u.game.phase]
    BY <1>2, <1>4, ActionSends
  <2>2. /\ v.game.phase = w => v.pending = "NONE"
        /\ v.game.phase # w => InTime(v)
    BY <1>4, <2>1 DEF SameStage, NextOf, Window, InGame, Phase
  <2>3. x = [v EXCEPT !.game = StartWindow(v.game, w)]
    BY <1>4, <2>1, WindowInPlace
  <2>4. Calm(x) /\ InTime(x) /\ Passes(v, x)
    BY <2>1, <2>2, <2>3, WindowOnTime
  <2> QED
    BY <2>1, <2>4, PassesTrans
<1>5. CASE s.pending = "QUESTION_PROMPT"
  <2>1. u.game.phase \in InGame => u.game.phase = "PROMPT"
    BY <1>2, <1>5 DEF Stage, InGame, Phase, Boards
  <2>2. PICK x \in {[v EXCEPT !.game = StartWindow(@, "PROMPT")] : v \in Broadcast(u)} :
          t \in Broadcast(x)
    BY <1>3, <1>5 DEF QuestionPrompt, Then
  <2>3. Calm(x) /\ InTime(x) /\ Passes(u, x)
    BY <1>4, <2>1, <2>2 DEF Window
  <2> QED
    BY <1>2, <2>2, <2>3, CalmSends, PassesTrans
<1>6. CASE s.pending = "TITLE_PROMPT"
  <2> DEFINE x == [u EXCEPT !.game = StartWindow(@, "REWRITE")]
  <2>1. u.game.phase # "REWRITE" => InTime(u)
    BY <1>2, <1>6 DEF Stage, InGame, Phase, Boards
  <2>2. x = [u EXCEPT !.game = StartWindow(u.game, "REWRITE")]
    BY <1>2, WindowInPlace
  <2>3. Calm(x) /\ InTime(x) /\ Passes(u, x)
    BY <1>2, <2>1, <2>2, WindowOnTime DEF Window
  <2>4. t \in Broadcast(x)
    BY <1>3, <1>6 DEF TitlePrompt
  <2> HIDE DEF x
  <2> QED
    BY <1>2, <2>3, <2>4, CalmSends, PassesTrans
<1>7. CASE s.pending = "VOTING_PROMPT"
  <2>1. u.game.phase \in InGame => u.game.phase = "VOTING"
    BY <1>2, <1>7 DEF Stage, InGame, Phase, Boards
  <2>2. PICK v \in Broadcast(u) : t = [v EXCEPT !.game = StartWindow(@, "VOTING")]
    BY <1>3, <1>7 DEF VotingPrompt
  <2>3. InTime(t) /\ Passes(u, t)
    BY <1>4, <2>1, <2>2 DEF Window
  <2> QED
    BY <1>2, <2>3, PassesTrans
<1> QED
    BY <1>5, <1>6, <1>7 DEF Prompts

\* What is scheduled in RESULTS, or once the match is over.
LEMMA BoardOnTime ==
    ASSUME NEW v, Calm(v), Sound(v.game), v.game.phase \in {"RESULTS", "LOBBY", "OVER"},
           NEW a \in Boards \cup {"GAME_OVER"},
           v.game.phase = "RESULTS" =>
             a \in Boards /\ (a = "FINAL_SCOREBOARD" => IsFinalRound(v.game))
    PROVE  InTime(Schedule(v, a)) /\ Passes(v, Schedule(v, a))
<1> DEFINE t == Schedule(v, a)
<1>1. a \in Pending \ {"NONE"} /\ a # "REPLAY_START"
    BY DEF Pending, Boards
<1>2. t.game = v.game /\ t.pending = a /\ t.flaky = v.flaky
    BY <1>1, ScheduleIs DEF Calm
<1> HIDE DEF t
<1>3. Awake(t) /\ Passes(v, t)
    BY <1>1, <1>2, PassesSame DEF Awake, SameStage
<1>4. PhaseDeadline(t.game) = "off"
    BY <1>2 DEF PhaseDeadline, Window
<1>5. Timed(t)
    BY <1>2, <1>4 DEF Timed, Stage, InGame
<1>6. Punctual(t)
    BY <1>2, <1>3 DEF Punctual
<1> QED
    BY <1>3, <1>4, <1>5, <1>6 DEF InTime, Undue, t

LEMMA ResultsOnTime ==
    ASSUME NEW s, Good(s), Timed(s), s.pending = "ROUND_RESULTS", NEW t \in RunPending(s)
    PROVE  InTime(t) /\ Passes(s, t)
<1> DEFINE u == ClearPending(s)
<1>1. /\ Calm(u) /\ Sound(u.game) /\ Undue(u) /\ u.pending = "NONE"
      /\ u.game.phase \in InGame => s.pending \in Stage(u.game.phase)
      /\ Passes(s, u)
    BY ActionBegins
<1>2. t \in RoundResults(u)
    BY DEF RunPending
<1> HIDE DEF u
<1>3. PICK v \in Broadcast(u) :
        t = Schedule(v, IF IsFinalRound(v.game) THEN "FINAL_SCOREBOARD" ELSE "SCOREBOARD")
    BY <1>2 DEF RoundResults
<1>4. u.game.phase \in {"RESULTS", "LOBBY", "OVER"}
  <2>1. u.game.phase \in Phase
    BY <1>1, HeldFacts DEF Calm, Sane
  <2> QED
    BY <1>1, <2>1 DEF Stage, InGame, Phase
<1>5. /\ Calm(v) /\ Sound(v.game) /\ Passes(u, v) /\ v.game.phase \in Phase
      /\ SameStage(u.game, v.game) \/ v.game.phase \notin InGame
         \/ u.game.phase \in Window
    BY <1>1, ActionSends, HeldFacts DEF Calm, Sane
<1>6. v.game.phase \in {"RESULTS", "LOBBY", "OVER"}
    BY <1>4, <1>5 DEF SameStage, InGame, Phase, Window
<1>7. PICK a \in Boards : /\ t = Schedule(v, a)
                          /\ a = "FINAL_SCOREBOARD" => IsFinalRound(v.game)
    BY <1>3 DEF Boards
<1>8. InTime(t) /\ Passes(v, t)
    BY <1>5, <1>6, <1>7, BoardOnTime
<1> QED
    BY <1>1, <1>5, <1>8, PassesTrans

\* Outside the lobby, which a stale board would close.
Orderly(s) == s.game.phase = "LOBBY" => s.pending # "SCOREBOARD"

LEMMA EndedOnTime ==
    ASSUME NEW v, v \in ServerState, Sound(v.game), ReplayCount(v.game) < MinPlayers,
           v.pending # "REPLAY_START", NEW t, t = [v EXCEPT !.game = EndGame(@)]
    PROVE  /\ InTime(t) /\ t.flaky = v.flaky
           /\ t.game.phase = "OVER" /\ t.game.roundNumber = v.game.roundNumber
           /\ t.game.wants = v.game.wants
<1>1. /\ t.game = EndGame(v.game) /\ t.flaky = v.flaky /\ t.pending = v.pending
      /\ t.game.phase = "OVER" /\ t.game.roundNumber = v.game.roundNumber
      /\ t.game.wants = v.game.wants /\ t.game.round = v.game.round
    BY DEF ServerState, GameState, EndGame
<1>2. Sound(t.game) /\ Awake(t) /\ PhaseDeadline(t.game) = "off"
    BY <1>1 DEF Sound, Owned, Asked, InGame, Awake, PhaseDeadline, Window
<1> QED
    BY <1>1, <1>2, IdleTimed DEF InTime, Undue

\* What a pending action may do to the match: the next round may begin.
Ticks(s, t) ==
    /\ t.flaky \subseteq s.flaky
    /\ t.game.wants \subseteq s.game.wants
    /\ NoReturn(s, t)
    /\ SameStage(s.game, t.game) \/ (FlowsTo(s.game, t.game) /\ Still(t))

LEMMA PassesTick ==
    ASSUME NEW s, NEW t, Passes(s, t)
    PROVE  Ticks(s, t)
    BY DEF Passes, Strides, Ticks

LEMMA TicksTrans ==
    ASSUME NEW s, NEW t, NEW u, Ticks(s, t), Ticks(t, u),
           Passes(t, u) \/ SameStage(s.game, t.game)
    PROVE  Ticks(s, u)
<1>1. ASSUME SameStage(s.game, t.game), FlowsTo(t.game, u.game)
      PROVE  FlowsTo(s.game, u.game)
    BY <1>1 DEF SameStage, FlowsTo, Opens
<1>2. ASSUME SameStage(s.game, t.game), SameStage(t.game, u.game)
      PROVE  SameStage(s.game, u.game)
    BY <1>2 DEF SameStage
<1> QED
    BY <1>1, <1>2, FlowTame DEF Ticks, Passes, Strides, NoReturn

LEMMA CalmCount ==
    ASSUME NEW s, Calm(s)
    PROVE  ~(ReplayCount(s.game) >= MinPlayers)
    BY HeldFacts, MinPlayersAssumption DEF Calm, Sane

LEMMA NextRoundOnTime ==
    ASSUME NEW v, Calm(v), Sound(v.game), v.game.phase \in {"RESULTS", "LOBBY", "OVER"},
           v.pending # "REPLAY_START", NEW t \in NextRoundOrEnd(v)
    PROVE  /\ InTime(t)
           /\ t.flaky \subseteq v.flaky /\ t.game.wants \subseteq v.game.wants
           /\ v.game.phase # "LOBBY" => Ticks(v, t)
           /\ v.game.phase = "OVER" => Passes(v, t)
<1>1. PICK g \in FinishRound(v.game) :
        t \in LET x == [v EXCEPT !.game = g]
              IN  IF v.game.phase = "RESULTS" /\ g.phase # "RESULTS"
                  THEN {Schedule(y, "QUESTION_PROMPT") : y \in Broadcast(x)}
                  ELSE {[y EXCEPT !.game = EndGame(@)] : y \in Broadcast(x)}
    BY DEF NextRoundOrEnd
<1> DEFINE x == [v EXCEPT !.game = g]
<1>2. /\ Fits(v.game, Ids(v), v.nextId) /\ v.game \in GameState /\ Held(v) /\ Sane(v)
      /\ ~(ReplayCount(v.game) >= MinPlayers)
      /\ v.game.phase # "OVER" => v.game.wants = {}
    BY HeldFacts, NoWishBeforeOver, MinPlayersAssumption DEF Calm, Sane, Held
<1>3. Fits(g, Ids(v), v.nextId) /\ SameTable(v.game, g)
    BY <1>2, FinishFits
<1>4. Sane(x) /\ x.game = g /\ x.pending = v.pending /\ x.flaky = v.flaky
    BY <1>2, <1>3, GameChange
<1>5. /\ Calm(x) /\ g.wants = v.game.wants
    BY <1>3, <1>4 DEF Calm, SameTable, ReplayCount
<1>6. \/ g.phase = "OVER" /\ g.roundNumber = v.game.roundNumber
      \/ /\ g.phase = "PROMPT" /\ v.game.roundNumber < TotalRounds
         /\ g.roundNumber = v.game.roundNumber + 1 /\ Begun(g)
      \/ g.phase = "RESULTS" /\ g.roundNumber = v.game.roundNumber /\ Sound(g)
      \/ v.game.phase # "RESULTS"
  <2>1. CASE v.game.phase = "RESULTS"
    <3>1. JoinedCount(v.game) >= MinPlayers
      BY <1>2, <2>1, MembersEnough DEF Fits, Safe, Wiped, InGame, Phase
    <3> QED
      BY <1>2, <2>1, <3>1, FinishBegins
  <2> QED
    BY <2>1
<1>7. ASSUME NEW y \in Broadcast(x) PROVE Leads(x, y) /\ Sane(y) /\ Calm(y)
    BY <1>4, <1>5, <1>7, RemovalLeads, BroadcastLeads, CalmBroadcast DEF Broadcast, Calm
<1>8. CASE v.game.phase = "RESULTS" /\ g.phase # "RESULTS"
  <2> HIDE DEF x
  <2>1. PICK y \in Broadcast(x) : t = Schedule(y, "QUESTION_PROMPT")
    BY <1>1, <1>8 DEF x
  <2>2. "QUESTION_PROMPT" \in Pending \ {"NONE"}
    BY DEF Pending, Prompts
  <2>3. /\ Leads(x, y) /\ Sane(y) /\ y.game.wants \subseteq x.game.wants
        /\ t.game = y.game /\ t.pending = "QUESTION_PROMPT" /\ t.flaky = y.flaky
    BY <1>7, <2>1, <2>2, ScheduleIs DEF Leads, Follows, Shrinks
  <2>4. CASE g.phase = "PROMPT"
    <3>1. Announced(x, y)
      BY <1>4, <1>6, <1>8, <2>3, <2>4, BegunLeads DEF InGame, Phase
    <3>2. CASE t.game.phase = "OVER"
      <4>1. InTime(t) /\ Still(t)
        BY <1>2, <1>4, <1>5, <1>8, <2>3, <3>1, <3>2, IdleTimed
           DEF Announced, InTime, Undue, PhaseDeadline, Window, Awake, Still, Fresh
      <4>2. FlowsTo(v.game, t.game)
        BY <1>4, <1>6, <1>8, <2>3, <2>4, <3>1, <3>2
           DEF Announced, Over, FlowsTo, Opens
      <4> QED
        BY <1>2, <1>4, <1>5, <1>8, <2>3, <3>1, <3>2, <4>1, <4>2
           DEF Ticks, Announced, NoReturn
    <3>3. CASE t.game.phase = "PROMPT"
      <4>1. AllOff(t.game) /\ Asked(t.game) /\ Fresh(t.game)
        BY <2>3, <3>1, <3>3 DEF Announced, Over, Sound
      <4>2. InTime(t) /\ Still(t)
        BY <2>3, <3>3, <4>1, BegunTimed, AllOffNow DEF InTime, Undue, Still
      <4>3. FlowsTo(v.game, t.game)
        BY <1>4, <1>6, <1>8, <2>3, <2>4, <3>1, <3>3
           DEF Announced, Over, FlowsTo, Opens
      <4> QED
        BY <1>2, <1>4, <1>5, <1>8, <2>3, <3>1, <3>3, <4>2, <4>3
           DEF Ticks, Announced, NoReturn
    <3> QED
      BY <1>4, <2>3, <2>4, <3>1, <3>2, <3>3 DEF Announced, Over
  <2>5. CASE g.phase = "OVER"
    <3>1. Sound(g)
      <4>1. g = EndGame(v.game)
        BY <1>1, <1>2, <1>8, <2>5, RoundBegins DEF FinishRound
      <4>2. g.round = v.game.round
        BY <1>2, <4>1 DEF EndGame, GameState
      <4> QED
        BY <2>5, <4>2 DEF Sound, Owned, Asked, InGame
    <3>2. Course(x, y) /\ Over(x, y)
      BY <1>4, <1>5, <2>3, <2>5, <3>1, CalmCount DEF Leads, Course, Again
    <3>3. InTime(t) /\ Still(t)
      BY <1>2, <1>4, <1>5, <1>8, <2>3, <3>2, IdleTimed
         DEF Course, Over, InTime, Undue, PhaseDeadline, Window, Awake, Still, Fresh
    <3>4. FlowsTo(v.game, t.game)
      BY <1>4, <1>6, <1>8, <2>3, <2>5, <3>2 DEF Over, FlowsTo, InGame, Phase
    <3> QED
      BY <1>4, <1>5, <1>8, <2>3, <3>2, <3>3, <3>4 DEF Ticks, Course, NoReturn, Over
  <2> QED
    BY <1>6, <1>8, <2>4, <2>5
<1>9. CASE ~(v.game.phase = "RESULTS" /\ g.phase # "RESULTS")
  <2> HIDE DEF x
  <2>1. PICK y \in Broadcast(x) : t = [y EXCEPT !.game = EndGame(@)]
    BY <1>1, <1>9 DEF x
  <2>2. SameStage(v.game, x.game) /\ Sound(x.game)
    <3>1. v.game.phase # "RESULTS" => g = v.game
      BY <1>2, FinishFits
    <3> QED
      BY <1>4, <1>6, <1>9, <3>1 DEF SameStage
  <2>3. /\ Leads(x, y) /\ Sane(y) /\ Calm(y) /\ y.game.wants \subseteq x.game.wants
    BY <1>7, <2>1 DEF Leads, Follows, Shrinks
  <2>4. Steady(x) /\ Awake(x)
    BY <1>4, <1>5 DEF Calm, Steady, Awake
  <2>5. Course(x, y) /\ Awake(y)
    BY <2>2, <2>3, <2>4 DEF Leads
  <2>6. y.game.roundNumber = x.game.roundNumber /\ Sound(y.game)
    <3>1. ~Again(x, y)
      BY <1>5, CalmCount DEF Again
    <3> QED
      BY <2>2, <2>5, <3>1 DEF Course, Kept, Over, Moved, SameStage, InGame, Phase
  <2>7. y.pending # "REPLAY_START" /\ y \in ServerState
    BY <2>3, <2>5, CalmCount DEF Awake, Calm, Sane, Held
  <2>8. /\ InTime(t) /\ t.flaky = y.flaky
        /\ t.game.phase = "OVER" /\ t.game.roundNumber = y.game.roundNumber
        /\ t.game.wants = y.game.wants
    BY <2>1, <2>3, <2>6, <2>7, EndedOnTime DEF Calm
  <2>9. ASSUME v.game.phase = "RESULTS" PROVE FlowsTo(v.game, t.game) /\ Still(t)
    BY <1>2, <1>4, <1>5, <2>2, <2>3, <2>6, <2>8, <2>9
       DEF FlowsTo, SameStage, Still, Fresh, InGame, Phase
  <2>10. t.flaky \subseteq v.flaky /\ t.game.wants \subseteq v.game.wants
    BY <1>4, <1>5, <2>3, <2>5, <2>8 DEF Course
  <2>11. ASSUME v.game.phase = "OVER" PROVE Passes(v, t)
    <3>1. SameStage(v.game, t.game)
      BY <2>2, <2>6, <2>8, <2>11 DEF SameStage
    <3> QED
      BY <2>8, <2>10, <2>11, <3>1 DEF Passes, Strides, Tame, Still, Fresh, NoReturn
  <2> QED
    BY <2>8, <2>9, <2>10, <2>11, PassesTick DEF Ticks, NoReturn
<1> QED
    BY <1>8, <1>9

\* What the boards and the game over have in common.
LEMMA BoardSends ==
    ASSUME NEW s, Good(s), Timed(s),
           s.pending \in Boards \cup {"GAME_OVER"}, NEW v \in Broadcast(ClearPending(s))
    PROVE  /\ Calm(v) /\ Sound(v.game) /\ Passes(s, v)
           /\ v.pending # "REPLAY_START"
           /\ v.game.phase = "LOBBY" => s.game.phase = "LOBBY"
           /\ \/ /\ v.game.phase = "RESULTS" /\ SameStage(s.game, v.game)
                 /\ s.pending \in Boards
              \/ v.game.phase \in {"LOBBY", "OVER"} /\ InTime(v)
<1> DEFINE u == ClearPending(s)
<1>0. s.pending \notin {"NONE", "REPLAY_START"} \cup Prompts
    BY DEF Boards, Prompts
<1>1. /\ Calm(u) /\ Sound(u.game) /\ Undue(u) /\ u.pending = "NONE"
      /\ u.game.phase \in InGame => s.pending \in Stage(u.game.phase)
      /\ Passes(s, u) /\ u.game = s.game
    BY <1>0, ActionBegins
<1>2. v \in Broadcast(u)
    OBVIOUS
<1> HIDE DEF u
<1>3. /\ u.game.phase \in {"RESULTS", "LOBBY", "OVER"}
      /\ u.game.phase = "RESULTS" => s.pending \in Boards
  <2>1. u.game.phase \in Phase
    BY <1>1, HeldFacts DEF Calm, Sane
  <2> QED
    BY <1>0, <1>1, <2>1 DEF Stage, InGame, Phase, Prompts
<1>4. /\ Calm(v) /\ Sound(v.game) /\ Passes(u, v) /\ v.game.phase \in Phase
      /\ v.game.phase = "LOBBY" => u.game.phase = "LOBBY"
      /\ \/ /\ SameStage(u.game, v.game) /\ v.pending = "NONE"
            /\ v.game.phase \in InGame
         \/ InTime(v) /\ v.game.phase \notin InGame
    BY <1>1, <1>2, <1>3, ActionSends, HeldFacts DEF Calm, Sane, Window
<1>5. v.pending # "REPLAY_START"
    BY <1>4, CalmCount DEF InTime, Punctual, Awake
<1>6. Passes(s, v)
    BY <1>1, <1>4, PassesTrans
<1> QED
    BY <1>1, <1>3, <1>4, <1>5, <1>6 DEF SameStage, InGame, Phase

LEMMA ScoreboardOnTime ==
    ASSUME NEW s, Good(s), Timed(s), s.pending = "SCOREBOARD", NEW t \in RunPending(s)
    PROVE  /\ InTime(t) /\ (Orderly(s) => Ticks(s, t))
           /\ t.flaky \subseteq s.flaky /\ t.game.wants \subseteq s.game.wants
<1>1. PICK v \in Broadcast(ClearPending(s)) : t \in NextRoundOrEnd(v)
    BY DEF RunPending, Scoreboard, Then
<1>2. /\ Calm(v) /\ Sound(v.game) /\ Passes(s, v)
      /\ v.pending # "REPLAY_START"
      /\ v.game.phase = "LOBBY" => s.game.phase = "LOBBY"
      /\ \/ v.game.phase = "RESULTS" /\ SameStage(s.game, v.game)
         \/ v.game.phase \in {"LOBBY", "OVER"}
    BY <1>1, BoardSends DEF Boards
<1>3. /\ InTime(t)
      /\ t.flaky \subseteq v.flaky /\ t.game.wants \subseteq v.game.wants
      /\ v.game.phase # "LOBBY" => Ticks(v, t)
      /\ v.game.phase = "OVER" => Passes(v, t)
    BY <1>1, <1>2, NextRoundOnTime
<1>4. CASE v.game.phase # "LOBBY"
    BY <1>2, <1>3, <1>4, PassesTick, TicksTrans DEF Passes
<1>5. CASE v.game.phase = "LOBBY"
  <2>1. s.game.phase = "LOBBY" /\ s.pending = "SCOREBOARD"
    BY <1>2, <1>5
  <2> QED
    BY <1>2, <1>3, <2>1 DEF Passes, Orderly
<1> QED
    BY <1>4, <1>5

LEMMA FinalOnTime ==
    ASSUME NEW s, Good(s), Timed(s), s.pending = "FINAL_SCOREBOARD",
           NEW t \in RunPending(s)
    PROVE  InTime(t) /\ Passes(s, t)
<1>1. PICK y \in Then(UNION {{[v EXCEPT !.game = g] : g \in FinishRound(v.game)} :
                               v \in Broadcast(ClearPending(s))}, Broadcast) :
        t = Schedule(y, "GAME_OVER")
    BY DEF RunPending, FinalScoreboard
<1>2. PICK x \in UNION {{[v EXCEPT !.game = g] : g \in FinishRound(v.game)} :
                          v \in Broadcast(ClearPending(s))} : y \in Broadcast(x)
    BY <1>1 DEF Then
<1>3. PICK v \in Broadcast(ClearPending(s)) :
        \E g \in FinishRound(v.game) : x = [v EXCEPT !.game = g]
    BY <1>2
<1>4. PICK g \in FinishRound(v.game) : x = [v EXCEPT !.game = g]
    BY <1>3
<1>5. /\ Calm(v) /\ Sound(v.game) /\ Passes(s, v)
      /\ v.pending # "REPLAY_START"
      /\ \/ v.game.phase = "RESULTS" /\ SameStage(s.game, v.game)
         \/ v.game.phase \in {"LOBBY", "OVER"} /\ InTime(v)
    BY BoardSends DEF Boards
<1>6. /\ v \in ServerState /\ Fits(v.game, Ids(v), v.nextId)
      /\ v.game.phase # "OVER" => v.game.wants = {}
    BY <1>5, NoWishBeforeOver DEF Calm, Sane, Held
<1>7. Calm(x)
  <2>1. Fits(g, Ids(v), v.nextId) /\ SameTable(v.game, g)
    BY <1>6, FinishFits
  <2> QED
    BY <1>4, <1>5, <2>1, CalmTable
\* The last round ends the match.
<1>8. x.game.phase \in {"LOBBY", "OVER"} /\ InTime(x) /\ Passes(v, x)
  <2>1. CASE v.game.phase = "RESULTS"
    <3>1. IsFinalRound(v.game)
      BY <1>5, <2>1 DEF Timed, SameStage, IsFinalRound
    <3>2. x = [v EXCEPT !.game = EndGame(@)]
      BY <1>4, <1>6, <2>1, <3>1 DEF FinishRound, ServerState
    <3>3. /\ InTime(x) /\ x.flaky = v.flaky
          /\ x.game.phase = "OVER" /\ x.game.roundNumber = v.game.roundNumber
          /\ x.game.wants = v.game.wants
      BY <1>5, <1>6, <3>2, EndedOnTime DEF Calm
    <3> QED
      BY <1>6, <2>1, <3>3
         DEF Passes, Strides, FlowsTo, Tame, Still, Fresh, InGame, Phase, NoReturn
  <2>2. CASE v.game.phase # "RESULTS"
    <3>1. x = v
      BY <1>4, <1>6, <2>2 DEF FinishRound, ServerState
    <3> QED
      BY <1>5, <2>2, <3>1, PassesSame DEF SameStage
  <2> QED
    BY <2>1, <2>2
<1>9. /\ Calm(y) /\ InTime(y) /\ Passes(x, y) /\ Sound(y.game)
      /\ y.game.phase \in {"LOBBY", "OVER"}
  <2>1. Calm(y) /\ InTime(y) /\ Passes(x, y)
    BY <1>2, <1>7, <1>8, CalmSends
  <2>2. Leads(x, y) /\ ~(ReplayCount(x.game) >= MinPlayers)
    BY <1>2, <1>7, RemovalLeads, BroadcastLeads, CalmCount DEF Broadcast, Calm
  <2> QED
    BY <1>8, <2>1, <2>2
       DEF InTime, Timed, Leads, Course, Kept, Over, Again
<1>10. InTime(t) /\ Passes(y, t)
    BY <1>1, <1>9, BoardOnTime
<1> QED
    BY <1>5, <1>8, <1>9, <1>10, PassesTrans

LEMMA GameOverOnTime ==
    ASSUME NEW s, Good(s), Timed(s), s.pending = "GAME_OVER", NEW t \in RunPending(s)
    PROVE  InTime(t) /\ Passes(s, t)
<1>1. t \in Broadcast(ClearPending(s))
    BY DEF RunPending
<1> QED
    BY <1>1, BoardSends DEF Boards

\* The countdown is over.
LEMMA CountdownHandled ==
    ASSUME NEW s, Good(s), Timed(s), s.pending = "REPLAY_START", NEW t \in RunPending(s)
    PROVE  /\ Timed(t) /\ Undue(t) /\ Passes(s, t)
           /\ Quiet(s) /\ Punctual(s) => Punctual(t)
<1> DEFINE u == ClearPending(s)
<1>1. /\ Sane(u) /\ u.game = s.game /\ u.pending = "NONE" /\ u.flaky = s.flaky
    BY ClearIs DEF Good
<1>2. t \in TryStartReplayBy(Removal, u)
    BY DEF RunPending, TryStartReplay
<1> HIDE DEF u
<1>3. /\ s.game.phase \in InGame =>
           s.game.phase = "PROMPT" /\ PhaseDeadline(s.game) = "off"
      /\ Sound(s.game)
    BY DEF Timed, Stage, InGame, Phase, Boards
<1>4. Timed(u) /\ Undue(u)
  <2>1. CASE s.game.phase \in InGame
    BY <1>1, <1>3, <2>1 DEF Timed, Undue
  <2>2. CASE s.game.phase \notin InGame
    BY <1>1, <2>2, IdleTimed, HeldFacts
       DEF Timed, Undue, PhaseDeadline, InGame, Phase, Window, Good, Sane
  <2> QED
    BY <2>1, <2>2
<1>5. Punctual(s) => Punctual(u)
    BY <1>1 DEF Punctual, Awake
<1>6. Leads(u, t)
    BY <1>1, <1>2, RemovalLeads, TryStartLeads
<1>7. Handled(u, t)
    BY <1>1, <1>4, <1>6, CourseHandled
<1>8. Passes(u, t) /\ Undue(t)
    BY <1>1, <1>4, <1>6, CourseStrides DEF Leads, Sane, Timed
<1>9. Passes(s, u)
    BY <1>1, PassesSame DEF SameStage
<1>10. Quiet(s) => Quiet(u)
    BY <1>1 DEF Quiet
<1> QED
    BY <1>5, <1>7, <1>8, <1>9, <1>10, PassesTrans DEF Handled

LEMMA PendingTicks ==
    ASSUME NEW s, Good(s), Timed(s), s.pending # "NONE", NEW t \in RunPending(s)
    PROVE  /\ Timed(t) /\ Undue(t)
           /\ t.flaky \subseteq s.flaky /\ t.game.wants \subseteq s.game.wants
           /\ Quiet(s) /\ Punctual(s) => Punctual(t)
           /\ Orderly(s) => Ticks(s, t)
<1>1. s.pending \in Pending
    BY DEF Good, Sane, Held, ServerState
<1>2. CASE s.pending \in Prompts
    BY <1>2, PromptsOnTime, PassesTick DEF InTime, Passes
<1>3. CASE s.pending \in {"ROUND_RESULTS", "FINAL_SCOREBOARD", "GAME_OVER"}
    BY <1>3, ResultsOnTime, FinalOnTime, GameOverOnTime, PassesTick DEF InTime, Passes
<1>4. CASE s.pending = "SCOREBOARD"
    BY <1>4, ScoreboardOnTime DEF InTime
<1>5. CASE s.pending = "REPLAY_START"
    BY <1>5, CountdownHandled, PassesTick DEF Passes
<1> QED
    BY <1>1, <1>2, <1>3, <1>4, <1>5 DEF Pending, Boards

\* An expired deadline closes its phase, and the next one is announced.
LEMMA DeadlineCloses ==
    ASSUME NEW s, Good(s), Timed(s), ~Undue(s), NEW t \in EnforceDeadline(s)
    PROVE  /\ InTime(t) /\ Ticks(s, t)
           /\ s.game.phase = "VOTING" =>
                /\ t.game.phase \in {"RESULTS", "OVER"} /\ t.game.wants = {}
                /\ t.game.round.totals = s.game.round.totals
<1>1. PICK g \in ApplyPhaseTimeout(s.game) :
        t \in Then(Broadcast([s EXCEPT !.game = g]),
                   LAMBDA v : IF v.game.phase # s.game.phase
                              THEN HandlePhaseChange(v) ELSE {v})
    BY DEF EnforceDeadline, Undue
<1> DEFINE u == [s EXCEPT !.game = g]
<1>2. PICK v \in Broadcast(u) :
        t \in IF v.game.phase # s.game.phase THEN HandlePhaseChange(v) ELSE {v}
    BY <1>1 DEF Then
<1>3. PhaseDeadline(s.game) = "due" /\ s.game.phase \in Window
    BY DEF Undue, PhaseDeadline
<1>4. /\ Sane(s) /\ Fits(s.game, Ids(s), s.nextId) /\ GameInv(s.game)
      /\ Sound(s.game) /\ s.pending = "NONE"
    BY <1>3 DEF Good, Sane, Held, Fits, Safe, Wiped, Window, Timed, InGame, Phase
<1>5. Fits(g, Ids(s), s.nextId) /\ Shrinks(s.game, g)
    BY <1>3, <1>4, TimeoutFits
<1>6. Advanced(s.game, g)
    BY <1>3, <1>4, TimeoutBegins
<1>7. s.game.wants = {} /\ g.wants = {}
    BY <1>3, <1>4, <1>5, NoWishBeforeOver DEF Sane, Window, Shrinks
<1>8. Sane(u) /\ u.game = g /\ u.pending = "NONE" /\ u.flaky = s.flaky
    BY <1>4, <1>5, GameChange
<1> HIDE DEF u
<1>9. /\ g.phase \in {"REWRITE", "VOTING", "RESULTS"} /\ Begun(g)
      /\ g.phase = NextOf[s.game.phase] /\ g.phase # s.game.phase
      /\ g.roundNumber = s.game.roundNumber
      /\ s.game.phase = "VOTING" =>
           g.phase = "RESULTS" /\ g.round.totals = s.game.round.totals
    BY <1>3, <1>6 DEF Advanced, NextOf, Window
<1>10. Calm(u) /\ Sound(u.game) /\ Steady(u) /\ Awake(u)
  <2>1. Calm(u)
    BY <1>7, <1>8, WishlessCalm
  <2> QED
    BY <1>8, <1>9, <2>1, BegunSound DEF Calm, Steady, Awake
<1>11. /\ Leads(u, v) /\ Announced(u, v) /\ Sane(v) /\ Awake(v)
       /\ v.game.wants = {}
  <2>1. Leads(u, v)
    BY <1>2, <1>8, RemovalLeads, BroadcastLeads DEF Broadcast
  <2>2. Announced(u, v)
    BY <1>8, <1>9, <2>1, BegunLeads DEF InGame, Phase
  <2> QED
    BY <1>7, <1>8, <1>10, <2>1, <2>2 DEF Leads, Follows, Shrinks
<1>12. t \in HandlePhaseChangeBy(Removal, v)
  <2>1. v.game.phase # s.game.phase
    BY <1>3, <1>8, <1>9, <1>11 DEF Announced, Over, Window
  <2> QED
    BY <1>2, <2>1 DEF HandlePhaseChange
<1>13. /\ VotesKept(u, v)
       /\ ReplayCount(u.game) < MinPlayers /\ ReplayCount(v.game) < MinPlayers
  <2>1. Calm(v)
    BY <1>11, WishlessCalm
  <2> QED
    BY <1>10, <1>11, <2>1 DEF Announced, Calm
<1>14. CASE v.game.phase = "OVER"
  <2>1. t = v
    BY <1>12, <1>14 DEF HandlePhaseChangeBy
  <2>2. InTime(t) /\ Still(t)
    BY <1>11, <1>14, <2>1, IdleTimed
       DEF Announced, InTime, Undue, PhaseDeadline, Window, Still, Fresh
  <2>3. FlowsTo(s.game, t.game)
    BY <1>3, <1>8, <1>9, <1>11, <1>14, <2>1
       DEF Announced, Over, FlowsTo, Window, InGame, Phase
  <2>4. s.game.phase = "VOTING" => t.game.round.totals = s.game.round.totals
    BY <1>8, <1>9, <1>13, <2>1 DEF VotesKept
  <2> QED
    BY <1>7, <1>8, <1>11, <1>14, <2>1, <2>2, <2>3, <2>4 DEF Ticks, Announced, NoReturn
<1>15. CASE v.game.phase # "OVER"
  <2>1. /\ v.game.phase = g.phase /\ v.game.roundNumber = g.roundNumber
        /\ Begun(v.game)
    BY <1>8, <1>9, <1>11, <1>15 DEF Announced, Over, Begun, Sound
  <2>2. Announced(v, t) /\ t.pending = Titles[v.game.phase]
    BY <1>9, <1>11, <1>12, <2>1, RemovalLeads, PhaseChangeLeads
  <2>3. Follows(v, t) /\ t.game.wants = {}
    <3>1. Follows(v, t)
      BY <1>11, <1>12, RemovalFollows, PhaseChangeFollows
    <3> QED
      BY <1>11, <3>1 DEF Follows, Shrinks
  <2>4. CASE t.game.phase = "OVER"
    <3>1. Awake(t)
      BY <1>9, <2>1, <2>2, TitlesStaged DEF Awake
    <3>2. InTime(t) /\ Still(t)
      BY <2>2, <2>3, <2>4, <3>1, IdleTimed
         DEF Announced, InTime, Undue, PhaseDeadline, Window, Still, Fresh
    <3>3. FlowsTo(s.game, t.game)
      BY <1>3, <1>9, <2>1, <2>2, <2>4
         DEF Announced, Over, FlowsTo, Window, InGame, Phase
    <3> QED
      BY <1>7, <1>8, <1>9, <1>11, <1>13, <2>1, <2>2, <2>3, <2>4, <3>2, <3>3
         DEF Ticks, Announced, VotesKept, NoReturn
  <2>5. CASE t.game.phase # "OVER"
    <3>1. /\ t.game.phase = g.phase /\ t.game.roundNumber = g.roundNumber
          /\ Fresh(t.game) /\ AllOff(t.game) /\ Asked(t.game)
      BY <2>1, <2>2, <2>5 DEF Announced, Over, Sound
    <3>2. InTime(t) /\ Still(t)
      BY <1>9, <2>1, <2>2, <2>5, <3>1, BegunTimed, AllOffNow DEF InTime, Undue, Still
    <3>3. FlowsTo(s.game, t.game)
      BY <1>3, <1>9, <3>1 DEF FlowsTo
    <3> QED
      BY <1>7, <1>8, <1>9, <1>11, <1>13, <2>1, <2>2, <2>3, <3>1, <3>2, <3>3
         DEF Ticks, Announced, VotesKept, NoReturn
  <2> QED
    BY <2>4, <2>5
<1> QED
    BY <1>14, <1>15

\* Nothing is pending in the lobby, unless the bank may fail.
Idles(s) == s.game.phase = "LOBBY" => s.pending = "NONE" \/ FALSE \in BankOutcomes

\* One timer at most does anything: a match waits for one of them only.
LEMMA TimersTick ==
    ASSUME NEW s, Good(s), Timed(s), NEW t \in RunTimers(s)
    PROVE  /\ Timed(t) /\ t.flaky \subseteq s.flaky
           /\ Quiet(s) /\ Punctual(s) => Punctual(t) /\ Quiet(t)
           /\ Orderly(s) => Ticks(s, t)
           /\ Idles(s) => Idles(t)
           /\ s.game.phase = "VOTING" /\ ~Undue(s) =>
                /\ t.game.phase \in {"RESULTS", "OVER"} /\ t.game.wants = {}
                /\ t.game.round.totals = s.game.round.totals
<1>1. PICK u \in RunPendingIfDue(s) : t \in EnforceDeadline(u)
    BY DEF RunTimers, Then
<1>2. CASE u = s /\ Undue(s)
  <2>1. t = s
    BY <1>1, <1>2 DEF EnforceDeadline, Undue
  <2> QED
    BY <1>2, <2>1 DEF Ticks, SameStage, NoReturn
<1>3. CASE u = s /\ ~Undue(s)
  <2>1. /\ InTime(t) /\ Ticks(s, t)
        /\ s.game.phase = "VOTING" =>
             /\ t.game.phase \in {"RESULTS", "OVER"} /\ t.game.wants = {}
             /\ t.game.round.totals = s.game.round.totals
    BY <1>1, <1>3, DeadlineCloses
  <2>2. s.game.wants = {}
    BY <1>3, NoWishBeforeOver DEF Undue, PhaseDeadline, Window, Good, Sane
  <2> QED
    BY <1>3, <2>1, <2>2
       DEF Ticks, InTime, Quiet, NoReturn, Idles, Undue, PhaseDeadline, Window
<1>4. CASE s.pending # "NONE" /\ u \in RunPending(s)
  <2>1. /\ Timed(u) /\ Undue(u)
        /\ u.flaky \subseteq s.flaky /\ u.game.wants \subseteq s.game.wants
        /\ Quiet(s) /\ Punctual(s) => Punctual(u)
        /\ Orderly(s) => Ticks(s, u)
    BY <1>4, PendingTicks
  <2>2. t = u
    BY <1>1, <2>1 DEF EnforceDeadline, Undue
  <2>3. Undue(s)
    BY <1>4 DEF Timed, Undue, PhaseDeadline, Window, InGame, Phase
  <2>4. s.game.phase # "OVER" => s.game.wants = {}
    BY NoWishBeforeOver DEF Good, Sane
  <2>5. Idles(s) => Idles(u)
    BY <1>4, <2>1 DEF Idles, Orderly, Ticks, NoReturn
  <2> QED
    BY <2>1, <2>2, <2>3, <2>4, <2>5 DEF Quiet
<1> QED
    BY <1>1, <1>2, <1>3, <1>4 DEF RunPendingIfDue

----------------------------------------------------------------------------
(* The select loop. *)

TimerInv == Good(server) /\ Timed(server)

\* No connection is bad, unless some may go bad.
Firm(s) == MaxFlaky = 0 => s.flaky = {}

\* What any step does, as far as time is concerned.
Turns(s, t) ==
    /\ Timed(t)
    /\ Quiet(s) /\ Punctual(s) => Punctual(t)
    /\ Orderly(s) => FlowsOn(s.game, t.game)
    /\ s.game.phase = "VOTING" /\ ~Undue(s) =>
         t.game.round.totals = s.game.round.totals
    /\ Idles(s) => Idles(t)
    /\ Firm(s) => Firm(t)

LEMMA TickHandled ==
    ASSUME NEW s, NEW u, NEW t, Ticks(s, u), Handled(u, t)
    PROVE  FlowsOn(s.game, t.game)
<1>1. CASE SameStage(s.game, u.game)
    BY <1>1 DEF Handled, FlowsOn, SameStage, FlowsTo, Opens
<1>2. CASE FlowsTo(s.game, u.game) /\ Still(u)
    BY <1>2, FlowTame DEF Handled, Still, FlowsOn
<1> QED
    BY <1>1, <1>2 DEF Ticks

\* The timers run before the line is looked at.
LEMMA LineMoves ==
    ASSUME NEW s, Good(s), Timed(s), NEW c \in Slot, NEW m \in Message,
           NEW t \in HandleLine(s, c, m)
    PROVE  Turns(s, t)
<1>1. PICK u \in RunTimers(s) : t \in Dispatch(u, c, m)
    BY DEF HandleLine, Then
<1>2. Good(u)
    BY TimersGood
<1>3. /\ Timed(u)
      /\ Quiet(s) /\ Punctual(s) => Punctual(u) /\ Quiet(u)
      /\ Orderly(s) => Ticks(s, u)
      /\ Idles(s) => Idles(u)
      /\ u.flaky \subseteq s.flaky
      /\ s.game.phase = "VOTING" /\ ~Undue(s) =>
           /\ u.game.phase \in {"RESULTS", "OVER"} /\ u.game.wants = {}
           /\ u.game.round.totals = s.game.round.totals
    BY TimersTick
<1>4. Handled(u, t)
    BY <1>1, <1>2, <1>3, DispatchHandled
<1>5. Idles(s) => Idles(t)
    BY <1>3, <1>4 DEF Handled, Stays, Idles
<1> QED
    BY <1>3, <1>4, <1>5, TickHandled DEF Turns, Handled, Firm

LEMMA TimersMove ==
    ASSUME NEW s, Good(s), Timed(s), NEW t \in RunTimers(s)
    PROVE  Turns(s, t)
    BY TimersTick DEF Turns, Ticks, FlowsOn, Firm

LEMMA HangUpMoves ==
    ASSUME NEW s, Good(s), Timed(s), NEW c \in Slot, NEW t \in RemoveClient(s, c)
    PROVE  Turns(s, t)
<1>1. Handled(s, t)
    BY RemoveHandled DEF Good
<1>2. Leads(s, t)
    BY RemovalLeads, RemoveLeads DEF RemoveClient, Good
<1>3. s.game.phase = "VOTING" => t.game.round.totals = s.game.round.totals
    BY <1>2, HeldFacts DEF Leads, Course, VotesKept, Timed, Good, Sane
<1> QED
    BY <1>1, <1>3 DEF Turns, Handled, Stays, Idles, Firm

LEMMA LoopMoves ==
    ASSUME NEW s, Timed(s), NEW t, t.game = s.game, t.pending = s.pending,
           Firm(s) => Firm(t)
    PROVE  Turns(s, t)
    BY DEF Turns, Timed, Punctual, Awake, FlowsOn, SameStage, Idles

\* A deadline that runs becomes due; it is the phase's own.
LEMMA DeadlineMoves ==
    ASSUME NEW s, Good(s), Timed(s), PhaseDeadline(s.game) = "running",
           NEW t, t = [s EXCEPT !.game = SetDeadline(@, s.game.phase, "due")]
    PROVE  Turns(s, t)
<1> DEFINE w == s.game.phase
           g == SetDeadline(s.game, w, "due")
<1>1. /\ s \in ServerState /\ s.game \in GameState /\ s.game.round \in RoundState
      /\ w \in Window
    BY DEF Good, Sane, Held, ServerState, GameState, PhaseDeadline
<1>2. t.game = g /\ t.pending = s.pending /\ t.flaky = s.flaky
    BY <1>1 DEF ServerState
<1>3. /\ g.phase = w /\ g.roundNumber = s.game.roundNumber
      /\ g.round.deadline = [s.game.round.deadline EXCEPT ![w] = "due"]
      /\ g.round.totals = s.game.round.totals
      /\ Asked(s.game) => Asked(g)
    BY <1>1 DEF SetDeadline, GameState, RoundState, Asked
<1>4. PhaseDeadline(g) = "due" /\ Owned(g) /\ Sound(g)
    BY <1>1, <1>3 DEF PhaseDeadline, Owned, Timed, Sound, RoundState
<1> HIDE DEF g
<1>5. Timed(t)
    BY <1>1, <1>2, <1>3, <1>4 DEF Timed, InGame, Phase, Window
<1>6. Punctual(s) => Punctual(t)
  <2>1. ~(ReplayCount(s.game) >= MinPlayers)
    BY <1>1, HeldFacts, MinPlayersAssumption DEF Good, Sane, Window
  <2> QED
    BY <1>2, <1>4, <2>1 DEF Punctual, Awake
<1>7. SameStage(s.game, t.game)
    BY <1>2, <1>3 DEF SameStage
<1> QED
    BY <1>2, <1>3, <1>5, <1>6, <1>7 DEF Turns, FlowsOn, Idles, Firm, SameStage

LEMMA ServerMoves ==
    ASSUME TimerInv, [Next]_vars
    PROVE  Turns(server, server')
<1>0. Good(server) /\ Timed(server) /\ server \in ServerState
    BY DEF TimerInv, Good, Sane, Held
<1>1. CASE Accept
    BY <1>0, <1>1, LoopMoves DEF Accept, ServerState, Firm
<1>2. CASE Idle
    BY <1>0, <1>2, TimersMove DEF Idle
<1>3. CASE Stop
    BY <1>0, <1>3, LoopMoves DEF Stop, ServerState, Firm
<1>4. CASE PendingComesDue
    BY <1>0, <1>4, LoopMoves DEF PendingComesDue, ServerState, Firm
<1>5. CASE DeadlineComesDue
    BY <1>0, <1>5, DeadlineMoves DEF DeadlineComesDue
<1>6. ASSUME NEW c \in Slot, HangUp(c) PROVE Turns(server, server')
    BY <1>0, <1>6, HangUpMoves DEF HangUp
<1>7. ASSUME NEW c \in Slot, GoBad(c) PROVE Turns(server, server')
  <2>1. Firm(server) => Firm(server')
    BY <1>0, <1>7, FS_EmptySet DEF GoBad, ServerState, Firm
  <2> QED
    BY <1>0, <1>7, <2>1, LoopMoves DEF GoBad, ServerState
<1>8. ASSUME NEW c \in Slot, NEW m \in Message, Line(c, m)
      PROVE  Turns(server, server')
    BY <1>0, <1>8, LineMoves DEF Line
<1>9. CASE UNCHANGED vars
    BY <1>0, <1>9, LoopMoves DEF vars, Firm
<1> QED
    BY <1>1, <1>2, <1>3, <1>4, <1>5, <1>6, <1>7, <1>8, <1>9 DEF Next

LEMMA BootTimed == Timed(Boot) /\ Punctual(Boot)
<1>1. /\ Boot.game = GameReset /\ GameReset.phase = "LOBBY"
      /\ GameReset.round = RoundReset /\ Boot.pending = "NONE"
    BY DEF Boot, GameReset
<1> QED
    BY <1>1, ResetSound, IdleTimed DEF Awake

LEMMA TimerHolds == Spec => []TimerInv
<1>1. Init => TimerInv
    BY BootGood, BootTimed DEF Init, TimerInv
<1>2. TimerInv /\ [Next]_vars => TimerInv'
  <2> SUFFICES ASSUME TimerInv, [Next]_vars PROVE TimerInv'
    OBVIOUS
  <2>1. ServerInv'
    BY ServerStep DEF TimerInv, ServerInv
  <2>2. Turns(server, server')
    BY ServerMoves
  <2> QED
    BY <2>1, <2>2 DEF TimerInv, ServerInv, Turns
<1> QED
    BY <1>1, <1>2, PTL DEF Spec

----------------------------------------------------------------------------
(* Theorems. *)

\* A vote the server reads after the deadline never counts, whatever else it
\* has to do first: the timers run before every line, and a deadline that is
\* due closes the vote before the line is looked at.
THEOREM LateVotesNeverCount == Spec => LateVotesDropped
<1>1. TimerInv /\ [Next]_vars =>
        [g0.phase = "VOTING" /\ PhaseDeadline(g0) = "due" =>
           server'.game.round.totals = g0.round.totals]_vars
    BY ServerMoves DEF Turns, Undue, g0
<1> QED
    BY <1>1, TimerHolds, PTL DEF Spec, LateVotesDropped

\* Once its questions have been answered, a match always has exactly one
\* clock that will move it on, and it is the right one: whoever leaves,
\* whichever sends fail and however late the timers run.
THEOREM OneClockAfterQuestions == Spec => []OneClockOnceAnswered
<1>1. TimerInv => OneClockOnceAnswered
    BY DEF OneClockOnceAnswered, TimerInv, Timed, OneClock, g0, Good, Sane,
           Held, Stage, Boards, InGame, Phase
<1> QED
    BY <1>1, TimerHolds, PTL

\* The hypothesis of what follows: while somebody waits for another match, no
\* connection is going bad.
QuietLobby == Quiet(server)

Prompt == Punctual(server)

LEMMA PromptHolds == Spec /\ []QuietLobby => []Prompt
<1>1. Init => Prompt
    BY BootTimed DEF Init, Prompt
<1>2. TimerInv /\ QuietLobby /\ Prompt /\ [Next]_vars => Prompt'
    BY ServerMoves DEF Turns, QuietLobby, Prompt
<1> QED
    BY <1>1, <1>2, TimerHolds, PTL DEF Spec

\* Then the same holds while the questions are on their way.
THEOREM OneClockHolds == Spec /\ []QuietLobby => []OneClock
<1>1. TimerInv /\ Prompt => OneClock
    BY DEF TimerInv, Timed, Prompt, Punctual, OneClock, g0, Good, Sane, Held,
           Stage, Boards, InGame, Phase
<1> QED
    BY <1>1, TimerHolds, PromptHolds, PTL

\* And the countdown to the next match never outlives the wish to play it.
THEOREM CountdownAlwaysWanted == Spec /\ []QuietLobby => []CountdownWanted
<1>1. TimerInv /\ Prompt => CountdownWanted
  <2> SUFFICES ASSUME TimerInv, Prompt, server.pending = "REPLAY_START"
               PROVE  g0.phase = "OVER" /\ ReplayCount(g0) >= MinPlayers
    BY DEF CountdownWanted
  <2>1. ReplayCount(server.game) >= MinPlayers
    BY DEF Prompt, Punctual, Awake
  <2>2. ~(server.game.phase # "OVER")
    BY <2>1, HeldFacts, MinPlayersAssumption DEF TimerInv, Good, Sane
  <2> QED
    BY <2>1, <2>2 DEF g0
<1> QED
    BY <1>1, TimerHolds, PromptHolds, PTL

\* The hypothesis of the refinement: no board is pending in the lobby.
OrderlyLobby == Orderly(server)

FlowStep == [Flow!Next]_(Flow!flowVars)

LEMMA FlowsOnSteps ==
    ASSUME FlowsOn(server.game, server'.game), server.game.phase \in Phase
    PROVE  FlowStep
<1>1. CASE SameStage(server.game, server'.game)
    BY <1>1 DEF SameStage, FlowStep, Flow!flowVars, g0
<1>2. CASE FlowsTo(server.game, server'.game)
    BY <1>2 DEF FlowsTo, FlowStep, Flow!Next, Flow!StartMatch, Flow!Open,
                Flow!NextPhase, Flow!Succ, Flow!NextRound, Flow!End,
                Flow!OpenAndEnd, Flow!BackToLobby, Opens, NextOf, Window,
                InGame, Phase, g0
<1> QED
    BY <1>1, <1>2 DEF FlowsOn

\* The server plays matches in the order MatchFlow promises, round after
\* round, through every timer, removal and failed send.
THEOREM ServerKeepsFlow == Spec /\ []OrderlyLobby => FlowSpec
<1>1. Init => Flow!Init
    BY DEF Init, Boot, GameReset, Flow!Init, g0
<1>2. TimerInv /\ OrderlyLobby /\ [Next]_vars => FlowStep
    BY ServerMoves, FlowsOnSteps, HeldFacts
       DEF Turns, OrderlyLobby, TimerInv, Good, Sane
<1> QED
    BY <1>1, <1>2, TimerHolds, PTL DEF Spec, FlowSpec, Flow!Spec, FlowStep

\* What never changes: where no send can fail no connection is bad, and where
\* the prompts can always be loaded no board is pending in the lobby.
Sturdy == Idles(server) /\ Firm(server)

LEMMA SturdyHolds == Spec => []Sturdy
<1>1. Init => Sturdy
    BY DEF Init, Boot, GameReset, Sturdy, Idles, Firm
<1>2. TimerInv /\ Sturdy /\ [Next]_vars => Sturdy'
    BY ServerMoves DEF Turns, Sturdy
<1> QED
    BY <1>1, <1>2, TimerHolds, PTL DEF Spec

\* Where the prompts can always be loaded, the server keeps MatchFlow's
\* promise, failed sends or not.
THEOREM FlowKeptWherePromptsLoad ==
    ASSUME FALSE \notin BankOutcomes
    PROVE  Spec => FlowSpec
<1>1. Sturdy => OrderlyLobby
    BY DEF Sturdy, Idles, OrderlyLobby, Orderly
<1> QED
    BY <1>1, SturdyHolds, ServerKeepsFlow, PTL

----------------------------------------------------------------------------
(* Where no send fails: what SystemProofs needs of a server whose          *)
(* connections never go bad.                                               *)

Fields == {"game", "open", "cid", "flaky", "nextId", "pending", "clock",
           "shutdown", "running"}

\* No connection is bad, so that nobody is removed half-way.
Lone(s) == s.flaky = {} /\ s = [f \in Fields |-> s[f]]

\* The server is not asked to stop ...
Unasked(s, t) == Lone(t) /\ t.shutdown = s.shutdown

\* ... or is, because too few are left who may want another match.
Shuts(s, t) ==
    /\ Lone(t)
    /\ t.shutdown /\ ~s.shutdown =>
         t.game.phase = "OVER" /\ PossibleReplayCount(t.game) < MinPlayers

LEMMA LoneState ==
    ASSUME NEW s \in ServerState, s.flaky = {}
    PROVE  Lone(s)
    BY DEF ServerState, Lone, Fields

LEMMA LoneBroadcast ==
    ASSUME NEW removal, NEW s, Lone(s), NEW t \in BroadcastBy(removal, s)
    PROVE  t = s
<1> DEFINE X == {s}
<1>1. \A u \in X : \A c \in u.open \cap u.flaky \cap Slot : removal[u][c] \subseteq X
    BY DEF Lone
<1>2. s \in X
    OBVIOUS
<1> HIDE DEF X
<1>3. BroadcastBy(removal, s) \subseteq X
    BY <1>1, <1>2, BroadcastStays
<1> QED
    BY <1>3 DEF X

LEMMA LoneChange ==
    ASSUME NEW s, Lone(s), NEW g, NEW a
    PROVE  /\ Unasked(s, s)
           /\ Unasked(s, [s EXCEPT !.game = g]) /\ [s EXCEPT !.game = g].game = g
           /\ Unasked(s, Schedule(s, a)) /\ Unasked(s, ClearPending(s))
           /\ Unasked(s, CancelCountdown(s)) /\ CancelCountdown(s).game = s.game
    BY DEF Lone, Unasked, Fields, Schedule, ClearPending, CancelCountdown

LEMMA LoneSchedule ==
    ASSUME NEW removal, NEW s, Lone(s), NEW a, NEW t,
           \E u \in BroadcastBy(removal, s) : t = Schedule(u, a)
    PROVE  Unasked(s, t)
<1>1. PICK u \in BroadcastBy(removal, s) : t = Schedule(u, a)
    OBVIOUS
<1>2. u = s
    BY LoneBroadcast
<1>3. Unasked(s, Schedule(s, a))
    BY LoneChange
<1> QED
    BY <1>1, <1>2, <1>3

LEMMA LonePhaseChange ==
    ASSUME NEW removal, NEW s, Lone(s), NEW t \in HandlePhaseChangeBy(removal, s)
    PROVE  Unasked(s, t)
<1>1. Unasked(s, s) /\ Unasked(s, Schedule(s, "ROUND_RESULTS"))
    BY LoneChange
<1>2. CASE t \in {Schedule(u, "TITLE_PROMPT") : u \in BroadcastBy(removal, s)}
    BY <1>2, LoneSchedule
<1>3. CASE t \in {Schedule(u, "VOTING_PROMPT") : u \in BroadcastBy(removal, s)}
    BY <1>3, LoneSchedule
<1> QED
    BY <1>1, <1>2, <1>3 DEF HandlePhaseChangeBy

LEMMA LoneAdvance ==
    ASSUME NEW removal, NEW s, Lone(s), NEW t \in AdvanceIfReadyBy(removal, s)
    PROVE  Unasked(s, t)
<1>1. PICK g \in AdvancePhaseIfReady(s.game) :
        \/ t = [s EXCEPT !.game = g]
        \/ t \in HandlePhaseChangeBy(removal, [s EXCEPT !.game = g])
    BY DEF AdvanceIfReadyBy
<1>2. Unasked(s, [s EXCEPT !.game = g])
    BY LoneChange
<1> QED
    BY <1>1, <1>2, LonePhaseChange DEF Unasked

LEMMA LoneAfterStart ==
    ASSUME NEW removal, NEW s, Lone(s), NEW t \in AfterStartBy(removal, s)
    PROVE  Unasked(s, t)
<1>1. CASE t \in BroadcastBy(removal, s)
    BY <1>1, LoneBroadcast, LoneChange
<1>2. CASE t \in {Schedule(u, "QUESTION_PROMPT") : u \in BroadcastBy(removal, s)}
    BY <1>2, LoneSchedule
<1> QED
    BY <1>1, <1>2 DEF AfterStartBy

LEMMA LoneTryStart ==
    ASSUME NEW removal, NEW s, Lone(s), NEW t \in TryStartReplayBy(removal, s)
    PROVE  Unasked(s, t)
<1>1. CASE t \in BroadcastBy(removal, s)
    BY <1>1, LoneBroadcast, LoneChange
<1>2. CASE \E g \in Start(PrepareReplay(s.game)) :
             t \in AfterStartBy(removal, [s EXCEPT !.game = g])
  <2>1. PICK g : t \in AfterStartBy(removal, [s EXCEPT !.game = g])
    BY <1>2
  <2>2. Unasked(s, [s EXCEPT !.game = g])
    BY LoneChange
  <2> QED
    BY <2>1, <2>2, LoneAfterStart DEF Unasked
<1> QED
    BY <1>1, <1>2 DEF TryStartReplayBy

LEMMA LoneMaybeSchedule ==
    ASSUME NEW removal, NEW s, Lone(s), NEW t \in MaybeScheduleReplayBy(removal, s)
    PROVE  Shuts(s, t)
<1> DEFINE v == CancelCountdown(s)
<1>1. Unasked(s, v) /\ v.game = s.game
    BY LoneChange
<1> HIDE DEF v
<1>2. CASE /\ t \in CloseReplayLobbyBy(removal, s)
           /\ s.game.phase = "OVER" /\ PossibleReplayCount(s.game) < MinPlayers
  <2>1. PICK u \in BroadcastBy(removal, v) : t = [u EXCEPT !.shutdown = TRUE]
    BY <1>2 DEF CloseReplayLobbyBy, v
  <2>2. u = v
    BY <1>1, <2>1, LoneBroadcast DEF Unasked
  <2>3. Lone(t) /\ t.game = s.game
    BY <1>1, <2>1, <2>2 DEF Unasked, Lone, Fields
  <2> QED
    BY <1>2, <2>3 DEF Shuts
<1>3. CASE t \in {s, v}
    BY <1>1, <1>3, LoneChange DEF Shuts, Unasked
<1>4. CASE t \in TryStartReplayBy(removal, v)
    BY <1>1, <1>4, LoneTryStart DEF Shuts, Unasked
<1>5. CASE \E u \in BroadcastBy(removal, s) : t = Schedule(u, "REPLAY_START")
    BY <1>5, LoneSchedule DEF Shuts, Unasked
<1> QED
    BY <1>2, <1>3, <1>4, <1>5 DEF MaybeScheduleReplayBy, v

LEMMA LoneRemove ==
    ASSUME NEW s, Lone(s), NEW c \in Slot, NEW t \in RemoveClient(s, c)
    PROVE  Shuts(s, t)
<1> DEFINE id == s.cid[c]
           u == [CloseSlot(s, c) EXCEPT !.game = HandleDisconnect(@, id)]
           v == ClearPending(u)
           told == IF SlotOf(u.game, id) = NoSlot THEN {u} ELSE BroadcastBy(Removal, u)
           F(w) == MaybeScheduleReplayBy(Removal, w)
           A(w) == AdvanceIfReadyBy(Removal, w)
<1>1. Unasked(s, CloseSlot(s, c))
    BY DEF Unasked, Lone, Fields, CloseSlot
<1>2. Unasked(s, u)
    BY <1>1 DEF Unasked, Lone, Fields
<1>3. \/ t = CloseSlot(s, c)
      \/ t \in BroadcastBy(Removal, v)
      \/ t \in Then(Then(told, F), A)
      \/ t \in AdvanceIfReadyBy(Removal, u)
    BY DEF RemoveClient, RemoveClientBy
<1> HIDE DEF u
<1>4. Unasked(s, v)
    BY <1>2, LoneChange DEF Unasked
<1>5. CASE t \in Then(Then(told, F), A)
  <2>1. PICK w \in Then(told, F) : t \in A(w)
    BY <1>5 DEF Then
  <2>2. PICK x \in told : w \in F(x)
    BY <2>1 DEF Then
  <2>3. x = u
    BY <1>2, <2>2, LoneBroadcast DEF Unasked
  <2>4. Shuts(s, w)
    BY <1>2, <2>2, <2>3, LoneMaybeSchedule DEF Shuts, Unasked
  <2>5. Unasked(w, t)
    BY <2>1, <2>4, LoneAdvance DEF Shuts
  <2>6. w.game.phase = "OVER" => t.game = w.game
    <3> SUFFICES ASSUME w.game.phase = "OVER" PROVE t.game = w.game
      OBVIOUS
    <3>1. AdvancePhaseIfReady(w.game) = {w.game}
      BY DEF AdvancePhaseIfReady
    <3>2. t = [w EXCEPT !.game = w.game]
      BY <2>1, <3>1 DEF AdvanceIfReadyBy
    <3>3. [w EXCEPT !.game = w.game].game = w.game
      BY <2>4, LoneChange DEF Shuts
    <3> QED
      BY <3>2, <3>3
  <2> QED
    BY <2>4, <2>5, <2>6 DEF Shuts, Unasked
<1> HIDE DEF v
<1>6. CASE t \in BroadcastBy(Removal, v)
    BY <1>4, <1>6, LoneBroadcast DEF Shuts, Unasked
<1> QED
    BY <1>1, <1>2, <1>3, <1>5, <1>6, LoneAdvance DEF Shuts, Unasked

LEMMA LoneTrans ==
    ASSUME NEW s, NEW t, NEW u, Unasked(s, t), Unasked(t, u)
    PROVE  Unasked(s, u)
    BY DEF Unasked

\* An engine step, and then whatever is sent.
LEMMA LoneSend ==
    ASSUME NEW s, Lone(s), NEW g, NEW t \in Broadcast([s EXCEPT !.game = g])
    PROVE  t = [s EXCEPT !.game = g] /\ Unasked(s, t)
<1>1. Unasked(s, [s EXCEPT !.game = g])
    BY LoneChange
<1> QED
    BY <1>1, LoneBroadcast DEF Broadcast, Unasked

LEMMA LoneNextRound ==
    ASSUME NEW s, Lone(s), NEW t \in NextRoundOrEnd(s)
    PROVE  Unasked(s, t)
<1>1. PICK g \in FinishRound(s.game) :
        \/ t \in {Schedule(u, "QUESTION_PROMPT") : u \in Broadcast([s EXCEPT !.game = g])}
        \/ t \in {[u EXCEPT !.game = EndGame(@)] : u \in Broadcast([s EXCEPT !.game = g])}
    BY DEF NextRoundOrEnd
<1>2. PICK u \in Broadcast([s EXCEPT !.game = g]) :
        t = Schedule(u, "QUESTION_PROMPT") \/ t = [u EXCEPT !.game = EndGame(@)]
    BY <1>1
<1>3. Unasked(s, u)
    BY LoneSend
<1>4. /\ Unasked(u, Schedule(u, "QUESTION_PROMPT"))
      /\ Unasked(u, [u EXCEPT !.game = EndGame(@)])
    BY <1>3, LoneChange DEF Unasked, Lone, Fields
<1> QED
    BY <1>2, <1>3, <1>4, LoneTrans

LEMMA LonePending ==
    ASSUME NEW s, Lone(s), s.pending \in Pending \ {"NONE"}, NEW t \in RunPending(s)
    PROVE  Unasked(s, t)
<1> DEFINE v == ClearPending(s)
<1>1. Unasked(s, v)
    BY LoneChange
<1> HIDE DEF v
<1>2. \A x \in Broadcast(v) : x = v
    BY <1>1, LoneBroadcast DEF Broadcast, Unasked
<1>3. ASSUME NEW g PROVE Unasked(s, [v EXCEPT !.game = g])
    BY <1>1, LoneChange, LoneTrans DEF Unasked
<1>4. CASE s.pending \in Prompts
  <2> DEFINE Shown(w) == [v EXCEPT !.game = StartWindow(@, w)]
  <2>1. \A w \in Window : Unasked(s, Shown(w))
    BY <1>1 DEF Unasked, Lone, Fields
  <2>2. \/ t \in Then({[x EXCEPT !.game = StartWindow(@, "PROMPT")] :
                         x \in Broadcast(v)}, Broadcast)
        \/ t \in Broadcast(Shown("REWRITE"))
        \/ t \in {[x EXCEPT !.game = StartWindow(@, "VOTING")] : x \in Broadcast(v)}
    BY <1>4 DEF RunPending, QuestionPrompt, TitlePrompt, VotingPrompt, Prompts, v
  <2>3. t \in Broadcast(Shown("PROMPT")) \cup Broadcast(Shown("REWRITE"))
              \cup {Shown("VOTING")}
    BY <1>2, <2>2 DEF Then
  <2> HIDE DEF Shown
  <2> QED
    BY <2>1, <2>3, LoneBroadcast DEF Broadcast, Unasked, Window
<1>5. CASE s.pending = "ROUND_RESULTS"
  <2>1. PICK a : t = Schedule(v, a)
    BY <1>2, <1>5 DEF RunPending, RoundResults, v
  <2> QED
    BY <1>1, <2>1, LoneChange, LoneTrans DEF Unasked
<1>6. CASE s.pending = "SCOREBOARD"
  <2>1. t \in NextRoundOrEnd(v)
    BY <1>2, <1>6 DEF RunPending, Scoreboard, Then, v
  <2> QED
    BY <1>1, <2>1, LoneNextRound, LoneTrans DEF Unasked
<1>7. CASE s.pending = "FINAL_SCOREBOARD"
  <2>1. PICK u \in Then(UNION {{[x EXCEPT !.game = g] : g \in FinishRound(x.game)} :
                                 x \in Broadcast(v)}, Broadcast) :
          t = Schedule(u, "GAME_OVER")
    BY <1>7 DEF RunPending, FinalScoreboard, v
  <2>2. PICK g : u \in Broadcast([v EXCEPT !.game = g])
    <3>1. PICK w \in UNION {{[x EXCEPT !.game = g] : g \in FinishRound(x.game)} :
                             x \in Broadcast(v)} : u \in Broadcast(w)
      BY <2>1 DEF Then
    <3>2. PICK x \in Broadcast(v) :
            \E g \in FinishRound(x.game) : w = [x EXCEPT !.game = g]
      BY <3>1
    <3>3. PICK g : w = [x EXCEPT !.game = g]
      BY <3>2
    <3> QED
      BY <1>2, <3>1, <3>2, <3>3
  <2>3. Unasked(s, u)
    BY <1>1, <2>2, LoneSend, LoneTrans DEF Unasked
  <2> QED
    BY <2>1, <2>3, LoneChange, LoneTrans DEF Unasked
<1>8. CASE s.pending = "GAME_OVER"
  <2>1. t \in Broadcast(v)
    BY <1>8 DEF RunPending, v
  <2> QED
    BY <1>1, <1>2, <2>1
<1>9. CASE s.pending = "REPLAY_START"
  <2>1. t \in TryStartReplay(v)
    BY <1>9 DEF RunPending, v
  <2> QED
    BY <1>1, <2>1, LoneTryStart, LoneTrans DEF TryStartReplay, Unasked
<1> QED
    BY <1>4, <1>5, <1>6, <1>7, <1>8, <1>9 DEF Pending, Boards

LEMMA LoneSendTo ==
    ASSUME NEW s, Lone(s), NEW c \in Slot, NEW t \in SendTo(s, c)
    PROVE  Shuts(s, t)
<1>1. CASE t = s
    BY <1>1 DEF Shuts
<1>2. CASE t \in RemoveClient(s, c)
    BY <1>2, LoneRemove
<1> QED
    BY <1>1, <1>2 DEF SendTo

LEMMA LoneJoin ==
    ASSUME NEW s, Lone(s), NEW c \in Slot, NEW n, NEW t \in HandleJoinLine(s, c, n)
    PROVE  Shuts(s, t)
<1> DEFINE u == Admitted(s, c, n)
<1>1. CASE t \in Then(SendTo(u, c), LAMBDA v : IF v.cid[c] = JoinId(s, c)
                                               THEN Broadcast(v) ELSE {v})
  <2>1. Unasked(s, u)
    BY DEF Admitted, Unasked, Lone, Fields
  <2> HIDE DEF u
  <2>2. PICK v \in SendTo(u, c) : t \in Broadcast(v) \cup {v}
    BY <1>1 DEF Then
  <2>3. Shuts(u, v)
    BY <2>1, <2>2, LoneSendTo DEF Unasked
  <2>4. t = v
    BY <2>2, <2>3, LoneBroadcast DEF Broadcast, Shuts
  <2> QED
    BY <2>1, <2>3, <2>4 DEF Shuts, Unasked
<1>2. CASE t \in RemoveClient(s, c)
    BY <1>2, LoneRemove
<1>3. CASE t \in SendTo(s, c)
    BY <1>3, LoneSendTo
<1> QED
    BY <1>1, <1>2, <1>3 DEF HandleJoinLine, Admitted, JoinId

LEMMA LoneDispatch ==
    ASSUME NEW s, Lone(s), NEW c \in Slot, NEW m \in Message, NEW t \in Dispatch(s, c, m)
    PROVE  Shuts(s, t)
<1>1. CASE t \in HandleJoinLine(s, c, m.name)
    BY <1>1, LoneJoin
<1>2. CASE t \in SendTo(s, c) \cup RemoveClient(s, c)
    BY <1>2, LoneSendTo, LoneRemove
<1>3. CASE t \in HandleReadyLine(s, c)
  <2>1. CASE t \in SendTo(s, c)
    BY <2>1, LoneSendTo
  <2>2. CASE t \in Then(Broadcast([s EXCEPT !.game = HandleReady(@, s.cid[c])]),
                        MaybeStartGame)
    <3>1. PICK u \in Broadcast([s EXCEPT !.game = HandleReady(@, s.cid[c])]) :
            t \in MaybeStartGame(u)
      BY <2>2 DEF Then
    <3>2. Unasked(s, u)
      BY <3>1, LoneSend
    <3>3. PICK w : /\ w = u \/ \E g : w = [u EXCEPT !.game = g]
                   /\ t = w \/ t \in AfterStart(w)
      BY <3>1 DEF MaybeStartGame
    <3>4. Unasked(s, w)
      <4>1. ASSUME NEW g PROVE Unasked(u, [u EXCEPT !.game = g])
        BY <3>2, LoneChange DEF Unasked
      <4> QED
        BY <3>2, <3>3, <4>1, LoneTrans
    <3> QED
      BY <3>3, <3>4, LoneAfterStart DEF AfterStart, Unasked, Shuts
  <2> QED
    BY <1>3, <2>1, <2>2 DEF HandleReadyLine
<1>4. CASE t \in HandleReplayLine(s, c, m.wish)
  <2>1. CASE t \in SendTo(s, c)
    BY <2>1, LoneSendTo
  <2>2. CASE t \in Then(Broadcast([s EXCEPT !.game =
                                     HandleReplayChoice(@, s.cid[c], m.wish)]),
                        MaybeScheduleReplay)
    <3>1. PICK u \in Broadcast([s EXCEPT !.game =
                                  HandleReplayChoice(@, s.cid[c], m.wish)]) :
            t \in MaybeScheduleReplay(u)
      BY <2>2 DEF Then
    <3>2. Unasked(s, u)
      BY <3>1, LoneSend
    <3> QED
      BY <3>1, <3>2, LoneMaybeSchedule DEF MaybeScheduleReplay, Unasked, Shuts
  <2> QED
    BY <1>4, <2>1, <2>2 DEF HandleReplayLine
<1>5. ASSUME NEW g, t \in Answered(s, c, g) PROVE Shuts(s, t)
  <2>1. CASE t \in SendTo(s, c)
    BY <2>1, LoneSendTo
  <2>2. CASE t \in AdvanceIfReady([s EXCEPT !.game = g])
    <3>1. Unasked(s, [s EXCEPT !.game = g])
      BY LoneChange
    <3> QED
      BY <2>2, <3>1, LoneAdvance DEF AdvanceIfReady, Unasked, Shuts
  <2> QED
    BY <1>5, <2>1, <2>2 DEF Answered
<1> QED
    BY <1>1, <1>2, <1>3, <1>4, <1>5 DEF Dispatch, Message

----------------------------------------------------------------------------
(* The shutdown.                                                           *)

\* What every call does to the hope for another match: a match that is over
\* and has too few who may want another stays so, nobody refuses who has not
\* refused already, and ids are only given up.
Wanes(g, h) ==
    /\ Hopeless(g) => Hopeless(h)
    /\ Refused(h) \subseteq Refused(g)
    /\ \A p \in Slot : h.pid[p] \in {g.pid[p], 0}

\* The server is not asked to stop before that.
Closes(s, t) ==
    /\ Wanes(s.game, t.game)
    /\ t.shutdown /\ ~s.shutdown => Hopeless(t.game)
    /\ \A c \in Slot : t.cid[c] \in {s.cid[c], 0}

LEMMA ClosesTrans ==
    ASSUME NEW s, NEW t, NEW u, Closes(s, t), Closes(t, u)
    PROVE  Closes(s, u)
    BY DEF Closes, Wanes

LEMMA PossibleShrinks ==
    ASSUME NEW g \in GameState, NEW h,
           g.phase = "OVER" => h.phase = "OVER",
           h.connected \subseteq g.connected,
           h.connected \cap (g.decided \ g.wants) \subseteq h.decided \ h.wants
    PROVE  Hopeless(g) => Hopeless(h)
<1> DEFINE May(k) == {p \in k.connected : p \notin k.decided \/ p \in k.wants}
<1>1. May(h) \subseteq May(g)
    OBVIOUS
<1>2. May(g) \in SUBSET Slot /\ May(h) \in SUBSET Slot
    BY DEF GameState
<1> HIDE DEF May
<1>3. IsFiniteSet(May(g)) /\ IsFiniteSet(May(h))
    BY <1>2, SlotsFinite
<1>4. /\ Cardinality(May(h)) <= Cardinality(May(g))
      /\ Cardinality(May(h)) \in Nat /\ Cardinality(May(g)) \in Nat
    BY <1>1, <1>3, FS_Subset, FS_CardinalityType
<1>5. PossibleReplayCount(g) = Cardinality(May(g))
      /\ PossibleReplayCount(h) = Cardinality(May(h))
    BY DEF PossibleReplayCount, May
<1> QED
    BY <1>4, <1>5, MinPlayersAssumption DEF Hopeless

LEMMA TableWanes ==
    ASSUME NEW g, NEW h, SameTable(g, h), g.phase = "OVER" => h.phase = "OVER"
    PROVE  Wanes(g, h)
    BY DEF Wanes, SameTable, Hopeless, Refused, PossibleReplayCount

\* Nobody has been asked yet.
LEMMA DisconnectWanes ==
    ASSUME NEW g \in GameState, NEW id
    PROVE  Wanes(g, HandleDisconnect(g, id))
<1> DEFINE p == SlotOf(g, id)
           h == HandleDisconnect(g, id)
<1>1. CASE p = NoSlot
  <2>1. h = g
    BY <1>1 DEF HandleDisconnect
  <2> HIDE DEF h
  <2>2. Wanes(g, h)
    BY <2>1 DEF Wanes
  <2> QED
    BY <2>2 DEF h
<1>2. CASE p # NoSlot
  <2>1. p \in Slot
    BY <1>2, SlotOfType
  <2>2. h = ResetPlayer(g, p) \/ h = LeaveMatch(g, p)
    BY <1>2 DEF HandleDisconnect
  <2> HIDE DEF h, p
  <2>3. /\ h.connected = g.connected \ {p}
        /\ h.decided = g.decided \ {p} /\ h.wants = g.wants \ {p}
        /\ g.phase = "OVER" => h.phase = "OVER"
        /\ h.pid = g.pid \/ h.pid = [g.pid EXCEPT ![p] = 0]
    BY <2>2 DEF ResetPlayer, LeaveMatch, EndGame, GameState
  <2>4. Hopeless(g) => Hopeless(h)
    BY <2>3, PossibleShrinks
  <2>5. g.pid \in [Slot -> Nat]
    BY DEF GameState
  <2>6. Wanes(g, h)
    BY <2>3, <2>4, <2>5 DEF Wanes, Refused
  <2> QED
    BY <2>6 DEF h
<1> QED
    BY <1>1, <1>2

LEMMA DoneCloses ==
    ASSUME NEW s, NEW t, Wanes(s.game, t.game),
           t.shutdown = s.shutdown, t.cid = s.cid
    PROVE  Closes(s, t)
    BY DEF Closes

LEMMA SameCloses ==
    ASSUME NEW s, NEW t, t.game = s.game,
           t.shutdown = s.shutdown, t.cid = s.cid
    PROVE  Closes(s, t)
    BY DEF Closes, Wanes

DoesClose(removal) ==
    /\ DoesFollow(removal)
    /\ \A s \in SaneState, c \in Slot : \A t \in removal[s][c] : Closes(s, t)

LEMMA BroadcastCloses ==
    ASSUME NEW removal, DoesClose(removal), NEW s, Sane(s),
           NEW t \in BroadcastBy(removal, s)
    PROVE  Closes(s, t) /\ Sane(t)
<1> DEFINE X == {u \in SaneState : Closes(s, u)}
<1>1. s \in X
    BY SameCloses DEF SaneState, Sane, Held
<1>2. ASSUME NEW u \in X, NEW c \in u.open \cap u.flaky \cap Slot
      PROVE  removal[u][c] \subseteq X
  <2> SUFFICES ASSUME NEW v \in removal[u][c] PROVE v \in X
    OBVIOUS
  <2>1. u \in SaneState /\ c \in Slot
    OBVIOUS
  <2>2. Follows(u, v) /\ Closes(u, v)
    BY <2>1 DEF DoesClose, DoesFollow
  <2>3. Closes(s, v)
    BY <2>2, ClosesTrans
  <2> QED
    BY <2>2, <2>3 DEF Follows, SaneState, Sane, Held
<1> HIDE DEF X
<1>3. BroadcastBy(removal, s) \subseteq X
    BY <1>1, <1>2, BroadcastStays
<1> QED
    BY <1>3 DEF X, SaneState

LEMMA AnnouncedCloses ==
    ASSUME NEW removal, DoesClose(removal), NEW s, Sane(s),
           NEW a \in Pending \ {"NONE"}, NEW t \in BroadcastBy(removal, s)
    PROVE  Closes(s, Schedule(t, a))
<1>1. Closes(s, t) /\ Sane(t)
    BY BroadcastCloses
<1> DEFINE u == Schedule(t, a)
<1>2. u.game = t.game /\ u.shutdown = t.shutdown /\ u.cid = t.cid
    BY <1>1, ScheduleIs
<1> HIDE DEF u
<1>3. Closes(s, u)
    BY <1>1, <1>2, SameCloses, ClosesTrans
<1> QED
    BY <1>3 DEF u

LEMMA PhaseChangeCloses ==
    ASSUME NEW removal, DoesClose(removal), NEW s, Sane(s),
           NEW t \in HandlePhaseChangeBy(removal, s)
    PROVE  Closes(s, t)
<1>1. \A a \in {"TITLE_PROMPT", "VOTING_PROMPT", "ROUND_RESULTS"} :
        a \in Pending \ {"NONE"}
    BY DEF Pending, Prompts, Boards
<1>2. CASE s.game.phase \in {"REWRITE", "VOTING"}
  <2>1. PICK u \in BroadcastBy(removal, s) :
          t = Schedule(u, "TITLE_PROMPT") \/ t = Schedule(u, "VOTING_PROMPT")
    BY <1>2 DEF HandlePhaseChangeBy
  <2> QED
    BY <1>1, <2>1, AnnouncedCloses
<1>3. CASE s.game.phase = "RESULTS"
  <2>1. t = Schedule(s, "ROUND_RESULTS")
    BY <1>3 DEF HandlePhaseChangeBy
  <2>2. t.game = s.game /\ t.shutdown = s.shutdown /\ t.cid = s.cid
    BY <1>1, <2>1, ScheduleIs
  <2> QED
    BY <2>2, SameCloses
<1>4. CASE s.game.phase \notin {"REWRITE", "VOTING", "RESULTS"}
  <2>1. t = s
    BY <1>4 DEF HandlePhaseChangeBy
  <2> QED
    BY <2>1, SameCloses
<1> QED
    BY <1>2, <1>3, <1>4

LEMMA AdvanceCloses ==
    ASSUME NEW removal, DoesClose(removal), NEW s, Sane(s),
           NEW t \in AdvanceIfReadyBy(removal, s)
    PROVE  Closes(s, t)
<1>1. Safe(s.game) /\ Fits(s.game, Ids(s), s.nextId)
    BY DEF Sane, Held, Fits
<1>2. PICK g \in AdvancePhaseIfReady(s.game) :
        t \in LET u == [s EXCEPT !.game = g]
              IN  IF g.phase = s.game.phase THEN {u}
                  ELSE HandlePhaseChangeBy(removal, u)
    BY DEF AdvanceIfReadyBy
<1> DEFINE u == [s EXCEPT !.game = g]
<1>3. /\ Fits(g, Ids(s), s.nextId) /\ SameTable(s.game, g)
      /\ s.game.phase = "OVER" => g = s.game
    BY <1>1, AdvanceFits, AdvanceSafe DEF AdvancePhaseIfReady
<1>4. Sane(u) /\ u.game = g /\ u.shutdown = s.shutdown /\ u.cid = s.cid
    BY <1>3, GameChange
<1>5. t = u \/ t \in HandlePhaseChangeBy(removal, u)
    BY <1>2
<1> HIDE DEF u
<1>6. Closes(s, u)
    BY <1>3, <1>4, TableWanes, DoneCloses
<1> QED
    BY <1>4, <1>5, <1>6, PhaseChangeCloses, ClosesTrans

LEMMA AfterStartCloses ==
    ASSUME NEW removal, DoesClose(removal), NEW s, Sane(s),
           NEW t \in AfterStartBy(removal, s)
    PROVE  Closes(s, t)
<1>1. CASE s.game.phase = "LOBBY"
    BY <1>1, BroadcastCloses DEF AfterStartBy
<1>2. CASE s.game.phase # "LOBBY"
  <2>1. PICK u \in BroadcastBy(removal, s) : t = Schedule(u, "QUESTION_PROMPT")
    BY <1>2 DEF AfterStartBy
  <2>2. "QUESTION_PROMPT" \in Pending \ {"NONE"}
    BY DEF Pending, Prompts
  <2> QED
    BY <2>1, <2>2, AnnouncedCloses
<1> QED
    BY <1>1, <1>2

\* Enough who want another match are enough who may.
LEMMA EnoughHope ==
    ASSUME NEW g \in GameState, ~(ReplayCount(g) < MinPlayers)
    PROVE  ~Hopeless(g)
    BY WishersMayReplay, CountIsNat, MinPlayersAssumption DEF Hopeless

LEMMA TryStartCloses ==
    ASSUME NEW removal, DoesClose(removal), NEW s, Sane(s),
           NEW t \in TryStartReplayBy(removal, s)
    PROVE  Closes(s, t)
<1>1. s.game \in GameState /\ Fits(s.game, Ids(s), s.nextId)
    BY DEF Sane, Held, Fits, Safe
<1>2. CASE ReplayCount(s.game) < MinPlayers
    BY <1>2, BroadcastCloses DEF TryStartReplayBy
<1>3. CASE ~(ReplayCount(s.game) < MinPlayers)
  <2>1. s.game.phase = "OVER" /\ ~Hopeless(s.game)
    BY <1>1, <1>3, EnoughMeansOver, EnoughHope, CountIsNat, MinPlayersAssumption
       DEF Sane
  <2>2. PICK g \in Start(PrepareReplay(s.game)) :
          t \in AfterStartBy(removal, [s EXCEPT !.game = g])
    BY <1>3 DEF TryStartReplayBy
  <2> DEFINE h == PrepareReplay(s.game)
             u == [s EXCEPT !.game = g]
  <2>3. Fits(h, Ids(s), s.nextId) /\ h.phase = "LOBBY" /\ h.pid = s.game.pid
    <3>1. Fits(h, Ids(s), s.nextId) /\ h.phase = "LOBBY"
      BY <1>1, <2>1, PrepareFits
    <3>2. h.pid = s.game.pid
      BY <1>1 DEF PrepareReplay, GameState
    <3> QED
      BY <3>1, <3>2
  <2> HIDE DEF h
  <2>4. Fits(g, Ids(s), s.nextId) /\ SameTable(h, g) /\ g.decided = {}
    BY <2>2, <2>3, StartFits DEF h
  <2>5. Sane(u) /\ u.game = g /\ u.shutdown = s.shutdown /\ u.cid = s.cid
    BY <2>4, GameChange
  <2>6. t \in AfterStartBy(removal, u)
    BY <2>2
  <2> HIDE DEF u
  <2>7. Closes(s, u)
    BY <2>1, <2>3, <2>4, <2>5 DEF Closes, Wanes, Refused, SameTable
  <2> QED
    BY <2>5, <2>6, <2>7, AfterStartCloses, ClosesTrans
<1> QED
    BY <1>2, <1>3

LEMMA MaybeScheduleCloses ==
    ASSUME NEW removal, DoesClose(removal), NEW s, Sane(s),
           NEW t \in MaybeScheduleReplayBy(removal, s)
    PROVE  Closes(s, t)
<1> DEFINE v == CancelCountdown(s)
<1>1. Sane(v) /\ v.game = s.game /\ v.shutdown = s.shutdown /\ v.cid = s.cid
    BY CancelIs
<1>2. Closes(s, v) /\ Closes(s, s)
    BY <1>1, SameCloses
<1>3. CASE t \in CloseReplayLobbyBy(removal, s) /\ Hopeless(s.game)
  <2>1. PICK u \in BroadcastBy(removal, v) : t = [u EXCEPT !.shutdown = TRUE]
    BY <1>3 DEF CloseReplayLobbyBy
  <2> HIDE DEF v
  <2>2. Closes(v, u) /\ Sane(u)
    BY <1>1, <2>1, BroadcastCloses
  <2>3. t.game = u.game /\ t.cid = u.cid
    BY <2>1, <2>2, ShutdownIs
  <2> QED
    BY <1>1, <1>3, <2>2, <2>3 DEF Closes, Wanes
<1>4. CASE t \in TryStartReplayBy(removal, v)
  <2> HIDE DEF v
  <2> QED
    BY <1>1, <1>2, <1>4, TryStartCloses, ClosesTrans
<1>5. CASE \E u \in BroadcastBy(removal, s) : t = Schedule(u, "REPLAY_START")
  <2>1. "REPLAY_START" \in Pending \ {"NONE"}
    BY DEF Pending
  <2> QED
    BY <1>5, <2>1, AnnouncedCloses
<1>6. CASE t \in {s, v}
    BY <1>2, <1>6
<1> QED
    BY <1>3, <1>4, <1>5, <1>6 DEF MaybeScheduleReplayBy, Hopeless

\* The slot may be closed already (RemoveFollowsHeld).
LEMMA RemoveClosesHeld ==
    ASSUME NEW removal, DoesClose(removal), NEW s, Held(s), NEW c \in Slot,
           \A d \in Slot \ (s.open \cup {c}) : s.cid[d] = 0,
           NEW t \in RemoveClientBy(removal, s, c)
    PROVE  Closes(s, t)
<1> DEFINE id == s.cid[c]
           g == HandleDisconnect(s.game, id)
           u == Closed(s, c, g)
           v == ClearPending(u)
           told == IF SlotOf(u.game, id) = NoSlot THEN {u} ELSE BroadcastBy(removal, u)
           F(w) == MaybeScheduleReplayBy(removal, w)
           A(w) == AdvanceIfReadyBy(removal, w)
<1>1. /\ s \in ServerState /\ s.game \in GameState
      /\ Fits(s.game, Ids(s), s.nextId) /\ s.nextId \in Nat \ {0}
      /\ Ids(s) \in SUBSET Nat
    BY DEF Held, Fits, Safe, ServerState, Ids
<1>2. u = [CloseSlot(s, c) EXCEPT !.game = HandleDisconnect(@, id)]
    BY <1>1 DEF Closed, CloseSlot, ServerState
<1>3. CASE id = 0
  <2>1. t = CloseSlot(s, c)
    BY <1>3 DEF RemoveClientBy
  <2>2. t.game = s.game /\ t.shutdown = s.shutdown /\ t.cid = [s.cid EXCEPT ![c] = 0]
    BY <1>1, <2>1 DEF CloseSlot, ServerState
  <2>3. \A d \in Slot : t.cid[d] \in {s.cid[d], 0}
    BY <1>1, <2>2 DEF ServerState
  <2> QED
    BY <2>2, <2>3 DEF Closes, Wanes
<1>4. CASE id # 0
  <2>1. id \in Ids(s) \ {0}
    BY <1>4 DEF Ids
  <2>2. Fits(g, Ids(s) \ {s.cid[c]}, s.nextId)
    BY <1>1, <2>1, DisconnectSafe DEF Fits
  <2>3. Wanes(s.game, g)
    BY <1>1, DisconnectWanes
  <2> HIDE DEF g
  <2>4. /\ Sane(u) /\ u.game = g /\ u.shutdown = s.shutdown
        /\ \A d \in Slot : u.cid[d] \in {s.cid[d], 0}
    BY <2>2, CloseIs
  <2>5. Closes(s, u)
    BY <2>3, <2>4 DEF Closes
  <2>6. \/ t \in BroadcastBy(removal, v)
        \/ t \in Then(Then(told, F), A)
        \/ t \in AdvanceIfReadyBy(removal, u)
    <3> HIDE DEF u
    <3> QED
      BY <1>2, <1>4 DEF RemoveClientBy
  <2> HIDE DEF u, id
  <2>7. CASE t \in BroadcastBy(removal, v)
    <3>1. Sane(v) /\ v.game = u.game /\ v.shutdown = u.shutdown /\ v.cid = u.cid
      BY <2>4, ClearIs
    <3> HIDE DEF v
    <3>2. Closes(u, v) /\ Closes(v, t)
      BY <2>7, <3>1, SameCloses, BroadcastCloses
    <3> QED
      BY <2>5, <3>2, ClosesTrans
  <2>8. CASE t \in Then(Then(told, F), A)
    <3>1. PICK w \in Then(told, F) : t \in A(w)
      BY <2>8 DEF Then
    <3>2. PICK x \in told : w \in F(x)
      BY <3>1 DEF Then
    <3>3. Closes(u, x) /\ Sane(x)
      BY <2>4, <3>2, BroadcastCloses, SameCloses
    <3>4. Closes(x, w) /\ Sane(w)
      BY <3>2, <3>3, MaybeScheduleCloses, MaybeScheduleFollows DEF DoesClose, Follows
    <3>5. Closes(w, t)
      BY <3>1, <3>4, AdvanceCloses
    <3> QED
      BY <2>5, <3>3, <3>4, <3>5, ClosesTrans
  <2>9. CASE t \in AdvanceIfReadyBy(removal, u)
    BY <2>4, <2>5, <2>9, AdvanceCloses, ClosesTrans
  <2> QED
    BY <2>6, <2>7, <2>8, <2>9
<1> QED
    BY <1>3, <1>4

LEMMA RemovalCloses == DoesClose(Removal)
<1> DEFINE Rel == {st \in SaneState \X SaneState :
                     Follows(st[1], st[2]) /\ Closes(st[1], st[2])}
<1>1. SaneState \in SUBSET ServerState
    BY DEF SaneState
<1>2. \A s \in SaneState : Sane(s)
    BY DEF SaneState
<1>3. \A s \in SaneState : \A t :
        Follows(s, t) /\ Closes(s, t) <=> <<s, t>> \in Rel
  <2> TAKE s \in SaneState
  <2> TAKE t
  <2>1. Follows(s, t) => t \in SaneState
    BY DEF Follows, Sane, Held, SaneState
  <2> QED
    BY <2>1
<1> HIDE DEF Rel
<1>4. ASSUME NEW removal,
             \A s \in SaneState, c \in Slot : \A t \in removal[s][c] : <<s, t>> \in Rel
      PROVE  \A s \in SaneState, c \in Slot :
               \A t \in RemoveClientBy(removal, s, c) : <<s, t>> \in Rel
  <2>1. DoesClose(removal)
    BY <1>3, <1>4 DEF DoesClose, DoesFollow
  <2>2. ASSUME NEW s \in SaneState, NEW c \in Slot,
               NEW t \in RemoveClientBy(removal, s, c)
        PROVE  <<s, t>> \in Rel
    <3>1. Sane(s)
      BY <1>2
    <3>2. Follows(s, t)
      BY <2>1, <3>1, RemoveFollows DEF DoesClose
    <3>3. Closes(s, t)
      BY <2>1, <3>1, RemoveClosesHeld DEF Sane
    <3> QED
      BY <1>3, <3>2, <3>3
  <2> QED
    BY <2>2
<1>5. \A s \in SaneState, c \in Slot : \A t \in Removal[s][c] : <<s, t>> \in Rel
    BY <1>1, <1>4, RemovalDoes
<1> QED
    BY <1>3, <1>5, RemovalFollows DEF DoesClose

LEMMA SendCloses ==
    ASSUME NEW s, Sane(s), NEW t \in Broadcast(s)
    PROVE  Closes(s, t)
    BY RemovalCloses, BroadcastCloses DEF Broadcast

LEMMA RemoveCloses ==
    ASSUME NEW s, Sane(s), NEW c \in Slot, NEW t \in RemoveClient(s, c)
    PROVE  Closes(s, t)
    BY RemovalCloses, RemoveClosesHeld DEF RemoveClient, Sane

LEMMA SendToCloses ==
    ASSUME NEW s, Sane(s), NEW c \in Slot, NEW t \in SendTo(s, c)
    PROVE  Closes(s, t)
    BY RemoveCloses, SameCloses DEF SendTo

LEMMA WindowCloses ==
    ASSUME NEW s, Calm(s), NEW w \in Window
    PROVE  LET t == [s EXCEPT !.game = StartWindow(@, w)]
           IN  Closes(s, t) /\ Calm(t)
<1> DEFINE g == StartWindow(s.game, w)
           t == [s EXCEPT !.game = g]
<1>1. s \in ServerState /\ s.game \in GameState
    BY DEF Calm, Sane, Held, Fits, Safe
<1>2. SameTable(s.game, g) /\ g.phase = s.game.phase
    BY <1>1 DEF StartWindow, SetDeadline, SameTable, GameState
<1>3. Calm(t) /\ t = [s EXCEPT !.game = StartWindow(@, w)]
    BY CalmWindow, WindowInPlace
<1> HIDE DEF g
<1>4. t.game = g /\ t.shutdown = s.shutdown /\ t.cid = s.cid
    BY <1>1 DEF ServerState
<1> HIDE DEF t
<1>5. Closes(s, t)
    BY <1>2, <1>4, TableWanes, DoneCloses
<1> QED
    BY <1>3, <1>5

LEMMA PromptsClose ==
    ASSUME NEW s, Calm(s)
    PROVE  /\ \A t \in QuestionPrompt(s) : Closes(s, t)
           /\ \A t \in TitlePrompt(s) : Closes(s, t)
           /\ \A t \in VotingPrompt(s) : Closes(s, t)
<1>1. ASSUME NEW t \in QuestionPrompt(s) PROVE Closes(s, t)
  <2>1. PICK u \in {[v EXCEPT !.game = StartWindow(@, "PROMPT")] : v \in Broadcast(s)} :
          t \in Broadcast(u)
    BY <1>1 DEF QuestionPrompt, Then
  <2>2. PICK v \in Broadcast(s) : u = [v EXCEPT !.game = StartWindow(@, "PROMPT")]
    BY <2>1
  <2>3. Calm(v) /\ Closes(s, v)
    BY CalmBroadcast, SendCloses DEF Calm
  <2>4. Closes(v, u) /\ Calm(u)
    BY <2>2, <2>3, WindowCloses DEF Window
  <2>5. Closes(u, t)
    BY <2>1, <2>4, SendCloses DEF Calm
  <2> QED
    BY <2>3, <2>4, <2>5, ClosesTrans
<1>2. ASSUME NEW t \in TitlePrompt(s) PROVE Closes(s, t)
  <2> DEFINE u == [s EXCEPT !.game = StartWindow(@, "REWRITE")]
  <2>1. Closes(s, u) /\ Calm(u)
    BY WindowCloses DEF Window
  <2>2. t \in Broadcast(u)
    BY <1>2 DEF TitlePrompt
  <2> HIDE DEF u
  <2> QED
    BY <2>1, <2>2, SendCloses, ClosesTrans DEF Calm
<1>3. ASSUME NEW t \in VotingPrompt(s) PROVE Closes(s, t)
  <2>1. PICK v \in Broadcast(s) : t = [v EXCEPT !.game = StartWindow(@, "VOTING")]
    BY <1>3 DEF VotingPrompt
  <2>2. Calm(v) /\ Closes(s, v)
    BY CalmBroadcast, SendCloses DEF Calm
  <2>3. Closes(v, t)
    BY <2>1, <2>2, WindowCloses DEF Window
  <2> QED
    BY <2>2, <2>3, ClosesTrans
<1> QED
    BY <1>1, <1>2, <1>3

LEMMA ScheduleCloses ==
    ASSUME NEW s, Sane(s), NEW u \in Broadcast(s), NEW a \in Pending \ {"NONE"}
    PROVE  Closes(s, Schedule(u, a))
    BY RemovalCloses, AnnouncedCloses DEF Broadcast

LEMMA ResultsClose ==
    ASSUME NEW s, Calm(s), NEW t \in RoundResults(s)
    PROVE  Closes(s, t)
<1>1. PICK u \in Broadcast(s) :
        t = Schedule(u, IF IsFinalRound(u.game) THEN "FINAL_SCOREBOARD" ELSE "SCOREBOARD")
    BY DEF RoundResults
<1>2. \A a \in {"FINAL_SCOREBOARD", "SCOREBOARD"} : a \in Pending \ {"NONE"}
    BY DEF Pending, Boards
<1>3. PICK a \in {"FINAL_SCOREBOARD", "SCOREBOARD"} : t = Schedule(u, a)
    BY <1>1
<1> QED
    BY <1>2, <1>3, ScheduleCloses DEF Calm

\* The game as FinishRound leaves it.
LEMMA FinishCloses ==
    ASSUME NEW s, Calm(s), NEW g \in FinishRound(s.game)
    PROVE  LET t == [s EXCEPT !.game = g] IN Closes(s, t) /\ Calm(t)
<1> DEFINE t == [s EXCEPT !.game = g]
<1>1. /\ Fits(g, Ids(s), s.nextId) /\ SameTable(s.game, g)
      /\ s.game.phase # "RESULTS" => g = s.game
    BY FinishFits DEF Calm, Sane, Held
<1>2. t.game = g /\ t.shutdown = s.shutdown /\ t.cid = s.cid
    BY <1>1, GameChange DEF Calm
<1>3. Calm(t)
    BY <1>1, CalmTable
<1> HIDE DEF t
<1>4. Closes(s, t)
    BY <1>1, <1>2, TableWanes, DoneCloses
<1> QED
    BY <1>3, <1>4 DEF t

LEMMA NextRoundCloses ==
    ASSUME NEW s, Calm(s), NEW t \in NextRoundOrEnd(s)
    PROVE  Closes(s, t)
<1>1. PICK g \in FinishRound(s.game) :
        LET u == [s EXCEPT !.game = g]
        IN  \E v \in Broadcast(u) :
              t = Schedule(v, "QUESTION_PROMPT") \/ t = [v EXCEPT !.game = EndGame(@)]
    BY DEF NextRoundOrEnd
<1> DEFINE u == [s EXCEPT !.game = g]
<1>2. Closes(s, u) /\ Calm(u)
    BY FinishCloses
<1>3. PICK v \in Broadcast(u) :
        t = Schedule(v, "QUESTION_PROMPT") \/ t = [v EXCEPT !.game = EndGame(@)]
    BY <1>1
<1> HIDE DEF u
<1>4. CASE t = Schedule(v, "QUESTION_PROMPT")
  <2>1. "QUESTION_PROMPT" \in Pending \ {"NONE"}
    BY DEF Pending, Prompts
  <2> QED
    BY <1>2, <1>4, <2>1, ScheduleCloses, ClosesTrans DEF Calm
<1>5. CASE t = [v EXCEPT !.game = EndGame(@)]
  <2>1. Calm(v) /\ Closes(u, v)
    BY <1>2, CalmBroadcast, SendCloses DEF Calm
  <2>2. v \in ServerState /\ v.game \in GameState
    BY <2>1 DEF Calm, Sane, Held, Fits, Safe
  <2>3. t.game = EndGame(v.game) /\ t.shutdown = v.shutdown /\ t.cid = v.cid
    BY <1>5, <2>2 DEF ServerState
  <2>4. SameTable(v.game, t.game) /\ t.game.phase = "OVER"
    BY <2>2, <2>3 DEF EndGame, SameTable, GameState
  <2> QED
    BY <1>2, <2>1, <2>3, <2>4, TableWanes, DoneCloses, ClosesTrans
<1> QED
    BY <1>3, <1>4, <1>5

LEMMA ScoreboardsClose ==
    ASSUME NEW s, Calm(s)
    PROVE  /\ \A t \in Scoreboard(s) : Closes(s, t)
           /\ \A t \in FinalScoreboard(s) : Closes(s, t)
<1>1. ASSUME NEW t \in Scoreboard(s) PROVE Closes(s, t)
  <2>1. PICK u \in Broadcast(s) : t \in NextRoundOrEnd(u)
    BY <1>1 DEF Scoreboard, Then
  <2>2. Calm(u) /\ Closes(s, u)
    BY CalmBroadcast, SendCloses DEF Calm
  <2> QED
    BY <2>1, <2>2, NextRoundCloses, ClosesTrans
<1>2. ASSUME NEW t \in FinalScoreboard(s) PROVE Closes(s, t)
  <2> DEFINE V == UNION {{[u EXCEPT !.game = g] : g \in FinishRound(u.game)} :
                           u \in Broadcast(s)}
  <2>1. PICK w \in Then(V, Broadcast) : t = Schedule(w, "GAME_OVER")
    BY <1>2 DEF FinalScoreboard
  <2>2. PICK v \in V : w \in Broadcast(v)
    BY <2>1 DEF Then
  <2>3. PICK u \in Broadcast(s) : \E g \in FinishRound(u.game) : v = [u EXCEPT !.game = g]
    BY <2>2
  <2>4. Calm(u) /\ Closes(s, u)
    BY CalmBroadcast, SendCloses DEF Calm
  <2>5. Calm(v) /\ Closes(u, v)
    BY <2>3, <2>4, FinishCloses
  <2>6. "GAME_OVER" \in Pending \ {"NONE"}
    BY DEF Pending
  <2>7. Closes(v, t)
    BY <2>1, <2>2, <2>5, <2>6, ScheduleCloses DEF Calm
  <2> QED
    BY <2>4, <2>5, <2>7, ClosesTrans
<1> QED
    BY <1>1, <1>2

LEMMA PendingCloses ==
    ASSUME NEW s, Good(s), s.pending # "NONE", NEW t \in RunPending(s)
    PROVE  Closes(s, t)
<1> DEFINE u == ClearPending(s)
<1>1. Sane(u) /\ u.game = s.game /\ u.shutdown = s.shutdown /\ u.cid = s.cid
    BY ClearIs DEF Good
<1>2. Closes(s, u)
    BY <1>1, SameCloses
<1>3. CASE s.pending = "REPLAY_START"
  <2>1. t \in TryStartReplayBy(Removal, u)
    BY <1>3 DEF RunPending, TryStartReplay
  <2> HIDE DEF u
  <2> QED
    BY <1>1, <1>2, <2>1, RemovalCloses, TryStartCloses, ClosesTrans
<1>4. CASE s.pending # "REPLAY_START"
  <2>1. Calm(u)
    <3>1. Calm(s)
      BY <1>4, GoodCalm
    <3> HIDE DEF u
    <3> QED
      BY <1>1, <3>1 DEF Calm
  <2>2. t \in QuestionPrompt(u) \cup TitlePrompt(u) \cup VotingPrompt(u)
          \cup RoundResults(u) \cup Scoreboard(u) \cup FinalScoreboard(u)
          \cup Broadcast(u)
    <3>1. s.pending \in Pending
      BY DEF Good, Sane, Held, ServerState
    <3> HIDE DEF u
    <3> QED
      BY <1>4, <3>1 DEF RunPending, Pending, Prompts, Boards, u
  <2> HIDE DEF u
  <2>3. Closes(u, t)
    BY <1>1, <2>1, <2>2, PromptsClose, ResultsClose, ScoreboardsClose, SendCloses
  <2> QED
    BY <1>2, <2>3, ClosesTrans
<1> QED
    BY <1>3, <1>4

LEMMA DeadlineEnds ==
    ASSUME NEW s, Good(s), NEW t \in EnforceDeadline(s)
    PROVE  Closes(s, t)
<1>1. CASE PhaseDeadline(s.game) # "due"
    BY <1>1, SameCloses DEF EnforceDeadline
<1>2. CASE PhaseDeadline(s.game) = "due"
  <2>1. PICK g \in ApplyPhaseTimeout(s.game) :
          t \in Then(Broadcast([s EXCEPT !.game = g]),
                     LAMBDA v : IF v.game.phase # s.game.phase
                                THEN HandlePhaseChange(v) ELSE {v})
    BY <1>2 DEF EnforceDeadline
  <2> DEFINE u == [s EXCEPT !.game = g]
  <2>2. PICK v \in Broadcast(u) : t = v \/ t \in HandlePhaseChange(v)
    BY <2>1 DEF Then
  <2>3. s.game.phase \in Window
    BY <1>2 DEF PhaseDeadline
  <2>4. /\ Fits(s.game, Ids(s), s.nextId) /\ GameInv(s.game)
        /\ ScoreInv(s.game)
    BY <2>3 DEF Good, Sane, Held, Fits, Safe, Wiped, Window
  <2>5. Fits(g, Ids(s), s.nextId) /\ SameTable(s.game, g)
    BY <1>2, <2>4, TimeoutFits, TimeoutScored DEF Scored
  <2>6. Sane(u) /\ u.game = g /\ u.shutdown = s.shutdown /\ u.cid = s.cid
    BY <2>5, GameChange DEF Good
  <2> HIDE DEF u
  <2>7. Closes(s, u)
    BY <2>3, <2>5, <2>6, TableWanes, DoneCloses DEF Window
  <2>8. Closes(u, v) /\ Sane(v)
    BY <2>2, <2>6, RemovalCloses, BroadcastCloses DEF Broadcast
  <2>9. t = v \/ Closes(v, t)
    BY <2>2, <2>8, RemovalCloses, PhaseChangeCloses DEF HandlePhaseChange
  <2> QED
    BY <2>7, <2>8, <2>9, ClosesTrans
<1> QED
    BY <1>1, <1>2

LEMMA TimersClose ==
    ASSUME NEW s, Good(s), NEW t \in RunTimers(s)
    PROVE  Closes(s, t)
<1>1. PICK u \in RunPendingIfDue(s) : t \in EnforceDeadline(u)
    BY DEF RunTimers, Then
<1>2. Good(u) /\ Closes(s, u)
    BY PendingGood, PendingCloses, SameCloses DEF RunPendingIfDue
<1> QED
    BY <1>1, <1>2, DeadlineEnds, ClosesTrans

\* The half of Closes that a new wish does not break.
Settles(s, t) ==
    /\ Hopeless(s.game) => Hopeless(t.game)
    /\ t.shutdown /\ ~s.shutdown => Hopeless(t.game)

LEMMA EndsTrans ==
    ASSUME NEW s, NEW t, NEW u, Settles(s, t) \/ Closes(s, t), Settles(t, u) \/ Closes(t, u)
    PROVE  Settles(s, u)
    BY DEF Settles, Closes, Wanes

LEMMA EarlyEnds ==
    ASSUME NEW s, NEW t, s.game.phase # "OVER", t.shutdown = s.shutdown
    PROVE  Settles(s, t)
    BY DEF Settles, Hopeless

LEMMA JoinEnds ==
    ASSUME NEW s, Good(s), NEW c \in Slot, NEW n \in Name,
           NEW t \in HandleJoinLine(s, c, n)
    PROVE  Settles(s, t)
<1> DEFINE u == Admitted(s, c, n)
           R == JoinResult(s.game, JoinId(s, c), n)
<1>1. CASE R = "ok"
  <2>1. t \in Then(SendTo(u, c), LAMBDA v : IF v.cid[c] = JoinId(s, c)
                                            THEN Broadcast(v) ELSE {v})
    BY <1>1 DEF HandleJoinLine, Admitted, JoinId
  <2>2. /\ Held(u) /\ u.shutdown = s.shutdown
        /\ \A d \in Slot \ (u.open \cup {c}) : u.cid[d] = 0
    BY <1>1, AdmitIs DEF Good
  <2>3. Settles(s, u)
    <3>1. s.game.phase = "LOBBY"
      BY <1>1 DEF JoinResult
    <3> QED
      BY <2>2, <3>1, EarlyEnds
  <2> HIDE DEF u
  <2>4. PICK v \in SendTo(u, c) : t \in Broadcast(v) \cup {v}
    BY <2>1 DEF Then
  <2>5. Closes(u, v) /\ Sane(v)
    <3>1. CASE c \in u.open /\ v = u
      BY <2>2, <3>1, SameCloses DEF Sane
    <3>2. CASE v \in RemoveClient(u, c)
      <4>1. v \in RemoveClientBy(Removal, u, c)
        BY <3>2 DEF RemoveClient
      <4>2. Follows(u, v)
        BY <2>2, <4>1, RemovalFollows, RemoveFollowsHeld
      <4>3. Closes(u, v)
        BY <2>2, <4>1, RemovalCloses, RemoveClosesHeld
      <4> QED
        BY <4>2, <4>3 DEF Follows
    <3> QED
      BY <2>4, <3>1, <3>2 DEF SendTo
  <2>6. Closes(v, t)
    BY <2>4, <2>5, SendCloses, SameCloses
  <2> QED
    BY <2>3, <2>5, <2>6, EndsTrans
<1>2. CASE R # "ok"
  <2>1. t \in RemoveClient(s, c) \/ t \in SendTo(s, c)
    BY <1>2 DEF HandleJoinLine, JoinId
  <2> QED
    BY <2>1, RemoveCloses, SendToCloses DEF Good, Closes, Wanes, Settles
<1> QED
    BY <1>1, <1>2

LEMMA ReadyEnds ==
    ASSUME NEW s, Good(s), NEW c \in Slot, NEW t \in HandleReadyLine(s, c)
    PROVE  Settles(s, t)
<1>1. CASE t \in SendTo(s, c)
    BY <1>1, SendToCloses DEF Good, Closes, Wanes, Settles
<1>2. CASE /\ CanReady(s.game, s.cid[c])
           /\ t \in Then(Broadcast([s EXCEPT !.game = HandleReady(@, s.cid[c])]),
                         MaybeStartGame)
  <2> DEFINE g == HandleReady(s.game, s.cid[c])
             u == [s EXCEPT !.game = g]
  <2>1. s.game.phase = "LOBBY" /\ Fits(s.game, Ids(s), s.nextId)
    BY <1>2 DEF CanReady, Good, Sane, Held
  <2>2. Fits(g, Ids(s), s.nextId)
    BY <2>1, ReadyFits
  <2>3. u = [s EXCEPT !.game = HandleReady(@, s.cid[c])]
    BY DEF Good, Sane, Held, ServerState
  <2> HIDE DEF g
  <2>4. Sane(u) /\ u.shutdown = s.shutdown
    BY <2>2, GameChange DEF Good
  <2> HIDE DEF u
  <2>5. PICK v \in Broadcast(u) : t \in MaybeStartGame(v)
    BY <1>2, <2>3 DEF Then
  <2>6. Closes(u, v) /\ Sane(v)
    BY <2>4, <2>5, RemovalCloses, BroadcastCloses DEF Broadcast
  <2>7. Settles(v, t)
    <3>1. CASE CanStart(v.game)
      <4>1. PICK h \in Start(v.game) : t \in AfterStartBy(Removal, [v EXCEPT !.game = h])
        BY <2>5, <3>1 DEF MaybeStartGame, AfterStart
      <4> DEFINE w == [v EXCEPT !.game = h]
      <4>2. v.game.phase = "LOBBY" /\ Fits(v.game, Ids(v), v.nextId)
        BY <2>6, <3>1 DEF CanStart, Sane, Held
      <4>3. Fits(h, Ids(v), v.nextId)
        BY <4>1, <4>2, StartFits
      <4>4. Sane(w) /\ w.shutdown = v.shutdown
        BY <2>6, <4>3, GameChange
      <4>5. t \in AfterStartBy(Removal, w)
        BY <4>1
      <4> HIDE DEF w
      <4>6. Settles(v, w)
        BY <4>2, <4>4, EarlyEnds
      <4>7. Closes(w, t)
        BY <4>4, <4>5, RemovalCloses, AfterStartCloses
      <4> QED
        BY <4>6, <4>7, EndsTrans
    <3>2. CASE ~CanStart(v.game)
      BY <2>5, <3>2 DEF MaybeStartGame, Settles
    <3> QED
      BY <3>1, <3>2
  <2>8. Settles(s, u)
    BY <2>1, <2>4, EarlyEnds
  <2> QED
    BY <2>6, <2>7, <2>8, EndsTrans
<1> QED
    BY <1>1, <1>2 DEF HandleReadyLine

\* The line of who takes a refusal back.
Relents(s, c, m) ==
    /\ m = [type |-> "REPLAY", wish |-> TRUE]
    /\ s.cid[c] # 0 /\ \E p \in Refused(s.game) : s.game.pid[p] = s.cid[c]

LEMMA WishEnds ==
    ASSUME NEW s, Good(s), NEW c \in Slot, NEW wish \in BOOLEAN,
           NEW t \in HandleReplayLine(s, c, wish)
    PROVE  \/ Settles(s, t)
           \/ /\ t.shutdown /\ ~s.shutdown => Hopeless(t.game)
              /\ Relents(s, c, [type |-> "REPLAY", wish |-> wish])
<1>1. CASE t \in SendTo(s, c)
    BY <1>1, SendToCloses DEF Good, Closes, Wanes, Settles
<1>2. CASE /\ s.cid[c] # 0 /\ CanChooseReplay(s.game, s.cid[c])
           /\ t \in Then(Broadcast([s EXCEPT !.game =
                                      HandleReplayChoice(@, s.cid[c], wish)]),
                         MaybeScheduleReplay)
  <2> DEFINE p == SlotOf(s.game, s.cid[c])
             g == HandleReplayChoice(s.game, s.cid[c], wish)
             u == [s EXCEPT !.game = g]
  <2>1. Fits(g, Ids(s), s.nextId)
    BY <1>2, WishFits DEF Good, Sane, Held
  <2>2. u = [s EXCEPT !.game = HandleReplayChoice(@, s.cid[c], wish)]
    BY DEF Good, Sane, Held, ServerState
  <2>3. s.game \in GameState
    BY DEF Good, Sane, Held, Fits, Safe
  <2>4. /\ g.phase = "OVER" /\ g.connected = s.game.connected
        /\ g.decided = s.game.decided \cup {p}
        /\ g.wants = IF wish THEN s.game.wants \cup {p} ELSE s.game.wants \ {p}
        /\ p \in s.game.connected
    BY <1>2, <2>3 DEF HandleReplayChoice, CanChooseReplay, GameState
  <2>5. s.game.pid[p] = s.cid[c]
    <3>1. p # NoSlot /\ SeatInv(s.game, Ids(s), s.nextId)
      BY <2>3, <2>4 DEF GameState, Slot, NoSlot, Good, Sane, Held, Fits
    <3> QED
      BY <1>2, <2>3, <3>1, SlotOfIs
  <2>6. \/ Hopeless(s.game) => Hopeless(g)
        \/ Relents(s, c, [type |-> "REPLAY", wish |-> wish])
    <3>1. CASE wish /\ p \in Refused(s.game)
      BY <1>2, <2>5, <3>1 DEF Relents
    <3>2. CASE ~(wish /\ p \in Refused(s.game))
      <4> HIDE DEF g, p
      <4>1. s.game.connected \cap (s.game.decided \ s.game.wants) \subseteq g.decided \ g.wants
        BY <2>4, <3>2 DEF Refused
      <4> QED
        BY <2>3, <2>4, <4>1, PossibleShrinks
    <3> QED
      BY <3>1, <3>2
  <2> HIDE DEF g, p
  <2>7. Sane(u) /\ u.game = g /\ u.shutdown = s.shutdown
    BY <2>1, GameChange DEF Good
  <2> HIDE DEF u
  <2>8. PICK v \in Broadcast(u) : t \in MaybeScheduleReplay(v)
    BY <1>2, <2>2 DEF Then
  <2>9. Closes(u, v) /\ Sane(v)
    BY <2>7, <2>8, RemovalCloses, BroadcastCloses DEF Broadcast
  <2>10. Closes(v, t)
    BY <2>8, <2>9, RemovalCloses, MaybeScheduleCloses DEF MaybeScheduleReplay
  <2> QED
    BY <2>6, <2>7, <2>9, <2>10 DEF Settles, Closes, Wanes
<1> QED
    BY <1>1, <1>2 DEF HandleReplayLine

LEMMA AnswerEnds ==
    ASSUME NEW s, Good(s), NEW c \in Slot, NEW g,
           g = s.game \/ (s.game.phase \in Window /\ Recorded(s.game, g)),
           NEW t \in Answered(s, c, g)
    PROVE  Settles(s, t)
<1>1. CASE g = s.game
    BY <1>1, SendToCloses DEF Answered, Good, Closes, Wanes, Settles
<1>2. CASE g # s.game
  <2> DEFINE u == [s EXCEPT !.game = g]
  <2>1. s.game.phase \in Window /\ Recorded(s.game, g)
    BY <1>2
  <2>2. Fits(g, Ids(s), s.nextId)
    BY <2>1, RecordedFits DEF Good, Sane, Held, Window
  <2>3. Sane(u) /\ u.shutdown = s.shutdown
    BY <2>2, GameChange DEF Good
  <2>4. t \in AdvanceIfReadyBy(Removal, u)
    BY <1>2 DEF Answered, AdvanceIfReady
  <2> HIDE DEF u
  <2>5. Settles(s, u)
    BY <2>1, <2>3, EarlyEnds DEF Window
  <2> QED
    BY <2>3, <2>4, <2>5, RemovalCloses, AdvanceCloses, EndsTrans
<1> QED
    BY <1>1, <1>2

LEMMA DispatchEnds ==
    ASSUME NEW s, Good(s), NEW c \in Slot, NEW m \in Message,
           NEW t \in Dispatch(s, c, m)
    PROVE  \/ Settles(s, t)
           \/ (t.shutdown /\ ~s.shutdown => Hopeless(t.game)) /\ Relents(s, c, m)
<1>1. CASE m.type = "JOIN"
  <2>1. m.name \in Name
    BY <1>1 DEF Message
  <2> QED
    BY <1>1, <2>1, JoinEnds DEF Dispatch
<1>2. CASE m.type = "READY"
    BY <1>2, ReadyEnds DEF Dispatch
<1>3. CASE m.type = "REPLAY"
  <2>1. m.wish \in BOOLEAN /\ m = [type |-> "REPLAY", wish |-> m.wish]
    BY <1>3 DEF Message
  <2>2. t \in HandleReplayLine(s, c, m.wish)
    BY <1>3 DEF Dispatch
  <2> QED
    BY <2>1, <2>2, WishEnds
<1>4. CASE m.type \in {"SUBMIT", "TITLE", "VOTE"}
  <2>1. PICK g \in {HandleSubmit(s.game, s.cid[c]), HandleRewrite(s.game, s.cid[c]),
                    HandleVote(s.game, s.cid[c], VoteTargetId(s.game, m.option))} :
          t \in Answered(s, c, g)
    BY <1>4 DEF Dispatch
  <2>2. g = s.game \/ (s.game.phase \in Window /\ Recorded(s.game, g))
    BY AnswersRecorded
  <2> QED
    BY <2>1, <2>2, AnswerEnds
<1>5. CASE m.type \in {"BAD_JOIN", "OTHER"}
  <2>1. t \in RemoveClient(s, c) \/ t \in SendTo(s, c)
    BY <1>5 DEF Dispatch
  <2> QED
    BY <2>1, RemoveCloses, SendToCloses DEF Good, Closes, Wanes, Settles
<1>6. m.type \in {"JOIN", "READY", "REPLAY", "SUBMIT", "TITLE", "VOTE", "BAD_JOIN", "OTHER"}
    BY DEF Message
<1> QED
    BY <1>1, <1>2, <1>3, <1>4, <1>5, <1>6

LEMMA ShutdownStep ==
    ASSUME ServerInv, [Next]_vars, server'.shutdown, ~server.shutdown
    PROVE  Hopeless(server'.game) \/ \E c \in Slot : LateYes(c)
<1>1. CASE Accept \/ Stop \/ PendingComesDue \/ DeadlineComesDue \/ UNCHANGED vars
  <2>1. server'.shutdown = server.shutdown
    BY <1>1 DEF Accept, Stop, PendingComesDue, DeadlineComesDue, vars,
                ServerInv, Good, Sane, Held, ServerState
  <2> QED
    BY <2>1
<1>2. CASE Idle
    BY <1>2, TimersClose DEF Idle, ServerInv, Closes
<1>3. ASSUME NEW c \in Slot, HangUp(c) PROVE Hopeless(server'.game)
    BY <1>3, RemoveCloses DEF HangUp, ServerInv, Good, Closes
<1>4. ASSUME NEW c \in Slot, GoBad(c) PROVE FALSE
    BY <1>4 DEF GoBad, ServerInv, Good, Sane, Held, ServerState
<1>5. ASSUME NEW c \in Slot, NEW m \in Message, Line(c, m),
             ~Hopeless(server'.game)
      PROVE  LateYes(c)
  <2>1. PICK u \in RunTimers(server) : server' \in Dispatch(u, c, m)
    BY <1>5 DEF Line, HandleLine, Then
  <2>2. Good(u) /\ Closes(server, u)
    BY <2>1, TimersGood, TimersClose DEF ServerInv
  <2>3. Relents(u, c, m)
    BY <1>5, <2>1, <2>2, DispatchEnds DEF Settles, Closes
  <2>4. PICK p \in Refused(u.game) : u.cid[c] # 0 /\ u.game.pid[p] = u.cid[c]
    BY <2>3 DEF Relents
  <2>5. p \in Slot
    BY <2>2 DEF Good, Sane, Held, Fits, Safe, GameState, Refused
  <2>6. p \in Refused(g0) /\ g0.pid[p] = server.cid[c]
    BY <2>2, <2>4, <2>5 DEF Closes, Wanes, g0
  <2> QED
    BY <1>5, <2>3, <2>6 DEF Relents, LateYes
<1> QED
    BY <1>1, <1>2, <1>3, <1>4, <1>5 DEF Next

\* Through every timer, removal and failed send, the server stops only when
\* those who may still want another match have become too few, or in the very
\* step in which somebody takes a refusal back.
THEOREM ShutdownAlwaysJustified == Spec => ShutdownJustified
<1>1. ServerInv /\ [Next]_vars =>
        [server'.shutdown /\ ~server.shutdown =>
           Hopeless(server'.game) \/ \E c \in Slot : LateYes(c)]_vars
    BY ShutdownStep
<1> QED
    BY <1>1, ServerHolds, PTL DEF Spec, ShutdownJustified
=============================================================================
