----------------------------- MODULE GameLemmas -----------------------------
(***************************************************************************)
(* What the operations of round.c and game.c return and preserve, for any  *)
(* number of players and rounds.  GameInv is the game's part of the        *)
(* inductive invariants: Members keeps the round and the player table      *)
(* together, Dealt says that from the titles on every member has answered  *)
(* and holds an entry of another one.  OnTime is about the deadlines and   *)
(* the answers still missing, SeatInv about who sits where, ScoreInv about *)
(* level starts and counted votes.                                         *)
(***************************************************************************)
EXTENDS Game, FiniteSetTheorems, WellFoundedInduction, TLAPS

----------------------------------------------------------------------------
(* Counting. *)

\* A set of numbers that holds 0 and every member's successor holds them all.
LEMMA CountUp ==
    ASSUME NEW T \in SUBSET Nat, 0 \in T, \A n \in T : n + 1 \in T
    PROVE  T = Nat
<1> SUFFICES ASSUME T # Nat PROVE FALSE
    OBVIOUS
<1> DEFINE R == OpToRel(<, Nat)
           U == Nat \ T
<1>1. IsWellFoundedOn(R, Nat) /\ U \subseteq Nat /\ U # {}
    BY NatLessThanWellFounded
<1>2. PICK n \in U : \A m \in U : <<m, n>> \notin R
  <2> HIDE DEF R, U
  <2> QED
    BY <1>1, WFMin
<1>3. n # 0 /\ n - 1 \in Nat
    OBVIOUS
<1>4. <<n - 1, n>> \in R
    BY <1>3 DEF OpToRel
<1>5. n - 1 \in T
    BY <1>2, <1>3, <1>4
<1>6. (n - 1) + 1 \in T
    BY <1>5
<1> QED
    BY <1>3, <1>6

\* A set of slots is finite, and its size is a number.
LEMMA SlotsFinite ==
    ASSUME NEW S \in SUBSET Slot
    PROVE  IsFiniteSet(S) /\ Cardinality(S) \in Nat
<1>1. IsFiniteSet(Slot)
    BY FS_Interval, MaxPlayersAssumption DEF Slot
<1>2. IsFiniteSet(S)
    BY <1>1, FS_Subset
<1> QED
    BY <1>2, FS_CardinalityType

\* No slot is the 0 that stands for none.
LEMMA NoSlotIsNone == NoSlot \notin Slot
    BY MaxPlayersAssumption DEF Slot, NoSlot

----------------------------------------------------------------------------
(* Types. *)

LEMMA RoundResetType == RoundReset \in RoundState
    BY DEF RoundReset, RoundState, Timer

LEMMA RoundBeginType ==
    ASSUME NEW S \in SUBSET Slot
    PROVE  RoundBegin(S) \in RoundState
<1>1. Cardinality(S) \in Nat
    BY SlotsFinite
<1> QED
    BY <1>1 DEF RoundBegin, RoundReset, RoundState, Timer

LEMMA DeactivateType ==
    ASSUME NEW r \in RoundState, NEW p \in Slot
    PROVE  Deactivate(r, p) \in RoundState
<1>1. [r.target EXCEPT ![p] = NoSlot] \in [Slot -> Slot \cup {NoSlot}]
    BY DEF RoundState
<1>2. (IF r.participants > 0 THEN r.participants - 1 ELSE 0) \in Nat
    BY DEF RoundState
<1> QED
    BY <1>1, <1>2 DEF Deactivate, RoundState

LEMMA AnswerTypes ==
    ASSUME NEW r \in RoundState, NEW p \in Slot
    PROVE  /\ AssignPrompts(r) \in RoundState
           /\ RecordSubmission(r, p) \in RoundState
           /\ ApplyMissingFallbacks(r) \in RoundState
           /\ RecordRewrite(r, p) \in RoundState
           /\ ApplyMissingRewrites(r) \in RoundState
<1>1. AssignPrompts(r) \in RoundState
    BY DEF AssignPrompts, RoundState
<1>2. RecordSubmission(r, p) \in RoundState
    BY DEF RecordSubmission, RoundState
<1>3. ApplyMissingFallbacks(r) \in RoundState
    BY DEF ApplyMissingFallbacks, RoundState
<1>4. RecordRewrite(r, p) \in RoundState
    BY DEF RecordRewrite, RoundState
<1>5. ApplyMissingRewrites(r) \in RoundState
    BY DEF ApplyMissingRewrites, RoundState
<1> QED
    BY <1>1, <1>2, <1>3, <1>4, <1>5

LEMMA VoteTypes ==
    ASSUME NEW r \in RoundState, NEW v \in Slot, NEW o \in Slot
    PROVE  /\ PrepareVoting(r) \in RoundState
           /\ RecordVote(r, v, o) \in RoundState
           /\ ApplyMissingVotes(r) \in RoundState
<1>1. PrepareVoting(r) \in RoundState
    BY DEF PrepareVoting, RoundState
<1>2. RecordVote(r, v, o) \in RoundState
  <2>1. [r.votedFor EXCEPT ![v] = o] \in [Slot -> Slot \cup {NoSlot}]
    BY DEF RoundState
  <2>2. [r.totals EXCEPT ![o] = r.totals[o] + 1] \in [Slot -> Nat]
    BY DEF RoundState
  <2> QED
    BY <2>1, <2>2 DEF RecordVote, RoundState
<1>3. ApplyMissingVotes(r) \in RoundState
    BY DEF ApplyMissingVotes, RoundState
<1> QED
    BY <1>1, <1>2, <1>3

----------------------------------------------------------------------------
(* The ring of titles. *)

LEMMA ShufflesExist ==
    ASSUME NEW S \in SUBSET Slot
    PROVE  Shuffles(S) # {}
<1>1. IsFiniteSet(S)
    BY SlotsFinite
<1> QED
    BY <1>1, FS_CardinalityType DEF Shuffles, ExistsBijection

\* In a shuffled ring of two or more nobody comes after itself, and different
\* players come before different ones.
LEMMA RingNext ==
    ASSUME NEW S \in SUBSET Slot, NEW s \in Shuffles(S),
           NEW n, n = Cardinality(S), n >= 2
    PROVE  /\ \A p \in S : NextIn(s, n, p) \in S \ {p}
           /\ \A p, q \in S : NextIn(s, n, p) = NextIn(s, n, q) => p = q
<1> DEFINE at(p) == CHOOSE k \in 1 .. n : s[k] = p
           next(i) == IF i = n THEN 1 ELSE i + 1
<1>1. n \in Nat
    BY SlotsFinite
<1>2. /\ s \in [1 .. n -> S]
      /\ \A i, j \in 1 .. n : s[i] = s[j] => i = j
      /\ \A p \in S : \E i \in 1 .. n : s[i] = p
    BY DEF Shuffles, Bijection, Injection, Surjection, IsInjective
<1>3. \A p \in S : at(p) \in 1 .. n /\ s[at(p)] = p
    BY <1>2
<1>4. \A p \in S : NextIn(s, n, p) = s[next(at(p))]
    BY DEF NextIn
<1> HIDE DEF at
<1>5. \A i \in 1 .. n : next(i) \in 1 .. n /\ next(i) # i
    BY <1>1
<1>6. \A i, j \in 1 .. n : next(i) = next(j) => i = j
    BY <1>1
<1> HIDE DEF next
<1>7. \A p \in S : NextIn(s, n, p) \in S \ {p}
  <2> TAKE p \in S
  <2>1. at(p) \in 1 .. n /\ next(at(p)) \in 1 .. n /\ next(at(p)) # at(p)
    BY <1>3, <1>5
  <2>2. s[next(at(p))] # s[at(p)]
    BY <2>1, <1>2
  <2>3. s[next(at(p))] \in S
    BY <2>1, <1>2
  <2> QED
    BY <2>2, <2>3, <1>3, <1>4
<1>8. \A p, q \in S : NextIn(s, n, p) = NextIn(s, n, q) => p = q
  <2> TAKE p, q \in S
  <2> HAVE NextIn(s, n, p) = NextIn(s, n, q)
  <2>1. s[next(at(p))] = s[next(at(q))]
    BY <1>4
  <2>2. at(p) \in 1 .. n /\ at(q) \in 1 .. n
    BY <1>3
  <2>3. next(at(p)) = next(at(q))
    BY <2>1, <2>2, <1>2, <1>5
  <2>4. at(p) = at(q)
    BY <2>2, <2>3, <1>6
  <2> QED
    BY <2>4, <1>3
<1> QED
    BY <1>7, <1>8

\* What dealing the titles leaves: every player with an answer holds the entry
\* of another one, and nobody else holds the same.
LEMMA TargetsDealt ==
    ASSUME NEW r \in RoundState, NEW dealt \in AssignRewriteTargets(r)
    PROVE  /\ dealt \in RoundState
           /\ dealt.on = r.on /\ dealt.active = r.active
           /\ dealt.participants = r.participants
           /\ dealt.submitted = r.submitted
           /\ dealt.deadline = r.deadline
           /\ dealt.rewritten = r.rewritten \ (r.active \cap r.submitted)
           /\ \A p \in r.active \cap r.submitted :
                /\ dealt.target[p] \in (r.active \cap r.submitted) \ {p}
                /\ \A q \in r.active \cap r.submitted :
                     dealt.target[p] = dealt.target[q] => p = q
<1> DEFINE S == r.active \cap r.submitted
           n == Cardinality(S)
           ring(s) == [p \in Slot |-> IF p \in S THEN NextIn(s, n, p)
                                      ELSE r.target[p]]
<1>1. PICK s \in Shuffles(S) :
        /\ n >= 2
        /\ dealt = [r EXCEPT !.rewritten = @ \ S, !.target = ring(s)]
    BY DEF AssignRewriteTargets
<1>2. S \in SUBSET Slot /\ n = Cardinality(S) /\ s \in Shuffles(S) /\ n >= 2
    BY <1>1 DEF RoundState
<1>3. /\ \A p \in S : NextIn(s, n, p) \in S \ {p}
      /\ \A p, q \in S : NextIn(s, n, p) = NextIn(s, n, q) => p = q
  <2> HIDE DEF S, n
  <2> QED
    BY <1>2, RingNext
<1>4. ring(s) \in [Slot -> Slot \cup {NoSlot}]
    BY <1>2, <1>3 DEF RoundState
<1>5. \A p \in S : ring(s)[p] = NextIn(s, n, p)
    BY <1>2
<1> HIDE DEF ring, n
<1>6. dealt \in RoundState
    BY <1>1, <1>4 DEF RoundState
<1>7. /\ dealt.on = r.on /\ dealt.active = r.active
      /\ dealt.participants = r.participants
      /\ dealt.submitted = r.submitted
      /\ dealt.deadline = r.deadline
      /\ dealt.rewritten = r.rewritten \ S
      /\ dealt.target = ring(s)
    BY <1>1 DEF RoundState
<1> QED
    BY <1>3, <1>5, <1>6, <1>7

\* Two answers are enough to deal the titles.
LEMMA TargetsCanBeDealt ==
    ASSUME NEW r \in RoundState, r.on, r.participants >= 2,
           Cardinality(r.active \cap r.submitted) >= 2
    PROVE  AssignRewriteTargets(r) # {}
<1>1. r.active \cap r.submitted \in SUBSET Slot
    BY DEF RoundState
<1>2. PICK s : s \in Shuffles(r.active \cap r.submitted)
    BY <1>1, ShufflesExist
<1> QED
    BY <1>2 DEF AssignRewriteTargets

----------------------------------------------------------------------------
(* The invariant. *)

Members(g) ==
    /\ g.round.on
    /\ g.round.active = Joined(g)
    /\ g.round.participants = Cardinality(g.round.active)
    /\ g.round.participants >= MinPlayers

Dealt(r) ==
    /\ r.active \subseteq r.submitted
    /\ \A p \in r.active :
         /\ r.target[p] \in r.submitted \ {p}
         /\ \A q \in r.active : r.target[p] = r.target[q] => p = q

GameInv(g) ==
    /\ g \in GameState
    /\ g.phase = "LOBBY" => g.roundNumber = 0
    /\ g.phase \in InGame => Members(g)
    /\ g.phase \in {"REWRITE", "VOTING", "RESULTS"} => Dealt(g.round)

----------------------------------------------------------------------------
(* Slots and players. *)

LEMMA FirstSlotType ==
    ASSUME NEW S \in SUBSET Slot
    PROVE  /\ FirstSlot(S) \in S \cup {NoSlot}
           /\ FirstSlot(S) # NoSlot => FirstSlot(S) \in S
    BY DEF FirstSlot

LEMMA FirstSlotExists ==
    ASSUME NEW S \in SUBSET Slot, S # {}
    PROVE  FirstSlot(S) \in S
<1> DEFINE R == OpToRel(<, Nat)
<1>1. IsWellFoundedOn(R, Nat) /\ S \subseteq Nat
  <2>1. IsWellFoundedOn(R, Nat)
    BY NatLessThanWellFounded
  <2>2. S \subseteq Nat
    BY DEF Slot
  <2> QED
    BY <2>1, <2>2
<1>2. PICK p \in S : \A q \in S : <<q, p>> \notin R
  <2> HIDE DEF R
  <2> QED
    BY <1>1, WFMin
<1>3. \A q \in S : p <= q
  <2> TAKE q \in S
  <2>1. p \in Nat /\ q \in Nat /\ ~(q < p)
    BY <1>1, <1>2 DEF OpToRel
  <2> QED
    BY <2>1
<1> QED
    BY <1>3 DEF FirstSlot

LEMMA SlotOfType ==
    ASSUME NEW g \in GameState, NEW id
    PROVE  /\ SlotOf(g, id) \in Slot \cup {NoSlot}
           /\ SlotOf(g, id) # NoSlot => SlotOf(g, id) \in Slot
    BY FirstSlotType DEF SlotOf

LEMMA IsPlayerSlot ==
    ASSUME NEW g \in GameState, NEW id, IsPlayer(g, id)
    PROVE  SlotOf(g, id) \in Slot
    BY DEF IsPlayer, GameState

LEMMA JoinedFinite ==
    ASSUME NEW g \in GameState
    PROVE  Joined(g) \in SUBSET Slot /\ JoinedCount(g) \in Nat
    BY SlotsFinite DEF Joined, JoinedCount, GameState

----------------------------------------------------------------------------
(* Updates. *)

LEMMA GameResetInv == GameInv(GameReset)
<1>1. GameReset \in GameState
    BY RoundResetType DEF GameReset, GameState, Phase
<1> QED
    BY <1>1 DEF GameInv, GameReset, InGame

\* The round may be written to as long as its members, their targets and the
\* answers in it stay.
LEMMA RoundUpdate ==
    ASSUME NEW g, GameInv(g), NEW r \in RoundState,
           r.on = g.round.on, r.active = g.round.active,
           r.participants = g.round.participants,
           r.target = g.round.target,
           g.round.submitted \subseteq r.submitted
    PROVE  /\ GameInv([g EXCEPT !.round = r])
           /\ [g EXCEPT !.round = r].phase = g.phase
           /\ [g EXCEPT !.round = r].roundNumber = g.roundNumber
<1> DEFINE h == [g EXCEPT !.round = r]
<1>1. g \in GameState /\ g.round \in RoundState
    BY DEF GameInv, GameState
<1>2. h \in GameState /\ h.round = r /\ h.phase = g.phase
        /\ h.roundNumber = g.roundNumber
        /\ h.joined = g.joined /\ h.connected = g.connected
    BY <1>1 DEF GameState
<1> HIDE DEF h
<1>3. h.phase \in InGame => Members(h)
    BY <1>2 DEF GameInv, Members, Joined
<1>4. h.phase \in {"REWRITE", "VOTING", "RESULTS"} => Dealt(h.round)
    BY <1>2 DEF GameInv, Dealt
<1>5. GameInv(h) /\ h.phase = g.phase /\ h.roundNumber = g.roundNumber
    BY <1>2, <1>3, <1>4 DEF GameInv
<1> QED
    BY <1>5 DEF h

\* A running match moves on to a later phase of the round once the titles
\* are dealt, whatever happens to the scores.
LEMMA PhaseUpdate ==
    ASSUME NEW g, g \in GameState, Members(g), Dealt(g.round),
           NEW ph \in {"REWRITE", "VOTING", "RESULTS"},
           NEW sc \in [Slot -> Nat]
    PROVE  GameInv([g EXCEPT !.phase = ph, !.score = sc])
<1> DEFINE h == [g EXCEPT !.phase = ph, !.score = sc]
<1>1. h \in GameState /\ h.round = g.round /\ h.phase = ph
        /\ h.joined = g.joined /\ h.connected = g.connected
    BY DEF GameState, Phase
<1> HIDE DEF h
<1>2. Members(h) /\ Dealt(h.round)
    BY <1>1 DEF Members, Joined
<1>3. GameInv(h)
    BY <1>1, <1>2 DEF GameInv
<1> QED
    BY <1>3 DEF h

LEMMA EndGameInv ==
    ASSUME NEW g \in GameState
    PROVE  /\ GameInv(EndGame(g))
           /\ EndGame(g).phase = "OVER"
           /\ EndGame(g).roundNumber = g.roundNumber
    BY DEF EndGame, GameInv, GameState, Phase, InGame

LEMMA SetDeadlineInv ==
    ASSUME NEW g, GameInv(g), NEW w \in Window, NEW t \in Timer
    PROVE  /\ GameInv(SetDeadline(g, w, t))
           /\ SetDeadline(g, w, t).phase = g.phase
           /\ SetDeadline(g, w, t).roundNumber = g.roundNumber
           /\ SetDeadline(g, w, t).round.submitted = g.round.submitted
           /\ SetDeadline(g, w, t).round.active = g.round.active
<1> DEFINE r == [g.round EXCEPT !.deadline = [@ EXCEPT ![w] = t]]
<1>1. g \in GameState /\ g.round \in RoundState
    BY DEF GameInv, GameState
<1>2. [g.round.deadline EXCEPT ![w] = t] \in [Window -> Timer]
    BY <1>1 DEF RoundState
<1>3. r \in RoundState
    BY <1>1, <1>2 DEF RoundState
<1>4. /\ r.on = g.round.on /\ r.active = g.round.active
      /\ r.participants = g.round.participants
      /\ r.target = g.round.target /\ r.submitted = g.round.submitted
    BY <1>1 DEF RoundState
<1>5. SetDeadline(g, w, t) = [g EXCEPT !.round = r]
    BY <1>1 DEF SetDeadline, GameState, RoundState
<1>6. [g EXCEPT !.round = r].round = r
    BY <1>1 DEF GameState
<1> HIDE DEF r
<1> QED
    BY <1>3, <1>4, <1>5, <1>6, RoundUpdate

----------------------------------------------------------------------------
(* Operations within a phase. *)

Keeps(g, h) ==
    GameInv(h) /\ h.phase = g.phase /\ h.roundNumber = g.roundNumber

LEMMA JoinKeeps ==
    ASSUME NEW g, GameInv(g), NEW id \in Nat, NEW n \in Name,
           JoinResult(g, id, n) = "ok"
    PROVE  Keeps(g, HandleJoin(g, id, n))
<1> DEFINE p == JoinSlot(g, id)
           h == HandleJoin(g, id, n)
<1>1. g \in GameState /\ g.phase = "LOBBY"
    BY DEF GameInv, JoinResult
<1>2. p \in Slot
    BY <1>1, SlotOfType, FirstSlotType DEF JoinSlot, JoinResult
<1>3. /\ [g.pid EXCEPT ![p] = id] \in [Slot -> Nat]
      /\ [g.name EXCEPT ![p] = n] \in [Slot -> Name \cup {NoName}]
      /\ [g.score EXCEPT ![p] = 0] \in [Slot -> Nat]
    BY <1>1 DEF GameState
<1> HIDE DEF p
<1>4. h = [g EXCEPT !.pid = [@ EXCEPT ![p] = id],
                    !.name = [@ EXCEPT ![p] = n],
                    !.score = [@ EXCEPT ![p] = 0],
                    !.connected = @ \cup {p},
                    !.joined = @ \cup {p},
                    !.ready = @ \ {p},
                    !.decided = @ \ {p},
                    !.wants = @ \ {p}]
    BY DEF HandleJoin, p
<1> HIDE DEF h
<1>5. h \in GameState /\ h.phase = g.phase /\ h.roundNumber = g.roundNumber
    BY <1>1, <1>2, <1>3, <1>4 DEF GameState
<1>6. Keeps(g, h)
    BY <1>1, <1>5 DEF GameInv, Keeps, InGame
<1> QED
    BY <1>6 DEF h

LEMMA ReadyKeeps ==
    ASSUME NEW g, GameInv(g), NEW id
    PROVE  /\ Keeps(g, HandleReady(g, id))
           /\ Joined(HandleReady(g, id)) = Joined(g)
<1>1. g \in GameState
    BY DEF GameInv
<1>2. CASE CanReady(g, id)
  <2>1. SlotOf(g, id) \in Slot /\ g.phase = "LOBBY"
    BY <1>1, <1>2, IsPlayerSlot DEF CanReady
  <2> DEFINE h == [g EXCEPT !.ready = @ \cup {SlotOf(g, id)}]
  <2>2. h \in GameState /\ h.phase = g.phase /\ h.roundNumber = g.roundNumber
        /\ h.joined = g.joined /\ h.connected = g.connected
    BY <1>1, <2>1 DEF GameState
  <2>3. HandleReady(g, id) = h
    BY <1>2 DEF HandleReady
  <2> HIDE DEF h
  <2> QED
    BY <2>1, <2>2, <2>3 DEF Keeps, GameInv, Joined, InGame
<1>3. CASE ~CanReady(g, id)
    BY <1>3 DEF HandleReady, Keeps
<1> QED
    BY <1>2, <1>3

LEMMA SubmitKeeps ==
    ASSUME NEW g, GameInv(g), NEW id
    PROVE  Keeps(g, HandleSubmit(g, id))
<1> DEFINE p == SlotOf(g, id)
           r == RecordSubmission(g.round, p)
<1>1. g \in GameState /\ g.round \in RoundState
    BY DEF GameInv, GameState
<1>2. CASE IsPlayer(g, id)
  <2>1. p \in Slot
    BY <1>1, <1>2, IsPlayerSlot
  <2>2. r \in RoundState
    BY <1>1, <2>1, AnswerTypes
  <2>3. /\ r.on = g.round.on /\ r.active = g.round.active
        /\ r.participants = g.round.participants
        /\ r.target = g.round.target
        /\ g.round.submitted \subseteq r.submitted
    BY <1>1 DEF RecordSubmission, RoundState
  <2> HIDE DEF r
  <2>4. Keeps(g, [g EXCEPT !.round = r])
    BY <2>2, <2>3, RoundUpdate DEF Keeps
  <2> QED
    BY <2>4 DEF HandleSubmit, Keeps, r
<1>3. CASE ~IsPlayer(g, id)
    BY <1>3 DEF HandleSubmit, Keeps
<1> QED
    BY <1>2, <1>3

LEMMA RewriteKeeps ==
    ASSUME NEW g, GameInv(g), NEW id
    PROVE  Keeps(g, HandleRewrite(g, id))
<1> DEFINE p == SlotOf(g, id)
           r == RecordRewrite(g.round, p)
<1>1. g \in GameState /\ g.round \in RoundState
    BY DEF GameInv, GameState
<1>2. CASE IsPlayer(g, id)
  <2>1. p \in Slot
    BY <1>1, <1>2, IsPlayerSlot
  <2>2. r \in RoundState
    BY <1>1, <2>1, AnswerTypes
  <2>3. /\ r.on = g.round.on /\ r.active = g.round.active
        /\ r.participants = g.round.participants
        /\ r.target = g.round.target
        /\ g.round.submitted \subseteq r.submitted
    BY <1>1 DEF RecordRewrite, RoundState
  <2> HIDE DEF r
  <2>4. Keeps(g, [g EXCEPT !.round = r])
    BY <2>2, <2>3, RoundUpdate DEF Keeps
  <2> QED
    BY <2>4 DEF HandleRewrite, Keeps, r
<1>3. CASE ~IsPlayer(g, id)
    BY <1>3 DEF HandleRewrite, Keeps
<1> QED
    BY <1>2, <1>3

LEMMA VoteKeeps ==
    ASSUME NEW g, GameInv(g), NEW id, NEW targetId
    PROVE  Keeps(g, HandleVote(g, id, targetId))
<1> DEFINE v == SlotOf(g, id)
           o == SlotOf(g, targetId)
           r == RecordVote(g.round, v, o)
<1>1. g \in GameState /\ g.round \in RoundState
    BY DEF GameInv, GameState
<1>2. CASE VoteAccepted(g, id, targetId)
  <2>1. v \in Slot /\ o \in Slot
    BY <1>1, <1>2, IsPlayerSlot DEF VoteAccepted, GameState
  <2>2. r \in RoundState
    BY <1>1, <2>1, VoteTypes
  <2>3. /\ r.on = g.round.on /\ r.active = g.round.active
        /\ r.participants = g.round.participants
        /\ r.target = g.round.target
        /\ g.round.submitted \subseteq r.submitted
    BY <1>1 DEF RecordVote, RoundState
  <2>4. HandleVote(g, id, targetId) = [g EXCEPT !.round = r]
    BY <1>2 DEF HandleVote
  <2> HIDE DEF r
  <2>5. Keeps(g, [g EXCEPT !.round = r])
    BY <2>2, <2>3, RoundUpdate DEF Keeps
  <2> QED
    BY <2>4, <2>5
<1>3. CASE ~VoteAccepted(g, id, targetId)
    BY <1>3 DEF HandleVote, Keeps
<1> QED
    BY <1>2, <1>3

LEMMA StartWindowKeeps ==
    ASSUME NEW g, GameInv(g), NEW w \in Window
    PROVE  Keeps(g, StartWindow(g, w))
    BY SetDeadlineInv DEF StartWindow, Keeps, Timer

LEMMA FillMissingKeeps ==
    ASSUME NEW g, GameInv(g), g.phase \in Window
    PROVE  Keeps(g, FillMissing(g))
<1>1. g \in GameState /\ g.round \in RoundState
    BY DEF GameInv, GameState
<1>2. CASE g.phase = "PROMPT"
  <2> DEFINE r == ApplyMissingFallbacks(g.round)
  <2>1. r \in RoundState
    BY <1>1 DEF ApplyMissingFallbacks, RoundState
  <2>2. /\ r.on = g.round.on /\ r.active = g.round.active
        /\ r.participants = g.round.participants
        /\ r.target = g.round.target
        /\ g.round.submitted \subseteq r.submitted
    BY <1>1 DEF ApplyMissingFallbacks, RoundState
  <2>3. FillMissing(g) = [g EXCEPT !.round = r]
    BY <1>2 DEF FillMissing
  <2> HIDE DEF r
  <2> QED
    BY <2>1, <2>2, <2>3, RoundUpdate DEF Keeps
<1>3. CASE g.phase = "REWRITE"
  <2> DEFINE r == ApplyMissingRewrites(g.round)
  <2>1. r \in RoundState
    BY <1>1 DEF ApplyMissingRewrites, RoundState
  <2>2. /\ r.on = g.round.on /\ r.active = g.round.active
        /\ r.participants = g.round.participants
        /\ r.target = g.round.target
        /\ g.round.submitted \subseteq r.submitted
    BY <1>1 DEF ApplyMissingRewrites, RoundState
  <2>3. FillMissing(g) = [g EXCEPT !.round = r]
    BY <1>3 DEF FillMissing
  <2> HIDE DEF r
  <2> QED
    BY <2>1, <2>2, <2>3, RoundUpdate DEF Keeps
<1>4. CASE g.phase = "VOTING"
  <2> DEFINE r == ApplyMissingVotes(g.round)
  <2>1. r \in RoundState
    BY <1>1 DEF ApplyMissingVotes, RoundState
  <2>2. /\ r.on = g.round.on /\ r.active = g.round.active
        /\ r.participants = g.round.participants
        /\ r.target = g.round.target
        /\ g.round.submitted \subseteq r.submitted
    BY <1>1 DEF ApplyMissingVotes, RoundState
  <2>3. FillMissing(g) = [g EXCEPT !.round = r]
    BY <1>4 DEF FillMissing
  <2> HIDE DEF r
  <2> QED
    BY <2>1, <2>2, <2>3, RoundUpdate DEF Keeps
<1> QED
    BY <1>2, <1>3, <1>4 DEF Window

----------------------------------------------------------------------------
(* Moving on. *)

\* One phase at most, to its successor.
Moves(g, h) ==
    /\ GameInv(h)
    /\ h.roundNumber = g.roundNumber
    /\ \/ h.phase = g.phase
       \/ g.phase = "PROMPT" /\ h.phase = "REWRITE"
       \/ g.phase = "REWRITE" /\ h.phase = "VOTING"
       \/ g.phase = "VOTING" /\ h.phase = "RESULTS"

\* Once every answer is in there are enough of them to deal the titles: a
\* match never skips them.
LEMMA PromptMoves ==
    ASSUME NEW g, GameInv(g), g.phase = "PROMPT",
           g.round.active \subseteq g.round.submitted,
           NEW h \in AdvanceFromPrompt(g)
    PROVE  GameInv(h) /\ h.phase = "REWRITE" /\ h.roundNumber = g.roundNumber
<1>1. g \in GameState /\ g.round \in RoundState /\ Members(g)
    BY DEF GameInv, GameState, InGame, Phase
<1>2. g.round.active \cap g.round.submitted = g.round.active
    OBVIOUS
<1>3. /\ g.round.participants >= 2
      /\ Cardinality(g.round.active \cap g.round.submitted) >= 2
  <2>1. g.round.participants \in Nat
    BY <1>1 DEF RoundState
  <2>2. g.round.participants >= MinPlayers
    BY <1>1 DEF Members
  <2>3. g.round.participants >= 2
    BY <2>1, <2>2, MinPlayersAssumption
  <2>4. Cardinality(g.round.active \cap g.round.submitted) = g.round.participants
    BY <1>1, <1>2 DEF Members
  <2> QED
    BY <2>3, <2>4
<1>4. AssignRewriteTargets(g.round) # {}
    BY <1>1, <1>3, TargetsCanBeDealt DEF Members
<1>5. PICK r \in AssignRewriteTargets(g.round) :
        h = SetDeadline([g EXCEPT !.round = r, !.phase = "REWRITE"],
                        "REWRITE", "off")
    BY <1>4 DEF AdvanceFromPrompt
<1>6. /\ r \in RoundState
      /\ r.on = g.round.on /\ r.active = g.round.active
      /\ r.participants = g.round.participants
      /\ r.submitted = g.round.submitted
      /\ Dealt(r)
    BY <1>1, <1>2, TargetsDealt DEF Dealt
<1> DEFINE d == [g EXCEPT !.round = r, !.phase = "REWRITE"]
<1>7. /\ d \in GameState /\ d.round = r /\ d.phase = "REWRITE"
      /\ d.roundNumber = g.roundNumber
      /\ d.joined = g.joined /\ d.connected = g.connected
    BY <1>1, <1>6 DEF GameState, Phase
<1>8. h = SetDeadline(d, "REWRITE", "off")
    BY <1>5
<1> HIDE DEF d
<1>9. GameInv(d)
    BY <1>1, <1>6, <1>7 DEF GameInv, Members, Joined
<1> QED
    BY <1>7, <1>8, <1>9, SetDeadlineInv DEF Window, Timer

\* Every member has an entry in the reveal: a match never skips the vote.
LEMMA RewriteMoves ==
    ASSUME NEW g, GameInv(g), g.phase = "REWRITE"
    PROVE  LET h == AdvanceFromRewrite(g)
           IN  GameInv(h) /\ h.phase = "VOTING" /\ h.roundNumber = g.roundNumber
<1> DEFINE r == PrepareVoting(g.round)
           d == [g EXCEPT !.round = r, !.phase = "VOTING"]
<1>1. g \in GameState /\ g.round \in RoundState /\ Members(g) /\ Dealt(g.round)
    BY DEF GameInv, GameState, InGame, Phase
<1>2. CanPrepareVoting(g.round)
  <2>1. g.round.active \in SUBSET Slot /\ g.round.participants \in Nat
    BY <1>1 DEF RoundState
  <2>2. g.round.participants > 0
    BY <1>1, <2>1, MinPlayersAssumption DEF Members
  <2>3. g.round.active # {}
    BY <1>1, <2>2, FS_EmptySet DEF Members
  <2>4. g.round.active \cap g.round.submitted # {}
    BY <1>1, <2>3 DEF Dealt
  <2> QED
    BY <1>1, <2>2, <2>4 DEF CanPrepareVoting, Members
<1>3. r \in RoundState
    BY <1>1 DEF PrepareVoting, RoundState
<1>4. /\ r.on = g.round.on /\ r.active = g.round.active
      /\ r.participants = g.round.participants
      /\ r.submitted = g.round.submitted /\ r.target = g.round.target
    BY <1>1 DEF PrepareVoting, RoundState
<1>5. AdvanceFromRewrite(g) = SetDeadline(d, "VOTING", "off")
    BY <1>2 DEF AdvanceFromRewrite
<1> HIDE DEF r
<1>6. /\ d \in GameState /\ d.round = r /\ d.phase = "VOTING"
      /\ d.roundNumber = g.roundNumber
      /\ d.joined = g.joined /\ d.connected = g.connected
    BY <1>1, <1>3 DEF GameState, Phase
<1> HIDE DEF d
<1>7. Members(d) /\ Dealt(d.round)
  <2>1. Members(d)
    BY <1>1, <1>4, <1>6 DEF Members, Joined
  <2>2. Dealt(d.round)
    BY <1>1, <1>4, <1>6 DEF Dealt
  <2> QED
    BY <2>1, <2>2
<1>8. GameInv(d)
    BY <1>6, <1>7 DEF GameInv
<1> QED
    BY <1>5, <1>6, <1>8, SetDeadlineInv DEF Window, Timer

LEMMA RoundPayType ==
    ASSUME NEW r \in RoundState, NEW p \in Slot
    PROVE  RoundPay(r, p) \in Nat
<1>1. r.totals[p] * AnswerPoints \in Nat
    BY PointsAssumption DEF RoundState
<1>2. ASSUME r.target[p] \in r.reveal
      PROVE  r.totals[r.target[p]] * TitlePoints \in Nat
  <2>1. r.totals[r.target[p]] \in Nat
    BY <1>2 DEF RoundState
  <2> QED
    BY <2>1, PointsAssumption
<1> DEFINE a == IF p \in r.reveal THEN r.totals[p] * AnswerPoints ELSE 0
           b == IF r.target[p] \in r.reveal /\ TitleWriter(r, r.target[p]) = p
                THEN r.totals[r.target[p]] * TitlePoints
                ELSE 0
<1>3. a \in Nat /\ b \in Nat
    BY <1>1, <1>2
<1>4. RoundPay(r, p) = a + b
    BY DEF RoundPay
<1> HIDE DEF a, b
<1> QED
    BY <1>3, <1>4

LEMMA VotingMoves ==
    ASSUME NEW g, GameInv(g), g.phase = "VOTING"
    PROVE  LET h == AdvanceFromVoting(g)
           IN  GameInv(h) /\ h.phase = "RESULTS" /\ h.roundNumber = g.roundNumber
<1> DEFINE sc == [p \in Slot |-> g.score[p] + RoundPay(g.round, p)]
<1>1. g \in GameState /\ g.round \in RoundState /\ Members(g) /\ Dealt(g.round)
    BY DEF GameInv, GameState, InGame, Phase
<1>2. sc \in [Slot -> Nat]
  <2>1. \A p \in Slot : g.score[p] \in Nat /\ RoundPay(g.round, p) \in Nat
    BY <1>1, RoundPayType DEF GameState
  <2>2. \A p \in Slot : g.score[p] + RoundPay(g.round, p) \in Nat
    BY <2>1
  <2> QED
    BY <2>2
<1>3. AdvanceFromVoting(g) = [g EXCEPT !.phase = "RESULTS", !.score = sc]
    BY <1>1 DEF AdvanceFromVoting, ApplyRoundScores, GameState
<1> HIDE DEF sc
<1>4. [g EXCEPT !.phase = "RESULTS", !.score = sc].phase = "RESULTS"
      /\ [g EXCEPT !.phase = "RESULTS", !.score = sc].roundNumber = g.roundNumber
    BY <1>1 DEF GameState
<1>5. GameInv([g EXCEPT !.phase = "RESULTS", !.score = sc])
    BY <1>1, <1>2, PhaseUpdate
<1> QED
    BY <1>3, <1>4, <1>5

LEMMA AdvanceMoves ==
    ASSUME NEW g, GameInv(g), NEW h \in AdvancePhaseIfReady(g)
    PROVE  Moves(g, h)
<1>1. CASE g.phase = "PROMPT" /\ AllSubmitted(g.round)
  <2> DEFINE c == SetDeadline(g, "PROMPT", "off")
  <2>1. h \in AdvanceFromPrompt(c)
    BY <1>1 DEF AdvancePhaseIfReady
  <2>2. /\ GameInv(c) /\ c.phase = "PROMPT" /\ c.roundNumber = g.roundNumber
        /\ c.round.active \subseteq c.round.submitted
    BY <1>1, SetDeadlineInv DEF AllSubmitted, Window, Timer
  <2> HIDE DEF c
  <2> QED
    BY <1>1, <2>1, <2>2, PromptMoves DEF Moves
<1>2. CASE g.phase = "REWRITE" /\ AllRewritten(g.round)
  <2> DEFINE c == SetDeadline(g, "REWRITE", "off")
  <2>1. h = AdvanceFromRewrite(c)
    BY <1>2 DEF AdvancePhaseIfReady
  <2>2. GameInv(c) /\ c.phase = "REWRITE" /\ c.roundNumber = g.roundNumber
    BY <1>2, SetDeadlineInv DEF Window, Timer
  <2> HIDE DEF c
  <2> QED
    BY <1>2, <2>1, <2>2, RewriteMoves DEF Moves
<1>3. CASE g.phase = "VOTING" /\ AllVoted(g.round)
  <2> DEFINE c == SetDeadline(g, "VOTING", "off")
  <2>1. h = AdvanceFromVoting(c)
    BY <1>3 DEF AdvancePhaseIfReady
  <2>2. GameInv(c) /\ c.phase = "VOTING" /\ c.roundNumber = g.roundNumber
    BY <1>3, SetDeadlineInv DEF Window, Timer
  <2> HIDE DEF c
  <2> QED
    BY <1>3, <2>1, <2>2, VotingMoves DEF Moves
<1>4. CASE /\ ~(g.phase = "PROMPT" /\ AllSubmitted(g.round))
           /\ ~(g.phase = "REWRITE" /\ AllRewritten(g.round))
           /\ ~(g.phase = "VOTING" /\ AllVoted(g.round))
  <2>1. h = g
    BY <1>4 DEF AdvancePhaseIfReady
  <2> QED
    BY <2>1 DEF Moves
<1> QED
    BY <1>1, <1>2, <1>3, <1>4

\* A phase that is left is left for the next one.
LEMMA AdvanceChanges ==
    ASSUME NEW g, GameInv(g), NEW h \in AdvancePhaseIfReady(g)
    PROVE  \/ h = g
           \/ g.phase = "PROMPT" /\ h.phase = "REWRITE"
           \/ g.phase = "REWRITE" /\ h.phase = "VOTING"
           \/ g.phase = "VOTING" /\ h.phase = "RESULTS"
<1>1. CASE g.phase = "PROMPT" /\ AllSubmitted(g.round)
  <2> DEFINE c == SetDeadline(g, "PROMPT", "off")
  <2>1. h \in AdvanceFromPrompt(c)
    BY <1>1 DEF AdvancePhaseIfReady
  <2>2. /\ GameInv(c) /\ c.phase = "PROMPT"
        /\ c.round.active \subseteq c.round.submitted
    BY <1>1, SetDeadlineInv DEF AllSubmitted, Window, Timer
  <2> HIDE DEF c
  <2> QED
    BY <1>1, <2>1, <2>2, PromptMoves
<1>2. CASE g.phase = "REWRITE" /\ AllRewritten(g.round)
  <2> DEFINE c == SetDeadline(g, "REWRITE", "off")
  <2>1. h = AdvanceFromRewrite(c)
    BY <1>2 DEF AdvancePhaseIfReady
  <2>2. GameInv(c) /\ c.phase = "REWRITE"
    BY <1>2, SetDeadlineInv DEF Window, Timer
  <2> HIDE DEF c
  <2> QED
    BY <1>2, <2>1, <2>2, RewriteMoves
<1>3. CASE g.phase = "VOTING" /\ AllVoted(g.round)
  <2> DEFINE c == SetDeadline(g, "VOTING", "off")
  <2>1. h = AdvanceFromVoting(c)
    BY <1>3 DEF AdvancePhaseIfReady
  <2>2. GameInv(c) /\ c.phase = "VOTING"
    BY <1>3, SetDeadlineInv DEF Window, Timer
  <2> HIDE DEF c
  <2> QED
    BY <1>3, <2>1, <2>2, VotingMoves
<1>4. CASE /\ ~(g.phase = "PROMPT" /\ AllSubmitted(g.round))
           /\ ~(g.phase = "REWRITE" /\ AllRewritten(g.round))
           /\ ~(g.phase = "VOTING" /\ AllVoted(g.round))
    BY <1>4 DEF AdvancePhaseIfReady
<1> QED
    BY <1>1, <1>2, <1>3, <1>4

LEMMA TimeoutMoves ==
    ASSUME NEW g, GameInv(g), NEW h \in ApplyPhaseTimeout(g)
    PROVE  Moves(g, h)
<1>1. CASE PhaseDeadline(g) = "due"
  <2>1. g.phase \in Window
    BY <1>1 DEF PhaseDeadline
  <2> DEFINE c == SetDeadline(g, g.phase, "off")
             f == FillMissing(c)
  <2>2. Keeps(g, c)
    BY <2>1, SetDeadlineInv DEF Keeps, Timer
  <2>3. h \in AdvancePhaseIfReady(f)
    BY <1>1 DEF ApplyPhaseTimeout
  <2> HIDE DEF c
  <2>4. Keeps(c, f)
    BY <2>1, <2>2, FillMissingKeeps DEF Keeps
  <2> HIDE DEF f
  <2>5. Moves(f, h)
    BY <2>3, <2>4, AdvanceMoves DEF Keeps
  <2> QED
    BY <2>2, <2>4, <2>5 DEF Keeps, Moves
<1>2. CASE PhaseDeadline(g) # "due"
    BY <1>2 DEF ApplyPhaseTimeout, Moves
<1> QED
    BY <1>1, <1>2

----------------------------------------------------------------------------
(* Starting a round. *)

\* The next round opens, or the phase stays as it was; in the lobby the
\* invariant stays, too (in RESULTS the wiped round has no members left).
LEMMA BeginRoundOutcome ==
    ASSUME NEW g \in GameState, g.phase \in {"LOBBY", "RESULTS"},
           JoinedCount(g) >= MinPlayers, NEW h \in BeginRound(g)
    PROVE  /\ h \in GameState
           /\ \/ /\ h.phase = "PROMPT" /\ GameInv(h)
                 /\ h.roundNumber = g.roundNumber + 1
              \/ h.phase = g.phase /\ h.roundNumber = g.roundNumber
<1> DEFINE fresh == RoundBegin(Joined(g))
           r     == AssignPrompts(fresh)
           begun == [g EXCEPT !.round = r,
                              !.roundNumber = @ + 1,
                              !.phase = "PROMPT"]
           wiped == [g EXCEPT !.round = RoundReset]
<1>1. h = g \/ h = begun \/ h = wiped
    BY DEF BeginRound
<1>2. CASE h = g
    BY <1>2
<1>3. CASE h = wiped
  <2>1. wiped \in GameState /\ wiped.phase = g.phase
          /\ wiped.roundNumber = g.roundNumber
    BY RoundResetType DEF GameState
  <2> QED
    BY <1>3, <2>1
<1>4. CASE h = begun
  <2>1. Joined(g) \in SUBSET Slot
    BY JoinedFinite
  <2>2. fresh \in RoundState
    BY <2>1, RoundBeginType
  <2>3. /\ fresh.on /\ fresh.active = Joined(g)
        /\ fresh.participants = Cardinality(Joined(g))
    BY DEF RoundBegin, RoundReset
  <2> HIDE DEF fresh
  <2>4. r \in RoundState
    BY <2>2 DEF AssignPrompts, RoundState
  <2>5. /\ r.on /\ r.active = Joined(g)
        /\ r.participants = Cardinality(Joined(g))
    BY <2>2, <2>3 DEF AssignPrompts, RoundState
  <2> HIDE DEF r
  <2>6. /\ begun \in GameState /\ begun.round = r /\ begun.phase = "PROMPT"
        /\ begun.roundNumber = g.roundNumber + 1
        /\ begun.joined = g.joined /\ begun.connected = g.connected
    <3>1. g.roundNumber + 1 \in Nat
      BY DEF GameState
    <3> QED
      BY <2>4, <3>1 DEF GameState, Phase
  <2> HIDE DEF begun
  <2>7. Members(begun)
    BY <2>5, <2>6 DEF Members, Joined, JoinedCount
  <2>8. GameInv(begun)
    BY <2>6, <2>7 DEF GameInv
  <2> QED
    BY <1>4, <2>6, <2>8
<1> QED
    BY <1>1, <1>2, <1>3, <1>4

\* A start that succeeds opens round 1; one that fails stays in the lobby.
LEMMA StartOutcome ==
    ASSUME NEW g, GameInv(g), g.phase = "LOBBY", NEW h \in Start(g)
    PROVE  /\ GameInv(h)
           /\ \/ h.phase = "PROMPT" /\ h.roundNumber = 1
              \/ h.phase = "LOBBY" /\ h.roundNumber = 0
<1>1. g \in GameState /\ g.roundNumber = 0
    BY DEF GameInv
<1>2. CASE CanStart(g)
  <2>1. JoinedCount(g) >= MinPlayers /\ h \in BeginRound(g)
    BY <1>2 DEF CanStart, Start
  <2>2. /\ h \in GameState
        /\ \/ h.phase = "PROMPT" /\ GameInv(h) /\ h.roundNumber = 1
           \/ h.phase = "LOBBY" /\ h.roundNumber = 0
    BY <1>1, <2>1, BeginRoundOutcome
  <2> QED
    BY <2>2 DEF GameInv, InGame
<1>3. CASE ~CanStart(g)
    BY <1>1, <1>3 DEF Start
<1> QED
    BY <1>2, <1>3

\* A running match has players enough to go on.
LEMMA MembersEnough ==
    ASSUME NEW g, GameInv(g), g.phase \in InGame
    PROVE  JoinedCount(g) >= MinPlayers
    BY DEF GameInv, Members, JoinedCount

LEMMA FinishOutcome ==
    ASSUME NEW g \in GameState, g.phase = "RESULTS",
           JoinedCount(g) >= MinPlayers, NEW h \in FinishRound(g)
    PROVE  /\ h \in GameState
           /\ \/ h.phase = "OVER" /\ GameInv(h) /\ h.roundNumber = g.roundNumber
              \/ /\ h.phase = "PROMPT" /\ GameInv(h)
                 /\ g.roundNumber < TotalRounds
                 /\ h.roundNumber = g.roundNumber + 1
              \/ h.phase = "RESULTS" /\ h.roundNumber = g.roundNumber
<1>1. g.roundNumber \in Nat
    BY DEF GameState
<1>2. CASE IsFinalRound(g)
  <2>1. h = EndGame(g)
    BY <1>2 DEF FinishRound
  <2> QED
    BY <1>1, <2>1, EndGameInv DEF GameInv
<1>3. CASE ~IsFinalRound(g)
  <2>1. h \in BeginRound(g)
    BY <1>3 DEF FinishRound
  <2>2. g.roundNumber < TotalRounds
    BY <1>1, <1>3, RoundsAssumption DEF IsFinalRound
  <2> QED
    BY <1>1, <2>1, <2>2, BeginRoundOutcome
<1> QED
    BY <1>2, <1>3

----------------------------------------------------------------------------
(* Leaving and playing again. *)

\* What a leaver does to the round: one member less, the others' titles and
\* answers untouched.
LEMMA DeactivateKeeps ==
    ASSUME NEW r \in RoundState, NEW p \in Slot,
           r.participants = Cardinality(r.active)
    PROVE  LET d == Deactivate(r, p)
           IN  /\ d \in RoundState
               /\ d.on = r.on
               /\ d.active = r.active \ {p}
               /\ d.participants = Cardinality(d.active)
               /\ Dealt(r) => Dealt(d)
<1> DEFINE d == Deactivate(r, p)
<1>1. d \in RoundState /\ r.active \in SUBSET Slot
    BY DeactivateType DEF RoundState
<1>2. CASE p \notin r.active
  <2>1. d = r /\ r.active \ {p} = r.active
    BY <1>2 DEF Deactivate
  <2> QED
    BY <1>1, <2>1
<1>3. CASE p \in r.active
  <2>1. IsFiniteSet(r.active) /\ Cardinality(r.active) \in Nat
    BY <1>1, SlotsFinite
  <2>2. Cardinality(r.active \ {p}) = Cardinality(r.active) - 1
    BY <1>3, <2>1, FS_RemoveElement
  <2>3. Cardinality(r.active) > 0
    BY <1>3, <2>1, FS_EmptySet
  <2>4. /\ d.on = r.on /\ d.active = r.active \ {p}
        /\ d.participants = r.participants - 1
        /\ d.submitted = r.submitted
        /\ \A q \in Slot \ {p} : d.target[q] = r.target[q]
    BY <1>3, <2>1, <2>3 DEF Deactivate, RoundState
  <2> HIDE DEF d
  <2>5. d.participants = Cardinality(d.active)
    BY <2>2, <2>4
  <2>6. Dealt(r) => Dealt(d)
    BY <1>1, <2>4 DEF Dealt
  <2> QED
    BY <1>1, <2>4, <2>5, <2>6 DEF d
<1> QED
    BY <1>2, <1>3

\* A player leaves a match: the match goes on with enough players, or is over
\* at once.
LEMMA LeaveMatchOutcome ==
    ASSUME NEW g, GameInv(g), g.phase # "LOBBY", NEW p \in Slot
    PROVE  LET h == LeaveMatch(g, p)
           IN  /\ GameInv(h)
               /\ h.phase = g.phase \/ h.phase = "OVER"
               /\ h.roundNumber = g.roundNumber
<1> DEFINE r == IF g.round.on THEN Deactivate(g.round, p) ELSE g.round
           left == [g EXCEPT !.connected = @ \ {p},
                             !.ready = @ \ {p},
                             !.decided = @ \ {p},
                             !.wants = @ \ {p},
                             !.round = r]
<1>1. g \in GameState /\ g.round \in RoundState /\ g.phase \in Phase
    BY DEF GameInv, GameState
<1>2. r \in RoundState
    BY <1>1, DeactivateType
<1>3. LeaveMatch(g, p) = IF left.phase # "OVER" /\ JoinedCount(left) < MinPlayers
                         THEN EndGame(left) ELSE left
    BY DEF LeaveMatch
<1>4. g.phase \in InGame =>
        /\ r.on
        /\ r.active = g.round.active \ {p}
        /\ r.participants = Cardinality(r.active)
        /\ Dealt(g.round) => Dealt(r)
    BY <1>1, DeactivateKeeps DEF GameInv, Members
<1> HIDE DEF r
<1>5. /\ left \in GameState /\ left.phase = g.phase
      /\ left.roundNumber = g.roundNumber
      /\ left.round = r
      /\ left.joined = g.joined /\ left.connected = g.connected \ {p}
    BY <1>1, <1>2 DEF GameState
<1> HIDE DEF left
<1>6. CASE left.phase # "OVER" /\ JoinedCount(left) < MinPlayers
    BY <1>3, <1>5, <1>6, EndGameInv
<1>7. CASE left.phase = "OVER"
  <2>1. GameInv(left)
    BY <1>5, <1>7 DEF GameInv, InGame
  <2> QED
    BY <1>3, <1>5, <1>7, <2>1
<1>8. CASE left.phase # "OVER" /\ ~(JoinedCount(left) < MinPlayers)
  <2>1. g.phase \in InGame
    BY <1>1, <1>5, <1>8 DEF InGame
  <2>2. left.round.active = Joined(left)
    BY <1>4, <1>5, <2>1 DEF GameInv, Members, Joined
  <2>3. JoinedCount(left) >= MinPlayers
    BY <1>5, <1>8, JoinedFinite, MinPlayersAssumption
  <2>4. Members(left)
    BY <1>4, <1>5, <2>1, <2>2, <2>3 DEF Members, JoinedCount
  <2>5. left.phase \in {"REWRITE", "VOTING", "RESULTS"} => Dealt(left.round)
    BY <1>4, <1>5, <2>1 DEF GameInv
  <2>6. left.phase # "LOBBY"
    BY <1>5
  <2>7. GameInv(left)
    BY <1>5, <2>4, <2>5, <2>6 DEF GameInv
  <2> QED
    BY <1>3, <1>5, <1>8, <2>7
<1> QED
    BY <1>6, <1>7, <1>8

LEMMA ResetPlayerKeeps ==
    ASSUME NEW g, GameInv(g), g.phase = "LOBBY", NEW p \in Slot
    PROVE  Keeps(g, ResetPlayer(g, p))
<1> DEFINE h == [g EXCEPT !.pid = [@ EXCEPT ![p] = 0],
                          !.name = [@ EXCEPT ![p] = NoName],
                          !.score = [@ EXCEPT ![p] = 0],
                          !.connected = @ \ {p},
                          !.joined = @ \ {p},
                          !.ready = @ \ {p},
                          !.decided = @ \ {p},
                          !.wants = @ \ {p}]
<1>1. g \in GameState
    BY DEF GameInv
<1>2. /\ [g.pid EXCEPT ![p] = 0] \in [Slot -> Nat]
      /\ [g.name EXCEPT ![p] = NoName] \in [Slot -> Name \cup {NoName}]
      /\ [g.score EXCEPT ![p] = 0] \in [Slot -> Nat]
    BY <1>1 DEF GameState
<1>3. ResetPlayer(g, p) = h
    BY DEF ResetPlayer
<1>4. h \in GameState /\ h.phase = g.phase /\ h.roundNumber = g.roundNumber
    BY <1>1, <1>2 DEF GameState
<1> HIDE DEF h
<1> QED
    BY <1>3, <1>4 DEF GameInv, Keeps, InGame

LEMMA DisconnectOutcome ==
    ASSUME NEW g, GameInv(g), NEW id
    PROVE  LET h == HandleDisconnect(g, id)
           IN  /\ GameInv(h)
               /\ \/ h.phase = g.phase
                  \/ g.phase # "LOBBY" /\ h.phase = "OVER"
               /\ h.roundNumber = g.roundNumber
<1> DEFINE p == SlotOf(g, id)
<1>1. g \in GameState
    BY DEF GameInv
<1>2. CASE p = NoSlot
    BY <1>2 DEF HandleDisconnect
<1>3. CASE p # NoSlot /\ g.phase = "LOBBY"
  <2>1. p \in Slot
    BY <1>1, <1>3, SlotOfType
  <2>2. HandleDisconnect(g, id) = ResetPlayer(g, p)
    BY <1>3 DEF HandleDisconnect
  <2> HIDE DEF p
  <2> QED
    BY <1>3, <2>1, <2>2, ResetPlayerKeeps DEF Keeps
<1>4. CASE p # NoSlot /\ g.phase # "LOBBY"
  <2>1. p \in Slot
    BY <1>1, <1>4, SlotOfType
  <2>2. HandleDisconnect(g, id) = LeaveMatch(g, p)
    BY <1>4 DEF HandleDisconnect
  <2> HIDE DEF p
  <2> QED
    BY <1>4, <2>1, <2>2, LeaveMatchOutcome
<1> QED
    BY <1>2, <1>3, <1>4

LEMMA ReplayChoiceKeeps ==
    ASSUME NEW g, GameInv(g), NEW id, NEW wish
    PROVE  Keeps(g, HandleReplayChoice(g, id, wish))
<1> DEFINE p == SlotOf(g, id)
           want == IF wish THEN g.wants \cup {p} ELSE g.wants \ {p}
           h == [g EXCEPT !.decided = @ \cup {p}, !.wants = want]
<1>1. g \in GameState
    BY DEF GameInv
<1>2. CASE CanChooseReplay(g, id)
  <2>1. p \in Slot /\ g.phase = "OVER"
    BY <1>1, <1>2 DEF CanChooseReplay, GameState
  <2>2. HandleReplayChoice(g, id, wish) = h
    BY <1>2 DEF HandleReplayChoice
  <2>3. want \in SUBSET Slot
    BY <1>1, <2>1 DEF GameState
  <2> HIDE DEF want, p
  <2>4. h \in GameState /\ h.phase = g.phase /\ h.roundNumber = g.roundNumber
    BY <1>1, <2>1, <2>3 DEF GameState
  <2> HIDE DEF h
  <2> QED
    BY <2>1, <2>2, <2>4 DEF Keeps, GameInv, InGame
<1>3. CASE ~CanChooseReplay(g, id)
    BY <1>3 DEF HandleReplayChoice, Keeps
<1> QED
    BY <1>2, <1>3

LEMMA PrepareReplayInv ==
    ASSUME NEW g, GameInv(g)
    PROVE  GameInv(PrepareReplay(g)) /\ PrepareReplay(g).phase = "LOBBY"
<1> DEFINE h == PrepareReplay(g)
<1>1. g \in GameState
    BY DEF GameInv
<1>2. /\ h \in GameState /\ h.phase = "LOBBY" /\ h.roundNumber = 0
    BY <1>1, RoundResetType DEF PrepareReplay, GameState, Phase
<1> HIDE DEF h
<1>3. GameInv(h) /\ h.phase = "LOBBY"
    BY <1>2 DEF GameInv, InGame
<1> QED
    BY <1>3 DEF h

----------------------------------------------------------------------------
(* Clocks. *)

Owned(g) ==
    g.phase \in InGame =>
        \A w \in Window : g.round.deadline[w] # "off" => w = g.phase

StillMissing(g) ==
    LET r == g.round
    IN  /\ g.phase = "PROMPT"  => \E p \in r.active : p \notin r.submitted
        /\ g.phase = "REWRITE" => \E p \in r.active : p \notin r.rewritten
        /\ g.phase = "VOTING"  => \E p \in r.active : p \notin r.voted

OnTime(g) == Owned(g) /\ StillMissing(g)

SameClocks(g, h) == h.phase = g.phase /\ h.round.deadline = g.round.deadline

\* Outside a match there is nothing to show.
LEMMA IdleOnTime ==
    ASSUME NEW g, g.phase \in {"LOBBY", "OVER"}
    PROVE  OnTime(g)
    BY DEF OnTime, Owned, StillMissing, InGame

LEMMA SameClocksOwned ==
    ASSUME NEW g, NEW h, Owned(g), SameClocks(g, h)
    PROVE  Owned(h)
    BY DEF SameClocks, Owned

\* A match has members.
LEMMA MembersExist ==
    ASSUME NEW g, GameInv(g), g.phase \in InGame
    PROVE  g.round.on /\ g.round.participants # 0 /\ g.round.active # {}
<1>1. g.round \in RoundState /\ Members(g)
    BY DEF GameInv, GameState
<1>2. g.round.active \in SUBSET Slot /\ g.round.participants \in Nat
    BY <1>1 DEF RoundState
<1>3. g.round.participants # 0
    BY <1>1, <1>2, MinPlayersAssumption DEF Members
<1> QED
    BY <1>1, <1>3, FS_EmptySet DEF Members

\* A phase that is not ready to move on still awaits somebody.
LEMMA NotReadyMissing ==
    ASSUME NEW g, GameInv(g),
           ~(g.phase = "PROMPT" /\ AllSubmitted(g.round)),
           ~(g.phase = "REWRITE" /\ AllRewritten(g.round)),
           ~(g.phase = "VOTING" /\ AllVoted(g.round))
    PROVE  StillMissing(g)
<1>1. CASE g.phase \in InGame
    BY <1>1, MembersExist DEF StillMissing, AllSubmitted, AllRewritten, AllVoted
<1>2. CASE g.phase \notin InGame
    BY <1>2 DEF StillMissing, InGame, Phase
<1> QED
    BY <1>1, <1>2

----------------------------------------------------------------------------
(* Leaving a phase. *)

AllOff(g) == \A w \in Window : g.round.deadline[w] = "off"

\* What SetDeadline leaves of the deadlines.
LEMMA SetDeadlineClocks ==
    ASSUME NEW g \in GameState, NEW w \in Window, NEW t \in Timer
    PROVE  LET h == SetDeadline(g, w, t)
           IN  /\ h.phase = g.phase
               /\ h.round.deadline[w] = t
               /\ \A u \in Window \ {w} :
                    h.round.deadline[u] = g.round.deadline[u]
               /\ h.round.active = g.round.active
               /\ h.round.submitted = g.round.submitted
               /\ h.round.rewritten = g.round.rewritten
               /\ h.round.voted = g.round.voted
    BY DEF SetDeadline, GameState, RoundState

\* A running match whose only clock is its own has none once that is cleared.
LEMMA CloseWindow ==
    ASSUME NEW g, GameInv(g), Owned(g), g.phase \in Window
    PROVE  LET c == SetDeadline(g, g.phase, "off")
           IN  GameInv(c) /\ c.phase = g.phase /\ AllOff(c)
<1> DEFINE c == SetDeadline(g, g.phase, "off")
<1>1. GameInv(c) /\ c.phase = g.phase
    BY SetDeadlineInv DEF Timer
<1>2. AllOff(c)
    BY SetDeadlineClocks DEF GameInv, Owned, AllOff, Timer, InGame, Phase, Window
<1> QED
    BY <1>1, <1>2

LEMMA AllOffOwned ==
    ASSUME NEW g, AllOff(g)
    PROVE  Owned(g)
    BY DEF AllOff, Owned

LEMMA PromptLeaves ==
    ASSUME NEW g, GameInv(g), g.phase = "PROMPT", AllOff(g),
           g.round.active \subseteq g.round.submitted,
           NEW h \in AdvanceFromPrompt(g)
    PROVE  OnTime(h)
<1>1. g \in GameState /\ g.round \in RoundState /\ g.round.active # {}
    BY MembersExist DEF GameInv, GameState, InGame, Phase
<1>2. h.phase = "REWRITE"
    BY PromptMoves
<1>3. PICK r \in AssignRewriteTargets(g.round) :
        h = SetDeadline([g EXCEPT !.round = r, !.phase = "REWRITE"],
                        "REWRITE", "off")
    BY <1>1, <1>2 DEF AdvanceFromPrompt, GameState
<1>4. /\ r \in RoundState /\ r.active = g.round.active
      /\ r.deadline = g.round.deadline
      /\ r.rewritten = g.round.rewritten \ (g.round.active \cap g.round.submitted)
    BY <1>1, TargetsDealt
<1> DEFINE d == [g EXCEPT !.round = r, !.phase = "REWRITE"]
<1>5. d \in GameState /\ d.round = r
    BY <1>1, <1>4 DEF GameState, Phase
<1>6. h = SetDeadline(d, "REWRITE", "off")
    BY <1>3
<1> HIDE DEF d
<1>7. /\ h.round.active = r.active /\ h.round.rewritten = r.rewritten
      /\ h.round.deadline["REWRITE"] = "off"
      /\ \A u \in Window \ {"REWRITE"} : h.round.deadline[u] = r.deadline[u]
    BY <1>5, <1>6, SetDeadlineClocks DEF Window, Timer
<1>8. AllOff(h)
    BY <1>4, <1>7 DEF AllOff
<1>9. StillMissing(h)
    BY <1>1, <1>2, <1>4, <1>7 DEF StillMissing
<1> QED
    BY <1>8, <1>9, AllOffOwned DEF OnTime

LEMMA RewriteLeaves ==
    ASSUME NEW g, GameInv(g), g.phase = "REWRITE", AllOff(g)
    PROVE  OnTime(AdvanceFromRewrite(g))
<1> DEFINE h == AdvanceFromRewrite(g)
           r == PrepareVoting(g.round)
           d == [g EXCEPT !.round = r, !.phase = "VOTING"]
<1>1. g \in GameState /\ g.round \in RoundState /\ g.round.active # {}
    BY MembersExist DEF GameInv, GameState, InGame, Phase
<1>2. h.phase = "VOTING"
    BY RewriteMoves
<1>3. h = SetDeadline(d, "VOTING", "off")
  <2>1. CASE CanPrepareVoting(g.round)
    BY <2>1 DEF AdvanceFromRewrite
  <2>2. CASE ~CanPrepareVoting(g.round)
    BY <1>1, <1>2, <2>2 DEF AdvanceFromRewrite, GameState
  <2> QED
    BY <2>1, <2>2
<1>4. /\ r \in RoundState /\ r.active = g.round.active
      /\ r.deadline = g.round.deadline /\ r.voted = {}
    BY <1>1 DEF PrepareVoting, RoundState
<1> HIDE DEF r
<1>5. d \in GameState /\ d.round = r
    BY <1>1, <1>4 DEF GameState, Phase
<1> HIDE DEF d
<1>6. /\ h.round.active = r.active /\ h.round.voted = r.voted
      /\ h.round.deadline["VOTING"] = "off"
      /\ \A u \in Window \ {"VOTING"} : h.round.deadline[u] = r.deadline[u]
    BY <1>3, <1>5, SetDeadlineClocks DEF Window, Timer
<1> HIDE DEF h
<1>7. AllOff(h)
    BY <1>4, <1>6 DEF AllOff
<1>8. StillMissing(h)
    BY <1>1, <1>2, <1>4, <1>6 DEF StillMissing
<1> QED
    BY <1>7, <1>8, AllOffOwned DEF OnTime, h

LEMMA VotingLeaves ==
    ASSUME NEW g, GameInv(g), g.phase = "VOTING", AllOff(g)
    PROVE  OnTime(AdvanceFromVoting(g))
<1> DEFINE h == AdvanceFromVoting(g)
<1>1. h.phase = "RESULTS"
    BY VotingMoves
<1>2. h.round = g.round
    BY DEF AdvanceFromVoting, ApplyRoundScores, GameInv, GameState
<1> HIDE DEF h
<1>3. OnTime(h)
    BY <1>1, <1>2 DEF OnTime, Owned, StillMissing, AllOff
<1> QED
    BY <1>3 DEF h

\* Whatever an answer, a leaver or a timeout brought about, the look for the
\* last answer leaves a match that is on time.
LEMMA AdvanceOnTime ==
    ASSUME NEW g, GameInv(g), Owned(g), NEW h \in AdvancePhaseIfReady(g)
    PROVE  OnTime(h)
<1>1. CASE g.phase = "PROMPT" /\ AllSubmitted(g.round)
  <2> DEFINE c == SetDeadline(g, "PROMPT", "off")
  <2>1. h \in AdvanceFromPrompt(c)
    BY <1>1 DEF AdvancePhaseIfReady
  <2>2. GameInv(c) /\ c.phase = "PROMPT" /\ AllOff(c)
    BY <1>1, CloseWindow DEF Window
  <2>3. c.round.active \subseteq c.round.submitted
    BY <1>1, SetDeadlineInv DEF AllSubmitted, Window, Timer
  <2> HIDE DEF c
  <2> QED
    BY <2>1, <2>2, <2>3, PromptLeaves
<1>2. CASE g.phase = "REWRITE" /\ AllRewritten(g.round)
  <2>1. h = AdvanceFromRewrite(SetDeadline(g, "REWRITE", "off"))
    BY <1>2 DEF AdvancePhaseIfReady
  <2> QED
    BY <1>2, <2>1, CloseWindow, RewriteLeaves DEF Window
<1>3. CASE g.phase = "VOTING" /\ AllVoted(g.round)
  <2>1. h = AdvanceFromVoting(SetDeadline(g, "VOTING", "off"))
    BY <1>3 DEF AdvancePhaseIfReady
  <2> QED
    BY <1>3, <2>1, CloseWindow, VotingLeaves DEF Window
<1>4. CASE /\ ~(g.phase = "PROMPT" /\ AllSubmitted(g.round))
           /\ ~(g.phase = "REWRITE" /\ AllRewritten(g.round))
           /\ ~(g.phase = "VOTING" /\ AllVoted(g.round))
  <2>1. h = g
    BY <1>4 DEF AdvancePhaseIfReady
  <2> QED
    BY <1>4, <2>1, NotReadyMissing DEF OnTime
<1> QED
    BY <1>1, <1>2, <1>3, <1>4

----------------------------------------------------------------------------
(* What leaves the clocks alone.                                           *)

LEMMA RoundSameClocks ==
    ASSUME NEW g \in GameState, NEW r, r.deadline = g.round.deadline
    PROVE  SameClocks(g, [g EXCEPT !.round = r])
    BY DEF SameClocks, GameState

LEMMA AnswerSameClocks ==
    ASSUME NEW g \in GameState, NEW id, NEW targetId
    PROVE  /\ SameClocks(g, HandleSubmit(g, id))
           /\ SameClocks(g, HandleRewrite(g, id))
           /\ SameClocks(g, HandleVote(g, id, targetId))
<1>1. g.round \in RoundState
    BY DEF GameState
<1>2. SameClocks(g, HandleSubmit(g, id))
  <2>1. RecordSubmission(g.round, SlotOf(g, id)).deadline = g.round.deadline
    BY <1>1 DEF RecordSubmission, RoundState
  <2> QED
    BY <2>1, RoundSameClocks DEF HandleSubmit, SameClocks
<1>3. SameClocks(g, HandleRewrite(g, id))
  <2>1. RecordRewrite(g.round, SlotOf(g, id)).deadline = g.round.deadline
    BY <1>1 DEF RecordRewrite, RoundState
  <2> QED
    BY <2>1, RoundSameClocks DEF HandleRewrite, SameClocks
<1>4. SameClocks(g, HandleVote(g, id, targetId))
  <2>1. RecordVote(g.round, SlotOf(g, id), SlotOf(g, targetId)).deadline
          = g.round.deadline
    BY <1>1 DEF RecordVote, RoundState
  <2> QED
    BY <2>1, RoundSameClocks DEF HandleVote, SameClocks
<1> QED
    BY <1>2, <1>3, <1>4

LEMMA FillSameClocks ==
    ASSUME NEW g \in GameState, g.phase \in Window
    PROVE  SameClocks(g, FillMissing(g))
<1>1. g.round \in RoundState
    BY DEF GameState
<1>2. /\ ApplyMissingFallbacks(g.round).deadline = g.round.deadline
      /\ ApplyMissingRewrites(g.round).deadline = g.round.deadline
      /\ ApplyMissingVotes(g.round).deadline = g.round.deadline
    BY <1>1 DEF ApplyMissingFallbacks, ApplyMissingRewrites, ApplyMissingVotes,
                RoundState
<1>3. \/ FillMissing(g) = [g EXCEPT !.round = ApplyMissingFallbacks(g.round)]
      \/ FillMissing(g) = [g EXCEPT !.round = ApplyMissingRewrites(g.round)]
      \/ FillMissing(g) = [g EXCEPT !.round = ApplyMissingVotes(g.round)]
  <2>1. CASE g.phase = "PROMPT"
    BY <2>1 DEF FillMissing
  <2>2. CASE g.phase = "REWRITE"
    BY <2>2 DEF FillMissing
  <2>3. CASE g.phase = "VOTING"
    BY <2>3 DEF FillMissing
  <2> QED
    BY <2>1, <2>2, <2>3 DEF Window
<1> QED
    BY <1>2, <1>3, RoundSameClocks

\* A player who leaves takes no clock along.
LEMMA DisconnectOwned ==
    ASSUME NEW g, GameInv(g), Owned(g), NEW id
    PROVE  Owned(HandleDisconnect(g, id))
<1> DEFINE p == SlotOf(g, id)
           h == HandleDisconnect(g, id)
<1>1. g \in GameState /\ g.round \in RoundState
    BY DEF GameInv, GameState
<1>2. CASE p = NoSlot
    BY <1>2 DEF HandleDisconnect
<1>3. CASE h.phase \in {"LOBBY", "OVER"}
    BY <1>3 DEF Owned, InGame
<1>4. CASE p # NoSlot /\ h.phase \notin {"LOBBY", "OVER"}
  <2> DEFINE r == IF g.round.on THEN Deactivate(g.round, p) ELSE g.round
             left == [g EXCEPT !.connected = @ \ {p},
                               !.ready = @ \ {p},
                               !.decided = @ \ {p},
                               !.wants = @ \ {p},
                               !.round = r]
  <2>1. g.phase # "LOBBY"
    BY <1>4, DisconnectOutcome
  <2>2. h = IF left.phase # "OVER" /\ JoinedCount(left) < MinPlayers
            THEN EndGame(left) ELSE left
    BY <1>4, <2>1 DEF HandleDisconnect, LeaveMatch
  <2>3. r.deadline = g.round.deadline
    BY <1>1 DEF Deactivate, RoundState
  <2> HIDE DEF r
  <2>4. left.phase = g.phase /\ left.round = r
    BY <1>1 DEF GameState
  <2>5. EndGame(left).phase = "OVER"
    BY <1>1 DEF EndGame, GameState
  <2>6. h = left
    BY <1>4, <2>2, <2>5
  <2> QED
    BY <2>3, <2>4, <2>6, SameClocksOwned DEF SameClocks
<1> QED
    BY <1>2, <1>3, <1>4

\* A round that opens has no clock yet and awaits every member's answer.
LEMMA BeginRoundOnTime ==
    ASSUME NEW g \in GameState, NEW h \in BeginRound(g), GameInv(h),
           h.phase = "PROMPT", g.phase # "PROMPT"
    PROVE  OnTime(h)
<1> DEFINE fresh == RoundBegin(Joined(g))
           begun == [g EXCEPT !.round = AssignPrompts(fresh),
                              !.roundNumber = @ + 1,
                              !.phase = "PROMPT"]
           wiped == [g EXCEPT !.round = RoundReset]
<1>1. h = g \/ h = begun \/ h = wiped
    BY DEF BeginRound
<1>2. wiped.phase = g.phase
    BY DEF GameState
<1>3. h = begun
    BY <1>1, <1>2
<1>4. begun.round = AssignPrompts(fresh)
    BY DEF GameState
<1>5. fresh \in RoundState
    BY JoinedFinite, RoundBeginType
<1>6. fresh.submitted = {} /\ \A w \in Window : fresh.deadline[w] = "off"
    BY DEF RoundBegin, RoundReset
<1> HIDE DEF fresh, begun
<1>7. h.round.submitted = {} /\ \A w \in Window : h.round.deadline[w] = "off"
    BY <1>3, <1>4, <1>5, <1>6 DEF AssignPrompts, RoundState
<1>8. h.round.active # {}
    BY MembersExist DEF InGame, Phase
<1> QED
    BY <1>7, <1>8 DEF OnTime, Owned, StillMissing

LEMMA StartOnTime ==
    ASSUME NEW g, GameInv(g), g.phase = "LOBBY", NEW h \in Start(g)
    PROVE  OnTime(h)
<1>1. /\ GameInv(h) /\ g \in GameState
      /\ h.phase \in {"LOBBY", "PROMPT"}
    BY StartOutcome DEF GameInv
<1>2. CASE h.phase = "LOBBY"
    BY <1>2, IdleOnTime
<1>3. CASE h.phase = "PROMPT"
  <2>1. h \in BeginRound(g)
    BY <1>3 DEF Start
  <2> QED
    BY <1>1, <1>3, <2>1, BeginRoundOnTime
<1> QED
    BY <1>1, <1>2, <1>3

----------------------------------------------------------------------------
(* Counting votes. *)

\* The votes for an entry are counted under it, none is for an entry that was
\* not shown, and no member votes for the one it titled.
VotesCounted(r) ==
    /\ \A o \in Slot : r.totals[o] = Cardinality({v \in Slot : r.votedFor[v] = o})
    /\ \A v \in Slot : r.votedFor[v] # NoSlot =>
         v \in r.voted /\ r.votedFor[v] \in r.reveal
    /\ \A v \in r.active : r.votedFor[v] = NoSlot \/ r.votedFor[v] # r.target[v]

SameVotes(r, q) ==
    /\ q.totals = r.totals /\ q.votedFor = r.votedFor /\ q.voted = r.voted
    /\ q.reveal = r.reveal /\ q.active = r.active /\ q.target = r.target

LEMMA SameVotesCounted ==
    ASSUME NEW r, NEW q, VotesCounted(r), SameVotes(r, q)
    PROVE  VotesCounted(q)
    BY DEF VotesCounted, SameVotes

\* A ballot that opens is empty.
LEMMA BallotOpens ==
    ASSUME NEW r \in RoundState
    PROVE  VotesCounted(PrepareVoting(r))
<1> DEFINE q == PrepareVoting(r)
<1>1. /\ q.totals = [p \in Slot |-> 0] /\ q.votedFor = [p \in Slot |-> NoSlot]
      /\ q.active = r.active /\ r.active \in SUBSET Slot
    BY DEF PrepareVoting, RoundState
<1> HIDE DEF q
<1>2. \A o \in Slot : {v \in Slot : q.votedFor[v] = o} = {}
    BY <1>1, NoSlotIsNone
<1>3. \A o \in Slot :
        q.totals[o] = Cardinality({v \in Slot : q.votedFor[v] = o})
    BY <1>1, <1>2, FS_EmptySet
<1>4. VotesCounted(q)
    BY <1>1, <1>3 DEF VotesCounted
<1> QED
    BY <1>4 DEF q

\* An accepted vote is a new one, for an entry that is shown.
LEMMA VoteCounted ==
    ASSUME NEW r \in RoundState, VotesCounted(r),
           NEW v \in Slot \ r.voted, NEW o \in Slot, o \in r.reveal,
           r.target[v] # o
    PROVE  VotesCounted(RecordVote(r, v, o))
<1> DEFINE q == RecordVote(r, v, o)
           For(u, p) == {w \in Slot : u.votedFor[w] = p}
<1>1. /\ q.votedFor = [r.votedFor EXCEPT ![v] = o]
      /\ q.totals = [r.totals EXCEPT ![o] = r.totals[o] + 1]
      /\ q.voted = r.voted \cup {v} /\ q.reveal = r.reveal
      /\ q.active = r.active /\ q.target = r.target
    BY DEF RecordVote, RoundState
<1>2. /\ r.votedFor \in [Slot -> Slot \cup {NoSlot}] /\ r.totals \in [Slot -> Nat]
      /\ r.active \in SUBSET Slot
    BY DEF RoundState
<1>3. r.votedFor[v] = NoSlot
    BY DEF VotesCounted
<1> HIDE DEF q
<1>4. \A p \in Slot : q.totals[p] = Cardinality(For(q, p))
  <2> TAKE p \in Slot
  <2>1. r.totals[p] = Cardinality(For(r, p))
    BY DEF VotesCounted
  <2>2. IsFiniteSet(For(r, p))
    BY SlotsFinite
  <2>3. CASE p = o
    <3>1. For(q, p) = For(r, p) \cup {v} /\ v \notin For(r, p)
      BY <1>1, <1>2, <1>3, <2>3, NoSlotIsNone
    <3>2. Cardinality(For(q, p)) = Cardinality(For(r, p)) + 1
      <4> HIDE DEF For
      <4> QED
        BY <2>2, <3>1, FS_AddElement
    <3> QED
      BY <1>1, <1>2, <2>1, <2>3, <3>2
  <2>4. CASE p # o
    <3>1. For(q, p) = For(r, p)
      BY <1>1, <1>2, <1>3, <2>4, NoSlotIsNone
    <3> QED
      BY <1>1, <1>2, <2>1, <2>4, <3>1
  <2> QED
    BY <2>3, <2>4
<1>5. VotesCounted(q)
    BY <1>1, <1>2, <1>4 DEF VotesCounted
<1> QED
    BY <1>5 DEF q

\* Whoever abstains has no vote to lose.
LEMMA AbstentionsCounted ==
    ASSUME NEW r \in RoundState, VotesCounted(r)
    PROVE  VotesCounted(ApplyMissingVotes(r))
<1> DEFINE q == ApplyMissingVotes(r)
           missing == {p \in r.active : r.on /\ p \notin r.voted}
<1>1. /\ q.votedFor = [p \in Slot |-> IF p \in missing THEN NoSlot
                                      ELSE r.votedFor[p]]
      /\ q.voted = r.voted \cup missing /\ q.totals = r.totals
      /\ q.reveal = r.reveal /\ q.active = r.active /\ q.target = r.target
    BY DEF ApplyMissingVotes, RoundState
<1>2. r.votedFor \in [Slot -> Slot \cup {NoSlot}]
    BY DEF RoundState
<1>3. \A p \in Slot : p \in missing => r.votedFor[p] = NoSlot
    BY DEF VotesCounted
<1> HIDE DEF missing, q
<1>4. \A p \in Slot : q.votedFor[p] = r.votedFor[p]
    BY <1>1, <1>3
<1>5. q.votedFor = r.votedFor
    BY <1>1, <1>2, <1>4
<1>6. VotesCounted(q)
    BY <1>1, <1>5 DEF VotesCounted
<1> QED
    BY <1>6 DEF q

\* The votes of a leaver stay.
LEMMA LeaverCounted ==
    ASSUME NEW r \in RoundState, VotesCounted(r), NEW p \in Slot
    PROVE  VotesCounted(Deactivate(r, p))
<1>1. CASE p \notin r.active
    BY <1>1 DEF Deactivate
<1>2. CASE p \in r.active
  <2> DEFINE q == Deactivate(r, p)
  <2>1. /\ q.totals = r.totals /\ q.votedFor = r.votedFor /\ q.voted = r.voted
        /\ q.reveal = r.reveal /\ q.active = r.active \ {p}
        /\ \A v \in Slot \ {p} : q.target[v] = r.target[v]
        /\ r.active \in SUBSET Slot
    BY <1>2 DEF Deactivate, RoundState
  <2> HIDE DEF q
  <2>2. VotesCounted(q)
    BY <2>1 DEF VotesCounted
  <2> QED
    BY <2>2 DEF q
<1> QED
    BY <1>1, <1>2

----------------------------------------------------------------------------
(* The inductive invariant: seats, level starts and counted votes.         *)

\* Ids are never reused, no slot remembers an id another slot has, and who is
\* connected has joined.
SeatInv(g, ids, next) ==
    /\ \A p, q \in Slot : g.pid[p] = g.pid[q] /\ g.pid[p] # 0 => p = q
    /\ \A p \in Slot : g.pid[p] < next
    /\ \A p \in g.connected : g.pid[p] \in ids
    /\ \A id \in ids : id < next

LevelInv(g) ==
    /\ g.phase = "LOBBY" \/ (g.phase = "PROMPT" /\ g.roundNumber = 1) =>
         \A p \in Slot : g.score[p] = 0
    /\ g.phase # "OVER" => g.decided = {} /\ g.wants = {}
    /\ g.phase \in InGame => g.roundNumber >= 1

BallotInv(g) == g.phase \in {"VOTING", "RESULTS"} => VotesCounted(g.round)

ScoreInv(g) == LevelInv(g) /\ BallotInv(g)

\* The player table but for the scores.
SameTable(g, h) ==
    /\ h.pid = g.pid /\ h.connected = g.connected
    /\ h.decided = g.decided /\ h.wants = g.wants

LEMMA SameTableSeats ==
    ASSUME NEW g, NEW h, NEW ids, NEW next,
           SeatInv(g, ids, next), SameTable(g, h)
    PROVE  SeatInv(h, ids, next)
    BY DEF SeatInv, SameTable

\* The slot an id leads to is the only one that has it.
LEMMA SlotOfIs ==
    ASSUME NEW g \in GameState, NEW ids, NEW next, SeatInv(g, ids, next),
           NEW id, id # 0
    PROVE  /\ \A p \in Slot : g.pid[p] = id => SlotOf(g, id) = p
           /\ SlotOf(g, id) # NoSlot => g.pid[SlotOf(g, id)] = id
<1>1. ASSUME NEW p \in Slot, g.pid[p] = id
      PROVE  SlotOf(g, id) = p
  <2>1. {q \in Slot : id # 0 /\ g.pid[q] = id} = {p}
    BY <1>1 DEF SeatInv
  <2>2. p \in Nat
    BY DEF Slot
  <2> QED
    BY <2>1, <2>2 DEF SlotOf, FirstSlot
<1>2. SlotOf(g, id) # NoSlot => g.pid[SlotOf(g, id)] = id
    BY FirstSlotType DEF SlotOf
<1> QED
    BY <1>1, <1>2

----------------------------------------------------------------------------
(* Moving on. *)

\* What moving on does to the scores: nothing, unless it closes the vote.
Paid(g, h) ==
    IF g.phase = "VOTING" /\ h.phase = "RESULTS"
    THEN h.score = [p \in Slot |-> g.score[p] + RoundPay(h.round, p)]
    ELSE h.score = g.score

LEMMA SetDeadlineTable ==
    ASSUME NEW g \in GameState, NEW w \in Window, NEW t \in Timer
    PROVE  LET h == SetDeadline(g, w, t)
           IN  /\ SameTable(g, h) /\ h.score = g.score
               /\ SameVotes(g.round, h.round)
               /\ h.round.submitted = g.round.submitted
    BY DEF SetDeadline, GameState, RoundState, SameTable, SameVotes

LEMMA AdvanceScores ==
    ASSUME NEW g, GameInv(g), BallotInv(g), NEW h \in AdvancePhaseIfReady(g)
    PROVE  SameTable(g, h) /\ Paid(g, h) /\ BallotInv(h)
<1>0. g \in GameState /\ g.round \in RoundState
    BY DEF GameInv, GameState
<1>1. CASE g.phase = "PROMPT" /\ AllSubmitted(g.round)
  <2> DEFINE c == SetDeadline(g, "PROMPT", "off")
  <2>1. /\ GameInv(c) /\ c.phase = "PROMPT"
        /\ c.round.active \subseteq c.round.submitted
    BY <1>1, SetDeadlineInv DEF AllSubmitted, Window, Timer
  <2>2. SameTable(g, c) /\ c.score = g.score
    BY <1>0, SetDeadlineTable DEF Window, Timer
  <2>3. h \in AdvanceFromPrompt(c)
    BY <1>1 DEF AdvancePhaseIfReady
  <2> HIDE DEF c
  <2>4. h.phase = "REWRITE"
    BY <2>1, <2>3, PromptMoves
  <2>5. c \in GameState
    BY <2>1 DEF GameInv
  <2>6. PICK r \in AssignRewriteTargets(c.round) :
          h = SetDeadline([c EXCEPT !.round = r, !.phase = "REWRITE"],
                          "REWRITE", "off")
    BY <2>3, <2>4, <2>5 DEF AdvanceFromPrompt, GameState
  <2>7. r \in RoundState
    BY <2>5, TargetsDealt DEF GameState
  <2> DEFINE d == [c EXCEPT !.round = r, !.phase = "REWRITE"]
  <2>8. d \in GameState /\ SameTable(c, d) /\ d.score = c.score
    BY <2>5, <2>7 DEF GameState, Phase, SameTable
  <2>9. SameTable(d, h) /\ h.score = d.score
    BY <2>6, <2>8, SetDeadlineTable DEF Window, Timer
  <2> HIDE DEF d
  <2> QED
    BY <1>1, <2>2, <2>4, <2>8, <2>9 DEF SameTable, Paid, BallotInv
<1>2. CASE g.phase = "REWRITE" /\ AllRewritten(g.round)
  <2> DEFINE c == SetDeadline(g, "REWRITE", "off")
  <2>1. GameInv(c) /\ c.phase = "REWRITE"
    BY <1>2, SetDeadlineInv DEF Window, Timer
  <2>2. SameTable(g, c) /\ c.score = g.score
    BY <1>0, SetDeadlineTable DEF Window, Timer
  <2>3. h = AdvanceFromRewrite(c)
    BY <1>2 DEF AdvancePhaseIfReady
  <2> HIDE DEF c
  <2>4. h.phase = "VOTING"
    BY <2>1, <2>3, RewriteMoves
  <2>5. c \in GameState /\ c.round \in RoundState
    BY <2>1 DEF GameInv, GameState
  <2> DEFINE r == PrepareVoting(c.round)
             d == [c EXCEPT !.round = r, !.phase = "VOTING"]
  <2>6. h = SetDeadline(d, "VOTING", "off")
    <3>1. CASE CanPrepareVoting(c.round)
      BY <2>3, <3>1 DEF AdvanceFromRewrite
    <3>2. CASE ~CanPrepareVoting(c.round)
      BY <2>3, <2>4, <2>5, <3>2 DEF AdvanceFromRewrite, GameState
    <3> QED
      BY <3>1, <3>2
  <2>7. r \in RoundState /\ VotesCounted(r)
    BY <2>5, BallotOpens DEF PrepareVoting, RoundState
  <2> HIDE DEF r
  <2>8. d \in GameState /\ SameTable(c, d) /\ d.score = c.score /\ d.round = r
    BY <2>5, <2>7 DEF GameState, Phase, SameTable
  <2>9. SameTable(d, h) /\ h.score = d.score /\ SameVotes(d.round, h.round)
    BY <2>6, <2>8, SetDeadlineTable DEF Window, Timer
  <2> HIDE DEF d
  <2>10. VotesCounted(h.round)
    BY <2>7, <2>8, <2>9, SameVotesCounted
  <2> QED
    BY <1>2, <2>2, <2>4, <2>8, <2>9, <2>10 DEF SameTable, Paid, BallotInv
<1>3. CASE g.phase = "VOTING" /\ AllVoted(g.round)
  <2> DEFINE c == SetDeadline(g, "VOTING", "off")
  <2>1. GameInv(c) /\ c.phase = "VOTING"
    BY <1>3, SetDeadlineInv DEF Window, Timer
  <2>2. SameTable(g, c) /\ c.score = g.score /\ SameVotes(g.round, c.round)
    BY <1>0, SetDeadlineTable DEF Window, Timer
  <2>3. h = AdvanceFromVoting(c)
    BY <1>3 DEF AdvancePhaseIfReady
  <2> HIDE DEF c
  <2>4. c \in GameState
    BY <2>1 DEF GameInv
  <2>5. /\ h.phase = "RESULTS" /\ h.round = c.round /\ SameTable(c, h)
        /\ h.score = [p \in Slot |-> c.score[p] + RoundPay(c.round, p)]
    BY <2>3, <2>4 DEF AdvanceFromVoting, ApplyRoundScores, GameState, SameTable
  <2>6. VotesCounted(h.round)
    BY <1>3, <2>2, <2>5, SameVotesCounted DEF BallotInv
  <2> QED
    BY <1>3, <2>2, <2>5, <2>6 DEF SameTable, Paid, BallotInv
<1>4. CASE /\ ~(g.phase = "PROMPT" /\ AllSubmitted(g.round))
           /\ ~(g.phase = "REWRITE" /\ AllRewritten(g.round))
           /\ ~(g.phase = "VOTING" /\ AllVoted(g.round))
  <2>1. h = g
    BY <1>4 DEF AdvancePhaseIfReady
  <2> QED
    BY <2>1 DEF SameTable, Paid
<1> QED
    BY <1>1, <1>2, <1>3, <1>4

\* A step within a match: the table stays, scores move only when the vote
\* closes, and the invariant is kept.
Scored(g, h) ==
    SameTable(g, h) /\ Paid(g, h) /\ GameInv(h) /\ ScoreInv(h)

LEMMA MovesScored ==
    ASSUME NEW g, NEW h, LevelInv(g), Moves(g, h),
           SameTable(g, h), Paid(g, h), BallotInv(h)
    PROVE  Scored(g, h)
<1>1. LevelInv(h)
  <2>1. CASE h.phase = g.phase
    BY <2>1 DEF LevelInv, Moves, SameTable, Paid
  <2>2. CASE /\ g.phase \in {"PROMPT", "REWRITE", "VOTING"}
             /\ h.phase \in {"REWRITE", "VOTING", "RESULTS"}
    BY <2>2 DEF LevelInv, Moves, SameTable, InGame, Phase
  <2> QED
    BY <2>1, <2>2 DEF Moves
<1> QED
    BY <1>1 DEF Scored, ScoreInv, Moves

\* An answer, title or vote that is recorded, or a deadline.
Recorded(g, t) ==
    Keeps(g, t) /\ SameTable(g, t) /\ t.score = g.score /\ BallotInv(t)

LEMMA SettleScored ==
    ASSUME NEW g, LevelInv(g), NEW t, Recorded(g, t),
           NEW h \in AdvancePhaseIfReady(t)
    PROVE  Scored(g, h)
<1>1. GameInv(t) /\ t.phase = g.phase /\ t.roundNumber = g.roundNumber
    BY DEF Recorded, Keeps
<1>2. Moves(t, h) /\ SameTable(t, h) /\ Paid(t, h) /\ BallotInv(h)
    BY <1>1, AdvanceMoves, AdvanceScores DEF Recorded
<1>3. Moves(g, h)
    BY <1>1, <1>2 DEF Moves
<1>4. SameTable(g, h)
    BY <1>2 DEF Recorded, SameTable
<1>5. Paid(g, h)
    BY <1>1, <1>2 DEF Recorded, Paid
<1> QED
    BY <1>2, <1>3, <1>4, <1>5, MovesScored

LEMMA RecordedSelf ==
    ASSUME NEW g, GameInv(g), BallotInv(g)
    PROVE  Recorded(g, g)
    BY DEF Recorded, Keeps, SameTable

\* Only the round is written to.
LEMMA RoundRecorded ==
    ASSUME NEW g, GameInv(g), NEW r, NEW t, t = [g EXCEPT !.round = r],
           Keeps(g, t),
           g.phase \in {"VOTING", "RESULTS"} => VotesCounted(r)
    PROVE  Recorded(g, t)
<1>1. g \in GameState
    BY DEF GameInv
<1>2. /\ t.round = r /\ t.phase = g.phase /\ t.score = g.score
      /\ SameTable(g, t)
    BY <1>1 DEF GameState, SameTable
<1> QED
    BY <1>2 DEF Recorded, BallotInv

LEMMA SubmitRecorded ==
    ASSUME NEW g, GameInv(g), BallotInv(g), NEW id
    PROVE  Recorded(g, HandleSubmit(g, id))
<1> DEFINE r == RecordSubmission(g.round, SlotOf(g, id))
<1>1. Keeps(g, HandleSubmit(g, id)) /\ g.round \in RoundState
    BY SubmitKeeps DEF GameInv, GameState
<1>2. CASE HandleSubmit(g, id) = g
    BY <1>2, RecordedSelf
<1>3. CASE HandleSubmit(g, id) # g
  <2>1. g.phase = "PROMPT" /\ HandleSubmit(g, id) = [g EXCEPT !.round = r]
    BY <1>3 DEF HandleSubmit
  <2> QED
    BY <1>1, <2>1, RoundRecorded
<1> QED
    BY <1>2, <1>3

LEMMA RewriteRecorded ==
    ASSUME NEW g, GameInv(g), BallotInv(g), NEW id
    PROVE  Recorded(g, HandleRewrite(g, id))
<1> DEFINE r == RecordRewrite(g.round, SlotOf(g, id))
<1>1. Keeps(g, HandleRewrite(g, id)) /\ g.round \in RoundState
    BY RewriteKeeps DEF GameInv, GameState
<1>2. CASE HandleRewrite(g, id) = g
    BY <1>2, RecordedSelf
<1>3. CASE HandleRewrite(g, id) # g
  <2>1. g.phase = "REWRITE" /\ HandleRewrite(g, id) = [g EXCEPT !.round = r]
    BY <1>3 DEF HandleRewrite
  <2> QED
    BY <1>1, <2>1, RoundRecorded
<1> QED
    BY <1>2, <1>3

\* The number a voter types leads, through the player_id behind it, back to
\* the entry it was shown under.
LEMMA VoteRecorded ==
    ASSUME NEW g, GameInv(g), BallotInv(g), NEW ids, NEW next,
           SeatInv(g, ids, next), NEW id, NEW option
    PROVE  Recorded(g, HandleVote(g, id, VoteTargetId(g, option)))
<1> DEFINE target == VoteTargetId(g, option)
           v == SlotOf(g, id)
           o == SlotOf(g, target)
<1>1. g \in GameState /\ g.round \in RoundState
    BY DEF GameInv, GameState
<1>2. Keeps(g, HandleVote(g, id, target))
    BY VoteKeeps
<1>3. CASE VoteAccepted(g, id, target)
  <2>1. g.phase = "VOTING" /\ VotesCounted(g.round) /\ target # 0
    BY <1>3 DEF VoteAccepted, BallotInv
  <2>2. option \in g.round.reveal /\ option \in Slot /\ g.pid[option] = target
    BY <1>1, <2>1 DEF VoteTargetId, RoundState
  <2> HIDE DEF target
  <2>3. o = option
    BY <1>1, <2>1, <2>2, SlotOfIs
  <2>4. v \in Slot /\ v \notin g.round.voted /\ g.round.target[v] # o
    BY <1>1, <1>3, IsPlayerSlot DEF VoteAccepted, CanVote
  <2>5. VotesCounted(RecordVote(g.round, v, o))
    BY <1>1, <2>1, <2>2, <2>3, <2>4, VoteCounted
  <2>6. HandleVote(g, id, target) = [g EXCEPT !.round = RecordVote(@, v, o)]
    BY <1>3 DEF HandleVote
  <2> HIDE DEF v, o
  <2> QED
    BY <1>2, <2>5, <2>6, RoundRecorded DEF target
<1>4. CASE ~VoteAccepted(g, id, target)
  <2>1. HandleVote(g, id, target) = g
    BY <1>4 DEF HandleVote
  <2> QED
    BY <2>1, RecordedSelf
<1> QED
    BY <1>3, <1>4

LEMMA DeadlineRecorded ==
    ASSUME NEW g, GameInv(g), BallotInv(g), NEW w \in Window, NEW t \in Timer
    PROVE  Recorded(g, SetDeadline(g, w, t))
<1> DEFINE h == SetDeadline(g, w, t)
<1>1. Keeps(g, h)
    BY SetDeadlineInv DEF Keeps
<1>2. SameTable(g, h) /\ h.score = g.score /\ SameVotes(g.round, h.round)
    BY SetDeadlineTable DEF GameInv
<1> HIDE DEF h
<1>3. BallotInv(h)
    BY <1>1, <1>2, SameVotesCounted DEF BallotInv, Keeps
<1>4. Recorded(g, h)
    BY <1>1, <1>2, <1>3 DEF Recorded
<1> QED
    BY <1>4 DEF h

LEMMA FillRecorded ==
    ASSUME NEW g, GameInv(g), BallotInv(g), g.phase \in Window
    PROVE  Recorded(g, FillMissing(g))
<1>1. Keeps(g, FillMissing(g)) /\ g.round \in RoundState
    BY FillMissingKeeps DEF GameInv, GameState
<1>2. CASE g.phase \in {"PROMPT", "REWRITE"}
  <2>1. PICK r : FillMissing(g) = [g EXCEPT !.round = r]
    <3>1. CASE g.phase = "PROMPT"
      BY <3>1 DEF FillMissing
    <3>2. CASE g.phase = "REWRITE"
      BY <3>2 DEF FillMissing
    <3> QED
      BY <1>2, <3>1, <3>2
  <2> QED
    BY <1>1, <1>2, <2>1, RoundRecorded
<1>3. CASE g.phase = "VOTING"
  <2> DEFINE r == ApplyMissingVotes(g.round)
  <2>1. FillMissing(g) = [g EXCEPT !.round = r]
    BY <1>3 DEF FillMissing
  <2>2. VotesCounted(r)
    BY <1>1, <1>3, AbstentionsCounted DEF BallotInv
  <2> HIDE DEF r
  <2> QED
    BY <1>1, <2>1, <2>2, RoundRecorded
<1> QED
    BY <1>2, <1>3 DEF Window

LEMMA TimeoutScored ==
    ASSUME NEW g, GameInv(g), ScoreInv(g), PhaseDeadline(g) = "due",
           NEW h \in ApplyPhaseTimeout(g)
    PROVE  Scored(g, h)
<1> DEFINE c == SetDeadline(g, g.phase, "off")
           f == FillMissing(c)
<1>1. g.phase \in Window /\ LevelInv(g) /\ BallotInv(g)
    BY DEF PhaseDeadline, ScoreInv
<1>2. Recorded(g, c)
    BY <1>1, DeadlineRecorded DEF Timer
<1>3. h \in AdvancePhaseIfReady(f)
    BY DEF ApplyPhaseTimeout
<1> HIDE DEF c
<1>4. Recorded(c, f)
    BY <1>1, <1>2, FillRecorded DEF Recorded, Keeps
<1> HIDE DEF f
<1>5. Recorded(g, f)
    BY <1>2, <1>4 DEF Recorded, Keeps, SameTable
<1> QED
    BY <1>1, <1>3, <1>5, SettleScored

----------------------------------------------------------------------------
(* Joining, starting and ending. *)

\* A slot that is taken over is nobody else's: the id that moves in had no
\* other.
LEMMA JoinSeats ==
    ASSUME NEW g, GameInv(g), ScoreInv(g), NEW ids \in SUBSET Nat,
           NEW next \in Nat, SeatInv(g, ids, next),
           NEW id \in (ids \cup {next}) \ {0}, NEW n \in Name,
           JoinResult(g, id, n) = "ok"
    PROVE  LET h == HandleJoin(g, id, n)
           IN  /\ SeatInv(h, ids \cup {id}, IF id = next THEN next + 1 ELSE next)
               /\ ScoreInv(h)
<1> DEFINE p == JoinSlot(g, id)
           h == HandleJoin(g, id, n)
           next2 == IF id = next THEN next + 1 ELSE next
<1>1. g \in GameState /\ g.phase = "LOBBY"
    BY DEF GameInv, JoinResult
<1>2. p \in Slot
    BY <1>1, SlotOfType, FirstSlotType DEF JoinSlot, JoinResult
<1>3. \A q \in Slot \ {p} : g.pid[q] # id
  <2>1. \A q \in Slot : g.pid[q] = id => SlotOf(g, id) = q
    BY <1>1, SlotOfIs
  <2> QED
    BY <2>1, NoSlotIsNone DEF JoinSlot
<1> HIDE DEF p
<1>4. h = [g EXCEPT !.pid = [@ EXCEPT ![p] = id],
                    !.name = [@ EXCEPT ![p] = n],
                    !.score = [@ EXCEPT ![p] = 0],
                    !.connected = @ \cup {p},
                    !.joined = @ \cup {p},
                    !.ready = @ \ {p},
                    !.decided = @ \ {p},
                    !.wants = @ \ {p}]
    BY DEF HandleJoin, p
<1>5. /\ h.phase = "LOBBY"
      /\ h.pid = [g.pid EXCEPT ![p] = id]
      /\ h.score = [g.score EXCEPT ![p] = 0]
      /\ h.connected = g.connected \cup {p}
      /\ h.decided = g.decided \ {p} /\ h.wants = g.wants \ {p}
      /\ g.pid \in [Slot -> Nat] /\ g.score \in [Slot -> Nat]
      /\ g.connected \in SUBSET Slot
    BY <1>1, <1>4 DEF GameState
<1> HIDE DEF h
<1>6. id < next2 /\ next <= next2 /\ next2 \in Nat
    BY DEF SeatInv
<1>7. SeatInv(h, ids \cup {id}, next2)
  <2>1. \A a, b \in Slot : h.pid[a] = h.pid[b] /\ h.pid[a] # 0 => a = b
    BY <1>2, <1>3, <1>5 DEF SeatInv
  <2>2. \A q \in Slot : h.pid[q] < next2
    <3> TAKE q \in Slot
    <3>1. g.pid[q] \in Nat /\ g.pid[q] < next
      BY <1>5 DEF SeatInv
    <3> QED
      BY <3>1, <1>5, <1>6
  <2>3. \A q \in h.connected : h.pid[q] \in ids \cup {id}
    BY <1>2, <1>5 DEF SeatInv
  <2>4. \A i \in ids \cup {id} : i < next2
    <3> TAKE i \in ids \cup {id}
    <3>1. i \in ids => i \in Nat /\ i < next
      BY DEF SeatInv
    <3> QED
      BY <3>1, <1>6
  <2> HIDE DEF next2
  <2> QED
    BY <2>1, <2>2, <2>3, <2>4 DEF SeatInv
<1>8. ScoreInv(h)
    BY <1>1, <1>2, <1>5 DEF ScoreInv, LevelInv, BallotInv, InGame
<1> QED
    BY <1>7, <1>8 DEF h

LEMMA ReadyTable ==
    ASSUME NEW g, GameInv(g), ScoreInv(g), g.phase = "LOBBY", NEW id
    PROVE  LET h == HandleReady(g, id)
           IN  SameTable(g, h) /\ ScoreInv(h) /\ h.phase = "LOBBY"
<1> DEFINE h == HandleReady(g, id)
<1>1. SameTable(g, h) /\ h.score = g.score /\ h.phase = g.phase
    BY DEF HandleReady, SameTable, GameInv, GameState
<1> HIDE DEF h
<1>2. SameTable(g, h) /\ ScoreInv(h) /\ h.phase = "LOBBY"
    BY <1>1 DEF ScoreInv, LevelInv, BallotInv, SameTable, InGame
<1> QED
    BY <1>2 DEF h

LEMMA BeginTable ==
    ASSUME NEW g \in GameState, NEW h \in BeginRound(g)
    PROVE  SameTable(g, h) /\ h.score = g.score
<1> DEFINE fresh == RoundBegin(Joined(g))
           begun == [g EXCEPT !.round = AssignPrompts(fresh),
                              !.roundNumber = @ + 1,
                              !.phase = "PROMPT"]
           wiped == [g EXCEPT !.round = RoundReset]
<1>1. h = g \/ h = begun \/ h = wiped
    BY DEF BeginRound
<1>2. SameTable(g, begun) /\ begun.score = g.score
    BY DEF SameTable, GameState
<1>3. SameTable(g, wiped) /\ wiped.score = g.score
    BY DEF SameTable, GameState
<1> HIDE DEF begun, wiped
<1> QED
    BY <1>1, <1>2, <1>3 DEF SameTable

\* A match that starts, or fails to, starts level.
LEMMA StartTable ==
    ASSUME NEW g, GameInv(g), ScoreInv(g), g.phase = "LOBBY",
           NEW h \in Start(g)
    PROVE  SameTable(g, h) /\ ScoreInv(h)
<1>1. g \in GameState
    BY DEF GameInv
<1>2. SameTable(g, h) /\ h.score = g.score
    BY <1>1, BeginTable DEF Start, SameTable
<1>3. \/ h.phase = "PROMPT" /\ h.roundNumber = 1
      \/ h.phase = "LOBBY" /\ h.roundNumber = 0
    BY StartOutcome
<1> QED
    BY <1>2, <1>3 DEF ScoreInv, LevelInv, BallotInv, SameTable, InGame

LEMMA EndTable ==
    ASSUME NEW g \in GameState
    PROVE  LET h == EndGame(g)
           IN  SameTable(g, h) /\ h.score = g.score /\ ScoreInv(h)
    BY DEF EndGame, GameState, SameTable, ScoreInv, LevelInv, BallotInv, InGame

LEMMA PrepareTable ==
    ASSUME NEW g, GameInv(g)
    PROVE  LET h == PrepareReplay(g)
           IN  /\ h.pid = g.pid /\ h.connected = g.connected
               /\ ScoreInv(h)
<1> DEFINE h == PrepareReplay(g)
<1>1. /\ h.pid = g.pid /\ h.connected = g.connected /\ h.phase = "LOBBY"
      /\ h.score = [p \in Slot |-> 0] /\ h.decided = {} /\ h.wants = {}
    BY DEF PrepareReplay, GameInv, GameState
<1> HIDE DEF h
<1>2. ScoreInv(h)
    BY <1>1 DEF ScoreInv, LevelInv, BallotInv, InGame
<1> QED
    BY <1>1, <1>2 DEF h

\* A wish changes no seat and no score.
LEMMA ReplayChoiceTable ==
    ASSUME NEW g, GameInv(g), ScoreInv(g), NEW id, NEW wish,
           CanChooseReplay(g, id)
    PROVE  LET h == HandleReplayChoice(g, id, wish)
           IN  h.pid = g.pid /\ h.connected = g.connected /\ ScoreInv(h)
<1> DEFINE h == HandleReplayChoice(g, id, wish)
<1>1. h.phase = "OVER" /\ h.pid = g.pid /\ h.connected = g.connected
    BY DEF HandleReplayChoice, CanChooseReplay, GameInv, GameState
<1> HIDE DEF h
<1>2. ScoreInv(h)
    BY <1>1 DEF ScoreInv, LevelInv, BallotInv, InGame
<1> QED
    BY <1>1, <1>2 DEF h

----------------------------------------------------------------------------
(* Leaving. *)

LEMMA LeaveTable ==
    ASSUME NEW g \in GameState, ScoreInv(g), g.phase # "LOBBY", NEW p \in Slot
    PROVE  LET h == LeaveMatch(g, p)
           IN  /\ h.pid = g.pid /\ h.connected = g.connected \ {p}
               /\ h.score = g.score /\ ScoreInv(h)
<1> DEFINE h == LeaveMatch(g, p)
           r == IF g.round.on THEN Deactivate(g.round, p) ELSE g.round
           left == [g EXCEPT !.connected = @ \ {p},
                             !.ready = @ \ {p},
                             !.decided = @ \ {p},
                             !.wants = @ \ {p},
                             !.round = r]
<1>1. g \in GameState /\ g.round \in RoundState
    BY DEF GameState
<1>2. h = IF left.phase # "OVER" /\ JoinedCount(left) < MinPlayers
          THEN EndGame(left) ELSE left
    BY DEF LeaveMatch
<1>3. g.phase \in {"VOTING", "RESULTS"} => VotesCounted(r)
    BY <1>1, LeaverCounted DEF ScoreInv, BallotInv
<1>4. r \in RoundState
    BY <1>1, DeactivateType
<1> HIDE DEF r
<1>5. /\ left \in GameState /\ left.phase = g.phase /\ left.round = r
      /\ left.roundNumber = g.roundNumber
      /\ left.pid = g.pid /\ left.connected = g.connected \ {p}
      /\ left.decided = g.decided \ {p} /\ left.wants = g.wants \ {p}
      /\ left.score = g.score
    BY <1>1, <1>4 DEF GameState
<1> HIDE DEF left, h
<1>6. ScoreInv(left)
    BY <1>3, <1>5 DEF ScoreInv, LevelInv, BallotInv
<1>7. h.pid = g.pid /\ h.connected = g.connected \ {p}
        /\ h.score = g.score /\ ScoreInv(h)
    BY <1>2, <1>5, <1>6, EndTable DEF SameTable
<1> QED
    BY <1>7 DEF h

\* The leaver's id leaves the connections, and no slot that stays connected
\* has it.
LEMMA DisconnectTable ==
    ASSUME NEW g \in GameState, ScoreInv(g), NEW ids \in SUBSET Nat,
           NEW next \in Nat \ {0}, SeatInv(g, ids, next),
           NEW id \in ids \ {0}
    PROVE  LET h == HandleDisconnect(g, id)
           IN  /\ SeatInv(h, ids \ {id}, next)
               /\ ScoreInv(h)
               /\ g.phase \in InGame => h.score = g.score
<1> DEFINE p == SlotOf(g, id)
           h == HandleDisconnect(g, id)
<1>1. g \in GameState
    OBVIOUS
<1>2. \A q \in Slot : g.pid[q] = id => q = p
    BY <1>1, SlotOfIs
<1>3. CASE p = NoSlot
  <2>1. h = g
    BY <1>3 DEF HandleDisconnect
  <2>2. \A q \in g.connected : g.pid[q] \in ids \ {id}
    BY <1>1, <1>2, <1>3, NoSlotIsNone DEF SeatInv, GameState
  <2> HIDE DEF h
  <2>3. SeatInv(h, ids \ {id}, next)
    BY <2>1, <2>2 DEF SeatInv
  <2> QED
    BY <2>1, <2>3 DEF h
<1>4. CASE p # NoSlot /\ g.phase = "LOBBY"
  <2>1. p \in Slot
    BY <1>1, <1>4, SlotOfType
  <2>2. h = [g EXCEPT !.pid = [@ EXCEPT ![p] = 0],
                      !.name = [@ EXCEPT ![p] = NoName],
                      !.score = [@ EXCEPT ![p] = 0],
                      !.connected = @ \ {p},
                      !.joined = @ \ {p},
                      !.ready = @ \ {p},
                      !.decided = @ \ {p},
                      !.wants = @ \ {p}]
    BY <1>4 DEF HandleDisconnect, ResetPlayer
  <2> HIDE DEF h, p
  <2>3. /\ h.phase = "LOBBY"
        /\ h.pid = [g.pid EXCEPT ![p] = 0]
        /\ h.score = [g.score EXCEPT ![p] = 0]
        /\ h.connected = g.connected \ {p}
        /\ h.decided = g.decided \ {p} /\ h.wants = g.wants \ {p}
        /\ g.pid \in [Slot -> Nat] /\ g.score \in [Slot -> Nat]
        /\ g.connected \in SUBSET Slot
    BY <1>1, <1>4, <2>2 DEF GameState
  <2>4. SeatInv(h, ids \ {id}, next)
    <3>1. \A a, b \in Slot : h.pid[a] = h.pid[b] /\ h.pid[a] # 0 => a = b
      BY <2>1, <2>3 DEF SeatInv
    <3>2. \A q \in Slot : h.pid[q] < next
      BY <2>1, <2>3 DEF SeatInv
    <3>3. \A q \in h.connected : h.pid[q] \in ids \ {id}
      BY <1>2, <2>1, <2>3 DEF SeatInv
    <3> QED
      BY <3>1, <3>2, <3>3 DEF SeatInv
  <2>5. ScoreInv(h)
    BY <1>4, <2>1, <2>3 DEF ScoreInv, LevelInv, BallotInv, InGame
  <2> QED
    BY <1>4, <2>4, <2>5 DEF InGame, h
<1>5. CASE p # NoSlot /\ g.phase # "LOBBY"
  <2>1. p \in Slot
    BY <1>1, <1>5, SlotOfType
  <2>2. h = LeaveMatch(g, p)
    BY <1>5 DEF HandleDisconnect
  <2> HIDE DEF h, p
  <2>3. /\ h.pid = g.pid /\ h.connected = g.connected \ {p}
        /\ h.score = g.score /\ ScoreInv(h)
    BY <1>5, <2>1, <2>2, LeaveTable
  <2>4. g.connected \in SUBSET Slot
    BY <1>1 DEF GameState
  <2>5. SeatInv(h, ids \ {id}, next)
    BY <1>2, <2>3, <2>4 DEF SeatInv
  <2> QED
    BY <2>3, <2>5 DEF h
<1> QED
    BY <1>3, <1>4, <1>5
============================================================================
