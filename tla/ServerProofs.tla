---------------------------- MODULE ServerProofs ----------------------------
(***************************************************************************)
(* Theorems about the server, for any number of players, connections and   *)
(* of these going bad at once: its types, that the client table agrees     *)
(* with the player table, and that the countdown to another match runs as  *)
(* soon as enough players want one.                                        *)
(*                                                                         *)
(* A handler may remove clients half-way, so the proof is about what holds *)
(* in the middle of one as well: Sane does everywhere, Follows relates the *)
(* states before and after anything that sends, and Good, which the server *)
(* always satisfies between two handlers, adds that the countdown is       *)
(* Settled.  That a removal follows, however deep others lie within it, is *)
(* RemovalFollows, by induction on that depth.                             *)
(***************************************************************************)
EXTENDS Server, GameLemmas

----------------------------------------------------------------------------
(* Recursion: a broadcast serves slot after slot, a removal lies within    *)
(* another one.                                                            *)

\* A broadcast leaves no set of states that contains its start and all that
\* the removal of a bad connection leads to.
LEMMA BroadcastStays ==
    ASSUME NEW removal, NEW X, NEW s \in X,
           \A t \in X : \A c \in t.open \cap t.flaky \cap Slot :
             removal[t][c] \subseteq X
    PROVE  BroadcastBy(removal, s) \subseteq X
<1> DEFINE Serve(S, c) ==
             UNION {{t} \cup (IF c \in t.open \cap t.flaky /\ t.cid[c] > 0
                              THEN removal[t][c] ELSE {}) : t \in S}
           Def(f) == f = [c \in 0 .. MaxPlayers |->
                            IF c = 0 THEN {s} ELSE Serve(f[c - 1], c)]
           Upto(m, f) == f[0] = {s} /\ \A c \in 1 .. m : f[c] = Serve(f[c - 1], c)
           Some(m) == m <= MaxPlayers => \E f : Upto(m, f)
           T == {m \in Nat : Some(m)}
<1>1. BroadcastBy(removal, s) = (CHOOSE f : Def(f))[MaxPlayers]
    BY DEF BroadcastBy
<1>2. \A c \in Slot : \A S \in SUBSET X : Serve(S, c) \subseteq X
    OBVIOUS
<1> HIDE DEF Serve
<1>3. \E f : Def(f)
  <2>1. 0 \in T
    <3>1. Upto(0, [c \in 0 .. 0 |-> {s}])
      OBVIOUS
    <3> QED
      BY <3>1
  <2>2. ASSUME NEW m \in T PROVE m + 1 \in T
    <3> SUFFICES ASSUME m + 1 <= MaxPlayers PROVE \E f : Upto(m + 1, f)
      OBVIOUS
    <3>1. PICK f : Upto(m, f)
      BY MaxPlayersAssumption
    <3> DEFINE h == [c \in 0 .. m + 1 |-> IF c = m + 1 THEN Serve(f[m], c) ELSE f[c]]
    <3>2. h[0] = {s} /\ h[m + 1] = Serve(h[m], m + 1)
      BY <3>1
    <3>3. \A c \in 1 .. m : h[c] = Serve(h[c - 1], c)
      <4> TAKE c \in 1 .. m
      <4>1. h[c] = f[c] /\ h[c - 1] = f[c - 1]
        OBVIOUS
      <4> HIDE DEF h
      <4> QED
        BY <3>1, <4>1
    <3>4. \A c \in 1 .. m + 1 : c \in 1 .. m \/ (c = m + 1 /\ c - 1 = m)
      OBVIOUS
    <3> HIDE DEF h
    <3>5. Upto(m + 1, h)
      BY <3>2, <3>3, <3>4
    <3> QED
      BY <3>5
  <2>3. MaxPlayers \in T
    <3>1. T \in SUBSET Nat
      OBVIOUS
    <3> HIDE DEF T
    <3> QED
      BY <2>1, <2>2, <3>1, CountUp, MaxPlayersAssumption
  <2>4. PICK f : Upto(MaxPlayers, f)
    BY <2>3, MaxPlayersAssumption
  <2> DEFINE h == [c \in 0 .. MaxPlayers |-> f[c]]
  <2>5. Def(h)
    <3>1. \A c \in 1 .. MaxPlayers : h[c] = f[c] /\ h[c - 1] = f[c - 1]
      <4>1. \A c \in 1 .. MaxPlayers :
              c \in 0 .. MaxPlayers /\ c - 1 \in 0 .. MaxPlayers
        BY MaxPlayersAssumption
      <4> QED
        BY <4>1
    <3>2. h[0] = {s}
      BY <2>4, MaxPlayersAssumption
    <3>3. \A c \in 0 .. MaxPlayers : c = 0 \/ c \in 1 .. MaxPlayers
      OBVIOUS
    <3>4. h = [c \in 0 .. MaxPlayers |-> h[c]]
      OBVIOUS
    <3> HIDE DEF h
    <3>5. \A c \in 0 .. MaxPlayers :
            h[c] = IF c = 0 THEN {s} ELSE Serve(h[c - 1], c)
      BY <2>4, <3>1, <3>2, <3>3
    <3> QED
      BY <3>4, <3>5
  <2> QED
    BY <2>5
<1> DEFINE f == CHOOSE g : Def(g)
<1>4. Def(f)
    BY <1>3
<1> HIDE DEF f
<1>5. f[0] = {s} /\ \A c \in Slot : f[c] = Serve(f[c - 1], c)
  <2>1. \A c \in 0 .. MaxPlayers :
          f[c] = IF c = 0 THEN {s} ELSE Serve(f[c - 1], c)
    BY <1>4
  <2>2. 0 \in 0 .. MaxPlayers /\ \A c \in Slot : c \in 0 .. MaxPlayers /\ c # 0
    BY MaxPlayersAssumption DEF Slot
  <2> QED
    BY <2>1, <2>2
<1>6. f[MaxPlayers] \subseteq X
  <2> DEFINE U == {m \in Nat : m <= MaxPlayers => f[m] \subseteq X}
  <2>1. 0 \in U
    BY <1>5
  <2>2. ASSUME NEW m \in U PROVE m + 1 \in U
    <3>1. m + 1 <= MaxPlayers => m <= MaxPlayers /\ m + 1 \in Slot /\ (m + 1) - 1 = m
      BY MaxPlayersAssumption DEF Slot
    <3> QED
      BY <1>2, <1>5, <3>1
  <2>3. U \in SUBSET Nat
    OBVIOUS
  <2> HIDE DEF U
  <2>4. MaxPlayers \in U
    BY <2>1, <2>2, <2>3, CountUp, MaxPlayersAssumption
  <2> QED
    BY <2>4, MaxPlayersAssumption DEF U
<1> QED
    BY <1>1, <1>6 DEF f

\* Removals within removals exist, one level above the other.
LEMMA RemovalsAre ==
    /\ \A s \in ServerState, c \in Slot : Removals[0][s][c] = {}
    /\ \A n \in 1 .. MaxPlayers : \A s \in ServerState, c \in Slot :
         Removals[n][s][c] = RemoveClientBy(Removals[n - 1], s, c)
<1> DEFINE Base == [s \in ServerState |-> [c \in Slot |-> {}]]
           Level(r) == [s \in ServerState |-> [c \in Slot |-> RemoveClientBy(r, s, c)]]
           Def(f) == f = [n \in 0 .. MaxPlayers |->
                            [s \in ServerState |-> [c \in Slot |->
                               IF n = 0 THEN {} ELSE RemoveClientBy(f[n - 1], s, c)]]]
           Upto(m, f) == f[0] = Base /\ \A n \in 1 .. m : f[n] = Level(f[n - 1])
           Some(m) == \E f : Upto(m, f)
           T == {m \in Nat : Some(m)}
<1>1. Removals = CHOOSE f : Def(f)
    BY DEF Removals
<1>2. \E f : Def(f)
  <2>1. 0 \in T
    <3> HIDE DEF Level, Base
    <3>1. Upto(0, [n \in 0 .. 0 |-> Base])
      OBVIOUS
    <3>2. Some(0)
      BY <3>1
    <3> QED
      BY <3>2
  <2>2. ASSUME NEW m \in T PROVE m + 1 \in T
    <3> HIDE DEF Level, Base
    <3>1. PICK f : Upto(m, f)
      OBVIOUS
    <3> DEFINE h == [n \in 0 .. m + 1 |-> IF n = m + 1 THEN Level(f[m]) ELSE f[n]]
    <3>2. h[0] = Base /\ h[m + 1] = Level(h[m])
      BY <3>1
    <3>3. \A n \in 1 .. m : h[n] = Level(h[n - 1])
      <4> TAKE n \in 1 .. m
      <4>1. h[n] = f[n] /\ h[n - 1] = f[n - 1]
        OBVIOUS
      <4> HIDE DEF h
      <4> QED
        BY <3>1, <4>1
    <3>4. \A n \in 1 .. m + 1 : n \in 1 .. m \/ (n = m + 1 /\ n - 1 = m)
      OBVIOUS
    <3> HIDE DEF h
    <3>5. Upto(m + 1, h)
      BY <3>2, <3>3, <3>4
    <3> QED
      BY <3>5
  <2>3. MaxPlayers \in T
    <3>1. T \in SUBSET Nat
      OBVIOUS
    <3> HIDE DEF T
    <3> QED
      BY <2>1, <2>2, <3>1, CountUp, MaxPlayersAssumption
  <2>4. PICK f : Upto(MaxPlayers, f)
    BY <2>3
  <2> DEFINE h == [n \in 0 .. MaxPlayers |-> f[n]]
  <2>5. Def(h)
    <3>1. \A n \in 1 .. MaxPlayers : h[n] = f[n] /\ h[n - 1] = f[n - 1]
      <4>1. \A n \in 1 .. MaxPlayers :
              n \in 0 .. MaxPlayers /\ n - 1 \in 0 .. MaxPlayers
        BY MaxPlayersAssumption
      <4> HIDE DEF Base, Level
      <4> QED
        BY <4>1
    <3>2. h[0] = Base
      <4> HIDE DEF Base, Level
      <4> QED
        BY <2>4, MaxPlayersAssumption
    <3>3. \A n \in 0 .. MaxPlayers : n = 0 \/ n \in 1 .. MaxPlayers
      OBVIOUS
    <3>4. h = [n \in 0 .. MaxPlayers |-> h[n]]
      OBVIOUS
    <3> HIDE DEF h
    <3>5. \A n \in 0 .. MaxPlayers :
            h[n] = [s \in ServerState |-> [c \in Slot |->
                      IF n = 0 THEN {} ELSE RemoveClientBy(h[n - 1], s, c)]]
      <4> TAKE n \in 0 .. MaxPlayers
      <4>1. CASE n = 0
        BY <3>2, <4>1
      <4>2. CASE n \in 1 .. MaxPlayers
        <5>1. h[n] = Level(h[n - 1])
          <6> HIDE DEF Level, Base
          <6> QED
            BY <2>4, <3>1, <4>2
        <5>2. n # 0
          BY <4>2
        <5> QED
          BY <5>1, <5>2
      <4> QED
        BY <3>3, <4>1, <4>2
    <3> QED
      BY <3>4, <3>5
  <2> QED
    BY <2>5
<1>3. Def(Removals)
    BY <1>1, <1>2
<1>4. \A n \in 0 .. MaxPlayers :
        Removals[n] = [s \in ServerState |-> [c \in Slot |->
                         IF n = 0 THEN {} ELSE RemoveClientBy(Removals[n - 1], s, c)]]
    BY <1>3
<1> HIDE DEF Def, Upto, Some, T
<1>5. ASSUME NEW s \in ServerState, NEW c \in Slot
      PROVE  Removals[0][s][c] = {}
  <2>1. 0 \in 0 .. MaxPlayers
    BY MaxPlayersAssumption
  <2>2. Removals[0] = [t \in ServerState |-> [d \in Slot |-> {}]]
    BY <1>4, <2>1
  <2> QED
    BY <2>2
<1>6. ASSUME NEW n \in 1 .. MaxPlayers, NEW s \in ServerState, NEW c \in Slot
      PROVE  Removals[n][s][c] = RemoveClientBy(Removals[n - 1], s, c)
  <2>1. n \in 0 .. MaxPlayers /\ n # 0
    BY MaxPlayersAssumption
  <2>2. Removals[n] = [t \in ServerState |-> [d \in Slot |->
                         RemoveClientBy(Removals[n - 1], t, d)]]
    BY <1>4, <2>1
  <2> QED
    BY <2>2
<1> QED
    BY <1>5, <1>6

\* What every removal does if those within it do, every removal does.
LEMMA RemovalDoes ==
    ASSUME NEW X \in SUBSET ServerState, NEW Rel,
           ASSUME NEW removal,
                  \A s \in X, c \in Slot : \A t \in removal[s][c] : <<s, t>> \in Rel
           PROVE  \A s \in X, c \in Slot :
                    \A t \in RemoveClientBy(removal, s, c) : <<s, t>> \in Rel
    PROVE  \A s \in X, c \in Slot : \A t \in Removal[s][c] : <<s, t>> \in Rel
<1> DEFINE Does(r) == \A s \in X, c \in Slot : \A t \in r[s][c] : <<s, t>> \in Rel
           U == {n \in Nat : n <= MaxPlayers => Does(Removals[n])}
<1>1. 0 \in U
    BY RemovalsAre
<1>2. ASSUME NEW n \in U, n + 1 <= MaxPlayers PROVE Does(Removals[n + 1])
  <2>1. n <= MaxPlayers /\ n + 1 \in 1 .. MaxPlayers /\ (n + 1) - 1 = n
    BY <1>2, MaxPlayersAssumption
  <2>2. \A s \in X, c \in Slot :
          \A t \in RemoveClientBy(Removals[n], s, c) : <<s, t>> \in Rel
    BY <2>1
  <2>3. \A s \in ServerState, c \in Slot :
          Removals[n + 1][s][c] = RemoveClientBy(Removals[n], s, c)
    <3> HIDE DEF U
    <3> QED
      BY <2>1, RemovalsAre
  <2>4. \A s \in X : s \in ServerState
    OBVIOUS
  <2> HIDE DEF U
  <2> QED
    BY <2>2, <2>3, <2>4
<1>3. MaxPlayers \in U
  <2>1. \A n \in U : n + 1 \in U
    BY <1>2
  <2>2. U \in SUBSET Nat
    OBVIOUS
  <2> HIDE DEF U
  <2> QED
    BY <1>1, <2>1, <2>2, CountUp, MaxPlayersAssumption
<1>4. Does(Removals[MaxPlayers])
  <2> HIDE DEF Does
  <2>1. MaxPlayers <= MaxPlayers
    BY MaxPlayersAssumption
  <2> QED
    BY <1>3, <2>1
<1> HIDE DEF U
<1> QED
    BY <1>4 DEF Removal
----------------------------------------------------------------------------
(* The game, as the server holds it: while a next round that could not be  *)
(* set up is announced, its round is wiped and has no members.             *)

Wiped(g) ==
    g.phase = "RESULTS" /\ ~g.round.on /\ JoinedCount(g) >= MinPlayers

Safe(g) ==
    /\ g \in GameState /\ ScoreInv(g)
    /\ GameInv(g) \/ Wiped(g)

\* A slot whose player is gone is seated by nobody.
SeatsKept(g) == g.phase = "LOBBY" => g.joined \subseteq g.connected

\* What a removal may do to the game: nobody comes, nobody changes a wish.
Shrinks(g, h) ==
    /\ h.connected \subseteq g.connected
    /\ h.wants \subseteq g.wants /\ h.decided \subseteq g.decided
    /\ GameInv(g) => GameInv(h)

LEMMA LeaveShrinks ==
    ASSUME NEW g \in GameState, NEW p \in Slot
    PROVE  LET h == LeaveMatch(g, p)
           IN  /\ h \in GameState
               /\ h.phase \in {g.phase, "OVER"}
               /\ h.connected \subseteq g.connected
               /\ h.wants \subseteq g.wants /\ h.decided \subseteq g.decided
               /\ ~g.round.on => ~h.round.on
               /\ h.phase # "OVER" => JoinedCount(h) >= MinPlayers
<1> DEFINE r == IF g.round.on THEN Deactivate(g.round, p) ELSE g.round
           left == [g EXCEPT !.connected = @ \ {p},
                             !.ready = @ \ {p},
                             !.decided = @ \ {p},
                             !.wants = @ \ {p},
                             !.round = r]
           h == LeaveMatch(g, p)
<1>1. h = IF left.phase # "OVER" /\ JoinedCount(left) < MinPlayers
          THEN EndGame(left) ELSE left
    BY DEF LeaveMatch
<1>2. r \in RoundState /\ (~g.round.on => ~r.on)
    BY DeactivateType DEF GameState
<1> HIDE DEF r
<1>3. /\ left \in GameState /\ left.phase = g.phase /\ left.round = r
      /\ left.connected = g.connected \ {p}
      /\ left.decided = g.decided \ {p} /\ left.wants = g.wants \ {p}
    BY <1>2 DEF GameState
<1> HIDE DEF left
<1>6. left.phase = "OVER" \/ JoinedCount(left) < MinPlayers
        \/ JoinedCount(left) >= MinPlayers
    BY <1>3, JoinedFinite, MinPlayersAssumption
<1>4. /\ EndGame(left) \in GameState /\ EndGame(left).phase = "OVER"
      /\ EndGame(left).round = left.round
      /\ EndGame(left).connected = left.connected
      /\ EndGame(left).decided = left.decided /\ EndGame(left).wants = left.wants
    BY <1>3 DEF EndGame, GameState, Phase
<1> HIDE DEF h
<1>5. /\ h \in GameState /\ h.phase \in {g.phase, "OVER"}
      /\ h.connected \subseteq g.connected
      /\ h.wants \subseteq g.wants /\ h.decided \subseteq g.decided
      /\ ~g.round.on => ~h.round.on
      /\ h.phase # "OVER" => JoinedCount(h) >= MinPlayers
    BY <1>1, <1>2, <1>3, <1>4, <1>6
<1> QED
    BY <1>5 DEF h

LEMMA DisconnectSafe ==
    ASSUME NEW g, Safe(g), SeatsKept(g), NEW ids \in SUBSET Nat,
           NEW next \in Nat \ {0}, SeatInv(g, ids, next), NEW id \in ids \ {0}
    PROVE  LET h == HandleDisconnect(g, id)
           IN  /\ Safe(h) /\ SeatsKept(h) /\ Shrinks(g, h)
               /\ SeatInv(h, ids \ {id}, next)
               /\ h.phase = g.phase \/ (g.phase # "LOBBY" /\ h.phase = "OVER")
<1> DEFINE p == SlotOf(g, id)
           h == HandleDisconnect(g, id)
<1>1. g \in GameState /\ ScoreInv(g)
    BY DEF Safe
<1>2. SeatInv(h, ids \ {id}, next) /\ ScoreInv(h)
    BY <1>1, DisconnectTable
<1>3. GameInv(g) => GameInv(h)
    BY DisconnectOutcome
<1>4. CASE p = NoSlot
  <2>1. h = g
    BY <1>4 DEF HandleDisconnect
  <2> HIDE DEF h, p
  <2>2. Safe(h) /\ SeatsKept(h) /\ Shrinks(g, h) /\ h.phase = g.phase
    BY <2>1 DEF Shrinks
  <2> QED
    BY <1>2, <2>2 DEF h
<1>5. CASE p # NoSlot /\ g.phase = "LOBBY"
  <2>1. p \in Slot
    BY <1>1, <1>5, SlotOfType
  <2>2. h = ResetPlayer(g, p)
    BY <1>5 DEF HandleDisconnect
  <2> HIDE DEF h, p
  <2>3. /\ h.phase = g.phase
        /\ h.connected = g.connected \ {p} /\ h.joined = g.joined \ {p}
        /\ h.decided = g.decided \ {p} /\ h.wants = g.wants \ {p}
    BY <1>1, <2>1, <2>2 DEF ResetPlayer, GameState
  <2>4. GameInv(g) /\ GameInv(h)
    BY <1>3, <1>5 DEF Safe, Wiped
  <2>5. Safe(h)
    BY <1>2, <2>4 DEF Safe, GameInv
  <2>6. SeatsKept(h) /\ Shrinks(g, h)
    BY <1>3, <1>5, <2>3 DEF SeatsKept, Shrinks
  <2> QED
    BY <1>2, <2>3, <2>5, <2>6 DEF h
<1>6. CASE p # NoSlot /\ g.phase # "LOBBY"
  <2>1. p \in Slot
    BY <1>1, <1>6, SlotOfType
  <2>2. h = LeaveMatch(g, p)
    BY <1>6 DEF HandleDisconnect
  <2> HIDE DEF h, p
  <2>3. /\ h \in GameState /\ h.phase \in {g.phase, "OVER"}
        /\ h.connected \subseteq g.connected
        /\ h.wants \subseteq g.wants /\ h.decided \subseteq g.decided
        /\ ~g.round.on => ~h.round.on
        /\ h.phase # "OVER" => JoinedCount(h) >= MinPlayers
    BY <1>1, <2>1, <2>2, LeaveShrinks
  <2>4. Shrinks(g, h) /\ SeatsKept(h)
    BY <1>3, <1>6, <2>3 DEF Shrinks, SeatsKept
  <2>5. GameInv(h) \/ Wiped(h)
    <3>1. CASE GameInv(g)
      BY <1>3, <3>1
    <3>2. CASE Wiped(g) /\ h.phase = g.phase
      BY <2>3, <3>2 DEF Wiped
    <3>3. CASE h.phase = "OVER"
      BY <2>3, <3>3 DEF GameInv, InGame
    <3> QED
      BY <2>3, <3>1, <3>2, <3>3 DEF Safe
  <2>6. Safe(h)
    BY <1>2, <2>3, <2>5 DEF Safe
  <2> QED
    BY <1>2, <1>6, <2>3, <2>4, <2>6 DEF h
<1> QED
    BY <1>4, <1>5, <1>6

\* Only a phase with an answer window moves on by itself.
LEMMA AdvanceSafe ==
    ASSUME NEW g, Safe(g), NEW h \in AdvancePhaseIfReady(g)
    PROVE  /\ Safe(h) /\ SameTable(g, h) /\ Shrinks(g, h)
           /\ h = g \/ (h.phase # g.phase /\ GameInv(g) /\ Moves(g, h))
<1>1. g \in GameState /\ ScoreInv(g) /\ BallotInv(g)
    BY DEF Safe, ScoreInv
<1>2. CASE h = g
    BY <1>2 DEF SameTable, Shrinks
<1>3. CASE h # g
  <2>1. g.phase \in Window
    BY <1>3 DEF AdvancePhaseIfReady, Window
  <2>2. GameInv(g)
    BY <2>1 DEF Safe, Wiped, Window
  <2>3. Moves(g, h) /\ SameTable(g, h) /\ Paid(g, h) /\ BallotInv(h)
    BY <1>1, <2>2, AdvanceMoves, AdvanceScores
  <2>4. ScoreInv(h)
    BY <1>1, <2>3, MovesScored DEF ScoreInv, Scored
  <2>5. Safe(h) /\ Shrinks(g, h)
    BY <2>3, <2>4 DEF Safe, Shrinks, Moves, GameInv, SameTable
  <2>6. h.phase # g.phase
    BY <1>3, <2>2, AdvanceChanges
  <2> QED
    BY <2>2, <2>3, <2>5, <2>6
<1> QED
    BY <1>2, <1>3
\* A game that is safe, and seated by those who have the ids.
Fits(g, ids, next) == Safe(g) /\ SeatsKept(g) /\ SeatInv(g, ids, next)

\* A step that changes no seat, outside the lobby.
LEMMA TableFits ==
    ASSUME NEW g, NEW ids, NEW next, Fits(g, ids, next), NEW h,
           Safe(h), SameTable(g, h), h.phase # "LOBBY"
    PROVE  Fits(h, ids, next)
    BY SameTableSeats DEF Fits, SeatsKept

LEMMA AdvanceFits ==
    ASSUME NEW g, NEW ids, NEW next, Fits(g, ids, next),
           NEW h \in AdvancePhaseIfReady(g)
    PROVE  Fits(h, ids, next)
<1>1. /\ Safe(h) /\ SameTable(g, h)
      /\ h = g \/ (h.phase # g.phase /\ GameInv(g) /\ Moves(g, h))
    BY AdvanceSafe DEF Fits
<1> QED
    BY <1>1, TableFits DEF Moves

\* An answer, a title, a vote or a deadline.
LEMMA RecordedFits ==
    ASSUME NEW g, NEW ids, NEW next, Fits(g, ids, next), NEW h,
           Recorded(g, h), g.phase # "LOBBY"
    PROVE  Fits(h, ids, next) /\ GameInv(h) /\ Shrinks(g, h)
<1>1. /\ GameInv(h) /\ h.phase = g.phase /\ h.roundNumber = g.roundNumber
      /\ SameTable(g, h) /\ h.score = g.score /\ BallotInv(h)
    BY DEF Recorded, Keeps
<1>2. ScoreInv(h)
    BY <1>1 DEF ScoreInv, LevelInv, SameTable, Fits, Safe
<1>3. Safe(h) /\ Shrinks(g, h)
    BY <1>1, <1>2 DEF Safe, GameInv, Shrinks, SameTable
<1> QED
    BY <1>1, <1>3, TableFits

LEMMA TimeoutFits ==
    ASSUME NEW g, NEW ids, NEW next, Fits(g, ids, next), GameInv(g),
           PhaseDeadline(g) = "due", NEW h \in ApplyPhaseTimeout(g)
    PROVE  Fits(h, ids, next) /\ GameInv(h) /\ Shrinks(g, h) /\ Moves(g, h)
<1>1. Scored(g, h)
    BY TimeoutScored DEF Fits, Safe
<1>2. Moves(g, h) /\ g.phase \in Window
    BY TimeoutMoves DEF PhaseDeadline
<1>3. Safe(h) /\ SameTable(g, h) /\ Shrinks(g, h)
    BY <1>1 DEF Scored, Safe, GameInv, Shrinks, SameTable
<1> QED
    BY <1>1, <1>2, <1>3, TableFits DEF Scored, Moves, Window

NextId(id, next) == IF id = next THEN next + 1 ELSE next

LEMMA JoinFits ==
    ASSUME NEW g, NEW ids \in SUBSET Nat, NEW next \in Nat \ {0},
           Fits(g, ids, next), NEW id \in ids \cup {next}, id # 0,
           NEW n \in Name, JoinResult(g, id, n) = "ok"
    PROVE  LET h == HandleJoin(g, id, n)
           IN  /\ Fits(h, ids \cup {id}, NextId(id, next))
               /\ GameInv(h) /\ h.phase = "LOBBY"
<1> DEFINE p == JoinSlot(g, id)
           h == HandleJoin(g, id, n)
<1>1. g.phase = "LOBBY" /\ GameInv(g) /\ g \in GameState
    BY DEF JoinResult, Fits, Safe, Wiped
<1>2. id \in Nat
    OBVIOUS
<1>3. GameInv(h) /\ h.phase = "LOBBY"
    BY <1>1, <1>2, JoinKeeps DEF Keeps
<1>4. /\ SeatInv(h, ids \cup {id}, NextId(id, next))
      /\ ScoreInv(h)
    BY <1>1, JoinSeats DEF Fits, Safe, NextId
<1>5. h.joined = g.joined \cup {p} /\ h.connected = g.connected \cup {p}
    BY <1>1 DEF HandleJoin, GameState
<1>6. Safe(h) /\ SeatsKept(h)
    BY <1>1, <1>3, <1>4, <1>5 DEF Safe, SeatsKept, Fits, GameInv
<1> QED
    BY <1>3, <1>4, <1>6 DEF Fits

LEMMA ReadyFits ==
    ASSUME NEW g, NEW ids, NEW next, Fits(g, ids, next), g.phase = "LOBBY",
           NEW id
    PROVE  LET h == HandleReady(g, id)
           IN  Fits(h, ids, next) /\ GameInv(h) /\ h.phase = "LOBBY"
<1> DEFINE h == HandleReady(g, id)
<1>1. GameInv(g) /\ g \in GameState
    BY DEF Fits, Safe, Wiped
<1>2. GameInv(h)
    BY <1>1, ReadyKeeps DEF Keeps
<1>3. SameTable(g, h) /\ ScoreInv(h) /\ h.phase = "LOBBY"
    BY <1>1, ReadyTable DEF Fits, Safe
<1>4. h.joined = g.joined
    BY <1>1 DEF HandleReady, GameState
<1> HIDE DEF h
<1>5. Safe(h) /\ SeatsKept(h) /\ SeatInv(h, ids, next)
    BY <1>2, <1>3, <1>4, SameTableSeats
       DEF Fits, Safe, SeatsKept, GameInv, SameTable
<1> QED
    BY <1>2, <1>3, <1>5 DEF h, Fits

LEMMA StartFits ==
    ASSUME NEW g, NEW ids, NEW next, Fits(g, ids, next), g.phase = "LOBBY",
           NEW h \in Start(g)
    PROVE  /\ Fits(h, ids, next) /\ GameInv(h) /\ SameTable(g, h)
           /\ h.phase \in {"LOBBY", "PROMPT"}
           /\ h.wants = {} /\ h.decided = {}
<1>1. GameInv(g) /\ g \in GameState
    BY DEF Fits, Safe, Wiped
<1>2. GameInv(h) /\ h.phase \in {"LOBBY", "PROMPT"}
    BY <1>1, StartOutcome
<1>3. SameTable(g, h) /\ ScoreInv(h)
    BY <1>1, StartTable DEF Fits, Safe
<1>4. h.joined = g.joined
  <2>1. CASE h = g
    BY <2>1
  <2>2. CASE h # g
    BY <1>1, <2>2 DEF Start, BeginRound, GameState
  <2> QED
    BY <2>1, <2>2
<1>5. h.wants = {} /\ h.decided = {}
    BY <1>2, <1>3 DEF ScoreInv, LevelInv
<1>6. Safe(h) /\ SeatsKept(h) /\ SeatInv(h, ids, next)
    BY <1>2, <1>3, <1>4, SameTableSeats
       DEF Fits, Safe, SeatsKept, GameInv, SameTable
<1> QED
    BY <1>2, <1>3, <1>5, <1>6 DEF Fits

LEMMA PrepareFits ==
    ASSUME NEW g, NEW ids, NEW next, Fits(g, ids, next), g.phase = "OVER"
    PROVE  LET h == PrepareReplay(g)
           IN  /\ Fits(h, ids, next) /\ GameInv(h) /\ h.phase = "LOBBY"
               /\ h.connected = g.connected
<1> DEFINE h == PrepareReplay(g)
<1>1. GameInv(g) /\ g \in GameState
    BY DEF Fits, Safe, Wiped
<1>2. GameInv(h) /\ h.phase = "LOBBY"
    BY <1>1, PrepareReplayInv
<1>3. h.pid = g.pid /\ h.connected = g.connected /\ ScoreInv(h)
    BY <1>1, PrepareTable
<1>4. h.joined = g.connected \cap g.wants
    BY <1>1 DEF PrepareReplay, GameState
<1> HIDE DEF h
<1>5. Safe(h) /\ SeatsKept(h) /\ SeatInv(h, ids, next)
    BY <1>2, <1>3, <1>4 DEF Fits, Safe, SeatsKept, GameInv, SeatInv
<1> QED
    BY <1>2, <1>3, <1>5 DEF h, Fits

LEMMA EndFits ==
    ASSUME NEW g, NEW ids, NEW next, Fits(g, ids, next)
    PROVE  LET h == EndGame(g)
           IN  /\ Fits(h, ids, next) /\ GameInv(h) /\ h.phase = "OVER"
               /\ SameTable(g, h)
<1> DEFINE h == EndGame(g)
<1>1. GameInv(h) /\ h.phase = "OVER" /\ SameTable(g, h) /\ ScoreInv(h)
    BY EndGameInv, EndTable DEF Fits, Safe
<1> HIDE DEF h
<1>2. Safe(h)
    BY <1>1 DEF Safe, GameInv
<1> QED
    BY <1>1, <1>2, TableFits DEF h

\* A round that cannot be set up leaves the game in RESULTS.
LEMMA FinishFits ==
    ASSUME NEW g, NEW ids, NEW next, Fits(g, ids, next),
           NEW h \in FinishRound(g)
    PROVE  /\ Fits(h, ids, next) /\ SameTable(g, h)
           /\ g.phase # "RESULTS" => h = g
           /\ g.phase = "RESULTS" =>
                \/ h.phase \in {"OVER", "PROMPT"} /\ GameInv(h)
                \/ h.phase = "RESULTS"
<1>1. CASE g.phase # "RESULTS"
    BY <1>1 DEF FinishRound, SameTable
<1>2. CASE g.phase = "RESULTS"
  <2>1. g \in GameState /\ JoinedCount(g) >= MinPlayers
    BY <1>2, MembersEnough DEF Fits, Safe, Wiped, InGame, Phase
  <2>2. /\ h \in GameState
        /\ \/ h.phase = "OVER" /\ GameInv(h) /\ h.roundNumber = g.roundNumber
           \/ /\ h.phase = "PROMPT" /\ GameInv(h)
              /\ h.roundNumber = g.roundNumber + 1
           \/ h.phase = "RESULTS" /\ h.roundNumber = g.roundNumber
    BY <1>2, <2>1, FinishOutcome
  <2>3. SameTable(g, h) /\ h.score = g.score
    BY <1>2, <2>1, BeginTable, EndTable DEF FinishRound
  <2>4. h.phase = "RESULTS" =>
          h = g \/ (h.round = RoundReset /\ JoinedCount(h) = JoinedCount(g))
    <3>1. CASE IsFinalRound(g)
      BY <1>2, <2>1, <3>1, EndGameInv DEF FinishRound
    <3>2. CASE ~IsFinalRound(g)
      <4>1. h \in BeginRound(g)
        BY <1>2, <3>2 DEF FinishRound
      <4> QED
        BY <2>1, <4>1 DEF BeginRound, GameState, JoinedCount, Joined
    <3> QED
      BY <3>1, <3>2
  <2>5. VotesCounted(RoundReset) /\ ~RoundReset.on
    <3>1. \A o \in Slot : {v \in Slot : RoundReset.votedFor[v] = o} = {}
      BY NoSlotIsNone DEF RoundReset
    <3> QED
      BY <3>1, FS_EmptySet DEF VotesCounted, RoundReset
  <2>6. LevelInv(h)
    <3>1. g.roundNumber \in Nat /\ g.roundNumber >= 1
      BY <1>2, <2>1 DEF Fits, Safe, ScoreInv, LevelInv, GameState, InGame, Phase
    <3> QED
      BY <1>2, <2>2, <2>3, <3>1
         DEF Fits, Safe, ScoreInv, LevelInv, SameTable, InGame, Phase
  <2>7. BallotInv(h)
    BY <2>2, <2>4, <2>5 DEF BallotInv, Fits, Safe, ScoreInv
  <2>8. Safe(h)
    <3>1. h = g => Safe(h)
      BY DEF Fits
    <3>2. h.phase = "RESULTS" /\ h # g => Wiped(h)
      BY <2>1, <2>4, <2>5 DEF Wiped
    <3> QED
      BY <2>2, <2>6, <2>7, <3>1, <3>2 DEF Safe, ScoreInv
  <2>9. Fits(h, ids, next)
    BY <2>2, <2>3, <2>8, TableFits
  <2> QED
    BY <1>2, <2>2, <2>3, <2>9
<1> QED
    BY <1>1, <1>2

LEMMA WishFits ==
    ASSUME NEW g, NEW ids, NEW next, Fits(g, ids, next), NEW id, NEW wish,
           CanChooseReplay(g, id)
    PROVE  LET h == HandleReplayChoice(g, id, wish)
           IN  /\ Fits(h, ids, next) /\ GameInv(h) /\ h.phase = "OVER"
               /\ h.connected = g.connected
<1> DEFINE h == HandleReplayChoice(g, id, wish)
<1>1. g.phase = "OVER" /\ GameInv(g)
    BY DEF CanChooseReplay, Fits, Safe, Wiped
<1>2. GameInv(h) /\ h.phase = "OVER"
    BY <1>1, ReplayChoiceKeeps DEF Keeps
<1>3. h.pid = g.pid /\ h.connected = g.connected /\ ScoreInv(h)
    BY <1>1, ReplayChoiceTable DEF Fits, Safe
<1> HIDE DEF h
<1>4. Safe(h) /\ SeatsKept(h) /\ SeatInv(h, ids, next)
    BY <1>2, <1>3 DEF Fits, Safe, SeatsKept, GameInv, SeatInv
<1> QED
    BY <1>2, <1>3, <1>4 DEF h, Fits
----------------------------------------------------------------------------
(* The server's state.                                                     *)

Ids(s) == {s.cid[c] : c \in Slot} \ {0}

\* What holds of the state while a slot may be written to that is not open.
Held(s) ==
    /\ s \in ServerState
    /\ Fits(s.game, Ids(s), s.nextId)
    /\ s.nextId # 0
    /\ \A c, d \in Slot : s.cid[c] = s.cid[d] /\ s.cid[c] # 0 => c = d
    /\ s.pending = "NONE" <=> s.clock = "off"

\* What holds at every point of every handler.
Sane(s) == Held(s) /\ \A c \in Slot \ s.open : s.cid[c] = 0

SaneState == {s \in ServerState : Sane(s)}

\* Whoever waits for another match sees the countdown.
Settled(s) ==
    s.game.phase = "OVER" /\ ReplayCount(s.game) >= MinPlayers =>
        s.pending = "REPLAY_START" /\ ~AllWantReplay(s.game)

Same(s, t) ==
    /\ t.game = s.game /\ t.pending = s.pending
    /\ t.clock = s.clock /\ t.shutdown = s.shutdown

\* What a removal does, however many more it brings about.
Follows(s, t) ==
    /\ Sane(t)
    /\ t.nextId = s.nextId /\ t.running = s.running
    /\ Shrinks(s.game, t.game)
    /\ s.shutdown => t.shutdown
    /\ Settled(t) \/ Same(s, t)

LEMMA FollowsSelf ==
    ASSUME NEW s, Sane(s)
    PROVE  Follows(s, s)
    BY DEF Follows, Shrinks, Same

LEMMA FollowsTrans ==
    ASSUME NEW s, NEW t, NEW u, Follows(s, t), Follows(t, u)
    PROVE  Follows(s, u)
    BY DEF Follows, Shrinks, Same, Settled

\* A game that shrinks has no more players who want another match.
LEMMA ReplayCountShrinks ==
    ASSUME NEW g \in GameState, NEW h \in GameState, Shrinks(g, h)
    PROVE  ReplayCount(h) \in Nat /\ ReplayCount(g) \in Nat
             /\ ReplayCount(h) <= ReplayCount(g)
<1>1. /\ IsFiniteSet(g.connected \cap g.wants)
      /\ Cardinality(g.connected \cap g.wants) \in Nat
      /\ Cardinality(h.connected \cap h.wants) \in Nat
    BY SlotsFinite DEF GameState
<1>2. h.connected \cap h.wants \subseteq g.connected \cap g.wants
    BY DEF Shrinks
<1> QED
    BY <1>1, <1>2, FS_Subset DEF ReplayCount

LEMMA NoWishNoCount ==
    ASSUME NEW g, g.wants = {}
    PROVE  ReplayCount(g) = 0 /\ ~(ReplayCount(g) >= MinPlayers)
<1>1. g.connected \cap g.wants = {}
    OBVIOUS
<1> QED
    BY <1>1, FS_EmptySet, MinPlayersAssumption DEF ReplayCount

\* Nobody wants another match before this one is over.
LEMMA NoWishBeforeOver ==
    ASSUME NEW s, Held(s), s.game.phase # "OVER"
    PROVE  s.game.wants = {} /\ s.game.decided = {}
    BY DEF Held, Fits, Safe, ScoreInv, LevelInv

LEMMA NoWishSettled ==
    ASSUME NEW s, s.game.wants = {}
    PROVE  Settled(s)
    BY NoWishNoCount DEF Settled

----------------------------------------------------------------------------
(* Updates. *)

LEMMA GameChange ==
    ASSUME NEW s, Sane(s), NEW g, Fits(g, Ids(s), s.nextId)
    PROVE  LET t == [s EXCEPT !.game = g]
           IN  /\ Sane(t) /\ t.game = g /\ t.nextId = s.nextId
               /\ t.running = s.running /\ t.shutdown = s.shutdown
               /\ t.pending = s.pending /\ t.clock = s.clock
               /\ t.open = s.open /\ t.flaky = s.flaky /\ t.cid = s.cid
<1> DEFINE t == [s EXCEPT !.game = g]
<1>1. s \in ServerState /\ g \in GameState
    BY DEF Sane, Held, Fits, Safe
<1>2. /\ t \in ServerState /\ t.game = g /\ t.nextId = s.nextId
      /\ t.running = s.running /\ t.shutdown = s.shutdown
      /\ t.pending = s.pending /\ t.clock = s.clock
      /\ t.open = s.open /\ t.flaky = s.flaky /\ t.cid = s.cid
    BY <1>1 DEF ServerState
<1> HIDE DEF t
<1>3. Sane(t)
    BY <1>2 DEF Sane, Held, Ids
<1> QED
    BY <1>2, <1>3 DEF t

LEMMA ScheduleIs ==
    ASSUME NEW s, Sane(s), NEW a \in Pending \ {"NONE"}
    PROVE  LET t == Schedule(s, a)
           IN  /\ Sane(t) /\ t.game = s.game /\ t.nextId = s.nextId
               /\ t.running = s.running /\ t.shutdown = s.shutdown
               /\ t.pending = a /\ t.clock = "running"
               /\ t.open = s.open /\ t.flaky = s.flaky /\ t.cid = s.cid
<1> DEFINE t == Schedule(s, a)
<1>1. s \in ServerState
    BY DEF Sane, Held
<1>2. /\ t \in ServerState /\ t.game = s.game /\ t.nextId = s.nextId
      /\ t.running = s.running /\ t.shutdown = s.shutdown
      /\ t.pending = a /\ t.clock = "running"
      /\ t.open = s.open /\ t.flaky = s.flaky /\ t.cid = s.cid
    BY <1>1 DEF Schedule, ServerState, Timer
<1> HIDE DEF t
<1>3. Sane(t)
    BY <1>2 DEF Sane, Held, Ids
<1> QED
    BY <1>2, <1>3 DEF t

LEMMA ClearIs ==
    ASSUME NEW s, Sane(s)
    PROVE  LET t == ClearPending(s)
           IN  /\ Sane(t) /\ t.game = s.game /\ t.nextId = s.nextId
               /\ t.running = s.running /\ t.shutdown = s.shutdown
               /\ t.pending = "NONE" /\ t.clock = "off"
               /\ t.open = s.open /\ t.flaky = s.flaky /\ t.cid = s.cid
<1> DEFINE t == ClearPending(s)
<1>1. s \in ServerState
    BY DEF Sane, Held
<1>2. /\ t \in ServerState /\ t.game = s.game /\ t.nextId = s.nextId
      /\ t.running = s.running /\ t.shutdown = s.shutdown
      /\ t.pending = "NONE" /\ t.clock = "off"
      /\ t.open = s.open /\ t.flaky = s.flaky /\ t.cid = s.cid
    BY <1>1 DEF ClearPending, ServerState, Timer, Pending
<1> HIDE DEF t
<1>3. Sane(t)
    BY <1>2 DEF Sane, Held, Ids
<1> QED
    BY <1>2, <1>3 DEF t

LEMMA CancelIs ==
    ASSUME NEW s, Sane(s)
    PROVE  LET t == CancelCountdown(s)
           IN  /\ Sane(t) /\ t.game = s.game /\ t.nextId = s.nextId
               /\ t.running = s.running /\ t.shutdown = s.shutdown
               /\ t.pending # "REPLAY_START"
               /\ s.pending # "REPLAY_START" => t = s
               /\ s.pending = "REPLAY_START" => t.pending = "NONE"
               /\ t.open = s.open /\ t.flaky = s.flaky /\ t.cid = s.cid
    BY ClearIs DEF CancelCountdown

LEMMA ShutdownIs ==
    ASSUME NEW s, Sane(s)
    PROVE  LET t == [s EXCEPT !.shutdown = TRUE]
           IN  /\ Sane(t) /\ t.game = s.game /\ t.nextId = s.nextId
               /\ t.running = s.running /\ t.shutdown
               /\ t.pending = s.pending /\ t.clock = s.clock
               /\ t.open = s.open /\ t.flaky = s.flaky /\ t.cid = s.cid
<1> DEFINE t == [s EXCEPT !.shutdown = TRUE]
<1>1. s \in ServerState
    BY DEF Sane, Held
<1>2. /\ t \in ServerState /\ t.game = s.game /\ t.nextId = s.nextId
      /\ t.running = s.running /\ t.shutdown
      /\ t.pending = s.pending /\ t.clock = s.clock
      /\ t.open = s.open /\ t.flaky = s.flaky /\ t.cid = s.cid
    BY <1>1 DEF ServerState
<1> HIDE DEF t
<1>3. Sane(t)
    BY <1>2 DEF Sane, Held, Ids
<1> QED
    BY <1>2, <1>3 DEF t

\* The connection of a client closes and the game hears of it at once.
Closed(s, c, g) == [CloseSlot(s, c) EXCEPT !.game = g]

LEMMA CloseIs ==
    ASSUME NEW s, Held(s), NEW c \in Slot,
           \A d \in Slot \ (s.open \cup {c}) : s.cid[d] = 0,
           NEW g, Fits(g, Ids(s) \ {s.cid[c]}, s.nextId)
    PROVE  LET t == Closed(s, c, g)
           IN  /\ Sane(t) /\ t.game = g /\ t.nextId = s.nextId
               /\ t.running = s.running /\ t.shutdown = s.shutdown
               /\ t.pending = s.pending /\ t.clock = s.clock
               /\ t.open = s.open \ {c} /\ t.flaky = s.flaky \ {c}
               /\ t.cid[c] = 0
               /\ \A d \in Slot \ {c} : t.cid[d] = s.cid[d]
<1> DEFINE t == Closed(s, c, g)
<1>1. s \in ServerState /\ g \in GameState
    BY DEF Held, Fits, Safe
<1>2. [s.cid EXCEPT ![c] = 0] \in [Slot -> Nat] /\ s.cid \in [Slot -> Nat]
    BY <1>1 DEF ServerState
<1>3. t = [s EXCEPT !.open = @ \ {c}, !.flaky = @ \ {c},
                    !.cid = [@ EXCEPT ![c] = 0], !.game = g]
    BY <1>1 DEF Closed, CloseSlot, ServerState
<1>4. /\ t \in ServerState /\ t.game = g /\ t.nextId = s.nextId
      /\ t.running = s.running /\ t.shutdown = s.shutdown
      /\ t.pending = s.pending /\ t.clock = s.clock
      /\ t.open = s.open \ {c} /\ t.flaky = s.flaky \ {c}
      /\ t.cid = [s.cid EXCEPT ![c] = 0]
    BY <1>1, <1>2, <1>3 DEF ServerState
<1> HIDE DEF t
<1>5. t.cid[c] = 0 /\ \A d \in Slot \ {c} : t.cid[d] = s.cid[d]
    BY <1>2, <1>4
<1>6. Ids(t) = Ids(s) \ {s.cid[c]}
  <2>1. \A d \in Slot \ {c} : s.cid[d] # 0 => s.cid[d] # s.cid[c]
    BY DEF Held
  <2> QED
    BY <1>5, <2>1 DEF Ids
<1>7. Held(t)
    BY <1>4, <1>5, <1>6 DEF Held
<1>8. Sane(t)
    BY <1>4, <1>5, <1>7 DEF Sane
<1> QED
    BY <1>4, <1>5, <1>8 DEF t

----------------------------------------------------------------------------
(* What sends, while every removal it may bring about follows.             *)

DoesFollow(removal) ==
    \A s \in SaneState, c \in Slot : \A t \in removal[s][c] : Follows(s, t)

LEMMA BroadcastFollows ==
    ASSUME NEW removal, DoesFollow(removal), NEW s, Sane(s),
           NEW t \in BroadcastBy(removal, s)
    PROVE  Follows(s, t)
<1> DEFINE X == {u \in SaneState : Follows(s, u)}
<1>1. s \in X
    BY FollowsSelf DEF SaneState, Sane, Held
<1>2. ASSUME NEW u \in X, NEW c \in u.open \cap u.flaky \cap Slot
      PROVE  removal[u][c] \subseteq X
  <2> SUFFICES ASSUME NEW v \in removal[u][c] PROVE v \in X
    OBVIOUS
  <2>1. u \in SaneState /\ c \in Slot
    OBVIOUS
  <2>2. Follows(u, v)
    BY <2>1 DEF DoesFollow
  <2>3. Follows(s, v)
    BY <2>2, FollowsTrans
  <2> QED
    BY <2>3 DEF Follows, SaneState, Sane, Held
<1> HIDE DEF X
<1>3. BroadcastBy(removal, s) \subseteq X
    BY <1>1, <1>2, BroadcastStays
<1> QED
    BY <1>3 DEF X

\* A step after which nobody waits for another match follows.
LEMMA SettledFollows ==
    ASSUME NEW s, NEW t, Sane(t), t.nextId = s.nextId, t.running = s.running,
           Shrinks(s.game, t.game), s.shutdown => t.shutdown, Settled(t)
    PROVE  Follows(s, t)
    BY DEF Follows

LEMMA WishlessFollows ==
    ASSUME NEW s, NEW t, Follows(s, t), s.game.wants = {}
    PROVE  t.game.wants = {} /\ Settled(t)
<1>1. t.game.wants = {}
    BY DEF Follows, Shrinks
<1> QED
    BY <1>1, NoWishSettled

LEMMA AnnouncedFollows ==
    ASSUME NEW removal, DoesFollow(removal), NEW s, Sane(s), s.game.wants = {},
           NEW a \in Pending \ {"NONE"}, NEW t \in BroadcastBy(removal, s)
    PROVE  Follows(s, Schedule(t, a))
<1>1. Follows(s, t) /\ t.game.wants = {}
    BY BroadcastFollows, WishlessFollows
<1>2. Sane(t)
    BY <1>1 DEF Follows
<1> DEFINE u == Schedule(t, a)
<1>3. /\ Sane(u) /\ u.game = t.game /\ u.nextId = t.nextId
      /\ u.running = t.running /\ u.shutdown = t.shutdown
    BY <1>2, ScheduleIs
<1> HIDE DEF u
<1>4. Settled(u)
    BY <1>1, <1>3, NoWishSettled
<1>5. Follows(s, u)
    BY <1>1, <1>3, <1>4 DEF Follows
<1> QED
    BY <1>5 DEF u

LEMMA PhaseChangeFollows ==
    ASSUME NEW removal, DoesFollow(removal), NEW s, Sane(s), s.game.wants = {},
           NEW t \in HandlePhaseChangeBy(removal, s)
    PROVE  Follows(s, t)
<1>1. \A a \in {"TITLE_PROMPT", "VOTING_PROMPT", "ROUND_RESULTS"} :
        a \in Pending \ {"NONE"}
    BY DEF Pending, Prompts, Boards
<1>2. CASE s.game.phase = "REWRITE"
  <2>1. PICK u \in BroadcastBy(removal, s) : t = Schedule(u, "TITLE_PROMPT")
    BY <1>2 DEF HandlePhaseChangeBy
  <2> QED
    BY <1>1, <2>1, AnnouncedFollows
<1>3. CASE s.game.phase = "VOTING"
  <2>1. PICK u \in BroadcastBy(removal, s) : t = Schedule(u, "VOTING_PROMPT")
    BY <1>3 DEF HandlePhaseChangeBy
  <2> QED
    BY <1>1, <2>1, AnnouncedFollows
<1>4. CASE s.game.phase = "RESULTS"
  <2>1. t = Schedule(s, "ROUND_RESULTS")
    BY <1>4 DEF HandlePhaseChangeBy
  <2>2. /\ Sane(t) /\ t.game = s.game /\ t.nextId = s.nextId
        /\ t.running = s.running /\ t.shutdown = s.shutdown
    BY <1>1, <2>1, ScheduleIs
  <2>3. Settled(t)
    BY <2>2, NoWishSettled
  <2> QED
    BY <2>2, <2>3 DEF Follows, Shrinks
<1>5. CASE s.game.phase \notin {"REWRITE", "VOTING", "RESULTS"}
  <2>1. t = s
    BY <1>5 DEF HandlePhaseChangeBy
  <2> QED
    BY <2>1, FollowsSelf
<1> QED
    BY <1>2, <1>3, <1>4, <1>5

LEMMA AdvanceFollows ==
    ASSUME NEW removal, DoesFollow(removal), NEW s, Sane(s),
           NEW t \in AdvanceIfReadyBy(removal, s)
    PROVE  Follows(s, t)
<1>1. Safe(s.game) /\ Fits(s.game, Ids(s), s.nextId)
    BY DEF Sane, Held, Fits
<1>2. PICK g \in AdvancePhaseIfReady(s.game) :
        t \in LET u == [s EXCEPT !.game = g]
              IN  IF g.phase = s.game.phase THEN {u}
                  ELSE HandlePhaseChangeBy(removal, u)
    BY DEF AdvanceIfReadyBy
<1> DEFINE u == [s EXCEPT !.game = g]
<1>3. /\ Fits(g, Ids(s), s.nextId) /\ Shrinks(s.game, g) /\ SameTable(s.game, g)
      /\ g = s.game \/ (g.phase # s.game.phase /\ Moves(s.game, g))
    BY <1>1, AdvanceFits, AdvanceSafe
<1>4. /\ Sane(u) /\ u.game = g /\ u.nextId = s.nextId
      /\ u.running = s.running /\ u.shutdown = s.shutdown
      /\ u.pending = s.pending /\ u.clock = s.clock
    BY <1>3, GameChange
<1>5. t \in IF g.phase = s.game.phase THEN {u} ELSE HandlePhaseChangeBy(removal, u)
    BY <1>2
<1> HIDE DEF u
<1>6. CASE g = s.game
  <2>1. t = u /\ Same(s, u)
    BY <1>4, <1>5, <1>6 DEF Same
  <2> QED
    BY <1>3, <1>4, <2>1 DEF Follows
<1>7. CASE g.phase # s.game.phase /\ Moves(s.game, g)
  <2>1. g.wants = {}
    <3>1. g.phase # "OVER"
      BY <1>7 DEF Moves
    <3>2. Held(u)
      BY <1>4 DEF Sane
    <3> QED
      BY <1>4, <3>1, <3>2, NoWishBeforeOver
  <2>2. Follows(u, t)
    BY <1>4, <1>5, <1>7, <2>1, PhaseChangeFollows
  <2>3. Settled(u)
    BY <1>4, <2>1, NoWishSettled
  <2>4. Follows(s, u)
    BY <1>3, <1>4, <2>3, SettledFollows
  <2> QED
    BY <2>2, <2>4, FollowsTrans
<1> QED
    BY <1>3, <1>6, <1>7

LEMMA AfterStartFollows ==
    ASSUME NEW removal, DoesFollow(removal), NEW s, Sane(s), s.game.wants = {},
           NEW t \in AfterStartBy(removal, s)
    PROVE  Follows(s, t)
<1>1. CASE s.game.phase = "LOBBY"
    BY <1>1, BroadcastFollows DEF AfterStartBy
<1>2. CASE s.game.phase # "LOBBY"
  <2>1. PICK u \in BroadcastBy(removal, s) : t = Schedule(u, "QUESTION_PROMPT")
    BY <1>2 DEF AfterStartBy
  <2>2. "QUESTION_PROMPT" \in Pending \ {"NONE"}
    BY DEF Pending, Prompts
  <2> QED
    BY <2>1, <2>2, AnnouncedFollows
<1> QED
    BY <1>1, <1>2

\* Another match can only be wished for once the last one is over.
LEMMA EnoughMeansOver ==
    ASSUME NEW s, Held(s), ReplayCount(s.game) >= MinPlayers
    PROVE  s.game.phase = "OVER"
    BY NoWishBeforeOver, NoWishNoCount

LEMMA CountIsNat ==
    ASSUME NEW g \in GameState
    PROVE  ReplayCount(g) \in Nat
<1>1. g.connected \cap g.wants \in SUBSET Slot
    BY DEF GameState
<1> QED
    BY <1>1, SlotsFinite DEF ReplayCount

LEMMA TooFewSettled ==
    ASSUME NEW s, s.game \in GameState, ReplayCount(s.game) < MinPlayers
    PROVE  Settled(s)
    BY CountIsNat, MinPlayersAssumption DEF Settled

LEMMA TryStartFollows ==
    ASSUME NEW removal, DoesFollow(removal), NEW s, Sane(s),
           NEW t \in TryStartReplayBy(removal, s)
    PROVE  Follows(s, t) /\ Settled(t)
<1>1. s.game \in GameState /\ Fits(s.game, Ids(s), s.nextId)
    BY DEF Sane, Held, Fits, Safe
<1>2. CASE ReplayCount(s.game) < MinPlayers
  <2>1. Follows(s, t)
    BY <1>2, BroadcastFollows DEF TryStartReplayBy
  <2>2. Settled(s)
    BY <1>1, <1>2, TooFewSettled
  <2> QED
    BY <2>1, <2>2 DEF Follows, Same, Settled
<1>3. CASE ~(ReplayCount(s.game) < MinPlayers)
  <2>1. s.game.phase = "OVER"
    BY <1>1, <1>3, EnoughMeansOver, CountIsNat, MinPlayersAssumption DEF Sane
  <2>2. PICK g \in Start(PrepareReplay(s.game)) :
          t \in AfterStartBy(removal, [s EXCEPT !.game = g])
    BY <1>3 DEF TryStartReplayBy
  <2> DEFINE h == PrepareReplay(s.game)
             u == [s EXCEPT !.game = g]
  <2>3. Fits(h, Ids(s), s.nextId) /\ h.phase = "LOBBY" /\ h.connected = s.game.connected
    BY <1>1, <2>1, PrepareFits
  <2> HIDE DEF h
  <2>4. /\ Fits(g, Ids(s), s.nextId) /\ GameInv(g) /\ SameTable(h, g)
        /\ g.wants = {} /\ g.decided = {}
    BY <2>2, <2>3, StartFits DEF h
  <2>5. /\ Sane(u) /\ u.game = g /\ u.nextId = s.nextId
        /\ u.running = s.running /\ u.shutdown = s.shutdown
    BY <2>4, GameChange
  <2>6. t \in AfterStartBy(removal, u)
    BY <2>2
  <2> HIDE DEF u
  <2>7. Follows(u, t)
    BY <2>4, <2>5, <2>6, AfterStartFollows
  <2>8. Settled(u) /\ Shrinks(s.game, u.game)
    BY <2>3, <2>4, <2>5, NoWishSettled DEF Shrinks, SameTable
  <2>9. Follows(s, u)
    BY <2>5, <2>8, SettledFollows
  <2>10. Settled(t)
    BY <2>4, <2>5, <2>7, WishlessFollows
  <2> QED
    BY <2>7, <2>9, <2>10, FollowsTrans
<1> QED
    BY <1>2, <1>3

LEMMA WishersMayReplay ==
    ASSUME NEW g \in GameState
    PROVE  /\ PossibleReplayCount(g) \in Nat
           /\ ReplayCount(g) <= PossibleReplayCount(g)
<1> DEFINE P == {p \in g.connected : p \notin g.decided \/ p \in g.wants}
           W == g.connected \cap g.wants
<1>1. P \in SUBSET Slot /\ W \subseteq P
    BY DEF GameState
<1>2. IsFiniteSet(P) /\ Cardinality(P) \in Nat
    BY <1>1, SlotsFinite
<1>3. Cardinality(W) <= Cardinality(P)
  <2> HIDE DEF P, W
  <2> QED
    BY <1>1, <1>2, FS_Subset
<1> QED
    BY <1>2, <1>3 DEF ReplayCount, PossibleReplayCount

LEMMA CloseLobbyFollows ==
    ASSUME NEW removal, DoesFollow(removal), NEW s, Sane(s),
           PossibleReplayCount(s.game) < MinPlayers,
           NEW t \in CloseReplayLobbyBy(removal, s)
    PROVE  Follows(s, t) /\ Settled(t)
<1> DEFINE v == CancelCountdown(s)
<1>1. PICK u \in BroadcastBy(removal, v) : t = [u EXCEPT !.shutdown = TRUE]
    BY DEF CloseReplayLobbyBy
<1>2. /\ Sane(v) /\ v.game = s.game /\ v.nextId = s.nextId
      /\ v.running = s.running /\ v.shutdown = s.shutdown
    BY CancelIs
<1> HIDE DEF v
<1>3. Follows(v, u)
    BY <1>1, <1>2, BroadcastFollows
<1>4. /\ Sane(t) /\ t.game = u.game /\ t.nextId = u.nextId
      /\ t.running = u.running /\ t.shutdown
    BY <1>1, <1>3, ShutdownIs DEF Follows
<1>5. s.game \in GameState /\ u.game \in GameState
    BY <1>3 DEF Follows, Sane, Held, Fits, Safe
<1>6. ReplayCount(u.game) < MinPlayers
  <2>1. ReplayCount(s.game) < MinPlayers /\ ReplayCount(s.game) \in Nat
    BY <1>5, WishersMayReplay, CountIsNat, MinPlayersAssumption
  <2>2. Shrinks(s.game, u.game)
    BY <1>2, <1>3 DEF Follows
  <2> QED
    BY <1>5, <2>1, <2>2, ReplayCountShrinks, MinPlayersAssumption
<1>7. Settled(t)
    BY <1>4, <1>5, <1>6, TooFewSettled
<1> QED
    BY <1>2, <1>3, <1>4, <1>7 DEF Follows

LEMMA MaybeScheduleFollows ==
    ASSUME NEW removal, DoesFollow(removal), NEW s, Sane(s),
           NEW t \in MaybeScheduleReplayBy(removal, s)
    PROVE  Follows(s, t) /\ Settled(t)
<1> DEFINE v == CancelCountdown(s)
<1>1. /\ Sane(v) /\ v.game = s.game /\ v.nextId = s.nextId
      /\ v.running = s.running /\ v.shutdown = s.shutdown
    BY CancelIs
<1>2. s.game \in GameState
    BY DEF Sane, Held, Fits, Safe
<1>3. CASE t = s /\ (s.game.phase # "OVER" \/ (~AllWantReplay(s.game) /\ s.pending = "REPLAY_START"))
    BY <1>3, FollowsSelf DEF Settled
<1>4. CASE /\ t \in CloseReplayLobbyBy(removal, s)
           /\ PossibleReplayCount(s.game) < MinPlayers
    BY <1>4, CloseLobbyFollows
<1>5. CASE ReplayCount(s.game) < MinPlayers /\ t = v
  <2>1. Settled(t)
    BY <1>1, <1>2, <1>5, TooFewSettled
  <2> QED
    BY <1>1, <1>5, <2>1 DEF Follows, Shrinks
<1>6. CASE t \in TryStartReplayBy(removal, v)
  <2>1. Follows(v, t) /\ Settled(t)
    BY <1>1, <1>6, TryStartFollows
  <2> QED
    BY <1>1, <2>1 DEF Follows
<1>7. CASE /\ ~AllWantReplay(s.game) /\ s.game.phase = "OVER"
           /\ \E u \in BroadcastBy(removal, s) : t = Schedule(u, "REPLAY_START")
  <2>1. PICK u \in BroadcastBy(removal, s) : t = Schedule(u, "REPLAY_START")
    BY <1>7
  <2>2. Follows(s, u)
    BY <2>1, BroadcastFollows
  <2>3. "REPLAY_START" \in Pending \ {"NONE"}
    BY DEF Pending
  <2>4. /\ Sane(t) /\ t.game = u.game /\ t.nextId = u.nextId
        /\ t.running = u.running /\ t.shutdown = u.shutdown
        /\ t.pending = "REPLAY_START"
    BY <2>1, <2>2, <2>3, ScheduleIs DEF Follows
  <2>5. Settled(t)
    BY <1>7, <2>2, <2>4 DEF Settled, Follows, Same
  <2> QED
    BY <2>2, <2>4, <2>5 DEF Follows
<1> QED
    BY <1>3, <1>4, <1>5, <1>6, <1>7 DEF MaybeScheduleReplayBy

\* The removal of a client whose slot may be closed already: a JOIN line that
\* the removal of another overtakes seats a player with no connection.
LEMMA RemoveFollowsHeld ==
    ASSUME NEW removal, DoesFollow(removal), NEW s, Held(s), NEW c \in Slot,
           \A d \in Slot \ (s.open \cup {c}) : s.cid[d] = 0,
           NEW t \in RemoveClientBy(removal, s, c)
    PROVE  Follows(s, t)
<1> DEFINE id == s.cid[c]
           g == HandleDisconnect(s.game, id)
           u == Closed(s, c, g)
<1>1. /\ s \in ServerState /\ s.game \in GameState
      /\ Fits(s.game, Ids(s), s.nextId) /\ s.nextId \in Nat \ {0}
      /\ Ids(s) \in SUBSET Nat /\ id \in Nat
    BY DEF Held, Fits, Safe, ServerState, Ids
<1>2. u = [CloseSlot(s, c) EXCEPT !.game = HandleDisconnect(@, id)]
    BY <1>1 DEF Closed, CloseSlot, ServerState
<1>3. CASE id = 0
  <2>1. t = CloseSlot(s, c)
    BY <1>3 DEF RemoveClientBy
  <2>2. t = Closed(s, c, s.game)
    BY <1>1, <2>1 DEF Closed, CloseSlot, ServerState
  <2>3. Ids(s) \ {s.cid[c]} = Ids(s)
    BY <1>3 DEF Ids
  <2>4. Fits(s.game, Ids(s) \ {s.cid[c]}, s.nextId)
    BY <1>1, <2>3
  <2> HIDE DEF id, g, u
  <2>5. /\ Sane(t) /\ t.game = s.game /\ t.nextId = s.nextId
        /\ t.running = s.running /\ t.shutdown = s.shutdown
        /\ t.pending = s.pending /\ t.clock = s.clock
    BY <2>2, <2>4, CloseIs
  <2> QED
    BY <2>5 DEF Follows, Same, Shrinks
<1>4. CASE id # 0
  <2>1. id \in Ids(s) \ {0}
    BY <1>4 DEF Ids
  <2>2. /\ Fits(g, Ids(s) \ {id}, s.nextId) /\ Shrinks(s.game, g)
        /\ g.phase = s.game.phase \/ (s.game.phase # "LOBBY" /\ g.phase = "OVER")
    BY <1>1, <2>1, DisconnectSafe DEF Fits
  <2> HIDE DEF g
  <2>3. /\ Sane(u) /\ u.game = g /\ u.nextId = s.nextId
        /\ u.running = s.running /\ u.shutdown = s.shutdown
    <3>1. Fits(g, Ids(s) \ {s.cid[c]}, s.nextId)
      BY <2>2
    <3> QED
      BY <3>1, CloseIs
  <2> DEFINE told == IF SlotOf(u.game, id) = NoSlot THEN {u} ELSE BroadcastBy(removal, u)
             F(w) == MaybeScheduleReplayBy(removal, w)
             A(w) == AdvanceIfReadyBy(removal, w)
  <2>4. t \in IF s.game.phase \in InGame /\ u.game.phase = "OVER"
              THEN BroadcastBy(removal, ClearPending(u))
              ELSE IF s.game.phase = "OVER" THEN Then(Then(told, F), A)
              ELSE AdvanceIfReadyBy(removal, u)
    <3> HIDE DEF u
    <3> QED
      BY <1>2, <1>4 DEF RemoveClientBy
  <2> HIDE DEF u, id
  <2>5. ASSUME s.game.wants = {} /\ s.game.decided = {} PROVE u.game.wants = {} /\ Settled(u)
    BY <2>2, <2>3, <2>5, NoWishSettled DEF Shrinks
  <2>6. CASE s.game.phase \in InGame /\ u.game.phase = "OVER"
    <3> DEFINE v == ClearPending(u)
    <3>1. /\ Sane(v) /\ v.game = u.game /\ v.nextId = u.nextId
          /\ v.running = u.running /\ v.shutdown = u.shutdown
      BY <2>3, ClearIs
    <3>2. t \in BroadcastBy(removal, v)
      BY <2>4, <2>6
    <3> HIDE DEF v
    <3>3. v.game.wants = {}
      BY <2>5, <2>6, <3>1, NoWishBeforeOver DEF InGame
    <3>4. Follows(v, t) /\ Settled(v)
      BY <3>1, <3>2, <3>3, BroadcastFollows, NoWishSettled
    <3>5. Follows(s, v)
      BY <2>2, <2>3, <3>1, <3>4, SettledFollows
    <3> QED
      BY <3>4, <3>5, FollowsTrans
  <2>7. CASE s.game.phase = "OVER"
    <3>1. t \in Then(Then(told, F), A)
      BY <2>4, <2>7 DEF InGame
    <3>2. PICK w \in Then(told, F) : t \in A(w)
      BY <3>1 DEF Then
    <3>3. PICK v \in told : w \in F(v)
      BY <3>2 DEF Then
    <3>4. Follows(u, v)
      BY <2>3, <3>3, BroadcastFollows, FollowsSelf
    <3>5. Follows(v, w) /\ Settled(w)
      BY <3>3, <3>4, MaybeScheduleFollows DEF Follows
    <3>6. Follows(w, t)
      BY <3>2, <3>5, AdvanceFollows DEF Follows
    <3>7. Follows(s, w)
      <4>1. Sane(w)
        BY <3>5 DEF Follows
      <4>2. Follows(u, w)
        BY <3>4, <3>5, FollowsTrans
      <4>3. Shrinks(s.game, w.game)
        BY <2>2, <2>3, <4>2 DEF Follows, Shrinks
      <4> QED
        BY <2>3, <3>5, <4>1, <4>2, <4>3 DEF Follows
    <3> QED
      BY <3>6, <3>7, FollowsTrans
  <2>8. CASE s.game.phase # "OVER" /\ ~(s.game.phase \in InGame /\ u.game.phase = "OVER")
    <3>1. t \in AdvanceIfReadyBy(removal, u)
      BY <2>4, <2>8
    <3>2. Follows(u, t)
      BY <2>3, <3>1, AdvanceFollows
    <3>3. u.game.wants = {} /\ Settled(u)
      BY <2>5, <2>8, NoWishBeforeOver
    <3>4. Follows(s, u)
      BY <2>2, <2>3, <3>3, SettledFollows
    <3> QED
      BY <3>2, <3>4, FollowsTrans
  <2> QED
    BY <2>6, <2>7, <2>8
<1> QED
    BY <1>3, <1>4

LEMMA RemoveFollows ==
    ASSUME NEW removal, DoesFollow(removal), NEW s, Sane(s), NEW c \in Slot,
           NEW t \in RemoveClientBy(removal, s, c)
    PROVE  Follows(s, t)
    BY RemoveFollowsHeld DEF Sane

LEMMA RemovalFollows == DoesFollow(Removal)
<1> DEFINE Rel == {st \in SaneState \X SaneState : Follows(st[1], st[2])}
<1>1. SaneState \in SUBSET ServerState
    BY DEF SaneState
<1>2. \A s \in SaneState : Sane(s)
    BY DEF SaneState
<1>3. \A s \in SaneState : \A t : Follows(s, t) <=> <<s, t>> \in Rel
  <2> TAKE s \in SaneState
  <2> TAKE t
  <2>1. Follows(s, t) => t \in SaneState
    BY DEF Follows, Sane, Held, SaneState
  <2> QED
    BY <2>1
<1> HIDE DEF Rel
<1>4. ASSUME NEW removal,
             \A s \in SaneState, c \in Slot : \A t \in removal[s][c] : <<s, t>> \in Rel
      PROVE  \A s \in SaneState, c \in Slot :
               \A t \in RemoveClientBy(removal, s, c) : <<s, t>> \in Rel
  <2>1. DoesFollow(removal)
    BY <1>3, <1>4 DEF DoesFollow
  <2> QED
    BY <1>2, <1>3, <2>1, RemoveFollows
<1>5. \A s \in SaneState, c \in Slot : \A t \in Removal[s][c] : <<s, t>> \in Rel
    BY <1>1, <1>4, RemovalDoes
<1> QED
    BY <1>3, <1>5 DEF DoesFollow

----------------------------------------------------------------------------
(* Between two handlers.                                                   *)

Good(s) == Sane(s) /\ Settled(s)

\* Nobody waits for another match, whatever is pending.
Calm(s) == Sane(s) /\ ReplayCount(s.game) < MinPlayers

LEMMA CalmGood ==
    ASSUME NEW s, Calm(s)
    PROVE  Good(s)
<1>1. s.game \in GameState
    BY DEF Calm, Sane, Held, Fits, Safe
<1> QED
    BY <1>1, TooFewSettled DEF Calm, Good, Settled

LEMMA WishlessCalm ==
    ASSUME NEW s, Sane(s), s.game.wants = {}
    PROVE  Calm(s)
    BY NoWishNoCount, MinPlayersAssumption DEF Calm

LEMMA GoodCalm ==
    ASSUME NEW s, Good(s), s.game.phase # "OVER" \/ s.pending # "REPLAY_START"
    PROVE  Calm(s)
<1>1. CASE s.game.phase # "OVER"
    BY <1>1, NoWishBeforeOver, WishlessCalm DEF Good, Sane
<1>2. CASE s.game.phase = "OVER" /\ s.pending # "REPLAY_START"
  <2>1. s.game \in GameState
    BY DEF Good, Sane, Held, Fits, Safe
  <2>2. ~(ReplayCount(s.game) >= MinPlayers)
    BY <1>2 DEF Good, Settled
  <2> QED
    BY <2>1, <2>2, CountIsNat, MinPlayersAssumption DEF Calm, Good
<1> QED
    BY <1>1, <1>2

LEMMA GoodFollows ==
    ASSUME NEW s, Good(s), NEW t, Follows(s, t)
    PROVE  Good(t)
    BY DEF Good, Follows, Shrinks, Settled, Same

LEMMA CalmFollows ==
    ASSUME NEW s, Calm(s), NEW t, Follows(s, t)
    PROVE  Calm(t)
<1>1. Sane(t) /\ Shrinks(s.game, t.game)
    BY DEF Calm, Follows, Shrinks
<1>2. s.game \in GameState /\ t.game \in GameState
    BY <1>1 DEF Calm, Sane, Held, Fits, Safe
<1>3. ReplayCount(t.game) < MinPlayers
    BY <1>1, <1>2, ReplayCountShrinks, MinPlayersAssumption DEF Calm
<1> QED
    BY <1>1, <1>3 DEF Calm

LEMMA CalmTable ==
    ASSUME NEW s, Calm(s), NEW g, Fits(g, Ids(s), s.nextId),
           SameTable(s.game, g)
    PROVE  Calm([s EXCEPT !.game = g])
<1> DEFINE t == [s EXCEPT !.game = g]
<1>1. Sane(t) /\ t.game = g
    BY GameChange DEF Calm
<1> HIDE DEF t
<1>2. ReplayCount(t.game) = ReplayCount(s.game)
    BY <1>1 DEF ReplayCount, SameTable
<1>3. Calm(t)
    BY <1>1, <1>2 DEF Calm
<1> QED
    BY <1>3 DEF t

LEMMA CalmSchedule ==
    ASSUME NEW s, Calm(s), NEW a \in Pending \ {"NONE"}
    PROVE  Calm(Schedule(s, a))
    BY ScheduleIs DEF Calm

LEMMA CalmBroadcast ==
    ASSUME NEW s, Calm(s), NEW t \in Broadcast(s)
    PROVE  Calm(t)
<1>1. Follows(s, t)
    BY RemovalFollows, BroadcastFollows DEF Broadcast, Calm
<1> QED
    BY <1>1, CalmFollows

LEMMA GoodRemove ==
    ASSUME NEW s, Good(s), NEW c \in Slot, NEW t \in RemoveClient(s, c)
    PROVE  Good(t)
<1>1. Follows(s, t)
    BY RemovalFollows, RemoveFollows DEF RemoveClient, Good
<1> QED
    BY <1>1, GoodFollows

LEMMA GoodSend ==
    ASSUME NEW s, Good(s), NEW c \in Slot, NEW t \in SendTo(s, c)
    PROVE  Good(t)
    BY GoodRemove DEF SendTo

----------------------------------------------------------------------------
(* Pending actions.                                                        *)

LEMMA CalmWindow ==
    ASSUME NEW s, Calm(s), NEW w \in Window
    PROVE  Calm([s EXCEPT !.game = StartWindow(s.game, w)])
<1> DEFINE g == StartWindow(s.game, w)
<1>1. Fits(s.game, Ids(s), s.nextId) /\ BallotInv(s.game)
    BY DEF Calm, Sane, Held, Fits, Safe, ScoreInv
<1>2. Fits(g, Ids(s), s.nextId) /\ SameTable(s.game, g)
  <2>1. CASE s.game.phase # w
    BY <1>1, <2>1 DEF StartWindow, SameTable
  <2>2. CASE s.game.phase = w
    <3>1. g = SetDeadline(s.game, w, "running") /\ "running" \in Timer
      BY <2>2 DEF StartWindow, Timer
    <3>2. Recorded(s.game, g)
      <4>1. GameInv(s.game)
        BY <1>1, <2>2 DEF Fits, Safe, Wiped, Window
      <4> QED
        BY <1>1, <3>1, <4>1, DeadlineRecorded
    <3>3. s.game.phase # "LOBBY"
      BY <2>2 DEF Window
    <3> HIDE DEF g
    <3> QED
      BY <1>1, <3>2, <3>3, RecordedFits DEF Recorded
  <2> QED
    BY <2>1, <2>2
<1> HIDE DEF g
<1>3. Calm([s EXCEPT !.game = g])
    BY <1>2, CalmTable
<1> QED
    BY <1>3 DEF g

\* The game is changed in place.
LEMMA WindowInPlace ==
    ASSUME NEW s, Calm(s), NEW w
    PROVE  [s EXCEPT !.game = StartWindow(@, w)]
             = [s EXCEPT !.game = StartWindow(s.game, w)]
    BY DEF Calm, Sane, Held, ServerState

LEMMA PromptsCalm ==
    ASSUME NEW s, Calm(s)
    PROVE  /\ \A t \in QuestionPrompt(s) : Calm(t)
           /\ \A t \in TitlePrompt(s) : Calm(t)
           /\ \A t \in VotingPrompt(s) : Calm(t)
<1>1. ASSUME NEW t \in QuestionPrompt(s) PROVE Calm(t)
  <2>1. PICK u \in {[v EXCEPT !.game = StartWindow(@, "PROMPT")] : v \in Broadcast(s)} :
          t \in Broadcast(u)
    BY <1>1 DEF QuestionPrompt, Then
  <2>2. PICK v \in Broadcast(s) : u = [v EXCEPT !.game = StartWindow(@, "PROMPT")]
    BY <2>1
  <2>3. Calm(v)
    BY CalmBroadcast
  <2>4. Calm(u)
    BY <2>2, <2>3, CalmWindow, WindowInPlace DEF Window
  <2> QED
    BY <2>1, <2>4, CalmBroadcast
<1>2. ASSUME NEW t \in TitlePrompt(s) PROVE Calm(t)
  <2> DEFINE u == [s EXCEPT !.game = StartWindow(@, "REWRITE")]
  <2>1. Calm(u)
    BY CalmWindow, WindowInPlace DEF Window
  <2>2. t \in Broadcast(u)
    BY <1>2 DEF TitlePrompt
  <2> HIDE DEF u
  <2> QED
    BY <2>1, <2>2, CalmBroadcast
<1>3. ASSUME NEW t \in VotingPrompt(s) PROVE Calm(t)
  <2>1. PICK v \in Broadcast(s) : t = [v EXCEPT !.game = StartWindow(@, "VOTING")]
    BY <1>3 DEF VotingPrompt
  <2>2. Calm(v)
    BY CalmBroadcast
  <2> QED
    BY <2>1, <2>2, CalmWindow, WindowInPlace DEF Window
<1> QED
    BY <1>1, <1>2, <1>3

LEMMA ResultsCalm ==
    ASSUME NEW s, Calm(s), NEW t \in RoundResults(s)
    PROVE  Calm(t)
<1>1. PICK u \in Broadcast(s) :
        t = Schedule(u, IF IsFinalRound(u.game) THEN "FINAL_SCOREBOARD" ELSE "SCOREBOARD")
    BY DEF RoundResults
<1>2. \A a \in {"FINAL_SCOREBOARD", "SCOREBOARD"} : a \in Pending \ {"NONE"}
    BY DEF Pending, Boards
<1>3. Calm(u)
    BY CalmBroadcast
<1>4. PICK a \in {"FINAL_SCOREBOARD", "SCOREBOARD"} : t = Schedule(u, a)
    BY <1>1
<1> QED
    BY <1>2, <1>3, <1>4, CalmSchedule

\* A game that could not be set up for its next round is announced wiped and
\* ended behind it.
LEMMA NextRoundCalm ==
    ASSUME NEW s, Calm(s), NEW t \in NextRoundOrEnd(s)
    PROVE  Calm(t)
<1>1. PICK g \in FinishRound(s.game) :
        t \in LET u == [s EXCEPT !.game = g]
              IN  IF s.game.phase = "RESULTS" /\ g.phase # "RESULTS"
                  THEN {Schedule(v, "QUESTION_PROMPT") : v \in Broadcast(u)}
                  ELSE {[v EXCEPT !.game = EndGame(@)] : v \in Broadcast(u)}
    BY DEF NextRoundOrEnd
<1> DEFINE u == [s EXCEPT !.game = g]
<1>2. Fits(s.game, Ids(s), s.nextId)
    BY DEF Calm, Sane, Held
<1>3. /\ Fits(g, Ids(s), s.nextId) /\ SameTable(s.game, g)
    BY <1>2, FinishFits
<1>4. /\ Sane(u) /\ u.game = g /\ u.shutdown = s.shutdown
    BY <1>3, GameChange DEF Calm
<1>5. ReplayCount(u.game) < MinPlayers
    BY <1>3, <1>4 DEF Calm, SameTable, ReplayCount
<1>6. CASE s.game.phase = "RESULTS" /\ g.phase # "RESULTS"
  <2>1. Calm(u)
    BY <1>3, <1>4, <1>5, <1>6 DEF Calm
  <2> HIDE DEF u
  <2>2. PICK v \in Broadcast(u) : t = Schedule(v, "QUESTION_PROMPT")
    BY <1>1, <1>6 DEF u
  <2>3. "QUESTION_PROMPT" \in Pending \ {"NONE"}
    BY DEF Pending, Prompts
  <2> QED
    BY <2>1, <2>2, <2>3, CalmBroadcast, CalmSchedule
<1>7. CASE ~(s.game.phase = "RESULTS" /\ g.phase # "RESULTS")
  <2> HIDE DEF u
  <2>1. PICK v \in Broadcast(u) : t = [v EXCEPT !.game = EndGame(@)]
    BY <1>1, <1>7 DEF u
  <2>2. Follows(u, v)
    BY <1>4, <2>1, RemovalFollows, BroadcastFollows DEF Broadcast
  <2>3. ReplayCount(v.game) < MinPlayers
    <3>1. u.game \in GameState /\ v.game \in GameState
      BY <1>4, <2>2 DEF Follows, Sane, Held, Fits, Safe
    <3> QED
      BY <1>5, <2>2, <3>1, ReplayCountShrinks, MinPlayersAssumption DEF Follows
  <2> DEFINE h == EndGame(v.game)
             w == [v EXCEPT !.game = h]
  <2>4. Fits(h, Ids(v), v.nextId) /\ SameTable(v.game, h)
    BY <2>2, EndFits DEF Follows, Sane, Held
  <2>5. t = w
    BY <2>1, <2>2 DEF Follows, Sane, Held, ServerState
  <2> HIDE DEF h
  <2>6. Sane(w) /\ w.game = h /\ w.shutdown = v.shutdown
    BY <2>2, <2>4, GameChange DEF Follows
  <2> HIDE DEF w
  <2>7. Calm(w)
    BY <2>3, <2>4, <2>6 DEF Calm, ReplayCount, SameTable
  <2> QED
    BY <2>5, <2>7
<1> QED
    BY <1>6, <1>7


LEMMA ScoreboardsCalm ==
    ASSUME NEW s, Calm(s)
    PROVE  /\ \A t \in Scoreboard(s) : Calm(t)
           /\ \A t \in FinalScoreboard(s) : Calm(t)
<1>1. ASSUME NEW t \in Scoreboard(s) PROVE Calm(t)
  <2>1. PICK u \in Broadcast(s) : t \in NextRoundOrEnd(u)
    BY <1>1 DEF Scoreboard, Then
  <2> QED
    BY <2>1, CalmBroadcast, NextRoundCalm
<1>2. ASSUME NEW t \in FinalScoreboard(s) PROVE Calm(t)
  <2>1. PICK w \in Then(UNION {{[u EXCEPT !.game = g] : g \in FinishRound(u.game)} :
                                 u \in Broadcast(s)}, Broadcast) :
          t = Schedule(w, "GAME_OVER")
    BY <1>2 DEF FinalScoreboard
  <2>2. PICK v \in UNION {{[u EXCEPT !.game = g] : g \in FinishRound(u.game)} :
                            u \in Broadcast(s)} : w \in Broadcast(v)
    BY <2>1 DEF Then
  <2>3. PICK u \in Broadcast(s) : \E g \in FinishRound(u.game) : v = [u EXCEPT !.game = g]
    BY <2>2
  <2>8. PICK g \in FinishRound(u.game) : v = [u EXCEPT !.game = g]
    BY <2>3
  <2>4. Calm(u)
    BY <2>3, CalmBroadcast
  <2>5. Fits(g, Ids(u), u.nextId) /\ SameTable(u.game, g)
    BY <2>8, <2>4, FinishFits DEF Calm, Sane, Held
  <2>6. Calm(v)
    BY <2>8, <2>4, <2>5, CalmTable
  <2>7. "GAME_OVER" \in Pending \ {"NONE"}
    BY DEF Pending
  <2> QED
    BY <2>1, <2>2, <2>6, <2>7, CalmBroadcast, CalmSchedule
<1> QED
    BY <1>1, <1>2

LEMMA PendingGood ==
    ASSUME NEW s, Good(s), s.pending # "NONE", NEW t \in RunPending(s)
    PROVE  Good(t)
<1> DEFINE u == ClearPending(s)
<1>1. /\ Sane(u) /\ u.game = s.game /\ u.shutdown = s.shutdown
      /\ u.pending = "NONE"
    BY ClearIs DEF Good
<1>2. CASE s.pending = "REPLAY_START"
  <2>1. t \in TryStartReplayBy(Removal, u)
    BY <1>2 DEF RunPending, TryStartReplay
  <2> HIDE DEF u
  <2>2. Follows(u, t) /\ Settled(t)
    BY <1>1, <2>1, RemovalFollows, TryStartFollows
  <2> QED
    BY <2>2 DEF Good, Follows
<1>3. CASE s.pending # "REPLAY_START"
  <2>1. Calm(u)
    <3>1. Calm(s)
      BY <1>3, GoodCalm
    <3> HIDE DEF u
    <3> QED
      BY <1>1, <3>1 DEF Calm
  <2>2. t \in QuestionPrompt(u) \cup TitlePrompt(u) \cup VotingPrompt(u)
          \cup RoundResults(u) \cup Scoreboard(u) \cup FinalScoreboard(u)
          \cup Broadcast(u)
    <3>1. s.pending \in Pending
      BY DEF Good, Sane, Held, ServerState
    <3> HIDE DEF u
    <3> QED
      BY <1>3, <3>1 DEF RunPending, Pending, Prompts, Boards, u
  <2> HIDE DEF u
  <2>3. Calm(t)
    BY <2>1, <2>2, PromptsCalm, ResultsCalm, ScoreboardsCalm, CalmBroadcast
  <2> QED
    BY <2>3, CalmGood
<1> QED
    BY <1>2, <1>3

----------------------------------------------------------------------------
(* Deadlines and lines. *)

LEMMA DeadlineGood ==
    ASSUME NEW s, Good(s), NEW t \in EnforceDeadline(s)
    PROVE  Good(t)
<1>1. CASE PhaseDeadline(s.game) # "due"
    BY <1>1 DEF EnforceDeadline
<1>2. CASE PhaseDeadline(s.game) = "due"
  <2>1. PICK g \in ApplyPhaseTimeout(s.game) :
          t \in Then(Broadcast([s EXCEPT !.game = g]),
                     LAMBDA v : IF v.game.phase # s.game.phase
                                THEN HandlePhaseChange(v) ELSE {v})
    BY <1>2 DEF EnforceDeadline
  <2> DEFINE u == [s EXCEPT !.game = g]
  <2>2. PICK v \in Broadcast(u) :
          t \in IF v.game.phase # s.game.phase THEN HandlePhaseChange(v) ELSE {v}
    BY <2>1 DEF Then
  <2>3. s.game.phase \in Window
    BY <1>2 DEF PhaseDeadline
  <2>4. Fits(s.game, Ids(s), s.nextId) /\ GameInv(s.game)
    BY <2>3 DEF Good, Sane, Held, Fits, Safe, Wiped, Window
  <2>5. /\ Fits(g, Ids(s), s.nextId) /\ Shrinks(s.game, g)
    BY <1>2, <2>4, TimeoutFits
  <2>6. s.game.wants = {}
    BY <2>3, NoWishBeforeOver DEF Good, Sane, Window
  <2>7. Sane(u) /\ u.game = g
    BY <2>5, GameChange DEF Good
  <2> HIDE DEF u
  <2>8. u.game.wants = {}
    BY <2>5, <2>6, <2>7 DEF Shrinks
  <2>9. Follows(u, v) /\ v.game.wants = {}
    BY <2>2, <2>7, <2>8, RemovalFollows, BroadcastFollows, WishlessFollows
       DEF Broadcast
  <2>10. Good(v)
    BY <2>9, NoWishSettled DEF Follows, Good
  <2>11. CASE t = v
    BY <2>10, <2>11
  <2>12. CASE t \in HandlePhaseChange(v)
    <3>1. Follows(v, t)
      BY <2>9, <2>12, RemovalFollows, PhaseChangeFollows
         DEF HandlePhaseChange, Follows
    <3> QED
      BY <2>10, <3>1, GoodFollows
  <2> QED
    BY <2>2, <2>11, <2>12
<1> QED
    BY <1>1, <1>2

LEMMA TimersGood ==
    ASSUME NEW s, Good(s), NEW t \in RunTimers(s)
    PROVE  Good(t)
<1>1. PICK u \in RunPendingIfDue(s) : t \in EnforceDeadline(u)
    BY DEF RunTimers, Then
<1>2. Good(u)
    BY PendingGood DEF RunPendingIfDue
<1> QED
    BY <1>1, <1>2, DeadlineGood

JoinId(s, c) == IF s.cid[c] = 0 THEN s.nextId ELSE s.cid[c]

\* The state a JOIN line leads to before it is answered.
Admitted(s, c, n) ==
    [s EXCEPT !.game = HandleJoin(@, JoinId(s, c), n),
              !.cid[c] = JoinId(s, c),
              !.nextId = IF JoinId(s, c) = @ THEN @ + 1 ELSE @]

\* It may seat a player whose connection is gone by then.
LEMMA AdmitIs ==
    ASSUME NEW s, Sane(s), NEW c \in Slot, NEW n \in Name,
           JoinResult(s.game, JoinId(s, c), n) = "ok"
    PROVE  LET u == Admitted(s, c, n)
           IN  /\ Held(u) /\ u.game = HandleJoin(s.game, JoinId(s, c), n)
               /\ u.game.phase = "LOBBY"
               /\ u.open = s.open /\ u.flaky = s.flaky
               /\ u.pending = s.pending /\ u.shutdown = s.shutdown
               /\ \A d \in Slot \ (u.open \cup {c}) : u.cid[d] = 0
<1> DEFINE id == JoinId(s, c)
           g == HandleJoin(s.game, id, n)
           u == Admitted(s, c, n)
<1>1. /\ s \in ServerState /\ Fits(s.game, Ids(s), s.nextId)
      /\ s.nextId \in Nat \ {0} /\ Ids(s) \in SUBSET Nat
      /\ s.cid \in [Slot -> Nat]
    BY DEF Sane, Held, ServerState, Ids
<1>2. id \in Ids(s) \cup {s.nextId} /\ id # 0 /\ id \in Nat
    BY <1>1 DEF Ids, JoinId
<1>3. s.cid[c] \in {0, id} /\ (s.cid[c] # id => id = s.nextId)
    BY DEF JoinId
<1>4. u = [s EXCEPT !.game = g, !.cid = [@ EXCEPT ![c] = id],
                    !.nextId = NextId(id, s.nextId)]
    BY <1>1 DEF Admitted, ServerState, NextId
<1>5. JoinResult(s.game, id, n) = "ok"
    OBVIOUS
<1> HIDE DEF id, u
<1>6. /\ Fits(g, Ids(s) \cup {id}, NextId(id, s.nextId))
      /\ g.phase = "LOBBY"
  <2> DEFINE ids == Ids(s)
             next == s.nextId
             old == s.game
             h == HandleJoin(old, id, n)
  <2>1. /\ ids \in SUBSET Nat /\ next \in Nat \ {0} /\ Fits(old, ids, next)
        /\ id \in ids \cup {next} /\ id # 0
        /\ JoinResult(old, id, n) = "ok" /\ g = h
    BY <1>1, <1>2, <1>5
  <2> HIDE DEF ids, next, old, g
  <2>2. Fits(h, ids \cup {id}, NextId(id, next)) /\ h.phase = "LOBBY"
    BY <2>1, JoinFits
  <2> QED
    BY <2>1, <2>2 DEF ids, next
<1>7. g \in GameState
    BY <1>6 DEF Fits, Safe
<1>8. g = HandleJoin(s.game, JoinId(s, c), n)
    BY DEF id
<1> HIDE DEF g
<1>9. /\ u \in ServerState /\ u.game = g
      /\ u.cid = [s.cid EXCEPT ![c] = id]
      /\ u.nextId = NextId(id, s.nextId)
      /\ u.open = s.open /\ u.flaky = s.flaky
      /\ u.pending = s.pending /\ u.clock = s.clock
      /\ u.shutdown = s.shutdown /\ u.running = s.running
  <2>1. [s.cid EXCEPT ![c] = id] \in [Slot -> Nat]
    BY <1>1, <1>2
  <2>2. NextId(id, s.nextId) \in Nat
    BY <1>1 DEF NextId
  <2> QED
    BY <1>1, <1>4, <1>7, <2>1, <2>2 DEF ServerState
<1>10. u.cid[c] = id /\ \A d \in Slot \ {c} : u.cid[d] = s.cid[d]
    BY <1>1, <1>9
<1>11. Ids(u) = Ids(s) \cup {id}
    BY <1>2, <1>3, <1>10 DEF Ids
<1>12. \A d \in Slot \ {c} : s.cid[d] # id
  <2>1. CASE s.cid[c] = id
    BY <1>2, <2>1 DEF Sane, Held
  <2>2. CASE s.cid[c] # id
    <3>1. \A i \in Ids(s) : i # id
      BY <1>1, <1>3, <2>2 DEF Fits, SeatInv
    <3> QED
      BY <1>2, <3>1 DEF Ids
  <2> QED
    BY <2>1, <2>2
<1>13. Held(u)
  <2>1. \A d, e \in Slot : u.cid[d] = u.cid[e] /\ u.cid[d] # 0 => d = e
    BY <1>10, <1>12 DEF Sane, Held
  <2>2. u.nextId # 0
    BY <1>1, <1>9 DEF NextId
  <2>3. u.pending = "NONE" <=> u.clock = "off"
    BY <1>9 DEF Sane, Held
  <2> QED
    BY <1>6, <1>9, <1>11, <2>1, <2>2, <2>3 DEF Held
<1>14. \A d \in Slot \ (u.open \cup {c}) : u.cid[d] = 0
    BY <1>9, <1>10 DEF Sane
<1> QED
    BY <1>6, <1>8, <1>9, <1>13, <1>14 DEF u

\* The reply to a JOIN that seated a player without a connection fails and
\* takes it back.
LEMMA JoinGood ==
    ASSUME NEW s, Good(s), NEW c \in Slot, NEW n \in Name,
           NEW t \in HandleJoinLine(s, c, n)
    PROVE  Good(t)
<1> DEFINE u == Admitted(s, c, n)
           R == JoinResult(s.game, JoinId(s, c), n)
<1>1. CASE R = "ok"
  <2>1. t \in Then(SendTo(u, c), LAMBDA v : IF v.cid[c] = JoinId(s, c)
                                            THEN Broadcast(v) ELSE {v})
    BY <1>1 DEF HandleJoinLine, Admitted, JoinId
  <2>2. /\ Held(u) /\ u.game.phase = "LOBBY"
        /\ \A d \in Slot \ (u.open \cup {c}) : u.cid[d] = 0
    BY <1>1, AdmitIs DEF Good
  <2> HIDE DEF u
  <2>3. Settled(u)
    BY <2>2 DEF Settled
  <2>4. PICK v \in SendTo(u, c) : t \in Broadcast(v) \cup {v}
    BY <2>1 DEF Then
  <2>5. Good(v)
    <3>1. CASE c \in u.open /\ v = u
      BY <2>2, <2>3, <3>1 DEF Good, Sane
    <3>2. CASE v \in RemoveClient(u, c)
      <4>1. Follows(u, v)
        BY <2>2, <3>2, RemovalFollows, RemoveFollowsHeld DEF RemoveClient
      <4> QED
        BY <2>3, <4>1 DEF Follows, Good, Settled, Same
    <3> QED
      BY <2>4, <3>1, <3>2 DEF SendTo
  <2>6. CASE t \in Broadcast(v)
    <3>1. Follows(v, t)
      BY <2>5, <2>6, RemovalFollows, BroadcastFollows DEF Broadcast, Good
    <3> QED
      BY <2>5, <3>1, GoodFollows
  <2> QED
    BY <2>4, <2>5, <2>6
<1>2. CASE R = "invalid_state"
  <2>1. t \in RemoveClient(s, c)
    BY <1>2 DEF HandleJoinLine, JoinId
  <2> QED
    BY <2>1, GoodRemove
<1>3. CASE R \notin {"ok", "invalid_state"}
  <2>1. t \in SendTo(s, c)
    BY <1>3 DEF HandleJoinLine, JoinId
  <2> QED
    BY <2>1, GoodSend
<1> QED
    BY <1>1, <1>2, <1>3

LEMMA StartGood ==
    ASSUME NEW s, Good(s), NEW t \in MaybeStartGame(s)
    PROVE  Good(t)
<1>1. CASE ~CanStart(s.game)
    BY <1>1 DEF MaybeStartGame
<1>2. CASE CanStart(s.game)
  <2>1. PICK g \in Start(s.game) : t \in AfterStart([s EXCEPT !.game = g])
    BY <1>2 DEF MaybeStartGame
  <2> DEFINE u == [s EXCEPT !.game = g]
  <2>2. s.game.phase = "LOBBY" /\ Fits(s.game, Ids(s), s.nextId)
    BY <1>2 DEF CanStart, Good, Sane, Held
  <2>3. Fits(g, Ids(s), s.nextId) /\ g.wants = {}
    BY <2>2, StartFits
  <2>4. Sane(u) /\ u.game = g
    BY <2>3, GameChange DEF Good
  <2> HIDE DEF u
  <2>5. Good(u)
    BY <2>3, <2>4, NoWishSettled DEF Good
  <2>6. t \in AfterStartBy(Removal, u)
    BY <2>1 DEF AfterStart, u
  <2>7. Follows(u, t)
    BY <2>3, <2>4, <2>6, RemovalFollows, AfterStartFollows
  <2> QED
    BY <2>5, <2>7, GoodFollows
<1> QED
    BY <1>1, <1>2

LEMMA ReadyGood ==
    ASSUME NEW s, Good(s), NEW c \in Slot, NEW t \in HandleReadyLine(s, c)
    PROVE  Good(t)
<1>1. CASE t \in SendTo(s, c)
    BY <1>1, GoodSend
<1>2. CASE /\ CanReady(s.game, s.cid[c])
           /\ t \in Then(Broadcast([s EXCEPT !.game = HandleReady(@, s.cid[c])]),
                         MaybeStartGame)
  <2> DEFINE g == HandleReady(s.game, s.cid[c])
             u == [s EXCEPT !.game = g]
  <2>1. s.game.phase = "LOBBY" /\ Fits(s.game, Ids(s), s.nextId)
    BY <1>2 DEF CanReady, Good, Sane, Held
  <2>2. Fits(g, Ids(s), s.nextId) /\ g.phase = "LOBBY"
    BY <2>1, ReadyFits
  <2>3. u = [s EXCEPT !.game = HandleReady(@, s.cid[c])]
    BY DEF Good, Sane, Held, ServerState
  <2> HIDE DEF g
  <2>4. Sane(u) /\ u.game = g
    BY <2>2, GameChange DEF Good
  <2> HIDE DEF u
  <2>5. Good(u)
    BY <2>2, <2>4 DEF Good, Settled
  <2>6. PICK v \in Broadcast(u) : t \in MaybeStartGame(v)
    BY <1>2, <2>3 DEF Then
  <2>7. Follows(u, v)
    BY <2>4, <2>6, RemovalFollows, BroadcastFollows DEF Broadcast
  <2> QED
    BY <2>5, <2>6, <2>7, GoodFollows, StartGood
<1> QED
    BY <1>1, <1>2 DEF HandleReadyLine

LEMMA WishGood ==
    ASSUME NEW s, Good(s), NEW c \in Slot, NEW wish,
           NEW t \in HandleReplayLine(s, c, wish)
    PROVE  Good(t)
<1>1. CASE t \in SendTo(s, c)
    BY <1>1, GoodSend
<1>2. CASE /\ CanChooseReplay(s.game, s.cid[c])
           /\ t \in Then(Broadcast([s EXCEPT !.game =
                                      HandleReplayChoice(@, s.cid[c], wish)]),
                         MaybeScheduleReplay)
  <2> DEFINE g == HandleReplayChoice(s.game, s.cid[c], wish)
             u == [s EXCEPT !.game = g]
  <2>1. Fits(g, Ids(s), s.nextId)
    BY <1>2, WishFits DEF Good, Sane, Held
  <2>2. u = [s EXCEPT !.game = HandleReplayChoice(@, s.cid[c], wish)]
    BY DEF Good, Sane, Held, ServerState
  <2> HIDE DEF g
  <2>3. Sane(u)
    BY <2>1, GameChange DEF Good
  <2> HIDE DEF u
  <2>4. PICK v \in Broadcast(u) : t \in MaybeScheduleReplay(v)
    BY <1>2, <2>2 DEF Then
  <2>5. Follows(u, v)
    BY <2>3, <2>4, RemovalFollows, BroadcastFollows DEF Broadcast
  <2>6. Follows(v, t) /\ Settled(t)
    BY <2>4, <2>5, RemovalFollows, MaybeScheduleFollows
       DEF MaybeScheduleReplay, Follows
  <2> QED
    BY <2>6 DEF Follows, Good
<1> QED
    BY <1>1, <1>2 DEF HandleReplayLine

\* An answer is taken in a phase with a window only.
LEMMA AnswerGood ==
    ASSUME NEW s, Good(s), NEW c \in Slot, NEW g,
           g = s.game \/ (s.game.phase \in Window /\ Recorded(s.game, g)),
           NEW t \in Answered(s, c, g)
    PROVE  Good(t)
<1>1. CASE g = s.game
    BY <1>1, GoodSend DEF Answered
<1>2. CASE g # s.game
  <2> DEFINE u == [s EXCEPT !.game = g]
  <2>1. s.game.phase \in Window /\ Recorded(s.game, g)
    BY <1>2
  <2>2. Fits(g, Ids(s), s.nextId) /\ Shrinks(s.game, g)
    BY <2>1, RecordedFits DEF Good, Sane, Held, Window
  <2>3. s.game.wants = {}
    BY <2>1, NoWishBeforeOver DEF Good, Sane, Window
  <2>4. Sane(u) /\ u.game = g
    BY <2>2, GameChange DEF Good
  <2>5. t \in AdvanceIfReadyBy(Removal, u)
    BY <1>2 DEF Answered, AdvanceIfReady
  <2> HIDE DEF u
  <2>6. Good(u)
    BY <2>2, <2>3, <2>4, NoWishSettled DEF Good, Shrinks
  <2>7. Follows(u, t)
    BY <2>4, <2>5, RemovalFollows, AdvanceFollows
  <2> QED
    BY <2>6, <2>7, GoodFollows
<1> QED
    BY <1>1, <1>2

LEMMA AnswersRecorded ==
    ASSUME NEW s, Good(s), NEW c \in Slot, NEW option,
           NEW g \in {HandleSubmit(s.game, s.cid[c]), HandleRewrite(s.game, s.cid[c]),
                      HandleVote(s.game, s.cid[c], VoteTargetId(s.game, option))}
    PROVE  g = s.game \/ (s.game.phase \in Window /\ Recorded(s.game, g))
<1> SUFFICES ASSUME g # s.game
             PROVE  s.game.phase \in Window /\ Recorded(s.game, g)
    OBVIOUS
<1>1. s.game.phase \in Window
    BY DEF HandleSubmit, HandleRewrite, HandleVote, VoteAccepted, Window
<1>2. Fits(s.game, Ids(s), s.nextId) /\ BallotInv(s.game)
    BY DEF Good, Sane, Held, Fits, Safe, ScoreInv
<1>3. GameInv(s.game) /\ SeatInv(s.game, Ids(s), s.nextId)
    BY <1>1, <1>2 DEF Fits, Safe, Wiped, Window
<1> QED
    BY <1>1, <1>2, <1>3, SubmitRecorded, RewriteRecorded, VoteRecorded

LEMMA DispatchGood ==
    ASSUME NEW s, Good(s), NEW c \in Slot, NEW m \in Message,
           NEW t \in Dispatch(s, c, m)
    PROVE  Good(t)
<1>1. CASE m.type = "JOIN"
  <2>1. m.name \in Name
    BY <1>1 DEF Message
  <2> QED
    BY <1>1, <2>1, JoinGood DEF Dispatch
<1>2. CASE m.type = "READY"
    BY <1>2, ReadyGood DEF Dispatch
<1>3. CASE m.type = "REPLAY"
    BY <1>3, WishGood DEF Dispatch
<1>4. CASE m.type \in {"SUBMIT", "TITLE", "VOTE"}
  <2>1. PICK g \in {HandleSubmit(s.game, s.cid[c]), HandleRewrite(s.game, s.cid[c]),
                    HandleVote(s.game, s.cid[c], VoteTargetId(s.game, m.option))} :
          t \in Answered(s, c, g)
    BY <1>4 DEF Dispatch
  <2>2. g = s.game \/ (s.game.phase \in Window /\ Recorded(s.game, g))
    BY AnswersRecorded
  <2> QED
    BY <2>1, <2>2, AnswerGood
<1>5. CASE m.type = "BAD_JOIN"
    BY <1>5, GoodRemove DEF Dispatch
<1>6. CASE m.type = "OTHER"
    BY <1>6, GoodSend DEF Dispatch
<1>7. m.type \in {"JOIN", "READY", "REPLAY", "SUBMIT", "TITLE", "VOTE", "BAD_JOIN", "OTHER"}
    BY DEF Message
<1> QED
    BY <1>1, <1>2, <1>3, <1>4, <1>5, <1>6, <1>7

----------------------------------------------------------------------------
(* The select loop. *)

ServerInv == Good(server)

LEMMA BootGood == Good(Boot)
<1>1. /\ GameReset \in GameState /\ GameInv(GameReset)
    BY GameResetInv DEF GameInv
<1>2. Boot \in ServerState
    BY <1>1 DEF Boot, ServerState, Pending, Timer
<1>3. Ids(Boot) = {}
    BY DEF Ids, Boot
<1>4. ScoreInv(GameReset)
    BY DEF ScoreInv, LevelInv, BallotInv, GameReset, InGame
<1>5. Fits(GameReset, {}, 1)
  <2>1. SeatInv(GameReset, {}, 1)
    BY DEF SeatInv, GameReset
  <2>2. Safe(GameReset) /\ SeatsKept(GameReset)
    BY <1>1, <1>4 DEF Safe, SeatsKept, GameReset
  <2> QED
    BY <2>1, <2>2 DEF Fits
<1>6. Sane(Boot)
  <2>1. /\ Boot.game = GameReset /\ Boot.nextId = 1
        /\ Boot.pending = "NONE" /\ Boot.clock = "off"
        /\ \A c \in Slot : Boot.cid[c] = 0
    BY DEF Boot
  <2>2. Held(Boot)
    BY <1>2, <1>3, <1>5, <2>1 DEF Held
  <2> QED
    BY <2>1, <2>2 DEF Sane
<1>7. Settled(Boot)
    BY DEF Settled, Boot, GameReset
<1> QED
    BY <1>6, <1>7 DEF Good

\* A change that leaves the game, the clients and what is pending alone.
LEMMA LoopChange ==
    ASSUME NEW s, Good(s), NEW t \in ServerState,
           t.game = s.game, t.cid = s.cid, t.nextId = s.nextId,
           t.pending = s.pending, t.shutdown = s.shutdown,
           t.clock = "off" <=> s.clock = "off",
           s.open \subseteq t.open
    PROVE  Good(t)
<1>1. Ids(t) = Ids(s)
    BY DEF Ids
<1>2. Held(t)
    BY <1>1 DEF Good, Sane, Held
<1>3. Sane(t)
    BY <1>2 DEF Good, Sane
<1> QED
    BY <1>3 DEF Good, Settled

LEMMA AcceptGood ==
    ASSUME ServerInv, Accept
    PROVE  ServerInv'
<1> DEFINE t == [server EXCEPT !.open = @ \cup {FirstSlot(Slot \ @)}]
<1>1. server' = t /\ Good(server) /\ server \in ServerState
    BY DEF Accept, ServerInv, Good, Sane, Held
<1>2. FirstSlot(Slot \ server.open) \in Slot
  <2>1. Slot \ server.open # {}
    BY <1>1 DEF Accept, ServerState
  <2> QED
    BY <2>1, FirstSlotExists
<1>3. Good(t)
  <2>1. /\ t \in ServerState /\ t.game = server.game /\ t.cid = server.cid
        /\ t.nextId = server.nextId /\ t.pending = server.pending
        /\ t.shutdown = server.shutdown /\ t.clock = server.clock
        /\ server.open \subseteq t.open
    BY <1>1, <1>2 DEF ServerState
  <2> HIDE DEF t
  <2> QED
    BY <1>1, <2>1, LoopChange
<1> QED
    BY <1>1, <1>3 DEF ServerInv

LEMMA StopGood ==
    ASSUME ServerInv, Stop
    PROVE  ServerInv'
<1> DEFINE t == [server EXCEPT !.running = FALSE]
<1>1. server' = t /\ Good(server) /\ server \in ServerState
    BY DEF Stop, ServerInv, Good, Sane, Held
<1>2. Good(t)
  <2>1. /\ t \in ServerState /\ t.game = server.game /\ t.cid = server.cid
        /\ t.nextId = server.nextId /\ t.pending = server.pending
        /\ t.shutdown = server.shutdown /\ t.clock = server.clock
        /\ server.open \subseteq t.open
    BY <1>1 DEF ServerState
  <2> HIDE DEF t
  <2> QED
    BY <1>1, <2>1, LoopChange
<1> QED
    BY <1>1, <1>2 DEF ServerInv

LEMMA GoBadGood ==
    ASSUME ServerInv, NEW c \in Slot, GoBad(c)
    PROVE  ServerInv'
<1> DEFINE t == [server EXCEPT !.flaky = @ \cup {c}]
<1>1. server' = t /\ Good(server) /\ server \in ServerState
    BY DEF GoBad, ServerInv, Good, Sane, Held
<1>2. Good(t)
  <2>1. /\ t \in ServerState /\ t.game = server.game /\ t.cid = server.cid
        /\ t.nextId = server.nextId /\ t.pending = server.pending
        /\ t.shutdown = server.shutdown /\ t.clock = server.clock
        /\ server.open \subseteq t.open
    BY <1>1 DEF ServerState
  <2> HIDE DEF t
  <2> QED
    BY <1>1, <2>1, LoopChange
<1> QED
    BY <1>1, <1>2 DEF ServerInv

LEMMA PendingDueGood ==
    ASSUME ServerInv, PendingComesDue
    PROVE  ServerInv'
<1> DEFINE t == [server EXCEPT !.clock = "due"]
<1>1. /\ server' = t /\ Good(server) /\ server \in ServerState
      /\ server.clock = "running"
    BY DEF PendingComesDue, ServerInv, Good, Sane, Held
<1>2. Good(t)
  <2>1. /\ t \in ServerState /\ t.game = server.game /\ t.cid = server.cid
        /\ t.nextId = server.nextId /\ t.pending = server.pending
        /\ t.shutdown = server.shutdown /\ t.clock = "due"
        /\ server.open \subseteq t.open
    BY <1>1 DEF ServerState, Timer
  <2> HIDE DEF t
  <2> QED
    BY <1>1, <2>1, LoopChange
<1> QED
    BY <1>1, <1>2 DEF ServerInv

LEMMA DeadlineDueGood ==
    ASSUME ServerInv, DeadlineComesDue
    PROVE  ServerInv'
<1> DEFINE g == SetDeadline(server.game, server.game.phase, "due")
           t == [server EXCEPT !.game = g]
<1>1. /\ Good(server) /\ server \in ServerState
      /\ server.game.phase \in Window
    BY DEF DeadlineComesDue, PhaseDeadline, ServerInv, Good, Sane, Held
<1>2. server' = t
    BY <1>1 DEF DeadlineComesDue, ServerState
<1>3. Recorded(server.game, g)
  <2>1. GameInv(server.game) /\ BallotInv(server.game)
    BY <1>1 DEF Good, Sane, Held, Fits, Safe, ScoreInv, Wiped, Window
  <2> QED
    BY <1>1, <2>1, DeadlineRecorded DEF Timer
<1> HIDE DEF g
<1>4. Fits(g, Ids(server), server.nextId) /\ Shrinks(server.game, g)
    BY <1>1, <1>3, RecordedFits DEF Good, Sane, Held, Window
<1>5. Sane(t) /\ t.game = g
    BY <1>1, <1>4, GameChange DEF Good
<1>6. g.wants = {}
    BY <1>1, <1>4, NoWishBeforeOver DEF Good, Sane, Window, Shrinks
<1> HIDE DEF t
<1>7. Good(t)
    BY <1>5, <1>6, NoWishSettled DEF Good
<1> QED
    BY <1>2, <1>7 DEF ServerInv

LEMMA LineGood ==
    ASSUME ServerInv, NEW c \in Slot, NEW m \in Message, Line(c, m)
    PROVE  ServerInv'
<1>1. PICK t \in Then(RunTimers(server), LAMBDA u : Dispatch(u, c, m)) : server' = t
    BY DEF Line, HandleLine
<1>2. PICK u \in RunTimers(server) : t \in Dispatch(u, c, m)
    BY <1>1 DEF Then
<1>3. Good(t)
    BY <1>2, TimersGood, DispatchGood DEF ServerInv
<1> QED
    BY <1>1, <1>3 DEF ServerInv

LEMMA ServerStep ==
    ASSUME ServerInv, [Next]_vars
    PROVE  ServerInv'
<1>1. CASE Accept
    BY <1>1, AcceptGood
<1>2. CASE Idle
  <2>1. PICK t \in RunTimers(server) : server' = t
    BY <1>2 DEF Idle
  <2>2. Good(t)
    BY <2>1, TimersGood DEF ServerInv
  <2> QED
    BY <2>1, <2>2 DEF ServerInv
<1>3. CASE Stop
    BY <1>3, StopGood
<1>4. CASE PendingComesDue
    BY <1>4, PendingDueGood
<1>5. CASE DeadlineComesDue
    BY <1>5, DeadlineDueGood
<1>6. ASSUME NEW c \in Slot, HangUp(c) PROVE ServerInv'
  <2>1. PICK t \in RemoveClient(server, c) : server' = t
    BY <1>6 DEF HangUp
  <2>2. Good(t)
    BY <2>1, GoodRemove DEF ServerInv
  <2> QED
    BY <2>1, <2>2 DEF ServerInv
<1>7. ASSUME NEW c \in Slot, GoBad(c) PROVE ServerInv'
    BY <1>7, GoBadGood
<1>8. ASSUME NEW c \in Slot, NEW m \in Message, Line(c, m) PROVE ServerInv'
    BY <1>8, LineGood
<1>9. CASE UNCHANGED vars
    BY <1>9 DEF vars, ServerInv
<1> QED
    BY <1>1, <1>2, <1>3, <1>4, <1>5, <1>6, <1>7, <1>8, <1>9 DEF Next

LEMMA ServerHolds == Spec => []ServerInv
<1>1. Init => ServerInv
    BY BootGood DEF Init, ServerInv
<1>2. ServerInv /\ [Next]_vars => ServerInv'
    BY ServerStep
<1> QED
    BY <1>1, <1>2, PTL DEF Spec

----------------------------------------------------------------------------
(* Theorems. *)

\* Whatever lines arrive and whichever sends fail, in whatever depth of
\* removals within removals, the server's fields keep their types: no timer
\* runs for nothing, no slot or id is out of range.
THEOREM ServerTypeCorrect == Spec => []TypeOK
<1>1. ServerInv => TypeOK
    BY DEF ServerInv, Good, Sane, Held, TypeOK
<1> QED
    BY <1>1, ServerHolds, PTL

LEMMA OneConnection ==
    ASSUME NEW s, Good(s), NEW p \in s.game.connected
    PROVE  Cardinality({c \in s.open : s.cid[c] = s.game.pid[p]}) = 1
<1>1. s \in ServerState /\ SeatInv(s.game, Ids(s), s.nextId)
    BY DEF Good, Sane, Held, Fits
<1>2. s.game.pid[p] \in Ids(s)
    BY <1>1 DEF SeatInv
<1>3. PICK c \in Slot : s.cid[c] = s.game.pid[p] /\ s.cid[c] # 0
    BY <1>2 DEF Ids
<1>4. c \in s.open
    BY <1>3 DEF Good, Sane
<1>5. \A d \in s.open : s.cid[d] = s.game.pid[p] => d = c
  <2>1. s.open \subseteq Slot
    BY <1>1 DEF ServerState
  <2> QED
    BY <1>3, <2>1 DEF Good, Sane, Held
<1>6. {d \in s.open : s.cid[d] = s.game.pid[p]} = {c}
    BY <1>3, <1>4, <1>5
<1> QED
    BY <1>6, FS_Singleton

\* Client table and player table never drift apart: each connected player is
\* exactly one open connection's, no two connections are the same player's,
\* a closed slot belongs to nobody, and in the lobby nobody sits whose
\* connection is gone.
THEOREM TablesHold == Spec => []TablesAgree
<1>1. ASSUME ServerInv PROVE TablesAgree
  <2>1. Good(server) /\ server \in ServerState
    BY <1>1 DEF ServerInv, Good, Sane, Held
  <2>2. \A p \in g0.connected :
          Cardinality({c \in server.open : server.cid[c] = g0.pid[p]}) = 1
    BY <2>1, OneConnection DEF g0
  <2>3. \A c, d \in server.open :
          server.cid[c] = server.cid[d] /\ server.cid[c] # 0 => c = d
    <3>1. server.open \subseteq Slot
      BY <2>1 DEF ServerState
    <3> QED
      BY <2>1, <3>1 DEF Good, Sane, Held
  <2>4. \A c \in Slot \ server.open : server.cid[c] = 0
    BY <2>1 DEF Good, Sane
  <2>5. g0.phase = "LOBBY" => g0.joined \subseteq g0.connected
    BY <2>1 DEF Good, Sane, Held, Fits, SeatsKept, g0
  <2> QED
    BY <2>2, <2>3, <2>4, <2>5 DEF TablesAgree
<1>2. ServerInv => TablesAgree
    BY <1>1
<1> QED
    BY <1>2, ServerHolds, PTL

\* As soon as enough players want another match the countdown to it runs, and
\* if they are all there are it has begun: through every vote, departure and
\* failed send, whether or not the announcements of the countdown themselves
\* cost players.
THEOREM CountdownRuns == Spec => []EnoughWantCountdown
<1>1. ServerInv => EnoughWantCountdown
    BY DEF ServerInv, Good, Sane, Held, Settled, EnoughWantCountdown, g0
<1> QED
    BY <1>1, ServerHolds, PTL
============================================================================
