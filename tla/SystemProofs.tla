---------------------------- MODULE SystemProofs ----------------------------
(***************************************************************************)
(* Theorems about server and clients together, for any number of players,  *)
(* rounds and lines in flight.                                             *)
(*                                                                         *)
(* The invariant (SysInv) is a statement about one connection, for each of *)
(* them: which questions and answers may be in its channels, and what its  *)
(* client waits for, given the window the server opened last (InStep), and *)
(* where the play-again question is (Polled).  Every step of the server    *)
(* disturbs many connections in the same way (Carries, Gets) and at most   *)
(* one in its own (Taken, Served); a step of a client only its own         *)
(* (ReceiveConn, TypeConn, CloseConn).                                     *)
(***************************************************************************)
EXTENDS System, TimerProofs, SequenceTheorems

----------------------------------------------------------------------------
(* Channels. *)

UpLine ==
    [type : {"JOIN"}, name : Name]
    \cup [type : {"REPLAY"}, wish : BOOLEAN]
    \cup [type : {"READY", "EOF"}]
    \cup [type : {"SUBMIT", "TITLE"}, question : Nat]
    \cup [type : {"VOTE"}, option : Nat, question : Nat]

DownLine ==
    [type : {"WELCOME", "LOBBY_ROSTER", "PLAY_AGAIN"}]
    \cup [type : {"PROMPT", "TITLE_PROMPT"}, question : Nat]
    \cup [type : {"VOTE_OPEN"}, options : Nat, question : Nat]

LEMMA TailOff ==
    ASSUME NEW X, NEW q \in Seq(X), q # <<>>
    PROVE  /\ 1 \in DOMAIN q /\ Head(q) = q[1] /\ q[1] \in X
           /\ Tail(q) \in Seq(X)
           /\ \A i \in DOMAIN Tail(q) :
                i \in Nat /\ i + 1 \in DOMAIN q /\ Tail(q)[i] = q[i + 1]
<1>1. Len(q) \in Nat /\ Len(q) # 0 /\ DOMAIN q = 1 .. Len(q)
    BY EmptySeq, LenProperties
<1>2. /\ Tail(q) \in Seq(X) /\ Len(Tail(q)) = Len(q) - 1
      /\ \A i \in 1 .. Len(Tail(q)) : Tail(q)[i] = q[i + 1]
    BY HeadTailProperties
<1>3. DOMAIN Tail(q) = 1 .. Len(Tail(q))
    BY <1>2, LenProperties
<1>4. 1 \in 1 .. Len(q)
    BY <1>1
<1>5. Head(q) = q[1] /\ q[1] \in X
    BY <1>4, ElementOfSeq
<1>6. \A i \in 1 .. Len(Tail(q)) : i \in Nat /\ i + 1 \in 1 .. Len(q)
    BY <1>1, <1>2
<1> QED
    BY <1>1, <1>2, <1>3, <1>4, <1>5, <1>6

\* A line is added at the end.
LEMMA LineAdded ==
    ASSUME NEW X, NEW q \in Seq(X), NEW x \in X
    PROVE  /\ Append(q, x) \in Seq(X) /\ q \o <<x>> = Append(q, x)
           /\ Len(q) \in Nat /\ DOMAIN q = 1 .. Len(q)
           /\ DOMAIN Append(q, x) = 1 .. (Len(q) + 1)
           /\ \A i \in DOMAIN q : Append(q, x)[i] = q[i]
           /\ Append(q, x)[Len(q) + 1] = x
<1>1. Len(q) \in Nat /\ DOMAIN q = 1 .. Len(q)
    BY LenProperties
<1>2. Append(q, x) \in Seq(X) /\ q \o <<x>> = Append(q, x)
    OBVIOUS
<1>3. Len(Append(q, x)) = Len(q) + 1
    OBVIOUS
<1>4. DOMAIN Append(q, x) = 1 .. (Len(q) + 1)
    BY <1>2, <1>3, LenProperties
<1>5. \A i \in 1 .. Len(q) : Append(q, x)[i] = q[i]
    BY <1>1
<1>6. Append(q, x)[Len(q) + 1] = x
    BY <1>1
<1> QED
    BY <1>1, <1>2, <1>4, <1>5, <1>6

----------------------------------------------------------------------------
(* Types. *)

LEMMA ClientTypes ==
    /\ C!ClientInit \in C!ClientState
    /\ \A k \in C!ClientState, m \in DownLine :
         C!HandleServerLine(k, m) \in C!ClientState
<1>1. C!ClientInit \in C!ClientState
    BY DEF C!ClientInit, C!ClientState
<1>2. ASSUME NEW k \in C!ClientState, NEW m \in DownLine
      PROVE  C!HandleServerLine(k, m) \in C!ClientState
  <2>1. CASE m.type = "WELCOME"
    BY <2>1 DEF C!HandleServerLine, C!ClientState, C!Flag
  <2>2. CASE m.type = "LOBBY_ROSTER"
    BY <2>2 DEF C!HandleServerLine, C!ClientState, C!Flag
  <2>3. CASE m.type = "PROMPT"
    BY <1>2, <2>3 DEF C!HandleServerLine, C!Ask, C!ClientState, C!Flag,
                      C!Window, DownLine
  <2>4. CASE m.type = "TITLE_PROMPT"
    BY <1>2, <2>4 DEF C!HandleServerLine, C!Ask, C!ClientState, C!Flag,
                      C!Window, DownLine
  <2>5. CASE m.type = "VOTE_OPEN"
    BY <1>2, <2>5 DEF C!HandleServerLine, C!Ask, C!ClientState, C!Flag,
                      C!Window, DownLine
  <2>6. CASE m.type = "PLAY_AGAIN"
    BY <2>6 DEF C!HandleServerLine, C!ClientState, C!Flag, C!Window
  <2> QED
    BY <2>1, <2>2, <2>3, <2>4, <2>5, <2>6 DEF DownLine
<1> QED
    BY <1>1, <1>2

LEMMA ModeIs ==
    ASSUME NEW k
    PROVE  C!Mode(k) \in {"join", "username", "replay", "submission", "title",
                          "vote", "ready", "wait"}
    BY DEF C!Mode

\* What a client that takes a line from its user sends.
LEMMA TypedLine ==
    ASSUME NEW k \in C!ClientState, NEW text \in Text, text \in C!Accepted(k)
    PROVE  /\ C!HandleStdinLine(k) \in C!ClientState
           /\ \/ C!Mode(k) = "join" /\ C!LinesSent(k, text) = <<>>
              \/ \E m \in UpLine : C!LinesSent(k, text) = <<m>>
<1>1. k.question \in Nat /\ OptionNumber[text] \in Nat
    BY TextAssumption DEF C!ClientState
<1>2. C!Mode(k) # "wait"
    BY DEF C!Accepted
<1>3. C!HandleStdinLine(k) \in C!ClientState
    BY <1>2, ModeIs DEF C!HandleStdinLine, C!ClientState, C!Flag
<1>4. CASE C!Mode(k) = "join"
    BY <1>3, <1>4 DEF C!LinesSent
<1>5. CASE C!Mode(k) = "username"
  <2>1. text \in Name
    BY <1>5 DEF C!Accepted
  <2> QED
    BY <1>3, <1>5, <2>1 DEF C!LinesSent, UpLine
<1>6. CASE C!Mode(k) = "replay"
  <2>1. [type |-> "REPLAY", wish |-> text = "y"] \in UpLine
    BY DEF UpLine
  <2> QED
    BY <1>3, <1>6, <2>1 DEF C!LinesSent
<1>7. CASE C!Mode(k) = "submission"
  <2>1. [type |-> "SUBMIT", question |-> k.question] \in UpLine
    BY <1>1 DEF UpLine
  <2> QED
    BY <1>3, <1>7, <2>1 DEF C!LinesSent
<1>8. CASE C!Mode(k) = "title"
  <2>1. [type |-> "TITLE", question |-> k.question] \in UpLine
    BY <1>1 DEF UpLine
  <2> QED
    BY <1>3, <1>8, <2>1 DEF C!LinesSent
<1>9. CASE C!Mode(k) = "vote"
  <2>1. [type |-> "VOTE", option |-> OptionNumber[text],
         question |-> k.question] \in UpLine
    BY <1>1 DEF UpLine
  <2> QED
    BY <1>3, <1>9, <2>1 DEF C!LinesSent
<1>10. CASE C!Mode(k) = "ready"
  <2>1. [type |-> "READY"] \in UpLine
    BY DEF UpLine
  <2> QED
    BY <1>3, <1>10, <2>1 DEF C!LinesSent
<1> QED
    BY <1>2, <1>4, <1>5, <1>6, <1>7, <1>8, <1>9, <1>10, ModeIs

----------------------------------------------------------------------------
(* The server, where no send fails. *)

Solid(s) == Good(s) /\ Timed(s) /\ Punctual(s) /\ Lone(s)

LEMMA SolidFacts ==
    ASSUME NEW s, Solid(s)
    PROVE  /\ s \in ServerState /\ s.game \in GameState /\ Held(s) /\ Sane(s)
           /\ s.flaky = {} /\ Quiet(s) /\ s.pending \in Pending
           /\ Sound(s.game) /\ Owned(s.game) /\ Awake(s) /\ Settled(s)
           /\ s.game.phase # "RESULTS" => GameInv(s.game)
           /\ \A c \in Slot \ s.open : s.cid[c] = 0
           /\ s.cid \in [Slot -> Nat]
<1>1. /\ Held(s) /\ Sane(s) /\ s.flaky = {} /\ Sound(s.game) /\ Awake(s)
      /\ Settled(s) /\ \A c \in Slot \ s.open : s.cid[c] = 0
    BY DEF Solid, Good, Sane, Lone, Timed, Punctual
<1>2. s \in ServerState /\ Safe(s.game)
    BY <1>1 DEF Held, Fits
<1>3. s.game.phase # "RESULTS" => GameInv(s.game)
    BY <1>2 DEF Safe, Wiped
<1> QED
    BY <1>1, <1>2, <1>3 DEF Quiet, Sound, ServerState

LEMMA SolidBoot == Solid(Boot)
<1>1. Boot \in ServerState
    BY BootGood DEF Good, Sane, Held
<1>2. Boot.flaky = {}
    BY DEF Boot
<1> QED
    BY <1>1, <1>2, BootGood, BootTimed, LoneState DEF Solid

LEMMA SolidPending ==
    ASSUME NEW s, Solid(s), NEW t \in RunPendingIfDue(s)
    PROVE  Solid(t)
<1>1. CASE s.pending # "NONE" /\ s.clock # "running"
  <2>1. t \in RunPending(s)
    BY <1>1 DEF RunPendingIfDue
  <2>2. Good(t)
    BY <1>1, <2>1, PendingGood DEF Solid
  <2>3. Timed(t) /\ Punctual(t)
    BY <1>1, <2>1, PendingTicks, SolidFacts DEF Solid
  <2>4. Lone(t)
    BY <1>1, <2>1, LonePending, SolidFacts DEF Solid, Unasked
  <2> QED
    BY <2>2, <2>3, <2>4 DEF Solid
<1> QED
    BY <1>1 DEF RunPendingIfDue

LEMMA LoneDeadline ==
    ASSUME NEW s, Lone(s), NEW t \in EnforceDeadline(s)
    PROVE  /\ Lone(t)
           /\ PhaseDeadline(s.game) # "due" => t = s
           /\ PhaseDeadline(s.game) = "due" =>
                \E g \in ApplyPhaseTimeout(s.game) :
                  LET u == [s EXCEPT !.game = g]
                  IN  IF u.game.phase # s.game.phase
                      THEN t \in HandlePhaseChange(u) ELSE t = u
<1>1. CASE PhaseDeadline(s.game) # "due"
    BY <1>1 DEF EnforceDeadline
<1>2. CASE PhaseDeadline(s.game) = "due"
  <2>1. PICK g \in ApplyPhaseTimeout(s.game) :
          t \in Then(Broadcast([s EXCEPT !.game = g]),
                     LAMBDA v : IF v.game.phase # s.game.phase
                                THEN HandlePhaseChange(v) ELSE {v})
    BY <1>2 DEF EnforceDeadline
  <2> DEFINE u == [s EXCEPT !.game = g]
  <2>2. PICK v \in Broadcast(u) :
          t \in (IF v.game.phase # s.game.phase
                 THEN HandlePhaseChange(v) ELSE {v})
    BY <2>1 DEF Then
  <2>3. v = u /\ Unasked(s, v)
    BY LoneSend
  <2> HIDE DEF u
  <2>4. IF u.game.phase # s.game.phase THEN t \in HandlePhaseChange(u) ELSE t = u
    BY <2>2, <2>3
  <2>5. Lone(t)
    BY <2>3, <2>4, LonePhaseChange DEF HandlePhaseChange, Unasked
  <2> QED
    BY <1>2, <2>4, <2>5 DEF u
<1> QED
    BY <1>1, <1>2

LEMMA SolidDeadline ==
    ASSUME NEW s, Solid(s), NEW t \in EnforceDeadline(s)
    PROVE  Solid(t) /\ Undue(t)
<1>1. Good(t) /\ Lone(t)
    BY DeadlineGood, LoneDeadline DEF Solid
<1>2. CASE Undue(s)
    BY <1>2, LoneDeadline DEF Solid, Undue
<1>3. CASE ~Undue(s)
    BY <1>1, <1>3, DeadlineCloses DEF Solid, InTime
<1> QED
    BY <1>2, <1>3

LEMMA SolidRemove ==
    ASSUME NEW s, Solid(s), NEW c \in Slot, NEW t \in RemoveClient(s, c)
    PROVE  Solid(t)
<1>1. Good(t) /\ Handled(s, t) /\ Shuts(s, t)
    BY GoodRemove, RemoveHandled, LoneRemove, SolidFacts DEF Solid
<1> QED
    BY <1>1, SolidFacts DEF Solid, Handled, Shuts

LEMMA SolidDispatch ==
    ASSUME NEW s, Solid(s), NEW c \in Slot, NEW m \in Message,
           NEW t \in Dispatch(s, c, m)
    PROVE  Solid(t)
<1>1. Good(t) /\ Handled(s, t) /\ Shuts(s, t)
    BY DispatchGood, DispatchHandled, LoneDispatch DEF Solid
<1> QED
    BY <1>1, SolidFacts DEF Solid, Handled, Shuts

\* What a line of a channel is to the server's handlers.
LEMMA RequestIs ==
    ASSUME NEW s, Solid(s), NEW c \in Slot, NEW m \in UpLine,
           m.type \in Requests
    PROVE  \E q \in Message : Dispatch(s, c, Request(s.game, m)) = Dispatch(s, c, q)
<1>1. CASE m.type \in {"JOIN", "REPLAY", "READY"}
  <2>1. m \in Message
    BY <1>1 DEF UpLine, Message
  <2>2. Request(s.game, m) = m
    BY <1>1 DEF Request
  <2> QED
    BY <2>1, <2>2
<1>2. CASE m.type \in {"SUBMIT", "TITLE"}
  <2> DEFINE q == [type |-> m.type]
  <2>1. q \in Message
    BY <1>2 DEF Message
  <2>2. Request(s.game, m) = m
    BY <1>2 DEF Request
  <2>3. Dispatch(s, c, m) = Dispatch(s, c, q)
    BY <1>2 DEF Dispatch
  <2> QED
    BY <2>1, <2>2, <2>3
<1>3. CASE m.type = "VOTE"
  <2> DEFINE o == OptionOwner(s.game, m.option)
             v == [type |-> "VOTE", option |-> o]
             q == [type |-> "OTHER"]
  <2>1. Request(s.game, m) = v
    BY <1>3 DEF Request
  <2>2. CASE o \in Slot
    BY <2>1, <2>2 DEF Message
  <2>3. CASE o \notin Slot
    <3>1. s.game.round.reveal \subseteq Slot
      BY SolidFacts DEF GameState, RoundState
    <3>2. VoteTargetId(s.game, o) = 0
      BY <2>3, <3>1 DEF VoteTargetId
    <3>3. HandleVote(s.game, s.cid[c], 0) = s.game
      BY DEF HandleVote, VoteAccepted
    <3> HIDE DEF o
    <3>4. Dispatch(s, c, v) = Dispatch(s, c, q)
      BY <3>2, <3>3 DEF Dispatch, Answered
    <3>5. q \in Message
      BY DEF Message
    <3> QED
      BY <2>1, <3>4, <3>5
  <2> QED
    BY <2>2, <2>3
<1> QED
    BY <1>1, <1>2, <1>3 DEF Requests

LEMMA SolidRequest ==
    ASSUME NEW s, Solid(s), NEW c \in Slot, NEW m \in UpLine,
           m.type \in Requests, NEW t \in Dispatch(s, c, Request(s.game, m))
    PROVE  Solid(t)
<1>1. PICK q \in Message : t \in Dispatch(s, c, q)
    BY RequestIs
<1> QED
    BY <1>1, SolidDispatch

LEMMA SolidTurns ==
    ASSUME NEW s, Solid(s), NEW t, Good(t), t.flaky = {}, Turns(s, t)
    PROVE  Solid(t)
<1>1. t \in ServerState
    BY DEF Good, Sane, Held
<1> QED
    BY <1>1, SolidFacts, LoneState DEF Solid, Turns

LEMMA AcceptSolid ==
    ASSUME Solid(server), Accept
    PROVE  Solid(server')
<1>1. Good(server')
    BY AcceptGood DEF Solid, ServerInv
<1>2. /\ server'.game = server.game /\ server'.pending = server.pending
      /\ server'.flaky = {}
    BY SolidFacts DEF Accept, ServerState
<1>3. Turns(server, server')
    BY <1>2, LoopMoves DEF Solid, Firm
<1> QED
    BY <1>1, <1>2, <1>3, SolidTurns

LEMMA StopSolid ==
    ASSUME Solid(server), Stop
    PROVE  Solid(server')
<1>1. Good(server')
    BY StopGood DEF Solid, ServerInv
<1>2. /\ server'.game = server.game /\ server'.pending = server.pending
      /\ server'.flaky = {}
    BY SolidFacts DEF Stop, ServerState
<1>3. Turns(server, server')
    BY <1>2, LoopMoves DEF Solid, Firm
<1> QED
    BY <1>1, <1>2, <1>3, SolidTurns

LEMMA TickSolid ==
    ASSUME Solid(server), PendingComesDue \/ DeadlineComesDue
    PROVE  Solid(server')
<1>1. CASE PendingComesDue
  <2>1. Good(server')
    BY <1>1, PendingDueGood DEF Solid, ServerInv
  <2>2. /\ server'.game = server.game /\ server'.pending = server.pending
        /\ server'.flaky = {}
    BY <1>1, SolidFacts DEF PendingComesDue, ServerState
  <2>3. Turns(server, server')
    BY <2>2, LoopMoves DEF Solid, Firm
  <2> QED
    BY <2>1, <2>2, <2>3, SolidTurns
<1>2. CASE DeadlineComesDue
  <2>1. Good(server')
    BY <1>2, DeadlineDueGood DEF Solid, ServerInv
  <2>2. /\ server' = [server EXCEPT !.game = SetDeadline(@, server.game.phase, "due")]
        /\ PhaseDeadline(server.game) = "running"
    BY <1>2 DEF DeadlineComesDue
  <2>3. server'.flaky = {}
    BY <2>2, SolidFacts DEF ServerState
  <2>4. Turns(server, server')
    BY <2>2, DeadlineMoves DEF Solid
  <2> QED
    BY <2>1, <2>3, <2>4, SolidTurns
<1> QED
    BY <1>1, <1>2

----------------------------------------------------------------------------
(* The channels and the programs at both of their ends. *)

TypeInv ==
    /\ Solid(server)
    /\ client \in [Slot -> C!ClientState]
    /\ up \in [Slot -> Seq(UpLine)]
    /\ down \in [Slot -> Seq(DownLine)]
    /\ late \in [Slot -> Nat]

LEMMA TypeStart ==
    ASSUME SysInit
    PROVE  TypeInv
<1>1. Solid(server)
    BY SolidBoot DEF SysInit
<1>2. client \in [Slot -> C!ClientState] /\ late \in [Slot -> Nat]
    BY ClientTypes DEF SysInit
<1>3. up \in [Slot -> Seq(UpLine)] /\ down \in [Slot -> Seq(DownLine)]
    BY EmptySeq DEF SysInit
<1> QED
    BY <1>1, <1>2, <1>3 DEF TypeInv

\* What the server may send to one client in one step.
LEMMA SentLines ==
    ASSUME NEW s, NEW t, Solid(t), NEW c, NEW m, NEW d \in Slot
    PROVE  /\ TimerLines(s, t, d) \in Seq(DownLine)
           /\ RequestLines(s, t, c, m, d) \in Seq(DownLine)
<1>1. <<>> \in Seq(DownLine) /\ \A x \in DownLine : <<x>> \in Seq(DownLine)
    BY EmptySeq
<1>2. t.game.roundNumber \in Nat
    BY SolidFacts DEF GameState
<1>3. Cardinality(t.game.round.reveal) \in Nat
    BY SolidFacts, SlotsFinite DEF GameState, RoundState
<1>4. TimerLines(s, t, d) \in Seq(DownLine)
  <2>1. QuestionLines(t, d) \in Seq(DownLine)
    <3>1. [type |-> "PROMPT", question |-> t.game.roundNumber] \in DownLine
      BY <1>2 DEF DownLine
    <3> QED
      BY <1>1, <3>1 DEF QuestionLines
  <2>2. TitleLines(t, d) \in Seq(DownLine)
    <3>1. [type |-> "TITLE_PROMPT", question |-> t.game.roundNumber] \in DownLine
      BY <1>2 DEF DownLine
    <3> QED
      BY <1>1, <3>1 DEF TitleLines
  <2>3. VoteLines(t, d) \in Seq(DownLine)
    <3>1. [type |-> "VOTE_OPEN", options |-> Cardinality(t.game.round.reveal),
           question |-> t.game.roundNumber] \in DownLine
      BY <1>2, <1>3 DEF DownLine
    <3> QED
      BY <1>1, <3>1 DEF VoteLines
  <2>4. ReplayLines(t, d) \in Seq(DownLine)
    <3>1. [type |-> "PLAY_AGAIN"] \in DownLine
      BY DEF DownLine
    <3> QED
      BY <1>1, <3>1 DEF ReplayLines
  <2> QED
    BY <1>1, <2>1, <2>2, <2>3, <2>4 DEF TimerLines, PendingLines
<1>5. RequestLines(s, t, c, m, d) \in Seq(DownLine)
  <2>1. RosterLines(t, d) \in Seq(DownLine)
    <3>1. [type |-> "LOBBY_ROSTER"] \in DownLine
      BY DEF DownLine
    <3> QED
      BY <1>1, <3>1 DEF RosterLines
  <2>2. <<[type |-> "WELCOME"]>> \in Seq(DownLine)
    <3>1. [type |-> "WELCOME"] \in DownLine
      BY DEF DownLine
    <3> QED
      BY <1>1, <3>1
  <2>3. JoinLines(t, c, d) \in Seq(DownLine)
    BY <1>1, <2>1, <2>2, ConcatProperties DEF JoinLines
  <2> QED
    BY <1>1, <2>3 DEF RequestLines
<1> QED
    BY <1>4, <1>5

LEMMA DeliverTypes ==
    ASSUME down \in [Slot -> Seq(DownLine)], NEW lines \in [Slot -> Seq(DownLine)],
           Deliver(lines)
    PROVE  down' \in [Slot -> Seq(DownLine)]
<1>1. \A d \in Slot : down[d] \o lines[d] \in Seq(DownLine)
    BY ConcatProperties
<1>2. <<>> \in Seq(DownLine)
    BY EmptySeq
<1> QED
    BY <1>1, <1>2 DEF Deliver

LEMMA ConsumeTypes ==
    ASSUME TypeInv, NEW c \in Slot, up[c] # <<>>, Consume(c)
    PROVE  /\ client' \in [Slot -> C!ClientState]
           /\ up' \in [Slot -> Seq(UpLine)]
           /\ late' \in [Slot -> Nat]
<1>1. Tail(up[c]) \in Seq(UpLine)
    BY TailOff DEF TypeInv
<1>2. client' \in [Slot -> C!ClientState]
    BY ClientTypes DEF TypeInv, Consume, Gone
<1>3. up' \in [Slot -> Seq(UpLine)]
    BY <1>1, EmptySeq DEF TypeInv, Consume, Gone
<1>4. late' \in [Slot -> Nat]
    BY DEF TypeInv, Consume, Gone
<1> QED
    BY <1>2, <1>3, <1>4

\* Both parts of a step that handles a line: the timers, and then the line.
LEMMA LineSteps ==
    ASSUME TypeInv, NEW c \in Slot, SysLine(c)
    PROVE  \E a \in RunPendingIfDue(server) : \E t \in EnforceDeadline(a) :
             LET m == Request(t.game, Head(up[c])) IN
             /\ Solid(a) /\ Solid(t) /\ Undue(t)
             /\ Head(up[c]) \in UpLine /\ Head(up[c]).type \in Requests
             /\ server' \in Dispatch(t, c, m) /\ Solid(server')
             /\ Deliver([d \in Slot |-> TimerLines(server, a, d)
                                       \o RequestLines(t, server', c, m, d)])
<1>1. Head(up[c]) \in UpLine /\ Head(up[c]).type \in Requests
    BY TailOff DEF SysLine, Arrived, TypeInv
<1>2. PICK a \in RunPendingIfDue(server) : \E t \in EnforceDeadline(a) :
             LET m == Request(t.game, Head(up[c])) IN
             /\ server' \in Dispatch(t, c, m)
             /\ Deliver([d \in Slot |-> TimerLines(server, a, d)
                                       \o RequestLines(t, server', c, m, d)])
    BY DEF SysLine
<1>3. PICK t \in EnforceDeadline(a) :
             LET m == Request(t.game, Head(up[c])) IN
             /\ server' \in Dispatch(t, c, m)
             /\ Deliver([d \in Slot |-> TimerLines(server, a, d)
                                       \o RequestLines(t, server', c, m, d)])
    BY <1>2
<1>4. Solid(a)
    BY SolidPending DEF TypeInv
<1>5. Solid(t) /\ Undue(t)
    BY <1>4, SolidDeadline
<1>6. Solid(server')
    BY <1>1, <1>3, <1>5, SolidRequest
<1> QED
    BY <1>1, <1>3, <1>4, <1>5, <1>6

LEMMA TypeStep ==
    ASSUME TypeInv, [SysNext]_sysVars
    PROVE  TypeInv'
<1>1. CASE SysAccept
    BY <1>1, AcceptSolid DEF SysAccept, TypeInv
<1>2. CASE SysStop
    BY <1>2, StopSolid DEF SysStop, TypeInv
<1>3. CASE SysIdle
  <2>1. PICK a \in RunPendingIfDue(server) :
          /\ server' \in EnforceDeadline(a)
          /\ Deliver([d \in Slot |-> TimerLines(server, a, d)])
    BY <1>3 DEF SysIdle
  <2>2. Solid(a)
    BY SolidPending DEF TypeInv
  <2>3. Solid(server')
    BY <2>1, <2>2, SolidDeadline
  <2>4. [d \in Slot |-> TimerLines(server, a, d)] \in [Slot -> Seq(DownLine)]
    BY <2>2, SentLines
  <2>5. down' \in [Slot -> Seq(DownLine)]
    BY <2>1, <2>4, DeliverTypes DEF TypeInv
  <2> QED
    BY <1>3, <2>3, <2>5 DEF SysIdle, TypeInv
<1>4. CASE Tick
  <2>1. late' \in [Slot -> Nat]
    BY <1>4, LenProperties DEF Tick, TypeInv
  <2> QED
    BY <1>4, <2>1, TickSolid DEF Tick, TypeInv
<1>5. ASSUME NEW c \in Slot, SysLine(c) PROVE TypeInv'
  <2>1. PICK a \in RunPendingIfDue(server) : \E t \in EnforceDeadline(a) :
          /\ Solid(a) /\ Solid(server')
          /\ Deliver([d \in Slot |->
               TimerLines(server, a, d)
               \o RequestLines(t, server', c, Request(t.game, Head(up[c])), d)])
    BY <1>5, LineSteps
  <2>2. PICK t \in EnforceDeadline(a) :
          /\ Solid(a) /\ Solid(server')
          /\ Deliver([d \in Slot |->
               TimerLines(server, a, d)
               \o RequestLines(t, server', c, Request(t.game, Head(up[c])), d)])
    BY <2>1
  <2> DEFINE lines == [d \in Slot |->
               TimerLines(server, a, d)
               \o RequestLines(t, server', c, Request(t.game, Head(up[c])), d)]
  <2>3. lines \in [Slot -> Seq(DownLine)]
    BY <2>2, SentLines, ConcatProperties
  <2>4. Deliver(lines)
    BY <2>2
  <2> HIDE DEF lines
  <2>5. down' \in [Slot -> Seq(DownLine)]
    BY <2>3, <2>4, DeliverTypes DEF TypeInv
  <2>6. up[c] # <<>> /\ Consume(c)
    BY <1>5 DEF SysLine, Arrived
  <2> QED
    BY <2>2, <2>5, <2>6, ConsumeTypes DEF TypeInv
<1>6. ASSUME NEW c \in Slot, SysHangUp(c) PROVE TypeInv'
  <2>1. Solid(server')
    BY <1>6, SolidRemove DEF SysHangUp, HangUp, TypeInv
  <2>2. [d \in Slot |-> <<>>] \in [Slot -> Seq(DownLine)]
    BY EmptySeq
  <2>3. down' \in [Slot -> Seq(DownLine)]
    BY <1>6, <2>2, DeliverTypes DEF SysHangUp, TypeInv
  <2>4. up[c] # <<>> /\ Consume(c)
    BY <1>6 DEF SysHangUp, Arrived
  <2> QED
    BY <2>1, <2>3, <2>4, ConsumeTypes DEF TypeInv
<1>7. ASSUME NEW c \in Slot, Receive(c) PROVE TypeInv'
  <2>1. Head(down[c]) \in DownLine /\ Tail(down[c]) \in Seq(DownLine)
    BY <1>7, TailOff DEF Receive, TypeInv
  <2>2. C!HandleServerLine(client[c], Head(down[c])) \in C!ClientState
    BY <2>1, ClientTypes DEF TypeInv
  <2> QED
    BY <1>7, <2>1, <2>2 DEF Receive, TypeInv
<1>8. ASSUME NEW c \in Slot, CloseInput(c) PROVE TypeInv'
  <2>1. Append(up[c], [type |-> "EOF"]) \in Seq(UpLine)
    BY DEF TypeInv, UpLine
  <2>2. client' \in [Slot -> C!ClientState]
    BY <1>8 DEF CloseInput, TypeInv, C!ClientState, C!Flag
  <2> QED
    BY <1>8, <2>1, <2>2 DEF CloseInput, TypeInv
<1>9. ASSUME NEW c \in Slot, NEW text \in Text, Type(c, text) PROVE TypeInv'
  <2>1. client[c] \in C!ClientState /\ up[c] \in Seq(UpLine)
    BY DEF TypeInv
  <2>2. text \in C!Accepted(client[c])
    BY <1>9 DEF Type
  <2>3. /\ C!HandleStdinLine(client[c]) \in C!ClientState
        /\ C!LinesSent(client[c], text) \in Seq(UpLine)
    <3>1. /\ C!HandleStdinLine(client[c]) \in C!ClientState
          /\ \/ C!LinesSent(client[c], text) = <<>>
             \/ \E m \in UpLine : C!LinesSent(client[c], text) = <<m>>
      BY <2>1, <2>2, TypedLine
    <3>2. \A m \in UpLine : <<m>> \in Seq(UpLine)
      OBVIOUS
    <3>3. <<>> \in Seq(UpLine)
      BY EmptySeq
    <3> QED
      BY <3>1, <3>2, <3>3
  <2>4. up[c] \o C!LinesSent(client[c], text) \in Seq(UpLine)
    BY <2>1, <2>3, ConcatProperties
  <2> QED
    BY <1>9, <2>3, <2>4 DEF Type, TypeInv
<1>10. CASE UNCHANGED sysVars
    BY <1>10 DEF sysVars, TypeInv
<1> QED
    BY <1>1, <1>2, <1>3, <1>4, <1>5, <1>6, <1>7, <1>8, <1>9, <1>10 DEF SysNext

LEMMA TypeHolds == SysSpec => []TypeInv
<1>1. SysInit => TypeInv
    BY TypeStart
<1>2. TypeInv /\ [SysNext]_sysVars => TypeInv'
    BY TypeStep
<1> QED
    BY <1>1, <1>2, PTL DEF SysSpec

\* Whatever is typed, sent and received, and whoever leaves in the middle of
\* it, both ends of every connection keep their types.
THEOREM SystemTypeCorrect == SysSpec => []SysTypeOK
<1>1. TypeInv => SysTypeOK
    BY SolidFacts DEF TypeInv, SysTypeOK
<1> QED
    BY <1>1, TypeHolds, PTL

----------------------------------------------------------------------------
(* What one connection has seen of the match. *)

Prior == [PROMPT |-> "VOTING", REWRITE |-> "PROMPT", VOTING |-> "REWRITE"]

\* How a window is asked about, waited for at the client and answered.
AskFor == [PROMPT |-> "PROMPT", REWRITE |-> "TITLE_PROMPT", VOTING |-> "VOTE_OPEN"]
WaitFor == [PROMPT  |-> "awaiting_submission",
            REWRITE |-> "awaiting_title",
            VOTING  |-> "awaiting_vote"]
AnswerTo == [PROMPT |-> "SUBMIT", REWRITE |-> "TITLE", VOTING |-> "VOTE"]

Has(q, type) == \E i \in DOMAIN q : q[i].type = type

Asking(d) == d # <<>> /\ d[1].type \in {"PROMPT", "TITLE_PROMPT", "VOTE_OPEN"}

Clock(s) == PhaseDeadline(s.game)
Due(s) == s.clock = "due" \/ Clock(s) = "due"

\* The window that was opened last.
Last(s) ==
    IF s.game.phase \notin Window THEN "VOTING"
    ELSE IF Clock(s) = "off" THEN Prior[s.game.phase]
    ELSE s.game.phase

\* A window has just been closed early, and what follows it is on its way.
Hurried(s) ==
    /\ s.clock = "running"
    /\ s.pending \in {"TITLE_PROMPT", "VOTING_PROMPT", "ROUND_RESULTS"}

\* A match that is over for good.
Dead(s) == s.game.phase = "OVER" /\ Cardinality(s.game.connected) < MinPlayers

Done(g) ==
    CASE g.phase = "PROMPT"  -> g.round.submitted
      [] g.phase = "REWRITE" -> g.round.rewritten
      [] g.phase = "VOTING"  -> g.round.voted

\* The open window still waits for this client's answer, or has it.
Owes(s, c) ==
    Clock(s) # "off" /\ \E p \in s.game.round.active :
                          s.game.pid[p] = s.cid[c] /\ p \notin Done(s.game)
Gave(s, c) ==
    Clock(s) # "off" /\ \E p \in s.game.round.active :
                          s.game.pid[p] = s.cid[c] /\ p \in Done(s.game)

\* The client has not been asked whether it wants to play again, or has said.
Spoken(s, c) ==
    \/ s.game.phase # "OVER" \/ s.pending = "GAME_OVER"
    \/ \E p \in s.game.connected : s.game.pid[p] = s.cid[c] /\ p \in s.game.decided

\* Nothing is sent to a stranger, who sends nothing but its name.  A client is
\* welcomed before anything else, and asked about one thing at a time.
Known(s, c, k, u, d) ==
    /\ s.cid[c] = 0 =>
         /\ d = <<>> /\ k.flags \subseteq {"join_requested", "stdin_closed"}
         /\ \A i \in DOMAIN u : u[i].type \in {"JOIN", "EOF"}
    /\ s.cid[c] # 0 =>
         "joined" \in k.flags \/ (d # <<>> /\ d[1].type = "WELCOME")
    /\ k.flags \cap C!Window # {} => "joined" \in k.flags
    /\ \A i \in DOMAIN d : i > 1 => d[i].type \in {"WELCOME", "LOBBY_ROSTER"}
    /\ Due(s) => d = <<>>

\* What is in the channels, and what the client waits for, belongs to the
\* window opened last or to the one before it; the older lines come first,
\* and once a window has closed they are among those its clock overtook.
InStep(s, c, k, u, d, l) ==
    LET w == Last(s)
        v == Prior[w]
    IN  /\ \A i \in DOMAIN u : u[i].type \in {"SUBMIT", "TITLE", "VOTE"} =>
             u[i].type \in {AnswerTo[w], AnswerTo[v]}
        /\ \A i, j \in DOMAIN u :
             i < j /\ u[i].type = AnswerTo[w] => u[j].type # AnswerTo[v]
        /\ Clock(s) # "off" => \A i \in DOMAIN u :
             u[i].type = AnswerTo[w] => u[i].question = s.game.roundNumber
        /\ Clock(s) # "running" => \A i \in DOMAIN u :
             u[i].type = AnswerTo[v] =>
               i <= l /\ (Hurried(s) \/ Clock(s) = "due")
        /\ Asking(d) =>
             /\ d[1].type = AskFor[w] /\ d[1].question = s.game.roundNumber
             /\ Clock(s) = "running"
             /\ k.flags \cap C!Window \subseteq {WaitFor[v]}
             /\ ~Has(u, AnswerTo[w])
        /\ ~Asking(d) =>
             /\ k.flags \cap C!Window \subseteq {WaitFor[w]}
             /\ Clock(s) # "off" /\ WaitFor[w] \in k.flags =>
                  k.question = s.game.roundNumber
        /\ Gave(s, c) => ~Asking(d) /\ ~Has(u, AnswerTo[v])
        /\ Owes(s, c) /\ w # "VOTING" =>
             Asking(d) \/ WaitFor[w] \in k.flags \/ Has(u, AnswerTo[w])

\* The play-again question is in one place at a time.
Silent(k, u, d) ==
    /\ ~Has(d, "PLAY_AGAIN") /\ "awaiting_replay_choice" \notin k.flags
    /\ ~Has(u, "REPLAY")

Polled(s, c, k, u, d) ==
    /\ Has(d, "PLAY_AGAIN") =>
         "awaiting_replay_choice" \notin k.flags /\ ~Has(u, "REPLAY")
    /\ "awaiting_replay_choice" \in k.flags => ~Has(u, "REPLAY")
    /\ \A i, j \in DOMAIN u : u[i].type = "REPLAY" /\ u[j].type = "REPLAY" => i = j
    /\ Spoken(s, c) => Silent(k, u, d)

ConnInv(s, c, k, u, d, l) ==
    /\ Known(s, c, k, u, d)
    /\ ~Dead(s) => InStep(s, c, k, u, d, l)
    /\ Polled(s, c, k, u, d)

\* Between two steps of the server everybody who is connected has a seat and
\* everybody who was welcomed is connected, nothing but the play-again
\* question and the countdown outlives a match, and a phase whose clock is
\* not set has nobody's answer yet.
Plain(s) ==
    /\ s.game.connected \subseteq s.game.joined
    /\ \A c \in Slot : s.cid[c] # 0 =>
         \E p \in s.game.connected : s.game.pid[p] = s.cid[c]
    /\ s.game.wants \subseteq s.game.decided
    /\ s.game.phase = "LOBBY" => s.pending = "NONE"
    /\ s.game.phase = "OVER" =>
         /\ s.pending \in {"NONE", "GAME_OVER", "REPLAY_START"}
         /\ s.pending = "GAME_OVER" => s.game.decided = {}
    /\ s.pending = "SCOREBOARD" => ~IsFinalRound(s.game)
    /\ s.game.phase \in Window /\ Clock(s) = "off" => Fresh(s.game)
    /\ s.game.phase = "VOTING" => s.game.round.reveal # {}

SysInv ==
    /\ TypeInv
    /\ Plain(server)
    /\ \A c \in Slot : ConnInv(server, c, client[c], up[c], down[c], late[c])

----------------------------------------------------------------------------
(* The client's steps. *)

LEMMA WindowFacts ==
    /\ \A w \in Window : /\ Prior[w] \in Window /\ Prior[w] # w
                         /\ AnswerTo[w] \in {"SUBMIT", "TITLE", "VOTE"}
                         /\ WaitFor[w] \in C!Window
                         /\ AskFor[w] \in {"PROMPT", "TITLE_PROMPT", "VOTE_OPEN"}
    /\ \A w, v \in Window : /\ AnswerTo[w] = AnswerTo[v] => w = v
                            /\ WaitFor[w] = WaitFor[v] => w = v
                            /\ AskFor[w] = AskFor[v] => w = v
    /\ \A x \in C!Window : \E w \in Window : x = WaitFor[w]
    BY DEF Window, Prior, AnswerTo, WaitFor, AskFor, C!Window

LEMMA LastWindow ==
    ASSUME NEW s
    PROVE  Last(s) \in Window
    BY DEF Last, Window, Prior

\* Nothing is asked of a match that is not in a window, and no play-again
\* question is out while there is one.
LEMMA ClockSpoken ==
    ASSUME NEW s, NEW c, Clock(s) # "off"
    PROVE  /\ s.game.phase \in Window /\ Last(s) = s.game.phase
           /\ Spoken(s, c) /\ ~Dead(s)
    BY DEF Clock, PhaseDeadline, Spoken, Dead, Window, Last

\* The oldest line of a channel is taken off it.
LEMMA HasTail ==
    ASSUME NEW X, NEW q \in Seq(X), q # <<>>, NEW type
    PROVE  /\ Has(Tail(q), type) => Has(q, type)
           /\ Has(q, type) => q[1].type = type \/ Has(Tail(q), type)
<1>1. Has(Tail(q), type) => Has(q, type)
    BY TailOff DEF Has
<1>2. ASSUME Has(q, type), q[1].type # type
      PROVE  Has(Tail(q), type)
  <2>1. PICK i \in DOMAIN q : q[i].type = type
    BY <1>2 DEF Has
  <2>2. DOMAIN q = 1 .. Len(q) /\ Len(q) \in Nat
    BY LenProperties
  <2>3. /\ Tail(q) \in Seq(X) /\ Len(Tail(q)) = Len(q) - 1
        /\ \A j \in 1 .. Len(Tail(q)) : Tail(q)[j] = q[j + 1]
    BY HeadTailProperties
  <2>4. DOMAIN Tail(q) = 1 .. Len(Tail(q))
    BY <2>3, LenProperties
  <2>5. i - 1 \in 1 .. Len(Tail(q)) /\ (i - 1) + 1 = i
    BY <1>2, <2>1, <2>2, <2>3
  <2>6. Tail(q)[i - 1] = q[i]
    BY <2>3, <2>5
  <2> QED
    BY <2>1, <2>4, <2>5, <2>6 DEF Has
<1> QED
    BY <1>1, <1>2

LEMMA HasAdded ==
    ASSUME NEW X, NEW q \in Seq(X), NEW x \in X, NEW type
    PROVE  Has(Append(q, x), type) <=> Has(q, type) \/ x.type = type
<1>1. /\ Len(q) \in Nat /\ DOMAIN q = 1 .. Len(q)
      /\ DOMAIN Append(q, x) = 1 .. (Len(q) + 1)
      /\ \A i \in DOMAIN q : Append(q, x)[i] = q[i]
      /\ Append(q, x)[Len(q) + 1] = x
    BY LineAdded
<1>2. \A i \in 1 .. (Len(q) + 1) : i \in 1 .. Len(q) \/ i = Len(q) + 1
    BY <1>1
<1>3. \A i \in 1 .. Len(q) : i \in 1 .. (Len(q) + 1)
    BY <1>1
<1>4. Len(q) + 1 \in 1 .. (Len(q) + 1)
    BY <1>1
<1> QED
    BY <1>1, <1>2, <1>3, <1>4 DEF Has

\* What a client makes of the lines the server sends it.
LEMMA Heard ==
    ASSUME NEW k \in C!ClientState, NEW m \in DownLine
    PROVE  LET h == C!HandleServerLine(k, m)
           IN  /\ m.type = "WELCOME" =>
                    /\ "joined" \in h.flags
                    /\ h.flags \subseteq (k.flags \cup {"joined"})
                                           \ {"awaiting_replay_choice"}
                    /\ h.flags \cap C!Window = k.flags \cap C!Window
                    /\ h.question = k.question
               /\ m.type = "LOBBY_ROSTER" =>
                    /\ k.flags \subseteq h.flags
                    /\ h.flags \subseteq k.flags \cup {"ready_allowed"}
                    /\ h.flags \cap C!Window = k.flags \cap C!Window
                    /\ h.question = k.question
               /\ m.type = "PLAY_AGAIN" =>
                    /\ "joined" \in k.flags => "joined" \in h.flags
                    /\ h.flags \cap C!Window = {}
               /\ \A w \in Window : m.type = AskFor[w] =>
                    /\ "joined" \in k.flags => "joined" \in h.flags
                    /\ h.flags \subseteq k.flags \cup {WaitFor[w]}
                    /\ h.flags \cap C!Window = {WaitFor[w]}
                    /\ h.question = m.question
<1> DEFINE h == C!HandleServerLine(k, m)
<1>1. CASE m.type = "WELCOME"
    BY <1>1 DEF C!HandleServerLine, C!ClientState, C!Window, AskFor, Window
<1>2. CASE m.type = "LOBBY_ROSTER"
    BY <1>2 DEF C!HandleServerLine, C!ClientState, C!Window, AskFor, Window
<1>3. CASE m.type = "PLAY_AGAIN"
    BY <1>3 DEF C!HandleServerLine, C!ClientState, C!Window, AskFor, Window
<1>4. ASSUME NEW w \in Window, m.type = AskFor[w]
      PROVE  /\ "joined" \in k.flags => "joined" \in h.flags
             /\ h.flags \subseteq k.flags \cup {WaitFor[w]}
             /\ h.flags \cap C!Window = {WaitFor[w]}
             /\ h.question = m.question
  <2>1. \E n : h = C!Ask(k, WaitFor[w], n, m.question)
    BY <1>4 DEF C!HandleServerLine, AskFor, WaitFor, Window
  <2>2. WaitFor[w] \in C!Window /\ "joined" \notin C!Window
    BY WindowFacts DEF C!Window
  <2> HIDE DEF h
  <2> QED
    BY <2>1, <2>2 DEF C!Ask
<1>5. CASE m.type \in {"PROMPT", "TITLE_PROMPT", "VOTE_OPEN"}
    BY <1>4, <1>5 DEF AskFor, Window
<1> QED
    BY <1>1, <1>2, <1>3, <1>5, <1>4 DEF DownLine

\* Nothing that matters follows the oldest line.
LEMMA RestIsQuiet ==
    ASSUME NEW d \in Seq(DownLine), d # <<>>,
           \A i \in DOMAIN d : i > 1 => d[i].type \in {"WELCOME", "LOBBY_ROSTER"}
    PROVE  /\ \A i \in DOMAIN Tail(d) :
                Tail(d)[i].type \in {"WELCOME", "LOBBY_ROSTER"}
           /\ ~Has(Tail(d), "PLAY_AGAIN")
           /\ ~Asking(Tail(d))
<1>1. ASSUME NEW i \in DOMAIN Tail(d)
      PROVE  Tail(d)[i].type \in {"WELCOME", "LOBBY_ROSTER"}
  <2>1. i \in Nat /\ i + 1 \in DOMAIN d /\ Tail(d)[i] = d[i + 1]
    BY TailOff
  <2>2. i # 0
    BY <1>1, TailOff, LenProperties
  <2>3. i + 1 > 1
    BY <2>1, <2>2
  <2> QED
    BY <2>1, <2>3
<1>2. Tail(d) # <<>> => 1 \in DOMAIN Tail(d)
    BY TailOff
<1> QED
    BY <1>1, <1>2 DEF Has, Asking

\* The client takes a line the server has sent.
LEMMA ReceiveConn ==
    ASSUME NEW s, NEW c, NEW k \in C!ClientState, NEW u \in Seq(UpLine),
           NEW d \in Seq(DownLine), NEW l, s.cid[c] \in Nat,
           ConnInv(s, c, k, u, d, l), d # <<>>
    PROVE  ConnInv(s, c, C!HandleServerLine(k, Head(d)), u, Tail(d), l)
<1> DEFINE m == d[1]
           h == C!HandleServerLine(k, m)
           r == Tail(d)
           w == Last(s)
<1>1. /\ m \in DownLine /\ Head(d) = m /\ r \in Seq(DownLine)
      /\ 1 \in DOMAIN d
    BY TailOff
<1>2. Known(s, c, k, u, d) /\ Polled(s, c, k, u, d)
    BY DEF ConnInv
<1>3. /\ \A i \in DOMAIN r : r[i].type \in {"WELCOME", "LOBBY_ROSTER"}
      /\ ~Has(r, "PLAY_AGAIN") /\ ~Asking(r)
    BY <1>2, RestIsQuiet DEF Known
<1>4. s.cid[c] # 0 /\ ~Due(s)
    BY <1>2 DEF Known
<1>5. w \in Window /\ m.type = AskFor[w] => Asking(d)
    BY WindowFacts DEF Asking
<1>6. /\ m.type = "WELCOME" =>
           /\ "joined" \in h.flags
           /\ h.flags \subseteq (k.flags \cup {"joined"})
                                  \ {"awaiting_replay_choice"}
           /\ h.flags \cap C!Window = k.flags \cap C!Window
           /\ h.question = k.question
      /\ m.type = "LOBBY_ROSTER" =>
           /\ k.flags \subseteq h.flags
           /\ h.flags \subseteq k.flags \cup {"ready_allowed"}
           /\ h.flags \cap C!Window = k.flags \cap C!Window
           /\ h.question = k.question
      /\ m.type = "PLAY_AGAIN" =>
           /\ "joined" \in k.flags => "joined" \in h.flags
           /\ h.flags \cap C!Window = {}
      /\ \A v \in Window : m.type = AskFor[v] =>
           /\ "joined" \in k.flags => "joined" \in h.flags
           /\ h.flags \subseteq k.flags \cup {WaitFor[v]}
           /\ h.flags \cap C!Window = {WaitFor[v]}
           /\ h.question = m.question
    BY <1>1, Heard
<1>7. m.type \in {"WELCOME", "LOBBY_ROSTER", "PLAY_AGAIN"}
        \/ \E v \in Window : m.type = AskFor[v]
    BY <1>1 DEF DownLine, AskFor, Window
<1> HIDE DEF h, r, m
<1>8. Known(s, c, h, u, r)
  <2>1. "joined" \in h.flags
    BY <1>2, <1>4, <1>6, <1>7 DEF Known, m
  <2> QED
    BY <1>3, <1>4, <2>1 DEF Known
<1>9. ~("awaiting_replay_choice" \in k.flags) /\ m.type # "PLAY_AGAIN" =>
        "awaiting_replay_choice" \notin h.flags
    BY <1>6, <1>7, WindowFacts DEF C!Window
<1>10. m.type = "PLAY_AGAIN" => Has(d, "PLAY_AGAIN")
    BY <1>1 DEF Has, m
<1>11. Polled(s, c, h, u, r)
    BY <1>2, <1>3, <1>9, <1>10 DEF Polled, Silent
<1>12. ASSUME ~Dead(s) PROVE InStep(s, c, h, u, r, l)
  <2>1. InStep(s, c, k, u, d, l)
    BY <1>12 DEF ConnInv
  <2>2. w \in Window
    BY LastWindow
  <2>3. CASE Asking(d)
    <3>1. m.type = AskFor[w] /\ m.question = s.game.roundNumber
      BY <2>1, <2>3 DEF InStep, m
    <3>2. h.flags \cap C!Window = {WaitFor[w]} /\ h.question = s.game.roundNumber
      BY <1>6, <2>2, <3>1
    <3>3. WaitFor[w] \in h.flags
      BY <3>2
    <3> HIDE DEF w
    <3> QED
      BY <1>3, <2>1, <2>3, <3>2, <3>3 DEF InStep, w
  <2>4. CASE ~Asking(d) /\ m.type \in {"WELCOME", "LOBBY_ROSTER"}
    <3>1. h.flags \cap C!Window = k.flags \cap C!Window /\ h.question = k.question
      BY <1>6, <2>4
    <3>2. WaitFor[w] \in h.flags <=> WaitFor[w] \in k.flags
      BY <2>2, <3>1, WindowFacts
    <3> HIDE DEF w
    <3> QED
      BY <1>3, <2>1, <2>4, <3>1, <3>2 DEF InStep, w
  <2>5. CASE ~Asking(d) /\ m.type = "PLAY_AGAIN"
    <3>1. h.flags \cap C!Window = {}
      BY <1>6, <2>5
    <3>2. Clock(s) = "off"
      BY <1>2, <1>10, <2>5, ClockSpoken DEF Polled, Silent
    <3>3. ~Gave(s, c) /\ ~Owes(s, c)
      BY <3>2 DEF Gave, Owes
    <3> HIDE DEF w
    <3> QED
      BY <1>3, <2>1, <2>5, <3>1, <3>2, <3>3 DEF InStep, w
  <2>6. ~Asking(d) => m.type \in {"WELCOME", "LOBBY_ROSTER", "PLAY_AGAIN"}
    BY <1>1, <1>7, WindowFacts DEF Asking, m, DownLine
  <2> QED
    BY <2>3, <2>4, <2>5, <2>6
<1>13. ConnInv(s, c, h, u, r, l)
    BY <1>8, <1>11, <1>12 DEF ConnInv
<1> QED
    BY <1>1, <1>13 DEF h, r, m

\* The lines of a channel to which one has been added.
LEMMA AddedAt ==
    ASSUME NEW u \in Seq(UpLine), NEW x \in UpLine
    PROVE  LET a == Append(u, x)
           IN  /\ a \in Seq(UpLine)
               /\ \A i \in DOMAIN a :
                    \/ i \in DOMAIN u /\ a[i] = u[i]
                    \/ i \notin DOMAIN u /\ a[i] = x
                         /\ \A j \in DOMAIN a : ~(i < j)
               /\ \A type : Has(a, type) <=> Has(u, type) \/ x.type = type
<1> DEFINE a == Append(u, x)
<1>1. /\ a \in Seq(UpLine) /\ Len(u) \in Nat /\ DOMAIN u = 1 .. Len(u)
      /\ DOMAIN a = 1 .. (Len(u) + 1)
      /\ \A i \in DOMAIN u : a[i] = u[i]
      /\ a[Len(u) + 1] = x
    BY LineAdded
<1>2. \A type : Has(a, type) <=> Has(u, type) \/ x.type = type
    BY HasAdded
<1> HIDE DEF a
<1>3. ASSUME NEW i \in DOMAIN a
      PROVE  \/ i \in DOMAIN u /\ a[i] = u[i]
             \/ i \notin DOMAIN u /\ a[i] = x /\ \A j \in DOMAIN a : ~(i < j)
  <2>1. i \in 1 .. Len(u) \/ i = Len(u) + 1
    BY <1>1
  <2>2. \A j \in 1 .. (Len(u) + 1) : ~(Len(u) + 1 < j)
    BY <1>1
  <2>3. Len(u) + 1 \notin 1 .. Len(u)
    BY <1>1
  <2> QED
    BY <1>1, <2>1, <2>2, <2>3
<1>4. /\ a \in Seq(UpLine)
      /\ \A i \in DOMAIN a :
           \/ i \in DOMAIN u /\ a[i] = u[i]
           \/ i \notin DOMAIN u /\ a[i] = x /\ \A j \in DOMAIN a : ~(i < j)
      /\ \A type : Has(a, type) <=> Has(u, type) \/ x.type = type
    BY <1>1, <1>2, <1>3
<1> QED
    BY <1>4 DEF a

\* A line that answers nothing.
LEMMA AsideInStep ==
    ASSUME NEW s, NEW c, NEW k, NEW u \in Seq(UpLine), NEW d, NEW l,
           InStep(s, c, k, u, d, l), NEW x \in UpLine,
           x.type \notin {"SUBMIT", "TITLE", "VOTE"},
           NEW h, h.flags \cap C!Window = k.flags \cap C!Window,
           h.question = k.question
    PROVE  InStep(s, c, h, Append(u, x), d, l)
<1> DEFINE a == Append(u, x)
           w == Last(s)
           v == Prior[w]
<1>1. /\ \A i \in DOMAIN a : (i \in DOMAIN u /\ a[i] = u[i]) \/ a[i] = x
      /\ \A type : Has(a, type) <=> Has(u, type) \/ x.type = type
    BY AddedAt
<1>2. /\ AnswerTo[w] \in {"SUBMIT", "TITLE", "VOTE"}
      /\ AnswerTo[v] \in {"SUBMIT", "TITLE", "VOTE"}
      /\ WaitFor[w] \in C!Window
    BY LastWindow, WindowFacts
<1>3. WaitFor[w] \in h.flags <=> WaitFor[w] \in k.flags
    BY <1>2
<1> HIDE DEF a, w, v
<1>4. InStep(s, c, h, a, d, l)
  <2>1. \A i \in DOMAIN a : a[i].type \in {"SUBMIT", "TITLE", "VOTE"} =>
          i \in DOMAIN u /\ a[i] = u[i]
    BY <1>1
  <2>2. /\ Has(a, AnswerTo[w]) <=> Has(u, AnswerTo[w])
        /\ Has(a, AnswerTo[v]) <=> Has(u, AnswerTo[v])
    BY <1>1, <1>2
  <2> QED
    BY <1>2, <1>3, <2>1, <2>2 DEF InStep, w, v
<1> QED
    BY <1>4 DEF a

\* The answer the client waits to give.
LEMMA AnswerInStep ==
    ASSUME NEW s, NEW c, NEW k, NEW u \in Seq(UpLine), NEW d, NEW l,
           InStep(s, c, k, u, d, l), NEW y \in Window, WaitFor[y] \in k.flags,
           NEW x \in UpLine, x.type = AnswerTo[y], x.question = k.question,
           NEW h, h.flags = k.flags \ {WaitFor[y]}, h.question = k.question
    PROVE  InStep(s, c, h, Append(u, x), d, l)
<1> DEFINE a == Append(u, x)
           w == Last(s)
           v == Prior[w]
<1>1. /\ \A i \in DOMAIN a : \/ i \in DOMAIN u /\ a[i] = u[i]
                             \/ i \notin DOMAIN u /\ a[i] = x
                                  /\ \A j \in DOMAIN a : ~(i < j)
      /\ \A type : Has(a, type) <=> Has(u, type) \/ x.type = type
    BY AddedAt
<1>2. /\ w \in Window /\ v \in Window /\ v # w
      /\ AnswerTo[w] # AnswerTo[v] /\ WaitFor[w] # WaitFor[v]
      /\ WaitFor[y] \in C!Window
      /\ WaitFor[y] = WaitFor[w] => y = w
      /\ WaitFor[y] = WaitFor[v] => y = v
    BY LastWindow, WindowFacts
<1> HIDE DEF a, w, v
<1>3. CASE Asking(d)
  <2>1. /\ k.flags \cap C!Window \subseteq {WaitFor[v]}
        /\ Clock(s) = "running" /\ ~Has(u, AnswerTo[w])
        /\ d[1].type = AskFor[w] /\ d[1].question = s.game.roundNumber
    BY <1>3 DEF InStep, w, v
  <2>2. y = v
    BY <1>2, <2>1
  <2>3. ~Has(a, AnswerTo[w])
    BY <1>1, <1>2, <2>1, <2>2
  <2>4. \A i \in DOMAIN a : a[i].type # AnswerTo[w]
    BY <2>3 DEF Has
  <2>5. \A i \in DOMAIN a : a[i].type \in {"SUBMIT", "TITLE", "VOTE"} =>
          a[i].type \in {AnswerTo[w], AnswerTo[v]}
    BY <1>1, <2>2 DEF InStep, w, v
  <2>6. ~Gave(s, c)
    BY <1>3 DEF InStep
  <2> QED
    BY <1>3, <2>1, <2>3, <2>4, <2>5, <2>6 DEF InStep, w, v, a
<1>4. CASE ~Asking(d)
  <2>1. /\ k.flags \cap C!Window \subseteq {WaitFor[w]}
        /\ Clock(s) # "off" /\ WaitFor[w] \in k.flags =>
             k.question = s.game.roundNumber
    BY <1>4 DEF InStep, w
  <2>2. y = w
    BY <1>2, <2>1
  <2>3. /\ Has(a, AnswerTo[w])
        /\ Has(a, AnswerTo[v]) => Has(u, AnswerTo[v])
    BY <1>1, <1>2, <2>2
  <2>4. \A i \in DOMAIN a : a[i].type = AnswerTo[v] => i \in DOMAIN u /\ a[i] = u[i]
    BY <1>1, <1>2, <2>2
  <2>5. \A i, j \in DOMAIN a :
          i < j /\ a[i].type = AnswerTo[w] => a[j].type # AnswerTo[v]
    <3>1. SUFFICES ASSUME NEW i \in DOMAIN a, NEW j \in DOMAIN a, i < j,
                          a[i].type = AnswerTo[w], a[j].type = AnswerTo[v]
                   PROVE  FALSE
      OBVIOUS
    <3>2. j \in DOMAIN u /\ a[j] = u[j]
      BY <2>4, <3>1
    <3>3. i \in DOMAIN u /\ a[i] = u[i]
      BY <1>1, <3>1
    <3> QED
      BY <3>1, <3>2, <3>3 DEF InStep, w, v
  <2>6. \A i \in DOMAIN a : a[i].type \in {"SUBMIT", "TITLE", "VOTE"} =>
          a[i].type \in {AnswerTo[w], AnswerTo[v]}
    BY <1>1, <2>2 DEF InStep, w, v
  <2>7. Clock(s) # "off" => \A i \in DOMAIN a :
          a[i].type = AnswerTo[w] => a[i].question = s.game.roundNumber
    BY <1>1, <2>1, <2>2 DEF InStep, w
  <2>8. Clock(s) # "running" => \A i \in DOMAIN a :
          a[i].type = AnswerTo[v] =>
            i <= l /\ (Hurried(s) \/ Clock(s) = "due")
    BY <2>4 DEF InStep, w, v
  <2>9. Gave(s, c) => ~Has(a, AnswerTo[v])
    BY <2>3 DEF InStep, w, v
  <2>10. h.flags \cap C!Window \subseteq {WaitFor[w]} /\ WaitFor[w] \notin h.flags
    BY <2>1, <2>2
  <2> QED
    BY <1>4, <2>3, <2>5, <2>6, <2>7, <2>8, <2>9, <2>10 DEF InStep, w, v, a
<1> QED
    BY <1>3, <1>4

LEMMA AsideConn ==
    ASSUME NEW s, NEW c, NEW k, NEW u \in Seq(UpLine), NEW d, NEW l,
           ConnInv(s, c, k, u, d, l), NEW x \in UpLine,
           x.type \notin {"SUBMIT", "TITLE", "VOTE", "REPLAY"}, NEW h,
           h.flags \ {"ready_sent", "stdin_closed"}
             = k.flags \ {"ready_sent", "stdin_closed"},
           "joined" \in k.flags
             \/ (x.type \in {"JOIN", "EOF"}
                 /\ h.flags \ {"stdin_closed"} = k.flags \ {"stdin_closed"}),
           h.question = k.question
    PROVE  ConnInv(s, c, h, Append(u, x), d, l)
<1> DEFINE a == Append(u, x)
<1>1. /\ Known(s, c, k, u, d) /\ Polled(s, c, k, u, d)
      /\ ~Dead(s) => InStep(s, c, k, u, d, l)
    BY DEF ConnInv
<1>2. /\ \A i \in DOMAIN a : (i \in DOMAIN u /\ a[i] = u[i]) \/ a[i] = x
      /\ \A type : Has(a, type) <=> Has(u, type) \/ x.type = type
    BY AddedAt
<1>3. h.flags \cap C!Window = k.flags \cap C!Window
    BY DEF C!Window
<1>4. ~Dead(s) => InStep(s, c, h, a, d, l)
    BY <1>1, <1>3, AsideInStep
<1> HIDE DEF a
<1>5. s.cid[c] = 0 => "joined" \notin k.flags
    BY <1>1 DEF Known
<1>6. Known(s, c, h, a, d)
    BY <1>1, <1>2, <1>3, <1>5 DEF Known
<1>7. Polled(s, c, h, a, d)
    BY <1>1, <1>2 DEF Polled, Silent
<1>8. ConnInv(s, c, h, a, d, l)
    BY <1>4, <1>6, <1>7 DEF ConnInv
<1> QED
    BY <1>8 DEF a

LEMMA WishConn ==
    ASSUME NEW s, NEW c, NEW k, NEW u \in Seq(UpLine), NEW d, NEW l,
           ConnInv(s, c, k, u, d, l), NEW x \in UpLine, x.type = "REPLAY",
           {"joined", "awaiting_replay_choice"} \subseteq k.flags, NEW h,
           h.flags = (k.flags \ {"awaiting_replay_choice"})
                       \cup {"replay_choice_sent"},
           h.question = k.question
    PROVE  ConnInv(s, c, h, Append(u, x), d, l)
<1> DEFINE a == Append(u, x)
<1>1. /\ Known(s, c, k, u, d) /\ Polled(s, c, k, u, d)
      /\ ~Dead(s) => InStep(s, c, k, u, d, l)
    BY DEF ConnInv
<1>2. /\ \A i \in DOMAIN a : \/ i \in DOMAIN u /\ a[i] = u[i]
                             \/ i \notin DOMAIN u /\ a[i] = x
                                  /\ \A j \in DOMAIN a : ~(i < j)
      /\ \A type : Has(a, type) <=> Has(u, type) \/ x.type = type
    BY AddedAt
<1>3. /\ DOMAIN a = 1 .. (Len(u) + 1) /\ DOMAIN u = 1 .. Len(u)
      /\ Len(u) \in Nat
    BY LineAdded
<1>4. h.flags \cap C!Window = k.flags \cap C!Window
    BY DEF C!Window
<1>5. ~Dead(s) => InStep(s, c, h, a, d, l)
    BY <1>1, <1>4, AsideInStep
<1> HIDE DEF a
<1>6. s.cid[c] # 0
    BY <1>1 DEF Known
<1>7. Known(s, c, h, a, d)
    BY <1>1, <1>4, <1>6 DEF Known
<1>8. ~Has(d, "PLAY_AGAIN") /\ ~Has(u, "REPLAY") /\ ~Spoken(s, c)
    BY <1>1 DEF Polled, Silent
<1>9. ASSUME NEW i \in DOMAIN a, a[i].type = "REPLAY"
      PROVE  i = Len(u) + 1
  <2>1. i \notin DOMAIN u
    BY <1>2, <1>8, <1>9 DEF Has
  <2> QED
    BY <1>3, <2>1
<1>10. Polled(s, c, h, a, d)
    BY <1>8, <1>9 DEF Polled
<1>11. ConnInv(s, c, h, a, d, l)
    BY <1>5, <1>7, <1>10 DEF ConnInv
<1> QED
    BY <1>11 DEF a

LEMMA AnswerConn ==
    ASSUME NEW s, NEW c, NEW k, NEW u \in Seq(UpLine), NEW d, NEW l,
           ConnInv(s, c, k, u, d, l), NEW x \in UpLine, NEW y \in Window,
           {"joined", WaitFor[y]} \subseteq k.flags,
           x.type = AnswerTo[y], x.question = k.question, NEW h,
           h.flags = k.flags \ {WaitFor[y]}, h.question = k.question
    PROVE  ConnInv(s, c, h, Append(u, x), d, l)
<1> DEFINE a == Append(u, x)
<1>1. /\ Known(s, c, k, u, d) /\ Polled(s, c, k, u, d)
      /\ ~Dead(s) => InStep(s, c, k, u, d, l)
    BY DEF ConnInv
<1>2. /\ \A i \in DOMAIN a : (i \in DOMAIN u /\ a[i] = u[i]) \/ a[i] = x
      /\ \A type : Has(a, type) <=> Has(u, type) \/ x.type = type
    BY AddedAt
<1>3. ~Dead(s) => InStep(s, c, h, a, d, l)
    BY <1>1, AnswerInStep
<1>4. x.type # "REPLAY" /\ WaitFor[y] \in C!Window /\ "joined" # WaitFor[y]
    BY WindowFacts DEF C!Window
<1> HIDE DEF a
<1>5. s.cid[c] # 0
    BY <1>1 DEF Known
<1>6. Known(s, c, h, a, d)
    BY <1>1, <1>4, <1>5 DEF Known
<1>7. Polled(s, c, h, a, d)
    BY <1>1, <1>2, <1>4 DEF Polled, Silent
<1>8. ConnInv(s, c, h, a, d, l)
    BY <1>3, <1>6, <1>7 DEF ConnInv
<1> QED
    BY <1>8 DEF a

\* The user asks to join.
LEMMA AskToJoinConn ==
    ASSUME NEW s, NEW c, NEW k, NEW u, NEW d, NEW l,
           ConnInv(s, c, k, u, d, l), "joined" \notin k.flags, NEW h,
           h.flags = k.flags \cup {"join_requested"}, h.question = k.question
    PROVE  ConnInv(s, c, h, u, d, l)
<1>1. /\ Known(s, c, k, u, d) /\ Polled(s, c, k, u, d)
      /\ ~Dead(s) => InStep(s, c, k, u, d, l)
    BY DEF ConnInv
<1>2. h.flags \cap C!Window = k.flags \cap C!Window
    BY DEF C!Window
<1>3. Known(s, c, h, u, d)
    BY <1>1, <1>2 DEF Known
<1>4. Polled(s, c, h, u, d)
    BY <1>1 DEF Polled, Silent
<1>5. WaitFor[Last(s)] \in h.flags <=> WaitFor[Last(s)] \in k.flags
    BY <1>2, LastWindow, WindowFacts
<1>6. ~Dead(s) => InStep(s, c, h, u, d, l)
    BY <1>1, <1>2, <1>5 DEF InStep
<1> QED
    BY <1>3, <1>4, <1>6 DEF ConnInv

\* The user types a line that is of use.
LEMMA TypeConn ==
    ASSUME NEW s, NEW c, NEW k \in C!ClientState, NEW u \in Seq(UpLine),
           NEW d, NEW l, ConnInv(s, c, k, u, d, l),
           NEW text \in Text, text \in C!Accepted(k)
    PROVE  ConnInv(s, c, C!HandleStdinLine(k), u \o C!LinesSent(k, text), d, l)
<1> DEFINE h == C!HandleStdinLine(k)
           sent == C!LinesSent(k, text)
<1>1. C!Mode(k) # "wait" /\ h.question = k.question
    BY DEF C!Accepted, C!HandleStdinLine, C!ClientState
<1>2. k.question \in Nat /\ OptionNumber[text] \in Nat
    BY TextAssumption DEF C!ClientState
<1>3. \A x \in UpLine : sent = <<x>> => u \o sent = Append(u, x)
    BY LineAdded
<1>4. CASE C!Mode(k) = "join"
  <2>1. u \o sent = u
    BY <1>4, EmptySeq, ConcatProperties DEF C!LinesSent
  <2>2. h.flags = k.flags \cup {"join_requested"} /\ "joined" \notin k.flags
    BY <1>4 DEF C!HandleStdinLine, C!Mode, C!ClientState
  <2> HIDE DEF h, sent
  <2>3. ConnInv(s, c, h, u \o sent, d, l)
    BY <1>1, <2>1, <2>2, AskToJoinConn
  <2> QED
    BY <2>3 DEF h, sent
<1>5. CASE C!Mode(k) = "username"
  <2> DEFINE x == [type |-> "JOIN", name |-> text]
  <2>1. text \in Name
    BY <1>5 DEF C!Accepted
  <2>2. x \in UpLine /\ sent = <<x>> /\ h.flags = k.flags /\ x.type = "JOIN"
    BY <1>5, <2>1 DEF UpLine, C!LinesSent, C!HandleStdinLine, C!ClientState
  <2> HIDE DEF h, sent, x
  <2>3. ConnInv(s, c, h, u \o sent, d, l)
    BY <1>1, <1>3, <2>2, AsideConn
  <2> QED
    BY <2>3 DEF h, sent
<1>6. CASE C!Mode(k) = "ready"
  <2> DEFINE x == [type |-> "READY"]
  <2>1. x \in UpLine /\ sent = <<x>> /\ x.type = "READY"
    BY <1>6 DEF UpLine, C!LinesSent
  <2>2. h.flags = k.flags \cup {"ready_sent"} /\ "joined" \in k.flags
    BY <1>6 DEF C!HandleStdinLine, C!ClientState, C!Mode
  <2> HIDE DEF h, sent, x
  <2>3. u \o sent = Append(u, x)
    BY <1>3, <2>1
  <2>4. h.flags \ {"ready_sent", "stdin_closed"}
          = k.flags \ {"ready_sent", "stdin_closed"}
    BY <2>2
  <2>5. ConnInv(s, c, h, Append(u, x), d, l)
    BY <1>1, <2>1, <2>2, <2>4, AsideConn
  <2> QED
    BY <2>3, <2>5 DEF h, sent
<1>7. CASE C!Mode(k) = "replay"
  <2> DEFINE x == [type |-> "REPLAY", wish |-> text = "y"]
  <2>1. x \in UpLine /\ sent = <<x>> /\ x.type = "REPLAY"
    BY <1>7 DEF UpLine, C!LinesSent
  <2>2. h.flags = (k.flags \ {"awaiting_replay_choice"}) \cup {"replay_choice_sent"}
    BY <1>7 DEF C!HandleStdinLine, C!ClientState
  <2>3. {"joined", "awaiting_replay_choice"} \subseteq k.flags
    BY <1>7 DEF C!Mode
  <2> HIDE DEF h, sent, x
  <2>4. u \o sent = Append(u, x)
    BY <1>3, <2>1
  <2>5. ConnInv(s, c, h, Append(u, x), d, l)
    BY <1>1, <2>1, <2>2, <2>3, WishConn
  <2> QED
    BY <2>4, <2>5 DEF h, sent
<1>8. ASSUME NEW y \in Window, {"joined", WaitFor[y]} \subseteq k.flags,
             NEW x \in UpLine, x.type = AnswerTo[y], x.question = k.question,
             sent = <<x>>, h.flags = k.flags \ {WaitFor[y]}
      PROVE  ConnInv(s, c, h, u \o sent, d, l)
  <2> HIDE DEF h, sent
  <2>1. u \o sent = Append(u, x)
    BY <1>3, <1>8
  <2>2. ConnInv(s, c, h, Append(u, x), d, l)
    BY <1>1, <1>8, AnswerConn
  <2> QED
    BY <2>1, <2>2 DEF h, sent
<1>9. CASE C!Mode(k) = "submission"
  <2> DEFINE x == [type |-> "SUBMIT", question |-> k.question]
  <2>1. x \in UpLine /\ sent = <<x>> /\ x.type = AnswerTo["PROMPT"]
        /\ x.question = k.question
    BY <1>2, <1>9 DEF UpLine, C!LinesSent, AnswerTo
  <2>2. h.flags = k.flags \ {WaitFor["PROMPT"]}
    BY <1>9 DEF C!HandleStdinLine, C!ClientState, WaitFor
  <2>3. {"joined", WaitFor["PROMPT"]} \subseteq k.flags
    BY <1>9 DEF C!Mode, WaitFor
  <2>4. "PROMPT" \in Window
    BY DEF Window
  <2> HIDE DEF x
  <2> QED
    BY <1>8, <2>1, <2>2, <2>3, <2>4
<1>10. CASE C!Mode(k) = "title"
  <2> DEFINE x == [type |-> "TITLE", question |-> k.question]
  <2>1. x \in UpLine /\ sent = <<x>> /\ x.type = AnswerTo["REWRITE"]
        /\ x.question = k.question
    BY <1>2, <1>10 DEF UpLine, C!LinesSent, AnswerTo
  <2>2. h.flags = k.flags \ {WaitFor["REWRITE"]}
    BY <1>10 DEF C!HandleStdinLine, C!ClientState, WaitFor
  <2>3. {"joined", WaitFor["REWRITE"]} \subseteq k.flags
    BY <1>10 DEF C!Mode, WaitFor
  <2>4. "REWRITE" \in Window
    BY DEF Window
  <2> HIDE DEF x
  <2> QED
    BY <1>8, <2>1, <2>2, <2>3, <2>4
<1>11. CASE C!Mode(k) = "vote"
  <2> DEFINE x == [type |-> "VOTE", option |-> OptionNumber[text],
                   question |-> k.question]
  <2>1. x \in UpLine /\ sent = <<x>> /\ x.type = AnswerTo["VOTING"]
        /\ x.question = k.question
    BY <1>2, <1>11 DEF UpLine, C!LinesSent, AnswerTo
  <2>2. h.flags = k.flags \ {WaitFor["VOTING"]}
    BY <1>11 DEF C!HandleStdinLine, C!ClientState, WaitFor
  <2>3. {"joined", WaitFor["VOTING"]} \subseteq k.flags
    BY <1>11 DEF C!Mode, WaitFor
  <2>4. "VOTING" \in Window
    BY DEF Window
  <2> HIDE DEF x
  <2> QED
    BY <1>8, <2>1, <2>2, <2>3, <2>4
<1> QED
    BY <1>1, <1>4, <1>5, <1>6, <1>7, <1>9, <1>10, <1>11, ModeIs

\* The user closes the input.
LEMMA CloseConn ==
    ASSUME NEW s, NEW c, NEW k \in C!ClientState, NEW u \in Seq(UpLine),
           NEW d, NEW l, ConnInv(s, c, k, u, d, l)
    PROVE  ConnInv(s, c, [k EXCEPT !.flags = @ \cup {"stdin_closed"}],
                   Append(u, [type |-> "EOF"]), d, l)
<1> DEFINE h == [k EXCEPT !.flags = @ \cup {"stdin_closed"}]
           x == [type |-> "EOF"]
<1>1. x \in UpLine /\ x.type = "EOF"
    BY DEF UpLine
<1>2. h.flags = k.flags \cup {"stdin_closed"} /\ h.question = k.question
    BY DEF C!ClientState
<1> HIDE DEF h, x
<1>3. ConnInv(s, c, h, Append(u, x), d, l)
    BY <1>1, <1>2, AsideConn
<1> QED
    BY <1>3 DEF h, x

----------------------------------------------------------------------------
(* What the environment and the end of a connection do. *)

\* The players and their ids.
LEMMA Seating ==
    ASSUME NEW s, Held(s)
    PROVE  /\ s.game.connected \subseteq Slot
           /\ \A p \in s.game.connected : s.game.pid[p] # 0
           /\ \A p, q \in Slot :
                s.game.pid[p] = s.game.pid[q] /\ s.game.pid[p] # 0 => p = q
           /\ s.game.phase \in InGame /\ s.game.phase # "RESULTS" =>
                s.game.round.active = s.game.joined \cap s.game.connected
           /\ \A c, d \in Slot : s.cid[c] = s.cid[d] /\ s.cid[c] # 0 => c = d
           /\ \A c \in Slot : s.cid[c] < s.nextId
           /\ \A p \in Slot : s.game.pid[p] < s.nextId
<1>1. /\ SeatInv(s.game, Ids(s), s.nextId) /\ s.game \in GameState
      /\ \A c, d \in Slot : s.cid[c] = s.cid[d] /\ s.cid[c] # 0 => c = d
    BY DEF Held, Fits, Safe
<1>2. \A p \in s.game.connected : s.game.pid[p] # 0
    BY <1>1 DEF SeatInv, Ids
<1>3. s.game.phase \in InGame /\ s.game.phase # "RESULTS" =>
        s.game.round.active = s.game.joined \cap s.game.connected
    BY DEF Held, Fits, Safe, Wiped, GameInv, Members, Joined
<1>4. \A c \in Slot : s.cid[c] < s.nextId
  <2>1. \A c \in Slot : s.cid[c] = 0 \/ s.cid[c] \in Ids(s)
    BY DEF Ids
  <2>2. s.nextId \in Nat \ {0}
    BY DEF Held, ServerState
  <2> QED
    BY <1>1, <2>1, <2>2 DEF SeatInv
<1> QED
    BY <1>1, <1>2, <1>3, <1>4 DEF SeatInv, GameState

\* Nobody is connected.
LEMMA BlankConn ==
    ASSUME NEW s, Solid(s), NEW c, s.cid[c] = 0
    PROVE  ConnInv(s, c, C!ClientInit, <<>>, <<>>, 0)
<1>1. Known(s, c, C!ClientInit, <<>>, <<>>)
    BY DEF Known, C!ClientInit
<1>2. ~Owes(s, c) /\ ~Gave(s, c)
    BY Seating, SolidFacts, ClockSpoken DEF Owes, Gave, Window, InGame, Phase
<1>3. InStep(s, c, C!ClientInit, <<>>, <<>>, 0)
    BY <1>2 DEF InStep, Asking, Has, C!ClientInit
<1>4. Polled(s, c, C!ClientInit, <<>>, <<>>)
    BY DEF Polled, Silent, Has, C!ClientInit
<1> QED
    BY <1>1, <1>3, <1>4 DEF ConnInv

\* One line less to be overtaken.
Less(l) == IF l > 0 THEN l - 1 ELSE 0

\* A line that is off the channel, and was not the answer that is awaited.
LEMMA TailConn ==
    ASSUME NEW s, NEW c, NEW k, NEW u \in Seq(UpLine), u # <<>>, NEW d,
           NEW l \in Nat, ConnInv(s, c, k, u, d, l),
           Last(s) # "VOTING" /\ u[1].type = AnswerTo[Last(s)] => ~Owes(s, c)
    PROVE  ConnInv(s, c, k, Tail(u), d, Less(l))
<1> DEFINE q == Tail(u)
           w == Last(s)
           v == Prior[w]
<1>1. \A i \in DOMAIN q : i \in Nat /\ i + 1 \in DOMAIN u /\ q[i] = u[i + 1]
    BY TailOff
<1>2. \A type : /\ Has(q, type) => Has(u, type)
                /\ Has(u, type) => u[1].type = type \/ Has(q, type)
    BY HasTail
<1> HIDE DEF q, w, v
<1>3. Known(s, c, k, q, d)
    BY <1>1 DEF ConnInv, Known
<1>4. Polled(s, c, k, q, d)
  <2>1. Polled(s, c, k, u, d)
    BY DEF ConnInv
  <2>2. ASSUME NEW i \in DOMAIN q, NEW j \in DOMAIN q,
               q[i].type = "REPLAY", q[j].type = "REPLAY"
        PROVE  i = j
    <3>1. i + 1 = j + 1
      BY <1>1, <2>1, <2>2 DEF Polled
    <3> QED
      BY <1>1, <3>1
  <2> QED
    BY <1>2, <2>1, <2>2 DEF Polled, Silent
<1>5. ASSUME ~Dead(s) PROVE InStep(s, c, k, q, d, Less(l))
  <2>1. InStep(s, c, k, u, d, l)
    BY <1>5 DEF ConnInv
  <2>2. \A i, j \in DOMAIN q :
          i < j /\ q[i].type = AnswerTo[w] => q[j].type # AnswerTo[v]
    <3>1. SUFFICES ASSUME NEW i \in DOMAIN q, NEW j \in DOMAIN q, i < j,
                          q[i].type = AnswerTo[w], q[j].type = AnswerTo[v]
                   PROVE  FALSE
      OBVIOUS
    <3>2. i + 1 < j + 1
      BY <1>1, <3>1
    <3> QED
      BY <1>1, <2>1, <3>1, <3>2 DEF InStep, w, v
  <2>3. \A i \in DOMAIN q : i + 1 <= l => i <= Less(l)
    BY <1>1 DEF Less
  <2>4. Clock(s) # "running" => \A i \in DOMAIN q :
          q[i].type = AnswerTo[v] =>
            i <= Less(l) /\ (Hurried(s) \/ Clock(s) = "due")
    BY <1>1, <2>1, <2>3 DEF InStep, w, v
  <2>5. \A i \in DOMAIN q : q[i].type \in {"SUBMIT", "TITLE", "VOTE"} =>
          q[i].type \in {AnswerTo[w], AnswerTo[v]}
    BY <1>1, <2>1 DEF InStep, w, v
  <2>6. Clock(s) # "off" => \A i \in DOMAIN q :
          q[i].type = AnswerTo[w] => q[i].question = s.game.roundNumber
    BY <1>1, <2>1 DEF InStep, w
  <2>7. Owes(s, c) /\ w # "VOTING" =>
          Asking(d) \/ WaitFor[w] \in k.flags \/ Has(q, AnswerTo[w])
    BY <1>2, <2>1 DEF InStep, w
  <2>8. Asking(d) => ~Has(q, AnswerTo[w])
    BY <1>2, <2>1 DEF InStep, w
  <2>9. Gave(s, c) => ~Asking(d) /\ ~Has(q, AnswerTo[v])
    BY <1>2, <2>1 DEF InStep, w, v
  <2> QED
    BY <2>1, <2>2, <2>4, <2>5, <2>6, <2>7, <2>8, <2>9 DEF InStep, w, v
<1>6. ConnInv(s, c, k, q, d, Less(l))
    BY <1>3, <1>4, <1>5 DEF ConnInv
<1> QED
    BY <1>6 DEF q

\* The clock of a pending action runs out.
LEMMA PendingDueConn ==
    ASSUME NEW s, Solid(s), s.clock = "running",
           NEW t, t = [s EXCEPT !.clock = "due"],
           NEW c \in Slot, NEW k, NEW u, NEW l \in Nat, NEW n,
           ConnInv(s, c, k, u, <<>>, l),
           s.pending \in {"SCOREBOARD", "FINAL_SCOREBOARD", "GAME_OVER",
                          "QUESTION_PROMPT"} \/ l = 0,
           \A i \in DOMAIN u : i \in Nat \ {0}
    PROVE  ConnInv(t, c, k, u, <<>>, n)
<1>1. /\ t.game = s.game /\ t.cid = s.cid /\ t.pending = s.pending
      /\ t.clock = "due"
    BY SolidFacts DEF ServerState
<1>2. s.pending # "NONE" /\ Timed(s)
    BY SolidFacts DEF Held, Solid
<1>3. Clock(s) = "off"
    BY <1>2 DEF Clock, Timed, PhaseDeadline, Window, InGame, Phase
<1>4. /\ Last(t) = Last(s) /\ Clock(t) = "off" /\ (Dead(t) <=> Dead(s))
      /\ ~Owes(t, c) /\ ~Gave(t, c) /\ (Spoken(t, c) <=> Spoken(s, c))
    BY <1>1, <1>3 DEF Last, Clock, Dead, Owes, Gave, Spoken
<1>5. Known(t, c, k, u, <<>>)
    BY <1>1 DEF ConnInv, Known
<1>6. Polled(t, c, k, u, <<>>)
    BY <1>4 DEF ConnInv, Polled
<1>7. ASSUME ~Dead(t) PROVE InStep(t, c, k, u, <<>>, n)
  <2>1. InStep(s, c, k, u, <<>>, l)
    BY <1>4, <1>7 DEF ConnInv
  <2>2. \A i \in DOMAIN u : u[i].type # AnswerTo[Prior[Last(s)]]
    <3>1. SUFFICES ASSUME NEW i \in DOMAIN u,
                          u[i].type = AnswerTo[Prior[Last(s)]]
                   PROVE  FALSE
      OBVIOUS
    <3>2. i <= l /\ Hurried(s)
      BY <1>3, <2>1, <3>1 DEF InStep
    <3>3. l = 0
      BY <3>2 DEF Hurried
    <3> QED
      BY <3>2, <3>3
  <2>3. ~Asking(<<>>)
    BY DEF Asking
  <2> QED
    BY <1>1, <1>3, <1>4, <2>1, <2>2, <2>3 DEF InStep
<1> QED
    BY <1>5, <1>6, <1>7 DEF ConnInv

\* The clock of the window runs out.
LEMMA DeadlineDueConn ==
    ASSUME NEW s, Solid(s), Clock(s) = "running",
           NEW t, t = [s EXCEPT !.game = SetDeadline(@, s.game.phase, "due")],
           NEW c \in Slot, NEW k, NEW u, NEW l, NEW n \in Nat,
           ConnInv(s, c, k, u, <<>>, l),
           \A i \in DOMAIN u : i <= n
    PROVE  ConnInv(t, c, k, u, <<>>, n)
<1>1. s.game.phase \in Window /\ Last(s) = s.game.phase
    BY ClockSpoken
<1>2. /\ t.game = SetDeadline(s.game, s.game.phase, "due") /\ t.cid = s.cid
      /\ t.pending = s.pending /\ t.clock = s.clock
    BY SolidFacts DEF ServerState
<1>3. /\ t.game.phase = s.game.phase
      /\ t.game.round.deadline[s.game.phase] = "due"
      /\ t.game.round.active = s.game.round.active
      /\ t.game.round.submitted = s.game.round.submitted
      /\ t.game.round.rewritten = s.game.round.rewritten
      /\ t.game.round.voted = s.game.round.voted
    BY <1>1, <1>2, SetDeadlineClocks, SolidFacts DEF Timer
<1>4. /\ t.game.pid = s.game.pid /\ t.game.roundNumber = s.game.roundNumber
      /\ t.game.connected = s.game.connected
      /\ t.game.decided = s.game.decided
    BY <1>2, SolidFacts DEF SetDeadline, GameState
<1>5. Clock(t) = "due" /\ Last(t) = Last(s) /\ Done(t.game) = Done(s.game)
    BY <1>1, <1>3 DEF Clock, PhaseDeadline, Last, Done
<1>6. (Owes(t, c) <=> Owes(s, c)) /\ (Gave(t, c) <=> Gave(s, c))
    BY <1>2, <1>3, <1>4, <1>5 DEF Owes, Gave
<1>7. Spoken(s, c) /\ Spoken(t, c) /\ ~Dead(s)
    BY <1>5, ClockSpoken
<1>8. Known(t, c, k, u, <<>>)
    BY <1>2 DEF ConnInv, Known
<1>9. Polled(t, c, k, u, <<>>)
    BY <1>7 DEF ConnInv, Polled
<1>10. InStep(t, c, k, u, <<>>, n)
  <2>1. InStep(s, c, k, u, <<>>, l)
    BY <1>7 DEF ConnInv
  <2>2. ~Asking(<<>>)
    BY DEF Asking
  <2> QED
    BY <1>4, <1>5, <1>6, <2>1, <2>2 DEF InStep
<1> QED
    BY <1>8, <1>9, <1>10 DEF ConnInv

----------------------------------------------------------------------------
(* Seats and ballots, as the engine's steps leave them. *)

\* The same players are seated, and no ballot that is open loses its entries.
SameSeats(g, h) ==
    /\ h.joined = g.joined
    /\ h.phase = "VOTING" =>
         h.round.reveal # {} \/ (g.phase = "VOTING" /\ h.round.reveal = g.round.reveal)

LEMMA SetDeadlineSeats ==
    ASSUME NEW g \in GameState, NEW w, NEW t
    PROVE  LET h == SetDeadline(g, w, t)
           IN  /\ h.joined = g.joined /\ h.round.reveal = g.round.reveal
               /\ h.phase = g.phase
    BY DEF SetDeadline, GameState, RoundState

LEMMA AdvanceSeats ==
    ASSUME NEW g \in GameState, NEW h \in AdvancePhaseIfReady(g)
    PROVE  SameSeats(g, h)
<1>1. CASE h = g
    BY <1>1 DEF SameSeats
<1>2. CASE g.phase = "PROMPT" /\ AllSubmitted(g.round)
  <2> DEFINE e == SetDeadline(g, "PROMPT", "off")
  <2>1. e \in GameState /\ e.joined = g.joined
    BY <1>2, SetDeadlineSeats DEF SetDeadline, GameState, RoundState, Window, Timer
  <2>2. h \in AdvanceFromPrompt(e)
    BY <1>2 DEF AdvancePhaseIfReady
  <2> HIDE DEF e
  <2>3. CASE h = [e EXCEPT !.phase = "RESULTS"]
    BY <2>1, <2>3 DEF SameSeats, GameState
  <2>4. CASE \E r \in AssignRewriteTargets(e.round) :
               h = SetDeadline([e EXCEPT !.round = r, !.phase = "REWRITE"],
                               "REWRITE", "off")
    <3>1. PICK r \in AssignRewriteTargets(e.round) :
               h = SetDeadline([e EXCEPT !.round = r, !.phase = "REWRITE"],
                               "REWRITE", "off")
      BY <2>4
    <3>2. h.joined = e.joined /\ h.phase = "REWRITE"
      BY <2>1, <3>1 DEF SetDeadline, GameState
    <3> QED
      BY <2>1, <3>2 DEF SameSeats
  <2> QED
    BY <2>2, <2>3, <2>4 DEF AdvanceFromPrompt
<1>3. CASE g.phase = "REWRITE" /\ AllRewritten(g.round)
  <2> DEFINE e == SetDeadline(g, "REWRITE", "off")
  <2>1. e \in GameState /\ e.joined = g.joined
    BY <1>3, SetDeadlineSeats DEF SetDeadline, GameState, RoundState, Window, Timer
  <2>2. h = AdvanceFromRewrite(e)
    BY <1>3 DEF AdvancePhaseIfReady
  <2> HIDE DEF e
  <2>3. CASE CanPrepareVoting(e.round)
    <3>1. h = SetDeadline([e EXCEPT !.round = PrepareVoting(@), !.phase = "VOTING"],
                          "VOTING", "off")
      BY <2>2, <2>3 DEF AdvanceFromRewrite
    <3>2. h.joined = e.joined /\ h.round.reveal = PrepareVoting(e.round).reveal
      BY <2>1, <3>1 DEF SetDeadline, GameState, RoundState, PrepareVoting
    <3>3. PrepareVoting(e.round).reveal # {}
      BY <2>1, <2>3 DEF CanPrepareVoting, PrepareVoting, GameState, RoundState
    <3> QED
      BY <2>1, <3>2, <3>3 DEF SameSeats
  <2>4. CASE ~CanPrepareVoting(e.round)
    BY <2>1, <2>2, <2>4 DEF AdvanceFromRewrite, SameSeats, GameState
  <2> QED
    BY <2>3, <2>4
<1>4. CASE g.phase = "VOTING" /\ AllVoted(g.round)
  <2> DEFINE e == SetDeadline(g, "VOTING", "off")
  <2>1. e \in GameState /\ e.joined = g.joined
    BY <1>4, SetDeadlineSeats DEF SetDeadline, GameState, RoundState, Window, Timer
  <2>2. h = AdvanceFromVoting(e)
    BY <1>4 DEF AdvancePhaseIfReady
  <2> HIDE DEF e
  <2>3. h.joined = e.joined /\ h.phase = "RESULTS"
    BY <2>1, <2>2 DEF AdvanceFromVoting, ApplyRoundScores, GameState
  <2> QED
    BY <2>1, <2>3 DEF SameSeats
<1> QED
    BY <1>1, <1>2, <1>3, <1>4 DEF AdvancePhaseIfReady

LEMMA TimeoutSeats ==
    ASSUME NEW g, GameInv(g), NEW h \in ApplyPhaseTimeout(g)
    PROVE  SameSeats(g, h)
<1>1. CASE PhaseDeadline(g) # "due"
    BY <1>1 DEF ApplyPhaseTimeout, SameSeats
<1>2. CASE PhaseDeadline(g) = "due"
  <2> DEFINE e == SetDeadline(g, g.phase, "off")
             f == FillMissing(e)
  <2>1. g.phase \in Window /\ g \in GameState
    BY <1>2 DEF PhaseDeadline, GameInv
  <2>2. /\ GameInv(e) /\ e.phase = g.phase /\ e.joined = g.joined
        /\ e.round.reveal = g.round.reveal
    BY <2>1, SetDeadlineInv, SetDeadlineSeats DEF Timer
  <2>3. h \in AdvancePhaseIfReady(f)
    BY <1>2 DEF ApplyPhaseTimeout
  <2> HIDE DEF e
  <2>4. GameInv(f) /\ f.phase = e.phase
    BY <2>1, <2>2, FillMissingKeeps DEF Keeps
  <2>5. f.joined = e.joined /\ f.round.reveal = e.round.reveal
    BY <2>1, <2>2 DEF FillMissing, ApplyMissingFallbacks, ApplyMissingRewrites,
                      ApplyMissingVotes, GameInv, GameState, RoundState, Window
  <2> HIDE DEF f
  <2>6. SameSeats(f, h)
    BY <2>3, <2>4, AdvanceSeats DEF GameInv
  <2> QED
    BY <2>2, <2>4, <2>5, <2>6 DEF SameSeats
<1> QED
    BY <1>1, <1>2

LEMMA BeginSeats ==
    ASSUME NEW g \in GameState, g.phase # "VOTING", NEW h \in BeginRound(g)
    PROVE  SameSeats(g, h)
<1>1. h.joined = g.joined /\ h.phase # "VOTING"
    BY DEF BeginRound, GameState
<1> QED
    BY <1>1 DEF SameSeats

LEMMA AnswerSeats ==
    ASSUME NEW g \in GameState, NEW id, NEW other,
           NEW h \in {HandleSubmit(g, id), HandleRewrite(g, id),
                      HandleVote(g, id, other)}
    PROVE  SameSeats(g, h)
<1>1. \A r : [g EXCEPT !.round = r].joined = g.joined
             /\ [g EXCEPT !.round = r].phase = g.phase
             /\ [g EXCEPT !.round = r].round = r
    BY DEF GameState
<1>2. h = HandleSubmit(g, id) => SameSeats(g, h)
    BY <1>1 DEF HandleSubmit, RecordSubmission, SameSeats, GameState, RoundState
<1>3. h = HandleRewrite(g, id) => SameSeats(g, h)
    BY <1>1 DEF HandleRewrite, RecordRewrite, SameSeats, GameState, RoundState
<1>4. h = HandleVote(g, id, other) => SameSeats(g, h)
    BY <1>1 DEF HandleVote, RecordVote, SameSeats, GameState, RoundState
<1> QED
    BY <1>2, <1>3, <1>4

\* Seats and ballots of a player who leaves.
LEMMA LeaverSeats ==
    ASSUME NEW g \in GameState, NEW id, SlotOf(g, id) # NoSlot
    PROVE  LET h == HandleDisconnect(g, id)
               p == SlotOf(g, id)
           IN  /\ p \in Slot
               /\ h.connected = g.connected \ {p}
               /\ h.joined \in {g.joined, g.joined \ {p}}
               /\ h.decided = g.decided \ {p} /\ h.wants = g.wants \ {p}
               /\ \A q \in Slot \ {p} : h.pid[q] = g.pid[q]
               /\ h.round.reveal = g.round.reveal
               /\ h.round.active \in {g.round.active, g.round.active \ {p}}
               /\ h.round.submitted = g.round.submitted
               /\ h.round.rewritten = g.round.rewritten
               /\ h.round.voted = g.round.voted
               /\ h.phase = g.phase
                    \/ (g.phase \in InGame /\ h.phase = "OVER"
                        /\ Cardinality(h.joined \cap h.connected) < MinPlayers)
<1> DEFINE p == SlotOf(g, id)
<1>1. p \in Slot
    BY SlotOfType
<1>2. CASE g.phase = "LOBBY"
  <2>1. HandleDisconnect(g, id) = ResetPlayer(g, p)
    BY <1>2 DEF HandleDisconnect
  <2> HIDE DEF p
  <2>2. LET h == ResetPlayer(g, p)
        IN  /\ h.connected = g.connected \ {p}
            /\ h.joined = g.joined \ {p}
            /\ h.decided = g.decided \ {p} /\ h.wants = g.wants \ {p}
            /\ \A q \in Slot \ {p} : h.pid[q] = g.pid[q]
            /\ h.round = g.round /\ h.phase = g.phase
    BY <1>1 DEF ResetPlayer, GameState
  <2> QED
    BY <1>1, <2>1, <2>2 DEF p
<1>3. CASE g.phase # "LOBBY"
  <2> DEFINE left == [g EXCEPT !.connected = @ \ {p},
                               !.ready = @ \ {p},
                               !.decided = @ \ {p},
                               !.wants = @ \ {p},
                               !.round = IF @.on THEN Deactivate(@, p) ELSE @]
  <2>1. /\ HandleDisconnect(g, id) = LeaveMatch(g, p)
        /\ LeaveMatch(g, p) =
             IF left.phase # "OVER" /\ JoinedCount(left) < MinPlayers
             THEN EndGame(left) ELSE left
    BY <1>3 DEF HandleDisconnect, LeaveMatch
  <2> HIDE DEF p
  <2>2. /\ left.connected = g.connected \ {p} /\ left.joined = g.joined
        /\ left.decided = g.decided \ {p} /\ left.wants = g.wants \ {p}
        /\ left.pid = g.pid /\ left.phase = g.phase
        /\ left.round = IF g.round.on THEN Deactivate(g.round, p) ELSE g.round
        /\ DOMAIN left = DOMAIN g
        /\ EndGame(left) = [left EXCEPT !.phase = "OVER"]
    BY DEF GameState, EndGame
  <2>3. LET r == left.round
        IN  /\ r.reveal = g.round.reveal
            /\ r.active \in {g.round.active, g.round.active \ {p}}
            /\ r.submitted = g.round.submitted
            /\ r.rewritten = g.round.rewritten /\ r.voted = g.round.voted
    <3>1. g.round \in RoundState
      BY DEF GameState
    <3> QED
      BY <2>2, <3>1 DEF Deactivate, RoundState
  <2> HIDE DEF left
  <2>4. /\ EndGame(left).connected = left.connected
        /\ EndGame(left).joined = left.joined
        /\ EndGame(left).decided = left.decided /\ EndGame(left).wants = left.wants
        /\ EndGame(left).pid = left.pid /\ EndGame(left).round = left.round
        /\ EndGame(left).phase = "OVER"
    <3>1. /\ "phase" \in DOMAIN left
          /\ \A x \in DOMAIN left \ {"phase"} : EndGame(left)[x] = left[x]
      BY <2>2 DEF GameState
    <3>2. {"connected", "joined", "decided", "wants", "pid", "round"}
            \subseteq DOMAIN left \ {"phase"}
      BY <2>2 DEF GameState
    <3> QED
      BY <2>2, <3>1, <3>2
  <2>5. LET h == LeaveMatch(g, p)
        IN  /\ h.connected = g.connected \ {p}
            /\ h.joined = g.joined
            /\ h.decided = g.decided \ {p} /\ h.wants = g.wants \ {p}
            /\ h.pid = g.pid /\ h.round = left.round
            /\ h.phase = g.phase
                 \/ (g.phase # "OVER" /\ h.phase = "OVER"
                     /\ Cardinality(h.joined \cap h.connected) < MinPlayers)
    BY <2>1, <2>2, <2>4 DEF JoinedCount, Joined
  <2>6. g.phase \in Phase
    BY DEF GameState
  <2> QED
    BY <1>1, <1>3, <2>1, <2>3, <2>5, <2>6 DEF p, InGame
<1> QED
    BY <1>2, <1>3

----------------------------------------------------------------------------
(* What the server's steps mean to a connection that is sent nothing. *)

\* As far as c can tell the match is where it was, or is over for good.
Rests(s, t, c) ==
    /\ t.cid[c] = s.cid[c]
    /\ Due(t) => Due(s)
    /\ Spoken(t, c) => Spoken(s, c) \/ s.cid[c] = 0
    /\ ~Dead(t) =>
         /\ ~Dead(s) /\ Last(t) = Last(s) /\ Clock(t) = Clock(s)
         /\ Hurried(s) => Hurried(t)
         /\ Clock(t) # "off" => t.game.roundNumber = s.game.roundNumber
         /\ Owes(t, c) => Owes(s, c)
         /\ Gave(t, c) => Gave(s, c)

\* The open window has been closed, and what follows is on its way.
Ends(s, t) ==
    /\ t.cid = s.cid /\ ~Due(t) /\ t.game.phase # "OVER"
    /\ Clock(s) # "off" /\ Clock(t) = "off"
    /\ Last(t) = Last(s) /\ Hurried(t)

Carries(s, t, c) ==
    \A k, u, d, l : ConnInv(s, c, k, u, d, l) => ConnInv(t, c, k, u, d, l)

LEMMA RestsCarries ==
    ASSUME NEW s, NEW t, NEW c, Rests(s, t, c)
    PROVE  Carries(s, t, c)
<1> SUFFICES ASSUME NEW k, NEW u, NEW d, NEW l, ConnInv(s, c, k, u, d, l)
             PROVE  ConnInv(t, c, k, u, d, l)
    BY DEF Carries
<1>1. Known(t, c, k, u, d)
    BY DEF ConnInv, Known, Rests
<1>2. Polled(t, c, k, u, d)
  <2>1. s.cid[c] = 0 => Silent(k, u, d)
    BY DEF ConnInv, Known, Silent, Has
  <2> QED
    BY <2>1 DEF ConnInv, Polled, Rests
<1>3. ASSUME ~Dead(t) PROVE InStep(t, c, k, u, d, l)
  <2>1. InStep(s, c, k, u, d, l)
    BY <1>3 DEF ConnInv, Rests
  <2>2. /\ Last(t) = Last(s) /\ Clock(t) = Clock(s)
        /\ Hurried(s) => Hurried(t)
        /\ Clock(t) # "off" => t.game.roundNumber = s.game.roundNumber
        /\ Owes(t, c) => Owes(s, c)
        /\ Gave(t, c) => Gave(s, c)
    BY <1>3 DEF Rests
  <2>3. Asking(d) => Clock(s) # "off"
    BY <2>1 DEF InStep
  <2> QED
    BY <2>1, <2>2, <2>3 DEF InStep
<1> QED
    BY <1>1, <1>2, <1>3 DEF ConnInv

LEMMA EndsCarries ==
    ASSUME NEW s, NEW t, Ends(s, t), NEW c,
           Clock(s) = "due" \/ s.cid[c] = 0 \/ Gave(s, c)
    PROVE  Carries(s, t, c)
<1> SUFFICES ASSUME NEW k, NEW u, NEW d, NEW l, ConnInv(s, c, k, u, d, l)
             PROVE  ConnInv(t, c, k, u, d, l)
    BY DEF Carries
<1> DEFINE w == Last(s)
           v == Prior[w]
<1>1. Known(t, c, k, u, d)
    BY DEF ConnInv, Known, Ends
<1>2. Polled(t, c, k, u, d)
    BY ClockSpoken DEF ConnInv, Polled, Ends
<1>3. InStep(s, c, k, u, d, l)
    BY ClockSpoken DEF ConnInv, Ends
<1>4. ~Asking(d)
    BY <1>3 DEF InStep, ConnInv, Known, Asking
<1>5. v \in Window /\ w \in Window
    BY WindowFacts, LastWindow
<1>6. ASSUME NEW i \in DOMAIN u, u[i].type = AnswerTo[v]
      PROVE  i <= l /\ Clock(s) = "due"
  <2>1. s.cid[c] # 0
    <3>1. AnswerTo[v] \in {"SUBMIT", "TITLE", "VOTE"}
      BY <1>5, WindowFacts
    <3> QED
      BY <1>6, <3>1 DEF ConnInv, Known
  <2>2. ~Gave(s, c)
    BY <1>3, <1>6 DEF InStep, Has
  <2>3. Clock(s) = "due"
    BY <2>1, <2>2
  <2> QED
    BY <1>3, <1>6, <2>3 DEF InStep
<1> HIDE DEF v
<1>7. ~Owes(t, c) /\ ~Gave(t, c)
    BY DEF Owes, Gave, Ends
<1>8. Last(t) = w /\ Clock(t) = "off" /\ Hurried(t)
    BY DEF Ends
<1> HIDE DEF w
<1>9. /\ \A i \in DOMAIN u : u[i].type \in {"SUBMIT", "TITLE", "VOTE"} =>
             u[i].type \in {AnswerTo[w], AnswerTo[v]}
      /\ \A i, j \in DOMAIN u :
             i < j /\ u[i].type = AnswerTo[w] => u[j].type # AnswerTo[v]
      /\ k.flags \cap C!Window \subseteq {WaitFor[w]}
    BY <1>3, <1>4 DEF InStep, w, v
<1>10. InStep(t, c, k, u, d, l)
    BY <1>4, <1>6, <1>7, <1>8, <1>9 DEF InStep, v
<1> QED
    BY <1>1, <1>2, <1>10 DEF ConnInv

LEMMA CarriesTrans ==
    ASSUME NEW s, NEW t, NEW u, NEW c, Carries(s, t, c), Carries(t, u, c)
    PROVE  Carries(s, u, c)
    BY DEF Carries

\* Nothing has happened to the match, the clocks and the ids.
LEMMA SameCarries ==
    ASSUME NEW s, NEW t, t.game = s.game, t.cid = s.cid,
           t.pending = s.pending, t.clock = s.clock, NEW c
    PROVE  Carries(s, t, c) /\ (Due(t) <=> Due(s)) /\ (Plain(s) => Plain(t))
<1>1. /\ Clock(t) = Clock(s) /\ (Due(t) <=> Due(s)) /\ Last(t) = Last(s)
      /\ (Hurried(s) <=> Hurried(t)) /\ (Dead(t) <=> Dead(s))
    BY DEF Clock, Due, Last, Hurried, Dead
<1>2. (Owes(t, c) <=> Owes(s, c)) /\ (Gave(t, c) <=> Gave(s, c))
      /\ (Spoken(t, c) <=> Spoken(s, c))
    BY <1>1 DEF Owes, Gave, Spoken
<1>3. Rests(s, t, c)
    BY <1>1, <1>2 DEF Rests
<1>4. Plain(s) => Plain(t)
    BY <1>1 DEF Plain
<1> QED
    BY <1>1, <1>3, <1>4, RestsCarries

----------------------------------------------------------------------------
(* Moving on. *)

LEMMA AnnouncedIs ==
    ASSUME NEW s, Lone(s), s.game.phase \in {"REWRITE", "VOTING", "RESULTS"},
           NEW t \in HandlePhaseChange(s)
    PROVE  t = Schedule(s, Titles[s.game.phase])
<1>1. \A x \in BroadcastBy(Removal, s) : x = s
    BY LoneBroadcast
<1>2. CASE s.game.phase = "REWRITE"
    BY <1>1, <1>2 DEF HandlePhaseChange, HandlePhaseChangeBy, Titles
<1>3. CASE s.game.phase = "VOTING"
    BY <1>1, <1>3 DEF HandlePhaseChange, HandlePhaseChangeBy, Titles
<1>4. CASE s.game.phase = "RESULTS"
    BY <1>4 DEF HandlePhaseChange, HandlePhaseChangeBy, Titles
<1> QED
    BY <1>2, <1>3, <1>4

LEMMA ScheduledIs ==
    ASSUME NEW s \in ServerState, NEW a
    PROVE  LET t == Schedule(s, a)
           IN  /\ t.game = s.game /\ t.cid = s.cid /\ t.open = s.open
               /\ t.pending = a /\ t.clock = "running"
    BY DEF Schedule, ServerState

LEMMA GameIs ==
    ASSUME NEW s \in ServerState, NEW g
    PROVE  LET t == [s EXCEPT !.game = g]
           IN  /\ t.game = g /\ t.cid = s.cid /\ t.open = s.open
               /\ t.pending = s.pending /\ t.clock = s.clock
    BY DEF ServerState

\* A window that was open has been closed, and the next phase is announced.
LEMMA MovedOn ==
    ASSUME NEW s, Held(s), Lone(s), Plain(s), Clock(s) # "off",
           NEW g, Advanced(s.game, g), SameTable(s.game, g),
           SameSeats(s.game, g),
           NEW t \in HandlePhaseChange([s EXCEPT !.game = g])
    PROVE  Plain(t) /\ Ends(s, t) /\ t.open = s.open
<1> DEFINE u == [s EXCEPT !.game = g]
<1>1. /\ s.game.phase \in Window /\ g.phase = NextOf[s.game.phase]
      /\ g.phase \in {"REWRITE", "VOTING", "RESULTS"}
      /\ Begun(g) /\ s \in ServerState
    BY DEF Advanced, NextOf, Window, Held
<1>2. Lone(u) /\ u.game = g /\ u.cid = s.cid /\ u.open = s.open
    BY <1>1, GameIs, LoneChange DEF Unasked
<1>3. t = [[u EXCEPT !.pending = Titles[g.phase]] EXCEPT !.clock = "running"]
    BY <1>1, <1>2, AnnouncedIs DEF Schedule
<1>4. /\ t.game = g /\ t.cid = s.cid /\ t.open = s.open
      /\ t.pending = Titles[g.phase] /\ t.clock = "running"
    BY <1>1, <1>3 DEF ServerState
<1> HIDE DEF u
<1>5. Clock(t) = "off"
    BY <1>1, <1>4, AllOffNow DEF Clock, Begun
<1>6. Last(s) = s.game.phase
    BY ClockSpoken
<1>7. Last(t) = Last(s)
    BY <1>1, <1>4, <1>5, <1>6 DEF Last, NextOf, Window, Prior
<1>8. Hurried(t)
    BY <1>1, <1>4 DEF Hurried, Titles
<1>9. Ends(s, t)
    BY <1>1, <1>4, <1>5, <1>7, <1>8 DEF Ends, Due
<1>10. Plain(t)
  <2>1. g.phase \notin {"LOBBY", "OVER"} /\ Fresh(g)
    BY <1>1 DEF Begun
  <2>2. t.pending # "SCOREBOARD"
    BY <1>1, <1>4 DEF Titles
  <2>3. g.phase = "VOTING" => g.round.reveal # {}
    BY <1>1 DEF SameSeats, NextOf, Window
  <2>4. /\ g.joined = s.game.joined /\ g.connected = s.game.connected
        /\ g.pid = s.game.pid /\ g.wants = s.game.wants
        /\ g.decided = s.game.decided
    BY DEF SameTable, SameSeats
  <2> QED
    BY <1>4, <2>1, <2>2, <2>3, <2>4 DEF Plain
<1> QED
    BY <1>4, <1>9, <1>10

\* Whoever is welcomed has a seat, and outside the results is a member.
LEMMA Seat ==
    ASSUME NEW s, Held(s), Plain(s), NEW c \in Slot, s.cid[c] # 0
    PROVE  \E p \in s.game.connected :
             /\ p \in Slot /\ s.game.pid[p] = s.cid[c]
             /\ p \in Joined(s.game) /\ SlotOf(s.game, s.cid[c]) = p
             /\ s.game.phase \in Window => p \in s.game.round.active
<1>1. PICK p \in s.game.connected : s.game.pid[p] = s.cid[c]
    BY DEF Plain
<1>2. p \in Slot /\ p \in s.game.joined
    BY <1>1, Seating DEF Plain
<1>3. SlotOf(s.game, s.cid[c]) = p
    BY <1>1, <1>2, SlotOfIs DEF Held, Fits, Safe
<1>4. s.game.phase \in Window => p \in s.game.round.active
    BY <1>2, Seating DEF Window, InGame, Phase
<1> QED
    BY <1>1, <1>2, <1>3, <1>4 DEF Joined

\* The look for the last answer changes nothing, or finds that everybody has
\* given one.
LEMMA AdvanceView ==
    ASSUME NEW s, Sane(s), Lone(s), Sound(s.game), Plain(s),
           NEW t \in AdvanceIfReady(s)
    PROVE  /\ Plain(t) /\ t.open = s.open /\ (Due(t) => Due(s))
           /\ t.cid = s.cid
           /\ \A c \in Slot : Carries(s, t, c)
           /\ s.game.phase \notin Window => t = s
<1>1. /\ Held(s) /\ s \in ServerState /\ Safe(s.game) /\ s.game \in GameState
      /\ s.game.phase \in Window => GameInv(s.game)
      /\ Owned(s.game)
    BY HeldFacts DEF Sane, Held, Fits, Safe, Sound
<1>2. PICK g \in AdvancePhaseIfReady(s.game) :
        t \in IF g.phase = s.game.phase THEN {[s EXCEPT !.game = g]}
              ELSE HandlePhaseChange([s EXCEPT !.game = g])
  <2>1. PICK g \in AdvancePhaseIfReady(s.game) :
          t \in LET x == [s EXCEPT !.game = g]
                IN  IF g.phase = s.game.phase THEN {x}
                    ELSE HandlePhaseChangeBy(Removal, x)
    BY DEF AdvanceIfReady, AdvanceIfReadyBy
  <2> QED
    BY <2>1 DEF HandlePhaseChange
<1>3. CASE g = s.game
  <2>1. t = s
    BY <1>1, <1>2, <1>3 DEF ServerState
  <2> QED
    BY <2>1 DEF Carries
<1>4. CASE g # s.game
  <2>1. ~Fresh(s.game) /\ Advanced(s.game, g)
    BY <1>1, <1>4, AdvanceBegins
  <2>2. s.game.phase \in Window /\ g.phase # s.game.phase
    BY <2>1 DEF Advanced, NextOf, Window
  <2>3. SameTable(s.game, g) /\ SameSeats(s.game, g)
    BY <1>1, AdvanceSafe, AdvanceSeats
  <2>4. Clock(s) # "off"
    BY <2>1, <2>2 DEF Plain
  <2>5. Plain(t) /\ Ends(s, t) /\ t.open = s.open
    BY <1>1, <1>2, <2>1, <2>2, <2>3, <2>4, MovedOn
  <2>6. s.game.round.active \subseteq Done(s.game)
    <3>1. \/ s.game.phase = "PROMPT" /\ AllSubmitted(s.game.round)
          \/ s.game.phase = "REWRITE" /\ AllRewritten(s.game.round)
          \/ s.game.phase = "VOTING" /\ AllVoted(s.game.round)
      BY <1>4 DEF AdvancePhaseIfReady
    <3> QED
      BY <3>1 DEF Done, AllSubmitted, AllRewritten, AllVoted
  <2>7. ASSUME NEW c \in Slot PROVE Carries(s, t, c)
    <3>1. s.cid[c] = 0 \/ Gave(s, c)
      BY <1>1, <2>2, <2>4, <2>6, Seat DEF Gave
    <3> QED
      BY <2>5, <3>1, EndsCarries
  <2> QED
    BY <2>2, <2>5, <2>7 DEF Ends
<1> QED
    BY <1>3, <1>4

\* A deadline that has passed ends its phase for everybody.
LEMMA DeadlineView ==
    ASSUME NEW s, Solid(s), Plain(s), NEW t \in EnforceDeadline(s)
    PROVE  /\ Plain(t) /\ t.open = s.open /\ t.cid = s.cid
           /\ Due(t) => s.clock = "due"
           /\ \A c \in Slot : Carries(s, t, c)
<1>1. /\ Held(s) /\ Lone(s) /\ s \in ServerState
    BY SolidFacts DEF Solid
<1>2. CASE Clock(s) # "due"
  <2>1. t = s
    BY <1>1, <1>2, LoneDeadline DEF Clock
  <2> QED
    BY <1>2, <2>1 DEF Carries, Due
<1>3. CASE Clock(s) = "due"
  <2>1. s.game.phase \in Window /\ GameInv(s.game) /\ Sound(s.game)
    BY <1>3, ClockSpoken, SolidFacts DEF Window
  <2>2. PICK g \in ApplyPhaseTimeout(s.game) :
          LET u == [s EXCEPT !.game = g]
          IN  IF u.game.phase # s.game.phase
              THEN t \in HandlePhaseChange(u) ELSE t = u
    BY <1>1, <1>3, LoneDeadline DEF Clock
  <2>3. Advanced(s.game, g)
    BY <1>3, <2>1, TimeoutBegins DEF Clock
  <2>4. SameSeats(s.game, g)
    BY <2>1, TimeoutSeats
  <2>5. SameTable(s.game, g)
    BY <1>1, <1>3, <2>1, TimeoutScored DEF Clock, Held, Fits, Safe, Scored
  <2>6. g.phase # s.game.phase
    BY <2>3 DEF Advanced, NextOf, Window
  <2>7. t \in HandlePhaseChange([s EXCEPT !.game = g])
    BY <1>1, <2>2, <2>6, GameIs
  <2>8. Plain(t) /\ Ends(s, t) /\ t.open = s.open
    BY <1>1, <1>3, <2>3, <2>4, <2>5, <2>7, MovedOn
  <2> QED
    BY <1>3, <2>8, EndsCarries DEF Ends
<1> QED
    BY <1>2, <1>3

----------------------------------------------------------------------------
(* Playing again. *)

\* Outside the windows no clock runs.
LEMMA OverIs ==
    ASSUME NEW s, s.game.phase \notin Window
    PROVE  Clock(s) = "off" /\ Last(s) = "VOTING"
    BY DEF Clock, PhaseDeadline, Last

\* Where no send fails, what is sent changes nothing.
LEMMA SentIs ==
    ASSUME NEW s, Lone(s)
    PROVE  /\ \A c \in s.open : SendTo(s, c) = {s}
           /\ \A t \in Broadcast(s) : t = s
<1>1. \A t \in Broadcast(s) : t = s
    BY LoneBroadcast DEF Broadcast
<1>2. \A c \in s.open : SendTo(s, c) = {s}
    BY DEF SendTo, Lone
<1> QED
    BY <1>1, <1>2

\* A match that begins, or could not.
LEMMA StartedIs ==
    ASSUME NEW v \in ServerState, Lone(v), NEW g,
           NEW t \in AfterStart([v EXCEPT !.game = g])
    PROVE  /\ t.game = g /\ t.cid = v.cid /\ t.open = v.open
           /\ IF g.phase = "LOBBY"
              THEN t.pending = v.pending /\ t.clock = v.clock
              ELSE t.pending = "QUESTION_PROMPT" /\ t.clock = "running"
<1> DEFINE x == [v EXCEPT !.game = g]
<1>1. Unasked(v, x)
    BY LoneChange DEF Unasked
<1>2. /\ x.game = g /\ x.cid = v.cid /\ x.open = v.open
      /\ x.pending = v.pending /\ x.clock = v.clock
    BY GameIs
<1>3. t \in AfterStartBy(Removal, x)
    BY DEF AfterStart
<1> HIDE DEF x
<1>4. \A y \in BroadcastBy(Removal, x) : y = x
    BY <1>1, LoneBroadcast DEF Unasked
<1>5. t = IF g.phase = "LOBBY" THEN x ELSE Schedule(x, "QUESTION_PROMPT")
    BY <1>2, <1>3, <1>4 DEF AfterStartBy
<1>6. LET y == Schedule(x, "QUESTION_PROMPT")
      IN  /\ y.game = x.game /\ y.cid = x.cid /\ y.open = x.open
          /\ y.pending = "QUESTION_PROMPT" /\ y.clock = "running"
  <2>1. x = [f \in Fields |-> x[f]]
    BY <1>1 DEF Unasked, Lone
  <2> QED
    BY <2>1 DEF Schedule, Fields
<1> QED
    BY <1>2, <1>5, <1>6

\* A match that begins at once after the last one.
LEMMA AgainIs ==
    ASSUME NEW s, Sane(s), Lone(s), s.game.phase = "OVER",
           ReplayCount(s.game) >= MinPlayers,
           NEW t \in TryStartReplay(CancelCountdown(s))
    PROVE  \E g \in Start(PrepareReplay(s.game)) :
             LET v == CancelCountdown(s)
             IN  /\ t.game = g /\ t.cid = s.cid /\ t.open = s.open
                 /\ IF g.phase = "LOBBY"
                    THEN t.pending = v.pending /\ t.clock = v.clock
                    ELSE t.pending = "QUESTION_PROMPT" /\ t.clock = "running"
<1> DEFINE v == CancelCountdown(s)
<1>1. /\ Sane(v) /\ v.game = s.game /\ v.open = s.open /\ v.cid = s.cid
      /\ Unasked(s, v)
    BY CancelIs, LoneChange
<1> HIDE DEF v
<1>2. ReplayCount(s.game) \in Nat
    BY CountIsNat DEF Sane, Held, ServerState
<1>3. ~(ReplayCount(v.game) < MinPlayers)
    BY <1>1, <1>2, MinPlayersAssumption
<1>4. PICK g \in Start(PrepareReplay(s.game)) : t \in AfterStart([v EXCEPT !.game = g])
  <2>1. t \in UNION {AfterStartBy(Removal, [v EXCEPT !.game = g]) :
                       g \in Start(PrepareReplay(v.game))}
    BY <1>3 DEF TryStartReplay, TryStartReplayBy, v
  <2> QED
    BY <1>1, <2>1 DEF AfterStart
<1>5. v \in ServerState /\ Lone(v)
    BY <1>1 DEF Sane, Held, Unasked
<1>6. /\ t.game = g /\ t.cid = v.cid /\ t.open = v.open
      /\ IF g.phase = "LOBBY"
         THEN t.pending = v.pending /\ t.clock = v.clock
         ELSE t.pending = "QUESTION_PROMPT" /\ t.clock = "running"
    BY <1>4, <1>5, StartedIs
<1> QED
    BY <1>1, <1>6 DEF v

\* With everybody's wish in, the next match begins for everybody.
LEMMA AgainView ==
    ASSUME NEW s, Sane(s), Lone(s), Plain(s), s.game.phase = "OVER",
           ReplayCount(s.game) >= MinPlayers, AllWantReplay(s.game),
           NEW t \in TryStartReplay(CancelCountdown(s))
    PROVE  /\ Plain(t) /\ t.open = s.open /\ t.cid = s.cid /\ ~Due(t)
           /\ \A c \in Slot : Carries(s, t, c)
<1> DEFINE v == CancelCountdown(s)
           h == PrepareReplay(s.game)
<1>1. /\ Held(s) /\ s.game \in GameState /\ Fits(s.game, Ids(s), s.nextId)
    BY DEF Sane, Held, ServerState
<1>2. PICK g \in Start(h) :
        /\ t.game = g /\ t.cid = s.cid /\ t.open = s.open
        /\ IF g.phase = "LOBBY"
           THEN t.pending = v.pending /\ t.clock = v.clock
           ELSE t.pending = "QUESTION_PROMPT" /\ t.clock = "running"
    BY AgainIs
<1>3. v.pending = "NONE" /\ v.clock = "off"
  <2>1. s.pending \in {"NONE", "REPLAY_START"}
    BY DEF Plain, AllWantReplay
  <2>2. Sane(v) /\ v.pending = "NONE"
    BY <2>1, CancelIs
  <2> QED
    BY <2>2 DEF Sane, Held
<1>4. /\ Fits(h, Ids(s), s.nextId) /\ GameInv(h) /\ h.phase = "LOBBY"
      /\ h.connected = s.game.connected
    BY <1>1, PrepareFits
<1>5. /\ h.joined = s.game.connected /\ h.pid = s.game.pid
      /\ h.decided = {} /\ h.wants = {} /\ h \in GameState
    BY <1>1, <1>4 DEF PrepareReplay, GameState, AllWantReplay, GameInv
<1> HIDE DEF h, v
<1>6. /\ SameTable(h, g) /\ g.phase \in {"LOBBY", "PROMPT"}
    BY <1>4, StartFits
<1>7. g.joined = h.joined
    BY <1>4, <1>5, BeginSeats DEF Start, SameSeats
<1>8. g.phase = "PROMPT" => Fresh(g) /\ PhaseDeadline(g) = "off"
    BY <1>4, StartBegins, AllOffNow DEF Begun
<1>9. Clock(t) = "off"
    BY <1>2, <1>6, <1>8 DEF Clock, PhaseDeadline, Window
<1>10. Plain(t)
  <2>1. /\ g.connected = s.game.connected /\ g.pid = s.game.pid
        /\ g.joined = s.game.connected /\ g.wants = {} /\ g.decided = {}
    BY <1>4, <1>5, <1>6, <1>7 DEF SameTable
  <2>2. \A c \in Slot : s.cid[c] # 0 =>
          \E p \in s.game.connected : s.game.pid[p] = s.cid[c]
    BY DEF Plain
  <2>3. t.pending # "SCOREBOARD"
    BY <1>2, <1>3, <1>6
  <2> QED
    <3>1. /\ t.game.connected \subseteq t.game.joined
          /\ t.game.wants \subseteq t.game.decided
          /\ t.game.phase = "LOBBY" => t.pending = "NONE"
          /\ t.game.phase \in Window => Fresh(t.game)
          /\ t.game.phase \notin {"OVER", "VOTING"}
      BY <1>2, <1>3, <1>6, <1>8, <2>1 DEF Window
    <3>2. \A c \in Slot : t.cid[c] # 0 =>
            \E p \in t.game.connected : t.game.pid[p] = t.cid[c]
      BY <1>2, <2>1, <2>2
    <3> QED
      BY <2>3, <3>1, <3>2 DEF Plain
<1>11. ~Due(t)
    BY <1>2, <1>3, <1>9 DEF Due
<1>12. Last(t) = "VOTING"
    BY <1>2, <1>6, <1>9 DEF Last, Window, Prior
<1>13. Clock(s) = "off" /\ Last(s) = "VOTING" /\ ~Hurried(s)
    BY OverIs DEF Plain, Hurried, Window
<1>14. ~Dead(s)
  <2>1. /\ s.game.connected \in SUBSET Slot
        /\ s.game.connected \cap s.game.wants = s.game.connected
    BY <1>1 DEF GameState, AllWantReplay
  <2>2. Cardinality(s.game.connected) \in Nat
    BY <2>1, SlotsFinite
  <2> QED
    BY <2>1, <2>2, MinPlayersAssumption DEF Dead, ReplayCount
<1>15. ASSUME NEW c \in Slot PROVE Carries(s, t, c)
  <2>1. Spoken(s, c) \/ s.cid[c] = 0
    BY DEF Plain, Spoken, AllWantReplay
  <2>2. ~Owes(t, c) /\ ~Gave(t, c)
    BY <1>9 DEF Owes, Gave
  <2>3. Rests(s, t, c)
    BY <1>2, <1>9, <1>11, <1>12, <1>13, <1>14, <2>1, <2>2 DEF Rests
  <2> QED
    BY <2>3, RestsCarries
<1> QED
    BY <1>2, <1>10, <1>11, <1>15

\* A countdown that starts or stops is nobody's business.
LEMMA CountdownView ==
    ASSUME NEW s, Plain(s), s.game.phase = "OVER",
           NEW t, t.game = s.game, t.cid = s.cid,
           t.clock = "due" => s.clock = "due",
           t.pending = s.pending \/ t.pending \in {"NONE", "REPLAY_START"}
    PROVE  Plain(t) /\ (Due(t) => Due(s)) /\ \A c \in Slot : Carries(s, t, c)
<1>1. /\ Clock(s) = "off" /\ Last(s) = "VOTING" /\ ~Hurried(s)
      /\ Clock(t) = "off" /\ Last(t) = "VOTING"
    BY OverIs DEF Plain, Hurried, Window
<1>2. Plain(t)
  <2>1. t.pending \in {"NONE", "GAME_OVER", "REPLAY_START"}
    BY DEF Plain
  <2> QED
    BY <2>1 DEF Plain, Window
<1>3. Due(t) => Due(s)
    BY <1>1 DEF Due
<1>4. ASSUME NEW c \in Slot PROVE Rests(s, t, c)
  <2>1. Spoken(t, c) => Spoken(s, c)
    BY DEF Spoken
  <2>2. Dead(s) => Dead(t)
    BY DEF Dead
  <2> QED
    BY <1>1, <1>3, <2>1, <2>2 DEF Rests, Owes, Gave
<1> QED
    BY <1>2, <1>3, <1>4, RestsCarries

\* Whatever follows a wish for another match, or a departure after the last.
LEMMA WishView ==
    ASSUME NEW s, Sane(s), Lone(s), Plain(s), NEW t \in MaybeScheduleReplay(s)
    PROVE  /\ Plain(t) /\ t.open = s.open /\ t.cid = s.cid /\ (Due(t) => Due(s))
           /\ \A c \in Slot : Carries(s, t, c)
<1> DEFINE v == CancelCountdown(s)
<1>1. CASE t = s
    BY <1>1 DEF Carries
<1>2. CASE s.game.phase = "OVER"
  <2>1. /\ Sane(v) /\ v.game = s.game /\ v.open = s.open /\ v.cid = s.cid
        /\ Unasked(s, v)
        /\ v.clock = "due" => s.clock = "due"
        /\ v.pending = s.pending \/ v.pending = "NONE"
    <3>1. /\ Sane(v) /\ v.game = s.game /\ v.open = s.open /\ v.cid = s.cid
          /\ Unasked(s, v)
      BY CancelIs, LoneChange
    <3>2. CASE v = s
      BY <3>1, <3>2
    <3>3. CASE v = ClearPending(s)
      BY <3>1, <3>3, ClearIs
    <3> QED
      BY <3>2, <3>3 DEF CancelCountdown
  <2>2. CASE t = v
    <3>1. Plain(t) /\ (Due(t) => Due(s)) /\ \A c \in Slot : Carries(s, t, c)
      BY <1>2, <2>1, <2>2, CountdownView
    <3> QED
      BY <2>1, <2>2, <3>1
  <2>3. CASE t = [v EXCEPT !.shutdown = TRUE]
    <3>1. /\ t.game = s.game /\ t.open = s.open /\ t.cid = s.cid
          /\ t.pending = v.pending /\ t.clock = v.clock
      BY <2>1, <2>3, ShutdownIs
    <3>2. Plain(t) /\ (Due(t) => Due(s)) /\ \A c \in Slot : Carries(s, t, c)
      BY <1>2, <2>1, <3>1, CountdownView
    <3> QED
      BY <3>1, <3>2
  <2>4. CASE t = Schedule(s, "REPLAY_START")
    <3>1. /\ t.game = s.game /\ t.open = s.open /\ t.cid = s.cid
          /\ t.pending = "REPLAY_START" /\ t.clock = "running"
      BY <2>4, ScheduledIs DEF Sane, Held
    <3>2. Plain(t) /\ (Due(t) => Due(s)) /\ \A c \in Slot : Carries(s, t, c)
      BY <1>2, <3>1, CountdownView
    <3> QED
      BY <3>1, <3>2
  <2>5. CASE /\ ReplayCount(s.game) >= MinPlayers /\ AllWantReplay(s.game)
             /\ t \in TryStartReplay(v)
    <3>1. t \in TryStartReplay(CancelCountdown(s))
      BY <2>5
    <3> QED
      BY <1>2, <2>5, <3>1, AgainView
  <2>6. /\ \A x \in BroadcastBy(Removal, s) : x = s
        /\ \A x \in BroadcastBy(Removal, v) : x = v
    BY <2>1, LoneBroadcast DEF Unasked
  <2>7. ReplayCount(s.game) \in Nat
    BY CountIsNat DEF Sane, Held, ServerState
  <2> HIDE DEF v
  <2>8. \/ t = s \/ t = v \/ t = [v EXCEPT !.shutdown = TRUE]
        \/ t = Schedule(s, "REPLAY_START")
        \/ /\ ReplayCount(s.game) >= MinPlayers /\ AllWantReplay(s.game)
           /\ t \in TryStartReplay(v)
    <3>1. CASE PossibleReplayCount(s.game) < MinPlayers
      <4>1. t \in CloseReplayLobbyBy(Removal, s)
        BY <1>2, <3>1 DEF MaybeScheduleReplay, MaybeScheduleReplayBy
      <4> QED
        BY <2>6, <4>1 DEF CloseReplayLobbyBy, v
    <3>2. CASE ~(PossibleReplayCount(s.game) < MinPlayers)
      <4>1. \/ t \in {v} \/ t \in {s}
            \/ /\ ~(ReplayCount(s.game) < MinPlayers) /\ AllWantReplay(s.game)
               /\ t \in TryStartReplayBy(Removal, v)
            \/ t \in {Schedule(x, "REPLAY_START") : x \in BroadcastBy(Removal, s)}
        BY <1>2, <3>2 DEF MaybeScheduleReplay, MaybeScheduleReplayBy, v
      <4>2. ~(ReplayCount(s.game) < MinPlayers) => ReplayCount(s.game) >= MinPlayers
        BY <2>7, MinPlayersAssumption
      <4> QED
        BY <2>6, <4>1, <4>2 DEF TryStartReplay
    <3> QED
      BY <3>1, <3>2
  <2> QED
    BY <1>1, <2>2, <2>3, <2>4, <2>5, <2>8
<1> QED
    BY <1>1, <1>2 DEF MaybeScheduleReplay, MaybeScheduleReplayBy

----------------------------------------------------------------------------
(* Leaving. *)

\* The connection of a welcomed client closes and the game hears of it.
LEMMA LeftIs ==
    ASSUME NEW s, Solid(s), Plain(s), NEW c \in Slot, s.cid[c] # 0,
           NEW u, u = Closed(s, c, HandleDisconnect(s.game, s.cid[c]))
    PROVE  /\ Sane(u) /\ Lone(u) /\ Sound(u.game)
           /\ u.open = s.open \ {c} /\ u.cid[c] = 0
           /\ \A d \in Slot \ {c} : u.cid[d] = s.cid[d]
           /\ u.pending = s.pending /\ u.clock = s.clock
           /\ u.game.roundNumber = s.game.roundNumber
           /\ u.game.round.deadline = s.game.round.deadline
           /\ Fresh(s.game) => Fresh(u.game)
           /\ \/ u.game.phase = s.game.phase
              \/ s.game.phase \in InGame /\ Dead(u)
<1> DEFINE id == s.cid[c]
           g == HandleDisconnect(s.game, id)
<1>1. /\ s \in ServerState /\ s.game \in GameState /\ Held(s) /\ Sane(s)
      /\ Fits(s.game, Ids(s), s.nextId) /\ s.nextId \in Nat \ {0}
      /\ Ids(s) \in SUBSET Nat /\ id \in Nat /\ Sound(s.game)
      /\ id \in Ids(s) \ {0}
    BY SolidFacts DEF Held, ServerState, Ids
<1>2. Fits(g, Ids(s) \ {id}, s.nextId)
    BY <1>1, DisconnectSafe DEF Fits
<1>3. /\ g.roundNumber = s.game.roundNumber
      /\ g.round.deadline = s.game.round.deadline
      /\ Sound(g) /\ (Fresh(s.game) => Fresh(g))
    BY <1>1, LeaverKeepsTime
<1>4. SlotOf(s.game, id) # NoSlot
    BY <1>1, Seat, NoSlotIsNone
<1>5. g.phase = s.game.phase
        \/ (s.game.phase \in InGame /\ g.phase = "OVER"
            /\ Cardinality(g.joined \cap g.connected) < MinPlayers)
    BY <1>1, <1>4, LeaverSeats
<1>6. g.connected \subseteq g.joined
  <2>1. /\ g.connected = s.game.connected \ {SlotOf(s.game, id)}
        /\ g.joined \in {s.game.joined, s.game.joined \ {SlotOf(s.game, id)}}
    BY <1>1, <1>4, LeaverSeats
  <2> QED
    BY <2>1 DEF Plain
<1> HIDE DEF g
<1>7. /\ Sane(u) /\ u.game = g
      /\ u.pending = s.pending /\ u.clock = s.clock
      /\ u.open = s.open \ {c} /\ u.cid[c] = 0
      /\ \A d \in Slot \ {c} : u.cid[d] = s.cid[d]
  <2>1. u = Closed(s, c, g)
    BY DEF g
  <2>2. Fits(g, Ids(s) \ {s.cid[c]}, s.nextId)
    BY <1>2
  <2>3. \A d \in Slot \ (s.open \cup {c}) : s.cid[d] = 0
    BY <1>1 DEF Sane
  <2> QED
    BY <1>1, <2>1, <2>2, <2>3, CloseIs
<1>8. Lone(u)
    BY DEF Solid, Closed, CloseSlot, Lone, Fields
<1>9. g.joined \cap g.connected = g.connected
    BY <1>6
<1> QED
    BY <1>3, <1>5, <1>7, <1>8, <1>9 DEF Dead

\* The others do not notice.
LEMMA LeftView ==
    ASSUME NEW s, Solid(s), Plain(s), NEW c \in Slot, s.cid[c] # 0,
           NEW u, u = Closed(s, c, HandleDisconnect(s.game, s.cid[c])),
           u.game.phase = s.game.phase
    PROVE  /\ Plain(u) /\ (Due(u) => Due(s))
           /\ \A d \in Slot \ {c} : Carries(s, u, d)
<1> DEFINE id == s.cid[c]
           p == SlotOf(s.game, id)
<1>1. /\ Held(s) /\ s.game \in GameState /\ Held(u)
      /\ u.open = s.open \ {c} /\ u.cid[c] = 0
      /\ \A d \in Slot \ {c} : u.cid[d] = s.cid[d]
      /\ u.pending = s.pending /\ u.clock = s.clock
      /\ u.game.roundNumber = s.game.roundNumber
      /\ u.game.round.deadline = s.game.round.deadline
      /\ Fresh(s.game) => Fresh(u.game)
    BY LeftIs, SolidFacts DEF Sane
<1>2. p \in Slot /\ s.game.pid[p] = id
    BY <1>1, Seat
<1>3. /\ u.game.connected = s.game.connected \ {p}
      /\ u.game.joined \in {s.game.joined, s.game.joined \ {p}}
      /\ u.game.decided = s.game.decided \ {p} /\ u.game.wants = s.game.wants \ {p}
      /\ \A q \in Slot \ {p} : u.game.pid[q] = s.game.pid[q]
      /\ u.game.round.reveal = s.game.round.reveal
      /\ u.game.round.active \in {s.game.round.active, s.game.round.active \ {p}}
      /\ u.game.round.submitted = s.game.round.submitted
      /\ u.game.round.rewritten = s.game.round.rewritten
      /\ u.game.round.voted = s.game.round.voted
  <2> DEFINE g == HandleDisconnect(s.game, id)
  <2>1. u.game = g
    BY DEF Closed, CloseSlot, Solid, Lone, Fields
  <2>2. SlotOf(s.game, id) # NoSlot
    BY <1>2, NoSlotIsNone
  <2>3. /\ g.connected = s.game.connected \ {p}
        /\ g.joined \in {s.game.joined, s.game.joined \ {p}}
        /\ g.decided = s.game.decided \ {p} /\ g.wants = s.game.wants \ {p}
        /\ \A q \in Slot \ {p} : g.pid[q] = s.game.pid[q]
        /\ g.round.reveal = s.game.round.reveal
        /\ g.round.active \in {s.game.round.active, s.game.round.active \ {p}}
        /\ g.round.submitted = s.game.round.submitted
        /\ g.round.rewritten = s.game.round.rewritten
        /\ g.round.voted = s.game.round.voted
    <3> HIDE DEF id
    <3>1. s.game \in GameState
      BY <1>1
    <3> QED
      BY <2>2, <3>1, LeaverSeats, Zenon
  <2> HIDE DEF g, p
  <2> QED
    BY <2>1, <2>3
<1> HIDE DEF p, id
<1>4. Clock(u) = Clock(s) /\ Last(u) = Last(s) /\ (Hurried(s) => Hurried(u))
    BY <1>1 DEF Clock, PhaseDeadline, Last, Hurried
<1>5. s.game.connected \subseteq Slot /\ p \notin u.game.connected
    BY <1>1, <1>3, Seating
<1>6. Plain(u)
  <2>1. \A d \in Slot : u.cid[d] # 0 =>
          \E q \in u.game.connected : u.game.pid[q] = u.cid[d]
    <3>1. SUFFICES ASSUME NEW d \in Slot, u.cid[d] # 0
                   PROVE  \E q \in u.game.connected : u.game.pid[q] = u.cid[d]
      OBVIOUS
    <3>2. d # c /\ u.cid[d] = s.cid[d]
      BY <1>1, <3>1
    <3>3. PICK q \in s.game.connected : s.game.pid[q] = s.cid[d]
      BY <3>1, <3>2 DEF Plain
    <3>4. s.cid[d] # s.cid[c]
      BY <1>1, <3>2 DEF Held
    <3>5. q # p
      BY <1>2, <3>3, <3>4 DEF id
    <3> QED
      BY <1>3, <1>5, <3>2, <3>3, <3>5
  <2>2. u.game.connected \subseteq u.game.joined /\ u.game.wants \subseteq u.game.decided
    BY <1>3 DEF Plain
  <2>3. (u.game.decided = {} \/ s.game.decided # {})
          /\ (IsFinalRound(u.game) <=> IsFinalRound(s.game))
    BY <1>1, <1>3 DEF IsFinalRound
  <2> QED
    BY <1>1, <1>3, <1>4, <2>1, <2>2, <2>3 DEF Plain
<1>7. Due(u) => Due(s)
    BY <1>1, <1>4 DEF Due
<1>8. Dead(s) => Dead(u)
  <2>1. /\ IsFiniteSet(s.game.connected)
        /\ Cardinality(s.game.connected) \in Nat /\ Cardinality(u.game.connected) \in Nat
    BY <1>3, <1>5, SlotsFinite
  <2>2. Cardinality(u.game.connected) <= Cardinality(s.game.connected)
    BY <1>3, <2>1, FS_Subset
  <2> QED
    BY <2>1, <2>2, MinPlayersAssumption DEF Dead
<1>9. ASSUME NEW d \in Slot \ {c} PROVE Rests(s, u, d)
  <2>1. Spoken(u, d) => Spoken(s, d)
    BY <1>1, <1>3, <1>5 DEF Spoken
  <2>2. (Owes(u, d) => Owes(s, d)) /\ (Gave(u, d) => Gave(s, d))
    <3> SUFFICES ASSUME Clock(u) # "off"
                 PROVE  (Owes(u, d) => Owes(s, d)) /\ (Gave(u, d) => Gave(s, d))
      BY DEF Owes, Gave
    <3>1. u.game.phase \in Window
      BY ClockSpoken
    <3>2. u.game.round.active = u.game.joined \cap u.game.connected
      BY <1>1, <3>1, Seating DEF Window, InGame, Phase
    <3>3. \A q \in u.game.round.active :
            q \in s.game.round.active /\ u.game.pid[q] = s.game.pid[q]
      BY <1>3, <1>5, <3>2
    <3>4. Done(u.game) = Done(s.game)
      BY <1>3 DEF Done
    <3> QED
      BY <1>1, <1>4, <3>3, <3>4 DEF Owes, Gave
  <2> QED
    BY <1>1, <1>4, <1>7, <1>8, <2>1, <2>2 DEF Rests
<1> QED
    BY <1>6, <1>7, <1>9, RestsCarries

\* A match that is broken off is over for good, and nothing follows it.
LEMMA BrokenOffView ==
    ASSUME NEW s, Solid(s), Plain(s), NEW c \in Slot, s.cid[c] # 0,
           NEW u, u = Closed(s, c, HandleDisconnect(s.game, s.cid[c])),
           s.game.phase \in InGame, Dead(u), NEW v, v = ClearPending(u)
    PROVE  /\ Plain(v) /\ ~Due(v) /\ Lone(v)
           /\ v.open = s.open \ {c} /\ v.cid = u.cid
           /\ \A d \in Slot \ {c} : Carries(s, v, d)
<1>1. /\ Sane(u) /\ Lone(u) /\ u.open = s.open \ {c} /\ u.cid[c] = 0
      /\ \A d \in Slot \ {c} : u.cid[d] = s.cid[d]
    BY LeftIs
<1>2. /\ v.game = u.game /\ v.cid = u.cid /\ v.open = u.open
      /\ v.pending = "NONE" /\ v.clock = "off"
    BY <1>1, ClearIs
<1>3. v.game.phase = "OVER"
    BY <1>2 DEF Dead
<1>4. Clock(v) = "off" /\ Dead(v)
    BY <1>2, <1>3, OverIs DEF Dead, Window
<1>5. ~Due(v)
    BY <1>2, <1>4 DEF Due
<1>6. ASSUME NEW d \in Slot \ {c} PROVE Carries(s, v, d)
  <2>1. Spoken(s, d)
    BY DEF Spoken, InGame
  <2>2. Rests(s, v, d)
    BY <1>1, <1>2, <1>4, <1>5, <2>1 DEF Rests
  <2> QED
    BY <2>2, RestsCarries
<1>7. Lone(v)
    BY <1>1, LoneChange DEF Unasked
<1>8. Plain(v)
  <2>1. /\ Held(s) /\ s.game \in GameState
    BY SolidFacts
  <2> DEFINE g == HandleDisconnect(s.game, s.cid[c])
             p == SlotOf(s.game, s.cid[c])
  <2>2. p \in Slot /\ s.game.pid[p] = s.cid[c]
    BY <2>1, Seat
  <2>3. v.game = g
    BY <1>2 DEF Closed, CloseSlot, Solid, Lone, Fields
  <2>4. /\ g.connected = s.game.connected \ {p}
        /\ g.joined \in {s.game.joined, s.game.joined \ {p}}
        /\ g.decided = s.game.decided \ {p} /\ g.wants = s.game.wants \ {p}
        /\ \A q \in Slot \ {p} : g.pid[q] = s.game.pid[q]
    <3>1. SlotOf(s.game, s.cid[c]) # NoSlot
      BY <2>2, NoSlotIsNone
    <3> QED
      BY <2>1, <3>1, LeaverSeats, Zenon
  <2> HIDE DEF g, p
  <2>5. \A d \in Slot : v.cid[d] # 0 =>
          \E q \in v.game.connected : v.game.pid[q] = v.cid[d]
    <3>1. SUFFICES ASSUME NEW d \in Slot, v.cid[d] # 0
                   PROVE  \E q \in v.game.connected : v.game.pid[q] = v.cid[d]
      OBVIOUS
    <3>2. d # c /\ v.cid[d] = s.cid[d]
      BY <1>1, <1>2, <3>1
    <3>3. PICK q \in s.game.connected : s.game.pid[q] = s.cid[d]
      BY <3>1, <3>2 DEF Plain
    <3>4. s.cid[d] # s.cid[c]
      BY <2>1, <3>2 DEF Held
    <3>5. q # p /\ q \in Slot
      BY <2>1, <2>2, <3>3, <3>4, Seating
    <3> QED
      BY <2>3, <2>4, <3>2, <3>3, <3>5
  <2>6. v.game.connected \subseteq v.game.joined /\ v.game.wants \subseteq v.game.decided
    BY <2>3, <2>4 DEF Plain
  <2> QED
    BY <1>2, <1>3, <2>5, <2>6 DEF Plain, Window
<1> QED
    BY <1>1, <1>2, <1>5, <1>6, <1>7, <1>8

\* A client is gone, and no other client can tell.
LEMMA RemoveView ==
    ASSUME NEW s, Solid(s), Plain(s), NEW c \in Slot, NEW t \in RemoveClient(s, c)
    PROVE  /\ Plain(t) /\ t.open = s.open \ {c} /\ (Due(t) => Due(s))
           /\ t.cid[c] = 0 /\ \A d \in Slot \ {c} : t.cid[d] = s.cid[d]
           /\ \A d \in Slot \ {c} : Carries(s, t, d)
<1>1. /\ s \in ServerState /\ Held(s) /\ s.cid \in [Slot -> Nat]
    BY SolidFacts DEF Held
<1>2. CASE s.cid[c] = 0
  <2>1. t = CloseSlot(s, c)
    BY <1>2 DEF RemoveClient, RemoveClientBy
  <2>2. /\ t.game = s.game /\ t.pending = s.pending /\ t.clock = s.clock
        /\ t.open = s.open \ {c} /\ t.cid = s.cid
    BY <1>1, <1>2, <2>1 DEF CloseSlot, ServerState
  <2> QED
    BY <1>2, <2>2, SameCarries
<1>3. CASE s.cid[c] # 0
  <2> DEFINE id == s.cid[c]
             g == HandleDisconnect(s.game, id)
             u == Closed(s, c, g)
             v == ClearPending(u)
             told == IF SlotOf(u.game, id) = NoSlot THEN {u} ELSE BroadcastBy(Removal, u)
             F(w) == MaybeScheduleReplayBy(Removal, w)
             A(w) == AdvanceIfReadyBy(Removal, w)
  <2>1. u = [CloseSlot(s, c) EXCEPT !.game = HandleDisconnect(@, id)]
    BY <1>1 DEF Closed, CloseSlot, ServerState
  <2>2. t \in IF s.game.phase \in InGame /\ u.game.phase = "OVER"
              THEN BroadcastBy(Removal, v)
              ELSE IF s.game.phase = "OVER" THEN Then(Then(told, F), A)
              ELSE AdvanceIfReadyBy(Removal, u)
    <3> HIDE DEF u
    <3> QED
      BY <1>3, <2>1 DEF RemoveClient, RemoveClientBy
  <2>3. /\ Sane(u) /\ Lone(u) /\ Sound(u.game)
        /\ u.open = s.open \ {c} /\ u.cid[c] = 0
        /\ \A d \in Slot \ {c} : u.cid[d] = s.cid[d]
        /\ u.game.phase = s.game.phase \/ (s.game.phase \in InGame /\ Dead(u))
    BY <1>3, LeftIs
  <2>4. u.game.phase = s.game.phase =>
          /\ Plain(u) /\ (Due(u) => Due(s))
          /\ \A d \in Slot \ {c} : Carries(s, u, d)
    BY <1>3, LeftView
  <2>5. s.game.phase \in InGame /\ Dead(u) =>
          /\ Plain(v) /\ ~Due(v) /\ Lone(v)
          /\ v.open = s.open \ {c} /\ v.cid = u.cid
          /\ \A d \in Slot \ {c} : Carries(s, v, d)
    BY <1>3, BrokenOffView
  <2> HIDE DEF u
  <2>6. u.game.phase = "OVER" /\ s.game.phase \in InGame => Dead(u)
    BY <2>3 DEF InGame
  <2> HIDE DEF v
  <2>7. CASE s.game.phase \in InGame /\ u.game.phase = "OVER"
    <3>1. t = v
      BY <2>2, <2>5, <2>6, <2>7, LoneBroadcast
    <3> QED
      BY <2>3, <2>5, <2>6, <2>7, <3>1
  <2>8. CASE s.game.phase = "OVER"
    <3>1. t \in Then(Then(told, F), A)
      BY <2>2, <2>8 DEF InGame
    <3>2. PICK w \in Then(told, F) : t \in A(w)
      BY <3>1 DEF Then
    <3>3. PICK x \in told : w \in F(x)
      BY <3>2 DEF Then
    <3>4. x = u
      BY <2>3, <3>3, LoneBroadcast
    <3>5. w \in MaybeScheduleReplay(u)
      BY <3>3, <3>4 DEF MaybeScheduleReplay
    <3>6. t \in AdvanceIfReady(w)
      BY <3>2 DEF AdvanceIfReady
    <3>7. u.game.phase = s.game.phase
      BY <2>3, <2>8 DEF InGame
    <3>8. /\ Plain(w) /\ w.open = u.open /\ w.cid = u.cid /\ (Due(w) => Due(u))
          /\ \A d \in Slot : Carries(u, w, d)
      BY <2>3, <2>4, <3>5, <3>7, WishView
    <3>9. Sane(w) /\ Lone(w) /\ Sound(w.game)
      <4>1. Leads(u, w)
        BY <2>3, <3>3, <3>4, RemovalLeads, MaybeScheduleLeads
      <4>2. Shuts(u, w)
        BY <2>3, <3>3, <3>4, LoneMaybeSchedule
      <4> QED
        BY <2>3, <4>1, <4>2 DEF Leads, Follows, Course, Shuts
    <3>10. /\ Plain(t) /\ t.open = w.open /\ (Due(t) => Due(w)) /\ t.cid = w.cid
           /\ \A d \in Slot : Carries(w, t, d)
      BY <3>6, <3>8, <3>9, AdvanceView
    <3> QED
      BY <2>3, <2>4, <3>7, <3>8, <3>10, CarriesTrans
  <2>9. CASE s.game.phase # "OVER" /\ ~(s.game.phase \in InGame /\ u.game.phase = "OVER")
    <3>1. t \in AdvanceIfReady(u)
      BY <2>2, <2>9 DEF AdvanceIfReady
    <3>2. u.game.phase = s.game.phase
      BY <2>3, <2>9 DEF Dead
    <3>3. /\ Plain(t) /\ t.open = u.open /\ (Due(t) => Due(u)) /\ t.cid = u.cid
          /\ \A d \in Slot : Carries(u, t, d)
      BY <2>3, <2>4, <3>1, <3>2, AdvanceView
    <3> QED
      BY <2>3, <2>4, <3>2, <3>3, CarriesTrans
  <2> QED
    BY <2>7, <2>8, <2>9
<1> QED
    BY <1>2, <1>3

----------------------------------------------------------------------------
(* Joining. *)

\* The roster may follow anything.
LEMMA RosterConn ==
    ASSUME NEW s, NEW c, s.cid[c] # 0, ~Due(s),
           NEW k, NEW u, NEW d \in Seq(DownLine), NEW l, ConnInv(s, c, k, u, d, l)
    PROVE  ConnInv(s, c, k, u, Append(d, [type |-> "LOBBY_ROSTER"]), l)
<1> DEFINE x == [type |-> "LOBBY_ROSTER"]
           q == Append(d, x)
<1>1. x \in DownLine /\ x.type = "LOBBY_ROSTER"
    BY DEF DownLine
<1>2. /\ q \in Seq(DownLine)
      /\ Len(d) \in Nat /\ DOMAIN d = 1 .. Len(d) /\ DOMAIN q = 1 .. (Len(d) + 1)
      /\ \A i \in DOMAIN d : q[i] = d[i]
      /\ q[Len(d) + 1] = x
    BY <1>1, LineAdded
<1>3. Has(q, "PLAY_AGAIN") <=> Has(d, "PLAY_AGAIN")
    BY <1>1, HasAdded
<1> HIDE DEF x, q
<1>4. q # <<>> /\ 1 \in DOMAIN q
    BY <1>2
<1>5. d # <<>> => 1 \in DOMAIN d /\ q[1] = d[1]
    BY <1>2
<1>6. d = <<>> => q[1] = x
    BY <1>2
<1>7. Asking(q) <=> Asking(d)
    BY <1>1, <1>4, <1>5, <1>6 DEF Asking
<1>8. Asking(d) => q[1] = d[1]
    BY <1>5 DEF Asking
<1>9. Known(s, c, k, u, q)
  <2>1. ASSUME NEW i \in DOMAIN q, i > 1
        PROVE  q[i].type \in {"WELCOME", "LOBBY_ROSTER"}
    <3>1. CASE i \in DOMAIN d
      BY <1>2, <2>1, <3>1 DEF ConnInv, Known
    <3>2. CASE i = Len(d) + 1
      BY <1>1, <1>2, <3>2
    <3> QED
      BY <1>2, <3>1, <3>2
  <2> QED
    BY <1>4, <1>5, <2>1 DEF ConnInv, Known
<1>10. ~Dead(s) => InStep(s, c, k, u, q, l)
    BY <1>7, <1>8 DEF ConnInv, InStep
<1>11. Polled(s, c, k, u, q)
    BY <1>3 DEF ConnInv, Polled, Silent
<1>12. ConnInv(s, c, k, u, q, l)
    BY <1>9, <1>10, <1>11 DEF ConnInv
<1> QED
    BY <1>12 DEF q, x

\* Nothing is sent, or the roster.
LEMMA RosterIs ==
    ASSUME NEW t, Held(t), NEW d \in Slot
    PROVE  \/ RosterLines(t, d) = <<>>
           \/ t.cid[d] # 0 /\ RosterLines(t, d) = <<[type |-> "LOBBY_ROSTER"]>>
<1>1. t.cid[d] \in Nat
    BY DEF Held, ServerState
<1> QED
    BY <1>1 DEF RosterLines

\* Who joins was not welcome before, and takes a seat nobody had.
LEMMA AdmittedIs ==
    ASSUME NEW s, Solid(s), Plain(s), NEW c \in Slot, NEW n \in Name,
           JoinResult(s.game, JoinId(s, c), n) = "ok",
           NEW t, t = Admitted(s, c, n)
    PROVE  /\ Held(t) /\ s.cid[c] = 0 /\ t.cid[c] # 0
           /\ \A d \in Slot \ {c} : t.cid[d] = s.cid[d]
           /\ t.open = s.open /\ t.pending = s.pending /\ t.clock = s.clock
           /\ s.game.phase = "LOBBY" /\ t.game.phase = "LOBBY"
           /\ Plain(t)
<1>1. /\ s \in ServerState /\ s.game \in GameState /\ Sane(s) /\ Held(s)
      /\ s.nextId \in Nat \ {0} /\ s.cid \in [Slot -> Nat]
    BY SolidFacts DEF Held, ServerState
<1>2. s.game.phase = "LOBBY"
    BY DEF JoinResult
<1>3. s.cid[c] = 0
  <2>1. SUFFICES ASSUME s.cid[c] # 0 PROVE FALSE
    OBVIOUS
  <2>2. SlotOf(s.game, s.cid[c]) \in s.game.joined
    BY <1>1, <2>1, Seat DEF Joined
  <2> QED
    BY <1>2, <2>1, <2>2 DEF JoinId, JoinResult
<1>4. JoinId(s, c) = s.nextId
    BY <1>3 DEF JoinId
<1>5. /\ Held(t) /\ t.game = HandleJoin(s.game, JoinId(s, c), n)
      /\ t.game.phase = "LOBBY" /\ t.open = s.open /\ t.pending = s.pending
    BY <1>1, AdmitIs
<1>6. /\ t.cid[c] = s.nextId /\ \A d \in Slot \ {c} : t.cid[d] = s.cid[d]
      /\ t.clock = s.clock
    BY <1>1, <1>4 DEF Admitted, ServerState
<1> DEFINE p == JoinSlot(s.game, s.nextId)
<1>7. p \in Slot \ s.game.joined
  <2>1. \A q \in Slot : s.game.pid[q] # s.nextId
    BY <1>1, Seating DEF GameState
  <2>2. SlotOf(s.game, s.nextId) = NoSlot
    <3>1. {q \in Slot : s.nextId # 0 /\ s.game.pid[q] = s.nextId} = {}
      BY <2>1
    <3> QED
      BY <3>1 DEF SlotOf, FirstSlot
  <2>3. p = FirstSlot(Slot \ s.game.joined)
    BY <2>2 DEF JoinSlot
  <2>4. p # NoSlot
    BY <1>2, <1>4 DEF JoinResult
  <2> QED
    BY <2>3, <2>4, FirstSlotType
<1> HIDE DEF p
<1>8. /\ t.game.connected = s.game.connected \cup {p}
      /\ t.game.joined = s.game.joined \cup {p}
      /\ t.game.decided = s.game.decided \ {p} /\ t.game.wants = s.game.wants \ {p}
      /\ t.game.pid = [s.game.pid EXCEPT ![p] = s.nextId]
    BY <1>1, <1>4, <1>5 DEF HandleJoin, GameState, p
<1>9. ASSUME NEW d \in Slot, t.cid[d] # 0
      PROVE  \E q \in t.game.connected : t.game.pid[q] = t.cid[d]
  <2>1. s.game.pid \in [Slot -> Nat]
    BY <1>1 DEF GameState
  <2>2. CASE d = c
    <3>1. t.game.pid[p] = s.nextId
      BY <1>7, <1>8, <2>1
    <3> QED
      BY <1>6, <1>8, <2>2, <3>1
  <2>3. CASE d # c
    <3>1. PICK q \in s.game.connected : s.game.pid[q] = s.cid[d]
      BY <1>6, <1>9, <2>3 DEF Plain
    <3>2. q # p /\ q \in Slot
      BY <1>1, <1>7, <3>1, Seating DEF Plain
    <3>3. t.game.pid[q] = s.game.pid[q]
      BY <1>8, <2>1, <3>2
    <3> QED
      BY <1>6, <1>8, <2>3, <3>1, <3>3
  <2> QED
    BY <2>2, <2>3
<1>10. Plain(t)
    BY <1>2, <1>5, <1>8, <1>9 DEF Plain, Window
<1> QED
    BY <1>1, <1>2, <1>3, <1>5, <1>6, <1>10

----------------------------------------------------------------------------
(* Lines. *)

\* c's oldest line has been taken and nothing is sent.
Taken(s, t, c, k, u, d, l) ==
    /\ Plain(t) /\ (Due(t) => Due(s)) /\ t.open = s.open
    /\ \A e \in Slot \ {c} : Carries(s, t, e)
    /\ ConnInv(t, c, k, Tail(u), d, Less(l))

\* A line that is refused.
LEMMA RefusedTaken ==
    ASSUME NEW s, Lone(s), Plain(s), NEW c \in s.open, NEW t \in SendTo(s, c),
           NEW k, NEW u \in Seq(UpLine), u # <<>>, NEW d, NEW l \in Nat,
           ConnInv(s, c, k, u, d, l),
           Last(s) # "VOTING" /\ u[1].type = AnswerTo[Last(s)] => ~Owes(s, c)
    PROVE  t = s /\ Taken(s, t, c, k, u, d, l)
<1>1. t = s
    BY SentIs
<1>2. ConnInv(s, c, k, Tail(u), d, Less(l))
    BY TailConn
<1> QED
    BY <1>1, <1>2 DEF Taken, Carries

\* Getting ready, which may begin the first match.
LEMMA ReadyView ==
    ASSUME NEW s, Solid(s), Plain(s), NEW c \in s.open,
           NEW t \in HandleReadyLine(s, c),
           NEW k, NEW u \in Seq(UpLine), u # <<>>, u[1].type = "READY",
           NEW d, NEW l \in Nat, ConnInv(s, c, k, u, d, l)
    PROVE  Taken(s, t, c, k, u, d, l)
<1>1. /\ s \in ServerState /\ Held(s) /\ Lone(s) /\ Sane(s)
      /\ s.game \in GameState /\ Fits(s.game, Ids(s), s.nextId)
      /\ s.pending = "NONE" <=> s.clock = "off"
    BY SolidFacts DEF Solid, Held
<1>2. Last(s) # "VOTING" => u[1].type # AnswerTo[Last(s)]
    BY LastWindow, WindowFacts
<1>3. CASE s.cid[c] = 0 \/ ~CanReady(s.game, s.cid[c])
  <2>1. t \in SendTo(s, c)
    BY <1>3 DEF HandleReadyLine
  <2> QED
    BY <1>1, <1>2, <2>1, RefusedTaken
<1>4. CASE ~(s.cid[c] = 0 \/ ~CanReady(s.game, s.cid[c]))
  <2> DEFINE h == HandleReady(s.game, s.cid[c])
             x == [s EXCEPT !.game = h]
  <2>1. s.game.phase = "LOBBY"
    BY <1>4 DEF CanReady
  <2>2. s.pending = "NONE" /\ s.clock = "off"
    BY <1>1, <2>1 DEF Plain
  <2>3. Fits(h, Ids(s), s.nextId) /\ GameInv(h) /\ h.phase = "LOBBY"
    BY <1>1, <2>1, ReadyFits
  <2>4. /\ h.joined = s.game.joined /\ h.connected = s.game.connected
        /\ h.pid = s.game.pid /\ h \in GameState
    BY <1>1, <2>3 DEF HandleReady, GameState, GameInv
  <2>5. x = [s EXCEPT !.game = HandleReady(@, s.cid[c])]
    BY <1>1 DEF ServerState
  <2>6. t \in Then(Broadcast(x), MaybeStartGame)
    BY <1>4, <2>5 DEF HandleReadyLine
  <2> HIDE DEF h
  <2>7. /\ Lone(x) /\ x \in ServerState
        /\ x.game = h /\ x.cid = s.cid /\ x.open = s.open
        /\ x.pending = s.pending /\ x.clock = s.clock
    <3>1. Sane(x)
      BY <1>1, <2>3, GameChange
    <3> QED
      BY <1>1, <3>1, GameIs, LoneChange DEF Unasked, Sane, Held
  <2> HIDE DEF x
  <2>8. t \in MaybeStartGame(x)
    BY <2>6, <2>7, SentIs DEF Then
  <2>9. PICK g \in Start(h) :
          /\ t.game = g /\ t.cid = s.cid /\ t.open = s.open
          /\ IF g.phase = "LOBBY" THEN t.pending = "NONE" /\ t.clock = "off"
             ELSE t.pending = "QUESTION_PROMPT" /\ t.clock = "running"
    <3>1. CASE CanStart(h)
      <4>1. PICK g \in Start(h) : t \in AfterStart([x EXCEPT !.game = g])
        BY <2>7, <2>8, <3>1 DEF MaybeStartGame
      <4> QED
        BY <2>2, <2>7, <4>1, StartedIs
    <3>2. CASE ~CanStart(h)
      <4>1. t = x /\ h \in Start(h)
        BY <2>7, <2>8, <3>2 DEF MaybeStartGame, Start
      <4> QED
        BY <2>2, <2>3, <2>7, <4>1
    <3> QED
      BY <3>1, <3>2
  <2>10. /\ SameTable(h, g) /\ g.phase \in {"LOBBY", "PROMPT"}
         /\ g.wants = {} /\ g.decided = {}
    BY <2>3, StartFits
  <2>11. g.joined = h.joined
    BY <2>3, <2>4, BeginSeats DEF Start, SameSeats
  <2>12. g.phase = "PROMPT" => Fresh(g) /\ PhaseDeadline(g) = "off"
    BY <2>3, StartBegins, AllOffNow DEF Begun
  <2>13. Clock(t) = "off" /\ Last(t) = "VOTING"
    BY <2>9, <2>10, <2>12 DEF Clock, PhaseDeadline, Window, Last, Prior
  <2>14. Plain(t)
    <3>1. /\ g.connected = s.game.connected /\ g.pid = s.game.pid
          /\ g.joined = s.game.joined
      BY <2>4, <2>10, <2>11 DEF SameTable
    <3>2. \A e \in Slot : s.cid[e] # 0 =>
            \E p \in s.game.connected : s.game.pid[p] = s.cid[e]
      BY DEF Plain
    <3>3. /\ t.game.connected \subseteq t.game.joined
          /\ t.game.wants \subseteq t.game.decided
          /\ t.game.phase = "LOBBY" => t.pending = "NONE"
          /\ t.game.phase \in Window => Fresh(t.game)
          /\ t.game.phase \notin {"OVER", "VOTING"} /\ t.pending # "SCOREBOARD"
      BY <2>9, <2>10, <2>12, <3>1 DEF Window, Plain
    <3> QED
      BY <2>9, <3>1, <3>2, <3>3 DEF Plain
  <2>15. Clock(s) = "off" /\ Last(s) = "VOTING" /\ ~Hurried(s) /\ ~Dead(s) /\ ~Due(t)
    BY <2>1, <2>2, <2>9, <2>13, OverIs DEF Hurried, Dead, Due, Window
  <2>16. ASSUME NEW e PROVE Carries(s, t, e)
    <3>1. Rests(s, t, e)
      BY <2>1, <2>9, <2>13, <2>15 DEF Rests, Spoken, Owes, Gave
    <3> QED
      BY <3>1, RestsCarries
  <2>17. ConnInv(s, c, k, Tail(u), d, Less(l))
    BY <1>2, TailConn
  <2> QED
    BY <2>9, <2>14, <2>15, <2>16, <2>17 DEF Taken, Carries
<1> QED
    BY <1>3, <1>4

\* Whatever e's connection was in step with, it still is with these lines
\* behind the others.
Gets(s, t, e, lines) ==
    \A k, u, l : \A d \in Seq(DownLine) :
      ConnInv(s, e, k, u, d, l) => ConnInv(t, e, k, u, d \o lines, l)

\* c's oldest line m has been taken, and answered.
Served(s, t, c, m, k, u, d, l) ==
    /\ Plain(t) /\ ~Due(t) /\ t.open \subseteq s.open
    /\ \A e \in t.open \ {c} : Gets(s, t, e, RequestLines(s, t, c, m, e))
    /\ c \in t.open =>
         ConnInv(t, c, k, Tail(u), d \o RequestLines(s, t, c, m, c), Less(l))

LEMMA NothingAdded ==
    ASSUME NEW d \in Seq(DownLine)
    PROVE  d \o <<>> = d
    OBVIOUS

LEMMA TakenServed ==
    ASSUME NEW s, s.open \subseteq Slot, ~Due(s), NEW t, NEW c, NEW m,
           \A e : RequestLines(s, t, c, m, e) = <<>>,
           NEW k, NEW u, NEW d \in Seq(DownLine), NEW l,
           Taken(s, t, c, k, u, d, l)
    PROVE  Served(s, t, c, m, k, u, d, l)
<1>1. \A e \in Slot \ {c} : Gets(s, t, e, <<>>)
    BY NothingAdded DEF Taken, Carries, Gets
<1> QED
    BY <1>1, NothingAdded DEF Taken, Served

\* The roster, to whom it goes.
LEMMA RosterGets ==
    ASSUME NEW s, NEW t, Held(t), ~Due(t), NEW e \in Slot, Carries(s, t, e)
    PROVE  Gets(s, t, e, RosterLines(t, e))
<1> SUFFICES ASSUME NEW k, NEW u, NEW l, NEW d \in Seq(DownLine),
                    ConnInv(s, e, k, u, d, l)
             PROVE  ConnInv(t, e, k, u, d \o RosterLines(t, e), l)
    BY DEF Gets
<1> DEFINE x == [type |-> "LOBBY_ROSTER"]
<1>1. ConnInv(t, e, k, u, d, l)
    BY DEF Carries
<1>2. CASE RosterLines(t, e) = <<>>
    BY <1>1, <1>2, NothingAdded
<1>3. CASE t.cid[e] # 0 /\ RosterLines(t, e) = <<x>>
  <2>1. ConnInv(t, e, k, u, Append(d, x), l)
    BY <1>1, <1>3, RosterConn
  <2>2. x \in DownLine
    BY DEF DownLine
  <2> HIDE DEF x
  <2>3. d \o <<x>> = Append(d, x)
    BY <2>2, LineAdded
  <2> QED
    BY <1>3, <2>1, <2>3
<1> QED
    BY <1>2, <1>3, RosterIs

\* The newcomer is welcomed, before anything else.
LEMMA WelcomeConn ==
    ASSUME NEW s, ~Due(s), NEW t, ~Due(t), t.game.phase = "LOBBY",
           NEW c, s.cid[c] = 0, t.cid[c] # 0,
           NEW k, NEW u \in Seq(UpLine), u # <<>>, NEW d, NEW l, NEW n,
           ConnInv(s, c, k, u, d, l)
    PROVE  d = <<>> /\ ConnInv(t, c, k, Tail(u), <<[type |-> "WELCOME"]>>, n)
<1> DEFINE q == <<[type |-> "WELCOME"]>>
<1>1. /\ d = <<>> /\ k.flags \subseteq {"join_requested", "stdin_closed"}
      /\ \A i \in DOMAIN u : u[i].type \in {"JOIN", "EOF"}
    BY DEF ConnInv, Known
<1>2. \A i \in DOMAIN Tail(u) : Tail(u)[i].type \in {"JOIN", "EOF"}
    BY <1>1, TailOff
<1>3. /\ q # <<>> /\ q[1].type = "WELCOME"
      /\ \A i \in DOMAIN q : q[i].type = "WELCOME" /\ ~(i > 1)
    OBVIOUS
<1> HIDE DEF q
<1>4. k.flags \cap C!Window = {} /\ "awaiting_replay_choice" \notin k.flags
    BY <1>1 DEF C!Window
<1>5. Clock(t) = "off" /\ ~Asking(q) /\ ~Has(q, "PLAY_AGAIN")
    BY <1>3, OverIs DEF Window, Asking, Has
<1>6. ~Owes(t, c) /\ ~Gave(t, c)
    BY <1>5 DEF Owes, Gave
<1>7. Known(t, c, k, Tail(u), q)
    BY <1>3, <1>4 DEF Known
<1>8. InStep(t, c, k, Tail(u), q, n)
  <2>1. \A w \in Window : AnswerTo[w] \notin {"JOIN", "EOF"}
    BY DEF Window, AnswerTo
  <2>2. Last(t) \in Window /\ Prior[Last(t)] \in Window
    BY LastWindow, WindowFacts
  <2> QED
    BY <1>2, <1>4, <1>5, <1>6, <2>1, <2>2 DEF InStep
<1>9. Polled(t, c, k, Tail(u), q)
  <2>1. Silent(k, Tail(u), q)
    BY <1>2, <1>4, <1>5 DEF Silent, Has
  <2> QED
    BY <1>2, <1>4, <2>1 DEF Polled, Silent
<1>10. ConnInv(t, c, k, Tail(u), q, n)
    BY <1>7, <1>8, <1>9 DEF ConnInv
<1> QED
    BY <1>1, <1>10 DEF q

LEMMA AdmittedServed ==
    ASSUME NEW s, Solid(s), Plain(s), ~Due(s), NEW c \in s.open, NEW n \in Name,
           JoinResult(s.game, JoinId(s, c), n) = "ok", NEW t, t = Admitted(s, c, n),
           NEW m, m.type = "JOIN", NEW k, NEW u \in Seq(UpLine), u # <<>>,
           NEW d \in Seq(DownLine), NEW l, ConnInv(s, c, k, u, d, l)
    PROVE  Served(s, t, c, m, k, u, d, l)
<1>1. /\ s \in ServerState /\ Held(s) /\ s.nextId \in Nat /\ c \in Slot
      /\ s.open \subseteq Slot
    BY SolidFacts DEF Held, ServerState
<1>2. /\ Held(t) /\ s.cid[c] = 0 /\ t.cid[c] # 0
      /\ \A e \in Slot \ {c} : t.cid[e] = s.cid[e]
      /\ t.open = s.open /\ t.pending = s.pending /\ t.clock = s.clock
      /\ s.game.phase = "LOBBY" /\ t.game.phase = "LOBBY"
      /\ Plain(t)
    BY <1>1, AdmittedIs
<1>3. t.game # s.game
  <2>1. t.cid[c] = s.nextId
    BY <1>1, <1>2 DEF Admitted, JoinId, ServerState
  <2>2. PICK p \in t.game.connected : t.game.pid[p] = s.nextId
    BY <1>1, <1>2, <2>1 DEF Plain
  <2>3. p \in Slot /\ s.game.pid \in [Slot -> Nat]
    BY <1>1, <1>2, <2>2, Seating DEF ServerState, GameState
  <2>4. s.game.pid[p] < s.nextId /\ s.game.pid[p] \in Nat
    BY <1>1, <2>3, Seating
  <2> QED
    BY <1>1, <2>2, <2>4
<1>4. \A e : RequestLines(s, t, c, m, e) = JoinLines(t, c, e)
    BY <1>2, <1>3 DEF RequestLines
<1>5. Clock(s) = "off" /\ Last(s) = "VOTING" /\ Clock(t) = "off" /\ Last(t) = "VOTING"
    BY <1>2, OverIs DEF Window
<1>6. ~Due(t)
    BY <1>2, <1>5 DEF Due
<1>7. ASSUME NEW e \in t.open \ {c} PROVE Gets(s, t, e, RequestLines(s, t, c, m, e))
  <2>1. e \in Slot
    BY <1>1, <1>2
  <2>2. Rests(s, t, e)
    BY <1>2, <1>5, <1>6, <2>1 DEF Rests, Spoken, Dead, Hurried, Owes, Gave
  <2>3. Gets(s, t, e, RosterLines(t, e))
    BY <1>2, <1>6, <2>1, <2>2, RestsCarries, RosterGets
  <2>4. JoinLines(t, c, e) = RosterLines(t, e)
    BY <1>2, <2>1, RosterIs DEF JoinLines
  <2> QED
    BY <1>4, <2>3, <2>4
<1>8. ConnInv(t, c, k, Tail(u), d \o RequestLines(s, t, c, m, c), Less(l))
  <2> DEFINE q == <<[type |-> "WELCOME"]>>
  <2>1. d = <<>> /\ ConnInv(t, c, k, Tail(u), q, Less(l))
    BY <1>2, <1>6, WelcomeConn
  <2>2. q \in Seq(DownLine)
    <3>1. [type |-> "WELCOME"] \in DownLine
      BY DEF DownLine
    <3> QED
      BY <3>1
  <2>3. Gets(t, t, c, RosterLines(t, c))
    BY <1>1, <1>2, <1>6, RosterGets DEF Carries
  <2>4. JoinLines(t, c, c) = q \o RosterLines(t, c)
    BY DEF JoinLines
  <2>5. d \o (q \o RosterLines(t, c)) = q \o RosterLines(t, c)
    BY <1>1, <1>2, <2>1, RosterIs
  <2> HIDE DEF q
  <2>6. ConnInv(t, c, k, Tail(u), q \o RosterLines(t, c), Less(l))
    BY <2>1, <2>2, <2>3 DEF Gets
  <2> QED
    BY <1>4, <2>4, <2>5, <2>6
<1> QED
    BY <1>2, <1>6, <1>7, <1>8 DEF Served

LEMMA JoinView ==
    ASSUME NEW s, Solid(s), Plain(s), ~Due(s), NEW c \in s.open, NEW n \in Name,
           NEW t \in HandleJoinLine(s, c, n),
           NEW m, m.type = "JOIN", NEW k, NEW u \in Seq(UpLine), u # <<>>,
           u[1].type = "JOIN", NEW d \in Seq(DownLine), NEW l \in Nat,
           ConnInv(s, c, k, u, d, l)
    PROVE  Served(s, t, c, m, k, u, d, l)
<1> DEFINE R == JoinResult(s.game, JoinId(s, c), n)
           a == Admitted(s, c, n)
<1>1. /\ s \in ServerState /\ Held(s) /\ Lone(s) /\ c \in Slot /\ s.open \subseteq Slot
    BY SolidFacts DEF Solid, Held, ServerState
<1>2. CASE R = "ok"
  <2>1. t \in Then(SendTo(a, c), LAMBDA v : IF v.cid[c] = JoinId(s, c)
                                            THEN Broadcast(v) ELSE {v})
    BY <1>2 DEF HandleJoinLine, Admitted, JoinId
  <2>2. Lone(a) /\ c \in a.open
    BY <1>1 DEF Admitted, Unasked, Lone, Fields
  <2>3. Served(s, a, c, m, k, u, d, l)
    BY <1>1, <1>2, AdmittedServed
  <2> HIDE DEF a
  <2>4. PICK v \in SendTo(a, c) : t \in Broadcast(v) \cup {v}
    BY <2>1 DEF Then
  <2>5. t = a
    BY <2>2, <2>4, SentIs
  <2> QED
    BY <2>3, <2>5
<1>3. CASE R = "invalid_state"
  <2>1. t \in RemoveClient(s, c)
    BY <1>3 DEF HandleJoinLine, JoinId
  <2>2. /\ Plain(t) /\ t.open = s.open \ {c} /\ ~Due(t)
        /\ \A e \in Slot \ {c} : Carries(s, t, e)
    BY <1>1, <2>1, RemoveView
  <2>3. \A e : RequestLines(s, t, c, m, e) = <<>>
    BY <2>2 DEF RequestLines
  <2>4. \A e \in Slot \ {c} : Gets(s, t, e, <<>>)
    BY <2>2, NothingAdded DEF Carries, Gets
  <2> QED
    BY <1>1, <2>2, <2>3, <2>4 DEF Served
<1>4. CASE R \notin {"ok", "invalid_state"}
  <2>1. t \in SendTo(s, c)
    BY <1>4 DEF HandleJoinLine, JoinId
  <2>2. Last(s) # "VOTING" => u[1].type # AnswerTo[Last(s)]
    BY LastWindow, WindowFacts
  <2>3. t = s /\ Taken(s, t, c, k, u, d, l)
    BY <1>1, <2>1, <2>2, RefusedTaken
  <2>4. \A e : RequestLines(s, t, c, m, e) = <<>>
    BY <2>3 DEF RequestLines
  <2> QED
    BY <1>1, <2>3, <2>4, TakenServed
<1> QED
    BY <1>2, <1>3, <1>4

\* Of what a client has sent only one line is an answer to the play-again
\* question, and nothing asks it again meanwhile.
LEMMA SaidConn ==
    ASSUME NEW s, NEW c, NEW k, NEW u \in Seq(UpLine), u # <<>>,
           u[1].type = "REPLAY", NEW d, NEW l, ConnInv(s, c, k, u, d, l)
    PROVE  ~Spoken(s, c) /\ Silent(k, Tail(u), d)
<1>1. 1 \in DOMAIN u /\ Polled(s, c, k, u, d)
    BY TailOff DEF ConnInv
<1>2. Has(u, "REPLAY")
    BY <1>1 DEF Has
<1>3. ~Spoken(s, c) /\ ~Has(d, "PLAY_AGAIN") /\ "awaiting_replay_choice" \notin k.flags
    BY <1>1, <1>2 DEF Polled, Silent
<1>4. ~Has(Tail(u), "REPLAY")
  <2>1. SUFFICES ASSUME NEW i \in DOMAIN Tail(u), Tail(u)[i].type = "REPLAY"
                 PROVE  FALSE
    BY DEF Has
  <2>2. i \in Nat /\ i + 1 \in DOMAIN u /\ u[i + 1].type = "REPLAY" /\ i \in DOMAIN Tail(u)
    BY <2>1, TailOff
  <2>3. i # 0
    BY <2>2
  <2>4. i + 1 = 1
    BY <1>1, <2>2 DEF Polled
  <2> QED
    BY <2>2, <2>3, <2>4
<1> QED
    BY <1>3, <1>4 DEF Silent

\* A wish to play again, or not to.
LEMMA WishLineView ==
    ASSUME NEW s, Solid(s), Plain(s), NEW c \in s.open, NEW wish,
           NEW t \in HandleReplayLine(s, c, wish),
           NEW k, NEW u \in Seq(UpLine), u # <<>>, u[1].type = "REPLAY",
           NEW d, NEW l \in Nat, ConnInv(s, c, k, u, d, l)
    PROVE  Taken(s, t, c, k, u, d, l)
<1>1. /\ s \in ServerState /\ Held(s) /\ Lone(s) /\ Sane(s) /\ c \in Slot
      /\ s.game \in GameState /\ Fits(s.game, Ids(s), s.nextId)
    BY SolidFacts DEF Solid, Held, ServerState
<1>2. Last(s) # "VOTING" => u[1].type # AnswerTo[Last(s)]
    BY LastWindow, WindowFacts
<1>3. CASE s.cid[c] = 0 \/ ~CanChooseReplay(s.game, s.cid[c])
  <2>1. t \in SendTo(s, c)
    BY <1>3 DEF HandleReplayLine
  <2> QED
    BY <1>1, <1>2, <2>1, RefusedTaken
<1>4. CASE ~(s.cid[c] = 0 \/ ~CanChooseReplay(s.game, s.cid[c]))
  <2> DEFINE h == HandleReplayChoice(s.game, s.cid[c], wish)
             x == [s EXCEPT !.game = h]
             p == SlotOf(s.game, s.cid[c])
  <2>1. s.game.phase = "OVER" /\ s.cid[c] # 0 /\ p \in s.game.connected
    BY <1>4 DEF CanChooseReplay
  <2>2. s.game.pid[p] = s.cid[c] /\ p \in Slot
    BY <1>1, <2>1, Seat
  <2>3. ~Spoken(s, c) /\ Silent(k, Tail(u), d)
    BY SaidConn
  <2>4. s.pending # "GAME_OVER"
    BY <2>3 DEF Spoken
  <2>5. Fits(h, Ids(s), s.nextId) /\ h.phase = "OVER" /\ h.connected = s.game.connected
    BY <1>1, <1>4, WishFits
  <2>6. /\ h.joined = s.game.joined /\ h.pid = s.game.pid
        /\ h.decided = s.game.decided \cup {p}
        /\ h.wants \subseteq s.game.wants \cup {p}
        /\ h.roundNumber = s.game.roundNumber
    BY <1>1, <1>4 DEF HandleReplayChoice, GameState
  <2>7. x = [s EXCEPT !.game = HandleReplayChoice(@, s.cid[c], wish)]
    BY <1>1 DEF ServerState
  <2>8. t \in Then(Broadcast(x), MaybeScheduleReplay)
    BY <1>4, <2>7 DEF HandleReplayLine
  <2> HIDE DEF h, p
  <2>9. /\ Lone(x) /\ Sane(x) /\ x.game = h /\ x.cid = s.cid /\ x.open = s.open
        /\ x.pending = s.pending /\ x.clock = s.clock
    <3>1. Sane(x)
      BY <1>1, <2>5, GameChange
    <3>2. Lone(x)
      BY <1>1, LoneChange DEF Unasked
    <3> QED
      BY <1>1, <3>1, <3>2, GameIs
  <2> HIDE DEF x
  <2>10. t \in MaybeScheduleReplay(x)
    BY <2>8, <2>9, SentIs DEF Then
  <2>11. Plain(x)
    <3>1. /\ x.game.connected \subseteq x.game.joined
          /\ x.game.wants \subseteq x.game.decided
          /\ x.game.phase = "OVER" /\ x.pending \in {"NONE", "REPLAY_START"}
      BY <2>1, <2>4, <2>5, <2>6, <2>9 DEF Plain
    <3>2. \A e \in Slot : x.cid[e] # 0 =>
            \E q \in x.game.connected : x.game.pid[q] = x.cid[e]
      BY <2>5, <2>6, <2>9 DEF Plain
    <3> QED
      BY <3>1, <3>2 DEF Plain, Window
  <2>12. /\ Clock(s) = "off" /\ Last(s) = "VOTING" /\ Clock(x) = "off" /\ Last(x) = "VOTING"
         /\ (Dead(x) <=> Dead(s)) /\ (Due(x) <=> Due(s)) /\ ~Hurried(s) /\ ~Hurried(x)
    <3>1. Clock(s) = "off" /\ Last(s) = "VOTING" /\ Clock(x) = "off" /\ Last(x) = "VOTING"
      BY <2>1, <2>5, <2>9, OverIs DEF Window
    <3>2. s.pending \notin {"TITLE_PROMPT", "VOTING_PROMPT", "ROUND_RESULTS"}
      BY <2>1 DEF Plain
    <3> QED
      BY <2>1, <2>5, <2>9, <3>1, <3>2 DEF Dead, Due, Hurried
  <2>13. ASSUME NEW e \in Slot \ {c} PROVE Carries(s, x, e)
    <3>1. Spoken(x, e) => Spoken(s, e) \/ s.cid[e] = 0
      <4>1. ASSUME NEW q \in h.connected, h.pid[q] = s.cid[e], q \in h.decided,
                   s.cid[e] # 0
            PROVE  q \in s.game.connected /\ s.game.pid[q] = s.cid[e] /\ q \in s.game.decided
        <5>1. q # p
          BY <1>1, <2>2, <2>6, <4>1, Seating
        <5> QED
          BY <2>5, <2>6, <4>1, <5>1
      <4> QED
        BY <2>4, <2>5, <2>9, <4>1 DEF Spoken
    <3>2. Rests(s, x, e)
      BY <2>9, <2>12, <3>1 DEF Rests, Owes, Gave
    <3> QED
      BY <3>2, RestsCarries
  <2>14. ConnInv(x, c, k, Tail(u), d, Less(l))
    <3>1. ConnInv(s, c, k, Tail(u), d, Less(l))
      BY <1>2, TailConn
    <3>2. Known(x, c, k, Tail(u), d)
      BY <2>9, <2>12, <3>1 DEF ConnInv, Known
    <3>3. Polled(x, c, k, Tail(u), d)
      BY <2>3, <3>1 DEF ConnInv, Polled, Silent
    <3>4. ~Owes(x, c) /\ ~Gave(x, c) /\ x.game.roundNumber = s.game.roundNumber
      BY <2>6, <2>9, <2>12 DEF Owes, Gave
    <3>5. ASSUME ~Dead(x) PROVE InStep(x, c, k, Tail(u), d, Less(l))
      <4>1. InStep(s, c, k, Tail(u), d, Less(l))
        BY <2>12, <3>1, <3>5 DEF ConnInv
      <4> QED
        BY <2>12, <3>4, <4>1 DEF InStep
    <3> QED
      BY <3>2, <3>3, <3>5 DEF ConnInv
  <2>15. /\ Plain(t) /\ t.open = x.open /\ (Due(t) => Due(x))
         /\ \A e \in Slot : Carries(x, t, e)
    BY <2>9, <2>10, <2>11, WishView
  <2>16. \A e \in Slot \ {c} : Carries(s, t, e)
    BY <2>13, <2>15, CarriesTrans
  <2>17. ConnInv(t, c, k, Tail(u), d, Less(l))
    BY <1>1, <2>14, <2>15 DEF Carries
  <2> QED
    BY <2>9, <2>12, <2>15, <2>16, <2>17 DEF Taken
<1> QED
    BY <1>3, <1>4

----------------------------------------------------------------------------
(* Answers. *)

\* What the handler of the window w's answers makes of c's.
Given(s, c, w, option) ==
    CASE w = "PROMPT"  -> HandleSubmit(s.game, s.cid[c])
      [] w = "REWRITE" -> HandleRewrite(s.game, s.cid[c])
      [] w = "VOTING"  -> HandleVote(s.game, s.cid[c], VoteTargetId(s.game, option))

\* g is s.game with an answer of player p's to the window w.
Noted(s, w, p, g) ==
    /\ s.game.phase = w /\ g.phase = w
    /\ p \in s.game.round.active /\ p \notin Done(s.game)
    /\ Done(g) = Done(s.game) \cup {p}
    /\ g.round.active = s.game.round.active

Playing(s, g) == [s EXCEPT !.game = g]

\* As it takes one ...
LEMMA GivenIs ==
    ASSUME NEW s, Solid(s), NEW c, NEW w \in Window, NEW option,
           NEW g, g = Given(s, c, w, option), g # s.game,
           NEW p, p = SlotOf(s.game, s.cid[c])
    PROVE  Noted(s, w, p, g)
<1> DEFINE o == SlotOf(s.game, VoteTargetId(s.game, option))
           r == s.game.round
<1>1. s.game \in GameState /\ r \in RoundState
    BY SolidFacts DEF GameState
<1>2. CASE w = "PROMPT"
  <2>1. /\ s.game.phase = "PROMPT" /\ CanSubmit(r, p)
        /\ g = [s.game EXCEPT !.round = RecordSubmission(@, p)]
    BY <1>2 DEF Given, HandleSubmit
  <2>2. g.phase = "PROMPT" /\ g.round = RecordSubmission(r, p)
    BY <1>1, <2>1 DEF GameState
  <2>3. g.round.submitted = r.submitted \cup {p} /\ g.round.active = r.active
    BY <1>1, <2>2 DEF RecordSubmission, RoundState
  <2> QED
    BY <1>2, <2>1, <2>2, <2>3 DEF Noted, Done, CanSubmit
<1>3. CASE w = "REWRITE"
  <2>1. /\ s.game.phase = "REWRITE" /\ CanRewrite(r, p)
        /\ g = [s.game EXCEPT !.round = RecordRewrite(@, p)]
    BY <1>3 DEF Given, HandleRewrite
  <2>2. g.phase = "REWRITE" /\ g.round = RecordRewrite(r, p)
    BY <1>1, <2>1 DEF GameState
  <2>3. g.round.rewritten = r.rewritten \cup {p} /\ g.round.active = r.active
    BY <1>1, <2>2 DEF RecordRewrite, RoundState
  <2> QED
    BY <1>3, <2>1, <2>2, <2>3 DEF Noted, Done, CanRewrite
<1>4. CASE w = "VOTING"
  <2>1. /\ s.game.phase = "VOTING" /\ CanVote(r, p, o)
        /\ g = [s.game EXCEPT !.round = RecordVote(@, p, o)]
    BY <1>4 DEF Given, HandleVote, VoteAccepted
  <2> HIDE DEF o
  <2>2. g.phase = "VOTING" /\ g.round = RecordVote(r, p, o)
    BY <1>1, <2>1 DEF GameState
  <2>3. g.round.voted = r.voted \cup {p} /\ g.round.active = r.active
    BY <1>1, <2>2 DEF RecordVote, RoundState
  <2> QED
    BY <1>4, <2>1, <2>2, <2>3 DEF Noted, Done, CanVote
<1> QED
    BY <1>2, <1>3, <1>4 DEF Window

\* ... and it takes one that the open window waits for.
LEMMA OwedIsTaken ==
    ASSUME NEW s, Solid(s), NEW c, NEW w \in {"PROMPT", "REWRITE"},
           s.game.phase = w, Owes(s, c), NEW option
    PROVE  Given(s, c, w, option) # s.game
<1>1. /\ Held(s) /\ s.game \in GameState /\ s.game.round \in RoundState
      /\ GameInv(s.game)
    BY SolidFacts DEF GameState
<1>2. PICK p \in s.game.round.active : s.game.pid[p] = s.cid[c] /\ p \notin Done(s.game)
    BY DEF Owes
<1>3. p \in s.game.joined \cap s.game.connected
    BY <1>1, <1>2, Seating DEF InGame, Phase
<1>4. p \in Slot /\ s.game.pid[p] # 0
    BY <1>1, <1>3, Seating
<1>5. SlotOf(s.game, s.cid[c]) = p
    BY <1>1, <1>2, <1>4, SlotOfIs DEF Held, Fits
<1>6. IsPlayer(s.game, s.cid[c])
    BY <1>3, <1>5 DEF IsPlayer
<1>7. s.game.round.on
    BY <1>1 DEF GameInv, Members, InGame, Phase
<1>8. CASE w = "PROMPT"
  <2>1. p \notin s.game.round.submitted
    BY <1>2, <1>8 DEF Done
  <2>2. CanSubmit(s.game.round, p)
    BY <1>2, <1>7, <2>1 DEF CanSubmit
  <2>3. Given(s, c, w, option) = [s.game EXCEPT !.round = RecordSubmission(@, p)]
    BY <1>5, <1>6, <1>8, <2>2 DEF Given, HandleSubmit
  <2>4. Given(s, c, w, option).round.submitted = s.game.round.submitted \cup {p}
    BY <1>1, <2>3 DEF RecordSubmission, GameState, RoundState
  <2> QED
    BY <2>1, <2>4
<1>9. CASE w = "REWRITE"
  <2>1. p \notin s.game.round.rewritten
    BY <1>2, <1>9 DEF Done
  <2>2. s.game.round.target[p] # NoSlot
    <3>1. s.game.round.target[p] \in s.game.round.submitted \ {p}
      BY <1>1, <1>2, <1>9 DEF GameInv, Dealt
    <3>2. s.game.round.submitted \subseteq Slot
      BY <1>1 DEF RoundState
    <3> QED
      BY <3>1, <3>2, NoSlotIsNone
  <2>3. CanRewrite(s.game.round, p)
    BY <1>2, <1>7, <2>1, <2>2 DEF CanRewrite
  <2>4. Given(s, c, w, option) = [s.game EXCEPT !.round = RecordRewrite(@, p)]
    BY <1>5, <1>6, <1>9, <2>3 DEF Given, HandleRewrite
  <2>5. Given(s, c, w, option).round.rewritten = s.game.round.rewritten \cup {p}
    BY <1>1, <2>4 DEF RecordRewrite, GameState, RoundState
  <2> QED
    BY <2>1, <2>5
<1> QED
    BY <1>8, <1>9

\* The state an answer that is taken leads to.
LEMMA GivenKeeps ==
    ASSUME NEW s, Solid(s), Plain(s), NEW c \in Slot, NEW w \in Window, NEW option,
           NEW g, g = Given(s, c, w, option), g # s.game, Clock(s) # "off",
           NEW x, x = [s EXCEPT !.game = g]
    PROVE  /\ Sane(x) /\ Lone(x) /\ Sound(x.game) /\ Plain(x)
           /\ x.cid = s.cid /\ x.open = s.open
           /\ x.pending = s.pending /\ x.clock = s.clock
           /\ Clock(x) = Clock(s) /\ x.game.phase = s.game.phase
           /\ x.game.roundNumber = s.game.roundNumber /\ x.game.pid = s.game.pid
           /\ x.game = g
<1>1. /\ s \in ServerState /\ Lone(s) /\ Sane(s) /\ Good(s) /\ Held(s)
      /\ s.game \in GameState /\ Sound(s.game) /\ Fits(s.game, Ids(s), s.nextId)
    BY SolidFacts DEF Solid, Held
<1>2. g \in {HandleSubmit(s.game, s.cid[c]), HandleRewrite(s.game, s.cid[c]),
             HandleVote(s.game, s.cid[c], VoteTargetId(s.game, option))}
    BY DEF Given, Window
<1>3. s.game.phase \in Window /\ Recorded(s.game, g)
    BY <1>1, <1>2, AnswersRecorded
<1>4. Fits(g, Ids(s), s.nextId)
    BY <1>1, <1>3, RecordedFits DEF Window
<1>5. SameSeats(s.game, g)
    BY <1>1, <1>2, AnswerSeats
<1>6. AnswerKept(s.game, g)
    BY <1>1, <1>2, SubmitKept, RewriteKept, VoteKept
<1>7. Sane(x)
    BY <1>1, <1>4, GameChange
<1>8. Lone(x)
    BY <1>1, LoneChange DEF Unasked
<1>9. /\ x.game = g /\ x.cid = s.cid /\ x.open = s.open
      /\ x.pending = s.pending /\ x.clock = s.clock
    BY <1>1, GameIs
<1>10. /\ g.phase = s.game.phase /\ g.roundNumber = s.game.roundNumber
       /\ g.round.deadline = s.game.round.deadline /\ Sound(g)
    BY <1>1, <1>6 DEF AnswerKept
<1>11. Clock(x) = Clock(s)
    BY <1>9, <1>10 DEF Clock, PhaseDeadline
<1>12. /\ g.joined = s.game.joined /\ g.connected = s.game.connected
       /\ g.pid = s.game.pid /\ g.decided = s.game.decided /\ g.wants = s.game.wants
       /\ g.phase = "VOTING" => g.round.reveal # {}
    BY <1>3, <1>5, <1>10 DEF Recorded, SameTable, SameSeats, Plain
<1>13. Plain(x)
    BY <1>3, <1>9, <1>10, <1>11, <1>12 DEF Plain, Window, IsFinalRound
<1> QED
    BY <1>7, <1>8, <1>9, <1>10, <1>11, <1>12, <1>13

\* An answer that is taken was awaited, and is no more.
LEMMA GivenConn ==
    ASSUME NEW s, NEW x, NEW c, NEW w \in Window, s.game.phase = w,
           Clock(s) # "off", Clock(x) = Clock(s), x.cid = s.cid,
           x.pending = s.pending, x.clock = s.clock,
           x.game.phase = w, x.game.roundNumber = s.game.roundNumber,
           ~Owes(x, c), NEW k, NEW u \in Seq(UpLine), u # <<>>,
           u[1].type = AnswerTo[w], NEW d, NEW l, ConnInv(s, c, k, u, d, l)
    PROVE  ConnInv(x, c, k, u, d, l)
<1>1. /\ Last(s) = w /\ Last(x) = w /\ Spoken(s, c) /\ Spoken(x, c)
      /\ ~Dead(s) /\ (Due(x) <=> Due(s)) /\ (Hurried(x) <=> Hurried(s))
    BY ClockSpoken DEF Due, Hurried
<1>2. InStep(s, c, k, u, d, l)
    BY <1>1 DEF ConnInv
<1>3. 1 \in DOMAIN u /\ DOMAIN u \subseteq Nat \ {0}
    BY TailOff
<1>4. ~Asking(d)
    BY <1>1, <1>2, <1>3 DEF InStep, Has
<1>5. ~Has(u, AnswerTo[Prior[w]])
  <2>1. AnswerTo[Prior[w]] # AnswerTo[w]
    BY WindowFacts
  <2>2. SUFFICES ASSUME NEW j \in DOMAIN u, u[j].type = AnswerTo[Prior[w]] PROVE FALSE
    BY DEF Has
  <2>3. 1 < j
    BY <1>3, <2>1, <2>2
  <2> QED
    BY <1>1, <1>2, <1>3, <2>2, <2>3 DEF InStep
<1>6. InStep(x, c, k, u, d, l)
    BY <1>1, <1>2, <1>4, <1>5 DEF InStep
<1>7. Known(x, c, k, u, d) /\ Polled(x, c, k, u, d)
    BY <1>1 DEF ConnInv, Known, Polled
<1> QED
    BY <1>6, <1>7 DEF ConnInv

\* An answer that is taken may be the last one ...
LEMMA TakenAnswerView ==
    ASSUME NEW s, Solid(s), Plain(s), NEW c \in s.open, NEW w \in Window, NEW option,
           NEW g, g = Given(s, c, w, option), g # s.game,
           NEW x, x = Playing(s, g), NEW t \in AdvanceIfReady(x),
           NEW p, p = SlotOf(s.game, s.cid[c]),
           NEW k, NEW u \in Seq(UpLine), u # <<>>, u[1].type = AnswerTo[w],
           NEW d, NEW l \in Nat, ConnInv(s, c, k, u, d, l)
    PROVE  Taken(s, t, c, k, u, d, l)
<1>1. /\ s.game.phase = w /\ g.phase = w
      /\ p \in s.game.round.active /\ p \notin Done(s.game)
      /\ Done(g) = Done(s.game) \cup {p}
      /\ g.round.active = s.game.round.active
  <2>1. Noted(s, w, p, g)
    BY GivenIs
  <2> QED
    BY <2>1 DEF Noted
<1>2. /\ s \in ServerState /\ Held(s) /\ Lone(s) /\ c \in Slot /\ s.game \in GameState
    BY SolidFacts DEF Solid, ServerState
<1>3. Clock(s) # "off"
  <2>1. SUFFICES ASSUME Clock(s) = "off" PROVE FALSE
    OBVIOUS
  <2>2. Last(s) = Prior[w] /\ ~Dead(s)
    BY <1>1, <2>1 DEF Last, Dead, Window
  <2>3. u[1].type \in {AnswerTo[Prior[w]], AnswerTo[Prior[Prior[w]]]}
    <3>1. InStep(s, c, k, u, d, l)
      BY <2>2 DEF ConnInv
    <3>2. 1 \in DOMAIN u /\ AnswerTo[w] \in {"SUBMIT", "TITLE", "VOTE"}
      BY TailOff, WindowFacts
    <3> QED
      BY <2>2, <3>1, <3>2 DEF InStep
  <2> QED
    BY <2>3 DEF Window, Prior, AnswerTo
<1>4. /\ Sane(x) /\ Lone(x) /\ Sound(x.game) /\ Plain(x)
      /\ x.cid = s.cid /\ x.open = s.open
      /\ x.pending = s.pending /\ x.clock = s.clock
      /\ Clock(x) = Clock(s) /\ x.game.phase = s.game.phase
      /\ x.game.roundNumber = s.game.roundNumber /\ x.game.pid = s.game.pid
      /\ x.game = g
    BY <1>2, <1>3, GivenKeeps DEF Playing
<1>5. p \in Slot /\ s.game.pid[p] = s.cid[c] /\ s.cid[c] # 0
  <2>1. p \in Slot
    BY <1>1, <1>2 DEF GameState, RoundState
  <2>2. p # NoSlot
    BY <2>1, NoSlotIsNone
  <2>3. {q \in Slot : s.cid[c] # 0 /\ s.game.pid[q] = s.cid[c]} # {}
    BY <2>2 DEF SlotOf, FirstSlot
  <2>4. s.cid[c] # 0
    BY <2>3
  <2> QED
    BY <1>2, <2>1, <2>2, <2>4, SlotOfIs DEF Held, Fits
<1>6. (Due(x) <=> Due(s)) /\ Last(x) = Last(s) /\ (Hurried(x) <=> Hurried(s))
    BY <1>4 DEF Due, Last, Hurried
<1>7. ASSUME NEW e \in Slot \ {c} PROVE Carries(s, x, e)
  <2>1. Owes(x, e) => Owes(s, e)
    BY <1>1, <1>4 DEF Owes
  <2>2. Gave(x, e) => Gave(s, e)
    <3>1. ASSUME NEW q \in g.round.active, s.game.pid[q] = s.cid[e], q \in Done(g)
          PROVE  q \in s.game.round.active /\ q \in Done(s.game)
      <4>1. q # p
        BY <1>2, <1>5, <3>1, Seating
      <4> QED
        BY <1>1, <3>1, <4>1
    <3> QED
      BY <1>3, <1>4, <3>1 DEF Gave
  <2>3. Spoken(s, e) /\ ~Dead(s)
    BY <1>3, ClockSpoken
  <2>4. Rests(s, x, e)
    BY <1>4, <1>6, <2>1, <2>2, <2>3 DEF Rests
  <2> QED
    BY <2>4, RestsCarries
<1>8. ~Owes(x, c)
  <2>1. ASSUME NEW q \in g.round.active, s.game.pid[q] = s.cid[c]
        PROVE  q \in Done(g)
    <3>1. q \in Slot
      BY <1>1, <1>2, <2>1 DEF GameState, RoundState
    <3>2. q = p
      BY <1>2, <1>5, <2>1, <3>1, Seating
    <3> QED
      BY <1>1, <3>2
  <2> QED
    BY <1>4, <2>1 DEF Owes
<1>9. ConnInv(x, c, k, u, d, l)
    BY <1>1, <1>3, <1>4, <1>8, GivenConn
<1>10. ConnInv(x, c, k, Tail(u), d, Less(l))
    BY <1>1, <1>4, <1>8, <1>9, TailConn
<1>11. /\ Plain(t) /\ t.open = x.open /\ (Due(t) => Due(x))
       /\ \A e \in Slot : Carries(x, t, e)
    BY <1>4, AdvanceView
<1>12. \A e \in Slot \ {c} : Carries(s, t, e)
    BY <1>7, <1>11, CarriesTrans
<1>13. ConnInv(t, c, k, Tail(u), d, Less(l))
    BY <1>2, <1>10, <1>11 DEF Carries
<1> QED
    BY <1>4, <1>6, <1>11, <1>12, <1>13 DEF Taken

\* ... and one that is refused was not awaited.
LEMMA AnswerView ==
    ASSUME NEW s, Solid(s), Plain(s), NEW c \in s.open, NEW w \in Window, NEW option,
           NEW t \in Answered(s, c, Given(s, c, w, option)),
           NEW k, NEW u \in Seq(UpLine), u # <<>>, u[1].type = AnswerTo[w],
           NEW d, NEW l \in Nat, ConnInv(s, c, k, u, d, l)
    PROVE  Taken(s, t, c, k, u, d, l)
<1> DEFINE g == Given(s, c, w, option)
<1>1. /\ s \in ServerState /\ Held(s) /\ Lone(s) /\ c \in Slot /\ s.game \in GameState
    BY SolidFacts DEF Solid, ServerState
<1>2. CASE g = s.game
  <2>1. t \in SendTo(s, c)
    BY <1>2 DEF Answered
  <2>2. ASSUME Last(s) # "VOTING", u[1].type = AnswerTo[Last(s)], Owes(s, c)
        PROVE  FALSE
    <3>1. w = Last(s)
      <4>1. Last(s) \in Window /\ AnswerTo[w] = AnswerTo[Last(s)]
        BY <2>2, LastWindow
      <4> QED
        BY <4>1, WindowFacts
    <3>2. s.game.phase = w
      BY <2>2, <3>1, ClockSpoken DEF Owes
    <3>3. w \in {"PROMPT", "REWRITE"}
      BY <2>2, <3>1 DEF Window
    <3> QED
      BY <1>2, <2>2, <3>2, <3>3, OwedIsTaken
  <2> HIDE DEF g
  <2> QED
    BY <1>1, <2>1, <2>2, RefusedTaken
<1>3. CASE g # s.game
  <2>1. PICK p, x : p = SlotOf(s.game, s.cid[c]) /\ x = Playing(s, g)
    OBVIOUS
  <2>2. t \in AdvanceIfReady(x)
    BY <1>3, <2>1 DEF Answered, Playing
  <2> QED
    BY <1>3, <2>1, <2>2, TakenAnswerView
<1> QED
    BY <1>2, <1>3

\* Whatever line a client sends, afterwards everybody is in step again.
LEMMA DispatchView ==
    ASSUME NEW s, Solid(s), Plain(s), ~Due(s), NEW c \in s.open,
           NEW k, NEW u \in Seq(UpLine), u # <<>>, NEW d \in Seq(DownLine),
           NEW l \in Nat, ConnInv(s, c, k, u, d, l), u[1].type \in Requests,
           NEW m, m = Request(s.game, u[1]), NEW t \in Dispatch(s, c, m)
    PROVE  Served(s, t, c, m, k, u, d, l)
<1>1. u[1] \in UpLine /\ s.open \subseteq Slot
    BY TailOff, SolidFacts DEF ServerState
<1>2. m.type = u[1].type /\ (m.type # "VOTE" => m = u[1])
    BY DEF Request
<1>3. CASE u[1].type = "JOIN"
  <2>1. m.name \in Name
    BY <1>1, <1>2, <1>3 DEF UpLine
  <2>2. t \in HandleJoinLine(s, c, m.name)
    BY <1>2, <1>3 DEF Dispatch
  <2> QED
    BY <1>2, <1>3, <2>1, <2>2, JoinView
<1>4. CASE u[1].type # "JOIN"
  <2>1. \A e : RequestLines(s, t, c, m, e) = <<>>
    BY <1>2, <1>4 DEF RequestLines
  <2>2. Taken(s, t, c, k, u, d, l)
    <3>1. CASE u[1].type = "READY"
      <4>1. t \in HandleReadyLine(s, c)
        BY <1>2, <3>1 DEF Dispatch
      <4> QED
        BY <3>1, <4>1, ReadyView
    <3>2. CASE u[1].type = "REPLAY"
      <4>1. t \in HandleReplayLine(s, c, m.wish)
        BY <1>2, <3>2 DEF Dispatch
      <4> QED
        BY <3>2, <4>1, WishLineView
    <3>3. ASSUME NEW w \in Window, u[1].type = AnswerTo[w]
          PROVE  Taken(s, t, c, k, u, d, l)
      <4>1. t \in Answered(s, c, Given(s, c, w, m.option))
        BY <1>2, <3>3 DEF Dispatch, Given, Window, AnswerTo
      <4> QED
        BY <3>3, <4>1, AnswerView
    <3> QED
      BY <1>4, <3>1, <3>2, <3>3 DEF Requests, Window, AnswerTo
  <2> QED
    BY <1>1, <2>1, <2>2, TakenServed
<1> QED
    BY <1>3, <1>4

----------------------------------------------------------------------------
(* What has been pending. *)

\* The action that asks about a window.
AskedBy == [PROMPT  |-> "QUESTION_PROMPT",
            REWRITE |-> "TITLE_PROMPT",
            VOTING  |-> "VOTING_PROMPT"]

\* Every action belongs to a phase whose own clock is not set.
LEMMA PendingStage ==
    ASSUME NEW s, Solid(s), Plain(s), s.pending # "NONE"
    PROVE  /\ Clock(s) = "off" /\ s.clock # "off"
           /\ \A w \in Window : s.pending = AskedBy[w] => s.game.phase = w
           /\ s.pending \in Boards => s.game.phase = "RESULTS"
           /\ s.pending = "GAME_OVER" => s.game.phase = "OVER"
<1>1. Timed(s) /\ s.game.phase \in Phase /\ s.clock # "off" /\ Held(s)
    BY SolidFacts DEF Solid, GameState, Held
<1>2. CASE s.game.phase \in InGame
  <2>1. Clock(s) = "off"
    BY <1>1, <1>2 DEF Timed, Clock
  <2>2. \/ s.pending \in Stage(s.game.phase)
        \/ s.game.phase = "PROMPT" /\ s.pending = "REPLAY_START"
    BY <1>1, <1>2, <2>1 DEF Timed, Clock
  <2>3. s.game.phase \in {"PROMPT", "REWRITE", "VOTING", "RESULTS"}
    BY <1>2 DEF InGame, Phase
  <2> QED
    BY <1>1, <2>1, <2>2, <2>3 DEF Stage, Boards, Window, AskedBy
<1>3. CASE s.game.phase = "OVER"
    BY <1>1, <1>3, OverIs DEF Plain, Boards, Window, AskedBy
<1>4. s.game.phase # "LOBBY"
    BY DEF Plain
<1> QED
    BY <1>1, <1>2, <1>3, <1>4 DEF InGame

LEMMA ClearedIs ==
    ASSUME NEW s, Solid(s)
    PROVE  LET v == ClearPending(s)
           IN  /\ Lone(v) /\ v \in ServerState
               /\ v.game = s.game /\ v.cid = s.cid /\ v.open = s.open
               /\ v.pending = "NONE" /\ v.clock = "off"
               /\ \A x \in Broadcast(v) : x = v
<1> DEFINE v == ClearPending(s)
<1>1. s \in ServerState /\ Lone(s)
    BY SolidFacts DEF Solid
<1>2. Lone(v)
    BY <1>1, LoneChange DEF Unasked
<1>3. /\ v \in ServerState /\ v.game = s.game /\ v.cid = s.cid /\ v.open = s.open
      /\ v.pending = "NONE" /\ v.clock = "off"
    BY <1>1 DEF ClearPending, ServerState, Pending, Timer
<1> HIDE DEF v
<1>4. \A x \in Broadcast(v) : x = v
    BY <1>2, SentIs
<1> QED
    BY <1>2, <1>3, <1>4 DEF v

\* The questions of a window: its clock starts.
LEMMA PromptedIs ==
    ASSUME NEW s, Solid(s), NEW w \in Window, s.pending = AskedBy[w],
           s.game.phase = w, NEW t \in RunPending(s)
    PROVE  /\ t.game = SetDeadline(s.game, w, "running")
           /\ t.cid = s.cid /\ t.open = s.open
           /\ t.pending = "NONE" /\ t.clock = "off"
<1> DEFINE v == ClearPending(s)
           x == [v EXCEPT !.game = SetDeadline(s.game, w, "running")]
<1>1. /\ Lone(v) /\ v \in ServerState
      /\ v.game = s.game /\ v.cid = s.cid /\ v.open = s.open
      /\ v.pending = "NONE" /\ v.clock = "off"
      /\ \A y \in Broadcast(v) : y = v
    BY ClearedIs
<1> HIDE DEF v
<1>2. [v EXCEPT !.game = StartWindow(@, w)] = x
    BY <1>1 DEF StartWindow
<1>3. Lone(x)
    BY <1>1, LoneChange DEF Unasked
<1>4. /\ x.game = SetDeadline(s.game, w, "running") /\ x.cid = s.cid
      /\ x.open = s.open /\ x.pending = "NONE" /\ x.clock = "off"
    BY <1>1, GameIs
<1> HIDE DEF x
<1>5. \A y \in Broadcast(x) : y = x
    BY <1>3, SentIs
<1>6. t \in Broadcast(x) \cup {x}
  <2>1. CASE w = "PROMPT"
    <3>1. t \in Then({[y EXCEPT !.game = StartWindow(@, "PROMPT")] :
                        y \in Broadcast(v)}, Broadcast)
      BY <2>1 DEF RunPending, QuestionPrompt, AskedBy, v
    <3>2. PICK y \in Broadcast(v) :
            t \in Broadcast([y EXCEPT !.game = StartWindow(@, "PROMPT")])
      BY <3>1 DEF Then
    <3> QED
      BY <1>1, <1>2, <2>1, <3>2
  <2>2. CASE w = "REWRITE"
    <3>1. t \in Broadcast([v EXCEPT !.game = StartWindow(@, "REWRITE")])
      BY <2>2 DEF RunPending, TitlePrompt, AskedBy, v
    <3> QED
      BY <1>2, <2>2, <3>1
  <2>3. CASE w = "VOTING"
    <3>1. t \in {[y EXCEPT !.game = StartWindow(@, "VOTING")] : y \in Broadcast(v)}
      BY <2>3 DEF RunPending, VotingPrompt, AskedBy, v
    <3> QED
      BY <1>1, <1>2, <2>3, <3>1
  <2> QED
    BY <2>1, <2>2, <2>3 DEF Window
<1> QED
    BY <1>4, <1>5, <1>6

\* Whoever has a seat is asked, and nobody else.
LEMMA AskLines ==
    ASSUME NEW s, NEW t, Solid(t), Plain(t), NEW w \in Window,
           t.game.phase = w, s.pending = AskedBy[w], NEW c \in Slot
    PROVE  /\ t.cid[c] = 0 => PendingLines(s, t, c) = <<>>
           /\ t.cid[c] # 0 => \E m \in DownLine :
                /\ PendingLines(s, t, c) = <<m>>
                /\ m.type = AskFor[w] /\ m.question = t.game.roundNumber
<1> DEFINE p == SlotOf(t.game, t.cid[c])
           r == t.game.round
<1>1. /\ Held(t) /\ t.game \in GameState /\ Sound(t.game)
      /\ t.game.phase # "RESULTS" /\ GameInv(t.game)
    BY SolidFacts DEF Window
<1>2. CASE t.cid[c] = 0
  <2>1. p = NoSlot
    BY <1>2 DEF SlotOf, FirstSlot
  <2>2. p \notin Joined(t.game)
    BY <1>1, <2>1, NoSlotIsNone DEF Joined, GameState
  <2>3. ~Seated(t, c)
    BY <2>2 DEF Seated
  <2>4. PendingLines(s, t, c) = <<>>
    BY <2>3 DEF PendingLines, QuestionLines, TitleLines, VoteLines, AskedBy, Window
  <2> QED
    BY <1>2, <2>4
<1>3. CASE t.cid[c] # 0
  <2>1. p \in Joined(t.game) /\ p \in r.active /\ p \in Slot
    BY <1>1, <1>3, Seat
  <2>2. Seated(t, c)
    BY <2>1 DEF Seated
  <2>3. t.game.roundNumber \in Nat /\ r \in RoundState
    BY <1>1 DEF GameState
  <2>4. CASE w = "PROMPT"
    <3> DEFINE m == [type |-> "PROMPT", question |-> t.game.roundNumber]
    <3>1. p \in r.prompted
      BY <1>1, <2>1, <2>4 DEF Sound, Asked
    <3>2. PendingLines(s, t, c) = <<m>>
      BY <2>2, <2>4, <3>1 DEF PendingLines, QuestionLines, AskedBy
    <3>3. m \in DownLine /\ m.type = AskFor[w]
      BY <2>3, <2>4 DEF DownLine, AskFor
    <3> QED
      BY <1>3, <3>2, <3>3
  <2>5. CASE w = "REWRITE"
    <3> DEFINE m == [type |-> "TITLE_PROMPT", question |-> t.game.roundNumber]
    <3>1. r.target[p] # NoSlot
      <4>1. r.target[p] \in r.submitted
        BY <1>1, <2>1, <2>5 DEF GameInv, Dealt
      <4> QED
        BY <2>3, <4>1, NoSlotIsNone DEF RoundState
    <3>2. PendingLines(s, t, c) = <<m>>
      BY <2>2, <2>5, <3>1 DEF PendingLines, TitleLines, AskedBy
    <3>3. m \in DownLine /\ m.type = AskFor[w]
      BY <2>3, <2>5 DEF DownLine, AskFor
    <3> QED
      BY <1>3, <3>2, <3>3
  <2>6. CASE w = "VOTING"
    <3> DEFINE m == [type |-> "VOTE_OPEN", options |-> Cardinality(r.reveal),
                     question |-> t.game.roundNumber]
    <3>1. r.reveal # {}
      BY <2>6 DEF Plain
    <3>2. PendingLines(s, t, c) = <<m>>
      BY <2>2, <2>6, <3>1 DEF PendingLines, VoteLines, AskedBy
    <3>3. Cardinality(r.reveal) \in Nat
      BY <2>3, SlotsFinite DEF RoundState
    <3>4. m \in DownLine /\ m.type = AskFor[w]
      BY <2>3, <2>6, <3>3 DEF DownLine, AskFor
    <3> QED
      BY <1>3, <3>2, <3>4
  <2> QED
    BY <2>4, <2>5, <2>6 DEF Window
<1> QED
    BY <1>2, <1>3

\* A client that is asked about a window has nothing left to say about the one
\* before the last.
LEMMA AskedConn ==
    ASSUME NEW s, NEW w \in Window, s.game.phase = w, Clock(s) = "off",
           s.clock = "due",
           NEW t, t.game.phase = w, Clock(t) = "running", t.clock = "off",
           NEW c, t.cid[c] = s.cid[c], ~Gave(t, c), s.cid[c] = 0 => ~Owes(t, c),
           NEW k, NEW u, NEW l, ConnInv(s, c, k, u, <<>>, l), NEW d,
           \/ s.cid[c] = 0 /\ d = <<>>
           \/ /\ s.cid[c] # 0
              /\ \E m : d = <<m>> /\ m.type = AskFor[w] /\ m.question = t.game.roundNumber
    PROVE  ConnInv(t, c, k, u, d, l)
<1> DEFINE v == Prior[w]
<1>1. /\ Last(s) = v /\ ~Dead(s) /\ ~Hurried(s) /\ Spoken(s, c)
      /\ Last(t) = w /\ Spoken(t, c) /\ ~Due(t)
    BY DEF Last, Dead, Hurried, Spoken, Due, Window
<1>2. v \in Window /\ Prior[v] \in Window /\ v # w /\ Prior[v] # w /\ Prior[v] # v
    BY DEF Prior, Window
<1>3. InStep(s, c, k, u, <<>>, l) /\ ~Asking(<<>>)
    BY <1>1 DEF ConnInv, Asking
<1>4. \A i \in DOMAIN u : u[i].type \in {"SUBMIT", "TITLE", "VOTE"} =>
        u[i].type = AnswerTo[v]
    BY <1>1, <1>3 DEF InStep
<1>5. /\ k.flags \cap C!Window \subseteq {WaitFor[v]}
      /\ AnswerTo[w] \in {"SUBMIT", "TITLE", "VOTE"} /\ AnswerTo[w] # AnswerTo[v]
    BY <1>1, <1>2, <1>3, WindowFacts DEF InStep
<1>6. ~Has(u, AnswerTo[w]) /\ \A i \in DOMAIN u : u[i].type # AnswerTo[w]
    BY <1>4, <1>5 DEF Has
<1>7. Silent(k, u, <<>>)
    BY <1>1 DEF ConnInv, Polled
<1>8. CASE s.cid[c] = 0 /\ d = <<>>
  <2>1. k.flags \cap C!Window = {}
    BY <1>8 DEF ConnInv, Known, C!Window
  <2>2. InStep(t, c, k, u, d, l)
    <3>1. WaitFor[w] \notin k.flags
      BY <1>2, <2>1, WindowFacts
    <3> QED
      BY <1>1, <1>3, <1>4, <1>5, <1>6, <1>8, <2>1, <3>1 DEF InStep
  <2>3. Known(t, c, k, u, d)
    BY <1>8 DEF ConnInv, Known
  <2> QED
    BY <1>1, <1>7, <1>8, <2>2, <2>3 DEF ConnInv, Polled, Silent
<1>9. CASE /\ s.cid[c] # 0
           /\ \E m : d = <<m>> /\ m.type = AskFor[w] /\ m.question = t.game.roundNumber
  <2>1. PICK m : d = <<m>> /\ m.type = AskFor[w] /\ m.question = t.game.roundNumber
    BY <1>9
  <2>2. AskFor[w] \in {"PROMPT", "TITLE_PROMPT", "VOTE_OPEN"}
    BY WindowFacts
  <2>3. d # <<>> /\ d[1] = m /\ DOMAIN d = {1}
    BY <2>1
  <2>4. Asking(d) /\ ~Has(d, "PLAY_AGAIN")
    BY <2>1, <2>2, <2>3 DEF Asking, Has
  <2>5. InStep(t, c, k, u, d, l)
    BY <1>1, <1>4, <1>5, <1>6, <2>1, <2>3, <2>4 DEF InStep
  <2>6. Known(t, c, k, u, d)
    <3>1. s.cid[c] # 0 /\ "joined" \in k.flags
      BY <1>9 DEF ConnInv, Known
    <3>2. \A i \in DOMAIN d : i = 1
      BY <2>3
    <3> QED
      BY <1>1, <3>1, <3>2 DEF ConnInv, Known
  <2>7. Polled(t, c, k, u, d)
    BY <1>7, <2>4 DEF ConnInv, Polled, Silent
  <2> QED
    BY <2>5, <2>6, <2>7 DEF ConnInv
<1> QED
    BY <1>8, <1>9

\* While the results are shown nobody is asked anything.
LEMMA BoardRests ==
    ASSUME NEW s, s.game.phase = "RESULTS", s.clock = "due",
           NEW t, t.cid = s.cid, t.game.phase \in {"RESULTS", "PROMPT", "OVER"},
           Clock(t) = "off", NEW c
    PROVE  Rests(s, t, c)
<1>1. Clock(s) = "off" /\ Last(s) = "VOTING"
    BY OverIs DEF Window
<1>2. Last(t) = "VOTING"
    BY DEF Last, Window, Prior
<1>3. Due(s) /\ ~Dead(s) /\ ~Hurried(s) /\ Spoken(s, c)
    BY DEF Due, Dead, Hurried, Spoken
<1> QED
    BY <1>1, <1>2, <1>3 DEF Rests, Owes, Gave

\* The play-again question goes to everybody who was in the match.
LEMMA PolledConn ==
    ASSUME NEW s, s.pending = "GAME_OVER", s.game.phase = "OVER", s.clock = "due",
           s.game.decided = {},
           NEW t, t.game = s.game, t.cid = s.cid, t.pending = "NONE", t.clock = "off",
           NEW c, s.cid[c] \in Nat, NEW k, NEW u, NEW l,
           ConnInv(s, c, k, u, <<>>, l)
    PROVE  ConnInv(t, c, k, u, PendingLines(s, t, c), l)
<1> DEFINE d == PendingLines(s, t, c)
<1>1. \/ s.cid[c] = 0 /\ d = <<>>
      \/ s.cid[c] # 0 /\ d = <<[type |-> "PLAY_AGAIN"]>>
    BY DEF PendingLines, ReplayLines
<1> HIDE DEF d
<1>2. /\ Clock(s) = "off" /\ Last(s) = "VOTING" /\ ~Hurried(s) /\ Spoken(s, c)
      /\ Clock(t) = "off" /\ Last(t) = "VOTING" /\ ~Hurried(t) /\ ~Due(t)
      /\ Dead(t) <=> Dead(s)
    BY OverIs DEF Window, Hurried, Spoken, Due, Dead
<1>3. ~Spoken(t, c) \/ s.cid[c] = 0
    BY DEF Spoken
<1>4. Silent(k, u, <<>>)
    BY <1>2 DEF ConnInv, Polled
<1>5. ~Asking(d) /\ ~Asking(<<>>)
  <2>1. d = <<>> \/ d[1].type = "PLAY_AGAIN"
    BY <1>1
  <2> QED
    BY <2>1 DEF Asking
<1>6. Known(t, c, k, u, d)
  <2>1. \A i \in DOMAIN d : i = 1
    BY <1>1
  <2>2. /\ s.cid[c] # 0 => "joined" \in k.flags
        /\ s.cid[c] = 0 => d = <<>>
    BY <1>1 DEF ConnInv, Known
  <2> QED
    BY <1>2, <2>1, <2>2 DEF ConnInv, Known
<1>7. Polled(t, c, k, u, d)
    BY <1>1, <1>3, <1>4 DEF ConnInv, Polled, Silent
<1>8. ASSUME ~Dead(t) PROVE InStep(t, c, k, u, d, l)
  <2>1. InStep(s, c, k, u, <<>>, l)
    BY <1>2, <1>8 DEF ConnInv
  <2> QED
    BY <1>2, <1>5, <2>1 DEF InStep, Owes, Gave
<1> QED
    BY <1>6, <1>7, <1>8 DEF ConnInv, d

\* What a pending action shows everybody, in a state s in which nothing is on
\* its way to them any more.
Shows(s, t) ==
    /\ Plain(t) /\ t.open = s.open /\ t.cid = s.cid /\ ~Due(t)
    /\ \A c \in Slot : \A k, u, l :
         ConnInv(s, c, k, u, <<>>, l) => ConnInv(t, c, k, u, PendingLines(s, t, c), l)

LEMMA WindowShows ==
    ASSUME NEW s, Solid(s), Plain(s), NEW w \in Window, s.pending = AskedBy[w],
           s.clock = "due", NEW t \in RunPending(s), Solid(t)
    PROVE  Shows(s, t)
<1>1. /\ s.game.phase = w /\ Clock(s) = "off"
      /\ s.game \in GameState /\ Held(t) /\ Held(s)
  <2>1. s.pending # "NONE"
    BY DEF AskedBy, Window
  <2> QED
    BY <2>1, PendingStage, SolidFacts
<1>2. /\ t.game = SetDeadline(s.game, w, "running")
      /\ t.cid = s.cid /\ t.open = s.open
      /\ t.pending = "NONE" /\ t.clock = "off"
    BY <1>1, PromptedIs
<1>3. /\ t.game.phase = w
      /\ t.game.round.deadline[w] = "running"
      /\ t.game.round.active = s.game.round.active
      /\ t.game.round.submitted = s.game.round.submitted
      /\ t.game.round.rewritten = s.game.round.rewritten
      /\ t.game.round.voted = s.game.round.voted
    BY <1>1, <1>2, SetDeadlineClocks DEF Timer
<1>4. /\ t.game.pid = s.game.pid /\ t.game.connected = s.game.connected
      /\ t.game.decided = s.game.decided /\ t.game.wants = s.game.wants
    BY <1>1, <1>2 DEF SetDeadline, GameState
<1>5. /\ t.game.joined = s.game.joined
      /\ t.game.round.reveal = s.game.round.reveal
    BY <1>1, <1>2, SetDeadlineSeats
<1>6. Clock(t) = "running" /\ ~Due(t)
    BY <1>2, <1>3 DEF Clock, PhaseDeadline, Due
<1>7. Plain(t)
  <2>1. w \notin {"LOBBY", "OVER"} /\ t.pending # "SCOREBOARD" /\ Clock(t) # "off"
    BY <1>2, <1>6 DEF Window
  <2>2. t.game.phase = "VOTING" => t.game.round.reveal # {}
    BY <1>1, <1>3, <1>5 DEF Plain
  <2> QED
    BY <1>2, <1>3, <1>4, <1>5, <2>1, <2>2 DEF Plain
<1>8. ASSUME NEW c \in Slot, NEW k, NEW u, NEW l, ConnInv(s, c, k, u, <<>>, l)
      PROVE  ConnInv(t, c, k, u, PendingLines(s, t, c), l)
  <2>1. ~Gave(t, c)
    <3>1. t.game.round.active \cap Done(t.game) = {}
      BY <1>1, <1>3 DEF Plain, Fresh, Done, Window
    <3> QED
      BY <3>1 DEF Gave
  <2>2. s.cid[c] = 0 => ~Owes(t, c)
    <3>1. t.game.round.active \subseteq t.game.connected
      BY <1>1, <1>3, Seating DEF InGame, Phase, Window
    <3> QED
      BY <1>1, <1>2, <3>1, Seating DEF Owes
  <2>3. \/ s.cid[c] = 0 /\ PendingLines(s, t, c) = <<>>
        \/ /\ s.cid[c] # 0
           /\ \E m : /\ PendingLines(s, t, c) = <<m>> /\ m.type = AskFor[w]
                     /\ m.question = t.game.roundNumber
    BY <1>2, <1>3, <1>7, AskLines
  <2> QED
    BY <1>1, <1>2, <1>3, <1>6, <1>8, <2>1, <2>2, <2>3, AskedConn
<1> QED
    BY <1>2, <1>6, <1>7, <1>8 DEF Shows

LEMMA LoneGame ==
    ASSUME NEW s, Lone(s), NEW g
    PROVE  LET t == [s EXCEPT !.game = g]
           IN  /\ Lone(t) /\ t.game = g /\ t.cid = s.cid /\ t.open = s.open
               /\ t.pending = s.pending /\ t.clock = s.clock
    BY DEF Lone, Fields

LEMMA LoneScheduled ==
    ASSUME NEW s, Lone(s), NEW a, NEW t, t = Schedule(s, a)
    PROVE  /\ t.game = s.game /\ t.cid = s.cid /\ t.open = s.open
           /\ t.pending = a /\ t.clock = "running"
    BY DEF Lone, Fields, Schedule

\* The results and the scoreboards, and what comes after them.
LEMMA BoardIs ==
    ASSUME NEW s, Solid(s), Plain(s), s.pending \in Boards,
           s.game.phase = "RESULTS", NEW t \in RunPending(s)
    PROVE  /\ t.cid = s.cid /\ t.open = s.open
           /\ \/ /\ t.game = s.game /\ t.clock = "running"
                 /\ \/ t.pending = "FINAL_SCOREBOARD"
                    \/ t.pending = "SCOREBOARD" /\ ~IsFinalRound(s.game)
              \/ /\ t.game \in BeginRound(s.game) /\ t.game.phase # "RESULTS"
                 /\ t.clock = "running" /\ t.pending = "QUESTION_PROMPT"
              \/ /\ \E g \in BeginRound(s.game) : t.game = EndGame(g)
                 /\ t.clock = "off" /\ t.pending = "NONE"
              \/ /\ t.game = EndGame(s.game)
                 /\ t.clock = "running" /\ t.pending = "GAME_OVER"
<1> DEFINE v == ClearPending(s)
<1>1. /\ Lone(v) /\ v.game = s.game /\ v.cid = s.cid /\ v.open = s.open
      /\ v.pending = "NONE" /\ v.clock = "off"
      /\ \A x \in Broadcast(v) : x = v
    BY ClearedIs
<1> HIDE DEF v
<1>2. ASSUME NEW g, NEW u \in Broadcast([v EXCEPT !.game = g])
      PROVE  /\ Lone(u) /\ u.game = g /\ u.cid = s.cid /\ u.open = s.open
             /\ u.pending = "NONE" /\ u.clock = "off"
  <2>1. u = [v EXCEPT !.game = g]
    BY <1>1, <1>2, LoneSend
  <2> QED
    BY <1>1, <2>1, LoneGame
<1>3. CASE s.pending = "ROUND_RESULTS"
  <2>1. t = Schedule(v, IF IsFinalRound(s.game) THEN "FINAL_SCOREBOARD"
                        ELSE "SCOREBOARD")
    BY <1>1, <1>3 DEF RunPending, RoundResults, v
  <2>2. PICK a : /\ a = IF IsFinalRound(s.game) THEN "FINAL_SCOREBOARD"
                         ELSE "SCOREBOARD"
                 /\ t = Schedule(v, a)
    BY <2>1
  <2>3. /\ t.game = s.game /\ t.cid = s.cid /\ t.open = s.open
        /\ t.pending = a /\ t.clock = "running"
    BY <1>1, <2>2, LoneScheduled
  <2> QED
    BY <2>2, <2>3
<1>4. CASE s.pending = "SCOREBOARD"
  <2>1. t \in NextRoundOrEnd(v)
    BY <1>1, <1>4 DEF RunPending, Scoreboard, Then, v
  <2>2. ~IsFinalRound(s.game)
    BY <1>4 DEF Plain
  <2>3. FinishRound(v.game) = BeginRound(s.game)
    BY <1>1, <2>2 DEF FinishRound
  <2>4. PICK g \in BeginRound(s.game) :
          t \in IF v.game.phase = "RESULTS" /\ g.phase # "RESULTS"
                THEN {Schedule(u, "QUESTION_PROMPT") :
                        u \in Broadcast([v EXCEPT !.game = g])}
                ELSE {[u EXCEPT !.game = EndGame(@)] :
                        u \in Broadcast([v EXCEPT !.game = g])}
    BY <2>1, <2>3 DEF NextRoundOrEnd
  <2>5. CASE g.phase # "RESULTS"
    <3>1. PICK u \in Broadcast([v EXCEPT !.game = g]) :
            t = Schedule(u, "QUESTION_PROMPT")
      BY <1>1, <2>4, <2>5
    <3>2. /\ Lone(u) /\ u.game = g /\ u.cid = s.cid /\ u.open = s.open
      BY <1>2, <3>1
    <3>3. /\ t.game = g /\ t.cid = s.cid /\ t.open = s.open
          /\ t.pending = "QUESTION_PROMPT" /\ t.clock = "running"
      BY <3>1, <3>2, LoneScheduled
    <3> QED
      BY <2>5, <3>3
  <2>6. CASE g.phase = "RESULTS"
    <3>1. PICK u \in Broadcast([v EXCEPT !.game = g]) :
            t = [u EXCEPT !.game = EndGame(@)]
      BY <1>1, <2>4, <2>6
    <3>2. /\ Lone(u) /\ u.game = g /\ u.cid = s.cid /\ u.open = s.open
          /\ u.pending = "NONE" /\ u.clock = "off"
      BY <1>2, <3>1
    <3>3. t = [u EXCEPT !.game = EndGame(g)]
      BY <3>1, <3>2
    <3>4. /\ t.game = EndGame(g) /\ t.cid = s.cid /\ t.open = s.open
          /\ t.pending = "NONE" /\ t.clock = "off"
      BY <3>2, <3>3, LoneGame
    <3> QED
      BY <3>4
  <2> QED
    BY <2>5, <2>6
<1>5. CASE s.pending = "FINAL_SCOREBOARD"
  <2>1. IsFinalRound(s.game)
    BY <1>5 DEF Solid, Timed
  <2>2. FinishRound(s.game) = {EndGame(s.game)}
    BY <2>1 DEF FinishRound
  <2>3. PICK u \in Then(UNION {{[x EXCEPT !.game = g] : g \in FinishRound(x.game)} :
                                 x \in Broadcast(v)}, Broadcast) :
          t = Schedule(u, "GAME_OVER")
    BY <1>5 DEF RunPending, FinalScoreboard, v
  <2>4. u \in Broadcast([v EXCEPT !.game = EndGame(s.game)])
    <3>1. PICK w \in UNION {{[x EXCEPT !.game = g] : g \in FinishRound(x.game)} :
                             x \in Broadcast(v)} : u \in Broadcast(w)
      BY <2>3 DEF Then
    <3>2. PICK x \in Broadcast(v) :
            \E g \in FinishRound(x.game) : w = [x EXCEPT !.game = g]
      BY <3>1
    <3>3. w = [v EXCEPT !.game = EndGame(s.game)]
      BY <1>1, <2>2, <3>2
    <3> QED
      BY <3>1, <3>3
  <2>5. /\ Lone(u) /\ u.game = EndGame(s.game) /\ u.cid = s.cid /\ u.open = s.open
    BY <1>2, <2>4
  <2>6. /\ t.game = EndGame(s.game) /\ t.cid = s.cid /\ t.open = s.open
        /\ t.pending = "GAME_OVER" /\ t.clock = "running"
    BY <2>3, <2>5, LoneScheduled
  <2> QED
    BY <2>6
<1> QED
    BY <1>3, <1>4, <1>5 DEF Boards

LEMMA BoardShows ==
    ASSUME NEW s, Solid(s), Plain(s), s.pending \in Boards, s.clock = "due",
           NEW t \in RunPending(s)
    PROVE  Shows(s, t)
<1>1. s.game.phase = "RESULTS" /\ s.game \in GameState /\ Held(s)
  <2>1. s.pending # "NONE"
    BY DEF Boards
  <2> QED
    BY <2>1, PendingStage, SolidFacts
<1>2. /\ t.cid = s.cid /\ t.open = s.open
      /\ \/ /\ t.game = s.game /\ t.clock = "running"
            /\ \/ t.pending = "FINAL_SCOREBOARD"
               \/ t.pending = "SCOREBOARD" /\ ~IsFinalRound(s.game)
         \/ /\ t.game \in BeginRound(s.game) /\ t.game.phase # "RESULTS"
            /\ t.clock = "running" /\ t.pending = "QUESTION_PROMPT"
         \/ /\ \E g \in BeginRound(s.game) : t.game = EndGame(g)
            /\ t.clock = "off" /\ t.pending = "NONE"
         \/ /\ t.game = EndGame(s.game)
            /\ t.clock = "running" /\ t.pending = "GAME_OVER"
    BY <1>1, BoardIs
<1>3. ASSUME NEW g \in BeginRound(s.game)
      PROVE  /\ g.joined = s.game.joined /\ g.connected = s.game.connected
             /\ g.pid = s.game.pid /\ g.wants = s.game.wants
             /\ g.decided = s.game.decided /\ g \in GameState
             /\ g.phase # "RESULTS" => g.phase = "PROMPT" /\ Begun(g)
  <2>1. SameTable(s.game, g) /\ SameSeats(s.game, g)
    BY <1>1, BeginTable, BeginSeats
  <2>2. g.phase # "RESULTS" => g.phase = "PROMPT" /\ Begun(g)
    BY <1>1, RoundBegins
  <2>3. JoinedCount(s.game) >= MinPlayers
    BY <1>1, MembersEnough DEF Held, Fits, Safe, Wiped, InGame, Phase
  <2>4. g \in GameState
    BY <1>1, <2>3, BeginRoundOutcome
  <2> QED
    BY <2>1, <2>2, <2>4 DEF SameTable, SameSeats
<1>4. ASSUME NEW g \in GameState
      PROVE  LET h == EndGame(g)
             IN  /\ h.joined = g.joined /\ h.connected = g.connected
                 /\ h.pid = g.pid /\ h.wants = g.wants
                 /\ h.decided = g.decided /\ h.phase = "OVER"
    BY DEF EndGame, GameState
<1>5. /\ t.game.joined = s.game.joined /\ t.game.connected = s.game.connected
      /\ t.game.pid = s.game.pid /\ t.game.wants = s.game.wants
      /\ t.game.decided = s.game.decided
      /\ \/ /\ t.game.phase = "RESULTS" /\ t.clock = "running"
            /\ t.pending \in {"FINAL_SCOREBOARD", "SCOREBOARD"}
            /\ t.pending = "SCOREBOARD" => ~IsFinalRound(t.game)
         \/ /\ t.game.phase = "PROMPT" /\ t.clock = "running"
            /\ t.pending = "QUESTION_PROMPT" /\ Begun(t.game)
         \/ /\ t.game.phase = "OVER" /\ t.clock # "due"
            /\ t.pending \in {"NONE", "GAME_OVER"}
  <2>1. CASE /\ t.game = s.game /\ t.clock = "running"
             /\ \/ t.pending = "FINAL_SCOREBOARD"
                \/ t.pending = "SCOREBOARD" /\ ~IsFinalRound(s.game)
    BY <1>1, <2>1
  <2>2. CASE /\ t.game \in BeginRound(s.game) /\ t.game.phase # "RESULTS"
             /\ t.clock = "running" /\ t.pending = "QUESTION_PROMPT"
    BY <1>3, <2>2
  <2>3. CASE /\ \E g \in BeginRound(s.game) : t.game = EndGame(g)
             /\ t.clock = "off" /\ t.pending = "NONE"
    <3>1. PICK g \in BeginRound(s.game) : t.game = EndGame(g)
      BY <2>3
    <3> QED
      BY <1>3, <1>4, <2>3, <3>1
  <2>4. CASE /\ t.game = EndGame(s.game)
             /\ t.clock = "running" /\ t.pending = "GAME_OVER"
    BY <1>1, <1>4, <2>4
  <2> QED
    BY <1>2, <2>1, <2>2, <2>3, <2>4
<1>6. Clock(t) = "off" /\ ~Due(t)
  <2>1. CASE t.game.phase = "PROMPT"
    <3>1. AllOff(t.game)
      BY <1>5, <2>1 DEF Begun
    <3>2. Clock(t) = "off"
      BY <3>1, AllOffNow DEF Clock
    <3> QED
      BY <1>5, <3>2 DEF Due
  <2>2. CASE t.game.phase # "PROMPT"
    BY <1>5, <2>2, OverIs DEF Due, Window
  <2> QED
    BY <2>1, <2>2
<1>7. Plain(t)
  <2>1. t.game.phase = "PROMPT" => Fresh(t.game)
    BY <1>5 DEF Begun
  <2>2. s.game.decided = {}
    BY <1>1, NoWishBeforeOver
  <2> QED
    BY <1>2, <1>5, <1>6, <2>1, <2>2 DEF Plain, Window
<1>8. ASSUME NEW c \in Slot, NEW k, NEW u, NEW l, ConnInv(s, c, k, u, <<>>, l)
      PROVE  ConnInv(t, c, k, u, PendingLines(s, t, c), l)
  <2>1. PendingLines(s, t, c) = <<>>
    BY DEF PendingLines, Boards
  <2>2. Rests(s, t, c)
    BY <1>1, <1>2, <1>5, <1>6, BoardRests
  <2> QED
    BY <1>8, <2>1, <2>2, RestsCarries DEF Carries
<1> QED
    BY <1>2, <1>6, <1>7, <1>8 DEF Shows

LEMMA OverShows ==
    ASSUME NEW s, Solid(s), Plain(s), s.pending = "GAME_OVER", s.clock = "due",
           NEW t \in RunPending(s)
    PROVE  Shows(s, t)
<1>1. s.game.phase = "OVER" /\ s.game.decided = {} /\ s.cid \in [Slot -> Nat]
  <2>1. s.game.phase = "OVER"
    BY PendingStage
  <2> QED
    BY <2>1, SolidFacts DEF Plain
<1>2. /\ t.game = s.game /\ t.cid = s.cid /\ t.open = s.open
      /\ t.pending = "NONE" /\ t.clock = "off"
  <2>1. t \in Broadcast(ClearPending(s))
    BY DEF RunPending
  <2> QED
    BY <2>1, ClearedIs
<1>3. Plain(t) /\ Clock(t) = "off" /\ ~Due(t)
    BY <1>1, <1>2, OverIs DEF Plain, Window, Due
<1>4. ASSUME NEW c \in Slot, NEW k, NEW u, NEW l, ConnInv(s, c, k, u, <<>>, l)
      PROVE  ConnInv(t, c, k, u, PendingLines(s, t, c), l)
    BY <1>1, <1>2, <1>4, PolledConn
<1> QED
    BY <1>2, <1>3, <1>4 DEF Shows

\* The countdown to the next match leaves nobody out who is still connected.
LeavesOut(s) == s.pending = "REPLAY_START" /\ s.clock = "due"

\* Both timers.
Times(s, a, t) ==
    /\ Plain(t) /\ t.open = s.open /\ t.cid = s.cid
    /\ \A c \in Slot : \A k, u, l : \A d \in Seq(DownLine) :
         ConnInv(s, c, k, u, d, l) => ConnInv(t, c, k, u, d \o TimerLines(s, a, c), l)

LEMMA PendingTimes ==
    ASSUME NEW s, Solid(s), Plain(s), ~LeavesOut(s), NEW a \in RunPendingIfDue(s)
    PROVE  a.clock # "due" /\ Times(s, a, a)
<1>1. Solid(a) /\ s.pending \in Pending /\ Held(s)
    BY SolidPending, SolidFacts
<1>2. CASE s.pending # "NONE" /\ s.clock # "running"
  <2>1. a \in RunPending(s)
    BY <1>2 DEF RunPendingIfDue
  <2>2. s.clock = "due"
    BY <1>1, <1>2 DEF Held, ServerState, Timer
  <2>3. Shows(s, a)
    <3>1. CASE s.pending \in Boards
      BY <2>1, <2>2, <3>1, BoardShows
    <3>2. CASE s.pending = "GAME_OVER"
      BY <2>1, <2>2, <3>2, OverShows
    <3>3. ASSUME NEW w \in Window, s.pending = AskedBy[w] PROVE Shows(s, a)
      BY <1>1, <2>1, <2>2, <3>3, WindowShows
    <3>4. \/ s.pending \in Boards \/ s.pending = "GAME_OVER"
          \/ \E w \in Window : s.pending = AskedBy[w]
      BY <1>1, <1>2, <2>2 DEF Pending, Prompts, LeavesOut, Window, AskedBy
    <3> QED
      BY <3>1, <3>2, <3>3, <3>4
  <2>4. ASSUME NEW c \in Slot, NEW k, NEW u, NEW l, NEW d \in Seq(DownLine),
               ConnInv(s, c, k, u, d, l)
        PROVE  ConnInv(a, c, k, u, d \o TimerLines(s, a, c), l)
    <3>1. d = <<>>
      BY <2>2, <2>4 DEF ConnInv, Known, Due
    <3>2. TimerLines(s, a, c) = PendingLines(s, a, c)
      BY <1>2 DEF TimerLines
    <3>3. ConnInv(a, c, k, u, PendingLines(s, a, c), l)
      BY <2>3, <2>4, <3>1 DEF Shows
    <3>4. PendingLines(s, a, c) \in Seq(DownLine)
      BY <1>1, <3>2, SentLines
    <3>5. <<>> \o PendingLines(s, a, c) = PendingLines(s, a, c)
      BY <3>4
    <3> QED
      BY <3>1, <3>2, <3>3, <3>5
  <2> QED
    BY <2>3, <2>4 DEF Shows, Times, Due
<1>3. CASE ~(s.pending # "NONE" /\ s.clock # "running")
  <2>1. a = s /\ \A c \in Slot : TimerLines(s, a, c) = <<>>
    BY <1>3 DEF RunPendingIfDue, TimerLines
  <2>2. s.clock # "due"
    BY <1>1, <1>3 DEF Held
  <2> QED
    BY <2>1, <2>2, NothingAdded DEF Times
<1> QED
    BY <1>2, <1>3

LEMMA TimersView ==
    ASSUME NEW s, Solid(s), Plain(s), ~LeavesOut(s), NEW a \in RunPendingIfDue(s),
           NEW t \in EnforceDeadline(a)
    PROVE  ~Due(t) /\ Times(s, a, t)
<1>1. Solid(a) /\ a.clock # "due" /\ Times(s, a, a)
    BY SolidPending, PendingTimes
<1>2. /\ Plain(t) /\ t.open = a.open /\ t.cid = a.cid /\ ~Due(t)
      /\ \A c \in Slot : Carries(a, t, c)
    BY <1>1, DeadlineView DEF Times
<1> QED
    BY <1>1, <1>2 DEF Carries, Times

----------------------------------------------------------------------------
(* The steps of the system. *)

LEMMA TwoLots ==
    ASSUME NEW x \in Seq(DownLine), NEW y \in Seq(DownLine), NEW w \in Seq(DownLine)
    PROVE  (x \o y) \in Seq(DownLine) /\ x \o (y \o w) = (x \o y) \o w
<1>1. (x \o y) \in Seq(DownLine)
    BY ConcatProperties
<1>2. x \o (y \o w) = (x \o y) \o w
    BY ConcatAssociative
<1> QED
    BY <1>1, <1>2

\* A line is taken off its channel: of every connection that stays open, and of
\* every one that does not.
LEMMA ConsumeIs ==
    ASSUME TypeInv, NEW c \in Slot, up[c] # <<>>, Consume(c),
           NEW z, z = server', NEW e \in Slot
    PROVE  /\ e \notin z.open =>
                client'[e] = C!ClientInit /\ up'[e] = <<>> /\ late'[e] = 0
           /\ e \in z.open =>
                /\ client'[e] = client[e]
                /\ up'[e] = IF e = c THEN Tail(up[e]) ELSE up[e]
                /\ late'[e] = IF e = c THEN Less(late[e]) ELSE late[e]
<1>1. /\ client' = Gone(Slot \ z.open, client, C!ClientInit)
      /\ up' = Gone(Slot \ z.open, [up EXCEPT ![c] = Tail(@)], <<>>)
      /\ late' = Gone(Slot \ z.open,
                      [late EXCEPT ![c] = IF @ > 0 THEN @ - 1 ELSE 0], 0)
    BY DEF Consume
<1> QED
    BY <1>1 DEF TypeInv, Gone, Less

LEMMA LineStep ==
    ASSUME SysInv, ~LeavesOut(server), TypeInv', NEW c \in Slot, SysLine(c)
    PROVE  SysInv'
<1>1. /\ TypeInv /\ Plain(server) /\ c \in server.open
      /\ up[c] # <<>> /\ up[c] \in Seq(UpLine) /\ Consume(c)
      /\ Solid(server) /\ late[c] \in Nat
      /\ \A e \in Slot : /\ down[e] \in Seq(DownLine)
                         /\ ConnInv(server, e, client[e], up[e], down[e], late[e])
    BY DEF SysInv, TypeInv, SysLine, Arrived
<1>2. PICK a \in RunPendingIfDue(server) : \E t \in EnforceDeadline(a) :
             LET m == Request(t.game, Head(up[c])) IN
             /\ Solid(a) /\ Solid(t) /\ Undue(t)
             /\ Head(up[c]) \in UpLine /\ Head(up[c]).type \in Requests
             /\ server' \in Dispatch(t, c, m) /\ Solid(server')
             /\ Deliver([d \in Slot |-> TimerLines(server, a, d)
                                       \o RequestLines(t, server', c, m, d)])
    BY <1>1, LineSteps
<1>3. PICK t \in EnforceDeadline(a) :
             LET m == Request(t.game, Head(up[c])) IN
             /\ Solid(a) /\ Solid(t) /\ Undue(t)
             /\ Head(up[c]) \in UpLine /\ Head(up[c]).type \in Requests
             /\ server' \in Dispatch(t, c, m) /\ Solid(server')
             /\ Deliver([d \in Slot |-> TimerLines(server, a, d)
                                       \o RequestLines(t, server', c, m, d)])
    BY <1>2
<1>4. PICK m : m = Request(t.game, Head(up[c]))
    OBVIOUS
<1>5. PICK z : z = server'
    OBVIOUS
<1> DEFINE T(e) == TimerLines(server, a, e)
           R(e) == RequestLines(t, z, c, m, e)
<1>6. /\ Solid(a) /\ Solid(t) /\ Head(up[c]).type \in Requests
      /\ z \in Dispatch(t, c, m) /\ Solid(z)
    BY <1>3, <1>4, <1>5
<1>7. Deliver([d \in Slot |-> T(d) \o R(d)])
    BY <1>3, <1>4, <1>5
<1>8. \A e \in Slot : T(e) \in Seq(DownLine) /\ R(e) \in Seq(DownLine)
    BY <1>6, SentLines
<1>9. Head(up[c]) = up[c][1]
    BY <1>1, TailOff
<1>10. ASSUME NEW e \in z.open
       PROVE  /\ e \in Slot /\ (down[e] \o T(e)) \in Seq(DownLine)
              /\ down'[e] = (down[e] \o T(e)) \o R(e)
  <2>1. e \in Slot
    BY <1>6, SolidFacts DEF ServerState
  <2>2. down'[e] = down[e] \o (T(e) \o R(e))
    BY <1>5, <1>7, <2>1 DEF Deliver
  <2>3. /\ down[e] \in Seq(DownLine) /\ T(e) \in Seq(DownLine)
        /\ R(e) \in Seq(DownLine)
    BY <1>1, <1>8, <2>1
  <2> HIDE DEF T, R
  <2> QED
    BY <2>1, <2>2, <2>3, TwoLots
<1>11. \A e \in Slot \ z.open : down'[e] = <<>>
    BY <1>5, <1>7 DEF Deliver
<1>12. /\ Plain(t) /\ ~Due(t) /\ t.open = server.open
       /\ \A e \in Slot : ConnInv(t, e, client[e], up[e], down[e] \o T(e), late[e])
  <2>1. ~Due(t) /\ Times(server, a, t)
    BY <1>1, <1>3, TimersView
  <2> QED
    BY <1>1, <2>1 DEF Times
<1>13. Served(t, z, c, m, client[c], up[c], down[c] \o T(c), late[c])
  <2>1. (down[c] \o T(c)) \in Seq(DownLine)
    BY <1>1, <1>8, ConcatProperties
  <2>2. m = Request(t.game, up[c][1]) /\ up[c][1].type \in Requests
    BY <1>4, <1>6, <1>9
  <2> HIDE DEF T
  <2> QED
    BY <1>1, <1>6, <1>12, <2>1, <2>2, DispatchView
<1>14. /\ Plain(z)
       /\ \A e \in z.open \ {c} : Gets(t, z, e, R(e))
       /\ c \in z.open =>
            ConnInv(z, c, client[c], Tail(up[c]), (down[c] \o T(c)) \o R(c),
                    Less(late[c]))
    BY <1>13 DEF Served
<1> HIDE DEF T, R
<1>15. ASSUME NEW e \in Slot
       PROVE  ConnInv(z, e, client'[e], up'[e], down'[e], late'[e])
  <2>1. CASE e \notin z.open
    <3>1. /\ client'[e] = C!ClientInit /\ up'[e] = <<>> /\ late'[e] = 0
          /\ down'[e] = <<>>
      BY <1>1, <1>5, <1>11, <2>1, ConsumeIs
    <3>2. z.cid[e] = 0
      BY <1>6, <2>1, SolidFacts
    <3> QED
      BY <1>6, <3>1, <3>2, BlankConn
  <2>2. CASE e \in z.open /\ e = c
    <3>1. /\ client'[e] = client[c] /\ up'[e] = Tail(up[c])
          /\ late'[e] = Less(late[c])
      BY <1>1, <1>5, <2>2, ConsumeIs
    <3> QED
      BY <1>10, <1>14, <2>2, <3>1
  <2>3. CASE e \in z.open /\ e # c
    <3>1. /\ client'[e] = client[e] /\ up'[e] = up[e] /\ late'[e] = late[e]
      BY <1>1, <1>5, <2>3, ConsumeIs
    <3> QED
      BY <1>10, <1>12, <1>14, <2>3, <3>1 DEF Gets
  <2> QED
    BY <2>1, <2>2, <2>3
<1> QED
    BY <1>5, <1>14, <1>15 DEF SysInv

LEMMA HangUpStep ==
    ASSUME SysInv, TypeInv', NEW c \in Slot, SysHangUp(c)
    PROVE  SysInv'
<1>1. /\ TypeInv /\ Plain(server) /\ c \in server.open
      /\ up[c] # <<>> /\ Consume(c) /\ Solid(server)
      /\ \A e \in Slot : /\ down[e] \in Seq(DownLine)
                         /\ ConnInv(server, e, client[e], up[e], down[e], late[e])
    BY DEF SysInv, TypeInv, SysHangUp, HangUp, Arrived
<1>2. PICK z : z = server'
    OBVIOUS
<1>3. z \in RemoveClient(server, c) /\ Solid(z)
    BY <1>2 DEF SysHangUp, HangUp, TypeInv
<1>4. /\ Plain(z) /\ z.open = server.open \ {c}
      /\ \A e \in Slot \ {c} : Carries(server, z, e)
    BY <1>1, <1>3, RemoveView
<1>5. Deliver([d \in Slot |-> <<>>])
    BY DEF SysHangUp
<1>6. \A e \in Slot : down'[e] = IF e \in z.open THEN down[e] \o <<>> ELSE <<>>
    BY <1>2, <1>5 DEF Deliver
<1>7. ASSUME NEW e \in Slot
      PROVE  ConnInv(z, e, client'[e], up'[e], down'[e], late'[e])
  <2>1. CASE e \notin z.open
    <3>1. /\ client'[e] = C!ClientInit /\ up'[e] = <<>> /\ late'[e] = 0
          /\ down'[e] = <<>>
      BY <1>1, <1>2, <1>6, <2>1, ConsumeIs
    <3>2. z.cid[e] = 0
      BY <1>3, <2>1, SolidFacts
    <3> QED
      BY <1>3, <3>1, <3>2, BlankConn
  <2>2. CASE e \in z.open
    <3>1. e # c
      BY <1>4, <2>2
    <3>2. /\ client'[e] = client[e] /\ up'[e] = up[e] /\ late'[e] = late[e]
      BY <1>1, <1>2, <2>2, <3>1, ConsumeIs
    <3>3. down'[e] = down[e]
      BY <1>1, <1>6, <2>2, NothingAdded
    <3> QED
      BY <1>1, <1>4, <3>1, <3>2, <3>3 DEF Carries
  <2> QED
    BY <2>1, <2>2
<1> QED
    BY <1>2, <1>4, <1>7 DEF SysInv

LEMMA IdleStep ==
    ASSUME SysInv, ~LeavesOut(server), TypeInv', SysIdle
    PROVE  SysInv'
<1>1. /\ TypeInv /\ Plain(server) /\ Solid(server)
      /\ UNCHANGED <<client, up, late>>
      /\ \A e \in Slot : /\ down[e] \in Seq(DownLine)
                         /\ ConnInv(server, e, client[e], up[e], down[e], late[e])
    BY DEF SysInv, TypeInv, SysIdle
<1>2. PICK z : z = server'
    OBVIOUS
<1>3. PICK a \in RunPendingIfDue(server) :
             /\ z \in EnforceDeadline(a)
             /\ Deliver([d \in Slot |-> TimerLines(server, a, d)])
    BY <1>2 DEF SysIdle
<1>4. Solid(z)
    BY <1>2 DEF TypeInv
<1>5. /\ Plain(z) /\ z.open = server.open /\ z.cid = server.cid
      /\ \A e \in Slot : ConnInv(z, e, client[e], up[e],
                                 down[e] \o TimerLines(server, a, e), late[e])
  <2>1. Times(server, a, z)
    BY <1>1, <1>3, TimersView
  <2> QED
    BY <1>1, <2>1 DEF Times
<1>6. \A e \in Slot :
        down'[e] = IF e \in z.open THEN down[e] \o TimerLines(server, a, e) ELSE <<>>
    BY <1>2, <1>3 DEF Deliver
<1>7. ASSUME NEW e \in Slot
      PROVE  ConnInv(z, e, client'[e], up'[e], down'[e], late'[e])
  <2>1. CASE e \in z.open
    BY <1>1, <1>5, <1>6, <2>1
  <2>2. CASE e \notin z.open
    <3>1. z.cid[e] = 0
      BY <1>4, <2>2, SolidFacts
    <3>2. PICK x : x = down[e] \o TimerLines(server, a, e)
      OBVIOUS
    <3>3. ConnInv(z, e, client[e], up[e], x, late[e])
      BY <1>5, <3>2
    <3>4. x = <<>>
      BY <3>1, <3>3 DEF ConnInv, Known
    <3> QED
      BY <1>1, <1>6, <2>2, <3>3, <3>4
  <2> QED
    BY <2>1, <2>2
<1> QED
    BY <1>2, <1>5, <1>7 DEF SysInv

LEMMA TickStep ==
    ASSUME SysInv, TypeInv', Tick
    PROVE  SysInv'
<1>1. /\ TypeInv /\ Plain(server) /\ Solid(server) /\ UNCHANGED <<client, up, down>>
      /\ \A e \in Slot : /\ down[e] = <<>> /\ up[e] \in Seq(UpLine) /\ late[e] \in Nat
                         /\ late'[e] = Len(up[e])
                         /\ ConnInv(server, e, client[e], up[e], <<>>, late[e])
    BY DEF SysInv, TypeInv, Tick
<1>2. PICK z : z = server'
    OBVIOUS
<1>3. \A e \in Slot : /\ Len(up[e]) \in Nat
                      /\ \A i \in DOMAIN up[e] : i \in Nat \ {0} /\ i <= Len(up[e])
    BY <1>1, LenProperties
<1>4. CASE PendingComesDue
  <2>1. z = [server EXCEPT !.clock = "due"] /\ server.clock = "running"
    BY <1>2, <1>4 DEF PendingComesDue
  <2>2. z.game = server.game /\ z.cid = server.cid /\ z.pending = server.pending
    BY <1>1, <2>1, SolidFacts DEF ServerState
  <2>3. Plain(z)
    BY <1>1, <2>2 DEF Plain, Clock
  <2>4. \A e \in Slot :
          \/ server.pending \in {"SCOREBOARD", "FINAL_SCOREBOARD", "GAME_OVER",
                                 "QUESTION_PROMPT"}
          \/ late[e] = 0
    BY DEF Tick, HoldSpentInPauses
  <2>5. \A e \in Slot : ConnInv(z, e, client[e], up[e], <<>>, Len(up[e]))
    BY <1>1, <1>3, <2>1, <2>4, PendingDueConn
  <2> QED
    BY <1>1, <1>2, <2>3, <2>5 DEF SysInv
<1>5. CASE DeadlineComesDue
  <2>1. /\ z = [server EXCEPT !.game = SetDeadline(@, server.game.phase, "due")]
        /\ Clock(server) = "running"
    BY <1>2, <1>5 DEF DeadlineComesDue, Clock
  <2>2. Plain(z)
    <3>1. /\ z.game = SetDeadline(server.game, server.game.phase, "due")
          /\ z.cid = server.cid /\ z.pending = server.pending
      BY <1>1, <2>1, SolidFacts DEF ServerState
    <3>2. server.game.phase \in Window /\ server.game \in GameState
      BY <1>1, <2>1, ClockSpoken, SolidFacts
    <3>3. /\ z.game.phase = server.game.phase
          /\ z.game.round.deadline[server.game.phase] = "due"
      BY <3>1, <3>2, SetDeadlineClocks DEF Timer
    <3>4. /\ z.game.joined = server.game.joined
          /\ z.game.round.reveal = server.game.round.reveal
      BY <3>1, <3>2, SetDeadlineSeats
    <3>5. /\ z.game.pid = server.game.pid
          /\ z.game.roundNumber = server.game.roundNumber
          /\ z.game.connected = server.game.connected
          /\ z.game.wants = server.game.wants
          /\ z.game.decided = server.game.decided
      BY <3>1, <3>2 DEF SetDeadline, GameState
    <3>6. Clock(z) = "due"
      BY <3>2, <3>3 DEF Clock, PhaseDeadline
    <3>7. IsFinalRound(z.game) = IsFinalRound(server.game)
      BY <3>5 DEF IsFinalRound
    <3> QED
      BY <1>1, <3>1, <3>3, <3>4, <3>5, <3>6, <3>7 DEF Plain
  <2>3. \A e \in Slot : ConnInv(z, e, client[e], up[e], <<>>, Len(up[e]))
    BY <1>1, <1>3, <2>1, DeadlineDueConn
  <2> QED
    BY <1>1, <1>2, <2>2, <2>3 DEF SysInv
<1> QED
    BY <1>4, <1>5 DEF Tick

LEMMA OtherServerStep ==
    ASSUME SysInv, TypeInv', SysAccept \/ SysStop
    PROVE  SysInv'
<1>1. /\ Plain(server) /\ Solid(server) /\ UNCHANGED <<client, up, down, late>>
      /\ \A e \in Slot : ConnInv(server, e, client[e], up[e], down[e], late[e])
    BY DEF SysInv, TypeInv, SysAccept, SysStop
<1>2. PICK z : z = server'
    OBVIOUS
<1>3. \/ z = [server EXCEPT !.open = @ \cup {FirstSlot(Slot \ @)}]
      \/ z = [server EXCEPT !.running = FALSE]
    BY <1>2 DEF SysAccept, SysStop, Accept, Stop
<1>4. /\ z.game = server.game /\ z.cid = server.cid
      /\ z.pending = server.pending /\ z.clock = server.clock
    BY <1>1, <1>3, SolidFacts DEF ServerState
<1>5. Plain(z) /\ \A e \in Slot : Carries(server, z, e)
    BY <1>1, <1>4, SameCarries
<1>6. \A e \in Slot : ConnInv(z, e, client[e], up[e], down[e], late[e])
    BY <1>1, <1>5 DEF Carries
<1> QED
    BY <1>1, <1>2, <1>5, <1>6 DEF SysInv

\* Only one client's end, or its channels, change.
LEMMA AtOneEnd ==
    ASSUME SysInv, TypeInv', UNCHANGED <<server, late>>, NEW c \in Slot,
           \A e \in Slot \ {c} :
             client'[e] = client[e] /\ up'[e] = up[e] /\ down'[e] = down[e],
           ConnInv(server, c, client'[c], up'[c], down'[c], late[c])
    PROVE  SysInv'
<1>1. \A e \in Slot : ConnInv(server, e, client'[e], up'[e], down'[e], late[e])
    BY DEF SysInv
<1> QED
    BY <1>1 DEF SysInv

LEMMA ClientStep ==
    ASSUME SysInv, TypeInv', NEW c \in Slot,
           \/ Receive(c) \/ CloseInput(c)
           \/ \E text \in Text : Type(c, text)
    PROVE  SysInv'
<1> DEFINE k == client[c]
           u == up[c]
           d == down[c]
<1>1. /\ TypeInv /\ k \in C!ClientState /\ u \in Seq(UpLine) /\ d \in Seq(DownLine)
      /\ server.cid[c] \in Nat /\ ConnInv(server, c, k, u, d, late[c])
    BY SolidFacts DEF SysInv, TypeInv
<1>2. UNCHANGED <<server, late>>
    BY DEF Receive, CloseInput, Type
<1>3. \A e \in Slot \ {c} :
        client'[e] = client[e] /\ up'[e] = up[e] /\ down'[e] = down[e]
    BY <1>1 DEF Receive, CloseInput, Type, TypeInv
<1>4. CASE Receive(c)
  <2>1. /\ client'[c] = C!HandleServerLine(k, Head(d)) /\ down'[c] = Tail(d)
        /\ up'[c] = u /\ d # <<>>
    BY <1>1, <1>4 DEF Receive, TypeInv
  <2> HIDE DEF k, u, d
  <2>2. ConnInv(server, c, C!HandleServerLine(k, Head(d)), u, Tail(d), late[c])
    BY <1>1, <2>1, ReceiveConn
  <2> QED
    BY <1>2, <1>3, <2>1, <2>2, AtOneEnd
<1>5. CASE CloseInput(c)
  <2>1. /\ client'[c] = [k EXCEPT !.flags = @ \cup {"stdin_closed"}]
        /\ up'[c] = Append(u, [type |-> "EOF"]) /\ down'[c] = d
    BY <1>1, <1>5 DEF CloseInput, TypeInv
  <2> HIDE DEF k, u, d
  <2>2. ConnInv(server, c, [k EXCEPT !.flags = @ \cup {"stdin_closed"}],
                Append(u, [type |-> "EOF"]), d, late[c])
    BY <1>1, CloseConn
  <2> QED
    BY <1>2, <1>3, <2>1, <2>2, AtOneEnd
<1>6. ASSUME NEW text \in Text, Type(c, text) PROVE SysInv'
  <2>1. /\ client'[c] = C!HandleStdinLine(k) /\ up'[c] = u \o C!LinesSent(k, text)
        /\ down'[c] = d /\ text \in C!Accepted(k)
    BY <1>1, <1>6 DEF Type, TypeInv
  <2> HIDE DEF k, u, d
  <2>2. ConnInv(server, c, C!HandleStdinLine(k), u \o C!LinesSent(k, text), d, late[c])
    BY <1>1, <2>1, TypeConn
  <2> QED
    BY <1>2, <1>3, <2>1, <2>2, AtOneEnd
<1> QED
    BY <1>4, <1>5, <1>6

LEMMA SysInvStart ==
    ASSUME SysInit
    PROVE  SysInv
<1>1. TypeInv /\ Solid(server) /\ server = Boot
    BY TypeStart DEF TypeInv, SysInit
<1>2. \A c \in Slot : ConnInv(server, c, client[c], up[c], down[c], late[c])
  <2>1. ASSUME NEW c \in Slot
        PROVE  ConnInv(server, c, C!ClientInit, <<>>, <<>>, 0)
    <3>1. server.cid[c] = 0
      BY <1>1 DEF Boot
    <3> QED
      BY <1>1, <3>1, BlankConn
  <2> QED
    BY <2>1 DEF SysInit
<1>3. Plain(server)
    BY <1>1 DEF Plain, Boot, GameReset, Window
<1> QED
    BY <1>1, <1>2, <1>3 DEF SysInv

LEMMA SysInvStep ==
    ASSUME SysInv, ~LeavesOut(server), [SysNext]_sysVars
    PROVE  SysInv'
<1>1. TypeInv'
    BY TypeStep DEF SysInv
<1>2. CASE SysAccept \/ SysStop
    BY <1>1, <1>2, OtherServerStep
<1>3. CASE SysIdle
    BY <1>1, <1>3, IdleStep
<1>4. CASE Tick
    BY <1>1, <1>4, TickStep
<1>5. ASSUME NEW c \in Slot, SysLine(c) PROVE SysInv'
    BY <1>1, <1>5, LineStep
<1>6. ASSUME NEW c \in Slot, SysHangUp(c) PROVE SysInv'
    BY <1>1, <1>6, HangUpStep
<1>7. ASSUME NEW c \in Slot,
             \/ Receive(c) \/ CloseInput(c)
             \/ \E text \in Text : Type(c, text)
      PROVE  SysInv'
    BY <1>1, <1>7, ClientStep
<1>8. CASE UNCHANGED sysVars
    BY <1>1, <1>8 DEF sysVars, SysInv
<1> QED
    BY <1>2, <1>3, <1>4, <1>5, <1>6, <1>7, <1>8 DEF SysNext

----------------------------------------------------------------------------
(* What the players can answer, and what their answers are to. *)

LEMMA OwnQuestion ==
    ASSUME SysInv, NEW c \in Slot, NEW w \in Window,
           Arrived(c, {AnswerTo[w]}), server.game.phase = w
    PROVE  Head(up[c]).question = server.game.roundNumber
<1>1. /\ up[c] # <<>> /\ up[c] \in Seq(UpLine) /\ Head(up[c]).type = AnswerTo[w]
      /\ ConnInv(server, c, client[c], up[c], down[c], late[c])
    BY DEF SysInv, TypeInv, Arrived
<1>2. 1 \in DOMAIN up[c] /\ Head(up[c]) = up[c][1]
    BY <1>1, TailOff
<1>3. ~Dead(server)
    BY DEF Dead, Window
<1>4. InStep(server, c, client[c], up[c], down[c], late[c])
    BY <1>1, <1>3 DEF ConnInv
<1>5. CASE Clock(server) = "off"
  <2>1. Last(server) = Prior[w]
    BY <1>5 DEF Last
  <2>2. AnswerTo[w] \in {AnswerTo[Prior[w]], AnswerTo[Prior[Prior[w]]]}
    BY <1>1, <1>2, <1>4, <2>1, WindowFacts DEF InStep
  <2> QED
    BY <2>2 DEF AnswerTo, Prior, Window
<1>6. CASE Clock(server) # "off"
  <2>1. Last(server) = w
    BY <1>6 DEF Last
  <2> QED
    BY <1>1, <1>2, <1>4, <1>6, <2>1 DEF InStep
<1> QED
    BY <1>5, <1>6

LEMMA AskedOrAnswered ==
    ASSUME SysInv, NEW w \in {"PROMPT", "REWRITE"}, NEW p \in Awaited(w),
           NEW mode, mode = IF w = "PROMPT" THEN "submission" ELSE "title"
    PROVE  CanAnswer(p, mode, AskFor[w], AnswerTo[w])
<1>1. /\ server.game.phase = w /\ Clock(server) # "off" /\ w \in Window
      /\ p \in server.game.round.active /\ p \notin Done(server.game)
    BY DEF Awaited, Clock, PhaseDeadline, Window, Done
<1>2. PICK c : c = ConnectionOf(p)
    OBVIOUS
<1>3. c \in Slot /\ server.game.pid[p] = server.cid[c]
  <2>1. /\ Solid(server) /\ Held(server) /\ server.open \subseteq Slot
        /\ server.cid \in [Slot -> Nat]
    BY SolidFacts DEF SysInv, TypeInv, ServerState
  <2>2. p \in server.game.connected
    BY <1>1, <2>1, Seating DEF Window, InGame, Phase
  <2>3. server.game.pid[p] \in Ids(server)
    BY <2>1, <2>2 DEF Held, Fits, SeatInv
  <2>4. PICK e \in Slot : server.cid[e] = server.game.pid[p] /\ server.cid[e] # 0
    BY <2>3 DEF Ids
  <2>5. e \in server.open
    BY <2>1, <2>4, SolidFacts
  <2> QED
    BY <1>2, <2>1, <2>4, <2>5 DEF ConnectionOf
<1> DEFINE k == client[c]
           u == up[c]
           d == down[c]
<1>4. /\ ConnInv(server, c, k, u, d, late[c])
      /\ u \in Seq(UpLine) /\ d \in Seq(DownLine)
    BY <1>3 DEF SysInv, TypeInv
<1>5. Last(server) = w /\ Owes(server, c) /\ Spoken(server, c) /\ ~Dead(server)
    BY <1>1, <1>3, ClockSpoken DEF Owes
<1>6. /\ InStep(server, c, k, u, d, late[c])
      /\ Known(server, c, k, u, d) /\ Silent(k, u, d)
    BY <1>4, <1>5 DEF ConnInv, Polled
<1>7. CASE Asking(d)
  <2>1. 1 \in DOMAIN d /\ d[1].type = AskFor[w]
    BY <1>4, <1>5, <1>6, <1>7, TailOff DEF InStep, Asking
  <2> QED
    BY <1>2, <2>1 DEF CanAnswer, Lines
<1>8. CASE Has(u, AnswerTo[w])
    BY <1>2, <1>8 DEF CanAnswer, Lines, Has
<1>9. CASE ~Asking(d) /\ WaitFor[w] \in k.flags
  <2>1. k.flags \cap C!Window \subseteq {WaitFor[w]}
    BY <1>5, <1>6, <1>9 DEF InStep
  <2>2. "joined" \in k.flags /\ "awaiting_replay_choice" \notin k.flags
    BY <1>1, <1>6, <1>9, WindowFacts DEF Known, Silent
  <2>3. C!Mode(k) = mode
    BY <1>9, <2>1, <2>2 DEF C!Mode, C!Window, WaitFor
  <2> QED
    BY <1>2, <2>3 DEF CanAnswer
<1>10. Asking(d) \/ WaitFor[w] \in k.flags \/ Has(u, AnswerTo[w])
    BY <1>5, <1>6 DEF InStep
<1> QED
    BY <1>7, <1>8, <1>9, <1>10

LEMMA SysInvAnswers == SysInv => AwaitedCanAnswer /\ AnswersOwnQuestion
<1> SUFFICES ASSUME SysInv PROVE AwaitedCanAnswer /\ AnswersOwnQuestion
    OBVIOUS
<1>1. AwaitedCanAnswer
  <2>1. ASSUME NEW p \in Awaited("PROMPT")
        PROVE  CanAnswer(p, "submission", "PROMPT", "SUBMIT")
    <3>1. AskFor["PROMPT"] = "PROMPT" /\ AnswerTo["PROMPT"] = "SUBMIT"
      BY DEF AskFor, AnswerTo
    <3> QED
      BY <3>1, AskedOrAnswered
  <2>2. ASSUME NEW p \in Awaited("REWRITE")
        PROVE  CanAnswer(p, "title", "TITLE_PROMPT", "TITLE")
    <3>1. AskFor["REWRITE"] = "TITLE_PROMPT" /\ AnswerTo["REWRITE"] = "TITLE"
      BY DEF AskFor, AnswerTo
    <3> QED
      BY <3>1, AskedOrAnswered
  <2> QED
    BY <2>1, <2>2 DEF AwaitedCanAnswer
<1>2. AnswersOwnQuestion
  <2>1. /\ AnswerTo["PROMPT"] = "SUBMIT" /\ AnswerTo["REWRITE"] = "TITLE"
        /\ AnswerTo["VOTING"] = "VOTE" /\ Window = {"PROMPT", "REWRITE", "VOTING"}
    BY DEF AnswerTo, Window
  <2>2. ASSUME NEW c \in Slot, Arrived(c, {"SUBMIT"}), server.game.phase = "PROMPT"
        PROVE  Head(up[c]).question = server.game.roundNumber
    BY <2>1, <2>2, OwnQuestion
  <2>3. ASSUME NEW c \in Slot, Arrived(c, {"TITLE"}), server.game.phase = "REWRITE"
        PROVE  Head(up[c]).question = server.game.roundNumber
    BY <2>1, <2>3, OwnQuestion
  <2>4. ASSUME NEW c \in Slot, Arrived(c, {"VOTE"}), server.game.phase = "VOTING"
        PROVE  Head(up[c]).question = server.game.roundNumber
    BY <2>1, <2>4, OwnQuestion
  <2> QED
    BY <2>2, <2>3, <2>4 DEF AnswersOwnQuestion
<1> QED
    BY <1>1, <1>2

LEMMA SysInvHolds == SysSpec /\ []NobodyLeftOut => []SysInv
<1>1. SysInit => SysInv
    BY SysInvStart
<1>2. SysInv /\ NobodyLeftOut /\ [SysNext]_sysVars => SysInv'
    BY SysInvStep DEF NobodyLeftOut, LeavesOut
<1> QED
    BY <1>1, <1>2, PTL DEF SysSpec

\* As long as no countdown leaves anybody out of a match, whomever the server
\* waits for can give the answer or title it waits for, has been sent the
\* question that will let them, or has sent it.
THEOREM NobodyIsStuck == SysSpec => NobodyStuck
<1>1. SysInv => AwaitedCanAnswer
    BY SysInvAnswers
<1> QED
    BY <1>1, SysInvHolds, PTL DEF NobodyStuck

\* As long as no countdown leaves anybody out, no answer, title or vote that
\* arrives in time for a round was meant for an earlier one.
THEOREM NothingIsMisread == SysSpec => NothingMisread
<1>1. SysInv => AnswersOwnQuestion
    BY SysInvAnswers
<1> QED
    BY <1>1, SysInvHolds, PTL DEF NothingMisread
============================================================================
