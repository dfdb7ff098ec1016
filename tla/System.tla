------------------------------- MODULE System -------------------------------
(***************************************************************************)
(* Server and clients together: what the server asks of its players and    *)
(* what the players can answer.                                            *)
(*                                                                         *)
(* Every connection is two FIFO channels of lines.  Lines that only print  *)
(* at the client are not sent.  No send fails here (Server covers that);   *)
(* players leave by closing their input.                                   *)
(***************************************************************************)
EXTENDS Server, Sequences

CONSTANTS
    Text, Submission, OptionNumber,   \* see Client
    MaxUp                             \* bound: lines in flight from a client

ASSUME MaxUpAssumption == MaxUp \in Nat \ {0}

ASSUME TextAssumption ==
    /\ Name \subseteq Submission /\ Submission \subseteq Text
    /\ OptionNumber \in [Text -> Nat]

VARIABLES
    client,   \* the program at the other end of each slot's connection
    up,       \* lines on their way to the server
    down,     \* lines on their way to the client
    late      \* how many lines of up the last clock that ran out overtook

C == INSTANCE Client WITH Username <- Name

sysVars == <<server, client, up, down, late>>

SysInit ==
    /\ server = Boot
    /\ client = [c \in Slot |-> C!ClientInit]
    /\ up = [c \in Slot |-> <<>>]
    /\ down = [c \in Slot |-> <<>>]
    /\ late = [c \in Slot |-> 0]

----------------------------------------------------------------------------
(* What the server sends.                                                  *)

\* The owner of the entry shown as this option, NoSlot if there is none.
OptionOwner(g, option) ==
    LET before(p) == {q \in g.round.reveal : q < p}
        owners == {p \in g.round.reveal : Cardinality(before(p)) = option - 1}
    IN  FirstSlot(owners)

\* A line as Server's handlers take it.
Request(g, m) ==
    IF m.type = "VOTE"
    THEN [type |-> "VOTE", option |-> OptionOwner(g, m.option)]
    ELSE m

\* What connection d is sent when a pending action has led to state t: to
\* seated players only, each its own prompt.
Seated(t, d) == SlotOf(t.game, t.cid[d]) \in Joined(t.game)

QuestionLines(t, d) ==
    IF Seated(t, d) /\ SlotOf(t.game, t.cid[d]) \in t.game.round.prompted
    THEN <<[type |-> "PROMPT", question |-> t.game.roundNumber]>>
    ELSE <<>>

TitleLines(t, d) ==
    IF Seated(t, d) /\ t.game.round.target[SlotOf(t.game, t.cid[d])] # NoSlot
    THEN <<[type |-> "TITLE_PROMPT", question |-> t.game.roundNumber]>>
    ELSE <<>>

VoteLines(t, d) ==
    IF Seated(t, d) /\ t.game.round.reveal # {}
    THEN <<[type |-> "VOTE_OPEN", options |-> Cardinality(t.game.round.reveal),
            question |-> t.game.roundNumber]>>
    ELSE <<>>

\* The play-again question goes to everybody who has a player id.
ReplayLines(t, d) == IF t.cid[d] > 0 THEN <<[type |-> "PLAY_AGAIN"]>> ELSE <<>>

PendingLines(s, t, d) ==
    CASE s.pending = "QUESTION_PROMPT" -> QuestionLines(t, d)
      [] s.pending = "TITLE_PROMPT"    -> TitleLines(t, d)
      [] s.pending = "VOTING_PROMPT"   -> VoteLines(t, d)
      [] s.pending = "GAME_OVER"       -> ReplayLines(t, d)
      [] OTHER                         -> <<>>

TimerLines(s, t, d) ==
    IF s.pending # "NONE" /\ s.clock # "running" THEN PendingLines(s, t, d) ELSE <<>>

\* When c's JOIN is accepted: the welcome, and to all players the roster once
\* enough have joined.
RosterLines(t, d) ==
    IF t.cid[d] > 0 /\ JoinedCount(t.game) >= MinPlayers
    THEN <<[type |-> "LOBBY_ROSTER"]>> ELSE <<>>

\* Mistake: only the newcomer gets the roster.
JoinLinesNewcomer(t, c, d) ==
    IF d = c THEN <<[type |-> "WELCOME"]>> \o RosterLines(t, d) ELSE <<>>

JoinLines(t, c, d) ==
    (IF d = c THEN <<[type |-> "WELCOME"]>> ELSE <<>>) \o
    RosterLines(t, d)

RequestLines(s, t, c, m, d) ==
    IF m.type = "JOIN" /\ c \in t.open /\ t.game # s.game
    THEN JoinLines(t, c, d) ELSE <<>>

----------------------------------------------------------------------------
(* The server's steps, with what they send.                                *)

\* The connections of S are over; the next client starts anew.
Gone(S, f, blank) == [c \in Slot |-> IF c \in S THEN blank ELSE f[c]]

Deliver(lines) ==
    down' = [d \in Slot |-> IF d \in server'.open THEN down[d] \o lines[d] ELSE <<>>]

\* c's oldest line has been taken off its channel; closed connections reset.
Consume(c) ==
    LET closed == Slot \ server'.open
        taken(f) == [f EXCEPT ![c] = Tail(@)]
    IN  /\ client' = Gone(closed, client, C!ClientInit)
        /\ up' = Gone(closed, taken(up), <<>>)
        /\ late' = Gone(closed, [late EXCEPT ![c] = IF @ > 0 THEN @ - 1 ELSE 0], 0)

Arrived(c, types) == up[c] # <<>> /\ Head(up[c]).type \in types

Requests == {"JOIN", "READY", "REPLAY", "SUBMIT", "TITLE", "VOTE"}

SysLine(c) ==
    /\ server.running /\ c \in server.open
    /\ Arrived(c, Requests)
    /\ \E a \in RunPendingIfDue(server) : \E t \in EnforceDeadline(a) :
         LET m == Request(t.game, Head(up[c])) IN
         /\ server' \in Dispatch(t, c, m)
         /\ Deliver([d \in Slot |-> TimerLines(server, a, d)
                                   \o RequestLines(t, server', c, m, d)])
    /\ Consume(c)

SysHangUp(c) ==
    /\ Arrived(c, {"EOF"})
    /\ HangUp(c)
    /\ Deliver([d \in Slot |-> <<>>])
    /\ Consume(c)

SysIdle ==
    /\ Idle
    /\ \E a \in RunPendingIfDue(server) :
         /\ server' \in EnforceDeadline(a)
         /\ Deliver([d \in Slot |-> TimerLines(server, a, d)])
    /\ UNCHANGED <<client, up, late>>

\* Bound: nobody connects who could not join.
SysAccept ==
    /\ Cardinality({c \in server.open : server.cid[c] = 0}) <= MaxId - server.nextId
    /\ Accept
    /\ UNCHANGED <<client, up, down, late>>

\* The clients of a server that stops are left to themselves.
SysStop == Stop /\ UNCHANGED <<client, up, down, late>>

\* The server pauses between the lines of results and scoreboards, reading
\* nothing, and the hold that follows counts from before the pauses.
HoldSpentInPauses ==
    \/ server.pending \in {"SCOREBOARD", "FINAL_SCOREBOARD", "GAME_OVER"}
    \/ server.pending = "QUESTION_PROMPT" /\ server.game.roundNumber > 1

\* The environment: time passes.  Assumed: a clock (4 s and more) does not
\* run out before what the server sent has been received, nor, unless its
\* time went by in pauses, before what a client sent before the last clock
\* ran out has been handled.
Tick ==
    /\ \A c \in Slot : down[c] = <<>>
    /\ HoldSpentInPauses \/ \A c \in Slot : late[c] = 0
    /\ PendingComesDue \/ DeadlineComesDue
    /\ late' = [c \in Slot |-> Len(up[c])]
    /\ UNCHANGED <<client, up, down>>

----------------------------------------------------------------------------
(* The clients' steps.                                                     *)

Connected(c) == server.running /\ c \in server.open

Receive(c) ==
    /\ Connected(c) /\ down[c] # <<>>
    /\ client' = [client EXCEPT ![c] = C!HandleServerLine(@, Head(down[c]))]
    /\ down' = [down EXCEPT ![c] = Tail(@)]
    /\ UNCHANGED <<server, up, late>>

\* The user types a line that is of use; other input changes only the screen.
Type(c, text) ==
    LET k == client[c] IN
    /\ Connected(c) /\ "stdin_closed" \notin k.flags
    /\ text \in C!Accepted(k) /\ Len(up[c]) < MaxUp
    /\ client' = [client EXCEPT ![c] = C!HandleStdinLine(k)]
    /\ up' = [up EXCEPT ![c] = @ \o C!LinesSent(k, text)]
    /\ UNCHANGED <<server, down, late>>

\* The user closes the input: shutdown(fd, SHUT_WR).
CloseInput(c) ==
    /\ Connected(c) /\ "stdin_closed" \notin client[c].flags
    /\ Len(up[c]) < MaxUp
    /\ client' = [client EXCEPT ![c].flags = @ \cup {"stdin_closed"}]
    /\ up' = [up EXCEPT ![c] = Append(@, [type |-> "EOF"])]
    /\ UNCHANGED <<server, down, late>>

SysNext ==
    \/ SysAccept \/ SysIdle \/ SysStop \/ Tick
    \/ \E c \in Slot :
         \/ SysLine(c) \/ SysHangUp(c) \/ Receive(c) \/ CloseInput(c)
         \/ \E text \in Text : Type(c, text)

\* A user who does what the screen says, under a name nobody else has.
Helpful(c) ==
    /\ C!Mode(client[c]) \in {"join", "username", "ready"}
    /\ \E text \in C!Accepted(client[c]) :
         /\ C!Mode(client[c]) = "username" =>
              \A p \in server.game.joined : server.game.name[p] # text
         /\ Type(c, text)

\* In the lobby, lines arrive and are handled, and users come and join and get
\* ready.  Strong fairness for them, because their own lines in flight disable
\* them.
SysFairness ==
    LET lobby == server.game.phase = "LOBBY"
    IN  /\ WF_sysVars(lobby /\ SysAccept)
        /\ \A c \in Slot : /\ WF_sysVars(lobby /\ SysLine(c))
                           /\ WF_sysVars(lobby /\ Receive(c))
                           /\ SF_sysVars(lobby /\ Helpful(c))

SysSpec == SysInit /\ [][SysNext]_sysVars

----------------------------------------------------------------------------
(* Properties.                                                             *)

SysTypeOK ==
    /\ server \in ServerState
    /\ client \in [Slot -> C!ClientState]
    /\ late \in [Slot -> Nat]
    /\ DOMAIN up = Slot /\ DOMAIN down = Slot

\* The connection of player p.
ConnectionOf(p) == CHOOSE c \in server.open : server.cid[c] = server.game.pid[p]

\* Whom the server still waits for while the window w is open.
Awaited(w) ==
    LET r == server.game.round
        missing == CASE w = "PROMPT"  -> r.active \ r.submitted
                     [] w = "REWRITE" -> r.active \ r.rewritten
                     [] w = "VOTING"  -> r.active \ r.voted
    IN  IF server.running /\ server.game.phase = w /\ r.deadline[w] # "off"
        THEN missing ELSE {}

Lines(f, c) == {f[c][i].type : i \in DOMAIN f[c]}

\* The client of a player will take a typed line for what the server waits
\* for, or is about to learn that it should, or has sent it.
CanAnswer(p, mode, asked, answer) ==
    LET c == ConnectionOf(p) IN
    \/ C!Mode(client[c]) = mode
    \/ asked \in Lines(down, c)
    \/ answer \in Lines(up, c)

\* The replay countdown never runs out: every match after the first is begun by
\* the last of its players to want it, with nobody left out of it (game.c:1073).
NobodyLeftOut == ~(server.pending = "REPLAY_START" /\ server.clock = "due")

\* The client of a player whose answer or title the server waits for is ready
\* to send it.
AwaitedCanAnswer ==
    /\ \A p \in Awaited("PROMPT") : CanAnswer(p, "submission", "PROMPT", "SUBMIT")
    /\ \A p \in Awaited("REWRITE") : CanAnswer(p, "title", "TITLE_PROMPT", "TITLE")

\* README.md, Gameplay: "Each player receives a prompt and submits an
\* answer", and is "shown another player's content and writes a funny
\* headline".  As long as no match leaves anybody out, whomever the server waits
\* for can give it what it waits for, whatever was typed too early, missed or
\* overtaken by a clock before.  Somebody left out of a match may answer "yes"
\* just as it ends, be asked again all the same, and sit in the next match with a
\* client that takes the answer for a replay choice (client.c:624).
NobodyStuck == []NobodyLeftOut => []AwaitedCanAnswer

\* README.md:96: "Players vote for the funniest result."
AwaitedCanVote ==
    \A p \in Awaited("VOTING") : CanAnswer(p, "vote", "VOTE_OPEN", "VOTE")

\* An answer, title or vote that the server could take now was typed for the
\* current round's question.
AnswersOwnQuestion ==
    \A c \in Slot :
        LET m == Head(up[c]) IN
        /\ Arrived(c, {"SUBMIT"}) /\ server.game.phase = "PROMPT"
             => m.question = server.game.roundNumber
        /\ Arrived(c, {"TITLE"}) /\ server.game.phase = "REWRITE"
             => m.question = server.game.roundNumber
        /\ Arrived(c, {"VOTE"}) /\ server.game.phase = "VOTING"
             => m.question = server.game.roundNumber

\* As long as no match leaves anybody out, an answer, title or vote still on its
\* way when its round ends is never taken for a later round.  No line names its
\* round: only the phase (game.c:269, 308, 346) and time keep them apart.
NothingMisread == []NobodyLeftOut => []AnswersOwnQuestion

\* README.md:83: "Once enough players have joined and everyone is ready, the
\* game begins": with users who do what their screens say it always comes to
\* that, unless one of them leaves.
MatchStarts ==
    <>(server.game.phase # "LOBBY" \/ \E c \in Slot : "stdin_closed" \in client[c].flags)
============================================================================
