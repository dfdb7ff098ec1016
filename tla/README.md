# Headline party game: a verification in TLA+

The program is a party game for 3 to 5 players: a server (`server.c`) that owns
the match, and terminal clients (`client.c`) that talk to it over TCP, one text
line per message. This directory holds TLA+ modules for the server's game engine
and event loop, its connections, the clients, both ends together, and the
algorithms behind questions and scoreboards; TLC configurations that check them
on small instances; and proofs that hold for every number of players, rounds,
points, connections and buffer sizes.

Contents: 1 the system, 2 the modules and how they correspond to the code,
3 the runs, 4 fairness, 5 the proofs, 6 what the runs found, 7 what is not
modelled, 8 what is left.

## 1. The system

| component | code | state | operations |
|---|---|---|---|
| Round bookkeeping | `round.c`, `round.h` | `round_state_t`: per-player answer, title, vote, prompt, title target; `participant_count`; the revealed entries and their totals; three deadlines | begin, deactivate a player, load and deal prompts, record an answer, title or vote, fill in what is missing, deal titles in a shuffled ring, prepare the vote, the three completion tests |
| Game engine | `game.c`, `game.h` | `game_state_t`: phase, round number, player table (id, name, score, connected, joined, ready, replay choice), the current round | join, ready, start, submit, title, vote, advance the phase, apply a timeout, finish a round, score, disconnect, replay choice, prepare a replay |
| Handlers and timers | `server.c`, `server.h` | `server_state_t`: client table, next player id, one pending action with its time, `shutdown_requested`, the game | one handler per message type, removal of a client, the pending actions (prompts, results, scoreboards, restart), the phase deadline, the play-again lobby, the select loop |
| Transport | `server.c` | per client: input buffer, output buffer, socket | accept, read, split into lines, queue, flush |
| Prompt bank | `round.c`, `question_prompts.txt` | none kept | parse, choose distinct pairs |
| Protocol | `protocol.c` | none | split and validate lines, format replies |
| Game view | `game_view.c` | none (loop variables between sends) | rank the scoreboard, find the winners; what is announced, to whom, in which order and wording |
| Client | `client.c` | `client_state_t`: input mode, what it has been told | react to server lines, turn typed text into messages |
| Build | `Makefile` | | |

**Interaction.** The server is one thread. `select()` either times out, and the
timers run, or reports descriptors; a complete line first runs the timers and
is then dispatched to its handler. Handlers call the engine, announce what
happened, and schedule the next pending action. A phase has two clocks that
follow each other: the *pending action*, which shows the phase's prompts after a
short hold, and the *deadline* of the phase's answer window, which that action
sets. `RESULTS` has only pending actions (results, scoreboard, next round).

**What is hard.** There are no threads, and yet there is interleaving:

- a send that fails removes the client at once, in the middle of a broadcast.
  The removal announces, may advance the phase, end the match, restart it or
  close the lobby, and then returns to a caller that goes on as if nothing had
  happened (`server_remove_client` and its callers);
- answers are accepted as soon as a phase begins, before its prompt is shown, so
  the last answer may move the phase on while the prompt is still pending;
- players leave in any phase: between the deal of the titles and the count of
  the votes, or as the last one everybody waits for;
- a deadline may have passed without the server having noticed when a line
  arrives;
- the prompt bank is read anew for every round and may fail for any of them,
  which leaves the engine half-way into a round or a replay;
- the play-again countdown runs while players change their minds, leave or
  complete the lobby;
- a chunk holds several lines, and the handler of one may free the slot whose
  chunk is being cut up;
- client and server each keep a mode of their own, with lines in flight both
  ways: what was typed for one question may arrive during the next;
- each line of a scoreboard may find players gone, while ranking and winners
  are computed before and after it.

**What makes each part correct.** The round's member set and its hand-kept count
agree with the player table, titles and votes are dealt and counted once
(Round); matches go through their phases in order and end when too few are
left, names are unique, a new match starts level (Game); the match always has
exactly the one clock that moves it on, timers run before lines, the countdown
runs exactly while it is wanted, the server stops only when it should
(Server). Every byte is accounted for in both directions and no buffer overruns
(Transport). Whoever the server waits for can answer, and answers count for the
question they were typed for (Client, System). A bank is judged as a whole, and
no two players get the same question (Prompt bank), in lengths that get through
formatting and parsing (Protocol). The scoreboard ranks and the winners lead
(Game view).

`PROJECT.json` lists the hazards line by line with the properties that cover
them.

## 2. The modules

| module | what it is |
|---|---|
| `Round` | `round.c` as operators on a round record |
| `Game` | `game.c` as operators on a game record; extends `Round` |
| `MatchFlow` | abstract specification: the order of phases and rounds a match promises |
| `Match` | state machine: the engine as the handlers of `server.c` call it |
| `Server` | state machine: `server.c`, with failing sends and nested removals |
| `Transport` | state machine: the connections of `server.c`, byte by byte |
| `Client` | `client.c` as operators on a client record |
| `System` | state machine: `Server` and one `Client` per slot over FIFO channels |
| `Protocol` | `protocol.h`'s limits, and what formatting and parsing make of a length |
| `PromptBank` | state machine: `round.c` loading, shuffling and dealing the questions |
| `Standings` | state machine: `game_view.c`'s loops for scoreboard and winners |
| `MCMatch`, `MCServer`, `MCTransport`, `MCSystem`, `MCLoops` | instances for TLC: symmetry, bounds, scripts, texts, a seated lobby to start from |
| `GameLemmas` | lemmas about the operators of `Round` and `Game`: phases, members, titles; clocks, seats, votes, scores |
| `MatchProofs` | the theorems about `Match`: the flow of a match, its clocks, seats and scores |
| `ServerProofs`, `TimerProofs` | the theorems about the server: tables and countdown; clocks, the flow of matches, late votes and the shutdown |
| `TransportProofs` | the theorems about connections |
| `SystemProofs` | the theorems about server and clients together: what is in flight and what it answers |
| `PromptBankProofs`, `StandingsProofs` | the theorems about judging a bank and dealing from it, about ranking and winning |

`System` extends `Server`, which extends `Game`, which extends `Round`;
`Match` extends `Game`. `Transport` shares no state with `Server`: it leaves open
what a line means and what is announced, `Server` leaves open how a line came
about and where a send failed. `PromptBank` and `Standings` are what `Round`'s
`BankOutcomes` and two broadcasts of `Server` stand for.

**Data.** A per-player boolean of the C structs is a set of slots (`joined`,
`submitted`, `voted`, ...), a per-player value a function on slots. Texts are
abstracted to their presence. The order of the shuffled reveal is abstracted
to the set of owners it lists, because it matters only as the number a voter
types. A shuffle may produce any order. `BankOutcomes` says whether loading the
prompts may succeed, fail or both. A time is `"off"` (0), `"running"` or
`"due"`. In `Transport` a byte is its connection, its place in that peer's
stream and its kind (newline, invalid, other); in `Protocol` and `PromptBank` a
text is its length and whether its characters are allowed.

**Round and Game.** An operation is an operator named after its function
(`HandleJoin` is `game_handle_join`, `LeaveMatch` the part of
`game_handle_disconnect` outside the lobby). Where the code returns an error and
leaves the state alone, the guard is a predicate (`CanVote`, `JoinResult`) and
the operator returns the record unchanged. Operations that call `rand()` or
read the prompt bank return the set of records they may leave. They use no
recursive operators, so they can be proved about.

**Match** has one action per use of the engine: `Join`, `Ready`, `Submit`,
`Rewrite`, `Vote`, `Disconnect`, `ReplayChoice`, `Timeout`, `Finish`,
`PlayAgain`, and `OpenWindow`/`Elapse` for a window that opens and runs out.
Each contains everything the handler does to the engine, including the
`game_advance_phase_if_ready` at its end. Windows may open and time may pass
whenever the phase allows, so what holds of `Match` does not depend on when the
server's timers fire. One step of `Server` may be several of `Match` (a removal
inside a handler), so `Server` is not checked to implement `Match`; both are
checked to implement `MatchFlow`.

**Server** is one record and, since a handler may remove clients half-way,
every C function that changes it is an operator from a state to the set of
states it may leave; `Then` is the semicolon. `Broadcast` serves the clients in
slot order and for each client that is going bad (`flaky`) both succeeds and
fails; a failure calls `RemoveClient`, which broadcasts in its turn. The calls
nest: an operator `FooBy` takes what a removal inside it leads to as a
parameter, `Removals[n]` is a removal with at most `n - 1` others inside it, and
`Foo` is `FooBy` with as many as there are slots. That is enough, since each
removal first frees a slot that was open. Consecutive sends with no state change between them are one
`Broadcast`. The actions are what `select()` may report: `Accept`, `Line`,
`HangUp`, `Idle`, `Stop`, and the environment's `PendingComesDue`,
`DeadlineComesDue`, `GoBad`. `Match` and `Server` use the same `Game`
operators.

**MatchFlow** is the contract of README.md's *Gameplay*: PROMPT, REWRITE,
VOTING, RESULTS, round after round, with a match possibly broken off at any
point and never anything skipped, repeated or reordered. `OpenAndEnd` is for
`Server`, where announcing a round's start may cost it its quorum within one
step; `Match` never takes it.

**Transport** has a table of slots like `server_state_t.clients`, and `task`
says where the single thread is: in `select()`, in the bytes of a chunk, at the
timers a complete line runs, in its handler, or in the shutdown. `recv` takes
any part of what is on the wire up to the chunk size, `send` any part of the
buffer. A handler may answer its client, announce to anybody who has joined, and
free its own slot; `Announce` of a slot that cannot take the message frees that
slot, also the one whose chunk is being read. `Return` then goes on with the
chunk as `server_handle_client_readable` does. History variables (`script`,
`inherited`, `handed`, `queued`) only record.

**Client** is `client_state_t` as a set of flags, the option count and, as
history, the round of the last question. `HandleServerLine` is
`client_handle_server_line`, `Mode` the cascade at the top of
`client_handle_stdin_line`, `HandleStdinLine` and `LinesSent` the rest of it.

**System** adds to each step of `Server` the lines it sends (`PendingLines`,
`JoinLines`), takes `Server`'s requests from the clients' channels, and lets
users type any text in any mode (`Type`) or close their input (`CloseInput`).
Lines that only print at the client (events, results, errors) are not sent.

**PromptBank** reads a bank nobody controls: each line is any header, text,
blank, unknown header or overlong line, decided as it is read. `prompt` holds
the line of a prompt whose fallback is still to come, so that the loader's two
calls of `round_read_next_content_line` are one action with a mode. **Standings**
has one action per turn of each loop of `game_view_broadcast_scoreboard` and
`game_view_broadcast_final_winners`, because between two lines sent the set of
connected players may shrink.

Definitions marked "Mistake" are deliberate errors, one beside each definition
they vary (a dropped guard, a missing reset). Nothing uses them. Putting one in
place of its original breaks the property `PROJECT.json` pairs it with, which
shows that the property depends on that code.

## 3. The runs

Names are interchangeable values, hence the symmetry in the runs that are pure
safety checks from an empty lobby. Where a server run starts with seated players
(`SeatedSpec`, `OneToComeSpec`) names are already dealt, and no symmetry is
used. `CHECK_DEADLOCK FALSE` everywhere: the server really stops (`Stop`,
`Shutdown`), with the ids used up an empty lobby has nothing left to do, and a
scoreboard is done once announced.

Bounds: `MaxId` ids are handed out in all; `MaxFlaky` connections are bad at a
time; `MaxConn` connections come, `MaxMessages` messages are queued for each;
`MaxUp` lines are in flight from a client; a bank has `MaxLines` lines; players
and rounds as listed. The program itself has 3 to 5 players and four rounds.
Most runs use three slots with a minimum of two, so that one may leave without
ending the match and the second to leave does, which is the relation 3-of-5 has.
Runs whose point needs three players who wish to play again and one who does
not use four slots with the minimum of three.

| run | instance | properties | what it shows |
|---|---|---|---|
| `match` | 3 slots, min 2, 4 ids, 2 rounds, bank may fail | `TypeOK`, `SeatsDistinct`, `Quorum`, `RoundMembers`, `TitlesDealt`, `VotesTally`, `AnswerOutstanding`, `OwnClockOnly`, `LevelStart`, `PointsPaidOnce`, `FlowSpec` | in any order of joining, answering, leaving and running out of time, members, clocks, missing answers, titles, votes and points stay in step, and `Match` implements `MatchFlow` |
| `server_fair` | 3 slots, min 2, 2 rounds, any number of matches, no bad connection, fair timers | `TypeOK`, `OneClock`, `CountdownWanted`, `FlowSpec`, `MatchEnds` | clocks, countdown and the flow of matches across replays, and every match ends, whether or not anybody answers |
| `server_replay` | 3 slots, min 2, two seated and one to come, any number of matches of one round, one bad connection, bank may fail | `TablesAgree`, `EnoughWantCountdown`, `OneClockOnceAnswered`, `LateVotesDropped`, `ShutdownJustified` | connections and players agree, nobody who wants another match is forgotten, a match past its questions has its clock, late votes never count, the server stops only when it should |
| `transport` | 2 slots, 2 connections, lines and chunks of up to 2 bytes, 2 messages each | `TypeOK`, `StreamAccounted`, `LinesWhole`, `OutputWhole`, `BuffersFit`, `Drains` | no byte is lost, repeated or reordered in either direction, no buffer overruns, what is queued leaves |
| `system` | 3 slots, min 2, 2 rounds, matches repeat, one line up per client; two players come to the empty lobby, or three have just begun their match | `SysTypeOK`, `NobodyStuck`, `NothingMisread`, `MatchStarts` | as long as no match leaves anybody out, client and server agree on what is asked and for which question an answer is; helpful users get their match |
| `loops` | banks of up to 6 lines, 2 categories, texts at the limits of `protocol.h`; 3 players, 3 scores | `BankTypeOK`, `BankJudged`, `DealtDistinct`, `DealtGetsThrough`, `BoardTypeOK`, `Ranked`, `WinnersLead` | a bank is judged and dealt as it should be; the ranking and the winners are right whoever leaves meanwhile |
| `match_names` | violation | `UniqueNames` | section 6 |
| `match_records` | violation | `RecordsKept` | section 6 |
| `server_lobby` | violation | `ReadyLobbyStarts` | section 6 |
| `server_countdown` | violation | `QuestionsComing` | section 6 |
| `transport_slot` | violation | `StreamIntact` | section 6 |
| `system_vote` | violation | `AwaitedCanVote` | section 6 |

The restrictions matter, and each is there for a reason:

- `FullHouse` (in `match`): another match follows only one that nobody has left;
  a match somebody left is followed to its end, and who has left can be replaced
  in the lobby. Without it the run takes too long; what a leaver leaves
  behind at a replay is the subject of `server_replay`.
- `OneClock`, `CountdownWanted`, `FlowSpec` of the server and `MatchEnds` are
  checked with sends that succeed. With a bad connection at a replay the
  countdown of section 6 is in the way of all four. What is left of `OneClock`
  then, `OneClockOnceAnswered`, needs no restriction and is checked in
  `server_replay`; PROMPT with a bad connection is left to the proofs (section 5).
- `QuietMatch` (in `server_countdown`, `match_names`, `match_records`) lets
  every player run into the deadlines. The subject of these runs lies between
  matches, and what the players answer does not reach it.
- One bad connection at a time covers a removal inside any other handler, and
  since a new connection may go bad once the first is gone, any number in
  sequence. Two at once, where a removal's own broadcast fails again, are not
  covered.
- `transport` has two connections, so that the second can take over the slot of
  the first; lines of two bytes reach the limit, and a buffer of four takes one
  message of two with room and refuses a second. The scripts contain an empty
  line, two lines in one chunk, a byte that is not allowed and too long a line.
- In `system` sends succeed and the bank loads (`Server`'s runs have the
  failures). Its two instances differ in their initial states. With `MaxId = 2`
  two players at most come to the empty lobby; the minimum being two, a match of
  theirs ends as soon as one leaves, so `LeavesOutsideMatch` lets them leave
  before or after it. Three have a full table, which nobody leaves in this run; it
  is what one of three who has not decided, or has said no, needs while the other
  two want the next match. Leaving it is covered by the theorems. The
  constraint `NobodyLeftOut` cuts a behaviour off where a match is about to leave
  somebody out, which is as far as `NobodyStuck` and `NothingMisread` speak of it,
  and long after `MatchStarts` is decided. `Tick` assumes that a
  clock, of four seconds or more, does not run out before what the server sent
  has been received, nor before what a client sent ahead of the last clock that
  ran out has been handled: a line may be overtaken by one clock, not by two.
  The holds after results and scoreboards are excepted (`HoldSpentInPauses`):
  they count from before the server's pauses between lines, during which it
  reads nothing, so several may be over before it reads again.
  Without this assumption an answer delayed for a whole round does count for
  the next round's question, because no line names its question.
- `loops` runs two modules side by side that share nothing; a bank is explored
  while the scoreboard stands still and the other way round. Six lines hold a
  header and two pairs, or pairs under two headers, with a mistake at any
  place; two players of three with a gap between them get two pairs. Three
  scores and three players give every order with and without ties.

## 4. Fairness

- `Server`: `MatchEnds` and `ReadyLobbyStarts` need it. `PendingComesDue` and
  `DeadlineComesDue` are weakly fair because time passes. `Idle` is weakly fair
  because `select()` gets the time to the nearest deadline as its timeout
  (`server_get_select_timeout`), and a line that arrives first runs the same
  timers. `Stop` is weakly fair because the loop tests `shutdown_requested` on
  every turn. Nothing is assumed of players.
- `Transport`: `Drains` needs that the thread goes on with the chunk, handler or
  shutdown it is in (`Proceed`), and that a writable socket is served: the loop
  visits every ready slot in every turn. `Writable` contains that the peer reads;
  a peer that does not is dropped once its buffer is full (`SendFails`). The
  bound on messages matters here: a client that is sent to without end may never
  be seen with an empty buffer.
- `System`: `MatchStarts` needs that connections are accepted, lines handled and
  received (weakly fair: each stays possible until it happens), and that a user
  does what the screen says (`Helpful`, strongly fair, since a line of the
  same client still in flight disables it for a while). All of it is assumed in
  the lobby only, since `MatchStarts` is decided there.

The code does not quite guarantee `Idle`: the timers run when `select()` finds
nothing ready or a line is complete, so a client that keeps sending bytes and
never a newline can hold them off (`server.c:315`). `MatchEnds` is therefore a
statement about connections that pause now and then.

## 5. The proofs

Proved for all constants that satisfy the assumptions below:

| module | theorem | statement |
|---|---|---|
| `MatchProofs` | `TypeCorrect` | `Spec => []TypeOK` |
| `MatchProofs` | `QuorumHolds` | `Spec => []Quorum` |
| `MatchProofs` | `MembersHold` | `Spec => []RoundMembers` |
| `MatchProofs` | `TitlesHold` | `Spec => []TitlesDealt` |
| `MatchProofs` | `ImplementsFlow` | `Spec => FlowSpec` |
| `MatchProofs` | `OwnClockHolds` | `Spec => []OwnClockOnly` |
| `MatchProofs` | `AnswerOutstandingHolds` | `Spec => []AnswerOutstanding` |
| `MatchProofs` | `SeatsHold` | `Spec => []SeatsDistinct` |
| `MatchProofs` | `LevelHolds` | `Spec => []LevelStart` |
| `MatchProofs` | `TallyHolds` | `Spec => []VotesTally` |
| `MatchProofs` | `PointsHold` | `Spec => PointsPaidOnce` |
| `ServerProofs` | `ServerTypeCorrect` | `Spec => []TypeOK` |
| `ServerProofs` | `TablesHold` | `Spec => []TablesAgree` |
| `ServerProofs` | `CountdownRuns` | `Spec => []EnoughWantCountdown` |
| `TimerProofs` | `LateVotesNeverCount` | `Spec => LateVotesDropped` |
| `TimerProofs` | `OneClockAfterQuestions` | `Spec => []OneClockOnceAnswered` |
| `TimerProofs` | `OneClockHolds` | `Spec /\ []QuietLobby => []OneClock` |
| `TimerProofs` | `CountdownAlwaysWanted` | `Spec /\ []QuietLobby => []CountdownWanted` |
| `TimerProofs` | `ServerKeepsFlow` | `Spec /\ []OrderlyLobby => FlowSpec` |
| `TimerProofs` | `FlowKeptWherePromptsLoad` | `Spec => FlowSpec` if `FALSE \notin BankOutcomes` |
| `TimerProofs` | `ShutdownAlwaysJustified` | `Spec => ShutdownJustified` |
| `TransportProofs` | `TypeCorrect` | `Spec => []TypeOK` |
| `TransportProofs` | `NothingLost` | `Spec => []StreamAccounted` |
| `TransportProofs` | `WholeLines` | `Spec => []LinesWhole` |
| `TransportProofs` | `OutputInOrder` | `Spec => []OutputWhole` |
| `TransportProofs` | `BuffersSafe` | `Spec => []BuffersFit` |
| `PromptBankProofs` | `QuestionsApart` | `BankSpec => []DealtDistinct` |
| `PromptBankProofs` | `QuestionsGetThrough` | `BankSpec => []DealtGetsThrough` |
| `PromptBankProofs` | `BankTypeCorrect` | `BankSpec => []BankTypeOK` |
| `PromptBankProofs` | `BankJudgedRight` | `BankSpec => []BankJudged` |
| `StandingsProofs` | `BoardTypeCorrect` | `BoardSpec => []BoardTypeOK` |
| `StandingsProofs` | `ScoreboardRanked` | `BoardSpec => []Ranked` |
| `StandingsProofs` | `WinnersRight` | `BoardSpec => []WinnersLead` |
| `SystemProofs` | `SystemTypeCorrect` | `SysSpec => []SysTypeOK` |
| `SystemProofs` | `NobodyIsStuck` | `SysSpec => NobodyStuck` |
| `SystemProofs` | `NothingIsMisread` | `SysSpec => NothingMisread` |

Assumptions, each named in the module that declares the constant: the prompt
bank has some outcome; `MinPlayers >= 2` (the code has 3); there is a category
for every round, `TotalRounds <= Categories` (both are 4); points, players, ids,
scores and sizes are natural numbers, the output buffer's not 0; the empty name
is not a name; slots are numbers; the texts of a bank are not empty. The last
one of substance is `LimitsAssumption` of `Protocol`: the limits of `protocol.h`
fit each other (a question and its header fit a line, an answer and the longest
category do, an answer fits where a question does). It holds of 128, 120, 96
and 16 with no byte to spare for a question; TLC evaluates it with
these values in `loops`.

**The argument for Match.** None of the invariants is inductive alone. A vote is prepared
when the titles are in, and that succeeds only if some member has an answer; a
title is dealt to the members who have answered, and every later claim about
titles needs that these are all the members. So the induction carries
everything at once, `IInv` of `MatchProofs`, whose part about the game is
`GameInv` of `GameLemmas`:

- the record is well typed;
- in the lobby the round number is 0, so the first round is round 1;
- in a match, the members are the players still connected, their count is the
  one kept by hand, and they are at least the minimum (`Members`);
- from REWRITE on, every member has an answer and holds the title of another
  member's or a former member's answer, no two the same (`Dealt`).

`Members` gives every phase at least two members, so the deal has its two
answers and the vote its one. The code has branches that go straight to the
results when titles cannot be dealt or a vote cannot be prepared; the proof
shows that a match never takes them, which is why it implements `MatchFlow`. The ring is dealt from a bijection between `1..n` and the members, and
"the next in the ring" is shown injective and without fixed points for
`n >= 2`; leaving only removes members from it.

`GameLemmas` shows what each operator of `round.c` does to `RoundState`,
membership and the deal, and that each operator of `game.c` preserves
`GameInv` and relates the phases before and after it as `MatchFlow` allows;
`MatchProofs` has one lemma per action.

The theorems on clocks add `OnTime` to the invariant: the two properties themselves,
said of a game record. That no foreign clock is set is inductive given `IInv`.
That an answer is outstanding is not kept by the first half of a step (an answer
recorded, a player gone, the missing ones filled in), but is restored by the
second: `AdvanceOnTime` shows that `game_advance_phase_if_ready` leaves any game
with the invariant and its own clock on time. It needs `Members` once more,
because the completion tests say no of a round whose count is zero.

**Seats and scores.** `SeatInv` says that ids are never reused and that everyone
connected holds one of those dealt, `ScoreInv` that a vote stands for an entry
that was on the ballot and that each total counts the votes for its owner; both
are inductive once `IInv` is. What remains is arithmetic. The scores of a round
are paid player by player, while `PointsPaidOnce` speaks of their sum. `SumsStep`
takes the sums apart one slot at a time, `RoundPays` adds the votes up the same
way, and both go by induction on the slots. The library states induction with
an operator for a parameter; `CountUp` replaces it by a set that contains 0
and with each number the next, which follows from the library's
least-element principle.

**Server.** A removal may take place in the middle of any handler and contain
others, so the proof speaks of single steps inside a handler and not only of
the states between two. `Sane` holds at all of them: the tables agree, a pending
action has a time, and the game keeps its invariants, save that while a next
round which could not be set up is being announced its round is wiped
(`Wiped`). `Follows` relates the state before a send to the one after it: it is
`Sane`, the players have not become more (`Shrinks`), and either nothing else
has changed or the countdown is `Settled`. `Follows` is transitive, so a
broadcast follows if its removals do (`BroadcastFollows`), so does each
operator that sends (one lemma each), so does a removal whose inner removals do
(`RemoveFollows`), and `RemovalDoes` concludes by induction on the depth that
every removal does.

Between two handlers the state is `Good`: `Sane` and `Settled`. A pending
action starts by clearing itself, which may leave the countdown unsettled
if it was the countdown; for every other one nobody waits for a match
(`Calm`: too few do, or the server is shutting down), and then every send leaves
it so. `CountdownRuns` is `Settled` said of the server, and it is the property a
removal inside an announcement was most likely to break: the outer call goes on
to schedule the countdown after the inner one has dealt with it.

**Clocks.** `Follows` says nothing of the phase. `Course` does: a call that
sends, with all the removals it may contain, leaves a match where it was
(`Kept`), breaks it off (`Over`), moves it to the next phase (`Moved`) or, from
the play-again lobby, begins the next match (`Again`). As with `Follows`
there is one lemma for each operator that sends, and `RemovalDoes` for the nesting;
`Leads` is both relations together. What makes the four cases all there are is
that a phase begins `Fresh`, with no member's answer in it: were it not,
the removals of a single broadcast could complete phase after phase, each
scheduling its own action over the other's. The relation of a whole line is
`Handled`, of a timer `Passes` or, when the next round may begin, `Ticks`, and of
a step of the loop, which is timers and then a line, `Turns`: at most one of the
two moves the match, because the second finds it fresh.

The invariant is `TimerInv`: `Good`, and a running match waits for the action
that belongs to its phase or for its deadline (`Timed`). It leaves one gap. A
match that begins while a connection is bad may find its question replaced by
the countdown of the lobby it left, the case of `server_countdown`. So the
theorem for all phases takes a hypothesis on the behaviour, and it is as weak as
that case allows: while somebody waits for another match no connection
is bad (`QuietLobby`). Before and during a match any number may be.
The property that needs no hypothesis is `OneClockOnceAnswered`.

The flow needs a hypothesis of its own, which concerns the bank only. If a send
of the results board ends the match, `server_run_round_results_action` still
schedules the scoreboard; if a replay then fails on the bank, the lobby is open
with that scoreboard pending, and its action ends the game from there, which
`MatchFlow` does not allow (`OrderlyLobby` excludes it). Where the
bank never fails the lobby is only entered at the start and nothing is pending in
it (`Idles`), so that `FlowSpec` holds however sends fail.

`LateVotesDropped` holds without hypothesis: the timers of a step close a due
vote whatever was pending, since `Timed` says that nothing is pending while a
deadline is set, and no handler changes the totals once the vote is closed.

**The shutdown.** `ShutdownJustified` needs no hypothesis either. `Closes`
relates the states before and after anything that sends: a lobby without hope
(`Hopeless`: the match is over and too few may want another) stays without,
nobody refuses who has not refused before, and the server is asked to stop only
where there is no hope. It is transitive and goes through the nested removals as
`Follows` does. A line may undo what `Closes` keeps, by one thing only: a REPLAY
that says yes where the answer stood at no. So a handler `Settles` matters (it
asks the server to stop only where there is no hope, but may give hope back),
and `DispatchEnds` shows that hope lost in the timers of a step is still lost at
its end unless its line is such a REPLAY. That is the exception `LateYes`
states: the line of a player who takes its refusal back, read in the step whose
timers have closed the lobby. It comes too late for the server, which stops with
a lobby that has hope again.

**Transport.** The invariant is a statement about one slot, for each slot, and
about the thread. A step disturbs the slot it works on and leaves the others;
so there is one lemma per thing that can happen to a slot (a chunk taken, a byte
stored, a line handed on, a message queued and partly sent, the slot freed), and
the actions cite them. The slot's statement (`SlotInv`) takes the rest of the
chunk as a parameter, because a step of the thread moves bytes between chunk and
buffer; it is inductive with what `TypeOK` says of freed slots, which have
neither output nor peer, and with the thread holding no bytes while it is in
`select()` or shutting down. A chunk may outlive its client: the bytes then
stored for the freed slot are what the next connection finds as `inherited`, so
that a buffer holds no newline has to be kept for freed slots too.

**Prompt bank.** Three facts are kept from reading to dealing: no two of
the pairs collected end on the same line of the file; the deck
is a permutation of their indices, since each turn of the shuffle exchanges two
cards; and the n-th active player gets the n-th card, with
`Cardinality({q \in players : q <= p})` shown injective on players.
That the bank is judged as its reference definition says (`BankJudged`) needs to
know, for the lines read so far, that each is fine, which header they stand
under, and that a prompt waits for its fallback exactly while the content lines
of the file are odd in number (`Sections`, `Judging`). The lengths
of `DealtGetsThrough` come from `PromptValid` and `SubmissionValid`, which held
when the pair was collected, and `LimitsAssumption`.

**Scoreboard.** One conjunct of the invariant per loop: what the places hold
while collecting (`Collecting`), that nobody has two places and everybody
connected has one (`Distinct`, `AllPlaced`), that the places before `i` are in order and above the rest
and place `i` above those before `j` (`Sorting`), what `best`, `count` and
`named` are after the first `i - 1` records (`Scanning`, `Naming`). Players who
leave while lines are sent stay in `order`; the conjuncts speak of all places,
and of `connected` only where the loops read it. The winners' loops send
nothing, so `connected` stands still from the first of them to the announcement.

**Server and clients.** `AwaitedCanAnswer`, of which `NobodyStuck` speaks,
relates a client's mode and both of its channels to what the server waits for,
and no part of it is inductive: an answer is in flight because it was typed,
typed because the client was in the mode, in the mode because a question came.
The invariant `SysInv` says all of it about one connection at a time. With `w`
the window the server opened last and `v` the one before (`Last`, `Prior`), the
channel to the server holds answers to `v` and `w` only, those to `v` first; the
channel to the client holds one question at most, at its head, and then it is
`w`'s; the client waits for `w`, or for `v` if the question is still on its way;
what names a round names the current one; and a player who owes `w` an answer
has the question in its channel, waits for it at the client, or has answered
(`InStep`). When a window closes, its answers still in flight become answers to
`v`. That none survives a second window is where the assumption on `Tick`
enters: `late` counts them, and no clock runs out while some are left. A window
that closes early is the other case. It closes because everybody has answered,
and an answer of a connection is behind its older ones in the same channel
(`EndsCarries`). `Polled` follows the play-again question in the same way: it is
in the channel, open at the client or answered, once, and gone before the server
asks again. `Plain` is what is needed of the server alone between two of its
steps, among it that everybody with a player id is seated.

A server step is then seen from one connection. One that leaves the windows alone
(`Rests`) or closes one (`Ends`) carries the statement over as it is (`Carries`);
one that sends carries it over with its lines appended (`Gets`, `Shows`); the
connection whose line is handled loses the line (`Taken`, `Served`). There is a
lemma for each handler and each pending action, and one per line a client may
receive or send. What the server does between is not proved again: where no send
fails, the relations of `TimerProofs` say which phases and clocks a step may lead
to (`Solid`).

The hypothesis `NobodyLeftOut` says that the play-again countdown does not run
out. It is cut short when all who are connected want the match, and cancelled
when too few do; if it runs out, somebody who is connected is left out of the
next match. `NobodyStuck` and `NothingMisread` have it as their hypothesis. So
stated they also hold of every behaviour up to the moment at which the
hypothesis first fails: no fairness is involved, so such a beginning with
nothing after it is a behaviour itself. Without the hypothesis
`AwaitedCanAnswer` is false with three players or more (section 6).

**Only model-checked.** Liveness under fairness (`MatchEnds`, `Drains`,
`MatchStarts`) is beyond the prover.

## 6. What the runs found

- **A ready lobby that does not start** (`server_lobby`). README.md:83 says the
  game begins once enough have joined and everyone is ready. The test is made
  only after an accepted READY. When the one player who is not ready leaves,
  those who stay are all ready and cannot say so again.
- **Two players with one name** (`match_names`). README.md:76 speaks of unique
  names. The check skips connected players who are not seated, and a restart
  that fails on the prompt bank leaves such players in an open lobby. A
  newcomer may take such a name, and the next replay seats both.
- **A player without a record** (`match_records`). `server.c` calls it a "server
  state error" if a connection that has joined has no player. The same failed
  restart brings it about: the record of a connected player who sat out counts
  as an open slot, and the next newcomer is given it. The player who sat out stays
  connected, is asked whether it wants to play again, and is refused.
- **A countdown over a running match** (`server_countdown`). The announcement of
  the play-again countdown may remove the last undecided player, which restarts
  the match inside the call. The outer call then schedules its countdown over
  the match's first question. The match sits in PROMPT without a question or a
  deadline.
- **The next client inherits a line's beginning** (`transport_slot`). A broadcast
  in a client's own handler may fail for that client and remove it. The handler
  still returns 0, and the rest of the chunk is stored in the freed slot's input
  buffer, which `server_accept_client` does not clear. `StreamAccounted` and
  `LinesWhole`, which hold, say that nothing else is lost or mixed and that one
  line at most is spoilt.
- **A refused vote cannot be repeated** (`system_vote`). The client leaves its
  vote mode when it sends a vote. The server refuses a vote for the entry the
  voter titled and goes on waiting, but the client takes no other.

The proofs met three more that are not runs of their own. One is the scoreboard
pending in the lobby of section 5, *Clocks*; one is the change of mind that
`ShutdownJustified` excepts: it may come in the very step whose timers close the
lobby, and the server stops on players who would be enough. The third needs three
players, of whom the minimum wants another match, and is why `NobodyStuck` has a
hypothesis:

- **A late "yes" spoils the next match.** The play-again countdown runs out while
  one player has not answered; the others start a match, and that player's
  question stays open at its client. It answers "yes" as that match ends, and
  `server_handle_replay_line` counts the answer, because the phase is OVER again
  and the player still has its slot. The second play-again question is sent in
  the same step, so the client asks again although its player has been counted,
  and the next match may begin without the second answer. The player is in it,
  but since a replay choice comes before an answer in `client_handle_stdin_line`,
  its next line is not sent as the answer the server waits for.
  TLC finds this in an instance of `System` with three slots and a minimum of two.

`PROJECT.json` gives the lines. Its hazards without a property are each there
with the reason: nothing in the repository says what ought to happen (a match
that ends for lack of players never asks who wants to play again, a farewell
ERROR line may overtake what is buffered), or the model abstracts from what they
turn on (wording, wall-clock time, stdio's buffering).

## 7. Not modelled

- Game view: the round results, the texts of the vote and all wording and
  layout. They are formatting without decisions a property could be about;
  that their sends may fail is in `Server`.
- Protocol: cutting a line into characters and fields. What it yields is
  `Message` in `Server`, lengths in `Protocol`, and in `System` the request a
  client's line makes.
- Sockets other than as queues of bytes, signals, the rejection of a connection
  when the table is full (it touches no slot), `malloc` (a failure is a bank that
  cannot be read).
- The client's screen, and lines that only print.
- The read-only getters of `game.c` and `round.c`.
- The build, which has no behaviour.

Sends that share a state are one broadcast in `Server`; `Standings` takes the
scoreboard's apart.

## 8. What is left

1. What `NobodyStuck` and `NothingMisread` say, also after a countdown that ran out on
   players who had all decided. Whoever said no is then connected without a
   seat, which `Plain` would have to allow for; nothing of theirs is in
   flight.
2. `System` with sends that fail.
3. `Transport` under `System` in place of its channels: `StreamAccounted` and
   `OutputWhole` say that they behave as channels except for the slot of
   section 6.
