------------------------------ MODULE MCServer -----------------------------
(* Instances of Server for TLC. *)
EXTENDS Server

\* The game with players 1 .. k seated under the names of n, in the lobby.
SeatedGame(k, n) ==
    [GameReset EXCEPT !.pid = [p \in Slot |-> IF p <= k THEN p ELSE 0],
                      !.name = [p \in Slot |-> IF p <= k THEN n[p] ELSE NoName],
                      !.connected = 1 .. k,
                      !.joined = 1 .. k]

Seated(k, n) ==
    [Boot EXCEPT !.game = SeatedGame(k, n),
                 !.open = 1 .. k,
                 !.cid = [c \in Slot |-> IF c <= k THEN c ELSE 0],
                 !.nextId = k + 1]

AnyNames == CHOOSE n \in [Slot -> Name] : \A p, q \in Slot : n[p] = n[q] => p = q

\* Everybody has joined, nobody is ready yet.
SeatedSpec == server = Seated(MaxPlayers, AnyNames) /\ [][Next]_vars /\ Fairness

\* All but one have; nothing is asked of the timers.
OneToComeSpec == server = Seated(MaxPlayers - 1, AnyNames) /\ [][Next]_vars

\* Bound: the lobby and the step that leaves it.
InLobby == server.game.phase = "LOBBY"

\* Bound: everybody lets the clocks run out.
QuietMatch ==
    /\ g0.phase = "PROMPT"  => g0.round.submitted = {}
    /\ g0.phase = "REWRITE" => g0.round.rewritten = {}
    /\ g0.phase = "VOTING"  => g0.round.voted = {}
============================================================================
