------------------------------ MODULE MCSystem ------------------------------
(* Instances of System for TLC. *)
EXTENDS System

Texts == {"JOIN", "READY", "y", "n", "ann", "bob", "cyd", "1", "2", "3"}

Names == {"ann", "bob", "cyd"}

\* Bound: of the texts valid as an answer or a title, users type these.
Submissions == Names

Numbers == [t \in Texts |-> CASE t = "1" -> 1 [] t = "2" -> 2 [] t = "3" -> 3 [] OTHER -> 0]

\* Three players have joined and are ready, and all lines have arrived.
FullTable ==
    [Boot EXCEPT
       !.game = [@ EXCEPT !.pid = [p \in Slot |-> p],
                          !.name = <<"ann", "bob", "cyd">>,
                          !.connected = Slot, !.joined = Slot, !.ready = Slot],
       !.open = Slot,
       !.cid = [c \in Slot |-> c],
       !.nextId = 4]

\* Their match has begun.
FullStart ==
    /\ server \in MaybeStartGame(FullTable)
    /\ client = [c \in Slot |->
                   [C!ClientInit EXCEPT !.flags = {"joined", "ready_allowed", "ready_sent"}]]
    /\ up = [c \in Slot |-> <<>>]
    /\ down = [c \in Slot |-> <<>>]
    /\ late = [c \in Slot |-> 0]

\* Bound: with MaxId = 2 at most two players come to the empty table.
EitherSpec == (SysInit \/ FullStart) /\ [][SysNext]_sysVars /\ SysFairness

\* Bound: with two players a match ends when one leaves; who leaves does so
\* before or after it.  Nobody leaves the full table.
LeavesOutsideMatch ==
    server.game.phase \in InGame \/ server.nextId = 4 =>
        \A c \in Slot : client'[c].flags \ client[c].flags # {"stdin_closed"}
============================================================================
