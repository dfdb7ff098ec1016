------------------------------- MODULE Round -------------------------------
(***************************************************************************)
(* round.c: the bookkeeping of one round, as operators on a round record.  *)
(*                                                                         *)
(* A per-player boolean of round_player_state_t is a set of slots here     *)
(* (active, submitted, rewritten, voted), a per-player index is a function *)
(* on slots.  Texts are abstracted to their presence: "prompted" is the    *)
(* set of players that hold a prompt and its fallback answer.  The order   *)
(* of the reveal matters only as the number a voter types, so the reveal   *)
(* is the set of owners it lists.  An operator that fails in the code      *)
(* (returns false and changes nothing) is guarded by a predicate of its    *)
(* own, or yields no outcome.                                              *)
(***************************************************************************)
EXTENDS Naturals, FiniteSets, Functions

CONSTANTS
    MaxPlayers,    \* PROTOCOL_MAX_PLAYERS
    BankOutcomes   \* what loading question_prompts.txt may yield

ASSUME MaxPlayersAssumption == MaxPlayers \in Nat
ASSUME BankAssumption == BankOutcomes # {} /\ BankOutcomes \subseteq BOOLEAN

Slot == 1 .. MaxPlayers
NoSlot == 0                              \* ROUND_NO_TARGET, ROUND_NO_VOTE

\* A deadline of 0, one in the future, one that time(NULL) has reached.
Timer == {"off", "running", "due"}

\* The phases that have an answer window, each with a deadline.
Window == {"PROMPT", "REWRITE", "VOTING"}

RoundState ==
    [on           : BOOLEAN,
     participants : Nat,
     active       : SUBSET Slot,
     prompted     : SUBSET Slot,
     submitted    : SUBSET Slot,
     rewritten    : SUBSET Slot,
     voted        : SUBSET Slot,
     target       : [Slot -> Slot \cup {NoSlot}],
     votedFor     : [Slot -> Slot \cup {NoSlot}],
     totals       : [Slot -> Nat],
     reveal       : SUBSET Slot,
     deadline     : [Window -> Timer]]

RoundReset ==
    [on           |-> FALSE,
     participants |-> 0,
     active       |-> {},
     prompted     |-> {},
     submitted    |-> {},
     rewritten    |-> {},
     voted        |-> {},
     target       |-> [p \in Slot |-> NoSlot],
     votedFor     |-> [p \in Slot |-> NoSlot],
     totals       |-> [p \in Slot |-> 0],
     reveal       |-> {},
     deadline     |-> [w \in Window |-> "off"]]

----------------------------------------------------------------------------
(* Membership and prompts.                                                 *)

\* A fresh round in which exactly the players of S are active.
RoundBegin(S) ==
    [RoundReset EXCEPT !.on = TRUE,
                       !.active = S,
                       !.participants = Cardinality(S)]

\* Mistake: participant_count is not kept.
DeactivateUncounted(r, p) ==
    [r EXCEPT !.active = @ \ {p}, !.target[p] = NoSlot]

\* A player who leaves loses the entry it was to title.
Deactivate(r, p) ==
    IF p \notin r.active
    THEN r
    ELSE [r EXCEPT !.active = @ \ {p},
                   !.target[p] = NoSlot,
                   !.participants = IF @ > 0 THEN @ - 1 ELSE 0]

\* Loading fails when the bank cannot be opened, is malformed or holds fewer
\* pairs than there are players.
PromptsMayFail(r) == FALSE \in BankOutcomes \/ ~r.on \/ r.participants = 0

PromptsMayLoad(r) == TRUE \in BankOutcomes /\ r.on /\ r.participants > 0

AssignPrompts(r) == [r EXCEPT !.prompted = r.active]

----------------------------------------------------------------------------
(* Answers.                                                                *)

CanSubmit(r, p) == r.on /\ p \in r.active /\ p \notin r.submitted

RecordSubmission(r, p) == [r EXCEPT !.submitted = @ \cup {p}]

ApplyMissingFallbacks(r) ==
    [r EXCEPT !.submitted = @ \cup {p \in r.prompted : CanSubmit(r, p)}]

AllSubmitted(r) ==
    r.on /\ r.participants # 0 /\ r.active \subseteq r.submitted

----------------------------------------------------------------------------
(* Titles.                                                                 *)

\* Every order the shuffle of a set of slots may produce.
Shuffles(S) == Bijection(1 .. Cardinality(S), S)

\* Mistake: the ring is not closed.
NextInOpen(s, n, p) ==
    LET i == CHOOSE k \in 1 .. n : s[k] = p
    IN  s[IF i = n THEN n ELSE i + 1]

\* The slot after p in the shuffled order, the first one after the last.
NextIn(s, n, p) ==
    LET i == CHOOSE k \in 1 .. n : s[k] = p
    IN  s[IF i = n THEN 1 ELSE i + 1]

\* The rounds target assignment may produce, none if fewer than two answers
\* are in: each player titles the entry of the next one in a shuffled ring.
AssignRewriteTargets(r) ==
    LET dealt == r.active \cap r.submitted
        n     == Cardinality(dealt)
    IN  {[r EXCEPT !.rewritten = @ \ dealt,
                   !.target = [p \in Slot |-> IF p \in dealt
                                              THEN NextIn(s, n, p)
                                              ELSE @[p]]] :
           s \in {t \in Shuffles(dealt) : r.on /\ r.participants >= 2 /\ n >= 2}}

CanRewrite(r, p) ==
    r.on /\ p \in r.active /\ p \notin r.rewritten /\ r.target[p] # NoSlot

RecordRewrite(r, p) == [r EXCEPT !.rewritten = @ \cup {p}]

ApplyMissingRewrites(r) ==
    [r EXCEPT !.rewritten = @ \cup {p \in Slot : CanRewrite(r, p)}]

AllRewritten(r) ==
    r.on /\ r.participants # 0 /\ r.active \subseteq r.rewritten

\* The first active player whose target is this entry.
TitleWriter(r, owner) ==
    LET writers == {p \in r.active : r.target[p] = owner}
    IN  IF \E p \in writers : \A q \in writers : p <= q
        THEN CHOOSE p \in writers : \A q \in writers : p <= q
        ELSE NoSlot

----------------------------------------------------------------------------
(* Votes.                                                                  *)

CanPrepareVoting(r) ==
    r.on /\ r.participants > 0 /\ r.active \cap r.submitted # {}

PrepareVoting(r) ==
    [r EXCEPT !.reveal = r.active \cap r.submitted,
              !.totals = [p \in Slot |-> 0],
              !.voted = {},
              !.votedFor = [p \in Slot |-> NoSlot]]

\* Mistake: has_voted is not looked at.
CanVoteAgain(r, v, o) ==
    /\ r.on
    /\ v \in r.active /\ o \in r.active
    /\ r.target[v] # o

CanVote(r, v, o) ==
    /\ r.on
    /\ v \in r.active /\ o \in r.active
    /\ v \notin r.voted
    /\ r.target[v] # o

RecordVote(r, v, o) ==
    [r EXCEPT !.voted = @ \cup {v},
              !.votedFor[v] = o,
              !.totals[o] = @ + 1]

\* Whoever has not voted abstains.
ApplyMissingVotes(r) ==
    LET missing == {p \in r.active : r.on /\ p \notin r.voted}
    IN  [r EXCEPT !.voted = @ \cup missing,
                  !.votedFor = [p \in Slot |-> IF p \in missing THEN NoSlot
                                               ELSE @[p]]]

AllVoted(r) ==
    r.on /\ r.participants # 0 /\ r.active \subseteq r.voted
============================================================================
