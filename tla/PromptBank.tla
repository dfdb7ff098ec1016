----------------------------- MODULE PromptBank -----------------------------
(***************************************************************************)
(* round.c: the questions of a round.  The prompt bank is read line by     *)
(* line, the pairs of the round's category are collected, shuffled and     *)
(* dealt to the players of the round.                                      *)
(*                                                                         *)
(* The bank is a file nobody controls: each line read may be any.  Lines   *)
(* that start with "#" but name no category, lines that do not fit the     *)
(* read buffer and empty lines are one member of Line each.                *)
(***************************************************************************)
EXTENDS Protocol, FiniteSets

CONSTANTS
    Category,   \* the four categories
    Text,       \* the texts a bank may hold
    MaxLines    \* bound: lines of the bank

NoCategory == "none"

ASSUME TextAssumption ==
    /\ NoCategory \notin Category
    /\ Text \subseteq [length : Nat \ {0}, clean : BOOLEAN]

Header(c) == [kind |-> "header", category |-> c]
UnknownHeader == [kind |-> "unknown header"]
Blank == [kind |-> "blank"]
TooLong == [kind |-> "too long"]
TextLine(t) == [kind |-> "text", text |-> t]

Line == {Header(c) : c \in Category} \cup {TextLine(t) : t \in Text}
        \cup {UnknownHeader, Blank, TooLong}

VARIABLES
    wanted,    \* the category of the round
    players,   \* its active players
    file,      \* the lines read so far
    section,   \* current_category
    prompt,    \* the line that holds a prompt whose fallback is not read yet, or 0
    pairs,     \* <<line of the prompt, line of its fallback>>, as collected
    step,
    deck,      \* indices: a permutation of the pairs
    cut,       \* the loop variable of the shuffle
    dealt      \* what each player got, as <<line, line>>

bankVars == <<wanted, players, file, section, prompt, pairs, step, deck, cut, dealt>>

BankInit ==
    /\ wanted \in Category
    /\ players \in SUBSET Slot
    /\ file = <<>> /\ section = NoCategory /\ prompt = 0 /\ pairs = <<>>
    /\ step = IF players = {} THEN "refused" ELSE "reading"
    /\ deck = <<>> /\ cut = 0
    /\ dealt = <<>>

----------------------------------------------------------------------------
(* Reading: at a line where a prompt or a header may stand, and at the     *)
(* line after a prompt.                                                    *)

\* Mistake: prompts as long as a line are taken.
PromptValidLine(t) == t.clean /\ t.length \in 1 .. MaxLineLen

PromptValid(t) == t.clean /\ t.length \in 1 .. MaxPromptLen

Malformed ==
    /\ step' = "malformed"
    /\ UNCHANGED <<section, prompt, pairs>>

\* Mistake: the pairs of other categories are not judged.
TakeFallbackUnjudged(line) ==
    IF section # wanted \/ /\ line.kind = "text"
                           /\ PromptValid(file[prompt].text)
                           /\ SubmissionValid(line.text)
    THEN /\ pairs' = IF section = wanted
                     THEN Append(pairs, <<prompt, Len(file) + 1>>) ELSE pairs
         /\ prompt' = 0
         /\ UNCHANGED <<section, step>>
    ELSE Malformed

\* The line after a prompt must be its fallback; a pair of another category
\* is judged too, and dropped.
TakeFallback(line) ==
    IF /\ line.kind = "text"
       /\ PromptValid(file[prompt].text)
       /\ SubmissionValid(line.text)
    THEN /\ pairs' = IF section = wanted
                     THEN Append(pairs, <<prompt, Len(file) + 1>>) ELSE pairs
         /\ prompt' = 0
         /\ UNCHANGED <<section, step>>
    ELSE Malformed

TakeLine(line) ==
    CASE line.kind = "header" ->
           section' = line.category /\ UNCHANGED <<prompt, pairs, step>>
      [] line.kind = "text" /\ section # NoCategory ->
           prompt' = Len(file) + 1 /\ UNCHANGED <<section, pairs, step>>
      [] OTHER -> Malformed

ReadLine ==
    /\ step = "reading" /\ Len(file) < MaxLines
    /\ \E line \in Line :
         /\ file' = Append(file, line)
         /\ IF line = Blank THEN UNCHANGED <<section, prompt, pairs, step>>
            ELSE IF prompt # 0 THEN TakeFallback(line)
            ELSE TakeLine(line)
    /\ UNCHANGED <<wanted, players, deck, cut, dealt>>

TooFew == Len(pairs) < Cardinality(players)

\* Mistake: the shuffle starts past the end.
EndOfFilePast ==
    /\ step = "reading"
    /\ step' = IF prompt # 0 THEN "malformed"
               ELSE IF TooFew THEN "too few"
               ELSE "shuffling"
    /\ deck' = [k \in 1 .. Len(pairs) |-> k]
    /\ cut' = Len(pairs) + 1
    /\ UNCHANGED <<wanted, players, file, section, prompt, pairs, dealt>>

\* No prompt may be left without its fallback, and there must be a pair for
\* every player.
EndOfFile ==
    /\ step = "reading"
    /\ step' = IF prompt # 0 THEN "malformed"
               ELSE IF TooFew THEN "too few"
               ELSE "shuffling"
    /\ deck' = [k \in 1 .. Len(pairs) |-> k]
    /\ cut' = Len(pairs)
    /\ UNCHANGED <<wanted, players, file, section, prompt, pairs, dealt>>

\* fopen, fgets or malloc fails.
NoBank ==
    /\ step = "reading"
    /\ step' = "unreadable"
    /\ UNCHANGED <<wanted, players, file, section, prompt, pairs, deck, cut, dealt>>

----------------------------------------------------------------------------
(* Shuffling and dealing.                                                  *)

\* Mistake: the card is copied and not swapped.
SwappedCopied(f, a, b) == [f EXCEPT ![a] = f[b]]

Swapped(f, a, b) == [f EXCEPT ![a] = f[b], ![b] = f[a]]

Shuffle ==
    /\ step = "shuffling" /\ cut > 1
    /\ \E k \in 1 .. cut : deck' = Swapped(deck, cut, k)
    /\ cut' = cut - 1
    /\ UNCHANGED <<wanted, players, file, section, prompt, pairs, step, dealt>>

\* The n-th active player gets the n-th card.
Deal ==
    /\ step = "shuffling" /\ cut <= 1
    /\ dealt' = [p \in players |->
                   pairs[deck[Cardinality({q \in players : q <= p})]]]
    /\ step' = "dealt"
    /\ UNCHANGED <<wanted, players, file, section, prompt, pairs, deck, cut>>

BankNext == ReadLine \/ EndOfFile \/ NoBank \/ Shuffle \/ Deal

BankSpec == BankInit /\ [][BankNext]_bankVars

----------------------------------------------------------------------------
(* Properties.                                                             *)

\* Where lines of a bank with content are, from line 1 to line n.
Content(n) == {k \in 1 .. n : file[k] # Blank}

\* The header over line k, 0 if there is none, and the lines between.
HeaderOf(k) ==
    LET above == {h \in 1 .. k : file[h].kind = "header"}
    IN  IF above = {} THEN 0 ELSE CHOOSE h \in above : \A g \in above : g <= h

Under(k) == {m \in Content(k) : m > HeaderOf(k)}

Odd(k) == Cardinality(Under(k)) % 2 = 1

\* The shape the loader's error messages describe (round.c:795-927): under
\* each category header pairs of lines, a prompt and its fallback answer.
WellFormed ==
    LET n == Len(file) IN
    /\ \A k \in Content(n) :
         file[k].kind # "header" =>
           /\ file[k].kind = "text" /\ HeaderOf(k) # 0
           /\ IF Odd(k) THEN PromptValid(file[k].text)
                        ELSE SubmissionValid(file[k].text)
    /\ \A h \in Content(n) :
         file[h].kind = "header" => h = 1 \/ ~Odd(h - 1)
    /\ n > 0 => ~Odd(n)

\* The pairs a well-formed bank holds for the category.
Declared ==
    LET above(b) == CHOOSE k \in Content(b - 1) : \A m \in Content(b - 1) : m <= k
        answers == {b \in Content(Len(file)) :
                      /\ file[b].kind = "text" /\ ~Odd(b)
                      /\ file[HeaderOf(b)].category = wanted}
    IN  {<<above(b), b>> : b \in answers}

BankTypeOK ==
    /\ wanted \in Category /\ players \subseteq Slot
    /\ file \in Seq(Line) /\ prompt \in 0 .. Len(file)
    /\ section \in Category \cup {NoCategory}
    /\ pairs \in Seq((1 .. Len(file)) \X (1 .. Len(file)))
    /\ step \in {"refused", "reading", "malformed", "too few", "unreadable",
                 "shuffling", "dealt"}
    /\ step \in {"shuffling", "dealt"} =>
         /\ deck \in [1 .. Len(pairs) -> 1 .. Len(pairs)]
         /\ cut \in 0 .. Len(pairs)

Loaded == step \in {"too few", "shuffling", "dealt"}

\* The bank is judged as a whole, whatever category the round has: a mistake
\* under any header stops the load, nothing else does, and what is collected
\* is every pair of the category and no other.
BankJudged ==
    /\ step = "malformed" => ~WellFormed
    /\ Loaded => WellFormed /\ {pairs[n] : n \in DOMAIN pairs} = Declared

\* Every player of the round gets one of the pairs collected, a question with
\* its own fallback answer, and no two get the same.
DealtDistinct ==
    step = "dealt" =>
      /\ DOMAIN dealt = players
      /\ \A p \in players : dealt[p] \in {pairs[n] : n \in DOMAIN pairs}
      /\ \A p, q \in players : dealt[p] = dealt[q] => p = q

\* What is dealt can be sent and read: the question as a PROMPT line, the
\* fallback answer, when it stands in for one, as a TITLE_PROMPT line.
DealtGetsThrough ==
    step = "dealt" =>
      \A p \in players : /\ PromptGetsThrough(file[dealt[p][1]].text.length)
                         /\ AnswerGetsThrough(file[dealt[p][2]].text.length)
=============================================================================
