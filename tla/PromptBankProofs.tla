-------------------------- MODULE PromptBankProofs --------------------------
(***************************************************************************)
(* Theorems about the questions of a round, for a bank of any length and   *)
(* any number of players: they are dealt apart, they get through, and the  *)
(* bank they come from is judged as a whole.                               *)
(***************************************************************************)
EXTENDS PromptBank, FiniteSetTheorems, SequenceTheorems, TLAPS

USE MaxPlayersAssumption, TextAssumption DEF Slot

----------------------------------------------------------------------------
(* The invariant.                                                          *)

Lines == 1 .. Len(file)
Collected == 1 .. Len(pairs)

Reading ==
    /\ file \in Seq(Line)
    /\ prompt \in 0 .. Len(file)
    /\ step = "reading" => deck = <<>> /\ dealt = <<>>

\* A pair is a question and an answer that passed the checks.
Good(q, a) ==
    /\ PromptValid(file[q].text)
    /\ SubmissionValid(file[a].text)

PairsInv ==
    /\ pairs \in Seq(Lines \X Lines)
    /\ \A n \in Collected : Good(pairs[n][1], pairs[n][2])

\* Every pair ends on a line of its own.
PairsApart == \A m, n \in Collected : pairs[m][2] = pairs[n][2] => m = n

\* A list without doubles.
Apart(f, S) == \A m, n \in S : f[m] = f[n] => m = n

\* The cards are the pairs, none twice, and there is one for each player.
DeckInv ==
    step \in {"shuffling", "dealt"} =>
      /\ deck \in [Collected -> Collected]
      /\ Apart(deck, Collected)
      /\ cut \in 0 .. Len(pairs)
      /\ Cardinality(players) <= Len(pairs)

Rank(p) == Cardinality({q \in players : q <= p})

DealtInv ==
    step = "dealt" => dealt = [p \in players |-> pairs[deck[Rank(p)]]]

IInv ==
    /\ wanted \in Category /\ players \subseteq Slot
    /\ section \in Category \cup {NoCategory}
    /\ step \in {"refused", "reading", "malformed", "too few", "unreadable",
                 "shuffling", "dealt"}
    /\ Reading /\ PairsInv /\ PairsApart /\ DeckInv /\ DealtInv

LEMMA InitBank == BankInit => IInv
BY DEF BankInit, IInv, Reading, Lines, Collected, PairsInv, PairsApart, DeckInv,
       DealtInv

\* What the sequences are, in the form the provers need.
LEMMA Sizes ==
    IInv => /\ Len(file) \in Nat /\ Len(pairs) \in Nat
            /\ \A n \in Collected : pairs[n][1] \in Lines /\ pairs[n][2] \in Lines
<1> SUFFICES ASSUME IInv
             PROVE  /\ Len(file) \in Nat /\ Len(pairs) \in Nat
                    /\ \A n \in Collected : pairs[n][1] \in Lines /\ pairs[n][2] \in Lines
    OBVIOUS
<1>1. file \in Seq(Line) /\ pairs \in Seq(Lines \X Lines)
    BY DEF IInv, Reading, PairsInv
<1>2. Len(file) \in Nat /\ Len(pairs) \in Nat
    BY <1>1, LenProperties
<1>3. \A n \in Collected : pairs[n] \in Lines \X Lines
    BY <1>1, ElementOfSeq DEF Collected
<1> QED
    BY <1>2, <1>3

LEMMA PlayersFinite ==
    IInv => /\ IsFiniteSet(players) /\ players \subseteq Nat
            /\ Cardinality(players) \in Nat
<1> SUFFICES ASSUME IInv
             PROVE  /\ IsFiniteSet(players) /\ players \subseteq Nat
                    /\ Cardinality(players) \in Nat
    OBVIOUS
<1>1. players \in SUBSET Slot
    BY DEF IInv
<1>2. IsFiniteSet(Slot)
    BY FS_Interval
<1>3. IsFiniteSet(players)
    BY <1>1, <1>2, FS_Subset
<1> QED
    BY <1>1, <1>3, FS_CardinalityType

----------------------------------------------------------------------------
(* Reading.                                                                *)

\* A line more leaves the lines before it, and the pairs, what they were.
LEMMA LineAppended ==
    ASSUME IInv, NEW line \in Line, file' = Append(file, line), pairs' = pairs
    PROVE  /\ file' \in Seq(Line) /\ Len(file') = Len(file) + 1
           /\ file'[Len(file) + 1] = line
           /\ \A k \in Lines : file'[k] = file[k]
           /\ PairsInv'
<1>1. file \in Seq(Line) /\ pairs \in Seq(Lines \X Lines)
    BY DEF IInv, Reading, PairsInv
<1>2. /\ file' \in Seq(Line) /\ Len(file') = Len(file) + 1
      /\ file'[Len(file) + 1] = line
      /\ \A k \in Lines : file'[k] = file[k]
    BY <1>1, AppendProperties DEF Lines
<1>3. Lines \X Lines \subseteq (Lines \X Lines)'
    BY <1>2, Sizes DEF Lines
<1>4. pairs' \in Seq((Lines \X Lines)')
    BY <1>1, <1>3, SeqMonotonic
<1>5. (\A n \in Collected : Good(pairs[n][1], pairs[n][2]))'
  <2>1. \A n \in Collected : /\ pairs[n][1] \in Lines /\ pairs[n][2] \in Lines
                             /\ Good(pairs[n][1], pairs[n][2])
    BY Sizes DEF IInv, PairsInv
  <2> QED
    BY <1>2, <2>1 DEF Good, Collected
<1> QED
    BY <1>2, <1>4, <1>5, Zenon DEF PairsInv

\* The pair taken is a good one, on lines no other pair has.
LEMMA PairTaken ==
    ASSUME IInv, step = "reading", NEW line \in Line, file' = Append(file, line),
           prompt # 0, PromptValid(file[prompt].text), SubmissionValid(line.text),
           pairs' = Append(pairs, <<prompt, Len(file) + 1>>)
    PROVE  PairsInv' /\ PairsApart'
<1>1. file \in Seq(Line) /\ pairs \in Seq(Lines \X Lines) /\ prompt \in Lines
    BY Sizes DEF IInv, Reading, PairsInv, Lines
<1>2. /\ Len(file') = Len(file) + 1 /\ file'[Len(file) + 1] = line
      /\ \A k \in Lines : file'[k] = file[k]
    BY <1>1, AppendProperties DEF Lines
<1>3. Lines \X Lines \subseteq (Lines \X Lines)'
    BY <1>2, Sizes DEF Lines
<1>4. pairs \in Seq((Lines \X Lines)')
    BY <1>1, <1>3, SeqMonotonic
<1>5. <<prompt, Len(file) + 1>> \in (Lines \X Lines)'
    BY <1>1, <1>2, Sizes DEF Lines
<1>6. /\ pairs' \in Seq((Lines \X Lines)') /\ Len(pairs') = Len(pairs) + 1
      /\ pairs'[Len(pairs) + 1] = <<prompt, Len(file) + 1>>
      /\ \A n \in Collected : pairs'[n] = pairs[n]
    BY <1>4, <1>5, AppendProperties DEF Collected
<1>7. \A n \in Collected' : n \in Collected \/ n = Len(pairs) + 1
    BY <1>6, Sizes DEF Collected
<1>8. ASSUME NEW n \in Collected'
      PROVE  Good(pairs[n][1], pairs[n][2])'
  <2>1. CASE n \in Collected
    <3>1. pairs[n][1] \in Lines /\ pairs[n][2] \in Lines
        BY <2>1, Sizes
    <3>2. Good(pairs[n][1], pairs[n][2])
        BY <2>1 DEF IInv, PairsInv
    <3> QED
        BY <1>2, <1>6, <2>1, <3>1, <3>2 DEF Good
  <2>2. CASE n = Len(pairs) + 1
    <3>1. pairs'[n][1] = prompt /\ pairs'[n][2] = Len(file) + 1
        BY <1>6, <2>2
    <3> QED
        BY <1>1, <1>2, <3>1 DEF Good
  <2> QED
    BY <1>7, <2>1, <2>2
<1>9. PairsApart'
  <2> SUFFICES ASSUME NEW m \in Collected', NEW n \in Collected',
                      pairs'[m][2] = pairs'[n][2]
               PROVE  m = n
    BY DEF PairsApart
  <2>1. \A k \in Collected : /\ pairs'[k][2] = pairs[k][2] /\ pairs[k][2] \in Lines
                             /\ pairs'[k][2] # Len(file) + 1
    <3>1. \A k \in Collected : pairs'[k][2] = pairs[k][2]
        BY <1>6
    <3>2. \A k \in Collected : pairs[k][2] \in Lines
        BY Sizes
    <3>3. Len(file) + 1 \notin Lines
        BY Sizes DEF Lines
    <3> QED
        BY <3>1, <3>2, <3>3
  <2>2. pairs'[Len(pairs) + 1][2] = Len(file) + 1 /\ Len(file) + 1 \notin Lines
    BY <1>6, Sizes DEF Lines
  <2>3. \A k \in Collected, l \in Collected : pairs[k][2] = pairs[l][2] => k = l
    BY DEF IInv, PairsApart
  <2>4. CASE m \in Collected /\ n \in Collected
    BY <2>1, <2>3, <2>4
  <2>5. CASE m \in Collected /\ n = Len(pairs) + 1
    BY <2>1, <2>2, <2>5
  <2>6. CASE n \in Collected /\ m = Len(pairs) + 1
    BY <2>1, <2>2, <2>6
  <2> QED
    BY <1>7, <2>4, <2>5, <2>6
<1> QED
    BY <1>6, <1>8, <1>9, Zenon DEF PairsInv

LEMMA HeaderCategory ==
    ASSUME NEW line \in Line
    PROVE  /\ line.kind = "header" => line.category \in Category
           /\ line = Blank => line.kind # "header"
<1>1. line = Blank => line.kind = "blank"
    BY DEF Blank
<1>2. ASSUME line.kind = "header" PROVE line.category \in Category
  <2>1. \/ \E c \in Category : line = Header(c)
        \/ \E t \in Text : line = TextLine(t)
        \/ line \in {UnknownHeader, Blank, TooLong}
    BY Zenon DEF Line
  <2>2. ~\E t \in Text : line = TextLine(t)
    BY <1>2 DEF TextLine
  <2>3. line \notin {UnknownHeader, Blank, TooLong}
    <3>1. /\ UnknownHeader.kind # "header" /\ Blank.kind # "header"
          /\ TooLong.kind # "header"
        BY DEF UnknownHeader, Blank, TooLong
    <3> QED
        BY <1>2, <3>1
  <2>4. PICK c \in Category : line = Header(c)
    BY <2>1, <2>2, <2>3
  <2> QED
    BY <2>4 DEF Header
<1> QED
    BY <1>1, <1>2

LEMMA ReadLineStep == IInv /\ ReadLine => IInv'
<1> SUFFICES ASSUME IInv, ReadLine PROVE IInv'
    OBVIOUS
<1>1. PICK line \in Line :
        /\ file' = Append(file, line)
        /\ IF line = Blank THEN UNCHANGED <<section, prompt, pairs, step>>
           ELSE IF prompt # 0 THEN TakeFallback(line)
           ELSE TakeLine(line)
    BY DEF ReadLine
<1>2. /\ step = "reading"
      /\ UNCHANGED <<wanted, players, deck, cut, dealt>>
    BY DEF ReadLine
<1>3. file' \in Seq(Line) /\ Len(file') = Len(file) + 1
    BY <1>1, AppendProperties DEF IInv, Reading
<1>4. /\ step' \in {"reading", "malformed"}
      /\ section' \in Category \cup {NoCategory}
      /\ prompt' \in 0 .. Len(file')
  <2>1. CASE line = Blank
    BY <1>1, <1>2, <1>3, <2>1, Sizes DEF IInv, Reading
  <2>2. CASE line # Blank /\ prompt # 0
    BY <1>1, <1>2, <1>3, <2>2, Sizes DEF IInv, Reading, TakeFallback, Malformed
  <2>3. CASE line # Blank /\ prompt = 0
    <3>1. TakeLine(line)
        BY <1>1, <2>3
    <3>2. CASE line.kind = "header"
      <4>1. line.category \in Category
          BY <3>2, HeaderCategory
      <4>2. section' = line.category /\ UNCHANGED <<prompt, pairs, step>>
          BY <3>1, <3>2 DEF TakeLine
      <4> QED
          BY <1>2, <1>3, <4>1, <4>2, Sizes DEF IInv, Reading
    <3>3. CASE line.kind = "text" /\ section # NoCategory
      <4>1. prompt' = Len(file) + 1 /\ UNCHANGED <<section, pairs, step>>
          BY <3>1, <3>3 DEF TakeLine
      <4> QED
          BY <1>2, <1>3, <4>1, Sizes DEF IInv, Reading
    <3>4. CASE line.kind # "header" /\ ~(line.kind = "text" /\ section # NoCategory)
      <4>1. Malformed
          BY <3>1, <3>4 DEF TakeLine
      <4> QED
          BY <1>2, <1>3, <4>1, Sizes DEF IInv, Reading, Malformed
    <3> QED
        BY <3>2, <3>3, <3>4
  <2> QED
    BY <2>1, <2>2, <2>3
<1>5. \/ pairs' = pairs
      \/ /\ prompt # 0 /\ PromptValid(file[prompt].text) /\ SubmissionValid(line.text)
         /\ pairs' = Append(pairs, <<prompt, Len(file) + 1>>)
    BY <1>1 DEF TakeFallback, TakeLine, Malformed
<1>6. PairsInv' /\ PairsApart'
  <2>1. CASE pairs' = pairs
    BY <1>1, <2>1, LineAppended DEF IInv, PairsApart, Collected
  <2>2. CASE pairs' # pairs
    BY <1>1, <1>2, <1>5, <2>2, PairTaken
  <2> QED
    BY <2>1, <2>2
<1>7. Reading'
    BY <1>2, <1>3, <1>4 DEF IInv, Reading
<1> QED
    BY <1>2, <1>4, <1>6, <1>7 DEF IInv, DeckInv, DealtInv

\* The lines, the pairs and their places are left alone.
LEMMA SameBank ==
    ASSUME IInv, UNCHANGED <<wanted, players, file, section, prompt, pairs>>
    PROVE  /\ (wanted \in Category /\ players \subseteq Slot)'
           /\ (section \in Category \cup {NoCategory})'
           /\ PairsInv' /\ PairsApart' /\ (file \in Seq(Line))'
           /\ (prompt \in 0 .. Len(file))'
BY DEF IInv, Reading, PairsInv, PairsApart, Good, Lines, Collected

LEMMA EndOfFileStep == IInv /\ EndOfFile => IInv'
<1> SUFFICES ASSUME IInv, EndOfFile PROVE IInv'
    OBVIOUS
<1>1. /\ step' \in {"malformed", "too few", "shuffling"}
      /\ step' = "shuffling" => ~(Len(pairs) < Cardinality(players))
      /\ deck' = [k \in Collected |-> k] /\ cut' = Len(pairs)
      /\ UNCHANGED <<wanted, players, file, section, prompt, pairs, dealt>>
    BY DEF EndOfFile, TooFew, Collected
<1>2. Cardinality(players) \in Nat /\ Len(pairs) \in Nat
    BY PlayersFinite, Sizes
<1>3. Collected' = Collected /\ Len(pairs') = Len(pairs)
    BY <1>1 DEF Collected
<1>4. /\ deck' \in [Collected -> Collected]
      /\ Apart(deck', Collected)
    BY <1>1 DEF Apart
<1>5. step' = "shuffling" => Cardinality(players) <= Len(pairs)
    BY <1>1, <1>2
<1>6. cut' \in 0 .. Len(pairs) /\ players' = players
  <2>1. cut' = Len(pairs) /\ players' = players
    BY Zenon DEF EndOfFile, TooFew
  <2>2. Len(pairs) \in 0 .. Len(pairs)
    BY <1>2
  <2> QED
    BY <2>1, <2>2
<1>7. step' \in {"shuffling", "dealt"} => step' = "shuffling"
    BY <1>1
<1>8. DeckInv'
    BY <1>3, <1>4, <1>5, <1>6, <1>7 DEF DeckInv, Apart
<1> QED
    BY <1>1, <1>8, SameBank DEF IInv, Reading, DealtInv

LEMMA NoBankStep == IInv /\ NoBank => IInv'
BY SameBank DEF NoBank, IInv, Reading, DeckInv, DealtInv

----------------------------------------------------------------------------
(* Shuffling and dealing.                                                  *)

\* An exchange of two cards keeps the deck free of doubles.
LEMMA SwapKeepsApart ==
    ASSUME NEW S, NEW f \in [S -> S], Apart(f, S),
           NEW a \in S, NEW b \in S
    PROVE  /\ Swapped(f, a, b) \in [S -> S]
           /\ Apart(Swapped(f, a, b), S)
<1>1. \A m \in S : Swapped(f, a, b)[m] = IF m = b THEN f[a]
                                         ELSE IF m = a THEN f[b] ELSE f[m]
    BY DEF Swapped
<1>2. Swapped(f, a, b) \in [S -> S]
    BY DEF Swapped
<1> QED
    BY <1>1, <1>2 DEF Apart

LEMMA ShuffleStep == IInv /\ Shuffle => IInv'
<1> SUFFICES ASSUME IInv, Shuffle PROVE IInv'
    OBVIOUS
<1>1. PICK k \in 1 .. cut : deck' = Swapped(deck, cut, k)
    BY DEF Shuffle
<1>2. /\ step = "shuffling" /\ step' = step /\ cut > 1 /\ cut' = cut - 1
      /\ UNCHANGED <<wanted, players, file, section, prompt, pairs, dealt>>
    BY DEF Shuffle
<1>3. /\ deck \in [Collected -> Collected]
      /\ Apart(deck, Collected)
      /\ cut \in 0 .. Len(pairs) /\ Cardinality(players) <= Len(pairs)
    BY <1>2 DEF IInv, DeckInv
<1>4. k \in Collected /\ cut \in Collected /\ cut' \in 0 .. Len(pairs)
    BY <1>1, <1>2, <1>3, Sizes DEF Collected
<1>5. /\ deck' \in [Collected -> Collected]
      /\ Apart(deck', Collected)
  <2>1. deck \in [Collected -> Collected]
    BY <1>3
  <2> QED
    BY <1>1, <1>3, <1>4, <2>1, SwapKeepsApart
<1>6. DeckInv'
    BY <1>2, <1>3, <1>4, <1>5 DEF DeckInv, Apart, Collected
<1> QED
    BY <1>2, <1>6, SameBank DEF IInv, Reading, DealtInv

LEMMA DealStep == IInv /\ Deal => IInv'
BY SameBank DEF Deal, IInv, Reading, DeckInv, DealtInv, Rank, Collected

LEMMA BankStutter == IInv /\ UNCHANGED bankVars => IInv'
BY SameBank DEF bankVars, IInv, Reading, DeckInv, DealtInv, Rank, Collected

LEMMA StepBank == IInv /\ [BankNext]_bankVars => IInv'
BY ReadLineStep, EndOfFileStep, NoBankStep, ShuffleStep, DealStep, BankStutter
   DEF BankNext

LEMMA AlwaysBank == BankSpec => []IInv
BY InitBank, StepBank, PTL DEF BankSpec

\* The rank of a player is a card's place, and no two have the same.
LEMMA Ranks ==
    ASSUME IInv
    PROVE  /\ \A p \in players : Rank(p) \in 1 .. Cardinality(players)
           /\ \A p, q \in players : Rank(p) = Rank(q) => p = q
<1> DEFINE Upto(p) == {q \in players : q <= p}
<1>1. players \subseteq Nat /\ IsFiniteSet(players)
    BY PlayersFinite
<1>2. ASSUME NEW p \in players
      PROVE  /\ IsFiniteSet(Upto(p)) /\ Rank(p) \in Nat
             /\ Rank(p) \in 1 .. Cardinality(players)
  <2>1. Upto(p) \in SUBSET players /\ p \in Upto(p)
    BY <1>1
  <2>2. IsFiniteSet(Upto(p)) /\ Cardinality(Upto(p)) <= Cardinality(players)
    BY <1>1, <2>1, FS_Subset
  <2>3. Cardinality(Upto(p)) \in Nat /\ Cardinality(players) \in Nat
    BY <1>1, <2>2, FS_CardinalityType
  <2>4. Cardinality(Upto(p)) # 0
    BY <2>1, <2>2, FS_EmptySet
  <2> QED
    BY <2>2, <2>3, <2>4 DEF Rank
<1>3. ASSUME NEW p \in players, NEW q \in players, p < q
      PROVE  Rank(p) # Rank(q)
  <2>1. Upto(p) \in SUBSET Upto(q) /\ Upto(p) # Upto(q)
    <3>1. p \in Nat /\ q \in Nat
        BY <1>1
    <3>2. q \in Upto(q) /\ q \notin Upto(p)
        BY <1>3, <3>1
    <3>3. \A x \in players : x <= p => x <= q
        BY <1>1, <1>3, <3>1
    <3> QED
        BY <3>2, <3>3
  <2>2. IsFiniteSet(Upto(q))
    BY <1>2
  <2>3. Cardinality(Upto(q)) # Cardinality(Upto(p))
    BY <2>1, <2>2, FS_Subset
  <2> QED
    BY <2>3 DEF Rank
<1> QED
  <2>1. \A p, q \in players : p < q \/ q < p \/ p = q
    BY <1>1
  <2> QED
    BY <1>2, <1>3, <2>1

\* A player's card is a pair collected.
LEMMA Cards ==
    ASSUME IInv, step = "dealt"
    PROVE  /\ DOMAIN dealt = players
           /\ \A p \in players : /\ deck[Rank(p)] \in Collected
                                 /\ dealt[p] = pairs[deck[Rank(p)]]
           /\ \A p, q \in players : dealt[p] = dealt[q] => p = q
<1>1. /\ dealt = [p \in players |-> pairs[deck[Rank(p)]]]
      /\ deck \in [Collected -> Collected]
      /\ \A m, n \in Collected : deck[m] = deck[n] => m = n
      /\ Cardinality(players) <= Len(pairs)
    BY DEF IInv, DealtInv, DeckInv, Apart
<1>2. \A p \in players : Rank(p) \in Collected
  <2>1. Cardinality(players) \in Nat
    BY PlayersFinite
  <2> QED
    BY <1>1, <2>1, Ranks, Sizes DEF Collected
<1>3. \A m, n \in Collected : pairs[m] = pairs[n] => m = n
    BY DEF IInv, PairsApart
<1>4. \A p \in players : deck[Rank(p)] \in Collected /\ dealt[p] = pairs[deck[Rank(p)]]
    BY <1>1, <1>2
<1>5. ASSUME NEW p \in players, NEW q \in players, dealt[p] = dealt[q]
      PROVE  p = q
  <2>1. deck[Rank(p)] = deck[Rank(q)]
    BY <1>3, <1>4, <1>5
  <2>2. Rank(p) = Rank(q)
    BY <1>1, <1>2, <2>1
  <2> QED
    BY <2>2, Ranks
<1> QED
    BY <1>1, <1>4, <1>5

----------------------------------------------------------------------------
(* Theorems.                                                               *)

\* round_assign_prompts_from_file gives every player of a round a pair of its
\* own: the shuffle loses and doubles no pair, and there are enough.
THEOREM QuestionsApart == BankSpec => []DealtDistinct
<1>1. IInv => DealtDistinct
  <2>1. ASSUME IInv, step = "dealt"
        PROVE  \A p \in players : dealt[p] \in {pairs[n] : n \in DOMAIN pairs}
    <3>1. DOMAIN pairs = Collected
        BY <2>1, LenProperties DEF IInv, PairsInv, Collected
    <3> QED
        BY <2>1, <3>1, Cards
  <2> QED
    BY <2>1, Cards DEF DealtDistinct
<1> QED
    BY <1>1, AlwaysBank, PTL

\* No question and no fallback answer of a bank that loads is too long to be
\* sent, or to be read at the other end.
THEOREM QuestionsGetThrough == BankSpec => []DealtGetsThrough
<1>1. ASSUME IInv, step = "dealt", NEW p \in players
      PROVE  /\ PromptGetsThrough(file[dealt[p][1]].text.length)
             /\ AnswerGetsThrough(file[dealt[p][2]].text.length)
  <2>1. Good(dealt[p][1], dealt[p][2])
    BY <1>1, Cards DEF IInv, PairsInv
  <2>2. /\ file[dealt[p][1]].text.length \in 1 .. MaxPromptLen
        /\ file[dealt[p][2]].text.length \in 1 .. MaxSubmissionLen
    BY <2>1 DEF Good, PromptValid, SubmissionValid
  <2> QED
    BY <2>2, LimitsAssumption
    DEF PromptGetsThrough, AnswerGetsThrough, Formats, ParsesText, ParsesTwo, CategoryLen
<1>2. IInv => DealtGetsThrough
    BY <1>1 DEF DealtGetsThrough
<1> QED
    BY <1>2, AlwaysBank, PTL

\* Every value the loader keeps has its type, with banks of any length.
THEOREM BankTypeCorrect == BankSpec => []BankTypeOK
<1>1. IInv => BankTypeOK
    BY DEF IInv, Reading, PairsInv, DeckInv, BankTypeOK, Lines, Collected
<1> QED
    BY <1>1, AlwaysBank, PTL

----------------------------------------------------------------------------
(* The bank is judged as a whole.  What the loader keeps of the lines read  *)
(* - the section, an open prompt, the pairs - is what the definitions of    *)
(* WellFormed and Declared say of the whole file.                           *)

Fine(k) ==
    file[k].kind # "header" =>
      /\ file[k].kind = "text" /\ HeaderOf(k) # 0
      /\ IF Odd(k) THEN PromptValid(file[k].text)
                   ELSE SubmissionValid(file[k].text)

Closed(h) == file[h].kind = "header" => h = 1 \/ ~Odd(h - 1)

Sections ==
    /\ \A k \in 0 .. Len(file) : HeaderOf(k) \in 0 .. k
    /\ LET h == HeaderOf(Len(file))
       IN  h # 0 => file[h].kind = "header" /\ file[h].category \in Category

InSection ==
    section = IF HeaderOf(Len(file)) = 0 THEN NoCategory
              ELSE file[HeaderOf(Len(file))].category

OpenPrompt ==
    LET n == Len(file) IN
    /\ prompt # 0 <=> Odd(n)
    /\ prompt # 0 =>
         /\ prompt \in Content(n) /\ file[prompt].kind = "text" /\ Odd(prompt)
         /\ HeaderOf(prompt) # 0 /\ HeaderOf(n) # 0
         /\ \A m \in Content(n) : m <= prompt

SoFar == \A k \in Content(Len(file)) : Closed(k) /\ (k # prompt => Fine(k))

Gathered == {pairs[n] : n \in DOMAIN pairs}

Judging == step = "reading" => /\ InSection /\ OpenPrompt /\ SoFar
                               /\ Gathered = Declared

JInv == Sections /\ Judging /\ BankJudged

LEMMA WellFormedLines ==
    WellFormed <=> /\ \A k \in Content(Len(file)) : Fine(k) /\ Closed(k)
                   /\ Len(file) > 0 => ~Odd(Len(file))
BY DEF WellFormed, Fine, Closed

\* The greatest of a set of numbers, 0 if it is empty, and the header lines.
Greatest(S) == CHOOSE h \in S : \A g \in S : g <= h
Topmost(S) == IF S = {} THEN 0 ELSE Greatest(S)
Headers(k) == {h \in 1 .. k : file[h].kind = "header"}

LEMMA TopmostIs ==
    ASSUME NEW S \in SUBSET Nat, NEW x \in S, \A g \in S : g <= x
    PROVE  Topmost(S) = x
<1>1. \A h \in S : (\A g \in S : g <= h) => h = x
    OBVIOUS
<1>2. Topmost(S) = CHOOSE h \in S : \A g \in S : g <= h
    BY DEF Topmost, Greatest
<1>3. Topmost(S) \in S /\ \A g \in S : g <= Topmost(S)
    BY <1>2, Zenon
<1> QED
    BY <1>1, <1>3

\* With one member more a set of lines is odd if it was even.
LEMMA OddFlips ==
    ASSUME NEW n \in Nat, NEW S \in SUBSET (1 .. n)
    PROVE  (Cardinality(S \cup {n + 1}) % 2 = 1) <=> ~(Cardinality(S) % 2 = 1)
<1>1. IsFiniteSet(1 .. n)
    BY FS_Interval
<1>2. IsFiniteSet(S)
    BY <1>1, FS_Subset
<1>3. Cardinality(S) \in Nat
    BY <1>2, FS_CardinalityType
<1>4. n + 1 \notin S
    OBVIOUS
<1>5. Cardinality(S \cup {n + 1}) = Cardinality(S) + 1
    BY <1>2, <1>4, FS_AddElement
<1> QED
    BY <1>3, <1>5

\* What is said of the lines above is not changed by a line that follows.
LEMMA AboveStays ==
    ASSUME IInv, NEW line \in Line, file' = Append(file, line),
           NEW k \in 0 .. Len(file)
    PROVE  /\ Content(k)' = Content(k) /\ Headers(k)' = Headers(k)
           /\ HeaderOf(k)' = HeaderOf(k) /\ Under(k)' = Under(k)
           /\ Odd(k)' = Odd(k)
<1>1. Len(file) \in Nat /\ file \in Seq(Line)
    BY Sizes DEF IInv, Reading
<1>2. \A m \in 1 .. k : file'[m] = file[m]
    BY <1>1, AppendProperties
<1>3. Content(k)' = Content(k) /\ Headers(k)' = Headers(k)
    BY <1>2 DEF Content, Headers
<1>4. HeaderOf(k) = Topmost(Headers(k)) /\ (HeaderOf(k) = Topmost(Headers(k)))'
    BY DEF HeaderOf, Topmost, Greatest, Headers
<1>5. HeaderOf(k)' = HeaderOf(k)
    BY <1>3, <1>4 DEF Topmost
<1>6. Under(k)' = Under(k)
    BY <1>3, <1>5 DEF Under
<1> QED
    BY <1>3, <1>5, <1>6 DEF Odd

\* A header closes what is above it; a line with content makes the number of
\* lines under the last header odd, or even again.
LEMMA LastLine ==
    ASSUME IInv, Sections, NEW line \in Line, file' = Append(file, line),
           NEW n \in Nat, n = Len(file)
    PROVE  /\ Content(n + 1)' = IF line = Blank THEN Content(n)
                                ELSE Content(n) \cup {n + 1}
           /\ HeaderOf(n + 1)' = IF line.kind = "header" THEN n + 1 ELSE HeaderOf(n)
           /\ Odd(n + 1)' <=> IF line.kind = "header" THEN FALSE
                              ELSE IF line = Blank THEN Odd(n) ELSE ~Odd(n)
<1>1. /\ file \in Seq(Line)
      /\ \A m \in 1 .. n : file'[m] = file[m]
      /\ file'[n + 1] = line
  <2>1. file \in Seq(Line)
    BY DEF IInv, Reading
  <2> QED
    BY <2>1, AppendProperties
<1>2. 1 .. n + 1 = (1 .. n) \cup {n + 1}
    OBVIOUS
<1>3. Content(n + 1)' = IF line = Blank THEN Content(n) ELSE Content(n) \cup {n + 1}
    BY <1>1, <1>2 DEF Content
<1>4. Headers(n + 1)' = IF line.kind = "header" THEN Headers(n) \cup {n + 1}
                        ELSE Headers(n)
    BY <1>1, <1>2 DEF Headers
<1>5. /\ HeaderOf(n) = Topmost(Headers(n))
      /\ HeaderOf(n + 1)' = Topmost(Headers(n + 1)')
    BY DEF HeaderOf, Topmost, Greatest, Headers
<1>6. HeaderOf(n + 1)' = IF line.kind = "header" THEN n + 1 ELSE HeaderOf(n)
  <2>1. CASE line.kind = "header"
    <3>1. /\ Headers(n + 1)' \in SUBSET Nat /\ n + 1 \in Headers(n + 1)'
          /\ \A g \in Headers(n + 1)' : g <= n + 1
        BY <1>4, <2>1 DEF Headers
    <3>2. Topmost(Headers(n + 1)') = n + 1
        BY <3>1, TopmostIs
    <3> QED
        BY <1>5, <2>1, <3>2
  <2>2. CASE line.kind # "header"
    BY <1>4, <1>5, <2>2
  <2> QED
    BY <2>1, <2>2
<1>7. HeaderOf(n) \in 0 .. n
  <2>1. n \in 0 .. Len(file)
    OBVIOUS
  <2> QED
    BY <2>1 DEF Sections
<1>8. Odd(n + 1)' <=> Cardinality(Under(n + 1)') % 2 = 1
    BY DEF Odd
<1>9. Content(n) \in SUBSET (1 .. n) /\ Under(n) \in SUBSET (1 .. n)
    BY DEF Content, Under
<1>10. Under(n + 1)' = IF line.kind = "header" THEN {}
                       ELSE IF line = Blank THEN Under(n) ELSE Under(n) \cup {n + 1}
  <2>1. Under(n + 1)' = {m \in Content(n + 1)' : m > HeaderOf(n + 1)'}
    BY DEF Under
  <2>2. Under(n) = {m \in Content(n) : m > HeaderOf(n)}
    BY DEF Under
  <2>3. CASE line.kind = "header"
    BY <1>3, <1>6, <1>9, <2>1, <2>3, HeaderCategory
  <2>4. CASE line.kind # "header" /\ line = Blank
    BY <1>3, <1>6, <2>1, <2>2, <2>4
  <2>5. CASE line.kind # "header" /\ line # Blank
    <3>1. n + 1 > HeaderOf(n)
        BY <1>7
    <3>2. Under(n + 1)' = {m \in Content(n) \cup {n + 1} : m > HeaderOf(n)}
        BY <1>3, <1>6, <2>1, <2>5
    <3> QED
        BY <2>2, <2>5, <3>1, <3>2
  <2> QED
    BY <2>3, <2>4, <2>5
<1>11. Odd(n + 1)' <=> IF line.kind = "header" THEN FALSE
                       ELSE IF line = Blank THEN Odd(n) ELSE ~Odd(n)
  <2>1. CASE line.kind = "header"
    <3>1. Cardinality(Under(n + 1)') = 0
        BY <1>10, <2>1, FS_EmptySet
    <3> QED
        BY <1>8, <2>1, <3>1
  <2>2. CASE line.kind # "header" /\ line = Blank
    BY <1>8, <1>10, <2>2 DEF Odd
  <2>3. CASE line.kind # "header" /\ line # Blank
    <3>1. (Cardinality(Under(n) \cup {n + 1}) % 2 = 1)
             <=> ~(Cardinality(Under(n)) % 2 = 1)
        BY <1>9, OddFlips
    <3> QED
        BY <1>8, <1>10, <2>3, <3>1 DEF Odd
  <2> QED
    BY <2>1, <2>2, <2>3
<1> QED
    BY <1>3, <1>6, <1>11

LEMMA JudgmentStays ==
    ASSUME IInv, NEW line \in Line, file' = Append(file, line),
           NEW n \in Nat, n = Len(file), NEW k \in 1 .. n
    PROVE  (Fine(k)' <=> Fine(k)) /\ (Closed(k)' <=> Closed(k))
<1>1. file \in Seq(Line)
    BY DEF IInv, Reading
<1>2. file'[k] = file[k]
    BY <1>1, AppendProperties
<1>3. k \in 0 .. Len(file) /\ k - 1 \in 0 .. Len(file)
    OBVIOUS
<1>4. /\ HeaderOf(k)' = HeaderOf(k) /\ Odd(k)' = Odd(k)
      /\ Odd(k - 1)' = Odd(k - 1)
    BY <1>3, AboveStays
<1> QED
    BY <1>2, <1>4 DEF Fine, Closed

\* The fallback answers of the round's category.
Answers == {b \in Content(Len(file)) : /\ file[b].kind = "text" /\ ~Odd(b)
                                       /\ file[HeaderOf(b)].category = wanted}

LEMMA DeclaredAnswers ==
    Declared = {<<Greatest(Content(b - 1)), b>> : b \in Answers}
BY DEF Declared, Greatest, Answers

\* Every line of text so far is under a header.
LEMMA TextUnderHeader ==
    ASSUME JInv, step = "reading", NEW b \in Content(Len(file)), file[b].kind = "text"
    PROVE  HeaderOf(b) # 0
<1>1. CASE b = prompt
  <2>1. b # 0
    BY DEF Content
  <2> QED
    BY <1>1, <2>1 DEF JInv, Judging, OpenPrompt
<1>2. CASE b # prompt
  <2>1. Fine(b)
    BY <1>2 DEF JInv, Judging, SoFar
  <2> QED
    BY <2>1 DEF Fine
<1> QED
    BY <1>1, <1>2

\* A line more declares one pair more if it is an answer, and none if not.
LEMMA DeclaredGrows ==
    ASSUME IInv, JInv, step = "reading", wanted' = wanted,
           NEW line \in Line, file' = Append(file, line),
           NEW n \in Nat, n = Len(file)
    PROVE  Declared' =
             IF /\ line.kind = "text" /\ ~Odd(n + 1)'
                /\ file'[HeaderOf(n + 1)'].category = wanted
             THEN Declared \cup {<<Greatest(Content(n)), n + 1>>}
             ELSE Declared
<1> DEFINE last == /\ line.kind = "text" /\ ~Odd(n + 1)'
                   /\ file'[HeaderOf(n + 1)'].category = wanted
           Is(b) == /\ file[b].kind = "text" /\ ~Odd(b)
                    /\ file[HeaderOf(b)].category = wanted
<1>1. file \in Seq(Line)
    BY DEF IInv, Reading
<1>2. /\ \A m \in 1 .. n : file'[m] = file[m]
      /\ file'[n + 1] = line /\ Len(file') = n + 1
    BY <1>1, AppendProperties
<1>3. Content(n + 1)' = IF line = Blank THEN Content(n) ELSE Content(n) \cup {n + 1}
    BY LastLine DEF JInv
<1>4. Content(n) \subseteq 1 .. n
    BY DEF Content
<1>5. ASSUME NEW b \in Content(n) PROVE Is(b)' <=> Is(b)
  <2>1. b \in 1 .. n /\ b \in 0 .. Len(file)
    BY <1>4
  <2>2. HeaderOf(b)' = HeaderOf(b) /\ Odd(b)' = Odd(b)
    BY <2>1, AboveStays
  <2>3. file'[b] = file[b]
    BY <1>2, <2>1
  <2>4. CASE file[b].kind # "text"
    BY <2>3, <2>4
  <2>5. CASE file[b].kind = "text"
    <3>1. HeaderOf(b) \in 0 .. b
        BY <2>1 DEF JInv, Sections
    <3>2. HeaderOf(b) # 0
        BY <2>5, TextUnderHeader
    <3>3. HeaderOf(b) \in 1 .. n
        BY <2>1, <3>1, <3>2
    <3> QED
        BY <1>2, <2>2, <2>3, <3>3
  <2> QED
    BY <2>4, <2>5
<1>6. Is(n + 1)' <=> last
    BY <1>2
<1>7. Blank.kind # "text"
    BY DEF Blank
<1>8. Answers = {b \in Content(n) : Is(b)}
    BY DEF Answers
<1>9. Answers' = {b \in Content(n + 1)' : Is(b)'}
    BY <1>2 DEF Answers
<1>10. Answers' = IF last THEN Answers \cup {n + 1} ELSE Answers
  <2>1. CASE line = Blank
    BY <1>3, <1>5, <1>7, <1>8, <1>9, <2>1
  <2>2. CASE line # Blank
    <3> HIDE DEF Is, last
    <3> QED
        BY <1>3, <1>5, <1>6, <1>8, <1>9, <2>2
  <2> QED
    BY <2>1, <2>2
<1>11. \A b \in Content(n) \cup {n + 1} : Content(b - 1)' = Content(b - 1)
  <2>1. \A b \in Content(n) \cup {n + 1} : b - 1 \in 0 .. Len(file)
    BY <1>4
  <2> QED
    BY <2>1, AboveStays
<1>12. Declared' = {<<Greatest(Content(b - 1)'), b>> : b \in Answers'}
    BY DEF Declared, Greatest, Answers
<1>13. Declared = {<<Greatest(Content(b - 1)), b>> : b \in Answers}
    BY DeclaredAnswers
<1>14. Answers \subseteq Content(n) /\ Content((n + 1) - 1) = Content(n)
  <2>1. (n + 1) - 1 = n
    OBVIOUS
  <2> QED
    BY <2>1 DEF Answers
<1> HIDE DEF last
<1>15. Declared' = {<<Greatest(Content(b - 1)), b>> : b \in Answers'}
  <2>1. \A b \in Answers' : Content(b - 1)' = Content(b - 1)
    BY <1>10, <1>11, <1>14
  <2> QED
    BY <1>12, <2>1
<1>16. CASE last
    BY <1>10, <1>13, <1>14, <1>15, <1>16 DEF last
<1>17. CASE ~last
    BY <1>10, <1>13, <1>15, <1>17 DEF last
<1> QED
    BY <1>16, <1>17

LEMMA SectionsStep ==
    ASSUME IInv, Sections, NEW line \in Line, file' = Append(file, line)
    PROVE  Sections'
<1> DEFINE n == Len(file)
<1>1. n \in Nat /\ file \in Seq(Line)
    BY Sizes DEF IInv, Reading
<1>2. /\ \A m \in 1 .. n : file'[m] = file[m]
      /\ file'[n + 1] = line /\ Len(file') = n + 1
    BY <1>1, AppendProperties
<1>3. PICK N \in Nat : N = Len(file)
    BY <1>1
<1>4. HeaderOf(N + 1)' = IF line.kind = "header" THEN N + 1 ELSE HeaderOf(N)
    BY <1>3, LastLine
<1>5. HeaderOf(N) \in 0 .. N
    BY <1>3 DEF Sections
<1>6. \A k \in 0 .. N + 1 : HeaderOf(k)' \in 0 .. k
  <2>1. \A k \in 0 .. N : HeaderOf(k)' = HeaderOf(k) /\ HeaderOf(k) \in 0 .. k
    BY <1>3, AboveStays DEF Sections
  <2>2. HeaderOf(N + 1)' \in 0 .. N + 1
    BY <1>4, <1>5
  <2>3. 0 .. N + 1 = (0 .. N) \cup {N + 1}
    OBVIOUS
  <2> QED
    BY <2>1, <2>2, <2>3
<1>7. ASSUME HeaderOf(N + 1)' # 0
      PROVE  /\ file'[HeaderOf(N + 1)'].kind = "header"
             /\ file'[HeaderOf(N + 1)'].category \in Category
  <2>1. CASE line.kind = "header"
    BY <1>2, <1>3, <1>4, <2>1, HeaderCategory
  <2>2. CASE line.kind # "header"
    <3>1. /\ HeaderOf(N + 1)' = HeaderOf(N) /\ HeaderOf(N) # 0
        BY <1>4, <1>7, <2>2
    <3>2. file'[HeaderOf(N)] = file[HeaderOf(N)]
        BY <1>2, <1>3, <1>5, <3>1
    <3> QED
        BY <1>3, <3>1, <3>2 DEF Sections
  <2> QED
    BY <2>1, <2>2
<1>8. Len(file') = N + 1
    BY <1>2, <1>3
<1> QED
    BY <1>6, <1>7, <1>8 DEF Sections

\* The line after a prompt: a pair if it is a fallback answer, and if not, the
\* bank is not well-formed.
LEMMA FallbackJudged ==
    ASSUME IInv, JInv, step = "reading", wanted' = wanted,
           NEW line \in Line, line # Blank, file' = Append(file, line),
           prompt # 0, TakeFallback(line)
    PROVE  (Judging /\ BankJudged)'
<1>1. PICK n \in Nat : n = Len(file)
    BY Sizes
<1>q. PICK q : q = prompt
    OBVIOUS
<1>2. file \in Seq(Line) /\ pairs \in Seq(Lines \X Lines)
    BY DEF IInv, Reading, PairsInv
<1>3. /\ \A m \in 1 .. n : file'[m] = file[m]
      /\ file'[n + 1] = line /\ Len(file') = n + 1
    BY <1>1, <1>2, AppendProperties
<1>4. /\ Content(n + 1)' = Content(n) \cup {n + 1}
      /\ HeaderOf(n + 1)' = IF line.kind = "header" THEN n + 1 ELSE HeaderOf(n)
      /\ line.kind # "header" => ~Odd(n + 1)'
      /\ HeaderOf(n)' = HeaderOf(n) /\ Odd(n)' = Odd(n) /\ Odd(n)
  <2>1. Odd(n)
    BY <1>1 DEF JInv, Judging, OpenPrompt
  <2>2. n \in 0 .. Len(file)
    BY <1>1
  <2> QED
    BY <1>1, <2>1, <2>2, LastLine, AboveStays DEF JInv
<1>5. /\ q \in Content(n) /\ file[q].kind = "text" /\ Odd(q)
      /\ HeaderOf(q) # 0 /\ HeaderOf(n) # 0
      /\ \A m \in Content(n) : m <= q
    BY <1>1, <1>q DEF JInv, Judging, OpenPrompt
<1>6. Content(n) \subseteq 1 .. n
    BY DEF Content
<1>7. n > 0 /\ (Fine(q)' <=> Fine(q))
  <2>1. q \in 1 .. n
    BY <1>5, <1>6
  <2> QED
    BY <1>1, <2>1, JudgmentStays
<1>8. Fine(q) <=> PromptValid(file[q].text)
    BY <1>5 DEF Fine
<1>9. Fine(n + 1)' <=> \/ line.kind = "header"
                       \/ line.kind = "text" /\ SubmissionValid(line.text)
    BY <1>3, <1>4, <1>5 DEF Fine
<1>10. Closed(n + 1)' <=> line.kind # "header"
  <2>1. (n + 1) - 1 = n /\ n + 1 # 1
    BY <1>7
  <2>2. Odd((n + 1) - 1)' <=> Odd(n)'
    BY <2>1
  <2> QED
    BY <1>3, <1>4, <2>1, <2>2 DEF Closed
<1>11. CASE ~(/\ line.kind = "text" /\ PromptValid(file[q].text)
              /\ SubmissionValid(line.text))
  <2>1. step' = "malformed"
    BY <1>q, <1>11 DEF TakeFallback, Malformed
  <2>2. q \in Content(Len(file))' /\ n + 1 \in Content(Len(file))'
    BY <1>3, <1>4, <1>5
  <2>3. ~(Fine(q) /\ Fine(n + 1) /\ Closed(n + 1))'
    BY <1>7, <1>8, <1>9, <1>10, <1>11
  <2>4. ~WellFormed'
    <3>1. WellFormed' => \A k \in Content(Len(file))' : Fine(k)' /\ Closed(k)'
        BY DEF WellFormed, Fine, Closed
    <3> QED
        BY <2>2, <2>3, <3>1
  <2> QED
    BY <2>1, <2>4 DEF Judging, BankJudged, Loaded
<1>12. CASE /\ line.kind = "text" /\ PromptValid(file[q].text)
            /\ SubmissionValid(line.text)
  <2>1. /\ pairs' = IF section = wanted THEN Append(pairs, <<q, n + 1>>)
                    ELSE pairs
        /\ prompt' = 0 /\ section' = section /\ step' = step
    BY <1>1, <1>q, <1>12 DEF TakeFallback
  <2>2. InSection'
    <3>1. HeaderOf(n) \in 1 .. n
        BY <1>1, <1>5 DEF JInv, Sections
    <3>2. HeaderOf(n + 1)' = HeaderOf(n) /\ file'[HeaderOf(n)] = file[HeaderOf(n)]
        BY <1>3, <1>4, <1>12, <3>1
    <3> QED
        BY <1>1, <1>3, <2>1, <3>2 DEF JInv, Judging, InSection
  <2>3. OpenPrompt'
    BY <1>3, <1>4, <1>12, <2>1 DEF OpenPrompt
  <2>4. SoFar'
    <3>1. \A k \in Content(n) : /\ Closed(k)' <=> Closed(k)
                                /\ Fine(k)' <=> Fine(k)
        BY <1>1, <1>6, JudgmentStays
    <3>2. \A k \in Content(n) : Closed(k) /\ Fine(k)
        BY <1>1, <1>q, <1>8, <1>12 DEF JInv, Judging, SoFar
    <3>3. Fine(n + 1)' /\ Closed(n + 1)'
        BY <1>9, <1>10, <1>12
    <3>4. Content(Len(file))' = Content(n) \cup {n + 1}
        BY <1>3, <1>4
    <3> QED
        BY <3>1, <3>2, <3>3, <3>4 DEF SoFar
  <2>5. Greatest(Content(n)) = q
    <3>1. Content(n) \in SUBSET Nat
        BY <1>6
    <3>2. Topmost(Content(n)) = q
        BY <1>5, <3>1, TopmostIs
    <3> QED
        BY <1>5, <3>2 DEF Topmost
  <2>6. file'[HeaderOf(n + 1)'].category = section
    <3>1. HeaderOf(n) \in 1 .. n
        BY <1>1, <1>5 DEF JInv, Sections
    <3>2. HeaderOf(n + 1)' = HeaderOf(n) /\ file'[HeaderOf(n)] = file[HeaderOf(n)]
        BY <1>3, <1>4, <1>12, <3>1
    <3> QED
        BY <1>1, <1>5, <3>2 DEF JInv, Judging, InSection
  <2>7. Declared' = IF section = wanted THEN Declared \cup {<<q, n + 1>>}
                    ELSE Declared
    BY <1>1, <1>4, <1>12, <2>5, <2>6, DeclaredGrows
  <2>8. Gathered' = IF section = wanted THEN Gathered \cup {<<q, n + 1>>}
                    ELSE Gathered
    <3>1. CASE section = wanted
      <4>1. pairs' = Append(pairs, <<q, n + 1>>)
          BY <2>1, <3>1
      <4>2. /\ DOMAIN pairs = 1 .. Len(pairs) /\ Len(pairs) \in Nat
            /\ DOMAIN pairs' = 1 .. Len(pairs) + 1
            /\ pairs'[Len(pairs) + 1] = <<q, n + 1>>
            /\ \A m \in 1 .. Len(pairs) : pairs'[m] = pairs[m]
        <5>1. pairs \in Seq(Lines \X Lines \cup {<<q, n + 1>>})
            BY <1>2, SeqMonotonic
        <5> QED
            BY <4>1, <5>1, AppendProperties, LenProperties
      <4>3. 1 .. Len(pairs) + 1 = (1 .. Len(pairs)) \cup {Len(pairs) + 1}
          BY <4>2
      <4> QED
          BY <3>1, <4>2, <4>3 DEF Gathered
    <3>2. CASE section # wanted
        BY <2>1, <3>2 DEF Gathered
    <3> QED
        BY <3>1, <3>2
  <2>9. (Gathered = Declared)'
    BY <2>7, <2>8 DEF JInv, Judging
  <2> QED
    BY <2>1, <2>2, <2>3, <2>4, <2>9 DEF Judging, BankJudged, Loaded
<1> QED
    BY <1>11, <1>12

\* A line where a prompt or a header may stand: anything else, and a prompt
\* above every header, makes the bank ill-formed.
LEMMA LineJudged ==
    ASSUME IInv, JInv, step = "reading", wanted' = wanted,
           NEW line \in Line, line # Blank, file' = Append(file, line),
           prompt = 0, TakeLine(line)
    PROVE  (Judging /\ BankJudged)'
<1>1. PICK n \in Nat : n = Len(file)
    BY Sizes
<1>2. file \in Seq(Line)
    BY DEF IInv, Reading
<1>3. /\ \A m \in 1 .. n : file'[m] = file[m]
      /\ file'[n + 1] = line /\ Len(file') = n + 1
    BY <1>1, <1>2, AppendProperties
<1>4. /\ Content(n + 1)' = Content(n) \cup {n + 1}
      /\ HeaderOf(n + 1)' = IF line.kind = "header" THEN n + 1 ELSE HeaderOf(n)
      /\ Odd(n + 1)' <=> line.kind # "header"
      /\ HeaderOf(n)' = HeaderOf(n) /\ Odd(n)' = Odd(n) /\ ~Odd(n)
  <2>1. ~Odd(n)
    BY <1>1 DEF JInv, Judging, OpenPrompt
  <2>2. n \in 0 .. Len(file)
    BY <1>1
  <2> QED
    BY <1>1, <2>1, <2>2, LastLine, AboveStays DEF JInv
<1>5. Content(n) \subseteq 1 .. n /\ HeaderOf(n) \in 0 .. n
    BY <1>1 DEF Content, JInv, Sections
<1>6. \A k \in Content(n) : (Fine(k) /\ Closed(k))'
  <2>1. \A k \in Content(n) : Fine(k) /\ Closed(k)
    <3>1. \A k \in Content(n) : k # prompt
        BY <1>5
    <3> QED
        BY <1>1, <3>1 DEF JInv, Judging, SoFar
  <2>2. \A k \in Content(n) : (Fine(k)' <=> Fine(k)) /\ (Closed(k)' <=> Closed(k))
    BY <1>1, <1>5, JudgmentStays
  <2> QED
    BY <2>1, <2>2
<1>7. Closed(n + 1)'
  <2>1. (n + 1) - 1 = n
    OBVIOUS
  <2>2. Odd((n + 1) - 1)' <=> Odd(n)'
    BY <2>1
  <2> QED
    BY <1>4, <2>2 DEF Closed
<1>8. section = NoCategory <=> HeaderOf(n) = 0
    BY <1>1, TextAssumption DEF JInv, Sections, Judging, InSection
<1>9. Declared' = Declared
    BY <1>1, <1>4, DeclaredGrows, HeaderCategory
<1>10. CASE line.kind = "header"
  <2>1. section' = line.category /\ UNCHANGED <<prompt, pairs, step>>
    BY <1>10 DEF TakeLine
  <2>2. InSection'
    BY <1>3, <1>4, <1>10, <2>1 DEF InSection
  <2>3. OpenPrompt'
    BY <1>3, <1>4, <1>10, <2>1 DEF OpenPrompt
  <2>4. SoFar'
    <3>1. Fine(n + 1)'
        BY <1>3, <1>10 DEF Fine
    <3> QED
        BY <1>3, <1>4, <1>6, <1>7, <3>1 DEF SoFar
  <2>5. (Gathered = Declared)'
    BY <1>9, <2>1 DEF Gathered, JInv, Judging
  <2> QED
    BY <2>1, <2>2, <2>3, <2>4, <2>5 DEF Judging, BankJudged, Loaded
<1>11. CASE line.kind = "text" /\ section # NoCategory
  <2>1. prompt' = n + 1 /\ UNCHANGED <<section, pairs, step>>
    BY <1>1, <1>11 DEF TakeLine
  <2>2. HeaderOf(n) # 0 /\ HeaderOf(n + 1)' = HeaderOf(n)
    BY <1>4, <1>8, <1>11
  <2>3. InSection'
    <3>1. file'[HeaderOf(n)] = file[HeaderOf(n)]
        BY <1>3, <1>5, <2>2
    <3> QED
        BY <1>1, <1>3, <2>1, <2>2, <3>1 DEF JInv, Judging, InSection
  <2>4. OpenPrompt'
    <3>1. prompt' # 0 /\ Odd(n + 1)'
        BY <1>4, <1>11, <2>1
    <3>2. /\ n + 1 \in Content(n + 1)' /\ file'[n + 1].kind = "text"
          /\ HeaderOf(n + 1)' # 0 /\ \A m \in Content(n + 1)' : m <= n + 1
        BY <1>3, <1>4, <1>5, <1>11, <2>2
    <3>3. PICK N : N = n + 1
        OBVIOUS
    <3>4. Len(file') = N /\ prompt' = N
        BY <1>3, <2>1, <3>3
    <3>5. /\ N \in Content(N)' /\ file'[N].kind = "text" /\ HeaderOf(N)' # 0
          /\ \A m \in Content(N)' : m <= N
          /\ Odd(N)' /\ prompt' # 0
        BY <3>1, <3>2, <3>3
    <3> QED
        BY <3>4, <3>5 DEF OpenPrompt
  <2>5. SoFar'
    BY <1>3, <1>4, <1>6, <1>7, <2>1 DEF SoFar
  <2>6. (Gathered = Declared)'
    BY <1>9, <2>1 DEF Gathered, JInv, Judging
  <2> QED
    BY <2>1, <2>3, <2>4, <2>5, <2>6 DEF Judging, BankJudged, Loaded
<1>12. CASE line.kind # "header" /\ ~(line.kind = "text" /\ section # NoCategory)
  <2>1. step' = "malformed"
    BY <1>12 DEF TakeLine, Malformed
  <2>2. n + 1 \in Content(Len(file))'
    BY <1>3, <1>4
  <2>3. ~Fine(n + 1)'
    BY <1>3, <1>4, <1>8, <1>12 DEF Fine
  <2>4. ~WellFormed'
    <3>1. WellFormed' => \A k \in Content(Len(file))' : Fine(k)'
        BY DEF WellFormed, Fine
    <3> QED
        BY <2>2, <2>3, <3>1
  <2> QED
    BY <2>1, <2>4 DEF Judging, BankJudged, Loaded
<1> QED
    BY <1>10, <1>11, <1>12

LEMMA BlankJudged ==
    ASSUME IInv, JInv, step = "reading", wanted' = wanted, file' = Append(file, Blank),
           UNCHANGED <<section, prompt, pairs, step>>
    PROVE  (Judging /\ BankJudged)'
<1>1. PICK n \in Nat : n = Len(file)
    BY Sizes
<1>q. PICK q : q = prompt
    OBVIOUS
<1>2. Blank \in Line /\ Blank.kind = "blank" /\ file \in Seq(Line)
    BY DEF Line, Blank, IInv, Reading
<1>3. /\ \A m \in 1 .. n : file'[m] = file[m]
      /\ Len(file') = n + 1
    BY <1>1, <1>2, AppendProperties
<1>4. /\ Content(n + 1)' = Content(n)
      /\ HeaderOf(n + 1)' = HeaderOf(n)
      /\ Odd(n + 1)' <=> Odd(n)
    BY <1>1, <1>2, LastLine DEF JInv
<1>5. Content(n) \subseteq 1 .. n /\ HeaderOf(n) \in 0 .. n
    BY <1>1 DEF Content, JInv, Sections
<1>6. InSection'
  <2>1. HeaderOf(n) # 0 => file'[HeaderOf(n)] = file[HeaderOf(n)]
    BY <1>3, <1>5
  <2> QED
    BY <1>1, <1>3, <1>4, <2>1 DEF JInv, Judging, InSection
<1>7. OpenPrompt'
  <2>1. ASSUME q \in 1 .. n
        PROVE  /\ Odd(q)' = Odd(q) /\ HeaderOf(q)' = HeaderOf(q)
               /\ file'[q] = file[q]
    BY <1>1, <1>2, <1>3, <2>1, AboveStays
  <2>2. q # 0 <=> Odd(n + 1)'
    BY <1>1, <1>q, <1>4 DEF JInv, Judging, OpenPrompt
  <2>3. q # 0 => /\ q \in Content(n + 1)' /\ file'[q].kind = "text" /\ Odd(q)'
                 /\ HeaderOf(q)' # 0 /\ HeaderOf(n + 1)' # 0
                 /\ \A m \in Content(n + 1)' : m <= q
    BY <1>1, <1>q, <1>4, <1>5, <2>1 DEF JInv, Judging, OpenPrompt
  <2> QED
    BY <1>q, <1>3, <2>2, <2>3 DEF OpenPrompt
<1>8. SoFar'
  <2>1. \A k \in Content(n) : (Fine(k)' <=> Fine(k)) /\ (Closed(k)' <=> Closed(k))
    BY <1>1, <1>2, <1>5, JudgmentStays
  <2> QED
    BY <1>1, <1>3, <1>4, <2>1 DEF JInv, Judging, SoFar
<1>9. (Gathered = Declared)'
  <2>1. Declared' = Declared
    BY <1>1, <1>2, DeclaredGrows
  <2> QED
    BY <2>1 DEF Gathered, JInv, Judging
<1> QED
    BY <1>6, <1>7, <1>8, <1>9 DEF Judging, BankJudged, Loaded

LEMMA ReadLineJudged == IInv /\ JInv /\ ReadLine => JInv'
<1> SUFFICES ASSUME IInv, JInv, ReadLine PROVE JInv'
    OBVIOUS
<1>1. PICK line \in Line :
        /\ file' = Append(file, line)
        /\ IF line = Blank THEN UNCHANGED <<section, prompt, pairs, step>>
           ELSE IF prompt # 0 THEN TakeFallback(line)
           ELSE TakeLine(line)
    BY DEF ReadLine
<1>2. step = "reading" /\ wanted' = wanted
    BY DEF ReadLine
<1>3. Sections'
    BY <1>1, SectionsStep DEF JInv
<1>4. CASE line = Blank
    BY <1>1, <1>2, <1>3, <1>4, BlankJudged DEF JInv
<1>5. CASE line # Blank /\ prompt # 0
    BY <1>1, <1>2, <1>3, <1>5, FallbackJudged DEF JInv
<1>6. CASE line # Blank /\ prompt = 0
    BY <1>1, <1>2, <1>3, <1>6, LineJudged DEF JInv
<1> QED
    BY <1>4, <1>5, <1>6

\* The judgment of a bank that stands still does.
LEMMA SameJudgment ==
    ASSUME UNCHANGED <<file, wanted, pairs>>
    PROVE  /\ (Sections' <=> Sections) /\ (WellFormed' <=> WellFormed)
           /\ Declared' = Declared /\ Gathered' = Gathered
<1>1. \A k : Content(k)' = Content(k) /\ HeaderOf(k)' = HeaderOf(k)
    BY DEF Content, HeaderOf
<1>2. \A k : Under(k)' = Under(k)
    BY <1>1 DEF Under
<1>3. \A k : Odd(k)' = Odd(k)
    BY <1>2 DEF Odd
<1>4. Sections' <=> Sections
    BY <1>1 DEF Sections
<1>5. WellFormed' <=> WellFormed
    BY <1>1, <1>3 DEF WellFormed
<1>6. Declared' = Declared
    BY <1>1, <1>3 DEF Declared
<1> QED
    BY <1>4, <1>5, <1>6 DEF Gathered

\* At the end of the file nothing is left open, or the bank is ill-formed.
LEMMA EndJudged == IInv /\ JInv /\ EndOfFile => JInv'
<1> SUFFICES ASSUME IInv, JInv, EndOfFile PROVE JInv'
    OBVIOUS
<1>1. /\ step = "reading"
      /\ step' = IF prompt # 0 THEN "malformed"
                 ELSE IF TooFew THEN "too few" ELSE "shuffling"
      /\ UNCHANGED <<file, wanted, pairs>>
    BY DEF EndOfFile
<1>2. /\ Sections' /\ (WellFormed' <=> WellFormed)
      /\ Declared' = Declared /\ Gathered' = Gathered
    BY <1>1, SameJudgment DEF JInv
<1>3. OpenPrompt /\ SoFar /\ Gathered = Declared
    BY <1>1 DEF JInv, Judging
<1>4. CASE prompt # 0
  <2>1. Len(file) > 0 /\ Odd(Len(file))
    BY <1>3, <1>4, Sizes DEF OpenPrompt, Content
  <2>2. ~WellFormed
    BY <2>1, WellFormedLines
  <2> QED
    BY <1>1, <1>2, <1>4, <2>2 DEF JInv, Judging, BankJudged, Loaded
<1>5. CASE prompt = 0
  <2>1. \A k \in Content(Len(file)) : Fine(k) /\ Closed(k)
    <3>1. \A k \in Content(Len(file)) : k # prompt
        BY <1>5 DEF Content
    <3> QED
        BY <1>3, <3>1 DEF SoFar
  <2>2. WellFormed
    BY <1>3, <1>5, <2>1, WellFormedLines DEF OpenPrompt
  <2>3. step' \in {"too few", "shuffling"}
    BY <1>1, <1>5
  <2> QED
    BY <1>2, <1>3, <2>2, <2>3 DEF JInv, Judging, BankJudged, Loaded, Gathered
<1> QED
    BY <1>4, <1>5

\* Every other step leaves the judgment of the lines read alone.
LEMMA OtherStepsJudged ==
    ASSUME IInv, JInv, NoBank \/ Shuffle \/ Deal \/ UNCHANGED bankVars
    PROVE  JInv'
<1>1. UNCHANGED <<file, wanted, pairs>>
    BY DEF NoBank, Shuffle, Deal, bankVars
<1>2. /\ Sections' /\ (WellFormed' <=> WellFormed)
      /\ Declared' = Declared /\ Gathered' = Gathered
    BY <1>1, SameJudgment DEF JInv
<1>3. \/ step' = "unreadable"
      \/ step = "shuffling" /\ step' \in {"shuffling", "dealt"}
      \/ UNCHANGED bankVars
    BY DEF NoBank, Shuffle, Deal
<1>4. CASE step' = "unreadable"
    BY <1>2, <1>4 DEF JInv, Judging, BankJudged, Loaded
<1>5. CASE step = "shuffling" /\ step' \in {"shuffling", "dealt"}
    BY <1>2, <1>5 DEF JInv, Judging, BankJudged, Loaded, Gathered
<1>6. CASE UNCHANGED bankVars
  <2>1. UNCHANGED <<step, section, prompt>>
    BY <1>6 DEF bankVars
  <2>2. \A k : Content(k)' = Content(k) /\ HeaderOf(k)' = HeaderOf(k)
    BY <1>1 DEF Content, HeaderOf
  <2>3. \A k : Under(k)' = Under(k)
    BY <2>2 DEF Under
  <2>4. \A k : Odd(k)' = Odd(k)
    BY <2>3 DEF Odd
  <2>5. InSection' <=> InSection
    BY <1>1, <2>1, <2>2 DEF InSection
  <2>6. OpenPrompt' <=> OpenPrompt
    BY <1>1, <2>1, <2>2, <2>4 DEF OpenPrompt
  <2>7. SoFar' <=> SoFar
    <3>1. \A k : (Fine(k)' <=> Fine(k)) /\ (Closed(k)' <=> Closed(k))
        BY <1>1, <2>2, <2>4 DEF Fine, Closed
    <3> QED
        BY <1>1, <2>1, <2>2, <3>1 DEF SoFar
  <2> QED
    BY <1>2, <2>1, <2>5, <2>6, <2>7 DEF JInv, Judging, BankJudged, Loaded, Gathered
<1> QED
    BY <1>3, <1>4, <1>5, <1>6

\* A file of which nothing is read has no lines to judge.
LEMMA InitJudged == BankInit => JInv
<1> SUFFICES ASSUME BankInit PROVE JInv
    OBVIOUS
<1>1. /\ Len(file) = 0 /\ section = NoCategory /\ prompt = 0
      /\ pairs = <<>> /\ step \in {"refused", "reading"}
    BY DEF BankInit
<1>2. Content(0) = {} /\ HeaderOf(0) = 0
    BY DEF Content, HeaderOf
<1>3. ~Odd(0)
  <2>1. Cardinality(Under(0)) = 0
    BY <1>2, FS_EmptySet DEF Under
  <2> QED
    BY <2>1 DEF Odd
<1>4. Sections
    BY <1>1, <1>2 DEF Sections
<1>5. InSection /\ OpenPrompt /\ SoFar
    BY <1>1, <1>2, <1>3 DEF InSection, OpenPrompt, SoFar
<1>6. Gathered = {} /\ Declared = {}
  <2>1. Gathered = {}
    BY <1>1 DEF Gathered
  <2>2. Answers = {}
    BY <1>1, <1>2 DEF Answers
  <2> QED
    BY <2>1, <2>2, DeclaredAnswers
<1> QED
    BY <1>1, <1>4, <1>5, <1>6 DEF JInv, Judging, BankJudged, Loaded

LEMMA StepJudged == IInv /\ JInv /\ [BankNext]_bankVars => JInv'
BY ReadLineJudged, EndJudged, OtherStepsJudged DEF BankNext

\* The loader refuses a bank for its contents only if it is not well-formed,
\* accepts it only if all of it is, under every header, and has then collected
\* the pairs of the round's category, every one and no other.
THEOREM BankJudgedRight == BankSpec => []BankJudged
<1>1. BankInit => IInv /\ JInv
    BY InitBank, InitJudged
<1>2. IInv /\ JInv /\ [BankNext]_bankVars => (IInv /\ JInv)'
    BY StepBank, StepJudged
<1>3. JInv => BankJudged
    BY DEF JInv
<1> QED
    BY <1>1, <1>2, <1>3, PTL DEF BankSpec
=============================================================================
