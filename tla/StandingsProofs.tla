-------------------------- MODULE StandingsProofs ---------------------------
(***************************************************************************)
(* Theorems about the scoreboard and the winners, for any number of        *)
(* players and any scores.  All rest on one inductive invariant, IInv: one *)
(* conjunct for each loop, saying what it has achieved so far.             *)
(***************************************************************************)
EXTENDS Standings, FiniteSetTheorems, SequenceTheorems, TLAPS

----------------------------------------------------------------------------
(* Sequences.                                                              *)

LEMMA Appended ==
    ASSUME NEW S, NEW s \in Seq(S), NEW e \in S
    PROVE  /\ Append(s, e) \in Seq(S)
           /\ Len(Append(s, e)) = Len(s) + 1
           /\ \A k \in 1 .. Len(s) : Append(s, e)[k] = s[k]
           /\ Append(s, e)[Len(s) + 1] = e
           /\ Len(s) \in Nat
           /\ \A k \in 1 .. Len(s) : s[k] \in S
BY AppendProperties, LenProperties, ElementOfSeq

\* An exchange is what it is called.
LEMMA ExchangeSwaps ==
    ASSUME NEW S, NEW s \in Seq(S), NEW a \in 1 .. Len(s), NEW b \in 1 .. Len(s)
    PROVE  /\ Exchanged(s, a, b) \in Seq(S)
           /\ Len(Exchanged(s, a, b)) = Len(s)
           /\ \A k \in 1 .. Len(s) :
                Exchanged(s, a, b)[k] = IF k = a THEN s[b]
                                        ELSE IF k = b THEN s[a] ELSE s[k]
<1>1. s \in [1 .. Len(s) -> S] /\ Len(s) \in Nat
    BY LenProperties
<1>2. s[a] \in S /\ s[b] \in S
    BY ElementOfSeq
<1>3. [s EXCEPT ![a] = s[b]] \in Seq(S) /\ Len([s EXCEPT ![a] = s[b]]) = Len(s)
    BY <1>2, ExceptSeq
<1>4. Exchanged(s, a, b) \in Seq(S) /\ Len(Exchanged(s, a, b)) = Len(s)
    BY <1>2, <1>3, ExceptSeq DEF Exchanged
<1>5. \A k \in 1 .. Len(s) :
         Exchanged(s, a, b)[k] = IF k = a THEN s[b]
                                 ELSE IF k = b THEN s[a] ELSE s[k]
    BY <1>1 DEF Exchanged
<1> QED
    BY <1>4, <1>5

----------------------------------------------------------------------------
(* The invariant.                                                          *)

Places == 1 .. Len(order)

\* While players are collected: those before i have a place.
Collecting ==
    stage = "collect" =>
      /\ Len(order) < i
      /\ \A a \in Places : order[a] < i
      /\ \A p \in connected : p < i => \E a \in Places : order[a] = p

Distinct == \A a, b \in Places : order[a] = order[b] => a = b

AllPlaced == \A p \in connected : \E a \in Places : order[a] = p

\* While places are filled: those before i are final, and place i holds the
\* best of the places compared with it.
Sorting ==
    stage = "sort" =>
      /\ j > i
      /\ \A a, b \in Places : a < i /\ a < b => score[order[a]] >= score[order[b]]
      /\ \A b \in Places : i < b /\ b < j => score[order[i]] >= score[order[b]]

Winners(n) == {p \in connected : p < n /\ score[p] = best}

\* While the best score is looked for: the best one before i.
Scanning ==
    /\ stage = "best" => \A p \in connected : p < i => score[p] <= best
    /\ stage \in {"count", "name"} => \A p \in connected : score[p] <= best
    /\ best = -1 \/ stage = "done" \/ \E p \in connected : score[p] = best
    /\ stage \in {"label", "collect", "sort", "show"} => best = -1

\* While winners are counted, then named.
Naming ==
    /\ stage \in {"label", "collect", "sort", "show", "best"} => count = 0
    /\ stage = "count" => count = Cardinality(Winners(i)) /\ count < i
    /\ stage \notin {"name", "done"} => named = <<>>
    /\ stage = "name" =>
         /\ count = Cardinality(Winners(MaxPlayers + 1))
         /\ Len(named) = Cardinality(Winners(i))
         /\ {named[n] : n \in 1 .. Len(named)} = Winners(i)

IInv ==
    /\ BoardTypeOK
    /\ stage = "label" => order = <<>>
    /\ Collecting
    /\ stage # "label" => Distinct
    /\ stage \notin {"label", "collect"} => AllPlaced
    /\ Sorting
    /\ stage \in Later => \A a, b \in Places :
                            a < b => score[order[a]] >= score[order[b]]
    /\ Scanning
    /\ Naming

USE MaxPlayersAssumption, ScoreAssumption DEF Slot

\* What the types say, in the form the provers need.
LEMMA Loop == IInv => i \in Nat /\ i >= 1 /\ i <= MaxPlayers + 1
BY DEF IInv, BoardTypeOK

LEMMA Players ==
    IInv => /\ connected \subseteq Slot
            /\ \A p \in connected : p \in Nat /\ 1 <= p /\ p <= MaxPlayers
<1>1. IInv => connected \subseteq Slot
    BY DEF IInv, BoardTypeOK
<1> QED
    BY <1>1

LEMMA Scores ==
    IInv => /\ \A p \in Slot : score[p] \in Score /\ score[p] \in Nat
            /\ \A p \in connected : score[p] \in Nat
            /\ best \in Nat \/ best = -1
<1> SUFFICES ASSUME IInv PROVE /\ \A p \in Slot : score[p] \in Score /\ score[p] \in Nat
                               /\ \A p \in connected : score[p] \in Nat
                               /\ best \in Nat \/ best = -1
    OBVIOUS
<1>1. score \in [Slot -> Score] /\ best \in Score \cup {-1}
    BY Zenon DEF IInv, BoardTypeOK
<1>2. \A p \in Slot : score[p] \in Score
    BY <1>1, Zenon
<1> QED
    BY <1>1, <1>2, Players

LEMMA Order ==
    IInv => /\ order \in Seq(Slot) /\ order \in [Places -> Slot]
            /\ Len(order) \in Nat /\ Len(order) <= MaxPlayers
            /\ \A a \in Places : order[a] \in Slot /\ score[order[a]] \in Nat
<1> SUFFICES ASSUME IInv
             PROVE  /\ order \in Seq(Slot) /\ order \in [Places -> Slot]
                    /\ Len(order) \in Nat /\ Len(order) <= MaxPlayers
                    /\ \A a \in Places : order[a] \in Slot /\ score[order[a]] \in Nat
    OBVIOUS
<1>1. order \in Seq(Slot) /\ Len(order) <= MaxPlayers
    BY DEF IInv, BoardTypeOK
<1>2. Len(order) \in Nat /\ order \in [Places -> Slot]
    BY <1>1, LenProperties DEF Places
<1>3. \A a \in Places : order[a] \in Slot
    BY <1>2, Zenon
<1>4. \A p \in Slot : score[p] \in Nat
    BY Scores
<1> QED
    BY <1>1, <1>2, <1>3, <1>4

LEMMA InitBoard == BoardInit => IInv
BY DEF BoardInit, IInv, BoardTypeOK, Collecting, Places, Sorting, Scanning,
       Naming, Later

LEMMA LabelStep == IInv /\ Label => IInv'
BY DEF IInv, BoardTypeOK, Label, Goto, Send, Collecting, Distinct, AllPlaced,
       Places, Sorting, Scanning, Naming, Later

LEMMA CollectStep == IInv /\ Collect => IInv'
<1> SUFFICES ASSUME IInv, Collect PROVE IInv'
    OBVIOUS
<1>0. /\ i \in 1 .. MaxPlayers /\ order \in Seq(Slot) /\ Len(order) \in Nat
      /\ Len(order) < i /\ stage = "collect"
      /\ \A a \in 1 .. Len(order) : order[a] \in 1 .. MaxPlayers
    BY LenProperties, ElementOfSeq DEF IInv, BoardTypeOK, Collect, Collecting
<1>1. BoardTypeOK'
  <2>1. order' \in Seq(Slot) /\ Len(order') <= MaxPlayers
    <3>1. CASE i \in connected
        <4>1. order' = Append(order, i) /\ i \in Slot
            BY <1>0, <3>1 DEF Collect
        <4>2. order' \in Seq(Slot) /\ Len(order') = Len(order) + 1
            BY <1>0, <4>1, Appended
        <4> QED
            BY <1>0, <4>2
    <3>2. CASE i \notin connected
        BY <1>0, <3>2 DEF Collect
    <3> QED
        BY <3>1, <3>2
  <2> QED
    BY <1>0, <2>1 DEF IInv, BoardTypeOK, Collect
<1>2. Collecting' /\ Distinct'
  <2>1. CASE i \in connected
    <3>1. /\ Len(order') = Len(order) + 1 /\ order'[Len(order) + 1] = i
          /\ \A a \in 1 .. Len(order) : order'[a] = order[a]
        BY <1>0, <2>1, Appended DEF Collect
    <3>2. Collecting'
      <4>1. /\ i' = i + 1 /\ connected' = connected /\ stage' = stage
            /\ connected \subseteq Slot
            /\ \A p \in connected : p < i => \E a \in Places : order[a] = p
            /\ \A a \in Places : order[a] < i
          BY <1>0 DEF IInv, BoardTypeOK, Collect, Collecting
      <4>2. \A a \in 1 .. Len(order') : order'[a] < i'
          BY <1>0, <3>1, <4>1 DEF Places
      <4>3. ASSUME NEW p \in connected, p < i + 1
            PROVE  \E a \in 1 .. Len(order') : order'[a] = p
          BY <1>0, <3>1, <4>1, <4>3 DEF Places
      <4> QED
          BY <1>0, <3>1, <4>1, <4>2, <4>3 DEF Collecting, Places
    <3>3. Distinct'
        BY <1>0, <2>1, <3>1 DEF IInv, BoardTypeOK, Collect, Collecting, Distinct, Places
    <3> QED
        BY <3>2, <3>3
  <2>2. CASE i \notin connected
    BY <2>2 DEF IInv, BoardTypeOK, Collect, Collecting, Distinct, Places
  <2> QED
    BY <2>1, <2>2
<1>3. (Scanning /\ Naming /\ Sorting)'
    BY DEF IInv, BoardTypeOK, Collect, Scanning, Naming, Sorting
<1> QED
    BY <1>1, <1>2, <1>3 DEF IInv, Collect, Later

LEMMA CollectedStep == IInv /\ Collected => IInv'
BY DEF IInv, BoardTypeOK, Collected, Goto, Collecting, Distinct, AllPlaced,
       Places, Sorting, Scanning, Naming, Later

LEMMA CompareStep == IInv /\ Compare => IInv'
<1> SUFFICES ASSUME IInv, Compare PROVE IInv'
    OBVIOUS
<1>0. /\ i \in 1 .. Len(order) /\ j \in 1 .. Len(order) /\ i < j
      /\ order \in [1 .. Len(order) -> Slot] /\ Len(order) \in Nat
      /\ stage = "sort" /\ stage' = "sort" /\ order \in Seq(Slot)
  <2>1. i <= Len(order) /\ j <= Len(order) /\ stage = "sort" /\ stage' = stage
    BY DEF Compare
  <2>2. j > i /\ j \in Nat
    BY <2>1 DEF IInv, BoardTypeOK, Sorting
  <2> QED
    BY <2>1, <2>2, Loop, Order DEF Places
<1>s. \A a \in 1 .. Len(order) : order[a] \in Slot /\ score[order[a]] \in Nat
    BY Order DEF Places
<1>1. CASE ~(score[order[j]] > score[order[i]])
  <2>1. order' = order /\ j' = j + 1 /\ score[order[i]] >= score[order[j]]
    BY <1>0, <1>1, <1>s DEF Compare
  <2>2. BoardTypeOK'
    BY <1>0, <2>1 DEF IInv, BoardTypeOK, Compare
  <2>3. \A b \in Places : i < b /\ b < j + 1 => score[order[i]] >= score[order[b]]
    <3> SUFFICES ASSUME NEW b \in Places, i < b, b < j + 1
                 PROVE  score[order[i]] >= score[order[b]]
        OBVIOUS
    <3>1. b < j \/ b = j
        BY <1>0 DEF Places
    <3> QED
        BY <1>0, <2>1, <3>1 DEF IInv, Sorting
  <2>4. Sorting'
    BY <1>0, <2>1, <2>3 DEF IInv, Sorting, Places, Compare
  <2> QED
    BY <1>0, <2>1, <2>2, <2>4
    DEF IInv, Collecting, Distinct, AllPlaced, Places, Scanning, Naming, Later, Compare
<1>2. CASE score[order[j]] > score[order[i]]
  <2>1. /\ order' \in Seq(Slot) /\ Len(order') = Len(order)
        /\ \A a \in Places : order'[a] = IF a = i THEN order[j]
                                         ELSE IF a = j THEN order[i] ELSE order[a]
    <3>1. order' = Exchanged(order, i, j)
        BY <1>0, <1>2 DEF Compare
    <3>2. /\ Exchanged(order, i, j) \in Seq(Slot)
          /\ Len(Exchanged(order, i, j)) = Len(order)
          /\ \A k \in 1 .. Len(order) :
               Exchanged(order, i, j)[k] = IF k = i THEN order[j]
                                           ELSE IF k = j THEN order[i] ELSE order[k]
      <4>1. order \in Seq(Slot) /\ i \in 1 .. Len(order) /\ j \in 1 .. Len(order)
          BY <1>0
      <4> HIDE DEF Slot
      <4> QED
          BY <4>1, ExchangeSwaps
    <3> QED
        BY <3>1, <3>2 DEF Places
  <2>2. BoardTypeOK'
    BY <1>0, <2>1 DEF IInv, BoardTypeOK, Compare
  <2>3. Distinct'
    BY <1>0, <2>1 DEF IInv, Distinct, Places
  <2>4. AllPlaced'
    <3> SUFFICES ASSUME NEW p \in connected PROVE \E a \in Places : order'[a] = p
        BY <2>1 DEF AllPlaced, Places, Compare
    <3>1. PICK a \in Places : order[a] = p
        BY <1>0 DEF IInv, AllPlaced
    <3>2. order'[IF a = i THEN j ELSE IF a = j THEN i ELSE a] = p
        BY <1>0, <2>1, <3>1 DEF Places
    <3> QED
        BY <1>0, <3>1, <3>2 DEF Places
  <2>5. Sorting'
    <3>1. \A a, b \in Places :
            a < i /\ a < b => score[order'[a]] >= score[order'[b]]
      <4> SUFFICES ASSUME NEW a \in Places, NEW b \in Places, a < i, a < b
                   PROVE  score[order'[a]] >= score[order'[b]]
          OBVIOUS
      <4>1. order'[a] = order[a]
          BY <1>0, <2>1 DEF Places
      <4>2. PICK c \in Places : a < c /\ order'[b] = order[c]
          BY <1>0, <2>1 DEF Places
      <4> QED
          BY <1>0, <4>1, <4>2 DEF IInv, Sorting
    <3>2. \A b \in Places : i < b /\ b < j + 1 => score[order'[i]] >= score[order'[b]]
      <4> SUFFICES ASSUME NEW b \in Places, i < b, b < j + 1
                   PROVE  score[order'[i]] >= score[order'[b]]
          OBVIOUS
      <4>1. score[order[i]] \in Nat /\ score[order[j]] \in Nat /\ score[order[b]] \in Nat
          BY <1>0, <1>s DEF Places
      <4>2. order'[i] = order[j]
          BY <1>0, <2>1 DEF Places
      <4>3. CASE b = j
        <5>1. order'[b] = order[i]
            BY <1>0, <2>1, <4>3 DEF Places
        <5> QED
            BY <1>2, <4>1, <4>2, <5>1
      <4>4. CASE b < j
        <5>1. order'[b] = order[b]
            BY <1>0, <2>1, <4>4 DEF Places
        <5>2. score[order[i]] >= score[order[b]]
            BY <1>0, <4>4 DEF IInv, Sorting
        <5> QED
            BY <1>2, <4>1, <4>2, <5>1, <5>2
      <4> QED
          BY <1>0, <4>3, <4>4 DEF Places
    <3>3. j' = j + 1 /\ i' = i /\ score' = score
        BY DEF Compare
    <3> QED
        BY <1>0, <2>1, <3>1, <3>2, <3>3 DEF Sorting, Places
  <2> QED
    BY <1>0, <2>2, <2>3, <2>4, <2>5
    DEF IInv, Collecting, Scanning, Naming, Later, Compare
<1> QED
    BY <1>1, <1>2

LEMMA NextPlaceStep == IInv /\ NextPlace => IInv'
BY DEF IInv, BoardTypeOK, NextPlace, Collecting, Distinct, AllPlaced,
       Places, Sorting, Scanning, Naming, Later

LEMMA SortedStep == IInv /\ Sorted => IInv'
BY DEF IInv, BoardTypeOK, Sorted, Goto, Collecting, Distinct, AllPlaced,
       Places, Sorting, Scanning, Naming, Later

LEMMA ShowStep == IInv /\ Show => IInv'
BY DEF IInv, BoardTypeOK, Show, Send, Collecting, Distinct, AllPlaced,
       Places, Sorting, Scanning, Naming, Later

LEMMA ShownStep == IInv /\ Shown => IInv'
BY DEF IInv, BoardTypeOK, Shown, Goto, Collecting, Distinct, AllPlaced,
       Places, Sorting, Scanning, Naming, Later

LEMMA ScanBestStep == IInv /\ ScanBest => IInv'
<1> SUFFICES ASSUME IInv, ScanBest PROVE IInv'
    OBVIOUS
<1>0. /\ i \in 1 .. MaxPlayers /\ best \in Nat \cup {-1} /\ connected \subseteq Slot
      /\ \A p \in Slot : score[p] \in Score /\ score[p] \in Nat
      /\ \A p \in connected : p < i => score[p] <= best
      /\ best = -1 \/ \E p \in connected : score[p] = best
      /\ stage = "best"
  <2>1. stage = "best" /\ i <= MaxPlayers
    BY DEF ScanBest
  <2>2. /\ \A p \in connected : p < i => score[p] <= best
        /\ best = -1 \/ \E p \in connected : score[p] = best
    BY <2>1 DEF IInv, Scanning
  <2> QED
    BY <2>1, <2>2, Loop, Players, Scores
<1>1. /\ best' = IF i \in connected /\ score[i] > best THEN score[i] ELSE best
      /\ i' = i + 1 /\ connected' = connected /\ score' = score /\ stage' = stage
    BY DEF ScanBest
<1>2. \A p \in connected : p < i + 1 => score[p] <= best'
    BY <1>0, <1>1
<1>3. best' = -1 \/ \E p \in connected : score[p] = best'
    BY <1>0, <1>1
<1>4. Scanning'
    BY <1>0, <1>1, <1>2, <1>3 DEF Scanning
<1>5. BoardTypeOK'
    BY <1>0, <1>1 DEF IInv, BoardTypeOK, ScanBest
<1> QED
    BY <1>0, <1>4, <1>5 DEF IInv, ScanBest, Collecting, Distinct, AllPlaced, Places,
       Sorting, Naming, Later

LEMMA BestKnownStep == IInv /\ BestKnown => IInv'
<1> SUFFICES ASSUME IInv, BestKnown PROVE IInv'
    OBVIOUS
<1>1. Winners(1)' = {}
    BY Players DEF Winners, BestKnown
<1>2. Naming'
    BY <1>1, FS_EmptySet DEF IInv, BestKnown, Goto, Naming
<1> QED
    BY <1>2 DEF IInv, BoardTypeOK, BestKnown, Goto, Collecting, Distinct, AllPlaced,
       Places, Sorting, Scanning, Later

\* The winners up to i are those before it, and i if it is one.
LEMMA WinnersGrow ==
    ASSUME IInv, i \in 1 .. MaxPlayers
    PROVE  /\ IsFiniteSet(Winners(i)) /\ IsFiniteSet(Winners(i + 1))
           /\ Winners(i) \subseteq Slot
           /\ Winners(i + 1) = IF IsWinner(i) THEN Winners(i) \cup {i} ELSE Winners(i)
           /\ Cardinality(Winners(i + 1)) = IF IsWinner(i)
                                            THEN Cardinality(Winners(i)) + 1
                                            ELSE Cardinality(Winners(i))
           /\ Cardinality(Winners(i)) \in Nat
<1>1. connected \subseteq Slot /\ \A p \in connected : p \in Nat
    BY Players
<1>2. Winners(i) \subseteq Slot /\ Winners(i + 1) \subseteq Slot /\ i \notin Winners(i)
  <2>1. Winners(i) \subseteq connected /\ Winners(i + 1) \subseteq connected
    BY DEF Winners
  <2>2. i \notin Winners(i)
    BY <1>1 DEF Winners
  <2> QED
    BY <1>1, <2>1, <2>2
<1>3. IsFiniteSet(Winners(i)) /\ IsFiniteSet(Winners(i + 1))
  <2>1. IsFiniteSet(Slot)
    BY FS_Interval
  <2> QED
    BY <1>2, <2>1, FS_Subset
<1>4. \A p \in connected : p < i + 1 <=> p < i \/ p = i
    BY <1>1
<1>5. Winners(i + 1) = IF IsWinner(i) THEN Winners(i) \cup {i} ELSE Winners(i)
    BY <1>1, <1>4 DEF Winners, IsWinner
<1> QED
    BY <1>2, <1>3, <1>5, FS_AddElement, FS_CardinalityType

LEMMA CountWinnerStep == IInv /\ CountWinner => IInv'
<1> SUFFICES ASSUME IInv, CountWinner PROVE IInv'
    OBVIOUS
<1>0. i \in 1 .. MaxPlayers /\ stage = "count" /\ count = Cardinality(Winners(i)) /\ count < i
      /\ count \in Nat
    BY DEF IInv, BoardTypeOK, CountWinner, Naming
<1>1. count' = Cardinality(Winners(i + 1)) /\ count' < i + 1 /\ count' \in Nat
    BY <1>0, WinnersGrow DEF CountWinner
<1>2. Winners(i)' = Winners(i + 1)
    BY DEF CountWinner, Winners
<1>3. Naming'
    BY <1>0, <1>1, <1>2 DEF IInv, CountWinner, Naming
<1>4. BoardTypeOK'
    BY <1>0, <1>1 DEF IInv, BoardTypeOK, CountWinner
<1> QED
    BY <1>0, <1>3, <1>4 DEF IInv, CountWinner, Collecting, Distinct, AllPlaced,
       Places, Sorting, Scanning, Later

LEMMA CountedStep == IInv /\ Counted => IInv'
<1> SUFFICES ASSUME IInv, Counted PROVE IInv'
    OBVIOUS
<1>0. i = MaxPlayers + 1 /\ stage = "count"
    BY Loop DEF Counted
<1>1. Winners(1)' = {}
    BY Players DEF Winners, Counted
<1>2. Winners(MaxPlayers + 1)' = Winners(MaxPlayers + 1)
    BY DEF Winners, Counted
<1>3. Naming'
  <2>1. count = Cardinality(Winners(MaxPlayers + 1)) /\ named = <<>>
    BY <1>0 DEF IInv, Naming
  <2>2. /\ count' = Cardinality(Winners(MaxPlayers + 1)')
        /\ Len(named') = Cardinality(Winners(1)')
        /\ {named'[n] : n \in 1 .. Len(named')} = Winners(1)'
    <3>1. named' = <<>> /\ count' = count
        BY <2>1 DEF Counted
    <3>2. Len(named') = 0 /\ {named'[n] : n \in 1 .. Len(named')} = {}
        BY <3>1
    <3> QED
        BY <1>1, <1>2, <2>1, <3>1, <3>2, FS_EmptySet
  <2> QED
    BY <2>2 DEF Naming, Counted, Goto
<1> QED
    BY <1>3 DEF IInv, BoardTypeOK, Counted, Goto, Collecting, Distinct, AllPlaced,
       Places, Sorting, Scanning, Later

LEMMA NameWinnerStep == IInv /\ NameWinner => IInv'
<1> SUFFICES ASSUME IInv, NameWinner PROVE IInv'
    OBVIOUS
<1>0. /\ i \in 1 .. MaxPlayers /\ stage = "name" /\ named \in Seq(Slot)
      /\ count = Cardinality(Winners(MaxPlayers + 1))
      /\ Len(named) = Cardinality(Winners(i))
      /\ {named[n] : n \in 1 .. Len(named)} = Winners(i)
    BY DEF IInv, BoardTypeOK, NameWinner, Naming
<1>1. /\ Winners(i)' = Winners(i + 1)
      /\ Winners(MaxPlayers + 1)' = Winners(MaxPlayers + 1)
    BY DEF NameWinner, Winners
<1>2. /\ named' \in Seq(Slot) /\ Len(named') = Cardinality(Winners(i + 1))
      /\ {named'[n] : n \in 1 .. Len(named')} = Winners(i + 1)
  <2>1. CASE IsWinner(i)
    <3>1. /\ named' \in Seq(Slot) /\ Len(named') = Len(named) + 1
          /\ Len(named) \in Nat /\ named'[Len(named) + 1] = i
          /\ \A n \in 1 .. Len(named) : named'[n] = named[n]
        BY <1>0, <2>1, Appended DEF NameWinner
    <3>2. {named'[n] : n \in 1 .. Len(named')} = Winners(i) \cup {i}
        BY <1>0, <3>1
    <3> QED
        BY <1>0, <2>1, <3>1, <3>2, WinnersGrow
  <2>2. CASE ~IsWinner(i)
    BY <1>0, <2>2, WinnersGrow DEF NameWinner
  <2> QED
    BY <2>1, <2>2
<1>3. Naming'
    BY <1>0, <1>1, <1>2 DEF NameWinner, Naming
<1>4. BoardTypeOK'
    BY <1>0, <1>2 DEF IInv, BoardTypeOK, NameWinner
<1> QED
    BY <1>0, <1>3, <1>4 DEF IInv, NameWinner, Collecting, Distinct, AllPlaced,
       Places, Sorting, Scanning, Later

LEMMA AnnounceStep == IInv /\ Announce => IInv'
BY DEF IInv, BoardTypeOK, Announce, Goto, Send, Collecting, Distinct, AllPlaced,
       Places, Sorting, Scanning, Naming, Later

LEMMA StutterStep == IInv /\ UNCHANGED boardVars => IInv'
BY DEF IInv, BoardTypeOK, boardVars, Collecting, Distinct, AllPlaced,
       Places, Sorting, Scanning, Naming, Winners, Later

LEMMA StepBoard == IInv /\ [BoardNext]_boardVars => IInv'
BY LabelStep, CollectStep, CollectedStep, CompareStep, NextPlaceStep, SortedStep,
   ShowStep, ShownStep, ScanBestStep, BestKnownStep, CountWinnerStep, CountedStep,
   NameWinnerStep, AnnounceStep, StutterStep
   DEF BoardNext

LEMMA AlwaysIInv == BoardSpec => []IInv
BY InitBoard, StepBoard, PTL DEF BoardSpec

----------------------------------------------------------------------------
(* Theorems.                                                               *)

\* Every variable of the scoreboard keeps its type, and no loop variable
\* leaves its array.
THEOREM BoardTypeCorrect == BoardSpec => []BoardTypeOK
<1>1. IInv => BoardTypeOK
    BY DEF IInv
<1> QED
    BY <1>1, AlwaysIInv, PTL

\* The exchange loops sort: game_view_broadcast_scoreboard shows every
\* connected player once, best score first, whoever leaves while it does.
THEOREM ScoreboardRanked == BoardSpec => []Ranked
<1>1. IInv => Ranked
    BY DEF IInv, Ranked, Later, Distinct, AllPlaced, Places
<1> QED
    BY <1>1, AlwaysIInv, PTL

\* game_view_broadcast_final_winners names exactly the best of those still
\* connected, counts them right, and agrees with the scoreboard.
THEOREM WinnersRight == BoardSpec => []WinnersLead
<1>1. ASSUME IInv, stage = "name", i > MaxPlayers
      PROVE  LET winners == {named[n] : n \in 1 .. Len(named)} IN
             /\ winners = {p \in connected : \A q \in connected : score[p] >= score[q]}
             /\ count = Len(named)
             /\ \A a, b \in 1 .. Len(order) :
                  order[a] \in winners /\ order[b] \in connected \ winners => a < b
  <2> DEFINE winners == {named[n] : n \in 1 .. Len(named)}
  <2>0. i = MaxPlayers + 1 /\ \A p \in Slot : score[p] \in Nat
    BY <1>1, Loop, Scores
  <2>1. winners = Winners(MaxPlayers + 1) /\ count = Len(named)
    BY <1>1, <2>0 DEF IInv, Naming
  <2>2. winners = {p \in connected : score[p] = best}
    BY <1>1, <2>1, Players DEF Winners
  <2>3. /\ connected \subseteq Slot /\ best \in Nat \cup {-1}
        /\ \A p \in connected : score[p] <= best /\ score[p] \in Nat
        /\ best = -1 \/ \E p \in connected : score[p] = best
    <3>1. connected \subseteq Slot /\ \A p \in connected : score[p] \in Nat
        BY <1>1, Players, Scores
    <3>2. best \in Nat \cup {-1}
        BY <1>1, Scores
    <3>3. /\ \A p \in connected : score[p] <= best
          /\ best = -1 \/ \E p \in connected : score[p] = best
        BY <1>1 DEF IInv, Scanning
    <3> QED
        BY <3>1, <3>2, <3>3
  <2>4. winners = {p \in connected : \A q \in connected : score[p] >= score[q]}
    <3>1. ASSUME NEW p \in connected
          PROVE  score[p] = best <=> \A q \in connected : score[p] >= score[q]
        BY <2>3
    <3> QED
        BY <2>2, <3>1
  <2>5. ASSUME NEW a \in Places, NEW b \in Places,
               order[a] \in winners, order[b] \in connected \ winners
        PROVE  a < b
    <3>1. score[order[b]] < score[order[a]] /\ a # b
      <4>1. order[a] \in connected /\ score[order[a]] = best
          BY <2>2, <2>5
      <4>2. order[b] \in connected /\ score[order[b]] # best
          BY <2>2, <2>5
      <4>3. score[order[b]] <= best /\ score[order[b]] \in Nat /\ score[order[a]] \in Nat
          BY <2>3, <4>1, <4>2
      <4>4. score[order[b]] < score[order[a]]
          BY <4>1, <4>2, <4>3
      <4> QED
          BY <4>1, <4>2, <4>4
    <3>2. b < a => score[order[b]] >= score[order[a]]
        BY <1>1 DEF IInv, Later
    <3>3. Len(order) \in Nat /\ score[order[a]] \in Nat /\ score[order[b]] \in Nat
        BY <1>1, Order
    <3> QED
        BY <3>1, <3>2, <3>3 DEF Places
  <2> QED
    BY <2>1, <2>4, <2>5 DEF Places
<1>2. IInv => WinnersLead
    BY <1>1 DEF WinnersLead
<1> QED
    BY <1>2, AlwaysIInv, PTL
=============================================================================
