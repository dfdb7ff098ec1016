------------------------------ MODULE MCLoops -------------------------------
(* PromptBank and Standings for TLC, side by side: they share nothing, so a *)
(* behaviour explores one while the other has nothing to do.                *)
EXTENDS PromptBank, Standings

\* Texts at the limits for answers and prompts, and one that is not clean.
Texts == [length : {96, 97, 120, 121}, clean : {TRUE}]
         \cup [length : {96}, clean : {FALSE}]

\* Bounds: the categories are alike, and of the players of a round only the
\* number and whether their slots have a gap matters.
Init ==
    /\ wanted = "headlines" /\ players \in {{}, {2}, {1, 3}}
    /\ BankInit /\ BoardInit
    /\ players = {} \/ (connected = {} /\ \A p \in Slot : score[p] = 0)

Next ==
    \/ BankNext /\ UNCHANGED boardVars
    \/ BoardNext /\ UNCHANGED bankVars

Spec == Init /\ [][Next]_<<bankVars, boardVars>>
=============================================================================
