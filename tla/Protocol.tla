------------------------------ MODULE Protocol ------------------------------
(***************************************************************************)
(* protocol.c, protocol.h: the limits of a line, what may stand in it, and *)
(* whether the other end will take it.                                     *)
(*                                                                         *)
(* A text is its length and whether all its characters are printable ASCII *)
(* other than "|"; a line is its header and the texts that follow it, each *)
(* after a "|".                                                            *)
(***************************************************************************)
EXTENDS Naturals, Sequences

CONSTANTS
    MaxPlayers,                                      \* PROTOCOL_MAX_PLAYERS
    MaxLineLen, MaxPromptLen, MaxSubmissionLen,      \* as in protocol.h
    MaxCategoryLen

ASSUME MaxPlayersAssumption == MaxPlayers \in Nat

Slot == 1 .. MaxPlayers

\* The length of the longest category key, "headlines".
CategoryLen == 9

\* A question and an answer to be titled, each of the greatest length, fit a
\* line, and an answer fits where a question does.
ASSUME LimitsAssumption ==
    /\ MaxLineLen \in Nat /\ MaxPromptLen \in Nat /\ MaxSubmissionLen \in Nat
    /\ MaxPromptLen + 8 <= MaxLineLen
    /\ MaxSubmissionLen + CategoryLen + 15 <= MaxLineLen
    /\ MaxSubmissionLen <= MaxPromptLen
    /\ MaxCategoryLen \in Nat /\ CategoryLen <= MaxCategoryLen

SubmissionValid(t) == t.clean /\ t.length \in 1 .. MaxSubmissionLen

\* snprintf must not cut the line off, newline included.
Formats(length) == length < MaxLineLen + 1

\* One field, without the newline, fits the buffer it is copied to.
ParsesText(length, outSize) == length < outSize

\* Two fields fit, and neither may be empty.
ParsesTwo(first, firstSize, second, secondSize) ==
    /\ first # 0 /\ first < firstSize
    /\ second # 0 /\ second < secondSize

\* A question: PROMPT|<prompt>, read into the client's prompt buffer.
PromptGetsThrough(length) ==
    /\ Formats(7 + length + 1)
    /\ ParsesText(length, MaxPromptLen + 1)

\* An answer shown to its title writer: TITLE_PROMPT|<category>|<answer>.
AnswerGetsThrough(length) ==
    /\ Formats(13 + CategoryLen + 1 + length + 1)
    /\ ParsesTwo(CategoryLen, MaxCategoryLen + 1, length, MaxPromptLen + 1)
=============================================================================
