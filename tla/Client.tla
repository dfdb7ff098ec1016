------------------------------- MODULE Client -------------------------------
(***************************************************************************)
(* client.c: what the terminal client does with a line from the server and *)
(* with a line its user types, as operators on a client record.            *)
(*                                                                         *)
(* The screen is left out, and with it the server lines that only print    *)
(* (events, round texts, vote rules, errors).                              *)
(***************************************************************************)
EXTENDS Integers, Sequences

CONSTANTS
    Text,         \* lines a user may type
    Username,     \* those that are valid user names
    Submission,   \* those that are valid answers and titles
    OptionNumber  \* Text -> Nat, 0 for what is not a number

Window == {"awaiting_submission", "awaiting_title", "awaiting_vote"}

Flag ==
    {"joined", "join_requested", "awaiting_replay_choice", "replay_choice_sent",
     "ready_allowed", "ready_sent", "stdin_closed"} \cup Window

\* options: vote_option_count.  question: as history, the round of the last
\* question, title or vote the server asked for.
ClientState == [flags : SUBSET Flag, options : Nat, question : Nat]

ClientInit == [flags |-> {}, options |-> 0, question |-> 0]

----------------------------------------------------------------------------
(* Lines from the server.                                                  *)

\* Mistake: the question before is not withdrawn, and its round stays noted.
AskAlso(k, window, options, question) ==
    [k EXCEPT !.flags = (@ \ {"ready_allowed"}) \cup {window},
              !.options = options]

\* Mistake: what was asked for before and has not been given stays open.
AskKeeping(k, window, options, question) ==
    [flags    |-> (k.flags \ {"ready_allowed"}) \cup {window},
     options  |-> options,
     question |-> question]

\* A question, a title or a vote is asked for, and nothing else any more.
Ask(k, window, options, question) ==
    [flags    |-> (k.flags \ (Window \cup {"ready_allowed"})) \cup {window},
     options  |-> options,
     question |-> question]

HandleServerLine(k, m) ==
    CASE m.type = "WELCOME" ->
           [k EXCEPT !.flags =
              (@ \ {"join_requested", "awaiting_replay_choice",
                    "replay_choice_sent", "ready_allowed"}) \cup {"joined"}]
      [] m.type = "LOBBY_ROSTER" ->
           IF "ready_sent" \in k.flags THEN k
           ELSE [k EXCEPT !.flags = @ \cup {"ready_allowed"}]
      [] m.type = "PROMPT" -> Ask(k, "awaiting_submission", 0, m.question)
      [] m.type = "TITLE_PROMPT" -> Ask(k, "awaiting_title", 0, m.question)
      [] m.type = "VOTE_OPEN" -> Ask(k, "awaiting_vote", m.options, m.question)
      [] m.type = "PLAY_AGAIN" ->
           [k EXCEPT !.flags =
              (@ \ (Window \cup {"ready_allowed", "replay_choice_sent"}))
              \cup {"awaiting_replay_choice"}]

----------------------------------------------------------------------------
(* Lines from the user.                                                    *)

\* What the next line is taken for; the first that applies.
Mode(k) ==
    IF "joined" \notin k.flags
    THEN IF "join_requested" \in k.flags THEN "username" ELSE "join"
    ELSE IF "awaiting_replay_choice" \in k.flags
            /\ "replay_choice_sent" \notin k.flags THEN "replay"
    ELSE IF "awaiting_submission" \in k.flags THEN "submission"
    ELSE IF "awaiting_title" \in k.flags THEN "title"
    ELSE IF "awaiting_vote" \in k.flags THEN "vote"
    ELSE IF {"ready_sent", "ready_allowed"} \cap k.flags = {"ready_allowed"}
    THEN "ready"
    ELSE "wait"

\* The lines that are of use in a mode; any other only prints a hint.
Accepted(k) ==
    CASE Mode(k) = "join"     -> {"JOIN"}
      [] Mode(k) = "username" -> Username
      [] Mode(k) = "replay"   -> {"y", "n"}
      [] Mode(k) \in {"submission", "title"} -> Submission
      [] Mode(k) = "vote"     -> {t \in Text : OptionNumber[t] \in 1 .. k.options}
      [] Mode(k) = "ready"    -> {"READY"}
      [] Mode(k) = "wait"     -> {}

\* The client after it has sent the line.  A client that has asked to join
\* stays where it is until it is welcomed.
HandleStdinLine(k) ==
    [k EXCEPT !.flags =
       CASE Mode(k) = "join"       -> @ \cup {"join_requested"}
         [] Mode(k) = "username"   -> @
         [] Mode(k) = "replay"     -> (@ \ {"awaiting_replay_choice"})
                                      \cup {"replay_choice_sent"}
         [] Mode(k) = "submission" -> @ \ {"awaiting_submission"}
         [] Mode(k) = "title"      -> @ \ {"awaiting_title"}
         [] Mode(k) = "vote"       -> @ \ {"awaiting_vote"}
         [] Mode(k) = "ready"      -> @ \cup {"ready_sent"}]

\* What it sends: nothing yet when the user asks to join.
LinesSent(k, text) ==
    CASE Mode(k) = "join"       -> <<>>
      [] Mode(k) = "username"   -> <<[type |-> "JOIN", name |-> text]>>
      [] Mode(k) = "replay"     -> <<[type |-> "REPLAY", wish |-> text = "y"]>>
      [] Mode(k) = "submission" -> <<[type |-> "SUBMIT", question |-> k.question]>>
      [] Mode(k) = "title"      -> <<[type |-> "TITLE", question |-> k.question]>>
      [] Mode(k) = "vote"       -> <<[type |-> "VOTE", option |-> OptionNumber[text],
                                      question |-> k.question]>>
      [] Mode(k) = "ready"      -> <<[type |-> "READY"]>>
============================================================================
