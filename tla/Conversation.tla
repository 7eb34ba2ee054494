----------------------------- MODULE Conversation -----------------------------
(***************************************************************************)
(* A user's chat with the assistant of a project: backend/src/brain and    *)
(* ProjectBrainPage of the frontend.                                       *)
(*   A stream finds (or creates) the conversation, asks the model and runs *)
(* the tools it calls for until there is an answer, and then saves the     *)
(* messages it read at first with the new turn behind them, the last       *)
(* hundred.  Several pages of one user stream at once, a page whose        *)
(* connection breaks may ask again while the server goes on, and a clear   *)
(* saves the conversation empty.  There is no unique index: two first      *)
(* messages make two conversations, and each later one finds any of them.  *)
(*   A turn is a question with its answer and the calls of its tools.      *)
(***************************************************************************)
EXTENDS Naturals, Sequences

CONSTANTS
  Chats,       \* ids of conversations
  Streams,     \* requests of the pages
  HistoryTurns,  \* turns that are kept: 50
  MaxTurns,    \* bound: questions
  NoChat, NoStream

ASSUME ConversationAssumption == HistoryTurns \in Nat \ {0} /\ MaxTurns \in Nat

VARIABLES
  chat,     \* [Chats -> turns, or NoChat]: the rows
  stream,   \* [Streams -> Stream or NoStream]
  asked,    \* questions so far
  kept      \* history: <<turn, conversation>> answered while nothing else was going on, and not cleared

chatVars == <<chat, stream, asked, kept>>

Stream == [kind : {"ask", "clear"}, at : {"find", "create", "model", "save"}, of : Chats \cup {NoChat},
           turns : Seq(1 .. MaxTurns), turn : 0 .. MaxTurns, alone : BOOLEAN]

ASSUME NoChatAssumption == NoChat \notin Seq(1 .. MaxTurns) /\ NoStream \notin Stream

ChatTypeOK ==
  /\ chat \in [Chats -> Seq(1 .. MaxTurns) \cup {NoChat}]
  /\ \A c \in Chats : chat[c] # NoChat => Len(chat[c]) <= HistoryTurns
  /\ stream \in [Streams -> Stream \cup {NoStream}]
  /\ asked \in 0 .. MaxTurns
  /\ kept \subseteq (1 .. MaxTurns) \X Chats

ChatInit ==
  /\ chat = [c \in Chats |-> NoChat]
  /\ stream = [s \in Streams |-> NoStream]
  /\ asked = 0 /\ kept = {}

-----------------------------------------------------------------------------
Busy(s) == {x \in Streams \ {s} : stream[x] # NoStream}

\* Whatever runs at the same time as something else is not alone.
Open(s, kind, turn) ==
  /\ stream[s] = NoStream
  /\ stream' = [x \in Streams |->
       IF x = s THEN [kind |-> kind, at |-> "find", of |-> NoChat, turns |-> <<>>, turn |-> turn,
                      alone |-> Busy(s) = {}]
       ELSE IF stream[x] = NoStream THEN NoStream ELSE [stream[x] EXCEPT !.alone = FALSE]]
  /\ UNCHANGED <<chat, kept>>

\* sendMessage
Send(s) ==
  /\ asked < MaxTurns /\ asked' = asked + 1
  /\ Open(s, "ask", asked + 1)

\* The bin beside the title, which is there while the answer streams, too.
Clear(s) == Open(s, "clear", 0) /\ UNCHANGED asked

StreamAt(s, at) == stream[s] # NoStream /\ stream[s].at = at

Existing == {c \in Chats : chat[c] # NoChat}

\* getOrCreateConversation, and the query of clearConversation.
FindChat(s) ==
  /\ StreamAt(s, "find")
  /\ \/ \E c \in Existing :
          stream' = [stream EXCEPT ![s] = [@ EXCEPT !.of = c, !.turns = chat[c],
                                             !.at = IF stream[s].kind = "ask" THEN "model" ELSE "save"]]
     \/ /\ Existing = {}
        /\ stream' = [stream EXCEPT ![s] = IF stream[s].kind = "ask" THEN [@ EXCEPT !.at = "create"] ELSE NoStream]
  /\ UNCHANGED <<chat, asked, kept>>

CreateChat(s) ==
  /\ StreamAt(s, "create")
  /\ \E c \in Chats \ Existing :
       /\ chat' = [chat EXCEPT ![c] = <<>>]
       /\ stream' = [stream EXCEPT ![s] = [@ EXCEPT !.at = "model", !.of = c]]
  /\ UNCHANGED <<asked, kept>>

\* The loop ends with an answer without tool calls.
AnswerChat(s) ==
  /\ StreamAt(s, "model")
  /\ stream' = [stream EXCEPT ![s].at = "save"]
  /\ UNCHANGED <<chat, asked, kept>>

\* Mutant: the first messages are kept.
FirstTurns(turns) == SubSeq(turns, 1, IF Len(turns) > HistoryTurns THEN HistoryTurns ELSE Len(turns))

LastTurns(turns) ==
  IF Len(turns) > HistoryTurns THEN SubSeq(turns, Len(turns) - HistoryTurns + 1, Len(turns)) ELSE turns

SaveTurn(s) ==
  LET c == stream[s].of
  IN /\ StreamAt(s, "save") /\ stream[s].kind = "ask"
     /\ chat' = [chat EXCEPT ![c] = LastTurns(Append(stream[s].turns, stream[s].turn))]
     /\ kept' = IF stream[s].alone THEN kept \cup {<<stream[s].turn, c>>} ELSE kept
     /\ stream' = [stream EXCEPT ![s] = NoStream]
     /\ UNCHANGED asked

SaveCleared(s) ==
  /\ StreamAt(s, "save") /\ stream[s].kind = "clear"
  /\ chat' = [chat EXCEPT ![stream[s].of] = <<>>]
  /\ kept' = {k \in kept : k[2] # stream[s].of}
  /\ stream' = [stream EXCEPT ![s] = NoStream]
  /\ UNCHANGED asked

\* Any query or call of the model fails, after tools may have run: the page says to try again.
FailStream(s) ==
  /\ stream[s] # NoStream
  /\ stream' = [stream EXCEPT ![s] = NoStream]
  /\ UNCHANGED <<chat, asked, kept>>

ChatNext ==
  \E s \in Streams :
    \/ Send(s) \/ Clear(s) \/ FindChat(s) \/ CreateChat(s) \/ AnswerChat(s)
    \/ SaveTurn(s) \/ SaveCleared(s) \/ FailStream(s)

ChatSpec == ChatInit /\ [][ChatNext]_chatVars

-----------------------------------------------------------------------------
\* Streams and clears overwrite each other, resurrect what was cleared and split a
\* conversation in two: still, a turn answered while nothing else was going on stays in
\* its conversation until this is cleared or holds as many newer turns as are kept.
AnswerKept ==
  \A k \in kept :
    LET turns == chat[k[2]]
    IN \/ \E i \in DOMAIN turns : turns[i] = k[1]
       \/ Len(turns) = HistoryTurns /\ \A i \in DOMAIN turns : turns[i] > k[1]

=============================================================================
