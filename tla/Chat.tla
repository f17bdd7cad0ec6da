-------------------------------- MODULE Chat --------------------------------
(***************************************************************************)
(* The playground's chat: POST chat stores the question, reads the         *)
(* conversation back, stores an empty answer, streams the model's answer   *)
(* and fills the row in when the stream ends.  A row's created_at is the   *)
(* start of the transaction that writes it: a place in the conversation is *)
(* taken when the transaction begins, and seen when it commits.            *)
(***************************************************************************)
EXTENDS Integers, FiniteSets, Sequences

CONSTANTS Chatters,    \* requests served at the same time
          OwnerOf,     \* chat session -> its user
          Uploads,     \* attachments uploaded without a session, all of the user of session 1
          MediaCost,   \* user -> cost of the media made
          Price,       \* calc_text_cost of an answer
          ChatQuota,   \* monthly_quota_usd
          MaxChats     \* bound: chats begun

ASSUME ChatAssumption == /\ {Price, ChatQuota, MaxChats} \subseteq Nat /\ DOMAIN OwnerOf \subseteq Nat \ {0}
                         /\ IsFiniteSet(Chatters) /\ IsFiniteSet(DOMAIN MediaCost)
                         /\ \A u \in DOMAIN MediaCost : MediaCost[u] \in Nat
                         /\ \A s \in DOMAIN OwnerOf : OwnerOf[s] \in DOMAIN MediaCost

VARIABLES opened,    \* playground_sessions
          messages,  \* playground_messages by created_at; those not committed yet are hidden
          uploads,   \* playground_attachments: the session one is bound to, 0 for none, -1 when deleted
          chats,     \* request -> how far its chat is
          begun      \* chats begun
chatVars == <<opened, messages, uploads, chats, begun>>

ChatSession == DOMAIN OwnerOf
ChatOf(op, no, s, f, crossed) == [op |-> op, no |-> no, session |-> s, file |-> f, asked |-> <<>>, usage |-> FALSE, crossed |-> crossed]
NoChat == ChatOf("none", 0, 0, 0, FALSE)
Message(no, s, role) == [no |-> no, session |-> s, role |-> role, shown |-> FALSE, text |-> role = "user", cost |-> 0]
ChatInit == /\ opened = {}
            /\ messages = <<>>
            /\ uploads = [f \in Uploads |-> 0]
            /\ chats = [r \in Chatters |-> NoChat]
            /\ begun = 0

\* The cost of x is counted out in units, one pair each.
Units(cost) == UNION {{x} \X (1 .. cost[x]) : x \in DOMAIN cost}
Sum(cost) == Cardinality(Units(cost))
Rows == {i \in DOMAIN messages : messages[i].shown}
Billed == [i \in {j \in Rows : messages[j].role = "assistant"} |-> messages[i].cost]
BilledTo(u) == [i \in {j \in DOMAIN Billed : OwnerOf[messages[j].session] = u} |-> Billed[i]]
(* ---- get_user_usage_summary, check_quota_or_raise ---- *)
Usage(u) == MediaCost[u] + Sum(BilledTo(u))
\* Mutant: the user who is just at the quota may ask once more.
QuotaLeftAtLimit(u) == Usage(u) <= ChatQuota
QuotaLeft(u) == Usage(u) < ChatQuota

(* ---- prepare_chat ---- *)
Crossing(r, s) == {q \in Chatters \ {r} : chats[q].op # "none" /\ chats[q].session = s}
BeginChat(r, s, f) ==
  /\ chats[r].op = "none" /\ begun < MaxChats
  /\ s \in opened /\ QuotaLeft(OwnerOf[s])
  /\ f # 0 => uploads[f] # -1 /\ OwnerOf[s] = OwnerOf[1]
  /\ begun' = begun + 1
  /\ messages' = Append(messages, Message(begun + 1, s, "user"))
  /\ chats' = [q \in Chatters |->
                 CASE q = r -> ChatOf("asks", begun + 1, s, f, Crossing(r, s) # {})
                   [] q \in Crossing(r, s) -> [chats[q] EXCEPT !.crossed = TRUE]
                   [] OTHER -> chats[q]]
  /\ UNCHANGED <<opened, uploads>>
Show(no, role) == [i \in DOMAIN messages |-> IF messages[i].no = no /\ messages[i].role = role
                                             THEN [messages[i] EXCEPT !.shown = TRUE] ELSE messages[i]]
\* append_message commits the question and binds the attachment; reading the row back begins the next transaction.
AskQuestion(r) ==
  LET c == chats[r]
  IN /\ c.op = "asks" /\ c.session \in opened
     /\ messages' = Append(Show(c.no, "user"), Message(c.no, c.session, "assistant"))
     /\ uploads' = IF c.file # 0 /\ uploads[c.file] = 0 THEN [uploads EXCEPT ![c.file] = c.session] ELSE uploads
     /\ chats' = [chats EXCEPT ![r].op = "reads"]
     /\ UNCHANGED <<opened, begun>>
\* _build_api_messages: attachments go with the last message if that is a question.
AskedOf(c) ==
  LET history == {i \in Rows : messages[i].session = c.session}
  IN [i \in history |-> [no |-> messages[i].no, role |-> messages[i].role, text |-> messages[i].text,
                         file |-> IF (\A j \in history : j <= i) /\ messages[i].role = "user" THEN c.file ELSE 0]]
ReadHistory(r) == /\ chats[r].op = "reads"
                  /\ chats' = [chats EXCEPT ![r].op = "searches", ![r].asked = AskedOf(chats[r])]
                  /\ UNCHANGED <<opened, messages, uploads, begun>>
\* The search of the NAS, which never fails a chat, and the empty answer.
AppendAnswer(r) == /\ chats[r].op = "searches" /\ chats[r].session \in opened
                   /\ messages' = Show(chats[r].no, "assistant")
                   /\ chats' = [chats EXCEPT ![r].op = "streams"]
                   /\ UNCHANGED <<opened, uploads, begun>>
\* The session has gone: an error is streamed instead.
PrepareFails(r) == /\ chats[r].op \in {"asks", "reads", "searches"} /\ chats[r].session \notin opened
                   /\ chats' = [chats EXCEPT ![r] = NoChat]
                   /\ UNCHANGED <<opened, messages, uploads, begun>>

(* ---- stream_chat_events ---- *)
UsageTold(r) == /\ chats[r].op = "streams" /\ ~chats[r].usage
                /\ chats' = [chats EXCEPT ![r].usage = TRUE]
                /\ UNCHANGED <<opened, messages, uploads, begun>>
\* finally: update_metrics, if the row is still there.  Without a usage, the text that came and no cost.
EndStream(r) ==
  LET c == chats[r]
  IN /\ c.op = "streams"
     /\ \E text \in IF c.usage THEN {TRUE} ELSE BOOLEAN :
          messages' = [i \in DOMAIN messages |-> IF messages[i].no = c.no /\ messages[i].role = "assistant"
                                                 THEN [messages[i] EXCEPT !.text = text, !.cost = IF c.usage THEN Price ELSE 0]
                                                 ELSE messages[i]]
     /\ chats' = [chats EXCEPT ![r] = NoChat]
     /\ UNCHANGED <<opened, uploads, begun>>
\* The reader leaves, or the process dies: finally may be cancelled like the stream.
CutOff(r) == /\ chats[r].op # "none"
             /\ chats' = [chats EXCEPT ![r] = NoChat]
             /\ UNCHANGED <<opened, messages, uploads, begun>>

(* ---- sessions and attachments ---- *)
\* create_session, by itself or first in a chat; a number is used again once nothing refers to it.
CreateChatSession(s) == /\ s \notin opened /\ \A r \in Chatters : chats[r].session # s
                        /\ opened' = opened \cup {s}
                        /\ UNCHANGED <<messages, uploads, chats, begun>>
\* Messages go with their session (CASCADE), attachments stay (SET NULL).
DeleteChatSession(s) ==
  /\ s \in opened
  /\ opened' = opened \ {s}
  /\ messages' = [i \in DOMAIN messages |-> IF messages[i].session = s
                                            THEN [messages[i] EXCEPT !.shown = FALSE, !.no = 0, !.cost = 0] ELSE messages[i]]
  /\ uploads' = [f \in Uploads |-> IF uploads[f] = s THEN 0 ELSE uploads[f]]
  /\ UNCHANGED <<chats, begun>>
DeleteAttachment(f) == /\ uploads[f] # -1
                       /\ uploads' = [uploads EXCEPT ![f] = -1]
                       /\ UNCHANGED <<opened, messages, chats, begun>>

ChatNext ==
  \/ \E r \in Chatters :
       \/ \E s \in ChatSession, f \in Uploads \cup {0} : BeginChat(r, s, f)
       \/ AskQuestion(r) \/ ReadHistory(r) \/ AppendAnswer(r) \/ PrepareFails(r)
       \/ UsageTold(r) \/ EndStream(r) \/ CutOff(r)
  \/ \E s \in ChatSession : CreateChatSession(s) \/ DeleteChatSession(s)
  \/ \E f \in Uploads : DeleteAttachment(f)

ChatSpec == ChatInit /\ [][ChatNext]_chatVars

(* ---- admin_usage_endpoint: one sum over rows, one over users with messages and the others with media ---- *)
ByUser ==
  LET talked == {OwnerOf[messages[i].session] : i \in DOMAIN Billed}
      leftover == {u \in DOMAIN MediaCost : MediaCost[u] > 0} \ talked
  IN [u \in talked \cup leftover |-> MediaCost[u] + IF u \in talked THEN Sum(BilledTo(u)) ELSE 0]
TotalCost == Sum(Billed) + Sum(MediaCost)

(***************************************************************************)
(* What the model is asked ends with the chat's own question and carries   *)
(* its attachment, as long as nobody else chats in the session meanwhile,  *)
(* and holds no message twice.                                             *)
(***************************************************************************)
QuestionIsAsked ==
  \A r \in Chatters :
    LET c == chats[r]
        end == CHOOSE i \in DOMAIN c.asked : \A j \in DOMAIN c.asked : j <= i
    IN c.asked # <<>> =>
         /\ \A i, j \in DOMAIN c.asked : c.asked[i].no = c.asked[j].no /\ c.asked[i].role = c.asked[j].role /\ c.asked[i].no # 0 => i = j
         /\ c.crossed \/ c.session \notin opened
            \/ (c.asked[end].no = c.no /\ c.asked[end].role = "user" /\ c.asked[end].file = c.file)
(***************************************************************************)
(* The quota is asked before a chat and charged after it: however chats    *)
(* overlap, a user is charged for at most as many answers beyond it as     *)
(* there are chats at the same time, and the report of the administrators  *)
(* gives the users together what the rows cost.                            *)
(***************************************************************************)
OverrunIsBounded ==
  /\ \A u \in DOMAIN MediaCost : MediaCost[u] < ChatQuota => Usage(u) < ChatQuota + Price * Cardinality(Chatters)
  /\ TotalCost = Sum(ByUser)
ChatIsKept == QuestionIsAsked /\ OverrunIsBounded
=============================================================================
