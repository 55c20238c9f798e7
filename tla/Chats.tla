------------------------------- MODULE Chats -------------------------------
(***************************************************************************)
(* The chats of users with roles (pkg/story/storyrole.go, models/chats.go), *)
(* and the stream of messages beside them (service/message/message.go).     *)
(*                                                                          *)
(* A chat is looked up and, if there is none, inserted by a later call.     *)
(* Each message of a request is stored, then the model is asked for the     *)
(* words of the role, then they are stored under the id of the message.     *)
(***************************************************************************)
EXTENDS Requests, FiniteSets, Sequences

CONSTANTS
    ChatRoles,     \* the roles that are chatted with
    MaxMessages    \* bound on the messages of a request

ASSUME ChatsAssumption == MaxMessages \in Nat \ {0}

VARIABLES
    chat_context,   \* the chats; the id of a row is its place
    chat_message    \* the messages

chats == <<chat_context, chat_message>>

ChatsInit == chat_context = <<>> /\ chat_message = <<>>

-----------------------------------------------------------------------------
\* Mutant of IsWith: the chat of any user with the role.
IsOf(c, u, r) == chat_context[c].role = r

IsWith(c, u, r) == chat_context[c] = [user |-> u, role |-> r]

ChatsWith(u, r) == {c \in DOMAIN chat_context : IsWith(c, u, r)}

\* The first by id; an empty row, whose id is 0, when there is none.
GetChatContextByUserIDAndRoleID(u, r) ==
    IF ChatsWith(u, r) = {} THEN 0
    ELSE CHOOSE c \in ChatsWith(u, r) : \A d \in ChatsWith(u, r) : c <= d

\* from: "user", "role", or "stream" for a user's message that was streamed.
CreateChatMessage(w, from) ==
    /\ chat_message' = Append(chat_message,
          [chat |-> worker[w].got, user |-> worker[w].user, role |-> worker[w].on.role,
           uuid |-> worker[w].on.next, from |-> from])
    /\ UNCHANGED chat_context

IdsOf(c) == {i \in DOMAIN chat_message : chat_message[i].chat = c}

GetChatContextLastMessage(c) ==
    IF IdsOf(c) = {} THEN 0 ELSE CHOOSE i \in IdsOf(c) : \A j \in IdsOf(c) : j <= i

\* The last message that the client sees; 0 when there is no chat or no message.
GetUserChatWithRole(u, r) ==
    LET c == GetChatContextByUserIDAndRoleID(u, r)
    IN  IF c = 0 THEN 0 ELSE GetChatContextLastMessage(c)

-----------------------------------------------------------------------------
(* Handlers.                                                               *)

\* The client numbers the messages of a request, in the same way when it repeats
\* one; next is the one that is stored next.
Talk(r, count) == [role |-> r, count |-> count, next |-> 1]

CreateStoryRoleChat(w, u, r) ==
    /\ IF ChatsWith(u, r) # {} THEN Serves
       ELSE Begins(w, u, "CreateStoryRoleChat", Talk(r, 0), "CreateChatContext", 0)
    /\ UNCHANGED chats

ChatWithStoryRole(w, u, r, count) ==
    LET c == GetChatContextByUserIDAndRoleID(u, r)
    IN  /\ Begins(w, u, "ChatWithStoryRole", Talk(r, count),
                  IF c = 0 THEN "CreateChatContext" ELSE "CreateChatMessage", c)
        /\ UNCHANGED chats

CreateChatContext(w) ==
    LET chat == [user |-> worker[w].user, role |-> worker[w].on.role]
    IN  /\ worker[w].pc = "CreateChatContext"
        /\ GoesWith(w, IF worker[w].op = "ChatWithStoryRole" THEN "CreateChatMessage" ELSE "idle",
                    Len(chat_context) + 1)
        /\ chat_context' = Append(chat_context, chat)
        /\ UNCHANGED chat_message

\* The role is read and the model asked while the reply waits.
StoreMessage(w) ==
    /\ worker[w].pc = "CreateChatMessage"
    /\ Goes(w, "ChatWithRole")
    /\ CreateChatMessage(w, "user")

StoreReply(w) ==
    LET on == worker[w].on
    IN  /\ worker[w].pc = "ChatWithRole"
        /\ worker' = [worker EXCEPT ![w] =
                         IF on.next = on.count THEN Idle
                         ELSE [@ EXCEPT !.pc = "CreateChatMessage",
                                        !.on = [on EXCEPT !.next = on.next + 1]]]
        /\ UNCHANGED <<served, faults, overlapped>>
        /\ CreateChatMessage(w, "role")

\* "No chat was opened" is never answered: the look-up gives a row in any case.
\* One row serves all messages of a request: a second one has the id of the first
\* and fails, so that the first is stored and the client is told that none was.
StreamChatMessage(w, u, r) ==
    /\ Begins(w, u, "StreamChatMessage", Talk(r, 1), "ChatRecieveMessage",
              GetChatContextByUserIDAndRoleID(u, r))
    /\ UNCHANGED chats

\* What is sent back as the reply is the message itself.
ChatRecieveMessage(w) ==
    /\ worker[w].pc = "ChatRecieveMessage"
    /\ Ends(w)
    /\ CreateChatMessage(w, "stream")

-----------------------------------------------------------------------------
ChatsStep(w) ==
    \/ CreateChatContext(w) \/ StoreMessage(w) \/ StoreReply(w) \/ ChatRecieveMessage(w)
    \/ CutOff(w) /\ UNCHANGED chats

ChatsNext ==
    \/ \E w \in Workers : ChatsStep(w)
    \/ \E w \in Workers, u \in Users, r \in ChatRoles :
          \/ CreateStoryRoleChat(w, u, r)
          \/ \E count \in 1..MaxMessages : ChatWithStoryRole(w, u, r, count)
          \/ StreamChatMessage(w, u, r)

ChatsSpec == RequestsInit /\ ChatsInit /\ [][ChatsNext]_<<requestVars, chats>>

-----------------------------------------------------------------------------
(* Properties.                                                             *)

ChatsTypeOK ==
    /\ chat_context \in Seq([user : Users, role : ChatRoles])
    /\ chat_message \in Seq([chat : 0..Len(chat_context), user : Users, role : ChatRoles,
                             uuid : 1..MaxMessages, from : {"user", "role", "stream"}])

From(s, c, x) ==
    {i \in DOMAIN chat_message : /\ chat_message[i].from = s /\ chat_message[i].chat = c
                                 /\ chat_message[i].uuid = x}

Waiting == {w \in Busy : worker[w].pc = "ChatWithRole"}

SentBy(u, r) == {i \in DOMAIN chat_message : /\ chat_message[i].user = u
                                             /\ chat_message[i].role = r
                                             /\ chat_message[i].chat # 0}

\* No reply without its message before it, in the same chat, which is a chat of
\* that user with that role; a message stays without one only as the model is
\* being asked or a call failed; and while a user waits for each answer, there
\* is one chat with each role and its last message is the last of the two, but
\* for what was streamed before there was a chat.
RepliesStayInTheirChat ==
    /\ \A i \in DOMAIN chat_message :
          LET m == chat_message[i]
          IN  /\ m.chat = 0 => m.from = "stream"
              /\ m.chat # 0 => m.chat \in ChatsWith(m.user, m.role)
    /\ \A c \in DOMAIN chat_context, x \in 1..MaxMessages :
          Cardinality(From("role", c, x)) <= Cardinality(From("user", c, x))
    /\ Cardinality({i \in DOMAIN chat_message : chat_message[i].from = "user"})
          <= Cardinality({i \in DOMAIN chat_message : chat_message[i].from = "role"})
             + Cardinality(Waiting) + faults
    /\ ~ overlapped =>
          \A u \in Users, r \in ChatRoles :
             /\ Cardinality(ChatsWith(u, r)) <= 1
             /\ \A i \in SentBy(u, r) : i <= GetUserChatWithRole(u, r)
=============================================================================
