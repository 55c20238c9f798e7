----------------------------- MODULE MCServices -----------------------------
(***************************************************************************)
(* The services around stories, one at a time: the first state chooses the  *)
(* service that is served, and the tables of the others stay empty.         *)
(***************************************************************************)
EXTENDS Audience, Groups, Comments, Rendering, Scenes, Accounts, McpService,
        Messages, Listings, Edits, Chats, TLC

CONSTANTS u1, u2, w1, w2, s1, r1, e1, e2, p1

TwoUsers == {u1, u2}
TwoWorkers == {w1, w2}
OneStory == {s1}
OneRole == {r1}
OfStory == [r \in {r1} |-> s1]
TwoEmails == {e1, e2}
OnePhone == {p1}

\* The ids of users, of requests and of e-mail accounts can be exchanged.
Exchangeable ==
    Permutations(TwoUsers) \cup Permutations(TwoWorkers) \cup Permutations(TwoEmails)

VARIABLE part   \* the service

servicesVars == <<requestVars, audience, groups, comments, rendering, scenes,
                  accounts, mcpVars, messages, listings, edits, chats, part>>

Parts == {"audience", "groups", "comments", "rendering", "scenes", "accounts",
          "mcp", "messages", "listings", "edits", "chats"}

ServicesInit ==
    /\ RequestsInit
    /\ AudienceInit /\ GroupsInit /\ CommentsInit /\ RenderingInit
    /\ ScenesInit /\ AccountsInit /\ McpInit /\ MessagesInit
    /\ ListingsInit /\ EditsInit /\ ChatsInit
    /\ part \in Parts
    /\ part # "listings" => listings = <<GetStoryboards, "fromNought", rows, 0, 0, start,
                                         {}, {}, FALSE, Still>>
    /\ part # "edits" => editing = "item"

\* MaxWork is one less where requests make many calls.
Lighter == served' + faults' < MaxWork

\* and again one less once requests of one user overlapped: what is still claimed
\* then does not depend on whose requests they are.
Lightest == served' + faults' < (IF overlapped' THEN MaxWork - 1 ELSE MaxWork)

\* The tables of the other services keep their rows.
Only(p) ==
    /\ part = p /\ UNCHANGED part
    /\ IF p = "audience" THEN TRUE ELSE UNCHANGED audience
    /\ IF p = "groups" THEN TRUE ELSE UNCHANGED groups
    /\ IF p = "comments" THEN TRUE ELSE UNCHANGED comments
    /\ IF p = "rendering" THEN TRUE ELSE UNCHANGED rendering
    /\ IF p = "scenes" THEN TRUE ELSE UNCHANGED scenes
    /\ IF p = "accounts" THEN TRUE ELSE UNCHANGED accounts
    /\ IF p = "mcp" THEN TRUE ELSE UNCHANGED mcpVars
    /\ IF p = "messages" THEN TRUE ELSE UNCHANGED messages
    /\ IF p = "listings" THEN TRUE ELSE UNCHANGED listings
    /\ IF p = "edits" THEN TRUE ELSE UNCHANGED edits
    /\ IF p = "chats" THEN TRUE ELSE UNCHANGED chats

ServicesNext ==
    \/ Only("audience") /\ AudienceNext /\ Lightest
    \/ Only("groups") /\ GroupsNext
    \/ Only("comments") /\ CommentsNext
    \/ Only("rendering") /\ RenderingNext /\ Lighter
    \/ Only("scenes") /\ ScenesNext
    \/ Only("accounts") /\ AccountsNext
    \/ Only("mcp") /\ McpNext /\ Lighter
    \/ Only("messages") /\ MessagesNext
    \/ Only("listings") /\ ListingsNext /\ Lighter
    \/ Only("edits") /\ EditsNext /\ Lighter
    \/ Only("chats") /\ ChatsNext /\ Lighter

ServicesSpec == ServicesInit /\ [][ServicesNext]_servicesVars

\* The rows of every table are rows of its type.
ServicesTypeOK ==
    /\ AudienceTypeOK /\ GroupsTypeOK /\ CommentsTypeOK /\ RenderingTypeOK
    /\ ScenesTypeOK /\ AccountsTypeOK /\ McpTypeOK /\ MessagesTypeOK
    /\ ListingsTypeOK /\ EditsTypeOK /\ ChatsTypeOK
=============================================================================
