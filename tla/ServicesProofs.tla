--------------------------- MODULE ServicesProofs ---------------------------
(***************************************************************************)
(* Proofs about MCServices, which serves the services of CommunityProofs and *)
(* StoriesProofs one at a time.                                              *)
(***************************************************************************)
EXTENDS MCServices, CommunityProofs, StoriesProofs

-----------------------------------------------------------------------------
(* MCServices: the service that the first state chose is served as its      *)
(* module says, and the tables of the others stay as they were.             *)

LEMMA AudienceIsServed ==
    /\ ServicesInit => RequestsInit /\ AudienceInit
    /\ part = "audience" /\ [ServicesNext]_servicesVars =>
          part' = "audience" /\ [AudienceNext]_audienceSpecVars
    /\ part # "audience" /\ [ServicesNext]_servicesVars =>
          part' # "audience" /\ UNCHANGED audience
BY DEF ServicesInit, ServicesNext, Only, servicesVars, audienceSpecVars

LEMMA GroupsIsServed ==
    /\ ServicesInit => RequestsInit /\ GroupsInit
    /\ part = "groups" /\ [ServicesNext]_servicesVars =>
          part' = "groups" /\ [GroupsNext]_groupsSpecVars
    /\ part # "groups" /\ [ServicesNext]_servicesVars =>
          part' # "groups" /\ UNCHANGED groups
BY DEF ServicesInit, ServicesNext, Only, servicesVars, groupsSpecVars

LEMMA CommentsIsServed ==
    /\ ServicesInit => RequestsInit /\ CommentsInit
    /\ part = "comments" /\ [ServicesNext]_servicesVars =>
          part' = "comments" /\ [CommentsNext]_commentsSpecVars
    /\ part # "comments" /\ [ServicesNext]_servicesVars =>
          part' # "comments" /\ UNCHANGED comments
BY DEF ServicesInit, ServicesNext, Only, servicesVars, commentsSpecVars

LEMMA RenderingIsServed ==
    /\ ServicesInit => RequestsInit /\ RenderingInit
    /\ part = "rendering" /\ [ServicesNext]_servicesVars =>
          part' = "rendering" /\ [RenderingNext]_renderingSpecVars
    /\ part # "rendering" /\ [ServicesNext]_servicesVars =>
          part' # "rendering" /\ UNCHANGED rendering
BY DEF ServicesInit, ServicesNext, Only, servicesVars, renderingSpecVars

LEMMA ScenesIsServed ==
    /\ ServicesInit => RequestsInit /\ ScenesInit
    /\ part = "scenes" /\ [ServicesNext]_servicesVars =>
          part' = "scenes" /\ [ScenesNext]_scenesSpecVars
    /\ part # "scenes" /\ [ServicesNext]_servicesVars =>
          part' # "scenes" /\ UNCHANGED scenes
BY DEF ServicesInit, ServicesNext, Only, servicesVars, scenesSpecVars

LEMMA AccountsIsServed ==
    /\ ServicesInit => RequestsInit /\ AccountsInit
    /\ part = "accounts" /\ [ServicesNext]_servicesVars =>
          part' = "accounts" /\ [AccountsNext]_accountsSpecVars
    /\ part # "accounts" /\ [ServicesNext]_servicesVars =>
          part' # "accounts" /\ UNCHANGED accounts
BY DEF ServicesInit, ServicesNext, Only, servicesVars, accountsSpecVars

LEMMA McpIsServed ==
    /\ ServicesInit => RequestsInit /\ McpInit
    /\ part = "mcp" /\ [ServicesNext]_servicesVars =>
          part' = "mcp" /\ [McpNext]_mcpSpecVars
    /\ part # "mcp" /\ [ServicesNext]_servicesVars =>
          part' # "mcp" /\ UNCHANGED mcpVars
BY DEF ServicesInit, ServicesNext, Only, servicesVars, mcpSpecVars

LEMMA MessagesIsServed ==
    /\ ServicesInit => RequestsInit /\ MessagesInit
    /\ part = "messages" /\ [ServicesNext]_servicesVars =>
          part' = "messages" /\ [MessagesNext]_messagesSpecVars
    /\ part # "messages" /\ [ServicesNext]_servicesVars =>
          part' # "messages" /\ UNCHANGED messages
BY DEF ServicesInit, ServicesNext, Only, servicesVars, messagesSpecVars

LEMMA ListingsIsServed ==
    /\ ServicesInit => RequestsInit /\ ListingsInit
    /\ part = "listings" /\ [ServicesNext]_servicesVars =>
          part' = "listings" /\ [ListingsNext]_listingsSpecVars
    /\ part # "listings" /\ [ServicesNext]_servicesVars =>
          part' # "listings" /\ UNCHANGED listings
BY DEF ServicesInit, ServicesNext, Only, servicesVars, listingsSpecVars

LEMMA EditsIsServed ==
    /\ ServicesInit => RequestsInit /\ EditsInit
    /\ part = "edits" /\ [ServicesNext]_servicesVars =>
          part' = "edits" /\ [EditsNext]_editsSpecVars
    /\ part # "edits" /\ [ServicesNext]_servicesVars =>
          part' # "edits" /\ UNCHANGED edits
BY DEF ServicesInit, ServicesNext, Only, servicesVars, editsSpecVars

LEMMA ChatsIsServed ==
    /\ ServicesInit => RequestsInit /\ ChatsInit
    /\ part = "chats" /\ [ServicesNext]_servicesVars =>
          part' = "chats" /\ [ChatsNext]_chatsSpecVars
    /\ part # "chats" /\ [ServicesNext]_servicesVars =>
          part' # "chats" /\ UNCHANGED chats
BY DEF ServicesInit, ServicesNext, Only, servicesVars, chatsSpecVars

\* Every behaviour of the services is one of the service that is served: what is
\* proved of a service holds when ServicesSpec serves it.
THEOREM EachIsServed ==
    ServicesSpec =>
        /\ part = "audience" => AudienceSpec
        /\ part = "groups" => GroupsSpec
        /\ part = "comments" => CommentsSpec
        /\ part = "rendering" => RenderingSpec
        /\ part = "scenes" => ScenesSpec
        /\ part = "accounts" => AccountsSpec
        /\ part = "mcp" => McpSpec
        /\ part = "messages" => MessagesSpec
        /\ part = "listings" => ListingsSpec
        /\ part = "edits" => EditsSpec
        /\ part = "chats" => ChatsSpec
<1>1. ServicesSpec => (part = "audience" => AudienceSpec)
  <2>1. ServicesInit => RequestsInit /\ AudienceInit
    BY AudienceIsServed
  <2>2. part = "audience" /\ [ServicesNext]_servicesVars =>
            (part = "audience")' /\ [AudienceNext]_audienceSpecVars
    BY AudienceIsServed
  <2> QED
    BY <2>1, <2>2, PTL DEF ServicesSpec, AudienceSpec, audienceSpecVars
<1>2. ServicesSpec => (part = "groups" => GroupsSpec)
  <2>1. ServicesInit => RequestsInit /\ GroupsInit
    BY GroupsIsServed
  <2>2. part = "groups" /\ [ServicesNext]_servicesVars =>
            (part = "groups")' /\ [GroupsNext]_groupsSpecVars
    BY GroupsIsServed
  <2> QED
    BY <2>1, <2>2, PTL DEF ServicesSpec, GroupsSpec, groupsSpecVars
<1>3. ServicesSpec => (part = "comments" => CommentsSpec)
  <2>1. ServicesInit => RequestsInit /\ CommentsInit
    BY CommentsIsServed
  <2>2. part = "comments" /\ [ServicesNext]_servicesVars =>
            (part = "comments")' /\ [CommentsNext]_commentsSpecVars
    BY CommentsIsServed
  <2> QED
    BY <2>1, <2>2, PTL DEF ServicesSpec, CommentsSpec, commentsSpecVars
<1>4. ServicesSpec => (part = "rendering" => RenderingSpec)
  <2>1. ServicesInit => RequestsInit /\ RenderingInit
    BY RenderingIsServed
  <2>2. part = "rendering" /\ [ServicesNext]_servicesVars =>
            (part = "rendering")' /\ [RenderingNext]_renderingSpecVars
    BY RenderingIsServed
  <2> QED
    BY <2>1, <2>2, PTL DEF ServicesSpec, RenderingSpec, renderingSpecVars
<1>5. ServicesSpec => (part = "scenes" => ScenesSpec)
  <2>1. ServicesInit => RequestsInit /\ ScenesInit
    BY ScenesIsServed
  <2>2. part = "scenes" /\ [ServicesNext]_servicesVars =>
            (part = "scenes")' /\ [ScenesNext]_scenesSpecVars
    BY ScenesIsServed
  <2> QED
    BY <2>1, <2>2, PTL DEF ServicesSpec, ScenesSpec, scenesSpecVars
<1>6. ServicesSpec => (part = "accounts" => AccountsSpec)
  <2>1. ServicesInit => RequestsInit /\ AccountsInit
    BY AccountsIsServed
  <2>2. part = "accounts" /\ [ServicesNext]_servicesVars =>
            (part = "accounts")' /\ [AccountsNext]_accountsSpecVars
    BY AccountsIsServed
  <2> QED
    BY <2>1, <2>2, PTL DEF ServicesSpec, AccountsSpec, accountsSpecVars
<1>7. ServicesSpec => (part = "mcp" => McpSpec)
  <2>1. ServicesInit => RequestsInit /\ McpInit
    BY McpIsServed
  <2>2. part = "mcp" /\ [ServicesNext]_servicesVars =>
            (part = "mcp")' /\ [McpNext]_mcpSpecVars
    BY McpIsServed
  <2> QED
    BY <2>1, <2>2, PTL DEF ServicesSpec, McpSpec, mcpSpecVars
<1>8. ServicesSpec => (part = "messages" => MessagesSpec)
  <2>1. ServicesInit => RequestsInit /\ MessagesInit
    BY MessagesIsServed
  <2>2. part = "messages" /\ [ServicesNext]_servicesVars =>
            (part = "messages")' /\ [MessagesNext]_messagesSpecVars
    BY MessagesIsServed
  <2> QED
    BY <2>1, <2>2, PTL DEF ServicesSpec, MessagesSpec, messagesSpecVars
<1>9. ServicesSpec => (part = "listings" => ListingsSpec)
  <2>1. ServicesInit => RequestsInit /\ ListingsInit
    BY ListingsIsServed
  <2>2. part = "listings" /\ [ServicesNext]_servicesVars =>
            (part = "listings")' /\ [ListingsNext]_listingsSpecVars
    BY ListingsIsServed
  <2> QED
    BY <2>1, <2>2, PTL DEF ServicesSpec, ListingsSpec, listingsSpecVars
<1>10. ServicesSpec => (part = "edits" => EditsSpec)
  <2>1. ServicesInit => RequestsInit /\ EditsInit
    BY EditsIsServed
  <2>2. part = "edits" /\ [ServicesNext]_servicesVars =>
            (part = "edits")' /\ [EditsNext]_editsSpecVars
    BY EditsIsServed
  <2> QED
    BY <2>1, <2>2, PTL DEF ServicesSpec, EditsSpec, editsSpecVars
<1>11. ServicesSpec => (part = "chats" => ChatsSpec)
  <2>1. ServicesInit => RequestsInit /\ ChatsInit
    BY ChatsIsServed
  <2>2. part = "chats" /\ [ServicesNext]_servicesVars =>
            (part = "chats")' /\ [ChatsNext]_chatsSpecVars
    BY ChatsIsServed
  <2> QED
    BY <2>1, <2>2, PTL DEF ServicesSpec, ChatsSpec, chatsSpecVars
<1> QED
  BY <1>1, <1>2, <1>3, <1>4, <1>5, <1>6, <1>7, <1>8, <1>9, <1>10, <1>11

-----------------------------------------------------------------------------
(* MCServices: types.                                                      *)

\* The invariant of the service that is served, and the types of the others.
AudienceStands == IF part = "audience" THEN AudienceInv ELSE AudienceTypeOK

GroupsStands == IF part = "groups" THEN GroupsInv ELSE GroupsTypeOK

CommentsStands == IF part = "comments" THEN CommentsInv ELSE CommentsTypeOK

RenderingStands == IF part = "rendering" THEN RenderingInv ELSE RenderingTypeOK

ScenesStands == IF part = "scenes" THEN ScenesInv ELSE ScenesTypeOK

AccountsStands == IF part = "accounts" THEN AccountsInv ELSE AccountsTypeOK

McpStands == IF part = "mcp" THEN LockInv ELSE McpTypeOK

MessagesStands == IF part = "messages" THEN MessagesInv ELSE MessagesTypeOK

ListingsStands == IF part = "listings" THEN ListingsInv ELSE ListingsTypeOK

EditsStands == IF part = "edits" THEN EditsInv ELSE EditsTypeOK

ChatsStands == IF part = "chats" THEN ChatsInv ELSE ChatsTypeOK

ServicesInv ==
    /\ AudienceStands
    /\ GroupsStands
    /\ CommentsStands
    /\ RenderingStands
    /\ ScenesStands
    /\ AccountsStands
    /\ McpStands
    /\ MessagesStands
    /\ ListingsStands
    /\ EditsStands
    /\ ChatsStands

LEMMA AudienceStandsStill ==
    /\ ServicesInit => AudienceStands
    /\ AudienceStands /\ [ServicesNext]_servicesVars => AudienceStands'
    /\ AudienceStands => AudienceTypeOK
<1>1. AudienceInv => AudienceTypeOK
  BY DEF AudienceInv, AudienceBase
<1>2. ServicesInit => AudienceInv
  BY AudienceIsServed, AudienceInitHolds
<1>3. AudienceTypeOK /\ UNCHANGED audience => AudienceTypeOK'
  BY DEF AudienceTypeOK, audience
<1> QED
  BY <1>1, <1>2, <1>3, AudienceIsServed, AudienceNextKeeps DEF AudienceStands

LEMMA GroupsStandsStill ==
    /\ ServicesInit => GroupsStands
    /\ GroupsStands /\ [ServicesNext]_servicesVars => GroupsStands'
    /\ GroupsStands => GroupsTypeOK
<1>1. GroupsInv => GroupsTypeOK
  BY DEF GroupsInv
<1>2. ServicesInit => GroupsInv
  BY GroupsIsServed, GroupsInitHolds
<1>3. GroupsTypeOK /\ UNCHANGED groups => GroupsTypeOK'
  BY DEF GroupsTypeOK, groups
<1> QED
  BY <1>1, <1>2, <1>3, GroupsIsServed, GroupsNextKeeps DEF GroupsStands

LEMMA CommentsStandsStill ==
    /\ ServicesInit => CommentsStands
    /\ CommentsStands /\ [ServicesNext]_servicesVars => CommentsStands'
    /\ CommentsStands => CommentsTypeOK
<1>1. CommentsInv => CommentsTypeOK
  BY DEF CommentsInv, CommentsBase
<1>2. ServicesInit => CommentsInv
  BY CommentsIsServed, CommentsInitHolds
<1>3. CommentsTypeOK /\ UNCHANGED comments => CommentsTypeOK'
  BY DEF CommentsTypeOK, comments
<1> QED
  BY <1>1, <1>2, <1>3, CommentsIsServed, CommentsNextKeeps DEF CommentsStands

LEMMA RenderingStandsStill ==
    /\ ServicesInit => RenderingStands
    /\ RenderingStands /\ [ServicesNext]_servicesVars => RenderingStands'
    /\ RenderingStands => RenderingTypeOK
<1>1. RenderingInv => RenderingTypeOK
  BY DEF RenderingInv
<1>2. ServicesInit => RenderingInv
  BY RenderingIsServed, RenderingInitHolds
<1>3. RenderingTypeOK /\ UNCHANGED rendering => RenderingTypeOK'
  BY DEF RenderingTypeOK, rendering
<1> QED
  BY <1>1, <1>2, <1>3, RenderingIsServed, RenderingNextKeeps DEF RenderingStands

LEMMA ScenesStandsStill ==
    /\ ServicesInit => ScenesStands
    /\ ScenesStands /\ [ServicesNext]_servicesVars => ScenesStands'
    /\ ScenesStands => ScenesTypeOK
<1>1. ScenesInv => ScenesTypeOK
  BY DEF ScenesInv
<1>2. ServicesInit => ScenesInv
  BY ScenesIsServed, ScenesInitHolds
<1>3. ScenesTypeOK /\ UNCHANGED scenes => ScenesTypeOK'
  BY DEF ScenesTypeOK, scenes
<1> QED
  BY <1>1, <1>2, <1>3, ScenesIsServed, ScenesNextKeeps DEF ScenesStands

LEMMA AccountsStandsStill ==
    /\ ServicesInit => AccountsStands
    /\ AccountsStands /\ [ServicesNext]_servicesVars => AccountsStands'
    /\ AccountsStands => AccountsTypeOK
<1>1. AccountsInv => AccountsTypeOK
  BY DEF AccountsInv
<1>2. ServicesInit => AccountsInv
  BY AccountsIsServed, AccountsInitHolds
<1>3. AccountsTypeOK /\ UNCHANGED accounts => AccountsTypeOK'
  BY DEF AccountsTypeOK, accounts
<1> QED
  BY <1>1, <1>2, <1>3, AccountsIsServed, AccountsNextKeeps DEF AccountsStands

LEMMA McpStandsStill ==
    /\ ServicesInit => McpStands
    /\ McpStands /\ [ServicesNext]_servicesVars => McpStands'
    /\ McpStands => McpTypeOK
<1>1. LockInv => McpTypeOK
  BY DEF LockInv
<1>2. ServicesInit => LockInv
  BY McpIsServed, McpInitHolds
<1>3. McpTypeOK /\ UNCHANGED mcpVars => McpTypeOK'
  BY DEF McpTypeOK, mcpVars
<1> QED
  BY <1>1, <1>2, <1>3, McpIsServed, McpNextKeeps DEF McpStands

LEMMA MessagesStandsStill ==
    /\ ServicesInit => MessagesStands
    /\ MessagesStands /\ [ServicesNext]_servicesVars => MessagesStands'
    /\ MessagesStands => MessagesTypeOK
<1>1. MessagesInv => MessagesTypeOK
  BY DEF MessagesInv
<1>2. ServicesInit => MessagesInv
  BY MessagesIsServed, MessagesInitHolds
<1>3. MessagesTypeOK /\ UNCHANGED messages => MessagesTypeOK'
  BY DEF MessagesTypeOK, messages, queueVars, storeVars
<1> QED
  BY <1>1, <1>2, <1>3, MessagesIsServed, MessagesNextKeeps DEF MessagesStands

LEMMA ListingsStandsStill ==
    /\ ServicesInit => ListingsStands
    /\ ListingsStands /\ [ServicesNext]_servicesVars => ListingsStands'
    /\ ListingsStands => ListingsTypeOK
<1>1. ListingsInv => ListingsTypeOK
  BY TableIs DEF ListingsInv, ListingsBase, Walks, ListingsTypeOK, TableRow
<1>2. ServicesInit => ListingsInv
  BY ListingsIsServed, ListingsInitHolds
<1>3. ListingsTypeOK /\ UNCHANGED listings => ListingsTypeOK'
  BY DEF ListingsTypeOK, listings
<1> QED
  BY <1>1, <1>2, <1>3, ListingsIsServed, ListingsNextKeeps DEF ListingsStands

LEMMA EditsStandsStill ==
    /\ ServicesInit => EditsStands
    /\ EditsStands /\ [ServicesNext]_servicesVars => EditsStands'
    /\ EditsStands => EditsTypeOK
<1>1. EditsInv => EditsTypeOK
  BY DEF EditsInv
<1>2. ServicesInit => EditsInv
  BY EditsIsServed, EditsInitHolds
<1>3. EditsTypeOK /\ UNCHANGED edits => EditsTypeOK'
  BY DEF EditsTypeOK, edits
<1> QED
  BY <1>1, <1>2, <1>3, EditsIsServed, EditsNextKeeps DEF EditsStands

LEMMA ChatsStandsStill ==
    /\ ServicesInit => ChatsStands
    /\ ChatsStands /\ [ServicesNext]_servicesVars => ChatsStands'
    /\ ChatsStands => ChatsTypeOK
<1>1. ChatsInv => ChatsTypeOK
  BY DEF ChatsInv, ChatsBase
<1>2. ServicesInit => ChatsInv
  BY ChatsIsServed, ChatsInitHolds
<1>3. ChatsTypeOK /\ UNCHANGED chats => ChatsTypeOK'
  BY DEF ChatsTypeOK, chats
<1> QED
  BY <1>1, <1>2, <1>3, ChatsIsServed, ChatsNextKeeps DEF ChatsStands

\* The tables and the requests of whatever service is served have their types.
THEOREM ServicesAreTyped == ServicesSpec => []ServicesTypeOK
<1>1. ServicesInit => ServicesInv
  BY AudienceStandsStill, GroupsStandsStill, CommentsStandsStill, RenderingStandsStill,
     ScenesStandsStill, AccountsStandsStill, McpStandsStill, MessagesStandsStill,
     ListingsStandsStill, EditsStandsStill, ChatsStandsStill DEF ServicesInv
<1>2. ServicesInv /\ [ServicesNext]_servicesVars => ServicesInv'
  BY AudienceStandsStill, GroupsStandsStill, CommentsStandsStill, RenderingStandsStill,
     ScenesStandsStill, AccountsStandsStill, McpStandsStill, MessagesStandsStill,
     ListingsStandsStill, EditsStandsStill, ChatsStandsStill DEF ServicesInv
<1>3. ServicesInv => ServicesTypeOK
  BY AudienceStandsStill, GroupsStandsStill, CommentsStandsStill, RenderingStandsStill,
     ScenesStandsStill, AccountsStandsStill, McpStandsStill, MessagesStandsStill,
     ListingsStandsStill, EditsStandsStill, ChatsStandsStill DEF ServicesInv, ServicesTypeOK
<1> QED
  BY <1>1, <1>2, <1>3, PTL DEF ServicesSpec

=============================================================================
