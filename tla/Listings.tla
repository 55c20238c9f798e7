------------------------------ MODULE Listings ------------------------------
(***************************************************************************)
(* The listings that are read page by page (models/, pkg/): a client walks  *)
(* the pages of one of them while its rows are added, hidden, deleted and   *)
(* moved.  No request remembers where the last one ended: what a page shows *)
(* depends on the number the client sends, on what the query makes of it,   *)
(* and on how far the rows have moved since.                                *)
(***************************************************************************)
EXTENDS Requests, Sequences, FiniteSets

CONSTANTS
    PageSize,    \* the page size of the requests
    ListedRows,  \* the rows there are before the first page
    MaxPages     \* bound on the pages asked for

ASSUME ListingsAssumption ==
    PageSize \in Nat \ {0} /\ ListedRows \in Nat /\ MaxPages \in Nat

VARIABLES
    listing,   \* the listing that is walked
    client,    \* what its client counts in the number it sends
    rows,      \* the rows of the table, in the order of the listing
    pages,     \* the pages answered so far
    cursor,    \* the number the next request sends
    start,     \* the ids the listing held at the first page
    seen,      \* the ids that were answered
    again,     \* the ids that were answered twice
    ended,     \* an answer without rows ended the walk
    moves      \* what happened to the rows meanwhile, see Still

listings == <<listing, client, rows, pages, cursor, start, seen, again, ended, moves>>

-----------------------------------------------------------------------------
(* Queries.  A row is plain (status 1), a draft (a board of status 1 that   *)
(* is not published), hidden (status -1) or deleted.  deleteFilter leaves   *)
(* deleted rows out of Find, First and Count, and out of a Scan only when   *)
(* it repeats the query of a Count.                                         *)

Kinds == {"plain", "draft", "hidden", "deleted"}
Kept == Kinds \ {"deleted"}
Public == {"plain", "draft"}

\* How many rows a query skips for the number it is given; gorm leaves a
\* negative offset out.  "all" and "first" do not look at the number.
\* Mutants: the first page has the number 0; the first page has the number 1.
SkipFromNought(how, n) ==
    IF how \in {"page", "before"} THEN n * PageSize
    ELSE IF how = "offset" THEN n ELSE 0

SkipFromOne(how, n) ==
    IF how \in {"page", "before"} /\ n > 0 THEN (n - 1) * PageSize
    ELSE IF how = "offset" THEN n ELSE 0

Skip(how, n) ==
    CASE how = "page" -> n * PageSize
      [] how = "before" /\ n > 0 -> (n - 1) * PageSize
      [] how = "offset" -> n
      [] OTHER -> 0

\* Newest: create_at desc.  Oldest: in the order of the ids.  Liked: by likes or
\* by forks, most first.
Query(shows, skip, order) == [shows |-> shows, skip |-> skip, order |-> order]

\* The query never runs, or its SQL always fails.
Never == Query({}, "all", "oldest")

GetStoryboardsByStoryMultiPage == Query(Public, "before", "newest")
\* The client names the column to order by, or none; like is no name of a column.
GetStoryBoardByStoryAndPrevId ==
    {Query(Public, "page", order) : order \in {"oldest", "newest", "touchedFirst", "liked"}}
        \cup {Never}
GetStoryBoardsByRoleID == Query(Public, "all", "oldest")      \* pages after Find
GetStoryBoardsByStoryIds == Query(Public, "before", "newest")
GetStoryBoardsByRolesID == Query(Public, "all", "newest")  \* pages after Find
GetUnPublishedStoryBoardsByUserId == Query({"draft", "hidden"}, "page", "newest")
GetUserCreatedStoryboardsWithStoryId == Query(Kept, "offset", "newest")
GetUserCreatedRolesWithStoryId == Query(Kept, "offset", "newest")
GetStoriesByName == Query(Kept, "offset", "oldest")
GetStoryRolesByName == Query(Kept, "offset", "oldest")
GetTrendingStories == Query(Kept, "offset", "liked")
GetTrendingStoryRoles == Query(Kept, "offset", "liked")
GetStoryByGroupID == Query(Kept, "before", "oldest")
GetStoryRoleRows == Query(Kept, "all", "oldest")
StoryContributorRows == Query(Kept, "all", "oldest")
GetUserGroups == Query(Kept, "before", "newest")
GetUserJoinedGroups == Never         \* scans into a slice, finds nothing
GetGroupMemberInfoList == Query(Kept, "all", "oldest")      \* pages after Scan
GetGroupByName == Never              \* counts, finds nothing
GetActiveByFollowingGroupID == Query(Kept, "before", "newest")
GetActiveByFollowingStoryID == Never      \* there is no column created_at
GetActiveByFollowingStoryRoleID == Never
GetActiveByGroupID == Never
GetCommentByStory == Query(Public \cup {"deleted"}, "before", "newest")
GetCommentListByStoryBoard == Query(Kept, "before", "newest")
StoryCommentReplyRows == Query(Kept, "all", "oldest")
StoryBoardCommentReplyRows == Query(Kept, "all", "newest")
GetChatContextByUserID == Query(Public, "page", "touchedFirst")
GetChatMessageByUserID == Query(Kept, "before", "oldest")
GetGroupProjects == Query(Kept, "offset", "oldest")
GetAllProjects == Query(Kept, "offset", "touchedLast")
GetUserWatchingProjects == Never     \* one argument too many, no such column
GetStoryItemByProject == Query(Kinds, "offset", "oldest")
GetStoryItemByGroup == Never         \* there is no column project_id in project
\* The tables of payments have no column created_at either.
UserOrderRows == Never
GetUserOrdersByStatus == Never
GetUserPaymentRecords == Never
GetUserPaymentRecordsByStatus == Never
GetUserPaymentRecordsByMethod == Never
GetPaymentRecordsByOrderID == Never
GetUserSubscriptions == Never

-----------------------------------------------------------------------------
(* Handlers.  drops: the rows that are read and not answered; answers: what *)
(* the response says the next offset is; loses: a call that fails for one   *)
(* row leaves the row out.  Any other call that fails fails the page.       *)

Asks(query, drops, answers, loses) ==
    [query |-> query, drops |-> drops, answers |-> answers, loses |-> loses]

Lists(query) == Asks(query, {}, "none", FALSE)

\* The handler asks for page 0 of the query, whatever the request says.
AlwaysFirst(query) == [query EXCEPT !.skip = "first"]

GetStoryboards == Lists(GetStoryboardsByStoryMultiPage)
GetUserCreatedStoryboards == Asks(GetUserCreatedStoryboardsWithStoryId, {}, "none", TRUE)
GetNextStoryboard == {Lists(query) : query \in GetStoryBoardByStoryAndPrevId}
GetUserWatchStoryActiveStoryBoards == Lists(GetStoryBoardsByStoryIds)
GetUserWatchRoleActiveStoryBoards == Lists(GetStoryBoardsByRolesID)
GetUnPublishStoryboard == Lists(GetUnPublishedStoryBoardsByUserId)
GetStoryRoles == Lists(GetStoryRoleRows)
GetStoryBoardRoles == Lists(GetStoryRoleRows)
GetStoryRoleStoryboards == Lists(GetStoryBoardsByRoleID)
GetUserCreatedRoles == Asks(GetUserCreatedRolesWithStoryId, Kinds \ Public, "none", FALSE)
GetUserWithRoleChatList == Lists(GetChatContextByUserID)
GetUserChatMessages == Lists(AlwaysFirst(GetChatMessageByUserID))
GetStoryContributors == Lists(StoryContributorRows)
SearchStories == Lists(GetStoriesByName)
SearchRoles == Lists(GetStoryRolesByName)
GetStoryRoleList == Lists(GetStoryRolesByName)
TrendingStory == Lists(GetTrendingStories)
TrendingStoryRole == Lists(GetTrendingStoryRoles)
GetUserGroup == Lists(GetUserGroups)
GetUserFollowingGroup == Lists(GetUserJoinedGroups)
FetchGroupActives == Lists(GetActiveByFollowingGroupID)
FetchStoryActives == Lists(GetActiveByFollowingStoryID)
FetchRoleActives == Lists(GetActiveByFollowingStoryRoleID)
FetchActives == {FetchGroupActives, FetchStoryActives, FetchRoleActives}
UserWatching == Lists(GetUserWatchingProjects)
GetGroupActives == Lists(GetActiveByGroupID)
FetchGroupMembers == Asks(GetGroupMemberInfoList, {}, "sum", FALSE)
FetchGroupProjects == Asks(GetGroupProjects, {}, "sum", FALSE)
SearchGroup == Lists(GetGroupByName)
FetchGroupStorys == Lists(GetStoryByGroupID)
GetStoryComments == Lists(GetCommentByStory)
GetStoryCommentReplies == Lists(StoryCommentReplyRows)
GetStoryBoardComments == Lists(GetCommentListByStoryBoard)
GetStoryBoardCommentReplies == Lists(StoryBoardCommentReplyRows)
GetProjectList == Asks(GetGroupProjects, {}, "sum", FALSE)
ExploreProjects ==
    {Asks(GetGroupProjects, {}, "length", FALSE), Asks(GetAllProjects, {}, "length", FALSE)}
SearchGroupProject == Asks(GetGroupProjects, {}, "length", FALSE)
SearchProject == Asks(GetAllProjects, {}, "length", FALSE)
GetProjectItems == Asks(GetStoryItemByProject, Kinds, "sum", FALSE)  \* none if there are any
GetGroupItems == Asks(GetStoryItemByGroup, Kinds, "sum", FALSE)
GetUserItems == Asks(GetStoryItemByProject, {}, "sum", FALSE)  \* of the project with the user's id
GetUserOrders == Lists(UserOrderRows)
GetOrders == Lists(UserOrderRows)
PaymentLists ==
    {Lists(GetUserOrdersByStatus), Lists(GetUserPaymentRecords),
     Lists(GetUserPaymentRecordsByStatus), Lists(GetUserPaymentRecordsByMethod),
     Lists(GetPaymentRecordsByOrderID), Lists(GetUserSubscriptions)}
\* Both begin with the records of the order, and answer that there is no payment.
QueryPaymentStatus == Lists(GetPaymentRecordsByOrderID)
RefundPayment == Lists(GetPaymentRecordsByOrderID)

Handlers ==
    {GetStoryboards, GetUserCreatedStoryboards,
     GetUserWatchStoryActiveStoryBoards, GetUserWatchRoleActiveStoryBoards,
     GetUnPublishStoryboard, GetStoryRoles, GetStoryBoardRoles,
     GetStoryRoleStoryboards, GetUserCreatedRoles, GetUserWithRoleChatList,
     GetUserChatMessages, GetStoryContributors, SearchStories, SearchRoles,
     GetStoryRoleList, TrendingStory, TrendingStoryRole, GetUserGroup,
     GetUserFollowingGroup, UserWatching, GetGroupActives, FetchGroupMembers,
     FetchGroupProjects, SearchGroup, FetchGroupStorys, GetStoryComments,
     GetStoryCommentReplies, GetStoryBoardComments, GetStoryBoardCommentReplies,
     GetProjectList, SearchGroupProject, SearchProject, GetProjectItems,
     GetGroupItems, GetUserItems, GetUserOrders, GetOrders,
     QueryPaymentStatus, RefundPayment}
        \cup GetNextStoryboard \cup FetchActives \cup ExploreProjects \cup PaymentLists

-----------------------------------------------------------------------------
(* The walk.  A client numbers the pages from 0 or from 1, counts the rows  *)
(* it asked for, or sends the offset it was answered.                       *)

Clients == {"fromNought", "fromOne", "rows", "answer"}

Ids(part) == {row.id : row \in part}

IsShown(row) == row.is \in listing.query.shows

\* The rows that the listing shows up to row i, and how many there are: the
\* place of row i, if it is shown.
UpTo(table, i) == Ids({table[j] : j \in {k \in 1 .. i : IsShown(table[k])}})

Rank(table, i) == Cardinality(UpTo(table, i))

\* The listing: the rows it shows, each at its place.
Listed(table) ==
    {[row |-> table[i], place |-> Rank(table, i)] : i \in {j \in DOMAIN table : IsShown(table[j])}}

\* The rows in front of the next page.
Passed == Skip(listing.query.skip, cursor)

\* The page that the query reads.
Page ==
    {entry.row : entry \in {e \in Listed(rows) :
        /\ e.place > Passed
        /\ listing.query.skip = "all" \/ e.place <= Passed + PageSize}}

\* Nothing has left, been put in front, changed or been lost since the walk began.
Still == [left |-> 0, front |-> 0, changed |-> {}, lost |-> 0, blank |-> FALSE]

\* The client counts what the query reads.
Fits ==
    \/ listing.query.skip = "page" /\ client = "fromNought"
    \/ listing.query.skip = "before" /\ client = "fromOne"
    \/ listing.query.skip = "offset" /\ client = "rows"
    \/ listing.query.skip = "offset" /\ client = "answer" /\ listing.answers = "sum"

\* It reads the first page twice, or the same page every time.
Repeats ==
    \/ listing.query.skip = "before" /\ client = "fromNought"
    \/ listing.query.skip \in {"all", "first"} /\ client = "fromNought"

ListingsInit ==
    /\ listing \in Handlers
    /\ client \in Clients /\ (Fits \/ Repeats)
    /\ rows = [i \in 1 .. ListedRows |->
                  [id |-> i, is |-> IF "plain" \in listing.query.shows THEN "plain" ELSE "draft"]]
    /\ pages = 0
    /\ cursor = (IF client = "fromOne" THEN 1 ELSE 0)
    /\ start = {rows[i].id : i \in {j \in DOMAIN rows : IsShown(rows[j])}}
    /\ seen = {} /\ again = {} /\ ended = FALSE /\ moves = Still

\* The number that follows a page of n rows.
NextNumber(n) ==
    CASE client = "rows" -> cursor + PageSize
      [] client = "answer" /\ listing.answers = "sum" -> cursor + n
      [] client = "answer" /\ listing.answers = "length" -> n
      [] OTHER -> cursor + 1

\* The page is answered without the rows in lost.
Answers(lost) ==
    LET sent == Ids({row \in Page : row.is \notin listing.drops}) \ lost
    IN  /\ ~ ended /\ pages < MaxPages
        /\ pages' = pages + 1
        /\ cursor' = NextNumber(Cardinality(sent))
        /\ seen' = seen \cup sent
        /\ again' = again \cup (seen \cap sent)
        /\ ended' = (sent = {})
        /\ moves' = [moves EXCEPT !.lost = @ + Cardinality(lost),
                                  !.blank = @ \/ (sent = {} /\ Page # {})]
        /\ UNCHANGED <<listing, client, rows, start>>

TurnPage == Answers({}) /\ UNCHANGED requestVars

\* The scenes of one board cannot be read.
LoseRow ==
    /\ listing.loses
    /\ faults < MaxFaults
    /\ faults' = faults + 1
    /\ \E id \in Ids(Page) : Answers({id})
    /\ UNCHANGED <<worker, served, overlapped>>

-----------------------------------------------------------------------------
(* What other requests do to the rows between two pages.                   *)

\* Between two pages the rows become table: row id leaves the pages that were
\* answered, or enters them.  A change that the listing never shows is no step.
Moves(table, id, leaves, enters) ==
    /\ pages > 0 /\ ~ ended
    /\ Listed(table) # Listed(rows)
    /\ Serves
    /\ rows' = table
    /\ moves' = [moves EXCEPT
          !.left = @ + (IF leaves THEN 1 ELSE 0),
          !.front = @ + (IF enters THEN 1 ELSE 0),
          !.changed = @ \cup {id}]
    /\ UNCHANGED <<listing, client, pages, cursor, start, seen, again, ended>>

\* A row is created: in front of the newest, behind all others.
AddRow(kind) ==
    LET row == [id |-> Len(rows) + 1, is |-> kind]
        inFront == listing.query.order \in {"newest", "touchedFirst"}
    IN  Moves(IF inFront THEN <<row>> \o rows ELSE Append(rows, row), row.id,
              FALSE, inFront /\ IsShown(row) /\ Passed > 0)

\* A row is published, taken back, hidden or deleted.
TurnRow(i, kind) ==
    LET table == [rows EXCEPT ![i].is = kind]
        is == [rows[i] EXCEPT !.is = kind]
    IN  /\ rows[i].is # kind /\ rows[i].is # "deleted"
        /\ Moves(table, is.id,
                 IsShown(rows[i]) /\ ~ IsShown(is) /\ Rank(rows, i) <= Passed,
                 ~ IsShown(rows[i]) /\ IsShown(is) /\ Rank(table, i) <= Passed)

\* A row is updated, or gains or loses likes or forks.  The order by update_at
\* puts it first or last, the order by likes or forks anywhere.
MovedTo(i) ==
    CASE listing.query.order = "touchedFirst" -> {1} \ {i}
      [] listing.query.order = "touchedLast" -> {Len(rows)} \ {i}
      [] listing.query.order = "liked" -> DOMAIN rows \ {i}
      [] OTHER -> {}

\* Row i goes to j, and the rows between them make room.
Moved(i, j) ==
    [k \in DOMAIN rows |->
        CASE k = j -> rows[i]
          [] j < k /\ k <= i -> rows[k - 1]
          [] i <= k /\ k < j -> rows[k + 1]
          [] OTHER -> rows[k]]

TouchRow(i) ==
    \E j \in MovedTo(i) :
        LET table == Moved(i, j)
            was == Rank(rows, i) <= Passed
            is == Rank(table, j) <= Passed
        IN  Moves(table, rows[i].id, IsShown(rows[i]) /\ was /\ ~ is,
                  IsShown(rows[i]) /\ ~ was /\ is)

ListingsNext ==
    \/ TurnPage
    \/ LoseRow
    \/ \E kind \in Public : AddRow(kind)
    \/ \E i \in DOMAIN rows : TouchRow(i) \/ \E kind \in Kinds : TurnRow(i, kind)

ListingsSpec == RequestsInit /\ ListingsInit /\ [][ListingsNext]_<<requestVars, listings>>

-----------------------------------------------------------------------------
(* Properties.                                                             *)

ListingsTypeOK ==
    /\ listing \in Handlers /\ client \in Clients
    /\ \A i \in DOMAIN rows : rows[i].id \in 1 .. Len(rows) /\ rows[i].is \in Kinds
    /\ pages \in 0 .. MaxPages /\ cursor \in Nat
    /\ again \subseteq seen
    /\ seen \cup start \subseteq {rows[i].id : i \in DOMAIN rows}
    /\ ended \in BOOLEAN

\* The rows that are in the listing from the first page to the last.
Steady == {row.id : row \in {rows[i] : i \in {j \in DOMAIN rows :
              IsShown(rows[j]) /\ rows[j].is \notin listing.drops}}}
          \cap (start \ moves.changed)

\* A walk to the end misses a row that was there all the time only for a row
\* that left from the pages before it, or was left out by a failed call: at
\* most one for each.  A listing that does not look at the page shows all.  A
\* page whose rows are all dropped looks like the end.
NothingMissedUnlessLeft ==
    /\ ended /\ listing.query.skip # "first" /\ ~ moves.blank =>
          Cardinality(Steady \ seen) <= moves.left + moves.lost
    /\ pages > 0 /\ listing.query.skip = "all" => Steady \subseteq seen

\* A walk is answered a row that did not change twice only for a row that was
\* put in front of the pages to come: at most one for each.
NothingTwiceUnlessInFront ==
    Fits => Cardinality(again \ moves.changed) <= moves.front
=============================================================================
