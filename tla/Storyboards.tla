---------------------------- MODULE Storyboards ----------------------------
(***************************************************************************)
(* The boards of stories: pkg/story/storyboard.go over the rows of          *)
(* models/storyboard.go.  A board names the board it continues in prev_id,  *)
(* so the boards of a story form a tree; boards are created, forked,        *)
(* published and deleted, and carry counts of their likes and branches.     *)
(*                                                                          *)
(* Every request reads rows and writes them in later calls, with no         *)
(* transaction; liking and commenting write back every non-zero column of   *)
(* the row that was read.                                                   *)
(***************************************************************************)
EXTENDS Integers

CONSTANTS
    MaxBoards,   \* bound on the rows that are inserted
    Stories,     \* the story ids
    Users,       \* the users that like boards
    Tasks,       \* the request goroutines that may be in flight at once
    NoStory,     \* the story of a row that names none
    MaxCounted,  \* bound on the requests to like, publish or take back a board
    MaxFaults,   \* bound on failed calls, panics and crashes
    MaxWork      \* bound on these three together

ASSUME StoryboardsAssumption ==
    /\ MaxBoards \in Nat
    /\ NoStory \notin Stories
    /\ MaxCounted \in Nat /\ MaxFaults \in Nat /\ MaxWork \in Nat

\* Ids are given in the order of insertion; 0 is no board.
Boards == 1..MaxBoards
BoardOrNone == 0..MaxBoards

VARIABLES
    last,       \* the id of the row inserted last
    board,      \* the story_board rows
    root,       \* root_board_id of each story
    likes,      \* the like items of boards that are not deleted
    task,       \* the locals of each request goroutine
    line,       \* the boards that each board was created after, up to a root
    liked,      \* like requests on each board, and on the one it was forked from
    published,  \* publications of boards that continue it, likewise
    counted,    \* requests to like, publish or take back a board so far
    faults      \* failed calls, panics and crashes so far

vars == <<last, board, root, likes, task, line, liked, published, counted, faults>>

history == <<line, liked, published>>

-----------------------------------------------------------------------------
StoryBoard == [story  : Stories \cup {NoStory},
               prev   : BoardOrNone,
               status : {-1, 0, 1},
               like   : Int,
               fork   : Int]

Empty == [story |-> NoStory, prev |-> 0, status |-> 0, like |-> 0, fork |-> 0]

\* pc names the call that a request makes next.
Task == [pc       : {"idle", "CreateStoryBoard", "UpdateStorySpecColumns",
                     "GetStoryboardsByPrevId", "UpdateStoryboardMultiColumn",
                     "CreateLikeStoryBoardItem", "DeleteLikeItem",
                     "UpdateStoryboard", "IncrementStoryBoardForkNum",
                     "DecrementStoryBoardForkNum"},
         board    : BoardOrNone,
         row      : StoryBoard,
         users    : SUBSET Users,
         children : SUBSET Boards,
         rootless : BOOLEAN]

Idle == [pc |-> "idle", board |-> 0, row |-> Empty, users |-> {},
         children |-> {}, rootless |-> FALSE]

Init ==
    /\ last = 0
    /\ board = [b \in Boards |-> Empty]
    /\ root = [s \in Stories |-> 0]
    /\ likes = {}
    /\ task = [t \in Tasks |-> Idle]
    /\ line = [b \in Boards |-> {}]
    /\ liked = [b \in Boards |-> 0]
    /\ published = [b \in Boards |-> 0]
    /\ counted = 0
    /\ faults = 0

-----------------------------------------------------------------------------
Inserted == 1..last

\* GetStoryboard finds the row.
Found(b) == board[b].status >= 0

Live == {b \in Inserted : Found(b)}

Starts(t, locals) ==
    /\ task[t].pc = "idle"
    /\ task' = [task EXCEPT ![t] = locals]

Ends(t) == task' = [task EXCEPT ![t] = Idle]

WorkLeft == last + counted + faults < MaxWork

\* Requests whose row the bounds would never let in are not started.
RoomForBoard == last < MaxBoards /\ WorkLeft

Counts ==
    /\ counted < MaxCounted
    /\ WorkLeft
    /\ counted' = counted + 1

-----------------------------------------------------------------------------
(* A board is added.                                                       *)

\* The client names the board to continue, or none; nothing looks at that board,
\* which may be of another story or deleted.
CreateStoryboard(t, s, prev) ==
    /\ RoomForBoard
    /\ Starts(t, [Idle EXCEPT
                    !.pc = "CreateStoryBoard",
                    !.row = [Empty EXCEPT !.story = s, !.prev = prev,
                                          !.status = 1],
                    !.rootless = root[s] = 0])
    /\ UNCHANGED <<last, board, root, likes, history, counted, faults>>

\* A copy of the row, prev_id and counts included.  A board that was deleted
\* is read as nil, of which the copy is an empty row.
ForkedRow(b) == IF Found(b) THEN board[b] ELSE Empty

ForkStoryboard(t, b) ==
    /\ RoomForBoard
    /\ Starts(t, [Idle EXCEPT !.pc = "CreateStoryBoard", !.board = b,
                              !.row = ForkedRow(b)])
    /\ UNCHANGED <<last, board, root, likes, history, counted, faults>>

\* The boards that a new row descends from.
LineOf(locals) ==
    IF locals.board # 0 THEN line[locals.board]
    ELSE IF locals.row.prev # 0
         THEN line[locals.row.prev] \cup {locals.row.prev}
         ELSE {}

CreateStoryBoard(t) ==
    LET id == last + 1
        origin == task[t].board
    IN  /\ task[t].pc = "CreateStoryBoard"
        /\ RoomForBoard
        /\ last' = id
        /\ board' = [board EXCEPT ![id] = task[t].row]
        /\ line' = [line EXCEPT ![id] = LineOf(task[t])]
        /\ liked' = [liked EXCEPT ![id] =
                        IF origin = 0 THEN 0 ELSE liked[origin]]
        /\ published' = [published EXCEPT ![id] =
                            IF origin = 0 THEN 0 ELSE published[origin]]
        /\ task' = [task EXCEPT ![t] =
                       IF task[t].rootless
                       THEN [Idle EXCEPT
                               !.pc = "UpdateStorySpecColumns", !.board = id,
                               !.row.story = task[t].row.story]
                       ELSE Idle]
        /\ UNCHANGED <<root, likes, counted, faults>>

\* Mutant of RootBoardID: the board that was inserted last.
LastBoard(t) == last

RootBoardID(t) == task[t].board

UpdateStorySpecColumns(t) ==
    /\ task[t].pc = "UpdateStorySpecColumns"
    /\ root' = [root EXCEPT ![task[t].row.story] = RootBoardID(t)]
    /\ Ends(t)
    /\ UNCHANGED <<last, board, likes, history, counted, faults>>

-----------------------------------------------------------------------------
(* A board is deleted: its children are handed to the board before it.     *)

DelStoryboard(t, b) ==
    /\ Found(b)
    /\ Starts(t, [Idle EXCEPT !.pc = "GetStoryboardsByPrevId", !.board = b,
                              !.row.prev = board[b].prev])
    /\ UNCHANGED <<last, board, root, likes, history, counted, faults>>

\* Mutant of ChildrenOf: the condition on prev_id is dropped.
EveryBoard(b) == Live

ChildrenOf(b) == {c \in Live : board[c].prev = b}

GetStoryboardsByPrevId(t) ==
    /\ task[t].pc = "GetStoryboardsByPrevId"
    /\ task' = [task EXCEPT
                  ![t].pc = "UpdateStoryboardMultiColumn",
                  ![t].children = ChildrenOf(task[t].board)]
    /\ UNCHANGED <<last, board, root, likes, history, counted, faults>>

NewPrev(locals, child) == locals.row.prev

ReparentChild(t, c) ==
    /\ task[t].pc = "UpdateStoryboardMultiColumn"
    /\ c \in task[t].children
    /\ board' = [board EXCEPT ![c].prev = NewPrev(task[t], c)]
    /\ task' = [task EXCEPT ![t].children = @ \ {c}]
    /\ UNCHANGED <<last, root, likes, history, counted, faults>>

\* Mutant of DeletedStatus: the status is counted down.
OneLess(b) == board[b].status - 1

DeletedStatus(b) == -1

MarkDeleted(t) ==
    /\ task[t].pc = "UpdateStoryboardMultiColumn"
    /\ task[t].children = {}
    /\ board' = [board EXCEPT ![task[t].board].status =
                     DeletedStatus(task[t].board)]
    /\ Ends(t)
    /\ UNCHANGED <<last, root, likes, history, counted, faults>>

-----------------------------------------------------------------------------
(* Likes and comments.                                                     *)

\* The story of the row is looked up, too.
LikeStoryboard(t, u, b) ==
    /\ Found(b)
    /\ board[b].story # NoStory
    /\ Counts
    /\ Starts(t, [Idle EXCEPT !.pc = "CreateLikeStoryBoardItem", !.board = b,
                              !.row = board[b], !.users = {u}])
    /\ liked' = [liked EXCEPT ![b] = @ + 1]
    /\ UNCHANGED <<last, board, root, likes, line, published, faults>>

\* A user who likes the board already is counted again all the same.
CreateLikeStoryBoardItem(t) ==
    /\ task[t].pc = "CreateLikeStoryBoardItem"
    /\ likes' = likes \cup (task[t].users \X {task[t].board})
    /\ task' = [task EXCEPT ![t].pc = "UpdateStoryboard",
                            ![t].row.like = @ + 1]
    /\ UNCHANGED <<last, board, root, history, counted, faults>>

UnLikeStoryboard(t, u, b) ==
    /\ <<u, b>> \in likes
    /\ Starts(t, [Idle EXCEPT !.pc = "DeleteLikeItem", !.board = b])
    /\ UNCHANGED <<last, board, root, likes, history, counted, faults>>

\* The condition on the id comes after the UPDATE was run, which marks every
\* like item as deleted; then the board is read.
DeleteLikeItem(t) ==
    LET b == task[t].board
    IN  /\ task[t].pc = "DeleteLikeItem"
        /\ likes' = {}
        /\ task' = [task EXCEPT ![t] =
                       IF Found(b)
                       THEN [Idle EXCEPT
                               !.pc = "UpdateStoryboard", !.board = b,
                               !.row = [board[b] EXCEPT !.like = @ - 1]]
                       ELSE Idle]
        /\ UNCHANGED <<last, board, root, history, counted, faults>>

\* The comment's row is inserted and the board read, to count the comment.
CreateStoryBoardComment(t, b) ==
    /\ Found(b)
    /\ Starts(t, [Idle EXCEPT !.pc = "UpdateStoryboard", !.board = b,
                              !.row = board[b]])
    /\ UNCHANGED <<last, board, root, likes, history, counted, faults>>

\* gorm's Updates leaves out the zero fields of a struct.
Column(old, new) == IF new = 0 THEN old ELSE new

\* Mutant of Updates: the counts are added to those of the row.
AddsCounts(old, new) ==
    [new EXCEPT !.like = old.like + new.like, !.fork = old.fork + new.fork]

Updates(old, new) ==
    [story  |-> IF new.story = NoStory THEN old.story ELSE new.story,
     prev   |-> Column(old.prev, new.prev),
     status |-> Column(old.status, new.status),
     like   |-> Column(old.like, new.like),
     fork   |-> Column(old.fork, new.fork)]

UpdateStoryboard(t) ==
    /\ task[t].pc = "UpdateStoryboard"
    /\ board' = [board EXCEPT ![task[t].board] = Updates(@, task[t].row)]
    /\ Ends(t)
    /\ UNCHANGED <<last, root, likes, history, counted, faults>>

-----------------------------------------------------------------------------
(* A board is published, or taken back: the board it continues counts it.  *)

CountsBranch(t, b, pc) ==
    /\ Found(b)
    /\ board[b].prev > 0
    /\ Counts
    /\ Starts(t, [Idle EXCEPT !.pc = pc, !.board = board[b].prev])

PublishStoryboard(t, b) ==
    /\ CountsBranch(t, b, "IncrementStoryBoardForkNum")
    /\ UNCHANGED <<last, board, root, likes, history, faults>>

CancelStoryboard(t, b) ==
    /\ CountsBranch(t, b, "DecrementStoryBoardForkNum")
    /\ UNCHANGED <<last, board, root, likes, history, faults>>

IncrementStoryBoardForkNum(t) ==
    /\ task[t].pc = "IncrementStoryBoardForkNum"
    /\ board' = [board EXCEPT ![task[t].board].fork = @ + 1]
    /\ published' = [published EXCEPT ![task[t].board] = @ + 1]
    /\ Ends(t)
    /\ UNCHANGED <<last, root, likes, line, liked, counted, faults>>

DecrementStoryBoardForkNum(t) ==
    /\ task[t].pc = "DecrementStoryBoardForkNum"
    /\ board' = [board EXCEPT ![task[t].board].fork = @ - 1]
    /\ Ends(t)
    /\ UNCHANGED <<last, root, likes, history, counted, faults>>

-----------------------------------------------------------------------------
\* A failed call, a panic or a crash ends a request.
Fault(t) ==
    /\ task[t].pc # "idle"
    /\ faults < MaxFaults /\ WorkLeft
    /\ faults' = faults + 1
    /\ Ends(t)
    /\ UNCHANGED <<last, board, root, likes, history, counted>>

Next ==
    \E t \in Tasks :
        \/ \E s \in Stories, prev \in Inserted \cup {0} :
              CreateStoryboard(t, s, prev)
        \/ CreateStoryBoard(t)
        \/ UpdateStorySpecColumns(t)
        \/ GetStoryboardsByPrevId(t)
        \/ MarkDeleted(t)
        \/ CreateLikeStoryBoardItem(t)
        \/ DeleteLikeItem(t)
        \/ UpdateStoryboard(t)
        \/ IncrementStoryBoardForkNum(t)
        \/ DecrementStoryBoardForkNum(t)
        \/ Fault(t)
        \/ \E b \in Inserted :
              \/ ForkStoryboard(t, b)
              \/ DelStoryboard(t, b)
              \/ ReparentChild(t, b)
              \/ CreateStoryBoardComment(t, b)
              \/ PublishStoryboard(t, b)
              \/ CancelStoryboard(t, b)
              \/ \E u \in Users : LikeStoryboard(t, u, b)
                                  \/ UnLikeStoryboard(t, u, b)

Spec == Init /\ [][Next]_vars

-----------------------------------------------------------------------------
(* Properties.                                                             *)

\* Rows, counters and request locals have their types.
TypeOK ==
    /\ last \in BoardOrNone
    /\ board \in [Boards -> StoryBoard]
    /\ root \in [Stories -> BoardOrNone]
    /\ likes \subseteq Users \X Boards
    /\ task \in [Tasks -> Task]
    /\ line \in [Boards -> SUBSET Boards]
    /\ liked \in [Boards -> Nat]
    /\ published \in [Boards -> Nat]
    /\ counted \in 0..MaxCounted
    /\ faults \in 0..MaxFaults

\* However deletions, forks and the saving of stale rows interleave, a board
\* never continues anything but a board it was created after, or a fork of
\* one: no branch is moved to another branch.
ContinuesAncestor ==
    \A b \in Inserted : board[b].prev \in line[b] \cup {0}

\* prev_id leads to an earlier board, so that the walk to the root that
\* ContinueRenderStory takes ends.
WalkEnds == \A b \in Inserted : board[b].prev < b

\* Likes and branches may be lost from the counts, but none is made up: a
\* count never exceeds the requests that were made on the board and on the
\* board whose counts it took over as a fork.
CountsWereEarned ==
    \A b \in Inserted : /\ board[b].like <= liked[b]
                        /\ board[b].fork <= published[b]

\* The root of a story is a board of that story, whatever board it continues
\* and however many first boards are created at once; and a story that has
\* boards has a root, unless its creator is about to write it or a call failed.
RootIsOfStory ==
    \A s \in Stories :
        root[s] # 0 => root[s] \in Inserted /\ board[root[s]].story = s

Rooted(s) ==
    \/ root[s] # 0
    \/ faults > 0
    \/ \E t \in Tasks : /\ task[t].pc = "UpdateStorySpecColumns"
                       /\ task[t].row.story = s

StoryHasItsRoot ==
    /\ RootIsOfStory
    /\ \A b \in Inserted : board[b].story # NoStory => Rooted(board[b].story)

-----------------------------------------------------------------------------
(* What the comments say, and the code does not do.                        *)

\* A board that is marked as deleted stays deleted.
DeletedStaysDeleted ==
    [][\A b \in Boards : board[b].status = -1 => board'[b].status = -1]_vars
=============================================================================
