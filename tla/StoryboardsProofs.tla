-------------------------- MODULE StoryboardsProofs --------------------------
(***************************************************************************)
(* Theorems about Storyboards.  Every image of a row that a request holds   *)
(* fits the board it will be written to: it has the board's story, names a  *)
(* board of its line, and its counts were earned.  What a board's line,     *)
(* story and requests are never changes to the worse, so an image still     *)
(* fits when it is written, however stale it is.                            *)
(***************************************************************************)
EXTENDS Storyboards, TLAPS

-----------------------------------------------------------------------------
(* The inductive invariant.                                                *)

\* A line leads down to a root.
Descent ==
    \A b \in Inserted :
        /\ line[b] \subseteq 1..(b - 1)
        /\ \A a \in line[b] : line[a] \subseteq line[b]

\* r may be written as the row of b.
Fits(b, r) ==
    /\ r.prev \in line[b] \cup {0}
    /\ r.story = board[b].story
    /\ r.like <= liked[b]
    /\ r.fork <= published[b]

Rows == \A b \in Inserted : Fits(b, board[b])

\* A row that CreateStoryboard is about to insert.
Fresh(r) ==
    /\ r.story # NoStory
    /\ r.prev # 0 => r.prev \in Inserted
    /\ r.like = 0 /\ r.fork = 0

Creating(l) ==
    l.pc = "CreateStoryBoard" =>
        \/ l.board = 0 /\ Fresh(l.row)
        \/ /\ l.board \in Inserted
           /\ l.row = Empty \/ Fits(l.board, l.row)
           /\ ~ l.rootless

Rooting(l) ==
    l.pc = "UpdateStorySpecColumns" =>
        /\ l.row.story # NoStory
        /\ l.board \in Inserted
        /\ board[l.board].story = l.row.story

Deleting(l) ==
    l.pc \in {"GetStoryboardsByPrevId", "UpdateStoryboardMultiColumn"} =>
        /\ l.board \in Inserted
        /\ l.row.prev \in line[l.board] \cup {0}
        /\ l.children \subseteq Inserted
        /\ \A c \in l.children : l.board \in line[c]

Liking(l) ==
    l.pc = "CreateLikeStoryBoardItem" =>
        /\ l.board \in Inserted
        /\ Fits(l.board, l.row)
        /\ l.row.like + 1 <= liked[l.board]

Saving(l) ==
    l.pc = "UpdateStoryboard" => l.board \in Inserted /\ Fits(l.board, l.row)

Counting(l) ==
    l.pc \in {"DeleteLikeItem", "IncrementStoryBoardForkNum",
              "DecrementStoryBoardForkNum"} => l.board \in Inserted

Locals(l) ==
    /\ Creating(l) /\ Rooting(l) /\ Deleting(l)
    /\ Liking(l) /\ Saving(l) /\ Counting(l)

IInv ==
    /\ TypeOK
    /\ Descent
    /\ Rows
    /\ RootIsOfStory
    /\ \A t \in Tasks : Locals(task[t])

\* What no step takes back.
Keeps ==
    /\ last <= last'
    /\ \A b \in Inserted : /\ line'[b] = line[b]
                           /\ board'[b].story = board[b].story
                           /\ liked[b] <= liked'[b]
                           /\ published[b] <= published'[b]

-----------------------------------------------------------------------------
(* Types.                                                                  *)

LEMMA RowTypes ==
    ASSUME NEW r \in StoryBoard
    PROVE  /\ r.story \in Stories \cup {NoStory}
           /\ r.prev \in BoardOrNone
           /\ r.status \in {-1, 0, 1}
           /\ r.like \in Int
           /\ r.fork \in Int
BY DEF StoryBoard

LEMMA EmptyType == Empty \in StoryBoard
BY StoryboardsAssumption DEF Empty, StoryBoard, BoardOrNone

LEMMA IdleType == Idle \in Task
BY EmptyType, StoryboardsAssumption DEF Idle, Task, BoardOrNone

LEMMA LocalTypes ==
    ASSUME NEW l \in Task
    PROVE  /\ l.board \in BoardOrNone
           /\ l.row \in StoryBoard
           /\ l.users \in SUBSET Users
           /\ l.children \in SUBSET Boards
           /\ l.rootless \in BOOLEAN
BY DEF Task

LEMMA UpdatesType ==
    ASSUME NEW old \in StoryBoard, NEW new \in StoryBoard
    PROVE  Updates(old, new) \in StoryBoard
BY DEF StoryBoard, Updates, Column

-----------------------------------------------------------------------------
(* What fits keeps fitting.                                                *)

LEMMA InsertedIsBoards ==
    ASSUME TypeOK
    PROVE  Inserted \subseteq Boards
BY StoryboardsAssumption DEF TypeOK, Inserted, Boards, BoardOrNone

LEMMA InsertedKept ==
    ASSUME TypeOK, TypeOK', Keeps
    PROVE  Inserted \subseteq Inserted'
BY StoryboardsAssumption DEF TypeOK, Keeps, Inserted, BoardOrNone

LEMMA FitsKept ==
    ASSUME TypeOK, TypeOK', Keeps, NEW b \in Inserted,
           NEW r \in StoryBoard, Fits(b, r)
    PROVE  Fits(b, r)'
<1>1. /\ r.like \in Int /\ r.fork \in Int
      /\ liked[b] \in Nat /\ liked'[b] \in Nat
      /\ published[b] \in Nat /\ published'[b] \in Nat
  BY InsertedIsBoards, RowTypes DEF TypeOK
<1> QED
  BY <1>1 DEF Keeps, Fits

LEMMA LocalsKept ==
    ASSUME TypeOK, TypeOK', Keeps, NEW l \in Task, Locals(l)
    PROVE  Locals(l)'
<1>1. l.row \in StoryBoard /\ l.board \in BoardOrNone
  BY LocalTypes
<1>2. Inserted \subseteq Inserted'
  BY InsertedKept
<1>3. Creating(l)'
  BY <1>1, <1>2, FitsKept DEF Locals, Creating, Fresh, Keeps
<1>4. Rooting(l)'
  BY <1>1, <1>2 DEF Locals, Rooting, Keeps
<1>5. Deleting(l)'
  BY <1>1, <1>2 DEF Locals, Deleting, Keeps
<1>6. Liking(l)'
  <2>1. SUFFICES ASSUME l.pc = "CreateLikeStoryBoardItem"
                 PROVE  /\ l.board \in Inserted'
                        /\ Fits(l.board, l.row)'
                        /\ l.row.like + 1 <= liked'[l.board]
    BY DEF Liking
  <2>2. /\ l.board \in Inserted
        /\ Fits(l.board, l.row)
        /\ l.row.like + 1 <= liked[l.board]
    BY <2>1 DEF Locals, Liking
  <2>3. /\ l.row.like \in Int
        /\ liked[l.board] \in Nat /\ liked'[l.board] \in Nat
        /\ liked[l.board] <= liked'[l.board]
    BY <1>1, <2>2, RowTypes, InsertedIsBoards DEF TypeOK, Keeps
  <2> QED
    BY <1>1, <1>2, <2>2, <2>3, FitsKept
<1>7. Saving(l)'
  BY <1>1, <1>2, FitsKept DEF Locals, Saving
<1>8. Counting(l)'
  BY <1>2 DEF Locals, Counting
<1> QED
  BY <1>3, <1>4, <1>5, <1>6, <1>7, <1>8 DEF Locals

LEMMA DescentKept ==
    ASSUME TypeOK, TypeOK', Keeps, Descent, last' = last
    PROVE  Descent'
<1>1. Inserted' = Inserted
  BY DEF Inserted
<1>2. SUFFICES ASSUME NEW b \in Inserted
               PROVE  /\ line'[b] \subseteq 1..(b - 1)
                      /\ \A a \in line'[b] : line'[a] \subseteq line'[b]
  BY <1>1 DEF Descent
<1>3. line'[b] = line[b] /\ board'[b].story = board[b].story
  BY DEF Keeps
<1>4. ASSUME NEW a \in line[b]
      PROVE  a \in Inserted
  BY <1>4, StoryboardsAssumption DEF Descent, Inserted, TypeOK, BoardOrNone
<1> QED
  BY <1>3, <1>4 DEF Descent, Keeps

LEMMA RootsKept ==
    ASSUME TypeOK, TypeOK', Keeps, RootIsOfStory, root' = root
    PROVE  RootIsOfStory'
BY InsertedKept DEF RootIsOfStory, Keeps

LEMMA RowsKept ==
    ASSUME TypeOK, TypeOK', Keeps, Rows, board' = board, last' = last
    PROVE  Rows'
<1>1. ASSUME NEW b \in Inserted
      PROVE  Fits(b, board[b])'
  <2>1. board[b] \in StoryBoard
    BY InsertedIsBoards DEF TypeOK
  <2>2. PICK r \in StoryBoard : r = board[b]
    BY <2>1
  <2>3. Fits(b, r)
    BY <2>2 DEF Rows
  <2>4. Fits(b, r)'
    BY <2>3, FitsKept
  <2> QED
    BY <2>2, <2>4 DEF Fits
<1> QED
  BY <1>1 DEF Rows, Inserted

\* The rest of the invariant, when one row is written and nothing is inserted.
LEMMA RowWritten ==
    ASSUME IInv, TypeOK', Keeps, last' = last,
           NEW b \in Inserted, NEW r \in StoryBoard,
           board' = [board EXCEPT ![b] = r], Fits(b, r)'
    PROVE  Descent' /\ Rows'
<1>1. Descent'
  BY DescentKept DEF IInv
<1>2. ASSUME NEW c \in Inserted, c # b
      PROVE  Fits(c, board[c])'
  <2>1. PICK q \in StoryBoard : q = board[c]
    BY InsertedIsBoards DEF IInv, TypeOK
  <2>2. Fits(c, q)
    BY <2>1 DEF IInv, Rows
  <2>3. Fits(c, q)'
    BY <2>2, FitsKept DEF IInv
  <2>4. board'[c] = q
    BY <1>2, <2>1, InsertedIsBoards DEF IInv, TypeOK
  <2> QED
    BY <2>3, <2>4 DEF Fits
<1>3. Fits(b, board[b])'
  <2>1. board'[b] = r
    BY InsertedIsBoards DEF IInv, TypeOK
  <2> QED
    BY <2>1 DEF Fits
<1> QED
  BY <1>1, <1>2, <1>3 DEF Rows, Inserted

-----------------------------------------------------------------------------
(* Locals.                                                                 *)

LEMMA OneTaskMoves ==
    ASSUME IInv, TypeOK', Keeps, NEW t \in Tasks, NEW l \in Task,
           task' = [task EXCEPT ![t] = l], Locals(l)'
    PROVE  \A o \in Tasks : Locals(task[o])'
<1>1. SUFFICES ASSUME NEW o \in Tasks
               PROVE  Locals(task[o])'
  OBVIOUS
<1>2. CASE o = t
  <2>1. task'[o] = l
    BY <1>2 DEF IInv, TypeOK
  <2> QED
    BY <2>1 DEF Locals, Creating, Fresh, Fits, Rooting, Deleting, Liking,
                Saving, Counting
<1>3. CASE o # t
  <2>1. PICK k \in Task : k = task[o]
    BY DEF IInv, TypeOK
  <2>2. task'[o] = k
    BY <1>3, <2>1 DEF IInv, TypeOK
  <2>3. Locals(k)
    BY <2>1 DEF IInv
  <2>4. Locals(k)'
    BY <2>3, LocalsKept DEF IInv
  <2> QED
    BY <2>2, <2>4 DEF Locals, Creating, Fresh, Fits, Rooting, Deleting,
                      Liking, Saving, Counting
<1> QED
  BY <1>2, <1>3

LEMMA IdleLocals == Locals(Idle) /\ Locals(Idle)'
BY DEF Idle, Locals, Creating, Rooting, Deleting, Liking, Saving, Counting

\* A step that reads rows and sets the locals of one request.
LEMMA ReadStep ==
    ASSUME IInv, NEW t \in Tasks, NEW l \in Task, Locals(l),
           task' = [task EXCEPT ![t] = l],
           UNCHANGED <<last, board, root, line, published>>,
           likes' \subseteq Users \X Boards,
           liked' \in [Boards -> Nat],
           \A b \in Boards : liked[b] <= liked'[b],
           counted' \in 0..MaxCounted, faults' \in 0..MaxFaults
    PROVE  IInv'
<1>1. TypeOK'
  BY DEF IInv, TypeOK
<1>2. Keeps
  BY <1>1, InsertedIsBoards DEF IInv, TypeOK, Keeps, BoardOrNone
<1>3. Descent' /\ Rows' /\ RootIsOfStory'
  BY <1>1, <1>2, DescentKept, RowsKept, RootsKept DEF IInv
<1>4. Locals(l)'
  BY <1>1, <1>2, LocalsKept DEF IInv
<1>5. \A o \in Tasks : Locals(task[o])'
  BY <1>1, <1>2, <1>4, OneTaskMoves
<1> QED
  BY <1>1, <1>3, <1>5 DEF IInv

\* A step that writes one row, and ends the request or leaves it what fits.
LEMMA WriteStep ==
    ASSUME IInv, NEW t \in Tasks, NEW l \in Task, Locals(l)',
           task' = [task EXCEPT ![t] = l],
           NEW b \in Inserted, NEW r \in StoryBoard,
           board' = [board EXCEPT ![b] = r], r.story = board[b].story,
           UNCHANGED <<last, root, likes, line, liked, counted, faults>>,
           published' \in [Boards -> Nat],
           \A c \in Boards : published[c] <= published'[c],
           Fits(b, r)'
    PROVE  IInv'
<1>1. TypeOK'
  BY DEF IInv, TypeOK
<1>2. Keeps
  BY <1>1, InsertedIsBoards DEF IInv, TypeOK, Keeps, BoardOrNone
<1>3. Descent' /\ Rows'
  BY <1>1, <1>2, RowWritten
<1>4. RootIsOfStory'
  BY <1>1, <1>2, RootsKept DEF IInv
<1>5. \A o \in Tasks : Locals(task[o])'
  BY <1>1, <1>2, OneTaskMoves
<1> QED
  BY <1>1, <1>3, <1>4, <1>5 DEF IInv

-----------------------------------------------------------------------------
(* The steps that read.                                                    *)

LEMMA RowOf ==
    ASSUME IInv, NEW b \in Inserted
    PROVE  /\ b \in Boards /\ b \in BoardOrNone
           /\ board[b] \in StoryBoard
           /\ Fits(b, board[b])
<1>1. b \in Boards
  BY InsertedIsBoards DEF IInv
<1>2. b \in BoardOrNone
  BY <1>1, StoryboardsAssumption DEF Boards, BoardOrNone
<1> QED
  BY <1>1, <1>2 DEF IInv, TypeOK, Rows

LEMMA LocalsOf ==
    ASSUME IInv, NEW t \in Tasks
    PROVE  task[t] \in Task /\ Locals(task[t])
BY DEF IInv, TypeOK

LEMMA NothingCounted ==
    ASSUME IInv, UNCHANGED <<likes, history, counted, faults>>
    PROVE  /\ likes' \subseteq Users \X Boards
           /\ liked' \in [Boards -> Nat]
           /\ \A b \in Boards : liked[b] <= liked'[b]
           /\ counted' \in 0..MaxCounted /\ faults' \in 0..MaxFaults
BY DEF IInv, TypeOK, history

LEMMA CreateStoryboardStep ==
    ASSUME IInv, NEW t \in Tasks, NEW s \in Stories,
           NEW prev \in Inserted \cup {0}, CreateStoryboard(t, s, prev)
    PROVE  IInv'
<1>1. PICK r : r = [Empty EXCEPT !.story = s, !.prev = prev, !.status = 1]
  OBVIOUS
<1>2. /\ r.story = s /\ r.prev = prev /\ r.like = 0 /\ r.fork = 0
      /\ r \in StoryBoard
  <2>1. prev \in BoardOrNone
    BY RowOf, StoryboardsAssumption DEF BoardOrNone
  <2>2. r = [story |-> s, prev |-> prev, status |-> 1, like |-> 0, fork |-> 0]
    BY <1>1 DEF Empty
  <2>3. r \in StoryBoard
    BY <2>1, <2>2 DEF StoryBoard
  <2> QED
    BY <2>2, <2>3
<1>3. PICK l : l = [Idle EXCEPT !.pc = "CreateStoryBoard", !.row = r,
                                !.rootless = root[s] = 0]
  OBVIOUS
<1>4. l \in Task /\ l.pc = "CreateStoryBoard" /\ l.board = 0 /\ l.row = r
  BY <1>2, <1>3, IdleType DEF Idle, Task
<1>5. task' = [task EXCEPT ![t] = l]
  BY <1>1, <1>3 DEF CreateStoryboard, Starts
<1>6. Fresh(r)
  BY <1>2, StoryboardsAssumption DEF CreateStoryboard, Fresh
<1>7. Locals(l)
  BY <1>4, <1>6 DEF Locals, Creating, Rooting, Deleting, Liking, Saving,
                    Counting
<1> QED
  BY <1>4, <1>5, <1>7, NothingCounted, ReadStep
  DEF CreateStoryboard, history

LEMMA ForkStoryboardStep ==
    ASSUME IInv, NEW t \in Tasks, NEW b \in Inserted, ForkStoryboard(t, b)
    PROVE  IInv'
<1>1. PICK r : r = ForkedRow(b)
  OBVIOUS
<1>2. r \in StoryBoard /\ (r = Empty \/ Fits(b, r))
  BY <1>1, RowOf, EmptyType DEF ForkedRow
<1>3. PICK l : l = [Idle EXCEPT !.pc = "CreateStoryBoard", !.board = b,
                                !.row = r]
  OBVIOUS
<1>4. /\ l \in Task /\ l.pc = "CreateStoryBoard" /\ l.board = b
      /\ l.row = r /\ ~ l.rootless
  BY <1>2, <1>3, IdleType, RowOf DEF Idle, Task
<1>5. task' = [task EXCEPT ![t] = l]
  BY <1>1, <1>3 DEF ForkStoryboard, Starts
<1>6. Locals(l)
  BY <1>2, <1>4 DEF Locals, Creating, Rooting, Deleting, Liking, Saving,
                    Counting
<1> QED
  BY <1>4, <1>5, <1>6, NothingCounted, ReadStep DEF ForkStoryboard, history

LEMMA DelStoryboardStep ==
    ASSUME IInv, NEW t \in Tasks, NEW b \in Inserted, DelStoryboard(t, b)
    PROVE  IInv'
<1>1. PICK p : p = board[b].prev
  OBVIOUS
<1>2. p \in BoardOrNone /\ p \in line[b] \cup {0}
  BY <1>1, RowOf, RowTypes DEF Fits
<1>3. PICK l : l = [Idle EXCEPT !.pc = "GetStoryboardsByPrevId", !.board = b,
                                !.row.prev = p]
  OBVIOUS
<1>4. /\ l \in Task /\ l.pc = "GetStoryboardsByPrevId" /\ l.board = b
      /\ l.row.prev = p /\ l.children = {}
  BY <1>2, <1>3, IdleType, EmptyType, RowOf
  DEF Idle, Task, Empty, StoryBoard
<1>5. task' = [task EXCEPT ![t] = l]
  BY <1>1, <1>3 DEF DelStoryboard, Starts
<1>6. Locals(l)
  BY <1>2, <1>4 DEF Locals, Creating, Rooting, Deleting, Liking, Saving,
                    Counting
<1> QED
  BY <1>4, <1>5, <1>6, NothingCounted, ReadStep DEF DelStoryboard, history

LEMMA GetStoryboardsByPrevIdStep ==
    ASSUME IInv, NEW t \in Tasks, GetStoryboardsByPrevId(t)
    PROVE  IInv'
<1>1. PICK k \in Task : k = task[t]
  BY LocalsOf
<1>2. Locals(k) /\ k.pc = "GetStoryboardsByPrevId"
  BY <1>1, LocalsOf DEF GetStoryboardsByPrevId
<1>3. PICK C : C = ChildrenOf(k.board)
  OBVIOUS
<1>4. k.board \in Inserted /\ k.board # 0
  BY <1>2 DEF Locals, Deleting, Inserted
<1>5. /\ C \subseteq Inserted /\ C \subseteq Boards
      /\ \A c \in C : k.board \in line[c]
  BY <1>3, <1>4, RowOf DEF ChildrenOf, Live, Fits
<1>6. PICK l : l = [k EXCEPT !.pc = "UpdateStoryboardMultiColumn",
                             !.children = C]
  OBVIOUS
<1>7. /\ l \in Task /\ l.pc = "UpdateStoryboardMultiColumn"
      /\ l.board = k.board /\ l.row = k.row /\ l.children = C
  BY <1>5, <1>6 DEF Task
<1>8. task' = [task EXCEPT ![t] = l]
  BY <1>1, <1>3, <1>6 DEF GetStoryboardsByPrevId, IInv, TypeOK, Task
<1>9. Locals(l)
  BY <1>2, <1>5, <1>7 DEF Locals, Creating, Rooting, Deleting, Liking, Saving,
                          Counting
<1> QED
  BY <1>7, <1>8, <1>9, NothingCounted, ReadStep
  DEF GetStoryboardsByPrevId, history

LEMMA LikeStoryboardStep ==
    ASSUME IInv, NEW t \in Tasks, NEW u \in Users, NEW b \in Inserted,
           LikeStoryboard(t, u, b)
    PROVE  IInv'
<1>1. PICK r : r = board[b]
  OBVIOUS
<1>2. /\ r \in StoryBoard /\ Fits(b, r)
      /\ b \in Boards /\ b \in BoardOrNone
  BY <1>1, RowOf
<1>3. PICK l : l = [Idle EXCEPT !.pc = "CreateLikeStoryBoardItem",
                                !.board = b, !.row = r, !.users = {u}]
  OBVIOUS
<1>4. /\ l \in Task /\ l.pc = "CreateLikeStoryBoardItem" /\ l.board = b
      /\ l.row = r
  BY <1>2, <1>3, IdleType DEF Idle, Task
<1>5. task' = [task EXCEPT ![t] = l]
  BY <1>1, <1>3 DEF LikeStoryboard, Starts
<1>6. /\ TypeOK'
      /\ liked' = [liked EXCEPT ![b] = @ + 1]
      /\ UNCHANGED <<last, board, root, likes, line, published>>
  BY <1>2, <1>4, <1>5, StoryboardsAssumption
  DEF LikeStoryboard, Counts, IInv, TypeOK
<1>7. Keeps
  BY <1>2, <1>6, InsertedIsBoards DEF IInv, TypeOK, Keeps, BoardOrNone
<1>8. /\ r.like + 1 <= liked'[b]
      /\ Fits(b, r)'
      /\ b \in Inserted'
  <2>1. liked'[b] = liked[b] + 1 /\ liked[b] \in Nat /\ r.like \in Int
    BY <1>2, <1>6, RowTypes DEF IInv, TypeOK
  <2>2. Fits(b, r)'
    BY <1>2, <1>6, <1>7, FitsKept DEF IInv
  <2> QED
    BY <1>2, <1>6, <2>1, <2>2 DEF Fits, Inserted
<1>9. Locals(l)'
  BY <1>4, <1>8 DEF Locals, Creating, Rooting, Deleting, Liking, Saving,
                    Counting
<1>10. Descent' /\ Rows' /\ RootIsOfStory'
  BY <1>6, <1>7, DescentKept, RowsKept, RootsKept DEF IInv
<1>11. \A o \in Tasks : Locals(task[o])'
  BY <1>4, <1>5, <1>6, <1>7, <1>9, OneTaskMoves
<1> QED
  BY <1>6, <1>10, <1>11 DEF IInv

LEMMA CreateLikeStoryBoardItemStep ==
    ASSUME IInv, NEW t \in Tasks, CreateLikeStoryBoardItem(t)
    PROVE  IInv'
<1>1. PICK k \in Task : k = task[t]
  BY LocalsOf
<1>2. Locals(k) /\ k.pc = "CreateLikeStoryBoardItem"
  BY <1>1, LocalsOf DEF CreateLikeStoryBoardItem
<1>3. /\ k.board \in Inserted /\ Fits(k.board, k.row)
      /\ k.row.like + 1 <= liked[k.board]
  BY <1>2 DEF Locals, Liking
<1>4. PICK r : r = [k.row EXCEPT !.like = @ + 1]
  OBVIOUS
<1>5. /\ k.row \in StoryBoard /\ k.users \subseteq Users
      /\ k.board \in Boards
  BY <1>3, LocalTypes, RowOf
<1>6. /\ r \in StoryBoard /\ r.prev = k.row.prev /\ r.story = k.row.story
      /\ r.like = k.row.like + 1 /\ r.fork = k.row.fork
  BY <1>4, <1>5 DEF StoryBoard
<1>7. Fits(k.board, r)
  BY <1>3, <1>6 DEF Fits
<1>8. PICK l : l = [k EXCEPT !.pc = "UpdateStoryboard", !.row = r]
  OBVIOUS
<1>9. l \in Task /\ l.pc = "UpdateStoryboard" /\ l.board = k.board /\ l.row = r
  BY <1>6, <1>8 DEF Task
<1>10. task' = [task EXCEPT ![t] = l]
  BY <1>1, <1>4, <1>8 DEF CreateLikeStoryBoardItem, IInv, TypeOK, Task
<1>11. Locals(l)
  BY <1>3, <1>7, <1>9 DEF Locals, Creating, Rooting, Deleting, Liking, Saving,
                          Counting
<1>12. likes' \subseteq Users \X Boards
  BY <1>1, <1>5 DEF CreateLikeStoryBoardItem, IInv, TypeOK
<1>13. /\ liked' = liked /\ liked' \in [Boards -> Nat]
       /\ counted' \in 0..MaxCounted /\ faults' \in 0..MaxFaults
       /\ UNCHANGED <<last, board, root, line, published>>
       /\ \A b \in Boards : liked[b] <= liked'[b]
  BY DEF CreateLikeStoryBoardItem, history, IInv, TypeOK
<1> QED
  BY <1>9, <1>10, <1>11, <1>12, <1>13, ReadStep

LEMMA UnLikeStoryboardStep ==
    ASSUME IInv, NEW t \in Tasks, NEW u \in Users, NEW b \in Inserted,
           UnLikeStoryboard(t, u, b)
    PROVE  IInv'
<1>1. PICK l : l = [Idle EXCEPT !.pc = "DeleteLikeItem", !.board = b]
  OBVIOUS
<1>2. l \in Task /\ l.pc = "DeleteLikeItem" /\ l.board = b
  BY <1>1, IdleType, RowOf DEF Idle, Task
<1>3. Locals(l)
  BY <1>2 DEF Locals, Creating, Rooting, Deleting, Liking, Saving, Counting
<1>4. /\ task' = [task EXCEPT ![t] = l]
      /\ counted' \in 0..MaxCounted
      /\ UNCHANGED <<last, board, root, likes, line, liked, published, faults>>
  BY <1>1, StoryboardsAssumption
  DEF UnLikeStoryboard, Starts, Counts, history, IInv, TypeOK
<1>5. /\ likes' \subseteq Users \X Boards /\ liked' \in [Boards -> Nat]
      /\ faults' \in 0..MaxFaults
      /\ \A c \in Boards : liked[c] <= liked'[c]
  BY <1>4 DEF IInv, TypeOK
<1> QED
  BY <1>2, <1>3, <1>4, <1>5, ReadStep

LEMMA DeleteLikeItemStep ==
    ASSUME IInv, NEW t \in Tasks, DeleteLikeItem(t)
    PROVE  IInv'
<1>1. PICK k \in Task : k = task[t]
  BY LocalsOf
<1>2. k.board \in Inserted
  BY <1>1, LocalsOf DEF DeleteLikeItem, Locals, Counting
<1>3. PICK b \in Inserted : b = k.board
  BY <1>2
<1>4. PICK r : r = [board[b] EXCEPT !.like = @ - 1]
  OBVIOUS
<1>5. r \in StoryBoard /\ Fits(b, r)
  <2>1. PICK q \in StoryBoard : q = board[b]
    BY RowOf
  <2>2. /\ r \in StoryBoard /\ r.prev = q.prev /\ r.story = q.story
        /\ r.like = q.like - 1 /\ r.fork = q.fork /\ q.like \in Int
    BY <1>4, <2>1 DEF StoryBoard
  <2>3. Fits(b, q) /\ liked[b] \in Nat
    BY <2>1, RowOf DEF IInv, TypeOK
  <2> QED
    BY <2>2, <2>3 DEF Fits
<1>6. PICK l : l = IF Found(b)
                   THEN [Idle EXCEPT !.pc = "UpdateStoryboard", !.board = b,
                                     !.row = r]
                   ELSE Idle
  OBVIOUS
<1>7. l \in Task /\ Locals(l)
  <2>1. CASE Found(b)
    <3>1. /\ l \in Task /\ l.pc = "UpdateStoryboard" /\ l.board = b
          /\ l.row = r
      BY <1>5, <1>6, <2>1, IdleType, RowOf DEF Idle, Task
    <3> QED
      BY <1>5, <3>1 DEF Locals, Creating, Rooting, Deleting, Liking, Saving,
                        Counting
  <2>2. CASE ~ Found(b)
    BY <1>6, <2>2, IdleType, IdleLocals
  <2> QED
    BY <2>1, <2>2
<1>8. task' = [task EXCEPT ![t] = l]
  BY <1>1, <1>3, <1>4, <1>6 DEF DeleteLikeItem
<1>9. /\ likes' \subseteq Users \X Boards
      /\ liked' = liked /\ liked' \in [Boards -> Nat]
      /\ counted' \in 0..MaxCounted /\ faults' \in 0..MaxFaults
      /\ UNCHANGED <<last, board, root, line, published>>
      /\ \A c \in Boards : liked[c] <= liked'[c]
  BY DEF DeleteLikeItem, history, IInv, TypeOK
<1> QED
  BY <1>7, <1>8, <1>9, ReadStep

LEMMA CreateStoryBoardCommentStep ==
    ASSUME IInv, NEW t \in Tasks, NEW b \in Inserted,
           CreateStoryBoardComment(t, b)
    PROVE  IInv'
<1>1. PICK r \in StoryBoard : r = board[b]
  BY RowOf
<1>2. PICK l : l = [Idle EXCEPT !.pc = "UpdateStoryboard", !.board = b,
                                !.row = r]
  OBVIOUS
<1>3. l \in Task /\ l.pc = "UpdateStoryboard" /\ l.board = b /\ l.row = r
  BY <1>1, <1>2, IdleType, RowOf DEF Idle, Task
<1>4. Locals(l)
  BY <1>1, <1>3, RowOf DEF Locals, Creating, Rooting, Deleting, Liking,
                           Saving, Counting
<1>5. task' = [task EXCEPT ![t] = l]
  BY <1>1, <1>2 DEF CreateStoryBoardComment, Starts
<1> QED
  BY <1>3, <1>4, <1>5, NothingCounted, ReadStep
  DEF CreateStoryBoardComment, history

LEMMA CountsBranchStep ==
    ASSUME IInv, NEW t \in Tasks, NEW b \in Inserted,
           PublishStoryboard(t, b) \/ CancelStoryboard(t, b)
    PROVE  IInv'
<1>1. PICK pc \in {"IncrementStoryBoardForkNum", "DecrementStoryBoardForkNum"} :
         CountsBranch(t, b, pc)
  BY DEF PublishStoryboard, CancelStoryboard
<1>2. PICK p : p = board[b].prev
  OBVIOUS
<1>3. p \in Inserted
  <2>1. p \in line[b]
    BY <1>1, <1>2, RowOf DEF CountsBranch, Fits
  <2>2. line[b] \subseteq 1..(b - 1) /\ b \in 1..last /\ last \in Int
    BY StoryboardsAssumption DEF IInv, Descent, Inserted, TypeOK, BoardOrNone
  <2> QED
    BY <2>1, <2>2 DEF Inserted
<1>4. PICK l : l = [Idle EXCEPT !.pc = pc, !.board = p]
  OBVIOUS
<1>5. l \in Task /\ l.pc = pc /\ l.board = p
  BY <1>3, <1>4, IdleType, RowOf DEF Idle, Task
<1>6. Locals(l)
  BY <1>3, <1>5 DEF Locals, Creating, Rooting, Deleting, Liking, Saving,
                    Counting
<1>7. /\ task' = [task EXCEPT ![t] = l]
      /\ counted' \in 0..MaxCounted
  BY <1>1, <1>2, <1>4, StoryboardsAssumption
  DEF CountsBranch, Starts, Counts, IInv, TypeOK
<1>8. UNCHANGED <<last, board, root, likes, line, liked, published, faults>>
  BY DEF PublishStoryboard, CancelStoryboard, history
<1>9. /\ likes' \subseteq Users \X Boards /\ liked' \in [Boards -> Nat]
      /\ faults' \in 0..MaxFaults
      /\ \A c \in Boards : liked[c] <= liked'[c]
  BY <1>8 DEF IInv, TypeOK
<1> QED
  BY <1>5, <1>6, <1>7, <1>8, <1>9, ReadStep

LEMMA FaultStep ==
    ASSUME IInv, NEW t \in Tasks, Fault(t)
    PROVE  IInv'
<1>1. /\ task' = [task EXCEPT ![t] = Idle]
      /\ faults' \in 0..MaxFaults
      /\ UNCHANGED <<last, board, root, likes, line, liked, published, counted>>
  BY StoryboardsAssumption DEF Fault, Ends, history, IInv, TypeOK
<1>2. /\ likes' \subseteq Users \X Boards /\ liked' \in [Boards -> Nat]
      /\ counted' \in 0..MaxCounted
      /\ \A c \in Boards : liked[c] <= liked'[c]
  BY <1>1 DEF IInv, TypeOK
<1> QED
  BY <1>1, <1>2, IdleType, IdleLocals, ReadStep

-----------------------------------------------------------------------------
(* The steps that write.                                                   *)

LEMMA FitsUpdated ==
    ASSUME IInv, NEW b \in Inserted, NEW r \in StoryBoard, Fits(b, r)
    PROVE  Fits(b, Updates(board[b], r))
<1>1. PICK q \in StoryBoard : q = board[b]
  BY RowOf
<1>2. Fits(b, q)
  BY <1>1, RowOf
<1>3. PICK n : n = Updates(q, r)
  OBVIOUS
<1>4. /\ n.story = IF r.story = NoStory THEN q.story ELSE r.story
      /\ n.prev = Column(q.prev, r.prev)
      /\ n.like = Column(q.like, r.like)
      /\ n.fork = Column(q.fork, r.fork)
  BY <1>3 DEF Updates
<1> QED
  BY <1>1, <1>2, <1>3, <1>4 DEF Fits, Column

LEMMA UpdateStoryboardStep ==
    ASSUME IInv, NEW t \in Tasks, UpdateStoryboard(t)
    PROVE  IInv'
<1>1. PICK k \in Task : k = task[t]
  BY LocalsOf
<1>2. k.board \in Inserted /\ Fits(k.board, k.row)
  BY <1>1, LocalsOf DEF UpdateStoryboard, Locals, Saving
<1>3. PICK b \in Inserted : b = k.board
  BY <1>2
<1>4. PICK r : r = Updates(board[b], k.row)
  OBVIOUS
<1>5. k.row \in StoryBoard
  BY LocalTypes
<1>6. r \in StoryBoard /\ Fits(b, r)
  BY <1>2, <1>3, <1>4, <1>5, RowOf, UpdatesType, FitsUpdated
<1>7. /\ board' = [board EXCEPT ![b] = r]
      /\ task' = [task EXCEPT ![t] = Idle]
      /\ UNCHANGED <<last, root, likes, line, liked, published, counted, faults>>
  BY <1>1, <1>3, <1>4 DEF UpdateStoryboard, Ends, history
<1>8. r.story = board[b].story
  BY <1>6 DEF Fits
<1>9. board'[b] = r
  BY <1>7, RowOf DEF IInv, TypeOK
<1>10. Fits(b, r)'
  BY <1>6, <1>7, <1>8, <1>9 DEF Fits
<1>11. /\ published' \in [Boards -> Nat]
       /\ \A c \in Boards : published[c] <= published'[c]
  BY <1>7 DEF IInv, TypeOK
<1> QED
  BY <1>6, <1>7, <1>8, <1>10, <1>11, IdleType, IdleLocals, WriteStep

LEMMA ReparentChildStep ==
    ASSUME IInv, NEW t \in Tasks, NEW c \in Inserted, ReparentChild(t, c)
    PROVE  IInv'
<1>1. PICK k \in Task : k = task[t]
  BY LocalsOf
<1>2. Locals(k) /\ k.pc = "UpdateStoryboardMultiColumn" /\ c \in k.children
  BY <1>1, LocalsOf DEF ReparentChild
<1>3. /\ k.board \in Inserted
      /\ k.row.prev \in line[k.board] \cup {0}
      /\ k.board \in line[c]
  BY <1>2 DEF Locals, Deleting
<1>4. line[k.board] \subseteq line[c]
  BY <1>3 DEF IInv, Descent
<1>5. PICK q \in StoryBoard : q = board[c]
  BY RowOf
<1>6. PICK r : r = [q EXCEPT !.prev = k.row.prev]
  OBVIOUS
<1>7. k.row \in StoryBoard /\ k.row.prev \in BoardOrNone
  BY LocalTypes, RowTypes
<1>8. /\ r \in StoryBoard /\ r.prev = k.row.prev /\ r.story = q.story
      /\ r.like = q.like /\ r.fork = q.fork
  BY <1>6, <1>7 DEF StoryBoard
<1>9. Fits(c, r)
  BY <1>3, <1>4, <1>5, <1>8, RowOf DEF Fits
<1>10. PICK l : l = [k EXCEPT !.children = @ \ {c}]
  OBVIOUS
<1>11. /\ l \in Task /\ l.pc = k.pc /\ l.board = k.board /\ l.row = k.row
       /\ l.children = k.children \ {c}
  BY <1>10 DEF Task
<1>12. /\ board' = [board EXCEPT ![c] = r]
       /\ task' = [task EXCEPT ![t] = l]
       /\ UNCHANGED <<last, root, likes, line, liked, published, counted, faults>>
  BY <1>1, <1>5, <1>6, <1>10
  DEF ReparentChild, NewPrev, history, IInv, TypeOK, Task
<1>13. board'[c] = r
  BY <1>12, RowOf DEF IInv, TypeOK
<1>14. Fits(c, r)'
  BY <1>9, <1>12, <1>13 DEF Fits
<1>15. Locals(l)
  BY <1>2, <1>11 DEF Locals, Creating, Rooting, Deleting, Liking, Saving,
                     Counting
<1>16. TypeOK'
  BY <1>8, <1>11, <1>12 DEF IInv, TypeOK
<1>17. Keeps
  BY <1>5, <1>8, <1>12, RowOf, InsertedIsBoards
  DEF IInv, TypeOK, Keeps, BoardOrNone
<1>18. Locals(l)'
  BY <1>11, <1>15, <1>16, <1>17, LocalsKept DEF IInv
<1>19. /\ published' \in [Boards -> Nat]
       /\ \A b \in Boards : published[b] <= published'[b]
  BY <1>12 DEF IInv, TypeOK
<1> QED
  BY <1>5, <1>8, <1>11, <1>12, <1>14, <1>18, <1>19, WriteStep

LEMMA MarkDeletedStep ==
    ASSUME IInv, NEW t \in Tasks, MarkDeleted(t)
    PROVE  IInv'
<1>1. PICK k \in Task : k = task[t]
  BY LocalsOf
<1>2. k.board \in Inserted
  BY <1>1, LocalsOf DEF MarkDeleted, Locals, Deleting
<1>3. PICK b \in Inserted : b = k.board
  BY <1>2
<1>4. PICK q \in StoryBoard : q = board[b]
  BY RowOf
<1>5. PICK r : r = [q EXCEPT !.status = -1]
  OBVIOUS
<1>6. /\ r \in StoryBoard /\ r.prev = q.prev /\ r.story = q.story
      /\ r.like = q.like /\ r.fork = q.fork
  BY <1>5 DEF StoryBoard
<1>7. /\ board' = [board EXCEPT ![b] = r]
      /\ task' = [task EXCEPT ![t] = Idle]
      /\ UNCHANGED <<last, root, likes, line, liked, published, counted, faults>>
  BY <1>1, <1>3, <1>4, <1>5 DEF MarkDeleted, DeletedStatus, Ends, history
<1>8. board'[b] = r
  BY <1>7, RowOf DEF IInv, TypeOK
<1>9. Fits(b, r)'
  BY <1>4, <1>6, <1>7, <1>8, RowOf DEF Fits
<1>10. /\ published' \in [Boards -> Nat]
       /\ \A c \in Boards : published[c] <= published'[c]
  BY <1>7 DEF IInv, TypeOK
<1> QED
  BY <1>4, <1>6, <1>7, <1>9, <1>10, IdleType, IdleLocals, WriteStep

LEMMA IncrementStoryBoardForkNumStep ==
    ASSUME IInv, NEW t \in Tasks, IncrementStoryBoardForkNum(t)
    PROVE  IInv'
<1>1. PICK k \in Task : k = task[t]
  BY LocalsOf
<1>2. k.board \in Inserted
  BY <1>1, LocalsOf DEF IncrementStoryBoardForkNum, Locals, Counting
<1>3. PICK b \in Inserted : b = k.board
  BY <1>2
<1>4. PICK q \in StoryBoard : q = board[b]
  BY RowOf
<1>5. PICK r : r = [q EXCEPT !.fork = @ + 1]
  OBVIOUS
<1>6. /\ r \in StoryBoard /\ r.prev = q.prev /\ r.story = q.story
      /\ r.like = q.like /\ r.fork = q.fork + 1 /\ q.fork \in Int
  BY <1>5 DEF StoryBoard
<1>7. /\ board' = [board EXCEPT ![b] = r]
      /\ task' = [task EXCEPT ![t] = Idle]
      /\ published' = [published EXCEPT ![b] = @ + 1]
      /\ UNCHANGED <<last, root, likes, line, liked, counted, faults>>
  BY <1>1, <1>3, <1>4, <1>5 DEF IncrementStoryBoardForkNum, Ends
<1>8. board'[b] = r /\ published'[b] = published[b] + 1 /\ published[b] \in Nat
  BY <1>7, RowOf DEF IInv, TypeOK
<1>9. Fits(b, q)
  BY <1>4, RowOf
<1>10. Fits(b, r)'
  BY <1>6, <1>7, <1>8, <1>9 DEF Fits
<1>11. /\ published' \in [Boards -> Nat]
       /\ \A c \in Boards : published[c] <= published'[c]
  <2>1. ASSUME NEW c \in Boards
        PROVE  published[c] <= published'[c] /\ published'[c] \in Nat
    BY <1>7, <1>8 DEF IInv, TypeOK
  <2> QED
    BY <1>7, <2>1 DEF IInv, TypeOK
<1> QED
  BY <1>4, <1>6, <1>7, <1>10, <1>11, IdleType, IdleLocals, WriteStep

LEMMA DecrementStoryBoardForkNumStep ==
    ASSUME IInv, NEW t \in Tasks, DecrementStoryBoardForkNum(t)
    PROVE  IInv'
<1>1. PICK k \in Task : k = task[t]
  BY LocalsOf
<1>2. k.board \in Inserted
  BY <1>1, LocalsOf DEF DecrementStoryBoardForkNum, Locals, Counting
<1>3. PICK b \in Inserted : b = k.board
  BY <1>2
<1>4. PICK q \in StoryBoard : q = board[b]
  BY RowOf
<1>5. PICK r : r = [q EXCEPT !.fork = @ - 1]
  OBVIOUS
<1>6. /\ r \in StoryBoard /\ r.prev = q.prev /\ r.story = q.story
      /\ r.like = q.like /\ r.fork = q.fork - 1 /\ q.fork \in Int
  BY <1>5 DEF StoryBoard
<1>7. /\ board' = [board EXCEPT ![b] = r]
      /\ task' = [task EXCEPT ![t] = Idle]
      /\ UNCHANGED <<last, root, likes, line, liked, published, counted, faults>>
  BY <1>1, <1>3, <1>4, <1>5 DEF DecrementStoryBoardForkNum, Ends, history
<1>8. board'[b] = r /\ published[b] \in Nat
  BY <1>7, RowOf DEF IInv, TypeOK
<1>9. Fits(b, q)
  BY <1>4, RowOf
<1>10. Fits(b, r)'
  BY <1>6, <1>7, <1>8, <1>9 DEF Fits
<1>11. /\ published' \in [Boards -> Nat]
       /\ \A c \in Boards : published[c] <= published'[c]
  BY <1>7 DEF IInv, TypeOK
<1> QED
  BY <1>4, <1>6, <1>7, <1>10, <1>11, IdleType, IdleLocals, WriteStep

LEMMA UpdateStorySpecColumnsStep ==
    ASSUME IInv, NEW t \in Tasks, UpdateStorySpecColumns(t)
    PROVE  IInv'
<1>1. PICK k \in Task : k = task[t]
  BY LocalsOf
<1>2. /\ k.row.story # NoStory /\ k.board \in Inserted
      /\ board[k.board].story = k.row.story
  BY <1>1, LocalsOf DEF UpdateStorySpecColumns, Locals, Rooting
<1>3. k.row.story \in Stories /\ k.board \in BoardOrNone
  BY <1>2, LocalTypes, RowTypes
<1>4. /\ root' = [root EXCEPT ![k.row.story] = k.board]
      /\ task' = [task EXCEPT ![t] = Idle]
      /\ UNCHANGED <<last, board, likes, line, liked, published, counted, faults>>
  BY <1>1 DEF UpdateStorySpecColumns, RootBoardID, Ends, history
<1>5. TypeOK'
  BY <1>3, <1>4, IdleType DEF IInv, TypeOK
<1>6. Keeps
  BY <1>4, InsertedIsBoards DEF IInv, TypeOK, Keeps, BoardOrNone
<1>7. Descent' /\ Rows'
  BY <1>4, <1>5, <1>6, DescentKept, RowsKept DEF IInv
<1>8. RootIsOfStory'
  <2>1. SUFFICES ASSUME NEW s \in Stories, root'[s] # 0
                 PROVE  root'[s] \in Inserted /\ board[root'[s]].story = s
    BY <1>4 DEF RootIsOfStory, Inserted
  <2>2. CASE s = k.row.story
    BY <1>2, <1>4, <2>2 DEF IInv, TypeOK
  <2>3. CASE s # k.row.story
    BY <1>4, <2>1, <2>3 DEF IInv, TypeOK, RootIsOfStory
  <2> QED
    BY <2>2, <2>3
<1>9. \A o \in Tasks : Locals(task[o])'
  BY <1>4, <1>5, <1>6, IdleType, IdleLocals, OneTaskMoves
<1> QED
  BY <1>5, <1>7, <1>8, <1>9 DEF IInv

-----------------------------------------------------------------------------
(* The insertion of a row.                                                 *)

\* The line of a new row is a line for the row.
LEMMA NewLine ==
    ASSUME IInv, NEW k \in Task, Locals(k), k.pc = "CreateStoryBoard"
    PROVE  /\ LineOf(k) \subseteq Inserted
           /\ \A a \in LineOf(k) : line[a] \subseteq LineOf(k)
           /\ k.row.prev \in LineOf(k) \cup {0}
<1>1. ASSUME NEW b \in Inserted
      PROVE  line[b] \subseteq Inserted
  BY <1>1, StoryboardsAssumption
  DEF IInv, Descent, Inserted, TypeOK, BoardOrNone
<1>2. CASE k.board = 0 /\ Fresh(k.row)
  <2>1. CASE k.row.prev = 0
    BY <1>2, <2>1 DEF Fresh, LineOf
  <2>2. CASE k.row.prev # 0
    <3>1. /\ k.row.prev \in Inserted
          /\ LineOf(k) = line[k.row.prev] \cup {k.row.prev}
      BY <1>2, <2>2 DEF Fresh, LineOf
    <3>2. LineOf(k) \subseteq Inserted
      BY <1>1, <3>1
    <3>3. ASSUME NEW a \in LineOf(k)
          PROVE  line[a] \subseteq LineOf(k)
      BY <3>1 DEF IInv, Descent
    <3> QED
      BY <3>1, <3>2, <3>3
  <2> QED
    BY <2>1, <2>2
<1>3. CASE /\ k.board \in Inserted
           /\ k.row = Empty \/ Fits(k.board, k.row)
  <2>1. k.board # 0 /\ LineOf(k) = line[k.board]
    <3>1. last \in Nat
      BY StoryboardsAssumption DEF IInv, TypeOK, BoardOrNone
    <3>2. k.board # 0
      BY <1>3, <3>1 DEF Inserted
    <3> QED
      BY <3>2 DEF LineOf
  <2>2. /\ LineOf(k) \subseteq Inserted
        /\ \A a \in LineOf(k) : line[a] \subseteq LineOf(k)
    BY <1>1, <1>3, <2>1 DEF IInv, Descent
  <2>3. CASE k.row = Empty
    BY <2>2, <2>3 DEF Empty
  <2>4. CASE Fits(k.board, k.row)
    BY <1>3, <2>1, <2>2, <2>4 DEF Fits, IInv, Descent
  <2> QED
    BY <1>3, <2>3, <2>4
<1> QED
  BY <1>2, <1>3 DEF Locals, Creating

\* The counts of a new row were earned on the board it was forked from.
LEMMA NewCounts ==
    ASSUME IInv, NEW k \in Task, Locals(k), k.pc = "CreateStoryBoard"
    PROVE  /\ k.row.like <= (IF k.board = 0 THEN 0 ELSE liked[k.board])
           /\ k.row.fork <= (IF k.board = 0 THEN 0 ELSE published[k.board])
           /\ (IF k.board = 0 THEN 0 ELSE liked[k.board]) \in Nat
           /\ (IF k.board = 0 THEN 0 ELSE published[k.board]) \in Nat
<1>1. CASE k.board = 0 /\ Fresh(k.row)
  BY <1>1 DEF Fresh
<1>2. CASE /\ k.board \in Inserted
           /\ k.row = Empty \/ Fits(k.board, k.row)
  <2>1. k.board # 0 /\ liked[k.board] \in Nat /\ published[k.board] \in Nat
    BY <1>2, RowOf DEF Inserted, IInv, TypeOK
  <2> QED
    BY <1>2, <2>1 DEF Fits, Empty
<1> QED
  BY <1>1, <1>2 DEF Locals, Creating

LEMMA CreateStoryBoardStep ==
    ASSUME IInv, NEW t \in Tasks, CreateStoryBoard(t)
    PROVE  IInv'
<1>1. PICK k \in Task : k = task[t]
  BY LocalsOf
<1>2. Locals(k) /\ k.pc = "CreateStoryBoard"
  BY <1>1, LocalsOf DEF CreateStoryBoard
<1>3. PICK id : id = last + 1
  OBVIOUS
<1>4. /\ last \in Nat /\ id \in Boards /\ id \in BoardOrNone
      /\ id \notin Inserted
  BY <1>3, StoryboardsAssumption
  DEF CreateStoryBoard, RoomForBoard, IInv, TypeOK, Boards, BoardOrNone, Inserted
<1>5. PICK r \in StoryBoard : r = k.row
  BY LocalTypes
<1>6. PICK L : L = LineOf(k)
  OBVIOUS
<1>7. PICK v \in Nat : v = IF k.board = 0 THEN 0 ELSE liked[k.board]
  BY <1>2, NewCounts
<1>8. PICK w \in Nat : w = IF k.board = 0 THEN 0 ELSE published[k.board]
  BY <1>2, NewCounts
<1>9. PICK l : l = IF k.rootless
                   THEN [Idle EXCEPT !.pc = "UpdateStorySpecColumns",
                                     !.board = id, !.row.story = k.row.story]
                   ELSE Idle
  OBVIOUS
<1>10. /\ board' = [board EXCEPT ![id] = r]
       /\ line' = [line EXCEPT ![id] = L]
       /\ liked' = [liked EXCEPT ![id] = v]
       /\ published' = [published EXCEPT ![id] = w]
       /\ task' = [task EXCEPT ![t] = l]
       /\ last' = id
       /\ UNCHANGED <<root, likes, counted, faults>>
  BY <1>1, <1>3, <1>5, <1>6, <1>7, <1>8, <1>9 DEF CreateStoryBoard
<1>11. /\ L \subseteq Inserted
       /\ \A a \in L : line[a] \subseteq L
       /\ r.prev \in L \cup {0}
  BY <1>2, <1>5, <1>6, NewLine
<1>12. r.like <= v /\ r.fork <= w
  BY <1>2, <1>5, <1>7, <1>8, NewCounts
<1>13. l \in Task
  <2>1. CASE k.rootless
    BY <1>4, <1>5, <1>9, <2>1, IdleType, EmptyType, RowTypes
    DEF Idle, Task, Empty, StoryBoard
  <2>2. CASE ~ k.rootless
    BY <1>9, <2>2, IdleType
  <2> QED
    BY <2>1, <2>2
<1>14. TypeOK'
  BY <1>4, <1>10, <1>11, <1>13, InsertedIsBoards DEF IInv, TypeOK
<1>15. /\ Inserted' = Inserted \cup {id}
       /\ board'[id] = r /\ line'[id] = L
       /\ liked'[id] = v /\ published'[id] = w
       /\ \A b \in Inserted : /\ board'[b] = board[b]
                              /\ line'[b] = line[b]
                              /\ liked'[b] = liked[b]
                              /\ published'[b] = published[b]
  <2>1. Inserted' = Inserted \cup {id}
    BY <1>3, <1>4, <1>10 DEF Inserted
  <2> QED
    BY <1>4, <1>10, <2>1, InsertedIsBoards DEF IInv, TypeOK
<1>16. Keeps
  <2>1. last <= last'
    BY <1>3, <1>10, StoryboardsAssumption DEF IInv, TypeOK, BoardOrNone
  <2>2. ASSUME NEW b \in Inserted
        PROVE  liked[b] <= liked'[b] /\ published[b] <= published'[b]
    <3>1. liked[b] \in Nat /\ published[b] \in Nat
      BY InsertedIsBoards DEF IInv, TypeOK
    <3> QED
      BY <1>15, <3>1
  <2>3. ASSUME NEW b \in Inserted
        PROVE  board'[b].story = board[b].story
    BY <1>15
  <2> QED
    BY <1>15, <2>1, <2>2, <2>3 DEF Keeps
<1>17. Descent'
  <2>1. SUFFICES ASSUME NEW b \in Inserted'
                 PROVE  /\ line'[b] \subseteq 1..(b - 1)
                        /\ \A a \in line'[b] : line'[a] \subseteq line'[b]
    BY DEF Descent
  <2>2. CASE b = id
    <3>1. line'[b] \subseteq 1..(b - 1)
      <4>1. last \in Nat
        BY StoryboardsAssumption DEF IInv, TypeOK, BoardOrNone
      <4>2. 1..last = 1..(b - 1)
        BY <1>3, <2>2, <4>1
      <4> QED
        BY <1>11, <1>15, <2>2, <4>2 DEF Inserted
    <3> QED
      BY <1>11, <1>15, <2>2, <3>1
  <2>3. CASE b \in Inserted
    <3>1. line[b] \subseteq Inserted
      BY <1>4, <2>3 DEF IInv, Descent, Inserted
    <3> QED
      BY <1>15, <2>3, <3>1 DEF IInv, Descent
  <2> QED
    BY <1>15, <2>1, <2>2, <2>3
<1>18. Rows'
  <2>1. Fits(id, board[id])'
    BY <1>11, <1>12, <1>15 DEF Fits
  <2>2. ASSUME NEW b \in Inserted
        PROVE  Fits(b, board[b])'
    BY <1>15, RowOf DEF Fits
  <2> QED
    BY <1>15, <2>1, <2>2 DEF Rows
<1>19. RootIsOfStory'
  BY <1>10, <1>14, <1>16, RootsKept DEF IInv
<1>20. Locals(l)'
  <2>1. CASE k.rootless
    <3>1. r.story # NoStory
      BY <1>2, <1>5, <2>1 DEF Locals, Creating, Fresh
    <3>2. /\ l.pc = "UpdateStorySpecColumns" /\ l.board = id
          /\ l.row.story = r.story
      BY <1>5, <1>9, <2>1, IdleType DEF Idle, Empty
    <3> QED
      BY <1>15, <3>1, <3>2 DEF Locals, Creating, Rooting, Deleting, Liking,
                               Saving, Counting
  <2>2. CASE ~ k.rootless
    BY <1>9, <2>2, IdleLocals
  <2> QED
    BY <2>1, <2>2
<1>21. \A o \in Tasks : Locals(task[o])'
  BY <1>10, <1>13, <1>14, <1>16, <1>20, OneTaskMoves
<1> QED
  BY <1>14, <1>17, <1>18, <1>19, <1>21 DEF IInv

-----------------------------------------------------------------------------
(* The theorems.                                                           *)

LEMMA InitIInv == Init => IInv
<1>1. SUFFICES ASSUME Init
               PROVE  IInv
  OBVIOUS
<1>2. TypeOK
  BY <1>1, EmptyType, IdleType, StoryboardsAssumption
  DEF Init, TypeOK, BoardOrNone
<1>3. Inserted = {}
  BY <1>1 DEF Init, Inserted
<1>4. Descent /\ Rows /\ RootIsOfStory
  BY <1>1, <1>3 DEF Init, Descent, Rows, RootIsOfStory
<1>5. \A t \in Tasks : Locals(task[t])
  BY <1>1, IdleLocals DEF Init
<1> QED
  BY <1>2, <1>4, <1>5 DEF IInv

LEMMA Stutter ==
    ASSUME IInv, UNCHANGED vars
    PROVE  IInv'
BY DEF vars, history, IInv, TypeOK, Descent, Rows, Fits, RootIsOfStory, Locals,
       Creating, Fresh, Rooting, Deleting, Liking, Saving, Counting, Inserted

LEMMA NextIInv ==
    ASSUME IInv, [Next]_vars
    PROVE  IInv'
<1>1. CASE UNCHANGED vars
  BY <1>1, Stutter
<1>2. CASE Next
  <2>1. PICK t \in Tasks :
           \/ \E s \in Stories, prev \in Inserted \cup {0} :
                 CreateStoryboard(t, s, prev)
           \/ CreateStoryBoard(t)
           \/ UpdateStorySpecColumns(t)
           \/ GetStoryboardsByPrevId(t)
           \/ MarkDeleted(t)
           \/ CreateLikeStoryBoardItem(t)
           \/ DeleteLikeItem(t)
           \/ UpdateStoryboard(t)
           \/ IncrementStoryBoardForkNum(t)
           \/ DecrementStoryBoardForkNum(t)
           \/ Fault(t)
           \/ \E b \in Inserted :
                 \/ ForkStoryboard(t, b)
                 \/ DelStoryboard(t, b)
                 \/ ReparentChild(t, b)
                 \/ CreateStoryBoardComment(t, b)
                 \/ PublishStoryboard(t, b)
                 \/ CancelStoryboard(t, b)
                 \/ \E u \in Users : LikeStoryboard(t, u, b)
                                     \/ UnLikeStoryboard(t, u, b)
    BY <1>2 DEF Next
  <2>2. CASE \E s \in Stories, prev \in Inserted \cup {0} :
                CreateStoryboard(t, s, prev)
    BY <2>2, CreateStoryboardStep
  <2>3. CASE \E b \in Inserted :
                \/ ForkStoryboard(t, b)
                \/ DelStoryboard(t, b)
                \/ ReparentChild(t, b)
                \/ CreateStoryBoardComment(t, b)
                \/ PublishStoryboard(t, b)
                \/ CancelStoryboard(t, b)
                \/ \E u \in Users : LikeStoryboard(t, u, b)
                                    \/ UnLikeStoryboard(t, u, b)
    BY <2>3, ForkStoryboardStep, DelStoryboardStep, ReparentChildStep,
       CreateStoryBoardCommentStep, CountsBranchStep, LikeStoryboardStep,
       UnLikeStoryboardStep
  <2> QED
    BY <2>1, <2>2, <2>3, CreateStoryBoardStep, UpdateStorySpecColumnsStep,
       GetStoryboardsByPrevIdStep, MarkDeletedStep,
       CreateLikeStoryBoardItemStep, DeleteLikeItemStep, UpdateStoryboardStep,
       IncrementStoryBoardForkNumStep, DecrementStoryBoardForkNumStep, FaultStep
<1> QED
  BY <1>1, <1>2

\* Every image of a board that a request of storyboard.go holds may still be
\* written, however old it is.
THEOREM Invariance == Spec => []IInv
<1>1. IInv /\ [Next]_vars => IInv'
  BY NextIInv
<1> QED
  BY <1>1, InitIInv, PTL DEF Spec

\* Rows and request locals keep their types.
THEOREM TypeCorrect == Spec => []TypeOK
<1>1. IInv => TypeOK
  BY DEF IInv
<1> QED
  BY <1>1, Invariance, PTL

\* A board never continues anything but a board it was created after: whatever
\* DelStoryboard, ForkStoryboard and the saving of stale rows do, in whatever
\* order.
THEOREM NoBranchIsMoved == Spec => []ContinuesAncestor
<1>1. IInv => ContinuesAncestor
  BY DEF IInv, Rows, Fits, ContinuesAncestor
<1> QED
  BY <1>1, Invariance, PTL

\* Following prev_id ends, at any number of boards and requests.
THEOREM WalksEnd == Spec => []WalkEnds
<1>1. ASSUME IInv, NEW b \in Inserted
      PROVE  board[b].prev < b
  <2>1. board[b].prev \in line[b] \cup {0}
    BY <1>1 DEF IInv, Rows, Fits
  <2>2. line[b] \subseteq 1..(b - 1) /\ b \in Nat /\ b > 0
    BY <1>1, StoryboardsAssumption
    DEF IInv, Descent, Inserted, TypeOK, BoardOrNone
  <2> QED
    BY <2>1, <2>2
<1>2. IInv => WalkEnds
  BY <1>1 DEF WalkEnds
<1> QED
  BY <1>2, Invariance, PTL

\* No like and no branch is counted that nobody asked for.
THEOREM CountsAreEarned == Spec => []CountsWereEarned
<1>1. IInv => CountsWereEarned
  BY DEF IInv, Rows, Fits, CountsWereEarned
<1> QED
  BY <1>1, Invariance, PTL

\* A story that has a board has its root, and so has one that a board is about
\* to be added to by a request that found the root set.
RootsInv ==
    /\ \A b \in Inserted : board[b].story # NoStory => Rooted(board[b].story)
    /\ \A t \in Tasks :
          /\ task[t].pc = "CreateStoryBoard" /\ ~ task[t].rootless
          /\ task[t].row.story # NoStory
          => Rooted(task[t].row.story)

LEMMA RootedKept ==
    ASSUME NEW s \in Stories, Rooted(s), NEW t \in Tasks,
           \A u \in Tasks \ {t} : task'[u] = task[u],
           faults \in Nat, faults' \in Nat, faults <= faults',
           root[s] # 0 => root'[s] # 0,
           /\ task[t].pc = "UpdateStorySpecColumns" /\ task[t].row.story = s
           => root'[s] # 0 \/ faults' > 0
    PROVE  Rooted(s)'
BY DEF Rooted

\* What most steps do: one request moves, no row is inserted, no row changes its
\* story, and nothing is done about roots.
Plain(t) ==
    /\ \A u \in Tasks \ {t} : task'[u] = task[u]
    /\ task[t].pc # "UpdateStorySpecColumns"
    /\ task'[t].pc # "CreateStoryBoard"
    /\ UNCHANGED <<last, root, faults>>
    /\ \A b \in Boards : board'[b].story = board[b].story

LEMMA PlainReads ==
    ASSUME IInv, NEW t \in Tasks,
           \/ GetStoryboardsByPrevId(t)
           \/ CreateLikeStoryBoardItem(t)
           \/ DeleteLikeItem(t)
           \/ \E b \in Inserted :
                 \/ DelStoryboard(t, b)
                 \/ CreateStoryBoardComment(t, b)
                 \/ PublishStoryboard(t, b)
                 \/ CancelStoryboard(t, b)
                 \/ \E u \in Users : LikeStoryboard(t, u, b)
                                     \/ UnLikeStoryboard(t, u, b)
    PROVE  Plain(t)
<1>0. task \in [Tasks -> Task] /\ task[t] \in Task
  BY DEF IInv, TypeOK
<1>1. CASE GetStoryboardsByPrevId(t) \/ CreateLikeStoryBoardItem(t)
  BY <1>0, <1>1 DEF GetStoryboardsByPrevId, CreateLikeStoryBoardItem, Task,
                    Plain, history
<1>2. CASE DeleteLikeItem(t)
  BY <1>0, <1>2 DEF DeleteLikeItem, Idle, Plain, history
<1>3. ASSUME NEW b \in Inserted,
             DelStoryboard(t, b) \/ CreateStoryBoardComment(t, b)
      PROVE  Plain(t)
  BY <1>0, <1>3 DEF DelStoryboard, CreateStoryBoardComment, Starts, Idle,
                    Plain, history
<1>4. ASSUME NEW b \in Inserted,
             PublishStoryboard(t, b) \/ CancelStoryboard(t, b)
      PROVE  Plain(t)
  BY <1>0, <1>4 DEF PublishStoryboard, CancelStoryboard, CountsBranch, Starts,
                    Idle, Plain, history
<1>5. ASSUME NEW b \in Inserted, NEW u \in Users,
             LikeStoryboard(t, u, b) \/ UnLikeStoryboard(t, u, b)
      PROVE  Plain(t)
  <2>1. CASE LikeStoryboard(t, u, b)
    BY <1>0, <2>1 DEF LikeStoryboard, Starts, Idle, Plain, Empty
  <2>2. CASE UnLikeStoryboard(t, u, b)
    BY <1>0, <2>2 DEF UnLikeStoryboard, Starts, Idle, Plain, history
  <2> QED
    BY <1>5, <2>1, <2>2
<1> QED
  BY <1>1, <1>2, <1>3, <1>4, <1>5

LEMMA PlainWrites ==
    ASSUME IInv, NEW t \in Tasks,
           \/ MarkDeleted(t)
           \/ UpdateStoryboard(t)
           \/ IncrementStoryBoardForkNum(t)
           \/ DecrementStoryBoardForkNum(t)
           \/ \E b \in Inserted : ReparentChild(t, b)
    PROVE  Plain(t)
<1>0. /\ task \in [Tasks -> Task] /\ task[t] \in Task
      /\ board \in [Boards -> StoryBoard] /\ Locals(task[t])
  BY DEF IInv, TypeOK
<1>1. CASE MarkDeleted(t)
  BY <1>0, <1>1 DEF MarkDeleted, Ends, Idle, Plain, history, StoryBoard
<1>2. CASE UpdateStoryboard(t)
  <2>1. task[t].row.story = board[task[t].board].story
    BY <1>0, <1>2 DEF UpdateStoryboard, Locals, Saving, Fits
  <2>2. ASSUME NEW b \in Boards
        PROVE  board'[b].story = board[b].story
    BY <1>0, <1>2, <2>1 DEF UpdateStoryboard, Updates, StoryBoard
  <2> QED
    BY <1>0, <1>2, <2>2 DEF UpdateStoryboard, Ends, Idle, Plain, history
<1>3. CASE IncrementStoryBoardForkNum(t) \/ DecrementStoryBoardForkNum(t)
  BY <1>0, <1>3 DEF IncrementStoryBoardForkNum, DecrementStoryBoardForkNum,
                    Ends, Idle, Plain, history, StoryBoard
<1>4. ASSUME NEW b \in Inserted, ReparentChild(t, b)
      PROVE  Plain(t)
  BY <1>0, <1>4 DEF ReparentChild, Plain, history, StoryBoard, Task
<1> QED
  BY <1>1, <1>2, <1>3, <1>4

LEMMA RootsInvStep ==
    ASSUME IInv, TypeOK', RootsInv, Next
    PROVE  RootsInv'
<1>0. /\ task \in [Tasks -> Task] /\ board \in [Boards -> StoryBoard]
      /\ faults \in Nat /\ faults' \in Nat /\ root \in [Stories -> BoardOrNone]
      /\ last \in Nat /\ Inserted \subseteq Boards /\ NoStory \notin Stories
      /\ \A t \in Tasks : task[t] \in Task /\ Locals(task[t])
      /\ \A b \in Boards : board[b].story \in Stories \cup {NoStory}
      /\ \A t \in Tasks : task[t].row.story \in Stories \cup {NoStory}
  BY InsertedIsBoards, StoryboardsAssumption
     DEF IInv, TypeOK, BoardOrNone, Task, StoryBoard
<1>1. ASSUME NEW t \in Tasks, Plain(t)
      PROVE  RootsInv'
  <2>1. \A s \in Stories : Rooted(s) => Rooted(s)'
    BY <1>0, <1>1, RootedKept DEF Plain
  <2>2. Inserted' = Inserted
    BY <1>1 DEF Plain, Inserted
  <2>3. ASSUME NEW u \in Tasks, task'[u].pc = "CreateStoryBoard"
        PROVE  task'[u] = task[u]
    BY <1>1, <2>3 DEF Plain
  <2> QED
    BY <1>0, <1>1, <2>1, <2>2, <2>3 DEF Plain, RootsInv
<1>2. ASSUME NEW t \in Tasks,
             \A u \in Tasks \ {t} : task'[u] = task[u],
             task[t].pc = "idle", UNCHANGED <<last, board, root, faults>>,
             ~ task'[t].rootless /\ task'[t].row.story # NoStory
             => Rooted(task'[t].row.story)
      PROVE  RootsInv'
  <2>1. \A s \in Stories : Rooted(s) => Rooted(s)'
    BY <1>0, <1>2, RootedKept
  <2>2. Inserted' = Inserted
    BY <1>2 DEF Inserted
  <2>3. task'[t].row.story \in Stories \cup {NoStory}
    BY DEF TypeOK, Task, StoryBoard
  <2> QED
    BY <1>0, <1>2, <2>1, <2>2, <2>3 DEF RootsInv
<1>3. ASSUME NEW t \in Tasks, NEW s \in Stories, NEW prev \in Inserted \cup {0},
             CreateStoryboard(t, s, prev)
      PROVE  RootsInv'
  <2>1. /\ task'[t].row.story = s /\ task'[t].rootless = (root[s] = 0)
        /\ \A u \in Tasks \ {t} : task'[u] = task[u]
    BY <1>0, <1>3 DEF CreateStoryboard, Starts, Idle, Empty
  <2> QED
    BY <1>2, <1>3, <2>1 DEF CreateStoryboard, Starts, Rooted
<1>4. ASSUME NEW t \in Tasks, NEW b \in Inserted, ForkStoryboard(t, b)
      PROVE  RootsInv'
  <2>1. /\ task'[t].row = ForkedRow(b)
        /\ \A u \in Tasks \ {t} : task'[u] = task[u]
    BY <1>0, <1>4 DEF ForkStoryboard, Starts, Idle
  <2>2. task'[t].row.story # NoStory => Rooted(task'[t].row.story)
    BY <2>1 DEF ForkedRow, Empty, RootsInv
  <2> QED
    BY <1>2, <1>4, <2>1, <2>2 DEF ForkStoryboard, Starts
<1>5. ASSUME NEW t \in Tasks, CreateStoryBoard(t)
      PROVE  RootsInv'
  <2>01. PICK id : id = last + 1
    OBVIOUS
  <2>02. PICK r : r = task[t].row
    OBVIOUS
  <2>1. /\ task[t].pc = "CreateStoryBoard" /\ id \in Boards
        /\ board' = [board EXCEPT ![id] = r]
        /\ UNCHANGED <<root, faults>> /\ last' = id
        /\ \A u \in Tasks \ {t} : task'[u] = task[u]
    BY <1>0, <1>5, <2>01, <2>02, StoryboardsAssumption
       DEF CreateStoryBoard, RoomForBoard, Boards
  <2>2. \A s \in Stories : Rooted(s) => Rooted(s)'
    BY <1>0, <2>1, RootedKept
  <2>3. r.story # NoStory => Rooted(r.story)'
    <3>1. CASE task[t].rootless
      <4>1. /\ task'[t].pc = "UpdateStorySpecColumns"
            /\ task'[t].row.story = r.story
        BY <1>0, <1>5, <2>02, <3>1 DEF CreateStoryBoard, Idle, Empty
      <4> QED
        BY <4>1 DEF Rooted
    <3>2. CASE ~ task[t].rootless
      BY <1>0, <2>02, <2>1, <2>2, <3>2 DEF RootsInv
    <3> QED
      BY <3>1, <3>2
  <2>4. Inserted' = Inserted \cup {id} /\ id \notin Inserted
    BY <1>0, <2>01, <2>1 DEF Inserted
  <2>5. \A b \in Inserted : board'[b] = board[b]
    BY <1>0, <2>1, <2>4
  <2>6. board'[id] = r
    BY <1>0, <2>1
  <2>7. task'[t].pc # "CreateStoryBoard"
    BY <1>0, <1>5 DEF CreateStoryBoard, Idle
  <2>8. ASSUME NEW b \in Inserted', board'[b].story # NoStory
        PROVE  Rooted(board[b].story)'
    <3>1. CASE b = id
      BY <2>3, <2>6, <2>8, <3>1 DEF Rooted
    <3>2. CASE b \in Inserted
      <4>1. Rooted(board[b].story) /\ board[b].story \in Stories
        BY <1>0, <2>5, <2>8, <3>2 DEF RootsInv
      <4> QED
        BY <2>2, <2>5, <3>2, <4>1 DEF Rooted
    <3> QED
      BY <2>4, <2>8, <3>1, <3>2
  <2>9. ASSUME NEW u \in Tasks, task'[u].pc = "CreateStoryBoard",
               ~ task'[u].rootless, task'[u].row.story # NoStory
        PROVE  Rooted(task[u].row.story)'
    <3>1. task'[u] = task[u]
      BY <2>1, <2>7, <2>9
    <3>2. Rooted(task[u].row.story) /\ task[u].row.story \in Stories
      BY <1>0, <2>9, <3>1 DEF RootsInv
    <3> QED
      BY <2>2, <3>1, <3>2 DEF Rooted
  <2> QED
    BY <2>8, <2>9 DEF RootsInv, Rooted
<1>6. ASSUME NEW t \in Tasks, UpdateStorySpecColumns(t) \/ Fault(t)
      PROVE  RootsInv'
  <2>1. /\ \A u \in Tasks \ {t} : task'[u] = task[u]
        /\ task'[t].pc # "CreateStoryBoard"
        /\ UNCHANGED <<last, board>> /\ faults <= faults'
    BY <1>0, <1>6 DEF UpdateStorySpecColumns, Fault, Ends, Idle
  <2>2. ASSUME NEW s \in Stories
        PROVE  /\ root[s] # 0 => root'[s] # 0
               /\ task[t].pc = "UpdateStorySpecColumns" /\ task[t].row.story = s
                  => root'[s] # 0 \/ faults' > 0
    <3>1. CASE UpdateStorySpecColumns(t)
      <4>1. task[t].board # 0
        BY <1>0, <3>1 DEF UpdateStorySpecColumns, Locals, Rooting, Inserted
      <4> QED
        BY <1>0, <3>1, <4>1 DEF UpdateStorySpecColumns, RootBoardID
    <3>2. CASE Fault(t)
      BY <1>0, <3>2 DEF Fault
    <3> QED
      BY <1>6, <3>1, <3>2
  <2>3. \A s \in Stories : Rooted(s) => Rooted(s)'
    BY <1>0, <2>1, <2>2, RootedKept
  <2>4. Inserted' = Inserted
    BY <2>1 DEF Inserted
  <2>5. ASSUME NEW u \in Tasks, task'[u].pc = "CreateStoryBoard"
        PROVE  task'[u] = task[u]
    BY <2>1, <2>5
  <2> QED
    BY <1>0, <2>1, <2>3, <2>4, <2>5 DEF RootsInv
<1>7. PICK t \in Tasks :
         \/ \E s \in Stories, prev \in Inserted \cup {0} :
               CreateStoryboard(t, s, prev)
         \/ \E b \in Inserted : ForkStoryboard(t, b)
         \/ CreateStoryBoard(t)
         \/ UpdateStorySpecColumns(t) \/ Fault(t)
         \/ Plain(t)
  BY PlainReads, PlainWrites DEF Next
<1> QED
  BY <1>1, <1>3, <1>4, <1>5, <1>6, <1>7

\* A story that has boards has a root, which is one of them: two requests that
\* both find the story without one may both write it, and a board may continue
\* a board of another story, but the root is not lost to either.
THEOREM RootsAreOfStories == Spec => []StoryHasItsRoot
<1>1. Init => RootsInv
  BY DEF Init, RootsInv, Inserted, Idle
<1>2. IInv /\ IInv' /\ RootsInv /\ [Next]_vars => RootsInv'
  <2>1. ASSUME IInv, IInv', RootsInv, UNCHANGED vars
        PROVE  RootsInv'
    BY <2>1 DEF vars, RootsInv, Rooted, Inserted
  <2>2. ASSUME IInv, IInv', RootsInv, Next
        PROVE  RootsInv'
    BY <2>2, RootsInvStep DEF IInv
  <2> QED
    BY <2>1, <2>2
<1>3. IInv /\ RootsInv => StoryHasItsRoot
  BY DEF IInv, RootsInv, StoryHasItsRoot
<1> QED
  BY <1>1, <1>2, <1>3, Invariance, PTL DEF Spec
=============================================================================
