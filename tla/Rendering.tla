----------------------------- MODULE Rendering ------------------------------
(***************************************************************************)
(* Text that a language model writes for stories, boards and roles, and the *)
(* story_gen rows that record it (RenderStory of pkg/story/story.go, the    *)
(* renderings of pkg/story/storyboard.go and pkg/story/storyrole.go,        *)
(* models/storygen.go).                                                     *)
(*                                                                          *)
(* A handler inserts a row with no content, asks the model, and fills the   *)
(* row in; a row is looked up later by its origin, board and status.        *)
(***************************************************************************)
EXTENDS Requests, Sequences

CONSTANTS
    StoryIds,   \* ids of stories
    RoleIds,    \* ids of roles, in another table: the same number may be both
    BoardIds    \* ids of boards

ASSUME RenderingAssumption == StoryIds \cup RoleIds \cup BoardIds \subseteq Nat \ {0}

VARIABLES
    gen,       \* the story_gen rows in the order of their ids
    writes,    \* how often the model was asked to write each story
    unsure     \* stories of which an earlier row may have been overlooked: two
               \* requests were in flight at once, or the look-up failed

rendering == <<gen, writes, unsure>>

-----------------------------------------------------------------------------
RenderingInit ==
    /\ gen = <<>>
    /\ writes = [s \in StoryIds |-> 0]
    /\ unsure = {}

\* op is the handler that inserted the row.
Gen(op, origin, board, status) ==
    [op |-> op, origin |-> origin, board |-> board, status |-> status,
     filled |-> FALSE]

\* What each handler writes into origin_id, board_id and status; only three of
\* them give a status other than 0, and two of these name a role as the origin.
NewGen(op, on) ==
    CASE op = "RenderStory"        -> Gen(op, on.story, 0, 1)
      [] op = "RenderStoryboard"   -> Gen(op, on.story, on.board, 0)
      [] op = "InitRenderStory"    -> Gen(op, on.story, 0, 0)
      [] op = "ContinueRenderStory" -> Gen(op, on.story, on.board, 0)
      [] op = "GenStoryboardImages" -> Gen(op, on.story, on.board, 0)
      [] op = "RenderStoryRoleDetail" -> Gen(op, on.role, 0, 0)
      [] op = "RenderStoryRole"    -> Gen(op, on.role, 0, 1)
      [] op = "RenderStoryRoleContinuously" -> Gen(op, on.role, 0, 1)

On(s, b, r) == [story |-> s, board |-> b, role |-> r]

\* GetStoryGensByStory.
GensByStory(s) ==
    {i \in DOMAIN gen : gen[i].origin = s /\ gen[i].board = 0 /\ gen[i].status = 1}

\* Mutant of GensByStoryBoard: the origin and the status are not asked for.
GensOfBoard(b) == {i \in DOMAIN gen : gen[i].board = b}

\* GetStoryGensByStoryBoard asks for rows that no story is the origin of.
GensByStoryBoard(b) ==
    {i \in DOMAIN gen : gen[i].board = b /\ gen[i].status = 1 /\ gen[i].origin = 0}

Newest(rows) == CHOOSE i \in rows : \A j \in rows : j <= i

-----------------------------------------------------------------------------
(* Requests.  The checks of the rows a rendering is about, and of their     *)
(* status, only make it return early.                                       *)

\* Two renderings of one story may both find no row before either inserts one.
RenderStory(w, u, s) ==
    /\ Begins(w, u, "RenderStory", On(s, 0, 0), "FindGens", None)
    /\ unsure' = IF \E v \in Busy : worker[v].op = "RenderStory" /\ worker[v].on.story = s
                   THEN unsure \cup {s} ELSE unsure
    /\ UNCHANGED <<gen, writes>>

\* Mutant of Rendered: no earlier row is looked for.
NeverRendered(s) == FALSE

Rendered(s) == GensByStory(s) # {}

\* An earlier row is answered as it is, empty or not, and whoever inserted it.
\* The error of the look-up is thrown away: there is no earlier row then.
FindGens(w) ==
    LET s == worker[w].on.story
    IN  /\ worker[w].pc = "FindGens"
        /\ \/ /\ Goes(w, IF Rendered(s) THEN "idle" ELSE "CreateStoryGen")
              /\ UNCHANGED unsure
           \/ /\ Logs(w, "CreateStoryGen")
              /\ unsure' = unsure \cup {s}
        /\ UNCHANGED <<gen, writes>>

\* A rendering of the board's text is refused while one is found for it.
RenderStoryboard(w, u, s, b) ==
    /\ GensByStoryBoard(b) = {}
    /\ Begins(w, u, "RenderStoryboard", On(s, b, 0), "CreateStoryGen", None)
    /\ UNCHANGED rendering

\* The first board of a story, and one that continues the board b.
InitRenderStory(w, u, s) ==
    /\ Begins(w, u, "InitRenderStory", On(s, 0, 0), "CreateStoryGen", None)
    /\ UNCHANGED rendering

ContinueRenderStory(w, u, s, b) ==
    /\ Begins(w, u, "ContinueRenderStory", On(s, b, 0), "CreateStoryGen", None)
    /\ UNCHANGED rendering

\* The text of a rendering is turned into images, with a row for each of them;
\* "storyboard is not rendering" when none is found.
GenStoryboardImages(w, u, s, b) ==
    /\ IF GensByStoryBoard(b) = {} THEN Serves
       ELSE Begins(w, u, "GenStoryboardImages", On(s, b, 0), "CreateStoryGen", None)
    /\ UNCHANGED rendering

\* These ask a model and answer what it gave; they store nothing.
GenerateRoleDescription == Serves /\ UNCHANGED rendering
GenerateStoryRolePoster == Serves /\ UNCHANGED rendering

\* RenderStoryRoleContinuously looks for a row of the role that is being
\* generated, a state that no row ever has.
RenderRole(w, u, op, r) ==
    /\ Begins(w, u, op, On(0, 0, r),
              IF op = "RenderStoryRole" THEN "AskModel" ELSE "CreateStoryGen", None)
    /\ UNCHANGED rendering

\* Only RenderStoryRole asks the model before the row is inserted.
CreateStoryGen(w) ==
    LET op == worker[w].op
    IN  /\ worker[w].pc = "CreateStoryGen"
        /\ gen' = Append(gen, NewGen(op, worker[w].on))
        /\ GoesWith(w, IF op = "RenderStoryRole" THEN "UpdateStoryGen" ELSE "AskModel",
                    Len(gen) + 1)
        /\ UNCHANGED <<writes, unsure>>

AskModel(w) ==
    LET op == worker[w].op
        s == worker[w].on.story
    IN  /\ worker[w].pc = "AskModel"
        /\ writes' = IF op = "RenderStory" THEN [writes EXCEPT ![s] = @ + 1] ELSE writes
        /\ Goes(w, IF op = "RenderStoryRole" THEN "CreateStoryGen" ELSE "UpdateStoryGen")
        /\ UNCHANGED <<gen, unsure>>

\* What the model wrote may be no JSON, and for a type of rendering other than
\* text RenderStory does not ask it: the handler returns, as it does when the
\* call fails (CutOff), and the row stays empty.
RejectAnswer(w) ==
    /\ \/ worker[w].pc = "UpdateStoryGen"
       \/ worker[w].pc = "AskModel" /\ worker[w].op = "RenderStory"
    /\ Ends(w)
    /\ UNCHANGED rendering

\* The answer is given even if the row could not be saved (CutOff).
UpdateStoryGen(w) ==
    /\ worker[w].pc = "UpdateStoryGen"
    /\ Ends(w)
    /\ gen' = [gen EXCEPT ![worker[w].got].filled = TRUE]
    /\ UNCHANGED <<writes, unsure>>

\* An empty row cannot be read as JSON.
GetStoryRender(s) ==
    /\ Rendered(s)
    /\ gen[Newest(GensByStory(s))].filled
    /\ Serves
    /\ UNCHANGED rendering

\* The text of a board is shown: otherwise "storyboard is not rendering".
GenStoryboardText(b) == GensByStoryBoard(b) # {}

GetStoryBoardRender(b) ==
    GenStoryboardText(b) /\ gen[Newest(GensByStoryBoard(b))].filled

-----------------------------------------------------------------------------
RenderingStep(w) ==
    \/ FindGens(w) \/ CreateStoryGen(w) \/ AskModel(w)
    \/ RejectAnswer(w) \/ UpdateStoryGen(w)
    \/ CutOff(w) /\ UNCHANGED rendering

RenderingNext ==
    \/ \E w \in Workers : RenderingStep(w)
    \/ \E w \in Workers, u \in Users, s \in StoryIds :
          \/ RenderStory(w, u, s)
          \/ InitRenderStory(w, u, s)
          \/ \E b \in BoardIds : \/ RenderStoryboard(w, u, s, b)
                               \/ ContinueRenderStory(w, u, s, b)
                               \/ GenStoryboardImages(w, u, s, b)
    \/ \E w \in Workers, u \in Users, r \in RoleIds,
          op \in {"RenderStoryRoleDetail", "RenderStoryRole",
                  "RenderStoryRoleContinuously"} : RenderRole(w, u, op, r)
    \/ \E s \in StoryIds : GetStoryRender(s)
    \/ GenerateRoleDescription \/ GenerateStoryRolePoster

RenderingSpec ==
    RequestsInit /\ RenderingInit /\ [][RenderingNext]_<<requestVars, rendering>>

-----------------------------------------------------------------------------
(* Properties.                                                             *)

GenOps == {"RenderStory", "RenderStoryboard", "InitRenderStory",
           "ContinueRenderStory", "GenStoryboardImages",
           "RenderStoryRoleDetail", "RenderStoryRole", "RenderStoryRoleContinuously"}

RenderingTypeOK ==
    /\ gen \in Seq([op : GenOps, origin : Nat, board : Nat, status : {0, 1},
                    filled : BOOLEAN])
    /\ writes \in [StoryIds -> Nat]
    /\ unsure \subseteq StoryIds

\* The model is asked to write a story once, unless two requests for it were in
\* flight at once or the look-up of an earlier row failed: a row that a failed or
\* interrupted request left empty, or one of a role of the same id, turns every
\* later request away.
StoryIsWrittenOnce ==
    \A s \in StoryIds :
        /\ s \notin unsure => writes[s] <= 1
        /\ AtRest /\ writes[s] > 0 => Rendered(s)

\* No row is ever found for a board, however many there are: a rendering of it is
\* never refused as "storyboard is rendering", and never shown or turned into
\* images afterwards.
BoardRenderIsNeverFound ==
    \A b \in BoardIds : ~ GenStoryboardText(b) /\ ~ GetStoryBoardRender(b)
=============================================================================
