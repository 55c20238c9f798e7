------------------------------- MODULE Edits -------------------------------
(***************************************************************************)
(* The edits of users, groups, roles, boards, projects and items            *)
(* (pkg/user/user.go, pkg/group/group.go, pkg/story/storyrole.go,           *)
(* pkg/story/storyboard.go, pkg/project/project.go, pkg/item/item.go).      *)
(*                                                                          *)
(* An edit is an UPDATE of the columns that were given, for one row; or, as *)
(* its condition is given after it has run, for every row of the table; or   *)
(* it saves the whole row that was read before, as far as it is not zero.   *)
(***************************************************************************)
EXTENDS Requests

CONSTANT RowIds   \* the ids of the rows, all of user 1

ASSUME EditsAssumption == RowIds \subseteq Nat \ {0}

VARIABLES
    editing,     \* the table that is edited
    row,         \* its rows
    missing,     \* users whose registration stopped before the profile
    liked,       \* boards that somebody likes
    wanted,      \* the row that the edits which name it ask for
    disturbed    \* what another request may have changed, see Disturb

edits == <<editing, row, missing, liked, wanted, disturbed>>

-----------------------------------------------------------------------------
(* Handlers.  by: "anyone" and "creator" always find a user who may edit;   *)
(* "id" compares the creator's id with the id of the row.                   *)

Edit(t, columns, by, every) == [table |-> t, columns |-> columns, by |-> by, every |-> every]

Alters(t, columns) == Edit(t, columns, "anyone", FALSE)
AltersOwn(t, columns) == Edit(t, columns, "creator", FALSE)
AltersIfSameId(t, columns) == Edit(t, columns, "id", FALSE)
AltersEvery(t, columns) == Edit(t, columns, "anyone", TRUE)

UpdateAvator == Alters("user", {"avatar"})
UpdateUser == AltersEvery("user", {"avatar"})        \* the row has no id
UpdateUserInfo == AltersEvery("user", {"avatar", "name"})
UpdateGroupInfo == Alters("group", {"name", "short_desc", "avatar"})   \* never the status
UpdateGroupProfile == Alters("group", {"desc"})
UpdateStoryRoleDetail == Alters("role", {"description", "avatar", "prompt"})
UpdateStoryRole == Alters("role", {"name", "description", "avatar", "prompt"})
UpdateStoryRoleAvator == Alters("role", {"avatar"})  \* the check only prints
UpdateStoryRoleDescriptionDetail == AltersOwn("role", {"detail"})
UpdateRoleDescription == AltersOwn("role", {"description"})
UpdateStoryRolePrompt == AltersIfSameId("role", {"prompt"})
UpdateRolePrompt == AltersOwn("role", {"prompt"})
UpdateStoryRolePoster == AltersOwn("role", {"poster_url"})
UpdateStoryboard == AltersIfSameId("board", {"params"})
PublishStoryboard == Alters("board", {"stage"})
UpdateItem == AltersEvery("item", {"visable"})       \* whatever was given
DeleteItem == Alters("item", {})                     \* the column "delete = ? "
UpdateProject == Alters("project", {})
DeleteProject == Alters("project", {})               \* writes deleted = false

Edits ==
    {UpdateAvator, UpdateUser, UpdateGroupInfo, UpdateGroupProfile,
     UpdateStoryRoleDetail, UpdateStoryRole, UpdateStoryRoleAvator,
     UpdateStoryRoleDescriptionDetail, UpdateRoleDescription,
     UpdateStoryRolePrompt, UpdateRolePrompt, UpdateStoryRolePoster,
     UpdateStoryboard, PublishStoryboard, UpdateItem, DeleteItem,
     UpdateProject, DeleteProject}

EditedTables == {e.table : e \in Edits}

\* user_id, background and created_board_num are columns of the user's profile.
ProfileColumns == {"user_id", "background", "created_board_num"}
BoardColumns == {"params", "stage", "like_num", "comment_num"}

Columns(t) ==
    CASE t = "user" -> {"avatar", "name"} \cup ProfileColumns
      [] t = "board" -> BoardColumns
      [] t = "item" -> {"visable", "deleted"}
      [] t = "project" -> {"name", "deleted"}
      [] OTHER -> UNION {e.columns : e \in {d \in Edits : d.table = t}}

\* A value stands for the edit that wrote it, 0 for an empty column.
NewRow(t, i) == [c \in Columns(t) |-> IF c = "user_id" THEN i ELSE 0]

EditsInit ==
    /\ editing \in EditedTables
    /\ row = [i \in RowIds |-> NewRow(editing, i)]
    /\ missing \in (IF editing = "user" THEN {{}} \cup {{i} : i \in RowIds} ELSE {{}})
    /\ liked = {}
    /\ wanted = row
    /\ disturbed = {}

-----------------------------------------------------------------------------
\* Another request holds row i as it read it, and will save it.
Held(w, i) == \E v \in Busy \ {w} : worker[v].pc = "SaveRow" /\ worker[v].got.id = i

SavedColumns == IF editing = "user" THEN ProfileColumns ELSE BoardColumns

\* An edit of columns cs of the row i also writes the rows in others, and may be
\* undone by a request that holds the row: only then is it not what was wanted.
Disturb(w, i, cs, others) ==
    disturbed' = (disturbed \ ({i} \X cs)) \cup (others \X cs)
                 \cup (IF Held(w, i) THEN {i} \X (cs \cap SavedColumns) ELSE {})

With(r, cs, v) == [c \in DOMAIN r |-> IF c \in cs THEN v ELSE r[c]]

\* Mutant of Hits: the condition of every UPDATE is given after it has run.
HitsEvery(e, i) == RowIds

Hits(e, i) == IF e.every THEN RowIds ELSE {i}

CreatorOf(i) == 1

\* Updates(map) of the columns that were given.
Update(w, e, i, given, v) ==
    /\ row' = [j \in RowIds |-> IF j \in Hits(e, i) THEN With(row[j], given, v) ELSE row[j]]
    /\ wanted' = [wanted EXCEPT ![i] = With(@, given, v)]
    /\ Disturb(w, i, given, IF e.every THEN RowIds \ {i} ELSE {})
    /\ UNCHANGED <<editing, missing, liked>>

Some(cs) == {{c} : c \in cs} \cup {cs}

Alter(e, i, given) ==
    /\ e.table = editing
    /\ e.by = "id" => CreatorOf(i) = i
    /\ Serves
    /\ Update(None, e, i, given, served + 1)

-----------------------------------------------------------------------------
(* Whole rows.                                                             *)

\* GetByUserId: a user without a profile gets a row whose id is 0.
Profiles(u) == {i \in RowIds \ missing : row[i].user_id = u}

Read(id) == [id |-> id, image |-> IF id = 0 THEN NewRow(editing, 0) ELSE row[id]]

ProfileOf(u) ==
    IF Profiles(u) = {}
    THEN [Read(0) EXCEPT !.image.user_id = u]
    ELSE Read(CHOOSE i \in Profiles(u) : \A j \in Profiles(u) : i <= j)

\* What the request sets in the image it holds.
Sets(w) == worker[w].on

UpdateUserBackgroundImage(w, u) ==
    /\ editing = "user"
    /\ Begins(w, None, "UpdateUserBackgroundImage",
              [column |-> "background", value |-> served + 1], "SaveRow", ProfileOf(u))
    /\ UNCHANGED edits

\* The background first, then the columns of the users table.
UpdateUserProfile(w, u, given) ==
    /\ editing = "user"
    /\ Begins(w, None, "UpdateUserProfile",
              [column |-> "background", value |-> served + 1, user |-> u,
               given |-> given \ {"background"}],
              IF "background" \in given THEN "SaveRow" ELSE "UpdateUserInfo", ProfileOf(u))
    /\ UNCHANGED edits

\* The database adds to the rows that name the user.
IncrementCreatedBoardNum(u) ==
    /\ editing = "user"
    /\ Serves
    /\ row' = [i \in RowIds |-> IF i \in Profiles(u)
                                THEN [row[i] EXCEPT !.created_board_num = @ + 1] ELSE row[i]]
    /\ wanted' = [i \in RowIds |-> IF i \in Profiles(u)
                                   THEN [wanted[i] EXCEPT !.created_board_num = @ + 1]
                                   ELSE wanted[i]]
    /\ disturbed' = disturbed \cup ({i \in Profiles(u) : Held(None, i)} \X {"created_board_num"})
    /\ UNCHANGED <<editing, missing, liked>>

\* The like is inserted, or found, after the board was read.
LikeStoryboard(w, i) ==
    /\ editing = "board"
    /\ Begins(w, None, "LikeStoryboard", [column |-> "like_num", value |-> 1], "SaveRow", Read(i))
    /\ liked' = liked \cup {i}
    /\ UNCHANGED <<editing, row, missing, wanted, disturbed>>

\* Deleting one like item marks all of them.
UnLikeStoryboard(w, i) ==
    /\ i \in liked
    /\ Begins(w, None, "UnLikeStoryboard", [column |-> "like_num", value |-> -1], "SaveRow", Read(i))
    /\ liked' = {}
    /\ UNCHANGED <<editing, row, missing, wanted, disturbed>>

CreateStoryBoardComment(w, i) ==
    /\ editing = "board"
    /\ Begins(w, None, "CreateStoryBoardComment", [column |-> "comment_num", value |-> 1],
              "SaveRow", Read(i))
    /\ UNCHANGED edits

\* Updates(struct) skips what is zero: it writes every other column as it was
\* read, and without an id every row that is there.
SaveRow(w) ==
    LET id == worker[w].got.id
        set == Sets(w)
        counts == editing = "board"
        old == worker[w].got.image[set.column]
        image == [worker[w].got.image EXCEPT ![set.column] =
                     IF counts THEN old + set.value ELSE set.value]
        rows == IF id = 0 THEN RowIds \ missing ELSE {id}
        written == {c \in SavedColumns : image[c] # 0}
    IN  /\ worker[w].pc = "SaveRow"
        /\ Goes(w, IF worker[w].op = "UpdateUserProfile" THEN "UpdateUserInfo" ELSE "idle")
        /\ row' = [i \in RowIds |->
                      IF i \in rows
                      THEN [c \in Columns(editing) |-> IF c \in written THEN image[c] ELSE row[i][c]]
                      ELSE row[i]]
        /\ IF id = 0 THEN /\ disturbed' = disturbed \cup (rows \X written)
                          /\ UNCHANGED wanted
           ELSE IF counts
           THEN /\ wanted' = [wanted EXCEPT ![id][set.column] = @ + set.value]
                /\ disturbed' = IF Held(w, id) \/ set.column \notin written
                                THEN disturbed \cup {<<id, set.column>>} ELSE disturbed
           ELSE /\ wanted' = [wanted EXCEPT ![id][set.column] = set.value]
                /\ Disturb(w, id, {set.column}, {})
        /\ UNCHANGED <<editing, missing, liked>>

\* Fails as a whole when a description is given: there is no such column.
UpdateUserInfoOfAll(w) ==
    /\ worker[w].pc = "UpdateUserInfo"
    /\ Ends(w)
    /\ Update(w, UpdateUserInfo, Sets(w).user, Sets(w).given, Sets(w).value)

-----------------------------------------------------------------------------
EditsStep(w) ==
    \/ SaveRow(w) \/ UpdateUserInfoOfAll(w)
    \/ CutOff(w) /\ UNCHANGED edits

EditsNext ==
    \/ \E w \in Workers : EditsStep(w)
    \/ \E e \in Edits, i \in RowIds : \E given \in Some(e.columns) : Alter(e, i, given)
    \/ \E i \in RowIds : IncrementCreatedBoardNum(i)
    \/ \E w \in Workers, i \in RowIds :
          \/ UpdateUserBackgroundImage(w, i)
          \/ \E given \in {{"background"}, {"name"}, {"background", "name"}} :
                UpdateUserProfile(w, i, given)
          \/ LikeStoryboard(w, i)
          \/ UnLikeStoryboard(w, i)
          \/ CreateStoryBoardComment(w, i)

EditsSpec == RequestsInit /\ EditsInit /\ [][EditsNext]_<<requestVars, edits>>

-----------------------------------------------------------------------------
(* Properties.                                                             *)

EditsTypeOK ==
    /\ editing \in EditedTables
    /\ row \in [RowIds -> [Columns(editing) -> Int]]
    /\ wanted \in [RowIds -> [Columns(editing) -> Int]]
    /\ missing \subseteq RowIds /\ liked \subseteq RowIds
    /\ disturbed \subseteq RowIds \X Columns(editing)

\* A column holds what the last edit of its row asked for, unless a request that
\* had read the row before saved it afterwards, or an edit of another row was
\* written to every row; a role or a group keeps every edit.  A profile stays
\* its user's while every user has one.
EditsStandUnlessDisturbed ==
    /\ \A i \in RowIds, c \in Columns(editing) :
          <<i, c>> \notin disturbed => row[i][c] = wanted[i][c]
    /\ editing \in {"role", "group"} => disturbed = {}
    /\ editing = "user" /\ missing = {} => \A i \in RowIds : row[i].user_id = i
=============================================================================
