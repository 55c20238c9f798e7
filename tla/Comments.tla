------------------------------ MODULE Comments ------------------------------
(***************************************************************************)
(* Comments on stories and on storyboards, replies to them and likes of     *)
(* them (pkg/comment/comment.go, models/comment.go), with the counts kept   *)
(* in the comment rows and in the row that is commented on.                 *)
(***************************************************************************)
EXTENDS Requests, Sequences, FiniteSets

CONSTANT Subjects   \* the stories and boards that are commented on

VARIABLES
    comment,    \* the comment rows in the order of their ids
    liking,     \* the comment_like rows: user, comment and id
    commented   \* the comment count in the row of each subject

comments == <<comment, liking, commented>>

-----------------------------------------------------------------------------
CommentsInit ==
    /\ comment = <<>>
    /\ liking = {}
    /\ commented = [x \in Subjects |-> 0]

\* root and pre are 0 in a comment that replies to none.
Row(x, root, pre) ==
    [on |-> x, root |-> root, pre |-> pre, live |-> TRUE, likes |-> 0,
     replies |-> 0]

\* Every query and every UPDATE asks for rows that are not deleted.
Live(c) == c \in DOMAIN comment /\ comment[c].live

LivePlus(c, count, n) ==
    comment' = IF Live(c) THEN [comment EXCEPT ![c][count] = @ + n] ELSE comment

-----------------------------------------------------------------------------
(* Comments: CreateStoryComment and CreateStoryBoardComment.               *)

CreateComment(w, u, x) ==
    /\ Begins(w, u, "CreateComment", x, "GetSubject", None)
    /\ comment' = Append(comment, Row(x, 0, 0))
    /\ UNCHANGED <<liking, commented>>

\* A handler of pkg/story that changes another count of the same row.
ChangeSubject(w, u, x) ==
    /\ Begins(w, u, "ChangeSubject", x, "GetSubject", None)
    /\ UNCHANGED comments

GetSubject(w) ==
    /\ worker[w].pc = "GetSubject"
    /\ GoesWith(w, "SaveSubject", commented[worker[w].on])
    /\ UNCHANGED comments

Added(op) == IF op = "CreateComment" THEN 1 ELSE 0

\* UpdateStory and UpdateStoryboard write the columns that are not zero.
SaveSubject(w) ==
    LET n == worker[w].got + Added(worker[w].op)
    IN  /\ worker[w].pc = "SaveSubject"
        /\ commented' = [commented EXCEPT ![worker[w].on] = IF n = 0 THEN @ ELSE n]
        /\ Ends(w)
        /\ UNCHANGED <<comment, liking>>

\* DeleteStoryComment; DeleteStoryBoardComment takes one off the count of a row
\* that it does not save.
DeleteComment(c) ==
    /\ Live(c)
    /\ Serves
    /\ comment' = [comment EXCEPT ![c].live = FALSE]
    /\ UNCHANGED <<liking, commented>>

-----------------------------------------------------------------------------
(* Replies.                                                                *)

CreateStoryCommentReply(w, u, c) ==
    /\ Live(c)
    /\ Begins(w, u, "Reply", c, "InsertReply", comment[c])
    /\ UNCHANGED comments

\* The comment replied to may be deleted by now.
InsertReply(w) ==
    LET c == worker[w].on
        to == worker[w].got
    IN  /\ worker[w].pc = "InsertReply"
        /\ comment' = Append(comment, Row(to.on, IF to.root = 0 THEN c ELSE to.root, c))
        /\ Goes(w, "IncreaseReplyCount")
        /\ UNCHANGED <<liking, commented>>

IncreaseReplyCount(w) ==
    /\ worker[w].pc = "IncreaseReplyCount"
    /\ \/ Goes(w, "idle") /\ LivePlus(worker[w].on, "replies", 1)
       \/ Logs(w, "idle") /\ UNCHANGED comment
    /\ UNCHANGED <<liking, commented>>

DeleteStoryCommentReply(w, u, c) ==
    /\ Live(c)
    /\ comment[c].pre # 0
    /\ Begins(w, u, "DeleteReply", c, "FindReply", None)
    /\ comment' = [comment EXCEPT ![c].live = FALSE]
    /\ UNCHANGED <<liking, commented>>

\* Mutant of Readable: the deleted row is found.
ReadsAny(c) == c \in DOMAIN comment

Readable(c) == Live(c)

\* GetComment of the deleted reply: DecreaseReplyCount is called if it is found.
FindReply(w) ==
    LET c == worker[w].on
    IN  /\ worker[w].pc = "FindReply"
        /\ IF Readable(c) THEN LivePlus(comment[c].root, "replies", -1)
           ELSE UNCHANGED comment
        /\ Ends(w)
        /\ UNCHANGED <<liking, commented>>

-----------------------------------------------------------------------------
(* Likes of comments.                                                      *)

\* Nothing looks for an earlier like of the user; the row gets an id of its own.
LikeComment(w, u, c) ==
    /\ c \in DOMAIN comment
    /\ Begins(w, u, "LikeComment", c, "CountLike", None)
    /\ liking' = liking \cup {[user |-> u, on |-> c, id |-> served]}
    /\ UNCHANGED <<comment, commented>>

LikesOf(u, c) == {l \in liking : l.user = u /\ l.on = c}

First(likes) == CHOOSE l \in likes : \A other \in likes : l.id <= other.id

DislikeComment(w, u, c) ==
    /\ LikesOf(u, c) # {}
    /\ Begins(w, u, "DislikeComment", c, "DeleteLike", First(LikesOf(u, c)))
    /\ UNCHANGED comments

\* A row that is gone already is no error.
DeleteLike(w) ==
    /\ worker[w].pc = "DeleteLike"
    /\ liking' = liking \ {worker[w].got}
    /\ Goes(w, "CountLike")
    /\ UNCHANGED <<comment, commented>>

CountLike(w) ==
    /\ worker[w].pc = "CountLike"
    /\ LivePlus(worker[w].on, "likes",
                IF worker[w].op = "LikeComment" THEN 1 ELSE -1)
    /\ Ends(w)
    /\ UNCHANGED <<liking, commented>>

-----------------------------------------------------------------------------
CommentsStep(w) ==
    \/ GetSubject(w) \/ SaveSubject(w)
    \/ InsertReply(w) \/ IncreaseReplyCount(w) \/ FindReply(w)
    \/ DeleteLike(w) \/ CountLike(w)
    \/ CutOff(w) /\ UNCHANGED comments

CommentsNext ==
    \/ \E w \in Workers : CommentsStep(w)
    \/ \E w \in Workers, u \in Users, x \in Subjects :
          CreateComment(w, u, x) \/ ChangeSubject(w, u, x)
    \/ \E w \in Workers, u \in Users, c \in DOMAIN comment :
          \/ CreateStoryCommentReply(w, u, c) \/ DeleteStoryCommentReply(w, u, c)
          \/ LikeComment(w, u, c) \/ DislikeComment(w, u, c)
    \/ \E c \in DOMAIN comment : DeleteComment(c)

CommentsSpec ==
    RequestsInit /\ CommentsInit /\ [][CommentsNext]_<<requestVars, comments>>

-----------------------------------------------------------------------------
(* Properties.                                                             *)

CommentsTypeOK ==
    /\ comment \in Seq([on : Subjects, root : Nat, pre : Nat, live : BOOLEAN,
                        likes : Int, replies : Nat])
    /\ \A l \in liking : l.user \in Users /\ l.on \in DOMAIN comment
    /\ commented \in [Subjects -> Nat]

\* While no call fails, a comment that is not deleted counts every reply ever
\* made to it, those that were deleted since included: the reply is read after
\* it was deleted, so nothing is taken off.  While no user sends a request
\* before the last was answered it also counts the like rows that point at it.
\* The count of a story or board, saved with rows read earlier, may lose
\* comments, but never exceeds those made on it, replies aside.
CommentCountsAgree ==
    /\ AtRest /\ faults = 0 => \A c \in DOMAIN comment : Live(c) =>
          /\ comment[c].replies = Cardinality({d \in DOMAIN comment : comment[d].pre = c})
          /\ ~ overlapped =>
                comment[c].likes = Cardinality({l \in liking : l.on = c})
    /\ \A x \in Subjects :
          commented[x] <= Cardinality({c \in DOMAIN comment :
                                          comment[c].on = x /\ comment[c].pre = 0})
=============================================================================
