------------------------------ MODULE Audience ------------------------------
(***************************************************************************)
(* Who watches and likes stories and their roles (pkg/story/story.go,       *)
(* pkg/story/storyrole.go): the watch and like items of models/like.go, and *)
(* the counts kept beside them in story rows, role rows and user profiles.  *)
(*                                                                          *)
(* The counts of a story are computed from a row read earlier, and          *)
(* models.UpdateStory saves every non-zero column of that row; the counts   *)
(* of roles and profiles are increased by the database.                     *)
(***************************************************************************)
EXTENDS Requests, FiniteSets

CONSTANTS
    Stories,   \* the story ids
    Roles,     \* the role ids
    RoleStory  \* the story of each role

ASSUME AudienceAssumption ==
    /\ RoleStory \in [Roles -> Stories]
    /\ None \notin Stories \cup Roles
    /\ Stories \cap Roles = {}

VARIABLES
    story,    \* the story rows
    role,     \* the story_role rows
    watch,    \* the watch items that are not deleted; equal rows are one
    like,     \* the like items that are not deleted; equal rows are one
    profile,  \* the counters of each user_profile row
    stories,  \* the story count of the stories' group profile
    asked,    \* for each story, the requests that counted a follower or a like
    astray    \* how often the counts of an unfollow were taken down, of a role
              \* and of a user, although the user went on following the role

audience == <<story, role, watch, like, profile, stories, asked, astray>>

-----------------------------------------------------------------------------
\* creator None marks a row that was not inserted yet.
NoStory == [creator |-> None, status |-> 0, closed |-> FALSE, follow |-> 0,
            like |-> 0]

NoRole == [creator |-> None, follow |-> 0, like |-> 0]

\* WatchItem and LikeItem: role None for an item of the story itself, which
\* also has another item type.
Item(u, s, r) == [user |-> u, story |-> s, role |-> r]

NoCounts == [createdStories |-> 0, watchingStories |-> 0, watchingRoles |-> 0,
             likedStories |-> 0, likedRoles |-> 0]

AudienceInit ==
    /\ story = [s \in Stories |-> NoStory]
    /\ role = [r \in Roles |-> NoRole]
    /\ watch = {}
    /\ like = {}
    /\ profile = [u \in Users |-> NoCounts]
    /\ stories = 0
    /\ asked = [s \in Stories |-> [follow |-> 0, like |-> 0]]
    /\ astray = [role |-> [r \in Roles |-> 0], user |-> [u \in Users |-> 0]]

Written == {s \in Stories : story[s].creator # None}

Cast == {r \in Roles : role[r].creator # None}

\* Some item of the user and the story, one of a role included.
AnyOf(items, u, s) == \E i \in items : i.user = u /\ i.story = s

\* Mutant of NonZero: Save, which writes zero values too.
EveryColumn(new, old, zero) == new

\* Updates(struct) leaves a column as it is when the value to write is zero.
NonZero(new, old, zero) == IF new = zero THEN old ELSE new

UpdateStoryRow(s, image) ==
    story' = [story EXCEPT
                ![s].status = NonZero(image.status, @, 0),
                ![s].closed = NonZero(image.closed, @, FALSE),
                ![s].follow = NonZero(image.follow, @, 0),
                ![s].like = NonZero(image.like, @, 0)]

Counted(u, counter, n) == profile' = [profile EXCEPT ![u][counter] = @ + n]

-----------------------------------------------------------------------------
(* Stories.                                                                *)

\* The row counts its creator as a follower and as one who likes it.  The
\* calls after the insertion only log their errors.
CreateStory(w, u, s) ==
    /\ story[s] = NoStory
    /\ Takes(w, u, "CreateStory", s, "IncGroupProfileStoryCount", None)
    /\ story' = [story EXCEPT ![s] = [creator |-> u, status |-> 1,
                                      closed |-> FALSE, follow |-> 1, like |-> 1]]
    /\ UNCHANGED <<served, role, watch, like, profile, stories, asked, astray>>

IncGroupProfileStoryCount(w) ==
    /\ worker[w].pc = "IncGroupProfileStoryCount"
    /\ \/ Goes(w, "IncrementCreatedStoryNum") /\ stories' = stories + 1
       \/ Logs(w, "IncrementCreatedStoryNum") /\ UNCHANGED stories
    /\ UNCHANGED <<story, role, watch, like, profile, asked, astray>>

IncrementCreatedStoryNum(w) ==
    /\ worker[w].pc = "IncrementCreatedStoryNum"
    /\ \/ /\ Goes(w, "IncrementWatchingStoryNum")
          /\ Counted(worker[w].user, "createdStories", 1)
       \/ Logs(w, "IncrementWatchingStoryNum") /\ UNCHANGED profile
    /\ UNCHANGED <<story, role, watch, like, stories, asked, astray>>

\* Called before the item is made when a story is created, and after it when
\* a story is watched.
IncrementWatchingStoryNum(w) ==
    LET next == IF worker[w].op = "CreateStory" THEN "CountWatches" ELSE "idle"
    IN  /\ worker[w].pc = "IncrementWatchingStoryNum"
        /\ \/ /\ Goes(w, next)
              /\ Counted(worker[w].user, "watchingStories", 1)
           \/ Logs(w, next) /\ UNCHANGED profile
        /\ UNCHANGED <<story, role, watch, like, stories, asked, astray>>

\* CreateWatchStoryItem: an item of a role of the story counts as well.
CountWatches(w) ==
    LET done == IF worker[w].op = "CreateStory" THEN "idle"
                ELSE "IncrementWatchingStoryNum"
    IN  /\ worker[w].pc = "CountWatches"
        /\ Goes(w, IF AnyOf(watch, worker[w].user, worker[w].on) THEN done
                   ELSE "InsertWatch")
        /\ UNCHANGED audience

InsertWatch(w) ==
    LET done == IF worker[w].op = "CreateStory" THEN "idle"
                ELSE "IncrementWatchingStoryNum"
    IN  /\ worker[w].pc = "InsertWatch"
        /\ watch' = watch \cup {Item(worker[w].user, worker[w].on, None)}
        /\ Goes(w, done)
        /\ UNCHANGED <<story, role, like, profile, stories, asked, astray>>

\* The columns of a map are written as they are; nothing sets is_close back.
UpdateStory(s, status, closes) ==
    /\ s \in Written
    /\ Serves
    /\ story' = [story EXCEPT ![s].status = NonZero(status, @, 0),
                              ![s].closed = @ \/ closes]
    /\ UNCHANGED <<role, watch, like, profile, stories, asked, astray>>

WatchStory(w, u, s) ==
    /\ s \in Written
    /\ story[s].status # -1
    /\ Begins(w, u, "WatchStory", s, "CountFollower", story[s])
    /\ UNCHANGED audience

\* The follower is counted before the handler looks for an earlier watch.
CountFollower(w) ==
    LET s == worker[w].on
    IN  /\ worker[w].pc = "CountFollower"
        /\ story' = [story EXCEPT ![s].follow = worker[w].got.follow + 1]
        /\ asked' = [asked EXCEPT ![s].follow = @ + 1]
        /\ Goes(w, "GetWatchItemByStoryAndUser")
        /\ UNCHANGED <<role, watch, like, profile, stories, astray>>

GetWatchItemByStoryAndUser(w) ==
    /\ worker[w].pc = "GetWatchItemByStoryAndUser"
    /\ Goes(w, IF Item(worker[w].user, worker[w].on, None) \in watch
               THEN "idle" ELSE "CountWatches")
    /\ UNCHANGED audience

-----------------------------------------------------------------------------
(* Likes of stories.                                                       *)

LikeStory(w, u, s) ==
    /\ s \in Written
    /\ Item(u, s, None) \notin like
    /\ Begins(w, u, "LikeStory", s, "CreateLikeStoryItem", None)
    /\ UNCHANGED audience

\* Counted and inserted at once: items are only added, and equal ones are one.
CreateLikeStoryItem(w) ==
    LET u == worker[w].user
        s == worker[w].on
    IN  /\ worker[w].pc = "CreateLikeStoryItem"
        /\ like' = IF AnyOf(like, u, s) THEN like
                   ELSE like \cup {Item(u, s, None)}
        /\ Goes(w, "GetStory")
        /\ UNCHANGED <<story, role, watch, profile, stories, asked, astray>>

UnLikeStory(w, u, s) ==
    /\ s \in Written
    /\ Item(u, s, None) \in like
    /\ Begins(w, u, "UnLikeStory", s, "GetStory", None)
    /\ UNCHANGED audience

GetStory(w) ==
    /\ worker[w].pc = "GetStory"
    /\ GoesWith(w, "SaveStory", story[worker[w].on])
    /\ UNCHANGED audience

SaveStory(w) ==
    LET s == worker[w].on
        n == IF worker[w].op = "LikeStory" THEN 1 ELSE -1
    IN  /\ worker[w].pc = "SaveStory"
        /\ UpdateStoryRow(s, [worker[w].got EXCEPT !.like = @ + n])
        /\ asked' = IF n = 1 THEN [asked EXCEPT ![s].like = @ + 1] ELSE asked
        /\ Goes(w, IF n = 1 THEN "CountLikedStory" ELSE "DeleteLikeItem")
        /\ UNCHANGED <<role, watch, like, profile, stories, astray>>

\* The condition is given after the UPDATE has run: it hits every item.
DeleteLikeItem(w) ==
    /\ worker[w].pc = "DeleteLikeItem"
    /\ like' = {}
    /\ Goes(w, "CountLikedStory")
    /\ UNCHANGED <<story, role, watch, profile, stories, asked, astray>>

CountLikedStory(w) ==
    /\ worker[w].pc = "CountLikedStory"
    /\ \/ /\ Goes(w, "idle")
          /\ Counted(worker[w].user, "likedStories",
                     IF worker[w].op = "LikeStory" THEN 1 ELSE -1)
       \/ Logs(w, "idle") /\ UNCHANGED profile
    /\ UNCHANGED <<story, role, watch, like, stories, asked, astray>>

-----------------------------------------------------------------------------
(* Roles.                                                                  *)

\* The story id that a client sends along with a role: nothing compares it with
\* the story of the role, and it may be left out (None).
NamedStories == Stories \cup {None}

\* A role of that name is looked for; the row counts its creator as a follower.
CreateStoryRole(w, u, r) ==
    /\ RoleStory[r] \in Written
    /\ story[RoleStory[r]].status # -1
    /\ role[r] = NoRole
    /\ Takes(w, u, "CreateStoryRole", r, "InsertRole", RoleStory[r])
    /\ UNCHANGED <<served, audience>>

\* Of two requests that found no role of that name both insert one: the second
\* is another row, which no request here is about.
InsertRole(w) ==
    LET r == worker[w].on
    IN  /\ worker[w].pc = "InsertRole"
        /\ IF role[r] = NoRole
           THEN /\ role' = [role EXCEPT ![r] = [creator |-> worker[w].user,
                                                follow |-> 1, like |-> 1]]
                /\ Goes(w, "CountRoleWatches")
           ELSE Ends(w) /\ UNCHANGED role
        /\ UNCHANGED <<story, watch, like, profile, stories, asked, astray>>

\* The items of the role count whatever story they name.
Followers(r) == {u \in Users : \E i \in watch : i.user = u /\ i.role = r}

\* Mutant of Follows: an earlier watch is not looked for.
NeverFollows(u, r) == FALSE

Follows(u, r) == u \in Followers(r)

\* CreateWatchRoleItem looks for an item of the role's creator.
CountRoleWatches(w) ==
    /\ worker[w].pc = "CountRoleWatches"
    /\ Goes(w, IF Follows(worker[w].user, worker[w].on) THEN "idle" ELSE "WatchRole")
    /\ UNCHANGED audience

\* The item names the story that the request does.
WatchStoryRole(w) ==
    /\ worker[w].pc = "WatchRole"
    /\ watch' = watch \cup {Item(worker[w].user, worker[w].got, worker[w].on)}
    /\ Goes(w, IF worker[w].op = "CreateStoryRole" THEN "idle" ELSE "CountRole")
    /\ UNCHANGED <<story, role, like, profile, stories, asked, astray>>

FollowStoryRole(w, u, s, r) ==
    /\ r \in Cast
    /\ ~ Follows(u, r)
    /\ Begins(w, u, "FollowStoryRole", r, "WatchRole", s)
    /\ UNCHANGED audience

UnFollowStoryRole(w, u, s, r) ==
    /\ r \in Cast
    /\ Follows(u, r)
    /\ Begins(w, u, "UnFollowStoryRole", r, "UnWatchRole", s)
    /\ UNCHANGED audience

\* The user, the story and the role must match: nothing is deleted when the
\* request names another story than the item.  That is no error, and an error
\* is overwritten by the next call's: the counts are taken down all the same.
UnWatchStoryRole(w) ==
    /\ worker[w].pc = "UnWatchRole"
    /\ \/ /\ watch' = watch \ {Item(worker[w].user, worker[w].got, worker[w].on)}
          /\ Goes(w, "CountRole")
       \/ Logs(w, "CountRole") /\ UNCHANGED watch
    /\ UNCHANGED <<story, role, like, profile, stories, asked, astray>>

\* Nothing looks for an earlier like.
LikeStoryRole(w, u, s, r) ==
    /\ r \in Cast
    /\ Begins(w, u, "LikeStoryRole", r, "CountRole", s)
    /\ like' = like \cup {Item(u, s, r)}
    /\ UNCHANGED <<story, role, watch, profile, stories, asked, astray>>

\* Nothing looks whether an item was there.
UnLikeStoryRole(w, u, s, r) ==
    /\ r \in Cast
    /\ Begins(w, u, "UnLikeStoryRole", r, "CountRole", s)
    /\ like' = like \ {Item(u, s, r)}
    /\ UNCHANGED <<story, role, watch, profile, stories, asked, astray>>

\* What each request adds to the counts of a role and of a profile.
Change(op) ==
    CASE op = "FollowStoryRole"   -> <<"follow", "watchingRoles", 1>>
      [] op = "UnFollowStoryRole" -> <<"follow", "watchingRoles", -1>>
      [] op = "LikeStoryRole"     -> <<"like", "likedRoles", 1>>
      [] op = "UnLikeStoryRole"   -> <<"like", "likedRoles", -1>>

\* An unfollow that left its user a follower.
GoesAstray(w) ==
    /\ worker[w].op = "UnFollowStoryRole"
    /\ Follows(worker[w].user, worker[w].on)

CountRole(w) ==
    LET change == Change(worker[w].op)
        r == worker[w].on
    IN  /\ worker[w].pc = "CountRole"
        /\ role' = [role EXCEPT ![r][change[1]] = @ + change[3]]
        /\ astray' = IF GoesAstray(w) THEN [astray EXCEPT !.role[r] = @ + 1] ELSE astray
        /\ Goes(w, "CountProfile")
        /\ UNCHANGED <<story, watch, like, profile, stories, asked>>

CountProfile(w) ==
    LET change == Change(worker[w].op)
        u == worker[w].user
    IN  /\ worker[w].pc = "CountProfile"
        /\ \/ /\ Counted(u, change[2], change[3])
              /\ astray' = IF GoesAstray(w) THEN [astray EXCEPT !.user[u] = @ + 1]
                           ELSE astray
              /\ Goes(w, "idle")
           \/ Logs(w, "idle") /\ UNCHANGED <<profile, astray>>
        /\ UNCHANGED <<story, role, watch, like, stories, asked>>

-----------------------------------------------------------------------------
AudienceStep(w) ==
    \/ IncGroupProfileStoryCount(w) \/ IncrementCreatedStoryNum(w)
    \/ IncrementWatchingStoryNum(w) \/ CountWatches(w) \/ InsertWatch(w)
    \/ CountFollower(w) \/ GetWatchItemByStoryAndUser(w)
    \/ CreateLikeStoryItem(w) \/ GetStory(w) \/ SaveStory(w)
    \/ DeleteLikeItem(w) \/ CountLikedStory(w)
    \/ InsertRole(w) \/ CountRoleWatches(w) \/ WatchStoryRole(w)
    \/ UnWatchStoryRole(w)
    \/ CountRole(w) \/ CountProfile(w)
    \/ CutOff(w) /\ UNCHANGED audience

AudienceNext ==
    \/ \E w \in Workers : AudienceStep(w)
    \/ \E w \in Workers, u \in Users, s \in Stories :
          \/ CreateStory(w, u, s) \/ WatchStory(w, u, s)
          \/ LikeStory(w, u, s) \/ UnLikeStory(w, u, s)
    \/ \E s \in Stories, status \in {-1, 0}, closes \in BOOLEAN :
          UpdateStory(s, status, closes)
    \/ \E w \in Workers, u \in Users, r \in Roles : CreateStoryRole(w, u, r)
    \/ \E w \in Workers, u \in Users, s \in NamedStories, r \in Roles :
          \/ FollowStoryRole(w, u, s, r) \/ UnFollowStoryRole(w, u, s, r)
          \/ LikeStoryRole(w, u, s, r) \/ UnLikeStoryRole(w, u, s, r)

AudienceSpec ==
    RequestsInit /\ AudienceInit /\ [][AudienceNext]_<<requestVars, audience>>

-----------------------------------------------------------------------------
(* Properties.                                                             *)

StoryRows == [creator : Users \cup {None}, status : {-1, 0, 1}, closed : BOOLEAN,
              follow : Nat, like : Int]

RoleRows == [creator : Users \cup {None}, follow : Int, like : Int]

Items == [user : Users, story : NamedStories, role : Roles \cup {None}]

AudienceTypeOK ==
    /\ story \in [Stories -> StoryRows]
    /\ role \in [Roles -> RoleRows]
    /\ watch \subseteq Items /\ like \subseteq Items
    /\ profile \in [Users -> [DOMAIN NoCounts -> Int]]
    /\ stories \in Nat
    /\ asked \in [Stories -> [{"follow", "like"} -> Nat]]
    /\ astray \in [role : [Roles -> Nat], user : [Users -> Nat]]

\* The sum of the integers f[x]: a set with as many pairs as they are above zero,
\* less one with as many as they are below.
Above(f) == UNION {{x} \X (1..f[x]) : x \in DOMAIN f}

Below(f) == Above([x \in DOMAIN f |-> -f[x]])

Summed(f) == Cardinality(Above(f)) - Cardinality(Below(f))

\* While no user sends a request before the last was answered and no call
\* fails, the follower count of a role is the number of its followers less one
\* for each unfollow that left its user a follower, because it named another
\* story than the item, however requests of different users interleave; a
\* profile counts the roles that its user follows, but not those it created,
\* less one for each such unfollow of its own; and the likes of the roles, but
\* for the one that each starts with, are those that the profiles count.
RoleCountsAgree ==
    AtRest /\ Undisturbed =>
        /\ \A r \in Cast :
              role[r].follow = Cardinality(Followers(r)) - astray.role[r]
        /\ \A u \in Users :
              profile[u].watchingRoles =
                  Cardinality({r \in Cast : u \in Followers(r)})
                      - Cardinality({r \in Cast : role[r].creator = u})
                      - astray.user[u]
        /\ Summed([r \in Cast |-> role[r].like - 1]) =
              Summed([u \in Users |-> profile[u].likedRoles])

\* The counts of a story may lose followers and likes, when handlers save what
\* they computed from a row read earlier, but never exceed what was asked for,
\* and never fall below the creator's own: a zero is not written.
StoryCountsStayEarned ==
    \A s \in Written :
        /\ story[s].follow \in 1 .. 1 + asked[s].follow
        /\ story[s].like \in 1 .. 1 + asked[s].like
=============================================================================
