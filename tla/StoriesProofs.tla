--------------------------- MODULE StoriesProofs ----------------------------
(***************************************************************************)
(* Proofs about Audience, Edits, McpService, Scenes and Rendering, for any   *)
(* number of users, stories, roles, boards, scenes, edited rows and requests. *)
(***************************************************************************)
EXTENDS Audience, Edits, McpService, Scenes, Rendering, RequestsProofs, SequenceTheorems

-----------------------------------------------------------------------------
audienceSpecVars == <<requestVars, audience>>

-----------------------------------------------------------------------------
(* Audience: requests and the rows they are about.                         *)

\* Counts of a story that were asked for.
EarnedBy(s, image) ==
    /\ image \in StoryRows
    /\ image.follow \in 1 .. 1 + asked[s].follow
    /\ image.like \in 1 .. 1 + asked[s].like

StoryCalls(op) ==
    CASE op = "CreateStory" -> {"IncGroupProfileStoryCount", "IncrementCreatedStoryNum",
                                "IncrementWatchingStoryNum", "CountWatches", "InsertWatch"}
      [] op = "WatchStory" -> {"CountFollower", "GetWatchItemByStoryAndUser", "CountWatches",
                               "InsertWatch", "IncrementWatchingStoryNum"}
      [] op = "LikeStory" -> {"CreateLikeStoryItem", "GetStory", "SaveStory",
                              "CountLikedStory"}
      [] op = "UnLikeStory" -> {"GetStory", "SaveStory", "DeleteLikeItem", "CountLikedStory"}
      [] OTHER -> {}

RoleCalls(op) ==
    CASE op = "CreateStoryRole" -> {"InsertRole", "CountRoleWatches", "WatchRole"}
      [] op = "FollowStoryRole" -> {"WatchRole", "CountRole", "CountProfile"}
      [] op = "UnFollowStoryRole" -> {"UnWatchRole", "CountRole", "CountProfile"}
      [] op \in {"LikeStoryRole", "UnLikeStoryRole"} -> {"CountRole", "CountProfile"}
      [] OTHER -> {}

\* A request about a story knows one that was written; what it read of the row
\* was earned.
OfAStory(w) ==
    /\ worker[w].on \in Written
    /\ worker[w].pc \in StoryCalls(worker[w].op)
    /\ worker[w].pc \in {"CountFollower", "SaveStory"} => EarnedBy(worker[w].on, worker[w].got)

\* A request about a role, of which it names the story or another.
OfARole(w) ==
    /\ worker[w].on \in Roles
    /\ worker[w].got \in NamedStories
    /\ worker[w].pc \in RoleCalls(worker[w].op)
    /\ worker[w].pc # "InsertRole" => worker[w].on \in Cast

AudienceLocals(w) ==
    worker[w] # Idle => worker[w].user \in Users /\ (OfAStory(w) \/ OfARole(w))

AudienceBase ==
    /\ AudienceTypeOK
    /\ DOMAIN worker = Workers /\ Shaped /\ AloneInv
    /\ faults \in Nat
    /\ \A w \in Workers : AudienceLocals(w)
    /\ \A s \in Written : EarnedBy(s, story[s])

-----------------------------------------------------------------------------
(* Audience: the counts of roles and profiles.                             *)

\* User u's request op about role r makes one of the calls pcs next.
Makes(pcs, op, u, r) ==
    \E w \in Workers : /\ worker[w].pc \in pcs /\ worker[w].op = op
                       /\ worker[w].user = u /\ worker[w].on = r

\* What a request that made a role calls until its creator watches it.
Watching == {"CountRoleWatches", "WatchRole"}

\* A count that requests change on leaving the calls pcs has u and r in it: u
\* follows r and was counted, or no longer does and was not taken off, or made
\* r, which counts u before u watches it.
HasIn(pcs, u, r) ==
    IF u \in Followers(r) THEN ~ Makes(pcs, "FollowStoryRole", u, r)
    ELSE Makes(pcs, "UnFollowStoryRole", u, r) \/ Makes(Watching, "CreateStoryRole", u, r)

RoleTally(r) == {u \in Users : HasIn({"CountRole"}, u, r)}

ProfileTally(u) == {r \in Cast : HasIn({"CountRole", "CountProfile"}, u, r)}

CastBy(u) == {r \in Cast : role[r].creator = u}

\* What a request knows of the watches of its user.
Knows(w) ==
    LET follows == worker[w].user \in Followers(worker[w].on)
        counts == worker[w].pc \in {"CountRole", "CountProfile"}
    IN  /\ worker[w].op = "CreateStoryRole" /\ worker[w].pc \in Watching
              => ~ follows /\ role[worker[w].on].creator = worker[w].user
        /\ worker[w].op = "FollowStoryRole" => (counts <=> follows)
        /\ worker[w].op = "UnFollowStoryRole" /\ worker[w].pc = "UnWatchRole" => follows

\* Requests that have changed the likes of a role and not yet those of a profile.
Halfway(op) == {w \in Workers : worker[w].pc = "CountProfile" /\ worker[w].op = op}

\* What the counts would be if those who went on following were not taken off.
RoleDue(r) == role[r].follow + astray.role[r]

ProfileDue(u) == profile[u].watchingRoles + astray.user[u]

FollowsCounted ==
    /\ \A r \in Roles : /\ IsFiniteSet(RoleTally(r))
                        /\ IF r \in Cast THEN RoleDue(r) = Cardinality(RoleTally(r))
                           ELSE Followers(r) = {} /\ astray.role[r] = 0
    /\ \A u \in Users : /\ IsFiniteSet(ProfileTally(u)) /\ IsFiniteSet(CastBy(u))
                        /\ ProfileDue(u) =
                              Cardinality(ProfileTally(u)) - Cardinality(CastBy(u))

RoleLikes == [r \in Cast |-> role[r].like - 1]

ProfileLikes == [u \in Users |-> profile[u].likedRoles]

\* A sum of finitely many ones.
Adds(f) == IsFiniteSet(Above(f)) /\ IsFiniteSet(Below(f))

LikesCounted ==
    /\ Adds(RoleLikes) /\ Adds(ProfileLikes)
    /\ IsFiniteSet(Halfway("LikeStoryRole")) /\ IsFiniteSet(Halfway("UnLikeStoryRole"))
    /\ Summed(RoleLikes) = Summed(ProfileLikes) + Cardinality(Halfway("LikeStoryRole"))
                              - Cardinality(Halfway("UnLikeStoryRole"))

AudienceInv ==
    /\ AudienceBase
    /\ Undisturbed => /\ \A w \in Workers : Knows(w)
                      /\ FollowsCounted
                      /\ LikesCounted

-----------------------------------------------------------------------------
(* Audience: how requests go on.                                           *)

LEMMA AudienceInitHolds == RequestsInit /\ AudienceInit => AudienceInv
<1> SUFFICES ASSUME RequestsInit, AudienceInit
             PROVE  AudienceInv
  OBVIOUS
<1>1. /\ worker = [w \in Workers |-> Idle] /\ faults = 0 /\ ~ overlapped /\ Busy = {}
      /\ Written = {} /\ Cast = {}
  BY DEF RequestsInit, AudienceInit, Written, Cast, NoStory, NoRole, Busy
<1>2. NoStory \in StoryRows /\ NoRole \in RoleRows
  BY DEF NoStory, NoRole, StoryRows, RoleRows
<1>3. AudienceTypeOK
  <2>1. NoCounts \in [DOMAIN NoCounts -> Int]
    BY DEF NoCounts
  <2> QED
    BY <1>2, <2>1 DEF AudienceInit, AudienceTypeOK
<1>4. DOMAIN worker = Workers /\ Shaped /\ AloneInv
  BY <1>1 DEF Shaped, AloneInv, Alone, Idle
<1>5. AudienceBase
  BY <1>1, <1>3, <1>4 DEF AudienceBase, AudienceLocals
<1>6. \A w \in Workers : Knows(w)
  BY <1>1 DEF Knows, Idle
<1>7. \A r \in Roles : Followers(r) = {}
  BY DEF AudienceInit, Followers
<1>8. \A pcs, op, u, r : "idle" \notin pcs => ~ Makes(pcs, op, u, r)
  BY <1>1 DEF Makes, Idle
<1>9. FollowsCounted
  <2>1. ASSUME NEW r \in Roles
        PROVE  RoleTally(r) = {}
    BY <1>7, <1>8 DEF RoleTally, HasIn, Watching
  <2>2. ASSUME NEW u \in Users
        PROVE  /\ ProfileTally(u) = {} /\ CastBy(u) = {}
               /\ ProfileDue(u) = 0
    <3>1. profile[u].watchingRoles = 0 /\ astray.user[u] = 0
      BY DEF AudienceInit, NoCounts
    <3> QED
      BY <1>1, <3>1 DEF ProfileTally, CastBy, ProfileDue
  <2>3. IsFiniteSet({}) /\ Cardinality({}) = 0
    BY FS_EmptySet
  <2>4. ASSUME NEW u \in Users
        PROVE  ProfileDue(u) = Cardinality(ProfileTally(u)) - Cardinality(CastBy(u))
    <3>1. Cardinality(ProfileTally(u)) = 0 /\ Cardinality(CastBy(u)) = 0
      BY <2>2, <2>3
    <3> QED
      BY <2>2, <3>1
  <2>5. \A r \in Roles : astray.role[r] = 0
    BY DEF AudienceInit
  <2> QED
    BY <1>1, <1>7, <2>1, <2>2, <2>3, <2>4, <2>5 DEF FollowsCounted
<1>10. LikesCounted
  <2>1. Halfway("LikeStoryRole") = {} /\ Halfway("UnLikeStoryRole") = {}
    BY <1>1 DEF Halfway, Idle
  <2>2. Above(RoleLikes) = {} /\ Below(RoleLikes) = {}
    BY <1>1 DEF Above, Below, RoleLikes
  <2>3. \A u \in Users : ProfileLikes[u] = 0
    BY DEF ProfileLikes, AudienceInit, NoCounts
  <2>4. Above(ProfileLikes) = {} /\ Below(ProfileLikes) = {}
    <3>1. DOMAIN ProfileLikes = Users
      BY DEF ProfileLikes
    <3> QED
      BY <2>3, <3>1 DEF Above, Below
  <2> QED
    BY <2>1, <2>2, <2>4, FS_EmptySet DEF LikesCounted, Adds, Summed
<1> QED
  BY <1>5, <1>6, <1>9, <1>10 DEF AudienceInv

\* Rows that are there stay, and what was asked for is not forgotten.
Grows ==
    /\ Written \subseteq Written' /\ Cast \subseteq Cast'
    /\ \A s \in Stories : /\ asked[s].follow <= asked'[s].follow
                          /\ asked[s].like <= asked'[s].like

\* Request w moves, and no other.
MovesAlone(w) ==
    /\ OnlyMoves(w) /\ DOMAIN worker' = Workers /\ Shaped' /\ AloneInv'
    /\ faults' \in Nat
    /\ Undisturbed' => Undisturbed

\* The request goes on to the call pc, knowing got, or returns.
GoesOn(w, pc, got) ==
    /\ MovesAlone(w)
    /\ pc = "idle" => worker'[w] = Idle
    /\ pc # "idle" =>
         worker'[w] = [pc |-> pc, user |-> worker[w].user, op |-> worker[w].op,
                       on |-> worker[w].on, got |-> got]

LEMMA AudienceCall ==
    ASSUME AudienceBase, NEW w \in Workers, worker[w] # Idle, NEW pc, NEW got,
           GoesWith(w, pc, got)
    PROVE  GoesOn(w, pc, got)
<1>1. /\ worker'[w] = After(w, pc, got) /\ OnlyMoves(w) /\ AloneInv'
      /\ DOMAIN worker' = Workers /\ UNCHANGED <<served, faults, overlapped>>
  BY CallMoves DEF AudienceBase
<1>2. /\ Shaped'
      /\ pc = "idle" => worker'[w] = Idle
      /\ pc # "idle" =>
           worker'[w] = [pc |-> pc, user |-> worker[w].user, op |-> worker[w].op,
                         on |-> worker[w].on, got |-> got]
  BY <1>1, CallStaysShaped DEF AudienceBase
<1> QED
  BY <1>1, <1>2 DEF AudienceBase, Undisturbed, GoesOn, MovesAlone

LEMMA AudienceFailure ==
    ASSUME AudienceBase, NEW w \in Workers, worker[w] # Idle, NEW pc, Logs(w, pc)
    PROVE  GoesOn(w, pc, worker[w].got) /\ ~ Undisturbed'
<1>1. /\ worker'[w] = After(w, pc, worker[w].got) /\ OnlyMoves(w) /\ AloneInv'
      /\ DOMAIN worker' = Workers /\ faults' \in Nat /\ ~ Undisturbed'
  BY FailureMoves DEF AudienceBase
<1>2. /\ Shaped'
      /\ pc = "idle" => worker'[w] = Idle
      /\ pc # "idle" =>
           worker'[w] = [pc |-> pc, user |-> worker[w].user, op |-> worker[w].op,
                         on |-> worker[w].on, got |-> worker[w].got]
  BY <1>1, CallStaysShaped DEF AudienceBase
<1> QED
  BY <1>1, <1>2 DEF GoesOn, MovesAlone

LEMMA AudienceArrival ==
    ASSUME AudienceBase, NEW w \in Workers, NEW u \in Users, NEW op, NEW x, NEW pc, NEW got,
           Takes(w, u, op, x, pc, got)
    PROVE  /\ MovesAlone(w) /\ worker[w] = Idle
           /\ worker'[w] = [pc |-> pc, user |-> u, op |-> op, on |-> x, got |-> got]
<1>1. /\ worker[w] = Idle /\ OnlyMoves(w) /\ AloneInv' /\ DOMAIN worker' = Workers
      /\ worker'[w] = [pc |-> pc, user |-> u, op |-> op, on |-> x, got |-> got]
      /\ (Undisturbed' => Undisturbed) /\ UNCHANGED faults
  BY RequestArrives DEF AudienceBase
<1>2. Shaped'
  BY <1>1, RequestIsShaped DEF AudienceBase
<1> QED
  BY <1>1, <1>2 DEF MovesAlone, AudienceBase

\* The requests that do not move know what they knew.
LEMMA OthersStay ==
    ASSUME AudienceBase, NEW w \in Workers, OnlyMoves(w), Grows, AudienceTypeOK'
    PROVE  \A v \in Workers \ {w} : AudienceLocals(v)'
<1> SUFFICES ASSUME NEW v \in Workers \ {w}, worker[v] # Idle
             PROVE  worker'[v].user \in Users /\ (OfAStory(v)' \/ OfARole(v)')
  BY DEF OnlyMoves, AudienceLocals
<1>1. worker'[v] = worker[v]
  BY DEF OnlyMoves
<1>2. worker[v].user \in Users /\ (OfAStory(v) \/ OfARole(v))
  BY DEF AudienceBase, AudienceLocals
<1>3. CASE OfAStory(v)
  <2>1. /\ worker[v].on \in Written /\ worker[v].on \in Written'
        /\ worker[v].pc \in StoryCalls(worker[v].op)
    BY <1>3 DEF OfAStory, Grows
  <2>2. ASSUME worker[v].pc \in {"CountFollower", "SaveStory"}
        PROVE  EarnedBy(worker[v].on, worker[v].got)'
    <3>1. EarnedBy(worker[v].on, worker[v].got)
      BY <1>3, <2>2 DEF OfAStory
    <3>2. PICK s \in Stories, image \in StoryRows : s = worker[v].on /\ image = worker[v].got
      BY <2>1, <3>1 DEF EarnedBy, Written
    <3>3. PICK a \in Nat, b \in Nat, c \in Nat, d \in Nat :
             /\ a = asked[s].follow /\ b = asked[s].like
             /\ c = asked'[s].follow /\ d = asked'[s].like /\ a <= c /\ b <= d
      BY DEF AudienceBase, AudienceTypeOK, Grows
    <3>4. image.follow \in 1 .. 1 + a /\ image.like \in 1 .. 1 + b
      BY <3>1, <3>2, <3>3 DEF EarnedBy
    <3>5. image.follow \in 1 .. 1 + c /\ image.like \in 1 .. 1 + d
      BY <3>3, <3>4
    <3> QED
      BY <1>1, <3>2, <3>3, <3>5 DEF EarnedBy
  <2> QED
    BY <1>1, <1>2, <2>1, <2>2 DEF OfAStory
<1>4. CASE OfARole(v)
  BY <1>1, <1>2, <1>4 DEF OfARole, Grows
<1> QED
  BY <1>2, <1>3, <1>4

LEMMA StepKeepsBase ==
    ASSUME AudienceBase, NEW w \in Workers, MovesAlone(w), Grows, AudienceTypeOK',
           AudienceLocals(w)', \A s \in Written' : EarnedBy(s, story[s])'
    PROVE  AudienceBase'
<1>1. \A v \in Workers \ {w} : AudienceLocals(v)'
  BY OthersStay DEF MovesAlone
<1> QED
  BY <1>1 DEF AudienceBase, MovesAlone

\* The stories keep their rows.
LEMMA RowsStayEarned ==
    ASSUME AudienceBase, UNCHANGED story, Grows, AudienceTypeOK'
    PROVE  \A s \in Written' : EarnedBy(s, story[s])'
<1> SUFFICES ASSUME NEW s \in Stories, s \in Written'
             PROVE  EarnedBy(s, story[s])'
  BY DEF Written
<1>1. EarnedBy(s, story[s])
  BY DEF AudienceBase, Written
<1>2. PICK a \in Nat, b \in Nat, c \in Nat, d \in Nat :
         /\ a = asked[s].follow /\ b = asked[s].like
         /\ c = asked'[s].follow /\ d = asked'[s].like /\ a <= c /\ b <= d
  BY DEF AudienceBase, AudienceTypeOK, Grows
<1>3. story[s].follow \in 1 .. 1 + a /\ story[s].like \in 1 .. 1 + b
  BY <1>1, <1>2 DEF EarnedBy
<1>4. story[s].follow \in 1 .. 1 + c /\ story[s].like \in 1 .. 1 + d
  BY <1>2, <1>3
<1> QED
  BY <1>1, <1>2, <1>4 DEF EarnedBy

\* Which request makes a call.
LEMMA WhoCalls ==
    ASSUME AudienceBase, NEW w \in Workers, worker[w] # Idle
    PROVE  /\ worker[w].user \in Users /\ worker[w].pc # "idle"
           /\ worker[w].pc \in {"IncGroupProfileStoryCount", "IncrementCreatedStoryNum"}
                => OfAStory(w) /\ worker[w].op = "CreateStory"
           /\ worker[w].pc \in {"IncrementWatchingStoryNum", "CountWatches", "InsertWatch"}
                => OfAStory(w) /\ worker[w].op \in {"CreateStory", "WatchStory"}
           /\ worker[w].pc \in {"CountFollower", "GetWatchItemByStoryAndUser"}
                => OfAStory(w) /\ worker[w].op = "WatchStory"
           /\ worker[w].pc = "CreateLikeStoryItem" => OfAStory(w) /\ worker[w].op = "LikeStory"
           /\ worker[w].pc \in {"GetStory", "SaveStory", "CountLikedStory"}
                => OfAStory(w) /\ worker[w].op \in {"LikeStory", "UnLikeStory"}
           /\ worker[w].pc = "DeleteLikeItem" => OfAStory(w) /\ worker[w].op = "UnLikeStory"
           /\ worker[w].pc \in {"InsertRole", "CountRoleWatches"}
                => OfARole(w) /\ worker[w].op = "CreateStoryRole"
           /\ worker[w].pc = "WatchRole"
                => OfARole(w) /\ worker[w].op \in {"CreateStoryRole", "FollowStoryRole"}
           /\ worker[w].pc = "UnWatchRole" => OfARole(w) /\ worker[w].op = "UnFollowStoryRole"
           /\ worker[w].pc \in {"CountRole", "CountProfile"}
                => /\ OfARole(w)
                   /\ worker[w].op \in {"FollowStoryRole", "UnFollowStoryRole",
                                        "LikeStoryRole", "UnLikeStoryRole"}
<1>1. worker[w].user \in Users /\ (OfAStory(w) \/ OfARole(w))
  BY DEF AudienceBase, AudienceLocals
<1>2. CASE OfAStory(w)
  <2>1. worker[w].pc \in StoryCalls(worker[w].op)
    BY <1>2 DEF OfAStory
  <2> QED
    BY <1>1, <1>2, <2>1 DEF StoryCalls
<1>3. CASE OfARole(w)
  <2>1. worker[w].pc \in RoleCalls(worker[w].op)
    BY <1>3 DEF OfARole
  <2> QED
    BY <1>1, <1>3, <2>1 DEF RoleCalls
<1> QED
  BY <1>1, <1>2, <1>3

LEMMA StoryGoesOn ==
    ASSUME AudienceBase, NEW w \in Workers, worker[w] # Idle, OfAStory(w), Grows,
           NEW pc \in StoryCalls(worker[w].op) \cup {"idle"}, NEW got, GoesOn(w, pc, got),
           pc \notin {"CountFollower", "SaveStory"}
    PROVE  AudienceLocals(w)'
<1>1. CASE pc = "idle"
  BY <1>1 DEF GoesOn, AudienceLocals
<1>2. CASE pc # "idle"
  <2>1. worker'[w] = [pc |-> pc, user |-> worker[w].user, op |-> worker[w].op,
                      on |-> worker[w].on, got |-> got]
    BY <1>2 DEF GoesOn
  <2>2. /\ worker'[w].pc = pc /\ worker'[w].user = worker[w].user
        /\ worker'[w].op = worker[w].op /\ worker'[w].on = worker[w].on
    BY <2>1
  <2>3. worker[w].on \in Written' /\ worker[w].user \in Users
    BY WhoCalls DEF OfAStory, Grows
  <2> QED
    BY <1>2, <2>2, <2>3 DEF AudienceLocals, OfAStory
<1> QED
  BY <1>1, <1>2

LEMMA RoleGoesOn ==
    ASSUME AudienceBase, NEW w \in Workers, worker[w] # Idle, OfARole(w),
           NEW pc \in RoleCalls(worker[w].op) \cup {"idle"}, NEW got \in NamedStories,
           GoesOn(w, pc, got),
           pc # "idle" => worker[w].on \in Cast'
    PROVE  AudienceLocals(w)'
<1>1. CASE pc = "idle"
  BY <1>1 DEF GoesOn, AudienceLocals
<1>2. CASE pc # "idle"
  <2>1. worker'[w] = [pc |-> pc, user |-> worker[w].user, op |-> worker[w].op,
                      on |-> worker[w].on, got |-> got]
    BY <1>2 DEF GoesOn
  <2>2. /\ worker'[w].pc = pc /\ worker'[w].user = worker[w].user
        /\ worker'[w].op = worker[w].op /\ worker'[w].on = worker[w].on
        /\ worker'[w].got = got
    BY <2>1
  <2>3. worker[w].on \in Cast' /\ worker[w].user \in Users /\ worker[w].on \in Roles
    BY <1>2, WhoCalls DEF OfARole
  <2> QED
    BY <1>2, <2>2, <2>3 DEF AudienceLocals, OfARole
<1> QED
  BY <1>1, <1>2

-----------------------------------------------------------------------------
(* Audience: every step keeps the rows and the requests as they should be. *)

LEMMA NothingGrows ==
    ASSUME AudienceBase, UNCHANGED <<story, asked>>, Cast \subseteq Cast'
    PROVE  Grows
<1>1. \A s \in Stories : asked[s].follow \in Nat /\ asked[s].like \in Nat
  BY DEF AudienceBase, AudienceTypeOK
<1> QED
  BY <1>1 DEF Grows, Written

LEMMA StoryCallKeeps ==
    ASSUME AudienceBase, NEW w \in Workers, worker[w] # Idle, OfAStory(w),
           NEW pc \in StoryCalls(worker[w].op) \cup {"idle"}, NEW got, GoesOn(w, pc, got),
           pc \notin {"CountFollower", "SaveStory"},
           UNCHANGED <<story, role, asked>>, AudienceTypeOK'
    PROVE  AudienceBase'
<1>1. Grows
  BY NothingGrows DEF Cast
<1>2. AudienceLocals(w)'
  BY <1>1, StoryGoesOn
<1>3. \A s \in Written' : EarnedBy(s, story[s])'
  BY <1>1, RowsStayEarned
<1> QED
  BY <1>1, <1>2, <1>3, StepKeepsBase DEF GoesOn

LEMMA RoleCallKeeps ==
    ASSUME AudienceBase, NEW w \in Workers, worker[w] # Idle, OfARole(w),
           NEW pc \in RoleCalls(worker[w].op) \cup {"idle"}, NEW got \in NamedStories,
           GoesOn(w, pc, got),
           pc # "idle" => worker[w].on \in Cast',
           UNCHANGED <<story, asked>>, Cast \subseteq Cast', AudienceTypeOK'
    PROVE  AudienceBase'
<1>1. Grows
  BY NothingGrows
<1>2. AudienceLocals(w)'
  BY RoleGoesOn
<1>3. \A s \in Written' : EarnedBy(s, story[s])'
  BY <1>1, RowsStayEarned
<1> QED
  BY <1>1, <1>2, <1>3, StepKeepsBase DEF GoesOn

LEMMA CountedIsTyped ==
    ASSUME AudienceTypeOK, NEW u \in Users, NEW c \in DOMAIN NoCounts, NEW n \in Int,
           Counted(u, c, n)
    PROVE  /\ profile' \in [Users -> [DOMAIN NoCounts -> Int]]
           /\ profile'[u][c] = profile[u][c] + n
           /\ \A v \in Users : \A d \in DOMAIN NoCounts :
                 v # u \/ d # c => profile'[v][d] = profile[v][d]
BY DEF Counted, AudienceTypeOK

LEMMA IncGroupProfileStoryCountKeeps ==
    ASSUME AudienceBase, NEW w \in Workers, IncGroupProfileStoryCount(w)
    PROVE  AudienceBase'
<1>1. worker[w].pc = "IncGroupProfileStoryCount" /\ worker[w] # Idle
  BY DEF IncGroupProfileStoryCount, Idle
<1>2. OfAStory(w) /\ worker[w].op = "CreateStory"
  BY <1>1, WhoCalls
<1>3. GoesOn(w, "IncrementCreatedStoryNum", worker[w].got)
  BY <1>1, AudienceCall, AudienceFailure DEF IncGroupProfileStoryCount, Goes
<1>4. AudienceTypeOK' /\ UNCHANGED <<story, role, asked>>
  BY DEF IncGroupProfileStoryCount, AudienceBase, AudienceTypeOK
<1>5. "IncrementCreatedStoryNum" \in StoryCalls(worker[w].op)
  BY <1>2 DEF StoryCalls
<1> QED
  BY <1>1, <1>2, <1>3, <1>4, <1>5, StoryCallKeeps

LEMMA IncrementCreatedStoryNumKeeps ==
    ASSUME AudienceBase, NEW w \in Workers, IncrementCreatedStoryNum(w)
    PROVE  AudienceBase'
<1>1. worker[w].pc = "IncrementCreatedStoryNum" /\ worker[w] # Idle
  BY DEF IncrementCreatedStoryNum, Idle
<1>2. OfAStory(w) /\ worker[w].op = "CreateStory" /\ worker[w].user \in Users
  BY <1>1, WhoCalls
<1>3. GoesOn(w, "IncrementWatchingStoryNum", worker[w].got)
  BY <1>1, AudienceCall, AudienceFailure DEF IncrementCreatedStoryNum, Goes
<1>4. AudienceTypeOK' /\ UNCHANGED <<story, role, asked>>
  <2>1. "createdStories" \in DOMAIN NoCounts
    BY DEF NoCounts
  <2>2. profile' \in [Users -> [DOMAIN NoCounts -> Int]]
    BY <1>2, <2>1, CountedIsTyped DEF IncrementCreatedStoryNum, AudienceBase, AudienceTypeOK
  <2> QED
    BY <2>2 DEF IncrementCreatedStoryNum, AudienceBase, AudienceTypeOK
<1>5. "IncrementWatchingStoryNum" \in StoryCalls(worker[w].op)
  BY <1>2 DEF StoryCalls
<1> QED
  BY <1>1, <1>2, <1>3, <1>4, <1>5, StoryCallKeeps

LEMMA IncrementWatchingStoryNumKeeps ==
    ASSUME AudienceBase, NEW w \in Workers, IncrementWatchingStoryNum(w)
    PROVE  AudienceBase'
<1> DEFINE next == IF worker[w].op = "CreateStory" THEN "CountWatches" ELSE "idle"
<1>1. worker[w].pc = "IncrementWatchingStoryNum" /\ worker[w] # Idle
  BY DEF IncrementWatchingStoryNum, Idle
<1>2. /\ OfAStory(w) /\ worker[w].op \in {"CreateStory", "WatchStory"}
      /\ worker[w].user \in Users
  BY <1>1, WhoCalls
<1>3. GoesOn(w, next, worker[w].got)
  BY <1>1, AudienceCall, AudienceFailure DEF IncrementWatchingStoryNum, Goes
<1>4. AudienceTypeOK' /\ UNCHANGED <<story, role, asked>>
  <2>1. "watchingStories" \in DOMAIN NoCounts
    BY DEF NoCounts
  <2>2. profile' \in [Users -> [DOMAIN NoCounts -> Int]]
    BY <1>2, <2>1, CountedIsTyped DEF IncrementWatchingStoryNum, AudienceBase, AudienceTypeOK
  <2> QED
    BY <2>2 DEF IncrementWatchingStoryNum, AudienceBase, AudienceTypeOK
<1>5. next \in StoryCalls(worker[w].op) \cup {"idle"}
  BY <1>2 DEF StoryCalls
<1> QED
  BY <1>1, <1>2, <1>3, <1>4, <1>5, StoryCallKeeps

LEMMA CountWatchesKeeps ==
    ASSUME AudienceBase, NEW w \in Workers, CountWatches(w)
    PROVE  AudienceBase'
<1> DEFINE done == IF worker[w].op = "CreateStory" THEN "idle"
                   ELSE "IncrementWatchingStoryNum"
           next == IF AnyOf(watch, worker[w].user, worker[w].on) THEN done
                   ELSE "InsertWatch"
<1>1. /\ worker[w].pc = "CountWatches" /\ worker[w] # Idle
      /\ GoesWith(w, next, worker[w].got) /\ UNCHANGED audience
  BY DEF CountWatches, Idle, Goes
<1>2. OfAStory(w) /\ worker[w].op \in {"CreateStory", "WatchStory"}
  BY <1>1, WhoCalls
<1>3. GoesOn(w, next, worker[w].got)
  BY <1>1, AudienceCall
<1>4. AudienceTypeOK' /\ UNCHANGED <<story, role, asked>>
  BY <1>1 DEF audience, AudienceBase, AudienceTypeOK
<1>5. next \in StoryCalls(worker[w].op) \cup {"idle"}
  BY <1>2 DEF StoryCalls
<1> QED
  BY <1>1, <1>2, <1>3, <1>4, <1>5, StoryCallKeeps

LEMMA InsertWatchKeeps ==
    ASSUME AudienceBase, NEW w \in Workers, InsertWatch(w)
    PROVE  AudienceBase'
<1> DEFINE done == IF worker[w].op = "CreateStory" THEN "idle"
                   ELSE "IncrementWatchingStoryNum"
<1>1. /\ worker[w].pc = "InsertWatch" /\ worker[w] # Idle
      /\ GoesWith(w, done, worker[w].got)
      /\ watch' = watch \cup {Item(worker[w].user, worker[w].on, None)}
      /\ UNCHANGED <<story, role, like, profile, stories, asked, astray>>
  BY DEF InsertWatch, Idle, Goes
<1>2. /\ OfAStory(w) /\ worker[w].op \in {"CreateStory", "WatchStory"}
      /\ worker[w].user \in Users /\ worker[w].on \in Stories
  BY <1>1, WhoCalls DEF OfAStory, Written
<1>3. GoesOn(w, done, worker[w].got)
  BY <1>1, AudienceCall
<1>4. AudienceTypeOK'
  BY <1>1, <1>2 DEF AudienceBase, AudienceTypeOK, Items, Item, NamedStories
<1>5. done \in StoryCalls(worker[w].op) \cup {"idle"}
  BY <1>2 DEF StoryCalls
<1> QED
  BY <1>1, <1>2, <1>3, <1>4, <1>5, StoryCallKeeps

LEMMA CreateLikeStoryItemKeeps ==
    ASSUME AudienceBase, NEW w \in Workers, CreateLikeStoryItem(w)
    PROVE  AudienceBase'
<1>1. /\ worker[w].pc = "CreateLikeStoryItem" /\ worker[w] # Idle
      /\ GoesWith(w, "GetStory", worker[w].got)
      /\ like' \in {like, like \cup {Item(worker[w].user, worker[w].on, None)}}
      /\ UNCHANGED <<story, role, watch, profile, stories, asked, astray>>
  BY DEF CreateLikeStoryItem, Idle, Goes
<1>2. /\ OfAStory(w) /\ worker[w].op = "LikeStory"
      /\ worker[w].user \in Users /\ worker[w].on \in Stories
  BY <1>1, WhoCalls DEF OfAStory, Written
<1>3. GoesOn(w, "GetStory", worker[w].got)
  BY <1>1, AudienceCall
<1>4. AudienceTypeOK'
  BY <1>1, <1>2 DEF AudienceBase, AudienceTypeOK, Items, Item, NamedStories
<1>5. "GetStory" \in StoryCalls(worker[w].op)
  BY <1>2 DEF StoryCalls
<1> QED
  BY <1>1, <1>2, <1>3, <1>4, <1>5, StoryCallKeeps

LEMMA GetWatchItemKeeps ==
    ASSUME AudienceBase, NEW w \in Workers, GetWatchItemByStoryAndUser(w)
    PROVE  AudienceBase'
<1> DEFINE next == IF Item(worker[w].user, worker[w].on, None) \in watch
                   THEN "idle" ELSE "CountWatches"
<1>1. /\ worker[w].pc = "GetWatchItemByStoryAndUser" /\ worker[w] # Idle
      /\ GoesWith(w, next, worker[w].got) /\ UNCHANGED audience
  BY DEF GetWatchItemByStoryAndUser, Idle, Goes
<1>2. OfAStory(w) /\ worker[w].op = "WatchStory"
  BY <1>1, WhoCalls
<1>3. GoesOn(w, next, worker[w].got)
  BY <1>1, AudienceCall
<1>4. AudienceTypeOK' /\ UNCHANGED <<story, role, asked>>
  BY <1>1 DEF audience, AudienceBase, AudienceTypeOK
<1>5. next \in StoryCalls(worker[w].op) \cup {"idle"}
  BY <1>2 DEF StoryCalls
<1> QED
  BY <1>1, <1>2, <1>3, <1>4, <1>5, StoryCallKeeps

LEMMA DeleteLikeItemKeeps ==
    ASSUME AudienceBase, NEW w \in Workers, DeleteLikeItem(w)
    PROVE  AudienceBase'
<1>1. /\ worker[w].pc = "DeleteLikeItem" /\ worker[w] # Idle
      /\ GoesWith(w, "CountLikedStory", worker[w].got)
      /\ like' = {} /\ UNCHANGED <<story, role, watch, profile, stories, asked, astray>>
  BY DEF DeleteLikeItem, Idle, Goes
<1>2. OfAStory(w) /\ worker[w].op = "UnLikeStory"
  BY <1>1, WhoCalls
<1>3. GoesOn(w, "CountLikedStory", worker[w].got)
  BY <1>1, AudienceCall
<1>4. AudienceTypeOK'
  BY <1>1 DEF AudienceBase, AudienceTypeOK
<1>5. "CountLikedStory" \in StoryCalls(worker[w].op)
  BY <1>2 DEF StoryCalls
<1> QED
  BY <1>1, <1>2, <1>3, <1>4, <1>5, StoryCallKeeps

LEMMA CountLikedStoryKeeps ==
    ASSUME AudienceBase, NEW w \in Workers, CountLikedStory(w)
    PROVE  AudienceBase'
<1>1. worker[w].pc = "CountLikedStory" /\ worker[w] # Idle
  BY DEF CountLikedStory, Idle
<1>2. OfAStory(w) /\ worker[w].user \in Users
  BY <1>1, WhoCalls
<1>3. GoesOn(w, "idle", worker[w].got)
  BY <1>1, AudienceCall, AudienceFailure DEF CountLikedStory, Goes
<1>4. AudienceTypeOK' /\ UNCHANGED <<story, role, asked>>
  <2>1. "likedStories" \in DOMAIN NoCounts
    BY DEF NoCounts
  <2>2. profile' \in [Users -> [DOMAIN NoCounts -> Int]]
    BY <1>2, <2>1, CountedIsTyped DEF CountLikedStory, AudienceBase, AudienceTypeOK
  <2> QED
    BY <2>2 DEF CountLikedStory, AudienceBase, AudienceTypeOK
<1> QED
  BY <1>1, <1>2, <1>3, <1>4, StoryCallKeeps

\* A column of a story is written.
LEMMA ColumnsAreTyped ==
    ASSUME NEW f \in [Stories -> StoryRows], NEW s \in Stories
    PROVE  /\ \A a \in {-1, 0, 1} : [f EXCEPT ![s].status = a] \in [Stories -> StoryRows]
           /\ \A b \in BOOLEAN : [f EXCEPT ![s].closed = b] \in [Stories -> StoryRows]
           /\ \A c \in Nat : [f EXCEPT ![s].follow = c] \in [Stories -> StoryRows]
           /\ \A d \in Int : [f EXCEPT ![s].like = d] \in [Stories -> StoryRows]
<1>1. ASSUME NEW a \in {-1, 0, 1}
      PROVE  [f EXCEPT ![s].status = a] \in [Stories -> StoryRows]
  BY DEF StoryRows
<1>2. ASSUME NEW b \in BOOLEAN
      PROVE  [f EXCEPT ![s].closed = b] \in [Stories -> StoryRows]
  BY DEF StoryRows
<1>3. ASSUME NEW c \in Nat
      PROVE  [f EXCEPT ![s].follow = c] \in [Stories -> StoryRows]
  BY DEF StoryRows
<1>4. ASSUME NEW d \in Int
      PROVE  [f EXCEPT ![s].like = d] \in [Stories -> StoryRows]
  BY DEF StoryRows
<1> QED
  BY <1>1, <1>2, <1>3, <1>4

\* A row is saved: its zeros leave what was there.
LEMMA StoryRowIsSaved ==
    ASSUME AudienceTypeOK, NEW s \in Stories, NEW image \in StoryRows,
           UpdateStoryRow(s, image)
    PROVE  /\ story' \in [Stories -> StoryRows]
           /\ story'[s].creator = story[s].creator
           /\ story'[s].follow = NonZero(image.follow, story[s].follow, 0)
           /\ story'[s].like = NonZero(image.like, story[s].like, 0)
           /\ \A t \in Stories \ {s} : story'[t] = story[t]
<1>1. story[s] \in StoryRows
  BY DEF AudienceTypeOK
<1>2. PICK a \in {-1, 0, 1}, b \in BOOLEAN, c \in Nat, d \in Int :
         /\ a = NonZero(image.status, story[s].status, 0)
         /\ b = NonZero(image.closed, story[s].closed, FALSE)
         /\ c = NonZero(image.follow, story[s].follow, 0)
         /\ d = NonZero(image.like, story[s].like, 0)
  BY <1>1 DEF StoryRows, NonZero
<1>3. story' = [story EXCEPT ![s].status = a, ![s].closed = b, ![s].follow = c, ![s].like = d]
  BY <1>2 DEF UpdateStoryRow
<1>4. /\ story'[s].creator = story[s].creator /\ story'[s].follow = c /\ story'[s].like = d
      /\ \A t \in Stories \ {s} : story'[t] = story[t]
  BY <1>3 DEF AudienceTypeOK, StoryRows
<1>5. story' \in [Stories -> StoryRows]
  <2>1. PICK f : f = [story EXCEPT ![s].status = a]
    OBVIOUS
  <2>2. PICK g : g = [f EXCEPT ![s].closed = b]
    OBVIOUS
  <2>3. PICK h : h = [g EXCEPT ![s].follow = c]
    OBVIOUS
  <2>4. f \in [Stories -> StoryRows]
    BY <2>1, ColumnsAreTyped DEF AudienceTypeOK
  <2>5. g \in [Stories -> StoryRows]
    BY <2>2, <2>4, ColumnsAreTyped
  <2>6. h \in [Stories -> StoryRows]
    BY <2>3, <2>5, ColumnsAreTyped
  <2>7. story' = [h EXCEPT ![s].like = d]
    BY <1>3, <2>1, <2>2, <2>3
  <2> QED
    BY <2>6, <2>7, ColumnsAreTyped
<1> QED
  BY <1>2, <1>4, <1>5

\* A row of one story changes, and stays earned.
LEMMA OneRowIsEarned ==
    ASSUME AudienceBase, Grows, AudienceTypeOK', NEW s \in Stories,
           \A t \in Stories \ {s} : story'[t] = story[t], EarnedBy(s, story[s])'
    PROVE  \A t \in Written' : EarnedBy(t, story[t])'
<1> SUFFICES ASSUME NEW t \in Stories \ {s}, t \in Written'
             PROVE  EarnedBy(t, story[t])'
  BY DEF Written
<1>1. EarnedBy(t, story[t]) /\ story'[t] = story[t]
  BY DEF AudienceBase, Written
<1>2. PICK a \in Nat, b \in Nat, c \in Nat, d \in Nat :
         /\ a = asked[t].follow /\ b = asked[t].like
         /\ c = asked'[t].follow /\ d = asked'[t].like /\ a <= c /\ b <= d
  BY DEF AudienceBase, AudienceTypeOK, Grows
<1>3. story[t].follow \in 1 .. 1 + a /\ story[t].like \in 1 .. 1 + b
  BY <1>1, <1>2 DEF EarnedBy
<1>4. story[t].follow \in 1 .. 1 + c /\ story[t].like \in 1 .. 1 + d
  BY <1>2, <1>3
<1> QED
  BY <1>1, <1>2, <1>4 DEF EarnedBy

\* What is read of a row is earned.
LEMMA GetStoryKeeps ==
    ASSUME AudienceBase, NEW w \in Workers, GetStory(w)
    PROVE  AudienceBase'
<1>1. /\ worker[w].pc = "GetStory" /\ worker[w] # Idle
      /\ GoesWith(w, "SaveStory", story[worker[w].on]) /\ UNCHANGED audience
  BY DEF GetStory, Idle
<1>2. /\ OfAStory(w) /\ worker[w].op \in {"LikeStory", "UnLikeStory"}
      /\ worker[w].user \in Users
  BY <1>1, WhoCalls
<1>3. PICK got : got = story[worker[w].on]
  OBVIOUS
<1>4. GoesOn(w, "SaveStory", got)
  BY <1>1, <1>3, AudienceCall
<1>5. Grows /\ AudienceTypeOK'
  BY <1>1, NothingGrows DEF audience, AudienceBase, AudienceTypeOK, Cast
<1>6. AudienceLocals(w)'
  <2>1. /\ worker'[w].pc = "SaveStory" /\ worker'[w].user = worker[w].user
        /\ worker'[w].op = worker[w].op /\ worker'[w].on = worker[w].on
        /\ worker'[w].got = got
    BY <1>4 DEF GoesOn
  <2>2. worker[w].on \in Written /\ worker[w].on \in Written'
    BY <1>2, <1>5 DEF OfAStory, Grows
  <2>3. EarnedBy(worker[w].on, got)'
    <3>1. PICK s \in Written : s = worker[w].on
      BY <2>2
    <3>2. EarnedBy(s, got)
      BY <1>3, <3>1 DEF AudienceBase
    <3>3. worker'[w].on = s /\ asked' = asked
      BY <1>1, <2>1, <3>1 DEF audience
    <3> QED
      BY <3>2, <3>3 DEF EarnedBy
  <2>4. "SaveStory" \in StoryCalls(worker[w].op)
    BY <1>2 DEF StoryCalls
  <2>5. EarnedBy(worker[w].on, worker[w].got)'
    BY <2>1, <2>3 DEF EarnedBy
  <2> QED
    BY <1>2, <2>1, <2>2, <2>4, <2>5 DEF AudienceLocals, OfAStory
<1>7. \A s \in Written' : EarnedBy(s, story[s])'
  BY <1>1, <1>5, RowsStayEarned DEF audience
<1> QED
  BY <1>4, <1>5, <1>6, <1>7, StepKeepsBase DEF GoesOn

LEMMA CountFollowerKeeps ==
    ASSUME AudienceBase, NEW w \in Workers, CountFollower(w)
    PROVE  AudienceBase'
<1> DEFINE s == worker[w].on
<1>1. /\ worker[w].pc = "CountFollower" /\ worker[w] # Idle
      /\ story' = [story EXCEPT ![s].follow = worker[w].got.follow + 1]
      /\ asked' = [asked EXCEPT ![s].follow = @ + 1]
      /\ GoesWith(w, "GetWatchItemByStoryAndUser", worker[w].got)
      /\ UNCHANGED <<role, watch, like, profile, stories, astray>>
  BY DEF CountFollower, Idle, Goes
<1>2. OfAStory(w) /\ worker[w].op = "WatchStory" /\ s \in Stories /\ s \in Written
  BY <1>1, WhoCalls DEF OfAStory, Written
<1>3. GoesOn(w, "GetWatchItemByStoryAndUser", worker[w].got)
  BY <1>1, AudienceCall
<1>4. PICK a \in Nat, b \in Nat :
         /\ a = asked[s].follow /\ b = asked[s].like
         /\ worker[w].got.follow \in 1 .. 1 + a
         /\ story[s].like \in 1 .. 1 + b
  BY <1>1, <1>2 DEF OfAStory, EarnedBy, AudienceBase, AudienceTypeOK
<1>5. PICK f \in Nat : f = worker[w].got.follow + 1 /\ f \in 1 .. 1 + (a + 1)
  BY <1>4
<1>6. /\ story' \in [Stories -> StoryRows] /\ story'[s].follow = f
      /\ story'[s].like = story[s].like /\ story'[s].creator = story[s].creator
      /\ \A t \in Stories \ {s} : story'[t] = story[t]
  BY <1>1, <1>2, <1>5 DEF AudienceBase, AudienceTypeOK, StoryRows
<1>7. /\ asked' \in [Stories -> [{"follow", "like"} -> Nat]]
      /\ asked'[s].follow = a + 1 /\ asked'[s].like = b
      /\ \A t \in Stories \ {s} : asked'[t] = asked[t]
  BY <1>1, <1>2, <1>4 DEF AudienceBase, AudienceTypeOK
<1>8. AudienceTypeOK'
  BY <1>1, <1>6, <1>7 DEF AudienceBase, AudienceTypeOK
<1>9. Grows
  <2>1. Written \subseteq Written'
    BY <1>6 DEF Written
  <2>2. ASSUME NEW t \in Stories
        PROVE  asked[t].follow <= asked'[t].follow /\ asked[t].like <= asked'[t].like
    <3>1. CASE t = s
      BY <1>4, <1>7, <3>1
    <3>2. CASE t # s
      BY <1>7, <3>2 DEF AudienceBase, AudienceTypeOK
    <3> QED
      BY <3>1, <3>2
  <2> QED
    BY <1>1, <2>1, <2>2 DEF Grows, Cast
<1>11. \A t \in Written' : EarnedBy(t, story[t])'
  <2>1. PICK t \in Stories : t = s
    BY <1>2
  <2>2. EarnedBy(t, story[t])'
    BY <1>4, <1>5, <1>6, <1>7, <2>1 DEF EarnedBy
  <2> QED
    BY <1>6, <1>8, <1>9, <2>1, <2>2, OneRowIsEarned
<1>12. AudienceLocals(w)'
  <2>1. "GetWatchItemByStoryAndUser" \in StoryCalls(worker[w].op)
    BY <1>2 DEF StoryCalls
  <2> QED
    BY <1>1, <1>2, <1>3, <1>9, <2>1, StoryGoesOn
<1> QED
  BY <1>3, <1>8, <1>9, <1>11, <1>12, StepKeepsBase DEF GoesOn

LEMMA SaveStoryKeeps ==
    ASSUME AudienceBase, NEW w \in Workers, SaveStory(w)
    PROVE  AudienceBase'
<1>1. worker[w].pc = "SaveStory" /\ worker[w] # Idle
  BY DEF SaveStory, Idle
<1>2. /\ OfAStory(w) /\ worker[w].op \in {"LikeStory", "UnLikeStory"}
      /\ worker[w].on \in Stories /\ worker[w].on \in Written
  BY <1>1, WhoCalls DEF OfAStory, Written
<1>3. PICK s \in Stories, got \in StoryRows, n \in {1, -1} :
         /\ s = worker[w].on /\ got = worker[w].got
         /\ n = IF worker[w].op = "LikeStory" THEN 1 ELSE -1
  BY <1>1, <1>2 DEF OfAStory, EarnedBy
<1>4. /\ UpdateStoryRow(s, [got EXCEPT !.like = @ + n])
      /\ asked' = IF n = 1 THEN [asked EXCEPT ![s].like = @ + 1] ELSE asked
      /\ UNCHANGED <<role, watch, like, profile, stories, astray>>
  BY <1>3 DEF SaveStory
<1>5. PICK next \in {"CountLikedStory", "DeleteLikeItem"} :
         /\ next = IF n = 1 THEN "CountLikedStory" ELSE "DeleteLikeItem"
         /\ GoesWith(w, next, worker[w].got)
  BY <1>3 DEF SaveStory, Goes
<1>6. GoesOn(w, next, worker[w].got)
  BY <1>1, <1>5, AudienceCall
<1>7. PICK a \in Nat, b \in Nat :
         /\ a = asked[s].follow /\ b = asked[s].like
         /\ got.follow \in 1 .. 1 + a /\ got.like \in 1 .. 1 + b
         /\ story[s].like \in 1 .. 1 + b
  BY <1>1, <1>2, <1>3 DEF OfAStory, EarnedBy, AudienceBase, AudienceTypeOK
<1>8. PICK image \in StoryRows :
         /\ image = [got EXCEPT !.like = @ + n]
         /\ image.follow = got.follow /\ image.like = got.like + n
  <2>1. PICK m \in Int : m = got.like + n
    BY <1>3 DEF StoryRows
  <2>2. [got EXCEPT !.like = m] \in StoryRows
    BY <1>3, <2>1 DEF StoryRows
  <2> QED
    BY <1>3, <2>1, <2>2 DEF StoryRows
<1>9. /\ story' \in [Stories -> StoryRows]
      /\ story'[s].creator = story[s].creator
      /\ story'[s].follow = NonZero(image.follow, story[s].follow, 0)
      /\ story'[s].like = NonZero(image.like, story[s].like, 0)
      /\ \A t \in Stories \ {s} : story'[t] = story[t]
  BY <1>4, <1>8, StoryRowIsSaved DEF AudienceBase
<1>10. PICK c \in Nat : c = IF n = 1 THEN b + 1 ELSE b
  OBVIOUS
<1>11. /\ asked' \in [Stories -> [{"follow", "like"} -> Nat]]
       /\ asked'[s].follow = a /\ asked'[s].like = c
       /\ \A t \in Stories \ {s} : asked'[t] = asked[t]
  BY <1>4, <1>7, <1>10 DEF AudienceBase, AudienceTypeOK
<1>12. /\ story'[s].follow \in 1 .. 1 + a
       /\ story'[s].like \in 1 .. 1 + c
  BY <1>3, <1>7, <1>8, <1>9, <1>10 DEF NonZero
<1>13. AudienceTypeOK'
  BY <1>4, <1>9, <1>11 DEF AudienceBase, AudienceTypeOK
<1>14. Grows
  <2>1. Written \subseteq Written'
    BY <1>9 DEF Written
  <2>2. ASSUME NEW t \in Stories
        PROVE  asked[t].follow <= asked'[t].follow /\ asked[t].like <= asked'[t].like
    <3>1. CASE t = s
      BY <1>7, <1>10, <1>11, <3>1
    <3>2. CASE t # s
      BY <1>11, <3>2 DEF AudienceBase, AudienceTypeOK
    <3> QED
      BY <3>1, <3>2
  <2> QED
    BY <1>4, <2>1, <2>2 DEF Grows, Cast
<1>15. \A t \in Written' : EarnedBy(t, story[t])'
  <2>1. EarnedBy(s, story[s])'
    BY <1>9, <1>11, <1>12 DEF EarnedBy
  <2> QED
    BY <1>9, <1>13, <1>14, <2>1, OneRowIsEarned
<1>16. AudienceLocals(w)'
  <2>1. next \in StoryCalls(worker[w].op)
    BY <1>2, <1>3, <1>5 DEF StoryCalls
  <2> QED
    BY <1>1, <1>2, <1>6, <1>14, <2>1, StoryGoesOn
<1> QED
  BY <1>6, <1>13, <1>14, <1>15, <1>16, StepKeepsBase DEF GoesOn

\* A request that has arrived about a story.
LEMMA StoryArrives ==
    ASSUME AudienceBase, NEW w \in Workers, NEW u \in Users, NEW op, NEW s \in Stories,
           s \in Written', NEW pc \in StoryCalls(op), NEW got, Takes(w, u, op, s, pc, got),
           pc \in {"CountFollower", "SaveStory"} =>
               got = story'[s] /\ UNCHANGED <<story, asked>>,
           Grows, AudienceTypeOK', \A t \in Written' : EarnedBy(t, story[t])'
    PROVE  AudienceBase'
<1>1. /\ MovesAlone(w)
      /\ worker'[w] = [pc |-> pc, user |-> u, op |-> op, on |-> s, got |-> got]
  BY AudienceArrival
<1>2. AudienceLocals(w)'
  <2>1. /\ worker'[w].pc = pc /\ worker'[w].user = u /\ worker'[w].op = op
        /\ worker'[w].on = s /\ worker'[w].got = got
    BY <1>1
  <2>2. ASSUME pc \in {"CountFollower", "SaveStory"}
        PROVE  EarnedBy(worker[w].on, worker[w].got)'
    <3>1. EarnedBy(s, story[s])'
      OBVIOUS
    <3> QED
      BY <2>1, <2>2, <3>1 DEF EarnedBy
  <2> QED
    BY <2>1, <2>2 DEF AudienceLocals, OfAStory
<1> QED
  BY <1>1, <1>2, StepKeepsBase

\* One that changes none of the stories.
LEMMA StoryRequestKeeps ==
    ASSUME AudienceBase, NEW w \in Workers, NEW u \in Users, NEW op, NEW s \in Written,
           NEW pc \in StoryCalls(op), NEW got, Takes(w, u, op, s, pc, got),
           pc \in {"CountFollower", "SaveStory"} => got = story[s],
           UNCHANGED audience
    PROVE  AudienceBase'
<1>1. Grows /\ AudienceTypeOK' /\ UNCHANGED <<story, asked>>
  BY NothingGrows DEF audience, AudienceBase, AudienceTypeOK, Cast
<1>2. \A t \in Written' : EarnedBy(t, story[t])'
  BY <1>1, RowsStayEarned
<1>3. s \in Stories /\ s \in Written'
  BY <1>1 DEF Written
<1> QED
  BY <1>1, <1>2, <1>3, StoryArrives

LEMMA CreateStoryKeeps ==
    ASSUME AudienceBase, NEW w \in Workers, NEW u \in Users, NEW s \in Stories,
           CreateStory(w, u, s)
    PROVE  AudienceBase'
<1>1. /\ story[s] = NoStory
      /\ Takes(w, u, "CreateStory", s, "IncGroupProfileStoryCount", None)
      /\ story' = [story EXCEPT ![s] = [creator |-> u, status |-> 1,
                                        closed |-> FALSE, follow |-> 1, like |-> 1]]
      /\ UNCHANGED <<role, watch, like, profile, stories, asked, astray>>
  BY DEF CreateStory
<1>2. u # None
  BY RequestsAssumption
<1>3. AudienceTypeOK'
  BY <1>1 DEF AudienceBase, AudienceTypeOK, StoryRows
<1>4. Grows
  <2>1. s \notin Written
    BY <1>1 DEF Written, NoStory
  <2>2. Written \subseteq Written'
    BY <1>1, <2>1 DEF Written, AudienceBase, AudienceTypeOK
  <2>3. \A t \in Stories : asked[t].follow \in Nat /\ asked[t].like \in Nat
    BY DEF AudienceBase, AudienceTypeOK
  <2> QED
    BY <1>1, <2>2, <2>3 DEF Grows, Cast
<1>5. /\ story'[s] = [creator |-> u, status |-> 1, closed |-> FALSE, follow |-> 1, like |-> 1]
      /\ \A t \in Stories \ {s} : story'[t] = story[t]
  BY <1>1 DEF AudienceBase, AudienceTypeOK
<1>6. \A t \in Written' : EarnedBy(t, story[t])'
  <2>1. PICK a \in Nat, b \in Nat : a = asked[s].follow /\ b = asked[s].like
    BY DEF AudienceBase, AudienceTypeOK
  <2>2. story'[s].follow = 1 /\ story'[s].like = 1 /\ story'[s] \in StoryRows
    BY <1>5 DEF StoryRows
  <2>3. 1 \in 1 .. 1 + a /\ 1 \in 1 .. 1 + b
    BY <2>1
  <2>4. EarnedBy(s, story[s])'
    BY <1>1, <2>1, <2>2, <2>3 DEF EarnedBy
  <2> QED
    BY <1>3, <1>4, <1>5, <2>4, OneRowIsEarned
<1>7. s \in Written'
  BY <1>2, <1>5 DEF Written
<1>8. "IncGroupProfileStoryCount" \in StoryCalls("CreateStory")
  BY DEF StoryCalls
<1> QED
  BY <1>1, <1>3, <1>4, <1>6, <1>7, <1>8, StoryArrives

LEMMA UpdateStoryKeeps ==
    ASSUME AudienceBase, NEW s \in Stories, NEW status \in {-1, 0}, NEW closes \in BOOLEAN,
           UpdateStory(s, status, closes)
    PROVE  AudienceBase'
<1>1. /\ s \in Written /\ Serves
      /\ story' = [story EXCEPT ![s].status = NonZero(status, @, 0),
                                ![s].closed = @ \/ closes]
      /\ UNCHANGED <<role, watch, like, profile, stories, asked, astray>>
  BY DEF UpdateStory
<1>2. UNCHANGED <<worker, faults, overlapped>>
  BY <1>1 DEF Serves
<1>3. PICK a \in {-1, 0, 1}, b \in BOOLEAN :
         story' = [story EXCEPT ![s].status = a, ![s].closed = b]
  <2>1. story[s].status \in {-1, 0, 1} /\ story[s].closed \in BOOLEAN
    BY DEF AudienceBase, AudienceTypeOK, StoryRows
  <2>2. PICK a \in {-1, 0, 1} : a = NonZero(status, story[s].status, 0)
    BY <2>1 DEF NonZero
  <2>3. PICK b \in BOOLEAN : b = (story[s].closed \/ closes)
    OBVIOUS
  <2> QED
    BY <1>1, <2>2, <2>3
<1>4. /\ story'[s].creator = story[s].creator /\ story'[s].follow = story[s].follow
      /\ story'[s].like = story[s].like
      /\ \A t \in Stories \ {s} : story'[t] = story[t]
  BY <1>3 DEF AudienceBase, AudienceTypeOK, StoryRows
<1>5. story' \in [Stories -> StoryRows]
  <2>1. PICK f \in [Stories -> StoryRows] : f = [story EXCEPT ![s].status = a]
    BY <1>3 DEF AudienceBase, AudienceTypeOK, StoryRows
  <2>2. [f EXCEPT ![s].closed = b] \in [Stories -> StoryRows]
    BY <1>3, <2>1, ZenonT(30) DEF StoryRows
  <2> QED
    BY <1>3, <2>1, <2>2
<1>6. AudienceTypeOK'
  BY <1>1, <1>5 DEF AudienceBase, AudienceTypeOK
<1>7. Written' = Written
  BY <1>4 DEF Written
<1>8. Grows
  <2>1. \A t \in Stories : asked[t].follow \in Nat /\ asked[t].like \in Nat
    BY DEF AudienceBase, AudienceTypeOK
  <2> QED
    BY <1>1, <1>7, <2>1 DEF Grows, Cast
<1>9. \A t \in Written' : EarnedBy(t, story[t])'
  <2>1. EarnedBy(s, story[s])
    BY <1>1 DEF AudienceBase
  <2>2. EarnedBy(s, story[s])'
    BY <1>1, <1>4, <1>5, <2>1 DEF EarnedBy
  <2> QED
    BY <1>4, <1>6, <1>8, <2>2, OneRowIsEarned
<1>10. \A v \in Workers : AudienceLocals(v)'
  <2> SUFFICES ASSUME NEW v \in Workers
               PROVE  AudienceLocals(v)'
    OBVIOUS
  <2>1. AudienceLocals(v)
    BY DEF AudienceBase
  <2> QED
    BY <1>1, <1>2, <1>7, <2>1 DEF AudienceLocals, OfAStory, OfARole, EarnedBy, Cast
<1>11. Shaped' /\ AloneInv'
  BY <1>2 DEF AudienceBase, Shaped, AloneInv, Alone, Busy
<1> QED
  BY <1>2, <1>6, <1>9, <1>10, <1>11 DEF AudienceBase

LEMMA StoryRequestsKeep ==
    ASSUME AudienceBase, NEW w \in Workers, NEW u \in Users, NEW s \in Stories,
           WatchStory(w, u, s) \/ LikeStory(w, u, s) \/ UnLikeStory(w, u, s)
    PROVE  AudienceBase'
<1>1. CASE WatchStory(w, u, s)
  <2>1. /\ s \in Written /\ UNCHANGED audience
        /\ Takes(w, u, "WatchStory", s, "CountFollower", story[s])
    BY <1>1 DEF WatchStory, Begins
  <2>2. PICK got : got = story[s]
    OBVIOUS
  <2>3. "CountFollower" \in StoryCalls("WatchStory")
    BY DEF StoryCalls
  <2> QED
    BY <2>1, <2>2, <2>3, StoryRequestKeeps
<1>2. CASE LikeStory(w, u, s)
  <2>1. /\ s \in Written /\ UNCHANGED audience
        /\ Takes(w, u, "LikeStory", s, "CreateLikeStoryItem", None)
    BY <1>2 DEF LikeStory, Begins
  <2>2. "CreateLikeStoryItem" \in StoryCalls("LikeStory")
    BY DEF StoryCalls
  <2> QED
    BY <2>1, <2>2, StoryRequestKeeps
<1>3. CASE UnLikeStory(w, u, s)
  <2>1. /\ s \in Written /\ UNCHANGED audience
        /\ Takes(w, u, "UnLikeStory", s, "GetStory", None)
    BY <1>3 DEF UnLikeStory, Begins
  <2>2. "GetStory" \in StoryCalls("UnLikeStory")
    BY DEF StoryCalls
  <2> QED
    BY <2>1, <2>2, StoryRequestKeeps
<1> QED
  BY <1>1, <1>2, <1>3

-----------------------------------------------------------------------------
(* Audience: what the requests about roles do.                             *)

LEMMA RoleRequest ==
    ASSUME AudienceBase, NEW w \in Workers, OfARole(w), worker[w] # Idle,
           worker[w].pc # "InsertRole"
    PROVE  /\ worker[w].on \in Roles /\ worker[w].on \in Cast /\ worker[w].user \in Users
           /\ worker[w].got \in NamedStories /\ worker[w].user # None
BY WhoCalls, RequestsAssumption DEF OfARole

LEMMA InsertRoleDoes ==
    ASSUME AudienceBase, NEW w \in Workers, InsertRole(w)
    PROVE  /\ worker[w].pc = "InsertRole" /\ worker[w].op = "CreateStoryRole"
           /\ worker[w] # Idle /\ OfARole(w)
           /\ worker[w].on \in Roles /\ worker[w].user \in Users
           /\ AudienceTypeOK' /\ Cast \subseteq Cast'
           /\ UNCHANGED <<story, watch, like, profile, stories, asked, astray>>
           /\ \/ /\ worker[w].on \notin Cast /\ GoesOn(w, "CountRoleWatches", worker[w].got)
                 /\ Cast' = Cast \cup {worker[w].on}
                 /\ role'[worker[w].on] = [creator |-> worker[w].user, follow |-> 1, like |-> 1]
                 /\ \A r \in Roles \ {worker[w].on} : role'[r] = role[r]
              \/ GoesOn(w, "idle", worker[w].got) /\ UNCHANGED role
<1>1. worker[w].pc = "InsertRole" /\ worker[w] # Idle
  BY DEF InsertRole, Idle
<1>2. /\ worker[w].op = "CreateStoryRole" /\ OfARole(w)
      /\ worker[w].user \in Users /\ worker[w].on \in Roles /\ worker[w].user # None
  BY <1>1, WhoCalls, RequestsAssumption DEF OfARole
<1>3. UNCHANGED <<story, watch, like, profile, stories, asked, astray>>
  BY DEF InsertRole
<1>4. CASE role[worker[w].on] = NoRole
  <2>1. /\ role' = [role EXCEPT ![worker[w].on] = [creator |-> worker[w].user,
                                                   follow |-> 1, like |-> 1]]
        /\ GoesWith(w, "CountRoleWatches", worker[w].got)
    BY <1>4 DEF InsertRole, Goes
  <2>2. GoesOn(w, "CountRoleWatches", worker[w].got)
    BY <1>1, <2>1, AudienceCall
  <2>3. /\ role'[worker[w].on] = [creator |-> worker[w].user, follow |-> 1, like |-> 1]
        /\ \A r \in Roles \ {worker[w].on} : role'[r] = role[r]
        /\ role' \in [Roles -> RoleRows]
    BY <1>2, <2>1 DEF AudienceBase, AudienceTypeOK, RoleRows
  <2>4. worker[w].on \notin Cast /\ Cast' = Cast \cup {worker[w].on}
    BY <1>2, <1>4, <2>3 DEF Cast, NoRole
  <2>5. AudienceTypeOK'
    BY <1>3, <2>3 DEF AudienceBase, AudienceTypeOK
  <2> QED
    BY <1>1, <1>2, <1>3, <2>2, <2>3, <2>4, <2>5
<1>5. CASE role[worker[w].on] # NoRole
  <2>1. UNCHANGED role /\ GoesWith(w, "idle", worker[w].got)
    BY <1>5 DEF InsertRole, Ends, Goes
  <2>2. GoesOn(w, "idle", worker[w].got)
    BY <1>1, <2>1, AudienceCall
  <2>3. AudienceTypeOK' /\ Cast' = Cast
    BY <1>3, <2>1 DEF AudienceBase, AudienceTypeOK, Cast
  <2> QED
    BY <1>1, <1>2, <1>3, <2>1, <2>2, <2>3
<1> QED
  BY <1>4, <1>5

\* Followers come and go by the request of user u about role x only.
OnlyFollows(u, x) ==
    \A v \in Users, o \in Roles :
        v # u \/ o # x => (v \in Followers(o)' <=> v \in Followers(o))

\* An item of a user and a role makes the user a follower of the role, whatever
\* story it names.
LEMMA ItemsAreFollowers ==
    ASSUME NEW u \in Users, NEW r \in Roles, NEW s
    PROVE  /\ watch' = watch \cup {Item(u, s, r)}
                => /\ Followers(r)' = Followers(r) \cup {u}
                   /\ \A o \in Roles \ {r} : Followers(o)' = Followers(o)
           /\ watch' = watch \ {Item(u, s, r)} => OnlyFollows(u, r)
<1>1. Item(u, s, r).user = u /\ Item(u, s, r).role = r
  BY DEF Item
<1>2. ASSUME watch' = watch \cup {Item(u, s, r)}
      PROVE  /\ Followers(r)' = Followers(r) \cup {u}
             /\ \A o \in Roles \ {r} : Followers(o)' = Followers(o)
  BY <1>1, <1>2 DEF Followers
<1>3. ASSUME watch' = watch \ {Item(u, s, r)}
      PROVE  OnlyFollows(u, r)
  BY <1>1, <1>3 DEF Followers, OnlyFollows
<1> QED
  BY <1>2, <1>3

LEMMA CountRoleWatchesDoes ==
    ASSUME AudienceBase, NEW w \in Workers, CountRoleWatches(w)
    PROVE  /\ worker[w].pc = "CountRoleWatches" /\ worker[w] # Idle /\ OfARole(w)
           /\ worker[w].op = "CreateStoryRole"
           /\ worker[w].on \in Cast /\ worker[w].on \in Roles /\ worker[w].user \in Users
           /\ \/ GoesOn(w, "idle", worker[w].got) /\ worker[w].user \in Followers(worker[w].on)
              \/ GoesOn(w, "WatchRole", worker[w].got)
           /\ UNCHANGED audience
           /\ AudienceTypeOK'
<1>1. worker[w].pc = "CountRoleWatches" /\ worker[w] # Idle /\ UNCHANGED audience
  BY DEF CountRoleWatches, Idle
<1>2. OfARole(w) /\ worker[w].op = "CreateStoryRole"
  BY <1>1, WhoCalls
<1>3. worker[w].on \in Cast /\ worker[w].on \in Roles /\ worker[w].user \in Users
  BY <1>1, <1>2, RoleRequest
<1>4. \/ GoesWith(w, "idle", worker[w].got) /\ worker[w].user \in Followers(worker[w].on)
      \/ GoesWith(w, "WatchRole", worker[w].got)
  BY DEF CountRoleWatches, Goes, Follows
<1>5. \A pc : GoesWith(w, pc, worker[w].got) => GoesOn(w, pc, worker[w].got)
  BY <1>1, AudienceCall
<1>6. AudienceTypeOK'
  BY <1>1 DEF audience, AudienceBase, AudienceTypeOK
<1> QED
  BY <1>1, <1>2, <1>3, <1>4, <1>5, <1>6

LEMMA WatchRoleDoes ==
    ASSUME AudienceBase, NEW w \in Workers, WatchStoryRole(w)
    PROVE  /\ worker[w].pc = "WatchRole" /\ worker[w] # Idle /\ OfARole(w)
           /\ worker[w].on \in Cast /\ worker[w].on \in Roles /\ worker[w].user \in Users
           /\ \/ worker[w].op = "CreateStoryRole" /\ GoesOn(w, "idle", worker[w].got)
              \/ worker[w].op = "FollowStoryRole" /\ GoesOn(w, "CountRole", worker[w].got)
           /\ \A r \in Roles :
                 Followers(r)' = IF r = worker[w].on THEN Followers(r) \cup {worker[w].user}
                                 ELSE Followers(r)
           /\ UNCHANGED <<story, role, like, profile, stories, asked, astray>>
           /\ AudienceTypeOK'
<1> DEFINE next == IF worker[w].op = "CreateStoryRole" THEN "idle" ELSE "CountRole"
<1>1. /\ worker[w].pc = "WatchRole" /\ worker[w] # Idle
      /\ watch' = watch \cup {Item(worker[w].user, worker[w].got, worker[w].on)}
      /\ GoesWith(w, next, worker[w].got)
      /\ UNCHANGED <<story, role, like, profile, stories, asked, astray>>
  BY DEF WatchStoryRole, Idle, Goes
<1>2. OfARole(w) /\ worker[w].op \in {"CreateStoryRole", "FollowStoryRole"}
  BY <1>1, WhoCalls
<1>3. /\ worker[w].on \in Cast /\ worker[w].on \in Roles /\ worker[w].user \in Users
      /\ worker[w].got \in NamedStories
  BY <1>1, <1>2, RoleRequest
<1>4. GoesOn(w, next, worker[w].got)
  BY <1>1, AudienceCall
<1>5. AudienceTypeOK'
  BY <1>1, <1>3 DEF AudienceBase, AudienceTypeOK, Items, Item
<1>6. PICK u \in Users, r \in Roles : u = worker[w].user /\ r = worker[w].on
  BY <1>3
<1>7. /\ Followers(r)' = Followers(r) \cup {u}
      /\ \A o \in Roles \ {r} : Followers(o)' = Followers(o)
  BY <1>1, <1>6, ItemsAreFollowers
<1>8. \A o \in Roles : Followers(o)' = IF o = worker[w].on THEN Followers(o) \cup {worker[w].user}
                                       ELSE Followers(o)
  BY <1>6, <1>7
<1> QED
  BY <1>1, <1>2, <1>3, <1>4, <1>5, <1>8

LEMMA UnWatchRoleDoes ==
    ASSUME AudienceBase, NEW w \in Workers, UnWatchStoryRole(w)
    PROVE  /\ worker[w].pc = "UnWatchRole" /\ worker[w] # Idle /\ OfARole(w)
           /\ worker[w].op = "UnFollowStoryRole"
           /\ worker[w].on \in Cast /\ worker[w].on \in Roles /\ worker[w].user \in Users
           /\ GoesOn(w, "CountRole", worker[w].got)
           /\ OnlyFollows(worker[w].user, worker[w].on)
           /\ UNCHANGED <<story, role, like, profile, stories, asked, astray>>
           /\ AudienceTypeOK'
<1>1. /\ worker[w].pc = "UnWatchRole" /\ worker[w] # Idle
      /\ UNCHANGED <<story, role, like, profile, stories, asked, astray>>
  BY DEF UnWatchStoryRole, Idle
<1>2. OfARole(w) /\ worker[w].op = "UnFollowStoryRole"
  BY <1>1, WhoCalls
<1>3. worker[w].on \in Cast /\ worker[w].on \in Roles /\ worker[w].user \in Users
  BY <1>1, <1>2, RoleRequest
<1>4. PICK u \in Users, r \in Roles : u = worker[w].user /\ r = worker[w].on
  BY <1>3
<1>5. CASE /\ watch' = watch \ {Item(u, worker[w].got, r)}
           /\ GoesWith(w, "CountRole", worker[w].got)
  <2>1. GoesOn(w, "CountRole", worker[w].got)
    BY <1>1, <1>5, AudienceCall
  <2>2. OnlyFollows(u, r)
    BY <1>5, ItemsAreFollowers
  <2>3. AudienceTypeOK'
    BY <1>1, <1>5 DEF AudienceBase, AudienceTypeOK
  <2> QED
    BY <1>1, <1>2, <1>3, <1>4, <2>1, <2>2, <2>3
<1>6. CASE Logs(w, "CountRole") /\ UNCHANGED watch
  <2>1. GoesOn(w, "CountRole", worker[w].got) /\ ~ Undisturbed'
    BY <1>1, <1>6, AudienceFailure
  <2>2. AudienceTypeOK'
    BY <1>1, <1>6 DEF AudienceBase, AudienceTypeOK
  <2>3. OnlyFollows(worker[w].user, worker[w].on)
    BY <1>6 DEF OnlyFollows, Followers
  <2> QED
    BY <1>1, <1>2, <1>3, <2>1, <2>2, <2>3
<1> QED
  BY <1>4, <1>5, <1>6 DEF UnWatchStoryRole, Goes

\* What a request adds to the followers and to the likes of its role.
FollowsBy(op) == IF op = "FollowStoryRole" THEN 1
                 ELSE IF op = "UnFollowStoryRole" THEN -1 ELSE 0

\* What it adds to those who follow the role or were taken off without leaving.
NetFollows(w) == IF GoesAstray(w) THEN 0 ELSE FollowsBy(worker[w].op)

LikesBy(op) == IF op = "LikeStoryRole" THEN 1 ELSE IF op = "UnLikeStoryRole" THEN -1 ELSE 0

Counting == {"FollowStoryRole", "UnFollowStoryRole", "LikeStoryRole", "UnLikeStoryRole"}

\* A count of a role is changed.
FollowsChange(x, n) == role' = [role EXCEPT ![x].follow = @ + n]

LikesChange(x, n) == role' = [role EXCEPT ![x].like = @ + n]

LEMMA RoleIsCounted ==
    ASSUME AudienceTypeOK, NEW x \in Roles, NEW n \in Int
    PROVE  /\ FollowsChange(x, n)
                => /\ role' \in [Roles -> RoleRows] /\ role'[x].creator = role[x].creator
                   /\ role'[x].follow = role[x].follow + n
                   /\ role'[x].like = role[x].like + 0
                   /\ \A r \in Roles \ {x} : role'[r] = role[r]
           /\ LikesChange(x, n)
                => /\ role' \in [Roles -> RoleRows] /\ role'[x].creator = role[x].creator
                   /\ role'[x].follow = role[x].follow + 0
                   /\ role'[x].like = role[x].like + n
                   /\ \A r \in Roles \ {x} : role'[r] = role[r]
<1>1. role \in [Roles -> RoleRows]
  BY DEF AudienceTypeOK
<1>2. PICK a \in Int, b \in Int : a = role[x].follow /\ b = role[x].like
  BY <1>1 DEF RoleRows
<1>3. a + 0 = a /\ b + 0 = b /\ a + n \in Int /\ b + n \in Int
  BY <1>2
<1>4. ASSUME FollowsChange(x, n)
      PROVE  /\ role' \in [Roles -> RoleRows] /\ role'[x].creator = role[x].creator
             /\ role'[x].follow = role[x].follow + n
             /\ role'[x].like = role[x].like + 0
             /\ \A r \in Roles \ {x} : role'[r] = role[r]
  BY <1>1, <1>2, <1>3, <1>4 DEF RoleRows, FollowsChange
<1>5. ASSUME LikesChange(x, n)
      PROVE  /\ role' \in [Roles -> RoleRows] /\ role'[x].creator = role[x].creator
             /\ role'[x].follow = role[x].follow + 0
             /\ role'[x].like = role[x].like + n
             /\ \A r \in Roles \ {x} : role'[r] = role[r]
  BY <1>1, <1>2, <1>3, <1>5 DEF RoleRows, LikesChange
<1> QED
  BY <1>4, <1>5

LEMMA CountRoleDoes ==
    ASSUME AudienceBase, NEW w \in Workers, CountRole(w)
    PROVE  /\ worker[w].pc = "CountRole" /\ worker[w] # Idle /\ OfARole(w)
           /\ worker[w].op \in Counting
           /\ worker[w].on \in Cast /\ worker[w].on \in Roles /\ worker[w].user \in Users
           /\ GoesOn(w, "CountProfile", worker[w].got)
           /\ \A r \in Roles :
                 /\ role'[r].creator = role[r].creator
                 /\ RoleDue(r)' = IF r = worker[w].on THEN RoleDue(r) + NetFollows(w)
                                  ELSE RoleDue(r)
                 /\ r # worker[w].on => astray'.role[r] = astray.role[r]
                 /\ role'[r].like = IF r = worker[w].on
                                    THEN role[r].like + LikesBy(worker[w].op)
                                    ELSE role[r].like
           /\ astray'.user = astray.user
           /\ UNCHANGED <<story, watch, like, profile, stories, asked>>
           /\ AudienceTypeOK'
<1>1. /\ worker[w].pc = "CountRole" /\ worker[w] # Idle
      /\ GoesWith(w, "CountProfile", worker[w].got)
      /\ UNCHANGED <<story, watch, like, profile, stories, asked>>
  BY DEF CountRole, Idle, Goes
<1>2. OfARole(w) /\ worker[w].op \in Counting
  BY <1>1, WhoCalls DEF Counting
<1>3. worker[w].on \in Cast /\ worker[w].on \in Roles /\ worker[w].user \in Users
  BY <1>1, <1>2, RoleRequest
<1>4. GoesOn(w, "CountProfile", worker[w].got)
  BY <1>1, AudienceCall
<1>5. PICK x \in Roles : x = worker[w].on
  BY <1>3
<1>6. /\ role' \in [Roles -> RoleRows]
      /\ role'[x].creator = role[x].creator
      /\ role'[x].follow = role[x].follow + FollowsBy(worker[w].op)
      /\ role'[x].like = role[x].like + LikesBy(worker[w].op)
      /\ \A r \in Roles \ {x} : role'[r] = role[r]
  <2>1. CASE worker[w].op = "FollowStoryRole"
    <3>1. FollowsChange(x, 1)
      BY <1>5, <2>1 DEF CountRole, Change, FollowsChange, LikesChange
    <3>2. FollowsBy(worker[w].op) = 1 /\ LikesBy(worker[w].op) = 0
      BY <2>1 DEF FollowsBy, LikesBy
    <3> QED
      BY <3>1, <3>2, RoleIsCounted DEF AudienceBase
  <2>2. CASE worker[w].op = "UnFollowStoryRole"
    <3>1. FollowsChange(x, -1)
      BY <1>5, <2>2 DEF CountRole, Change, FollowsChange, LikesChange
    <3>2. FollowsBy(worker[w].op) = -1 /\ LikesBy(worker[w].op) = 0
      BY <2>2 DEF FollowsBy, LikesBy
    <3> QED
      BY <3>1, <3>2, RoleIsCounted DEF AudienceBase
  <2>3. CASE worker[w].op = "LikeStoryRole"
    <3>1. LikesChange(x, 1)
      BY <1>5, <2>3 DEF CountRole, Change, FollowsChange, LikesChange
    <3>2. FollowsBy(worker[w].op) = 0 /\ LikesBy(worker[w].op) = 1
      BY <2>3 DEF FollowsBy, LikesBy
    <3> QED
      BY <3>1, <3>2, RoleIsCounted DEF AudienceBase
  <2>4. CASE worker[w].op = "UnLikeStoryRole"
    <3>1. LikesChange(x, -1)
      BY <1>5, <2>4 DEF CountRole, Change, FollowsChange, LikesChange
    <3>2. FollowsBy(worker[w].op) = 0 /\ LikesBy(worker[w].op) = -1
      BY <2>4 DEF FollowsBy, LikesBy
    <3> QED
      BY <3>1, <3>2, RoleIsCounted DEF AudienceBase
  <2> QED
    BY <1>2, <2>1, <2>2, <2>3, <2>4 DEF Counting
<1>7. /\ astray' \in [role : [Roles -> Nat], user : [Users -> Nat]]
      /\ astray'.user = astray.user
      /\ \A r \in Roles \ {x} : astray'.role[r] = astray.role[r]
      /\ astray'.role[x] = IF GoesAstray(w) THEN astray.role[x] + 1 ELSE astray.role[x]
  <2>1. astray \in [role : [Roles -> Nat], user : [Users -> Nat]]
    BY DEF AudienceBase, AudienceTypeOK
  <2>2. astray' = IF GoesAstray(w) THEN [astray EXCEPT !.role[x] = @ + 1] ELSE astray
    BY <1>5 DEF CountRole
  <2>3. CASE GoesAstray(w)
    BY <2>1, <2>2, <2>3
  <2>4. CASE ~ GoesAstray(w)
    BY <2>1, <2>2, <2>4
  <2> QED
    BY <2>3, <2>4
<1>8. AudienceTypeOK'
  BY <1>1, <1>6, <1>7 DEF AudienceBase, AudienceTypeOK
<1>9. RoleDue(x)' = RoleDue(x) + NetFollows(w)
  <2>1. PICK f \in Int, a \in Nat : f = role[x].follow /\ a = astray.role[x]
    BY DEF AudienceBase, AudienceTypeOK, RoleRows
  <2>2. CASE GoesAstray(w)
    <3>1. FollowsBy(worker[w].op) = -1
      BY <2>2 DEF GoesAstray, FollowsBy
    <3>2. (f + -1) + (a + 1) = (f + a) + 0
      OBVIOUS
    <3> QED
      BY <1>6, <1>7, <2>1, <2>2, <3>1, <3>2 DEF RoleDue, NetFollows
  <2>3. CASE ~ GoesAstray(w)
    <3>1. PICK n \in {-1, 0, 1} : n = FollowsBy(worker[w].op)
      BY DEF FollowsBy
    <3>2. (f + n) + a = (f + a) + n
      BY <3>1
    <3> QED
      BY <1>6, <1>7, <2>1, <2>3, <3>1, <3>2 DEF RoleDue, NetFollows
  <2> QED
    BY <2>2, <2>3
<1>10. \A r \in Roles \ {x} : RoleDue(r)' = RoleDue(r)
  BY <1>6, <1>7 DEF RoleDue
<1>11. \A r \in Roles :
         /\ role'[r].creator = role[r].creator
         /\ RoleDue(r)' = IF r = worker[w].on THEN RoleDue(r) + NetFollows(w) ELSE RoleDue(r)
         /\ r # worker[w].on => astray'.role[r] = astray.role[r]
         /\ role'[r].like = IF r = worker[w].on THEN role[r].like + LikesBy(worker[w].op)
                            ELSE role[r].like
  BY <1>5, <1>6, <1>7, <1>9, <1>10
<1> QED
  BY <1>1, <1>2, <1>3, <1>4, <1>7, <1>8, <1>11

LEMMA CountProfileDoes ==
    ASSUME AudienceBase, NEW w \in Workers, CountProfile(w)
    PROVE  /\ worker[w].pc = "CountProfile" /\ worker[w] # Idle /\ OfARole(w)
           /\ worker[w].op \in Counting
           /\ worker[w].on \in Cast /\ worker[w].on \in Roles /\ worker[w].user \in Users
           /\ GoesOn(w, "idle", worker[w].got)
           /\ Undisturbed' => \A u \in Users :
                 /\ ProfileDue(u)' = IF u = worker[w].user
                       THEN ProfileDue(u) + NetFollows(w) ELSE ProfileDue(u)
                 /\ profile'[u].likedRoles = IF u = worker[w].user
                       THEN profile[u].likedRoles + LikesBy(worker[w].op)
                       ELSE profile[u].likedRoles
           /\ astray'.role = astray.role
           /\ UNCHANGED <<story, role, watch, like, stories, asked>>
           /\ AudienceTypeOK'
<1>1. /\ worker[w].pc = "CountProfile" /\ worker[w] # Idle
      /\ UNCHANGED <<story, role, watch, like, stories, asked>>
  BY DEF CountProfile, Idle
<1>2. OfARole(w) /\ worker[w].op \in Counting
  BY <1>1, WhoCalls DEF Counting
<1>3. worker[w].on \in Cast /\ worker[w].on \in Roles /\ worker[w].user \in Users
  BY <1>1, <1>2, RoleRequest
<1>4. CASE Logs(w, "idle") /\ UNCHANGED <<profile, astray>>
  <2>1. GoesOn(w, "idle", worker[w].got) /\ ~ Undisturbed'
    BY <1>1, <1>4, AudienceFailure
  <2>2. AudienceTypeOK' /\ astray'.role = astray.role
    BY <1>1, <1>4 DEF AudienceBase, AudienceTypeOK
  <2> QED
    BY <1>1, <1>2, <1>3, <2>1, <2>2
<1>5. CASE /\ Counted(worker[w].user, Change(worker[w].op)[2], Change(worker[w].op)[3])
           /\ astray' = IF GoesAstray(w) THEN [astray EXCEPT !.user[worker[w].user] = @ + 1]
                        ELSE astray
           /\ GoesWith(w, "idle", worker[w].got)
  <2>1. GoesOn(w, "idle", worker[w].got)
    BY <1>1, <1>5, AudienceCall
  <2>2. PICK x \in Users : x = worker[w].user
    BY <1>3
  <2>3. "watchingRoles" \in DOMAIN NoCounts /\ "likedRoles" \in DOMAIN NoCounts
    BY DEF NoCounts
  <2>4. /\ profile' \in [Users -> [DOMAIN NoCounts -> Int]]
        /\ profile'[x]["watchingRoles"] = profile[x]["watchingRoles"] + FollowsBy(worker[w].op)
        /\ profile'[x]["likedRoles"] = profile[x]["likedRoles"] + LikesBy(worker[w].op)
        /\ \A u \in Users \ {x} :
              /\ profile'[u]["watchingRoles"] = profile[u]["watchingRoles"]
              /\ profile'[u]["likedRoles"] = profile[u]["likedRoles"]
    <3>1. profile[x]["watchingRoles"] \in Int /\ profile[x]["likedRoles"] \in Int
      BY <2>3 DEF AudienceBase, AudienceTypeOK
    <3>2. AudienceTypeOK
      BY DEF AudienceBase
    <3>3. CASE worker[w].op = "FollowStoryRole"
      <4>1. Counted(x, "watchingRoles", 1)
        BY <1>5, <2>2, <3>3 DEF Change
      <4> QED
        BY <2>3, <3>1, <3>2, <3>3, <4>1, CountedIsTyped DEF FollowsBy, LikesBy
    <3>4. CASE worker[w].op = "UnFollowStoryRole"
      <4>1. Counted(x, "watchingRoles", -1)
        BY <1>5, <2>2, <3>4 DEF Change
      <4> QED
        BY <2>3, <3>1, <3>2, <3>4, <4>1, CountedIsTyped DEF FollowsBy, LikesBy
    <3>5. CASE worker[w].op = "LikeStoryRole"
      <4>1. Counted(x, "likedRoles", 1)
        BY <1>5, <2>2, <3>5 DEF Change
      <4> QED
        BY <2>3, <3>1, <3>2, <3>5, <4>1, CountedIsTyped DEF FollowsBy, LikesBy
    <3>6. CASE worker[w].op = "UnLikeStoryRole"
      <4>1. Counted(x, "likedRoles", -1)
        BY <1>5, <2>2, <3>6 DEF Change
      <4> QED
        BY <2>3, <3>1, <3>2, <3>6, <4>1, CountedIsTyped DEF FollowsBy, LikesBy
    <3> QED
      BY <1>2, <3>3, <3>4, <3>5, <3>6 DEF Counting
  <2>5. /\ astray' \in [role : [Roles -> Nat], user : [Users -> Nat]]
        /\ astray'.role = astray.role
        /\ \A u \in Users \ {x} : astray'.user[u] = astray.user[u]
        /\ astray'.user[x] = IF GoesAstray(w) THEN astray.user[x] + 1 ELSE astray.user[x]
    <3>1. astray \in [role : [Roles -> Nat], user : [Users -> Nat]]
      BY DEF AudienceBase, AudienceTypeOK
    <3>2. astray' = IF GoesAstray(w) THEN [astray EXCEPT !.user[x] = @ + 1] ELSE astray
      BY <1>5, <2>2
    <3>3. CASE GoesAstray(w)
      BY <3>1, <3>2, <3>3
    <3>4. CASE ~ GoesAstray(w)
      BY <3>1, <3>2, <3>4
    <3> QED
      BY <3>3, <3>4
  <2>6. AudienceTypeOK'
    BY <1>1, <2>4, <2>5 DEF AudienceBase, AudienceTypeOK
  <2>7. ProfileDue(x)' = ProfileDue(x) + NetFollows(w)
    <3>1. PICK f \in Int, a \in Nat : f = profile[x]["watchingRoles"] /\ a = astray.user[x]
      BY <2>3 DEF AudienceBase, AudienceTypeOK
    <3>2. CASE GoesAstray(w)
      <4>1. FollowsBy(worker[w].op) = -1
        BY <3>2 DEF GoesAstray, FollowsBy
      <4>2. (f + -1) + (a + 1) = (f + a) + 0
        OBVIOUS
      <4> QED
        BY <2>4, <2>5, <3>1, <3>2, <4>1, <4>2 DEF ProfileDue, NetFollows
    <3>3. CASE ~ GoesAstray(w)
      <4>1. PICK n \in {-1, 0, 1} : n = FollowsBy(worker[w].op)
        BY DEF FollowsBy
      <4>2. (f + n) + a = (f + a) + n
        BY <4>1
      <4> QED
        BY <2>4, <2>5, <3>1, <3>3, <4>1, <4>2 DEF ProfileDue, NetFollows
    <3> QED
      BY <3>2, <3>3
  <2>8. \A u \in Users \ {x} : ProfileDue(u)' = ProfileDue(u)
    BY <2>4, <2>5 DEF ProfileDue
  <2>9. \A u \in Users :
          /\ ProfileDue(u)' = IF u = worker[w].user THEN ProfileDue(u) + NetFollows(w)
                              ELSE ProfileDue(u)
          /\ profile'[u].likedRoles = IF u = worker[w].user
                THEN profile[u].likedRoles + LikesBy(worker[w].op) ELSE profile[u].likedRoles
    BY <2>2, <2>4, <2>7, <2>8
  <2> QED
    BY <1>1, <1>2, <1>3, <2>1, <2>5, <2>6, <2>9
<1> QED
  BY <1>4, <1>5 DEF CountProfile, Goes

LEMMA InsertRoleKeeps ==
    ASSUME AudienceBase, NEW w \in Workers, InsertRole(w)
    PROVE  AudienceBase'
<1>1. /\ worker[w] # Idle /\ OfARole(w) /\ worker[w].op = "CreateStoryRole"
      /\ AudienceTypeOK' /\ UNCHANGED <<story, asked>> /\ Cast \subseteq Cast'
  BY InsertRoleDoes
<1>2. PICK pc \in {"CountRoleWatches", "idle"} :
         /\ GoesOn(w, pc, worker[w].got) /\ (pc # "idle" => worker[w].on \in Cast')
  BY InsertRoleDoes
<1>3. pc \in RoleCalls(worker[w].op) \cup {"idle"}
  BY <1>1 DEF RoleCalls
<1> QED
  BY <1>1, <1>2, <1>3, RoleCallKeeps DEF OfARole

LEMMA CountRoleWatchesKeeps ==
    ASSUME AudienceBase, NEW w \in Workers, CountRoleWatches(w)
    PROVE  AudienceBase'
<1>1. /\ worker[w] # Idle /\ OfARole(w) /\ worker[w].op = "CreateStoryRole"
      /\ AudienceTypeOK' /\ UNCHANGED audience /\ worker[w].on \in Cast
  BY CountRoleWatchesDoes
<1>2. PICK pc \in {"WatchRole", "idle"} : GoesOn(w, pc, worker[w].got)
  BY CountRoleWatchesDoes
<1>3. pc \in RoleCalls(worker[w].op) \cup {"idle"} /\ worker[w].got \in NamedStories
  BY <1>1 DEF RoleCalls, OfARole
<1>4. Cast' = Cast /\ UNCHANGED <<story, asked>>
  BY <1>1 DEF Cast, audience
<1> QED
  BY <1>1, <1>2, <1>3, <1>4, RoleCallKeeps DEF OfARole

LEMMA WatchRoleKeeps ==
    ASSUME AudienceBase, NEW w \in Workers, WatchStoryRole(w)
    PROVE  AudienceBase'
<1>1. /\ worker[w] # Idle /\ OfARole(w)
      /\ AudienceTypeOK' /\ UNCHANGED <<story, role, asked>> /\ worker[w].on \in Cast
  BY WatchRoleDoes
<1>2. PICK pc \in {"CountRole", "idle"} :
         /\ GoesOn(w, pc, worker[w].got) /\ (pc # "idle" => worker[w].op = "FollowStoryRole")
  BY WatchRoleDoes
<1>3. pc \in RoleCalls(worker[w].op) \cup {"idle"}
  BY <1>2 DEF RoleCalls
<1>4. Cast' = Cast
  BY <1>1 DEF Cast
<1> QED
  BY <1>1, <1>2, <1>3, <1>4, RoleCallKeeps DEF OfARole

LEMMA UnWatchRoleKeeps ==
    ASSUME AudienceBase, NEW w \in Workers, UnWatchStoryRole(w)
    PROVE  AudienceBase'
<1>1. /\ worker[w] # Idle /\ OfARole(w) /\ worker[w].op = "UnFollowStoryRole"
      /\ AudienceTypeOK' /\ UNCHANGED <<story, role, asked>> /\ worker[w].on \in Cast
      /\ GoesOn(w, "CountRole", worker[w].got)
  BY UnWatchRoleDoes
<1>2. "CountRole" \in RoleCalls(worker[w].op)
  BY <1>1 DEF RoleCalls
<1>3. Cast' = Cast
  BY <1>1 DEF Cast
<1> QED
  BY <1>1, <1>2, <1>3, RoleCallKeeps DEF OfARole

LEMMA CountRoleKeeps ==
    ASSUME AudienceBase, NEW w \in Workers, CountRole(w)
    PROVE  AudienceBase'
<1>1. /\ worker[w] # Idle /\ OfARole(w) /\ worker[w].op \in Counting
      /\ AudienceTypeOK' /\ UNCHANGED <<story, asked>> /\ worker[w].on \in Cast
      /\ \A r \in Roles : role'[r].creator = role[r].creator
      /\ GoesOn(w, "CountProfile", worker[w].got)
  BY CountRoleDoes
<1>2. "CountProfile" \in RoleCalls(worker[w].op)
  BY <1>1 DEF RoleCalls, Counting
<1>3. Cast' = Cast
  BY <1>1 DEF Cast
<1> QED
  BY <1>1, <1>2, <1>3, RoleCallKeeps DEF OfARole

LEMMA CountProfileKeeps ==
    ASSUME AudienceBase, NEW w \in Workers, CountProfile(w)
    PROVE  AudienceBase'
<1>1. /\ worker[w] # Idle /\ OfARole(w)
      /\ AudienceTypeOK' /\ UNCHANGED <<story, role, asked>>
      /\ GoesOn(w, "idle", worker[w].got)
  BY CountProfileDoes
<1>2. Cast' = Cast
  BY <1>1 DEF Cast
<1> QED
  BY <1>1, <1>2, RoleCallKeeps DEF OfARole

LEMMA CutOffKeeps ==
    ASSUME AudienceBase, NEW w \in Workers, CutOff(w), UNCHANGED audience
    PROVE  AudienceBase' /\ ~ Undisturbed'
<1>1. worker[w] # Idle /\ Logs(w, "idle")
  BY DEF CutOff, Busy
<1>2. GoesOn(w, "idle", worker[w].got) /\ ~ Undisturbed'
  BY <1>1, AudienceFailure
<1>3. /\ AudienceTypeOK' /\ Cast' = Cast
      /\ UNCHANGED <<story, role, asked>>
  BY DEF audience, AudienceBase, AudienceTypeOK, Cast
<1>4. OfAStory(w) \/ OfARole(w)
  BY <1>1 DEF AudienceBase, AudienceLocals
<1> QED
  BY <1>1, <1>2, <1>3, <1>4, StoryCallKeeps, RoleCallKeeps DEF OfARole

\* How the request of user u about role r begins.
Arrives(w, u, r, op, pc) ==
    /\ MovesAlone(w) /\ worker[w] = Idle
    /\ \E got : worker'[w] = [pc |-> pc, user |-> u, op |-> op, on |-> r, got |-> got]

\* A request about a role arrives, and may change the like items.
LEMMA RoleArrives ==
    ASSUME AudienceBase, NEW w \in Workers, NEW u \in Users, NEW op, NEW r \in Roles,
           NEW pc \in RoleCalls(op), NEW got \in NamedStories, Takes(w, u, op, r, pc, got),
           pc = "InsertRole" \/ r \in Cast,
           UNCHANGED <<story, role, watch, profile, stories, asked, astray>>,
           like' \in SUBSET Items
    PROVE  AudienceBase' /\ Arrives(w, u, r, op, pc)
<1>1. /\ MovesAlone(w) /\ worker[w] = Idle
      /\ worker'[w] = [pc |-> pc, user |-> u, op |-> op, on |-> r, got |-> got]
  BY AudienceArrival
<1>2. AudienceTypeOK' /\ Cast' = Cast
  BY DEF AudienceBase, AudienceTypeOK, Cast
<1>3. Grows
  BY <1>2, NothingGrows
<1>4. AudienceLocals(w)'
  <2>1. /\ worker'[w].pc = pc /\ worker'[w].user = u /\ worker'[w].op = op
        /\ worker'[w].on = r /\ worker'[w].got = got
    BY <1>1
  <2> QED
    BY <1>2, <2>1 DEF AudienceLocals, OfARole
<1>5. \A s \in Written' : EarnedBy(s, story[s])'
  BY <1>2, <1>3, RowsStayEarned
<1> QED
  BY <1>1, <1>2, <1>3, <1>4, <1>5, StepKeepsBase DEF Arrives

LEMMA RoleRequestsDo ==
    ASSUME AudienceBase, NEW w \in Workers, NEW u \in Users, NEW s \in NamedStories, NEW r \in Roles,
           \/ CreateStoryRole(w, u, r)
           \/ FollowStoryRole(w, u, s, r) \/ UnFollowStoryRole(w, u, s, r)
           \/ LikeStoryRole(w, u, s, r) \/ UnLikeStoryRole(w, u, s, r)
    PROVE  /\ AudienceBase'
           /\ UNCHANGED <<story, role, watch, profile, stories, asked, astray>>
           /\ \/ Arrives(w, u, r, "CreateStoryRole", "InsertRole")
              \/ Arrives(w, u, r, "FollowStoryRole", "WatchRole") /\ u \notin Followers(r)
              \/ Arrives(w, u, r, "UnFollowStoryRole", "UnWatchRole") /\ u \in Followers(r)
              \/ Arrives(w, u, r, "LikeStoryRole", "CountRole")
              \/ Arrives(w, u, r, "UnLikeStoryRole", "CountRole")
<1>1. like \in SUBSET Items /\ RoleStory[r] \in NamedStories
  BY AudienceAssumption DEF AudienceBase, AudienceTypeOK, NamedStories
<1>2. CASE CreateStoryRole(w, u, r)
  <2>1. /\ Takes(w, u, "CreateStoryRole", r, "InsertRole", RoleStory[r])
        /\ UNCHANGED <<story, role, watch, like, profile, stories, asked, astray>>
    BY <1>2 DEF CreateStoryRole, audience
  <2>2. "InsertRole" \in RoleCalls("CreateStoryRole")
    BY DEF RoleCalls
  <2> QED
    BY <1>1, <2>1, <2>2, RoleArrives
<1>3. CASE FollowStoryRole(w, u, s, r)
  <2>1. /\ Takes(w, u, "FollowStoryRole", r, "WatchRole", s) /\ r \in Cast
        /\ UNCHANGED <<story, role, watch, like, profile, stories, asked, astray>>
        /\ u \notin Followers(r)
    BY <1>3 DEF FollowStoryRole, Begins, audience, Follows
  <2>2. "WatchRole" \in RoleCalls("FollowStoryRole")
    BY DEF RoleCalls
  <2> QED
    BY <1>1, <2>1, <2>2, RoleArrives
<1>4. CASE UnFollowStoryRole(w, u, s, r)
  <2>1. /\ Takes(w, u, "UnFollowStoryRole", r, "UnWatchRole", s) /\ r \in Cast
        /\ UNCHANGED <<story, role, watch, like, profile, stories, asked, astray>>
        /\ u \in Followers(r)
    BY <1>4 DEF UnFollowStoryRole, Begins, audience, Follows
  <2>2. "UnWatchRole" \in RoleCalls("UnFollowStoryRole")
    BY DEF RoleCalls
  <2> QED
    BY <1>1, <2>1, <2>2, RoleArrives
<1>5. CASE LikeStoryRole(w, u, s, r)
  <2>1. /\ Takes(w, u, "LikeStoryRole", r, "CountRole", s) /\ r \in Cast
        /\ UNCHANGED <<story, role, watch, profile, stories, asked, astray>>
        /\ like' = like \cup {Item(u, s, r)}
    BY <1>5 DEF LikeStoryRole, Begins
  <2>2. "CountRole" \in RoleCalls("LikeStoryRole") /\ like' \in SUBSET Items
    BY <1>1, <2>1 DEF RoleCalls, Items, Item
  <2> QED
    BY <2>1, <2>2, RoleArrives
<1>6. CASE UnLikeStoryRole(w, u, s, r)
  <2>1. /\ Takes(w, u, "UnLikeStoryRole", r, "CountRole", s) /\ r \in Cast
        /\ UNCHANGED <<story, role, watch, profile, stories, asked, astray>>
        /\ like' = like \ {Item(u, s, r)}
    BY <1>6 DEF UnLikeStoryRole, Begins
  <2>2. "CountRole" \in RoleCalls("UnLikeStoryRole") /\ like' \in SUBSET Items
    BY <1>1, <2>1 DEF RoleCalls
  <2> QED
    BY <2>1, <2>2, RoleArrives
<1> QED
  BY <1>2, <1>3, <1>4, <1>5, <1>6

\* What the stories' requests leave alone: the roles and who follows them.
LeavesRoles ==
    /\ UNCHANGED <<role, astray>>
    /\ \A r \in Roles : Followers(r)' = Followers(r)
    /\ \A u \in Users : /\ profile'[u].watchingRoles = profile[u].watchingRoles
                        /\ profile'[u].likedRoles = profile[u].likedRoles

LEMMA AudienceNextKeepsBase ==
    ASSUME AudienceBase, [AudienceNext]_audienceSpecVars
    PROVE  AudienceBase'
<1>1. CASE UNCHANGED audienceSpecVars
  <2>1. /\ UNCHANGED <<worker, faults, overlapped>> /\ UNCHANGED audience
        /\ UNCHANGED <<story, role, asked>>
    BY <1>1 DEF audienceSpecVars, requestVars, audience
  <2>2. AudienceTypeOK' /\ Shaped' /\ AloneInv' /\ Written' = Written /\ Cast' = Cast
    BY <2>1 DEF AudienceBase, AudienceTypeOK, audience, Shaped, AloneInv, Alone, Busy,
                Written, Cast
  <2>3. \A v \in Workers : AudienceLocals(v)'
    <3> SUFFICES ASSUME NEW v \in Workers
                 PROVE  AudienceLocals(v)'
      OBVIOUS
    <3>1. AudienceLocals(v)
      BY DEF AudienceBase
    <3> QED
      BY <2>1, <2>2, <3>1 DEF AudienceLocals, OfAStory, OfARole, EarnedBy
  <2>4. Grows
    BY <2>1, <2>2, NothingGrows
  <2>5. \A s \in Written' : EarnedBy(s, story[s])'
    BY <2>1, <2>2, <2>4, RowsStayEarned
  <2> QED
    BY <2>1, <2>2, <2>3, <2>5 DEF AudienceBase
<1>2. CASE \E w \in Workers : AudienceStep(w)
  BY <1>2, IncGroupProfileStoryCountKeeps, IncrementCreatedStoryNumKeeps,
     IncrementWatchingStoryNumKeeps, CountWatchesKeeps, InsertWatchKeeps, CountFollowerKeeps,
     GetWatchItemKeeps, CreateLikeStoryItemKeeps, GetStoryKeeps, SaveStoryKeeps,
     DeleteLikeItemKeeps, CountLikedStoryKeeps, InsertRoleKeeps, CountRoleWatchesKeeps,
     WatchRoleKeeps, UnWatchRoleKeeps, CountRoleKeeps, CountProfileKeeps, CutOffKeeps DEF AudienceStep
<1>3. CASE \E w \in Workers, u \in Users, s \in Stories :
              \/ CreateStory(w, u, s) \/ WatchStory(w, u, s)
              \/ LikeStory(w, u, s) \/ UnLikeStory(w, u, s)
  BY <1>3, CreateStoryKeeps, StoryRequestsKeep
<1>4. CASE \E s \in Stories, status \in {-1, 0}, closes \in BOOLEAN :
              UpdateStory(s, status, closes)
  BY <1>4, UpdateStoryKeeps
<1>5. CASE \E w \in Workers, u \in Users, r \in Roles : CreateStoryRole(w, u, r)
  <2>1. None \in NamedStories
    BY DEF NamedStories
  <2> QED
    BY <1>5, <2>1, RoleRequestsDo
<1>6. CASE \E w \in Workers, u \in Users, s \in NamedStories, r \in Roles :
              \/ FollowStoryRole(w, u, s, r) \/ UnFollowStoryRole(w, u, s, r)
              \/ LikeStoryRole(w, u, s, r) \/ UnLikeStoryRole(w, u, s, r)
  BY <1>6, RoleRequestsDo
<1> QED
  BY <1>1, <1>2, <1>3, <1>4, <1>5, <1>6 DEF AudienceNext

-----------------------------------------------------------------------------
(* Audience: steps that no count of a role depends on.                     *)

\* A request that a tally, or the sum of the likes, makes allowance for.
Weighs(w) ==
    \/ worker[w].op = "CreateStoryRole" /\ worker[w].pc \in Watching
    \/ /\ worker[w].op \in {"FollowStoryRole", "UnFollowStoryRole"}
       /\ worker[w].pc \in {"CountRole", "CountProfile"}
    \/ /\ worker[w].op \in {"LikeStoryRole", "UnLikeStoryRole"}
       /\ worker[w].pc = "CountProfile"

Unweighed ==
    \A v \in Workers : worker'[v] = worker[v] \/ (~ Weighs(v) /\ ~ Weighs(v)' /\ Knows(v)')

SameIn(pcs, u, r) == HasIn(pcs, u, r)' <=> HasIn(pcs, u, r)

InRole == {"CountRole"}

InProfile == {"CountRole", "CountProfile"}

\* A request that does not move knows what it knew.
LEMMA KnowsStays ==
    ASSUME AudienceBase, NEW w \in Workers, Knows(w), worker'[w] = worker[w],
           \A r \in Roles : worker[w].user \in Followers(r)' <=> worker[w].user \in Followers(r),
           \A r \in Cast : role'[r].creator = role[r].creator
    PROVE  Knows(w)'
<1>1. CASE worker[w].op \in {"CreateStoryRole", "FollowStoryRole", "UnFollowStoryRole"}
  <2>1. worker[w] # Idle
    BY <1>1 DEF Idle
  <2>2. OfARole(w)
    <3>1. ~ OfAStory(w)
      BY <1>1 DEF OfAStory, StoryCalls
    <3> QED
      BY <2>1, <3>1 DEF AudienceBase, AudienceLocals
  <2>3. PICK r \in Roles : r = worker[w].on
    BY <2>2 DEF OfARole
  <2>4. PICK u : u = worker[w].user
    OBVIOUS
  <2>5. u \in Followers(r)' <=> u \in Followers(r)
    BY <2>4
  <2>6. worker[w].pc \in Watching => role'[r].creator = role[r].creator
    BY <2>2, <2>3 DEF OfARole, Watching
  <2>7. worker'[w].on = r /\ worker'[w].user = u
    BY <2>3, <2>4
  <2> QED
    BY <2>3, <2>4, <2>5, <2>6, <2>7 DEF Knows
<1>2. CASE worker[w].op \notin {"CreateStoryRole", "FollowStoryRole", "UnFollowStoryRole"}
  BY <1>2 DEF Knows
<1> QED
  BY <1>1, <1>2

LEMMA FollowsStay ==
    ASSUME AudienceBase, FollowsCounted, Cast' = Cast,
           \A r \in Roles : /\ role'[r].creator = role[r].creator
                            /\ role'[r].follow = role[r].follow,
           \A u \in Users : profile'[u].watchingRoles = profile[u].watchingRoles,
           UNCHANGED astray,
           \A r \in Roles \ Cast : Followers(r)' = {},
           \A u \in Users : \A r \in Roles : SameIn(InRole, u, r) /\ SameIn(InProfile, u, r)
    PROVE  FollowsCounted'
<1>1. ASSUME NEW r \in Roles
      PROVE  RoleTally(r)' = RoleTally(r)
  BY DEF RoleTally, SameIn, InRole
<1>2. ASSUME NEW u \in Users
      PROVE  ProfileTally(u)' = ProfileTally(u) /\ CastBy(u)' = CastBy(u)
  BY DEF ProfileTally, SameIn, InProfile, CastBy, Cast
<1>3. ASSUME NEW r \in Roles
      PROVE  /\ IsFiniteSet(RoleTally(r)')
             /\ IF r \in Cast' THEN RoleDue(r)' = Cardinality(RoleTally(r)')
                ELSE Followers(r)' = {} /\ astray'.role[r] = 0
  BY <1>1 DEF FollowsCounted, RoleDue
<1>4. ASSUME NEW u \in Users
      PROVE  /\ IsFiniteSet(ProfileTally(u)') /\ IsFiniteSet(CastBy(u)')
             /\ ProfileDue(u)' = Cardinality(ProfileTally(u)') - Cardinality(CastBy(u)')
  BY <1>2 DEF FollowsCounted, ProfileDue
<1> QED
  BY <1>3, <1>4 DEF FollowsCounted

LEMMA LikesStay ==
    ASSUME LikesCounted, Cast' = Cast,
           \A r \in Cast : role'[r].like = role[r].like,
           \A u \in Users : profile'[u].likedRoles = profile[u].likedRoles,
           Halfway("LikeStoryRole")' = Halfway("LikeStoryRole"),
           Halfway("UnLikeStoryRole")' = Halfway("UnLikeStoryRole")
    PROVE  LikesCounted'
<1>1. RoleLikes' = RoleLikes /\ ProfileLikes' = ProfileLikes
  BY DEF RoleLikes, ProfileLikes
<1>2. /\ Adds(RoleLikes)' /\ Adds(ProfileLikes)'
      /\ Summed(RoleLikes)' = Summed(RoleLikes) /\ Summed(ProfileLikes)' = Summed(ProfileLikes)
  BY <1>1 DEF LikesCounted, Adds, Summed, Above, Below
<1> QED
  BY <1>2 DEF LikesCounted

LEMMA CountsStay ==
    ASSUME AudienceBase, \A w \in Workers : Knows(w), FollowsCounted, LikesCounted,
           LeavesRoles, Unweighed
    PROVE  (\A w \in Workers : Knows(w)') /\ FollowsCounted' /\ LikesCounted'
<1>1. Cast' = Cast
  BY DEF LeavesRoles, Cast
<1>2. ASSUME NEW w \in Workers
      PROVE  Knows(w)'
  <2>1. CASE worker'[w] = worker[w]
    BY <2>1, <1>1, KnowsStays DEF LeavesRoles
  <2>2. CASE worker'[w] # worker[w]
    BY <2>2 DEF Unweighed
  <2> QED
    BY <2>1, <2>2
<1>3. ASSUME NEW u \in Users, NEW r \in Roles, NEW pcs \in SUBSET InProfile
      PROVE  SameIn(pcs, u, r)
  <2>1. \A op \in {"FollowStoryRole", "UnFollowStoryRole"} :
           Makes(pcs, op, u, r)' <=> Makes(pcs, op, u, r)
    BY DEF Makes, Unweighed, Weighs, InProfile
  <2>2. Makes(Watching, "CreateStoryRole", u, r)'
           <=> Makes(Watching, "CreateStoryRole", u, r)
    BY DEF Makes, Unweighed, Weighs
  <2>3. u \in Followers(r)' <=> u \in Followers(r)
    BY DEF LeavesRoles
  <2> QED
    BY <2>1, <2>2, <2>3 DEF SameIn, HasIn
<1>4. FollowsCounted'
  <2>1. InRole \in SUBSET InProfile /\ InProfile \in SUBSET InProfile
    BY DEF InRole, InProfile
  <2>2. \A r \in Roles \ Cast : Followers(r)' = {}
    BY DEF LeavesRoles, FollowsCounted
  <2> QED
    BY <1>1, <1>3, <2>1, <2>2, FollowsStay DEF LeavesRoles
<1>5. LikesCounted'
  <2>1. /\ Halfway("LikeStoryRole")' = Halfway("LikeStoryRole")
        /\ Halfway("UnLikeStoryRole")' = Halfway("UnLikeStoryRole")
    BY DEF Halfway, Unweighed, Weighs
  <2> QED
    BY <1>1, <2>1, LikesStay DEF LeavesRoles, Cast
<1> QED
  BY <1>2, <1>4, <1>5

LEMMA StoryCallIsUnweighed ==
    ASSUME AudienceBase, NEW w \in Workers, worker[w] # Idle, OfAStory(w), NEW pc, NEW got,
           GoesWith(w, pc, got) \/ Logs(w, pc)
    PROVE  Unweighed
<1>1. PICK known : GoesOn(w, pc, known)
  BY AudienceCall, AudienceFailure
<1>2. worker'[w] = Idle \/ worker'[w].op = worker[w].op
  BY <1>1 DEF GoesOn
<1>3. worker[w].op \in {"CreateStory", "WatchStory", "LikeStory", "UnLikeStory"}
  BY DEF OfAStory, StoryCalls
<1>4. worker'[w].op \in {"CreateStory", "WatchStory", "LikeStory", "UnLikeStory", "none"}
  BY <1>2, <1>3 DEF Idle
<1>5. ~ Weighs(w) /\ ~ Weighs(w)' /\ Knows(w)'
  BY <1>3, <1>4 DEF Weighs, Knows
<1> QED
  BY <1>1, <1>5 DEF Unweighed, GoesOn, MovesAlone, OnlyMoves

\* Only a watch item of the story itself, or another count of a profile.
LEMMA StoryRowsLeaveRoles ==
    ASSUME AudienceBase, UNCHANGED <<role, astray>>,
           \/ UNCHANGED watch
           \/ \E u, s : watch' = watch \cup {Item(u, s, None)},
           \/ UNCHANGED profile
           \/ \E u \in Users, c \in DOMAIN NoCounts \ {"watchingRoles", "likedRoles"}, n \in Int :
                 Counted(u, c, n)
    PROVE  LeavesRoles
<1>1. ASSUME NEW r \in Roles
      PROVE  Followers(r)' = Followers(r)
  <2>1. \A u, s : Item(u, s, None).role # r
    BY AudienceAssumption DEF Item
  <2> QED
    BY <2>1 DEF Followers
<1>2. ASSUME NEW v \in Users
      PROVE  /\ profile'[v]["watchingRoles"] = profile[v]["watchingRoles"]
             /\ profile'[v]["likedRoles"] = profile[v]["likedRoles"]
  <2>1. "watchingRoles" \in DOMAIN NoCounts /\ "likedRoles" \in DOMAIN NoCounts
    BY DEF NoCounts
  <2> QED
    BY <2>1, CountedIsTyped DEF AudienceBase
<1> QED
  BY <1>1, <1>2 DEF LeavesRoles

LEMMA StoryStepsCountNothing ==
    ASSUME AudienceBase, NEW w \in Workers,
           \/ IncGroupProfileStoryCount(w) \/ IncrementCreatedStoryNum(w)
           \/ IncrementWatchingStoryNum(w) \/ CountWatches(w) \/ InsertWatch(w)
           \/ CountFollower(w) \/ GetWatchItemByStoryAndUser(w)
           \/ CreateLikeStoryItem(w) \/ GetStory(w) \/ SaveStory(w)
           \/ DeleteLikeItem(w) \/ CountLikedStory(w)
    PROVE  LeavesRoles /\ Unweighed
<1>1. {"createdStories", "watchingStories", "likedStories"}
         \subseteq DOMAIN NoCounts \ {"watchingRoles", "likedRoles"}
  BY DEF NoCounts
<1>2. ASSUME worker[w].pc \in {"IncGroupProfileStoryCount", "IncrementCreatedStoryNum",
                               "IncrementWatchingStoryNum", "CountWatches", "InsertWatch",
                               "CountFollower", "GetWatchItemByStoryAndUser",
                               "CreateLikeStoryItem", "GetStory", "SaveStory",
                               "DeleteLikeItem", "CountLikedStory"}
      PROVE  worker[w] # Idle /\ OfAStory(w) /\ worker[w].user \in Users
  <2>1. worker[w] # Idle
    BY <1>2 DEF Idle
  <2> QED
    BY <1>2, <2>1, WhoCalls
<1>3. CASE IncGroupProfileStoryCount(w)
  <2>1. worker[w].pc = "IncGroupProfileStoryCount" /\ UNCHANGED <<role, watch, profile, astray>>
    BY <1>3 DEF IncGroupProfileStoryCount
  <2>2. \E pc, got : GoesWith(w, pc, got) \/ Logs(w, pc)
    BY <1>3 DEF IncGroupProfileStoryCount, Goes
  <2> QED
    BY <1>2, <2>1, <2>2, StoryRowsLeaveRoles, StoryCallIsUnweighed
<1>4. CASE IncrementCreatedStoryNum(w)
  <2>1. /\ worker[w].pc = "IncrementCreatedStoryNum" /\ UNCHANGED <<role, watch, astray>>
        /\ UNCHANGED profile \/ Counted(worker[w].user, "createdStories", 1)
    BY <1>4 DEF IncrementCreatedStoryNum
  <2>2. \E pc, got : GoesWith(w, pc, got) \/ Logs(w, pc)
    BY <1>4 DEF IncrementCreatedStoryNum, Goes
  <2> QED
    BY <1>1, <1>2, <2>1, <2>2, StoryRowsLeaveRoles, StoryCallIsUnweighed
<1>5. CASE IncrementWatchingStoryNum(w)
  <2>1. /\ worker[w].pc = "IncrementWatchingStoryNum" /\ UNCHANGED <<role, watch, astray>>
        /\ UNCHANGED profile \/ Counted(worker[w].user, "watchingStories", 1)
    BY <1>5 DEF IncrementWatchingStoryNum
  <2>2. \E pc, got : GoesWith(w, pc, got) \/ Logs(w, pc)
    BY <1>5 DEF IncrementWatchingStoryNum, Goes
  <2> QED
    BY <1>1, <1>2, <2>1, <2>2, StoryRowsLeaveRoles, StoryCallIsUnweighed
<1>6. CASE CountWatches(w)
  <2>1. worker[w].pc = "CountWatches" /\ UNCHANGED <<role, watch, profile, astray>>
    BY <1>6 DEF CountWatches, audience
  <2>2. \E pc, got : GoesWith(w, pc, got) \/ Logs(w, pc)
    BY <1>6 DEF CountWatches, Goes
  <2> QED
    BY <1>2, <2>1, <2>2, StoryRowsLeaveRoles, StoryCallIsUnweighed
<1>7. CASE InsertWatch(w)
  <2>1. /\ worker[w].pc = "InsertWatch" /\ UNCHANGED <<role, profile, astray>>
        /\ \E u, s : watch' = watch \cup {Item(u, s, None)}
    BY <1>7 DEF InsertWatch
  <2>2. \E pc, got : GoesWith(w, pc, got) \/ Logs(w, pc)
    BY <1>7 DEF InsertWatch, Goes
  <2> QED
    BY <1>2, <2>1, <2>2, StoryRowsLeaveRoles, StoryCallIsUnweighed
<1>8. CASE CountFollower(w)
  <2>1. worker[w].pc = "CountFollower" /\ UNCHANGED <<role, watch, profile, astray>>
    BY <1>8 DEF CountFollower
  <2>2. \E pc, got : GoesWith(w, pc, got) \/ Logs(w, pc)
    BY <1>8 DEF CountFollower, Goes
  <2> QED
    BY <1>2, <2>1, <2>2, StoryRowsLeaveRoles, StoryCallIsUnweighed
<1>9. CASE GetWatchItemByStoryAndUser(w)
  <2>1. worker[w].pc = "GetWatchItemByStoryAndUser" /\ UNCHANGED <<role, watch, profile, astray>>
    BY <1>9 DEF GetWatchItemByStoryAndUser, audience
  <2>2. \E pc, got : GoesWith(w, pc, got) \/ Logs(w, pc)
    BY <1>9 DEF GetWatchItemByStoryAndUser, Goes
  <2> QED
    BY <1>2, <2>1, <2>2, StoryRowsLeaveRoles, StoryCallIsUnweighed
<1>10. CASE CreateLikeStoryItem(w)
  <2>1. worker[w].pc = "CreateLikeStoryItem" /\ UNCHANGED <<role, watch, profile, astray>>
    BY <1>10 DEF CreateLikeStoryItem
  <2>2. \E pc, got : GoesWith(w, pc, got) \/ Logs(w, pc)
    BY <1>10 DEF CreateLikeStoryItem, Goes
  <2> QED
    BY <1>2, <2>1, <2>2, StoryRowsLeaveRoles, StoryCallIsUnweighed
<1>11. CASE GetStory(w)
  <2>1. worker[w].pc = "GetStory" /\ UNCHANGED <<role, watch, profile, astray>>
    BY <1>11 DEF GetStory, audience
  <2>2. \E pc, got : GoesWith(w, pc, got) \/ Logs(w, pc)
    BY <1>11 DEF GetStory
  <2> QED
    BY <1>2, <2>1, <2>2, StoryRowsLeaveRoles, StoryCallIsUnweighed
<1>12. CASE SaveStory(w)
  <2>1. worker[w].pc = "SaveStory" /\ UNCHANGED <<role, watch, profile, astray>>
    BY <1>12 DEF SaveStory
  <2>2. \E pc, got : GoesWith(w, pc, got) \/ Logs(w, pc)
    BY <1>12 DEF SaveStory, Goes
  <2> QED
    BY <1>2, <2>1, <2>2, StoryRowsLeaveRoles, StoryCallIsUnweighed
<1>13. CASE DeleteLikeItem(w)
  <2>1. worker[w].pc = "DeleteLikeItem" /\ UNCHANGED <<role, watch, profile, astray>>
    BY <1>13 DEF DeleteLikeItem
  <2>2. \E pc, got : GoesWith(w, pc, got) \/ Logs(w, pc)
    BY <1>13 DEF DeleteLikeItem, Goes
  <2> QED
    BY <1>2, <2>1, <2>2, StoryRowsLeaveRoles, StoryCallIsUnweighed
<1>14. CASE CountLikedStory(w)
  <2>1. /\ worker[w].pc = "CountLikedStory" /\ UNCHANGED <<role, watch, astray>>
        /\ UNCHANGED profile \/ \E n \in {1, -1} : Counted(worker[w].user, "likedStories", n)
    BY <1>14 DEF CountLikedStory
  <2>2. \E pc, got : GoesWith(w, pc, got) \/ Logs(w, pc)
    BY <1>14 DEF CountLikedStory, Goes
  <2>3. {1, -1} \subseteq Int
    OBVIOUS
  <2> QED
    BY <1>1, <1>2, <2>1, <2>2, <2>3, StoryRowsLeaveRoles, StoryCallIsUnweighed
<1> QED
  BY <1>3, <1>4, <1>5, <1>6, <1>7, <1>8, <1>9, <1>10, <1>11, <1>12, <1>13, <1>14

LEMMA StoryRequestsCountNothing ==
    ASSUME AudienceBase, NEW w \in Workers, NEW u \in Users, NEW s \in Stories,
           \/ CreateStory(w, u, s) \/ WatchStory(w, u, s)
           \/ LikeStory(w, u, s) \/ UnLikeStory(w, u, s)
    PROVE  LeavesRoles /\ Unweighed /\ (Undisturbed' => Undisturbed)
<1>1. UNCHANGED <<role, watch, profile, astray>>
  BY DEF CreateStory, WatchStory, LikeStory, UnLikeStory, audience
<1>2. PICK op, x, pc, got :
         /\ op \in {"CreateStory", "WatchStory", "LikeStory", "UnLikeStory"}
         /\ Takes(w, u, op, x, pc, got)
  BY DEF CreateStory, WatchStory, LikeStory, UnLikeStory, Begins
<1>3. /\ MovesAlone(w) /\ worker[w] = Idle
      /\ worker'[w] = [pc |-> pc, user |-> u, op |-> op, on |-> x, got |-> got]
  BY <1>2, AudienceArrival
<1>4. worker[w].op = "none" /\ worker'[w].op = op
  BY <1>3 DEF Idle
<1>5. ~ Weighs(w) /\ ~ Weighs(w)' /\ Knows(w)'
  BY <1>2, <1>4 DEF Weighs, Knows
<1> QED
  BY <1>1, <1>3, <1>5, StoryRowsLeaveRoles DEF Unweighed, MovesAlone, OnlyMoves

LEMMA RoleRequestsCountNothing ==
    ASSUME AudienceBase, NEW w \in Workers, NEW u \in Users, NEW s \in NamedStories, NEW r \in Roles,
           \/ CreateStoryRole(w, u, r)
           \/ FollowStoryRole(w, u, s, r) \/ UnFollowStoryRole(w, u, s, r)
           \/ LikeStoryRole(w, u, s, r) \/ UnLikeStoryRole(w, u, s, r)
    PROVE  LeavesRoles /\ Unweighed /\ (Undisturbed' => Undisturbed)
<1>1. UNCHANGED <<role, watch, profile, astray>>
  BY RoleRequestsDo
<1>2. PICK op, pc, got :
         /\ MovesAlone(w) /\ worker[w] = Idle
         /\ worker'[w] = [pc |-> pc, user |-> u, op |-> op, on |-> r, got |-> got]
         /\ \/ op = "CreateStoryRole" /\ pc = "InsertRole"
            \/ op = "FollowStoryRole" /\ pc = "WatchRole" /\ u \notin Followers(r)
            \/ op = "UnFollowStoryRole" /\ pc = "UnWatchRole" /\ u \in Followers(r)
            \/ op \in {"LikeStoryRole", "UnLikeStoryRole"} /\ pc = "CountRole"
  <2>1. \A op, pc : Arrives(w, u, r, op, pc) =>
           \E got : /\ MovesAlone(w) /\ worker[w] = Idle
                   /\ worker'[w] = [pc |-> pc, user |-> u, op |-> op, on |-> r, got |-> got]
    BY DEF Arrives
  <2>2. \/ Arrives(w, u, r, "CreateStoryRole", "InsertRole")
        \/ Arrives(w, u, r, "FollowStoryRole", "WatchRole") /\ u \notin Followers(r)
        \/ Arrives(w, u, r, "UnFollowStoryRole", "UnWatchRole") /\ u \in Followers(r)
        \/ Arrives(w, u, r, "LikeStoryRole", "CountRole")
        \/ Arrives(w, u, r, "UnLikeStoryRole", "CountRole")
    BY RoleRequestsDo
  <2> QED
    BY <2>1, <2>2
<1>3. LeavesRoles
  BY <1>1, StoryRowsLeaveRoles
<1>4. /\ worker[w].op = "none" /\ worker'[w].op = op /\ worker'[w].pc = pc
      /\ worker'[w].user = u /\ worker'[w].on = r
  BY <1>2 DEF Idle
<1>5. Followers(r)' = Followers(r)
  BY <1>3 DEF LeavesRoles
<1>6. ~ Weighs(w) /\ ~ Weighs(w)' /\ Knows(w)'
  BY <1>2, <1>4, <1>5 DEF Weighs, Knows, Watching
<1> QED
  BY <1>2, <1>3, <1>6 DEF Unweighed, MovesAlone, OnlyMoves

-----------------------------------------------------------------------------
(* Audience: sums of integers.                                             *)

LEMMA InAbove ==
    ASSUME NEW f, NEW p
    PROVE  p \in Above(f) <=> \E x \in DOMAIN f : \E k \in 1 .. f[x] : p = <<x, k>>
BY DEF Above

\* One value goes up by one.
LEMMA AboveGrows ==
    ASSUME NEW f, NEW g, NEW x \in DOMAIN f, DOMAIN g = DOMAIN f,
           f[x] \in Int, g[x] = f[x] + 1, \A y \in DOMAIN f \ {x} : g[y] = f[y]
    PROVE  /\ f[x] >= 0 => /\ Above(g) = Above(f) \cup {<<x, f[x] + 1>>}
                           /\ <<x, f[x] + 1>> \notin Above(f)
           /\ f[x] < 0 => Above(g) = Above(f)
<1>1. PICK n \in Int : n = f[x]
  OBVIOUS
<1>2. ASSUME n >= 0
      PROVE  /\ Above(g) = Above(f) \cup {<<x, n + 1>>}
             /\ <<x, n + 1>> \notin Above(f)
  <2>1. 1 .. n + 1 = (1 .. n) \cup {n + 1} /\ n + 1 \notin 1 .. n
    BY <1>2
  <2>2. \A p : p \in Above(g) <=> p \in Above(f) \cup {<<x, n + 1>>}
    <3> SUFFICES ASSUME NEW p
                 PROVE  p \in Above(g) <=> p \in Above(f) \/ p = <<x, n + 1>>
      OBVIOUS
    <3>1. p \in Above(g) <=> \/ \E y \in DOMAIN f \ {x} : \E k \in 1 .. f[y] : p = <<y, k>>
                             \/ \E k \in (1 .. n) \cup {n + 1} : p = <<x, k>>
      BY <1>1, <2>1, InAbove
    <3>2. p \in Above(f) <=> \/ \E y \in DOMAIN f \ {x} : \E k \in 1 .. f[y] : p = <<y, k>>
                             \/ \E k \in 1 .. n : p = <<x, k>>
      BY <1>1, InAbove
    <3> QED
      BY <3>1, <3>2
  <2>3. <<x, n + 1>> \notin Above(f)
    BY <1>1, <2>1, InAbove
  <2> QED
    BY <2>2, <2>3
<1>3. ASSUME n < 0
      PROVE  Above(g) = Above(f)
  <2>1. 1 .. n + 1 = {} /\ 1 .. n = {}
    BY <1>3
  <2>2. \A p : p \in Above(g) <=> p \in Above(f)
    BY <1>1, <2>1, InAbove
  <2> QED
    BY <2>2
<1> QED
  BY <1>1, <1>2, <1>3

LEMMA SumGrows ==
    ASSUME NEW f, NEW g, NEW x \in DOMAIN f, DOMAIN g = DOMAIN f,
           \A y \in DOMAIN f : f[y] \in Int,
           g[x] = f[x] + 1, \A y \in DOMAIN f \ {x} : g[y] = f[y],
           Adds(f) \/ Adds(g)
    PROVE  Adds(f) /\ Adds(g) /\ Summed(f) \in Int /\ Summed(g) = Summed(f) + 1
<1> DEFINE mf == [y \in DOMAIN f |-> -f[y]]
           mg == [y \in DOMAIN g |-> -g[y]]
<1>1. PICK n \in Int : n = f[x]
  OBVIOUS
<1>2. /\ DOMAIN mf = DOMAIN f /\ DOMAIN mg = DOMAIN f
      /\ mg[x] = -(n + 1) /\ mf[x] = mg[x] + 1 /\ mg[x] \in Int
      /\ \A y \in DOMAIN mg \ {x} : mf[y] = mg[y]
  BY <1>1
<1>3. Below(f) = Above(mf) /\ Below(g) = Above(mg)
  BY DEF Below
<1>4. /\ n >= 0 => /\ Above(g) = Above(f) \cup {<<x, n + 1>>}
                   /\ <<x, n + 1>> \notin Above(f)
      /\ n < 0 => Above(g) = Above(f)
  BY <1>1, AboveGrows
<1> HIDE DEF mf, mg
<1>5. /\ mg[x] >= 0 => /\ Above(mf) = Above(mg) \cup {<<x, mg[x] + 1>>}
                       /\ <<x, mg[x] + 1>> \notin Above(mg)
      /\ mg[x] < 0 => Above(mf) = Above(mg)
  BY <1>2, AboveGrows
<1>6. CASE n >= 0
  <2>1. mg[x] < 0
    BY <1>2, <1>6
  <2>2. Below(f) = Below(g)
    BY <1>3, <1>5, <2>1
  <2>3. PICK p : Above(g) = Above(f) \cup {p} /\ p \notin Above(f)
    BY <1>4, <1>6
  <2>4. Above(f) \subseteq Above(g)
    BY <2>3
  <2>5. IsFiniteSet(Above(f)) /\ IsFiniteSet(Below(f))
    BY <2>2, <2>4, FS_Subset DEF Adds
  <2>6. IsFiniteSet(Above(g)) /\ Cardinality(Above(g)) = Cardinality(Above(f)) + 1
    BY <2>3, <2>5, FS_AddElement
  <2>7. PICK a \in Nat, b \in Nat : a = Cardinality(Above(f)) /\ b = Cardinality(Below(f))
    BY <2>5, FS_CardinalityType
  <2>8. (a + 1) - b = (a - b) + 1 /\ a - b \in Int
    OBVIOUS
  <2> QED
    BY <2>2, <2>5, <2>6, <2>7, <2>8 DEF Adds, Summed
<1>7. CASE n < 0
  <2>1. mg[x] >= 0
    BY <1>2, <1>7
  <2>2. PICK p : Below(f) = Below(g) \cup {p} /\ p \notin Below(g)
    BY <1>3, <1>5, <2>1
  <2>3. Above(g) = Above(f)
    BY <1>4, <1>7
  <2>4. Below(g) \subseteq Below(f)
    BY <2>2
  <2>5. IsFiniteSet(Above(f)) /\ IsFiniteSet(Below(g))
    BY <2>3, <2>4, FS_Subset DEF Adds
  <2>6. IsFiniteSet(Below(f)) /\ Cardinality(Below(f)) = Cardinality(Below(g)) + 1
    BY <2>2, <2>5, FS_AddElement
  <2>7. PICK a \in Nat, b \in Nat : a = Cardinality(Above(f)) /\ b = Cardinality(Below(g))
    BY <2>5, FS_CardinalityType
  <2>8. a - b = (a - (b + 1)) + 1 /\ a - (b + 1) \in Int
    OBVIOUS
  <2> QED
    BY <2>3, <2>5, <2>6, <2>7, <2>8 DEF Adds, Summed
<1> QED
  BY <1>1, <1>6, <1>7

\* One value changes by n.
LEMMA SumMoves ==
    ASSUME NEW f, NEW g, NEW x \in DOMAIN f, DOMAIN g = DOMAIN f,
           \A y \in DOMAIN f : f[y] \in Int, NEW n \in {-1, 0, 1},
           g[x] = f[x] + n, \A y \in DOMAIN f \ {x} : g[y] = f[y], Adds(f),
           f = [y \in DOMAIN f |-> f[y]], g = [y \in DOMAIN g |-> g[y]]
    PROVE  Adds(g) /\ Summed(f) \in Int /\ Summed(g) = Summed(f) + n
<1>1. PICK m \in Int : m = f[x]
  OBVIOUS
<1>2. PICK a \in Nat, b \in Nat : a = Cardinality(Above(f)) /\ b = Cardinality(Below(f))
  BY FS_CardinalityType DEF Adds
<1>3. PICK s \in Int : s = Summed(f)
  BY <1>2 DEF Summed
<1>4. CASE n = 1
  BY <1>4, SumGrows
<1>5. CASE n = 0
  <2>1. \A y \in DOMAIN f : g[y] = f[y]
    BY <1>1, <1>5
  <2>2. g = f
    BY <2>1
  <2> QED
    BY <1>3, <1>5, <2>2
<1>6. CASE n = -1
  <2>1. f[x] = g[x] + 1 /\ g[x] \in Int
    BY <1>1, <1>6
  <2>2. \A y \in DOMAIN g : g[y] \in Int
    BY <2>1
  <2>3. Adds(g) /\ Summed(g) \in Int /\ s = Summed(g) + 1
    BY <1>3, <2>1, <2>2, SumGrows
  <2>4. PICK t \in Int : t = Summed(g)
    BY <2>3
  <2>5. t = s + -1
    BY <2>3, <2>4
  <2> QED
    BY <1>3, <1>6, <2>3, <2>4, <2>5
<1> QED
  BY <1>4, <1>5, <1>6

\* A zero adds nothing.
LEMMA SumOfZero ==
    ASSUME NEW f, NEW g, NEW x, x \notin DOMAIN f, DOMAIN g = DOMAIN f \cup {x},
           g[x] = 0, \A y \in DOMAIN f : g[y] = f[y]
    PROVE  Above(g) = Above(f) /\ Below(g) = Below(f)
<1>1. PICK zero \in Int : zero = 0 /\ -zero = zero /\ 1 .. zero = {}
  OBVIOUS
<1>2. \A p : p \in Above(g) <=> p \in Above(f)
  BY <1>1, InAbove
<1> DEFINE mf == [y \in DOMAIN f |-> -f[y]]
           mg == [y \in DOMAIN g |-> -g[y]]
<1>3. DOMAIN mf = DOMAIN f /\ DOMAIN mg = DOMAIN g
  OBVIOUS
<1>4. mg[x] = 0
  BY <1>1
<1>5. ASSUME NEW y \in DOMAIN f
      PROVE  mg[y] = mf[y]
  <2>1. y \in DOMAIN g /\ g[y] = f[y]
    OBVIOUS
  <2>2. mg[y] = -g[y] /\ mf[y] = -f[y]
    BY <2>1
  <2> QED
    BY <2>1, <2>2
<1>6. Below(f) = Above(mf) /\ Below(g) = Above(mg)
  BY DEF Below
<1> HIDE DEF mf, mg
<1>7. \A p : p \in Above(mg) <=> p \in Above(mf)
  BY <1>1, <1>3, <1>4, <1>5, InAbove
<1>8. Above(mg) = Above(mf)
  BY <1>7
<1>9. Above(g) = Above(f)
  BY <1>2
<1> QED
  BY <1>6, <1>8, <1>9

-----------------------------------------------------------------------------
(* Audience: a request that moves, and the counts of others.               *)

\* A user whose request is served makes no other: what that request, called
\* op and about to call pc, means for a count that has its user when it follows.
Weighed(follows, pcs, op, pc) ==
    IF follows THEN ~ (pc \in pcs /\ op = "FollowStoryRole")
    ELSE \/ pc \in pcs /\ op = "UnFollowStoryRole"
         \/ pc \in Watching /\ op = "CreateStoryRole"

\* The request w of user u about role x, of which it is the only one, goes on.
Turn(w, u, x, pc, got) ==
    /\ worker[w] # Idle /\ ~ overlapped
    /\ u = worker[w].user /\ x = worker[w].on
    /\ GoesOn(w, pc, got)

LEMMA OwnCalls ==
    ASSUME AudienceBase, NEW w \in Workers, NEW u \in Users, NEW x, NEW pc, NEW got,
           Turn(w, u, x, pc, got)
    PROVE  \A pcs, op, o :
             /\ Makes(pcs, op, u, o) <=> worker[w].pc \in pcs /\ worker[w].op = op /\ o = x
             /\ Makes(pcs, op, u, o)'
                  <=> pc # "idle" /\ pc \in pcs /\ worker[w].op = op /\ o = x
<1> SUFFICES ASSUME NEW pcs, NEW op, NEW o
             PROVE  /\ Makes(pcs, op, u, o)
                         <=> worker[w].pc \in pcs /\ worker[w].op = op /\ o = x
                    /\ Makes(pcs, op, u, o)'
                         <=> pc # "idle" /\ pc \in pcs /\ worker[w].op = op /\ o = x
  OBVIOUS
<1>1. ASSUME NEW v \in Workers, v # w
      PROVE  worker[v].user # u /\ worker'[v].user # u
  <2>1. worker'[v] = worker[v]
    BY <1>1 DEF Turn, GoesOn, MovesAlone, OnlyMoves
  <2>2. CASE worker[v] = Idle
    <3>1. worker[v].user = None
      BY <2>2 DEF Idle
    <3> QED
      BY <2>1, <3>1, RequestsAssumption
  <2>3. CASE worker[v] # Idle
    <3>1. v \in Busy /\ w \in Busy
      BY <2>3 DEF Busy, Turn
    <3> QED
      BY <1>1, <2>1, <3>1 DEF AudienceBase, AloneInv, Alone, Turn
  <2> QED
    BY <2>2, <2>3
<1>2. Makes(pcs, op, u, o) <=> worker[w].pc \in pcs /\ worker[w].op = op /\ o = x
  BY <1>1 DEF Makes, Turn
<1>3. Makes(pcs, op, u, o)' <=> /\ worker'[w].pc \in pcs /\ worker'[w].op = op
                                /\ worker'[w].user = u /\ worker'[w].on = o
  BY <1>1 DEF Makes
<1>4. CASE pc = "idle"
  <2>1. worker'[w] = Idle
    BY <1>4 DEF Turn, GoesOn
  <2>2. worker'[w].user # u
    BY <2>1, RequestsAssumption DEF Idle
  <2> QED
    BY <1>2, <1>3, <1>4, <2>2
<1>5. CASE pc # "idle"
  <2>1. worker'[w] = [pc |-> pc, user |-> worker[w].user, op |-> worker[w].op,
                      on |-> worker[w].on, got |-> got]
    BY <1>5 DEF Turn, GoesOn
  <2>2. /\ worker'[w].pc = pc /\ worker'[w].user = u /\ worker'[w].op = worker[w].op
        /\ worker'[w].on = x
    BY <2>1 DEF Turn
  <2> QED
    BY <1>2, <1>3, <1>5, <2>2
<1> QED
  BY <1>4, <1>5

LEMMA OthersCalls ==
    ASSUME AudienceBase, NEW w \in Workers, NEW u \in Users, NEW x, NEW pc, NEW got,
           Turn(w, u, x, pc, got), NEW v \in Users \ {u}
    PROVE  \A pcs, op, o : Makes(pcs, op, v, o)' <=> Makes(pcs, op, v, o)
<1>1. worker[w].user # v
  BY DEF Turn
<1>2. worker'[w].user # v
  <2>1. CASE pc = "idle"
    BY <2>1, RequestsAssumption DEF Turn, GoesOn, Idle
  <2>2. CASE pc # "idle"
    BY <2>2 DEF Turn, GoesOn
  <2> QED
    BY <2>1, <2>2
<1>3. \A a \in Workers \ {w} : worker'[a] = worker[a]
  BY DEF Turn, GoesOn, MovesAlone, OnlyMoves
<1> QED
  BY <1>1, <1>2, <1>3 DEF Makes

\* Counts come to have a user or cease to by the request of u about x only.
OnlyHas(u, x) ==
    \A v \in Users, o \in Roles :
        v # u \/ o # x => SameIn(InRole, v, o) /\ SameIn(InProfile, v, o)

LEMMA OthersHave ==
    ASSUME AudienceBase, NEW w \in Workers, NEW u \in Users, NEW x, NEW pc, NEW got,
           Turn(w, u, x, pc, got), OnlyFollows(u, x)
    PROVE  OnlyHas(u, x)
<1> SUFFICES ASSUME NEW v \in Users, NEW o \in Roles, v # u \/ o # x, NEW pcs
             PROVE  SameIn(pcs, v, o)
  BY DEF OnlyHas
<1>1. v \in Followers(o)' <=> v \in Followers(o)
  BY DEF OnlyFollows
<1>2. \A op, qs : Makes(qs, op, v, o)' <=> Makes(qs, op, v, o)
  <2>1. CASE v # u
    BY <2>1, OthersCalls
  <2>2. CASE v = u
    BY <2>2, OwnCalls
  <2> QED
    BY <2>1, <2>2
<1> QED
  BY <1>1, <1>2 DEF SameIn, HasIn

LEMMA OwnHas ==
    ASSUME AudienceBase, NEW w \in Workers, NEW u \in Users, NEW x, NEW pc, NEW got,
           Turn(w, u, x, pc, got), NEW pcs, "idle" \notin pcs
    PROVE  /\ HasIn(pcs, u, x)
                <=> Weighed(u \in Followers(x), pcs, worker[w].op, worker[w].pc)
           /\ HasIn(pcs, u, x)'
                <=> Weighed(u \in Followers(x)', pcs, worker[w].op, pc)
<1>1. \A qs, op :
        /\ Makes(qs, op, u, x) <=> worker[w].pc \in qs /\ worker[w].op = op
        /\ Makes(qs, op, u, x)' <=> pc # "idle" /\ pc \in qs /\ worker[w].op = op
  BY OwnCalls
<1>2. HasIn(pcs, u, x) <=> Weighed(u \in Followers(x), pcs, worker[w].op, worker[w].pc)
  BY <1>1 DEF HasIn, Weighed
<1>3. HasIn(pcs, u, x)' <=> Weighed(u \in Followers(x)', pcs, worker[w].op, pc)
  BY <1>1 DEF HasIn, Weighed, Watching
<1> QED
  BY <1>2, <1>3

LEMMA OthersKnow ==
    ASSUME AudienceBase, \A v \in Workers : Knows(v),
           NEW w \in Workers, NEW u \in Users, NEW x, NEW pc, NEW got,
           Turn(w, u, x, pc, got), OnlyFollows(u, x),
           \A r \in Cast : role'[r].creator = role[r].creator
    PROVE  \A v \in Workers \ {w} : Knows(v)'
<1> SUFFICES ASSUME NEW v \in Workers \ {w}
             PROVE  Knows(v)'
  OBVIOUS
<1>1. worker'[v] = worker[v]
  BY DEF Turn, GoesOn, MovesAlone, OnlyMoves
<1>2. worker[v].user # u
  <2>1. CASE worker[v] = Idle
    BY <2>1, RequestsAssumption DEF Idle
  <2>2. CASE worker[v] # Idle
    <3>1. v \in Busy /\ w \in Busy
      BY <2>2 DEF Busy, Turn
    <3> QED
      BY <3>1 DEF AudienceBase, AloneInv, Alone, Turn
  <2> QED
    BY <2>1, <2>2
<1>3. \A r \in Roles : worker[v].user \in Followers(r)' <=> worker[v].user \in Followers(r)
  <2>1. CASE worker[v].user \in Users
    BY <1>2, <2>1 DEF OnlyFollows
  <2>2. CASE worker[v].user \notin Users
    BY <2>2 DEF Followers
  <2> QED
    BY <2>1, <2>2
<1> QED
  BY <1>1, <1>3, KnowsStays

\* What a count gains by a step: n is 1, -1 or 0.
Gains(n, pcs, u, x) ==
    /\ n = 0 => SameIn(pcs, u, x)
    /\ n = 1 => ~ HasIn(pcs, u, x) /\ HasIn(pcs, u, x)'
    /\ n = -1 => HasIn(pcs, u, x) /\ ~ HasIn(pcs, u, x)'

LEMMA TallyMoves ==
    ASSUME NEW u \in Users, NEW x \in Roles, NEW n \in {-1, 0, 1},
           IsFiniteSet(RoleTally(x)), Gains(n, InRole, u, x), OnlyHas(u, x)
    PROVE  /\ IsFiniteSet(RoleTally(x)')
           /\ Cardinality(RoleTally(x)') = Cardinality(RoleTally(x)) + n
<1>1. RoleTally(x)' \ {u} = RoleTally(x) \ {u}
  BY DEF RoleTally, OnlyHas, SameIn, InRole
<1>2. PICK a \in Nat : a = Cardinality(RoleTally(x))
  BY FS_CardinalityType
<1>3. /\ u \in RoleTally(x) <=> HasIn(InRole, u, x)
      /\ u \in RoleTally(x)' <=> HasIn(InRole, u, x)'
  BY DEF RoleTally, InRole
<1>4. PICK A, B : A = RoleTally(x) /\ B = RoleTally(x)'
  OBVIOUS
<1>5. B \ {u} = A \ {u} /\ IsFiniteSet(A)
  BY <1>1, <1>4
<1>6. CASE n = 0
  <2>1. u \in A <=> u \in B
    BY <1>3, <1>4, <1>6 DEF Gains, SameIn
  <2>2. B = A /\ a + 0 = a
    BY <1>5, <2>1
  <2> QED
    BY <1>2, <1>4, <1>5, <1>6, <2>2
<1>7. CASE n = 1
  <2>1. u \notin A /\ u \in B
    BY <1>3, <1>4, <1>7 DEF Gains
  <2> QED
    BY <1>4, <1>5, <1>7, <2>1, OneMoves
<1>8. CASE n = -1
  <2>1. u \in A /\ u \notin B
    BY <1>3, <1>4, <1>8 DEF Gains
  <2>2. IsFiniteSet(B) /\ Cardinality(B) = Cardinality(A) - 1
    BY <1>5, <2>1, OneMoves
  <2>3. a - 1 = a + -1
    OBVIOUS
  <2> QED
    BY <1>2, <1>4, <1>8, <2>2, <2>3
<1> QED
  BY <1>6, <1>7, <1>8

LEMMA ProfileTallyMoves ==
    ASSUME NEW u \in Users, NEW x \in Cast, x \in Roles, NEW n \in {-1, 0, 1}, Cast' = Cast,
           IsFiniteSet(ProfileTally(u)), Gains(n, InProfile, u, x), OnlyHas(u, x)
    PROVE  /\ IsFiniteSet(ProfileTally(u)')
           /\ Cardinality(ProfileTally(u)') = Cardinality(ProfileTally(u)) + n
<1>0. Cast \subseteq Roles
  BY DEF Cast
<1>1. ProfileTally(u)' \ {x} = ProfileTally(u) \ {x}
  BY <1>0 DEF ProfileTally, OnlyHas, SameIn, InProfile
<1>2. PICK a \in Nat : a = Cardinality(ProfileTally(u))
  BY FS_CardinalityType
<1>3. /\ x \in ProfileTally(u) <=> HasIn(InProfile, u, x)
      /\ x \in ProfileTally(u)' <=> HasIn(InProfile, u, x)'
  BY DEF ProfileTally, InProfile
<1>4. PICK A, B : A = ProfileTally(u) /\ B = ProfileTally(u)'
  OBVIOUS
<1>5. B \ {x} = A \ {x} /\ IsFiniteSet(A)
  BY <1>1, <1>4
<1>6. CASE n = 0
  <2>1. x \in A <=> x \in B
    BY <1>3, <1>4, <1>6 DEF Gains, SameIn
  <2>2. B = A /\ a + 0 = a
    BY <1>5, <2>1
  <2> QED
    BY <1>2, <1>4, <1>5, <1>6, <2>2
<1>7. CASE n = 1
  <2>1. x \notin A /\ x \in B
    BY <1>3, <1>4, <1>7 DEF Gains
  <2> QED
    BY <1>4, <1>5, <1>7, <2>1, OneMoves
<1>8. CASE n = -1
  <2>1. x \in A /\ x \notin B
    BY <1>3, <1>4, <1>8 DEF Gains
  <2>2. IsFiniteSet(B) /\ Cardinality(B) = Cardinality(A) - 1
    BY <1>5, <2>1, OneMoves
  <2>3. a - 1 = a + -1
    OBVIOUS
  <2> QED
    BY <1>2, <1>4, <1>8, <2>2, <2>3
<1> QED
  BY <1>6, <1>7, <1>8

\* The count of a role changes by n, and that of a profile by m.
CountsFollows(u, x, n, m) ==
    /\ \A r \in Roles : /\ role'[r].creator = role[r].creator
                        /\ RoleDue(r)' = IF r = x THEN RoleDue(r) + n ELSE RoleDue(r)
                        /\ r # x => astray'.role[r] = astray.role[r]
    /\ \A v \in Users : ProfileDue(v)' = IF v = u THEN ProfileDue(v) + m ELSE ProfileDue(v)

LEMMA FollowsMove ==
    ASSUME AudienceBase, FollowsCounted, NEW u \in Users, NEW x \in Cast,
           NEW n \in {-1, 0, 1}, NEW m \in {-1, 0, 1},
           Gains(n, InRole, u, x), Gains(m, InProfile, u, x), OnlyHas(u, x),
           OnlyFollows(u, x), CountsFollows(u, x, n, m)
    PROVE  FollowsCounted'
<1>1. Cast' = Cast /\ Cast \subseteq Roles
  BY DEF Cast, CountsFollows
<1>2. ASSUME NEW r \in Roles
      PROVE  /\ IsFiniteSet(RoleTally(r)')
             /\ IF r \in Cast' THEN RoleDue(r)' = Cardinality(RoleTally(r)')
                ELSE Followers(r)' = {} /\ astray'.role[r] = 0
  <2>1. CASE r = x
    <3>1. IsFiniteSet(RoleTally(x)) /\ RoleDue(x) = Cardinality(RoleTally(x))
      BY <1>1 DEF FollowsCounted
    <3>2. /\ IsFiniteSet(RoleTally(x)')
          /\ Cardinality(RoleTally(x)') = Cardinality(RoleTally(x)) + n
      BY <1>1, <3>1, TallyMoves
    <3>3. RoleDue(x)' = RoleDue(x) + n
      BY <1>1 DEF CountsFollows
    <3> QED
      BY <1>1, <2>1, <3>1, <3>2, <3>3
  <2>2. CASE r # x
    <3>1. RoleTally(r)' = RoleTally(r)
      BY <2>2 DEF RoleTally, OnlyHas, SameIn, InRole
    <3>2. RoleDue(r)' = RoleDue(r) /\ astray'.role[r] = astray.role[r]
      BY <2>2 DEF CountsFollows
    <3>3. Followers(r) = {} => Followers(r)' = {}
      BY <2>2 DEF OnlyFollows, Followers
    <3> QED
      BY <1>1, <3>1, <3>2, <3>3 DEF FollowsCounted
  <2> QED
    BY <2>1, <2>2
<1>3. ASSUME NEW v \in Users
      PROVE  /\ IsFiniteSet(ProfileTally(v)') /\ IsFiniteSet(CastBy(v)')
             /\ ProfileDue(v)' =
                   Cardinality(ProfileTally(v)') - Cardinality(CastBy(v)')
  <2>1. CastBy(v)' = CastBy(v)
    BY <1>1 DEF CastBy, CountsFollows
  <2>2. CASE v = u
    <3>1. /\ IsFiniteSet(ProfileTally(u)) /\ IsFiniteSet(CastBy(u))
          /\ ProfileDue(u) = Cardinality(ProfileTally(u)) - Cardinality(CastBy(u))
      BY DEF FollowsCounted
    <3>2. PICK a \in Nat, b \in Nat : a = Cardinality(ProfileTally(u)) /\ b = Cardinality(CastBy(u))
      BY <3>1, FS_CardinalityType
    <3>3. /\ IsFiniteSet(ProfileTally(u)')
          /\ Cardinality(ProfileTally(u)') = a + m
      BY <1>1, <3>1, <3>2, ProfileTallyMoves
    <3>4. ProfileDue(u)' = (a - b) + m
      BY <3>1, <3>2 DEF CountsFollows
    <3>5. (a - b) + m = (a + m) - b
      OBVIOUS
    <3> QED
      BY <2>1, <2>2, <3>1, <3>2, <3>3, <3>4, <3>5
  <2>3. CASE v # u
    <3>1. ProfileTally(v)' = ProfileTally(v)
      BY <1>1, <2>3 DEF ProfileTally, OnlyHas, SameIn, InProfile
    <3>2. ProfileDue(v)' = ProfileDue(v)
      BY <2>3 DEF CountsFollows
    <3> QED
      BY <2>1, <3>1, <3>2 DEF FollowsCounted
  <2> QED
    BY <2>2, <2>3
<1> QED
  BY <1>2, <1>3 DEF FollowsCounted

-----------------------------------------------------------------------------
(* Audience: the likes of roles and of profiles.                           *)

\* Likes that are counted in the role but not yet in the profile.
LEMMA HalfwayMoves ==
    ASSUME NEW w \in Workers, NEW pc, NEW got, worker[w] # Idle, GoesOn(w, pc, got),
           NEW op
    PROVE  /\ Halfway(op)' \ {w} = Halfway(op) \ {w}
           /\ w \in Halfway(op) <=> worker[w].pc = "CountProfile" /\ worker[w].op = op
           /\ w \in Halfway(op)' <=> pc = "CountProfile" /\ worker[w].op = op
<1>1. OnlyMoves(w)
  BY DEF GoesOn, MovesAlone
<1>2. Halfway(op)' \ {w} = Halfway(op) \ {w}
  BY <1>1 DEF Halfway, OnlyMoves
<1>3. CASE pc = "idle"
  <2>1. worker'[w].pc = "idle"
    BY <1>3 DEF GoesOn, Idle
  <2> QED
    BY <1>2, <1>3, <2>1 DEF Halfway
<1>4. CASE pc # "idle"
  <2>1. worker'[w].pc = pc /\ worker'[w].op = worker[w].op
    BY <1>4 DEF GoesOn
  <2> QED
    BY <1>2, <2>1 DEF Halfway
<1> QED
  BY <1>3, <1>4

\* The likes that are halfway change by n.
LEMMA BalanceMoves ==
    ASSUME NEW A, NEW B, NEW C, NEW D, NEW w, NEW n \in {-1, 0, 1},
           IsFiniteSet(A), IsFiniteSet(B), C \ {w} = A \ {w}, D \ {w} = B \ {w},
           n = 0 => (w \in A <=> w \in C) /\ (w \in B <=> w \in D),
           n = 1 => \/ w \notin A /\ w \in C /\ (w \in B <=> w \in D)
                    \/ w \in B /\ w \notin D /\ (w \in A <=> w \in C),
           n = -1 => \/ w \in A /\ w \notin C /\ (w \in B <=> w \in D)
                     \/ w \notin B /\ w \in D /\ (w \in A <=> w \in C)
    PROVE  /\ IsFiniteSet(C) /\ IsFiniteSet(D)
           /\ Cardinality(A) - Cardinality(B) \in Int
           /\ Cardinality(C) - Cardinality(D) = (Cardinality(A) - Cardinality(B)) + n
<1>1. PICK a \in Nat, b \in Nat : a = Cardinality(A) /\ b = Cardinality(B)
  BY FS_CardinalityType
<1>2. /\ IsFiniteSet(C)
      /\ (w \in A <=> w \in C) => Cardinality(C) = a
      /\ w \notin A /\ w \in C => Cardinality(C) = a + 1
      /\ w \in A /\ w \notin C => Cardinality(C) = a - 1
  BY <1>1, OneMoves
<1>3. /\ IsFiniteSet(D)
      /\ (w \in B <=> w \in D) => Cardinality(D) = b
      /\ w \notin B /\ w \in D => Cardinality(D) = b + 1
      /\ w \in B /\ w \notin D => Cardinality(D) = b - 1
  BY <1>1, OneMoves
<1>4. /\ (a + 1) - b = (a - b) + 1 /\ (a - 1) - b = (a - b) + -1
      /\ a - (b + 1) = (a - b) + -1 /\ a - (b - 1) = (a - b) + 1
      /\ a - b = (a - b) + 0 /\ a - b \in Int
  OBVIOUS
<1>5. CASE n = 0
  BY <1>1, <1>2, <1>3, <1>4, <1>5
<1>6. CASE n = 1
  BY <1>1, <1>2, <1>3, <1>4, <1>6
<1>7. CASE n = -1
  BY <1>1, <1>2, <1>3, <1>4, <1>7
<1> QED
  BY <1>5, <1>6, <1>7

LEMMA SumsAreIntegers ==
    ASSUME NEW f, Adds(f)
    PROVE  Summed(f) \in Int
BY FS_CardinalityType DEF Adds, Summed

\* The sum of the likes, whatever it is made of.
LEMMA LikesAre ==
    ASSUME NEW f, NEW g, f = RoleLikes', g = ProfileLikes', Adds(f), Adds(g),
           IsFiniteSet(Halfway("LikeStoryRole")'), IsFiniteSet(Halfway("UnLikeStoryRole")'),
           Summed(f) = Summed(g) + Cardinality(Halfway("LikeStoryRole")')
                           - Cardinality(Halfway("UnLikeStoryRole")')
    PROVE  LikesCounted'
<1>1. Adds(RoleLikes)' /\ Summed(RoleLikes)' = Summed(f)
  BY DEF Adds, Summed, Above, Below
<1>2. Adds(ProfileLikes)' /\ Summed(ProfileLikes)' = Summed(g)
  BY DEF Adds, Summed, Above, Below
<1> QED
  BY <1>1, <1>2 DEF LikesCounted

LEMMA RoleLikesMove ==
    ASSUME AudienceBase, Adds(RoleLikes), NEW x \in Cast, Cast' = Cast, NEW n \in {-1, 0, 1},
           \A r \in Roles : role'[r].like = IF r = x THEN role[r].like + n ELSE role[r].like
    PROVE  \E g : /\ g = RoleLikes' /\ Adds(g) /\ Summed(RoleLikes) \in Int
                  /\ Summed(g) = Summed(RoleLikes) + n
<1>1. PICK f, g : f = RoleLikes /\ g = RoleLikes'
  OBVIOUS
<1>2. /\ DOMAIN f = Cast /\ DOMAIN g = Cast /\ x \in DOMAIN f
      /\ f = [y \in DOMAIN f |-> f[y]] /\ g = [y \in DOMAIN g |-> g[y]]
  BY <1>1 DEF RoleLikes
<1>3. ASSUME NEW r \in Cast
      PROVE  /\ f[r] \in Int
             /\ g[r] = IF r = x THEN f[r] + n ELSE f[r]
  <2>1. r \in Roles
    BY DEF Cast
  <2>2. PICK a \in Int : a = role[r].like
    BY <2>1 DEF AudienceBase, AudienceTypeOK, RoleRows
  <2>3. f[r] = a - 1
    BY <1>1, <2>2 DEF RoleLikes
  <2>4. g[r] = role'[r].like - 1
    BY <1>1 DEF RoleLikes
  <2>5. CASE r = x
    <3>1. (a + n) - 1 = (a - 1) + n /\ a - 1 \in Int
      OBVIOUS
    <3> QED
      BY <2>1, <2>2, <2>3, <2>4, <2>5, <3>1
  <2>6. CASE r # x
    BY <2>1, <2>2, <2>3, <2>4, <2>6
  <2> QED
    BY <2>5, <2>6
<1>4. /\ \A y \in DOMAIN f : f[y] \in Int
      /\ g[x] = f[x] + n
      /\ \A y \in DOMAIN f \ {x} : g[y] = f[y]
      /\ Adds(f)
  BY <1>1, <1>2, <1>3
<1>5. Adds(g) /\ Summed(f) \in Int /\ Summed(g) = Summed(f) + n
  BY <1>2, <1>4, SumMoves
<1> QED
  BY <1>1, <1>5

LEMMA ProfileLikesMove ==
    ASSUME AudienceBase, Adds(ProfileLikes), NEW u \in Users, NEW n \in {-1, 0, 1},
           \A v \in Users : profile'[v].likedRoles =
                               IF v = u THEN profile[v].likedRoles + n
                               ELSE profile[v].likedRoles
    PROVE  \E g : /\ g = ProfileLikes' /\ Adds(g) /\ Summed(ProfileLikes) \in Int
                  /\ Summed(g) = Summed(ProfileLikes) + n
<1>1. PICK f, g : f = ProfileLikes /\ g = ProfileLikes'
  OBVIOUS
<1>2. /\ DOMAIN f = Users /\ DOMAIN g = Users /\ u \in DOMAIN f
      /\ f = [y \in DOMAIN f |-> f[y]] /\ g = [y \in DOMAIN g |-> g[y]]
  BY <1>1 DEF ProfileLikes
<1>3. ASSUME NEW v \in Users
      PROVE  /\ f[v] \in Int
             /\ g[v] = IF v = u THEN f[v] + n ELSE f[v]
  <2>1. "likedRoles" \in DOMAIN NoCounts
    BY DEF NoCounts
  <2>2. profile[v]["likedRoles"] \in Int
    BY <2>1 DEF AudienceBase, AudienceTypeOK
  <2>3. f[v] = profile[v].likedRoles /\ g[v] = profile'[v].likedRoles
    BY <1>1 DEF ProfileLikes
  <2> QED
    BY <2>2, <2>3
<1>4. /\ \A y \in DOMAIN f : f[y] \in Int
      /\ g[u] = f[u] + n
      /\ \A y \in DOMAIN f \ {u} : g[y] = f[y]
      /\ Adds(f)
  BY <1>1, <1>2, <1>3
<1>5. Adds(g) /\ Summed(f) \in Int /\ Summed(g) = Summed(f) + n
  BY <1>2, <1>4, SumMoves
<1> QED
  BY <1>1, <1>5

LEMMA RoleIsLiked ==
    ASSUME AudienceBase, LikesCounted, NEW w \in Workers, worker[w] # Idle, NEW x \in Cast,
           NEW got, worker[w].pc = "CountRole", GoesOn(w, "CountProfile", got), Cast' = Cast,
           \A r \in Roles : role'[r].like = IF r = x THEN role[r].like + LikesBy(worker[w].op)
                                            ELSE role[r].like,
           UNCHANGED profile
    PROVE  LikesCounted'
<1>1. PICK n \in {-1, 0, 1} : n = LikesBy(worker[w].op)
  BY DEF LikesBy
<1>2. PICK f : /\ f = RoleLikes' /\ Adds(f) /\ Summed(RoleLikes) \in Int
               /\ Summed(f) = Summed(RoleLikes) + n
  BY <1>1, RoleLikesMove DEF LikesCounted
<1>3. PICK g : g = ProfileLikes
  OBVIOUS
<1>4. ProfileLikes' = ProfileLikes
  BY DEF ProfileLikes
<1>5. PICK A, B, C, D : /\ A = Halfway("LikeStoryRole") /\ B = Halfway("UnLikeStoryRole")
                        /\ C = Halfway("LikeStoryRole")' /\ D = Halfway("UnLikeStoryRole")'
  OBVIOUS
<1>6. /\ C \ {w} = A \ {w} /\ D \ {w} = B \ {w}
      /\ w \notin A /\ (w \in C <=> worker[w].op = "LikeStoryRole")
      /\ w \notin B /\ (w \in D <=> worker[w].op = "UnLikeStoryRole")
  BY <1>5, HalfwayMoves
<1>7. /\ n = 1 <=> worker[w].op = "LikeStoryRole"
      /\ n = -1 <=> worker[w].op = "UnLikeStoryRole"
  BY <1>1 DEF LikesBy
<1>8. /\ n = 0 => w \notin C /\ w \notin D
      /\ n = 1 => w \in C /\ w \notin D
      /\ n = -1 => w \notin C /\ w \in D
  BY <1>6, <1>7
<1>9. IsFiniteSet(A) /\ IsFiniteSet(B)
  BY <1>5 DEF LikesCounted
<1>10. /\ IsFiniteSet(C) /\ IsFiniteSet(D)
       /\ Cardinality(A) - Cardinality(B) \in Int
       /\ Cardinality(C) - Cardinality(D) = (Cardinality(A) - Cardinality(B)) + n
  BY <1>6, <1>8, <1>9, BalanceMoves
<1>11. PICK a \in Nat, b \in Nat, c \in Nat, d \in Nat :
          /\ a = Cardinality(A) /\ b = Cardinality(B)
          /\ c = Cardinality(C) /\ d = Cardinality(D)
  BY <1>9, <1>10, FS_CardinalityType
<1>12. Summed(g) \in Int
  BY <1>3, SumsAreIntegers DEF LikesCounted
<1>13. PICK s \in Int, t \in Int : s = Summed(RoleLikes) /\ t = Summed(g)
  BY <1>2, <1>12
<1>14. s = t + a - b
  BY <1>3, <1>5, <1>11, <1>13 DEF LikesCounted
<1>15. s + n = t + c - d
  BY <1>10, <1>11, <1>14
<1>16. Adds(g)
  BY <1>3 DEF LikesCounted
<1> QED
  BY <1>2, <1>3, <1>4, <1>5, <1>10, <1>11, <1>13, <1>15, <1>16, LikesAre

LEMMA ProfileIsLiked ==
    ASSUME AudienceBase, LikesCounted, NEW w \in Workers, worker[w] # Idle, NEW u \in Users,
           NEW got, worker[w].pc = "CountProfile", GoesOn(w, "idle", got), UNCHANGED role,
           \A v \in Users : profile'[v].likedRoles =
                               IF v = u THEN profile[v].likedRoles + LikesBy(worker[w].op)
                               ELSE profile[v].likedRoles
    PROVE  LikesCounted'
<1>1. PICK n \in {-1, 0, 1} : n = LikesBy(worker[w].op)
  BY DEF LikesBy
<1>2. PICK g : /\ g = ProfileLikes' /\ Adds(g) /\ Summed(ProfileLikes) \in Int
               /\ Summed(g) = Summed(ProfileLikes) + n
  BY <1>1, ProfileLikesMove DEF LikesCounted
<1>3. PICK f : f = RoleLikes
  OBVIOUS
<1>4. RoleLikes' = RoleLikes
  BY DEF RoleLikes, Cast
<1>5. PICK A, B, C, D : /\ A = Halfway("LikeStoryRole") /\ B = Halfway("UnLikeStoryRole")
                        /\ C = Halfway("LikeStoryRole")' /\ D = Halfway("UnLikeStoryRole")'
  OBVIOUS
<1>6. /\ C \ {w} = A \ {w} /\ D \ {w} = B \ {w}
      /\ w \notin C /\ (w \in A <=> worker[w].op = "LikeStoryRole")
      /\ w \notin D /\ (w \in B <=> worker[w].op = "UnLikeStoryRole")
  BY <1>5, HalfwayMoves
<1>7. /\ n = 1 <=> worker[w].op = "LikeStoryRole"
      /\ n = -1 <=> worker[w].op = "UnLikeStoryRole"
  BY <1>1 DEF LikesBy
<1>8. /\ n = 0 => w \notin A /\ w \notin B
      /\ n = 1 => w \in A /\ w \notin B
      /\ n = -1 => w \notin A /\ w \in B
  BY <1>6, <1>7
<1>9. IsFiniteSet(A) /\ IsFiniteSet(B)
  BY <1>5 DEF LikesCounted
<1>10. PICK m \in {-1, 0, 1} : m = -n
  OBVIOUS
<1>11. /\ m = 0 => n = 0
       /\ m = 1 => n = -1
       /\ m = -1 => n = 1
  BY <1>10
<1>12. /\ IsFiniteSet(C) /\ IsFiniteSet(D)
       /\ Cardinality(A) - Cardinality(B) \in Int
       /\ Cardinality(C) - Cardinality(D) = (Cardinality(A) - Cardinality(B)) + m
  BY <1>6, <1>8, <1>9, <1>11, BalanceMoves
<1>13. PICK a \in Nat, b \in Nat, c \in Nat, d \in Nat :
          /\ a = Cardinality(A) /\ b = Cardinality(B)
          /\ c = Cardinality(C) /\ d = Cardinality(D)
  BY <1>9, <1>12, FS_CardinalityType
<1>14. Summed(f) \in Int
  BY <1>3, SumsAreIntegers DEF LikesCounted
<1>15. PICK s \in Int, t \in Int : s = Summed(f) /\ t = Summed(ProfileLikes)
  BY <1>2, <1>14
<1>16. s = t + a - b
  BY <1>3, <1>5, <1>13, <1>15 DEF LikesCounted
<1>17. s = (t + n) + c - d
  BY <1>10, <1>12, <1>13, <1>16
<1>18. Adds(f)
  BY <1>3 DEF LikesCounted
<1> QED
  BY <1>2, <1>3, <1>4, <1>5, <1>12, <1>13, <1>15, <1>17, <1>18, LikesAre

-----------------------------------------------------------------------------
(* Audience: the steps that change a count, or who follows a role.         *)

\* What holds of the counts while nothing disturbs them.
Reckoned ==
    /\ \A w \in Workers : Knows(w)
    /\ FollowsCounted
    /\ LikesCounted

\* Likes are not on their way, and are left alone.
LEMMA NoLikeMoves ==
    ASSUME LikesCounted, NEW w \in Workers, worker[w] # Idle, NEW pc, NEW got,
           GoesOn(w, pc, got), worker[w].op \notin {"LikeStoryRole", "UnLikeStoryRole"},
           UNCHANGED <<role, profile>>
    PROVE  LikesCounted'
<1>1. Cast' = Cast
  BY DEF Cast
<1>2. /\ Halfway("LikeStoryRole")' = Halfway("LikeStoryRole")
      /\ Halfway("UnLikeStoryRole")' = Halfway("UnLikeStoryRole")
  BY HalfwayMoves
<1> QED
  BY <1>1, <1>2, LikesStay

\* Neither are follows.
LEMMA NoCountMoves ==
    ASSUME AudienceBase, UNCHANGED <<role, profile, astray>>, NEW u, NEW x
    PROVE  CountsFollows(u, x, 0, 0)
<1>1. \A r \in Roles : RoleDue(r) \in Int /\ RoleDue(r)' = RoleDue(r)
  <2> SUFFICES ASSUME NEW r \in Roles
               PROVE  RoleDue(r) \in Int /\ RoleDue(r)' = RoleDue(r)
    OBVIOUS
  <2>1. role[r].follow \in Int /\ astray.role[r] \in Nat
    BY DEF AudienceBase, AudienceTypeOK, RoleRows
  <2> QED
    BY <2>1 DEF RoleDue
<1>2. \A v \in Users : ProfileDue(v) \in Int /\ ProfileDue(v)' = ProfileDue(v)
  <2> SUFFICES ASSUME NEW v \in Users
               PROVE  ProfileDue(v) \in Int /\ ProfileDue(v)' = ProfileDue(v)
    OBVIOUS
  <2>1. "watchingRoles" \in DOMAIN NoCounts
    BY DEF NoCounts
  <2>2. profile[v]["watchingRoles"] \in Int /\ astray.user[v] \in Nat
    BY <2>1 DEF AudienceBase, AudienceTypeOK
  <2> QED
    BY <2>2 DEF ProfileDue
<1> QED
  BY <1>1, <1>2 DEF CountsFollows

LEMMA CountRoleWatchesReckons ==
    ASSUME AudienceBase, Undisturbed, Reckoned, NEW w \in Workers, CountRoleWatches(w)
    PROVE  Reckoned'
<1>1. PICK u \in Users, x \in Roles, got \in {worker[w].got} :
         /\ u = worker[w].user /\ x = worker[w].on
         /\ worker[w].pc = "CountRoleWatches" /\ worker[w] # Idle /\ x \in Cast
         /\ worker[w].op = "CreateStoryRole"
         /\ (GoesOn(w, "idle", got) /\ u \in Followers(x)) \/ GoesOn(w, "WatchRole", got)
         /\ UNCHANGED <<role, profile, watch, astray>>
  BY CountRoleWatchesDoes DEF audience
<1>2. u \notin Followers(x) /\ role[x].creator = u
  BY <1>1 DEF Reckoned, Knows, Watching
<1>3. Turn(w, u, x, "WatchRole", got)
  BY <1>1, <1>2 DEF Turn, Undisturbed
<1>4. \A r \in Roles : Followers(r)' = Followers(r)
  BY <1>1 DEF Followers
<1>5. OnlyFollows(u, x)
  BY <1>4 DEF OnlyFollows
<1>6. OnlyHas(u, x)
  BY <1>3, <1>5, OthersHave
<1>7. Gains(0, InRole, u, x) /\ Gains(0, InProfile, u, x)
  <2> SUFFICES ASSUME NEW pcs \in {InRole, InProfile}
               PROVE  Gains(0, pcs, u, x)
    OBVIOUS
  <2>1. "idle" \notin pcs
    BY DEF InRole, InProfile
  <2>2. /\ HasIn(pcs, u, x)
             <=> Weighed(u \in Followers(x), pcs, "CreateStoryRole", "CountRoleWatches")
        /\ HasIn(pcs, u, x)'
             <=> Weighed(u \in Followers(x)', pcs, "CreateStoryRole", "WatchRole")
    BY <1>1, <1>3, <2>1, OwnHas
  <2> QED
    BY <1>2, <1>4, <2>2 DEF Gains, SameIn, Weighed, Watching
<1>8. FollowsCounted'
  BY <1>1, <1>5, <1>6, <1>7, NoCountMoves, FollowsMove DEF Reckoned
<1>9. LikesCounted'
  BY <1>1, <1>3, NoLikeMoves DEF Reckoned, Turn
<1>10. Knows(w)'
  <2>1. /\ worker'[w].op = "CreateStoryRole" /\ worker'[w].user = u /\ worker'[w].on = x
    BY <1>1, <1>3 DEF Turn, GoesOn
  <2> QED
    BY <1>1, <1>2, <1>4, <2>1 DEF Knows
<1>11. \A v \in Workers \ {w} : Knows(v)'
  BY <1>1, <1>3, <1>5, OthersKnow DEF Reckoned
<1> QED
  BY <1>8, <1>9, <1>10, <1>11 DEF Reckoned

LEMMA WatchRoleReckons ==
    ASSUME AudienceBase, Undisturbed, Reckoned, NEW w \in Workers, WatchStoryRole(w)
    PROVE  Reckoned'
<1>1. PICK u \in Users, x \in Roles, pc \in {"idle", "CountRole"}, got \in {worker[w].got} :
         /\ u = worker[w].user /\ x = worker[w].on
         /\ worker[w].pc = "WatchRole" /\ worker[w] # Idle /\ x \in Cast
         /\ \/ worker[w].op = "CreateStoryRole" /\ pc = "idle"
            \/ worker[w].op = "FollowStoryRole" /\ pc = "CountRole"
         /\ GoesOn(w, pc, got)
         /\ \A r \in Roles : Followers(r)' = IF r = x THEN Followers(r) \cup {u}
                                             ELSE Followers(r)
         /\ UNCHANGED <<role, profile, astray>>
  BY WatchRoleDoes
<1>2. Turn(w, u, x, pc, got)
  BY <1>1 DEF Turn, Undisturbed
<1>3. OnlyFollows(u, x) /\ u \in Followers(x)'
  BY <1>1 DEF OnlyFollows
<1>4. OnlyHas(u, x)
  BY <1>2, <1>3, OthersHave
<1>5. u \notin Followers(x)
  BY <1>1 DEF Reckoned, Knows, Watching
<1>6. Gains(0, InRole, u, x) /\ Gains(0, InProfile, u, x)
  <2> SUFFICES ASSUME NEW pcs \in {InRole, InProfile}
               PROVE  Gains(0, pcs, u, x)
    OBVIOUS
  <2>1. "idle" \notin pcs /\ "CountRole" \in pcs /\ "WatchRole" \notin pcs
    BY DEF InRole, InProfile
  <2>2. /\ HasIn(pcs, u, x) <=> Weighed(FALSE, pcs, worker[w].op, "WatchRole")
        /\ HasIn(pcs, u, x)' <=> Weighed(TRUE, pcs, worker[w].op, pc)
    BY <1>1, <1>2, <1>3, <1>5, <2>1, OwnHas DEF Weighed, Watching
  <2> QED
    BY <1>1, <2>1, <2>2 DEF Gains, SameIn, Weighed, Watching
<1>7. CountsFollows(u, x, 0, 0)
  BY <1>1, NoCountMoves
<1>8. FollowsCounted'
  BY <1>1, <1>3, <1>4, <1>6, <1>7, FollowsMove DEF Reckoned
<1>9. LikesCounted'
  BY <1>1, NoLikeMoves DEF Reckoned
<1>10. Knows(w)'
  <2>1. CASE pc = "idle"
    <3>1. worker'[w].op = "none"
      BY <1>1, <2>1 DEF GoesOn, Idle
    <3> QED
      BY <3>1 DEF Knows
  <2>2. CASE pc = "CountRole"
    <3>1. /\ worker'[w].pc = "CountRole" /\ worker'[w].op = "FollowStoryRole"
          /\ worker'[w].user = u /\ worker'[w].on = x
      BY <1>1, <2>2 DEF GoesOn
    <3> QED
      BY <1>3, <3>1 DEF Knows, Watching
  <2> QED
    BY <1>1, <2>1, <2>2
<1>11. \A v \in Workers \ {w} : Knows(v)'
  BY <1>1, <1>2, <1>3, OthersKnow DEF Reckoned
<1> QED
  BY <1>8, <1>9, <1>10, <1>11 DEF Reckoned

LEMMA UnWatchRoleReckons ==
    ASSUME AudienceBase, Undisturbed, Reckoned, NEW w \in Workers, UnWatchStoryRole(w)
    PROVE  Reckoned'
<1>1. PICK u \in Users, x \in Roles, got \in {worker[w].got} :
         /\ u = worker[w].user /\ x = worker[w].on
         /\ worker[w].pc = "UnWatchRole" /\ worker[w] # Idle /\ x \in Cast
         /\ worker[w].op = "UnFollowStoryRole"
         /\ GoesOn(w, "CountRole", got)
         /\ OnlyFollows(u, x)
         /\ UNCHANGED <<role, profile, astray>>
  BY UnWatchRoleDoes
<1>2. Turn(w, u, x, "CountRole", got)
  BY <1>1 DEF Turn, Undisturbed
<1>3. OnlyHas(u, x)
  BY <1>1, <1>2, OthersHave
<1>4. u \in Followers(x)
  BY <1>1 DEF Reckoned, Knows
<1>5. Gains(0, InRole, u, x) /\ Gains(0, InProfile, u, x)
  <2> SUFFICES ASSUME NEW pcs \in {InRole, InProfile}
               PROVE  Gains(0, pcs, u, x)
    OBVIOUS
  <2>1. "idle" \notin pcs /\ "CountRole" \in pcs
    BY DEF InRole, InProfile
  <2>2. /\ HasIn(pcs, u, x)
             <=> Weighed(u \in Followers(x), pcs, "UnFollowStoryRole", "UnWatchRole")
        /\ HasIn(pcs, u, x)'
             <=> Weighed(u \in Followers(x)', pcs, "UnFollowStoryRole", "CountRole")
    BY <1>1, <1>2, <2>1, OwnHas
  <2> QED
    BY <1>4, <2>1, <2>2 DEF Gains, SameIn, Weighed
<1>6. FollowsCounted'
  BY <1>1, <1>3, <1>5, NoCountMoves, FollowsMove DEF Reckoned
<1>7. LikesCounted'
  BY <1>1, NoLikeMoves DEF Reckoned
<1>8. Knows(w)'
  <2>1. /\ worker'[w].pc = "CountRole" /\ worker'[w].op = "UnFollowStoryRole"
    BY <1>1 DEF GoesOn
  <2> QED
    BY <2>1 DEF Knows
<1>9. \A v \in Workers \ {w} : Knows(v)'
  BY <1>1, <1>2, OthersKnow DEF Reckoned
<1> QED
  BY <1>6, <1>7, <1>8, <1>9 DEF Reckoned

\* The two counts that a request to follow a role changes, one after the other.
LEMMA CountingGains ==
    ASSUME AudienceBase, NEW w \in Workers, NEW u \in Users, NEW x, NEW got,
           Knows(w), worker[w].op \in Counting, u \in Followers(x)' <=> u \in Followers(x)
    PROVE  /\ worker[w].pc = "CountRole" /\ Turn(w, u, x, "CountProfile", got)
                => Gains(NetFollows(w), InRole, u, x) /\ Gains(0, InProfile, u, x)
           /\ worker[w].pc = "CountProfile" /\ Turn(w, u, x, "idle", got)
                => Gains(0, InRole, u, x) /\ Gains(NetFollows(w), InProfile, u, x)
<1>1. PICK op \in Counting : op = worker[w].op
  OBVIOUS
<1>2. ASSUME u = worker[w].user, x = worker[w].on
      PROVE  /\ op = "FollowStoryRole" => NetFollows(w) = 1
             /\ op = "UnFollowStoryRole" =>
                   NetFollows(w) = IF u \in Followers(x) THEN 0 ELSE -1
             /\ op \notin {"FollowStoryRole", "UnFollowStoryRole"} => NetFollows(w) = 0
  BY <1>1, <1>2 DEF FollowsBy, NetFollows, GoesAstray, Follows
<1>3. ASSUME NEW pc, Turn(w, u, x, pc, got), worker[w].pc \in {"CountRole", "CountProfile"}
      PROVE  /\ op = "FollowStoryRole" => u \in Followers(x)
             /\ u = worker[w].user /\ x = worker[w].on
  BY <1>1, <1>3 DEF Knows, Turn
<1>4. ASSUME worker[w].pc = "CountRole", Turn(w, u, x, "CountProfile", got)
      PROVE  Gains(NetFollows(w), InRole, u, x) /\ Gains(0, InProfile, u, x)
  <2>1. /\ HasIn(InRole, u, x) <=> Weighed(u \in Followers(x), InRole, op, "CountRole")
        /\ HasIn(InRole, u, x)' <=> Weighed(u \in Followers(x)', InRole, op, "CountProfile")
    BY <1>1, <1>4, OwnHas DEF InRole
  <2>2. /\ HasIn(InProfile, u, x) <=> Weighed(u \in Followers(x), InProfile, op, "CountRole")
        /\ HasIn(InProfile, u, x)' <=> Weighed(u \in Followers(x)', InProfile, op, "CountProfile")
    BY <1>1, <1>4, OwnHas DEF InProfile
  <2>3. Gains(NetFollows(w), InRole, u, x)
    BY <1>2, <1>3, <1>4, <2>1 DEF Gains, SameIn, Weighed, InRole, Watching
  <2>4. Gains(0, InProfile, u, x)
    BY <1>3, <1>4, <2>2 DEF Gains, SameIn, Weighed, InProfile, Watching
  <2> QED
    BY <2>3, <2>4
<1>5. ASSUME worker[w].pc = "CountProfile", Turn(w, u, x, "idle", got)
      PROVE  Gains(0, InRole, u, x) /\ Gains(NetFollows(w), InProfile, u, x)
  <2>1. /\ HasIn(InRole, u, x) <=> Weighed(u \in Followers(x), InRole, op, "CountProfile")
        /\ HasIn(InRole, u, x)' <=> Weighed(u \in Followers(x)', InRole, op, "idle")
    BY <1>1, <1>5, OwnHas DEF InRole
  <2>2. /\ HasIn(InProfile, u, x) <=> Weighed(u \in Followers(x), InProfile, op, "CountProfile")
        /\ HasIn(InProfile, u, x)' <=> Weighed(u \in Followers(x)', InProfile, op, "idle")
    BY <1>1, <1>5, OwnHas DEF InProfile
  <2>3. Gains(0, InRole, u, x)
    BY <1>3, <1>5, <2>1 DEF Gains, SameIn, Weighed, InRole, Watching
  <2>4. Gains(NetFollows(w), InProfile, u, x)
    BY <1>2, <1>3, <1>5, <2>2 DEF Gains, SameIn, Weighed, InProfile, Watching
  <2> QED
    BY <2>3, <2>4
<1> QED
  BY <1>1, <1>4, <1>5

\* Until a request has returned it knows what it knew of the watches.
LEMMA CountingKnows ==
    ASSUME NEW w \in Workers, NEW u \in Users, NEW x, NEW got,
           Knows(w), u \in Followers(x)' <=> u \in Followers(x),
           \/ worker[w].pc = "CountRole" /\ Turn(w, u, x, "CountProfile", got)
           \/ worker[w].pc = "CountProfile" /\ Turn(w, u, x, "idle", got)
    PROVE  Knows(w)'
<1>1. CASE worker[w].pc = "CountRole" /\ Turn(w, u, x, "CountProfile", got)
  <2>1. /\ worker'[w].pc = "CountProfile" /\ worker'[w].op = worker[w].op
        /\ worker'[w].user = u /\ worker'[w].on = x
        /\ worker[w].user = u /\ worker[w].on = x
    BY <1>1 DEF Turn, GoesOn
  <2> QED
    BY <1>1, <2>1 DEF Knows, Watching
<1>2. CASE worker[w].pc = "CountProfile" /\ Turn(w, u, x, "idle", got)
  <2>1. worker'[w].op = "none"
    BY <1>2 DEF Turn, GoesOn, Idle
  <2> QED
    BY <2>1 DEF Knows
<1> QED
  BY <1>1, <1>2

LEMMA CountRoleReckons ==
    ASSUME AudienceBase, Undisturbed, Reckoned, NEW w \in Workers, CountRole(w)
    PROVE  Reckoned'
<1>1. PICK u \in Users, x \in Roles, got \in {worker[w].got}, op \in Counting :
         /\ u = worker[w].user /\ x = worker[w].on /\ op = worker[w].op
         /\ worker[w].pc = "CountRole" /\ worker[w] # Idle /\ x \in Cast
         /\ GoesOn(w, "CountProfile", got)
         /\ \A r \in Roles : /\ role'[r].creator = role[r].creator
                             /\ RoleDue(r)' = IF r = x THEN RoleDue(r) + NetFollows(w)
                                              ELSE RoleDue(r)
                             /\ r # x => astray'.role[r] = astray.role[r]
                             /\ role'[r].like = IF r = x THEN role[r].like + LikesBy(op)
                                                ELSE role[r].like
         /\ UNCHANGED <<watch, profile>> /\ astray'.user = astray.user
  BY CountRoleDoes
<1>2. Turn(w, u, x, "CountProfile", got)
  BY <1>1 DEF Turn, Undisturbed
<1>3. \A r \in Roles : Followers(r)' = Followers(r)
  BY <1>1 DEF Followers
<1>4. OnlyFollows(u, x) /\ (u \in Followers(x)' <=> u \in Followers(x))
  BY <1>3 DEF OnlyFollows
<1>5. OnlyHas(u, x)
  BY <1>2, <1>4, OthersHave
<1>6. Gains(NetFollows(w), InRole, u, x) /\ Gains(0, InProfile, u, x)
  BY <1>1, <1>2, <1>4, CountingGains DEF Reckoned
<1>7. PICK n \in {-1, 0, 1} : n = NetFollows(w)
  BY DEF FollowsBy, NetFollows
<1>8. CountsFollows(u, x, n, 0)
  <2>1. ASSUME NEW v \in Users
        PROVE  ProfileDue(v)' = ProfileDue(v) /\ ProfileDue(v) = ProfileDue(v) + 0
    <3>1. "watchingRoles" \in DOMAIN NoCounts
      BY DEF NoCounts
    <3>2. profile[v]["watchingRoles"] \in Int /\ astray.user[v] \in Nat
      BY <3>1 DEF AudienceBase, AudienceTypeOK
    <3> QED
      BY <1>1, <3>2 DEF ProfileDue
  <2> QED
    BY <1>1, <1>7, <2>1 DEF CountsFollows
<1>9. FollowsCounted'
  BY <1>1, <1>4, <1>5, <1>6, <1>7, <1>8, FollowsMove DEF Reckoned
<1>10. LikesCounted'
  <2>1. Cast' = Cast
    BY <1>1 DEF Cast
  <2> QED
    BY <1>1, <2>1, RoleIsLiked DEF Reckoned
<1>11. Knows(w)'
  BY <1>1, <1>2, <1>4, CountingKnows DEF Reckoned
<1>12. \A v \in Workers \ {w} : Knows(v)'
  <2>1. \A r \in Cast : role'[r].creator = role[r].creator
    BY <1>1 DEF Cast
  <2> QED
    BY <1>2, <1>4, <2>1, OthersKnow DEF Reckoned
<1> QED
  BY <1>9, <1>10, <1>11, <1>12 DEF Reckoned

LEMMA CountProfileReckons ==
    ASSUME AudienceBase, Undisturbed, Undisturbed', Reckoned, NEW w \in Workers,
           CountProfile(w)
    PROVE  Reckoned'
<1>1. PICK u \in Users, x \in Roles, got \in {worker[w].got}, op \in Counting :
         /\ u = worker[w].user /\ x = worker[w].on /\ op = worker[w].op
         /\ worker[w].pc = "CountProfile" /\ worker[w] # Idle /\ x \in Cast
         /\ GoesOn(w, "idle", got)
         /\ \A v \in Users : /\ ProfileDue(v)' = IF v = u THEN ProfileDue(v) + NetFollows(w)
                                                 ELSE ProfileDue(v)
                             /\ profile'[v].likedRoles =
                                   IF v = u THEN profile[v].likedRoles + LikesBy(op)
                                   ELSE profile[v].likedRoles
         /\ UNCHANGED <<role, watch>> /\ astray'.role = astray.role
  BY CountProfileDoes
<1>2. Turn(w, u, x, "idle", got)
  BY <1>1 DEF Turn, Undisturbed
<1>3. \A r \in Roles : Followers(r)' = Followers(r)
  BY <1>1 DEF Followers
<1>4. OnlyFollows(u, x) /\ (u \in Followers(x)' <=> u \in Followers(x))
  BY <1>3 DEF OnlyFollows
<1>5. OnlyHas(u, x)
  BY <1>2, <1>4, OthersHave
<1>6. Gains(0, InRole, u, x) /\ Gains(NetFollows(w), InProfile, u, x)
  BY <1>1, <1>2, <1>4, CountingGains DEF Reckoned
<1>7. PICK n \in {-1, 0, 1} : n = NetFollows(w)
  BY DEF FollowsBy, NetFollows
<1>8. CountsFollows(u, x, 0, n)
  <2>1. ASSUME NEW r \in Roles
        PROVE  /\ RoleDue(r)' = RoleDue(r) /\ RoleDue(r) = RoleDue(r) + 0
               /\ astray'.role[r] = astray.role[r]
    <3>1. role[r].follow \in Int /\ astray.role[r] \in Nat
      BY DEF AudienceBase, AudienceTypeOK, RoleRows
    <3> QED
      BY <1>1, <3>1 DEF RoleDue
  <2> QED
    BY <1>1, <1>7, <2>1 DEF CountsFollows
<1>9. FollowsCounted'
  BY <1>1, <1>4, <1>5, <1>6, <1>7, <1>8, FollowsMove DEF Reckoned
<1>10. LikesCounted'
  BY <1>1, ProfileIsLiked DEF Reckoned
<1>11. Knows(w)'
  BY <1>1, <1>2, <1>4, CountingKnows DEF Reckoned
<1>12. \A v \in Workers \ {w} : Knows(v)'
  BY <1>1, <1>2, <1>4, OthersKnow DEF Reckoned
<1> QED
  BY <1>9, <1>10, <1>11, <1>12 DEF Reckoned

\* A role that is not there yet has no followers, and no request waits to count
\* one.
LEMMA NewRoleHasNobody ==
    ASSUME AudienceBase, FollowsCounted, NEW x \in Roles, x \notin Cast,
           NEW pcs \in SUBSET InProfile
    PROVE  /\ Followers(x) = {} /\ astray.role[x] = 0
           /\ \A v \in Users : ~ HasIn(pcs, v, x)
<1>1. Followers(x) = {} /\ astray.role[x] = 0
  BY DEF FollowsCounted
<1>2. ASSUME NEW v \in Users, NEW op \in {"CreateStoryRole", "UnFollowStoryRole"},
             NEW qs \in SUBSET (Watching \cup InProfile)
      PROVE  ~ Makes(qs, op, v, x)
  <2> SUFFICES ASSUME NEW a \in Workers, worker[a].pc \in qs, worker[a].op = op,
                      worker[a].on = x
               PROVE  FALSE
    BY DEF Makes
  <2>1. worker[a] # Idle /\ worker[a].pc # "InsertRole"
    BY DEF Idle, Watching, InProfile
  <2>2. OfARole(a)
    BY <2>1 DEF AudienceBase, AudienceLocals, OfAStory, StoryCalls
  <2>3. worker[a].on \in Cast
    BY <2>1, <2>2, RoleRequest
  <2> QED
    BY <2>3
<1>3. \A v \in Users : ~ HasIn(pcs, v, x)
  <2>1. /\ pcs \in SUBSET (Watching \cup InProfile)
        /\ Watching \in SUBSET (Watching \cup InProfile)
    BY DEF InProfile
  <2>2. \A v \in Users : /\ ~ Makes(pcs, "UnFollowStoryRole", v, x)
                         /\ ~ Makes(Watching, "CreateStoryRole", v, x)
    BY <1>2, <2>1
  <2> QED
    BY <1>1, <2>2 DEF HasIn
<1> QED
  BY <1>1, <1>3

\* Request w of user u has inserted the row of role x.
Inserts(w, u, x) ==
    /\ Cast' = Cast \cup {x}
    /\ role'[x] = [creator |-> u, follow |-> 1, like |-> 1]
    /\ \A r \in Roles \ {x} : role'[r] = role[r]

LEMMA NewRoleIsCounted ==
    ASSUME AudienceBase, FollowsCounted, NEW w \in Workers, NEW u \in Users, NEW x \in Roles,
           x \notin Cast, Inserts(w, u, x), OnlyHas(u, x), UNCHANGED <<profile, astray>>,
           \A r \in Roles : Followers(r)' = Followers(r),
           HasIn(InRole, u, x)', HasIn(InProfile, u, x)'
    PROVE  FollowsCounted'
<1>1. /\ Followers(x) = {} /\ astray.role[x] = 0 /\ Cast \subseteq Roles
      /\ \A v \in Users : ~ HasIn(InRole, v, x) /\ ~ HasIn(InProfile, v, x)
  BY NewRoleHasNobody DEF InRole, InProfile, Cast
<1>2. \A v \in Users \ {u} : ~ HasIn(InRole, v, x)' /\ ~ HasIn(InProfile, v, x)'
  BY <1>1 DEF OnlyHas, SameIn
<1>3. ASSUME NEW r \in Roles
      PROVE  /\ IsFiniteSet(RoleTally(r)')
             /\ IF r \in Cast' THEN RoleDue(r)' = Cardinality(RoleTally(r)')
                ELSE Followers(r)' = {} /\ astray'.role[r] = 0
  <2>1. CASE r = x
    <3>1. RoleTally(x)' = {u}
      BY <1>2 DEF RoleTally, InRole
    <3>2. IsFiniteSet({u}) /\ Cardinality({u}) = 1
      BY FS_Singleton
    <3>3. RoleDue(x)' = 1 /\ x \in Cast'
      <4>1. role'[x].follow = 1 /\ astray'.role[x] = 0
        BY <1>1 DEF Inserts
      <4> QED
        BY <4>1 DEF RoleDue, Inserts
    <3> QED
      BY <2>1, <3>1, <3>2, <3>3
  <2>2. CASE r # x
    <3>1. RoleTally(r)' = RoleTally(r)
      BY <2>2 DEF RoleTally, OnlyHas, SameIn, InRole
    <3>2. RoleDue(r)' = RoleDue(r) /\ (r \in Cast' <=> r \in Cast)
      BY <2>2 DEF Inserts, RoleDue
    <3> QED
      BY <3>1, <3>2 DEF FollowsCounted
  <2> QED
    BY <2>1, <2>2
<1>4. ASSUME NEW v \in Users
      PROVE  /\ IsFiniteSet(ProfileTally(v)') /\ IsFiniteSet(CastBy(v)')
             /\ ProfileDue(v)' =
                   Cardinality(ProfileTally(v)') - Cardinality(CastBy(v)')
  <2>1. /\ IsFiniteSet(ProfileTally(v)) /\ IsFiniteSet(CastBy(v))
        /\ ProfileDue(v) = Cardinality(ProfileTally(v)) - Cardinality(CastBy(v))
    BY DEF FollowsCounted
  <2>0. ProfileDue(v)' = ProfileDue(v)
    BY DEF ProfileDue
  <2>2. \A r \in Cast : /\ r # x /\ r \in Roles
                        /\ HasIn(InProfile, v, r)' <=> HasIn(InProfile, v, r)
                        /\ role'[r].creator = role[r].creator
    BY <1>1 DEF OnlyHas, SameIn, Inserts
  <2>3. role'[x].creator = u
    BY DEF Inserts
  <2>4. CASE v # u
    <3>1. ProfileTally(v)' = ProfileTally(v)
      BY <1>2, <2>2, <2>4 DEF ProfileTally, InProfile, Inserts
    <3>2. CastBy(v)' = CastBy(v)
      BY <2>2, <2>3, <2>4 DEF CastBy, Inserts
    <3> QED
      BY <2>0, <2>1, <3>1, <3>2
  <2>5. CASE v = u
    <3>1. ProfileTally(u)' = ProfileTally(u) \cup {x} /\ x \notin ProfileTally(u)
      BY <2>2, <2>5 DEF ProfileTally, InProfile, Inserts
    <3>2. CastBy(u)' = CastBy(u) \cup {x} /\ x \notin CastBy(u)
      BY <2>2, <2>3, <2>5 DEF CastBy, Inserts
    <3>3. PICK a \in Nat, b \in Nat :
             a = Cardinality(ProfileTally(u)) /\ b = Cardinality(CastBy(u))
      BY <2>1, <2>5, FS_CardinalityType
    <3>4. IsFiniteSet(ProfileTally(u)') /\ Cardinality(ProfileTally(u)') = a + 1
      BY <2>1, <2>5, <3>1, <3>3, FS_AddElement
    <3>5. IsFiniteSet(CastBy(u)') /\ Cardinality(CastBy(u)') = b + 1
      BY <2>1, <2>5, <3>2, <3>3, FS_AddElement
    <3>6. a - b = (a + 1) - (b + 1)
      OBVIOUS
    <3> QED
      BY <2>0, <2>1, <2>5, <3>3, <3>4, <3>5, <3>6
  <2> QED
    BY <2>4, <2>5
<1> QED
  BY <1>3, <1>4 DEF FollowsCounted

LEMMA NewRoleIsLiked ==
    ASSUME LikesCounted, NEW w \in Workers, NEW u \in Users, NEW x \in Roles, NEW got,
           x \notin Cast, Inserts(w, u, x), UNCHANGED profile, worker[w] # Idle,
           GoesOn(w, "CountRoleWatches", got), worker[w].pc = "InsertRole"
    PROVE  LikesCounted'
<1>1. PICK f, g : f = RoleLikes /\ g = RoleLikes'
  OBVIOUS
<1>2. /\ x \notin DOMAIN f /\ DOMAIN g = DOMAIN f \cup {x}
      /\ \A y \in DOMAIN f : g[y] = f[y]
  BY <1>1 DEF RoleLikes, Inserts, Cast
<1>3. g[x] = 0
  <2>1. role'[x].like = 1 /\ x \in Cast'
    BY DEF Inserts
  <2>2. g[x] = 1 - 1
    BY <1>1, <2>1 DEF RoleLikes
  <2> QED
    BY <2>2
<1>4. Above(g) = Above(f) /\ Below(g) = Below(f)
  BY <1>2, <1>3, SumOfZero
<1>5. Adds(g) /\ Summed(g) = Summed(RoleLikes)
  BY <1>1, <1>4 DEF LikesCounted, Adds, Summed
<1>6. PICK h : h = ProfileLikes /\ h = ProfileLikes' /\ Adds(h)
  BY DEF ProfileLikes, LikesCounted
<1>7. /\ Halfway("LikeStoryRole")' = Halfway("LikeStoryRole")
      /\ Halfway("UnLikeStoryRole")' = Halfway("UnLikeStoryRole")
  BY HalfwayMoves
<1> QED
  BY <1>1, <1>5, <1>6, <1>7, LikesAre DEF LikesCounted

LEMMA InsertRoleReckons ==
    ASSUME AudienceBase, Undisturbed, Reckoned, NEW w \in Workers, InsertRole(w)
    PROVE  Reckoned'
<1>1. /\ worker[w].pc = "InsertRole" /\ worker[w].op = "CreateStoryRole"
      /\ worker[w] # Idle /\ worker[w].on \in Roles /\ worker[w].user \in Users
      /\ UNCHANGED <<watch, profile, astray>>
  BY InsertRoleDoes
<1>2. \A r \in Roles : Followers(r)' = Followers(r)
  BY <1>1 DEF Followers
<1>3. CASE GoesOn(w, "idle", worker[w].got) /\ UNCHANGED role
  <2>1. LeavesRoles
    BY <1>1, <1>2, <1>3 DEF LeavesRoles
  <2>2. worker'[w].op = "none" /\ OnlyMoves(w)
    BY <1>3 DEF GoesOn, MovesAlone, Idle
  <2>3. ~ Weighs(w) /\ ~ Weighs(w)' /\ Knows(w)'
    BY <1>1, <2>2 DEF Weighs, Knows, Watching
  <2>4. Unweighed
    BY <2>2, <2>3 DEF Unweighed, OnlyMoves
  <2> QED
    BY <2>1, <2>4, CountsStay DEF Reckoned
<1>4. CASE ~ (GoesOn(w, "idle", worker[w].got) /\ UNCHANGED role)
  <2>1. PICK u \in Users, x \in Roles, got \in {worker[w].got} :
           /\ u = worker[w].user /\ x = worker[w].on /\ x \notin Cast
           /\ GoesOn(w, "CountRoleWatches", got) /\ Inserts(w, u, x)
    BY <1>1, <1>4, InsertRoleDoes DEF Inserts
  <2>2. Turn(w, u, x, "CountRoleWatches", got)
    BY <1>1, <2>1 DEF Turn, Undisturbed
  <2>3. OnlyFollows(u, x)
    BY <1>2 DEF OnlyFollows
  <2>4. OnlyHas(u, x)
    BY <2>2, <2>3, OthersHave
  <2>5. Followers(x)' = {}
    BY <1>2, <2>1 DEF Reckoned, FollowsCounted
  <2>6. HasIn(InRole, u, x)' /\ HasIn(InProfile, u, x)'
    <3> SUFFICES ASSUME NEW pcs \in {InRole, InProfile}
                 PROVE  HasIn(pcs, u, x)'
      OBVIOUS
    <3>1. "idle" \notin pcs
      BY DEF InRole, InProfile
    <3>2. HasIn(pcs, u, x)' <=> Weighed(u \in Followers(x)', pcs, worker[w].op, "CountRoleWatches")
      BY <2>2, <3>1, OwnHas
    <3> QED
      BY <1>1, <2>5, <3>2 DEF Weighed, Watching
  <2>7. FollowsCounted'
    BY <1>1, <1>2, <2>1, <2>4, <2>6, NewRoleIsCounted DEF Reckoned
  <2>8. LikesCounted'
    BY <1>1, <2>1, NewRoleIsLiked DEF Reckoned
  <2>9. Knows(w)'
    <3>1. /\ worker'[w].pc = "CountRoleWatches" /\ worker'[w].op = "CreateStoryRole"
          /\ worker'[w].user = u /\ worker'[w].on = x /\ role'[x].creator = u
      BY <1>1, <2>1 DEF GoesOn, Inserts
    <3> QED
      BY <2>5, <3>1 DEF Knows
  <2>10. \A v \in Workers \ {w} : Knows(v)'
    <3>1. \A r \in Cast : role'[r].creator = role[r].creator
      BY <2>1 DEF Inserts, Cast
    <3> QED
      BY <2>2, <2>3, <3>1, OthersKnow DEF Reckoned
  <2> QED
    BY <2>7, <2>8, <2>9, <2>10 DEF Reckoned
<1> QED
  BY <1>3, <1>4

LEMMA UpdateStoryCountsNothing ==
    ASSUME AudienceBase, NEW s, NEW status, NEW closes, UpdateStory(s, status, closes)
    PROVE  LeavesRoles /\ Unweighed /\ (Undisturbed' => Undisturbed)
<1>1. UNCHANGED <<worker, faults, overlapped, role, watch, profile, astray>>
  BY DEF UpdateStory, Serves
<1> QED
  BY <1>1, StoryRowsLeaveRoles DEF Unweighed, Undisturbed

LEMMA StutterCountsNothing ==
    ASSUME AudienceBase, UNCHANGED audienceSpecVars
    PROVE  LeavesRoles /\ Unweighed /\ (Undisturbed' => Undisturbed)
<1>1. UNCHANGED <<worker, faults, overlapped, role, watch, profile, astray>>
  BY DEF audienceSpecVars, requestVars, audience
<1> QED
  BY <1>1, StoryRowsLeaveRoles DEF Unweighed, Undisturbed

\* A request about a story that makes a call was undisturbed if it is now.
LEMMA StepsGoOn ==
    ASSUME AudienceBase, NEW w \in Workers,
           \/ IncGroupProfileStoryCount(w) \/ IncrementCreatedStoryNum(w)
           \/ IncrementWatchingStoryNum(w) \/ CountWatches(w) \/ InsertWatch(w)
           \/ CountFollower(w) \/ GetWatchItemByStoryAndUser(w)
           \/ CreateLikeStoryItem(w) \/ GetStory(w) \/ SaveStory(w)
           \/ DeleteLikeItem(w) \/ CountLikedStory(w)
    PROVE  Undisturbed' => Undisturbed
<1>1. PICK pc, got : GoesWith(w, pc, got) \/ Logs(w, pc)
  BY DEF IncGroupProfileStoryCount, IncrementCreatedStoryNum, IncrementWatchingStoryNum,
         CountWatches, InsertWatch, CountFollower, GetWatchItemByStoryAndUser,
         CreateLikeStoryItem, GetStory, SaveStory, DeleteLikeItem, CountLikedStory, Goes
<1>2. UNCHANGED <<faults, overlapped>> \/ faults' = faults + 1
  BY <1>1 DEF GoesWith, Logs
<1>3. faults \in Nat
  BY DEF AudienceBase
<1> QED
  BY <1>2, <1>3 DEF Undisturbed

LEMMA AudienceStepReckons ==
    ASSUME AudienceBase, Undisturbed => Reckoned, Undisturbed', NEW w \in Workers,
           AudienceStep(w)
    PROVE  Reckoned'
<1>1. CASE \/ IncGroupProfileStoryCount(w) \/ IncrementCreatedStoryNum(w)
           \/ IncrementWatchingStoryNum(w) \/ CountWatches(w) \/ InsertWatch(w)
           \/ CountFollower(w) \/ GetWatchItemByStoryAndUser(w)
           \/ CreateLikeStoryItem(w) \/ GetStory(w) \/ SaveStory(w)
           \/ DeleteLikeItem(w) \/ CountLikedStory(w)
  <2>1. LeavesRoles /\ Unweighed
    BY <1>1, StoryStepsCountNothing
  <2>2. Undisturbed
    BY <1>1, StepsGoOn
  <2> QED
    BY <2>1, <2>2, CountsStay DEF Reckoned
<1>2. CASE \/ InsertRole(w) \/ CountRoleWatches(w) \/ WatchStoryRole(w)
           \/ UnWatchStoryRole(w) \/ CountRole(w) \/ CountProfile(w)
  <2>1. Undisturbed
    BY <1>2, InsertRoleDoes, CountRoleWatchesDoes, WatchRoleDoes, UnWatchRoleDoes, CountRoleDoes, CountProfileDoes
       DEF GoesOn, MovesAlone
  <2> QED
    BY <1>2, <2>1, InsertRoleReckons, CountRoleWatchesReckons, WatchRoleReckons, UnWatchRoleReckons, CountRoleReckons,
       CountProfileReckons
<1>3. CASE CutOff(w) /\ UNCHANGED audience
  BY <1>3, CutOffKeeps
<1> QED
  BY <1>1, <1>2, <1>3 DEF AudienceStep

LEMMA AudienceNextKeeps ==
    AudienceInv /\ [AudienceNext]_audienceSpecVars => AudienceInv'
<1> SUFFICES ASSUME AudienceInv, [AudienceNext]_audienceSpecVars
             PROVE  AudienceInv'
  OBVIOUS
<1>1. AudienceBase /\ (Undisturbed => Reckoned)
  BY DEF AudienceInv, Reckoned
<1>2. AudienceBase'
  BY <1>1, AudienceNextKeepsBase
<1>3. ASSUME Undisturbed'
      PROVE  Reckoned'
  <2>1. CASE \E w \in Workers : AudienceStep(w)
    BY <1>1, <1>3, <2>1, AudienceStepReckons
  <2>2. CASE ~ \E w \in Workers : AudienceStep(w)
    <3>0. None \in NamedStories
      BY DEF NamedStories
    <3>1. LeavesRoles /\ Unweighed /\ (Undisturbed' => Undisturbed)
      BY <1>1, <2>2, <3>0, StutterCountsNothing, StoryRequestsCountNothing,
         RoleRequestsCountNothing, UpdateStoryCountsNothing DEF AudienceNext
    <3> QED
      BY <1>1, <1>3, <3>1, CountsStay DEF Reckoned
  <2> QED
    BY <2>1, <2>2
<1> QED
  BY <1>2, <1>3 DEF AudienceInv, Reckoned

-----------------------------------------------------------------------------
(* Audience: the theorems.                                                 *)

\* The rows, the requests and what they know of the counts stay consistent:
\* the inductive invariant of Audience.
THEOREM AudienceInvariance == AudienceSpec => []AudienceInv
BY AudienceInitHolds, AudienceNextKeeps, PTL DEF AudienceSpec, audienceSpecVars

\* The rows and items stay of their types.
THEOREM AudienceIsTyped == AudienceSpec => []AudienceTypeOK
<1>1. AudienceInv => AudienceTypeOK
  BY DEF AudienceInv, AudienceBase
<1> QED
  BY <1>1, AudienceInvariance, PTL

\* Handlers that save what they computed from a story row read earlier may lose
\* followers and likes, but a story never counts more of them than requests
\* asked for, nor fewer than its creator.
THEOREM StoryCountsAreEarned == AudienceSpec => []StoryCountsStayEarned
<1>1. AudienceInv => StoryCountsStayEarned
  BY DEF AudienceInv, AudienceBase, StoryCountsStayEarned, EarnedBy
<1> QED
  BY <1>1, AudienceInvariance, PTL

LEMMA CountsAgreeAtRest == AudienceInv => RoleCountsAgree
<1> SUFFICES ASSUME AudienceInv, AtRest, Undisturbed
             PROVE  /\ \A r \in Cast :
                          role[r].follow = Cardinality(Followers(r)) - astray.role[r]
                    /\ \A u \in Users :
                          profile[u].watchingRoles =
                              Cardinality({r \in Cast : u \in Followers(r)})
                                  - Cardinality({r \in Cast : role[r].creator = u})
                                  - astray.user[u]
                    /\ Summed([r \in Cast |-> role[r].like - 1]) =
                          Summed([u \in Users |-> profile[u].likedRoles])
  BY DEF RoleCountsAgree
<1>1. Reckoned
  BY DEF AudienceInv, Reckoned
<1>2. \A w \in Workers : worker[w].pc = "idle" /\ worker[w].op = "none"
  BY DEF AtRest, Busy, Idle
<1>3. ASSUME NEW u \in Users, NEW r, NEW pcs
      PROVE  HasIn(pcs, u, r) <=> u \in Followers(r)
  <2>1. \A qs : /\ ~ Makes(qs, "FollowStoryRole", u, r)
                /\ ~ Makes(qs, "UnFollowStoryRole", u, r)
                /\ ~ Makes(qs, "CreateStoryRole", u, r)
    BY <1>2 DEF Makes
  <2> QED
    BY <2>1 DEF HasIn
<1>4. ASSUME NEW r \in Cast
      PROVE  role[r].follow = Cardinality(Followers(r)) - astray.role[r]
  <2>1. RoleTally(r) = Followers(r)
    BY <1>3 DEF RoleTally, Followers
  <2>2. /\ IsFiniteSet(Followers(r)) /\ r \in Roles
        /\ RoleDue(r) = Cardinality(Followers(r))
    BY <1>1, <2>1 DEF Reckoned, FollowsCounted, Cast
  <2>3. PICK f \in Int, a \in Nat : f = role[r].follow /\ a = astray.role[r]
    BY <2>2 DEF AudienceInv, AudienceBase, AudienceTypeOK, RoleRows
  <2>4. f + a = Cardinality(Followers(r)) => f = Cardinality(Followers(r)) - a
    BY <2>2, FS_CardinalityType
  <2> QED
    BY <2>2, <2>3, <2>4 DEF RoleDue
<1>5. ASSUME NEW u \in Users
      PROVE  profile[u].watchingRoles =
                 Cardinality({r \in Cast : u \in Followers(r)})
                     - Cardinality({r \in Cast : role[r].creator = u})
                     - astray.user[u]
  <2>1. ProfileTally(u) = {r \in Cast : u \in Followers(r)}
    BY <1>3 DEF ProfileTally
  <2>2. CastBy(u) = {r \in Cast : role[r].creator = u}
    BY DEF CastBy
  <2>3. PICK f \in Int, a \in Nat : f = profile[u].watchingRoles /\ a = astray.user[u]
    <3>1. "watchingRoles" \in DOMAIN NoCounts
      BY DEF NoCounts
    <3>2. profile[u]["watchingRoles"] \in Int /\ astray.user[u] \in Nat
      BY <3>1 DEF AudienceInv, AudienceBase, AudienceTypeOK
    <3> QED
      BY <3>2
  <2>4. /\ IsFiniteSet(ProfileTally(u)) /\ IsFiniteSet(CastBy(u))
        /\ f + a = Cardinality(ProfileTally(u)) - Cardinality(CastBy(u))
    BY <1>1, <2>3 DEF Reckoned, FollowsCounted, ProfileDue
  <2>5. PICK b \in Nat, c \in Nat : b = Cardinality(ProfileTally(u)) /\ c = Cardinality(CastBy(u))
    BY <2>4, FS_CardinalityType
  <2>6. f = b - c - a
    BY <2>4, <2>5
  <2> QED
    BY <2>1, <2>2, <2>3, <2>5, <2>6
<1>6. Summed(RoleLikes) = Summed(ProfileLikes)
  <2>1. Halfway("LikeStoryRole") = {} /\ Halfway("UnLikeStoryRole") = {}
    BY <1>2 DEF Halfway
  <2>2. Cardinality({}) = 0
    BY FS_EmptySet
  <2>3. PICK s \in Int, t \in Int : s = Summed(RoleLikes) /\ t = Summed(ProfileLikes)
    BY <1>1, SumsAreIntegers DEF Reckoned, LikesCounted
  <2>4. s = t + 0 - 0
    BY <1>1, <2>1, <2>2, <2>3 DEF Reckoned, LikesCounted
  <2> QED
    BY <2>3, <2>4
<1> QED
  BY <1>4, <1>5, <1>6 DEF RoleLikes, ProfileLikes

\* While no user sends a request before the last was answered and no call
\* fails, the requests of different users may interleave in any way: once they
\* have returned, a role's followers are those it counts and a profile counts
\* the roles its user follows but those it created, less one for each unfollow
\* that named another story and left its user a follower, and the likes add up.
THEOREM RoleCountsAreRight == AudienceSpec => []RoleCountsAgree
BY CountsAgreeAtRest, AudienceInvariance, PTL

-----------------------------------------------------------------------------
(* Edits: rows, and the requests that hold what they read of one.          *)

editsSpecVars == <<requestVars, edits>>

\* Request w will save row i as it read it.
AboutToSave(w, i) == worker[w].pc = "SaveRow" /\ worker[w].got.id = i

\* What an edit of a user's profile also asks for.
NamesUser(w) ==
    /\ worker[w].on.user \in RowIds /\ worker[w].on.given \in SUBSET {"name"}
    /\ worker[w].on.value \in Int

OfARow(w) ==
    /\ worker[w].got.id \in RowIds \cup {0}
    /\ worker[w].got.image \in [Columns(editing) -> Int]
    /\ \/ /\ editing = "user" /\ worker[w].on.column = "background"
          /\ worker[w].on.value \in Nat \ {0}
          /\ worker[w].op = "UpdateUserProfile" => NamesUser(w)
       \/ /\ editing = "board" /\ worker[w].on.column \in {"like_num", "comment_num"}
          /\ worker[w].on.value \in Int /\ worker[w].got.id # 0
          /\ worker[w].op # "UpdateUserProfile"

EditLocals(w) ==
    worker[w] # Idle => \/ worker[w].pc = "SaveRow" /\ OfARow(w)
                        \/ worker[w].pc = "UpdateUserInfo" /\ editing = "user" /\ NamesUser(w)

\* The image of a row that nothing disturbed since is still what the row holds;
\* while every user has a profile it is that of the user of the same id.
ImageIsFresh(w) ==
    \A i \in RowIds : AboutToSave(w, i) =>
        \A c \in SavedColumns :
            <<i, c>> \notin disturbed => worker[w].got.image[c] = row[i][c]

EveryoneIsThere == editing = "user" /\ missing = {}

ImageIsOwn(w) ==
    EveryoneIsThere /\ worker[w].pc = "SaveRow"
        => worker[w].got.id # 0 /\ worker[w].got.image.user_id = worker[w].got.id

RowsStand ==
    \A i \in RowIds, c \in Columns(editing) :
        <<i, c>> \notin disturbed => row[i][c] = wanted[i][c]

RowsAreOwn == EveryoneIsThere => \A i \in RowIds : row[i].user_id = i

EditsInv ==
    /\ EditsTypeOK /\ served \in Nat /\ DOMAIN worker = Workers /\ Shaped
    /\ \A w \in Workers : EditLocals(w) /\ ImageIsFresh(w) /\ ImageIsOwn(w)
    /\ RowsStand /\ RowsAreOwn
    /\ editing \in {"role", "group"} => disturbed = {}
    /\ editing # "board" => liked = {}

-----------------------------------------------------------------------------
(* Edits: the handlers and the columns that they write.                    *)

\* An edit writes columns that its table has, never the user of a profile; that
\* of a role or of a group writes one row only.
FitsTable(e) ==
    /\ e.columns \in SUBSET Columns(e.table) /\ "user_id" \notin e.columns
    /\ e.every \in BOOLEAN /\ (e.table \in {"role", "group"} => ~ e.every)

LEMMA EditFits ==
    ASSUME NEW t, NEW cs, NEW by, NEW every \in BOOLEAN,
           cs \in SUBSET Columns(t), "user_id" \notin cs, t \in {"role", "group"} => ~ every
    PROVE  FitsTable(Edit(t, cs, by, every))
BY DEF FitsTable, Edit

\* The columns of a role or a group are those that some edit writes.
LEMMA OtherColumns ==
    ASSUME NEW e \in Edits, e.table \in {"role", "group"}
    PROVE  e.columns \in SUBSET Columns(e.table)
BY DEF Columns

LEMMA UserEditsFit ==
    /\ FitsTable(UpdateAvator) /\ FitsTable(UpdateUser) /\ FitsTable(UpdateUserInfo)
<1>1. {"avatar", "name"} \subseteq Columns("user")
  BY DEF Columns
<1> QED
  BY <1>1, EditFits DEF UpdateAvator, UpdateUser, UpdateUserInfo, Alters, AltersEvery

LEMMA BoardEditsFit ==
    /\ FitsTable(UpdateStoryboard) /\ FitsTable(PublishStoryboard)
<1>1. {"params", "stage"} \subseteq Columns("board")
  BY DEF Columns, BoardColumns
<1> QED
  BY <1>1, EditFits DEF UpdateStoryboard, PublishStoryboard, Alters, AltersIfSameId

LEMMA ItemEditsFit ==
    /\ FitsTable(UpdateItem) /\ FitsTable(DeleteItem)
    /\ FitsTable(UpdateProject) /\ FitsTable(DeleteProject)
<1>1. {"visable"} \subseteq Columns("item")
  BY DEF Columns
<1> QED
  BY <1>1, EditFits DEF UpdateItem, DeleteItem, UpdateProject, DeleteProject, Alters, AltersEvery

RoleOrGroup(e) ==
    /\ e.table \in {"role", "group"} /\ "user_id" \notin e.columns /\ e.every = FALSE

LEMMA OtherEditsFit ==
    /\ RoleOrGroup(UpdateGroupInfo) /\ RoleOrGroup(UpdateGroupProfile)
    /\ RoleOrGroup(UpdateStoryRoleDetail) /\ RoleOrGroup(UpdateStoryRole)
    /\ RoleOrGroup(UpdateStoryRoleAvator) /\ RoleOrGroup(UpdateStoryRoleDescriptionDetail)
    /\ RoleOrGroup(UpdateRoleDescription) /\ RoleOrGroup(UpdateStoryRolePrompt)
    /\ RoleOrGroup(UpdateRolePrompt) /\ RoleOrGroup(UpdateStoryRolePoster)
BY DEF RoleOrGroup, Edit, Alters, AltersOwn, AltersIfSameId, UpdateGroupInfo,
       UpdateGroupProfile, UpdateStoryRoleDetail, UpdateStoryRole, UpdateStoryRoleAvator,
       UpdateStoryRoleDescriptionDetail, UpdateRoleDescription, UpdateStoryRolePrompt,
       UpdateRolePrompt, UpdateStoryRolePoster

LEMMA EditsFit ==
    ASSUME NEW e \in Edits
    PROVE  FitsTable(e)
<1>1. CASE RoleOrGroup(e)
  BY <1>1, OtherColumns DEF RoleOrGroup, FitsTable
<1>2. CASE ~ RoleOrGroup(e)
  <2>1. e \in {UpdateAvator, UpdateUser, UpdateStoryboard, PublishStoryboard, UpdateItem,
               DeleteItem, UpdateProject, DeleteProject}
    BY <1>2, OtherEditsFit DEF Edits
  <2> QED
    BY <2>1, UserEditsFit, BoardEditsFit, ItemEditsFit
<1> QED
  BY <1>1, <1>2

\* The tables whose rows are saved as a whole.
LEMMA SavedAreColumns ==
    /\ editing = "user" => SavedColumns = ProfileColumns /\ ProfileColumns \subseteq Columns("user")
                           /\ "name" \in Columns("user")
    /\ editing = "board" => SavedColumns = Columns("board") /\ Columns("board") = BoardColumns
BY DEF SavedColumns, Columns, ProfileColumns

LEMMA EditsInitHolds == RequestsInit /\ EditsInit => EditsInv
<1> SUFFICES ASSUME RequestsInit, EditsInit
             PROVE  EditsInv
  OBVIOUS
<1>1. /\ worker = [w \in Workers |-> Idle] /\ served = 0 /\ editing \in EditedTables
      /\ row = [i \in RowIds |-> NewRow(editing, i)] /\ wanted = row
      /\ liked = {} /\ disturbed = {} /\ missing \subseteq RowIds
  BY DEF RequestsInit, EditsInit
<1>2. \A i \in RowIds : i \in Int
  BY EditsAssumption
<1>3. row \in [RowIds -> [Columns(editing) -> Int]]
  BY <1>1, <1>2 DEF NewRow
<1>4. EditsTypeOK
  BY <1>1, <1>3 DEF EditsTypeOK
<1>5. \A w \in Workers : worker[w] = Idle /\ worker[w].pc = "idle"
  BY <1>1 DEF Idle
<1>6. \A w \in Workers : EditLocals(w) /\ ImageIsFresh(w) /\ ImageIsOwn(w)
  BY <1>5 DEF EditLocals, ImageIsFresh, ImageIsOwn, AboutToSave
<1>7. DOMAIN worker = Workers /\ Shaped
  BY <1>1 DEF Shaped, Idle
<1>8. RowsAreOwn
  BY <1>1, SavedAreColumns DEF RowsAreOwn, EveryoneIsThere, NewRow, ProfileColumns
<1> QED
  BY <1>1, <1>4, <1>6, <1>7, <1>8 DEF EditsInv, RowsStand

-----------------------------------------------------------------------------
(* Edits: the requests that hold a row.                                    *)

LEMMA HeldIsHeld ==
    ASSUME EditsInv, NEW w, NEW i
    PROVE  Held(w, i) <=> \E v \in Workers \ {w} : AboutToSave(v, i)
BY DEF Held, AboutToSave, Busy, Idle

\* What has changed in the rows is none of what request v holds, or is known to
\* be disturbed.
Leaves(v) ==
    \A i \in RowIds : AboutToSave(v, i) =>
        \A c \in SavedColumns :
            <<i, c>> \notin disturbed' => <<i, c>> \notin disturbed /\ row'[i][c] = row[i][c]

\* The rows after a step.
RowsGoOn ==
    /\ EditsTypeOK' /\ UNCHANGED <<editing, missing>>
    /\ RowsStand' /\ RowsAreOwn'
    /\ editing \in {"role", "group"} => disturbed' = {}
    /\ editing # "board" => liked' = {}

\* A request that moved.
MovesRight(w) == EditLocals(w)' /\ ImageIsFresh(w)' /\ ImageIsOwn(w)'

LEMMA EditsGoOn ==
    ASSUME EditsInv, RowsGoOn, served' \in Nat, DOMAIN worker' = Workers, Shaped',
           \A v \in Workers : MovesRight(v) \/ (worker'[v] = worker[v] /\ Leaves(v))
    PROVE  EditsInv'
<1>1. UNCHANGED <<editing, missing>>
  BY DEF RowsGoOn
<1>2. ASSUME NEW v \in Workers, worker'[v] = worker[v], Leaves(v)
      PROVE  MovesRight(v)
  <2>1. EditLocals(v)'
    <3>1. EditLocals(v)
      BY DEF EditsInv
    <3> QED
      BY <1>1, <1>2, <3>1 DEF EditLocals, OfARow, NamesUser
  <2>2. ImageIsFresh(v)'
    <3>1. ImageIsFresh(v)
      BY DEF EditsInv
    <3>2. SavedColumns' = SavedColumns
      BY <1>1 DEF SavedColumns
    <3> QED
      BY <1>2, <3>1, <3>2 DEF ImageIsFresh, Leaves, AboutToSave
  <2>3. ImageIsOwn(v)'
    <3>1. ImageIsOwn(v)
      BY DEF EditsInv
    <3> QED
      BY <1>1, <1>2, <3>1 DEF ImageIsOwn, EveryoneIsThere
  <2> QED
    BY <2>1, <2>2, <2>3 DEF MovesRight
<1>3. \A v \in Workers : EditLocals(v)' /\ ImageIsFresh(v)' /\ ImageIsOwn(v)'
  BY <1>2 DEF MovesRight
<1> QED
  BY <1>1, <1>3 DEF EditsInv, RowsGoOn

\* A request that returns has nothing.
LEMMA ReturnIsRight ==
    ASSUME NEW w \in Workers, worker'[w] = Idle
    PROVE  MovesRight(w)
BY DEF MovesRight, EditLocals, ImageIsFresh, ImageIsOwn, AboutToSave, Idle

-----------------------------------------------------------------------------
(* Edits: updates of columns.                                              *)

LEMMA WithIs ==
    ASSUME NEW D, NEW r \in [D -> Int], NEW cs, NEW v \in Int
    PROVE  /\ With(r, cs, v) \in [D -> Int]
           /\ \A c \in D : With(r, cs, v)[c] = IF c \in cs THEN v ELSE r[c]
BY DEF With

\* Value v is written to the columns given: of row i, where it was asked for, or
\* of every row.
Writes(w, every, i, given, v) ==
    /\ UNCHANGED <<editing, missing, liked>>
    /\ row' \in [RowIds -> [Columns(editing) -> Int]]
    /\ wanted' \in [RowIds -> [Columns(editing) -> Int]]
    /\ disturbed' \in SUBSET (RowIds \X Columns(editing))
    /\ \A j \in RowIds, c \in Columns(editing) :
          /\ row'[j][c] = IF (every \/ j = i) /\ c \in given THEN v ELSE row[j][c]
          /\ wanted'[j][c] = IF j = i /\ c \in given THEN v ELSE wanted[j][c]
          /\ <<j, c>> \in disturbed' <=>
               \/ <<j, c>> \in disturbed /\ ~ (j = i /\ c \in given)
               \/ every /\ j # i /\ c \in given
               \/ j = i /\ Held(w, i) /\ c \in given /\ c \in SavedColumns

LEMMA UpdateDoes ==
    ASSUME EditsTypeOK, NEW w, NEW e, e.every \in BOOLEAN, NEW i \in RowIds,
           NEW given \in SUBSET Columns(editing), NEW v \in Int, Update(w, e, i, given, v)
    PROVE  Writes(w, e.every, i, given, v)
<1>1. /\ row' = [j \in RowIds |-> IF j \in Hits(e, i) THEN With(row[j], given, v) ELSE row[j]]
      /\ wanted' = [wanted EXCEPT ![i] = With(@, given, v)]
      /\ disturbed' = (disturbed \ ({i} \X given))
                         \cup ((IF e.every THEN RowIds \ {i} ELSE {}) \X given)
                         \cup (IF Held(w, i) THEN {i} \X (given \cap SavedColumns) ELSE {})
      /\ UNCHANGED <<editing, missing, liked>>
  BY DEF Update, Disturb
<1>2. \A j \in RowIds : j \in Hits(e, i) <=> e.every \/ j = i
  BY DEF Hits
<1>3. /\ row \in [RowIds -> [Columns(editing) -> Int]]
      /\ wanted \in [RowIds -> [Columns(editing) -> Int]]
      /\ disturbed \in SUBSET (RowIds \X Columns(editing))
  BY DEF EditsTypeOK
<1>4. ASSUME NEW j \in RowIds
      PROVE  /\ row'[j] \in [Columns(editing) -> Int]
             /\ wanted'[j] \in [Columns(editing) -> Int]
             /\ \A c \in Columns(editing) :
                  /\ row'[j][c] = IF (e.every \/ j = i) /\ c \in given THEN v ELSE row[j][c]
                  /\ wanted'[j][c] = IF j = i /\ c \in given THEN v ELSE wanted[j][c]
  <2>1. row[j] \in [Columns(editing) -> Int] /\ wanted[j] \in [Columns(editing) -> Int]
    BY <1>3
  <2>2. /\ With(row[j], given, v) \in [Columns(editing) -> Int]
        /\ \A c \in Columns(editing) :
             With(row[j], given, v)[c] = IF c \in given THEN v ELSE row[j][c]
    BY <2>1, WithIs
  <2>3. /\ With(wanted[j], given, v) \in [Columns(editing) -> Int]
        /\ \A c \in Columns(editing) :
             With(wanted[j], given, v)[c] = IF c \in given THEN v ELSE wanted[j][c]
    BY <2>1, WithIs
  <2>4. row'[j] = IF e.every \/ j = i THEN With(row[j], given, v) ELSE row[j]
    BY <1>1, <1>2
  <2>5. wanted'[j] = IF j = i THEN With(wanted[j], given, v) ELSE wanted[j]
    BY <1>1, <1>3
  <2> QED
    BY <2>1, <2>2, <2>3, <2>4, <2>5
<1>5. row' \in [RowIds -> [Columns(editing) -> Int]]
  <2>1. row' = [j \in RowIds |-> row'[j]]
    BY <1>1
  <2> QED
    BY <1>4, <2>1
<1>6. wanted' \in [RowIds -> [Columns(editing) -> Int]]
  <2>1. wanted' = [j \in RowIds |-> wanted'[j]]
    BY <1>1, <1>3
  <2> QED
    BY <1>4, <2>1
<1>7. disturbed' \in SUBSET (RowIds \X Columns(editing))
  BY <1>1, <1>3
<1>8. \A j \in RowIds, c \in Columns(editing) :
         <<j, c>> \in disturbed' <=>
            \/ <<j, c>> \in disturbed /\ ~ (j = i /\ c \in given)
            \/ e.every /\ j # i /\ c \in given
            \/ j = i /\ Held(w, i) /\ c \in given /\ c \in SavedColumns
  BY <1>1
<1> QED
  BY <1>1, <1>4, <1>5, <1>6, <1>7, <1>8 DEF Writes

LEMMA UpdateKeeps ==
    ASSUME EditsInv, NEW w, w \in Workers => worker[w].pc # "SaveRow",
           NEW e, FitsTable(e), e.table = editing, NEW i \in RowIds,
           NEW given \in SUBSET e.columns, NEW v \in Int, Update(w, e, i, given, v)
    PROVE  RowsGoOn /\ \A x \in Workers : Leaves(x)
<1>1. /\ EditsTypeOK /\ e.every \in BOOLEAN /\ given \in SUBSET Columns(editing)
      /\ "user_id" \notin given
      /\ editing \in {"role", "group"} => ~ e.every
  BY DEF EditsInv, FitsTable
<1>0. Writes(w, e.every, i, given, v)
  BY <1>1, UpdateDoes
<1>2. /\ UNCHANGED <<editing, missing, liked>>
      /\ row' \in [RowIds -> [Columns(editing) -> Int]]
      /\ wanted' \in [RowIds -> [Columns(editing) -> Int]]
      /\ disturbed' \in SUBSET (RowIds \X Columns(editing))
      /\ \A j \in RowIds, c \in Columns(editing) :
            /\ row'[j][c] = IF (e.every \/ j = i) /\ c \in given THEN v ELSE row[j][c]
            /\ wanted'[j][c] = IF j = i /\ c \in given THEN v ELSE wanted[j][c]
            /\ <<j, c>> \in disturbed' <=>
                 \/ <<j, c>> \in disturbed /\ ~ (j = i /\ c \in given)
                 \/ e.every /\ j # i /\ c \in given
                 \/ j = i /\ Held(w, i) /\ c \in given /\ c \in SavedColumns
  BY <1>0 DEF Writes
<1>3. EditsTypeOK'
  BY <1>1, <1>2 DEF EditsTypeOK
<1>4. RowsStand'
  <2> SUFFICES ASSUME NEW j \in RowIds, NEW c \in Columns(editing), <<j, c>> \notin disturbed'
               PROVE  row'[j][c] = wanted'[j][c]
    BY <1>2 DEF RowsStand
  <2>1. <<j, c>> \notin disturbed => row[j][c] = wanted[j][c]
    BY DEF EditsInv, RowsStand
  <2> QED
    BY <1>2, <2>1
<1>5. RowsAreOwn'
  <2> SUFFICES ASSUME EveryoneIsThere, NEW j \in RowIds
               PROVE  row'[j].user_id = j
    BY <1>2 DEF RowsAreOwn, EveryoneIsThere
  <2>1. "user_id" \in Columns(editing)
    BY SavedAreColumns DEF EveryoneIsThere, ProfileColumns
  <2>2. row'[j]["user_id"] = row[j]["user_id"]
    BY <1>1, <1>2, <2>1
  <2> QED
    BY <2>2 DEF EditsInv, RowsAreOwn
<1>6. ASSUME editing \in {"role", "group"}
      PROVE  disturbed' = {}
  <2>1. disturbed = {}
    BY <1>6 DEF EditsInv
  <2>2. ~ Held(w, i)
    <3>1. \A x \in Workers : worker[x].pc # "SaveRow"
      BY <1>6 DEF EditsInv, EditLocals, OfARow, Idle
    <3> QED
      BY <3>1 DEF Held, Busy
  <2> QED
    BY <1>1, <1>2, <1>6, <2>1, <2>2
<1>7. ASSUME NEW x \in Workers
      PROVE  Leaves(x)
  <2> SUFFICES ASSUME NEW j \in RowIds, AboutToSave(x, j), NEW c \in SavedColumns,
                      <<j, c>> \notin disturbed'
               PROVE  <<j, c>> \notin disturbed /\ row'[j][c] = row[j][c]
    BY DEF Leaves
  <2>1. worker[x] # Idle
    BY DEF AboutToSave, Idle
  <2>2. editing \in {"user", "board"}
    BY <2>1 DEF EditsInv, EditLocals, OfARow
  <2>3. c \in Columns(editing)
    BY <2>2, SavedAreColumns
  <2>4. j = i => Held(w, i)
    <3>1. x # w
      BY DEF AboutToSave
    <3> QED
      BY <3>1, HeldIsHeld
  <2> QED
    BY <1>1, <1>2, <2>3, <2>4
<1>8. editing # "board" => liked' = {}
  BY <1>2 DEF EditsInv
<1> QED
  BY <1>2, <1>3, <1>4, <1>5, <1>6, <1>7, <1>8 DEF RowsGoOn

LEMMA AlterKeeps ==
    ASSUME EditsInv, NEW e \in Edits, NEW i \in RowIds, NEW given \in Some(e.columns),
           Alter(e, i, given)
    PROVE  EditsInv'
<1>1. /\ e.table = editing /\ served' = served + 1
      /\ UNCHANGED <<worker, faults, overlapped>>
      /\ Update(None, e, i, given, served + 1)
  BY DEF Alter, Serves
<1>2. given \in SUBSET e.columns
  BY DEF Some
<1>3. served + 1 \in Nat /\ None \notin Workers
  BY RequestsAssumption DEF EditsInv
<1>4. FitsTable(e)
  BY EditsFit
<1>5. PICK v \in Int : v = served + 1
  BY <1>3
<1>6. RowsGoOn /\ \A x \in Workers : Leaves(x)
  BY <1>1, <1>2, <1>3, <1>4, <1>5, UpdateKeeps
<1>7. DOMAIN worker' = Workers /\ Shaped'
  BY <1>1 DEF EditsInv, Shaped
<1> QED
  BY <1>1, <1>3, <1>6, <1>7, EditsGoOn

LEMMA IncrementCreatedBoardNumKeeps ==
    ASSUME EditsInv, NEW u \in RowIds, IncrementCreatedBoardNum(u)
    PROVE  EditsInv'
<1> DEFINE col == "created_board_num"
           named == Profiles(u)
<1>1. /\ editing = "user" /\ served' = served + 1 /\ UNCHANGED <<worker, editing, missing, liked>>
      /\ row' = [i \in RowIds |-> IF i \in named
                                  THEN [row[i] EXCEPT ![col] = @ + 1] ELSE row[i]]
      /\ wanted' = [i \in RowIds |-> IF i \in named
                                     THEN [wanted[i] EXCEPT ![col] = @ + 1] ELSE wanted[i]]
      /\ disturbed' = disturbed \cup ({i \in named : Held(None, i)} \X {col})
  BY DEF IncrementCreatedBoardNum, Serves
<1>2. /\ col \in Columns("user") /\ "user_id" \in Columns("user") /\ named \subseteq RowIds
      /\ SavedColumns \subseteq Columns("user")
  BY <1>1, SavedAreColumns DEF ProfileColumns, Profiles
<1>3. /\ row \in [RowIds -> [Columns("user") -> Int]]
      /\ wanted \in [RowIds -> [Columns("user") -> Int]]
      /\ disturbed \in SUBSET (RowIds \X Columns("user"))
  BY <1>1 DEF EditsInv, EditsTypeOK
<1> HIDE DEF named
<1>4. ASSUME NEW i \in RowIds
      PROVE  /\ row'[i] \in [Columns("user") -> Int] /\ wanted'[i] \in [Columns("user") -> Int]
             /\ \A c \in Columns("user") :
                  /\ row'[i][c] = IF i \in named /\ c = col THEN row[i][c] + 1 ELSE row[i][c]
                  /\ wanted'[i][c] = IF i \in named /\ c = col THEN wanted[i][c] + 1
                                     ELSE wanted[i][c]
  <2>1. row[i] \in [Columns("user") -> Int] /\ wanted[i] \in [Columns("user") -> Int]
    BY <1>3
  <2>2. /\ row'[i] = IF i \in named THEN [row[i] EXCEPT ![col] = @ + 1] ELSE row[i]
        /\ wanted'[i] = IF i \in named THEN [wanted[i] EXCEPT ![col] = @ + 1] ELSE wanted[i]
    BY <1>1
  <2> QED
    BY <1>2, <2>1, <2>2
<1>5. EditsTypeOK'
  <2>1. row' \in [RowIds -> [Columns("user") -> Int]]
    <3>1. row' = [i \in RowIds |-> row'[i]]
      BY <1>1
    <3> QED
      BY <1>4, <3>1
  <2>2. wanted' \in [RowIds -> [Columns("user") -> Int]]
    <3>1. wanted' = [i \in RowIds |-> wanted'[i]]
      BY <1>1
    <3> QED
      BY <1>4, <3>1
  <2>3. disturbed' \in SUBSET (RowIds \X Columns("user"))
    BY <1>1, <1>2, <1>3
  <2> QED
    BY <1>1, <2>1, <2>2, <2>3 DEF EditsInv, EditsTypeOK
<1>6. RowsStand'
  <2> SUFFICES ASSUME NEW i \in RowIds, NEW c \in Columns("user"), <<i, c>> \notin disturbed'
               PROVE  row'[i][c] = wanted'[i][c]
    BY <1>1 DEF RowsStand
  <2>1. row[i][c] = wanted[i][c]
    BY <1>1 DEF EditsInv, RowsStand
  <2> QED
    BY <1>4, <2>1
<1>7. RowsAreOwn'
  BY <1>1, <1>2, <1>4 DEF EditsInv, RowsAreOwn, EveryoneIsThere
<1>8. ASSUME NEW x \in Workers
      PROVE  Leaves(x)
  <2> SUFFICES ASSUME NEW i \in RowIds, AboutToSave(x, i), NEW c \in SavedColumns,
                      <<i, c>> \notin disturbed'
               PROVE  <<i, c>> \notin disturbed /\ row'[i][c] = row[i][c]
    BY DEF Leaves
  <2>1. Held(None, i)
    BY RequestsAssumption, HeldIsHeld
  <2>2. ~ (i \in named /\ c = col)
    BY <1>1, <2>1
  <2> QED
    BY <1>1, <1>2, <1>4, <2>2
<1>9. /\ RowsGoOn /\ DOMAIN worker' = Workers /\ Shaped' /\ served' \in Nat
  BY <1>1, <1>5, <1>6, <1>7 DEF EditsInv, RowsGoOn, Shaped
<1> QED
  BY <1>1, <1>8, <1>9, EditsGoOn

-----------------------------------------------------------------------------
(* Edits: requests that read a row.                                        *)

LEMMA ReadIs ==
    ASSUME NEW i \in RowIds
    PROVE  Read(i).id = i /\ Read(i).image = row[i]
BY EditsAssumption DEF Read

LEMMA ProfileIs ==
    ASSUME EditsInv, editing = "user", NEW u \in RowIds
    PROVE  /\ ProfileOf(u).id \in RowIds \cup {0}
           /\ ProfileOf(u).image \in [Columns("user") -> Int]
           /\ ProfileOf(u).id # 0 => ProfileOf(u).image = row[ProfileOf(u).id]
           /\ EveryoneIsThere => ProfileOf(u).id # 0
<1>1. row \in [RowIds -> [Columns("user") -> Int]]
  BY DEF EditsInv, EditsTypeOK
<1>2. CASE Profiles(u) = {}
  <2>1. ProfileOf(u) = [Read(0) EXCEPT !.image.user_id = u]
    BY <1>2 DEF ProfileOf
  <2>2. Read(0) = [id |-> 0, image |-> NewRow("user", 0)]
    BY DEF Read
  <2>3. NewRow("user", 0) \in [Columns("user") -> Int]
    BY DEF NewRow
  <2>4. PICK new \in [Columns("user") -> Int] : new = NewRow("user", 0)
    BY <2>3
  <2>5. ProfileOf(u) = [[id |-> 0, image |-> new] EXCEPT !.image.user_id = u]
    BY <2>1, <2>2, <2>4
  <2>6. u \in Int
    BY EditsAssumption
  <2>7. ProfileOf(u).id = 0 /\ ProfileOf(u).image = [new EXCEPT !.user_id = u]
    BY <2>5
  <2>8. ProfileOf(u).image \in [Columns("user") -> Int]
    BY <2>4, <2>6, <2>7
  <2>9. ~ EveryoneIsThere
    <3>1. EveryoneIsThere => row[u].user_id = u
      BY DEF EditsInv, RowsAreOwn
    <3> QED
      BY <1>2, <3>1 DEF Profiles, EveryoneIsThere
  <2> QED
    BY <2>7, <2>8, <2>9
<1>3. CASE Profiles(u) # {}
  <2>1. Profiles(u) \in SUBSET Nat /\ Profiles(u) \subseteq RowIds
    BY EditsAssumption DEF Profiles
  <2>2. PICK i \in Profiles(u) :
           i = CHOOSE p \in Profiles(u) : \A j \in Profiles(u) : p <= j
    BY <1>3, <2>1, SomeIsLowest
  <2>3. ProfileOf(u) = Read(i) /\ i \in RowIds
    BY <1>3, <2>1, <2>2 DEF ProfileOf
  <2> QED
    BY <1>1, <2>3, ReadIs, EditsAssumption
<1> QED
  BY <1>2, <1>3

LEMMA EditArrives ==
    ASSUME EditsInv, NEW w \in Workers, NEW op, NEW x, NEW pc, NEW got,
           Begins(w, None, op, x, pc, got)
    PROVE  /\ worker[w] = Idle
           /\ worker'[w] = [pc |-> pc, user |-> None, op |-> op, on |-> x, got |-> got]
           /\ OnlyMoves(w) /\ DOMAIN worker' = Workers /\ Shaped'
           /\ served' \in Nat
<1>1. /\ worker[w] = Idle /\ served' = served + 1
      /\ worker' = [worker EXCEPT ![w] = [pc |-> pc, user |-> None, op |-> op,
                                          on |-> x, got |-> got]]
  BY DEF Begins, Takes
<1>2. /\ worker'[w] = [pc |-> pc, user |-> None, op |-> op, on |-> x, got |-> got]
      /\ OnlyMoves(w) /\ DOMAIN worker' = Workers
  BY <1>1 DEF EditsInv, OnlyMoves
<1>3. Shaped'
  BY <1>2, RequestIsShaped DEF EditsInv
<1> QED
  BY <1>1, <1>2, <1>3 DEF EditsInv

\* While no row changes none is disturbed.
LEMMA NothingIsWritten ==
    ASSUME EditsInv, UNCHANGED <<editing, row, missing, wanted, disturbed>>,
           liked' \in SUBSET RowIds, editing # "board" => liked' = {}
    PROVE  RowsGoOn /\ \A v \in Workers : Leaves(v)
<1>1. EditsTypeOK' /\ RowsStand' /\ RowsAreOwn'
  BY DEF EditsInv, EditsTypeOK, RowsStand, RowsAreOwn, EveryoneIsThere
<1> QED
  BY <1>1 DEF EditsInv, RowsGoOn, Leaves

\* A request that has arrived holds a row as it is.
LEMMA HolderArrives ==
    ASSUME EditsInv, NEW w \in Workers, NEW op, NEW x, NEW got,
           Begins(w, None, op, x, "SaveRow", got),
           UNCHANGED <<editing, row, missing, wanted, disturbed>>,
           liked' \in SUBSET RowIds, editing # "board" => liked' = {},
           got.id \in RowIds \cup {0}, got.image \in [Columns(editing) -> Int],
           got.id # 0 => got.image = row[got.id],
           EveryoneIsThere => got.id # 0,
           \/ /\ editing = "user" /\ x.column = "background" /\ x.value \in Nat \ {0}
              /\ op = "UpdateUserProfile" => /\ x.user \in RowIds /\ x.given \in SUBSET {"name"}
                                             /\ x.value \in Int
           \/ /\ editing = "board" /\ x.column \in {"like_num", "comment_num"}
              /\ x.value \in Int /\ got.id # 0 /\ op # "UpdateUserProfile"
    PROVE  EditsInv'
<1>1. /\ worker'[w] = [pc |-> "SaveRow", user |-> None, op |-> op, on |-> x, got |-> got]
      /\ OnlyMoves(w) /\ DOMAIN worker' = Workers /\ Shaped'
      /\ served' \in Nat
  BY EditArrives
<1>2. /\ worker'[w].pc = "SaveRow" /\ worker'[w].op = op /\ worker'[w].on = x
      /\ worker'[w].got = got
  BY <1>1
<1>3. EditLocals(w)'
  <2>1. editing' = editing
    OBVIOUS
  <2> QED
    BY <1>2, <2>1 DEF EditLocals, OfARow, NamesUser
<1>4. ImageIsFresh(w)'
  <2> SUFFICES ASSUME NEW i \in RowIds, got.id = i, NEW c
               PROVE  got.image[c] = row[i][c]
    BY <1>2 DEF ImageIsFresh, AboutToSave, SavedColumns
  <2>1. i # 0
    BY EditsAssumption
  <2> QED
    BY <2>1
<1>5. ImageIsOwn(w)'
  <2>1. ASSUME EveryoneIsThere
        PROVE  got.id # 0 /\ got.image.user_id = got.id
    <3>1. \A i \in RowIds : row[i].user_id = i
      BY <2>1 DEF EditsInv, RowsAreOwn
    <3> QED
      BY <2>1, <3>1
  <2> QED
    BY <1>2, <2>1 DEF ImageIsOwn, EveryoneIsThere
<1>6. RowsGoOn /\ \A v \in Workers : Leaves(v)
  BY NothingIsWritten
<1>7. \A v \in Workers : MovesRight(v) \/ (worker'[v] = worker[v] /\ Leaves(v))
  BY <1>1, <1>3, <1>4, <1>5, <1>6 DEF MovesRight, OnlyMoves
<1> QED
  BY <1>1, <1>6, <1>7, EditsGoOn

LEMMA UpdateUserBackgroundImageKeeps ==
    ASSUME EditsInv, NEW w \in Workers, NEW u \in RowIds, UpdateUserBackgroundImage(w, u)
    PROVE  EditsInv'
<1>1. PICK x, got : /\ x = [column |-> "background", value |-> served + 1] /\ got = ProfileOf(u)
                    /\ Begins(w, None, "UpdateUserBackgroundImage", x, "SaveRow", got)
                    /\ editing = "user"
                    /\ UNCHANGED <<editing, row, missing, liked, wanted, disturbed>>
  BY DEF UpdateUserBackgroundImage, edits
<1>2. x.column = "background" /\ x.value \in Nat \ {0}
  BY <1>1 DEF EditsInv
<1>3. /\ got.id \in RowIds \cup {0} /\ got.image \in [Columns("user") -> Int]
      /\ got.id # 0 => got.image = row[got.id]
      /\ EveryoneIsThere => got.id # 0
  BY <1>1, ProfileIs
<1>4. liked' \in SUBSET RowIds /\ (editing # "board" => liked' = {})
  BY <1>1 DEF EditsInv, EditsTypeOK
<1> QED
  BY <1>1, <1>2, <1>3, <1>4, HolderArrives

LEMMA UpdateUserProfileKeeps ==
    ASSUME EditsInv, NEW w \in Workers, NEW u \in RowIds,
           NEW given \in {{"background"}, {"name"}, {"background", "name"}},
           UpdateUserProfile(w, u, given)
    PROVE  EditsInv'
<1>1. PICK x, got, pc :
         /\ x = [column |-> "background", value |-> served + 1, user |-> u,
                 given |-> given \ {"background"}]
         /\ got = ProfileOf(u)
         /\ pc = IF "background" \in given THEN "SaveRow" ELSE "UpdateUserInfo"
         /\ Begins(w, None, "UpdateUserProfile", x, pc, got)
         /\ editing = "user"
         /\ UNCHANGED <<editing, row, missing, liked, wanted, disturbed>>
  BY DEF UpdateUserProfile, edits
<1>2. /\ x.column = "background" /\ x.value \in Nat \ {0} /\ x.value \in Int
      /\ x.user \in RowIds /\ x.given \in SUBSET {"name"}
  BY <1>1 DEF EditsInv
<1>3. /\ got.id \in RowIds \cup {0} /\ got.image \in [Columns("user") -> Int]
      /\ got.id # 0 => got.image = row[got.id]
      /\ EveryoneIsThere => got.id # 0
  BY <1>1, ProfileIs
<1>4. liked' \in SUBSET RowIds /\ (editing # "board" => liked' = {})
  BY <1>1 DEF EditsInv, EditsTypeOK
<1>5. CASE pc = "SaveRow"
  BY <1>1, <1>2, <1>3, <1>4, <1>5, HolderArrives
<1>6. CASE pc = "UpdateUserInfo"
  <2>0. Begins(w, None, "UpdateUserProfile", x, "UpdateUserInfo", got)
    BY <1>1, <1>6
  <2>1. /\ worker'[w] = [pc |-> "UpdateUserInfo", user |-> None, op |-> "UpdateUserProfile",
                         on |-> x, got |-> got]
        /\ OnlyMoves(w) /\ DOMAIN worker' = Workers /\ Shaped'
        /\ served' \in Nat
    BY <2>0, EditArrives
  <2>2. worker'[w].pc = "UpdateUserInfo" /\ worker'[w].on = x
    BY <2>1
  <2>3. MovesRight(w)
    BY <1>1, <1>2, <2>2
       DEF MovesRight, EditLocals, NamesUser, ImageIsFresh, ImageIsOwn, AboutToSave
  <2>4. RowsGoOn /\ \A v \in Workers : Leaves(v)
    BY <1>1, <1>4, NothingIsWritten
  <2>5. \A v \in Workers : MovesRight(v) \/ (worker'[v] = worker[v] /\ Leaves(v))
    BY <2>1, <2>3, <2>4 DEF OnlyMoves
  <2> QED
    BY <2>1, <2>4, <2>5, EditsGoOn
<1> QED
  BY <1>1, <1>5, <1>6

LEMMA BoardRequestsKeep ==
    ASSUME EditsInv, NEW w \in Workers, NEW i \in RowIds,
           LikeStoryboard(w, i) \/ UnLikeStoryboard(w, i) \/ CreateStoryBoardComment(w, i)
    PROVE  EditsInv'
<1>1. editing = "board"
  BY DEF LikeStoryboard, UnLikeStoryboard, CreateStoryBoardComment, EditsInv
<1>2. PICK x, got, op :
         /\ x.column \in {"like_num", "comment_num"} /\ x.value \in Int
         /\ got = Read(i) /\ op # "UpdateUserProfile"
         /\ Begins(w, None, op, x, "SaveRow", got)
         /\ liked' \in {liked \cup {i}, {}, liked}
         /\ UNCHANGED <<editing, row, missing, wanted, disturbed>>
  <2>1. CASE LikeStoryboard(w, i)
    BY <2>1 DEF LikeStoryboard
  <2>2. CASE UnLikeStoryboard(w, i)
    BY <1>1, <2>2 DEF UnLikeStoryboard
  <2>3. CASE CreateStoryBoardComment(w, i)
    BY <2>3 DEF CreateStoryBoardComment, edits
  <2> QED
    BY <2>1, <2>2, <2>3
<1>3. got.id = i /\ got.image = row[i] /\ i # 0
  BY <1>2, ReadIs, EditsAssumption
<1>4. got.image \in [Columns(editing) -> Int] /\ liked' \in SUBSET RowIds
  BY <1>2, <1>3 DEF EditsInv, EditsTypeOK
<1> QED
  BY <1>1, <1>2, <1>3, <1>4, HolderArrives

-----------------------------------------------------------------------------
(* Edits: requests that write.                                             *)

LEMMA EditCall ==
    ASSUME EditsInv, NEW w \in Workers, NEW pc, NEW got, GoesWith(w, pc, got) \/ Logs(w, pc)
    PROVE  /\ OnlyMoves(w) /\ DOMAIN worker' = Workers /\ Shaped' /\ served' \in Nat
           /\ pc = "idle" => worker'[w] = Idle
           /\ pc # "idle" => /\ worker'[w].pc = pc /\ worker'[w].op = worker[w].op
                             /\ worker'[w].on = worker[w].on
<1>1. PICK known : /\ worker' = [worker EXCEPT ![w] = After(w, pc, known)]
                   /\ UNCHANGED served
  BY DEF GoesWith, Logs
<1>2. worker'[w] = After(w, pc, known) /\ OnlyMoves(w) /\ DOMAIN worker' = Workers
  BY <1>1 DEF EditsInv, OnlyMoves
<1>3. /\ Shaped'
      /\ pc = "idle" => worker'[w] = Idle
      /\ pc # "idle" =>
           worker'[w] = [pc |-> pc, user |-> worker[w].user, op |-> worker[w].op,
                         on |-> worker[w].on, got |-> known]
  BY <1>2, CallStaysShaped DEF EditsInv
<1> QED
  BY <1>1, <1>2, <1>3 DEF EditsInv

\* The rows take the columns of the image that are not zero.
TakesOver(rows, image) ==
    /\ UNCHANGED <<editing, missing, liked>>
    /\ row' \in [RowIds -> [Columns(editing) -> Int]]
    /\ \A i \in RowIds, c \in Columns(editing) :
          row'[i][c] = IF i \in rows /\ c \in SavedColumns /\ image[c] # 0
                       THEN image[c] ELSE row[i][c]

\* What the request makes of the image that it holds.
Image(w) ==
    [worker[w].got.image EXCEPT ![worker[w].on.column] =
        IF editing = "board" THEN worker[w].got.image[worker[w].on.column] + worker[w].on.value
        ELSE worker[w].on.value]

LEMMA ImageIs ==
    ASSUME EditsInv, NEW w \in Workers, worker[w].pc = "SaveRow"
    PROVE  /\ worker[w] # Idle /\ OfARow(w)
           /\ worker[w].on.column \in Columns(editing) /\ worker[w].on.column \in SavedColumns
           /\ SavedColumns \subseteq Columns(editing)
           /\ worker[w].on.value \in Int
           /\ Image(w) \in [Columns(editing) -> Int]
           /\ Image(w)[worker[w].on.column] =
                 IF editing = "board"
                 THEN worker[w].got.image[worker[w].on.column] + worker[w].on.value
                 ELSE worker[w].on.value
           /\ \A c \in Columns(editing) \ {worker[w].on.column} :
                 Image(w)[c] = worker[w].got.image[c]
<1>1. worker[w] # Idle
  BY DEF Idle
<1>2. OfARow(w)
  BY <1>1 DEF EditsInv, EditLocals
<1>3. /\ worker[w].on.column \in Columns(editing) /\ worker[w].on.column \in SavedColumns
      /\ SavedColumns \subseteq Columns(editing)
  BY <1>2, SavedAreColumns DEF OfARow, ProfileColumns, BoardColumns
<1>4. worker[w].on.value \in Int
  BY <1>2 DEF OfARow
<1>5. PICK im \in [Columns(editing) -> Int] : im = worker[w].got.image
  BY <1>2 DEF OfARow
<1>6. PICK v \in Int :
         v = IF editing = "board" THEN im[worker[w].on.column] + worker[w].on.value
             ELSE worker[w].on.value
  BY <1>3, <1>4, <1>5
<1>7. Image(w) = [im EXCEPT ![worker[w].on.column] = v]
  BY <1>5, <1>6 DEF Image
<1> QED
  BY <1>1, <1>2, <1>3, <1>4, <1>5, <1>6, <1>7

LEMMA SaveRowDoes ==
    ASSUME EditsInv, NEW w \in Workers, SaveRow(w)
    PROVE  /\ worker[w].pc = "SaveRow"
           /\ GoesWith(w, IF worker[w].op = "UpdateUserProfile" THEN "UpdateUserInfo" ELSE "idle",
                       worker[w].got)
           /\ TakesOver(IF worker[w].got.id = 0 THEN RowIds \ missing ELSE {worker[w].got.id},
                     Image(w))
<1>1. /\ worker[w].pc = "SaveRow"
      /\ GoesWith(w, IF worker[w].op = "UpdateUserProfile" THEN "UpdateUserInfo" ELSE "idle",
                  worker[w].got)
      /\ UNCHANGED <<editing, missing, liked>>
  BY DEF SaveRow, Goes
<1>2. PICK rows : rows = IF worker[w].got.id = 0 THEN RowIds \ missing ELSE {worker[w].got.id}
  OBVIOUS
<1>3. PICK image \in [Columns(editing) -> Int] : image = Image(w)
  BY <1>1, ImageIs
<1>4. PICK written : written = {c \in SavedColumns : image[c] # 0}
  OBVIOUS
<1>5. row' = [i \in RowIds |->
                 IF i \in rows
                 THEN [c \in Columns(editing) |-> IF c \in written THEN image[c] ELSE row[i][c]]
                 ELSE row[i]]
  BY <1>2, <1>3, <1>4 DEF SaveRow, Image, Sets
<1>6. row \in [RowIds -> [Columns(editing) -> Int]]
  BY DEF EditsInv, EditsTypeOK
<1>7. ASSUME NEW i \in RowIds
      PROVE  /\ row'[i] \in [Columns(editing) -> Int]
             /\ \A c \in Columns(editing) :
                  row'[i][c] = IF i \in rows /\ c \in written THEN image[c] ELSE row[i][c]
  <2>1. row[i] \in [Columns(editing) -> Int]
    BY <1>6
  <2>2. row'[i] = IF i \in rows
                  THEN [c \in Columns(editing) |-> IF c \in written THEN image[c] ELSE row[i][c]]
                  ELSE row[i]
    BY <1>5
  <2> QED
    BY <1>3, <2>1, <2>2
<1>8. row' \in [RowIds -> [Columns(editing) -> Int]]
  <2>1. row' = [i \in RowIds |-> row'[i]]
    BY <1>5
  <2> QED
    BY <1>7, <2>1
<1>9. TakesOver(rows, image)
  BY <1>1, <1>4, <1>7, <1>8 DEF TakesOver
<1> QED
  BY <1>1, <1>2, <1>3, <1>9

\* The rows of every user are written when the profile was not there.
LEMMA SaveOfAllKeeps ==
    ASSUME EditsInv, NEW w \in Workers, SaveRow(w), worker[w].got.id = 0
    PROVE  RowsGoOn /\ \A x \in Workers : Leaves(x)
<1>1. PICK rows, image : /\ rows = RowIds \ missing /\ image = Image(w)
                         /\ TakesOver(rows, image) /\ worker[w].pc = "SaveRow"
  BY SaveRowDoes
<1>2. /\ UNCHANGED <<editing, missing, liked>>
      /\ row' \in [RowIds -> [Columns(editing) -> Int]]
      /\ \A i \in RowIds, c \in Columns(editing) :
            row'[i][c] = IF i \in rows /\ c \in SavedColumns /\ image[c] # 0
                         THEN image[c] ELSE row[i][c]
  BY <1>1 DEF TakesOver
<1>3. SavedColumns \subseteq Columns(editing) /\ editing = "user"
  BY <1>1, ImageIs DEF OfARow
<1>4. /\ disturbed' = disturbed \cup (rows \X {c \in SavedColumns : image[c] # 0})
      /\ UNCHANGED wanted
  BY <1>1 DEF SaveRow, Image, Sets
<1>5. EditsTypeOK'
  <2>1. disturbed' \in SUBSET (RowIds \X Columns(editing))
    BY <1>1, <1>3, <1>4 DEF EditsInv, EditsTypeOK
  <2> QED
    BY <1>2, <1>4, <2>1 DEF EditsInv, EditsTypeOK
<1>6. RowsStand'
  <2> SUFFICES ASSUME NEW i \in RowIds, NEW c \in Columns(editing), <<i, c>> \notin disturbed'
               PROVE  row'[i][c] = wanted[i][c]
    BY <1>2, <1>4 DEF RowsStand
  <2>1. row[i][c] = wanted[i][c]
    BY <1>4 DEF EditsInv, RowsStand
  <2> QED
    BY <1>2, <1>4, <2>1
<1>7. RowsAreOwn'
  <2>1. ~ EveryoneIsThere
    BY <1>1 DEF EditsInv, ImageIsOwn
  <2> QED
    BY <1>2, <2>1 DEF RowsAreOwn, EveryoneIsThere
<1>8. ASSUME NEW x \in Workers
      PROVE  Leaves(x)
  <2> SUFFICES ASSUME NEW i \in RowIds, NEW c \in SavedColumns, <<i, c>> \notin disturbed'
               PROVE  <<i, c>> \notin disturbed /\ row'[i][c] = row[i][c]
    BY DEF Leaves
  <2>1. c \in Columns(editing)
    BY <1>3
  <2> QED
    BY <1>2, <1>4, <2>1
<1> QED
  BY <1>2, <1>3, <1>5, <1>6, <1>7, <1>8 DEF EditsInv, RowsGoOn

\* A row is saved: column col holds what was asked for, or is known to be
\* disturbed.
SavesOne(w, id, col, image, new) ==
    /\ wanted' \in [RowIds -> [Columns(editing) -> Int]]
    /\ disturbed' \in SUBSET (RowIds \X Columns(editing))
    /\ \A j \in RowIds, c \in Columns(editing) :
          wanted'[j][c] = IF j = id /\ c = col THEN new ELSE wanted[j][c]
    /\ \A j \in RowIds, c \in Columns(editing) :
          j # id \/ c # col => (<<j, c>> \in disturbed' <=> <<j, c>> \in disturbed)
    /\ <<id, col>> \notin disturbed' => ~ Held(w, id) /\ image[col] # 0 /\ image[col] = new

LEMMA BoardIsSaved ==
    ASSUME EditsInv, NEW w \in Workers, SaveRow(w), worker[w].got.id # 0, editing = "board"
    PROVE  \E new \in Int : SavesOne(w, worker[w].got.id, worker[w].on.column, Image(w), new)
<1>1. /\ worker[w].pc = "SaveRow" /\ OfARow(w)
      /\ worker[w].on.column \in Columns(editing) /\ worker[w].on.column \in SavedColumns
      /\ worker[w].on.value \in Int
      /\ Image(w)[worker[w].on.column] =
            worker[w].got.image[worker[w].on.column] + worker[w].on.value
  BY SaveRowDoes, ImageIs
<1>2. PICK id \in RowIds, col \in Columns(editing), v \in Int, image \in {Image(w)} :
         /\ id = worker[w].got.id /\ col = worker[w].on.column /\ v = worker[w].on.value
  BY <1>1 DEF OfARow
<1>3. /\ wanted' = [wanted EXCEPT ![id][col] = @ + v]
      /\ disturbed' = IF Held(w, id) \/ col \notin {c \in SavedColumns : image[c] # 0}
                      THEN disturbed \cup {<<id, col>>} ELSE disturbed
  BY <1>2 DEF SaveRow, Image, Sets
<1>4. /\ wanted \in [RowIds -> [Columns(editing) -> Int]]
      /\ disturbed \in SUBSET (RowIds \X Columns(editing))
  BY DEF EditsInv, EditsTypeOK
<1>5. PICK new \in Int : new = wanted[id][col] + v
  BY <1>4
<1>6. wanted' = [wanted EXCEPT ![id] = [wanted[id] EXCEPT ![col] = new]]
  BY <1>3, <1>4, <1>5
<1>7. /\ wanted' \in [RowIds -> [Columns(editing) -> Int]]
      /\ \A j \in RowIds, c \in Columns(editing) :
            wanted'[j][c] = IF j = id /\ c = col THEN new ELSE wanted[j][c]
  <2>1. wanted[id] \in [Columns(editing) -> Int]
    BY <1>4
  <2>2. PICK f \in [Columns(editing) -> Int] : f = [wanted[id] EXCEPT ![col] = new]
    BY <2>1
  <2>3. \A c \in Columns(editing) : f[c] = IF c = col THEN new ELSE wanted[id][c]
    BY <2>1, <2>2
  <2>4. wanted' = [wanted EXCEPT ![id] = f]
    BY <1>6, <2>2
  <2> QED
    BY <1>4, <2>3, <2>4
<1>8. ASSUME <<id, col>> \notin disturbed'
      PROVE  ~ Held(w, id) /\ image[col] # 0 /\ image[col] = new
  <2>1. ~ Held(w, id) /\ image[col] # 0 /\ <<id, col>> \notin disturbed
    BY <1>3, <1>8, <1>1, <1>2
  <2>2. worker[w].got.image[col] = row[id][col]
    BY <1>1, <1>2, <2>1 DEF EditsInv, ImageIsFresh, AboutToSave
  <2>3. row[id][col] = wanted[id][col]
    BY <2>1 DEF EditsInv, RowsStand
  <2> QED
    BY <1>1, <1>2, <1>5, <2>1, <2>2, <2>3
<1>9. /\ disturbed' \in SUBSET (RowIds \X Columns(editing))
      /\ \A j \in RowIds, c \in Columns(editing) :
            j # id \/ c # col => (<<j, c>> \in disturbed' <=> <<j, c>> \in disturbed)
  BY <1>3, <1>4
<1>10. SavesOne(w, id, col, image, new)
  BY <1>7, <1>8, <1>9 DEF SavesOne
<1> QED
  BY <1>2, <1>10

LEMMA ProfileIsSaved ==
    ASSUME EditsInv, NEW w \in Workers, SaveRow(w), worker[w].got.id # 0, editing # "board"
    PROVE  \E new \in Int : SavesOne(w, worker[w].got.id, worker[w].on.column, Image(w), new)
<1>1. /\ worker[w].pc = "SaveRow" /\ OfARow(w)
      /\ worker[w].on.column \in Columns(editing) /\ worker[w].on.column \in SavedColumns
      /\ Image(w)[worker[w].on.column] = worker[w].on.value
  BY SaveRowDoes, ImageIs
<1>2. PICK id \in RowIds, col \in Columns(editing), v \in Nat \ {0}, image \in {Image(w)} :
         /\ id = worker[w].got.id /\ col = worker[w].on.column /\ v = worker[w].on.value
  BY <1>1 DEF OfARow
<1>3. /\ wanted' = [wanted EXCEPT ![id][col] = v]
      /\ Disturb(w, id, {col}, {})
  BY <1>2 DEF SaveRow, Image, Sets
<1>4. /\ wanted \in [RowIds -> [Columns(editing) -> Int]]
      /\ disturbed \in SUBSET (RowIds \X Columns(editing))
  BY DEF EditsInv, EditsTypeOK
<1>5. wanted' = [wanted EXCEPT ![id] = [wanted[id] EXCEPT ![col] = v]]
  BY <1>3, <1>4
<1>6. /\ wanted' \in [RowIds -> [Columns(editing) -> Int]]
      /\ \A j \in RowIds, c \in Columns(editing) :
            wanted'[j][c] = IF j = id /\ c = col THEN v ELSE wanted[j][c]
  <2>1. wanted[id] \in [Columns(editing) -> Int] /\ v \in Int
    BY <1>4
  <2>2. PICK f \in [Columns(editing) -> Int] : f = [wanted[id] EXCEPT ![col] = v]
    BY <2>1
  <2>3. \A c \in Columns(editing) : f[c] = IF c = col THEN v ELSE wanted[id][c]
    BY <2>1, <2>2
  <2>4. wanted' = [wanted EXCEPT ![id] = f]
    BY <1>5, <2>2
  <2> QED
    BY <1>4, <2>3, <2>4
<1>7. disturbed' = (disturbed \ ({id} \X {col})) \cup ({} \X {col})
                     \cup (IF Held(w, id) THEN {id} \X ({col} \cap SavedColumns) ELSE {})
  BY <1>3 DEF Disturb
<1>8. /\ disturbed' \in SUBSET (RowIds \X Columns(editing))
      /\ \A j \in RowIds, c \in Columns(editing) :
            j # id \/ c # col => (<<j, c>> \in disturbed' <=> <<j, c>> \in disturbed)
      /\ <<id, col>> \notin disturbed' => ~ Held(w, id)
  BY <1>1, <1>2, <1>4, <1>7
<1>9. image[col] # 0 /\ image[col] = v
  BY <1>1, <1>2
<1>10. SavesOne(w, id, col, image, v)
  BY <1>6, <1>8, <1>9 DEF SavesOne
<1> QED
  BY <1>2, <1>10

LEMMA SaveOfOneKeeps ==
    ASSUME EditsInv, NEW w \in Workers, SaveRow(w), worker[w].got.id # 0
    PROVE  RowsGoOn /\ \A x \in Workers \ {w} : Leaves(x)
<1>1. /\ worker[w].pc = "SaveRow" /\ OfARow(w) /\ SavedColumns \subseteq Columns(editing)
      /\ worker[w].on.column \in Columns(editing) /\ worker[w].on.column \in SavedColumns
      /\ \A c \in Columns(editing) \ {worker[w].on.column} :
            Image(w)[c] = worker[w].got.image[c]
      /\ editing \in {"user", "board"}
  BY SaveRowDoes, ImageIs DEF OfARow
<1>2. PICK id \in RowIds, col \in Columns(editing), image \in {Image(w)},
          im \in {worker[w].got.image} :
         id = worker[w].got.id /\ col = worker[w].on.column
  BY <1>1 DEF OfARow
<1>3. PICK new \in Int : SavesOne(w, id, col, image, new)
  BY <1>2, BoardIsSaved, ProfileIsSaved
<1>4. TakesOver({id}, image)
  BY <1>2, SaveRowDoes
<1>5. /\ UNCHANGED <<editing, missing, liked>>
      /\ row' \in [RowIds -> [Columns(editing) -> Int]]
      /\ \A i \in RowIds, c \in Columns(editing) :
            row'[i][c] = IF i = id /\ c \in SavedColumns /\ image[c] # 0
                         THEN image[c] ELSE row[i][c]
  BY <1>4 DEF TakesOver
<1>6. \A c \in SavedColumns : <<id, c>> \notin disturbed => im[c] = row[id][c]
  BY <1>1, <1>2 DEF EditsInv, ImageIsFresh, AboutToSave
<1>7. ASSUME NEW i \in RowIds, NEW c \in Columns(editing), i # id \/ c # col,
             <<i, c>> \notin disturbed
      PROVE  row'[i][c] = row[i][c]
  <2>1. CASE i # id
    BY <1>5, <2>1
  <2>2. CASE i = id /\ c \in SavedColumns
    <3>1. image[c] = im[c] /\ im[c] = row[id][c]
      BY <1>1, <1>2, <1>6, <1>7, <2>2
    <3> QED
      BY <1>5, <2>2, <3>1
  <2>3. CASE c \notin SavedColumns
    BY <1>5, <2>3
  <2> QED
    BY <2>1, <2>2, <2>3
<1>8. EditsTypeOK'
  BY <1>3, <1>5 DEF EditsInv, EditsTypeOK, SavesOne
<1>9. RowsStand'
  <2> SUFFICES ASSUME NEW i \in RowIds, NEW c \in Columns(editing), <<i, c>> \notin disturbed'
               PROVE  row'[i][c] = wanted'[i][c]
    BY <1>5 DEF RowsStand
  <2>1. CASE i = id /\ c = col
    <3>1. image[col] # 0 /\ image[col] = new /\ wanted'[id][col] = new
      BY <1>3, <2>1 DEF SavesOne
    <3> QED
      BY <1>1, <1>2, <1>5, <2>1, <3>1
  <2>2. CASE i # id \/ c # col
    <3>1. <<i, c>> \notin disturbed /\ wanted'[i][c] = wanted[i][c]
      BY <1>3, <2>2 DEF SavesOne
    <3>2. row[i][c] = wanted[i][c]
      BY <3>1 DEF EditsInv, RowsStand
    <3> QED
      BY <1>7, <2>2, <3>1, <3>2
  <2> QED
    BY <2>1, <2>2
<1>10. RowsAreOwn'
  <2> SUFFICES ASSUME EveryoneIsThere, NEW i \in RowIds
               PROVE  row'[i].user_id = i
    BY <1>5 DEF RowsAreOwn, EveryoneIsThere
  <2>1. row[i].user_id = i /\ im.user_id = id
    BY <1>1, <1>2 DEF EditsInv, RowsAreOwn, ImageIsOwn
  <2>2. "user_id" \in Columns(editing) /\ col = "background"
    BY <1>1, <1>2, SavedAreColumns DEF EveryoneIsThere, ProfileColumns, OfARow
  <2>3. image["user_id"] = id
    BY <1>1, <1>2, <2>1, <2>2
  <2>4. row'[i]["user_id"] = IF i = id /\ "user_id" \in SavedColumns /\ image["user_id"] # 0
                             THEN image["user_id"] ELSE row[i]["user_id"]
    BY <1>5, <2>2
  <2> QED
    BY <2>1, <2>3, <2>4
<1>11. ASSUME NEW x \in Workers \ {w}
       PROVE  Leaves(x)
  <2> SUFFICES ASSUME NEW i \in RowIds, AboutToSave(x, i), NEW c \in SavedColumns,
                      <<i, c>> \notin disturbed'
               PROVE  <<i, c>> \notin disturbed /\ row'[i][c] = row[i][c]
    BY DEF Leaves
  <2>1. c \in Columns(editing)
    BY <1>1
  <2>2. i # id \/ c # col
    <3>1. i = id => Held(w, id)
      BY HeldIsHeld
    <3> QED
      BY <1>3, <3>1 DEF SavesOne
  <2>3. <<i, c>> \notin disturbed
    BY <1>3, <2>1, <2>2 DEF SavesOne
  <2> QED
    BY <1>7, <2>1, <2>2, <2>3
<1> QED
  BY <1>1, <1>5, <1>8, <1>9, <1>10, <1>11 DEF EditsInv, RowsGoOn

LEMMA SaveRowKeeps ==
    ASSUME EditsInv, NEW w \in Workers, SaveRow(w)
    PROVE  EditsInv'
<1> DEFINE pc == IF worker[w].op = "UpdateUserProfile" THEN "UpdateUserInfo" ELSE "idle"
<1>1. worker[w].pc = "SaveRow" /\ GoesWith(w, pc, worker[w].got)
  BY SaveRowDoes
<1>2. RowsGoOn /\ \A x \in Workers \ {w} : Leaves(x)
  BY SaveOfAllKeeps, SaveOfOneKeeps
<1>3. /\ OnlyMoves(w) /\ DOMAIN worker' = Workers /\ Shaped' /\ served' \in Nat
      /\ pc = "idle" => worker'[w] = Idle
      /\ pc # "idle" => /\ worker'[w].pc = pc /\ worker'[w].op = worker[w].op
                        /\ worker'[w].on = worker[w].on
  BY <1>1, EditCall
<1>4. MovesRight(w)
  <2>1. CASE worker[w].op # "UpdateUserProfile"
    BY <1>3, <2>1, ReturnIsRight
  <2>2. CASE worker[w].op = "UpdateUserProfile"
    <3>1. editing = "user" /\ NamesUser(w)
      BY <1>1, <2>2, ImageIs DEF OfARow
    <3>2. worker'[w].pc = "UpdateUserInfo" /\ worker'[w].on = worker[w].on /\ editing' = editing
      BY <1>2, <1>3, <2>2 DEF RowsGoOn
    <3> QED
      BY <3>1, <3>2 DEF MovesRight, EditLocals, NamesUser, ImageIsFresh, ImageIsOwn, AboutToSave
  <2> QED
    BY <2>1, <2>2
<1>5. \A v \in Workers : MovesRight(v) \/ (worker'[v] = worker[v] /\ Leaves(v))
  BY <1>2, <1>3, <1>4 DEF OnlyMoves
<1> QED
  BY <1>2, <1>3, <1>5, EditsGoOn

LEMMA UpdateUserInfoOfAllKeeps ==
    ASSUME EditsInv, NEW w \in Workers, UpdateUserInfoOfAll(w)
    PROVE  EditsInv'
<1>1. /\ worker[w].pc = "UpdateUserInfo" /\ GoesWith(w, "idle", worker[w].got)
      /\ Update(w, UpdateUserInfo, Sets(w).user, Sets(w).given, Sets(w).value)
  BY DEF UpdateUserInfoOfAll, Ends, Goes
<1>2. editing = "user" /\ NamesUser(w)
  <2>1. worker[w] # Idle
    BY <1>1 DEF Idle
  <2> QED
    BY <1>1, <2>1 DEF EditsInv, EditLocals
<1>3. PICK i \in RowIds, given \in SUBSET {"name"}, v \in Int :
         i = Sets(w).user /\ given = Sets(w).given /\ v = Sets(w).value
  BY <1>2 DEF NamesUser, Sets
<1>4. PICK e \in {UpdateUserInfo} :
         FitsTable(e) /\ e.table = "user" /\ given \in SUBSET e.columns
  BY UserEditsFit DEF UpdateUserInfo, AltersEvery, Edit
<1>5. Update(w, e, i, given, v)
  BY <1>1, <1>3
<1>6. RowsGoOn /\ \A x \in Workers : Leaves(x)
  BY <1>1, <1>2, <1>4, <1>5, UpdateKeeps
<1>7. /\ OnlyMoves(w) /\ DOMAIN worker' = Workers /\ Shaped' /\ served' \in Nat
      /\ worker'[w] = Idle
  BY <1>1, EditCall
<1>8. \A x \in Workers : MovesRight(x) \/ (worker'[x] = worker[x] /\ Leaves(x))
  BY <1>6, <1>7, ReturnIsRight DEF OnlyMoves
<1> QED
  BY <1>6, <1>7, <1>8, EditsGoOn

LEMMA EditIsCutOff ==
    ASSUME EditsInv, NEW w \in Workers, CutOff(w), UNCHANGED edits
    PROVE  EditsInv'
<1>1. UNCHANGED <<editing, row, missing, liked, wanted, disturbed>>
  BY DEF edits
<1>2. liked' \in SUBSET RowIds /\ (editing # "board" => liked' = {})
  BY <1>1 DEF EditsInv, EditsTypeOK
<1>3. RowsGoOn /\ \A x \in Workers : Leaves(x)
  BY <1>1, <1>2, NothingIsWritten
<1>4. /\ OnlyMoves(w) /\ DOMAIN worker' = Workers /\ Shaped' /\ served' \in Nat
      /\ worker'[w] = Idle
  BY EditCall DEF CutOff
<1>5. \A x \in Workers : MovesRight(x) \/ (worker'[x] = worker[x] /\ Leaves(x))
  BY <1>3, <1>4, ReturnIsRight DEF OnlyMoves
<1> QED
  BY <1>3, <1>4, <1>5, EditsGoOn

LEMMA EditsNextKeeps == EditsInv /\ [EditsNext]_editsSpecVars => EditsInv'
<1> SUFFICES ASSUME EditsInv, [EditsNext]_editsSpecVars
             PROVE  EditsInv'
  OBVIOUS
<1>1. CASE UNCHANGED editsSpecVars
  <2>1. /\ UNCHANGED <<worker, served>>
        /\ UNCHANGED <<editing, row, missing, liked, wanted, disturbed>>
    BY <1>1 DEF editsSpecVars, requestVars, edits
  <2>2. liked' \in SUBSET RowIds /\ (editing # "board" => liked' = {})
    BY <2>1 DEF EditsInv, EditsTypeOK
  <2>3. RowsGoOn /\ \A x \in Workers : Leaves(x)
    BY <2>1, <2>2, NothingIsWritten
  <2>4. DOMAIN worker' = Workers /\ Shaped' /\ served' \in Nat
    BY <2>1 DEF EditsInv, Shaped
  <2> QED
    BY <2>1, <2>3, <2>4, EditsGoOn
<1>2. CASE \E w \in Workers : EditsStep(w)
  BY <1>2, SaveRowKeeps, UpdateUserInfoOfAllKeeps, EditIsCutOff DEF EditsStep
<1>3. CASE \E e \in Edits, i \in RowIds : \E given \in Some(e.columns) : Alter(e, i, given)
  BY <1>3, AlterKeeps
<1>4. CASE \E i \in RowIds : IncrementCreatedBoardNum(i)
  BY <1>4, IncrementCreatedBoardNumKeeps
<1>5. CASE \E w \in Workers, i \in RowIds :
              \/ UpdateUserBackgroundImage(w, i)
              \/ \E given \in {{"background"}, {"name"}, {"background", "name"}} :
                    UpdateUserProfile(w, i, given)
              \/ LikeStoryboard(w, i)
              \/ UnLikeStoryboard(w, i)
              \/ CreateStoryBoardComment(w, i)
  BY <1>5, UpdateUserBackgroundImageKeeps, UpdateUserProfileKeeps, BoardRequestsKeep
<1> QED
  BY <1>1, <1>2, <1>3, <1>4, <1>5 DEF EditsNext

-----------------------------------------------------------------------------
(* Edits: the theorems.                                                    *)

\* What requests hold of a row, and what rows hold of the edits, stays as it is
\* known: the inductive invariant of Edits.
THEOREM EditsInvariance == EditsSpec => []EditsInv
BY EditsInitHolds, EditsNextKeeps, PTL DEF EditsSpec, editsSpecVars

\* The rows of the table that is edited keep its columns.
THEOREM EditsAreTyped == EditsSpec => []EditsTypeOK
<1>1. EditsInv => EditsTypeOK
  BY DEF EditsInv
<1> QED
  BY <1>1, EditsInvariance, PTL

\* A column holds what the last edit of its row asked for, unless a request that
\* held the row saved it afterwards or an edit of another row hit every row; a
\* role or a group keeps every edit; and no profile changes its user while every
\* user has one.
THEOREM EditsStand == EditsSpec => []EditsStandUnlessDisturbed
<1>1. EditsInv => EditsStandUnlessDisturbed
  BY DEF EditsInv, RowsStand, RowsAreOwn, EveryoneIsThere, EditsStandUnlessDisturbed
<1> QED
  BY <1>1, EditsInvariance, PTL

-----------------------------------------------------------------------------
(* McpService: a request that waits for the lock it holds stops every later *)
(* change.                                                                 *)

mcpSpecVars == <<requestVars, mcpVars>>

Ops == RequestOps \cup ToolOps

ToolKinds == {"get", "analyze", "create", "rewrite", "like", "unlike", "follow", "unfollow"}

TableItems == [likes : Nat, followers : SUBSET Users]

Locals == [pc : {"idle", "RLock", "Lock", "WaitForReaders", "Handle", "LockAgain"},
           user : Users \cup {None}, op : {"tool", "request", "none"},
           on : Ops \cup {None}, got : {None}]

\* Where a request is inside the lock.
Inside == {"Handle", "LockAgain"}

\* The request took the lock for reading: it was no tool that writes, and not
\* create_resource, the only handler that HandleRequest calls without a second
\* lock.
ReadsOnly(l) ==
    \/ l.op = "tool" /\ Reads(l.on)
    \/ l.op = "request" /\ LocksAgain(l.on)

\* What the lock means for the request w: who is inside holds it, a writer
\* inside has seen every reader leave, and a reader inside only reads.
HoldsLock(w) ==
    /\ worker[w].pc # "idle" => worker[w].on \in Ops /\ worker[w].user \in Users
    /\ worker[w].pc = "RLock" => ReadsOnly(worker[w])
    /\ worker[w].pc = "WaitForReaders" => writer = w
    /\ worker[w].pc \notin Inside => readers[w] = 0
    /\ worker[w].pc \in Inside =>
          \/ readers[w] = 1 /\ writer # w /\ ReadsOnly(worker[w])
          \/ writer = w /\ \A v \in Workers : readers[v] = 0

LockInv ==
    /\ McpTypeOK
    /\ worker \in [Workers -> Locals]
    /\ \A w \in Workers : HoldsLock(w)

-----------------------------------------------------------------------------
(* Operations and rows.                                                    *)

LEMMA OpsAreChanges ==
    ASSUME NEW op \in Ops
    PROVE  op[1] \in ToolKinds /\ op[2] \in Tables
BY DEF Ops, ToolKinds, Tables, RequestOps, ToolOps, Contents, StoryFollows,
       CharacterFollows, UserFollows, StoryLikes, VersionLikes, VersionWrites,
       PointWrites, CharacterWrites, CharacterReads, Memberships, OwnPrompts, OwnTools

\* A handler of a read never creates a resource.
LEMMA GetLocksAgain ==
    ASSUME NEW op, op[1] = "get"
    PROVE  LocksAgain(op)
BY DEF LocksAgain

LEMMA ChangedIsItem ==
    ASSUME NEW kind \in ToolKinds \ {"get", "analyze", "create"}, NEW item \in TableItems,
           NEW u \in Users
    PROVE  Changed(kind, item, u) \in TableItems
BY DEF Changed, TableItems, ToolKinds

\* Whatever a handler does, the maps keep rows of their type.
LEMMA EffectKeepsType ==
    ASSUME NEW op \in Ops, NEW u \in Users, table \in [Tables -> Seq(TableItems)],
           Effect(op, u)
    PROVE  table' \in [Tables -> Seq(TableItems)]
<1> DEFINE t == op[2]
<1>1. t \in Tables /\ op[1] \in ToolKinds
  BY OpsAreChanges
<1>2. table[t] \in Seq(TableItems)
  BY <1>1
<1>3. CASE Reads(op) \/ (op[1] # "create" /\ table[t] = <<>>)
  BY <1>3 DEF Effect
<1>4. CASE ~ (Reads(op) \/ (op[1] # "create" /\ table[t] = <<>>)) /\ op[1] = "create"
  <2>1. table' = Made(t)
    BY <1>4 DEF Effect
  <2>2. NewItem \in TableItems
    BY DEF NewItem, TableItems
  <2>3. Append(table[t], NewItem) \in Seq(TableItems)
    BY <1>2, <2>2
  <2> QED
    BY <1>1, <2>1, <2>3 DEF Made
<1>5. CASE ~ (Reads(op) \/ (op[1] # "create" /\ table[t] = <<>>)) /\ op[1] # "create"
  <2>1. PICK i \in DOMAIN table[t] :
           table' = [table EXCEPT ![t][i] = Changed(op[1], @, u)]
    BY <1>5 DEF Effect
  <2>2. table[t][i] \in TableItems
    BY <1>2, <2>1
  <2>3. op[1] \in ToolKinds \ {"get", "analyze", "create"}
    BY <1>1, <1>5 DEF Reads
  <2>4. Changed(op[1], table[t][i], u) \in TableItems
    BY <2>2, <2>3, ChangedIsItem
  <2>5. [table[t] EXCEPT ![i] = Changed(op[1], table[t][i], u)] \in Seq(TableItems)
    BY <1>2, <2>1, <2>4
  <2>6. table' = [table EXCEPT ![t] = [table[t] EXCEPT ![i] = Changed(op[1], table[t][i], u)]]
    BY <2>1
  <2> QED
    BY <1>1, <2>5, <2>6
<1> QED
  BY <1>3, <1>4, <1>5

-----------------------------------------------------------------------------
(* The invariant of the lock.                                              *)

LEMMA McpInitHolds == RequestsInit /\ McpInit => LockInv
<1> SUFFICES ASSUME RequestsInit, McpInit
             PROVE  LockInv
  OBVIOUS
<1>1. table \in [Tables -> Seq(TableItems)]
  BY DEF McpInit
<1>2. McpTypeOK
  BY <1>1 DEF McpTypeOK, McpInit, TableItems
<1>3. worker \in [Workers -> Locals]
  BY DEF RequestsInit, Idle, Locals
<1>4. \A w \in Workers : HoldsLock(w)
  BY DEF RequestsInit, McpInit, Idle, HoldsLock, Inside
<1> QED
  BY <1>2, <1>3, <1>4 DEF LockInv

\* A new request waits for the lock.
LEMMA BeginsKeeps ==
    ASSUME LockInv, NEW w \in Workers, NEW u \in Users, NEW op \in Ops,
           NEW who \in {"tool", "request"}, NEW pc \in {"RLock", "Lock"},
           Begins(w, u, who, op, pc, None), UNCHANGED mcpVars,
           pc = "RLock" => (who = "tool" /\ Reads(op)) \/ (who = "request" /\ LocksAgain(op))
    PROVE  LockInv'
<1> DEFINE l == [pc |-> pc, user |-> u, op |-> who, on |-> op, got |-> None]
<1>1. worker' = [worker EXCEPT ![w] = l] /\ worker[w].pc = "idle"
  BY DEF Begins, Takes, Idle
<1>2. McpTypeOK'
  BY DEF LockInv, McpTypeOK, mcpVars
<1>3. worker' \in [Workers -> Locals]
  BY <1>1 DEF LockInv, Locals
<1>4. ASSUME NEW v \in Workers
      PROVE  HoldsLock(v)'
  <2>1. CASE v = w
    BY <1>1, <2>1 DEF LockInv, HoldsLock, Inside, ReadsOnly, mcpVars
  <2>2. CASE v # w
    BY <1>1, <2>2 DEF LockInv, HoldsLock, mcpVars, ReadsOnly
  <2> QED
    BY <2>1, <2>2
<1> QED
  BY <1>2, <1>3, <1>4 DEF LockInv

\* What a step to the call pc does to the locals.
LEMMA GoesTo ==
    ASSUME LockInv, NEW w \in Workers, NEW pc \in {"WaitForReaders", "Handle", "LockAgain"},
           Goes(w, pc)
    PROVE  /\ worker' = [worker EXCEPT ![w] = [worker[w] EXCEPT !.pc = pc]]
           /\ worker' \in [Workers -> Locals]
<1>1. worker' = [worker EXCEPT ![w] = [worker[w] EXCEPT !.pc = pc]]
  BY DEF Goes, GoesWith, After, LockInv, Locals
<1> QED
  BY <1>1 DEF LockInv, Locals

\* A request that ends gives the lock back.
LEMMA EndKeeps ==
    ASSUME LockInv, NEW w \in Workers, worker[w].pc \in Inside, Ends(w), Unlock(w),
           table' \in [Tables -> Seq(TableItems)]
    PROVE  LockInv'
<1>1. worker' = [worker EXCEPT ![w] = Idle]
  BY DEF Ends, Goes, GoesWith, After
<1>2. /\ readers' = [readers EXCEPT ![w] = 0]
      /\ writer' = IF writer = w THEN None ELSE writer
  BY DEF Unlock
<1>3. McpTypeOK'
  <2>1. readers' \in [Workers -> 0 .. 1]
    BY <1>2 DEF LockInv, McpTypeOK
  <2>2. writer' \in Workers \cup {None}
    BY <1>2 DEF LockInv, McpTypeOK
  <2> QED
    BY <2>1, <2>2 DEF McpTypeOK, TableItems
<1>4. worker' \in [Workers -> Locals]
  BY <1>1 DEF LockInv, Locals, Idle
<1>5. ASSUME NEW v \in Workers
      PROVE  HoldsLock(v)'
  <2>1. CASE v = w
    BY <1>1, <1>2, <2>1 DEF LockInv, McpTypeOK, HoldsLock, Inside, Idle
  <2>2. CASE v # w
    <3>1. worker'[v] = worker[v] /\ readers'[v] = readers[v]
      BY <1>1, <1>2, <2>2 DEF LockInv, McpTypeOK
    <3>2. writer = v => writer' = v
      BY <1>2, <2>2
    <3>3. writer # v => writer' # v
      BY <1>2, RequestsAssumption
    <3>4. (\A x \in Workers : readers[x] = 0) => \A x \in Workers : readers'[x] = 0
      BY <1>2 DEF LockInv, McpTypeOK
    <3> QED
      BY <3>1, <3>2, <3>3, <3>4 DEF LockInv, HoldsLock, ReadsOnly
  <2> QED
    BY <2>1, <2>2
<1> QED
  BY <1>3, <1>4, <1>5 DEF LockInv

LEMMA RLockKeeps ==
    ASSUME LockInv, NEW w \in Workers, RLock(w)
    PROVE  LockInv'
<1>1. /\ worker[w].pc = "RLock" /\ writer = None /\ writer' = None /\ table' = table
      /\ readers' = [readers EXCEPT ![w] = readers[w] + 1]
  BY DEF RLock, Enters
<1>2. worker' = [worker EXCEPT ![w] = [worker[w] EXCEPT !.pc = "Handle"]]
      /\ worker' \in [Workers -> Locals]
  BY GoesTo DEF RLock
<1>3. readers[w] = 0 /\ ReadsOnly(worker[w]) /\ None # w
  BY <1>1, RequestsAssumption DEF LockInv, HoldsLock, Inside
<1>4. McpTypeOK'
  <2>1. readers' \in [Workers -> 0 .. 1]
    BY <1>1, <1>3 DEF LockInv, McpTypeOK
  <2> QED
    BY <1>1, <2>1 DEF LockInv, McpTypeOK
<1>5. ASSUME NEW v \in Workers
      PROVE  HoldsLock(v)'
  <2>1. CASE v = w
    <3>1. /\ worker'[v] = [worker[w] EXCEPT !.pc = "Handle"]
          /\ readers'[v] = 1
      BY <1>1, <1>2, <1>3, <2>1 DEF LockInv, McpTypeOK
    <3>2. worker[w] \in Locals
      BY DEF LockInv
    <3>3. ReadsOnly(worker'[v])
      BY <1>3, <3>1, <3>2 DEF ReadsOnly, Locals
    <3> QED
      BY <1>1, <1>3, <2>1, <3>1, <3>2, <3>3 DEF LockInv, HoldsLock, Inside, Locals, ReadsOnly
  <2>2. CASE v # w
    <3>1. worker'[v] = worker[v] /\ readers'[v] = readers[v] /\ writer # v
      BY <1>1, <1>2, <2>2, RequestsAssumption DEF LockInv, McpTypeOK
    <3> QED
      BY <1>1, <3>1 DEF LockInv, HoldsLock, ReadsOnly
  <2> QED
    BY <2>1, <2>2
<1> QED
  BY <1>2, <1>4, <1>5 DEF LockInv

LEMMA LockKeeps ==
    ASSUME LockInv, NEW w \in Workers, Lock(w)
    PROVE  LockInv'
<1>1. /\ worker[w].pc = "Lock" /\ writer = None /\ writer' = w
      /\ table' = table /\ readers' = readers
  BY DEF Lock, Enters
<1>2. worker' = [worker EXCEPT ![w] = [worker[w] EXCEPT !.pc = "WaitForReaders"]]
      /\ worker' \in [Workers -> Locals]
  BY GoesTo DEF Lock
<1>3. McpTypeOK'
  BY <1>1 DEF LockInv, McpTypeOK
<1>4. ASSUME NEW v \in Workers
      PROVE  HoldsLock(v)'
  <2>1. CASE v = w
    BY <1>1, <1>2, <2>1 DEF LockInv, HoldsLock, Inside, Locals
  <2>2. CASE v # w
    <3>1. worker'[v] = worker[v] /\ writer # v /\ writer' # v
      BY <1>1, <1>2, <2>2, RequestsAssumption DEF LockInv
    <3> QED
      BY <1>1, <3>1 DEF LockInv, HoldsLock, ReadsOnly
  <2> QED
    BY <2>1, <2>2
<1> QED
  BY <1>2, <1>3, <1>4 DEF LockInv

LEMMA WaitForReadersKeeps ==
    ASSUME LockInv, NEW w \in Workers, WaitForReaders(w)
    PROVE  LockInv'
<1>1. /\ worker[w].pc = "WaitForReaders" /\ \A v \in Workers : readers[v] = 0
      /\ UNCHANGED mcpVars
  BY DEF WaitForReaders
<1>2. worker' = [worker EXCEPT ![w] = [worker[w] EXCEPT !.pc = "Handle"]]
      /\ worker' \in [Workers -> Locals]
  BY GoesTo DEF WaitForReaders
<1>3. McpTypeOK'
  BY <1>1 DEF LockInv, McpTypeOK, mcpVars
<1>4. ASSUME NEW v \in Workers
      PROVE  HoldsLock(v)'
  <2>1. CASE v = w
    BY <1>1, <1>2, <2>1 DEF LockInv, HoldsLock, Inside, Locals, mcpVars
  <2>2. CASE v # w
    BY <1>1, <1>2, <2>2 DEF LockInv, HoldsLock, ReadsOnly, mcpVars
  <2> QED
    BY <2>1, <2>2
<1> QED
  BY <1>2, <1>3, <1>4 DEF LockInv

LEMMA HandleKeeps ==
    ASSUME LockInv, NEW w \in Workers, Handle(w)
    PROVE  LockInv'
<1>1. worker[w].pc = "Handle" /\ worker[w].on \in Ops /\ worker[w].user \in Users
  BY DEF Handle, LockInv, HoldsLock
<1>2. CASE worker[w].op = "request" /\ LocksAgain(worker[w].on)
  <2>1. UNCHANGED mcpVars
    BY <1>2 DEF Handle
  <2>2. worker' = [worker EXCEPT ![w] = [worker[w] EXCEPT !.pc = "LockAgain"]]
        /\ worker' \in [Workers -> Locals]
    BY <1>2, GoesTo DEF Handle
  <2>3. McpTypeOK'
    BY <2>1 DEF LockInv, McpTypeOK, mcpVars
  <2>4. ASSUME NEW v \in Workers
        PROVE  HoldsLock(v)'
    <3>1. CASE v = w
      BY <1>1, <2>1, <2>2, <3>1 DEF LockInv, HoldsLock, Inside, Locals, ReadsOnly, mcpVars
    <3>2. CASE v # w
      BY <2>1, <2>2, <3>2 DEF LockInv, HoldsLock, ReadsOnly, mcpVars
    <3> QED
      BY <3>1, <3>2
  <2> QED
    BY <2>2, <2>3, <2>4 DEF LockInv
<1>3. CASE ~ (worker[w].op = "request" /\ LocksAgain(worker[w].on))
  <2>1. Effect(worker[w].on, worker[w].user) /\ Ends(w) /\ Unlock(w)
    BY <1>3 DEF Handle
  <2>2. table' \in [Tables -> Seq(TableItems)]
    BY <1>1, <2>1, EffectKeepsType DEF LockInv, McpTypeOK, TableItems
  <2> QED
    BY <1>1, <2>1, <2>2, EndKeeps DEF Inside
<1> QED
  BY <1>2, <1>3

LEMMA McpNextKeeps == LockInv /\ [McpNext]_mcpSpecVars => LockInv'
<1> SUFFICES ASSUME LockInv, [McpNext]_mcpSpecVars
             PROVE  LockInv'
  OBVIOUS
<1>1. ASSUME NEW w \in Workers, McpStep(w)
      PROVE  LockInv'
  <2>1. CASE RLock(w)
    BY <2>1, RLockKeeps
  <2>2. CASE Lock(w)
    BY <2>2, LockKeeps
  <2>3. CASE WaitForReaders(w)
    BY <2>3, WaitForReadersKeeps
  <2>4. CASE RefuseFields(w)
    <3>1. table' \in [Tables -> Seq(TableItems)]
      BY <2>4 DEF RefuseFields, LockInv, McpTypeOK, TableItems
    <3> QED
      BY <2>4, <3>1, EndKeeps DEF RefuseFields, Inside
  <2>5. CASE Handle(w)
    BY <2>5, HandleKeeps
  <2>6. CASE LockAgain(w)
    <3>1. worker[w].on \in Ops /\ worker[w].user \in Users
      BY <2>6 DEF LockAgain, LockInv, HoldsLock
    <3>2. table' \in [Tables -> Seq(TableItems)]
      BY <2>6, <3>1, EffectKeepsType DEF LockAgain, LockInv, McpTypeOK, TableItems
    <3> QED
      BY <2>6, <3>2, EndKeeps DEF LockAgain, Inside
  <2> QED
    BY <1>1, <2>1, <2>2, <2>3, <2>4, <2>5, <2>6 DEF McpStep
<1>2. ASSUME NEW w \in Workers, NEW u \in Users, NEW op \in ToolOps, CallTool(w, u, op)
      PROVE  LockInv'
  <2>1. op \in Ops
    BY DEF Ops
  <2>2. CASE Reads(op)
    BY <1>2, <2>1, <2>2, BeginsKeeps DEF CallTool
  <2>3. CASE ~ Reads(op)
    <3>1. Begins(w, u, "tool", op, "Lock", None)
      BY <1>2, <2>3 DEF CallTool
    <3> QED
      BY <1>2, <2>1, <3>1, BeginsKeeps DEF CallTool
  <2> QED
    BY <2>2, <2>3
<1>3. ASSUME NEW w \in Workers, NEW u \in Users, NEW op \in RequestOps,
             HandleRequest(w, u, op)
      PROVE  LockInv'
  <2>1. op \in Ops
    BY DEF Ops
  <2>2. CASE op[1] = "get"
    <3>1. Begins(w, u, "request", op, "RLock", None) /\ LocksAgain(op)
      BY <1>3, <2>2, GetLocksAgain DEF HandleRequest
    <3> QED
      BY <1>3, <2>1, <3>1, BeginsKeeps DEF HandleRequest
  <2>3. CASE op[1] # "get"
    <3>1. Begins(w, u, "request", op, "Lock", None)
      BY <1>3, <2>3 DEF HandleRequest
    <3> QED
      BY <1>3, <2>1, <3>1, BeginsKeeps DEF HandleRequest
  <2> QED
    BY <2>2, <2>3
<1>4. CASE UNCHANGED mcpSpecVars
  BY <1>4 DEF mcpSpecVars, requestVars, mcpVars, LockInv, McpTypeOK, HoldsLock, ReadsOnly
<1> QED
  BY <1>1, <1>2, <1>3, <1>4 DEF McpNext

\* Who is inside the lock holds it, a writer alone, in every reachable state.
THEOREM LockInvariance == McpSpec => []LockInv
<1>1. RequestsInit /\ McpInit => LockInv
  BY McpInitHolds
<1>2. LockInv /\ [McpNext]_mcpSpecVars => LockInv'
  BY McpNextKeeps
<1> QED
  BY <1>1, <1>2, PTL DEF McpSpec, mcpSpecVars

\* The maps hold rows, and the lock its readers and its writer.
THEOREM McpTypeCorrect == McpSpec => []McpTypeOK
<1>1. LockInv => McpTypeOK
  BY DEF LockInv
<1> QED
  BY <1>1, LockInvariance, PTL

-----------------------------------------------------------------------------
(* A request that waits for the lock it holds.                             *)

\* No writer is inside then: it would be the stuck one itself.
LEMMA WriterIsStuck ==
    ASSUME LockInv, NEW w \in Workers, Stuck(w), NEW v \in Workers,
           worker[v].pc = "Handle"
    PROVE  writer # v /\ ReadsOnly(worker[v])
<1>1. worker[w].pc = "LockAgain" /\ v # w
  BY DEF Stuck
<1>2. readers[w] = 1 \/ writer = w
  BY <1>1 DEF LockInv, HoldsLock, Inside
<1> QED
  BY <1>1, <1>2 DEF LockInv, HoldsLock, Inside

LEMMA StuckStep ==
    ASSUME LockInv, NEW w \in Workers, Stuck(w), McpNext
    PROVE  UNCHANGED <<table, writer>>
<1>1. writer # None
  BY DEF Stuck
<1>2. ASSUME NEW v \in Workers, McpStep(v)
      PROVE  UNCHANGED <<table, writer>>
  <2>1. ~ RLock(v) /\ ~ Lock(v) /\ ~ LockAgain(v)
    BY <1>1 DEF RLock, Lock, LockAgain, Enters
  <2>2. CASE WaitForReaders(v)
    BY <2>2 DEF WaitForReaders, mcpVars
  <2>3. CASE RefuseFields(v)
    BY <2>3, WriterIsStuck DEF RefuseFields, Unlock
  <2>4. CASE Handle(v)
    <3>1. writer # v /\ ReadsOnly(worker[v])
      BY <2>4, WriterIsStuck DEF Handle
    <3>2. CASE worker[v].op = "request" /\ LocksAgain(worker[v].on)
      BY <2>4, <3>2 DEF Handle, mcpVars
    <3>3. CASE ~ (worker[v].op = "request" /\ LocksAgain(worker[v].on))
      <4>1. Reads(worker[v].on)
        BY <3>1, <3>3 DEF ReadsOnly
      <4>2. Effect(worker[v].on, worker[v].user) /\ Unlock(v)
        BY <2>4, <3>3 DEF Handle
      <4> QED
        BY <3>1, <4>1, <4>2 DEF Effect, Unlock
    <3> QED
      BY <3>2, <3>3
  <2> QED
    BY <1>2, <2>1, <2>2, <2>3, <2>4 DEF McpStep
<1> QED
  BY <1>2 DEF McpNext, CallTool, HandleRequest, mcpVars

\* Once a request waits for the lock it holds, no map changes any more, whatever
\* requests and tools come.
THEOREM StuckIsForGood == McpSpec => StuckForGood
<1>1. LockInv /\ [McpNext]_mcpSpecVars
        => [(\E w \in Workers : Stuck(w)) => UNCHANGED <<table, writer>>]_mcpVars
  <2> SUFFICES ASSUME LockInv, [McpNext]_mcpSpecVars, NEW w \in Workers, Stuck(w)
               PROVE  UNCHANGED <<table, writer>>
    BY DEF mcpVars
  <2>1. CASE McpNext
    BY <2>1, StuckStep
  <2>2. CASE UNCHANGED mcpSpecVars
    BY <2>2 DEF mcpSpecVars, mcpVars
  <2> QED
    BY <2>1, <2>2
<1> QED
  BY <1>1, LockInvariance, PTL DEF McpSpec, StuckForGood, mcpSpecVars
-----------------------------------------------------------------------------
(* Scenes: what is drawn for a scene is saved with it.                     *)

scenesSpecVars == <<requestVars, scenes>>

SceneOps == {"UpdateStoryBoardSence", "RenderStoryBoardSences", "RenderStoryBoardSence"}

HeldScenes == (SUBSET SceneIds) \ {{}}

Images == UNION {[I -> SceneRows] : I \in HeldScenes}

\* The locals of a request that is being served: the rows it read, or the edit
\* that it was sent.
SceneLocals ==
    [pc : {"MarkScene", "DrawImages", "SaveScene"}, user : Users, op : SceneOps,
     on : {None}, got : Images]

\* An edit is about one scene.  What a rendering holds is a scene that exists,
\* with the prompt its last edit gave it unless that edit crossed a rendering.
ImagesAreOf(l) ==
    IF l.op = "UpdateStoryBoardSence"
    THEN l.pc = "SaveScene" /\ \E i \in SceneIds : DOMAIN l.got = {i}
    ELSE \A i \in DOMAIN l.got :
            /\ scene[i].status # 0
            /\ i \notin crossed => l.got[i].prompt = edited[i]

ScenesInv ==
    /\ ScenesTypeOK
    /\ served \in Nat
    /\ worker \in [Workers -> SceneLocals \cup {Idle}]
    /\ \A w \in Workers : worker[w] # Idle => ImagesAreOf(worker[w])
    /\ EditKeptUnlessCrossed

-----------------------------------------------------------------------------
(* Rows and locals.                                                        *)

LEMMA IdleIsNone == Idle \notin SceneLocals
BY DEF Idle, SceneLocals

LEMMA GotIsImages ==
    ASSUME NEW l \in SceneLocals
    PROVE  /\ l.got \in Images
           /\ DOMAIN l.got \in HeldScenes
           /\ l.got \in [DOMAIN l.got -> SceneRows]
<1>1. l.got \in Images
  BY DEF SceneLocals
<1>2. PICK I \in HeldScenes : l.got \in [I -> SceneRows]
  BY <1>1 DEF Images
<1> QED
  BY <1>1, <1>2

LEMMA RowsAreImages ==
    ASSUME NEW I \in HeldScenes, NEW rows \in [I -> SceneRows]
    PROVE  rows \in Images
BY DEF Images

\* A set of scenes has a first one.
LEMMA FirstScene ==
    ASSUME NEW I \in HeldScenes
    PROVE  \E i \in I : \A j \in I : i <= j
<1>1. I \subseteq Nat /\ I # {}
  BY ScenesAssumption DEF HeldScenes
<1> DEFINE R == {ss \in Nat \X Nat : ss[1] < ss[2]}
<1>2. IsWellFoundedOn(R, Nat)
  BY NatLessThanWellFounded, Zenon DEF OpToRel
<1>3. \A x, y \in Nat : x < y => <<x, y>> \in R
  OBVIOUS
<1> HIDE DEF R
<1>4. PICK i \in I : \A j \in I : ~ (<<j, i>> \in R)
  BY <1>1, <1>2, WFMin
<1>5. ASSUME NEW j \in I
      PROVE  i <= j
  <2>1. i \in Nat /\ j \in Nat
    BY <1>1
  <2>2. ~ (j < i)
    BY <1>3, <1>4, <2>1, Zenon
  <2> QED
    BY <2>1, <2>2
<1> QED
  BY <1>5

\* A request always has a scene to do next, and it is one of those it holds.
LEMMA NextSceneIsHeld ==
    ASSUME NEW w \in Workers, worker[w] \in SceneLocals
    PROVE  NextScene(w) \in DOMAIN worker[w].got /\ NextScene(w) \in SceneIds
<1>1. DOMAIN worker[w].got \in HeldScenes
  BY GotIsImages
<1>2. \E i \in DOMAIN worker[w].got : \A j \in DOMAIN worker[w].got : i <= j
  BY <1>1, FirstScene
<1> QED
  BY <1>1, <1>2 DEF NextScene, HeldScenes

LEMMA GotIsRow ==
    ASSUME NEW w \in Workers, worker[w] \in SceneLocals, NEW i \in DOMAIN worker[w].got
    PROVE  worker[w].got[i] \in SceneRows /\ i \in SceneIds
BY GotIsImages DEF HeldScenes

\* The columns that an UPDATE writes.
SavedRow(r, image) ==
    [prompt |-> Or(image.prompt, r.prompt),
     images |-> Or(image.images, r.images),
     status |-> Or(image.status, r.status)]

\* An UPDATE writes no scene but i, and i only while it is shown; a scene that
\* was inserted stays so.
LEMMA UpdateEffect ==
    ASSUME scene \in [SceneIds -> SceneRows], NEW i \in SceneIds,
           NEW image \in SceneRows, UpdateStoryBoardScene(i, image)
    PROVE  /\ scene' \in [SceneIds -> SceneRows]
           /\ \A j \in SceneIds : j # i => scene'[j] = scene[j]
           /\ ~ Shown(i) => scene'[i] = scene[i]
           /\ Shown(i) => scene'[i] = SavedRow(scene[i], image)
           /\ \A j \in SceneIds : scene[j].status # 0 => scene'[j].status # 0
<1>1. CASE Shown(i)
  <2>1. scene' = [scene EXCEPT ![i] = SavedRow(scene[i], image)]
    BY <1>1 DEF UpdateStoryBoardScene, SavedRow
  <2>2. scene[i] \in SceneRows
    OBVIOUS
  <2>3. SavedRow(scene[i], image) \in SceneRows
    BY <2>2 DEF SavedRow, Or, SceneRows
  <2>4. SavedRow(scene[i], image).status # 0
    BY <1>1, <2>2 DEF SavedRow, Or, SceneRows, Shown
  <2> QED
    BY <1>1, <2>1, <2>3, <2>4
<1>2. CASE ~ Shown(i)
  BY <1>2 DEF UpdateStoryBoardScene
<1> QED
  BY <1>1, <1>2

\* A row that keeps the prompt of its image, or has it written, has that prompt.
LEMMA SavedPrompt ==
    ASSUME NEW r, NEW image
    PROVE  /\ SavedRow(r, image).prompt = Or(image.prompt, r.prompt)
           /\ image.prompt = r.prompt => SavedRow(r, image).prompt = r.prompt
BY DEF SavedRow, Or

\* A hidden scene is not updated.
LEMMA HiddenIsNotShown ==
    ASSUME scene \in [SceneIds -> SceneRows], NEW i \in SceneIds
    PROVE  scene[i].status = -1 => ~ Shown(i)
BY DEF Shown, SceneRows

-----------------------------------------------------------------------------
(* The steps of requests that do not save.                                 *)

\* A new request, in a state whose scenes stay as they are.
LEMMA TakesKeeps ==
    ASSUME ScenesInv, NEW w \in Workers, NEW l \in SceneLocals, worker[w] = Idle,
           worker' = [worker EXCEPT ![w] = l], served' = served + 1,
           UNCHANGED scenes, ImagesAreOf(l)
    PROVE  ScenesInv'
<1>1. worker' \in [Workers -> SceneLocals \cup {Idle}]
  BY DEF ScenesInv
<1>2. ASSUME NEW v \in Workers, worker'[v] # Idle
      PROVE  ImagesAreOf(worker[v])'
  BY <1>2 DEF ScenesInv, scenes, ImagesAreOf
<1>3. served' \in Nat
  BY DEF ScenesInv
<1> QED
  BY <1>1, <1>2, <1>3 DEF ScenesInv, ScenesTypeOK, EditKeptUnlessCrossed, scenes

\* A request that ends or is cut off, in a state whose scenes stay as they are.
LEMMA SceneEndKeeps ==
    ASSUME ScenesInv, NEW w \in Workers, worker' = [worker EXCEPT ![w] = Idle],
           served' = served, UNCHANGED scenes
    PROVE  ScenesInv'
<1>1. worker' \in [Workers -> SceneLocals \cup {Idle}]
  BY DEF ScenesInv
<1>2. ASSUME NEW v \in Workers, worker'[v] # Idle
      PROVE  ImagesAreOf(worker[v])'
  BY <1>2 DEF ScenesInv, scenes, ImagesAreOf
<1> QED
  BY <1>1, <1>2 DEF ScenesInv, ScenesTypeOK, EditKeptUnlessCrossed, scenes

LEMMA CreateKeeps ==
    ASSUME ScenesInv, NEW i \in SceneIds, CreateStoryBoardScene(i)
    PROVE  ScenesInv'
<1>1. /\ scene[i] = NoScene /\ worker' = worker /\ served' = served + 1
      /\ scene' = [scene EXCEPT ![i] = [prompt |-> served + 1, images |-> 0, status |-> 1]]
      /\ edited' = [edited EXCEPT ![i] = served + 1] /\ crossed' = crossed
  BY DEF CreateStoryBoardScene, Serves
<1>2. served + 1 \in Nat
  BY DEF ScenesInv
<1>3. [prompt |-> served + 1, images |-> 0, status |-> 1] \in SceneRows
  BY <1>2 DEF SceneRows
<1>4. ScenesTypeOK'
  BY <1>1, <1>2, <1>3 DEF ScenesInv, ScenesTypeOK
<1>5. ASSUME NEW w \in Workers, worker[w] # Idle
      PROVE  ImagesAreOf(worker[w])'
  <2>1. worker[w] \in SceneLocals /\ ImagesAreOf(worker[w])
    BY <1>5 DEF ScenesInv
  <2>2. scene[i].status = 0
    BY <1>1 DEF NoScene
  <2>3. ASSUME NEW j \in DOMAIN worker[w].got, worker[w].op # "UpdateStoryBoardSence"
        PROVE  /\ scene'[j].status # 0
               /\ j \notin crossed' => worker[w].got[j].prompt = edited'[j]
    <3>1. j \in SceneIds
      BY <2>1, GotIsRow
    <3>2. scene[j].status # 0 /\ j # i
      BY <2>1, <2>2, <2>3 DEF ImagesAreOf
    <3> QED
      BY <1>1, <2>1, <2>3, <3>1, <3>2 DEF ImagesAreOf, ScenesInv, ScenesTypeOK
  <2> QED
    BY <1>1, <2>1, <2>3 DEF ImagesAreOf
<1>6. EditKeptUnlessCrossed'
  BY <1>1 DEF ScenesInv, ScenesTypeOK, EditKeptUnlessCrossed
<1> QED
  BY <1>1, <1>2, <1>4, <1>5, <1>6 DEF ScenesInv

LEMMA UpdateStoryBoardSenceKeeps ==
    ASSUME ScenesInv, NEW w \in Workers, NEW u \in Users, NEW i \in SceneIds,
           NEW edit \in SceneRows, UpdateStoryBoardSence(w, u, i, edit)
    PROVE  ScenesInv'
<1> DEFINE l == [pc |-> "SaveScene", user |-> u, op |-> "UpdateStoryBoardSence",
                 on |-> None, got |-> [j \in {i} |-> edit]]
<1>1. /\ worker[w] = Idle /\ worker' = [worker EXCEPT ![w] = l]
      /\ served' = served + 1 /\ UNCHANGED scenes
  BY DEF UpdateStoryBoardSence, Begins, Takes
<1>2. l.got \in Images
  <2>1. [j \in {i} |-> edit] \in [{i} -> SceneRows] /\ {i} \in HeldScenes
    BY DEF HeldScenes
  <2> QED
    BY <2>1, RowsAreImages
<1>3. l \in SceneLocals
  BY <1>2 DEF SceneLocals, SceneOps
<1>4. ImagesAreOf(l)
  BY DEF ImagesAreOf
<1> QED
  BY <1>1, <1>3, <1>4, TakesKeeps

\* A rendering starts from the rows as they are.
LEMMA RenderingStarts ==
    ASSUME ScenesInv, NEW w \in Workers, NEW u \in Users,
           NEW chosen \in SUBSET SceneIds, chosen # {}, \A i \in chosen : Shown(i),
           NEW op \in SceneOps \ {"UpdateStoryBoardSence"},
           NEW pc \in {"MarkScene", "DrawImages"},
           Begins(w, u, op, None, pc, [i \in chosen |-> scene[i]]),
           UNCHANGED scenes
    PROVE  ScenesInv'
<1> DEFINE l == [pc |-> pc, user |-> u, op |-> op, on |-> None,
                 got |-> [i \in chosen |-> scene[i]]]
<1>1. /\ worker[w] = Idle /\ worker' = [worker EXCEPT ![w] = l]
      /\ served' = served + 1
  BY DEF Begins, Takes
<1>2. l.got \in Images
  <2>1. [i \in chosen |-> scene[i]] \in [chosen -> SceneRows]
    BY DEF ScenesInv, ScenesTypeOK
  <2>2. chosen \in HeldScenes
    BY DEF HeldScenes
  <2> QED
    BY <2>1, <2>2, RowsAreImages
<1>3. l \in SceneLocals
  BY <1>2 DEF SceneLocals
<1>4. ImagesAreOf(l)
  BY DEF ImagesAreOf, ScenesInv, EditKeptUnlessCrossed, Shown
<1> QED
  BY <1>1, <1>3, <1>4, TakesKeeps

LEMMA CutOffKeepsRest ==
    ASSUME ScenesInv, NEW w \in Workers, CutOff(w), UNCHANGED scenes
    PROVE  ScenesInv'
<1>1. worker' = [worker EXCEPT ![w] = Idle] /\ served' = served
  BY DEF CutOff, Logs, After
<1> QED
  BY <1>1, SceneEndKeeps

\* The images are drawn: nothing but the row that the request holds changes.
LEMMA DrawImagesKeeps ==
    ASSUME ScenesInv, NEW w \in Workers, DrawImages(w)
    PROVE  ScenesInv'
<1> DEFINE i == NextScene(w)
           drawn == [worker[w].got[i] EXCEPT !.images = worker[w].got[i].prompt]
           l == [worker[w] EXCEPT !.pc = "SaveScene",
                                  !.got = [worker[w].got EXCEPT ![i] = drawn]]
<1>1. worker[w].pc = "DrawImages" /\ served' = served /\ UNCHANGED scenes
  BY DEF DrawImages, GoesWith
<1>2. worker' = [worker EXCEPT ![w] = l]
  BY DEF DrawImages, GoesWith, After
<1>3. worker[w] \in SceneLocals /\ ImagesAreOf(worker[w])
  BY <1>1 DEF ScenesInv, Idle
<1>4. i \in DOMAIN worker[w].got /\ worker[w].got[i] \in SceneRows
  BY <1>3, NextSceneIsHeld, GotIsRow
<1>5. drawn \in SceneRows /\ drawn.prompt = worker[w].got[i].prompt
  BY <1>4 DEF SceneRows
<1>6. PICK I \in HeldScenes : worker[w].got \in [I -> SceneRows]
  BY <1>3 DEF SceneLocals, Images
<1>7. [worker[w].got EXCEPT ![i] = drawn] \in Images
  BY <1>5, <1>6, RowsAreImages
<1>8. l \in SceneLocals
  BY <1>3, <1>7 DEF SceneLocals
<1>9. /\ l.op = worker[w].op
      /\ DOMAIN l.got = DOMAIN worker[w].got
      /\ \A j \in DOMAIN l.got : l.got[j].prompt = worker[w].got[j].prompt
  BY <1>3, <1>4, <1>5, <1>6 DEF SceneLocals
<1>10. ImagesAreOf(l)
  BY <1>1, <1>3, <1>9 DEF ImagesAreOf
<1>11. worker' \in [Workers -> SceneLocals \cup {Idle}]
  BY <1>2, <1>8 DEF ScenesInv
<1>12. ASSUME NEW v \in Workers, worker'[v] # Idle
       PROVE  ImagesAreOf(worker[v])'
  <2>1. CASE v = w
    BY <1>1, <1>2, <1>10, <2>1 DEF ScenesInv, ImagesAreOf, scenes
  <2>2. CASE v # w
    BY <1>1, <1>2, <1>12, <2>2 DEF ScenesInv, ImagesAreOf, scenes
  <2> QED
    BY <2>1, <2>2
<1> QED
  BY <1>1, <1>11, <1>12 DEF ScenesInv, ScenesTypeOK, EditKeptUnlessCrossed, scenes

-----------------------------------------------------------------------------
(* The steps that save a row.                                              *)

\* A rendering saves the row it holds of the scene i.
LEMMA RenderingSaves ==
    ASSUME ScenesInv, NEW w \in Workers, worker[w] \in SceneLocals, Draws(w),
           NEW i \in DOMAIN worker[w].got,
           UpdateStoryBoardScene(i, worker[w].got[i]),
           edited' = edited, crossed' = crossed
    PROVE  /\ ScenesTypeOK' /\ EditKeptUnlessCrossed'
           /\ \A l \in SceneLocals : ImagesAreOf(l) => ImagesAreOf(l)'
<1> DEFINE image == worker[w].got[i]
<1>1. image \in SceneRows /\ i \in SceneIds /\ scene \in [SceneIds -> SceneRows]
  BY GotIsRow DEF ScenesInv, ScenesTypeOK
<1>2. /\ scene' \in [SceneIds -> SceneRows]
      /\ \A j \in SceneIds : j # i => scene'[j] = scene[j]
      /\ ~ Shown(i) => scene'[i] = scene[i]
      /\ Shown(i) => scene'[i] = SavedRow(scene[i], image)
      /\ \A j \in SceneIds : scene[j].status # 0 => scene'[j].status # 0
  BY <1>1, UpdateEffect
<1>3. ScenesTypeOK'
  BY <1>2 DEF ScenesInv, ScenesTypeOK
<1>4. i \notin crossed => image.prompt = edited[i] /\ scene[i].prompt = edited[i]
  BY <1>1, IdleIsNone DEF ScenesInv, ImagesAreOf, Draws, EditKeptUnlessCrossed
<1>5. i \notin crossed => scene'[i].prompt = edited[i]
  BY <1>2, <1>4, SavedPrompt
<1>6. EditKeptUnlessCrossed'
  BY <1>2, <1>5 DEF ScenesInv, EditKeptUnlessCrossed
<1>7. ASSUME NEW l \in SceneLocals, ImagesAreOf(l)
      PROVE  ImagesAreOf(l)'
  <2>1. DOMAIN l.got \subseteq SceneIds
    BY GotIsImages DEF HeldScenes
  <2> QED
    BY <1>2, <1>7, <2>1 DEF ImagesAreOf
<1> QED
  BY <1>3, <1>6, <1>7

\* An edit is saved.  Whoever draws the scene meanwhile makes it crossed.
LEMMA EditSaves ==
    ASSUME ScenesInv, NEW w \in Workers, worker[w] \in SceneLocals, ~ Draws(w),
           NEW i \in DOMAIN worker[w].got,
           UpdateStoryBoardScene(i, worker[w].got[i]),
           IF Shown(i) /\ worker[w].got[i].prompt # 0
           THEN /\ edited' = [edited EXCEPT ![i] = worker[w].got[i].prompt]
                /\ crossed' = IF HeldByRender(w, i) THEN crossed \cup {i}
                              ELSE crossed \ {i}
           ELSE UNCHANGED <<edited, crossed>>
    PROVE  /\ ScenesTypeOK' /\ EditKeptUnlessCrossed'
           /\ \A v \in Workers \ {w}, l \in SceneLocals :
                 l = worker[v] => ImagesAreOf(l)'
<1> DEFINE image == worker[w].got[i]
<1>1. image \in SceneRows /\ i \in SceneIds /\ scene \in [SceneIds -> SceneRows]
  BY GotIsRow DEF ScenesInv, ScenesTypeOK
<1>2. /\ scene' \in [SceneIds -> SceneRows]
      /\ \A j \in SceneIds : j # i => scene'[j] = scene[j]
      /\ ~ Shown(i) => scene'[i] = scene[i]
      /\ Shown(i) => scene'[i] = SavedRow(scene[i], image)
      /\ \A j \in SceneIds : scene[j].status # 0 => scene'[j].status # 0
  BY <1>1, UpdateEffect
<1>3. image.prompt \in Nat
  BY <1>1 DEF SceneRows
<1>4. /\ edited' \in [SceneIds -> Nat] /\ crossed' \subseteq SceneIds
      /\ \A j \in SceneIds : j # i =>
            edited'[j] = edited[j] /\ (j \in crossed' <=> j \in crossed)
  BY <1>1, <1>3 DEF ScenesInv, ScenesTypeOK
<1>5. ScenesTypeOK'
  BY <1>2, <1>4 DEF ScenesTypeOK
<1>6. ASSUME i \notin crossed'
      PROVE  scene'[i].prompt = edited'[i]
  <2>1. CASE Shown(i) /\ image.prompt # 0
    <3>1. edited'[i] = image.prompt
      BY <1>1, <2>1 DEF ScenesInv, ScenesTypeOK
    <3> QED
      BY <1>2, <2>1, <3>1, SavedPrompt DEF Or
  <2>2. CASE ~ (Shown(i) /\ image.prompt # 0)
    <3>1. edited' = edited /\ i \notin crossed
      BY <1>6, <2>2
    <3>2. scene[i].prompt = edited[i]
      BY <1>1, <3>1 DEF ScenesInv, EditKeptUnlessCrossed
    <3>3. scene'[i].prompt = scene[i].prompt
      BY <1>2, <2>2, SavedPrompt DEF Or
    <3> QED
      BY <3>1, <3>2, <3>3
  <2> QED
    BY <2>1, <2>2
<1>7. EditKeptUnlessCrossed'
  BY <1>2, <1>4, <1>6 DEF ScenesInv, EditKeptUnlessCrossed
<1>8. ASSUME NEW v \in Workers \ {w}, worker[v] # Idle,
             worker[v].op # "UpdateStoryBoardSence", NEW j \in DOMAIN worker[v].got
      PROVE  /\ scene'[j].status # 0
             /\ j \notin crossed' => worker[v].got[j].prompt = edited'[j]
  <2>1. worker[v] \in SceneLocals /\ ImagesAreOf(worker[v])
    BY <1>8 DEF ScenesInv
  <2>2. j \in SceneIds
    BY <2>1, GotIsRow
  <2>3. /\ scene[j].status # 0
        /\ j \notin crossed => worker[v].got[j].prompt = edited[j]
    BY <1>8, <2>1 DEF ImagesAreOf
  <2>4. CASE j # i
    BY <1>2, <1>4, <2>2, <2>3, <2>4
  <2>5. CASE j = i
    <3>1. HeldByRender(w, i)
      BY <1>8, <2>5 DEF HeldByRender, Draws, Busy
    <3> QED
      BY <1>1, <1>2, <2>2, <2>3, <2>5, <3>1
  <2> QED
    BY <2>4, <2>5
<1>9. ASSUME NEW v \in Workers \ {w}, NEW l \in SceneLocals, l = worker[v]
      PROVE  ImagesAreOf(l)'
  <2>1. ASSUME l.op # "UpdateStoryBoardSence"
        PROVE  \A j \in DOMAIN l.got :
                  /\ scene'[j].status # 0
                  /\ j \notin crossed' => l.got[j].prompt = edited'[j]
    BY <1>8, <1>9, <2>1, IdleIsNone
  <2>2. ImagesAreOf(l)
    BY <1>9, IdleIsNone DEF ScenesInv
  <2> QED
    BY <2>1, <2>2 DEF ImagesAreOf
<1> QED
  BY <1>5, <1>7, <1>9

LEMMA MarkSceneKeeps ==
    ASSUME ScenesInv, NEW w \in Workers, MarkScene(w)
    PROVE  ScenesInv'
<1> DEFINE i == NextScene(w)
           l == [worker[w] EXCEPT !.pc = "DrawImages"]
<1>1. worker[w].pc = "MarkScene" /\ edited' = edited /\ crossed' = crossed
  BY DEF MarkScene
<1>2. worker[w] \in SceneLocals /\ ImagesAreOf(worker[w])
  BY <1>1 DEF ScenesInv, Idle
<1>3. worker' = [worker EXCEPT ![w] = l] /\ served' = served
  BY <1>2 DEF MarkScene, Goes, GoesWith, Logs, After, SceneLocals
<1>4. l \in SceneLocals /\ l.op = worker[w].op /\ l.got = worker[w].got
  BY <1>2 DEF SceneLocals
<1>5. worker' \in [Workers -> SceneLocals \cup {Idle}]
  BY <1>3, <1>4 DEF ScenesInv
<1>6. \/ UpdateStoryBoardScene(i, worker[w].got[i])
      \/ scene' = scene
  BY DEF MarkScene
<1>7. i \in DOMAIN worker[w].got
  BY <1>2, NextSceneIsHeld
<1>8. ScenesTypeOK' /\ EditKeptUnlessCrossed'
      /\ \A m \in SceneLocals : ImagesAreOf(m) => ImagesAreOf(m)'
  <2>1. CASE UpdateStoryBoardScene(i, worker[w].got[i])
    <3>1. Draws(w)
      BY <1>1, <1>2 DEF Draws, ImagesAreOf
    <3> QED
      BY <1>1, <1>2, <1>7, <2>1, <3>1, RenderingSaves
  <2>2. CASE scene' = scene
    BY <1>1, <2>2 DEF ScenesInv, ScenesTypeOK, EditKeptUnlessCrossed, ImagesAreOf
  <2> QED
    BY <1>6, <2>1, <2>2
<1>9. ImagesAreOf(l)
  BY <1>1, <1>2, <1>4 DEF ImagesAreOf
<1>10. ASSUME NEW v \in Workers, worker'[v] # Idle
       PROVE  ImagesAreOf(worker[v])'
  <2>1. PICK m \in SceneLocals : m = worker'[v] /\ ImagesAreOf(m)
    BY <1>3, <1>4, <1>5, <1>9, <1>10 DEF ScenesInv
  <2>2. ImagesAreOf(m)'
    BY <1>8, <2>1
  <2> QED
    BY <2>1, <2>2 DEF ImagesAreOf
<1> QED
  BY <1>3, <1>5, <1>8, <1>10 DEF ScenesInv

LEMMA SaveSceneKeeps ==
    ASSUME ScenesInv, NEW w \in Workers, SaveScene(w)
    PROVE  ScenesInv'
<1> DEFINE i == NextScene(w)
           rest == [j \in DOMAIN worker[w].got \ {i} |-> worker[w].got[j]]
           l == [worker[w] EXCEPT !.pc = "DrawImages", !.got = rest]
<1>1. /\ worker[w].pc = "SaveScene" /\ UpdateStoryBoardScene(i, worker[w].got[i])
      /\ IF Shown(i) /\ ~ Draws(w) /\ worker[w].got[i].prompt # 0
         THEN /\ edited' = [edited EXCEPT ![i] = worker[w].got[i].prompt]
              /\ crossed' = IF HeldByRender(w, i) THEN crossed \cup {i}
                            ELSE crossed \ {i}
         ELSE UNCHANGED <<edited, crossed>>
      /\ GoesWith(w, IF DOMAIN rest = {} THEN "idle" ELSE "DrawImages", rest)
  BY DEF SaveScene
<1>2. worker[w] \in SceneLocals /\ ImagesAreOf(worker[w])
  BY <1>1 DEF ScenesInv, Idle
<1>3. /\ i \in DOMAIN worker[w].got
      /\ DOMAIN rest = DOMAIN worker[w].got \ {i}
  BY <1>2, NextSceneIsHeld
<1>4. served' = served
      /\ worker' = [worker EXCEPT ![w] = IF DOMAIN rest = {} THEN Idle ELSE l]
  BY <1>1, <1>2 DEF GoesWith, After, SceneLocals
<1>5. ~ Draws(w) => DOMAIN rest = {}
  BY <1>2, <1>3 DEF Draws, ImagesAreOf
<1>6. ASSUME DOMAIN rest # {}
      PROVE  l \in SceneLocals /\ ImagesAreOf(l)
  <2>1. rest \in Images
    <3>1. worker[w].got \in [DOMAIN worker[w].got -> SceneRows]
          /\ DOMAIN worker[w].got \in HeldScenes
      BY <1>2, GotIsImages
    <3>2. DOMAIN rest \in HeldScenes
      BY <1>3, <1>6, <3>1 DEF HeldScenes
    <3>3. rest \in [DOMAIN rest -> SceneRows]
      BY <1>3, <3>1
    <3> QED
      BY <3>2, <3>3, RowsAreImages
  <2>2. l \in SceneLocals /\ l.op = worker[w].op /\ l.got = rest
    BY <1>2, <2>1 DEF SceneLocals
  <2>3. Draws(w)
    BY <1>5, <1>6
  <2> QED
    BY <1>2, <1>3, <2>2, <2>3 DEF ImagesAreOf, Draws
<1>7. worker' \in [Workers -> SceneLocals \cup {Idle}]
  BY <1>4, <1>6 DEF ScenesInv
<1>8. /\ ScenesTypeOK' /\ EditKeptUnlessCrossed'
      /\ \A v \in Workers \ {w}, m \in SceneLocals : m = worker[v] => ImagesAreOf(m)'
      /\ \A m \in SceneLocals : DOMAIN rest # {} /\ m = l => ImagesAreOf(m)'
  <2>1. CASE Draws(w)
    <3>1. edited' = edited /\ crossed' = crossed
      BY <1>1, <2>1
    <3>2. /\ ScenesTypeOK' /\ EditKeptUnlessCrossed'
          /\ \A m \in SceneLocals : ImagesAreOf(m) => ImagesAreOf(m)'
      BY <1>1, <1>2, <1>3, <2>1, <3>1, RenderingSaves
    <3>3. \A v \in Workers \ {w}, m \in SceneLocals : m = worker[v] => ImagesAreOf(m)
      BY IdleIsNone DEF ScenesInv
    <3>4. \A m \in SceneLocals : DOMAIN rest # {} /\ m = l => ImagesAreOf(m)
      BY <1>6
    <3> QED
      BY <3>2, <3>3, <3>4
  <2>2. CASE ~ Draws(w)
    BY <1>1, <1>2, <1>3, <1>5, <2>2, EditSaves
  <2> QED
    BY <2>1, <2>2
<1>9. ASSUME NEW v \in Workers, worker'[v] # Idle
      PROVE  ImagesAreOf(worker[v])'
  <2>1. PICK m \in SceneLocals : m = worker'[v]
    BY <1>7, <1>9
  <2>2. ImagesAreOf(m)'
    <3>1. CASE v = w
      <4>1. DOMAIN rest # {} /\ m = l
        BY <1>2, <1>4, <1>9, <2>1, <3>1 DEF ScenesInv
      <4> QED
        BY <1>8, <4>1
    <3>2. CASE v # w
      <4>1. m = worker[v]
        BY <1>4, <2>1, <3>2 DEF ScenesInv
      <4> QED
        BY <1>8, <3>2, <4>1
    <3> QED
      BY <3>1, <3>2
  <2> QED
    BY <2>1, <2>2 DEF ImagesAreOf
<1> QED
  BY <1>4, <1>7, <1>8, <1>9 DEF ScenesInv

-----------------------------------------------------------------------------
(* The invariant of the scenes.                                            *)

LEMMA ScenesInitHolds == RequestsInit /\ ScenesInit => ScenesInv
<1> SUFFICES ASSUME RequestsInit, ScenesInit
             PROVE  ScenesInv
  OBVIOUS
<1>1. ScenesTypeOK /\ EditKeptUnlessCrossed
  BY DEF ScenesInit, NoScene, ScenesTypeOK, SceneRows, EditKeptUnlessCrossed
<1> QED
  BY <1>1 DEF RequestsInit, ScenesInv

LEMMA ScenesNextKeeps == ScenesInv /\ [ScenesNext]_scenesSpecVars => ScenesInv'
<1> SUFFICES ASSUME ScenesInv, [ScenesNext]_scenesSpecVars
             PROVE  ScenesInv'
  OBVIOUS
<1>1. ASSUME NEW w \in Workers, ScenesStep(w)
      PROVE  ScenesInv'
  BY <1>1, MarkSceneKeeps, DrawImagesKeeps, SaveSceneKeeps, CutOffKeepsRest DEF ScenesStep
<1>2. ASSUME NEW i \in SceneIds, CreateStoryBoardScene(i)
      PROVE  ScenesInv'
  BY <1>2, CreateKeeps
<1>3. CASE DeleteStoryBoardSence
  <2>1. worker' = worker /\ served' = served + 1 /\ UNCHANGED scenes
    BY <1>3 DEF DeleteStoryBoardSence, Serves
  <2>2. served' \in Nat
    BY <2>1 DEF ScenesInv
  <2> QED
    BY <2>1, <2>2 DEF ScenesInv, ScenesTypeOK, EditKeptUnlessCrossed, ImagesAreOf, scenes
<1>4. ASSUME NEW w \in Workers, NEW u \in Users, NEW i \in SceneIds,
             NEW edit \in [prompt : {0, served + 1}, images : {0, scene[i].images},
                           status : {-1, 0, 1}],
             UpdateStoryBoardSence(w, u, i, edit)
      PROVE  ScenesInv'
  <2>1. served + 1 \in Nat /\ scene[i] \in SceneRows
    BY DEF ScenesInv, ScenesTypeOK
  <2>2. edit \in SceneRows
    BY <2>1 DEF SceneRows
  <2> QED
    BY <1>4, <2>2, UpdateStoryBoardSenceKeeps
<1>5. ASSUME NEW w \in Workers, NEW u \in Users, NEW i \in SceneIds,
             RenderStoryBoardSence(w, u, i)
      PROVE  ScenesInv'
  <2>1. /\ {i} \in SUBSET SceneIds /\ {i} # {} /\ \A j \in {i} : Shown(j)
        /\ "RenderStoryBoardSence" \in SceneOps \ {"UpdateStoryBoardSence"}
        /\ Begins(w, u, "RenderStoryBoardSence", None, "MarkScene",
                  [j \in {i} |-> scene[j]])
        /\ UNCHANGED scenes
    BY <1>5 DEF RenderStoryBoardSence, SceneOps
  <2> QED
    BY <2>1, RenderingStarts
<1>6. ASSUME NEW w \in Workers, NEW u \in Users, NEW chosen \in SUBSET SceneIds,
             RenderStoryBoardSences(w, u, chosen)
      PROVE  ScenesInv'
  BY <1>6, RenderingStarts DEF RenderStoryBoardSences, SceneOps
<1>7. CASE UNCHANGED scenesSpecVars
  BY <1>7 DEF scenesSpecVars, requestVars, scenes, ScenesInv, ScenesTypeOK,
              EditKeptUnlessCrossed, ImagesAreOf
<1>8. CASE \E w \in Workers, u \in Users :
              RenderStoryBoardSences(w, u, {i \in SceneIds : Shown(i)})
  BY <1>6, <1>8
<1> QED
  BY <1>1, <1>2, <1>3, <1>4, <1>5, <1>7, <1>8 DEF ScenesNext

\* Every row that a rendering holds has the prompt of the last edit, unless that
\* edit was saved while a rendering held the scene.
THEOREM ScenesInvariance == ScenesSpec => []ScenesInv
<1>1. RequestsInit /\ ScenesInit => ScenesInv
  BY ScenesInitHolds
<1>2. ScenesInv /\ [ScenesNext]_scenesSpecVars => ScenesInv'
  BY ScenesNextKeeps
<1> QED
  BY <1>1, <1>2, PTL DEF ScenesSpec, scenesSpecVars

\* Scenes have rows of their type.
THEOREM ScenesTypeCorrect == ScenesSpec => []ScenesTypeOK
<1>1. ScenesInv => ScenesTypeOK
  BY DEF ScenesInv
<1> QED
  BY <1>1, ScenesInvariance, PTL

\* An edit stays, unless a rendering held the scene when it was saved.
THEOREM EditsAreKept == ScenesSpec => []EditKeptUnlessCrossed
<1>1. ScenesInv => EditKeptUnlessCrossed
  BY DEF ScenesInv
<1> QED
  BY <1>1, ScenesInvariance, PTL

-----------------------------------------------------------------------------
(* Hidden scenes.                                                          *)

LEMMA HiddenStep ==
    ASSUME ScenesInv, [ScenesNext]_scenesSpecVars, NEW h \in SceneIds,
           scene[h].status = -1
    PROVE  scene'[h] = scene[h]
<1>1. scene \in [SceneIds -> SceneRows] /\ ~ Shown(h)
  BY HiddenIsNotShown DEF ScenesInv, ScenesTypeOK
<1>2. ASSUME NEW w \in Workers, ScenesStep(w)
      PROVE  scene'[h] = scene[h]
  <2>1. CASE DrawImages(w) \/ (CutOff(w) /\ UNCHANGED scenes)
    BY <2>1 DEF DrawImages, scenes
  <2>2. CASE MarkScene(w) \/ SaveScene(w)
    <3>1. \/ UpdateStoryBoardScene(NextScene(w), worker[w].got[NextScene(w)])
          \/ scene' = scene
      BY <2>2 DEF MarkScene, SaveScene
    <3>2. worker[w] \in SceneLocals
      BY <2>2 DEF MarkScene, SaveScene, ScenesInv, Idle
    <3>3. NextScene(w) \in SceneIds /\ worker[w].got[NextScene(w)] \in SceneRows
      BY <3>2, NextSceneIsHeld, GotIsRow
    <3> QED
      BY <1>1, <3>1, <3>3, UpdateEffect
  <2> QED
    BY <1>2, <2>1, <2>2 DEF ScenesStep
<1>3. ASSUME NEW i \in SceneIds, CreateStoryBoardScene(i)
      PROVE  scene'[h] = scene[h]
  <2>1. i # h
    BY <1>3 DEF CreateStoryBoardScene, NoScene
  <2> QED
    BY <1>1, <1>3, <2>1 DEF CreateStoryBoardScene
<1>4. CASE UNCHANGED scenesSpecVars
  BY <1>4 DEF scenesSpecVars, scenes
<1> QED
  BY <1>2, <1>3, <1>4 DEF ScenesNext, DeleteStoryBoardSence, UpdateStoryBoardSence,
     RenderStoryBoardSence, RenderStoryBoardSences, scenes

\* No edit or rendering under way shows a hidden scene again.
THEOREM HiddenIsForGood == ScenesSpec => HiddenStaysHidden
<1>1. ScenesInv /\ [ScenesNext]_scenesSpecVars
        => [\A i \in SceneIds : scene[i].status = -1 => scene'[i] = scene[i]]_scenes
  BY HiddenStep
<1> QED
  BY <1>1, ScenesInvariance, PTL DEF ScenesSpec, HiddenStaysHidden, scenesSpecVars

-----------------------------------------------------------------------------
(* Rendering: what is generated for a story, a board or a role.            *)

renderingSpecVars == <<requestVars, rendering>>

Gens == [op : GenOps, origin : Nat, board : Nat, status : {0, 1}, filled : BOOLEAN]

RenderedSubjects == [story : Nat, board : Nat, role : Nat]

GenLocals ==
    [pc : {"FindGens", "CreateStoryGen", "AskModel", "UpdateStoryGen"},
     user : Users, op : GenOps, on : RenderedSubjects, got : Nat \cup {None}]

\* A request that writes the story s.
Writing(w, s) == worker[w].op = "RenderStory" /\ worker[w].on.story = s

\* Between the look for an earlier row and the call of the model nobody writes
\* the story, and the row is there before the model is asked.
Serving(w) ==
    /\ worker[w] # Idle /\ (worker[w].op = "RenderStory" \/ worker[w].pc = "FindGens")
          => worker[w].on.story \in StoryIds
    /\ worker[w] # Idle /\ worker[w].op = "RenderStory" =>
          /\ worker[w].pc \in {"AskModel", "UpdateStoryGen"} => Rendered(worker[w].on.story)
          /\ \A s \in StoryIds \ unsure :
                Writing(w, s) /\ worker[w].pc \in {"CreateStoryGen", "AskModel"}
                    => writes[s] = 0
    /\ worker[w] # Idle /\ worker[w].pc = "UpdateStoryGen" => worker[w].got \in DOMAIN gen
    /\ worker[w] # Idle /\ worker[w].pc = "AskModel" /\ worker[w].op # "RenderStoryRole"
          => worker[w].got \in DOMAIN gen

\* Of a story whose rows were not overlooked there is one writer at most.
AloneWriting ==
    \A s \in StoryIds \ unsure : \A v, w \in Busy :
        Writing(v, s) /\ Writing(w, s) => v = w

RowsInv == \A i \in DOMAIN gen : gen[i].status = 1 => gen[i].board = 0

WritesInv ==
    \A s \in StoryIds :
        /\ writes[s] > 0 => Rendered(s)
        /\ s \notin unsure => writes[s] <= 1

RenderingInv ==
    /\ RenderingTypeOK
    /\ worker \in [Workers -> GenLocals \cup {Idle}]
    /\ RowsInv
    /\ WritesInv
    /\ AloneWriting
    /\ \A w \in Workers : Serving(w)

-----------------------------------------------------------------------------
(* Rows.                                                                   *)

\* No row that has the status of a rendering under way is one of a board.
LEMMA NewGenIsRow ==
    ASSUME NEW op \in GenOps, NEW on \in RenderedSubjects
    PROVE  /\ NewGen(op, on) \in Gens
           /\ NewGen(op, on).status = 1 => NewGen(op, on).board = 0
           /\ op = "RenderStory" => /\ NewGen(op, on).origin = on.story
                                    /\ NewGen(op, on).board = 0
                                    /\ NewGen(op, on).status = 1
<1>1. CASE op = "RenderStory"
  BY <1>1 DEF NewGen, Gen, Gens, GenOps, RenderedSubjects
<1>2. CASE op \in {"RenderStoryboard", "ContinueRenderStory", "GenStoryboardImages"}
  BY <1>2 DEF NewGen, Gen, Gens, GenOps, RenderedSubjects
<1>3. CASE op = "InitRenderStory"
  BY <1>3 DEF NewGen, Gen, Gens, GenOps, RenderedSubjects
<1>4. CASE op \in {"RenderStoryRoleDetail", "RenderStoryRole", "RenderStoryRoleContinuously"}
  BY <1>4 DEF NewGen, Gen, Gens, GenOps, RenderedSubjects
<1> QED
  BY <1>1, <1>2, <1>3, <1>4 DEF GenOps

\* Rows are kept: they stay where they are, with the origin, the board and the
\* status they were inserted with.
RowsKept ==
    \A i \in DOMAIN gen :
        /\ i \in DOMAIN gen'
        /\ gen'[i].origin = gen[i].origin
        /\ gen'[i].board = gen[i].board
        /\ gen'[i].status = gen[i].status

LEMMA RenderedStays ==
    ASSUME RowsKept, NEW s
    PROVE  Rendered(s) => Rendered(s)'
BY DEF RowsKept, Rendered, GensByStory

LEMMA InsertKeepsRows ==
    ASSUME gen \in Seq(Gens), NEW r \in Gens, gen' = Append(gen, r)
    PROVE  /\ gen' \in Seq(Gens) /\ RowsKept
           /\ DOMAIN gen' = DOMAIN gen \cup {Len(gen) + 1}
           /\ gen'[Len(gen) + 1] = r
<1>1. gen' \in Seq(Gens) /\ DOMAIN gen' = 1 .. Len(gen) + 1 /\ DOMAIN gen = 1 .. Len(gen)
  OBVIOUS
<1>2. \A i \in 1 .. Len(gen) : gen'[i] = gen[i]
  OBVIOUS
<1>3. gen'[Len(gen) + 1] = r
  OBVIOUS
<1> QED
  BY <1>1, <1>2, <1>3 DEF RowsKept

LEMMA FillKeepsRows ==
    ASSUME gen \in Seq(Gens), NEW i \in DOMAIN gen,
           gen' = [gen EXCEPT ![i].filled = TRUE]
    PROVE  gen' \in Seq(Gens) /\ RowsKept /\ DOMAIN gen' = DOMAIN gen
<1>1. gen[i] \in Gens
  OBVIOUS
<1>2. [gen[i] EXCEPT !.filled = TRUE] \in Gens
  BY <1>1 DEF Gens
<1>3. gen' = [gen EXCEPT ![i] = [gen[i] EXCEPT !.filled = TRUE]]
  OBVIOUS
<1>4. gen' \in Seq(Gens) /\ DOMAIN gen' = DOMAIN gen
  BY <1>2, <1>3
<1> QED
  BY <1>1, <1>3, <1>4 DEF RowsKept, Gens

-----------------------------------------------------------------------------
(* Steps.                                                                  *)

\* What a request is worth after a step of others, or after its own step to l,
\* while no story is written and none gets a second writer.
LEMMA ServingStays ==
    ASSUME RenderingInv, RowsKept, NEW w \in Workers, worker'[w] = worker[w],
           writes' = writes, unsure \subseteq unsure'
    PROVE  Serving(w)'
<1>1. \A s : Rendered(s) => Rendered(s)'
  BY RenderedStays
<1>2. DOMAIN gen \subseteq DOMAIN gen'
  BY DEF RowsKept
<1>3. Serving(w)
  BY DEF RenderingInv
<1>4. worker'[w] # Idle /\ worker'[w].op = "RenderStory" =>
          /\ worker'[w].pc \in {"AskModel", "UpdateStoryGen"} => Rendered(worker[w].on.story)'
          /\ \A s \in StoryIds \ unsure' :
                Writing(w, s)' /\ worker'[w].pc \in {"CreateStoryGen", "AskModel"}
                    => writes'[s] = 0
  BY <1>1, <1>3 DEF Serving, Writing
<1>5. /\ worker'[w] # Idle /\ (worker'[w].op = "RenderStory" \/ worker'[w].pc = "FindGens")
            => worker'[w].on.story \in StoryIds
      /\ worker'[w] # Idle /\ worker'[w].pc = "UpdateStoryGen" => worker'[w].got \in DOMAIN gen'
      /\ worker'[w] # Idle /\ worker'[w].pc = "AskModel" /\ worker'[w].op # "RenderStoryRole"
          => worker'[w].got \in DOMAIN gen'
  BY <1>2, <1>3 DEF Serving
<1> QED
  BY <1>4, <1>5 DEF Serving

\* A step that inserts no row and asks for no story leaves what is written.
LEMMA WritesStay ==
    ASSUME RenderingInv, RowsKept, writes' = writes, unsure \subseteq unsure'
    PROVE  WritesInv'
BY RenderedStays DEF RenderingInv, WritesInv

\* Whoever does not become a writer leaves the writers as few as they were.
LEMMA WritingStaysAlone ==
    ASSUME RenderingInv, NEW w \in Workers, NEW l,
           worker' = [worker EXCEPT ![w] = l],
           l = Idle \/ (worker[w] # Idle /\ l.op = worker[w].op /\ l.on = worker[w].on)
                    \/ l.op # "RenderStory",
           unsure \subseteq unsure'
    PROVE  AloneWriting'
<1>1. \A v \in Workers, s \in StoryIds :
         v \in Busy' /\ Writing(v, s)' => v \in Busy /\ Writing(v, s)
  BY DEF RenderingInv, Busy, Writing
<1>2. Busy' \subseteq Workers
  BY DEF Busy
<1> QED
  BY <1>1, <1>2 DEF RenderingInv, AloneWriting

\* A request that ends, or a step that changes no table.
LEMMA QuietStep ==
    ASSUME RenderingInv, NEW w \in Workers, NEW l \in GenLocals \cup {Idle},
           worker' = [worker EXCEPT ![w] = l], UNCHANGED <<gen, writes>>,
           unsure \subseteq unsure', unsure' \subseteq StoryIds, AloneWriting',
           Serving(w)'
    PROVE  RenderingInv'
<1>1. RowsKept
  BY DEF RowsKept
<1>2. RenderingTypeOK' /\ RowsInv'
  BY DEF RenderingInv, RenderingTypeOK, RowsInv
<1>3. worker' \in [Workers -> GenLocals \cup {Idle}]
  BY DEF RenderingInv
<1>4. WritesInv'
  BY <1>1, WritesStay
<1>5. \A v \in Workers : Serving(v)'
  <2> SUFFICES ASSUME NEW v \in Workers, v # w
               PROVE  Serving(v)'
    OBVIOUS
  <2>1. worker'[v] = worker[v]
    BY DEF RenderingInv
  <2> QED
    BY <1>1, <2>1, ServingStays
<1> QED
  BY <1>2, <1>3, <1>4, <1>5 DEF RenderingInv

LEMMA EndStep ==
    ASSUME RenderingInv, NEW w \in Workers, worker' = [worker EXCEPT ![w] = Idle],
           UNCHANGED rendering
    PROVE  RenderingInv'
<1>1. worker'[w] = Idle
  BY DEF RenderingInv
<1>2. Serving(w)'
  BY <1>1 DEF Serving
<1>3. AloneWriting'
  BY WritingStaysAlone DEF rendering
<1>4. unsure \subseteq unsure' /\ unsure' \subseteq StoryIds
  BY DEF RenderingInv, RenderingTypeOK, rendering
<1> QED
  BY <1>2, <1>3, <1>4, QuietStep DEF rendering

\* A request that writes no story.
LEMMA BeginStep ==
    ASSUME RenderingInv, NEW w \in Workers, NEW u \in Users,
           NEW op \in GenOps \ {"RenderStory"}, NEW on \in RenderedSubjects,
           NEW pc \in {"CreateStoryGen", "AskModel"},
           pc = "AskModel" => op = "RenderStoryRole",
           Begins(w, u, op, on, pc, None), UNCHANGED rendering
    PROVE  RenderingInv'
<1> DEFINE l == [pc |-> pc, user |-> u, op |-> op, on |-> on, got |-> None]
<1>1. worker' = [worker EXCEPT ![w] = l] /\ worker[w] = Idle
  BY DEF Begins, Takes
<1>2. l \in GenLocals
  BY DEF GenLocals
<1>3. worker'[w] = l
  BY <1>1 DEF RenderingInv
<1>4. Serving(w)'
  BY <1>3 DEF Serving
<1>5. AloneWriting'
  BY <1>1, WritingStaysAlone DEF rendering
<1>6. unsure \subseteq unsure' /\ unsure' \subseteq StoryIds
  BY DEF RenderingInv, RenderingTypeOK, rendering
<1> QED
  BY <1>1, <1>2, <1>4, <1>5, <1>6, QuietStep DEF rendering

\* A second writer of the story may overlook the row of the first.
LEMMA RenderStoryKeeps ==
    ASSUME RenderingInv, NEW w \in Workers, NEW u \in Users, NEW s \in StoryIds,
           RenderStory(w, u, s)
    PROVE  RenderingInv'
<1> DEFINE l == [pc |-> "FindGens", user |-> u, op |-> "RenderStory",
                 on |-> On(s, 0, 0), got |-> None]
<1>1. /\ worker' = [worker EXCEPT ![w] = l] /\ worker[w] = Idle
      /\ unsure' = IF \E v \in Busy : Writing(v, s) THEN unsure \cup {s}
                      ELSE unsure
      /\ UNCHANGED <<gen, writes>>
  BY DEF RenderStory, Begins, Takes, Writing
<1>2. s \in Nat /\ On(s, 0, 0) \in RenderedSubjects /\ On(s, 0, 0).story = s
  BY RenderingAssumption DEF On, RenderedSubjects
<1>3. l \in GenLocals
  BY <1>2 DEF GenLocals, GenOps
<1>4. worker'[w] = l /\ \A v \in Workers \ {w} : worker'[v] = worker[v]
  BY <1>1 DEF RenderingInv
<1>5. Serving(w)'
  BY <1>2, <1>4 DEF Serving
<1>6. unsure \subseteq unsure' /\ unsure' \subseteq StoryIds
  BY <1>1 DEF RenderingInv, RenderingTypeOK
<1>7. ASSUME NEW x \in StoryIds \ unsure', NEW v1 \in Busy', NEW v2 \in Busy',
             Writing(v1, x)', Writing(v2, x)'
      PROVE  v1 = v2
  <2>1. v1 \in Workers /\ v2 \in Workers /\ x \notin unsure
    BY <1>6 DEF Busy
  <2>2. CASE x = s
    <3>1. ~ \E v \in Busy : Writing(v, s)
      BY <1>1, <1>7, <2>2
    <3>2. \A v \in Workers \ {w} : ~ (v \in Busy' /\ Writing(v, s)')
      BY <1>4, <3>1 DEF Busy, Writing
    <3> QED
      BY <1>7, <2>1, <2>2, <3>2
  <2>3. CASE x # s
    <3>1. ~ Writing(w, x)'
      BY <1>2, <1>4, <2>3 DEF Writing
    <3>2. v1 # w /\ v2 # w
      BY <1>7, <3>1
    <3>3. v1 \in Busy /\ v2 \in Busy /\ Writing(v1, x) /\ Writing(v2, x)
      BY <1>4, <1>7, <2>1, <3>2 DEF Busy, Writing
    <3> QED
      BY <2>1, <3>3 DEF RenderingInv, AloneWriting
  <2> QED
    BY <2>2, <2>3
<1>8. AloneWriting'
  BY <1>7 DEF AloneWriting
<1> QED
  BY <1>1, <1>3, <1>5, <1>6, <1>8, QuietStep

\* A request is sent to the model only when no row of its story was found, so
\* that nothing was written yet, or when the look-up failed.
LEMMA FindGensKeeps ==
    ASSUME RenderingInv, NEW w \in Workers, FindGens(w)
    PROVE  RenderingInv'
<1> DEFINE l == [worker[w] EXCEPT !.pc = "CreateStoryGen"]
           z == worker[w].on.story
<1>1. worker[w].pc = "FindGens" /\ UNCHANGED <<gen, writes>>
  BY DEF FindGens
<1>2. worker[w] \in GenLocals /\ worker[w] # Idle
  BY <1>1 DEF RenderingInv, Idle
<1>3. /\ l \in GenLocals /\ l.op = worker[w].op /\ l.on = worker[w].on
      /\ l.pc = "CreateStoryGen"
  BY <1>2 DEF GenLocals
<1>4. unsure \subseteq StoryIds /\ z \in StoryIds
  BY <1>1, <1>2 DEF RenderingInv, RenderingTypeOK, Serving
<1>5. ASSUME worker' = [worker EXCEPT ![w] = l],
             unsure \subseteq unsure', unsure' \subseteq StoryIds,
             \A s \in StoryIds \ unsure' : Writing(w, s) => writes[s] = 0
      PROVE  RenderingInv'
  <2>1. worker'[w] = l
    BY <1>5 DEF RenderingInv
  <2>2. \A s : Writing(w, s)' => Writing(w, s)
    BY <1>3, <2>1 DEF Writing
  <2>3. Serving(w)'
    BY <1>1, <1>3, <1>4, <1>5, <2>1, <2>2 DEF Serving
  <2>4. AloneWriting'
    BY <1>2, <1>3, <1>5, WritingStaysAlone
  <2> QED
    BY <1>1, <1>3, <1>5, <2>3, <2>4, QuietStep
<1>6. CASE Rendered(z) /\ Goes(w, "idle") /\ UNCHANGED unsure
  <2>1. worker' = [worker EXCEPT ![w] = Idle]
    BY <1>6 DEF Goes, GoesWith, After
  <2> QED
    BY <1>1, <1>6, <2>1, EndStep DEF rendering
<1>7. CASE ~ Rendered(z) /\ Goes(w, "CreateStoryGen") /\ UNCHANGED unsure
  <2>1. worker' = [worker EXCEPT ![w] = l]
    BY <1>2, <1>7 DEF Goes, GoesWith, After, GenLocals
  <2>2. \A s \in StoryIds : writes[s] \in Nat
    BY DEF RenderingInv, RenderingTypeOK
  <2>3. \A s \in StoryIds : Writing(w, s) => writes[s] = 0
    BY <1>7, <2>2 DEF Writing, RenderingInv, WritesInv
  <2> QED
    BY <1>4, <1>5, <1>7, <2>1, <2>3
<1>8. CASE Logs(w, "CreateStoryGen") /\ unsure' = unsure \cup {z}
  <2>1. worker' = [worker EXCEPT ![w] = l]
    BY <1>2, <1>8 DEF Logs, After, GenLocals
  <2>2. \A s \in StoryIds \ unsure' : ~ Writing(w, s)
    BY <1>8 DEF Writing
  <2> QED
    BY <1>4, <1>5, <1>8, <2>1, <2>2
<1> QED
  BY <1>6, <1>7, <1>8 DEF FindGens

LEMMA CreateStoryGenKeeps ==
    ASSUME RenderingInv, NEW w \in Workers, CreateStoryGen(w)
    PROVE  RenderingInv'
<1> DEFINE r == NewGen(worker[w].op, worker[w].on)
           pc == IF worker[w].op = "RenderStoryRole" THEN "UpdateStoryGen" ELSE "AskModel"
           l == [worker[w] EXCEPT !.pc = pc, !.got = Len(gen) + 1]
<1>1. /\ worker[w].pc = "CreateStoryGen" /\ gen' = Append(gen, r)
      /\ writes' = writes /\ unsure' = unsure
  BY DEF CreateStoryGen
<1>2. worker[w] \in GenLocals /\ worker[w] # Idle
  BY <1>1 DEF RenderingInv, Idle
<1>3. worker' = [worker EXCEPT ![w] = l]
  BY DEF CreateStoryGen, GoesWith, After
<1>4. gen \in Seq(Gens)
  BY DEF RenderingInv, RenderingTypeOK, Gens
<1>5. worker[w].op \in GenOps /\ worker[w].on \in RenderedSubjects
  BY <1>2 DEF GenLocals
<1>6. /\ r \in Gens
      /\ r.status = 1 => r.board = 0
      /\ worker[w].op = "RenderStory" =>
            r.origin = worker[w].on.story /\ r.board = 0 /\ r.status = 1
  BY <1>5, NewGenIsRow
<1>7. /\ gen' \in Seq(Gens) /\ RowsKept
      /\ DOMAIN gen' = DOMAIN gen \cup {Len(gen) + 1}
      /\ gen'[Len(gen) + 1] = r
  BY <1>1, <1>4, <1>6, InsertKeepsRows
<1>8. RenderingTypeOK'
  BY <1>1, <1>7 DEF RenderingInv, RenderingTypeOK, Gens
<1>9. RowsInv'
  BY <1>6, <1>7 DEF RenderingInv, RowsInv, RowsKept
<1>10. Len(gen) + 1 \in Nat
  BY <1>4
<1>11. l \in GenLocals
  BY <1>2, <1>10 DEF GenLocals
<1>12. worker' \in [Workers -> GenLocals \cup {Idle}]
  BY <1>3, <1>11 DEF RenderingInv
<1>13. WritesInv'
  BY <1>1, <1>7, WritesStay
<1>14. /\ worker'[w] = l /\ l.op = worker[w].op /\ l.on = worker[w].on
       /\ l.pc = pc /\ l.got = Len(gen) + 1
  BY <1>2, <1>3 DEF RenderingInv, GenLocals
<1>15. AloneWriting'
  BY <1>1, <1>2, <1>3, <1>14, WritingStaysAlone
<1>16. Serving(w)'
  <2>1. worker[w].op = "RenderStory" => Rendered(worker[w].on.story)'
    <3>1. ASSUME worker[w].op = "RenderStory"
          PROVE  Len(gen) + 1 \in GensByStory(worker[w].on.story)'
      BY <1>6, <1>7, <1>14, <3>1 DEF GensByStory
    <3> QED
      BY <3>1 DEF Rendered
  <2>2. worker'[w].got \in DOMAIN gen'
    BY <1>7, <1>14
  <2>3. \A s \in StoryIds \ unsure : Writing(w, s) => writes[s] = 0
    BY <1>1, <1>2 DEF RenderingInv, Serving, Writing
  <2>4. \A s : Writing(w, s)' <=> Writing(w, s)
    BY <1>14 DEF Writing
  <2>5. worker[w].op = "RenderStory" => worker[w].on.story \in StoryIds
    BY <1>2 DEF RenderingInv, Serving
  <2> QED
    BY <1>1, <1>14, <2>1, <2>2, <2>3, <2>4, <2>5 DEF Serving
<1>17. \A v \in Workers : Serving(v)'
  <2> SUFFICES ASSUME NEW v \in Workers, v # w
               PROVE  Serving(v)'
    BY <1>16
  <2>1. worker'[v] = worker[v]
    BY <1>3 DEF RenderingInv
  <2> QED
    BY <1>1, <1>7, <2>1, ServingStays
<1> QED
  BY <1>8, <1>9, <1>12, <1>13, <1>15, <1>17 DEF RenderingInv

\* The model writes a story for the one request that found no row of it.
LEMMA AskModelKeeps ==
    ASSUME RenderingInv, NEW w \in Workers, AskModel(w)
    PROVE  RenderingInv'
<1> DEFINE z == worker[w].on.story
           pc == IF worker[w].op = "RenderStoryRole" THEN "CreateStoryGen"
                 ELSE "UpdateStoryGen"
           l == [worker[w] EXCEPT !.pc = pc, !.got = worker[w].got]
<1>1. /\ worker[w].pc = "AskModel" /\ gen' = gen /\ unsure' = unsure
      /\ writes' = IF worker[w].op = "RenderStory" THEN [writes EXCEPT ![z] = @ + 1]
                    ELSE writes
  BY DEF AskModel
<1>2. worker[w] \in GenLocals /\ worker[w] # Idle
  BY <1>1 DEF RenderingInv, Idle
<1>3. worker' = [worker EXCEPT ![w] = l]
  BY DEF AskModel, Goes, GoesWith, After
<1>4. /\ l \in GenLocals /\ l.op = worker[w].op /\ l.on = worker[w].on
      /\ l.pc = pc /\ l.got = worker[w].got
  BY <1>2 DEF GenLocals
<1>5. worker'[w] = l /\ \A v \in Workers \ {w} : worker'[v] = worker[v]
  BY <1>3 DEF RenderingInv
<1>6. worker' \in [Workers -> GenLocals \cup {Idle}]
  BY <1>3, <1>4 DEF RenderingInv
<1>7. AloneWriting'
  BY <1>1, <1>2, <1>3, <1>4, WritingStaysAlone
<1>8. \A s \in StoryIds : writes[s] \in Nat
  BY DEF RenderingInv, RenderingTypeOK
<1>9. \A s \in StoryIds :
         writes'[s] = IF Writing(w, s) THEN writes[s] + 1 ELSE writes[s]
  BY <1>1 DEF Writing, RenderingInv, RenderingTypeOK
<1>10. writes' \in [StoryIds -> Nat]
  <2>1. writes \in [StoryIds -> Nat]
    BY DEF RenderingInv, RenderingTypeOK
  <2>2. CASE worker[w].op = "RenderStory"
    <3>1. writes' = [writes EXCEPT ![z] = writes[z] + 1]
      BY <1>1, <2>2
    <3>2. z \in StoryIds => writes[z] + 1 \in Nat
      BY <1>8
    <3>3. \A s \in StoryIds : writes'[s] \in Nat
      BY <1>8, <2>1, <3>1, <3>2
    <3>4. writes' = [s \in StoryIds |-> writes'[s]]
      BY <2>1, <3>1
    <3> QED
      BY <3>3, <3>4
  <2>3. CASE worker[w].op # "RenderStory"
    BY <1>1, <2>1, <2>3
  <2> QED
    BY <2>2, <2>3
<1>11. RenderingTypeOK' /\ RowsInv'
  BY <1>1, <1>10 DEF RenderingInv, RenderingTypeOK, RowsInv
<1>12. \A s : Rendered(s)' <=> Rendered(s)
  BY <1>1 DEF Rendered, GensByStory
<1>13. worker[w].op = "RenderStory" => Rendered(z)
  BY <1>1, <1>2 DEF RenderingInv, Serving
<1>14. \A s \in StoryIds \ unsure : Writing(w, s) => writes[s] = 0
  BY <1>1, <1>2 DEF RenderingInv, Serving, Writing
<1>15. ASSUME NEW s \in StoryIds
       PROVE  /\ writes'[s] > 0 => Rendered(s)'
              /\ s \notin unsure' => writes'[s] <= 1
  <2>1. CASE Writing(w, s)
    BY <1>1, <1>9, <1>12, <1>13, <1>14, <2>1 DEF Writing
  <2>2. CASE ~ Writing(w, s)
    BY <1>1, <1>9, <1>12, <2>2 DEF RenderingInv, WritesInv
  <2> QED
    BY <2>1, <2>2
<1>16. WritesInv'
  BY <1>15 DEF WritesInv
<1>17. Serving(w)'
  <2>1. /\ worker[w].op # "RenderStoryRole" => worker[w].got \in DOMAIN gen
        /\ worker[w].op = "RenderStory" => z \in StoryIds
    BY <1>1, <1>2 DEF RenderingInv, Serving
  <2> QED
    BY <1>1, <1>4, <1>5, <1>12, <1>13, <2>1 DEF Serving
<1>18. ASSUME NEW v \in Workers, v # w
       PROVE  Serving(v)'
  <2>1. Serving(v) /\ worker'[v] = worker[v]
    BY <1>5, <1>18 DEF RenderingInv
  <2>2. ASSUME worker[v] # Idle, NEW s \in StoryIds \ unsure, Writing(v, s),
               worker[v].pc \in {"CreateStoryGen", "AskModel"}
        PROVE  writes'[s] = 0
    <3>1. writes[s] = 0
      BY <2>1, <2>2 DEF Serving, Writing
    <3>2. ~ Writing(w, s)
      BY <1>2, <1>18, <2>2 DEF RenderingInv, AloneWriting, Busy
    <3> QED
      BY <1>9, <3>1, <3>2
  <2> QED
    BY <1>1, <1>12, <2>1, <2>2 DEF Serving, Writing
<1> QED
  BY <1>6, <1>7, <1>11, <1>16, <1>17, <1>18 DEF RenderingInv

LEMMA UpdateStoryGenKeeps ==
    ASSUME RenderingInv, NEW w \in Workers, UpdateStoryGen(w)
    PROVE  RenderingInv'
<1>1. /\ worker[w].pc = "UpdateStoryGen"
      /\ gen' = [gen EXCEPT ![worker[w].got].filled = TRUE]
      /\ writes' = writes /\ unsure' = unsure
      /\ worker' = [worker EXCEPT ![w] = Idle]
  BY DEF UpdateStoryGen, Ends, Goes, GoesWith, After
<1>2. worker[w].got \in DOMAIN gen
  BY <1>1 DEF RenderingInv, Serving, Idle
<1>3. gen \in Seq(Gens)
  BY DEF RenderingInv, RenderingTypeOK, Gens
<1>4. gen' \in Seq(Gens) /\ RowsKept /\ DOMAIN gen' = DOMAIN gen
  BY <1>1, <1>2, <1>3, FillKeepsRows
<1>5. RenderingTypeOK'
  BY <1>1, <1>4 DEF RenderingInv, RenderingTypeOK, Gens
<1>6. RowsInv'
  BY <1>4 DEF RenderingInv, RowsInv, RowsKept
<1>7. worker' \in [Workers -> GenLocals \cup {Idle}] /\ worker'[w] = Idle
  BY <1>1 DEF RenderingInv
<1>8. WritesInv'
  BY <1>1, <1>4, WritesStay
<1>9. AloneWriting'
  BY <1>1, WritingStaysAlone
<1>10. \A v \in Workers : Serving(v)'
  <2> SUFFICES ASSUME NEW v \in Workers, v # w
               PROVE  Serving(v)'
    BY <1>7 DEF Serving
  <2>1. worker'[v] = worker[v]
    BY <1>1 DEF RenderingInv
  <2> QED
    BY <1>1, <1>4, <2>1, ServingStays
<1> QED
  BY <1>5, <1>6, <1>7, <1>8, <1>9, <1>10 DEF RenderingInv

-----------------------------------------------------------------------------
(* The invariant of the renderings.                                        *)

LEMMA RenderingInitHolds == RequestsInit /\ RenderingInit => RenderingInv
<1> SUFFICES ASSUME RequestsInit, RenderingInit
             PROVE  RenderingInv
  OBVIOUS
<1>1. RenderingTypeOK
  BY DEF RenderingInit, RenderingTypeOK
<1>2. RowsInv /\ WritesInv
  BY DEF RenderingInit, RowsInv, WritesInv
<1>3. worker = [w \in Workers |-> Idle]
  BY DEF RequestsInit
<1>4. AloneWriting
  BY <1>3 DEF AloneWriting, Busy
<1>5. \A w \in Workers : Serving(w)
  BY <1>3 DEF Serving
<1> QED
  BY <1>1, <1>2, <1>3, <1>4, <1>5 DEF RenderingInv

LEMMA RenderingNextKeeps == RenderingInv /\ [RenderingNext]_renderingSpecVars => RenderingInv'
<1> SUFFICES ASSUME RenderingInv, [RenderingNext]_renderingSpecVars
             PROVE  RenderingInv'
  OBVIOUS
<1>1. ASSUME NEW w \in Workers, RenderingStep(w)
      PROVE  RenderingInv'
  <2>1. CASE RejectAnswer(w) \/ (CutOff(w) /\ UNCHANGED rendering)
    <3>1. worker' = [worker EXCEPT ![w] = Idle] /\ UNCHANGED rendering
      BY <2>1 DEF RejectAnswer, Ends, Goes, GoesWith, CutOff, Logs, After
    <3> QED
      BY <3>1, EndStep
  <2> QED
    BY <1>1, <2>1, FindGensKeeps, CreateStoryGenKeeps, AskModelKeeps,
       UpdateStoryGenKeeps DEF RenderingStep
<1>2. ASSUME NEW w \in Workers, NEW u \in Users, NEW s \in StoryIds,
             \/ RenderStory(w, u, s)
             \/ InitRenderStory(w, u, s)
             \/ \E b \in BoardIds : \/ RenderStoryboard(w, u, s, b)
                                  \/ ContinueRenderStory(w, u, s, b)
                                  \/ GenStoryboardImages(w, u, s, b)
      PROVE  RenderingInv'
  <2>1. CASE RenderStory(w, u, s)
    BY <2>1, RenderStoryKeeps
  <2>2. CASE InitRenderStory(w, u, s)
    <3>1. On(s, 0, 0) \in RenderedSubjects /\ "InitRenderStory" \in GenOps \ {"RenderStory"}
      BY RenderingAssumption DEF On, RenderedSubjects, GenOps
    <3> QED
      BY <2>2, <3>1, BeginStep DEF InitRenderStory
  <2>3. ASSUME NEW b \in BoardIds,
               \/ RenderStoryboard(w, u, s, b)
               \/ ContinueRenderStory(w, u, s, b)
               \/ GenStoryboardImages(w, u, s, b)
        PROVE  RenderingInv'
    <3>1. On(s, b, 0) \in RenderedSubjects
      BY RenderingAssumption DEF On, RenderedSubjects
    <3>2. {"RenderStoryboard", "ContinueRenderStory", "GenStoryboardImages"}
            \subseteq GenOps \ {"RenderStory"}
      BY DEF GenOps
    <3>3. CASE UNCHANGED worker /\ UNCHANGED rendering
      BY <3>3 DEF rendering, RenderingInv, RenderingTypeOK, RowsInv, WritesInv, AloneWriting,
         Serving, Busy, Writing, Rendered, GensByStory
    <3>4. CASE RenderStoryboard(w, u, s, b)
      BY <3>1, <3>2, <3>4, BeginStep DEF RenderStoryboard
    <3>5. CASE ContinueRenderStory(w, u, s, b)
      BY <3>1, <3>2, <3>5, BeginStep DEF ContinueRenderStory
    <3>6. CASE GenStoryboardImages(w, u, s, b)
      BY <3>1, <3>2, <3>3, <3>6, BeginStep DEF GenStoryboardImages, Serves
    <3> QED
      BY <2>3, <3>4, <3>5, <3>6
  <2> QED
    BY <1>2, <2>1, <2>2, <2>3
<1>3. ASSUME NEW w \in Workers, NEW u \in Users, NEW r \in RoleIds,
             NEW op \in {"RenderStoryRoleDetail", "RenderStoryRole",
                         "RenderStoryRoleContinuously"},
             RenderRole(w, u, op, r)
      PROVE  RenderingInv'
  <2>1. On(0, 0, r) \in RenderedSubjects
    BY RenderingAssumption DEF On, RenderedSubjects
  <2>2. op \in GenOps \ {"RenderStory"}
    BY DEF GenOps
  <2>3. UNCHANGED rendering
    BY <1>3 DEF RenderRole
  <2>4. CASE op = "RenderStoryRole"
    <3>1. Begins(w, u, op, On(0, 0, r), "AskModel", None)
      BY <1>3, <2>4 DEF RenderRole
    <3> QED
      BY <2>1, <2>2, <2>3, <2>4, <3>1, BeginStep
  <2>5. CASE op # "RenderStoryRole"
    <3>1. Begins(w, u, op, On(0, 0, r), "CreateStoryGen", None)
      BY <1>3, <2>5 DEF RenderRole
    <3> QED
      BY <2>1, <2>2, <2>3, <3>1, BeginStep
  <2> QED
    BY <2>4, <2>5
<1>4. CASE UNCHANGED <<worker, rendering>>
  BY <1>4 DEF rendering, RenderingInv, RenderingTypeOK, RowsInv, WritesInv, AloneWriting,
     Serving, Busy, Writing, Rendered, GensByStory
<1>5. CASE (\E s \in StoryIds : GetStoryRender(s)) \/ GenerateRoleDescription
           \/ GenerateStoryRolePoster \/ UNCHANGED renderingSpecVars
  BY <1>4, <1>5 DEF GetStoryRender, GenerateRoleDescription, GenerateStoryRolePoster,
     Serves, renderingSpecVars, requestVars
<1> QED
  BY <1>1, <1>2, <1>3, <1>5 DEF RenderingNext

\* A story whose earlier row was not overlooked, by requests that met or a look-up
\* that failed, has one writer, and no row of a board is marked as being rendered,
\* for any number of stories, boards and requests.
THEOREM RenderingInvariance == RenderingSpec => []RenderingInv
<1>1. RequestsInit /\ RenderingInit => RenderingInv
  BY RenderingInitHolds
<1>2. RenderingInv /\ [RenderingNext]_renderingSpecVars => RenderingInv'
  BY RenderingNextKeeps
<1> QED
  BY <1>1, <1>2, PTL DEF RenderingSpec, renderingSpecVars

\* The model is asked to write a story once, unless two requests for it met or the
\* look-up of an earlier row failed.
THEOREM WrittenOnce == RenderingSpec => []StoryIsWrittenOnce
<1>1. RenderingInv => StoryIsWrittenOnce
  BY DEF RenderingInv, WritesInv, StoryIsWrittenOnce
<1> QED
  BY <1>1, RenderingInvariance, PTL

\* No rendering of a board is ever found again.
THEOREM BoardsAreNeverFound == RenderingSpec => []BoardRenderIsNeverFound
<1>1. ASSUME RenderingInv, NEW b \in BoardIds
      PROVE  GensByStoryBoard(b) = {}
  BY <1>1, RenderingAssumption DEF RenderingInv, RowsInv, GensByStoryBoard
<1>2. RenderingInv => BoardRenderIsNeverFound
  BY <1>1 DEF BoardRenderIsNeverFound, GenStoryboardText, GetStoryBoardRender
<1> QED
  BY <1>2, RenderingInvariance, PTL

=============================================================================
