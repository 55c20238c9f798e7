------------------------------- MODULE Groups -------------------------------
(***************************************************************************)
(* Groups, their members and the member counts of their profiles            *)
(* (pkg/group/group.go, models/group.go), and the default group that the    *)
(* first request of a user asks for (UserInit of pkg/user/user.go).         *)
(*                                                                          *)
(* A group has any number of profile rows: each creation adds one, the      *)
(* database counts members in all of them, and the first is the one read.   *)
(***************************************************************************)
EXTENDS Requests, Sequences, FiniteSets

CONSTANT GroupIds

ASSUME GroupsAssumption == GroupIds \subseteq Nat \ {0}

VARIABLES
    group,         \* the group rows
    member,        \* the group_member rows that are not deleted, per user
    groupProfile,  \* the member counts of the profile rows of each group
    joined,        \* the joins of each group that were answered
    uncounted,     \* the groups whose members changed before they had a profile
    left,          \* the users that left a group, with that group
    given          \* the users that UserInit gave their default group

groups == <<group, member, groupProfile, joined, uncounted, left, given>>

-----------------------------------------------------------------------------
\* A user gives every group it creates the same name; the default group of a
\* user has another.  A row that was not inserted yet has no creator.
NoGroup == [creator |-> None, default |-> FALSE, live |-> FALSE]

GroupsInit ==
    /\ group = [g \in GroupIds |-> NoGroup]
    /\ member = [g \in GroupIds |-> [u \in Users |-> 0]]
    /\ groupProfile = [g \in GroupIds |-> <<>>]
    /\ joined = [g \in GroupIds |-> 0]
    /\ uncounted = {}
    /\ left = {}
    /\ given = {}

Free == {g \in GroupIds : group[g] = NoGroup}

LowestId(ids) == CHOOSE g \in ids : \A other \in ids : g <= other

Named(u, default) ==
    {g \in GroupIds : group[g] = [creator |-> u, default |-> default, live |-> TRUE]}

IsDefault(w) == worker[w].op = "UserInit"

\* got: the group that is created or found, and whether it was the default
\* group before.
Target(g, found) == [id |-> g, found |-> found]

-----------------------------------------------------------------------------
\* Only an existing group is named in a request; a deleted one may be.
Known == GroupIds \ Free

CreateGroup(w, u) ==
    /\ Free # {}
    /\ Begins(w, u, "CreateGroup", None, "FindGroup", Target(None, FALSE))
    /\ UNCHANGED groups

\* Scan reports no missing row, so the default group is made anew in any case.
UserInit(w, u) ==
    /\ Free # {}
    /\ Begins(w, u, "UserInit", None, "FindGroup",
              Target(None, Named(u, TRUE) # {}))
    /\ UNCHANGED groups

\* A group of that name and creator is used again.
FindGroup(w) ==
    LET mine == Named(worker[w].user, IsDefault(w))
    IN  /\ worker[w].pc = "FindGroup"
        /\ IF mine = {} THEN Goes(w, "InsertGroup")
           ELSE GoesWith(w, "CreateGroupProfile",
                         [worker[w].got EXCEPT !.id = LowestId(mine)])
        /\ UNCHANGED groups

InsertGroup(w) ==
    /\ worker[w].pc = "InsertGroup"
    /\ Free # {}
    /\ group' = [group EXCEPT ![LowestId(Free)] =
                    [creator |-> worker[w].user, default |-> IsDefault(w),
                     live |-> TRUE]]
    /\ GoesWith(w, "CreateGroupProfile",
                [worker[w].got EXCEPT !.id = LowestId(Free)])
    /\ UNCHANGED <<member, groupProfile, joined, uncounted, left, given>>

\* UserInit only logs the error.
CreateGroupProfile(w) ==
    /\ worker[w].pc = "CreateGroupProfile"
    /\ \/ /\ groupProfile' = [groupProfile EXCEPT ![worker[w].got.id] = Append(@, 1)]
          /\ Goes(w, "FindMember")
       \/ IsDefault(w) /\ Logs(w, "FindMember") /\ UNCHANGED groupProfile
    /\ UNCHANGED <<group, member, joined, uncounted, left, given>>

-----------------------------------------------------------------------------
\* Mutant of IsMember: no earlier row is looked for.
NeverMember(g, u) == FALSE

IsMember(g, u) == member[g][u] > 0

\* GetByID reads nothing, so the group may be deleted.
JoinGroup(w, u, g) ==
    /\ g \in Known
    /\ ~ IsMember(g, u)
    /\ Begins(w, u, "JoinGroup", None, "FindMember", Target(g, FALSE))
    /\ UNCHANGED groups

\* GroupMember.Create looks for a row as well, and fails when there is one.
FindMember(w) ==
    /\ worker[w].pc = "FindMember"
    /\ Goes(w, IF IsMember(worker[w].got.id, worker[w].user) THEN "idle"
               ELSE "InsertMember")
    /\ UNCHANGED groups

InsertMember(w) ==
    /\ worker[w].pc = "InsertMember"
    /\ member' = [member EXCEPT ![worker[w].got.id][worker[w].user] = @ + 1]
    /\ Goes(w, "IncMembers")
    /\ UNCHANGED <<group, groupProfile, joined, uncounted, left, given>>

AddMembers(g, n) ==
    /\ groupProfile' = [groupProfile EXCEPT
                           ![g] = [i \in DOMAIN @ |-> @[i] + n]]
    /\ uncounted' = IF groupProfile[g] = <<>> THEN uncounted \cup {g}
                    ELSE uncounted

\* Called by GroupMember.Create; UserInit then refuses a group that was not
\* there when it began.
IncMembers(w) ==
    LET u == worker[w].user
        answers == IsDefault(w) /\ worker[w].got.found
    IN  /\ worker[w].pc = "IncMembers"
        /\ AddMembers(worker[w].got.id, 1)
        /\ given' = IF answers THEN given \cup {u} ELSE given
        /\ Goes(w, IF worker[w].op = "JoinGroup" THEN "IncMembersAgain"
                   ELSE "idle")
        /\ UNCHANGED <<group, member, joined, left>>

\* Called by JoinGroup itself.
IncMembersAgain(w) ==
    LET g == worker[w].got.id
    IN  /\ worker[w].pc = "IncMembersAgain"
        /\ AddMembers(g, 1)
        /\ joined' = [joined EXCEPT ![g] = @ + 1]
        /\ Ends(w)
        /\ UNCHANGED <<group, member, left, given>>

LeaveGroup(w, u, g) ==
    /\ g \in Known
    /\ IsMember(g, u)
    /\ Begins(w, u, "LeaveGroup", None, "DeleteMember", Target(g, FALSE))
    /\ UNCHANGED groups

\* Every row of the user and the group.
DeleteMember(w) ==
    LET g == worker[w].got.id
        u == worker[w].user
    IN  /\ worker[w].pc = "DeleteMember"
        /\ member' = [member EXCEPT ![g][u] = 0]
        /\ left' = left \cup {<<u, g>>}
        /\ Goes(w, "DecMembers")
        /\ UNCHANGED <<group, groupProfile, joined, uncounted, given>>

DecMembers(w) ==
    /\ worker[w].pc = "DecMembers"
    /\ AddMembers(worker[w].got.id, -1)
    /\ Ends(w)
    /\ UNCHANGED <<group, member, joined, left, given>>

\* The condition is given after the UPDATE has run: it hits every group.
DeleteGroup ==
    /\ Known # {}
    /\ Serves
    /\ group' = [g \in GroupIds |-> [group[g] EXCEPT !.live = FALSE]]
    /\ UNCHANGED <<member, groupProfile, joined, uncounted, left, given>>

-----------------------------------------------------------------------------
GroupsStep(w) ==
    \/ FindGroup(w) \/ InsertGroup(w) \/ CreateGroupProfile(w)
    \/ FindMember(w) \/ InsertMember(w)
    \/ IncMembers(w) \/ IncMembersAgain(w)
    \/ DeleteMember(w) \/ DecMembers(w)
    \/ CutOff(w) /\ UNCHANGED groups

GroupsNext ==
    \/ \E w \in Workers : GroupsStep(w)
    \/ \E w \in Workers, u \in Users : CreateGroup(w, u) \/ UserInit(w, u)
    \/ \E w \in Workers, u \in Users, g \in GroupIds :
          JoinGroup(w, u, g) \/ LeaveGroup(w, u, g)
    \/ DeleteGroup

GroupsSpec == RequestsInit /\ GroupsInit /\ [][GroupsNext]_<<requestVars, groups>>

-----------------------------------------------------------------------------
(* Properties.                                                             *)

GroupsTypeOK ==
    /\ group \in [GroupIds -> [creator : Users \cup {None}, default : BOOLEAN,
                               live : BOOLEAN]]
    /\ member \in [GroupIds -> [Users -> Nat]]
    /\ groupProfile \in [GroupIds -> Seq(Int)]
    /\ joined \in [GroupIds -> Nat]
    /\ uncounted \subseteq GroupIds
    /\ left \subseteq Users \X GroupIds
    /\ given \subseteq Users

\* While no user sends a request before the last was answered and no call
\* fails, the first profile row of a group counts its members, one for its
\* creation and one more for every join: a join is counted twice and taken off
\* once.  Only a group that was joined between the insertions of its row and of
\* its profile counts fewer.
JoinsCountTwice ==
    AtRest /\ Undisturbed => \A g \in Known \ uncounted :
        groupProfile[g][1] =
            Cardinality({u \in Users : IsMember(g, u)}) + 1 + joined[g]

\* A user that sends one request at a time, none of which fails, is given its
\* default group only after it left that group, or when it was deleted under
\* the request: the request that makes the group answers with an error, and so
\* does each later one of a member.
DefaultGroupAfterLeaving ==
    Undisturbed => \A u \in given : \E g \in Known :
        /\ group[g].default /\ group[g].creator = u
        /\ <<u, g>> \in left \/ ~ group[g].live
=============================================================================
